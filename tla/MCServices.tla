----------------------------- MODULE MCServices -----------------------------
(* Small instances of the services of the shop, one part per behaviour:    *)
(* no part reads what another writes, but for the sales, which the models  *)
(* of those who read them make for themselves.                             *)
EXTENDS CustomerCredit, PromptStore, AutomationRules, Accounts, Catalogue, BusinessMemory,
        Conversations, Documents, Reports, Detectors, Advisor, BusinessDNA, TLC

VARIABLE part

CONSTANTS r1, r2, r3, r4, r5, s1, s2, phone, apple, talk, Parts

Interchangeable == Permutations({r1, r2, r3}) \cup Permutations({s1, s2})

(* What a cfg file cannot write.                                           *)
SoldAndLeft == {[sold |-> 31, stock |-> 31], [sold |-> 200, stock |-> -1],
                [sold |-> 200, stock |-> 31]}
FallShort == {<<31, 31>>, <<31, 62>>, <<62, 31>>, <<62, 62>>}
Takes == {-1, 3}
Recognisable == {<< >>, <<96>>, <<-1, 40>>, <<-1>>}
Images == {{}, {"tesseract", "easyocr"}, {"easyocr", "whisper"}, {"faster_whisper", "whisper"}}

(* The parts with many beginnings have one while another is looked at.     *)
Init ==
  /\ part \in Parts
  /\ CreditInit /\ PromptInit /\ AccountInit /\ CatalogueInit
  /\ AutoInit /\ (part # "automation" => dialect = "sqlite")
  /\ MemoryInit /\ (part # "memory" => database = "sqlite")
  /\ ConversationInit /\ (part # "conversations" => engine = "mock")
  /\ IF part = "documents" THEN DocumentInit
     ELSE /\ engines = {} /\ loaded = {} /\ files = {} /\ cut = {} /\ outages = 0
          /\ upload = [u \in Uploads |-> [at |-> "sent", kind |-> "ocr", answer |-> NoAnswer]]
  /\ IF part = "reports" THEN ReportInit
     ELSE /\ reportStore = "sqlite" /\ today = [weekday |-> 2, day |-> 5]
          /\ receipt = [s \in Receipts |-> NoReceipt]
          /\ report = [at |-> "idle", kind |-> "none", answers |-> << >>, opening |-> receipt]
          /\ traffic = [value |-> 0, count |-> 0]
  /\ IF part = "detectors" THEN DetectorInit
     ELSE /\ ware = [w \in Wares |-> [sold |-> 31, stock |-> 31]]
          /\ revenues = << >> /\ peak = FALSE /\ told = << >>
  /\ IF part = "advice" THEN AdviceInit
     ELSE /\ adviceStore = "sqlite" /\ invoice = [s \in Invoices |-> [status |-> "none", age |-> 2]]
          /\ advice = NoAdvice /\ witness = Nobody
  /\ IF part = "profile" THEN DNAInit
     ELSE /\ shop = [purchase |-> [s \in Purchases |-> Missing], shelf |-> [s \in Shelves |-> "none"],
                     patron |-> [c \in Patrons |-> [NewPatron EXCEPT !.there = FALSE]]]
          /\ profile = [at |-> "running", kind |-> "health", answers |-> << >>]
          /\ signs = {} /\ changes = 0

Next ==
  /\ UNCHANGED part
  /\ \/ /\ part = "credit" /\ CreditNext
        /\ UNCHANGED <<promptVars, autoVars, accountVars, catalogueVars, memoryVars, conversationVars,
                       documentVars, reportVars, detectorVars, adviceVars, dnaVars>>
     \/ /\ part = "prompts" /\ PromptNext
        /\ UNCHANGED <<creditVars, autoVars, accountVars, catalogueVars, memoryVars, conversationVars,
                       documentVars, reportVars, detectorVars, adviceVars, dnaVars>>
     \/ /\ part = "automation" /\ AutoNext
        /\ UNCHANGED <<creditVars, promptVars, accountVars, catalogueVars, memoryVars, conversationVars,
                       documentVars, reportVars, detectorVars, adviceVars, dnaVars>>
     \/ /\ part = "accounts" /\ AccountNext
        /\ UNCHANGED <<creditVars, promptVars, autoVars, catalogueVars, memoryVars, conversationVars,
                       documentVars, reportVars, detectorVars, adviceVars, dnaVars>>
     \/ /\ part = "catalogue" /\ CatalogueNext
        /\ UNCHANGED <<creditVars, promptVars, autoVars, accountVars, memoryVars, conversationVars,
                       documentVars, reportVars, detectorVars, adviceVars, dnaVars>>
     \/ /\ part = "memory" /\ MemoryNext
        /\ UNCHANGED <<creditVars, promptVars, autoVars, accountVars, catalogueVars, conversationVars,
                       documentVars, reportVars, detectorVars, adviceVars, dnaVars>>
     \/ /\ part = "conversations" /\ ConversationNext
        /\ UNCHANGED <<creditVars, promptVars, autoVars, accountVars, catalogueVars, memoryVars,
                       documentVars, reportVars, detectorVars, adviceVars, dnaVars>>
     \/ /\ part = "documents" /\ DocumentNext
        /\ UNCHANGED <<creditVars, promptVars, autoVars, accountVars, catalogueVars, memoryVars,
                       conversationVars, reportVars, detectorVars, adviceVars, dnaVars>>
     \/ /\ part = "reports" /\ ReportNext
        /\ UNCHANGED <<creditVars, promptVars, autoVars, accountVars, catalogueVars, memoryVars,
                       conversationVars, documentVars, detectorVars, adviceVars, dnaVars>>
     \/ /\ part = "detectors" /\ DetectorNext
        /\ UNCHANGED <<creditVars, promptVars, autoVars, accountVars, catalogueVars, memoryVars,
                       conversationVars, documentVars, reportVars, adviceVars, dnaVars>>
     \/ /\ part = "advice" /\ AdviceNext
        /\ UNCHANGED <<creditVars, promptVars, autoVars, accountVars, catalogueVars, memoryVars,
                       conversationVars, documentVars, reportVars, detectorVars, dnaVars>>
     \/ /\ part = "profile" /\ DNANext
        /\ UNCHANGED <<creditVars, promptVars, autoVars, accountVars, catalogueVars, memoryVars,
                       conversationVars, documentVars, reportVars, detectorVars, adviceVars>>

Spec ==
  Init /\ [][Next]_<<part, creditVars, promptVars, autoVars, accountVars, catalogueVars,
                      memoryVars, conversationVars, documentVars, reportVars,
                      detectorVars, adviceVars, dnaVars>>

(* Every variable of every part holds a value of its kind.                 *)
ServicesTypeOK ==
  /\ CreditTypeOK /\ PromptTypeOK /\ AutoTypeOK /\ AccountTypeOK /\ CatalogueTypeOK
  /\ MemoryTypeOK /\ ConversationTypeOK /\ DocumentTypeOK /\ ReportTypeOK
  /\ DetectorTypeOK /\ AdviceTypeOK /\ DNATypeOK
=============================================================================
