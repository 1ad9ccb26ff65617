--------------------------- MODULE AnalysesProofs ---------------------------
(***************************************************************************)
(* What holds of the services that compute an answer from what they read,  *)
(* one section for each, and last of the composition of all services: for  *)
(* every number of concurrent requests and every value of the other        *)
(* constants.                                                              *)
(***************************************************************************)
EXTENDS MCServices, ServicesProofs

----------------------------------------------------------------------------
(* Uploaded documents.                                                     *)

Places == {"sent", "read", "recognising", "done", "failed", "not_implemented"}
Fit(r) == r \in [at : Places, kind : {"ocr", "voice"}, answer : {r.answer}]
UploadsFit == DOMAIN upload = Uploads /\ \A u \in Uploads : Fit(upload[u])

DocumentInv == UploadsFit /\ files \subseteq Uploads /\ FilesAreRemoved

Paced(r, a) == [r EXCEPT !.at = a]
Recorded(r, answer) == [r EXCEPT !.at = "done", !.answer = answer]

(* What a step changes of a request.                                       *)
LEMMA UploadMoves ==
  /\ \A r : \A a \in Places : Fit(r) => Fit(Paced(r, a)) /\ Paced(r, a).at = a
  /\ \A r, answer : Fit(r) => Fit(Recorded(r, answer)) /\ Recorded(r, answer).at = "done"
<1>1. ASSUME NEW r, NEW a \in Places, Fit(r) PROVE Fit(Paced(r, a)) /\ Paced(r, a).at = a
  <2>1. PICK x : r \in [at : Places, kind : {"ocr", "voice"}, answer : {x}]
    BY <1>1 DEF Fit
  <2>2. Paced(r, a) \in [at : Places, kind : {"ocr", "voice"}, answer : {x}] /\ Paced(r, a).at = a
    BY <2>1 DEF Paced
  <2> QED
    BY <2>2 DEF Fit
<1>2. ASSUME NEW r, NEW answer, Fit(r) PROVE Fit(Recorded(r, answer)) /\ Recorded(r, answer).at = "done"
  <2>1. PICK x : r \in [at : Places, kind : {"ocr", "voice"}, answer : {x}]
    BY <1>2 DEF Fit
  <2>2. /\ Recorded(r, answer) \in [at : Places, kind : {"ocr", "voice"}, answer : {answer}]
        /\ Recorded(r, answer).at = "done"
    BY <2>1 DEF Recorded, Places
  <2> QED
    BY <2>2 DEF Fit
<1> QED
  BY <1>1, <1>2

(* One request moves, and what it leaves on disk is accounted for.         *)
LEMMA OneUploadInv ==
  ASSUME DocumentInv, NEW u \in Uploads, NEW r, Fit(r), upload' = [upload EXCEPT ![u] = r],
         cut \subseteq cut', files' \subseteq files \cup {u},
         u \in files' => r.at = "recognising" \/ u \in cut'
  PROVE  DocumentInv'
BY DEF DocumentInv, UploadsFit, FilesAreRemoved

(* Each step keeps the invariant.                                          *)
LEMMA DocumentStepInv ==
  ASSUME DocumentInv, [DocumentNext]_documentVars
  PROVE  DocumentInv'
<1>1. CASE UNCHANGED documentVars
  BY <1>1 DEF documentVars, DocumentInv, UploadsFit, FilesAreRemoved
<1>2. CASE Outage
  <2>1. /\ upload' = [u \in Uploads |-> IF upload[u].at \in {"read", "recognising"}
                        THEN Paced(upload[u], "failed") ELSE upload[u]]
        /\ files' = files /\ cut' = cut \cup {u \in Uploads : upload[u].at \in {"read", "recognising"}}
    BY <1>2 DEF Outage, Paced, DocumentInv, UploadsFit
  <2>2. UploadsFit'
    BY <2>1, UploadMoves DEF DocumentInv, UploadsFit, Places
  <2>3. FilesAreRemoved'
    BY <2>1 DEF DocumentInv, FilesAreRemoved
  <2> QED
    BY <2>1, <2>2, <2>3 DEF DocumentInv
<1>3. ASSUME NEW u \in Uploads,
             Receive(u) \/ LoadFails(u) \/ WriteFile(u) \/ WriteFails(u) \/ EngineFails(u)
      PROVE  DocumentInv'
  <2>1. Fit(upload[u])
    BY DEF DocumentInv, UploadsFit
  <2>2. CASE Receive(u)
    <3>1. PICK a \in {"not_implemented", "read"} : upload' = [upload EXCEPT ![u] = Paced(@, a)]
      BY <2>2 DEF Receive, Paced
    <3>2. u \in files => u \in cut
      BY <2>2 DEF Receive, DocumentInv, FilesAreRemoved
    <3>3. Fit(Paced(upload[u], a)) /\ upload' = [upload EXCEPT ![u] = Paced(upload[u], a)]
      BY <3>1, <2>1, UploadMoves DEF Places
    <3> QED
      BY <3>2, <3>3, <2>2, OneUploadInv DEF Receive
  <2>3. CASE LoadFails(u)
    <3>1. upload' = [upload EXCEPT ![u] = Paced(upload[u], "failed")]
      BY <2>3 DEF LoadFails, Paced
    <3>2. u \in files => u \in cut
      BY <2>3 DEF LoadFails, DocumentInv, FilesAreRemoved
    <3>3. Fit(Paced(upload[u], "failed"))
      BY <2>1, UploadMoves DEF Places
    <3> QED
      BY <3>1, <3>2, <3>3, <2>3, OneUploadInv DEF LoadFails
  <2>4. CASE WriteFile(u)
    <3>1. upload' = [upload EXCEPT ![u] = Paced(upload[u], "recognising")]
      BY <2>4 DEF WriteFile, Paced
    <3>2. Fit(Paced(upload[u], "recognising")) /\ Paced(upload[u], "recognising").at = "recognising"
      BY <2>1, UploadMoves DEF Places
    <3> QED
      BY <3>1, <3>2, <2>4, OneUploadInv DEF WriteFile
  <2>5. CASE WriteFails(u)
    <3>1. upload' = [upload EXCEPT ![u] = Paced(upload[u], "failed")]
      BY <2>5 DEF WriteFails, Paced
    <3>2. Fit(Paced(upload[u], "failed"))
      BY <2>1, UploadMoves DEF Places
    <3> QED
      BY <3>1, <3>2, <2>5, OneUploadInv DEF WriteFails
  <2>6. CASE EngineFails(u)
    <3>1. upload' = [upload EXCEPT ![u] = Paced(upload[u], "failed")]
      BY <2>6 DEF EngineFails, Paced
    <3>2. Fit(Paced(upload[u], "failed"))
      BY <2>1, UploadMoves DEF Places
    <3> QED
      BY <3>1, <3>2, <2>6, OneUploadInv DEF EngineFails, Removed
  <2> QED
    BY <1>3, <2>2, <2>3, <2>4, <2>5, <2>6
<1>4. ASSUME NEW u \in Uploads, NEW pieces \in Recognitions, Recognise(u, pieces)
      PROVE  DocumentInv'
  <2> DEFINE answer == Recognised(Processor(upload[u].kind), pieces)
  <2>1. upload' = [upload EXCEPT ![u] = Recorded(upload[u], answer)]
    BY <1>4 DEF Recognise, Recorded
  <2>2. Fit(upload[u])
    BY DEF DocumentInv, UploadsFit
  <2>3. Fit(Recorded(upload[u], answer))
    BY <2>2, UploadMoves
  <2>4. files' = files \ {u} /\ cut' = cut
    BY <1>4 DEF Recognise, Removed
  <2> HIDE DEF answer
  <2> QED
    BY <2>1, <2>3, <2>4, OneUploadInv
<1> QED
  BY <1>1, <1>2, <1>3, <1>4 DEF DocumentNext

(* A temporary file outlives its request only if a restart or a full disk  *)
(* cut it short (document_processing.py:66-82, 104-122, 144-164, 184-199). *)
THEOREM FilesRemoved == DocumentSpec => []FilesAreRemoved
<1>1. ASSUME DocumentInit PROVE DocumentInv
  BY <1>1 DEF DocumentInit, DocumentInv, UploadsFit, Fit, Places, FilesAreRemoved, NoAnswer
<1> QED
  BY <1>1, DocumentStepInv, PTL DEF DocumentSpec, DocumentInv

----------------------------------------------------------------------------
(* Who is served has an tool, and what was answered is a share.          *)
EnginesAreThere ==
  /\ loaded \subseteq engines /\ outages \in 0..MaxOutages
  /\ files \subseteq Uploads /\ cut \subseteq Uploads
  /\ \A u \in Uploads :
       /\ upload[u].at \in {"read", "recognising"} => Processor(upload[u].kind) # "none"
       /\ upload[u].answer.confidence \in 0..100

LEMMA ProcessorsAreInstalled ==
  \A kind : Processor(kind) # "none" => Processor(kind) \in engines
BY DEF Processor

(* A mean of percentages is one.                                           *)
LEMMA MeanIsAShare ==
  ASSUME NEW pieces, NEW S, IsFiniteSet(S), \A i \in S : pieces[i] \in 0..100
  PROVE  Mean(pieces, S) \in 0..100
<1>1. CASE S = {}
  BY <1>1 DEF Mean
<1>2. CASE S # {}
  <2> DEFINE sum == SumFunctionOnSet(pieces, S)
             n == Cardinality(S)
  <2>1. sum \in 0..(100 * n)
    BY SumBounded
  <2>2. n \in Nat /\ n # 0
    BY <1>2, FS_CardinalityType, FS_EmptySet
  <2>3. Mean(pieces, S) = sum \div n
    BY <1>2 DEF Mean
  <2> HIDE DEF sum, n
  <2>4. sum \in Nat /\ sum <= 100 * n /\ n \in Nat \ {0}
    BY <2>1, <2>2
  <2>5. sum \div n \in 0..100
    BY <2>4
  <2> QED
    BY <2>3, <2>5
<1> QED
  BY <1>1, <1>2

LEMMA RecognisedIsAShare ==
  ASSUME NEW pieces \in Recognitions, NEW tool \in {"tesseract", "easyocr", "faster_whisper", "whisper"}
  PROVE  Recognised(tool, pieces).confidence \in 0..100
<1> DEFINE S == {i \in DOMAIN pieces : pieces[i] >= 0}
<1>1. pieces \in Seq(-1..100)
  BY DocumentAssumption
<1>2. IsFiniteSet(DOMAIN pieces) /\ \A i \in DOMAIN pieces : pieces[i] \in -1..100
  <2>1. DOMAIN pieces = 1..Len(pieces) /\ Len(pieces) \in Nat
    BY <1>1
  <2>2. \A i \in 1..Len(pieces) : pieces[i] \in -1..100
    <3> DEFINE R == -1..100
    <3>1. pieces \in Seq(R)
      BY <1>1
    <3> HIDE DEF R
    <3>2. \A i \in 1..Len(pieces) : pieces[i] \in R
      BY <3>1
    <3> QED
      BY <3>2 DEF R
  <2>3. IsFiniteSet(1..Len(pieces))
    BY <2>1, FS_Interval
  <2> QED
    BY <2>1, <2>2, <2>3
<1>3. IsFiniteSet(S) /\ \A i \in S : pieces[i] \in 0..100
  BY <1>2, FS_Subset
<1>4. Mean(pieces, S) \in 0..100
  BY <1>3, MeanIsAShare
<1> QED
  BY <1>4 DEF Recognised, PieceConfidences

(* The requests that move keep their tool.                               *)
LEMMA DocumentTypesStep ==
  ASSUME DocumentInv, EnginesAreThere, [DocumentNext]_documentVars
  PROVE  EnginesAreThere'
<1>0. /\ \A u \in Uploads : Fit(upload[u])
      /\ DOMAIN upload = Uploads
      /\ engines' = engines
      /\ \A u \in Uploads : upload[u].kind \in {"ocr", "voice"} /\ upload[u].at \in Places
  BY DEF DocumentInv, UploadsFit, Fit, documentVars, DocumentNext, Outage, Receive, LoadFails,
         WriteFile, WriteFails, EngineFails, Recognise
<1>1. CASE UNCHANGED documentVars
  BY <1>1 DEF documentVars, EnginesAreThere, Processor
<1>2. CASE Outage
  <2>1. \A u \in Uploads : /\ upload'[u].kind = upload[u].kind /\ upload'[u].answer = upload[u].answer
                           /\ upload'[u].at \notin {"read", "recognising"}
    BY <1>0, <1>2 DEF Outage, Fit
  <2> QED
    BY <2>1, <1>2, DocumentAssumption DEF Outage, EnginesAreThere
<1>3. ASSUME NEW u \in Uploads,
             Receive(u) \/ LoadFails(u) \/ WriteFile(u) \/ WriteFails(u) \/ EngineFails(u)
      PROVE  EnginesAreThere'
  <2>1. \A v \in Uploads : /\ upload'[v].kind = upload[v].kind /\ upload'[v].answer = upload[v].answer
                           /\ v # u => upload'[v].at = upload[v].at
    <3>1. PICK a \in Places : upload' = [upload EXCEPT ![u] = Paced(upload[u], a)]
      BY <1>0, <1>3 DEF Receive, LoadFails, WriteFile, WriteFails, EngineFails, Paced, Places
    <3>2. Paced(upload[u], a).kind = upload[u].kind /\ Paced(upload[u], a).answer = upload[u].answer
      BY <1>0 DEF Fit, Paced
    <3> QED
      BY <1>0, <3>1, <3>2
  <2>2. upload'[u].at \in {"read", "recognising"} => Processor(upload[u].kind) # "none"
    BY <1>0, <1>3 DEF Fit, Receive, LoadFails, WriteFile, WriteFails, EngineFails, EnginesAreThere
  <2>3. \A kind : Processor(kind)' = Processor(kind)
    BY <1>0 DEF Processor
  <2>4. loaded' \subseteq engines
    <3>1. loaded' = loaded \/ WriteFile(u)
      BY <1>3 DEF Receive, LoadFails, WriteFails, EngineFails
    <3>2. WriteFile(u) => loaded' \subseteq loaded \cup {Processor(upload[u].kind)}
                          /\ Processor(upload[u].kind) # "none"
      BY DEF WriteFile, LoadsFirst, EnginesAreThere
    <3> QED
      BY <3>1, <3>2, ProcessorsAreInstalled DEF EnginesAreThere
  <2>5. /\ files' \subseteq Uploads /\ cut' \subseteq Uploads /\ outages' = outages
    BY <1>3 DEF Receive, LoadFails, WriteFile, WriteFails, EngineFails, EnginesAreThere, Removed
  <2> QED
    BY <1>0, <2>1, <2>2, <2>3, <2>4, <2>5 DEF EnginesAreThere
<1>4. ASSUME NEW u \in Uploads, NEW pieces \in Recognitions, Recognise(u, pieces)
      PROVE  EnginesAreThere'
  <2> DEFINE tool == Processor(upload[u].kind)
  <2>1. tool # "none" /\ tool \in engines
    BY <1>4, ProcessorsAreInstalled DEF Recognise, EnginesAreThere
  <2>2. tool \in {"tesseract", "easyocr", "faster_whisper", "whisper"}
    BY <2>1 DEF Processor
  <2>3. /\ upload'[u].at = "done" /\ upload'[u].answer = Recognised(tool, pieces)
        /\ \A v \in Uploads \ {u} : upload'[v] = upload[v]
        /\ \A v \in Uploads : upload'[v].kind = upload[v].kind
    BY <1>0, <1>4 DEF Recognise, Fit
  <2>4. \A kind : Processor(kind)' = Processor(kind)
    BY <1>0 DEF Processor
  <2>5. /\ loaded' \subseteq engines /\ outages' = outages /\ cut' = cut /\ files' \subseteq files
    BY <1>4, <2>1 DEF Recognise, EnginesAreThere, Removed
  <2>6. upload'[u].answer.confidence \in 0..100
    BY <2>2, <2>3, RecognisedIsAShare
  <2> HIDE DEF tool
  <2> QED
    BY <1>0, <2>3, <2>4, <2>5, <2>6 DEF EnginesAreThere
<1> QED
  BY <1>1, <1>2, <1>3, <1>4 DEF DocumentNext

LEMMA DocumentsBegin ==
  ASSUME upload \in [Uploads -> [at : {"sent"}, kind : {"ocr", "voice"}, answer : {NoAnswer}]],
         loaded = {}, files = {}, cut = {}, outages = 0
  PROVE  DocumentInv /\ EnginesAreThere
<1>1. DocumentInv
  BY DEF DocumentInv, UploadsFit, Fit, Places, FilesAreRemoved
<1>2. \A u \in Uploads : upload[u].at = "sent" /\ upload[u].answer.confidence \in 0..100
  BY DEF NoAnswer
<1> QED
  BY <1>1, <1>2, DocumentAssumption DEF EnginesAreThere

LEMMA DocumentsTyped == DocumentInv /\ EnginesAreThere => DocumentTypeOK
BY DEF DocumentInv, UploadsFit, Fit, Places, EnginesAreThere, DocumentTypeOK

----------------------------------------------------------------------------
(* Advice: observations, insights, forecasts, chats.                       *)

----------------------------------------------------------------------------
SalesRows == [Invoices -> [status : {"none", "completed", "voided"}, age : Nat]]
InvoiceTypes == invoice \in SalesRows

(* The figures of a business, read off its sales.                          *)
LEMMA FiguresOfSales ==
  ASSUME NEW sales \in SalesRows
  PROVE  /\ DaysOfData(sales) \in Nat /\ Transactions(sales) \in Nat
         /\ \A i \in Completed(sales) : sales[i].age <= DaysOfData(sales)
         /\ Completed(sales) # {} => \E i \in Completed(sales) : sales[i].age = DaysOfData(sales)
<1> DEFINE done == Completed(sales)
           ages == {sales[i].age : i \in done}
<1>1. done \subseteq Invoices /\ \A i \in Invoices : sales[i].age \in Nat
  BY DEF SalesRows, Completed
<1>2. IsFiniteSet(done) /\ IsFiniteSet(ages)
  <2>1. IsFiniteSet(done)
    BY <1>1, AdviceAssumption, FS_Subset
  <2> DEFINE f == [i \in done |-> sales[i].age]
  <2>2. f \in Surjection(done, ages)
    BY DEF Surjection
  <2> HIDE DEF done, ages, f
  <2>3. IsFiniteSet(ages)
    BY <2>1, <2>2, FS_Surjection
  <2> QED
    BY <2>1, <2>3
<1>3. Transactions(sales) \in Nat
  BY <1>2, FS_CardinalityType DEF Transactions
<1>4. CASE done = {}
  BY <1>3, <1>4 DEF DaysOfData
<1>5. CASE done # {}
  <2>1. ages # {} /\ ages \subseteq Int
    BY <1>1, <1>5
  <2>2. Max(ages) \in ages /\ \A y \in ages : Max(ages) >= y
    <3> HIDE DEF ages
    <3> QED
      BY <1>2, <2>1, MaxOfFinite
  <2>3. DaysOfData(sales) = Max(ages)
    BY <1>5 DEF DaysOfData
  <2>4. /\ Max(ages) \in Nat
        /\ \A i \in done : sales[i].age <= Max(ages)
        /\ \E i \in done : sales[i].age = Max(ages)
    BY <2>2, <1>1
  <2> QED
    BY <1>3, <2>3, <2>4
<1> QED
  BY <1>4, <1>5

----------------------------------------------------------------------------
Figures == [days : Nat, transactions : Nat]
Raises == {"nothing", "GatewayError", "another"}
Answers == {"none", "narrative", "error", "bad_gateway", "signals", "not_ready", "figures"}
AdviceRecords ==
  [at : {"idle", "days", "transactions", "model", "done"},
   kind : {"none", "readiness", "observations", "insights", "forecast", "chat"},
   days : Nat, figures : Seq(Figures), raised : Raises, answer : Answers]
AdviceTypes ==
  /\ advice \in AdviceRecords
  /\ witness \in [ample : BOOLEAN, short : BOOLEAN, voided : BOOLEAN, traffic : BOOLEAN,
                  verdict : BOOLEAN]

(* Between the two queries of a check: sales were voided, or the days read *)
(* are still a lower bound; and what the figures said once was noticed.    *)
CheckUnderway ==
  advice.at = "transactions" =>
    /\ witness.voided \/ DaysOfData(invoice) >= advice.days
    /\ TrulyEnough(invoice) => witness.ample
    /\ TrulyEnough(invoice) \/ witness.short
    /\ advice.days < MinDays => witness.short

(* Without traffic every figure read is what the sales still say.          *)
QuietFigures ==
  advice.at # "done" /\ ~ witness.traffic =>
    /\ \A n \in DOMAIN advice.figures :
         advice.figures[n] = [days |-> DaysOfData(invoice), transactions |-> Transactions(invoice)]
    /\ advice.at = "transactions" => advice.days = DaysOfData(invoice)

AnswersFollow == advice.answer # "none" => advice.at = "done"

AdviceInv ==
  InvoiceTypes /\ AdviceTypes /\ CheckUnderway /\ QuietFigures /\ AnswersFollow /\ AdviceIsTrue

(* Nothing was asked.                                                      *)
LEMMA AdviceInitInv == AdviceInit => AdviceInv
<1> SUFFICES ASSUME AdviceInit PROVE AdviceInv
  OBVIOUS
<1>1. InvoiceTypes
  BY AdviceAssumption DEF AdviceInit, InvoiceTypes, SalesRows
<1>2. /\ advice.at = "idle" /\ advice.figures = << >> /\ advice.answer = "none" /\ AdviceTypes
  BY DEF AdviceInit, NoAdvice, Nobody, AdviceTypes, AdviceRecords, Raises, Answers, Figures
<1> QED
  BY <1>1, <1>2 DEF AdviceInv, CheckUnderway, QuietFigures, AnswersFollow, AdviceIsTrue,
                    VerdictsWereTrue, RefusalsNameTheShortage, ModelFailuresAreAnswered

(* The first query of a check.                                             *)
LEMMA ReadDaysInv == ASSUME AdviceInv, ReadDays PROVE AdviceInv'
<1>1. /\ advice.at = "days" /\ invoice' = invoice /\ adviceStore' = adviceStore
      /\ advice' = [advice EXCEPT !.at = "transactions", !.days = DaysOfData(invoice)]
      /\ witness' = [witness EXCEPT !.ample = TrulyEnough(invoice), !.short = ~ TrulyEnough(invoice),
                                    !.voided = FALSE]
  BY DEF ReadDays
<1>2. DaysOfData(invoice) \in Nat /\ TrulyEnough(invoice) \in BOOLEAN
  BY FiguresOfSales DEF AdviceInv, InvoiceTypes, TrulyEnough
<1> DEFINE days == DaysOfData(invoice)
           enough == TrulyEnough(invoice)
<1>3. /\ AdviceTypes' /\ advice'.at = "transactions" /\ advice'.days = days
      /\ advice'.figures = advice.figures /\ advice'.answer = advice.answer
      /\ advice'.kind = advice.kind
  <2> HIDE DEF days, enough
  <2> QED
    BY <1>1, <1>2 DEF AdviceInv, AdviceTypes, AdviceRecords, days, enough
<1>4. /\ witness'.ample = enough /\ witness'.short = ~enough /\ witness'.traffic = witness.traffic
  <2> HIDE DEF days, enough
  <2> QED
    BY <1>1, <1>2 DEF AdviceInv, AdviceTypes, enough
<1>5. InvoiceTypes'
  BY <1>1 DEF AdviceInv, InvoiceTypes, SalesRows
<1>6. CheckUnderway'
  <2>1. DaysOfData(invoice)' = days /\ TrulyEnough(invoice)' = enough
    BY <1>1
  <2>2. days >= advice'.days
    BY <1>2, <1>3
  <2>3. advice'.days < MinDays => ~enough
    BY <1>2, <1>3, AdviceAssumption DEF TrulyEnough
  <2> QED
    BY <2>1, <2>2, <2>3, <1>4 DEF CheckUnderway
<1>7. QuietFigures'
  BY <1>1, <1>3, <1>4 DEF AdviceInv, QuietFigures
<1>8. AnswersFollow' /\ AdviceIsTrue'
  BY <1>1, <1>3 DEF AdviceInv, AnswersFollow, AdviceIsTrue, VerdictsWereTrue,
                    RefusalsNameTheShortage, ModelFailuresAreAnswered
<1> QED
  BY <1>3, <1>5, <1>6, <1>7, <1>8 DEF AdviceInv

(* The second query, and the verdict.                                      *)
LEMMA ReadTransactionsInv == ASSUME AdviceInv, ReadTransactions PROVE AdviceInv'
<1> DEFINE n == Transactions(invoice)
           row == [days |-> advice.days, transactions |-> n]
           verdict == Enough(advice.days, n)
<1>1. /\ advice.at = "transactions" /\ invoice' = invoice /\ adviceStore' = adviceStore
      /\ advice' = [advice EXCEPT !.at = "days", !.figures = Append(@, row)]
      /\ witness' = [witness EXCEPT !.verdict = verdict]
  BY DEF ReadTransactions
<1>2. n \in Nat /\ DaysOfData(invoice) \in Nat /\ advice.days \in Nat /\ advice.figures \in Seq(Figures)
  BY FiguresOfSales DEF AdviceInv, InvoiceTypes, AdviceTypes, AdviceRecords
<1>3. verdict \in BOOLEAN /\ row \in Figures
  BY <1>2 DEF Enough, Figures
<1> HIDE DEF n, row, verdict
<1>4. /\ AdviceTypes' /\ advice'.at = "days" /\ advice'.answer = advice.answer
      /\ advice'.kind = advice.kind /\ advice'.figures = Append(advice.figures, row)
  <2> DEFINE figures == Append(advice.figures, row)
  <2>1. figures \in Seq(Figures)
    BY <1>2, <1>3
  <2>2. advice' = [advice EXCEPT !.at = "days", !.figures = figures]
    BY <1>1
  <2>3. /\ witness' \in [ample : BOOLEAN, short : BOOLEAN, voided : BOOLEAN, traffic : BOOLEAN,
                        verdict : BOOLEAN]
    BY <1>1, <1>3 DEF AdviceInv, AdviceTypes, AdviceRecords
  <2> HIDE DEF figures
  <2>4. AdviceTypes' /\ advice'.at = "days" /\ advice'.answer = advice.answer
        /\ advice'.kind = advice.kind /\ advice'.figures = figures
    BY <2>1, <2>2, <2>3 DEF AdviceInv, AdviceTypes, AdviceRecords
  <2> QED
    BY <2>4 DEF figures
<1>5. /\ witness'.ample = witness.ample /\ witness'.short = witness.short
      /\ witness'.traffic = witness.traffic /\ witness'.voided = witness.voided
      /\ witness'.verdict = verdict
  BY <1>1 DEF AdviceInv, AdviceTypes, AdviceRecords
<1>6. InvoiceTypes' /\ CheckUnderway' /\ AnswersFollow'
  BY <1>1, <1>4 DEF AdviceInv, InvoiceTypes, SalesRows, CheckUnderway, AnswersFollow
<1>7. QuietFigures'
  <2> SUFFICES ASSUME ~ witness.traffic, NEW k \in DOMAIN advice'.figures
               PROVE  advice'.figures[k] = [days |-> DaysOfData(invoice), transactions |-> Transactions(invoice)]
    BY <1>1, <1>4, <1>5 DEF QuietFigures
  <2>1. row = [days |-> DaysOfData(invoice), transactions |-> Transactions(invoice)]
    BY <1>1 DEF AdviceInv, QuietFigures, row, n
  <2>2. \A j \in DOMAIN advice.figures :
          advice.figures[j] = [days |-> DaysOfData(invoice), transactions |-> Transactions(invoice)]
    BY <1>1 DEF AdviceInv, QuietFigures
  <2>3. CASE k \in DOMAIN advice.figures
    BY <2>2, <2>3, <1>2, <1>3, <1>4
  <2>4. CASE k \notin DOMAIN advice.figures
    <3>1. k = Len(advice.figures) + 1
      BY <2>4, <1>2, <1>3, <1>4
    <3>2. Append(advice.figures, row)[Len(advice.figures) + 1] = row
      BY <1>2, <1>3
    <3> QED
      BY <3>1, <3>2, <2>1, <1>4
  <2> QED
    BY <2>3, <2>4
<1>8. VerdictsWereTrue'
  <2>1. ASSUME verdict, ~ witness.voided PROVE witness.ample
    <3>1. advice.days >= MinDays /\ n >= MinTransactions
      BY <2>1 DEF verdict, Enough
    <3>2. DaysOfData(invoice) >= advice.days
      BY <2>1, <1>1 DEF AdviceInv, CheckUnderway
    <3>3. DaysOfData(invoice) >= MinDays
      BY <3>1, <3>2, <1>2, AdviceAssumption
    <3>4. TrulyEnough(invoice)
      BY <3>1, <3>3 DEF TrulyEnough, n
    <3> QED
      BY <3>4, <1>1 DEF AdviceInv, CheckUnderway
  <2>2. ASSUME ~ verdict PROVE witness.short
    <3>1. advice.days < MinDays \/ ~(n >= MinTransactions)
      BY <2>2, <1>2, AdviceAssumption DEF verdict, Enough
    <3>2. CASE advice.days < MinDays
      BY <3>2, <1>1 DEF AdviceInv, CheckUnderway
    <3>3. CASE ~(n >= MinTransactions)
      <4>1. ~ TrulyEnough(invoice)
        BY <3>3 DEF TrulyEnough, n
      <4> QED
        BY <4>1, <1>1 DEF AdviceInv, CheckUnderway
    <3> QED
      BY <3>1, <3>2, <3>3
  <2> QED
    BY <2>1, <2>2, <1>5 DEF VerdictsWereTrue
<1>9. AdviceIsTrue'
  <2>1. advice'.answer = "none"
    BY <1>1, <1>4 DEF AdviceInv, AdviceTypes, AdviceRecords, AnswersFollow
  <2> QED
    BY <1>8, <2>1 DEF AdviceIsTrue, RefusalsNameTheShortage, ModelFailuresAreAnswered
<1> QED
  BY <1>4, <1>6, <1>7, <1>9 DEF AdviceInv

Answered(r, raised, answer) == [[[r EXCEPT !.at = "done"] EXCEPT !.raised = raised] EXCEPT !.answer = answer]

(* The end of a request changes its answer and no figure.                  *)
LEMMA AnsweredType ==
  ASSUME NEW r \in AdviceRecords, NEW raised \in Raises, NEW answer \in Answers
  PROVE  /\ Answered(r, raised, answer) \in AdviceRecords
         /\ Answered(r, raised, answer).at = "done" /\ Answered(r, raised, answer).kind = r.kind
         /\ Answered(r, raised, answer).figures = r.figures
         /\ Answered(r, raised, answer).raised = raised /\ Answered(r, raised, answer).answer = answer
BY DEF AdviceRecords, Answered

(* A request begins.                                                       *)
LEMMA StartAdviceInv ==
  ASSUME AdviceInv, NEW kind \in {"readiness", "observations", "insights", "forecast", "chat"},
         StartAdvice(kind)
  PROVE  AdviceInv'
<1>1. PICK a \in {"model", "days"} :
        advice' = [at |-> a, kind |-> kind, days |-> 0, figures |-> << >>, raised |-> "nothing",
                   answer |-> "none"]
  BY DEF StartAdvice, NoAdvice
<1>2. UNCHANGED <<adviceStore, invoice, witness>>
  BY DEF StartAdvice
<1>3. /\ AdviceTypes' /\ advice'.at = a /\ advice'.figures = << >> /\ advice'.answer = "none"
  <2>1. advice' \in AdviceRecords
    <3>1. << >> \in Seq(Figures)
      OBVIOUS
    <3> QED
      BY <1>1, <3>1 DEF AdviceRecords, Raises, Answers
  <2>2. advice'.at = a /\ advice'.figures = << >> /\ advice'.answer = "none"
    BY <1>1
  <2> QED
    BY <1>2, <2>1, <2>2 DEF AdviceInv, AdviceTypes
<1>4. InvoiceTypes' /\ CheckUnderway' /\ AnswersFollow' /\ AdviceIsTrue'
  BY <1>2, <1>3 DEF AdviceInv, InvoiceTypes, SalesRows, CheckUnderway, AnswersFollow, AdviceIsTrue,
                    VerdictsWereTrue, RefusalsNameTheShortage, ModelFailuresAreAnswered
<1>5. QuietFigures'
  <2>1. DOMAIN advice'.figures = {} /\ advice'.at # "transactions"
    BY <1>3
  <2> QED
    BY <2>1 DEF QuietFigures
<1> QED
  BY <1>3, <1>4, <1>5 DEF AdviceInv

(* SQLite refuses the hours.                                               *)
LEMMA PeakHoursInv == ASSUME AdviceInv, PeakHoursRaise PROVE AdviceInv'
<1>1. /\ PeakHoursFail /\ UNCHANGED <<adviceStore, invoice, witness>>
      /\ advice' = [advice EXCEPT !.at = "done", !.answer = "error"]
  BY DEF PeakHoursRaise
<1>2. /\ AdviceTypes' /\ advice'.at = "done" /\ advice'.answer = "error"
      /\ advice'.figures = advice.figures /\ advice'.kind = advice.kind
  <2>1. advice \in AdviceRecords /\ advice.raised \in Raises /\ "error" \in Answers
    BY DEF AdviceInv, AdviceTypes, AdviceRecords, Answers
  <2>2. advice' = Answered(advice, advice.raised, "error")
    BY <1>1, <2>1 DEF Answered, AdviceRecords
  <2> QED
    BY <1>1, <2>1, <2>2, AnsweredType DEF AdviceInv, AdviceTypes
<1>3. PeakHoursFail'
  BY <1>1, <1>2 DEF PeakHoursFail, Verdict
<1> QED
  BY <1>1, <1>2, <1>3 DEF AdviceInv, InvoiceTypes, SalesRows, CheckUnderway, QuietFigures, AnswersFollow, AdviceIsTrue,
                    VerdictsWereTrue, RefusalsNameTheShortage, ModelFailuresAreAnswered

(* Everything is read.                                                     *)
LEMMA FinishReadingInv == ASSUME AdviceInv, FinishReading PROVE AdviceInv'
<1>1. advice.at = "days" /\ Ready /\ UNCHANGED <<adviceStore, invoice, witness>>
  BY DEF FinishReading
<1>2. CASE advice.kind \in {"insights", "forecast"} /\ Verdict(1)
  <2>1. advice' = [advice EXCEPT !.at = "model"]
    BY <1>2 DEF FinishReading
  <2>2. AdviceTypes' /\ advice'.at = "model" /\ advice'.answer = advice.answer /\ advice.answer = "none"
        /\ advice'.figures = advice.figures
    BY <2>1, <1>1 DEF AdviceInv, AdviceTypes, AdviceRecords, AnswersFollow
  <2> QED
    BY <1>1, <2>2 DEF AdviceInv, InvoiceTypes, SalesRows, CheckUnderway, QuietFigures, AnswersFollow, AdviceIsTrue,
                    VerdictsWereTrue, RefusalsNameTheShortage, ModelFailuresAreAnswered
<1>3. CASE ~(advice.kind \in {"insights", "forecast"} /\ Verdict(1))
  <2> DEFINE answer == IF advice.kind \in {"insights", "forecast"} THEN "not_ready" ELSE "figures"
  <2>1. advice' = [advice EXCEPT !.at = "done", !.answer = answer]
    BY <1>3 DEF FinishReading
  <2>2. answer \in {"not_ready", "figures"}
    OBVIOUS
  <2>3. answer = "not_ready" /\ advice.kind = "insights" => ~ Verdict(1)
    BY <1>3
  <2> HIDE DEF answer
  <2>4. /\ AdviceTypes' /\ advice'.at = "done" /\ advice'.answer = answer
        /\ advice'.figures = advice.figures /\ advice'.kind = advice.kind
    <3>1. advice \in AdviceRecords /\ advice.raised \in Raises /\ answer \in Answers
      BY <2>2 DEF AdviceInv, AdviceTypes, AdviceRecords, Answers
    <3>2. advice' = Answered(advice, advice.raised, answer)
      BY <2>1, <3>1 DEF Answered, AdviceRecords
    <3> QED
      BY <1>1, <3>1, <3>2, AnsweredType DEF AdviceInv, AdviceTypes
  <2>5. RefusalsNameTheShortage'
    <3> SUFFICES ASSUME answer = "not_ready", advice.kind = "insights", ~ witness.traffic
                 PROVE  advice.figures[2].days < MinDays \/ advice.figures[2].transactions < MinTransactions
      BY <1>1, <2>4 DEF RefusalsNameTheShortage
    <3>1. ~ Verdict(1)
      BY <2>3
    <3>2. Len(advice.figures) = 2
      BY <1>1, <3>1 DEF Ready, Reads
    <3>3. advice.figures \in Seq(Figures)
      BY DEF AdviceInv, AdviceTypes, AdviceRecords
    <3>4. DOMAIN advice.figures = 1..2 /\ \A n \in 1..2 : advice.figures[n] \in Figures
      <4>1. DOMAIN advice.figures = 1..Len(advice.figures)
        BY <3>3
      <4>2. \A n \in DOMAIN advice.figures : advice.figures[n] \in Figures
        BY <3>3
      <4> QED
        BY <3>2, <4>1, <4>2
    <3>5. /\ 1 \in DOMAIN advice.figures /\ 2 \in DOMAIN advice.figures
          /\ advice.figures[2] \in Figures
      BY <3>4
    <3>6. advice.figures[1] = advice.figures[2]
      BY <3>5, <1>1 DEF AdviceInv, QuietFigures
    <3>7. advice.figures[2].days \in Nat /\ advice.figures[2].transactions \in Nat
      BY <3>5 DEF Figures
    <3> QED
      BY <3>1, <3>6, <3>7, AdviceAssumption DEF Verdict, Enough
  <2> QED
    BY <1>1, <2>2, <2>4, <2>5 DEF AdviceInv, InvoiceTypes, SalesRows, CheckUnderway, QuietFigures, AnswersFollow,
                    AdviceIsTrue, VerdictsWereTrue, ModelFailuresAreAnswered
<1> QED
  BY <1>2, <1>3

(* The model answers, or not.                                              *)
LEMMA AskModelInv ==
  ASSUME AdviceInv, NEW o \in {"answer", "transport", "status", "shape", "no_key", "bare_event"},
         AskModel(o)
  PROVE  AdviceInv'
<1> DEFINE raised == Raised(o)
           answer == Replies(advice.kind, raised)
<1>1. /\ advice.at = "model" /\ UNCHANGED <<adviceStore, invoice, witness>>
      /\ advice' = [advice EXCEPT !.at = "done", !.raised = raised, !.answer = answer]
  BY DEF AskModel
<1>2. raised \in {"nothing", "GatewayError", "another"}
  BY DEF Raised
<1>3. answer \in {"narrative", "error", "bad_gateway", "signals"} /\ (answer = "error" => raised = "another")
  BY <1>2 DEF Replies
<1> HIDE DEF raised, answer
<1>4. AdviceTypes' /\ advice'.at = "done" /\ advice'.answer = answer /\ advice'.raised = raised
  <2>1. advice' = Answered(advice, raised, answer)
    BY <1>1 DEF Answered
  <2>2. raised \in Raises /\ answer \in Answers
    BY <1>2, <1>3 DEF Raises, Answers
  <2>3. advice \in AdviceRecords
    BY DEF AdviceInv, AdviceTypes
  <2> QED
    <3>1. \A r \in AdviceRecords, x \in Raises, y \in Answers :
            /\ Answered(r, x, y) \in AdviceRecords /\ Answered(r, x, y).at = "done"
            /\ Answered(r, x, y).raised = x /\ Answered(r, x, y).answer = y
      BY AnsweredType
    <3>2. advice' \in AdviceRecords /\ advice'.at = "done" /\ advice'.answer = answer /\ advice'.raised = raised
      BY <2>1, <2>2, <2>3, <3>1
    <3> QED
      BY <1>1, <3>2 DEF AdviceInv, AdviceTypes
<1> QED
  BY <1>1, <1>3, <1>4 DEF AdviceInv, InvoiceTypes, SalesRows, CheckUnderway, QuietFigures, AnswersFollow, AdviceIsTrue,
                    VerdictsWereTrue, RefusalsNameTheShortage, ModelFailuresAreAnswered

(* A sale is made or voided while the request reads.                       *)
LEMMA TrafficInv ==
  ASSUME AdviceInv, advice.at \in {"days", "transactions"}, NEW i \in Invoices,
         NEW voided \in BOOLEAN, NEW r \in [status : {"completed", "voided"}, age : Nat],
         invoice' = [invoice EXCEPT ![i] = r], Noticed(invoice', voided),
         ~ voided => invoice[i].status # "completed" /\ r.status = "completed",
         UNCHANGED <<adviceStore, advice>>
  PROVE  AdviceInv'
<1>1. InvoiceTypes /\ InvoiceTypes'
  BY DEF AdviceInv, InvoiceTypes, SalesRows
<1> DEFINE enough == TrulyEnough(invoice')
<1>2. /\ witness' = [witness EXCEPT !.ample = @ \/ enough, !.short = @ \/ ~ enough,
                                    !.voided = @ \/ voided, !.traffic = TRUE]
  BY DEF Noticed
<1>3. enough \in BOOLEAN
  BY DEF TrulyEnough
<1>4. TrulyEnough(invoice)' = enough
  OBVIOUS
<1> HIDE DEF enough
<1>5. /\ witness' \in [ample : BOOLEAN, short : BOOLEAN, voided : BOOLEAN, traffic : BOOLEAN,
                       verdict : BOOLEAN]
      /\ witness'.traffic = TRUE /\ witness'.verdict = witness.verdict
      /\ witness.ample \/ enough => witness'.ample
      /\ witness.short \/ ~ enough => witness'.short
      /\ witness.voided \/ voided => witness'.voided
  BY <1>2, <1>3 DEF AdviceInv, AdviceTypes
<1>6. AdviceTypes'
  BY <1>5 DEF AdviceInv, AdviceTypes
<1>7. ~ voided => DaysOfData(invoice)' >= DaysOfData(invoice)
  <2> SUFFICES ASSUME ~ voided PROVE DaysOfData(invoice)' >= DaysOfData(invoice)
    OBVIOUS
  <2>1. /\ DaysOfData(invoice) \in Nat
        /\ Completed(invoice) # {} => \E j \in Completed(invoice) : invoice[j].age = DaysOfData(invoice)
    BY <1>1, FiguresOfSales DEF InvoiceTypes
  <2>2. /\ DaysOfData(invoice') \in Nat
        /\ \A j \in Completed(invoice') : invoice'[j].age <= DaysOfData(invoice')
    BY <1>1, FiguresOfSales DEF InvoiceTypes
  <2>3. CASE Completed(invoice) = {}
    <3>1. DaysOfData(invoice) = 0
      BY <2>3 DEF DaysOfData
    <3> QED
      BY <2>2, <3>1
  <2>4. CASE Completed(invoice) # {}
    <3>1. PICK j \in Completed(invoice) : invoice[j].age = DaysOfData(invoice)
      BY <2>1, <2>4
    <3>2. j \in Invoices /\ j # i /\ j \in Completed(invoice)' /\ invoice'[j] = invoice[j]
      BY <3>1 DEF Completed, AdviceInv, InvoiceTypes
    <3> QED
      BY <2>1, <2>2, <3>1, <3>2
  <2> QED
    BY <2>3, <2>4
<1>8. CheckUnderway'
  <2> SUFFICES ASSUME advice.at = "transactions"
               PROVE  /\ witness'.voided \/ DaysOfData(invoice)' >= advice.days
                      /\ enough => witness'.ample
                      /\ enough \/ witness'.short
                      /\ advice.days < MinDays => witness'.short
    BY <1>4 DEF CheckUnderway
  <2>1. /\ witness.voided \/ DaysOfData(invoice) >= advice.days
        /\ advice.days < MinDays => witness.short
    BY DEF AdviceInv, CheckUnderway
  <2>2. enough => witness'.ample
    BY <1>5
  <2>3. enough \/ witness'.short
    BY <1>5
  <2>4. advice.days < MinDays => witness'.short
    BY <2>1, <1>5
  <2>5. CASE witness.voided \/ voided
    BY <2>2, <2>3, <2>4, <2>5, <1>5
  <2>6. CASE ~ (witness.voided \/ voided)
    <3>1. DaysOfData(invoice) >= advice.days /\ DaysOfData(invoice)' >= DaysOfData(invoice)
      BY <2>1, <2>6, <1>7
    <3>2. DaysOfData(invoice) \in Nat /\ DaysOfData(invoice)' \in Nat /\ advice.days \in Nat
      <4>1. advice.days \in Nat
        BY DEF AdviceInv, AdviceTypes, AdviceRecords
      <4>2. DaysOfData(invoice) \in Nat
        BY <1>1, FiguresOfSales DEF InvoiceTypes
      <4>3. DaysOfData(invoice)' \in Nat
        BY <1>1, FiguresOfSales DEF InvoiceTypes
      <4> QED
        BY <4>1, <4>2, <4>3
    <3>3. DaysOfData(invoice)' >= advice.days
      BY <3>1, <3>2
    <3> QED
      BY <3>3, <2>2, <2>3, <2>4
  <2> QED
    BY <2>5, <2>6
<1>9. QuietFigures' /\ AnswersFollow'
  BY <1>5 DEF AdviceInv, QuietFigures, AnswersFollow
<1>10. VerdictsWereTrue'
  <2> SUFFICES ASSUME advice.at = "days", advice.figures # << >>
               PROVE  IF witness'.verdict THEN witness'.ample \/ witness'.voided ELSE witness'.short
    BY DEF VerdictsWereTrue
  <2>1. IF witness.verdict THEN witness.ample \/ witness.voided ELSE witness.short
    BY DEF AdviceInv, AdviceIsTrue, VerdictsWereTrue
  <2>2. /\ witness.ample => witness'.ample
        /\ witness.voided => witness'.voided
        /\ witness.short => witness'.short
    BY <1>5
  <2> QED
    BY <2>1, <2>2, <1>5
<1>11. advice.answer = "none"
  BY DEF AdviceInv, AnswersFollow
<1>12. AdviceIsTrue'
  BY <1>10, <1>11 DEF AdviceIsTrue, RefusalsNameTheShortage, ModelFailuresAreAnswered
<1> QED
  BY <1>1, <1>6, <1>8, <1>9, <1>12 DEF AdviceInv

(* All together.                                                           *)
LEMMA AdviceStepInv ==
  ASSUME AdviceInv, [AdviceNext]_adviceVars
  PROVE  AdviceInv'
<1>1. CASE UNCHANGED adviceVars
  <2>1. adviceStore' = adviceStore /\ invoice' = invoice /\ advice' = advice /\ witness' = witness
    BY <1>1 DEF adviceVars
  <2>2. InvoiceTypes' /\ AdviceTypes' /\ CheckUnderway' /\ QuietFigures' /\ AnswersFollow'
    BY <2>1 DEF AdviceInv, InvoiceTypes, AdviceTypes, CheckUnderway, QuietFigures, AnswersFollow
  <2>3. PeakHoursFail <=> PeakHoursFail'
    BY <2>1 DEF PeakHoursFail, Verdict
  <2>4. AdviceIsTrue'
    BY <2>1, <2>3 DEF AdviceInv, AdviceIsTrue, VerdictsWereTrue, RefusalsNameTheShortage,
                      ModelFailuresAreAnswered
  <2> QED
    BY <2>2, <2>4 DEF AdviceInv
<1>2. ASSUME NEW i \in Invoices, SaleIsMade(i) \/ SaleIsVoided(i)
      PROVE  AdviceInv'
  <2>1. invoice[i] \in [status : {"none", "completed", "voided"}, age : Nat]
    BY DEF AdviceInv, InvoiceTypes, SalesRows
  <2>2. CASE SaleIsMade(i)
    <3> DEFINE r == [status |-> "completed", age |-> 0]
    <3>1. r \in [status : {"completed", "voided"}, age : Nat] /\ r.status = "completed"
      OBVIOUS
    <3>2. invoice' = [invoice EXCEPT ![i] = r] /\ invoice[i].status = "none"
      BY <2>2 DEF SaleIsMade
    <3> HIDE DEF r
    <3> QED
      BY <2>2, <3>1, <3>2, TrafficInv DEF SaleIsMade
  <2>3. CASE SaleIsVoided(i)
    <3> DEFINE r == [invoice[i] EXCEPT !.status = "voided"]
    <3>1. r \in [status : {"completed", "voided"}, age : Nat]
      BY <2>1
    <3>2. invoice' = [invoice EXCEPT ![i] = r]
      BY <2>3 DEF SaleIsVoided
    <3> HIDE DEF r
    <3> QED
      BY <2>3, <3>1, <3>2, TrafficInv DEF SaleIsVoided
  <2> QED
    BY <1>2, <2>2, <2>3
<1> QED
  BY <1>1, <1>2, StartAdviceInv, ReadDaysInv, ReadTransactionsInv, PeakHoursInv, FinishReadingInv,
     AskModelInv DEF AdviceNext

(* What a caller is told about too little data or a failing model is what  *)
(* happened (observation.py:42-46, insight_service.py:20-65,               *)
(* forecast_service.py:25-40).                                             *)
THEOREM AdviceTrue == AdviceSpec => []AdviceIsTrue
<1>1. AdviceInv => AdviceIsTrue
  BY DEF AdviceInv
<1> QED
  BY <1>1, AdviceInitInv, AdviceStepInv, PTL DEF AdviceSpec

----------------------------------------------------------------------------
(* A request reads no more figures than its kind calls for.                *)
FiguresBounded ==
  /\ Len(advice.figures) <= 8
  /\ advice.at \in {"days", "transactions"} =>
       advice.kind \in {"readiness", "observations", "insights", "forecast"}
  /\ advice.at \in {"days", "transactions"} /\ advice.figures # << >> =>
       Len(advice.figures) <= Reads
  /\ advice.at = "transactions" /\ advice.figures # << >> => Len(advice.figures) < Reads

LEMMA ReadsRange ==
  advice.kind \in {"readiness", "observations", "insights", "forecast"} => Reads \in 1..8
BY DEF Reads

LEMMA AdviceTypesStep ==
  ASSUME AdviceInv, FiguresBounded, [AdviceNext]_adviceVars
  PROVE  FiguresBounded'
<1>0. advice \in AdviceRecords /\ advice.figures \in Seq(Figures) /\ Len(advice.figures) \in Nat
  BY DEF AdviceInv, AdviceTypes, AdviceRecords
<1>1. ASSUME UNCHANGED advice PROVE FiguresBounded'
  BY <1>1 DEF FiguresBounded, Reads, Verdict
<1>2. ASSUME NEW kind \in {"readiness", "observations", "insights", "forecast", "chat"},
             StartAdvice(kind)
      PROVE  FiguresBounded'
  <2>1. /\ advice'.figures = << >> /\ advice'.kind = kind
        /\ advice'.at = IF kind = "chat" THEN "model" ELSE "days"
    BY <1>2 DEF StartAdvice, NoAdvice
  <2> QED
    BY <2>1 DEF FiguresBounded
<1>3. CASE ReadDays
  <2>1. /\ advice'.figures = advice.figures /\ advice'.kind = advice.kind
        /\ advice.at = "days" /\ ~ Ready
    BY <1>0, <1>3 DEF ReadDays, AdviceRecords
  <2>2. Reads' = Reads
    BY <2>1 DEF Reads, Verdict
  <2>3. advice.figures # << >> => Len(advice.figures) > 0
    BY <1>0
  <2>4. advice.figures # << >> => Len(advice.figures) < Reads
    BY <1>0, <2>1, <2>3, ReadsRange DEF FiguresBounded, Ready
  <2> QED
    BY <1>0, <2>1, <2>2, <2>4 DEF FiguresBounded
<1>4. CASE ReadTransactions
  <2> DEFINE n == Len(advice.figures)
             f == [days |-> advice.days, transactions |-> Transactions(invoice)]
  <2>1. /\ advice'.figures = Append(advice.figures, f) /\ advice'.kind = advice.kind
        /\ advice.at = "transactions"
    BY <1>0, <1>4 DEF ReadTransactions, AdviceRecords
  <2>2. /\ Len(advice'.figures) = n + 1 /\ advice'.figures # << >>
        /\ \A i \in 1..n : advice'.figures[i] = advice.figures[i]
    <3> HIDE DEF f
    <3> QED
      BY <1>0, <2>1
  <2>3. /\ n >= 1 => Verdict(1)' = Verdict(1)
        /\ n >= 5 => Verdict(5)' = Verdict(5)
    BY <1>0, <2>2 DEF Verdict
  <2>4. n # 0 => n < Reads
    BY <1>0, <2>1 DEF FiguresBounded
  <2>5. n + 1 <= Reads'
    <3>1. CASE n = 0
      BY <3>1, <2>1, <2>2 DEF FiguresBounded, Reads
    <3>2. CASE n # 0
      <4> HIDE DEF n
      <4>1. n \in Nat /\ n >= 1 /\ n < Reads
        BY <3>2, <2>4, <1>0 DEF n
      <4> QED
        BY <4>1, <2>1, <2>2, <2>3 DEF FiguresBounded, Reads, n
    <3> QED
      BY <3>1, <3>2
  <2>6. Reads' \in 1..8 /\ advice'.kind \in {"readiness", "observations", "insights", "forecast"}
    BY <2>1 DEF FiguresBounded, Reads
  <2>7. advice'.at = "days"
    BY <1>0, <1>4 DEF ReadTransactions, AdviceRecords
  <2> HIDE DEF n, f
  <2> QED
    BY <1>0, <2>2, <2>5, <2>6, <2>7 DEF FiguresBounded, n
<1>5. ASSUME PeakHoursRaise \/ FinishReading
             \/ \E o \in {"answer", "transport", "status", "shape", "no_key", "bare_event"} : AskModel(o)
      PROVE  FiguresBounded'
  <2>1. advice'.figures = advice.figures /\ advice'.at \in {"done", "model"}
    BY <1>0, <1>5 DEF PeakHoursRaise, FinishReading, AskModel, AdviceRecords
  <2> QED
    BY <2>1 DEF FiguresBounded
<1>6. ASSUME NEW i \in Invoices, SaleIsMade(i) \/ SaleIsVoided(i) PROVE UNCHANGED advice
  BY <1>6 DEF SaleIsMade, SaleIsVoided
<1> QED
  BY <1>1, <1>2, <1>3, <1>4, <1>5, <1>6 DEF AdviceNext, adviceVars

LEMMA AdviceTyped == AdviceInv /\ FiguresBounded => AdviceTypeOK
<1> SUFFICES ASSUME AdviceInv, FiguresBounded PROVE AdviceTypeOK
  OBVIOUS
<1>1. invoice \in SalesRows /\ advice \in AdviceRecords
  BY DEF AdviceInv, InvoiceTypes, AdviceTypes
<1> QED
  BY <1>1 DEF SalesRows, AdviceRecords, FiguresBounded, AdviceTypeOK

----------------------------------------------------------------------------
(* Reports.                                                                *)

(* What a receipt adds to the answer of a query.                           *)
Sheets == [Receipts -> [status : {"none", "completed", "voided"}, age : Nat, total : Int,
                        late : BOOLEAN]]
CountedIn(x, q) ==
  /\ x.status = "completed" /\ q.upto <= x.age /\ x.age <= q.since
  /\ q.closed => ~ x.late
Worth(x, q) ==
  IF q.what = "revenue" THEN IF CountedIn(x, q) THEN x.total ELSE 0
  ELSE IF q.what = "units" THEN IF CountedIn(x, q) THEN 1 ELSE 0
  ELSE IF x.status # "completed" THEN 1 ELSE 0
Worths(sales, q) == [r \in Receipts |-> Worth(sales[r], q)]
Query(q) ==
  q.what \in {"revenue", "units", "stock"} /\ q.since \in Int /\ q.upto \in Int /\ q.closed \in BOOLEAN

(* Every query is a sum over all receipts.                                 *)
LEMMA AnswerIsSum ==
  ASSUME NEW sales \in Sheets, NEW q, Query(q)
  PROVE  /\ AnswerTo(sales, q) = SumFunctionOnSet(Worths(sales, q), Receipts)
         /\ AnswerTo(sales, q) \in Int
<1>1. IsFiniteSet(Receipts) /\ \A r \in Receipts : Worths(sales, q)[r] \in Int
  BY ReportAssumption DEF Worths, Worth, Sheets
<1>2. SumFunctionOnSet(Worths(sales, q), Receipts) \in Int
  BY <1>1, SumType
<1>3. Selected(sales, q) = {r \in Receipts : CountedIn(sales[r], q)}
  BY DEF Selected, CountedIn, Sheets, Query
<1>4. CASE q.what = "revenue"
  <2> DEFINE f == [r \in Receipts |-> sales[r].total]
             g == Worths(sales, q)
             P == Selected(sales, q)
  <2>1. P \in SUBSET Receipts /\ \A r \in P : f[r] \in Int
    BY <1>3 DEF Sheets
  <2>2. \A r \in Receipts : g[r] = IF r \in P THEN f[r] ELSE 0
    BY <1>3, <1>4 DEF Worths, Worth
  <2>3. AnswerTo(sales, q) = SumFunctionOnSet(f, P)
    BY <1>4 DEF AnswerTo
  <2> HIDE DEF f, g, P
  <2>4. SumFunctionOnSet(f, P) = SumFunctionOnSet(g, Receipts)
    BY <1>1, <2>1, <2>2, SumOfPart
  <2> QED
    BY <1>2, <2>3, <2>4 DEF g
<1>5. ASSUME NEW P \in SUBSET Receipts,
             \A r \in Receipts : Worths(sales, q)[r] = IF r \in P THEN 1 ELSE 0
      PROVE  Cardinality(P) = SumFunctionOnSet(Worths(sales, q), Receipts)
  <2> DEFINE f == [r \in P |-> 1]
             g == Worths(sales, q)
  <2>1. IsFiniteSet(P) /\ \A r \in P : f[r] = 1
    BY <1>1, FS_Subset
  <2>2. (\A r \in Receipts : g[r] = IF r \in P THEN f[r] ELSE 0) /\ \A r \in P : f[r] \in Int
    BY <1>5
  <2> HIDE DEF f, g
  <2>3. Cardinality(P) = SumFunctionOnSet(f, P)
    BY <2>1, SumOfOnes
  <2>4. SumFunctionOnSet(f, P) = SumFunctionOnSet(g, Receipts)
    BY <1>1, <2>2, SumOfPart
  <2> QED
    BY <2>3, <2>4 DEF g
<1>6. CASE q.what = "units"
  <2>1. \A r \in Receipts : Worths(sales, q)[r] = IF r \in Selected(sales, q) THEN 1 ELSE 0
    BY <1>3, <1>6 DEF Worths, Worth
  <2>2. AnswerTo(sales, q) = Cardinality(Selected(sales, q)) /\ Selected(sales, q) \in SUBSET Receipts
    BY <1>3, <1>6 DEF AnswerTo
  <2> QED
    BY <1>2, <1>5, <2>1, <2>2
<1>7. CASE q.what = "stock"
  <2> DEFINE P == {r \in Receipts : sales[r].status # "completed"}
  <2>1. \A r \in Receipts : Worths(sales, q)[r] = IF r \in P THEN 1 ELSE 0
    BY <1>7 DEF Worths, Worth
  <2>2. AnswerTo(sales, q) = Cardinality(P) /\ P \in SUBSET Receipts
    BY <1>7 DEF AnswerTo
  <2> QED
    BY <1>2, <1>5, <2>1, <2>2
<1> QED
  BY <1>4, <1>6, <1>7 DEF Query

(* One receipt changes.                                                    *)
LEMMA AnswerMoves ==
  ASSUME NEW sales \in Sheets, NEW after \in Sheets, NEW r \in Receipts,
         \A s \in Receipts \ {r} : after[s] = sales[s], NEW q, Query(q)
  PROVE  AnswerTo(after, q) = AnswerTo(sales, q) - Worth(sales[r], q) + Worth(after[r], q)
<1> DEFINE f == Worths(sales, q)
           g == Worths(after, q)
<1>1. IsFiniteSet(Receipts) /\ \A s \in Receipts : f[s] \in Int /\ g[s] \in Int
  BY ReportAssumption DEF Worths, Worth, Sheets
<1>2. (\A s \in Receipts \ {r} : g[s] = f[s]) /\ f[r] = Worth(sales[r], q) /\ g[r] = Worth(after[r], q)
  BY DEF Worths
<1> HIDE DEF f, g
<1>3. SumFunctionOnSet(g, Receipts) = SumFunctionOnSet(f, Receipts) - f[r] + g[r]
  BY <1>1, <1>2, SumDiffers
<1>4. /\ AnswerTo(after, q) = SumFunctionOnSet(g, Receipts)
      /\ AnswerTo(sales, q) = SumFunctionOnSet(f, Receipts)
  BY AnswerIsSum DEF f, g
<1> QED
  BY <1>2, <1>3, <1>4

(* Two queries whose worths add up to those of a third.                    *)
LEMMA AnswersAddUp ==
  ASSUME NEW sales \in Sheets, NEW p, NEW q, NEW both, Query(p), Query(q), Query(both),
         \A r \in Receipts : Worth(sales[r], both) = Worth(sales[r], p) + Worth(sales[r], q)
  PROVE  AnswerTo(sales, both) = AnswerTo(sales, p) + AnswerTo(sales, q)
<1> DEFINE f == Worths(sales, p)
           g == Worths(sales, q)
           h == Worths(sales, both)
<1>1. IsFiniteSet(Receipts) /\ \A r \in Receipts : f[r] \in Int /\ g[r] \in Int /\ h[r] = f[r] + g[r]
  BY ReportAssumption DEF Worths, Worth, Sheets
<1> HIDE DEF f, g, h
<1>2. SumFunctionOnSet(h, Receipts) = SumFunctionOnSet(f, Receipts) + SumFunctionOnSet(g, Receipts)
  BY <1>1, SumPlus
<1> QED
  BY <1>2, AnswerIsSum DEF f, g, h

(* What was sold in a period, as a query.                                  *)
LEMMA SoldIsAsked ==
  ASSUME report.opening \in Sheets, NEW first \in Int, NEW last \in Int
  PROVE  Sold(first, last) = AnswerTo(report.opening, Over("revenue", first, last, FALSE))
<1> DEFINE q == Over("revenue", first, last, FALSE)
<1>1. q.what = "revenue" /\ q.since = first /\ q.upto = last /\ q.closed = FALSE
  BY DEF Over
<1>2. Selected(report.opening, q) =
        {r \in Receipts : report.opening[r].status = "completed" /\ report.opening[r].age \in last..first}
  BY <1>1 DEF Selected
<1> QED
  BY <1>1, <1>2 DEF Sold, AnswerTo

(* The queries of each report.                                             *)
Kinds == {"summary", "profit", "dashboard"}

(* The nine queries of the summary, one by one.                            *)
LEMMA SummaryIs ==
  /\ Len(SummaryQueries) = 9
  /\ SummaryQueries[1] = Over("revenue", 0, 0, FALSE)
  /\ SummaryQueries[2] = Over("revenue", 1, 0, FALSE)
  /\ SummaryQueries[3] = Over("revenue", 0, 0, FALSE)
  /\ SummaryQueries[4] = Over("revenue", today.weekday, 0, FALSE)
  /\ SummaryQueries[5] = Over("revenue", today.weekday + 7, 0, FALSE)
  /\ SummaryQueries[6] = Over("revenue", today.weekday, 0, FALSE)
  /\ SummaryQueries[7] = Over("revenue", today.day - 1, 0, FALSE)
  /\ SummaryQueries[8] = Over("revenue", 30, 0, FALSE)
  /\ SummaryQueries[9] = Over("revenue", today.day - 1, 0, FALSE)
BY DEF SummaryQueries, RevenueSince

Calendar == today \in [weekday : 0..6, day : 1..31]

(* The bounds counted back from the day of the report are integers.        *)
LEMMA CalendarType ==
  ASSUME Calendar
  PROVE  /\ today.weekday \in Int /\ today.weekday + 7 \in Int /\ today.weekday + 1 \in Int
         /\ today.day \in Int /\ today.day - 1 \in Int
         /\ 0 <= today.weekday /\ today.weekday <= 6 /\ 1 <= today.day /\ today.day <= 31
<1>1. today.weekday \in 0..6 /\ today.day \in 1..31
  BY DEF Calendar
<1> DEFINE w == today.weekday
           d == today.day
<1> HIDE DEF w, d
<1>2. w \in 0..6 /\ d \in 1..31
  BY <1>1 DEF w, d
<1>3. w \in Int /\ w + 7 \in Int /\ w + 1 \in Int /\ d \in Int /\ d - 1 \in Int /\ 0 <= w /\ w <= 6 /\ 1 <= d /\ d <= 31
  BY <1>2
<1> QED
  BY <1>3 DEF w, d

(* The length and the elements of a concatenation.                         *)
LEMMA JoinedLen ==
  ASSUME NEW U, NEW s \in Seq(U), NEW t \in Seq(U)
  PROVE  s \o t \in Seq(U) /\ Len(s \o t) = Len(s) + Len(t)
BY ConcatProperties

(* What stands at a place of two sequences joined.                         *)
LEMMA JoinedAt ==
  ASSUME NEW U, NEW s \in Seq(U), NEW t \in Seq(U)
  PROVE  /\ \A i \in 1..Len(s) : (s \o t)[i] = s[i]
         /\ \A i \in 1..Len(t) : \A j \in Nat : j = Len(s) + i => (s \o t)[j] = t[i]
<1> DEFINE x == s \o t
           m == Len(s)
           n == Len(t)
<1>1. \A i \in 1..(m + n) : x[i] = IF i <= m THEN s[i] ELSE t[i - m]
  BY ConcatProperties, Zenon
<1>2. m \in Nat /\ n \in Nat
  OBVIOUS
<1> HIDE DEF x, m, n
<1>3. \A i \in 1..m : x[i] = s[i]
  BY <1>1, <1>2
<1>4. \A i \in 1..n : \A j \in Nat : j = m + i => x[j] = t[i]
  BY <1>1, <1>2
<1> QED
  BY <1>3, <1>4 DEF x, m, n

(* The queries of the dashboard are those of three views, one after another. *)
InThreeParts(x, s, p, r) ==
  /\ Len(x) = 12 /\ \A i \in 1..9 : x[i] = s[i]
  /\ x[10] = p[1] /\ x[11] = p[2] /\ x[12] = r[1]
(* Nine, two and one joined: what stands at each of the twelve places.     *)
LEMMA ThreeJoined ==
  ASSUME NEW U, NEW s \in Seq(U), NEW p \in Seq(U), NEW r \in Seq(U),
         Len(s) = 9, Len(p) = 2, Len(r) = 1
  PROVE  InThreeParts((s \o p) \o r, s, p, r)
<1> SUFFICES ASSUME NEW x, x = (s \o p) \o r
             PROVE  /\ Len(x) = 12 /\ \A i \in 1..9 : x[i] = s[i]
                    /\ x[10] = p[1] /\ x[11] = p[2] /\ x[12] = r[1]
  BY DEF InThreeParts
<1> DEFINE t == s \o p
<1>0. t = s \o p /\ x = t \o r
  OBVIOUS
<1> HIDE DEF t
<1>1. t \in Seq(U) /\ Len(t) = Len(s) + Len(p)
  BY ONLY <1>0, JoinedLen, s \in Seq(U), p \in Seq(U)
<1>2. Len(t) = 11
  BY ONLY <1>1, Len(s) = 9, Len(p) = 2
<1>3. (\A i \in 1..Len(s) : t[i] = s[i])
      /\ \A i \in 1..Len(p) : \A j \in Nat : j = Len(s) + i => t[j] = p[i]
  BY ONLY <1>0, JoinedAt, s \in Seq(U), p \in Seq(U)
<1>4. Len(x) = Len(t) + Len(r)
  BY ONLY <1>0, <1>1, JoinedLen, r \in Seq(U)
<1>5. (\A i \in 1..Len(t) : x[i] = t[i])
      /\ \A i \in 1..Len(r) : \A j \in Nat : j = Len(t) + i => x[j] = r[i]
  BY ONLY <1>0, <1>1, JoinedAt, r \in Seq(U)
<1>6. Len(x) = 12
  BY ONLY <1>2, <1>4, Len(r) = 1
<1>7. (\A i \in 1..9 : x[i] = t[i] /\ t[i] = s[i]) /\ x[10] = t[10] /\ x[11] = t[11]
  BY ONLY <1>2, <1>3, <1>5, Len(s) = 9
<1>8. t[10] = p[1] /\ t[11] = p[2]
  BY ONLY <1>3, Len(s) = 9, Len(p) = 2
<1>9. x[12] = r[1]
  BY ONLY <1>2, <1>5, Len(r) = 1
<1> QED
  BY ONLY <1>6, <1>7, <1>8, <1>9

(* The dashboard asks the summary, then the products, then the chart.      *)
LEMMA DashboardIs ==
  ASSUME Calendar
  PROVE  /\ Len(DashboardQueries) = 12
         /\ \A i \in 1..9 : DashboardQueries[i] = SummaryQueries[i]
         /\ DashboardQueries[10] = Over("units", 30, 0, FALSE)
         /\ DashboardQueries[11] = Over("stock", 0, 0, FALSE)
         /\ DashboardQueries[12] = Over("revenue", 29, 0, FALSE)
<1> DEFINE S == SummaryQueries
           P == ProductQueries
           R == <<RevenueSince(29)>>
           U == [what : {"revenue", "units", "stock"}, since : Int, upto : Int, closed : BOOLEAN]
<1>1. S \in Seq(U) /\ Len(S) = 9
  BY CalendarType DEF SummaryQueries, RevenueSince, Over
<1>2. P \in Seq(U) /\ Len(P) = 2
  BY DEF ProductQueries, Over
<1>3. R \in Seq(U) /\ Len(R) = 1 /\ R[1] = Over("revenue", 29, 0, FALSE)
  BY DEF RevenueSince, Over
<1>4. P[1] = Over("units", 30, 0, FALSE) /\ P[2] = Over("stock", 0, 0, FALSE)
  BY DEF ProductQueries
<1>5. DashboardQueries = (S \o P) \o R
  BY DEF DashboardQueries
<1> HIDE DEF S, P, R, U
<1> DEFINE D == (S \o P) \o R
<1>6. /\ Len(D) = 12 /\ \A i \in 1..9 : D[i] = S[i]
      /\ D[10] = P[1] /\ D[11] = P[2] /\ D[12] = R[1]
  <2>1. InThreeParts(D, S, P, R)
    BY <1>1, <1>2, <1>3, ThreeJoined
  <2> HIDE DEF D
  <2> QED
    BY <2>1 DEF InThreeParts
<1>7. D = DashboardQueries /\ S = SummaryQueries
  BY <1>5 DEF D, S
<1> HIDE DEF D
<1> QED
  BY <1>3, <1>4, <1>6, <1>7

(* The three queries of the profit and loss statement.                     *)
LEMMA ProfitIs ==
  /\ Len(ProfitQueries) = 3
  /\ ProfitQueries[1] = Over("revenue", 30, 0, TRUE)
  /\ ProfitQueries[2] = Over("units", 30, 0, TRUE)
  /\ ProfitQueries[3] = Over("revenue", 30, 0, TRUE)
BY DEF ProfitQueries

(* Whatever a report asks is a query.                                      *)
LEMMA AllAreQueries ==
  ASSUME Calendar, NEW kind \in Kinds, NEW i \in 1..Len(Queries(kind))
  PROVE  Query(Queries(kind)[i])
<1>2. \A j \in 1..9 : Query(SummaryQueries[j])
  <2>0. \A since \in Int : Query(Over("revenue", since, 0, FALSE))
    BY DEF Query, Over
  <2>1. /\ Query(Over("revenue", 0, 0, FALSE)) /\ Query(Over("revenue", 1, 0, FALSE))
        /\ Query(Over("revenue", 30, 0, FALSE))
    BY DEF Query, Over
  <2>2. today.weekday \in Int /\ today.weekday + 7 \in Int /\ today.day - 1 \in Int
    BY CalendarType
  <2>3. /\ Query(Over("revenue", today.weekday, 0, FALSE))
        /\ Query(Over("revenue", today.weekday + 7, 0, FALSE))
        /\ Query(Over("revenue", today.day - 1, 0, FALSE))
    BY <2>0, <2>2, Zenon
  <2>4. Query(SummaryQueries[1]) /\ Query(SummaryQueries[2]) /\ Query(SummaryQueries[3])
    BY <2>1, SummaryIs, Zenon
  <2>5. Query(SummaryQueries[4]) /\ Query(SummaryQueries[5]) /\ Query(SummaryQueries[6])
    BY <2>3, SummaryIs, Zenon
  <2>6. Query(SummaryQueries[7]) /\ Query(SummaryQueries[8]) /\ Query(SummaryQueries[9])
    BY <2>1, <2>3, SummaryIs, Zenon
  <2> QED
    BY <2>4, <2>5, <2>6
<1>3. CASE kind = "summary"
  BY <1>2, <1>3, SummaryIs DEF Queries
<1>4. CASE kind = "profit"
  <2>0. Queries(kind) = ProfitQueries /\ Len(Queries(kind)) = 3
    BY <1>4, ProfitIs DEF Queries
  <2>1. i = 1 \/ i = 2 \/ i = 3
    BY <2>0
  <2>2. Query(Over("revenue", 30, 0, TRUE)) /\ Query(Over("units", 30, 0, TRUE))
    BY DEF Query, Over
  <2> QED
    BY <2>0, <2>1, <2>2, ProfitIs
<1>5. CASE kind = "dashboard"
  <2>1. Queries(kind) = DashboardQueries /\ i \in 1..12
    BY <1>5, DashboardIs DEF Queries
  <2>2. CASE i \in 1..9
    BY <1>2, <2>1, <2>2, DashboardIs
  <2>3. CASE i \notin 1..9
    <3>1. i = 10 \/ i = 11 \/ i = 12
      BY <2>1, <2>3
    <3>2. Query(Over("units", 30, 0, FALSE)) /\ Query(Over("stock", 0, 0, FALSE))
          /\ Query(Over("revenue", 29, 0, FALSE))
      BY DEF Query, Over
    <3> QED
      BY <2>1, <3>1, <3>2, DashboardIs
  <2> QED
    BY <2>2, <2>3
<1> QED
  BY <1>3, <1>4, <1>5 DEF Kinds

----------------------------------------------------------------------------
(* The answer of a query, or what it would be if it ran now.               *)
KnownAnswer(i) ==
  IF i <= Len(report.answers) THEN report.answers[i]
  ELSE AnswerTo(receipt, Queries(report.kind)[i])
Near(x, y) == Magnitude(x - y) <= traffic.value

SummaryClose ==
  /\ Near(KnownAnswer(1), Sold(0, 0))
  /\ Near(KnownAnswer(2) - KnownAnswer(3), Sold(1, 1))
  /\ Near(KnownAnswer(4), Sold(today.weekday, 0))
  /\ Near(KnownAnswer(5) - KnownAnswer(6), Sold(today.weekday + 7, today.weekday + 1))
  /\ Near(KnownAnswer(7), Sold(today.day - 1, 0))
  /\ Near(KnownAnswer(8) - KnownAnswer(9), Sold(30, today.day))
Recent == Cardinality({r \in Receipts : report.opening[r].status = "completed"
                                        /\ report.opening[r].age <= 30})
ProfitClose ==
  Near(KnownAnswer(1) - KnownAnswer(3), 0) /\ Magnitude(KnownAnswer(2) - Recent) <= traffic.count
StockThen == Cardinality({r \in Receipts : ~ (report.opening[r].status = "completed"
                                              /\ report.opening[r].age > 30)})
UnitsClose == Magnitude((KnownAnswer(10) + KnownAnswer(11)) - StockThen) <= traffic.count

ReportTypes ==
  /\ Calendar /\ receipt \in Sheets
  /\ report \in [at : {"idle", "reading", "done", "failed"}, kind : Kinds \cup {"none"},
                 answers : Seq(Int), opening : Sheets]
  /\ traffic \in [value : Nat, count : Nat]
Reading == report.at \in {"reading", "done"}
Progress ==
  /\ report.kind \in Kinds /\ Len(report.answers) <= Len(Queries(report.kind))
  /\ report.at = "done" => Len(report.answers) = Len(Queries(report.kind))
FiguresFit ==
  /\ report.kind \in {"summary", "dashboard"} => SummaryClose
  /\ report.kind = "profit" => ProfitClose
  /\ report.kind = "dashboard" => UnitsClose
Untouched ==
  traffic.value = 0 /\ traffic.count = 0 /\ \A r \in Receipts : receipt[r].late = FALSE

ReportInv ==
  /\ ReportTypes
  /\ report.at = "idle" => Untouched
  /\ Reading => Progress /\ FiguresFit

(* An answer, given or foreseen, is an integer.                            *)
LEMMA KnownType ==
  ASSUME ReportTypes, Progress, NEW i \in 1..Len(Queries(report.kind))
  PROVE  KnownAnswer(i) \in Int
<1>1. Query(Queries(report.kind)[i])
  BY AllAreQueries DEF ReportTypes, Progress
<1>2. AnswerTo(receipt, Queries(report.kind)[i]) \in Int
  BY <1>1, AnswerIsSum DEF ReportTypes
<1> QED
  BY <1>2 DEF KnownAnswer, ReportTypes

(* A figure moves, two that are compared move by the same amount, two that *)
(* are added move against each other: the error grows by no more.          *)
LEMMA OneMoves ==
  \A x, y, t, d, v \in Int :
    (y = x \/ y = x + d) /\ Magnitude(x - t) <= v => Magnitude(y - t) <= v + Magnitude(d)
BY DEF Magnitude

(* The difference of two that move alike.                                  *)
LEMMA TwoMove ==
  \A x, y, u, w, t, d, v \in Int :
    (y = x \/ y = x + d) /\ (w = u \/ w = u + d) /\ Magnitude((x - u) - t) <= v
    => Magnitude((y - w) - t) <= v + Magnitude(d)
BY DEF Magnitude

(* The sum of two that move against each other.                            *)
LEMMA OppositesMove ==
  \A x, y, u, w, t, v \in Int : \A d \in {1, -1} :
    (y = x \/ y = x + d) /\ (w = u \/ w = u - d) /\ Magnitude((x + u) - t) <= v
    => Magnitude((y + w) - t) <= v + 1
BY DEF Magnitude

----------------------------------------------------------------------------
(* The queries of a report do not change while it runs.                    *)
LEMMA QueriesStay ==
  ASSUME today' = today, report'.kind = report.kind
  PROVE  Queries(report.kind)' = Queries(report.kind)
<1>1. SummaryQueries' = SummaryQueries /\ DashboardQueries' = DashboardQueries
      /\ ProfitQueries' = ProfitQueries
  BY DEF SummaryQueries, ProfitQueries, DashboardQueries, ProductQueries, RevenueSince
<1> QED
  BY <1>1 DEF Queries

(* A query that runs answers what was foreseen.                            *)
LEMMA RunQueryKnown ==
  ASSUME ReportTypes, Progress, RunQuery, NEW i \in 1..Len(Queries(report.kind))
  PROVE  KnownAnswer(i)' = KnownAnswer(i)
<1> SUFFICES ASSUME NEW a, a = report.answers, NEW qs, qs = Queries(report.kind)
             PROVE  KnownAnswer(i)' = KnownAnswer(i)
  OBVIOUS
<1>1. /\ report'.answers = Append(a, AnswerTo(receipt, qs[Len(a) + 1]))
      /\ report'.kind = report.kind /\ receipt' = receipt /\ a \in Seq(Int)
  BY DEF RunQuery, Asked, ReportTypes
<1>2. Queries(report.kind)' = qs
  BY <1>1, QueriesStay DEF RunQuery
<1>3. AnswerTo(receipt, qs[i])' = AnswerTo(receipt, qs[i])
  BY <1>1 DEF AnswerTo, Selected
<1> DEFINE new == AnswerTo(receipt, qs[Len(a) + 1])
<1>4. new = AnswerTo(receipt, qs[Len(a) + 1])
  OBVIOUS
<1> HIDE DEF new
<1>5. /\ Len(Append(a, new)) = Len(a) + 1 /\ Len(a) \in Nat
      /\ \A j \in 1..Len(a) : Append(a, new)[j] = a[j]
      /\ Append(a, new)[Len(a) + 1] = new
  BY <1>1
<1>6. report'.answers = Append(a, new)
  BY <1>1, <1>4
<1>7. KnownAnswer(i) = IF i <= Len(a) THEN a[i] ELSE AnswerTo(receipt, qs[i])
  BY DEF KnownAnswer
<1>8. KnownAnswer(i)' = IF i <= Len(a) + 1 THEN Append(a, new)[i] ELSE AnswerTo(receipt, qs[i])
  BY <1>2, <1>3, <1>5, <1>6 DEF KnownAnswer
<1> QED
  BY <1>4, <1>5, <1>7, <1>8

(* What commits beside a report moves each answer that is still to come by *)
(* nothing or by one and the same amount, and the counts by one.           *)
Moves(i, q, d, u) ==
  /\ q.what = "revenue" => KnownAnswer(i)' = KnownAnswer(i) \/ KnownAnswer(i)' = KnownAnswer(i) + d
  /\ q.what = "units"   => KnownAnswer(i)' = KnownAnswer(i) \/ KnownAnswer(i)' = KnownAnswer(i) + u
  /\ q.what = "stock"   => KnownAnswer(i)' = KnownAnswer(i) \/ KnownAnswer(i)' = KnownAnswer(i) - u
Shift(d, u) ==
  /\ traffic'.value = traffic.value + Magnitude(d) /\ traffic'.count = traffic.count + 1
  /\ \A i \in 1..Len(Queries(report.kind)) : Moves(i, Queries(report.kind)[i], d, u)
WorthMoves(x, y, d, u) ==
  \A q : Query(q) =>
    /\ q.what = "revenue" => Worth(y, q) - Worth(x, q) \in {0, d}
    /\ q.what = "units"   => Worth(y, q) - Worth(x, q) \in {0, u}
    /\ q.what = "stock"   => Worth(y, q) - Worth(x, q) = 0 - u

(* If one receipt changes, each answer still to come moves by the change   *)
(* of what that receipt is worth to it.                                    *)
LEMMA ShiftFromWorth ==
  ASSUME ReportTypes, Progress, NEW r \in Receipts, receipt' \in Sheets,
         \A s \in Receipts \ {r} : receipt'[s] = receipt[s],
         report' = report, today' = today, NEW d \in Int, NEW u \in {1, -1},
         WorthMoves(receipt[r], receipt'[r], d, u), NEW i \in 1..Len(Queries(report.kind))
  PROVE  Moves(i, Queries(report.kind)[i], d, u)
<1> SUFFICES ASSUME NEW q, q = Queries(report.kind)[i] PROVE Moves(i, q, d, u)
  OBVIOUS
<1> SUFFICES ASSUME NEW after, after = receipt' PROVE Moves(i, q, d, u)
  OBVIOUS
<1>1. Query(q)
  BY AllAreQueries DEF ReportTypes, Progress
<1>2. Queries(report.kind)' = Queries(report.kind)
  BY QueriesStay
<1>3. AnswerTo(receipt, q)' = AnswerTo(after, q)
  BY DEF AnswerTo, Selected
<1>4. KnownAnswer(i) = IF i <= Len(report.answers) THEN report.answers[i] ELSE AnswerTo(receipt, q)
  BY DEF KnownAnswer
<1>5. KnownAnswer(i)' = IF i <= Len(report.answers) THEN report.answers[i] ELSE AnswerTo(after, q)
  BY <1>2, <1>3 DEF KnownAnswer
<1>6. AnswerTo(after, q) = AnswerTo(receipt, q) - Worth(receipt[r], q) + Worth(after[r], q)
  BY <1>1, AnswerMoves DEF ReportTypes
<1>7. AnswerTo(receipt, q) \in Int /\ Worth(receipt[r], q) \in Int /\ Worth(after[r], q) \in Int
  <2>1. AnswerTo(receipt, q) \in Int
    BY <1>1, AnswerIsSum DEF ReportTypes
  <2>2. receipt[r].total \in Int /\ after[r].total \in Int
    BY DEF ReportTypes, Sheets
  <2> QED
    BY <2>1, <2>2 DEF Worth
<1>8. /\ q.what = "revenue" => Worth(after[r], q) - Worth(receipt[r], q) \in {0, d}
      /\ q.what = "units"   => Worth(after[r], q) - Worth(receipt[r], q) \in {0, u}
      /\ q.what = "stock"   => Worth(after[r], q) - Worth(receipt[r], q) = 0 - u
  BY <1>1 DEF WorthMoves
<1>9. CASE i <= Len(report.answers)
  BY <1>4, <1>5, <1>9 DEF Moves
<1>10. CASE ~ (i <= Len(report.answers))
  <2>1. KnownAnswer(i) = AnswerTo(receipt, q) /\ KnownAnswer(i)' = AnswerTo(after, q)
    BY <1>4, <1>5, <1>10
  <2> DEFINE old == AnswerTo(receipt, q)
             fresh == AnswerTo(after, q)
             x == Worth(receipt[r], q)
             y == Worth(after[r], q)
  <2> HIDE DEF old, fresh, x, y
  <2>2. /\ old \in Int /\ x \in Int /\ y \in Int /\ fresh = old - x + y
        /\ KnownAnswer(i) = old /\ KnownAnswer(i)' = fresh
    BY <1>6, <1>7, <2>1 DEF old, fresh, x, y
  <2>3. /\ q.what = "revenue" => y - x = 0 \/ y - x = d
        /\ q.what = "units"   => y - x = 0 \/ y - x = u
        /\ q.what = "stock"   => y - x = 0 - u
    BY <1>8 DEF x, y
  <2> QED
    BY <2>2, <2>3 DEF Moves
<1> QED
  BY <1>9, <1>10

(* A sale that commits moves the revenues by its total, units by one.      *)
LEMMA SaleShifts ==
  ASSUME ReportTypes, Progress, NEW r \in Receipts, NEW total \in Int, NEW late \in BOOLEAN,
         SaleCommits(r, total, late)
  PROVE  receipt' \in Sheets /\ \E d \in Int, u \in {1, -1} : Shift(d, u)
<1> DEFINE x == receipt[r]
           y == [status |-> "completed", age |-> 0, total |-> total, late |-> late]
<1>1. x \in [status : {"none", "completed", "voided"}, age : Nat, total : Int, late : BOOLEAN]
      /\ x.status = "none"
  BY DEF SaleCommits, ReportTypes, Sheets
<1>2. receipt'[r] = y /\ receipt' \in Sheets /\ \A s \in Receipts \ {r} : receipt'[s] = receipt[s]
  BY DEF SaleCommits, ReportTypes, Sheets
<1>3. report' = report /\ today' = today /\ traffic'.value = traffic.value + Magnitude(total)
      /\ traffic'.count = traffic.count + 1
  BY DEF SaleCommits, Passed
<1>4. WorthMoves(x, y, total, 1)
  BY <1>1 DEF WorthMoves, Worth, CountedIn, Query
<1> HIDE DEF x, y
<1>5. WorthMoves(receipt[r], receipt'[r], total, 1)
  BY <1>2, <1>4 DEF x
<1>6. Shift(total, 1)
  BY <1>2, <1>3, <1>5, ShiftFromWorth DEF Shift
<1> QED
  BY <1>2, <1>6

(* A void that commits moves them back.                                    *)
LEMMA VoidShifts ==
  ASSUME ReportTypes, Progress, NEW r \in Receipts, VoidCommits(r)
  PROVE  receipt' \in Sheets /\ \E d \in Int, u \in {1, -1} : Shift(d, u)
<1> DEFINE x == receipt[r]
           y == [x EXCEPT !.status = "voided"]
           d == 0 - x.total
<1>1. x \in [status : {"none", "completed", "voided"}, age : Nat, total : Int, late : BOOLEAN]
      /\ x.status = "completed"
  BY DEF VoidCommits, ReportTypes, Sheets
<1>2. receipt'[r] = y /\ receipt' \in Sheets /\ \A s \in Receipts \ {r} : receipt'[s] = receipt[s]
  BY <1>1 DEF VoidCommits, ReportTypes, Sheets
<1>3. report' = report /\ today' = today /\ traffic'.value = traffic.value + Magnitude(x.total)
      /\ traffic'.count = traffic.count + 1
  BY DEF VoidCommits, Passed
<1>4. d \in Int /\ Magnitude(x.total) = Magnitude(d) /\ y.status = "voided"
  BY <1>1 DEF Magnitude
<1>8. x.total \in Int /\ x.status = "completed" /\ y.status = "voided" /\ d = 0 - x.total
  BY <1>1, <1>4
<1> HIDE DEF x, y, d
<1>5. WorthMoves(x, y, d, -1)
  <2> SUFFICES ASSUME NEW q, Query(q)
               PROVE  /\ q.what = "revenue" => Worth(y, q) - Worth(x, q) \in {0, d}
                      /\ q.what = "units"   => Worth(y, q) - Worth(x, q) \in {0, -1}
                      /\ q.what = "stock"   => Worth(y, q) - Worth(x, q) = 0 - (-1)
    BY DEF WorthMoves
  <2>1. ~ CountedIn(y, q)
    BY <1>8 DEF CountedIn
  <2>2. /\ q.what = "revenue" => Worth(y, q) = 0 /\ (Worth(x, q) = 0 \/ Worth(x, q) = x.total)
        /\ q.what = "units" => Worth(y, q) = 0 /\ (Worth(x, q) = 0 \/ Worth(x, q) = 1)
        /\ q.what = "stock" => Worth(y, q) = 1 /\ Worth(x, q) = 0
    BY <1>8, <2>1 DEF Worth
  <2> DEFINE w == Worth(x, q)
             v == Worth(y, q)
             t == x.total
  <2> HIDE DEF w, v, t
  <2>3. /\ q.what = "revenue" => v = 0 /\ (w = 0 \/ w = t)
        /\ q.what = "units" => v = 0 /\ (w = 0 \/ w = 1)
        /\ q.what = "stock" => v = 1 /\ w = 0
        /\ t \in Int /\ d = 0 - t
    BY <1>8, <2>2 DEF w, v, t
  <2>4. /\ q.what = "revenue" => v - w \in {0, d}
        /\ q.what = "units"   => v - w \in {0, -1}
        /\ q.what = "stock"   => v - w = 0 - (-1)
    BY <2>3
  <2> QED
    BY <2>4 DEF w, v
<1>6. WorthMoves(receipt[r], receipt'[r], d, -1)
  BY <1>2, <1>5 DEF x
<1>7. Shift(d, -1)
  BY <1>2, <1>3, <1>4, <1>6, ShiftFromWorth DEF Shift
<1> QED
  BY <1>2, <1>4, <1>7

(* What the queries of a kind of report ask for.                           *)
AsksSummary(qs) ==
  \A i \in 1..9 : i \in 1..Len(qs) /\ qs[i] = SummaryQueries[i] /\ qs[i].what = "revenue"
AsksDashboard(qs) ==
  /\ Len(qs) = 12 /\ 10 \in 1..Len(qs) /\ 11 \in 1..Len(qs)
  /\ qs[10] = Over("units", 30, 0, FALSE) /\ qs[11] = Over("stock", 0, 0, FALSE)
  /\ qs[10].what = "units" /\ qs[11].what = "stock"
AsksProfit(qs) ==
  /\ Len(qs) = 3 /\ 1 \in 1..Len(qs) /\ 2 \in 1..Len(qs) /\ 3 \in 1..Len(qs)
  /\ qs[1] = Over("revenue", 30, 0, TRUE) /\ qs[2] = Over("units", 30, 0, TRUE)
  /\ qs[3] = Over("revenue", 30, 0, TRUE)
  /\ qs[1].what = "revenue" /\ qs[2].what = "units" /\ qs[3].what = "revenue"

(* Each kind of report asks what is named for it.                          *)
LEMMA AskedFor ==
  ASSUME Calendar
  PROVE  /\ report.kind \in {"summary", "dashboard"} => AsksSummary(Queries(report.kind))
         /\ report.kind = "dashboard" => AsksDashboard(Queries(report.kind))
         /\ report.kind = "profit" => AsksProfit(Queries(report.kind))
<1>1. \A i \in 1..9 : SummaryQueries[i].what = "revenue"
  BY DEF SummaryQueries, RevenueSince, Over
<1>2. AsksSummary(SummaryQueries)
  BY <1>1, SummaryIs DEF AsksSummary
<1>3. AsksProfit(ProfitQueries)
  BY ProfitIs DEF AsksProfit, Over
<1>4. AsksSummary(DashboardQueries)
  <2>1. (\A i \in 1..9 : DashboardQueries[i] = SummaryQueries[i]) /\ Len(DashboardQueries) = 12
    BY DashboardIs
  <2>2. \A i \in 1..9 : i \in 1..Len(DashboardQueries)
    BY <2>1
  <2> QED
    BY <1>1, <2>1, <2>2, Zenon DEF AsksSummary
<1>5. AsksDashboard(DashboardQueries)
  <2>1. /\ Len(DashboardQueries) = 12
        /\ DashboardQueries[10] = Over("units", 30, 0, FALSE)
        /\ DashboardQueries[11] = Over("stock", 0, 0, FALSE)
    BY DashboardIs
  <2>2. 10 \in 1..Len(DashboardQueries) /\ 11 \in 1..Len(DashboardQueries)
    BY <2>1
  <2>3. Over("units", 30, 0, FALSE).what = "units" /\ Over("stock", 0, 0, FALSE).what = "stock"
    BY DEF Over
  <2> QED
    BY <2>1, <2>2, <2>3, Zenon DEF AsksDashboard
<1> QED
  BY <1>2, <1>3, <1>4, <1>5 DEF Queries

(* What was sold is an integer.                                            *)
LEMMA SoldType ==
  ASSUME report.opening \in Sheets, NEW first \in Int, NEW last \in Int
  PROVE  Sold(first, last) \in Int
<1>1. Query(Over("revenue", first, last, FALSE))
  BY DEF Query, Over
<1> QED
  BY <1>1, SoldIsAsked, AnswerIsSum

TrueOnes ==
  /\ Sold(0, 0) \in Int /\ Sold(1, 1) \in Int /\ Sold(today.weekday, 0) \in Int
  /\ Sold(today.weekday + 7, today.weekday + 1) \in Int
  /\ Sold(today.day - 1, 0) \in Int /\ Sold(30, today.day) \in Int
(* The six true figures are integers.                                      *)
LEMMA TrueOnesType == ASSUME ReportTypes PROVE TrueOnes
<1>1. /\ today.weekday \in Int /\ today.weekday + 7 \in Int /\ today.weekday + 1 \in Int
      /\ today.day - 1 \in Int /\ today.day \in Int /\ 0 \in Int /\ 1 \in Int /\ 30 \in Int
  BY CalendarType DEF ReportTypes
<1>2. report.opening \in Sheets
  BY DEF ReportTypes
<1> QED
  BY <1>1, <1>2, SoldType, Zenon DEF TrueOnes

(* Where nothing but the report's reading goes on, what belongs to the     *)
(* opening stays.                                                          *)
SameTruth ==
  /\ Sold(0, 0)' = Sold(0, 0) /\ Sold(1, 1)' = Sold(1, 1)
  /\ Sold(today.weekday, 0)' = Sold(today.weekday, 0)
  /\ Sold(today.weekday + 7, today.weekday + 1)' = Sold(today.weekday + 7, today.weekday + 1)
  /\ Sold(today.day - 1, 0)' = Sold(today.day - 1, 0) /\ Sold(30, today.day)' = Sold(30, today.day)
  /\ Recent' = Recent /\ StockThen' = StockThen
(* A step that keeps the opening and the day keeps the truth.              *)
LEMMA TruthStays ==
  ASSUME report'.opening = report.opening, today' = today
  PROVE  SameTruth
<1>1. Recent' = Recent /\ StockThen' = StockThen
  BY DEF Recent, StockThen
<1> QED
  BY <1>1 DEF SameTruth, Sold

(* The two counts of the opening are integers.                             *)
LEMMA CountsType == Recent \in Int /\ StockThen \in Int
BY ReportAssumption, FS_Subset, FS_CardinalityType DEF Recent, StockThen

(* A sale or a void keeps the six figures as close as its total allows.    *)
LEMMA SummaryStays ==
  ASSUME ReportTypes, Progress, report.kind \in {"summary", "dashboard"}, SummaryClose,
         report' = report, today' = today, NEW d \in Int, NEW u \in {1, -1}, Shift(d, u)
  PROVE  SummaryClose'
<1>1. \A i \in 1..9 : i \in 1..Len(Queries(report.kind)) /\ Queries(report.kind)[i].what = "revenue"
  BY AskedFor DEF ReportTypes, AsksSummary
<1>2. \A i \in 1..9 : KnownAnswer(i) \in Int /\ (KnownAnswer(i)' = KnownAnswer(i) \/ KnownAnswer(i)' = KnownAnswer(i) + d)
  BY <1>1, KnownType DEF Shift, Moves
<1>3. \A i \in 1..9 : KnownAnswer(i)' \in Int
  BY <1>2
<1>4. SameTruth /\ TrueOnes
  BY TruthStays, TrueOnesType
<1>5. traffic.value \in Int /\ traffic'.value = traffic.value + Magnitude(d)
  BY DEF ReportTypes, Shift
<1>6. ASSUME NEW i \in 1..9, NEW t \in Int, Near(KnownAnswer(i), t)
      PROVE  Magnitude(KnownAnswer(i)' - t) <= traffic'.value
  BY <1>2, <1>3, <1>5, <1>6, OneMoves DEF Near
<1>7. ASSUME NEW i \in 1..9, NEW j \in 1..9, NEW t \in Int, Near(KnownAnswer(i) - KnownAnswer(j), t)
      PROVE  Magnitude(KnownAnswer(i)' - KnownAnswer(j)' - t) <= traffic'.value
  <2> DEFINE x == KnownAnswer(i)
             y == KnownAnswer(i)'
             w == KnownAnswer(j)
             z == KnownAnswer(j)'
             v == traffic.value
  <2>1. /\ x \in Int /\ y \in Int /\ w \in Int /\ z \in Int /\ v \in Int
        /\ y = x \/ y = x + d
        /\ z = w \/ z = w + d
        /\ Magnitude((x - w) - t) <= v /\ traffic'.value = v + Magnitude(d)
    BY <1>2, <1>3, <1>5, <1>7 DEF Near
  <2> HIDE DEF x, y, w, z, v
  <2>2. Magnitude((y - z) - t) <= v + Magnitude(d)
    BY <2>1, TwoMove
  <2> QED
    BY <2>1, <2>2 DEF y, z
<1>8. /\ Magnitude(KnownAnswer(1)' - Sold(0, 0)) <= traffic'.value
      /\ Magnitude(KnownAnswer(4)' - Sold(today.weekday, 0)) <= traffic'.value
      /\ Magnitude(KnownAnswer(7)' - Sold(today.day - 1, 0)) <= traffic'.value
  BY <1>4, <1>6 DEF SummaryClose, TrueOnes
<1>9. /\ Magnitude(KnownAnswer(2)' - KnownAnswer(3)' - Sold(1, 1)) <= traffic'.value
      /\ Magnitude(KnownAnswer(5)' - KnownAnswer(6)' - Sold(today.weekday + 7, today.weekday + 1)) <= traffic'.value
      /\ Magnitude(KnownAnswer(8)' - KnownAnswer(9)' - Sold(30, today.day)) <= traffic'.value
  BY <1>4, <1>7 DEF SummaryClose, TrueOnes
<1> QED
  BY <1>4, <1>8, <1>9 DEF SummaryClose, Near, SameTruth

(* And the figures of the profit and loss statement.                       *)
LEMMA ProfitStays ==
  ASSUME ReportTypes, Progress, report.kind = "profit", ProfitClose,
         report' = report, today' = today, NEW d \in Int, NEW u \in {1, -1}, Shift(d, u)
  PROVE  ProfitClose'
<1>1. AsksProfit(Queries(report.kind))
  BY AskedFor DEF ReportTypes
<1>2. /\ KnownAnswer(1) \in Int /\ (KnownAnswer(1)' = KnownAnswer(1) \/ KnownAnswer(1)' = KnownAnswer(1) + d)
      /\ KnownAnswer(2) \in Int /\ (KnownAnswer(2)' = KnownAnswer(2) \/ KnownAnswer(2)' = KnownAnswer(2) + u)
      /\ KnownAnswer(3) \in Int /\ (KnownAnswer(3)' = KnownAnswer(3) \/ KnownAnswer(3)' = KnownAnswer(3) + d)
  BY <1>1, KnownType DEF Shift, Moves, AsksProfit
<1>3. KnownAnswer(1)' \in Int /\ KnownAnswer(2)' \in Int /\ KnownAnswer(3)' \in Int
  BY <1>2
<1>4. SameTruth /\ Recent \in Int
  BY TruthStays, CountsType
<1>5. /\ traffic.value \in Int /\ traffic'.value = traffic.value + Magnitude(d)
      /\ traffic.count \in Int /\ traffic'.count = traffic.count + 1 /\ Magnitude(u) = 1
  BY DEF ReportTypes, Shift, Magnitude
<1>6. Magnitude(KnownAnswer(1)' - KnownAnswer(3)' - 0) <= traffic'.value
  <2> DEFINE x == KnownAnswer(1)
             y == KnownAnswer(1)'
             w == KnownAnswer(3)
             z == KnownAnswer(3)'
             v == traffic.value
             t == 0
  <2>1. /\ x \in Int /\ y \in Int /\ w \in Int /\ z \in Int /\ v \in Int /\ t \in Int
        /\ y = x \/ y = x + d
        /\ z = w \/ z = w + d
        /\ Magnitude((x - w) - t) <= v /\ traffic'.value = v + Magnitude(d)
    BY <1>2, <1>3, <1>5 DEF Near, ProfitClose
  <2> HIDE DEF x, y, w, z, v, t
  <2>2. Magnitude((y - z) - t) <= v + Magnitude(d)
    BY <2>1, TwoMove
  <2> QED
    BY <2>1, <2>2 DEF y, z, t
<1>7. Magnitude(KnownAnswer(2)' - Recent) <= traffic'.count
  <2> DEFINE x == KnownAnswer(2)
             y == KnownAnswer(2)'
             t == Recent
             v == traffic.count
  <2>1. /\ x \in Int /\ y \in Int /\ t \in Int /\ v \in Int
        /\ y = x \/ y = x + u
        /\ Magnitude(x - t) <= v /\ traffic'.count = v + 1 /\ Magnitude(u) = 1 /\ u \in Int
    BY <1>2, <1>3, <1>4, <1>5 DEF ProfitClose
  <2> HIDE DEF x, y, t, v
  <2>2. Magnitude(y - t) <= v + Magnitude(u)
    BY <2>1, OneMoves
  <2> QED
    BY <2>1, <2>2 DEF y, t
<1> QED
  BY <1>4, <1>6, <1>7 DEF ProfitClose, Near, SameTruth

(* And the units and the stock of the dashboard.                           *)
LEMMA UnitsStay ==
  ASSUME ReportTypes, Progress, report.kind = "dashboard", UnitsClose,
         report' = report, today' = today, NEW d \in Int, NEW u \in {1, -1}, Shift(d, u)
  PROVE  UnitsClose'
<1>1. AsksDashboard(Queries(report.kind))
  BY AskedFor DEF ReportTypes
<1>2. /\ KnownAnswer(10) \in Int /\ (KnownAnswer(10)' = KnownAnswer(10) \/ KnownAnswer(10)' = KnownAnswer(10) + u)
      /\ KnownAnswer(11) \in Int /\ (KnownAnswer(11)' = KnownAnswer(11) \/ KnownAnswer(11)' = KnownAnswer(11) - u)
  BY <1>1, KnownType DEF Shift, Moves, AsksDashboard
<1>3. KnownAnswer(10)' \in Int /\ KnownAnswer(11)' \in Int
  BY <1>2
<1>4. SameTruth /\ StockThen \in Int
  BY TruthStays, CountsType
<1>5. traffic.count \in Int /\ traffic'.count = traffic.count + 1
  BY DEF ReportTypes, Shift
<1>6. Magnitude((KnownAnswer(10)' + KnownAnswer(11)') - StockThen) <= traffic'.count
  <2> DEFINE x == KnownAnswer(10)
             y == KnownAnswer(10)'
             w == KnownAnswer(11)
             z == KnownAnswer(11)'
             t == StockThen
             v == traffic.count
  <2>1. /\ x \in Int /\ y \in Int /\ w \in Int /\ z \in Int /\ t \in Int /\ v \in Int
        /\ y = x \/ y = x + u
        /\ z = w \/ z = w - u
        /\ Magnitude((x + w) - t) <= v /\ traffic'.count = v + 1
    BY <1>2, <1>3, <1>4, <1>5 DEF UnitsClose
  <2> HIDE DEF x, y, w, z, t, v
  <2>2. Magnitude((y + z) - t) <= v + 1
    BY <2>1, OppositesMove
  <2> QED
    BY <2>1, <2>2 DEF y, z, t
<1> QED
  BY <1>4, <1>6 DEF UnitsClose, SameTruth

----------------------------------------------------------------------------
(* Before a report begins there was no traffic.                            *)
LEMMA ReportInitInv == ReportInit => ReportInv
<1> SUFFICES ASSUME ReportInit PROVE ReportInv
  OBVIOUS
<1> DEFINE Row == [status : {"none", "completed", "voided"}, age : Nat, total : Int, late : BOOLEAN]
<1>0. NoReceipt \in Row /\ NoReceipt.late = FALSE
  BY DEF NoReceipt
<1>1. ASSUME NEW x, x \in {NoReceipt} \cup
               [status : {"completed", "voided"}, age : Ages, total : Totals, late : {FALSE}]
      PROVE  x \in Row /\ x.late = FALSE
  <2>1. CASE x = NoReceipt
    BY <1>0, <2>1
  <2>2. CASE x # NoReceipt
    <3>1. x \in [status : {"completed", "voided"}, age : Ages, total : Totals, late : {FALSE}]
      BY <1>1, <2>2
    <3> QED
      BY <3>1, ReportAssumption
  <2> QED
    BY <2>1, <2>2
<1>4. receipt \in [Receipts -> {NoReceipt} \cup
               [status : {"completed", "voided"}, age : Ages, total : Totals, late : {FALSE}]]
  BY DEF ReportInit
<1> HIDE DEF Row
<1>2. (\A r \in Receipts : receipt[r].late = FALSE) /\ receipt \in [Receipts -> Row]
  BY <1>1, <1>4
<1>5. receipt \in Sheets
  BY <1>2 DEF Row, Sheets
<1>6. Calendar
  BY ReportAssumption DEF ReportInit, Calendar
<1>3. ReportTypes
  BY <1>5, <1>6 DEF ReportInit, ReportTypes
<1> QED
  BY <1>2, <1>3 DEF ReportInit, ReportInv, Untouched, Reading

(* The sales up to a day and those before it.                              *)
LEMMA PeriodsAddUp ==
  ASSUME ReportTypes, NEW first \in Int, NEW edge \in Int, NEW last \in Int,
         0 <= edge + 1, edge <= first, last = edge + 1
  PROVE  AnswerTo(report.opening, Over("revenue", first, 0, FALSE)) =
           AnswerTo(report.opening, Over("revenue", first, last, FALSE))
             + AnswerTo(report.opening, Over("revenue", edge, 0, FALSE))
<1> DEFINE both == Over("revenue", first, 0, FALSE)
           p == Over("revenue", first, last, FALSE)
           q == Over("revenue", edge, 0, FALSE)
           old == report.opening
<1>1. Query(both) /\ Query(p) /\ Query(q) /\ old \in Sheets
  BY DEF Query, Over, ReportTypes
<1>2. ASSUME NEW r \in Receipts
      PROVE  Worth(old[r], both) = Worth(old[r], p) + Worth(old[r], q)
  <2>1. old[r].age \in Nat /\ old[r].total \in Int
    BY <1>1 DEF Sheets
  <2>2. /\ both.what = "revenue" /\ both.since = first /\ both.upto = 0 /\ both.closed = FALSE
        /\ p.what = "revenue" /\ p.since = first /\ p.upto = last /\ p.closed = FALSE
        /\ q.what = "revenue" /\ q.since = edge /\ q.upto = 0 /\ q.closed = FALSE
    BY DEF Over
  <2> HIDE DEF both, p, q, old
  <2>3. /\ CountedIn(old[r], both) <=> old[r].status = "completed" /\ 0 <= old[r].age /\ old[r].age <= first
        /\ CountedIn(old[r], p) <=> old[r].status = "completed" /\ last <= old[r].age /\ old[r].age <= first
        /\ CountedIn(old[r], q) <=> old[r].status = "completed" /\ 0 <= old[r].age /\ old[r].age <= edge
    BY <2>2 DEF CountedIn
  <2>4. /\ CountedIn(old[r], both) <=> CountedIn(old[r], p) \/ CountedIn(old[r], q)
        /\ ~ (CountedIn(old[r], p) /\ CountedIn(old[r], q))
    BY <2>1, <2>3
  <2> QED
    BY <2>1, <2>2, <2>4 DEF Worth
<1> HIDE DEF both, p, q, old
<1>3. AnswerTo(old, both) = AnswerTo(old, p) + AnswerTo(old, q)
  BY <1>1, <1>2, AnswersAddUp
<1> QED
  BY <1>3 DEF both, p, q, old

(* When a report begins, all it is going to answer is exact.               *)
Fresh ==
  /\ ReportTypes /\ report.kind \in Kinds /\ report.answers = << >>
  /\ receipt = report.opening /\ Untouched

(* At its start a report foresees what the opening answers.                *)
LEMMA FreshKnown ==
  ASSUME Fresh, NEW i \in Nat \ {0}
  PROVE  KnownAnswer(i) = AnswerTo(report.opening, Queries(report.kind)[i])
<1>1. Len(report.answers) = 0
  BY DEF Fresh
<1> QED
  BY <1>1 DEF KnownAnswer, Fresh

(* At its start the six figures of the summary are exact.                  *)
LEMMA FreshSummary ==
  ASSUME Fresh, report.kind \in {"summary", "dashboard"}
  PROVE  SummaryClose
<1> DEFINE A(since, upto) == AnswerTo(report.opening, Over("revenue", since, upto, FALSE))
           w == today.weekday
           m == today.day - 1
<1>1. \A i \in 1..9 : KnownAnswer(i) = AnswerTo(report.opening, SummaryQueries[i])
  <2> SUFFICES ASSUME NEW i \in 1..9
               PROVE  KnownAnswer(i) = AnswerTo(report.opening, SummaryQueries[i])
    OBVIOUS
  <2>1. Queries(report.kind)[i] = SummaryQueries[i]
    BY AskedFor DEF AsksSummary, Fresh, ReportTypes
  <2>2. i \in Nat \ {0}
    OBVIOUS
  <2> QED
    BY <2>1, <2>2, FreshKnown, Zenon
<1>2. /\ w \in Int /\ w + 7 \in Int /\ w + 1 \in Int /\ m \in Int /\ today.day \in Int
      /\ today.day = m + 1 /\ 0 <= w /\ 0 <= m + 1 /\ m <= 30
  BY CalendarType DEF Fresh, ReportTypes
<1>3. /\ KnownAnswer(1) = A(0, 0) /\ KnownAnswer(2) = A(1, 0) /\ KnownAnswer(3) = A(0, 0)
      /\ KnownAnswer(4) = A(w, 0) /\ KnownAnswer(5) = A(w + 7, 0) /\ KnownAnswer(6) = A(w, 0)
      /\ KnownAnswer(7) = A(m, 0) /\ KnownAnswer(8) = A(30, 0) /\ KnownAnswer(9) = A(m, 0)
  <2> DEFINE K(i) == KnownAnswer(i) = AnswerTo(report.opening, SummaryQueries[i])
  <2>1. K(1) /\ K(2) /\ K(3) /\ K(4) /\ K(5) /\ K(6) /\ K(7) /\ K(8) /\ K(9)
    BY <1>1
  <2> QED
    BY <2>1, SummaryIs, Zenon
<1>4. \A since, upto \in Int : A(since, upto) \in Int /\ Sold(since, upto) = A(since, upto)
  <2> SUFFICES ASSUME NEW since \in Int, NEW upto \in Int
               PROVE  A(since, upto) \in Int /\ Sold(since, upto) = A(since, upto)
    OBVIOUS
  <2>1. report.opening \in Sheets
    BY DEF Fresh, ReportTypes
  <2> QED
    BY <2>1, SoldIsAsked, SoldType
<1>5. \A first, edge, last \in Int : 0 <= edge + 1 /\ edge <= first /\ last = edge + 1 =>
        A(first, 0) = A(first, last) + A(edge, 0)
  BY PeriodsAddUp DEF Fresh
<1> HIDE DEF A, w, m
<1>6. /\ A(1, 0) = A(1, 1) + A(0, 0)
      /\ A(w + 7, 0) = A(w + 7, w + 1) + A(w, 0)
      /\ A(30, 0) = A(30, today.day) + A(m, 0)
  BY <1>2, <1>5
<1>7. /\ KnownAnswer(1) = Sold(0, 0) /\ KnownAnswer(4) = Sold(w, 0) /\ KnownAnswer(7) = Sold(m, 0)
      /\ KnownAnswer(2) - KnownAnswer(3) = Sold(1, 1) /\ KnownAnswer(5) - KnownAnswer(6) = Sold(w + 7, w + 1)
      /\ KnownAnswer(8) - KnownAnswer(9) = Sold(30, today.day)
  <2>0. 0 \in Int /\ 1 \in Int /\ 30 \in Int
    OBVIOUS
  <2>1. /\ Sold(0, 0) = A(0, 0) /\ Sold(1, 1) = A(1, 1) /\ Sold(w, 0) = A(w, 0)
        /\ Sold(w + 7, w + 1) = A(w + 7, w + 1) /\ Sold(m, 0) = A(m, 0)
        /\ Sold(30, today.day) = A(30, today.day)
    BY <1>2, <1>4, <2>0, Zenon
  <2>2. /\ A(0, 0) \in Int /\ A(1, 1) \in Int /\ A(w, 0) \in Int
        /\ A(w + 7, w + 1) \in Int /\ A(m, 0) \in Int /\ A(30, today.day) \in Int
    BY <1>2, <1>4, <2>0, Zenon
  <2>3. \A x, y \in Int : (x + y) - y = x
    OBVIOUS
  <2>4. /\ KnownAnswer(2) - KnownAnswer(3) = A(1, 1) /\ KnownAnswer(5) - KnownAnswer(6) = A(w + 7, w + 1)
        /\ KnownAnswer(8) - KnownAnswer(9) = A(30, today.day)
    BY <1>3, <1>6, <2>2, <2>3
  <2> QED
    BY <1>3, <2>1, <2>4
<1>8. TrueOnes /\ \A x \in Int : Magnitude(x - x) <= traffic.value
  BY TrueOnesType DEF Fresh, Untouched, Magnitude
<1>9. SummaryClose
  BY <1>7, <1>8 DEF SummaryClose, TrueOnes, Near, w, m
<1> QED
  BY <1>9

(* So are the profit and loss statement,                                   *)
LEMMA FreshProfit ==
  ASSUME Fresh, report.kind = "profit"
  PROVE  ProfitClose
<1> DEFINE q == Over("units", 30, 0, TRUE)
           old == report.opening
<1>1. AsksProfit(Queries(report.kind))
  BY AskedFor DEF Fresh, ReportTypes
<1>2. 1 \in Nat \ {0} /\ 2 \in Nat \ {0} /\ 3 \in Nat \ {0}
  OBVIOUS
<1>3. /\ KnownAnswer(1) = AnswerTo(old, Over("revenue", 30, 0, TRUE))
      /\ KnownAnswer(3) = AnswerTo(old, Over("revenue", 30, 0, TRUE))
      /\ KnownAnswer(2) = AnswerTo(old, q)
  BY <1>1, <1>2, FreshKnown, Zenon DEF AsksProfit
<1>4. q.what = "units" /\ q.since = 30 /\ q.upto = 0
  BY DEF Over
<1>5. \A r \in Receipts : old[r].late = FALSE /\ old[r].age \in Nat
  BY DEF Fresh, Untouched, ReportTypes, Sheets
<1>6. Selected(old, q) = {r \in Receipts : old[r].status = "completed" /\ old[r].age <= 30}
  <2> HIDE DEF q, old
  <2>1. \A r \in Receipts : old[r].age \in q.upto .. q.since <=> old[r].age <= 30
    BY <1>4, <1>5
  <2> QED
    BY <1>5, <2>1 DEF Selected
<1>7. KnownAnswer(2) = Recent
  BY <1>3, <1>4, <1>6 DEF AnswerTo, Recent
<1>8. KnownAnswer(1) \in Int
  <2>1. Query(Over("revenue", 30, 0, TRUE))
    BY DEF Query, Over
  <2> QED
    BY <1>3, <2>1, AnswerIsSum DEF Fresh, ReportTypes
<1>9. \A x \in Int : Magnitude(x - x) <= traffic.count /\ Magnitude(x - x - 0) <= traffic.value
  BY DEF Fresh, Untouched, Magnitude
<1> QED
  BY <1>3, <1>7, <1>8, <1>9, CountsType DEF ProfitClose, Near

(* the units and the stock,                                                *)
LEMMA FreshUnits ==
  ASSUME Fresh, report.kind = "dashboard"
  PROVE  UnitsClose
<1> DEFINE q == Over("units", 30, 0, FALSE)
           s == Over("stock", 0, 0, FALSE)
           old == report.opening
           sold == Selected(old, q)
           left == {r \in Receipts : old[r].status # "completed"}
           then == {r \in Receipts : ~ (old[r].status = "completed" /\ old[r].age > 30)}
<1>1. AsksDashboard(Queries(report.kind))
  BY AskedFor DEF Fresh, ReportTypes
<1>2. 10 \in Nat \ {0} /\ 11 \in Nat \ {0}
  OBVIOUS
<1>3. KnownAnswer(10) = AnswerTo(old, q) /\ KnownAnswer(11) = AnswerTo(old, s)
  BY <1>1, <1>2, FreshKnown, Zenon DEF AsksDashboard
<1>4. q.what = "units" /\ q.since = 30 /\ q.upto = 0 /\ q.closed = FALSE /\ s.what = "stock"
  BY DEF Over
<1>5. \A r \in Receipts : old[r].age \in Nat
  BY DEF Fresh, ReportTypes, Sheets
<1>6. sold = {r \in Receipts : old[r].status = "completed" /\ old[r].age <= 30}
  <2> HIDE DEF q, old
  <2>1. \A r \in Receipts : old[r].age \in q.upto .. q.since <=> old[r].age <= 30
    BY <1>4, <1>5
  <2> QED
    BY <1>4, <2>1 DEF Selected
<1>7. KnownAnswer(10) = Cardinality(sold) /\ KnownAnswer(11) = Cardinality(left)
  BY <1>3, <1>4 DEF AnswerTo
<1>8. sold \cup left = then /\ sold \cap left = {} /\ sold \subseteq Receipts /\ left \subseteq Receipts
  <2>1. \A r \in Receipts : old[r].age > 30 <=> ~ (old[r].age <= 30)
    BY <1>5
  <2> HIDE DEF sold, old
  <2> QED
    BY <1>6, <2>1, Zenon
<1>9. StockThen = Cardinality(then)
  BY DEF StockThen
<1> HIDE DEF sold, left, then
<1>10. IsFiniteSet(sold) /\ IsFiniteSet(left)
  BY <1>8, FS_Subset, ReportAssumption
<1>11. Cardinality(sold \cup left) = Cardinality(sold) + Cardinality(left) - Cardinality(sold \cap left)
  BY <1>10, FS_Union
<1>12. Cardinality(sold) \in Nat /\ Cardinality(left) \in Nat /\ Cardinality(sold \cap left) = 0
  BY <1>8, <1>10, FS_CardinalityType, FS_EmptySet
<1>15. Cardinality(then) = Cardinality(sold) + Cardinality(left)
  BY <1>8, <1>11, <1>12
<1>13. KnownAnswer(10) + KnownAnswer(11) = StockThen
  BY <1>7, <1>9, <1>15
<1>14. \A x \in Int : Magnitude(x - x) <= traffic.count
  BY DEF Fresh, Untouched, Magnitude
<1>16. Magnitude(StockThen - StockThen) <= traffic.count
  BY <1>14, CountsType
<1> QED
  BY <1>13, <1>16, Zenon DEF UnitsClose

(* and so all figures of any report.                                       *)
LEMMA FreshFits == Fresh => FiguresFit
BY FreshSummary, FreshProfit, FreshUnits DEF FiguresFit

(* The same, in the next state.                                            *)
LEMMA FreshFitsNext == Fresh' => FiguresFit'
BY FreshFits, PTL

----------------------------------------------------------------------------
(* How many queries a report runs.                                         *)
LEMMA QueriesLen ==
  ASSUME Calendar, report.kind \in Kinds
  PROVE  Len(Queries(report.kind)) \in {3, 9, 12}
<1>1. CASE report.kind = "summary"
  BY <1>1, SummaryIs DEF Queries
<1>2. CASE report.kind = "profit"
  BY <1>2, ProfitIs DEF Queries
<1>3. CASE report.kind = "dashboard"
  <2>1. Len(Queries(report.kind)) = 12
    BY <1>3, DashboardIs DEF Queries
  <2> QED
    BY <2>1
<1> QED
  BY <1>1, <1>2, <1>3 DEF Kinds

(* A report that has just begun has all its queries to run.                *)
LEMMA FreshReport == Fresh /\ report.at = "reading" => Progress /\ FiguresFit
<1> SUFFICES ASSUME Fresh, report.at = "reading" PROVE Progress
  BY FreshFits
<1>1. Len(report.answers) = 0
  BY DEF Fresh
<1>2. Len(Queries(report.kind)) \in {3, 9, 12} /\ report.kind \in Kinds
  BY QueriesLen DEF Fresh, ReportTypes
<1> QED
  BY <1>1, <1>2 DEF Progress

(* The same, in the next state.                                            *)
LEMMA FreshReportNext == (Fresh /\ report.at = "reading")' => Progress' /\ FiguresFit'
BY FreshReport, PTL

(* Each action keeps the invariant: here the start of a report.            *)
LEMMA StartKeeps ==
  ASSUME ReportInv, NEW kind \in Kinds, StartReport(kind)
  PROVE  ReportInv'
<1>1. /\ report' = [at |-> "reading", kind |-> kind, answers |-> << >>, opening |-> receipt]
      /\ receipt' = receipt /\ today' = today /\ traffic' = traffic /\ report.at = "idle"
  BY DEF StartReport
<1>2. ReportTypes /\ Untouched
  BY <1>1 DEF ReportInv
<1>3. ReportTypes'
  BY <1>1, <1>2 DEF ReportTypes, Calendar, Kinds
<1>4. Untouched'
  BY <1>1, <1>2 DEF Untouched
<1>5. Fresh' /\ report'.at = "reading"
  BY <1>1, <1>3, <1>4 DEF Fresh
<1>6. Progress' /\ FiguresFit'
  BY <1>5, FreshReportNext
<1> QED
  BY <1>3, <1>5, <1>6 DEF ReportInv

(* A report that is refused.                                               *)
LEMMA RefusedKeeps ==
  ASSUME ReportInv, NEW kind \in Kinds, ReportRefused(kind)
  PROVE  ReportInv'
<1>1. /\ report' = [report EXCEPT !.at = "failed", !.kind = kind]
      /\ receipt' = receipt /\ today' = today /\ traffic' = traffic
  BY DEF ReportRefused
<1>2. ReportTypes
  BY DEF ReportInv
<1>3. ReportTypes' /\ report'.at = "failed"
  BY <1>1, <1>2 DEF ReportTypes, Calendar, Kinds
<1> QED
  BY <1>3 DEF ReportInv, Reading

(* What is known stays known, and fits.                                    *)
LEMMA KnownFits ==
  ASSUME ReportTypes, Progress, FiguresFit, report'.opening = report.opening,
         report'.kind = report.kind, today' = today, traffic' = traffic,
         \A i \in 1..Len(Queries(report.kind)) : KnownAnswer(i)' = KnownAnswer(i)
  PROVE  FiguresFit'
<1>1. SameTruth
  BY TruthStays
<1>2. CASE report.kind \in {"summary", "dashboard"}
  <2>1. AsksSummary(Queries(report.kind)) /\ SummaryClose
    BY <1>2, AskedFor DEF ReportTypes, FiguresFit
  <2>2. \A i \in 1..9 : KnownAnswer(i)' = KnownAnswer(i)
    BY <2>1 DEF AsksSummary
  <2>3. SummaryClose'
    BY <1>1, <2>1, <2>2 DEF SummaryClose, Near, SameTruth
  <2>4. report.kind = "dashboard" => UnitsClose'
    <3> SUFFICES ASSUME report.kind = "dashboard" PROVE UnitsClose'
      OBVIOUS
    <3>1. AsksDashboard(Queries(report.kind)) /\ UnitsClose
      BY AskedFor DEF ReportTypes, FiguresFit
    <3> QED
      BY <1>1, <3>1 DEF UnitsClose, AsksDashboard, SameTruth
  <2> QED
    BY <1>2, <2>3, <2>4 DEF FiguresFit
<1>3. CASE report.kind = "profit"
  <2>1. AsksProfit(Queries(report.kind)) /\ ProfitClose
    BY <1>3, AskedFor DEF ReportTypes, FiguresFit
  <2>2. ProfitClose'
    BY <1>1, <2>1 DEF ProfitClose, Near, AsksProfit, SameTruth
  <2> QED
    BY <1>3, <2>2 DEF FiguresFit
<1> QED
  BY <1>2, <1>3 DEF Progress, Kinds

(* A query runs: its answer was foreseen.                                  *)
LEMMA RunQueryKeeps ==
  ASSUME ReportInv, RunQuery
  PROVE  ReportInv'
<1> DEFINE n == Len(report.answers)
           L == Len(Queries(report.kind))
           new == AnswerTo(receipt, Queries(report.kind)[n + 1])
<1>1. /\ report' = [report EXCEPT !.answers = Append(@, new)] /\ report.at = "reading" /\ n + 1 <= L
      /\ receipt' = receipt /\ today' = today /\ traffic' = traffic
  BY DEF RunQuery, Asked
<1>2. ReportTypes /\ Progress /\ FiguresFit
  BY <1>1 DEF ReportInv, Reading
<1>3. n \in Nat /\ L \in Nat
  BY <1>2, QueriesLen DEF ReportTypes, Progress
<1>4. new \in Int
  <2>1. n + 1 \in 1..L
    BY <1>1, <1>3
  <2>2. Query(Queries(report.kind)[n + 1])
    BY <1>2, <2>1, AllAreQueries DEF ReportTypes, Progress
  <2> QED
    BY <1>2, <2>2, AnswerIsSum DEF ReportTypes
<1> HIDE DEF new
<1>5. /\ report'.at = "reading" /\ report'.kind = report.kind /\ report'.opening = report.opening
      /\ report'.answers = Append(report.answers, new) /\ Len(report'.answers) = n + 1
      /\ report'.answers \in Seq(Int)
  BY <1>1, <1>2, <1>4 DEF ReportTypes
<1>6. ReportTypes'
  BY <1>1, <1>2, <1>5 DEF ReportTypes, Calendar
<1>7. Queries(report.kind)' = Queries(report.kind)
  BY <1>1, <1>5, QueriesStay
<1>8. Progress'
  BY <1>1, <1>2, <1>5, <1>7 DEF Progress
<1>9. FiguresFit'
  BY <1>1, <1>2, <1>5, RunQueryKnown, KnownFits
<1> QED
  BY <1>5, <1>6, <1>8, <1>9 DEF ReportInv

(* The report is done.                                                     *)
LEMMA FinishKeeps ==
  ASSUME ReportInv, FinishReport
  PROVE  ReportInv'
<1>1. /\ report' = [report EXCEPT !.at = "done"] /\ report.at = "reading"
      /\ Len(report.answers) + 1 > Len(Queries(report.kind))
      /\ receipt' = receipt /\ today' = today /\ traffic' = traffic
  BY DEF FinishReport, Asked
<1>2. ReportTypes /\ Progress /\ FiguresFit
  BY <1>1 DEF ReportInv, Reading
<1>3. /\ report'.at = "done" /\ report'.kind = report.kind /\ report'.opening = report.opening
      /\ report'.answers = report.answers
  BY <1>1, <1>2 DEF ReportTypes
<1>4. ReportTypes'
  BY <1>1, <1>2 DEF ReportTypes, Calendar
<1>5. Queries(report.kind)' = Queries(report.kind)
  BY <1>1, <1>3, QueriesStay
<1>6. Len(report.answers) \in Nat /\ Len(Queries(report.kind)) \in Nat
  BY <1>2, QueriesLen DEF ReportTypes, Progress
<1>7. Progress'
  BY <1>1, <1>2, <1>3, <1>5, <1>6 DEF Progress
<1>8. ASSUME NEW i PROVE KnownAnswer(i)' = KnownAnswer(i)
  <2> SUFFICES ASSUME NEW qs, qs = Queries(report.kind)
               PROVE  KnownAnswer(i)' = KnownAnswer(i)
    OBVIOUS
  <2>1. Queries(report.kind)' = qs
    BY <1>5
  <2>2. AnswerTo(receipt, qs[i])' = AnswerTo(receipt, qs[i])
    BY <1>1 DEF AnswerTo, Selected
  <2> QED
    BY <1>3, <2>1, <2>2 DEF KnownAnswer
<1>9. FiguresFit'
  BY <1>1, <1>2, <1>3, <1>8, KnownFits
<1> QED
  BY <1>3, <1>4, <1>7, <1>9 DEF ReportInv

(* Sales and voids beside the report.                                      *)
LEMMA ShiftKeeps ==
  ASSUME ReportInv, report.at = "reading", report' = report, today' = today,
         receipt' \in Sheets, traffic' \in [value : Nat, count : Nat],
         NEW d \in Int, NEW u \in {1, -1}, Shift(d, u)
  PROVE  ReportInv'
<1>1. ReportTypes /\ Progress /\ FiguresFit
  BY DEF ReportInv, Reading
<1>2. ReportTypes'
  BY <1>1 DEF ReportTypes, Calendar
<1>3. Queries(report.kind)' = Queries(report.kind)
  BY QueriesStay
<1>4. Progress'
  BY <1>1, <1>3 DEF Progress
<1>5. report.kind \in {"summary", "dashboard"} => SummaryClose'
  BY <1>1, SummaryStays DEF FiguresFit
<1>6. report.kind = "profit" => ProfitClose'
  BY <1>1, ProfitStays DEF FiguresFit
<1>7. report.kind = "dashboard" => UnitsClose'
  BY <1>1, UnitsStay DEF FiguresFit
<1>8. FiguresFit'
  BY <1>5, <1>6, <1>7 DEF FiguresFit
<1> QED
  BY <1>2, <1>4, <1>8 DEF ReportInv

(* Traffic is counted in numbers.                                          *)
LEMMA PassedType ==
  ASSUME ReportTypes, NEW n \in Int, Passed(n)
  PROVE  traffic' \in [value : Nat, count : Nat]
BY DEF ReportTypes, Passed, Magnitude

(* All together.                                                           *)
LEMMA ReportStep == ReportInv /\ [ReportNext]_reportVars => ReportInv'
<1> SUFFICES ASSUME ReportInv, [ReportNext]_reportVars PROVE ReportInv'
  OBVIOUS
<1>1. ASSUME NEW kind \in Kinds, StartReport(kind) \/ ReportRefused(kind) PROVE ReportInv'
  BY <1>1, StartKeeps, RefusedKeeps
<1>2. ASSUME RunQuery PROVE ReportInv'
  BY <1>2, RunQueryKeeps
<1>3. ASSUME FinishReport PROVE ReportInv'
  BY <1>3, FinishKeeps
<1>4. ASSUME NEW r \in Receipts, VoidCommits(r) PROVE ReportInv'
  <2>1. report.at = "reading" /\ report' = report /\ today' = today /\ Passed(receipt[r].total)
    BY <1>4 DEF VoidCommits
  <2>2. ReportTypes /\ Progress
    BY <2>1 DEF ReportInv, Reading
  <2>3. receipt' \in Sheets /\ \E d \in Int, u \in {1, -1} : Shift(d, u)
    BY <1>4, <2>2, VoidShifts
  <2>4. receipt[r].total \in Int
    BY <2>2 DEF ReportTypes, Sheets
  <2>5. traffic' \in [value : Nat, count : Nat]
    BY <2>1, <2>2, <2>4, PassedType
  <2> QED
    BY <2>1, <2>3, <2>5, ShiftKeeps
<1>5. ASSUME NEW r \in Receipts, NEW t \in Totals, NEW late \in BOOLEAN, SaleCommits(r, t, late)
      PROVE  ReportInv'
  <2>1. report.at = "reading" /\ report' = report /\ today' = today /\ Passed(t)
    BY <1>5 DEF SaleCommits
  <2>2. ReportTypes /\ Progress /\ t \in Int
    BY <2>1, ReportAssumption DEF ReportInv, Reading
  <2>3. receipt' \in Sheets /\ \E d \in Int, u \in {1, -1} : Shift(d, u)
    BY <1>5, <2>2, SaleShifts
  <2>5. traffic' \in [value : Nat, count : Nat]
    BY <2>1, <2>2, PassedType
  <2> QED
    BY <2>1, <2>3, <2>5, ShiftKeeps
<1>6. ASSUME UNCHANGED reportVars PROVE ReportInv'
  <2>1. report' = report /\ receipt' = receipt /\ today' = today /\ traffic' = traffic
    BY <1>6 DEF reportVars
  <2>2. Queries(report.kind)' = Queries(report.kind) /\ SameTruth
    BY <2>1, QueriesStay, TruthStays
  <2>3. ASSUME NEW i PROVE KnownAnswer(i)' = KnownAnswer(i)
    BY <2>1, <2>2 DEF KnownAnswer, AnswerTo, Selected
  <2>4. (ReportTypes => ReportTypes') /\ (Untouched => Untouched') /\ (Progress => Progress')
    BY <2>1, <2>2 DEF ReportTypes, Calendar, Untouched, Progress
  <2>5. ReportTypes /\ Progress /\ FiguresFit => FiguresFit'
    BY <2>1, <2>3, KnownFits
  <2> QED
    BY <2>1, <2>4, <2>5 DEF ReportInv, Reading
<1> QED
  BY <1>1, <1>2, <1>3, <1>4, <1>5, <1>6 DEF ReportNext, Kinds

(* What was foreseen is what a finished report answers.                    *)
LEMMA ReportInvFits == ReportInv => ReportsErrByTraffic
<1> SUFFICES ASSUME ReportInv, report.at = "done" PROVE ReportsErrByTraffic
  BY DEF ReportsErrByTraffic, FiguresErrByTraffic, ProfitAddsUp, UnitsAreAccountedFor
<1>1. ReportTypes /\ Progress /\ FiguresFit
  BY DEF ReportInv, Reading
<1>2. Len(report.answers) = Len(Queries(report.kind)) /\ report.kind \in Kinds
  BY <1>1 DEF Progress
<1>3. \A i \in 1..Len(Queries(report.kind)) : KnownAnswer(i) = report.answers[i]
  BY <1>1, <1>2 DEF KnownAnswer, ReportTypes
<1>4. FiguresErrByTraffic
  <2> SUFFICES ASSUME report.kind \in {"summary", "dashboard"}, NEW i \in 1..6
               PROVE  Magnitude(SummaryFigures(report.answers)[i] - TrueFigures[i]) <= traffic.value
    BY DEF FiguresErrByTraffic
  <2>1. AsksSummary(Queries(report.kind)) /\ SummaryClose
    BY <1>1, AskedFor DEF ReportTypes, FiguresFit
  <2>2. \A j \in 1..9 : KnownAnswer(j) = report.answers[j]
    BY <1>3, <2>1 DEF AsksSummary
  <2> SUFFICES ASSUME NEW a, a = report.answers
               PROVE  Magnitude(SummaryFigures(a)[i] - TrueFigures[i]) <= traffic.value
    OBVIOUS
  <2>3. /\ SummaryFigures(a)[1] = KnownAnswer(1) /\ SummaryFigures(a)[2] = KnownAnswer(2) - KnownAnswer(3)
        /\ SummaryFigures(a)[3] = KnownAnswer(4) /\ SummaryFigures(a)[4] = KnownAnswer(5) - KnownAnswer(6)
        /\ SummaryFigures(a)[5] = KnownAnswer(7) /\ SummaryFigures(a)[6] = KnownAnswer(8) - KnownAnswer(9)
    BY <2>2 DEF SummaryFigures
  <2>4. /\ TrueFigures[1] = Sold(0, 0) /\ TrueFigures[2] = Sold(1, 1)
        /\ TrueFigures[3] = Sold(today.weekday, 0)
        /\ TrueFigures[4] = Sold(today.weekday + 7, today.weekday + 1)
        /\ TrueFigures[5] = Sold(today.day - 1, 0) /\ TrueFigures[6] = Sold(30, today.day)
    BY DEF TrueFigures
  <2> DEFINE f(j) == SummaryFigures(a)[j]
             g(j) == TrueFigures[j]
  <2>5. i = 1 \/ i = 2 \/ i = 3 \/ i = 4 \/ i = 5 \/ i = 6
    OBVIOUS
  <2> QED
    BY <2>1, <2>3, <2>4, <2>5, Zenon DEF SummaryClose, Near
<1>5. ProfitAddsUp
  <2> SUFFICES ASSUME report.kind = "profit" PROVE ProfitAddsUp
    BY DEF ProfitAddsUp
  <2>1. AsksProfit(Queries(report.kind)) /\ ProfitClose
    BY <1>1, AskedFor DEF ReportTypes, FiguresFit
  <2>2. /\ KnownAnswer(1) = report.answers[1] /\ KnownAnswer(2) = report.answers[2]
        /\ KnownAnswer(3) = report.answers[3] /\ KnownAnswer(1) \in Int /\ KnownAnswer(3) \in Int
    BY <1>1, <1>3, <2>1, KnownType DEF AsksProfit
  <2>3. \A x, y \in Int : (x - y) - 0 = x - y
    OBVIOUS
  <2> QED
    BY <2>1, <2>2, <2>3 DEF ProfitAddsUp, ProfitClose, Near, Recent
<1>6. UnitsAreAccountedFor
  <2> SUFFICES ASSUME report.kind = "dashboard" PROVE UnitsAreAccountedFor
    BY DEF UnitsAreAccountedFor
  <2>1. AsksDashboard(Queries(report.kind)) /\ UnitsClose
    BY <1>1, AskedFor DEF ReportTypes, FiguresFit
  <2>2. KnownAnswer(10) = report.answers[10] /\ KnownAnswer(11) = report.answers[11]
    BY <1>3, <2>1 DEF AsksDashboard
  <2> QED
    BY <2>1, <2>2, Zenon DEF UnitsAreAccountedFor, UnitsClose, StockThen
<1> QED
  BY <1>4, <1>5, <1>6 DEF ReportsErrByTraffic

(* The figures of a finished report that belong together differ from the   *)
(* sales of their days when it began (for "last month", of the days the    *)
(* code takes), and from one another, by no more than what was sold and    *)
(* voided while its queries ran (reports/routes.py).                       *)
THEOREM ReportsErr == ReportSpec => []ReportsErrByTraffic
<1>1. ReportInit => ReportInv
  BY ReportInitInv
<1>2. ReportInv /\ [ReportNext]_reportVars => ReportInv'
  BY ReportStep
<1>3. ReportInv => ReportsErrByTraffic
  BY ReportInvFits
<1> QED
  BY <1>1, <1>2, <1>3, PTL DEF ReportSpec

LEMMA ReportsTyped == ReportInv => ReportTypeOK
<1> SUFFICES ASSUME ReportInv PROVE ReportTypeOK
  OBVIOUS
<1>1. /\ receipt \in Sheets /\ traffic \in [value : Nat, count : Nat]
      /\ report.at \in {"idle", "reading", "done", "failed"} /\ report.answers \in Seq(Int)
  BY DEF ReportInv, ReportTypes
<1>2. \A r \in Receipts : receipt[r].status \in {"none", "completed", "voided"}
  BY <1>1 DEF Sheets
<1> QED
  BY <1>1, <1>2 DEF ReportTypeOK

----------------------------------------------------------------------------
(* The profile of a business.                                              *)

(* int() of a quotient by a positive number: an integer, of the same sign. *)
LEMMA TruncatedType ==
  ASSUME NEW n \in Int, NEW d \in Nat \ {0}
  PROVE  Truncated(n, d) \in Int /\ (n >= 0 => Truncated(n, d) >= 0)
<1>1. ASSUME NEW m \in Nat PROVE m \div d \in Int /\ m \div d >= 0
  OBVIOUS
<1>2. CASE n < 0
  <2>1. -n \in Nat
    BY <1>2
  <2>2. (-n) \div d \in Int
    BY <1>1, <2>1
  <2> QED
    BY <1>2, <2>2 DEF Truncated
<1>3. CASE n >= 0
  BY <1>1, <1>3 DEF Truncated
<1> QED
  BY <1>2, <1>3

(* A divisor that was kept from being zero.                                *)
LEMMA AtLeastOneType ==
  ASSUME NEW n \in Int
  PROVE  AtLeastOne(n) \in Nat \ {0} /\ OrOne(n) \in Int /\ OrOne(n) # 0
BY TwoOf DEF AtLeastOne, OrOne

----------------------------------------------------------------------------
PurchaseRows == [there : BOOLEAN, total : Int, age : Nat]
PatronRows == [there : BOOLEAN, visits : Nat, credit : Nat, limit : Nat]
Shops == [purchase : [Purchases -> PurchaseRows], patron : [Patrons -> PatronRows],
          shelf : [Shelves -> {"none", "low", "full"}]]
TakingsType == [sum : Int, count : Nat]
AnswerTypes == Int \cup TakingsType

(* What each query may be answered.                                        *)
Fitting(query, answer) ==
  /\ query \in {"all_sales", "week"} => answer \in TakingsType
  /\ query \in {"customers", "repeat", "batches", "low"} => answer \in Nat
  /\ query \in {"age", "categories", "regulars", "credit", "limits", "this_month", "last_month"} =>
       answer \in Int
QueryNames == {"age", "categories", "regulars", "all_sales", "week", "customers", "repeat",
               "batches", "low", "credit", "limits", "this_month", "last_month"}

(* Takings are a sum and a count, of whatever sales.                       *)
LEMMA TakingsAre ==
  ASSUME shop \in Shops, NEW first, NEW last
  PROVE  Takings(MadeWithin(first, last)) \in TakingsType
<1> DEFINE S == MadeWithin(first, last)
           f == [s \in Purchases |-> shop.purchase[s].total]
<1>1. S \subseteq Purchases /\ \A s \in Purchases : f[s] \in Int
  BY DEF MadeWithin, Shops, PurchaseRows
<1>2. IsFiniteSet(S)
  BY <1>1, FS_Subset, DNAAssumption
<1> HIDE DEF S, f
<1>3. SumFunctionOnSet(f, S) \in Int
  BY <1>1, <1>2, SumType
<1>4. Cardinality(S) \in Nat
  BY <1>2, FS_CardinalityType
<1> QED
  BY <1>3, <1>4 DEF S, f, Takings, TakingsType

(* The age of the oldest sale.                                             *)
LEMMA OldestIs ==
  ASSUME shop \in Shops, MadeWithin(Ever, 0) # {}
  PROVE  Max({shop.purchase[s].age : s \in MadeWithin(Ever, 0)}) \in Int
<1> DEFINE S == MadeWithin(Ever, 0)
           A == {shop.purchase[s].age : s \in S}
           f == [s \in S |-> shop.purchase[s].age]
<1>1. S \subseteq Purchases /\ \A s \in Purchases : shop.purchase[s].age \in Int
  BY DEF MadeWithin, Shops, PurchaseRows
<1>6. A \subseteq Int /\ A # {}
  <2> HIDE DEF S
  <2> QED
    BY <1>1 DEF S
<1>2. IsFiniteSet(S)
  BY <1>1, FS_Subset, DNAAssumption
<1>3. f \in Surjection(S, A)
  BY DEF Surjection
<1> HIDE DEF S, A, f
<1>4. IsFiniteSet(A)
  BY <1>2, <1>3, FS_Surjection
<1>5. Max(A) \in Int
  BY <1>4, <1>6, MaxOfFinite
<1> QED
  BY <1>5 DEF A, S

(* A sum over the customers on file.                                       *)
LEMMA PatronsSum ==
  ASSUME shop \in Shops
  PROVE  /\ SumFunctionOnSet([p \in Patrons |-> shop.patron[p].credit], OnFile) \in Int
         /\ SumFunctionOnSet([p \in Patrons |-> shop.patron[p].limit], OnFile) \in Int
<1> DEFINE S == OnFile
           f == [p \in Patrons |-> shop.patron[p].credit]
           g == [p \in Patrons |-> shop.patron[p].limit]
<1>1. S \subseteq Patrons /\ \A p \in Patrons : f[p] \in Int /\ g[p] \in Int
  BY DEF OnFile, Shops, PatronRows
<1>2. IsFiniteSet(S)
  BY <1>1, FS_Subset, DNAAssumption
<1> HIDE DEF S, f, g
<1>3. SumFunctionOnSet(f, S) \in Int /\ SumFunctionOnSet(g, S) \in Int
  BY <1>1, <1>2, SumType
<1> QED
  BY <1>3 DEF S, f, g

(* Counting customers and batches.                                         *)
LEMMA CountsAre ==
  /\ \A S \in SUBSET Purchases : Cardinality(S) \in Nat
  /\ \A S \in SUBSET Patrons : Cardinality(S) \in Nat
  /\ \A S \in SUBSET Shelves : Cardinality(S) \in Nat
BY DNAAssumption, FS_Subset, FS_CardinalityType

(* Every query is answered as it may be.                                   *)
LEMMA AnswersFit ==
  ASSUME shop \in Shops, NEW query \in QueryNames
  PROVE  Fitting(query, AnswerOf(query)) /\ AnswerOf(query) \in AnswerTypes
<1>1. CASE query = "age"
  <2>1. AnswerOf(query) \in Int
    BY <1>1, OldestIs DEF AnswerOf
  <2> QED
    BY <1>1, <2>1 DEF Fitting, AnswerTypes
<1>2. CASE query \in {"all_sales", "week"}
  <2>1. AnswerOf(query) \in TakingsType
    BY <1>2, TakingsAre DEF AnswerOf
  <2> QED
    BY <1>2, <2>1 DEF Fitting, AnswerTypes
<1>3. CASE query \in {"this_month", "last_month"}
  <2>1. AnswerOf(query) \in Int
    BY <1>3, TakingsAre DEF AnswerOf, TakingsType
  <2> QED
    BY <1>3, <2>1 DEF Fitting, AnswerTypes
<1>4. CASE query \in {"categories", "regulars", "customers", "repeat", "batches", "low"}
  <2>1. /\ MadeWithin(31, 0) \subseteq Purchases /\ OnFile \subseteq Patrons
        /\ {p \in OnFile : shop.patron[p].visits > 0} \subseteq Patrons
        /\ {p \in OnFile : shop.patron[p].visits >= 2} \subseteq Patrons
        /\ {b \in Shelves : shop.shelf[b] # "none"} \subseteq Shelves
        /\ {b \in Shelves : shop.shelf[b] = "low"} \subseteq Shelves
    BY DEF MadeWithin, OnFile
  <2>2. AnswerOf(query) \in Nat
    BY <1>4, <2>1, CountsAre DEF AnswerOf
  <2> QED
    BY <1>4, <2>2 DEF Fitting, AnswerTypes
<1>5. CASE query \in {"credit", "limits"}
  <2>1. AnswerOf(query) \in Int
    BY <1>5, PatronsSum DEF AnswerOf
  <2> QED
    BY <1>5, <2>1 DEF Fitting, AnswerTypes
<1> QED
  BY <1>1, <1>2, <1>3, <1>4, <1>5 DEF QueryNames

----------------------------------------------------------------------------
(* The queries of a profile end with those of the health score.            *)
QueriesFit(all) ==
  /\ Len(all) \in Nat /\ Len(all) >= 10
  /\ \A i \in 1..Len(all) : all[i] \in QueryNames
  /\ \A i \in 1..10 : /\ Len(all) - 10 + i \in 1..Len(all)
                      /\ all[Len(all) - 10 + i] = HealthQueries[i]

LEMMA HealthQueriesAre ==
  /\ HealthQueries \in Seq(QueryNames) /\ Len(HealthQueries) = 10
  /\ \A i \in 1..10 : HealthQueries[i] \in QueryNames
BY DEF HealthQueries, QueryNames

LEMMA QueriesAre ==
  ASSUME profile.kind \in {"health", "profile"}
  PROVE  QueriesFit(DNAQueries)
<1> DEFINE first == <<"age", "categories", "age", "regulars">>
<1>1. first \in Seq(QueryNames) /\ Len(first) = 4
  BY DEF QueryNames
<1> HIDE DEF first
<1>2. CASE profile.kind = "health"
  <2>1. DNAQueries = HealthQueries
    BY <1>2 DEF DNAQueries
  <2>2. QueriesFit(HealthQueries)
    BY HealthQueriesAre DEF QueriesFit
  <2> QED
    BY <2>1, <2>2
<1>3. CASE profile.kind = "profile"
  <2>1. DNAQueries = first \o HealthQueries
    BY <1>3 DEF DNAQueries, first
  <2>2. PICK all : all = first \o HealthQueries
    OBVIOUS
  <2>3. PICK health : health = HealthQueries
    OBVIOUS
  <2>4. /\ all \in Seq(QueryNames) /\ Len(all) = Len(first) + Len(health)
        /\ \A i \in 1 .. Len(first) + Len(health) :
             all[i] = IF i <= Len(first) THEN first[i] ELSE health[i - Len(first)]
    BY <1>1, <2>2, <2>3, HealthQueriesAre, ConcatProperties
  <2>5. Len(all) = 14 /\ \A i \in 1..14 : all[i] = IF i <= 4 THEN first[i] ELSE health[i - 4]
    BY <1>1, <2>3, <2>4, HealthQueriesAre
  <2>6. \A i \in 1..Len(all) : all[i] \in QueryNames
    BY <2>4, ElementOfSeq
  <2>7. ASSUME NEW i \in 1..10
        PROVE  Len(all) - 10 + i \in 1..Len(all) /\ all[Len(all) - 10 + i] = health[i]
    <3>1. Len(all) - 10 + i = 4 + i /\ 4 + i \in 1..14 /\ ~ (4 + i <= 4) /\ 4 + i - 4 = i
      BY <2>5
    <3> QED
      BY <2>5, <3>1
  <2>8. Len(all) \in Nat /\ Len(all) >= 10
    BY <2>5
  <2> QED
    BY <2>1, <2>2, <2>3, <2>6, <2>7, <2>8 DEF QueriesFit
<1> QED
  BY <1>2, <1>3

Stages == [at : {"running", "done", "failed"}, kind : {"health", "profile"},
           answers : Seq(AnswerTypes)]
ProfileInv ==
  /\ shop \in Shops
  /\ profile \in Stages
  /\ Len(profile.answers) <= Len(DNAQueries)
  /\ \A i \in 1..Len(profile.answers) : Fitting(DNAQueries[i], profile.answers[i])

(* An edited customer is still one.                                        *)
LEMMA EditedPatrons ==
  ASSUME NEW row \in PatronRows
  PROVE  /\ \A there \in BOOLEAN : [row EXCEPT !.there = there] \in PatronRows
         /\ [row EXCEPT !.visits = 2] \in PatronRows
         /\ [row EXCEPT !.credit = 1] \in PatronRows
         /\ \A most \in {0, 1} : [row EXCEPT !.limit = most] \in PatronRows
<1>1. ASSUME NEW there \in BOOLEAN PROVE [row EXCEPT !.there = there] \in PatronRows
  BY DEF PatronRows
<1>2. [row EXCEPT !.visits = 2] \in PatronRows
  BY DEF PatronRows
<1>3. [row EXCEPT !.credit = 1] \in PatronRows
  BY DEF PatronRows
<1>4. ASSUME NEW most \in Nat PROVE [row EXCEPT !.limit = most] \in PatronRows
  BY DEF PatronRows
<1> QED
  BY <1>1, <1>2, <1>3, <1>4

(* Nothing was asked yet.                                                  *)
LEMMA ProfileInitInv == DNAInit => ProfileInv
<1> SUFFICES ASSUME DNAInit PROVE ProfileInv
  OBVIOUS
<1>1. shop \in Shops
  <2>1. Missing \in PurchaseRows
    BY DEF Missing, PurchaseRows
  <2>2. ASSUME NEW row \in [there : {TRUE}, total : PurchaseTotals, age : PurchaseAges]
        PROVE  row \in PurchaseRows
    BY DNAAssumption DEF PurchaseRows
  <2>3. {Missing} \cup [there : {TRUE}, total : PurchaseTotals, age : PurchaseAges]
          \subseteq PurchaseRows
    BY <2>1, <2>2
  <2>4. {[NewPatron EXCEPT !.there = FALSE], [NewPatron EXCEPT !.visits = 2]} \subseteq PatronRows
    <3>1. NewPatron \in PatronRows
      BY DEF NewPatron, PatronRows
    <3> QED
      BY <3>1, EditedPatrons
  <2>5. {"none", "low"} \subseteq {"none", "low", "full"}
    OBVIOUS
  <2> DEFINE P == {Missing} \cup [there : {TRUE}, total : PurchaseTotals, age : PurchaseAges]
             Q == {[NewPatron EXCEPT !.there = FALSE], [NewPatron EXCEPT !.visits = 2]}
  <2>6. shop \in [purchase : [Purchases -> P], patron : [Patrons -> Q],
                  shelf : [Shelves -> {"none", "low"}]]
    BY DEF DNAInit
  <2>7. P \subseteq PurchaseRows /\ Q \subseteq PatronRows
    BY <2>3, <2>4
  <2> HIDE DEF P, Q
  <2>8. /\ [Purchases -> P] \subseteq [Purchases -> PurchaseRows]
        /\ [Patrons -> Q] \subseteq [Patrons -> PatronRows]
        /\ [Shelves -> {"none", "low"}] \subseteq [Shelves -> {"none", "low", "full"}]
    BY <2>7
  <2> QED
    BY <2>6, <2>8 DEF Shops
<1>2. /\ profile \in [at : {"running"}, kind : {"health", "profile"}, answers : {<< >>}]
      /\ profile.answers = << >> /\ profile.kind \in {"health", "profile"}
  BY DEF DNAInit
<1>3. << >> \in Seq(AnswerTypes) /\ Len(<< >>) = 0
  OBVIOUS
<1>4. profile \in Stages
  BY <1>2, <1>3 DEF Stages
<1>5. Len(DNAQueries) >= 10 /\ Len(DNAQueries) \in Nat
  BY <1>2, QueriesAre DEF QueriesFit
<1> QED
  BY <1>1, <1>2, <1>3, <1>4, <1>5 DEF ProfileInv

(* A query runs.                                                           *)
LEMMA RunDNAQueryInv ==
  ASSUME ProfileInv, RunDNAQuery
  PROVE  ProfileInv'
<1>1. PICK a, qs, new :
        a = profile.answers /\ qs = DNAQueries /\ new = AnswerOf(DNAQueries[Len(profile.answers) + 1])
  OBVIOUS
<1>2. /\ profile' = [profile EXCEPT !.answers = Append(a, new)]
      /\ shop' = shop /\ Len(a) < Len(qs)
  BY <1>1 DEF RunDNAQuery
<1>3. /\ a \in Seq(AnswerTypes) /\ profile \in Stages /\ shop \in Shops
      /\ profile.kind \in {"health", "profile"}
      /\ \A i \in 1..Len(a) : Fitting(qs[i], a[i])
  BY <1>1 DEF ProfileInv, Stages
<1>4. Len(qs) \in Nat /\ \A i \in 1..Len(qs) : qs[i] \in QueryNames
  BY <1>1, <1>3, QueriesAre DEF QueriesFit
<1>5. Len(a) \in Nat /\ Len(a) + 1 \in 1..Len(qs)
  <2>1. Len(a) \in Nat
    BY <1>3
  <2> QED
    BY <1>2, <1>4, <2>1
<1>6. Fitting(qs[Len(a) + 1], new) /\ new \in AnswerTypes
  <2>1. qs[Len(a) + 1] \in QueryNames
    BY <1>4, <1>5
  <2> QED
    BY <1>1, <1>3, <2>1, AnswersFit
<1>7. /\ Append(a, new) \in Seq(AnswerTypes) /\ Len(Append(a, new)) = Len(a) + 1
      /\ \A i \in 1..Len(a) : Append(a, new)[i] = a[i]
      /\ Append(a, new)[Len(a) + 1] = new
  BY <1>3, <1>6, AppendProperties
<1>8. /\ profile' \in Stages
      /\ profile'.answers = Append(a, new) /\ profile'.kind = profile.kind
  BY <1>2, <1>3, <1>7 DEF Stages
<1>9. DNAQueries' = qs
  BY <1>1, <1>8 DEF DNAQueries, HealthQueries
<1>10. ASSUME NEW i \in 1..(Len(a) + 1) PROVE Fitting(qs[i], Append(a, new)[i])
  <2>1. CASE i = Len(a) + 1
    BY <1>6, <1>7, <2>1
  <2>2. CASE i # Len(a) + 1
    <3>1. i \in 1..Len(a)
      BY <1>5, <2>2
    <3> QED
      BY <1>3, <1>7, <3>1
  <2> QED
    BY <2>1, <2>2
<1>11. \A i \in 1..Len(profile'.answers) : Fitting(DNAQueries'[i], profile'.answers[i])
  BY <1>7, <1>8, <1>9, <1>10
<1>12. Len(profile'.answers) <= Len(DNAQueries')
  BY <1>4, <1>5, <1>7, <1>8, <1>9
<1> QED
  BY <1>2, <1>3, <1>8, <1>11, <1>12 DEF ProfileInv, Fitting

(* The profile ends.                                                       *)
LEMMA ProfileEndInv ==
  ASSUME ProfileInv, NEW where \in {"done", "failed"}, profile' = [profile EXCEPT !.at = where],
         shop' = shop
  PROVE  ProfileInv'
<1>1. /\ profile' \in Stages
      /\ profile'.answers = profile.answers /\ profile'.kind = profile.kind
  BY DEF ProfileInv, Stages
<1>2. DNAQueries' = DNAQueries
  BY <1>1 DEF DNAQueries, HealthQueries
<1> QED
  BY <1>1, <1>2 DEF ProfileInv, Fitting

(* What others commit leaves the shop a shop.                              *)
LEMMA ShopChangesInv ==
  ASSUME ProfileInv, ShopChanges
  PROVE  ProfileInv'
<1>1. profile' = profile /\ DNAQueries' = DNAQueries
  BY DEF ShopChanges, DNAQueries, HealthQueries
<1>2. shop \in Shops
  BY DEF ProfileInv
<1>3. \A s \in Purchases, row \in PurchaseRows : [shop EXCEPT !.purchase[s] = row] \in Shops
  BY <1>2 DEF Shops
<1>4. \A p \in Patrons, row \in PatronRows : [shop EXCEPT !.patron[p] = row] \in Shops
  BY <1>2 DEF Shops
<1>5. \A b \in Shelves, level \in {"full", "low"} : [shop EXCEPT !.shelf[b] = level] \in Shops
  BY <1>2 DEF Shops
<1>6. ASSUME NEW s \in Purchases,
             IF shop.purchase[s].there
             THEN shop' = [shop EXCEPT !.purchase[s] = Missing]
             ELSE \E t \in PurchaseTotals :
                    shop' = [shop EXCEPT !.purchase[s] = [there |-> TRUE, total |-> t, age |-> 0]]
      PROVE  shop' \in Shops
  <2>1. Missing \in PurchaseRows
        /\ \A t \in PurchaseTotals : [there |-> TRUE, total |-> t, age |-> 0] \in PurchaseRows
    BY DNAAssumption DEF Missing, PurchaseRows
  <2>2. CASE shop.purchase[s].there
    <3>1. shop' = [shop EXCEPT !.purchase[s] = Missing]
      BY <1>6, <2>2
    <3> QED
      BY <1>3, <2>1, <3>1
  <2>3. CASE ~ shop.purchase[s].there
    <3>1. PICK t \in PurchaseTotals :
            shop' = [shop EXCEPT !.purchase[s] = [there |-> TRUE, total |-> t, age |-> 0]]
      BY <1>6, <2>3
    <3>2. PICK row : row = [there |-> TRUE, total |-> t, age |-> 0]
      OBVIOUS
    <3>3. row \in PurchaseRows /\ shop' = [shop EXCEPT !.purchase[s] = row]
      BY <2>1, <3>1, <3>2
    <3> QED
      BY <1>3, <3>3
  <2> QED
    BY <2>2, <2>3
<1>7. ASSUME NEW p \in Patrons,
             \/ shop' = [shop EXCEPT !.patron[p].there = TRUE]
             \/ shop' = [shop EXCEPT !.patron[p].visits = 2]
             \/ shop' = [shop EXCEPT !.patron[p].credit = 1]
             \/ \E most \in {0, 1} : shop' = [shop EXCEPT !.patron[p].limit = most]
      PROVE  shop' \in Shops
  <2>1. shop.patron[p] \in PatronRows
    BY <1>2 DEF Shops
  <2>3. \E row \in PatronRows : shop' = [shop EXCEPT !.patron[p] = row]
    <3>1. CASE shop' = [shop EXCEPT !.patron[p].there = TRUE]
      <4>1. [shop.patron[p] EXCEPT !.there = TRUE] \in PatronRows
        BY <2>1, EditedPatrons
      <4> QED
        BY <3>1, <4>1
    <3>2. CASE shop' = [shop EXCEPT !.patron[p].visits = 2]
      <4>1. [shop.patron[p] EXCEPT !.visits = 2] \in PatronRows
        BY <2>1, EditedPatrons
      <4> QED
        BY <3>2, <4>1
    <3>3. CASE shop' = [shop EXCEPT !.patron[p].credit = 1]
      <4>1. [shop.patron[p] EXCEPT !.credit = 1] \in PatronRows
        BY <2>1, EditedPatrons
      <4> QED
        BY <3>3, <4>1
    <3>4. ASSUME NEW most \in {0, 1}, shop' = [shop EXCEPT !.patron[p].limit = most]
          PROVE  \E row \in PatronRows : shop' = [shop EXCEPT !.patron[p] = row]
      <4>1. [shop.patron[p] EXCEPT !.limit = most] \in PatronRows
        BY <2>1, EditedPatrons
      <4> QED
        BY <3>4, <4>1
    <3> QED
      BY <1>7, <3>1, <3>2, <3>3, <3>4
  <2> QED
    BY <1>4, <2>3
<1>8. shop' \in Shops
  <2>1. ASSUME NEW b \in Shelves, NEW level \in {"full", "low"}, shop' = [shop EXCEPT !.shelf[b] = level]
        PROVE  shop' \in Shops
    BY <1>5, <2>1
  <2> QED
    BY <1>6, <1>7, <2>1, Zenon DEF ShopChanges
<1> QED
  BY <1>1, <1>8 DEF ProfileInv, Fitting

LEMMA ProfileStepInv ==
  ASSUME ProfileInv, [DNANext]_dnaVars
  PROVE  ProfileInv'
<1>1. CASE RunDNAQuery
  BY <1>1, RunDNAQueryInv
<1>2. CASE CommitProfile
  BY <1>2, ProfileEndInv DEF CommitProfile
<1>3. CASE LoseProfile
  BY <1>3, ProfileEndInv DEF LoseProfile
<1>4. CASE ShopChanges
  BY <1>4, ShopChangesInv
<1>5. CASE UNCHANGED dnaVars
  <2>1. shop' = shop /\ profile' = profile /\ DNAQueries' = DNAQueries
    BY <1>5 DEF dnaVars, DNAQueries, HealthQueries
  <2> QED
    BY <2>1 DEF ProfileInv, Fitting
<1> QED
  BY <1>1, <1>2, <1>3, <1>4, <1>5 DEF DNANext

----------------------------------------------------------------------------
(* The ten answers of a complete profile are what their queries give.      *)
LEMMA HealthAnswers ==
  ASSUME ProfileInv, Complete
  PROVE  /\ Health(1) \in TakingsType /\ Health(2) \in TakingsType
         /\ Health(3) \in Nat /\ Health(4) \in Nat /\ Health(5) \in Nat /\ Health(6) \in Nat
         /\ Health(7) \in Int /\ Health(8) \in Int /\ Health(9) \in Int /\ Health(10) \in Int
<1>1. PICK qs, a : qs = DNAQueries /\ a = profile.answers
  OBVIOUS
<1>2. QueriesFit(qs) /\ Len(a) = Len(qs) /\ \A i \in 1..Len(a) : Fitting(qs[i], a[i])
  BY <1>1, QueriesAre DEF ProfileInv, Stages, Complete
<1>3. ASSUME NEW i \in 1..10 PROVE Fitting(HealthQueries[i], Health(i))
  <2>1. Len(qs) - 10 + i \in 1..Len(qs) /\ qs[Len(qs) - 10 + i] = HealthQueries[i]
    BY <1>2 DEF QueriesFit
  <2> QED
    BY <1>1, <1>2, <2>1 DEF Health
<1> HIDE DEF Health
<1>4. /\ HealthQueries[1] = "all_sales" /\ HealthQueries[2] = "week"
      /\ HealthQueries[3] = "customers" /\ HealthQueries[4] = "repeat"
      /\ HealthQueries[5] = "batches" /\ HealthQueries[6] = "low"
      /\ HealthQueries[7] = "credit" /\ HealthQueries[8] = "limits"
      /\ HealthQueries[9] = "this_month" /\ HealthQueries[10] = "last_month"
  BY DEF HealthQueries
<1>5. /\ Fitting("all_sales", Health(1)) /\ Fitting("week", Health(2))
      /\ Fitting("customers", Health(3)) /\ Fitting("repeat", Health(4))
      /\ Fitting("batches", Health(5)) /\ Fitting("low", Health(6))
      /\ Fitting("credit", Health(7)) /\ Fitting("limits", Health(8))
      /\ Fitting("this_month", Health(9)) /\ Fitting("last_month", Health(10))
  BY <1>3, <1>4
<1> QED
  BY <1>5 DEF Fitting

(* A component is capped at the top of its range and, as written, at 0.    *)
LEMMA Capped ==
  ASSUME NEW top \in Nat, NEW share \in Int
  PROVE  /\ Min({top, share}) \in Int /\ Min({top, share}) <= top
         /\ share >= 0 => Min({top, share}) \in 0..top
         /\ Min({top, Max({0, top - share})}) \in 0..top
<1>1. Max({0, top - share}) \in Nat
  BY TwoOf
<1>2. ASSUME NEW n \in Int
      PROVE  Min({top, n}) \in Int /\ Min({top, n}) <= top /\ (n >= 0 => Min({top, n}) \in 0..top)
  <2>1. top \in Int
    OBVIOUS
  <2>2. Min({top, n}) = IF top <= n THEN top ELSE n
    BY <2>1, TwoOf, Zenon
  <2> QED
    BY <2>2
<1> QED
  BY <1>1, <1>2

(* The product of two numbers that are not negative is not.                *)
LEMMA ProductsType ==
  /\ \A m, n \in Nat : m * n \in Nat
  /\ \A m, n \in Nat \ {0} : m * n \in Nat \ {0}
  /\ \A m, n \in Int : m * n \in Int
OBVIOUS

LEMMA RevenueFits ==
  ASSUME ProfileInv, Complete
  PROVE  /\ RevenueHealth \in Int /\ RevenueHealth <= 30
         /\ Health(2).sum >= 0 => RevenueHealth >= 0
<1>1. PICK all, week : all = Health(1) /\ week = Health(2)
  OBVIOUS
<1>2. PICK average : average = IF all.count = 0 THEN [sum |-> 1, count |-> 1]
                               ELSE [all EXCEPT !.sum = Max({@, all.count})]
  OBVIOUS
<1>3. all.sum \in Int /\ all.count \in Nat /\ week.sum \in Int /\ week.count \in Nat
      /\ all \in TakingsType
  BY <1>1, HealthAnswers DEF TakingsType
<1>4. average.sum \in Nat \ {0} /\ average.count \in Nat \ {0}
  <2>1. CASE all.count = 0
    BY <1>2, <2>1
  <2>2. CASE all.count # 0
    <3>1. average = [all EXCEPT !.sum = Max({all.sum, all.count})]
      BY <1>2, <2>2
    <3>2. average.sum = Max({all.sum, all.count}) /\ average.count = all.count
      BY <1>3, <3>1 DEF TakingsType
    <3>3. Max({all.sum, all.count}) \in Nat \ {0}
      BY <1>3, <2>2, TwoOf
    <3> QED
      BY <1>3, <2>2, <3>2, <3>3
  <2> QED
    BY <2>1, <2>2
<1>5. PICK n, d : n = 30 * week.sum * average.count /\ d = AtLeastOne(week.count) * average.sum
  OBVIOUS
<1>6. n \in Int /\ d \in Nat \ {0} /\ (week.sum >= 0 => n >= 0)
  <2>1. 30 * week.sum \in Int /\ (week.sum >= 0 => 30 * week.sum \in Nat)
    BY <1>3
  <2>2. AtLeastOne(week.count) \in Nat \ {0}
    BY <1>3, AtLeastOneType
  <2>3. d \in Nat \ {0} /\ n \in Int
    BY <1>4, <1>5, <2>1, <2>2, ProductsType
  <2>4. week.sum >= 0 => n \in Nat
    BY <1>4, <1>5, <2>1, ProductsType
  <2> QED
    BY <2>3, <2>4
<1>7. RevenueHealth = Min({30, Truncated(n, d)})
  BY <1>1, <1>2, <1>5 DEF RevenueHealth
<1>8. Truncated(n, d) \in Int /\ (week.sum >= 0 => Truncated(n, d) >= 0)
  BY <1>6, TruncatedType
<1>9. /\ RevenueHealth \in Int /\ RevenueHealth <= 30
      /\ week.sum >= 0 => RevenueHealth \in 0..30
  BY <1>7, <1>8, Capped
<1> QED
  BY <1>1, <1>9

(* No component leaves its range.                                          *)
LEMMA ScoreFits ==
  ASSUME ProfileInv
  PROVE  ScoreIsBounded
<1> SUFFICES ASSUME Complete
             PROVE  /\ RevenueHealth <= 30 /\ (Health(2).sum >= 0 => RevenueHealth >= 0)
                    /\ Retention \in 0..25 /\ StockHealth \in 0..25 /\ CreditHealth \in 0..20
                    /\ Score <= 100
  BY DEF ScoreIsBounded
<1>1. Retention \in 0..25
  <2>1. 25 * Health(4) \in Nat /\ AtLeastOne(Health(3)) \in Nat \ {0}
    BY HealthAnswers, AtLeastOneType
  <2>2. PICK n, d, share : /\ n = 25 * Health(4) /\ d = AtLeastOne(Health(3))
                           /\ share = Truncated(n, d)
    OBVIOUS
  <2>3. share \in Int /\ share >= 0
    <3>1. n \in Int /\ n >= 0 /\ d \in Nat \ {0}
      BY <2>1, <2>2
    <3> QED
      BY <2>2, <3>1, TruncatedType
  <2> QED
    BY <2>2, <2>3, Capped DEF Retention
<1>2. StockHealth \in 0..25
  <2>1. 25 * Health(6) \in Int /\ AtLeastOne(OrOne(Health(5))) \in Nat \ {0}
    BY HealthAnswers, AtLeastOneType
  <2>2. PICK share : share = Truncated(25 * Health(6), AtLeastOne(OrOne(Health(5))))
    OBVIOUS
  <2>3. share \in Int
    BY <2>1, <2>2, TruncatedType
  <2> QED
    BY <2>2, <2>3, Capped DEF StockHealth
<1>3. CreditHealth \in 0..20
  <2>1. 20 * Health(7) \in Int /\ AtLeastOne(OrOne(Health(8))) \in Nat \ {0}
    BY HealthAnswers, AtLeastOneType
  <2>2. PICK share : share = Truncated(20 * Health(7), AtLeastOne(OrOne(Health(8))))
    OBVIOUS
  <2>3. share \in Int
    BY <2>1, <2>2, TruncatedType
  <2> QED
    BY <2>2, <2>3, Capped DEF CreditHealth
<1>4. RevenueHealth \in Int /\ RevenueHealth <= 30 /\ (Health(2).sum >= 0 => RevenueHealth >= 0)
  BY RevenueFits
<1>5. Score <= 100
  <2>1. \A r, n, s, c \in Int : r <= 30 /\ n <= 25 /\ s <= 25 /\ c <= 20 => r + n + s + c <= 100
    OBVIOUS
  <2> QED
    BY <1>1, <1>2, <1>3, <1>4, <2>1 DEF Score
<1> QED
  BY <1>1, <1>2, <1>3, <1>4, <1>5

(* The trend goes with the takings.                                        *)
LEMMA TrendFits ==
  ASSUME ProfileInv
  PROVE  TrendFollowsTakings
<1> SUFFICES ASSUME Complete, Health(10) >= 0
             PROVE  /\ Health(9) > Health(10) => Trend # "declining"
                    /\ Health(9) < Health(10) => Trend # "improving"
                    /\ Health(9) = Health(10) /\ Health(10) > 0 => Trend = "stable"
  BY DEF TrendFollowsTakings
<1>1. PICK this, last : this = Health(9) /\ last = Health(10)
  OBVIOUS
<1>2. this \in Int /\ last \in Nat
  BY <1>1, HealthAnswers
<1>3. OrOne(last) = (IF last = 0 THEN 1 ELSE last) /\ OrOne(last) > 0 /\ OrOne(last) \in Int
  BY <1>2 DEF OrOne
<1>4. Trend = IF 10 * this > 11 * OrOne(last) THEN "improving"
              ELSE IF 10 * this < 9 * OrOne(last) THEN "declining" ELSE "stable"
  BY <1>1, <1>3 DEF Trend
<1>5. this > last => ~ (10 * this < 9 * OrOne(last))
  BY <1>2, <1>3
<1>6. this < last => ~ (10 * this > 11 * OrOne(last))
  BY <1>2, <1>3
<1>7. this = last /\ last > 0 => ~ (10 * this > 11 * OrOne(last)) /\ ~ (10 * this < 9 * OrOne(last))
  BY <1>2, <1>3
<1>8. "declining" # "improving" /\ "stable" # "improving" /\ "stable" # "declining"
  OBVIOUS
<1> HIDE DEF Trend
<1> QED
  BY <1>1, <1>4, <1>5, <1>6, <1>7, <1>8

(* Score and trend stay what they are called, whatever commits between     *)
(* the queries: for any sales, customers and batches, any totals and any   *)
(* number of changes (dna.py:213, 328-336).                                *)
THEOREM ProfileSound == DNASpec => []ProfileIsSound
<1>1. DNAInit => ProfileInv
  BY ProfileInitInv
<1>2. ProfileInv /\ [DNANext]_dnaVars => ProfileInv'
  BY ProfileStepInv
<1>3. ProfileInv => ProfileIsSound
  BY ScoreFits, TrendFits DEF ProfileIsSound
<1> QED
  BY <1>1, <1>2, <1>3, PTL DEF DNASpec

----------------------------------------------------------------------------
(* The entries left are of three kinds, and the traffic is bounded.        *)
SignsFit == signs \subseteq {"category", "segments", "health"} /\ changes \in 0..MaxTraffic

LEMMA ProfileTypesStep == SignsFit /\ [DNANext]_dnaVars => SignsFit'
<1> SUFFICES ASSUME SignsFit, [DNANext]_dnaVars PROVE SignsFit'
  OBVIOUS
<1>1. CASE CommitProfile
  BY <1>1 DEF CommitProfile, Entries, SignsFit
<1>2. CASE ShopChanges
  BY <1>2, DNAAssumption DEF ShopChanges, SignsFit
<1> QED
  BY <1>1, <1>2 DEF DNANext, RunDNAQuery, LoseProfile, SignsFit, dnaVars

LEMMA ProfilesTyped == ProfileInv /\ SignsFit => DNATypeOK
<1> SUFFICES ASSUME ProfileInv, SignsFit PROVE DNATypeOK
  OBVIOUS
<1>1. profile.at \in {"running", "done", "failed"}
  BY DEF ProfileInv, Stages
<1>2. Trend \in {"improving", "declining", "stable"}
  BY DEF Trend
<1> QED
  BY <1>1, <1>2 DEF SignsFit, DNATypeOK

----------------------------------------------------------------------------
(* What is found in a month of sales.                                      *)

(* How many indices have a value of at most, or below, v.                  *)
AtMost(f, v) == {i \in DOMAIN f : f[i] <= v}
Below(f, v) == {i \in DOMAIN f : f[i] < v}

(* The k-th value exists: at least k are not above it, fewer than k below. *)
LEMMA RankedIs ==
  ASSUME NEW D, IsFiniteSet(D), NEW f \in [D -> Int], NEW k \in 1..Cardinality(D)
  PROVE  /\ Ranked(f, k) \in Range(f) /\ Ranked(f, k) \in Int
         /\ Cardinality(AtMost(f, Ranked(f, k))) >= k
         /\ Cardinality(Below(f, Ranked(f, k))) < k
<1> DEFINE R == Range(f)
           V == {v \in R : Cardinality(AtMost(f, v)) >= k}
<1>1. f \in Surjection(D, R) /\ R \subseteq Int /\ DOMAIN f = D
  BY DEF Surjection, Range
<1>2. IsFiniteSet(R)
  <2> HIDE DEF R
  <2> QED
    BY <1>1, FS_Surjection
<1>3. Cardinality(D) \in Nat /\ D # {} /\ R # {}
  <2>1. Cardinality(D) \in Nat /\ D # {}
    BY FS_CardinalityType, FS_EmptySet
  <2> QED
    BY <1>1, <2>1 DEF Range
<1>4. \A v : AtMost(f, v) \in SUBSET D /\ Below(f, v) \in SUBSET D
  BY <1>1 DEF AtMost, Below
<1>5. \A v : /\ IsFiniteSet(AtMost(f, v)) /\ IsFiniteSet(Below(f, v))
             /\ Cardinality(AtMost(f, v)) \in Nat /\ Cardinality(Below(f, v)) \in Nat
  BY <1>4, FS_Subset, FS_CardinalityType
<1>6. V # {}
  <2>1. PICK m \in R : \A y \in R : m >= y
    BY <1>1, <1>2, <1>3, MaxOfFinite
  <2>2. AtMost(f, m) = D
    BY <1>1, <2>1 DEF AtMost, Range
  <2> QED
    BY <2>1, <2>2
<1>7. PICK v : v = Ranked(f, k) /\ v \in V /\ \A y \in V : v <= y
  <2>1. IsFiniteSet(V) /\ V \subseteq Int
    BY <1>1, <1>2, FS_Subset
  <2>2. Min(V) \in V /\ \A y \in V : Min(V) <= y
    <3> HIDE DEF V
    <3> QED
      BY <1>6, <2>1, MinOfFinite
  <2>3. Ranked(f, k) = Min(V)
    BY DEF Ranked, AtMost
  <2> QED
    BY <2>2, <2>3
<1>8. Cardinality(Below(f, v)) < k
  <2> SUFFICES ASSUME Cardinality(Below(f, v)) >= k PROVE FALSE
    BY <1>5
  <2> DEFINE W == {y \in R : y < v}
  <2>1. Below(f, v) # {}
    BY FS_EmptySet
  <2>2. W # {} /\ W \subseteq Int /\ IsFiniteSet(W)
    <3>1. W # {}
      BY <1>1, <2>1 DEF Below, Range
    <3>2. W \in SUBSET R
      OBVIOUS
    <3> QED
      BY <1>1, <1>2, <3>1, <3>2, FS_Subset
  <2>3. PICK u \in W : \A y \in W : u >= y
    <3> HIDE DEF W
    <3> QED
      BY <2>2, MaxOfFinite
  <2>4. v \in Int /\ u \in Int /\ u < v /\ u \in R
    BY <1>1, <1>7, <2>3
  <2>5. AtMost(f, u) = Below(f, v)
    <3>1. ASSUME NEW i \in D PROVE f[i] <= u <=> f[i] < v
      <4>1. f[i] \in Int /\ f[i] \in R
        BY <1>1 DEF Range
      <4> QED
        BY <2>3, <2>4, <4>1
    <3> QED
      BY <1>1, <3>1 DEF AtMost, Below
  <2>6. u \in V
    BY <2>4, <2>5
  <2> QED
    BY <1>7, <2>4, <2>6
<1> QED
  BY <1>1, <1>7, <1>8

(* The values grow with their rank.                                        *)
LEMMA RankedGrows ==
  ASSUME NEW D, IsFiniteSet(D), NEW f \in [D -> Int], NEW k \in 1..Cardinality(D),
         NEW l \in 1..Cardinality(D), k <= l
  PROVE  Ranked(f, k) <= Ranked(f, l)
<1>1. PICK a, b : a = Ranked(f, k) /\ b = Ranked(f, l)
  OBVIOUS
<1>2. /\ a \in Int /\ b \in Int
      /\ Cardinality(Below(f, a)) < k /\ Cardinality(AtMost(f, b)) >= l
  BY <1>1, RankedIs
<1>3. ASSUME b < a PROVE FALSE
  <2>1. AtMost(f, b) \in SUBSET Below(f, a)
    BY <1>2, <1>3 DEF AtMost, Below
  <2>2. Below(f, a) \in SUBSET D
    BY DEF Below
  <2>3. IsFiniteSet(Below(f, a))
    BY <2>2, FS_Subset
  <2>4. /\ Cardinality(AtMost(f, b)) <= Cardinality(Below(f, a))
        /\ Cardinality(AtMost(f, b)) \in Nat /\ Cardinality(Below(f, a)) \in Nat
    BY <2>1, <2>3, FS_Subset, FS_CardinalityType
  <2> QED
    BY <1>2, <2>4
<1> QED
  BY <1>1, <1>2, <1>3

(* A set of integers lists each of its members once, in order of rank.     *)
LEMMA RankedOnce ==
  ASSUME NEW S, IsFiniteSet(S), S \subseteq Int
  PROVE  /\ \A k \in 1..Cardinality(S) : Ranked([x \in S |-> x], k) \in S
         /\ \A k, l \in 1..Cardinality(S) :
              Ranked([x \in S |-> x], k) = Ranked([x \in S |-> x], l) => k = l
<1> DEFINE f == [x \in S |-> x]
<1>1. f \in [S -> Int] /\ Range(f) = S /\ DOMAIN f = S /\ \A x \in S : f[x] = x
  BY DEF Range
<1> HIDE DEF f
<1>2. \A k \in 1..Cardinality(S) :
        /\ Ranked(f, k) \in S
        /\ Cardinality(AtMost(f, Ranked(f, k))) >= k /\ Cardinality(Below(f, Ranked(f, k))) < k
  BY <1>1, RankedIs
<1>3. ASSUME NEW k \in 1..Cardinality(S), NEW l \in 1..Cardinality(S), k < l,
             Ranked(f, k) = Ranked(f, l)
      PROVE  FALSE
  <2>1. PICK v \in S : v = Ranked(f, k) /\ v = Ranked(f, l)
    BY <1>2, <1>3
  <2>2. AtMost(f, v) = Below(f, v) \cup {v}
    <3>1. \A x \in S : x \in Int /\ f[x] = x /\ (f[x] <= v <=> f[x] < v \/ x = v)
      BY <1>1
    <3> QED
      BY <1>1, <3>1 DEF AtMost, Below
  <2>3. Below(f, v) \in SUBSET S
    BY <1>1 DEF Below
  <2>4. IsFiniteSet(Below(f, v))
    BY <2>3, FS_Subset
  <2>5. Cardinality(AtMost(f, v)) <= Cardinality(Below(f, v)) + 1 /\ Cardinality(Below(f, v)) \in Nat
    <3>1. PICK B, n : B = Below(f, v) /\ n = Cardinality(B)
      OBVIOUS
    <3>2. IsFiniteSet(B) /\ n \in Nat
      BY <2>4, <3>1, FS_CardinalityType
    <3>3. Cardinality(B \cup {v}) = n \/ Cardinality(B \cup {v}) = n + 1
      BY <3>1, <3>2, FS_AddElement
    <3> QED
      BY <2>2, <3>1, <3>2, <3>3
  <2>6. Cardinality(AtMost(f, v)) >= l /\ Cardinality(Below(f, v)) < k
    BY <1>2, <2>1
  <2>7. Cardinality(AtMost(f, v)) \in Nat /\ Cardinality(S) \in Nat
    BY <2>2, <2>4, FS_AddElement, FS_CardinalityType
  <2> QED
    BY <1>3, <2>5, <2>6, <2>7
<1>4. Cardinality(S) \in Nat
  BY FS_CardinalityType
<1>5. \A k, l \in 1..Cardinality(S) : Ranked(f, k) = Ranked(f, l) => k = l
  <2> TAKE k, l \in 1..Cardinality(S)
  <2>1. k < l \/ l < k \/ k = l
    BY <1>4
  <2> QED
    BY <1>3, <2>1
<1> QED
  BY <1>2, <1>5 DEF f

----------------------------------------------------------------------------
(* Quotient and remainder by four.                                         *)
LEMMA ByFour ==
  /\ \A a \in Int, b \in 0..3 : (4 * a + b) \div 4 = a /\ (4 * a + b) % 4 = b
  /\ \A n \in Nat : \E q \in Nat, s \in 0..3 : n = 4 * q + s
<1>1. \A a \in Int, b \in 0..3 : (4 * a + b) \div 4 = a /\ (4 * a + b) % 4 = b
  OBVIOUS
<1>2. ASSUME NEW n \in Nat PROVE \E q \in Nat, s \in 0..3 : n = 4 * q + s
  <2>1. PICK q \in Int : q = n \div 4
    OBVIOUS
  <2>2. 4 * q <= n /\ n < 4 * q + 4
    BY <2>1
  <2>3. n = 4 * q + (n - 4 * q) /\ n - 4 * q \in 0..3 /\ q \in Nat
    BY <2>2
  <2> QED
    BY <2>3
<1> QED
  BY <1>1, <1>2

(* A value between those of rank i and i + 1, times four.                  *)
Between(i, past) ==
  IF past = 0 THEN 4 * Ranked(revenues, i)
  ELSE (4 - past) * Ranked(revenues, i) + past * Ranked(revenues, i + 1)

(* The quartiles of 4q + s revenues, times four, by their ranks.           *)
LEMMA QuartilesAre ==
  ASSUME revenues \in Seq(Int), NEW q \in Nat \ {0}, NEW s \in 0..3, Len(revenues) = 4 * q + s
  PROVE  /\ s = 0 => FourQuartiles(1) = Between(q, 3) /\ FourQuartiles(3) = Between(3 * q, 1)
         /\ s = 1 => FourQuartiles(1) = Between(q + 1, 0) /\ FourQuartiles(3) = Between(3 * q + 1, 0)
         /\ s = 2 => FourQuartiles(1) = Between(q + 1, 1) /\ FourQuartiles(3) = Between(3 * q + 1, 3)
         /\ s = 3 => FourQuartiles(1) = Between(q + 1, 2) /\ FourQuartiles(3) = Between(3 * q + 1 + 1, 2)
<1> DEFINE n == Len(revenues)
<1>1. ASSUME NEW quarters, NEW i, NEW past, NEW at, at = (n - 1) * quarters,
             at \div 4 + 1 = i, at % 4 = past
      PROVE  FourQuartiles(quarters) = Between(i, past)
  BY <1>1 DEF FourQuartiles, Between
<1>2. n = 4 * q + s
  OBVIOUS
<1> HIDE DEF n
<1>3. CASE s = 0
  <2>1. PICK at \in Int, next \in Int : at = q - 1 /\ next = 3 * q - 1
    OBVIOUS
  <2>2. 4 * at + 3 = (n - 1) * 1 /\ at + 1 = q /\ 3 \in 0..3
    BY <1>2, <1>3, <2>1
  <2>3. 4 * next + 1 = (n - 1) * 3 /\ next + 1 = 3 * q /\ 1 \in 0..3
    BY <1>2, <1>3, <2>1
  <2>4. (4 * at + 3) \div 4 = at /\ (4 * at + 3) % 4 = 3
    BY <2>2, ByFour
  <2>5. (4 * next + 1) \div 4 = next /\ (4 * next + 1) % 4 = 1
    BY <2>3, ByFour
  <2>6. FourQuartiles(1) = Between(q, 3)
    BY <1>1, <2>2, <2>4
  <2>7. FourQuartiles(3) = Between(3 * q, 1)
    BY <1>1, <2>3, <2>5
  <2> QED
    BY <1>3, <2>6, <2>7
<1>4. CASE s = 1
  <2>1. PICK at \in Int, next \in Int : at = q /\ next = 3 * q
    OBVIOUS
  <2>2. 4 * at + 0 = (n - 1) * 1 /\ at + 1 = q + 1 /\ 0 \in 0..3
    BY <1>2, <1>4, <2>1
  <2>3. 4 * next + 0 = (n - 1) * 3 /\ next + 1 = 3 * q + 1 /\ 0 \in 0..3
    BY <1>2, <1>4, <2>1
  <2>4. (4 * at + 0) \div 4 = at /\ (4 * at + 0) % 4 = 0
    BY <2>2, ByFour
  <2>5. (4 * next + 0) \div 4 = next /\ (4 * next + 0) % 4 = 0
    BY <2>3, ByFour
  <2>6. FourQuartiles(1) = Between(q + 1, 0)
    BY <1>1, <2>2, <2>4
  <2>7. FourQuartiles(3) = Between(3 * q + 1, 0)
    BY <1>1, <2>3, <2>5
  <2> QED
    BY <1>4, <2>6, <2>7
<1>5. CASE s = 2
  <2>1. PICK at \in Int, next \in Int : at = q /\ next = 3 * q
    OBVIOUS
  <2>2. 4 * at + 1 = (n - 1) * 1 /\ at + 1 = q + 1 /\ 1 \in 0..3
    BY <1>2, <1>5, <2>1
  <2>3. 4 * next + 3 = (n - 1) * 3 /\ next + 1 = 3 * q + 1 /\ 3 \in 0..3
    BY <1>2, <1>5, <2>1
  <2>4. (4 * at + 1) \div 4 = at /\ (4 * at + 1) % 4 = 1
    BY <2>2, ByFour
  <2>5. (4 * next + 3) \div 4 = next /\ (4 * next + 3) % 4 = 3
    BY <2>3, ByFour
  <2>6. FourQuartiles(1) = Between(q + 1, 1)
    BY <1>1, <2>2, <2>4
  <2>7. FourQuartiles(3) = Between(3 * q + 1, 3)
    BY <1>1, <2>3, <2>5
  <2> QED
    BY <1>5, <2>6, <2>7
<1>6. CASE s = 3
  <2>1. PICK at \in Int, next \in Int : at = q /\ next = 3 * q + 1
    OBVIOUS
  <2>2. 4 * at + 2 = (n - 1) * 1 /\ at + 1 = q + 1 /\ 2 \in 0..3
    BY <1>2, <1>6, <2>1
  <2>3. 4 * next + 2 = (n - 1) * 3 /\ next + 1 = 3 * q + 1 + 1 /\ 2 \in 0..3
    BY <1>2, <1>6, <2>1
  <2>4. (4 * at + 2) \div 4 = at /\ (4 * at + 2) % 4 = 2
    BY <2>2, ByFour
  <2>5. (4 * next + 2) \div 4 = next /\ (4 * next + 2) % 4 = 2
    BY <2>3, ByFour
  <2>6. FourQuartiles(1) = Between(q + 1, 2)
    BY <1>1, <2>2, <2>4
  <2>7. FourQuartiles(3) = Between(3 * q + 1 + 1, 2)
    BY <1>1, <2>3, <2>5
  <2> QED
    BY <1>6, <2>6, <2>7
<1> QED
  BY <1>3, <1>4, <1>5, <1>6

(* A spike is above the value of rank n - q, a drop below that of rank     *)
(* q + 1: the fences leave at most a quarter of the days outside.          *)
LEMMA FencesAre ==
  ASSUME revenues \in Seq(Int), NEW q \in Nat \ {0}, NEW s \in 0..3, Len(revenues) = 4 * q + s,
         NEW r \in Int
  PROVE  /\ Fence(r, FourQuartiles(1), FourQuartiles(3)) = "revenue_spike" =>
              r > Ranked(revenues, 3 * q + s)
         /\ Fence(r, FourQuartiles(1), FourQuartiles(3)) = "revenue_drop" =>
              r < Ranked(revenues, q + 1)
<1> DEFINE n == Len(revenues)
           R(i) == Ranked(revenues, i)
<1>1. /\ n \in Nat /\ n = 4 * q + s /\ revenues \in [1..n -> Int]
      /\ IsFiniteSet(1..n) /\ Cardinality(1..n) = n
  <2>1. n \in Nat /\ n = 4 * q + s /\ revenues \in [1..n -> Int]
    OBVIOUS
  <2>2. n >= 1
    BY <2>1
  <2> HIDE DEF n
  <2>3. IsFiniteSet(1..n) /\ Cardinality(1..n) = n - 1 + 1
    BY <2>1, <2>2, FS_Interval
  <2> QED
    BY <2>1, <2>3
<1> HIDE DEF n
<1>2. \A i, j \in 1..n : R(i) \in Int /\ (i <= j => R(i) <= R(j))
  BY <1>1, RankedIs, RankedGrows
<1>3. PICK low, high : low = FourQuartiles(1) /\ high = FourQuartiles(3)
  OBVIOUS
<1>4. Fence(r, low, high) = "revenue_spike" => 8 * r > 2 * high + 3 * (high - low)
  BY DEF Fence
<1>5. Fence(r, low, high) = "revenue_drop" => 8 * r < 2 * low - 3 * (high - low)
  BY DEF Fence
<1> HIDE DEF R
<1>6. SUFFICES /\ 8 * r > 2 * high + 3 * (high - low) => r > R(3 * q + s)
               /\ 8 * r < 2 * low - 3 * (high - low) => r < R(q + 1)
  BY <1>3, <1>4, <1>5 DEF R
<1>7. CASE s = 0
  <2>1. low = Between(q, 3) /\ high = Between(3 * q, 1)
    BY <1>1, <1>3, <1>7, QuartilesAre DEF n
  <2>2. PICK a, b, c, d : a = R(q) /\ b = R(q + 1) /\ c = R(3 * q) /\ d = R(3 * q + 1)
    OBVIOUS
  <2>3. q \in 1..n /\ q + 1 \in 1..n /\ 3 * q \in 1..n /\ 3 * q + 1 \in 1..n
        /\ q <= q + 1 /\ q + 1 <= 3 * q /\ 3 * q <= 3 * q + 1 /\ 3 * q + s = 3 * q
    BY <1>1, <1>7
  <2>4. a \in Int /\ b \in Int /\ c \in Int /\ d \in Int /\ a <= b /\ b <= c /\ c <= d
    BY <1>2, <2>2, <2>3
  <2>5. low = a + 3 * b /\ high = 3 * c + d
    BY <2>1, <2>2, <2>4 DEF Between, R
  <2>6. /\ 8 * r > 2 * high + 3 * (high - low) => r > c
        /\ 8 * r < 2 * low - 3 * (high - low) => r < b
    BY <2>4, <2>5
  <2> QED
    BY <2>2, <2>3, <2>6
<1>8. CASE s = 1
  <2>1. low = Between(q + 1, 0) /\ high = Between(3 * q + 1, 0)
    BY <1>1, <1>3, <1>8, QuartilesAre DEF n
  <2>2. PICK b, c : b = R(q + 1) /\ c = R(3 * q + 1)
    OBVIOUS
  <2>3. q + 1 \in 1..n /\ 3 * q + 1 \in 1..n /\ q + 1 <= 3 * q + 1 /\ 3 * q + s = 3 * q + 1
    BY <1>1, <1>8
  <2>4. b \in Int /\ c \in Int /\ b <= c
    BY <1>2, <2>2, <2>3
  <2>5. low = 4 * b /\ high = 4 * c
    BY <2>1, <2>2 DEF Between, R
  <2>6. /\ 8 * r > 2 * high + 3 * (high - low) => r > c
        /\ 8 * r < 2 * low - 3 * (high - low) => r < b
    BY <2>4, <2>5
  <2> QED
    BY <2>2, <2>3, <2>6
<1>9. CASE s = 2
  <2>1. low = Between(q + 1, 1) /\ high = Between(3 * q + 1, 3)
    BY <1>1, <1>3, <1>9, QuartilesAre DEF n
  <2>2. PICK b, c, d, e : b = R(q + 1) /\ c = R(q + 1 + 1) /\ d = R(3 * q + 1) /\ e = R(3 * q + 1 + 1)
    OBVIOUS
  <2>3. q + 1 \in 1..n /\ q + 1 + 1 \in 1..n /\ 3 * q + 1 \in 1..n /\ 3 * q + 1 + 1 \in 1..n
        /\ q + 1 <= q + 1 + 1 /\ q + 1 + 1 <= 3 * q + 1 /\ 3 * q + 1 <= 3 * q + 1 + 1
        /\ 3 * q + s = 3 * q + 1 + 1
    BY <1>1, <1>9
  <2>4. b \in Int /\ c \in Int /\ d \in Int /\ e \in Int /\ b <= c /\ c <= d /\ d <= e
    BY <1>2, <2>2, <2>3
  <2>5. low = 3 * b + c /\ high = d + 3 * e
    BY <2>1, <2>2, <2>4 DEF Between, R
  <2>6. /\ 8 * r > 2 * high + 3 * (high - low) => r > e
        /\ 8 * r < 2 * low - 3 * (high - low) => r < b
    BY <2>4, <2>5
  <2> QED
    BY <2>2, <2>3, <2>6
<1>10. CASE s = 3
  <2>1. low = Between(q + 1, 2) /\ high = Between(3 * q + 1 + 1, 2)
    BY <1>1, <1>3, <1>10, QuartilesAre DEF n
  <2>2. PICK b, c, d, e : /\ b = R(q + 1) /\ c = R(q + 1 + 1)
                          /\ d = R(3 * q + 1 + 1) /\ e = R(3 * q + 1 + 1 + 1)
    OBVIOUS
  <2>3. q + 1 \in 1..n /\ q + 1 + 1 \in 1..n /\ 3 * q + 1 + 1 \in 1..n /\ 3 * q + 1 + 1 + 1 \in 1..n
        /\ q + 1 <= q + 1 + 1 /\ q + 1 + 1 <= 3 * q + 1 + 1 /\ 3 * q + 1 + 1 <= 3 * q + 1 + 1 + 1
        /\ 3 * q + s = 3 * q + 1 + 1 + 1
    BY <1>1, <1>10
  <2>4. b \in Int /\ c \in Int /\ d \in Int /\ e \in Int /\ b <= c /\ c <= d /\ d <= e
    BY <1>2, <2>2, <2>3
  <2>5. low = 2 * b + 2 * c /\ high = 2 * d + 2 * e
    BY <2>1, <2>2, <2>4 DEF Between, R
  <2>6. /\ 8 * r > 2 * high + 3 * (high - low) => r > e
        /\ 8 * r < 2 * low - 3 * (high - low) => r < b
    BY <2>4, <2>5
  <2> QED
    BY <2>2, <2>3, <2>6
<1> QED
  BY <1>7, <1>8, <1>9, <1>10

(* At most a quarter of the days are spikes, and at most a quarter drops.  *)
DaysOf(type) == {day \in UnusualDays : Judged(day) = type}

LEMMA QuartersAreOutside ==
  ASSUME revenues \in Seq(Int), NEW type \in {"revenue_spike", "revenue_drop"}
  PROVE  IsFiniteSet(DaysOf(type)) /\ 4 * Cardinality(DaysOf(type)) <= Len(revenues)
<1> DEFINE n == Len(revenues)
           D == DaysOf(type)
<1>1. n \in Nat /\ revenues \in [1..n -> Int] /\ D \in SUBSET (1..n)
  BY DEF DaysOf, UnusualDays
<1>2. IsFiniteSet(1..n) /\ Cardinality(1..n) = n
  <2> HIDE DEF n
  <2>1. PICK m \in Nat : m = n
    BY <1>1
  <2>2. IsFiniteSet(1..m) /\ Cardinality(1..m) = IF 1 > m THEN 0 ELSE m - 1 + 1
    BY FS_Interval
  <2> QED
    BY <2>1, <2>2
<1>3. IsFiniteSet(D)
  BY <1>1, <1>2, FS_Subset
<1>4. CASE n < 7
  <2>1. D = {}
    BY <1>4 DEF DaysOf, UnusualDays
  <2>2. Cardinality(D) = 0
    BY <2>1, FS_EmptySet
  <2> QED
    BY <1>1, <1>3, <2>2
<1>5. CASE n >= 7
  <2>1. PICK q \in Nat \ {0}, s \in 0..3 : n = 4 * q + s
    <3>1. PICK q \in Nat, s \in 0..3 : n = 4 * q + s
      BY <1>1, ByFour
    <3>2. q # 0
      BY <1>5, <3>1
    <3> QED
      BY <3>1, <3>2
  <2>2. \A day \in D : day \in 1..n /\ Judged(day) = type /\ revenues[day] \in Int
    BY <1>1 DEF DaysOf
  <2>3. \A f, v : AtMost(f, v) \in SUBSET DOMAIN f /\ Below(f, v) \in SUBSET DOMAIN f
    BY DEF AtMost, Below
  <2>4. DOMAIN revenues = 1..n
    BY <1>1
  <2>5. 3 * q + s \in 1..Cardinality(1..n) /\ q + 1 \in 1..Cardinality(1..n)
    BY <1>2, <2>1
  <2>6. PICK a, b : a = Ranked(revenues, 3 * q + s) /\ b = Ranked(revenues, q + 1)
    OBVIOUS
  <2>7. /\ a \in Int /\ Cardinality(AtMost(revenues, a)) >= 3 * q + s
        /\ b \in Int /\ Cardinality(Below(revenues, b)) < q + 1
    <3> HIDE DEF n
    <3> QED
      BY <1>1, <1>2, <2>5, <2>6, RankedIs
  <2>8. CASE type = "revenue_spike"
    <3>1. \A day \in D : revenues[day] > a
      BY <2>1, <2>2, <2>6, <2>8, FencesAre DEF Judged
    <3>2. D \subseteq (1..n) \ AtMost(revenues, a)
      BY <2>2, <2>7, <3>1 DEF AtMost
    <3>3. PICK A : A = AtMost(revenues, a) /\ A \in SUBSET (1..n)
      BY <2>3, <2>4
    <3>4. /\ IsFiniteSet((1..n) \ A)
          /\ Cardinality((1..n) \ A) = n - Cardinality((1..n) \cap A)
      BY <1>2, FS_Difference
    <3>5. (1..n) \cap A = A
      BY <3>3
    <3>6. Cardinality(A) \in Nat
      BY <1>2, <3>3, FS_Subset, FS_CardinalityType
    <3>7. Cardinality((1..n) \ A) <= q
      <4>1. PICK m : m = Cardinality(A)
        OBVIOUS
      <4>2. m \in Nat /\ m >= 3 * q + s /\ Cardinality((1..n) \ A) = n - m
        BY <2>7, <3>3, <3>4, <3>5, <3>6, <4>1
      <4> HIDE DEF n
      <4> QED
        BY <2>1, <4>2
    <3>8. Cardinality(D) <= Cardinality((1..n) \ A) /\ Cardinality(D) \in Nat
          /\ Cardinality((1..n) \ A) \in Nat
      BY <1>3, <3>2, <3>3, <3>4, FS_Subset, FS_CardinalityType
    <3> HIDE DEF D, n
    <3>9. 4 * Cardinality(D) <= n
      BY <1>1, <2>1, <3>7, <3>8
    <3> QED
      BY <1>3, <3>9 DEF D, n
  <2>9. CASE type = "revenue_drop"
    <3>1. \A day \in D : revenues[day] < b
      BY <2>1, <2>2, <2>6, <2>9, FencesAre DEF Judged
    <3>2. PICK B : B = Below(revenues, b) /\ B \in SUBSET (1..n)
      BY <2>3, <2>4
    <3>3. D \subseteq B
      BY <2>2, <2>4, <3>1, <3>2 DEF Below
    <3>4. IsFiniteSet(B)
      BY <1>2, <3>2, FS_Subset
    <3>5. Cardinality(D) <= Cardinality(B) /\ Cardinality(D) \in Nat /\ Cardinality(B) \in Nat
      BY <1>3, <3>3, <3>4, FS_Subset, FS_CardinalityType
    <3> HIDE DEF D, n
    <3>6. 4 * Cardinality(D) <= n
      BY <1>1, <2>1, <2>7, <3>2, <3>5
    <3> QED
      BY <1>3, <3>6 DEF D, n
  <2> QED
    BY <2>8, <2>9
<1> QED
  BY <1>1, <1>4, <1>5

----------------------------------------------------------------------------
(* Two sequences joined: first the one, then the other.                    *)
Holds(s, x) == \E i \in 1..Len(s) : s[i] = x

LEMMA JoinedAre ==
  ASSUME NEW S, NEW s \in Seq(S), NEW t \in Seq(S)
  PROVE  /\ s \o t \in Seq(S) /\ Len(s \o t) = Len(s) + Len(t) /\ Len(s) \in Nat /\ Len(t) \in Nat
         /\ \A i \in 1..Len(s) : (s \o t)[i] = s[i]
         /\ \A i \in 1 .. Len(s) + Len(t) : i > Len(s) =>
              i - Len(s) \in 1..Len(t) /\ (s \o t)[i] = t[i - Len(s)]
         /\ \A x : Holds(s, x) \/ Holds(t, x) => Holds(s \o t, x)
<1>1. PICK u, m, n : u = s \o t /\ m = Len(s) /\ n = Len(t)
  OBVIOUS
<1>2. /\ m \in Nat /\ n \in Nat /\ u \in Seq(S) /\ Len(u) = m + n
      /\ \A i \in 1 .. m + n : u[i] = IF i <= m THEN s[i] ELSE t[i - m]
  BY <1>1, ConcatProperties
<1>3. \A i \in 1..m : u[i] = s[i] /\ i \in 1..Len(u)
  BY <1>2
<1>4. \A i \in 1 .. m + n : i > m => i - m \in 1..n /\ u[i] = t[i - m]
  BY <1>2
<1>5. ASSUME NEW i \in 1..n PROVE m + i \in 1..Len(u) /\ u[m + i] = t[i]
  <2>1. m + i \in 1 .. m + n /\ m + i > m /\ m + i - m = i
    BY <1>2
  <2> QED
    BY <1>2, <1>4, <2>1
<1>6. \A x : Holds(s, x) \/ Holds(t, x) => Holds(u, x)
  BY <1>1, <1>3, <1>5 DEF Holds
<1> QED
  BY <1>1, <1>2, <1>3, <1>4, <1>6

(* What an observation is about, before the anomalies and among them.      *)
About == {0} \cup Wares \cup Nat
Expected == {"peak_hours", "low_stock_warning", "fast_mover"}
Unusual == {"revenue_spike", "revenue_drop"}
Ahead(order) ==
  (IF peak THEN <<[type |-> "peak_hours", about |-> 0]>> ELSE << >>)
    \o MoverAt(order, 1) \o MoverAt(order, 2) \o MoverAt(order, 3)

LEMMA FrontAre ==
  ASSUME NEW order \in Orders
  PROVE  /\ Ahead(order) \in Seq([type : Expected, about : About])
         /\ \A i \in 1..3 : \A x : Holds(MoverAt(order, i), x) => Holds(Ahead(order), x)
<1> DEFINE S == [type : Expected, about : About]
           first == IF peak THEN <<[type |-> "peak_hours", about |-> 0]>> ELSE << >>
<1>1. order \in Seq(Wares)
  <2>1. Cardinality(Wares) \in Nat
    BY DetectorAssumption, FS_CardinalityType
  <2> QED
    BY <2>1 DEF Orders, SetToSeqs
<1>2. first \in Seq(S)
  <2>1. [type |-> "peak_hours", about |-> 0] \in S
    BY DEF Expected, About
  <2> HIDE DEF S
  <2> QED
    BY <2>1
<1>3. ASSUME NEW w \in Wares PROVE MoverObservation(w) \in Seq(S)
  <2>1. [type |-> "low_stock_warning", about |-> w] \in S /\ [type |-> "fast_mover", about |-> w] \in S
    BY DEF Expected, About
  <2> HIDE DEF S
  <2> QED
    BY <2>1 DEF MoverObservation
<1>4. ASSUME NEW i \in 1..3 PROVE MoverAt(order, i) \in Seq(S)
  <2>1. CASE i <= Len(order)
    <3>1. order[i] \in Wares
      BY <1>1, <2>1
    <3> HIDE DEF S
    <3> QED
      BY <1>3, <2>1, <3>1 DEF MoverAt
  <2>2. CASE ~ (i <= Len(order))
    BY <2>2 DEF MoverAt
  <2> QED
    BY <2>1, <2>2
<1> HIDE DEF S, first
<1>5. PICK m1, m2, m3 : m1 = MoverAt(order, 1) /\ m2 = MoverAt(order, 2) /\ m3 = MoverAt(order, 3)
  OBVIOUS
<1>6. m1 \in Seq(S) /\ m2 \in Seq(S) /\ m3 \in Seq(S)
  BY <1>4, <1>5
<1>7. PICK f1 : f1 = first \o m1
  OBVIOUS
<1>7a. f1 \in Seq(S) /\ \A x : Holds(first, x) \/ Holds(m1, x) => Holds(f1, x)
  BY <1>2, <1>6, <1>7, JoinedAre
<1>8. PICK f2 : f2 = f1 \o m2
  OBVIOUS
<1>8a. f2 \in Seq(S) /\ \A x : Holds(f1, x) \/ Holds(m2, x) => Holds(f2, x)
  BY <1>7a, <1>6, <1>8, JoinedAre
<1>9. PICK f3 : f3 = f2 \o m3
  OBVIOUS
<1>9a. f3 \in Seq(S) /\ \A x : Holds(f2, x) \/ Holds(m3, x) => Holds(f3, x)
  BY <1>8a, <1>6, <1>9, JoinedAre
<1>10. Ahead(order) = f3
  BY <1>5, <1>7, <1>8, <1>9 DEF Ahead, first
<1>11. ASSUME NEW i \in 1..3, NEW x, Holds(MoverAt(order, i), x) PROVE Holds(f3, x)
  BY <1>5, <1>7a, <1>8a, <1>9a, <1>11
<1> QED
  BY <1>9a, <1>10, <1>11 DEF S

(* Each unusual day makes one anomaly.                                     *)
LEMMA AnomaliesAre ==
  ASSUME revenues \in Seq(Int)
  PROVE  /\ Anomalies \in Seq([type : Unusual, about : About])
         /\ \A k \in 1..Len(Anomalies) : /\ Anomalies[k].about \in UnusualDays
                                         /\ Anomalies[k].type = Judged(Anomalies[k].about)
         /\ \A k, l \in 1..Len(Anomalies) : Anomalies[k].about = Anomalies[l].about => k = l
<1> DEFINE D == UnusualDays
           f == [day \in D |-> day]
           n == Cardinality(D)
<1>1. D \in SUBSET (1..Len(revenues)) /\ Len(revenues) \in Nat
  BY DEF UnusualDays
<1>2. IsFiniteSet(D) /\ D \subseteq Int /\ n \in Nat
  <2>1. IsFiniteSet(1..Len(revenues))
    BY <1>1, FS_Interval
  <2> QED
    <3>1. D \subseteq Int
      BY <1>1
    <3> HIDE DEF D
    <3> QED
      BY <1>1, <2>1, <3>1, FS_Subset, FS_CardinalityType
<1>3. /\ \A k \in 1..n : Ranked(f, k) \in D
      /\ \A k, l \in 1..n : Ranked(f, k) = Ranked(f, l) => k = l
  <2> HIDE DEF D
  <2> QED
    BY <1>2, RankedOnce
<1>4. \A day \in D : Judged(day) \in Unusual /\ day \in About
  BY <1>1 DEF UnusualDays, Judged, Fence, Unusual, About
<1>5. PICK a : a = Anomalies
  OBVIOUS
<1>6. a = [k \in 1..n |-> [type |-> Judged(Ranked(f, k)), about |-> Ranked(f, k)]]
  BY <1>5 DEF Anomalies
<1> HIDE DEF D, f, n
<1>7. \A k \in 1..n : /\ a[k] = [type |-> Judged(Ranked(f, k)), about |-> Ranked(f, k)]
                      /\ a[k] \in [type : Unusual, about : About]
  BY <1>3, <1>4, <1>6
<1>8. a \in Seq([type : Unusual, about : About]) /\ Len(a) = n
  <2>1. PICK S : S = [type : Unusual, about : About]
    OBVIOUS
  <2>2. a \in [1..n -> S]
    BY <1>6, <1>7, <2>1, Zenon
  <2>3. ASSUME NEW m \in Nat, NEW T, NEW s \in [1..m -> T] PROVE s \in Seq(T) /\ Len(s) = m
    BY ONLY m \in Nat, s \in [1..m -> T]
  <2> QED
    BY <1>2, <2>1, <2>2, <2>3, Zenon
<1>9. ASSUME NEW k \in 1..n PROVE a[k].about = Ranked(f, k) /\ a[k].type = Judged(Ranked(f, k))
  <2>1. PICK day, type : day = Ranked(f, k) /\ type = Judged(day)
    OBVIOUS
  <2>2. a[k] = [type |-> type, about |-> day]
    BY <1>7, <2>1
  <2>3. a[k].about = day /\ a[k].type = type
    BY <2>2
  <2> QED
    BY <2>1, <2>3
<1>10. \A k \in 1..n : a[k].about \in UnusualDays /\ a[k].type = Judged(a[k].about)
  BY <1>3, <1>9 DEF D
<1>11. \A k, l \in 1..n : a[k].about = a[l].about => k = l
  BY <1>3, <1>9
<1> QED
  BY <1>5, <1>8, <1>10, <1>11

(* The observations, and how many of them a request is told.               *)
ToldOf(order) == SubSeq(Observations(order), 1, Min({ObservationLimit, Len(Observations(order))}))

LEMMA ToldAre ==
  ASSUME NEW order \in Orders, revenues \in Seq(Int), told = ToldOf(order)
  PROVE  /\ Observations(order) = Ahead(order) \o Anomalies
         /\ Len(told) \in Nat /\ Len(told) <= Len(Ahead(order)) + Len(Anomalies)
         /\ \A i \in 1..Len(told) : told[i] = (Ahead(order) \o Anomalies)[i]
         /\ Len(told) < ObservationLimit => told = Ahead(order) \o Anomalies
         /\ Len(told) <= ObservationLimit
         /\ \A i \in 1..Len(told) : told[i].type \in Expected \cup Unusual
<1> DEFINE S == [type : Expected \cup Unusual, about : About]
<1>1. PICK f, a, o : f = Ahead(order) /\ a = Anomalies /\ o = f \o a
  OBVIOUS
<1>2. f \in Seq(S) /\ a \in Seq(S)
  <2>1. [type : Expected, about : About] \subseteq S /\ [type : Unusual, about : About] \subseteq S
    OBVIOUS
  <2>2. \A T : T \subseteq S => Seq(T) \subseteq Seq(S)
    BY SeqMonotonic
  <2> HIDE DEF S
  <2> QED
    BY <1>1, <2>1, <2>2, FrontAre, AnomaliesAre
<1>t. \A x \in S : x.type \in Expected \cup Unusual
  OBVIOUS
<1> HIDE DEF S
<1>3. o \in Seq(S) /\ Len(o) = Len(f) + Len(a) /\ Len(f) \in Nat /\ Len(a) \in Nat
  BY <1>1, <1>2, JoinedAre
<1>4. Observations(order) = o
  BY <1>1 DEF Observations, Ahead
<1>5. PICK m : m = Min({ObservationLimit, Len(o)})
              /\ m = IF ObservationLimit <= Len(o) THEN ObservationLimit ELSE Len(o)
  <2>1. ObservationLimit \in Int /\ Len(o) \in Int
    BY <1>3, DetectorAssumption
  <2> QED
    BY <2>1, TwoOf, Zenon
<1>6. m \in Nat /\ m <= Len(o) /\ (m < ObservationLimit => m = Len(o))
  BY <1>3, <1>5, DetectorAssumption
<1>7. told = SubSeq(o, 1, m)
  BY <1>4, <1>5 DEF ToldOf
<1>8. Len(told) = m /\ \A i \in 1..m : told[i] = o[i]
  BY <1>3, <1>6, <1>7
<1>9. told = o \/ m # Len(o)
  BY <1>3, <1>7, SubSeqFull
<1>10. m <= ObservationLimit
  BY <1>3, <1>5, DetectorAssumption
<1>11. \A i \in 1..m : o[i].type \in Expected \cup Unusual
  <2>1. \A i \in 1..Len(o) : o[i] \in S
    BY <1>3
  <2> QED
    BY <2>1, <1>t, <1>6, <1>3
<1> QED
  BY <1>1, <1>3, <1>4, <1>6, <1>8, <1>9, <1>10, <1>11

(* Each told spike, or drop, is about another such day.                    *)
LEMMA CountIsOfDays ==
  ASSUME NEW order \in Orders, revenues \in Seq(Int), told = ToldOf(order), NEW type \in Unusual
  PROVE  Count(type) \in Nat /\ Count(type) <= Cardinality(DaysOf(type))
<1> DEFINE I == {i \in 1..Len(told) : told[i].type = type}
           g == [i \in I |-> told[i].about]
<1>1. PICK f, a, n : f = Ahead(order) /\ a = Anomalies /\ n = Len(f)
  OBVIOUS
<1>2. /\ f \in Seq([type : Expected, about : About]) /\ n \in Nat
      /\ \A i \in 1..n : f[i].type \notin Unusual
  <2>1. f \in Seq([type : Expected, about : About]) /\ n \in Nat
    <3>1. f \in Seq([type : Expected, about : About])
      BY <1>1, FrontAre
    <3> QED
      BY <1>1, <3>1
  <2>2. ASSUME NEW i \in 1..n PROVE f[i].type \notin Unusual
    <3>1. f[i] \in [type : Expected, about : About]
      BY <1>1, <2>1, ElementOfSeq
    <3> QED
      BY <3>1 DEF Expected, Unusual
  <2> QED
    BY <2>1, <2>2
<1>3. /\ a \in Seq([type : Unusual, about : About]) /\ Len(a) \in Nat
      /\ \A k \in 1..Len(a) : a[k].about \in UnusualDays /\ a[k].type = Judged(a[k].about)
      /\ \A k, l \in 1..Len(a) : a[k].about = a[l].about => k = l
  <2>1. a \in Seq([type : Unusual, about : About])
    BY <1>1, AnomaliesAre
  <2> QED
    BY <1>1, <2>1, AnomaliesAre
<1>4. /\ Len(told) \in Nat /\ Len(told) <= n + Len(a) /\ \A i \in 1..Len(told) : told[i] = (f \o a)[i]
  BY <1>1, ToldAre
<1>5. ASSUME NEW i \in I
      PROVE  i \in 1 .. n + Len(a) /\ i > n /\ i - n \in 1..Len(a) /\ told[i] = a[i - n]
  <2>1. PICK S : S = [type : Expected \cup Unusual, about : About]
    OBVIOUS
  <2>2. f \in Seq(S) /\ a \in Seq(S)
    <3>1. [type : Expected, about : About] \subseteq S /\ [type : Unusual, about : About] \subseteq S
      BY <2>1
    <3> QED
      BY <1>2, <1>3, <3>1, SeqMonotonic
  <2>3. i \in 1 .. n + Len(a) /\ told[i] = (f \o a)[i] /\ told[i].type \in Unusual
    <3>1. i \in 1..Len(told) /\ told[i].type = type
      OBVIOUS
    <3> HIDE DEF I
    <3>2. i \in 1 .. n + Len(a)
      BY <1>2, <1>3, <1>4, <3>1
    <3> QED
      BY <1>4, <3>1, <3>2
  <2>4. ~ (i <= n)
    <3> SUFFICES ASSUME i <= n PROVE FALSE
      OBVIOUS
    <3>1. i \in 1..n
      BY <2>3
    <3>2. (f \o a)[i] = f[i]
      BY <1>1, <2>2, <3>1, JoinedAre
    <3> QED
      BY <1>2, <2>3, <3>1, <3>2
  <2>5. i > n
    BY <1>2, <2>3, <2>4
  <2>6. i - n \in 1..Len(a) /\ (f \o a)[i] = a[i - n]
    BY <1>1, <2>2, <2>3, <2>5, JoinedAre
  <2> QED
    BY <2>3, <2>5, <2>6
<1>6. ASSUME NEW i \in I PROVE told[i].about \in DaysOf(type)
  BY <1>3, <1>5, <1>6 DEF DaysOf
<1>7. ASSUME NEW i \in I, NEW j \in I, told[i].about = told[j].about PROVE i = j
  <2>0. /\ i - n \in 1..Len(a) /\ told[i] = a[i - n]
        /\ j - n \in 1..Len(a) /\ told[j] = a[j - n]
    BY <1>5
  <2>1. i - n = j - n
    <3> PICK k, l : k = i - n /\ l = j - n
      OBVIOUS
    <3>1. k \in 1..Len(a) /\ l \in 1..Len(a) /\ a[k].about = a[l].about
      BY <1>7, <2>0
    <3> QED
      BY <1>3, <3>1
  <2> QED
    BY <1>2, <1>5, <2>1
<1>8. g \in Injection(I, DaysOf(type))
  BY <1>6, <1>7 DEF Injection, IsInjective
<1>9. IsFiniteSet(DaysOf(type))
  BY QuartersAreOutside DEF Unusual
<1>10. Count(type) = Cardinality(I)
  BY DEF Count
<1> HIDE DEF I, g
<1> QED
  BY <1>8, <1>9, <1>10, FS_Injection, FS_CardinalityType

----------------------------------------------------------------------------
WareTypes == [sold : Nat \ {0}, stock : Int]

(* The days a product lasts at the rate it is given, and at its own.       *)
LEMMA LastingIs ==
  ASSUME NEW w \in Wares, ware \in [Wares -> WareTypes]
  PROVE  LET days == DaysUntilOut(w)
             sold == ware[w].sold
             stock == ware[w].stock
         IN  /\ days \in Int /\ sold \in Nat \ {0} /\ stock \in Int
             /\ days > 0 => days * sold <= 30 * stock
             /\ 30 * stock < 4 * sold => days <= 3
<1>1. PICK sold, stock : sold = ware[w].sold /\ stock = ware[w].stock
  OBVIOUS
<1>2. sold \in Nat \ {0} /\ stock \in Int
  BY <1>1 DEF WareTypes
<1>3. PICK rate : rate = Max({3, sold}) /\ rate \in Nat \ {0} /\ sold <= rate
  <2>1. 3 \in Int /\ sold \in Int
    BY <1>2
  <2>2. PICK rate : rate = Max({3, sold})
    OBVIOUS
  <2>3. rate = IF 3 >= sold THEN 3 ELSE sold
    BY <2>1, <2>2, TwoOf, Zenon
  <2> QED
    BY <1>2, <2>2, <2>3
<1>4. PICK left : left = Max({stock, -stock}) /\ left \in Nat /\ (stock >= 0 => left = stock)
  <2>1. PICK opposite : opposite = -stock /\ opposite \in Int
    BY <1>2
  <2>2. Max({stock, opposite}) = IF stock >= opposite THEN stock ELSE opposite
    BY <1>2, <2>1, TwoOf
  <2> QED
    BY <1>2, <2>1, <2>2
<1>5. PICK exact : exact = (30 * left) \div rate
  OBVIOUS
<1>6. 30 * left \in Nat
  BY <1>4
<1>7. exact \in Nat /\ rate * exact <= 30 * left /\ (30 * left < 4 * rate => exact <= 3)
  <2>1. ASSUME NEW m \in Nat, NEW d \in Nat \ {0}, NEW q, q = m \div d
        PROVE  q \in Nat /\ d * q <= m /\ (m < 4 * d => q <= 3)
    BY <2>1
  <2> QED
    BY <1>3, <1>5, <1>6, <2>1
<1>8. PICK days : days = DaysUntilOut(w)
  OBVIOUS
<1>9. PICK short : short = IF <<sold, left>> \in ShortQuotients THEN exact - 1 ELSE exact
  OBVIOUS
<1>10. days = IF stock < 0 THEN -short ELSE short
  BY <1>1, <1>3, <1>4, <1>5, <1>8, <1>9 DEF DaysUntilOut
<1>a. <<sold, left>> \in ShortQuotients => exact >= 1
  <2>1. SUFFICES ASSUME <<sold, left>> \in ShortQuotients PROVE exact >= 1
    OBVIOUS
  <2>2. left \in Nat \ {0} /\ (30 * left) % rate = 0
    <3>1. PICK p \in ShortQuotients : p = <<sold, left>>
      BY <2>1
    <3>2. p[1] = sold /\ p[2] = left
      BY <3>1
    <3> QED
      BY <1>3, <3>1, <3>2, DetectorAssumption
  <2>3. ASSUME NEW m \in Nat, NEW d \in Nat \ {0}, NEW q, q = m \div d, m % d = 0, m > 0
        PROVE  q >= 1
    BY <2>3
  <2> QED
    BY <1>3, <1>5, <1>6, <2>2, <2>3
<1>b. /\ days \in Int
      /\ stock < 0 => days <= 0
      /\ stock >= 0 => days <= exact
  BY <1>2, <1>7, <1>9, <1>10, <1>a
<1>11. ASSUME days > 0 PROVE days * sold <= 30 * stock
  <2>1. stock >= 0 /\ left = stock /\ days \in Nat /\ days <= exact
    BY <1>2, <1>4, <1>b, <1>11
  <2>2. \A a, b, c, d \in Nat : a <= b /\ c <= d => a * c <= d * b
    <3>1. \A a, b, c \in Nat : a <= b => a * c <= b * c /\ c * a <= c * b
      OBVIOUS
    <3> TAKE a, b, c, d \in Nat
    <3> HAVE a <= b /\ c <= d
    <3>2. a * c <= b * c /\ b * c <= b * d
      BY <3>1
    <3>3. a * c \in Nat /\ b * c \in Nat /\ b * d \in Nat /\ b * d = d * b
      OBVIOUS
    <3> QED
      BY <3>2, <3>3
  <2>3. days * sold <= rate * exact
    BY <1>2, <1>3, <1>7, <2>1, <2>2
  <2>4. PICK x, y : x = days * sold /\ y = rate * exact
    OBVIOUS
  <2>5. x \in Int /\ y \in Int
    BY <1>2, <1>3, <1>7, <1>b, <2>4
  <2> QED
    BY <1>2, <1>7, <2>1, <2>3, <2>4, <2>5
<1>12. 30 * stock < 4 * sold => days <= 3
  BY <1>2, <1>3, <1>4, <1>7, <1>b
<1> QED
  BY <1>1, <1>2, <1>8, <1>b, <1>11, <1>12

LEMMA ReordersAreEarly ==
  ASSUME ware \in [Wares -> WareTypes]
  PROVE  ReorderLeavesThreeDays
<1> SUFFICES ASSUME NEW w \in Wares, ReorderDay(w) > 0
             PROVE  30 * ware[w].stock - (ReorderDay(w) * ware[w].sold) >= 3 * ware[w].sold
  BY DEF ReorderLeavesThreeDays
<1>1. PICK days, sold, stock : days = DaysUntilOut(w) /\ sold = ware[w].sold /\ stock = ware[w].stock
  OBVIOUS
<1>2. /\ days \in Int /\ sold \in Nat \ {0} /\ stock \in Int
      /\ days > 0 => days * sold <= 30 * stock
  BY <1>1, LastingIs
<1>3. ReorderDay(w) = days - 3 /\ days > 3
  <2>1. PICK early : early = days - 3 /\ early \in Int
    BY <1>2
  <2>2. Max({0, early}) = IF 0 >= early THEN 0 ELSE early
    BY <2>1, TwoOf
  <2>3. ReorderDay(w) = Max({0, early})
    BY <1>1, <2>1 DEF ReorderDay
  <2> QED
    BY <1>2, <2>1, <2>2, <2>3
<1>4. (days - 3) * sold = days * sold - 3 * sold
  BY <1>2
<1>5. PICK x : x = days * sold /\ x \in Int /\ x <= 30 * stock
  BY <1>2, <1>3
<1> QED
  BY <1>1, <1>2, <1>3, <1>4, <1>5

(* Three of a kind are three.                                              *)
IsTriple(T, a, b, c) == a # b /\ a # c /\ b # c /\ T = {a} \cup {b} \cup {c}

LEMMA TripleIsThree ==
  ASSUME NEW T, NEW a, NEW b, NEW c, IsTriple(T, a, b, c)
  PROVE  Cardinality(T) = 3
<1>0. a # b /\ a # c /\ b # c /\ T = {a} \cup {b} \cup {c}
  BY DEF IsTriple
<1>1. IsFiniteSet({a}) /\ Cardinality({a}) = 1
  BY FS_Singleton
<1>2. b \notin {a}
  BY <1>0
<1>3. IsFiniteSet({a} \cup {b}) /\ Cardinality({a} \cup {b}) = 2
  BY <1>1, <1>2, FS_AddElement
<1>4. c \notin {a} \cup {b}
  BY <1>0
<1>5. Cardinality({a} \cup {b} \cup {c}) = 3
  BY <1>3, <1>4, FS_AddElement
<1> QED
  BY <1>0, <1>5

(* Whoever stands behind three others is outsold by three.                 *)
LEMMA FirstThree ==
  ASSUME NEW order \in Orders, IsBestSellersFirst(order), NEW w \in Wares,
         Cardinality({v \in Wares \ {w} : ware[v].sold >= ware[w].sold}) <= 2
  PROVE  \E k \in 1..3 : k <= Len(order) /\ order[k] = w
<1> DEFINE n == Cardinality(Wares)
           E == {v \in Wares \ {w} : ware[v].sold >= ware[w].sold}
<1>1. n \in Nat /\ IsFiniteSet(Wares)
  BY DetectorAssumption, FS_CardinalityType
<1>2. order \in [1..n -> Wares] /\ \A i, j \in 1..n : i # j => order[i] # order[j]
  BY DEF Orders, SetToSeqs
<1>3. Len(order) = n
  BY <1>1, <1>2
<1>4. IsFiniteSet(1..n) /\ Cardinality(1..n) = n
  <2>1. PICK m \in Nat : m = n
    BY <1>1
  <2>2. IsFiniteSet(1..m) /\ Cardinality(1..m) = IF 1 > m THEN 0 ELSE m - 1 + 1
    BY FS_Interval
  <2> HIDE DEF n
  <2> QED
    BY <2>1, <2>2
<1>5. PICK k \in 1..n : order[k] = w
  <2>1. order \in Injection(1..n, Wares)
    <3> HIDE DEF n
    <3> QED
      BY <1>2 DEF Injection, IsInjective
  <2>2. order \in Surjection(1..n, Wares)
    BY <1>1, <1>4, <2>1, FS_Injection
  <2> QED
    BY <2>2 DEF Surjection
<1>6. IsFiniteSet(E) /\ Cardinality(E) \in Nat
  BY <1>1, FS_Subset, FS_CardinalityType
<1> HIDE DEF n
<1>7. k <= 3
  <2> SUFFICES ASSUME ~ (k <= 3) PROVE FALSE
    OBVIOUS
  <2>1. /\ 1 \in 1..n /\ 2 \in 1..n /\ 3 \in 1..n /\ 1 < k /\ 2 < k /\ 3 < k
        /\ 1 # k /\ 2 # k /\ 3 # k
    BY <1>1
  <2>2. \A i \in 1..n : i < k => ware[order[i]].sold >= ware[order[k]].sold
    BY <1>3 DEF IsBestSellersFirst
  <2>3. order[1] \in E /\ order[2] \in E /\ order[3] \in E
    BY <1>2, <1>5, <2>1, <2>2
  <2>4. order[1] # order[2] /\ order[1] # order[3] /\ order[2] # order[3]
    BY <1>2, <2>1
  <2>5. PICK T : T = {order[1]} \cup {order[2]} \cup {order[3]}
    OBVIOUS
  <2>6. Cardinality(T) = 3
    <3>1. IsTriple(T, order[1], order[2], order[3])
      BY <2>4, <2>5 DEF IsTriple
    <3> HIDE DEF E
    <3> QED
      BY <3>1, TripleIsThree
  <2>7. T \in SUBSET E
    BY <2>3, <2>5
  <2> HIDE DEF E
  <2>8. Cardinality(T) <= Cardinality(E)
    BY <1>6, <2>7, FS_Subset
  <2>9. Cardinality(E) <= 2
    BY DEF E
  <2> QED
    BY <1>6, <2>6, <2>8, <2>9
<1> QED
  BY <1>1, <1>3, <1>5, <1>7

LEMMA BestSellersAreTold ==
  ASSUME NEW order \in Orders, IsBestSellersFirst(order), revenues \in Seq(Int),
         ware \in [Wares -> WareTypes], told = ToldOf(order)
  PROVE  BestSellersAreWatched
<1> SUFFICES ASSUME Len(told) < ObservationLimit, NEW w \in Wares,
                    Cardinality({v \in Wares \ {w} : ware[v].sold >= ware[w].sold}) <= 2,
                    30 * ware[w].stock < 4 * ware[w].sold
             PROVE  Told("low_stock_warning", w)
  BY DEF BestSellersAreWatched
<1>1. PICK k \in 1..3 : k <= Len(order) /\ order[k] = w
  BY FirstThree
<1>2. PICK warning : warning = [type |-> "low_stock_warning", about |-> w]
  OBVIOUS
<1>3. MoverAt(order, k) = <<warning>>
  <2>1. DaysUntilOut(w) <= 3
    BY LastingIs
  <2> QED
    BY <1>1, <1>2, <2>1 DEF MoverAt, MoverObservation
<1>4. Holds(MoverAt(order, k), warning)
  BY <1>3 DEF Holds
<1>5. PICK S : S = [type : Expected \cup Unusual, about : About]
  OBVIOUS
<1>6. Ahead(order) \in Seq(S) /\ Anomalies \in Seq(S)
  <2>1. [type : Expected, about : About] \subseteq S /\ [type : Unusual, about : About] \subseteq S
    BY <1>5
  <2> QED
    BY <2>1, FrontAre, AnomaliesAre, SeqMonotonic
<1>7. Holds(Ahead(order) \o Anomalies, warning)
  BY <1>1, <1>4, <1>6, FrontAre, JoinedAre
<1>8. told = Ahead(order) \o Anomalies
  BY ToldAre
<1> QED
  BY <1>2, <1>7, <1>8 DEF Told, Holds

----------------------------------------------------------------------------
(* What was told is what there still is to tell.                           *)
DetectorInv ==
  /\ ware \in [Wares -> WareTypes] /\ revenues \in Seq(Int)
  /\ told # << >> => \E order \in Orders : IsBestSellersFirst(order) /\ told = ToldOf(order)

LEMMA DetectorInitInv == DetectorInit => DetectorInv
<1> SUFFICES ASSUME DetectorInit PROVE DetectorInv
  OBVIOUS
<1>1. WareKinds \subseteq WareTypes
  BY DetectorAssumption DEF WareTypes
<1> QED
  BY <1>1 DEF DetectorInit, DetectorInv

LEMMA DetectorStepInv == DetectorInv /\ [DetectorNext]_detectorVars => DetectorInv'
<1> SUFFICES ASSUME DetectorInv, [DetectorNext]_detectorVars PROVE DetectorInv'
  OBVIOUS
<1>1. ASSUME ware' = ware, revenues' = revenues, peak' = peak,
             NEW order \in Orders, IsBestSellersFirst(order), told' = ToldOf(order)
      PROVE  DetectorInv'
  <2>1. Orders' = Orders /\ IsBestSellersFirst(order)' /\ ToldOf(order)' = ToldOf(order)
    <3>1. Orders' = Orders /\ IsBestSellersFirst(order)'
      BY <1>1 DEF Orders, IsBestSellersFirst
    <3>2. FourQuartiles(1)' = FourQuartiles(1) /\ FourQuartiles(3)' = FourQuartiles(3)
      BY <1>1 DEF FourQuartiles
    <3>3. Anomalies' = Anomalies
      BY <1>1, <3>2 DEF Anomalies, UnusualDays, Judged
    <3>4. \A w : MoverObservation(w)' = MoverObservation(w)
      BY <1>1 DEF MoverObservation, DaysUntilOut, Velocity
    <3>5. \A i : MoverAt(order, i)' = MoverAt(order, i)
      BY <3>4 DEF MoverAt
    <3>6. /\ MoverAt(order, 1)' = MoverAt(order, 1) /\ MoverAt(order, 2)' = MoverAt(order, 2)
          /\ MoverAt(order, 3)' = MoverAt(order, 3)
      BY <3>5, Zenon
    <3>7. Observations(order)' = Observations(order)
      BY ONLY <1>1, <3>3, <3>6 DEF Observations
    <3> QED
      BY <3>1, <3>7 DEF ToldOf
  <2> QED
    BY <1>1, <2>1 DEF DetectorInv
<1>2. CASE Observe
  <2>1. PICK order \in Orders : IsBestSellersFirst(order) /\ told' = ToldOf(order)
    BY <1>2 DEF Observe, ToldOf
  <2> QED
    BY <1>1, <1>2, <2>1 DEF Observe
<1>3. CASE DayEnds
  <2>1. PICK revenue \in DayTotals : revenues' = Append(revenues, revenue)
    BY <1>3 DEF DayEnds
  <2>2. revenues' \in Seq(Int)
    BY <2>1, DetectorAssumption, AppendProperties DEF DetectorInv
  <2> QED
    BY <1>3, <2>2 DEF DayEnds, DetectorInv
<1>4. CASE UNCHANGED detectorVars
  <2>1. CASE told = << >>
    BY <1>4, <2>1 DEF detectorVars, DetectorInv
  <2>2. CASE told # << >>
    BY <1>1, <1>4, <2>2 DEF detectorVars, DetectorInv
  <2> QED
    BY <2>1, <2>2
<1> QED
  BY <1>2, <1>3, <1>4 DEF DetectorNext

LEMMA OutliersFit ==
  ASSUME DetectorInv
  PROVE  OutliersAreRare
<1> SUFFICES ASSUME NEW type \in Unusual PROVE 4 * Count(type) <= Len(revenues)
  BY DEF OutliersAreRare, Unusual
<1>1. CASE told = << >>
  <2>1. {i \in 1..Len(told) : told[i].type = type} = {}
    BY <1>1
  <2>2. Count(type) = 0
    BY <2>1, FS_EmptySet DEF Count
  <2> QED
    BY <2>2 DEF DetectorInv
<1>2. CASE told # << >>
  <2>1. PICK order \in Orders : told = ToldOf(order)
    BY <1>2 DEF DetectorInv
  <2>2. Count(type) \in Nat /\ Count(type) <= Cardinality(DaysOf(type))
    BY <2>1, CountIsOfDays DEF DetectorInv
  <2>3. IsFiniteSet(DaysOf(type)) /\ 4 * Cardinality(DaysOf(type)) <= Len(revenues)
    BY QuartersAreOutside DEF DetectorInv, Unusual
  <2>4. Cardinality(DaysOf(type)) \in Nat /\ Len(revenues) \in Nat
    BY <2>3, FS_CardinalityType DEF DetectorInv
  <2> QED
    BY <2>2, <2>3, <2>4
<1> QED
  BY <1>1, <1>2

(* For any products, stocks and revenues: a reorder day leaves stock for   *)
(* three days, a best seller about to run out is observed, and at most a   *)
(* quarter of the days are spikes or drops (observation.py:85-239).        *)
THEOREM ObservationsSound == DetectorSpec => []ObservationsAreSound
<1>1. DetectorInv => ObservationsAreSound
  <2> SUFFICES ASSUME DetectorInv PROVE ObservationsAreSound
    OBVIOUS
  <2>1. BestSellersAreWatched
    <3>1. CASE told = << >>
      BY <3>1 DEF BestSellersAreWatched
    <3>2. CASE told # << >>
      BY <3>2, BestSellersAreTold DEF DetectorInv
    <3> QED
      BY <3>1, <3>2
  <2> QED
    BY <2>1, ReordersAreEarly, OutliersFit DEF DetectorInv, ObservationsAreSound
<1> QED
  BY <1>1, DetectorInitInv, DetectorStepInv, PTL DEF DetectorSpec

LEMMA ObservationsTyped == DetectorInv => DetectorTypeOK
<1> SUFFICES ASSUME DetectorInv PROVE DetectorTypeOK
  OBVIOUS
<1>1. CASE told = << >>
  BY <1>1, DetectorAssumption DEF DetectorTypeOK
<1>2. CASE told # << >>
  <2>1. PICK order \in Orders : told = ToldOf(order)
    BY <1>2 DEF DetectorInv
  <2>2. /\ Len(told) <= ObservationLimit
        /\ \A i \in 1..Len(told) : told[i].type \in Expected \cup Unusual
    BY <2>1, ToldAre DEF DetectorInv
  <2> QED
    BY <2>2 DEF Expected, Unusual, DetectorTypeOK
<1> QED
  BY <1>1, <1>2

----------------------------------------------------------------------------
(* The services together, as one run checks them.                          *)

ServicesInv ==
  /\ CreditInv /\ PromptInv /\ AutoInv /\ AccountInv /\ CatalogueInv /\ MemoryInv
  /\ ConversationInv /\ EnginesFit /\ DocumentInv /\ EnginesAreThere /\ ReportInv
  /\ DetectorInv /\ AdviceInv /\ FiguresBounded /\ ProfileInv /\ SignsFit

(* A part that is not looked at has one beginning; it is a fit one.        *)
LEMMA QuietReports ==
  ASSUME reportStore = "sqlite", today = [weekday |-> 2, day |-> 5],
         receipt = [s \in Receipts |-> NoReceipt],
         report = [at |-> "idle", kind |-> "none", answers |-> << >>, opening |-> receipt],
         traffic = [value |-> 0, count |-> 0]
  PROVE  ReportInv
<1>1. receipt \in Sheets /\ \A r \in Receipts : receipt[r].late = FALSE
  BY DEF Sheets, NoReceipt
<1>2. Calendar
  BY DEF Calendar
<1>3. ReportTypes
  BY <1>1, <1>2 DEF ReportTypes
<1> QED
  BY <1>1, <1>3 DEF ReportInv, Untouched, Reading

LEMMA QuietAdvice ==
  ASSUME invoice = [s \in Invoices |-> [status |-> "none", age |-> 2]],
         advice = NoAdvice, witness = Nobody
  PROVE  AdviceInv /\ FiguresBounded
<1>1. InvoiceTypes
  BY DEF InvoiceTypes, SalesRows
<1>2. /\ advice.at = "idle" /\ advice.figures = << >> /\ advice.answer = "none" /\ AdviceTypes
  BY DEF NoAdvice, Nobody, AdviceTypes, AdviceRecords, Raises, Answers, Figures
<1>3. AdviceInv
  BY <1>1, <1>2 DEF AdviceInv, CheckUnderway, QuietFigures, AnswersFollow, AdviceIsTrue,
                    VerdictsWereTrue, RefusalsNameTheShortage, ModelFailuresAreAnswered
<1> QED
  BY <1>2, <1>3 DEF FiguresBounded

LEMMA QuietProfile ==
  ASSUME shop = [purchase |-> [s \in Purchases |-> Missing], shelf |-> [s \in Shelves |-> "none"],
                 patron |-> [c \in Patrons |-> [NewPatron EXCEPT !.there = FALSE]]],
         profile = [at |-> "running", kind |-> "health", answers |-> << >>],
         signs = {}, changes = 0
  PROVE  ProfileInv /\ SignsFit
<1>0. NewPatron \in PatronRows
  BY DEF NewPatron, PatronRows
<1>1. Missing \in PurchaseRows
  BY DEF Missing, PurchaseRows
<1>2. [NewPatron EXCEPT !.there = FALSE] \in PatronRows
  BY <1>0, EditedPatrons
<1>3. shop \in Shops
  BY <1>1, <1>2 DEF Shops
<1>4. profile \in Stages /\ Len(profile.answers) = 0
  BY DEF Stages
<1>5. Len(DNAQueries) \in Nat
  BY DEF DNAQueries
<1> QED
  BY <1>3, <1>4, <1>5, DNAAssumption DEF ProfileInv, SignsFit

LEMMA ServicesBegin == Init => ServicesInv
<1> SUFFICES ASSUME Init PROVE ServicesInv
  OBVIOUS
<1>1. CreditInv /\ PromptInv /\ AccountInv /\ CatalogueInv /\ AutoInv /\ MemoryInv
  BY CreditInitInv, PromptInitInv, AccountInitInv, CatalogueInitInv, AutoInitInv, MemoryInitInv DEF Init
<1>2. ConversationInv /\ EnginesFit
  BY ConversationInitInv, ConversationsBegin DEF Init
<1>3. DocumentInv /\ EnginesAreThere
  <2>1. CASE part = "documents"
    BY <2>1, DocumentsBegin DEF Init, DocumentInit
  <2>2. CASE part # "documents"
    BY <2>2, DocumentsBegin DEF Init
  <2> QED
    BY <2>1, <2>2
<1>4. ReportInv
  <2>1. CASE part = "reports"
    BY <2>1, ReportInitInv DEF Init
  <2>2. CASE part # "reports"
    BY <2>2, QuietReports DEF Init
  <2> QED
    BY <2>1, <2>2
<1>5. DetectorInv
  <2>1. CASE part = "detectors"
    BY <2>1, DetectorInitInv DEF Init
  <2>2. CASE part # "detectors"
    BY <2>2 DEF Init, DetectorInv, WareTypes
  <2> QED
    BY <2>1, <2>2
<1>6. AdviceInv /\ FiguresBounded
  <2>1. CASE part = "advice"
    BY <2>1, AdviceInitInv DEF Init, AdviceInit, NoAdvice, FiguresBounded
  <2>2. CASE part # "advice"
    BY <2>2, QuietAdvice DEF Init
  <2> QED
    BY <2>1, <2>2
<1>7. ProfileInv /\ SignsFit
  <2>1. CASE part = "profile"
    <3>1. DNAInit
      BY <2>1 DEF Init
    <3>2. SignsFit
      BY <3>1, DNAAssumption DEF DNAInit, SignsFit
    <3> QED
      BY <3>1, <3>2, ProfileInitInv
  <2>2. CASE part # "profile"
    BY <2>2, QuietProfile DEF Init
  <2> QED
    BY <2>1, <2>2
<1> QED
  BY <1>1, <1>2, <1>3, <1>4, <1>5, <1>6, <1>7 DEF ServicesInv

(* A step of one part leaves the others alone.                             *)
LEMMA ServicesStep ==
  ASSUME ServicesInv,
         [Next]_<<part, creditVars, promptVars, autoVars, accountVars, catalogueVars,
                  memoryVars, conversationVars, documentVars, reportVars,
                  detectorVars, adviceVars, dnaVars>>
  PROVE  ServicesInv'
<1>1. /\ [CreditNext]_creditVars /\ [PromptNext]_promptVars /\ [AutoNext]_autoVars
      /\ [AccountNext]_accountVars /\ [CatalogueNext]_catalogueVars /\ [MemoryNext]_memoryVars
      /\ [ConversationNext]_conversationVars /\ [DocumentNext]_documentVars
      /\ [ReportNext]_reportVars /\ [DetectorNext]_detectorVars /\ [AdviceNext]_adviceVars
      /\ [DNANext]_dnaVars
  BY DEF Next
<1>2. CreditInv' /\ PromptInv' /\ AutoInv' /\ CatalogueInv' /\ MemoryInv'
  BY <1>1, CreditStepInv, PromptStepInv, AutoStepInv, CatalogueStepInv, MemoryStepInv
     DEF ServicesInv
<1>3. AccountInv'
  BY <1>1, KindStep, RowStep, CodeStep, TokenStep DEF ServicesInv, AccountInv, RowInv, CodeInv
<1>4. (ConversationInv /\ EnginesFit)' /\ (DocumentInv /\ EnginesAreThere)'
  BY <1>1, ConversationStepInv, ConversationTypesStep, DocumentStepInv, DocumentTypesStep
     DEF ServicesInv
<1>5. ReportInv' /\ DetectorInv'
  BY <1>1, ReportStep, DetectorStepInv DEF ServicesInv
<1>6. (AdviceInv /\ FiguresBounded)' /\ (ProfileInv /\ SignsFit)'
  BY <1>1, AdviceStepInv, AdviceTypesStep, ProfileStepInv, ProfileTypesStep DEF ServicesInv
<1> QED
  BY <1>2, <1>3, <1>4, <1>5, <1>6 DEF ServicesInv

(* The composition of the twelve as the run checks it: every variable of   *)
(* every part keeps its type, for every number of requests and every value *)
(* of the other constants.                                                 *)
THEOREM ServicesTypes == Spec => []ServicesTypeOK
<1>1. ServicesInv => ServicesTypeOK
  BY RulesTyped, AccountsTyped, CatalogueTyped, MemoriesTyped, ConversationsTyped, DocumentsTyped,
     ReportsTyped, ObservationsTyped, AdviceTyped, ProfilesTyped
     DEF ServicesInv, ServicesTypeOK, CreditInv, PromptInv
<1> QED
  BY <1>1, ServicesBegin, ServicesStep, PTL DEF Spec
=============================================================================
