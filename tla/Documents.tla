----------------------------- MODULE Documents -----------------------------
(***************************************************************************)
(* Receipts and voice notes, app/services/document_processing.py behind    *)
(* POST /ai/ocr and /ai/voice/transcribe: an upload is read, written to a  *)
(* temporary file, given to whichever engine is installed, and the file is *)
(* removed.  From the write to the removal nothing is awaited: the process *)
(* serves nobody else meanwhile, and only its end comes between.           *)
(*                                                                         *)
(* A recognition is the sequence of the confidences of its pieces, in      *)
(* percent, -1 where the engine found no text; the words are left out.     *)
(***************************************************************************)
EXTENDS Integers, Sequences, FiniteSets, Functions

CONSTANTS
  Uploads,
  Installed,     \* sets of engines an image may hold
  Recognitions,  \* what an engine may make of a file
  MaxOutages     \* bound: restarts of the container, which keeps its files

ASSUME DocumentAssumption ==
  /\ Installed \subseteq SUBSET {"tesseract", "easyocr", "faster_whisper", "whisper"}
  /\ Recognitions \subseteq Seq(-1..100) /\ MaxOutages \in Nat

VARIABLES
  engines,   \* installed in this image
  loaded,    \* models the process has loaded, on their first use
  upload,    \* each request: its kind, where it is, its answer
  files,     \* temporary files on disk, named by their request
  cut,       \* history: requests that ended with the process, or in a failed write
  outages

documentVars == <<engines, loaded, upload, files, cut, outages>>

NoAnswer == [pieces |-> 0, entries |-> 0, confidence |-> 0]

DocumentInit ==
  /\ engines \in Installed
  /\ loaded = {}
  /\ upload \in [Uploads -> [at : {"sent"}, kind : {"ocr", "voice"}, answer : {NoAnswer}]]
  /\ files = {} /\ cut = {}
  /\ outages = 0
----------------------------------------------------------------------------
(* Faulty: the engines are not looked for.                                 *)
ProcessorGuessed(kind) == IF kind = "ocr" THEN "easyocr" ELSE "whisper"
(* _auto_configure and _auto_configure_voice, at import.                   *)
Processor(kind) ==
  IF kind = "ocr"
  THEN IF "tesseract" \in engines THEN "tesseract"
       ELSE IF "easyocr" \in engines THEN "easyocr" ELSE "none"
  ELSE IF "faster_whisper" \in engines THEN "faster_whisper"
       ELSE IF "whisper" \in engines THEN "whisper" ELSE "none"

(* Faulty: the pieces without text count as well.                          *)
PieceConfidencesAll(pieces) == DOMAIN pieces
(* Tesseract: str(c).isdigit() leaves out -1.                              *)
PieceConfidences(pieces) == {i \in DOMAIN pieces : pieces[i] >= 0}

(* Of the pieces that count.                                               *)
Mean(pieces, counted) ==
  IF counted = {} THEN 0 ELSE SumFunctionOnSet(pieces, counted) \div Cardinality(counted)

(* The answer of each engine.  The segments of faster-whisper are a        *)
(* generator, which the text uses up: nothing is left for the confidence   *)
(* and the entries.  whisper reports neither.  EasyOCR returns only what   *)
(* it could read.                                                          *)
Recognised(engine, pieces) ==
  CASE engine = "tesseract" ->
         [pieces |-> Len(pieces), entries |-> 0, confidence |-> Mean(pieces, PieceConfidences(pieces))]
    [] engine = "easyocr" ->
         LET read == {i \in DOMAIN pieces : pieces[i] >= 0} IN
         [pieces |-> Cardinality(read), entries |-> 0, confidence |-> Mean(pieces, read)]
    [] engine \in {"faster_whisper", "whisper"} ->
         [pieces |-> Len(pieces), entries |-> 0, confidence |-> 0]

Free == \A u \in Uploads : upload[u].at # "recognising"

(* await file.read(); without an engine the answer is 501.                 *)
Receive(u) ==
  /\ upload[u].at = "sent" /\ Free
  /\ upload' = [upload EXCEPT ![u].at =
                  IF Processor(upload[u].kind) = "none" THEN "not_implemented" ELSE "read"]
  /\ UNCHANGED <<engines, loaded, files, cut, outages>>

(* EasyOCR loads its model before the file is written, Whisper after.      *)
LoadsFirst(u) == Processor(upload[u].kind) = "easyocr"

LoadFails(u) ==
  /\ upload[u].at = "read" /\ LoadsFirst(u) /\ "easyocr" \notin loaded /\ Free
  /\ upload' = [upload EXCEPT ![u].at = "failed"]
  /\ UNCHANGED <<engines, loaded, files, cut, outages>>

(* NamedTemporaryFile(delete=False).                                       *)
WriteFile(u) ==
  /\ upload[u].at = "read" /\ Free
  /\ upload' = [upload EXCEPT ![u].at = "recognising"]
  /\ files' = files \cup {u}
  /\ loaded' = IF LoadsFirst(u) THEN loaded \cup {"easyocr"} ELSE loaded
  /\ UNCHANGED <<engines, cut, outages>>

(* A full disk raises before the try: the file stays.                      *)
WriteFails(u) ==
  /\ upload[u].at = "read" /\ Free
  /\ upload' = [upload EXCEPT ![u].at = "failed"]
  /\ files' = files \cup {u}
  /\ cut' = cut \cup {u}
  /\ UNCHANGED <<engines, loaded, outages>>

(* Faulty: the file is removed only when the engine succeeded.             *)
RemovedIfRecognised(u, recognised) == IF recognised THEN files \ {u} ELSE files
(* finally: os.unlink(path).                                               *)
Removed(u, recognised) == files \ {u}

Recognise(u, pieces) ==
  /\ upload[u].at = "recognising"
  /\ upload' = [upload EXCEPT ![u] =
       [@ EXCEPT !.at = "done", !.answer = Recognised(Processor(upload[u].kind), pieces)]]
  /\ loaded' = IF Processor(upload[u].kind) = "tesseract" THEN loaded
               ELSE loaded \cup {Processor(upload[u].kind)}
  /\ files' = Removed(u, TRUE)
  /\ UNCHANGED <<engines, cut, outages>>

(* The engine, or the loading of its model, raises.                        *)
EngineFails(u) ==
  /\ upload[u].at = "recognising"
  /\ upload' = [upload EXCEPT ![u].at = "failed"]
  /\ files' = Removed(u, FALSE)
  /\ UNCHANGED <<engines, loaded, cut, outages>>

Outage ==
  LET live == {u \in Uploads : upload[u].at \in {"read", "recognising"}} IN
  /\ outages < MaxOutages
  /\ outages' = outages + 1
  /\ upload' = [u \in Uploads |-> IF u \in live THEN [upload[u] EXCEPT !.at = "failed"] ELSE upload[u]]
  /\ cut' = cut \cup live
  /\ loaded' = {}
  /\ UNCHANGED <<engines, files>>

DocumentNext ==
  \/ Outage
  \/ \E u \in Uploads :
       \/ Receive(u) \/ LoadFails(u) \/ WriteFile(u) \/ WriteFails(u) \/ EngineFails(u)
       \/ \E pieces \in Recognitions : Recognise(u, pieces)

DocumentSpec == DocumentInit /\ [][DocumentNext]_documentVars
----------------------------------------------------------------------------
DocumentTypeOK ==
  /\ files \subseteq Uploads /\ cut \subseteq Uploads /\ outages \in 0..MaxOutages
  /\ loaded \subseteq engines
  /\ \A u \in Uploads :
       /\ upload[u].at \in {"sent", "read", "recognising", "done", "failed", "not_implemented"}
       /\ upload[u].answer.confidence \in 0..100

(* A customer's receipt or voice does not stay on the server's disk: a     *)
(* temporary file is that of the request being served, unless a restart or *)
(* a full disk cut its request short (document_processing.py:66-82,        *)
(* 104-122, 144-164, 184-199).                                             *)
FilesAreRemoved ==
  \A u \in files : upload[u].at = "recognising" \/ u \in cut
=============================================================================
