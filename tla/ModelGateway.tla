--------------------------- MODULE ModelGateway ---------------------------
(***************************************************************************)
(* One call of OmnirouteGateway (app/core/gateway.py): the body of the     *)
(* answer arrives line by line and is parsed when it ends, as a stream of  *)
(* events or as one JSON object.  An event's text is named by its line.    *)
(***************************************************************************)
EXTENDS Integers, Sequences, FiniteSets, FiniteSetsExt

CONSTANT MaxLines   \* bound: the lines of a body

ASSUME GatewayAssumption == MaxLines \in Nat

(* What a line may be: an event with text, with the model's name, with     *)
(* both or with neither (metering, an unknown shape); one whose text holds *)
(* a character `splitlines` breaks at (U+2028, U+0085), one whose content  *)
(* is a number or a list; "[DONE]"; a line that is no event or no JSON; an *)
(* event that is no object, or whose delta is none.                        *)
Lines == {"text", "named", "named_text", "textless", "split", "value", "done", "noise", "bare"}

(* A body without events is one JSON object, or not: its content is a      *)
(* text, null, or another value; it has another shape; it is no JSON.      *)
Objects == {"answer", "null", "value", "shapeless", "garbage"}

VARIABLES
  call,     \* wants: "text" or "json"; where it is; the object its body turned out to be
  body,     \* the lines so far
  result,   \* content (line numbers; 0, -1: of the object), model (the line naming it,
            \* 0: as asked), raised
  spoken    \* history: the lines of the texts that came in one piece, and of the names

gatewayVars == <<call, body, result, spoken>>

NoResult == [content |-> << >>, model |-> 0, raised |-> "nothing"]

GatewayInit ==
  /\ call \in [at : {"idle"}, wants : {"text", "json"}, met : {"none"}]
  /\ body = << >>
  /\ result = NoResult
  /\ spoken = [whole |-> << >>, named |-> {}]
----------------------------------------------------------------------------
Fails(error) == [NoResult EXCEPT !.raised = error]

(* Faulty: an event may name the model or say something, not both.         *)
WithTextUnnamed == {"text"}
WithText == {"text", "named_text"}
WithName == {"named", "named_text"}

Numbers(lines, kinds) == {i \in 1..Len(lines) : lines[i] \in kinds}
(* The members of a set of line numbers, in their order.                   *)
Increasing(s) == \A i, j \in 1..Len(s) : i < j => s[i] < s[j]
InOrder(S) == CHOOSE s \in [1..Cardinality(S) -> S] : Increasing(s)

(* _parse_response, first half: the texts in order; the last name counts.  *)
(* `evt.get` raises for an event that is no object, `join`, after the      *)
(* loop, for a content that is no text; what is left of a torn event is no *)
(* event.                                                                  *)
ParsedStream(lines) ==
  IF Numbers(lines, {"bare"}) # {} THEN Fails("AttributeError")
  ELSE IF Numbers(lines, {"value"}) # {} THEN Fails("TypeError")
  ELSE [content |-> InOrder(Numbers(lines, WithText)),
        model |-> Max({0} \cup Numbers(lines, WithName)), raised |-> "nothing"]

(* Faulty: an answer of another shape is no answer, but no error.          *)
ParsedObjectLenient(object) ==
  CASE object = "answer" -> [NoResult EXCEPT !.content = <<0>>]
    [] object = "value" -> [NoResult EXCEPT !.content = <<-1>>]
    [] object \in {"null", "shapeless"} -> NoResult
    [] OTHER -> Fails("GatewayError")
(* Second half: without a text, the whole body must be one JSON object,    *)
(* whose content is handed on as it is.                                    *)
ParsedObject(object) ==
  CASE object = "answer" -> [NoResult EXCEPT !.content = <<0>>]
    [] object = "value"  -> [NoResult EXCEPT !.content = <<-1>>]
    [] object = "null"   -> NoResult
    [] OTHER             -> Fails("GatewayError")

Parsed(lines, object) ==
  LET stream == ParsedStream(lines) IN
  IF stream.raised # "nothing" \/ stream.content # << >> THEN stream
  ELSE ParsedObject(IF lines = << >> THEN object ELSE "garbage")

(* chat_json: json.loads of the content, which must be a text and be JSON. *)
Structured(parsed, isJson) ==
  IF parsed.raised # "nothing" THEN parsed
  ELSE IF parsed.content \in {<< >>, <<-1>>} THEN Fails("TypeError")
  ELSE IF isJson THEN parsed ELSE Fails("GatewayError")

(* _client_ raises without a key; else the request is posted.              *)
Post ==
  /\ call.at = "idle"
  /\ \/ call' = [call EXCEPT !.at = "posted"] /\ UNCHANGED result
     \/ /\ call' = [call EXCEPT !.at = "ended"]
        /\ result' = Fails("ConfigurationError")
  /\ UNCHANGED <<body, spoken>>

(* 109-123: any status other than 200 and any error of the transport.      *)
TransportFails ==
  /\ call.at = "posted"
  /\ call' = [call EXCEPT !.at = "ended"]
  /\ result' = Fails("GatewayError")
  /\ UNCHANGED <<body, spoken>>

LineArrives(line) ==
  LET n == Len(body) + 1 IN
  /\ call.at = "posted" /\ n <= MaxLines
  /\ body' = Append(body, line)
  /\ spoken' = [whole |-> IF line \in {"text", "named_text"} THEN Append(spoken.whole, n)
                          ELSE spoken.whole,
                named |-> IF line \in {"named", "named_text"} THEN spoken.named \cup {n}
                          ELSE spoken.named]
  /\ UNCHANGED <<call, result>>

(* The body ends, after [DONE] or before: nothing asks for [DONE].         *)
BodyEnds(object, isJson) ==
  /\ call.at = "posted"
  /\ call' = [call EXCEPT !.at = "ended", !.met = object]
  /\ result' = IF call.wants = "text" THEN Parsed(body, object)
               ELSE Structured(Parsed(body, object), isJson)
  /\ UNCHANGED <<body, spoken>>

GatewayNext ==
  \/ Post \/ TransportFails
  \/ \E line \in Lines : LineArrives(line)
  \/ \E object \in Objects, isJson \in BOOLEAN : BodyEnds(object, isJson)

GatewaySpec == GatewayInit /\ [][GatewayNext]_gatewayVars
----------------------------------------------------------------------------
GatewayTypeOK ==
  /\ call.at \in {"idle", "posted", "ended"} /\ Len(body) <= MaxLines
  /\ result.raised \in {"nothing", "GatewayError", "ConfigurationError", "AttributeError", "TypeError"}

Answered == call.at = "ended" /\ result.raised = "nothing"

(* An answer taken from a stream says every text that arrived in one       *)
(* piece, once and in order, whatever else came with them, and the model   *)
(* it names is one some event named, or the one asked for where none did   *)
(* (gateway.py:139-163).                                                   *)
StreamsAreReadInOrder ==
  Answered /\ spoken.whole # << >> =>
    /\ result.content = spoken.whole
    /\ result.model \in {0} \cup spoken.named /\ (result.model = 0 <=> spoken.named = {})

(* Any other answer is that of a body of one JSON object, and where JSON   *)
(* was asked for, a text: no stream without a text, cut short, refused or  *)
(* of another shape, passes for an empty answer (gateway.py:164-197).      *)
OthersAreObjects ==
  Answered /\ spoken.whole = << >> =>
    /\ body = << >> /\ call.met \in {"answer", "null", "value"}
    /\ call.met = "answer" <=> result.content = <<0>>
    /\ call.wants = "json" => call.met = "answer"

(* A call that does not raise has read what the provider said, all of it   *)
(* that arrived whole and nothing else (gateway.py:97-197).                *)
AnswersAreRead == StreamsAreReadInOrder /\ OthersAreObjects
=============================================================================
