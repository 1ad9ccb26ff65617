--------------------------- MODULE BusinessMemory ---------------------------
(***************************************************************************)
(* The memory of one business, app/services/memory.py: entries are stored, *)
(* found by searches, which count their accesses, and pruned by            *)
(* consolidations.  A confidence is asked in hundredths and stored as an   *)
(* integer percentage; the thresholds of search and consolidate stay on    *)
(* the scale of the request.                                               *)
(***************************************************************************)
EXTENDS Integers, FiniteSets

CONSTANTS
  Minds,         \* requests to the memory router, each handled once
  Confidences,   \* in hundredths, as asked
  Thresholds,    \* min_confidence in hundredths
  Databases      \* "sqlite", "postgres"

ASSUME MemoryAssumption ==
  Confidences \subseteq Int /\ Thresholds \subseteq Nat /\ Databases \subseteq {"sqlite", "postgres"}

VARIABLES
  database,
  entries,    \* committed entries, named by the request that stored them
  confidence, \* as stored
  hits,       \* access_count, committed
  aged,       \* entries created more than 30 days ago
  mind,       \* where each request is, and the entries it read
  open,       \* history: the requests that were open when this one ended
  miscounted  \* history: entries another search had changed under a search

memoryVars == <<database, entries, confidence, hits, aged, mind, open, miscounted>>

NewMind == [at |-> "new", op |-> "none", chosen |-> {}, seen |-> [i \in Minds |-> 0]]

MemoryInit ==
  /\ database \in Databases
  /\ entries = {} /\ aged = {}
  /\ confidence = [i \in Minds |-> 0] /\ hits = [i \in Minds |-> 0]
  /\ mind = [q \in Minds |-> NewMind]
  /\ open = [q \in Minds |-> {}]
  /\ miscounted = {}
----------------------------------------------------------------------------
Think(q, op, chosen) ==
  /\ mind[q].at = "new"
  /\ mind' = [mind EXCEPT ![q] = [at |-> "open", op |-> op, chosen |-> chosen, seen |-> hits]]
  /\ UNCHANGED <<database, entries, confidence, hits, aged, open, miscounted>>

(* The entries this request chose stay in its record.                      *)
Conclude(q, outcome) ==
  /\ mind' = [mind EXCEPT ![q].at = outcome, ![q].seen = NewMind.seen]
  /\ open' = [open EXCEPT ![q] = {p \in Minds \ {q} : mind[p].at = "open"}]

(* int(confidence * 100): 0.29, 0.57 and 0.58 are a little less than that  *)
(* in binary, and lose a point.                                            *)
Stored(c) == IF c \in {29, 57, 58} THEN c - 1 ELSE c

StartStore(q) == Think(q, "store", {})
CommitStore(q, c) ==
  /\ mind[q].at = "open" /\ mind[q].op = "store"
  /\ entries' = entries \cup {q}
  /\ confidence' = [confidence EXCEPT ![q] = Stored(c)]
  /\ Conclude(q, "done")
  /\ UNCHANGED <<database, hits, aged, miscounted>>

(* search, 120-121: a percentage is compared with a fraction.              *)
Confident(i, threshold) == threshold > 0 => 100 * confidence[i] >= threshold
(* The best `limit` of the entries that pass, in an order ties leave open. *)
Best(found, matching) ==
  /\ found \subseteq matching
  /\ \A i \in found, j \in matching \ found : confidence[i] >= confidence[j]

StartSearch(q, threshold) ==
  \E found \in SUBSET entries :
    /\ Best(found, {i \in entries : Confident(i, threshold)})
    /\ Think(q, "search", found)

(* 150-167: an UPDATE per entry found.  An entry deleted meanwhile raises; *)
(* on Postgres an aware datetime is refused, whatever was found.           *)
SearchFails(q) ==
  ~ mind[q].chosen \subseteq entries \/ (database = "postgres" /\ mind[q].chosen # {})

(* Faulty: an access is counted for every entry.                           *)
CountedAll(q, i) == i \in entries
(* 150-152.                                                                *)
Counted(q, i) == i \in mind[q].chosen

CommitSearch(q) ==
  /\ mind[q].at = "open" /\ mind[q].op = "search" /\ ~ SearchFails(q)
  /\ hits' = [i \in Minds |-> IF Counted(q, i) THEN mind[q].seen[i] + 1 ELSE hits[i]]
  /\ miscounted' = miscounted \cup {i \in mind[q].chosen : hits[i] # mind[q].seen[i]}
  /\ Conclude(q, "done")
  /\ UNCHANGED <<database, entries, confidence, aged>>

(* Faulty: entries in use are pruned as well.                              *)
UselessUsed == {i \in entries \cap aged : 10 * confidence[i] < 1}
(* consolidate, 182-190: below 0.1 on the stored scale is 0 or less.       *)
Useless == {i \in entries \cap aged : 10 * confidence[i] < 1 /\ hits[i] = 0}

StartConsolidate(q) == Think(q, "consolidate", Useless)
(* The deletions are flushed with the count that follows; a DELETE that    *)
(* meets no row only warns.                                                *)
CommitConsolidate(q) ==
  /\ mind[q].at = "open" /\ mind[q].op = "consolidate"
  /\ entries' = entries \ mind[q].chosen
  /\ aged' = aged \ mind[q].chosen
  /\ Conclude(q, "done")
  /\ UNCHANGED <<database, confidence, hits, miscounted>>

FailSearch(q) ==
  /\ mind[q].at = "open" /\ mind[q].op = "search" /\ SearchFails(q)
  /\ Conclude(q, "failed")
  /\ UNCHANGED <<database, entries, confidence, hits, aged, miscounted>>

LoseThought(q) ==
  /\ mind[q].at = "open"
  /\ Conclude(q, "lost")
  /\ UNCHANGED <<database, entries, confidence, hits, aged, miscounted>>

MonthPasses ==
  /\ aged # entries
  /\ aged' = entries
  /\ UNCHANGED <<database, entries, confidence, hits, mind, open, miscounted>>

MemoryNext ==
  \/ MonthPasses
  \/ \E q \in Minds :
       \/ StartStore(q) \/ StartConsolidate(q) \/ CommitSearch(q) \/ CommitConsolidate(q)
       \/ \E c \in Confidences : CommitStore(q, c)
       \/ \E t \in Thresholds : StartSearch(q, t)
       \/ FailSearch(q) \/ LoseThought(q)

MemorySpec == MemoryInit /\ [][MemoryNext]_memoryVars
----------------------------------------------------------------------------
Did(q, op) == mind[q].at = "done" /\ mind[q].op = op
Finders(i) == {q \in Minds : Did(q, "search") /\ i \in mind[q].chosen}

MemoryTypeOK ==
  /\ database \in {"sqlite", "postgres"}
  /\ aged \subseteq entries /\ entries \subseteq Minds /\ miscounted \subseteq Minds
  /\ confidence \in [Minds -> Int] /\ hits \in [Minds -> Nat]
  /\ \A q \in Minds : mind[q].at \in {"new", "open", "done", "failed", "lost"}

(* An entry that a search returned is pruned only by a consolidation that  *)
(* was open while that search ended (memory.py:150-153, 182-192).          *)
FoundEntriesSurvive ==
  \A q, c \in Minds : \A i \in mind[q].chosen :
    Did(q, "search") /\ Did(c, "consolidate") /\ i \in mind[c].chosen => c \in open[q]

(* access_count never exceeds the searches that returned the entry, and    *)
(* falls behind only where two of them overlapped (memory.py:152).         *)
AccessesAreCounted ==
  \A i \in entries :
    /\ hits[i] <= Cardinality(Finders(i))
    /\ hits[i] < Cardinality(Finders(i)) => i \in miscounted

(* What the memory holds (memory.py:150-153, 182-192) is lost only where a *)
(* consolidation did not see the search that used it; uses are counted.    *)
MemoriesAreKept == FoundEntriesSurvive /\ AccessesAreCounted
=============================================================================
