----------------------------- MODULE PromptStore -----------------------------
(***************************************************************************)
(* Versioned prompt templates (app/services/prompt_store.py): the rows of  *)
(* one business and key.                                                   *)
(*                                                                         *)
(* create reads an active version without a lock, switches it off and      *)
(* inserts its successor; render reads an active version.  `first()` has   *)
(* no ORDER BY, so that of several active rows any may be read.            *)
(***************************************************************************)
EXTENDS Integers, FiniteSets

CONSTANT Authors   \* requests to create a version, each handled once

VARIABLES
  version,  \* the version each author's committed row has, 0 for no row
  active,   \* the authors whose row is_active
  author,   \* where each request is, and the row it read: an author, or none
  overtaken \* history: authors whose predecessor was replaced under them

promptVars == <<version, active, author, overtaken>>

Rows == {a \in Authors : version[a] # 0}

PromptInit ==
  /\ version = [a \in Authors |-> 0]
  /\ active = {}
  /\ author = [a \in Authors |-> [at |-> "new", read |-> {}, next |-> 0]]
  /\ overtaken = {}
----------------------------------------------------------------------------
(* The rows the query of create and of get_active chooses from.            *)
Candidates == IF active = {} THEN {{}} ELSE {{b} : b \in active}

(* Faulty: the successor keeps the version of the row it replaces.         *)
SuccessorSame(read) == IF read = {} THEN 1 ELSE version[CHOOSE b \in read : TRUE]
(* Faulty: the new version is one more than there are rows.                *)
SuccessorCounted(read) == Cardinality(Rows) + 1
(* 34.                                                                     *)
Successor(read) == IF read = {} THEN 1 ELSE version[CHOOSE b \in read : TRUE] + 1

(* create, 26-34: the version of the new row is settled by what was read.  *)
ReadActive(a) ==
  /\ author[a].at = "new"
  /\ \E read \in Candidates :
       author' = [author EXCEPT ![a] = [at |-> "commit", read |-> read,
                                        next |-> Successor(read)]]
  /\ UNCHANGED <<version, active, overtaken>>

(* Faulty: the new row is inserted and the old one left active.            *)
DeactivatedNone(read) == active
(* 35-36: the row read is switched off, even if it already is.             *)
Deactivated(read) == active \ read

(* 37-43, and the commit that makes both changes visible.                  *)
CommitVersion(a) ==
  /\ author[a].at = "commit"
  /\ version' = [version EXCEPT ![a] = author[a].next]
  /\ active' = Deactivated(author[a].read) \cup {a}
  /\ overtaken' = IF author[a].read \subseteq active /\ (author[a].read = {} => Rows = {})
                  THEN overtaken ELSE overtaken \cup {a}
  /\ author' = [author EXCEPT ![a] = [at |-> "done", read |-> {}, next |-> 0]]

(* A restart or an error before the commit: both changes are undone.       *)
LoseVersion(a) ==
  /\ author[a].at = "commit"
  /\ author' = [author EXCEPT ![a] = [at |-> "lost", read |-> {}, next |-> 0]]
  /\ UNCHANGED <<version, active, overtaken>>

PromptNext == \E a \in Authors : ReadActive(a) \/ CommitVersion(a) \/ LoseVersion(a)

PromptSpec == PromptInit /\ [][PromptNext]_promptVars
----------------------------------------------------------------------------
PromptTypeOK ==
  /\ version \in [Authors -> Nat]
  /\ active \subseteq Rows /\ overtaken \subseteq Rows
  /\ author \in [Authors -> [at : {"new", "commit", "done", "lost"},
                             read : SUBSET Authors, next : Nat]]

(* However creations interleave, a version is switched off only together   *)
(* with the insertion of a higher one (prompt_store.py:34-42): every       *)
(* inactive version has a successor, so that the newest one is always      *)
(* active and render always finds a template.                              *)
NewestIsActive ==
  \A b \in Rows \ active : \E a \in Rows : version[a] = version[b] + 1

(* Versions are handed out without gaps: each has its predecessor on file. *)
VersionsAreTracked ==
  \A a \in Rows : version[a] > 1 => \E b \in Rows : version[b] = version[a] - 1

(* At most one version is active, but for one more per creation overtaken  *)
(* by another.                                                             *)
ExtrasAreRaces == Cardinality(active) <= 1 + Cardinality(overtaken)

(* What is left of one active version per prompt when creations overlap    *)
(* (prompt_store.py:26-42): a chain of versions without gaps, its newest   *)
(* active, and too many active only by creations that were overtaken.      *)
VersionsAreKept == NewestIsActive /\ VersionsAreTracked /\ ExtrasAreRaces

(* "one active prompt per key per business" (models/__init__.py:346);      *)
(* creating one "deactivates the prior active version"                     *)
(* (prompt_store.py:4-5).                                                  *)
OneActivePrompt == Cardinality(active) <= 1
=============================================================================
