--------------------------- MODULE AutomationRules ---------------------------
(***************************************************************************)
(* The automation rules of one business: app/services/automation.py and    *)
(* app/api/automation/routes.py.  Templates are seeded, rules created,     *)
(* switched, deleted and run, each by a request that reads first and       *)
(* writes with its commit; a run evaluates rule after rule in between, and *)
(* every rule may wait for queries of its own.                             *)
(***************************************************************************)
EXTENDS Integers, FiniteSets

CONSTANTS
  Operators,  \* requests to the automation router, each handled once
  Triggers,   \* the trigger types of the templates; others may be created
  Dialects    \* which databases enforce the foreign key of automation_logs

ASSUME TriggerAssumption ==
  /\ Dialects \subseteq {"sqlite", "postgres"}
  /\ Cardinality(Triggers) > 1

VARIABLES
  dialect,
  rules,      \* committed rules, named by the request and the trigger
  enabled,    \* those with is_enabled
  count,      \* trigger_count, committed
  logs,       \* the number of automation_logs rows of a rule, committed
  desk,       \* what each request read and did so far
  during,     \* history: the requests that committed while this one was open
  doubled     \* history: rules whose count another run changed under a run

autoVars == <<dialect, rules, enabled, count, logs, desk, during, doubled>>

Rules == Operators \X (Triggers \cup {"custom"})
Trigger(rule) == rule[2]
Nothing == [i \in Rules |-> 0]

(* todo: rules read and not dealt with; fired: triggered in this session;  *)
(* seen: trigger_count as loaded.                                          *)
Idle(where) == [at |-> where, op |-> "none", todo |-> {}, fired |-> {}, seen |-> Nothing]

AutoInit ==
  /\ dialect \in Dialects
  /\ rules = {} /\ enabled = {}
  /\ count = Nothing /\ logs = Nothing
  /\ desk = [q \in Operators |-> Idle("new")]
  /\ during = [q \in Operators |-> {}]
  /\ doubled = {}
----------------------------------------------------------------------------
Begin(q, op, targets, loaded) ==
  /\ desk[q].at = "new"
  /\ desk' = [desk EXCEPT ![q] = [at |-> "open", op |-> op, todo |-> targets,
                                  fired |-> {}, seen |-> loaded]]
  /\ UNCHANGED <<dialect, rules, enabled, count, logs, during, doubled>>

Refuse(q, where) ==
  /\ desk' = [desk EXCEPT ![q] = Idle(where)]
  /\ UNCHANGED <<dialect, rules, enabled, count, logs, during, doubled>>

Seen(q) == [p \in Operators |-> IF desk[p].at = "open" THEN during[p] \cup {q} ELSE during[p]]

Close(q) ==
  /\ desk' = [desk EXCEPT ![q] = Idle("done")]
  /\ during' = Seen(q)
  /\ UNCHANGED dialect

(* Faulty: the templates are not looked for.                               *)
StartSeedAgain(q) == Begin(q, "seed", {q} \X Triggers, Nothing)
(* seed_default_rules, 28-33.  The first scalar() closes the result and    *)
(* the second raises: where rules exist the request fails.                 *)
StartSeed(q) ==
  IF rules = {} THEN Begin(q, "seed", {q} \X Triggers, Nothing)
  ELSE desk[q].at = "new" /\ Refuse(q, "failed")

StartCreateRule(q) == \E t \in Triggers \cup {"custom"} : Begin(q, "create", {<<q, t>>}, Nothing)

(* update_rule and delete_rule load the rule, or answer 404.               *)
StartUpdateRule(q) ==
  \/ \E op \in {"enable", "disable", "rename"}, i \in rules : Begin(q, op, {i}, count)
  \/ desk[q].at = "new" /\ Rules \ rules # {} /\ Refuse(q, "refused")
StartDeleteRule(q) == \E i \in rules : Begin(q, "delete", {i}, Nothing)

(* run_all, 122-129.                                                       *)
StartRun(q) == Begin(q, "run", rules \cap enabled, count)

(* evaluate_rule: what the tables say is left open; unknown types never    *)
(* trigger.                                                                *)
Verdicts(trigger) == CASE trigger = "daily_report" -> {TRUE}
                       [] trigger = "custom" -> {FALSE}
                       [] OTHER -> BOOLEAN

(* 131-166: the rule as it was loaded, enabled or not by now.              *)
RunRule(q, i) ==
  /\ desk[q].at = "open" /\ desk[q].op = "run" /\ i \in desk[q].todo
  /\ \E triggered \in Verdicts(Trigger(i)) :
       desk' = [desk EXCEPT ![q].todo = @ \ {i},
                            ![q].fired = IF triggered THEN @ \cup {i} ELSE @]
  /\ UNCHANGED <<dialect, rules, enabled, count, logs, during, doubled>>
----------------------------------------------------------------------------
CommitNewRules(q) ==
  /\ desk[q].at = "open" /\ desk[q].op \in {"seed", "create"}
  /\ rules' = rules \cup desk[q].todo
  /\ enabled' = enabled \cup desk[q].todo
  /\ Close(q)
  /\ UNCHANGED <<count, logs, doubled>>

(* Faulty: an update writes every column it loaded.                        *)
CountAfterUpdateWhole(q, i) == desk[q].seen[i]
(* An update writes the columns it set; the count is not among them.       *)
CountAfterUpdate(q, i) == count[i]

(* An UPDATE that meets no row raises StaleDataError.                      *)
CommitUpdate(q) ==
  /\ desk[q].at = "open" /\ desk[q].op \in {"enable", "disable", "rename"}
  /\ desk[q].todo \subseteq rules
  /\ enabled' = CASE desk[q].op = "enable" -> enabled \cup desk[q].todo
                  [] desk[q].op = "disable" -> enabled \ desk[q].todo
                  [] OTHER -> enabled
  /\ count' = [i \in Rules |-> IF i \in desk[q].todo THEN CountAfterUpdate(q, i) ELSE count[i]]
  /\ Close(q)
  /\ UNCHANGED <<rules, logs, doubled>>

(* Postgres refuses to delete a rule that has logs; a DELETE that meets no *)
(* row only warns.                                                         *)
DeleteRefused(q) == dialect = "postgres" /\ \E i \in desk[q].todo : logs[i] > 0
CommitDelete(q) ==
  /\ desk[q].at = "open" /\ desk[q].op = "delete" /\ ~ DeleteRefused(q)
  /\ rules' = rules \ desk[q].todo /\ enabled' = enabled \ desk[q].todo
  /\ Close(q)
  /\ UNCHANGED <<count, logs, doubled>>

(* 134-147.                                                                *)
Logged(q, i) == i \in desk[q].fired

(* The flush of 168 (or of an earlier query) and the commit: counts are    *)
(* written from what was loaded, logs are added.                           *)
CommitRun(q) ==
  /\ desk[q].at = "open" /\ desk[q].op = "run" /\ desk[q].todo = {}
  /\ desk[q].fired \subseteq rules
  /\ count' = [i \in Rules |-> IF i \in desk[q].fired THEN desk[q].seen[i] + 1 ELSE count[i]]
  /\ logs' = [i \in Rules |-> IF Logged(q, i) THEN logs[i] + 1 ELSE logs[i]]
  /\ doubled' = doubled \cup {i \in desk[q].fired : count[i] # desk[q].seen[i]}
  /\ Close(q)
  /\ UNCHANGED <<rules, enabled>>

(* A rule deleted meanwhile, or referenced: the whole request fails.  A    *)
(* failed flush spoils the session, whichever rule it surfaced in.         *)
Conflict(q) ==
  /\ desk[q].at = "open"
  /\ \/ desk[q].op \in {"enable", "disable", "rename"} /\ ~ desk[q].todo \subseteq rules
     \/ desk[q].op = "delete" /\ DeleteRefused(q)
     \/ desk[q].op = "run" /\ ~ desk[q].fired \subseteq rules
  /\ Refuse(q, "failed")

(* A restart, a deadlock of two runs, a locked database: rolled back.      *)
LoseRequest(q) == desk[q].at = "open" /\ Refuse(q, "lost")

AutoNext ==
  \E q \in Operators :
    \/ StartSeed(q) \/ StartCreateRule(q) \/ StartUpdateRule(q) \/ StartDeleteRule(q)
    \/ StartRun(q) \/ \E i \in Rules : RunRule(q, i)
    \/ CommitNewRules(q) \/ CommitUpdate(q) \/ CommitDelete(q) \/ CommitRun(q)
    \/ Conflict(q) \/ LoseRequest(q)

AutoSpec == AutoInit /\ [][AutoNext]_autoVars
----------------------------------------------------------------------------
AutoTypeOK ==
  /\ dialect \in {"sqlite", "postgres"}
  /\ enabled \subseteq rules /\ rules \subseteq Rules /\ doubled \subseteq Rules
  /\ count \in [Rules -> Nat] /\ logs \in [Rules -> Nat]
  /\ during \in [Operators -> SUBSET Operators]
  /\ \A q \in Operators :
       /\ desk[q].at \in {"new", "open", "done", "refused", "failed", "lost"}
       /\ desk[q].todo \subseteq Rules /\ desk[q].fired \subseteq Rules

(* trigger_count is the number of log rows of the rule unless two runs     *)
(* overlapped in it, and then it has fallen behind (automation.py:137-147):*)
(* edits, deletions and failed runs never disturb the two.                 *)
CountIsLogged ==
  \A i \in Rules : count[i] <= logs[i] /\ (count[i] < logs[i] => i \in doubled)

(* "Create default automation templates if none exist" (automation.py:27): *)
(* two sets of templates are on file only if their requests overlapped.    *)
SeedsOverlapped ==
  \A p, q \in Operators :
    p # q /\ {p} \X Triggers \subseteq rules /\ {q} \X Triggers \subseteq rules
    => p \in during[q] \/ q \in during[p]

(* Rules, their counts and their logs agree (automation.py:25-53, 120-153) *)
(* but for what seedings or runs that overlapped did to one another.       *)
RulesAreKept == CountIsLogged /\ SeedsOverlapped
=============================================================================
