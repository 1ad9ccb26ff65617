------------------------------ MODULE Migrations ------------------------------
(***************************************************************************)
(* The schema of one Postgres database over two releases of the program:   *)
(* the first, whose only revision is 2ac145176d01, and this one, which     *)
(* adds revision 4f1c2d3e5a60.  Tables come from a container that starts   *)
(* (create_all, core/database.py) or from alembic, which runs a revision   *)
(* statement by statement in one transaction.  Of this release no script   *)
(* loads: 4f1c2d3e5a60 uses `Union`, which it does not import.             *)
(***************************************************************************)
EXTENDS Integers, Sequences, SequencesExt

CONSTANT MaxCommands  \* bound: alembic commands

ASSUME MigrationsAssumption == MaxCommands \in Nat

VARIABLES
  release,   \* whose code is deployed: "first" or "this"
  container, \* "down" or "serving"
  tables,    \* those committed
  receipts,  \* does payments have the column mpesa_receipt
  revision,  \* what alembic_version says
  alembic,   \* the command that runs: its statements left, the tables it sees, why it failed
  commands

migrationVars == <<release, container, tables, receipts, revision, alembic, commands>>

NoCommand == [kind |-> "none", left |-> << >>, sees |-> {}, failed |-> "never"]
----------------------------------------------------------------------------
FirstTables ==
  <<"businesses", "automation_rules", "branches", "business_memory", "customers",
    "notifications", "products", "prompts", "suppliers", "sync_logs", "users">>
LaterTables ==
  <<"audit_logs", "automation_logs", "inventory_batches", "sales", "mpesa_transactions",
    "payments", "sale_items">>

(* Faulty: the tables in the order of the models.                          *)
UpgradeOrderOfModels ==
  <<"businesses", "branches", "users", "products", "inventory_batches", "sales", "sale_items",
    "payments", "customers", "suppliers", "mpesa_transactions", "sync_logs", "audit_logs",
    "business_memory", "automation_rules", "automation_logs", "notifications", "prompts">>
UpgradeOrder == FirstTables \o LaterTables
DowngradeOrder == Reverse(FirstTables \o LaterTables)
AllTables == ToSet(FirstTables) \cup ToSet(LaterTables)

(* Foreign keys: a business owns all but three, and further ones.          *)
Owned == AllTables \ {"businesses", "payments", "sale_items"}
References(table) ==
  (IF table \in Owned THEN {"businesses"} ELSE {}) \cup
  CASE table = "audit_logs" -> {"users"}
    [] table = "automation_logs" -> {"automation_rules"}
    [] table = "inventory_batches" -> {"branches", "products"}
    [] table = "sales" -> {"branches", "customers", "users"}
    [] table \in {"mpesa_transactions", "payments"} -> {"sales"}
    [] table = "sale_items" -> {"products", "sales"}
    [] OTHER -> {}
----------------------------------------------------------------------------
MigrationsInit ==
  /\ release \in {"first", "this"}
  /\ container = "down"
  /\ tables = {} /\ receipts = FALSE /\ revision = "none"
  /\ alembic = NoCommand
  /\ commands = 0

Migrating == alembic.kind # "none"

(* A container starts: migrate.py, then init_db again.  create_all makes   *)
(* the tables that are missing, as its models have them, and alters none;  *)
(* beside a migration it waits for it, or fails and starts again.          *)
StartContainer ==
  /\ container = "down" /\ ~Migrating
  /\ container' = "serving"
  /\ tables' = AllTables
  /\ receipts' = IF "payments" \in tables THEN receipts ELSE release = "this"
  /\ UNCHANGED <<release, revision, alembic, commands>>

StopContainer ==
  /\ container = "serving"
  /\ container' = "down"
  /\ UNCHANGED <<release, tables, receipts, revision, alembic, commands>>

(* The new release is deployed.                                            *)
Release ==
  /\ release = "first" /\ container = "down" /\ ~Migrating
  /\ release' = "this"
  /\ UNCHANGED <<container, tables, receipts, revision, alembic, commands>>

(* alembic upgrade head, alembic downgrade base.                           *)
Command ==
  /\ ~Migrating /\ commands < MaxCommands
  /\ commands' = commands + 1
  /\ \/ /\ release = "this"
        /\ alembic' = [NoCommand EXCEPT !.failed = "NameError"]
     \/ /\ release = "first" /\ revision = "none"
        /\ alembic' = [NoCommand EXCEPT !.kind = "upgrade", !.left = UpgradeOrder, !.sees = tables]
     \/ /\ release = "first" /\ revision = "initial"
        /\ alembic' = [NoCommand EXCEPT !.kind = "downgrade", !.left = DowngradeOrder,
                                        !.sees = tables]
  /\ UNCHANGED <<release, container, tables, receipts, revision>>

Refused(table) == table \in alembic.sees \/ ~(References(table) \subseteq alembic.sees)

CreateTable ==
  /\ alembic.kind = "upgrade" /\ alembic.left # << >> /\ ~Refused(Head(alembic.left))
  /\ alembic' = [alembic EXCEPT !.left = Tail(@), !.sees = @ \cup {Head(alembic.left)}]
  /\ UNCHANGED <<release, container, tables, receipts, revision, commands>>

StillReferenced(table) == \E other \in alembic.sees : table \in References(other)

DropTable ==
  /\ alembic.kind = "downgrade" /\ alembic.left # << >>
  /\ ~StillReferenced(Head(alembic.left))
  /\ alembic' = [alembic EXCEPT !.left = Tail(@), !.sees = @ \ {Head(alembic.left)}]
  /\ UNCHANGED <<release, container, tables, receipts, revision, commands>>

(* Postgres refuses a statement: nothing has happened.                     *)
StatementFails ==
  /\ Migrating /\ alembic.left # << >>
  /\ LET table == Head(alembic.left) IN
     \/ /\ alembic.kind = "upgrade" /\ Refused(table)
        /\ alembic' = [NoCommand EXCEPT !.failed = IF table \in alembic.sees THEN "DuplicateTable"
                                                  ELSE "reference"]
     \/ /\ alembic.kind = "downgrade" /\ StillReferenced(table)
        /\ alembic' = [NoCommand EXCEPT !.failed = "reference"]
  /\ UNCHANGED <<release, container, tables, receipts, revision, commands>>

(* Faulty: what ran before stays (no transactional DDL).                   *)
CommandDiesHalfWay ==
  /\ Migrating
  /\ tables' = alembic.sees
  /\ alembic' = [NoCommand EXCEPT !.failed = "died"]
  /\ UNCHANGED <<release, container, receipts, revision, commands>>
CommandDies ==
  /\ Migrating
  /\ alembic' = [NoCommand EXCEPT !.failed = "died"]
  /\ UNCHANGED <<release, container, tables, receipts, revision, commands>>

(* The tables and alembic_version are committed together.  A downgrade     *)
(* drops payments, the column with it.                                     *)
CommitRevision ==
  /\ Migrating /\ alembic.left = << >>
  /\ tables' = alembic.sees
  /\ receipts' = FALSE
  /\ revision' = IF alembic.kind = "upgrade" THEN "initial" ELSE "none"
  /\ alembic' = NoCommand
  /\ UNCHANGED <<release, container, commands>>

MigrationsNext ==
  \/ StartContainer \/ StopContainer \/ Release \/ Command
  \/ CreateTable \/ DropTable \/ StatementFails \/ CommandDies \/ CommitRevision

MigrationsSpec == MigrationsInit /\ [][MigrationsNext]_migrationVars
----------------------------------------------------------------------------
MigrationsTypeOK ==
  /\ release \in {"first", "this"} /\ container \in {"down", "serving"}
  /\ tables \subseteq AllTables /\ receipts \in BOOLEAN /\ revision \in {"none", "initial"}
  /\ alembic.kind \in {"none", "upgrade", "downgrade"} /\ alembic.sees \subseteq AllTables
  /\ alembic.failed \in {"never", "NameError", "DuplicateTable", "reference", "died"}
  /\ commands \in 0..MaxCommands

(* The revision's statements come in an order Postgres accepts, both ways: *)
(* no foreign key names a table yet to be made, no table is dropped while  *)
(* another refers to it (2ac145176d01, upgrade and downgrade).             *)
NoStatementDangles == alembic.failed # "reference"

(* A revision is committed whole or not at all, whatever died or was       *)
(* refused half way, and where alembic_version names the first revision,   *)
(* its tables are there (env.py:39-42); not the other way round, as tables *)
(* of create_all have no version.  Only 2ac145176d01 ever runs.            *)
SchemasAreWhole ==
  /\ tables \in {{}, AllTables}
  /\ revision = "initial" \/ receipts => tables = AllTables

(* A revision can be applied and withdrawn, and does either or nothing     *)
(* (2ac145176d01, env.py:39-42).                                           *)
RevisionsAreSound == NoStatementDangles /\ SchemasAreWhole
=============================================================================
