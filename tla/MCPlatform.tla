---- MODULE MCPlatform ----
(* Small instances of what the program stands on: the connection pool, the *)
(* migrations of the database, the model gateway.  They share no state: a  *)
(* behaviour is one of the part it began with.                             *)
EXTENDS ConnectionPool, Migrations, ModelGateway

VARIABLE part

CONSTANTS v1, v2, v3

Init ==
  /\ part \in {"pool", "migrations", "gateway"}
  /\ PoolInit /\ MigrationsInit /\ GatewayInit
  /\ part # "migrations" => release = "this"
  /\ part # "gateway" => call.wants = "text"

Next ==
  /\ UNCHANGED part
  /\ \/ part = "pool" /\ PoolNext /\ UNCHANGED <<migrationVars, gatewayVars>>
     \/ part = "migrations" /\ MigrationsNext /\ UNCHANGED <<poolVars, gatewayVars>>
     \/ part = "gateway" /\ GatewayNext /\ UNCHANGED <<poolVars, migrationVars>>

(* Only the pool promises progress; the other parts never enable its steps.*)
Spec ==
  /\ Init
  /\ [][Next]_<<part, poolVars, migrationVars, gatewayVars>>
  /\ PoolFairness

(* Every variable of every part holds a value of its kind.                 *)
PlatformTypeOK == PoolTypeOK /\ MigrationsTypeOK /\ GatewayTypeOK
====
