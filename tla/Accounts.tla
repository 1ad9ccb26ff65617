------------------------------ MODULE Accounts ------------------------------
(***************************************************************************)
(* Registration, login, one-time codes and the rotation of refresh tokens: *)
(* app/api/auth/routes.py, app/core/token_store.py, app/core/security.py.  *)
(*                                                                         *)
(* register looks the phone up and inserts later, answers with tokens and  *)
(* commits after the answer.  refresh asks the store of revocations,       *)
(* awaits the user's row, and only then revokes the token it was given.    *)
(* Time runs in half seconds; the expiry of a token is in whole ones.      *)
(***************************************************************************)
EXTENDS Integers, FiniteSets

CONSTANTS
  Calls,        \* calls of the auth router, each handled once
  Phones,
  Lifetime,     \* REFRESH_TOKEN_EXPIRE_DAYS, in seconds
  LastMoment,   \* bound of the clock
  MaxRestarts

NoOne == "none"
Redis == "redis"

ASSUME AccountAssumption ==
  /\ Lifetime \in Nat \ {0} /\ LastMoment \in Nat /\ MaxRestarts \in Nat
  /\ NoOne \notin Calls /\ Redis \notin Calls

VARIABLES
  now, restarts,
  call,       \* op, phone, progress, token given and store used, per call
  accounts,   \* the call whose registration of a phone was committed
  codes,      \* _sms_codes: the call that issued the pending code of a phone
  store,      \* _store: none, Redis, or the call that built a memory store
  revocations,\* per store and token: when the revocation ends, 0 for none
  issued,     \* per call: the second its refresh token expires, 0 for none
  meanwhile,  \* history: the calls that ended while this one was open
  forgotten   \* history: revoked tokens, unknown to a store used since

accountVars ==
  <<now, restarts, call, accounts, codes, store, revocations, issued, meanwhile, forgotten>>

NewCall == [at |-> "new", op |-> "none", phone |-> NoOne, token |-> NoOne, store |-> NoOne,
            late |-> FALSE]
Ended == {"done", "refused", "failed", "lost"}

AccountInit ==
  /\ now = 0 /\ restarts = 0
  /\ call = [q \in Calls |-> NewCall]
  /\ accounts = [p \in Phones |-> NoOne]
  /\ codes = [p \in Phones |-> NoOne]
  /\ store = NoOne
  /\ revocations = [s \in Calls \cup {Redis} |-> [t \in Calls |-> 0]]
  /\ issued = [q \in Calls |-> 0]
  /\ meanwhile = [q \in Calls |-> {}]
  /\ forgotten = {}
----------------------------------------------------------------------------
(* A call moves on; one that ends is remembered by those still open.       *)
Advance(q, changed) ==
  /\ call' = [call EXCEPT ![q] = changed]
  /\ meanwhile' = IF changed.at \notin Ended THEN meanwhile
               ELSE [p \in Calls |-> IF p = q \/ call[p].at \in Ended \cup {"new"} THEN meanwhile[p]
                                     ELSE meanwhile[p] \cup {q}]

Moved(q, where) == [call[q] EXCEPT !.at = where]
BeginCall(q, op, p, where) ==
  [NewCall EXCEPT !.at = where, !.op = op, !.phone = p]

(* create_refresh_token: exp is truncated to a whole second.               *)
Expiry == now \div 2 + Lifetime
(* decode_token: a token is good until the second of its expiry is over.   *)
Accepted(t) == issued[t] # 0 /\ now \div 2 <= issued[t]

(* send_code and verify_code do not await: one step each.                  *)
SendCode(q, p) ==
  /\ call[q].at = "new"
  /\ codes' = [codes EXCEPT ![p] = q]
  /\ Advance(q, BeginCall(q, "send", p, "done"))
  /\ UNCHANGED <<now, restarts, accounts, store, revocations, issued, forgotten>>

(* Faulty: the code stays.                                                 *)
CodeKept(p) == codes
(* 37.                                                                     *)
CodeSpent(p) == [codes EXCEPT ![p] = NoOne]

VerifyCode(q, p, code) ==
  /\ call[q].at = "new"
  /\ IF codes[p] = code
     THEN /\ codes' = CodeSpent(p)
          /\ Advance(q, [BeginCall(q, "verify", p, "done") EXCEPT !.token = code])
     ELSE UNCHANGED codes /\ Advance(q, BeginCall(q, "verify", p, "refused"))
  /\ UNCHANGED <<now, restarts, accounts, store, revocations, issued, forgotten>>
----------------------------------------------------------------------------
(* register, 44-46.                                                        *)
Register(q, p) ==
  /\ call[q].at = "new"
  /\ Advance(q, BeginCall(q, "register", p, IF accounts[p] = NoOne THEN "insert" ELSE "refused"))
  /\ UNCHANGED <<now, restarts, accounts, codes, store, revocations, issued, forgotten>>

(* Faulty: the phone column is not unique.                                 *)
InsertDuplicate(q) ==
  /\ call[q].at = "insert"
  /\ issued' = [issued EXCEPT ![q] = Expiry]
  /\ Advance(q, Moved(q, "answered"))
  /\ UNCHANGED <<now, restarts, accounts, codes, store, revocations, forgotten>>
(* 49-67: business, branch and owner.  An uncommitted row of the same      *)
(* phone makes the insert wait, a committed one makes it fail.             *)
InsertAccount(q) ==
  /\ call[q].at = "insert"
  /\ \A r \in Calls : ~(call[r].at = "answered" /\ call[r].phone = call[q].phone)
  /\ IF accounts[call[q].phone] = NoOne
     THEN issued' = [issued EXCEPT ![q] = Expiry] /\ Advance(q, Moved(q, "answered"))
     ELSE UNCHANGED issued /\ Advance(q, Moved(q, "failed"))
  /\ UNCHANGED <<now, restarts, accounts, codes, store, revocations, forgotten>>

CommitAccount(q) ==
  /\ call[q].at = "answered"
  /\ accounts' = [accounts EXCEPT ![call[q].phone] = q]
  /\ Advance(q, Moved(q, "done"))
  /\ UNCHANGED <<now, restarts, codes, store, revocations, issued, forgotten>>

Login(q, p) ==
  /\ call[q].at = "new"
  /\ \/ /\ accounts[p] # NoOne
        /\ issued' = [issued EXCEPT ![q] = Expiry]
        /\ Advance(q, BeginCall(q, "login", p, "done"))
     \/ UNCHANGED issued /\ Advance(q, BeginCall(q, "login", p, "refused"))
  /\ UNCHANGED <<now, restarts, accounts, codes, store, revocations, forgotten>>
----------------------------------------------------------------------------
(* get_token_store: with no store yet the call pings Redis, or builds a    *)
(* memory store when there is no REDIS_URL or the ping fails.              *)
Refresh(q, t) ==
  /\ call[q].at = "new" /\ Accepted(t)
  /\ Advance(q, [BeginCall(q, "refresh", call[t].phone, IF store = NoOne THEN "ping" ELSE "check")
                EXCEPT !.token = t, !.store = store])
  /\ UNCHANGED <<now, restarts, accounts, codes, store, revocations, issued, forgotten>>

(* The store found is installed, whatever was installed meanwhile.         *)
Install(q) ==
  /\ call[q].at = "ping"
  /\ \E found \in {q, Redis} :
       /\ store' = found
       /\ call' = [call EXCEPT ![q].at = "check", ![q].store = found]
       /\ forgotten' = forgotten \cup
            {t \in Calls : revocations[found][t] = 0 /\ \E s \in Calls \cup {Redis} : revocations[s][t] # 0}
  /\ UNCHANGED <<now, restarts, accounts, codes, revocations, issued, meanwhile>>

(* is_revoked of either store: Redis forgets a key at the moment its time  *)
(* is up, the memory store after it.                                       *)
IsRevoked(s, t) ==
  IF s = Redis THEN now < revocations[s][t] ELSE revocations[s][t] # 0 /\ now <= revocations[s][t]

Check(q) ==
  /\ call[q].at = "check"
  /\ Advance(q, IF IsRevoked(call[q].store, call[q].token) THEN Moved(q, "refused")
             ELSE [Moved(q, "user") EXCEPT !.late = now > 2 * issued[call[q].token] - 2])
  /\ UNCHANGED <<now, restarts, accounts, codes, store, revocations, issued, forgotten>>

(* Faulty: the revocation lasts a second.                                  *)
TtlShort(t) == 1
(* 125: the seconds left, truncated, at least one.                         *)
Ttl(t) == LET left == (2 * issued[t] - now) \div 2 IN IF left < 1 THEN 1 ELSE left

(* 116-119: the user whose id the token carries.                           *)
Known(t) == accounts[call[t].phone] # NoOne

(* 121-129.  A token belongs to the phone of the call that issued it.      *)
Rotate(q) ==
  LET t == call[q].token IN
  /\ call[q].at = "user"
  /\ IF Known(t)
     THEN /\ revocations' = [revocations EXCEPT ![call[q].store][t] = now + 2 * Ttl(t)]
          /\ issued' = [issued EXCEPT ![q] = Expiry]
          /\ forgotten' = IF call[q].store = store THEN forgotten ELSE forgotten \cup {t}
          /\ Advance(q, Moved(q, "done"))
     ELSE UNCHANGED <<revocations, issued, forgotten>> /\ Advance(q, Moved(q, "refused"))
  /\ UNCHANGED <<now, restarts, accounts, codes, store>>

(* Redis does not answer: the call fails, its last command done or not.    *)
StoreError(q) ==
  /\ call[q].at \in {"check", "user"} /\ call[q].store = Redis
  /\ \/ call[q].at = "user" /\ Known(call[q].token)
        /\ revocations' = [revocations EXCEPT ![Redis][call[q].token] = now + 2 * Ttl(call[q].token)]
     \/ UNCHANGED revocations
  /\ Advance(q, Moved(q, "failed"))
  /\ UNCHANGED <<now, restarts, accounts, codes, store, issued, forgotten>>
----------------------------------------------------------------------------
Tick ==
  /\ now < LastMoment
  /\ now' = now + 1
  /\ UNCHANGED <<restarts, call, accounts, codes, store, revocations, issued, meanwhile, forgotten>>

(* A restart: open calls are gone, and all that was in memory.             *)
Restart ==
  /\ restarts < MaxRestarts
  /\ restarts' = restarts + 1
  /\ call' = [q \in Calls |-> IF call[q].at \in Ended \cup {"new"} THEN call[q] ELSE Moved(q, "lost")]
  /\ codes' = [p \in Phones |-> NoOne]
  /\ store' = NoOne
  /\ UNCHANGED <<now, accounts, revocations, issued, meanwhile, forgotten>>

AccountNext ==
  \/ Tick \/ Restart
  \/ \E q \in Calls :
       \/ \E p \in Phones :
            \/ SendCode(q, p) \/ Register(q, p) \/ Login(q, p)
            \/ \E code \in Calls : VerifyCode(q, p, code)
       \/ \E t \in Calls : Refresh(q, t)
       \/ InsertAccount(q) \/ CommitAccount(q) \/ Install(q) \/ Check(q) \/ Rotate(q)
       \/ StoreError(q)

AccountSpec == AccountInit /\ [][AccountNext]_accountVars
----------------------------------------------------------------------------
AccountTypeOK ==
  /\ now \in 0..LastMoment /\ restarts \in 0..MaxRestarts
  /\ accounts \in [Phones -> Calls \cup {NoOne}] /\ codes \in [Phones -> Calls \cup {NoOne}]
  /\ store \in Calls \cup {NoOne, Redis} /\ issued \in [Calls -> Nat]
  /\ meanwhile \in [Calls -> SUBSET Calls] /\ forgotten \subseteq Calls
  /\ \A q \in Calls : call[q].store \in Calls \cup {NoOne, Redis}

Succeeded(q, op) == call[q].at = "done" /\ call[q].op = op
Overlapped(p, q) == p \in meanwhile[q] \/ q \in meanwhile[p]

(* Two registrations of a phone may both find it free; only one is ever    *)
(* committed (auth/routes.py:44-67, the unique phone), and every token of  *)
(* a registration that was neither lost nor is still open has its account. *)
OneAccountPerPhone ==
  \A q \in Calls : Succeeded(q, "register") => accounts[call[q].phone] = q

(* A code opens once (auth/routes.py:32-38).                               *)
CodesAreSpent ==
  \A p, q \in Calls :
    Succeeded(p, "verify") /\ Succeeded(q, "verify") /\ p # q => call[p].token # call[q].token

(* "A replayed (rotated) refresh token is rejected" (token_store.py:9-11)  *)
(* as far as it is true: one token is rotated by two calls only if they    *)
(* overlapped between check and revocation, if the revocation was lost     *)
(* with its store, or in the last second of the token's life.              *)
TokensRotateOnce ==
  \A p, q \in Calls :
    /\ Succeeded(p, "refresh") /\ Succeeded(q, "refresh") /\ p # q /\ call[p].token = call[q].token
    => \/ Overlapped(p, q) \/ call[p].token \in forgotten
       \/ call[p].late \/ call[q].late

(* What is meant to work once works once (auth/routes.py:32-38, 102-131):  *)
(* codes always, refresh tokens with the exceptions above.                 *)
CredentialsWorkOnce == CodesAreSpent /\ TokensRotateOnce
=============================================================================
