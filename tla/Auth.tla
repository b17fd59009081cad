-------------------------------- MODULE Auth --------------------------------
(***************************************************************************)
(* Access tokens (auth.rs and the stores' token tables).  The store is the *)
(* authority; every instance checks requests against a copy of the list    *)
(* of active tokens that it reads again when it is TOKEN_CACHE_TTL old.    *)
(* The console of any instance creates and revokes tokens, and expires the *)
(* copy of that instance alone.                                            *)
(*                                                                         *)
(* managed_ok looks at the copy's age, awaits the list, and only then puts *)
(* it in place: other checks, and the console, may come in between.        *)
(*                                                                         *)
(* Left out: hashing and sealing of tokens, names and usage statistics,    *)
(* the static token (no state) and the pages.                              *)
(***************************************************************************)
EXTENDS Integers

CONSTANTS
  Tokens,       \* tokens the console may issue
  Instances,    \* processes on one store
  Requests,     \* bound: checks under way at the same time
  Backends,     \* stores to check, {"sql", "redis"} or one of them
  Ttl,          \* TOKEN_CACHE_TTL
  Latency,      \* the longest time a list takes
  MaxClock      \* bound: end of the clock

ASSUME AuthAssumption ==
  Ttl \in Nat \ {0} /\ Latency \in Nat /\ MaxClock \in Nat

VARIABLES
  backend,  \* the store
  clock,    \* the clock
  table,    \* auth_token: absent, active or revoked
  cache,    \* Auth::managed of each instance: a set and when it was put there
  session,  \* Auth::sessions: whether the administrator's session is valid
  admin,    \* where the console's handler is
  req,      \* checks under way
  since,    \* history: when each token last changed
  sure      \* history: instances whose console made the last change, and where no
            \* list read before it is still under way

authVars == <<backend, clock, table, cache, session, admin, req, since, sure>>

\* "Long ago", so that the next check reads the list.
Expired == -Ttl
NoRequest == [pc |-> "idle", inst |-> "none", token |-> "none", list |-> {}, todo |-> {},
              at |-> 0, failed |-> FALSE]

AuthTypeOK ==
  /\ backend \in Backends /\ clock \in 0 .. MaxClock
  /\ table \in [Tokens -> {"absent", "active", "revoked"}]
  /\ cache \in [Instances -> [set : SUBSET Tokens, at : -Ttl .. MaxClock]]
  /\ session \in [Instances -> BOOLEAN]
  /\ admin \in [Instances -> {"idle", "invalidate"}]
  /\ req \in [Requests -> [pc : {"idle", "list", "reading", "check"},
                           inst : Instances \cup {"none"}, token : Tokens \cup {"none"},
                           list : SUBSET Tokens, todo : SUBSET Tokens,
                           at : 0 .. MaxClock, failed : BOOLEAN]]
  /\ since \in [Tokens -> 0 .. MaxClock]
  /\ sure \in [Instances -> BOOLEAN]

AuthInit ==
  /\ backend \in Backends /\ clock = 0
  /\ table = [t \in Tokens |-> "absent"]
  /\ cache = [i \in Instances |-> [set |-> {}, at |-> Expired]]
  /\ session = [i \in Instances |-> FALSE]
  /\ admin = [i \in Instances |-> "idle"]
  /\ req = [r \in Requests |-> NoRequest]
  /\ since = [t \in Tokens |-> 0]
  /\ sure = [i \in Instances |-> TRUE]

-----------------------------------------------------------------------------
\* A list is answered within Latency, and from the list to the answer of the
\* check nothing is awaited.
ClockTicks ==
  /\ clock < MaxClock
  /\ \A r \in Requests : /\ req[r].pc # "check"
                         /\ req[r].pc # "idle" => clock - req[r].at < Latency
  /\ clock' = clock + 1
  /\ UNCHANGED <<backend, table, cache, session, admin, req, since, sure>>

-----------------------------------------------------------------------------
(***************************************************************************)
(* Checks.                                                                 *)
(***************************************************************************)
Goto(r, q) == req' = [req EXCEPT ![r] = q]

NeedRefresh(i) == clock - cache[i].at >= Ttl

\* guard, and managed_ok up to the decision whether to read the list.
Present(r, i, t) ==
  LET pc == IF NeedRefresh(i) THEN "list" ELSE "check"
  IN /\ req[r].pc = "idle"
     /\ Goto(r, [NoRequest EXCEPT !.pc = pc, !.inst = i, !.token = t,
                                  !.at = IF pc = "list" THEN clock ELSE 0])
     /\ UNCHANGED <<backend, clock, table, cache, session, admin, since, sure>>

ActiveTokens == {t \in Tokens : table[t] = "active"}

\* active_token_hashes: one query on SQL ...
ListSql(r) ==
  /\ backend = "sql" /\ req[r].pc = "list"
  /\ Goto(r, [req[r] EXCEPT !.pc = "reading", !.list = ActiveTokens])
  /\ UNCHANGED <<backend, clock, table, cache, session, admin, since, sure>>

\* ... on Redis the index, then token by token.
SMembers(r) ==
  /\ backend = "redis" /\ req[r].pc = "list"
  /\ Goto(r, [req[r] EXCEPT !.pc = "reading", !.todo = {t \in Tokens : table[t] # "absent"}])
  /\ UNCHANGED <<backend, clock, table, cache, session, admin, since, sure>>

HGetAll(r, t) ==
  /\ req[r].pc = "reading" /\ t \in req[r].todo
  /\ Goto(r, [req[r] EXCEPT !.todo = @ \ {t}, !.list = @ \cup ({t} \cap ActiveTokens)])
  /\ UNCHANGED <<backend, clock, table, cache, session, admin, since, sure>>

\* The list is here: it takes the copy's place, whatever happened meanwhile.
StoreList(r) ==
  /\ req[r].pc = "reading" /\ req[r].todo = {}
  /\ cache' = [cache EXCEPT ![req[r].inst] = [set |-> req[r].list, at |-> clock]]
  /\ Goto(r, [req[r] EXCEPT !.pc = "check", !.list = {}, !.at = 0])
  /\ UNCHANGED <<backend, clock, table, session, admin, since, sure>>

\* Mutant of ListFails: so as not to ask again at once, the old copy is given
\* another term.
ListFailsRenews(r) ==
  /\ req[r].pc \in {"list", "reading"}
  /\ cache' = [cache EXCEPT ![req[r].inst].at = clock]
  /\ Goto(r, [req[r] EXCEPT !.pc = "check", !.list = {}, !.todo = {}, !.at = 0, !.failed = TRUE])
  /\ UNCHANGED <<backend, clock, table, session, admin, since, sure>>

\* The store fails: this check makes do with the old copy, the next asks again.
ListFails(r) ==
  /\ req[r].pc \in {"list", "reading"}
  /\ Goto(r, [req[r] EXCEPT !.pc = "check", !.list = {}, !.todo = {}, !.at = 0, !.failed = TRUE])
  /\ UNCHANGED <<backend, clock, table, cache, session, admin, since, sure>>

Hit(r) == req[r].token \in cache[req[r].inst].set

\* The request goes on or is refused.
Answer(r) ==
  /\ req[r].pc = "check"
  /\ Goto(r, NoRequest)
  /\ UNCHANGED <<backend, clock, table, cache, session, admin, since, sure>>

-----------------------------------------------------------------------------
(***************************************************************************)
(* The console.  Tokens are managed under a session, never with a token.   *)
(***************************************************************************)
Login(i) ==
  /\ ~session[i]
  /\ session' = [session EXCEPT ![i] = TRUE]
  /\ UNCHANGED <<backend, clock, table, cache, admin, req, since, sure>>

\* logout, or SESSION_TTL is over.
Logout(i) ==
  /\ session[i]
  /\ session' = [session EXCEPT ![i] = FALSE]
  /\ UNCHANGED <<backend, clock, table, cache, admin, req, since, sure>>

\* The store's row changes; nobody can be sure of it yet.
Changes(i, t, to) ==
  /\ admin[i] = "idle" /\ session[i]
  /\ admin' = [admin EXCEPT ![i] = "invalidate"]
  /\ table' = [table EXCEPT ![t] = to]
  /\ since' = IF table[t] = to THEN since ELSE [since EXCEPT ![t] = clock]
  /\ sure' = [j \in Instances |-> FALSE]
  /\ UNCHANGED <<backend, clock, cache, session, req>>

TokensCreate(i, t) == table[t] = "absent" /\ Changes(i, t, "active")

\* Revoking what is revoked already does nothing, and expires the copy.
TokensRevoke(i, t) == table[t] # "absent" /\ Changes(i, t, "revoked")

\* Mutant of InvalidateCache: the copy is left to grow old.
InvalidateCacheNot(i) ==
  /\ admin[i] = "invalidate"
  /\ admin' = [admin EXCEPT ![i] = "idle"]
  /\ sure' = [sure EXCEPT ![i] = \A r \in Requests :
                req[r].inst = i => req[r].pc \in {"idle", "list"}]
  /\ UNCHANGED <<backend, clock, table, cache, session, req, since>>

\* The change is written: the copy here is expired.
InvalidateCache(i) ==
  /\ admin[i] = "invalidate"
  /\ admin' = [admin EXCEPT ![i] = "idle"]
  /\ cache' = [cache EXCEPT ![i].at = Expired]
  /\ sure' = [sure EXCEPT ![i] = \A r \in Requests :
                req[r].inst = i => req[r].pc \in {"idle", "list"}]
  /\ UNCHANGED <<backend, clock, table, session, req, since>>

\* The store wrote the change and its answer is lost: the handler reports the
\* error and leaves the copy alone.
ChangeFails(i) ==
  /\ admin[i] = "invalidate"
  /\ admin' = [admin EXCEPT ![i] = "idle"]
  /\ UNCHANGED <<backend, clock, table, cache, session, req, since, sure>>

\* An instance dies and comes back with nothing in memory.
Restart(i) ==
  /\ cache' = [cache EXCEPT ![i] = [set |-> {}, at |-> Expired]]
  /\ session' = [session EXCEPT ![i] = FALSE]
  /\ admin' = [admin EXCEPT ![i] = "idle"]
  /\ req' = [r \in Requests |-> IF req[r].inst = i THEN NoRequest ELSE req[r]]
  /\ UNCHANGED <<backend, clock, table, since, sure>>

AuthNext ==
  \/ ClockTicks
  \/ \E r \in Requests :
       \/ \E i \in Instances, t \in Tokens : Present(r, i, t)
       \/ \E t \in Tokens : HGetAll(r, t)
       \/ ListSql(r) \/ SMembers(r) \/ StoreList(r) \/ ListFails(r) \/ Answer(r)
  \/ \E i \in Instances :
       \/ Login(i) \/ Logout(i) \/ InvalidateCache(i) \/ ChangeFails(i)
       \/ Restart(i)
       \/ \E t \in Tokens : TokensCreate(i, t) \/ TokensRevoke(i, t)

AuthSpec == AuthInit /\ [][AuthNext]_authVars

-----------------------------------------------------------------------------
(***************************************************************************)
(* Properties.                                                             *)
(***************************************************************************)
Right(r) == Hit(r) <=> table[req[r].token] = "active"

\* Issuing or revoking a token is in force at every instance once
\* TOKEN_CACHE_TTL and the time of one list have gone by, whichever lists
\* overtook each other: managed_ok never answers from an older one unless the
\* store failed it.
InForce ==
  \A r \in Requests :
    req[r].pc = "check" /\ ~req[r].failed /\ clock - since[req[r].token] >= Ttl + Latency
      => Right(r)

\* At the instance whose console made the last change it is in force as soon as
\* invalidate_cache is done, unless a list read before the change was still under
\* way there.
AtOnce ==
  \A r \in Requests :
    req[r].pc = "check" /\ ~req[r].failed /\ sure[req[r].inst] => Right(r)

=============================================================================
