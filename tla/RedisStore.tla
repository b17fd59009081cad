----------------------------- MODULE RedisStore -----------------------------
(***************************************************************************)
(* RedisStore: trans_global as a hash per transaction (g:gid), with an     *)
(* index of what is to be driven (idx, a sorted set by due time) that      *)
(* every script has to keep in step, and keys that expire once the         *)
(* transaction is over.  Each script or MULTI is one step.                 *)
(*                                                                         *)
(* It is used as the API and the drivers use it.  Everything is said in    *)
(* terms of the same clients as in Store, which this module implements.    *)
(***************************************************************************)
EXTENDS Core, FiniteSets

CONSTANTS Gids, TypeOf, Workers, LeaseSecs, BackOff, MaxNow,
  FinalTtl,     \* final_ttl
  ScanLimit     \* SCAN_LIMIT: how many candidates a lock looks at

ASSUME RedisStoreAssumption ==
  /\ TypeOf \in [Gids -> {"saga", "tcc", "msg"}]
  /\ LeaseSecs \in Nat \ {0} /\ BackOff \in Nat \ {0} /\ MaxNow \in Nat
  /\ FinalTtl \in Nat /\ ScanLimit \in Nat \ {0}

VARIABLES
  now,
  hash,      \* g:gid: status, next_cron_time, lease_until
  branch,    \* b:gid: "none", "kept", or "expiring"
  ttl,       \* when g:gid expires, 0 for never
  index,     \* idx: [a set of gids -> score]
  recent,    \* all: gids of list_recent
  copy,      \* each worker's row
  register   \* register_branch that has passed its check

NoRow == [status |-> "absent", nct |-> 0, lease |-> 0]
NoCopy == [gid |-> "none", status |-> "absent", lease |-> 0]
Row == [status : GlobalStatus \cup {"absent"}, nct : Nat, lease : Nat]

redis == <<hash, branch, ttl, index, recent>>
vars == <<now, hash, branch, ttl, index, recent, copy, register>>

TypeOK ==
  /\ now \in Nat
  /\ hash \in [Gids -> Row]
  /\ branch \in [Gids -> {"none", "kept", "expiring"}]
  /\ ttl \in [Gids -> Nat]
  /\ DOMAIN index \subseteq Gids /\ \A g \in DOMAIN index : index[g] \in Nat
  /\ recent \subseteq Gids
  /\ copy \in [Workers -> {NoCopy} \cup [gid : Gids, status : {"prepared", "submitted", "aborting"},
                                        lease : Nat]]
  /\ register \subseteq Gids

Init ==
  /\ now = 1
  /\ hash = [g \in Gids |-> NoRow]
  /\ branch = [g \in Gids |-> "none"]
  /\ ttl = [g \in Gids |-> 0]
  /\ index = <<>>
  /\ recent = {}
  /\ copy = [w \in Workers |-> NoCopy]
  /\ register = {}

-----------------------------------------------------------------------------
(***************************************************************************)
(* Redis.                                                                  *)
(***************************************************************************)
ZAdd(g, score) == index' = [x \in DOMAIN index \cup {g} |-> IF x = g THEN score ELSE index[x]]
ZRem(S) == index' = [x \in DOMAIN index \ S |-> index[x]]
HSet(g, r) == hash' = [hash EXCEPT ![g] = r]
Exists(g) == hash[g] # NoRow

Tick ==
  /\ now < MaxNow
  /\ now' = now + 1
  /\ UNCHANGED <<redis, copy, register>>

\* Keys whose time has come are gone: by then nobody drives them any more, as a
\* week is longer than any round.
Expire(g) ==
  /\ ttl[g] # 0 /\ ttl[g] <= now
  /\ \A w \in Workers : copy[w].gid # g
  /\ HSet(g, NoRow)
  /\ ttl' = [ttl EXCEPT ![g] = 0]
  /\ branch' = [branch EXCEPT ![g] = IF @ = "expiring" THEN "none" ELSE @]
  /\ UNCHANGED <<now, index, recent, copy, register>>

-----------------------------------------------------------------------------
(***************************************************************************)
(* The API's calls.                                                        *)
(***************************************************************************)
Takes(w, g, s, lease) ==
  copy' = [copy EXCEPT ![w] = [gid |-> g, status |-> s, lease |-> lease]]

\* create_global: hash, branches, index and recents in one script, unless the
\* transaction exists.  The recents are cut to their length (here: all but one).
CreateGlobal(g, s, nct, lease) ==
  /\ ~Exists(g)
  /\ HSet(g, [status |-> s, nct |-> nct, lease |-> lease])
  /\ branch' = [branch EXCEPT ![g] = IF TypeOf[g] = "tcc" THEN @ ELSE "kept"]
  /\ IF Schedulable(s, TypeOf[g]) THEN ZAdd(g, nct) ELSE UNCHANGED index
  /\ recent' = {g} \cup (IF Cardinality(recent) + 1 >= Cardinality(Gids) THEN {} ELSE recent)
  /\ UNCHANGED ttl

Create(g) ==
  LET s == IF TypeOf[g] = "saga" THEN "submitted" ELSE "prepared"
  IN /\ \/ /\ \E d \in {0, BackOff} : CreateGlobal(g, s, now + d, 0)
           /\ UNCHANGED copy
        \/ /\ s = "submitted"
           /\ CreateGlobal(g, s, now + LeaseSecs, now + LeaseSecs)
           /\ \E w \in Workers : copy[w] = NoCopy /\ Takes(w, g, s, now + LeaseSecs)
     /\ UNCHANGED <<now, register>>

\* submit_prepared.
Submit(g) ==
  /\ hash[g].status = "prepared"
  /\ \E lease \in {0, now + LeaseSecs} :
       LET nct == IF lease = 0 THEN now ELSE lease
       IN /\ HSet(g, [status |-> "submitted", nct |-> nct, lease |-> lease])
          /\ IF Schedulable("submitted", TypeOf[g]) THEN ZAdd(g, nct) ELSE UNCHANGED index
          /\ \/ lease = 0 /\ UNCHANGED copy
             \/ lease # 0 /\ \E w \in Workers :
                  copy[w] = NoCopy /\ Takes(w, g, "submitted", lease)
  /\ UNCHANGED <<now, branch, ttl, recent, register>>

\* Mutant of ScheduleNow: like a retry it moves only what the index has.
ScheduleNowKnown(g) ==
  /\ Exists(g)
  /\ HSet(g, [hash[g] EXCEPT !.nct = now])
  /\ UNCHANGED index
  /\ UNCHANGED <<now, branch, ttl, recent, copy, register>>

ScheduleNow(g) ==
  /\ Exists(g)
  /\ HSet(g, [hash[g] EXCEPT !.nct = now])
  /\ IF Schedulable(hash[g].status, TypeOf[g]) THEN ZAdd(g, now) ELSE UNCHANGED index
  /\ UNCHANGED <<now, branch, ttl, recent, copy, register>>

\* register_branch of a TCC: the API looks at the status, then HSETNX.
RegisterRead(g) ==
  /\ TypeOf[g] = "tcc" /\ hash[g].status \in {"prepared", "submitted"}
  /\ register' = register \cup {g}
  /\ UNCHANGED <<now, redis, copy>>

RegisterWrite(g) ==
  /\ g \in register
  /\ branch' = [branch EXCEPT ![g] = IF @ = "none" THEN "kept" ELSE @]
  /\ register' = register \ {g}
  /\ UNCHANGED <<now, hash, ttl, index, recent, copy>>

-----------------------------------------------------------------------------
(***************************************************************************)
(* Changes of status.                                                      *)
(***************************************************************************)

\* Mutant of ExpireKeys: the branches are forgotten.
ExpireHash(g) ==
  /\ ttl' = [ttl EXCEPT ![g] = IF FinalTtl > 0 THEN now + FinalTtl ELSE @]
  /\ UNCHANGED branch

\* The keys of a transaction that is over expire: EXPIRE does nothing for a
\* key that is not there.
ExpireKeys(g) ==
  /\ ttl' = [ttl EXCEPT ![g] = IF FinalTtl > 0 THEN now + FinalTtl ELSE @]
  /\ branch' = [branch EXCEPT ![g] = IF FinalTtl > 0 /\ @ = "kept" THEN "expiring" ELSE @]

\* set_global_status, without a comparison: off the index, or back on it with
\* the due time it has.
SetGlobalStatus(g, to) ==
  /\ HSet(g, [hash[g] EXCEPT !.status = to])
  /\ IF Schedulable(to, TypeOf[g]) THEN ZAdd(g, hash[g].nct) ELSE ZRem({g})
  /\ IF IsFinal(to) THEN ExpireKeys(g) ELSE UNCHANGED <<ttl, branch>>

\* transition compares where somebody else may write, else it just writes.
Writes(g, from) == hash[g].status = from \/ ~StatusContested(from, TypeOf[g])

\* Api::abort.
Abort(g) ==
  /\ Exists(g)
  /\ LET from == IF TypeOf[g] = "saga" THEN "submitted" ELSE "prepared"
     IN hash[g].status = from /\ SetGlobalStatus(g, "aborting")
  /\ UNCHANGED <<now, recent, copy, register>>

\* What a drive may write.
Targets(s, tt) ==
  CASE s = "prepared" -> IF tt = "tcc" THEN {"aborting"} ELSE {"submitted", "failed"}
    [] s = "submitted" -> IF tt = "saga" THEN {"succeed", "aborting"} ELSE {"succeed"}
    [] s = "aborting" -> {"failed"}

Drops(w) == copy' = [copy EXCEPT ![w] = NoCopy]

\* Driver::transition where the write takes place.
Transition(w) ==
  LET g == copy[w].gid
  IN /\ copy[w] # NoCopy
     /\ Writes(g, copy[w].status)
     /\ \E to \in Targets(copy[w].status, TypeOf[g]) :
          /\ SetGlobalStatus(g, to)
          /\ IF IsFinal(to) THEN Drops(w) ELSE copy' = [copy EXCEPT ![w].status = to]
     /\ UNCHANGED <<now, recent, register>>

-----------------------------------------------------------------------------
(***************************************************************************)
(* Locks and leases.                                                       *)
(***************************************************************************)

\* lock_one_due looks at the first few members of the index that are due, skips
\* those under lease, removes those that should not be there, and takes the
\* first that is left.
Due == {g \in DOMAIN index : index[g] <= now}
Stale(g) == ~Exists(g) \/ ~Schedulable(hash[g].status, TypeOf[g])
Candidates == {C \in SUBSET Due :
                 /\ Cardinality(C) = (IF Cardinality(Due) < ScanLimit
                                      THEN Cardinality(Due) ELSE ScanLimit)
                 /\ \A g \in C, x \in Due \ C : index[g] <= index[x]}

\* Mutant of Free: as long as only the due time counted.
FreeWhenDue(g) == ~Stale(g)

Free(g) == ~Stale(g) /\ hash[g].lease <= now

Lock(w) ==
  /\ copy[w] = NoCopy
  /\ \E C \in Candidates : \E g \in C :
       /\ Free(g)
       /\ \A x \in C : Free(x) => index[g] <= index[x]
       /\ HSet(g, [hash[g] EXCEPT !.nct = now + LeaseSecs, !.lease = now + LeaseSecs])
       /\ LET healed == {x \in C : Stale(x) /\ index[x] <= index[g]}
          IN index' = [x \in DOMAIN index \ healed |->
                         IF x = g THEN now + LeaseSecs ELSE index[x]]
       /\ Takes(w, g, hash[g].status, now + LeaseSecs)
  /\ UNCHANGED <<now, branch, ttl, recent, register>>

\* release_lease, after a round (back-off) or a lost comparison (at once).
Release(w) ==
  LET g == copy[w].gid
      early == hash[g].nct < hash[g].lease
  IN /\ copy[w] # NoCopy
     /\ \E d \in IF Writes(g, copy[w].status) THEN {BackOff} ELSE {0} :
          LET nct == IF early THEN hash[g].nct ELSE now + d
          IN IF hash[g].lease = copy[w].lease
             THEN /\ HSet(g, [hash[g] EXCEPT !.nct = nct, !.lease = 0])
                  /\ IF g \in DOMAIN index THEN ZAdd(g, nct) ELSE UNCHANGED index
             ELSE UNCHANGED <<hash, index>>
     /\ Drops(w)
     /\ UNCHANGED <<now, branch, ttl, recent, register>>

Die(w) ==
  /\ copy[w] # NoCopy
  /\ Drops(w)
  /\ UNCHANGED <<now, redis, register>>

-----------------------------------------------------------------------------
Next ==
  \/ Tick
  \/ \E g \in Gids :
       \/ Create(g) \/ Submit(g) \/ Abort(g) \/ ScheduleNow(g) \/ Expire(g)
       \/ RegisterRead(g) \/ RegisterWrite(g)
  \/ \E w \in Workers : Lock(w) \/ Transition(w) \/ Release(w) \/ Die(w)

Spec == Init /\ [][Next]_vars

-----------------------------------------------------------------------------
(***************************************************************************)
(* Properties.                                                             *)
(***************************************************************************)

\* The index holds exactly what is to be driven, by the due time in the hash:
\* what drops out of it nobody would ever drive again, and what stays in it is
\* taken for nothing.  No script may leave the two apart, whoever calls it.
IndexExact ==
  /\ DOMAIN index = {g \in Gids : Schedulable(hash[g].status, TypeOf[g])}
  /\ \A g \in DOMAIN index : index[g] = hash[g].nct

\* What is over goes away, so that memory does not fill up: both keys have a
\* time limit, and while something is under way neither has one.
Reclaimed ==
  FinalTtl > 0 => \A g \in Gids :
    /\ ttl[g] # 0 <=> IsFinal(hash[g].status)
    /\ branch[g] = "expiring" => ttl[g] # 0
    /\ branch[g] = "kept" /\ TypeOf[g] # "tcc" => Exists(g) /\ ttl[g] = 0

\* To its clients Redis is the store the SQL back ends are: the same rows can
\* be taken at the same time, the same writes win, whether it compares or not.
Abstract == INSTANCE Store WITH rows <- hash
Implements == Abstract!Spec

=============================================================================
