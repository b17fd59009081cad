-------------------------------- MODULE Store --------------------------------
(***************************************************************************)
(* What a store promises its clients about trans_global, whichever back    *)
(* end it runs on: one row per transaction, taken by due time and lease,   *)
(* its status changed only by whoever still sees the status it believes    *)
(* in.  RedisStore is shown to implement this.                             *)
(*                                                                         *)
(* A worker's copy of a row is what lock_one_due or submit_prepared gave   *)
(* it; the lease in it is the token with which it gives the row back.      *)
(***************************************************************************)
EXTENDS Core

CONSTANTS
  Gids,         \* transactions
  TypeOf,       \* [Gids -> {"saga", "tcc", "msg"}]
  Workers,
  LeaseSecs,    \* length of a lease
  BackOff,      \* delay of a retry
  MaxNow        \* the clock stops here

VARIABLES now, rows, copy

vars == <<now, rows, copy>>

NoRow == [status |-> "absent", nct |-> 0, lease |-> 0]
NoCopy == [gid |-> "none", status |-> "absent", lease |-> 0]

Init ==
  /\ now = 1
  /\ rows = [g \in Gids |-> NoRow]
  /\ copy = [w \in Workers |-> NoCopy]

Tick ==
  /\ now < MaxNow
  /\ now' = now + 1
  /\ UNCHANGED <<rows, copy>>

Write(g, r) == rows' = [rows EXCEPT ![g] = r]
Takes(w, g, s, lease) ==
  copy' = [copy EXCEPT ![w] = [gid |-> g, status |-> s, lease |-> lease]]
Drops(w) == copy' = [copy EXCEPT ![w] = NoCopy]

\* A transaction is created once, due at once or later, or under a lease.
Create(g) ==
  /\ rows[g] = NoRow
  /\ LET s == IF TypeOf[g] = "saga" THEN "submitted" ELSE "prepared"
     IN \/ \E d \in {0, BackOff} : Write(g, [status |-> s, nct |-> now + d, lease |-> 0])
           /\ UNCHANGED copy
        \/ \E w \in Workers :
             /\ copy[w] = NoCopy /\ s = "submitted"
             /\ Write(g, [status |-> s, nct |-> now + LeaseSecs, lease |-> now + LeaseSecs])
             /\ Takes(w, g, s, now + LeaseSecs)
  /\ UNCHANGED now

\* What is prepared is submitted, as it comes or under a lease.
Submit(g) ==
  /\ rows[g].status = "prepared"
  /\ \/ Write(g, [status |-> "submitted", nct |-> now, lease |-> 0]) /\ UNCHANGED copy
     \/ \E w \in Workers :
          /\ copy[w] = NoCopy
          /\ Write(g, [status |-> "submitted", nct |-> now + LeaseSecs,
                       lease |-> now + LeaseSecs])
          /\ Takes(w, g, "submitted", now + LeaseSecs)
  /\ UNCHANGED now

Abort(g) ==
  /\ rows[g].status \in IF TypeOf[g] = "saga" THEN {"submitted"} ELSE {"prepared"}
  /\ Write(g, [rows[g] EXCEPT !.status = "aborting"])
  /\ UNCHANGED <<now, copy>>

ScheduleNow(g) ==
  /\ rows[g] # NoRow
  /\ Write(g, [rows[g] EXCEPT !.nct = now])
  /\ UNCHANGED <<now, copy>>

\* Some row that is to be driven, due and free.
Lock(w) ==
  /\ copy[w] = NoCopy
  /\ \E g \in Gids :
       /\ Schedulable(rows[g].status, TypeOf[g])
       /\ rows[g].nct <= now /\ rows[g].lease <= now
       /\ Write(g, [rows[g] EXCEPT !.nct = now + LeaseSecs, !.lease = now + LeaseSecs])
       /\ Takes(w, g, rows[g].status, now + LeaseSecs)
  /\ UNCHANGED now

\* Only a row that still has the status the worker believes in changes.
Transition(w, to) ==
  LET g == copy[w].gid
  IN /\ copy[w] # NoCopy
     /\ rows[g].status = copy[w].status
     /\ Write(g, [rows[g] EXCEPT !.status = to])
     /\ IF IsFinal(to) THEN Drops(w)
        ELSE copy' = [copy EXCEPT ![w].status = to]
     /\ UNCHANGED now

\* Only the lease that was taken is given back; an earlier due time stays.
Release(w) ==
  LET g == copy[w].gid
  IN /\ copy[w] # NoCopy
     /\ \/ rows[g].lease # copy[w].lease /\ UNCHANGED rows
        \/ /\ rows[g].lease = copy[w].lease
           /\ \E d \in {0, BackOff} :
                Write(g, [rows[g] EXCEPT !.lease = 0,
                            !.nct = IF @ < rows[g].lease THEN @ ELSE now + d])
     /\ Drops(w)
     /\ UNCHANGED now

Die(w) == copy[w] # NoCopy /\ Drops(w) /\ UNCHANGED <<now, rows>>

\* A store may forget what is over.
Forget(g) ==
  /\ IsFinal(rows[g].status)
  /\ Write(g, NoRow)
  /\ UNCHANGED <<now, copy>>

Next ==
  \/ Tick
  \/ \E g \in Gids : Create(g) \/ Submit(g) \/ Abort(g) \/ ScheduleNow(g) \/ Forget(g)
  \/ \E w \in Workers :
       Lock(w) \/ Release(w) \/ Die(w) \/ \E to \in GlobalStatus : Transition(w, to)

Spec == Init /\ [][Next]_vars

=============================================================================
