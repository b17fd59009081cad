----------------------------- MODULE RedisProofs -----------------------------
(***************************************************************************)
(* Proofs about the two components in Redis.                               *)
(*                                                                         *)
(* RedisStore, for every set of transactions and workers, every lease,     *)
(* back-off, time limit and number of candidates, on any stretch of time:  *)
(* the index, the expiry of keys, and that it implements Store.            *)
(*                                                                         *)
(* RedisBarrier, for every set of sagas and messages and every stock: what *)
(* the keys prove about the pieces taken.                                  *)
(***************************************************************************)
EXTENDS RedisStore, RedisBarrier, CoreProofs

-----------------------------------------------------------------------------
(***************************************************************************)
(* The inductive invariant.                                                *)
(***************************************************************************)
Driven == {"prepared", "submitted", "aborting"}
Copy == [gid : Gids, status : Driven, lease : Nat]

\* A hash is there whole or not at all.
HashOK == \A g \in Gids : hash[g].status = "absent" => hash[g] = NoRow

\* Only what is over has a time limit, whether or not the store sets any.
TtlOK == \A g \in Gids : ttl[g] # 0 => IsFinal(hash[g].status)

\* Only the branches of a TCC are registered one by one.
RegisterOK == \A g \in register : TypeOf[g] = "tcc"

\* What a worker holds is there, and where it writes without a comparison
\* nobody can have gone another way.
CopyOK ==
  \A w \in Workers : copy[w] # NoCopy =>
    LET g == copy[w].gid
        s == hash[g].status
    IN /\ s # "absent"
       /\ copy[w].status = "submitted" /\ TypeOf[g] # "saga" => s \in {"submitted", "succeed"}
       /\ copy[w].status = "aborting" => s \in {"aborting", "failed"}

IInv ==
  /\ TypeOK /\ IndexExact /\ Reclaimed
  /\ HashOK /\ TtlOK /\ RegisterOK /\ CopyOK

-----------------------------------------------------------------------------
(***************************************************************************)
(* What the scripts have in common: they write one hash, keep the index in *)
(* step with it, and may hand a worker a copy of it.                       *)
(***************************************************************************)

\* The statuses a transaction with status s may have later.
MovesOn(g, s, t) ==
  /\ t # "absent"
  /\ TypeOf[g] # "saga" /\ s \in {"submitted", "succeed"} => t \in {"submitted", "succeed"}
  /\ s \in {"aborting", "failed"} => t \in {"aborting", "failed"}

\* The index follows what is written.
Indexed(g, r) ==
  /\ DOMAIN index' = (DOMAIN index \ {g})
                     \cup (IF Schedulable(r.status, TypeOf[g]) THEN {g} ELSE {})
  /\ Schedulable(r.status, TypeOf[g]) => index'[g] = r.nct
  /\ \A x \in DOMAIN index \ {g} : index'[x] = index[x]

\* Workers keep their copies, drop them, or take the row just written.
CopiesOf(g, s) ==
  /\ copy' \in [Workers -> {NoCopy} \cup Copy]
  /\ \A w \in Workers : \/ copy'[w] = copy[w] \/ copy'[w] = NoCopy
                        \/ copy'[w].gid = g /\ copy'[w].status = s

\* A copy is one of a transaction.
LEMMA CopyType ==
  ASSUME TypeOK, NEW w \in Workers, copy[w] # NoCopy
  PROVE  /\ copy[w] \in Copy
         /\ copy[w].gid \in Gids /\ copy[w].status \in Driven /\ copy[w].lease \in Nat
<1>1. copy[w] \in {NoCopy} \cup Copy
  BY DEF TypeOK, Copy, Driven
<1> QED BY <1>1 DEF Copy

\* The statuses of the index are among those of a transaction that is there
\* and not over.
LEMMA SchedulableIsDriven ==
  \A s, tt : Schedulable(s, tt) => s # "absent" /\ ~IsFinal(s)
BY DEF Schedulable, IsFinal

\* Writing one hash, with the index in step.
LEMMA WriteInv ==
  ASSUME IInv, NEW g \in Gids, NEW r \in Row, HSet(g, r),
         MovesOn(g, hash[g].status, r.status), Indexed(g, r), CopiesOf(g, r.status),
         now' = now, register' = register, recent' \subseteq Gids,
         branch' \in [Gids -> {"none", "kept", "expiring"}], ttl' \in [Gids -> Nat],
         Reclaimed', TtlOK'
  PROVE  IInv'
<1>1. /\ hash \in [Gids -> Row] /\ hash' \in [Gids -> Row] /\ hash'[g] = r
      /\ \A x \in Gids \ {g} : hash'[x] = hash[x]
  BY DEF HSet, IInv, TypeOK
<1>2. r.status # "absent" /\ r.nct \in Nat
  BY DEF MovesOn, Row
<1>3. IndexExact'
  BY <1>1 DEF Indexed, IInv, IndexExact
<1>4. TypeOK'
  <2>1. DOMAIN index' \subseteq Gids /\ \A x \in DOMAIN index' : index'[x] \in Nat
    BY <1>1, <1>3 DEF IndexExact, Row
  <2>2. now' \in Nat /\ register' \subseteq Gids
    BY DEF IInv, TypeOK
  <2> QED BY <1>1, <2>1, <2>2 DEF TypeOK, CopiesOf, Copy, Driven
<1>5. HashOK'
  BY <1>1, <1>2 DEF IInv, HashOK
<1>6. RegisterOK'
  BY DEF IInv, RegisterOK
<1>7. CopyOK'
  <2> SUFFICES ASSUME NEW w \in Workers, copy'[w] # NoCopy
               PROVE  /\ hash'[copy'[w].gid].status # "absent"
                      /\ copy'[w].status = "submitted" /\ TypeOf[copy'[w].gid] # "saga" =>
                           hash'[copy'[w].gid].status \in {"submitted", "succeed"}
                      /\ copy'[w].status = "aborting" =>
                           hash'[copy'[w].gid].status \in {"aborting", "failed"}
    BY DEF CopyOK
  <2>1. CASE copy'[w].gid = g /\ copy'[w].status = r.status
    BY <1>1, <1>2, <2>1
  <2>2. CASE copy'[w] = copy[w]
    <3>1. copy[w] # NoCopy /\ copy[w].gid \in Gids
      BY <2>2, CopyType DEF IInv
    <3>2. /\ hash[copy[w].gid].status # "absent"
          /\ copy[w].status = "submitted" /\ TypeOf[copy[w].gid] # "saga" =>
               hash[copy[w].gid].status \in {"submitted", "succeed"}
          /\ copy[w].status = "aborting" =>
               hash[copy[w].gid].status \in {"aborting", "failed"}
      BY <3>1 DEF IInv, CopyOK
    <3>3. CASE copy[w].gid = g
      BY <1>1, <2>2, <3>2, <3>3 DEF MovesOn
    <3>4. CASE copy[w].gid # g
      BY <1>1, <2>2, <3>1, <3>2, <3>4
    <3> QED BY <3>3, <3>4
  <2> QED BY <2>1, <2>2 DEF CopiesOf
<1> QED BY <1>3, <1>4, <1>5, <1>6, <1>7 DEF IInv

\* A write that neither ends a transaction nor touches a time limit.
LEMMA ReclaimedKept ==
  ASSUME IInv, NEW g \in Gids, NEW r \in Row, HSet(g, r), r.status # "absent",
         IsFinal(r.status) <=> IsFinal(hash[g].status), UNCHANGED <<branch, ttl>>
  PROVE  Reclaimed' /\ TtlOK'
<1>1. /\ hash \in [Gids -> Row] /\ hash' \in [Gids -> Row] /\ hash'[g] = r
      /\ \A x \in Gids \ {g} : hash'[x] = hash[x]
  BY DEF HSet, IInv, TypeOK
<1>2. \A x \in Gids : IsFinal(hash'[x].status) <=> IsFinal(hash[x].status)
  BY <1>1
<1>3. \A x \in Gids : Exists(x) => Exists(x)'
  BY <1>1 DEF Exists, NoRow
<1>4. TtlOK'
  BY <1>2 DEF IInv, TtlOK
<1>5. Reclaimed'
  BY <1>2, <1>3 DEF IInv, Reclaimed
<1> QED BY <1>4, <1>5

\* set_global_status of a final status sets the time limits.
LEMMA ReclaimedExpire ==
  ASSUME IInv, NEW g \in Gids, NEW r \in Row, HSet(g, r), IsFinal(r.status), ExpireKeys(g)
  PROVE  /\ Reclaimed' /\ TtlOK'
         /\ branch' \in [Gids -> {"none", "kept", "expiring"}] /\ ttl' \in [Gids -> Nat]
<1>1. /\ hash \in [Gids -> Row] /\ hash' \in [Gids -> Row] /\ hash'[g] = r
      /\ \A x \in Gids \ {g} : hash'[x] = hash[x]
  BY DEF HSet, IInv, TypeOK
<1>2. /\ branch \in [Gids -> {"none", "kept", "expiring"}] /\ ttl \in [Gids -> Nat]
      /\ now \in Nat /\ FinalTtl \in Nat
  BY RedisStoreAssumption DEF IInv, TypeOK
<1>3. /\ branch' \in [Gids -> {"none", "kept", "expiring"}] /\ ttl' \in [Gids -> Nat]
      /\ \A x \in Gids \ {g} : branch'[x] = branch[x] /\ ttl'[x] = ttl[x]
      /\ FinalTtl > 0 => ttl'[g] # 0 /\ branch'[g] # "kept"
  BY <1>2 DEF ExpireKeys
<1>4. TtlOK'
  BY <1>1, <1>3 DEF IInv, TtlOK
<1>5. Reclaimed'
  <2> SUFFICES ASSUME FinalTtl > 0, NEW x \in Gids
               PROVE  /\ ttl'[x] # 0 <=> IsFinal(hash'[x].status)
                      /\ branch'[x] = "expiring" => ttl'[x] # 0
                      /\ branch'[x] = "kept" /\ TypeOf[x] # "tcc" => Exists(x)' /\ ttl'[x] = 0
    BY DEF Reclaimed
  <2>1. CASE x = g
    BY <1>1, <1>3, <2>1
  <2>2. CASE x # g
    BY <1>1, <1>3, <2>2 DEF IInv, Reclaimed, Exists
  <2> QED BY <2>1, <2>2
<1> QED BY <1>3, <1>4, <1>5

-----------------------------------------------------------------------------
(***************************************************************************)
(* One lemma per script.                                                   *)
(***************************************************************************)

\* ZADD and ZREM, as the scripts call them for what they have written.
LEMMA IndexWritten ==
  ASSUME IInv, NEW g \in Gids, NEW r,
         IF Schedulable(r.status, TypeOf[g]) THEN ZAdd(g, r.nct)
         ELSE ZRem({g}) \/ (index' = index /\ g \notin DOMAIN index)
  PROVE  Indexed(g, r)
<1>1. CASE Schedulable(r.status, TypeOf[g])
  BY <1>1 DEF ZAdd, Indexed
<1>2. CASE ~Schedulable(r.status, TypeOf[g])
  BY <1>2 DEF ZRem, Indexed
<1> QED BY <1>1, <1>2

\* A worker takes a row.
LEMMA TakesCopy ==
  ASSUME TypeOK, NEW w \in Workers, NEW g \in Gids, NEW s \in Driven, NEW l \in Nat,
         Takes(w, g, s, l)
  PROVE  CopiesOf(g, s)
<1>1. copy \in [Workers -> {NoCopy} \cup Copy]
  BY DEF TypeOK, Copy, Driven
<1>2. [gid |-> g, status |-> s, lease |-> l] \in Copy
  BY DEF Copy
<1> QED BY <1>1, <1>2 DEF Takes, CopiesOf

\* A worker drops its row, or nobody does anything.
LEMMA DropsCopy ==
  ASSUME TypeOK, UNCHANGED copy \/ \E w \in Workers : Drops(w), NEW g, NEW s
  PROVE  CopiesOf(g, s)
<1>1. copy \in [Workers -> {NoCopy} \cup Copy]
  BY DEF TypeOK, Copy, Driven
<1> QED BY <1>1 DEF Drops, CopiesOf

\* A transaction is created.
LEMMA CreateInv ==
  ASSUME IInv, NEW g \in Gids, Create(g) PROVE IInv'
<1> DEFINE s == IF TypeOf[g] = "saga" THEN "submitted" ELSE "prepared"
<1>1. PICK nct \in Nat, lease \in Nat : /\ CreateGlobal(g, s, nct, lease)
                                        /\ \/ UNCHANGED copy
                                           \/ \E w \in Workers : Takes(w, g, s, now + LeaseSecs)
  <2>1. now \in Nat /\ LeaseSecs \in Nat /\ BackOff \in Nat
    BY RedisStoreAssumption DEF IInv, TypeOK
  <2>2. CASE \E d \in {0, BackOff} : CreateGlobal(g, s, now + d, 0) /\ UNCHANGED copy
    BY <2>1, <2>2
  <2>3. CASE /\ CreateGlobal(g, s, now + LeaseSecs, now + LeaseSecs)
             /\ \E w \in Workers : copy[w] = NoCopy /\ Takes(w, g, s, now + LeaseSecs)
    BY <2>1, <2>3
  <2> QED BY <2>2, <2>3 DEF Create
<1>2. s \in Driven /\ Schedulable(s, TypeOf[g]) /\ TypeOf[g] \in {"saga", "tcc", "msg"}
  BY RedisStoreAssumption DEF Driven, Schedulable
<1>3. now' = now /\ register' = register /\ now + LeaseSecs \in Nat
  BY RedisStoreAssumption DEF Create, IInv, TypeOK
<1> HIDE DEF s
<1> DEFINE r == [status |-> s, nct |-> nct, lease |-> lease]
<1>4. /\ r \in Row /\ r.status = s /\ r.nct = nct /\ s # "absent" /\ ~IsFinal(s)
  BY <1>2 DEF Row, Driven, GlobalStatus, IsFinal
<1>5. /\ HSet(g, r) /\ hash[g] = NoRow /\ ZAdd(g, nct) /\ UNCHANGED ttl
      /\ branch' = [branch EXCEPT ![g] = IF TypeOf[g] = "tcc" THEN @ ELSE "kept"]
  BY <1>1, <1>2 DEF CreateGlobal, Exists
<1>6. recent' \subseteq Gids
  BY <1>1 DEF CreateGlobal, IInv, TypeOK
<1> HIDE DEF r
<1>7. Indexed(g, r)
  <2>1. Schedulable(r.status, TypeOf[g]) /\ ZAdd(g, r.nct)
    BY <1>2, <1>4, <1>5 DEF ZAdd
  <2> QED BY <2>1, IndexWritten
<1>8. CopiesOf(g, r.status)
  BY <1>1, <1>2, <1>3, <1>4, TakesCopy, DropsCopy DEF IInv
<1>9. hash[g].status = "absent" /\ MovesOn(g, hash[g].status, r.status)
  BY <1>4, <1>5 DEF NoRow, MovesOn
<1>10. /\ hash \in [Gids -> Row] /\ hash' \in [Gids -> Row] /\ hash'[g] = r
       /\ \A x \in Gids \ {g} : hash'[x] = hash[x]
  BY <1>4, <1>5 DEF HSet, IInv, TypeOK
<1>11. /\ branch \in [Gids -> {"none", "kept", "expiring"}] /\ ttl \in [Gids -> Nat]
       /\ ttl[g] = 0
  BY <1>9 DEF IInv, TypeOK, TtlOK, IsFinal
<1>12. /\ branch' \in [Gids -> {"none", "kept", "expiring"}]
       /\ branch'[g] = "kept" \/ branch'[g] = branch[g]
       /\ \A x \in Gids \ {g} : branch'[x] = branch[x]
  BY <1>5, <1>11
<1>13. TtlOK'
  BY <1>5, <1>10, <1>11 DEF IInv, TtlOK
<1>14. Reclaimed'
  <2> SUFFICES ASSUME FinalTtl > 0, NEW x \in Gids
               PROVE  /\ ttl'[x] # 0 <=> IsFinal(hash'[x].status)
                      /\ branch'[x] = "expiring" => ttl'[x] # 0
                      /\ branch'[x] = "kept" /\ TypeOf[x] # "tcc" => Exists(x)' /\ ttl'[x] = 0
    BY DEF Reclaimed
  <2>1. CASE x = g
    <3>1. Exists(x)' /\ ~IsFinal(hash'[x].status) /\ ttl'[x] = 0
      BY <1>4, <1>5, <1>10, <1>11, <2>1 DEF Exists, NoRow
    <3>2. branch'[x] # "expiring"
      BY <1>11, <1>12, <2>1 DEF IInv, Reclaimed
    <3> QED BY <3>1, <3>2
  <2>2. CASE x # g
    BY <1>5, <1>10, <1>12, <2>2 DEF IInv, Reclaimed, Exists
  <2> QED BY <2>1, <2>2
<1>15. ttl' \in [Gids -> Nat]
  BY <1>5, <1>11
<1> QED BY <1>3, <1>4, <1>5, <1>6, <1>7, <1>8, <1>9, <1>12, <1>13, <1>14, <1>15, WriteInv

\* What is prepared is submitted.
LEMMA SubmitInv ==
  ASSUME IInv, NEW g \in Gids, Submit(g) PROVE IInv'
<1>1. PICK lease \in {0, now + LeaseSecs} :
       LET nct == IF lease = 0 THEN now ELSE lease
       IN /\ HSet(g, [status |-> "submitted", nct |-> nct, lease |-> lease])
          /\ IF Schedulable("submitted", TypeOf[g]) THEN ZAdd(g, nct) ELSE UNCHANGED index
          /\ \/ lease = 0 /\ UNCHANGED copy
             \/ lease # 0 /\ \E w \in Workers :
                  copy[w] = NoCopy /\ Takes(w, g, "submitted", lease)
  BY DEF Submit
<1> DEFINE nct == IF lease = 0 THEN now ELSE lease
           r == [status |-> "submitted", nct |-> nct, lease |-> lease]
<1>2. lease \in Nat /\ nct \in Nat
  BY RedisStoreAssumption DEF IInv, TypeOK
<1>3. r \in Row /\ r.status = "submitted" /\ r.nct = nct
  BY <1>2 DEF Row, GlobalStatus
<1>4. HSet(g, r) /\ ZAdd(g, nct) /\ Schedulable("submitted", TypeOf[g])
  BY <1>1 DEF Schedulable
<1> HIDE DEF r
<1>5. Indexed(g, r)
  <2>1. Schedulable(r.status, TypeOf[g]) /\ ZAdd(g, r.nct)
    BY <1>3, <1>4 DEF ZAdd
  <2> QED BY <2>1, IndexWritten
<1>6. CopiesOf(g, "submitted")
  BY <1>1, <1>2, TakesCopy, DropsCopy DEF IInv, Driven
<1>7. /\ MovesOn(g, hash[g].status, r.status) /\ r.status # "absent"
      /\ IsFinal(r.status) <=> IsFinal(hash[g].status)
  BY <1>3 DEF MovesOn, IsFinal, Submit
<1>8. UNCHANGED <<now, branch, ttl, recent, register>>
  BY DEF Submit
<1>9. Reclaimed' /\ TtlOK'
  BY <1>3, <1>4, <1>7, <1>8, ReclaimedKept
<1>10. /\ recent' \subseteq Gids /\ ttl' \in [Gids -> Nat]
       /\ branch' \in [Gids -> {"none", "kept", "expiring"}]
  BY <1>8 DEF IInv, TypeOK
<1> QED BY <1>3, <1>4, <1>5, <1>6, <1>7, <1>8, <1>9, <1>10, WriteInv

\* schedule_now moves the due time.
LEMMA ScheduleNowInv ==
  ASSUME IInv, NEW g \in Gids, ScheduleNow(g) PROVE IInv'
<1> DEFINE r == [hash[g] EXCEPT !.nct = now]
<1>1. hash[g] \in Row /\ now \in Nat
  BY DEF IInv, TypeOK
<1>2. r \in Row /\ r.status = hash[g].status /\ r.nct = now /\ r.status # "absent"
  <2>1. r \in Row /\ r.status = hash[g].status /\ r.nct = now
    BY <1>1 DEF Row
  <2>2. hash[g].status # "absent"
    BY DEF ScheduleNow, Exists, IInv, HashOK
  <2> QED BY <2>1, <2>2
<1>3. /\ HSet(g, r) /\ UNCHANGED <<now, branch, ttl, recent, copy, register>>
      /\ IF Schedulable(hash[g].status, TypeOf[g]) THEN ZAdd(g, now) ELSE UNCHANGED index
  BY DEF ScheduleNow
<1> HIDE DEF r
<1>4. Indexed(g, r)
  <2>1. ~Schedulable(hash[g].status, TypeOf[g]) => g \notin DOMAIN index
    BY DEF IInv, IndexExact
  <2> QED BY <1>2, <1>3, <2>1, IndexWritten
<1>5. CopiesOf(g, r.status)
  BY <1>3 DEF CopiesOf, IInv, TypeOK, Copy, Driven
<1>6. MovesOn(g, hash[g].status, r.status)
  BY <1>2 DEF MovesOn
<1>7. Reclaimed' /\ TtlOK'
  BY <1>2, <1>3, ReclaimedKept
<1>8. /\ recent' \subseteq Gids /\ ttl' \in [Gids -> Nat]
      /\ branch' \in [Gids -> {"none", "kept", "expiring"}]
  BY <1>3 DEF IInv, TypeOK
<1> QED BY <1>2, <1>3, <1>4, <1>5, <1>6, <1>7, <1>8, WriteInv

\* set_global_status, whoever calls it.
LEMMA SetGlobalStatusInv ==
  ASSUME IInv, NEW g \in Gids, NEW to \in GlobalStatus, SetGlobalStatus(g, to),
         MovesOn(g, hash[g].status, to), IsFinal(to) \/ ~IsFinal(hash[g].status),
         CopiesOf(g, to), UNCHANGED <<now, recent, register>>
  PROVE  IInv'
<1> DEFINE r == [hash[g] EXCEPT !.status = to]
<1>1. hash[g] \in Row
  BY DEF IInv, TypeOK
<1>2. r \in Row /\ r.status = to /\ r.nct = hash[g].nct
  BY <1>1 DEF Row
<1>3. /\ HSet(g, r)
      /\ IF Schedulable(to, TypeOf[g]) THEN ZAdd(g, hash[g].nct) ELSE ZRem({g})
      /\ IF IsFinal(to) THEN ExpireKeys(g) ELSE UNCHANGED <<ttl, branch>>
  BY DEF SetGlobalStatus
<1> HIDE DEF r
<1>4. Indexed(g, r)
  <2>1. IF Schedulable(r.status, TypeOf[g]) THEN ZAdd(g, r.nct) ELSE ZRem({g})
    BY <1>2, <1>3 DEF ZAdd
  <2> QED BY <2>1, IndexWritten
<1>5. CopiesOf(g, r.status) /\ MovesOn(g, hash[g].status, r.status) /\ to # "absent"
  BY <1>2 DEF CopiesOf, MovesOn
<1>6. /\ Reclaimed' /\ TtlOK'
      /\ branch' \in [Gids -> {"none", "kept", "expiring"}] /\ ttl' \in [Gids -> Nat]
  <2>1. CASE IsFinal(to)
    BY <1>2, <1>3, <2>1, ReclaimedExpire
  <2>2. CASE ~IsFinal(to)
    <3>1. UNCHANGED <<branch, ttl>>
      BY <1>3, <2>2
    <3>2. Reclaimed' /\ TtlOK'
      BY <1>2, <1>3, <1>5, <2>2, <3>1, ReclaimedKept
    <3> QED BY <3>1, <3>2 DEF IInv, TypeOK
  <2> QED BY <2>1, <2>2
<1>7. recent' \subseteq Gids
  BY DEF IInv, TypeOK
<1> QED BY <1>2, <1>3, <1>4, <1>5, <1>6, <1>7, WriteInv

\* Api::abort turns round what is still in its first status.
LEMMA AbortInv ==
  ASSUME IInv, NEW g \in Gids, Abort(g) PROVE IInv'
<1>1. /\ SetGlobalStatus(g, "aborting") /\ UNCHANGED <<now, recent, copy, register>>
      /\ hash[g].status = IF TypeOf[g] = "saga" THEN "submitted" ELSE "prepared"
  BY DEF Abort
<1>2. MovesOn(g, hash[g].status, "aborting") /\ ~IsFinal(hash[g].status)
  BY <1>1 DEF MovesOn, IsFinal
<1>3. CopiesOf(g, "aborting")
  BY <1>1, DropsCopy DEF IInv
<1> QED BY <1>1, <1>2, <1>3, SetGlobalStatusInv DEF GlobalStatus

\* Which writes a drive makes: one that compared, or one that could only find
\* the row as it was or already written.
LEMMA TransitionCases ==
  ASSUME IInv, NEW w \in Workers, copy[w] # NoCopy, Writes(copy[w].gid, copy[w].status),
         NEW to \in Targets(copy[w].status, TypeOf[copy[w].gid])
  PROVE  LET g == copy[w].gid IN
         /\ g \in Gids /\ to \in GlobalStatus /\ MovesOn(g, hash[g].status, to)
         /\ IsFinal(to) \/ ~IsFinal(hash[g].status)
         /\ ~IsFinal(to) => to \in Driven
         /\ hash[g].status = copy[w].status \/ (hash[g].status = to /\ IsFinal(to))
<1> DEFINE g == copy[w].gid
           from == copy[w].status
<1>1. g \in Gids /\ from \in Driven
  BY CopyType DEF IInv
<1>2. TypeOf[g] \in {"saga", "tcc", "msg"}
  BY <1>1, RedisStoreAssumption
<1>3. /\ from = "submitted" /\ TypeOf[g] # "saga" => hash[g].status \in {"submitted", "succeed"}
      /\ from = "aborting" => hash[g].status \in {"aborting", "failed"}
  BY DEF IInv, CopyOK
<1>4. hash[g].status = from \/ from = "aborting" \/ (from = "submitted" /\ TypeOf[g] # "saga")
  BY <1>1, <1>2 DEF Writes, StatusContested, Driven
<1>5. /\ from = "prepared" => to \in {"aborting", "submitted", "failed"}
      /\ from = "submitted" /\ TypeOf[g] = "saga" => to \in {"succeed", "aborting"}
      /\ from = "submitted" /\ TypeOf[g] # "saga" => to = "succeed"
      /\ from = "aborting" => to = "failed"
  BY <1>1 DEF Targets, Driven
<1> HIDE DEF g, from
<1>6. \/ from = "prepared" /\ hash[g].status = "prepared" /\ to \in {"aborting", "submitted", "failed"}
      \/ /\ from = "submitted" /\ TypeOf[g] = "saga"
         /\ hash[g].status = "submitted" /\ to \in {"succeed", "aborting"}
      \/ /\ from = "submitted" /\ TypeOf[g] # "saga" /\ to = "succeed"
         /\ hash[g].status \in {"submitted", "succeed"}
      \/ from = "aborting" /\ to = "failed" /\ hash[g].status \in {"aborting", "failed"}
  BY <1>1, <1>3, <1>4, <1>5 DEF Driven
<1>7. to \in GlobalStatus /\ MovesOn(g, hash[g].status, to)
  BY <1>6 DEF GlobalStatus, MovesOn
<1>8. /\ IsFinal(to) \/ ~IsFinal(hash[g].status)
      /\ ~IsFinal(to) => to \in Driven
      /\ hash[g].status = from \/ (hash[g].status = to /\ IsFinal(to))
  BY <1>6 DEF IsFinal, Driven
<1> QED BY <1>1, <1>7, <1>8 DEF g, from

\* Driver::transition.
LEMMA TransitionInv ==
  ASSUME IInv, NEW w \in Workers, Transition(w) PROVE IInv'
<1> DEFINE g == copy[w].gid
<1>1. PICK to \in Targets(copy[w].status, TypeOf[g]) :
          /\ SetGlobalStatus(g, to)
          /\ IF IsFinal(to) THEN Drops(w) ELSE copy' = [copy EXCEPT ![w].status = to]
  BY DEF Transition
<1>2. /\ g \in Gids /\ to \in GlobalStatus /\ MovesOn(g, hash[g].status, to)
      /\ IsFinal(to) \/ ~IsFinal(hash[g].status)
      /\ ~IsFinal(to) => to \in Driven
  BY TransitionCases DEF Transition
<1>3. CopiesOf(g, to)
  <2>1. CASE IsFinal(to)
    BY <1>1, <2>1, DropsCopy DEF IInv
  <2>2. CASE ~IsFinal(to)
    <3>1. copy[w] \in Copy /\ copy \in [Workers -> {NoCopy} \cup Copy] /\ to \in Driven
      BY <1>2, <2>2, CopyType DEF IInv, TypeOK, Copy, Driven, Transition
    <3>2. /\ copy' = [copy EXCEPT ![w] = [copy[w] EXCEPT !.status = to]]
          /\ [copy[w] EXCEPT !.status = to] \in Copy
      BY <1>1, <2>2, <3>1 DEF Copy
    <3>3. /\ copy'[w] \in Copy /\ copy'[w].gid = g /\ copy'[w].status = to
          /\ \A v \in Workers \ {w} : copy'[v] = copy[v]
      BY <3>1, <3>2 DEF Copy
    <3> QED BY <3>1, <3>2, <3>3 DEF CopiesOf
  <2> QED BY <2>1, <2>2
<1>4. UNCHANGED <<now, recent, register>>
  BY DEF Transition
<1> QED BY <1>1, <1>2, <1>3, <1>4, SetGlobalStatusInv

\* lock_one_due finds nothing to heal, and takes what is due and free.
LEMMA LockTakes ==
  ASSUME IInv, NEW w \in Workers, Lock(w)
  PROVE  \E g \in Gids :
           /\ copy[w] = NoCopy
           /\ Schedulable(hash[g].status, TypeOf[g])
           /\ hash[g].nct <= now /\ hash[g].lease <= now
           /\ HSet(g, [hash[g] EXCEPT !.nct = now + LeaseSecs, !.lease = now + LeaseSecs])
           /\ index' = [x \in DOMAIN index |-> IF x = g THEN now + LeaseSecs ELSE index[x]]
           /\ Takes(w, g, hash[g].status, now + LeaseSecs)
<1> DEFINE Taken(C, g) ==
       /\ Free(g)
       /\ HSet(g, [hash[g] EXCEPT !.nct = now + LeaseSecs, !.lease = now + LeaseSecs])
       /\ LET healed == {x \in C : Stale(x) /\ index[x] <= index[g]}
          IN index' = [x \in DOMAIN index \ healed |->
                         IF x = g THEN now + LeaseSecs ELSE index[x]]
       /\ Takes(w, g, hash[g].status, now + LeaseSecs)
<1>0. PICK C \in Candidates : \E g \in C : Taken(C, g)
  BY DEF Lock
<1>1. PICK g \in C : Taken(C, g)
  BY <1>0
<1>2. C \subseteq DOMAIN index /\ index[g] <= now
  BY DEF Candidates, Due
<1>3. \A x \in DOMAIN index : /\ x \in Gids /\ Schedulable(hash[x].status, TypeOf[x])
                              /\ index[x] = hash[x].nct
  BY DEF IInv, IndexExact
<1>4. \A x \in C : ~Stale(x)
  <2> TAKE x \in C
  <2>1. hash[x].status # "absent" /\ Schedulable(hash[x].status, TypeOf[x])
    BY <1>2, <1>3, SchedulableIsDriven
  <2> QED BY <2>1 DEF Stale, Exists, NoRow
<1>5. {x \in C : Stale(x) /\ index[x] <= index[g]} = {}
  BY <1>4
<1>6. index' = [x \in DOMAIN index |-> IF x = g THEN now + LeaseSecs ELSE index[x]]
  BY <1>1, <1>5
<1> QED BY <1>1, <1>2, <1>3, <1>6 DEF Free, Lock

\* A worker takes what is due.
LEMMA LockInv ==
  ASSUME IInv, NEW w \in Workers, Lock(w) PROVE IInv'
<1>1. PICK g \in Gids :
       /\ Schedulable(hash[g].status, TypeOf[g])
       /\ HSet(g, [hash[g] EXCEPT !.nct = now + LeaseSecs, !.lease = now + LeaseSecs])
       /\ index' = [x \in DOMAIN index |-> IF x = g THEN now + LeaseSecs ELSE index[x]]
       /\ Takes(w, g, hash[g].status, now + LeaseSecs)
  BY LockTakes
<1> DEFINE r == [hash[g] EXCEPT !.nct = now + LeaseSecs, !.lease = now + LeaseSecs]
<1>2. hash[g] \in Row /\ now + LeaseSecs \in Nat /\ g \in DOMAIN index
  BY <1>1, RedisStoreAssumption DEF IInv, TypeOK, IndexExact
<1>3. r \in Row /\ r.status = hash[g].status /\ r.nct = now + LeaseSecs
  BY <1>2 DEF Row
<1>4. hash[g].status \in Driven /\ r.status # "absent"
  BY <1>1, <1>3 DEF Schedulable, Driven
<1>5. HSet(g, r)
  BY <1>1
<1> HIDE DEF r
<1>6. Indexed(g, r)
  BY <1>1, <1>2, <1>3 DEF Indexed
<1>7. CopiesOf(g, r.status)
  BY <1>1, <1>2, <1>3, <1>4, TakesCopy DEF IInv
<1>8. MovesOn(g, hash[g].status, r.status)
  BY <1>3, <1>4 DEF MovesOn
<1>9. UNCHANGED <<now, branch, ttl, recent, register>>
  BY DEF Lock
<1>10. Reclaimed' /\ TtlOK'
  BY <1>3, <1>4, <1>5, <1>9, ReclaimedKept
<1>11. /\ recent' \subseteq Gids /\ ttl' \in [Gids -> Nat]
       /\ branch' \in [Gids -> {"none", "kept", "expiring"}]
  BY <1>9 DEF IInv, TypeOK
<1> QED BY <1>3, <1>5, <1>6, <1>7, <1>8, <1>9, <1>10, <1>11, WriteInv

\* release_lease writes the row only under the lease it was taken with.
LEMMA ReleaseWrites ==
  ASSUME IInv, NEW w \in Workers, Release(w)
  PROVE  LET g == copy[w].gid IN
         /\ copy[w] # NoCopy /\ g \in Gids
         /\ \/ /\ hash[g].lease # copy[w].lease
               /\ UNCHANGED <<hash, index>>
            \/ /\ hash[g].lease = copy[w].lease
               /\ \E d \in {0, BackOff} :
                    LET nct == IF hash[g].nct < hash[g].lease THEN hash[g].nct ELSE now + d
                    IN /\ HSet(g, [hash[g] EXCEPT !.nct = nct, !.lease = 0])
                       /\ IF g \in DOMAIN index THEN ZAdd(g, nct) ELSE UNCHANGED index
<1> DEFINE g == copy[w].gid
<1>1. copy[w] # NoCopy /\ g \in Gids
  BY CopyType DEF Release, IInv
<1>2. PICK d \in {0, BackOff} :
          LET nct == IF hash[g].nct < hash[g].lease THEN hash[g].nct ELSE now + d
          IN IF hash[g].lease = copy[w].lease
             THEN /\ HSet(g, [hash[g] EXCEPT !.nct = nct, !.lease = 0])
                  /\ IF g \in DOMAIN index THEN ZAdd(g, nct) ELSE UNCHANGED index
             ELSE UNCHANGED <<hash, index>>
  BY DEF Release
<1>3. CASE hash[g].lease = copy[w].lease
  BY <1>1, <1>2, <1>3
<1>4. CASE hash[g].lease # copy[w].lease
  BY <1>1, <1>2, <1>4
<1> QED BY <1>3, <1>4

\* Steps that change no hash and no index.
LEMMA QuietInv ==
  ASSUME IInv, UNCHANGED <<hash, ttl, index, recent>>, now' \in Nat,
         UNCHANGED copy \/ \E w \in Workers : Drops(w),
         \/ UNCHANGED <<branch, register>>
         \/ \E g \in Gids : RegisterRead(g) \/ RegisterWrite(g)
  PROVE  IInv'
<1>1. /\ copy' \in [Workers -> {NoCopy} \cup Copy]
      /\ \A w \in Workers : copy'[w] = copy[w] \/ copy'[w] = NoCopy
  BY DEF IInv, TypeOK, Copy, Driven, Drops
<1>2. /\ branch' \in [Gids -> {"none", "kept", "expiring"}]
      /\ register' \subseteq Gids /\ RegisterOK'
      /\ \A g \in Gids : branch'[g] = branch[g] \/ (branch'[g] = "kept" /\ TypeOf[g] = "tcc")
  <2>1. branch \in [Gids -> {"none", "kept", "expiring"}] /\ register \subseteq Gids /\ RegisterOK
    BY DEF IInv, TypeOK
  <2>2. CASE UNCHANGED <<branch, register>>
    BY <2>1, <2>2 DEF RegisterOK
  <2>3. ASSUME NEW g \in Gids, RegisterRead(g)
        PROVE  /\ branch' = branch /\ register' = register \cup {g} /\ TypeOf[g] = "tcc"
    BY <2>3 DEF RegisterRead, redis
  <2>4. ASSUME NEW g \in Gids, RegisterWrite(g)
        PROVE  /\ branch' = [branch EXCEPT ![g] = IF @ = "none" THEN "kept" ELSE @]
               /\ register' = register \ {g} /\ TypeOf[g] = "tcc"
    BY <2>1, <2>4 DEF RegisterWrite, RegisterOK
  <2>5. CASE \E g \in Gids : RegisterRead(g)
    BY <2>1, <2>3, <2>5 DEF RegisterOK
  <2>6. CASE \E g \in Gids : RegisterWrite(g)
    <3>1. PICK g \in Gids : /\ branch' = [branch EXCEPT ![g] = IF @ = "none" THEN "kept" ELSE @]
                            /\ register' = register \ {g} /\ TypeOf[g] = "tcc"
      BY <2>4, <2>6
    <3> QED BY <2>1, <3>1 DEF RegisterOK
  <2> QED BY <2>2, <2>5, <2>6
<1>3. TypeOK'
  BY <1>1, <1>2 DEF IInv, TypeOK, Copy, Driven
<1>4. IndexExact' /\ HashOK' /\ TtlOK'
  BY DEF IInv, IndexExact, HashOK, TtlOK
<1>5. Reclaimed'
  BY <1>2 DEF IInv, Reclaimed, Exists
<1>6. CopyOK'
  BY <1>1 DEF IInv, CopyOK
<1> QED BY <1>2, <1>3, <1>4, <1>5, <1>6 DEF IInv

\* A worker gives its row back.
LEMMA ReleaseInv ==
  ASSUME IInv, NEW w \in Workers, Release(w) PROVE IInv'
<1> DEFINE g == copy[w].gid
<1>1. Drops(w) /\ UNCHANGED <<now, branch, ttl, recent, register>>
  BY DEF Release
<1>2. copy[w] # NoCopy /\ g \in Gids
  BY ReleaseWrites
<1>3. CASE UNCHANGED <<hash, index>>
  <2>1. now' \in Nat
    BY <1>1 DEF IInv, TypeOK
  <2> QED BY <1>1, <1>3, <2>1, QuietInv
<1>4. CASE \E d \in {0, BackOff} :
             LET nct == IF hash[g].nct < hash[g].lease THEN hash[g].nct ELSE now + d
             IN /\ HSet(g, [hash[g] EXCEPT !.nct = nct, !.lease = 0])
                /\ IF g \in DOMAIN index THEN ZAdd(g, nct) ELSE UNCHANGED index
  <2>1. PICK nct \in Nat : /\ HSet(g, [hash[g] EXCEPT !.nct = nct, !.lease = 0])
                           /\ IF g \in DOMAIN index THEN ZAdd(g, nct) ELSE UNCHANGED index
    <3>1. now \in Nat /\ BackOff \in Nat /\ hash[g].nct \in Nat
      BY <1>2, RedisStoreAssumption DEF IInv, TypeOK, Row
    <3>2. PICK d \in {0, BackOff} :
             LET nct == IF hash[g].nct < hash[g].lease THEN hash[g].nct ELSE now + d
             IN /\ HSet(g, [hash[g] EXCEPT !.nct = nct, !.lease = 0])
                /\ IF g \in DOMAIN index THEN ZAdd(g, nct) ELSE UNCHANGED index
      BY <1>4
    <3>3. (IF hash[g].nct < hash[g].lease THEN hash[g].nct ELSE now + d) \in Nat
      BY <3>1
    <3> QED BY <3>2, <3>3
  <2> DEFINE r == [hash[g] EXCEPT !.nct = nct, !.lease = 0]
  <2>2. hash[g] \in Row /\ hash[g].status # "absent"
    BY <1>2 DEF IInv, TypeOK, CopyOK
  <2>3. r \in Row /\ r.status = hash[g].status /\ r.nct = nct /\ HSet(g, r)
    BY <2>1, <2>2 DEF Row
  <2> HIDE DEF r
  <2>4. Indexed(g, r)
    <3>1. g \in DOMAIN index <=> Schedulable(r.status, TypeOf[g])
      BY <1>2, <2>3 DEF IInv, IndexExact
    <3>2. IF Schedulable(r.status, TypeOf[g]) THEN ZAdd(g, r.nct)
          ELSE index' = index /\ g \notin DOMAIN index
      BY <2>1, <2>3, <3>1 DEF ZAdd
    <3> QED BY <1>2, <3>2, IndexWritten
  <2>5. CopiesOf(g, r.status)
    BY <1>1, DropsCopy DEF IInv
  <2>6. MovesOn(g, hash[g].status, r.status)
    BY <2>2, <2>3 DEF MovesOn
  <2>7. Reclaimed' /\ TtlOK'
    BY <1>1, <1>2, <2>2, <2>3, ReclaimedKept
  <2>8. /\ recent' \subseteq Gids /\ ttl' \in [Gids -> Nat]
        /\ branch' \in [Gids -> {"none", "kept", "expiring"}]
    BY <1>1 DEF IInv, TypeOK
  <2> QED BY <1>1, <1>2, <2>3, <2>4, <2>5, <2>6, <2>7, <2>8, WriteInv
<1> QED BY <1>3, <1>4, ReleaseWrites

\* The keys of a transaction that is over go, and it was in no index.
LEMMA ExpireInv ==
  ASSUME IInv, NEW g \in Gids, Expire(g) PROVE IInv'
<1>1. /\ ttl[g] # 0 /\ \A w \in Workers : copy[w].gid # g
      /\ HSet(g, NoRow) /\ ttl' = [ttl EXCEPT ![g] = 0]
      /\ branch' = [branch EXCEPT ![g] = IF @ = "expiring" THEN "none" ELSE @]
      /\ UNCHANGED <<now, index, recent, copy, register>>
  BY DEF Expire
<1>2. /\ hash \in [Gids -> Row] /\ ttl \in [Gids -> Nat]
      /\ branch \in [Gids -> {"none", "kept", "expiring"}] /\ NoRow \in Row
      /\ NoRow.status = "absent"
  BY DEF IInv, TypeOK, NoRow, Row
<1>3. /\ hash' \in [Gids -> Row] /\ hash'[g] = NoRow
      /\ \A x \in Gids \ {g} : hash'[x] = hash[x]
  BY <1>1, <1>2 DEF HSet
<1>4. /\ ttl' \in [Gids -> Nat] /\ ttl'[g] = 0
      /\ \A x \in Gids \ {g} : ttl'[x] = ttl[x] /\ branch'[x] = branch[x]
      /\ branch' \in [Gids -> {"none", "kept", "expiring"}]
      /\ branch'[g] # "expiring" /\ (branch'[g] = "kept" => branch[g] = "kept")
  BY <1>1, <1>2
<1>5. TypeOK'
  BY <1>1, <1>3, <1>4 DEF IInv, TypeOK
<1>6. IndexExact'
  <2>1. IsFinal(hash[g].status)
    BY <1>1 DEF IInv, TtlOK
  <2>2. ~Schedulable(hash[g].status, TypeOf[g]) /\ ~Schedulable(NoRow.status, TypeOf[g])
    BY <1>2, <2>1, SchedulableIsDriven
  <2>3. index' = index /\ g \notin DOMAIN index
    BY <1>1, <2>2 DEF IInv, IndexExact
  <2> QED BY <1>3, <2>2, <2>3 DEF IInv, IndexExact
<1>7. HashOK' /\ TtlOK'
  BY <1>3, <1>4 DEF IInv, HashOK, TtlOK
<1>8. RegisterOK'
  BY <1>1 DEF IInv, RegisterOK
<1>9. Reclaimed'
  <2> SUFFICES ASSUME FinalTtl > 0, NEW x \in Gids
               PROVE  /\ ttl'[x] # 0 <=> IsFinal(hash'[x].status)
                      /\ branch'[x] = "expiring" => ttl'[x] # 0
                      /\ branch'[x] = "kept" /\ TypeOf[x] # "tcc" => Exists(x)' /\ ttl'[x] = 0
    BY DEF Reclaimed
  <2>1. CASE x = g
    <3>1. ~IsFinal(hash'[x].status)
      BY <1>2, <1>3, <2>1 DEF IsFinal
    <3>2. TypeOf[g] = "tcc" \/ branch[g] # "kept"
      BY <1>1 DEF IInv, Reclaimed
    <3> QED BY <1>4, <2>1, <3>1, <3>2
  <2>2. CASE x # g
    BY <1>3, <1>4, <2>2 DEF IInv, Reclaimed, Exists
  <2> QED BY <2>1, <2>2
<1>10. CopyOK'
  <2> SUFFICES ASSUME NEW w \in Workers, copy[w] # NoCopy
               PROVE  hash'[copy[w].gid] = hash[copy[w].gid]
    BY <1>1 DEF IInv, CopyOK
  <2>1. copy[w].gid \in Gids \ {g}
    BY <1>1, CopyType DEF IInv
  <2> QED BY <1>3, <2>1
<1> QED BY <1>5, <1>6, <1>7, <1>8, <1>9, <1>10 DEF IInv

-----------------------------------------------------------------------------
(***************************************************************************)
(* The theorems.                                                           *)
(***************************************************************************)

\* The empty store is right.
LEMMA InitInv == Init => IInv
<1> SUFFICES ASSUME Init PROVE IInv
  OBVIOUS
<1>1. /\ NoRow \in Row /\ NoRow.status = "absent" /\ DOMAIN index = {}
      /\ \A g \in Gids : hash[g] = NoRow /\ branch[g] = "none" /\ ttl[g] = 0
      /\ \A w \in Workers : copy[w] = NoCopy
  BY DEF Init, NoRow, Row
<1>2. TypeOK
  BY <1>1 DEF Init, TypeOK
<1>3. IndexExact
  BY <1>1, SchedulableIsDriven DEF IndexExact
<1>4. Reclaimed
  BY <1>1 DEF Reclaimed, IsFinal
<1>5. HashOK /\ TtlOK /\ RegisterOK /\ CopyOK
  BY <1>1 DEF Init, HashOK, TtlOK, RegisterOK, CopyOK
<1> QED BY <1>2, <1>3, <1>4, <1>5 DEF IInv

\* Every step of the specification keeps the invariant.
LEMMA NextInv == IInv /\ [Next]_vars => IInv'
<1> SUFFICES ASSUME IInv, [Next]_vars PROVE IInv'
  OBVIOUS
<1>1. now \in Nat
  BY DEF IInv, TypeOK
<1>2. CASE UNCHANGED vars
  BY <1>1, <1>2, QuietInv DEF vars
<1>3. CASE Tick
  BY <1>1, <1>3, QuietInv DEF Tick, redis
<1>4. ASSUME NEW g \in Gids, RegisterRead(g) \/ RegisterWrite(g) PROVE IInv'
  <2>1. UNCHANGED <<now, hash, ttl, index, recent, copy>>
    BY <1>4 DEF RegisterRead, RegisterWrite, redis
  <2> QED BY <1>1, <1>4, <2>1, QuietInv
<1>5. ASSUME NEW w \in Workers, Die(w) PROVE IInv'
  <2>1. UNCHANGED <<now, hash, branch, ttl, index, recent, register>> /\ Drops(w)
    BY <1>5 DEF Die, redis
  <2> QED BY <1>1, <2>1, QuietInv
<1>6. ASSUME NEW g \in Gids,
             Create(g) \/ Submit(g) \/ Abort(g) \/ ScheduleNow(g) \/ Expire(g)
      PROVE  IInv'
  BY <1>6, CreateInv, SubmitInv, AbortInv, ScheduleNowInv, ExpireInv
<1>7. ASSUME NEW w \in Workers, Lock(w) \/ Transition(w) \/ Release(w) PROVE IInv'
  BY <1>7, LockInv, TransitionInv, ReleaseInv
<1> QED BY <1>2, <1>3, <1>4, <1>5, <1>6, <1>7 DEF Next

\* The invariant holds in every reachable state.
THEOREM RedisStoreInvariant == Spec => []IInv
BY InitInv, NextInv, PTL DEF Spec

\* The variables keep their types.
THEOREM RedisStoreTypeCorrect == Spec => []TypeOK
<1>1. IInv => TypeOK
  BY DEF IInv
<1> QED BY <1>1, RedisStoreInvariant, PTL

\* No script leaves the index and the hashes apart, with any number of
\* transactions and candidates per lock: nothing that is to be driven is ever
\* missing from the index, and lock_one_due never finds anything to heal.
THEOREM RedisStoreIndexExact == Spec => []IndexExact
<1>1. IInv => IndexExact
  BY DEF IInv
<1> QED BY <1>1, RedisStoreInvariant, PTL

\* Whatever is over has a time limit and nothing else has one, though a TCC
\* branch may be registered late.
THEOREM RedisStoreReclaimed == Spec => []Reclaimed
<1>1. IInv => Reclaimed
  BY DEF IInv
<1> QED BY <1>1, RedisStoreInvariant, PTL

\* Redis is the store Store describes: a script that writes without a
\* comparison does what one with a comparison would do, a lock that goes by
\* the index takes only rows that are due and free, and expiry forgets only
\* what is over.
THEOREM RedisStoreImplements == Spec => Implements
<1> USE DEF Abstract!NoRow, Abstract!NoCopy, NoRow, NoCopy
<1>1. Init => Abstract!Init
  BY DEF Init, Abstract!Init
<1>2. IInv /\ [Next]_vars => [Abstract!Next]_(Abstract!vars)
  <2> SUFFICES ASSUME IInv, [Next]_vars
               PROVE  Abstract!Next \/ UNCHANGED <<now, hash, copy>>
    BY DEF Abstract!vars
  <2> USE DEF Abstract!Write, HSet, Abstract!Takes, Takes, Abstract!Drops, Drops
  <2>1. CASE Tick
    BY <2>1 DEF Tick, redis, Abstract!Tick, Abstract!Next
  <2>2. ASSUME NEW g \in Gids, Create(g) PROVE Abstract!Next
    <3>1. Abstract!Create(g)
      BY <2>2 DEF Create, CreateGlobal, Exists, Abstract!Create
    <3> QED BY <3>1 DEF Abstract!Next
  <2>3. ASSUME NEW g \in Gids, Submit(g) PROVE Abstract!Next
    <3>1. Abstract!Submit(g)
      BY <2>3 DEF Submit, Abstract!Submit
    <3> QED BY <3>1 DEF Abstract!Next
  <2>4. ASSUME NEW g \in Gids, Abort(g) PROVE Abstract!Next
    <3>1. Abstract!Abort(g)
      BY <2>4 DEF Abort, SetGlobalStatus, Abstract!Abort
    <3> QED BY <3>1 DEF Abstract!Next
  <2>5. ASSUME NEW g \in Gids, ScheduleNow(g) PROVE Abstract!Next
    <3>1. Abstract!ScheduleNow(g)
      BY <2>5 DEF ScheduleNow, Exists, Abstract!ScheduleNow
    <3> QED BY <3>1 DEF Abstract!Next
  <2>6. ASSUME NEW g \in Gids, Expire(g) PROVE Abstract!Next
    <3>1. IsFinal(hash[g].status)
      BY <2>6 DEF Expire, IInv, TtlOK
    <3>2. Abstract!Forget(g)
      BY <2>6, <3>1 DEF Expire, Abstract!Forget, IsFinal, Abstract!IsFinal
    <3> QED BY <3>2 DEF Abstract!Next
  <2>7. ASSUME NEW w \in Workers, Lock(w) PROVE Abstract!Next
    <3>1. Abstract!Lock(w)
      <4>1. PICK g \in Gids :
              /\ copy[w] = NoCopy
              /\ Schedulable(hash[g].status, TypeOf[g])
              /\ hash[g].nct <= now /\ hash[g].lease <= now
              /\ HSet(g, [hash[g] EXCEPT !.nct = now + LeaseSecs, !.lease = now + LeaseSecs])
              /\ index' = [x \in DOMAIN index |-> IF x = g THEN now + LeaseSecs ELSE index[x]]
              /\ Takes(w, g, hash[g].status, now + LeaseSecs)
        BY <2>7, LockTakes
      <4>2. Abstract!Schedulable(hash[g].status, TypeOf[g])
        BY <4>1 DEF Schedulable, Abstract!Schedulable
      <4>3. now' = now
        BY <2>7 DEF Lock
      <4> QED BY <4>1, <4>2, <4>3 DEF Abstract!Lock
    <3> QED BY <3>1 DEF Abstract!Next
  <2>8. ASSUME NEW w \in Workers, Transition(w) PROVE Abstract!Next
    <3> DEFINE g == copy[w].gid
    <3>1. PICK to \in Targets(copy[w].status, TypeOf[g]) :
              /\ SetGlobalStatus(g, to)
              /\ IF IsFinal(to) THEN Drops(w) ELSE copy' = [copy EXCEPT ![w].status = to]
      BY <2>8 DEF Transition
    <3>2. /\ g \in Gids /\ to \in GlobalStatus
          /\ hash[g].status = copy[w].status \/ (hash[g].status = to /\ IsFinal(to))
      BY <2>8, TransitionCases DEF Transition
    <3>3. /\ copy[w] # NoCopy /\ now' = now
          /\ hash' = [hash EXCEPT ![g] = [hash[g] EXCEPT !.status = to]]
      BY <2>8, <3>1 DEF Transition, SetGlobalStatus
    <3>4. CASE hash[g].status = copy[w].status
      <4>1. Abstract!Transition(w, to)
        BY <3>1, <3>3, <3>4 DEF Abstract!Transition, IsFinal, Abstract!IsFinal
      <4> QED BY <3>2, <4>1 DEF Abstract!Next, GlobalStatus, Abstract!GlobalStatus
    <3>5. CASE hash[g].status = to /\ IsFinal(to)
      <4>1. hash \in [Gids -> Row] /\ hash[g] \in Row
        BY <3>2 DEF IInv, TypeOK
      <4>2. [hash[g] EXCEPT !.status = to] = hash[g]
        BY <3>5, <4>1 DEF Row
      <4>3. hash' = hash
        BY <3>3, <4>1, <4>2
      <4>4. Abstract!Die(w)
        BY <3>1, <3>3, <3>5, <4>3 DEF Abstract!Die
      <4> QED BY <4>4 DEF Abstract!Next
    <3> QED BY <3>2, <3>4, <3>5
  <2>9. ASSUME NEW w \in Workers, Release(w) PROVE Abstract!Next
    <3> DEFINE g == copy[w].gid
    <3>1. Drops(w) /\ now' = now /\ copy[w] # NoCopy /\ g \in Gids
      BY <2>9, ReleaseWrites DEF Release
    <3>2. CASE hash[g].lease # copy[w].lease /\ UNCHANGED hash
      <4>1. Abstract!Release(w)
        BY <3>1, <3>2 DEF Abstract!Release
      <4> QED BY <4>1 DEF Abstract!Next
    <3>3. CASE /\ hash[g].lease = copy[w].lease
               /\ \E d \in {0, BackOff} :
                    LET nct == IF hash[g].nct < hash[g].lease THEN hash[g].nct ELSE now + d
                    IN HSet(g, [hash[g] EXCEPT !.nct = nct, !.lease = 0])
      <4>1. PICK d \in {0, BackOff} :
              LET nct == IF hash[g].nct < hash[g].lease THEN hash[g].nct ELSE now + d
              IN HSet(g, [hash[g] EXCEPT !.nct = nct, !.lease = 0])
        BY <3>3
      <4> DEFINE nct == IF hash[g].nct < hash[g].lease THEN hash[g].nct ELSE now + d
      <4>2. hash[g] \in Row
        BY <3>1 DEF IInv, TypeOK
      <4>3. [hash[g] EXCEPT !.nct = nct, !.lease = 0]
              = [hash[g] EXCEPT !.lease = 0, !.nct = IF @ < hash[g].lease THEN @ ELSE now + d]
        BY <4>2 DEF Row
      <4>4. hash' = [hash EXCEPT ![g] =
              [hash[g] EXCEPT !.lease = 0, !.nct = IF @ < hash[g].lease THEN @ ELSE now + d]]
        BY <4>1, <4>3
      <4>5. Abstract!Release(w)
        BY <3>1, <3>3, <4>4 DEF Abstract!Release
      <4> QED BY <4>5 DEF Abstract!Next
    <3> QED BY <2>9, <3>2, <3>3, ReleaseWrites
  <2>10. ASSUME NEW w \in Workers, Die(w) PROVE Abstract!Next
    <3>1. Abstract!Die(w)
      BY <2>10 DEF Die, redis, Abstract!Die
    <3> QED BY <3>1 DEF Abstract!Next
  <2>11. ASSUME NEW g \in Gids, RegisterRead(g) \/ RegisterWrite(g)
         PROVE  UNCHANGED <<now, hash, copy>>
    BY <2>11 DEF RegisterRead, RegisterWrite, redis
  <2>12. CASE UNCHANGED vars
    BY <2>12 DEF vars
  <2> QED BY <2>1, <2>2, <2>3, <2>4, <2>5, <2>6, <2>7, <2>8, <2>9, <2>10, <2>11, <2>12 DEF Next
<1> QED BY <1>1, <1>2, RedisStoreInvariant, PTL DEF Spec, Implements, Abstract!Spec

-----------------------------------------------------------------------------
(***************************************************************************)
(* The barrier.  Its inductive invariant says, transaction by transaction, *)
(* what the keys prove about the pieces taken.                             *)
(***************************************************************************)

\* The keys of a transaction that is over have expired.
KeysGone(g) == IsFinal(status[g]) /\ keys[g]["action"] = "none"

\* What the keys say a transaction holds: its action's own key is a piece taken
\* unless the script refused, a compensation that met that key a piece given back.
Proven(g) ==
  (IF keys[g]["action"] = "cur" /\ g \notin refused THEN 1 ELSE 0)
  - (IF keys[g]["action"] = "cur" /\ keys[g]["compensate"] = "cur" THEN 1 ELSE 0)

\* What is taken is what the keys say as long as they are there, and then what
\* the status says.
BookOK(g) ==
  IF KeysGone(g)
  THEN /\ keys[g]["compensate"] = "none"
       /\ taken[g] <= IF status[g] = "succeed" THEN 1 ELSE 0
       /\ g \notin refused => taken[g] = IF status[g] = "succeed" THEN 1 ELSE 0
  ELSE /\ taken[g] = Proven(g)
       /\ g \in refused => keys[g]["action"] = "cur"

\* A saga: compensations are called only on the way back, an answer that was
\* recorded has left its key, and no call outlives the keys.
SagaOK(g) ==
  /\ status[g] # "prepared"
  /\ keys[g]["action"] \in {"none", "cur", "origin"}
  /\ keys[g]["compensate"] \in {"none", "cur"}
  /\ status[g] \in {"submitted", "succeed"} =>
       /\ keys[g]["compensate"] = "none" /\ <<g, "compensate">> \notin sent
       /\ row[g]["compensate"][1] = "prepared"
  /\ keys[g]["compensate"] = "cur" => keys[g]["action"] # "none"
  /\ keys[g]["action"] = "origin" => keys[g]["compensate"] = "cur"
  /\ row[g]["action"][1] # "prepared" => keys[g]["action"] # "none" \/ KeysGone(g)
  /\ row[g]["compensate"][1] # "prepared" => keys[g]["compensate"] = "cur" \/ KeysGone(g)
  /\ status[g] = "succeed" => row[g]["action"][1] = "succeed"
  /\ status[g] = "failed" => row[g]["compensate"][1] # "prepared"
  /\ KeysGone(g) => \A op \in Ops : <<g, op>> \notin sent

\* A message: the local transaction and the check-back decide by one key.
MsgOK(g) ==
  LET k == keys[g]["action"]
      turned == k = "rollback" \/ (k = "cur" /\ g \in refused)
  IN /\ k \in {"none", "cur", "rollback"} /\ keys[g]["compensate"] = "none"
     /\ caller[g] = "prepared" => k \in {"none", "rollback"}
     /\ caller[g] = "committed" => k = "cur" /\ g \notin refused
     /\ caller[g] = "failed" => turned
     /\ status[g] = "submitted" => k = "cur"
     /\ status[g] = "succeed" => k = "cur" \/ KeysGone(g)
     /\ status[g] = "aborting" => turned
     /\ status[g] = "failed" => turned \/ KeysGone(g)
     /\ KeysGone(g) => caller[g] = "gone"

BarrierInv ==
  /\ BarrierTypeOK
  /\ \A g \in Gid : BookOK(g)
  /\ \A g \in Sagas : SagaOK(g)
  /\ \A g \in Msgs : MsgOK(g)

-----------------------------------------------------------------------------
\* A step that leaves transaction g alone.
Same(g) ==
  /\ keys'[g] = keys[g] /\ status'[g] = status[g] /\ taken'[g] = taken[g]
  /\ g \in Sagas => row'[g] = row[g]
  /\ g \in Msgs => caller'[g] = caller[g]
  /\ g \in refused' <=> g \in refused
  /\ \A op \in Ops : <<g, op>> \in sent' <=> <<g, op>> \in sent

\* Who is left alone stays as it was.
LEMMA SameKeepsBook ==
  ASSUME NEW g \in Gid, Same(g), BookOK(g)
  PROVE  BookOK(g)'
BY DEF Same, BookOK, KeysGone, Proven

LEMMA SameKeepsSaga ==
  ASSUME NEW g \in Sagas, Same(g), SagaOK(g)
  PROVE  SagaOK(g)'
<1>1. keys'[g] = keys[g] /\ status'[g] = status[g] /\ row'[g] = row[g]
  BY DEF Same
<1>2. \A op \in Ops : <<g, op>> \in sent' <=> <<g, op>> \in sent
  BY DEF Same
<1>3. <<g, "compensate">> \in sent' <=> <<g, "compensate">> \in sent
  BY <1>2 DEF Ops
<1>4. KeysGone(g)' <=> KeysGone(g)
  BY <1>1 DEF KeysGone
<1> QED BY <1>1, <1>2, <1>3, <1>4 DEF SagaOK

LEMMA SameKeepsMsg ==
  ASSUME NEW g \in Msgs, Same(g), MsgOK(g)
  PROVE  MsgOK(g)'
BY DEF Same, MsgOK, KeysGone

\* It is enough to look at the transaction a step is about.
LEMMA OneMoves ==
  ASSUME BarrierInv, BarrierTypeOK', NEW g \in Gid,
         \A x \in Gid \ {g} : Same(x),
         BookOK(g)', g \in Sagas => SagaOK(g)', g \in Msgs => MsgOK(g)'
  PROVE  BarrierInv'
<1>1. \A x \in Gid : BookOK(x)'
  BY SameKeepsBook DEF BarrierInv
<1>2. \A x \in Sagas : SagaOK(x)'
  <2> TAKE x \in Sagas
  <2>1. x \in Gid
    BY DEF Gid
  <2>2. CASE x # g
    BY <2>1, <2>2, SameKeepsSaga DEF BarrierInv
  <2> QED BY <2>2
<1>3. \A x \in Msgs : MsgOK(x)'
  <2> TAKE x \in Msgs
  <2>1. x \in Gid
    BY DEF Gid
  <2>2. CASE x # g
    BY <2>1, <2>2, SameKeepsMsg DEF BarrierInv
  <2> QED BY <2>2
<1> QED BY <1>1, <1>2, <1>3 DEF BarrierInv

\* A step that leaves every transaction alone keeps the invariant.
LEMMA NobodyMoves ==
  ASSUME BarrierInv, BarrierTypeOK', \A x \in Gid : Same(x)
  PROVE  BarrierInv'
<1>1. \A x \in Gid : BookOK(x)'
  BY SameKeepsBook DEF BarrierInv
<1>2. \A x \in Sagas : SagaOK(x)'
  BY SameKeepsSaga DEF BarrierInv, Gid
<1>3. \A x \in Msgs : MsgOK(x)'
  BY SameKeepsMsg DEF BarrierInv, Gid
<1> QED BY <1>1, <1>2, <1>3 DEF BarrierInv

\* What all runs of the script have in common.
LEMMA RunFrame ==
  ASSUME BarrierTypeOK, NEW g \in Gid, NEW op \in Ops, NEW r, Run(g, op, r)
  PROVE  /\ keys' \in [Gid -> [Ops -> {"none", "cur", "origin", "rollback"}]]
         /\ stock' \in Nat /\ taken' \in [Gid -> Int] /\ refused' \subseteq Gid
         /\ \A x \in Gid \ {g} : /\ keys'[x] = keys[x] /\ taken'[x] = taken[x]
                                 /\ x \in refused' <=> x \in refused
<1>1. keys' = [keys EXCEPT ![g] = Occupy(keys[g], op)]
  BY DEF Run
<1>2. Occupy(keys[g], op) \in [Ops -> {"none", "cur", "origin", "rollback"}]
  BY DEF Occupy, BarrierTypeOK
<1>3. keys' \in [Gid -> [Ops -> {"none", "cur", "origin", "rollback"}]]
  BY <1>1, <1>2 DEF BarrierTypeOK
<1> DEFINE amount == IF op = "action" THEN -1 ELSE 1
<1>4. amount \in Int
  OBVIOUS
<1>5. r = "Executed" => Adjustable(amount)
  BY DEF Run, Outcome
<1>6. stock' = IF r = "Executed" THEN stock + amount ELSE stock
  BY DEF Run
<1>7. stock' \in Nat
  BY <1>4, <1>5, <1>6 DEF Adjustable, BarrierTypeOK
<1>8. taken' = IF r = "Executed" THEN [taken EXCEPT ![g] = @ - amount] ELSE taken
  BY DEF Run
<1>9. refused' = IF r = "Failure" THEN refused \cup {g} ELSE refused
  BY DEF Run
<1> HIDE DEF amount
<1>10. taken' \in [Gid -> Int] /\ \A x \in Gid \ {g} : taken'[x] = taken[x]
  BY <1>4, <1>8 DEF BarrierTypeOK
<1>11. refused' \subseteq Gid /\ \A x \in Gid \ {g} : x \in refused' <=> x \in refused
  BY <1>9 DEF BarrierTypeOK
<1>12. \A x \in Gid \ {g} : keys'[x] = keys[x]
  BY <1>1 DEF BarrierTypeOK
<1> QED BY <1>3, <1>7, <1>10, <1>11, <1>12

\* The script of an action: a key that is there stops it, otherwise it leaves
\* its own and takes a piece or is refused.
LEMMA RunAction ==
  ASSUME BarrierTypeOK, NEW g \in Gid, NEW r, Run(g, "action", r)
  PROVE  /\ keys'[g]["compensate"] = keys[g]["compensate"]
         /\ \/ /\ r = "Duplicated" /\ keys[g]["action"] # "none"
               /\ keys'[g]["action"] = keys[g]["action"]
               /\ taken'[g] = taken[g] /\ refused' = refused
            \/ /\ r = "Executed" /\ keys[g]["action"] = "none" /\ keys'[g]["action"] = "cur"
               /\ taken'[g] = taken[g] + 1 /\ refused' = refused
            \/ /\ r = "Failure" /\ keys[g]["action"] = "none" /\ keys'[g]["action"] = "cur"
               /\ taken'[g] = taken[g] /\ refused' = refused \cup {g}
<1>1. "action" \in Ops /\ "compensate" \in Ops
  BY DEF Ops
<1>2. OriginOp("action") = "none"
  BY DEF OriginOp
<1>3. keys' = [keys EXCEPT ![g] = Occupy(keys[g], "action")]
  BY DEF Run
<1>4. keys'[g] = Occupy(keys[g], "action")
  BY <1>3 DEF BarrierTypeOK
<1>5. /\ keys'[g]["compensate"] = keys[g]["compensate"]
      /\ keys'[g]["action"] = IF keys[g]["action"] # "none" THEN keys[g]["action"] ELSE "cur"
  BY <1>1, <1>2, <1>4 DEF Occupy, BarrierTypeOK
<1>6. ~IsCompensating("action")
  BY <1>2 DEF IsCompensating
<1>7. r = IF keys[g]["action"] # "none" THEN "Duplicated"
          ELSE IF Adjustable(-1) THEN "Executed" ELSE "Failure"
  BY <1>1, <1>6 DEF Run, Outcome, Held
<1>8. r = "Executed" => taken'[g] = taken[g] + 1
  BY DEF Run, BarrierTypeOK
<1>9. r # "Executed" => taken' = taken
  BY DEF Run
<1>10. refused' = IF r = "Failure" THEN refused \cup {g} ELSE refused
  BY DEF Run
<1> QED BY <1>5, <1>7, <1>8, <1>9, <1>10

\* The script of a compensation leaves both keys; it gives a piece back only
\* if the action's key was there and its own was not, and is never refused.
LEMMA RunCompensate ==
  ASSUME BarrierTypeOK, NEW g \in Gid, NEW r, Run(g, "compensate", r),
         keys[g]["compensate"] \in {"none", "cur"}
  PROVE  /\ keys'[g]["compensate"] = "cur" /\ refused' = refused
         /\ \/ /\ keys[g]["action"] = "none" /\ keys'[g]["action"] = "origin"
               /\ taken'[g] = taken[g]
            \/ /\ keys[g]["action"] # "none" /\ keys'[g]["action"] = keys[g]["action"]
               /\ taken'[g] = IF keys[g]["compensate"] = "cur" THEN taken[g] ELSE taken[g] - 1
<1>1. "action" \in Ops /\ "compensate" \in Ops
  BY DEF Ops
<1>2. OriginOp("compensate") = "action"
  BY DEF OriginOp
<1>3. keys' = [keys EXCEPT ![g] = Occupy(keys[g], "compensate")]
  BY DEF Run
<1>4. keys'[g] = Occupy(keys[g], "compensate")
  BY <1>3 DEF BarrierTypeOK
<1>5. /\ keys'[g]["compensate"] = "cur"
      /\ keys'[g]["action"] = IF keys[g]["action"] # "none" THEN keys[g]["action"] ELSE "origin"
  BY <1>1, <1>2, <1>4 DEF Occupy, BarrierTypeOK
<1>6. IsCompensating("compensate")
  BY <1>2 DEF IsCompensating
<1>7. Adjustable(1)
  BY DEF Adjustable, BarrierTypeOK
<1>8. r = IF keys[g]["action"] = "none" THEN "NullCompensation"
          ELSE IF keys[g]["compensate"] # "none" THEN "Duplicated" ELSE "Executed"
  BY <1>1, <1>2, <1>6, <1>7 DEF Run, Outcome, Held
<1>9. r = "Executed" => taken'[g] = taken[g] - 1
  BY DEF Run, BarrierTypeOK
<1>10. r # "Executed" => taken' = taken
  BY DEF Run
<1>11. refused' = refused
  BY <1>8 DEF Run
<1> QED BY <1>5, <1>8, <1>9, <1>10, <1>11

\* A script keeps the books of a transaction whose keys are there or which is
\* under way.
LEMMA RunBook ==
  ASSUME BarrierTypeOK, NEW g \in Gid, NEW op \in Ops, NEW r, Run(g, op, r),
         ~KeysGone(g), BookOK(g), status'[g] = status[g],
         keys[g]["compensate"] \in {"none", "cur"},
         keys[g]["action"] = "none" => keys[g]["compensate"] = "none",
         op = "compensate" /\ keys[g]["compensate"] = "none" => keys[g]["action"] \in {"none", "cur"}
  PROVE  BookOK(g)' /\ ~KeysGone(g)'
<1>1. taken[g] = Proven(g) /\ (g \in refused => keys[g]["action"] = "cur") /\ taken[g] \in Int
  BY DEF BookOK, BarrierTypeOK
<1>2. CASE op = "action"
  <2>1. keys'[g]["action"] # "none"
    BY <1>2, RunAction
  <2>2. taken'[g] = Proven(g)' /\ (g \in refused' => keys'[g]["action"] = "cur")
    BY <1>1, <1>2, RunAction DEF Proven
  <2> QED BY <2>1, <2>2 DEF BookOK, KeysGone
<1>3. CASE op = "compensate"
  <2>1. keys'[g]["action"] # "none"
    BY <1>3, RunCompensate
  <2>2. g \in refused' => keys'[g]["action"] = "cur"
    BY <1>1, <1>3, RunCompensate
  <2>3. taken'[g] = Proven(g)'
    BY <1>1, <1>3, RunCompensate DEF Proven
  <2> QED BY <2>1, <2>2, <2>3 DEF BookOK, KeysGone
<1> QED BY <1>2, <1>3 DEF Ops

\* A script of a saga, called on the way there (its action) or back, whether or
\* not its answer is recorded.
LEMMA RunSaga ==
  ASSUME BarrierInv, NEW g \in Sagas, NEW op \in Ops, NEW r, Run(g, op, r),
         ~KeysGone(g), op = "compensate" => status[g] \in {"aborting", "failed"},
         status'[g] = status[g], sent' = sent,
         \A o \in Ops : row'[g][o][1] = row[g][o][1] \/ (o = op /\ row'[g][o][1] \in BranchStatus),
         ~IsFinal(status[g]) \/ row' = row
  PROVE  BookOK(g)' /\ SagaOK(g)'
<1>1. g \in Gid /\ BarrierTypeOK /\ SagaOK(g) /\ BookOK(g)
  BY DEF Gid, BarrierInv
<1>2. /\ keys[g]["compensate"] \in {"none", "cur"}
      /\ keys[g]["action"] = "none" => keys[g]["compensate"] = "none"
      /\ keys[g]["compensate"] = "none" => keys[g]["action"] \in {"none", "cur"}
  BY <1>1 DEF SagaOK
<1>3. BookOK(g)' /\ ~KeysGone(g)'
  BY <1>1, <1>2, RunBook
<1>4. CASE op = "action"
  <2>1. row'[g]["compensate"][1] = row[g]["compensate"][1]
    BY <1>4 DEF Ops
  <2>2. /\ keys'[g]["compensate"] = keys[g]["compensate"]
        /\ keys'[g]["action"] # "none"
        /\ keys'[g]["action"] = keys[g]["action"]
           \/ (keys[g]["action"] = "none" /\ keys'[g]["action"] = "cur")
    BY <1>1, <1>4, RunAction
  <2> QED BY <1>1, <1>3, <2>1, <2>2 DEF SagaOK, IsFinal
<1>5. CASE op = "compensate"
  <2>1. row'[g]["action"][1] = row[g]["action"][1]
    BY <1>5 DEF Ops
  <2>2. /\ keys'[g]["compensate"] = "cur" /\ keys'[g]["action"] \in {"cur", "origin"}
    BY <1>1, <1>2, <1>5, RunCompensate DEF SagaOK
  <2> QED BY <1>1, <1>3, <1>5, <2>1, <2>2 DEF SagaOK, IsFinal
<1> QED BY <1>3, <1>4, <1>5 DEF Ops

\* What saga_advance wants of a saga's rows.
LEMMA DecisionCases ==
  ASSUME BarrierInv, NEW g \in Sagas
  PROVE  \/ /\ status[g] = "submitted" /\ Decision(g) = Finish("succeed")
            /\ row[g]["action"][1] = "succeed"
         \/ status[g] = "submitted" /\ Decision(g) = Finish("aborting")
         \/ status[g] = "submitted" /\ \E i \in 1 .. 2 : Decision(g) = Call("action", i)
         \/ /\ status[g] = "aborting" /\ Decision(g) = Finish("failed")
            /\ row[g]["compensate"][1] # "prepared"
         \/ status[g] = "aborting" /\ \E i \in 1 .. 2 : Decision(g) = Call("compensate", i)
         \/ IsFinal(status[g]) /\ Decision(g) = Finish(status[g])
<1>1. status[g] \in {"submitted", "aborting", "succeed", "failed"}
  BY DEF BarrierInv, BarrierTypeOK, SagaOK, Gid, GlobalStatus
<1>2. /\ row[g]["action"] \in [1 .. 2 -> BranchStatus]
      /\ row[g]["compensate"] \in [1 .. 2 -> BranchStatus]
  BY DEF BarrierInv, BarrierTypeOK, Ops
<1>3. CASE status[g] = "submitted"
  <2>1. Decision(g) = SagaForward(row[g]["action"])
    BY <1>3 DEF Decision, SagaAdvance
  <2>2. \/ SagaForward(row[g]["action"]) = Finish("succeed") /\ \A i \in 1 .. 2 : row[g]["action"][i] = "succeed"
        \/ SagaForward(row[g]["action"]) = Finish("aborting")
        \/ \E i \in 1 .. 2 : SagaForward(row[g]["action"]) = Call("action", i)
    <3>1. 2 \in Nat
      OBVIOUS
    <3> QED BY <1>2, <3>1, SagaForwardCases
  <2>3. 1 \in 1 .. 2
    OBVIOUS
  <2> QED BY <1>3, <2>1, <2>2, <2>3
<1>4. CASE status[g] = "aborting"
  <2>1. Decision(g) = SagaBackward(row[g]["compensate"])
    BY <1>4 DEF Decision, SagaAdvance
  <2>2. \/ /\ SagaBackward(row[g]["compensate"]) = Finish("failed")
           /\ \A i \in 1 .. 2 : row[g]["compensate"][i] # "prepared"
        \/ \E i \in 1 .. 2 : SagaBackward(row[g]["compensate"]) = Call("compensate", i)
    <3>1. 2 \in Nat
      OBVIOUS
    <3> QED BY <1>2, <3>1, SagaBackwardCases
  <2>3. 1 \in 1 .. 2
    OBVIOUS
  <2> QED BY <1>4, <2>1, <2>2, <2>3
<1>5. CASE IsFinal(status[g])
  BY <1>5 DEF Decision, SagaAdvance, IsFinal
<1> QED BY <1>1, <1>3, <1>4, <1>5 DEF IsFinal

\* A call of a branch goes the way the status says.
LEMMA CallsWay ==
  ASSUME BarrierInv, NEW g \in Sagas, NEW i, Calls(g, i)
  PROVE  \/ status[g] = "submitted" /\ Decision(g).op = "action"
         \/ status[g] = "aborting" /\ Decision(g).op = "compensate"
BY DecisionCases DEF Calls, Call, Finish

\* Each action of a saga keeps the invariant.
LEMMA CallBranchInv ==
  ASSUME BarrierInv, NEW g \in Sagas, CallBranch(g)
  PROVE  BarrierInv'
<1> DEFINE op == Decision(g).op
<1>1. PICK r \in {"Executed", "NullCompensation", "Duplicated", "Failure"} :
        Run(g, op, r) /\ row' = [row EXCEPT ![g][op][1] = Answer(r)]
  BY DEF CallBranch
<1>2. /\ status' = status /\ caller' = caller /\ sent' = sent /\ added' = added
      /\ Calls(g, 1)
  BY DEF CallBranch
<1>3. \/ status[g] = "submitted" /\ op = "action"
      \/ status[g] = "aborting" /\ op = "compensate"
  BY <1>2, CallsWay
<1> HIDE DEF op
<1>4. g \in Gid /\ op \in Ops /\ BarrierTypeOK
  BY <1>3 DEF Gid, Ops, BarrierInv
<1>5. Answer(r) \in BranchStatus
  BY DEF Answer, BranchStatus
<1>6. row' \in [Sagas -> [Ops -> [1 .. 2 -> BranchStatus]]]
  <2>1. 1 \in 1 .. 2
    OBVIOUS
  <2> QED BY <1>1, <1>4, <1>5, <2>1 DEF BarrierTypeOK
<1>7. /\ \A o \in Ops : row'[g][o][1] = row[g][o][1] \/ (o = op /\ row'[g][o][1] \in BranchStatus)
      /\ \A x \in Sagas \ {g} : row'[x] = row[x]
  BY <1>1, <1>4, <1>5 DEF BarrierTypeOK
<1>8. ~IsFinal(status[g]) /\ ~KeysGone(g)
  BY <1>3 DEF IsFinal, KeysGone
<1>9. BookOK(g)' /\ SagaOK(g)'
  BY <1>1, <1>2, <1>3, <1>4, <1>7, <1>8, RunSaga
<1>10. g \notin Msgs
  BY DisjointAssumption
<1>11. BarrierTypeOK'
  BY <1>1, <1>2, <1>4, <1>6, RunFrame DEF BarrierTypeOK
<1>12. \A x \in Gid \ {g} : Same(x)
  BY <1>1, <1>2, <1>4, <1>7, RunFrame DEF Same
<1> QED BY <1>4, <1>9, <1>10, <1>11, <1>12, OneMoves

LEMMA CallLostInv ==
  ASSUME BarrierInv, NEW g \in Sagas, CallLost(g)
  PROVE  BarrierInv'
<1> DEFINE op == Decision(g).op
<1>1. /\ sent' = sent \cup {<<g, op>>} /\ stock' = stock /\ keys' = keys /\ status' = status
      /\ row' = row /\ caller' = caller /\ taken' = taken /\ refused' = refused
      /\ added' = added /\ Calls(g, 1)
  BY DEF CallLost
<1>2. \/ status[g] = "submitted" /\ op = "action"
      \/ status[g] = "aborting" /\ op = "compensate"
  BY <1>1, CallsWay
<1> HIDE DEF op
<1>3. g \in Gid /\ op \in Ops /\ BarrierTypeOK /\ SagaOK(g) /\ BookOK(g) /\ g \notin Msgs
  BY <1>2, DisjointAssumption DEF Gid, Ops, BarrierInv
<1>4. BarrierTypeOK'
  BY <1>1, <1>3 DEF BarrierTypeOK
<1>5. \A x \in Gid \ {g} : Same(x)
  BY <1>1 DEF Same
<1>6. BookOK(g)' /\ ~KeysGone(g)'
  BY <1>1, <1>2, <1>3 DEF BookOK, KeysGone, Proven, IsFinal
<1>7. SagaOK(g)'
  <2>1. status[g] = "submitted" => <<g, "compensate">> \notin sent'
    <3>1. <<g, "compensate">> # <<g, "action">>
      OBVIOUS
    <3> QED BY <1>1, <1>2, <1>3, <3>1 DEF SagaOK
  <2>2. status[g] # "succeed"
    BY <1>2
  <2>3. KeysGone(g)' = FALSE
    BY <1>6
  <2> QED BY <1>1, <1>3, <2>1, <2>2, <2>3 DEF SagaOK, KeysGone
<1> QED BY <1>3, <1>4, <1>5, <1>6, <1>7, OneMoves

LEMMA StrayInv ==
  ASSUME BarrierInv, NEW g \in Sagas, NEW op \in Ops, Stray(g, op)
  PROVE  BarrierInv'
<1>1. PICK r \in {"Executed", "NullCompensation", "Duplicated", "Failure"} : Run(g, op, r)
  BY DEF Stray
<1>2. /\ status' = status /\ row' = row /\ caller' = caller /\ sent' = sent /\ added' = added
      /\ <<g, op>> \in sent
  BY DEF Stray
<1>3. g \in Gid /\ BarrierTypeOK /\ SagaOK(g) /\ g \notin Msgs
  BY DisjointAssumption DEF Gid, BarrierInv
<1>4. ~KeysGone(g)
  BY <1>2, <1>3 DEF SagaOK
<1>5. op = "compensate" => status[g] \in {"aborting", "failed"}
  <2>1. status[g] \in GlobalStatus \ {"prepared"}
    BY <1>3 DEF SagaOK, BarrierTypeOK
  <2>2. status[g] \in {"submitted", "succeed"} => <<g, "compensate">> \notin sent
    BY <1>3 DEF SagaOK
  <2> QED BY <1>2, <2>1, <2>2 DEF GlobalStatus
<1>6. BookOK(g)' /\ SagaOK(g)'
  BY <1>1, <1>2, <1>4, <1>5, RunSaga
<1>7. BarrierTypeOK'
  BY <1>1, <1>2, <1>3, RunFrame DEF BarrierTypeOK
<1>8. \A x \in Gid \ {g} : Same(x)
  BY <1>1, <1>2, <1>3, RunFrame DEF Same
<1> QED BY <1>3, <1>6, <1>7, <1>8, OneMoves

LEMMA CallElsewhereInv ==
  ASSUME BarrierInv, NEW g \in Sagas, NEW r \in {"succeed", "failed"}, CallElsewhere(g, r)
  PROVE  BarrierInv'
<1> DEFINE op == Decision(g).op
<1>1. /\ row' = [row EXCEPT ![g][op][2] = r] /\ stock' = stock /\ keys' = keys
      /\ status' = status /\ caller' = caller /\ sent' = sent /\ taken' = taken
      /\ refused' = refused /\ added' = added /\ Calls(g, 2)
  BY DEF CallElsewhere
<1>2. op \in Ops
  BY <1>1, CallsWay DEF Ops
<1> HIDE DEF op
<1>3. g \in Gid /\ BarrierTypeOK /\ SagaOK(g) /\ BookOK(g) /\ g \notin Msgs
  BY DisjointAssumption DEF Gid, BarrierInv
<1>4. row' \in [Sagas -> [Ops -> [1 .. 2 -> BranchStatus]]]
  <2>1. 2 \in 1 .. 2 /\ r \in BranchStatus
    BY DEF BranchStatus
  <2> QED BY <1>1, <1>2, <1>3, <2>1 DEF BarrierTypeOK
<1>5. /\ \A o \in Ops : row'[g][o][1] = row[g][o][1]
      /\ \A x \in Sagas \ {g} : row'[x] = row[x]
  BY <1>1, <1>2, <1>3 DEF BarrierTypeOK
<1>6. BarrierTypeOK'
  BY <1>1, <1>3, <1>4 DEF BarrierTypeOK
<1>7. \A x \in Gid \ {g} : Same(x)
  BY <1>1, <1>5 DEF Same
<1>8. BookOK(g)' /\ (KeysGone(g)' <=> KeysGone(g))
  BY <1>1, <1>3 DEF BookOK, KeysGone, Proven
<1>9. /\ row'[g]["action"][1] = row[g]["action"][1]
      /\ row'[g]["compensate"][1] = row[g]["compensate"][1]
  BY <1>5 DEF Ops
<1>10. SagaOK(g)'
  BY <1>1, <1>3, <1>8, <1>9 DEF SagaOK
<1> QED BY <1>3, <1>6, <1>7, <1>8, <1>10, OneMoves

\* The end of a saga: the keys of what was recorded are still there, so the
\* books say what the status promises.
LEMMA FinishSagaInv ==
  ASSUME BarrierInv, NEW g \in Sagas, FinishSaga(g) \/ AbortSaga(g)
  PROVE  BarrierInv'
<1>1. PICK s \in GlobalStatus :
        /\ status' = [status EXCEPT ![g] = s]
        /\ \/ status[g] = "submitted" /\ s = "succeed" /\ row[g]["action"][1] = "succeed"
           \/ status[g] = "submitted" /\ s = "aborting"
           \/ status[g] = "aborting" /\ s = "failed" /\ row[g]["compensate"][1] # "prepared"
  <2>1. CASE FinishSaga(g)
    <3>1. ~IsFinal(status[g]) /\ Decision(g).kind = "finish"
          /\ status' = [status EXCEPT ![g] = Decision(g).to]
      BY <2>1 DEF FinishSaga
    <3>2. \/ /\ status[g] = "submitted" /\ Decision(g).to = "succeed"
             /\ row[g]["action"][1] = "succeed"
          \/ status[g] = "submitted" /\ Decision(g).to = "aborting"
          \/ /\ status[g] = "aborting" /\ Decision(g).to = "failed"
             /\ row[g]["compensate"][1] # "prepared"
      BY <3>1, DecisionCases DEF Finish, Call
    <3>3. Decision(g).to \in GlobalStatus
      BY <3>2 DEF GlobalStatus
    <3> QED BY <3>1, <3>2, <3>3
  <2>2. CASE AbortSaga(g)
    BY <2>2 DEF AbortSaga, GlobalStatus
  <2> QED BY <2>1, <2>2
<1>2. /\ stock' = stock /\ keys' = keys /\ row' = row /\ caller' = caller /\ sent' = sent
      /\ taken' = taken /\ refused' = refused /\ added' = added
  BY DEF FinishSaga, AbortSaga
<1>3. g \in Gid /\ BarrierTypeOK /\ SagaOK(g) /\ BookOK(g) /\ g \notin Msgs
  BY DisjointAssumption DEF Gid, BarrierInv
<1>4. status'[g] = s /\ \A x \in Gid \ {g} : status'[x] = status[x]
  BY <1>1, <1>3 DEF BarrierTypeOK
<1>5. BarrierTypeOK'
  BY <1>1, <1>2, <1>3 DEF BarrierTypeOK
<1>6. \A x \in Gid \ {g} : Same(x)
  BY <1>2, <1>4 DEF Same
<1>7. ~KeysGone(g) /\ ~KeysGone(g)'
  BY <1>1, <1>2, <1>3, <1>4 DEF KeysGone, IsFinal, SagaOK
<1>8. BookOK(g)'
  BY <1>2, <1>3, <1>7 DEF BookOK, Proven
<1>9. SagaOK(g)'
  BY <1>1, <1>2, <1>3, <1>4, <1>7 DEF SagaOK
<1> QED BY <1>3, <1>5, <1>6, <1>8, <1>9, OneMoves

\* Each action of a message keeps the invariant.
LEMMA LocalInv ==
  ASSUME BarrierInv, NEW g \in Msgs, Local(g)
  PROVE  BarrierInv'
<1>1. PICK r \in {"Executed", "Duplicated", "Failure"} :
        /\ Run(g, "action", r)
        /\ caller' = [caller EXCEPT ![g] = IF r = "Executed" THEN "committed" ELSE "failed"]
  BY DEF Local
<1>2. /\ status' = status /\ row' = row /\ sent' = sent /\ added' = added
      /\ caller[g] = "prepared"
  BY DEF Local
<1>3. /\ g \in Gid /\ "action" \in Ops /\ BarrierTypeOK /\ MsgOK(g) /\ BookOK(g)
      /\ g \notin Sagas
  BY DisjointAssumption DEF Gid, Ops, BarrierInv
<1>4. /\ caller' \in [Msgs -> {"prepared", "committed", "failed", "gone"}]
      /\ caller'[g] = IF r = "Executed" THEN "committed" ELSE "failed"
      /\ \A x \in Msgs \ {g} : caller'[x] = caller[x]
  BY <1>1, <1>3 DEF BarrierTypeOK
<1>5. BarrierTypeOK'
  BY <1>1, <1>2, <1>3, <1>4, RunFrame DEF BarrierTypeOK
<1>6. \A x \in Gid \ {g} : Same(x)
  BY <1>1, <1>2, <1>3, <1>4, RunFrame DEF Same
<1>7. ~KeysGone(g) /\ keys[g]["compensate"] = "none" /\ keys[g]["action"] \in {"none", "rollback"}
  BY <1>2, <1>3 DEF MsgOK
<1>8. g \notin refused
  BY <1>3, <1>7 DEF BookOK
<1>9. BookOK(g)' /\ ~KeysGone(g)'
  BY <1>1, <1>2, <1>3, <1>7, RunBook
<1>10. /\ keys'[g]["compensate"] = "none"
       /\ \/ /\ r = "Duplicated" /\ keys[g]["action"] = "rollback"
             /\ keys'[g]["action"] = "rollback" /\ g \notin refused'
          \/ /\ r = "Executed" /\ keys[g]["action"] = "none" /\ keys'[g]["action"] = "cur"
             /\ g \notin refused'
          \/ /\ r = "Failure" /\ keys[g]["action"] = "none" /\ keys'[g]["action"] = "cur"
             /\ g \in refused'
  BY <1>1, <1>3, <1>7, <1>8, RunAction
<1>11. MsgOK(g)'
  BY <1>2, <1>3, <1>4, <1>7, <1>8, <1>9, <1>10 DEF MsgOK
<1> QED BY <1>3, <1>5, <1>6, <1>9, <1>11, OneMoves

\* A step of a message that runs no script: the caller's own and the status.
LEMMA MsgMoves ==
  ASSUME BarrierInv, NEW g \in Msgs, NEW s \in GlobalStatus,
         NEW c \in {"prepared", "committed", "failed", "gone"},
         status' = [status EXCEPT ![g] = s], caller' = [caller EXCEPT ![g] = c],
         stock' = stock, keys' = keys, row' = row, sent' = sent, taken' = taken,
         refused' = refused, added' = added,
         c = caller[g] \/ c = "gone",
         \/ s = status[g]
         \/ s = "submitted" /\ status[g] = "prepared" /\ keys[g]["action"] = "cur"
         \/ /\ s = "aborting" /\ status[g] = "prepared"
            /\ keys[g]["action"] = "rollback" \/ (keys[g]["action"] = "cur" /\ g \in refused)
         \/ s = "succeed" /\ status[g] = "submitted"
         \/ s = "failed" /\ status[g] = "aborting"
  PROVE  BarrierInv'
<1>1. g \in Gid /\ BarrierTypeOK /\ MsgOK(g) /\ BookOK(g) /\ g \notin Sagas
  BY DisjointAssumption DEF Gid, BarrierInv
<1>2. /\ status'[g] = s /\ \A x \in Gid \ {g} : status'[x] = status[x]
      /\ caller'[g] = c /\ \A x \in Msgs \ {g} : caller'[x] = caller[x]
  BY <1>1 DEF BarrierTypeOK
<1>3. BarrierTypeOK'
  BY <1>1 DEF BarrierTypeOK
<1>4. \A x \in Gid \ {g} : Same(x)
  BY <1>2 DEF Same
<1>5. KeysGone(g)' <=> KeysGone(g)
  BY <1>1, <1>2 DEF KeysGone, IsFinal, MsgOK
<1>6. s # status[g] => ~KeysGone(g)
  BY DEF KeysGone, IsFinal
<1>7. BookOK(g)'
  BY <1>1, <1>2, <1>5, <1>6 DEF BookOK, Proven
<1>8. MsgOK(g)'
  BY <1>1, <1>2, <1>5 DEF MsgOK
<1> QED BY <1>1, <1>3, <1>4, <1>7, <1>8, OneMoves

LEMMA MsgStepInv ==
  ASSUME BarrierInv, NEW g \in Msgs, Conclude(g) \/ CallerDies(g) \/ Deliver(g)
  PROVE  BarrierInv'
<1>1. BarrierTypeOK /\ MsgOK(g) /\ g \in Gid
  BY DEF BarrierInv, Gid
<1>2. /\ status[g] \in GlobalStatus /\ status = [status EXCEPT ![g] = status[g]]
      /\ caller[g] \in {"prepared", "committed", "failed", "gone"}
      /\ caller = [caller EXCEPT ![g] = caller[g]]
  BY <1>1 DEF BarrierTypeOK
<1>3. CASE Conclude(g)
  <2>1. /\ caller[g] \in {"committed", "failed"} /\ caller' = [caller EXCEPT ![g] = "gone"]
        /\ stock' = stock /\ keys' = keys /\ row' = row /\ sent' = sent /\ taken' = taken
        /\ refused' = refused /\ added' = added
    BY <1>3 DEF Conclude
  <2>2. CASE status[g] # "prepared"
    <3>1. status' = [status EXCEPT ![g] = status[g]]
      BY <1>2, <1>3, <2>2 DEF Conclude
    <3> QED BY <1>2, <2>1, <3>1, MsgMoves
  <2>3. CASE status[g] = "prepared" /\ caller[g] = "committed"
    <3>1. status' = [status EXCEPT ![g] = "submitted"]
      BY <1>3, <2>3 DEF Conclude
    <3>2. keys[g]["action"] = "cur"
      BY <1>1, <2>3 DEF MsgOK
    <3> QED BY <2>1, <2>3, <3>1, <3>2, MsgMoves DEF GlobalStatus
  <2>4. CASE status[g] = "prepared" /\ caller[g] = "failed"
    <3>1. status' = [status EXCEPT ![g] = "aborting"]
      BY <1>3, <2>4 DEF Conclude
    <3>2. keys[g]["action"] = "rollback" \/ (keys[g]["action"] = "cur" /\ g \in refused)
      BY <1>1, <2>4 DEF MsgOK
    <3> QED BY <2>1, <2>4, <3>1, <3>2, MsgMoves DEF GlobalStatus
  <2> QED BY <2>1, <2>2, <2>3, <2>4
<1>4. CASE CallerDies(g)
  BY <1>2, <1>4, MsgMoves DEF CallerDies
<1>5. CASE Deliver(g)
  <2>1. /\ caller' = [caller EXCEPT ![g] = caller[g]] /\ status[g] \in {"submitted", "aborting"}
        /\ stock' = stock /\ keys' = keys /\ row' = row /\ sent' = sent /\ taken' = taken
        /\ refused' = refused /\ added' = added
    BY <1>2, <1>5 DEF Deliver
  <2>2. status' = [status EXCEPT ![g] = IF status[g] = "submitted" THEN "succeed" ELSE "failed"]
    BY <1>5 DEF Deliver
  <2> QED BY <1>2, <2>1, <2>2, MsgMoves DEF GlobalStatus
<1> QED BY <1>3, <1>4, <1>5

\* The check-back believes the key, and turns one nobody holds into a refusal:
\* a local transaction that comes later finds it.
LEMMA CheckBackInv ==
  ASSUME BarrierInv, NEW g \in Msgs, CheckBack(g)
  PROVE  BarrierInv'
<1> DEFINE v == IF keys[g]["action"] = "none" THEN "rollback" ELSE keys[g]["action"]
           s == IF v = "rollback" THEN "failed" ELSE "submitted"
<1>1. /\ keys' = [keys EXCEPT ![g]["action"] = v] /\ status' = [status EXCEPT ![g] = s]
      /\ status[g] = "prepared"
      /\ stock' = stock /\ row' = row /\ caller' = caller /\ sent' = sent /\ taken' = taken
      /\ refused' = refused /\ added' = added
  BY DEF CheckBack, QueryPrepared
<1>2. /\ g \in Gid /\ BarrierTypeOK /\ MsgOK(g) /\ BookOK(g) /\ g \notin Sagas
      /\ "action" \in Ops /\ "compensate" \in Ops
  BY DisjointAssumption DEF Gid, BarrierInv, Ops
<1>3. s \in GlobalStatus /\ v \in {"none", "cur", "origin", "rollback"}
  BY <1>2 DEF GlobalStatus, BarrierTypeOK
<1>4. v \in {"cur", "rollback"} /\ (keys[g]["action"] = "cur" <=> v = "cur")
  BY <1>2 DEF MsgOK
<1>5. v = "rollback" <=> s = "failed"
  OBVIOUS
<1>6. s \in {"failed", "submitted"}
  OBVIOUS
<1> HIDE DEF s, v
<1>7. /\ keys'[g]["action"] = v /\ keys'[g]["compensate"] = keys[g]["compensate"]
      /\ \A x \in Gid \ {g} : keys'[x] = keys[x]
      /\ status'[g] = s /\ \A x \in Gid \ {g} : status'[x] = status[x]
  BY <1>1, <1>2 DEF BarrierTypeOK
<1>8. BarrierTypeOK'
  <2>1. keys' \in [Gid -> [Ops -> {"none", "cur", "origin", "rollback"}]]
    BY <1>1, <1>2, <1>3 DEF BarrierTypeOK
  <2> QED BY <1>1, <1>2, <1>3, <2>1 DEF BarrierTypeOK
<1>9. \A x \in Gid \ {g} : Same(x)
  BY <1>1, <1>7 DEF Same
<1>10. ~KeysGone(g) /\ ~KeysGone(g)'
  BY <1>1, <1>4, <1>7 DEF KeysGone, IsFinal
<1>11. taken[g] = Proven(g) /\ (g \in refused => keys[g]["action"] = "cur")
  BY <1>2, <1>10 DEF BookOK
<1>12. BookOK(g)'
  BY <1>1, <1>2, <1>4, <1>7, <1>10, <1>11 DEF BookOK, Proven, MsgOK
<1>13. MsgOK(g)'
  BY <1>1, <1>2, <1>4, <1>5, <1>6, <1>7, <1>10 DEF MsgOK
<1> QED BY <1>2, <1>8, <1>9, <1>12, <1>13, OneMoves

\* What the keys say when they expire is what the status says.
LEMMA HoldsUnlessRefused ==
  ASSUME BarrierInv, NEW g \in Gid
  PROVE  /\ g \notin refused => Holds(g)
         /\ taken[g] <= 1 /\ (status[g] = "failed" => taken[g] <= 0)
<1>1. BookOK(g) /\ taken[g] \in Int
  BY DEF BarrierInv, BarrierTypeOK
<1>2. CASE KeysGone(g)
  <2>1. g \in Msgs => status[g] # "submitted"
    BY <1>2 DEF KeysGone, IsFinal
  <2>2. IsFinal(status[g])
    BY <1>2 DEF KeysGone
  <2> QED BY <1>1, <1>2, <2>1, <2>2 DEF BookOK, Holds, IsFinal
<1>3. CASE ~KeysGone(g) /\ g \in Sagas
  <2>1. SagaOK(g) /\ g \notin Msgs
    BY <1>3, DisjointAssumption DEF BarrierInv
  <2>2. taken[g] = Proven(g)
    BY <1>1, <1>3 DEF BookOK
  <2>3. status[g] = "succeed" => keys[g]["action"] = "cur" /\ keys[g]["compensate"] = "none"
    BY <1>3, <2>1 DEF SagaOK
  <2>4. status[g] = "failed" => keys[g]["compensate"] = "cur"
    BY <1>3, <2>1 DEF SagaOK
  <2> QED BY <1>1, <2>1, <2>2, <2>3, <2>4 DEF Proven, Holds, IsFinal
<1>4. CASE ~KeysGone(g) /\ g \in Msgs
  <2>1. MsgOK(g)
    BY <1>4 DEF BarrierInv
  <2>2. taken[g] = Proven(g)
    BY <1>1, <1>4 DEF BookOK
  <2>3. /\ status[g] \in {"submitted", "succeed"} => keys[g]["action"] = "cur"
        /\ status[g] = "failed" => keys[g]["action"] = "rollback" \/ g \in refused
        /\ keys[g]["compensate"] = "none"
    BY <1>4, <2>1 DEF MsgOK
  <2> QED BY <1>1, <2>2, <2>3 DEF Proven, Holds, IsFinal
<1> QED BY <1>2, <1>3, <1>4 DEF Gid

LEMMA KeysExpireInv ==
  ASSUME BarrierInv, NEW g \in Gid, KeysExpire(g)
  PROVE  BarrierInv'
<1>1. /\ IsFinal(status[g])
      /\ g \in Msgs => caller[g] = "gone"
      /\ keys' = [keys EXCEPT ![g] = [op \in Ops |-> "none"]]
      /\ sent' = {c \in sent : c[1] # g}
      /\ stock' = stock /\ status' = status /\ row' = row /\ caller' = caller
      /\ taken' = taken /\ refused' = refused /\ added' = added
  BY DEF KeysExpire
<1>2. BarrierTypeOK
  BY DEF BarrierInv
<1>3. /\ keys'[g] = [op \in Ops |-> "none"] /\ \A x \in Gid \ {g} : keys'[x] = keys[x]
  BY <1>1, <1>2 DEF BarrierTypeOK
<1>4. keys'[g]["action"] = "none" /\ keys'[g]["compensate"] = "none"
  BY <1>3 DEF Ops
<1>5. BarrierTypeOK'
  BY <1>1, <1>2 DEF BarrierTypeOK
<1>6. \A x \in Gid \ {g} : Same(x)
  BY <1>1, <1>3 DEF Same
<1>7. KeysGone(g)'
  BY <1>1, <1>4 DEF KeysGone
<1>8. BookOK(g)'
  <2>1. status[g] = "succeed" => taken[g] <= 1
    BY HoldsUnlessRefused
  <2>2. status[g] # "succeed" => taken[g] <= 0
    BY <1>1, HoldsUnlessRefused DEF IsFinal
  <2>3. g \notin refused => taken[g] = IF status[g] = "succeed" THEN 1 ELSE 0
    BY <1>1, HoldsUnlessRefused DEF Holds
  <2> QED BY <1>1, <1>4, <1>7, <2>1, <2>2, <2>3 DEF BookOK
<1>9. ASSUME g \in Sagas PROVE SagaOK(g)'
  <2>1. SagaOK(g)
    BY <1>9 DEF BarrierInv
  <2>2. \A op : <<g, op>> \notin sent'
    BY <1>1
  <2>3. row'[g]["compensate"][1] = row[g]["compensate"][1]
    BY <1>1
  <2> QED BY <1>1, <1>4, <1>7, <2>1, <2>2, <2>3 DEF SagaOK
<1>10. ASSUME g \in Msgs PROVE MsgOK(g)'
  <2>1. MsgOK(g)
    BY <1>10 DEF BarrierInv
  <2> QED BY <1>1, <1>4, <1>7, <1>10, <2>1 DEF MsgOK, IsFinal
<1> QED BY <1>5, <1>6, <1>8, <1>9, <1>10, OneMoves

\* The invariant holds however many sagas and messages share however much
\* stock: calls lost, late and repeated, aborts, check-backs and deaths of
\* callers included.
THEOREM RedisBarrierInvariant == BarrierSpec => []BarrierInv
<1>1. BarrierInit => BarrierInv
  <2> SUFFICES ASSUME BarrierInit PROVE BarrierInv
    OBVIOUS
  <2>1. \A g \in Gid : /\ keys[g]["action"] = "none" /\ keys[g]["compensate"] = "none"
                       /\ status[g] \in {"submitted", "prepared"} /\ taken[g] = 0
                       /\ ~KeysGone(g)
    BY DEF BarrierInit, Ops, KeysGone, IsFinal
  <2>2. BarrierTypeOK
    <3>1. 0 \in 0 .. MaxRestock
      BY StockAssumption
    <3> QED BY <3>1, StockAssumption
            DEF BarrierInit, BarrierTypeOK, GlobalStatus, BranchStatus
  <2>3. \A g \in Gid : BookOK(g)
    BY <2>1 DEF BookOK, Proven, BarrierInit
  <2>4. \A g \in Sagas : SagaOK(g)
    <3> TAKE g \in Sagas
    <3>1. /\ status[g] = "submitted" /\ row[g]["action"][1] = "prepared"
          /\ row[g]["compensate"][1] = "prepared" /\ g \in Gid /\ sent = {}
      BY DEF BarrierInit, Ops, Gid
    <3> QED BY <2>1, <3>1 DEF SagaOK
  <2>5. \A g \in Msgs : MsgOK(g)
    <3> TAKE g \in Msgs
    <3>1. status[g] = "prepared" /\ caller[g] = "prepared" /\ g \in Gid
      BY DisjointAssumption DEF BarrierInit, Gid
    <3> QED BY <2>1, <3>1 DEF MsgOK
  <2> QED BY <2>2, <2>3, <2>4, <2>5 DEF BarrierInv
<1>2. BarrierInv /\ [BarrierNext]_barrierVars => BarrierInv'
  <2> SUFFICES ASSUME BarrierInv, [BarrierNext]_barrierVars PROVE BarrierInv'
    OBVIOUS
  <2>1. ASSUME NEW g \in Sagas,
               \/ CallBranch(g) \/ CallLost(g) \/ \E op \in Ops : Stray(g, op)
               \/ \E r \in {"succeed", "failed"} : CallElsewhere(g, r)
               \/ FinishSaga(g) \/ AbortSaga(g)
        PROVE  BarrierInv'
    BY <2>1, CallBranchInv, CallLostInv, StrayInv, CallElsewhereInv, FinishSagaInv
  <2>2. ASSUME NEW g \in Msgs,
               Local(g) \/ Conclude(g) \/ CallerDies(g) \/ CheckBack(g) \/ Deliver(g)
        PROVE  BarrierInv'
    BY <2>2, LocalInv, MsgStepInv, CheckBackInv
  <2>3. ASSUME NEW g \in Gid, KeysExpire(g) PROVE BarrierInv'
    BY <2>3, KeysExpireInv
  <2>4. CASE Restock
    <3>1. BarrierTypeOK'
      BY <2>4, StockAssumption DEF Restock, BarrierInv, BarrierTypeOK
    <3>2. \A x \in Gid : Same(x)
      BY <2>4 DEF Restock, Same
    <3> QED BY <3>1, <3>2, NobodyMoves
  <2>5. CASE UNCHANGED barrierVars
    <3>1. BarrierTypeOK'
      BY <2>5 DEF barrierVars, BarrierInv, BarrierTypeOK
    <3>2. \A x \in Gid : Same(x)
      BY <2>5 DEF barrierVars, Same
    <3> QED BY <3>1, <3>2, NobodyMoves
  <2> QED BY <2>1, <2>2, <2>3, <2>4, <2>5 DEF BarrierNext
<1> QED BY <1>1, <1>2, PTL DEF BarrierSpec

\* As long as no script refused it, a transaction holds what its status says:
\* duplicates, null compensations, hanging actions, and check-backs that race
\* the local transaction are told apart by the keys alone (redis_barrier.rs).
THEOREM RedisBarrierConserves == BarrierSpec => []ConservedUnlessRefused
<1>1. BarrierInv => ConservedUnlessRefused
  BY HoldsUnlessRefused DEF ConservedUnlessRefused
<1> QED BY <1>1, RedisBarrierInvariant, PTL

\* Refused or not, nothing is taken twice, and a transaction that failed has
\* nothing: the keys outlive every call (with_ttl).
THEOREM RedisBarrierNothingLost == BarrierSpec => []NothingLost
<1>1. BarrierInv => NothingLost
  BY HoldsUnlessRefused DEF NothingLost
<1> QED BY <1>1, RedisBarrierInvariant, PTL

=============================================================================
