------------------------------ MODULE MsgProofs ------------------------------
(***************************************************************************)
(* Proofs about Msg for every set of messages, subscribers and workers, in *)
(* all deployments.  What a confirmed abort is worth on a SQL store whose  *)
(* API drives inline, the properties except: MCMsgAbort.cfg shows why.     *)
(***************************************************************************)
EXTENDS Msg, CoreProofs

-----------------------------------------------------------------------------
(***************************************************************************)
(* The inductive invariant.                                                *)
(***************************************************************************)

\* The state of one worker.
WorkerState ==
  [pc : {"idle", "process", "query", "loop", "calls", "transition"},
   st : {"prepared", "submitted", "aborting"},
   to : {"none", "submitted", "succeed", "failed"},
   open : SUBSET Branch, good : SUBSET Branch, ok : BOOLEAN]

\* A worker that checks back has a prepared copy, one that delivers a
\* submitted one.
WorkerOK ==
  /\ wk \in [Workers -> WorkerState]
  /\ \A w \in Workers :
       /\ wk[w].pc = "query" => wk[w].st = "prepared"
       /\ wk[w].pc = "loop" => wk[w].st # "prepared"
       /\ wk[w].pc = "calls" => wk[w].st = "submitted"

\* On Redis a topic with subscribers is in the index.
TopicOK == OnRedis /\ subs # {} => listed

\* A receiver has taken the message once, and has the row, or it has neither;
\* what a worker counts as delivered, or a branch row says, has been.
ReceivedOK ==
  /\ \A b \in Branch : /\ got[b] = IF "action" \in rows[b] THEN 1 ELSE 0
                       /\ "action" \in rows[b] => b \in sent
  /\ \A b \in done : "action" \in rows[b]
  /\ \A w \in Workers : \A b \in wk[w].good : "action" \in rows[b]

\* Before the transaction exists nothing is known of it.
CallerOK ==
  /\ client \in {"new", "preparing"} => status = "absent"
  /\ client = "new" => branches = {}
  /\ client \in {"prepared", "committed", "failed"} => status # "absent"
  /\ status = "absent" => told = {} /\ key # "cur"
  /\ submitting = "read" => ~OnRedis /\ status # "absent"

\* The key and the status agree: the message is on its way only after the
\* local transaction has taken the key, voided only by a check-back that has
\* or by a confirmed abort.  (An aborted message without branches ends as a
\* success.)
KeyOK ==
  /\ client = "committed" \/ submitting = "read" => key = "cur"
  /\ status = "submitted" => key = "cur" /\ "aborted" \notin told
  /\ status = "succeed" => branches = {} \/ (key = "cur" /\ "aborted" \notin told)
  /\ status = "aborting" => "aborted" \in told
  /\ status = "failed" => "aborted" \in told \/ key = "rollback"
  /\ "aborted" \in told =>
       status \in {"aborting", "failed"} \/ (branches = {} /\ status = "succeed")
  /\ "submitted" \in told =>
       key = "cur" /\ (status \in {"submitted", "succeed"} \/ "aborted" \in told)

\* The local transaction has committed and, unless a submit may drive what it
\* did not submit, nobody has turned the message round.
OnItsWay ==
  /\ key = "cur"
  /\ deployment # "sql_inline" => "aborted" \notin told /\ status \in {"submitted", "succeed"}

\* A copy that is no longer prepared is right about the direction for good.
CopyOK ==
  \A w \in Workers :
    /\ wk[w].st = "submitted" => OnItsWay
    /\ wk[w].st = "aborting" => "aborted" \in told

\* Only a submitted message is sent, and a step only after the ones before it.
SentOK ==
  /\ sent # {} => OnItsWay
  /\ \A b \in branches, c \in sent : b[1] < c[1] => "action" \in rows[b]

\* What a worker about to write a status knows.
Knows(w) ==
  \/ wk[w].to = "submitted" /\ wk[w].st = "prepared" /\ key = "cur"
  \/ wk[w].to = "failed" /\ wk[w].st = "prepared" /\ key = "rollback"
  \/ wk[w].to = "failed" /\ wk[w].st = "aborting"
  \/ wk[w].to = "succeed" /\ wk[w].st # "prepared" /\ branches = {}
  \/ /\ wk[w].to = "succeed" /\ wk[w].st = "submitted"
     /\ \A b \in branches : "action" \in rows[b]

DecidedOK == \A w \in Workers : wk[w].pc = "transition" => Knows(w)

\* A success keeps what the deciding worker knew.
FinalOK == status = "succeed" => \A b \in branches : "action" \in rows[b]

IInv ==
  /\ TypeOK /\ WorkerOK /\ TopicOK /\ ReceivedOK /\ CallerOK /\ KeyOK /\ CopyOK
  /\ SentOK /\ DecidedOK /\ FinalOK

-----------------------------------------------------------------------------
(***************************************************************************)
(* The operators of the model.                                             *)
(***************************************************************************)

\* Steps are numbered.
LEMMA StepNumbers == \A b \in Branch : b[1] \in Nat
<1>1. \A m \in Messages : DOMAIN m \subseteq Nat
  BY MessagesAssumption
<1> QED BY <1>1 DEF Branch

\* A message expands to branches: each step to its address, or to the
\* subscribers of the topic.
LEMMA ExpandsToBranches ==
  ASSUME NEW m \in Messages, NEW S \in SUBSET Urls
  PROVE  ExpandMsgSteps(m, Topic, S) \subseteq Branch
<1> DEFINE to(i) == IF m[i] = Topic THEN S ELSE {m[i]}
<1>1. m \in Seq(Urls \cup Plain \cup {Topic})
  BY MessagesAssumption
<1>2. \A i \in DOMAIN m : m[i] \in Urls \cup Plain \cup {Topic}
  BY <1>1
<1>3. \A i \in DOMAIN m : to(i) \subseteq Urls \cup Plain
  BY <1>2
<1>4. ASSUME NEW b \in ExpandMsgSteps(m, Topic, S)
      PROVE  \E i \in DOMAIN m, u \in Urls \cup Plain : b = <<i, u>>
  <2>1. PICK i \in DOMAIN m : b \in {<<i, u>> : u \in to(i)}
    BY <1>4 DEF ExpandMsgSteps
  <2>2. PICK u \in to(i) : b = <<i, u>>
    BY <2>1
  <2> QED BY <1>3, <2>2
<1> QED BY <1>4 DEF Branch

\* What the driver makes of an answer to the check-back is never the opposite
\* of what the endpoint found.
LEMMA AnswersAgree ==
  ASSUME NEW c \in BOOLEAN, NEW r \in Answers(c)
  PROVE  (r = "success" => c) /\ (r = "failure" => ~c)
<1>1. /\ FromGrpc(0) = "success" /\ FromGrpc(10) = "failure"
      /\ FromGrpc(9) = "ongoing" /\ FromGrpc(14) = "unknown"
  BY DEF FromGrpc
<1> DEFINE vague == {<<425, "">>, <<200, "ONGOING">>, <<503, "">>}
           yes == {<<200, "">>} \cup vague
           no == {<<409, "">>, <<200, "FAILURE">>} \cup vague
<1>http. /\ FromHttp(200, "") = "success" /\ FromHttp(409, "") = "failure"
      /\ FromHttp(200, "FAILURE") = "failure" /\ FromHttp(200, "ONGOING") = "ongoing"
      /\ FromHttp(425, "") = "ongoing" /\ FromHttp(503, "") = "unknown"
  BY DEF FromHttp
<1>pair. \A x, y : <<x, y>>[1] = x /\ <<x, y>>[2] = y
  OBVIOUS
<1>2. /\ \A a \in yes : FromHttp(a[1], a[2]) \in {"success", "ongoing", "unknown"}
      /\ \A a \in no : FromHttp(a[1], a[2]) \in {"failure", "ongoing", "unknown"}
  <2>1. ASSUME NEW a \in yes PROVE FromHttp(a[1], a[2]) \in {"success", "ongoing", "unknown"}
    <3>1. \/ a = <<200, "">> \/ a = <<425, "">> \/ a = <<200, "ONGOING">> \/ a = <<503, "">>
      BY Zenon
    <3>2. CASE a = <<200, "">> BY <3>2, <1>pair, <1>http, Zenon
    <3>3. CASE a = <<425, "">> BY <3>3, <1>pair, <1>http, Zenon
    <3>4. CASE a = <<200, "ONGOING">> BY <3>4, <1>pair, <1>http, Zenon
    <3>5. CASE a = <<503, "">> BY <3>5, <1>pair, <1>http, Zenon
    <3> QED BY <3>1, <3>2, <3>3, <3>4, <3>5
  <2>2. ASSUME NEW a \in no PROVE FromHttp(a[1], a[2]) \in {"failure", "ongoing", "unknown"}
    <3>1. \/ a = <<409, "">> \/ a = <<200, "FAILURE">> \/ a = <<425, "">>
          \/ a = <<200, "ONGOING">> \/ a = <<503, "">>
      BY Zenon
    <3>2. CASE a = <<409, "">> BY <3>2, <1>pair, <1>http, Zenon
    <3>3. CASE a = <<200, "FAILURE">> BY <3>3, <1>pair, <1>http, Zenon
    <3>4. CASE a = <<425, "">> BY <3>4, <1>pair, <1>http, Zenon
    <3>5. CASE a = <<200, "ONGOING">> BY <3>5, <1>pair, <1>http, Zenon
    <3>6. CASE a = <<503, "">> BY <3>6, <1>pair, <1>http, Zenon
    <3> QED BY <3>1, <3>2, <3>3, <3>4, <3>5, <3>6
  <2> QED BY <2>1, <2>2
<1>3. ASSUME c PROVE r \in {"success", "ongoing", "unknown"}
  <2>1. Answers(c) = {FromHttp(a[1], a[2]) : a \in yes} \cup {FromGrpc(k) : k \in {0, 9, 14}}
    BY <1>3, Zenon DEF Answers
  <2>2. \A k \in {0, 9, 14} : FromGrpc(k) \in {"success", "ongoing", "unknown"}
    BY <1>1
  <2> HIDE DEF yes
  <2> QED BY <1>2, <2>1, <2>2
<1>4. ASSUME ~c PROVE r \in {"failure", "ongoing", "unknown"}
  <2>1. Answers(c) = {FromHttp(a[1], a[2]) : a \in no} \cup {FromGrpc(k) : k \in {10, 9, 14}}
    BY <1>4, Zenon DEF Answers
  <2>2. \A k \in {10, 9, 14} : FromGrpc(k) \in {"failure", "ongoing", "unknown"}
    BY <1>1
  <2> HIDE DEF no
  <2> QED BY <1>2, <2>1, <2>2
<1> QED BY <1>3, <1>4

-----------------------------------------------------------------------------
(***************************************************************************)
(* Steps that leave the store and the caller alone.                        *)
(***************************************************************************)

\* What a worker may turn into in a step that writes nothing but the key.
MayBecome(v) ==
  /\ wk'[v].open \subseteq sent /\ wk'[v].good \subseteq wk[v].good
  /\ wk'[v].st = "prepared" \/ wk'[v].st = wk[v].st \/ wk'[v].st = status
  /\ wk'[v].pc = "query" => wk'[v].st = "prepared"
  /\ wk'[v].pc = "loop" => wk'[v].st # "prepared"
  /\ wk'[v].pc = "calls" => wk'[v].st = "submitted"
  /\ wk'[v].pc = "transition" => Knows(v)'

\* The workers and the key move, nothing else: the invariant is kept.
LEMMA WorkerInv ==
  ASSUME IInv, UNCHANGED <<topics, api, db, sent, rows, got>>, asked' \in BOOLEAN,
         key' = key \/ (key = "none" /\ key' = "rollback"),
         wk' \in [Workers -> WorkerState],
         \A v \in Workers : wk'[v] = wk[v] \/ MayBecome(v)
  PROVE  IInv'
<1> USE DEF IInv, topics, api, db
<1>0. /\ UNCHANGED <<subs, listed, deployment, client, told, submitting, status, branches, done,
                     sent, rows, got>>
      /\ key' \in {"none", "cur", "rollback"} /\ (key = "cur" => key' = "cur")
      /\ key = "rollback" => key' = "rollback"
  BY DEF TypeOK
<1>1. \A v \in Workers : /\ wk'[v].open \subseteq sent /\ wk'[v].good \subseteq sent
                         /\ wk'[v].good \subseteq wk[v].good
  <2> TAKE v \in Workers
  <2>1. wk[v].open \subseteq sent /\ wk[v].good \subseteq sent
    BY DEF TypeOK
  <2> QED BY <2>1 DEF MayBecome
<1>2. TypeOK'
  BY <1>0, <1>1 DEF TypeOK, WorkerState
<1>3. WorkerOK'
  BY DEF WorkerOK, MayBecome
<1>4. TopicOK' /\ CallerOK' /\ FinalOK'
  BY <1>0 DEF TopicOK, OnRedis, CallerOK, FinalOK
<1>5. ReceivedOK'
  BY <1>0, <1>1 DEF ReceivedOK
<1>6. KeyOK'
  BY <1>0 DEF KeyOK
<1>7. CopyOK'
  <2> SUFFICES ASSUME NEW v \in Workers
               PROVE  /\ wk'[v].st = "submitted" => OnItsWay'
                      /\ wk'[v].st = "aborting" => "aborted" \in told'
    BY DEF CopyOK, OnItsWay
  <2>1. wk'[v].st = "prepared" \/ wk'[v].st = wk[v].st \/ wk'[v].st = status
    BY DEF MayBecome
  <2> QED BY <1>0, <2>1 DEF CopyOK, OnItsWay, KeyOK
<1>8. SentOK'
  BY <1>0 DEF SentOK, OnItsWay
<1>9. DecidedOK'
  <2> SUFFICES ASSUME NEW v \in Workers, wk'[v].pc = "transition" PROVE Knows(v)'
    BY DEF DecidedOK
  <2>1. CASE wk'[v] = wk[v]
    BY <1>0, <2>1 DEF DecidedOK, Knows
  <2>2. CASE MayBecome(v)
    BY <2>2 DEF MayBecome
  <2> QED BY <2>1, <2>2
<1> QED BY <1>2, <1>3, <1>4, <1>5, <1>6, <1>7, <1>8, <1>9

\* A round may be over at any point.
LEMMA EndRoundInv ==
  ASSUME IInv, NEW w \in Workers, EndRound(w), UNCHANGED <<topics, api, db, sent, rows, got>>,
         asked' \in BOOLEAN, key' = key \/ (key = "none" /\ key' = "rollback")
  PROVE  IInv'
<1>1. wk \in [Workers -> WorkerState]
  BY DEF IInv, WorkerOK
<1>2. Idle \in WorkerState
  BY DEF Idle, WorkerState
<1>3. wk' \in [Workers -> WorkerState] /\ wk'[w] = Idle /\ \A v \in Workers \ {w} : wk'[v] = wk[v]
  BY <1>1, <1>2 DEF EndRound
<1>4. MayBecome(w)
  BY <1>3 DEF Idle, MayBecome
<1> QED BY <1>3, <1>4, WorkerInv

\* A worker takes the transaction.
LEMMA LockInv ==
  ASSUME IInv, NEW w \in Workers, Lock(w) PROVE IInv'
<1>1. /\ wk \in [Workers -> WorkerState] /\ wk[w] \in WorkerState
      /\ status \in {"prepared", "submitted", "aborting"}
  BY DEF IInv, WorkerOK, Lock, Schedulable
<1>2. wk' = [wk EXCEPT ![w].pc = "process", ![w].st = status] /\ wk[w].open \subseteq sent
  BY DEF Lock, IInv, TypeOK
<1>3. /\ wk' \in [Workers -> WorkerState]
      /\ wk'[w] = [wk[w] EXCEPT !.pc = "process", !.st = status]
      /\ \A v \in Workers \ {w} : wk'[v] = wk[v]
  BY <1>1, <1>2 DEF WorkerState
<1>4. MayBecome(w)
  BY <1>1, <1>2, <1>3 DEF MayBecome, WorkerState
<1>5. UNCHANGED <<topics, api, db, sent, rows, got>> /\ asked' \in BOOLEAN /\ key' = key
  BY DEF Lock, world, IInv, TypeOK
<1> QED BY <1>3, <1>4, <1>5, WorkerInv

\* The driver looks at its copy and at the branches.
LEMMA ProcessInv ==
  ASSUME IInv, NEW w \in Workers, Process(w) PROVE IInv'
<1>1. wk \in [Workers -> WorkerState] /\ wk[w] \in WorkerState
  BY DEF IInv, WorkerOK
<1>2. UNCHANGED <<topics, api, db, sent, rows, got>> /\ asked' \in BOOLEAN /\ key' = key
  BY DEF Process, IInv, TypeOK
<1>3. wk[w].open \subseteq sent
  BY DEF IInv, TypeOK
<1>4. CASE /\ wk[w].st = "prepared"
           /\ wk' = [wk EXCEPT ![w].pc = "query"]
  <2>1. /\ wk' \in [Workers -> WorkerState] /\ wk'[w] = [wk[w] EXCEPT !.pc = "query"]
        /\ \A v \in Workers \ {w} : wk'[v] = wk[v]
    BY <1>1, <1>4 DEF WorkerState
  <2>2. MayBecome(w)
    BY <1>1, <1>3, <1>4, <2>1 DEF MayBecome, WorkerState
  <2> QED BY <1>2, <2>1, <2>2, WorkerInv
<1>5. CASE /\ wk[w].st # "prepared" /\ branches = {}
           /\ wk' = [wk EXCEPT ![w].pc = "transition", ![w].to = "succeed"]
  <2>1. /\ wk' \in [Workers -> WorkerState]
        /\ wk'[w] = [wk[w] EXCEPT !.pc = "transition", !.to = "succeed"]
        /\ \A v \in Workers \ {w} : wk'[v] = wk[v]
    BY <1>1, <1>5 DEF WorkerState
  <2>2. Knows(w)'
    BY <1>1, <1>2, <1>5, <2>1 DEF Knows, db, WorkerState
  <2>3. MayBecome(w)
    BY <1>1, <1>3, <2>1, <2>2 DEF MayBecome, WorkerState
  <2> QED BY <1>2, <2>1, <2>3, WorkerInv
<1>6. CASE /\ wk[w].st # "prepared"
           /\ wk' = [wk EXCEPT ![w].pc = "loop"]
  <2>1. /\ wk' \in [Workers -> WorkerState] /\ wk'[w] = [wk[w] EXCEPT !.pc = "loop"]
        /\ \A v \in Workers \ {w} : wk'[v] = wk[v]
    BY <1>1, <1>6 DEF WorkerState
  <2>2. MayBecome(w)
    BY <1>1, <1>3, <1>6, <2>1 DEF MayBecome, WorkerState
  <2> QED BY <1>2, <2>1, <2>2, WorkerInv
<1> QED BY <1>4, <1>5, <1>6 DEF Process

\* The check-back: what is believed of it agrees with the key.
LEMMA QueryInv ==
  ASSUME IInv, NEW w \in Workers, Query(w) PROVE IInv'
<1>1. wk \in [Workers -> WorkerState] /\ wk[w] \in WorkerState /\ wk[w].st = "prepared"
  BY DEF IInv, WorkerOK, Query
<1>2. /\ UNCHANGED <<topics, api, db, sent, rows, got>> /\ asked' \in BOOLEAN
      /\ key' = key \/ (key = "none" /\ key' = "rollback")
      /\ key # "cur" => key' = "rollback"
  BY DEF Query, QueryPrepared, IInv, TypeOK
<1>3. wk[w].open \subseteq sent
  BY DEF IInv, TypeOK
<1>4. PICK r \in Answers(key = "cur") :
       \/ /\ r = "success"
          /\ wk' = [wk EXCEPT ![w].pc = "transition", ![w].to = "submitted"]
       \/ /\ r = "failure"
          /\ wk' = [wk EXCEPT ![w].pc = "transition", ![w].to = "failed"]
       \/ r \in {"ongoing", "unknown"} /\ EndRound(w)
  BY DEF Query
<1>5. (r = "success" => key = "cur") /\ (r = "failure" => key # "cur")
  <2>1. (key = "cur") \in BOOLEAN
    OBVIOUS
  <2> QED BY <2>1, AnswersAgree
<1>6. CASE /\ key = "cur"
           /\ wk' = [wk EXCEPT ![w].pc = "transition", ![w].to = "submitted"]
  <2>1. /\ wk' \in [Workers -> WorkerState]
        /\ wk'[w] = [wk[w] EXCEPT !.pc = "transition", !.to = "submitted"]
        /\ \A v \in Workers \ {w} : wk'[v] = wk[v]
    BY <1>1, <1>6 DEF WorkerState
  <2>2. Knows(w)'
    BY <1>1, <1>2, <1>6, <2>1 DEF Knows, WorkerState
  <2>3. MayBecome(w)
    BY <1>1, <1>3, <2>1, <2>2 DEF MayBecome, WorkerState
  <2> QED BY <1>2, <2>1, <2>3, WorkerInv
<1>7. CASE /\ key # "cur"
           /\ wk' = [wk EXCEPT ![w].pc = "transition", ![w].to = "failed"]
  <2>1. /\ wk' \in [Workers -> WorkerState]
        /\ wk'[w] = [wk[w] EXCEPT !.pc = "transition", !.to = "failed"]
        /\ \A v \in Workers \ {w} : wk'[v] = wk[v]
    BY <1>1, <1>7 DEF WorkerState
  <2>2. Knows(w)'
    BY <1>1, <1>2, <1>7, <2>1 DEF Knows, WorkerState
  <2>3. MayBecome(w)
    BY <1>1, <1>3, <2>1, <2>2 DEF MayBecome, WorkerState
  <2> QED BY <1>2, <2>1, <2>3, WorkerInv
<1>8. CASE EndRound(w)
  BY <1>2, <1>8, EndRoundInv
<1> QED BY <1>4, <1>5, <1>6, <1>7, <1>8

\* A check-back nobody waits for reaches the endpoint.
LEMMA QueryStrayInv ==
  ASSUME IInv, QueryStray PROVE IInv'
<1>1. /\ UNCHANGED <<topics, api, db, sent, rows, got>> /\ asked' \in BOOLEAN
      /\ key = "none" /\ key' = "rollback" /\ wk' = wk
      /\ wk \in [Workers -> WorkerState]
  BY DEF QueryStray, QueryPrepared, IInv, TypeOK, WorkerOK
<1> QED BY <1>1, WorkerInv

\* A call that is not answered with a success.
LEMMA NotDeliveredInv ==
  ASSUME IInv, NEW w \in Workers, NEW b \in Branch, NotDelivered(w, b) PROVE IInv'
<1>1. wk \in [Workers -> WorkerState] /\ wk[w] \in WorkerState /\ wk[w].st = "submitted"
  BY DEF IInv, WorkerOK, NotDelivered
<1>2. UNCHANGED <<topics, api, db, sent, rows, got>> /\ asked' \in BOOLEAN /\ key' = key
  BY DEF NotDelivered, world, IInv, TypeOK
<1>3. wk[w].open \subseteq sent
  BY DEF IInv, TypeOK
<1>4. /\ wk' \in [Workers -> WorkerState]
      /\ wk'[w] = [wk[w] EXCEPT !.open = @ \ {b}, !.ok = FALSE]
      /\ \A v \in Workers \ {w} : wk'[v] = wk[v]
  BY <1>1 DEF NotDelivered, WorkerState
<1>5. MayBecome(w)
  BY <1>1, <1>3, <1>4 DEF MayBecome, WorkerState, NotDelivered
<1> QED BY <1>2, <1>4, <1>5, WorkerInv

\* All calls of a step are back.
LEMMA JoinedInv ==
  ASSUME IInv, NEW w \in Workers, Joined(w) PROVE IInv'
<1>1. wk \in [Workers -> WorkerState] /\ wk[w] \in WorkerState /\ wk[w].st = "submitted"
  BY DEF IInv, WorkerOK, Joined
<1>2. UNCHANGED <<topics, api, db, sent, rows, got>> /\ asked' \in BOOLEAN /\ key' = key
  BY DEF Joined, world, IInv, TypeOK
<1>3. wk[w].open \subseteq sent
  BY DEF IInv, TypeOK
<1>4. CASE wk' = [wk EXCEPT ![w].pc = "loop"]
  <2>1. /\ wk' \in [Workers -> WorkerState] /\ wk'[w] = [wk[w] EXCEPT !.pc = "loop"]
        /\ \A v \in Workers \ {w} : wk'[v] = wk[v]
    BY <1>1, <1>4 DEF WorkerState
  <2>2. MayBecome(w)
    BY <1>1, <1>3, <1>4, <2>1 DEF MayBecome, WorkerState
  <2> QED BY <1>2, <2>1, <2>2, WorkerInv
<1>5. CASE EndRound(w)
  BY <1>2, <1>5, EndRoundInv
<1> QED BY <1>4, <1>5 DEF Joined

-----------------------------------------------------------------------------
(***************************************************************************)
(* The topic and the caller.                                               *)
(***************************************************************************)

\* Nothing is known of a message that does not exist.
LEMMA InitInv == Init => IInv
<1> SUFFICES ASSUME Init PROVE IInv
  OBVIOUS
<1> USE DEF Init
<1>1. Idle \in WorkerState
  BY DEF Idle, WorkerState
<1>2. \A w \in Workers : wk[w] = Idle /\ wk[w].pc = "idle" /\ wk[w].st = "prepared"
                         /\ wk[w].open = {} /\ wk[w].good = {} /\ wk[w].to = "none"
                         /\ wk[w].ok = TRUE
  BY DEF Idle
<1>3. TypeOK
  BY <1>2 DEF TypeOK
<1>4. WorkerOK
  BY <1>1, <1>2 DEF WorkerOK
<1>5. TopicOK /\ CallerOK /\ KeyOK /\ FinalOK /\ SentOK
  BY DEF TopicOK, CallerOK, OnRedis, KeyOK, FinalOK, SentOK, OnItsWay
<1>6. ReceivedOK /\ CopyOK /\ DecidedOK
  BY <1>2 DEF ReceivedOK, CopyOK, OnItsWay, DecidedOK
<1> QED BY <1>3, <1>4, <1>5, <1>6 DEF IInv

\* Subscribing and unsubscribing keep the index of topics right.
LEMMA TopicInv ==
  ASSUME IInv, NEW u \in Urls, Subscribe(u) \/ Unsubscribe(u) \/ DeleteTopic
  PROVE  IInv'
<1>1. UNCHANGED <<deployment, status, branches, done, client, told, submitting, key, asked, wk,
                  sent, rows, got>>
  BY DEF Subscribe, Unsubscribe, DeleteTopic, api, db, world
<1>2. subs' \subseteq Urls /\ listed' \in BOOLEAN /\ TopicOK'
  BY <1>1 DEF Subscribe, Unsubscribe, DeleteTopic, SubscribeSql, SubscribeRedis, UnsubscribeSql,
              UnsubscribeRedis, DeleteTopicSql, DeleteTopicRedis, OnRedis, TopicOK, IInv, TypeOK
<1>3. TypeOK'
  BY <1>1, <1>2 DEF IInv, TypeOK
<1>4. WorkerOK' /\ ReceivedOK' /\ CallerOK' /\ KeyOK' /\ CopyOK' /\ SentOK'
  BY <1>1 DEF IInv, WorkerOK, ReceivedOK, CallerOK, OnRedis, KeyOK, CopyOK, OnItsWay, SentOK
<1>5. DecidedOK' /\ FinalOK'
  BY <1>1 DEF IInv, DecidedOK, Knows, FinalOK
<1> QED BY <1>2, <1>3, <1>4, <1>5 DEF IInv

\* Preparing fixes the branches.
LEMMA PrepareInv ==
  ASSUME IInv,
         (\E m \in Messages, e \in BOOLEAN : PrepareRead(m, e)) \/ PrepareWrite
  PROVE  IInv'
<1>1. /\ UNCHANGED <<deployment, told, submitting, subs, listed, done, wk, key, asked, sent, rows,
                     got>>
      /\ status = "absent"
  BY DEF PrepareRead, PrepareWrite, topics, world, IInv, CallerOK, OnRedis
<1>2. /\ told = {} /\ submitting = "none" /\ key # "cur" /\ sent = {}
      /\ client \in {"new", "preparing"}
  BY <1>1 DEF PrepareRead, PrepareWrite, IInv, TypeOK, CallerOK, OnRedis, SentOK, OnItsWay
<1> DEFINE Fixed == /\ branches' \subseteq Branch /\ done' \subseteq branches'
                    /\ client' \in {"preparing", "prepared", "gone"}
                    /\ status' \in {"absent", "prepared"}
                    /\ client' = "preparing" => status' = "absent"
                    /\ client' = "prepared" => status' = "prepared"
<1>3. Fixed
  <2>1. CASE PrepareWrite
    BY <2>1 DEF PrepareWrite, IInv, TypeOK
  <2>2. ASSUME NEW m \in Messages, NEW e \in BOOLEAN, PrepareRead(m, e)
        PROVE  Fixed
    <3>1. branches = {} /\ done = {}
      BY <2>2 DEF PrepareRead, IInv, CallerOK, OnRedis, TypeOK
    <3>2. TopicUrls \in SUBSET Urls
      BY StaticAssumption DEF TopicUrls, SubscriptionsOf, IInv, TypeOK
    <3>3. ExpandMsgSteps(m, Topic, TopicUrls) \subseteq Branch
      BY <3>2, ExpandsToBranches
    <3>4. CASE EmptyTopic(m, Topic, TopicUrls) /\ ~e
      BY <1>1, <2>2, <3>1, <3>4 DEF PrepareRead
    <3>5. CASE ~(EmptyTopic(m, Topic, TopicUrls) /\ ~e)
      <4>1. client' = "preparing" /\ branches' = ExpandMsgSteps(m, Topic, TopicUrls)
        BY <2>2, <3>5, Zenon DEF PrepareRead
      <4>2. status' = status /\ done' = done
        BY <2>2 DEF PrepareRead
      <4> QED BY <1>1, <3>1, <3>3, <4>1, <4>2
    <3> QED BY <3>4, <3>5
  <2> QED BY <2>1, <2>2
<1>4. TypeOK'
  BY <1>1, <1>2, <1>3 DEF IInv, TypeOK, GlobalStatus
<1>5. WorkerOK' /\ TopicOK' /\ ReceivedOK'
  BY <1>1 DEF IInv, WorkerOK, TopicOK, OnRedis, ReceivedOK
<1>6. CallerOK' /\ KeyOK' /\ SentOK' /\ FinalOK'
  BY <1>1, <1>2, <1>3 DEF IInv, CallerOK, OnRedis, KeyOK, SentOK, OnItsWay, FinalOK
<1>7. CopyOK'
  BY <1>1, <1>2 DEF IInv, CopyOK, OnItsWay
<1>8. \A w \in Workers : wk[w].st = "prepared"
  BY <1>1, <1>2 DEF IInv, CopyOK, OnItsWay, TypeOK
<1>9. DecidedOK'
  BY <1>1, <1>8 DEF IInv, DecidedOK, Knows
<1> QED BY <1>4, <1>5, <1>6, <1>7, <1>9 DEF IInv

\* The local transaction commits or not: the store does not learn of it.
LEMMA CallerInv ==
  ASSUME IInv, LocalCommit \/ LocalFails
  PROVE  IInv'
<1>1. UNCHANGED <<deployment, subs, listed, told, submitting, status, branches, done, wk, asked,
                  sent, rows, got>>
  BY DEF LocalCommit, LocalFails, topics, db, world
<1>2. /\ client = "prepared" /\ client' \in {"committed", "failed"}
      /\ \/ key' = key /\ client' = "failed"
         \/ client' = "committed" /\ key = "none" /\ key' = "cur"
  BY DEF LocalCommit, LocalFails, world
<1>3. TypeOK'
  BY <1>1, <1>2 DEF IInv, TypeOK
<1>4. WorkerOK' /\ TopicOK' /\ ReceivedOK' /\ FinalOK'
  BY <1>1 DEF IInv, WorkerOK, TopicOK, OnRedis, ReceivedOK, FinalOK
<1>5. CallerOK'
  BY <1>1, <1>2 DEF IInv, CallerOK, OnRedis
<1>6. (key' = "cur" \/ key' = key) /\ (key = "rollback" => key' = "rollback")
  BY <1>2
<1>7. KeyOK'
  BY <1>1, <1>2, <1>6 DEF IInv, KeyOK
<1>8. CopyOK' /\ SentOK'
  BY <1>1, <1>6 DEF IInv, CopyOK, OnItsWay, SentOK
<1>9. DecidedOK'
  BY <1>1, <1>6 DEF IInv, DecidedOK, Knows
<1> QED BY <1>3, <1>4, <1>5, <1>7, <1>8, <1>9 DEF IInv

\* Submitting: the key is taken, so whoever has moved the status in the
\* meantime moved it forwards, or had an abort confirmed; only on SQL does
\* submit drive what it did not submit.
LEMMA SubmitInv ==
  ASSUME IInv, SubmitRead \/ SubmitWrite \/ SubmitAtomic
  PROVE  IInv'
<1> DEFINE Moves(w) == /\ wk' = [wk EXCEPT ![w].pc = "process", ![w].st = "submitted"]
                       /\ wk[w] = Idle
<1>1. /\ UNCHANGED <<deployment, subs, listed, branches, done, client, key, asked, sent, rows, got>>
      /\ key = "cur" /\ status # "absent"
      /\ \/ told' = told /\ submitting' = "read" /\ ~OnRedis /\ status' = status
         \/ /\ told' = told \cup {"submitted"} /\ submitting' \in {"none", submitting}
            /\ status' = IF status = "prepared" THEN "submitted" ELSE status
      /\ wk' # wk /\ deployment # "sql_inline" => status = "prepared" /\ status' = "submitted"
      /\ wk' = wk \/ \E w \in Workers : Moves(w)
  <2>1. CASE SubmitRead
    BY <2>1 DEF SubmitRead, topics, db, world, IInv, KeyOK, CallerOK, OnRedis
  <2>2. CASE SubmitWrite
    BY <2>2 DEF SubmitWrite, topics, world, IInv, KeyOK, CallerOK, DriveDetached, OnRedis, Inline
  <2>3. CASE SubmitAtomic
    BY <2>3 DEF SubmitAtomic, topics, world, IInv, KeyOK, CallerOK, OnRedis, DriveDetached
  <2> QED BY <2>1, <2>2, <2>3
<1> DEFINE Moved == /\ wk' \in [Workers -> WorkerState]
                    /\ \A v \in Workers : \/ wk'[v] = wk[v]
                                          \/ /\ wk'[v].pc = "process" /\ wk'[v].st = "submitted"
                                             /\ wk'[v].open \subseteq sent /\ wk'[v].good = {}
                                             /\ OnItsWay'
<1>2. Moved
  <2>1. wk \in [Workers -> WorkerState]
    BY DEF IInv, WorkerOK
  <2>2. CASE wk' = wk
    BY <2>1, <2>2
  <2>3. ASSUME NEW w \in Workers, Moves(w), wk' # wk PROVE Moved
    <3>1. wk[w].open = {} /\ wk[w].good = {} /\ wk[w] \in WorkerState
      BY <2>1, <2>3 DEF Idle
    <3>2. wk' = [wk EXCEPT ![w].pc = "process", ![w].st = "submitted"] /\ OnItsWay'
      BY <1>1, <2>3 DEF IInv, KeyOK, OnItsWay
    <3> HIDE DEF Moves
    <3> QED BY <2>1, <3>1, <3>2 DEF WorkerState
  <2> QED BY <1>1, <2>2, <2>3
<1> HIDE DEF Moves
<1>3. TypeOK'
  <2>1. \A v \in Workers : wk[v].open \subseteq sent /\ wk[v].good \subseteq sent
    BY DEF IInv, TypeOK
  <2>2. \A v \in Workers : wk'[v].open \subseteq sent /\ wk'[v].good \subseteq sent
    BY <1>2, <2>1
  <2> QED BY <1>1, <1>2, <2>2 DEF IInv, TypeOK, WorkerState, GlobalStatus
<1>4. WorkerOK' /\ ReceivedOK'
  BY <1>1, <1>2 DEF IInv, WorkerOK, ReceivedOK
<1>5. TopicOK' /\ CallerOK' /\ SentOK'
  BY <1>1 DEF IInv, TopicOK, OnRedis, CallerOK, SentOK, OnItsWay
<1>6. KeyOK'
  BY <1>1 DEF IInv, TypeOK, GlobalStatus, KeyOK
<1>7. CopyOK'
  BY <1>1, <1>2 DEF IInv, CopyOK, OnItsWay
<1>8. DecidedOK'
  BY <1>1, <1>2 DEF IInv, DecidedOK, Knows
<1>9. FinalOK'
  BY <1>1 DEF IInv, FinalOK
<1> QED BY <1>3, <1>4, <1>5, <1>6, <1>7, <1>8, <1>9 DEF IInv

\* A confirmed abort finds the message prepared, so nothing has been sent,
\* except by a submit that drives what it did not submit.
LEMMA AbortInv ==
  ASSUME IInv, Abort PROVE IInv'
<1>1. UNCHANGED <<deployment, subs, listed, client, submitting, branches, done, wk, key, asked,
                  sent, rows, got>>
  BY DEF Abort, topics, world
<1>2. \/ status' = status /\ told' = told
      \/ status = "prepared" /\ status' = "aborting" /\ told' = told \cup {"aborted"}
  BY DEF Abort
<1>3. TypeOK'
  BY <1>1, <1>2 DEF IInv, TypeOK, GlobalStatus
<1>4. WorkerOK' /\ TopicOK' /\ ReceivedOK'
  BY <1>1 DEF IInv, WorkerOK, TopicOK, OnRedis, ReceivedOK
<1>5. CallerOK' /\ FinalOK'
  BY <1>1, <1>2 DEF IInv, CallerOK, OnRedis, FinalOK
<1>6. KeyOK'
  BY <1>1, <1>2 DEF IInv, KeyOK
<1>7. CopyOK' /\ SentOK'
  BY <1>1, <1>2 DEF IInv, CopyOK, OnItsWay, SentOK
<1>8. DecidedOK'
  BY <1>1 DEF IInv, DecidedOK, Knows
<1> QED BY <1>3, <1>4, <1>5, <1>6, <1>7, <1>8 DEF IInv

-----------------------------------------------------------------------------
(***************************************************************************)
(* The driver's writes and calls.                                          *)
(***************************************************************************)

\* The driver writes a status only where it still knows why.
LEMMA TransitionInv ==
  ASSUME IInv, NEW w \in Workers, Transition(w) PROVE IInv'
<1>1. /\ UNCHANGED <<deployment, subs, listed, client, told, submitting, branches, done, key, asked,
                     sent, rows, got>>
      /\ wk \in [Workers -> WorkerState] /\ wk[w] \in WorkerState
      /\ Knows(w)
  BY DEF Transition, topics, api, world, IInv, WorkerOK, DecidedOK
<1>2. CASE ~CanTransition(w)
  <2>1. EndRound(w) /\ status' = status /\ asked' \in BOOLEAN
    BY <1>1, <1>2 DEF Transition, IInv, TypeOK
  <2> QED BY <1>1, <2>1, EndRoundInv DEF topics, api, db
<1>3. CASE CanTransition(w)
  <2>1. /\ status' = wk[w].to
        /\ \/ status = wk[w].st
           \/ wk[w].st # "prepared" /\ deployment # "sql_inline"
    BY <1>3 DEF Transition, CanTransition, OnRedis, StatusContested
  <2> DEFINE on == [Idle EXCEPT !.pc = "process", !.st = "submitted"]
  <2>2. \/ wk[w].to = "submitted" /\ wk' = [wk EXCEPT ![w] = on]
        \/ wk' = [wk EXCEPT ![w] = Idle]
    BY <1>3 DEF Transition, EndRound
  <2>3. /\ Idle \in WorkerState /\ Idle.pc = "idle" /\ Idle.st = "prepared"
        /\ Idle.open = {} /\ Idle.good = {}
        /\ on \in WorkerState /\ on.pc = "process" /\ on.st = "submitted"
        /\ on.open = {} /\ on.good = {}
    BY DEF Idle, WorkerState
  <2> HIDE DEF on
  <2>4. /\ wk' \in [Workers -> WorkerState]
        /\ \A v \in Workers : v # w => wk'[v] = wk[v]
        /\ wk'[w].pc \in {"idle", "process"} /\ wk'[w].open = {} /\ wk'[w].good = {}
        /\ wk'[w].st \in {"prepared", "submitted"}
        /\ wk'[w].st = "submitted" => wk[w].to = "submitted"
    BY <1>1, <2>2, <2>3
  <2>5. wk[w].st = "submitted" => /\ key = "cur" /\ "aborted" \notin told
                                  /\ status \in {"submitted", "succeed"}
    BY <2>1 DEF IInv, CopyOK, OnItsWay, KeyOK
  <2>6. wk[w].st = "aborting" => "aborted" \in told
    BY DEF IInv, CopyOK, OnItsWay
  \* Which write it is, and what it rests on.
  <2>7. \/ status = "prepared" /\ status' = "submitted" /\ key = "cur"
        \/ status = "prepared" /\ status' = "failed" /\ key = "rollback"
        \/ "aborted" \in told /\ status' = "failed"
        \/ /\ status' = "succeed" /\ branches = {}
           /\ \/ "aborted" \in told
              \/ key = "cur" /\ status \in {"submitted", "succeed"}
        \/ /\ status' = "succeed" /\ key = "cur" /\ "aborted" \notin told
           /\ status \in {"submitted", "succeed"}
           /\ \A b \in branches : "action" \in rows[b]
    BY <1>1, <2>1, <2>5, <2>6 DEF Knows, WorkerState
  <2>8. status # "absent" /\ status' \in GlobalStatus
    BY <2>7 DEF IInv, CallerOK, OnRedis, GlobalStatus
  <2>9. TypeOK'
    <3>1. \A v \in Workers : wk'[v].open \subseteq sent /\ wk'[v].good \subseteq sent
      BY <2>4 DEF IInv, TypeOK
    <3> QED BY <1>1, <2>4, <2>8, <3>1 DEF IInv, TypeOK, WorkerState
  <2>10. WorkerOK' /\ ReceivedOK'
    BY <1>1, <2>4 DEF IInv, WorkerOK, ReceivedOK
  <2>11. TopicOK' /\ FinalOK'
    BY <1>1, <2>7 DEF IInv, TopicOK, OnRedis, FinalOK
  <2>12. CallerOK'
    BY <1>1, <2>8 DEF IInv, CallerOK, OnRedis, GlobalStatus
  <2>13. KeyOK'
    BY <1>1, <2>7 DEF IInv, KeyOK
  <2>14. CopyOK'
    <3> SUFFICES ASSUME NEW v \in Workers
                 PROVE  /\ wk'[v].st = "submitted" => OnItsWay'
                        /\ wk'[v].st = "aborting" => "aborted" \in told'
      BY DEF CopyOK, OnItsWay
    <3>1. CASE v = w
      <4>1. wk'[v].st = "submitted" => status = "prepared" /\ status' = "submitted" /\ key = "cur"
        BY <2>1, <2>4, <2>7, <3>1
      <4> QED BY <1>1, <2>4, <3>1, <4>1 DEF IInv, KeyOK, OnItsWay
    <3>2. CASE v # w
      <4>1. wk'[v] = wk[v]
        BY <2>4, <3>2
      <4> QED BY <1>1, <2>7, <4>1 DEF IInv, CopyOK, OnItsWay
    <3> QED BY <3>1, <3>2
  <2>15. SentOK'
    <3>1. sent = {} \/ branches # {}
      BY DEF IInv, TypeOK
    <3> QED BY <1>1, <2>7, <3>1 DEF IInv, SentOK, OnItsWay
  <2>16. DecidedOK'
    BY <1>1, <2>4 DEF IInv, DecidedOK, Knows
  <2> QED BY <2>9, <2>10, <2>11, <2>12, <2>13, <2>14, <2>15, <2>16 DEF IInv
<1> QED BY <1>2, <1>3

\* The next step is called only when nobody in the steps before it is open.
LEMMA AdvanceInv ==
  ASSUME IInv, NEW w \in Workers, Advance(w) PROVE IInv'
<1> DEFINE d == MsgFanoutAdvance(wk[w].st, branches, done)
<1>1. /\ UNCHANGED <<topics, api, db, key, asked, rows, got>> /\ asked \in BOOLEAN
      /\ wk \in [Workers -> WorkerState] /\ wk[w] \in WorkerState
      /\ wk[w].st \in {"submitted", "aborting"}
  BY DEF Advance, IInv, TypeOK, WorkerOK, WorkerState
<1>2. /\ sent' = sent \cup d.each
      /\ \/ /\ d.each # {}
            /\ wk' = [wk EXCEPT ![w].pc = "calls", ![w].open = d.each, ![w].ok = TRUE]
         \/ /\ d.each = {}
            /\ wk' = [wk EXCEPT ![w].pc = "transition", ![w].to = d.to]
  BY DEF Advance
<1>3. /\ \A b \in branches : b[1] \in Nat
      /\ branches \subseteq Branch /\ sent \subseteq branches /\ done \subseteq branches
  BY StepNumbers DEF IInv, TypeOK
<1>4. \/ /\ wk[w].st = "submitted" /\ d = [each |-> {}, to |-> "succeed"]
         /\ branches \subseteq done
      \/ /\ wk[w].st = "submitted" /\ d.each # {} /\ d.each \subseteq branches
         /\ \A b \in branches \ done, c \in d.each : ~(b[1] < c[1])
      \/ wk[w].st = "aborting" /\ d = [each |-> {}, to |-> "failed"]
  BY <1>1, <1>3, MsgFanoutAdvanceCases
<1> HIDE DEF d
<1>5. CASE d.each = {}
  <2>1. /\ sent' = sent /\ wk' = [wk EXCEPT ![w].pc = "transition", ![w].to = d.to]
        /\ \/ wk[w].st = "submitted" /\ d.to = "succeed" /\ branches \subseteq done
           \/ wk[w].st = "aborting" /\ d.to = "failed"
    BY <1>2, <1>4, <1>5
  <2>2. /\ wk' \in [Workers -> WorkerState]
        /\ wk'[w] = [wk[w] EXCEPT !.pc = "transition", !.to = d.to]
        /\ \A v \in Workers \ {w} : wk'[v] = wk[v]
    BY <1>1, <2>1 DEF WorkerState
  <2>3. /\ wk'[w].pc = "transition" /\ wk'[w].to = d.to /\ wk'[w].st = wk[w].st
        /\ wk'[w].open = wk[w].open /\ wk'[w].good = wk[w].good
    BY <1>1, <2>2 DEF WorkerState
  <2>4. \A b \in done : "action" \in rows[b]
    BY DEF IInv, ReceivedOK
  <2>5. Knows(w)'
    BY <1>1, <2>1, <2>3, <2>4 DEF Knows, db
  <2>6. wk[w].open \subseteq sent
    BY DEF IInv, TypeOK
  <2>7. MayBecome(w)
    BY <2>3, <2>5, <2>6 DEF MayBecome
  <2> QED BY <1>1, <2>1, <2>2, <2>7, WorkerInv
<1>6. CASE d.each # {}
  <2>1. /\ wk' = [wk EXCEPT ![w].pc = "calls", ![w].open = d.each, ![w].ok = TRUE]
        /\ wk[w].st = "submitted" /\ d.each \in SUBSET branches
        /\ \A b \in branches \ done, c \in d.each : ~(b[1] < c[1])
    BY <1>2, <1>4, <1>6
  <2>2. d.each \in SUBSET Branch
    BY <1>3, <2>1
  <2>3. /\ wk' \in [Workers -> WorkerState]
        /\ wk'[w] = [wk[w] EXCEPT !.pc = "calls", !.open = d.each, !.ok = TRUE]
        /\ \A v \in Workers \ {w} : wk'[v] = wk[v]
    BY <1>1, <2>1, <2>2 DEF WorkerState
  <2>4. /\ wk'[w].pc = "calls" /\ wk'[w].open = d.each /\ wk'[w].good = wk[w].good
        /\ wk'[w].st = "submitted"
    BY <1>1, <2>1, <2>3 DEF WorkerState
  <2>5. UNCHANGED <<subs, listed, deployment, client, told, submitting, status, branches, done,
                    key, asked, rows, got>>
    BY <1>1 DEF topics, api, db
  <2>6. TypeOK'
    <3>1. \A v \in Workers : wk[v].open \subseteq sent /\ wk[v].good \subseteq sent
      BY DEF IInv, TypeOK
    <3>2. \A v \in Workers : wk'[v].open \subseteq sent' /\ wk'[v].good \subseteq sent'
      BY <1>2, <2>3, <2>4, <3>1
    <3>3. sent' \subseteq branches
      BY <1>2, <1>3, <2>1
    <3> QED BY <2>3, <2>5, <3>2, <3>3 DEF IInv, TypeOK, WorkerState
  <2>7. WorkerOK' /\ CopyOK'
    BY <2>3, <2>4, <2>5, <2>1 DEF IInv, WorkerOK, CopyOK, OnItsWay
  <2>8. TopicOK' /\ CallerOK' /\ KeyOK' /\ FinalOK'
    BY <2>5 DEF IInv, TopicOK, OnRedis, CallerOK, KeyOK, FinalOK
  <2>9. ReceivedOK'
    BY <1>2, <2>3, <2>4, <2>5 DEF IInv, ReceivedOK
  <2>10. SentOK'
    <3>1. OnItsWay'
      BY <2>1, <2>5 DEF IInv, CopyOK, OnItsWay
    <3>2. ASSUME NEW b \in branches, NEW c \in sent', b[1] < c[1] PROVE "action" \in rows[b]
      <4>1. CASE c \in sent
        BY <3>2, <4>1 DEF IInv, SentOK, OnItsWay
      <4>2. CASE c \in d.each
        <5>1. b \in done
          BY <2>1, <3>2, <4>2
        <5> QED BY <5>1 DEF IInv, ReceivedOK
      <4> QED BY <1>2, <4>1, <4>2
    <3> QED BY <2>5, <3>1, <3>2 DEF SentOK, OnItsWay
  <2>11. DecidedOK'
    BY <2>3, <2>4, <2>5 DEF IInv, DecidedOK, Knows
  <2> QED BY <2>6, <2>7, <2>8, <2>9, <2>10, <2>11 DEF IInv
<1> QED BY <1>5, <1>6

\* A receiver that is called has the message, and takes it once.
LEMMA ReceivesOnce ==
  ASSUME IInv, NEW b \in Branch, Receives(b)
  PROVE  /\ rows' \in [Branch -> SUBSET {"action"}] /\ got' \in [Branch -> Nat]
         /\ "action" \in rows'[b]
         /\ \A x \in Branch : /\ x # b => rows'[x] = rows[x]
                              /\ "action" \in rows[x] => "action" \in rows'[x]
                              /\ got'[x] = IF "action" \in rows'[x] THEN 1 ELSE 0
<1>1. DecideRows(rows[b], "action") = rows[b] \cup {"action"}
  BY DEF DecideRows, OriginOp
<1>2. Decide(rows[b], "action") = IF "action" \in rows[b] THEN "Duplicated" ELSE "Execute"
  BY DEF Decide, IsCompensating, OriginOp
<1>3. /\ rows \in [Branch -> SUBSET {"action"}] /\ got \in [Branch -> Nat]
      /\ \A x \in Branch : got[x] = IF "action" \in rows[x] THEN 1 ELSE 0
  BY DEF IInv, TypeOK, ReceivedOK
<1>4. rows' = [rows EXCEPT ![b] = rows[b] \cup {"action"}]
  BY <1>1 DEF Receives
<1>5. got' = [got EXCEPT ![b] = IF "action" \in rows[b] THEN got[b] ELSE got[b] + 1]
  BY <1>2 DEF Receives
<1>6. rows' \in [Branch -> SUBSET {"action"}] /\ got' \in [Branch -> Nat]
  BY <1>3, <1>4, <1>5
<1>7. got'[b] = 1 /\ "action" \in rows'[b]
  BY <1>3, <1>4, <1>5
<1>8. \A x \in Branch : x # b => rows'[x] = rows[x] /\ got'[x] = got[x]
  BY <1>3, <1>4, <1>5
<1> QED BY <1>3, <1>6, <1>7, <1>8

\* A call reaches its receiver, whether or not a worker waits for it.
LEMMA DeliverInv ==
  ASSUME IInv, NEW b \in sent, Receives(b), UNCHANGED <<topics, api, db, key, asked, sent>>,
         wk' \in [Workers -> WorkerState],
         \A v \in Workers : /\ wk'[v].pc = wk[v].pc /\ wk'[v].st = wk[v].st /\ wk'[v].to = wk[v].to
                            /\ wk'[v].open \subseteq wk[v].open
                            /\ wk'[v].good \subseteq wk[v].good \cup {b}
  PROVE  IInv'
<1>1. UNCHANGED <<subs, listed, deployment, client, told, submitting, status, branches, done, key,
                  asked, sent>>
  BY DEF topics, api, db
<1>2. /\ b \in Branch /\ branches \subseteq Branch /\ done \subseteq Branch /\ sent \subseteq Branch
      /\ \A v \in Workers : wk[v].open \subseteq sent /\ wk[v].good \subseteq sent
  BY DEF IInv, TypeOK
<1>3. /\ rows' \in [Branch -> SUBSET {"action"}] /\ got' \in [Branch -> Nat]
      /\ "action" \in rows'[b]
      /\ \A x \in Branch : /\ x # b => rows'[x] = rows[x]
                           /\ "action" \in rows[x] => "action" \in rows'[x]
                           /\ got'[x] = IF "action" \in rows'[x] THEN 1 ELSE 0
  BY <1>2, ReceivesOnce
<1>4. TypeOK'
  <2>1. \A v \in Workers : wk'[v].open \subseteq sent /\ wk'[v].good \subseteq sent
    BY <1>2
  <2> QED BY <1>1, <1>3, <2>1 DEF IInv, TypeOK, WorkerState
<1>5. WorkerOK' /\ CopyOK'
  BY <1>1 DEF IInv, WorkerOK, CopyOK, OnItsWay
<1>6. TopicOK' /\ CallerOK' /\ KeyOK'
  BY <1>1 DEF IInv, TopicOK, OnRedis, CallerOK, KeyOK
<1>7. ReceivedOK'
  <2>1. \A x \in Branch : "action" \in rows'[x] => x \in sent
    BY <1>3 DEF IInv, ReceivedOK
  <2>2. \A x \in done : "action" \in rows'[x]
    BY <1>2, <1>3 DEF IInv, ReceivedOK
  <2>3. \A v \in Workers : \A x \in wk'[v].good : "action" \in rows'[x]
    BY <1>2, <1>3 DEF IInv, ReceivedOK
  <2> QED BY <1>1, <1>3, <2>1, <2>2, <2>3 DEF ReceivedOK
<1>8. SentOK' /\ FinalOK'
  BY <1>1, <1>2, <1>3 DEF IInv, SentOK, OnItsWay, FinalOK
<1>9. DecidedOK'
  <2> SUFFICES ASSUME NEW v \in Workers, wk[v].pc = "transition" PROVE Knows(v)'
    BY DEF DecidedOK
  <2>1. Knows(v)
    BY DEF IInv, DecidedOK
  <2> QED BY <1>1, <1>2, <1>3, <2>1 DEF Knows
<1> QED BY <1>4, <1>5, <1>6, <1>7, <1>8, <1>9 DEF IInv

\* A success is recorded.
LEMMA RecordInv ==
  ASSUME IInv, NEW w \in Workers, NEW b \in Branch, Record(w, b) PROVE IInv'
<1>1. /\ UNCHANGED <<subs, listed, deployment, client, told, submitting, status, branches, key,
                     asked, sent, rows, got>>
      /\ done' = done \cup {b} /\ b \in wk[w].good
  BY DEF Record, topics, api, world
<1>2. wk \in [Workers -> WorkerState] /\ wk[w] \in WorkerState
  BY DEF IInv, WorkerOK
<1>3. wk' \in [Workers -> WorkerState] /\ wk'[w] = [wk[w] EXCEPT !.good = @ \ {b}]
      /\ \A v \in Workers \ {w} : wk'[v] = wk[v]
  BY <1>2 DEF Record, WorkerState
<1>4. \A v \in Workers : /\ wk'[v].pc = wk[v].pc /\ wk'[v].st = wk[v].st /\ wk'[v].to = wk[v].to
                         /\ wk'[v].open = wk[v].open /\ wk'[v].good \subseteq wk[v].good
  BY <1>2, <1>3 DEF WorkerState
<1>5. b \in branches /\ "action" \in rows[b]
  BY <1>1 DEF IInv, TypeOK, ReceivedOK
<1>6. TypeOK'
  <2>1. \A v \in Workers : wk'[v].open \subseteq sent /\ wk'[v].good \subseteq sent
    BY <1>4 DEF IInv, TypeOK
  <2>2. done' \subseteq branches
    BY <1>1, <1>5 DEF IInv, TypeOK
  <2> QED BY <1>1, <1>3, <2>1, <2>2 DEF IInv, TypeOK, WorkerState
<1>7. WorkerOK' /\ CopyOK'
  BY <1>1, <1>3, <1>4 DEF IInv, WorkerOK, CopyOK, OnItsWay
<1>8. TopicOK' /\ CallerOK' /\ KeyOK' /\ SentOK' /\ FinalOK'
  BY <1>1 DEF IInv, TopicOK, OnRedis, CallerOK, KeyOK, SentOK, OnItsWay, FinalOK
<1>9. ReceivedOK'
  BY <1>1, <1>4, <1>5 DEF IInv, ReceivedOK
<1>10. DecidedOK'
  BY <1>1, <1>4 DEF IInv, DecidedOK, Knows
<1> QED BY <1>6, <1>7, <1>8, <1>9, <1>10 DEF IInv

-----------------------------------------------------------------------------
(***************************************************************************)
(* The theorems.                                                           *)
(***************************************************************************)

\* Every step of the specification keeps the invariant.
LEMMA NextInv == IInv /\ [Next]_vars => IInv'
<1> SUFFICES ASSUME IInv, [Next]_vars PROVE IInv'
  OBVIOUS
<1>1. CASE UNCHANGED vars
  <2>1. wk \in [Workers -> WorkerState] /\ asked \in BOOLEAN
    BY DEF IInv, WorkerOK, TypeOK
  <2>2. UNCHANGED <<topics, api, db, sent, rows, got, asked, key, wk>>
    BY <1>1 DEF vars, topics, api, db
  <2> QED BY <2>1, <2>2, WorkerInv
<1>2. ASSUME NEW u \in Urls, Subscribe(u) \/ Unsubscribe(u) PROVE IInv'
  BY <1>2, TopicInv
<1>3. CASE DeleteTopic
  <2>1. PICK u \in Urls : u \in subs
    BY <1>3 DEF DeleteTopic, IInv, TypeOK
  <2> QED BY <1>3, TopicInv
<1>4. CASE (\E m \in Messages, e \in BOOLEAN : PrepareRead(m, e)) \/ PrepareWrite
  BY <1>4, PrepareInv
<1>5. CASE LocalCommit \/ LocalFails
  BY <1>5, CallerInv
<1>6. CASE SubmitRead \/ SubmitWrite \/ SubmitAtomic
  BY <1>6, SubmitInv
<1>7. CASE Abort
  BY <1>7, AbortInv
<1>8. CASE QueryStray
  BY <1>8, QueryStrayInv
<1>9. ASSUME NEW b \in Branch, DeliverStray(b) PROVE IInv'
  <2>1. wk' = wk /\ wk \in [Workers -> WorkerState] /\ b \in sent
    BY <1>9 DEF DeliverStray, IInv, WorkerOK
  <2>2. Receives(b) /\ UNCHANGED <<topics, api, db, key, asked, sent>>
    BY <1>9 DEF DeliverStray
  <2> QED BY <2>1, <2>2, DeliverInv
<1>10. ASSUME NEW w \in Workers, QueryTimeout(w) \/ Crash(w) PROVE IInv'
  <2>1. /\ EndRound(w) /\ UNCHANGED <<topics, api, db, sent, rows, got>>
        /\ asked' \in BOOLEAN /\ key' = key
    BY <1>10 DEF QueryTimeout, Crash, world, IInv, TypeOK
  <2> QED BY <2>1, EndRoundInv
<1>11. ASSUME NEW w \in Workers, Lock(w) \/ Process(w) \/ Query(w) \/ Transition(w) \/ Advance(w)
                                 \/ Joined(w)
       PROVE  IInv'
  BY <1>11, LockInv, ProcessInv, QueryInv, TransitionInv, AdvanceInv, JoinedInv
<1>12. ASSUME NEW w \in Workers, NEW b \in Branch, NotDelivered(w, b) \/ Record(w, b) PROVE IInv'
  BY <1>12, NotDeliveredInv, RecordInv
<1>13. ASSUME NEW w \in Workers, NEW b \in Branch, Deliver(w, b) PROVE IInv'
  <2>1. wk \in [Workers -> WorkerState] /\ wk[w] \in WorkerState /\ b \in sent
    BY <1>13 DEF Deliver, IInv, WorkerOK, TypeOK
  <2>2. /\ Receives(b) /\ UNCHANGED <<topics, api, db, key, asked, sent>>
        /\ wk' = [wk EXCEPT ![w].open = @ \ {b}, ![w].good = @ \cup {b}]
    BY <1>13 DEF Deliver
  <2>3. /\ wk' \in [Workers -> WorkerState]
        /\ wk'[w] = [wk[w] EXCEPT !.open = @ \ {b}, !.good = @ \cup {b}]
        /\ \A v \in Workers \ {w} : wk'[v] = wk[v]
    BY <2>1, <2>2 DEF WorkerState
  <2>4. \A v \in Workers : /\ wk'[v].pc = wk[v].pc /\ wk'[v].st = wk[v].st /\ wk'[v].to = wk[v].to
                           /\ wk'[v].open \subseteq wk[v].open
                           /\ wk'[v].good \subseteq wk[v].good \cup {b}
    BY <2>1, <2>3 DEF WorkerState
  <2> QED BY <2>1, <2>2, <2>3, <2>4, DeliverInv
<1> QED BY <1>1, <1>2, <1>3, <1>4, <1>5, <1>6, <1>7, <1>8, <1>9, <1>10, <1>11, <1>12, <1>13 DEF Next

\* The invariant holds in every reachable state.
THEOREM MsgInvariant == Spec => []IInv
BY InitInv, NextInv, PTL DEF Spec

\* The variables keep their types.
THEOREM MsgTypeCorrect == Spec => []TypeOK
<1>1. IInv => TypeOK
  BY DEF IInv
<1> QED BY <1>1, MsgInvariant, PTL

\* An operator sees all subscribers a message would go to: subscribe and
\* unsubscribe of the Redis store never lose a topic from the index.
THEOREM MsgListingIsWhole == Spec => []ListingIsWhole
<1>1. IInv => ListingIsWhole
  BY DEF IInv, TopicOK, ListingIsWhole, ListTopicSubs, TopicUrls, AllSubscriptions, SubscriptionsOf
<1> QED BY <1>1, MsgInvariant, PTL

\* Nobody has a message whose local transaction did not commit nor, where
\* submit compares, one whose abort was confirmed, whichever way check-back,
\* anybody's abort and repeated submits interleave.
THEOREM MsgOnlyIfCommitted == Spec => []OnlyIfCommitted
<1>1. ASSUME IInv PROVE OnlyIfCommitted
  <2>1. ASSUME NEW b \in Branch, got[b] > 0 PROVE OnItsWay
    BY <1>1, <2>1 DEF IInv, ReceivedOK, SentOK, OnItsWay
  <2>2. \A b \in Branch : got[b] \in Nat
    BY <1>1 DEF IInv, TypeOK
  <2> QED BY <2>1, <2>2 DEF OnlyIfCommitted, AbortedIsSilent, SubmitCompares, OnRedis, Inline,
             OnItsWay
<1> QED BY <1>1, MsgInvariant, PTL

\* A message that ended as a success has been taken once by everybody it was
\* addressed to, one that ended as a failure by nobody where submit compares,
\* with any number of drivers, repeated calls and late ones.
THEOREM MsgDeliveredIsWhole == Spec => []DeliveredIsWhole
<1>1. ASSUME IInv PROVE DeliveredIsWhole
  <2>1. ASSUME status = "succeed", NEW b \in branches PROVE got[b] = 1
    BY <1>1, <2>1 DEF IInv, TypeOK, FinalOK, ReceivedOK
  <2>2. ASSUME SubmitCompares, status = "failed", NEW b \in Branch PROVE got[b] = 0
    BY <1>1, <2>2 DEF IInv, ReceivedOK, SentOK, OnItsWay, SubmitCompares, OnRedis, Inline
  <2> QED BY <2>1, <2>2 DEF DeliveredIsWhole
<1> QED BY <1>1, MsgInvariant, PTL

\* Nobody has a step of a message before everybody in the steps before it.
THEOREM MsgStepOrder == Spec => []StepOrder
<1>1. ASSUME IInv PROVE StepOrder
  <2> SUFFICES ASSUME NEW b \in branches, NEW c \in branches, b[1] < c[1], got[c] > 0
               PROVE  got[b] > 0
    BY DEF StepOrder
  <2>1. b \in Branch /\ c \in Branch
    BY <1>1 DEF IInv, TypeOK
  <2>2. c \in sent
    BY <1>1, <2>1 DEF IInv, ReceivedOK
  <2>3. "action" \in rows[b]
    BY <1>1, <2>2 DEF IInv, SentOK, OnItsWay
  <2> QED BY <1>1, <2>1, <2>3 DEF IInv, ReceivedOK
<1> QED BY <1>1, MsgInvariant, PTL

\* A caller that was told its message is submitted is let down by nothing but
\* a confirmed abort.
THEOREM MsgSubmitHolds == Spec => []SubmitHolds
<1>1. IInv => SubmitHolds
  BY DEF IInv, KeyOK, SubmitHolds
<1> QED BY <1>1, MsgInvariant, PTL

=============================================================================
