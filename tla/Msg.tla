-------------------------------- MODULE Msg --------------------------------
(***************************************************************************)
(* One two-phase message: the caller that prepares it, commits its local   *)
(* transaction and submits (Api), the topic it is addressed to, the        *)
(* check-back that decides for a caller that went away, and the delivery   *)
(* by Driver::process_msg, which calls all branches of a step at once.     *)
(*                                                                         *)
(* The caller's local transaction and the check-back meet in one key of    *)
(* the Redis barrier (RedisBarrier::query_prepared): whichever comes first *)
(* takes it.  What a refusal inside the barrier's script leads to is in    *)
(* RedisBarrier.  Receivers sit behind a barrier of their own.             *)
(*                                                                         *)
(* As in TwoPhase there are no leases: any idle worker may take the        *)
(* transaction whenever it is schedulable.                                 *)
(***************************************************************************)
EXTENDS Core, Barrier, Sequences

CONSTANTS
  Messages,     \* messages a caller may send: sequences of steps, a url or Topic each
  Topic,        \* the address that stands for its subscribers
  Static,       \* urls subscribed in the code (static_topics)
  Urls,         \* urls that may subscribe
  Plain,        \* urls that are addressed directly
  Workers,      \* worker loops and detached drivers
  Deployments   \* of {"sql", "sql_inline", "redis", "redis_inline"}

ASSUME MessagesAssumption == Messages \subseteq Seq(Urls \cup Plain \cup {Topic})
ASSUME StaticAssumption == Static \subseteq Urls

VARIABLES
  deployment,   \* which store, and may the API drive what it submits itself?
  subs,         \* the topic's rows in topic_sub, or its hash
  listed,       \* Redis: is the topic in the index of topics?
  status,       \* trans_global.status
  branches,     \* trans_global.payload: the expanded branches
  done,         \* branches whose row says succeed
  client,       \* where the caller is
  told,         \* what the API has confirmed: submits, aborts
  submitting,   \* "read": a submit_prepared between its two SQL statements
  key,          \* the barrier key of the local transaction
  asked,        \* has a check-back ever been sent?
  wk,           \* each worker's locals
  sent,         \* branches ever called
  rows,         \* barrier rows of each receiver
  got           \* how often each receiver's business logic took effect

api == <<deployment, client, told, submitting>>
topics == <<subs, listed>>
db == <<status, branches, done>>
world == <<key, asked, sent, rows, got>>
vars == <<deployment, subs, listed, status, branches, done, client, told, submitting, key, asked,
          wk, sent, rows, got>>

Branch == {<<i, u>> : i \in UNION {DOMAIN m : m \in Messages}, u \in Urls \cup Plain}

OnRedis == deployment \in {"redis", "redis_inline"}
Inline == deployment \in {"sql_inline", "redis_inline"}

\* A worker that drives nothing.
Idle == [pc |-> "idle", st |-> "prepared", to |-> "none", open |-> {}, good |-> {}, ok |-> TRUE]

TypeOK ==
  /\ deployment \in Deployments
  /\ subs \subseteq Urls /\ listed \in BOOLEAN
  /\ status \in GlobalStatus \cup {"absent"}
  /\ branches \subseteq Branch /\ done \subseteq branches
  /\ client \in {"new", "preparing", "prepared", "committed", "failed", "gone"}
  /\ told \subseteq {"submitted", "aborted"}
  /\ submitting \in {"none", "read"}
  /\ key \in {"none", "cur", "rollback"}
  /\ asked \in BOOLEAN
  /\ \A w \in Workers :
       /\ wk[w].pc \in {"idle", "process", "query", "loop", "calls", "transition"}
       /\ wk[w].st \in {"prepared", "submitted", "aborting"}
       /\ wk[w].to \in {"none", "submitted", "succeed", "failed"}
       /\ wk[w].open \subseteq sent /\ wk[w].good \subseteq sent
       /\ wk[w].ok \in BOOLEAN
  /\ sent \subseteq branches
  /\ rows \in [Branch -> SUBSET {"action"}]
  /\ got \in [Branch -> Nat]

Init ==
  /\ deployment \in Deployments
  /\ subs = {} /\ listed = FALSE
  /\ status = "absent"
  /\ branches = {} /\ done = {}
  /\ client = "new" /\ told = {} /\ submitting = "none"
  /\ key = "none" /\ asked = FALSE
  /\ wk = [w \in Workers |-> Idle]
  /\ sent = {}
  /\ rows = [b \in Branch |-> {}]
  /\ got = [b \in Branch |-> 0]

-----------------------------------------------------------------------------
(***************************************************************************)
(* The topic.  Who subscribes after the caller has read the subscribers is *)
(* of no consequence, so the topic changes only until then.                *)
(***************************************************************************)

\* The SQL store keeps rows ...
SubscribeSql(u) == subs' = subs \cup {u} /\ UNCHANGED listed
UnsubscribeSql(u) == subs' = subs \ {u} /\ UNCHANGED listed
DeleteTopicSql == subs' = {} /\ UNCHANGED listed

\* ... the Redis store a hash for the topic, and the set of topics that have one,
\* changed together in a script.
SubscribeRedis(u) == subs' = subs \cup {u} /\ listed' = TRUE

\* Mutant of UnsubscribeRedis: the topic goes with any of its subscribers.
UnsubscribeRedisAll(u) == subs' = subs \ {u} /\ listed' = FALSE

UnsubscribeRedis(u) == subs' = subs \ {u} /\ listed' = (listed /\ subs' # {})
DeleteTopicRedis == subs' = {} /\ listed' = FALSE

\* Api::subscribe refuses an url that is subscribed already.
Subscribe(u) ==
  /\ client = "new" /\ u \notin Static \cup subs
  /\ IF OnRedis THEN SubscribeRedis(u) ELSE SubscribeSql(u)
  /\ UNCHANGED <<api, db, wk, world>>

\* Api::unsubscribe; what the code subscribes stays.
Unsubscribe(u) ==
  /\ client = "new" /\ u \in subs \ Static
  /\ IF OnRedis THEN UnsubscribeRedis(u) ELSE UnsubscribeSql(u)
  /\ UNCHANGED <<api, db, wk, world>>

DeleteTopic ==
  /\ client = "new" /\ subs # {}
  /\ IF OnRedis THEN DeleteTopicRedis ELSE DeleteTopicSql
  /\ UNCHANGED <<api, db, wk, world>>

\* list_subscriptions, of this topic and of all: of all, Redis goes by the index.
SubscriptionsOf == subs
AllSubscriptions == IF OnRedis /\ ~listed THEN {} ELSE subs

\* Api::topic_urls, what a message is expanded to.
TopicUrls == Static \cup SubscriptionsOf

\* Api::list_topic_subs of all topics, what an operator sees.
ListTopicSubs == Static \cup (AllSubscriptions \ Static)

-----------------------------------------------------------------------------
(***************************************************************************)
(* The caller and the API.  The caller may fall silent at any point:       *)
(* nothing makes it go on.                                                 *)
(***************************************************************************)

\* Api::prepare reads the subscribers and expands the steps ...
PrepareRead(steps, allow_empty_topic) ==
  /\ client = "new"
  /\ IF EmptyTopic(steps, Topic, TopicUrls) /\ ~allow_empty_topic
     THEN client' = "gone" /\ UNCHANGED branches
     ELSE /\ client' = "preparing"
          /\ branches' = ExpandMsgSteps(steps, Topic, TopicUrls)
  /\ UNCHANGED <<deployment, told, submitting, topics, status, done, wk, world>>

\* ... and stores the result: subscriptions that come later do not count.
PrepareWrite ==
  /\ client = "preparing"
  /\ client' = "prepared"
  /\ status' = "prepared"
  /\ UNCHANGED <<deployment, told, submitting, topics, branches, done, wk, world>>

\* The local transaction takes the key, unless a check-back has taken it.
LocalCommit ==
  /\ client = "prepared"
  /\ IF key = "none" THEN key' = "cur" /\ client' = "committed"
     ELSE client' = "failed" /\ UNCHANGED key
  /\ UNCHANGED <<deployment, told, submitting, topics, db, wk, asked, sent, rows, got>>

\* Or it fails for reasons of its own.
LocalFails ==
  /\ client = "prepared"
  /\ client' = "failed"
  /\ UNCHANGED <<deployment, told, submitting, topics, db, wk, world>>

\* drive_detached: the API process drives what it has just submitted.
DriveDetached(w) ==
  /\ wk[w] = Idle
  /\ wk' = [wk EXCEPT ![w].pc = "process", ![w].st = "submitted"]

\* The caller submits, more than once if it got no answer.  submit_prepared on
\* SQL reads, and whatever is not prepared counts as submitted before ...
SubmitRead ==
  /\ ~OnRedis /\ client = "committed" /\ submitting = "none"
  /\ IF status = "prepared"
     THEN submitting' = "read" /\ UNCHANGED told
     ELSE told' = told \cup {"submitted"} /\ UNCHANGED submitting
  /\ UNCHANGED <<deployment, client, topics, db, wk, world>>

\* ... then writes if the row is still prepared, and does not look whether it was.
SubmitWrite ==
  /\ submitting = "read"
  /\ submitting' = "none"
  /\ told' = told \cup {"submitted"}
  /\ status' = IF status = "prepared" THEN "submitted" ELSE status
  /\ \/ UNCHANGED wk
     \/ Inline /\ \E w \in Workers : DriveDetached(w)
  /\ UNCHANGED <<deployment, client, topics, branches, done, world>>

\* On Redis it is one script.
SubmitAtomic ==
  /\ OnRedis /\ client = "committed"
  /\ told' = told \cup {"submitted"}
  /\ \/ /\ status = "prepared"
        /\ status' = "submitted"
        /\ \/ UNCHANGED wk
           \/ Inline /\ \E w \in Workers : DriveDetached(w)
     \/ status # "prepared" /\ UNCHANGED <<status, wk>>
  /\ UNCHANGED <<deployment, client, submitting, topics, branches, done, world>>

\* Api::abort, from the caller or anyone else, at any time: it turns round what
\* is prepared and refuses what is decided.
Abort ==
  /\ status # "absent"
  /\ IF status = "prepared"
     THEN status' = "aborting" /\ told' = told \cup {"aborted"}
     ELSE UNCHANGED <<status, told>>
  /\ UNCHANGED <<deployment, client, submitting, topics, branches, done, wk, world>>

-----------------------------------------------------------------------------
(***************************************************************************)
(* The driver.                                                             *)
(***************************************************************************)
EndRound(w) == wk' = [wk EXCEPT ![w] = Idle]

Lock(w) ==
  /\ wk[w] = Idle
  /\ Schedulable(status, "msg")
  /\ wk' = [wk EXCEPT ![w].pc = "process", ![w].st = status]
  /\ UNCHANGED <<topics, api, db, world>>

\* process_msg: a prepared transaction is checked back on, one without
\* branches is closed as a success, anything else enters the loop.
Process(w) ==
  /\ wk[w].pc = "process"
  /\ \/ /\ wk[w].st = "prepared"
        /\ wk' = [wk EXCEPT ![w].pc = "query"]
        /\ asked' = TRUE
     \/ /\ wk[w].st # "prepared" /\ branches = {}
        /\ wk' = [wk EXCEPT ![w].pc = "transition", ![w].to = "succeed"]
        /\ UNCHANGED asked
     \/ /\ wk[w].st # "prepared" /\ branches # {}
        /\ wk' = [wk EXCEPT ![w].pc = "loop"]
        /\ UNCHANGED asked
  /\ UNCHANGED <<topics, api, db, key, sent, rows, got>>

\* RedisBarrier::query_prepared: a key nobody has taken becomes a refusal of
\* the local transaction.
QueryPrepared == key' = IF key = "none" THEN "rollback" ELSE key

\* What the driver makes of an endpoint's answer, by what the endpoint has found
\* out; on the way any answer may turn into one that says nothing.
Answers(committed) ==
  LET says == IF committed THEN {<<200, "">>} ELSE {<<409, "">>, <<200, "FAILURE">>}
      vague == {<<425, "">>, <<200, "ONGOING">>, <<503, "">>}
  IN {FromHttp(a[1], a[2]) : a \in says \cup vague}
     \cup {FromGrpc(c) : c \in {IF committed THEN 0 ELSE 10, 9, 14}}

\* The check-back is executed and answered.
Query(w) ==
  /\ wk[w].pc = "query"
  /\ QueryPrepared
  /\ \E r \in Answers(key = "cur") :
       \/ /\ r = "success"
          /\ wk' = [wk EXCEPT ![w].pc = "transition", ![w].to = "submitted"]
       \/ /\ r = "failure"
          /\ wk' = [wk EXCEPT ![w].pc = "transition", ![w].to = "failed"]
       \/ r \in {"ongoing", "unknown"} /\ EndRound(w)
  /\ UNCHANGED <<topics, api, db, asked, sent, rows, got>>

\* No answer: it may have been executed, or still be.
QueryTimeout(w) ==
  /\ wk[w].pc = "query"
  /\ EndRound(w)
  /\ UNCHANGED <<topics, api, db, world>>

QueryStray ==
  /\ asked
  /\ key = "none"
  /\ QueryPrepared
  /\ UNCHANGED <<topics, api, db, wk, asked, sent, rows, got>>

\* Mutant of CanTransition: the driver writes whatever the row holds.
CanTransitionAlways(w) == TRUE

\* Store::transition as the driver calls it.
CanTransition(w) ==
  \/ status = wk[w].st
  \/ OnRedis /\ ~StatusContested(wk[w].st, "msg")

\* The status is written; after a positive check-back the round goes on.
Transition(w) ==
  /\ wk[w].pc = "transition"
  /\ IF CanTransition(w)
     THEN /\ status' = wk[w].to
          /\ IF wk[w].to = "submitted"
             THEN wk' = [wk EXCEPT ![w] = [Idle EXCEPT !.pc = "process", !.st = "submitted"]]
             ELSE EndRound(w)
     ELSE EndRound(w) /\ UNCHANGED status
  /\ UNCHANGED <<topics, api, branches, done, world>>

\* Top of the loop: the branches of the first unfinished step are called.
Advance(w) ==
  LET d == MsgFanoutAdvance(wk[w].st, branches, done)
  IN /\ wk[w].pc = "loop"
     /\ IF d.each # {}
        THEN wk' = [wk EXCEPT ![w].pc = "calls", ![w].open = d.each, ![w].ok = TRUE]
        ELSE wk' = [wk EXCEPT ![w].pc = "transition", ![w].to = d.to]
     /\ sent' = sent \cup d.each
     /\ UNCHANGED <<topics, api, db, key, asked, rows, got>>

\* A receiver behind the barrier: it takes effect, or finds it has before.
Receives(b) ==
  /\ rows' = [rows EXCEPT ![b] = DecideRows(rows[b], "action")]
  /\ got' = [got EXCEPT ![b] = IF Decide(rows[b], "action") = "Execute" THEN @ + 1 ELSE @]

\* A call succeeds and its answer comes back.
Deliver(w, b) ==
  /\ wk[w].pc = "calls" /\ b \in wk[w].open
  /\ Receives(b)
  /\ wk' = [wk EXCEPT ![w].open = @ \ {b}, ![w].good = @ \cup {b}]
  /\ UNCHANGED <<topics, api, db, key, asked, sent>>

\* FAILURE, ONGOING or no answer: the branch stays open and the round is over
\* when the others have come back.
NotDelivered(w, b) ==
  /\ wk[w].pc = "calls" /\ b \in wk[w].open
  /\ wk' = [wk EXCEPT ![w].open = @ \ {b}, ![w].ok = FALSE]
  /\ UNCHANGED <<topics, api, db, world>>

\* Each success is recorded as it comes in.
Record(w, b) ==
  /\ wk[w].pc = "calls" /\ b \in wk[w].good
  /\ done' = done \cup {b}
  /\ wk' = [wk EXCEPT ![w].good = @ \ {b}]
  /\ UNCHANGED <<topics, api, status, branches, world>>

\* All calls are back: on with the next step, or retry_later.
Joined(w) ==
  /\ wk[w].pc = "calls" /\ wk[w].open = {} /\ wk[w].good = {}
  /\ IF wk[w].ok THEN wk' = [wk EXCEPT ![w].pc = "loop"] ELSE EndRound(w)
  /\ UNCHANGED <<topics, api, db, world>>

\* A call nobody waits for any more arrives.
DeliverStray(b) ==
  /\ b \in sent
  /\ Receives(b)
  /\ UNCHANGED <<topics, api, db, wk, key, asked, sent>>

\* The process dies or a store call fails.
Crash(w) ==
  /\ wk[w] # Idle
  /\ EndRound(w)
  /\ UNCHANGED <<topics, api, db, world>>

-----------------------------------------------------------------------------
Next ==
  \/ \E u \in Urls : Subscribe(u) \/ Unsubscribe(u)
  \/ DeleteTopic
  \/ \E m \in Messages, e \in BOOLEAN : PrepareRead(m, e)
  \/ PrepareWrite \/ LocalCommit \/ LocalFails
  \/ SubmitRead \/ SubmitWrite \/ SubmitAtomic \/ Abort
  \/ QueryStray
  \/ \E b \in Branch : DeliverStray(b)
  \/ \E w \in Workers :
       \/ Lock(w) \/ Process(w) \/ Query(w) \/ QueryTimeout(w) \/ Transition(w)
       \/ Advance(w) \/ Joined(w) \/ Crash(w)
       \/ \E b \in Branch : Deliver(w, b) \/ NotDelivered(w, b) \/ Record(w, b)

Spec == Init /\ [][Next]_vars

(***************************************************************************)
(* Fairness.  One worker keeps polling and gets through the rounds it      *)
(* begins, the others may stop anywhere for good; an endpoint that is      *)
(* asked again and again in the end says what it knows; receivers that are *)
(* called again and again in the end take the message.                     *)
(***************************************************************************)
Answered(w) == Query(w) /\ wk'[w].pc = "transition"

Fairness ==
  LET w == CHOOSE x \in Workers : TRUE IN
    /\ WF_vars(Lock(w))
    /\ SF_vars(Process(w))
    /\ SF_vars(Answered(w))
    /\ SF_vars(Transition(w))
    /\ SF_vars(Advance(w))
    /\ WF_vars(Joined(w))
    /\ SF_vars(\E b \in Branch : Deliver(w, b))
    /\ SF_vars(\E b \in Branch : Record(w, b))

FairSpec == Spec /\ Fairness

-----------------------------------------------------------------------------
(***************************************************************************)
(* Properties.                                                             *)
(***************************************************************************)

\* The list of all subscriptions shows everybody a message would now go to: on
\* Redis a topic that still has subscribers is never missing from the index,
\* the reason why subscribe and unsubscribe are scripts (redis_store.rs).
ListingIsWhole == ListTopicSubs = TopicUrls

\* Deployments in which a submit that lost to somebody else drives nothing.
SubmitCompares == OnRedis \/ ~Inline

\* Once an abort has been confirmed nobody receives the message.
AbortedIsSilent == "aborted" \in told => \A b \in Branch : got[b] = 0

\* Nobody receives a message whose local transaction did not commit and, where
\* submit compares, nobody one whose abort was confirmed: neither a check-back
\* under way (process_msg) nor a stale worker or a submit brings it back.
OnlyIfCommitted ==
  /\ (\E b \in Branch : got[b] > 0) => key = "cur"
  /\ SubmitCompares => AbortedIsSilent

\* succeed means that everybody who was subscribed when the message was
\* prepared has it once, failed that nobody has it where submit compares.
DeliveredIsWhole ==
  /\ status = "succeed" => \A b \in branches : got[b] = 1
  /\ SubmitCompares /\ status = "failed" => \A b \in Branch : got[b] = 0

\* A step is delivered only when everybody in the steps before it has been
\* reached, with concurrent calls inside a step and several drivers at work.
StepOrder ==
  \A b, c \in branches : b[1] < c[1] /\ got[c] > 0 => got[b] > 0

\* A caller whose submit was confirmed is let down only by somebody whose abort
\* was confirmed as well, never by a check-back or a driver's stale copy
\* (Api::submit answers Ok for every status but prepared).
SubmitHolds ==
  "submitted" \in told => status \in {"submitted", "succeed"} \/ "aborted" \in told

\* A confirmed submit means that the message is on its way.
ConfirmedIsSubmitted == "submitted" \in told => status \in {"submitted", "succeed"}

\* If the local transaction has committed the message gets through, whatever
\* becomes of the caller, unless an abort was confirmed.
Delivered == key = "cur" ~> status = "succeed" \/ "aborted" \in told

=============================================================================
