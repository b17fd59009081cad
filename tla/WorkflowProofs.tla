--------------------------- MODULE WorkflowProofs ---------------------------
(***************************************************************************)
(* Proofs about Workflow for every function, every number of its versions, *)
(* branches, results and workers.                                          *)
(*                                                                         *)
(* What is said of all deployments holds also when a lease runs out under  *)
(* its holder.  The rest is about settled deployments: only one run at a   *)
(* time and, where registrations are written op by op (Redis), only one    *)
(* version of the function.                                                *)
(***************************************************************************)
EXTENDS Workflow, CoreProofs, SequenceTheorems

Settled ==
  /\ ~deployment.overlap
  /\ deployment.store = "redis" => \A u, v \in deployment.versions : u = v

-----------------------------------------------------------------------------
(***************************************************************************)
(* The inductive invariant.  First what holds in all deployments.          *)
(***************************************************************************)
Opening == {"register", "register_action", "execute", "record", "refused"}
Running == {"run"} \cup Opening

Results == {h \in Seq(Values) : Len(h) <= N}

\* The state of one worker.
WorkerState ==
  [pc : {"idle", "loop", "call", "called", "transition"} \cup Running,
   st : {"submitted", "aborting"},
   to : {"none", "aborting", "succeed", "failed"},
   at : 0 .. N, seen : Results, recorded : [Position -> Row],
   val : Values \cup {"none"}]

\* A branch that was registered has a name, one that succeeded a result.
Told(r) == r.st = "succeed" => r.val \in Values
RowsOK ==
  \A i \in Position : /\ act[i] = NoRow \/ act[i].name \in Names
                      /\ comp[i] = NoRow \/ comp[i].name \in Names
                      /\ Told(act[i])

\* The services' barriers: an action takes effect once, a compensation only
\* after it, and one that comes first keeps it out.
BarrierOK ==
  \A b \in Names :
    /\ rows[b] = {} => did[b]["action"] = 0 /\ did[b]["compensate"] = 0
    /\ rows[b] = {"action"} => did[b]["action"] = 1 /\ did[b]["compensate"] = 0
    /\ "compensate" \in rows[b] => /\ "action" \in rows[b]
                                   /\ did[b]["action"] = did[b]["compensate"]
    /\ "action" \in rows[b] => b \in sent \/ "compensate" \in rows[b]

Tables ==
  /\ deployment \in Deployments
  /\ status \in {"absent", "submitted", "aborting", "succeed", "failed"}
  /\ act \in [Position -> Row] /\ comp \in [Position -> Row]
  /\ sent \subseteq Names
  /\ rows \in [Names -> SUBSET SagaOp]
  /\ did \in [Names -> [SagaOp -> Nat]]
  /\ RowsOK /\ BarrierOK

\* Where a worker may be.
Follows(w) ==
  /\ wk[w].pc = "idle" => wk[w] = Idle
  /\ wk[w].pc \in Running =>
       /\ wk[w].st = "submitted" /\ wk[w].seen \in DOMAIN Script[ver[w]]
       /\ \A i \in Position : Told(wk[w].recorded[i])
  /\ wk[w].pc \in Opening => Opened(w) # End
  /\ wk[w].pc = "record" => wk[w].val \in Values
  /\ wk[w].pc \in {"call", "called"} =>
       wk[w].st = "aborting" /\ wk[w].at \in Position /\ comp[wk[w].at] # NoRow
  /\ wk[w].pc = "transition" => \/ wk[w].to = "failed" /\ wk[w].st = "aborting"
                                \/ wk[w].to \in {"aborting", "succeed"} /\ wk[w].st = "submitted"

Basic ==
  /\ Tables
  /\ ver \in [Workers -> deployment.versions]
  /\ wk \in [Workers -> WorkerState]
  /\ \A w \in Workers : Follows(w)

-----------------------------------------------------------------------------
(***************************************************************************)
(* Then what holds in settled deployments.                                 *)
(***************************************************************************)

\* Only one run at a time.
Solo == \A w, x \in Workers : wk[w] # Idle /\ wk[x] # Idle => w = x

\* A result is that of the branch of its name.
OwnOK == \A i \in Position : act[i].st = "succeed" => "action" \in rows[act[i].name]

\* SQL writes the rows of a branch together.
PairOK ==
  deployment.store = "sql" =>
    \A i \in Position : comp[i] # NoRow => act[i] # NoRow /\ act[i].name = comp[i].name

\* On Redis a compensation may be alone, but it is that of the branch to which
\* the recorded results lead.
PathOK ==
  deployment.store = "redis" =>
    \A i \in Position : comp[i] # NoRow =>
      /\ \A j \in Position : j < i => act[j].st = "succeed"
      /\ \A v \in deployment.versions : \A h \in DOMAIN Script[v] :
           Len(h) = i - 1 /\ (\A j \in Position : j < i => h[j] = act[j].val) =>
             Script[v][h] # End /\ Script[v][h].name = comp[i].name

\* A compensation marked as done is; one is only sent after the turn.
UndoneOK ==
  /\ \A i \in Position : comp[i].st = "succeed" => "compensate" \in rows[comp[i].name]
  /\ \A b \in Names : "compensate" \in rows[b] => status \in {"aborting", "failed"}

\* Whatever was called and can be undone has its compensation on record.
CoveredOK ==
  \A b \in Undoable \cap sent : \E i \in Position : comp[i] # NoRow /\ comp[i].name = b

AllUndone == \A b \in Undoable \cap sent : "compensate" \in rows[b]

\* Every branch on some path to the end was carried out.
PathDone(v, h) ==
  \A i \in 1 .. Len(h) : LET b == Script[v][SubSeq(h, 1, i - 1)].name
                         IN b \in Names /\ "action" \in rows[b]
Whole == \E v \in Versions : \E h \in DOMAIN Script[v] : Script[v][h] = End /\ PathDone(v, h)

FinalOK == (status = "succeed" => Whole) /\ (status = "failed" => AllUndone)

Shared == OwnOK /\ PairOK /\ PathOK /\ UndoneOK /\ CoveredOK /\ FinalOK

\* A running function has seen what is recorded, of branches of these names.
RunOK(w) ==
  wk[w].pc \in Running =>
    /\ \A j \in 1 .. Len(wk[w].seen) :
         /\ act[j].st = "succeed" /\ act[j].val = wk[w].seen[j]
         /\ act[j].name = Script[ver[w]][SubSeq(wk[w].seen, 1, j - 1)].name
    /\ \A k \in Position : k > Here(w) \/ (k = Here(w) /\ wk[w].pc = "run") =>
         wk[w].recorded[k] = act[k]

\* The branch it is about to open has the position to itself.
OpenOK(w) ==
  LET i == Here(w) IN
  /\ wk[w].pc \in Opening =>
       /\ act[i].st # "succeed" /\ (act[i] # NoRow => act[i].name = Opened(w).name)
       /\ Opened(w).undo /\ comp[i] # NoRow => comp[i].name = Opened(w).name
  /\ wk[w].pc \in Opening \ {"register"} => (Opened(w).undo => comp[i] # NoRow)
  /\ wk[w].pc \in Opening \ {"register", "register_action"} => act[i] # NoRow
  /\ wk[w].pc = "record" => "action" \in rows[Opened(w).name]

\* What a worker relies on.
Careful(w) ==
  /\ wk[w].pc # "idle" => status \in {"submitted", "aborting"}
  /\ wk[w].st = "aborting" => status = "aborting"
  /\ wk[w].pc = "called" => "compensate" \in rows[comp[wk[w].at].name]
  /\ RunOK(w) /\ OpenOK(w)
  /\ wk[w].pc = "transition" /\ wk[w].to = "failed" => AllUndone
  /\ wk[w].pc = "transition" /\ wk[w].to = "succeed" => Whole

IInv == Basic /\ (Settled => Solo /\ Shared /\ \A w \in Workers : Careful(w))

-----------------------------------------------------------------------------
(***************************************************************************)
(* The operators of the model.                                             *)
(***************************************************************************)

\* A longer history has the same beginnings.
LEMMA Beginnings ==
  ASSUME NEW s \in Seq(Values), NEW x \in Values
  PROVE  /\ Append(s, x) \in Seq(Values) /\ Len(Append(s, x)) = Len(s) + 1
         /\ Append(s, x)[Len(s) + 1] = x
         /\ \A j \in 1 .. Len(s) : Append(s, x)[j] = s[j]
         /\ \A j \in 1 .. Len(s) + 1 : SubSeq(Append(s, x), 1, j - 1) = SubSeq(s, 1, j - 1)
         /\ SubSeq(s, 1, Len(s)) = s
<1> DEFINE t == Append(s, x)
<1>1. /\ Len(s) \in Nat /\ t \in Seq(Values) /\ Len(t) = Len(s) + 1
      /\ t[Len(s) + 1] = x /\ \A j \in 1 .. Len(s) : t[j] = s[j]
  OBVIOUS
<1>2. \A j \in 1 .. Len(s) : s[j] \in Values
  OBVIOUS
<1> HIDE DEF t
<1>3. ASSUME NEW j \in 1 .. Len(s) + 1 PROVE SubSeq(t, 1, j - 1) = SubSeq(s, 1, j - 1)
  <2>1. /\ j - 1 \in Int /\ j - 1 <= Len(s) /\ 1 \in Int
        /\ \A i \in 1 .. j - 1 : s[i] \in Values /\ t[i] \in Values /\ t[i] = s[i]
    BY <1>1, <1>2
  <2>2. /\ SubSeq(s, 1, j - 1) \in Seq(Values)
        /\ Len(SubSeq(s, 1, j - 1)) = IF 1 <= j - 1 THEN (j - 1) - 1 + 1 ELSE 0
        /\ \A i \in 1 .. (j - 1) - 1 + 1 : SubSeq(s, 1, j - 1)[i] = s[1 + i - 1]
    BY <2>1, SubSeqProperties
  <2>3. /\ SubSeq(t, 1, j - 1) \in Seq(Values)
        /\ Len(SubSeq(t, 1, j - 1)) = IF 1 <= j - 1 THEN (j - 1) - 1 + 1 ELSE 0
        /\ \A i \in 1 .. (j - 1) - 1 + 1 : SubSeq(t, 1, j - 1)[i] = t[1 + i - 1]
    BY <2>1, SubSeqProperties
  <2> DEFINE a == SubSeq(s, 1, j - 1)
             b == SubSeq(t, 1, j - 1)
  <2>4. a \in Seq(Values) /\ b \in Seq(Values) /\ Len(a) = j - 1 /\ Len(b) = j - 1
    BY <2>2, <2>3
  <2>5. \A i \in 1 .. j - 1 : a[i] = s[i] /\ b[i] = t[i]
    BY <2>2, <2>3
  <2> HIDE DEF a, b
  <2>6. \A i \in 1 .. Len(b) : b[i] = a[i]
    BY <2>1, <2>4, <2>5
  <2>7. b = a
    BY <2>4, <2>6, SeqEqual
  <2> QED BY <2>7 DEF a, b
<1>4. SubSeq(s, 1, Len(s)) = s
  BY SubSeqFull
<1> QED BY <1>1, <1>3, <1>4 DEF t

\* The code knows what to do next after every history a worker can have, and
\* opens at most N branches.
LEMMA ScriptGoesOn ==
  ASSUME Basic, NEW w \in Workers, wk[w].pc \in Running
  PROVE  /\ ver[w] \in Versions /\ wk[w].seen \in DOMAIN Script[ver[w]]
         /\ wk[w].seen \in Seq(Values) /\ Len(wk[w].seen) \in Nat
         /\ Opened(w) # End =>
              /\ Opened(w).name \in Names /\ Opened(w).undo \in BOOLEAN
              /\ Here(w) \in Position /\ Here(w) = Len(wk[w].seen) + 1
              /\ \A x \in Values : Append(wk[w].seen, x) \in DOMAIN Script[ver[w]]
<1>1. ver[w] \in Versions
  BY DeploymentsAssumption DEF Basic, Tables
<1>2. wk[w].seen \in DOMAIN Script[ver[w]]
  BY DEF Basic, Follows
<1>3. /\ wk[w].seen \in Seq(Values)
      /\ Script[ver[w]][wk[w].seen] # End =>
           /\ Script[ver[w]][wk[w].seen] \in [name : Names, undo : BOOLEAN]
           /\ Len(wk[w].seen) < N
           /\ \A x \in Values : Append(wk[w].seen, x) \in DOMAIN Script[ver[w]]
  BY <1>1, <1>2, ScriptAssumption
<1>4. Len(wk[w].seen) \in Nat
  BY <1>3
<1> QED BY <1>1, <1>2, <1>3, <1>4, WorkflowAssumption DEF Opened, Here, Position

\* What a call leaves behind: rows are never lost, and the call's own is there.
LEMMA RunsOnce ==
  ASSUME Tables, NEW b \in Names, NEW o \in SagaOp, Runs(b, o),
         o = "action" => b \in sent', sent \subseteq sent'
  PROVE  /\ rows' \in [Names -> SUBSET SagaOp] /\ did' \in [Names -> [SagaOp -> Nat]]
         /\ o \in rows'[b]
         /\ \A x \in Names : rows[x] \subseteq rows'[x]
         /\ \A x \in Names : "compensate" \in rows'[x] =>
              "compensate" \in rows[x] \/ (x = b /\ o = "compensate")
         /\ BarrierOK'
<1>1. /\ rows \in [Names -> SUBSET SagaOp] /\ did \in [Names -> [SagaOp -> Nat]]
      /\ rows[b] \subseteq SagaOp /\ did[b] \in [SagaOp -> Nat]
  BY DEF Tables
<1> DEFINE new == IF o = "action" THEN {"action"} ELSE {"action", "compensate"}
<1>2. DecideRows(rows[b], o) = rows[b] \cup new
  BY DEF DecideRows, OriginOp, SagaOp
<1>3. /\ o = "action" => (Decide(rows[b], o) = "Execute" <=> "action" \notin rows[b])
      /\ o = "compensate" => (Decide(rows[b], o) = "Execute" <=>
                                 "action" \in rows[b] /\ "compensate" \notin rows[b])
  BY DEF Decide, IsCompensating, OriginOp
<1>4. rows' = [rows EXCEPT ![b] = rows[b] \cup new]
  BY <1>2 DEF Runs
<1>5. rows' \in [Names -> SUBSET SagaOp] /\ rows'[b] = rows[b] \cup new
      /\ \A x \in Names \ {b} : rows'[x] = rows[x]
  BY <1>1, <1>4 DEF SagaOp
<1> DEFINE n == IF Decide(rows[b], o) = "Execute" THEN did[b][o] + 1 ELSE did[b][o]
<1>6. did' = [did EXCEPT ![b] = [did[b] EXCEPT ![o] = n]] /\ n \in Nat
  BY <1>1 DEF Runs
<1>7. /\ did' \in [Names -> [SagaOp -> Nat]] /\ did'[b][o] = n
      /\ \A p \in SagaOp \ {o} : did'[b][p] = did[b][p]
      /\ \A x \in Names \ {b} : did'[x] = did[x]
  <2> HIDE DEF n
  <2> QED BY <1>1, <1>6
<1>8. BarrierOK'
  <2> SUFFICES ASSUME NEW x \in Names
      PROVE  /\ rows'[x] = {} => did'[x]["action"] = 0 /\ did'[x]["compensate"] = 0
             /\ rows'[x] = {"action"} => did'[x]["action"] = 1 /\ did'[x]["compensate"] = 0
             /\ "compensate" \in rows'[x] => /\ "action" \in rows'[x]
                                             /\ did'[x]["action"] = did'[x]["compensate"]
             /\ "action" \in rows'[x] => x \in sent' \/ "compensate" \in rows'[x]
    BY DEF BarrierOK
  <2>1. CASE x # b
    BY <1>5, <1>7, <2>1 DEF Tables, BarrierOK
  <2>2. CASE x = b /\ o = "action"
    <3>1. did'[b]["action"] = IF "action" \in rows[b] THEN did[b]["action"]
                              ELSE did[b]["action"] + 1
      BY <1>3, <1>7, <2>2
    <3>2. did'[b]["compensate"] = did[b]["compensate"] /\ rows'[b] = rows[b] \cup {"action"}
      BY <1>5, <1>7, <2>2 DEF SagaOp
    <3>3. CASE "action" \in rows[b]
      <4>1. rows'[b] = rows[b] /\ did'[b]["action"] = did[b]["action"]
        BY <3>1, <3>2, <3>3
      <4> QED BY <2>2, <3>2, <4>1 DEF Tables, BarrierOK
    <3>4. CASE "action" \notin rows[b]
      <4>1. rows[b] = {}
        BY <1>1, <3>4 DEF Tables, BarrierOK, SagaOp
      <4>2. did[b]["action"] = 0 /\ did[b]["compensate"] = 0
        BY <4>1 DEF Tables, BarrierOK
      <4> QED BY <2>2, <3>1, <3>2, <3>4, <4>1, <4>2
    <3> QED BY <3>3, <3>4
  <2>3. CASE x = b /\ o = "compensate"
    <3>1. did'[b]["compensate"] = IF "action" \in rows[b] /\ "compensate" \notin rows[b]
                                  THEN did[b]["compensate"] + 1 ELSE did[b]["compensate"]
      BY <1>3, <1>7, <2>3
    <3>2. /\ did'[b]["action"] = did[b]["action"]
          /\ "action" \in rows'[b] /\ "compensate" \in rows'[b]
      BY <1>5, <1>7, <2>3 DEF SagaOp
    <3>3. \/ rows[b] = {} \/ rows[b] = {"action"} \/ "compensate" \in rows[b]
      BY <1>1 DEF SagaOp
    <3>4. did'[b]["action"] = did'[b]["compensate"]
      BY <3>1, <3>2, <3>3 DEF Tables, BarrierOK
    <3> QED BY <2>3, <3>2, <3>4
  <2> QED BY <2>1, <2>2, <2>3 DEF SagaOp
<1>9. o \in rows'[b] /\ \A x \in Names : "compensate" \in rows'[x] =>
              "compensate" \in rows[x] \/ (x = b /\ o = "compensate")
  BY <1>5 DEF SagaOp
<1> QED BY <1>5, <1>7, <1>8, <1>9

-----------------------------------------------------------------------------
(***************************************************************************)
(* Steps of one worker.                                                    *)
(***************************************************************************)

\* What a step of one worker has to keep: the others are not touched and, in a
\* settled deployment, idle.
LEMMA StepInv ==
  ASSUME IInv, NEW w \in Workers, deployment' = deployment,
         wk' \in [Workers -> WorkerState], ver' \in [Workers -> deployment.versions],
         \A x \in Workers \ {w} : wk'[x] = wk[x] /\ ver'[x] = ver[x],
         wk[w] # Idle \/ (Settled => \A x \in Workers : wk[x] = Idle),
         Tables', Follows(w)',
         \A i \in Position : comp[i] # NoRow => comp'[i] # NoRow,
         Settled => Shared' /\ Careful(w)'
  PROVE  IInv'
<1>1. ASSUME NEW x \in Workers \ {w} PROVE Follows(x)'
  <2>1. Follows(x) /\ wk'[x] = wk[x] /\ ver'[x] = ver[x]
    BY DEF IInv, Basic
  <2>2. Opened(x)' = Opened(x)
    BY <2>1 DEF Opened
  <2> QED BY <2>1, <2>2 DEF Follows
<1>2. Basic'
  BY <1>1 DEF Basic
<1>3. ASSUME Settled' PROVE Solo' /\ Shared' /\ \A x \in Workers : Careful(x)'
  <2>1. Settled /\ Shared' /\ Careful(w)'
    BY <1>3 DEF Settled
  <2>2. \A x \in Workers \ {w} : wk[x] = Idle
    BY <2>1 DEF IInv, Solo
  <2>3. \A x \in Workers \ {w} : wk'[x] = Idle
    BY <2>2
  <2>4. ASSUME NEW x \in Workers \ {w} PROVE Careful(x)'
    <3>1. wk'[x].pc = "idle" /\ wk'[x].st = "submitted"
      BY <2>3 DEF Idle
    <3> QED BY <3>1 DEF Careful, RunOK, OpenOK, Running, Opening
  <2>5. Solo'
    BY <2>3 DEF Solo
  <2> QED BY <2>1, <2>4, <2>5
<1> QED BY <1>2, <1>3 DEF IInv

\* A step that writes nothing but the worker's locals.
LEMMA QuietInv ==
  ASSUME IInv, NEW w \in Workers, NEW s \in WorkerState, wk' = [wk EXCEPT ![w] = s],
         UNCHANGED <<deployment, status, table, services>>,
         ver' \in [Workers -> deployment.versions],
         \A x \in Workers \ {w} : ver'[x] = ver[x],
         wk[w] # Idle \/ (Settled => \A x \in Workers : wk[x] = Idle),
         Follows(w)', Settled => Careful(w)'
  PROVE  IInv'
<1>1. UNCHANGED <<deployment, status, act, comp, sent, rows, did>>
  BY DEF table, services
<1>2. wk' \in [Workers -> WorkerState] /\ \A x \in Workers \ {w} : wk'[x] = wk[x]
  BY DEF IInv, Basic
<1>3. Tables'
  <2>1. Tables
    BY DEF IInv, Basic
  <2> QED BY <1>1, <2>1 DEF Tables, RowsOK, BarrierOK
<1>4. ASSUME Settled PROVE Shared'
  <2>1. OwnOK /\ PairOK /\ PathOK /\ UndoneOK /\ CoveredOK /\ FinalOK
    BY <1>4 DEF IInv, Shared
  <2>2. OwnOK' /\ PairOK' /\ PathOK' /\ UndoneOK' /\ CoveredOK'
    BY <1>1, <2>1 DEF OwnOK, PairOK, PathOK, UndoneOK, CoveredOK
  <2>3. FinalOK'
    BY <1>1, <2>1 DEF FinalOK, Whole, PathDone, AllUndone
  <2> QED BY <2>2, <2>3 DEF Shared
<1> QED BY <1>1, <1>2, <1>3, <1>4, StepInv

\* The end of a round, whatever it was doing.
LEMMA EndRoundInv ==
  ASSUME IInv, NEW w \in Workers, EndRound(w), wk[w] # Idle,
         UNCHANGED <<deployment, status, table, services>>,
         ver' \in [Workers -> deployment.versions],
         \A x \in Workers \ {w} : ver'[x] = ver[x]
  PROVE  IInv'
<1>1. Idle \in WorkerState /\ Idle.pc = "idle" /\ Idle.st = "submitted"
  BY WorkflowAssumption DEF Idle, WorkerState, Results, Row, NoRow, Position
<1>2. wk' = [wk EXCEPT ![w] = Idle] /\ wk'[w] = Idle
  BY DEF EndRound, IInv, Basic
<1>3. Follows(w)' /\ Careful(w)'
  BY <1>1, <1>2 DEF Follows, Careful, RunOK, OpenOK, Running, Opening
<1> QED BY <1>1, <1>2, <1>3, QuietInv

\* Rows of the barriers are only ever added: what rests on them stays.
LEMMA RowsGrow ==
  ASSUME Tables, deployment' = deployment, act' = act, comp' = comp,
         \A b \in Names : rows[b] \subseteq rows'[b]
  PROVE  /\ OwnOK => OwnOK'
         /\ PairOK => PairOK'
         /\ PathOK => PathOK'
         /\ \A i \in Position : comp[i].st = "succeed" /\ "compensate" \in rows[comp[i].name] =>
              "compensate" \in rows'[comp[i].name]
         /\ Whole => Whole'
         /\ sent' = sent /\ AllUndone => AllUndone'
<1>1. \A i \in Position : /\ act[i].st = "succeed" => act[i].name \in Names
                          /\ comp[i].st = "succeed" => comp[i].name \in Names
  BY DEF Tables, RowsOK, NoRow
<1>2. ASSUME Whole PROVE Whole'
  <2>1. PICK v \in Versions : \E h \in DOMAIN Script[v] : Script[v][h] = End /\ PathDone(v, h)
    BY <1>2 DEF Whole
  <2>2. PICK h \in DOMAIN Script[v] : Script[v][h] = End /\ PathDone(v, h)
    BY <2>1
  <2>3. PathDone(v, h)'
    BY <2>2 DEF PathDone
  <2> QED BY <2>2, <2>3 DEF Whole
<1>3. sent' = sent /\ AllUndone => AllUndone'
  BY DEF AllUndone, Undoable
<1>4. (OwnOK => OwnOK') /\ (PairOK => PairOK') /\ (PathOK => PathOK')
  BY <1>1 DEF OwnOK, PairOK, PathOK
<1> QED BY <1>1, <1>2, <1>3, <1>4

LEMMA InitInv ==
  ASSUME Init PROVE IInv
<1>1. \A i \in Position : act[i] = NoRow /\ comp[i] = NoRow
  BY DEF Init
<1>2. \A b \in Names : rows[b] = {} /\ did[b]["action"] = 0 /\ did[b]["compensate"] = 0
  BY DEF Init, SagaOp
<1>3. Idle \in WorkerState /\ Idle.pc = "idle" /\ Idle.st = "submitted"
  BY WorkflowAssumption DEF Idle, WorkerState, Results, Row, NoRow, Position
<1>4. \A w \in Workers : wk[w] = Idle
  BY DEF Init
<1>5. Tables
  <2>1. RowsOK /\ BarrierOK
    BY <1>1, <1>2 DEF RowsOK, BarrierOK, Told, NoRow
  <2> QED BY <2>1 DEF Init, Tables, Row, NoRow, SagaOp
<1>6. \A w \in Workers : Follows(w) /\ Careful(w)
  BY <1>3, <1>4 DEF Follows, Careful, RunOK, OpenOK, Running, Opening
<1>7. Basic
  BY <1>3, <1>5, <1>6 DEF Init, Basic
<1>8. Solo
  BY <1>4 DEF Solo
<1>9. Shared
  BY <1>1, <1>2
  DEF Init, Shared, OwnOK, PairOK, PathOK, UndoneOK, CoveredOK, FinalOK, NoRow
<1> QED BY <1>6, <1>7, <1>8, <1>9 DEF IInv

LEMMA CallerInv ==
  ASSUME IInv, Submit \/ Abort PROVE IInv'
<1>1. /\ UNCHANGED <<deployment, act, comp, ver, wk, sent, rows, did>>
      /\ status \in {"absent", "submitted"} /\ status' \in {"submitted", "aborting"}
      /\ status = "absent" => status' = "submitted"
      /\ status = "submitted" => status' = "aborting"
  BY DEF Submit, Abort, table, services
<1>2. Basic'
  <2>1. Tables'
    BY <1>1 DEF IInv, Basic, Tables, RowsOK, BarrierOK
  <2>2. \A w \in Workers : Follows(w)'
    BY <1>1 DEF IInv, Basic, Follows, Opened
  <2> QED BY <1>1, <2>1, <2>2 DEF IInv, Basic
<1>3. ASSUME Settled' PROVE Solo' /\ Shared' /\ \A w \in Workers : Careful(w)'
  <2>1. Solo /\ Shared /\ \A w \in Workers : Careful(w)
    BY <1>1, <1>3 DEF IInv, Settled
  <2>2. Shared'
    BY <1>1, <2>1 DEF Shared, OwnOK, PairOK, PathOK, UndoneOK, CoveredOK, FinalOK
  <2>3. ASSUME NEW w \in Workers PROVE Careful(w)'
    <3>1. Careful(w)
      BY <2>1
    <3>2. (AllUndone' <=> AllUndone) /\ (Whole' <=> Whole)
      BY <1>1 DEF AllUndone, Whole, PathDone
    <3>3. RunOK(w)' /\ OpenOK(w)'
      BY <1>1, <3>1 DEF Careful, RunOK, OpenOK, Here, Opened
    <3> QED BY <1>1, <3>1, <3>2, <3>3 DEF Careful
  <2> QED BY <1>1, <2>1, <2>2, <2>3 DEF Solo
<1> QED BY <1>2, <1>3 DEF IInv

LEMMA StrayInv ==
  ASSUME IInv, ExecuteStray PROVE IInv'
<1>1. UNCHANGED <<deployment, status, act, comp, ver, wk, sent>>
  BY DEF ExecuteStray, table
<1>2. PICK b \in sent : Runs(b, "action")
  BY DEF ExecuteStray
<1>3. Tables /\ b \in Names /\ "action" \in SagaOp
  BY DEF IInv, Basic, Tables, SagaOp
<1>4. /\ rows' \in [Names -> SUBSET SagaOp] /\ did' \in [Names -> [SagaOp -> Nat]]
      /\ \A x \in Names : rows[x] \subseteq rows'[x]
      /\ \A x \in Names : "compensate" \in rows'[x] => "compensate" \in rows[x]
      /\ BarrierOK'
  BY <1>1, <1>2, <1>3, RunsOnce
<1>5. Basic'
  <2>1. Tables'
    BY <1>1, <1>3, <1>4 DEF Tables, RowsOK
  <2>2. \A w \in Workers : Follows(w)'
    BY <1>1 DEF IInv, Basic, Follows, Opened
  <2> QED BY <1>1, <2>1, <2>2 DEF IInv, Basic
<1>6. ASSUME Settled' PROVE Solo' /\ Shared' /\ \A w \in Workers : Careful(w)'
  <2>1. Solo /\ Shared /\ \A w \in Workers : Careful(w)
    BY <1>1, <1>6 DEF IInv, Settled
  <2>2. /\ OwnOK' /\ PairOK' /\ PathOK' /\ (Whole => Whole') /\ (AllUndone => AllUndone')
        /\ \A i \in Position : comp[i].st = "succeed" => "compensate" \in rows'[comp[i].name]
    BY <1>1, <1>3, <1>4, <2>1, RowsGrow DEF Shared, UndoneOK
  <2>3. UndoneOK' /\ CoveredOK' /\ FinalOK'
    BY <1>1, <1>4, <2>1, <2>2 DEF Shared, UndoneOK, CoveredOK, FinalOK
  <2>4. ASSUME NEW w \in Workers PROVE Careful(w)'
    <3>1. Careful(w) /\ Follows(w)
      BY <2>1 DEF IInv, Basic
    <3>2. RunOK(w)'
      BY <1>1, <3>1 DEF Careful, RunOK, Here
    <3>3. OpenOK(w)'
      <4>1. wk[w].pc = "record" => Opened(w).name \in Names
        BY ScriptGoesOn, <3>1 DEF IInv, Follows, Running, Opening
      <4> QED BY <1>1, <1>4, <3>1, <4>1 DEF Careful, OpenOK, Here, Opened
    <3>4. wk[w].pc = "called" => "compensate" \in rows'[comp[wk[w].at].name]
      BY <1>3, <1>4, <3>1 DEF Careful, Follows, Tables, RowsOK
    <3> QED BY <1>1, <2>2, <3>1, <3>2, <3>3, <3>4 DEF Careful
  <2> QED BY <1>1, <2>1, <2>2, <2>3, <2>4 DEF Solo, Shared
<1> QED BY <1>5, <1>6 DEF IInv

LEMMA LockInv ==
  ASSUME IInv, NEW w \in Workers, Lock(w) PROVE IInv'
<1> DEFINE s == [wk[w] EXCEPT !.pc = "loop", !.st = status]
<1>1. status \in {"submitted", "aborting"}
  BY DEF Lock, Schedulable
<1>2. wk \in [Workers -> WorkerState] /\ wk' = [wk EXCEPT ![w] = s]
  BY DEF Lock, IInv, Basic
<1>3. s \in WorkerState /\ s.pc = "loop" /\ s.st = status
  BY <1>1, <1>2 DEF WorkerState
<1> HIDE DEF s
<1>4. wk'[w] = s /\ UNCHANGED <<deployment, status, table, services>> /\ ver' = ver
  BY <1>2 DEF Lock
<1>5. Follows(w)' /\ Careful(w)'
  BY <1>1, <1>3, <1>4 DEF Follows, Careful, RunOK, OpenOK, Running, Opening
<1>6. Settled => \A x \in Workers : wk[x] = Idle
  BY DEF Lock, Settled
<1>7. ver' \in [Workers -> deployment.versions] /\ \A x \in Workers \ {w} : ver'[x] = ver[x]
  BY <1>4 DEF IInv, Basic
<1> QED BY <1>2, <1>3, <1>4, <1>5, <1>6, <1>7, QuietInv

\* The turn of a round at which the function is called, or a compensation, or
\* the workflow is over: then all there is to undo has been undone.
LEMMA LoopInv ==
  ASSUME IInv, NEW w \in Workers, Loop(w) PROVE IInv'
<1> DEFINE d == WorkflowAdvance(wk[w].st, CompensateStates)
<1>1. /\ wk[w].pc = "loop" /\ wk[w] # Idle
      /\ UNCHANGED <<deployment, status, table, services>> /\ ver' = ver
  BY DEF Loop, Idle
<1>2. UNCHANGED <<deployment, status, act, comp, sent, rows, did>>
  BY <1>1 DEF table, services
<1>3. /\ wk \in [Workers -> WorkerState] /\ wk[w] \in WorkerState /\ Tables
      /\ act \in [Position -> Row]
      /\ ver' \in [Workers -> deployment.versions] /\ \A x \in Workers \ {w} : ver'[x] = ver[x]
      /\ ver[w] \in Versions
  BY <1>1, DeploymentsAssumption DEF IInv, Basic, Tables
<1>4. wk[w].st \in {"submitted", "aborting"}
  BY <1>3 DEF WorkerState
<1>5. \/ wk[w].st = "submitted" /\ d = RunWorkflow
      \/ /\ wk[w].st = "aborting" /\ d = Finish("failed")
         /\ \A i \in Position : CompensateStates[i] = "succeed"
      \/ /\ wk[w].st = "aborting"
         /\ \E i \in Position : d = Call("compensate", i) /\ CompensateStates[i] # "succeed"
  <2>1. DOMAIN CompensateStates = 1 .. N /\ N \in Nat
    BY WorkflowAssumption DEF CompensateStates, Position
  <2> HIDE DEF CompensateStates
  <2> QED BY <1>4, <2>1, WorkflowAdvanceCases DEF Position
<1>6. Settled => Shared /\ Careful(w)
  BY DEF IInv
<1> DEFINE go == [wk EXCEPT ![w].pc = "run", ![w].seen = <<>>, ![w].recorded = act]
           finish == [wk EXCEPT ![w].pc = "transition", ![w].to = d.to]
           call == [wk EXCEPT ![w].pc = "call", ![w].at = d.index]
<1>choice. \/ d.kind = "run" /\ wk' = go
           \/ d.kind = "finish" /\ wk' = finish
           \/ d.kind = "call" /\ wk' = call
  BY DEF Loop
<1> HIDE DEF d, go, finish, call
<1>7. CASE wk[w].st = "submitted" /\ d = RunWorkflow
  <2> DEFINE s == [wk[w] EXCEPT !.pc = "run", !.seen = <<>>, !.recorded = act]
  <2>1. wk' = [wk EXCEPT ![w] = s]
    <3>1. d.kind = "run"
      BY <1>7 DEF RunWorkflow
    <3> QED BY <1>3, <1>choice, <3>1 DEF go
  <2>2. /\ s \in WorkerState /\ s.pc = "run" /\ s.seen = <<>> /\ s.recorded = act
        /\ s.st = "submitted"
    <3>1. <<>> \in Results
      BY WorkflowAssumption DEF Results
    <3> QED BY <1>3, <1>7, <3>1 DEF WorkerState, Running
  <2> HIDE DEF s
  <2>3. wk'[w] = s
    BY <1>3, <2>1
  <2>4. Follows(w)'
    BY <1>1, <1>3, <2>2, <2>3, ScriptAssumption DEF Follows, Running, Opening, Tables, RowsOK
  <2>5. ASSUME Settled PROVE Careful(w)'
    <3>1. RunOK(w)' /\ OpenOK(w)'
      BY <1>2, <2>2, <2>3 DEF RunOK, OpenOK, Running, Opening
    <3> QED BY <1>2, <1>1, <1>6, <2>2, <2>3, <2>5, <3>1 DEF Careful
  <2> QED BY <1>1, <1>3, <2>1, <2>2, <2>4, <2>5, QuietInv
<1>8. CASE /\ wk[w].st = "aborting" /\ d = Finish("failed")
           /\ \A i \in Position : CompensateStates[i] = "succeed"
  <2> DEFINE s == [wk[w] EXCEPT !.pc = "transition", !.to = "failed"]
  <2>1. wk' = [wk EXCEPT ![w] = s]
    <3>1. d.kind = "finish" /\ d.to = "failed"
      BY <1>8 DEF Finish
    <3> QED BY <1>3, <1>choice, <3>1 DEF finish
  <2>2. s \in WorkerState /\ s.pc = "transition" /\ s.to = "failed" /\ s.st = "aborting"
    BY <1>3, <1>8 DEF WorkerState
  <2> HIDE DEF s
  <2>3. wk'[w] = s
    BY <1>3, <2>1
  <2>4. Follows(w)'
    BY <2>2, <2>3 DEF Follows, Running, Opening
  <2>5. ASSUME Settled PROVE Careful(w)'
    <3>1. ASSUME NEW b \in Undoable \cap sent PROVE "compensate" \in rows[b]
      <4>1. PICK i \in Position : comp[i] # NoRow /\ comp[i].name = b
        BY <1>6, <2>5 DEF Shared, CoveredOK
      <4>2. comp[i].st = "succeed"
        BY <1>8, <4>1 DEF CompensateStates
      <4> QED BY <1>6, <2>5, <4>1, <4>2 DEF Shared, UndoneOK
    <3>2. AllUndone'
      BY <1>2, <3>1 DEF AllUndone
    <3>3. RunOK(w)' /\ OpenOK(w)'
      BY <2>2, <2>3 DEF RunOK, OpenOK, Running, Opening
    <3> QED BY <1>1, <1>2, <1>6, <1>8, <2>2, <2>3, <2>5, <3>2, <3>3 DEF Careful
  <2> QED BY <1>1, <1>3, <2>1, <2>2, <2>4, <2>5, QuietInv
<1>9. CASE /\ wk[w].st = "aborting"
           /\ \E i \in Position : d = Call("compensate", i) /\ CompensateStates[i] # "succeed"
  <2>1. PICK i \in Position : d = Call("compensate", i) /\ CompensateStates[i] # "succeed"
    BY <1>9
  <2> DEFINE s == [wk[w] EXCEPT !.pc = "call", !.at = i]
  <2>2. wk' = [wk EXCEPT ![w] = s]
    <3>1. d.kind = "call" /\ d.index = i
      BY <2>1 DEF Call
    <3> QED BY <1>3, <1>choice, <3>1 DEF call
  <2>3. i \in 0 .. N /\ comp[i] # NoRow
    BY <2>1, WorkflowAssumption DEF Position, CompensateStates
  <2>4. s \in WorkerState /\ s.pc = "call" /\ s.at = i /\ s.st = "aborting"
    BY <1>3, <1>9, <2>3 DEF WorkerState
  <2> HIDE DEF s
  <2>5. wk'[w] = s
    BY <1>3, <2>2
  <2>6. Follows(w)'
    BY <1>2, <2>3, <2>4, <2>5 DEF Follows, Running, Opening
  <2>7. ASSUME Settled PROVE Careful(w)'
    BY <1>1, <1>2, <1>6, <1>9, <2>4, <2>5, <2>7
    DEF Careful, RunOK, OpenOK, Running, Opening
  <2> QED BY <1>1, <1>3, <2>2, <2>4, <2>6, <2>7, QuietInv
<1> QED BY <1>5, <1>7, <1>8, <1>9

\* Rounds that end without having written anything.
LEMMA GiveUpInv ==
  ASSUME IInv, NEW w \in Workers, Retry(w) \/ CompensateUnknown(w) \/ Crash(w) PROVE IInv'
<1>1. wk[w] # Idle /\ EndRound(w) /\ UNCHANGED <<deployment, status, table, services>>
  BY DEF Retry, CompensateUnknown, Crash, Idle
<1>2. ver' \in [Workers -> deployment.versions] /\ \A x \in Workers \ {w} : ver'[x] = ver[x]
  <2>1. ver \in [Workers -> deployment.versions]
    BY DEF IInv, Basic
  <2> QED BY <2>1 DEF Retry, CompensateUnknown, Crash
<1> QED BY <1>1, <1>2, EndRoundInv

\* What a running worker knows in a settled deployment.
LEMMA Knowledge ==
  ASSUME IInv, NEW w \in Workers, wk[w].pc \in Running, Settled
  PROVE  /\ Shared /\ Careful(w) /\ RunOK(w) /\ OpenOK(w)
         /\ wk[w].st = "submitted" /\ status \in {"submitted", "aborting"}
         /\ \A j \in 1 .. Len(wk[w].seen) :
              /\ j \in Position /\ act[j] # NoRow /\ act[j].name \in Names
              /\ act[j].st = "succeed" /\ act[j].val = wk[w].seen[j]
              /\ act[j].name = Script[ver[w]][SubSeq(wk[w].seen, 1, j - 1)].name
<1>1. Shared /\ Careful(w) /\ Follows(w)
  BY DEF IInv, Basic
<1>2. RunOK(w) /\ OpenOK(w) /\ wk[w].st = "submitted"
  BY <1>1 DEF Careful, Follows
<1>3. wk[w].pc # "idle"
  BY DEF Running, Opening
<1>4. Len(wk[w].seen) \in Nat /\ Len(wk[w].seen) <= N
  <2>1. wk[w] \in WorkerState
    BY DEF IInv, Basic
  <2>2. wk[w].seen \in Results
    BY <2>1 DEF WorkerState
  <2> QED BY <2>2 DEF Results
<1>5. ASSUME NEW j \in 1 .. Len(wk[w].seen)
      PROVE  /\ j \in Position /\ act[j] # NoRow /\ act[j].name \in Names
             /\ act[j].st = "succeed" /\ act[j].val = wk[w].seen[j]
             /\ act[j].name = Script[ver[w]][SubSeq(wk[w].seen, 1, j - 1)].name
  <2>1. j \in Position
    BY <1>4, WorkflowAssumption DEF Position
  <2>2. /\ act[j].st = "succeed" /\ act[j].val = wk[w].seen[j]
        /\ act[j].name = Script[ver[w]][SubSeq(wk[w].seen, 1, j - 1)].name
    BY <1>2 DEF RunOK
  <2>3. act[j] # NoRow
    BY <2>2 DEF NoRow
  <2> QED BY <2>1, <2>2, <2>3 DEF IInv, Basic, Tables, RowsOK
<1> QED BY <1>1, <1>2, <1>3, <1>5 DEF Careful

\* The function has returned: the branches on its path were carried out.
LEMMA ReturnsInv ==
  ASSUME IInv, NEW w \in Workers, Returns(w) \/ AsksForRollback(w) PROVE IInv'
<1>1. /\ wk[w].pc = "run" /\ wk[w].pc \in Running /\ wk[w] # Idle
      /\ UNCHANGED <<deployment, status, table, services>> /\ ver' = ver
  BY DEF Returns, AsksForRollback, Running, Idle
<1>2. UNCHANGED <<deployment, status, act, comp, sent, rows, did>>
  BY <1>1 DEF table, services
<1>3. /\ wk \in [Workers -> WorkerState] /\ wk[w] \in WorkerState /\ wk[w].st = "submitted"
      /\ ver' \in [Workers -> deployment.versions] /\ \A x \in Workers \ {w} : ver'[x] = ver[x]
  BY <1>1 DEF IInv, Basic, Follows
<1>4. PICK to \in {"succeed", "aborting"} :
        /\ wk' = [wk EXCEPT ![w].pc = "transition", ![w].to = to]
        /\ to = "succeed" => Opened(w) = End
  BY DEF Returns, AsksForRollback
<1> DEFINE s == [wk[w] EXCEPT !.pc = "transition", !.to = to]
<1>5. wk' = [wk EXCEPT ![w] = s]
  BY <1>3, <1>4
<1>6. s \in WorkerState /\ s.pc = "transition" /\ s.to = to /\ s.st = "submitted"
  BY <1>3 DEF WorkerState
<1> HIDE DEF s
<1>7. wk'[w] = s
  BY <1>3, <1>5
<1>8. Follows(w)'
  BY <1>6, <1>7 DEF Follows, Running, Opening
<1>9. ASSUME Settled PROVE Careful(w)'
  <2>1. ASSUME to = "succeed" PROVE Whole'
    <3>1. ver[w] \in Versions /\ wk[w].seen \in DOMAIN Script[ver[w]]
          /\ Script[ver[w]][wk[w].seen] = End
      BY <1>1, <1>4, <2>1, ScriptGoesOn DEF IInv, Opened
    <3>2. PathDone(ver[w], wk[w].seen)
      BY <1>1, <1>9, Knowledge DEF PathDone, Shared, OwnOK
    <3>3. Whole
      BY <3>1, <3>2 DEF Whole
    <3> QED BY <1>2, <3>3 DEF Whole, PathDone
  <2>2. RunOK(w)' /\ OpenOK(w)'
    BY <1>6, <1>7 DEF RunOK, OpenOK, Running, Opening
  <2>3. status \in {"submitted", "aborting"}
    BY <1>1, <1>9, Knowledge
  <2> QED BY <1>2, <1>6, <1>7, <2>1, <2>2, <2>3 DEF Careful
<1> QED BY <1>1, <1>3, <1>5, <1>6, <1>8, <1>9, QuietInv

\* What a service answers no to.
LEMMA RefuseInv ==
  ASSUME IInv, NEW w \in Workers, Refuse(w) PROVE IInv'
<1>1. /\ wk[w].pc = "execute" /\ wk[w].pc \in Running /\ wk[w] # Idle
      /\ UNCHANGED <<deployment, status, table, services>> /\ ver' = ver
  BY DEF Refuse, Running, Opening, Idle
<1>2. UNCHANGED <<deployment, status, act, comp, sent, rows, did>>
  BY <1>1 DEF table, services
<1>3. /\ wk \in [Workers -> WorkerState] /\ wk[w] \in WorkerState /\ Follows(w)
      /\ ver' \in [Workers -> deployment.versions] /\ \A x \in Workers \ {w} : ver'[x] = ver[x]
  BY <1>1 DEF IInv, Basic
<1> DEFINE s == [wk[w] EXCEPT !.pc = "refused"]
<1>4. wk' = [wk EXCEPT ![w] = s]
  BY <1>3 DEF Refuse, Goto
<1>5. /\ s \in WorkerState /\ s.pc = "refused" /\ s.st = wk[w].st /\ s.seen = wk[w].seen
      /\ s.recorded = wk[w].recorded
  BY <1>3 DEF WorkerState, Running, Opening
<1> HIDE DEF s
<1>6. wk'[w] = s
  BY <1>3, <1>4
<1>7. Opened(w)' = Opened(w) /\ Here(w)' = Here(w)
  BY <1>1, <1>5, <1>6 DEF Opened, Here
<1>8. Follows(w)'
  BY <1>1, <1>3, <1>5, <1>6, <1>7 DEF Follows, Running, Opening
<1>9. ASSUME Settled PROVE Careful(w)'
  <2>1. RunOK(w) /\ OpenOK(w) /\ wk[w].st = "submitted" /\ status \in {"submitted", "aborting"}
    BY <1>1, <1>9, Knowledge
  <2>2. RunOK(w)'
    BY <1>1, <1>2, <1>5, <1>6, <1>7, <2>1 DEF RunOK, Running, Opening
  <2>3. OpenOK(w)'
    BY <1>1, <1>2, <1>5, <1>6, <1>7, <2>1 DEF OpenOK, Opening
  <2> QED BY <1>2, <1>5, <1>6, <2>1, <2>2, <2>3 DEF Careful
<1> QED BY <1>1, <1>3, <1>4, <1>5, <1>8, <1>9, QuietInv

\* A branch that was begun before is looked up: its result is the one on record,
\* or the branch has the position to itself.
LEMMA ReplayInv ==
  ASSUME IInv, NEW w \in Workers, Replay(w) PROVE IInv'
<1> DEFINE i == Here(w)
           r == wk[w].recorded[i]
<1>1. /\ wk[w].pc = "run" /\ wk[w].pc \in Running /\ wk[w] # Idle /\ Opened(w) # End
      /\ UNCHANGED <<deployment, status, table, services>> /\ ver' = ver
  BY DEF Replay, Running, Idle
<1>2. UNCHANGED <<deployment, status, act, comp, sent, rows, did>>
  BY <1>1 DEF table, services
<1>3. /\ wk \in [Workers -> WorkerState] /\ wk[w] \in WorkerState /\ Follows(w)
      /\ ver' \in [Workers -> deployment.versions] /\ \A x \in Workers \ {w} : ver'[x] = ver[x]
      /\ ver[w] \in deployment.versions
  BY <1>1 DEF IInv, Basic
<1>4. /\ ver[w] \in Versions /\ wk[w].seen \in DOMAIN Script[ver[w]]
      /\ wk[w].seen \in Seq(Values) /\ Len(wk[w].seen) \in Nat
      /\ i \in Position /\ i = Len(wk[w].seen) + 1
      /\ \A x \in Values : Append(wk[w].seen, x) \in DOMAIN Script[ver[w]]
  BY <1>1, ScriptGoesOn DEF IInv
<1>5. Settled => r = act[i]
  BY <1>1, <1>4, Knowledge DEF RunOK
<1> DEFINE other == EndRound(w)
           known == /\ r.name = Opened(w).name /\ r.st = "succeed"
                    /\ wk' = [wk EXCEPT ![w].seen = Append(@, r.val)]
           new == /\ r = NoRow \/ (r.name = Opened(w).name /\ r.st # "succeed")
                  /\ Goto(w, "register")
<1>6. other \/ known \/ new
  BY DEF Replay
<1> HIDE DEF r, i
<1>7. CASE other
  BY <1>1, <1>3, <1>7, EndRoundInv
<1>8. CASE known
  <2> DEFINE t == Append(wk[w].seen, r.val)
             s == [wk[w] EXCEPT !.seen = t]
  <2>1. r.val \in Values
    BY <1>1, <1>3, <1>4, <1>8 DEF Follows, Told, r
  <2>2. /\ t \in Seq(Values) /\ Len(t) = i /\ t[i] = r.val
        /\ \A j \in 1 .. Len(wk[w].seen) : t[j] = wk[w].seen[j]
        /\ \A j \in 1 .. i : SubSeq(t, 1, j - 1) = SubSeq(wk[w].seen, 1, j - 1)
        /\ SubSeq(wk[w].seen, 1, Len(wk[w].seen)) = wk[w].seen
    BY <1>4, <2>1, Beginnings
  <2>3. t \in DOMAIN Script[ver[w]] /\ t \in Results
    BY <1>4, <2>1, <2>2 DEF Results, Position
  <2>4. wk' = [wk EXCEPT ![w] = s]
    BY <1>3, <1>8
  <2> HIDE DEF t
  <2>5. /\ s \in WorkerState /\ s.pc = "run" /\ s.seen = t /\ s.st = wk[w].st
        /\ s.recorded = wk[w].recorded
    BY <1>1, <1>3, <2>3 DEF WorkerState
  <2> HIDE DEF s
  <2>6. wk'[w] = s
    BY <1>3, <2>4
  <2>7. Follows(w)'
    BY <1>1, <1>3, <2>3, <2>5, <2>6 DEF Follows, Running, Opening
  <2>8. ASSUME Settled PROVE Careful(w)'
    <3>1. RunOK(w) /\ wk[w].st = "submitted" /\ status \in {"submitted", "aborting"}
      BY <1>1, <2>8, Knowledge
    <3>2. ASSUME NEW j \in 1 .. i
          PROVE  act[j].st = "succeed" /\ act[j].val = t[j]
                 /\ act[j].name = Script[ver[w]][SubSeq(t, 1, j - 1)].name
      <4>1. CASE j \in 1 .. Len(wk[w].seen)
        <5>1. SubSeq(t, 1, j - 1) = SubSeq(wk[w].seen, 1, j - 1) /\ t[j] = wk[w].seen[j]
          BY <2>2, <4>1
        <5> QED BY <1>1, <3>1, <4>1, <5>1 DEF RunOK
      <4>2. CASE j = i
        <5>1. SubSeq(t, 1, j - 1) = wk[w].seen
          BY <1>4, <2>2, <4>2
        <5> QED BY <1>5, <1>8, <2>2, <2>8, <4>2, <5>1 DEF Opened
      <4> QED BY <1>4, <4>1, <4>2
    <3>3. Here(w)' = i + 1
      BY <2>2, <2>5, <2>6 DEF Here
    <3>4. \A k \in Position : k > i => wk[w].recorded[k] = act[k]
      BY <1>1, <3>1 DEF RunOK, i
    <3>5. RunOK(w)'
      <4>1. \A k \in Position : k >= i + 1 => wk[w].recorded[k] = act[k]
        BY <1>4, <3>4 DEF Position
      <4>2. \A k \in Position :
              k > Here(w)' \/ (k = Here(w)' /\ wk'[w].pc = "run") => wk'[w].recorded[k] = act'[k]
        BY <1>2, <1>4, <2>5, <2>6, <3>3, <4>1 DEF Position
      <4> QED BY <1>1, <1>2, <2>2, <2>5, <2>6, <3>2, <4>2 DEF RunOK
    <3>6. OpenOK(w)'
      BY <2>5, <2>6 DEF OpenOK, Opening
    <3> QED BY <1>2, <2>5, <2>6, <3>1, <3>5, <3>6 DEF Careful
  <2> QED BY <1>1, <1>3, <2>4, <2>5, <2>7, <2>8, QuietInv
<1>9. CASE new
  <2> DEFINE s == [wk[w] EXCEPT !.pc = "register"]
  <2>1. wk' = [wk EXCEPT ![w] = s]
    BY <1>3, <1>9 DEF Goto
  <2>2. /\ s \in WorkerState /\ s.pc = "register" /\ s.st = wk[w].st /\ s.seen = wk[w].seen
        /\ s.recorded = wk[w].recorded
    BY <1>3 DEF WorkerState, Running, Opening
  <2> HIDE DEF s
  <2>3. wk'[w] = s
    BY <1>3, <2>1
  <2>4. Opened(w)' = Opened(w) /\ Here(w)' = i
    BY <1>1, <2>2, <2>3 DEF Opened, Here, i
  <2>5. Follows(w)'
    BY <1>1, <1>3, <2>2, <2>3, <2>4 DEF Follows, Running, Opening
  <2>6. ASSUME Settled PROVE Careful(w)'
    <3>1. /\ Shared /\ RunOK(w) /\ wk[w].st = "submitted"
          /\ status \in {"submitted", "aborting"}
      BY <1>1, <2>6, Knowledge
    <3>2. act[i].st # "succeed" /\ (act[i] # NoRow => act[i].name = Opened(w).name)
      BY <1>5, <1>9, <2>6 DEF NoRow
    <3>3. ASSUME comp[i] # NoRow PROVE comp[i].name = Opened(w).name
      <4>1. CASE deployment.store = "sql"
        BY <1>4, <3>1, <3>2, <3>3, <4>1 DEF Shared, PairOK
      <4>2. CASE deployment.store = "redis"
        <5>1. \A j \in Position : j < i => wk[w].seen[j] = act[j].val
          <6>1. \A j \in Position : j < i => j \in 1 .. Len(wk[w].seen)
            BY <1>4 DEF Position
          <6> QED BY <1>1, <3>1, <6>1 DEF RunOK
        <5>2. Len(wk[w].seen) = i - 1
          BY <1>4
        <5> QED BY <1>3, <1>4, <3>1, <3>3, <4>2, <5>1, <5>2 DEF Shared, PathOK, Opened
      <4> QED BY <4>1, <4>2, DeploymentsAssumption DEF IInv, Basic, Tables
    <3>4. RunOK(w)'
      BY <1>1, <1>2, <2>2, <2>3, <2>4, <3>1 DEF RunOK, Running, Opening, i
    <3>5. OpenOK(w)'
      BY <1>2, <2>2, <2>3, <2>4, <3>2, <3>3 DEF OpenOK, Opening
    <3> QED BY <1>2, <2>2, <2>3, <3>1, <3>4, <3>5 DEF Careful
  <2> QED BY <1>1, <1>3, <2>1, <2>2, <2>5, <2>6, QuietInv
<1> QED BY <1>6, <1>7, <1>8, <1>9

-----------------------------------------------------------------------------
(***************************************************************************)
(* Registrations.                                                          *)
(***************************************************************************)
InsertsAt(w, rs, new) == new = rs \/ new = [rs EXCEPT ![Here(w)] = Insert(w, @)]

\* Rows are inserted where there were none.
LEMMA Inserted ==
  ASSUME IInv, NEW w \in Workers, wk[w].pc \in Opening,
         NEW rs \in [Position -> Row], NEW new, InsertsAt(w, rs, new)
  PROVE  /\ new \in [Position -> Row] /\ Here(w) \in Position
         /\ \A j \in Position : new[j] = rs[j] \/ (j = Here(w) /\ rs[j] = NoRow /\ new[j] = NewRow(w))
         /\ NewRow(w) # NoRow /\ NewRow(w) \in Row /\ NewRow(w).name \in Names
         /\ NewRow(w).name = Opened(w).name /\ NewRow(w).st = "prepared"
<1>1. wk[w].pc \in Running /\ Opened(w) # End
  BY DEF IInv, Basic, Follows, Running
<1>2. Opened(w).name \in Names /\ Here(w) \in Position
  BY <1>1, ScriptGoesOn DEF IInv
<1>3. /\ NewRow(w) \in Row /\ NewRow(w).name = Opened(w).name /\ NewRow(w).st = "prepared"
      /\ NewRow(w) # NoRow
  BY <1>2, WorkflowAssumption DEF NewRow, NoRow, Row, BranchStatus
<1> HIDE DEF NewRow
<1>4. \A j \in Position : new[j] = rs[j] \/ (j = Here(w) /\ rs[j] = NoRow /\ new[j] = NewRow(w))
  BY <1>2 DEF InsertsAt, Insert
<1>5. new \in [Position -> Row]
  BY <1>2, <1>3 DEF InsertsAt, Insert
<1> QED BY <1>2, <1>3, <1>4, <1>5

\* What registering a branch keeps in all deployments.
LEMMA RegisterBasic ==
  ASSUME IInv, NEW w \in Workers, wk[w].pc \in {"register", "register_action"},
         NEW pc \in {"register_action", "execute"}, Goto(w, pc),
         UNCHANGED <<deployment, status, ver, services>>,
         InsertsAt(w, act, act'), InsertsAt(w, comp, comp'),
         Settled => Shared' /\ Careful(w)'
  PROVE  IInv'
<1>1. UNCHANGED <<deployment, status, ver, sent, rows, did>>
  BY DEF services
<1>2. wk[w].pc \in Opening /\ wk[w].pc \in Running /\ wk[w] # Idle
  BY DEF Opening, Running, Idle
<1>3. /\ wk \in [Workers -> WorkerState] /\ wk[w] \in WorkerState /\ Follows(w) /\ Tables
      /\ act \in [Position -> Row] /\ comp \in [Position -> Row]
      /\ ver' \in [Workers -> deployment.versions]
  BY <1>1 DEF IInv, Basic, Tables
<1>4. /\ act' \in [Position -> Row] /\ comp' \in [Position -> Row] /\ Here(w) \in Position
      /\ \A j \in Position : act'[j] = act[j] \/ act'[j] = NewRow(w)
      /\ \A j \in Position : comp'[j] = comp[j] \/ (comp[j] = NoRow /\ comp'[j] = NewRow(w))
      /\ NewRow(w) # NoRow /\ NewRow(w).name \in Names /\ NewRow(w).st = "prepared"
  BY <1>2, <1>3, Inserted
<1> HIDE DEF NewRow
<1>5. Tables'
  <2>1. RowsOK'
    BY <1>3, <1>4 DEF Tables, RowsOK, Told
  <2> QED BY <1>1, <1>3, <1>4, <2>1 DEF Tables, BarrierOK
<1> DEFINE s == [wk[w] EXCEPT !.pc = pc]
<1>6. wk' = [wk EXCEPT ![w] = s]
  BY <1>3 DEF Goto
<1>7. /\ s \in WorkerState /\ s.pc = pc /\ s.st = wk[w].st /\ s.seen = wk[w].seen
      /\ s.recorded = wk[w].recorded
  BY <1>3 DEF WorkerState, Running, Opening
<1> HIDE DEF s
<1>8. /\ wk'[w] = s /\ wk' \in [Workers -> WorkerState]
      /\ \A x \in Workers \ {w} : wk'[x] = wk[x] /\ ver'[x] = ver[x]
  BY <1>1, <1>3, <1>6, <1>7
<1>9. Follows(w)'
  BY <1>1, <1>2, <1>3, <1>7, <1>8 DEF Follows, Running, Opening, Opened
<1>10. \A j \in Position : comp[j] # NoRow => comp'[j] # NoRow
  BY <1>4
<1> QED BY <1>1, <1>2, <1>3, <1>5, <1>8, <1>9, <1>10, StepInv

\* In a settled deployment there is nothing in the way, and the branch is
\* registered where the results lead.
LEMMA RegisterSettled ==
  ASSUME IInv, NEW w \in Workers, wk[w].pc \in {"register", "register_action"},
         NEW pc \in {"register_action", "execute"}, Goto(w, pc),
         UNCHANGED <<deployment, status, ver, services>>,
         InsertsAt(w, act, act'), InsertsAt(w, comp, comp'), Settled,
         comp' # comp => Opened(w).undo,
         Opened(w).undo => comp'[Here(w)] # NoRow,
         pc = "execute" => act'[Here(w)] # NoRow,
         deployment.store = "sql" => pc = "execute"
  PROVE  Shared' /\ Careful(w)'
<1> DEFINE i == Here(w)
<1>1. UNCHANGED <<deployment, status, ver, sent, rows, did>>
  BY DEF services
<1>2. wk[w].pc \in Opening /\ wk[w].pc \in Running
  BY DEF Opening, Running
<1>3. /\ wk \in [Workers -> WorkerState] /\ wk[w] \in WorkerState /\ Tables
      /\ act \in [Position -> Row] /\ comp \in [Position -> Row]
      /\ ver[w] \in deployment.versions
  BY DEF IInv, Basic, Tables
<1>4. /\ i \in Position
      /\ \A j \in Position : act'[j] = act[j] \/ (j = i /\ act[j] = NoRow /\ act'[j] = NewRow(w))
      /\ \A j \in Position : comp'[j] = comp[j] \/ (j = i /\ comp[j] = NoRow /\ comp'[j] = NewRow(w))
      /\ NewRow(w) # NoRow /\ NewRow(w).name = Opened(w).name /\ NewRow(w).st = "prepared"
      /\ NewRow(w).name \in Names
  BY <1>2, <1>3, Inserted
<1>5. /\ wk[w].seen \in DOMAIN Script[ver[w]] /\ wk[w].seen \in Seq(Values)
      /\ Len(wk[w].seen) \in Nat /\ i = Len(wk[w].seen) + 1 /\ Opened(w) # End
      /\ ver[w] \in Versions
  BY <1>2, ScriptGoesOn DEF IInv, Basic, Follows
<1> HIDE DEF NewRow, i
<1>6. /\ Shared /\ RunOK(w) /\ OpenOK(w) /\ wk[w].st = "submitted"
      /\ status \in {"submitted", "aborting"}
  BY <1>2, Knowledge
<1>7. /\ act[i].st # "succeed" /\ (act[i] # NoRow => act[i].name = Opened(w).name)
      /\ Opened(w).undo /\ comp[i] # NoRow => comp[i].name = Opened(w).name
  BY <1>2, <1>6 DEF OpenOK, i
<1>8. \A j \in 1 .. Len(wk[w].seen) : j \in Position /\ j < i /\ act'[j] = act[j]
                                      /\ act[j].st = "succeed" /\ act[j].val = wk[w].seen[j]
  BY <1>2, <1>4, <1>5, Knowledge
<1>9. OwnOK' /\ UndoneOK' /\ CoveredOK' /\ FinalOK'
  <2>1. OwnOK'
    BY <1>1, <1>4, <1>6 DEF Shared, OwnOK
  <2>2. UndoneOK'
    BY <1>1, <1>4, <1>6 DEF Shared, UndoneOK
  <2>3. CoveredOK'
    BY <1>1, <1>4, <1>6 DEF Shared, CoveredOK
  <2>4. FinalOK'
    BY <1>1, <1>6 DEF Shared, FinalOK, AllUndone, Whole, PathDone
  <2> QED BY <2>1, <2>2, <2>3, <2>4
<1>10. PairOK'
  <2> SUFFICES ASSUME deployment.store = "sql", NEW j \in Position, comp'[j] # NoRow
               PROVE  act'[j] # NoRow /\ act'[j].name = comp'[j].name
    BY <1>1 DEF PairOK
  <2>1. comp[j] # NoRow => act[j] # NoRow /\ act[j].name = comp[j].name
    BY <1>6 DEF Shared, PairOK
  <2>2. CASE j # i
    BY <1>4, <2>1, <2>2
  <2>3. CASE j = i /\ comp[j] # NoRow
    BY <1>4, <2>1, <2>3
  <2>4. CASE j = i /\ comp[j] = NoRow
    <3>1. comp'[i].name = Opened(w).name
      BY <1>4, <2>4
    <3>2. act'[i] # NoRow
      BY DEF i
    <3> QED BY <1>4, <1>7, <2>4, <3>1, <3>2
  <2> QED BY <2>2, <2>3, <2>4
<1>11. PathOK'
  <2> DEFINE P(k, a, c) ==
        /\ \A j \in Position : j < k => a[j].st = "succeed"
        /\ \A v \in deployment.versions : \A h \in DOMAIN Script[v] :
             Len(h) = k - 1 /\ (\A j \in Position : j < k => h[j] = a[j].val) =>
               Script[v][h] # End /\ Script[v][h].name = c[k].name
  <2> SUFFICES ASSUME deployment.store = "redis", NEW k \in Position, comp'[k] # NoRow
               PROVE  P(k, act', comp')
    BY <1>1 DEF PathOK
  <2>1. CASE comp[k] # NoRow
    <3>1. P(k, act, comp)
      BY <1>6, <2>1 DEF Shared, PathOK
    <3>2. ~(i < k)
      BY <1>4, <1>7, <3>1
    <3>3. \A j \in Position : j < k => j # i /\ act'[j] = act[j]
      BY <1>4, <3>2 DEF Position
    <3>4. comp'[k] = comp[k]
      BY <1>4, <2>1
    <3> QED BY <3>1, <3>3, <3>4
  <2>2. CASE comp[k] = NoRow
    <3>1. k = i /\ comp'[i].name = Opened(w).name
      BY <1>4, <2>2
    <3>2. \A j \in Position : j < i => j \in 1 .. Len(wk[w].seen)
      BY <1>5 DEF Position
    <3>3. \A j \in Position : j < i => /\ act'[j].st = "succeed"
                                       /\ act'[j].val = wk[w].seen[j]
      BY <1>8, <3>2
    <3>4. ASSUME NEW v \in deployment.versions, NEW h \in DOMAIN Script[v],
                 Len(h) = i - 1, \A j \in Position : j < i => h[j] = act'[j].val
          PROVE  Script[v][h] # End /\ Script[v][h].name = comp'[i].name
      <4>1. v = ver[w]
        BY <1>3 DEF Settled
      <4>2. h \in Seq(Values)
        BY <1>5, <4>1, ScriptAssumption
      <4>3. Len(h) = Len(wk[w].seen) /\ \A j \in 1 .. Len(h) : h[j] = wk[w].seen[j]
        <5>1. Len(h) = Len(wk[w].seen)
          BY <1>5, <3>4
        <5>2. \A j \in 1 .. Len(h) : j \in Position /\ j < i
          BY <1>8, <5>1
        <5> QED BY <3>3, <3>4, <5>1, <5>2
      <4>4. h = wk[w].seen
        BY <1>5, <4>2, <4>3, SeqEqual
      <4> QED BY <1>5, <3>1, <4>1, <4>4 DEF Opened
    <3> QED BY <3>1, <3>3, <3>4
  <2> QED BY <2>1, <2>2
<1> DEFINE s == [wk[w] EXCEPT !.pc = pc]
<1>12. wk' = [wk EXCEPT ![w] = s]
  BY <1>3 DEF Goto
<1>13. s.pc = pc /\ s.st = wk[w].st /\ s.seen = wk[w].seen /\ s.recorded = wk[w].recorded
  BY <1>3 DEF WorkerState
<1> HIDE DEF s
<1>14. wk'[w] = s
  BY <1>3, <1>12
<1>15. Opened(w)' = Opened(w) /\ Here(w)' = i
  BY <1>1, <1>13, <1>14 DEF Opened, Here, i
<1>16. RunOK(w)'
  <2>1. \A j \in 1 .. Len(wk[w].seen) :
          act[j].name = Script[ver[w]][SubSeq(wk[w].seen, 1, j - 1)].name
    BY <1>2, <1>6 DEF RunOK
  <2>2. \A k \in Position : k > i => wk[w].recorded[k] = act'[k]
    <3>1. \A k \in Position : k > i => act'[k] = act[k]
      BY <1>4 DEF Position
    <3> QED BY <1>2, <1>6, <3>1 DEF RunOK, i
  <2> QED BY <1>1, <1>8, <1>13, <1>14, <1>15, <2>1, <2>2 DEF RunOK
<1>17. OpenOK(w)'
  <2>1. act'[i].st # "succeed" /\ (act'[i] # NoRow => act'[i].name = Opened(w).name)
    BY <1>4, <1>7
  <2>2. Opened(w).undo => comp'[i] # NoRow /\ comp'[i].name = Opened(w).name
    BY <1>4, <1>7 DEF i
  <2>3. pc = "execute" => act'[i] # NoRow
    BY DEF i
  <2> QED BY <1>13, <1>14, <1>15, <2>1, <2>2, <2>3 DEF OpenOK, Opening
<1>18. Careful(w)'
  BY <1>1, <1>6, <1>13, <1>14, <1>16, <1>17 DEF Careful
<1> QED BY <1>9, <1>10, <1>11, <1>18 DEF Shared

LEMMA RegisterSqlInv ==
  ASSUME IInv, NEW w \in Workers, RegisterSql(w) PROVE IInv'
<1> DEFINE i == Here(w)
           undo == Opened(w).undo
           ok == ~Conflict(w, act[i]) /\ ~(undo /\ Conflict(w, comp[i]))
<1>1. /\ wk[w].pc = "register" /\ Goto(w, "execute") /\ deployment.store = "sql"
      /\ UNCHANGED <<deployment, status, ver, services>>
      /\ act' = IF ok THEN [act EXCEPT ![i] = Insert(w, @)] ELSE act
      /\ comp' = IF ok /\ undo THEN [comp EXCEPT ![i] = Insert(w, @)] ELSE comp
  BY DEF RegisterSql
<1> HIDE DEF undo, ok
<1>2. InsertsAt(w, act, act') /\ InsertsAt(w, comp, comp')
  BY <1>1 DEF InsertsAt
<1>3. ASSUME Settled PROVE Shared' /\ Careful(w)'
  <2>1. wk[w].pc \in Opening /\ wk[w].pc \in Running
    BY <1>1 DEF Opening, Running
  <2>2. OpenOK(w)
    BY <1>3, <2>1, Knowledge
  <2>3. ok
    BY <2>1, <2>2 DEF OpenOK, Conflict, ok, undo
  <2>4. act \in [Position -> Row] /\ comp \in [Position -> Row]
    BY DEF IInv, Basic, Tables
  <2>5. i \in Position /\ NewRow(w) # NoRow
    BY <1>2, <2>1, <2>4, Inserted
  <2> HIDE DEF NewRow, i
  <2>6. act'[i] = Insert(w, act[i]) /\ (undo => comp'[i] = Insert(w, comp[i]))
    BY <1>1, <2>3, <2>4, <2>5
  <2>7. act'[i] # NoRow /\ (undo => comp'[i] # NoRow) /\ (comp' # comp => undo)
    BY <1>1, <2>5, <2>6 DEF Insert
  <2> QED BY <1>1, <1>2, <1>3, <2>7, RegisterSettled DEF i, undo
<1> QED BY <1>1, <1>2, <1>3, RegisterBasic

LEMMA RegisterRedisInv ==
  ASSUME IInv, NEW w \in Workers, RegisterRedis(w) PROVE IInv'
<1> DEFINE i == Here(w)
           first == /\ wk[w].pc = "register" /\ Opened(w).undo
                    /\ comp' = [comp EXCEPT ![i] = Insert(w, @)]
                    /\ Goto(w, IF Conflict(w, comp[i]) THEN "execute" ELSE "register_action")
                    /\ act' = act
           second == /\ \/ wk[w].pc = "register" /\ ~Opened(w).undo
                        \/ wk[w].pc = "register_action"
                     /\ act' = [act EXCEPT ![i] = Insert(w, @)]
                     /\ Goto(w, "execute") /\ comp' = comp
<1>1. /\ first \/ second
      /\ deployment.store = "redis" /\ UNCHANGED <<deployment, status, ver, services>>
  BY DEF RegisterRedis
<1>2. /\ InsertsAt(w, act, act') /\ InsertsAt(w, comp, comp')
      /\ wk[w].pc \in {"register", "register_action"}
  BY <1>1 DEF InsertsAt
<1>3. wk[w].pc \in Opening /\ wk[w].pc \in Running
  BY <1>2 DEF Opening, Running
<1>4. act \in [Position -> Row] /\ comp \in [Position -> Row]
  BY DEF IInv, Basic, Tables
<1>5. i \in Position /\ NewRow(w) # NoRow
  BY <1>2, <1>3, <1>4, Inserted
<1>6. CASE first
  <2> DEFINE pc == IF Conflict(w, comp[i]) THEN "execute" ELSE "register_action"
  <2>1. pc \in {"register_action", "execute"} /\ Goto(w, pc)
    BY <1>6
  <2>2. ASSUME Settled PROVE Shared' /\ Careful(w)'
    <3>1. OpenOK(w)
      BY <1>3, <2>2, Knowledge
    <3>2. pc = "register_action"
      BY <1>3, <1>6, <3>1 DEF OpenOK, Conflict
    <3> HIDE DEF pc, NewRow, i
    <3>3. comp'[i] # NoRow
      BY <1>4, <1>5, <1>6 DEF Insert
    <3> QED BY <1>1, <1>2, <1>6, <2>1, <2>2, <3>2, <3>3, RegisterSettled DEF i
  <2> HIDE DEF pc
  <2> QED BY <1>1, <1>2, <2>1, <2>2, RegisterBasic
<1>7. CASE second
  <2>1. ASSUME Settled PROVE Shared' /\ Careful(w)'
    <3>1. OpenOK(w)
      BY <1>3, <2>1, Knowledge
    <3>2. Opened(w).undo => comp'[i] # NoRow
      BY <1>7, <3>1 DEF OpenOK, Opening
    <3> HIDE DEF NewRow, i
    <3>3. act'[i] # NoRow
      BY <1>4, <1>5, <1>7 DEF Insert
    <3> QED BY <1>1, <1>2, <1>7, <2>1, <3>2, <3>3, RegisterSettled DEF i
  <2> QED BY <1>1, <1>2, <1>7, <2>1, RegisterBasic
<1> QED BY <1>1, <1>6, <1>7

-----------------------------------------------------------------------------
(***************************************************************************)
(* Calls of the function's branches, and their results.                    *)
(***************************************************************************)

\* A branch is called only when its compensation, if it has one, is on record.
LEMMA CalledIsCovered ==
  ASSUME IInv, NEW w \in Workers, wk[w].pc = "execute", Settled,
         sent' = sent \cup {Opened(w).name}, comp' = comp
  PROVE  CoveredOK'
<1>1. wk[w].pc \in Opening /\ wk[w].pc \in Running
  BY DEF Opening, Running
<1>2. Shared /\ OpenOK(w) /\ Opened(w) # End
  BY <1>1, Knowledge DEF IInv, Basic, Follows
<1>3. /\ ver[w] \in Versions /\ wk[w].seen \in DOMAIN Script[ver[w]] /\ Here(w) \in Position
      /\ Opened(w).undo \in BOOLEAN
  BY <1>1, <1>2, ScriptGoesOn DEF IInv
<1>4. ASSUME Opened(w).name \in Undoable
      PROVE  comp[Here(w)] # NoRow /\ comp[Here(w)].name = Opened(w).name
  <2>1. Opened(w).undo
    BY <1>2, <1>3, <1>4 DEF Undoable, Opened
  <2> QED BY <1>1, <1>2, <2>1 DEF OpenOK, Opening
<1> QED BY <1>2, <1>3, <1>4 DEF Shared, CoveredOK

LEMMA ExecuteInv ==
  ASSUME IInv, NEW w \in Workers, Execute(w) PROVE IInv'
<1> DEFINE b == Opened(w).name
<1>1. /\ wk[w].pc = "execute" /\ wk[w] # Idle
      /\ wk[w].pc \in Opening /\ wk[w].pc \in Running
      /\ UNCHANGED <<deployment, status, act, comp, ver>>
      /\ sent' = sent \cup {b} /\ Runs(b, "action")
  BY DEF Execute, Opening, Running, Idle, table
<1>2. PICK v \in Values : wk' = [wk EXCEPT ![w].pc = "record", ![w].val = v]
  BY DEF Execute
<1>3. /\ wk \in [Workers -> WorkerState] /\ wk[w] \in WorkerState /\ Follows(w) /\ Tables
      /\ ver' \in [Workers -> deployment.versions]
  BY <1>1 DEF IInv, Basic
<1>4. Opened(w) # End /\ b \in Names /\ "action" \in SagaOp
  BY <1>1, <1>3, ScriptGoesOn DEF IInv, Follows, SagaOp
<1> HIDE DEF b
<1>5. /\ rows' \in [Names -> SUBSET SagaOp] /\ did' \in [Names -> [SagaOp -> Nat]]
      /\ "action" \in rows'[b]
      /\ \A x \in Names : rows[x] \subseteq rows'[x]
      /\ \A x \in Names : "compensate" \in rows'[x] => "compensate" \in rows[x]
      /\ BarrierOK'
  BY <1>1, <1>3, <1>4, RunsOnce
<1>6. Tables'
  BY <1>1, <1>3, <1>4, <1>5 DEF Tables, RowsOK
<1> DEFINE s == [wk[w] EXCEPT !.pc = "record", !.val = v]
<1>7. wk' = [wk EXCEPT ![w] = s]
  BY <1>2, <1>3
<1>8. /\ s \in WorkerState /\ s.pc = "record" /\ s.val = v /\ s.st = wk[w].st
      /\ s.seen = wk[w].seen /\ s.recorded = wk[w].recorded
  BY <1>3 DEF WorkerState, Running, Opening
<1> HIDE DEF s
<1>9. /\ wk'[w] = s /\ wk' \in [Workers -> WorkerState]
      /\ \A x \in Workers \ {w} : wk'[x] = wk[x] /\ ver'[x] = ver[x]
  BY <1>1, <1>3, <1>7, <1>8
<1>10. Opened(w)' = Opened(w) /\ Here(w)' = Here(w)
  BY <1>1, <1>8, <1>9 DEF Opened, Here
<1>11. Follows(w)'
  BY <1>1, <1>3, <1>8, <1>9, <1>10 DEF Follows, Running, Opening
<1>12. ASSUME Settled PROVE Shared' /\ Careful(w)'
  <2>1. /\ Shared /\ RunOK(w) /\ OpenOK(w) /\ wk[w].st = "submitted"
        /\ status \in {"submitted", "aborting"}
    BY <1>1, <1>12, Knowledge
  <2>2. /\ OwnOK' /\ PairOK' /\ PathOK'
        /\ \A i \in Position : comp[i].st = "succeed" => "compensate" \in rows'[comp[i].name]
    BY <1>1, <1>3, <1>5, <2>1, RowsGrow DEF Shared, UndoneOK
  <2>3. UndoneOK' /\ FinalOK'
    BY <1>1, <1>5, <2>1, <2>2 DEF Shared, UndoneOK, FinalOK
  <2>4. CoveredOK'
    BY <1>1, <1>12, CalledIsCovered DEF b
  <2>5. RunOK(w)'
    BY <1>1, <1>8, <1>9, <1>10, <2>1 DEF RunOK, Running, Opening
  <2>6. OpenOK(w)'
    BY <1>1, <1>5, <1>8, <1>9, <1>10, <2>1 DEF OpenOK, Opening, b
  <2>7. Careful(w)'
    BY <1>1, <1>8, <1>9, <2>1, <2>5, <2>6 DEF Careful
  <2> QED BY <2>2, <2>3, <2>4, <2>7 DEF Shared
<1> QED BY <1>1, <1>3, <1>6, <1>9, <1>11, <1>12, StepInv

LEMMA UnknownInv ==
  ASSUME IInv, NEW w \in Workers, Unknown(w) PROVE IInv'
<1>1. /\ wk[w].pc = "execute" /\ wk[w] # Idle
      /\ wk[w].pc \in Opening /\ wk[w].pc \in Running
      /\ UNCHANGED <<deployment, status, act, comp, ver, rows, did>>
      /\ sent' = sent \cup {Opened(w).name} /\ wk' = [wk EXCEPT ![w] = Idle]
  BY DEF Unknown, Opening, Running, Idle, table, EndRound
<1>2. /\ wk \in [Workers -> WorkerState] /\ Follows(w) /\ Tables
      /\ ver' \in [Workers -> deployment.versions]
  BY <1>1 DEF IInv, Basic
<1>3. Opened(w).name \in Names
  BY <1>1, <1>2, ScriptGoesOn DEF IInv, Follows
<1>4. Tables'
  BY <1>1, <1>2, <1>3 DEF Tables, RowsOK, BarrierOK
<1>5. Idle \in WorkerState /\ Idle.pc = "idle" /\ Idle.st = "submitted"
  BY WorkflowAssumption DEF Idle, WorkerState, Results, Row, NoRow, Position
<1>6. /\ wk'[w] = Idle /\ wk' \in [Workers -> WorkerState]
      /\ \A x \in Workers \ {w} : wk'[x] = wk[x] /\ ver'[x] = ver[x]
  BY <1>1, <1>2, <1>5
<1>7. Follows(w)' /\ Careful(w)'
  BY <1>5, <1>6 DEF Follows, Careful, RunOK, OpenOK, Running, Opening
<1>8. ASSUME Settled PROVE Shared'
  <2>1. Shared /\ status \in {"submitted", "aborting"}
    BY <1>1, <1>8, Knowledge
  <2>2. OwnOK' /\ PairOK' /\ PathOK' /\ UndoneOK' /\ FinalOK'
    BY <1>1, <2>1 DEF Shared, OwnOK, PairOK, PathOK, UndoneOK, FinalOK
  <2>3. CoveredOK'
    BY <1>1, <1>8, CalledIsCovered
  <2> QED BY <2>2, <2>3 DEF Shared
<1> QED BY <1>1, <1>2, <1>4, <1>6, <1>7, <1>8, StepInv

\* A result is written where the branch was registered: nothing that was
\* recorded before rests on it.
LEMMA ResultWritten ==
  ASSUME IInv, NEW w \in Workers, wk[w].pc \in {"record", "refused"}, Settled,
         UNCHANGED <<deployment, status, comp, sent, rows, did>>,
         \A j \in Position : j # Here(w) => act'[j] = act[j],
         act'[Here(w)].name = act[Here(w)].name, act'[Here(w)] # NoRow,
         act'[Here(w)].st = "succeed" => wk[w].pc = "record"
  PROVE  Shared'
<1> DEFINE i == Here(w)
<1>1. wk[w].pc \in Opening /\ wk[w].pc \in Running
  BY DEF Opening, Running
<1>2. Shared /\ OpenOK(w) /\ Opened(w) # End
  BY <1>1, Knowledge DEF IInv, Basic, Follows
<1>3. i \in Position
  BY <1>1, <1>2, ScriptGoesOn DEF IInv
<1>4. /\ act[i].st # "succeed" /\ act[i] # NoRow /\ act[i].name = Opened(w).name
      /\ wk[w].pc = "record" => "action" \in rows[Opened(w).name]
  BY <1>1, <1>2 DEF OpenOK, Opening
<1>5. /\ \A j \in Position : j # i => act'[j] = act[j]
      /\ act'[i].name = act[i].name /\ act'[i] # NoRow
      /\ act'[i].st = "succeed" => wk[w].pc = "record"
  OBVIOUS
<1> HIDE DEF i
<1>6. OwnOK'
  BY <1>2, <1>4, <1>5 DEF Shared, OwnOK
<1>7. PairOK'
  BY <1>2, <1>5 DEF Shared, PairOK
<1>8. PathOK'
  <2>1. ASSUME deployment.store = "redis", NEW k \in Position, comp[k] # NoRow,
               NEW j \in Position, j < k
        PROVE  act'[j] = act[j]
    <3>1. act[j].st = "succeed"
      BY <1>2, <2>1 DEF Shared, PathOK
    <3> QED BY <1>4, <1>5, <3>1
  <2> QED BY <1>2, <2>1 DEF Shared, PathOK
<1>9. UndoneOK' /\ CoveredOK' /\ FinalOK'
  BY <1>2 DEF Shared, UndoneOK, CoveredOK, FinalOK, AllUndone, Whole, PathDone
<1> QED BY <1>6, <1>7, <1>8, <1>9 DEF Shared

LEMMA RecordInv ==
  ASSUME IInv, NEW w \in Workers, Record(w) PROVE IInv'
<1> DEFINE i == Here(w)
           v == wk[w].val
           t == Append(wk[w].seen, v)
<1>1. /\ wk[w].pc = "record" /\ wk[w] # Idle
      /\ wk[w].pc \in Opening /\ wk[w].pc \in Running
      /\ UNCHANGED <<deployment, status, comp, ver, sent, rows, did>>
      /\ act' = [act EXCEPT ![i] = IF @ = NoRow THEN @
                                   ELSE [@ EXCEPT !.st = "succeed", !.val = v]]
      /\ wk' = [wk EXCEPT ![w].pc = "run", ![w].seen = t, ![w].val = "none"]
  BY DEF Record, SetBranchResult, Opening, Running, Idle, services
<1>2. /\ wk \in [Workers -> WorkerState] /\ wk[w] \in WorkerState /\ Follows(w) /\ Tables
      /\ act \in [Position -> Row] /\ ver' \in [Workers -> deployment.versions]
  BY <1>1 DEF IInv, Basic, Tables
<1>3. Opened(w) # End /\ v \in Values
  BY <1>1, <1>2 DEF Follows
<1>4. /\ ver[w] \in Versions /\ wk[w].seen \in Seq(Values) /\ Len(wk[w].seen) \in Nat
      /\ i \in Position /\ i = Len(wk[w].seen) + 1
      /\ t \in DOMAIN Script[ver[w]]
  BY <1>1, <1>3, ScriptGoesOn DEF IInv
<1>5. /\ t \in Seq(Values) /\ Len(t) = i /\ t[i] = v
      /\ \A j \in 1 .. Len(wk[w].seen) : t[j] = wk[w].seen[j]
      /\ \A j \in 1 .. i : SubSeq(t, 1, j - 1) = SubSeq(wk[w].seen, 1, j - 1)
      /\ SubSeq(wk[w].seen, 1, Len(wk[w].seen)) = wk[w].seen
  BY <1>3, <1>4, Beginnings
<1> HIDE DEF i, t, v
<1>6. t \in Results
  BY <1>4, <1>5 DEF Results, Position
<1>7. act[i] \in Row /\ (act[i] = NoRow \/ act[i].name \in Names)
  BY <1>2, <1>4 DEF Tables, RowsOK
<1>8. /\ \A j \in Position : j # i => act'[j] = act[j]
      /\ act' \in [Position -> Row]
      /\ act[i] = NoRow => act'[i] = NoRow
      /\ act[i] # NoRow => /\ act'[i].name = act[i].name /\ act'[i].st = "succeed"
                           /\ act'[i].val = v
  <2> DEFINE new == [act[i] EXCEPT !.st = "succeed", !.val = v]
  <2>1. new \in Row /\ new.name = act[i].name /\ new.st = "succeed" /\ new.val = v
    BY <1>3, <1>7 DEF Row, BranchStatus
  <2>2. act' = [act EXCEPT ![i] = IF act[i] = NoRow THEN act[i] ELSE new]
    BY <1>1
  <2> HIDE DEF new
  <2> QED BY <1>2, <1>4, <1>7, <2>1, <2>2
<1>9. Tables'
  <2>1. RowsOK'
    <3> SUFFICES ASSUME NEW j \in Position
                 PROVE  /\ act'[j] = NoRow \/ act'[j].name \in Names
                        /\ Told(act'[j])
      BY <1>1, <1>2 DEF Tables, RowsOK
    <3>1. CASE j # i
      BY <1>2, <1>8, <3>1 DEF Tables, RowsOK
    <3>2. CASE j = i
      BY <1>3, <1>7, <1>8, <3>2 DEF Told, NoRow
    <3> QED BY <3>1, <3>2
  <2> QED BY <1>1, <1>2, <1>8, <2>1 DEF Tables, BarrierOK
<1> DEFINE s == [wk[w] EXCEPT !.pc = "run", !.seen = t, !.val = "none"]
<1>10. wk' = [wk EXCEPT ![w] = s]
  BY <1>1, <1>2
<1>11. /\ s \in WorkerState /\ s.pc = "run" /\ s.seen = t /\ s.st = wk[w].st
       /\ s.recorded = wk[w].recorded
  BY <1>2, <1>6 DEF WorkerState, Running
<1> HIDE DEF s
<1>12. /\ wk'[w] = s /\ wk' \in [Workers -> WorkerState]
       /\ \A x \in Workers \ {w} : wk'[x] = wk[x] /\ ver'[x] = ver[x]
  BY <1>1, <1>2, <1>10, <1>11
<1>13. Follows(w)'
  BY <1>1, <1>2, <1>4, <1>11, <1>12 DEF Follows, Running, Opening
<1>14. ASSUME Settled PROVE Shared' /\ Careful(w)'
  <2>1. /\ RunOK(w) /\ OpenOK(w) /\ wk[w].st = "submitted"
        /\ status \in {"submitted", "aborting"}
    BY <1>1, <1>14, Knowledge
  <2>2. act[i] # NoRow /\ act[i].name = Opened(w).name
    BY <1>1, <2>1 DEF OpenOK, Opening, i
  <2>3. Shared'
    <3>1. act'[i].name = act[i].name /\ act'[i] # NoRow
      BY <1>8, <2>2 DEF NoRow
    <3> QED BY <1>1, <1>8, <1>14, <3>1, ResultWritten DEF i
  <2>4. ASSUME NEW j \in 1 .. i
        PROVE  /\ act'[j].st = "succeed" /\ act'[j].val = t[j]
               /\ act'[j].name = Script[ver[w]][SubSeq(t, 1, j - 1)].name
    <3>1. CASE j \in 1 .. Len(wk[w].seen)
      <4>1. SubSeq(t, 1, j - 1) = SubSeq(wk[w].seen, 1, j - 1) /\ t[j] = wk[w].seen[j]
        BY <1>5, <3>1
      <4>2. j \in Position /\ j # i
        BY <1>1, <1>4, <1>14, <3>1, Knowledge
      <4>3. act'[j] = act[j]
        BY <1>8, <4>2
      <4> QED BY <1>1, <2>1, <3>1, <4>1, <4>3 DEF RunOK
    <3>2. CASE j = i
      <4>1. SubSeq(t, 1, j - 1) = wk[w].seen
        BY <1>4, <1>5, <3>2
      <4> QED BY <1>5, <1>8, <2>2, <3>2, <4>1 DEF Opened
    <3> QED BY <1>4, <3>1, <3>2
  <2>5. \A k \in Position : k >= i + 1 => wk[w].recorded[k] = act'[k]
    <3>1. \A k \in Position : k >= i + 1 => k > i /\ act'[k] = act[k]
      BY <1>4, <1>8 DEF Position
    <3>2. \A k \in Position : k > i => wk[w].recorded[k] = act[k]
      BY <1>1, <2>1 DEF RunOK, i
    <3> QED BY <3>1, <3>2
  <2>6. Here(w)' = i + 1
    BY <1>5, <1>11, <1>12 DEF Here
  <2>7. RunOK(w)'
    <3>1. \A k \in Position :
            k > Here(w)' \/ (k = Here(w)' /\ wk'[w].pc = "run") => wk'[w].recorded[k] = act'[k]
      BY <1>4, <1>11, <1>12, <2>5, <2>6 DEF Position
    <3> QED BY <1>1, <1>5, <1>11, <1>12, <2>4, <3>1 DEF RunOK
  <2>8. OpenOK(w)'
    BY <1>11, <1>12 DEF OpenOK, Opening
  <2>9. Careful(w)'
    BY <1>1, <1>11, <1>12, <2>1, <2>7, <2>8 DEF Careful
  <2> QED BY <2>3, <2>9
<1> QED BY <1>1, <1>2, <1>9, <1>12, <1>13, <1>14, StepInv

LEMMA RefusedInv ==
  ASSUME IInv, NEW w \in Workers, Refused(w) PROVE IInv'
<1> DEFINE i == Here(w)
<1>1. /\ wk[w].pc = "refused" /\ wk[w] # Idle
      /\ wk[w].pc \in Opening /\ wk[w].pc \in Running
      /\ UNCHANGED <<deployment, status, comp, ver, sent, rows, did>>
      /\ \/ act' = act
         \/ act' = [act EXCEPT ![i] = IF @ = NoRow THEN @ ELSE [@ EXCEPT !.st = "failed"]]
      /\ wk' = [wk EXCEPT ![w].pc = "transition", ![w].to = "aborting"]
  BY DEF Refused, SetBranchStatus, Opening, Running, Idle, services
<1>2. /\ wk \in [Workers -> WorkerState] /\ wk[w] \in WorkerState /\ Follows(w) /\ Tables
      /\ act \in [Position -> Row] /\ ver' \in [Workers -> deployment.versions]
  BY <1>1 DEF IInv, Basic, Tables
<1>3. i \in Position /\ wk[w].st = "submitted"
  BY <1>1, <1>2, ScriptGoesOn DEF IInv, Follows
<1> HIDE DEF i
<1>4. act[i] \in Row /\ (act[i] = NoRow \/ act[i].name \in Names)
  BY <1>2, <1>3 DEF Tables, RowsOK
<1>5. /\ \A j \in Position : j # i => act'[j] = act[j]
      /\ act' \in [Position -> Row]
      /\ \/ act'[i] = act[i]
         \/ act[i] # NoRow /\ act'[i].name = act[i].name /\ act'[i].st = "failed"
  <2> DEFINE new == [act[i] EXCEPT !.st = "failed"]
  <2>1. new \in Row /\ new.name = act[i].name /\ new.st = "failed"
    BY <1>4 DEF Row, BranchStatus
  <2>2. act' = act \/ act' = [act EXCEPT ![i] = IF act[i] = NoRow THEN act[i] ELSE new]
    BY <1>1
  <2> HIDE DEF new
  <2> QED BY <1>2, <1>3, <1>4, <2>1, <2>2
<1>6. Tables'
  <2>1. RowsOK'
    <3> SUFFICES ASSUME NEW j \in Position
                 PROVE  /\ act'[j] = NoRow \/ act'[j].name \in Names
                        /\ Told(act'[j])
      BY <1>1, <1>2 DEF Tables, RowsOK
    <3>1. CASE act'[j] = act[j]
      BY <1>2, <3>1 DEF Tables, RowsOK
    <3>2. CASE act'[j] # act[j]
      BY <1>4, <1>5, <3>2 DEF Told
    <3> QED BY <3>1, <3>2
  <2> QED BY <1>1, <1>2, <1>5, <2>1 DEF Tables, BarrierOK
<1> DEFINE s == [wk[w] EXCEPT !.pc = "transition", !.to = "aborting"]
<1>7. wk' = [wk EXCEPT ![w] = s]
  BY <1>1, <1>2
<1>8. s \in WorkerState /\ s.pc = "transition" /\ s.to = "aborting" /\ s.st = "submitted"
  BY <1>2, <1>3 DEF WorkerState
<1> HIDE DEF s
<1>9. /\ wk'[w] = s /\ wk' \in [Workers -> WorkerState]
      /\ \A x \in Workers \ {w} : wk'[x] = wk[x] /\ ver'[x] = ver[x]
  BY <1>1, <1>2, <1>7, <1>8
<1>10. Follows(w)'
  BY <1>8, <1>9 DEF Follows, Running, Opening
<1>11. ASSUME Settled PROVE Shared' /\ Careful(w)'
  <2>1. OpenOK(w) /\ status \in {"submitted", "aborting"}
    BY <1>1, <1>11, Knowledge
  <2>2. act[i] # NoRow /\ act[i].st # "succeed"
    BY <1>1, <2>1 DEF OpenOK, Opening, i
  <2>3. act'[i].name = act[i].name /\ act'[i] # NoRow /\ act'[i].st # "succeed"
    BY <1>5, <2>2 DEF NoRow
  <2>4. Shared'
    BY <1>1, <1>5, <1>11, <2>3, ResultWritten DEF i
  <2>5. Careful(w)'
    BY <1>1, <1>8, <1>9, <2>1 DEF Careful, RunOK, OpenOK, Running, Opening
  <2> QED BY <2>4, <2>5
<1> QED BY <1>1, <1>2, <1>6, <1>9, <1>10, <1>11, StepInv

-----------------------------------------------------------------------------
(***************************************************************************)
(* Compensations, and the ends of rounds.                                  *)
(***************************************************************************)
LEMMA CompensateInv ==
  ASSUME IInv, NEW w \in Workers, Compensate(w) PROVE IInv'
<1> DEFINE b == comp[wk[w].at].name
<1>1. /\ wk[w].pc = "call" /\ wk[w] # Idle
      /\ UNCHANGED <<deployment, status, act, comp, ver, sent>>
      /\ Runs(b, "compensate") /\ Goto(w, "called")
  BY DEF Compensate, Idle, table
<1>2. /\ wk \in [Workers -> WorkerState] /\ wk[w] \in WorkerState /\ Follows(w) /\ Tables
      /\ ver' \in [Workers -> deployment.versions]
  BY <1>1 DEF IInv, Basic
<1>3. wk[w].at \in Position /\ comp[wk[w].at] # NoRow /\ wk[w].st = "aborting"
  BY <1>1, <1>2 DEF Follows
<1>4. b \in Names /\ "compensate" \in SagaOp
  BY <1>2, <1>3 DEF Tables, RowsOK, SagaOp
<1>5. /\ rows' \in [Names -> SUBSET SagaOp] /\ did' \in [Names -> [SagaOp -> Nat]]
      /\ "compensate" \in rows'[b]
      /\ \A x \in Names : rows[x] \subseteq rows'[x]
      /\ BarrierOK'
  <2> HIDE DEF b
  <2> QED BY <1>1, <1>2, <1>4, RunsOnce
<1>6. Tables'
  BY <1>1, <1>2, <1>5 DEF Tables, RowsOK
<1> DEFINE s == [wk[w] EXCEPT !.pc = "called"]
<1>7. wk' = [wk EXCEPT ![w] = s]
  BY <1>1, <1>2 DEF Goto
<1>8. s \in WorkerState /\ s.pc = "called" /\ s.st = "aborting" /\ s.at = wk[w].at
  BY <1>2, <1>3 DEF WorkerState
<1> HIDE DEF s
<1>9. /\ wk'[w] = s /\ wk' \in [Workers -> WorkerState]
      /\ \A x \in Workers \ {w} : wk'[x] = wk[x] /\ ver'[x] = ver[x]
  BY <1>1, <1>2, <1>7, <1>8
<1>10. Follows(w)'
  BY <1>1, <1>3, <1>8, <1>9 DEF Follows, Running, Opening
<1>11. ASSUME Settled PROVE Shared' /\ Careful(w)'
  <2>1. Shared /\ status = "aborting"
    BY <1>3, <1>11 DEF IInv, Careful
  <2>2. /\ OwnOK' /\ PairOK' /\ PathOK'
        /\ \A i \in Position : comp[i].st = "succeed" => "compensate" \in rows'[comp[i].name]
    BY <1>1, <1>2, <1>5, <2>1, RowsGrow DEF Shared, UndoneOK
  <2>3. UndoneOK' /\ FinalOK' /\ CoveredOK'
    BY <1>1, <2>1, <2>2 DEF Shared, UndoneOK, FinalOK, CoveredOK
  <2>4. Careful(w)'
    BY <1>1, <1>5, <1>8, <1>9, <2>1 DEF Careful, RunOK, OpenOK, Running, Opening
  <2> QED BY <2>2, <2>3, <2>4 DEF Shared
<1> QED BY <1>1, <1>2, <1>6, <1>9, <1>10, <1>11, StepInv

LEMMA CompensatedInv ==
  ASSUME IInv, NEW w \in Workers, Compensated(w) PROVE IInv'
<1> DEFINE i == wk[w].at
<1>1. /\ wk[w].pc = "called" /\ wk[w] # Idle
      /\ UNCHANGED <<deployment, status, act, ver, sent, rows, did>>
      /\ comp' = [comp EXCEPT ![i].st = "succeed"]
      /\ wk' = [wk EXCEPT ![w].pc = "loop", ![w].at = 0]
  BY DEF Compensated, Idle, services
<1>2. /\ wk \in [Workers -> WorkerState] /\ wk[w] \in WorkerState /\ Follows(w) /\ Tables
      /\ comp \in [Position -> Row] /\ ver' \in [Workers -> deployment.versions]
  BY <1>1 DEF IInv, Basic, Tables
<1>3. i \in Position /\ comp[i] # NoRow /\ wk[w].st = "aborting"
  BY <1>1, <1>2 DEF Follows
<1> HIDE DEF i
<1>4. comp[i] \in Row /\ comp[i].name \in Names
  BY <1>2, <1>3 DEF Tables, RowsOK
<1>5. /\ comp' \in [Position -> Row] /\ comp'[i] # NoRow
      /\ comp'[i].st = "succeed"
      /\ \A j \in Position : j # i => comp'[j] = comp[j]
      /\ \A j \in Position : comp'[j].name = comp[j].name
  <2> DEFINE new == [comp[i] EXCEPT !.st = "succeed"]
  <2>1. new \in Row /\ new.name = comp[i].name /\ new.st = "succeed"
    BY <1>4 DEF Row, BranchStatus
  <2>2. comp' = [comp EXCEPT ![i] = new]
    BY <1>1
  <2>3. new # NoRow
    BY <2>1 DEF NoRow
  <2> HIDE DEF new
  <2> QED BY <1>2, <1>3, <2>1, <2>2, <2>3
<1>6. \A j \in Position : comp'[j] # NoRow <=> comp[j] # NoRow
  BY <1>3, <1>5
<1>7. Tables'
  <2>1. RowsOK'
    BY <1>1, <1>2, <1>4, <1>5, <1>6 DEF Tables, RowsOK
  <2> QED BY <1>1, <1>2, <1>5, <2>1 DEF Tables, BarrierOK
<1> DEFINE s == [wk[w] EXCEPT !.pc = "loop", !.at = 0]
<1>8. wk' = [wk EXCEPT ![w] = s]
  BY <1>1, <1>2
<1>9. s \in WorkerState /\ s.pc = "loop" /\ s.st = "aborting"
  <2>1. 0 \in 0 .. N
    BY WorkflowAssumption
  <2> QED BY <1>2, <1>3, <2>1 DEF WorkerState
<1> HIDE DEF s
<1>10. /\ wk'[w] = s /\ wk' \in [Workers -> WorkerState]
       /\ \A x \in Workers \ {w} : wk'[x] = wk[x] /\ ver'[x] = ver[x]
  BY <1>1, <1>2, <1>8, <1>9
<1>11. Follows(w)'
  BY <1>9, <1>10 DEF Follows, Running, Opening
<1>12. ASSUME Settled PROVE Shared' /\ Careful(w)'
  <2>1. Shared /\ status = "aborting" /\ "compensate" \in rows[comp[i].name]
    BY <1>1, <1>3, <1>12 DEF IInv, Careful, i
  <2>2. OwnOK' /\ PairOK' /\ FinalOK'
    BY <1>1, <1>5, <1>6, <2>1 DEF Shared, OwnOK, PairOK, FinalOK
  <2>3. PathOK'
    BY <1>1, <1>5, <1>6, <2>1 DEF Shared, PathOK
  <2>4. UndoneOK'
    BY <1>1, <1>5, <2>1 DEF Shared, UndoneOK
  <2>5. CoveredOK'
    BY <1>1, <1>5, <1>6, <2>1 DEF Shared, CoveredOK
  <2>6. Careful(w)'
    BY <1>1, <1>9, <1>10, <2>1 DEF Careful, RunOK, OpenOK, Running, Opening
  <2> QED BY <2>2, <2>3, <2>4, <2>5, <2>6 DEF Shared
<1> QED BY <1>1, <1>2, <1>6, <1>7, <1>10, <1>11, <1>12, StepInv

\* The compare in transition: in a settled deployment the status is still the
\* one the round was begun with.
LEMMA Compared ==
  ASSUME IInv, NEW w \in Workers, wk[w].pc = "transition", CanTransition(w)
  PROVE  /\ wk[w].st = "submitted" => status = "submitted"
         /\ Settled => status = wk[w].st
<1>1. wk[w].st \in {"submitted", "aborting"} /\ (Settled => Careful(w))
  BY DEF IInv, Basic, Follows
<1> QED BY <1>1 DEF CanTransition, StatusContested, Careful

LEMMA TransitionInv ==
  ASSUME IInv, NEW w \in Workers, Transition(w) PROVE IInv'
<1> DEFINE turned == [Idle EXCEPT !.pc = "loop", !.st = "aborting"]
           turns == CanTransition(w) /\ wk[w].to = "aborting"
           s == IF turns THEN turned ELSE Idle
<1>1. /\ wk[w].pc = "transition" /\ wk[w] # Idle
      /\ UNCHANGED <<deployment, act, comp, ver, sent, rows, did>>
      /\ status' = IF CanTransition(w) THEN wk[w].to ELSE status
      /\ wk' = [wk EXCEPT ![w] = s]
  BY DEF Transition, EndRound, Idle, table, services
<1>2. /\ wk \in [Workers -> WorkerState] /\ wk[w] \in WorkerState /\ Follows(w) /\ Tables
      /\ ver' \in [Workers -> deployment.versions]
  BY <1>1 DEF IInv, Basic
<1>3. \/ wk[w].to = "failed" /\ wk[w].st = "aborting"
      \/ wk[w].to \in {"aborting", "succeed"} /\ wk[w].st = "submitted"
  BY <1>1, <1>2 DEF Follows
<1>4. Tables'
  BY <1>1, <1>2, <1>3 DEF Tables, RowsOK, BarrierOK
<1>5. Idle \in WorkerState /\ Idle.pc = "idle" /\ Idle.st = "submitted"
  BY WorkflowAssumption DEF Idle, WorkerState, Results, Row, NoRow, Position
<1>6. turned \in WorkerState /\ turned.pc = "loop" /\ turned.st = "aborting"
  <2> HIDE DEF Idle
  <2> QED BY <1>5 DEF WorkerState
<1> HIDE DEF turned
<1>7. s \in WorkerState /\ (turns => s = turned) /\ (~turns => s = Idle)
  BY <1>5, <1>6
<1> HIDE DEF s, turns
<1>8. /\ wk'[w] = s /\ wk' \in [Workers -> WorkerState]
      /\ \A x \in Workers \ {w} : wk'[x] = wk[x] /\ ver'[x] = ver[x]
  BY <1>1, <1>2, <1>7
<1>9. Follows(w)'
  BY <1>5, <1>6, <1>7, <1>8 DEF Follows, Running, Opening
<1>10. ASSUME Settled PROVE Shared' /\ Careful(w)'
  <2>1. Shared /\ Careful(w)
    BY <1>10 DEF IInv
  <2>2. OwnOK' /\ PairOK' /\ PathOK' /\ CoveredOK'
    BY <1>1, <2>1 DEF Shared, OwnOK, PairOK, PathOK, CoveredOK
  <2>3. (AllUndone' <=> AllUndone) /\ (Whole' <=> Whole)
    BY <1>1 DEF AllUndone, Whole, PathDone
  <2>4. UndoneOK' /\ FinalOK'
    <3>1. CASE ~CanTransition(w)
      BY <1>1, <2>1, <2>3, <3>1 DEF Shared, UndoneOK, FinalOK
    <3>2. CASE CanTransition(w)
      <4>1. status = wk[w].st /\ status' = wk[w].to
        BY <1>1, <1>10, <3>2, Compared
      <4>2. UndoneOK'
        BY <1>1, <1>3, <2>1, <4>1 DEF Shared, UndoneOK
      <4>3. FinalOK'
        BY <1>1, <1>3, <2>1, <2>3, <4>1 DEF Careful, FinalOK
      <4> QED BY <4>2, <4>3
    <3> QED BY <3>1, <3>2
  <2>5. Careful(w)'
    <3>1. CASE ~turns
      BY <1>5, <1>7, <1>8, <3>1 DEF Careful, RunOK, OpenOK, Running, Opening
    <3>2. CASE turns
      <4>1. status' = "aborting"
        BY <1>1, <3>2 DEF turns
      <4> QED BY <1>6, <1>7, <1>8, <3>2, <4>1 DEF Careful, RunOK, OpenOK, Running, Opening
    <3> QED BY <3>1, <3>2
  <2> QED BY <2>2, <2>4, <2>5 DEF Shared
<1> QED BY <1>1, <1>2, <1>4, <1>8, <1>9, <1>10, StepInv

-----------------------------------------------------------------------------
(***************************************************************************)
(* Results.                                                                *)
(***************************************************************************)

\* A step that changes nothing.
LEMMA StutterInv ==
  ASSUME IInv, UNCHANGED vars PROVE IInv'
<1>1. UNCHANGED <<deployment, status, act, comp, ver, wk, sent, rows, did>>
  BY DEF vars
<1>2. Basic'
  <2>1. Tables'
    BY <1>1 DEF IInv, Basic, Tables, RowsOK, BarrierOK
  <2>2. \A w \in Workers : Follows(w)'
    BY <1>1 DEF IInv, Basic, Follows, Opened
  <2> QED BY <1>1, <2>1, <2>2 DEF IInv, Basic
<1>3. ASSUME Settled' PROVE Solo' /\ Shared' /\ \A w \in Workers : Careful(w)'
  <2>1. Solo /\ Shared /\ \A w \in Workers : Careful(w)
    BY <1>1, <1>3 DEF IInv, Settled
  <2>2. (AllUndone' <=> AllUndone) /\ (Whole' <=> Whole)
    BY <1>1 DEF AllUndone, Whole, PathDone
  <2>3. Shared'
    BY <1>1, <2>1, <2>2
    DEF Shared, OwnOK, PairOK, PathOK, UndoneOK, CoveredOK, FinalOK
  <2>4. ASSUME NEW w \in Workers PROVE Careful(w)'
    <3>1. Careful(w)
      BY <2>1
    <3>2. RunOK(w)' /\ OpenOK(w)'
      BY <1>1, <3>1 DEF Careful, RunOK, OpenOK, Here, Opened
    <3> QED BY <1>1, <2>2, <3>1, <3>2 DEF Careful
  <2> QED BY <1>1, <2>1, <2>3, <2>4 DEF Solo
<1> QED BY <1>2, <1>3 DEF IInv

LEMMA NextInv ==
  ASSUME IInv, [Next]_vars PROVE IInv'
<1>1. CASE Submit \/ Abort
  BY <1>1, CallerInv
<1>2. CASE ExecuteStray
  BY <1>2, StrayInv
<1>3. ASSUME NEW w \in Workers,
             \/ Lock(w) \/ Loop(w) \/ Retry(w) \/ Returns(w) \/ AsksForRollback(w) \/ Replay(w)
             \/ Refuse(w) \/ CompensateUnknown(w) \/ Crash(w)
      PROVE  IInv'
  BY <1>3, LockInv, LoopInv, GiveUpInv, ReturnsInv, ReplayInv, RefuseInv
<1>4. ASSUME NEW w \in Workers,
             \/ RegisterSql(w) \/ RegisterRedis(w) \/ Execute(w) \/ Unknown(w) \/ Record(w)
             \/ Refused(w) \/ Compensate(w) \/ Compensated(w) \/ Transition(w)
      PROVE  IInv'
  BY <1>4, RegisterSqlInv, RegisterRedisInv, ExecuteInv, UnknownInv, RecordInv, RefusedInv,
     CompensateInv, CompensatedInv, TransitionInv
<1>5. CASE UNCHANGED vars
  BY <1>5, StutterInv
<1> QED BY <1>1, <1>2, <1>3, <1>4, <1>5 DEF Next

\* The inductive invariant of Workflow.
THEOREM WorkflowInvariant == Spec => []IInv
<1>1. Init => IInv
  BY InitInv
<1>2. IInv /\ [Next]_vars => IInv'
  BY NextInv
<1> QED BY <1>1, <1>2, PTL DEF Spec

\* Types, in all deployments: a run opens at most N branches, is told only what
\* branches returned, and never leaves the script of the code it runs.
THEOREM WorkflowTypeCorrect == Spec => []TypeOK
<1>1. ASSUME IInv PROVE TypeOK
  <2>1. Tables /\ ver \in [Workers -> deployment.versions] /\ wk \in [Workers -> WorkerState]
    BY <1>1 DEF IInv, Basic
  <2>2. ver \in [Workers -> Versions]
    BY <2>1, DeploymentsAssumption DEF Tables
  <2>3. ASSUME NEW w \in Workers
        PROVE  /\ wk[w].pc \in {"idle", "loop", "run", "register", "register_action", "execute",
                                "record", "refused", "call", "called", "transition"}
               /\ wk[w].st \in {"submitted", "aborting"}
               /\ wk[w].to \in {"none", "aborting", "succeed", "failed"}
               /\ wk[w].at \in 0 .. N
               /\ wk[w].seen \in Seq(Values) /\ Len(wk[w].seen) <= N
               /\ wk[w].recorded \in [Position -> Row]
               /\ wk[w].val \in Values \cup {"none"}
    <3>1. wk[w] \in WorkerState
      BY <2>1
    <3>2. wk[w].seen \in Results
      BY <3>1 DEF WorkerState
    <3> QED BY <3>1, <3>2 DEF WorkerState, Results, Running, Opening
  <2> QED BY <2>1, <2>2, <2>3 DEF TypeOK, Tables
<1> QED BY <1>1, WorkflowInvariant, PTL

\* A confirmed abort holds in all deployments, also when a lease runs out under
\* a run that goes on: transition compares the status a caller may change.
THEOREM WorkflowAbortHolds == Spec => AbortHolds
<1>1. ASSUME IInv, [Next]_vars PROVE [status = "aborting" => status' = "failed"]_status
  <2> SUFFICES ASSUME status = "aborting", status' # status PROVE status' = "failed"
    OBVIOUS
  <2>1. PICK w \in Workers : Transition(w)
    BY <1>1 DEF Next, Submit, Abort, ExecuteStray, Lock, Loop, Retry, Returns, AsksForRollback,
      Replay, RegisterSql, RegisterRedis, Execute, Refuse, Unknown, Record, Refused, Compensate,
      CompensateUnknown, Compensated, Crash, vars
  <2>2. wk[w].pc = "transition" /\ CanTransition(w) /\ status' = wk[w].to
    BY <2>1 DEF Transition
  <2>3. wk[w].st # "submitted"
    BY <1>1, <2>2, Compared
  <2> QED BY <1>1, <2>2, <2>3 DEF IInv, Basic, Follows
<1> QED BY <1>1, WorkflowInvariant, PTL DEF Spec, AbortHolds

\* The function is not changed under transactions in a Redis store.
OneVersionOnRedis ==
  \A d \in Deployments : d.store = "redis" => \A u, v \in d.versions : u = v

LEMMA WhenSettled ==
  ASSUME IInv, OneVersionOnRedis, ~deployment.overlap
  PROVE  Settled /\ Tables /\ Shared /\ \A w \in Workers : Careful(w) /\ Follows(w)
<1>1. Basic /\ Tables /\ deployment \in Deployments
  BY DEF IInv, Basic, Tables
<1>2. Settled
  BY <1>1 DEF Settled, OneVersionOnRedis
<1> QED BY <1>1, <1>2 DEF IInv, Basic

\* A workflow that is closed as failed has undone all that can be undone, and
\* calls still on their way find the barrier closed: whatever the function does
\* and wherever it dies, for every number of branches and versions.
THEOREM WorkflowFailedIsClean ==
  ASSUME OneVersionOnRedis PROVE Spec => []FailedIsClean
<1>1. ASSUME IInv PROVE FailedIsClean
  <2> SUFFICES ASSUME status = "failed", ~deployment.overlap, NEW b \in Undoable
               PROVE  /\ did[b]["action"] = did[b]["compensate"]
                      /\ b \in sent => rows[b] # {}
    BY DEF FailedIsClean, Clean
  <2>1. Tables /\ AllUndone /\ b \in Names
    BY <1>1, WhenSettled DEF Shared, FinalOK, Undoable
  <2>2. b \in sent => "compensate" \in rows[b]
    BY <2>1 DEF AllUndone
  <2>3. rows[b] \subseteq SagaOp
    BY <2>1 DEF Tables
  <2>4. rows[b] = {} \/ "compensate" \in rows[b]
    BY <2>1, <2>2, <2>3 DEF Tables, BarrierOK, SagaOp
  <2> QED BY <2>1, <2>2, <2>4 DEF Tables, BarrierOK
<1> QED BY <1>1, WorkflowInvariant, PTL

\* A workflow that succeeded took one path through one version of the function,
\* and every branch on it took effect once and was not undone.
THEOREM WorkflowSucceedIsWhole ==
  ASSUME OneVersionOnRedis PROVE Spec => []SucceedIsWhole
<1>1. ASSUME IInv PROVE SucceedIsWhole
  <2> SUFFICES ASSUME status = "succeed", ~deployment.overlap
               PROVE  \E v \in Versions : \E h \in DOMAIN Script[v] :
                        /\ Script[v][h] = End
                        /\ \A i \in 1 .. Len(h) :
                             LET b == Script[v][SubSeq(h, 1, i - 1)].name
                             IN did[b]["action"] = 1 /\ did[b]["compensate"] = 0
    BY DEF SucceedIsWhole
  <2>1. Tables /\ Whole /\ UndoneOK
    BY <1>1, WhenSettled DEF Shared, FinalOK
  <2>2. PICK v \in Versions : \E h \in DOMAIN Script[v] : Script[v][h] = End /\ PathDone(v, h)
    BY <2>1 DEF Whole
  <2>3. PICK h \in DOMAIN Script[v] : Script[v][h] = End /\ PathDone(v, h)
    BY <2>2
  <2>4. ASSUME NEW b \in Names, "action" \in rows[b]
        PROVE  did[b]["action"] = 1 /\ did[b]["compensate"] = 0
    <3>1. "compensate" \notin rows[b] /\ rows[b] \subseteq SagaOp
      BY <2>1 DEF UndoneOK, Tables
    <3>2. rows[b] = {"action"}
      BY <2>4, <3>1 DEF SagaOp
    <3> QED BY <2>1, <3>2 DEF Tables, BarrierOK
  <2>5. ASSUME NEW i \in 1 .. Len(h)
        PROVE  LET b == Script[v][SubSeq(h, 1, i - 1)].name
               IN did[b]["action"] = 1 /\ did[b]["compensate"] = 0
    BY <2>3, <2>4 DEF PathDone
  <2> QED BY <2>3, <2>5
<1> QED BY <1>1, WorkflowInvariant, PTL

\* A result on record is that of the branch it is recorded for, whatever code
\* replays it.
THEOREM WorkflowResultsAreOwn ==
  ASSUME OneVersionOnRedis PROVE Spec => []ResultsAreOwn
<1>1. ASSUME IInv PROVE ResultsAreOwn
  BY <1>1, WhenSettled DEF ResultsAreOwn, Shared, OwnOK
<1> QED BY <1>1, WorkflowInvariant, PTL

\* A result that was recorded stays: only the row of the branch that is being
\* opened is written, and that has none yet.
THEOREM WorkflowMemoised ==
  ASSUME OneVersionOnRedis PROVE Spec => Memoised
<1> DEFINE Keeps == ~deployment.overlap =>
                      \A i \in Position : act[i].st = "succeed" => act'[i] = act[i]
<1>1. ASSUME IInv, [Next]_vars PROVE Keeps
  <2> SUFFICES ASSUME ~deployment.overlap, NEW i \in Position, act[i].st = "succeed"
               PROVE  act'[i] = act[i]
    OBVIOUS
  <2>1. Settled /\ act \in [Position -> Row] /\ act[i] # NoRow
    BY <1>1, WhenSettled DEF Tables, NoRow
  <2>2. ASSUME NEW w \in Workers, RegisterSql(w) \/ RegisterRedis(w) PROVE act'[i] = act[i]
    <3>1. act' = act \/ act' = [act EXCEPT ![Here(w)] = Insert(w, @)]
      BY <2>2 DEF RegisterSql, RegisterRedis
    <3> QED BY <2>1, <3>1 DEF Insert
  <2>3. ASSUME NEW w \in Workers, Record(w) \/ Refused(w) PROVE act'[i] = act[i]
    <3>1. wk[w].pc \in Opening /\ wk[w].pc \in Running
      BY <2>3 DEF Record, Refused, Opening, Running
    <3>2. act[Here(w)].st # "succeed"
      BY <1>1, <2>1, <3>1, Knowledge DEF OpenOK
    <3>3. i # Here(w)
      BY <3>2
    <3> QED BY <2>1, <2>3, <3>3 DEF Record, Refused, SetBranchResult, SetBranchStatus
  <2>4. act' # act => \E w \in Workers : RegisterSql(w) \/ RegisterRedis(w) \/ Record(w) \/ Refused(w)
    BY <1>1 DEF Next, Submit, Abort, ExecuteStray, Lock, Loop, Retry, Returns, AsksForRollback,
      Replay, Execute, Refuse, Unknown, Compensate, CompensateUnknown, Compensated, Transition,
      Crash, vars, table
  <2> QED BY <2>2, <2>3, <2>4
<1>2. ASSUME Keeps PROVE [Keeps]_act
  BY <1>2
<1> QED BY <1>1, <1>2, WorkflowInvariant, PTL DEF Spec, Memoised

=============================================================================
