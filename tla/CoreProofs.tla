----------------------------- MODULE CoreProofs -----------------------------
(***************************************************************************)
(* What the decision functions of Core return, for vectors of any length.  *)
(***************************************************************************)
EXTENDS Core, TLAPS, WellFoundedInduction

\* First really is the least element: the forward scans of the decision
\* functions stop at the first branch they are looking for.
LEMMA FirstIsLeast ==
  ASSUME NEW S \in SUBSET Nat, S # {}
  PROVE  First(S) \in S /\ \A j \in S : First(S) <= j
<1> DEFINE R == {ss \in Nat \X Nat : ss[1] < ss[2]}
<1>1. PICK x \in S : \A y \in S : ~ (<<y, x>> \in R)
  <2>1. IsWellFoundedOn(R, Nat)
    BY NatLessThanWellFounded DEF OpToRel
  <2> HIDE DEF R
  <2> QED BY <2>1, WFMin
<1>2. ASSUME NEW y \in S PROVE x <= y
  <2>1. ~ (<<y, x>> \in R)
    BY <1>1
  <2>2. ~ (y < x)
    BY <2>1
  <2> QED BY <2>2
<1> QED BY <1>2 DEF First

\* Last really is the greatest element, for the backward scans.
LEMMA LastIsGreatest ==
  ASSUME NEW n \in Nat, NEW S \in SUBSET (1 .. n), S # {}
  PROVE  Last(S) \in S /\ \A j \in S : j <= Last(S)
<1> DEFINE T == {n - i : i \in S}
<1>1. \A t \in T : t \in Nat
  OBVIOUS
<1>2. T # {}
  <2>1. PICK i \in S : TRUE
    OBVIOUS
  <2>2. n - i \in T
    BY <2>1
  <2> QED BY <2>2
<1>3. First(T) \in T /\ \A t \in T : First(T) <= t
  <2> HIDE DEF T
  <2> QED BY <1>1, <1>2, FirstIsLeast
<1>4. PICK m \in S : First(T) = n - m
  BY <1>3
<1>5. \A j \in S : j <= m
  <2> TAKE j \in S
  <2>1. n - m <= n - j
    BY <1>3, <1>4
  <2> QED BY <2>1
<1> QED BY <1>5 DEF Last

\* The forward half of saga_advance commits only when every action is marked
\* succeed, and calls an action only when all earlier ones are.
LEMMA SagaForwardCases ==
  ASSUME NEW n \in Nat, NEW a \in [1 .. n -> BranchStatus]
  PROVE  \/ SagaForward(a) = Finish("succeed") /\ \A i \in 1 .. n : a[i] = "succeed"
         \/ SagaForward(a) = Finish("aborting") /\ \E i \in 1 .. n : a[i] = "failed"
         \/ \E i \in 1 .. n : /\ SagaForward(a) = Call("action", i)
                              /\ \A j \in 1 .. n : j < i => a[j] = "succeed"
<1> DEFINE open == {i \in 1 .. n : a[i] # "succeed"}
<1>1. open = {i \in DOMAIN a : a[i] # "succeed"}
  OBVIOUS
<1>2. CASE open = {}
  BY <1>1, <1>2 DEF SagaForward
<1>3. CASE open # {}
  <2>1. First(open) \in open /\ \A j \in open : First(open) <= j
    <3>1. open \in SUBSET Nat
      OBVIOUS
    <3> HIDE DEF open
    <3> QED BY <1>3, <3>1, FirstIsLeast
  <2>2. \A j \in 1 .. n : j < First(open) => a[j] = "succeed"
    BY <2>1
  <2>3. \/ SagaForward(a) = Finish("aborting") /\ a[First(open)] = "failed"
        \/ SagaForward(a) = Call("action", First(open))
    BY <1>1, <1>3 DEF SagaForward
  <2> QED BY <2>1, <2>2, <2>3
<1> QED BY <1>2, <1>3

\* The backward half closes the transaction only when no compensation is
\* marked prepared, and calls one only when no later one is.
LEMMA SagaBackwardCases ==
  ASSUME NEW n \in Nat, NEW c \in [1 .. n -> BranchStatus]
  PROVE  \/ SagaBackward(c) = Finish("failed") /\ \A i \in 1 .. n : c[i] # "prepared"
         \/ \E i \in 1 .. n : /\ SagaBackward(c) = Call("compensate", i)
                              /\ \A j \in 1 .. n : i < j => c[j] # "prepared"
<1> DEFINE open == {i \in 1 .. n : c[i] = "prepared"}
<1>1. open = {i \in DOMAIN c : c[i] = "prepared"}
  OBVIOUS
<1>2. CASE open = {}
  BY <1>1, <1>2 DEF SagaBackward
<1>3. CASE open # {}
  <2>1. Last(open) \in open /\ \A j \in open : j <= Last(open)
    BY <1>3, LastIsGreatest
  <2>2. \A j \in 1 .. n : Last(open) < j => c[j] # "prepared"
    BY <2>1
  <2>3. SagaBackward(c) = Call("compensate", Last(open))
    BY <1>1, <1>3 DEF SagaBackward
  <2> QED BY <2>1, <2>2, <2>3
<1> QED BY <1>2, <1>3

\* The two-phase modes end only when every branch of the direction is marked
\* succeed, and otherwise call one of the branches they have read, in the
\* direction of the status they were given.
LEMMA TwoPhaseAdvanceCases ==
  ASSUME NEW n \in Nat, NEW f \in [1 .. n -> BranchStatus],
         NEW b \in [1 .. n -> BranchStatus], NEW goOp, NEW undoOp,
         NEW s \in {"submitted", "aborting"}
  PROVE  LET d == TwoPhaseAdvance(s, f, b, goOp, undoOp) IN
         \/ /\ s = "submitted" /\ d = Finish("succeed")
            /\ \A i \in 1 .. n : f[i] = "succeed"
         \/ s = "submitted" /\ \E i \in 1 .. n : d = Call(goOp, i)
         \/ /\ s = "aborting" /\ d = Finish("failed")
            /\ \A i \in 1 .. n : b[i] = "succeed"
         \/ s = "aborting" /\ \E i \in 1 .. n : d = Call(undoOp, i)
<1> DEFINE go == {i \in 1 .. n : f[i] # "succeed"}
           undo == {i \in 1 .. n : b[i] # "succeed"}
<1>1. /\ go = {i \in DOMAIN f : f[i] # "succeed"}
      /\ undo = {i \in DOMAIN b : b[i] # "succeed"}
  OBVIOUS
<1>2. CASE s = "submitted"
  <2>1. CASE go = {}
    BY <1>1, <1>2, <2>1 DEF TwoPhaseAdvance
  <2>2. CASE go # {}
    <3>1. First(go) \in 1 .. n
      <4>1. go \in SUBSET Nat /\ go \subseteq 1 .. n
        OBVIOUS
      <4> HIDE DEF go
      <4> QED BY <2>2, <4>1, FirstIsLeast
    <3> QED BY <1>1, <1>2, <2>2, <3>1 DEF TwoPhaseAdvance
  <2> QED BY <2>1, <2>2
<1>3. CASE s = "aborting"
  <2>1. CASE undo = {}
    BY <1>1, <1>3, <2>1 DEF TwoPhaseAdvance
  <2>2. CASE undo # {}
    <3>1. Last(undo) \in 1 .. n
      <4>1. undo \in SUBSET (1 .. n)
        OBVIOUS
      <4> HIDE DEF undo
      <4> QED BY <2>2, <4>1, LastIsGreatest
    <3> QED BY <1>1, <1>3, <2>2, <3>1 DEF TwoPhaseAdvance
  <2> QED BY <2>1, <2>2
<1> QED BY <1>2, <1>3

\* The fan-out of a message calls only open branches of the first step that
\* has any, and ends as a success only when none is open.
LEMMA MsgFanoutAdvanceCases ==
  ASSUME NEW branches, NEW done, \A b \in branches : b[1] \in Nat,
         NEW s \in {"submitted", "aborting"}
  PROVE  LET d == MsgFanoutAdvance(s, branches, done) IN
         \/ /\ s = "submitted" /\ d = [each |-> {}, to |-> "succeed"]
            /\ branches \subseteq done
         \/ /\ s = "submitted" /\ d.each # {} /\ d.each \subseteq branches
            /\ \A b \in branches \ done, c \in d.each : ~(b[1] < c[1])
         \/ s = "aborting" /\ d = [each |-> {}, to |-> "failed"]
<1> DEFINE open == branches \ done
           steps == {b[1] : b \in open}
           step == First(steps)
<1>1. CASE s = "aborting"
  BY <1>1 DEF MsgFanoutAdvance
<1>2. CASE s = "submitted" /\ open = {}
  BY <1>2 DEF MsgFanoutAdvance
<1>3. CASE s = "submitted" /\ open # {}
  <2>1. steps \in SUBSET Nat /\ steps # {}
    BY <1>3
  <2>2. step \in steps /\ \A j \in steps : step <= j
    <3> HIDE DEF steps
    <3> QED BY <2>1, FirstIsLeast
  <2>3. MsgFanoutAdvance(s, branches, done) =
          [each |-> {b \in open : b[1] = step}, to |-> "none"]
    BY <1>3 DEF MsgFanoutAdvance
  <2>4. PICK b \in open : b[1] = step
    BY <2>2
  <2>5. \A c \in open : ~(c[1] < step)
    <3> TAKE c \in open
    <3>1. c[1] \in steps /\ c[1] \in Nat /\ step \in Nat
      BY <2>2
    <3>2. step <= c[1]
      BY <2>2, <3>1
    <3> HIDE DEF step
    <3> QED BY <3>1, <3>2
  <2> HIDE DEF step, steps
  <2> QED BY <1>3, <2>3, <2>4, <2>5
<1> QED BY <1>1, <1>2, <1>3

\* A workflow is run forwards; backwards a compensation that is not yet a
\* success is called, and the end is reached when there is none.
LEMMA WorkflowAdvanceCases ==
  ASSUME NEW n \in Nat, NEW c, DOMAIN c = 1 .. n, NEW s \in {"submitted", "aborting"}
  PROVE  LET d == WorkflowAdvance(s, c) IN
         \/ s = "submitted" /\ d = RunWorkflow
         \/ s = "aborting" /\ d = Finish("failed") /\ \A i \in 1 .. n : c[i] = "succeed"
         \/ /\ s = "aborting"
            /\ \E i \in 1 .. n : d = Call("compensate", i) /\ c[i] # "succeed"
<1> DEFINE undo == {i \in 1 .. n : c[i] # "succeed"}
<1>1. undo = {i \in DOMAIN c : c[i] # "succeed"}
  OBVIOUS
<1>2. CASE s = "submitted"
  BY <1>2 DEF WorkflowAdvance
<1>3. CASE s = "aborting" /\ undo = {}
  <2>1. WorkflowAdvance(s, c) = Finish("failed")
    BY <1>1, <1>3 DEF WorkflowAdvance
  <2> QED BY <1>3, <2>1
<1>4. CASE s = "aborting" /\ undo # {}
  <2>1. WorkflowAdvance(s, c) = Call("compensate", Last(undo))
    BY <1>1, <1>4 DEF WorkflowAdvance
  <2>2. Last(undo) \in undo
    <3>1. undo \in SUBSET (1 .. n)
      OBVIOUS
    <3> HIDE DEF undo
    <3> QED BY <1>4, <3>1, LastIsGreatest
  <2> QED BY <1>4, <2>1, <2>2
<1> QED BY <1>2, <1>3, <1>4

=============================================================================
