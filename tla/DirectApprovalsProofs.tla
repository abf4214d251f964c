------------------------- MODULE DirectApprovalsProofs -------------------------
(***************************************************************************)
(* Proofs about DirectApprovals, for every set of calls, every capacity and*)
(* every number of decisions and restarts.                                 *)
(***************************************************************************)
EXTENDS DirectApprovals, FiniteSetTheorems, TLAPS

USE DEF Enter, Decide

(***************************************************************************)
(* Types.                                                                  *)
(***************************************************************************)

LEMMA RecordType ==
  ASSUME TypeOK, NEW c \in Call, NEW event \in Event, Record(c, event)
  PROVE  log' \in [Call -> Seq(Event)]
<1>1. log[c] \in Seq(Event)
  BY DEF TypeOK
<1>2. Append(log[c], event) \in Seq(Event)
  BY <1>1
<1> QED BY <1>2 DEF TypeOK, Record

LEMMA TypeStep ==
  ASSUME TypeOK, [Next]_vars
  PROVE  TypeOK'
<1> USE DirectApprovalsAssumption DEF ApprovalState, Stage, Event
<1>1. CASE List
  BY <1>1 DEF TypeOK, List, Pruned
<1>2. CASE Restart
  BY <1>2 DEF TypeOK, Restart
<1>3. ASSUME NEW c \in Call, Execute(c)
      PROVE  TypeOK'
  BY <1>3, RecordType DEF TypeOK, Execute
<1>4. ASSUME NEW c \in Call, AwaitDecision(c)
      PROVE  TypeOK'
  <2>1. CASE Cardinality(Pruned) < Capacity
    <3>1. direct' \subseteq Call
      BY <1>4, <2>1 DEF TypeOK, AwaitDecision, Pruned
    <3>2. log' \in [Call -> Seq(Event)]
      BY <1>4, <2>1, RecordType DEF AwaitDecision
    <3> QED BY <1>4, <2>1, <3>1, <3>2 DEF TypeOK, AwaitDecision
  <2>2. CASE ~(Cardinality(Pruned) < Capacity)
    BY <1>4, <2>2 DEF TypeOK, AwaitDecision, Pruned
  <2> QED BY <2>1, <2>2
<1>5. ASSUME NEW c \in Call, CompleteAtOnce(c)
      PROVE  TypeOK'
  BY <1>5, RecordType DEF TypeOK, CompleteAtOnce
<1>6. ASSUME NEW c \in Call, Complete(c)
      PROVE  TypeOK'
  BY <1>6, RecordType DEF TypeOK, Complete
<1>7. ASSUME NEW c \in Call, Fail(c)
      PROVE  TypeOK'
  BY <1>7 DEF TypeOK, Fail
<1>8. ASSUME NEW c \in Call, Approve(c)
      PROVE  TypeOK'
  BY <1>8 DEF TypeOK, Approve, Pruned
<1>9. ASSUME NEW c \in Call, Deny(c)
      PROVE  TypeOK'
  <2>1. CASE c \in Pruned
    <3>1. direct' \subseteq Call
      BY <1>9, <2>1 DEF TypeOK, Deny, Pruned
    <3>2. log' \in [Call -> Seq(Event)]
      BY <1>9, <2>1, RecordType DEF Deny
    <3>3. store' \in [Call -> ApprovalState] /\ stage' \in [Call -> Stage]
      BY <1>9, <2>1 DEF TypeOK, Deny
    <3> QED BY <1>9, <3>1, <3>2, <3>3 DEF TypeOK, Deny
  <2>2. CASE c \notin Pruned
    BY <1>9, <2>2 DEF TypeOK, Deny, Pruned
  <2> QED BY <2>1, <2>2
<1>10. CASE UNCHANGED vars
  BY <1>10 DEF TypeOK, vars
<1> QED
  BY <1>1, <1>2, <1>3, <1>4, <1>5, <1>6, <1>7, <1>8, <1>9, <1>10
  DEF Next, ToolExecute, ApprovalAction

(* Every reachable state of the calls and of both their records is well    *)
(* typed.                                                                  *)
THEOREM TypeCorrect == Spec => []TypeOK
<1>1. Init => TypeOK
  BY DirectApprovalsAssumption DEF Init, TypeOK, ApprovalState, Stage
<1>2. TypeOK /\ [Next]_vars => TypeOK'
  BY TypeStep
<1> QED BY <1>1, <1>2, PTL DEF Spec

(***************************************************************************)
(* The store and _direct_pending.                                          *)
(***************************************************************************)

(* A call runs because it was granted; one that may be decided waits for   *)
(* the decision; until a restart all that wait may be decided.             *)
PendingInv ==
  /\ \A c \in Call : stage[c] = "running" => store[c] = "granted"
  /\ \A c \in Call : stage[c] \in {"idle", "evaluating"} => store[c] = "none" /\ c \notin direct
  /\ \A c \in direct : store[c] = "pending" => stage[c] = "awaiting"
  /\ PendingDecidable

LEMMA PendingStep ==
  ASSUME TypeOK, PendingInv, [Next]_vars
  PROVE  PendingInv'
<1> USE DEF PendingInv, PendingDecidable, ApprovalState, Stage
<1>1. CASE List
  BY <1>1 DEF TypeOK, List, Pruned
<1>2. CASE Restart
  BY <1>2 DEF TypeOK, Restart
<1>3. ASSUME NEW c \in Call, Execute(c)
      PROVE  PendingInv'
  BY <1>3 DEF TypeOK, Execute
<1>4. ASSUME NEW c \in Call, AwaitDecision(c)
      PROVE  PendingInv'
  <2>1. CASE Cardinality(Pruned) < Capacity
    <3>1. /\ direct' = Pruned \cup {c} /\ stage' = [stage EXCEPT ![c] = "awaiting"]
          /\ store' = [store EXCEPT ![c] = "pending"] /\ restarts' = restarts
      BY <1>4, <2>1 DEF AwaitDecision
    <3>2. store[c] = "none" /\ c \notin direct
      BY <1>4 DEF AwaitDecision
    <3>3. \A d \in Call \ {c} : stage'[d] = stage[d] /\ store'[d] = store[d]
      BY <3>1 DEF TypeOK
    <3>4. stage'[c] = "awaiting" /\ store'[c] = "pending" /\ c \in direct'
      BY <3>1 DEF TypeOK
    <3>5. \A d \in direct' \ {c} : d \in direct /\ store[d] = "pending"
      BY <3>1 DEF Pruned
    <3>6. \A d \in Call \ {c} : store[d] = "pending" /\ d \in direct => d \in direct'
      BY <3>1 DEF Pruned
    <3> QED BY <3>1, <3>3, <3>4, <3>5, <3>6 DEF TypeOK
  <2>2. CASE ~(Cardinality(Pruned) < Capacity)
    <3>1. /\ direct' = Pruned /\ stage' = [stage EXCEPT ![c] = "refused"]
          /\ store' = store /\ restarts' = restarts
      BY <1>4, <2>2 DEF AwaitDecision
    <3>2. c \notin direct
      BY <1>4 DEF AwaitDecision
    <3>3. \A d \in Call \ {c} : stage'[d] = stage[d]
      BY <3>1 DEF TypeOK
    <3>4. stage'[c] = "refused"
      BY <3>1 DEF TypeOK
    <3>5. \A d \in Call : d \in direct' <=> d \in direct /\ store[d] = "pending"
      BY <3>1 DEF Pruned, TypeOK
    <3>6. direct' \subseteq Call
      BY <3>1 DEF Pruned, TypeOK
    <3> QED BY <3>1, <3>2, <3>3, <3>4, <3>5, <3>6
  <2> QED BY <2>1, <2>2
<1>5. ASSUME NEW c \in Call, CompleteAtOnce(c)
      PROVE  PendingInv'
  BY <1>5 DEF TypeOK, CompleteAtOnce
<1>6. ASSUME NEW c \in Call, Complete(c)
      PROVE  PendingInv'
  BY <1>6 DEF TypeOK, Complete
<1>7. ASSUME NEW c \in Call, Fail(c)
      PROVE  PendingInv'
  BY <1>7 DEF TypeOK, Fail
<1>8. ASSUME NEW c \in Call, Approve(c)
      PROVE  PendingInv'
  BY <1>8 DEF TypeOK, Approve, Pruned
<1>9. ASSUME NEW c \in Call, Deny(c)
      PROVE  PendingInv'
  BY <1>9 DEF TypeOK, Deny, Pruned
<1>10. CASE UNCHANGED vars
  BY <1>10 DEF TypeOK, vars
<1> QED
  BY <1>1, <1>2, <1>3, <1>4, <1>5, <1>6, <1>7, <1>8, <1>9, <1>10
  DEF Next, ToolExecute, ApprovalAction

LEMMA PendingAlways == Spec => []PendingInv
<1>1. Init => PendingInv
  BY DEF Init, PendingInv, PendingDecidable
<1>2. TypeOK /\ PendingInv /\ [Next]_vars => PendingInv'
  BY PendingStep
<1> QED BY <1>1, <1>2, TypeCorrect, PTL DEF Spec

(* README of the runtime, "PENDING approvals have no wall-clock timeout and*)
(* are not evicted": what waits in the store can be decided, whatever      *)
(* prunes _direct_pending, until the daemon restarts.                      *)
THEOREM Decidable == Spec => []PendingDecidable
<1>1. PendingInv => PendingDecidable
  BY DEF PendingInv
<1> QED BY <1>1, PendingAlways, PTL

(* A call is refused only when Capacity calls wait for a decision: calls   *)
(* that run or have failed hold no place.                                  *)
THEOREM Backpressure ==
  ASSUME IsFiniteSet(Call)
  PROVE  Spec => RefusedOnlyWhenFull
<1> DEFINE Waiting == {d \in Call : stage[d] = "awaiting" /\ store[d] = "pending"}
<1>1. ASSUME TypeOK, PendingInv, [Next]_vars,
             NEW c \in Call, stage[c] = "evaluating", stage'[c] = "refused"
      PROVE  Cardinality(Waiting) >= Capacity
  <2>1. AwaitDecision(c) /\ ~(Cardinality(Pruned) < Capacity)
    <3>1. PICK d \in Call : AwaitDecision(d)
      BY <1>1 DEF TypeOK, Next, vars, List, Restart, ToolExecute, ApprovalAction, Execute,
                  CompleteAtOnce, Complete, Fail, Approve, Deny
    <3> QED BY <1>1, <3>1 DEF AwaitDecision, TypeOK
  <2>2. IsFiniteSet(Waiting)
    BY FS_Subset
  <2>3. Pruned \subseteq Waiting
    BY <1>1 DEF Pruned, PendingInv, TypeOK
  <2>4. Cardinality(Pruned) <= Cardinality(Waiting)
    BY <2>2, <2>3, FS_Subset
  <2>5. Cardinality(Pruned) \in Nat /\ Cardinality(Waiting) \in Nat
    BY <2>2, <2>3, FS_Subset, FS_CardinalityType
  <2> QED BY <2>1, <2>4, <2>5, DirectApprovalsAssumption
<1>2. TypeOK /\ PendingInv /\ [Next]_vars =>
        [\A c \in Call : stage[c] = "evaluating" /\ stage'[c] = "refused" =>
           Cardinality({d \in Call : stage[d] = "awaiting" /\ store[d] = "pending"}) >= Capacity]_vars
  BY <1>1
<1> QED BY <1>2, TypeCorrect, PendingAlways, PTL DEF Spec, RefusedOnlyWhenFull

(***************************************************************************)
(* Outcomes.                                                               *)
(***************************************************************************)

Outcomes(c) == {i \in DOMAIN log[c] : log[c][i] \in {"ToolCompleted", "ToolDenied"}}

(* A call that has not ended has no outcome; one that was denied has ended.*)
OutcomeOf(c) ==
  /\ stage[c] \in {"idle", "evaluating", "awaiting", "running"} => Outcomes(c) = {}
  /\ \A i, j \in Outcomes(c) : i = j
  /\ \A i \in Outcomes(c) :
       log[c][i] = "ToolDenied" => store[c] = "denied" /\ stage[c] = "done"

OutcomeInv == \A c \in Call : OutcomeOf(c)

(* What a recorded event adds to the outcomes                              *)
LEMMA RecordOutcome ==
  ASSUME TypeOK, NEW c \in Call, NEW event \in Event, Record(c, event)
  PROVE  LET n == Len(log[c]) + 1 IN
         /\ \A i \in Outcomes(c) : log'[c][i] = log[c][i]
         /\ log'[c][n] = event
         /\ Outcomes(c)' = IF event \in {"ToolCompleted", "ToolDenied"}
                           THEN Outcomes(c) \cup {n} ELSE Outcomes(c)
         /\ \A d \in Call \ {c} : log'[d] = log[d]
<1> DEFINE n == Len(log[c]) + 1
<1>1. log[c] \in Seq(Event) /\ log' = [log EXCEPT ![c] = Append(@, event)]
  BY DEF TypeOK, Record
<1>2. log'[c] = Append(log[c], event)
  BY <1>1 DEF TypeOK
<1>3. /\ DOMAIN log[c] = 1..Len(log[c]) /\ Len(log[c]) \in Nat
      /\ DOMAIN log'[c] = 1..n
      /\ log'[c][n] = event
      /\ \A i \in 1..Len(log[c]) : log'[c][i] = log[c][i]
  BY <1>1, <1>2
<1>4. Outcomes(c)' = IF event \in {"ToolCompleted", "ToolDenied"}
                     THEN Outcomes(c) \cup {n} ELSE Outcomes(c)
  BY <1>3 DEF Outcomes
<1> QED BY <1>1, <1>3, <1>4 DEF Outcomes, TypeOK

(* A call whose log stays is judged as before when its stage goes on, or   *)
(* ends without an outcome.                                                *)
LEMMA OutcomeKept ==
  ASSUME NEW c \in Call, OutcomeOf(c), log'[c] = log[c],
         store'[c] = store[c] \/ store[c] = "none" \/ store[c] = "pending",
         stage'[c] = stage[c] \/ stage[c] \in {"idle", "evaluating", "awaiting", "running"}
  PROVE  OutcomeOf(c)'
<1>1. Outcomes(c)' = Outcomes(c)
  BY DEF Outcomes
<1>2. CASE stage[c] \in {"idle", "evaluating", "awaiting", "running"}
  BY <1>1, <1>2 DEF OutcomeOf
<1>3. CASE stage[c] \notin {"idle", "evaluating", "awaiting", "running"}
  BY <1>1, <1>3 DEF OutcomeOf
<1> QED BY <1>2, <1>3

LEMMA OutcomeStep ==
  ASSUME TypeOK, PendingInv, OutcomeInv, [Next]_vars
  PROVE  OutcomeInv'
<1> USE DEF OutcomeInv
<1>1. CASE List
  BY <1>1, OutcomeKept DEF List
<1>2. CASE Restart
  <2>1. \A c \in Call : stage'[c] = stage[c] \/ stage[c] \in {"evaluating", "awaiting", "running"}
    BY <1>2 DEF Restart
  <2> QED BY <1>2, <2>1, OutcomeKept DEF Restart
<1>3. ASSUME NEW c \in Call, NEW event \in {"ToolStarted", "ApprovalRequired"}, Record(c, event),
             stage[c] \in {"idle", "evaluating"}, stage' = [stage EXCEPT ![c] = stage'[c]],
             stage'[c] \in {"evaluating", "awaiting"},
             \A d \in Call \ {c} : store'[d] = store[d]
      PROVE  OutcomeInv'
  <2>1. Outcomes(c)' = Outcomes(c) /\ Outcomes(c) = {} /\ \A d \in Call \ {c} : log'[d] = log[d]
    BY <1>3, RecordOutcome DEF Event, OutcomeOf
  <2>2. OutcomeOf(c)'
    BY <2>1 DEF OutcomeOf
  <2>3. \A d \in Call \ {c} : OutcomeOf(d)'
    BY <1>3, <2>1, OutcomeKept DEF TypeOK
  <2> QED BY <2>2, <2>3
<1>4. ASSUME NEW c \in Call, Execute(c)
      PROVE  OutcomeInv'
  BY <1>3, <1>4 DEF Execute, TypeOK
<1>5. ASSUME NEW c \in Call, AwaitDecision(c)
      PROVE  OutcomeInv'
  <2>1. CASE Cardinality(Pruned) < Capacity
    BY <1>3, <1>5, <2>1 DEF AwaitDecision, TypeOK
  <2>2. CASE ~(Cardinality(Pruned) < Capacity)
    BY <1>5, <2>2, OutcomeKept DEF AwaitDecision, TypeOK
  <2> QED BY <2>1, <2>2
<1>6. ASSUME NEW c \in Call, NEW event \in {"ToolCompleted", "ToolDenied"}, Record(c, event),
             stage[c] \in {"evaluating", "awaiting", "running"},
             stage' = [stage EXCEPT ![c] = "done"],
             event = "ToolDenied" => store'[c] = "denied",
             \A d \in Call \ {c} : store'[d] = store[d]
      PROVE  OutcomeInv'
  <2>1. /\ Outcomes(c)' = {Len(log[c]) + 1} /\ log'[c][Len(log[c]) + 1] = event
        /\ \A d \in Call \ {c} : log'[d] = log[d]
    BY <1>6, RecordOutcome DEF Event, OutcomeOf
  <2>2. stage'[c] = "done"
    BY <1>6 DEF TypeOK
  <2>3. OutcomeOf(c)'
    BY <1>6, <2>1, <2>2 DEF OutcomeOf
  <2>4. \A d \in Call \ {c} : OutcomeOf(d)'
    BY <1>6, <2>1, OutcomeKept DEF TypeOK
  <2> QED BY <2>3, <2>4
<1>7. ASSUME NEW c \in Call, CompleteAtOnce(c) \/ Complete(c)
      PROVE  OutcomeInv'
  BY <1>6, <1>7 DEF CompleteAtOnce, Complete
<1>8. ASSUME NEW c \in Call, Fail(c)
      PROVE  OutcomeInv'
  BY <1>8, OutcomeKept DEF Fail, TypeOK
<1>9. ASSUME NEW c \in Call, c \in Pruned
      PROVE  store[c] = "pending" /\ stage[c] = "awaiting"
  BY <1>9 DEF Pruned, PendingInv
<1>10. ASSUME NEW c \in Call, Approve(c)
       PROVE  OutcomeInv'
  <2>1. CASE c \in Pruned
    BY <1>9, <1>10, <2>1, OutcomeKept DEF Approve, TypeOK
  <2>2. CASE c \notin Pruned
    BY <1>10, <2>2, OutcomeKept DEF Approve, TypeOK
  <2> QED BY <2>1, <2>2
<1>11. ASSUME NEW c \in Call, Deny(c)
       PROVE  OutcomeInv'
  <2>1. CASE c \in Pruned
    <3>1. /\ Record(c, "ToolDenied") /\ stage' = [stage EXCEPT ![c] = "done"]
          /\ store' = [store EXCEPT ![c] = "denied"]
      BY <1>9, <1>11, <2>1 DEF Deny
    <3> QED BY <1>6, <1>9, <2>1, <3>1 DEF TypeOK
  <2>2. CASE c \notin Pruned
    BY <1>11, <2>2, OutcomeKept DEF Deny
  <2> QED BY <2>1, <2>2
<1>12. CASE UNCHANGED vars
  BY <1>12, OutcomeKept DEF vars
<1> QED
  BY <1>1, <1>2, <1>4, <1>5, <1>7, <1>8, <1>10, <1>11, <1>12
  DEF Next, ToolExecute, ApprovalAction

(* A call has one outcome at most, and one that is shown as denied was     *)
(* never run, however many surfaces decide, and in whatever order with     *)
(* completions, failures, listings and restarts.                           *)
THEOREM Outcome == Spec => []OneOutcome
<1>1. Init => OutcomeInv
  BY DEF Init, OutcomeInv, OutcomeOf, Outcomes
<1>2. TypeOK /\ PendingInv /\ OutcomeInv /\ [Next]_vars => OutcomeInv'
  BY OutcomeStep
<1>3. OutcomeInv => OneOutcome
  BY DEF OutcomeInv, OutcomeOf, Outcomes, OneOutcome
<1> QED BY <1>1, <1>2, <1>3, TypeCorrect, PendingAlways, PTL DEF Spec
=============================================================================
