--------------------------- MODULE DaemonTurnsProofs ---------------------------
(***************************************************************************)
(* Proofs about DaemonTurns, for every set of turns and sessions and every *)
(* bound.                                                                  *)
(***************************************************************************)
EXTENDS DaemonTurns, NaturalsInduction, WellFoundedInduction, SequenceTheorems, TLAPS

(* A set of naturals that is not empty has a least element.                *)
LEMMA LeastElement ==
  ASSUME NEW S \in SUBSET Nat, S # {}
  PROVE  \E r \in S : \A q \in S : r <= q
<1>1. IsWellFoundedOn(OpToRel(<, Nat), Nat)
  BY NatLessThanWellFounded
<1>2. PICK r \in S : \A q \in S : ~(<<q, r>> \in OpToRel(<, Nat))
  BY <1>1, WFMin
<1>3. \A q \in S : ~(q < r)
  BY <1>2 DEF OpToRel
<1> QED BY <1>3

(* The run a cancellation is filed under is a number.                      *)
LEMMA CancelledRunType ==
  ASSUME TypeOK, NEW t \in Turn
  PROVE  CancelledRun(t) \in Nat
<1>1. SessionOf[t] \in Session
  BY DaemonTurnsAssumption
<1>a. tasks[SessionOf[t]] \in Seq(Task)
  BY <1>1 DEF TypeOK
<1>b. \A i \in DOMAIN tasks[SessionOf[t]] : tasks[SessionOf[t]][i] \in Task
  BY <1>a
<1>2. \A i \in DOMAIN tasks[SessionOf[t]] : tasks[SessionOf[t]][i].run \in Nat
  BY <1>b DEF Task
<1>3. RunsInLine(t) \in SUBSET Nat
  BY <1>2 DEF RunsInLine
<1>4. CASE RunsInLine(t) # {}
  BY <1>3, <1>4, LeastElement DEF CancelledRun
<1> QED BY <1>4 DEF CancelledRun

(* The row a cancellation or a denial records.                             *)
LEMMA CancelRowType ==
  ASSUME TypeOK, NEW t \in Turn, NEW by \in {"cancel", "deny"}
  PROVE  CancelRow(t, by) \in Row
BY CancelledRunType DEF CancelRow, Row, EventKind, Critical, Terminal

(* The task that holds a lock, and the tasks behind it.                    *)
LEMMA HolderType ==
  ASSUME TypeOK, NEW s \in Session, tasks[s] # <<>>
  PROVE  /\ Holder(s) \in Task
         /\ Holder(s).turn \in Turn
         /\ Holder(s) = tasks[s][1]
         /\ Tail(tasks[s]) \in Seq(Task)
<1>1. tasks[s] \in Seq(Task)
  BY DEF TypeOK
<1>2. Holder(s) \in Task /\ Tail(tasks[s]) \in Seq(Task) /\ Holder(s) = tasks[s][1]
  BY <1>1, HeadTailProperties DEF Holder
<1> QED BY <1>2 DEF Task

(* The rows a task adds to the log.                                        *)
LEMMA RowsType ==
  ASSUME TypeOK, NEW s \in Session, tasks[s] # <<>>, NEW kind \in EventKind
  PROVE  /\ EventRow(Holder(s), kind) \in Row
         /\ PendingRows(s) \in Seq(Row)
         /\ log[s] \o PendingRows(s) \in Seq(Row)
         /\ Append(log[s] \o PendingRows(s), EventRow(Holder(s), kind)) \in Seq(Row)
<1>1. Holder(s) \in Task
  BY HolderType
<1>2. \A k \in EventKind : EventRow(Holder(s), k) \in Row
  BY <1>1 DEF EventRow, Row, Task
<1>3. "Progress" \in EventKind
  BY DEF EventKind
<1>4. PendingRows(s) \in Seq(Row)
  <2>1. pending[s] \in Nat
    BY DEF TypeOK
  <2>2. PendingRows(s) = [i \in 1..pending[s] |-> EventRow(Holder(s), "Progress")]
    BY DEF PendingRows, Holder
  <2> QED BY <2>1, <2>2, <1>2, <1>3
<1>5. log[s] \in Seq(Row)
  BY DEF TypeOK
<1>6. log[s] \o PendingRows(s) \in Seq(Row)
  BY <1>4, <1>5
<1> QED BY <1>2, <1>4, <1>6, AppendProperties

(* A new task goes to the end of its session's line.                       *)
LEMMA CreateTaskType ==
  ASSUME TypeOK, NEW t \in Turn, NEW kind \in {"execute", "continue"},
         CreateTask(t, kind)
  PROVE  /\ tasks' \in [Session -> Seq(Task)]
         /\ runs' \in [Turn -> Nat]
<1>1. SessionOf[t] \in Session
  BY DaemonTurnsAssumption
<1>2. runs[t] \in Nat /\ runs \in [Turn -> Nat]
  BY DEF TypeOK
<1>3. [turn |-> t, kind |-> kind, run |-> runs[t] + 1] \in Task
  BY <1>2 DEF Task
<1>4. tasks \in [Session -> Seq(Task)]
  BY DEF TypeOK
<1>5. Append(tasks[SessionOf[t]], [turn |-> t, kind |-> kind, run |-> runs[t] + 1])
        \in Seq(Task)
  BY <1>1, <1>3, <1>4, AppendProperties
<1>6. tasks' \in [Session -> Seq(Task)]
  BY <1>1, <1>4, <1>5 DEF CreateTask
<1>7. runs' \in [Turn -> Nat]
  BY <1>2 DEF CreateTask
<1> QED BY <1>6, <1>7

(* What the kernel's stream changes when it yields.                        *)
LEMMA KernelYieldsType ==
  ASSUME TypeOK, NEW s \in Session, tasks[s] # <<>>, NEW kind \in EventKind,
         KernelYields(s, kind)
  PROVE  /\ progress' \in [Session -> Nat]
         /\ stage' \in [Session -> Stage]
         /\ approval' \in [Turn -> ApprovalState]
<1>1. progress' \in [Session -> Nat]
  BY DEF TypeOK, KernelYields
<1>2. stage' \in [Session -> Stage]
  BY DEF TypeOK, KernelYields, Stage
<1>3. approval' \in [Turn -> ApprovalState]
  BY DEF TypeOK, KernelYields, Register, ApprovalState
<1> QED BY <1>1, <1>2, <1>3

(* A stream that ends early may leave an approval request behind.          *)
LEMMA EarlyEnd ==
  ASSUME TypeOK, NEW s \in Session, tasks[s] # <<>>, Exhaust(s)
  PROVE  /\ approval' \in [Turn -> ApprovalState]
         /\ \A t \in Turn : t # Holder(s).turn => approval'[t] = approval[t]
         /\ \/ UNCHANGED approval
            \/ /\ stage[s] = "streaming"
               /\ \/ approval'[Holder(s).turn] = "withdrawn"
                  \/ Holder(s).turn \notin cancelled /\ Holder(s).turn \in cut'
<1>1. Holder(s).turn \in Turn
  BY HolderType
<1>2. approval \in [Turn -> ApprovalState]
  BY DEF TypeOK
<1>3. CASE UNCHANGED approval
  BY <1>2, <1>3
<1>4. CASE RequestLost(s)
  <2>1. /\ stage[s] = "streaming"
        /\ approval' = [approval EXCEPT ![Holder(s).turn] =
                          IF Holder(s).turn \in cancelled THEN "withdrawn" ELSE "pending"]
    BY <1>4 DEF RequestLost, Register
  <2>2. Holder(s).turn \in cancelled \/ Holder(s).turn \in cut'
    BY <2>1 DEF Exhaust
  <2> QED BY <1>1, <1>2, <2>1, <2>2 DEF ApprovalState
<1> QED BY <1>3, <1>4 DEF Exhaust

(* What the end of a task changes.                                         *)
LEMMA ReleaseType ==
  ASSUME TypeOK, NEW s \in Session, tasks[s] # <<>>, Release(s)
  PROVE  /\ tasks' \in [Session -> Seq(Task)]
         /\ stage' \in [Session -> Stage]
         /\ pending' \in [Session -> Nat]
         /\ paused' \in [Session -> BOOLEAN]
         /\ progress' \in [Session -> Nat]
<1>1. Tail(tasks[s]) \in Seq(Task)
  BY HolderType
<1>2. tasks' \in [Session -> Seq(Task)]
  BY <1>1 DEF TypeOK, Release
<1> QED BY <1>2 DEF TypeOK, Release, Stage

(* What a stored message is.                                               *)
LEMMA MessageType ==
  ASSUME TypeOK, NEW s \in Session, tasks[s] # <<>>,
         NEW role \in {"user", "assistant"}, Save(s, role)
  PROVE  messages' \in [Session -> Seq(Message)]
<1>1. [turn |-> Holder(s).turn, role |-> role] \in Message
  BY HolderType DEF Message
<1>2. messages \in [Session -> Seq(Message)]
  BY DEF TypeOK
<1>3. Append(messages[s], [turn |-> Holder(s).turn, role |-> role]) \in Seq(Message)
  BY <1>1, <1>2, AppendProperties
<1> QED BY <1>2, <1>3 DEF Save

(* What the end of a task leaves of the tables of turns.                   *)
LEMMA FinishType ==
  ASSUME TypeOK, NEW s \in Session, tasks[s] # <<>>, Finish(s)
  PROVE  active' \subseteq Turn /\ cancelled' \subseteq Turn
BY DEF Finish, TypeOK

-----------------------------------------------------------------------------
(* Type correctness: every step of every action keeps the tables, the task *)
(* queues, the log and the transcript well formed.                         *)
LEMMA TypeInit == Init => TypeOK
<1> SUFFICES ASSUME Init PROVE TypeOK
  OBVIOUS
<1>1. /\ tasks \in [Session -> Seq(Task)]
      /\ log \in [Session -> Seq(Row)]
      /\ messages \in [Session -> Seq(Message)]
  BY DEF Init
<1> QED BY <1>1 DEF Init, TypeOK, Stage, ApprovalState

LEMMA TypeBegin ==
  ASSUME TypeOK, NEW s \in Session, Begin(s)
  PROVE  TypeOK'
<1>1. CASE BeginExecute(s)
  <2>1. messages' \in [Session -> Seq(Message)]
    BY <1>1, MessageType DEF BeginExecute, TypeOK
  <2>2. stage' \in [Session -> Stage]
    BY <1>1 DEF BeginExecute, TypeOK, Stage
  <2> QED BY <1>1, <2>1, <2>2 DEF BeginExecute, TypeOK
<1>2. CASE BeginContinue(s)
  <2>1. Holder(s).turn \in Turn
    BY <1>2, HolderType DEF BeginContinue
  <2>2. stage' \in [Session -> Stage]
    BY <1>2 DEF BeginContinue, TypeOK, Stage
  <2> QED BY <1>2, <2>1, <2>2 DEF BeginContinue, TypeOK
<1> QED BY <1>1, <1>2 DEF Begin

LEMMA TypeIterate ==
  ASSUME TypeOK, NEW s \in Session, Iterate(s)
  PROVE  TypeOK'
<1>1. ASSUME NEW kind \in EventKind, Suppress(s, kind)
      PROVE  TypeOK'
  <2>1. tasks[s] # <<>> /\ KernelYields(s, kind)
    BY <1>1 DEF Suppress, Holds
  <2> QED BY <1>1, <2>1, KernelYieldsType DEF Suppress, TypeOK
<1>2. ASSUME NEW kind \in EventKind, Flush(s, kind)
      PROVE  TypeOK'
  <2>1. tasks[s] # <<>> /\ KernelYields(s, kind)
    BY <1>2 DEF Flush, Holds
  <2>2. log' \in [Session -> Seq(Row)]
    <3>1. log \in [Session -> Seq(Row)]
      BY DEF TypeOK
    <3>2. Append(log[s] \o PendingRows(s), EventRow(Holder(s), kind)) \in Seq(Row)
      BY <2>1, RowsType
    <3> QED BY <1>2, <3>1, <3>2 DEF Flush
  <2>3. messages' \in [Session -> Seq(Message)]
    BY <1>2, <2>1, MessageType DEF Flush, TypeOK
  <2>4. paused' \in [Session -> BOOLEAN] /\ pending' \in [Session -> Nat]
    BY <1>2 DEF Flush, TypeOK
  <2> QED BY <1>2, <2>1, <2>2, <2>3, <2>4, KernelYieldsType DEF Flush, TypeOK
<1>3. CASE Buffer(s)
  <2>1. tasks[s] # <<>> /\ KernelYields(s, "Progress") /\ "Progress" \in EventKind
    BY <1>3 DEF Buffer, Holds, EventKind
  <2> QED BY <1>3, <2>1, KernelYieldsType DEF Buffer, TypeOK
<1> QED BY <1>1, <1>2, <1>3 DEF Iterate

LEMMA TypeExhaust ==
  ASSUME TypeOK, NEW s \in Session, Exhaust(s)
  PROVE  TypeOK'
<1>1. tasks[s] # <<>> /\ Finish(s) /\ Release(s)
  BY DEF Exhaust, Holds, Finish
<1>2. log' \in [Session -> Seq(Row)]
  <2>1. "Progress" \in EventKind
    BY DEF EventKind
  <2>2. log[s] \o PendingRows(s) \in Seq(Row)
    BY <1>1, <2>1, RowsType
  <2> QED BY <2>2 DEF Exhaust, TypeOK
<1>3. cut' \subseteq Turn
  BY <1>1, HolderType DEF Exhaust, TypeOK
<1> QED BY <1>1, <1>2, <1>3, FinishType, ReleaseType, EarlyEnd DEF Exhaust, TypeOK

LEMMA TypeRaise ==
  ASSUME TypeOK, NEW s \in Session, Raise(s)
  PROVE  TypeOK'
<1>1. tasks[s] # <<>> /\ Release(s)
  BY DEF Raise, Holds
<1>2. log' \in [Session -> Seq(Row)]
  <2>1. "TurnFailed" \in EventKind
    BY DEF EventKind, Critical, Terminal
  <2>2. Append(log[s] \o PendingRows(s), EventRow(Holder(s), "TurnFailed")) \in Seq(Row)
    BY <1>1, <2>1, RowsType
  <2> QED BY <2>2 DEF Raise, TypeOK
<1>3. active' \subseteq Turn /\ cancelled' \subseteq Turn
  BY DEF Raise, TypeOK
<1> QED BY <1>1, <1>2, <1>3, ReleaseType DEF Raise, TypeOK

LEMMA TypeHandle ==
  ASSUME TypeOK, NEW t \in Turn, Handle(t)
  PROVE  TypeOK'
<1>s. SessionOf[t] \in Session
  BY DaemonTurnsAssumption
<1>l. ASSUME NEW by \in {"cancel", "deny"}
      PROVE  [log EXCEPT ![SessionOf[t]] = Append(@, CancelRow(t, by))]
               \in [Session -> Seq(Row)]
  <2>1. log \in [Session -> Seq(Row)] /\ CancelRow(t, by) \in Row
    BY CancelRowType DEF TypeOK
  <2>2. Append(log[SessionOf[t]], CancelRow(t, by)) \in Seq(Row)
    BY <2>1, <1>s, AppendProperties
  <2> QED BY <2>1, <2>2
<1>1. CASE SendInput(t)
  BY <1>1, CreateTaskType DEF SendInput, TypeOK, locals
<1>2. CASE CancelTurn(t)
  <2>1. log' \in [Session -> Seq(Row)]
    BY <1>2, <1>l DEF CancelTurn
  <2>2. approval' \in [Turn -> ApprovalState]
    BY <1>2 DEF CancelTurn, TypeOK, Withdraw, ApprovalState
  <2> QED BY <1>2, <2>1, <2>2 DEF CancelTurn, TypeOK, locals
<1>3. CASE Approve(t)
  BY <1>3, CreateTaskType DEF Approve, TypeOK, locals, ApprovalState
<1>4. CASE Deny(t)
  <2>1. log' \in [Session -> Seq(Row)]
    BY <1>4, <1>l DEF Deny
  <2> QED BY <1>4, <2>1 DEF Deny, TypeOK, locals, ApprovalState
<1>5. CASE GrantElsewhere(t)
  BY <1>5 DEF GrantElsewhere, TypeOK, locals, ApprovalState
<1>6. CASE ContinueTurn(t)
  BY <1>6, CreateTaskType DEF ContinueTurn, TypeOK, locals, ApprovalState
<1> QED BY <1>1, <1>2, <1>3, <1>4, <1>5, <1>6 DEF Handle

LEMMA TypeRestart ==
  ASSUME TypeOK, Restart
  PROVE  TypeOK'
<1>1. tasks' \in [Session -> Seq(Task)]
  BY DEF Restart
<1> QED BY <1>1 DEF Restart, TypeOK, Stage

(* TypeOK holds in every reachable state.                                  *)
THEOREM TypeCorrect == Spec => []TypeOK
<1>1. TypeOK /\ [Next]_vars => TypeOK'
  <2> SUFFICES ASSUME TypeOK, [Next]_vars PROVE TypeOK'
    OBVIOUS
  <2>1. ASSUME NEW s \in Session, Begin(s) \/ Iterate(s) \/ Exhaust(s) \/ Raise(s)
        PROVE  TypeOK'
    BY <2>1, TypeBegin, TypeIterate, TypeExhaust, TypeRaise
  <2>2. CASE UNCHANGED vars
    BY <2>2 DEF vars, locals, TypeOK
  <2> QED BY <2>1, <2>2, TypeHandle, TypeRestart DEF Next
<1> QED BY <1>1, TypeInit, PTL DEF Spec

-----------------------------------------------------------------------------
(* The inductive invariant behind ActiveHasCause.  The finally clause      *)
(* leaves a paused run's turn active and takes its task away, so a paused  *)
(* run needs a cause of its own: a decision to wait for or a further task. *)

(* A task queues on the lock of its own turn's session.                    *)
TaskHome ==
  \A s \in Session : \A i \in DOMAIN tasks[s] : SessionOf[tasks[s][i].turn] = s

(* A run pauses with the last event of its stream.                         *)
PausedEnded == \A s \in Session : paused[s] => stage[s] = "ended"

(* Only a task that holds the lock has begun.                              *)
BegunHolds == \A s \in Session : tasks[s] = <<>> => stage[s] = "waiting"

(* Another task of the turn is queued behind the one that holds the lock.  *)
NextInLine(s, t) == \E i \in DOMAIN tasks[s] : i # 1 /\ tasks[s][i].turn = t

PausedCause ==
  \A s \in Session : paused[s] =>
    \/ Holder(s).turn \notin active
    \/ Awaiting(Holder(s).turn)
    \/ NextInLine(s, Holder(s).turn)

CauseInv == TypeOK /\ TaskHome /\ PausedEnded /\ BegunHolds /\ PausedCause /\ ActiveHasCause

(* A new task joins the line of its session and moves no other.            *)
LEMMA CreateTaskLine ==
  ASSUME TypeOK, TaskHome, NEW t \in Turn, NEW kind \in {"execute", "continue"},
         CreateTask(t, kind)
  PROVE  /\ TaskHome'
         /\ HasTask(t)'
         /\ tasks[SessionOf[t]] # <<>> => NextInLine(SessionOf[t], t)'
         /\ \A s \in Session : \A i \in DOMAIN tasks[s] :
              i \in DOMAIN tasks'[s] /\ tasks'[s][i] = tasks[s][i]
         /\ \A s \in Session : tasks[s] # <<>> =>
              tasks'[s] # <<>> /\ Holder(s)' = Holder(s)
<1> DEFINE task == [turn |-> t, kind |-> kind, run |-> runs[t] + 1]
           home == SessionOf[t]
<1>1. home \in Session
  BY DaemonTurnsAssumption
<1>2. tasks \in [Session -> Seq(Task)] /\ task \in Task
  <2>1. runs[t] + 1 \in Nat
    BY DEF TypeOK
  <2> QED BY <2>1 DEF TypeOK, Task
<1>3. /\ tasks'[home] = Append(tasks[home], task)
      /\ \A s \in Session : s # home => tasks'[s] = tasks[s]
  BY <1>1, <1>2 DEF CreateTask
<1>4. /\ DOMAIN tasks'[home] = 1..(Len(tasks[home]) + 1)
      /\ \A i \in DOMAIN tasks[home] : tasks'[home][i] = tasks[home][i]
      /\ tasks'[home][Len(tasks[home]) + 1] = task
  BY <1>1, <1>2, <1>3, AppendProperties
<1>5. \A s \in Session : /\ Len(tasks[s]) \in Nat
                         /\ DOMAIN tasks[s] = 1..Len(tasks[s])
                         /\ tasks[s] # <<>> => Len(tasks[s]) > 0
  BY <1>2
<1>6. \A s \in Session : \A i \in DOMAIN tasks[s] :
        i \in DOMAIN tasks'[s] /\ tasks'[s][i] = tasks[s][i]
  BY <1>1, <1>3, <1>4, <1>5
<1>7. TaskHome'
  <2> SUFFICES ASSUME NEW s \in Session, NEW i \in DOMAIN tasks'[s]
               PROVE  SessionOf[tasks'[s][i].turn] = s
    BY DEF TaskHome
  <2>1. CASE s = home /\ i = Len(tasks[home]) + 1
    BY <2>1, <1>4
  <2>2. CASE i \in DOMAIN tasks[s]
    BY <2>2, <1>6 DEF TaskHome
  <2> QED BY <2>1, <2>2, <1>1, <1>3, <1>4, <1>5
<1>8. HasTask(t)'
  <2>1. Len(tasks[home]) + 1 \in DOMAIN tasks'[home]
    BY <1>1, <1>4, <1>5
  <2> QED BY <2>1, <1>4 DEF HasTask, InLine
<1>9. tasks[home] # <<>> => NextInLine(home, t)'
  <2>1. Len(tasks[home]) + 1 \in DOMAIN tasks'[home]
    BY <1>1, <1>4, <1>5
  <2> QED BY <2>1, <1>1, <1>4, <1>5 DEF NextInLine
<1>10. \A s \in Session : tasks[s] # <<>> => tasks'[s] # <<>> /\ Holder(s)' = Holder(s)
  <2> SUFFICES ASSUME NEW s \in Session, tasks[s] # <<>>
               PROVE  tasks'[s] # <<>> /\ Holder(s)' = Holder(s)
    OBVIOUS
  <2>0. tasks' \in [Session -> Seq(Task)]
    BY CreateTaskType
  <2>1. 1 \in DOMAIN tasks[s]
    BY <1>5
  <2>2. 1 \in DOMAIN tasks'[s] /\ tasks'[s][1] = tasks[s][1]
    BY <2>1, <1>6
  <2>3. tasks'[s] # <<>>
    BY <2>0, <2>2
  <2>4. Head(tasks'[s]) = tasks'[s][1] /\ Head(tasks[s]) = tasks[s][1]
    BY <2>0, <2>3, <1>2, HeadTailProperties
  <2> QED BY <2>2, <2>3, <2>4 DEF Holder
<1> QED BY <1>6, <1>7, <1>8, <1>9, <1>10

(* The end of a task moves the others up and takes only that task.         *)
LEMMA ReleaseLine ==
  ASSUME TypeOK, TaskHome, NEW s \in Session, tasks[s] # <<>>, Release(s)
  PROVE  /\ TaskHome'
         /\ \A u \in Session : u # s => tasks'[u] = tasks[u]
         /\ \A i \in DOMAIN tasks[s] : i # 1 =>
              i - 1 \in DOMAIN tasks'[s] /\ tasks'[s][i - 1] = tasks[s][i]
<1>1. tasks \in [Session -> Seq(Task)]
  BY DEF TypeOK
<1>2. tasks'[s] = Tail(tasks[s]) /\ \A u \in Session : u # s => tasks'[u] = tasks[u]
  BY <1>1 DEF Release
<1>3. /\ Len(tasks[s]) \in Nat /\ Len(tasks[s]) > 0
      /\ DOMAIN tasks[s] = 1..Len(tasks[s])
      /\ DOMAIN tasks'[s] = 1..(Len(tasks[s]) - 1)
      /\ \A i \in 1..(Len(tasks[s]) - 1) : tasks'[s][i] = tasks[s][i + 1]
  BY <1>1, <1>2
<1>4. \A i \in DOMAIN tasks'[s] :
        i + 1 \in DOMAIN tasks[s] /\ tasks'[s][i] = tasks[s][i + 1]
  BY <1>3
<1>5. TaskHome'
  <2> SUFFICES ASSUME NEW u \in Session, NEW i \in DOMAIN tasks'[u]
               PROVE  SessionOf[tasks'[u][i].turn] = u
    BY DEF TaskHome
  <2>1. CASE u = s
    BY <2>1, <1>4 DEF TaskHome
  <2>2. CASE u # s
    BY <2>2, <1>2 DEF TaskHome
  <2> QED BY <2>1, <2>2
<1>6. \A i \in DOMAIN tasks[s] : i # 1 =>
        i - 1 \in DOMAIN tasks'[s] /\ tasks'[s][i - 1] = tasks[s][i]
  BY <1>3
<1> QED BY <1>2, <1>5, <1>6

(* A turn has a task when one in its line works for it.                    *)
LEMMA HolderHasTask ==
  ASSUME TypeOK, TaskHome, NEW s \in Session, tasks[s] # <<>>
  PROVE  /\ Holder(s).turn \in Turn
         /\ SessionOf[Holder(s).turn] = s
         /\ HasTask(Holder(s).turn)
<1>1. Holder(s) = tasks[s][1] /\ Holder(s).turn \in Turn
  BY HolderType
<1>2. 1 \in DOMAIN tasks[s]
  BY DEF TypeOK
<1> QED BY <1>1, <1>2 DEF TaskHome, HasTask, InLine

-----------------------------------------------------------------------------
(* The invariant is preserved, one lemma per kind of step.                 *)
LEMMA CauseBegin ==
  ASSUME CauseInv, TypeOK', NEW s \in Session, Begin(s)
  PROVE  CauseInv'
<1>1. /\ tasks[s] # <<>> /\ stage[s] = "waiting"
      /\ stage' = [stage EXCEPT ![s] = "streaming"]
      /\ UNCHANGED <<tasks, paused, approval>>
      /\ active' \subseteq active \cup {Holder(s).turn}
  BY DEF Begin, BeginExecute, BeginContinue
<1>2. ~paused[s]
  BY <1>1 DEF CauseInv, PausedEnded
<1>3. TaskHome' /\ BegunHolds' /\ PausedEnded'
  BY <1>1, <1>2 DEF CauseInv, TaskHome, BegunHolds, PausedEnded, TypeOK
<1>4. SessionOf[Holder(s).turn] = s /\ HasTask(Holder(s).turn)
  BY <1>1, HolderHasTask DEF CauseInv
<1>5. ActiveHasCause'
  BY <1>1, <1>4 DEF CauseInv, ActiveHasCause, HasTask, InLine, Awaiting
<1>6. PausedCause'
  <2> SUFFICES ASSUME NEW u \in Session, paused[u]
               PROVE  \/ Holder(u).turn \notin active'
                      \/ Awaiting(Holder(u).turn)
                      \/ NextInLine(u, Holder(u).turn)
    BY <1>1 DEF PausedCause, Holder, Awaiting, NextInLine
  <2>1. u # s /\ tasks[u] # <<>>
    BY <1>2 DEF CauseInv, PausedEnded, BegunHolds
  <2>2. Holder(u).turn # Holder(s).turn
    BY <2>1, <1>4, HolderHasTask DEF CauseInv
  <2> QED BY <2>2, <1>1 DEF CauseInv, PausedCause
<1> QED BY <1>3, <1>5, <1>6 DEF CauseInv

LEMMA CauseIterate ==
  ASSUME CauseInv, TypeOK', NEW s \in Session, Iterate(s)
  PROVE  CauseInv'
<1>1. PICK kind \in EventKind :
        /\ Holds(s) /\ KernelYields(s, kind)
        /\ UNCHANGED tasks
        /\ active' \subseteq active
        /\ \/ UNCHANGED paused
           \/ /\ kind = "ApprovalRequired" /\ Holder(s).turn \notin cancelled
              /\ paused' = [paused EXCEPT ![s] = TRUE]
  BY DEF Iterate, Suppress, Flush, Buffer, Suppressed, EventKind
<1>2. ~paused[s] /\ tasks[s] # <<>>
  BY <1>1 DEF CauseInv, PausedEnded, KernelYields, Holds
<1>3. TaskHome'
  BY <1>1 DEF CauseInv, TaskHome
<1>4. BegunHolds'
  BY <1>1, <1>2 DEF CauseInv, BegunHolds, KernelYields, TypeOK
<1>5. PausedEnded'
  BY <1>1, <1>2 DEF CauseInv, PausedEnded, KernelYields, NonFinal, TypeOK
<1>6. SessionOf[Holder(s).turn] = s /\ HasTask(Holder(s).turn) /\ Holder(s).turn \in Turn
  BY <1>2, HolderHasTask DEF CauseInv
<1>7. \A t \in Turn : t # Holder(s).turn /\ Awaiting(t) => Awaiting(t)'
  BY <1>1 DEF KernelYields, Register, Awaiting, CauseInv, TypeOK
<1>8. ActiveHasCause'
  <2> SUFFICES ASSUME NEW t \in active' PROVE HasTask(t)' \/ Awaiting(t)'
    BY DEF ActiveHasCause
  <2>1. HasTask(t)' <=> HasTask(t)
    BY <1>1 DEF HasTask, InLine
  <2>2. t \in active /\ t \in Turn
    BY <1>1 DEF CauseInv, TypeOK
  <2> QED BY <2>1, <2>2, <1>6, <1>7 DEF CauseInv, ActiveHasCause
<1>9. PausedCause'
  <2> SUFFICES ASSUME NEW u \in Session, paused'[u]
               PROVE  \/ Holder(u).turn \notin active'
                      \/ approval'[Holder(u).turn] \in {"pending", "granted"}
                      \/ NextInLine(u, Holder(u).turn)
    BY <1>1 DEF PausedCause, Holder, Awaiting, NextInLine
  <2>1. CASE u = s
    <3>1. kind = "ApprovalRequired" /\ Holder(s).turn \notin cancelled
      BY <2>1, <1>1, <1>2
    <3>2. approval'[Holder(s).turn] = "pending"
      BY <3>1, <1>1, <1>6 DEF KernelYields, Register, CauseInv, TypeOK
    <3> QED BY <2>1, <3>2
  <2>2. CASE u # s
    <3>1. paused[u] /\ tasks[u] # <<>>
      BY <2>2, <1>1 DEF CauseInv, TypeOK, PausedEnded, BegunHolds
    <3>2. Holder(u).turn # Holder(s).turn /\ Holder(u).turn \in Turn
      BY <2>2, <3>1, <1>6, HolderHasTask DEF CauseInv
    <3> QED BY <3>1, <3>2, <1>1, <1>7 DEF CauseInv, PausedCause, Awaiting
  <2> QED BY <2>1, <2>2
<1> QED BY <1>3, <1>4, <1>5, <1>8, <1>9 DEF CauseInv

(* The end of a task, by either of its two ways out.                       *)
LEMMA CauseEnd ==
  ASSUME CauseInv, TypeOK', NEW s \in Session, Exhaust(s) \/ Raise(s)
  PROVE  CauseInv'
<1> DEFINE t == Holder(s).turn
<1>1. /\ tasks[s] # <<>> /\ Release(s)
      /\ active' = active \ {t} \/ (paused[s] /\ active' = active)
  BY DEF Exhaust, Raise, Finish, Holds
<1>a. /\ \A v \in Turn : v # t /\ Awaiting(v) => Awaiting(v)'
      /\ paused[s] => UNCHANGED approval
  <2>1. CASE Raise(s)
    BY <2>1 DEF Raise, Awaiting
  <2>2. CASE Exhaust(s)
    <3>1. TypeOK /\ (paused[s] => stage[s] = "ended")
      BY DEF CauseInv, PausedEnded
    <3> QED BY <1>1, <2>2, <3>1, EarlyEnd DEF Awaiting
  <2> QED BY <2>1, <2>2
<1>2. /\ TaskHome'
      /\ \A u \in Session : u # s => tasks'[u] = tasks[u]
      /\ \A i \in DOMAIN tasks[s] : i # 1 =>
           i - 1 \in DOMAIN tasks'[s] /\ tasks'[s][i - 1] = tasks[s][i]
  BY <1>1, ReleaseLine DEF CauseInv
<1>3. /\ ~paused'[s] /\ stage'[s] = "waiting"
      /\ \A u \in Session : u # s => paused'[u] = paused[u] /\ stage'[u] = stage[u]
  BY <1>1 DEF Release, CauseInv, TypeOK
<1>4. BegunHolds' /\ PausedEnded'
  BY <1>2, <1>3 DEF CauseInv, BegunHolds, PausedEnded
<1>5. SessionOf[t] = s /\ Holder(s) = tasks[s][1]
  BY <1>1, HolderHasTask, HolderType DEF CauseInv
<1>6. ActiveHasCause'
  <2> SUFFICES ASSUME NEW v \in active' PROVE HasTask(v)' \/ Awaiting(v)'
    BY DEF ActiveHasCause
  <2>1. v \in active /\ v \in Turn /\ SessionOf[v] \in Session
    BY <1>1, DaemonTurnsAssumption DEF CauseInv, TypeOK
  <2>2. CASE Awaiting(v)
    <3>1. CASE v = t
      BY <3>1, <2>2, <1>1, <1>a DEF Awaiting
    <3> QED BY <3>1, <2>1, <2>2, <1>a
  <2>3. ASSUME NEW i \in DOMAIN tasks[s], i # 1, tasks[s][i].turn = v
        PROVE  HasTask(v)'
    <3>1. SessionOf[v] = s
      BY <2>3 DEF CauseInv, TaskHome
    <3> QED BY <2>3, <3>1, <1>2 DEF HasTask, InLine
  <2>4. CASE v = t /\ ~Awaiting(v)
    <3>1. paused[s]
      BY <2>4, <1>1
    <3>2. NextInLine(s, v)
      BY <2>1, <2>4, <3>1 DEF CauseInv, PausedCause
    <3> QED BY <3>2, <2>3 DEF NextInLine
  <2>5. CASE v # t /\ ~Awaiting(v)
    <3>1. HasTask(v)
      BY <2>1, <2>5 DEF CauseInv, ActiveHasCause
    <3>2. CASE SessionOf[v] # s
      BY <3>1, <3>2, <2>1, <1>2 DEF HasTask, InLine
    <3>3. CASE SessionOf[v] = s
      BY <3>1, <3>3, <2>3, <2>5, <1>5 DEF HasTask, InLine
    <3> QED BY <3>2, <3>3
  <2> QED BY <2>2, <2>4, <2>5
<1>7. PausedCause'
  <2> SUFFICES ASSUME NEW u \in Session, paused'[u]
               PROVE  (\/ Holder(u).turn \notin active
                       \/ Awaiting(Holder(u).turn)
                       \/ NextInLine(u, Holder(u).turn))'
    BY DEF PausedCause
  <2>1. u # s /\ tasks'[u] = tasks[u] /\ paused[u]
    BY <1>2, <1>3
  <2>2. \/ Holder(u).turn \notin active
        \/ Awaiting(Holder(u).turn)
        \/ NextInLine(u, Holder(u).turn)
    BY <2>1 DEF CauseInv, PausedCause
  <2>3. active' \subseteq active
    BY <1>1
  <2>4. Holder(u)' = Holder(u) /\ (NextInLine(u, Holder(u).turn) =>
                                    NextInLine(u, Holder(u).turn)')
    BY <2>1 DEF Holder, NextInLine
  <2>5. Holder(u).turn \in Turn /\ Holder(u).turn # t
    <3>1. tasks[u] # <<>>
      BY <2>1 DEF CauseInv, PausedEnded, BegunHolds
    <3>2. Holder(u).turn \in Turn /\ SessionOf[Holder(u).turn] = u
      BY <3>1, HolderHasTask DEF CauseInv
    <3> QED BY <3>2, <2>1, <1>5
  <2>6. Awaiting(Holder(u).turn) => Awaiting(Holder(u).turn)'
    BY <2>4, <2>5, <1>a DEF Awaiting
  <2> QED BY <2>1, <2>2, <2>3, <2>4, <2>6
<1> QED BY <1>2, <1>4, <1>6, <1>7 DEF CauseInv

(* A handler that queues a task (and marks its turn active, perhaps).      *)
LEMMA CauseQueue ==
  ASSUME CauseInv, TypeOK', NEW t \in Turn, NEW kind \in {"execute", "continue"},
         CreateTask(t, kind), UNCHANGED <<stage, paused>>,
         active' \subseteq active \cup {t},
         \A u \in Turn : u # t /\ Awaiting(u) => Awaiting(u)'
  PROVE  CauseInv'
<1>1. /\ TaskHome'
      /\ HasTask(t)'
      /\ tasks[SessionOf[t]] # <<>> => NextInLine(SessionOf[t], t)'
      /\ \A s \in Session : \A i \in DOMAIN tasks[s] :
           i \in DOMAIN tasks'[s] /\ tasks'[s][i] = tasks[s][i]
      /\ \A s \in Session : tasks[s] # <<>> =>
           tasks'[s] # <<>> /\ Holder(s)' = Holder(s)
  BY CreateTaskLine DEF CauseInv
<1>2. BegunHolds' /\ PausedEnded'
  BY <1>1 DEF CauseInv, BegunHolds, PausedEnded
<1>3. ActiveHasCause'
  <2> SUFFICES ASSUME NEW v \in active', v # t PROVE HasTask(v)' \/ Awaiting(v)'
    BY <1>1 DEF ActiveHasCause
  <2>1. v \in active /\ v \in Turn /\ SessionOf[v] \in Session
    BY DaemonTurnsAssumption DEF CauseInv, TypeOK
  <2>2. HasTask(v) \/ Awaiting(v)
    BY <2>1 DEF CauseInv, ActiveHasCause
  <2> QED BY <2>1, <2>2, <1>1 DEF HasTask, InLine
<1>4. PausedCause'
  <2> SUFFICES ASSUME NEW s \in Session, paused'[s]
               PROVE  (\/ Holder(s).turn \notin active
                       \/ Awaiting(Holder(s).turn)
                       \/ NextInLine(s, Holder(s).turn))'
    BY DEF PausedCause
  <2>1. paused[s] /\ tasks[s] # <<>>
    BY DEF CauseInv, PausedEnded, BegunHolds
  <2>2. Holder(s)' = Holder(s) /\ Holder(s).turn \in Turn /\ SessionOf[Holder(s).turn] = s
    BY <2>1, <1>1, HolderHasTask DEF CauseInv
  <2>3. CASE Holder(s).turn = t
    BY <2>1, <2>2, <2>3, <1>1
  <2>4. CASE Holder(s).turn # t
    <3>1. \/ Holder(s).turn \notin active
          \/ Awaiting(Holder(s).turn)
          \/ NextInLine(s, Holder(s).turn)
      BY <2>1 DEF CauseInv, PausedCause
    <3>2. NextInLine(s, Holder(s).turn) => NextInLine(s, Holder(s).turn)'
      BY <1>1, <2>2 DEF NextInLine
    <3>3. Awaiting(Holder(s).turn) => Awaiting(Holder(s).turn)'
      BY <2>2, <2>4 DEF Awaiting
    <3> QED BY <3>1, <3>2, <3>3, <2>2, <2>4
  <2> QED BY <2>3, <2>4
<1> QED BY <1>1, <1>2, <1>3, <1>4 DEF CauseInv

LEMMA CauseHandle ==
  ASSUME CauseInv, TypeOK', NEW t \in Turn, Handle(t)
  PROVE  CauseInv'
<1>1. CASE SendInput(t)
  BY <1>1, CauseQueue DEF SendInput, locals, Awaiting
<1>2. CASE Approve(t)
  <2>1. \A u \in Turn : u # t /\ Awaiting(u) => Awaiting(u)'
    BY <1>2 DEF Approve, Awaiting, CauseInv, TypeOK
  <2> QED BY <1>2, <2>1, CauseQueue DEF Approve, locals
<1>3. CASE ContinueTurn(t)
  <2>1. \A u \in Turn : u # t /\ Awaiting(u) => Awaiting(u)'
    BY <1>3 DEF ContinueTurn, Awaiting, CauseInv, TypeOK
  <2> QED BY <1>3, <2>1, CauseQueue DEF ContinueTurn, locals
<1>4. CASE CancelTurn(t) \/ Deny(t) \/ GrantElsewhere(t)
  <2>1. /\ UNCHANGED <<tasks, stage, paused>>
        /\ active' = active \ {t} \/ (active' = active /\ Awaiting(t)')
        /\ \A u \in Turn : u # t /\ Awaiting(u) => Awaiting(u)'
    <3>1. approval \in [Turn -> ApprovalState]
      BY DEF CauseInv, TypeOK
    <3>2. CASE CancelTurn(t)
      <4>1. active' = active \ {t} /\ UNCHANGED <<tasks, stage, paused>>
        BY <3>2 DEF CancelTurn, locals
      <4>2. \A u \in Turn : u # t /\ Awaiting(u) => Awaiting(u)'
        BY <3>1, <3>2 DEF CancelTurn, Awaiting
      <4> QED BY <4>1, <4>2
    <3>3. CASE Deny(t)
      <4>1. active' = active \ {t} /\ UNCHANGED <<tasks, stage, paused>>
        BY <3>3 DEF Deny, locals
      <4>2. \A u \in Turn : u # t /\ Awaiting(u) => Awaiting(u)'
        BY <3>1, <3>3 DEF Deny, Awaiting
      <4> QED BY <4>1, <4>2
    <3>4. CASE GrantElsewhere(t)
      BY <3>1, <3>4 DEF GrantElsewhere, locals, Awaiting
    <3> QED BY <1>4, <3>2, <3>3, <3>4
  <2>2. TaskHome' /\ BegunHolds' /\ PausedEnded'
    BY <2>1 DEF CauseInv, TaskHome, BegunHolds, PausedEnded
  <2>3. active' \subseteq Turn
    BY DEF TypeOK
  <2>4. ActiveHasCause'
    BY <2>1, <2>3 DEF CauseInv, ActiveHasCause, HasTask, InLine
  <2>5. PausedCause'
    <3> SUFFICES ASSUME NEW s \in Session, paused[s]
                 PROVE  \/ Holder(s).turn \notin active'
                        \/ approval'[Holder(s).turn] \in {"pending", "granted"}
                        \/ NextInLine(s, Holder(s).turn)
      BY <2>1 DEF PausedCause, Holder, Awaiting, NextInLine
    <3>1. tasks[s] # <<>>
      BY DEF CauseInv, PausedEnded, BegunHolds
    <3>2. Holder(s).turn \in Turn
      BY <3>1, HolderType DEF CauseInv
    <3> QED BY <3>2, <2>1 DEF CauseInv, PausedCause, Awaiting
  <2> QED BY <2>2, <2>4, <2>5 DEF CauseInv
<1> QED BY <1>1, <1>2, <1>3, <1>4 DEF Handle

LEMMA CauseRestart ==
  ASSUME CauseInv, TypeOK', Restart
  PROVE  CauseInv'
<1>1. TaskHome' /\ BegunHolds' /\ PausedEnded' /\ PausedCause' /\ ActiveHasCause'
  BY DEF Restart, TaskHome, BegunHolds, PausedEnded, PausedCause, ActiveHasCause
<1> QED BY <1>1 DEF CauseInv

(* The invariant holds in every reachable state.                           *)
LEMMA CauseReachable == Spec => []CauseInv
<1>1. Init => CauseInv
  BY TypeInit DEF Init, CauseInv, TaskHome, PausedEnded, BegunHolds, PausedCause,
     ActiveHasCause
<1>2. CauseInv /\ TypeOK' /\ [Next]_vars => CauseInv'
  <2> SUFFICES ASSUME CauseInv, TypeOK', [Next]_vars PROVE CauseInv'
    OBVIOUS
  <2>1. ASSUME NEW s \in Session, Begin(s) \/ Iterate(s) \/ Exhaust(s) \/ Raise(s)
        PROVE  CauseInv'
    BY <2>1, CauseBegin, CauseIterate, CauseEnd
  <2>2. CASE UNCHANGED vars
    BY <2>2 DEF vars, locals, CauseInv, TaskHome, PausedEnded, BegunHolds, PausedCause,
       ActiveHasCause, HasTask, InLine, Awaiting, NextInLine, Holder
  <2> QED BY <2>1, <2>2, CauseHandle, CauseRestart DEF Next
<1> QED BY <1>1, <1>2, TypeCorrect, PTL DEF Spec

(* No turn stays in _active_turns without a task that will retire it or a  *)
(* decision that it waits for.                                             *)
THEOREM ActiveCause == Spec => []ActiveHasCause
<1>1. CauseInv => ActiveHasCause
  BY DEF CauseInv
<1> QED BY <1>1, CauseReachable, PTL

-----------------------------------------------------------------------------
(***************************************************************************)
(* What rests on what can stand in a session's line at the same time: a    *)
(* turn has one task in it, or two while its paused run still has the lock *)
(* and the resumption waits behind it.  From this follow which turns the   *)
(* tables know, that a cancelled run records nothing critical any more,    *)
(* and that the transcript pairs questions and answers.                    *)
(***************************************************************************)

(* The runs of a turn are numbered from 1 as their tasks are created.      *)
Numbered ==
  \A s \in Session : \A i \in DOMAIN tasks[s] :
    0 < tasks[s][i].run /\ tasks[s][i].run <= runs[tasks[s][i].turn]

(* Two tasks of a turn are in line only while the first one, paused, has   *)
(* the lock and the second one waits to resume it.                         *)
Followed ==
  \A s \in Session : \A i, j \in DOMAIN tasks[s] :
    i < j /\ tasks[s][i].turn = tasks[s][j].turn =>
      /\ i = 1 /\ paused[s]
      /\ tasks[s][j].kind = "continue"
      /\ tasks[s][i].run < tasks[s][j].run

(* A turn that waits for a decision has no task but its paused run.        *)
AwaitedPaused ==
  \A s \in Session : \A i \in DOMAIN tasks[s] :
    Awaiting(tasks[s][i].turn) => i = 1 /\ paused[s]

(* Only a submitted turn waits for a decision.                             *)
AwaitedSubmitted == \A t \in Turn : Awaiting(t) => 0 < runs[t]

LineInv == Numbered /\ Followed /\ AwaitedPaused /\ AwaitedSubmitted

-----------------------------------------------------------------------------
(* The line when a task joins it: the old places, and the last one.        *)
LEMMA JoinPlaces ==
  ASSUME TypeOK, NEW t \in Turn, NEW kind \in {"execute", "continue"},
         CreateTask(t, kind)
  PROVE  \A s \in Session : \A i \in DOMAIN tasks'[s] :
           /\ i \in Nat
           /\ \/ i \in DOMAIN tasks[s] /\ tasks'[s][i] = tasks[s][i]
              \/ /\ s = SessionOf[t] /\ \A j \in DOMAIN tasks'[s] : j <= i
                 /\ tasks[s] # <<>> => i # 1
                 /\ tasks'[s][i].turn = t /\ tasks'[s][i].kind = kind
                 /\ tasks'[s][i].run = runs[t] + 1
<1> DEFINE task == [turn |-> t, kind |-> kind, run |-> runs[t] + 1]
           home == SessionOf[t]
<1>1. home \in Session
  BY DaemonTurnsAssumption
<1>2. tasks \in [Session -> Seq(Task)] /\ task \in Task
  <2>1. runs[t] + 1 \in Nat
    BY DEF TypeOK
  <2> QED BY <2>1 DEF TypeOK, Task
<1>3. /\ tasks'[home] = Append(tasks[home], task)
      /\ \A s \in Session : s # home => tasks'[s] = tasks[s]
  BY <1>1, <1>2 DEF CreateTask
<1>4. /\ DOMAIN tasks'[home] = 1..(Len(tasks[home]) + 1)
      /\ \A i \in DOMAIN tasks[home] : tasks'[home][i] = tasks[home][i]
      /\ tasks'[home][Len(tasks[home]) + 1] = task
  BY <1>1, <1>2, <1>3, AppendProperties
<1>5. \A s \in Session : /\ Len(tasks[s]) \in Nat
                         /\ DOMAIN tasks[s] = 1..Len(tasks[s])
                         /\ tasks[s] # <<>> => Len(tasks[s]) > 0
  BY <1>2
<1> SUFFICES ASSUME NEW s \in Session, NEW i \in DOMAIN tasks'[s]
             PROVE  /\ i \in Nat
                    /\ \/ i \in DOMAIN tasks[s] /\ tasks'[s][i] = tasks[s][i]
                       \/ /\ s = home /\ \A j \in DOMAIN tasks'[s] : j <= i
                          /\ tasks[s] # <<>> => i # 1
                          /\ tasks'[s][i] = task
  OBVIOUS
<1>6. CASE s # home
  BY <1>6, <1>3, <1>5
<1>7. CASE s = home
  <2>1. i \in 1..(Len(tasks[home]) + 1) /\ Len(tasks[home]) \in Nat
    BY <1>1, <1>4, <1>5, <1>7
  <2>2. CASE i = Len(tasks[home]) + 1
    BY <2>1, <2>2, <1>1, <1>4, <1>5, <1>7
  <2>3. CASE i \in 1..Len(tasks[home])
    BY <2>3, <1>1, <1>4, <1>5, <1>7
  <2> QED BY <2>1, <2>2, <2>3
<1> QED BY <1>6, <1>7

(* The line when its first task leaves: every task moves up by one.        *)
LEMMA LeavePlaces ==
  ASSUME TypeOK, NEW s \in Session, tasks[s] # <<>>, Release(s)
  PROVE  /\ \A i \in DOMAIN tasks'[s] :
              /\ i \in Nat /\ i + 1 \in DOMAIN tasks[s] /\ i + 1 # 1
              /\ tasks'[s][i] = tasks[s][i + 1]
         /\ \A u \in Session : u # s => tasks'[u] = tasks[u] /\ paused'[u] = paused[u]
         /\ paused'[s] = FALSE /\ stage'[s] = "waiting"
         /\ 1 \in DOMAIN tasks[s] /\ Holder(s) = tasks[s][1]
<1>1. tasks \in [Session -> Seq(Task)]
  BY DEF TypeOK
<1>2. tasks'[s] = Tail(tasks[s]) /\ \A u \in Session : u # s => tasks'[u] = tasks[u]
  BY <1>1 DEF Release
<1>3. /\ Len(tasks[s]) \in Nat /\ Len(tasks[s]) > 0
      /\ DOMAIN tasks[s] = 1..Len(tasks[s])
      /\ DOMAIN tasks'[s] = 1..(Len(tasks[s]) - 1)
      /\ \A i \in 1..(Len(tasks[s]) - 1) : tasks'[s][i] = tasks[s][i + 1]
  BY <1>1, <1>2
<1>4. /\ paused'[s] = FALSE /\ stage'[s] = "waiting"
      /\ \A u \in Session : u # s => paused'[u] = paused[u]
  BY DEF Release, TypeOK
<1> QED BY <1>2, <1>3, <1>4, HolderType

(* What a place in a line holds.                                           *)
LEMMA PlaceType ==
  ASSUME TypeOK, NEW s \in Session, NEW i \in DOMAIN tasks[s]
  PROVE  /\ i \in Nat /\ 0 < i /\ tasks[s] # <<>> /\ 1 \in DOMAIN tasks[s]
         /\ tasks[s][i].turn \in Turn
         /\ tasks[s][i].run \in Nat
         /\ runs[tasks[s][i].turn] \in Nat
<1>1. tasks[s] \in Seq(Task)
  BY DEF TypeOK
<1>2. tasks[s][i] \in Task /\ i \in Nat /\ 0 < i /\ tasks[s] # <<>>
      /\ 1 \in DOMAIN tasks[s]
  BY <1>1
<1> QED BY <1>2 DEF Task, TypeOK

-----------------------------------------------------------------------------
(* LineInv is preserved.  Only the creation of a task, a pause, the end of *)
(* a task and the handlers of approvals disturb it.                        *)
LEMMA LineStill ==
  ASSUME LineInv, TypeOK, UNCHANGED <<tasks, paused, runs>>,
         \A t \in Turn : Awaiting(t)' => Awaiting(t)
  PROVE  LineInv'
<1>1. Numbered' /\ Followed' /\ AwaitedSubmitted'
  BY DEF LineInv, Numbered, Followed, AwaitedSubmitted
<1>2. AwaitedPaused'
  BY PlaceType DEF LineInv, AwaitedPaused
<1> QED BY <1>1, <1>2 DEF LineInv

LEMMA LineIterate ==
  ASSUME LineInv, CauseInv, NEW s \in Session, Iterate(s)
  PROVE  LineInv'
<1>1. PICK kind \in EventKind :
        /\ Holds(s) /\ KernelYields(s, kind)
        /\ UNCHANGED <<tasks, runs>>
        /\ \/ UNCHANGED paused /\ (kind = "ApprovalRequired" => Suppressed(s))
           \/ /\ kind = "ApprovalRequired" /\ Holder(s).turn \notin cancelled
              /\ paused' = [paused EXCEPT ![s] = TRUE]
  BY DEF Iterate, Suppress, Flush, Buffer, Suppressed, EventKind
<1>2. TypeOK /\ ~paused[s] /\ tasks[s] # <<>>
  BY <1>1 DEF CauseInv, PausedEnded, KernelYields, Holds
<1>3. /\ Holder(s) = tasks[s][1] /\ Holder(s).turn \in Turn
      /\ SessionOf[Holder(s).turn] = s /\ 1 \in DOMAIN tasks[s]
  <2>1. tasks[s] \in Seq(Task)
    BY <1>2 DEF TypeOK
  <2> QED BY <2>1, <1>2, HolderType, HolderHasTask DEF CauseInv
<1>4. CASE UNCHANGED paused /\ (kind = "ApprovalRequired" => Suppressed(s))
  <2>1. \A t \in Turn : Awaiting(t)' => Awaiting(t)
    BY <1>1, <1>2, <1>4 DEF KernelYields, Register, Awaiting, Suppressed, TypeOK
  <2> QED BY <2>1, <1>1, <1>2, <1>4, LineStill
<1>5. CASE /\ kind = "ApprovalRequired" /\ Holder(s).turn \notin cancelled
           /\ paused' = [paused EXCEPT ![s] = TRUE]
  <2>1. paused'[s] = TRUE /\ \A u \in Session : paused[u] => paused'[u]
    BY <1>2, <1>5 DEF TypeOK
  <2>2. \A t \in Turn : Awaiting(t)' => t = Holder(s).turn \/ Awaiting(t)
    BY <1>1, <1>2 DEF KernelYields, Register, Awaiting, TypeOK
  <2>3. Numbered' /\ Followed'
    BY <1>1, <2>1 DEF LineInv, Numbered, Followed
  <2>4. AwaitedPaused'
    <3> SUFFICES ASSUME NEW u \in Session, NEW i \in DOMAIN tasks[u],
                        approval'[tasks[u][i].turn] \in {"pending", "granted"}
                 PROVE  i = 1 /\ paused'[u]
      BY <1>1 DEF AwaitedPaused, Awaiting
    <3>1. tasks[u][i].turn \in Turn /\ i \in Nat /\ 0 < i
      BY <1>2, PlaceType
    <3>2. CASE Awaiting(tasks[u][i].turn)
      BY <3>2, <2>1 DEF LineInv, AwaitedPaused
    <3>3. CASE tasks[u][i].turn = Holder(s).turn
      <4>1. u = s
        BY <3>3, <1>3 DEF CauseInv, TaskHome
      <4>2. ~(1 < i)
        BY <4>1, <3>3, <1>2, <1>3 DEF LineInv, Followed
      <4> QED BY <4>1, <4>2, <3>1, <2>1
    <3> QED BY <3>1, <3>2, <3>3, <2>2 DEF Awaiting
  <2>5. AwaitedSubmitted'
    <3>1. 0 < runs[Holder(s).turn]
      <4>1. 0 < tasks[s][1].run /\ tasks[s][1].run <= runs[tasks[s][1].turn]
        BY <1>3 DEF LineInv, Numbered
      <4> QED BY <4>1, <1>2, <1>3, PlaceType
    <3> QED BY <3>1, <2>2, <1>1 DEF LineInv, AwaitedSubmitted
  <2> QED BY <2>3, <2>4, <2>5 DEF LineInv
<1> QED BY <1>1, <1>4, <1>5

LEMMA LineEnd ==
  ASSUME LineInv, CauseInv, NEW s \in Session, Exhaust(s) \/ Raise(s)
  PROVE  LineInv'
<1> DEFINE h == Holder(s).turn
<1>0. TypeOK /\ (paused[s] => stage[s] = "ended")
  BY DEF CauseInv, PausedEnded
<1>1. tasks[s] # <<>> /\ Release(s) /\ UNCHANGED runs
  BY DEF Exhaust, Raise, Finish, Holds
<1>2. /\ \A i \in DOMAIN tasks'[s] :
           /\ i \in Nat /\ i + 1 \in DOMAIN tasks[s] /\ i + 1 # 1
           /\ tasks'[s][i] = tasks[s][i + 1]
      /\ \A u \in Session : u # s => tasks'[u] = tasks[u] /\ paused'[u] = paused[u]
  BY <1>0, <1>1, LeavePlaces
<1>h. h \in Turn /\ SessionOf[h] = s /\ Holder(s) = tasks[s][1] /\ 1 \in DOMAIN tasks[s]
  BY <1>0, <1>1, HolderHasTask, LeavePlaces DEF CauseInv
<1>a. \A t \in Turn : Awaiting(t)' => Awaiting(t) \/ (t = h /\ ~paused[s])
  <2>1. CASE Raise(s)
    BY <2>1 DEF Raise, Awaiting
  <2>2. CASE Exhaust(s)
    BY <1>0, <1>1, <2>2, EarlyEnd DEF Awaiting
  <2> QED BY <2>1, <2>2
<1>3. Numbered'
  <2> SUFFICES ASSUME NEW u \in Session, NEW i \in DOMAIN tasks'[u]
               PROVE  0 < tasks'[u][i].run /\ tasks'[u][i].run <= runs'[tasks'[u][i].turn]
    BY DEF Numbered
  <2> QED BY <1>1, <1>2 DEF LineInv, Numbered
<1>4. Followed'
  <2> SUFFICES ASSUME NEW u \in Session, NEW i \in DOMAIN tasks'[u],
                      NEW j \in DOMAIN tasks'[u],
                      i < j, tasks'[u][i].turn = tasks'[u][j].turn
               PROVE  /\ i = 1 /\ paused'[u]
                      /\ tasks'[u][j].kind = "continue"
                      /\ tasks'[u][i].run < tasks'[u][j].run
    BY DEF Followed
  <2>1. CASE u # s
    BY <2>1, <1>2 DEF LineInv, Followed
  <2>2. CASE u = s
    <3>1. i + 1 < j + 1
      BY <2>2, <1>2
    <3>2. i + 1 = 1
      BY <2>2, <3>1, <1>2 DEF LineInv, Followed
    <3> QED BY <3>2, <2>2, <1>2
  <2> QED BY <2>1, <2>2
<1>5. AwaitedPaused'
  <2> SUFFICES ASSUME NEW u \in Session, NEW i \in DOMAIN tasks'[u],
                      approval'[tasks'[u][i].turn] \in {"pending", "granted"}
               PROVE  i = 1 /\ paused'[u]
    BY DEF AwaitedPaused, Awaiting
  <2> DEFINE t == tasks'[u][i].turn
  <2>1. CASE u # s
    <3>1. tasks'[u] = tasks[u] /\ i \in DOMAIN tasks[u] /\ paused'[u] = paused[u]
      BY <2>1, <1>2
    <3>2. t \in Turn /\ t # h
      BY <2>1, <3>1, <1>0, <1>h, PlaceType DEF CauseInv, TaskHome
    <3>3. Awaiting(t)
      BY <3>2, <1>a DEF Awaiting
    <3> QED BY <3>1, <3>3 DEF LineInv, AwaitedPaused
  <2>2. CASE u = s
    <3>1. i \in Nat /\ i + 1 \in DOMAIN tasks[s] /\ i + 1 # 1 /\ t = tasks[s][i + 1].turn
      BY <2>2, <1>2
    <3>2. t \in Turn /\ 0 < i + 1
      BY <3>1, <1>0, PlaceType
    <3>3. ~Awaiting(t)
      BY <3>1 DEF LineInv, AwaitedPaused
    <3>4. t = h /\ ~paused[s]
      BY <3>2, <3>3, <1>a DEF Awaiting
    <3>5. 1 < i + 1
      BY <3>1, <3>2
    <3>6. tasks[s][1].turn = tasks[s][i + 1].turn
      BY <3>1, <3>4, <1>h
    <3>7. paused[s]
      BY <3>1, <3>5, <3>6, <1>h DEF LineInv, Followed
    <3> QED BY <3>4, <3>7
  <2> QED BY <2>1, <2>2
<1>6. AwaitedSubmitted'
  <2>1. 0 < runs[h]
    <3>1. 0 < tasks[s][1].run /\ tasks[s][1].run <= runs[tasks[s][1].turn]
      BY <1>h DEF LineInv, Numbered
    <3> QED BY <3>1, <1>0, <1>h, PlaceType
  <2> QED BY <2>1, <1>1, <1>a DEF LineInv, AwaitedSubmitted
<1> QED BY <1>3, <1>4, <1>5, <1>6 DEF LineInv

(* A task is created for a turn that has none, or only its paused run.     *)
LEMMA LineQueue ==
  ASSUME LineInv, TypeOK, TaskHome, NEW t \in Turn, NEW kind \in {"execute", "continue"},
         CreateTask(t, kind), UNCHANGED paused,
         \A u \in Turn : Awaiting(u)' => Awaiting(u) /\ u # t,
         \A i \in DOMAIN tasks[SessionOf[t]] :
           tasks[SessionOf[t]][i].turn = t =>
             kind = "continue" /\ i = 1 /\ paused[SessionOf[t]]
  PROVE  LineInv'
<1>1. \A s \in Session : \A i \in DOMAIN tasks'[s] :
        /\ i \in Nat
        /\ \/ i \in DOMAIN tasks[s] /\ tasks'[s][i] = tasks[s][i]
           \/ /\ s = SessionOf[t] /\ \A j \in DOMAIN tasks'[s] : j <= i
              /\ tasks'[s][i].turn = t /\ tasks'[s][i].kind = kind
              /\ tasks'[s][i].run = runs[t] + 1
  BY JoinPlaces
<1>2. /\ runs[t] \in Nat /\ runs'[t] = runs[t] + 1
      /\ \A u \in Turn : u # t => runs'[u] = runs[u]
      /\ \A u \in Turn : runs[u] \in Nat /\ runs[u] <= runs'[u]
  BY DEF CreateTask, TypeOK
<1>3. Numbered'
  <2> SUFFICES ASSUME NEW u \in Session, NEW i \in DOMAIN tasks'[u]
               PROVE  0 < tasks'[u][i].run /\ tasks'[u][i].run <= runs'[tasks'[u][i].turn]
    BY DEF Numbered
  <2>1. CASE i \in DOMAIN tasks[u] /\ tasks'[u][i] = tasks[u][i]
    <3>1. /\ tasks[u][i].turn \in Turn /\ tasks[u][i].run \in Nat
          /\ 0 < tasks[u][i].run /\ tasks[u][i].run <= runs[tasks[u][i].turn]
      BY <2>1, PlaceType DEF LineInv, Numbered
    <3>2. /\ runs[tasks[u][i].turn] \in Nat
          /\ runs[tasks[u][i].turn] <= runs'[tasks[u][i].turn]
          /\ runs'[tasks[u][i].turn] \in Nat
      BY <3>1, <1>2
    <3> QED BY <3>1, <3>2, <2>1
  <2>2. CASE tasks'[u][i].turn = t /\ tasks'[u][i].run = runs[t] + 1
    BY <2>2, <1>2
  <2> QED BY <2>1, <2>2, <1>1
<1>4. Followed'
  <2> SUFFICES ASSUME NEW u \in Session, NEW i \in DOMAIN tasks'[u],
                      NEW j \in DOMAIN tasks'[u],
                      i < j, tasks'[u][i].turn = tasks'[u][j].turn
               PROVE  /\ i = 1 /\ paused'[u]
                      /\ tasks'[u][j].kind = "continue"
                      /\ tasks'[u][i].run < tasks'[u][j].run
    BY DEF Followed
  <2>0. i \in Nat /\ j \in Nat
    BY <1>1
  <2>1. CASE i \in DOMAIN tasks[u] /\ tasks'[u][i] = tasks[u][i]
    <3>1. CASE j \in DOMAIN tasks[u] /\ tasks'[u][j] = tasks[u][j]
      BY <2>1, <3>1 DEF LineInv, Followed
    <3>2. CASE /\ u = SessionOf[t]
               /\ tasks'[u][j].turn = t /\ tasks'[u][j].kind = kind
               /\ tasks'[u][j].run = runs[t] + 1
      <4>1. tasks[u][i].turn = t
        BY <2>1, <3>2
      <4>2. kind = "continue" /\ i = 1 /\ paused[u]
        BY <2>1, <3>2, <4>1
      <4>3. tasks[u][i].run \in Nat /\ tasks[u][i].run <= runs[t]
        BY <2>1, <4>1, PlaceType DEF LineInv, Numbered
      <4> QED BY <2>1, <3>2, <4>2, <4>3, <1>2
    <3> QED BY <3>1, <3>2, <1>1
  <2>2. CASE \A k \in DOMAIN tasks'[u] : k <= i
    BY <2>0, <2>2
  <2> QED BY <2>1, <2>2, <1>1
<1>5. AwaitedPaused'
  <2> SUFFICES ASSUME NEW u \in Session, NEW i \in DOMAIN tasks'[u],
                      approval'[tasks'[u][i].turn] \in {"pending", "granted"}
               PROVE  i = 1 /\ paused[u]
    BY DEF AwaitedPaused, Awaiting
  <2>1. CASE i \in DOMAIN tasks[u] /\ tasks'[u][i] = tasks[u][i]
    <3>1. tasks[u][i].turn \in Turn
      BY <2>1, PlaceType
    <3>2. Awaiting(tasks[u][i].turn)
      BY <2>1, <3>1 DEF Awaiting
    <3> QED BY <2>1, <3>2 DEF LineInv, AwaitedPaused
  <2>2. CASE tasks'[u][i].turn = t
    <3>1. Awaiting(t)'
      BY <2>2 DEF Awaiting
    <3> QED BY <3>1
  <2> QED BY <2>1, <2>2, <1>1
<1>6. AwaitedSubmitted'
  <2> SUFFICES ASSUME NEW u \in Turn, Awaiting(u)'
               PROVE  0 < runs'[u]
    BY DEF AwaitedSubmitted
  <2>1. Awaiting(u) /\ u # t
    OBVIOUS
  <2> QED BY <2>1, <1>2 DEF LineInv, AwaitedSubmitted
<1> QED BY <1>3, <1>4, <1>5, <1>6 DEF LineInv

LEMMA LineHandle ==
  ASSUME LineInv, TypeOK, TaskHome, NEW t \in Turn, Handle(t)
  PROVE  LineInv'
<1>s. SessionOf[t] \in Session
  BY DaemonTurnsAssumption
<1>w. approval \in [Turn -> ApprovalState]
  BY DEF TypeOK
<1>a. ASSUME Awaiting(t), NEW i \in DOMAIN tasks[SessionOf[t]],
             tasks[SessionOf[t]][i].turn = t
      PROVE  i = 1 /\ paused[SessionOf[t]]
  BY <1>a, <1>s DEF LineInv, AwaitedPaused
<1>1. CASE SendInput(t)
  <2>1. CreateTask(t, "execute") /\ runs[t] = 0 /\ UNCHANGED <<paused, approval>>
    BY <1>1 DEF SendInput, locals
  <2>2. \A i \in DOMAIN tasks[SessionOf[t]] : tasks[SessionOf[t]][i].turn # t
    <3> SUFFICES ASSUME NEW i \in DOMAIN tasks[SessionOf[t]],
                        tasks[SessionOf[t]][i].turn = t
                 PROVE  FALSE
      OBVIOUS
    <3>1. /\ 0 < tasks[SessionOf[t]][i].run /\ tasks[SessionOf[t]][i].run <= 0
          /\ tasks[SessionOf[t]][i].run \in Nat
      BY <1>s, <2>1, PlaceType DEF LineInv, Numbered
    <3> QED BY <3>1
  <2>3. \A u \in Turn : Awaiting(u)' => Awaiting(u) /\ u # t
    BY <2>1 DEF Awaiting, LineInv, AwaitedSubmitted
  <2> QED BY <2>1, <2>2, <2>3, LineQueue
<1>2. CASE Approve(t) \/ ContinueTurn(t)
  <2>1. /\ CreateTask(t, "continue") /\ UNCHANGED paused /\ Awaiting(t)
        /\ approval' = [approval EXCEPT ![t] = "continued"]
    BY <1>2 DEF Approve, ContinueTurn, locals, Awaiting
  <2>2. \A u \in Turn : Awaiting(u)' => Awaiting(u) /\ u # t
    BY <2>1, <1>w DEF Awaiting
  <2> QED BY <2>1, <2>2, <1>a, LineQueue
<1>3. CASE CancelTurn(t) \/ Deny(t) \/ GrantElsewhere(t)
  <2>1. UNCHANGED <<tasks, paused, runs>>
    BY <1>3 DEF CancelTurn, Deny, GrantElsewhere, locals
  <2>2. \A u \in Turn : Awaiting(u)' => Awaiting(u)
    BY <1>3, <1>w DEF CancelTurn, Deny, GrantElsewhere, Awaiting, Withdraw
  <2> QED BY <2>1, <2>2, LineStill
<1> QED BY <1>1, <1>2, <1>3 DEF Handle

LEMMA LineRestart ==
  ASSUME LineInv, Restart
  PROVE  LineInv'
<1>1. Numbered' /\ Followed' /\ AwaitedPaused'
  BY DEF Restart, Numbered, Followed, AwaitedPaused
<1>2. AwaitedSubmitted'
  BY DEF Restart, LineInv, AwaitedSubmitted, Awaiting
<1> QED BY <1>1, <1>2 DEF LineInv

LEMMA LineInit == Init => LineInv
<1> SUFFICES ASSUME Init PROVE LineInv
  OBVIOUS
<1>1. Numbered /\ Followed /\ AwaitedPaused
  BY DEF Init, Numbered, Followed, AwaitedPaused
<1>2. AwaitedSubmitted
  BY DEF Init, AwaitedSubmitted, Awaiting
<1> QED BY <1>1, <1>2 DEF LineInv

LEMMA LineNext ==
  ASSUME LineInv, CauseInv, [Next]_vars
  PROVE  LineInv'
<1>0. TypeOK /\ TaskHome
  BY DEF CauseInv
<1>1. ASSUME NEW s \in Session, Begin(s)
      PROVE  LineInv'
  BY <1>0, <1>1, LineStill DEF Begin, BeginExecute, BeginContinue, Awaiting
<1>2. ASSUME NEW s \in Session, Iterate(s) \/ Exhaust(s) \/ Raise(s)
      PROVE  LineInv'
  BY <1>0, <1>2, LineIterate, LineEnd
<1>3. CASE UNCHANGED vars
  BY <1>0, <1>3, LineStill DEF vars, locals, Awaiting
<1> QED BY <1>0, <1>1, <1>2, <1>3, LineHandle, LineRestart DEF Next

(* LineInv holds in every reachable state.                                 *)
LEMMA LineReachable == Spec => []LineInv
BY LineInit, LineNext, CauseReachable, PTL DEF Spec

-----------------------------------------------------------------------------
(* The log only grows.                                                     *)
Grows ==
  \A s \in Session : \A k \in DOMAIN log[s] :
    k \in DOMAIN log'[s] /\ log'[s][k] = log[s][k]

(* A batch that is flushed: what is pending joins the log.                 *)
LEMMA JoinedRows ==
  ASSUME TypeOK, NEW s \in Session, tasks[s] # <<>>
  PROVE  LET joined == log[s] \o PendingRows(s)
         IN  /\ joined \in Seq(Row)
             /\ \A k \in DOMAIN log[s] : k \in DOMAIN joined /\ joined[k] = log[s][k]
             /\ \A k \in DOMAIN joined :
                  k \in DOMAIN log[s] \/ joined[k] = EventRow(Holder(s), "Progress")
<1> DEFINE old == log[s]
           rows == PendingRows(s)
           joined == old \o rows
<1>1. "Progress" \in EventKind
  BY DEF EventKind
<1>2. old \in Seq(Row) /\ rows \in Seq(Row) /\ joined \in Seq(Row)
  BY <1>1, RowsType DEF TypeOK
<1>3. \A k \in DOMAIN rows : rows[k] = EventRow(Holder(s), "Progress")
  BY DEF PendingRows, Holder
<1> HIDE DEF old, rows
<1>5. /\ Len(joined) = Len(old) + Len(rows)
      /\ \A k \in 1..(Len(old) + Len(rows)) :
           joined[k] = IF k <= Len(old) THEN old[k] ELSE rows[k - Len(old)]
  BY <1>2, ConcatProperties
<1>6. /\ Len(old) \in Nat /\ Len(rows) \in Nat
      /\ DOMAIN old = 1..Len(old) /\ DOMAIN rows = 1..Len(rows)
      /\ DOMAIN joined = 1..(Len(old) + Len(rows))
  BY <1>2, <1>5
<1>7. \A k \in DOMAIN joined : k \notin DOMAIN old => k - Len(old) \in DOMAIN rows
  BY <1>6
<1>8. /\ \A k \in DOMAIN old : k \in DOMAIN joined /\ joined[k] = old[k]
      /\ \A k \in DOMAIN joined :
           k \in DOMAIN old \/ joined[k] = EventRow(Holder(s), "Progress")
  BY <1>3, <1>5, <1>6, <1>7
<1> QED BY <1>2, <1>8 DEF old, rows

(* The rows that the end of a stream adds to the log.                      *)
LEMMA BatchRows ==
  ASSUME TypeOK, NEW s \in Session, tasks[s] # <<>>,
         log' = [log EXCEPT ![s] = @ \o PendingRows(s)]
  PROVE  /\ Grows
         /\ \A u \in Session : \A k \in DOMAIN log'[u] :
              \/ k \in DOMAIN log[u]
              \/ u = s /\ log'[u][k] = EventRow(Holder(s), "Progress")
<1>1. /\ log'[s] = log[s] \o PendingRows(s)
      /\ \A u \in Session : u # s => log'[u] = log[u]
  BY DEF TypeOK
<1>2. /\ \A k \in DOMAIN log[s] : k \in DOMAIN log'[s] /\ log'[s][k] = log[s][k]
      /\ \A k \in DOMAIN log'[s] :
           k \in DOMAIN log[s] \/ log'[s][k] = EventRow(Holder(s), "Progress")
  BY <1>1, JoinedRows
<1> QED BY <1>1, <1>2 DEF Grows

(* The rows that an event which flushes the batch adds to the log.         *)
LEMMA FlushRows ==
  ASSUME TypeOK, NEW s \in Session, tasks[s] # <<>>, NEW kind \in EventKind,
         log' = [log EXCEPT ![s] = Append(@ \o PendingRows(s),
                                          EventRow(Holder(s), kind))]
  PROVE  /\ Grows
         /\ \A u \in Session : \A k \in DOMAIN log'[u] :
              \/ k \in DOMAIN log[u]
              \/ u = s /\ \/ log'[u][k] = EventRow(Holder(s), "Progress")
                          \/ log'[u][k] = EventRow(Holder(s), kind)
         /\ \E k \in DOMAIN log'[s] : log'[s][k] = EventRow(Holder(s), kind)
<1> DEFINE joined == log[s] \o PendingRows(s)
           row == EventRow(Holder(s), kind)
           whole == Append(joined, row)
<1>1. log'[s] = whole /\ \A u \in Session : u # s => log'[u] = log[u]
  BY DEF TypeOK
<1>2. /\ joined \in Seq(Row) /\ row \in Row
      /\ \A k \in DOMAIN log[s] : k \in DOMAIN joined /\ joined[k] = log[s][k]
      /\ \A k \in DOMAIN joined :
           k \in DOMAIN log[s] \/ joined[k] = EventRow(Holder(s), "Progress")
  BY JoinedRows, RowsType
<1> HIDE DEF joined, row
<1>3. /\ Len(joined) \in Nat /\ DOMAIN joined = 1..Len(joined)
      /\ DOMAIN whole = 1..(Len(joined) + 1)
      /\ \A k \in 1..Len(joined) : whole[k] = joined[k]
      /\ whole[Len(joined) + 1] = row
  BY <1>2, AppendProperties
<1>4. Len(joined) + 1 \in DOMAIN whole
  BY <1>3
<1>5. /\ \A k \in DOMAIN log[s] : k \in DOMAIN whole /\ whole[k] = log[s][k]
      /\ \A k \in DOMAIN whole :
           \/ k \in DOMAIN log[s] \/ whole[k] = EventRow(Holder(s), "Progress")
           \/ whole[k] = row
      /\ \E k \in DOMAIN whole : whole[k] = row
  BY <1>2, <1>3, <1>4
<1> HIDE DEF whole
<1> QED BY <1>1, <1>5 DEF Grows, row

(* The row that a handler adds to the log.                                 *)
LEMMA HandlerRow ==
  ASSUME TypeOK, NEW t \in Turn, NEW by \in {"cancel", "deny"},
         log' = [log EXCEPT ![SessionOf[t]] = Append(@, CancelRow(t, by))]
  PROVE  /\ Grows
         /\ \A u \in Session : \A k \in DOMAIN log'[u] :
              \/ k \in DOMAIN log[u]
              \/ /\ u = SessionOf[t] /\ log'[u][k] = CancelRow(t, by)
                 /\ k \in Nat /\ \A m \in DOMAIN log'[u] : m \in Nat /\ m <= k
         /\ HasTerminal(t)'
<1> DEFINE home == SessionOf[t]
           row == CancelRow(t, by)
           old == log[home]
           whole == Append(old, row)
<1>1. home \in Session
  BY DaemonTurnsAssumption
<1>2. log'[home] = whole /\ \A u \in Session : u # home => log'[u] = log[u]
  BY <1>1 DEF TypeOK
<1>3. old \in Seq(Row) /\ row \in Row
  BY <1>1, CancelRowType DEF TypeOK
<1>4. row.turn = t /\ row.kind \in Terminal
  BY DEF CancelRow, Terminal
<1> HIDE DEF row, old
<1>5. /\ Len(old) \in Nat /\ DOMAIN old = 1..Len(old)
      /\ DOMAIN whole = 1..(Len(old) + 1)
      /\ \A k \in 1..Len(old) : whole[k] = old[k]
      /\ whole[Len(old) + 1] = row
  BY <1>3, AppendProperties
<1>6. /\ \A k \in DOMAIN old : k \in DOMAIN whole /\ whole[k] = old[k]
      /\ \A k \in DOMAIN whole :
           \/ k \in DOMAIN old
           \/ /\ whole[k] = row
              /\ k \in Nat /\ \A m \in DOMAIN whole : m \in Nat /\ m <= k
      /\ \E k \in DOMAIN whole : whole[k] = row
  <2>1. \A k \in DOMAIN whole : k \in DOMAIN old \/ k = Len(old) + 1
    BY <1>5
  <2>2. \A m \in DOMAIN whole : m \in Nat /\ m <= Len(old) + 1
    BY <1>5
  <2>3. Len(old) + 1 \in DOMAIN whole
    BY <1>5
  <2> QED BY <1>5, <2>1, <2>2, <2>3
<1> HIDE DEF whole
<1>7. Grows
  BY <1>2, <1>6 DEF Grows, old
<1>8. HasTerminal(t)'
  BY <1>2, <1>4, <1>6 DEF HasTerminal
<1>9. \A u \in Session : \A k \in DOMAIN log'[u] :
        \/ k \in DOMAIN log[u]
        \/ /\ u = home /\ log'[u][k] = row
           /\ k \in Nat /\ \A m \in DOMAIN log'[u] : m \in Nat /\ m <= k
  BY <1>1, <1>2, <1>6 DEF old
<1> QED BY <1>7, <1>8, <1>9 DEF row

(* A terminal row stays.                                                   *)
LEMMA TerminalStays ==
  ASSUME Grows, NEW t \in Turn, HasTerminal(t)
  PROVE  HasTerminal(t)'
<1>1. SessionOf[t] \in Session
  BY DaemonTurnsAssumption
<1> QED BY <1>1 DEF Grows, HasTerminal

(* The task with the lock is the first in its line.                        *)
LEMMA HolderPlace ==
  ASSUME TypeOK, TaskHome, NEW s \in Session, tasks[s] # <<>>
  PROVE  /\ 1 \in DOMAIN tasks[s] /\ Holder(s) = tasks[s][1]
         /\ Holder(s).turn \in Turn /\ SessionOf[Holder(s).turn] = s
<1>1. tasks[s] \in Seq(Task)
  BY DEF TypeOK
<1> QED BY <1>1, HolderType, HolderHasTask

-----------------------------------------------------------------------------
(* A turn is known: a client can cancel it, or something final about it is *)
(* recorded.                                                               *)
Ended == {t \in Turn : HasTerminal(t)}
Known == active \cup Ended

(* The turns with a first task, and those whose task has begun, are known. *)
RunningKnown ==
  \A s \in Session : \A i \in DOMAIN tasks[s] :
    tasks[s][i].kind = "execute" \/ (i = 1 /\ stage[s] # "waiting")
      => tasks[s][i].turn \in Known

(* Until a restart the turns that wait for a decision are known, or their  *)
(* stream was cut.                                                         *)
AwaitingKnown ==
  restarts = 0 => \A t \in Turn : Awaiting(t) => t \in Known \/ t \in cut

KnownInv == RunningKnown /\ AwaitingKnown

LEMMA EndedStays ==
  ASSUME Grows
  PROVE  Ended \subseteq Ended'
BY TerminalStays DEF Ended

LEMMA KnownBegin ==
  ASSUME KnownInv, CauseInv, NEW s \in Session, Begin(s)
  PROVE  KnownInv'
<1>0. TypeOK /\ TaskHome
  BY DEF CauseInv
<1>1. /\ tasks[s] # <<>> /\ UNCHANGED <<tasks, log, approval, restarts>>
      /\ stage' = [stage EXCEPT ![s] = "streaming"]
      /\ active \subseteq active'
      /\ Holder(s).kind = "execute" \/ Holder(s).turn \in active'
      /\ cut' = cut \/ (cut' = cut \ {Holder(s).turn} /\ Holder(s).turn \in active')
  <2>1. CASE BeginExecute(s)
    BY <2>1 DEF BeginExecute
  <2>2. CASE BeginContinue(s)
    BY <2>2 DEF BeginContinue
  <2> QED BY <2>1, <2>2 DEF Begin
<1>2. \A t \in Turn : t \in Known => t \in Known'
  BY <1>1 DEF Known, Ended, HasTerminal
<1>3. RunningKnown'
  <2> SUFFICES ASSUME NEW u \in Session, NEW i \in DOMAIN tasks[u],
                      tasks[u][i].kind = "execute" \/ (i = 1 /\ stage'[u] # "waiting")
               PROVE  tasks[u][i].turn \in Known'
    BY <1>1 DEF RunningKnown
  <2>1. tasks[u][i].turn \in Turn
    BY <1>0, PlaceType
  <2>2. CASE tasks[u][i].kind = "execute" \/ (i = 1 /\ stage[u] # "waiting")
    BY <2>1, <2>2, <1>1, <1>2 DEF KnownInv, RunningKnown
  <2>3. CASE u = s /\ i = 1 /\ tasks[u][i].kind # "execute"
    BY <2>3, <1>0, <1>1, HolderPlace DEF Known
  <2>4. u # s => stage'[u] = stage[u]
    BY <1>0, <1>1 DEF TypeOK
  <2> QED BY <2>2, <2>3, <2>4
<1>4. AwaitingKnown'
  <2> SUFFICES ASSUME restarts = 0, NEW t \in Turn, Awaiting(t)
               PROVE  t \in Known' \/ t \in cut'
    BY <1>1 DEF AwaitingKnown, Awaiting
  <2>1. t \in Known \/ t \in cut
    BY DEF KnownInv, AwaitingKnown
  <2> QED BY <2>1, <1>1, <1>2 DEF Known
<1> QED BY <1>3, <1>4 DEF KnownInv

LEMMA KnownIterate ==
  ASSUME KnownInv, CauseInv, NEW s \in Session, Iterate(s)
  PROVE  KnownInv'
<1>0. TypeOK /\ TaskHome
  BY DEF CauseInv
<1> DEFINE h == Holder(s).turn
<1>1. PICK kind \in EventKind :
        /\ Holds(s) /\ KernelYields(s, kind)
        /\ UNCHANGED <<tasks, cut, restarts>>
        /\ \/ UNCHANGED <<active, log>>
           \/ /\ log' = [log EXCEPT ![s] = Append(@ \o PendingRows(s),
                                                  EventRow(Holder(s), kind))]
              /\ active' = active \/ (active' = active \ {h} /\ kind \in Terminal)
  BY DEF Iterate, Suppress, Flush, Buffer, EventKind
<1>2. tasks[s] # <<>> /\ stage[s] # "waiting"
  BY <1>1 DEF Holds
<1>3. 1 \in DOMAIN tasks[s] /\ h = tasks[s][1].turn /\ h \in Turn /\ SessionOf[h] = s
  BY <1>0, <1>2, HolderPlace
<1>4. \A t \in Turn : t \in Known => t \in Known'
  <2>1. CASE UNCHANGED <<active, log>>
    BY <2>1 DEF Known, Ended, HasTerminal
  <2>2. CASE log' = [log EXCEPT ![s] = Append(@ \o PendingRows(s),
                                              EventRow(Holder(s), kind))]
    <3>1. Grows /\ \E k \in DOMAIN log'[s] : log'[s][k] = EventRow(Holder(s), kind)
      BY <2>2, <1>0, <1>2, FlushRows
    <3>2. Ended \subseteq Ended'
      BY <3>1, EndedStays
    <3>3. kind \in Terminal => h \in Ended'
      BY <3>1, <1>3 DEF Ended, HasTerminal, EventRow
    <3>4. active' = active \/ (active' = active \ {h} /\ kind \in Terminal)
      BY <1>1
    <3> HIDE DEF h
    <3> QED BY <3>2, <3>3, <3>4 DEF Known
  <2> QED BY <2>1, <2>2, <1>1
<1>5. RunningKnown'
  <2> SUFFICES ASSUME NEW u \in Session, NEW i \in DOMAIN tasks[u],
                      tasks[u][i].kind = "execute" \/ (i = 1 /\ stage'[u] # "waiting")
               PROVE  tasks[u][i].turn \in Known'
    BY <1>1 DEF RunningKnown
  <2>1. tasks[u][i].turn \in Turn
    BY <1>0, PlaceType
  <2>2. stage'[u] # "waiting" => stage[u] # "waiting"
    BY <1>0, <1>1, <1>2 DEF KernelYields, TypeOK
  <2>3. tasks[u][i].turn \in Known
    BY <2>2 DEF KnownInv, RunningKnown
  <2>4. tasks'[u][i].turn = tasks[u][i].turn
    BY <1>1
  <2> QED BY <2>1, <2>3, <2>4, <1>4
<1>6. h \in Known
  BY <1>2, <1>3 DEF KnownInv, RunningKnown
<1>7. AwaitingKnown'
  <2> SUFFICES ASSUME restarts = 0, NEW t \in Turn, Awaiting(t)'
               PROVE  t \in Known' \/ t \in cut
    BY <1>1 DEF AwaitingKnown
  <2>1. t = h \/ Awaiting(t)
    BY <1>0, <1>1 DEF KernelYields, Register, Awaiting, TypeOK
  <2>2. CASE t = h
    BY <2>2, <1>3, <1>4, <1>6
  <2>3. CASE Awaiting(t)
    BY <2>3, <1>4 DEF KnownInv, AwaitingKnown
  <2> QED BY <2>1, <2>2, <2>3
<1> QED BY <1>5, <1>7 DEF KnownInv

LEMMA KnownEnd ==
  ASSUME KnownInv, LineInv, CauseInv, NEW s \in Session, Exhaust(s) \/ Raise(s)
  PROVE  KnownInv'
<1>0. TypeOK /\ TaskHome
  BY DEF CauseInv
<1> DEFINE h == Holder(s).turn
<1>1. /\ tasks[s] # <<>> /\ Release(s) /\ UNCHANGED restarts /\ cut \subseteq cut'
      /\ active' = active \/ active' = active \ {h}
  BY DEF Exhaust, Raise, Finish, Holds
<1>2. /\ \A i \in DOMAIN tasks'[s] :
           /\ i \in Nat /\ i + 1 \in DOMAIN tasks[s] /\ i + 1 # 1
           /\ tasks'[s][i] = tasks[s][i + 1]
      /\ \A u \in Session : u # s => tasks'[u] = tasks[u]
      /\ stage'[s] = "waiting"
      /\ \A u \in Session : u # s => stage'[u] = stage[u]
  BY <1>0, <1>1, LeavePlaces DEF Release, TypeOK
<1>3. 1 \in DOMAIN tasks[s] /\ h = tasks[s][1].turn /\ h \in Turn /\ SessionOf[h] = s
  BY <1>0, <1>1, HolderPlace
<1>4. /\ Grows
      /\ \/ active' = active
         \/ ~paused[s]
         \/ h \in Ended'
  <2>1. CASE Exhaust(s)
    BY <2>1, <1>0, <1>1, BatchRows DEF Exhaust, Finish
  <2>2. CASE Raise(s) /\ h \in cancelled
    BY <2>2 DEF Raise, Grows
  <2>3. CASE Raise(s) /\ h \notin cancelled
    <3>1. "TurnFailed" \in EventKind /\ "TurnFailed" \in Terminal
      BY DEF EventKind, Critical, Terminal
    <3>2. /\ Grows
          /\ \E k \in DOMAIN log'[s] : log'[s][k] = EventRow(Holder(s), "TurnFailed")
      BY <2>3, <3>1, <1>0, <1>1, FlushRows DEF Raise
    <3>3. h \in Ended'
      BY <3>1, <3>2, <1>3 DEF Ended, HasTerminal, EventRow
    <3> QED BY <3>2, <3>3
  <2> QED BY <2>1, <2>2, <2>3
<1>a. /\ \A t \in Turn : t # h => approval'[t] = approval[t]
      /\ \/ approval'[h] = approval[h]
         \/ approval'[h] = "withdrawn"
         \/ h \in cut'
  <2>1. CASE Raise(s)
    BY <2>1 DEF Raise
  <2>2. CASE Exhaust(s)
    BY <1>0, <1>1, <2>2, EarlyEnd
  <2> QED BY <2>1, <2>2
<1> HIDE DEF h
<1>5. \A t \in Turn : t \in Known /\ t # h => t \in Known'
  BY <1>1, <1>4, EndedStays DEF Known
<1>6. RunningKnown'
  <2> SUFFICES ASSUME NEW u \in Session, NEW i \in DOMAIN tasks'[u],
                      \/ tasks'[u][i].kind = "execute"
                      \/ i = 1 /\ stage'[u] # "waiting"
               PROVE  tasks'[u][i].turn \in Known'
    BY DEF RunningKnown
  <2>1. CASE u # s
    <3>1. tasks[u][i].turn \in Turn /\ tasks[u][i].turn # h
      BY <2>1, <1>0, <1>2, <1>3, PlaceType DEF TaskHome
    <3>2. tasks[u][i].turn \in Known
      BY <2>1, <1>2 DEF KnownInv, RunningKnown
    <3> QED BY <2>1, <3>1, <3>2, <1>2, <1>5
  <2>2. CASE u = s
    <3>1. /\ i + 1 \in DOMAIN tasks[s] /\ 1 < i + 1
          /\ tasks'[s][i] = tasks[s][i + 1]
      <4>1. /\ i \in Nat /\ i + 1 \in DOMAIN tasks[s] /\ i + 1 # 1
            /\ tasks'[s][i] = tasks[s][i + 1]
        BY <2>2, <1>2
      <4> QED BY <4>1
    <3>2. tasks[s][i + 1].kind = "execute"
      BY <2>2, <3>1, <1>2
    <3>3. tasks[s][i + 1].turn # h
      BY <3>1, <3>2, <1>3 DEF LineInv, Followed
    <3>4. tasks[s][i + 1].turn \in Turn /\ tasks[s][i + 1].turn \in Known
      BY <3>1, <3>2, <1>0, PlaceType DEF KnownInv, RunningKnown
    <3> QED BY <2>2, <3>1, <3>3, <3>4, <1>5
  <2> QED BY <2>1, <2>2
<1>7. AwaitingKnown'
  <2> SUFFICES ASSUME restarts = 0, NEW t \in Turn, approval'[t] \in {"pending", "granted"}
               PROVE  t \in Known' \/ t \in cut'
    BY <1>1 DEF AwaitingKnown, Awaiting
  <2>1. CASE Awaiting(t)
    <3>1. t \in Known \/ t \in cut
      BY <2>1 DEF KnownInv, AwaitingKnown
    <3>2. CASE t = h
      <4>1. paused[s]
        BY <2>1, <3>2, <1>3 DEF LineInv, AwaitedPaused
      <4> QED BY <3>1, <3>2, <4>1, <1>1, <1>4, EndedStays DEF Known
    <3> QED BY <3>1, <3>2, <1>1, <1>5
  <2>2. CASE ~Awaiting(t)
    BY <2>2, <1>a DEF Awaiting
  <2> QED BY <2>1, <2>2
<1> QED BY <1>6, <1>7 DEF KnownInv

LEMMA KnownHandle ==
  ASSUME KnownInv, CauseInv, NEW t \in Turn, Handle(t)
  PROVE  KnownInv'
<1>0. TypeOK /\ TaskHome /\ approval \in [Turn -> ApprovalState]
  BY DEF CauseInv, TypeOK
<1>1. ASSUME NEW kind \in {"execute", "continue"}, CreateTask(t, kind),
             UNCHANGED <<stage, log, cut, restarts>>, active \subseteq active',
             kind = "execute" => t \in active',
             \A u \in Turn : Awaiting(u)' => Awaiting(u)
      PROVE  KnownInv'
  <2>1. \A u \in Turn : u \in Known => u \in Known'
    BY <1>1 DEF Known, Ended, HasTerminal
  <2>2. RunningKnown'
    <3> SUFFICES ASSUME NEW u \in Session, NEW i \in DOMAIN tasks'[u],
                        \/ tasks'[u][i].kind = "execute"
                        \/ i = 1 /\ stage[u] # "waiting"
                 PROVE  tasks'[u][i].turn \in Known'
      BY <1>1 DEF RunningKnown
    <3>1. \/ i \in DOMAIN tasks[u] /\ tasks'[u][i] = tasks[u][i]
          \/ /\ tasks[u] # <<>> => i # 1
             /\ tasks'[u][i].turn = t /\ tasks'[u][i].kind = kind
      BY <1>0, <1>1, JoinPlaces
    <3>2. CASE i \in DOMAIN tasks[u] /\ tasks'[u][i] = tasks[u][i]
      <4>1. tasks[u][i].turn \in Turn /\ tasks[u][i].turn \in Known
        BY <3>2, <1>0, PlaceType DEF KnownInv, RunningKnown
      <4> QED BY <3>2, <4>1, <2>1
    <3>3. CASE /\ tasks[u] # <<>> => i # 1
               /\ tasks'[u][i].turn = t /\ tasks'[u][i].kind = kind
      <4>1. kind = "execute"
        BY <3>3 DEF CauseInv, BegunHolds
      <4> QED BY <3>3, <4>1, <1>1 DEF Known
    <3> QED BY <3>1, <3>2, <3>3
  <2>3. AwaitingKnown'
    BY <1>1, <2>1 DEF KnownInv, AwaitingKnown
  <2> QED BY <2>2, <2>3 DEF KnownInv
<1>2. ASSUME UNCHANGED <<tasks, stage, cut, restarts>>,
             \A u \in Turn : u \in Known => u \in Known',
             \A u \in Turn : Awaiting(u)' => Awaiting(u)
      PROVE  KnownInv'
  <2>1. RunningKnown'
    <3> SUFFICES ASSUME NEW u \in Session, NEW i \in DOMAIN tasks[u],
                        \/ tasks[u][i].kind = "execute"
                        \/ i = 1 /\ stage[u] # "waiting"
                 PROVE  tasks'[u][i].turn \in Known'
      BY <1>2 DEF RunningKnown
    <3>1. tasks[u][i].turn \in Turn /\ tasks[u][i].turn \in Known
      BY <1>0, PlaceType DEF KnownInv, RunningKnown
    <3>2. tasks'[u][i].turn = tasks[u][i].turn
      BY <1>2
    <3> QED BY <3>1, <3>2, <1>2
  <2>2. AwaitingKnown'
    BY <1>2 DEF KnownInv, AwaitingKnown
  <2> QED BY <2>1, <2>2 DEF KnownInv
<1>3. CASE SendInput(t)
  <2>1. /\ CreateTask(t, "execute") /\ UNCHANGED <<stage, log, cut, restarts, approval>>
        /\ active \subseteq active' /\ t \in active'
    BY <1>3 DEF SendInput, locals
  <2> QED BY <2>1, <1>1 DEF Awaiting
<1>4. CASE Approve(t) \/ ContinueTurn(t)
  <2>1. /\ CreateTask(t, "continue") /\ UNCHANGED <<stage, log, cut, restarts, active>>
        /\ approval' = [approval EXCEPT ![t] = "continued"]
    BY <1>4 DEF Approve, ContinueTurn, locals
  <2>2. \A u \in Turn : Awaiting(u)' => Awaiting(u)
    BY <2>1, <1>0 DEF Awaiting
  <2> QED BY <2>1, <2>2, <1>1
<1>5. CASE CancelTurn(t) \/ Deny(t)
  <2>1. /\ UNCHANGED <<tasks, stage, cut, restarts>>
        /\ active' = active \ {t}
        /\ \E by \in {"cancel", "deny"} :
             log' = [log EXCEPT ![SessionOf[t]] = Append(@, CancelRow(t, by))]
    BY <1>5 DEF CancelTurn, Deny, locals
  <2>2. Grows /\ t \in Ended'
    BY <2>1, <1>0, HandlerRow DEF Ended
  <2>3. \A u \in Turn : u \in Known => u \in Known'
    BY <2>1, <2>2, EndedStays DEF Known
  <2>4. \A u \in Turn : Awaiting(u)' => Awaiting(u)
    BY <1>5, <1>0 DEF CancelTurn, Deny, Awaiting, Withdraw
  <2> QED BY <2>1, <2>3, <2>4, <1>2
<1>6. CASE GrantElsewhere(t)
  <2>1. UNCHANGED <<tasks, stage, cut, restarts, active, log>>
    BY <1>6 DEF GrantElsewhere, locals
  <2>2. \A u \in Turn : Awaiting(u)' => Awaiting(u)
    BY <1>6, <1>0 DEF GrantElsewhere, Awaiting
  <2>3. \A u \in Turn : u \in Known => u \in Known'
    BY <2>1 DEF Known, Ended, HasTerminal
  <2> QED BY <2>1, <2>2, <2>3, <1>2
<1> QED BY <1>3, <1>4, <1>5, <1>6 DEF Handle

LEMMA KnownNext ==
  ASSUME KnownInv, LineInv, CauseInv, [Next]_vars
  PROVE  KnownInv'
<1>1. ASSUME NEW s \in Session, Begin(s) \/ Iterate(s) \/ Exhaust(s) \/ Raise(s)
      PROVE  KnownInv'
  BY <1>1, KnownBegin, KnownIterate, KnownEnd
<1>2. CASE Restart
  <2>1. restarts' # 0
    BY <1>2 DEF Restart, CauseInv, TypeOK
  <2>2. RunningKnown'
    BY <1>2 DEF Restart, RunningKnown
  <2> QED BY <2>1, <2>2 DEF KnownInv, AwaitingKnown
<1>3. CASE UNCHANGED vars
  BY <1>3 DEF vars, locals, KnownInv, RunningKnown, AwaitingKnown, Known, Ended,
     HasTerminal, Awaiting
<1> QED BY <1>1, <1>2, <1>3, KnownHandle DEF Next

LEMMA KnownReachable == Spec => []KnownInv
<1>1. Init => KnownInv
  <2> SUFFICES ASSUME Init PROVE KnownInv
    OBVIOUS
  <2>1. RunningKnown /\ AwaitingKnown
    BY DEF Init, RunningKnown, AwaitingKnown, Awaiting
  <2> QED BY <2>1 DEF KnownInv
<1> QED BY <1>1, KnownNext, LineReachable, CauseReachable, PTL DEF Spec

(* _require_active_turn accepts a request to cancel whatever still runs    *)
(* and has no recorded outcome.                                            *)
THEOREM Cancellable == Spec => []RunningIsCancellable
<1>1. KnownInv => RunningIsCancellable
  <2> SUFFICES ASSUME RunningKnown, NEW t \in Turn,
                      NEW i \in DOMAIN tasks[SessionOf[t]],
                      tasks[SessionOf[t]][i].turn = t,
                      \/ tasks[SessionOf[t]][i].kind = "execute"
                      \/ i = 1 /\ stage[SessionOf[t]] # "waiting"
               PROVE  t \in Known
    BY DEF KnownInv, RunningIsCancellable, Known, Ended
  <2>1. SessionOf[t] \in Session
    BY DaemonTurnsAssumption
  <2> QED BY <2>1 DEF RunningKnown
<1> QED BY <1>1, KnownReachable, PTL

(* Until a restart a turn that waits for a decision keeps its place in     *)
(* _active_turns, unless its outcome is recorded or its stream ended before *)
(* it told of the request.                                                 *)
THEOREM AwaitingActive == Spec => []AwaitingStaysActive
<1>1. KnownInv => AwaitingStaysActive
  BY DEF KnownInv, AwaitingKnown, AwaitingStaysActive, Known, Ended
<1> QED BY <1>1, KnownReachable, PTL

-----------------------------------------------------------------------------
(* A cancellation is filed under a run that had a task, or under none (0). *)
CancelNumbered ==
  \A s \in Session : \A k \in DOMAIN log[s] :
    log[s][k].by = "cancel" => log[s][k].run <= runs[log[s][k].turn]

(* The run of the task at a place of a line was cancelled.                 *)
Stopped(s, i) ==
  \E k \in DOMAIN log[s] :
    /\ log[s][k].by = "cancel"
    /\ log[s][k].turn = tasks[s][i].turn
    /\ log[s][k].run = tasks[s][i].run

(* The events of a cancelled run are suppressed as long as its task lives. *)
StoppedMarked ==
  \A s \in Session : \A i \in DOMAIN tasks[s] :
    Stopped(s, i) => tasks[s][i].turn \in cancelled

(* A cancellation is not filed under the second task of a turn, whose mark *)
(* the first one removes at its end.                                       *)
FollowerSpared ==
  \A s \in Session : \A i, j \in DOMAIN tasks[s] :
    i < j /\ tasks[s][i].turn = tasks[s][j].turn => ~Stopped(s, j)

CancelInv ==
  CancelNumbered /\ StoppedMarked /\ FollowerSpared /\ LateCriticalSuppressed

(* What a row of the log holds.                                            *)
LEMMA LoggedType ==
  ASSUME TypeOK, NEW s \in Session, NEW k \in DOMAIN log[s]
  PROVE  log[s][k].turn \in Turn /\ log[s][k].run \in Nat /\ k \in Nat
<1>1. log[s] \in Seq(Row)
  BY DEF TypeOK
<1>2. log[s][k] \in Row /\ k \in Nat
  BY <1>1
<1> QED BY <1>2 DEF Row

(* A cancellation reaches the first task of the turn.                      *)
LEMMA CancelledRunLeast ==
  ASSUME TypeOK, NEW t \in Turn
  PROVE  /\ CancelledRun(t) = 0 \/ CancelledRun(t) \in RunsInLine(t)
         /\ \A q \in RunsInLine(t) : CancelledRun(t) <= q
<1>1. SessionOf[t] \in Session
  BY DaemonTurnsAssumption
<1>2. RunsInLine(t) \in SUBSET Nat
  BY <1>1, PlaceType DEF RunsInLine
<1>3. CASE RunsInLine(t) = {}
  BY <1>3 DEF CancelledRun
<1>4. CASE RunsInLine(t) # {}
  BY <1>2, <1>4, LeastElement DEF CancelledRun
<1> QED BY <1>3, <1>4

(* Steps that neither move the line nor add rows.                          *)
LEMMA CancelStill ==
  ASSUME CancelInv, UNCHANGED <<tasks, log, runs>>, cancelled \subseteq cancelled'
  PROVE  CancelInv'
<1>1. CancelNumbered' /\ LateCriticalSuppressed'
  BY DEF CancelInv, CancelNumbered, LateCriticalSuppressed
<1>2. StoppedMarked' /\ FollowerSpared'
  BY DEF CancelInv, StoppedMarked, FollowerSpared, Stopped
<1> QED BY <1>1, <1>2 DEF CancelInv

(* The rows of a task: they cancel nothing, and the run of a task that may *)
(* add a critical one was not cancelled.                                   *)
LEMMA RunRowsSafe ==
  ASSUME CancelInv, TypeOK, TaskHome, Grows, UNCHANGED runs, NEW s \in Session,
         tasks[s] # <<>>, NEW last \in EventKind,
         last = "Progress" \/ Holder(s).turn \notin cancelled,
         \A u \in Session : \A k \in DOMAIN log'[u] :
           \/ k \in DOMAIN log[u]
           \/ u = s /\ \/ log'[u][k] = EventRow(Holder(s), "Progress")
                       \/ log'[u][k] = EventRow(Holder(s), last)
  PROVE  /\ CancelNumbered' /\ LateCriticalSuppressed'
         /\ \A u \in Session : \A k \in DOMAIN log'[u] :
              log'[u][k].by = "cancel" =>
                k \in DOMAIN log[u] /\ log'[u][k] = log[u][k]
<1> DEFINE task == Holder(s)
<1>0. 1 \in DOMAIN tasks[s] /\ task = tasks[s][1]
  BY HolderPlace
<1>1. \A u \in Session : \A k \in DOMAIN log'[u] :
        \/ k \in DOMAIN log[u] /\ log'[u][k] = log[u][k]
        \/ /\ u = s /\ log'[u][k].by = "run"
           /\ log'[u][k].turn = task.turn /\ log'[u][k].run = task.run
           /\ log'[u][k].kind = "Progress" \/ log'[u][k].kind = last
  BY DEF Grows, EventRow
<1> HIDE DEF task
<1>2. \A u \in Session : \A k \in DOMAIN log'[u] :
        log'[u][k].by = "cancel" => k \in DOMAIN log[u] /\ log'[u][k] = log[u][k]
  BY <1>1
<1>3. CancelNumbered'
  <2> SUFFICES ASSUME NEW u \in Session, NEW k \in DOMAIN log'[u],
                      log'[u][k].by = "cancel"
               PROVE  log'[u][k].run <= runs[log'[u][k].turn]
    BY DEF CancelNumbered
  <2> QED BY <1>2 DEF CancelInv, CancelNumbered
<1>4. LateCriticalSuppressed'
  <2> SUFFICES ASSUME NEW u \in Session, NEW i \in DOMAIN log'[u],
                      NEW j \in DOMAIN log'[u],
                      i < j, log'[u][i].by = "cancel", log'[u][j].by = "run",
                      log'[u][i].turn = log'[u][j].turn,
                      log'[u][i].run = log'[u][j].run
               PROVE  log'[u][j].kind = "Progress"
    BY DEF LateCriticalSuppressed
  <2>1. i \in DOMAIN log[u] /\ log'[u][i] = log[u][i]
    BY <1>2
  <2>2. CASE j \in DOMAIN log[u] /\ log'[u][j] = log[u][j]
    BY <2>1, <2>2 DEF CancelInv, LateCriticalSuppressed
  <2>3. CASE /\ u = s
             /\ log'[u][j].turn = task.turn /\ log'[u][j].run = task.run
             /\ log'[u][j].kind = last
    <3>1. Stopped(s, 1)
      BY <2>1, <2>3, <1>0 DEF Stopped
    <3>2. task.turn \in cancelled
      BY <3>1, <1>0 DEF CancelInv, StoppedMarked
    <3> QED BY <2>3, <3>2 DEF task
  <2> QED BY <2>2, <2>3, <1>1
<1> QED BY <1>2, <1>3, <1>4

LEMMA CancelIterate ==
  ASSUME CancelInv, TypeOK, TaskHome, NEW s \in Session, Iterate(s)
  PROVE  CancelInv'
<1>1. CASE UNCHANGED log
  BY <1>1, CancelStill DEF Iterate, Suppress, Flush, Buffer
<1>2. ASSUME NEW kind \in EventKind, Flush(s, kind)
      PROVE  CancelInv'
  <2>1. /\ tasks[s] # <<>> /\ UNCHANGED <<tasks, runs, cancelled>>
        /\ Holder(s).turn \notin cancelled
        /\ log' = [log EXCEPT ![s] = Append(@ \o PendingRows(s),
                                            EventRow(Holder(s), kind))]
    BY <1>2 DEF Flush, Holds, Suppressed
  <2>2. /\ Grows
        /\ \A u \in Session : \A k \in DOMAIN log'[u] :
             \/ k \in DOMAIN log[u]
             \/ u = s /\ \/ log'[u][k] = EventRow(Holder(s), "Progress")
                         \/ log'[u][k] = EventRow(Holder(s), kind)
    BY <2>1, FlushRows
  <2>3. /\ CancelNumbered' /\ LateCriticalSuppressed'
        /\ \A u \in Session : \A k \in DOMAIN log'[u] :
             log'[u][k].by = "cancel" =>
               k \in DOMAIN log[u] /\ log'[u][k] = log[u][k]
    BY <2>1, <2>2, RunRowsSafe
  <2>4. \A u \in Session : \A i : Stopped(u, i)' => Stopped(u, i)
    BY <2>1, <2>3 DEF Stopped
  <2>5. StoppedMarked' /\ FollowerSpared'
    BY <2>1, <2>4 DEF CancelInv, StoppedMarked, FollowerSpared
  <2> QED BY <2>3, <2>5 DEF CancelInv
<1> QED BY <1>1, <1>2 DEF Iterate, Suppress, Buffer

LEMMA CancelEnd ==
  ASSUME CancelInv, LineInv, TypeOK, TaskHome, NEW s \in Session, Exhaust(s) \/ Raise(s)
  PROVE  CancelInv'
<1> DEFINE h == Holder(s).turn
<1>1. /\ tasks[s] # <<>> /\ Release(s) /\ UNCHANGED runs
      /\ cancelled' = cancelled \ {h}
  BY DEF Exhaust, Raise, Finish, Holds
<1>2. /\ \A i \in DOMAIN tasks'[s] :
           /\ i \in Nat /\ i + 1 \in DOMAIN tasks[s] /\ i + 1 # 1
           /\ tasks'[s][i] = tasks[s][i + 1]
      /\ \A u \in Session : u # s => tasks'[u] = tasks[u]
  BY <1>1, LeavePlaces
<1>3. 1 \in DOMAIN tasks[s] /\ Holder(s) = tasks[s][1] /\ SessionOf[h] = s
  BY <1>1, HolderPlace
<1>4. /\ CancelNumbered' /\ LateCriticalSuppressed'
      /\ \A u \in Session : \A k \in DOMAIN log'[u] :
           log'[u][k].by = "cancel" => k \in DOMAIN log[u] /\ log'[u][k] = log[u][k]
  <2>1. CASE Exhaust(s)
    <3>1. "Progress" \in EventKind
      BY DEF EventKind
    <3>2. /\ Grows
          /\ \A u \in Session : \A k \in DOMAIN log'[u] :
               k \in DOMAIN log[u]
               \/ (u = s /\ log'[u][k] = EventRow(Holder(s), "Progress"))
      BY <2>1, <1>1, BatchRows DEF Exhaust
    <3> QED BY <3>1, <3>2, <1>1, RunRowsSafe
  <2>2. CASE Raise(s) /\ h \in cancelled
    BY <2>2, <1>1 DEF Raise, CancelInv, CancelNumbered, LateCriticalSuppressed
  <2>3. CASE Raise(s) /\ h \notin cancelled
    <3>1. "TurnFailed" \in EventKind
      BY DEF EventKind, Critical, Terminal
    <3>2. log' = [log EXCEPT ![s] = Append(@ \o PendingRows(s),
                                           EventRow(Holder(s), "TurnFailed"))]
      BY <2>3 DEF Raise
    <3>3. /\ Grows
          /\ \A u \in Session : \A k \in DOMAIN log'[u] :
               \/ k \in DOMAIN log[u]
               \/ u = s /\ \/ log'[u][k] = EventRow(Holder(s), "Progress")
                           \/ log'[u][k] = EventRow(Holder(s), "TurnFailed")
      BY <3>1, <3>2, <1>1, FlushRows
    <3> QED BY <2>3, <3>1, <3>3, <1>1, RunRowsSafe
  <2> QED BY <2>1, <2>2, <2>3
<1> HIDE DEF h
<1>5. ASSUME NEW u \in Session, NEW i \in DOMAIN tasks'[u], Stopped(u, i)'
      PROVE  \E p \in DOMAIN tasks[u] : /\ tasks'[u][i] = tasks[u][p]
                                        /\ (p = i /\ u # s) \/ (p = i + 1 /\ u = s)
                                        /\ Stopped(u, p)
  <2>1. PICK k \in DOMAIN log'[u] : /\ log'[u][k].by = "cancel"
                                    /\ log'[u][k].turn = tasks'[u][i].turn
                                    /\ log'[u][k].run = tasks'[u][i].run
    BY <1>5 DEF Stopped
  <2>2. k \in DOMAIN log[u] /\ log'[u][k] = log[u][k]
    BY <2>1, <1>4
  <2>3. PICK p \in DOMAIN tasks[u] : /\ tasks'[u][i] = tasks[u][p]
                                     /\ (p = i /\ u # s) \/ (p = i + 1 /\ u = s)
    <3>1. CASE u = s
      BY <3>1, <1>2
    <3>2. CASE u # s
      <4>1. i \in DOMAIN tasks[u] /\ tasks'[u][i] = tasks[u][i]
        BY <3>2, <1>2
      <4> QED BY <3>2, <4>1
    <3> QED BY <3>1, <3>2
  <2>4. Stopped(u, p)
    BY <2>1, <2>2, <2>3 DEF Stopped
  <2> QED BY <2>3, <2>4
<1>6. StoppedMarked'
  <2> SUFFICES ASSUME NEW u \in Session, NEW i \in DOMAIN tasks'[u], Stopped(u, i)'
               PROVE  tasks'[u][i].turn \in cancelled'
    BY DEF StoppedMarked
  <2>1. PICK p \in DOMAIN tasks[u] : /\ tasks'[u][i] = tasks[u][p]
                                     /\ (p = i /\ u # s) \/ (p = i + 1 /\ u = s)
                                     /\ Stopped(u, p)
    BY <1>5
  <2>2. tasks[u][p].turn \in cancelled
    BY <2>1 DEF CancelInv, StoppedMarked
  <2>3. tasks[u][p].turn # h
    <3>1. CASE u # s
      BY <3>1, <1>3 DEF TaskHome
    <3>2. CASE u = s
      <4>1. 1 < p
        BY <2>1, <3>2, <1>2
      <4> QED BY <2>1, <3>2, <4>1, <1>3 DEF CancelInv, FollowerSpared, h
    <3> QED BY <3>1, <3>2
  <2> QED BY <2>1, <2>2, <2>3, <1>1
<1>7. FollowerSpared'
  <2> SUFFICES ASSUME NEW u \in Session, NEW i \in DOMAIN tasks'[u],
                      NEW j \in DOMAIN tasks'[u],
                      i < j, tasks'[u][i].turn = tasks'[u][j].turn, Stopped(u, j)'
               PROVE  FALSE
    BY DEF FollowerSpared
  <2>1. PICK p \in DOMAIN tasks[u] : /\ tasks'[u][j] = tasks[u][p]
                                     /\ (p = j /\ u # s) \/ (p = j + 1 /\ u = s)
                                     /\ Stopped(u, p)
    BY <1>5
  <2>2. CASE u # s
    BY <2>1, <2>2, <1>2 DEF CancelInv, FollowerSpared
  <2>3. CASE u = s
    <3>1. i + 1 < p /\ i + 1 \in DOMAIN tasks[s] /\ tasks'[s][i] = tasks[s][i + 1]
      BY <2>1, <2>3, <1>2
    <3> QED BY <2>1, <2>3, <3>1 DEF CancelInv, FollowerSpared
  <2> QED BY <2>2, <2>3
<1> QED BY <1>4, <1>6, <1>7 DEF CancelInv

LEMMA CancelQueue ==
  ASSUME CancelInv, TypeOK, NEW t \in Turn, NEW kind \in {"execute", "continue"},
         CreateTask(t, kind), UNCHANGED <<log, cancelled>>
  PROVE  CancelInv'
<1>1. \A s \in Session : \A i \in DOMAIN tasks'[s] :
        /\ i \in Nat
        /\ \/ i \in DOMAIN tasks[s] /\ tasks'[s][i] = tasks[s][i]
           \/ /\ \A j \in DOMAIN tasks'[s] : j <= i
              /\ tasks'[s][i].turn = t /\ tasks'[s][i].run = runs[t] + 1
  BY JoinPlaces
<1>2. \A u \in Turn : runs[u] \in Nat /\ runs'[u] \in Nat /\ runs[u] <= runs'[u]
  BY DEF CreateTask, TypeOK
<1>3. CancelNumbered'
  <2> SUFFICES ASSUME NEW s \in Session, NEW k \in DOMAIN log[s],
                      log[s][k].by = "cancel"
               PROVE  log[s][k].run <= runs'[log[s][k].turn]
    BY DEF CancelNumbered
  <2>1. log[s][k].turn \in Turn /\ log[s][k].run \in Nat
    BY LoggedType
  <2>2. log[s][k].run <= runs[log[s][k].turn]
    BY DEF CancelInv, CancelNumbered
  <2> QED BY <2>1, <2>2, <1>2
<1>4. ASSUME NEW s \in Session, NEW i \in DOMAIN tasks'[s], Stopped(s, i)'
      PROVE  i \in DOMAIN tasks[s] /\ tasks'[s][i] = tasks[s][i] /\ Stopped(s, i)
  <2>1. PICK k \in DOMAIN log[s] : /\ log[s][k].by = "cancel"
                                   /\ log[s][k].turn = tasks'[s][i].turn
                                   /\ log[s][k].run = tasks'[s][i].run
    BY <1>4 DEF Stopped
  <2>2. CASE i \in DOMAIN tasks[s] /\ tasks'[s][i] = tasks[s][i]
    BY <2>1, <2>2 DEF Stopped
  <2>3. CASE tasks'[s][i].turn = t /\ tasks'[s][i].run = runs[t] + 1
    <3>1. log[s][k].run <= runs[t] /\ log[s][k].run = runs[t] + 1 /\ runs[t] \in Nat
      BY <2>1, <2>3, <1>2 DEF CancelInv, CancelNumbered
    <3> QED BY <3>1
  <2> QED BY <2>2, <2>3, <1>1
<1>5. StoppedMarked'
  BY <1>4 DEF CancelInv, StoppedMarked
<1>6. FollowerSpared'
  <2> SUFFICES ASSUME NEW s \in Session, NEW i \in DOMAIN tasks'[s],
                      NEW j \in DOMAIN tasks'[s],
                      i < j, tasks'[s][i].turn = tasks'[s][j].turn, Stopped(s, j)'
               PROVE  FALSE
    BY DEF FollowerSpared
  <2>1. j \in DOMAIN tasks[s] /\ tasks'[s][j] = tasks[s][j] /\ Stopped(s, j)
    BY <1>4
  <2>2. i \in DOMAIN tasks[s] /\ tasks'[s][i] = tasks[s][i]
    <3>1. i \in Nat /\ j \in Nat /\ ~(j <= i)
      BY <1>1
    <3> QED BY <3>1, <1>1
  <2> QED BY <2>1, <2>2 DEF CancelInv, FollowerSpared
<1>7. LateCriticalSuppressed'
  BY DEF CancelInv, LateCriticalSuppressed
<1> QED BY <1>3, <1>5, <1>6, <1>7 DEF CancelInv

(* A handler's row, filed for a turn that is marked when it is cancelled.  *)
LEMMA CancelRequest ==
  ASSUME CancelInv, LineInv, TypeOK, NEW t \in Turn, NEW by \in {"cancel", "deny"},
         log' = [log EXCEPT ![SessionOf[t]] = Append(@, CancelRow(t, by))],
         UNCHANGED <<tasks, runs>>, cancelled \subseteq cancelled',
         by = "cancel" => t \in cancelled'
  PROVE  CancelInv'
<1> DEFINE row == CancelRow(t, by)
           home == SessionOf[t]
<1>0. home \in Session
  BY DaemonTurnsAssumption
<1>1. /\ Grows
      /\ \A u \in Session : \A k \in DOMAIN log'[u] :
           \/ k \in DOMAIN log[u]
           \/ /\ u = home /\ log'[u][k] = row
              /\ k \in Nat /\ \A m \in DOMAIN log'[u] : m \in Nat /\ m <= k
  BY HandlerRow
<1>2. row.turn = t /\ row.by = by /\ row.run = CancelledRun(t)
  BY DEF CancelRow
<1>3. /\ CancelledRun(t) \in Nat /\ runs[t] \in Nat
      /\ \A i \in DOMAIN tasks[home] :
           tasks[home][i].turn = t => CancelledRun(t) <= tasks[home][i].run
      /\ CancelledRun(t) <= runs[t]
  <2>1. runs[t] \in Nat /\ CancelledRun(t) \in Nat
    BY CancelledRunType DEF TypeOK
  <2>2. /\ CancelledRun(t) = 0 \/ CancelledRun(t) \in RunsInLine(t)
        /\ \A q \in RunsInLine(t) : CancelledRun(t) <= q
    BY CancelledRunLeast
  <2>3. \A i \in DOMAIN tasks[home] :
          tasks[home][i].turn = t => tasks[home][i].run \in RunsInLine(t)
    BY DEF RunsInLine
  <2>4. \A q \in RunsInLine(t) : q <= runs[t]
    BY <1>0 DEF RunsInLine, LineInv, Numbered
  <2> QED BY <2>1, <2>2, <2>3, <2>4
<1> HIDE DEF row, home
<1>4. \A u \in Session : \A k \in DOMAIN log'[u] :
        \/ k \in DOMAIN log[u] /\ log'[u][k] = log[u][k]
        \/ /\ u = home /\ log'[u][k] = row
           /\ k \in Nat /\ \A m \in DOMAIN log'[u] : m \in Nat /\ m <= k
  BY <1>1 DEF Grows
<1>5. CancelNumbered'
  <2> SUFFICES ASSUME NEW u \in Session, NEW k \in DOMAIN log'[u],
                      log'[u][k].by = "cancel"
               PROVE  log'[u][k].run <= runs[log'[u][k].turn]
    BY DEF CancelNumbered
  <2>1. CASE k \in DOMAIN log[u] /\ log'[u][k] = log[u][k]
    BY <2>1 DEF CancelInv, CancelNumbered
  <2>2. CASE log'[u][k] = row
    BY <2>2, <1>2, <1>3
  <2> QED BY <2>1, <2>2, <1>4
<1>6. ASSUME NEW u \in Session, NEW i \in DOMAIN tasks[u], Stopped(u, i)'
      PROVE  \/ Stopped(u, i)
             \/ /\ u = home /\ tasks[u][i].turn = t
                /\ tasks[u][i].run = CancelledRun(t) /\ by = "cancel"
  <2>1. PICK k \in DOMAIN log'[u] : /\ log'[u][k].by = "cancel"
                                    /\ log'[u][k].turn = tasks[u][i].turn
                                    /\ log'[u][k].run = tasks[u][i].run
    BY <1>6 DEF Stopped
  <2>2. CASE k \in DOMAIN log[u] /\ log'[u][k] = log[u][k]
    BY <2>1, <2>2 DEF Stopped
  <2>3. CASE u = home /\ log'[u][k] = row
    BY <2>1, <2>3, <1>2
  <2> QED BY <2>2, <2>3, <1>4
<1>7. StoppedMarked'
  <2> SUFFICES ASSUME NEW u \in Session, NEW i \in DOMAIN tasks[u], Stopped(u, i)'
               PROVE  tasks[u][i].turn \in cancelled'
    BY DEF StoppedMarked
  <2>1. CASE Stopped(u, i)
    BY <2>1 DEF CancelInv, StoppedMarked
  <2>2. CASE tasks[u][i].turn = t /\ by = "cancel"
    BY <2>2
  <2> QED BY <2>1, <2>2, <1>6
<1>8. FollowerSpared'
  <2> SUFFICES ASSUME NEW u \in Session, NEW i \in DOMAIN tasks[u],
                      NEW j \in DOMAIN tasks[u],
                      i < j, tasks[u][i].turn = tasks[u][j].turn, Stopped(u, j)'
               PROVE  FALSE
    BY DEF FollowerSpared
  <2>1. ~Stopped(u, j)
    BY DEF CancelInv, FollowerSpared
  <2>2. u = home /\ tasks[u][j].turn = t /\ tasks[u][j].run = CancelledRun(t)
    BY <2>1, <1>6
  <2>3. tasks[u][i].run < tasks[u][j].run
    BY DEF LineInv, Followed
  <2>4. CancelledRun(t) <= tasks[u][i].run
    BY <2>2, <1>3
  <2>5. tasks[u][i].run \in Nat /\ CancelledRun(t) \in Nat
    BY <1>3, PlaceType
  <2> QED BY <2>2, <2>3, <2>4, <2>5
<1>9. LateCriticalSuppressed'
  <2> SUFFICES ASSUME NEW u \in Session, NEW i \in DOMAIN log'[u],
                      NEW j \in DOMAIN log'[u],
                      i < j, log'[u][i].by = "cancel", log'[u][j].by = "run",
                      log'[u][i].turn = log'[u][j].turn,
                      log'[u][i].run = log'[u][j].run
               PROVE  log'[u][j].kind = "Progress"
    BY DEF LateCriticalSuppressed
  <2>1. j \in DOMAIN log[u] /\ log'[u][j] = log[u][j]
    <3>1. log'[u][j] # row
      BY <1>2
    <3> QED BY <3>1, <1>4
  <2>2. i \in DOMAIN log[u] /\ log'[u][i] = log[u][i]
    <3>1. CASE i \in Nat /\ \A m \in DOMAIN log'[u] : m \in Nat /\ m <= i
      BY <3>1
    <3> QED BY <3>1, <1>4
  <2> QED BY <2>1, <2>2 DEF CancelInv, LateCriticalSuppressed
<1> QED BY <1>5, <1>7, <1>8, <1>9 DEF CancelInv

LEMMA CancelHandle ==
  ASSUME CancelInv, LineInv, TypeOK, NEW t \in Turn, Handle(t)
  PROVE  CancelInv'
<1>1. CASE SendInput(t)
  BY <1>1, CancelQueue DEF SendInput
<1>2. CASE Approve(t) \/ ContinueTurn(t)
  BY <1>2, CancelQueue DEF Approve, ContinueTurn
<1>3. CASE CancelTurn(t)
  BY <1>3, CancelRequest DEF CancelTurn
<1>4. CASE Deny(t)
  BY <1>4, CancelRequest DEF Deny
<1>5. CASE GrantElsewhere(t)
  BY <1>5, CancelStill DEF GrantElsewhere
<1> QED BY <1>1, <1>2, <1>3, <1>4, <1>5 DEF Handle

LEMMA CancelNext ==
  ASSUME CancelInv, LineInv, CauseInv, [Next]_vars
  PROVE  CancelInv'
<1>0. TypeOK /\ TaskHome
  BY DEF CauseInv
<1>1. ASSUME NEW s \in Session, Begin(s)
      PROVE  CancelInv'
  BY <1>1, CancelStill DEF Begin, BeginExecute, BeginContinue
<1>2. ASSUME NEW s \in Session, Iterate(s) \/ Exhaust(s) \/ Raise(s)
      PROVE  CancelInv'
  BY <1>0, <1>2, CancelIterate, CancelEnd
<1>3. CASE Restart
  <2>1. StoppedMarked' /\ FollowerSpared'
    BY <1>3 DEF Restart, StoppedMarked, FollowerSpared
  <2>2. CancelNumbered' /\ LateCriticalSuppressed'
    BY <1>3 DEF Restart, CancelInv, CancelNumbered, LateCriticalSuppressed
  <2> QED BY <2>1, <2>2 DEF CancelInv
<1>4. CASE UNCHANGED vars
  BY <1>4, CancelStill DEF vars
<1> QED BY <1>0, <1>1, <1>2, <1>3, <1>4, CancelHandle DEF Next

(* Once a run was cancelled, its producer records no critical event: no    *)
(* second outcome, no approval request, no late answer.                    *)
THEOREM LateSuppressed == Spec => []LateCriticalSuppressed
<1>1. Init => CancelInv
  <2> SUFFICES ASSUME Init PROVE CancelInv
    OBVIOUS
  <2>1. CancelNumbered /\ LateCriticalSuppressed
    BY DEF Init, CancelNumbered, LateCriticalSuppressed
  <2>2. StoppedMarked /\ FollowerSpared
    BY DEF Init, StoppedMarked, FollowerSpared
  <2> QED BY <2>1, <2>2 DEF CancelInv
<1>2. CancelInv => LateCriticalSuppressed
  BY DEF CancelInv
<1> QED BY <1>1, <1>2, CancelNext, LineReachable, CauseReachable, PTL DEF Spec

-----------------------------------------------------------------------------
(* The transcript.                                                         *)
Question(t) == [turn |-> t, role |-> "user"]
Answer(t) == [turn |-> t, role |-> "assistant"]

(* The turns with a message, and those with an answer, in a session.       *)
Asked(s) == {messages[s][i].turn : i \in DOMAIN messages[s]}
Answered(s) == {t \in Turn : \E i \in DOMAIN messages[s] : messages[s][i] = Answer(t)}

Refused(s) ==
  {t \in Turn : \E k \in DOMAIN log[s] :
                  log[s][k].turn = t /\ log[s][k].by \in {"cancel", "deny"}}

(* While a first task iterates, its turn has at most its question in the   *)
(* transcript, as the last message.                                        *)
QuestionLast ==
  \A s \in Session :
    tasks[s] # <<>> /\ stage[s] = "streaming" /\ Holder(s).kind = "execute" =>
      \A i \in DOMAIN messages[s] :
        messages[s][i].turn = Holder(s).turn =>
          messages[s][i].role = "user" /\ \A j \in DOMAIN messages[s] : j <= i

(* The turn of a first task that has not begun has no message.             *)
Unasked ==
  \A s \in Session : \A i \in DOMAIN tasks[s] :
    tasks[s][i].kind = "execute" /\ ~(i = 1 /\ stage[s] # "waiting")
      => tasks[s][i].turn \notin Asked(s)

(* Only a submitted turn has a message.                                    *)
AskedSubmitted == \A s \in Session : \A t \in Asked(s) : t \in Turn /\ 0 < runs[t]

PairInv == QuestionLast /\ Unasked /\ AskedSubmitted /\ AnswerFollowsQuestion

(* An answered turn is settled: nobody can cancel, deny or resume it.      *)
AnswerSettles ==
  \A s \in Session : \A t \in Answered(s) :
    /\ SessionOf[t] = s /\ t \notin active /\ ~Awaiting(t) /\ 0 < runs[t]
    /\ \A i \in DOMAIN tasks[s] :
         tasks[s][i].turn = t =>
           i = 1 /\ tasks[s][i].kind = "execute" /\ stage[s] = "ended"

(* The first task of a refused turn has seen its last event or has its     *)
(* events suppressed.                                                      *)
RefusalMarks ==
  \A s \in Session : \A i \in DOMAIN tasks[s] :
    tasks[s][i].kind = "execute" /\ tasks[s][i].turn \in Refused(s)
      => tasks[s][i].turn \in cancelled \/ (i = 1 /\ stage[s] = "ended")

(* Only a submitted turn is refused.                                       *)
RefusedSubmitted == \A s \in Session : \A t \in Refused(s) : 0 < runs[t]

(* No turn has both an answer and a refusal.                               *)
NotBoth == \A s \in Session : Answered(s) \cap Refused(s) = {}

TranscriptInv == AnswerSettles /\ RefusalMarks /\ RefusedSubmitted /\ NotBoth

(* What a new message changes.                                             *)
LEMMA MessageAdded ==
  ASSUME TypeOK, NEW s \in Session, NEW m \in Message,
         messages' = [messages EXCEPT ![s] = Append(@, m)]
  PROVE  /\ \A u \in Session : u # s => messages'[u] = messages[u]
         /\ \A i \in DOMAIN messages[s] : messages'[s][i] = messages[s][i]
         /\ \E n \in Nat : /\ DOMAIN messages[s] = 1..n
                           /\ DOMAIN messages'[s] = 1..(n + 1)
                           /\ messages'[s][n + 1] = m
<1>1. messages'[s] = Append(messages[s], m) /\ messages[s] \in Seq(Message)
      /\ \A u \in Session : u # s => messages'[u] = messages[u]
  BY DEF TypeOK
<1>2. /\ Len(messages[s]) \in Nat /\ DOMAIN messages[s] = 1..Len(messages[s])
      /\ DOMAIN messages'[s] = 1..(Len(messages[s]) + 1)
      /\ \A i \in 1..Len(messages[s]) : messages'[s][i] = messages[s][i]
      /\ messages'[s][Len(messages[s]) + 1] = m
  BY <1>1, AppendProperties
<1> QED BY <1>1, <1>2

(* A message whose turn has none yet, or an answer behind its question,    *)
(* keeps the pairs.                                                        *)
LEMMA PairAdded ==
  ASSUME TypeOK, AnswerFollowsQuestion, NEW s \in Session, NEW m \in Message,
         messages' = [messages EXCEPT ![s] = Append(@, m)],
         \A i \in DOMAIN messages[s] :
           messages[s][i].turn = m.turn =>
             /\ messages[s][i].role = "user" /\ m.role = "assistant"
             /\ \A j \in DOMAIN messages[s] : j <= i
  PROVE  AnswerFollowsQuestion'
<1>1. PICK n \in Nat : /\ DOMAIN messages[s] = 1..n
                       /\ DOMAIN messages'[s] = 1..(n + 1)
                       /\ messages'[s][n + 1] = m
  BY MessageAdded
<1>2. /\ \A u \in Session : u # s => messages'[u] = messages[u]
      /\ \A i \in DOMAIN messages[s] : messages'[s][i] = messages[s][i]
  BY MessageAdded
<1> SUFFICES ASSUME NEW u \in Session, NEW i \in DOMAIN messages'[u],
                    NEW j \in DOMAIN messages'[u],
                    i < j, messages'[u][i].turn = messages'[u][j].turn
             PROVE  /\ j = i + 1
                    /\ messages'[u][i].role = "user"
                    /\ messages'[u][j].role = "assistant"
  BY DEF AnswerFollowsQuestion
<1>3. CASE u # s
  BY <1>2, <1>3 DEF AnswerFollowsQuestion
<1>4. CASE u = s /\ j \in DOMAIN messages[s]
  <2>1. i \in DOMAIN messages[s]
    BY <1>1, <1>4
  <2> QED BY <2>1, <1>2, <1>4 DEF AnswerFollowsQuestion
<1>5. CASE u = s /\ j \notin DOMAIN messages[s]
  <2>1. j = n + 1 /\ i \in 1..n /\ messages'[s][j] = m
    BY <1>1, <1>5
  <2>2. i \in DOMAIN messages[s] /\ messages[s][i].turn = m.turn
    BY <2>1, <1>1, <1>2, <1>5
  <2>3. /\ messages[s][i].role = "user" /\ m.role = "assistant"
        /\ \A k \in DOMAIN messages[s] : k <= i
    BY <2>2
  <2>4. i = n
    <3>1. n \in DOMAIN messages[s]
      BY <2>1, <1>1
    <3> QED BY <2>1, <2>3, <3>1
  <2> QED BY <2>1, <2>2, <2>3, <2>4, <1>2, <1>5
<1> QED BY <1>3, <1>4, <1>5

(* A question answers no turn, an answer only its own.                     *)
LEMMA MessageAnswers ==
  ASSUME TypeOK, NEW s \in Session, NEW t \in Turn, NEW m \in {Question(t), Answer(t)},
         messages' = [messages EXCEPT ![s] = Append(@, m)]
  PROVE  /\ \A u \in Session : Answered(u)' \subseteq Answered(u) \cup {t}
         /\ m = Question(t) => \A u \in Session : Answered(u)' = Answered(u)
         /\ \A u \in Session : u # s => messages'[u] = messages[u]
<1>0. m \in Message
  BY DEF Question, Answer, Message
<1>1. PICK n \in Nat : /\ DOMAIN messages[s] = 1..n
                       /\ DOMAIN messages'[s] = 1..(n + 1)
                       /\ messages'[s][n + 1] = m
  BY <1>0, MessageAdded
<1>2. /\ \A u \in Session : u # s => messages'[u] = messages[u]
      /\ \A i \in DOMAIN messages[s] : messages'[s][i] = messages[s][i]
  BY <1>0, MessageAdded
<1>3. \A i \in DOMAIN messages'[s] :
        i \in DOMAIN messages[s] \/ messages'[s][i] = m
  BY <1>1
<1>4. \A i \in DOMAIN messages[s] : i \in DOMAIN messages'[s]
  BY <1>1
<1>5. /\ \A v : m = Answer(v) => v = t
      /\ m = Question(t) => \A v : m # Answer(v)
  BY DEF Question, Answer
<1>6. \A u \in Session : Answered(u)' \subseteq Answered(u) \cup {t}
  BY <1>2, <1>3, <1>5 DEF Answered
<1>7. ASSUME m = Question(t), NEW u \in Session
      PROVE  Answered(u)' = Answered(u)
  BY <1>2, <1>3, <1>4, <1>5, <1>7 DEF Answered
<1> QED BY <1>2, <1>6, <1>7

-----------------------------------------------------------------------------
(* PairInv is preserved.  Steps that write no message.                     *)
LEMMA PairStill ==
  ASSUME PairInv, CauseInv, UNCHANGED messages,
         \A t \in Turn : 0 < runs[t] => 0 < runs'[t],
         \A s \in Session :
           tasks'[s] # <<>> /\ stage'[s] = "streaming" /\ Head(tasks'[s]).kind = "execute" =>
             \/ Head(tasks'[s]).turn \notin Asked(s)
             \/ tasks[s] # <<>> /\ stage[s] = "streaming" /\ Head(tasks'[s]) = Holder(s),
         \A s \in Session : \A i \in DOMAIN tasks'[s] :
           tasks'[s][i].kind = "execute" /\ ~(i = 1 /\ stage'[s] # "waiting") =>
             tasks'[s][i].turn \notin Asked(s)
  PROVE  PairInv'
<1>1. \A s \in Session : Asked(s)' = Asked(s)
  BY DEF Asked
<1>2. QuestionLast'
  <2> SUFFICES ASSUME NEW s \in Session, tasks'[s] # <<>>, stage'[s] = "streaming",
                      Head(tasks'[s]).kind = "execute",
                      NEW i \in DOMAIN messages[s],
                      messages[s][i].turn = Head(tasks'[s]).turn
               PROVE  /\ messages[s][i].role = "user"
                      /\ \A j \in DOMAIN messages[s] : j <= i
    BY DEF QuestionLast, Holder
  <2>1. Head(tasks'[s]).turn \in Asked(s)
    BY DEF Asked
  <2>2. tasks[s] # <<>> /\ stage[s] = "streaming" /\ Head(tasks'[s]) = Holder(s)
    BY <2>1
  <2> QED BY <2>2 DEF PairInv, QuestionLast
<1>3. Unasked'
  BY <1>1 DEF Unasked
<1>4. AskedSubmitted' /\ AnswerFollowsQuestion'
  BY <1>1 DEF PairInv, AskedSubmitted, AnswerFollowsQuestion
<1> QED BY <1>2, <1>3, <1>4 DEF PairInv

(* The first task of a line that has begun, and the first tasks behind it. *)
LEMMA HeadAlone ==
  ASSUME LineInv, CauseInv, NEW s \in Session, tasks[s] # <<>>
  PROVE  /\ 1 \in DOMAIN tasks[s] /\ Holder(s) = tasks[s][1]
         /\ Holder(s).turn \in Turn /\ 0 < runs[Holder(s).turn]
         /\ \A i \in DOMAIN tasks[s] :
              i # 1 /\ tasks[s][i].kind = "execute" => tasks[s][i].turn # Holder(s).turn
<1>0. TypeOK /\ TaskHome
  BY DEF CauseInv
<1>1. /\ 1 \in DOMAIN tasks[s] /\ Holder(s) = tasks[s][1]
      /\ Holder(s).turn \in Turn
  BY <1>0, HolderPlace
<1>2. 0 < runs[Holder(s).turn]
  <2>1. 0 < tasks[s][1].run /\ tasks[s][1].run <= runs[tasks[s][1].turn]
    BY <1>1 DEF LineInv, Numbered
  <2> QED BY <2>1, <1>0, <1>1, PlaceType
<1>3. ASSUME NEW i \in DOMAIN tasks[s], i # 1, tasks[s][i].kind = "execute"
      PROVE  tasks[s][i].turn # Holder(s).turn
  <2>1. 1 < i
    <3>1. i \in Nat /\ 0 < i
      BY <1>0, PlaceType
    <3> QED BY <3>1, <1>3
  <2> QED BY <2>1, <1>1, <1>3 DEF LineInv, Followed
<1> QED BY <1>1, <1>2, <1>3

(* A task writes a message of its turn.                                    *)
LEMMA PairWrite ==
  ASSUME PairInv, LineInv, CauseInv, NEW s \in Session, tasks[s] # <<>>,
         UNCHANGED <<tasks, runs>>, NEW m \in Message, m.turn = Holder(s).turn,
         messages' = [messages EXCEPT ![s] = Append(@, m)],
         \A u \in Session : u # s => stage'[u] = stage[u],
         stage'[s] # "waiting",
         \/ m.role = "user" /\ m.turn \notin Asked(s)
         \/ /\ m.role = "assistant" /\ stage[s] = "streaming"
            /\ Holder(s).kind = "execute" /\ stage'[s] # "streaming"
  PROVE  PairInv'
<1> DEFINE h == Holder(s).turn
<1>0. TypeOK
  BY DEF CauseInv
<1>1. PICK n \in Nat : /\ DOMAIN messages[s] = 1..n
                       /\ DOMAIN messages'[s] = 1..(n + 1)
                       /\ messages'[s][n + 1] = m
  BY <1>0, MessageAdded
<1>2. /\ \A u \in Session : u # s => messages'[u] = messages[u]
      /\ \A i \in DOMAIN messages[s] : messages'[s][i] = messages[s][i]
  BY <1>0, MessageAdded
<1>3. /\ 1 \in DOMAIN tasks[s] /\ Holder(s) = tasks[s][1] /\ h \in Turn /\ 0 < runs[h]
      /\ \A i \in DOMAIN tasks[s] :
           i # 1 /\ tasks[s][i].kind = "execute" => tasks[s][i].turn # h
  BY HeadAlone
<1>4. /\ \A u \in Session : u # s => Asked(u)' = Asked(u)
      /\ Asked(s)' \subseteq Asked(s) \cup {h}
  <2>1. \A i \in DOMAIN messages'[s] :
          \/ i \in DOMAIN messages[s] /\ messages'[s][i] = messages[s][i]
          \/ messages'[s][i].turn = h
    BY <1>1, <1>2
  <2> QED BY <2>1, <1>2 DEF Asked
<1>5. AnswerFollowsQuestion'
  <2>1. \A i \in DOMAIN messages[s] :
          messages[s][i].turn = m.turn =>
            /\ messages[s][i].role = "user" /\ m.role = "assistant"
            /\ \A j \in DOMAIN messages[s] : j <= i
    <3>1. CASE m.turn \notin Asked(s)
      BY <3>1 DEF Asked
    <3>2. CASE /\ m.role = "assistant" /\ stage[s] = "streaming"
               /\ Holder(s).kind = "execute"
      BY <3>2 DEF PairInv, QuestionLast
    <3> QED BY <3>1, <3>2
  <2> QED BY <2>1, <1>0, PairAdded DEF PairInv
<1>6. QuestionLast'
  <2> SUFFICES ASSUME NEW u \in Session, tasks[u] # <<>>, stage'[u] = "streaming",
                      Holder(u).kind = "execute",
                      NEW i \in DOMAIN messages'[u],
                      messages'[u][i].turn = Holder(u).turn
               PROVE  /\ messages'[u][i].role = "user"
                      /\ \A j \in DOMAIN messages'[u] : j <= i
    BY DEF QuestionLast, Holder
  <2>1. CASE u # s
    BY <2>1, <1>2 DEF PairInv, QuestionLast
  <2>2. CASE u = s
    <3>1. m.role = "user" /\ m.turn \notin Asked(s)
      BY <2>2
    <3>2. i \notin DOMAIN messages[s]
      <4>1. i \in DOMAIN messages[s] => messages[s][i].turn \in Asked(s)
        BY DEF Asked
      <4> QED BY <4>1, <3>1, <2>2, <1>2
    <3>3. i = n + 1
      BY <3>2, <2>2, <1>1
    <3> QED BY <3>1, <3>3, <2>2, <1>1
  <2> QED BY <2>1, <2>2
<1>7. Unasked'
  <2> SUFFICES ASSUME NEW u \in Session, NEW i \in DOMAIN tasks[u],
                      tasks[u][i].kind = "execute", ~(i = 1 /\ stage'[u] # "waiting")
               PROVE  tasks[u][i].turn \notin Asked(u)'
    BY DEF Unasked
  <2>1. CASE u # s
    BY <2>1, <1>4 DEF PairInv, Unasked
  <2>2. CASE u = s
    <3>1. i # 1
      BY <2>2
    <3>2. tasks[s][i].turn # h /\ tasks[s][i].turn \notin Asked(s)
      BY <2>2, <3>1, <1>3 DEF PairInv, Unasked
    <3> QED BY <2>2, <3>2, <1>4
  <2> QED BY <2>1, <2>2
<1>8. AskedSubmitted'
  <2> SUFFICES ASSUME NEW u \in Session, NEW t \in Asked(u)'
               PROVE  t \in Turn /\ 0 < runs[t]
    BY DEF AskedSubmitted
  <2>1. t \in Asked(u) \/ t = h
    BY <1>4
  <2> QED BY <2>1, <1>3 DEF PairInv, AskedSubmitted
<1> QED BY <1>5, <1>6, <1>7, <1>8 DEF PairInv

LEMMA PairBegin ==
  ASSUME PairInv, LineInv, CauseInv, NEW s \in Session, Begin(s)
  PROVE  PairInv'
<1>0. TypeOK
  BY DEF CauseInv
<1>1. /\ tasks[s] # <<>> /\ stage[s] = "waiting" /\ UNCHANGED <<tasks, runs>>
      /\ stage'[s] = "streaming" /\ \A u \in Session : u # s => stage'[u] = stage[u]
      /\ \/ UNCHANGED messages
         \/ /\ Holder(s).kind = "execute"
            /\ messages' = [messages EXCEPT ![s] = Append(@, Question(Holder(s).turn))]
  <2>1. stage' = [stage EXCEPT ![s] = "streaming"] /\ stage \in [Session -> Stage]
    BY <1>0 DEF Begin, BeginExecute, BeginContinue, TypeOK
  <2> QED BY <2>1 DEF Begin, BeginExecute, BeginContinue, Save, Question
<1>2. /\ 1 \in DOMAIN tasks[s] /\ Holder(s) = tasks[s][1] /\ Holder(s).turn \in Turn
      /\ Holder(s).kind = "execute" => Holder(s).turn \notin Asked(s)
  BY <1>1, HeadAlone DEF PairInv, Unasked
<1>3. CASE UNCHANGED messages
  <2>1. ASSUME NEW u \in Session, tasks'[u] # <<>>, stage'[u] = "streaming",
               Head(tasks'[u]).kind = "execute"
        PROVE  \/ Head(tasks'[u]).turn \notin Asked(u)
               \/ tasks[u] # <<>> /\ stage[u] = "streaming" /\ Head(tasks'[u]) = Holder(u)
    BY <2>1, <1>1, <1>2 DEF Holder
  <2>2. ASSUME NEW u \in Session, NEW i \in DOMAIN tasks'[u],
               tasks'[u][i].kind = "execute", ~(i = 1 /\ stage'[u] # "waiting")
        PROVE  tasks'[u][i].turn \notin Asked(u)
    BY <2>2, <1>1 DEF PairInv, Unasked
  <2> QED BY <2>1, <2>2, <1>1, <1>3, PairStill
<1>4. CASE /\ Holder(s).kind = "execute"
           /\ messages' = [messages EXCEPT ![s] = Append(@, Question(Holder(s).turn))]
  <2>1. /\ Question(Holder(s).turn) \in Message
        /\ Question(Holder(s).turn).turn = Holder(s).turn
        /\ Question(Holder(s).turn).role = "user"
    BY <1>2 DEF Question, Message
  <2> QED BY <2>1, <1>1, <1>2, <1>4, PairWrite
<1> QED BY <1>1, <1>3, <1>4

LEMMA PairIterate ==
  ASSUME PairInv, LineInv, CauseInv, NEW s \in Session, Iterate(s)
  PROVE  PairInv'
<1>0. TypeOK
  BY DEF CauseInv
<1>1. PICK kind \in EventKind :
        /\ Holds(s) /\ KernelYields(s, kind) /\ UNCHANGED <<tasks, runs>>
        /\ \/ UNCHANGED messages
           \/ /\ kind = "TurnCompleted" /\ Holder(s).kind = "execute"
              /\ messages' = [messages EXCEPT ![s] = Append(@, Answer(Holder(s).turn))]
  BY DEF Iterate, Suppress, Flush, Buffer, EventKind, StoresAnswer, Save, Answer
<1>2. /\ tasks[s] # <<>> /\ stage[s] = "streaming"
      /\ stage'[s] \in {"streaming", "ended"}
      /\ kind = "TurnCompleted" => stage'[s] = "ended"
      /\ \A u \in Session : u # s => stage'[u] = stage[u]
  BY <1>0, <1>1 DEF Holds, KernelYields, NonFinal, TypeOK
<1>3. CASE UNCHANGED messages
  <2>1. ASSUME NEW u \in Session, tasks'[u] # <<>>, stage'[u] = "streaming",
               Head(tasks'[u]).kind = "execute"
        PROVE  tasks[u] # <<>> /\ stage[u] = "streaming" /\ Head(tasks'[u]) = Holder(u)
    BY <2>1, <1>1, <1>2 DEF Holder
  <2>2. ASSUME NEW u \in Session, NEW i \in DOMAIN tasks'[u],
               tasks'[u][i].kind = "execute", ~(i = 1 /\ stage'[u] # "waiting")
        PROVE  tasks'[u][i].turn \notin Asked(u)
    BY <2>2, <1>1, <1>2 DEF PairInv, Unasked
  <2> QED BY <2>1, <2>2, <1>1, <1>3, PairStill
<1>4. CASE /\ kind = "TurnCompleted" /\ Holder(s).kind = "execute"
           /\ messages' = [messages EXCEPT ![s] = Append(@, Answer(Holder(s).turn))]
  <2>1. /\ Answer(Holder(s).turn) \in Message
        /\ Answer(Holder(s).turn).turn = Holder(s).turn
        /\ Answer(Holder(s).turn).role = "assistant"
    BY <1>0, <1>2, HolderType DEF Answer, Message
  <2> QED BY <2>1, <1>1, <1>2, <1>4, PairWrite
<1> QED BY <1>1, <1>3, <1>4

LEMMA PairEnd ==
  ASSUME PairInv, LineInv, CauseInv, NEW s \in Session, Exhaust(s) \/ Raise(s)
  PROVE  PairInv'
<1>0. TypeOK
  BY DEF CauseInv
<1>1. tasks[s] # <<>> /\ Release(s) /\ UNCHANGED <<messages, runs>>
  BY DEF Exhaust, Raise, Finish, Holds
<1>2. /\ \A i \in DOMAIN tasks'[s] :
           /\ i \in Nat /\ i + 1 \in DOMAIN tasks[s] /\ i + 1 # 1
           /\ tasks'[s][i] = tasks[s][i + 1]
      /\ \A u \in Session : u # s => tasks'[u] = tasks[u]
      /\ stage'[s] = "waiting"
      /\ \A u \in Session : u # s => stage'[u] = stage[u]
  BY <1>0, <1>1, LeavePlaces DEF Release, TypeOK
<1>3. ASSUME NEW u \in Session, tasks'[u] # <<>>, stage'[u] = "streaming"
      PROVE  tasks[u] # <<>> /\ stage[u] = "streaming" /\ Head(tasks'[u]) = Holder(u)
  BY <1>2, <1>3 DEF Holder
<1>4. ASSUME NEW u \in Session, NEW i \in DOMAIN tasks'[u],
             tasks'[u][i].kind = "execute", ~(i = 1 /\ stage'[u] # "waiting")
      PROVE  tasks'[u][i].turn \notin Asked(u)
  BY <1>2, <1>4 DEF PairInv, Unasked
<1> QED BY <1>1, <1>3, <1>4, PairStill

LEMMA PairHandle ==
  ASSUME PairInv, CauseInv, NEW t \in Turn, Handle(t)
  PROVE  PairInv'
<1>0. TypeOK /\ TaskHome
  BY DEF CauseInv
<1>1. ASSUME NEW kind \in {"execute", "continue"}, CreateTask(t, kind),
             UNCHANGED <<stage, messages>>, kind = "execute" => runs[t] = 0
      PROVE  PairInv'
  <2>1. \A u \in Turn : 0 < runs[u] => 0 < runs'[u]
    BY <1>0, <1>1 DEF CreateTask, TypeOK
  <2>2. \A s \in Session : \A i \in DOMAIN tasks'[s] :
          \/ i \in DOMAIN tasks[s] /\ tasks'[s][i] = tasks[s][i]
          \/ tasks'[s][i].turn = t /\ tasks'[s][i].kind = kind
    BY <1>0, <1>1, JoinPlaces
  <2>3. ASSUME NEW s \in Session, stage'[s] = "streaming"
        PROVE  tasks[s] # <<>> /\ stage[s] = "streaming" /\ Head(tasks'[s]) = Holder(s)
    <3>1. stage[s] = "streaming" /\ tasks[s] # <<>>
      BY <1>1, <2>3 DEF CauseInv, BegunHolds
    <3> QED BY <3>1, <1>0, <1>1, CreateTaskLine DEF Holder
  <2>4. ASSUME NEW s \in Session, NEW i \in DOMAIN tasks'[s],
               tasks'[s][i].kind = "execute", ~(i = 1 /\ stage'[s] # "waiting")
        PROVE  tasks'[s][i].turn \notin Asked(s)
    <3>1. CASE i \in DOMAIN tasks[s] /\ tasks'[s][i] = tasks[s][i]
      BY <3>1, <2>4, <1>1 DEF PairInv, Unasked
    <3>2. CASE tasks'[s][i].turn = t /\ tasks'[s][i].kind = kind
      BY <3>2, <2>4, <1>1 DEF PairInv, AskedSubmitted
    <3> QED BY <3>1, <3>2, <2>2
  <2> QED BY <1>1, <2>1, <2>3, <2>4, PairStill
<1>2. CASE SendInput(t)
  BY <1>1, <1>2 DEF SendInput, locals
<1>3. CASE Approve(t) \/ ContinueTurn(t)
  BY <1>1, <1>3 DEF Approve, ContinueTurn, locals
<1>4. CASE CancelTurn(t) \/ Deny(t) \/ GrantElsewhere(t)
  <2>1. UNCHANGED <<tasks, stage, messages, runs>>
    BY <1>4 DEF CancelTurn, Deny, GrantElsewhere, locals
  <2> QED BY <2>1, PairStill DEF PairInv, Unasked, Holder
<1> QED BY <1>2, <1>3, <1>4 DEF Handle

LEMMA PairNext ==
  ASSUME PairInv, LineInv, CauseInv, [Next]_vars
  PROVE  PairInv'
<1>1. ASSUME NEW s \in Session, Begin(s) \/ Iterate(s) \/ Exhaust(s) \/ Raise(s)
      PROVE  PairInv'
  BY <1>1, PairBegin, PairIterate, PairEnd
<1>2. CASE Restart
  BY <1>2, PairStill DEF Restart
<1>3. CASE UNCHANGED vars
  <2>1. UNCHANGED <<tasks, stage, messages, runs>>
    BY <1>3 DEF vars, locals
  <2> QED BY <2>1, PairStill DEF PairInv, Unasked, Holder
<1> QED BY <1>1, <1>2, <1>3, PairHandle DEF Next

LEMMA PairReachable == Spec => []PairInv
<1>1. Init => PairInv
  <2> SUFFICES ASSUME Init PROVE PairInv
    OBVIOUS
  <2>1. QuestionLast /\ Unasked /\ AnswerFollowsQuestion
    BY DEF Init, QuestionLast, Unasked, AnswerFollowsQuestion
  <2>2. AskedSubmitted
    <3>1. \A s \in Session : DOMAIN messages[s] = {}
      BY DEF Init
    <3> QED BY <3>1 DEF AskedSubmitted, Asked
  <2> QED BY <2>1, <2>2 DEF PairInv
<1> QED BY <1>1, PairNext, LineReachable, CauseReachable, PTL DEF Spec

-----------------------------------------------------------------------------
(* TranscriptInv is preserved.                                             *)
LEMMA TranscriptBegin ==
  ASSUME TranscriptInv, CauseInv, NEW s \in Session, Begin(s)
  PROVE  TranscriptInv'
<1>0. TypeOK /\ TaskHome
  BY DEF CauseInv
<1>h. PICK h : h = Holder(s).turn
  OBVIOUS
<1>1. /\ tasks[s] # <<>> /\ stage[s] = "waiting"
      /\ stage' = [stage EXCEPT ![s] = "streaming"]
      /\ UNCHANGED <<tasks, log, approval, runs, cancelled>>
      /\ \/ /\ Holder(s).kind = "execute" /\ active' = active
            /\ \/ UNCHANGED messages
               \/ messages' = [messages EXCEPT ![s] = Append(@, Question(h))]
         \/ /\ Holder(s).kind = "continue" /\ active' = active \cup {h}
            /\ UNCHANGED messages
  BY <1>h DEF Begin, BeginExecute, BeginContinue, Save, Question
<1>2. 1 \in DOMAIN tasks[s] /\ Holder(s) = tasks[s][1] /\ h \in Turn /\ SessionOf[h] = s
      /\ h = tasks[s][1].turn
  BY <1>0, <1>1, <1>h, HolderPlace
<1>3. \A u \in Session : Answered(u)' = Answered(u)
  <2>1. CASE UNCHANGED messages
    BY <2>1 DEF Answered
  <2>2. CASE messages' = [messages EXCEPT ![s] = Append(@, Question(h))]
    BY <2>2, <1>0, <1>2, MessageAnswers
  <2> QED BY <2>1, <2>2, <1>1
<1>4. \A u \in Session : Refused(u)' = Refused(u)
  BY <1>1 DEF Refused
<1>5. \A u \in Session : u # s => stage'[u] = stage[u]
  BY <1>0, <1>1 DEF TypeOK
<1>6. h \notin Answered(s)
  BY <1>1, <1>2 DEF TranscriptInv, AnswerSettles
<1>7. AnswerSettles'
  <2> SUFFICES ASSUME NEW u \in Session, NEW t \in Answered(u)
               PROVE  /\ SessionOf[t] = u /\ t \notin active' /\ ~Awaiting(t) /\ 0 < runs[t]
                      /\ \A i \in DOMAIN tasks[u] :
                           tasks[u][i].turn = t =>
                             i = 1 /\ tasks[u][i].kind = "execute" /\ stage'[u] = "ended"
    BY <1>1, <1>3 DEF AnswerSettles, Awaiting
  <2>1. /\ SessionOf[t] = u /\ t \notin active /\ ~Awaiting(t) /\ 0 < runs[t]
        /\ \A i \in DOMAIN tasks[u] :
             tasks[u][i].turn = t =>
               i = 1 /\ tasks[u][i].kind = "execute" /\ stage[u] = "ended"
    BY DEF TranscriptInv, AnswerSettles
  <2>2. t # h
    BY <1>2, <1>6, <2>1
  <2>3. t \notin active'
    BY <1>1, <2>1, <2>2
  <2>4. CASE u = s
    BY <2>1, <2>3, <2>4, <1>1
  <2>5. CASE u # s
    BY <2>1, <2>3, <2>5, <1>5
  <2> QED BY <2>4, <2>5
<1>8. RefusalMarks'
  <2> SUFFICES ASSUME NEW u \in Session, NEW i \in DOMAIN tasks[u],
                      tasks[u][i].kind = "execute", tasks[u][i].turn \in Refused(u)
               PROVE  tasks[u][i].turn \in cancelled \/ (i = 1 /\ stage'[u] = "ended")
    BY <1>1, <1>4 DEF RefusalMarks
  <2>1. tasks[u][i].turn \in cancelled \/ (i = 1 /\ stage[u] = "ended")
    BY DEF TranscriptInv, RefusalMarks
  <2> QED BY <2>1, <1>1, <1>5
<1>9. RefusedSubmitted' /\ NotBoth'
  BY <1>1, <1>3, <1>4 DEF TranscriptInv, RefusedSubmitted, NotBoth
<1> QED BY <1>7, <1>8, <1>9 DEF TranscriptInv

(* Rows of a task refuse no turn.                                          *)
LEMMA RefusedKept ==
  ASSUME Grows, NEW s \in Session, NEW last \in EventKind,
         \A u \in Session : \A k \in DOMAIN log'[u] :
           \/ k \in DOMAIN log[u]
           \/ u = s /\ \/ log'[u][k] = EventRow(Holder(s), "Progress")
                       \/ log'[u][k] = EventRow(Holder(s), last)
  PROVE  \A u \in Session : Refused(u)' = Refused(u)
<1>1. \A u \in Session : \A k \in DOMAIN log'[u] :
        log'[u][k].by \in {"cancel", "deny"} =>
          k \in DOMAIN log[u] /\ log'[u][k] = log[u][k]
  BY DEF Grows, EventRow
<1> QED BY <1>1 DEF Refused, Grows

LEMMA TranscriptIterate ==
  ASSUME TranscriptInv, LineInv, CauseInv, NEW s \in Session, Iterate(s)
  PROVE  TranscriptInv'
<1>0. TypeOK /\ TaskHome
  BY DEF CauseInv
<1>h. PICK h : h = Holder(s).turn
  OBVIOUS
<1>1. PICK kind \in EventKind :
        /\ Holds(s) /\ KernelYields(s, kind)
        /\ UNCHANGED <<tasks, runs, cancelled>>
        /\ active' \subseteq active
        /\ UNCHANGED <<log, messages>> \/ Flush(s, kind)
  BY DEF Iterate, Suppress, Flush, Buffer, EventKind
<1>2. /\ tasks[s] # <<>> /\ stage[s] = "streaming" /\ ~paused[s]
      /\ \A u \in Session : u # s => stage'[u] = stage[u]
      /\ stage'[s] = "streaming" => kind # "TurnCompleted"
      /\ kind = "TurnCompleted" => stage'[s] = "ended" /\ UNCHANGED approval
      /\ \A t \in Turn : t # h /\ Awaiting(t)' => Awaiting(t)
  BY <1>h, <1>0, <1>1 DEF Holds, KernelYields, Register, NonFinal, CauseInv, PausedEnded, TypeOK, Awaiting
<1>3. /\ 1 \in DOMAIN tasks[s] /\ Holder(s) = tasks[s][1] /\ h = tasks[s][1].turn
      /\ h \in Turn /\ SessionOf[h] = s
  BY <1>0, <1>h, <1>2, HolderPlace
<1>4. h \notin Answered(s) /\ ~Awaiting(h)
  <2>1. h \notin Answered(s)
    BY <1>2, <1>3 DEF TranscriptInv, AnswerSettles
  <2>2. ~Awaiting(h)
    BY <1>2, <1>3 DEF LineInv, AwaitedPaused
  <2> QED BY <2>1, <2>2
<1>5. \A u \in Session : Refused(u)' = Refused(u)
  <2>1. CASE UNCHANGED log
    BY <2>1 DEF Refused
  <2>2. CASE Flush(s, kind)
    <3>1. /\ Grows
          /\ \A u \in Session : \A k \in DOMAIN log'[u] :
               \/ k \in DOMAIN log[u]
               \/ u = s /\ \/ log'[u][k] = EventRow(Holder(s), "Progress")
                           \/ log'[u][k] = EventRow(Holder(s), kind)
      BY <2>2, <1>0, <1>2, FlushRows DEF Flush
    <3> QED BY <3>1, RefusedKept
  <2> QED BY <2>1, <2>2, <1>1
<1>6. /\ \A u \in Session : u # s => messages'[u] = messages[u]
      /\ \/ UNCHANGED messages
         \/ /\ Answered(s)' \subseteq Answered(s) \cup {h}
            /\ kind = "TurnCompleted" /\ Holder(s).kind = "execute"
            /\ h \notin cancelled /\ active' = active \ {h}
  <2>1. CASE UNCHANGED messages
    BY <2>1
  <2>2. CASE Flush(s, kind) /\ ~UNCHANGED messages
    <3>1. /\ messages' = [messages EXCEPT ![s] = Append(@, Answer(h))]
          /\ kind = "TurnCompleted" /\ Holder(s).kind = "execute"
          /\ h \notin cancelled /\ active' = active \ {h}
      BY <2>2, <1>h DEF Flush, StoresAnswer, Suppressed, Save, Answer, Terminal
    <3> QED BY <3>1, <1>0, <1>3, MessageAnswers
  <2> QED BY <2>1, <2>2, <1>1
<1>7. \A u \in Session : \A t \in Answered(u)' :
        \/ t \in Answered(u) /\ t # h
        \/ /\ u = s /\ t = h
           /\ kind = "TurnCompleted" /\ Holder(s).kind = "execute"
           /\ h \notin cancelled /\ active' = active \ {h}
  <2> SUFFICES ASSUME NEW u \in Session, NEW t \in Answered(u)'
               PROVE  \/ t \in Answered(u) /\ t # h
                      \/ /\ u = s /\ t = h
                         /\ kind = "TurnCompleted" /\ Holder(s).kind = "execute"
                         /\ h \notin cancelled /\ active' = active \ {h}
    OBVIOUS
  <2>1. CASE t \in Answered(u)
    BY <2>1, <1>3, <1>4 DEF TranscriptInv, AnswerSettles
  <2>2. CASE t \notin Answered(u)
    <3>1. messages'[u] # messages[u]
      BY <2>2 DEF Answered
    <3>2. u = s /\ t = h /\ messages' # messages
      BY <2>2, <3>1, <1>6
    <3> QED BY <3>2, <1>6
  <2> QED BY <2>1, <2>2
<1>8. AnswerSettles'
  <2> SUFFICES ASSUME NEW u \in Session, NEW t \in Answered(u)'
               PROVE  /\ SessionOf[t] = u /\ t \notin active' /\ 0 < runs[t]
                      /\ approval'[t] \notin {"pending", "granted"}
                      /\ \A i \in DOMAIN tasks[u] :
                           tasks[u][i].turn = t =>
                             i = 1 /\ tasks[u][i].kind = "execute" /\ stage'[u] = "ended"
    BY <1>1 DEF AnswerSettles, Awaiting
  <2>1. CASE t \in Answered(u) /\ t # h
    <3>1. /\ SessionOf[t] = u /\ t \notin active /\ ~Awaiting(t) /\ 0 < runs[t]
          /\ \A i \in DOMAIN tasks[u] :
               tasks[u][i].turn = t =>
                 i = 1 /\ tasks[u][i].kind = "execute" /\ stage[u] = "ended"
      BY <2>1 DEF TranscriptInv, AnswerSettles
    <3>2. t \in Turn /\ ~Awaiting(t)'
      BY <2>1, <3>1, <1>2 DEF Answered
    <3>3. CASE u = s
      BY <3>1, <3>2, <3>3, <1>1, <1>2 DEF Awaiting
    <3>4. CASE u # s
      BY <3>1, <3>2, <3>4, <1>1, <1>2 DEF Awaiting
    <3> QED BY <3>3, <3>4
  <2>2. CASE /\ u = s /\ t = h
             /\ kind = "TurnCompleted" /\ Holder(s).kind = "execute"
             /\ active' = active \ {h}
    <3>1. 0 < runs[h]
      <4>1. 0 < tasks[s][1].run /\ tasks[s][1].run <= runs[h]
        BY <1>3 DEF LineInv, Numbered
      <4> QED BY <4>1, <1>0, <1>3, PlaceType
    <3>2. \A i \in DOMAIN tasks[s] : tasks[s][i].turn = h => i = 1
      <4> SUFFICES ASSUME NEW i \in DOMAIN tasks[s], tasks[s][i].turn = h
                   PROVE  i = 1
        OBVIOUS
      <4>1. ~(1 < i)
        BY <1>2, <1>3 DEF LineInv, Followed
      <4>2. i \in Nat /\ 0 < i
        BY <1>0, PlaceType
      <4> QED BY <4>1, <4>2
    <3>3. approval'[h] \notin {"pending", "granted"}
      BY <2>2, <1>2, <1>4 DEF Awaiting
    <3> QED BY <2>2, <3>1, <3>2, <3>3, <1>2, <1>3
  <2> QED BY <2>1, <2>2, <1>7
<1>9. RefusalMarks'
  <2> SUFFICES ASSUME NEW u \in Session, NEW i \in DOMAIN tasks[u],
                      tasks[u][i].kind = "execute", tasks[u][i].turn \in Refused(u)
               PROVE  tasks[u][i].turn \in cancelled \/ (i = 1 /\ stage'[u] = "ended")
    BY <1>1, <1>5 DEF RefusalMarks
  <2>1. tasks[u][i].turn \in cancelled \/ (i = 1 /\ stage[u] = "ended")
    BY DEF TranscriptInv, RefusalMarks
  <2> QED BY <2>1, <1>2
<1>10. RefusedSubmitted'
  BY <1>1, <1>5 DEF TranscriptInv, RefusedSubmitted
<1>11. NotBoth'
  <2> SUFFICES ASSUME NEW u \in Session, NEW t \in Answered(u)', t \in Refused(u)
               PROVE  FALSE
    BY <1>5 DEF NotBoth
  <2>1. CASE t \in Answered(u)
    BY <2>1 DEF TranscriptInv, NotBoth
  <2>2. CASE u = s /\ t = h /\ Holder(s).kind = "execute" /\ h \notin cancelled
    BY <2>2, <1>2, <1>3 DEF TranscriptInv, RefusalMarks
  <2> QED BY <2>1, <2>2, <1>7
<1> QED BY <1>8, <1>9, <1>10, <1>11 DEF TranscriptInv

LEMMA TranscriptEnd ==
  ASSUME TranscriptInv, LineInv, CauseInv, NEW s \in Session, Exhaust(s) \/ Raise(s)
  PROVE  TranscriptInv'
<1>0. TypeOK /\ TaskHome
  BY DEF CauseInv
<1>h. PICK h : h = Holder(s).turn
  OBVIOUS
<1>1. /\ tasks[s] # <<>> /\ Release(s) /\ UNCHANGED <<messages, runs>>
      /\ active' \subseteq active /\ cancelled' = cancelled \ {h}
  BY <1>h DEF Exhaust, Raise, Finish, Holds
<1>2. /\ \A i \in DOMAIN tasks'[s] :
           /\ i \in Nat /\ i + 1 \in DOMAIN tasks[s] /\ i + 1 # 1
           /\ tasks'[s][i] = tasks[s][i + 1]
      /\ \A u \in Session : u # s => tasks'[u] = tasks[u]
      /\ stage'[s] = "waiting"
      /\ \A u \in Session : u # s => stage'[u] = stage[u]
  BY <1>0, <1>1, LeavePlaces DEF Release, TypeOK
<1>3. 1 \in DOMAIN tasks[s] /\ h = tasks[s][1].turn /\ SessionOf[h] = s
  BY <1>0, <1>1, <1>h, HolderPlace
<1>a. \A t \in Turn :
        Awaiting(t)' => Awaiting(t) \/ (t = h /\ stage[s] = "streaming")
  <2>1. CASE Raise(s)
    BY <2>1 DEF Raise, Awaiting
  <2>2. CASE Exhaust(s)
    BY <1>0, <1>1, <1>h, <2>2, EarlyEnd DEF Awaiting
  <2> QED BY <2>1, <2>2
<1>4. \A u \in Session : Refused(u)' = Refused(u)
  <2>1. "Progress" \in EventKind /\ "TurnFailed" \in EventKind
    BY DEF EventKind, Critical, Terminal
  <2>2. CASE UNCHANGED log
    BY <2>2 DEF Refused
  <2>3. CASE log' = [log EXCEPT ![s] = @ \o PendingRows(s)]
    <3>1. /\ Grows
          /\ \A u \in Session : \A k \in DOMAIN log'[u] :
               \/ k \in DOMAIN log[u]
               \/ u = s /\ \/ log'[u][k] = EventRow(Holder(s), "Progress")
                           \/ log'[u][k] = EventRow(Holder(s), "Progress")
      BY <2>3, <1>0, <1>1, BatchRows
    <3> QED BY <2>1, <3>1, RefusedKept
  <2>4. CASE log' = [log EXCEPT ![s] = Append(@ \o PendingRows(s),
                                              EventRow(Holder(s), "TurnFailed"))]
    <3>1. /\ Grows
          /\ \A u \in Session : \A k \in DOMAIN log'[u] :
               \/ k \in DOMAIN log[u]
               \/ u = s /\ \/ log'[u][k] = EventRow(Holder(s), "Progress")
                           \/ log'[u][k] = EventRow(Holder(s), "TurnFailed")
      BY <2>1, <2>4, <1>0, <1>1, FlushRows
    <3> QED BY <2>1, <3>1, RefusedKept
  <2> QED BY <2>2, <2>3, <2>4 DEF Exhaust, Raise
<1>5. \A u \in Session : Answered(u)' = Answered(u)
  BY <1>1 DEF Answered
<1>6. AnswerSettles'
  <2> SUFFICES ASSUME NEW u \in Session, NEW t \in Answered(u)
               PROVE  /\ SessionOf[t] = u /\ t \notin active' /\ 0 < runs[t]
                      /\ approval'[t] \notin {"pending", "granted"}
                      /\ \A i \in DOMAIN tasks'[u] :
                           tasks'[u][i].turn = t =>
                             i = 1 /\ tasks'[u][i].kind = "execute" /\ stage'[u] = "ended"
    BY <1>1, <1>5 DEF AnswerSettles, Awaiting
  <2>1. /\ SessionOf[t] = u /\ t \notin active /\ ~Awaiting(t) /\ 0 < runs[t]
        /\ \A i \in DOMAIN tasks[u] :
             tasks[u][i].turn = t =>
               i = 1 /\ tasks[u][i].kind = "execute" /\ stage[u] = "ended"
    BY DEF TranscriptInv, AnswerSettles
  <2>2. t # h \/ stage[s] # "streaming"
    BY <2>1, <1>3
  <2>3. t \in Turn /\ approval'[t] \notin {"pending", "granted"}
    BY <2>1, <2>2, <1>a DEF Answered, Awaiting
  <2>4. CASE u = s
    BY <2>1, <2>3, <2>4, <1>1, <1>2
  <2>5. CASE u # s
    BY <2>1, <2>3, <2>5, <1>1, <1>2
  <2> QED BY <2>4, <2>5
<1>7. RefusalMarks'
  <2> SUFFICES ASSUME NEW u \in Session, NEW i \in DOMAIN tasks'[u],
                      tasks'[u][i].kind = "execute", tasks'[u][i].turn \in Refused(u)
               PROVE  tasks'[u][i].turn \in cancelled' \/ (i = 1 /\ stage'[u] = "ended")
    BY <1>4 DEF RefusalMarks
  <2>1. CASE u = s
    <3>1. /\ i + 1 \in DOMAIN tasks[s] /\ i + 1 # 1 /\ 1 < i + 1
          /\ tasks'[s][i] = tasks[s][i + 1]
      <4>1. /\ i \in Nat /\ i + 1 \in DOMAIN tasks[s] /\ i + 1 # 1
            /\ tasks'[s][i] = tasks[s][i + 1]
        BY <2>1, <1>2
      <4>2. 0 < i
        BY <1>0, <1>1, <2>1, ReleaseType
      <4> QED BY <4>1, <4>2
    <3>2. tasks[s][i + 1].turn \in cancelled
      BY <2>1, <3>1 DEF TranscriptInv, RefusalMarks
    <3>3. tasks[s][i + 1].turn # h
      BY <2>1, <3>1, <1>3 DEF LineInv, Followed
    <3> QED BY <2>1, <3>1, <3>2, <3>3, <1>1
  <2>2. CASE u # s
    <3>1. tasks[u][i].turn \in cancelled \/ (i = 1 /\ stage[u] = "ended")
      BY <2>2, <1>2 DEF TranscriptInv, RefusalMarks
    <3>2. tasks[u][i].turn # h
      BY <2>2, <1>0, <1>2, <1>3 DEF TaskHome
    <3> QED BY <2>2, <3>1, <3>2, <1>1, <1>2
  <2> QED BY <2>1, <2>2
<1>8. RefusedSubmitted' /\ NotBoth'
  BY <1>1, <1>4, <1>5 DEF TranscriptInv, RefusedSubmitted, NotBoth
<1> QED BY <1>6, <1>7, <1>8 DEF TranscriptInv

(* A handler that queues a task for a turn with no answer.                 *)
LEMMA TranscriptQueue ==
  ASSUME TranscriptInv, CauseInv, NEW t \in Turn, NEW kind \in {"execute", "continue"},
         CreateTask(t, kind), UNCHANGED <<stage, log, messages, cancelled>>,
         active' \subseteq active \cup {t},
         \A u \in Turn : Awaiting(u)' => Awaiting(u),
         \A s \in Session : t \notin Answered(s),
         kind = "execute" => \A s \in Session : t \notin Refused(s)
  PROVE  TranscriptInv'
<1>0. TypeOK /\ TaskHome
  BY DEF CauseInv
<1>1. \A s \in Session : Answered(s)' = Answered(s) /\ Refused(s)' = Refused(s)
  BY DEF Answered, Refused
<1>2. \A s \in Session : \A i \in DOMAIN tasks'[s] :
        \/ i \in DOMAIN tasks[s] /\ tasks'[s][i] = tasks[s][i]
        \/ tasks'[s][i].turn = t /\ tasks'[s][i].kind = kind
  BY <1>0, JoinPlaces
<1>3. \A u \in Turn : runs[u] \in Nat /\ runs'[u] \in Nat /\ runs[u] <= runs'[u]
  BY <1>0 DEF CreateTask, TypeOK
<1>4. \A s \in Session : Answered(s) \subseteq Turn /\ Refused(s) \subseteq Turn
  BY DEF Answered, Refused
<1>5. AnswerSettles'
  <2> SUFFICES ASSUME NEW s \in Session, NEW v \in Answered(s)
               PROVE  /\ SessionOf[v] = s /\ v \notin active' /\ 0 < runs'[v]
                      /\ approval'[v] \notin {"pending", "granted"}
                      /\ \A i \in DOMAIN tasks'[s] :
                           tasks'[s][i].turn = v =>
                             i = 1 /\ tasks'[s][i].kind = "execute" /\ stage[s] = "ended"
    BY <1>1 DEF AnswerSettles, Awaiting
  <2>1. v # t /\ v \in Turn
    BY <1>4
  <2>2. /\ SessionOf[v] = s /\ v \notin active /\ ~Awaiting(v) /\ 0 < runs[v]
        /\ \A i \in DOMAIN tasks[s] :
             tasks[s][i].turn = v =>
               i = 1 /\ tasks[s][i].kind = "execute" /\ stage[s] = "ended"
    BY DEF TranscriptInv, AnswerSettles
  <2>3. approval'[v] \notin {"pending", "granted"}
    BY <2>1, <2>2 DEF Awaiting
  <2>4. 0 < runs'[v]
    BY <2>1, <2>2, <1>3
  <2> QED BY <2>1, <2>2, <2>3, <2>4, <1>2
<1>6. RefusalMarks'
  <2> SUFFICES ASSUME NEW s \in Session, NEW i \in DOMAIN tasks'[s],
                      tasks'[s][i].kind = "execute", tasks'[s][i].turn \in Refused(s)
               PROVE  tasks'[s][i].turn \in cancelled \/ (i = 1 /\ stage[s] = "ended")
    BY <1>1 DEF RefusalMarks
  <2>1. i \in DOMAIN tasks[s] /\ tasks'[s][i] = tasks[s][i]
    BY <1>2
  <2> QED BY <2>1 DEF TranscriptInv, RefusalMarks
<1>7. RefusedSubmitted'
  <2> SUFFICES ASSUME NEW s \in Session, NEW v \in Refused(s)
               PROVE  0 < runs'[v]
    BY <1>1 DEF RefusedSubmitted
  <2>1. v \in Turn /\ 0 < runs[v]
    BY <1>4 DEF TranscriptInv, RefusedSubmitted
  <2> QED BY <2>1, <1>3
<1>8. NotBoth'
  BY <1>1 DEF TranscriptInv, NotBoth
<1> QED BY <1>5, <1>6, <1>7, <1>8 DEF TranscriptInv

(* A handler that moves no line; it may refuse a turn with no answer.      *)
LEMMA TranscriptRefuse ==
  ASSUME TranscriptInv, CauseInv, NEW t \in Turn, 0 < runs[t],
         UNCHANGED <<tasks, stage, messages, runs>>,
         active' \subseteq active, cancelled \subseteq cancelled',
         \A u \in Turn : Awaiting(u)' => Awaiting(u),
         \A s \in Session : t \notin Answered(s),
         \A s \in Session : Refused(s)' \subseteq Refused(s) \cup {t},
         \A s \in Session : \A i \in DOMAIN tasks[s] :
           tasks[s][i].turn = t => t \in cancelled' \/ (i = 1 /\ stage[s] = "ended")
  PROVE  TranscriptInv'
<1>1. \A s \in Session : Answered(s)' = Answered(s)
  BY DEF Answered
<1>2. AnswerSettles'
  <2> SUFFICES ASSUME NEW s \in Session, NEW v \in Answered(s)
               PROVE  /\ SessionOf[v] = s /\ v \notin active' /\ 0 < runs[v]
                      /\ approval'[v] \notin {"pending", "granted"}
                      /\ \A i \in DOMAIN tasks[s] :
                           tasks[s][i].turn = v =>
                             i = 1 /\ tasks[s][i].kind = "execute" /\ stage[s] = "ended"
    BY <1>1 DEF AnswerSettles, Awaiting
  <2>1. /\ SessionOf[v] = s /\ v \notin active /\ ~Awaiting(v) /\ 0 < runs[v]
        /\ \A i \in DOMAIN tasks[s] :
             tasks[s][i].turn = v =>
               i = 1 /\ tasks[s][i].kind = "execute" /\ stage[s] = "ended"
    BY DEF TranscriptInv, AnswerSettles
  <2>2. v \in Turn
    BY DEF Answered
  <2>3. approval'[v] \notin {"pending", "granted"}
    BY <2>1, <2>2 DEF Awaiting
  <2> QED BY <2>1, <2>3
<1>3. RefusalMarks'
  <2> SUFFICES ASSUME NEW s \in Session, NEW i \in DOMAIN tasks[s],
                      tasks[s][i].kind = "execute", tasks[s][i].turn \in Refused(s)'
               PROVE  tasks[s][i].turn \in cancelled' \/ (i = 1 /\ stage[s] = "ended")
    BY DEF RefusalMarks
  <2>1. CASE tasks[s][i].turn = t
    BY <2>1
  <2>2. CASE tasks[s][i].turn \in Refused(s)
    BY <2>2 DEF TranscriptInv, RefusalMarks
  <2> QED BY <2>1, <2>2
<1>4. RefusedSubmitted' /\ NotBoth'
  BY <1>1 DEF TranscriptInv, RefusedSubmitted, NotBoth
<1> QED BY <1>2, <1>3, <1>4 DEF TranscriptInv

LEMMA TranscriptHandle ==
  ASSUME TranscriptInv, LineInv, CauseInv, NEW t \in Turn, Handle(t)
  PROVE  TranscriptInv'
<1>0. TypeOK /\ TaskHome /\ approval \in [Turn -> ApprovalState]
  BY DEF CauseInv, TypeOK
<1>s. SessionOf[t] \in Session
  BY DaemonTurnsAssumption
<1>1. CASE SendInput(t)
  <2>1. /\ CreateTask(t, "execute") /\ UNCHANGED <<stage, log, messages, cancelled, approval>>
        /\ active' = active \cup {t} /\ runs[t] = 0
    BY <1>1 DEF SendInput, locals
  <2>2. \A s \in Session : t \notin Answered(s) /\ t \notin Refused(s)
    BY <2>1 DEF TranscriptInv, AnswerSettles, RefusedSubmitted
  <2>3. \A u \in Turn : Awaiting(u)' => Awaiting(u)
    BY <2>1 DEF Awaiting
  <2> QED BY <2>1, <2>2, <2>3, TranscriptQueue
<1>2. CASE Approve(t) \/ ContinueTurn(t)
  <2>1. /\ CreateTask(t, "continue") /\ UNCHANGED <<stage, log, messages, cancelled, active>>
        /\ approval' = [approval EXCEPT ![t] = "continued"] /\ Awaiting(t)
    BY <1>2 DEF Approve, ContinueTurn, locals, Awaiting
  <2>2. \A s \in Session : t \notin Answered(s)
    BY <2>1 DEF TranscriptInv, AnswerSettles
  <2>3. \A u \in Turn : Awaiting(u)' => Awaiting(u)
    BY <2>1, <1>0 DEF Awaiting
  <2> QED BY <2>1, <2>2, <2>3, TranscriptQueue
<1>3. CASE CancelTurn(t) \/ Deny(t)
  <2>1. /\ UNCHANGED <<tasks, stage, messages, runs>>
        /\ active' \subseteq active /\ cancelled \subseteq cancelled'
        /\ t \in active \/ Awaiting(t)
        /\ t \in cancelled' \/ Awaiting(t)
        /\ \E by \in {"cancel", "deny"} :
             log' = [log EXCEPT ![SessionOf[t]] = Append(@, CancelRow(t, by))]
    BY <1>3 DEF CancelTurn, Deny, locals, Awaiting
  <2>2. \A u \in Turn : Awaiting(u)' => Awaiting(u)
    BY <1>3, <1>0 DEF CancelTurn, Deny, Awaiting, Withdraw
  <2>3. \A s \in Session : t \notin Answered(s)
    BY <2>1 DEF TranscriptInv, AnswerSettles
  <2>4. 0 < runs[t]
    <3>1. CASE Awaiting(t)
      BY <3>1 DEF LineInv, AwaitedSubmitted
    <3>2. CASE HasTask(t)
      <4>1. PICK i \in DOMAIN tasks[SessionOf[t]] : tasks[SessionOf[t]][i].turn = t
        BY <3>2 DEF HasTask, InLine
      <4>2. 0 < tasks[SessionOf[t]][i].run /\ tasks[SessionOf[t]][i].run <= runs[t]
        BY <4>1, <1>s DEF LineInv, Numbered
      <4>3. tasks[SessionOf[t]][i].run \in Nat /\ runs[t] \in Nat
        BY <1>0, <1>s, PlaceType DEF TypeOK
      <4> QED BY <4>2, <4>3
    <3> QED BY <2>1, <3>1, <3>2 DEF CauseInv, ActiveHasCause
  <2>5. \A s \in Session : Refused(s)' \subseteq Refused(s) \cup {t}
    <3>1. PICK by \in {"cancel", "deny"} :
            log' = [log EXCEPT ![SessionOf[t]] = Append(@, CancelRow(t, by))]
      BY <2>1
    <3>2. \A s \in Session : \A k \in DOMAIN log'[s] :
            \/ k \in DOMAIN log[s] /\ log'[s][k] = log[s][k]
            \/ log'[s][k] = CancelRow(t, by)
      BY <3>1, <1>0, HandlerRow DEF Grows
    <3>3. CancelRow(t, by).turn = t
      BY DEF CancelRow
    <3> QED BY <3>2, <3>3 DEF Refused
  <2>6. \A s \in Session : \A i \in DOMAIN tasks[s] :
          tasks[s][i].turn = t => t \in cancelled' \/ (i = 1 /\ stage[s] = "ended")
    BY <2>1 DEF LineInv, AwaitedPaused, CauseInv, PausedEnded
  <2> QED BY <2>1, <2>2, <2>3, <2>4, <2>5, <2>6, TranscriptRefuse
<1>4. CASE GrantElsewhere(t)
  <2>1. /\ UNCHANGED <<tasks, stage, messages, runs, active, cancelled, log>> /\ Awaiting(t)
        /\ \A u \in Turn : Awaiting(u)' => Awaiting(u)
    BY <1>4, <1>0 DEF GrantElsewhere, locals, Awaiting
  <2>2. /\ \A s \in Session : t \notin Answered(s)
        /\ 0 < runs[t]
        /\ \A s \in Session : Refused(s)' = Refused(s)
        /\ \A s \in Session : \A i \in DOMAIN tasks[s] :
             tasks[s][i].turn = t => t \in cancelled' \/ (i = 1 /\ stage[s] = "ended")
    BY <2>1 DEF TranscriptInv, AnswerSettles, LineInv, AwaitedSubmitted, AwaitedPaused,
       CauseInv, PausedEnded, Refused
  <2> QED BY <2>1, <2>2, TranscriptRefuse
<1> QED BY <1>1, <1>2, <1>3, <1>4 DEF Handle

LEMMA TranscriptStutter ==
  ASSUME TranscriptInv, UNCHANGED vars
  PROVE  TranscriptInv'
<1>1. \A s \in Session : Answered(s)' = Answered(s) /\ Refused(s)' = Refused(s)
  BY DEF vars, Answered, Refused
<1>2. AnswerSettles' /\ RefusalMarks'
  BY <1>1 DEF vars, locals, TranscriptInv, AnswerSettles, RefusalMarks, Awaiting
<1>3. RefusedSubmitted' /\ NotBoth'
  BY <1>1 DEF vars, TranscriptInv, RefusedSubmitted, NotBoth
<1> QED BY <1>2, <1>3 DEF TranscriptInv

LEMMA TranscriptNext ==
  ASSUME TranscriptInv, LineInv, CauseInv, [Next]_vars
  PROVE  TranscriptInv'
<1>1. ASSUME NEW s \in Session, Begin(s) \/ Iterate(s) \/ Exhaust(s) \/ Raise(s)
      PROVE  TranscriptInv'
  BY <1>1, TranscriptBegin, TranscriptIterate, TranscriptEnd
<1>2. CASE Restart
  <2>1. \A s \in Session : Answered(s)' = Answered(s) /\ Refused(s)' = Refused(s)
    BY <1>2 DEF Restart, Answered, Refused
  <2>2. RefusalMarks'
    BY <1>2 DEF Restart, RefusalMarks
  <2>3. AnswerSettles'
    BY <1>2, <2>1 DEF Restart, TranscriptInv, AnswerSettles, Awaiting
  <2>4. RefusedSubmitted' /\ NotBoth'
    BY <1>2, <2>1 DEF Restart, TranscriptInv, RefusedSubmitted, NotBoth
  <2> QED BY <2>2, <2>3, <2>4 DEF TranscriptInv
<1> QED BY <1>1, <1>2, TranscriptHandle, TranscriptStutter DEF Next

(* Of a turn the transcript keeps a question, an answer, or the answer     *)
(* directly behind its question, and no answer of a turn that was          *)
(* cancelled or denied, whichever saves fail.                              *)
THEOREM Transcript == Spec => []TranscriptPairs
<1>1. Init => TranscriptInv
  <2> SUFFICES ASSUME Init PROVE TranscriptInv
    OBVIOUS
  <2>1. \A s \in Session : Answered(s) = {} /\ Refused(s) = {}
    BY DEF Init, Answered, Refused
  <2>2. RefusalMarks
    BY DEF Init, RefusalMarks
  <2>3. AnswerSettles /\ RefusedSubmitted /\ NotBoth
    BY <2>1 DEF AnswerSettles, RefusedSubmitted, NotBoth
  <2> QED BY <2>2, <2>3 DEF TranscriptInv
<1>2. TranscriptInv /\ PairInv /\ CauseInv => TranscriptPairs
  <2> SUFFICES ASSUME TranscriptInv, PairInv, CauseInv PROVE TranscriptPairs
    OBVIOUS
  <2>1. NoAnswerAfterCancel
    <3> SUFFICES ASSUME NEW s \in Session, NEW i \in DOMAIN messages[s],
                        NEW j \in DOMAIN log[s],
                        messages[s][i] = [turn |-> log[s][j].turn, role |-> "assistant"],
                        log[s][j].by \in {"cancel", "deny"}
                 PROVE  FALSE
      BY DEF NoAnswerAfterCancel
    <3>1. log[s][j].turn \in Turn
      BY LoggedType DEF CauseInv
    <3>2. log[s][j].turn \in Answered(s) \cap Refused(s)
      BY <3>1 DEF Answered, Refused, Answer
    <3> QED BY <3>2 DEF TranscriptInv, NotBoth
  <2> QED BY <2>1 DEF PairInv, TranscriptPairs
<1> QED BY <1>1, <1>2, TranscriptNext, PairReachable, LineReachable, CauseReachable,
           PTL DEF Spec
=============================================================================
