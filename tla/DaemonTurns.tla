----------------------------- MODULE DaemonTurns -----------------------------
(***************************************************************************)
(* The turn engine of the Python daemon (DaemonServer, daemon/server.py):  *)
(* send_input, cancel_turn, continue_turn and the approval actions create, *)
(* cancel and resume turns; _execute_turn and _continue_turn are asyncio   *)
(* tasks that take the session's lock, iterate the agent kernel's event    *)
(* stream, batch its events into daemon_events and keep the _active_turns  *)
(* and _cancelled_turns tables that every handler reads.                   *)
(*                                                                         *)
(* One action is one stretch of code between two awaits of the event loop, *)
(* so everything two coroutines can do to each other is an interleaving    *)
(* here.  The agent kernel (rt.processor, rt.approval) is outside src/: it *)
(* is modelled from how server.py uses it.  Goal-owned approvals and the   *)
(* direct UI approvals are not part of this module.                        *)
(***************************************************************************)
EXTENDS Naturals, Sequences

CONSTANTS
  Turn,          \* turn ids
  Session,       \* conversation ids
  SessionOf,     \* the session a turn is submitted to
  NoHistory,     \* the turns sent with no_history=True
  Faulty,        \* bound: the turns whose saves fail and streams end early
  BatchMax,      \* _EVENT_BATCH_MAX, the events buffered before a flush
  MaxProgress,   \* bound: non-final events the kernel yields in a session
  MaxRuns,       \* bound: runs (first execution and resumptions) of a turn
  MaxRestarts    \* bound: crashes and restarts of the daemon

ASSUME DaemonTurnsAssumption ==
  /\ SessionOf \in [Turn -> Session]
  /\ NoHistory \subseteq Turn
  /\ Faulty \subseteq Turn
  /\ BatchMax \in Nat \ {0}
  /\ MaxProgress \in Nat
  /\ MaxRuns \in Nat \ {0}
  /\ MaxRestarts \in Nat

VARIABLES
  active,     \* _active_turns: the turns a client may cancel or continue
  cancelled,  \* _cancelled_turns: the turns whose events are suppressed
  tasks,      \* per session, the tasks on its lock; the head holds the lock
  stage,      \* per session, how far the task at the head is
  pending,    \* per session, the length of that task's pending_events
  paused,     \* per session, that task's paused_for_approval
  progress,   \* per session, the non-final events its streams yielded (history)
  log,        \* per session, the rows of daemon_events (durable)
  approval,   \* per turn, the state of its approval request (durable)
  messages,   \* per session, the messages of the conversation (durable)
  runs,       \* per turn, the number of tasks created for it (history)
  cut,        \* the turns whose last stream ended before its last event (history)
  restarts    \* the number of restarts so far (history)

locals == <<stage, pending, paused, progress>>

vars == <<active, cancelled, tasks, stage, pending, paused, progress,
          log, approval, messages, runs, cut, restarts>>

-----------------------------------------------------------------------------
(* Events.  "Lifecycle" stands for TurnStarted, ThinkingStarted and        *)
(* ThinkingCompleted, "TurnFailed" for TurnBlocked too, "Progress" for     *)
(* every event that is only batched.                                       *)

Terminal == {"TurnCompleted", "TurnFailed", "TurnCancelled"}
Critical == Terminal \cup {"Lifecycle", "ApprovalRequired"}
EventKind == Critical \cup {"Progress"}

(* A recorded row: its turn, its kind, who recorded it ("run": the task    *)
(* that iterates the kernel; "cancel", "deny": the request handlers) and   *)
(* the run it belongs to (history, not a column).                          *)
Row == [turn : Turn, kind : EventKind, by : {"run", "cancel", "deny"}, run : Nat]

Task == [turn : Turn, kind : {"execute", "continue"}, run : Nat]

(* The task at the head of a lock waits to be scheduled, iterates the      *)
(* kernel's stream, or has seen the stream's last event.                   *)
Stage == {"waiting", "streaming", "ended"}

ApprovalState ==
  {"none", "pending", "granted", "continued", "denied", "withdrawn"}

Message == [turn : Turn, role : {"user", "assistant"}]

TypeOK ==
  /\ active \subseteq Turn
  /\ cancelled \subseteq Turn
  /\ tasks \in [Session -> Seq(Task)]
  /\ stage \in [Session -> Stage]
  /\ pending \in [Session -> Nat]
  /\ paused \in [Session -> BOOLEAN]
  /\ progress \in [Session -> Nat]
  /\ log \in [Session -> Seq(Row)]
  /\ approval \in [Turn -> ApprovalState]
  /\ messages \in [Session -> Seq(Message)]
  /\ runs \in [Turn -> Nat]
  /\ cut \subseteq Turn
  /\ restarts \in Nat

-----------------------------------------------------------------------------
(* A row recorded by a task, and the rows its pending events become; only  *)
(* non-critical events are ever pending.                                   *)
EventRow(task, kind) ==
  [turn |-> task.turn, kind |-> kind, by |-> "run", run |-> task.run]

PendingRows(s) == [i \in 1..pending[s] |-> EventRow(Head(tasks[s]), "Progress")]

(* The task at the head of a session's lock, and the turn it works for.    *)
Holder(s) == Head(tasks[s])
Holds(s) == tasks[s] # <<>> /\ stage[s] # "waiting"

InLine(s, t) == \E i \in DOMAIN tasks[s] : tasks[s][i].turn = t
HasTask(t) == InLine(SessionOf[t], t)

RunsInLine(t) ==
  LET queue == tasks[SessionOf[t]]
  IN  {queue[i].run : i \in {j \in DOMAIN queue : queue[j].turn = t}}

(* The run a cancellation reaches: the first task of the turn in line, or  *)
(* none (0) when the turn has no task because it waits for a decision.     *)
CancelledRun(t) ==
  IF RunsInLine(t) = {} THEN 0
  ELSE CHOOSE r \in RunsInLine(t) : \A q \in RunsInLine(t) : r <= q

HasTerminal(t) ==
  \E i \in DOMAIN log[SessionOf[t]] :
    /\ log[SessionOf[t]][i].turn = t
    /\ log[SessionOf[t]][i].kind \in Terminal

Awaiting(t) == approval[t] \in {"pending", "granted"}

-----------------------------------------------------------------------------
Init ==
  /\ active = {}
  /\ cancelled = {}
  /\ tasks = [s \in Session |-> <<>>]
  /\ stage = [s \in Session |-> "waiting"]
  /\ pending = [s \in Session |-> 0]
  /\ paused = [s \in Session |-> FALSE]
  /\ progress = [s \in Session |-> 0]
  /\ log = [s \in Session |-> <<>>]
  /\ approval = [t \in Turn |-> "none"]
  /\ messages = [s \in Session |-> <<>>]
  /\ runs = [t \in Turn |-> 0]
  /\ cut = {}
  /\ restarts = 0

(* asyncio.create_task: the task queues on the session's lock, which wakes *)
(* its waiters in order.                                                   *)
CreateTask(t, kind) ==
  /\ tasks' = [tasks EXCEPT ![SessionOf[t]] =
                 Append(@, [turn |-> t, kind |-> kind, run |-> runs[t] + 1])]
  /\ runs' = [runs EXCEPT ![t] = @ + 1]

(* Request "send_input".                                                   *)
SendInput(t) ==
  /\ runs[t] = 0
  /\ active' = active \cup {t}
  /\ CreateTask(t, "execute")
  /\ UNCHANGED <<cancelled, locals, log, approval, messages, cut, restarts>>

(* save_message: a failure is logged, and the turn goes on without.        *)
Save(s, role) ==
  \/ messages' = [messages EXCEPT ![s] = Append(@, [turn |-> Holder(s).turn, role |-> role])]
  \/ Holder(s).turn \in Faulty /\ UNCHANGED messages

(* _execute_turn acquires the lock, persists the user's message and calls  *)
(* the kernel.                                                             *)
BeginExecute(s) ==
  /\ tasks[s] # <<>> /\ stage[s] = "waiting"
  /\ Holder(s).kind = "execute"
  /\ stage' = [stage EXCEPT ![s] = "streaming"]
  /\ IF Holder(s).turn \in NoHistory THEN UNCHANGED messages ELSE Save(s, "user")
  /\ UNCHANGED <<active, cancelled, tasks, pending, paused, progress,
                 log, approval, runs, cut, restarts>>

(* Fault: a resumed turn is not marked active.                             *)
FaultContinueUnmarked(s) ==
  /\ tasks[s] # <<>> /\ stage[s] = "waiting"
  /\ Holder(s).kind = "continue"
  /\ stage' = [stage EXCEPT ![s] = "streaming"]
  /\ cut' = cut \ {Holder(s).turn}
  /\ UNCHANGED <<active, cancelled, tasks, pending, paused, progress,
                 log, approval, messages, runs, restarts>>

(* _continue_turn acquires the lock; it marks the turn active whatever     *)
(* happened to it while the task waited.                                   *)
BeginContinue(s) ==
  /\ tasks[s] # <<>> /\ stage[s] = "waiting"
  /\ Holder(s).kind = "continue"
  /\ stage' = [stage EXCEPT ![s] = "streaming"]
  /\ active' = active \cup {Holder(s).turn}
  /\ cut' = cut \ {Holder(s).turn}
  /\ UNCHANGED <<cancelled, tasks, pending, paused, progress,
                 log, approval, messages, runs, restarts>>

(* The kernel registers an approval request before it yields the event; it *)
(* has withdrawn it again if the turn was cancelled.                       *)
Register(t) ==
  approval' = [approval EXCEPT ![t] = IF t \in cancelled THEN "withdrawn" ELSE "pending"]

(* The kernel yields an event.  A final event or an approval request is the*)
(* last event of a stream, but a producer told to cancel may answer        *)
(* TurnCancelled and go on.                                                *)
NonFinal == {"Progress", "Lifecycle"}

KernelYields(s, kind) ==
  LET t == Holder(s).turn IN
  /\ stage[s] = "streaming"
  /\ kind \in NonFinal => progress[s] < MaxProgress
  /\ kind = "ApprovalRequired" => runs[t] < MaxRuns
  /\ kind = "TurnCancelled" => t \in cancelled
  /\ progress' = IF kind \in NonFinal
                 THEN [progress EXCEPT ![s] = @ + 1] ELSE progress
  /\ stage' = IF kind \in NonFinal \cup {"TurnCancelled"} THEN stage
              ELSE [stage EXCEPT ![s] = "ended"]
  /\ IF kind = "ApprovalRequired" THEN Register(t) ELSE UNCHANGED approval

(* The test at the top of the loop body.                                   *)
Suppressed(s) == Holder(s).turn \in cancelled

(* The loop body for an event of a cancelled turn: drop it and everything  *)
(* pending.                                                                *)
Suppress(s, kind) ==
  /\ Holds(s) /\ Suppressed(s)
  /\ KernelYields(s, kind)
  /\ pending' = [pending EXCEPT ![s] = 0]
  /\ UNCHANGED <<active, cancelled, tasks, paused, log, messages, runs, cut, restarts>>

(* The loop body for an event that stays in pending_events: a non-critical *)
(* event, with the batch neither full nor older than the flush interval.   *)
Buffer(s) ==
  /\ Holds(s) /\ ~Suppressed(s)
  /\ KernelYields(s, "Progress")
  /\ pending[s] + 1 < BatchMax
  /\ pending' = [pending EXCEPT ![s] = @ + 1]
  /\ UNCHANGED <<active, cancelled, tasks, paused, log, messages, runs, cut, restarts>>

(* Fault: a resumed turn stores its answer too.                            *)
FaultStoresEveryAnswer(task, kind) ==
  kind = "TurnCompleted" /\ task.turn \notin NoHistory

(* The answer is stored when a first execution completes, unless it is     *)
(* empty or that fails.                                                    *)
StoresAnswer(task, kind) ==
  /\ kind = "TurnCompleted"
  /\ task.kind = "execute"
  /\ task.turn \notin NoHistory

(* The loop body for an event that flushes: a critical one, a full batch,  *)
(* or the interval has passed.  A final event retires the turn, a completed*)
(* one stores the assistant's message (first execution only).              *)
Flush(s, kind) ==
  LET task == Holder(s) IN
  /\ Holds(s) /\ ~Suppressed(s)
  /\ KernelYields(s, kind)
  /\ log' = [log EXCEPT ![s] = Append(@ \o PendingRows(s), EventRow(task, kind))]
  /\ pending' = [pending EXCEPT ![s] = 0]
  /\ paused' = IF kind = "ApprovalRequired"
               THEN [paused EXCEPT ![s] = TRUE] ELSE paused
  /\ active' = IF kind \in Terminal THEN active \ {task.turn} ELSE active
  /\ IF StoresAnswer(task, kind) THEN Save(s, "assistant") ELSE UNCHANGED messages
  /\ UNCHANGED <<cancelled, tasks, runs, cut, restarts>>

(* The task ends: the lock goes to the next one in line.                   *)
Release(s) ==
  /\ tasks' = [tasks EXCEPT ![s] = Tail(@)]
  /\ stage' = [stage EXCEPT ![s] = "waiting"]
  /\ pending' = [pending EXCEPT ![s] = 0]
  /\ paused' = [paused EXCEPT ![s] = FALSE]
  /\ UNCHANGED progress

(* Faults of the finally clause: it forgets the turn; it retires paused    *)
(* turns too; it does not release the lock.                                *)
FaultKeepsActive(s) ==
  /\ cancelled' = cancelled \ {Holder(s).turn}
  /\ Release(s)
  /\ UNCHANGED active

FaultRetiresPaused(s) ==
  /\ cancelled' = cancelled \ {Holder(s).turn}
  /\ active' = active \ {Holder(s).turn}
  /\ Release(s)

FaultKeepsLock(s) ==
  /\ cancelled' = cancelled \ {Holder(s).turn}
  /\ active' = IF paused[s] THEN active ELSE active \ {Holder(s).turn}
  /\ UNCHANGED <<tasks, locals>>

(* The finally clause: the turn is no longer suppressed, it stays active   *)
(* only when the run paused for an approval, and the lock goes to the next *)
(* task.                                                                   *)
Finish(s) ==
  /\ cancelled' = cancelled \ {Holder(s).turn}
  /\ active' = IF paused[s] THEN active ELSE active \ {Holder(s).turn}
  /\ Release(s)

(* The stream ends early: its last event was lost with a put that timed    *)
(* out.  When that was an approval request, it stays registered.           *)
RequestLost(s) ==
  /\ stage[s] = "streaming"
  /\ runs[Holder(s).turn] < MaxRuns
  /\ Register(Holder(s).turn)

(* The stream ends, after its last event or at any other: what is pending  *)
(* is flushed, whether or not the turn was cancelled meanwhile.            *)
Exhaust(s) ==
  /\ Holds(s)
  /\ stage[s] = "ended" \/ Holder(s).turn \in cancelled \cup Faulty
  /\ log' = [log EXCEPT ![s] = @ \o PendingRows(s)]
  /\ UNCHANGED approval \/ RequestLost(s)
  /\ cut' = IF stage[s] = "ended" \/ Holder(s).turn \in cancelled
            THEN cut ELSE cut \cup {Holder(s).turn}
  /\ Finish(s)
  /\ UNCHANGED <<messages, runs, restarts>>

(* Fault: a failure is recorded for a cancelled turn as well.              *)
FaultRaiseUnchecked(s) ==
  /\ Holds(s)
  /\ log' = [log EXCEPT ![s] =
               Append(@ \o PendingRows(s), EventRow(Holder(s), "TurnFailed"))]
  /\ Finish(s)
  /\ UNCHANGED <<approval, messages, runs, cut, restarts>>

(* The stream raises: nothing is recorded for a cancelled turn; otherwise  *)
(* the turn is retired, pending events are flushed and TurnFailed recorded.*)
Raise(s) ==
  LET t == Holder(s).turn IN
  /\ Holds(s)
  /\ IF t \in cancelled
     THEN UNCHANGED log
     ELSE log' = [log EXCEPT ![s] = Append(@ \o PendingRows(s),
                                           EventRow(Holder(s), "TurnFailed"))]
  /\ cancelled' = cancelled \ {t}
  /\ active' = IF t \in cancelled /\ paused[s] THEN active ELSE active \ {t}
  /\ Release(s)
  /\ UNCHANGED <<approval, messages, runs, cut, restarts>>

-----------------------------------------------------------------------------
(* Fault: the row is recorded under a kind that no client knows.           *)
FaultCancelRow(t, by) ==
  [turn |-> t, kind |-> "Cancelled", by |-> by, run |-> CancelledRun(t)]

(* The row a handler records for the kernel's answer to cancel_turn.       *)
CancelRow(t, by) ==
  [turn |-> t, kind |-> "TurnCancelled", by |-> by, run |-> CancelledRun(t)]

(* processor.cancel_turn withdraws the turn's pending approval.            *)
Withdraw(t) == IF approval[t] = "pending" THEN "withdrawn" ELSE approval[t]

(* Request "cancel_turn", for a turn that _require_active_turn accepts.    *)
CancelTurn(t) ==
  /\ t \in active
  /\ log' = [log EXCEPT ![SessionOf[t]] = Append(@, CancelRow(t, "cancel"))]
  /\ approval' = [approval EXCEPT ![t] = Withdraw(t)]
  /\ cancelled' = cancelled \cup {t}
  /\ active' = active \ {t}
  /\ UNCHANGED <<tasks, locals, messages, runs, cut, restarts>>

(* Request "approval.approve": the grant is issued, which only a pending   *)
(* request admits, and a task resumes the turn, active or not.             *)
Approve(t) ==
  /\ approval[t] = "pending"
  /\ approval' = [approval EXCEPT ![t] = "continued"]
  /\ CreateTask(t, "continue")
  /\ UNCHANGED <<active, cancelled, locals, log, messages, cut, restarts>>

(* Request "approval.deny".                                                *)
Deny(t) ==
  /\ approval[t] = "pending"
  /\ approval' = [approval EXCEPT ![t] = "denied"]
  /\ log' = [log EXCEPT ![SessionOf[t]] = Append(@, CancelRow(t, "deny"))]
  /\ active' = active \ {t}
  /\ UNCHANGED <<cancelled, tasks, locals, messages, runs, cut, restarts>>

(* Another process of the workspace, which shares the approval store,      *)
(* issues the grant; its holder then sends "continue_turn" with it, which  *)
(* the daemon accepts only while the turn is active.                       *)
GrantElsewhere(t) ==
  /\ approval[t] = "pending"
  /\ approval' = [approval EXCEPT ![t] = "granted"]
  /\ UNCHANGED <<active, cancelled, tasks, locals, log, messages, runs, cut, restarts>>

ContinueTurn(t) ==
  /\ approval[t] = "granted"
  /\ t \in active
  /\ approval' = [approval EXCEPT ![t] = "continued"]
  /\ CreateTask(t, "continue")
  /\ UNCHANGED <<active, cancelled, locals, log, messages, cut, restarts>>

(* The daemon crashes or is stopped, and a new one is started on the same  *)
(* database: tables, tasks and unflushed events are gone.                  *)
Restart ==
  /\ restarts < MaxRestarts
  /\ restarts' = restarts + 1
  /\ active' = {}
  /\ cancelled' = {}
  /\ tasks' = [s \in Session |-> <<>>]
  /\ stage' = [s \in Session |-> "waiting"]
  /\ pending' = [s \in Session |-> 0]
  /\ paused' = [s \in Session |-> FALSE]
  /\ UNCHANGED <<progress, log, approval, messages, runs, cut>>

-----------------------------------------------------------------------------
Begin(s) == BeginExecute(s) \/ BeginContinue(s)

Iterate(s) ==
  \/ \E kind \in EventKind : Suppress(s, kind) \/ Flush(s, kind)
  \/ Buffer(s)

Handle(t) ==
  \/ SendInput(t)
  \/ CancelTurn(t)
  \/ Approve(t)
  \/ Deny(t)
  \/ GrantElsewhere(t)
  \/ ContinueTurn(t)

Next ==
  \/ \E s \in Session : Begin(s) \/ Iterate(s) \/ Exhaust(s) \/ Raise(s)
  \/ \E t \in Turn : Handle(t)
  \/ Restart

Spec == Init /\ [][Next]_vars

(* The event loop schedules a task that can run, and the kernel's stream   *)
(* does not stall: it eventually yields its last event or ends without.    *)
(* Nothing is assumed of the clients, of exceptions or of restarts.        *)
KernelAdvances(s) ==
  \/ \E kind \in Terminal \cup {"ApprovalRequired"} :
       Suppress(s, kind) \/ Flush(s, kind)
  \/ Exhaust(s)

Fairness == \A s \in Session : WF_vars(Begin(s)) /\ WF_vars(KernelAdvances(s))

FairSpec == Spec /\ Fairness

-----------------------------------------------------------------------------
(* Properties.                                                             *)

(* No turn stays in _active_turns without a reason: an active turn has a   *)
(* task that will retire it, or waits for a decision on an approval.  The  *)
(* pops of the handlers, of the loop and of the finally clause, with its   *)
(* exception for paused runs, have to add up to this.                      *)
ActiveHasCause == \A t \in active : HasTask(t) \/ Awaiting(t)

(* What runs can be cancelled: as long as nothing final was recorded for   *)
(* the turn whose task holds the lock, or for a submitted turn that still  *)
(* waits for it, _require_active_turn accepts a request to cancel it.      *)
RunningIsCancellable ==
  \A t \in Turn :
    (\E i \in DOMAIN tasks[SessionOf[t]] :
       /\ tasks[SessionOf[t]][i].turn = t
       /\ \/ tasks[SessionOf[t]][i].kind = "execute"
          \/ i = 1 /\ stage[SessionOf[t]] # "waiting")
    => t \in active \/ HasTerminal(t)

(* A turn that waits for a decision keeps its place in _active_turns, so   *)
(* that continue_turn is accepted and cancel_turn reaches it, until it is  *)
(* cancelled or fails (or the daemon restarts, or the stream ended before  *)
(* it told of the request).                                                *)
AwaitingStaysActive ==
  restarts = 0 =>
    \A t \in Turn : Awaiting(t) => t \in active \/ HasTerminal(t) \/ t \in cut

(* Once a run was cancelled, its producer records no critical event any    *)
(* more: no second outcome, no approval request, no late answer.           *)
LateCriticalSuppressed ==
  \A s \in Session : \A i, j \in DOMAIN log[s] :
    /\ i < j
    /\ log[s][i].by = "cancel" /\ log[s][j].by = "run"
    /\ log[s][i].turn = log[s][j].turn
    /\ log[s][i].run = log[s][j].run
    => log[s][j].kind = "Progress"

(* Of a turn the transcript keeps one question, one answer, or the answer  *)
(* directly behind its question, whichever of the two could be saved.      *)
AnswerFollowsQuestion ==
  \A s \in Session : \A i, j \in DOMAIN messages[s] :
    i < j /\ messages[s][i].turn = messages[s][j].turn =>
      j = i + 1 /\ messages[s][i].role = "user" /\ messages[s][j].role = "assistant"

(* A turn that was cancelled or denied has no answer in the transcript.    *)
NoAnswerAfterCancel ==
  \A s \in Session : \A i \in DOMAIN messages[s] : \A j \in DOMAIN log[s] :
    ~ /\ messages[s][i] = [turn |-> log[s][j].turn, role |-> "assistant"]
      /\ log[s][j].by \in {"cancel", "deny"}

(* The transcript pairs questions and answers whatever turns were queued,  *)
(* paused and resumed around them, and keeps no answer the user refused.   *)
TranscriptPairs == AnswerFollowsQuestion /\ NoAnswerAfterCancel

(* Every task settles its turn, whatever else queues on the lock: an       *)
(* outcome is recorded, or the turn waits for a decision, or its stream    *)
(* ended before it told of one, or the daemon restarts.                    *)
SubmittedSettles ==
  \A t \in Turn : \A n \in 0..MaxRestarts :
    HasTask(t) /\ restarts = n ~>
      HasTerminal(t) \/ Awaiting(t) \/ t \in cut \/ restarts > n

(* What a document or a comment says and the code does not keep: README.md, *)
(* section 6, names the instance in which TLC finds it violated.            *)

(* CHANGELOG.md: "late producer events cannot appear after the             *)
(* cancellation".                                                          *)
NoLateEvents ==
  \A s \in Session : \A i, j \in DOMAIN log[s] :
    ~ /\ i < j
      /\ log[s][i].by = "cancel" /\ log[s][j].by = "run"
      /\ log[s][i].turn = log[s][j].turn

(* CHANGELOG.md: "Cancellation owns a single terminal notification": no    *)
(* task records another outcome for a turn that was cancelled.             *)
SingleTerminal ==
  \A s \in Session : \A i, j \in DOMAIN log[s] :
    ~ /\ i < j
      /\ log[s][i].by = "cancel" /\ log[s][j].by = "run"
      /\ log[s][i].turn = log[s][j].turn
      /\ log[s][j].kind \in Terminal
=============================================================================
