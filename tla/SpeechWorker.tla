----------------------------- MODULE SpeechWorker -----------------------------
(***************************************************************************)
(* The supervision of the local speech-to-text worker (voice.rs of kittd,  *)
(* ensure_local_stt_ready and what it calls).  Two threads ask for a ready *)
(* worker: the voice pipeline, before it transcribes, and the warm-up      *)
(* thread that a wake word starts.  Both look at one port and share one    *)
(* handle, stt_worker_process, whose mutex is held during a look at the    *)
(* child, a spawn or a kill, and never while a thread waits.               *)
(***************************************************************************)
EXTENDS Naturals

CONSTANTS
  Autostart,  \* stt_autostart
  Processes   \* bound: the processes there may be at a time, 1..n

ASSUME SpeechWorkerAssumption ==
  Autostart \in BOOLEAN /\ Processes \subseteq Nat \ {0} /\ 1 \in Processes

VARIABLES
  worker,  \* per process, what it is; once the handle is empty an ended one is "none"
  owned,   \* the handle: a process, or 0 for None
  stage    \* per caller, how far its ensure_local_stt_ready is

workerVars == <<worker, owned, stage>>

Caller == {"pipeline", "warmup"}
Live == {"loading", "ready", "degraded"}
Outcome == {"ok", "failed"}

WorkerTypeOK ==
  /\ worker \in [Processes -> Live \cup {"none", "exited"}]
  /\ owned \in Processes \cup {0}
  /\ stage \in [Caller -> {"idle", "probe", "spawn", "poll"} \cup Outcome]

(* With stt_warm_strategy "startup" the first call is made before the      *)
(* voice loop begins.                                                      *)
WorkerInit(calling) ==
  /\ worker = [i \in Processes |-> "none"] /\ owned = 0
  /\ stage = [c \in Caller |-> IF c \in calling THEN "probe" ELSE "idle"]

-----------------------------------------------------------------------------
(* The worker binds the port once its model is loaded; it may exit at any  *)
(* time.                                                                   *)
WorkerStep(i) ==
  /\ \/ worker[i] = "loading" /\ worker' \in {[worker EXCEPT ![i] = s] : s \in {"ready", "degraded"}}
     \/ worker[i] \in Live /\ worker' = [worker EXCEPT ![i] = "exited"]
  /\ UNCHANGED <<owned, stage>>

(* What probe_local_stt may find: a request may go unanswered for 2 s.     *)
Answers ==
  {"unreachable"} \cup {worker[i] : i \in {j \in Processes : worker[j] \in {"ready", "degraded"}}}

Goto(c, s) == stage' = [stage EXCEPT ![c] = s]

(* ensure_local_stt_ready returns.  The warm-up thread only logs what it   *)
(* was told, and ends.                                                     *)
Return(c, outcome) == Goto(c, IF c = "pipeline" THEN outcome ELSE "idle")

(* ensure_local_stt_ready up to the spawn                                  *)
FirstProbe(c) ==
  /\ stage[c] = "probe"
  /\ \E answer \in Answers :
       CASE answer = "ready" -> Return(c, "ok")
         [] answer = "unreachable" /\ Autostart -> Goto(c, "spawn")
         [] OTHER -> Return(c, "failed")
  /\ UNCHANGED <<worker, owned>>

(* The handle is emptied; what ended is gone.                              *)
Emptied(ended) ==
  /\ owned' = 0
  /\ worker' = [i \in Processes |-> IF i \in ended THEN "none" ELSE worker[i]]

(* A process is started, and the handle is its own.                        *)
Started ==
  LET free == {j \in Processes : worker[j] \notin Live} IN
  \E i \in free :
    /\ \A j \in free : i <= j
    /\ worker' = [worker EXCEPT ![i] = "loading"] /\ owned' = i

(* Fault: the child of the handle is not looked at.                        *)
FaultSpawn(c) ==
  /\ stage[c] = "spawn"
  /\ Started /\ Goto(c, "poll")

(* spawn_local_stt_worker, under the mutex: a child that runs is enough;   *)
(* otherwise the candidates are tried in turn, and none may start.         *)
Spawn(c) ==
  /\ stage[c] = "spawn"
  /\ IF owned # 0 /\ worker[owned] \in Live
     THEN Goto(c, "poll") /\ UNCHANGED <<worker, owned>>
     ELSE \/ Started /\ Goto(c, "poll")
          \/ Emptied({owned}) /\ Return(c, "failed")

(* stop_owned_stt_worker: whatever child the handle holds is killed.       *)
Kill == Emptied({owned})

(* One turn of the waiting loop: a probe and, under the mutex, a look at   *)
(* the child (owned_stt_worker_exit).  A handle that the other caller has  *)
(* emptied is no reason to stop waiting.                                   *)
Poll(c) ==
  /\ stage[c] = "poll"
  /\ \E answer \in Answers :
       \/ answer = "ready" /\ Return(c, "ok") /\ UNCHANGED <<worker, owned>>
       \/ answer = "degraded" /\ Return(c, "failed") /\ Kill
       \/ /\ answer = "unreachable" /\ owned # 0 /\ worker[owned] = "exited"
          /\ Emptied({owned}) /\ Return(c, "failed")

(* Fault: the loop goes on until a probe is answered.                      *)
FaultDeadline(c) == FALSE /\ UNCHANGED workerVars

(* stt_start_timeout_ms has passed: the worker is killed, which may be one *)
(* that is ready by now, or one the other caller has just started.         *)
Deadline(c) ==
  /\ stage[c] = "poll"
  /\ Return(c, "failed") /\ Kill

Ensure(c) == FirstProbe(c) \/ Spawn(c) \/ Poll(c) \/ Deadline(c)

-----------------------------------------------------------------------------
(* One worker at a time, and none that nothing can stop: a worker that     *)
(* lives is the one of the handle, however the two callers' looks, spawns  *)
(* and kills interleave.                                                   *)
WorkerOwned == \A i \in Processes : worker[i] \in Live => i = owned
=============================================================================
