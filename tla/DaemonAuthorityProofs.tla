------------------------ MODULE DaemonAuthorityProofs ------------------------
(***************************************************************************)
(* Proofs about DaemonAuthority: as long as calls, starts and stops come   *)
(* one after another there is one authority and the files name it, with    *)
(* any number of daemons, frontends, calls, kills and outages, and with    *)
(* waits that run out.                                                     *)
(***************************************************************************)
EXTENDS DaemonAuthority, FiniteSetTheorems, TLAPS

USE DEF Caller

-----------------------------------------------------------------------------
(* Types.                                                                  *)

LEMMA TypeInit == Init => TypeOK
<1> SUFFICES ASSUME Init PROVE TypeOK
  OBVIOUS
<1>1. [c \in Caller |-> "idle"] \in [Caller -> StopStage]
  BY DEF StopStage
<1>2. stop \in [Daemon -> [Caller -> StopStage]]
  BY <1>1 DEF Init
<1>3. target \in [Frontend -> Daemon \cup {Nobody}] /\ peer = target
  BY DEF Init
<1>4. pc \in [Daemon -> Phase] /\ fe \in [Frontend -> FrontendStep]
  BY DEF Init, Phase, FrontendStep
<1>5. calls \in 0..MaxCalls /\ crashes \in 0..MaxCrashes
  BY DaemonAuthorityAssumption DEF Init
<1> QED
  BY <1>2, <1>3, <1>4, <1>5 DEF Init, TypeOK

LEMMA StageType ==
  ASSUME stop \in [Daemon -> [Caller -> StopStage]],
         NEW d \in Daemon, NEW c \in Caller, NEW stage \in StopStage, Stage(d, c, stage)
  PROVE  stop' \in [Daemon -> [Caller -> StopStage]]
<1>1. [stop[d] EXCEPT ![c] = stage] \in [Caller -> StopStage]
  OBVIOUS
<1> QED
  BY <1>1 DEF Stage

(* Daemons that are killed are gone, with what they knew; the others are as*)
(* before.                                                                 *)
LEMMA Kill ==
  ASSUME TypeOK, NEW D, Killed(D)
  PROVE  /\ pc' \in [Daemon -> Phase] /\ stop' \in [Daemon -> [Caller -> StopStage]]
         /\ running' \in [Daemon -> BOOLEAN] /\ listener' \in [Daemon -> BOOLEAN]
         /\ \A d \in Daemon \cap D : pc'[d] \in {"unborn", "gone"} /\ pc'[d] \in {pc[d], "gone"}
         /\ \A d \in Daemon \cap D : ~running'[d] /\ \A c \in Caller : stop'[d][c] = "idle"
         /\ \A d \in Daemon \ D : pc'[d] = pc[d] /\ running'[d] = running[d]
         /\ \A d \in Daemon \ D : \A c \in Caller : stop'[d][c] = stop[d][c]
<1>1. pc' \in [Daemon -> Phase]
  BY DEF TypeOK, Killed, Phase
<1>2. stop' \in [Daemon -> [Caller -> StopStage]]
  BY DEF TypeOK, Killed, StopStage
<1>3. running' \in [Daemon -> BOOLEAN]
  BY DEF TypeOK, Killed
<1>4. listener' \in [Daemon -> BOOLEAN]
  BY DEF TypeOK, Killed
<1>5. \A d \in Daemon \cap D : pc'[d] \in {"unborn", "gone"} /\ pc'[d] \in {pc[d], "gone"}
  BY DaemonAuthorityAssumption DEF Killed, Alive
<1>6. \A d \in Daemon : pc'[d] = IF d \in D /\ Alive(d) THEN "gone" ELSE pc[d]
  BY DEF Killed
<1>7. \A d \in Daemon : running'[d] = (d \notin D /\ running[d])
  BY DEF Killed
<1>8. \A d \in Daemon : \A c \in Caller : stop'[d][c] = IF d \in D THEN "idle" ELSE stop[d][c]
  BY DEF Killed
<1>9. \A d \in Daemon \ D : running'[d] = running[d]
  BY <1>3, <1>7 DEF TypeOK
<1> QED
  BY <1>1, <1>2, <1>3, <1>4, <1>5, <1>6, <1>7, <1>8, <1>9

(* What the actions of a daemon do, apart from its start in the foreground.*)
LEMMA TypeDaemon ==
  ASSUME TypeOK, NEW d \in Daemon, Proceed(d) \/ Interrupt(d) \/ Crash(d)
  PROVE  TypeOK'
<1> USE DaemonAuthorityAssumption
    DEF TypeOK, Phase, Starting, Goto, BeginStop, CloseSocket, Cleanup, ReleaseLock,
        files, procs, callers
<1> "request" \in Caller /\ "loop" \in Caller
  OBVIOUS
<1> {"closing", "closed", "cleaned", "done"} \subseteq StopStage
  BY DEF StopStage
<1> HIDE DEF Caller
<1>1. CASE Acquire(d)
  BY <1>1 DEF Acquire, CreateLock, WriteLock, InspectLock, RecoverLock
<1>2. CASE Bind(d) \/ Announce(d) \/ Loaded(d)
  BY <1>2 DEF Bind, Announce, Loaded
<1>3. CASE LoadFails(d)
  BY <1>3 DEF LoadFails
<1>4. CASE RollBack(d)
  BY <1>4 DEF RollBack
<1>5. CASE StopAsked(d)
  BY <1>5, StageType DEF StopAsked
<1>6. CASE LoopEnds(d)
  BY <1>6, StageType DEF LoopEnds
<1>7. CASE LoopStopped(d)
  BY <1>7 DEF LoopStopped
<1>8. CASE Exit(d)
  BY <1>8, StageType DEF Exit
<1>9. ASSUME NEW c \in Caller, ListenerClosed(d, c) \/ StopCleanup(d, c) \/ StopRelease(d, c)
      PROVE  TypeOK'
  BY <1>9, StageType DEF ListenerClosed, StopCleanup, StopRelease
<1>10. CASE Interrupt(d)
  BY <1>10, StageType DEF Interrupt
<1>11. CASE Crash(d)
  BY <1>11, Kill DEF Crash
<1> QED
  BY <1>1, <1>2, <1>3, <1>4, <1>5, <1>6, <1>7, <1>8, <1>9, <1>10, <1>11
     DEF Proceed, StartDaemon, StopDaemon

LEMMA TypeFrontend ==
  ASSUME TypeOK, NEW f \in Frontend, CallStart(f) \/ CallStop(f) \/ Continue(f)
  PROVE  TypeOK'
<1> USE DaemonAuthorityAssumption
    DEF TypeOK, FrontendStep, Step, Looks, files, procs, callers
<1>1. CASE CallStart(f) \/ CallStop(f)
  BY <1>1 DEF CallStart, CallStop, Call
<1>2. CASE Probe(f) \/ ProbeState(f)
  BY <1>2 DEF Probe, ProbeState
<1>3. Unanswered(f) \in FrontendStep
  BY DEF Unanswered
<1>4. CASE Ask(f)
  <2>1. ASSUME Reachable PROVE sock \in Daemon
    BY <2>1 DEF Reachable, Alive
  <2>2. ASSUME Reachable, stop' = [stop EXCEPT ![sock]["request"] = "asked"]
        PROVE  stop' \in [Daemon -> [Caller -> StopStage]]
    <3>1. [stop[sock] EXCEPT !["request"] = "asked"] \in [Caller -> StopStage]
      BY <2>1, <2>2 DEF StopStage
    <3> QED
      BY <2>2, <3>1
  <2>4. stop' \in [Daemon -> [Caller -> StopStage]]
    BY <1>4, <2>2 DEF Ask, AskStop
  <2>5. peer' \in [Frontend -> Daemon \cup {Nobody}]
    BY <1>4, <2>1 DEF Ask, AskStop
  <2>3. fe' \in [Frontend -> FrontendStep]
    BY <1>3, <1>4 DEF Ask, AskStop
  <2> QED
    BY <1>4, <2>3, <2>4, <2>5 DEF Ask, AskStop
<1>5. CASE Answer(f)
  BY <1>3, <1>5 DEF Answer
<1>6. CASE AwaitExit(f)
  BY <1>6 DEF AwaitExit
<1>7. CASE Clear(f) \/ FrontendCleanup(f)
  BY <1>7 DEF Clear, FrontendCleanup, CleanupFiles, Cleanup
<1>8. CASE Spawn(f)
  BY <1>8 DEF Spawn, Goto, Phase, Starting
<1>9. CASE Await(f)
  BY <1>9 DEF Await
<1>10. CASE Terminate(f)
  BY <1>10, Kill DEF Terminate
<1> QED
  BY <1>1, <1>2, <1>4, <1>5, <1>6, <1>7, <1>8, <1>9, <1>10 DEF Continue

LEMMA TypeStep == TypeOK /\ [Next]_vars => TypeOK'
<1> SUFFICES ASSUME TypeOK, [Next]_vars PROVE TypeOK'
  OBVIOUS
<1>1. ASSUME NEW d \in Daemon, RunForeground(d) PROVE TypeOK'
  BY <1>1 DEF RunForeground, TypeOK, Goto, Phase, Starting, files, callers
<1>2. CASE Outage
  BY <1>2, Kill, DaemonAuthorityAssumption DEF Outage, TypeOK, FrontendStep, files
<1>3. CASE UNCHANGED vars
  BY <1>3 DEF TypeOK, vars, files, procs, callers
<1> QED
  BY <1>1, <1>2, <1>3, TypeDaemon, TypeFrontend DEF Next

(* Every variable keeps its type, whatever overlaps: TypeOK of             *)
(* DaemonAuthority.                                                        *)
THEOREM TypeCorrect == Spec => []TypeOK
<1> QED
  BY TypeInit, TypeStep, PTL DEF Spec
-----------------------------------------------------------------------------
(* One authority.                                                          *)

Idle(d) == \A c \in Caller : stop[d][c] = "idle"
Named(d) == lock = d /\ lockPid /\ sock = d /\ pidFile = d

(* A daemon that starts looks at the lock first; one that serves and is not*)
(* stopped need not mind it.                                               *)
Newcomer(d) == pc[d] \in {"create", "inspect"}
Incumbent(d) == pc[d] = "serving" /\ running[d] /\ Idle(d)

Unannounced ==
  {"unborn", "create", "inspect", "recover", "recreate", "write", "bind", "announce"}

(* A daemon runs from its announcement until a stop() begins.                *)
RunsBy(d) ==
  /\ pc[d] \in Unannounced => ~running[d] /\ Idle(d)
  /\ pc[d] = "loading" => running[d]
  /\ pc[d] = "serving" /\ Idle(d) => running[d]
  /\ running[d] => \A c \in Caller : stop[d][c] \in {"idle", "asked"}
RunsOnce == \A d \in Daemon : RunsBy(d)

(* A daemon that starts takes the lock, the socket and the pid file, one   *)
(* after the other, and keeps them while it runs.                          *)
Takes(d) ==
  /\ pc[d] \in {"write", "bind", "announce"} => lock = d
  /\ pc[d] \in {"bind", "announce"} => lockPid
  /\ pc[d] = "announce" => sock = d
  /\ Authority(d) => Named(d) /\ pc[d] \in {"loading", "serving"}
TakesOver == \A d \in Daemon : Takes(d)

(* Two daemons are there only while a newcomer finds the lock taken.       *)
OneStands ==
  \A d, e \in Daemon : Alive(d) /\ Alive(e) /\ d # e =>
    (Newcomer(d) /\ Incumbent(e)) \/ (Incumbent(d) /\ Newcomer(e))

(* One call is under way at a time.  The daemon that is there, if any, is  *)
(* the one it knows; a call that removes files or starts a daemon has seen *)
(* the last one end.                                                       *)
OneCall == \A f, g \in Frontend : fe[f] # "idle" /\ fe[g] # "idle" => f = g
CallSees ==
  \A f \in Frontend : fe[f] # "idle" =>
    \A d \in Daemon : Alive(d) =>
      fe[f] \notin {"clear", "spawn", "failed", "cleanup"} /\ target[f] = d

AuthorityInv == RunsOnce /\ TakesOver /\ OneStands /\ OneCall /\ CallSees

LEMMA AuthorityInit == Init => AuthorityInv
BY DEF Init, AuthorityInv, RunsOnce, RunsBy, TakesOver, Takes, OneStands, OneCall, CallSees, Idle, Alive,
       Authority, Unannounced

(* A daemon past its look at the lock that is not an incumbent is alone.   *)
LEMMA Sole ==
  ASSUME OneStands, NEW d \in Daemon, Alive(d), ~Newcomer(d), ~Incumbent(d),
         NEW e \in Daemon, Alive(e)
  PROVE  e = d
BY DEF OneStands, Newcomer, Incumbent

(* The lock of an incumbent is its own, and a newcomer respects it.        *)
LEMMA LockStep ==
  ASSUME TypeOK, AuthorityInv, NEW d \in Daemon, Acquire(d)
  PROVE  AuthorityInv'
<1> USE DEF Alive, Authority, Named, Idle, RunsBy, Takes
<1>1. /\ UNCHANGED <<sock, pidFile, running, stop, fe, target>>
      /\ \A e \in Daemon \ {d} : pc'[e] = pc[e]
  BY DEF Acquire, CreateLock, WriteLock, InspectLock, RecoverLock, Goto, callers, files, TypeOK
<1>2. pc[d] \in Unannounced /\ pc'[d] \in Unannounced \cup {"gone"} /\ pc[d] # "unborn" /\ pc'[d] # "unborn"
  BY DEF Acquire, CreateLock, WriteLock, InspectLock, RecoverLock, Goto, Unannounced, TypeOK
<1>3. RunsOnce' /\ OneCall' /\ CallSees'
  BY <1>1, <1>2 DEF AuthorityInv, RunsOnce, OneCall, CallSees, Unannounced
<1>4. ASSUME NEW e \in Daemon, e # d, Alive(e), Incumbent(e), Newcomer(d)
      PROVE  Newcomer(d)' \/ pc'[d] = "gone"
  BY <1>1, <1>4 DEF AuthorityInv, TakesOver, Incumbent, Newcomer, Acquire, CreateLock, WriteLock, InspectLock, RecoverLock, Goto, TypeOK
<1>5. OneStands'
  BY <1>1, <1>2, <1>4 DEF AuthorityInv, OneStands, Incumbent, Newcomer, Unannounced
<1>6. ASSUME NEW e \in Daemon, e # d, Alive(e)
      PROVE  pc[d] \in {"create", "inspect"} /\ Incumbent(e) /\ UNCHANGED <<lock, lockPid>>
  <2>1. Newcomer(d) /\ Incumbent(e)
    BY <1>2, <1>6, DaemonAuthorityAssumption DEF AuthorityInv, OneStands, Incumbent, Newcomer, Unannounced
  <2>2. lock = e /\ lock # Nobody /\ lockPid
    BY <1>6, <2>1, DaemonAuthorityAssumption DEF AuthorityInv, TakesOver, Incumbent
  <2> QED
    BY <2>1, <2>2 DEF Newcomer, Acquire, CreateLock, WriteLock, InspectLock, RecoverLock, files
<1>7. ASSUME pc'[d] \in {"write", "bind"}
      PROVE  lock' = d /\ (pc'[d] = "bind" => lockPid')
  BY <1>2, <1>7 DEF AuthorityInv, TakesOver, Acquire, CreateLock, WriteLock, InspectLock,
                    RecoverLock, Goto, TypeOK
<1>8. pc'[d] # "announce" /\ pc'[d] # "loading"
  BY DEF Acquire, CreateLock, WriteLock, InspectLock, RecoverLock, Goto, TypeOK
<1>9. TakesOver'
  <2>1. ASSUME NEW e \in Daemon, e # d, Alive(e)'
        PROVE  /\ pc'[e] \notin {"write", "bind", "announce"}
               /\ Authority(e)' => Named(e)' /\ pc'[e] \in {"loading", "serving"}
    BY <1>1, <1>6, <2>1 DEF AuthorityInv, TakesOver, Incumbent
  <2>2. ~Authority(d)'
    BY <1>1, <1>2 DEF AuthorityInv, RunsOnce
  <2> QED
    BY <1>7, <1>8, <2>1, <2>2, DaemonAuthorityAssumption DEF TakesOver
<1> QED
  BY <1>3, <1>5, <1>9 DEF AuthorityInv

(* A daemon that is alone keeps the invariant if its own part of it holds. *)
LEMMA AloneStep ==
  ASSUME AuthorityInv, NEW d \in Daemon, Alive(d), \A e \in Daemon : Alive(e) => e = d,
         \A e \in Daemon \ {d} : UNCHANGED <<pc[e], running[e], stop[e]>>,
         UNCHANGED <<fe, target>>, RunsBy(d)', Takes(d)'
  PROVE  AuthorityInv'
<1>1. RunsOnce'
  BY DEF AuthorityInv, RunsOnce, RunsBy, Idle
<1>2. \A e \in Daemon : Alive(e)' => e = d
  BY DEF Alive
<1>3. TakesOver'
  BY <1>1, <1>2, DaemonAuthorityAssumption
     DEF TakesOver, Takes, Authority, Alive
<1>4. OneStands' /\ OneCall' /\ CallSees'
  BY <1>2 DEF AuthorityInv, OneStands, OneCall, CallSees, Alive
<1> QED
  BY <1>1, <1>3, <1>4 DEF AuthorityInv

(* A start past the lock,                                                  *)
LEMMA StartStep ==
  ASSUME TypeOK, AuthorityInv, NEW d \in Daemon,
         Bind(d) \/ Announce(d) \/ Loaded(d) \/ LoadFails(d) \/ RollBack(d)
  PROVE  AuthorityInv'
<1> USE DEF Goto, callers, files
<1>1. Alive(d) /\ ~Newcomer(d) /\ ~Incumbent(d)
  BY DaemonAuthorityAssumption
     DEF Alive, Newcomer, Incumbent, Bind, Announce, Loaded, LoadFails, RollBack
<1>2. \A e \in Daemon : Alive(e) => e = d
  BY <1>1, Sole DEF AuthorityInv
<1>3. /\ UNCHANGED <<fe, target>>
      /\ \A e \in Daemon \ {d} : UNCHANGED <<pc[e], running[e], stop[e]>>
  BY DEF TypeOK, Bind, Announce, Loaded, LoadFails, RollBack
<1>4. RunsBy(d) /\ Takes(d)
  BY DEF AuthorityInv, RunsOnce, TakesOver
<1>5. RunsBy(d)'
  BY <1>4 DEF TypeOK, RunsBy, Idle, Unannounced, Bind, Announce, Loaded, LoadFails, RollBack
<1>6. Takes(d)'
  BY <1>1, <1>4 DEF TypeOK, RunsBy, Idle, Takes, Authority, Alive, Named, Unannounced,
                    Bind, Announce, Loaded, LoadFails, RollBack
<1> QED
  BY <1>1, <1>2, <1>3, <1>5, <1>6, AloneStep

(* and a stop.                                                             *)
LEMMA StopStep ==
  ASSUME TypeOK, AuthorityInv, ~Overlap, NEW d \in Daemon, StopDaemon(d) \/ Interrupt(d)
  PROVE  AuthorityInv'
<1> USE DEF Goto, callers, files, BeginStop, Stage
<1>0. RunsBy(d) /\ Takes(d)
  BY DEF AuthorityInv, RunsOnce, TakesOver
<1>1. /\ Alive(d) /\ ~Newcomer(d) /\ pc[d] \notin Unannounced /\ pc[d] # "loading"
      /\ Incumbent(d) => Interrupt(d)
  BY <1>0, DaemonAuthorityAssumption
     DEF Alive, Newcomer, Incumbent, RunsBy, Takes, Idle, Unannounced, StopDaemon, StopAsked, LoopEnds,
         LoopStopped, Exit, ListenerClosed, StopCleanup, StopRelease, Interrupt
<1>2. \A e \in Daemon : Alive(e) => e = d
  <2>1. CASE Interrupt(d)
    BY <1>1, <2>1 DEF AuthorityInv, OneStands, Newcomer, Interrupt, Started, Starting
  <2>2. CASE ~Interrupt(d)
    BY <1>1, <2>2, Sole DEF AuthorityInv
  <2> QED
    BY <2>1, <2>2
<1>3. /\ UNCHANGED <<fe, target>>
      /\ \A e \in Daemon \ {d} : UNCHANGED <<pc[e], running[e], stop[e]>>
  BY DEF TypeOK, StopDaemon, StopAsked, LoopEnds,
         LoopStopped, Exit, ListenerClosed, StopCleanup, StopRelease, Interrupt
<1>4. ~running'[d]
  BY <1>0, <1>1 DEF TypeOK, RunsBy, Takes, Authority, StopDaemon, StopAsked, LoopEnds, LoopStopped,
                    Exit, ListenerClosed, StopCleanup, StopRelease, Interrupt
<1>5. /\ pc'[d] \notin Unannounced /\ pc'[d] # "loading"
      /\ pc'[d] = "serving" => ~Idle(d)'
  <2>1. ASSUME NEW c \in Caller, NEW stage \in {"closing", "closed", "cleaned", "done"},
               Stage(d, c, stage)
        PROVE  ~Idle(d)'
    BY <2>1 DEF TypeOK, Idle
  <2> "request" \in Caller /\ "loop" \in Caller
    OBVIOUS
  <2> HIDE DEF Caller, Stage
  <2>2. ASSUME NEW c \in Caller, ListenerClosed(d, c) \/ StopCleanup(d, c) \/ StopRelease(d, c)
        PROVE  ~Idle(d)' /\ UNCHANGED pc
    BY <2>1, <2>2 DEF ListenerClosed, StopCleanup, StopRelease
  <2>3. ASSUME StopAsked(d) PROVE ~Idle(d)' /\ UNCHANGED pc
    BY <2>1, <2>3 DEF StopAsked
  <2>4. ASSUME LoopEnds(d) \/ Interrupt(d) \/ LoopStopped(d) \/ Exit(d)
        PROVE  pc'[d] \in {"looping", "exiting", "gone"}
    <3>1. CASE LoopEnds(d) \/ Interrupt(d)
      BY <3>1 DEF TypeOK, LoopEnds, Interrupt
    <3>2. CASE LoopStopped(d) \/ Exit(d)
      BY <3>2 DEF TypeOK, LoopStopped, Exit
    <3> QED
      BY <2>4, <3>1, <3>2
  <2> QED
    BY <1>1, <2>2, <2>3, <2>4 DEF StopDaemon, Unannounced
<1>6. RunsBy(d)' /\ Takes(d)'
  BY <1>4, <1>5 DEF RunsBy, Takes, Authority, Unannounced
<1> QED
  BY <1>1, <1>2, <1>3, <1>6, AloneStep

(* What is left of the daemons after a crash or an outage was there before.*)
LEMMA CrashStep ==
  ASSUME TypeOK, AuthorityInv, Outage \/ \E d \in Daemon : Crash(d)
  PROVE  AuthorityInv'
<1>1. PICK D : Killed(D)
  BY DEF Outage, Crash
<1>2. /\ UNCHANGED files
      /\ \A f \in Frontend : fe'[f] = "idle" \/ (fe'[f] = fe[f] /\ target'[f] = target[f])
  <2>1. CASE Outage
    BY <2>1 DEF Outage
  <2>2. CASE \E d \in Daemon : Crash(d)
    BY <2>2 DEF Crash, callers
  <2> QED
    BY <2>1, <2>2
<1>3. RunsOnce'
  BY <1>1, Kill DEF AuthorityInv, RunsOnce, RunsBy, Idle, Unannounced
<1>4. \A d \in Daemon : Alive(d)' => Alive(d) /\ d \notin D
  BY <1>1, Kill DEF Alive
<1>5. TakesOver'
  BY <1>1, <1>2, <1>4, Kill, DaemonAuthorityAssumption
     DEF AuthorityInv, TakesOver, Takes, Authority, Named, Alive, files
<1>6. OneStands'
  BY <1>1, <1>4, Kill DEF AuthorityInv, OneStands, Newcomer, Incumbent, Idle
<1>7. OneCall' /\ CallSees'
  BY <1>2, <1>4 DEF AuthorityInv, OneCall, CallSees
<1> QED
  BY <1>3, <1>5, <1>6, <1>7 DEF AuthorityInv

(* When nothing starts, stops or is called there is at most one daemon, and*)
(* it is the one in the pid file.                                          *)
LEMMA QuietIsNamed ==
  ASSUME TypeOK, AuthorityInv, Quiet, NEW d \in Daemon, Alive(d)
  PROVE  /\ pidFile = d /\ Authority(d) /\ \A e \in Daemon : Alive(e) => e = d
         /\ pc[d] = "serving" => Incumbent(d)
<1>1. ASSUME NEW e \in Daemon, Alive(e)
      PROVE  Authority(e) /\ pidFile = e
  BY <1>1 DEF Quiet, AuthorityInv, RunsOnce, RunsBy, TakesOver, Takes, Authority, Named, Idle
<1> QED
  BY <1>1 DEF Authority, Incumbent, Quiet, Idle

LEMMA ForegroundStep ==
  ASSUME TypeOK, AuthorityInv, ~Overlap, NEW d \in Daemon, RunForeground(d)
  PROVE  AuthorityInv'
<1>1. /\ UNCHANGED <<files, running, stop, fe, target>>
      /\ \A e \in Daemon \ {d} : pc'[e] = pc[e]
      /\ pc[d] = "unborn" /\ pc'[d] = "create"
  BY DEF RunForeground, Goto, callers, TypeOK
<1>2. \A f \in Frontend : fe[f] = "idle"
  BY DEF RunForeground, Quiet
<1>3. \A e \in Daemon : Alive(e) => Incumbent(e)
  BY QuietIsNamed DEF RunForeground, Quiet, Started, Starting
<1>4. RunsOnce' /\ OneCall' /\ CallSees'
  BY <1>1, <1>2 DEF AuthorityInv, RunsOnce, RunsBy, OneCall, CallSees, Idle, Unannounced
<1>5. OneStands'
  <2>1. \A e, g \in Daemon : Alive(e) /\ Alive(g) => e = g
    BY QuietIsNamed DEF RunForeground
  <2> QED
    BY <1>1, <1>3, <2>1 DEF OneStands, Newcomer, Incumbent, Idle, Alive
<1>6. TakesOver'
  BY <1>1 DEF AuthorityInv, RunsOnce, RunsBy, TakesOver, Takes, Authority, Alive, Named, files,
              Unannounced
<1> QED
  BY <1>4, <1>5, <1>6 DEF AuthorityInv

(* A call begins when nothing else is under way.                           *)
LEMMA CallStep ==
  ASSUME TypeOK, AuthorityInv, ~Overlap, NEW f \in Frontend, CallStart(f) \/ CallStop(f)
  PROVE  AuthorityInv'
<1>1. /\ Quiet /\ UNCHANGED <<files, procs>>
      /\ target' = [target EXCEPT ![f] = pidFile]
      /\ \A g \in Frontend \ {f} : fe'[g] = fe[g]
      /\ fe'[f] \in {"probe", "clear", "spawn", "stop"}
      /\ Alive(pidFile) => fe'[f] \in {"probe", "stop"}
  BY DEF CallStart, CallStop, Call, Step, TypeOK
<1>2. OneCall'
  BY <1>1 DEF Quiet, OneCall
<1>3. CallSees'
  <2>1. ASSUME NEW d \in Daemon, Alive(d)
        PROVE  pidFile = d
    BY <1>1, <2>1, QuietIsNamed
  <2> QED
    BY <1>1, <2>1 DEF Quiet, CallSees, Alive, TypeOK, procs
<1> QED
  BY <1>1, <1>2, <1>3
     DEF AuthorityInv, RunsOnce, RunsBy, TakesOver, Takes, OneStands, Newcomer, Incumbent, Idle,
         Alive, Authority, Named, files, procs

(* Without an answer files are removed only if no daemon is there.         *)
LEMMA UnansweredSees ==
  ASSUME TypeOK, AuthorityInv, NEW f \in Frontend, fe[f] # "idle", Unanswered(f) = "cleanup",
         NEW d \in Daemon
  PROVE  ~Alive(d)
BY DEF AuthorityInv, CallSees, Unanswered, Alive

(* A call goes on: it has seen every daemon end before it removes files.   *)
LEMMA LookStep ==
  ASSUME TypeOK, AuthorityInv, NEW f \in Frontend,
         Probe(f) \/ ProbeState(f) \/ Answer(f) \/ AwaitExit(f) \/ Await(f)
  PROVE  AuthorityInv'
<1>1. PICK step \in FrontendStep \ {"idle"}, next \in FrontendStep :
        /\ Looks(f, step, next)
        /\ next \in {"clear", "cleanup"} => \A d \in Daemon : ~Alive(d)
        /\ next \notin {"spawn", "failed"}
        /\ step \notin {"clear", "spawn", "failed", "cleanup"}
  <2>1. ASSUME NEW step, Looks(f, step, Unanswered(f)), step # "idle"
        PROVE  Unanswered(f) = "cleanup" => \A d \in Daemon : ~Alive(d)
    BY <2>1, UnansweredSees DEF Looks
  <2>2. ASSUME NEW step, NEW next, Looks(f, step, next), step # "idle", ~Alive(target[f])
        PROVE  \A d \in Daemon : ~Alive(d)
    BY <2>2 DEF AuthorityInv, CallSees, Looks
  <2>3. CASE Probe(f) \/ ProbeState(f)
    BY <2>3 DEF Probe, ProbeState, FrontendStep
  <2>4. CASE Await(f)
    BY <2>4 DEF Await, FrontendStep
  <2>5. CASE AwaitExit(f)
    BY <2>2, <2>5 DEF AwaitExit, FrontendStep
  <2>6. CASE Answer(f)
    <3>1. Unanswered(f) \in {"cleanup", "idle"}
      BY DEF Unanswered
    <3> QED
      BY <2>1, <2>6, <3>1 DEF Answer, FrontendStep
  <2> QED
    BY <2>3, <2>4, <2>5, <2>6
<1>2. OneCall' /\ CallSees'
  BY <1>1 DEF TypeOK, AuthorityInv, OneCall, CallSees, Looks, Step, Alive, procs
<1> QED
  BY <1>1, <1>2
     DEF AuthorityInv, RunsOnce, RunsBy, TakesOver, Takes, OneStands, Newcomer, Incumbent, Idle,
         Alive, Authority, Named, files, procs, Looks

LEMMA AskStep ==
  ASSUME TypeOK, AuthorityInv, NEW f \in Frontend, Ask(f)
  PROVE  AuthorityInv'
<1>1. PICK next \in FrontendStep :
        /\ fe[f] \in {"replace", "stop"}
        /\ Step(f, next) /\ UNCHANGED <<files, pc, running, target>>
        /\ next = "cleanup" => \A d \in Daemon : ~Alive(d)
        /\ next \notin {"clear", "spawn", "failed"}
  <2>1. Unanswered(f) \in {"cleanup", "idle"}
    BY DEF Unanswered
  <2> QED
    BY <2>1, UnansweredSees DEF Ask, AskStop, FrontendStep
<1>2. ASSUME NEW d \in Daemon, NEW c \in Caller
      PROVE  UNCHANGED stop[d] \/ (running[d] /\ stop'[d][c] \in {stop[d][c], "asked"})
  BY DEF Ask, AskStop, Reachable, Alive, TypeOK
<1>3. ASSUME NEW d \in Daemon
      PROVE  RunsBy(d)'
  BY <1>1, <1>2 DEF AuthorityInv, RunsOnce, RunsBy, Idle
<1>4. OneCall' /\ CallSees'
  BY <1>1 DEF TypeOK, AuthorityInv, OneCall, CallSees, Step, Alive
<1>5. \A d, e \in Daemon : Alive(d)' /\ Alive(e)' => d = e
  BY <1>1 DEF AuthorityInv, CallSees, Alive
<1> QED
  BY <1>1, <1>3, <1>4, <1>5
     DEF AuthorityInv, RunsOnce, TakesOver, Takes, OneStands, Alive, Authority, Named, files

(* Files are removed when there is no daemon.                              *)
LEMMA RemoveStep ==
  ASSUME TypeOK, AuthorityInv, NEW f \in Frontend, Clear(f) \/ FrontendCleanup(f)
  PROVE  AuthorityInv'
<1>1. /\ \A d \in Daemon : ~Alive(d)
      /\ fe[f] # "idle" /\ UNCHANGED <<procs, target>>
      /\ \A g \in Frontend \ {f} : fe'[g] = fe[g]
  BY DEF TypeOK, AuthorityInv, CallSees, Clear, FrontendCleanup, CleanupFiles, Step
<1>2. \A d \in Daemon : ~Alive(d)'
  BY <1>1 DEF Alive, procs
<1> QED
  BY <1>1, <1>2, DaemonAuthorityAssumption
     DEF AuthorityInv, RunsOnce, RunsBy, TakesOver, Takes, OneStands, OneCall, CallSees, Idle,
         Alive, Authority, procs

LEMMA SpawnStep ==
  ASSUME TypeOK, AuthorityInv, NEW f \in Frontend, Spawn(f)
  PROVE  AuthorityInv'
<1>1. PICK d \in Daemon : pc[d] = "unborn" /\ Goto(d, "create") /\ target' = [target EXCEPT ![f] = d]
  BY DEF Spawn
<1>2. /\ \A e \in Daemon : ~Alive(e)
      /\ fe[f] # "idle" /\ fe'[f] = "await"
      /\ \A g \in Frontend \ {f} : fe'[g] = fe[g]
      /\ UNCHANGED <<files, running, stop>>
  BY DEF TypeOK, AuthorityInv, CallSees, Spawn, Step
<1>3. pc'[d] = "create" /\ \A e \in Daemon : e # d => ~Alive(e)' /\ pc'[e] = pc[e]
  BY <1>1, <1>2 DEF TypeOK, Goto, Alive
<1>4. OneCall' /\ CallSees' /\ OneStands'
  BY <1>1, <1>2, <1>3 DEF TypeOK, AuthorityInv, OneCall, CallSees, OneStands
<1>5. RunsOnce'
  BY <1>1, <1>2, <1>3 DEF AuthorityInv, RunsOnce, RunsBy, Idle, Unannounced
<1>6. TakesOver'
  BY <1>2, <1>3, <1>5, DaemonAuthorityAssumption
     DEF TakesOver, Takes, RunsOnce, RunsBy, Authority, Alive, Unannounced
<1> QED
  BY <1>4, <1>5, <1>6 DEF AuthorityInv

LEMMA TerminateStep ==
  ASSUME TypeOK, AuthorityInv, NEW f \in Frontend, Terminate(f)
  PROVE  AuthorityInv'
<1>1. /\ fe[f] # "idle" /\ fe'[f] = "failed"
      /\ \A g \in Frontend \ {f} : fe'[g] = fe[g]
      /\ UNCHANGED <<files, target>> /\ Killed({target[f]})
  BY DEF TypeOK, Terminate, Step
<1>2. \A d \in Daemon : ~Alive(d)'
  BY <1>1, Kill DEF AuthorityInv, CallSees, Alive
<1>3. RunsOnce'
  BY <1>1, Kill DEF AuthorityInv, RunsOnce, RunsBy, Idle, Unannounced
<1>4. TakesOver'
  BY <1>1, <1>2, <1>3, Kill, DaemonAuthorityAssumption
     DEF AuthorityInv, RunsOnce, RunsBy, TakesOver, Takes, Authority, Alive, Unannounced
<1> QED
  BY <1>1, <1>2, <1>3, <1>4 DEF AuthorityInv, OneStands, OneCall, CallSees

-----------------------------------------------------------------------------
LEMMA AuthorityStep ==
  ASSUME TypeOK, AuthorityInv, ~Overlap, [Next]_vars
  PROVE  AuthorityInv'
<1>1. ASSUME NEW d \in Daemon, Proceed(d) \/ RunForeground(d) \/ Interrupt(d) \/ Crash(d)
      PROVE  AuthorityInv'
  BY <1>1, LockStep, StartStep, StopStep, ForegroundStep, CrashStep DEF Proceed, StartDaemon
<1>2. CASE Outage
  BY <1>2, CrashStep
<1>3. ASSUME NEW f \in Frontend, CallStart(f) \/ CallStop(f) \/ Continue(f)
      PROVE  AuthorityInv'
  BY <1>3, CallStep, LookStep, AskStep, RemoveStep, SpawnStep, TerminateStep DEF Continue
<1>4. CASE UNCHANGED vars
  BY <1>4 DEF vars, files, procs, callers, AuthorityInv, RunsOnce, RunsBy, TakesOver, Takes,
              OneStands, OneCall, CallSees, Newcomer, Incumbent, Idle, Alive, Authority, Named
<1> QED
  BY <1>1, <1>2, <1>3, <1>4 DEF Next

LEMMA Inductive == ~Overlap /\ Spec => [](TypeOK /\ AuthorityInv)
<1> SUFFICES ASSUME ~Overlap PROVE Spec => [](TypeOK /\ AuthorityInv)
  OBVIOUS
<1>1. TypeOK /\ AuthorityInv /\ [Next]_vars => (TypeOK /\ AuthorityInv)'
  BY TypeStep, AuthorityStep
<1> QED
  BY <1>1, TypeInit, AuthorityInit, PTL DEF Spec

(* As long as a daemon is the authority, the lock, the socket and the pid  *)
(* file are its own, if calls, starts and stops come one after another:    *)
(* AuthorityIsNamed of DaemonAuthority.                                    *)
THEOREM NamedAuthority == ~Overlap /\ Spec => []AuthorityIsNamed
<1>1. AuthorityInv => AuthorityIsNamed
  BY DEF AuthorityInv, TakesOver, Takes, AuthorityIsNamed, Named
<1> QED
  BY <1>1, Inductive, PTL

(* There is at most one authority then: OneAuthority of DaemonAuthority.   *)
THEOREM Unique == ~Overlap /\ Spec => []OneAuthority
<1>1. ASSUME AuthorityIsNamed PROVE OneAuthority
  <2> DEFINE authorities == {d \in Daemon : Authority(d)}
  <2>1. authorities \subseteq {lock}
    BY <1>1 DEF AuthorityIsNamed
  <2>2. IsFiniteSet({lock}) /\ Cardinality({lock}) = 1
    BY FS_Singleton
  <2>3. Cardinality(authorities) <= 1
    BY <2>1, <2>2, FS_Subset
  <2> QED
    BY <2>3 DEF OneAuthority
<1> QED
  BY <1>1, NamedAuthority, PTL
=============================================================================
