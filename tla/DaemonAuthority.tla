--------------------------- MODULE DaemonAuthority ---------------------------
(***************************************************************************)
(* Who is the daemon of a workspace: the files under .kitt that say so     *)
(* (instance lock, socket with its endpoint, pid file: transport.py), the  *)
(* daemon processes that start, serve, stop and crash (DaemonServer.start  *)
(* and stop, process.py's run loop) and the frontends that start and stop  *)
(* them (start_daemon_detached, stop_daemon).                              *)
(*                                                                         *)
(* A step is what a process does between two points where another process  *)
(* can look at the files.  The pid of a daemon is its name: pids are not   *)
(* reused.  Frontends reach a daemon through the socket file only.         *)
(***************************************************************************)
EXTENDS Naturals, FiniteSets

CONSTANTS
  Daemon,      \* daemon processes, each of which starts at most once
  Frontend,    \* processes that call start_daemon_detached and stop_daemon
  Nobody,      \* no daemon
  MaxCalls,    \* bound: calls of the frontends, all together
  MaxForeground, \* bound: daemons the user starts in the foreground
  MaxCrashes,  \* bound: daemons that are killed, and outages
  Overlap,     \* whether a call may overlap another or a daemon's start or stop
  Slow         \* the waits of a frontend that may run out

(* A frontend waits for a daemon to answer on a new connection (15 s), to  *)
(* be ready (45 s), to answer a request to stop (15 s) and to end (3 s or  *)
(* 5 s).                                                                   *)
Wait == {"probe", "ready", "answer", "exit"}

ASSUME DaemonAuthorityAssumption ==
  /\ {MaxCalls, MaxForeground, MaxCrashes} \subseteq Nat
  /\ Nobody \notin Daemon /\ Overlap \in BOOLEAN /\ Slow \subseteq Wait

VARIABLES
  lock,       \* the instance lock file: the daemon that made it, or Nobody
  lockPid,    \* whether that daemon has written its pid into it
  sock,       \* the daemon whose socket is at the socket path, or Nobody
  pidFile,    \* the daemon named in the pid file, or Nobody
  pc,         \* per daemon, where it is in start, the run loop or its end
  running,    \* per daemon, _running
  listener,   \* per daemon, whether _server is set
  stop,       \* per daemon, its two stop() coroutines: where each one is
  fe,         \* per frontend, where it is in its call
  target,     \* per frontend, the daemon it started or found, or Nobody
  peer,       \* per frontend, the daemon it asked to stop, or Nobody
  foreground, \* the daemons the user started in the foreground
  calls,      \* the calls of frontends so far (history)
  crashes     \* the crashes so far (history)

files == <<lock, lockPid, sock, pidFile>>
procs == <<pc, running, listener, stop>>
callers == <<fe, target, peer, calls>>
vars == <<files, procs, callers, foreground, crashes>>

Starting == {"create", "inspect", "recover", "recreate", "write", "bind",
             "announce", "loading"}
Phase == Starting \cup
         {"unborn", "serving", "looping", "rollback", "release", "exiting", "gone"}

(* stop() is called by a client's request and by the run loop.             *)
Caller == {"request", "loop"}
StopStage == {"idle", "asked", "closing", "closed", "cleaned", "done"}

FrontendStep == {"idle", "probe", "state", "replace", "replacing", "replaced", "clear",
                 "spawn", "await", "terminate", "failed",
                 "stop", "stopping", "stopped", "cleanup"}

TypeOK ==
  /\ lock \in Daemon \cup {Nobody} /\ lockPid \in BOOLEAN
  /\ sock \in Daemon \cup {Nobody} /\ pidFile \in Daemon \cup {Nobody}
  /\ pc \in [Daemon -> Phase]
  /\ running \in [Daemon -> BOOLEAN]
  /\ listener \in [Daemon -> BOOLEAN]
  /\ stop \in [Daemon -> [Caller -> StopStage]]
  /\ fe \in [Frontend -> FrontendStep]
  /\ target \in [Frontend -> Daemon \cup {Nobody}]
  /\ peer \in [Frontend -> Daemon \cup {Nobody}]
  /\ foreground \subseteq Daemon
  /\ calls \in 0..MaxCalls /\ crashes \in 0..MaxCrashes

Init ==
  /\ lock = Nobody /\ lockPid = FALSE /\ sock = Nobody /\ pidFile = Nobody
  /\ pc = [d \in Daemon |-> "unborn"]
  /\ running = [d \in Daemon |-> FALSE]
  /\ listener = [d \in Daemon |-> FALSE]
  /\ stop = [d \in Daemon |-> [c \in Caller |-> "idle"]]
  /\ fe = [f \in Frontend |-> "idle"]
  /\ target = [f \in Frontend |-> Nobody]
  /\ peer = target
  /\ foreground = {} /\ calls = 0 /\ crashes = 0

Alive(d) == d # Nobody /\ pc[d] \notin {"unborn", "gone"}

(* A client's connection reaches the daemon behind the socket file; it is  *)
(* loading its runtime, or ready.                                          *)
Reachable == Alive(sock) /\ running[sock]
Ready == Reachable /\ pc[sock] = "serving"

Goto(d, phase) == pc' = [pc EXCEPT ![d] = phase]

-----------------------------------------------------------------------------
(* transport.py: the instance lock.                                        *)

(* O_EXCL creates the file; the pid is written into it afterwards.         *)
CreateLock(d) ==
  /\ pc[d] \in {"create", "recreate"}
  /\ IF lock = Nobody
     THEN lock' = d /\ lockPid' = FALSE /\ Goto(d, "write")
     ELSE /\ Goto(d, IF pc[d] = "create" THEN "inspect" ELSE "gone")
          /\ UNCHANGED <<lock, lockPid>>
  /\ UNCHANGED <<sock, pidFile, running, listener, stop, callers, foreground, crashes>>

(* The pid goes into the file this daemon made, even if it was unlinked    *)
(* and another file is in its place.                                       *)
WriteLock(d) ==
  /\ pc[d] = "write"
  /\ lockPid' = (lockPid \/ lock = d)
  /\ Goto(d, "bind")
  /\ UNCHANGED <<lock, sock, pidFile, running, listener, stop, callers, foreground, crashes>>

(* Fault: a lock whose owner is dead is respected, too.                    *)
FaultNeverStale(d) ==
  /\ pc[d] = "inspect"
  /\ Goto(d, IF lock # Nobody THEN "gone" ELSE "recover")
  /\ UNCHANGED <<files, running, listener, stop, callers, foreground, crashes>>

(* An existing lock is respected when it names a process that is alive; an *)
(* empty one, like one that is gone by now, counts as stale.               *)
InspectLock(d) ==
  /\ pc[d] = "inspect"
  /\ Goto(d, IF lockPid /\ Alive(lock) THEN "gone" ELSE "recover")
  /\ UNCHANGED <<files, running, listener, stop, callers, foreground, crashes>>

RecoverLock(d) ==
  /\ pc[d] = "recover"
  /\ lock' = Nobody /\ lockPid' = FALSE
  /\ Goto(d, "recreate")
  /\ UNCHANGED <<sock, pidFile, running, listener, stop, callers, foreground, crashes>>

(* cleanup(), and the unlinking in release_instance_lock: whosever files   *)
(* they are.                                                               *)
Cleanup ==
  /\ lock' = Nobody /\ lockPid' = FALSE
  /\ sock' = Nobody /\ pidFile' = Nobody
ReleaseLock ==
  /\ lock' = Nobody /\ lockPid' = FALSE
  /\ UNCHANGED <<sock, pidFile>>

-----------------------------------------------------------------------------
(* server.py: start, and process.py's run loop.                            *)

Acquire(d) == CreateLock(d) \/ WriteLock(d) \/ InspectLock(d) \/ RecoverLock(d)

(* Whatever is at the socket path is replaced.                             *)
Bind(d) ==
  /\ pc[d] = "bind"
  /\ sock' = d
  /\ listener' = [listener EXCEPT ![d] = TRUE]
  /\ Goto(d, "announce")
  /\ UNCHANGED <<lock, lockPid, pidFile, running, stop, callers, foreground, crashes>>

Announce(d) ==
  /\ pc[d] = "announce"
  /\ pidFile' = d
  /\ running' = [running EXCEPT ![d] = TRUE]
  /\ Goto(d, "loading")
  /\ UNCHANGED <<lock, lockPid, sock, listener, stop, callers, foreground, crashes>>

Loaded(d) ==
  /\ pc[d] = "loading"
  /\ Goto(d, "serving")
  /\ UNCHANGED <<files, running, listener, stop, callers, foreground, crashes>>

(* Closing the listener removes the socket file if it is its own.          *)
CloseSocket(d) == sock' = IF sock = d THEN Nobody ELSE sock

(* The runtime does not start: the daemon rolls back.                      *)
LoadFails(d) ==
  /\ pc[d] = "loading"
  /\ running' = [running EXCEPT ![d] = FALSE]
  /\ listener' = [listener EXCEPT ![d] = FALSE]
  /\ CloseSocket(d)
  /\ Goto(d, "rollback")
  /\ UNCHANGED <<lock, lockPid, pidFile, stop, callers, foreground, crashes>>

RollBack(d) ==
  /\ \/ pc[d] = "rollback" /\ Cleanup /\ Goto(d, "release")
     \/ pc[d] = "release" /\ ReleaseLock /\ Goto(d, "gone")
  /\ UNCHANGED <<running, listener, stop, callers, foreground, crashes>>

(* Between cleanup and release stop() does not yield to the event loop.    *)
Releasing(d) == \E c \in Caller : stop[d][c] = "cleaned"

Stage(d, c, stage) == stop' = [stop EXCEPT ![d][c] = stage]

(* stop() begins: the run loop is told, the listener closes.               *)
BeginStop(d, c) ==
  /\ running' = [running EXCEPT ![d] = FALSE]
  /\ CloseSocket(d)
  /\ Stage(d, c, "closing")

(* The listener is closed; then the runtimes are, which takes a while.     *)
ListenerClosed(d, c) ==
  /\ Alive(d) /\ stop[d][c] = "closing" /\ ~Releasing(d)
  /\ listener' = [listener EXCEPT ![d] = FALSE]
  /\ Stage(d, c, "closed")
  /\ UNCHANGED <<files, pc, running, callers, foreground, crashes>>

StopCleanup(d, c) ==
  /\ Alive(d) /\ stop[d][c] = "closed" /\ ~Releasing(d)
  /\ Cleanup
  /\ Stage(d, c, "cleaned")
  /\ UNCHANGED <<pc, running, listener, callers, foreground, crashes>>

StopRelease(d, c) ==
  /\ Alive(d) /\ stop[d][c] = "cleaned"
  /\ ReleaseLock
  /\ Stage(d, c, "done")
  /\ UNCHANGED <<pc, running, listener, callers, foreground, crashes>>

(* A request to stop that came while the runtime was loading is handled    *)
(* when it has loaded.                                                     *)
StopAsked(d) ==
  /\ pc[d] \in {"serving", "looping"} /\ stop[d]["request"] = "asked" /\ ~Releasing(d)
  /\ BeginStop(d, "request")
  /\ UNCHANGED <<lock, lockPid, pidFile, pc, listener, callers, foreground, crashes>>

(* Fault: the run loop does not look at _running.                          *)
FaultLoopEnds(d) ==
  /\ pc[d] = "serving" /\ ~running[d] /\ ~Releasing(d)
  /\ listener[d]
  /\ BeginStop(d, "loop") /\ Goto(d, "looping")
  /\ UNCHANGED <<lock, lockPid, pidFile, listener, callers, foreground, crashes>>

(* The run loop polls _running; it calls stop() itself when the listener is*)
(* not closed yet, or when the user interrupts it.                         *)
LoopEnds(d) ==
  /\ pc[d] = "serving" /\ ~running[d] /\ ~Releasing(d)
  /\ IF listener[d]
     THEN BeginStop(d, "loop") /\ Goto(d, "looping")
     ELSE Goto(d, "exiting") /\ UNCHANGED <<running, stop, sock>>
  /\ UNCHANGED <<lock, lockPid, pidFile, listener, callers, foreground, crashes>>

(* Every daemon there is has started.                                      *)
Started == \A d \in Daemon : pc[d] \notin Starting

(* The user interrupts a daemon in the foreground.                         *)
Interrupt(d) ==
  /\ d \in foreground /\ pc[d] = "serving" /\ running[d]
  /\ ~Overlap => Started
  /\ BeginStop(d, "loop") /\ Goto(d, "looping")
  /\ UNCHANGED <<lock, lockPid, pidFile, listener, callers, foreground, crashes>>

LoopStopped(d) ==
  /\ pc[d] = "looping" /\ stop[d]["loop"] = "done" /\ ~Releasing(d)
  /\ Goto(d, "exiting")
  /\ UNCHANGED <<files, running, listener, stop, callers, foreground, crashes>>

(* asyncio.run cancels a stop() that still waits, whose finally clause then*)
(* releases the lock; the process is gone.                                 *)
Exit(d) ==
  /\ pc[d] = "exiting" /\ ~Releasing(d)
  /\ IF stop[d]["request"] \in {"closing", "closed"}
     THEN ReleaseLock /\ Stage(d, "request", "done")
     ELSE UNCHANGED <<files, stop>>
  /\ Goto(d, "gone")
  /\ UNCHANGED <<running, listener, callers, foreground, crashes>>

(* Daemons that are killed: what they kept in memory is lost.              *)
Killed(D) ==
  /\ pc' = [d \in Daemon |-> IF d \in D /\ Alive(d) THEN "gone" ELSE pc[d]]
  /\ running' = [d \in Daemon |-> d \notin D /\ running[d]]
  /\ listener' = [d \in Daemon |-> d \notin D /\ listener[d]]
  /\ stop' = [d \in Daemon |-> [c \in Caller |-> IF d \in D THEN "idle" ELSE stop[d][c]]]

Crash(d) ==
  /\ Alive(d) /\ crashes < MaxCrashes
  /\ crashes' = crashes + 1
  /\ Killed({d})
  /\ UNCHANGED <<files, callers, foreground>>

(* The machine goes down: the files are all that is left.                  *)
Outage ==
  /\ crashes < MaxCrashes
  /\ crashes' = crashes + 1
  /\ Killed(Daemon)
  /\ fe' = [f \in Frontend |-> "idle"]
  /\ target' = [f \in Frontend |-> Nobody] /\ peer' = target'
  /\ UNCHANGED <<files, calls, foreground>>

(* No call is under way, and no daemon stops or is not announced yet.      *)
Quiet ==
  /\ \A f \in Frontend : fe[f] = "idle"
  /\ \A d \in Daemon : Alive(d) =>
       pc[d] \in {"loading", "serving"} /\ \A c \in Caller : stop[d][c] = "idle"

(* The user runs a daemon in the foreground.                               *)
RunForeground(d) ==
  /\ pc[d] = "unborn" /\ Cardinality(foreground) < MaxForeground
  /\ ~Overlap => Quiet /\ Started
  /\ foreground' = foreground \cup {d}
  /\ Goto(d, "create")
  /\ UNCHANGED <<files, running, listener, stop, callers, crashes>>

-----------------------------------------------------------------------------
(* process.py: the frontends.                                              *)

Step(f, step) == fe' = [fe EXCEPT ![f] = step]

(* Both calls begin with the pid file.                                     *)
Call(f) ==
  /\ fe[f] = "idle" /\ calls < MaxCalls
  /\ ~Overlap => Quiet
  /\ calls' = calls + 1
  /\ target' = [target EXCEPT ![f] = pidFile]
  /\ UNCHANGED <<files, procs, peer, foreground, crashes>>

(* start_daemon_detached: a living daemon is probed, a dead one's files are*)
(* removed.                                                                *)
CallStart(f) ==
  /\ Call(f)
  /\ Step(f, IF Alive(pidFile) THEN "probe" ELSE IF pidFile # Nobody THEN "clear" ELSE "spawn")

CallStop(f) == Call(f) /\ Step(f, "stop")

(* A frontend's step that changes neither the files nor a daemon.          *)
Looks(f, step, next) ==
  /\ fe[f] = step
  /\ Step(f, next)
  /\ UNCHANGED <<files, procs, target, peer, calls, foreground, crashes>>

(* A daemon that is slow to answer looks like one that is not there.       *)
Silent == ~Reachable \/ "probe" \in Slow

Probe(f) ==
  \/ Ready /\ Looks(f, "probe", "idle")
  \/ (Silent \/ ~Ready) /\ Looks(f, "probe", "state")

(* A second connection asks for the state.  A daemon that is starting is   *)
(* waited for, in vain or not.                                             *)
ProbeState(f) ==
  \/ Reachable /\ ~Ready /\ Looks(f, "state", "idle")
  \/ (Silent \/ Ready) /\ Looks(f, "state", "replace")

(* Any other daemon that answers is asked to stop; one that does not is    *)
(* left alone.  Without an answer stop_daemon removes the files of a dead  *)
(* daemon only.                                                            *)
AskStop(f, step, asked, refused) ==
  /\ fe[f] = step
  /\ \/ /\ Reachable
        /\ stop' = IF stop[sock]["request"] = "idle"
                   THEN [stop EXCEPT ![sock]["request"] = "asked"] ELSE stop
        /\ peer' = [peer EXCEPT ![f] = sock]
        /\ Step(f, asked)
     \/ Silent /\ Step(f, refused) /\ UNCHANGED <<stop, peer>>
  /\ UNCHANGED <<files, pc, running, listener, target, calls, foreground, crashes>>

Unanswered(f) ==
  LET pid == IF target[f] = Nobody THEN pidFile ELSE target[f]
  IN  IF pid # Nobody /\ ~Alive(pid) THEN "cleanup" ELSE "idle"

Ask(f) ==
  \/ AskStop(f, "replace", "replacing", "idle")
  \/ AskStop(f, "stop", "stopping", Unanswered(f))

(* A daemon answers when it has begun to stop; a lost connection and an    *)
(* answer that does not come in time will do, too.                         *)
Answers(f) == Alive(peer[f]) => stop[peer[f]]["request"] \notin {"idle", "asked"}

Answer(f) ==
  /\ Answers(f) \/ "answer" \in Slow
  /\ Looks(f, "replacing", "replaced") \/ Looks(f, "stopping", "stopped")

(* Fault: the files are removed without waiting for the daemon's end.      *)
FaultAwaitExit(f) ==
  \/ Looks(f, "replaced", "clear")
  \/ Looks(f, "stopped", "cleanup")

(* The daemon named in the pid file ends, or does not in time.             *)
AwaitExit(f) ==
  \/ ~Alive(target[f]) /\ (Looks(f, "replaced", "clear") \/ Looks(f, "stopped", "cleanup"))
  \/ Alive(target[f]) /\ "exit" \in Slow
     /\ (Looks(f, "replaced", "idle") \/ Looks(f, "stopped", "idle"))

CleanupFiles(f, step, next) ==
  /\ fe[f] = step
  /\ Cleanup
  /\ Step(f, next)
  /\ UNCHANGED <<procs, target, peer, calls, foreground, crashes>>

Clear(f) == CleanupFiles(f, "clear", "spawn")
FrontendCleanup(f) == CleanupFiles(f, "cleanup", "idle") \/ CleanupFiles(f, "failed", "idle")

Spawn(f) ==
  /\ fe[f] = "spawn"
  /\ \E d \in Daemon :
       /\ pc[d] = "unborn"
       /\ Goto(d, "create")
       /\ target' = [target EXCEPT ![f] = d]
  /\ Step(f, "await")
  /\ UNCHANGED <<files, running, listener, stop, peer, calls, foreground, crashes>>

(* It waits until a daemon says that it is ready, its own has ended or time*)
(* is up.                                                                  *)
Await(f) ==
  \/ Ready /\ Looks(f, "await", "idle")
  \/ (Silent \/ ~Ready) /\ ~Alive(target[f]) /\ Looks(f, "await", "terminate")
  \/ "ready" \in Slow /\ Looks(f, "await", "terminate")

(* Its own daemon is killed if it has not ended.                           *)
Terminate(f) ==
  /\ fe[f] = "terminate"
  /\ Killed({target[f]})
  /\ Step(f, "failed")
  /\ UNCHANGED <<files, target, peer, calls, foreground, crashes>>

-----------------------------------------------------------------------------
StartDaemon(d) == Acquire(d) \/ Bind(d) \/ Announce(d) \/ Loaded(d) \/ LoadFails(d) \/ RollBack(d)

StopDaemon(d) ==
  \/ StopAsked(d) \/ LoopEnds(d) \/ LoopStopped(d) \/ Exit(d)
  \/ \E c \in Caller : ListenerClosed(d, c) \/ StopCleanup(d, c) \/ StopRelease(d, c)

(* What a process does on its own, once it runs or its call has begun.     *)
Proceed(d) == StartDaemon(d) \/ StopDaemon(d)
Continue(f) ==
  \/ Probe(f) \/ ProbeState(f) \/ Ask(f) \/ Answer(f) \/ AwaitExit(f)
  \/ Clear(f) \/ Spawn(f) \/ Await(f) \/ Terminate(f) \/ FrontendCleanup(f)

Next ==
  \/ \E d \in Daemon : Proceed(d) \/ RunForeground(d) \/ Interrupt(d) \/ Crash(d)
  \/ Outage
  \/ \E f \in Frontend : CallStart(f) \/ CallStop(f) \/ Continue(f)

Spec == Init /\ [][Next]_vars

(* The operating system runs every process.                                *)
FairSpec ==
  /\ Spec
  /\ \A d \in Daemon : WF_vars(Proceed(d))
  /\ \A f \in Frontend : WF_vars(Continue(f))

-----------------------------------------------------------------------------
(* Properties.                                                             *)

(* A daemon that has announced itself and is not stopping takes requests   *)
(* for the workspace.                                                      *)
Authority(d) == Alive(d) /\ running[d]

(* At most one daemon is the workspace's authority, however starts, stops  *)
(* and crashes are interleaved (transport.py's lock refuses the second:    *)
(* "KITT daemon already running").                                         *)
OneAuthority == Cardinality({d \in Daemon : Authority(d)}) <= 1

(* As long as a daemon is the authority, the lock, the socket and the pid  *)
(* file are its own: it can be reached, found and stopped, and no other    *)
(* daemon can take its place.                                              *)
AuthorityIsNamed ==
  \A d \in Daemon : Authority(d) => lock = d /\ lockPid /\ sock = d /\ pidFile = d

(* A start leads to a ready daemon, to a daemon whose runtime fails to load*)
(* or to one that is killed because it took too long, whatever files       *)
(* earlier crashes have left behind: once nothing is killed any more       *)
(* (transport.py: a lock whose owner is dead is recovered).                *)
StartServes ==
  \A f \in Frontend :
    (fe[f] = "spawn" /\ crashes = MaxCrashes) ~>
      \/ Ready \/ \E d \in Daemon : pc[d] = "rollback"
      \/ fe[f] = "terminate" /\ Alive(target[f])

(* A daemon that is asked to stop ends (process.py's run loop: "otherwise  *)
(* the process can survive after a successful remote stop").               *)
StopEnds == \A d \in Daemon : stop[d]["request"] # "idle" ~> pc[d] = "gone"

(* What a document or a comment says and the code does not keep: README.md, *)
(* section 6, names the instance in which TLC finds it violated.            *)

(* A daemon that ends after it served has closed its runtimes and removed  *)
(* its files: some stop() ran to its end (process.py: the "finally block   *)
(* closes the server/runtime").                                            *)
StopCompletes ==
  [][\A d \in Daemon : Exit(d) => \E c \in Caller : stop[d][c] = "done"]_vars

(* A start never removes the files of a daemon that is still loading       *)
(* (process.py: "Do not stop an authenticated daemon that is still         *)
(* initializing").                                                         *)
StartingKept ==
  [][\A f \in Frontend : fe[f] \in {"clear", "failed"} /\ fe'[f] # fe[f] =>
       ~(Alive(pidFile) /\ pc[pidFile] = "loading")]_vars

(* A start never stops a daemon: all daemons here are of one release, and  *)
(* only one "from an older Agent release" is to be replaced (process.py).  *)
StartNeverStops ==
  [][\A f \in Frontend : fe[f] = "replace" /\ fe'[f] # fe[f] => UNCHANGED stop]_vars
=============================================================================
