-------------------------- MODULE ReverseProxyManager --------------------------
(***************************************************************************)
(* The reverse proxy that the Control Center starts and stops              *)
(* (apps/kittd/src/settings_web.rs: ManagedReverseProxy,                   *)
(* start_reverse_proxy, stop_reverse_proxy, reverse_proxy_status).         *)
(*                                                                         *)
(* Each request has a thread; a mutex guards the manager, but not what lies*)
(* between a check and what depends on it.  A proxy ends when its standard *)
(* input does: when kittd closes the pipe, drops the handle or exits.      *)
(***************************************************************************)
EXTENDS Naturals, FiniteSets

CONSTANTS
  Client,    \* threads that serve requests, one after another
  Proxy,     \* proxy processes
  Nobody,    \* no process
  MaxServed, \* how many requests are served at once (32)
  MaxCrashes \* bound: restarts of kittd

ASSUME ReverseProxyAssumption ==
  /\ Nobody \notin Proxy /\ MaxServed \in Nat /\ MaxCrashes \in Nat

VARIABLES
  proxy,    \* per process, its state
  attended, \* the processes whose standard input is open
  foreign,  \* whether a proxy that kittd did not start answers on the port
  manager,  \* the manager: its child, and whether preset and start are set
  pc,       \* per thread, where it is
  online,   \* per thread, whether the port answered its probe
  held,     \* per thread, the process whose handle it holds, or Nobody
  overlap,  \* whether two requests were ever served at once (history)
  crashes

processes == <<proxy, attended, foreign>>
threads == <<pc, online, held>>
proxyVars == <<processes, manager, threads, overlap, crashes>>

(* The threads that serve a request.                                       *)
Busy == {c \in Client : pc[c] # "idle"}

ProxyTypeOK ==
  /\ proxy \in [Proxy -> {"unborn", "starting", "listening", "exited"}]
  /\ attended \subseteq Proxy /\ foreign \in BOOLEAN
  /\ manager \in [child : Proxy \cup {Nobody}, preset : BOOLEAN, started : BOOLEAN]
  /\ pc \in [Client -> {"idle", "status", "start", "allowed", "launched", "adopting",
                        "waiting", "forgetting"}]
  /\ Cardinality(Busy) <= MaxServed
  /\ online \in [Client -> BOOLEAN] /\ held \in [Client -> Proxy \cup {Nobody}]
  /\ \A c \in Client : held[c] # Nobody <=>
       pc[c] \in {"launched", "adopting", "waiting", "forgetting"}
  /\ overlap \in BOOLEAN /\ crashes \in 0..MaxCrashes

NoChild == [child |-> Nobody, preset |-> FALSE, started |-> FALSE]

ProxyInit ==
  /\ proxy = [p \in Proxy |-> "unborn"] /\ attended = {} /\ foreign = FALSE
  /\ manager = NoChild
  /\ pc = [c \in Client |-> "idle"]
  /\ online = [c \in Client |-> FALSE]
  /\ held = [c \in Client |-> Nobody]
  /\ overlap = FALSE /\ crashes = 0

Runs(p) == proxy[p] \in {"starting", "listening"}
Answers == foreign \/ \E p \in Proxy : proxy[p] = "listening"

(* A request gets a thread of its own.                                     *)
Begin(c, place) ==
  /\ pc[c] = "idle" /\ Cardinality(Busy) < MaxServed
  /\ pc' = [pc EXCEPT ![c] = place]
  /\ overlap' = (overlap \/ Busy # {})

Goto(c, place) == pc' = [pc EXCEPT ![c] = place]
Hold(c, p) == held' = [held EXCEPT ![c] = p]

-----------------------------------------------------------------------------
(* Status and start.                                                       *)

(* Both begin with a probe of the port,                                    *)
Probe(c) ==
  /\ \E call \in {"status", "start"} : Begin(c, call)
  /\ online' = [online EXCEPT ![c] = Answers]
  /\ UNCHANGED <<processes, manager, held, crashes>>

(* then forget a child that has exited.                                    *)
Reaped ==
  IF manager.child # Nobody /\ proxy[manager.child] = "exited"
  THEN [manager EXCEPT !.child = Nobody, !.started = FALSE]
  ELSE manager

(* Fault: a child that does not answer yet is overlooked.                  *)
FaultCheck(c) ==
  /\ pc[c] \in {"status", "start"}
  /\ manager' = Reaped
  /\ Goto(c, IF pc[c] = "start" /\ ~online[c] THEN "allowed" ELSE "idle")
  /\ UNCHANGED <<processes, online, held, overlap, crashes>>

(* A start is refused if there is a child or something answers.            *)
Check(c) ==
  /\ pc[c] \in {"status", "start"}
  /\ manager' = Reaped
  /\ Goto(c, IF pc[c] = "start" /\ Reaped.child = Nobody /\ ~online[c]
             THEN "allowed" ELSE "idle")
  /\ UNCHANGED <<processes, online, held, overlap, crashes>>

Spawn(c) ==
  /\ pc[c] = "allowed"
  /\ \/ \E p \in Proxy :
          /\ proxy[p] = "unborn"
          /\ proxy' = [proxy EXCEPT ![p] = "starting"]
          /\ attended' = attended \cup {p}
          /\ Hold(c, p)
          /\ Goto(c, "launched")
     \/ Goto(c, "idle") /\ UNCHANGED <<proxy, attended, held, overlap>>
  /\ UNCHANGED <<foreign, manager, online, overlap, crashes>>

(* 120 ms later an early exit is an error.                                 *)
Watch(c) ==
  /\ pc[c] = "launched"
  /\ IF Runs(held[c])
     THEN Goto(c, "adopting") /\ UNCHANGED <<attended, held, overlap>>
     ELSE /\ Goto(c, "idle") /\ Hold(c, Nobody)
          /\ attended' = attended \ {held[c]}
  /\ UNCHANGED <<proxy, foreign, manager, online, overlap, crashes>>

(* Fault: the input of a child that is replaced stays open.                *)
FaultAdopt(c) ==
  /\ pc[c] = "adopting"
  /\ manager' = [child |-> held[c], preset |-> TRUE, started |-> TRUE]
  /\ Goto(c, "idle") /\ Hold(c, Nobody)
  /\ UNCHANGED <<processes, online, overlap, crashes>>

(* Fault: what a stop has cleared is not set again.                        *)
FaultUnnamed(c) ==
  /\ pc[c] = "adopting"
  /\ manager' = [manager EXCEPT !.child = held[c]]
  /\ attended' = attended \ {manager.child}
  /\ Goto(c, "idle") /\ Hold(c, Nobody)
  /\ UNCHANGED <<proxy, foreign, online, overlap, crashes>>

(* The manager takes the child; the handle it had is dropped.  The status  *)
(* in the answer is a status request of its own.                           *)
Adopt(c) ==
  /\ pc[c] = "adopting"
  /\ manager' = [child |-> held[c], preset |-> TRUE, started |-> TRUE]
  /\ attended' = attended \ {manager.child}
  /\ Goto(c, "idle") /\ Hold(c, Nobody)
  /\ UNCHANGED <<proxy, foreign, online, overlap, crashes>>

-----------------------------------------------------------------------------
(* Stop.                                                                   *)

Take(c) ==
  /\ manager.child # Nobody
  /\ Begin(c, "waiting")
  /\ manager' = [manager EXCEPT !.child = Nobody]
  /\ Hold(c, manager.child)
  /\ attended' = attended \ {manager.child}
  /\ UNCHANGED <<proxy, foreign, online, crashes>>

(* The child is killed unless it exits in 2 seconds.                       *)
AwaitExit(c) ==
  /\ pc[c] = "waiting"
  /\ proxy' = [proxy EXCEPT ![held[c]] = "exited"]
  /\ Goto(c, "forgetting")
  /\ UNCHANGED <<attended, foreign, manager, online, held, overlap, crashes>>

Forget(c) ==
  /\ pc[c] = "forgetting"
  /\ manager' = [manager EXCEPT !.preset = FALSE, !.started = FALSE]
  /\ Goto(c, "idle") /\ Hold(c, Nobody)
  /\ UNCHANGED <<processes, online, overlap, crashes>>

-----------------------------------------------------------------------------
(* The processes, and kittd.                                               *)

(* A second proxy cannot have the port.                                    *)
Listen(p) ==
  /\ proxy[p] = "starting"
  /\ proxy' = [proxy EXCEPT ![p] = IF Answers THEN "exited" ELSE "listening"]
  /\ UNCHANGED <<attended, foreign, manager, threads, overlap, crashes>>

Exit(p) ==
  /\ Runs(p)
  /\ proxy' = [proxy EXCEPT ![p] = "exited"]
  /\ UNCHANGED <<attended, foreign, manager, threads, overlap, crashes>>

EndOfInput(p) == p \notin attended /\ Exit(p)

Foreign ==
  /\ foreign \/ ~Answers
  /\ foreign' = ~foreign
  /\ UNCHANGED <<proxy, attended, manager, threads, overlap, crashes>>

KittdEnds ==
  /\ crashes < MaxCrashes
  /\ crashes' = crashes + 1
  /\ attended' = {} /\ manager' = NoChild
  /\ pc' = [c \in Client |-> "idle"] /\ held' = [c \in Client |-> Nobody]
  /\ UNCHANGED <<proxy, foreign, online, overlap>>

-----------------------------------------------------------------------------
Continue(c) ==
  \/ Check(c) \/ Spawn(c) \/ Watch(c) \/ Adopt(c)
  \/ AwaitExit(c) \/ Forget(c)

ProxyNext ==
  \/ \E c \in Client : Probe(c) \/ Take(c) \/ Continue(c)
  \/ \E p \in Proxy : Listen(p) \/ Exit(p)
  \/ Foreign \/ KittdEnds

ProxySpec == ProxyInit /\ [][ProxyNext]_proxyVars

(* Threads run on; a proxy ends when its input does.  That it ever listens *)
(* is not assumed: the user must sign in first.                            *)
ProxyFairSpec ==
  /\ ProxySpec
  /\ \A c \in Client : WF_proxyVars(Continue(c))
  /\ \A p \in Proxy : WF_proxyVars(EndOfInput(p))

-----------------------------------------------------------------------------
(* Properties.                                                             *)

(* At most one proxy is running with its input open, as long as requests   *)
(* come one by one: start refuses when there is a child or something       *)
(* answers, whatever exited or was killed or started by hand before.       *)
OneProxy == ~overlap => Cardinality({p \in attended : Runs(p)}) <= 1

(* A child in the manager has its preset and its start: what clears them   *)
(* does not clear those of a later start, as long as requests come one by  *)
(* one.                                                                    *)
ManagedIsNamed == ~overlap /\ manager.child # Nobody => manager.preset /\ manager.started

(* A proxy that neither the manager nor a request holds, because a later   *)
(* start replaced it or kittd died, comes to an end.                       *)
UnheldEnds ==
  \A p \in Proxy :
    Runs(p) /\ manager.child # p /\ (\A c \in Client : held[c] # p) ~> proxy[p] = "exited"
=============================================================================
