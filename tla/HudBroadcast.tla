----------------------------- MODULE HudBroadcast -----------------------------
(***************************************************************************)
(* The heads-up display and how kittd feeds it (apps/kittd/src/main.rs:    *)
(* HudBroadcaster, run_ask, transcribe, show_image, ensure_hud;            *)
(* apps/kitt-hud).                                                         *)
(*                                                                         *)
(* An ask makes sure that a HUD process runs, sends it "thinking", asks the*)
(* model and sends the answer or the error; a transcription does alike; an *)
(* image is sent at once.  Several requests run at once, each in its       *)
(* connection's thread.  The last event is kept and replayed to a HUD that *)
(* subscribes later.  Events are numbered in the order in which they became*)
(* the last event.                                                         *)
(***************************************************************************)
EXTENDS Naturals, Sequences, FiniteSets

CONSTANTS
  Ask,            \* threads that serve requests with show_hud, one by one
  Job,            \* the requests: "ask", "transcribe", "image"
  Hud,            \* HUD processes
  NoHud,          \* no HUD
  MaxSubscribers, \* places in the list of subscribers (8)
  MaxEvents,      \* bound: events sent
  Silence,        \* whether a HUD may read nothing for 30 s
  LatePage        \* whether a HUD may read before its page listens

ASSUME HudBroadcastAssumption ==
  /\ MaxSubscribers \in Nat \ {0} /\ MaxEvents \in Nat
  /\ Job \subseteq {"ask", "transcribe", "image"} /\ Job # {}
  /\ NoHud \notin Hud /\ Silence \in BOOLEAN /\ LatePage \in BOOLEAN

VARIABLES
  sent,      \* the kinds of the events so far; the last one is last_event
  clients,   \* the HUDs in the list of subscribers
  joining,   \* the HUD whose subscription holds the list's mutex, or NoHud
  replayed,  \* per HUD, the last event when it subscribed; 0: none
  job,       \* per thread, the request it serves
  phase,     \* per thread, how far that is
  send,      \* per thread, where its send is
  event,     \* per thread, the event it sends
  todo,      \* per thread, the HUDs its send still writes to
  failed,    \* per thread, the HUDs its send could not write to
  hud,       \* per HUD, the state of the process
  inbox,     \* per HUD, the events it has not read yet
  delivered, \* per HUD, the events that were written to it (history)
  listens,   \* the HUDs whose page listens to events
  shown,     \* per HUD, the event it shows; 0: none
  stale      \* the HUDs whose page listened too late for an event, or to
             \* which events were written in another order (history)

list == <<clients, joining, replayed>>
asks == <<job, phase, send, event, todo, failed>>
huds == <<hud, inbox, delivered, listens, shown, stale>>
hudVars == <<sent, list, asks, huds>>

Kind == {"thinking", "listening", "text", "error", "image"}
Number == 0..MaxEvents

HudTypeOK ==
  /\ sent \in Seq(Kind) /\ Len(sent) <= MaxEvents
  /\ clients \subseteq Hud /\ Cardinality(clients) <= MaxSubscribers
  /\ joining \in Hud \cup {NoHud}
  /\ job \in [Ask -> Job]
  /\ phase \in [Ask -> {"idle", "starting", "working", "ending"}]
  /\ send \in [Ask -> {"ready", "announced", "writing"}]
  /\ event \in [Ask -> Number]
  /\ todo \in [Ask -> SUBSET Hud] /\ failed \in [Ask -> SUBSET Hud]
  /\ hud \in [Hud -> {"unborn", "connecting", "greeted", "subscribed", "gone"}]
  /\ replayed \in [Hud -> Number] /\ shown \in [Hud -> Number]
  /\ inbox \in [Hud -> Seq(Number)]
  /\ delivered \in [Hud -> SUBSET Number]
  /\ listens \subseteq Hud /\ stale \subseteq Hud

HudInit ==
  /\ sent = <<>>
  /\ clients = {} /\ joining = NoHud /\ replayed = [h \in Hud |-> 0]
  /\ job = [a \in Ask |-> CHOOSE j \in Job : TRUE]
  /\ phase = [a \in Ask |-> "idle"]
  /\ send = [a \in Ask |-> "ready"]
  /\ event = [a \in Ask |-> 0]
  /\ todo = [a \in Ask |-> {}] /\ failed = todo
  /\ hud = [h \in Hud |-> "unborn"]
  /\ inbox = [h \in Hud |-> <<>>]
  /\ delivered = [h \in Hud |-> {}]
  /\ listens = IF LatePage THEN {} ELSE Hud
  /\ shown = [h \in Hud |-> 0]
  /\ stale = {}

Runs(h) == hud[h] \notin {"unborn", "gone"}
Locked == joining # NoHud

WriteTo(h, e) ==
  /\ inbox' = [inbox EXCEPT ![h] = Append(@, e)]
  /\ delivered' = [delivered EXCEPT ![h] = @ \cup {e}]
  /\ stale' = IF \E d \in delivered[h] : d > e THEN stale \cup {h} ELSE stale

-----------------------------------------------------------------------------
(* The requests.                                                           *)

(* ensure_hud: a HUD is spawned unless the last one still runs.            *)
Ensure(a) ==
  /\ phase[a] = "idle" /\ Len(sent) + 1 < MaxEvents
  /\ phase' = [phase EXCEPT ![a] = "starting"]
  /\ \E j \in Job : job' = [job EXCEPT ![a] = j]
  /\ IF \E h \in Hud : Runs(h)
     THEN UNCHANGED hud
     ELSE \E h \in Hud : hud[h] = "unborn" /\ hud' = [hud EXCEPT ![h] = "connecting"]
  /\ UNCHANGED <<sent, list, send, event, todo, failed, inbox, delivered, listens, shown, stale>>

(* Fault: an ask that fails sends nothing.                                 *)
FaultResolve(a) ==
  /\ phase[a] = "working"
  /\ \/ phase' = [phase EXCEPT ![a] = "ending"]
     \/ phase' = [phase EXCEPT ![a] = "idle"]
  /\ UNCHANGED <<sent, list, job, send, event, todo, failed, huds>>

(* The answer comes, or the failure: a transcription's is not sent.        *)
Resolve(a) ==
  /\ phase[a] = "working"
  /\ \/ phase' = [phase EXCEPT ![a] = "ending"]
     \/ job[a] = "transcribe" /\ phase' = [phase EXCEPT ![a] = "idle"]
  /\ UNCHANGED <<sent, list, job, send, event, todo, failed, huds>>

Outcome(j) == IF j = "ask" THEN {"text", "error"} ELSE {"text"}
Kinds(a) ==
  IF phase[a] = "ending" THEN Outcome(job[a])
  ELSE CASE job[a] = "ask"        -> {"thinking"}
         [] job[a] = "transcribe" -> {"listening"}
         [] job[a] = "image"      -> {"image"}

(* send: the event becomes the last one,                                   *)
Announce(a) ==
  /\ phase[a] \in {"starting", "ending"} /\ send[a] = "ready" /\ Len(sent) < MaxEvents
  /\ \E kind \in Kinds(a) : sent' = Append(sent, kind)
  /\ event' = [event EXCEPT ![a] = Len(sent) + 1]
  /\ send' = [send EXCEPT ![a] = "announced"]
  /\ UNCHANGED <<list, job, phase, todo, failed, huds>>

(* Fault: a subscription does not keep senders out.                        *)
FaultSnapshot(a) ==
  /\ send[a] = "announced"
  /\ todo' = [todo EXCEPT ![a] = clients]
  /\ send' = [send EXCEPT ![a] = "writing"]
  /\ UNCHANGED <<sent, list, job, phase, event, failed, huds>>

(* the subscribers are copied under the mutex,                             *)
Snapshot(a) ==
  /\ send[a] = "announced" /\ ~Locked
  /\ todo' = [todo EXCEPT ![a] = clients]
  /\ send' = [send EXCEPT ![a] = "writing"]
  /\ UNCHANGED <<sent, list, job, phase, event, failed, huds>>

(* each is written to, without the mutex; a write fails when the HUD has   *)
(* not read for 2 s, or has gone and that is noticed,                      *)
Write(a, h) ==
  /\ send[a] = "writing" /\ h \in todo[a]
  /\ todo' = [todo EXCEPT ![a] = @ \ {h}]
  /\ \/ Runs(h) /\ WriteTo(h, event[a]) /\ UNCHANGED failed
     \/ /\ failed' = [failed EXCEPT ![a] = @ \cup {h}]
        /\ UNCHANGED <<inbox, delivered, stale>>
     \/ ~Runs(h) /\ UNCHANGED <<failed, inbox, delivered, stale>>
  /\ UNCHANGED <<sent, list, job, phase, send, event, hud, listens, shown>>

(* and those that failed are removed, under the mutex again.               *)
EndSend(a) ==
  /\ send[a] = "writing" /\ todo[a] = {}
  /\ failed[a] # {} => ~Locked
  /\ clients' = clients \ failed[a]
  /\ failed' = [failed EXCEPT ![a] = {}]
  /\ send' = [send EXCEPT ![a] = "ready"]
  /\ phase' = [phase EXCEPT ![a] = IF @ = "starting" /\ job[a] # "image"
                                      THEN "working" ELSE "idle"]
  /\ event' = [event EXCEPT ![a] = 0]
  /\ UNCHANGED <<sent, joining, replayed, job, todo, huds>>

-----------------------------------------------------------------------------
(* subscribe, which holds the list's mutex from Greet to Join.             *)

Greet(h) ==
  /\ hud[h] = "connecting" /\ ~Locked
  /\ IF Cardinality(clients) < MaxSubscribers
     THEN joining' = h /\ hud' = [hud EXCEPT ![h] = "greeted"]
     ELSE hud' = [hud EXCEPT ![h] = "gone"] /\ UNCHANGED joining
  /\ UNCHANGED <<sent, clients, replayed, asks, inbox, delivered, listens, shown, stale>>

(* Fault: the last event is not replayed.                                  *)
FaultReplay(h) ==
  /\ hud[h] = "greeted" /\ joining = h
  /\ hud' = [hud EXCEPT ![h] = "subscribed"]
  /\ UNCHANGED <<sent, list, asks, inbox, delivered, listens, shown, stale>>

Replay(h) ==
  /\ hud[h] = "greeted" /\ joining = h
  /\ hud' = [hud EXCEPT ![h] = "subscribed"]
  /\ replayed' = [replayed EXCEPT ![h] = Len(sent)]
  /\ IF sent = <<>> THEN UNCHANGED <<inbox, delivered, stale>> ELSE WriteTo(h, Len(sent))
  /\ UNCHANGED <<sent, clients, joining, asks, listens, shown>>

(* A HUD that has gone meanwhile may have been noticed or not.             *)
Join(h) ==
  /\ joining = h /\ hud[h] \in {"subscribed", "gone"}
  /\ joining' = NoHud
  /\ \/ clients' = clients \cup {h}
     \/ hud[h] = "gone" /\ UNCHANGED clients
  /\ UNCHANGED <<sent, replayed, asks, huds>>

-----------------------------------------------------------------------------
(* The HUD process.                                                        *)

Listen(h) ==
  /\ Runs(h) /\ h \notin listens
  /\ listens' = listens \cup {h}
  /\ UNCHANGED <<sent, list, asks, hud, inbox, delivered, shown, stale>>

(* An event supersedes the one before, and its time to live; a page that   *)
(* does not listen yet misses it.                                          *)
Show(h) ==
  /\ hud[h] = "subscribed" /\ inbox[h] # <<>>
  /\ shown' = [shown EXCEPT ![h] = IF h \in listens THEN Head(inbox[h]) ELSE @]
  /\ stale' = IF h \in listens THEN stale ELSE stale \cup {h}
  /\ inbox' = [inbox EXCEPT ![h] = Tail(@)]
  /\ UNCHANGED <<sent, list, asks, hud, delivered, listens>>

(* What the process kept ends with it.                                     *)
Quit(h) ==
  /\ hud' = [hud EXCEPT ![h] = "gone"]
  /\ inbox' = [inbox EXCEPT ![h] = <<>>]
  /\ shown' = [shown EXCEPT ![h] = 0]
  /\ listens' = listens \ {h} /\ stale' = stale \ {h}
  /\ delivered' = [delivered EXCEPT ![h] = {}]
  /\ replayed' = [replayed EXCEPT ![h] = 0]
  /\ UNCHANGED <<sent, clients, joining, asks>>

(* What is shown has been there for its time to live.                      *)
ExpireShown(h) ==
  /\ hud[h] = "subscribed" /\ shown[h] # 0 /\ sent[shown[h]] \in {"text", "image"}
  /\ Quit(h)

(* The read timeout of the HUD's connection ends its reader and the HUD.   *)
ReadTimeout(h) ==
  /\ Silence /\ hud[h] \in {"greeted", "subscribed"} /\ inbox[h] = <<>>
  /\ Quit(h)

(* A HUD that was taken off the list loses its connection when no send     *)
(* writes to it any more.                                                  *)
Disconnected(h) ==
  /\ hud[h] = "subscribed" /\ h \notin clients /\ joining # h
  /\ \A a \in Ask : h \notin todo[a]
  /\ Quit(h)

UserCloses(h) == Runs(h) /\ Quit(h)

-----------------------------------------------------------------------------
RunAsk(a) ==
  \/ Ensure(a) \/ Resolve(a) \/ Announce(a) \/ Snapshot(a) \/ EndSend(a)
  \/ \E h \in Hud : Write(a, h)
Subscribe(h) == Greet(h) \/ Replay(h) \/ Join(h)
RunHud(h) == Listen(h) \/ Show(h) \/ ExpireShown(h) \/ ReadTimeout(h)
             \/ Disconnected(h) \/ UserCloses(h)

HudNext == (\E a \in Ask : RunAsk(a)) \/ (\E h \in Hud : Subscribe(h) \/ RunHud(h))

HudSpec == HudInit /\ [][HudNext]_hudVars

-----------------------------------------------------------------------------
(* Properties.                                                             *)

(* An event whose send has ended has reached every HUD that is subscribed, *)
(* or was superseded when that HUD subscribed: none falls between the      *)
(* replay of the last event and the list of subscribers.                   *)
NoneMissed ==
  LET complete == (1..Len(sent)) \ {event[a] : a \in {b \in Ask : send[b] # "ready"}}
  IN  \A h \in clients : Runs(h) =>
        \A e \in complete : e < replayed[h] \/ e \in delivered[h]

(* When no send is under way a HUD that has read everything shows the last *)
(* event, whenever it subscribed, unless its page listened too late or two *)
(* sends overtook each other.                                              *)
ShowsLatest ==
  (\A a \in Ask : send[a] = "ready") =>
    \A h \in clients \ stale : Runs(h) /\ inbox[h] = <<>> => shown[h] = Len(sent)

(* When nothing is worked on the last event, which a HUD that subscribes   *)
(* now is shown, is not "thinking", however two asks overlapped.  (A       *)
(* transcription that fails does leave its "listening" behind.)            *)
RestIsFinal ==
  (\A a \in Ask : phase[a] = "idle") => sent = <<>> \/ sent[Len(sent)] # "thinking"

(* What a document or a comment says and the code does not keep: README.md, *)
(* section 6, names the instance in which TLC finds it violated.            *)

(* A HUD does not end on its own once it has read "thinking", as long as   *)
(* that is the latest event (main.ts: a TTL must not "terminate the HUD    *)
(* while a later thinking/responding state is still active").              *)
ThinkingKeepsHud ==
  [][\A h \in Hud : ExpireShown(h) \/ ReadTimeout(h) =>
       ~(inbox[h] = <<>> /\ Len(sent) \in delivered[h] /\ sent[Len(sent)] = "thinking")]_hudVars
=============================================================================
