----------------------------- MODULE EventStream -----------------------------
(***************************************************************************)
(* The way of a session's events from daemon_events to a browser, over one *)
(* daemon connection at a time: the daemon records a row and puts it into  *)
(* the bounded queue of the attached connection (daemon/server.py), the    *)
(* connection's writer loop moves the queue to the socket, the remote      *)
(* gateway (remote/gateway.py on daemon/client.py) pages through what was  *)
(* missed, attaches, merges replay and live events and emits them as       *)
(* server-sent events, and the page (remote/static/app.js) keeps the last  *)
(* sequence id it has seen, from which it resumes after a failure.         *)
(*                                                                         *)
(* Sequence ids are those of one session, 1, 2, ...; the socket and the    *)
(* transport's write buffer are one bounded channel.                       *)
(***************************************************************************)
EXTENDS Naturals, Sequences

CONSTANTS
  QueueMax,     \* the connection queue's maxsize (500)
  PageLimit,    \* the events of one replay page (200)
  WireMax,      \* the messages the socket and its write buffer take
  SseMax,       \* the batches in flight to the browser before more is read
  MaxEvents,    \* bound: events recorded
  MaxFailures   \* bound: connections that fail

ASSUME EventStreamAssumption ==
  /\ QueueMax \in Nat \ {0} /\ PageLimit \in Nat \ {0}
  /\ WireMax \in Nat \ {0} /\ SseMax \in Nat \ {0}
  /\ MaxEvents \in Nat /\ MaxFailures \in Nat

VARIABLES
  recorded,      \* the last row of daemon_events
  conn,          \* the daemon connection: "none", "open" or "closing"
  subscribed,    \* whether its queue is among _subscribers
  queue,         \* its queue
  wire,          \* the messages written and not yet read
  request,       \* the client's request on its way to the daemon
  phase,         \* how far _stream_events_async is
  cursor,        \* its cursor
  reply,         \* the attach response, once the reader loop has it
  pendingLive,   \* its pending_live, which it will sort
  emitted,       \* its set of emitted sequence ids
  sse,           \* the events on their way to the browser, in the batches in
                 \* which they were emitted, each in the order of its ids
  lastSequence,  \* the page's state.lastSequence
  missed,        \* the events the page has passed over (history)
  failures,      \* the connections that failed (history)
  truncated,     \* whether an attach left events out (history)
  overflowed     \* whether an event found the queue full (history)

connection == <<conn, subscribed, queue, wire, request>>
gateway == <<phase, cursor, reply, pendingLive, emitted>>
page == <<lastSequence, missed>>
losses == <<truncated, overflowed>>

vars == <<recorded, connection, gateway, sse, page, failures, losses>>

(* A message stands for the events after "from" up to "to".                *)
Msg(kind, from, to, more) ==
  [kind |-> kind, from |-> from, to |-> to, more |-> more]
Message ==
  [kind : {"page", "attach", "event"}, from : Nat, to : Nat, more : BOOLEAN]

Request(action, last) == [action |-> action, last |-> last]
NoRequest == [action |-> "none", last |-> 0]
NoReply == [kind |-> "none", from |-> 0, to |-> 0, more |-> FALSE]

Phase == {"idle", "paging", "attaching", "live"}

TypeOK ==
  /\ recorded \in 0..MaxEvents
  /\ conn \in {"none", "open", "closing"}
  /\ subscribed \in BOOLEAN
  /\ queue \in Seq(Message) /\ Len(queue) <= QueueMax
  /\ wire \in Seq(Message) /\ Len(wire) <= WireMax
  /\ request \in [action : {"none", "events_since", "attach"}, last : Nat]
  /\ phase \in Phase
  /\ cursor \in Nat
  /\ reply \in Message \cup {NoReply}
  /\ pendingLive \subseteq Nat
  /\ emitted \subseteq Nat
  /\ sse \in Seq(SUBSET Nat)
  /\ lastSequence \in Nat
  /\ missed \subseteq Nat
  /\ failures \in 0..MaxFailures /\ truncated \in BOOLEAN /\ overflowed \in BOOLEAN

Init ==
  /\ recorded = 0
  /\ conn = "none" /\ subscribed = FALSE
  /\ queue = <<>> /\ wire = <<>> /\ request = NoRequest
  /\ phase = "idle" /\ cursor = 0 /\ reply = NoReply
  /\ pendingLive = {} /\ emitted = {}
  /\ sse = <<>>
  /\ lastSequence = 0 /\ missed = {}
  /\ failures = 0 /\ truncated = FALSE /\ overflowed = FALSE

-----------------------------------------------------------------------------
(* The daemon.                                                             *)

(* Fault: a full queue makes room by dropping its oldest message.          *)
FaultEvicts(msg) ==
  /\ queue' = Append(IF Len(queue) < QueueMax THEN queue ELSE Tail(queue), msg)
  /\ UNCHANGED <<conn, overflowed>>

(* _broadcast_event: the event joins the queue of the subscriber; when that*)
(* is full the connection is closed, but stays subscribed.                 *)
Broadcast(msg) ==
  IF Len(queue) < QueueMax
  THEN queue' = Append(queue, msg) /\ UNCHANGED <<conn, overflowed>>
  ELSE conn' = "closing" /\ overflowed' = TRUE /\ UNCHANGED queue

(* record_events: a row, and its broadcast.                                *)
Record ==
  /\ recorded < MaxEvents
  /\ recorded' = recorded + 1
  /\ IF subscribed
     THEN Broadcast(Msg("event", recorded, recorded + 1, FALSE))
     ELSE UNCHANGED <<queue, conn, overflowed>>
  /\ UNCHANGED <<subscribed, wire, request, gateway, sse, page, failures, truncated>>

(* _get_events_since: at most PageLimit rows after the cursor, and whether *)
(* there are more.                                                         *)
EventsSince(kind, last) ==
  IF recorded > last + PageLimit
  THEN Msg(kind, last, last + PageLimit, TRUE)
  ELSE Msg(kind, last, recorded, FALSE)

(* Request "events_since".                                                 *)
ServePage ==
  /\ conn = "open"
  /\ request.action = "events_since"
  /\ Len(queue) < QueueMax
  /\ queue' = Append(queue, EventsSince("page", request.last))
  /\ request' = NoRequest
  /\ UNCHANGED <<recorded, conn, subscribed, wire, gateway, sse, page, failures, losses>>

(* Fault: the replay is sent, but the queue is not subscribed.             *)
FaultNotSubscribed ==
  /\ conn = "open"
  /\ request.action = "attach"
  /\ Len(queue) < QueueMax
  /\ queue' = Append(queue, EventsSince("attach", request.last))
  /\ truncated' = (truncated \/ EventsSince("attach", request.last).more)
  /\ request' = NoRequest
  /\ UNCHANGED <<recorded, conn, subscribed, wire, gateway, sse, page, failures, overflowed>>

(* Request "attach": the queue is subscribed and the replay read without an*)
(* await between them; the response is the queue's first message.          *)
ServeAttach ==
  /\ conn = "open"
  /\ request.action = "attach"
  /\ Len(queue) < QueueMax
  /\ subscribed' = TRUE
  /\ queue' = Append(queue, EventsSince("attach", request.last))
  /\ truncated' = (truncated \/ EventsSince("attach", request.last).more)
  /\ request' = NoRequest
  /\ UNCHANGED <<recorded, conn, wire, gateway, sse, page, failures, overflowed>>

(* _client_writer_loop: the next message goes to the socket once there is  *)
(* room.  A closing transport takes it too as long as its buffer has not   *)
(* run empty.                                                              *)
WriteNext ==
  /\ conn = "open" \/ (conn = "closing" /\ wire # <<>>)
  /\ queue # <<>>
  /\ Len(wire) < WireMax
  /\ wire' = Append(wire, Head(queue))
  /\ queue' = Tail(queue)
  /\ UNCHANGED <<recorded, conn, subscribed, request, gateway, sse, page, failures, losses>>

-----------------------------------------------------------------------------
(* The gateway.                                                            *)

Ids(msg) == (msg.from + 1)..msg.to

Joined(batches, ids) == IF ids = {} THEN batches ELSE Append(batches, ids)

(* emit_once for some events in their order and then for others in theirs. *)
Emit(first, then) ==
  /\ sse' = Joined(Joined(sse, first \ emitted), then \ (emitted \cup first))
  /\ emitted' = emitted \cup first \cup then

(* The page opens its EventSource once it has read the last one to its     *)
(* end; the gateway connects and asks for the first page.                  *)
Open ==
  /\ phase = "idle" /\ conn = "none" /\ sse = <<>>
  /\ conn' = "open"
  /\ phase' = "paging"
  /\ cursor' = lastSequence
  /\ request' = Request("events_since", lastSequence)
  /\ UNCHANGED <<recorded, subscribed, queue, wire, reply, pendingLive, emitted,
                 sse, page, failures, losses>>

(* A page arrives: its events are emitted, then the next page is asked for *)
(* or, after the last one, the attachment.                                 *)
ReceivePage ==
  LET msg == Head(wire) IN
  /\ phase = "paging" /\ wire # <<>> /\ msg.kind = "page"
  /\ Len(sse) < SseMax
  /\ wire' = Tail(wire)
  /\ Emit(Ids(msg), {})
  /\ cursor' = msg.to
  /\ IF msg.more
     THEN request' = Request("events_since", msg.to) /\ UNCHANGED phase
     ELSE request' = Request("attach", msg.to) /\ phase' = "attaching"
  /\ UNCHANGED <<recorded, conn, subscribed, queue, reply, pendingLive, page, failures, losses>>

(* The reader loop resolves the attach request; the stream resumes later.  *)
ReceiveAttach ==
  /\ phase = "attaching" /\ wire # <<>> /\ Head(wire).kind = "attach"
  /\ reply' = Head(wire)
  /\ wire' = Tail(wire)
  /\ UNCHANGED <<recorded, conn, subscribed, queue, request, phase, cursor,
                 pendingLive, emitted, sse, page, failures, losses>>

(* on_live: an event is emitted, or held back until the replay has been.   *)
ReceiveLive ==
  /\ wire # <<>> /\ Head(wire).kind = "event"
  /\ wire' = Tail(wire)
  /\ IF phase = "live"
     THEN /\ Len(sse) < SseMax
          /\ Emit(Ids(Head(wire)), {})
          /\ UNCHANGED pendingLive
     ELSE /\ pendingLive' = pendingLive \cup {Head(wire).to}
          /\ UNCHANGED <<sse, emitted>>
  /\ UNCHANGED <<recorded, conn, subscribed, queue, request, phase, cursor,
                 reply, page, failures, losses>>

(* Fault: the events held back go out before the replay.                   *)
FaultLiveFirst ==
  /\ phase = "attaching" /\ reply # NoReply
  /\ Len(sse) < SseMax
  /\ Emit(pendingLive, Ids(reply))
  /\ phase' = "live"
  /\ reply' = NoReply
  /\ pendingLive' = {}
  /\ UNCHANGED <<recorded, connection, cursor, page, failures, losses>>

(* The stream resumes with the attach response: the replay is emitted, then*)
(* the events held back in order.  Whether there is more to replay is not  *)
(* looked at.                                                              *)
GoLive ==
  /\ phase = "attaching" /\ reply # NoReply
  /\ Len(sse) < SseMax
  /\ Emit(Ids(reply), pendingLive)
  /\ phase' = "live"
  /\ reply' = NoReply
  /\ pendingLive' = {}
  /\ UNCHANGED <<recorded, connection, cursor, page, failures, losses>>

(* handleEvent: an event the page has not seen yet moves its cursor.       *)
Show ==
  /\ sse # <<>>
  /\ \E n \in Head(sse) :
       /\ \A m \in Head(sse) : n <= m
       /\ sse' = IF Head(sse) = {n} THEN Tail(sse) ELSE [sse EXCEPT ![1] = @ \ {n}]
       /\ IF n <= lastSequence
          THEN UNCHANGED page
          ELSE /\ lastSequence' = n
               /\ missed' = missed \cup (lastSequence + 1)..(n - 1)
  /\ UNCHANGED <<recorded, connection, gateway, failures, losses>>

-----------------------------------------------------------------------------
(* The connection and the stream on it are gone.                           *)
Disconnect ==
  /\ conn' = "none" /\ subscribed' = FALSE
  /\ queue' = <<>> /\ wire' = <<>> /\ request' = NoRequest
  /\ phase' = "idle" /\ cursor' = 0 /\ reply' = NoReply
  /\ pendingLive' = {} /\ emitted' = {}

(* A closing connection is gone when its buffer has run empty; what the    *)
(* gateway has not emitted by then is lost with it.                        *)
CloseDone ==
  /\ conn = "closing" /\ wire = <<>>
  /\ Disconnect
  /\ UNCHANGED <<recorded, sse, page, failures, losses>>

(* The daemon restarts or its connection fails: events emitted before may  *)
(* still reach the page.                                                   *)
DaemonFails ==
  /\ conn # "none" /\ failures < MaxFailures
  /\ failures' = failures + 1
  /\ Disconnect
  /\ UNCHANGED <<recorded, sse, page, losses>>

(* The browser's connection fails: events in flight are lost.              *)
BrowserFails ==
  /\ conn # "none" /\ failures < MaxFailures
  /\ failures' = failures + 1
  /\ Disconnect
  /\ sse' = <<>>
  /\ UNCHANGED <<recorded, page, losses>>

Serve == ServePage \/ ServeAttach \/ WriteNext
Receive == ReceivePage \/ ReceiveAttach \/ ReceiveLive \/ GoLive

Next ==
  \/ Record
  \/ Open \/ Serve \/ Receive \/ Show
  \/ CloseDone \/ DaemonFails \/ BrowserFails

Spec == Init /\ [][Next]_vars

(* The event loops of daemon and gateway run, the network delivers, and the*)
(* browser reads and reconnects; nothing makes events or failures happen.  *)
Fairness ==
  /\ WF_vars(Open) /\ WF_vars(Show) /\ WF_vars(CloseDone)
  /\ WF_vars(ServePage) /\ WF_vars(ServeAttach) /\ WF_vars(WriteNext)
  /\ WF_vars(ReceivePage) /\ WF_vars(ReceiveAttach) /\ WF_vars(ReceiveLive)
  /\ WF_vars(GoLive)

FairSpec == Spec /\ Fairness

-----------------------------------------------------------------------------
(* Properties.                                                             *)

(* A response is never pushed out by events: as long as the connection is  *)
(* open, the request the gateway waits on is on its way or its response is.*)
ResponseSurvives ==
  phase \in {"paging", "attaching"} /\ conn = "open" /\ reply = NoReply =>
    \/ request # NoRequest
    \/ \E i \in DOMAIN queue : queue[i].kind # "event"
    \/ \E i \in DOMAIN wire : wire[i].kind # "event"

(* The page catches up with every event recorded, through any number of    *)
(* slow phases, closed connections and failures, unless more than a page of*)
(* events came between the last replay page and the attach.                *)
CatchesUp ==
  \A n \in 1..MaxEvents : recorded >= n ~> lastSequence >= n \/ truncated

(* The page has seen every event up to its cursor.                         *)
NoGap == missed = {}

(* The stream implements the event log: through every slow phase, failure  *)
(* and reconnection what the page has seen grows by the next event only,   *)
(* unless a queue or an attach page was too small for a burst.             *)
Log == INSTANCE EventLog
         WITH delivered <- lastSequence, lossy <- truncated \/ overflowed
LogSpec == Log!Spec

(* What a document or a comment says and the code does not keep: README.md, *)
(* section 6, names the instance in which TLC finds it violated.            *)

(* server.py: "Never drop persisted events silently ... Disconnect the slow*)
(* client; its next attach replays all missing events by sequence id."     *)
OverflowReplayed == NoGap

(* gateway.py: "Catch up without subscribing first. This prevents the      *)
(* daemon's bounded attach replay from leaving a large historical gap."    *)
AttachReplaysAll == NoGap
=============================================================================
