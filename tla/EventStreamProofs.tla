--------------------------- MODULE EventStreamProofs ---------------------------
(***************************************************************************)
(* Proofs about EventStream, for every size of queue, page and wire and    *)
(* every number of events and failures: events never push a response out   *)
(* of the connection's queue, and the stream implements the event log.     *)
(***************************************************************************)
EXTENDS EventStream, SequenceTheorems, TLAPS

-----------------------------------------------------------------------------
(***************************************************************************)
(* A response survives.  Which values the messages carry does not matter   *)
(* for it, so nothing is said of them but that queue and wire are          *)
(* sequences.                                                              *)
(***************************************************************************)

(* Some value of q is not an event: it answers a request.                  *)
Responds(q) == \E i \in DOMAIN q : q[i].kind # "event"

IsSequence(q) == \E S : q \in Seq(S)

(* What is appended to a sequence joins what it holds.                     *)
LEMMA Appended ==
  ASSUME NEW q, IsSequence(q), NEW msg
  PROVE  /\ IsSequence(Append(q, msg))
         /\ Responds(q) => Responds(Append(q, msg))
         /\ msg.kind # "event" => Responds(Append(q, msg))
<1>1. PICK S : q \in Seq(S)
  BY DEF IsSequence
<1>2. q \in Seq(S \cup {msg})
  BY <1>1
<1>3. Append(q, msg) \in Seq(S \cup {msg})
  BY <1>2
<1>4. /\ DOMAIN q \subseteq DOMAIN Append(q, msg)
      /\ \A i \in DOMAIN q : Append(q, msg)[i] = q[i]
      /\ Len(q) + 1 \in DOMAIN Append(q, msg)
      /\ Append(q, msg)[Len(q) + 1] = msg
  BY <1>2
<1> QED
  BY <1>3, <1>4 DEF IsSequence, Responds

(* What responds in a sequence is its head or in its tail.                 *)
LEMMA Taken ==
  ASSUME NEW q, IsSequence(q), q # <<>>
  PROVE  /\ IsSequence(Tail(q))
         /\ Responds(q) => Head(q).kind # "event" \/ Responds(Tail(q))
<1>1. PICK S : q \in Seq(S)
  BY DEF IsSequence
<1>2. Tail(q) \in Seq(S)
  BY <1>1
<1>3. \A i \in DOMAIN q : q[i] = Head(q) \/ (i - 1 \in DOMAIN Tail(q) /\ Tail(q)[i - 1] = q[i])
  BY <1>1
<1> QED
  BY <1>2, <1>3 DEF IsSequence, Responds

(* The invariant of the proof.                                             *)
BothSequences == IsSequence(queue) /\ IsSequence(wire)
SurvivesInv == BothSequences /\ ResponseSurvives

-----------------------------------------------------------------------------
LEMMA InitSurvives == Init => SurvivesInv
<1> SUFFICES ASSUME Init PROVE SurvivesInv
  OBVIOUS
<1>1. queue \in Seq({}) /\ wire \in Seq({})
  BY DEF Init
<1> QED
  BY <1>1 DEF Init, SurvivesInv, BothSequences, IsSequence, ResponseSurvives

(* Whatever leaves no connection behind.                                   *)
LEMMA DisconnectSurvives ==
  ASSUME Disconnect
  PROVE  SurvivesInv'
<1>1. queue' \in Seq({}) /\ wire' \in Seq({})
  BY DEF Disconnect
<1> QED
  BY <1>1 DEF Disconnect, SurvivesInv, BothSequences, IsSequence, ResponseSurvives

(* A new event finds its place behind what waits in the queue; where it    *)
(* finds none, the connection closes.                                      *)
LEMMA RecordSurvives ==
  ASSUME SurvivesInv, Record
  PROVE  SurvivesInv'
<1> DEFINE msg == Msg("event", recorded, recorded + 1, FALSE)
<1>1. UNCHANGED <<wire, request, phase, reply>>
  BY DEF Record, gateway
<1>2. CASE subscribed /\ Len(queue) < QueueMax
  <2>1. queue' = Append(queue, msg) /\ conn' = conn
    BY <1>2 DEF Record, Broadcast
  <2>2. IsSequence(queue') /\ (Responds(queue) => Responds(queue'))
    <3> HIDE DEF msg
    <3> QED
      BY <2>1, Appended DEF SurvivesInv, BothSequences
  <2> QED
    BY <1>1, <2>1, <2>2 DEF SurvivesInv, BothSequences, ResponseSurvives, Responds
<1>3. CASE subscribed /\ ~(Len(queue) < QueueMax)
  BY <1>1, <1>3 DEF Record, Broadcast, SurvivesInv, BothSequences, ResponseSurvives
<1>4. CASE ~subscribed
  BY <1>1, <1>4 DEF Record, SurvivesInv, BothSequences, ResponseSurvives
<1> QED
  BY <1>2, <1>3, <1>4

(* A request that is served leaves its response in the queue.              *)
LEMMA ServedSurvives ==
  ASSUME SurvivesInv, NEW msg, msg.kind # "event",
         queue' = Append(queue, msg), UNCHANGED wire
  PROVE  SurvivesInv'
<1>1. IsSequence(queue') /\ Responds(queue')
  BY Appended DEF SurvivesInv, BothSequences
<1> QED
  BY <1>1 DEF SurvivesInv, BothSequences, ResponseSurvives, Responds

LEMMA KindOfPage ==
  ASSUME NEW kind, NEW last
  PROVE  EventsSince(kind, last).kind = kind
BY DEF EventsSince, Msg

LEMMA ServeSurvives ==
  ASSUME SurvivesInv, ServePage \/ ServeAttach
  PROVE  SurvivesInv'
<1>1. CASE ServePage
  <2> DEFINE msg == EventsSince("page", request.last)
  <2>1. msg.kind # "event"
    BY KindOfPage
  <2>2. queue' = Append(queue, msg) /\ UNCHANGED wire
    BY <1>1 DEF ServePage
  <2> HIDE DEF msg
  <2> QED
    BY <2>1, <2>2, ServedSurvives
<1>2. CASE ServeAttach
  <2> DEFINE msg == EventsSince("attach", request.last)
  <2>1. msg.kind # "event"
    BY KindOfPage
  <2>2. queue' = Append(queue, msg) /\ UNCHANGED wire
    BY <1>2 DEF ServeAttach
  <2> HIDE DEF msg
  <2> QED
    BY <2>1, <2>2, ServedSurvives
<1> QED
  BY <1>1, <1>2

(* The writer loop moves a response with everything else.                  *)
LEMMA WriteSurvives ==
  ASSUME SurvivesInv, WriteNext
  PROVE  SurvivesInv'
<1>1. /\ queue # <<>> /\ wire' = Append(wire, Head(queue)) /\ queue' = Tail(queue)
      /\ UNCHANGED <<conn, request, phase, reply>>
  BY DEF WriteNext, gateway
<1>2. /\ IsSequence(queue')
      /\ Responds(queue) => Head(queue).kind # "event" \/ Responds(queue')
  BY <1>1, Taken DEF SurvivesInv, BothSequences
<1>3. /\ IsSequence(wire')
      /\ Responds(wire) \/ Head(queue).kind # "event" => Responds(wire')
  BY <1>1, Appended DEF SurvivesInv, BothSequences
<1> QED
  BY <1>1, <1>2, <1>3 DEF SurvivesInv, BothSequences, ResponseSurvives, Responds

(* The gateway asks for something new as it takes a page.                  *)
LEMMA ReceivePageSurvives ==
  ASSUME SurvivesInv, ReceivePage
  PROVE  SurvivesInv'
<1>1. wire # <<>> /\ wire' = Tail(wire) /\ UNCHANGED queue
  BY DEF ReceivePage
<1>2. IsSequence(wire')
  BY <1>1, Taken DEF SurvivesInv, BothSequences
<1>3. request' # NoRequest
  BY DEF ReceivePage, Request, NoRequest
<1> QED
  BY <1>1, <1>2, <1>3 DEF SurvivesInv, BothSequences, ResponseSurvives

(* It has a reply as it takes the response to its attachment.              *)
LEMMA ReceiveAttachSurvives ==
  ASSUME SurvivesInv, ReceiveAttach
  PROVE  SurvivesInv'
<1>1. wire # <<>> /\ wire' = Tail(wire) /\ UNCHANGED queue
  BY DEF ReceiveAttach
<1>2. IsSequence(wire')
  BY <1>1, Taken DEF SurvivesInv, BothSequences
<1>3. reply' # NoReply
  BY DEF ReceiveAttach, NoReply
<1> QED
  BY <1>1, <1>2, <1>3 DEF SurvivesInv, BothSequences, ResponseSurvives

(* What it takes as live is an event and no response.                      *)
LEMMA ReceiveLiveSurvives ==
  ASSUME SurvivesInv, ReceiveLive
  PROVE  SurvivesInv'
<1>1. /\ wire # <<>> /\ Head(wire).kind = "event" /\ wire' = Tail(wire)
      /\ UNCHANGED <<conn, queue, request, phase, reply>>
  BY DEF ReceiveLive
<1>2. IsSequence(wire') /\ (Responds(wire) => Responds(wire'))
  BY <1>1, Taken DEF SurvivesInv, BothSequences
<1> QED
  BY <1>1, <1>2 DEF SurvivesInv, BothSequences, ResponseSurvives, Responds

(* In an open connection that awaits a response, the request is on its way *)
(* or the response is, however many events surround it.                    *)
THEOREM Survives == Spec => []ResponseSurvives
<1>1. Init => SurvivesInv
  BY InitSurvives
<1>2. SurvivesInv /\ [Next]_vars => SurvivesInv'
  <2> SUFFICES ASSUME SurvivesInv, [Next]_vars PROVE SurvivesInv'
    OBVIOUS
  <2>1. CASE Record
    BY <2>1, RecordSurvives
  <2>2. CASE Open
    <3>1. request' # NoRequest /\ UNCHANGED <<queue, wire>>
      BY <2>2 DEF Open, Request, NoRequest
    <3> QED
      BY <3>1 DEF SurvivesInv, BothSequences, ResponseSurvives
  <2>3. CASE ServePage \/ ServeAttach
    BY <2>3, ServeSurvives
  <2>4. CASE WriteNext
    BY <2>4, WriteSurvives
  <2>5. CASE ReceivePage
    BY <2>5, ReceivePageSurvives
  <2>6. CASE ReceiveAttach
    BY <2>6, ReceiveAttachSurvives
  <2>7. CASE ReceiveLive
    BY <2>7, ReceiveLiveSurvives
  <2>8. CASE GoLive
    BY <2>8 DEF GoLive, connection, SurvivesInv, BothSequences, ResponseSurvives
  <2>9. CASE Show
    BY <2>9 DEF Show, connection, gateway, SurvivesInv, BothSequences, ResponseSurvives
  <2>10. CASE CloseDone \/ DaemonFails \/ BrowserFails
    BY <2>10, DisconnectSurvives DEF CloseDone, DaemonFails, BrowserFails
  <2>11. CASE UNCHANGED vars
    BY <2>11 DEF vars, connection, gateway, SurvivesInv, BothSequences, ResponseSurvives
  <2> QED
    BY <2>1, <2>2, <2>3, <2>4, <2>5, <2>6, <2>7, <2>8, <2>9, <2>10, <2>11
       DEF Next, Serve, Receive
<1>3. SurvivesInv => ResponseSurvives
  BY DEF SurvivesInv
<1> QED
  BY <1>1, <1>2, <1>3, PTL DEF Spec

-----------------------------------------------------------------------------
(***************************************************************************)
(* The stream implements the event log.                                    *)
(***************************************************************************)

(* The messages that tell of recorded events only.                         *)
Known == {msg \in Message : msg.to <= recorded}
Batch == {ids \in SUBSET (0..recorded) : ids # {}}

(* Nothing is told, emitted or shown that was not recorded.                *)
StreamTypeInv ==
  /\ TypeOK
  /\ queue \in Seq(Known) /\ wire \in Seq(Known)
  /\ reply \in Known \cup {NoReply}
  /\ pendingLive \subseteq 0..recorded
  /\ sse \in Seq(Batch)
  /\ lastSequence <= recorded

(* What the daemon has sent and the gateway has not received, in its order.*)
Channel == wire \o queue

(* Message "msg" is event "n".                                             *)
IsEvent(msg, n) == msg.kind = "event" /\ msg.from + 1 = n /\ msg.to = n

(* The messages in "c" are the events after "from" up to "to".             *)
Continues(c, from, to) ==
  /\ \A i \in DOMAIN c : IsEvent(c[i], from + i)
  /\ from + Len(c) = to

(* The batches hold every event after the page's cursor up to "top", in    *)
(* their order.                                                            *)
Contiguous(batches, cur, top) ==
  /\ \A n \in Nat : (\E i \in DOMAIN batches : n \in batches[i]) <=> cur < n /\ n <= top
  /\ \A i, j \in DOMAIN batches : i < j =>
       \A m \in batches[i], n \in batches[j] : m < n

(* Everything up to "top" was emitted and nothing after it.                *)
EmittedTo(top) ==
  /\ lastSequence <= top /\ top <= recorded
  /\ Contiguous(sse, lastSequence, top)
  /\ \A n \in emitted : n <= top

(* How far the gateway is in a connection, when it has emitted the events  *)
(* up to "top".                                                            *)
NoConnection == /\ conn = "none" /\ ~subscribed
                /\ request = NoRequest /\ Channel = <<>>
NextPage(top) ==
  /\ conn = "open" /\ ~subscribed /\ cursor = top
  /\ \/ request = Request("events_since", top) /\ Channel = <<>>
     \/ /\ request = NoRequest /\ Len(Channel) = 1
        /\ Channel[1].kind = "page" /\ Channel[1].from = top /\ top <= Channel[1].to
Attached(top) ==
  /\ conn = "open" /\ subscribed /\ cursor = top /\ request = NoRequest
  /\ Channel # <<>>
  /\ Head(Channel).kind = "attach" /\ Head(Channel).from = top /\ top <= Head(Channel).to
  /\ Continues(Tail(Channel), Head(Channel).to, recorded)
Attaching(top) ==
  \/ /\ conn = "open" /\ ~subscribed /\ cursor = top
     /\ request = Request("attach", top) /\ Channel = <<>>
  \/ Attached(top)
HeldBack(top) ==
  /\ conn = "open" /\ subscribed /\ request = NoRequest
  /\ reply.kind = "attach" /\ reply.from = top /\ top <= reply.to
  /\ \E held \in Nat :
       /\ reply.to <= held /\ pendingLive = (reply.to + 1)..held
       /\ Continues(Channel, held, recorded)
Live(top) == /\ conn = "open" /\ subscribed /\ request = NoRequest
             /\ Continues(Channel, top, recorded)

Progress(top) ==
  /\ phase = "idle" => NoConnection
  /\ phase = "paging" => NextPage(top)
  /\ phase = "attaching" /\ reply = NoReply => Attaching(top)
  /\ phase = "attaching" /\ reply # NoReply => HeldBack(top)
  /\ phase = "live" => Live(top)
  /\ phase # "attaching" => reply = NoReply
  /\ reply = NoReply => pendingLive = {}

(* Until a burst was too large the browser's events go on from its cursor  *)
(* without a gap, and the connection's go on from those.                   *)
StreamInv ==
  ~(truncated \/ overflowed) => \E top \in Nat : EmittedTo(top) /\ Progress(top)

-----------------------------------------------------------------------------
(* Types.                                                                  *)

LEMMA Widened ==
  ASSUME NEW S, NEW T, S \subseteq T, NEW q \in Seq(S)
  PROVE  q \in Seq(T)
OBVIOUS

LEMMA EventsSinceKnown ==
  ASSUME TypeOK, NEW kind \in {"page", "attach"}, NEW last \in Nat
  PROVE  EventsSince(kind, last) \in Known
<1>1. recorded \in Nat /\ PageLimit \in Nat
  BY EventStreamAssumption DEF TypeOK
<1> QED
  BY <1>1 DEF EventsSince, Known, Message, Msg

LEMMA EmitType ==
  ASSUME StreamTypeInv, NEW first \in SUBSET (0..recorded), NEW then \in SUBSET (0..recorded),
         Emit(first, then)
  PROVE  sse' \in Seq(Batch) /\ emitted' \subseteq Nat
<1>1. \A batches \in Seq(Batch) : \A ids \in SUBSET (0..recorded) : Joined(batches, ids) \in Seq(Batch)
  <2> TAKE batches \in Seq(Batch)
  <2> TAKE ids \in SUBSET (0..recorded)
  <2>1. ids # {} => ids \in Batch
    BY DEF Batch
  <2> HIDE DEF Batch
  <2> QED
    BY <2>1 DEF Joined
<1>2. Joined(sse, first \ emitted) \in Seq(Batch)
  BY <1>1 DEF StreamTypeInv
<1>3. then \ (emitted \cup first) \in SUBSET (0..recorded)
  OBVIOUS
<1>4. sse' \in Seq(Batch)
  BY <1>1, <1>2, <1>3 DEF Emit
<1>5. emitted' \subseteq Nat
  BY DEF Emit, StreamTypeInv, TypeOK
<1> QED
  BY <1>4, <1>5

LEMMA IdsKnown ==
  ASSUME TypeOK, NEW msg \in Known
  PROVE  Ids(msg) \subseteq 0..recorded
BY DEF Ids, Known, Message, TypeOK

(* The states of the connection and of the gateway in which all is over.   *)
LEMMA DisconnectType ==
  ASSUME StreamTypeInv, Disconnect, UNCHANGED <<recorded, lastSequence, missed, truncated, overflowed>>,
         failures' \in 0..MaxFailures, sse' = sse \/ sse' = <<>>
  PROVE  StreamTypeInv'
<1>1. Batch' = Batch /\ Known' = Known
  BY DEF Batch, Known
<1>2. sse' \in Seq(Batch) /\ sse' \in Seq(SUBSET Nat)
  <2>1. <<>> \in Seq(Batch) /\ <<>> \in Seq(SUBSET Nat)
    OBVIOUS
  <2> QED
    BY <2>1 DEF StreamTypeInv, TypeOK
<1>3. queue' \in Seq(Known) /\ wire' \in Seq(Known) /\ queue' \in Seq(Message) /\ wire' \in Seq(Message)
      /\ Len(queue') = 0 /\ Len(wire') = 0
  BY DEF Disconnect
<1>4. 0 <= QueueMax /\ 0 <= WireMax
  BY EventStreamAssumption
<1>5. TypeOK'
  BY <1>2, <1>3, <1>4 DEF Disconnect, StreamTypeInv, TypeOK, NoRequest, Phase
<1>6. reply' \in Known \cup {NoReply} /\ pendingLive' = {} /\ lastSequence' <= recorded'
  BY DEF Disconnect, StreamTypeInv
<1> QED
  BY <1>1, <1>2, <1>3, <1>5, <1>6 DEF StreamTypeInv

LEMMA RecordType ==
  ASSUME StreamTypeInv, Record
  PROVE  StreamTypeInv'
<1> DEFINE msg == Msg("event", recorded, recorded + 1, FALSE)
<1>1. recorded \in Nat /\ recorded' = recorded + 1 /\ recorded' <= MaxEvents
  BY EventStreamAssumption DEF Record, StreamTypeInv, TypeOK
<1>2. Known \subseteq Known' /\ Batch \subseteq Batch' /\ 0..recorded \subseteq 0..recorded'
  BY <1>1 DEF Known, Batch, Message
<1>3. msg \in Message /\ msg \in Known'
  BY <1>1 DEF Known, Message, Msg
<1>4. queue \in Seq(Known') /\ wire \in Seq(Known') /\ sse \in Seq(Batch')
  BY <1>2, Widened DEF StreamTypeInv
<1>5. \/ queue' = queue
      \/ queue' = Append(queue, msg) /\ Len(queue) < QueueMax
  BY DEF Record, Broadcast
<1>6. queue' \in Seq(Known') /\ queue' \in Seq(Message) /\ Len(queue') <= QueueMax
  <2> HIDE DEF msg
  <2>1. queue \in Seq(Message) /\ Len(queue) <= QueueMax
    BY DEF StreamTypeInv, TypeOK
  <2>2. CASE queue' = Append(queue, msg) /\ Len(queue) < QueueMax
    <3>1. Append(queue, msg) \in Seq(Known')
      BY <1>3, <1>4
    <3>2. Append(queue, msg) \in Seq(Message) /\ Len(Append(queue, msg)) = Len(queue) + 1 /\ Len(queue) \in Nat
      BY <1>3, <2>1
    <3> QED
      BY <2>2, <3>1, <3>2, EventStreamAssumption
  <2> QED
    BY <1>4, <1>5, <2>1, <2>2
<1>7. UNCHANGED <<subscribed, wire, request, gateway, sse, page, failures, truncated>>
  BY DEF Record
<1>8. conn' \in {"none", "open", "closing"} /\ overflowed' \in BOOLEAN
  BY DEF Record, Broadcast, StreamTypeInv, TypeOK
<1>9. TypeOK'
  BY <1>1, <1>6, <1>7, <1>8 DEF StreamTypeInv, TypeOK, gateway, page
<1>10. lastSequence' <= recorded'
  BY <1>1, <1>7 DEF StreamTypeInv, TypeOK, page
<1> QED
  BY <1>2, <1>4, <1>6, <1>7, <1>9, <1>10 DEF StreamTypeInv, gateway, page

LEMMA ServeType ==
  ASSUME StreamTypeInv, ServePage \/ ServeAttach
  PROVE  StreamTypeInv'
<1>1. PICK kind \in {"page", "attach"} :
        queue' = Append(queue, EventsSince(kind, request.last)) /\ Len(queue) < QueueMax
  BY DEF ServePage, ServeAttach
<1>2. request.last \in Nat
  BY DEF StreamTypeInv, TypeOK
<1>3. EventsSince(kind, request.last) \in Known
  BY <1>2, EventsSinceKnown DEF StreamTypeInv
<1>4. Known \subseteq Message /\ Known' = Known /\ Batch' = Batch
  BY DEF ServePage, ServeAttach, Known, Batch
<1>5. queue' \in Seq(Known) /\ queue' \in Seq(Message) /\ Len(queue') <= QueueMax
  BY <1>1, <1>3, <1>4, EventStreamAssumption DEF StreamTypeInv, TypeOK
<1>6. /\ UNCHANGED <<recorded, conn, wire, gateway, sse, page, failures, overflowed>>
      /\ request' = NoRequest /\ subscribed' \in {subscribed, TRUE}
      /\ truncated' \in BOOLEAN
  <2>1. EventsSince("attach", request.last).more \in BOOLEAN
    BY DEF EventsSince, Msg
  <2> HIDE DEF EventsSince
  <2>2. CASE ServePage
    BY <2>2 DEF ServePage, losses, StreamTypeInv, TypeOK
  <2>3. CASE ServeAttach
    BY <2>1, <2>3 DEF ServeAttach, StreamTypeInv, TypeOK
  <2> QED
    BY <2>2, <2>3
<1>7. TypeOK'
  BY <1>5, <1>6 DEF StreamTypeInv, TypeOK, gateway, page, NoRequest
<1> QED
  BY <1>4, <1>5, <1>6, <1>7 DEF StreamTypeInv, gateway, page

LEMMA WriteType ==
  ASSUME StreamTypeInv, WriteNext
  PROVE  StreamTypeInv'
<1>1. /\ UNCHANGED <<recorded, conn, subscribed, request, gateway, sse, page, failures, losses>>
      /\ queue # <<>> /\ Len(wire) < WireMax
      /\ wire' = Append(wire, Head(queue)) /\ queue' = Tail(queue)
  BY DEF WriteNext
<1>2. Known \subseteq Message /\ Known' = Known /\ Batch' = Batch
  BY <1>1 DEF Known, Batch
<1>3. queue \in Seq(Known) /\ wire \in Seq(Known) /\ Len(queue) <= QueueMax
  BY DEF StreamTypeInv, TypeOK
<1>4. /\ queue' \in Seq(Known) /\ wire' \in Seq(Known)
      /\ Len(queue') = Len(queue) - 1 /\ Len(wire') = Len(wire) + 1
  BY <1>1, <1>3
<1>5. /\ queue' \in Seq(Message) /\ wire' \in Seq(Message)
      /\ Len(queue') <= QueueMax /\ Len(wire') <= WireMax
  BY <1>1, <1>2, <1>3, <1>4, Widened, EventStreamAssumption
<1>6. TypeOK'
  BY <1>1, <1>5 DEF StreamTypeInv, TypeOK, gateway, page, losses
<1> QED
  BY <1>1, <1>2, <1>4, <1>6 DEF StreamTypeInv, gateway, page

LEMMA OpenType ==
  ASSUME StreamTypeInv, Open
  PROVE  StreamTypeInv'
<1>1. Known' = Known /\ Batch' = Batch
  BY DEF Open, Known, Batch
<1>2. TypeOK'
  BY DEF Open, StreamTypeInv, TypeOK, Phase, Request, page, losses
<1> QED
  BY <1>1, <1>2 DEF Open, StreamTypeInv, page

(* The gateway takes a message.                                            *)
LEMMA TakeType ==
  ASSUME StreamTypeInv, wire # <<>>
  PROVE  /\ Head(wire) \in Known /\ Head(wire) \in Message
         /\ Tail(wire) \in Seq(Known) /\ Tail(wire) \in Seq(Message)
         /\ Len(Tail(wire)) <= WireMax
<1>1. Known \subseteq Message
  BY DEF Known
<1>2. wire \in Seq(Known) /\ Len(wire) <= WireMax
  BY DEF StreamTypeInv, TypeOK
<1>3. Head(wire) \in Known /\ Tail(wire) \in Seq(Known) /\ Len(Tail(wire)) = Len(wire) - 1
  BY <1>2
<1> QED
  BY <1>1, <1>2, <1>3, Widened, EventStreamAssumption

LEMMA ReceiveType ==
  ASSUME StreamTypeInv, Receive
  PROVE  StreamTypeInv'
<1>1. Known' = Known /\ Batch' = Batch /\ recorded' = recorded
  BY DEF Receive, ReceivePage, ReceiveAttach, ReceiveLive, GoLive, Known, Batch
<1>2. Batch \subseteq SUBSET Nat
  BY DEF Batch, StreamTypeInv, TypeOK
<1>3. sse' \in Seq(Batch) => sse' \in Seq(SUBSET Nat)
  BY <1>2, Widened
<1>4. CASE ReceivePage
  <2> DEFINE msg == Head(wire)
  <2>1. /\ wire # <<>> /\ wire' = Tail(wire) /\ Emit(Ids(msg), {}) /\ cursor' = msg.to
        /\ request' \in {Request("events_since", msg.to), Request("attach", msg.to)}
        /\ phase' \in {phase, "attaching"}
        /\ UNCHANGED <<recorded, conn, subscribed, queue, reply, pendingLive, page, failures, losses>>
    BY <1>4 DEF ReceivePage
  <2>2. msg \in Known /\ msg \in Message /\ wire' \in Seq(Known) /\ wire' \in Seq(Message) /\ Len(wire') <= WireMax
    BY <2>1, TakeType
  <2>3. msg.to \in Nat
    BY <2>2 DEF Message
  <2>4. Ids(msg) \in SUBSET (0..recorded)
    BY <2>2, IdsKnown DEF StreamTypeInv
  <2>5. sse' \in Seq(Batch) /\ emitted' \subseteq Nat
    BY <2>1, <2>4, EmitType
  <2>6. TypeOK'
    <3> HIDE DEF msg
    <3> QED
      BY <1>3, <2>1, <2>2, <2>3, <2>5 DEF StreamTypeInv, TypeOK, Request, Phase, page, losses
  <2> QED
    BY <1>1, <2>1, <2>2, <2>5, <2>6 DEF StreamTypeInv, page
<1>5. CASE ReceiveAttach
  <2>1. /\ wire # <<>> /\ wire' = Tail(wire) /\ reply' = Head(wire)
        /\ UNCHANGED <<recorded, conn, subscribed, queue, request, phase, cursor,
                       pendingLive, emitted, sse, page, failures, losses>>
    BY <1>5 DEF ReceiveAttach
  <2>2. /\ reply' \in Known /\ reply' \in Message
        /\ wire' \in Seq(Known) /\ wire' \in Seq(Message) /\ Len(wire') <= WireMax
    BY <2>1, TakeType
  <2>3. TypeOK'
    BY <2>1, <2>2 DEF StreamTypeInv, TypeOK, page, losses
  <2> QED
    BY <1>1, <2>1, <2>2, <2>3 DEF StreamTypeInv, page
<1>6. CASE ReceiveLive
  <2>1. /\ wire # <<>> /\ wire' = Tail(wire)
        /\ \/ Emit(Ids(Head(wire)), {}) /\ UNCHANGED pendingLive
           \/ /\ pendingLive' = pendingLive \cup {Head(wire).to} /\ Head(wire).kind = "event"
              /\ UNCHANGED <<sse, emitted>>
        /\ UNCHANGED <<recorded, conn, subscribed, queue, request, phase, cursor,
                       reply, page, failures, losses>>
    BY <1>6 DEF ReceiveLive
  <2>2. /\ Head(wire) \in Known
        /\ wire' \in Seq(Known) /\ wire' \in Seq(Message) /\ Len(wire') <= WireMax
    BY <2>1, TakeType
  <2>3. Ids(Head(wire)) \in SUBSET (0..recorded)
    BY <2>2, IdsKnown DEF StreamTypeInv
  <2>4. sse' \in Seq(Batch) /\ emitted' \subseteq Nat
    BY <2>1, <2>3, EmitType DEF StreamTypeInv, TypeOK
  <2>7. Head(wire).to \in 0..recorded
    BY <2>2 DEF StreamTypeInv, TypeOK, Known, Message
  <2>5. pendingLive' \subseteq 0..recorded
    BY <2>1, <2>7 DEF StreamTypeInv
  <2>6. TypeOK'
    BY <1>3, <2>1, <2>2, <2>4, <2>5 DEF StreamTypeInv, TypeOK, page, losses
  <2> QED
    BY <1>1, <2>1, <2>2, <2>4, <2>5, <2>6 DEF StreamTypeInv, page
<1>7. CASE GoLive
  <2>1. /\ reply # NoReply /\ Emit(Ids(reply), pendingLive)
        /\ phase' = "live" /\ reply' = NoReply /\ pendingLive' = {}
        /\ UNCHANGED <<recorded, connection, cursor, page, failures, losses>>
    BY <1>7 DEF GoLive
  <2>2. reply \in Known
    BY <2>1 DEF StreamTypeInv
  <2>3. Ids(reply) \in SUBSET (0..recorded) /\ pendingLive \in SUBSET (0..recorded)
    BY <2>2, IdsKnown DEF StreamTypeInv
  <2>4. sse' \in Seq(Batch) /\ emitted' \subseteq Nat
    BY <2>1, <2>3, EmitType
  <2>5. TypeOK'
    BY <1>3, <2>1, <2>4 DEF StreamTypeInv, TypeOK, connection, page, losses, Phase
  <2> QED
    BY <1>1, <2>1, <2>4, <2>5 DEF StreamTypeInv, connection, page
<1> QED
  BY <1>4, <1>5, <1>6, <1>7 DEF Receive

LEMMA ShowType ==
  ASSUME StreamTypeInv, Show
  PROVE  StreamTypeInv'
<1>1. PICK n \in Head(sse) :
        /\ sse' = IF Head(sse) = {n} THEN Tail(sse) ELSE [sse EXCEPT ![1] = @ \ {n}]
        /\ IF n <= lastSequence
           THEN UNCHANGED page
           ELSE /\ lastSequence' = n
                /\ missed' = missed \cup (lastSequence + 1)..(n - 1)
  BY DEF Show
<1>2. UNCHANGED <<recorded, connection, gateway, failures, losses>> /\ sse # <<>>
  BY DEF Show
<1>3. Known' = Known /\ Batch' = Batch /\ Batch \subseteq SUBSET Nat
  BY <1>2 DEF Known, Batch
<1>4. Head(sse) \in Batch /\ sse \in Seq(Batch) /\ Head(sse) = sse[1]
  BY <1>2 DEF StreamTypeInv
<1>5. n \in 0..recorded
  BY <1>1, <1>4 DEF Batch
<1>6. Head(sse) # {n} => Head(sse) \ {n} \in Batch
  BY <1>1, <1>4 DEF Batch
<1>7. sse' \in Seq(Batch)
  <2> HIDE DEF Batch
  <2>1. CASE Head(sse) = {n}
    BY <1>1, <1>2, <1>4, <2>1
  <2>2. CASE Head(sse) # {n}
    BY <1>1, <1>2, <1>4, <1>6, <2>2
  <2> QED
    BY <2>1, <2>2
<1>8. sse' \in Seq(SUBSET Nat)
  BY <1>3, <1>7, Widened
<1>9. lastSequence' \in Nat /\ lastSequence' <= recorded /\ missed' \subseteq Nat
  <2>1. recorded \in Nat /\ lastSequence \in Nat /\ missed \subseteq Nat /\ lastSequence <= recorded
    BY DEF StreamTypeInv, TypeOK
  <2>2. CASE n <= lastSequence
    BY <1>1, <2>1, <2>2 DEF page
  <2>3. CASE ~(n <= lastSequence)
    <3>1. (lastSequence + 1)..(n - 1) \subseteq Nat
      BY <1>5, <2>1
    <3>2. missed' \subseteq Nat
      BY <1>1, <2>1, <2>3, <3>1
    <3>3. lastSequence' = n
      BY <1>1, <2>3
    <3> QED
      BY <1>5, <2>1, <3>2, <3>3
  <2> QED
    BY <2>2, <2>3
<1>10. TypeOK'
  BY <1>2, <1>8, <1>9 DEF StreamTypeInv, TypeOK, connection, gateway, losses
<1> QED
  BY <1>2, <1>3, <1>7, <1>9, <1>10 DEF StreamTypeInv, connection, gateway

LEMMA StreamTypeReachable == Spec => []StreamTypeInv
<1>1. Init => StreamTypeInv
  <2> SUFFICES ASSUME Init PROVE StreamTypeInv
    OBVIOUS
  <2>1. <<>> \in Seq(Known) /\ <<>> \in Seq(Message) /\ <<>> \in Seq(Batch) /\ <<>> \in Seq(SUBSET Nat)
        /\ Len(<<>>) = 0
    OBVIOUS
  <2>2. 0 <= QueueMax /\ 0 <= WireMax /\ 0 \in 0..MaxEvents /\ 0 \in 0..MaxFailures
    BY EventStreamAssumption
  <2>3. TypeOK
    BY <2>1, <2>2 DEF Init, TypeOK, NoRequest, Phase
  <2> QED
    BY <2>1, <2>3 DEF Init, StreamTypeInv
<1>2. StreamTypeInv /\ [Next]_vars => StreamTypeInv'
  <2> SUFFICES ASSUME StreamTypeInv, [Next]_vars PROVE StreamTypeInv'
    OBVIOUS
  <2>1. CASE CloseDone \/ DaemonFails \/ BrowserFails
    <3>1. Disconnect /\ UNCHANGED <<recorded, lastSequence, missed, truncated, overflowed>>
      BY <2>1 DEF CloseDone, DaemonFails, BrowserFails, page, losses
    <3>2. failures' \in 0..MaxFailures
      BY <2>1, EventStreamAssumption DEF CloseDone, DaemonFails, BrowserFails, StreamTypeInv, TypeOK
    <3>3. sse' = sse \/ sse' = <<>>
      BY <2>1 DEF CloseDone, DaemonFails, BrowserFails
    <3> QED
      BY <3>1, <3>2, <3>3, DisconnectType
  <2>2. CASE UNCHANGED vars
    BY <2>2 DEF vars, connection, gateway, page, losses, StreamTypeInv, TypeOK, Known, Batch
  <2> QED
    BY <2>1, <2>2, RecordType, OpenType, ServeType, WriteType, ReceiveType, ShowType DEF Next, Serve
<1> QED
  BY <1>1, <1>2, PTL DEF Spec

(* The variables of the stream have their types, and queue and wire keep   *)
(* their limits: TypeOK of EventStream.                                    *)
THEOREM TypeCorrect == Spec => []TypeOK
<1>1. StreamTypeInv => TypeOK
  BY DEF StreamTypeInv
<1> QED
  BY <1>1, StreamTypeReachable, PTL

-----------------------------------------------------------------------------
(* The channel as one sequence: it grows at the queue's end, shrinks at the*)
(* wire's head and is not changed by what moves from queue to wire.        *)

LEMMA ChannelGrows ==
  ASSUME NEW S, NEW w \in Seq(S), NEW q \in Seq(S), NEW msg \in S
  PROVE  w \o Append(q, msg) = Append(w \o q, msg)
<1>1. /\ w \o Append(q, msg) \in Seq(S) /\ Append(w \o q, msg) \in Seq(S)
      /\ Len(w \o Append(q, msg)) = Len(Append(w \o q, msg))
  OBVIOUS
<1>2. \A i \in 1..Len(w \o Append(q, msg)) : (w \o Append(q, msg))[i] = Append(w \o q, msg)[i]
  OBVIOUS
<1> QED
  BY <1>1, <1>2, SeqEqual

LEMMA ChannelMoves ==
  ASSUME NEW S, NEW w \in Seq(S), NEW q \in Seq(S), q # <<>>
  PROVE  Append(w, Head(q)) \o Tail(q) = w \o q
<1>1. Head(q) \in S /\ Tail(q) \in Seq(S) /\ Len(Tail(q)) = Len(q) - 1
      /\ Head(q) = q[1] /\ Len(q) \in Nat \ {0} /\ Len(w) \in Nat
  OBVIOUS
<1>2. \A i \in 1..Len(Tail(q)) : Tail(q)[i] = q[i + 1]
  BY <1>1
<1>3. /\ Append(w, Head(q)) \in Seq(S)
      /\ Append(w, Head(q)) \o Tail(q) \in Seq(S) /\ w \o q \in Seq(S)
      /\ Len(Append(w, Head(q)) \o Tail(q)) = Len(w \o q)
      /\ Len(w \o q) = Len(w) + Len(q)
  BY <1>1
<1>4. ASSUME NEW i \in 1..Len(w \o q)
      PROVE  (Append(w, Head(q)) \o Tail(q))[i] = (w \o q)[i]
  <2>1. CASE i <= Len(w)
    BY <1>1, <1>3, <2>1
  <2>2. CASE i = Len(w) + 1
    BY <1>1, <1>3, <2>2
  <2>3. CASE i > Len(w) + 1
    <3>1. (Append(w, Head(q)) \o Tail(q))[i] = Tail(q)[i - (Len(w) + 1)]
      BY <1>1, <1>3, <2>3
    <3>2. Tail(q)[i - (Len(w) + 1)] = q[i - Len(w)]
      BY <1>1, <1>2, <1>3, <2>3
    <3>3. (w \o q)[i] = q[i - Len(w)]
      BY <1>1, <1>3, <2>3
    <3> QED
      BY <3>1, <3>2, <3>3
  <2> QED
    BY <1>1, <1>3, <2>1, <2>2, <2>3
<1> QED
  BY <1>3, <1>4, SeqEqual

LEMMA ChannelShrinks ==
  ASSUME NEW S, NEW w \in Seq(S), NEW q \in Seq(S), w # <<>>
  PROVE  /\ w \o q \in Seq(S) /\ w \o q # <<>>
         /\ Head(w \o q) = Head(w) /\ Tail(w \o q) = Tail(w) \o q
<1>1. Tail(w) \in Seq(S) /\ Len(Tail(w)) = Len(w) - 1 /\ Head(w) = w[1] /\ Len(w) \in Nat \ {0}
      /\ Len(q) \in Nat
  OBVIOUS
<1>2. \A i \in 1..Len(Tail(w)) : Tail(w)[i] = w[i + 1]
  BY <1>1
<1>3. w \o q \in Seq(S) /\ Len(w \o q) = Len(w) + Len(q) /\ w \o q # <<>>
  BY <1>1
<1>4. Head(w \o q) = Head(w)
  BY <1>1, <1>3
<1>5. /\ Tail(w \o q) \in Seq(S) /\ Tail(w) \o q \in Seq(S)
      /\ Len(Tail(w \o q)) = Len(w) + Len(q) - 1
      /\ Len(Tail(w) \o q) = Len(w) + Len(q) - 1
      /\ \A i \in 1..Len(Tail(w \o q)) : Tail(w \o q)[i] = (w \o q)[i + 1]
  BY <1>1, <1>3
<1>6. ASSUME NEW i \in 1..(Len(w) + Len(q) - 1)
      PROVE  Tail(w \o q)[i] = (Tail(w) \o q)[i]
  <2>1. Tail(w \o q)[i] = (w \o q)[i + 1]
    BY <1>5
  <2>2. CASE i <= Len(w) - 1
    BY <1>1, <1>2, <1>3, <2>1, <2>2
  <2>3. CASE i > Len(w) - 1
    <3>1. (Tail(w) \o q)[i] = q[i - (Len(w) - 1)]
      BY <1>1, <2>3
    <3>2. (w \o q)[i + 1] = q[i + 1 - Len(w)]
      BY <1>1, <2>3
    <3> QED
      BY <1>1, <2>1, <3>1, <3>2
  <2> QED
    BY <1>1, <2>2, <2>3
<1>7. Tail(w \o q) = Tail(w) \o q
  BY <1>5, <1>6, SeqEqual
<1> QED
  BY <1>3, <1>4, <1>7

LEMMA ChannelType ==
  ASSUME StreamTypeInv
  PROVE  Channel \in Seq(Known)
BY DEF StreamTypeInv, Channel

LEMMA ChannelStep ==
  ASSUME StreamTypeInv
  PROVE  /\ \A msg : queue' = Append(queue, msg) /\ UNCHANGED wire => Channel' = Append(Channel, msg)
         /\ WriteNext => Channel' = Channel
         /\ wire # <<>> => Channel # <<>> /\ Head(Channel) = Head(wire)
         /\ wire # <<>> /\ wire' = Tail(wire) /\ UNCHANGED queue => Channel' = Tail(Channel)
<1>1. wire \in Seq(Known) /\ queue \in Seq(Known)
  BY DEF StreamTypeInv
<1>2. ASSUME NEW msg, queue' = Append(queue, msg), UNCHANGED wire
      PROVE  Channel' = Append(Channel, msg)
  <2>1. wire \in Seq(Known \cup {msg}) /\ queue \in Seq(Known \cup {msg}) /\ msg \in Known \cup {msg}
    BY <1>1, Widened
  <2> QED
    BY <1>2, <2>1, ChannelGrows DEF Channel
<1>3. ASSUME WriteNext PROVE Channel' = Channel
  BY <1>1, <1>3, ChannelMoves DEF WriteNext, Channel
<1>4. ASSUME wire # <<>> PROVE Channel # <<>> /\ Head(Channel) = Head(wire)
  BY <1>1, <1>4, ChannelShrinks DEF Channel
<1>5. ASSUME wire # <<>>, wire' = Tail(wire), UNCHANGED queue PROVE Channel' = Tail(Channel)
  BY <1>1, <1>5, ChannelShrinks DEF Channel
<1> QED
  BY <1>2, <1>3, <1>4, <1>5

-----------------------------------------------------------------------------
(* What the channel holds as events join it and leave it,                  *)

LEMMA ContinuesGrows ==
  ASSUME NEW S, NEW c \in Seq(S), NEW msg \in S, NEW from \in Nat, NEW to \in Nat,
         Continues(c, from, to), IsEvent(msg, to + 1)
  PROVE  Continues(Append(c, msg), from, to + 1)
<1>1. Len(Append(c, msg)) = Len(c) + 1 /\ DOMAIN Append(c, msg) = 1..(Len(c) + 1) /\ Len(c) \in Nat
      /\ DOMAIN c = 1..Len(c)
  OBVIOUS
<1>2. \A i \in 1..Len(c) : Append(c, msg)[i] = c[i]
  OBVIOUS
<1>3. Append(c, msg)[Len(c) + 1] = msg
  OBVIOUS
<1>4. from + Len(c) = to /\ from + (Len(c) + 1) = to + 1
  BY <1>1 DEF Continues
<1>5. ASSUME NEW i \in 1..(Len(c) + 1) PROVE IsEvent(Append(c, msg)[i], from + i)
  <2>1. CASE i \in 1..Len(c)
    BY <1>1, <1>2, <2>1 DEF Continues
  <2>2. CASE i = Len(c) + 1
    BY <1>3, <1>4, <2>2
  <2> QED
    BY <1>1, <2>1, <2>2
<1> QED
  BY <1>1, <1>4, <1>5 DEF Continues

LEMMA ContinuesTaken ==
  ASSUME NEW S, NEW c \in Seq(S), NEW from \in Nat, NEW to \in Nat,
         Continues(c, from, to), c # <<>>
  PROVE  IsEvent(Head(c), from + 1) /\ Continues(Tail(c), from + 1, to)
<1>1. /\ Len(c) \in Nat \ {0} /\ Head(c) = c[1] /\ DOMAIN c = 1..Len(c)
      /\ Len(Tail(c)) = Len(c) - 1 /\ DOMAIN Tail(c) = 1..(Len(c) - 1)
      /\ \A i \in 1..(Len(c) - 1) : Tail(c)[i] = c[i + 1]
  OBVIOUS
<1>2. IsEvent(Head(c), from + 1)
  BY <1>1 DEF Continues
<1>3. from + 1 + Len(Tail(c)) = to
  BY <1>1 DEF Continues
<1>4. ASSUME NEW i \in 1..(Len(c) - 1) PROVE IsEvent(Tail(c)[i], from + 1 + i)
  <2>1. IsEvent(c[i + 1], from + (i + 1)) /\ from + (i + 1) = from + 1 + i
    BY <1>1 DEF Continues
  <2> QED
    BY <1>1, <2>1
<1> QED
  BY <1>1, <1>2, <1>3, <1>4 DEF Continues

(* and what the browser's batches hold as one joins them                   *)
LEMMA JoinedContiguous ==
  ASSUME NEW batches \in Seq(SUBSET Nat), NEW cur \in Nat, NEW top \in Nat, NEW high \in Nat,
         cur <= top, top <= high, Contiguous(batches, cur, top)
  PROVE  /\ Contiguous(Joined(batches, (top + 1)..high), cur, high)
         /\ Joined(batches, (top + 1)..high) \in Seq(SUBSET Nat)
<1> DEFINE ids == (top + 1)..high
           after == Append(batches, ids)
<1>1. CASE ids = {}
  <2>1. top = high
    BY <1>1
  <2> QED
    BY <1>1, <2>1 DEF Joined
<1>2. CASE ids # {}
  <2>1. /\ Len(batches) \in Nat /\ after \in Seq(SUBSET Nat)
        /\ DOMAIN batches = 1..Len(batches) /\ DOMAIN after = 1..(Len(batches) + 1)
        /\ \A i \in 1..Len(batches) : after[i] = batches[i]
        /\ after[Len(batches) + 1] = ids
    OBVIOUS
  <2>2. ASSUME NEW n \in Nat
        PROVE  (\E i \in DOMAIN after : n \in after[i]) <=> cur < n /\ n <= high
    <3>1. (\E i \in DOMAIN batches : n \in batches[i]) <=> cur < n /\ n <= top
      BY DEF Contiguous
    <3>2. (\E i \in DOMAIN after : n \in after[i]) <=>
            (\E i \in DOMAIN batches : n \in batches[i]) \/ n \in ids
      <4> HIDE DEF after, ids
      <4> QED
        BY <2>1
    <3> QED
      BY <3>1, <3>2
  <2>3. ASSUME NEW i \in DOMAIN after, NEW j \in DOMAIN after, i < j,
               NEW m \in after[i], NEW n \in after[j]
        PROVE  m < n
    <3>1. CASE j \in DOMAIN batches
      <4>1. i \in DOMAIN batches
        BY <2>1, <2>3, <3>1
      <4> QED
        BY <2>1, <2>3, <3>1, <4>1 DEF Contiguous
    <3>2. CASE j = Len(batches) + 1
      <4>1. i \in DOMAIN batches /\ after[i] = batches[i] /\ m \in Nat
        BY <2>1, <2>3, <3>2
      <4>2. m <= top
        BY <4>1 DEF Contiguous
      <4>3. n \in (top + 1)..high
        BY <2>1, <3>2
      <4> QED
        BY <4>1, <4>2, <4>3
    <3> QED
      BY <2>1, <3>1, <3>2
  <2>4. Contiguous(after, cur, high)
    <3> HIDE DEF after
    <3> QED
      BY <2>2, <2>3 DEF Contiguous
  <2> QED
    BY <1>2, <2>1, <2>4 DEF Joined
<1> QED
  BY <1>1, <1>2

(* and as the page takes the first event of the first batch.               *)
LEMMA ShownContiguous ==
  ASSUME NEW batches \in Seq(SUBSET Nat), NEW cur \in Nat, NEW top \in Nat,
         Contiguous(batches, cur, top), batches # <<>>,
         \A i \in DOMAIN batches : batches[i] # {},
         NEW n \in Head(batches), \A m \in Head(batches) : n <= m
  PROVE  /\ n = cur + 1 /\ n <= top
         /\ Contiguous(IF Head(batches) = {n} THEN Tail(batches)
                       ELSE [batches EXCEPT ![1] = @ \ {n}], n, top)
<1>1. /\ Len(batches) \in Nat \ {0} /\ Head(batches) = batches[1] /\ DOMAIN batches = 1..Len(batches)
      /\ Len(Tail(batches)) = Len(batches) - 1 /\ DOMAIN Tail(batches) = 1..(Len(batches) - 1)
      /\ \A i \in 1..(Len(batches) - 1) : Tail(batches)[i] = batches[i + 1]
      /\ \A i \in DOMAIN batches : batches[i] \subseteq Nat
  OBVIOUS
<1>2. n \in Nat /\ cur < n /\ n <= top
  BY <1>1 DEF Contiguous
<1>3. PICK i \in DOMAIN batches : cur + 1 \in batches[i]
  BY <1>2 DEF Contiguous
<1>4. n = cur + 1
  <2>1. CASE i = 1
    BY <1>1, <1>2, <1>3, <2>1
  <2>2. CASE i # 1
    <3>1. 1 < i
      BY <1>1, <2>2
    <3>2. n < cur + 1
      BY <1>1, <1>3, <3>1 DEF Contiguous
    <3> QED
      BY <1>2, <3>2
  <2> QED
    BY <2>1, <2>2
<1>5. \A j \in DOMAIN batches : j # 1 => n \notin batches[j]
  <2> SUFFICES ASSUME NEW j \in DOMAIN batches, j # 1, n \in batches[j] PROVE FALSE
    OBVIOUS
  <2>1. 1 < j
    BY <1>1
  <2>2. n < n
    BY <1>1, <2>1 DEF Contiguous
  <2> QED
    BY <1>2, <2>2
<1>6. CASE Head(batches) = {n}
  <2>1. ASSUME NEW k \in Nat
        PROVE  (\E j \in DOMAIN Tail(batches) : k \in Tail(batches)[j]) <=> n < k /\ k <= top
    <3>1. (\E j \in DOMAIN batches : k \in batches[j]) <=> cur < k /\ k <= top
      BY DEF Contiguous
    <3>2. (\E j \in DOMAIN Tail(batches) : k \in Tail(batches)[j]) <=>
            (\E j \in DOMAIN batches : j # 1 /\ k \in batches[j])
      <4>1. \A j \in DOMAIN batches : j # 1 => /\ j - 1 \in DOMAIN Tail(batches)
                                               /\ Tail(batches)[j - 1] = batches[j]
        BY <1>1
      <4>2. \A j \in DOMAIN Tail(batches) : /\ j + 1 \in DOMAIN batches /\ j + 1 # 1
                                           /\ Tail(batches)[j] = batches[j + 1]
        BY <1>1
      <4> QED
        BY <4>1, <4>2
    <3>3. (\E j \in DOMAIN batches : j # 1 /\ k \in batches[j]) <=>
            k # n /\ (\E j \in DOMAIN batches : k \in batches[j])
      BY <1>1, <1>5, <1>6
    <3> QED
      BY <1>2, <1>4, <3>1, <3>2, <3>3
  <2>2. ASSUME NEW a \in DOMAIN Tail(batches), NEW b \in DOMAIN Tail(batches), a < b,
               NEW k \in Tail(batches)[a], NEW l \in Tail(batches)[b]
        PROVE  k < l
    <3>1. /\ a + 1 \in DOMAIN batches /\ b + 1 \in DOMAIN batches /\ a + 1 < b + 1
          /\ k \in batches[a + 1] /\ l \in batches[b + 1]
      BY <1>1, <2>2
    <3> QED
      BY <3>1 DEF Contiguous
  <2> QED
    BY <1>2, <1>4, <1>6, <2>1, <2>2 DEF Contiguous
<1>7. CASE Head(batches) # {n}
  <2> DEFINE rest == [batches EXCEPT ![1] = @ \ {n}]
  <2>1. /\ DOMAIN rest = DOMAIN batches /\ rest[1] = batches[1] \ {n}
        /\ \A j \in DOMAIN batches : j # 1 => rest[j] = batches[j]
    BY <1>1
  <2> HIDE DEF rest
  <2>2. \A j \in DOMAIN batches : \A k : k \in rest[j] <=> k \in batches[j] /\ k # n
    BY <1>5, <2>1
  <2>3. ASSUME NEW k \in Nat
        PROVE  (\E j \in DOMAIN rest : k \in rest[j]) <=> n < k /\ k <= top
    <3>1. (\E j \in DOMAIN batches : k \in batches[j]) <=> cur < k /\ k <= top
      BY DEF Contiguous
    <3> QED
      BY <1>2, <1>4, <2>1, <2>2, <3>1
  <2>4. ASSUME NEW a \in DOMAIN rest, NEW b \in DOMAIN rest, a < b,
               NEW k \in rest[a], NEW l \in rest[b]
        PROVE  k < l
    BY <2>1, <2>2, <2>4 DEF Contiguous
  <2>5. Contiguous(rest, n, top)
    BY <2>3, <2>4 DEF Contiguous
  <2> QED
    BY <1>2, <1>4, <1>7, <2>5 DEF rest
<1> QED
  BY <1>6, <1>7

-----------------------------------------------------------------------------
(* The steps, until a burst was too large.                                 *)

LEMMA EmittedFrame ==
  ASSUME NEW top, EmittedTo(top), UNCHANGED <<recorded, lastSequence, sse, emitted>>
  PROVE  EmittedTo(top)'
BY DEF EmittedTo

(* Consecutive events that are emitted go on from those before.            *)
LEMMA EmittedOn ==
  ASSUME StreamTypeInv, NEW top \in Nat, NEW mid \in Nat, NEW high \in Nat, EmittedTo(top),
         top <= mid, mid <= high, high <= recorded,
         Emit((top + 1)..mid, (mid + 1)..high), UNCHANGED <<recorded, lastSequence>>
  PROVE  EmittedTo(high)'
<1>1. lastSequence \in Nat /\ recorded \in Nat /\ sse \in Seq(SUBSET Nat) /\ emitted \subseteq Nat
  BY DEF StreamTypeInv, TypeOK
<1>2. \A n \in emitted : n <= top
  BY DEF EmittedTo
<1>3. ((top + 1)..mid) \ emitted = (top + 1)..mid
  BY <1>1, <1>2
<1>4. ((mid + 1)..high) \ (emitted \cup (top + 1)..mid) = (mid + 1)..high
  BY <1>1, <1>2
<1>5. sse' = Joined(Joined(sse, (top + 1)..mid), (mid + 1)..high)
  BY <1>3, <1>4 DEF Emit
<1>6. /\ Contiguous(Joined(sse, (top + 1)..mid), lastSequence, mid)
      /\ Joined(sse, (top + 1)..mid) \in Seq(SUBSET Nat)
  BY <1>1, JoinedContiguous DEF EmittedTo
<1>7. Contiguous(sse', lastSequence, high)
  <2>1. lastSequence <= mid
    BY <1>1 DEF EmittedTo
  <2> QED
    BY <1>1, <1>5, <1>6, <2>1, JoinedContiguous
<1>8. emitted' = emitted \cup (top + 1)..mid \cup (mid + 1)..high
  BY DEF Emit
<1>9. \A n \in emitted' : n <= high
  BY <1>1, <1>2, <1>8
<1>10. lastSequence <= high
  BY <1>1 DEF EmittedTo
<1> QED
  BY <1>7, <1>9, <1>10 DEF EmittedTo

LEMMA RecordStream ==
  ASSUME StreamTypeInv, NEW top \in Nat, EmittedTo(top), Progress(top), Record, ~overflowed'
  PROVE  EmittedTo(top)' /\ Progress(top)'
<1> DEFINE msg == Msg("event", recorded, recorded + 1, FALSE)
<1>1. /\ recorded' = recorded + 1 /\ recorded \in Nat
      /\ UNCHANGED <<subscribed, wire, request, phase, cursor, reply, pendingLive, emitted,
                     sse, lastSequence>>
  BY DEF Record, gateway, page, StreamTypeInv, TypeOK
<1>2. EmittedTo(top)'
  BY <1>1 DEF EmittedTo, StreamTypeInv, TypeOK
<1>3. CASE ~subscribed
  <2>1. UNCHANGED <<queue, conn>>
    BY <1>3 DEF Record
  <2>2. Channel' = Channel
    BY <1>1, <2>1 DEF Channel
  <2> QED
    BY <1>1, <1>2, <1>3, <2>1, <2>2
       DEF Progress, NoConnection, NextPage, Attaching, Attached, HeldBack, Live
<1>4. CASE subscribed
  <2>1. queue' = Append(queue, msg) /\ conn' = conn
    BY <1>4 DEF Record, Broadcast
  <2>2. Channel' = Append(Channel, msg)
    <3> HIDE DEF msg
    <3> QED
      BY <1>1, <2>1, ChannelStep
  <2>3. IsEvent(msg, recorded + 1)
    BY <1>1 DEF IsEvent, Msg
  <2> HIDE DEF msg
  <2>4. Channel \in Seq(Known \cup {msg}) /\ msg \in Known \cup {msg}
    BY ChannelType, Widened
  <2>5. \A from \in Nat : Continues(Channel, from, recorded) => Continues(Channel', from, recorded')
    BY <1>1, <2>2, <2>3, <2>4, ContinuesGrows
  <2>6. phase \notin {"idle", "paging"}
    BY <1>4 DEF Progress, NoConnection, NextPage
  <2>7. CASE phase = "live"
    <3>1. Live(top)'
      BY <1>1, <2>1, <2>5, <2>7 DEF Progress, Live
    <3> QED
      BY <1>1, <1>2, <2>7, <3>1 DEF Progress
  <2>8. CASE phase = "attaching" /\ reply # NoReply
    <3>1. HeldBack(top)'
      BY <1>1, <2>1, <2>5, <2>8 DEF Progress, HeldBack
    <3> QED
      BY <1>1, <1>2, <2>8, <3>1 DEF Progress
  <2>9. CASE phase = "attaching" /\ reply = NoReply
    <3>1. Attached(top)
      BY <1>4, <2>9 DEF Progress, Attaching
    <3>2. /\ Channel' # <<>> /\ Head(Channel') = Head(Channel)
          /\ Tail(Channel') = Append(Tail(Channel), msg)
          /\ Head(Channel) \in Known \cup {msg} /\ Tail(Channel) \in Seq(Known \cup {msg})
      BY <2>2, <2>4, <3>1 DEF Attached
    <3>3. Head(Channel) \in Known
      BY <3>1, ChannelType DEF Attached
    <3>4. Head(Channel).to \in Nat
      BY <3>3 DEF Known, Message
    <3>5. Continues(Tail(Channel'), Head(Channel').to, recorded')
      BY <1>1, <2>3, <2>4, <3>1, <3>2, <3>4, ContinuesGrows DEF Attached
    <3>6. Attached(top)'
      BY <1>1, <2>1, <3>1, <3>2, <3>5 DEF Attached
    <3> QED
      BY <1>1, <1>2, <2>9, <3>6 DEF Progress, Attaching
  <2>10. phase \in Phase
    BY DEF StreamTypeInv, TypeOK
  <2> QED
    BY <2>6, <2>7, <2>8, <2>9, <2>10 DEF Phase
<1> QED
  BY <1>3, <1>4

LEMMA ServeStream ==
  ASSUME StreamTypeInv, NEW top \in Nat, EmittedTo(top), Progress(top),
         ServePage \/ ServeAttach, ~truncated'
  PROVE  EmittedTo(top)' /\ Progress(top)'
<1>0. phase \in Phase /\ recorded \in Nat /\ PageLimit \in Nat \ {0}
  BY EventStreamAssumption DEF StreamTypeInv, TypeOK
<1>1. /\ UNCHANGED <<recorded, conn, wire, phase, cursor, reply, pendingLive, emitted,
                     sse, lastSequence>>
      /\ request.action # "none" /\ request' = NoRequest
  BY DEF ServePage, ServeAttach, gateway, page
<1>2. EmittedTo(top)'
  BY <1>1, EmittedFrame
<1>3. request # NoRequest
  BY <1>1 DEF NoRequest
<1>4. CASE ServePage
  <2> DEFINE msg == EventsSince("page", top)
  <2>1. request.action = "events_since" /\ subscribed' = subscribed
        /\ queue' = Append(queue, EventsSince("page", request.last))
    BY <1>4 DEF ServePage
  <2>2. phase = "paging" /\ request = Request("events_since", top) /\ Channel = <<>>
        /\ conn = "open" /\ ~subscribed /\ cursor = top /\ reply = NoReply
    BY <1>0, <1>3, <2>1
       DEF Progress, NoConnection, NextPage, Attaching, Attached, HeldBack, Live, Request, Phase
  <2>3. queue' = Append(queue, msg)
    BY <2>1, <2>2 DEF Request
  <2>4. msg.kind = "page" /\ msg.from = top /\ top <= msg.to
    BY <1>0 DEF EventsSince, Msg, EmittedTo
  <2> HIDE DEF msg
  <2>5. Channel' = Append(<<>>, msg)
    BY <1>1, <2>2, <2>3, ChannelStep
  <2>6. Len(Channel') = 1 /\ Channel'[1] = msg
    BY <2>5
  <2>7. NextPage(top)'
    BY <1>1, <2>1, <2>2, <2>4, <2>6 DEF NextPage
  <2> QED
    BY <1>1, <1>2, <2>2, <2>7 DEF Progress
<1>5. CASE ServeAttach
  <2> DEFINE msg == EventsSince("attach", top)
  <2>1. request.action = "attach" /\ subscribed'
        /\ queue' = Append(queue, EventsSince("attach", request.last))
        /\ truncated' = (truncated \/ EventsSince("attach", request.last).more)
    BY <1>5 DEF ServeAttach
  <2>2. phase = "attaching" /\ reply = NoReply /\ request = Request("attach", top) /\ Channel = <<>>
        /\ conn = "open" /\ cursor = top
    BY <1>0, <1>3, <2>1
       DEF Progress, NoConnection, NextPage, Attaching, Attached, HeldBack, Live, Request, Phase
  <2>3. queue' = Append(queue, msg) /\ ~msg.more
    BY <2>1, <2>2 DEF Request
  <2>4. msg.kind = "attach" /\ msg.from = top /\ msg.to = recorded /\ top <= recorded
    BY <1>0, <2>3 DEF EventsSince, Msg, EmittedTo
  <2> HIDE DEF msg
  <2>5. Channel' = Append(<<>>, msg)
    BY <1>1, <2>2, <2>3, ChannelStep
  <2>6. Channel' # <<>> /\ Head(Channel') = msg /\ Tail(Channel') = <<>>
    BY <2>5
  <2>7. Continues(<<>>, recorded, recorded)
    BY <1>0 DEF Continues
  <2>8. Attached(top)'
    BY <1>1, <2>1, <2>2, <2>4, <2>6, <2>7 DEF Attached
  <2> QED
    BY <1>1, <1>2, <2>2, <2>8 DEF Progress, Attaching
<1> QED
  BY <1>4, <1>5

LEMMA WriteStream ==
  ASSUME StreamTypeInv, NEW top \in Nat, EmittedTo(top), Progress(top), WriteNext
  PROVE  EmittedTo(top)' /\ Progress(top)'
<1>1. Channel' = Channel
  BY ChannelStep
<1>2. UNCHANGED <<recorded, conn, subscribed, request, phase, cursor, reply, pendingLive, emitted,
                  sse, lastSequence>>
  BY DEF WriteNext, gateway, page
<1>3. EmittedTo(top)'
  BY <1>2, EmittedFrame
<1> QED
  BY <1>1, <1>2, <1>3
     DEF Progress, NoConnection, NextPage, Attaching, Attached, HeldBack, Live

LEMMA OpenStream ==
  ASSUME StreamTypeInv, NEW top \in Nat, EmittedTo(top), Progress(top), Open
  PROVE  EmittedTo(top)' /\ Progress(top)'
<1>1. /\ UNCHANGED <<recorded, subscribed, queue, wire, reply, pendingLive, emitted, sse, lastSequence>>
      /\ phase = "idle" /\ conn' = "open" /\ phase' = "paging" /\ cursor' = lastSequence
      /\ request' = Request("events_since", lastSequence) /\ sse = <<>>
  BY DEF Open, page
<1>2. EmittedTo(top)'
  BY <1>1, EmittedFrame
<1>3. lastSequence = top
  <2>1. lastSequence \in Nat /\ lastSequence <= top
    BY DEF StreamTypeInv, TypeOK, EmittedTo
  <2>2. ~(lastSequence < top /\ top <= top)
    BY <1>1 DEF EmittedTo, Contiguous
  <2> QED
    BY <2>1, <2>2
<1>4. ~subscribed /\ Channel = <<>> /\ Channel' = Channel /\ reply = NoReply /\ pendingLive = {}
  BY <1>1 DEF Progress, NoConnection, Channel
<1>5. NextPage(top)'
  BY <1>1, <1>3, <1>4 DEF NextPage
<1> QED
  BY <1>1, <1>2, <1>4, <1>5 DEF Progress

(* A page takes the gateway to its last event.                             *)
LEMMA ReceivePageStream ==
  ASSUME StreamTypeInv, NEW top \in Nat, EmittedTo(top), Progress(top), ReceivePage
  PROVE  \E high \in Nat : EmittedTo(high)' /\ Progress(high)'
<1>1. PICK high : high = Head(wire).to
  OBVIOUS
<1>2. /\ phase = "paging" /\ wire # <<>> /\ wire' = Tail(wire)
      /\ Emit(Ids(Head(wire)), {}) /\ cursor' = high
      /\ \/ request' = Request("events_since", high) /\ UNCHANGED phase
         \/ request' = Request("attach", high) /\ phase' = "attaching"
      /\ UNCHANGED <<recorded, conn, subscribed, queue, reply, pendingLive, lastSequence>>
  BY <1>1 DEF ReceivePage, page
<1>3. Head(wire) \in Known
  BY <1>2, TakeType
<1>4. high \in Nat /\ high <= recorded /\ recorded \in Nat
  BY <1>1, <1>3 DEF Known, Message, StreamTypeInv, TypeOK
<1>5. Channel # <<>> /\ Head(Channel) = Head(wire) /\ Channel' = Tail(Channel)
  BY <1>2, ChannelStep
<1>6. NextPage(top)
  BY <1>2 DEF Progress
<1>7. Len(Channel) = 1 /\ Channel[1].from = top /\ top <= Channel[1].to /\ conn = "open" /\ ~subscribed
  BY <1>5, <1>6 DEF NextPage
<1>8. Head(wire).from = top /\ top <= high
  BY <1>1, <1>5, <1>7, ChannelType
<1>9. Channel' = <<>>
  BY <1>5, <1>7, ChannelType
<1>10. EmittedTo(high)'
  <2>1. Ids(Head(wire)) = (top + 1)..high /\ {} = (high + 1)..high
    BY <1>1, <1>4, <1>8 DEF Ids
  <2>2. Emit((top + 1)..high, (high + 1)..high)
    BY <1>2, <2>1
  <2> QED
    BY <1>2, <1>4, <1>8, <2>2, EmittedOn
<1>11. reply = NoReply /\ pendingLive = {}
  BY <1>2 DEF Progress
<1>12. CASE request' = Request("events_since", high) /\ UNCHANGED phase
  <2>1. NextPage(high)'
    BY <1>2, <1>7, <1>9, <1>12 DEF NextPage
  <2> QED
    BY <1>2, <1>4, <1>10, <1>11, <1>12, <2>1 DEF Progress
<1>13. CASE request' = Request("attach", high) /\ phase' = "attaching"
  <2>1. Attaching(high)'
    BY <1>2, <1>7, <1>9, <1>13 DEF Attaching
  <2> QED
    BY <1>2, <1>4, <1>10, <1>11, <1>13, <2>1 DEF Progress
<1> QED
  BY <1>2, <1>12, <1>13

(* What a head of the channel says of how far the gateway is.              *)
LEMMA HeadTells ==
  ASSUME StreamTypeInv, NEW top \in Nat, Progress(top), wire # <<>>
  PROVE  /\ Head(wire).kind = "attach" /\ phase = "attaching" => reply = NoReply /\ Attached(top)
         /\ Head(wire).kind = "event" =>
              phase = "live" \/ (phase = "attaching" /\ reply # NoReply)
<1>1. Channel # <<>> /\ Head(Channel) = Head(wire) /\ Channel \in Seq(Known)
  BY ChannelStep, ChannelType
<1>2. Head(Channel) = Channel[1] /\ 1 \in DOMAIN Channel
  BY <1>1
<1>3. ASSUME phase = "attaching", reply # NoReply PROVE Head(wire).kind = "event"
  <2>1. PICK held \in Nat : Continues(Channel, held, recorded)
    BY <1>3 DEF Progress, HeldBack
  <2> QED
    BY <1>1, <1>2, <2>1 DEF Continues, IsEvent
<1>4. ASSUME phase = "attaching", reply = NoReply PROVE Attached(top) /\ Head(wire).kind = "attach"
  BY <1>1, <1>4 DEF Progress, Attaching, Attached
<1>5. ASSUME phase = "paging" PROVE Head(wire).kind = "page"
  BY <1>1, <1>2, <1>5 DEF Progress, NextPage
<1>6. phase # "idle"
  BY <1>1 DEF Progress, NoConnection
<1>7. phase \in Phase
  BY DEF StreamTypeInv, TypeOK
<1> QED
  BY <1>3, <1>4, <1>5, <1>6, <1>7 DEF Phase

LEMMA ReceiveAttachStream ==
  ASSUME StreamTypeInv, NEW top \in Nat, EmittedTo(top), Progress(top), ReceiveAttach
  PROVE  EmittedTo(top)' /\ Progress(top)'
<1>1. /\ phase = "attaching" /\ wire # <<>> /\ Head(wire).kind = "attach"
      /\ reply' = Head(wire) /\ wire' = Tail(wire)
      /\ UNCHANGED <<recorded, conn, subscribed, queue, request, phase, cursor,
                     pendingLive, emitted, sse, lastSequence>>
  BY DEF ReceiveAttach, page
<1>2. EmittedTo(top)'
  BY <1>1, EmittedFrame
<1>3. reply = NoReply /\ Attached(top)
  BY <1>1, HeadTells
<1>4. pendingLive = {}
  BY <1>3 DEF Progress
<1>5. Head(Channel) = Head(wire) /\ Channel' = Tail(Channel)
  BY <1>1, ChannelStep
<1>6. PICK held : held = Head(wire).to
  OBVIOUS
<1>7. held \in Nat
  BY <1>1, <1>6, TakeType DEF Message
<1>8. /\ reply'.kind = "attach" /\ reply'.from = top /\ top <= reply'.to /\ reply'.to = held
      /\ Continues(Channel', held, recorded')
  BY <1>1, <1>3, <1>5, <1>6 DEF Attached
<1>9. (held + 1)..held = {}
  BY <1>7
<1>10. HeldBack(top)'
  <2>1. /\ reply'.to <= held /\ pendingLive' = (reply'.to + 1)..held
        /\ Continues(Channel', held, recorded')
    BY <1>1, <1>4, <1>7, <1>8, <1>9
  <2>2. conn' = "open" /\ subscribed' /\ request' = NoRequest
    BY <1>1, <1>3 DEF Attached
  <2> QED
    BY <1>7, <1>8, <2>1, <2>2 DEF HeldBack
<1>11. reply' # NoReply
  BY <1>8 DEF NoReply
<1> QED
  BY <1>1, <1>2, <1>10, <1>11 DEF Progress

(* An event is emitted, or held back behind the others.                    *)
LEMMA ReceiveLiveStream ==
  ASSUME StreamTypeInv, NEW top \in Nat, EmittedTo(top), Progress(top), ReceiveLive
  PROVE  \E high \in Nat : EmittedTo(high)' /\ Progress(high)'
<1>1. /\ wire # <<>> /\ Head(wire).kind = "event" /\ wire' = Tail(wire)
      /\ UNCHANGED <<recorded, conn, subscribed, queue, request, phase, cursor, reply, lastSequence>>
  BY DEF ReceiveLive, page
<1>2. phase = "live" \/ (phase = "attaching" /\ reply # NoReply)
  BY <1>1, HeadTells
<1>3. Channel # <<>> /\ Head(Channel) = Head(wire) /\ Channel' = Tail(Channel) /\ Channel \in Seq(Known)
  BY <1>1, ChannelStep, ChannelType
<1>4. recorded \in Nat
  BY DEF StreamTypeInv, TypeOK
<1>5. \A at \in Nat : Continues(Channel, at, recorded) =>
        /\ Head(wire).from + 1 = at + 1 /\ Head(wire).to = at + 1
        /\ Continues(Channel', at + 1, recorded') /\ at + 1 <= recorded
  <2> SUFFICES ASSUME NEW at \in Nat, Continues(Channel, at, recorded)
               PROVE  /\ Head(wire).from + 1 = at + 1 /\ Head(wire).to = at + 1
                      /\ Continues(Channel', at + 1, recorded') /\ at + 1 <= recorded
    OBVIOUS
  <2>1. IsEvent(Head(Channel), at + 1) /\ Continues(Tail(Channel), at + 1, recorded)
    BY <1>3, <1>4, ContinuesTaken
  <2>2. PICK left \in Nat : left = Len(Tail(Channel))
    BY <1>3
  <2>3. (at + 1) + left = recorded
    BY <2>1, <2>2 DEF Continues
  <2>4. at + 1 <= recorded
    <3>1. \A a, b, c \in Nat : (a + 1) + b = c => a + 1 <= c
      OBVIOUS
    <3>2. at \in Nat /\ left \in Nat /\ recorded \in Nat
      BY <1>4, <2>2
    <3> QED
      BY <2>3, <3>1, <3>2
  <2> QED
    BY <1>1, <1>3, <2>1, <2>4 DEF IsEvent
<1>6. CASE phase = "live"
  <2>1. Live(top) /\ reply = NoReply /\ pendingLive = {}
    BY <1>6 DEF Progress
  <2>2. Emit(Ids(Head(wire)), {}) /\ UNCHANGED pendingLive
    BY <1>6 DEF ReceiveLive
  <2>3. PICK high \in Nat : high = top + 1
    OBVIOUS
  <2>4. Head(wire).from + 1 = high /\ Head(wire).to = high /\ Continues(Channel', high, recorded')
        /\ high <= recorded
    BY <1>5, <2>1, <2>3 DEF Live
  <2>5. Ids(Head(wire)) = (top + 1)..high /\ {} = (high + 1)..high
    BY <2>3, <2>4 DEF Ids
  <2>6. Emit((top + 1)..high, (high + 1)..high)
    BY <2>2, <2>5
  <2>7. EmittedTo(high)'
    <3>1. top <= high /\ high <= high
      BY <2>3
    <3> QED
      BY <1>1, <2>4, <2>6, <3>1, EmittedOn
  <2>8. Live(high)'
    BY <1>1, <2>1, <2>4 DEF Live
  <2> QED
    BY <1>1, <1>6, <2>1, <2>2, <2>3, <2>7, <2>8 DEF Progress
<1>7. CASE phase = "attaching" /\ reply # NoReply
  <2>1. /\ pendingLive' = pendingLive \cup {Head(wire).to} /\ UNCHANGED <<sse, emitted>>
    BY <1>7 DEF ReceiveLive
  <2>2. EmittedTo(top)'
    BY <1>1, <2>1, EmittedFrame
  <2>3. HeldBack(top)
    BY <1>7 DEF Progress
  <2>4. PICK held \in Nat : /\ reply.to <= held /\ pendingLive = (reply.to + 1)..held
                           /\ Continues(Channel, held, recorded)
    BY <2>3 DEF HeldBack
  <2>5. reply.to \in Nat
    BY <1>7 DEF StreamTypeInv, Known, Message
  <2>6. PICK next \in Nat : next = held + 1
    OBVIOUS
  <2>7. Head(wire).to = next /\ Continues(Channel', next, recorded')
    BY <1>5, <2>4, <2>6
  <2>8. pendingLive' = (reply.to + 1)..next /\ reply.to <= next
    BY <2>1, <2>4, <2>5, <2>6, <2>7
  <2>9. HeldBack(top)'
    BY <1>1, <2>3, <2>7, <2>8 DEF HeldBack
  <2> QED
    BY <1>1, <1>7, <2>2, <2>9 DEF Progress
<1> QED
  BY <1>2, <1>6, <1>7

(* The replay is emitted, and what was held back goes on from it.          *)
LEMMA GoLiveStream ==
  ASSUME StreamTypeInv, NEW top \in Nat, EmittedTo(top), Progress(top), GoLive
  PROVE  \E high \in Nat : EmittedTo(high)' /\ Progress(high)'
<1>1. /\ phase = "attaching" /\ reply # NoReply /\ Emit(Ids(reply), pendingLive)
      /\ phase' = "live" /\ reply' = NoReply /\ pendingLive' = {}
      /\ UNCHANGED <<recorded, conn, subscribed, queue, wire, request, lastSequence>>
  BY DEF GoLive, connection, page
<1>2. HeldBack(top)
  BY <1>1 DEF Progress
<1>3. PICK held \in Nat : /\ reply.to <= held /\ pendingLive = (reply.to + 1)..held
                         /\ Continues(Channel, held, recorded)
  BY <1>2 DEF HeldBack
<1>4. PICK mid : mid = reply.to
  OBVIOUS
<1>5. mid \in Nat /\ top <= mid /\ reply.from = top
  BY <1>1, <1>2, <1>4 DEF StreamTypeInv, Known, Message, HeldBack
<1>6. held <= recorded
  <2>1. Len(Channel) \in Nat /\ recorded \in Nat
    BY ChannelType DEF StreamTypeInv, TypeOK
  <2> QED
    BY <1>3, <2>1 DEF Continues
<1>7. Ids(reply) = (top + 1)..mid /\ pendingLive = (mid + 1)..held
  BY <1>3, <1>4, <1>5 DEF Ids
<1>8. Emit((top + 1)..mid, (mid + 1)..held)
  BY <1>1, <1>7
<1>9. EmittedTo(held)'
  BY <1>1, <1>3, <1>4, <1>5, <1>6, <1>8, EmittedOn
<1>10. Channel' = Channel
  BY <1>1 DEF Channel
<1>11. Live(held)'
  BY <1>1, <1>2, <1>3, <1>10 DEF Live, HeldBack
<1> QED
  BY <1>1, <1>9, <1>11 DEF Progress

(* The page takes the next event.                                          *)
LEMMA ShowNext ==
  ASSUME StreamTypeInv, NEW top \in Nat, EmittedTo(top), Show
  PROVE  /\ lastSequence' = lastSequence + 1 /\ lastSequence < recorded
         /\ EmittedTo(top)'
<1>1. PICK n \in Head(sse) :
        /\ \A m \in Head(sse) : n <= m
        /\ sse' = IF Head(sse) = {n} THEN Tail(sse) ELSE [sse EXCEPT ![1] = @ \ {n}]
        /\ ~(n <= lastSequence) => lastSequence' = n
  BY DEF Show
<1>2. sse # <<>> /\ UNCHANGED <<recorded, emitted>>
  BY DEF Show, gateway
<1>3. /\ sse \in Seq(SUBSET Nat) /\ lastSequence \in Nat /\ recorded \in Nat
      /\ \A i \in DOMAIN sse : sse[i] # {}
  <2>1. sse \in Seq(Batch)
    BY DEF StreamTypeInv
  <2>2. \A i \in DOMAIN sse : sse[i] \in Batch
    BY <2>1
  <2> QED
    BY <2>2 DEF StreamTypeInv, TypeOK, Batch
<1>4. Contiguous(sse, lastSequence, top) /\ top <= recorded
  BY DEF EmittedTo
<1>5. n = lastSequence + 1 /\ n <= top /\ Contiguous(sse', n, top)
  BY <1>1, <1>2, <1>3, <1>4, ShownContiguous
<1>6. lastSequence' = n
  <2>1. ~(n <= lastSequence)
    BY <1>3, <1>5
  <2> QED
    BY <1>1, <2>1
<1>7. EmittedTo(top)'
  BY <1>2, <1>4, <1>5, <1>6 DEF EmittedTo
<1> QED
  BY <1>3, <1>4, <1>5, <1>6, <1>7

LEMMA ShowStream ==
  ASSUME StreamTypeInv, NEW top \in Nat, EmittedTo(top), Progress(top), Show
  PROVE  EmittedTo(top)' /\ Progress(top)'
<1>1. UNCHANGED <<recorded, conn, subscribed, queue, wire, request, phase, cursor, reply, pendingLive>>
  BY DEF Show, connection, gateway
<1>2. Channel' = Channel
  BY <1>1 DEF Channel
<1>3. Progress(top)'
  BY <1>1, <1>2 DEF Progress, NoConnection, NextPage, Attaching, Attached, HeldBack, Live
<1> QED
  BY <1>3, ShowNext

(* Whatever ends the connection leaves what was emitted to the page, or    *)
(* nothing.                                                                *)
LEMMA DisconnectStream ==
  ASSUME StreamTypeInv, NEW top \in Nat, EmittedTo(top),
         Disconnect, UNCHANGED <<recorded, lastSequence>>, sse' = sse \/ sse' = <<>>
  PROVE  \E high \in Nat : EmittedTo(high)' /\ Progress(high)'
<1>1. Channel' = <<>>
  BY DEF Disconnect, Channel
<1>2. \A high : Progress(high)'
  BY <1>1 DEF Disconnect, Progress, NoConnection
<1>3. emitted' = {}
  BY DEF Disconnect
<1>4. CASE sse' = sse
  <2>1. EmittedTo(top)'
    BY <1>3, <1>4 DEF EmittedTo
  <2> QED
    BY <1>2, <2>1
<1>5. CASE sse' = <<>>
  <2>1. PICK high : high = lastSequence
    OBVIOUS
  <2>2. high \in Nat /\ high <= recorded
    BY <2>1 DEF StreamTypeInv, TypeOK
  <2>3. Contiguous(<<>>, high, high)
    BY <2>2 DEF Contiguous
  <2>4. EmittedTo(high)'
    BY <1>3, <1>5, <2>1, <2>2, <2>3 DEF EmittedTo
  <2> QED
    BY <1>2, <2>2, <2>4
<1> QED
  BY <1>4, <1>5

LEMMA StreamReachable == Spec => []StreamInv
<1>1. Init => StreamInv
  <2> SUFFICES ASSUME Init PROVE StreamInv
    OBVIOUS
  <2>1. Contiguous(<<>>, 0, 0)
    BY DEF Contiguous
  <2>2. EmittedTo(0)
    BY <2>1 DEF Init, EmittedTo
  <2>3. Channel = <<>>
    BY DEF Init, Channel
  <2>4. Progress(0)
    BY <2>3 DEF Init, Progress, NoConnection
  <2> QED
    BY <2>2, <2>4 DEF StreamInv
<1>2. StreamTypeInv /\ StreamInv /\ [Next]_vars => StreamInv'
  <2> SUFFICES ASSUME StreamTypeInv, StreamInv, [Next]_vars, ~(truncated' \/ overflowed')
               PROVE  \E high \in Nat : EmittedTo(high)' /\ Progress(high)'
    BY DEF StreamInv
  <2>1. ~(truncated \/ overflowed)
    BY DEF Next, vars, losses, Record, Broadcast, Open, Serve, ServePage, ServeAttach, WriteNext,
           Receive, ReceivePage, ReceiveAttach, ReceiveLive, GoLive, Show, CloseDone, DaemonFails,
           BrowserFails
  <2>2. PICK top \in Nat : EmittedTo(top) /\ Progress(top)
    BY <2>1 DEF StreamInv
  <2>3. CASE Record \/ Open \/ Serve \/ ReceiveAttach \/ Show
    <3>1. EmittedTo(top)' /\ Progress(top)'
      BY <2>2, <2>3, RecordStream, OpenStream, ServeStream, WriteStream, ReceiveAttachStream,
         ShowStream DEF Serve
    <3> QED
      BY <3>1
  <2>4. CASE ReceivePage \/ ReceiveLive \/ GoLive
    BY <2>2, <2>4, ReceivePageStream, ReceiveLiveStream, GoLiveStream
  <2>5. CASE CloseDone \/ DaemonFails \/ BrowserFails
    <3>1. Disconnect /\ UNCHANGED <<recorded, lastSequence>> /\ (sse' = sse \/ sse' = <<>>)
      BY <2>5 DEF CloseDone, DaemonFails, BrowserFails, page
    <3> QED
      BY <2>2, <3>1, DisconnectStream
  <2>6. CASE UNCHANGED vars
    <3>1. UNCHANGED <<recorded, conn, subscribed, queue, wire, request, phase, cursor, reply,
                      pendingLive, emitted, sse, lastSequence>>
      BY <2>6 DEF vars, connection, gateway, page
    <3>2. EmittedTo(top)'
      BY <2>2, <3>1, EmittedFrame
    <3>3. Channel' = Channel
      BY <3>1 DEF Channel
    <3>4. Progress(top)'
      BY <2>2, <3>1, <3>3 DEF Progress, NoConnection, NextPage, Attaching, Attached, HeldBack, Live
    <3> QED
      BY <3>2, <3>4
  <2> QED
    BY <2>3, <2>4, <2>5, <2>6 DEF Next, Receive
<1> QED
  BY <1>1, <1>2, StreamTypeReachable, PTL DEF Spec

-----------------------------------------------------------------------------
(* The refinement.                                                         *)

(* A page that takes an event takes the next one, or skips some once a     *)
(* burst was too large.                                                    *)
LEMMA ShowDelivers ==
  ASSUME StreamTypeInv, StreamInv, Show
  PROVE  \/ UNCHANGED lastSequence
         \/ lastSequence < recorded /\ lastSequence' = lastSequence + 1
         \/ (truncated \/ overflowed) /\ lastSequence' \in (lastSequence + 1)..recorded
<1>1. CASE ~(truncated \/ overflowed)
  <2>1. PICK top \in Nat : EmittedTo(top)
    BY <1>1 DEF StreamInv
  <2> QED
    BY <2>1, ShowNext
<1>2. CASE truncated \/ overflowed
  <2>1. PICK n \in Head(sse) :
          lastSequence' = lastSequence \/ (~(n <= lastSequence) /\ lastSequence' = n)
    BY DEF Show, page
  <2>2. Head(sse) \in Batch
    BY DEF Show, StreamTypeInv
  <2>3. n \in 0..recorded /\ lastSequence \in Nat /\ recorded \in Nat
    BY <2>1, <2>2 DEF Batch, StreamTypeInv, TypeOK
  <2>4. CASE lastSequence' = n /\ ~(n <= lastSequence)
    <3>1. lastSequence' \in (lastSequence + 1)..recorded
      BY <2>3, <2>4
    <3> QED
      BY <1>2, <3>1
  <2> QED
    BY <2>1, <2>4
<1> QED
  BY <1>1, <1>2

(* The stream implements the event log: through every slow phase, closed   *)
(* connection, failure and reconnection the page's cursor moves to the next*)
(* event only, unless a queue or an attach page was too small for a burst  *)
(* (server.py, gateway.py and app.js together).                            *)
THEOREM Refines == Spec => LogSpec
<1>1. Init => Log!Init
  BY DEF Init, Log!Init
<1>2. StreamTypeInv /\ StreamInv /\ [Next]_vars =>
        [Log!Record \/ Log!Deliver \/ Log!Overflow \/ Log!Skip]_<<recorded, lastSequence, truncated \/ overflowed>>
  <2> SUFFICES ASSUME StreamTypeInv, StreamInv, [Next]_vars
               PROVE  \/ Log!Record \/ Log!Deliver \/ Log!Overflow \/ Log!Skip
                      \/ UNCHANGED <<recorded, lastSequence, truncated \/ overflowed>>
    OBVIOUS
  <2>1. CASE Record
    <3>1. /\ recorded' = recorded + 1 /\ UNCHANGED <<lastSequence, truncated>>
          /\ overflowed' = overflowed \/ overflowed' = TRUE
      BY <2>1 DEF Record, Broadcast, page
    <3>2. CASE overflowed' = overflowed
      BY <3>1, <3>2 DEF Log!Record
    <3>3. CASE overflowed' = TRUE
      <4>1. (truncated' \/ overflowed') = TRUE
        BY <3>3
      <4> QED
        BY <3>1, <4>1 DEF Log!Record
    <3> QED
      BY <3>1, <3>2, <3>3
  <2>2. CASE ServeAttach
    <3>1. UNCHANGED <<recorded, lastSequence, overflowed>>
      BY <2>2 DEF ServeAttach, page
    <3>2. truncated' = truncated \/ truncated' = TRUE
      BY <2>2 DEF ServeAttach, EventsSince, Msg, StreamTypeInv, TypeOK
    <3> QED
      BY <3>1, <3>2 DEF Log!Overflow
  <2>3. CASE Show
    <3>1. UNCHANGED <<recorded, truncated, overflowed>>
      BY <2>3 DEF Show, losses
    <3> QED
      BY <2>3, <3>1, ShowDelivers DEF Log!Deliver, Log!Skip
  <2>4. CASE Open \/ ServePage \/ WriteNext \/ Receive \/ CloseDone \/ DaemonFails \/ BrowserFails
    <3>1. UNCHANGED <<recorded, lastSequence, truncated, overflowed>>
      BY <2>4 DEF Open, ServePage, WriteNext, Receive, ReceivePage, ReceiveAttach, ReceiveLive,
                  GoLive, CloseDone, DaemonFails, BrowserFails, page, losses
    <3> QED
      BY <3>1
  <2>5. CASE UNCHANGED vars
    BY <2>5 DEF vars, page, losses
  <2> QED
    BY <2>1, <2>2, <2>3, <2>4, <2>5 DEF Next, Serve
<1> QED
  BY <1>1, <1>2, StreamTypeReachable, StreamReachable, PTL DEF Spec, LogSpec, Log!Spec
=============================================================================
