------------------------- MODULE BlockingBridgeProofs -------------------------
(***************************************************************************)
(* Proofs about BlockingBridge, for every set of streams, every number of  *)
(* workers, places and events, and however often the event loop is late.   *)
(***************************************************************************)
EXTENDS BlockingBridge, SequenceTheorems, TLAPS

USE DEF Enter, Ends

(***************************************************************************)
(* Types.                                                                  *)
(***************************************************************************)

(* TypeOK but for what only EventsInOrder says, that no event is a zeroth. *)
Types ==
  /\ worker \in [Stream -> Phase]
  /\ made \in [Stream -> 0..MaxEvents]
  /\ queue \in [Stream -> Seq(Item)] /\ \A s \in Stream : Len(queue[s]) <= QueueMax
  /\ got \in [Stream -> Seq(0..MaxEvents)]
  /\ result \in [Stream -> {"open", "done", "error", "abandoned"}]
  /\ cause \in [Stream -> {"running", "exhausted", "raised", "cut"}]
  /\ late \in 0..MaxLate

LEMMA CloseType ==
  ASSUME Types, NEW s \in Stream, Close(s)
  PROVE  worker' \in [Stream -> Phase] /\ worker'[s] \in {"returned", "done"}
BY DEF Types, Close, Phase, Putting

LEMMA EndsType ==
  ASSUME Types, NEW s \in Stream, NEW how \in {"exhausted", "raised", "cut"}, Ends(s, how)
  PROVE  cause' \in [Stream -> {"running", "exhausted", "raised", "cut"}]
BY DEF Types

(* An item is put at the end of its stream's queue.                        *)
LEMMA QueueType ==
  ASSUME Types, NEW s \in Stream, worker[s] \in Putting, Len(queue[s]) < QueueMax,
         queue' = [queue EXCEPT ![s] = Append(@, Content(s))]
  PROVE  /\ queue' \in [Stream -> Seq(Item)]
         /\ \A t \in Stream : Len(queue'[t]) <= QueueMax
<1>1. Content(s) \in Item
  BY DEF Content, Item, Types
<1>2. Append(queue[s], Content(s)) \in Seq(Item) /\ Len(Append(queue[s], Content(s))) = Len(queue[s]) + 1
  BY <1>1 DEF Types
<1>3. QueueMax \in Nat /\ Len(queue[s]) \in Nat
  BY BlockingBridgeAssumption DEF Types
<1> QED BY <1>2, <1>3 DEF Types

LEMMA ProduceType ==
  ASSUME Types, NEW s \in Stream, Produce(s)
  PROVE  Types'
<1> USE BlockingBridgeAssumption
<1>1. CASE Take(s)
  BY <1>1 DEF Types, Take, Phase
<1>2. CASE Yield(s)
  <2>1. made[s] + 1 \in 0..MaxEvents
    BY <1>2 DEF Types, Yield
  <2>2. worker' \in [Stream -> Phase]
    BY <1>2, CloseType DEF Types, Yield, Phase, Putting
  <2>3. cause' \in [Stream -> {"running", "exhausted", "raised", "cut"}]
    BY <1>2, EndsType DEF Types, Yield
  <2> QED BY <1>2, <2>1, <2>2, <2>3 DEF Types, Yield
<1>3. CASE Exhaust(s) \/ Raise(s)
  <2>1. worker' \in [Stream -> Phase]
    BY <1>3, CloseType DEF Types, Exhaust, Raise, Phase, Putting
  <2>2. cause' \in [Stream -> {"running", "exhausted", "raised", "cut"}]
    BY <1>3, EndsType DEF Exhaust, Raise
  <2> QED BY <1>3, <2>1, <2>2 DEF Types, Exhaust, Raise
<1>4. CASE Put(s)
  <2>1. worker' \in [Stream -> Phase]
    BY <1>4, CloseType DEF Types, Put, AfterPut, Phase, Putting
  <2>2. queue' \in [Stream -> Seq(Item)] /\ \A t \in Stream : Len(queue'[t]) <= QueueMax
    BY <1>4, QueueType DEF Put
  <2> QED BY <1>4, <2>1, <2>2 DEF Types, Put
<1>5. ASSUME GiveUp(s)
      PROVE  /\ worker' \in [Stream -> Phase]
             /\ cause' \in [Stream -> {"running", "exhausted", "raised", "cut"}]
  BY <1>5, CloseType, EndsType DEF Types, GiveUp, Phase
<1>6. CASE LoopLate(s)
  <2>1. queue' \in [Stream -> Seq(Item)] /\ \A t \in Stream : Len(queue'[t]) <= QueueMax
    BY <1>6, QueueType DEF LoopLate, Types
  <2>2. late' \in 0..MaxLate
    BY <1>6 DEF LoopLate, Types
  <2> QED BY <1>5, <1>6, <2>1, <2>2 DEF Types, LoopLate
<1>7. CASE NobodyTakes(s)
  BY <1>5, <1>7 DEF Types, NobodyTakes
<1> QED BY <1>1, <1>2, <1>3, <1>4, <1>6, <1>7 DEF Produce, Pull

LEMMA TypesStep ==
  ASSUME Types, [Next]_vars
  PROVE  Types'
<1>1. ASSUME NEW s \in Stream, Submit(s)
      PROVE  Types'
  BY <1>1 DEF Types, Submit, Phase
<1>2. ASSUME NEW s \in Stream, Receive(s)
      PROVE  Types'
  <2>1. /\ queue[s] \in Seq(Item) /\ queue[s] # <<>>
        /\ QueueMax \in Nat /\ Len(queue[s]) <= QueueMax
    BY <1>2, BlockingBridgeAssumption DEF Types, Receive
  <2>2. /\ Head(queue[s]) \in Item /\ Tail(queue[s]) \in Seq(Item)
        /\ Len(Tail(queue[s])) <= QueueMax
    BY <2>1, HeadTailProperties
  <2>3. queue' \in [Stream -> Seq(Item)] /\ \A t \in Stream : Len(queue'[t]) <= QueueMax
    BY <1>2, <2>2 DEF Types, Receive
  <2>4. CASE Head(queue[s]).kind = "event"
    <3>1. Append(got[s], Head(queue[s]).n) \in Seq(0..MaxEvents)
      BY <2>2 DEF Types, Item
    <3> QED BY <1>2, <2>3, <2>4, <3>1 DEF Types, Receive
  <2>5. CASE Head(queue[s]).kind # "event"
    <3>1. Head(queue[s]).kind \in {"done", "error"}
      BY <2>2, <2>5 DEF Item, Putting
    <3> QED BY <1>2, <2>3, <2>5, <3>1 DEF Types, Receive
  <2> QED BY <2>4, <2>5
<1>3. ASSUME NEW s \in Stream, Abandon(s)
      PROVE  Types'
  BY <1>3 DEF Types, Abandon
<1>4. CASE UNCHANGED vars
  BY <1>4 DEF Types, vars
<1> QED BY <1>1, <1>2, <1>3, <1>4, ProduceType DEF Next

LEMMA TypesAlways == Spec => []Types
<1>1. Init => Types
  BY BlockingBridgeAssumption DEF Init, Types, Phase
<1>2. Types /\ [Next]_vars => Types'
  BY TypesStep
<1> QED BY <1>1, <1>2, PTL DEF Spec

(***************************************************************************)
(* The order of a stream.                                                  *)
(***************************************************************************)

Left(s) == Len(queue[s])
Had(s) == Len(got[s])

AllEvents(s) == \A i \in 1..Left(s) : queue[s][i].kind = "event"

(* What the consumer has and what is queued for it are the iterator's      *)
(* first events, and a worker that has another one to give has lost none.  *)
Ordered(s) ==
  /\ \A i \in 1..Had(s) : got[s][i] = i
  /\ \A i \in 1..Left(s) :
       queue[s][i].kind = "event" => queue[s][i].n = Had(s) + i
  /\ \A i, j \in 1..Left(s) :
       i < j /\ queue[s][j].kind = "event" => queue[s][i].kind = "event"
  /\ worker[s] \in {"pulling", "event"} =>
       AllEvents(s) /\ result[s] \in {"open", "abandoned"} /\ cause[s] = "running"
  /\ worker[s] = "pulling" => made[s] = Had(s) + Left(s)
  /\ worker[s] = "event" => made[s] = Had(s) + Left(s) + 1
  /\ worker[s] \in {"unsubmitted", "queued"} =>
       /\ queue[s] = <<>> /\ got[s] = <<>> /\ made[s] = 0
       /\ result[s] \in {"open", "abandoned"} /\ cause[s] = "running"

(* The iterator ended the way an end of this kind reports.                 *)
Ending(s, kind) == cause[s] = IF kind = "done" THEN "exhausted" ELSE "raised"

(* While the loop is not late, an end that is on its way to the consumer   *)
(* follows every event and tells how the iterator ended.                   *)
Honest(s) ==
  /\ result[s] \in {"done", "error"} => Ending(s, result[s]) /\ Had(s) = made[s]
  /\ result[s] = "open" =>
       /\ worker[s] = "error" =>
            AllEvents(s) /\ Ending(s, "error") /\ made[s] = Had(s) + Left(s)
       /\ worker[s] = "done" /\ AllEvents(s) =>
            Ending(s, "done") /\ made[s] = Had(s) + Left(s)
       /\ \A i \in 1..Left(s) :
            /\ queue[s][i].kind # "event"
            /\ \A j \in 1..Left(s) : j < i => queue[s][j].kind = "event"
            => Ending(s, queue[s][i].kind) /\ made[s] = Had(s) + i - 1

Good(s) == Ordered(s) /\ (late = 0 => Honest(s))

BridgeInv == Types /\ \A s \in Stream : Good(s)

Untouched(s) ==
  /\ worker'[s] = worker[s] /\ made'[s] = made[s] /\ queue'[s] = queue[s]
  /\ got'[s] = got[s] /\ result'[s] = result[s] /\ cause'[s] = cause[s]

LEMMA Lengths ==
  ASSUME Types, NEW s \in Stream
  PROVE  /\ Left(s) \in Nat /\ Had(s) \in Nat /\ made[s] \in Nat
         /\ queue'[s] = queue[s] => Left(s)' = Left(s)
         /\ got'[s] = got[s] => Had(s)' = Had(s)
BY BlockingBridgeAssumption DEF Types, Left, Had

(* A step of one stream leaves the others as they are; it may make the     *)
(* loop late, it does not undo that it was.                                *)
LEMMA OthersKeep ==
  ASSUME NEW s, Good(s), Untouched(s), late' = 0 => late = 0
  PROVE  Good(s)'
<1>0. Left(s)' = Left(s) /\ Had(s)' = Had(s)
  BY DEF Left, Had, Untouched
<1>1. Ordered(s)'
  BY <1>0 DEF Good, Ordered, AllEvents, Untouched
<1>2. ASSUME late' = 0
      PROVE  Honest(s)'
  BY <1>0, <1>2 DEF Good, Honest, Ending, AllEvents, Untouched
<1> QED BY <1>1, <1>2 DEF Good

LEMMA OnlyOne ==
  ASSUME Types, NEW s \in Stream, Submit(s) \/ Produce(s) \/ Receive(s) \/ Abandon(s),
         NEW t \in Stream, t # s
  PROVE  Untouched(t) /\ (late' = 0 => late = 0)
<1>1. late' = 0 => late = 0
  BY DEF Types, Submit, Produce, Pull, Take, Yield, Exhaust, Raise, Put, LoopLate,
         NobodyTakes, Receive, Abandon
<1>2. CASE Submit(s) \/ Receive(s) \/ Abandon(s) \/ Take(s)
  BY <1>2 DEF Types, Untouched, Submit, Receive, Abandon, Take
<1>3. CASE Pull(s)
  BY <1>3 DEF Types, Untouched, Pull, Yield, Exhaust, Raise, Close
<1>4. CASE Put(s)
  BY <1>4 DEF Types, Untouched, Put, AfterPut, Close, Putting
<1>5. CASE LoopLate(s) \/ NobodyTakes(s)
  BY <1>5 DEF Types, Untouched, LoopLate, NobodyTakes, GiveUp, Close
<1> QED BY <1>1, <1>2, <1>3, <1>4, <1>5 DEF Produce

(***************************************************************************)
(* The steps of one stream.                                                *)
(***************************************************************************)

LEMMA PullGood ==
  ASSUME Types, NEW s \in Stream, Good(s), Submit(s) \/ Take(s) \/ Pull(s)
  PROVE  Good(s)'
<1>1. /\ late' = late /\ queue'[s] = queue[s] /\ got'[s] = got[s]
      /\ result'[s] = result[s] /\ Left(s)' = Left(s) /\ Had(s)' = Had(s)
  BY Lengths DEF Submit, Take, Pull, Yield, Exhaust, Raise
<1>2. /\ Left(s) \in Nat /\ Had(s) \in Nat /\ made[s] \in Nat
      /\ queue[s] \in Seq(Item) /\ got[s] \in Seq(0..MaxEvents)
  BY Lengths DEF Types
<1>3. CASE Submit(s) \/ Take(s)
  <2>1. made'[s] = made[s] /\ cause'[s] = cause[s] /\ worker[s] \in {"unsubmitted", "queued"}
        /\ worker'[s] \in {"queued", "pulling"}
    BY <1>3 DEF Types, Submit, Take
  <2>2. /\ queue[s] = <<>> /\ got[s] = <<>> /\ made[s] = 0
        /\ result[s] \in {"open", "abandoned"} /\ cause[s] = "running"
    BY <2>1 DEF Good, Ordered
  <2>3. Left(s) = 0 /\ Had(s) = 0
    BY <2>2 DEF Left, Had
  <2>4. Ordered(s)'
    BY <1>1, <2>1, <2>2, <2>3 DEF Ordered, AllEvents
  <2>5. Honest(s)'
    BY <1>1, <2>1, <2>2, <2>3 DEF Honest, Ending, AllEvents
  <2> QED BY <2>4, <2>5 DEF Good
<1>4. CASE Pull(s)
  <2>1. /\ worker[s] = "pulling" /\ AllEvents(s) /\ cause[s] = "running"
        /\ result[s] \in {"open", "abandoned"} /\ made[s] = Had(s) + Left(s)
    BY <1>4 DEF Good, Ordered, Pull, Yield, Exhaust, Raise
  <2>2. \/ worker'[s] = "returned" /\ result[s] # "open"
        \/ worker'[s] = "event" /\ made'[s] = made[s] + 1 /\ cause'[s] = cause[s]
        \/ worker'[s] = "done" /\ cause'[s] = "exhausted" /\ made'[s] = made[s]
        \/ worker'[s] = "error" /\ cause'[s] = "raised" /\ made'[s] = made[s]
    BY <1>4, <2>1 DEF Types, Pull, Yield, Exhaust, Raise, Close, Stopped
  <2>3. AllEvents(s)'
    BY <1>1, <2>1 DEF AllEvents
  <2>4. Ordered(s)'
    BY <1>1, <1>2, <2>1, <2>2, <2>3 DEF Good, Ordered
  <2>5. Honest(s)'
    BY <1>1, <1>2, <2>1, <2>2, <2>3 DEF Honest, Ending, AllEvents
  <2> QED BY <2>4, <2>5 DEF Good
<1> QED BY <1>3, <1>4

(* What is put is the last of the queue; nothing else of it changes.       *)
Extended(s) ==
  /\ Left(s)' = Left(s) + 1
  /\ \A i \in 1..Left(s) : queue'[s][i] = queue[s][i]
  /\ queue'[s][Left(s) + 1].kind = worker[s]
  /\ queue'[s][Left(s) + 1].n = made[s]

LEMMA AppendExtends ==
  ASSUME Types, NEW s \in Stream, queue' = [queue EXCEPT ![s] = Append(@, Content(s))]
  PROVE  Extended(s)
<1>1. queue[s] \in Seq(Item) /\ queue'[s] = Append(queue[s], Content(s))
  BY DEF Types
<1>2. Content(s).kind = worker[s] /\ Content(s).n = made[s]
  BY DEF Content
<1> HIDE DEF Content
<1>3. Len(queue'[s]) = Len(queue[s]) + 1
  BY <1>1
<1> QED BY <1>1, <1>2, <1>3 DEF Extended, Left

(* A worker that puts its event, its exception or its end, whether it goes *)
(* on with the next event or gives up afterwards, keeps the order.         *)
LEMMA PuttingOrdered ==
  ASSUME Types, NEW s \in Stream, Ordered(s), worker[s] \in Putting,
         made'[s] = made[s], got'[s] = got[s], result'[s] = result[s],
         queue'[s] = queue[s] \/ Extended(s),
         \/ worker'[s] \in {"done", "returned"}
         \/ worker[s] = "event" /\ worker'[s] = "pulling" /\ cause'[s] = cause[s] /\ Extended(s)
  PROVE  Ordered(s)'
<1>1. /\ Left(s) \in Nat /\ Had(s) \in Nat /\ made[s] \in Nat /\ Had(s)' = Had(s)
      /\ queue'[s] = queue[s] => Left(s)' = Left(s)
  BY Lengths
<1>2. CASE queue'[s] = queue[s] /\ worker'[s] \in {"done", "returned"}
  BY <1>1, <1>2 DEF Ordered, AllEvents
<1>3. CASE Extended(s)
  <2>1. ASSUME NEW i \in 1..Left(s)'
        PROVE  \/ i \in 1..Left(s) /\ queue'[s][i] = queue[s][i]
               \/ /\ i = Left(s) + 1 /\ queue'[s][i].kind = worker[s]
                  /\ queue'[s][i].n = made[s]
    BY <1>1, <1>3, <2>1 DEF Extended
  <2>2. worker[s] = "event" => made[s] = Had(s) + Left(s) + 1 /\ AllEvents(s)
    BY DEF Ordered
  <2>3. ASSUME NEW i \in 1..Left(s)', queue'[s][i].kind = "event"
        PROVE  queue'[s][i].n = Had(s)' + i
    <3>1. CASE i \in 1..Left(s) /\ queue'[s][i] = queue[s][i]
      BY <1>1, <2>3, <3>1 DEF Ordered
    <3>2. CASE i = Left(s) + 1 /\ queue'[s][i].kind = worker[s] /\ queue'[s][i].n = made[s]
      <4>1. worker[s] = "event"
        BY <2>3, <3>2
      <4> QED BY <1>1, <2>2, <3>2, <4>1
    <3> QED BY <2>1, <3>1, <3>2
  <2>4. ASSUME NEW i \in 1..Left(s)', NEW j \in 1..Left(s)',
               i < j, queue'[s][j].kind = "event"
        PROVE  queue'[s][i].kind = "event"
    <3>1. i \in 1..Left(s) /\ queue'[s][i] = queue[s][i]
      BY <1>1, <1>3, <2>4 DEF Extended
    <3>2. CASE j \in 1..Left(s)
      BY <1>3, <2>4, <3>1, <3>2 DEF Ordered, Extended
    <3>3. CASE j = Left(s) + 1
      BY <1>3, <2>2, <2>4, <3>1, <3>3 DEF Extended, AllEvents
    <3> QED BY <2>1, <3>2, <3>3
  <2>5. worker'[s] = "pulling" =>
          /\ AllEvents(s)' /\ result'[s] \in {"open", "abandoned"} /\ cause'[s] = "running"
          /\ made'[s] = Had(s)' + Left(s)'
    <3> SUFFICES ASSUME worker'[s] = "pulling"
                 PROVE  /\ AllEvents(s)' /\ result'[s] \in {"open", "abandoned"}
                        /\ cause'[s] = "running"
                        /\ made'[s] = Had(s)' + Left(s)'
      OBVIOUS
    <3>1. worker[s] = "event" /\ cause'[s] = cause[s]
      OBVIOUS
    <3>2. AllEvents(s)'
      BY <2>1, <2>2, <3>1 DEF AllEvents
    <3>3. result[s] \in {"open", "abandoned"} /\ cause[s] = "running"
      BY <3>1 DEF Ordered
    <3>4. made[s] = Had(s) + Left(s) + 1 /\ Left(s)' = Left(s) + 1
      BY <1>3, <2>2, <3>1 DEF Extended
    <3> QED BY <1>1, <3>1, <3>2, <3>3, <3>4
  <2>6. worker'[s] \in {"done", "returned", "pulling"}
    OBVIOUS
  <2> QED BY <1>1, <2>3, <2>4, <2>5, <2>6 DEF Ordered
<1> QED BY <1>2, <1>3 DEF Extended

LEMMA PutGood ==
  ASSUME Types, NEW s \in Stream, Good(s), Put(s)
  PROVE  Good(s)'
<1>1. /\ Extended(s) /\ worker[s] \in Putting /\ AfterPut(s)
      /\ made' = made /\ got' = got /\ result' = result /\ cause' = cause /\ late' = late
  BY AppendExtends DEF Put
<1>2. \/ worker[s] = "event" /\ worker'[s] = "pulling"
      \/ worker[s] = "error" /\ worker'[s] = IF Stopped(s) THEN "returned" ELSE "done"
      \/ worker[s] = "done" /\ worker'[s] = "returned"
  BY <1>1 DEF AfterPut, Close, Types, Putting
<1>3. Ordered(s)'
  BY <1>1, <1>2, PuttingOrdered DEF Good
<1>4. /\ Left(s) \in Nat /\ Had(s) \in Nat /\ made[s] \in Nat /\ Had(s)' = Had(s)
  BY <1>1, Lengths
<1>5. ASSUME Honest(s), result[s] = "open"
      PROVE  Honest(s)'
  <2>1. CASE worker[s] = "event"
    <3>1. AllEvents(s) /\ worker'[s] = "pulling"
      BY <1>2, <2>1 DEF Good, Ordered
    <3>2. AllEvents(s)'
      BY <1>1, <1>4, <2>1, <3>1 DEF AllEvents, Extended
    <3> QED BY <1>1, <1>5, <3>1, <3>2 DEF Honest, AllEvents
  <2>2. CASE worker[s] \in {"error", "done"}
    <3> DEFINE k == Left(s) + 1
    <3>1. /\ queue'[s][k].kind = worker[s] /\ Left(s)' = k /\ k \in 1..Left(s)'
          /\ \A i \in 1..Left(s) : queue'[s][i] = queue[s][i]
          /\ \A i \in 1..Left(s)' : i = k \/ i \in 1..Left(s)
          /\ \A i \in 1..Left(s) : i < k /\ i \in 1..Left(s)'
      BY <1>1, <1>4 DEF Extended
    <3>2. ~AllEvents(s)' /\ worker'[s] \in {"done", "returned"}
      BY <1>2, <2>2, <3>1 DEF AllEvents
    <3>3. ASSUME \A j \in 1..Left(s)' : j < k => queue'[s][j].kind = "event"
          PROVE  Ending(s, worker[s]) /\ made[s] = Had(s) + k - 1
      <4>1. AllEvents(s)
        BY <3>1, <3>3 DEF AllEvents
      <4>2. CASE worker[s] = "error"
        BY <1>4, <1>5, <4>1, <4>2 DEF Honest
      <4>3. CASE worker[s] = "done"
        BY <1>4, <1>5, <4>1, <4>3 DEF Honest
      <4> QED BY <2>2, <4>2, <4>3
    <3>4. ASSUME NEW i \in 1..Left(s)', queue'[s][i].kind # "event",
                 \A j \in 1..Left(s)' : j < i => queue'[s][j].kind = "event"
          PROVE  Ending(s, queue'[s][i].kind) /\ made[s] = Had(s) + i - 1
      <4>1. CASE i = k
        BY <3>1, <3>3, <3>4, <4>1
      <4>2. CASE i \in 1..Left(s)
        <5>1. queue[s][i].kind # "event" /\ queue'[s][i] = queue[s][i]
          BY <3>1, <3>4, <4>2
        <5>2. \A j \in 1..Left(s) : j < i => queue[s][j].kind = "event"
          BY <3>1, <3>4, <4>2
        <5> QED BY <1>5, <4>2, <5>1, <5>2 DEF Honest
      <4> QED BY <3>1, <4>1, <4>2
    <3>5. /\ made'[s] = made[s] /\ Had(s)' = Had(s) /\ result'[s] = "open"
          /\ \A kind : Ending(s, kind) => Ending(s, kind)'
      BY <1>1, <1>4, <1>5 DEF Ending
    <3> QED BY <3>2, <3>4, <3>5 DEF Honest
  <2> QED BY <1>1, <2>1, <2>2 DEF Putting
<1>6. ASSUME Honest(s), result[s] # "open"
      PROVE  Honest(s)'
  BY <1>1, <1>4, <1>6 DEF Honest, Ending
<1> QED BY <1>1, <1>3, <1>5, <1>6 DEF Good

LEMMA LateGood ==
  ASSUME Types, NEW s \in Stream, Good(s), LoopLate(s)
  PROVE  Good(s)'
<1>1. /\ worker[s] \in Putting /\ ~Stopped(s) /\ late' # 0 /\ GiveUp(s)
      /\ made' = made /\ got' = got /\ result' = result
      /\ queue'[s] = queue[s] \/ Extended(s)
  <2>1. late' = late + 1 /\ late \in Nat
    BY BlockingBridgeAssumption DEF LoopLate, Types
  <2>2. queue'[s] = queue[s] \/ Extended(s)
    BY AppendExtends DEF LoopLate
  <2> QED BY <2>1, <2>2 DEF LoopLate
<1>2. worker'[s] \in {"done", "returned"}
  BY <1>1 DEF GiveUp, Close, Types
<1>3. Ordered(s)'
  BY <1>1, <1>2, PuttingOrdered DEF Good
<1> QED BY <1>1, <1>3 DEF Good

LEMMA NobodyGood ==
  ASSUME Types, NEW s \in Stream, Good(s), NobodyTakes(s)
  PROVE  Good(s)'
<1>1. /\ worker[s] \in Putting /\ result[s] # "open" /\ GiveUp(s)
      /\ made' = made /\ got' = got /\ result' = result /\ queue' = queue /\ late' = late
  BY DEF NobodyTakes, Stopped
<1>2. worker'[s] \in {"done", "returned"}
  BY <1>1 DEF GiveUp, Close, Types
<1>3. Ordered(s)'
  BY <1>1, <1>2, PuttingOrdered DEF Good
<1>4. cause[s] # "running" => cause'[s] = cause[s]
  BY <1>1 DEF GiveUp, Types
<1>5. Had(s)' = Had(s)
  BY <1>1, Lengths
<1>6. Honest(s) => Honest(s)'
  BY <1>1, <1>4, <1>5 DEF Honest, Ending
<1> QED BY <1>1, <1>3, <1>6 DEF Good

(* The first item leaves, the others move up.                              *)
LEMMA ReceiveGood ==
  ASSUME Types, NEW s \in Stream, Good(s), Receive(s)
  PROVE  Good(s)'
<1>1. /\ worker' = worker /\ made' = made /\ cause' = cause /\ late' = late
      /\ result[s] = "open" /\ queue[s] # <<>> /\ queue'[s] = Tail(queue[s])
  BY DEF Receive, Types
<1>2. /\ Left(s) \in Nat /\ Had(s) \in Nat /\ made[s] \in Nat
      /\ queue[s] \in Seq(Item) /\ got[s] \in Seq(0..MaxEvents)
  BY Lengths DEF Types
<1>3. /\ 1 \in 1..Left(s) /\ Head(queue[s]) = queue[s][1]
      /\ Left(s)' = Left(s) - 1
      /\ \A i \in 1..Left(s)' :
           i + 1 \in 1..Left(s) /\ queue'[s][i] = queue[s][i + 1]
  BY <1>1, <1>2 DEF Left
<1>4. worker[s] \notin {"unsubmitted", "queued"}
  BY <1>1 DEF Good, Ordered
<1>5. CASE queue[s][1].kind = "event"
  <2>1. result' = result /\ got'[s] = Append(got[s], queue[s][1].n)
    BY <1>3, <1>5 DEF Receive, Types
  <2>2. queue[s][1].n = Had(s) + 1
    BY <1>3, <1>5 DEF Good, Ordered
  <2>3. /\ Had(s)' = Had(s) + 1
        /\ \A i \in 1..Had(s)' : got'[s][i] = i
    <3>1. /\ Had(s)' = Had(s) + 1 /\ got'[s][Had(s) + 1] = Had(s) + 1
          /\ \A i \in 1..Had(s) : got'[s][i] = got[s][i]
      BY <1>2, <2>1, <2>2 DEF Had
    <3>2. \A i \in 1..Had(s) : got[s][i] = i
      BY DEF Good, Ordered
    <3> QED BY <1>2, <3>1, <3>2
  <2>4. AllEvents(s)' <=> AllEvents(s)
    <3>1. AllEvents(s) => AllEvents(s)'
      BY <1>3 DEF AllEvents
    <3>2. ASSUME AllEvents(s)', NEW i \in 1..Left(s)
          PROVE  queue[s][i].kind = "event"
      <4>1. i = 1 \/ (i - 1 \in 1..Left(s)' /\ (i - 1) + 1 = i)
        BY <1>2, <1>3
      <4> QED BY <1>3, <1>5, <3>2, <4>1 DEF AllEvents
    <3> QED BY <3>1, <3>2 DEF AllEvents
  <2>5. \A i \in 1..Left(s)' :
          queue'[s][i].kind = "event" => queue'[s][i].n = Had(s)' + i
    <3> SUFFICES ASSUME NEW i \in 1..Left(s)', queue'[s][i].kind = "event"
                 PROVE  queue'[s][i].n = Had(s)' + i
      OBVIOUS
    <3>1. i + 1 \in 1..Left(s) /\ queue'[s][i] = queue[s][i + 1]
      BY <1>3
    <3>2. queue[s][i + 1].n = Had(s) + (i + 1)
      BY <3>1 DEF Good, Ordered
    <3> QED BY <1>2, <2>3, <3>1, <3>2
  <2>6. \A i, j \in 1..Left(s)' :
          i < j /\ queue'[s][j].kind = "event" => queue'[s][i].kind = "event"
    <3> SUFFICES ASSUME NEW i \in 1..Left(s)', NEW j \in 1..Left(s)',
                        i < j, queue'[s][j].kind = "event"
                 PROVE  queue'[s][i].kind = "event"
      OBVIOUS
    <3>1. /\ i + 1 \in 1..Left(s) /\ queue'[s][i] = queue[s][i + 1]
          /\ j + 1 \in 1..Left(s) /\ queue'[s][j] = queue[s][j + 1]
      BY <1>3
    <3>2. i + 1 < j + 1
      BY <1>2
    <3> QED BY <3>1, <3>2 DEF Good, Ordered
  <2>7. Had(s)' + Left(s)' = Had(s) + Left(s)
    BY <1>2, <1>3, <2>3
  <2>8. Ordered(s)'
    BY <1>1, <1>4, <2>1, <2>3, <2>4, <2>5, <2>6, <2>7 DEF Good, Ordered
  <2>9. ASSUME Honest(s)
        PROVE  Honest(s)'
    <3>1. ASSUME NEW i \in 1..Left(s)', queue'[s][i].kind # "event",
                 \A j \in 1..Left(s)' : j < i => queue'[s][j].kind = "event"
          PROVE  Ending(s, queue'[s][i].kind) /\ made[s] = Had(s)' + i - 1
      <4>1. i + 1 \in 1..Left(s) /\ queue[s][i + 1].kind = queue'[s][i].kind
        BY <1>3
      <4>2. ASSUME NEW j \in 1..Left(s), j < i + 1
            PROVE  queue[s][j].kind = "event"
        <5>1. j = 1 \/ (j - 1 \in 1..Left(s)' /\ j - 1 < i /\ (j - 1) + 1 = j)
          BY <1>2, <1>3, <4>2
        <5> QED BY <1>3, <1>5, <3>1, <5>1
      <4>3. Ending(s, queue[s][i + 1].kind) /\ made[s] = Had(s) + (i + 1) - 1
        BY <1>1, <2>9, <3>1, <4>1, <4>2 DEF Honest
      <4> QED BY <1>2, <2>3, <4>1, <4>3
    <3> QED BY <1>1, <2>1, <2>4, <2>7, <2>9, <3>1 DEF Honest, Ending
  <2> QED BY <1>1, <2>8, <2>9 DEF Good
<1>6. CASE queue[s][1].kind # "event"
  <2>0. queue[s][1] \in Item
    BY <1>2, <1>3 DEF Left
  <2>1. /\ got' = got /\ result'[s] = queue[s][1].kind /\ result'[s] \in {"done", "error"}
        /\ Had(s)' = Had(s)
    <3>1. queue[s][1].kind \in {"done", "error"}
      BY <1>6, <2>0 DEF Item, Putting
    <3>2. got' = got /\ result'[s] = queue[s][1].kind
      BY <1>3, <1>6 DEF Receive, Types
    <3> QED BY <3>1, <3>2, Lengths
  <2>2. \A i \in 1..Left(s) : queue[s][i].kind # "event"
    <3> SUFFICES ASSUME NEW i \in 1..Left(s), queue[s][i].kind = "event"
                 PROVE  FALSE
      OBVIOUS
    <3>1. i = 1 \/ 1 < i
      BY <1>2
    <3> QED BY <1>3, <1>6, <3>1 DEF Good, Ordered
  <2>3. worker[s] \notin {"pulling", "event"}
    BY <1>3, <1>6 DEF Good, Ordered, AllEvents
  <2>4. Ordered(s)'
    BY <1>1, <1>3, <1>4, <2>1, <2>2, <2>3 DEF Good, Ordered
  <2>5. ASSUME Honest(s)
        PROVE  Honest(s)'
    <3>1. \A j \in 1..Left(s) : j < 1 => queue[s][j].kind = "event"
      BY <1>2
    <3>2. Ending(s, queue[s][1].kind) /\ made[s] = Had(s) + 1 - 1
      BY <1>1, <1>3, <1>6, <2>5, <3>1 DEF Honest
    <3> QED BY <1>1, <1>2, <2>1, <3>2 DEF Honest, Ending
  <2> QED BY <1>1, <2>4, <2>5 DEF Good
<1> QED BY <1>5, <1>6

LEMMA AbandonGood ==
  ASSUME Types, NEW s \in Stream, Good(s), Abandon(s)
  PROVE  Good(s)'
<1>1. /\ worker' = worker /\ made' = made /\ queue' = queue /\ got' = got
      /\ cause' = cause /\ late' = late /\ result'[s] = "abandoned"
  BY DEF Abandon, Types
<1>2. Left(s)' = Left(s) /\ Had(s)' = Had(s)
  BY <1>1, Lengths
<1>3. Ordered(s)' /\ Honest(s)'
  BY <1>1, <1>2 DEF Good, Ordered, Honest, AllEvents
<1> QED BY <1>3 DEF Good

(***************************************************************************)
(* The theorems.                                                           *)
(***************************************************************************)

LEMMA BridgeStep ==
  ASSUME BridgeInv, [Next]_vars
  PROVE  BridgeInv'
<1>1. Types'
  BY TypesStep DEF BridgeInv
<1>2. ASSUME NEW s \in Stream, Submit(s) \/ Produce(s) \/ Receive(s) \/ Abandon(s),
             NEW t \in Stream
      PROVE  Good(t)'
  <2>1. CASE t # s
    BY <1>2, <2>1, OnlyOne, OthersKeep DEF BridgeInv
  <2>2. Good(s)'
    BY <1>2, PullGood, PutGood, LateGood, NobodyGood, ReceiveGood, AbandonGood
       DEF BridgeInv, Produce
  <2> QED BY <2>1, <2>2
<1>3. ASSUME UNCHANGED vars, NEW t \in Stream
      PROVE  Good(t)'
  BY <1>3, OthersKeep DEF BridgeInv, vars, Untouched
<1> QED BY <1>1, <1>2, <1>3 DEF BridgeInv, Next

LEMMA BridgeAlways == Spec => []BridgeInv
<1>1. Init => BridgeInv
  <2> SUFFICES ASSUME Init
               PROVE  BridgeInv
    OBVIOUS
  <2>1. Types
    BY BlockingBridgeAssumption DEF Init, Types, Phase
  <2>2. ASSUME NEW s \in Stream
        PROVE  Good(s)
    BY <2>2 DEF Init, Good, Ordered, Honest, AllEvents, Left, Had
  <2> QED BY <2>1, <2>2 DEF BridgeInv
<1>2. BridgeInv /\ [Next]_vars => BridgeInv'
  BY BridgeStep
<1> QED BY <1>1, <1>2, PTL DEF Spec

(* However late the event loop is and whenever the consumer leaves, the    *)
(* consumer of a stream has its iterator's events from the first on, in    *)
(* order, without a gap and none twice.                                    *)
THEOREM InOrder == Spec => []EventsInOrder
<1>1. BridgeInv => EventsInOrder
  <2> SUFFICES ASSUME BridgeInv, NEW s \in Stream
               PROVE  got[s] = [i \in 1..Len(got[s]) |-> i]
    BY DEF EventsInOrder
  <2>1. got[s] \in Seq(0..MaxEvents) /\ \A i \in 1..Len(got[s]) : got[s][i] = i
    BY DEF BridgeInv, Types, Good, Ordered, Had
  <2> DEFINE g == got[s]
  <2>2. g \in Seq(0..MaxEvents) /\ \A i \in 1..Len(g) : g[i] = i
    BY <2>1
  <2> HIDE DEF g
  <2>3. g = [i \in 1..Len(g) |-> i]
    BY <2>2
  <2> QED BY <2>3 DEF g
<1> QED BY <1>1, BridgeAlways, PTL

(* A loop that takes every put in time ends a stream truthfully: as done   *)
(* only when the iterator was exhausted, as failed only when it raised,    *)
(* and in both cases after all of its events.                              *)
THEOREM Honesty == Spec => []HonestEnd
<1>1. BridgeInv => HonestEnd
  BY DEF BridgeInv, Good, Honest, Ending, HonestEnd, Had
<1> QED BY <1>1, BridgeAlways, PTL

(* Every variable keeps its type: in particular no queue outgrows its      *)
(* places, and no consumer receives an event that was never yielded.       *)
THEOREM TypeCorrect == Spec => []TypeOK
<1>1. BridgeInv => TypeOK
  <2> SUFFICES ASSUME BridgeInv
               PROVE  TypeOK
    OBVIOUS
  <2>1. ASSUME NEW s \in Stream
        PROVE  got[s] \in Seq(1..MaxEvents)
    <3>1. got[s] \in Seq(0..MaxEvents) /\ \A i \in 1..Len(got[s]) : got[s][i] = i
      BY <2>1 DEF BridgeInv, Types, Good, Ordered, Had
    <3> DEFINE g == got[s]
    <3>2. g \in Seq(0..MaxEvents) /\ \A i \in 1..Len(g) : g[i] = i
      BY <3>1
    <3> HIDE DEF g
    <3>3. \A i \in 1..Len(g) : g[i] \in 1..MaxEvents
      BY <3>2, BlockingBridgeAssumption
    <3>4. g \in Seq(1..MaxEvents)
      BY <3>2, <3>3, BlockingBridgeAssumption
    <3> QED BY <3>4 DEF g
  <2>2. got \in [Stream -> Seq(1..MaxEvents)]
    BY <2>1 DEF BridgeInv, Types
  <2> QED BY <2>2 DEF BridgeInv, Types, TypeOK
<1> QED BY <1>1, BridgeAlways, PTL
=============================================================================
