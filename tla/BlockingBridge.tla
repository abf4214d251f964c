---------------------------- MODULE BlockingBridge ----------------------------
(***************************************************************************)
(* _astream_blocking (server.py): a synchronous iterator of turn events is *)
(* run on one of the daemon's blocking workers and handed to a coroutine   *)
(* through a bounded queue of the event loop.  The worker waits for every  *)
(* put, 30 s for an event and 5 s for the end of the stream, and gives up  *)
(* when the loop does not take it in time.                                 *)
(***************************************************************************)
EXTENDS Naturals, Sequences, FiniteSets

CONSTANTS
  Stream,    \* streams, each opened once
  Workers,   \* threads of _blocking_executor (4)
  QueueMax,  \* places of a stream's queue (128)
  MaxEvents, \* bound: events an iterator yields
  MaxLate    \* bound: puts the event loop does not take in time

ASSUME BlockingBridgeAssumption ==
  {Workers, QueueMax} \subseteq Nat \ {0} /\ {MaxEvents, MaxLate} \subseteq Nat

VARIABLES
  worker, \* per stream, where its worker is
  made,   \* per stream, the events its iterator has yielded
  queue,  \* per stream, the items in its queue
  got,    \* per stream, the events its consumer has received
  result, \* per stream, how it ended for its consumer, or "open"
  cause,  \* per stream, how its iterator ended, or "running" (history)
  late    \* the puts that were given up on a late loop (history)

vars == <<worker, made, queue, got, result, cause, late>>

(* A worker pulls the next event, or waits for a put of an event, of the   *)
(* iterator's exception, or of the end.                                    *)
Putting == {"event", "error", "done"}
Phase == {"unsubmitted", "queued", "pulling", "returned"} \cup Putting

(* An item names the last event its iterator had yielded.                  *)
Item == [kind : Putting, n : 0..MaxEvents]

TypeOK ==
  /\ worker \in [Stream -> Phase]
  /\ made \in [Stream -> 0..MaxEvents]
  /\ queue \in [Stream -> Seq(Item)] /\ \A s \in Stream : Len(queue[s]) <= QueueMax
  /\ got \in [Stream -> Seq(1..MaxEvents)]
  /\ result \in [Stream -> {"open", "done", "error", "abandoned"}]
  /\ cause \in [Stream -> {"running", "exhausted", "raised", "cut"}]
  /\ late \in 0..MaxLate

Init ==
  /\ worker = [s \in Stream |-> "unsubmitted"]
  /\ made = [s \in Stream |-> 0]
  /\ queue = [s \in Stream |-> <<>>]
  /\ got = [s \in Stream |-> <<>>]
  /\ result = [s \in Stream |-> "open"]
  /\ cause = [s \in Stream |-> "running"]
  /\ late = 0

(* The consumer's finally clause sets stop.                                *)
Stopped(s) == result[s] # "open"

Enter(s, phase) == worker' = [worker EXCEPT ![s] = phase]

(* Fault: the worker returns without a word.                               *)
FaultClose(s) == Enter(s, "returned")

(* The end of the stream is put unless the consumer has gone.              *)
Close(s) == Enter(s, IF Stopped(s) THEN "returned" ELSE "done")

Ends(s, how) == cause' = [cause EXCEPT ![s] = IF @ = "running" THEN how ELSE @]

-----------------------------------------------------------------------------
(* The worker.                                                             *)

Submit(s) ==
  /\ worker[s] = "unsubmitted"
  /\ Enter(s, "queued")
  /\ UNCHANGED <<made, queue, got, result, cause, late>>

Busy == {s \in Stream : worker[s] \in {"pulling"} \cup Putting}

Take(s) ==
  /\ worker[s] = "queued" /\ Cardinality(Busy) < Workers
  /\ Enter(s, "pulling")
  /\ UNCHANGED <<made, queue, got, result, cause, late>>

Yield(s) ==
  /\ worker[s] = "pulling" /\ made[s] < MaxEvents
  /\ made' = [made EXCEPT ![s] = @ + 1]
  /\ IF Stopped(s) THEN Close(s) /\ Ends(s, "cut") ELSE Enter(s, "event") /\ UNCHANGED cause
  /\ UNCHANGED <<queue, got, result, late>>

Exhaust(s) ==
  /\ worker[s] = "pulling"
  /\ Ends(s, "exhausted")
  /\ Close(s)
  /\ UNCHANGED <<made, queue, got, result, late>>

(* Fault: an exception ends the stream like exhaustion.                    *)
FaultRaise(s) ==
  /\ worker[s] = "pulling"
  /\ Ends(s, "raised")
  /\ Close(s)
  /\ UNCHANGED <<made, queue, got, result, late>>

Raise(s) ==
  /\ worker[s] = "pulling"
  /\ Ends(s, "raised")
  /\ Enter(s, IF Stopped(s) THEN "returned" ELSE "error")
  /\ UNCHANGED <<made, queue, got, result, late>>

Content(s) == [kind |-> worker[s], n |-> made[s]]

(* After an event comes the next one, after an exception the end.          *)
AfterPut(s) ==
  CASE worker[s] = "event" -> Enter(s, "pulling")
    [] worker[s] = "error" -> Close(s)
    [] worker[s] = "done" -> Enter(s, "returned")

Put(s) ==
  /\ worker[s] \in Putting /\ Len(queue[s]) < QueueMax
  /\ queue' = [queue EXCEPT ![s] = Append(@, Content(s))]
  /\ AfterPut(s)
  /\ UNCHANGED <<made, got, result, cause, late>>

(* Fault: the worker goes on with the next event.                          *)
FaultGiveUp(s) == AfterPut(s) /\ UNCHANGED cause

(* A put that is not taken ends the iteration.                             *)
GiveUp(s) ==
  /\ IF worker[s] = "done" THEN Enter(s, "returned") ELSE Close(s)
  /\ Ends(s, "cut")

(* The loop is late.  It may still take the item while the worker gives up.*)
LoopLate(s) ==
  /\ worker[s] \in Putting /\ ~Stopped(s) /\ late < MaxLate
  /\ late' = late + 1
  /\ GiveUp(s)
  /\ \/ UNCHANGED queue
     \/ Len(queue[s]) < QueueMax /\ queue' = [queue EXCEPT ![s] = Append(@, Content(s))]
  /\ UNCHANGED <<made, got, result>>

(* Nobody takes anything out of a full queue any more.                     *)
NobodyTakes(s) ==
  /\ worker[s] \in Putting /\ Stopped(s) /\ Len(queue[s]) = QueueMax
  /\ GiveUp(s)
  /\ UNCHANGED <<made, queue, got, result, late>>

-----------------------------------------------------------------------------
(* The consumer.                                                           *)

Receive(s) ==
  /\ worker[s] # "unsubmitted" /\ result[s] = "open" /\ queue[s] # <<>>
  /\ queue' = [queue EXCEPT ![s] = Tail(@)]
  /\ LET item == Head(queue[s])
     IN  IF item.kind = "event"
         THEN got' = [got EXCEPT ![s] = Append(@, item.n)] /\ UNCHANGED result
         ELSE result' = [result EXCEPT ![s] = item.kind] /\ UNCHANGED got
  /\ UNCHANGED <<worker, made, cause, late>>

(* The consumer is cancelled, or fails on an event.                        *)
Abandon(s) ==
  /\ worker[s] # "unsubmitted" /\ result[s] = "open"
  /\ result' = [result EXCEPT ![s] = "abandoned"]
  /\ UNCHANGED <<worker, made, queue, got, cause, late>>

-----------------------------------------------------------------------------
Pull(s) == Yield(s) \/ Exhaust(s) \/ Raise(s)
Produce(s) == Take(s) \/ Pull(s) \/ Put(s) \/ LoopLate(s) \/ NobodyTakes(s)

Next == \E s \in Stream : Submit(s) \/ Produce(s) \/ Receive(s) \/ Abandon(s)

Spec == Init /\ [][Next]_vars

(* The executor serves what is submitted, the iterator does not stall, the *)
(* loop runs what is scheduled on it.                                      *)
FairSpec ==
  /\ Spec
  /\ \A s \in Stream : SF_vars(Take(s)) /\ WF_vars(Produce(s)) /\ WF_vars(Receive(s))

-----------------------------------------------------------------------------
(* Properties.                                                             *)

(* The consumer gets the iterator's events in order, none twice, and none  *)
(* after a missing one, even when the loop is late.                        *)
EventsInOrder == \A s \in Stream : got[s] = [i \in 1..Len(got[s]) |-> i]

(* Unless the loop is late, a stream that ends as done was exhausted, and  *)
(* the consumer has all its events; one that ends as error has raised.     *)
HonestEnd ==
  late = 0 => \A s \in Stream :
    /\ result[s] = "done" => cause[s] = "exhausted" /\ Len(got[s]) = made[s]
    /\ result[s] = "error" => cause[s] = "raised" /\ Len(got[s]) = made[s]

(* Every submitted stream ends: its worker returns to the pool, whatever   *)
(* its consumer does, and the consumer, who holds the session's lock        *)
(* meanwhile, gets an end unless the loop was late.                        *)
StreamEnds ==
  /\ \A s \in Stream : worker[s] = "queued" ~> worker[s] = "returned"
  /\ \A s \in Stream : worker[s] = "queued" ~> result[s] # "open" \/ late > 0
=============================================================================
