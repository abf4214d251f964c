---------------------------- MODULE VoiceLoopProofs ----------------------------
(***************************************************************************)
(* Proofs about VoiceLoop and the supervision of its worker, for every     *)
(* length of the queue and of utterances, and however many wake words,     *)
(* microphone failures, recordings and processes there are.                *)
(***************************************************************************)
EXTENDS VoiceLoop, SequenceTheorems, TLAPS

(***************************************************************************)
(* The worker.                                                             *)
(***************************************************************************)

WorkerInv == WorkerTypeOK /\ WorkerOwned

(* A caller goes from one of its stages to another.                        *)
LEMMA GotoType ==
  ASSUME WorkerTypeOK, NEW c \in Caller,
         NEW s \in {"idle", "probe", "spawn", "poll"} \cup Outcome, Goto(c, s)
  PROVE  stage' \in [Caller -> {"idle", "probe", "spawn", "poll"} \cup Outcome]
BY DEF WorkerTypeOK, Goto

LEMMA ReturnType ==
  ASSUME WorkerTypeOK, NEW c \in Caller, NEW outcome \in Outcome, Return(c, outcome)
  PROVE  stage' \in [Caller -> {"idle", "probe", "spawn", "poll"} \cup Outcome]
BY GotoType DEF Return

(* Emptying the handle leaves no worker behind.                            *)
LEMMA EmptiedOwned ==
  ASSUME WorkerInv, Emptied({owned}),
         stage' \in [Caller -> {"idle", "probe", "spawn", "poll"} \cup Outcome]
  PROVE  WorkerInv'
BY DEF WorkerInv, WorkerTypeOK, WorkerOwned, Emptied, Live

(* A process is started only when none lives.                              *)
LEMMA StartedOwned ==
  ASSUME WorkerInv, ~(owned # 0 /\ worker[owned] \in Live), Started,
         stage' \in [Caller -> {"idle", "probe", "spawn", "poll"} \cup Outcome]
  PROVE  WorkerInv'
<1>1. \A i \in Processes : worker[i] \notin Live
  BY SpeechWorkerAssumption DEF WorkerInv, WorkerTypeOK, WorkerOwned
<1>2. PICK i \in Processes : worker' = [worker EXCEPT ![i] = "loading"] /\ owned' = i
  BY DEF Started
<1>3. WorkerTypeOK'
  BY <1>2 DEF WorkerInv, WorkerTypeOK, Live
<1>4. WorkerOwned'
  BY <1>1, <1>2 DEF WorkerInv, WorkerTypeOK, WorkerOwned
<1> QED BY <1>3, <1>4 DEF WorkerInv

LEMMA StageOnly ==
  ASSUME WorkerInv, UNCHANGED <<worker, owned>>,
         stage' \in [Caller -> {"idle", "probe", "spawn", "poll"} \cup Outcome]
  PROVE  WorkerInv'
BY DEF WorkerInv, WorkerTypeOK, WorkerOwned

(* Whatever a caller does.                                                 *)
LEMMA EnsureOwned ==
  ASSUME WorkerInv, NEW c \in Caller, Ensure(c)
  PROVE  WorkerInv'
<1>1. WorkerTypeOK
  BY DEF WorkerInv
<1>2. CASE FirstProbe(c)
  <2>1. Return(c, "ok") \/ Goto(c, "spawn") \/ Return(c, "failed")
    BY <1>2 DEF FirstProbe
  <2> QED BY <1>1, <1>2, <2>1, GotoType, ReturnType, StageOnly DEF FirstProbe, Outcome
<1>3. CASE Spawn(c)
  <2>1. CASE owned # 0 /\ worker[owned] \in Live
    BY <1>1, <1>3, <2>1, GotoType, StageOnly DEF Spawn
  <2>2. CASE ~(owned # 0 /\ worker[owned] \in Live)
    <3>1. (Started /\ Goto(c, "poll")) \/ (Emptied({owned}) /\ Return(c, "failed"))
      BY <1>3, <2>2 DEF Spawn
    <3> QED BY <1>1, <2>2, <3>1, GotoType, ReturnType, StartedOwned, EmptiedOwned DEF Outcome
  <2> QED BY <2>1, <2>2
<1>4. CASE Poll(c)
  BY <1>1, <1>4, ReturnType, StageOnly, EmptiedOwned DEF Poll, Kill, Outcome
<1>5. CASE Deadline(c)
  BY <1>1, <1>5, ReturnType, EmptiedOwned DEF Deadline, Kill, Outcome
<1> QED BY <1>2, <1>3, <1>4, <1>5 DEF Ensure

LEMMA ProcessOwned ==
  ASSUME WorkerInv, NEW i \in Processes, WorkerStep(i)
  PROVE  WorkerInv'
BY DEF WorkerInv, WorkerTypeOK, WorkerOwned, WorkerStep, Live

LEMMA WorkerStepInv ==
  ASSUME WorkerInv, [Next]_vars
  PROVE  WorkerInv'
<1>1. ASSUME UNCHANGED workerVars
      PROVE  WorkerInv'
  BY <1>1 DEF workerVars, WorkerInv, WorkerTypeOK, WorkerOwned
<1>2. CASE CaptureStep \/ EchoFades \/ UNCHANGED vars
  BY <1>1, <1>2 DEF CaptureStep, Reopen, Take, Detect, Push, EchoFades, vars
<1>3. CASE Supervise
  BY <1>3, EnsureOwned, ProcessOwned DEF Supervise
<1>4. CASE PipelineStep
  <2>1. CASE BootEnds \/ EnsureEnds
    BY <2>1, GotoType, StageOnly DEF BootEnds, EnsureEnds, Caller, WorkerInv
  <2>2. CASE ReceiveWake
    <3>1. UNCHANGED <<worker, owned>> /\ (Goto("warmup", "probe") \/ UNCHANGED stage)
      BY <2>2 DEF ReceiveWake
    <3> QED BY <1>1, <3>1, GotoType, StageOnly DEF Caller, WorkerInv, workerVars
  <2>3. CASE ReceiveUtterance
    <3>1. UNCHANGED <<worker, owned>> /\ (Goto("pipeline", "probe") \/ UNCHANGED stage)
      BY <2>3 DEF ReceiveUtterance
    <3> QED BY <1>1, <3>1, GotoType, StageOnly DEF Caller, WorkerInv, workerVars
  <2>4. CASE TranscribeFails
    BY <2>4, EmptiedOwned DEF TranscribeFails, Kill, WorkerInv, WorkerTypeOK
  <2>5. CASE Ignore \/ Reply \/ Request \/ Think \/ GuardEnds
    BY <1>1, <2>5 DEF Ignore, Reply, Request, Think, GuardEnds
  <2> QED BY <1>4, <2>1, <2>2, <2>3, <2>4, <2>5 DEF PipelineStep
<1> QED BY <1>2, <1>3, <1>4 DEF Next

(* One speech-to-text worker at a time, and none that nothing can stop, for*)
(* any number of processes, whatever the two callers' time limits and looks*)
(* at the port do to each other.                                           *)
THEOREM OneWorker == Spec => []WorkerOwned
<1>1. Init => WorkerInv
  BY DEF Init, WorkerInit, WorkerInv, WorkerTypeOK, WorkerOwned, Live, Outcome
<1>2. WorkerInv /\ [Next]_vars => WorkerInv'
  BY WorkerStepInv
<1>3. WorkerInv => WorkerOwned
  BY DEF WorkerInv
<1> QED BY <1>1, <1>2, <1>3, PTL DEF Spec

(***************************************************************************)
(* Types.                                                                  *)
(***************************************************************************)

Segment ==
  [speaking : BOOLEAN, preroll : Seq(SUBSET Speech), candidate : 0..(SpeechStart - 1),
   current : 0..(MaxUtterance - 1), speech : Nat, silence : Nat, own : SUBSET Speech]

(* A segment that may just have become long enough                         *)
Longer ==
  [speaking : BOOLEAN, preroll : Seq(SUBSET Speech), candidate : 0..(SpeechStart - 1),
   current : Nat, speech : Nat, silence : Nat, own : SUBSET Speech]

(* What is in the queue, and what the capture thread and the pipeline have *)
CaptureType ==
  /\ mode \in {"wakeword", "transcript_prefix"} /\ local \in BOOLEAN
  /\ chunk \in Chunk \cup {"none"}
  /\ segment \in Segment /\ Len(segment.preroll) <= PreRoll
  /\ counter \in 0..MaxWakes /\ activation \in Activation
  /\ wakes \in 0..MaxWakes /\ reopens \in 0..MaxReopens /\ counter <= wakes

QueueType ==
  /\ events \in Seq(Event) /\ Len(events) <= EventQueue
  /\ files \subseteq Files /\ orphans \subseteq Files

PipelineType ==
  /\ pc \in {"boot", "off", "recv", "ensure", "transcribe", "think", "guard"}
  /\ awaiting \in 0..MaxWakes /\ utterance \in Event
  /\ paused \in BOOLEAN /\ waited \in BOOLEAN /\ echo \in Speech \cup {"none"}
  /\ asked \subseteq 0..MaxWakes

TypeInv == CaptureType /\ QueueType /\ PipelineType

(* The pre-roll with one more chunk                                        *)
LEMMA PrerollType ==
  ASSUME NEW S, NEW seq \in Seq(S), NEW x \in S, Len(seq) <= PreRoll
  PROVE  LET all == Append(seq, x)
             preroll == SubSeq(all, IF Len(all) > PreRoll THEN 2 ELSE 1, Len(all))
         IN  preroll \in Seq(S) /\ Len(preroll) <= PreRoll
<1> DEFINE all == Append(seq, x)
<1> USE VoiceLoopAssumption
<1>1. all \in Seq(S) /\ Len(all) = Len(seq) + 1 /\ Len(seq) \in Nat
  OBVIOUS
<1>2. CASE Len(all) > PreRoll
  <2>1. SubSeq(all, 2, Len(all)) \in Seq(S) /\ Len(SubSeq(all, 2, Len(all))) = Len(seq)
    BY <1>1
  <2> QED BY <1>2, <2>1
<1>3. CASE ~(Len(all) > PreRoll)
  <2>1. SubSeq(all, 1, Len(all)) \in Seq(S) /\ Len(SubSeq(all, 1, Len(all))) = Len(all)
    BY <1>1
  <2> QED BY <1>1, <1>3, <2>1
<1> QED BY <1>2, <1>3

LEMMA QuietType == Quiet \in Segment /\ Quiet.preroll = <<>>
BY VoiceLoopAssumption DEF Quiet, Segment

(* A segment from its parts                                                *)
LEMMA Parts ==
  ASSUME NEW speaking \in BOOLEAN, NEW preroll \in Seq(SUBSET Speech), NEW candidate \in 0..(SpeechStart - 1),
         NEW current \in Nat, NEW speech \in Nat, NEW silence \in Nat, NEW own \in SUBSET Speech
  PROVE  LET s == [speaking |-> speaking, preroll |-> preroll, candidate |-> candidate,
                   current |-> current, speech |-> speech, silence |-> silence, own |-> own]
         IN  s \in Longer /\ (current \in 0..(MaxUtterance - 1) => s \in Segment)
BY DEF Longer, Segment

LEMMA LengthenedType ==
  ASSUME segment \in Segment, Len(segment.preroll) <= PreRoll
  PROVE  /\ Lengthened \in Longer
         /\ Len(Lengthened.preroll) <= PreRoll
         /\ ~Ended(Lengthened) => Lengthened \in Segment
<1> DEFINE own == {chunk} \cap Speech
           voiced == chunk # "silence"
           all == Append(segment.preroll, own)
           preroll == SubSeq(all, IF Len(all) > PreRoll THEN 2 ELSE 1, Len(all))
           candidate == segment.candidate + 1
<1>1. /\ segment.preroll \in Seq(SUBSET Speech) /\ own \in SUBSET Speech
      /\ segment.speaking \in BOOLEAN /\ segment.own \in SUBSET Speech
      /\ segment.candidate \in 0..(SpeechStart - 1) /\ segment.current \in 0..(MaxUtterance - 1)
      /\ segment.speech \in Nat /\ segment.silence \in Nat
  BY DEF Segment
<1>0. segment = [speaking |-> segment.speaking, preroll |-> segment.preroll,
                 candidate |-> segment.candidate, current |-> segment.current,
                 speech |-> segment.speech, silence |-> segment.silence, own |-> segment.own]
  BY DEF Segment
<1>2. preroll \in Seq(SUBSET Speech) /\ Len(preroll) <= PreRoll
  BY <1>1, PrerollType, Zenon
<1>n. Len(preroll) \in Nat
  BY <1>2, LenProperties
<1>m. SpeechStart \in Nat \ {0} /\ MaxUtterance \in Nat \ {0} /\ PreRoll \in Nat
  BY VoiceLoopAssumption
<1>3. CASE segment.speaking
  <2> DEFINE newOwn == segment.own \cup own
             speech == IF voiced THEN segment.speech + 1 ELSE segment.speech
             silence == IF voiced THEN 0 ELSE segment.silence + 1
  <2>1. Lengthened = [segment EXCEPT !.current = @ + 1, !.own = newOwn,
                                     !.speech = speech, !.silence = silence]
    BY <1>3, Zenon DEF Lengthened
  <2>2. newOwn \in SUBSET Speech
    BY <1>1, Zenon
  <2>3. speech \in Nat /\ silence \in Nat /\ segment.current + 1 \in Nat
    BY <1>1
  <2> HIDE DEF newOwn, speech, silence
  <2>4. Lengthened = [speaking |-> segment.speaking, preroll |-> segment.preroll,
                      candidate |-> segment.candidate, current |-> segment.current + 1,
                      speech |-> speech, silence |-> silence, own |-> newOwn]
    BY <1>0, <2>1
  <2>5. /\ Lengthened \in Longer /\ Lengthened.preroll = segment.preroll
        /\ Lengthened.current = segment.current + 1
        /\ Lengthened.current \in 0..(MaxUtterance - 1) => Lengthened \in Segment
    BY <1>1, <2>2, <2>3, <2>4, Parts
  <2>6. Lengthened.speaking
    BY <1>3, <2>4
  <2>7. ~Ended(Lengthened) => Lengthened.current \in 0..(MaxUtterance - 1)
    BY <1>m, <2>3, <2>5, <2>6 DEF Ended
  <2> QED BY <2>5, <2>7
<1>4. CASE ~segment.speaking /\ ~voiced
  <2>1. Lengthened = [segment EXCEPT !.preroll = preroll, !.candidate = 0]
    BY <1>4, Zenon DEF Lengthened
  <2> HIDE DEF preroll
  <2>2. Lengthened = [speaking |-> segment.speaking, preroll |-> preroll,
                      candidate |-> 0, current |-> segment.current,
                      speech |-> segment.speech, silence |-> segment.silence, own |-> segment.own]
    BY <1>0, <2>1
  <2>3. 0 \in 0..(SpeechStart - 1) /\ segment.current \in Nat
    BY <1>1, <1>m
  <2> QED BY <1>1, <1>2, <2>2, <2>3, Parts
<1>5. CASE ~segment.speaking /\ voiced /\ candidate < SpeechStart
  <2>1. Lengthened = [segment EXCEPT !.preroll = preroll, !.candidate = candidate]
    BY <1>5, Zenon DEF Lengthened
  <2>2. candidate \in 0..(SpeechStart - 1) /\ segment.current \in Nat
    BY <1>1, <1>5, <1>m
  <2> HIDE DEF preroll, candidate
  <2>3. Lengthened = [speaking |-> segment.speaking, preroll |-> preroll,
                      candidate |-> candidate, current |-> segment.current,
                      speech |-> segment.speech, silence |-> segment.silence, own |-> segment.own]
    BY <1>0, <2>1
  <2> QED BY <1>1, <1>2, <2>2, <2>3, Parts
<1>6. CASE ~segment.speaking /\ voiced /\ ~(candidate < SpeechStart)
  <2> DEFINE heard == UNION {preroll[i] : i \in DOMAIN preroll}
  <2>1. Lengthened = [Quiet EXCEPT !.speaking = TRUE, !.speech = candidate,
                                   !.current = Len(preroll), !.own = heard]
    BY <1>6, Zenon DEF Lengthened
  <2>2. candidate \in Nat /\ 0 \in 0..(SpeechStart - 1)
    BY <1>1, <1>m
  <2>3. heard \in SUBSET Speech
    <3>1. DOMAIN preroll = 1..Len(preroll) /\ \A i \in 1..Len(preroll) : preroll[i] \in SUBSET Speech
      BY <1>2, LenProperties, ElementOfSeq, Zenon
    <3> QED BY <3>1, Zenon
  <2> HIDE DEF preroll, candidate, heard
  <2>4. Lengthened = [speaking |-> TRUE, preroll |-> <<>>, candidate |-> 0, current |-> Len(preroll),
                      speech |-> candidate, silence |-> 0, own |-> heard]
    BY <2>1 DEF Quiet
  <2>a. <<>> \in Seq(SUBSET Speech) /\ TRUE \in BOOLEAN /\ 0 \in Nat
    OBVIOUS
  <2>5. /\ Lengthened \in Longer /\ (Len(preroll) \in 0..(MaxUtterance - 1) => Lengthened \in Segment)
    BY <1>n, <2>a, <2>2, <2>3, <2>4, Parts, Zenon
  <2>b. Lengthened.preroll = <<>> /\ Lengthened.current = Len(preroll) /\ Lengthened.speaking
    BY <2>4
  <2>6. ~Ended(Lengthened) => Lengthened.current \in 0..(MaxUtterance - 1)
    BY <1>m, <1>n, <2>b DEF Ended
  <2> QED BY <1>m, <2>5, <2>b, <2>6
<1> QED BY <1>3, <1>4, <1>5, <1>6

LEMMA ActivationType ==
  /\ NoActivation \in Activation /\ NoEvent \in Event
  /\ \A a \in Activation : WakeDetected(a) \in Event
  /\ \A a \in Activation, n \in Files : Utterance(a, n) \in Event
<1>1. MaxWakes \in Nat /\ MaxFiles \in Nat
  BY VoiceLoopAssumption
<1>2. NoActivation \in Activation
  BY <1>1 DEF NoActivation, Activation
<1>3. \A a \in Activation : WakeDetected(a) \in Event
  BY <1>1 DEF WakeDetected, Event
<1>4. \A a \in Activation, n \in Files : Utterance(a, n) \in Event
  BY <1>1 DEF Utterance, Event, Files
<1> QED BY <1>2, <1>3, <1>4 DEF NoEvent

LEMMA SendsType ==
  ASSUME QueueType, NEW e \in Event, Sends(e)
  PROVE  events' \in Seq(Event) /\ Len(events') <= EventQueue
<1>1. EventQueue \in Nat
  BY VoiceLoopAssumption
<1>2. CASE Len(events) < EventQueue
  BY <1>1, <1>2 DEF QueueType, Sends
<1>3. CASE ~(Len(events) < EventQueue)
  BY <1>3 DEF QueueType, Sends
<1> QED BY <1>2, <1>3

LEMMA HeadType ==
  ASSUME QueueType, events # <<>>, events' = Tail(events)
  PROVE  /\ Head(events) \in Event
         /\ events' \in Seq(Event) /\ Len(events') <= EventQueue
<1>1. EventQueue \in Nat /\ events \in Seq(Event)
  BY VoiceLoopAssumption DEF QueueType
<1>2. Head(events) \in Event /\ Tail(events) \in Seq(Event) /\ Len(Tail(events)) = Len(events) - 1
  BY <1>1, HeadTailProperties
<1> QED BY <1>1, <1>2 DEF QueueType

LEMMA DetectType ==
  ASSUME TypeInv, Detect
  PROVE  TypeInv'
<1> DEFINE a == [id |-> counter + 1, wake |-> wakes + 1]
<1>1. MaxWakes \in Nat
  BY VoiceLoopAssumption
<1>2. counter + 1 \in 0..MaxWakes /\ wakes + 1 \in 0..MaxWakes
  BY <1>1 DEF TypeInv, CaptureType, Detect
<1>3. a \in Activation
  BY <1>2 DEF Activation
<1> HIDE DEF a
<1>4. wakes' = wakes + 1 /\ counter' = counter + 1 /\ activation' = a /\ Sends(WakeDetected(a))
  BY DEF Detect, a
<1>5. WakeDetected(a) \in Event
  BY <1>3, ActivationType
<1>6. QueueType'
  BY <1>4, <1>5, SendsType DEF TypeInv, QueueType, Detect
<1>7. PipelineType'
  BY DEF TypeInv, PipelineType, Detect, pipelineVars
<1>8. CaptureType'
  <2>1. chunk' = "voice" /\ UNCHANGED <<config, segment, reopens>>
    BY DEF Detect
  <2>2. counter' <= wakes'
    BY <1>1, <1>4 DEF TypeInv, CaptureType
  <2> QED BY <1>2, <1>3, <1>4, <2>1, <2>2 DEF TypeInv, CaptureType, config, Chunk
<1> QED BY <1>6, <1>7, <1>8 DEF TypeInv

LEMMA PushType ==
  ASSUME TypeInv, Push
  PROVE  TypeInv'
<1>1. segment \in Segment /\ Len(segment.preroll) <= PreRoll
  BY DEF TypeInv, CaptureType
<1>2. segment' \in Segment /\ Len(segment'.preroll) <= PreRoll
  <2>1. CASE Ended(Lengthened)
    <3>1. segment' = Quiet /\ PreRoll \in Nat
      BY <2>1, VoiceLoopAssumption DEF Push
    <3> QED BY <3>1, QuietType
  <2>2. CASE ~Ended(Lengthened)
    BY <1>1, <2>2, LengthenedType DEF Push
  <2> QED BY <2>1, <2>2
<1>3. activation' \in Activation
  BY ActivationType DEF TypeInv, CaptureType, Push
<1>4. CaptureType'
  <2>1. chunk' = "none" /\ UNCHANGED <<config, counter, wakes, reopens>>
    BY DEF Push
  <2> QED BY <1>2, <1>3, <2>1 DEF TypeInv, CaptureType, config
<1>5. PipelineType'
  BY DEF TypeInv, PipelineType, Push, pipelineVars
<1>6. QueueType'
  <2>1. CASE UNCHANGED <<files, events, orphans>>
    BY <2>1 DEF TypeInv, QueueType
  <2>2. ASSUME NEW n \in Files, WriteWav(n), Sends(Utterance(activation', n)),
               orphans' = IF Len(events) < EventQueue THEN orphans ELSE orphans \cup {n}
        PROVE  QueueType'
    <3>2. Utterance(activation', n) \in Event
      BY <1>3, ActivationType
    <3>3. events' \in Seq(Event) /\ Len(events') <= EventQueue
      BY <2>2, <3>2, SendsType DEF TypeInv
    <3>4. files' \subseteq Files /\ orphans' \subseteq Files
      BY <2>2 DEF WriteWav, TypeInv, QueueType
    <3> QED BY <3>3, <3>4 DEF QueueType
  <2>3. ASSUME NEW n \in Files, WriteWav(n), orphans' = orphans \cup {n}, UNCHANGED events
        PROVE  QueueType'
    BY <2>3 DEF WriteWav, TypeInv, QueueType
  <2> QED BY <2>1, <2>2, <2>3 DEF Push
<1> QED BY <1>4, <1>5, <1>6 DEF TypeInv

LEMMA CaptureStepType ==
  ASSUME TypeInv, CaptureStep
  PROVE  TypeInv'
<1>1. CASE Reopen
  <2>1. PreRoll \in Nat /\ MaxWakes \in Nat /\ MaxReopens \in Nat
    BY VoiceLoopAssumption
  <2>2. CaptureType'
    BY <1>1, <2>1, QuietType, ActivationType DEF TypeInv, CaptureType, Reopen, Anew, config
  <2> QED BY <1>1, <2>2 DEF TypeInv, QueueType, PipelineType, Reopen, pipelineVars
<1>2. CASE Take
  <2>1. PreRoll \in Nat
    BY VoiceLoopAssumption
  <2>2. chunk' \in Chunk \cup {"none"}
    BY <1>2 DEF TypeInv, CaptureType, PipelineType, Take, Sounds, Chunk, Speech
  <2>3. CaptureType'
    BY <1>2, <2>1, <2>2, QuietType DEF TypeInv, CaptureType, Take, config, history
  <2> QED BY <1>2, <2>3 DEF TypeInv, QueueType, PipelineType, Take, pipelineVars, history
<1>3. CASE Detect
  BY <1>3, DetectType
<1>4. CASE Push
  BY <1>4, PushType
<1> QED BY <1>1, <1>2, <1>3, <1>4 DEF CaptureStep

LEMMA PipelineStepType ==
  ASSUME TypeInv, PipelineStep
  PROVE  TypeInv'
<1> USE DEF TypeInv
<1>0. MaxWakes \in Nat /\ UNCHANGED captureVars
  BY VoiceLoopAssumption
  DEF PipelineStep, BootEnds, ReceiveWake, ReceiveUtterance, EnsureEnds, TranscribeFails, Ignore,
      Reply, Request, Think, GuardEnds
<1>c. CaptureType'
  <2>1. UNCHANGED <<config, captureVars, wakes, reopens>>
    BY DEF PipelineStep, BootEnds, ReceiveWake, ReceiveUtterance, EnsureEnds, TranscribeFails,
           Ignore, Reply, Request, Think, GuardEnds, history
  <2> QED BY <2>1 DEF CaptureType, config, captureVars
<1>d. ASSUME Done, UNCHANGED <<events, awaiting, asked, orphans>>, echo' \in Speech \cup {"none"}
      PROVE  QueueType' /\ PipelineType'
  BY <1>d, ActivationType DEF Done, QueueType, PipelineType
<1>1. CASE BootEnds
  BY <1>1, <1>c DEF BootEnds, QueueType, PipelineType, history
<1>2. CASE ReceiveWake
  <2>1. Head(events) \in Event /\ QueueType'
    BY <1>2, HeadType DEF ReceiveWake, QueueType, history
  <2>2. Head(events).by.id \in 0..MaxWakes
    BY <2>1 DEF Event, Activation
  <2> QED BY <1>2, <1>c, <2>1, <2>2 DEF ReceiveWake, PipelineType, history
<1>3. CASE ReceiveUtterance
  <2>1. Head(events) \in Event /\ QueueType'
    BY <1>3, HeadType DEF ReceiveUtterance, QueueType, history
  <2>2. awaiting' = 0 /\ paused' \in BOOLEAN /\ waited' \in BOOLEAN /\ utterance' = Head(events)
        /\ pc' \in {"ensure", "transcribe"} /\ UNCHANGED <<echo, asked>>
    BY <1>3 DEF ReceiveUtterance, StillAwaiting, history
  <2> QED BY <1>0, <1>c, <2>1, <2>2 DEF PipelineType
<1>4. CASE EnsureEnds
  <2>1. CASE stage["pipeline"] = "ok"
    BY <1>4, <1>c, <2>1 DEF EnsureEnds, Continue, QueueType, PipelineType, history
  <2>2. CASE stage["pipeline"] # "ok"
    BY <1>4, <1>c, <1>d, <2>2 DEF EnsureEnds, PipelineType, history
  <2> QED BY <2>1, <2>2
<1>5. CASE TranscribeFails \/ Ignore \/ GuardEnds
  BY <1>5, <1>c, <1>d DEF TranscribeFails, Ignore, GuardEnds, PipelineType, history
<1>r. CASE Reply
  BY <1>r, <1>c, <1>d DEF Reply, Speak, Speech, PipelineType, history
<1>6. CASE Request
  <2>1. utterance.by.wake \in 0..MaxWakes
    BY DEF PipelineType, Event, Activation
  <2> QED BY <1>6, <1>c, <2>1 DEF Request, Continue, QueueType, PipelineType
<1>7. CASE Think
  BY <1>7, <1>c DEF Think, Speak, Speech, Continue, QueueType, PipelineType, history
<1> QED BY <1>1, <1>2, <1>3, <1>4, <1>5, <1>r, <1>6, <1>7 DEF PipelineStep

LEMMA TypeStep ==
  ASSUME TypeInv, [Next]_vars
  PROVE  TypeInv'
<1>1. ASSUME UNCHANGED voiceVars
      PROVE  TypeInv'
  BY <1>1 DEF voiceVars, config, captureVars, pipelineVars, history, TypeInv, CaptureType,
              QueueType, PipelineType
<1>2. CASE EchoFades
  BY <1>2 DEF EchoFades, config, captureVars, pipelineVars, history, TypeInv, CaptureType,
              QueueType, PipelineType
<1>3. CASE Supervise
  BY <1>1, <1>3 DEF Supervise
<1>4. CASE UNCHANGED vars
  BY <1>1, <1>4 DEF vars
<1> QED BY <1>2, <1>3, <1>4, CaptureStepType, PipelineStepType DEF Next

LEMMA TypeAlways == Spec => []TypeInv
<1>1. Init => TypeInv
  <2> SUFFICES ASSUME Init
               PROVE  TypeInv
    OBVIOUS
  <2>1. /\ MaxWakes \in Nat /\ MaxReopens \in Nat /\ PreRoll \in Nat /\ EventQueue \in Nat
    BY VoiceLoopAssumption
  <2>2. CaptureType
    BY <2>1, QuietType, ActivationType DEF Init, CaptureType
  <2>3. QueueType
    BY <2>1 DEF Init, QueueType
  <2>4. PipelineType
    <3>1. pc \in {"boot", "recv"}
      BY DEF Init
    <3>2. asked = {} /\ awaiting = 0 /\ utterance = NoEvent
      BY DEF Init
    <3>3. paused \in BOOLEAN /\ waited \in BOOLEAN /\ echo \in Speech \cup {"none"}
      BY DEF Init
    <3> QED BY <2>1, <3>1, <3>2, <3>3, ActivationType DEF PipelineType
  <2> QED BY <2>2, <2>3, <2>4 DEF TypeInv
<1>2. TypeInv /\ [Next]_vars => TypeInv'
  BY TypeStep
<1> QED BY <1>1, <1>2, PTL DEF Spec

(***************************************************************************)
(* The pause, and KITT's own voice.                                        *)
(***************************************************************************)

(* The capture thread is paused as long as an utterance is worked on, and  *)
(* an answer is heard only while it is.                                    *)
PauseInv ==
  /\ paused = TRUE <=> pc \in {"ensure", "transcribe", "think", "guard"}
  /\ echo = "answer" => pc = "guard"

LEMMA PauseStep ==
  ASSUME TypeInv, PauseInv, [Next]_vars
  PROVE  PauseInv'
<1> USE DEF PauseInv
<1>1. CASE CaptureStep
  BY <1>1 DEF CaptureStep, Reopen, Take, Detect, Push, pipelineVars
<1>2. CASE PipelineStep
  <2>1. CASE BootEnds \/ ReceiveWake
    BY <2>1 DEF BootEnds, ReceiveWake
  <2>2. CASE ReceiveUtterance
    BY <2>2 DEF ReceiveUtterance
  <2>3. CASE EnsureEnds
    BY <2>3 DEF EnsureEnds, Continue, Done
  <2>4. CASE TranscribeFails \/ Ignore
    BY <2>4 DEF TranscribeFails, Ignore, Transcribed, Done
  <2>5. CASE Request
    BY <2>5 DEF Request, Transcribed, Continue
  <2>r. CASE Reply
    BY <2>r DEF Reply, Speak, Transcribed, Done
  <2>6. CASE Think
    BY <2>6 DEF Think, Continue
  <2>7. CASE GuardEnds
    BY <2>7 DEF GuardEnds, Done
  <2> QED BY <1>2, <2>1, <2>2, <2>3, <2>4, <2>5, <2>r, <2>6, <2>7 DEF PipelineStep
<1>3. CASE EchoFades
  BY <1>3 DEF EchoFades, pipelineVars
<1>4. CASE Supervise \/ UNCHANGED vars
  BY <1>4 DEF Supervise, vars, voiceVars, pipelineVars
<1> QED BY <1>1, <1>2, <1>3, <1>4 DEF Next

(* What the segmenter has is not of an answer.                             *)
OtherSpeech == SUBSET (Speech \ {"answer"})
Others(seg) == seg.own \in OtherSpeech /\ seg.preroll \in Seq(OtherSpeech)

OwnInv == chunk # "answer" /\ Others(segment)

LEMMA LengthenedOthers ==
  ASSUME TypeInv, OwnInv
  PROVE  Others(Lengthened)
<1> DEFINE own == {chunk} \cap Speech
           voiced == chunk # "silence"
           all == Append(segment.preroll, own)
           preroll == SubSeq(all, IF Len(all) > PreRoll THEN 2 ELSE 1, Len(all))
           candidate == segment.candidate + 1
<1>1. segment \in Segment /\ Len(segment.preroll) <= PreRoll
  BY DEF TypeInv, CaptureType
<1>2. own \in OtherSpeech
  BY DEF OwnInv, OtherSpeech
<1>3. segment.own \in OtherSpeech /\ segment.preroll \in Seq(OtherSpeech)
  BY DEF OwnInv, Others
<1>4. preroll \in Seq(OtherSpeech)
  BY <1>1, <1>2, <1>3, PrerollType, Zenon
<1>5. CASE segment.speaking
  <2>1. Lengthened = [segment EXCEPT !.current = @ + 1, !.own = @ \cup own,
                             !.speech = IF voiced THEN @ + 1 ELSE @,
                             !.silence = IF voiced THEN 0 ELSE @ + 1]
    BY <1>5, Zenon DEF Lengthened
  <2>2. segment.own \cup own \in OtherSpeech
    BY <1>2, <1>3 DEF OtherSpeech
  <2> HIDE DEF own
  <2>3. Lengthened.own = segment.own \cup own /\ Lengthened.preroll = segment.preroll
    BY <1>1, <2>1 DEF Segment
  <2> QED BY <1>3, <2>2, <2>3 DEF Others
<1>6. CASE ~segment.speaking /\ ~voiced
  <2>1. Lengthened = [segment EXCEPT !.preroll = preroll, !.candidate = 0]
    BY <1>6, Zenon DEF Lengthened
  <2> HIDE DEF preroll
  <2> QED BY <1>1, <1>3, <1>4, <2>1 DEF Segment, Others
<1>7. CASE ~segment.speaking /\ voiced /\ candidate < SpeechStart
  <2>1. Lengthened = [segment EXCEPT !.preroll = preroll, !.candidate = candidate]
    BY <1>7, Zenon DEF Lengthened
  <2> HIDE DEF preroll
  <2> QED BY <1>1, <1>3, <1>4, <2>1 DEF Segment, Others
<1>8. CASE ~segment.speaking /\ voiced /\ ~(candidate < SpeechStart)
  <2> DEFINE heard == UNION {preroll[i] : i \in DOMAIN preroll}
  <2>1. Lengthened = [Quiet EXCEPT !.speaking = TRUE, !.speech = candidate,
                                   !.current = Len(preroll), !.own = heard]
    BY <1>8, Zenon DEF Lengthened
  <2> HIDE DEF preroll
  <2>2. \A i \in DOMAIN preroll : preroll[i] \in OtherSpeech
    <3>1. DOMAIN preroll = 1..Len(preroll) /\ \A i \in 1..Len(preroll) : preroll[i] \in OtherSpeech
      BY <1>4, LenProperties, ElementOfSeq, Zenon
    <3> QED BY <3>1, Zenon
  <2>3. heard \in OtherSpeech
    BY <2>2 DEF OtherSpeech
  <2> HIDE DEF heard
  <2>4. Lengthened.own = heard /\ Lengthened.preroll = <<>>
    BY <2>1 DEF Quiet
  <2> QED BY <2>3, <2>4 DEF Others
<1> QED BY <1>5, <1>6, <1>7, <1>8

LEMMA QuietOthers == Others(Quiet)
BY DEF Others, OtherSpeech, Quiet

LEMMA OwnStep ==
  ASSUME TypeInv, PauseInv, OwnInv, [Next]_vars
  PROVE  OwnInv'
<1>a. UNCHANGED <<chunk, segment>> => OwnInv'
  BY DEF OwnInv, Others
<1>1. CASE Reopen
  BY <1>1, QuietOthers DEF Reopen, Anew, OwnInv
<1>2. CASE Take
  <2>1. CASE paused = TRUE
    BY <1>2, <2>1, QuietOthers DEF Take, OwnInv
  <2>2. CASE paused = FALSE
    <3>1. echo # "answer"
      BY <2>2 DEF PauseInv
    <3>2. chunk' # "answer" /\ UNCHANGED segment
      BY <1>2, <2>2, <3>1 DEF Take, Sounds
    <3> QED BY <3>2 DEF OwnInv, Others
  <2> QED BY <2>1, <2>2 DEF TypeInv, PipelineType
<1>3. CASE Detect
  BY <1>3 DEF Detect, OwnInv, Others
<1>4. CASE Push
  <2>1. Others(segment')
    BY <1>4, LengthenedOthers, QuietOthers DEF Push
  <2> QED BY <1>4, <2>1 DEF Push, OwnInv
<1>5. CASE PipelineStep
  BY <1>5, <1>a DEF PipelineStep, BootEnds, ReceiveWake, ReceiveUtterance, EnsureEnds,
     TranscribeFails, Ignore, Reply, Request, Think, GuardEnds, captureVars
<1>6. CASE EchoFades \/ Supervise \/ UNCHANGED vars
  BY <1>6, <1>a DEF EchoFades, Supervise, vars, voiceVars, captureVars
<1> QED
  BY <1>1, <1>2, <1>3, <1>4, <1>5, <1>6 DEF Next, CaptureStep

LEMMA PauseAlways == Spec => []PauseInv
<1>1. Init => PauseInv
  BY DEF Init, PauseInv
<1>2. TypeInv /\ PauseInv /\ [Next]_vars => PauseInv'
  BY PauseStep
<1> QED BY <1>1, <1>2, TypeAlways, PTL DEF Spec

(* KITT does not listen to its answers: nothing of one is part of what is  *)
(* recorded, however long capture, pipeline and the echo take.  (Replies to*)
(* "status" and "repeat" have no echo guard, and may be recorded.)         *)
THEOREM Deaf == Spec => []AnswersIgnored
<1>1. Init => OwnInv
  BY QuietOthers DEF Init, OwnInv
<1>2. TypeInv /\ PauseInv /\ OwnInv /\ [Next]_vars => OwnInv'
  BY OwnStep
<1>3. TypeInv /\ OwnInv => AnswersIgnored
  BY LengthenedOthers DEF AnswersIgnored, Others, OtherSpeech
<1> QED BY <1>1, <1>2, <1>3, TypeAlways, PauseAlways, PTL DEF Spec

(***************************************************************************)
(* Recordings.                                                             *)
(***************************************************************************)

(* The utterances of a queue, and their recordings                         *)
Utterances(es) == {j \in DOMAIN es : es[j].kind = "utterance"}
Recorded(es) == {es[i].file : i \in Utterances(es)}
OnceEach(es) == \A i, j \in Utterances(es) : es[i].file = es[j].file => i = j

Current == IF paused THEN {utterance.file} ELSE {}

(* Each recording on disk is one utterance's: of one in the queue, of the  *)
(* one that is worked on, or of one that no event is about.                *)
FilesInv ==
  /\ files = orphans \cup Current \cup Recorded(events)
  /\ OnceEach(events)
  /\ Current \cap orphans = {} /\ Recorded(events) \cap (orphans \cup Current) = {}

LEMMA AppendRecorded ==
  ASSUME NEW es \in Seq(Event), NEW e \in Event, OnceEach(es),
         e.kind = "utterance" => e.file \notin Recorded(es)
  PROVE  /\ OnceEach(Append(es, e))
         /\ Recorded(Append(es, e)) =
              Recorded(es) \cup (IF e.kind = "utterance" THEN {e.file} ELSE {})
<1> DEFINE all == Append(es, e)
           n == Len(es) + 1
<1>1. /\ Len(es) \in Nat /\ DOMAIN es = 1..Len(es) /\ DOMAIN all = 1..n
      /\ all[n] = e /\ \A i \in 1..Len(es) : all[i] = es[i]
  OBVIOUS
<1> HIDE DEF all
<1>2. Utterances(all) = Utterances(es) \cup (IF e.kind = "utterance" THEN {n} ELSE {})
  BY <1>1 DEF Utterances
<1>3. \A i \in Utterances(es) : all[i] = es[i] /\ i # n
  BY <1>1 DEF Utterances
<1>4. Recorded(all) = Recorded(es) \cup (IF e.kind = "utterance" THEN {e.file} ELSE {})
  BY <1>1, <1>2, <1>3 DEF Recorded
<1>5. OnceEach(all)
  <2> SUFFICES ASSUME NEW i \in Utterances(all), NEW j \in Utterances(all), all[i].file = all[j].file
               PROVE  i = j
    BY DEF OnceEach
  <2>2. CASE i \in Utterances(es) /\ j \in Utterances(es)
    BY <1>3, <2>2 DEF OnceEach
  <2>3. CASE i = n /\ j = n
    BY <2>3
  <2>4. CASE i \in Utterances(es) /\ j = n /\ e.kind = "utterance"
    BY <1>1, <1>3, <2>4 DEF Recorded
  <2>5. CASE i = n /\ j \in Utterances(es) /\ e.kind = "utterance"
    BY <1>1, <1>3, <2>5 DEF Recorded
  <2> QED BY <1>2, <2>2, <2>3, <2>4, <2>5
<1> QED BY <1>4, <1>5 DEF all

LEMMA TailRecorded ==
  ASSUME NEW es \in Seq(Event), es # <<>>, OnceEach(es)
  PROVE  /\ OnceEach(Tail(es))
         /\ Recorded(es) = Recorded(Tail(es)) \cup
                             (IF Head(es).kind = "utterance" THEN {Head(es).file} ELSE {})
         /\ Head(es).kind = "utterance" => Head(es).file \notin Recorded(Tail(es))
<1> DEFINE rest == Tail(es)
           head == Head(es)
<1>1. /\ Len(es) \in Nat /\ Len(es) > 0 /\ DOMAIN es = 1..Len(es)
      /\ DOMAIN rest = 1..(Len(es) - 1)
      /\ head = es[1] /\ \A i \in 1..(Len(es) - 1) : rest[i] = es[i + 1]
  OBVIOUS
<1> HIDE DEF rest, head
<1>2. \A i \in Utterances(rest) : i + 1 \in Utterances(es) /\ rest[i] = es[i + 1] /\ i \in Nat /\ i # 0
  BY <1>1 DEF Utterances
<1>3. \A i \in Utterances(es) : i # 1 => i - 1 \in Utterances(rest) /\ es[i] = rest[i - 1]
  BY <1>1 DEF Utterances
<1>4. 1 \in Utterances(es) <=> head.kind = "utterance"
  BY <1>1 DEF Utterances
<1>5. OnceEach(rest)
  <2> SUFFICES ASSUME NEW i \in Utterances(rest), NEW j \in Utterances(rest), rest[i].file = rest[j].file
               PROVE  i = j
    BY DEF OnceEach
  <2>2. es[i + 1].file = es[j + 1].file => i + 1 = j + 1
    BY <1>2 DEF OnceEach
  <2> QED BY <1>2, <2>2
<1>6. head.kind = "utterance" => head.file \notin Recorded(rest)
  <2>1. ASSUME head.kind = "utterance", NEW i \in Utterances(rest), rest[i].file = head.file
        PROVE  FALSE
    <3>1. 1 = i + 1
      BY <1>1, <1>2, <1>4, <2>1 DEF OnceEach
    <3> QED BY <1>2, <3>1
  <2> QED BY <2>1 DEF Recorded
<1>7. Recorded(es) = Recorded(rest) \cup (IF head.kind = "utterance" THEN {head.file} ELSE {})
  <2>1. ASSUME NEW f \in Recorded(es)
        PROVE  f \in Recorded(rest) \/ (head.kind = "utterance" /\ f = head.file)
    BY <1>1, <1>3, <1>4 DEF Recorded
  <2>2. Recorded(rest) \subseteq Recorded(es)
    BY <1>2 DEF Recorded
  <2>3. head.kind = "utterance" => head.file \in Recorded(es)
    BY <1>1, <1>4 DEF Recorded
  <2> QED BY <2>1, <2>2, <2>3
<1> QED BY <1>5, <1>6, <1>7 DEF rest, head

LEMMA FilesKept ==
  ASSUME FilesInv, UNCHANGED <<files, orphans, paused, utterance, events>>
  PROVE  FilesInv'
BY DEF FilesInv, Current, Recorded, Utterances, OnceEach

(* The end of an utterance deletes its recording, and no other.            *)
LEMMA DoneFiles ==
  ASSUME FilesInv, paused = TRUE, Done, UNCHANGED <<events, orphans>>
  PROVE  FilesInv'
<1>1. Current' = {} /\ files' = files \ Current
  BY DEF Done, Current
<1>2. Recorded(events)' = Recorded(events) /\ (OnceEach(events) => OnceEach(events)')
  BY DEF Recorded, OnceEach, Utterances
<1> QED BY <1>1, <1>2 DEF FilesInv

LEMMA PushFiles ==
  ASSUME TypeInv, FilesInv, Push
  PROVE  FilesInv'
<1>1. CASE UNCHANGED <<files, events, orphans>>
  BY <1>1, FilesKept DEF Push, pipelineVars
<1>2. ASSUME NEW n \in Files \ files, WriteWav(n),
             Sends(Utterance(activation', n)),
             orphans' = IF Len(events) < EventQueue THEN orphans ELSE orphans \cup {n},
             UNCHANGED <<paused, utterance>>
      PROVE  FilesInv'
  <2> DEFINE e == Utterance(activation', n)
  <2>1. e \in Event
    <3>1. activation' \in Activation
      BY PushType DEF TypeInv, CaptureType
    <3> QED BY <3>1, ActivationType
  <2>2. e.kind = "utterance" /\ e.file = n
    BY DEF Utterance
  <2>3. n \notin orphans \cup Current \cup Recorded(events) /\ files' = files \cup {n}
        /\ Current' = Current
    BY <1>2 DEF FilesInv, WriteWav, Current
  <2>4. CASE Len(events) < EventQueue
    <3>1. events' = Append(events, e) /\ orphans' = orphans /\ events \in Seq(Event)
      BY <1>2, <2>4 DEF Sends, TypeInv, QueueType
    <3> HIDE DEF e
    <3>2. OnceEach(events') /\ Recorded(events') = Recorded(events) \cup {n}
      BY <2>1, <2>2, <2>3, <3>1, AppendRecorded DEF FilesInv
    <3>3. OnceEach(events)' /\ Recorded(events)' = Recorded(events) \cup {n}
      BY <3>2 DEF OnceEach, Recorded, Utterances
    <3> QED BY <2>3, <3>1, <3>3 DEF FilesInv
  <2>5. CASE ~(Len(events) < EventQueue)
    <3>1. events' = events /\ orphans' = orphans \cup {n}
      BY <1>2, <2>5 DEF Sends
    <3>2. OnceEach(events)' /\ Recorded(events)' = Recorded(events)
      BY <3>1 DEF FilesInv, OnceEach, Recorded, Utterances
    <3> QED BY <2>3, <3>1, <3>2 DEF FilesInv
  <2> QED BY <2>4, <2>5
<1>3. ASSUME NEW n \in Files \ files, WriteWav(n), orphans' = orphans \cup {n},
             UNCHANGED <<events, paused, utterance>>
      PROVE  FilesInv'
  <2>1. Current' = Current /\ Recorded(events)' = Recorded(events) /\ OnceEach(events)'
    BY <1>3 DEF FilesInv, Current, Recorded, Utterances, OnceEach
  <2> QED BY <1>3, <2>1 DEF FilesInv, WriteWav
<1> QED BY <1>1, <1>2, <1>3 DEF Push, pipelineVars

LEMMA DetectFiles ==
  ASSUME TypeInv, FilesInv, Detect
  PROVE  FilesInv'
<1> DEFINE a == [id |-> counter + 1, wake |-> wakes + 1]
<1>1. Sends(WakeDetected(a)) /\ activation' = a /\ UNCHANGED <<files, paused, utterance, orphans>>
  BY DEF Detect, pipelineVars
<1>2. a \in Activation
  BY <1>1, DetectType DEF TypeInv, CaptureType
<1> HIDE DEF a
<1>3. WakeDetected(a) \in Event /\ WakeDetected(a).kind = "wake"
  BY <1>2, ActivationType DEF WakeDetected
<1>4. CASE Len(events) < EventQueue
  <2>1. events' = Append(events, WakeDetected(a)) /\ events \in Seq(Event)
    BY <1>1, <1>4 DEF Sends, TypeInv, QueueType
  <2>2. OnceEach(events') /\ Recorded(events') = Recorded(events)
    BY <1>3, <2>1, AppendRecorded DEF FilesInv
  <2>3. OnceEach(events)' /\ Recorded(events)' = Recorded(events)
    BY <2>2 DEF OnceEach, Recorded, Utterances
  <2> QED BY <1>1, <2>3 DEF FilesInv, Current
<1>5. CASE ~(Len(events) < EventQueue)
  BY <1>1, <1>5, FilesKept DEF Sends
<1> QED BY <1>4, <1>5

LEMMA ReceiveFiles ==
  ASSUME TypeInv, PauseInv, FilesInv, ReceiveWake \/ ReceiveUtterance
  PROVE  FilesInv'
<1>1. events \in Seq(Event) /\ events # <<>> /\ events' = Tail(events) /\ UNCHANGED <<files, orphans>>
  BY DEF ReceiveWake, ReceiveUtterance, TypeInv, QueueType, history
<1>2. paused = FALSE
  BY DEF ReceiveWake, ReceiveUtterance, PauseInv, TypeInv, PipelineType
<1>3. OnceEach(events)' /\ Recorded(events)' = Recorded(Tail(events))
  <2>1. OnceEach(Tail(events))
    BY <1>1, TailRecorded DEF FilesInv
  <2> QED BY <1>1, <2>1 DEF OnceEach, Recorded, Utterances
<1>4. CASE ReceiveWake
  <2>1. Recorded(events) = Recorded(Tail(events))
    <3>1. Head(events).kind = "wake"
      BY <1>4 DEF ReceiveWake
    <3>2. OnceEach(events)
      BY DEF FilesInv
    <3>3. Recorded(events) = Recorded(Tail(events)) \cup
                             (IF Head(events).kind = "utterance" THEN {Head(events).file} ELSE {})
      BY <1>1, <3>2, TailRecorded
    <3> QED BY <3>1, <3>3
  <2> QED BY <1>1, <1>2, <1>3, <1>4, <2>1 DEF FilesInv, Current, ReceiveWake
<1>5. CASE ReceiveUtterance
  <2>1. Head(events).kind = "utterance" /\ utterance' = Head(events) /\ paused' = TRUE
    BY <1>5 DEF ReceiveUtterance
  <2>2. /\ Recorded(events) = Recorded(Tail(events)) \cup {Head(events).file}
        /\ Head(events).file \notin Recorded(Tail(events))
    BY <1>1, <2>1, TailRecorded DEF FilesInv
  <2>3. Current = {} /\ Current' = {Head(events).file}
    BY <1>2, <2>1 DEF Current
  <2> QED BY <1>1, <1>3, <2>2, <2>3 DEF FilesInv
<1> QED BY <1>4, <1>5

LEMMA FilesStep ==
  ASSUME TypeInv, PauseInv, FilesInv, [Next]_vars
  PROVE  FilesInv'
<1>1. CASE Reopen \/ Take
  BY <1>1, FilesKept DEF Reopen, Take, pipelineVars, history
<1>2. CASE Detect \/ Push
  BY <1>2, DetectFiles, PushFiles
<1>3. CASE ReceiveWake \/ ReceiveUtterance
  BY <1>3, ReceiveFiles
<1>4. CASE BootEnds \/ Request \/ Think
  BY <1>4, FilesKept DEF BootEnds, Request, Think, Continue, history
<1>5. CASE EnsureEnds
  <2>1. paused = TRUE
    BY <1>5 DEF EnsureEnds, PauseInv
  <2>2. Continue("transcribe") \/ Done
    BY <1>5 DEF EnsureEnds
  <2>3. UNCHANGED <<events, orphans>>
    BY <1>5 DEF EnsureEnds, history
  <2> QED BY <2>1, <2>2, <2>3, FilesKept, DoneFiles DEF Continue
<1>6. CASE TranscribeFails \/ Ignore \/ Reply \/ GuardEnds
  <2>1. paused = TRUE
    BY <1>6 DEF TranscribeFails, Ignore, Reply, GuardEnds, Transcribed, PauseInv
  <2> QED BY <1>6, <2>1, DoneFiles DEF TranscribeFails, Ignore, Reply, GuardEnds, history
<1>7. CASE EchoFades \/ Supervise \/ UNCHANGED vars
  BY <1>7, FilesKept DEF EchoFades, Supervise, vars, voiceVars, pipelineVars, history
<1> QED
  BY <1>1, <1>2, <1>3, <1>4, <1>5, <1>6, <1>7 DEF Next, CaptureStep, PipelineStep

LEMMA FilesAlways == Spec => []FilesInv
<1>1. Init => FilesInv
  <2> SUFFICES ASSUME Init
               PROVE  FilesInv
    OBVIOUS
  <2>1. Utterances(events) = {} /\ Current = {} /\ files = {} /\ orphans = {}
    BY DEF Init, Utterances, Current
  <2>2. Recorded(events) = {}
    BY <2>1 DEF Recorded
  <2> QED BY <2>1, <2>2 DEF FilesInv, OnceEach
<1>2. TypeInv /\ PauseInv /\ FilesInv /\ [Next]_vars => FilesInv'
  BY FilesStep
<1> QED BY <1>1, <1>2, TypeAlways, PauseAlways, PTL DEF Spec

(* A recording whose event was queued is on disk until the pipeline has    *)
(* done with it, on every path and after every failure, and then is gone:  *)
(* the utterance that ends takes its own recording with it and no other's. *)
(* What else is on disk are recordings that no event is about, because the *)
(* queue was full or the write failed half-way.                            *)
THEOREM Recordings == Spec => []RecordingsDeleted
<1>1. FilesInv => RecordingsDeleted
  BY DEF FilesInv, Current, Recorded, Utterances, RecordingsDeleted
<1> QED BY <1>1, FilesAlways, PTL

(***************************************************************************)
(* Requests and their wake words.  Wake words are numbered as they are     *)
(* detected; activation ids are not unique, they start again with the      *)
(* microphone.                                                             *)
(***************************************************************************)

(* An activation with an id has a wake word, and so has a wake event.      *)
Identified ==
  /\ activation.id # 0 => activation.wake # 0
  /\ \A i \in DOMAIN events :
       /\ events[i].by.id # 0 => events[i].by.wake # 0
       /\ events[i].kind = "wake" => events[i].by.wake # 0

(* The activation is the last wake word's, or none.                        *)
Bounded ==
  /\ activation.wake \in {0, wakes}
  /\ \A i \in DOMAIN events : events[i].by.wake <= wakes
  /\ utterance.by.wake <= wakes
  /\ \A a \in asked : a <= wakes

(* What is behind a wake event in the queue is by its wake word, by a later*)
(* one or by none; what is before it, is worked on or has led to a request *)
(* is by an earlier one.                                                   *)
InLine ==
  \A j \in DOMAIN events : events[j].kind = "wake" =>
    /\ utterance.by.wake < events[j].by.wake
    /\ \A a \in asked : a < events[j].by.wake
    /\ \A i \in DOMAIN events : i < j => events[i].by.wake < events[j].by.wake
    /\ \A i \in DOMAIN events : j < i => events[i].by.wake = 0 \/ events[j].by.wake <= events[i].by.wake

(* While the pipeline awaits a command, no wake word that a coming         *)
(* utterance can be by has led to a request.                               *)
Awaited ==
  awaiting # 0 =>
    /\ pc = "recv"
    /\ \A a \in asked :
         /\ activation.wake = 0 \/ a < activation.wake
         /\ \A i \in DOMAIN events : events[i].by.wake = 0 \/ a < events[i].by.wake

(* Nor has the one of the command that is worked on.                       *)
Fresh == waited = TRUE /\ pc \in {"ensure", "transcribe"} => utterance.by.wake \notin asked \cup {0}

WakeInv == Identified /\ Bounded /\ InLine /\ Awaited /\ Fresh

(* The numbers in what TypeInv says                                        *)
LEMMA Numbers ==
  ASSUME TypeInv
  PROVE  /\ wakes \in Nat /\ counter \in Nat /\ awaiting \in Nat /\ asked \subseteq Nat
         /\ activation.id \in Nat /\ activation.wake \in Nat
         /\ utterance.by.wake \in Nat /\ utterance.by.id \in Nat
         /\ \A i \in DOMAIN events :
              i \in Nat /\ events[i].by.id \in Nat /\ events[i].by.wake \in Nat
<1>1. MaxWakes \in Nat
  BY VoiceLoopAssumption
<1>2. activation \in Activation /\ utterance \in Event /\ events \in Seq(Event)
  BY DEF TypeInv, CaptureType, QueueType, PipelineType
<1>3. \A i \in DOMAIN events : i \in Nat /\ events[i] \in Event
  BY <1>2
<1>4. \A a \in Activation : a.id \in Nat /\ a.wake \in Nat
  BY <1>1 DEF Activation
<1>5. \A e \in Event : e.by \in Activation
  BY DEF Event
<1>6. wakes \in Nat /\ counter \in Nat /\ awaiting \in Nat /\ asked \subseteq Nat
  BY <1>1 DEF TypeInv, CaptureType, PipelineType
<1> QED BY <1>2, <1>3, <1>4, <1>5, <1>6

(* What is sent is behind everything else, or lost.                        *)
LEMMA SentPlaces ==
  ASSUME TypeInv, NEW e, Sends(e)
  PROVE  \A i \in DOMAIN events' :
           /\ i \in Nat
           /\ \/ i \in DOMAIN events /\ events'[i] = events[i]
              \/ events'[i] = e /\ \A j \in DOMAIN events' : j <= i
<1>1. events \in Seq(Event) /\ Len(events) \in Nat
  BY DEF TypeInv, QueueType
<1>2. CASE Len(events) < EventQueue
  <2>1. events' = Append(events, e)
    BY <1>2 DEF Sends
  <2>2. DOMAIN events' = 1..(Len(events) + 1) /\ DOMAIN events = 1..Len(events)
    BY <1>1, <2>1
  <2>3. events'[Len(events) + 1] = e /\ \A i \in 1..Len(events) : events'[i] = events[i]
    BY <1>1, <2>1
  <2> QED BY <1>1, <2>2, <2>3
<1>3. CASE ~(Len(events) < EventQueue)
  BY <1>3 DEF Sends
<1> QED BY <1>2, <1>3

LEMMA TailPlaces ==
  ASSUME TypeInv, events # <<>>
  PROVE  /\ Head(events) = events[1] /\ 1 \in DOMAIN events
         /\ \A i \in DOMAIN Tail(events) :
              /\ i \in Nat /\ 1 < i + 1
              /\ i + 1 \in DOMAIN events /\ Tail(events)[i] = events[i + 1]
<1>1. events \in Seq(Event)
  BY DEF TypeInv, QueueType
<1> QED BY <1>1

LEMMA NothingHappens ==
  ASSUME WakeInv, UNCHANGED <<activation, events, wakes, utterance, asked, awaiting, pc, waited>>
  PROVE  WakeInv'
BY DEF WakeInv, Identified, Bounded, InLine, Awaited, Fresh

(* What joins the queue has no wake word or none that is older than all    *)
(* before, and a wake event has a newer one.                               *)
LEMMA JoinsInLine ==
  ASSUME TypeInv, WakeInv, UNCHANGED <<utterance, asked>>,
         NEW e, Sends(e), e.by.wake \in Nat,
         e.by.wake = 0 \/ wakes <= e.by.wake, e.kind = "wake" => wakes < e.by.wake
  PROVE  InLine'
<1> SUFFICES ASSUME NEW j \in DOMAIN events', events'[j].kind = "wake"
             PROVE  /\ utterance'.by.wake < events'[j].by.wake
                    /\ \A x \in asked' : x < events'[j].by.wake
                    /\ \A i \in DOMAIN events' : i < j => events'[i].by.wake < events'[j].by.wake
                    /\ \A i \in DOMAIN events' :
                         j < i => events'[i].by.wake = 0 \/ events'[j].by.wake <= events'[i].by.wake
  BY DEF InLine
<1>1. \A i \in DOMAIN events' :
        /\ i \in Nat
        /\ \/ i \in DOMAIN events /\ events'[i] = events[i]
           \/ events'[i] = e /\ \A k \in DOMAIN events' : k <= i
  BY SentPlaces
<1>2. CASE j \in DOMAIN events /\ events'[j] = events[j]
  <2>1. /\ utterance.by.wake < events[j].by.wake
        /\ \A x \in asked : x < events[j].by.wake
        /\ \A i \in DOMAIN events : i < j => events[i].by.wake < events[j].by.wake
        /\ \A i \in DOMAIN events :
             j < i => events[i].by.wake = 0 \/ events[j].by.wake <= events[i].by.wake
    BY <1>2 DEF WakeInv, InLine
  <2>2. events[j].by.wake <= wakes /\ events[j].by.wake \in Nat /\ wakes \in Nat
    BY <1>2, Numbers DEF WakeInv, Bounded
  <2>3. ASSUME NEW i \in DOMAIN events', i < j
        PROVE  events'[i].by.wake < events'[j].by.wake
    <3>1. i \in Nat /\ j \in Nat
      BY <1>1
    <3>2. ~ \A k \in DOMAIN events' : k <= i
      BY <2>3, <3>1
    <3>3. i \in DOMAIN events /\ events'[i] = events[i]
      BY <1>1, <3>2
    <3> QED BY <1>2, <2>1, <2>3, <3>3
  <2>4. ASSUME NEW i \in DOMAIN events', j < i
        PROVE  events'[i].by.wake = 0 \/ events'[j].by.wake <= events'[i].by.wake
    <3>1. CASE i \in DOMAIN events /\ events'[i] = events[i]
      BY <1>2, <2>1, <2>4, <3>1
    <3>2. CASE events'[i] = e
      BY <1>2, <2>2, <3>2
    <3> QED BY <1>1, <3>1, <3>2
  <2> QED BY <1>2, <2>1, <2>3, <2>4
<1>3. CASE events'[j] = e /\ \A k \in DOMAIN events' : k <= j
  <2>1. wakes < e.by.wake /\ wakes \in Nat /\ asked \subseteq Nat /\ utterance.by.wake \in Nat
    BY <1>3, Numbers
  <2>2. utterance.by.wake < e.by.wake /\ \A x \in asked : x < e.by.wake
    BY <2>1 DEF WakeInv, Bounded
  <2>3. ASSUME NEW i \in DOMAIN events', i < j
        PROVE  events'[i].by.wake < events'[j].by.wake
    <3>1. i \in Nat /\ j \in Nat
      BY <1>1
    <3>2. i \in DOMAIN events /\ events'[i] = events[i]
      BY <1>1, <2>3, <3>1
    <3>3. events[i].by.wake <= wakes /\ events[i].by.wake \in Nat
      BY <3>2, Numbers DEF WakeInv, Bounded
    <3> QED BY <1>3, <2>1, <3>2, <3>3
  <2>4. \A i \in DOMAIN events' : ~(j < i)
    BY <1>1, <1>3
  <2> QED BY <1>3, <2>2, <2>3, <2>4
<1> QED BY <1>1, <1>2, <1>3

(* A wake word: its number is higher than all before.                      *)
LEMMA DetectWakes ==
  ASSUME TypeInv, WakeInv, Detect
  PROVE  WakeInv'
<1> DEFINE a == [id |-> counter + 1, wake |-> wakes + 1]
           e == WakeDetected(a)
<1>1. /\ wakes' = wakes + 1 /\ activation' = a /\ Sends(e)
      /\ UNCHANGED <<utterance, asked, awaiting, pc, waited>>
  BY DEF Detect, pipelineVars
<1>2. a.id # 0 /\ a.wake = wakes + 1
  BY Numbers
<1>3. e.kind = "wake" /\ e.by.wake = wakes + 1 /\ e.by.wake \in Nat /\ wakes \in Nat
  BY Numbers DEF WakeDetected
<1> HIDE DEF a, e
<1>4. \A i \in DOMAIN events' :
        events'[i] = e \/ (i \in DOMAIN events /\ events'[i] = events[i])
  BY <1>1, SentPlaces
<1>5. Identified' /\ Bounded'
  BY <1>1, <1>2, <1>3, <1>4, Numbers DEF WakeInv, Identified, Bounded
<1>6. InLine'
  BY <1>1, <1>3, JoinsInLine
<1>7. Awaited'
  <2> SUFFICES ASSUME awaiting # 0, NEW x \in asked
               PROVE  /\ activation'.wake = 0 \/ x < activation'.wake
                      /\ \A i \in DOMAIN events' : events'[i].by.wake = 0 \/ x < events'[i].by.wake
    BY <1>1 DEF WakeInv, Awaited
  <2>1. x <= wakes /\ x \in Nat
    BY Numbers DEF WakeInv, Bounded
  <2>2. x < wakes + 1
    BY <1>3, <2>1
  <2> QED BY <1>1, <1>2, <1>3, <1>4, <2>2 DEF WakeInv, Awaited
<1>8. Fresh'
  BY <1>1 DEF WakeInv, Fresh
<1> QED BY <1>5, <1>6, <1>7, <1>8 DEF WakeInv

(* An utterance is by the activation, or by none.                          *)
LEMMA PushWakes ==
  ASSUME TypeInv, WakeInv, Push
  PROVE  WakeInv'
<1>1. UNCHANGED <<wakes, utterance, asked, awaiting, pc, waited>>
  BY DEF Push, pipelineVars
<1>2. CASE UNCHANGED <<events, activation>>
  BY <1>1, <1>2, NothingHappens
<1>3. ASSUME NEW n, activation' \in {activation, NoActivation},
             Sends(Utterance(activation', n))
      PROVE  WakeInv'
  <2> DEFINE e == Utterance(activation', n)
  <2>1. e.kind = "utterance" /\ e.by = activation'
    BY DEF Utterance
  <2>2. Sends(e)
    BY <1>3
  <2> HIDE DEF e
  <2>3. \/ activation' = activation
        \/ activation'.wake = 0 /\ activation'.id = 0
    BY <1>3 DEF NoActivation
  <2>4. activation'.wake \in {0, wakes} /\ activation'.wake \in Nat
    BY <2>3, Numbers DEF WakeInv, Bounded
  <2>5. \A i \in DOMAIN events' :
          events'[i] = e \/ (i \in DOMAIN events /\ events'[i] = events[i])
    BY <2>2, SentPlaces
  <2>6. Identified'
    BY <2>1, <2>3, <2>5 DEF WakeInv, Identified
  <2>7. Bounded'
    BY <1>1, <2>1, <2>4, <2>5, Numbers DEF WakeInv, Bounded
  <2>8. InLine'
    <3>1. e.by.wake = 0 \/ wakes <= e.by.wake
      BY <2>1, <2>4, Numbers
    <3> QED BY <1>1, <2>1, <2>2, <2>4, <3>1, JoinsInLine
  <2>9. Awaited'
    BY <1>1, <2>1, <2>3, <2>5 DEF WakeInv, Awaited
  <2>10. Fresh'
    BY <1>1 DEF WakeInv, Fresh
  <2> QED BY <2>6, <2>7, <2>8, <2>9, <2>10 DEF WakeInv
<1> QED BY <1>2, <1>3 DEF Push

(* The microphone is opened again: the ids start anew, the activation is   *)
(* gone.                                                                   *)
LEMMA ReopenWakes ==
  ASSUME WakeInv, Reopen
  PROVE  WakeInv'
<1>1. activation' = NoActivation
      /\ UNCHANGED <<events, wakes, utterance, asked, awaiting, pc, waited>>
  BY DEF Reopen, Anew, pipelineVars
<1>2. activation'.wake = 0 /\ activation'.id = 0
  BY <1>1 DEF NoActivation
<1> QED BY <1>1, <1>2 DEF WakeInv, Identified, Bounded, InLine, Awaited, Fresh

(* The queue without its head                                              *)
LEMMA LeavesLine ==
  ASSUME TypeInv, WakeInv, events # <<>>, events' = Tail(events),
         UNCHANGED <<activation, wakes, asked>>
  PROVE  /\ Identified'
         /\ \A i \in DOMAIN events' : events'[i].by.wake <= wakes
         /\ \A j \in DOMAIN events' : events'[j].kind = "wake" =>
              /\ Head(events).by.wake < events'[j].by.wake
              /\ utterance.by.wake < events'[j].by.wake
              /\ \A a \in asked : a < events'[j].by.wake
              /\ \A i \in DOMAIN events' : i < j => events'[i].by.wake < events'[j].by.wake
              /\ \A i \in DOMAIN events' :
                   j < i => events'[i].by.wake = 0 \/ events'[j].by.wake <= events'[i].by.wake
         /\ \A i \in DOMAIN events' :
              \/ Head(events).kind # "wake" \/ events'[i].by.wake = 0
              \/ Head(events).by.wake <= events'[i].by.wake
<1>1. /\ Head(events) = events[1] /\ 1 \in DOMAIN events
      /\ \A i \in DOMAIN events' :
           /\ i \in Nat /\ 1 < i + 1
           /\ i + 1 \in DOMAIN events /\ events'[i] = events[i + 1]
  BY TailPlaces
<1>2. Identified' /\ \A i \in DOMAIN events' : events'[i].by.wake <= wakes
  BY <1>1 DEF WakeInv, Identified, Bounded
<1>3. ASSUME NEW j \in DOMAIN events', events'[j].kind = "wake"
      PROVE  /\ Head(events).by.wake < events'[j].by.wake
             /\ utterance.by.wake < events'[j].by.wake
             /\ \A a \in asked : a < events'[j].by.wake
             /\ \A i \in DOMAIN events' : i < j => events'[i].by.wake < events'[j].by.wake
             /\ \A i \in DOMAIN events' :
                  j < i => events'[i].by.wake = 0 \/ events'[j].by.wake <= events'[i].by.wake
  <2>1. /\ utterance.by.wake < events[j + 1].by.wake
        /\ \A a \in asked : a < events[j + 1].by.wake
        /\ \A i \in DOMAIN events : i < j + 1 => events[i].by.wake < events[j + 1].by.wake
        /\ \A i \in DOMAIN events :
             j + 1 < i => events[i].by.wake = 0 \/ events[j + 1].by.wake <= events[i].by.wake
    BY <1>1, <1>3 DEF WakeInv, InLine
  <2>2. \A i \in DOMAIN events' : (i < j => i + 1 < j + 1) /\ (j < i => j + 1 < i + 1)
    BY <1>1
  <2> QED BY <1>1, <2>1, <2>2
<1>4. ASSUME NEW i \in DOMAIN events', Head(events).kind = "wake"
      PROVE  events'[i].by.wake = 0 \/ Head(events).by.wake <= events'[i].by.wake
  BY <1>1, <1>4 DEF WakeInv, InLine
<1> QED BY <1>2, <1>3, <1>4

(* A wake word is awaited: no request has been by it or by a later one.    *)
LEMMA ReceiveWakeWakes ==
  ASSUME TypeInv, WakeInv, ReceiveWake
  PROVE  WakeInv'
<1>1. /\ pc = "recv" /\ events # <<>> /\ Head(events).kind = "wake" /\ events' = Tail(events)
      /\ UNCHANGED <<activation, wakes, utterance, asked, pc, waited>>
  BY DEF ReceiveWake, captureVars, history
<1>2. Identified' /\ Bounded' /\ InLine'
  BY <1>1, LeavesLine DEF WakeInv, Bounded, InLine
<1>3. Awaited'
  <2> DEFINE w == Head(events).by.wake
  <2>1. /\ w \in Nat /\ w # 0 /\ w <= wakes /\ wakes \in Nat
        /\ \A a \in asked : a < w /\ a \in Nat
    BY <1>1, TailPlaces, Numbers DEF WakeInv, Identified, Bounded, InLine
  <2>2. \A i \in DOMAIN events' : events'[i].by.wake = 0 \/ w <= events'[i].by.wake
    BY <1>1, LeavesLine
  <2>3. activation.wake = 0 \/ w <= activation.wake
    BY <2>1 DEF WakeInv, Bounded
  <2>4. \A i \in DOMAIN events' : events'[i].by.wake \in Nat
    BY <1>1, TailPlaces, Numbers
  <2>5. activation.wake \in Nat
    BY Numbers
  <2> HIDE DEF w
  <2> QED BY <1>1, <2>1, <2>2, <2>3, <2>4, <2>5 DEF Awaited
<1>4. Fresh'
  BY <1>1 DEF Fresh
<1> QED BY <1>2, <1>3, <1>4 DEF WakeInv

(* The utterance that was awaited has a wake word that led to no request.  *)
LEMMA ReceiveUtteranceWakes ==
  ASSUME TypeInv, WakeInv, ReceiveUtterance
  PROVE  WakeInv'
<1>1. /\ pc = "recv" /\ events # <<>> /\ Head(events).kind = "utterance"
      /\ events' = Tail(events) /\ utterance' = Head(events) /\ awaiting' = 0
      /\ waited' = (awaiting # 0 /\ Head(events).by.id = awaiting)
      /\ UNCHANGED <<activation, wakes, asked>>
  BY DEF ReceiveUtterance, StillAwaiting, captureVars, history
<1>2. Head(events) = events[1] /\ 1 \in DOMAIN events
  BY <1>1, TailPlaces
<1>3. Head(events).by.wake <= wakes
  BY <1>2 DEF WakeInv, Bounded
<1>4. Identified' /\ Bounded' /\ InLine'
  BY <1>1, <1>3, LeavesLine DEF WakeInv, Bounded, InLine
<1>5. Awaited'
  BY <1>1 DEF Awaited
<1>6. Fresh'
  <2> SUFFICES ASSUME awaiting # 0, Head(events).by.id = awaiting
               PROVE  Head(events).by.wake \notin asked \cup {0}
    BY <1>1 DEF Fresh
  <2>1. events[1].by.wake # 0
    BY <1>2 DEF WakeInv, Identified
  <2>2. \A a \in asked : a < events[1].by.wake
    BY <1>2, <2>1 DEF WakeInv, Awaited
  <2>3. events[1].by.wake \in Nat
    BY <1>2, Numbers
  <2> QED BY <1>2, <2>1, <2>2, <2>3
<1> QED BY <1>4, <1>5, <1>6 DEF WakeInv

(* The end of an utterance                                                 *)
LEMMA DoneWakes ==
  ASSUME TypeInv, WakeInv, Done, UNCHANGED <<activation, events, wakes, asked, awaiting>>
  PROVE  WakeInv'
<1>1. utterance'.by.wake = 0 /\ waited' = FALSE /\ pc' = "recv"
  BY DEF Done, NoEvent, WakeDetected, NoActivation
<1>2. \A i \in DOMAIN events : events[i].kind = "wake" => 0 < events[i].by.wake
  BY Numbers DEF WakeInv, Identified
<1>3. Bounded'
  BY <1>1, Numbers DEF WakeInv, Bounded
<1>4. InLine'
  BY <1>1, <1>2 DEF WakeInv, InLine
<1> QED BY <1>1, <1>3, <1>4 DEF WakeInv, Identified, Awaited, Fresh

(* An utterance leads to a request: its wake word is used up.              *)
LEMMA RequestWakes ==
  ASSUME TypeInv, WakeInv, Request
  PROVE  WakeInv'
<1>1. /\ pc = "transcribe" /\ pc' = "think" /\ asked' = asked \cup {utterance.by.wake}
      /\ UNCHANGED <<activation, events, wakes, utterance, awaiting, waited>>
  BY DEF Request, Transcribed, Continue, captureVars
<1>2. awaiting = 0
  BY <1>1 DEF WakeInv, Awaited
<1>3. Bounded' /\ InLine'
  BY <1>1 DEF WakeInv, Bounded, InLine
<1> QED BY <1>1, <1>2, <1>3 DEF WakeInv, Identified, Awaited, Fresh

(* The pipeline goes on with an utterance.                                 *)
LEMMA ContinueWakes ==
  ASSUME WakeInv, UNCHANGED <<activation, events, wakes, utterance, asked, awaiting, waited>>,
         pc \in {"ensure", "think", "boot"}, pc' # "ensure", pc' = "transcribe" => pc = "ensure"
  PROVE  WakeInv'
<1>1. awaiting = 0
  BY DEF WakeInv, Awaited
<1> QED BY <1>1 DEF WakeInv, Identified, Bounded, InLine, Awaited, Fresh

LEMMA WakeStep ==
  ASSUME TypeInv, WakeInv, [Next]_vars
  PROVE  WakeInv'
<1>1. CASE CaptureStep
  <2>1. CASE Take
    BY <2>1, NothingHappens DEF Take, pipelineVars, history
  <2> QED BY <1>1, <2>1, ReopenWakes, DetectWakes, PushWakes DEF CaptureStep
<1>2. CASE BootEnds
  BY <1>2, ContinueWakes DEF BootEnds, captureVars, history
<1>3. CASE EnsureEnds
  BY <1>3, ContinueWakes, DoneWakes DEF EnsureEnds, Continue, captureVars, history
<1>4. CASE TranscribeFails \/ Ignore \/ Reply \/ GuardEnds
  BY <1>4, DoneWakes DEF TranscribeFails, Ignore, Reply, GuardEnds, captureVars, history
<1>5. CASE Think
  BY <1>5, ContinueWakes DEF Think, Continue, captureVars, history
<1>6. CASE EchoFades \/ Supervise \/ UNCHANGED vars
  BY <1>6, NothingHappens DEF EchoFades, Supervise, vars, voiceVars, captureVars, pipelineVars, history
<1> QED
  BY <1>1, <1>2, <1>3, <1>4, <1>5, <1>6, ReceiveWakeWakes, ReceiveUtteranceWakes, RequestWakes
  DEF Next, PipelineStep

(* In wakeword mode a request has the wake word it follows, and no other   *)
(* request has it: however many events are lost and however often the      *)
(* activation ids start again.                                             *)
THEOREM OneRequestPerWake == Spec => AskHasItsWake
<1>1. Init => WakeInv
  <2> SUFFICES ASSUME Init PROVE WakeInv
    OBVIOUS
  <2>1. DOMAIN events = {}
    BY DEF Init
  <2>2. utterance.by.wake = 0 /\ activation.wake = 0 /\ activation.id = 0
    BY DEF Init, NoEvent, WakeDetected, NoActivation
  <2> QED BY <2>1, <2>2 DEF Init, WakeInv, Identified, Bounded, InLine, Awaited, Fresh
<1>2. TypeInv /\ WakeInv /\ [Next]_vars => WakeInv'
  BY WakeStep
<1>3. TypeInv /\ WakeInv => [mode = "wakeword" /\ Request => utterance.by.wake \notin asked \cup {0}]_vars
  <2> SUFFICES ASSUME TypeInv, WakeInv, mode = "wakeword", Request
               PROVE  utterance.by.wake \notin asked \cup {0}
    OBVIOUS
  <2>1. pc = "transcribe"
    BY DEF Request, Transcribed
  <2>2. waited = TRUE
    BY DEF Request, IsCommand, TypeInv, PipelineType
  <2> QED BY <2>1, <2>2 DEF WakeInv, Fresh
<1> QED BY <1>1, <1>2, <1>3, TypeAlways, PTL DEF Spec, AskHasItsWake

(* Every reachable state of the voice loop and of its worker is well typed.*)
THEOREM TypeCorrect == Spec => []TypeOK
<1>1. Init => WorkerInv
  BY DEF Init, WorkerInit, WorkerInv, WorkerTypeOK, WorkerOwned, Live, Outcome
<1>2. WorkerInv /\ [Next]_vars => WorkerInv'
  BY WorkerStepInv
<1>3. WorkerInv /\ TypeInv /\ FilesInv => TypeOK
  <2> SUFFICES ASSUME WorkerInv, TypeInv, FilesInv
               PROVE  TypeOK
    OBVIOUS
  <2>1. {paused, waited} \subseteq BOOLEAN /\ echo \in Speech \cup {"none"}
    BY DEF TypeInv, PipelineType
  <2>2. orphans \subseteq files
    BY DEF FilesInv
  <2> QED BY <2>1, <2>2 DEF WorkerInv, TypeInv, CaptureType, QueueType, PipelineType, Segment, TypeOK
<1> QED BY <1>1, <1>2, <1>3, TypeAlways, FilesAlways, PTL DEF Spec
=============================================================================
