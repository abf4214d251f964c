------------------------------ MODULE VoiceLoop ------------------------------
(***************************************************************************)
(* The voice loop of kittd (voice.rs): the capture thread with wake-word   *)
(* detector and segmenter, the bounded queue of its events, the pipeline   *)
(* thread that transcribes, asks and speaks, and the warm-up thread;       *)
(* SpeechWorker has the worker they need.                                  *)
(*                                                                         *)
(* Sound comes in chunks of one unit: silence, the user's voice, a wake    *)
(* word, or KITT's own voice, which is all that is heard while KITT speaks *)
(* and as long as its echo lasts.  KITT speaks answers, with an echo guard *)
(* after them, and replies to "status" and "repeat", with none.  The chunk *)
(* the capture thread takes is the one in the room: how far it lags behind *)
(* counts as part of the echo.                                             *)
(***************************************************************************)
EXTENDS SpeechWorker, Sequences

CONSTANTS
  EventQueue,    \* EVENT_QUEUE (8)
  SpeechStart, PreRoll, MinSpeech, SilenceLimit, MaxUtterance,  \* in chunks
  MaxWakes,      \* bound: wake words detected
  MaxFiles,      \* bound: recordings on disk at a time
  MaxReopens     \* bound: microphone failures

ASSUME VoiceLoopAssumption ==
  /\ {EventQueue, SpeechStart, MaxUtterance} \subseteq Nat \ {0}
  /\ {PreRoll, MinSpeech, SilenceLimit, MaxWakes, MaxFiles, MaxReopens} \subseteq Nat

VARIABLES
  mode,        \* the activation mode, resolved
  local,       \* whether the transcriber is local
  chunk,       \* the chunk the capture thread works on, or "none"
  segment,     \* the segmenter
  counter,     \* activation_counter
  activation,  \* active_activation, unless its command timeout has passed
  events,      \* the events between capture and pipeline
  files,       \* the recordings on disk
  paused,      \* the flag that silences the capture thread
  pc,          \* where the pipeline is
  awaiting,    \* its awaiting_activation
  utterance,   \* the event it works on
  waited,      \* its was_waiting
  echo,        \* what KITT has said that is still in the room, or "none"
  wakes,       \* the number of wake words detected (history)
  reopens,     \* the number of microphone failures (history)
  orphans,     \* the recordings that no event is about (history)
  asked        \* the wake words that led to a request (history)

captureVars == <<chunk, segment, counter, activation>>
pipelineVars == <<pc, awaiting, utterance, waited>>
config == <<mode, local>>
history == <<wakes, reopens, orphans, asked>>

voiceVars == <<config, captureVars, events, files, paused, pipelineVars, echo, history>>
vars == <<voiceVars, workerVars>>

(* What KITT says: the answer to a request, or the reply to "status" and   *)
(* "repeat"                                                                *)
Speech == {"answer", "reply"}
Chunk == {"silence", "voice", "wake"} \cup Speech
Files == 1..MaxFiles

(* An activation: its ActivationId, and which wake word it was.            *)
Activation == [id : 0..MaxWakes, wake : 0..MaxWakes]
NoActivation == [id |-> 0, wake |-> 0]

Event == [kind : {"wake", "utterance"}, by : Activation, file : 0..MaxFiles]
WakeDetected(a) == [kind |-> "wake", by |-> a, file |-> 0]
Utterance(a, n) == [kind |-> "utterance", by |-> a, file |-> n]
NoEvent == WakeDetected(NoActivation)

(* The segmenter: what the pre-roll holds (for each chunk, what of it KITT *)
(* said), and the lengths of the utterance that has begun.                 *)
Quiet == [speaking |-> FALSE, preroll |-> <<>>, candidate |-> 0,
          current |-> 0, speech |-> 0, silence |-> 0, own |-> {}]

TypeOK ==
  /\ WorkerTypeOK
  /\ mode \in {"wakeword", "transcript_prefix"} /\ local \in BOOLEAN
  /\ chunk \in Chunk \cup {"none"}
  /\ segment \in [speaking : BOOLEAN, preroll : Seq(SUBSET Speech), candidate : 0..(SpeechStart - 1),
                  current : 0..(MaxUtterance - 1), speech : Nat, silence : Nat,
                  own : SUBSET Speech]
  /\ Len(segment.preroll) <= PreRoll
  /\ counter \in 0..MaxWakes /\ activation \in Activation
  /\ events \in Seq(Event) /\ Len(events) <= EventQueue
  /\ files \subseteq Files /\ orphans \subseteq files
  /\ pc \in {"boot", "off", "recv", "ensure", "transcribe", "think", "guard"}
  /\ awaiting \in 0..MaxWakes /\ utterance \in Event
  /\ {paused, waited} \subseteq BOOLEAN /\ echo \in Speech \cup {"none"}
  /\ wakes \in 0..MaxWakes /\ reopens \in 0..MaxReopens
  /\ asked \subseteq 0..MaxWakes

(* start: transcript_prefix needs a local transcriber; with the "startup"  *)
(* strategy the worker is awaited before the threads are started.          *)
Init ==
  /\ mode \in {"wakeword", "transcript_prefix"} /\ local \in BOOLEAN
  /\ mode = "transcript_prefix" => local
  /\ pc \in IF local THEN {"boot", "recv"} ELSE {"recv"}
  /\ WorkerInit(IF pc = "boot" THEN {"pipeline"} ELSE {})
  /\ chunk = "none" /\ segment = Quiet
  /\ counter = 0 /\ activation = NoActivation
  /\ events = <<>> /\ files = {} /\ paused = FALSE
  /\ awaiting = 0 /\ utterance = NoEvent /\ waited = FALSE
  /\ echo = "none"
  /\ wakes = 0 /\ reopens = 0 /\ orphans = {} /\ asked = {}

-----------------------------------------------------------------------------
(* The capture thread.                                                     *)

Capturing == pc \notin {"boot", "off"}

(* What capture_loop begins with: detector, segmenter and counter start    *)
(* anew.                                                                   *)
Anew == segment' = Quiet /\ counter' = 0 /\ activation' = NoActivation

(* The device fails; capture_loop returns, and is called again.            *)
Reopen ==
  /\ Capturing /\ chunk = "none" /\ reopens < MaxReopens
  /\ reopens' = reopens + 1
  /\ Anew
  /\ UNCHANGED <<config, chunk, events, files, paused, pipelineVars, echo, wakes, orphans,
                 asked, workerVars>>

(* What the callback of the stream hears.  Without a detector a wake word  *)
(* is a voice like another.                                                *)
Sounds ==
  IF echo # "none" THEN {echo}
  ELSE {"silence", "voice"} \cup IF mode = "wakeword" THEN {"wake"} ELSE {}

(* The next chunk; while paused it is discarded, and what the segmenter    *)
(* has.                                                                    *)
Take ==
  /\ Capturing /\ chunk = "none"
  /\ IF paused THEN segment' = Quiet /\ UNCHANGED chunk
               ELSE chunk' \in Sounds /\ UNCHANGED segment
  /\ UNCHANGED <<config, counter, activation, events, files, paused, pipelineVars, echo,
                 history, workerVars>>

(* events.try_send                                                         *)
Sends(e) == events' = IF Len(events) < EventQueue THEN Append(events, e) ELSE events

(* The detector finds the wake word, which its score and the cooldown may  *)
(* prevent.  The event may be lost, the activation is kept.                *)
Detect ==
  /\ chunk = "wake" /\ wakes < MaxWakes
  /\ LET a == [id |-> counter + 1, wake |-> wakes + 1] IN
       /\ wakes' = wakes + 1 /\ counter' = counter + 1
       /\ activation' = a
       /\ Sends(WakeDetected(a))
  /\ chunk' = "voice"
  /\ UNCHANGED <<config, segment, files, paused, pipelineVars, echo, reopens, orphans, asked,
                 workerVars>>

(* Segmenter::push, up to the test for an end.                             *)
Lengthened ==
  LET own == {chunk} \cap Speech
      voiced == chunk # "silence"
      all == Append(segment.preroll, own)
      preroll == SubSeq(all, IF Len(all) > PreRoll THEN 2 ELSE 1, Len(all))
      candidate == segment.candidate + 1
  IN  CASE segment.speaking ->
             [segment EXCEPT !.current = @ + 1, !.own = @ \cup own,
                             !.speech = IF voiced THEN @ + 1 ELSE @,
                             !.silence = IF voiced THEN 0 ELSE @ + 1]
        [] ~segment.speaking /\ ~voiced ->
             [segment EXCEPT !.preroll = preroll, !.candidate = 0]
        [] ~segment.speaking /\ voiced /\ candidate < SpeechStart ->
             [segment EXCEPT !.preroll = preroll, !.candidate = candidate]
        [] OTHER ->
             [Quiet EXCEPT !.speaking = TRUE, !.speech = candidate, !.current = Len(preroll),
                           !.own = UNION {preroll[i] : i \in DOMAIN preroll}]

(* An utterance ends with enough silence or when it is too long.           *)
Ended(s) == s.speaking /\ (s.silence >= SilenceLimit \/ s.current >= MaxUtterance)

(* write_wav creates the file first.                                       *)
WriteWav(n) == files' = files \cup {n}

(* The segmenter takes the chunk.  An utterance with enough speech is      *)
(* recorded and its event sent, which may find the queue full: then the    *)
(* recording stays, and so does the part that was written when write_wav   *)
(* fails; nothing stays when the file cannot be created.                   *)
(* command_timeout_ms after the wake word the activation counts no more.   *)
Push ==
  /\ chunk # "none"
  /\ chunk' = "none"
  /\ segment' = IF Ended(Lengthened) THEN Quiet ELSE Lengthened
  /\ \/ \E n \in Files \ files :
          /\ Ended(Lengthened) /\ Lengthened.speech >= MinSpeech
          /\ \A k \in Files \ files : n <= k
          /\ WriteWav(n)
          /\ \/ /\ activation' \in {activation, NoActivation}
                /\ Sends(Utterance(activation', n))
                /\ orphans' = IF Len(events) < EventQueue THEN orphans ELSE orphans \cup {n}
             \/ /\ orphans' = orphans \cup {n}
                /\ UNCHANGED <<events, activation>>
     \/ UNCHANGED <<files, events, orphans, activation>>
  /\ UNCHANGED <<config, counter, paused, pipelineVars, echo, wakes, reopens, asked,
                 workerVars>>

-----------------------------------------------------------------------------
(* The pipeline.                                                           *)

(* start goes on when the worker is there, and gives up when it cannot be  *)
(* had.                                                                    *)
BootEnds ==
  /\ pc = "boot" /\ stage["pipeline"] \in Outcome
  /\ pc' = IF stage["pipeline"] = "ok" THEN "recv" ELSE "off"
  /\ Goto("pipeline", "idle")
  /\ UNCHANGED <<config, captureVars, events, files, paused, awaiting, utterance, waited, echo,
                 history, worker, owned>>

(* A wake word: KITT shows that it listens, and one warm-up thread at most *)
(* sees to the worker.                                                     *)
ReceiveWake ==
  /\ pc = "recv" /\ events # <<>> /\ Head(events).kind = "wake"
  /\ events' = Tail(events)
  /\ awaiting' = Head(events).by.id
  /\ IF local /\ stage["warmup"] = "idle" THEN Goto("warmup", "probe") ELSE UNCHANGED stage
  /\ UNCHANGED <<config, captureVars, files, paused, pc, utterance, waited, echo, history,
                 worker, owned>>

(* Fault: the wake word is awaited until the next one.                     *)
FaultStillAwaiting == awaiting

(* awaiting_activation after an utterance                                  *)
StillAwaiting == 0

(* An utterance: the microphone is ignored from now on.  was_waiting: it is*)
(* the one that follows the wake word the pipeline was last told of.       *)
ReceiveUtterance ==
  LET e == Head(events) IN
  /\ pc = "recv" /\ events # <<>> /\ e.kind = "utterance"
  /\ events' = Tail(events)
  /\ utterance' = e
  /\ paused' = TRUE
  /\ waited' = (awaiting # 0 /\ e.by.id = awaiting)
  /\ awaiting' = StillAwaiting
  /\ IF local THEN pc' = "ensure" /\ Goto("pipeline", "probe")
              ELSE pc' = "transcribe" /\ UNCHANGED stage
  /\ UNCHANGED <<config, captureVars, files, echo, history, worker, owned>>

(* Fault: the recording is left on disk.                                   *)
FaultDone ==
  /\ pc' = "recv"
  /\ paused' = FALSE
  /\ utterance' = NoEvent /\ waited' = FALSE
  /\ UNCHANGED files

(* The end of an utterance, on every path: PauseReset and TempAudioGuard.  *)
Done ==
  /\ pc' = "recv"
  /\ paused' = FALSE
  /\ files' = files \ {utterance.file}
  /\ utterance' = NoEvent /\ waited' = FALSE

Continue(next) == pc' = next /\ UNCHANGED <<files, paused, utterance, waited>>

EnsureEnds ==
  /\ pc = "ensure" /\ stage["pipeline"] \in Outcome
  /\ IF stage["pipeline"] = "ok" THEN Continue("transcribe") ELSE Done
  /\ Goto("pipeline", "idle")
  /\ UNCHANGED <<config, captureVars, events, awaiting, echo, history, worker, owned>>

(* transcribe_rich: after an error the worker is killed.                   *)
TranscribeFails ==
  /\ pc = "transcribe"
  /\ Done /\ Kill
  /\ UNCHANGED <<config, captureVars, events, awaiting, echo, history, stage>>

Transcribed == pc = "transcribe" /\ (local => "ready" \in Answers)

(* What a transcript is told apart by: whether it starts with a wake phrase*)
(* (WakePhraseMatcher), and what the words after it are                    *)
(* (detect_instant_command).                                               *)
Phrase == BOOLEAN
Words == {"nothing", "cancel", "status", "repeat", "request"}

(* In wakeword mode an awaited utterance is a command with or without a    *)
(* wake phrase.                                                            *)
IsCommand(phrase) == IF mode = "wakeword" THEN waited ELSE waited \/ phrase

(* speak: the first speech backend that can speaks, or none can.           *)
Speak(what) == echo' \in {"none", what}

(* Nothing was said to KITT, or nothing it has an answer to.               *)
Ignore ==
  /\ Transcribed
  /\ \E phrase \in Phrase, words \in Words :
       ~IsCommand(phrase) \/ words \in {"nothing", "cancel"}
  /\ Done
  /\ UNCHANGED <<config, captureVars, events, awaiting, echo, history, workerVars>>

(* "status" and "repeat" are answered at once, without an echo guard; they *)
(* are not spoken with tts_enabled off, or when there is nothing to repeat.*)
Reply ==
  /\ Transcribed
  /\ \E phrase \in Phrase, words \in Words :
       IsCommand(phrase) /\ words \in {"status", "repeat"}
  /\ Done
  /\ Speak("reply") \/ UNCHANGED echo
  /\ UNCHANGED <<config, captureVars, events, awaiting, history, workerVars>>

Request ==
  /\ Transcribed
  /\ \E phrase \in Phrase, words \in Words : IsCommand(phrase) /\ words = "request"
  /\ Continue("think")
  /\ asked' = asked \cup {utterance.by.wake}
  /\ UNCHANGED <<config, captureVars, events, awaiting, echo, wakes, reopens, orphans,
                 workerVars>>

(* run_ask, and speak if there is an answer; the echo guard follows.       *)
Think ==
  /\ pc = "think"
  /\ Continue("guard")
  /\ Speak("answer") \/ UNCHANGED echo
  /\ UNCHANGED <<config, captureVars, events, awaiting, history, workerVars>>

EchoFades ==
  /\ echo # "none"
  /\ echo' = "none"
  /\ UNCHANGED <<config, captureVars, events, files, paused, pipelineVars, history, workerVars>>

(* Fault: the pause is over before the echo is.                            *)
FaultGuardEnds ==
  /\ pc = "guard"
  /\ Done
  /\ UNCHANGED <<config, captureVars, events, awaiting, echo, history, workerVars>>

(* echo_guard_ms is taken to be longer than the echo lasts.                *)
GuardEnds ==
  /\ pc = "guard" /\ echo = "none"
  /\ Done
  /\ UNCHANGED <<config, captureVars, events, awaiting, echo, history, workerVars>>

-----------------------------------------------------------------------------
CaptureStep == Reopen \/ Take \/ Detect \/ Push
PipelineStep ==
  \/ BootEnds \/ ReceiveWake \/ ReceiveUtterance \/ EnsureEnds \/ TranscribeFails
  \/ Ignore \/ Reply \/ Request \/ Think \/ GuardEnds
Supervise ==
  /\ (\E c \in Caller : Ensure(c)) \/ (\E i \in Processes : WorkerStep(i))
  /\ UNCHANGED voiceVars

Next == CaptureStep \/ PipelineStep \/ EchoFades \/ Supervise

Spec == Init /\ [][Next]_vars

(* Threads run, sleeps and timeouts end, the transcriber, the model and the*)
(* speaker answer or time out; nothing is assumed of the user, the device  *)
(* or the worker.                                                          *)
Fairness ==
  /\ WF_vars(PipelineStep) /\ WF_vars(EchoFades)
  /\ \A c \in Caller : WF_vars(Ensure(c) /\ UNCHANGED voiceVars)

FairSpec == Spec /\ Fairness

-----------------------------------------------------------------------------
(* Properties.                                                             *)

(* In wakeword mode a request is made only for an utterance that ended     *)
(* within the timeout of a wake word, and one wake word gives one request  *)
(* at most: no utterance that merely follows is taken for a command, even  *)
(* when events are lost or activation ids start again.                     *)
AskHasItsWake ==
  [][mode = "wakeword" /\ Request => utterance.by.wake \notin asked \cup {0}]_vars

(* KITT does not listen to its answers: what the microphone takes in while *)
(* one is spoken, or its echo lasts, is never part of an utterance.  Of the*)
(* replies to "status" and to "repeat", which says an answer once more,     *)
(* this is not so: OwnVoiceIgnored, below.                                 *)
AnswersIgnored == "answer" \notin Lengthened.own

(* Recordings do not pile up: one whose event was queued is on disk until  *)
(* the pipeline has done with it, on every path, so that it is there to be *)
(* transcribed, and no longer; what else is there are the recordings that  *)
(* no event is about, since the queue was full or the write failed half-way*)
RecordingsDeleted ==
  files = orphans \cup (IF paused THEN {utterance.file} ELSE {})
                 \cup {events[i].file : i \in {j \in DOMAIN events : events[j].kind = "utterance"}}

(* Every recording that was queued is worked on to the end, whatever the   *)
(* worker, the microphone and the warm-up do meanwhile.                    *)
RecordingsServed ==
  \A n \in Files : n \in files \ orphans ~> n \notin files \ orphans

(* What documents say and the code does not keep: README.md, section 6.    *)

(* docs/VOICE.md: "The microphone input is discarded while KITT is speaking*)
(* and for a short echo guard afterwards, preventing self-trigger loops."  *)
OwnVoiceIgnored == Lengthened.own = {}

(* docs/VOICE.md: temporary utterances are "deleted immediately after      *)
(* transcription".                                                         *)
NothingLeft == orphans = {}

(* docs/VOICE.md: "Only the wake-word detector processes the idle          *)
(* microphone stream. STT is invoked only after local activation."         *)
SttOnlyAfterWake == mode = "wakeword" /\ pc = "transcribe" => waited
=============================================================================
