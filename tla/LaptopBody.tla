----------------------------- MODULE LaptopBody -----------------------------
(***************************************************************************)
(* The laptop body: a camera, a microphone and a speaker behind one        *)
(* receive loop, with a task that captures, a task that sees a sentence    *)
(* out, and a `say` process (src/src/bodies: laptop.py, speech.py,         *)
(* camera.py, audio.py, dispatch.py, client.py).                           *)
(*                                                                         *)
(* A say's span is deferred: its handler returns while the sentence is     *)
(* being said, and the speech task ends the span.  An estop, a later say   *)
(* and a stop all interrupt the sentence first and wait for that task, so  *)
(* unlike the mock's, this body's latch waits before it latches.           *)
(*                                                                         *)
(* An action is what a task does from one suspension to the next.  A wait  *)
(* that turns out to have nothing to wait for is a step all the same.      *)
(* BodyClient._state is left out: _announce sets it in the step that       *)
(* changes the latch, and here no other task touches either.               *)
(***************************************************************************)
EXTENDS SafetyState, Naturals, Sequences

CONSTANTS
  Span,      \* span ids the brain uses
  CommandOf, \* the command each span id carries
  Devices,   \* the devices that opened
  MaxInbox,  \* bound: frames received or in flight and not yet handled
  NoSpan     \* no span

Command == [capability : {"sys", "cam0", "mic0", "spk0", "elsewhere"},
            action : {"ping", "clear_safe_hold", "snapshot", "start_capture",
                      "stop_capture", "say", "stop"},
            wellformed : BOOLEAN, expects_result : BOOLEAN]

ASSUME CommandAssumption == CommandOf \in [Span -> Command]
ASSUME DevicesAssumption == Devices \subseteq {"cam0", "mic0", "spk0"}
ASSUME InboxAssumption == MaxInbox \in Nat
ASSUME NoSpanAssumption == NoSpan \notin Span
ASSUME JobAssumption == {"estop", "shutdown"} \cap (Span \cup {NoSpan}) = {}

VARIABLES
  safety,     \* LaptopBody.safety
  told,       \* the last state event handed to the socket
  camera,     \* LaptopBody._camera_open
  capture,    \* the capture task
  trace,      \* LaptopBody._capture_trace: the command whose trace chunks carry
  captureOf,  \* the command that started the capture task
  voice,      \* the `say` processes alive, by the command that started them
  process,    \* MacSaySpeaker._process
  cut,        \* MacSaySpeaker._stopped
  speechTask, \* LaptopBody._speech_task
  speaking,   \* where each command's _finish_saying is
  playback,   \* the last playback_state handed to the socket
  ledger,     \* CommandLedger._spans: "unseen", "open" or how the span ended
  results,    \* what each span was answered, in the order it was sent
  inbox,      \* frames from the brain, oldest first
  link,       \* the WebSocket
  pc,         \* where the receive loop, and after it LaptopBody.run, is
  job,        \* what it is doing there: a command, an estop or the shutdown
  awaited     \* the speech task it has interrupted and waits for

devices == <<camera, capture, trace, captureOf>>
speech == <<voice, process, cut, speechTask, speaking, playback>>
spans == <<ledger, results>>
loop == <<pc, job, awaited>>
net == <<inbox, link>>
vars == <<safety, told, devices, speech, spans, loop, net>>

Terminal == {"succeeded", "failed", "expired", "rejected"}

Frame == [type : {"estop", "estop_clear"}] \cup [type : {"command"}, span : Span]

TypeOK ==
  /\ safety \in State
  /\ told \in State
  /\ camera \in BOOLEAN
  /\ capture \in {"none", "reading", "sending", "cancelled", "over"}
  /\ trace \in Span \cup {NoSpan}
  /\ captureOf \in Span \cup {NoSpan}
  /\ voice \subseteq Span
  /\ process \in Span \cup {NoSpan}
  /\ cut \in BOOLEAN
  /\ speechTask \in Span \cup {NoSpan}
  /\ speaking \in [Span -> {"no", "waiting", "succeeded", "failed", "over"}]
  /\ playback \in {"started", "stopped"}
  /\ ledger \in [Span -> {"unseen", "open"} \cup Terminal]
  /\ results \in [Span -> Seq({"running"} \cup Terminal)]
  /\ inbox \in Seq(Frame)
  /\ link \in {"up", "down"}
  /\ pc \in {"rest", "answering", "uncapturing", "hushing", "starting",
             "started", "reported", "over"}
  /\ job \in Span \cup {NoSpan, "estop", "shutdown"}
  /\ awaited \in Span \cup {NoSpan}

\* The devices were probed, the session opened and the boot state announced.
\* Nothing here moves, so the body boots into ok.
Init ==
  /\ safety = "ok"
  /\ told = "ok"
  /\ camera = ("cam0" \in Devices)
  /\ capture = "none"
  /\ trace = NoSpan
  /\ captureOf = NoSpan
  /\ voice = {}
  /\ process = NoSpan
  /\ cut = FALSE
  /\ speechTask = NoSpan
  /\ speaking = [s \in Span |-> "no"]
  /\ playback = "stopped"
  /\ ledger = [s \in Span |-> "unseen"]
  /\ results = [s \in Span |-> <<>>]
  /\ inbox = <<>>
  /\ link = "up"
  /\ pc = "rest"
  /\ job = NoSpan
  /\ awaited = NoSpan

-----------------------------------------------------------------------------
(* The ledger, the dispatcher and what goes out.                           *)

Handlers ==
  {<<"sys", "ping">>, <<"sys", "clear_safe_hold">>}
    \cup {h \in {<<"cam0", "snapshot">>, <<"mic0", "start_capture">>,
                 <<"mic0", "stop_capture">>, <<"spk0", "say">>, <<"spk0", "stop">>} :
            h[1] \in Devices}

Is(s, capability, action) ==
  /\ CommandOf[s].capability = capability
  /\ CommandOf[s].action = action
  /\ <<capability, action>> \in Handlers

Ended(s) == ledger[s] \in Terminal

Answered(s, status) ==
  IF CommandOf[s].expects_result /\ link = "up"
  THEN [results EXCEPT ![s] = Append(@, status)]
  ELSE results

\* A slip: the result goes out and the ledger is not told.
EmitUnrecorded(s, status) == results' = Answered(s, status) /\ UNCHANGED ledger

\* complete() and the one terminal result, if wanted and if the socket takes it.
EmitTerminal(s, status) ==
  IF Ended(s)
  THEN UNCHANGED spans
  ELSE /\ ledger' = [ledger EXCEPT ![s] = status]
       /\ results' = Answered(s, status)

Announce(t) ==
  /\ safety' = t.state
  /\ told' = IF t.changed /\ link = "up" THEN t.state ELSE told

\* An event neither droppable nor allowed to fail its handler.
EmitPlayback(state) == playback' = IF link = "up" THEN state ELSE playback

At(where, what) == pc' = where /\ job' = what

BackToRest == At("rest", NoSpan)

-----------------------------------------------------------------------------
(* Ending a capture and a sentence.                                        *)

Capturing == capture \in {"reading", "sending"}

\* stop_capture up to its wait.
StopCapture ==
  /\ capture' = IF Capturing THEN "cancelled" ELSE "none"
  /\ trace' = NoSpan
  /\ UNCHANGED captureOf

\* A slip: the cancelled task is not waited for.
UncapturedAtOnce == TRUE

\* The task that was cancelled has seen it.
Uncaptured == capture = "none"

\* A slip: the process is left to finish its sentence.
SpeakerStopPolitely == UNCHANGED cut

\* MacSaySpeaker.stop: terminate, if there is a process.
SpeakerStop == cut' = (cut \/ process # NoSpan)

\* _interrupt_speech up to its wait: nothing to do for no task or a done one.
Interrupt ==
  /\ speechTask' = NoSpan
  /\ IF speechTask # NoSpan /\ speaking[speechTask] # "over"
     THEN awaited' = speechTask /\ SpeakerStop
     ELSE awaited' = NoSpan /\ UNCHANGED cut
  /\ UNCHANGED <<voice, process, speaking, playback>>

\* A slip: the interrupted task is not waited for.
HushedAtOnce == TRUE

\* The interrupted task is done: its process gone and its span ended.
Hushed == \A s \in Span : awaited = s => speaking[s] = "over"

-----------------------------------------------------------------------------
(* The receive loop.                                                       *)

NextFrame(type) ==
  /\ pc = "rest"
  /\ inbox # <<>>
  /\ Head(inbox).type = type
  /\ inbox' = Tail(inbox)
  /\ UNCHANGED link

\* The devices stop first; the latch comes when they have.
RecvEstop ==
  /\ NextFrame("estop")
  /\ camera' = FALSE
  /\ StopCapture
  /\ At("uncapturing", "estop")
  /\ UNCHANGED <<safety, told, speech, spans, awaited>>

RecvEstopClear ==
  /\ NextFrame("estop_clear")
  /\ Announce(ClearEstop(safety))
  /\ UNCHANGED <<devices, speech, spans, loop>>

NextCommand(s) == NextFrame("command") /\ Head(inbox).span = s

RecvDuplicate ==
  /\ \E s \in Span : NextCommand(s) /\ ledger[s] # "unseen"
  /\ UNCHANGED <<safety, told, devices, speech, spans, loop>>

\* The TTL, counted from the wire, may be gone before any command begins.
RecvTooLate(s) ==
  /\ NextCommand(s)
  /\ ledger[s] = "unseen"
  /\ EmitTerminal(s, "expired")
  /\ UNCHANGED <<safety, told, devices, speech, loop>>

\* A command that begins: its span is open until something ends it.
Admit(s) ==
  /\ NextCommand(s)
  /\ ledger[s] = "unseen"
  /\ ledger' = [ledger EXCEPT ![s] = "open"]
  /\ UNCHANGED results

\* Commands answered on the spot: no handler, a ping, a say of nothing, a
\* picture from a closed camera, a clear that clears nothing.
AnswerAtOnce(s) ==
  CASE <<CommandOf[s].capability, CommandOf[s].action>> \notin Handlers -> "rejected"
    [] Is(s, "sys", "ping") -> "succeeded"
    [] Is(s, "spk0", "say") /\ ~CommandOf[s].wellformed -> "failed"
    [] Is(s, "cam0", "snapshot") /\ ~camera -> "failed"
    [] Is(s, "sys", "clear_safe_hold") /\ safety = "estopped" -> "rejected"
    [] Is(s, "sys", "clear_safe_hold") /\ safety = "ok" -> "succeeded"
    [] OTHER -> "not at once"

RecvAnswered(s) ==
  /\ NextCommand(s)
  /\ ledger[s] = "unseen"
  /\ AnswerAtOnce(s) \in Terminal
  /\ EmitTerminal(s, AnswerAtOnce(s))
  /\ UNCHANGED <<safety, told, devices, speech, loop>>

RecvClearSafeHold(s) ==
  /\ Is(s, "sys", "clear_safe_hold")
  /\ AnswerAtOnce(s) \notin Terminal
  /\ Admit(s)
  /\ Announce(ClearSafeHold(safety))
  /\ At("answering", s)
  /\ UNCHANGED <<devices, speech, awaited>>

\* The frame goes out on the event channel before the span is answered.
RecvSnapshot(s) ==
  /\ Is(s, "cam0", "snapshot")
  /\ camera
  /\ Admit(s)
  /\ At("answering", s)
  /\ UNCHANGED <<safety, told, devices, speech, awaited>>

\* A camera that fails is closed and not tried again.
SnapshotFails(s) ==
  /\ Is(s, "cam0", "snapshot")
  /\ camera
  /\ NextCommand(s)
  /\ ledger[s] = "unseen"
  /\ camera' = FALSE
  /\ EmitTerminal(s, "failed")
  /\ UNCHANGED <<safety, told, capture, trace, captureOf, speech, loop>>

\* The wait for the event is over.  _announce keeps a socket's failure to
\* itself; the snapshot's event does not.
Answers(s) ==
  /\ pc = "answering"
  /\ job = s
  /\ \/ EmitTerminal(s, "succeeded")
     \/ /\ link = "down"
        /\ Is(s, "cam0", "snapshot")
        /\ EmitTerminal(s, "failed")
  /\ BackToRest
  /\ UNCHANGED <<safety, told, devices, speech, awaited, net>>

\* A slip: a second start takes over the trace of the capture that runs.
BeginCaptureStealing(s) ==
  /\ trace' = s
  /\ IF Capturing THEN UNCHANGED <<capture, captureOf>>
                  ELSE capture' = "reading" /\ captureOf' = s

BeginCapture(s) ==
  IF Capturing
  THEN UNCHANGED <<capture, trace, captureOf>>
  ELSE capture' = "reading" /\ trace' = s /\ captureOf' = s

RecvStartCapture(s) ==
  /\ Is(s, "mic0", "start_capture")
  /\ NextCommand(s)
  /\ ledger[s] = "unseen"
  /\ BeginCapture(s)
  /\ EmitTerminal(s, "succeeded")
  /\ UNCHANGED <<safety, told, camera, speech, loop>>

RecvStopCapture(s) ==
  /\ Is(s, "mic0", "stop_capture")
  /\ Admit(s)
  /\ StopCapture
  /\ At("uncapturing", s)
  /\ UNCHANGED <<safety, told, camera, speech, awaited>>

\* The capture task is done.  The command is answered; an estop and the
\* shutdown go on to the speaker.
CaptureStopped ==
  /\ pc = "uncapturing"
  /\ Uncaptured
  /\ \/ /\ job \in Span
        /\ EmitTerminal(job, "succeeded")
        /\ BackToRest
        /\ UNCHANGED <<speech, awaited>>
     \/ /\ job \in {"estop", "shutdown"}
        /\ Interrupt
        /\ At("hushing", job)
        /\ UNCHANGED spans
  /\ UNCHANGED <<safety, told, devices, net>>

RecvSpeaker(s) ==
  /\ \/ Is(s, "spk0", "say") /\ CommandOf[s].wellformed
     \/ Is(s, "spk0", "stop")
  /\ Admit(s)
  /\ Interrupt
  /\ At("hushing", s)
  /\ UNCHANGED <<safety, told, devices>>

\* The last sentence is over, if there was one.
EstopLatches ==
  /\ pc = "hushing" /\ Hushed
  /\ job = "estop"
  /\ Announce(Estop(safety))
  /\ BackToRest
  /\ awaited' = NoSpan
  /\ UNCHANGED <<devices, speech, spans, net>>

StopAnswers(s) ==
  /\ pc = "hushing" /\ Hushed
  /\ job = s
  /\ Is(s, "spk0", "stop")
  /\ EmitTerminal(s, "succeeded")
  /\ BackToRest
  /\ awaited' = NoSpan
  /\ UNCHANGED <<safety, told, devices, speech, net>>

SayStarts(s) ==
  /\ pc = "hushing" /\ Hushed
  /\ job = s
  /\ Is(s, "spk0", "say")
  /\ cut' = FALSE
  /\ At("starting", s)
  /\ awaited' = NoSpan
  /\ UNCHANGED <<safety, told, devices, voice, process, speechTask, speaking,
                 playback, spans, net>>

StartFails(s) ==
  /\ pc = "starting"
  /\ job = s
  /\ EmitTerminal(s, "failed")
  /\ BackToRest
  /\ UNCHANGED <<safety, told, devices, speech, awaited, net>>

\* The process runs; say so.
SayStarted(s) ==
  /\ pc = "starting"
  /\ job = s
  /\ voice' = voice \cup {s}
  /\ process' = s
  /\ EmitPlayback("started")
  /\ At("started", s)
  /\ UNCHANGED <<safety, told, devices, cut, speechTask, speaking, spans, awaited, net>>

\* report(running), when someone wants results and the socket takes it.
ReportRunning(s) ==
  /\ pc = "started"
  /\ job = s
  /\ CommandOf[s].expects_result
  /\ link = "up"
  /\ results' = [results EXCEPT ![s] = Append(@, "running")]
  /\ At("reported", s)
  /\ UNCHANGED <<safety, told, devices, speech, ledger, awaited, net>>

\* It raises on a dead socket, or when the socket dies under it.  The
\* dispatcher fails the span, and nothing waits for the process.
ReportBreaks(s) ==
  /\ pc \in {"started", "reported"}
  /\ job = s
  /\ CommandOf[s].expects_result
  /\ link = "down"
  /\ EmitTerminal(s, "failed")
  /\ BackToRest
  /\ UNCHANGED <<safety, told, devices, speech, awaited, net>>

\* The span is deferred to a task of its own.
SayDefers(s) ==
  /\ \/ pc = "reported"
     \/ pc = "started" /\ ~CommandOf[s].expects_result
  /\ job = s
  /\ speechTask' = s
  /\ speaking' = [speaking EXCEPT ![s] = "waiting"]
  /\ BackToRest
  /\ UNCHANGED <<safety, told, devices, voice, process, cut, playback, spans, awaited, net>>

ReceiveLoop ==
  \/ RecvEstop \/ RecvEstopClear \/ RecvDuplicate
  \/ \E s \in Span :
       \/ RecvTooLate(s) \/ RecvAnswered(s) \/ RecvClearSafeHold(s)
       \/ RecvSnapshot(s) \/ SnapshotFails(s) \/ Answers(s)
       \/ RecvStartCapture(s) \/ RecvStopCapture(s) \/ RecvSpeaker(s)
       \/ StopAnswers(s) \/ SayStarts(s) \/ StartFails(s) \/ SayStarted(s)
       \/ ReportRunning(s) \/ ReportBreaks(s) \/ SayDefers(s)
  \/ CaptureStopped \/ EstopLatches

-----------------------------------------------------------------------------
(* The end of LaptopBody.run.                                              *)

\* The frames received are handled and the loops have returned.
RunFinishes ==
  /\ pc = "rest"
  /\ link = "down"
  /\ inbox = <<>>
  /\ StopCapture
  /\ At("uncapturing", "shutdown")
  /\ UNCHANGED <<safety, told, camera, speech, spans, awaited, net>>

\* The speaker kills the process it knows of.
RunCloses ==
  /\ pc = "hushing" /\ Hushed
  /\ job = "shutdown"
  /\ camera' = FALSE
  /\ voice' = voice \ {process}
  /\ process' = NoSpan
  /\ At("over", NoSpan)
  /\ awaited' = NoSpan
  /\ UNCHANGED <<safety, told, capture, trace, captureOf, cut, speechTask, speaking,
                 playback, spans, net>>

-----------------------------------------------------------------------------
(* The capture task and the speech task.                                   *)

CaptureReads ==
  /\ capture = "reading"
  /\ capture' \in IF link = "up" THEN {"sending", "over"} ELSE {"over"}
  /\ UNCHANGED <<safety, told, camera, trace, captureOf, speech, spans, loop, net>>

CaptureSent ==
  /\ capture = "sending"
  /\ capture' \in IF link = "up" THEN {"reading"} ELSE {"reading", "over"}
  /\ UNCHANGED <<safety, told, camera, trace, captureOf, speech, spans, loop, net>>

CaptureCancelled ==
  /\ capture = "cancelled"
  /\ capture' = "none"
  /\ UNCHANGED <<safety, told, camera, trace, captureOf, speech, spans, loop, net>>

CaptureTask == CaptureReads \/ CaptureSent \/ CaptureCancelled

\* MacSaySpeaker.wait: a process that was cut, or failed, was interrupted.
WaitAnswers == IF process # NoSpan /\ cut THEN {FALSE}
               ELSE IF process # NoSpan THEN BOOLEAN ELSE {TRUE}

\* A slip: an interrupted sentence ends without a word.
SentenceOverQuietly(s, completed) ==
  /\ IF completed THEN EmitPlayback("stopped") ELSE UNCHANGED playback
  /\ speaking' = [speaking EXCEPT ![s] = IF completed THEN "succeeded" ELSE "failed"]

\* A slip: an ending of its own, where the set of ends is closed.
SentenceOverInterrupted(s, completed) ==
  /\ EmitPlayback("stopped")
  /\ speaking' = [speaking EXCEPT ![s] = IF completed THEN "succeeded" ELSE "interrupted"]

SentenceOver(s, completed) ==
  /\ EmitPlayback("stopped")
  /\ speaking' = [speaking EXCEPT ![s] = IF completed THEN "succeeded" ELSE "failed"]

SpeechWaited(s) ==
  /\ speaking[s] = "waiting"
  /\ process \notin voice
  /\ \E completed \in WaitAnswers : SentenceOver(s, completed)
  /\ process' = NoSpan
  /\ UNCHANGED <<safety, told, devices, voice, cut, speechTask, spans, loop, net>>

\* finish_span, whose send nothing follows.
SpeechEnds(s) ==
  /\ speaking[s] \in {"succeeded", "failed"}
  /\ EmitTerminal(s, speaking[s])
  /\ speaking' = [speaking EXCEPT ![s] = "over"]
  /\ UNCHANGED <<safety, told, devices, voice, process, cut, speechTask, playback,
                 loop, net>>

SpeechTask(s) == SpeechWaited(s) \/ SpeechEnds(s)

-----------------------------------------------------------------------------
(* The `say` processes, the brain and the network.                         *)

\* Out of words, killed or broken.
VoiceEnds(s) ==
  /\ s \in voice
  /\ voice' = voice \ {s}
  /\ UNCHANGED <<safety, told, devices, process, cut, speechTask, speaking, playback,
                 spans, loop, net>>

BrainSends(f) ==
  /\ link = "up"
  /\ Len(inbox) < MaxInbox
  /\ inbox' = Append(inbox, f)
  /\ UNCHANGED <<safety, told, devices, speech, spans, loop, link>>

\* Frames still in flight when the socket dies are lost, latest first.
LinkDies ==
  /\ link = "up"
  /\ link' = "down"
  /\ \E n \in 0 .. Len(inbox) : inbox' = SubSeq(inbox, 1, n)
  /\ UNCHANGED <<safety, told, devices, speech, spans, loop>>

Next ==
  \/ ReceiveLoop
  \/ RunFinishes
  \/ RunCloses
  \/ CaptureTask
  \/ \E s \in Span : SpeechTask(s) \/ VoiceEnds(s)
  \/ \E f \in Frame : BrainSends(f)
  \/ LinkDies

Spec == Init /\ [][Next]_vars

\* asyncio runs what can run, and a process told to terminate does.  A
\* sentence nobody interrupts may go on for ever.
Fairness ==
  /\ WF_vars(ReceiveLoop \/ RunFinishes \/ RunCloses)
  /\ WF_vars(CaptureTask)
  /\ \A s \in Span : WF_vars(SpeechTask(s))
  /\ \A s \in Span : WF_vars(cut /\ process = s /\ VoiceEnds(s))

FairSpec == Spec /\ Fairness

-----------------------------------------------------------------------------
(* What the body promises.                                                 *)

\* Each span is answered at most once for good, with what the ledger holds,
\* and a deferred one's "running" never comes after its end: the handler,
\* the speech task and the interruptions all try to answer.
AnswersInOrder ==
  \A s \in Span :
    results[s] \in {<<>>, <<"running">>}
                     \cup (IF Ended(s) THEN {<<ledger[s]>>, <<"running", ledger[s]>>} ELSE {})

\* A chunk carries the trace of the command that began the capture, however
\* many starts and stops came while it was being read.
ChunksNameTheirCapture == Capturing => trace = captureOf

\* Over a living socket a process that is talking is the one the speaker
\* can stop, and either its say is still being handled or its task is
\* waiting for it: no interruption ever leaves a voice behind.
VoicesOwned ==
  link = "up" =>
    \A s \in voice :
      /\ process = s
      /\ \/ pc \in {"started", "reported"} /\ job = s
         \/ speaking[s] = "waiting"

\* A voice loop gates the microphone between "started" and "stopped": while
\* the socket lives, a "started" is never the last word for good.
StoppedIsOwed ==
  link = "up" /\ playback = "started" =>
    \/ pc \in {"started", "reported"}
    \/ \E s \in Span : speaking[s] = "waiting"

\* When the body becomes estopped nothing it had begun still runs: no
\* camera, no capture, and over a living socket no voice.
LatchesQuiet ==
  [][safety # "estopped" /\ safety' = "estopped" =>
       /\ ~camera
       /\ capture = "none"
       /\ link = "up" => voice = {} /\ \A s \in Span : speaking[s] # "waiting"]_vars

\* An estop that reached the socket latches, although it waits for a capture
\* and a sentence to end first.
EstopGetsThrough ==
  (\E i \in DOMAIN inbox : inbox[i].type = "estop")
    ~> (safety = "estopped" \/ link = "down")

\* A dead socket ends the run, with every span it began ended, even one whose
\* sentence would never have finished.
DeadSocketEndsRun ==
  (link = "down") ~> (pc = "over" /\ \A s \in Span : ledger[s] # "open")
=============================================================================
