-------------------------- MODULE LaptopBody_proofs --------------------------
(***************************************************************************)
(* What TLAPS proves of LaptopBody, for every set of spans, every command  *)
(* they carry, every set of devices that opened and every inbox.           *)
(***************************************************************************)
EXTENDS LaptopBody, SequenceTheorems, TLAPS

(* What the handlers are built from.                                       *)

\* What the requests of safety.py return, as far as this body asks.
LEMMA SafetyStates ==
  ASSUME NEW st \in State
  PROVE  /\ Estop(st).state = "estopped"
         /\ ClearSafeHold(st).state \in State
         /\ ClearEstop(st).state \in State
         /\ ClearSafeHold(st).state = "estopped" => st = "estopped"
         /\ ClearEstop(st).state = "estopped" => st = "estopped"
BY DEF State, Move, Refuse, Estop, ClearSafeHold, ClearEstop

\* Taking a frame leaves frames.
LEMMA NextFrameType ==
  ASSUME TypeOK, NEW type, NextFrame(type)
  PROVE  inbox' \in Seq(Frame) /\ link' \in {"up", "down"}
BY DEF TypeOK, NextFrame

\* A span's answers stay a sequence of statuses.
LEMMA AnsweredType ==
  ASSUME TypeOK, NEW s \in Span, NEW status \in {"running"} \cup Terminal
  PROVE  Answered(s, status) \in [Span -> Seq({"running"} \cup Terminal)]
<1>1. results[s] \in Seq({"running"} \cup Terminal)
  BY DEF TypeOK
<1>2. Append(results[s], status) \in Seq({"running"} \cup Terminal)
  BY <1>1
<1>3. QED BY <1>2 DEF Answered, TypeOK

\* Ending a span keeps the ledger's and the answers' types.
LEMMA EmitTerminalType ==
  ASSUME TypeOK, NEW s \in Span, NEW status \in Terminal, EmitTerminal(s, status)
  PROVE  /\ ledger' \in [Span -> {"unseen", "open"} \cup Terminal]
         /\ results' \in [Span -> Seq({"running"} \cup Terminal)]
<1>1. CASE Ended(s)
  BY <1>1 DEF EmitTerminal, TypeOK, spans
<1>2. CASE ~Ended(s)
  <2>1. ledger' = [ledger EXCEPT ![s] = status] /\ results' = Answered(s, status)
    BY <1>2 DEF EmitTerminal
  <2>2. QED BY <2>1, AnsweredType DEF TypeOK
<1>3. QED BY <1>1, <1>2

\* A span ends, and what else the step changes keeps its kind.
LEMMA EndKeepsType ==
  ASSUME TypeOK, NEW s \in Span, NEW status \in Terminal, EmitTerminal(s, status),
         UNCHANGED <<safety, told, capture, trace, captureOf, voice, process, cut,
                     speechTask, playback>>,
         camera' \in BOOLEAN,
         speaking' \in [Span -> {"no", "waiting", "succeeded", "failed", "over"}],
         inbox' \in Seq(Frame) /\ link' \in {"up", "down"},
         \/ UNCHANGED <<pc, job, awaited>>
         \/ BackToRest /\ awaited' \in {awaited, NoSpan}
  PROVE  TypeOK'
<1>1. /\ ledger' \in [Span -> {"unseen", "open"} \cup Terminal]
      /\ results' \in [Span -> Seq({"running"} \cup Terminal)]
  BY EmitTerminalType
<1>2. /\ pc' \in {"rest", "answering", "uncapturing", "hushing", "starting",
                  "started", "reported", "over"}
      /\ job' \in Span \cup {NoSpan, "estop", "shutdown"}
      /\ awaited' \in Span \cup {NoSpan}
  BY DEF BackToRest, At, TypeOK
<1>3. /\ safety' \in State /\ told' \in State
      /\ capture' \in {"none", "reading", "sending", "cancelled", "over"}
      /\ trace' \in Span \cup {NoSpan} /\ captureOf' \in Span \cup {NoSpan}
      /\ voice' \subseteq Span /\ process' \in Span \cup {NoSpan}
      /\ cut' \in BOOLEAN /\ speechTask' \in Span \cup {NoSpan}
      /\ playback' \in {"started", "stopped"}
  BY DEF TypeOK
<1>4. QED BY <1>1, <1>2, <1>3 DEF TypeOK

\* Announcing keeps the state's type, and the brain's copy of it.
LEMMA AnnounceType ==
  ASSUME TypeOK, NEW t, t.state \in State, Announce(t)
  PROVE  safety' \in State /\ told' \in State
BY DEF TypeOK, Announce

\* Interrupting the speaker keeps the types of what it touches.
LEMMA InterruptType ==
  ASSUME TypeOK, Interrupt
  PROVE  /\ speechTask' \in Span \cup {NoSpan}
         /\ awaited' \in Span \cup {NoSpan}
         /\ cut' \in BOOLEAN
<1>1. speechTask' = NoSpan /\ awaited' \in {speechTask, NoSpan}
  BY DEF Interrupt
<1>2. cut' \in BOOLEAN
  <2>1. CASE UNCHANGED cut
    BY <2>1 DEF TypeOK
  <2>2. CASE SpeakerStop
    BY <2>2 DEF SpeakerStop, TypeOK
  <2>3. QED BY <2>1, <2>2 DEF Interrupt
<1>3. QED BY <1>1, <1>2 DEF TypeOK

\* A handler that answers at once answers for good.
LEMMA AnswerAtOnceType ==
  ASSUME NEW s \in Span
  PROVE  AnswerAtOnce(s) \in Terminal \cup {"not at once"}
BY DEF AnswerAtOnce, Terminal

-----------------------------------------------------------------------------
(* Type correctness.                                                       *)

\* Every state a behaviour reaches is well typed; in particular a span ends
\* only in one of the four ways the protocol knows.
THEOREM TypeCorrect == Spec => []TypeOK
<1>1. Init => TypeOK
  <2> SUFFICES ASSUME Init PROVE TypeOK
    OBVIOUS
  <2>1. /\ ledger \in [Span -> {"unseen", "open"} \cup Terminal]
        /\ results \in [Span -> Seq({"running"} \cup Terminal)]
        /\ speaking \in [Span -> {"no", "waiting", "succeeded", "failed", "over"}]
        /\ inbox \in Seq(Frame)
    BY DEF Init
  <2>2. camera \in BOOLEAN /\ cut \in BOOLEAN
    <3>1. camera \in BOOLEAN
      <4>1. camera = ("cam0" \in Devices)
        BY DEF Init
      <4>2. ("cam0" \in Devices) \in BOOLEAN
        OBVIOUS
      <4>3. QED BY <4>1, <4>2
    <3>2. cut \in BOOLEAN
      BY DEF Init
    <3>3. QED BY <3>1, <3>2
  <2>3. QED BY <2>1, <2>2 DEF Init, TypeOK, State
<1>2. TypeOK /\ [Next]_vars => TypeOK'
  <2> SUFFICES ASSUME TypeOK, [Next]_vars PROVE TypeOK'
    OBVIOUS
  <2> USE DEF devices, speech, spans, loop, net
  <2>1. CASE RecvEstop
    BY <2>1, NextFrameType DEF RecvEstop, StopCapture, At, TypeOK
  <2>2. CASE RecvEstopClear
    <3>1. safety' \in State /\ told' \in State
      BY <2>2, SafetyStates, AnnounceType DEF RecvEstopClear, TypeOK
    <3>2. QED BY <2>2, <3>1, NextFrameType DEF RecvEstopClear, TypeOK
  <2>3. CASE RecvDuplicate
    <3>1. PICK s \in Span : NextFrame("command")
      BY <2>3 DEF RecvDuplicate, NextCommand
    <3>2. QED BY <2>3, <3>1, NextFrameType DEF RecvDuplicate, TypeOK
  <2>4. ASSUME NEW s \in Span, NEW status \in Terminal, NextCommand(s),
               EmitTerminal(s, status), camera' \in BOOLEAN,
               UNCHANGED <<safety, told, capture, trace, captureOf, speech, loop>>
        PROVE  TypeOK'
    <3>1. inbox' \in Seq(Frame) /\ link' \in {"up", "down"}
      BY <2>4, NextFrameType DEF NextCommand
    <3>2. speaking' \in [Span -> {"no", "waiting", "succeeded", "failed", "over"}]
      BY <2>4 DEF TypeOK
    <3>3. QED BY <2>4, <3>1, <3>2, EndKeepsType
  <2>5. ASSUME NEW s \in Span, RecvTooLate(s) \/ RecvAnswered(s) \/ SnapshotFails(s)
        PROVE  TypeOK'
    <3>1. camera \in BOOLEAN
      BY DEF TypeOK
    <3>2. CASE RecvTooLate(s)
      BY <2>4, <3>1, <3>2 DEF RecvTooLate, Terminal
    <3>3. CASE RecvAnswered(s)
      BY <2>4, <3>1, <3>3 DEF RecvAnswered
    <3>4. CASE SnapshotFails(s)
      BY <2>4, <3>4 DEF SnapshotFails, Terminal
    <3>5. QED BY <2>5, <3>2, <3>3, <3>4
  <2>6. ASSUME NEW s \in Span, RecvClearSafeHold(s) PROVE TypeOK'
    <3>1. safety' \in State /\ told' \in State
      BY <2>6, SafetyStates, AnnounceType DEF RecvClearSafeHold, TypeOK
    <3>2. QED BY <2>6, <3>1, NextFrameType
              DEF RecvClearSafeHold, Admit, NextCommand, At, TypeOK
  <2>7. ASSUME NEW s \in Span, RecvSnapshot(s) PROVE TypeOK'
    BY <2>7, NextFrameType DEF RecvSnapshot, Admit, NextCommand, At, TypeOK
  <2>8. ASSUME NEW s \in Span, NEW status \in Terminal, EmitTerminal(s, status), BackToRest,
               awaited' \in {awaited, NoSpan},
               UNCHANGED <<safety, told, devices, speech, net>>
        PROVE  TypeOK'
    <3>1. /\ camera' \in BOOLEAN /\ inbox' \in Seq(Frame) /\ link' \in {"up", "down"}
          /\ speaking' \in [Span -> {"no", "waiting", "succeeded", "failed", "over"}]
      BY <2>8 DEF TypeOK
    <3>2. QED BY <2>8, <3>1, EndKeepsType
  <2>9. ASSUME NEW s \in Span,
               Answers(s) \/ StopAnswers(s) \/ StartFails(s) \/ ReportBreaks(s)
        PROVE  TypeOK'
    BY <2>8, <2>9 DEF Answers, StopAnswers, StartFails, ReportBreaks, Terminal
  <2>10. ASSUME NEW s \in Span, RecvStartCapture(s) PROVE TypeOK'
    <3>1. "succeeded" \in Terminal
      BY DEF Terminal
    <3>2. /\ ledger' \in [Span -> {"unseen", "open"} \cup Terminal]
          /\ results' \in [Span -> Seq({"running"} \cup Terminal)]
      BY <2>10, <3>1, EmitTerminalType DEF RecvStartCapture
    <3>3. inbox' \in Seq(Frame) /\ link' \in {"up", "down"}
      BY <2>10, NextFrameType DEF RecvStartCapture, NextCommand
    <3>4. UNCHANGED <<safety, told, camera, speech, loop>>
      BY <2>10 DEF RecvStartCapture
    <3>5. /\ capture' \in {capture, "reading"}
          /\ trace' \in {trace, s}
          /\ captureOf' \in {captureOf, s}
      BY <2>10 DEF RecvStartCapture, BeginCapture
    <3>6. QED BY <3>2, <3>3, <3>4, <3>5, SMTT(60) DEF TypeOK
  <2>11. ASSUME NEW s \in Span, RecvStopCapture(s) PROVE TypeOK'
    BY <2>11, NextFrameType
       DEF RecvStopCapture, Admit, NextCommand, StopCapture, At, TypeOK
  <2>12. CASE CaptureStopped
    <3>1. CASE job \in Span /\ EmitTerminal(job, "succeeded") /\ BackToRest
                 /\ UNCHANGED <<speech, awaited>>
      BY <2>8, <2>12, <3>1 DEF CaptureStopped, Terminal
    <3>2. CASE job \in {"estop", "shutdown"} /\ Interrupt /\ At("hushing", job)
                 /\ UNCHANGED spans
      <4>1. UNCHANGED <<voice, process, speaking, playback>>
        BY <3>2 DEF Interrupt
      <4>2. QED BY <2>12, <3>2, <4>1, InterruptType DEF CaptureStopped, At, TypeOK
    <3>3. QED BY <2>12, <3>1, <3>2 DEF CaptureStopped
  <2>13. ASSUME NEW s \in Span, RecvSpeaker(s) PROVE TypeOK'
    <3>1. UNCHANGED <<voice, process, speaking, playback>>
      BY <2>13 DEF RecvSpeaker, Interrupt
    <3>2. QED BY <2>13, <3>1, InterruptType, NextFrameType
              DEF RecvSpeaker, Admit, NextCommand, At, TypeOK
  <2>14. CASE EstopLatches
    <3>1. safety' \in State /\ told' \in State
      BY <2>14, SafetyStates, AnnounceType DEF EstopLatches, TypeOK, State
    <3>2. QED BY <2>14, <3>1 DEF EstopLatches, BackToRest, At, TypeOK
  <2>15. ASSUME NEW s \in Span, SayStarts(s) PROVE TypeOK'
    <3>1. cut' \in BOOLEAN /\ awaited' \in Span \cup {NoSpan} /\ job' \in Span
      BY <2>15 DEF SayStarts, At
    <3>2. QED BY <2>15, <3>1 DEF SayStarts, At, TypeOK
  <2>16. ASSUME NEW s \in Span, SayStarted(s) PROVE TypeOK'
    BY <2>16 DEF SayStarted, EmitPlayback, At, TypeOK
  <2>17. ASSUME NEW s \in Span, ReportRunning(s) PROVE TypeOK'
    <3>1. results[s] \in Seq({"running"} \cup Terminal)
      BY DEF TypeOK
    <3>2. Append(results[s], "running") \in Seq({"running"} \cup Terminal)
      BY <3>1
    <3>3. QED BY <2>17, <3>2 DEF ReportRunning, At, TypeOK
  <2>18. ASSUME NEW s \in Span, SayDefers(s) PROVE TypeOK'
    BY <2>18 DEF SayDefers, BackToRest, At, TypeOK
  <2>19. CASE RunFinishes
    BY <2>19 DEF RunFinishes, StopCapture, At, TypeOK
  <2>20. CASE RunCloses
    BY <2>20 DEF RunCloses, At, TypeOK
  <2>21. CASE CaptureTask
    BY <2>21 DEF CaptureTask, CaptureReads, CaptureSent, CaptureCancelled, TypeOK
  <2>22. ASSUME NEW s \in Span, SpeechWaited(s) PROVE TypeOK'
    <3>1. PICK completed \in BOOLEAN : SentenceOver(s, completed)
      BY <2>22 DEF SpeechWaited, WaitAnswers
    <3>2. QED BY <2>22, <3>1 DEF SpeechWaited, SentenceOver, EmitPlayback, TypeOK
  <2>23. ASSUME NEW s \in Span, SpeechEnds(s) PROVE TypeOK'
    <3>1. /\ speaking[s] \in Terminal
          /\ EmitTerminal(s, speaking[s])
          /\ UNCHANGED <<safety, told, capture, trace, captureOf, voice, process, cut,
                         speechTask, playback, pc, job, awaited>>
      BY <2>23 DEF SpeechEnds, Terminal
    <3>2. /\ camera' \in BOOLEAN /\ inbox' \in Seq(Frame) /\ link' \in {"up", "down"}
          /\ speaking' \in [Span -> {"no", "waiting", "succeeded", "failed", "over"}]
      BY <2>23 DEF SpeechEnds, TypeOK
    <3>3. QED BY <3>1, <3>2, EndKeepsType
  <2>24. ASSUME NEW s \in Span, VoiceEnds(s) PROVE TypeOK'
    BY <2>24 DEF VoiceEnds, TypeOK
  <2>25. ASSUME NEW f \in Frame, BrainSends(f) PROVE TypeOK'
    BY <2>25 DEF BrainSends, TypeOK
  <2>26. CASE LinkDies
    <3>1. PICK n \in 0 .. Len(inbox) : inbox' = SubSeq(inbox, 1, n)
      BY <2>26 DEF LinkDies
    <3>2. inbox' \in Seq(Frame)
      BY <3>1 DEF TypeOK
    <3>3. QED BY <2>26, <3>2 DEF LinkDies, TypeOK
  <2>27. CASE UNCHANGED vars
    BY <2>27 DEF vars, TypeOK
  <2>28. QED BY <2>1, <2>2, <2>3, <2>4, <2>5, <2>6, <2>7, <2>8, <2>9, <2>10, <2>11,
                <2>12, <2>13, <2>14, <2>15, <2>16, <2>17, <2>18,
                <2>19, <2>20, <2>21, <2>22, <2>23, <2>24, <2>25, <2>26, <2>27
             DEF Next, ReceiveLoop, SpeechTask
<1>3. QED BY <1>1, <1>2, PTL DEF Spec

-----------------------------------------------------------------------------
(* Chunks.                                                                 *)

\* A chunk carries the trace of the command that began the capture.
THEOREM ChunksAreTraced == Spec => []ChunksNameTheirCapture
<1>1. Init => ChunksNameTheirCapture
  BY DEF Init, ChunksNameTheirCapture, Capturing
<1>2. ChunksNameTheirCapture /\ [Next]_vars => ChunksNameTheirCapture'
  <2> SUFFICES ASSUME ChunksNameTheirCapture, [Next]_vars PROVE ChunksNameTheirCapture'
    OBVIOUS
  <2> USE DEF ChunksNameTheirCapture, Capturing, devices
  <2>1. CASE StopCapture
    BY <2>1 DEF StopCapture
  <2>2. ASSUME NEW s \in Span, BeginCapture(s) PROVE ChunksNameTheirCapture'
    BY <2>2 DEF BeginCapture
  <2>3. CASE CaptureTask
    BY <2>3 DEF CaptureTask, CaptureReads, CaptureSent, CaptureCancelled
  <2>4. CASE UNCHANGED <<capture, trace, captureOf>>
    BY <2>4
  <2>5. ReceiveLoop => StopCapture \/ UNCHANGED <<capture, trace, captureOf>>
                         \/ \E s \in Span : BeginCapture(s)
    BY DEF ReceiveLoop, RecvEstop, RecvEstopClear, RecvDuplicate, RecvTooLate,
           RecvAnswered, RecvClearSafeHold, RecvSnapshot, SnapshotFails, Answers,
           RecvStartCapture, RecvStopCapture, RecvSpeaker, StopAnswers, SayStarts,
           StartFails, SayStarted, ReportRunning, ReportBreaks, SayDefers,
           CaptureStopped, EstopLatches
  <2>6. \/ ReceiveLoop \/ CaptureTask \/ StopCapture
        \/ UNCHANGED <<capture, trace, captureOf>>
    BY DEF Next, RunFinishes, RunCloses, SpeechTask, SpeechWaited, SpeechEnds,
           VoiceEnds, BrainSends, LinkDies, vars
  <2>7. QED BY <2>1, <2>2, <2>3, <2>4, <2>5, <2>6
<1>3. QED BY <1>1, <1>2, PTL DEF Spec

-----------------------------------------------------------------------------
(* Voices.                                                                 *)

\* A speech task that is not over is the one the body knows, or the one the
\* receive loop has interrupted and waits for.
TaskKnown ==
  \A s \in Span : speaking[s] \in {"waiting", "succeeded", "failed"} =>
    \/ speechTask = s
    \/ pc = "hushing" /\ awaited = s

\* A say begins when every sentence before it is over.
SayAlone ==
  pc \in {"hushing", "starting", "started", "reported"} => speechTask = NoSpan

\* The run closes only after its socket.
ShutdownIsLast == job = "shutdown" => link = "down"

SpeechInv == TaskKnown /\ SayAlone /\ ShutdownIsLast /\ VoicesOwned /\ StoppedIsOwed

\* What leaves the speech, its bookkeeping and the receive loop alone.
speechState == <<voice, process, speechTask, speaking, playback, pc, job, awaited, link>>

\* A step that leaves the speech be keeps its invariant.
LEMMA SpeechUntouched ==
  ASSUME SpeechInv, UNCHANGED speechState
  PROVE  SpeechInv'
BY DEF SpeechInv, TaskKnown, SayAlone, ShutdownIsLast, VoicesOwned, StoppedIsOwed,
       speechState

\* Interrupting the speaker keeps the invariant of the speech.
LEMMA InterruptKeeps ==
  ASSUME TypeOK, SpeechInv, Interrupt, pc \in {"rest", "uncapturing"},
         pc' = "hushing", job' = "shutdown" => link = "down", UNCHANGED link
  PROVE  SpeechInv'
<1>1. UNCHANGED <<voice, process, speaking, playback>> /\ speechTask' = NoSpan
  BY DEF Interrupt
<1>2. TaskKnown'
  <2> SUFFICES ASSUME NEW s \in Span, speaking[s] \in {"waiting", "succeeded", "failed"}
               PROVE  awaited' = s
    BY <1>1 DEF TaskKnown
  <2>1. speechTask = s
    BY DEF SpeechInv, TaskKnown
  <2>2. QED BY <2>1, NoSpanAssumption DEF Interrupt
<1>3. SayAlone' /\ ShutdownIsLast'
  BY <1>1 DEF SayAlone, ShutdownIsLast
<1>4. VoicesOwned' /\ StoppedIsOwed'
  BY <1>1 DEF SpeechInv, VoicesOwned, StoppedIsOwed
<1>5. QED BY <1>2, <1>3, <1>4 DEF SpeechInv

\* A step of the receive loop away from the speaker, and not to it.
LEMMA ElsewhereKeeps ==
  ASSUME SpeechInv, pc \in {"rest", "answering", "uncapturing"},
         pc' \in {"rest", "answering", "uncapturing"},
         job' = "shutdown" => link = "down",
         UNCHANGED <<voice, process, speechTask, speaking, playback, link>>
  PROVE  SpeechInv'
BY DEF SpeechInv, TaskKnown, SayAlone, ShutdownIsLast, VoicesOwned, StoppedIsOwed

\* The end of a wait for a sentence to be over: no task is left.
LEMMA HushedIsQuiet ==
  ASSUME TypeOK, SpeechInv, pc = "hushing", Hushed
  PROVE  /\ \A s \in Span : speaking[s] \notin {"waiting", "succeeded", "failed"}
         /\ link = "up" => voice = {} /\ playback = "stopped"
<1>1. ASSUME NEW s \in Span PROVE speaking[s] \notin {"waiting", "succeeded", "failed"}
  BY NoSpanAssumption DEF SpeechInv, TaskKnown, SayAlone, Hushed
<1>2. ASSUME link = "up" PROVE voice = {} /\ playback = "stopped"
  BY <1>1, <1>2 DEF SpeechInv, VoicesOwned, StoppedIsOwed, TypeOK
<1>3. QED BY <1>1, <1>2

\* The body begins silent.
LEMMA SpeechInvInit == Init => SpeechInv
BY JobAssumption DEF Init, SpeechInv, TaskKnown, SayAlone, ShutdownIsLast, VoicesOwned,
       StoppedIsOwed

\* Each step keeps the invariant of the speech.
LEMMA SpeechInvStep ==
  ASSUME TypeOK, SpeechInv, [Next]_vars
  PROVE  SpeechInv'
<1> USE DEF devices, speech, spans, loop, net
<1>1. CASE RecvEstop
  BY <1>1, ElsewhereKeeps DEF RecvEstop, NextFrame, At
<1>2. CASE \/ RecvEstopClear \/ RecvDuplicate
           \/ \E s \in Span : \/ RecvTooLate(s) \/ RecvAnswered(s) \/ SnapshotFails(s)
                              \/ RecvStartCapture(s)
  <2>1. UNCHANGED speechState
    BY <1>2 DEF RecvEstopClear, RecvDuplicate, RecvTooLate, RecvAnswered, SnapshotFails,
                RecvStartCapture, NextCommand, NextFrame, speechState
  <2>2. QED BY <2>1, SpeechUntouched
<1>3. ASSUME NEW s \in Span, RecvClearSafeHold(s) \/ RecvSnapshot(s) \/ RecvStopCapture(s)
      PROVE  SpeechInv'
  BY <1>3, ElsewhereKeeps, JobAssumption
     DEF RecvClearSafeHold, RecvSnapshot, RecvStopCapture, Admit, NextCommand, NextFrame, At
<1>4. ASSUME NEW s \in Span, Answers(s) PROVE SpeechInv'
  BY <1>4, ElsewhereKeeps, JobAssumption DEF Answers, BackToRest, At
<1>5. CASE CaptureStopped
  <2>1. CASE job \in Span /\ BackToRest /\ UNCHANGED <<speech, awaited>>
    BY <1>5, <2>1, ElsewhereKeeps, JobAssumption DEF CaptureStopped, BackToRest, At
  <2>2. CASE job \in {"estop", "shutdown"} /\ Interrupt /\ At("hushing", job)
    BY <1>5, <2>2, InterruptKeeps DEF CaptureStopped, At, SpeechInv, ShutdownIsLast
  <2>3. QED BY <1>5, <2>1, <2>2 DEF CaptureStopped
<1>6. ASSUME NEW s \in Span, RecvSpeaker(s) PROVE SpeechInv'
  BY <1>6, InterruptKeeps, JobAssumption
     DEF RecvSpeaker, Admit, NextCommand, NextFrame, At
<1>7. CASE \/ EstopLatches \/ RunCloses
           \/ \E s \in Span : StopAnswers(s) \/ SayStarts(s)
  <2>1. /\ \A t \in Span : speaking[t] \notin {"waiting", "succeeded", "failed"}
        /\ link = "up" => voice = {} /\ playback = "stopped"
        /\ speechTask = NoSpan
    BY <1>7, HushedIsQuiet
       DEF EstopLatches, StopAnswers, RunCloses, SayStarts, SpeechInv, SayAlone
  <2>2. UNCHANGED <<speaking, playback, link, speechTask>> /\ voice' \subseteq voice
    BY <1>7 DEF EstopLatches, StopAnswers, RunCloses, SayStarts
  <2>3. job' # "shutdown"
    BY <1>7, JobAssumption
       DEF EstopLatches, StopAnswers, RunCloses, SayStarts, BackToRest, At
  <2>4. QED BY <2>1, <2>2, <2>3
            DEF SpeechInv, TaskKnown, SayAlone, ShutdownIsLast, VoicesOwned, StoppedIsOwed
<1>8. ASSUME NEW s \in Span, StartFails(s) \/ ReportBreaks(s) PROVE SpeechInv'
  <2>1. /\ UNCHANGED <<voice, process, speechTask, speaking, playback, link>>
        /\ pc' = "rest"
        /\ job' = NoSpan
        /\ pc = "starting" \/ link = "down"
        /\ pc # "hushing"
    BY <1>8 DEF StartFails, ReportBreaks, BackToRest, At
  <2>2. QED BY <2>1, JobAssumption
            DEF SpeechInv, TaskKnown, SayAlone, ShutdownIsLast, VoicesOwned, StoppedIsOwed
<1>9. ASSUME NEW s \in Span, SayStarted(s) PROVE SpeechInv'
  <2>1. \A t \in Span : speaking[t] \notin {"waiting", "succeeded", "failed"}
    BY <1>9, NoSpanAssumption DEF SayStarted, SpeechInv, TaskKnown, SayAlone
  <2>2. link = "up" => voice = {}
    BY <1>9, <2>1 DEF SayStarted, SpeechInv, VoicesOwned, TypeOK
  <2>3. QED BY <1>9, <2>1, <2>2, JobAssumption
            DEF SayStarted, EmitPlayback, At, SpeechInv, TaskKnown, SayAlone,
                ShutdownIsLast, VoicesOwned, StoppedIsOwed
<1>10. ASSUME NEW s \in Span, ReportRunning(s) PROVE SpeechInv'
  BY <1>10, JobAssumption
     DEF ReportRunning, At, SpeechInv, TaskKnown, SayAlone, ShutdownIsLast, VoicesOwned,
         StoppedIsOwed
<1>11. ASSUME NEW s \in Span, SayDefers(s) PROVE SpeechInv'
  <2>1. /\ speaking' = [speaking EXCEPT ![s] = "waiting"]
        /\ speechTask' = s /\ job = s /\ job' = NoSpan /\ pc' = "rest"
        /\ pc \in {"started", "reported"}
        /\ UNCHANGED <<voice, process, playback, link>>
    BY <1>11 DEF SayDefers, BackToRest, At
  <2>2. \A t \in Span : t # s => speaking'[t] = speaking[t]
    BY <2>1 DEF TypeOK
  <2>3. speaking'[s] = "waiting"
    BY <2>1 DEF TypeOK
  <2>4. TaskKnown'
    BY <2>1, <2>2, NoSpanAssumption DEF SpeechInv, TaskKnown, SayAlone
  <2>5. SayAlone' /\ ShutdownIsLast'
    BY <2>1, JobAssumption DEF SayAlone, ShutdownIsLast
  <2>6. VoicesOwned'
    BY <2>1, <2>2, <2>3 DEF SpeechInv, VoicesOwned, TypeOK
  <2>7. StoppedIsOwed'
    BY <2>3 DEF StoppedIsOwed
  <2>8. QED BY <2>4, <2>5, <2>6, <2>7 DEF SpeechInv
<1>12. CASE RunFinishes
  BY <1>12, ElsewhereKeeps DEF RunFinishes, At
<1>13. CASE CaptureTask \/ \E f \in Frame : BrainSends(f)
  <2>1. UNCHANGED speechState
    BY <1>13 DEF CaptureTask, CaptureReads, CaptureSent, CaptureCancelled, BrainSends,
                 speechState
  <2>2. QED BY <2>1, SpeechUntouched
<1>14. ASSUME NEW s \in Span, SpeechWaited(s) PROVE SpeechInv'
  <2>1. PICK outcome \in {"succeeded", "failed"} :
           /\ speaking' = [speaking EXCEPT ![s] = outcome]
           /\ EmitPlayback("stopped")
    BY <1>14 DEF SpeechWaited, SentenceOver
  <2>2. /\ speaking[s] = "waiting" /\ process \notin voice
        /\ UNCHANGED <<voice, speechTask, pc, job, awaited, link>>
    BY <1>14 DEF SpeechWaited
  <2>3. \A t \in Span : speaking'[t] \in {"waiting", "succeeded", "failed"}
                          => speaking[t] \in {"waiting", "succeeded", "failed"}
    BY <2>1, <2>2 DEF TypeOK
  <2>4. TaskKnown' /\ SayAlone' /\ ShutdownIsLast'
    BY <2>2, <2>3 DEF SpeechInv, TaskKnown, SayAlone, ShutdownIsLast
  <2>5. link = "up" => voice = {}
    BY <2>2 DEF SpeechInv, VoicesOwned, TypeOK
  <2>6. VoicesOwned'
    BY <2>2, <2>5 DEF VoicesOwned
  <2>7. StoppedIsOwed'
    BY <2>1, <2>2 DEF StoppedIsOwed, EmitPlayback
  <2>8. QED BY <2>4, <2>6, <2>7 DEF SpeechInv
<1>15. ASSUME NEW s \in Span, SpeechEnds(s) PROVE SpeechInv'
  <2>1. /\ speaking[s] \in {"succeeded", "failed"}
        /\ speaking' = [speaking EXCEPT ![s] = "over"]
        /\ UNCHANGED <<voice, process, speechTask, playback, pc, job, awaited, link>>
    BY <1>15 DEF SpeechEnds
  <2>2. /\ \A t \in Span : t # s => speaking'[t] = speaking[t]
        /\ speaking'[s] = "over"
    BY <2>1 DEF TypeOK
  <2>3. TaskKnown' /\ SayAlone' /\ ShutdownIsLast'
    BY <2>1, <2>2 DEF SpeechInv, TaskKnown, SayAlone, ShutdownIsLast
  <2>4. VoicesOwned'
    BY <2>1, <2>2 DEF SpeechInv, VoicesOwned, TypeOK
  <2>5. StoppedIsOwed'
    BY <2>1, <2>2 DEF SpeechInv, StoppedIsOwed
  <2>6. QED BY <2>3, <2>4, <2>5 DEF SpeechInv
<1>16. ASSUME NEW s \in Span, VoiceEnds(s) PROVE SpeechInv'
  BY <1>16 DEF VoiceEnds, SpeechInv, TaskKnown, SayAlone, ShutdownIsLast, VoicesOwned,
               StoppedIsOwed
<1>17. CASE LinkDies
  BY <1>17 DEF LinkDies, SpeechInv, TaskKnown, SayAlone, ShutdownIsLast, VoicesOwned,
               StoppedIsOwed
<1>18. CASE UNCHANGED vars
  BY <1>18, SpeechUntouched DEF vars, speechState
<1>19. QED BY <1>1, <1>2, <1>3, <1>4, <1>5, <1>6, <1>7, <1>8, <1>9, <1>10, <1>11, <1>12,
              <1>13, <1>14, <1>15, <1>16, <1>17, <1>18
           DEF Next, ReceiveLoop, SpeechTask

\* At every moment a speech task not over is the body's or the awaited one, and
\* nothing speaks without a task or a handler to end it.
THEOREM SpeechInvAlways == Spec => []SpeechInv
<1>1. TypeOK /\ SpeechInv /\ [Next]_vars => SpeechInv'
  BY SpeechInvStep
<1>2. QED BY <1>1, SpeechInvInit, TypeCorrect, PTL DEF Spec

\* Over a living socket a process that talks is the one the speaker can
\* stop, and its say is being handled or its task waits for it.
THEOREM NoVoiceIsLost == Spec => []VoicesOwned
<1>1. SpeechInv => VoicesOwned
  BY DEF SpeechInv
<1>2. QED BY <1>1, SpeechInvAlways, PTL

\* Over a living socket every "started" is followed by its "stopped": until
\* then a task is there that is about to send it.
THEOREM EveryStartIsStopped == Spec => []StoppedIsOwed
<1>1. SpeechInv => StoppedIsOwed
  BY DEF SpeechInv
<1>2. QED BY <1>1, SpeechInvAlways, PTL

-----------------------------------------------------------------------------
(* The latch.                                                              *)

\* An estop that waits has closed the camera, and past the capture's wait
\* nothing captures.
EstopDark == job = "estop" => ~camera /\ (pc = "hushing" => capture = "none")

\* While an estop waits nothing turns camera or capture on again.
LEMMA EstopDarkStep ==
  ASSUME TypeOK, EstopDark, [Next]_vars
  PROVE  EstopDark'
<1> USE DEF devices, speech, spans, loop, net
<1>1. ASSUME NEW s \in Span, job' \in {NoSpan, s} \/ job' = "shutdown" PROVE EstopDark'
  BY <1>1, JobAssumption DEF EstopDark
<1>2. CASE RecvEstop
  BY <1>2 DEF RecvEstop, At, EstopDark
<1>3. CASE CaptureStopped
  BY <1>3, JobAssumption DEF CaptureStopped, Uncaptured, BackToRest, At, EstopDark
<1>4. CASE UNCHANGED <<camera, capture, job, pc>>
  BY <1>4 DEF EstopDark
<1>5. CASE CaptureTask
  BY <1>5 DEF CaptureTask, CaptureReads, CaptureSent, CaptureCancelled, EstopDark
<1>6. CASE pc = "rest" /\ UNCHANGED <<job, pc>> /\ (camera' => camera)
  BY <1>6 DEF EstopDark
<1>7. CASE RunFinishes \/ RunCloses
  BY <1>7, JobAssumption DEF RunFinishes, RunCloses, At, EstopDark
<1>8. CASE RecvEstopClear \/ RecvDuplicate
  BY <1>8, <1>4 DEF RecvEstopClear, RecvDuplicate
<1>9. CASE EstopLatches
  BY <1>9, JobAssumption DEF EstopLatches, BackToRest, At, EstopDark
<1>10. ASSUME NEW s \in Span,
              \/ RecvTooLate(s) \/ RecvAnswered(s)
              \/ SpeechWaited(s) \/ SpeechEnds(s) \/ VoiceEnds(s)
       PROVE  EstopDark'
  BY <1>10, <1>4 DEF RecvTooLate, RecvAnswered, SpeechWaited, SpeechEnds, VoiceEnds
<1>11. ASSUME NEW s \in Span, SnapshotFails(s) \/ RecvStartCapture(s) PROVE EstopDark'
  BY <1>11, <1>6 DEF SnapshotFails, RecvStartCapture, NextCommand, NextFrame
<1>12. ASSUME NEW s \in Span,
              \/ RecvClearSafeHold(s) \/ RecvSnapshot(s) \/ Answers(s)
              \/ RecvStopCapture(s) \/ RecvSpeaker(s) \/ StopAnswers(s) \/ SayStarts(s)
              \/ StartFails(s) \/ SayStarted(s) \/ ReportRunning(s) \/ ReportBreaks(s)
              \/ SayDefers(s)
       PROVE  EstopDark'
  <2>1. job' \in {NoSpan, s}
    BY <1>12 DEF RecvClearSafeHold, RecvSnapshot, Answers, RecvStopCapture, RecvSpeaker,
                 StopAnswers, SayStarts, StartFails, SayStarted, ReportRunning,
                 ReportBreaks, SayDefers, BackToRest, At
  <2>2. QED BY <2>1, <1>1
<1>13. CASE LinkDies \/ (\E f \in Frame : BrainSends(f)) \/ UNCHANGED vars
  BY <1>13, <1>4 DEF LinkDies, BrainSends, vars
<1>14. QED BY <1>2, <1>3, <1>5, <1>7, <1>8, <1>9, <1>10, <1>11, <1>12, <1>13
           DEF Next, ReceiveLoop, SpeechTask

\* Only an estop that has waited for the devices makes the body estopped.
LEMMA OnlyEstopLatches ==
  ASSUME TypeOK, [Next]_vars, safety # "estopped", safety' = "estopped"
  PROVE  EstopLatches
<1>1. ASSUME NEW s \in Span PROVE ~RecvClearSafeHold(s)
  BY SafetyStates DEF RecvClearSafeHold, Announce, TypeOK
<1>2. ~RecvEstopClear
  BY SafetyStates DEF RecvEstopClear, Announce, TypeOK
<1>3. EstopLatches \/ UNCHANGED safety
  BY <1>1, <1>2
     DEF Next, ReceiveLoop, RecvEstop, RecvDuplicate, RecvTooLate, RecvAnswered,
         RecvSnapshot, SnapshotFails, Answers, RecvStartCapture, RecvStopCapture,
         RecvSpeaker, StopAnswers, SayStarts, StartFails, SayStarted, ReportRunning,
         ReportBreaks, SayDefers, CaptureStopped, RunFinishes, RunCloses, CaptureTask,
         CaptureReads, CaptureSent, CaptureCancelled, SpeechTask, SpeechWaited,
         SpeechEnds, VoiceEnds, BrainSends, LinkDies, vars
<1>4. QED BY <1>3

\* When the body becomes estopped its camera is closed, nothing captures and,
\* over a living socket, nothing talks.
THEOREM LatchIsQuiet == Spec => LatchesQuiet
<1>1. Init => EstopDark
  BY JobAssumption DEF Init, EstopDark
<1>2. TypeOK /\ EstopDark /\ [Next]_vars => EstopDark'
  BY EstopDarkStep
<1>3. TypeOK /\ EstopDark /\ SpeechInv /\ [Next]_vars =>
        (safety # "estopped" /\ safety' = "estopped" =>
           /\ ~camera
           /\ capture = "none"
           /\ link = "up" => voice = {} /\ \A s \in Span : speaking[s] # "waiting")
  <2> SUFFICES ASSUME TypeOK, EstopDark, SpeechInv, [Next]_vars,
                      safety # "estopped", safety' = "estopped"
               PROVE  /\ ~camera
                      /\ capture = "none"
                      /\ link = "up" => voice = {} /\ \A s \in Span : speaking[s] # "waiting"
    OBVIOUS
  <2>1. EstopLatches
    BY OnlyEstopLatches
  <2>2. ~camera /\ capture = "none"
    BY <2>1 DEF EstopLatches, EstopDark
  <2>3. link = "up" => voice = {} /\ \A s \in Span : speaking[s] # "waiting"
    BY <2>1, HushedIsQuiet DEF EstopLatches
  <2>4. QED BY <2>2, <2>3
<1>4. QED BY <1>1, <1>2, <1>3, TypeCorrect, SpeechInvAlways, PTL DEF Spec, LatchesQuiet

-----------------------------------------------------------------------------
(* Answers.                                                                *)

\* Nothing is said or sent for a span that no command has opened.
UnseenIsQuiet ==
  \A s \in Span : ledger[s] = "unseen" => speaking[s] = "no" /\ results[s] = <<>>

\* The span a handler is at is open, no task has it, and before the report
\* it has no answer.
JobIsFresh ==
  \A s \in Span : job = s =>
    /\ ledger[s] = "open"
    /\ speaking[s] = "no"
    /\ pc # "reported" => results[s] = <<>>

AnswerInv == AnswersInOrder /\ UnseenIsQuiet /\ JobIsFresh

\* No span has an answer at the beginning.
LEMMA AnswerInvInit == Init => AnswerInv
BY JobAssumption, NoSpanAssumption
   DEF Init, AnswerInv, AnswersInOrder, UnseenIsQuiet, JobIsFresh

\* Steps that answer nothing, and leave or abandon what the loop is at.
LEMMA SilenceKeeps ==
  ASSUME AnswerInv, UNCHANGED <<ledger, results, speaking>>,
         \/ job' \notin Span
         \/ job' = job /\ (pc' = "reported" \/ pc # "reported")
  PROVE  AnswerInv'
BY DEF AnswerInv, AnswersInOrder, UnseenIsQuiet, JobIsFresh, Ended

\* One answer and another are two, in that order.
LEMMA AppendToOne ==
  ASSUME NEW S, NEW a \in S, NEW b \in S
  PROVE  Append(<<a>>, b) = <<a, b>>
<1> DEFINE longer == Append(<<a>>, b)
           pair == <<a, b>>
<1>1. longer \in Seq(S) /\ pair \in Seq(S) /\ Len(longer) = 2 /\ Len(pair) = 2
  OBVIOUS
<1>2. longer[1] = a /\ longer[2] = b
  OBVIOUS
<1>3. \A i \in 1 .. Len(longer) : longer[i] = pair[i]
  BY <1>1, <1>2
<1> HIDE DEF longer, pair
<1>4. longer = pair
  BY <1>1, <1>3, SeqEqual
<1>5. QED BY <1>4 DEF longer, pair

\* A span that ends is answered once, after its "running" if it had one.
LEMMA EndKeeps ==
  ASSUME TypeOK, AnswerInv, NEW s \in Span, NEW status \in Terminal,
         EmitTerminal(s, status),
         \A t \in Span : t # s => speaking'[t] = speaking[t],
         \/ job' \notin Span
         \/ job' = job /\ pc' = pc /\ job # s
  PROVE  AnswerInv'
<1>1. /\ \A t \in Span : t # s => ledger'[t] = ledger[t] /\ results'[t] = results[t]
      /\ ledger'[s] \in Terminal
  BY DEF EmitTerminal, Ended, Answered, TypeOK, spans
<1>2. /\ results[s] \in {<<>>, <<"running">>}
                          \cup (IF Ended(s) THEN {<<ledger[s]>>, <<"running", ledger[s]>>}
                                            ELSE {})
      /\ Ended(s) => ledger'[s] = ledger[s] /\ results'[s] = results[s]
  BY DEF AnswerInv, AnswersInOrder, EmitTerminal, spans
<1>3. results'[s] \in {<<>>, <<"running">>, <<ledger'[s]>>, <<"running", ledger'[s]>>}
  <2>1. CASE Ended(s)
    BY <1>2, <2>1
  <2>2. CASE ~Ended(s)
    <3>1. results[s] \in {<<>>, <<"running">>} /\ ledger'[s] = status
      BY <1>2, <2>2 DEF EmitTerminal, TypeOK
    <3>2. results'[s] \in {results[s], Append(results[s], status)}
      BY <2>2 DEF EmitTerminal, Answered, TypeOK
    <3>3. Append(<<>>, status) = <<status>>
      OBVIOUS
    <3>4. Append(<<"running">>, status) = <<"running", status>>
      <4> DEFINE S == {"running"} \cup Terminal
      <4>1. "running" \in S /\ status \in S
        OBVIOUS
      <4>2. QED BY <4>1, AppendToOne
    <3>5. QED BY <3>1, <3>2, <3>3, <3>4
  <2>3. QED BY <2>1, <2>2
<1>4. AnswersInOrder'
  BY <1>1, <1>3 DEF AnswerInv, AnswersInOrder, Ended
<1>5. UnseenIsQuiet'
  BY <1>1 DEF AnswerInv, UnseenIsQuiet, Terminal
<1>6. JobIsFresh'
  BY <1>1 DEF AnswerInv, JobIsFresh
<1>7. QED BY <1>4, <1>5, <1>6 DEF AnswerInv

\* Admitting a span answers nothing and gives it to no task.
LEMMA AdmissionKeeps ==
  ASSUME TypeOK, AnswerInv, NEW s \in Span, Admit(s), UNCHANGED speaking, job' = s
  PROVE  AnswerInv'
<1>1. /\ \A t \in Span : t # s => ledger'[t] = ledger[t]
      /\ ledger[s] = "unseen" /\ ledger'[s] = "open"
      /\ UNCHANGED results
  BY DEF Admit, TypeOK
<1>2. results[s] = <<>> /\ speaking[s] = "no"
  BY <1>1 DEF AnswerInv, UnseenIsQuiet
<1>3. AnswersInOrder'
  BY <1>1, <1>2 DEF AnswerInv, AnswersInOrder, Ended
<1>4. UnseenIsQuiet' /\ JobIsFresh'
  BY <1>1, <1>2 DEF AnswerInv, UnseenIsQuiet, JobIsFresh
<1>5. QED BY <1>3, <1>4 DEF AnswerInv

\* Each step keeps the answers in order.
LEMMA AnswerInvStep ==
  ASSUME TypeOK, AnswerInv, [Next]_vars
  PROVE  AnswerInv'
<1> USE DEF devices, speech, spans, loop, net
<1>1. CASE RecvEstop \/ EstopLatches \/ RunFinishes \/ RunCloses
  BY <1>1, SilenceKeeps, JobAssumption, NoSpanAssumption
     DEF RecvEstop, EstopLatches, RunFinishes, RunCloses, BackToRest, At
<1>2. CASE \/ RecvEstopClear \/ RecvDuplicate \/ CaptureTask
           \/ \E s \in Span : VoiceEnds(s)
           \/ \E f \in Frame : BrainSends(f)
           \/ LinkDies \/ UNCHANGED vars
  <2>1. UNCHANGED <<ledger, results, speaking, job, pc>>
    BY <1>2 DEF RecvEstopClear, RecvDuplicate, CaptureTask, CaptureReads, CaptureSent,
                CaptureCancelled, VoiceEnds, BrainSends, LinkDies, vars
  <2>2. QED BY <2>1, SilenceKeeps
<1>3. ASSUME NEW s \in Span, SayStarts(s) \/ SayStarted(s) PROVE AnswerInv'
  BY <1>3, SilenceKeeps DEF SayStarts, SayStarted, At
<1>4. ASSUME NEW s \in Span, NEW status \in Terminal, ledger[s] = "unseen",
             EmitTerminal(s, status), UNCHANGED <<speaking, loop>>
      PROVE  AnswerInv'
  <2>1. job # s
    BY <1>4 DEF AnswerInv, JobIsFresh
  <2>2. QED BY <1>4, <2>1, EndKeeps
<1>5. ASSUME NEW s \in Span,
             \/ RecvTooLate(s) \/ RecvAnswered(s) \/ SnapshotFails(s) \/ RecvStartCapture(s)
      PROVE  AnswerInv'
  <2>1. CASE RecvAnswered(s)
    BY <2>1, <1>4 DEF RecvAnswered
  <2>2. CASE \/ RecvTooLate(s) \/ SnapshotFails(s) \/ RecvStartCapture(s)
    BY <2>2, <1>4 DEF RecvTooLate, SnapshotFails, RecvStartCapture, Terminal
  <2>3. QED BY <1>5, <2>1, <2>2
<1>6. ASSUME NEW s \in Span,
             RecvClearSafeHold(s) \/ RecvSnapshot(s) \/ RecvStopCapture(s) \/ RecvSpeaker(s)
      PROVE  AnswerInv'
  BY <1>6, AdmissionKeeps
     DEF RecvClearSafeHold, RecvSnapshot, RecvStopCapture, RecvSpeaker, Interrupt, At
<1>7. ASSUME NEW s \in Span, NEW status \in Terminal, EmitTerminal(s, status),
             UNCHANGED speaking, BackToRest
      PROVE  AnswerInv'
  BY <1>7, EndKeeps, NoSpanAssumption DEF BackToRest, At
<1>8. ASSUME NEW s \in Span,
             Answers(s) \/ StopAnswers(s) \/ StartFails(s) \/ ReportBreaks(s)
      PROVE  AnswerInv'
  BY <1>8, <1>7 DEF Answers, StopAnswers, StartFails, ReportBreaks, Terminal
<1>9. CASE CaptureStopped
  <2>1. CASE job \in Span /\ EmitTerminal(job, "succeeded") /\ BackToRest
             /\ UNCHANGED speech
    BY <2>1, <1>7 DEF Terminal
  <2>2. CASE job \in {"estop", "shutdown"} /\ Interrupt /\ At("hushing", job)
             /\ UNCHANGED spans
    BY <2>2, SilenceKeeps, JobAssumption DEF Interrupt, At
  <2>3. QED BY <1>9, <2>1, <2>2 DEF CaptureStopped
<1>10. ASSUME NEW s \in Span, ReportRunning(s) PROVE AnswerInv'
  <2>1. /\ \A t \in Span : t # s => results'[t] = results[t]
        /\ results'[s] = Append(results[s], "running")
        /\ job = s /\ job' = s /\ pc = "started" /\ pc' = "reported"
        /\ UNCHANGED <<ledger, speaking>>
    BY <1>10 DEF ReportRunning, At, TypeOK
  <2>2. results[s] = <<>> /\ ledger[s] = "open"
    BY <2>1 DEF AnswerInv, JobIsFresh
  <2>3. results'[s] = <<"running">>
    BY <2>1, <2>2
  <2>4. AnswersInOrder'
    BY <2>1, <2>3 DEF AnswerInv, AnswersInOrder, Ended
  <2>5. UnseenIsQuiet' /\ JobIsFresh'
    BY <2>1, <2>2 DEF AnswerInv, UnseenIsQuiet, JobIsFresh
  <2>6. QED BY <2>4, <2>5 DEF AnswerInv
<1>11. ASSUME NEW s \in Span, SayDefers(s) \/ SpeechWaited(s) PROVE AnswerInv'
  <2>1. /\ \A t \in Span : t # s => speaking'[t] = speaking[t]
        /\ UNCHANGED <<ledger, results>>
        /\ \/ job = s /\ job' = NoSpan
           \/ speaking[s] = "waiting" /\ UNCHANGED <<job, pc>>
    BY <1>11 DEF SayDefers, SpeechWaited, SentenceOver, BackToRest, At, TypeOK
  <2>2. ledger[s] # "unseen"
    BY <2>1 DEF AnswerInv, UnseenIsQuiet, JobIsFresh
  <2>3. AnswersInOrder' /\ UnseenIsQuiet'
    BY <2>1, <2>2 DEF AnswerInv, AnswersInOrder, UnseenIsQuiet, Ended
  <2>4. JobIsFresh'
    BY <2>1, NoSpanAssumption DEF AnswerInv, JobIsFresh
  <2>5. QED BY <2>3, <2>4 DEF AnswerInv
<1>12. ASSUME NEW s \in Span, SpeechEnds(s) PROVE AnswerInv'
  <2>1. /\ \A t \in Span : t # s => speaking'[t] = speaking[t]
        /\ speaking[s] \in {"succeeded", "failed"}
        /\ EmitTerminal(s, speaking[s])
        /\ UNCHANGED <<job, pc>>
    BY <1>12 DEF SpeechEnds, TypeOK
  <2>2. job # s
    BY <2>1 DEF AnswerInv, JobIsFresh
  <2>3. speaking[s] \in Terminal
    BY <2>1 DEF Terminal
  <2>4. QED BY <2>1, <2>2, <2>3, EndKeeps
<1>13. QED BY <1>1, <1>2, <1>3, <1>5, <1>6, <1>8, <1>9, <1>10, <1>11, <1>12
           DEF Next, ReceiveLoop, SpeechTask

\* Each span is answered at most once for good, with what the ledger holds,
\* and a deferred one's "running" never comes after its end.
THEOREM EachSpanAnsweredInOrder == Spec => []AnswersInOrder
<1>1. TypeOK /\ AnswerInv /\ [Next]_vars => AnswerInv'
  BY AnswerInvStep
<1>2. AnswerInv => AnswersInOrder
  BY DEF AnswerInv
<1>3. QED BY <1>1, <1>2, AnswerInvInit, TypeCorrect, PTL DEF Spec

-----------------------------------------------------------------------------
(* Waits.                                                                  *)

\* The receive loop is at something of somebody's wherever it is suspended,
\* and the step that takes it on from there fits what it is at.
AtWork ==
  /\ pc \in {"rest", "over"} <=> job = NoSpan
  /\ pc \in {"answering", "starting", "started", "reported"} => job \in Span
  /\ pc = "hushing" /\ job \in Span =>
       Is(job, "spk0", "say") \/ Is(job, "spk0", "stop")

\* It waits only for what has been told to stop: a capture that is over or
\* cancelled, a sentence whose process is gone or has been sent its signal.
\* An estop, a stop and a shutdown wait behind both, so a wait for anything
\* else could hold them up for as long as it liked.
WaitsForTheStopped ==
  /\ pc = "uncapturing" => capture \in {"none", "cancelled"}
  /\ pc = "hushing" =>
       \A s \in Span : awaited = s =>
         /\ speaking[s] # "no"
         /\ speaking[s] = "waiting" => cut \/ process \notin voice

\* The task the body knows has begun.
TaskBegun == \A s \in Span : speechTask = s => speaking[s] # "no"

WaitInv == AtWork /\ WaitsForTheStopped /\ TaskBegun

\* Steps that leave the loop, the capture and the speech where they are.
LEMMA WaitsUntouched ==
  ASSUME WaitInv, UNCHANGED <<pc, job, awaited, capture, speechTask, speaking>>,
         process \notin voice => process' \notin voice',
         cut => cut'
  PROVE  WaitInv'
BY DEF WaitInv, AtWork, WaitsForTheStopped, TaskBegun

\* Steps to a place where the loop waits for nobody.
LEMMA WaitsForNobody ==
  ASSUME WaitInv, UNCHANGED <<speechTask, speaking>>,
         \/ pc' \in {"rest", "over"} /\ job' = NoSpan
         \/ pc' \in {"answering", "starting", "started", "reported"} /\ job' \in Span
  PROVE  WaitInv'
BY NoSpanAssumption DEF WaitInv, AtWork, WaitsForTheStopped, TaskBegun

\* A capture is told to stop before it is waited for.
LEMMA StopCaptureWaits ==
  ASSUME WaitInv, NEW what \in Span \cup {"estop", "shutdown"},
         StopCapture, At("uncapturing", what), UNCHANGED <<speechTask, speaking>>
  PROVE  WaitInv'
<1>1. capture' \in {"none", "cancelled"} /\ pc' = "uncapturing" /\ job' = what
  BY DEF StopCapture, At
<1>2. what # NoSpan
  BY NoSpanAssumption, JobAssumption
<1>3. QED BY <1>1, <1>2 DEF WaitInv, AtWork, WaitsForTheStopped, TaskBegun

\* And so is a sentence.
LEMMA InterruptWaits ==
  ASSUME TypeOK, WaitInv, Interrupt, NEW what \in Span \cup {"estop", "shutdown"},
         At("hushing", what),
         what \in Span => Is(what, "spk0", "say") \/ Is(what, "spk0", "stop")
  PROVE  WaitInv'
<1>1. /\ pc' = "hushing" /\ job' = what /\ what # NoSpan
      /\ UNCHANGED <<voice, process, speaking>> /\ speechTask' = NoSpan
  BY NoSpanAssumption, JobAssumption DEF Interrupt, At
<1>2. AtWork'
  BY <1>1 DEF AtWork, Is
<1>3. ASSUME NEW s \in Span, awaited' = s
      PROVE  speaking[s] # "no" /\ (cut' \/ process \notin voice)
  <2>1. speechTask = s /\ SpeakerStop
    BY <1>3, NoSpanAssumption DEF Interrupt
  <2>2. process \in voice => process # NoSpan
    BY NoSpanAssumption DEF TypeOK
  <2>3. QED BY <2>1, <2>2 DEF SpeakerStop, WaitInv, TaskBegun
<1>4. WaitsForTheStopped'
  BY <1>1, <1>3 DEF WaitsForTheStopped
<1>5. TaskBegun'
  BY <1>1, NoSpanAssumption DEF TaskBegun
<1>6. QED BY <1>2, <1>4, <1>5 DEF WaitInv

\* Nothing waits at the beginning.
LEMMA WaitInvInit == Init => WaitInv
BY NoSpanAssumption DEF Init, WaitInv, AtWork, WaitsForTheStopped, TaskBegun

\* Each step keeps the waits bounded.
LEMMA WaitInvStep ==
  ASSUME TypeOK, WaitInv, [Next]_vars
  PROVE  WaitInv'
<1> USE DEF devices, speech, spans, loop, net
<1>1. CASE RecvEstop
  BY <1>1, StopCaptureWaits DEF RecvEstop
<1>2. CASE RunFinishes
  BY <1>2, StopCaptureWaits DEF RunFinishes
<1>3. ASSUME NEW s \in Span, RecvStopCapture(s) PROVE WaitInv'
  BY <1>3, StopCaptureWaits DEF RecvStopCapture
<1>4. ASSUME NEW s \in Span, RecvSpeaker(s) PROVE WaitInv'
  BY <1>4, InterruptWaits DEF RecvSpeaker
<1>5. CASE CaptureStopped
  <2>1. CASE BackToRest /\ UNCHANGED speech
    BY <2>1, WaitsForNobody DEF BackToRest, At
  <2>2. CASE job \in {"estop", "shutdown"} /\ Interrupt /\ At("hushing", job)
    BY <2>2, InterruptWaits, JobAssumption
  <2>3. QED BY <1>5, <2>1, <2>2 DEF CaptureStopped
<1>6. ASSUME NEW s \in Span,
             \/ RecvClearSafeHold(s) \/ RecvSnapshot(s) \/ Answers(s) \/ StopAnswers(s)
             \/ SayStarts(s) \/ StartFails(s) \/ SayStarted(s) \/ ReportRunning(s)
             \/ ReportBreaks(s)
      PROVE  WaitInv'
  <2>1. /\ UNCHANGED <<speechTask, speaking>>
        /\ \/ pc' = "rest" /\ job' = NoSpan
           \/ pc' \in {"answering", "starting", "started", "reported"} /\ job' = s
    BY <1>6 DEF RecvClearSafeHold, RecvSnapshot, Answers, StopAnswers, SayStarts,
                StartFails, SayStarted, ReportRunning, ReportBreaks, BackToRest, At
  <2>2. QED BY <2>1, WaitsForNobody
<1>7. CASE EstopLatches \/ RunCloses
  BY <1>7, WaitsForNobody DEF EstopLatches, RunCloses, BackToRest, At
<1>8. ASSUME NEW s \in Span, SayDefers(s) PROVE WaitInv'
  <2>1. /\ speechTask' = s /\ speaking' = [speaking EXCEPT ![s] = "waiting"]
        /\ pc' = "rest" /\ job' = NoSpan
    BY <1>8 DEF SayDefers, BackToRest, At
  <2>2. speaking'[s] = "waiting"
    BY <2>1 DEF TypeOK
  <2>3. QED BY <2>1, <2>2, NoSpanAssumption
            DEF WaitInv, AtWork, WaitsForTheStopped, TaskBegun
<1>9. CASE \/ RecvEstopClear \/ RecvDuplicate
           \/ \E s \in Span : RecvTooLate(s) \/ RecvAnswered(s) \/ SnapshotFails(s)
           \/ \E f \in Frame : BrainSends(f)
           \/ LinkDies \/ UNCHANGED vars
  <2>1. UNCHANGED <<pc, job, awaited, capture, speechTask, speaking, process, voice, cut>>
    BY <1>9 DEF RecvEstopClear, RecvDuplicate, RecvTooLate, RecvAnswered, SnapshotFails,
                BrainSends, LinkDies, vars
  <2>2. QED BY <2>1, WaitsUntouched
<1>10. ASSUME NEW s \in Span, RecvStartCapture(s) PROVE WaitInv'
  <2>1. pc = "rest" /\ UNCHANGED <<pc, job, awaited, speechTask, speaking>>
    BY <1>10 DEF RecvStartCapture, NextCommand, NextFrame
  <2>2. job = NoSpan
    BY <2>1 DEF WaitInv, AtWork
  <2>3. QED BY <2>1, <2>2, WaitsForNobody
<1>11. CASE CaptureTask
  <2>1. /\ UNCHANGED <<pc, job, awaited, speechTask, speaking, process, voice, cut>>
        /\ capture \in {"none", "cancelled"} => capture' \in {"none", "cancelled"}
    BY <1>11 DEF CaptureTask, CaptureReads, CaptureSent, CaptureCancelled
  <2>2. QED BY <2>1 DEF WaitInv, AtWork, WaitsForTheStopped, TaskBegun
<1>12. ASSUME NEW s \in Span, SpeechWaited(s) \/ SpeechEnds(s) PROVE WaitInv'
  <2>1. /\ UNCHANGED <<pc, job, awaited, capture, speechTask, voice, cut>>
        /\ process' \in {process, NoSpan}
        /\ \E how \in {"succeeded", "failed", "over"} :
             speaking' = [speaking EXCEPT ![s] = how]
    BY <1>12 DEF SpeechWaited, SentenceOver, SpeechEnds
  <2>2. \A t \in Span : speaking'[t] = speaking[t] \/ speaking'[t] \notin {"no", "waiting"}
    BY <2>1 DEF TypeOK
  <2>3. process \notin voice => process' \notin voice
    BY <2>1, NoSpanAssumption DEF TypeOK
  <2>4. QED BY <2>1, <2>2, <2>3 DEF WaitInv, AtWork, WaitsForTheStopped, TaskBegun
<1>13. ASSUME NEW s \in Span, VoiceEnds(s) PROVE WaitInv'
  BY <1>13, WaitsUntouched DEF VoiceEnds
<1>14. QED BY <1>1, <1>2, <1>3, <1>4, <1>5, <1>6, <1>7, <1>8, <1>9, <1>10, <1>11, <1>12,
              <1>13
           DEF Next, ReceiveLoop, SpeechTask

\* The receive loop is never wedged: wherever it is suspended it has its next
\* step, and what it waits for first has been told to stop.
THEOREM NoWaitIsInVain == Spec => [](AtWork /\ WaitsForTheStopped)
<1>1. TypeOK /\ WaitInv /\ [Next]_vars => WaitInv'
  BY WaitInvStep
<1>2. WaitInv => AtWork /\ WaitsForTheStopped
  BY DEF WaitInv
<1>3. QED BY <1>1, <1>2, WaitInvInit, TypeCorrect, PTL DEF Spec

-----------------------------------------------------------------------------
(* An estop, and the spans that are open.                                  *)

\* An estop that reached the socket is in line, or being acted on.
EstopPending == job = "estop" \/ \E i \in DOMAIN inbox : inbox[i].type = "estop"

\* It stays so until the body is estopped, whatever is said, captured, asked
\* or broken meanwhile; only the death of the socket can lose it.
EstopKept ==
  [][EstopPending => EstopPending' \/ safety' = "estopped" \/ link' = "down"]_vars

\* A frame that is taken is the oldest, and the others stay in line.
LEMMA OthersStay ==
  ASSUME TypeOK, NEW type, NextFrame(type), type # "estop",
         \E i \in DOMAIN inbox : inbox[i].type = "estop"
  PROVE  \E i \in DOMAIN inbox' : inbox'[i].type = "estop"
<1> DEFINE rest == Tail(inbox)
<1>1. inbox \in Seq(Frame) /\ inbox # <<>> /\ inbox' = rest /\ Head(inbox).type = type
  BY DEF NextFrame, TypeOK
<1>2. PICK i \in DOMAIN inbox : inbox[i].type = "estop"
  OBVIOUS
<1>3. i \in 1 .. Len(inbox) /\ Len(inbox) \in Nat
      /\ DOMAIN rest = 1 .. Len(inbox) - 1
      /\ \A j \in 1 .. Len(inbox) - 1 : rest[j] = inbox[j + 1]
      /\ Head(inbox) = inbox[1]
  BY <1>1
<1>4. i # 1
  BY <1>1, <1>2, <1>3
<1> HIDE DEF rest
<1>5. i - 1 \in DOMAIN rest /\ rest[i - 1].type = "estop"
  BY <1>2, <1>3, <1>4
<1>6. QED BY <1>1, <1>5

\* A frame that arrives goes to the end of the line.
LEMMA FrameArrives ==
  ASSUME TypeOK, NEW f, BrainSends(f)
  PROVE  \A i \in DOMAIN inbox : i \in DOMAIN inbox' /\ inbox'[i] = inbox[i]
BY DEF TypeOK, BrainSends

\* An estop queued or in hand is kept.
LEMMA EstopStep ==
  ASSUME TypeOK, AtWork, EstopPending, [Next]_vars
  PROVE  EstopPending' \/ safety' = "estopped" \/ link' = "down"
<1> USE DEF devices, speech, spans, loop, net
<1>1. CASE RecvEstop
  BY <1>1 DEF RecvEstop, At, EstopPending
<1>2. ASSUME NEW type, NextFrame(type), type # "estop" PROVE EstopPending'
  <2>1. job # "estop"
    BY <1>2, JobAssumption DEF NextFrame, AtWork
  <2>2. QED BY <1>2, <2>1, OthersStay DEF EstopPending
<1>3. CASE RecvEstopClear
  BY <1>2, <1>3 DEF RecvEstopClear
<1>4. ASSUME NEW s \in Span,
             \/ RecvTooLate(s) \/ RecvAnswered(s) \/ RecvClearSafeHold(s)
             \/ RecvSnapshot(s) \/ SnapshotFails(s) \/ RecvStartCapture(s)
             \/ RecvStopCapture(s) \/ RecvSpeaker(s)
      PROVE  EstopPending'
  <2>1. NextFrame("command")
    BY <1>4 DEF RecvTooLate, RecvAnswered, RecvClearSafeHold, RecvSnapshot,
                SnapshotFails, RecvStartCapture, RecvStopCapture, RecvSpeaker, Admit,
                NextCommand
  <2>2. QED BY <1>2, <2>1
<1>5. CASE RecvDuplicate
  BY <1>2, <1>5 DEF RecvDuplicate, NextCommand
<1>6. ASSUME UNCHANGED inbox, job = "estop" => job' = "estop" PROVE EstopPending'
  BY <1>6 DEF EstopPending
<1>7. ASSUME NEW s \in Span,
             \/ Answers(s) \/ StopAnswers(s) \/ SayStarts(s) \/ StartFails(s)
             \/ SayStarted(s) \/ ReportRunning(s) \/ ReportBreaks(s) \/ SayDefers(s)
      PROVE  EstopPending'
  <2>1. job = s /\ UNCHANGED inbox
    BY <1>7 DEF Answers, StopAnswers, SayStarts, StartFails, SayStarted, ReportRunning,
                ReportBreaks, SayDefers
  <2>2. QED BY <1>6, <2>1, JobAssumption
<1>8. CASE CaptureStopped
  <2>1. UNCHANGED inbox /\ (job \in Span \/ job' = job)
    BY <1>8 DEF CaptureStopped, At
  <2>2. QED BY <1>6, <2>1, JobAssumption
<1>9. CASE EstopLatches
  BY <1>9 DEF EstopLatches, Announce, Estop, Move
<1>10. CASE RunFinishes
  BY <1>10 DEF RunFinishes
<1>11. CASE RunCloses
  BY <1>6, <1>11 DEF RunCloses
<1>12. CASE \/ CaptureTask \/ (\E s \in Span : SpeechTask(s) \/ VoiceEnds(s))
            \/ UNCHANGED vars
  BY <1>6, <1>12 DEF CaptureTask, CaptureReads, CaptureSent, CaptureCancelled, SpeechTask,
       SpeechWaited, SpeechEnds, VoiceEnds, vars
<1>13. ASSUME NEW f \in Frame, BrainSends(f) PROVE EstopPending'
  BY <1>13, FrameArrives DEF EstopPending, BrainSends
<1>14. CASE LinkDies
  BY <1>14 DEF LinkDies
<1>15. QED BY <1>1, <1>3, <1>4, <1>5, <1>7, <1>8, <1>9, <1>10, <1>11, <1>12, <1>13, <1>14
           DEF Next, ReceiveLoop

\* An estop that reached the socket is never dropped.
THEOREM EstopIsKept == Spec => EstopKept
<1>1. TypeOK /\ AtWork /\ [Next]_vars =>
        (EstopPending => EstopPending' \/ safety' = "estopped" \/ link' = "down")
  BY EstopStep
<1>2. QED BY <1>1, TypeCorrect, NoWaitIsInVain, PTL DEF Spec, EstopKept

\* A span that is open is the one the receive loop is at, or a sentence whose
\* task has still to end it: none is left open with nobody to answer it.
OpenSpansHeld ==
  \A s \in Span : ledger[s] = "open" =>
    job = s \/ speaking[s] \in {"waiting", "succeeded", "failed"}

\* Steps that end a span or nothing, and move no other.
LEMMA HeldKeeps ==
  ASSUME OpenSpansHeld,
         \A s \in Span : ledger'[s] = "open" =>
           /\ ledger[s] = "open"
           /\ job = s => job' = s
           /\ speaking'[s] = speaking[s]
  PROVE  OpenSpansHeld'
BY DEF OpenSpansHeld

\* A span that is being ended is open no longer, and the others are as before.
LEMMA EndedIsNotOpen ==
  ASSUME TypeOK, NEW s \in Span, NEW status \in Terminal, EmitTerminal(s, status)
  PROVE  \A t \in Span : ledger'[t] = "open" => t # s /\ ledger[t] = "open"
<1>1. "open" \notin Terminal
  BY DEF Terminal
<1>2. QED BY <1>1 DEF EmitTerminal, Ended, TypeOK, spans

\* A span a step leaves open has its handler or its task.
LEMMA HeldStep ==
  ASSUME TypeOK, AtWork, OpenSpansHeld, [Next]_vars
  PROVE  OpenSpansHeld'
<1> USE DEF devices, speech, spans, loop, net
<1>1. ASSUME UNCHANGED <<ledger, speaking>>, job' = job \/ job \notin Span
      PROVE  OpenSpansHeld'
  BY <1>1 DEF OpenSpansHeld
<1>2. CASE RecvEstop \/ RunFinishes
  <2>1. UNCHANGED <<ledger, speaking>> /\ pc = "rest"
    BY <1>2 DEF RecvEstop, RunFinishes, NextFrame
  <2>2. job = NoSpan
    BY <2>1 DEF AtWork
  <2>3. QED BY <1>1, <2>1, <2>2, NoSpanAssumption
<1>3. CASE EstopLatches \/ RunCloses
  <2>1. UNCHANGED <<ledger, speaking>> /\ job \in {"estop", "shutdown"}
    BY <1>3 DEF EstopLatches, RunCloses
  <2>2. QED BY <1>1, <2>1, JobAssumption
<1>4. CASE \/ RecvEstopClear \/ RecvDuplicate \/ CaptureTask
           \/ (\E s \in Span : VoiceEnds(s)) \/ (\E f \in Frame : BrainSends(f))
           \/ LinkDies \/ UNCHANGED vars
  BY <1>1, <1>4 DEF RecvEstopClear, RecvDuplicate, CaptureTask, CaptureReads,
       CaptureSent, CaptureCancelled, VoiceEnds, BrainSends, LinkDies, vars
<1>5. ASSUME NEW s \in Span, SayStarts(s) \/ SayStarted(s) \/ ReportRunning(s)
      PROVE  OpenSpansHeld'
  BY <1>1, <1>5 DEF SayStarts, SayStarted, ReportRunning, At
<1>6. ASSUME NEW s \in Span, NEW status \in Terminal, EmitTerminal(s, status),
             \A t \in Span : t # s => speaking'[t] = speaking[t],
             job' = job \/ job \notin Span \ {s}
      PROVE  OpenSpansHeld'
  BY <1>6, EndedIsNotOpen, HeldKeeps
<1>7. ASSUME NEW s \in Span,
             \/ RecvTooLate(s) \/ RecvAnswered(s) \/ SnapshotFails(s)
             \/ RecvStartCapture(s) \/ Answers(s) \/ StopAnswers(s) \/ StartFails(s)
             \/ ReportBreaks(s)
      PROVE  OpenSpansHeld'
  <2>1. \E status \in Terminal : EmitTerminal(s, status)
    BY <1>7 DEF RecvTooLate, RecvAnswered, SnapshotFails, RecvStartCapture, Answers,
                StopAnswers, StartFails, ReportBreaks, Terminal
  <2>2. UNCHANGED speaking /\ (job' = job \/ job = s)
    BY <1>7 DEF RecvTooLate, RecvAnswered, SnapshotFails, RecvStartCapture, Answers,
                StopAnswers, StartFails, ReportBreaks
  <2>3. QED BY <1>6, <2>1, <2>2
<1>8. ASSUME NEW s \in Span,
             \/ RecvClearSafeHold(s) \/ RecvSnapshot(s) \/ RecvStopCapture(s)
             \/ RecvSpeaker(s)
      PROVE  OpenSpansHeld'
  <2>1. /\ Admit(s) /\ job' = s /\ UNCHANGED speaking
    BY <1>8 DEF RecvClearSafeHold, RecvSnapshot, RecvStopCapture, RecvSpeaker,
                Interrupt, At
  <2>2. pc = "rest" /\ \A t \in Span : t # s => ledger'[t] = ledger[t]
    BY <2>1 DEF Admit, NextCommand, NextFrame, TypeOK
  <2>3. job = NoSpan
    BY <2>2 DEF AtWork
  <2>4. QED BY <2>1, <2>2, <2>3, NoSpanAssumption DEF OpenSpansHeld
<1>9. CASE CaptureStopped
  <2>1. CASE job \in Span /\ EmitTerminal(job, "succeeded") /\ UNCHANGED speech
    BY <1>6, <2>1 DEF Terminal
  <2>2. CASE job \in {"estop", "shutdown"} /\ Interrupt /\ UNCHANGED spans
    BY <1>1, <2>2, JobAssumption DEF Interrupt
  <2>3. QED BY <1>9, <2>1, <2>2 DEF CaptureStopped
<1>10. ASSUME NEW s \in Span, SayDefers(s) PROVE OpenSpansHeld'
  <2>1. /\ speaking' = [speaking EXCEPT ![s] = "waiting"]
        /\ job = s /\ UNCHANGED ledger
    BY <1>10 DEF SayDefers
  <2>2. speaking'[s] = "waiting" /\ \A t \in Span : t # s => speaking'[t] = speaking[t]
    BY <2>1 DEF TypeOK
  <2>3. QED BY <2>1, <2>2 DEF OpenSpansHeld
<1>11. ASSUME NEW s \in Span, SpeechWaited(s) PROVE OpenSpansHeld'
  <2>1. /\ \E how \in {"succeeded", "failed"} :
             speaking' = [speaking EXCEPT ![s] = how]
        /\ UNCHANGED <<ledger, job>>
    BY <1>11 DEF SpeechWaited, SentenceOver
  <2>2. /\ speaking'[s] \in {"succeeded", "failed"}
        /\ \A t \in Span : t # s => speaking'[t] = speaking[t]
    BY <2>1 DEF TypeOK
  <2>3. QED BY <2>1, <2>2 DEF OpenSpansHeld
<1>12. ASSUME NEW s \in Span, SpeechEnds(s) PROVE OpenSpansHeld'
  <2>1. /\ \A t \in Span : t # s => speaking'[t] = speaking[t]
        /\ speaking[s] \in Terminal /\ EmitTerminal(s, speaking[s])
        /\ UNCHANGED job
    BY <1>12 DEF SpeechEnds, TypeOK, Terminal
  <2>2. QED BY <1>6, <2>1
<1>13. QED BY <1>2, <1>3, <1>4, <1>5, <1>7, <1>8, <1>9, <1>10, <1>11, <1>12
           DEF Next, ReceiveLoop, SpeechTask

\* No span is left open with nobody to answer it.
THEOREM OpenSpansAreHeld == Spec => []OpenSpansHeld
<1>1. Init => OpenSpansHeld
  BY DEF Init, OpenSpansHeld
<1>2. TypeOK /\ AtWork /\ OpenSpansHeld /\ [Next]_vars => OpenSpansHeld'
  BY HeldStep
<1>3. QED BY <1>1, <1>2, TypeCorrect, NoWaitIsInVain, PTL DEF Spec

=============================================================================
