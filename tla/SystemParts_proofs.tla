------------------------- MODULE SystemParts_proofs -------------------------
(***************************************************************************)
(* What is proved of a body and of a brain alone holds of the two of them  *)
(* together, and what crosses between them.                                *)
(*                                                                         *)
(* Each step of System is a step of MockBody or leaves the body's          *)
(* variables alone, and the same of BrainSession: neither asks more of the *)
(* other than the other does.                                              *)
(***************************************************************************)
EXTENDS System_proofs

-----------------------------------------------------------------------------
(* The body.                                                               *)

\* The brain's frames are frames a body may receive.
LEMMA BodyHearsFrames ==
  /\ [type |-> "heartbeat"] \in Body!Frame
  /\ \A s \in Span : [type |-> "command", span |-> s] \in Body!Frame
BY DEF Body!Frame

\* A step of the system is a step of its body or none of its business.
LEMMA BodyMoves == [Next]_vars => [Body!Next]_(Body!vars)
<1> SUFFICES ASSUME [Next]_vars PROVE Body!Next \/ UNCHANGED bodyVars
  BY DEF bodyVars, Body!vars
<1>1. CASE BodyReceives \/ BodyWatches \/ BodyReturns \/ BodyBeats
  BY <1>1 DEF BodyReceives, BodyWatches, BodyReturns, BodyBeats, Body!Next
<1>2. ASSUME NEW f \in Body!Frame, BodyHears(f) PROVE Body!Next \/ UNCHANGED bodyVars
  BY <1>2 DEF BodyHears, Body!Next
<1>3. CASE BrainBeats
  BY <1>2, <1>3, BodyHearsFrames DEF BrainBeats
<1>4. CASE \E s \in Span : CallerAsks(s)
  BY <1>2, <1>4, BodyHearsFrames DEF CallerAsks
<1>5. CASE BodyLosesLink \/ BodyTicks
  BY <1>5 DEF BodyLosesLink, BodyTicks, Body!Next
<1>6. CASE \/ BrainWorks \/ BrainLosesLink \/ BrainTicks
           \/ \E s \in Span : CallerDone(s)
  BY <1>6 DEF BrainWorks, BrainLosesLink, BrainTicks, CallerDone
<1>7. CASE UNCHANGED vars
  BY <1>7 DEF vars
<1>8. QED
  BY <1>1, <1>3, <1>4, <1>5, <1>6, <1>7 DEF Next

\* A body with a brain on its line behaves as a body by itself may.
THEOREM BodyIsItself == Spec => Body!Spec
<1>1. Init => Body!Init
  BY DEF Init
<1>2. QED
  BY <1>1, BodyMoves, PTL DEF Spec, Body!Spec

\* What MockBody_proofs establishes of a body, of this one.
BodyFacts == INSTANCE MockBody_proofs
               WITH link <- bodyLink, silence <- brainSilence, inbox <- down,
                    Harness <- "run"

\* The body of the facts is the body of the system: the two instances say
\* the same, definition by definition.
LEMMA SameBody ==
  /\ Body!Spec => BodyFacts!Spec
  /\ BodyFacts!MotionPermissioned <=> Body!MotionPermissioned
  /\ BodyFacts!OneTerminalResult <=> Body!OneTerminalResult
  /\ BodyFacts!EndedSpansAnswered <=> Body!EndedSpansAnswered
  /\ BodyFacts!LatchOwnsInFlight <=> Body!LatchOwnsInFlight
  /\ BodyFacts!ReportsOwed <=> Body!ReportsOwed
BY DEF
     Body!State, Body!Transition, Body!MayActuate, Body!Move, Body!Refuse,
     Body!EnterSafeHold, Body!Estop, Body!ClearSafeHold, Body!ClearEstop,
     Body!Command, Body!vars, Body!Proc, Body!Terminal, Body!Frame,
     Body!NoTransition, Body!Init, Body!Handlers, Body!Target, Body!Actuating,
     Body!Ended, Body!Outstanding, Body!IsNew, Body!EmitTerminal, Body!PoseStop,
     Body!Announce, Body!FailThenAnnounce, Body!Resume, Body!InFlightActuation,
     Body!NextFrame, Body!RecvHeartbeat, Body!RecvEstop, Body!RecvEstopClear,
     Body!RecvDuplicate, Body!RecvTooLate, Body!Permitted, Body!OutcomeOf,
     Body!VelocityAfter, Body!RecvCommand, Body!RecvClearSafeHold,
     Body!ClearFinishes, Body!RecvEnds, Body!ReceiveLoop, Body!LeaseExpired,
     Body!WatchLatches, Body!WatchRearms, Body!Watchdog, Body!HeartbeatBeats,
     Body!HeartbeatEnds, Body!BrainSends, Body!LinkDies, Body!Tick, Body!AllOver,
     Body!RunReturns, Body!DrillHoldsSpan, Body!DrillCloses, Body!DrillReconnects,
     Body!Next, Body!Spec, Body!MotionPermissioned,
     Body!OneTerminalResult, Body!EndedSpansAnswered, Body!LatchOwnsInFlight,
     Body!ReportsOwed, Body!FirstSession,
     BodyFacts!State, BodyFacts!Transition, BodyFacts!MayActuate, BodyFacts!Move,
     BodyFacts!Refuse, BodyFacts!EnterSafeHold, BodyFacts!Estop,
     BodyFacts!ClearSafeHold, BodyFacts!ClearEstop, BodyFacts!Command,
     BodyFacts!vars, BodyFacts!Proc, BodyFacts!Terminal, BodyFacts!Frame,
     BodyFacts!NoTransition, BodyFacts!Init, BodyFacts!Handlers, BodyFacts!Target,
     BodyFacts!Actuating, BodyFacts!Ended, BodyFacts!Outstanding, BodyFacts!IsNew,
     BodyFacts!EmitTerminal, BodyFacts!PoseStop, BodyFacts!Announce,
     BodyFacts!FailThenAnnounce, BodyFacts!Resume, BodyFacts!InFlightActuation,
     BodyFacts!NextFrame, BodyFacts!RecvHeartbeat, BodyFacts!RecvEstop,
     BodyFacts!RecvEstopClear, BodyFacts!RecvDuplicate, BodyFacts!RecvTooLate,
     BodyFacts!Permitted, BodyFacts!OutcomeOf, BodyFacts!VelocityAfter,
     BodyFacts!RecvCommand, BodyFacts!RecvClearSafeHold, BodyFacts!ClearFinishes,
     BodyFacts!RecvEnds, BodyFacts!ReceiveLoop, BodyFacts!LeaseExpired,
     BodyFacts!WatchLatches, BodyFacts!WatchRearms, BodyFacts!Watchdog,
     BodyFacts!HeartbeatBeats, BodyFacts!HeartbeatEnds, BodyFacts!BrainSends,
     BodyFacts!LinkDies, BodyFacts!Tick, BodyFacts!AllOver, BodyFacts!RunReturns,
     BodyFacts!DrillHoldsSpan, BodyFacts!DrillCloses, BodyFacts!DrillReconnects,
     BodyFacts!Next, BodyFacts!Spec, BodyFacts!MotionPermissioned,
     BodyFacts!OneTerminalResult, BodyFacts!EndedSpansAnswered,
     BodyFacts!LatchOwnsInFlight, BodyFacts!ReportsOwed, BodyFacts!FirstSession

\* What the facts assume of the constants, the system assumes of its own.
LEMMA BodyConstants ==
  /\ Lease \in Nat \ {0} /\ MaxVelocity \in Nat /\ MaxInbox \in Nat
  /\ "run" \in {"run", "drill"}
  /\ CommandOf \in [Span -> BodyFacts!Command]
BY LeaseAssumption, VelocityAssumption, InboxAssumption, CommandAssumption
   DEF BodyFacts!Command, Body!Command

\* With a brain on its line that sends, beats, falls silent or is cut off as
\* the server makes it, the body keeps what it promises alone: nothing moves
\* from a latched state, no span is answered twice, on a living socket none
\* that ended goes unanswered, no latch forgets a span in flight, and what
\* it reports is its state or about to be.
THEOREM BodyKeepsItsPromises ==
  Spec => [](/\ Body!MotionPermissioned
             /\ Body!OneTerminalResult
             /\ Body!EndedSpansAnswered
             /\ Body!LatchOwnsInFlight
             /\ Body!ReportsOwed)
<1>1. Spec => BodyFacts!Spec
  BY BodyIsItself, SameBody
<1>2. BodyFacts!Spec => []BodyFacts!MotionPermissioned
  BY BodyConstants, BodyFacts!MotionIsPermissioned
<1>3. BodyFacts!Spec => []BodyFacts!OneTerminalResult
  BY BodyConstants, BodyFacts!OneTerminalResultPerSpan
<1>4. BodyFacts!Spec => []BodyFacts!EndedSpansAnswered
  BY BodyConstants, BodyFacts!EndedSpansAreAnswered
<1>5. BodyFacts!Spec => []BodyFacts!LatchOwnsInFlight
  BY BodyConstants, BodyFacts!LatchOwnsEverySpan
<1>6. BodyFacts!Spec => []BodyFacts!ReportsOwed
  BY BodyConstants, BodyFacts!ReportsAreOwed
<1>7. QED
  BY <1>1, <1>2, <1>3, <1>4, <1>5, <1>6, SameBody, PTL

-----------------------------------------------------------------------------
(* The brain.                                                              *)

\* The body's frames are frames a brain may receive.
LEMMA BrainHearsFrames ==
  /\ [type |-> "heartbeat"] \in Brain!Frame
  /\ \A s \in Span : [type |-> "result", span |-> s] \in Brain!Frame
BY DEF Brain!Frame

\* A step of the system is a step of its brain or none of its business.
LEMMA BrainMoves == [Next]_vars => [Brain!Next]_(Brain!vars)
<1> SUFFICES ASSUME [Next]_vars PROVE Brain!Next \/ UNCHANGED brainVars
  BY DEF brainVars, Brain!vars
<1>1. ASSUME NEW f \in Brain!Frame, BrainHears(f) PROVE Brain!Next \/ UNCHANGED brainVars
  BY <1>1 DEF BrainHears, Brain!Next
<1>2. CASE BodyReceives \/ BodyWatches
  <2>1. Answers
    BY <1>2 DEF BodyReceives, BodyWatches
  <2>2. QED
    BY <1>1, <2>1, BrainHearsFrames DEF Answers
<1>3. CASE BodyBeats
  BY <1>1, <1>3, BrainHearsFrames DEF BodyBeats
<1>4. CASE BrainWorks \/ BrainBeats
  BY <1>4 DEF BrainWorks, BrainBeats, Brain!Next, Brain!Beat
<1>5. CASE \E s \in Span : CallerAsks(s) \/ CallerDone(s)
  BY <1>5 DEF CallerAsks, CallerDone, Brain!Next
<1>6. CASE BrainLosesLink \/ BrainTicks
  BY <1>6 DEF BrainLosesLink, BrainTicks, Brain!Next
<1>7. CASE BodyReturns \/ BodyLosesLink \/ BodyTicks
  BY <1>7 DEF BodyReturns, BodyLosesLink, BodyTicks
<1>8. CASE UNCHANGED vars
  BY <1>8 DEF vars
<1>9. QED
  BY <1>2, <1>3, <1>4, <1>5, <1>6, <1>7, <1>8 DEF Next

\* What BrainSession_proofs establishes of a brain, of this one.
BrainFacts == INSTANCE BrainSession_proofs
                WITH link <- brainLink, silence <- bodySilence, inbox <- up

\* The brain of the facts is the brain of the system.
LEMMA SameBrain ==
  /\ [Brain!Next]_(Brain!vars) => [BrainFacts!Next]_(BrainFacts!vars)
  /\ BrainFacts!TypeOK <=> Brain!TypeOK
  /\ BrainFacts!OneOutcomePerSpan <=> Brain!OneOutcomePerSpan
  /\ BrainFacts!LossesAlternate <=> Brain!LossesAlternate
  /\ BrainFacts!OpenSessionsWatched <=> Brain!OpenSessionsWatched
  /\ BrainFacts!SendsAreLogged <=> Brain!SendsAreLogged
BY DEF
     Brain!vars, Brain!Frame, Brain!EndSpans, Brain!ResolveSpan, Brain!MarkLost,
     Brain!HelloRefused, Brain!HelloAccepted, Brain!SessionOpens,
     Brain!WelcomeFails, Brain!NextFrame, Brain!Dispatch, Brain!Renews,
     Brain!RecvHeartbeat, Brain!RecvOther, Brain!RecvResult,
     Brain!DispatchReturns, Brain!Leaving, Brain!CancelBeat, Brain!HandlerLeaves,
     Brain!HandlerBreaks, Brain!HandlerCloses, Brain!Handler, Brain!LeaseExpired,
     Brain!BeatSends, Brain!BeatSent, Brain!BeatMisses, Brain!Recover,
     Brain!BeatLooks, Brain!TellReturns, Brain!Beat, Brain!CallerSends,
     Brain!CallerSent, Brain!BodySends, Brain!LinkDies, Brain!Tick, Brain!Next,
     Brain!TypeOK, Brain!OneOutcomePerSpan, Brain!LossesAlternate,
     Brain!OpenSessionsWatched, Brain!SendsAreLogged,
     BrainFacts!vars, BrainFacts!Frame, BrainFacts!EndSpans,
     BrainFacts!ResolveSpan, BrainFacts!MarkLost, BrainFacts!HelloRefused,
     BrainFacts!HelloAccepted, BrainFacts!SessionOpens, BrainFacts!WelcomeFails,
     BrainFacts!NextFrame, BrainFacts!Dispatch, BrainFacts!Renews,
     BrainFacts!RecvHeartbeat, BrainFacts!RecvOther, BrainFacts!RecvResult,
     BrainFacts!DispatchReturns, BrainFacts!Leaving, BrainFacts!CancelBeat,
     BrainFacts!HandlerLeaves, BrainFacts!HandlerBreaks, BrainFacts!HandlerCloses,
     BrainFacts!Handler, BrainFacts!LeaseExpired, BrainFacts!BeatSends,
     BrainFacts!BeatSent, BrainFacts!BeatMisses, BrainFacts!Recover,
     BrainFacts!BeatLooks, BrainFacts!TellReturns, BrainFacts!Beat,
     BrainFacts!CallerSends, BrainFacts!CallerSent, BrainFacts!BodySends,
     BrainFacts!LinkDies, BrainFacts!Tick, BrainFacts!Next, BrainFacts!TypeOK,
     BrainFacts!OneOutcomePerSpan, BrainFacts!LossesAlternate,
     BrainFacts!OpenSessionsWatched, BrainFacts!SendsAreLogged

\* Between the hello and the welcome's return the brain has promised nothing
\* that does not hold.
LEMMA BrainBegins == Init => BrainFacts!Kept
<1> SUFFICES ASSUME Init PROVE BrainFacts!Kept
  OBVIOUS
<1>1. BrainFacts!TypeOK
  <2>1. up \in Seq(BrainFacts!Frame)
    BY DEF Init
  <2>2. 0 \in 0 .. Lease
    BY LeaseAssumption
  <2>3. ended \in [Span -> Nat]
    BY DEF Init
  <2>4. QED
    BY <2>1, <2>2, <2>3 DEF Init, BrainFacts!TypeOK
<1>2. QED
  BY <1>1 DEF Init, BrainFacts!Kept, BrainFacts!Quiet, BrainFacts!Accounts,
              BrainFacts!OneOutcomePerSpan, BrainFacts!LossesAlternate,
              BrainFacts!OpenSessionsWatched, BrainFacts!SendsAreLogged

\* With a body on its line that answers, beats, latches or dies as the mock
\* body makes it, the brain keeps what it promises alone: every span ends at
\* most once and none goes missing from an open session, losses and
\* recoveries alternate, an open session is watched, and what was sent is
\* in the log or about to be.
THEOREM BrainKeepsItsPromises ==
  Spec => [](/\ Brain!OneOutcomePerSpan
             /\ Brain!LossesAlternate
             /\ Brain!OpenSessionsWatched
             /\ Brain!SendsAreLogged)
<1>1. BrainFacts!Kept /\ [Next]_vars => BrainFacts!Kept'
  BY BrainMoves, SameBrain, SpanAssumption, LeaseAssumption, InboxAssumption,
     BrainFacts!KeptStep
<1>2. BrainFacts!Kept => /\ Brain!OneOutcomePerSpan
                        /\ Brain!LossesAlternate
                        /\ Brain!OpenSessionsWatched
                        /\ Brain!SendsAreLogged
  BY SameBrain DEF BrainFacts!Kept, BrainFacts!Accounts
<1>3. QED
  BY BrainBegins, <1>1, <1>2, PTL DEF Spec

-----------------------------------------------------------------------------
(* What crosses between them.                                              *)

\* No two results of one span are on their way together.
OneAnswer(queue) ==
  \A i, j \in DOMAIN queue :
    /\ queue[i].type = "result" /\ queue[j].type = "result"
    /\ queue[i].span = queue[j].span
    => i = j

\* A span's answer is sent once and learnt once: it is on its way only if
\* the body has sent it, exactly once, and the brain has not learnt it; and
\* the brain believes a span answered only if the body did answer it.  Kept
\* across retransmissions, latches that race to end a span, a brain that has
\* given the span up meanwhile, and the death of either end.
AnswersCrossOnce ==
  /\ OneAnswer(up)
  /\ \A s \in Span : Arriving(up, "result", s) => results[s] = 1 /\ believed[s] # "answered"
  /\ \A s \in Span : believed[s] = "answered" => results[s] = 1

\* Taking the oldest frame leaves none of its span behind it.
LEMMA OneAnswerTaken ==
  ASSUME NEW F, NEW queue \in Seq(F), queue # <<>>, OneAnswer(queue)
  PROVE  /\ OneAnswer(Tail(queue))
         /\ Head(queue).type = "result" => ~Arriving(Tail(queue), "result", Head(queue).span)
<1> DEFINE rest == Tail(queue)
<1>1. /\ Head(queue) = queue[1]
      /\ DOMAIN rest = 1 .. Len(queue) - 1 /\ Len(queue) \in Nat \ {0}
      /\ \A i \in DOMAIN rest : rest[i] = queue[i + 1] /\ i + 1 \in DOMAIN queue /\ i \in Nat
      /\ 1 \in DOMAIN queue
  OBVIOUS
<1> HIDE DEF rest
<1>2. OneAnswer(rest)
  <2> SUFFICES ASSUME NEW i \in DOMAIN rest, NEW j \in DOMAIN rest,
                      rest[i].type = "result", rest[j].type = "result",
                      rest[i].span = rest[j].span
               PROVE  i = j
    BY DEF OneAnswer
  <2>1. i + 1 = j + 1
    BY <1>1 DEF OneAnswer
  <2>2. QED BY <1>1, <2>1
<1>3. ASSUME Head(queue).type = "result", NEW i \in DOMAIN rest,
             rest[i].type = "result", rest[i].span = Head(queue).span
      PROVE  FALSE
  <2>1. i + 1 = 1
    BY <1>1, <1>3 DEF OneAnswer
  <2>2. QED BY <1>1, <2>1
<1>4. QED BY <1>2, <1>3 DEF Arriving, rest

\* One more frame is no second answer unless its span's is already there.
LEMMA OneAnswerAppended ==
  ASSUME NEW F, NEW queue \in Seq(F), NEW f \in F, OneAnswer(queue),
         f.type = "result" => ~Arriving(queue, "result", f.span)
  PROVE  OneAnswer(Append(queue, f))
<1> DEFINE new == Append(queue, f)
<1>1. /\ DOMAIN new = DOMAIN queue \cup {Len(queue) + 1}
      /\ \A i \in DOMAIN queue : new[i] = queue[i]
      /\ new[Len(queue) + 1] = f
  OBVIOUS
<1> HIDE DEF new
<1> SUFFICES ASSUME NEW i \in DOMAIN new, NEW j \in DOMAIN new,
                    new[i].type = "result", new[j].type = "result",
                    new[i].span = new[j].span
             PROVE  i = j
  BY DEF OneAnswer, new
<1>2. CASE i \in DOMAIN queue /\ j \in DOMAIN queue
  BY <1>1, <1>2 DEF OneAnswer
<1>3. CASE i \in DOMAIN queue /\ j = Len(queue) + 1
  BY <1>1, <1>3 DEF Arriving
<1>4. CASE j \in DOMAIN queue /\ i = Len(queue) + 1
  BY <1>1, <1>4 DEF Arriving
<1>5. QED BY <1>1, <1>2, <1>3, <1>4

\* Losing the latest frames adds no answer.
LEMMA OneAnswerCut ==
  ASSUME NEW F, NEW queue \in Seq(F), NEW n \in 0 .. Len(queue), OneAnswer(queue)
  PROVE  OneAnswer(SubSeq(queue, 1, n))
<1> DEFINE cut == SubSeq(queue, 1, n)
<1>1. DOMAIN cut \subseteq DOMAIN queue /\ \A i \in DOMAIN cut : cut[i] = queue[i]
  OBVIOUS
<1> HIDE DEF cut
<1>2. QED BY <1>1 DEF OneAnswer, cut

\* Steps that send no result and teach the brain of none.
LEMMA NothingCrosses ==
  ASSUME AnswersCrossOnce, UNCHANGED results, OneAnswer(up'),
         \A s \in Span : Arriving(up', "result", s) => Arriving(up, "result", s),
         \A s \in Span : believed'[s] = "answered" => believed[s] = "answered"
  PROVE  AnswersCrossOnce'
<1>1. /\ \A s \in Span : Arriving(up, "result", s)' <=> Arriving(up', "result", s)
      /\ OneAnswer(up)' <=> OneAnswer(up')
  BY DEF Arriving, OneAnswer
<1>2. QED BY <1>1 DEF AnswersCrossOnce

\* A turn of the body's sends the answer of a span that had none.
LEMMA AnswerSent ==
  ASSUME Inv, Body!OneTerminalResult, AnswersCrossOnce,
         BodyReceives \/ BodyWatches \/ BodyReturns
  PROVE  AnswersCrossOnce'
<1>1. CASE BodyReturns
  BY <1>1, NothingCrosses
     DEF BodyReturns, Body!RunReturns, brainVars, AnswersCrossOnce
<1>2. CASE BodyReceives \/ BodyWatches
  <2>1. Turn
    BY <1>2, BodyTurns DEF Inv, BodyReceives, BodyWatches
  <2>2. /\ UNCHANGED believed
        /\ UNCHANGED results => UNCHANGED up
        /\ \A s \in Span : Ends(s) => Hears(s)
    BY <1>2, AnswersSend DEF Inv, BodyReceives, BodyWatches, BrainStill
  <2>3. CASE UNCHANGED results
    BY <2>2, <2>3, NothingCrosses DEF AnswersCrossOnce
  <2>4. ASSUME NEW s \in Span, Ends(s) PROVE AnswersCrossOnce'
    <3>1. results[s] = 0
      BY <2>4 DEF Ends, Body!OneTerminalResult, Inv, Typed
    <3>2. ~Arriving(up, "result", s) /\ believed[s] # "answered"
      BY <3>1 DEF AnswersCrossOnce
    <3>3. /\ \A x \in Span \ {s} : results'[x] = results[x]
          /\ bodyLink = "up" => results'[s] = 1
      BY <2>4, <3>1 DEF Ends, Inv, Typed
    <3>4. \A x \in Span : Arriving(up', "result", x)
            <=> Arriving(up, "result", x) \/ (x = s /\ bodyLink = "up" /\ brainLink = "up")
      BY <2>2, <2>4, HeardResult DEF Inv
    <3>5. OneAnswer(up')
      <4>1. [type |-> "result", span |-> s] \in Brain!Frame /\ up \in Seq(Brain!Frame)
        BY DEF Brain!Frame, Inv, Typed
      <4>2. OneAnswer(Append(up, [type |-> "result", span |-> s]))
        BY <3>2, <4>1, OneAnswerAppended DEF AnswersCrossOnce
      <4>3. QED BY <2>2, <2>4, <4>2 DEF Hears, AnswersCrossOnce
    <3>6. /\ \A x \in Span : Arriving(up, "result", x)' <=> Arriving(up', "result", x)
          /\ OneAnswer(up)' <=> OneAnswer(up')
      BY DEF Arriving, OneAnswer
    <3>7. QED BY <2>2, <3>2, <3>3, <3>4, <3>5, <3>6 DEF AnswersCrossOnce
  <2>5. QED BY <2>1, <2>3, <2>4 DEF Turn, Begins
<1>3. QED BY <1>1, <1>2

\* The handler learns an answer by taking the only one there is.
LEMMA AnswerLearnt ==
  ASSUME Inv, AnswersCrossOnce, BrainWorks
  PROVE  AnswersCrossOnce'
<1>1. Brain!Handler /\ Learns("answered") /\ UNCHANGED results
  BY DEF BrainWorks, Learns, bodyVars
<1>2. up \in Seq(Brain!Frame)
  BY DEF Inv, Typed
<1>3. CASE UNCHANGED <<ended, up>>
  <2>1. UNCHANGED believed
    BY <1>1, <1>3, NothingLearnt DEF Inv
  <2>2. QED BY <1>1, <1>3, <2>1, NothingCrosses DEF AnswersCrossOnce
<1>4. CASE Brain!RecvHeartbeat \/ Brain!RecvOther
  <2>1. UNCHANGED ended /\ up # <<>> /\ up' = Tail(up)
    BY <1>4 DEF Brain!RecvHeartbeat, Brain!RecvOther, Brain!NextFrame
  <2>2. UNCHANGED believed
    BY <1>1, <2>1, NothingLearnt DEF Inv
  <2>3. \A s \in Span : Arriving(up', "result", s) => Arriving(up, "result", s)
    BY <1>2, <2>1, ArrivingTaken
  <2>4. OneAnswer(up')
    BY <1>2, <2>1, OneAnswerTaken DEF AnswersCrossOnce
  <2>5. QED BY <1>1, <2>2, <2>3, <2>4, NothingCrosses
<1>5. ASSUME NEW s \in Span, Brain!RecvResult(s) PROVE AnswersCrossOnce'
  <2>1. /\ up # <<>> /\ up' = Tail(up) /\ Head(up).type = "result" /\ Head(up).span = s
        /\ ended' = [x \in Span |-> ended[x] + (IF x \in spans \cap {s} THEN 1 ELSE 0)]
    BY <1>5 DEF Brain!RecvResult, Brain!NextFrame, Brain!ResolveSpan, Brain!EndSpans
  <2>2. OneAnswer(up') /\ ~Arriving(up', "result", s)
    BY <1>2, <2>1, OneAnswerTaken DEF AnswersCrossOnce
  <2>3. /\ Arriving(up, "result", s)
        /\ \A x \in Span : Arriving(up', "result", x) => Arriving(up, "result", x)
    BY <1>2, <2>1, ArrivingTaken
  <2>4. \A x \in Span \ {s} : believed'[x] = believed[x]
    <3>1. \A x \in Span : ended[x] \in Nat
      BY DEF Inv, Typed
    <3>2. \A x \in Span \ {s} : ~(ended'[x] > ended[x])
      BY <2>1, <3>1
    <3>3. QED BY <1>1, <3>2 DEF Learns
  <2>5. /\ \A x \in Span : Arriving(up, "result", x)' <=> Arriving(up', "result", x)
        /\ OneAnswer(up)' <=> OneAnswer(up')
    BY DEF Arriving, OneAnswer
  <2>6. QED BY <1>1, <2>2, <2>3, <2>4, <2>5 DEF AnswersCrossOnce
<1>6. CASE \/ Brain!HelloRefused \/ Brain!HelloAccepted \/ Brain!SessionOpens
           \/ Brain!WelcomeFails \/ Brain!DispatchReturns \/ Brain!HandlerLeaves
           \/ Brain!HandlerBreaks \/ Brain!HandlerCloses
  BY <1>3, <1>6 DEF Brain!HelloRefused, Brain!HelloAccepted, Brain!SessionOpens,
       Brain!WelcomeFails, Brain!DispatchReturns, Brain!HandlerLeaves,
       Brain!HandlerBreaks, Brain!HandlerCloses
<1>7. QED BY <1>1, <1>4, <1>5, <1>6 DEF Brain!Handler

\* Every step keeps the answers apart.
LEMMA CrossStep ==
  ASSUME Inv, Body!OneTerminalResult, AnswersCrossOnce, [Next]_vars
  PROVE  AnswersCrossOnce'
<1>1. up \in Seq(Brain!Frame) /\ OneAnswer(up)
  BY DEF Inv, Typed, AnswersCrossOnce
<1>2. CASE UNCHANGED <<results, up, believed>>
  BY <1>1, <1>2, NothingCrosses
<1>3. CASE BodyBeats
  <2>1. UNCHANGED <<results, believed>> /\ up' \in {up, Append(up, [type |-> "heartbeat"])}
    BY <1>3 DEF BodyBeats, Body!HeartbeatBeats, Body!HeartbeatEnds, BrainHears,
                Brain!BodySends, brainVars
  <2>2. OneAnswer(Append(up, [type |-> "heartbeat"]))
    <3>1. [type |-> "heartbeat"] \in Brain!Frame /\ [type |-> "heartbeat"].type # "result"
      BY DEF Brain!Frame
    <3>2. QED BY <1>1, <3>1, OneAnswerAppended
  <2>3. \A s \in Span : Arriving(up', "result", s) => Arriving(up, "result", s)
    BY <2>1, HeartbeatSent
  <2>4. QED BY <1>1, <2>1, <2>2, <2>3, NothingCrosses
<1>4. CASE BrainBeats
  <2>1. UNCHANGED <<results, up>>
    BY <1>4 DEF BrainBeats, BodyHears, Body!BrainSends, bodyVars, Brain!BeatSends,
                Brain!BeatMisses, Brain!BeatLooks, Brain!TellReturns
  <2>2. \A s \in Span : believed'[s] = "answered" => believed[s] = "answered"
    BY <1>4 DEF BrainBeats
  <2>3. QED BY <1>1, <2>1, <2>2, NothingCrosses
<1>5. CASE BrainLosesLink
  <2>1. PICK n \in 0 .. Len(up) : up' = SubSeq(up, 1, n)
    BY <1>5 DEF BrainLosesLink, Brain!LinkDies
  <2>2. UNCHANGED <<results, believed>>
    BY <1>5 DEF BrainLosesLink, bodyVars
  <2>3. OneAnswer(up')
    BY <1>1, <2>1, OneAnswerCut
  <2>4. \A s \in Span : Arriving(up', "result", s) => Arriving(up, "result", s)
    BY <1>1, <2>1, ArrivingCut
  <2>5. QED BY <2>2, <2>3, <2>4, NothingCrosses
<1>6. CASE \E s \in Span : CallerAsks(s)
  BY <1>2, <1>6 DEF CallerAsks, Brain!CallerSends, BodyHears, Body!BrainSends, bodyVars
<1>7. CASE (\E s \in Span : CallerDone(s)) \/ BodyTicks \/ BrainTicks \/ BodyLosesLink
           \/ UNCHANGED vars
  BY <1>2, <1>7 DEF CallerDone, Brain!CallerSent, BodyTicks, Body!Tick, BrainTicks,
       Brain!Tick, BodyLosesLink, Body!LinkDies, vars, bodyVars, brainVars
<1>8. QED
  BY <1>3, <1>4, <1>5, <1>6, <1>7, AnswerSent, AnswerLearnt DEF Next

\* An answer crosses at most once, and what the brain has been answered the
\* body did answer: BrainSession need not be told that a body answers once,
\* for a mock body does.
THEOREM AnswersAreCrossedOnce == Spec => []AnswersCrossOnce
<1>1. Init => AnswersCrossOnce
  BY DEF Init, AnswersCrossOnce, OneAnswer, Arriving
<1>2. Inv /\ Body!OneTerminalResult /\ AnswersCrossOnce /\ [Next]_vars => AnswersCrossOnce'
  BY CrossStep
<1>3. Spec => []Body!OneTerminalResult
  BY BodyKeepsItsPromises, PTL
<1>4. QED
  BY <1>1, <1>2, <1>3, InvHolds, PTL DEF Spec

=============================================================================
