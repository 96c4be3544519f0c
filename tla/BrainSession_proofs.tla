------------------------ MODULE BrainSession_proofs ------------------------
(* Proofs about BrainSession, for every set of spans, lease and bound.     *)
EXTENDS BrainSession, TLAPS

\* Taking the head off a sequence of frames leaves a sequence of frames.
LEMMA NextFrameType ==
  ASSUME TypeOK, NEW type, NextFrame(type)
  PROVE  /\ inbox' \in Seq(Frame)
         /\ Head(inbox) \in Frame
         /\ handler = "serving"
  BY DEF NextFrame, TypeOK

\* Ending spans keeps the counts natural numbers.
LEMMA EndSpansType ==
  ASSUME TypeOK, NEW some, EndSpans(some)
  PROVE  ended' \in [Span -> Nat]
<1>1. ended' = [s \in Span |-> ended[s] + (IF s \in some THEN 1 ELSE 0)]
  BY DEF EndSpans
<1>2. \A s \in Span : ended[s] + (IF s \in some THEN 1 ELSE 0) \in Nat
  BY DEF TypeOK
<1>3. QED BY <1>1, <1>2

\* Each step keeps the types.
LEMMA TypeStep == TypeOK /\ [Next]_vars => TypeOK'
<1> SUFFICES ASSUME TypeOK, [Next]_vars PROVE TypeOK'
  OBVIOUS
<1> USE LeaseAssumption
<1>1. CASE HelloRefused \/ HelloAccepted \/ SessionOpens \/ WelcomeFails
  <2>1. unlogged' \in SUBSET (Span \cup {"welcome", "beat"}) /\ silence' \in 0 .. Lease
    BY <1>1 DEF HelloRefused, HelloAccepted, SessionOpens, WelcomeFails, TypeOK
  <2>2. CASE HelloRefused \/ WelcomeFails
    BY <2>2 DEF HelloRefused, WelcomeFails, TypeOK
  <2>3. CASE HelloAccepted
    BY <2>1, <2>3 DEF HelloAccepted, TypeOK
  <2>4. CASE SessionOpens
    BY <2>1, <2>4 DEF SessionOpens, TypeOK
  <2>5. QED BY <1>1, <2>2, <2>3, <2>4
<1>2. CASE RecvHeartbeat \/ RecvOther
  <2>1. PICK type \in {"heartbeat", "other"} : NextFrame(type) /\ Renews(type)
    BY <1>2 DEF RecvHeartbeat, RecvOther
  <2>2. inbox' \in Seq(Frame) /\ silence' \in 0 .. Lease
    BY <2>1, NextFrameType DEF Renews, TypeOK
  <2>3. QED
    BY <1>2, <2>2 DEF RecvHeartbeat, RecvOther, Dispatch, TypeOK
<1>3. CASE \E s \in Span : RecvResult(s)
  <2>1. PICK s \in Span : RecvResult(s)
    BY <1>3
  <2>2. inbox' \in Seq(Frame)
    BY <2>1, NextFrameType DEF RecvResult
  <2>3. ended' \in [Span -> Nat] /\ spans' \in SUBSET Span
    BY <2>1, EndSpansType DEF RecvResult, ResolveSpan, TypeOK
  <2>4. QED
    BY <2>1, <2>2, <2>3 DEF RecvResult, Dispatch, Renews, TypeOK
<1>4. CASE DispatchReturns \/ HandlerLeaves \/ HandlerBreaks \/ HandlerCloses
  BY <1>4 DEF DispatchReturns, HandlerLeaves, HandlerBreaks, HandlerCloses,
              CancelBeat, TypeOK
<1>5. CASE BeatSends \/ TellReturns
  BY <1>5 DEF BeatSends, TellReturns, TypeOK
<1>6. CASE BeatMisses
  <2>1. ended' \in [Span -> Nat]
    BY <1>6, EndSpansType DEF BeatMisses, MarkLost
  <2>2. unlogged' \in SUBSET (Span \cup {"welcome", "beat"})
    BY <1>6 DEF BeatMisses, BeatSent, TypeOK
  <2>3. QED
    BY <1>6, <2>1, <2>2 DEF BeatMisses, MarkLost, TypeOK
<1>7. CASE BeatLooks
  <2>1. unlogged' \in SUBSET (Span \cup {"welcome", "beat"})
    BY <1>7 DEF BeatLooks, BeatSent, TypeOK
  <2>2. reported' \in BOOLEAN /\ lost' \in BOOLEAN
    BY <1>7 DEF BeatLooks, Recover, TypeOK
  <2>3. QED
    BY <1>7, <2>1, <2>2 DEF BeatLooks, TypeOK
<1>8. CASE \E s \in Span : CallerSends(s) \/ CallerSent(s)
  <2>1. PICK s \in Span : CallerSends(s) \/ CallerSent(s)
    BY <1>8
  <2>2. /\ draining' \in SUBSET Span
        /\ unlogged' \in SUBSET (Span \cup {"welcome", "beat"})
    BY <2>1 DEF CallerSends, CallerSent, TypeOK
  <2>3. QED
    BY <2>1, <2>2 DEF CallerSends, CallerSent, TypeOK
<1>9. CASE \E f \in Frame : BodySends(f)
  BY <1>9 DEF BodySends, TypeOK
<1>10. CASE LinkDies
  <2>1. PICK n \in 0 .. Len(inbox) : inbox' = SubSeq(inbox, 1, n)
    BY <1>10 DEF LinkDies
  <2>2. inbox' \in Seq(Frame)
    BY <2>1 DEF TypeOK
  <2>3. QED
    BY <1>10, <2>2 DEF LinkDies, TypeOK
<1>11. CASE Tick
  BY <1>11 DEF Tick, TypeOK
<1>12. CASE UNCHANGED vars
  BY <1>12 DEF vars, TypeOK
<1>13. QED
  BY <1>1, <1>2, <1>3, <1>4, <1>5, <1>6, <1>7, <1>8, <1>9, <1>10, <1>11, <1>12
     DEF Next, Handler, Beat

\* Every variable of the brain's session holds a value of its kind.
THEOREM TypeCorrect == Spec => []TypeOK
<1>1. Init => TypeOK
  <2> SUFFICES ASSUME Init PROVE TypeOK
    OBVIOUS
  <2>1. silence \in 0 .. Lease /\ ended \in [Span -> Nat] /\ inbox \in Seq(Frame)
    BY LeaseAssumption DEF Init
  <2>2. QED
    BY <2>1 DEF Init, TypeOK
<1>2. TypeOK /\ [Next]_vars => TypeOK'
  BY TypeStep
<1>3. QED BY <1>1, <1>2, PTL DEF Spec

-----------------------------------------------------------------------------
\* Until the session opens there is no beat task, no loss and no span.
Quiet ==
  handler \in {"accepting", "welcoming"} =>
    /\ beat = "none"
    /\ ~open /\ ~lost /\ ~reported
    /\ asked = {} /\ spans = {}

\* No step disturbs the quiet.
LEMMA QuietStep == Quiet /\ [Next]_vars => Quiet'
<1> SUFFICES ASSUME Quiet, [Next]_vars PROVE Quiet'
  OBVIOUS
<1>1. CASE Handler
  BY <1>1 DEF Handler, HelloRefused, HelloAccepted, SessionOpens, WelcomeFails,
              RecvHeartbeat, RecvOther, RecvResult, NextFrame, Dispatch,
              DispatchReturns, HandlerLeaves, HandlerBreaks, HandlerCloses, Quiet
<1>2. CASE Beat
  BY <1>2 DEF Beat, BeatSends, BeatMisses, BeatLooks, BeatSent, TellReturns, Quiet
<1>3. CASE \E s \in Span : CallerSends(s) \/ CallerSent(s)
  BY <1>3 DEF CallerSends, CallerSent, Quiet
<1>4. CASE (\E f \in Frame : BodySends(f)) \/ LinkDies \/ Tick \/ UNCHANGED vars
  BY <1>4 DEF BodySends, LinkDies, Tick, vars, Quiet
<1>5. QED BY <1>1, <1>2, <1>3, <1>4 DEF Next

\* Quiet is an invariant: only the handler moves before the session opens.
LEMMA NothingBeforeOpening == Spec => []Quiet
<1>1. Init => Quiet
  BY DEF Init, Quiet
<1>2. Quiet /\ [Next]_vars => Quiet'
  BY QuietStep
<1>3. QED BY <1>1, <1>2, PTL DEF Spec

-----------------------------------------------------------------------------
\* The registry waits only on spans somebody asked about.
Accounts == spans \subseteq asked /\ OneOutcomePerSpan

\* Ending some outstanding spans, and taking them out, keeps the accounts.
LEMMA EndingKeepsAccounts ==
  ASSUME TypeOK, Accounts, NEW some \in SUBSET spans,
         EndSpans(some), spans' = spans \ some, UNCHANGED <<asked, open>>
  PROVE  Accounts'
<1>1. \A s \in Span : ended'[s] = ended[s] + (IF s \in some THEN 1 ELSE 0)
  BY DEF EndSpans
<1>2. \A s \in Span : ended[s] \in Nat
  BY DEF TypeOK
<1>3. SUFFICES ASSUME NEW s \in Span
               PROVE  /\ ended'[s] <= IF s \in asked \ spans' THEN 1 ELSE 0
                      /\ open /\ s \in asked \ spans' => ended'[s] = 1
  BY DEF Accounts, OneOutcomePerSpan
<1>4. /\ ended[s] <= IF s \in asked \ spans THEN 1 ELSE 0
      /\ open /\ s \in asked \ spans => ended[s] = 1
  BY DEF Accounts, OneOutcomePerSpan
<1>5. CASE s \in some
  <2>1. s \in spans /\ s \in asked /\ s \notin spans'
    BY <1>5 DEF Accounts
  <2>2. ended'[s] = 1
    BY <1>1, <1>2, <1>4, <1>5, <2>1
  <2>3. QED BY <2>1, <2>2
<1>6. CASE s \notin some
  BY <1>1, <1>2, <1>4, <1>6
<1>7. QED BY <1>5, <1>6

\* No step ends a span twice or loses one.
LEMMA AccountsStep == TypeOK /\ Quiet /\ Accounts /\ [Next]_vars => Accounts'
<1> SUFFICES ASSUME TypeOK, Quiet, Accounts, [Next]_vars PROVE Accounts'
  OBVIOUS
<1>1. ASSUME UNCHANGED <<spans, asked, ended>>, open' => open
      PROVE  Accounts'
  BY <1>1 DEF Accounts, OneOutcomePerSpan
<1>2. CASE SessionOpens
  BY <1>2 DEF SessionOpens, Quiet, Accounts, OneOutcomePerSpan
<1>3. CASE \E s \in Span : RecvResult(s)
  <2>1. PICK s \in Span : RecvResult(s)
    BY <1>3
  <2>2. /\ EndSpans(spans \cap {s})
        /\ spans' = spans \ (spans \cap {s})
        /\ UNCHANGED <<asked, open>>
    BY <2>1 DEF RecvResult, ResolveSpan
  <2>3. QED
    BY <2>2, EndingKeepsAccounts
<1>4. CASE BeatMisses
  <2>1. EndSpans(spans) /\ spans' = spans \ spans /\ UNCHANGED <<asked, open>>
    BY <1>4 DEF BeatMisses, MarkLost
  <2>2. QED
    BY <2>1, EndingKeepsAccounts
<1>5. CASE HandlerCloses
  <2>1. UNCHANGED <<asked, ended>> /\ spans' = {} /\ ~open'
    BY <1>5 DEF HandlerCloses
  <2>2. \A s \in Span : ended[s] <= IF s \in asked THEN 1 ELSE 0
    BY DEF Accounts, OneOutcomePerSpan, TypeOK
  <2>3. QED
    BY <2>1, <2>2 DEF Accounts, OneOutcomePerSpan
<1>6. CASE \E s \in Span : CallerSends(s)
  <2>1. PICK s \in Span : CallerSends(s)
    BY <1>6
  <2>2. /\ spans' = spans \cup {s} /\ asked' = asked \cup {s}
        /\ s \notin asked /\ UNCHANGED <<ended, open>>
    BY <2>1 DEF CallerSends
  <2>3. asked' \ spans' = asked \ spans
    BY <2>2 DEF Accounts
  <2>4. QED
    BY <2>2, <2>3 DEF Accounts, OneOutcomePerSpan
<1>7. CASE \/ HelloRefused \/ HelloAccepted \/ WelcomeFails \/ RecvHeartbeat
           \/ RecvOther \/ DispatchReturns \/ HandlerLeaves \/ HandlerBreaks
  BY <1>1, <1>7 DEF HelloRefused, HelloAccepted, WelcomeFails, RecvHeartbeat,
     RecvOther, DispatchReturns, HandlerLeaves, HandlerBreaks
<1>8. CASE BeatSends \/ BeatLooks \/ TellReturns
  BY <1>1, <1>8 DEF BeatSends, BeatLooks, TellReturns
<1>9. CASE \/ \E s \in Span : CallerSent(s)
           \/ \E f \in Frame : BodySends(f)
           \/ LinkDies \/ Tick \/ UNCHANGED vars
  BY <1>1, <1>9 DEF CallerSent, BodySends, LinkDies, Tick, vars
<1>10. QED
  BY <1>2, <1>3, <1>4, <1>5, <1>6, <1>7, <1>8, <1>9 DEF Next, Handler, Beat

\* However results, losses, recoveries and the session's end race, every
\* span has at most one outcome, and none goes missing from a session that
\* is still registered.
THEOREM OneOutcome == Spec => []OneOutcomePerSpan
<1>1. Init => Accounts
  BY DEF Init, Accounts, OneOutcomePerSpan
<1>2. TypeOK /\ Quiet /\ Accounts /\ [Next]_vars => Accounts'
  BY AccountsStep
<1>3. Accounts => OneOutcomePerSpan
  BY DEF Accounts
<1>4. QED BY <1>1, <1>2, <1>3, TypeCorrect, NothingBeforeOpening, PTL DEF Spec

-----------------------------------------------------------------------------
\* No step parts the two flags.
LEMMA LossesStep == Quiet /\ LossesAlternate /\ [Next]_vars => LossesAlternate'
<1> SUFFICES ASSUME Quiet, LossesAlternate, [Next]_vars PROVE LossesAlternate'
  OBVIOUS
<1>1. CASE SessionOpens
  BY <1>1 DEF SessionOpens, Quiet, LossesAlternate
<1>2. CASE BeatMisses
  BY <1>2 DEF BeatMisses, MarkLost, LossesAlternate
<1>3. CASE BeatLooks
  <2>1. CASE LeaseExpired
    BY <1>3, <2>1 DEF BeatLooks, LossesAlternate
  <2>2. CASE ~LeaseExpired
    <3>1. (reported' = FALSE) /\ (lost' = (lost /\ ~reported)) /\ (open' = open)
      BY <1>3, <2>2 DEF BeatLooks, Recover
    <3>2. open => ~(lost /\ ~reported)
      BY DEF LossesAlternate
    <3>3. QED
      BY <3>1, <3>2 DEF LossesAlternate
  <2>3. QED BY <2>1, <2>2
<1>4. CASE \/ HelloRefused \/ HelloAccepted \/ WelcomeFails \/ RecvHeartbeat
           \/ RecvOther \/ DispatchReturns \/ HandlerLeaves \/ HandlerBreaks
           \/ HandlerCloses \/ \E s \in Span : RecvResult(s)
  BY <1>4 DEF HelloRefused, HelloAccepted, WelcomeFails, RecvHeartbeat,
     RecvOther, DispatchReturns, HandlerLeaves, HandlerBreaks, HandlerCloses,
     RecvResult, LossesAlternate
<1>5. CASE BeatSends \/ TellReturns
  BY <1>5 DEF BeatSends, TellReturns, LossesAlternate
<1>6. CASE \/ \E s \in Span : CallerSends(s) \/ CallerSent(s)
           \/ \E f \in Frame : BodySends(f)
           \/ LinkDies \/ Tick \/ UNCHANGED vars
  BY <1>6 DEF CallerSends, CallerSent, BodySends, LinkDies, Tick, vars,
     LossesAlternate
<1>7. QED
  BY <1>1, <1>2, <1>3, <1>4, <1>5, <1>6 DEF Next, Handler, Beat

\* The beat loop's flag and the record's never part company while the
\* session is registered, so losses and recoveries alternate.
THEOREM LossAndRecoveryAlternate == Spec => []LossesAlternate
<1>1. Init => LossesAlternate
  BY DEF Init, LossesAlternate
<1>2. Quiet /\ LossesAlternate /\ [Next]_vars => LossesAlternate'
  BY LossesStep
<1>3. QED BY <1>1, <1>2, NothingBeforeOpening, PTL DEF Spec

\* No step leaves a registered session alone.
LEMMA WatchedStep == Quiet /\ OpenSessionsWatched /\ [Next]_vars => OpenSessionsWatched'
<1> SUFFICES ASSUME Quiet, OpenSessionsWatched, [Next]_vars
             PROVE  OpenSessionsWatched'
  OBVIOUS
<1>1. CASE Handler
  BY <1>1 DEF Handler, HelloRefused, HelloAccepted, SessionOpens, WelcomeFails,
     RecvHeartbeat, RecvOther, RecvResult, NextFrame, Dispatch, DispatchReturns,
     HandlerLeaves, HandlerBreaks, HandlerCloses, CancelBeat, Leaving, Quiet,
     OpenSessionsWatched
<1>2. CASE Beat
  BY <1>2 DEF Beat, BeatSends, BeatMisses, BeatLooks, BeatSent, TellReturns,
     OpenSessionsWatched
<1>3. CASE \/ \E s \in Span : CallerSends(s) \/ CallerSent(s)
           \/ \E f \in Frame : BodySends(f)
           \/ LinkDies \/ Tick \/ UNCHANGED vars
  BY <1>3 DEF CallerSends, CallerSent, BodySends, LinkDies, Tick, vars,
     OpenSessionsWatched
<1>4. QED BY <1>1, <1>2, <1>3 DEF Next

\* No registered session is left without a handler to take it out and a task
\* to watch its lease, unless on_lost raised.
THEOREM SessionsAreWatched == Spec => []OpenSessionsWatched
<1>1. Init => OpenSessionsWatched
  BY DEF Init, OpenSessionsWatched
<1>2. Quiet /\ OpenSessionsWatched /\ [Next]_vars => OpenSessionsWatched'
  BY WatchedStep
<1>3. QED BY <1>1, <1>2, NothingBeforeOpening, PTL DEF Spec

\* No step forgets a frame.
LEMMA LoggedStep == Quiet /\ SendsAreLogged /\ [Next]_vars => SendsAreLogged'
<1> SUFFICES ASSUME Quiet, SendsAreLogged, [Next]_vars,
                    link' = "up", beat' # "cancelled"
             PROVE  unlogged' \subseteq
                      draining' \cup (IF beat' = "sending" THEN {"beat"} ELSE {})
                        \cup (IF handler' = "welcoming" THEN {"welcome"} ELSE {})
  BY DEF SendsAreLogged
<1>1. CASE HelloRefused \/ WelcomeFails \/ HandlerLeaves \/ HandlerBreaks
           \/ HandlerCloses
  BY <1>1 DEF HelloRefused, WelcomeFails, HandlerLeaves, HandlerBreaks,
     HandlerCloses, CancelBeat
<1>2. CASE HelloAccepted \/ SessionOpens
  BY <1>2 DEF HelloAccepted, SessionOpens, Quiet, SendsAreLogged
<1>3. CASE RecvHeartbeat \/ RecvOther \/ DispatchReturns \/ \E s \in Span : RecvResult(s)
  BY <1>3 DEF RecvHeartbeat, RecvOther, DispatchReturns, RecvResult, NextFrame,
     Dispatch, SendsAreLogged
<1>4. CASE BeatSends
  BY <1>4 DEF BeatSends, SendsAreLogged
<1>5. CASE BeatMisses \/ BeatLooks
  <2>1. BeatSent /\ beat' # "sending" /\ UNCHANGED <<link, handler, draining>>
    BY <1>5 DEF BeatMisses, BeatLooks
  <2>2. QED
    BY <2>1 DEF BeatSent, SendsAreLogged
<1>6. CASE TellReturns
  BY <1>6 DEF TellReturns, SendsAreLogged
<1>7. CASE \E s \in Span : CallerSends(s) \/ CallerSent(s)
  <2>1. PICK s \in Span : CallerSends(s) \/ CallerSent(s)
    BY <1>7
  <2>2. CASE CallerSends(s)
    BY <2>2 DEF CallerSends, SendsAreLogged
  <2>3. CASE CallerSent(s)
    BY <2>3 DEF CallerSent, SendsAreLogged
  <2>4. QED BY <2>1, <2>2, <2>3
<1>8. CASE (\E f \in Frame : BodySends(f)) \/ LinkDies \/ Tick \/ UNCHANGED vars
  BY <1>8 DEF BodySends, LinkDies, Tick, vars, SendsAreLogged
<1>9. QED
  BY <1>1, <1>2, <1>3, <1>4, <1>5, <1>6, <1>7, <1>8 DEF Next, Handler, Beat

\* Every frame sent over a living socket is in the log or its sender is still
\* to put it there: the handshake, the beat task or a caller.
THEOREM LiveSendsAreLogged == Spec => []SendsAreLogged
<1>1. Init => SendsAreLogged
  BY DEF Init, SendsAreLogged
<1>2. Quiet /\ SendsAreLogged /\ [Next]_vars => SendsAreLogged'
  BY LoggedStep
<1>3. QED BY <1>1, <1>2, NothingBeforeOpening, PTL DEF Spec

-----------------------------------------------------------------------------
\* What a session keeps from each step to the next, whatever it began as.
Kept ==
  /\ TypeOK /\ Quiet /\ Accounts
  /\ LossesAlternate /\ OpenSessionsWatched /\ SendsAreLogged

\* Kept is inductive: it holds of a session that begins anywhere in it.
LEMMA KeptStep == Kept /\ [Next]_vars => Kept'
  BY TypeStep, QuietStep, AccountsStep, LossesStep, WatchedStep, LoggedStep DEF Kept

=============================================================================
