--------------------------- MODULE MockBody_proofs ---------------------------
(***************************************************************************)
(* What TLAPS proves of MockBody, for every set of spans, every command    *)
(* they carry, every lease, velocity bound and inbox, under either         *)
(* harness.                                                                *)
(***************************************************************************)
EXTENDS MockBody, TLAPS

(* What the handlers are built from.                                       *)

\* What the requests of safety.py return are transitions.
LEMMA SafetyTransitions ==
  ASSUME NEW st \in State
  PROVE  /\ EnterSafeHold(st) \in Transition
         /\ Estop(st) \in Transition
         /\ ClearSafeHold(st) \in Transition
         /\ ClearEstop(st) \in Transition
BY DEF State, Transition, Move, Refuse, EnterSafeHold, Estop, ClearSafeHold,
       ClearEstop

\* So is the local a task without one keeps.
LEMMA IdleTransition == NoTransition \in Transition
BY DEF State, Transition, Move, NoTransition

\* The frame taken is the oldest, and leaves frames.
LEMMA NextFrameType ==
  ASSUME TypeOK, NEW type, NextFrame(type)
  PROVE  /\ inbox' \in Seq(Frame)
         /\ Head(inbox) \in Frame
         /\ Head(inbox).type = type
BY DEF TypeOK, NextFrame

\* Ending a span keeps the types of the ledger and of the counts.
LEMMA EmitTerminalType ==
  ASSUME TypeOK, NEW s \in Span, NEW status \in Terminal, EmitTerminal(s, status)
  PROVE  /\ ledger' \in [Span -> {"unseen", "open"} \cup Terminal]
         /\ results' \in [Span -> Nat]
<1>1. CASE Ended(s)
  BY <1>1 DEF TypeOK, EmitTerminal
<1>2. CASE ~Ended(s)
  <2>1. ledger' = [ledger EXCEPT ![s] = status]
    BY <1>2 DEF EmitTerminal
  <2>2. PICK n \in {results[s], results[s] + 1} : results' = [results EXCEPT ![s] = n]
    BY <1>2, Zenon DEF EmitTerminal
  <2>3. n \in Nat
    BY DEF TypeOK
  <2>4. QED BY <2>1, <2>2, <2>3 DEF TypeOK
<1>3. QED BY <1>1, <1>2

\* Announcing keeps the types of both copies of the state.
LEMMA AnnounceType ==
  ASSUME TypeOK, NEW t, NEW st \in State, Announce(t, st)
  PROVE  clientState' \in State /\ told' \in State \cup {"nothing"}
BY DEF TypeOK, Announce

\* A stretch of a latch keeps the types of all it touches.
LEMMA FailThenAnnounceType ==
  ASSUME TypeOK, NEW p \in Proc, NEW spans \in SUBSET Span,
         NEW t \in Transition, NEW st \in State, FailThenAnnounce(p, spans, t, st)
  PROVE  /\ ledger' \in [Span -> {"unseen", "open"} \cup Terminal]
         /\ results' \in [Span -> Nat]
         /\ clientState' \in State
         /\ told' \in State \cup {"nothing"}
         /\ pc' \in [Proc -> {"rest", "failing", "clearing", "over"}]
         /\ left' \in [Proc -> SUBSET Span]
         /\ moved' \in [Proc -> Transition]
<1> DEFINE open == {s \in spans : ~Ended(s)}
<1>1. CASE \E s \in open :
             /\ EmitTerminal(s, "failed")
             /\ pc' = [pc EXCEPT ![p] = "failing"]
             /\ left' = [left EXCEPT ![p] = open \ {s}]
             /\ moved' = [moved EXCEPT ![p] = t]
             /\ UNCHANGED <<clientState, told>>
  <2>1. PICK s \in open :
             /\ EmitTerminal(s, "failed")
             /\ pc' = [pc EXCEPT ![p] = "failing"]
             /\ left' = [left EXCEPT ![p] = open \ {s}]
             /\ moved' = [moved EXCEPT ![p] = t]
             /\ UNCHANGED <<clientState, told>>
    BY <1>1
  <2>2. /\ ledger' \in [Span -> {"unseen", "open"} \cup Terminal]
        /\ results' \in [Span -> Nat]
    BY <2>1, EmitTerminalType DEF Terminal
  <2>3. QED BY <2>1, <2>2 DEF TypeOK
<1>2. CASE /\ open = {}
           /\ Announce(t, st)
           /\ pc' = [pc EXCEPT ![p] = "rest"]
           /\ left' = [left EXCEPT ![p] = {}]
           /\ moved' = [moved EXCEPT ![p] = NoTransition]
           /\ UNCHANGED <<ledger, results>>
  <2>1. clientState' \in State /\ told' \in State \cup {"nothing"}
    BY <1>2, AnnounceType
  <2>2. QED BY <1>2, <2>1, IdleTransition DEF TypeOK
<1>3. QED BY <1>1, <1>2 DEF FailThenAnnounce

\* A handler's outcome is terminal, and the velocity it leaves within bounds.
LEMMA OutcomeType ==
  ASSUME TypeOK, NEW s \in Span
  PROVE  OutcomeOf(s) \in Terminal /\ VelocityAfter(s) \in 0 .. MaxVelocity
<1>1. CommandOf[s].velocity \in Nat /\ MaxVelocity \in Nat
  BY CommandAssumption, VelocityAssumption DEF Command
<1>2. OutcomeOf(s) \in Terminal
  BY DEF OutcomeOf, Terminal
<1>3. OutcomeOf(s) = "succeeded" /\ Target(s) = <<"drive0", "set_velocity">>
        => CommandOf[s].velocity <= MaxVelocity
  BY DEF OutcomeOf, Permitted
<1>4. VelocityAfter(s) \in 0 .. MaxVelocity
  BY <1>1, <1>3 DEF VelocityAfter, TypeOK
<1>5. QED BY <1>2, <1>4

-----------------------------------------------------------------------------
(* Type correctness.                                                       *)

\* Every state a behaviour reaches is well typed; in particular the velocity
\* never passes the declared bound and silence never passes the lease.
THEOREM TypeCorrect == Spec => []TypeOK
<1>1. Init => TypeOK
  <2> SUFFICES ASSUME Init PROVE TypeOK
    OBVIOUS
  <2>1. /\ velocity \in 0 .. MaxVelocity
        /\ silence \in 0 .. Lease
    BY LeaseAssumption, VelocityAssumption DEF Init
  <2>2. /\ ledger \in [Span -> {"unseen", "open"} \cup Terminal]
        /\ results \in [Span -> Nat]
        /\ inbox \in Seq(Frame)
    BY DEF Init
  <2>3. /\ pc \in [Proc -> {"rest", "failing", "clearing", "over"}]
        /\ left \in [Proc -> SUBSET Span]
        /\ moved \in [Proc -> Transition]
    BY IdleTransition DEF Init
  <2>4. QED BY <2>1, <2>2, <2>3 DEF Init, TypeOK, State
<1>2. TypeOK /\ [Next]_vars => TypeOK'
  <2> SUFFICES ASSUME TypeOK, [Next]_vars PROVE TypeOK'
    OBVIOUS
  <2> USE VelocityAssumption, LeaseAssumption
  <2>a. "recv" \in Proc /\ "watch" \in Proc
    BY DEF Proc
  <2>b. InFlightActuation \in SUBSET Span
    BY DEF InFlightActuation, Outstanding
  <2>1. CASE RecvHeartbeat
    BY <2>1, NextFrameType DEF RecvHeartbeat, TypeOK
  <2>2. CASE RecvEstop
    <3>1. Estop(safety) \in Transition /\ Estop(safety).state \in State
      BY SafetyTransitions DEF TypeOK, Transition
    <3>2. FailThenAnnounce("recv", InFlightActuation, Estop(safety), Estop(safety).state)
      BY <2>2 DEF RecvEstop
    <3>3. inbox' \in Seq(Frame)
      BY <2>2, NextFrameType DEF RecvEstop
    <3>4. /\ ledger' \in [Span -> {"unseen", "open"} \cup Terminal]
          /\ results' \in [Span -> Nat]
          /\ clientState' \in State
          /\ told' \in State \cup {"nothing"}
          /\ pc' \in [Proc -> {"rest", "failing", "clearing", "over"}]
          /\ left' \in [Proc -> SUBSET Span]
          /\ moved' \in [Proc -> Transition]
      BY <2>a, <2>b, <3>1, <3>2, FailThenAnnounceType
    <3>5. safety' \in State /\ velocity' \in 0 .. MaxVelocity
      BY <2>2, <3>1 DEF RecvEstop, PoseStop
    <3>6. QED BY <2>2, <3>3, <3>4, <3>5 DEF RecvEstop, TypeOK
  <2>3. CASE RecvEstopClear
    <3>1. ClearEstop(safety).state \in State
      BY SafetyTransitions DEF TypeOK, Transition
    <3>2. inbox' \in Seq(Frame)
      BY <2>3, NextFrameType DEF RecvEstopClear
    <3>3. clientState' \in State /\ told' \in State \cup {"nothing"}
      BY <2>3, <3>1, AnnounceType DEF RecvEstopClear
    <3>4. QED BY <2>3, <3>1, <3>2, <3>3 DEF RecvEstopClear, TypeOK
  <2>4. CASE RecvDuplicate
    BY <2>4, NextFrameType DEF RecvDuplicate, TypeOK
  <2>5. ASSUME NEW s \in Span, RecvTooLate(s) PROVE TypeOK'
    <3>1. inbox' \in Seq(Frame)
      BY <2>5, NextFrameType DEF RecvTooLate
    <3>2. /\ ledger' \in [Span -> {"unseen", "open"} \cup Terminal]
          /\ results' \in [Span -> Nat]
      BY <2>5, EmitTerminalType DEF RecvTooLate, Terminal
    <3>3. QED BY <2>5, <3>1, <3>2 DEF RecvTooLate, TypeOK
  <2>6. ASSUME NEW s \in Span, RecvCommand(s) PROVE TypeOK'
    <3>1. inbox' \in Seq(Frame)
      BY <2>6, NextFrameType DEF RecvCommand
    <3>2. /\ ledger' \in [Span -> {"unseen", "open"} \cup Terminal]
          /\ results' \in [Span -> Nat]
      BY <2>6, OutcomeType, EmitTerminalType DEF RecvCommand
    <3>3. QED BY <2>6, <3>1, <3>2, OutcomeType DEF RecvCommand, TypeOK
  <2>7. ASSUME NEW s \in Span, RecvClearSafeHold(s) PROVE TypeOK'
    <3> DEFINE t == ClearSafeHold(safety)
    <3>1. t.state \in State
      BY SafetyTransitions DEF TypeOK, Transition
    <3>2. inbox' \in Seq(Frame)
      BY <2>7, NextFrameType DEF RecvClearSafeHold
    <3>3. clientState' \in State /\ told' \in State \cup {"nothing"}
      BY <2>7, <3>1, AnnounceType DEF RecvClearSafeHold
    <3>4. /\ ledger' \in [Span -> {"unseen", "open"} \cup Terminal]
          /\ results' \in [Span -> Nat]
          /\ pc' \in [Proc -> {"rest", "failing", "clearing", "over"}]
          /\ left' \in [Proc -> SUBSET Span]
      <4>1. CASE t.changed
        <5>1. /\ ledger' = [ledger EXCEPT ![s] = "open"]
              /\ pc' = [pc EXCEPT !["recv"] = "clearing"]
              /\ left' = [left EXCEPT !["recv"] = {s}]
              /\ UNCHANGED results
          BY <2>7, <4>1 DEF RecvClearSafeHold
        <5>2. QED BY <2>a, <5>1 DEF TypeOK
      <4>2. CASE ~t.changed
        <5>1. PICK status \in {"rejected", "succeeded"} : EmitTerminal(s, status)
          BY <2>7, <4>2, Zenon DEF RecvClearSafeHold
        <5>2. UNCHANGED <<pc, left>>
          BY <2>7, <4>2 DEF RecvClearSafeHold
        <5>3. QED BY <5>1, <5>2, EmitTerminalType DEF Terminal, TypeOK
      <4>3. QED BY <4>1, <4>2
    <3>5. QED BY <2>7, <3>1, <3>2, <3>3, <3>4 DEF RecvClearSafeHold, TypeOK
  <2>8. ASSUME NEW s \in Span, ClearFinishes(s) PROVE TypeOK'
    <3>1. /\ ledger' \in [Span -> {"unseen", "open"} \cup Terminal]
          /\ results' \in [Span -> Nat]
      BY <2>8, EmitTerminalType DEF ClearFinishes, Terminal
    <3>2. QED BY <2>8, <3>1 DEF ClearFinishes, TypeOK
  <2>9. CASE RecvEnds
    BY <2>9 DEF RecvEnds, TypeOK
  <2>10. ASSUME NEW p \in Proc, Resume(p) PROVE TypeOK'
    <3>1. moved[p] \in Transition /\ left[p] \in SUBSET Span /\ safety \in State
      BY DEF TypeOK
    <3>2. FailThenAnnounce(p, left[p], moved[p], safety)
      BY <2>10 DEF Resume
    <3>3. QED BY <2>10, <3>1, <3>2, FailThenAnnounceType DEF Resume, TypeOK
  <2>11. CASE WatchLatches
    <3> DEFINE t == EnterSafeHold(safety)
               spans == IF t.changed THEN InFlightActuation ELSE {}
    <3>1. t \in Transition /\ t.state \in State
      BY SafetyTransitions DEF TypeOK, Transition
    <3>2. FailThenAnnounce("watch", spans, t, t.state)
      BY <2>11 DEF WatchLatches
    <3>3. spans \in SUBSET Span
      BY <2>b
    <3>4. safety' = t.state
      BY <2>11 DEF WatchLatches
    <3> HIDE DEF t, spans
    <3>5. /\ ledger' \in [Span -> {"unseen", "open"} \cup Terminal]
          /\ results' \in [Span -> Nat]
          /\ clientState' \in State
          /\ told' \in State \cup {"nothing"}
          /\ pc' \in [Proc -> {"rest", "failing", "clearing", "over"}]
          /\ left' \in [Proc -> SUBSET Span]
          /\ moved' \in [Proc -> Transition]
      BY <2>a, <3>1, <3>2, <3>3, FailThenAnnounceType
    <3>6. safety' \in State /\ velocity' \in 0 .. MaxVelocity
      BY <2>11, <3>1, <3>4 DEF WatchLatches, PoseStop
    <3>7. UNCHANGED <<inbox, link, silence, beating>> /\ latched' = TRUE
      BY <2>11 DEF WatchLatches
    <3>8. QED BY <3>5, <3>6, <3>7 DEF TypeOK
  <2>12. CASE WatchRearms
    BY <2>12 DEF WatchRearms, TypeOK
  <2>13. CASE HeartbeatBeats
    BY <2>13 DEF HeartbeatBeats, TypeOK
  <2>14. CASE HeartbeatEnds
    BY <2>14 DEF HeartbeatEnds, TypeOK
  <2>15. ASSUME NEW f \in Frame, BrainSends(f) PROVE TypeOK'
    BY <2>15 DEF BrainSends, TypeOK
  <2>16. CASE LinkDies
    <3>1. PICK n \in 0 .. Len(inbox) : inbox' = SubSeq(inbox, 1, n)
      BY <2>16 DEF LinkDies
    <3>2. inbox' \in Seq(Frame)
      BY <3>1 DEF TypeOK
    <3>3. QED BY <2>16, <3>2 DEF LinkDies, TypeOK
  <2>17. CASE Tick
    BY <2>17 DEF Tick, TypeOK
  <2>18. CASE RunReturns
    BY <2>18, IdleTransition DEF RunReturns, AllOver, TypeOK
  <2>19. ASSUME NEW s \in Span, DrillHoldsSpan(s) PROVE TypeOK'
    BY <2>19 DEF DrillHoldsSpan, TypeOK
  <2>20. CASE DrillCloses
    <3>1. inbox' \in Seq(Frame) /\ link' \in {"up", "down"} /\ beating' \in BOOLEAN
      <4>1. inbox' = <<>> /\ link' = "down" /\ beating' = FALSE
        BY <2>20 DEF DrillCloses
      <4>2. <<>> \in Seq(Frame)
        OBVIOUS
      <4>3. QED BY <4>1, <4>2
    <3>2. /\ pc' \in [Proc -> {"rest", "failing", "clearing", "over"}]
          /\ left' \in [Proc -> SUBSET Span]
          /\ moved' \in [Proc -> Transition]
      BY <2>20, IdleTransition DEF DrillCloses, AllOver
    <3>3. QED BY <2>20, <3>1, <3>2 DEF DrillCloses, TypeOK
  <2>21. CASE DrillReconnects
    <3>1. pc' \in [Proc -> {"rest", "failing", "clearing", "over"}]
      BY <2>a, <2>21 DEF DrillReconnects, TypeOK
    <3>2. silence' \in 0 .. Lease /\ told' \in State \cup {"nothing"}
      BY <2>21 DEF DrillReconnects
    <3>3. link' \in {"up", "down"} /\ beating' \in BOOLEAN
      BY <2>21 DEF DrillReconnects
    <3>4. QED BY <2>21, <3>1, <3>2, <3>3 DEF DrillReconnects, TypeOK
  <2>22. CASE UNCHANGED vars
    BY <2>22 DEF vars, TypeOK
  <2>23. QED
    BY <2>a, <2>1, <2>2, <2>3, <2>4, <2>5, <2>6, <2>7, <2>8, <2>9, <2>10, <2>11,
       <2>12, <2>13, <2>14, <2>15, <2>16, <2>17, <2>18, <2>19, <2>20, <2>21, <2>22
       DEF Next, ReceiveLoop, Watchdog
<1>3. QED BY <1>1, <1>2, PTL DEF Spec

-----------------------------------------------------------------------------
(* Motion.                                                                 *)

\* Only four kinds of step touch the safety state or the velocity.
LEMMA MotionSteps ==
  ASSUME [Next]_vars
  PROVE  \/ UNCHANGED <<safety, velocity>>
         \/ /\ velocity' = 0
            /\ safety' = "estopped" \/ safety' = EnterSafeHold(safety).state
         \/ RecvEstopClear
         \/ \E s \in Span : RecvCommand(s) \/ RecvClearSafeHold(s)
<1>1. CASE RecvEstop
  BY <1>1 DEF RecvEstop, PoseStop, Estop, Move
<1>2. CASE WatchLatches
  BY <1>2 DEF WatchLatches, PoseStop
<1>3. CASE ReceiveLoop /\ ~RecvEstop
  BY <1>3 DEF ReceiveLoop, RecvHeartbeat, RecvDuplicate, RecvTooLate, ClearFinishes,
              RecvEnds, Resume
<1>4. CASE Watchdog /\ ~WatchLatches
  BY <1>4 DEF Watchdog, WatchRearms, Resume
<1>5. CASE \/ HeartbeatBeats \/ HeartbeatEnds \/ (\E f \in Frame : BrainSends(f))
           \/ LinkDies \/ Tick
  BY <1>5 DEF HeartbeatBeats, HeartbeatEnds, BrainSends, LinkDies, Tick
<1>6. CASE \/ RunReturns \/ (\E s \in Span : DrillHoldsSpan(s))
           \/ DrillCloses \/ DrillReconnects
  BY <1>6 DEF RunReturns, DrillHoldsSpan, DrillCloses, DrillReconnects
<1>7. CASE UNCHANGED vars
  BY <1>7 DEF vars
<1>8. QED BY <1>1, <1>2, <1>3, <1>4, <1>5, <1>6, <1>7 DEF Next

\* A command turns the drive only from ok.
LEMMA CommandMotion ==
  ASSUME NEW s \in Span, RecvCommand(s)
  PROVE  /\ UNCHANGED safety
         /\ velocity' \in {0, velocity} \/ safety = "ok"
<1>1. velocity' = VelocityAfter(s) /\ UNCHANGED safety
  BY DEF RecvCommand
<1>2. VelocityAfter(s) \in {0, velocity} \/ safety = "ok"
  BY DEF VelocityAfter, OutcomeOf, Permitted, MayActuate
<1>3. QED BY <1>1, <1>2

\* Each step leaves the drive stopped unless the body is ok.
LEMMA MotionStep ==
  ASSUME MotionPermissioned, [Next]_vars
  PROVE  MotionPermissioned'
<1>1. CASE UNCHANGED <<safety, velocity>>
  BY <1>1 DEF MotionPermissioned
<1>2. CASE velocity' = 0
  BY <1>2 DEF MotionPermissioned
<1>3. CASE RecvEstopClear
  BY <1>3 DEF RecvEstopClear, ClearEstop, Move, Refuse, MotionPermissioned
<1>4. ASSUME NEW s \in Span, RecvCommand(s) PROVE MotionPermissioned'
  BY <1>4, CommandMotion DEF MotionPermissioned
<1>5. ASSUME NEW s \in Span, RecvClearSafeHold(s) PROVE MotionPermissioned'
  BY <1>5 DEF RecvClearSafeHold, ClearSafeHold, Move, Refuse, MotionPermissioned
<1>6. QED BY <1>1, <1>2, <1>3, <1>4, <1>5, MotionSteps

\* The drive never turns in a latched state, under every interleaving of the
\* receive loop, the watchdog, the cancellations and the reconnections.
THEOREM MotionIsPermissioned == Spec => []MotionPermissioned
<1>1. Init => MotionPermissioned
  BY DEF Init, MotionPermissioned
<1>2. MotionPermissioned /\ [Next]_vars => MotionPermissioned'
  BY MotionStep
<1>3. QED BY <1>1, <1>2, PTL DEF Spec

-----------------------------------------------------------------------------
(* The ledger.                                                             *)

\* Every step leaves the ledger alone, closes a span through
\* _emit_terminal, or opens one nobody has seen.
LedgerStep ==
  \/ UNCHANGED <<ledger, results>>
  \/ \E s \in Span, status \in Terminal : EmitTerminal(s, status)
  \/ \E s \in Span :
       /\ IsNew(s)
       /\ ledger' = [ledger EXCEPT ![s] = "open"]
       /\ UNCHANGED results

\* Each step opens a span, ends one, or leaves the ledger be.
LEMMA LedgerSteps ==
  ASSUME TypeOK, [Next]_vars
  PROVE  LedgerStep
<1>1. ASSUME NEW p \in Proc, NEW spans \in SUBSET Span, NEW t, NEW st,
             FailThenAnnounce(p, spans, t, st)
      PROVE  LedgerStep
  BY <1>1 DEF FailThenAnnounce, Terminal, LedgerStep
<1>a. "recv" \in Proc /\ "watch" \in Proc
  BY DEF Proc
<1>2. InFlightActuation \in SUBSET Span /\ {} \in SUBSET Span
  BY DEF InFlightActuation, Outstanding
<1>3. CASE RecvEstop
  <2>1. FailThenAnnounce("recv", InFlightActuation, Estop(safety), Estop(safety).state)
    BY <1>3 DEF RecvEstop
  <2>2. QED BY <1>a, <1>1, <1>2, <2>1
<1>4. CASE WatchLatches
  <2> DEFINE t == EnterSafeHold(safety)
             spans == IF t.changed THEN InFlightActuation ELSE {}
  <2>1. FailThenAnnounce("watch", spans, t, t.state)
    BY <1>4 DEF WatchLatches
  <2>2. spans \in SUBSET Span
    BY <1>2
  <2> HIDE DEF t, spans
  <2>3. QED BY <1>a, <1>1, <2>1, <2>2
<1>5. ASSUME NEW p \in Proc, Resume(p) PROVE LedgerStep
  <2>1. FailThenAnnounce(p, left[p], moved[p], safety) /\ left[p] \in SUBSET Span
    BY <1>5 DEF Resume, TypeOK
  <2>2. QED BY <1>1, <2>1
<1>6. ASSUME NEW s \in Span, RecvTooLate(s) \/ ClearFinishes(s) PROVE LedgerStep
  BY <1>6 DEF RecvTooLate, ClearFinishes, Terminal, LedgerStep
<1>7. ASSUME NEW s \in Span, RecvCommand(s) PROVE LedgerStep
  BY <1>7, OutcomeType DEF RecvCommand, LedgerStep
<1>8. ASSUME NEW s \in Span, RecvClearSafeHold(s) PROVE LedgerStep
  <2>1. IsNew(s)
    BY <1>8 DEF RecvClearSafeHold
  <2>2. CASE ClearSafeHold(safety).changed
    BY <1>8, <2>1, <2>2 DEF RecvClearSafeHold, LedgerStep
  <2>3. CASE ~ClearSafeHold(safety).changed
    <3>1. PICK status \in {"rejected", "succeeded"} : EmitTerminal(s, status)
      BY <1>8, <2>3, Zenon DEF RecvClearSafeHold
    <3>2. QED BY <3>1 DEF Terminal, LedgerStep
  <2>4. QED BY <2>2, <2>3
<1>9. CASE RecvHeartbeat \/ RecvEstopClear \/ RecvDuplicate \/ RecvEnds \/ WatchRearms
  BY <1>9 DEF RecvHeartbeat, RecvEstopClear, RecvDuplicate, RecvEnds, WatchRearms,
              LedgerStep
<1>10. CASE \/ HeartbeatBeats \/ HeartbeatEnds \/ (\E f \in Frame : BrainSends(f))
            \/ LinkDies \/ Tick
  BY <1>10 DEF HeartbeatBeats, HeartbeatEnds, BrainSends, LinkDies, Tick,
               LedgerStep
<1>11. CASE RunReturns \/ DrillCloses \/ DrillReconnects
  BY <1>11 DEF RunReturns, DrillCloses, DrillReconnects, LedgerStep
<1>12. CASE \E s \in Span : DrillHoldsSpan(s)
  BY <1>12 DEF DrillHoldsSpan, LedgerStep
<1>13. CASE UNCHANGED vars
  BY <1>13 DEF vars, LedgerStep
<1>14. CASE ReceiveLoop
  BY <1>a, <1>3, <1>5, <1>6, <1>7, <1>8, <1>9, <1>14 DEF ReceiveLoop
<1>15. CASE Watchdog
  BY <1>a, <1>4, <1>5, <1>9, <1>15 DEF Watchdog
<1>16. QED
  BY <1>10, <1>11, <1>12, <1>13, <1>14, <1>15 DEF Next

\* No span is ever answered twice, nor before it has ended.
THEOREM OneTerminalResultPerSpan == Spec => []OneTerminalResult
<1>1. Init => OneTerminalResult
  BY DEF Init, OneTerminalResult, Terminal
<1>2. TypeOK /\ OneTerminalResult /\ [Next]_vars => OneTerminalResult'
  <2> SUFFICES ASSUME TypeOK, OneTerminalResult, [Next]_vars
               PROVE  OneTerminalResult'
    OBVIOUS
  <2>1. CASE UNCHANGED <<ledger, results>>
    BY <2>1 DEF OneTerminalResult
  <2>2. ASSUME NEW s \in Span, NEW status \in Terminal, EmitTerminal(s, status)
        PROVE  OneTerminalResult'
    <3>1. CASE Ended(s)
      BY <2>2, <3>1 DEF EmitTerminal, OneTerminalResult
    <3>2. CASE ~Ended(s)
      <4>1. results[s] = 0
        BY <3>2 DEF TypeOK, OneTerminalResult, Ended
      <4>2. ledger' = [ledger EXCEPT ![s] = status]
        BY <2>2, <3>2 DEF EmitTerminal
      <4>3. PICK n \in {results[s], results[s] + 1} : results' = [results EXCEPT ![s] = n]
        BY <2>2, <3>2, Zenon DEF EmitTerminal
      <4>4. n <= 1
        BY <4>1
      <4>5. QED BY <4>2, <4>3, <4>4 DEF TypeOK, OneTerminalResult
    <3>3. QED BY <3>1, <3>2
  <2>3. ASSUME NEW s \in Span, IsNew(s), ledger' = [ledger EXCEPT ![s] = "open"],
               UNCHANGED results
        PROVE  OneTerminalResult'
    BY <2>3 DEF TypeOK, OneTerminalResult, IsNew, Terminal
  <2>4. QED BY <2>1, <2>2, <2>3, LedgerSteps DEF LedgerStep
<1>3. QED BY <1>1, <1>2, TypeCorrect, PTL DEF Spec

\* A living socket in the first session was alive, in that session, before:
\* only the drill reconnects, and it starts no watchdog.
LEMMA SessionSteps ==
  ASSUME TypeOK, [Next]_vars, link' = "up", FirstSession'
  PROVE  link = "up" /\ FirstSession
<1> DEFINE Kept == UNCHANGED link /\ (pc["watch"] = "over" => pc'["watch"] = "over")
<1>a. "recv" \in Proc /\ "watch" \in Proc /\ "recv" # "watch"
  BY DEF Proc
<1>k. SUFFICES ASSUME ~ Kept PROVE FALSE
  BY DEF FirstSession
<1>1. ASSUME NEW p \in Proc, NEW spans, NEW t, NEW st, pc[p] # "over",
             FailThenAnnounce(p, spans, t, st)
      PROVE  pc["watch"] = "over" => pc'["watch"] = "over"
  BY <1>1, <1>a DEF FailThenAnnounce, TypeOK
<1>2. ASSUME NEW p \in Proc, Resume(p) PROVE FALSE
  <2>1. FailThenAnnounce(p, left[p], moved[p], safety) /\ pc[p] # "over" /\ UNCHANGED link
    BY <1>2 DEF Resume
  <2>2. QED BY <1>1, <1>k, <2>1
<1>3. CASE RecvEstop
  <2>1. FailThenAnnounce("recv", InFlightActuation, Estop(safety), Estop(safety).state)
    BY <1>3 DEF RecvEstop
  <2>2. pc["recv"] # "over" /\ UNCHANGED link
    BY <1>3 DEF RecvEstop, NextFrame
  <2>3. QED BY <1>a, <1>1, <1>k, <2>1, <2>2
<1>4. CASE WatchLatches
  BY <1>4, <1>k DEF WatchLatches
<1>5. ASSUME NEW s \in Span,
             RecvTooLate(s) \/ RecvCommand(s) \/ RecvClearSafeHold(s) \/ ClearFinishes(s)
      PROVE  FALSE
  BY <1>5, <1>a, <1>k DEF RecvTooLate, RecvCommand, RecvClearSafeHold, ClearFinishes, TypeOK
<1>6. CASE \/ RecvHeartbeat \/ RecvEstopClear \/ RecvDuplicate \/ RecvEnds \/ WatchRearms
           \/ HeartbeatBeats \/ HeartbeatEnds \/ Tick \/ UNCHANGED vars
  BY <1>6, <1>a, <1>k DEF RecvHeartbeat, RecvEstopClear, RecvDuplicate, RecvEnds,
     WatchRearms, HeartbeatBeats, HeartbeatEnds, Tick, vars, TypeOK
<1>7. CASE (\E f \in Frame : BrainSends(f)) \/ (\E s \in Span : DrillHoldsSpan(s))
  BY <1>7, <1>k DEF BrainSends, DrillHoldsSpan
<1>8. CASE LinkDies \/ DrillCloses
  BY <1>8 DEF LinkDies, DrillCloses
<1>9. CASE RunReturns \/ DrillReconnects
  BY <1>9, <1>a DEF RunReturns, DrillReconnects, AllOver, FirstSession, TypeOK
<1>10. QED
  BY <1>a, <1>2, <1>3, <1>4, <1>5, <1>6, <1>7, <1>8, <1>9
     DEF Next, ReceiveLoop, Watchdog

\* A span that has ended was answered exactly when an answer was wanted, as
\* long as the first session's socket lives.
THEOREM EndedSpansAreAnswered == Spec => []EndedSpansAnswered
<1>1. Init => EndedSpansAnswered
  BY DEF Init, EndedSpansAnswered, Terminal
<1>2. TypeOK /\ OneTerminalResult /\ EndedSpansAnswered /\ [Next]_vars
        => EndedSpansAnswered'
  <2> SUFFICES ASSUME TypeOK, OneTerminalResult, EndedSpansAnswered, [Next]_vars,
                      link' = "up", FirstSession'
               PROVE  \A s \in Span : ledger'[s] \in Terminal =>
                        results'[s] = IF CommandOf[s].expects_result THEN 1 ELSE 0
    BY DEF EndedSpansAnswered, FirstSession
  <2>1. link = "up" /\ \A s \in Span : ledger[s] \in Terminal =>
          results[s] = IF CommandOf[s].expects_result THEN 1 ELSE 0
    BY SessionSteps DEF EndedSpansAnswered
  <2>2. CASE UNCHANGED <<ledger, results>>
    BY <2>1, <2>2
  <2>3. ASSUME NEW s \in Span, NEW status \in Terminal, EmitTerminal(s, status),
               NEW r \in Span, ledger'[r] \in Terminal
        PROVE  results'[r] = IF CommandOf[r].expects_result THEN 1 ELSE 0
    <3>1. CASE Ended(s)
      BY <2>1, <2>3, <3>1 DEF EmitTerminal
    <3>2. CASE ~Ended(s)
      <4>1. results[s] = 0
        BY <3>2 DEF TypeOK, OneTerminalResult, Ended
      <4>2. ledger' = [ledger EXCEPT ![s] = status]
        BY <2>3, <3>2 DEF EmitTerminal
      <4>3. results' = [results EXCEPT ![s] = IF CommandOf[s].expects_result
                                              THEN results[s] + 1 ELSE results[s]]
        BY <2>1, <2>3, <3>2, Zenon DEF EmitTerminal
      <4>4. CASE r = s
        BY <4>1, <4>3, <4>4 DEF TypeOK
      <4>5. CASE r # s
        <5>1. ledger'[r] = ledger[r] /\ results'[r] = results[r]
          BY <4>2, <4>3, <4>5 DEF TypeOK
        <5>2. QED BY <2>1, <2>3, <5>1
      <4>6. QED BY <4>4, <4>5
    <3>3. QED BY <3>1, <3>2
  <2>4. ASSUME NEW s \in Span, IsNew(s), ledger' = [ledger EXCEPT ![s] = "open"],
               UNCHANGED results
        PROVE  \A r \in Span : ledger'[r] \in Terminal =>
                 results'[r] = IF CommandOf[r].expects_result THEN 1 ELSE 0
    BY <2>1, <2>4 DEF TypeOK, Terminal
  <2>5. QED BY <2>2, <2>3, <2>4, LedgerSteps DEF LedgerStep
<1>3. QED BY <1>1, <1>2, TypeCorrect, OneTerminalResultPerSpan, PTL DEF Spec

-----------------------------------------------------------------------------
(* Latches and their reports.                                              *)

\* What a task leaves behind when it suspends in, or finishes, a latch.
LEMMA FailThenAnnounceOwns ==
  ASSUME TypeOK, NEW p \in Proc, NEW spans \in SUBSET Span, NEW t, NEW st,
         FailThenAnnounce(p, spans, t, st)
  PROVE  /\ \A s \in spans : ledger'[s] \in Terminal
                              \/ (pc'[p] = "failing" /\ s \in left'[p])
         /\ \A s \in Span : ledger'[s] = "open" => ledger[s] = "open"
         /\ \A q \in Proc \ {p} : /\ pc'[q] = pc[q]
                                  /\ left'[q] = left[q]
                                  /\ moved'[q] = moved[q]
         /\ \/ /\ pc'[p] = "failing"
               /\ moved'[p] = t
               /\ UNCHANGED <<clientState, told>>
            \/ pc'[p] = "rest" /\ Announce(t, st)
<1> DEFINE open == {s \in spans : ~Ended(s)}
<1>1. ASSUME NEW s \in open,
             EmitTerminal(s, "failed"),
             pc' = [pc EXCEPT ![p] = "failing"],
             left' = [left EXCEPT ![p] = open \ {s}],
             moved' = [moved EXCEPT ![p] = t],
             UNCHANGED <<clientState, told>>
      PROVE  /\ \A r \in spans : ledger'[r] \in Terminal
                                  \/ (pc'[p] = "failing" /\ r \in left'[p])
             /\ \A r \in Span : ledger'[r] = "open" => ledger[r] = "open"
             /\ \A q \in Proc \ {p} : /\ pc'[q] = pc[q]
                                      /\ left'[q] = left[q]
                                      /\ moved'[q] = moved[q]
             /\ pc'[p] = "failing" /\ moved'[p] = t
  <2>1. ledger' = [ledger EXCEPT ![s] = "failed"]
    BY <1>1 DEF EmitTerminal
  <2>2. ASSUME NEW r \in spans
        PROVE  ledger'[r] \in Terminal \/ r \in open \ {s}
    BY <2>1, <2>2 DEF TypeOK, Terminal, Ended
  <2>3. pc'[p] = "failing" /\ left'[p] = open \ {s} /\ moved'[p] = t
    BY <1>1 DEF TypeOK
  <2>4. \A r \in Span : ledger'[r] = "open" => ledger[r] = "open"
    BY <2>1 DEF TypeOK
  <2>5. \A q \in Proc \ {p} : /\ pc'[q] = pc[q]
                              /\ left'[q] = left[q]
                              /\ moved'[q] = moved[q]
    BY <1>1 DEF TypeOK
  <2>6. ASSUME NEW r \in spans
        PROVE  ledger'[r] \in Terminal \/ (pc'[p] = "failing" /\ r \in left'[p])
    <3> HIDE DEF open
    <3>1. QED BY <2>2, <2>3
  <2>7. QED BY <2>3, <2>4, <2>5, <2>6
<1>2. CASE /\ open = {}
           /\ Announce(t, st)
           /\ pc' = [pc EXCEPT ![p] = "rest"]
           /\ left' = [left EXCEPT ![p] = {}]
           /\ moved' = [moved EXCEPT ![p] = NoTransition]
           /\ UNCHANGED <<ledger, results>>
  <2>1. \A s \in spans : ledger'[s] \in Terminal
    BY <1>2 DEF Ended
  <2>2. pc'[p] = "rest" /\ Announce(t, st)
    BY <1>2 DEF TypeOK
  <2>3. \A q \in Proc \ {p} : /\ pc'[q] = pc[q]
                              /\ left'[q] = left[q]
                              /\ moved'[q] = moved[q]
    BY <1>2 DEF TypeOK
  <2>4. \A s \in Span : ledger'[s] = "open" => ledger[s] = "open"
    BY <1>2
  <2>5. QED BY <2>1, <2>2, <2>3, <2>4
<1>3. QED BY <1>1, <1>2 DEF FailThenAnnounce

\* A step that keeps the safety state, the tasks and their lists, and opens
\* no span, keeps every in-flight span owned.
LEMMA OwnershipKept ==
  ASSUME LatchOwnsInFlight, UNCHANGED <<safety, pc, left>>,
         \A s \in Span : ledger'[s] = "open" => ledger[s] = "open"
  PROVE  LatchOwnsInFlight'
BY DEF LatchOwnsInFlight, FirstSession

\* Ending a span opens none.
LEMMA EmitOpensNothing ==
  ASSUME TypeOK, NEW r \in Span, NEW status \in Terminal, EmitTerminal(r, status)
  PROVE  \A s \in Span : ledger'[s] = "open" => ledger[s] = "open"
BY DEF TypeOK, EmitTerminal, Ended, Terminal

\* While the first session lasts, a latched body has every in-flight
\* actuation span on the list of a task about to fail it.
THEOREM LatchOwnsEverySpan == Spec => []LatchOwnsInFlight
<1>1. Init => LatchOwnsInFlight
  BY DEF Init, LatchOwnsInFlight
<1>2. TypeOK /\ LatchOwnsInFlight /\ [Next]_vars => LatchOwnsInFlight'
  <2> SUFFICES ASSUME TypeOK, LatchOwnsInFlight, [Next]_vars
               PROVE  LatchOwnsInFlight'
    OBVIOUS
  <2>a. "recv" \in Proc /\ "watch" \in Proc /\ Proc = {"recv", "watch"}
    BY DEF Proc
  <2>b. /\ InFlightActuation \in SUBSET Span
        /\ \A s \in Span : ledger[s] = "open" /\ CommandOf[s].capability = "drive0"
             => s \in InFlightActuation
    BY DEF InFlightActuation, Outstanding, Actuating
  <2>1. CASE RecvEstop
    <3>1. FailThenAnnounce("recv", InFlightActuation, Estop(safety), Estop(safety).state)
      BY <2>1 DEF RecvEstop
    <3>2. \A s \in InFlightActuation :
            ledger'[s] \in Terminal \/ (pc'["recv"] = "failing" /\ s \in left'["recv"])
      BY <2>a, <2>b, <3>1, FailThenAnnounceOwns
    <3>3. \A s \in Span : ledger'[s] = "open" => ledger[s] = "open"
      BY <2>a, <2>b, <3>1, FailThenAnnounceOwns
    <3>4. QED BY <2>a, <2>b, <3>2, <3>3 DEF LatchOwnsInFlight, Terminal
  <2>2. CASE WatchLatches
    <3> DEFINE t == EnterSafeHold(safety)
               spans == IF t.changed THEN InFlightActuation ELSE {}
    <3>1. FailThenAnnounce("watch", spans, t, t.state)
      BY <2>2 DEF WatchLatches
    <3>2. spans \in SUBSET Span
      BY <2>b
    <3> HIDE DEF t
    <3>3. /\ \A s \in spans :
               ledger'[s] \in Terminal \/ (pc'["watch"] = "failing" /\ s \in left'["watch"])
          /\ \A s \in Span : ledger'[s] = "open" => ledger[s] = "open"
          /\ pc'["recv"] = pc["recv"] /\ left'["recv"] = left["recv"]
      <4> HIDE DEF spans
      <4>1. QED BY <2>a, <3>1, <3>2, FailThenAnnounceOwns
    <3>4. CASE t.changed
      BY <2>a, <2>b, <3>3, <3>4 DEF LatchOwnsInFlight, Terminal
    <3>5. CASE ~t.changed
      <4>1. pc["watch"] = "rest" /\ ~MayActuate(safety)
        BY <2>2, <3>5 DEF WatchLatches, t, EnterSafeHold, Move, Refuse, MayActuate
      <4>2. QED
        BY <2>a, <3>3, <4>1 DEF LatchOwnsInFlight, FirstSession, MayActuate
    <3>6. QED BY <3>4, <3>5
  <2>3. ASSUME NEW p \in Proc, Resume(p) PROVE LatchOwnsInFlight'
    <3>1. FailThenAnnounce(p, left[p], moved[p], safety) /\ pc[p] = "failing"
      BY <2>3 DEF Resume
    <3>2. left[p] \in SUBSET Span
      BY DEF TypeOK
    <3>3. /\ \A s \in left[p] :
               ledger'[s] \in Terminal \/ (pc'[p] = "failing" /\ s \in left'[p])
          /\ \A s \in Span : ledger'[s] = "open" => ledger[s] = "open"
          /\ \A q \in Proc \ {p} : pc'[q] = pc[q] /\ left'[q] = left[q]
      BY <3>1, <3>2, FailThenAnnounceOwns
    <3>4. UNCHANGED safety
      BY <2>3 DEF Resume
    <3>5. FirstSession' => FirstSession
      BY <2>a, <3>1, <3>3 DEF FirstSession
    <3>6. QED BY <3>3, <3>4, <3>5 DEF LatchOwnsInFlight, Terminal
  <2>4. CASE RecvEstopClear
    BY <2>4 DEF RecvEstopClear, ClearEstop, Move, Refuse, LatchOwnsInFlight,
                FirstSession, MayActuate
  <2>5. ASSUME NEW s \in Span, RecvTooLate(s) PROVE LatchOwnsInFlight'
    BY <2>5, EmitOpensNothing, OwnershipKept DEF RecvTooLate, Terminal
  <2>6. ASSUME NEW s \in Span, RecvCommand(s) PROVE LatchOwnsInFlight'
    BY <2>6, OutcomeType, EmitOpensNothing, OwnershipKept DEF RecvCommand
  <2>7. ASSUME NEW s \in Span, RecvClearSafeHold(s) PROVE LatchOwnsInFlight'
    <3>1. safety' = ClearSafeHold(safety).state
      BY <2>7 DEF RecvClearSafeHold
    <3>2. CASE safety = "estopped"
      <4>1. PICK status \in {"rejected", "succeeded"} : EmitTerminal(s, status)
        BY <2>7, <3>2, Zenon DEF RecvClearSafeHold, ClearSafeHold, Refuse
      <4>2. UNCHANGED <<safety, pc, left>>
        BY <2>7, <3>2 DEF RecvClearSafeHold, ClearSafeHold, Refuse
      <4>3. QED BY <4>1, <4>2, EmitOpensNothing, OwnershipKept DEF Terminal
    <3>3. CASE safety # "estopped"
      BY <3>1, <3>3 DEF ClearSafeHold, Move, LatchOwnsInFlight, MayActuate
    <3>4. QED BY <3>2, <3>3
  <2>8. ASSUME NEW s \in Span, ClearFinishes(s) PROVE LatchOwnsInFlight'
    <3>1. \A r \in Span : ledger'[r] = "open" => ledger[r] = "open"
      BY <2>8, EmitOpensNothing DEF ClearFinishes, Terminal
    <3>2. /\ pc["recv"] = "clearing"
          /\ UNCHANGED safety
          /\ pc' = [pc EXCEPT !["recv"] = "rest"]
          /\ left' = [left EXCEPT !["recv"] = {}]
      BY <2>8 DEF ClearFinishes
    <3>3. QED BY <2>a, <3>1, <3>2 DEF LatchOwnsInFlight, FirstSession, TypeOK
  <2>9. CASE RecvEnds
    BY <2>a, <2>9 DEF RecvEnds, LatchOwnsInFlight, FirstSession, TypeOK
  <2>10. CASE RecvHeartbeat \/ RecvDuplicate \/ WatchRearms
    BY <2>10 DEF RecvHeartbeat, RecvDuplicate, WatchRearms, LatchOwnsInFlight, FirstSession
  <2>11. CASE \/ HeartbeatBeats \/ HeartbeatEnds \/ (\E f \in Frame : BrainSends(f))
              \/ LinkDies \/ Tick
    BY <2>11, OwnershipKept DEF HeartbeatBeats, HeartbeatEnds, BrainSends, LinkDies, Tick
  <2>12. CASE RunReturns \/ DrillCloses
    BY <2>a, <2>12 DEF RunReturns, DrillCloses, AllOver, LatchOwnsInFlight, FirstSession
  <2>13. CASE \E s \in Span : DrillHoldsSpan(s)
    BY <2>13 DEF DrillHoldsSpan, LatchOwnsInFlight, MayActuate
  <2>14. CASE DrillReconnects
    BY <2>a, <2>14 DEF DrillReconnects, LatchOwnsInFlight, FirstSession
  <2>15. CASE UNCHANGED vars
    BY <2>15 DEF vars, LatchOwnsInFlight, FirstSession
  <2>16. CASE ReceiveLoop
    BY <2>a, <2>1, <2>3, <2>4, <2>5, <2>6, <2>7, <2>8, <2>9, <2>10, <2>16 DEF ReceiveLoop
  <2>17. CASE Watchdog
    BY <2>a, <2>2, <2>3, <2>10, <2>17 DEF Watchdog
  <2>18. QED
    BY <2>11, <2>12, <2>13, <2>14, <2>15, <2>16, <2>17 DEF Next
<1>3. QED BY <1>1, <1>2, TypeCorrect, PTL DEF Spec

\* A transition that changes nothing leaves the state where it was.
LEMMA UnchangedTransition ==
  ASSUME NEW st \in State,
         NEW t \in {EnterSafeHold(st), Estop(st), ClearSafeHold(st), ClearEstop(st)},
         ~t.changed
  PROVE  t.state = st
<1>1. /\ Move(st, "ok").state = "ok" /\ Move(st, "ok").changed = (st # "ok")
      /\ Move(st, "safe_hold").state = "safe_hold"
      /\ Move(st, "safe_hold").changed = (st # "safe_hold")
      /\ Move(st, "estopped").state = "estopped"
      /\ Move(st, "estopped").changed = (st # "estopped")
      /\ Refuse(st).state = st
  BY DEF Move, Refuse
<1>2. t \in {Move(st, "ok"), Move(st, "safe_hold"), Move(st, "estopped"), Refuse(st)}
  BY DEF EnterSafeHold, Estop, ClearSafeHold, ClearEstop
<1>3. CASE t = Move(st, "ok")
  BY <1>1, <1>3
<1>4. CASE t = Move(st, "safe_hold")
  BY <1>1, <1>4
<1>5. CASE t = Move(st, "estopped")
  BY <1>1, <1>5
<1>6. CASE t = Refuse(st)
  BY <1>1, <1>6
<1>7. QED BY <1>2, <1>3, <1>4, <1>5, <1>6

\* Announcing settles both copies, unless nothing changed and they were
\* settled or owed already.
LEMMA AnnounceSettles ==
  ASSUME NEW t, NEW st, Announce(t, st), UNCHANGED link
  PROVE  /\ clientState' = st
         /\ t.changed => (link' = "up" => told' = st)
         /\ ~t.changed => UNCHANGED told
BY DEF Announce

\* A step that leaves the state, its copies, the link and the owing alone.
LEMMA OwingKept ==
  ASSUME ReportsOwed, UNCHANGED <<safety, clientState, told, link, pc, moved>>
  PROVE  ReportsOwed'
BY DEF ReportsOwed, FirstSession

\* A latch of task p, from rest, that moves the state by t.
LEMMA LatchOwes ==
  ASSUME TypeOK, ReportsOwed, NEW p \in Proc, NEW spans \in SUBSET Span,
         NEW t \in Transition, pc[p] = "rest",
         FailThenAnnounce(p, spans, t, t.state), safety' = t.state,
         ~t.changed => UNCHANGED safety, UNCHANGED link
  PROVE  ReportsOwed'
<1>1. /\ \A q \in Proc \ {p} : pc'[q] = pc[q] /\ moved'[q] = moved[q]
      /\ \/ /\ pc'[p] = "failing"
            /\ moved'[p] = t
            /\ UNCHANGED <<clientState, told>>
         \/ pc'[p] = "rest" /\ Announce(t, t.state)
  BY FailThenAnnounceOwns
<1>2. FirstSession' => FirstSession
  BY <1>1 DEF FirstSession, Proc
<1>3. CASE t.changed
  BY <1>1, <1>3, AnnounceSettles DEF ReportsOwed
<1>4. CASE ~t.changed
  <2>1. CASE \E q \in Proc : pc[q] = "failing" /\ moved[q].changed
    <3>1. PICK q \in Proc : pc[q] = "failing" /\ moved[q].changed
      BY <2>1
    <3>2. pc'[q] = "failing" /\ moved'[q].changed
      BY <1>1, <3>1
    <3>3. QED BY <3>2 DEF ReportsOwed
  <2>2. CASE ~ \E q \in Proc : pc[q] = "failing" /\ moved[q].changed
    <3>1. FirstSession' => clientState = safety /\ (link = "up" => told = safety)
      BY <1>2, <2>2 DEF ReportsOwed
    <3>2. clientState' \in {clientState, t.state} /\ UNCHANGED told
      BY <1>1, <1>4, AnnounceSettles
    <3>3. QED BY <1>4, <3>1, <3>2 DEF ReportsOwed
  <2>3. QED BY <2>1, <2>2
<1>5. QED BY <1>3, <1>4

\* The same for a transition announced at once, by a task not in a latch.
LEMMA AnnounceOwes ==
  ASSUME TypeOK, ReportsOwed, NEW t, Announce(t, t.state), safety' = t.state,
         ~t.changed => UNCHANGED safety, UNCHANGED <<link, moved>>,
         \A p \in Proc : pc[p] = "failing" => pc'[p] = "failing",
         FirstSession' => FirstSession
  PROVE  ReportsOwed'
<1>1. CASE t.changed
  BY <1>1, AnnounceSettles DEF ReportsOwed
<1>2. CASE ~t.changed
  BY <1>2, AnnounceSettles DEF ReportsOwed
<1>3. QED BY <1>1, <1>2

\* Whatever the body last reported is its state, or a task is about to put
\* that right.
THEOREM ReportsAreOwed == Spec => []ReportsOwed
<1>1. Init => ReportsOwed
  BY DEF Init, ReportsOwed
<1>2. TypeOK /\ ReportsOwed /\ [Next]_vars => ReportsOwed'
  <2> SUFFICES ASSUME TypeOK, ReportsOwed, [Next]_vars
               PROVE  ReportsOwed'
    OBVIOUS
  <2>a. "recv" \in Proc /\ "watch" \in Proc /\ Proc = {"recv", "watch"}
    BY DEF Proc
  <2>b. InFlightActuation \in SUBSET Span /\ {} \in SUBSET Span
    BY DEF InFlightActuation, Outstanding
  <2>c. safety \in State
    BY DEF TypeOK
  <2>1. CASE RecvEstop
    <3> DEFINE t == Estop(safety)
    <3>1. /\ FailThenAnnounce("recv", InFlightActuation, t, t.state)
          /\ pc["recv"] = "rest" /\ safety' = t.state /\ UNCHANGED link
      BY <2>1 DEF RecvEstop, NextFrame
    <3>2. t \in Transition /\ (~t.changed => t.state = safety)
      BY <2>c, SafetyTransitions, UnchangedTransition
    <3> HIDE DEF t
    <3>3. QED BY <2>a, <2>b, <3>1, <3>2, LatchOwes
  <2>2. CASE WatchLatches
    <3> DEFINE t == EnterSafeHold(safety)
               spans == IF t.changed THEN InFlightActuation ELSE {}
    <3>1. /\ FailThenAnnounce("watch", spans, t, t.state)
          /\ pc["watch"] = "rest" /\ safety' = t.state /\ UNCHANGED link
      BY <2>2 DEF WatchLatches
    <3>2. t \in Transition /\ (~t.changed => t.state = safety)
      BY <2>c, SafetyTransitions, UnchangedTransition
    <3>3. spans \in SUBSET Span
      BY <2>b
    <3> HIDE DEF t, spans
    <3>4. QED BY <2>a, <3>1, <3>2, <3>3, LatchOwes
  <2>3. ASSUME NEW p \in Proc, Resume(p) PROVE ReportsOwed'
    <3>1. /\ FailThenAnnounce(p, left[p], moved[p], safety)
          /\ pc[p] = "failing" /\ UNCHANGED <<safety, link>>
      BY <2>3 DEF Resume
    <3>2. left[p] \in SUBSET Span
      BY DEF TypeOK
    <3>3. /\ \A q \in Proc \ {p} : pc'[q] = pc[q] /\ moved'[q] = moved[q]
          /\ \/ /\ pc'[p] = "failing"
                /\ moved'[p] = moved[p]
                /\ UNCHANGED <<clientState, told>>
             \/ pc'[p] = "rest" /\ Announce(moved[p], safety)
      BY <3>1, <3>2, FailThenAnnounceOwns
    <3>4. FirstSession' => FirstSession
      BY <2>a, <3>1, <3>3 DEF FirstSession
    <3>5. CASE pc'[p] = "failing" /\ moved'[p] = moved[p] /\ UNCHANGED <<clientState, told>>
      BY <3>1, <3>3, <3>4, <3>5 DEF ReportsOwed
    <3>6. CASE Announce(moved[p], safety)
      BY <3>1, <3>3, <3>4, <3>6, AnnounceSettles DEF ReportsOwed
    <3>7. QED BY <3>3, <3>5, <3>6
  <2>4. CASE RecvEstopClear
    <3>1. /\ Announce(ClearEstop(safety), ClearEstop(safety).state)
          /\ safety' = ClearEstop(safety).state /\ UNCHANGED <<link, moved, pc>>
      BY <2>4 DEF RecvEstopClear
    <3>2. ~ClearEstop(safety).changed => ClearEstop(safety).state = safety
      BY <2>c, UnchangedTransition
    <3>3. QED BY <3>1, <3>2, AnnounceOwes DEF FirstSession
  <2>5. ASSUME NEW s \in Span, RecvClearSafeHold(s) PROVE ReportsOwed'
    <3> DEFINE t == ClearSafeHold(safety)
    <3>1. /\ Announce(t, t.state)
          /\ safety' = t.state /\ UNCHANGED <<link, moved>>
          /\ pc["recv"] = "rest"
          /\ pc' = [pc EXCEPT !["recv"] = "clearing"] \/ UNCHANGED pc
      BY <2>5 DEF RecvClearSafeHold, NextFrame
    <3>2. ~t.changed => t.state = safety
      BY <2>c, UnchangedTransition
    <3> HIDE DEF t
    <3>3. /\ \A p \in Proc : pc[p] = "failing" => pc'[p] = "failing"
          /\ FirstSession' => FirstSession
      BY <2>a, <3>1 DEF FirstSession, TypeOK
    <3>4. QED BY <3>1, <3>2, <3>3, AnnounceOwes
  <2>6. ASSUME NEW s \in Span, ClearFinishes(s) PROVE ReportsOwed'
    <3>1. /\ pc["recv"] = "clearing"
          /\ pc' = [pc EXCEPT !["recv"] = "rest"]
          /\ UNCHANGED <<safety, clientState, told, link, moved>>
      BY <2>6 DEF ClearFinishes
    <3>2. QED BY <2>a, <3>1 DEF ReportsOwed, FirstSession, TypeOK
  <2>7. CASE RecvEnds
    <3>1. /\ pc["recv"] = "rest"
          /\ pc' = [pc EXCEPT !["recv"] = "over"]
          /\ UNCHANGED <<safety, clientState, told, link, moved>>
      BY <2>7 DEF RecvEnds
    <3>2. QED BY <2>a, <3>1 DEF ReportsOwed, FirstSession, TypeOK
  <2>8. CASE \E s \in Span : RecvTooLate(s) \/ RecvCommand(s)
    BY <2>8, OwingKept DEF RecvTooLate, RecvCommand
  <2>9. CASE RecvHeartbeat \/ RecvDuplicate \/ WatchRearms
    BY <2>9, OwingKept DEF RecvHeartbeat, RecvDuplicate, WatchRearms
  <2>10. CASE HeartbeatBeats
    BY <2>10 DEF HeartbeatBeats, ReportsOwed, FirstSession
  <2>11. CASE LinkDies
    BY <2>11 DEF LinkDies, ReportsOwed, FirstSession
  <2>12. CASE HeartbeatEnds \/ (\E f \in Frame : BrainSends(f)) \/ Tick
    BY <2>12, OwingKept DEF HeartbeatEnds, BrainSends, Tick
  <2>13. CASE RunReturns \/ DrillCloses
    BY <2>a, <2>13 DEF RunReturns, DrillCloses, AllOver, ReportsOwed, FirstSession
  <2>14. CASE \E s \in Span : DrillHoldsSpan(s)
    BY <2>14, OwingKept DEF DrillHoldsSpan
  <2>15. CASE DrillReconnects
    BY <2>a, <2>15 DEF DrillReconnects, ReportsOwed, FirstSession
  <2>16. CASE UNCHANGED vars
    BY <2>16, OwingKept DEF vars
  <2>17. CASE ReceiveLoop
    BY <2>a, <2>1, <2>3, <2>4, <2>5, <2>6, <2>7, <2>8, <2>9, <2>17 DEF ReceiveLoop
  <2>18. CASE Watchdog
    BY <2>a, <2>2, <2>3, <2>9, <2>18 DEF Watchdog
  <2>19. QED
    BY <2>10, <2>11, <2>12, <2>13, <2>14, <2>15, <2>16, <2>17, <2>18 DEF Next
<1>3. QED BY <1>1, <1>2, TypeCorrect, PTL DEF Spec

\* With no latch half done, what was last reported is the state.
THEOREM ReportsAlwaysSettle == Spec => []ReportsSettle
<1>1. ReportsOwed => ReportsSettle
  BY DEF ReportsOwed, ReportsSettle
<1>2. QED BY <1>1, ReportsAreOwed, PTL

-----------------------------------------------------------------------------
(* The body implements the permission ladder.                              *)

\* The authorisations spent are spans, are never handed back, and grow when
\* a new span is opened or closed.
LEMMA SpentGrows ==
  ASSUME TypeOK, LedgerStep
  PROVE  Spent' \in SUBSET Span /\ Spent \subseteq Spent'
BY DEF TypeOK, LedgerStep, EmitTerminal, Terminal, Spent

\* Taking a new span spends it.
LEMMA NewSpanIsSpent ==
  ASSUME TypeOK, NEW s \in Span, IsNew(s),
         \/ ledger' = [ledger EXCEPT ![s] = "open"]
         \/ \E status \in Terminal : EmitTerminal(s, status)
  PROVE  Spent' # Spent
<1>1. ledger'[s] # "unseen"
  BY DEF TypeOK, IsNew, EmitTerminal, Ended, Terminal
<1>2. s \in Spent' /\ s \notin Spent
  BY <1>1 DEF Spent, IsNew
<1>3. QED BY <1>2

\* Every step of the body is a step of the ladder, or leaves it alone: no
\* interleaving, retransmission, cancellation or reconnection takes the body
\* up a rung without a span of its own, or up two at once.
THEOREM ImplementsLadder == Spec => ClimbsByAuthorisation
<1> USE DEF Ladder!LadderNext, Ladder!ladderVars
<1>1. Init => Ladder!LadderInit
  BY DEF Init, Ladder!LadderInit, Rung, Spent
<1>2. TypeOK /\ MotionPermissioned /\ [Next]_vars => [Ladder!LadderNext]_Ladder!ladderVars
  <2> SUFFICES ASSUME TypeOK, MotionPermissioned, [Next]_vars
               PROVE  Ladder!LadderNext
    OBVIOUS
  <2>1. Spent' \in SUBSET Span /\ Spent \subseteq Spent'
    BY LedgerSteps, SpentGrows
  <2>2. Rung \in 0 .. 3 /\ Rung' \in Nat
    BY DEF Rung
  <2>3. Rung' <= Rung => Ladder!ComeDown
    BY <2>2 DEF Ladder!ComeDown
  <2>4. CASE UNCHANGED <<safety, velocity>>
    BY <2>1, <2>2, <2>3, <2>4 DEF Rung
  <2>5. CASE /\ velocity' = 0
             /\ safety' = "estopped" \/ safety' = EnterSafeHold(safety).state
    BY <2>1, <2>3, <2>5 DEF Rung, EnterSafeHold, Move, Refuse, TypeOK, State
  <2>6. CASE RecvEstopClear
    <3>1. UNCHANGED velocity /\ safety' = ClearEstop(safety).state
      BY <2>6 DEF RecvEstopClear
    <3>2. CASE safety = "estopped"
      BY <2>1, <3>1, <3>2 DEF Rung, ClearEstop, Move, Ladder!ReleaseEstop
    <3>3. CASE safety # "estopped"
      BY <2>1, <2>2, <2>3, <3>1, <3>3 DEF Rung, ClearEstop, Refuse
    <3>4. QED BY <3>2, <3>3
  <2>7. ASSUME NEW s \in Span, RecvCommand(s) PROVE Ladder!LadderNext
    <3>1. Spent' # Spent
      BY <2>7, OutcomeType, NewSpanIsSpent DEF RecvCommand
    <3>2. UNCHANGED safety /\ (velocity' \in {0, velocity} \/ safety = "ok")
      BY <2>7, CommandMotion
    <3>3. Rung' <= Rung \/ (Rung = 2 /\ Rung' = 3)
      BY <3>2 DEF Rung, TypeOK, State
    <3>4. QED BY <2>1, <2>2, <2>3, <3>1, <3>3 DEF Ladder!GoUp
  <2>8. ASSUME NEW s \in Span, RecvClearSafeHold(s) PROVE Ladder!LadderNext
    <3>1. UNCHANGED velocity /\ safety' = ClearSafeHold(safety).state /\ IsNew(s)
      BY <2>8 DEF RecvClearSafeHold
    <3>2. CASE safety = "safe_hold"
      <4>1. velocity = 0
        BY <3>2 DEF MotionPermissioned
      <4>2. Rung = 1 /\ Rung' = 2
        BY <3>1, <3>2, <4>1 DEF Rung, ClearSafeHold, Move
      <4>3. ledger' = [ledger EXCEPT ![s] = "open"]
        BY <2>8, <3>2 DEF RecvClearSafeHold, ClearSafeHold, Move
      <4>4. Spent' # Spent
        BY <3>1, <4>3, NewSpanIsSpent
      <4>5. QED BY <2>1, <4>2, <4>4 DEF Ladder!GoUp
    <3>3. CASE safety # "safe_hold"
      <4>1. UNCHANGED safety
        BY <3>1, <3>3 DEF ClearSafeHold, Move, Refuse, TypeOK, State
      <4>2. QED BY <2>1, <2>2, <2>3, <3>1, <4>1 DEF Rung
    <3>4. QED BY <3>2, <3>3
  <2>9. QED BY <2>4, <2>5, <2>6, <2>7, <2>8, MotionSteps
<1>3. QED
  BY <1>1, <1>2, TypeCorrect, MotionIsPermissioned, PTL
     DEF Spec, ClimbsByAuthorisation, Ladder!LadderSpec

-----------------------------------------------------------------------------
(* The receive loop, an estop in line, and the spans that are open.        *)

\* The receive loop listens as long as the socket lives, and is never in the
\* middle of a clear without the clear's span to end.
LoopListens ==
  /\ link = "up" => pc["recv"] # "over"
  /\ pc["recv"] = "clearing" => \E s \in Span : left["recv"] = {s}

\* What a step may do to where the receive loop is.
LoopStep ==
  \/ pc'["recv"] = pc["recv"] /\ left'["recv"] = left["recv"]
  \/ pc["recv"] \in {"rest", "failing"} /\ pc'["recv"] \in {"rest", "failing"}
  \/ \E s \in Span : RecvClearSafeHold(s) /\ pc'["recv"] = "clearing"
                       /\ left'["recv"] = {s}
  \/ \E s \in Span : ClearFinishes(s) /\ pc'["recv"] = "rest"
  \/ RecvEnds \/ DrillCloses
  \/ RunReturns
  \/ DrillReconnects /\ pc'["recv"] = "rest"

\* What each step does to where the receive loop is.
LEMMA LoopSteps ==
  ASSUME TypeOK, [Next]_vars
  PROVE  LoopStep
<1>a. "recv" \in Proc /\ "watch" \in Proc /\ "recv" # "watch"
  BY DEF Proc
<1>1. ASSUME NEW spans, NEW t, NEW st, FailThenAnnounce("recv", spans, t, st),
             pc["recv"] \in {"rest", "failing"}
      PROVE  LoopStep
  BY <1>a, <1>1 DEF FailThenAnnounce, TypeOK, LoopStep
<1>2. ASSUME NEW spans, NEW t, NEW st, FailThenAnnounce("watch", spans, t, st)
      PROVE  LoopStep
  BY <1>a, <1>2 DEF FailThenAnnounce, TypeOK, LoopStep
<1>3. CASE RecvEstop
  BY <1>1, <1>3 DEF RecvEstop, NextFrame
<1>4. CASE Resume("recv") \/ Resume("watch")
  BY <1>1, <1>2, <1>4 DEF Resume
<1>5. CASE WatchLatches
  BY <1>2, <1>5 DEF WatchLatches
<1>6. ASSUME NEW s \in Span, RecvClearSafeHold(s) PROVE LoopStep
  BY <1>a, <1>6 DEF RecvClearSafeHold, TypeOK, LoopStep
<1>7. ASSUME NEW s \in Span, ClearFinishes(s) PROVE LoopStep
  BY <1>a, <1>7 DEF ClearFinishes, TypeOK, LoopStep
<1>8. CASE RecvEnds
  BY <1>8 DEF LoopStep
<1>9. CASE \/ RecvHeartbeat \/ RecvEstopClear \/ RecvDuplicate \/ WatchRearms
           \/ HeartbeatBeats \/ HeartbeatEnds \/ (\E f \in Frame : BrainSends(f))
           \/ LinkDies \/ Tick \/ UNCHANGED vars
           \/ \E s \in Span : RecvTooLate(s) \/ RecvCommand(s) \/ DrillHoldsSpan(s)
  BY <1>9 DEF RecvHeartbeat, RecvEstopClear, RecvDuplicate, WatchRearms, HeartbeatBeats,
       HeartbeatEnds, BrainSends, LinkDies, Tick, vars, RecvTooLate, RecvCommand,
       DrillHoldsSpan, LoopStep
<1>10. CASE RunReturns \/ DrillCloses
  BY <1>10 DEF LoopStep
<1>11. CASE DrillReconnects
  BY <1>a, <1>11 DEF DrillReconnects, TypeOK, LoopStep
<1>12. CASE ReceiveLoop
  BY <1>3, <1>4, <1>6, <1>7, <1>8, <1>9, <1>12 DEF ReceiveLoop
<1>13. CASE Watchdog
  BY <1>4, <1>5, <1>9, <1>13 DEF Watchdog
<1>14. QED
  BY <1>9, <1>10, <1>11, <1>12, <1>13 DEF Next

\* While the receive loop is over its socket comes back only with a new loop.
LEMMA DeadStaysDead ==
  ASSUME TypeOK, [Next]_vars, link' = "up", ~DrillReconnects
  PROVE  link = "up"
<1>1. ReceiveLoop \/ Watchdog => UNCHANGED link
  BY DEF ReceiveLoop, RecvHeartbeat, RecvEstop, RecvEstopClear, RecvDuplicate,
         RecvTooLate, RecvCommand, RecvClearSafeHold, ClearFinishes, RecvEnds, Watchdog,
         WatchLatches, WatchRearms, Resume
<1>2. QED
  BY <1>1 DEF Next, HeartbeatBeats, HeartbeatEnds, BrainSends, LinkDies, Tick, RunReturns,
              DrillHoldsSpan, DrillCloses, vars

\* The loop is never wedged: over a living socket it runs, and wherever it is
\* suspended it has its next step.
THEOREM LoopIsNeverWedged == Spec => []LoopListens
<1>1. Init => LoopListens
  BY DEF Init, LoopListens, Proc
<1>2. TypeOK /\ LoopListens /\ [Next]_vars => LoopListens'
  <2> SUFFICES ASSUME TypeOK, LoopListens, [Next]_vars PROVE LoopListens'
    OBVIOUS
  <2>1. link' = "up" => link = "up" \/ DrillReconnects
    BY DeadStaysDead
  <2>2. DrillReconnects => pc'["recv"] = "rest"
    BY DEF DrillReconnects, TypeOK, Proc
  <2>3. ASSUME RecvEnds \/ DrillCloses \/ RunReturns PROVE LoopListens'
    <3>1. /\ pc'["recv"] = "over"
          /\ link' = "down" \/ (pc["recv"] = "over" /\ UNCHANGED link)
      <4>a. "recv" \in Proc /\ DOMAIN pc = Proc
        BY DEF Proc, TypeOK
      <4>1. CASE RecvEnds
        BY <4>a, <4>1 DEF RecvEnds
      <4>2. CASE DrillCloses
        <5>1. pc' = [p \in Proc |-> "over"] /\ link' = "down"
          BY <4>2 DEF DrillCloses, AllOver
        <5>2. pc'["recv"] = "over"
          BY <4>a, <5>1
        <5>3. QED BY <5>1, <5>2
      <4>3. CASE RunReturns
        BY <4>a, <4>3 DEF RunReturns, AllOver
      <4>4. QED BY <2>3, <4>1, <4>2, <4>3
    <3>2. QED BY <3>1 DEF LoopListens
  <2>4. QED BY <2>1, <2>2, <2>3, LoopSteps DEF LoopListens, LoopStep
<1>3. QED BY <1>1, <1>2, TypeCorrect, PTL DEF Spec

\* An estop that reached the socket.
EstopQueued == \E i \in DOMAIN inbox : inbox[i].type = "estop"

\* It stays in line, whatever is ahead of it and however the other tasks run,
\* until it is acted on; only the death of the socket can lose it.
EstopKept ==
  [][EstopQueued => EstopQueued' \/ safety' = "estopped" \/ link' = "down"]_vars

\* A frame that is taken is the oldest, and the others stay in line.
LEMMA OthersStay ==
  ASSUME TypeOK, EstopQueued, NEW type, NextFrame(type), type # "estop"
  PROVE  EstopQueued'
<1> DEFINE rest == Tail(inbox)
<1>1. inbox \in Seq(Frame) /\ inbox # <<>> /\ inbox' = rest /\ Head(inbox).type = type
  BY DEF NextFrame, TypeOK
<1>2. PICK i \in DOMAIN inbox : inbox[i].type = "estop"
  BY DEF EstopQueued
<1>3. /\ i \in 1 .. Len(inbox) /\ Len(inbox) \in Nat
      /\ DOMAIN rest = 1 .. Len(inbox) - 1
      /\ \A j \in 1 .. Len(inbox) - 1 : rest[j] = inbox[j + 1]
      /\ Head(inbox) = inbox[1]
  BY <1>1
<1>4. i # 1
  BY <1>1, <1>2, <1>3
<1> HIDE DEF rest
<1>5. i - 1 \in DOMAIN rest /\ rest[i - 1].type = "estop"
  BY <1>2, <1>3, <1>4
<1>6. QED BY <1>1, <1>5 DEF EstopQueued

\* A frame that arrives goes to the end of the line.
LEMMA FrameArrives ==
  ASSUME TypeOK, EstopQueued, NEW f, BrainSends(f)
  PROVE  EstopQueued'
<1>1. \A i \in DOMAIN inbox : i \in DOMAIN inbox' /\ inbox'[i] = inbox[i]
  BY DEF TypeOK, BrainSends
<1>2. QED BY <1>1 DEF EstopQueued

\* Each step keeps the estop or acts on it.
LEMMA EstopStep ==
  ASSUME TypeOK, EstopQueued, [Next]_vars
  PROVE  EstopQueued' \/ safety' = "estopped" \/ link' = "down"
<1>1. CASE RecvEstop
  BY <1>1 DEF RecvEstop, Estop, Move
<1>2. ASSUME NEW type, NextFrame(type), type # "estop" PROVE EstopQueued'
  BY <1>2, OthersStay
<1>3. CASE RecvHeartbeat \/ RecvEstopClear \/ RecvDuplicate
  BY <1>2, <1>3 DEF RecvHeartbeat, RecvEstopClear, RecvDuplicate
<1>4. ASSUME NEW s \in Span, RecvTooLate(s) \/ RecvCommand(s) \/ RecvClearSafeHold(s)
      PROVE  EstopQueued'
  <2>1. NextFrame("command")
    BY <1>4 DEF RecvTooLate, RecvCommand, RecvClearSafeHold
  <2>2. QED BY <1>2, <2>1
<1>5. CASE \/ (\E s \in Span : ClearFinishes(s) \/ DrillHoldsSpan(s)) \/ RecvEnds
           \/ (\E p \in Proc : Resume(p)) \/ WatchLatches \/ WatchRearms
           \/ HeartbeatBeats \/ HeartbeatEnds \/ Tick \/ RunReturns \/ DrillReconnects
           \/ UNCHANGED vars
  <2>1. UNCHANGED inbox
    BY <1>5 DEF ClearFinishes, DrillHoldsSpan, RecvEnds, Resume, WatchLatches,
         WatchRearms, HeartbeatBeats, HeartbeatEnds, Tick, RunReturns, DrillReconnects,
         vars
  <2>2. QED BY <2>1 DEF EstopQueued
<1>6. CASE \E f \in Frame : BrainSends(f)
  BY <1>6, FrameArrives
<1>7. CASE LinkDies \/ DrillCloses
  BY <1>7 DEF LinkDies, DrillCloses
<1>8. "recv" \in Proc /\ "watch" \in Proc
  BY DEF Proc
<1>9. QED BY <1>1, <1>3, <1>4, <1>5, <1>6, <1>7, <1>8 DEF Next, ReceiveLoop, Watchdog

\* An estop that reached the socket is never dropped.
THEOREM EstopIsKept == Spec => EstopKept
<1>1. TypeOK /\ [Next]_vars =>
        (EstopQueued => EstopQueued' \/ safety' = "estopped" \/ link' = "down")
  BY EstopStep
<1>2. QED BY <1>1, TypeCorrect, PTL DEF Spec, EstopKept

\* In MockBody.run the only span ever open is that of a clear whose state is
\* being announced, and the receive loop has it in hand: every command is
\* answered before the next frame is looked at, and a latch, whenever it
\* comes, finds no actuation to fail.
OpenSpansHeld ==
  Harness = "run" =>
    \A s \in Span : ledger[s] = "open" =>
      pc["recv"] = "clearing" /\ left["recv"] = {s}

\* A span a step leaves open has the clear that began it.
LEMMA HeldStep ==
  ASSUME TypeOK, OpenSpansHeld, Harness = "run", [Next]_vars
  PROVE  OpenSpansHeld'
<1>1. ASSUME NEW s \in Span, ledger'[s] = "open", ledger[s] # "open"
      PROVE  RecvClearSafeHold(s)
  <2>1. ASSUME NEW r \in Span, NEW status \in Terminal PROVE ~EmitTerminal(r, status)
    BY <1>1, <2>1, EmitOpensNothing
  <2>2. ~UNCHANGED ledger
    BY <1>1
  <2>3. ASSUME NEW p \in Proc, NEW some \in SUBSET Span, NEW t, NEW st,
               FailThenAnnounce(p, some, t, st)
        PROVE  FALSE
    BY <1>1, <2>3, FailThenAnnounceOwns
  <2>4. "recv" \in Proc /\ "watch" \in Proc /\ InFlightActuation \in SUBSET Span
        /\ {} \in SUBSET Span
    BY DEF Proc, InFlightActuation, Outstanding
  <2>5. ~RecvEstop
    BY <2>3, <2>4 DEF RecvEstop
  <2>6. ~WatchLatches
    <3>1. ASSUME WatchLatches PROVE FALSE
      <4> DEFINE t == EnterSafeHold(safety)
                 some == IF t.changed THEN InFlightActuation ELSE {}
      <4>1. FailThenAnnounce("watch", some, t, t.state)
        BY <3>1 DEF WatchLatches
      <4>2. some \in SUBSET Span
        BY <2>4
      <4> HIDE DEF t, some
      <4>3. QED BY <2>3, <2>4, <4>1, <4>2
    <3>2. QED BY <3>1
  <2>7. ~Resume("recv") /\ ~Resume("watch")
    <3>1. left["recv"] \in SUBSET Span /\ left["watch"] \in SUBSET Span
      BY <2>4 DEF TypeOK
    <3>2. QED BY <2>3, <2>4, <3>1 DEF Resume
  <2>8. ASSUME NEW r \in Span PROVE ~(RecvTooLate(r) \/ RecvCommand(r) \/ ClearFinishes(r))
    BY <2>1, OutcomeType DEF RecvTooLate, RecvCommand, ClearFinishes, Terminal
  <2>9. ASSUME NEW r \in Span, RecvClearSafeHold(r) PROVE r = s
    <3>1. CASE ClearSafeHold(safety).changed
      BY <1>1, <2>9, <3>1 DEF RecvClearSafeHold, TypeOK
    <3>2. CASE ~ClearSafeHold(safety).changed
      <4>1. \E status \in {"rejected", "succeeded"} : EmitTerminal(r, status)
        BY <2>9, <3>2, Zenon DEF RecvClearSafeHold
      <4>2. QED BY <2>1, <4>1 DEF Terminal
    <3>3. QED BY <3>1, <3>2
  <2>10. ReceiveLoop => RecvClearSafeHold(s)
    BY <2>2, <2>5, <2>7, <2>8, <2>9
       DEF ReceiveLoop, RecvHeartbeat, RecvEstopClear, RecvDuplicate, RecvEnds
  <2>11. ~Watchdog
    BY <2>2, <2>6, <2>7 DEF Watchdog, WatchRearms
  <2>12. QED
    BY <2>2, <2>10, <2>11 DEF Next, HeartbeatBeats, HeartbeatEnds, BrainSends, LinkDies,
       Tick, RunReturns, DrillHoldsSpan, DrillCloses, DrillReconnects, vars
<1>2. ASSUME NEW s \in Span, RecvClearSafeHold(s), ledger'[s] = "open"
      PROVE  pc'["recv"] = "clearing" /\ left'["recv"] = {s}
  <2>1. ClearSafeHold(safety).changed
    <3>1. ASSUME ~ClearSafeHold(safety).changed PROVE FALSE
      <4>1. PICK status \in {"rejected", "succeeded"} : EmitTerminal(s, status)
        BY <1>2, <3>1, Zenon DEF RecvClearSafeHold
      <4>2. ledger[s] = "open"
        BY <1>2, <4>1, EmitOpensNothing DEF Terminal
      <4>3. QED BY <1>2, <4>2 DEF RecvClearSafeHold, IsNew
    <3>2. QED BY <3>1
  <2>2. QED BY <1>2, <2>1 DEF RecvClearSafeHold, TypeOK, Proc
<1>3. ASSUME NEW s \in Span, ledger[s] = "open", ledger'[s] = "open"
      PROVE  pc'["recv"] = "clearing" /\ left'["recv"] = {s}
  <2>1. pc["recv"] = "clearing" /\ left["recv"] = {s}
    BY <1>3 DEF OpenSpansHeld
  <2>2. ASSUME NEW r \in Span, ClearFinishes(r) PROVE FALSE
    <3>1. r = s /\ EmitTerminal(s, "succeeded")
      BY <2>1, <2>2 DEF ClearFinishes
    <3>2. ledger'[s] = "succeeded"
      BY <1>3, <3>1 DEF EmitTerminal, Ended, Terminal, TypeOK
    <3>3. QED BY <1>3, <3>2
  <2>3. /\ ~RecvEnds /\ ~RunReturns /\ ~DrillCloses /\ ~DrillReconnects
        /\ ~\E r \in Span : RecvClearSafeHold(r)
    BY <2>1 DEF RecvEnds, RunReturns, DrillCloses, DrillReconnects, RecvClearSafeHold,
                NextFrame
  <2>4. QED BY <2>1, <2>2, <2>3, LoopSteps DEF LoopStep
<1>4. QED BY <1>1, <1>2, <1>3 DEF OpenSpansHeld

\* No span of MockBody.run is open but a clear in the receive loop's hand.
THEOREM OpenSpansAreHeld == Spec => []OpenSpansHeld
<1>1. Init => OpenSpansHeld
  BY DEF Init, OpenSpansHeld
<1>2. TypeOK /\ OpenSpansHeld /\ [Next]_vars => OpenSpansHeld'
  BY HeldStep DEF OpenSpansHeld
<1>3. QED BY <1>1, <1>2, TypeCorrect, PTL DEF Spec

=============================================================================
