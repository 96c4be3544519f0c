------------------------------ MODULE MockBody ------------------------------
(***************************************************************************)
(* The mock body: a drive, a latched safety state, a ledger of commands,   *)
(* and the asyncio tasks that share them (src/src/bodies: mock.py,         *)
(* dispatch.py, commands.py, client.py).                                   *)
(*                                                                         *)
(* asyncio runs one task at a time and switches only at an await, so an    *)
(* action here is everything a task does from one suspension to the next.  *)
(* The suspensions that matter are the awaited sends: a frame is handed to *)
(* the socket in the step that builds it, and the rest of the handler runs *)
(* in a later step, other tasks having run in between.  Two tasks have     *)
(* something left to do after a send: the receive loop ("recv") and the    *)
(* lease watchdog ("watch").                                               *)
(*                                                                         *)
(* Two harnesses drive a body.  "run" is MockBody.run: the watchdog is     *)
(* cancelled when the loops end.  "drill" is scripts/gate3_drill.py: the   *)
(* watchdog is a task of its own, a span can be left in flight, and the    *)
(* client can be closed and connected again under the same body.           *)
(***************************************************************************)
EXTENDS SafetyState, Integers, Sequences

CONSTANTS
  Span,        \* span ids the brain uses
  CommandOf,   \* the command each span id carries
  MaxVelocity, \* MAX_LINEAR_MPS and MAX_ANGULAR_RPS, as one bound
  Lease,       \* lease_ms, in clock ticks
  MaxInbox,    \* bound: frames received or in flight and not yet handled
  Harness      \* "run" or "drill"

Command == [capability : {"sys", "drive0", "range0", "elsewhere"},
            action : {"ping", "clear_safe_hold", "set_velocity", "stop", "read"},
            velocity : Nat, wellformed : BOOLEAN, expects_result : BOOLEAN]

ASSUME LeaseAssumption == Lease \in Nat \ {0}
ASSUME VelocityAssumption == MaxVelocity \in Nat
ASSUME InboxAssumption == MaxInbox \in Nat
ASSUME HarnessAssumption == Harness \in {"run", "drill"}
ASSUME CommandAssumption == CommandOf \in [Span -> Command]

VARIABLES
  safety,      \* MockBody.safety
  velocity,    \* MockBody._pose: how fast the drive turns
  ledger,      \* CommandLedger._spans: "unseen", "open" or how the span ended
  results,     \* terminal results handed to the socket, per span
  clientState, \* BodyClient._state, what a heartbeat reports
  told,        \* the last body state handed to this session's socket
  inbox,       \* frames from the brain, oldest first
  link,        \* the WebSocket
  silence,     \* age of the brain's last beat, up to Lease
  pc,          \* where each task is suspended
  left,        \* the spans a suspended task has still to end
  moved,       \* the transition a suspended task has still to announce
  latched,     \* watch_brain_lease's local flag
  beating      \* the heartbeat loop is running

vars == <<safety, velocity, ledger, results, clientState, told, inbox, link,
          silence, pc, left, moved, latched, beating>>

Proc == {"recv", "watch"}

Terminal == {"succeeded", "failed", "expired", "rejected"}

\* The kinds of frame the body acts on; it ignores every other kind.
Frame == [type : {"estop", "estop_clear", "heartbeat"}]
           \cup [type : {"command"}, span : Span]

TypeOK ==
  /\ safety \in State
  /\ velocity \in 0 .. MaxVelocity
  /\ ledger \in [Span -> {"unseen", "open"} \cup Terminal]
  /\ results \in [Span -> Nat]
  /\ clientState \in State
  /\ told \in State \cup {"nothing"}
  /\ inbox \in Seq(Frame)
  /\ link \in {"up", "down"}
  /\ silence \in 0 .. Lease
  /\ pc \in [Proc -> {"rest", "failing", "clearing", "over"}]
  /\ left \in [Proc -> SUBSET Span]
  /\ moved \in [Proc -> Transition]
  /\ latched \in BOOLEAN
  /\ beating \in BOOLEAN

\* No transition in hand: a task's locals go with its handler's frame.
NoTransition == Move("safe_hold", "safe_hold")

\* Connected, booted into safe_hold and said so, tasks started.
Init ==
  /\ safety = "safe_hold"
  /\ velocity = 0
  /\ ledger = [s \in Span |-> "unseen"]
  /\ results = [s \in Span |-> 0]
  /\ clientState = "safe_hold"
  /\ told = "safe_hold"
  /\ inbox = <<>>
  /\ link = "up"
  /\ silence = 0
  /\ pc = [p \in Proc |-> "rest"]
  /\ left = [p \in Proc |-> {}]
  /\ moved = [p \in Proc |-> NoTransition]
  /\ latched = FALSE
  /\ beating = TRUE

-----------------------------------------------------------------------------
(* The ledger and the dispatcher.                                          *)

Handlers == {<<"sys", "ping">>, <<"sys", "clear_safe_hold">>,
             <<"drive0", "set_velocity">>, <<"drive0", "stop">>,
             <<"range0", "read">>}

Target(s) == <<CommandOf[s].capability, CommandOf[s].action>>

\* A slip: the wrong capability class counts as actuating.
ActuatingWrongClass(s) == CommandOf[s].capability = "range0"

Actuating(s) == CommandOf[s].capability = "drive0"

\* A slip the runs must catch: a span once begun counts as ended.
EndedOnceBegun(s) == ledger[s] # "unseen"

\* Another: nothing remembers that a span has ended.
NeverEnded(s) == FALSE

\* A span with a terminal recorded is closed: complete() refuses another.
Ended(s) == ledger[s] \in Terminal

Outstanding == {s \in Span : ledger[s] = "open"}

\* A span id seen before in the ledger's life is a retransmission.
IsNew(s) == ledger[s] = "unseen"

\* A slip: only good news is sent.
EmitOnSuccess(s, status) ==
  /\ ledger' = [ledger EXCEPT ![s] = status]
  /\ results' = [results EXCEPT ![s] =
                   IF CommandOf[s].expects_result /\ status = "succeeded" THEN @ + 1 ELSE @]

\* _emit_terminal: nothing for a span that has ended; otherwise close it,
\* then send the result, if anyone wants it and the socket takes it.
EmitTerminal(s, status) ==
  IF Ended(s)
  THEN UNCHANGED <<ledger, results>>
  ELSE /\ ledger' = [ledger EXCEPT ![s] = status]
       /\ results' = [results EXCEPT ![s] =
                        IF CommandOf[s].expects_result /\ link = "up" THEN @ + 1 ELSE @]

-----------------------------------------------------------------------------
(* Safety transitions.                                                     *)

\* Pose.stop, and a slip in it.
PoseKeepsTurning == velocity' = velocity

PoseStop == velocity' = 0

\* A slip: announce where the transition led, however long ago that was.
AnnounceAsMade(t, st) ==
  /\ clientState' = t.state
  /\ told' = IF t.changed /\ link = "up" THEN t.state ELSE told

\* _announce: the state read is the one the body has now, not the one the
\* transition led to.  The heartbeat's copy is set whether or not the
\* socket takes the event.
Announce(t, st) ==
  /\ clientState' = st
  /\ told' = IF t.changed /\ link = "up" THEN st ELSE told

\* The rest of a latch: end the next in-flight span and wait for the socket
\* to take its result, or, when none is left, announce.  A span that ended
\* while this task waited is passed over.
FailThenAnnounce(p, spans, t, st) ==
  LET open == {s \in spans : ~Ended(s)} IN
  \/ \E s \in open :
       /\ EmitTerminal(s, "failed")
       /\ pc' = [pc EXCEPT ![p] = "failing"]
       /\ left' = [left EXCEPT ![p] = open \ {s}]
       /\ moved' = [moved EXCEPT ![p] = t]
       /\ UNCHANGED <<clientState, told>>
  \/ /\ open = {}
     /\ Announce(t, st)
     /\ pc' = [pc EXCEPT ![p] = "rest"]
     /\ left' = [left EXCEPT ![p] = {}]
     /\ moved' = [moved EXCEPT ![p] = NoTransition]
     /\ UNCHANGED <<ledger, results>>

Resume(p) ==
  /\ pc[p] = "failing"
  /\ FailThenAnnounce(p, left[p], moved[p], safety)
  /\ UNCHANGED <<safety, velocity, inbox, link, silence, latched, beating>>

InFlightActuation == {s \in Outstanding : Actuating(s)}

-----------------------------------------------------------------------------
(* The receive loop: one frame at a time, in the order they came.          *)

\* A slip: what waits behind the frame that is taken goes with it.
NextFrameAlone(type) ==
  /\ pc["recv"] = "rest"
  /\ inbox # <<>>
  /\ Head(inbox).type = type
  /\ inbox' = <<>>

NextFrame(type) ==
  /\ pc["recv"] = "rest"
  /\ inbox # <<>>
  /\ Head(inbox).type = type
  /\ inbox' = Tail(inbox)

\* The watchdog is not told; it looks at the lease when it wakes.
RecvHeartbeat ==
  /\ NextFrame("heartbeat")
  /\ silence' = 0
  /\ UNCHANGED <<safety, velocity, ledger, results, clientState, told, link, pc,
                 left, moved, latched, beating>>

RecvEstop ==
  /\ NextFrame("estop")
  /\ PoseStop
  /\ LET t == Estop(safety) IN
       /\ safety' = t.state
       /\ FailThenAnnounce("recv", InFlightActuation, t, t.state)
  /\ UNCHANGED <<link, silence, latched, beating>>

RecvEstopClear ==
  /\ NextFrame("estop_clear")
  /\ LET t == ClearEstop(safety) IN
       /\ safety' = t.state
       /\ Announce(t, t.state)
  /\ UNCHANGED <<velocity, ledger, results, link, silence, pc, left, moved,
                 latched, beating>>

\* A frame whose span the ledger already holds: not run, not answered.
RecvDuplicate ==
  /\ NextFrame("command")
  /\ ~IsNew(Head(inbox).span)
  /\ UNCHANGED <<safety, velocity, ledger, results, clientState, told, link,
                 silence, pc, left, moved, latched, beating>>

\* The TTL clock starts when the frame is taken off the socket and is read
\* again after decoding it, so any command may find its TTL gone.
RecvTooLate(s) ==
  /\ NextFrame("command")
  /\ Head(inbox).span = s
  /\ IsNew(s)
  /\ EmitTerminal(s, "expired")
  /\ UNCHANGED <<safety, velocity, clientState, told, link, silence, pc, left,
                 moved, latched, beating>>

\* A slip: the declared bound is not checked.
PermittedAtAnySpeed(s) == MayActuate(safety)

\* A handler that decides at once: how its span ends, and the velocity it
\* leaves.  Junk parameters raise before anything else is looked at.
Permitted(s) == MayActuate(safety) /\ CommandOf[s].velocity <= MaxVelocity

OutcomeOf(s) ==
  CASE Target(s) \notin Handlers -> "rejected"
    [] Target(s) = <<"drive0", "set_velocity">> /\ ~CommandOf[s].wellformed -> "failed"
    [] Target(s) = <<"drive0", "set_velocity">> /\ CommandOf[s].wellformed ->
         IF Permitted(s) THEN "succeeded" ELSE "rejected"
    [] OTHER -> "succeeded"

VelocityAfter(s) ==
  CASE Target(s) = <<"drive0", "stop">> -> 0
    [] Target(s) = <<"drive0", "set_velocity">> /\ OutcomeOf(s) = "succeeded" ->
         CommandOf[s].velocity
    [] OTHER -> velocity

RecvCommand(s) ==
  /\ NextFrame("command")
  /\ Head(inbox).span = s
  /\ IsNew(s)
  /\ Target(s) # <<"sys", "clear_safe_hold">>
  /\ EmitTerminal(s, OutcomeOf(s))
  /\ velocity' = VelocityAfter(s)
  /\ UNCHANGED <<safety, clientState, told, link, silence, pc, left, moved,
                 latched, beating>>

\* A clear that changes the state is announced, and the announcement is
\* awaited, before its span ends; one that does not ends at once.
RecvClearSafeHold(s) ==
  /\ NextFrame("command")
  /\ Head(inbox).span = s
  /\ IsNew(s)
  /\ Target(s) = <<"sys", "clear_safe_hold">>
  /\ LET t == ClearSafeHold(safety) IN
       /\ safety' = t.state
       /\ Announce(t, t.state)
       /\ IF t.changed
          THEN /\ ledger' = [ledger EXCEPT ![s] = "open"]
               /\ pc' = [pc EXCEPT !["recv"] = "clearing"]
               /\ left' = [left EXCEPT !["recv"] = {s}]
               /\ UNCHANGED results
          ELSE /\ EmitTerminal(s, IF t.refused THEN "rejected" ELSE "succeeded")
               /\ UNCHANGED <<pc, left>>
  /\ UNCHANGED <<velocity, link, silence, moved, latched, beating>>

ClearFinishes(s) ==
  /\ pc["recv"] = "clearing"
  /\ s \in left["recv"]
  /\ EmitTerminal(s, "succeeded")
  /\ pc' = [pc EXCEPT !["recv"] = "rest"]
  /\ left' = [left EXCEPT !["recv"] = {}]
  /\ UNCHANGED <<safety, velocity, clientState, told, inbox, link, silence, moved,
                 latched, beating>>

\* Frames already received are handed over first; then the loop returns.
RecvEnds ==
  /\ pc["recv"] = "rest"
  /\ link = "down"
  /\ inbox = <<>>
  /\ pc' = [pc EXCEPT !["recv"] = "over"]
  /\ UNCHANGED <<safety, velocity, ledger, results, clientState, told, inbox, link,
                 silence, left, moved, latched, beating>>

ReceiveLoop ==
  \/ RecvHeartbeat \/ RecvEstop \/ RecvEstopClear \/ RecvDuplicate
  \/ \E s \in Span : RecvTooLate(s) \/ RecvCommand(s) \/ RecvClearSafeHold(s)
                       \/ ClearFinishes(s)
  \/ Resume("recv")
  \/ RecvEnds

-----------------------------------------------------------------------------
(* The lease watchdog and the heartbeat loop.                              *)

\* lease.expired
LeaseExpired == silence = Lease

\* Nothing is failed when nothing changed.
WatchLatches ==
  /\ pc["watch"] = "rest"
  /\ LeaseExpired
  /\ ~latched
  /\ latched' = TRUE
  /\ PoseStop
  /\ LET t == EnterSafeHold(safety) IN
       /\ safety' = t.state
       /\ FailThenAnnounce("watch", IF t.changed THEN InFlightActuation ELSE {}, t, t.state)
  /\ UNCHANGED <<inbox, link, silence, beating>>

WatchRearms ==
  /\ pc["watch"] = "rest"
  /\ ~LeaseExpired
  /\ latched' = FALSE
  /\ UNCHANGED <<safety, velocity, ledger, results, clientState, told, inbox, link,
                 silence, pc, left, moved, beating>>

Watchdog == WatchLatches \/ WatchRearms \/ Resume("watch")

HeartbeatBeats ==
  /\ beating
  /\ link = "up"
  /\ told' = clientState
  /\ UNCHANGED <<safety, velocity, ledger, results, clientState, inbox, link,
                 silence, pc, left, moved, latched, beating>>

HeartbeatEnds ==
  /\ beating
  /\ link = "down"
  /\ beating' = FALSE
  /\ UNCHANGED <<safety, velocity, ledger, results, clientState, told, inbox, link,
                 silence, pc, left, moved, latched>>

-----------------------------------------------------------------------------
(* The brain, the network and the clock.                                   *)

BrainSends(f) ==
  /\ link = "up"
  /\ Len(inbox) < MaxInbox
  /\ inbox' = Append(inbox, f)
  /\ UNCHANGED <<safety, velocity, ledger, results, clientState, told, link,
                 silence, pc, left, moved, latched, beating>>

\* Frames still in flight when the socket dies are lost, latest first.
LinkDies ==
  /\ link = "up"
  /\ link' = "down"
  /\ \E n \in 0 .. Len(inbox) : inbox' = SubSeq(inbox, 1, n)
  /\ UNCHANGED <<safety, velocity, ledger, results, clientState, told, silence,
                 pc, left, moved, latched, beating>>

Tick ==
  /\ silence < Lease
  /\ silence' = silence + 1
  /\ UNCHANGED <<safety, velocity, ledger, results, clientState, told, inbox, link,
                 pc, left, moved, latched, beating>>

-----------------------------------------------------------------------------
(* The two harnesses.                                                      *)

\* Cancelling a suspended task drops the rest of its handler.
AllOver ==
  /\ pc' = [p \in Proc |-> "over"]
  /\ left' = [p \in Proc |-> {}]
  /\ moved' = [p \in Proc |-> NoTransition]

\* MockBody.run: the loops have returned; cancel the watchdog and close.
RunReturns ==
  /\ Harness = "run"
  /\ pc["recv"] = "over"
  /\ ~beating
  /\ pc["watch"] # "over"
  /\ AllOver
  /\ UNCHANGED <<safety, velocity, ledger, results, clientState, told, inbox, link,
                 silence, latched, beating>>

\* The drill leaves a drive span admitted, started and unfinished.
DrillHoldsSpan(s) ==
  /\ Harness = "drill"
  /\ IsNew(s)
  /\ Target(s) = <<"drive0", "set_velocity">>
  /\ CommandOf[s].expects_result
  /\ MayActuate(safety)
  /\ ledger' = [ledger EXCEPT ![s] = "open"]
  /\ UNCHANGED <<safety, velocity, results, clientState, told, inbox, link, silence,
                 pc, left, moved, latched, beating>>

\* loops.cancel, watching.cancel and client.close, at any moment.
DrillCloses ==
  /\ Harness = "drill"
  /\ \/ pc # [p \in Proc |-> "over"]
     \/ link = "up"
  /\ AllOver
  /\ beating' = FALSE
  /\ link' = "down"
  /\ inbox' = <<>>
  /\ UNCHANGED <<safety, velocity, ledger, results, clientState, told, silence,
                 latched>>

\* connect and run_loops on the same client: a new session and a new lease,
\* the same ledger, the same client state, no watchdog.
DrillReconnects ==
  /\ Harness = "drill"
  /\ pc = [p \in Proc |-> "over"]
  /\ link = "down"
  /\ link' = "up"
  /\ told' = "nothing"
  /\ silence' = 0
  /\ beating' = TRUE
  /\ pc' = [pc EXCEPT !["recv"] = "rest"]
  /\ UNCHANGED <<safety, velocity, ledger, results, clientState, inbox, left, moved,
                 latched>>

Next ==
  \/ ReceiveLoop
  \/ Watchdog
  \/ HeartbeatBeats
  \/ HeartbeatEnds
  \/ \E f \in Frame : BrainSends(f)
  \/ LinkDies
  \/ Tick
  \/ RunReturns
  \/ \E s \in Span : DrillHoldsSpan(s)
  \/ DrillCloses
  \/ DrillReconnects

Spec == Init /\ [][Next]_vars

\* Time passes, and a task that can run is run: asyncio's scheduling.  The
\* brain owes nothing, and nobody has to close, cut or reconnect.
Fairness ==
  /\ WF_vars(Tick)
  /\ WF_vars(ReceiveLoop)
  /\ WF_vars(Watchdog)
  /\ WF_vars(HeartbeatBeats \/ HeartbeatEnds)
  /\ WF_vars(RunReturns)

FairSpec == Spec /\ Fairness

-----------------------------------------------------------------------------
(* What the body promises.                                                 *)

\* Nothing moves from a latched state: however the receive loop and the
\* watchdog interleave, the drive turns only while the body is ok.
MotionPermissioned == velocity # 0 => safety = "ok"

\* Exactly one terminal result per span: two latches racing to end the same
\* in-flight span, or a retransmission of an ended one, never put a second
\* result on the wire, and no result goes out for a span still open.
OneTerminalResult ==
  \A s \in Span : results[s] <= (IF ledger[s] \in Terminal THEN 1 ELSE 0)

FirstSession == pc["watch"] # "over"

\* On a living socket a span that has ended, by a handler or by whichever
\* latch got to it first, was answered exactly when an answer was wanted.
EndedSpansAnswered ==
  link = "up" /\ FirstSession =>
    \A s \in Span : ledger[s] \in Terminal =>
      results[s] = IF CommandOf[s].expects_result THEN 1 ELSE 0

\* While the body is latched, every actuation span still in flight is on the
\* list of a task that is about to fail it: none is forgotten when the two
\* latches overlap, or when one is lifted before it has finished.
LatchOwnsInFlight ==
  FirstSession /\ ~MayActuate(safety) =>
    \A s \in Span : ledger[s] = "open" /\ CommandOf[s].capability = "drive0" =>
      \E p \in Proc : pc[p] = "failing" /\ s \in left[p]

\* While the heartbeat's copy of the state, or the last state told over a
\* living socket, is not the state, some task in the middle of a latch that
\* changed it still has the announcement to make.
ReportsOwed ==
  FirstSession =>
    \/ clientState = safety /\ (link = "up" => told = safety)
    \/ \E p \in Proc : pc[p] = "failing" /\ moved[p].changed

\* Once no latch is half done, the heartbeat's copy of the state is the
\* state, and so is the last one the brain was told over a living socket,
\* whatever order the transitions and their announcements came in.
ReportsSettle ==
  FirstSession /\ (\A p \in Proc : pc[p] # "failing") =>
    clientState = safety /\ (link = "up" => told = safety)

\* The rung of PermissionLadder this body stands on, and the authorisations
\* it has spent: every span it has admitted.
Rung ==
  CASE safety = "estopped" -> 0
    [] safety = "safe_hold" -> 1
    [] safety = "ok" /\ velocity = 0 -> 2
    [] OTHER -> 3

Spent == {s \in Span : ledger[s] # "unseen"}

Ladder == INSTANCE PermissionLadder
            WITH Authorisation <- Span, rung <- Rung, spent <- Spent

\* The body implements the ladder: it goes up one rung at a time, each
\* above safe_hold bought with a span never seen before, across
\* retransmissions and reconnections.
ClimbsByAuthorisation == Ladder!LadderSpec

\* A missed lease latches the body, unless the brain speaks again first or
\* the harness ends the watchdog.
LeaseMissLatches ==
  (LeaseExpired /\ ~latched /\ pc["watch"] = "rest")
    ~> (~MayActuate(safety) \/ ~LeaseExpired \/ ~FirstSession)

\* An estop that reached the body's socket ends in estopped, whatever is
\* queued ahead of it and whatever its handler waits for; only the death of
\* the socket can lose it.
EstopActedOn ==
  (\E i \in DOMAIN inbox : inbox[i].type = "estop")
    ~> (safety = "estopped" \/ link = "down")

\* A command the body began ends, whatever becomes of its announcement.
BegunCommandsEnd ==
  \A s \in Span : (ledger[s] = "open") ~> (ledger[s] \in Terminal)

-----------------------------------------------------------------------------
(* What the repository says and the code does not do.                      *)

\* SPEC 8.1: a body that sees no brain heartbeat for lease_ms enters
\* safe_hold.  While the lease stays missed the body must come to rest.
LeaseMissHolds ==
  (LeaseExpired /\ link = "up")
    ~> (~MayActuate(safety) \/ ~LeaseExpired \/ link = "down")

\* SPEC 8.1 again, when what silences the brain is the socket's death.
DeadSocketStops == (link = "down") ~> (velocity = 0)

=============================================================================
