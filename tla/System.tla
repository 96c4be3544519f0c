------------------------------- MODULE System -------------------------------
(***************************************************************************)
(* A brain and a mock body, from the welcome to the end of the session:    *)
(* BrainSession and MockBody, each whole, with the connection between      *)
(* them.  What one sends is what the other has to receive; each has its    *)
(* own lease on the other, its own clock and its own view of the socket,   *)
(* so that either may go on for a while after the other has seen it die.   *)
(***************************************************************************)
EXTENDS Integers, Sequences

CONSTANTS
  Span,        \* span ids of the commands callers send; each wants its result
  CommandOf,   \* the command each span id carries
  MaxVelocity, \* the body's bound
  Lease,       \* heartbeat_lease_ms, in clock ticks, of which welcome tells
  MaxInbox     \* bound: frames on their way in one direction

ASSUME WantedAssumption == \A s \in Span : CommandOf[s].expects_result
ASSUME LeaseAssumption == Lease \in Nat \ {0}
ASSUME VelocityAssumption == MaxVelocity \in Nat
ASSUME InboxAssumption == MaxInbox \in Nat
ASSUME SpanAssumption == {"welcome", "beat"} \cap Span = {}

VARIABLES
  \* The body's, as in MockBody.
  safety, velocity, ledger, results, clientState, told, pc, left, moved, latched,
  beating,
  bodyLink,    \* its end of the WebSocket
  brainSilence, \* the age of the last beat it has received
  \* The brain's, as in BrainSession.
  handler, beat, reported, open, lost, spans, asked, ended, draining, unlogged,
  brainLink,   \* its end of the WebSocket
  bodySilence, \* the age of the last beat it has received
  \* Between them.
  down,        \* frames from the brain that the body has not handled
  up,          \* frames from the body that the brain has not received
  \* Kept for the properties.
  believed     \* how the brain learned that each span had ended

Body == INSTANCE MockBody
          WITH link <- bodyLink, silence <- brainSilence, inbox <- down,
               Harness <- "run"

Brain == INSTANCE BrainSession
           WITH link <- brainLink, silence <- bodySilence, inbox <- up

ASSUME CommandAssumption == CommandOf \in [Span -> Body!Command]

bodyVars == <<safety, velocity, ledger, results, clientState, told, down, bodyLink,
              brainSilence, pc, left, moved, latched, beating>>
brainVars == <<handler, beat, reported, brainLink, open, lost, spans, asked, ended,
               draining, unlogged, up, bodySilence>>
vars == <<bodyVars, brainVars, believed>>

\* The hello has been accepted, the welcome has reached the body, and the
\* body has announced the state it booted into; the brain has yet to find
\* that its send has returned.
Init ==
  /\ Body!Init
  /\ handler = "welcoming"
  /\ unlogged = {"welcome"}
  /\ beat = "none"
  /\ reported = FALSE
  /\ brainLink = "up"
  /\ open = FALSE
  /\ lost = FALSE
  /\ spans = {}
  /\ asked = {}
  /\ ended = [s \in Span |-> 0]
  /\ draining = {}
  /\ up = <<>>
  /\ bodySilence = 0
  /\ believed = [s \in Span |-> "nothing"]

\* A frame handed to a socket whose other end is dead goes nowhere.  The
\* body's events are left out: they end no span and renew no lease.
BodyHears(f) == IF bodyLink = "up" THEN Body!BrainSends(f) ELSE UNCHANGED bodyVars
BrainHears(f) == IF brainLink = "up" THEN Brain!BodySends(f) ELSE UNCHANGED brainVars

\* The body's steps.  A span that is answered puts its result on the wire.
Answers ==
  /\ LET answered == {s \in Span : results'[s] > results[s]}
     IN IF answered = {} THEN UNCHANGED brainVars
        ELSE \E s \in answered : BrainHears([type |-> "result", span |-> s])
  /\ UNCHANGED believed

BodyReceives == Body!ReceiveLoop /\ Answers
BodyWatches == Body!Watchdog /\ Answers
BodyReturns == Body!RunReturns /\ UNCHANGED <<brainVars, believed>>

BodyBeats ==
  /\ \/ Body!HeartbeatBeats /\ BrainHears([type |-> "heartbeat"])
     \/ Body!HeartbeatEnds /\ UNCHANGED brainVars
  /\ UNCHANGED believed

\* The brain's steps.
BrainWorks ==
  /\ Brain!Handler
  /\ believed' = [s \in Span |-> IF ended'[s] > ended[s] THEN "answered" ELSE believed[s]]
  /\ UNCHANGED bodyVars

BrainBeats ==
  /\ \/ Brain!BeatSends /\ BodyHears([type |-> "heartbeat"])
     \/ (Brain!BeatMisses \/ Brain!BeatLooks \/ Brain!TellReturns) /\ UNCHANGED bodyVars
  /\ believed' = [s \in Span |-> IF ended'[s] > ended[s] THEN "failed" ELSE believed[s]]

CallerAsks(s) ==
  /\ Brain!CallerSends(s)
  /\ IF brainLink = "up" THEN BodyHears([type |-> "command", span |-> s])
                         ELSE UNCHANGED bodyVars
  /\ UNCHANGED believed

CallerDone(s) == Brain!CallerSent(s) /\ UNCHANGED <<bodyVars, believed>>

\* The network and the clocks.
BodyLosesLink == Body!LinkDies /\ UNCHANGED <<brainVars, believed>>
BrainLosesLink == Brain!LinkDies /\ UNCHANGED <<bodyVars, believed>>
BodyTicks == Body!Tick /\ UNCHANGED <<brainVars, believed>>
BrainTicks == Brain!Tick /\ UNCHANGED <<bodyVars, believed>>

Next ==
  \/ BodyReceives \/ BodyWatches \/ BodyReturns \/ BodyBeats
  \/ BrainWorks \/ BrainBeats
  \/ \E s \in Span : CallerAsks(s) \/ CallerDone(s)
  \/ BodyLosesLink \/ BrainLosesLink \/ BodyTicks \/ BrainTicks

Spec == Init /\ [][Next]_vars

\* The receiving ends run, and get the socket in turn with whoever else
\* sends; a connection whose other end is gone is found dead.
Fairness ==
  /\ SF_vars(BodyReceives)
  /\ WF_vars(BrainWorks)
  /\ WF_vars(bodyLink = "down" /\ BrainLosesLink)

FairSpec == Spec /\ Fairness

-----------------------------------------------------------------------------
Arriving(queue, type, s) ==
  \E i \in DOMAIN queue : queue[i].type = type /\ queue[i].span = s

\* What the brain still waits for, and has been told nothing of.
Waits(s) == s \in asked \cap spans /\ believed[s] = "nothing"

\* Where a span is, as the abstract specification has it.
Place(s) ==
  CASE s \notin asked -> "unasked"
    [] s \in asked /\ believed[s] # "nothing" -> believed[s]
    [] s \in asked \ spans /\ believed[s] = "nothing" -> "dropped"
    [] Waits(s) /\ Arriving(up, "result", s) -> "coming"
    [] Waits(s) /\ ~Arriving(up, "result", s) /\ ledger[s] = "open" -> "running"
    [] Waits(s) /\ ~Arriving(up, "result", s) /\ ledger[s] = "unseen"
         /\ Arriving(down, "command", s) -> "going"
    [] OTHER -> "adrift"

\* The brain and the body together implement SpanLife: what the brain
\* believes of a span is what the body made of it, however the results race
\* with either lease, a dying socket and the end of the session; and until
\* one end has seen the connection die, a span awaited is really under way.
Life == INSTANCE SpanLife
          WITH place <- [s \in Span |-> Place(s)],
               severed <- (bodyLink = "down" \/ brainLink = "down")

LivesASpan == Life!SpanSpec

\* Nobody is left waiting: a span that was asked, even of a body already
\* lost or by a caller who came while the session was closing, is answered,
\* failed or dropped, unless on_lost raised and the clean-up with it.
AskedSpansEnd ==
  \A s \in Span : (s \in asked) ~> (s \notin spans \/ handler = "broken")
=============================================================================
