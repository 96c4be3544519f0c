---------------------------- MODULE BrainSession ----------------------------
(***************************************************************************)
(* One body's connection as the brain serves it: the handshake's outcome,  *)
(* the handler that receives, the task that beats and watches the body's   *)
(* lease, the spans the brain waits on, and the callers that send commands *)
(* (src/src/brain: server.py, heartbeat.py, registry.py).                  *)
(*                                                                         *)
(* As in MockBody, an action is what one asyncio task does between two     *)
(* awaits.  Three kinds of task run here: the handler (_handle), the beat  *)
(* task (_beat) and any number of callers, each inside SessionState.send.  *)
(* Three awaits leave a task with something still to do: a send that is    *)
(* waiting for the socket to drain, on_message, and on_lost.  The last two *)
(* belong to whoever built the server: they may take their time and they   *)
(* may raise.                                                              *)
(*                                                                         *)
(* Connections share nothing but a dictionary keyed by a fresh session id, *)
(* so one connection is the whole of it.                                   *)
(***************************************************************************)
EXTENDS Integers, Sequences

CONSTANTS
  Span,     \* the span ids of the commands callers send
  Lease,    \* heartbeat_lease_ms, in clock ticks
  MaxInbox  \* bound: frames from the body not yet received

ASSUME SpanAssumption == {"welcome", "beat"} \cap Span = {}
ASSUME LeaseAssumption == Lease \in Nat \ {0}
ASSUME InboxAssumption == MaxInbox \in Nat

VARIABLES
  handler,   \* where _handle is
  beat,      \* where heartbeat_loop is
  reported,  \* heartbeat_loop's local flag
  link,      \* the WebSocket, as the brain's end sees it
  open,      \* the session is in BrainServer._sessions and in the registry
  lost,      \* SessionRecord.lost
  spans,     \* SessionRecord.spans: sent and not yet terminal
  asked,     \* every span ever opened
  ended,     \* how many times each span was ended, by a result or as lost
  draining,  \* spans whose command is being sent
  unlogged,  \* frames given to the socket and not to the recorder
  inbox,     \* frames from the body, oldest first
  silence    \* age of the body's last heartbeat, up to Lease

vars == <<handler, beat, reported, link, open, lost, spans, asked, ended,
          draining, unlogged, inbox, silence>>

\* What the handler tells apart: "other" is every message that neither
\* beats nor ends a span, an undecodable frame included.
Frame == [type : {"heartbeat", "other"}] \cup [type : {"result"}, span : Span]

TypeOK ==
  /\ handler \in {"accepting", "welcoming", "serving", "dispatching", "closing",
                  "gone", "broken"}
  /\ beat \in {"none", "asleep", "sending", "telling", "cancelled", "dead"}
  /\ reported \in BOOLEAN
  /\ link \in {"up", "down"}
  /\ open \in BOOLEAN
  /\ lost \in BOOLEAN
  /\ spans \in SUBSET Span
  /\ asked \in SUBSET Span
  /\ ended \in [Span -> Nat]
  /\ draining \in SUBSET Span
  /\ unlogged \in SUBSET (Span \cup {"welcome", "beat"})
  /\ inbox \in Seq(Frame)
  /\ silence \in 0 .. Lease

\* A socket has been accepted and nothing has come over it.
Init ==
  /\ handler = "accepting"
  /\ beat = "none"
  /\ reported = FALSE
  /\ link = "up"
  /\ open = FALSE
  /\ lost = FALSE
  /\ spans = {}
  /\ asked = {}
  /\ ended = [s \in Span |-> 0]
  /\ draining = {}
  /\ unlogged = {}
  /\ inbox = <<>>
  /\ silence = 0

-----------------------------------------------------------------------------
(* The registry's operations on spans.                                     *)

EndSpans(some) == ended' = [s \in Span |-> ended[s] + (IF s \in some THEN 1 ELSE 0)]

\* A slip: whatever result comes in ends its span.
ResolveUnchecked(s) ==
  /\ spans' = spans \ {s}
  /\ EndSpans({s})

\* resolve_span: a result for a span that is not outstanding ends nothing.
ResolveSpan(s) ==
  /\ spans' = spans \ {s}
  /\ EndSpans(spans \cap {s})

\* A slip: the spans are reported failed and left in the record.
MarkLostKeeping ==
  /\ lost' = TRUE
  /\ EndSpans(spans)
  /\ UNCHANGED spans

\* Another: only the flag is set.
MarkLostFlagOnly ==
  /\ lost' = TRUE
  /\ UNCHANGED <<spans, ended>>

\* mark_lost: everything outstanding ends as body_lost.
MarkLost ==
  /\ lost' = TRUE
  /\ EndSpans(spans)
  /\ spans' = {}

-----------------------------------------------------------------------------
(* The handler: handshake, then one frame at a time.                       *)

\* No hello in time, an unusable hello, a bad token or no common version:
\* the connection ends without a session.
HelloRefused ==
  /\ handler = "accepting"
  /\ handler' = "gone"
  /\ link' = "down"
  /\ UNCHANGED <<beat, reported, open, lost, spans, asked, ended, draining,
                 unlogged, inbox, silence>>

HelloAccepted ==
  /\ handler = "accepting"
  /\ link = "up"
  /\ handler' = "welcoming"
  /\ unlogged' = unlogged \cup {"welcome"}
  /\ UNCHANGED <<beat, reported, link, open, lost, spans, asked, ended, draining,
                 inbox, silence>>

\* The welcome is out: record it, register the session, arm the lease and
\* start the beat task, in one step.
SessionOpens ==
  /\ handler = "welcoming"
  /\ link = "up"
  /\ handler' = "serving"
  /\ unlogged' = unlogged \ {"welcome"}
  /\ open' = TRUE
  /\ silence' = 0
  /\ beat' = "asleep"
  /\ UNCHANGED <<reported, link, lost, spans, asked, ended, draining, inbox>>

\* The socket died under the welcome: no session was ever registered.
WelcomeFails ==
  /\ handler = "welcoming"
  /\ link = "down"
  /\ handler' = "gone"
  /\ UNCHANGED <<beat, reported, link, open, lost, spans, asked, ended, draining,
                 unlogged, inbox, silence>>

NextFrame(type) ==
  /\ handler = "serving"
  /\ inbox # <<>>
  /\ Head(inbox).type = type
  /\ inbox' = Tail(inbox)

\* on_message may suspend; frames behind this one wait until it returns.
Dispatch == handler' \in {"serving", "dispatching"}

\* A slip: a beat buys one more lease on top of what was left.
RenewsByExtending(type) ==
  silence' = IF type = "heartbeat" THEN silence - Lease ELSE silence

\* Only a heartbeat renews the lease, whatever else the body sends.
Renews(type) == silence' = IF type = "heartbeat" THEN 0 ELSE silence

RecvHeartbeat ==
  /\ NextFrame("heartbeat")
  /\ Renews("heartbeat")
  /\ Dispatch
  /\ UNCHANGED <<beat, reported, link, open, lost, spans, asked, ended, draining,
                 unlogged>>

RecvOther ==
  /\ NextFrame("other")
  /\ Renews("other")
  /\ Dispatch
  /\ UNCHANGED <<beat, reported, link, open, lost, spans, asked, ended, draining,
                 unlogged>>

\* A terminal result closes its span before on_message sees it.
RecvResult(s) ==
  /\ NextFrame("result")
  /\ Head(inbox).span = s
  /\ ResolveSpan(s)
  /\ Renews("result")
  /\ Dispatch
  /\ UNCHANGED <<beat, reported, link, open, lost, asked, draining, unlogged>>

DispatchReturns ==
  /\ handler = "dispatching"
  /\ handler' = "serving"
  /\ UNCHANGED <<beat, reported, link, open, lost, spans, asked, ended, draining,
                 unlogged, inbox, silence>>

\* _steady_state is left when the socket is closed and its frames are used
\* up, or when on_message raises.
Leaving ==
  \/ handler = "serving" /\ link = "down" /\ inbox = <<>>
  \/ handler = "dispatching"

\* A slip: the beat task is awaited without being cancelled.
AwaitBeat == UNCHANGED beat

\* Cancelling drops what is left of the beat task's turn, a send or a call
\* to on_lost included.
CancelBeat == beat' = "cancelled"

HandlerLeaves ==
  /\ Leaving
  /\ beat # "dead"
  /\ CancelBeat
  /\ handler' = "closing"
  /\ UNCHANGED <<reported, link, open, lost, spans, asked, ended, draining,
                 unlogged, inbox, silence>>

\* Awaiting a beat task that has raised raises again, in the middle of the
\* clean-up: the session is not taken out.
HandlerBreaks ==
  /\ Leaving
  /\ beat = "dead"
  /\ handler' = "broken"
  /\ link' = "down"
  /\ UNCHANGED <<beat, reported, open, lost, spans, asked, ended, draining,
                 unlogged, inbox, silence>>

\* The rest of the clean-up.  What was outstanding goes with the record.
HandlerCloses ==
  /\ handler = "closing"
  /\ beat = "cancelled"
  /\ handler' = "gone"
  /\ open' = FALSE
  /\ spans' = {}
  /\ link' = "down"
  /\ UNCHANGED <<beat, reported, lost, asked, ended, draining, unlogged, inbox,
                 silence>>

Handler ==
  \/ HelloRefused \/ HelloAccepted \/ SessionOpens \/ WelcomeFails
  \/ RecvHeartbeat \/ RecvOther \/ DispatchReturns
  \/ \E s \in Span : RecvResult(s)
  \/ HandlerLeaves \/ HandlerBreaks \/ HandlerCloses

-----------------------------------------------------------------------------
(* The beat task.                                                          *)

LeaseExpired == silence = Lease

BeatSends ==
  /\ beat = "asleep"
  /\ link = "up"
  /\ beat' = "sending"
  /\ unlogged' = unlogged \cup {"beat"}
  /\ UNCHANGED <<handler, reported, link, open, lost, spans, asked, ended, draining,
                 inbox, silence>>

\* The send is over, drained or failed: a failure is swallowed, recording
\* included.  On a closed socket it fails at once.
BeatSent ==
  \/ /\ beat = "sending"
     /\ unlogged' = IF link = "up" THEN unlogged \ {"beat"} ELSE unlogged
  \/ /\ beat = "asleep"
     /\ link = "down"
     /\ UNCHANGED unlogged

\* A lease missed for the first time: fail the spans, then tell on_lost.
BeatMisses ==
  /\ BeatSent
  /\ LeaseExpired
  /\ ~reported
  /\ reported' = TRUE
  /\ MarkLost
  /\ beat' = "telling"
  /\ UNCHANGED <<handler, link, open, asked, draining, inbox, silence>>

\* A slip: the loop forgets that it reported, and the record stays lost.
RecoverFlagOnly ==
  /\ reported' = FALSE
  /\ UNCHANGED lost

\* mark_live, when a miss had been reported.
Recover ==
  /\ reported' = FALSE
  /\ lost' = (lost /\ ~reported)

\* Nothing new: still missing, or heard again, or never missed.
BeatLooks ==
  /\ BeatSent
  /\ LeaseExpired => reported
  /\ IF LeaseExpired THEN UNCHANGED <<reported, lost>> ELSE Recover
  /\ beat' = "asleep"
  /\ UNCHANGED <<handler, link, open, spans, asked, ended, draining, inbox, silence>>

\* on_lost returns, or raises out of the loop.
TellReturns ==
  /\ beat = "telling"
  /\ beat' \in {"asleep", "dead"}
  /\ UNCHANGED <<handler, reported, link, open, lost, spans, asked, ended, draining,
                 unlogged, inbox, silence>>

Beat == BeatSends \/ BeatMisses \/ BeatLooks \/ TellReturns

-----------------------------------------------------------------------------
(* Callers, the body, the network and the clock.                           *)

\* A caller finds the session, opens the span and sends the command.  On a
\* closed socket the send raises and the span stays open.
CallerSends(s) ==
  /\ open
  /\ s \notin asked
  /\ asked' = asked \cup {s}
  /\ spans' = spans \cup {s}
  /\ IF link = "up"
     THEN /\ draining' = draining \cup {s}
          /\ unlogged' = unlogged \cup {s}
     ELSE UNCHANGED <<draining, unlogged>>
  /\ UNCHANGED <<handler, beat, reported, link, open, lost, ended, inbox, silence>>

\* The send returns and the frame is recorded; or it raises and it is not.
CallerSent(s) ==
  /\ s \in draining
  /\ draining' = draining \ {s}
  /\ unlogged' = IF link = "up" THEN unlogged \ {s} ELSE unlogged
  /\ UNCHANGED <<handler, beat, reported, link, open, lost, spans, asked, ended,
                 inbox, silence>>

\* A body speaks once it has been welcomed, and answers what it was sent;
\* that it answers once is its own promise, not the brain's.
BodySends(f) ==
  /\ link = "up"
  /\ handler # "accepting"
  /\ Len(inbox) < MaxInbox
  /\ f.type = "result" => f.span \in asked
  /\ inbox' = Append(inbox, f)
  /\ UNCHANGED <<handler, beat, reported, link, open, lost, spans, asked, ended,
                 draining, unlogged, silence>>

LinkDies ==
  /\ link = "up"
  /\ link' = "down"
  /\ \E n \in 0 .. Len(inbox) : inbox' = SubSeq(inbox, 1, n)
  /\ UNCHANGED <<handler, beat, reported, open, lost, spans, asked, ended, draining,
                 unlogged, silence>>

Tick ==
  /\ silence < Lease
  /\ silence' = silence + 1
  /\ UNCHANGED <<handler, beat, reported, link, open, lost, spans, asked, ended,
                 draining, unlogged, inbox>>

Next ==
  \/ Handler
  \/ Beat
  \/ \E s \in Span : CallerSends(s) \/ CallerSent(s)
  \/ \E f \in Frame : BodySends(f)
  \/ LinkDies
  \/ Tick

Spec == Init /\ [][Next]_vars

\* Time passes, asyncio runs what can run, a send ends, and the callbacks
\* come back one way or the other.  A raise is never owed.
Fairness ==
  /\ WF_vars(Tick)
  /\ WF_vars(Handler)
  /\ WF_vars(Beat)
  /\ \A s \in Span : WF_vars(CallerSent(s))

FairSpec == Spec /\ Fairness

-----------------------------------------------------------------------------
(* What the brain promises.                                                *)

\* Every span ends at most once, by its result or with its body, however the
\* two race; and while the session is registered none goes missing: it is
\* outstanding or it has ended.
OneOutcomePerSpan ==
  \A s \in Span :
    /\ ended[s] <= IF s \in asked \ spans THEN 1 ELSE 0
    /\ open /\ s \in asked \ spans => ended[s] = 1

\* The loop's own flag and the record's agree as long as the session is
\* registered, through losses, recoveries, cancelled and failed callbacks:
\* no loss is reported twice in a row, and no recovery is missed.
LossesAlternate == open => (lost <=> reported)

\* A session in the registry has a handler that will take it out and a beat
\* task watching its lease, unless on_lost raised.
OpenSessionsWatched ==
  open => \/ handler \in {"serving", "dispatching"}
             /\ beat \in {"asleep", "sending", "telling"}
          \/ handler = "closing" /\ beat = "cancelled"
          \/ beat = "dead"

\* ADR-0005: everything is logged.  While the socket lives and the beat task
\* has not been cancelled, every frame sent is in the log or its sender is
\* still to put it there, whoever sent it.
SendsAreLogged ==
  link = "up" /\ beat # "cancelled" =>
    unlogged \subseteq
      draining \cup (IF beat = "sending" THEN {"beat"} ELSE {})
               \cup (IF handler = "welcoming" THEN {"welcome"} ELSE {})

Serving == handler \in {"serving", "dispatching"}

\* A silent body is found out, and what was outstanding is failed, unless it
\* is heard again or the session ends.
SilentBodyFound ==
  \A s \in Span :
    (s \in spans /\ LeaseExpired /\ ~lost /\ Serving)
      ~> (ended[s] = 1 \/ ~LeaseExpired \/ ~Serving)

\* A lost body that is heard again is live again, unless it falls silent,
\* the session ends, or on_lost ended the loop.
HeardBodyLives ==
  (lost /\ ~LeaseExpired /\ Serving)
    ~> (~lost \/ LeaseExpired \/ ~Serving \/ beat = "dead")

\* A closed socket ends its session whatever the handler and the beat task
\* were in the middle of, unless on_lost raised.
ClosedSocketEndsSession == (link = "down") ~> (~open \/ beat = "dead")

-----------------------------------------------------------------------------
(* What the repository says and the code does not do.                      *)

\* SPEC 8.1: the brain marks the body LOST and fails outstanding spans.  A
\* lost body leaves nobody waiting.
LostBodyHoldsNoSpan == open /\ lost => spans = {}
=============================================================================
