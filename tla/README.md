# A TLA+ model of the brain and its bodies

The program is a robot's *brain*, a WebSocket server, and its *bodies*, the
asyncio clients that own hardware. The wire contract is `src/protocol/SPEC.md`.
What has to be right, and is hard to test, is how the two halves behave when
things go wrong at the same time: a command, an emergency stop, a missed lease,
a dying socket and a reconnection can meet in any order, and the safety
semantics of SPEC section 8 must hold in all of them.

Paths below are from the directory that holds `src/` and `tla/`, so the Python
package is `src/src/`.

## 1. Inventory

| Part | Source | State it keeps | Operations | Talks to |
|---|---|---|---|---|
| Latched safety state | `bodies/safety.py` | `ok`, `safe_hold` or `estopped` | enter_safe_hold, estop, clear_safe_hold, clear_estop | owned by a body |
| Mock body | `bodies/mock.py` | safety state, pose, the watchdog's local flag | handlers, estop, latches, lease watchdog, run | client, dispatcher |
| Ledger and dispatcher | `bodies/commands.py`, `bodies/dispatch.py` | every span seen and how it ended | admit, start, complete; handle, finish_span, report | client |
| Body client | `bodies/client.py` | connection, session, sequence counter, lease, a copy of the state | connect, receive loop, heartbeat loop, close | brain, by WebSocket |
| Laptop body | `bodies/laptop.py`, `speech.py`, `audio.py`, `camera.py` | safety state, capture task, speech task and its span | capture, say, snapshot, latches | client, devices |
| Brain server | `brain/server.py`, `brain/heartbeat.py` | live sessions, per-session beat task | handshake, receive, beat, watch the lease, close | bodies, registry, recorder |
| Session registry | `brain/registry.py` | per session: spans, lost flag, sequence tracker | open, close, receive, open/resolve span, mark lost/live | server, callers |
| Handshake | `brain/handshake.py` | none | authenticate, choose a version, welcome or refuse | server |
| Recorder, replay | `brain/recorder.py`, `brain/replay.py` | an MCAP file, channels, indices | record, close; read a session | server, LLM client |
| Lease, stamps | `wire/lease.py`, `wire/stamp.py` | last beat; next number | beat, expired; take | both sides |
| LLM layer | `brain/llm/` | none | complete, record | vendors, recorder |
| Codec, schema, config | `wire/`, `brain/config.py` | none | parse, validate | everything |

Everything runs in asyncio: one thread, and control changes hands only at an
`await`. Code between two awaits is atomic, and every difficulty is a
consequence of what an `await` lets in:

* *Body, while a latch sends its failed results.* `estop` and
  `enter_safe_hold` stop the drive and latch at once, then end the in-flight
  spans one awaited send at a time, then announce. The receive loop and the
  watchdog are different tasks, so two latches can be half done together, and a
  clear can lift one in the meantime.
* *Body, at the end of its socket.* The loops return, the watchdog is cancelled
  wherever it is suspended, and what it had left to do is not done.
* *Body, in its receive loop.* One frame at a time, to its handler's end.
* *Laptop body, while it waits for another of its tasks.* A `say` ends after its
  handler has returned, in a task of its own; an estop, a stop and a later `say`
  first stop that sentence and wait for its task, and a capture likewise. The
  latch comes last, where the mock's comes first.
* *Brain, between its tasks.* The handler, the beat task and the callers share
  the record of outstanding spans. A result can arrive for a span already given
  up; a command can be sent to a body already lost, or into a closing session.
* *Brain, in its callbacks.* `on_message` and `on_lost` belong to the server's
  owner: they may be slow, and they may raise.

`hazards` in `PROJECT.json` lists these and others, each at its line, with the
properties that would catch it going wrong.

## 2. Modules

| Module | What it is |
|---|---|
| `SafetyState` | the four requests of `safety.py`, as functions from the state found to the `Transition` returned |
| `MockBody` | the mock body with its ledger, dispatcher, client loops and watchdog, driven by `MockBody.run` or by `scripts/gate3_drill.py` |
| `PermissionLadder` | the abstract specification of motion: a rung, and the authorisations spent to climb it |
| `MockBody_proofs` | theorems about `MockBody` |
| `LaptopBody` | the laptop body: capture and speech tasks, `say` processes, deferred spans, an estop that waits before it latches, the end of `run` |
| `LaptopBody_proofs` | theorems about `LaptopBody` |
| `BrainSession` | one body's connection as the brain serves it |
| `BrainSession_proofs` | theorems about `BrainSession` |
| `SpanLife` | the abstract specification of a span between brain and body: the places it passes through, and when it may be lost on the way |
| `System` | `BrainSession` and `MockBody`, each whole, joined at the connection |
| `System_proofs` | the theorem that `System` implements `SpanLife` |
| `SystemParts_proofs` | that what is proved of each half alone holds of the two together, and what crosses between them |
| `Handshake` | a client that dials, leaves and dials again, the brain's handlers that accept or refuse, and the sequence numbers of what follows |
| `Handshake_proofs` | theorems about `Handshake` |
| `Journal` | the flight recorder, everybody who writes to it, and what replay makes of the file |
| `Journal_proofs` | theorems about `Journal` |
| `MCMockBody`, `MCLaptopBody`, `MCBrainSession`, `MCSystem`, `MCHandshake`, `MCJournal` | the constants the runs use |

Operators whose names describe a slip (`EmitOnSuccess`, `MarkLostKeeping`, ...)
are plausible bugs. Each stands beside the definition it would replace, and no
specification uses it: put in that place it must make a named property fail.
`mutants` in `PROJECT.json` says which.

### MockBody against the code

An action is what one task does from one suspension to the next.

| State | In the code |
|---|---|
| `safety`, `velocity` | `MockBody.safety`, the larger component of `_pose` |
| `ledger` | `CommandLedger._spans`: unseen, open, or the terminal status |
| `results` | how many terminal results each span has put on the socket (history) |
| `clientState` | `BodyClient._state`, which heartbeats carry |
| `told` | the last state put on this session's socket (history) |
| `inbox` | frames from the brain, on the wire or in the client's queue |
| `link` | the WebSocket |
| `silence` | `LeaseWatch`: age of the last beat, capped at the lease |
| `pc`, `left`, `moved` | where the receive loop and the watchdog are suspended, and their locals there: the spans still to fail and the transition still to announce |
| `latched` | the local of `watch_brain_lease` |
| `beating` | the heartbeat loop is running |

`RecvEstop` and `WatchLatches` are the first stretch of a latch: stop, change
the state, and end the first in-flight span, or announce if there is none.
`Resume` is each later stretch. An `await`ed send is a point where another task
may run whether or not the socket makes it wait, so every order the scheduler
can produce is there. `RecvClearSafeHold` and `ClearFinishes` are the two
stretches of the clear. A command whose handler does not await is one step,
`RecvCommand`, with its result. The TTL is read after decoding, against a clock
started just before, so `RecvTooLate` may find any command expired.

What is left out of `MockBody`: telemetry, which changes nothing the properties
see; the texts and codes in results; the two velocity components, of which the
model keeps one magnitude; `ping` and `read` have handlers and no effect.

### LaptopBody against the code

| State | In the code |
|---|---|
| `camera` | `LaptopBody._camera_open` |
| `capture`, `trace` | the capture task and where it is; `_capture_trace` |
| `captureOf` | the command that began the capture (history) |
| `voice` | the `say` processes alive, each by the command that started it |
| `process`, `cut` | `MacSaySpeaker._process`, `_stopped` |
| `speechTask`, `speaking` | `_speech_task`; where each command's `_finish_saying` is |
| `playback` | the last `playback_state` the socket took (history) |
| `pc`, `job`, `awaited` | where the receive loop is suspended, or `run` after it; for what; and the speech task it has interrupted |
| `safety`, `told`, `ledger`, `results`, `inbox`, `link` | as in the mock body; `results` is here the sequence of statuses each span was sent |

`estop` is three stretches: close the camera and cancel the capture
(`RecvEstop`); then stop the sentence (`CaptureStopped`); then latch and
announce (`EstopLatches`). The two waits between them are the guards
`Uncaptured` and `Hushed`. The end of `run` takes the same way. `_say` is
`RecvSpeaker`, `SayStarts`, `SayStarted`, `ReportRunning` or `ReportBreaks`, and
`SayDefers`; what ends its span is `SpeechTask`.

Four things are left out. `BodyClient._state`, which is set in the step that
changes the latch. `enter_safe_hold`, which nothing in this body calls: unlike
the mock it has no lease watchdog. Cancellation from outside, as by a keyboard
interrupt. And the thread in which a cancelled microphone read still runs.

### BrainSession against the code

| State | In the code |
|---|---|
| `handler` | where `_handle` is: handshake, serving, awaiting `on_message`, awaiting the beat task, returned, or left by an exception in its clean-up |
| `beat`, `reported` | where `heartbeat_loop` is, and its local flag |
| `open` | the session is in `_sessions` and in the registry |
| `lost`, `spans` | `SessionRecord.lost`, `SessionRecord.spans` |
| `asked`, `ended` | spans ever opened; how often each was ended (history) |
| `draining` | callers suspended inside `SessionState.send` |
| `unlogged` | frames given to the socket and not yet to the recorder (history) |
| `inbox`, `link`, `silence` | as in the body |

The choice between `welcome` and the rejects is one nondeterministic step here;
`Handshake` makes it.
Sessions share only dictionaries keyed by a fresh id, so one session is enough.
`on_message` and `on_lost` are modelled as taking any time and possibly
raising. Nothing else in the server can raise where the code does not catch it.

### System against the code

The variables are those of `MockBody` and `BrainSession`, with `link`,
`silence` and `inbox` twice: `bodyLink` and `brainLink`, `brainSilence` and
`bodySilence`, `down` and `up`. `believed` is how the brain learned that a span
had ended (history). A step is a step of one half, taken as its module has it;
when it hands a frame to the socket, the frame joins the other half's inbox,
unless the other half's socket is dead. So a result can be on its way while the
brain gives its span up, and a command on its way to a body that is gone. The
body's events are left out, since they end no span and renew no lease, and so
are estops, which nothing in the brain package sends.

`SpanLife` knows nothing of tasks, leases or sockets. A span is unasked, going
to the body, running, coming back, answered, failed, dropped with its session,
or adrift; `Place` says which. Only once an end has seen the connection die may
a span be adrift.

### Handshake against the code

| State | In the code |
|---|---|
| `config` | the client's token and protocol versions, or `None` when other callers dial instead of it |
| `next` | `SeqCounter._next` of `BodyClient._seq` |
| `dialing` | `connect` waits for the reply |
| `conn`, `session`, `version` | `_connection`, `_session`, `_protocol_version` |
| `link`, `up`, `down` | each connection's socket and the frames in it, both ways |
| `handler` | where each connection's `_handle` is: accepting, refusing, welcoming, serving, gone, or broken off in its clean-up |
| `terms` | the `Accepted` of each connection: version and the hello's number |
| `registered` | `SessionRegistry._records` |
| `last` | `SeqTracker._last` |
| `judged` | the sum of what `observe` returned: frames taken, numbers called missing, whether any was called repeated |
| `first`, `dropped`, `abandoned` | the first frame of each connection; numbers taken for frames that never left; connections a dial timed out on (history) |

A behaviour has either the client or callers that send any frame in any order:
what the brain promises about its own books must hold for the second kind too,
and only then is a repeated number possible. `OpenSession` has the checks of
`handshake.py` in its order, and `ChooseVersion` takes the code's way to the
newest common version; `NewestCommon` is the definition it is checked against.
There is no lease here, so `on_lost` may have raised whenever a session ends:
`SessionEnds` is the clean-up that finishes, `HandlerBreaks` the one that the
dead beat task's exception stops before the session is out of the registry, as
in `BrainSession`. An `on_message` that raises closes the socket, which
`LinkDies` covers.

### Journal against the code

| State | In the code |
|---|---|
| `rec` | the `FlightRecorder`: open or not, the record count, the channels' sequence counters, the MCAP file |
| `handler` | where each connection's `_handle` is |
| `said` | the brain's outbound `SeqCounter` of each session |
| `sending` | messages inside `SessionState.send`, in the order their senders got the socket |
| `call` | where each `LLMClient.complete` is, or how it ended |
| `taken`, `wire`, `lost` | what passed over each connection, either way, and what of it will not be on file (history) |

A write is one step. `Write` counts before it serializes, raises on a closed
recorder, and may fail; who called it decides what a failure does. The wall
clock, `Time`, is read anew for each record and may have been set back.
`Replay` sorts by index as `read_session` does, and `Readable` is what that
function refuses.

## 3. Runs

Bounds: the body's lease is one tick long, since the code asks only whether it
has expired and both answers are reachable at any time. The brain's is two:
with one tick every lease would sooner or later be seen expired, and a body that
keeps beating in time, which `HeardBodyLives` is about, would not exist. The inbox holds one or
two frames: the receive loop looks at the first only, and one place that can be
refilled at once gives every order in which frames can be handled, which is what
the safety of `drill` asks about. `commands` has two, since an estop in line is
behind another frame there, and that frame's handler may be waiting; its three
commands are one whose handler waits and two whose handlers do not, one refused
and one raising. A stop, a command nobody handles and longer lines are left to
the proofs, which hold for any commands and any inbox, though of `EstopActedOn`
they have the safety half only (`EstopIsKept`, `LoopIsNeverWedged`). Two drives are what two latches
need to share the in-flight list; two clears are what it takes to lift a latch,
make it again while the first is still failing its spans, and lift it again.
One of the clears wants no answer; the drives are interchangeable, so `drill`
uses their symmetry.
The laptop's `talk` has two sentences, one wanting results and one not, and a
stop, since two sentences are what an interruption needs; `errands` has the
other handlers, with two starts, since a second start is what could take the
trace from the first. The speech and capture tasks share only the order in which
an estop ends them, which both runs have.

`system` has one span, a clear, which the body begins and ends in different
steps; each property is about one span at a time, and two make the run too
long. `handshake` has two connections, since a second dial is what a counter
that is not reset and a forgotten session need; versions 1 to 3 of which the
brain speaks two, so that an offer may share none, one or two and the newest on
either side need not be shared; numbers up to 4, which a gap in a second session
needs; and two frames in flight, which a gap and a repeat need. `journal` has
two sessions to interleave, one type of message beside the handshake's, one
call, two times, so that the clock can step back, two lost records beside those of
a welcome that failed, and indices up to 5: one session and two of its messages, or
a session and a call, and another session on its way in. Two sessions that
both speak are left to the proofs. The sessions of `journal` are interchangeable.

| Run | Checks | Shows |
|---|---|---|
| `drill` | MotionPermissioned, OneTerminalResult, EndedSpansAnswered, LatchOwnsInFlight, ReportsOwed, ClimbsByAuthorisation | two clears, two drives, a span left in flight, kills and reconnections at any moment |
| `commands` | TypeOK, LeaseMissLatches, EstopActedOn, BegunCommandsEnd | two frames in line and commands that wait, are refused, raise or are late; under fairness latches happen, estops are reached from behind other frames, commands end |
| `laptop_talk` | TypeOK, AnswersInOrder, VoicesOwned, StoppedIsOwed, LatchesQuiet, EstopGetsThrough, DeadSocketEndsRun | sentences interrupted, superseded, endless, failing, over a socket that dies at any moment |
| `laptop_errands` | ChunksNameTheirCapture, LatchesQuiet | captures, pictures and clears among estops |
| `brain_session` | TypeOK, OneOutcomePerSpan, LossesAlternate, OpenSessionsWatched, SilentBodyFound, HeardBodyLives, ClosedSocketEndsSession | two callers, results, losses, recoveries, failing callbacks, a closing session |
| `system` | LivesASpan, AskedSpansEnd | one span between a brain and a body with a lease each, over a connection that dies at each end at its own time |
| `handshake` | TypeOK, TokenGuards, EndsAgree, NoForgottenSession, HonestFramesInOrder, NumbersAddUp, DialAnswered, WelcomedIsServed | dials, timeouts, failed sends, closes and new dials over sockets that die at any moment; or callers that say anything |
| `journal` | TypeOK, ReplayKeepsOrder, RecordIsTheWire, CallsLogged | two sessions and a model call, one recorder closed, reopened, failing, with a clock set back |

Only `drill` checks for deadlock: in every other run a session, a recording or
a dial really ends and nothing need follow it.

The properties, in words:

* **MotionPermissioned**: the drive turns only while the body is ok.
* **OneTerminalResult**: at most one terminal result per span, none before it
  has ended, however the latches, handlers and retransmissions race.
* **EndedSpansAnswered**: on a living socket a span that has ended, by its
  handler or by whichever latch got to it first, was answered exactly when an
  answer was wanted.
* **LatchOwnsInFlight**: while the body is latched, each in-flight drive is on
  the list of a task that is about to fail it.
* **ReportsOwed**: a difference between the state and what the brain was told
  is owed by a task in the middle of a latch. `ReportsSettle` follows from it
  (proved): when no latch is half done there is no difference.
* **ClimbsByAuthorisation**: the body implements `PermissionLadder`. It rises
  one rung at a time, each above `safe_hold` paid with a span never seen before,
  across retransmissions and reconnections of the same client. This is SPEC
  8.2's "two explicit authorizations" made precise.
* **AnswersInOrder**: a deferred span is answered at most once for good, with
  what the ledger holds, and "running" never comes after its end.
* **VoicesOwned**, **StoppedIsOwed**: over a living socket a process that talks
  has a task that waits for it and is the one the speaker can stop; a "started"
  has someone about to send its "stopped".
* **ChunksNameTheirCapture**: a chunk carries the trace of the command that
  began its capture.
* **LatchesQuiet**: when the laptop becomes estopped nothing it had begun still
  runs. Motion has no part here, so this, not `PermissionLadder`, is what its
  latch promises.
* **OneOutcomePerSpan**: a span ends by its result or with its body, not both,
  and none goes missing while its session is registered.
* **LossesAlternate**: the loop's flag and the record's agree, so no loss is
  reported twice running and no recovery is missed.
* **OpenSessionsWatched**: a registered session has a handler to take it out
  and a beat task to watch it, unless `on_lost` raised.
* **LivesASpan**: brain and body together implement `SpanLife`. What the brain
  believes of a span is what the body made of it, however results race with
  either lease, a dying socket and the session's end; and until one end has seen
  the connection die, every span the brain waits for is on its way to the body,
  in its hands, or on its way back.
* **AskedSpansEnd**: no span stays outstanding for good, not even one asked of a
  body already lost or of a session that is closing, unless `on_lost` raised.
* **TokenGuards**: a registered session was opened by a hello with the token, on
  the newest version both speak; a caller without the token is told no versions.
* **EndsAgree**, **NoForgottenSession**: a client in a session is in the one its
  own connection opened, on the brain's terms, and the brain serves it or is
  about to; a session the brain keeps over a living connection is the client's,
  unless a dial timed out on it.
* **HonestFramesInOrder**, **NumbersAddUp**: the tracker never calls a client's
  frame repeated, and calls no more missing than were numbered and not sent,
  over reconnections that do not reset the counter; and whatever numbers a
  caller uses, the tracker stands where the hello's number, the frames taken and
  the numbers called missing put it.
* **ReplayKeepsOrder**: a readable file is replayed in the order it was written,
  whatever the wall clock did and whichever writes failed.
* **RecordIsTheWire**: what is on file of a session is what passed over its
  connection, in order each way: nothing that was never sent, nothing twice,
  nothing missing but what could not be written or whose sender was interrupted.
  It is stated of the messages on file, as a set, and of their numbers, which
  rise on the wire and rise in the file.
* **CallsLogged**: a model call that reached a provider and ended, by
  cancellation too, is on file once as what it ended as.
* **LeaseMissLatches, EstopActedOn, BegunCommandsEnd, EstopGetsThrough,
  DeadSocketEndsRun, SilentBodyFound, HeardBodyLives, ClosedSocketEndsSession, DialAnswered,
  WelcomedIsServed**: what must eventually happen, each
  with its exceptions in its statement. `EstopActedOn` excepts only the socket's
  death. `HeardBodyLives`, `ClosedSocketEndsSession` and `WelcomedIsServed` except an
  `on_lost` that raised, after which the code does what the end of *Disagreements* says; `LeaseMissLatches` excepts the end of the watchdog,
  which `dead_socket_stops` is about.

### Disagreements

Four runs check what the documents say and find the code doing otherwise.

| Run | The documents say | What the code does |
|---|---|---|
| `lease_miss_holds` | a body that sees no heartbeat for `lease_ms` enters `safe_hold` (SPEC 8.1) | the watchdog latches once per miss; a clear sent while the miss lasts lifts the latch for good |
| `dead_socket_stops` | the same | `MockBody.run` cancels the watchdog when the socket dies; the drive keeps its velocity |
| `lost_body_holds_no_span` | the brain fails the outstanding spans of a lost body (SPEC 8.1) | a span opened after the loss is not failed while the silence lasts |
| `journal_replays_llm_io` | replay re-feeds recorded model output (`recorder.py:85`, ADR-0005) | `read_session` takes an `llm_io` record for a message and raises: one recorded call makes the file unreadable |

Smaller ones seen while modelling, and not kept as runs: an estop received
behind a command waits for it, although a comment in `client.py` says it cannot;
a latch that waited for its results announces the state it finds afterwards, so
a transition may never be named (SPEC 6.5); a latch cancelled before its
announcement leaves the client's copy at `ok`, and the next session's first
heartbeat with it (SPEC 5); the laptop body has no lease watchdog (SPEC 8.1);
the heartbeat carries a copy that lags the latch; the ledger outlives the session although its
docstring says a reconnect is a clean one; an `on_lost` that raises ends the
loop that "a lease miss does not end", and then the clean-up too, so that the
session stays registered although a record lives until the socket closes; a
closing session drops its spans and tells nobody, where "nothing upstream waits
forever" (`mark_lost`); `report(running)` raises on a dead socket after the
speaker has started, no task owns that process, and a `say` still in the buffer
talks over it, though two voices at once is never what was wanted (`_say`);
a later session's hello does not start at 1, though SPEC.md:40 and 71,
stamp.py:60 and client.py:92 say the numbers do; several sessions share a
recorder's file, though recorder.py:151 says one file per session; a refused
body's hello is never on file, and a reject is recorded before it is sent;
a frame whose send is cancelled or dies while draining is on the wire and not
in the log, which `RecordIsTheWire` excepts.

## 4. Fairness

`MockBody`: weak fairness of the clock, of the receive loop, of the watchdog,
of the heartbeat loop and of the return of `MockBody.run`. asyncio runs every
ready task, a sleep ends, and a send on a live or dead socket returns or raises,
so a task that can take its next step takes it. The watchdog's period is not
modelled: it looks at some time, which is all `sleep` in a loop promises. Nothing is
assumed of the brain, of the network, of the drill or of when a span is held.

`LaptopBody`: weak fairness of the receive loop with the end of `run`, of the
capture task and of each speech task, for the same reason; and of the end of a
`say` process that was told to terminate. A sentence nobody interrupts may go on
for ever, so what ends the waits is the `terminate`, not the sentence. A
microphone read that is not cancelled is assumed to return.

`BrainSession`: weak fairness of the clock, the handler, the beat task and each
caller inside a send. For `on_message` and `on_lost` this assumes that they come
back, one way or the other; that they return rather than raise is not assumed.
No body has to speak and no socket has to die.

`System`: weak fairness of the brain's handler and of its finding a connection
dead whose other end is gone, which the WebSocket library's keepalive pings or
the closing of TCP do; strong fairness of the body's receive loop, since its
answer may find the one place in the socket taken by a heartbeat again and
again, and senders that wait for a socket get it in turn. Neither beat task, no
clock and no caller is assumed to run.

`Handshake`: weak fairness of the client's receiving and of each handler's next
step, except its timeout. Nobody has to dial, send, close or lose patience.

`Journal` assumes nothing: all its properties are safety.

## 5. Proofs

The modules named `..._proofs` are checked by TLAPS for every value
of the constants that satisfies the named assumptions: a positive lease, a
natural velocity bound and inbox bound, a harness of one of the two kinds, a
command for each span (`MockBody`, `LaptopBody`), that `"estop"`, `"shutdown"`
and `NoSpan` are no span ids (`LaptopBody`), and that `"welcome"` and `"beat"` are no
span ids (`BrainSession`). Nothing is assumed of the number of spans.
`Handshake` assumes that any versions one may offer have a newest among them
(they are dates), that what callers send are frames, and that `None` is no
connection, version or other value; `Journal` that the roles routed are roles, that no message type is called
like a topic of the recorder's own, and that times are integers; `System` what
its halves assume, and that every command asked wants its result, without which
a span would end at the body and nobody hear of it until the lease ran out. The numbers of
connections, versions, calls and types are any.

| Theorem | Statement | Argument |
|---|---|---|
| `TypeCorrect` (body) | `[]TypeOK` | inductive; `FailThenAnnounce` and `EmitTerminal` have lemmas of their own |
| `MotionIsPermissioned` | `[]MotionPermissioned` | inductive with `TypeOK`: every step that leaves `ok` stops the drive, and only `RecvCommand` starts it, from `ok` |
| `OneTerminalResultPerSpan` | `[]OneTerminalResult` | one lemma about `EmitTerminal` serves every action |
| `EndedSpansAreAnswered` | `[]EndedSpansAnswered` | `SessionSteps`: a socket that died in the first session is not up again in it, since only the drill reconnects and it starts no watchdog; `OneTerminalResult` and the ledger's lemma give the count |
| `LatchOwnsEverySpan` | `[]LatchOwnsInFlight` | `FailThenAnnounceOwns`: a suspended latch keeps every span it has not ended, and passes over only ended ones; `OwnershipKept` for steps of the other task |
| `ReportsAreOwed`, `ReportsAlwaysSettle` | `[]ReportsOwed`, `[]ReportsSettle` | `ReportsSettle` is not inductive: a step that ends a latch must know that another latch still owes an announcement. `ReportsOwed` is the strengthening, and implies it |
| `ImplementsLadder` | `Spec => ClimbsByAuthorisation` | refinement with `rung <- Rung, spent <- Spent`; `NewSpanIsSpent` is why a rise costs a span |
| `TypeCorrect` (laptop) | `[]TypeOK` | inductive; every step that ends a span goes through one lemma, `EndKeepsType` |
| `ChunksAreTraced` | `[]ChunksNameTheirCapture` | inductive alone: every step is a stop, a start, a step of the capture task, or leaves all three variables be |
| `NoVoiceIsLost`, `EveryStartIsStopped` | `[]VoicesOwned`, `[]StoppedIsOwed` | neither is inductive: that the wait for an interrupted task leaves silence needs that the task waited for is the only one. `SpeechInv` adds `TaskKnown` (a task not over is the body's or the awaited one) and `SayAlone` (no task is left when a say starts); `HushedIsQuiet` draws the conclusion |
| `EachSpanAnsweredInOrder` | `[]AnswersInOrder` | strengthened by `UnseenIsQuiet` and `JobIsFresh`: the span a handler is at is open, unanswered until it reports, and not yet any task's. `EndKeeps` serves every step that ends a span |
| `LatchIsQuiet` | `Spec => LatchesQuiet` | an action property: only `EstopLatches` leads to estopped (`OnlyEstopLatches`), `EstopDark` keeps camera and capture off while an estop waits, and `HushedIsQuiet` gives the silence |
| `TypeCorrect` (brain) | `[]TypeOK` | inductive |
| `OneOutcome` | `[]OneOutcomePerSpan` | strengthened to `Accounts`: what is outstanding was asked. `Quiet` (nothing exists before the session opens) covers the opening step; `EndingKeepsAccounts` covers results and losses alike |
| `LossAndRecoveryAlternate`, `SessionsAreWatched`, `LiveSendsAreLogged` | the invariants of the same sense | inductive relative to `Quiet` |
| `TypeCorrect` (handshake) | `[]TypeOK` | inductive with `Placed` (what a handler's place says of its socket, terms and registration) and `Dialed` (what the client's fields say of its connection) |
| `NothingWithoutToken`, `BothEndsAgree` | `[]TokenGuards`, `[]EndsAgree` | neither is inductive: a handler's terms must be those its first frame deserved (`FirstJudged`), and a reply under way must be the one the handler gave (`ClientKnown`). `Choice` shows that `ChooseVersion` finds the newest common version |
| `NoneForgotten` | `[]NoForgottenSession` | strengthened to `Remembered`: a living connection that is not abandoned is the client's, registered or not |
| `TrackerAddsUp` | `[]NumbersAddUp` | inductive: `Observed` gives what one verdict does to the sum |
| `NoFalseAlarm` | `[]HonestFramesInOrder` | strengthened by what is in flight (`InOrder`, `Numbered`): the frames of a connection rise, above the tracker's number and below the client's counter, and the gaps before, between and, while it lives, after them add up to no more than was dropped |
| `NoDialHangs` | while a dial waits over a living connection its hello is before the handler or the reply under way | inductive given `Placed` and `Dialed`: a handler that takes the hello replies in the same step, and whatever takes a reply back takes the connection with it |
| `TypeCorrect` (journal) | `[]TypeOK` | inductive; `WriteOutcome` and `JournalsOutcome` give what a write may leave behind |
| `CallsAreLogged` | `[]CallsLogged` | inductive: only a call's end adds an exchange, and no call ends twice |
| `IndicesIncrease`, `ReplayIsInOrder`, `IndicesDistinct` | indices rise strictly; `[]ReplayKeepsOrder`; no two records have one index | `Indexed` is inductive, failed writes included; that a rising sequence sorted is itself is `SortIsIdentity`, by counting with the finite-set theorems and no induction |
| `RecordMatchesTheWire` | `[]RecordIsTheWire` | strengthened to `AllRecorded`. What is on file is what passed, less what is lost and what is pending (`Filed`), but which message is pending depends on the handler (`Stage`) and on the senders' queue, whose head is the last message handed over (`Queue`); that nothing is filed twice or out of order rests on the numbers (`Counts`, `Numbered`), and that nothing lost turns up after all on `Unlost` |
| `LoopIsNeverWedged`, `OpenSpansAreHeld` (body) | the receive loop listens while its socket lives; under `run` the one span ever open is that of a clear in its hands | inductive: `LoopStep` says what any step may do to the loop's place |
| `EstopIsKept` (body, laptop) | an estop in line stays there, or in hand, until it latches or the socket dies | action properties: a frame that is taken is the oldest (`OthersStay`), and no other step shortens the line |
| `NoWaitIsInVain`, `OpenSpansAreHeld` (laptop) | `[](AtWork /\ WaitsForTheStopped)`; an open span is at the loop or at a task that has still to end it | `TaskBegun` is the strengthening: the task an interruption starts to wait for has begun, so the signal it is sent finds its process |
| `BodyIsItself`, `BodyKeepsItsPromises`, `BrainKeepsItsPromises` | the invariants proved of each half, of the two together | each step of `System` is a step of the half or leaves it alone (`BodyMoves`, `BrainMoves`): the frames one half sends are frames the other may receive. The theorems of `MockBody_proofs` and `BrainSession_proofs` are then taken as they are, by `INSTANCE` |
| `AnswersAreCrossedOnce` | a result under way was sent once and is not yet learnt, and the brain believes a span answered only if it was | inductive given `OneTerminalResult` of the body and the invariant of `ImplementsSpanLife`: a span that ends now was never answered before (`AnswerSent`), and a result taken is the only one of its span (`AnswerLearnt`) |
| `ImplementsSpanLife` | `Spec => LivesASpan` | refinement with `place <- Place(s)`. The invariant relates both halves' books to the frames between them: nobody has heard of a span not asked (`Unheard`), a result under way is that of an ended span (`Honest`), and over a connection nobody has seen die what the brain waits for is somewhere (`UnderWay`). `BodyTurns` reduces every step of the body's to the one span it begins or ends; `IdleStep`, `EndStep`, `LinkStep` serve the brain's, and `LossStep` a socket's death |

`BrainSession` alone lets a body answer a span as often as it likes, and its
theorems hold all the same; `AnswersAreCrossedOnce` says that the body there is
does not.

Only model-checked: everything with `~>`, since liveness under fairness is
beyond the prover. Every other property a passing run checks is a theorem. Of
several of them the safety half is proved: that what is to happen is not lost,
and that whoever must make it happen is never stuck. `EstopIsKept` and
`LoopIsNeverWedged` or `NoWaitIsInVain` are what `EstopActedOn` and
`EstopGetsThrough` rest on, the same and `OpenSpansAreHeld` what
`BegunCommandsEnd` and `DeadSocketEndsRun` rest on, and `NoDialHangs` is what
`DialAnswered` rests on; that the scheduler then takes those steps is what the
runs add. None of these is a run's property: they were model-checked on the
runs' instances before they were proved.

## 6. Not modelled, and what could follow

Left out, with the reason:

* JSON parsing, schema validation and message models (`wire/`): data, not
  control. The models take decoded messages, and a frame that cannot be decoded
  is one kind of frame.
* The model vendors' request and response formats (`brain/llm/providers/`) and
  their SDKs: `Journal` lets a call be answered, refused, fail or be cancelled.
* Device drivers (`audio.py`, `camera.py`, `speech.py` below the process) are I/O;
  configuration is read once.
* Cancellation of the laptop body from outside, and the thread of a microphone
  read that outlives its cancellation: what the latter does to the device is
  not in this code.
* A NaN velocity, a TTL measured from the wrong moment and a clear that reports
  the state it finds afterwards: one handler each, and nothing for an
  interleaving to break that the run of one handler would not show.
* `BodyClient.connect` failing before there is a socket, which changes nothing,
  and the server's own start and stop.

What could follow: a `System` with a second session, in which the ledger that
outlives a session meets a brain that starts afresh.
