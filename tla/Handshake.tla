----------------------------- MODULE Handshake -----------------------------
(***************************************************************************)
(* Opening a session, and the sequence numbers of what is said in it: a    *)
(* BodyClient that dials again and again (src/src/bodies/client.py), or    *)
(* other callers, and the brain's handlers (src/src/brain: server.py,      *)
(* handshake.py, registry.py; src/src/wire/stamp.py).                      *)
(*                                                                         *)
(* A session is named by its connection, as the brain mints a fresh id for *)
(* each.  What a session does once it is open is BrainSession's and the    *)
(* body modules' concern: here a later frame only carries its number.      *)
(* Connections share nothing but the registry's dictionary, so the client  *)
(* and the callers that number their frames as they please are taken       *)
(* apart: a behaviour has one kind or the other.                           *)
(***************************************************************************)
EXTENDS Integers, Sequences, FiniteSets

CONSTANTS
  Conn,       \* connections that may be dialed
  Version,    \* protocol versions; dates, so they are ordered
  Supported,  \* the versions the brain speaks
  None,       \* Python's None
  CallerFrame, \* what the other callers send
  MaxSeq,     \* bound: the largest sequence number anybody takes
  MaxInFlight \* bound: frames of one body not yet received

\* Of any versions one may offer, one is the newest.
ASSUME VersionAssumption ==
  /\ Version \subseteq Nat
  /\ Supported \subseteq Version
  /\ \A some \in (SUBSET Version) \ {{}} : \E v \in some : \A w \in some : w <= v
ASSUME BoundAssumption == MaxSeq \in Nat \ {0} /\ MaxInFlight \in Nat

VARIABLES
  config,     \* the client's BodyConfig, or None when others dial instead of it
  next,       \* the client's SeqCounter._next
  dialing,    \* connect waits for the brain's reply
  conn,       \* the client's _connection
  session,    \* the client's _session
  version,    \* the client's _protocol_version
  link,       \* each connection's socket
  up,         \* what the brain has not yet received, oldest first
  down,       \* what the other end has not yet received
  handler,    \* where each connection's _handle is
  terms,      \* what an accepted hello was granted, and its number
  registered, \* SessionRegistry._records
  last,       \* SeqTracker._last of each session
  judged,     \* what SeqTracker.observe said so far of each session
  \* Kept for the properties.
  first,      \* the first frame sent over each connection
  dropped,    \* numbers taken in each session for frames that never left
  abandoned   \* connections on which the client's wait timed out

clientVars == <<config, next, dialing, conn, session, version, dropped, abandoned>>
brainVars == <<handler, terms, registered, last, judged>>
vars == <<clientVars, brainVars, link, up, down, first>>

Number == 1 .. MaxSeq
Offer == (SUBSET Version) \ {{}}
Config == [token : {"good", "bad"}, versions : Offer]
Hello == [type : {"hello"}, token : {"good", "bad"}, versions : Offer, seq : Number]
Later == [type : {"later"}, seq : Number]
Junk == [type |-> "junk"]  \* a frame decode refuses
Frame == Hello \cup Later \cup {Junk}
ASSUME CallerAssumption == CallerFrame \subseteq Frame

Terms == [version : Version, seq : Number]
Verdict == [taken : Nat, missing : Nat, repeated : BOOLEAN]
ASSUME NoneAssumption == None \notin Conn \cup Version \cup Config \cup Frame \cup Terms

Reply == [type : {"welcome"}, session : Conn, version : Version]
         \cup [type : {"reject"}, versions : SUBSET Version]

TypeOK ==
  /\ config \in Config \cup {None}
  /\ next \in 1 .. MaxSeq + 1
  /\ dialing \in BOOLEAN
  /\ conn \in Conn \cup {None}
  /\ session \in Conn \cup {None}
  /\ version \in Version \cup {None}
  /\ link \in [Conn -> {"unused", "up", "down"}]
  /\ up \in [Conn -> Seq(Frame)]
  /\ down \in [Conn -> Seq(Reply)]
  /\ handler \in [Conn -> {"none", "accepting", "refusing", "welcoming", "serving",
                           "gone", "broken"}]
  /\ terms \in [Conn -> Terms \cup {None}]
  /\ registered \in SUBSET Conn
  /\ last \in [Conn -> 0 .. MaxSeq]
  /\ judged \in [Conn -> Verdict]
  /\ first \in [Conn -> Frame \cup {None}]
  /\ dropped \in [Conn -> Nat]
  /\ abandoned \in SUBSET Conn

\* A client that has never connected, with any configuration, or no client.
Init ==
  /\ config \in Config \cup {None}
  /\ next = 1
  /\ dialing = FALSE
  /\ conn = None
  /\ session = None
  /\ version = None
  /\ link = [c \in Conn |-> "unused"]
  /\ up = [c \in Conn |-> <<>>]
  /\ down = [c \in Conn |-> <<>>]
  /\ handler = [c \in Conn |-> "none"]
  /\ terms = [c \in Conn |-> None]
  /\ registered = {}
  /\ last = [c \in Conn |-> 0]
  /\ judged = [c \in Conn |-> [taken |-> 0, missing |-> 0, repeated |-> FALSE]]
  /\ first = [c \in Conn |-> None]
  /\ dropped = [c \in Conn |-> 0]
  /\ abandoned = {}

-----------------------------------------------------------------------------
(* The decisions.                                                          *)

\* A slip: the body's order is trusted, or the comparison turned round.
OldestVersion(offered, supported) ==
  LET common == offered \cap supported
  IN IF common = {} THEN None
     ELSE CHOOSE v \in common : \A w \in common : v <= w

\* choose_version: the greatest of the versions both lists hold.
ChooseVersion(offered, supported) ==
  LET common == offered \cap supported
  IN IF common = {} THEN None
     ELSE CHOOSE v \in common : \A w \in common : w <= v

Reject(versions) == [type |-> "reject", versions |-> versions]

\* A slip: versions are negotiated first, the order SPEC section 5 shows.
OpenByVersion(c, hello) ==
  LET chosen == ChooseVersion(hello.versions, Supported)
  IN IF chosen = None THEN Reject(Supported)
     ELSE IF hello.token # "good" THEN Reject({})
     ELSE [type |-> "welcome", session |-> c, version |-> chosen]

\* open_session: the token first, so that a caller without it learns nothing.
OpenSession(c, hello) ==
  LET chosen == ChooseVersion(hello.versions, Supported)
  IN IF hello.token # "good" THEN Reject({})
     ELSE IF chosen = None THEN Reject(Supported)
     ELSE [type |-> "welcome", session |-> c, version |-> chosen]

\* What _open answers to the first frame, whatever it is.
Answer(c, frame) ==
  IF frame.type = "hello" THEN OpenSession(c, frame) ELSE Reject({})

\* A slip: a repeated number takes the tracker back.
ObserveFollows(c, seq) ==
  /\ last' = [last EXCEPT ![c] = seq]
  /\ judged' = [judged EXCEPT ![c] =
       IF seq > last[c]
       THEN [@ EXCEPT !.taken = @ + 1, !.missing = @ + (seq - last[c] - 1)]
       ELSE [@ EXCEPT !.repeated = TRUE]]

\* SeqTracker.observe: the next number, a gap before it, or a repetition.
Observe(c, seq) ==
  IF seq > last[c]
  THEN /\ last' = [last EXCEPT ![c] = seq]
       /\ judged' = [judged EXCEPT ![c].taken = @ + 1,
                                   ![c].missing = @ + (seq - last[c] - 1)]
  ELSE /\ judged' = [judged EXCEPT ![c].repeated = TRUE]
       /\ UNCHANGED last

-----------------------------------------------------------------------------
(* The client.                                                             *)

\* A slip: the counter starts from nothing.
HelloFromZero ==
  [type |-> "hello", token |-> config.token, versions |-> config.versions,
   seq |-> next - 1]

HelloFrame ==
  [type |-> "hello", token |-> config.token, versions |-> config.versions, seq |-> next]

\* connect, up to its wait.  Nothing resets the counter, and a connection a
\* failed dial has left behind is forgotten, not closed.
Dial(c) ==
  /\ config # None
  /\ ~dialing
  /\ session = None
  /\ link[c] = "unused"
  /\ next <= MaxSeq
  /\ link' = [link EXCEPT ![c] = "up"]
  /\ handler' = [handler EXCEPT ![c] = "accepting"]
  /\ up' = [up EXCEPT ![c] = <<HelloFrame>>]
  /\ first' = [first EXCEPT ![c] = HelloFrame]
  /\ next' = next + 1
  /\ conn' = c
  /\ dialing' = TRUE
  /\ UNCHANGED <<config, session, version, dropped, abandoned, down, terms, registered,
                 last, judged>>

Replied(type) ==
  /\ dialing
  /\ down[conn] # <<>>
  /\ Head(down[conn]).type = type
  /\ down' = [down EXCEPT ![conn] = Tail(@)]
  /\ dialing' = FALSE

Welcomed ==
  /\ Replied("welcome")
  /\ session' = Head(down[conn]).session
  /\ version' = Head(down[conn]).version
  /\ UNCHANGED <<config, next, conn, dropped, abandoned, brainVars, link, up, first>>

Rejected ==
  /\ Replied("reject")
  /\ link' = [link EXCEPT ![conn] = "down"]
  /\ conn' = None
  /\ UNCHANGED <<config, next, session, version, dropped, abandoned, brainVars, up,
                 first>>

\* The wait ends without a reply: the exception leaves the connection as it
\* is, open or dead.
DialTimesOut ==
  /\ dialing
  /\ dialing' = FALSE
  /\ abandoned' = abandoned \cup {conn}
  /\ UNCHANGED <<config, next, conn, session, version, dropped, brainVars, link, up,
                 down, first>>

DialLosesLink ==
  /\ dialing
  /\ link[conn] = "down"
  /\ down[conn] = <<>>
  /\ dialing' = FALSE
  /\ UNCHANGED <<config, next, conn, session, version, dropped, abandoned, brainVars,
                 link, up, down, first>>

\* Any frame after the hello: it takes its number when it is built.
Sends ==
  /\ session # None
  /\ link[conn] = "up"
  /\ next <= MaxSeq
  /\ Len(up[conn]) < MaxInFlight
  /\ up' = [up EXCEPT ![conn] = Append(@, [type |-> "later", seq |-> next])]
  /\ next' = next + 1
  /\ UNCHANGED <<config, dialing, conn, session, version, dropped, abandoned, brainVars,
                 link, down, first>>

\* encode refuses it, its sender is cancelled before its turn, or the socket
\* is dead: the number is spent.
SendFails ==
  /\ session # None
  /\ next <= MaxSeq
  /\ next' = next + 1
  /\ dropped' = [dropped EXCEPT ![session] = @ + 1]
  /\ UNCHANGED <<config, dialing, conn, session, version, abandoned, brainVars, link,
                 up, down, first>>

\* A slip: the reference is dropped and the socket is not closed.
ClosesNothing ==
  /\ ~dialing
  /\ conn # None
  /\ conn' = None
  /\ session' = None
  /\ UNCHANGED <<config, next, dialing, version, dropped, abandoned, brainVars, link,
                 up, down, first>>

Closes ==
  /\ ~dialing
  /\ conn # None
  /\ link' = [link EXCEPT ![conn] = "down"]
  /\ conn' = None
  /\ session' = None
  /\ UNCHANGED <<config, next, dialing, version, dropped, abandoned, brainVars, up,
                 down, first>>

ClientReceives == Welcomed \/ Rejected \/ DialLosesLink

Client ==
  \/ \E c \in Conn : Dial(c)
  \/ ClientReceives \/ DialTimesOut
  \/ Sends \/ SendFails \/ Closes

-----------------------------------------------------------------------------
(* The other callers.                                                      *)

CallerDials(c, frame) ==
  /\ config = None
  /\ link[c] = "unused"
  /\ link' = [link EXCEPT ![c] = "up"]
  /\ handler' = [handler EXCEPT ![c] = "accepting"]
  /\ up' = [up EXCEPT ![c] = <<frame>>]
  /\ first' = [first EXCEPT ![c] = frame]
  /\ UNCHANGED <<clientVars, down, terms, registered, last, judged>>

\* Bound: one frame under way, since nothing here but the order in which the
\* handler takes them depends on them.
CallerSends(c, frame) ==
  /\ config = None
  /\ link[c] = "up"
  /\ up[c] = <<>>
  /\ up' = [up EXCEPT ![c] = Append(@, frame)]
  /\ UNCHANGED <<clientVars, brainVars, link, down, first>>

Caller(c) == \E f \in CallerFrame : CallerDials(c, f) \/ CallerSends(c, f)

-----------------------------------------------------------------------------
(* The brain's handler of connection c.                                    *)

HandlerGoes(c, from, to) ==
  /\ handler[c] = from
  /\ handler' = [handler EXCEPT ![c] = to]

\* A slip: the reply is built, and not sent.
RepliesUnsent(c, reply) == UNCHANGED down

\* A reply to a socket that has died is lost; the handler finds out when the
\* send returns.
Replies(c, reply) ==
  down' = IF link[c] = "up" THEN [down EXCEPT ![c] = Append(@, reply)] ELSE down

\* The first frame is taken, judged and answered in one step.
Refuses(c) ==
  /\ HandlerGoes(c, "accepting", "refusing")
  /\ up[c] # <<>>
  /\ Answer(c, Head(up[c])).type = "reject"
  /\ Replies(c, Answer(c, Head(up[c])))
  /\ up' = [up EXCEPT ![c] = Tail(@)]
  /\ UNCHANGED <<clientVars, terms, registered, last, judged, link, first>>

Welcomes(c) ==
  /\ HandlerGoes(c, "accepting", "welcoming")
  /\ up[c] # <<>>
  /\ LET hello == Head(up[c])
         reply == Answer(c, hello)
     IN /\ reply.type = "welcome"
        /\ Replies(c, reply)
        /\ terms' = [terms EXCEPT ![c] = [version |-> reply.version, seq |-> hello.seq]]
  /\ up' = [up EXCEPT ![c] = Tail(@)]
  /\ UNCHANGED <<clientVars, registered, last, judged, link, first>>

\* Nothing usable came in time, or the caller went away.
AcceptTimesOut(c) ==
  /\ HandlerGoes(c, "accepting", "gone")
  /\ link' = [link EXCEPT ![c] = "down"]
  /\ UNCHANGED <<clientVars, terms, registered, last, judged, up, down, first>>

AcceptLosesLink(c) ==
  /\ HandlerGoes(c, "accepting", "gone")
  /\ link[c] = "down"
  /\ up[c] = <<>>
  /\ UNCHANGED <<clientVars, terms, registered, last, judged, link, up, down, first>>

RefusalSent(c) ==
  /\ HandlerGoes(c, "refusing", "gone")
  /\ link' = [link EXCEPT ![c] = "down"]
  /\ UNCHANGED <<clientVars, terms, registered, last, judged, up, down, first>>

\* A slip: the tracker starts where SeqTracker() does.
RegisterUnseeded(c) ==
  /\ registered' = registered \cup {c}
  /\ UNCHANGED last

\* SessionRegistry.open: the tracker starts from the hello's own number.
Register(c) ==
  /\ registered' = registered \cup {c}
  /\ last' = [last EXCEPT ![c] = terms[c].seq]

\* The welcome is out, and only now is there a session to receive for.
SessionOpens(c) ==
  /\ HandlerGoes(c, "welcoming", "serving")
  /\ link[c] = "up"
  /\ Register(c)
  /\ UNCHANGED <<clientVars, terms, judged, link, up, down, first>>

WelcomeFails(c) ==
  /\ HandlerGoes(c, "welcoming", "gone")
  /\ link[c] = "down"
  /\ UNCHANGED <<clientVars, terms, registered, last, judged, link, up, down, first>>

\* receive; an undecodable frame is passed over.
Receives(c) ==
  /\ handler[c] = "serving"
  /\ up[c] # <<>>
  /\ IF Head(up[c]) = Junk THEN UNCHANGED <<last, judged>>
                           ELSE Observe(c, Head(up[c]).seq)
  /\ up' = [up EXCEPT ![c] = Tail(@)]
  /\ UNCHANGED <<clientVars, handler, terms, registered, link, down, first>>

\* A slip: the session stays in the registry.
SessionEndsKept(c) ==
  /\ HandlerGoes(c, "serving", "gone")
  /\ link[c] = "down"
  /\ up[c] = <<>>
  /\ UNCHANGED <<clientVars, terms, registered, last, judged, link, up, down, first>>

SessionEnds(c) ==
  /\ HandlerGoes(c, "serving", "gone")
  /\ link[c] = "down"
  /\ up[c] = <<>>
  /\ registered' = registered \ {c}
  /\ UNCHANGED <<clientVars, terms, last, judged, link, up, down, first>>

\* The same when on_lost has raised, which some missed lease may have made it
\* do by now: awaiting the beat task raises again before the session is taken
\* out, and nothing takes it out later.
HandlerBreaks(c) ==
  /\ HandlerGoes(c, "serving", "broken")
  /\ link[c] = "down"
  /\ up[c] = <<>>
  /\ UNCHANGED <<clientVars, terms, registered, last, judged, link, up, down, first>>

HandlerRuns(c) ==
  \/ Refuses(c) \/ Welcomes(c) \/ AcceptLosesLink(c)
  \/ RefusalSent(c) \/ SessionOpens(c) \/ WelcomeFails(c)
  \/ Receives(c) \/ SessionEnds(c) \/ HandlerBreaks(c)

\* The network fails, either process ends, or on_message raises, which closes
\* the socket: part of what was under way still arrives, in order.
LinkDies(c) ==
  /\ link[c] = "up"
  /\ link' = [link EXCEPT ![c] = "down"]
  /\ \E m \in 0 .. Len(up[c]) : up' = [up EXCEPT ![c] = SubSeq(@, 1, m)]
  /\ \E n \in 0 .. Len(down[c]) : down' = [down EXCEPT ![c] = SubSeq(@, 1, n)]
  /\ UNCHANGED <<clientVars, brainVars, first>>

Next ==
  \/ Client
  \/ \E c \in Conn : Caller(c) \/ HandlerRuns(c) \/ AcceptTimesOut(c) \/ LinkDies(c)

Spec == Init /\ [][Next]_vars

\* asyncio runs what can run and a send ends.  That a wait times out is not
\* assumed, nor that anybody dials, sends or closes.
Fairness ==
  /\ WF_vars(ClientReceives)
  /\ \A c \in Conn : WF_vars(HandlerRuns(c))

FairSpec == Spec /\ Fairness

-----------------------------------------------------------------------------
(* What the two ends promise.                                              *)

\* The newest version two lists share, by definition.
NewestCommon(v, offered) ==
  /\ v \in offered \cap Supported
  /\ \A w \in offered \cap Supported : w <= v

\* Nothing without the token: a session the brain keeps was opened by a
\* hello that had it, on the newest version its caller shares, and a caller
\* without it is never told which versions there are (handshake.py:97-101).
TokenGuards ==
  \A c \in Conn :
    /\ c \in registered =>
         /\ first[c] \in Hello
         /\ first[c].token = "good"
         /\ NewestCommon(terms[c].version, first[c].versions)
    /\ first[c] \in Hello /\ first[c].token = "bad" =>
         \A i \in 1 .. Len(down[c]) : down[c][i] = Reject({})

\* A client in a session is in the one its own connection opened, on the
\* brain's terms, and the brain's handler is serving it, is about to, or has
\* seen the connection die.
EndsAgree ==
  session # None =>
    /\ session = conn
    /\ terms[session] # None
    /\ terms[session].version = version
    /\ NewestCommon(version, config.versions)
    /\ link[session] = "up" => handler[session] \in {"welcoming", "serving"}

\* The reverse: a session the brain keeps over a living connection is the
\* client's, or about to be, unless a dial of the client's timed out on it.
NoForgottenSession ==
  \A c \in registered \ abandoned :
    config # None /\ link[c] = "up" => conn = c /\ (dialing \/ session = c)

\* The client's frames are never judged repeated, and no more of them are
\* reported missing than were numbered and not sent, whatever the counter
\* stood at when the session began.
HonestFramesInOrder ==
  config # None =>
    \A c \in registered : ~judged[c].repeated /\ judged[c].missing <= dropped[c]

\* However a caller numbers its frames, the tracker stands at its hello's
\* number, plus the frames it took, plus those it called missing: none is
\* lost and none counted twice.
NumbersAddUp ==
  \A c \in registered :
    last[c] = terms[c].seq + judged[c].taken + judged[c].missing

\* A dial ends without anybody's patience running out: the two ends never
\* wait for each other.
DialAnswered == dialing ~> ~dialing

\* A client that was welcomed is served, or its connection has died; and a
\* session whose connection has died leaves the registry, unless on_lost
\* raised and the handler's clean-up was left half way (server.py:205-208).
WelcomedIsServed ==
  \A c \in Conn :
    /\ session = c ~> c \in registered \/ link[c] = "down"
    /\ c \in registered /\ link[c] = "down" ~> c \notin registered \/ handler[c] = "broken"
=============================================================================
