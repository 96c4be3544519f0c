-------------------------- MODULE Handshake_proofs --------------------------
(***************************************************************************)
(* Proofs about Handshake, for any connections, versions and bounds.       *)
(*                                                                         *)
(* They are built in layers, each inductive given those before it: where a *)
(* connection's handler, its socket and its queues stand to each other     *)
(* (Placed, Dialed); what the first frame, the terms and the replies under *)
(* way have to do with each other (Agreed); and where the client's numbers *)
(* stand to the tracker's (InOrder).                                       *)
(***************************************************************************)
EXTENDS Handshake, TLAPS, SequenceTheorems

-----------------------------------------------------------------------------
(* The inductive invariants.                                               *)

Unjudged == [taken |-> 0, missing |-> 0, repeated |-> FALSE]

\* What each place of the handler's implies of its connection.
Placed ==
  \A c \in Conn :
    /\ handler[c] = "none" <=> link[c] = "unused"
    /\ link[c] = "unused" => up[c] = <<>> /\ down[c] = <<>> /\ first[c] = None
    /\ handler[c] \in {"none", "accepting", "refusing"} => terms[c] = None
    /\ handler[c] \in {"welcoming", "serving", "broken"} => terms[c] # None
    /\ c \in registered <=> handler[c] \in {"serving", "broken"}
    /\ handler[c] \in {"none", "accepting", "welcoming"} => judged[c] = Unjudged
    /\ link[c] = "up" /\ terms[c] # None => handler[c] \in {"welcoming", "serving"}

Dialed ==
  /\ dialing => conn # None /\ session = None
  /\ session # None => conn # None
  /\ conn # None => config # None /\ link[conn] # "unused"

\* The handler judges the first frame, the terms are what that frame asked
\* for, and the replies under way say no more than that.
FirstJudged ==
  \A c \in Conn :
    /\ handler[c] = "accepting" /\ (up[c] # <<>> \/ link[c] = "up") =>
         up[c] # <<>> /\ up[c][1] = first[c]
    /\ terms[c] # None =>
         /\ first[c] \in Hello /\ first[c].token = "good"
         /\ terms[c].seq = first[c].seq
         /\ NewestCommon(terms[c].version, first[c].versions)
    /\ \A i \in 1 .. Len(down[c]) : down[c][i].type = "welcome" =>
         /\ terms[c] # None
         /\ down[c][i].session = c /\ down[c][i].version = terms[c].version
    /\ first[c] \in Hello /\ first[c].token = "bad" =>
         \A i \in 1 .. Len(down[c]) : down[c][i] = Reject({})

ClientKnown ==
  /\ session # None =>
       /\ session = conn
       /\ terms[conn] # None /\ terms[conn].version = version
  /\ config # None =>
       \A c \in Conn : first[c] # None =>
         first[c] \in Hello /\ first[c].versions = config.versions

Agreed == FirstJudged /\ ClientKnown

\* NoForgottenSession, whether or not the brain keeps a session yet.
Remembered ==
  config # None =>
    \A c \in Conn \ abandoned :
      link[c] = "up" => conn = c /\ (dialing \/ session = c)

\* The number the tracker of c stands at, or will start from.
Base(c) == IF c \in registered THEN last[c] ELSE terms[c].seq

\* The client's, over a living connection.
Live(c) == link[c] = "up" /\ conn = c /\ (dialing \/ session = c)

\* The client's frames under way lie in order above the tracker's number, and
\* the gaps that they have and will have are numbers dropped.
Numbered(c) ==
  /\ judged[c].missing <= dropped[c]
  /\ Base(c) < next
  /\ \A i \in 1 .. Len(up[c]) :
       /\ up[c][i] \in Later
       /\ Base(c) < up[c][i].seq
       /\ up[c][i].seq < next
       /\ up[c][i].seq - i + judged[c].missing <= Base(c) + dropped[c]
  /\ \A i, j \in 1 .. Len(up[c]) : i < j => up[c][i].seq < up[c][j].seq
  /\ Live(c) =>
       next - 1 - Len(up[c]) + judged[c].missing <= Base(c) + dropped[c]

InOrder ==
  config # None =>
    \A c \in Conn :
      /\ ~judged[c].repeated
      /\ first[c] # None => first[c].seq < next
      /\ handler[c] = "accepting" =>
           /\ Len(up[c]) <= 1
           /\ link[c] = "up" /\ conn = c /\ dialing => first[c].seq = next - 1
      /\ handler[c] \in {"welcoming", "serving", "broken"} => Numbered(c)

-----------------------------------------------------------------------------
(* The decisions.                                                          *)

\* One verdict moves one tracker, and adds the same to its sum as to its number.
LEMMA Observed ==
  ASSUME NEW c \in Conn, NEW seq \in Number, Observe(c, seq),
         last \in [Conn -> 0 .. MaxSeq],
         judged \in [Conn -> Verdict]
  PROVE  /\ last' \in [Conn -> 0 .. MaxSeq]
         /\ judged' \in [Conn -> Verdict]
         /\ \A d \in Conn \ {c} : last'[d] = last[d] /\ judged'[d] = judged[d]
         /\ last'[c] - judged'[c].taken - judged'[c].missing
              = last[c] - judged[c].taken - judged[c].missing
         /\ seq > last[c] =>
              /\ last'[c] = seq /\ judged'[c].repeated = judged[c].repeated
              /\ judged'[c].missing = judged[c].missing + (seq - last[c] - 1)
<1>1. MaxSeq \in Nat /\ seq \in Nat /\ last[c] \in Nat
  BY BoundAssumption DEF Number
<1>2. CASE seq > last[c]
  BY <1>1, <1>2 DEF Observe, Number, Verdict
<1>3. CASE ~(seq > last[c])
  BY <1>1, <1>3 DEF Observe, Number, Verdict
<1>4. QED
  BY <1>2, <1>3

\* ChooseVersion finds the newest common version, and None only if there is none.
LEMMA Choice ==
  ASSUME NEW offered \in SUBSET Version
  PROVE  \/ ChooseVersion(offered, Supported) = None
            /\ offered \cap Supported = {}
         \/ /\ ChooseVersion(offered, Supported) # None
            /\ ChooseVersion(offered, Supported) \in Version
            /\ NewestCommon(ChooseVersion(offered, Supported), offered)
<1> DEFINE common == offered \cap Supported
<1>1. CASE common = {}
  BY <1>1 DEF ChooseVersion
<1>2. CASE common # {}
  <2>1. common \in (SUBSET Version) \ {{}}
    BY <1>2, VersionAssumption
  <2>2. \E v \in common : \A w \in common : w <= v
    BY <2>1, VersionAssumption
  <2>3. ChooseVersion(offered, Supported)
          = CHOOSE v \in common : \A w \in common : w <= v
    BY <1>2 DEF ChooseVersion
  <2> HIDE DEF common
  <2>4. /\ ChooseVersion(offered, Supported) \in common
        /\ \A w \in common : w <= ChooseVersion(offered, Supported)
    BY <2>2, <2>3
  <2>5. QED
    BY <2>4, NoneAssumption DEF common, NewestCommon
<1>3. QED
  BY <1>1, <1>2

\* What open_session may answer: the token first, and a welcome to a hello only.
LEMMA Answers ==
  ASSUME NEW c \in Conn, NEW f \in Frame
  PROVE  /\ Answer(c, f) \in Reply
         /\ f \in Hello /\ f.token = "bad" => Answer(c, f) = Reject({})
         /\ Answer(c, f).type = "welcome" =>
              /\ f \in Hello /\ f.token = "good"
              /\ Answer(c, f).session = c
              /\ Answer(c, f).version \in Version
              /\ NewestCommon(Answer(c, f).version, f.versions)
<1>1. \A some \in SUBSET Version : Reject(some) \in Reply /\ Reject(some).type = "reject"
  BY DEF Reject, Reply
<1>2. CASE f \notin Hello
  <2>1. f.type # "hello"
    BY <1>2 DEF Frame, Later, Junk
  <2>2. Answer(c, f) = Reject({})
    BY <2>1 DEF Answer
  <2>3. QED
    BY <1>1, <1>2, <2>2
<1>3. CASE f \in Hello
  <2> DEFINE chosen == ChooseVersion(f.versions, Supported)
  <2>1. f.type = "hello" /\ f.token \in {"good", "bad"} /\ f.versions \in SUBSET Version
    BY <1>3 DEF Hello, Offer
  <2>2. \/ chosen = None
        \/ chosen \in Version /\ NewestCommon(chosen, f.versions)
    BY <2>1, Choice
  <2>3. Answer(c, f) = OpenSession(c, f)
    BY <2>1 DEF Answer
  <2>4. CASE f.token = "bad"
    BY <1>1, <2>3, <2>4 DEF OpenSession
  <2>5. CASE f.token = "good" /\ chosen = None
    BY <1>1, <2>3, <2>5, VersionAssumption DEF OpenSession
  <2>6. CASE f.token = "good" /\ chosen # None
    <3>1. Answer(c, f) = [type |-> "welcome", session |-> c, version |-> chosen]
      BY <2>3, <2>6 DEF OpenSession
    <3>2. chosen \in Version /\ NewestCommon(chosen, f.versions)
      BY <2>2, <2>6
    <3> HIDE DEF chosen
    <3>3. QED
      BY <1>3, <2>6, <3>1, <3>2 DEF Reply
  <2>7. QED
    BY <2>1, <2>4, <2>5, <2>6
<1>4. QED
  BY <1>2, <1>3

\* The kinds of frame, and that a hello is never a later frame.
LEMMA Frames ==
  /\ \A n \in Number : [type |-> "later", seq |-> n] \in Later
  /\ \A f \in Hello \cup Later : f \in Frame /\ f # Junk /\ f.seq \in Number
  /\ \A f \in Frame : f # Junk => f \in Hello \cup Later
  /\ \A f \in Hello : f.versions \in SUBSET Version
  /\ Hello \cap Later = {}
<1>1. \A f \in Hello : f.type = "hello" /\ f.seq \in Number /\ f.versions \in SUBSET Version
  BY DEF Hello, Offer
<1>2. \A f \in Later : f.type = "later" /\ f.seq \in Number
  BY DEF Later
<1>3. Junk.type = "junk"
  BY DEF Junk
<1>4. \A n \in Number : [type |-> "later", seq |-> n] \in Later
  BY DEF Later
<1>5. \A f \in Hello \cup Later : f \in Frame /\ f # Junk
  BY <1>1, <1>2, <1>3 DEF Frame
<1>6. \A f \in Frame : f # Junk => f \in Hello \cup Later
  BY DEF Frame
<1>7. Hello \cap Later = {}
  BY <1>1, <1>2
<1>8. QED
  BY <1>1, <1>2, <1>4, <1>5, <1>6, <1>7

\* What the client dials with is a hello on its own terms.
LEMMA HelloIsHello ==
  ASSUME config \in Config, next \in Number
  PROVE  /\ HelloFrame \in Hello
         /\ HelloFrame.versions = config.versions /\ HelloFrame.seq = next
BY DEF HelloFrame, Hello, Config

\* A welcome names a session and a version.
LEMMA WelcomeIsReply ==
  ASSUME NEW r \in Reply, r.type = "welcome"
  PROVE  r.session \in Conn /\ r.version \in Version
BY DEF Reply

-----------------------------------------------------------------------------
(* Types, and where handlers, sockets and queues stand to each other.      *)

\* Types, handlers' places and the client's fields, at the beginning.
LEMMA PlacedInit == Init => TypeOK /\ Placed /\ Dialed
<1>1. 1 \in 1 .. MaxSeq + 1 /\ 0 \in 0 .. MaxSeq
  BY BoundAssumption
<1> SUFFICES ASSUME Init PROVE TypeOK /\ Placed /\ Dialed
  OBVIOUS
<1>2. TypeOK
  <2>1. [taken |-> 0, missing |-> 0, repeated |-> FALSE] \in Verdict
    BY DEF Verdict
  <2>2. <<>> \in Seq(Frame) /\ <<>> \in Seq(Reply)
    OBVIOUS
  <2>3. up \in [Conn -> Seq(Frame)] /\ down \in [Conn -> Seq(Reply)]
    BY <2>2 DEF Init
  <2>4. judged \in [Conn -> Verdict] /\ terms \in [Conn -> Terms \cup {None}]
    BY <2>1 DEF Init
  <2>5. last \in [Conn -> 0 .. MaxSeq] /\ next \in 1 .. MaxSeq + 1
    BY <1>1 DEF Init
  <2>6. QED
    BY <2>3, <2>4, <2>5 DEF Init, TypeOK
<1>3. Placed
  BY DEF Init, Placed, Unjudged
<1>4. Dialed
  BY DEF Init, Dialed
<1>5. QED
  BY <1>2, <1>3, <1>4

\* However the handler of c leaves, unless it breaks, its connection is down
\* and its session is not in the registry.
Leaves(c) ==
  AcceptTimesOut(c) \/ AcceptLosesLink(c) \/ RefusalSent(c) \/ WelcomeFails(c)
  \/ SessionEnds(c)

\* A handler that leaves takes its socket and its registration with it.
LEMMA Leaving ==
  ASSUME TypeOK, Placed, NEW c \in Conn, Leaves(c)
  PROVE  /\ handler[c] # "none" /\ handler[c] # "gone"
         /\ handler' = [handler EXCEPT ![c] = "gone"]
         /\ link' = [link EXCEPT ![c] = "down"]
         /\ registered' = registered \ {c}
         /\ UNCHANGED <<clientVars, terms, last, judged, up, down, first>>
<1>1. link[c] = "down" => [link EXCEPT ![c] = "down"] = link
  BY DEF TypeOK
<1>2. handler[c] \notin {"serving", "broken"} => registered \ {c} = registered
  BY DEF Placed
<1>3. CASE AcceptTimesOut(c) \/ RefusalSent(c)
  BY <1>2, <1>3 DEF AcceptTimesOut, RefusalSent, HandlerGoes
<1>4. CASE AcceptLosesLink(c) \/ WelcomeFails(c)
  BY <1>1, <1>2, <1>4 DEF AcceptLosesLink, WelcomeFails, HandlerGoes
<1>5. CASE SessionEnds(c)
  BY <1>1, <1>5 DEF SessionEnds, HandlerGoes
<1>6. QED
  BY <1>3, <1>4, <1>5 DEF Leaves

\* Types, handlers' places and the client's fields are kept by every step.
LEMMA PlacedStep ==
  ASSUME TypeOK, Placed, Dialed, [Next]_vars
  PROVE  (TypeOK /\ Placed /\ Dialed)'
<1> USE BoundAssumption, NoneAssumption
<1>1. ASSUME NEW c \in Conn, Dial(c)
      PROVE  (TypeOK /\ Placed /\ Dialed)'
  <2>1. HelloFrame \in Frame /\ next \in Number
    BY <1>1, HelloIsHello, Frames DEF Dial, TypeOK, Number
  <2>2. TypeOK'
    BY <1>1, <2>1 DEF Dial, TypeOK, Number
  <2>3. Placed'
    BY <1>1 DEF Dial, TypeOK, Placed
  <2>4. Dialed'
    BY <1>1 DEF Dial, TypeOK, Dialed
  <2>5. QED
    BY <2>2, <2>3, <2>4
<1>2. CASE Welcomed
  <2>1. conn \in Conn /\ down[conn] \in Seq(Reply) /\ down[conn] # <<>>
    BY <1>2 DEF Welcomed, Replied, Dialed, TypeOK
  <2>2. /\ Head(down[conn]) \in Reply /\ Tail(down[conn]) \in Seq(Reply)
        /\ Head(down[conn]).type = "welcome"
    BY <1>2, <2>1, HeadTailProperties DEF Welcomed, Replied
  <2>3. Head(down[conn]).session \in Conn /\ Head(down[conn]).version \in Version
    BY <2>2, WelcomeIsReply
  <2>4. TypeOK'
    BY <1>2, <2>1, <2>2, <2>3 DEF Welcomed, Replied, TypeOK, brainVars
  <2>5. Placed'
    BY <1>2, <2>1 DEF Welcomed, Replied, TypeOK, Placed, Dialed, brainVars
  <2>6. Dialed'
    BY <1>2, <2>1 DEF Welcomed, Replied, Dialed, TypeOK
  <2>7. QED
    BY <2>4, <2>5, <2>6
<1>3. CASE Rejected
  <2>1. conn \in Conn /\ down[conn] \in Seq(Reply) /\ down[conn] # <<>>
    BY <1>3 DEF Rejected, Replied, Dialed, TypeOK
  <2>2. Tail(down[conn]) \in Seq(Reply)
    BY <2>1, HeadTailProperties
  <2>3. TypeOK'
    BY <1>3, <2>1, <2>2 DEF Rejected, Replied, TypeOK, brainVars
  <2>4. Placed'
    BY <1>3, <2>1 DEF Rejected, Replied, TypeOK, Placed, Dialed, brainVars
  <2>5. Dialed'
    BY <1>3, <2>1 DEF Rejected, Replied, Dialed, TypeOK
  <2>6. QED
    BY <2>3, <2>4, <2>5
<1>4. CASE DialTimesOut
  <2>1. conn \in Conn
    BY <1>4 DEF DialTimesOut, Dialed, TypeOK
  <2>2. TypeOK'
    BY <1>4, <2>1 DEF DialTimesOut, TypeOK, brainVars
  <2>3. Placed' /\ Dialed'
    BY <1>4, <2>1 DEF DialTimesOut, Placed, Dialed, brainVars
  <2>4. QED
    BY <2>2, <2>3
<1>5. CASE DialLosesLink
  <2>1. TypeOK'
    BY <1>5 DEF DialLosesLink, TypeOK, brainVars
  <2>2. Placed' /\ Dialed'
    BY <1>5 DEF DialLosesLink, Placed, Dialed, brainVars
  <2>3. QED
    BY <2>1, <2>2
<1>6. CASE Sends
  <2>1. conn \in Conn /\ up[conn] \in Seq(Frame)
    BY <1>6 DEF Sends, Dialed, TypeOK
  <2>2. [type |-> "later", seq |-> next] \in Frame
    BY <1>6, Frames DEF Sends, TypeOK, Number
  <2>3. Append(up[conn], [type |-> "later", seq |-> next]) \in Seq(Frame)
    BY <2>1, <2>2, AppendProperties
  <2>4. TypeOK'
    BY <1>6, <2>1, <2>3 DEF Sends, TypeOK, brainVars
  <2>5. Placed'
    BY <1>6, <2>1 DEF Sends, TypeOK, Placed, brainVars
  <2>6. Dialed'
    BY <1>6 DEF Sends, Dialed
  <2>7. QED
    BY <2>4, <2>5, <2>6
<1>7. CASE SendFails
  <2>1. TypeOK'
    BY <1>7 DEF SendFails, TypeOK, brainVars
  <2>2. Placed' /\ Dialed'
    BY <1>7 DEF SendFails, Placed, Dialed, brainVars
  <2>3. QED
    BY <2>1, <2>2
<1>8. CASE Closes
  <2>1. TypeOK'
    BY <1>8 DEF Closes, TypeOK, brainVars
  <2>2. Placed' /\ Dialed'
    BY <1>8 DEF Closes, TypeOK, Placed, Dialed, brainVars
  <2>3. QED
    BY <2>1, <2>2
<1>9. ASSUME NEW c \in Conn, NEW f \in CallerFrame, CallerDials(c, f)
      PROVE  (TypeOK /\ Placed /\ Dialed)'
  <2>1. f \in Frame /\ f # None => <<f>> \in Seq(Frame)
    BY CallerAssumption
  <2>2. TypeOK'
    BY <1>9, <2>1, CallerAssumption DEF CallerDials, TypeOK, clientVars
  <2>3. Placed'
    BY <1>9 DEF CallerDials, TypeOK, Placed
  <2>4. Dialed'
    BY <1>9 DEF CallerDials, TypeOK, Dialed, clientVars
  <2>5. QED
    BY <2>2, <2>3, <2>4
<1>10. ASSUME NEW c \in Conn, NEW f \in CallerFrame, CallerSends(c, f)
       PROVE  (TypeOK /\ Placed /\ Dialed)'
  <2>1. f \in Frame /\ Append(up[c], f) \in Seq(Frame)
    BY CallerAssumption, AppendProperties DEF TypeOK
  <2>2. TypeOK'
    BY <1>10, <2>1 DEF CallerSends, TypeOK, clientVars, brainVars
  <2>3. Placed'
    BY <1>10 DEF CallerSends, TypeOK, Placed, brainVars
  <2>4. Dialed'
    BY <1>10 DEF CallerSends, Dialed, clientVars
  <2>5. QED
    BY <2>2, <2>3, <2>4
<1>11. ASSUME NEW c \in Conn, Refuses(c) \/ Welcomes(c)
       PROVE  (TypeOK /\ Placed /\ Dialed)'
  <2> DEFINE f == Head(up[c])
             reply == Answer(c, f)
  <2>1. f \in Frame /\ Tail(up[c]) \in Seq(Frame) /\ handler[c] = "accepting"
    BY <1>11, HeadTailProperties DEF Refuses, Welcomes, HandlerGoes, TypeOK
  <2>2. /\ reply \in Reply
        /\ reply.type = "welcome" => f \in Hello /\ reply.version \in Version
    BY <2>1, Answers
  <2>3. Append(down[c], reply) \in Seq(Reply)
    BY <2>2, AppendProperties DEF TypeOK
  <2> HIDE DEF f, reply
  <2>4. /\ down' \in [Conn -> Seq(Reply)]
        /\ \A d \in Conn : down'[d] # down[d] => link[d] = "up"
    <3>1. Replies(c, reply)
      BY <1>11 DEF Refuses, Welcomes, f, reply
    <3>2. QED
      BY <2>3, <3>1 DEF Replies, TypeOK
  <2>5. up' \in [Conn -> Seq(Frame)] /\ \A d \in Conn \ {c} : up'[d] = up[d]
    <3>1. up' = [up EXCEPT ![c] = Tail(up[c])]
      BY <1>11 DEF Refuses, Welcomes
    <3>2. QED
      BY <2>1, <3>1 DEF TypeOK
  <2>6. /\ terms' \in [Conn -> Terms \cup {None}]
        /\ \A d \in Conn \ {c} : terms'[d] = terms[d]
        /\ handler'[c] = "refusing" => terms'[c] = terms[c]
        /\ handler'[c] = "welcoming" => terms'[c] # None
    <3>1. CASE Refuses(c)
      BY <3>1 DEF Refuses, HandlerGoes, TypeOK
    <3>2. CASE Welcomes(c)
      <4>1. f \in Hello /\ reply.version \in Version /\ f.seq \in Number
        BY <2>2, <3>2, Frames DEF Welcomes, f, reply
      <4> DEFINE granted == [version |-> reply.version, seq |-> f.seq]
      <4>2. granted \in Terms /\ granted # None
        BY <4>1, NoneAssumption DEF Terms
      <4>3. terms' = [terms EXCEPT ![c] = granted]
        BY <3>2 DEF Welcomes, f, reply
      <4> HIDE DEF granted
      <4>4. handler'[c] = "welcoming"
        BY <3>2 DEF Welcomes, HandlerGoes, TypeOK
      <4>5. QED
        BY <4>2, <4>3, <4>4 DEF TypeOK
    <3>3. QED
      BY <1>11, <3>1, <3>2
  <2>7. /\ handler' = [handler EXCEPT ![c] = IF Refuses(c) THEN "refusing"
                                             ELSE "welcoming"]
        /\ UNCHANGED <<clientVars, registered, last, judged, link, first>>
    BY <1>11 DEF Refuses, Welcomes, HandlerGoes
  <2>8. TypeOK'
    BY <2>4, <2>5, <2>6, <2>7 DEF TypeOK, clientVars
  <2>9. Placed'
    BY <2>1, <2>4, <2>5, <2>6, <2>7 DEF TypeOK, Placed
  <2>10. Dialed'
    BY <2>7 DEF Dialed, clientVars
  <2>11. QED
    BY <2>8, <2>9, <2>10
<1>12. ASSUME NEW c \in Conn, Leaves(c)
       PROVE  (TypeOK /\ Placed /\ Dialed)'
  <2>1. TypeOK'
    BY <1>12, Leaving DEF TypeOK, clientVars
  <2>2. Placed'
    BY <1>12, Leaving DEF TypeOK, Placed
  <2>3. Dialed'
    BY <1>12, Leaving DEF TypeOK, Placed, Dialed, clientVars
  <2>4. QED
    BY <2>1, <2>2, <2>3
<1>13. ASSUME NEW c \in Conn, SessionOpens(c)
       PROVE  (TypeOK /\ Placed /\ Dialed)'
  <2>1. terms[c].seq \in Number
    BY <1>13 DEF SessionOpens, HandlerGoes, TypeOK, Placed, Terms
  <2>2. TypeOK'
    <3>1. /\ handler' = [handler EXCEPT ![c] = "serving"]
          /\ registered' = registered \cup {c}
          /\ last' = [last EXCEPT ![c] = terms[c].seq]
          /\ UNCHANGED <<clientVars, terms, judged, link, up, down, first>>
      BY <1>13 DEF SessionOpens, Register, HandlerGoes
    <3>2. terms[c].seq \in 0 .. MaxSeq
      BY <2>1, BoundAssumption DEF Number
    <3>3. last' \in [Conn -> 0 .. MaxSeq]
      BY <3>1, <3>2 DEF TypeOK
    <3>4. handler' \in [Conn -> {"none", "accepting", "refusing", "welcoming", "serving",
                                 "gone", "broken"}]
      BY <3>1 DEF TypeOK
    <3>5. registered' \in SUBSET Conn
      BY <3>1 DEF TypeOK
    <3>6. /\ config' = config /\ next' = next /\ dialing' = dialing /\ conn' = conn
          /\ session' = session /\ version' = version /\ dropped' = dropped
          /\ abandoned' = abandoned /\ terms' = terms /\ judged' = judged
          /\ link' = link /\ up' = up /\ down' = down /\ first' = first
      BY <3>1 DEF clientVars
    <3>7. QED BY <3>3, <3>4, <3>5, <3>6 DEF TypeOK
  <2>3. Placed'
    BY <1>13 DEF SessionOpens, Register, HandlerGoes, TypeOK, Placed
  <2>4. Dialed'
    BY <1>13 DEF SessionOpens, Dialed, clientVars
  <2>5. QED
    BY <2>2, <2>3, <2>4
<1>14. ASSUME NEW c \in Conn, Receives(c)
       PROVE  (TypeOK /\ Placed /\ Dialed)'
  <2>1. Head(up[c]) \in Frame /\ Tail(up[c]) \in Seq(Frame)
    BY <1>14, HeadTailProperties DEF Receives, TypeOK
  <2>2. /\ last' \in [Conn -> 0 .. MaxSeq]
        /\ judged' \in [Conn -> Verdict]
        /\ \A d \in Conn \ {c} : judged'[d] = judged[d]
    <3>1. CASE Head(up[c]) = Junk
      BY <1>14, <3>1 DEF Receives, TypeOK
    <3>2. CASE Head(up[c]) # Junk
      <4>1. Head(up[c]).seq \in Number /\ Observe(c, Head(up[c]).seq)
        BY <1>14, <2>1, <3>2, Frames DEF Receives
      <4>2. QED
        BY <4>1, Observed DEF TypeOK
    <3>3. QED
      BY <3>1, <3>2
  <2>3. TypeOK'
    BY <1>14, <2>1, <2>2 DEF Receives, TypeOK, clientVars
  <2>4. Placed'
    BY <1>14, <2>2 DEF Receives, TypeOK, Placed
  <2>5. Dialed'
    BY <1>14 DEF Receives, Dialed, clientVars
  <2>6. QED
    BY <2>3, <2>4, <2>5
<1>15. ASSUME NEW c \in Conn, LinkDies(c)
       PROVE  (TypeOK /\ Placed /\ Dialed)'
  <2>1. PICK m \in 0 .. Len(up[c]) : up' = [up EXCEPT ![c] = SubSeq(up[c], 1, m)]
    BY <1>15 DEF LinkDies
  <2>2. PICK n \in 0 .. Len(down[c]) : down' = [down EXCEPT ![c] = SubSeq(down[c], 1, n)]
    BY <1>15 DEF LinkDies
  <2>3. SubSeq(up[c], 1, m) \in Seq(Frame) /\ SubSeq(down[c], 1, n) \in Seq(Reply)
    BY SubSeqProperties DEF TypeOK
  <2>4. TypeOK'
    BY <1>15, <2>1, <2>2, <2>3 DEF LinkDies, TypeOK, clientVars, brainVars
  <2>5. Placed'
    BY <1>15, <2>1, <2>2 DEF LinkDies, TypeOK, Placed, brainVars
  <2>6. Dialed'
    BY <1>15 DEF LinkDies, TypeOK, Dialed, clientVars
  <2>7. QED
    BY <2>4, <2>5, <2>6
<1>16. CASE UNCHANGED vars
  <2>1. TypeOK'
    BY <1>16 DEF vars, clientVars, brainVars, TypeOK
  <2>2. Placed' /\ Dialed'
    BY <1>16 DEF vars, clientVars, brainVars, Placed, Dialed
  <2>3. QED
    BY <2>1, <2>2
<1>17. ASSUME NEW c \in Conn, HandlerBreaks(c)
       PROVE  (TypeOK /\ Placed /\ Dialed)'
  <2>1. TypeOK'
    BY <1>17 DEF HandlerBreaks, HandlerGoes, TypeOK, clientVars
  <2>2. Placed'
    BY <1>17 DEF HandlerBreaks, HandlerGoes, TypeOK, Placed
  <2>3. Dialed'
    BY <1>17 DEF HandlerBreaks, Dialed, clientVars
  <2>4. QED
    BY <2>1, <2>2, <2>3
<1>18. QED
  BY <1>1, <1>2, <1>3, <1>4, <1>5, <1>6, <1>7, <1>8, <1>9, <1>10, <1>11, <1>12,
     <1>13, <1>14, <1>15, <1>16, <1>17
     DEF Next, Client, ClientReceives, Caller, HandlerRuns, Leaves

\* What TypeOK and the two books of places say, always.
LEMMA Started == Spec => [](TypeOK /\ Placed /\ Dialed)
BY PlacedInit, PlacedStep, PTL DEF Spec

\* Every variable keeps its type: a counter never passes its bound, and a
\* handler that reads a hello's terms has them.
THEOREM TypeCorrect == Spec => []TypeOK
BY Started, PTL

-----------------------------------------------------------------------------
(* The first frame, the terms and the replies.                             *)

\* The elements of a tail, by their number in the whole.
LEMMA TailElements ==
  ASSUME NEW S, NEW s \in Seq(S), s # <<>>
  PROVE  /\ Len(Tail(s)) = Len(s) - 1
         /\ \A i \in 1 .. Len(Tail(s)) : i + 1 \in 1 .. Len(s) /\ Tail(s)[i] = s[i + 1]
BY HeadTailProperties

\* The elements of a prefix, by their number in the whole.
LEMMA PrefixElements ==
  ASSUME NEW S, NEW s \in Seq(S), NEW m \in 0 .. Len(s)
  PROVE  /\ Len(SubSeq(s, 1, m)) = m
         /\ \A i \in 1 .. m : i \in 1 .. Len(s) /\ SubSeq(s, 1, m)[i] = s[i]
BY SubSeqProperties

\* Nothing is judged and nothing known at the beginning.
LEMMA AgreedInit == Init => Agreed
BY DEF Init, Agreed, FirstJudged, ClientKnown

\* A handler's terms stay those its first frame deserved.
LEMMA FirstJudgedStep ==
  ASSUME TypeOK, Placed, Dialed, Agreed, [Next]_vars
  PROVE  FirstJudged'
<1> USE NoneAssumption DEF Agreed
<1>1. ASSUME NEW c \in Conn, Dial(c)
      PROVE  FirstJudged'
  <2>1. terms[c] = None /\ down[c] = <<>>
    BY <1>1 DEF Dial, Placed
  <2>2. /\ up'[c] # <<>> /\ up'[c][1] = first'[c] /\ terms' = terms /\ down' = down
        /\ \A d \in Conn \ {c} : /\ up'[d] = up[d] /\ first'[d] = first[d]
                                 /\ handler'[d] = handler[d] /\ link'[d] = link[d]
    BY <1>1 DEF Dial, TypeOK
  <2>3. QED
    BY <2>1, <2>2 DEF FirstJudged
<1>2. CASE Welcomed \/ Rejected
  <2>1. conn \in Conn /\ down[conn] \in Seq(Reply) /\ down[conn] # <<>>
    BY <1>2 DEF Welcomed, Rejected, Replied, Dialed, TypeOK
  <2>2. /\ down' = [down EXCEPT ![conn] = Tail(down[conn])]
        /\ UNCHANGED <<up, first, terms, handler>>
        /\ \A d \in Conn : link'[d] \in {link[d], "down"}
    BY <1>2 DEF Welcomed, Rejected, Replied, brainVars, TypeOK
  <2>3. \A d \in Conn \ {conn} : down'[d] = down[d]
    BY <2>2 DEF TypeOK
  <2>4. \A i \in 1 .. Len(down'[conn]) :
          i + 1 \in 1 .. Len(down[conn]) /\ down'[conn][i] = down[conn][i + 1]
    BY <2>1, <2>2, TailElements DEF TypeOK
  <2>5. QED
    BY <2>1, <2>2, <2>3, <2>4 DEF FirstJudged
<1>3. CASE Sends
  <2>1. conn \in Conn /\ handler[conn] # "accepting"
    BY <1>3 DEF Sends, ClientKnown, Placed, Dialed, TypeOK
  <2>2. /\ UNCHANGED <<down, first, terms, handler, link>>
        /\ \A d \in Conn \ {conn} : up'[d] = up[d]
    BY <1>3 DEF Sends, brainVars, TypeOK
  <2>3. QED
    BY <2>1, <2>2 DEF FirstJudged
<1>4. CASE Closes
  BY <1>4 DEF Closes, FirstJudged, brainVars, TypeOK
<1>5. CASE DialTimesOut \/ DialLosesLink \/ SendFails
  BY <1>5 DEF DialTimesOut, DialLosesLink, SendFails, FirstJudged, brainVars
<1>6. ASSUME NEW c \in Conn, NEW f \in CallerFrame, CallerDials(c, f)
      PROVE  FirstJudged'
  <2>1. terms[c] = None /\ down[c] = <<>>
    BY <1>6 DEF CallerDials, Placed
  <2>2. /\ up'[c] # <<>> /\ up'[c][1] = first'[c] /\ terms' = terms /\ down' = down
        /\ \A d \in Conn \ {c} : /\ up'[d] = up[d] /\ first'[d] = first[d]
                                 /\ handler'[d] = handler[d] /\ link'[d] = link[d]
    BY <1>6 DEF CallerDials, TypeOK
  <2>3. QED
    BY <2>1, <2>2 DEF FirstJudged
<1>7. ASSUME NEW c \in Conn, NEW f \in CallerFrame, CallerSends(c, f)
      PROVE  FirstJudged'
  <2>1. handler[c] # "accepting"
    BY <1>7 DEF CallerSends, FirstJudged
  <2>2. /\ UNCHANGED <<down, first, terms, handler, link>>
        /\ \A d \in Conn \ {c} : up'[d] = up[d]
    BY <1>7 DEF CallerSends, brainVars, TypeOK
  <2>3. QED
    BY <2>1, <2>2 DEF FirstJudged
<1>8. ASSUME NEW c \in Conn, Refuses(c) \/ Welcomes(c)
      PROVE  FirstJudged'
  <2> DEFINE f == Head(up[c])
             reply == Answer(c, f)
  <2>1. /\ handler[c] = "accepting" /\ up[c] # <<>> /\ terms[c] = None
        /\ f = first[c] /\ f \in Frame
    BY <1>8, HeadTailProperties
       DEF Refuses, Welcomes, HandlerGoes, Placed, FirstJudged, TypeOK
  <2>2. /\ f \in Hello /\ f.token = "bad" => reply = Reject({})
        /\ reply.type = "welcome" =>
             /\ f \in Hello /\ f.token = "good" /\ reply.session = c
             /\ NewestCommon(reply.version, f.versions)
    BY <2>1, Answers
  <2>3. /\ UNCHANGED <<link, first>>
        /\ handler'[c] # "accepting"
        /\ \A d \in Conn \ {c} : /\ up'[d] = up[d] /\ handler'[d] = handler[d]
                                 /\ down'[d] = down[d] /\ terms'[d] = terms[d]
    BY <1>8 DEF Refuses, Welcomes, HandlerGoes, Replies, TypeOK
  <2>4. down'[c] = down[c] \/ down'[c] = Append(down[c], reply)
    BY <1>8 DEF Refuses, Welcomes, Replies, TypeOK
  <2>5. \/ reply.type = "reject" /\ terms'[c] = None
        \/ /\ reply.type = "welcome"
           /\ terms'[c] = [version |-> reply.version, seq |-> f.seq]
    BY <1>8, <2>1 DEF Refuses, Welcomes, TypeOK
  <2> HIDE DEF f, reply
  <2>6. \A i \in 1 .. Len(down[c]) : down[c][i].type # "welcome"
    BY <2>1 DEF FirstJudged
  <2>7. \A i \in 1 .. Len(down'[c]) :
          \/ i \in 1 .. Len(down[c]) /\ down'[c][i] = down[c][i]
          \/ down'[c][i] = reply
    <3>1. down[c] \in Seq(Reply) /\ Len(down[c]) \in Nat /\ reply \in Reply
      BY <2>1, Answers DEF TypeOK, reply
    <3>2. CASE down'[c] = down[c]
      BY <3>2
    <3>3. CASE down'[c] = Append(down[c], reply)
      <4>1. /\ Len(down'[c]) = Len(down[c]) + 1
            /\ down'[c][Len(down[c]) + 1] = reply
            /\ \A i \in 1 .. Len(down[c]) : down'[c][i] = down[c][i]
        BY <3>1, <3>3
      <4>2. QED BY <3>1, <4>1
    <3>4. QED BY <2>4, <3>2, <3>3
  <2>8. \A i \in 1 .. Len(down'[c]) :
          down'[c][i].type = "welcome" => down'[c][i] = reply
    BY <2>6, <2>7
  <2>9. ASSUME first[c] \in Hello, first[c].token = "bad", NEW i \in 1 .. Len(down'[c])
        PROVE  down'[c][i] = Reject({})
    BY <2>1, <2>2, <2>7, <2>9 DEF FirstJudged
  <2>10. terms'[c] # None =>
           /\ reply.type = "welcome" /\ f \in Hello
           /\ terms'[c].version = reply.version /\ terms'[c].seq = f.seq
    BY <2>2, <2>5
  <2>11. reply.type = "welcome" => terms'[c] # None
    <3>1. ASSUME reply.type = "welcome"
          PROVE  [version |-> reply.version, seq |-> f.seq] \in Terms
      BY <2>1, <2>2, <3>1, Answers, Frames DEF Terms, reply
    <3>2. QED
      BY <2>5, <3>1
  <2>12. QED
    BY <2>1, <2>2, <2>3, <2>8, <2>9, <2>10, <2>11 DEF FirstJudged
<1>9. ASSUME NEW c \in Conn, Leaves(c)
      PROVE  FirstJudged'
  <2>1. /\ UNCHANGED <<up, down, first, terms>>
        /\ handler'[c] = "gone"
        /\ \A d \in Conn \ {c} : handler'[d] = handler[d] /\ link'[d] = link[d]
    BY <1>9, Leaving DEF TypeOK
  <2>2. QED
    BY <2>1 DEF FirstJudged
<1>10. ASSUME NEW c \in Conn, SessionOpens(c) \/ HandlerBreaks(c)
       PROVE  FirstJudged'
  <2>1. /\ UNCHANGED <<up, down, first, terms, link>>
        /\ handler'[c] # "accepting"
        /\ \A d \in Conn \ {c} : handler'[d] = handler[d]
    BY <1>10 DEF SessionOpens, HandlerBreaks, HandlerGoes, TypeOK
  <2>2. QED
    BY <2>1 DEF FirstJudged
<1>11. ASSUME NEW c \in Conn, Receives(c)
       PROVE  FirstJudged'
  <2>1. /\ handler[c] # "accepting"
        /\ UNCHANGED <<down, first, terms, handler, link>>
        /\ \A d \in Conn \ {c} : up'[d] = up[d]
    BY <1>11 DEF Receives, TypeOK
  <2>2. QED
    BY <2>1 DEF FirstJudged
<1>12. ASSUME NEW c \in Conn, LinkDies(c)
       PROVE  FirstJudged'
  <2>1. PICK m \in 0 .. Len(up[c]) : up' = [up EXCEPT ![c] = SubSeq(up[c], 1, m)]
    BY <1>12 DEF LinkDies
  <2>2. PICK n \in 0 .. Len(down[c]) : down' = [down EXCEPT ![c] = SubSeq(down[c], 1, n)]
    BY <1>12 DEF LinkDies
  <2>3. /\ UNCHANGED <<first, terms, handler>>
        /\ link'[c] = "down"
        /\ \A d \in Conn \ {c} : /\ up'[d] = up[d] /\ down'[d] = down[d]
                                 /\ link'[d] = link[d]
    BY <1>12 DEF LinkDies, brainVars, TypeOK
  <2>4. \A i \in 1 .. Len(down'[c]) : i \in 1 .. Len(down[c]) /\ down'[c][i] = down[c][i]
    BY <2>2, PrefixElements DEF TypeOK
  <2>5. up'[c] # <<>> => up[c] # <<>> /\ up'[c][1] = up[c][1]
    BY <2>1, PrefixElements DEF TypeOK
  <2>6. \A i \in 1 .. Len(down'[c]) : down[c][i].type = "welcome" =>
          /\ terms[c] # None
          /\ down[c][i].session = c /\ down[c][i].version = terms[c].version
    BY <2>4 DEF FirstJudged
  <2>7. first[c] \in Hello /\ first[c].token = "bad" =>
          \A i \in 1 .. Len(down'[c]) : down[c][i] = Reject({})
    BY <2>4 DEF FirstJudged
  <2>8. ASSUME NEW d \in Conn \ {c}
        PROVE  /\ up'[d] = up[d] /\ down'[d] = down[d] /\ link'[d] = link[d]
               /\ handler'[d] = handler[d] /\ terms'[d] = terms[d] /\ first'[d] = first[d]
    BY <2>3
  <2>9. DEFINE Judged(d) ==
                 /\ handler[d] = "accepting" /\ (up[d] # <<>> \/ link[d] = "up") =>
                      up[d] # <<>> /\ up[d][1] = first[d]
                 /\ terms[d] # None =>
                      /\ first[d] \in Hello /\ first[d].token = "good"
                      /\ terms[d].seq = first[d].seq
                      /\ NewestCommon(terms[d].version, first[d].versions)
                 /\ \A i \in 1 .. Len(down[d]) : down[d][i].type = "welcome" =>
                      /\ terms[d] # None
                      /\ down[d][i].session = d /\ down[d][i].version = terms[d].version
                 /\ first[d] \in Hello /\ first[d].token = "bad" =>
                      \A i \in 1 .. Len(down[d]) : down[d][i] = Reject({})
  <2>10. \A d \in Conn : Judged(d)
    BY DEF FirstJudged
  <2>11. ASSUME NEW d \in Conn \ {c}
         PROVE  Judged(d)'
    <3>1. Judged(d)
      BY <2>10
    <3>2. QED
      BY <2>8, <2>11, <3>1
  <2>12. Judged(c)'
    <3>1. Judged(c)
      BY <2>10
    <3>2. /\ handler'[c] = handler[c] /\ first'[c] = first[c] /\ terms'[c] = terms[c]
      BY <2>3
    <3>3. handler'[c] = "accepting" /\ (up'[c] # <<>> \/ link'[c] = "up") =>
            up'[c] # <<>> /\ up'[c][1] = first'[c]
      BY <2>3, <2>5, <3>1, <3>2
    <3>4. \A i \in 1 .. Len(down'[c]) : down'[c][i].type = "welcome" =>
            /\ terms'[c] # None
            /\ down'[c][i].session = c /\ down'[c][i].version = terms'[c].version
      BY <2>4, <2>6, <3>2
    <3>5. first'[c] \in Hello /\ first'[c].token = "bad" =>
            \A i \in 1 .. Len(down'[c]) : down'[c][i] = Reject({})
      BY <2>4, <2>7, <3>2
    <3>6. QED
      BY <3>1, <3>2, <3>3, <3>4, <3>5
  <2>13. \A d \in Conn : Judged(d)'
    BY <2>11, <2>12
  <2>14. QED
    BY <2>13 DEF FirstJudged
<1>13. CASE UNCHANGED vars
  BY <1>13 DEF vars, clientVars, brainVars, FirstJudged
<1>14. QED
  BY <1>1, <1>2, <1>3, <1>4, <1>5, <1>6, <1>7, <1>8, <1>9, <1>10, <1>11, <1>12, <1>13
     DEF Next, Client, ClientReceives, Caller, HandlerRuns, Leaves

\* A reply under way stays the one the handler gave.
LEMMA ClientKnownStep ==
  ASSUME TypeOK, Placed, Dialed, Agreed, [Next]_vars
  PROVE  ClientKnown'
<1> USE NoneAssumption DEF Agreed
<1>1. ASSUME NEW c \in Conn, Dial(c)
      PROVE  ClientKnown'
  <2>1. HelloFrame \in Hello /\ HelloFrame.versions = config.versions
    BY <1>1, HelloIsHello DEF Dial, TypeOK, Number
  <2>2. first'[c] = HelloFrame /\ \A d \in Conn \ {c} : first'[d] = first[d]
    BY <1>1 DEF Dial, TypeOK
  <2>3. session' = None /\ config' = config
    BY <1>1 DEF Dial
  <2>4. QED
    BY <2>1, <2>2, <2>3 DEF ClientKnown
<1>2. CASE Welcomed
  <2>1. conn \in Conn /\ down[conn] \in Seq(Reply) /\ down[conn] # <<>>
    BY <1>2 DEF Welcomed, Replied, Dialed, TypeOK
  <2>2. Head(down[conn]) = down[conn][1] /\ 1 \in 1 .. Len(down[conn])
    BY <2>1
  <2>3. Head(down[conn]).type = "welcome"
    BY <1>2 DEF Welcomed, Replied
  <2>4. /\ terms[conn] # None
        /\ Head(down[conn]).session = conn /\ Head(down[conn]).version = terms[conn].version
    BY <2>1, <2>2, <2>3 DEF FirstJudged
  <2>5. /\ session' = Head(down[conn]).session /\ version' = Head(down[conn]).version
        /\ UNCHANGED <<config, conn, terms, first>>
    BY <1>2 DEF Welcomed, brainVars
  <2>6. QED
    BY <2>4, <2>5 DEF ClientKnown
<1>3. CASE Rejected
  <2>1. session' = None /\ UNCHANGED <<config, first>>
    BY <1>3 DEF Rejected, Replied, Dialed
  <2>2. QED
    BY <2>1 DEF ClientKnown
<1>4. CASE Closes
  BY <1>4 DEF Closes, ClientKnown
<1>5. CASE DialTimesOut \/ DialLosesLink \/ SendFails \/ Sends
  BY <1>5 DEF DialTimesOut, DialLosesLink, SendFails, Sends, ClientKnown, brainVars
<1>6. ASSUME NEW c \in Conn, NEW f \in CallerFrame, CallerDials(c, f) \/ CallerSends(c, f)
      PROVE  ClientKnown'
  BY <1>6 DEF CallerDials, CallerSends, ClientKnown, Dialed, clientVars, brainVars
<1>7. ASSUME NEW c \in Conn, Refuses(c) \/ Welcomes(c)
      PROVE  ClientKnown'
  <2>1. terms[c] = None
    BY <1>7 DEF Refuses, Welcomes, HandlerGoes, Placed
  <2>2. /\ UNCHANGED <<clientVars, first>>
        /\ \A d \in Conn \ {c} : terms'[d] = terms[d]
    BY <1>7 DEF Refuses, Welcomes, TypeOK
  <2>3. conn \in Conn \cup {None} /\ (session # None => conn # None /\ conn # c)
    BY <2>1 DEF TypeOK, ClientKnown, Dialed
  <2>4. QED
    BY <2>2, <2>3 DEF ClientKnown, clientVars
<1>8. ASSUME NEW c \in Conn, Leaves(c)
      PROVE  ClientKnown'
  BY <1>8, Leaving DEF ClientKnown, clientVars
<1>9. ASSUME NEW c \in Conn,
             SessionOpens(c) \/ Receives(c) \/ HandlerBreaks(c) \/ LinkDies(c)
      PROVE  ClientKnown'
  BY <1>9 DEF SessionOpens, Receives, HandlerBreaks, LinkDies, ClientKnown, clientVars,
              brainVars
<1>10. CASE UNCHANGED vars
  BY <1>10 DEF vars, clientVars, brainVars, ClientKnown
<1>11. QED
  BY <1>1, <1>2, <1>3, <1>4, <1>5, <1>6, <1>7, <1>8, <1>9, <1>10
     DEF Next, Client, ClientReceives, Caller, HandlerRuns, Leaves

\* What the ends know of each other, always.
LEMMA Known == Spec => [](TypeOK /\ Placed /\ Dialed /\ Agreed)
<1>1. Init => TypeOK /\ Placed /\ Dialed /\ Agreed
  BY PlacedInit, AgreedInit
<1>2. TypeOK /\ Placed /\ Dialed /\ Agreed /\ [Next]_vars
        => (TypeOK /\ Placed /\ Dialed /\ Agreed)'
  BY PlacedStep, FirstJudgedStep, ClientKnownStep DEF Agreed
<1>3. QED
  BY <1>1, <1>2, PTL DEF Spec

\* Whoever dials, and whatever it sends first: the brain keeps no session
\* that was not opened with the token, on the newest version both ends have,
\* and does not name its versions to a caller without it.
THEOREM NothingWithoutToken == Spec => []TokenGuards
<1>1. Placed /\ Agreed => TokenGuards
  BY DEF Placed, Agreed, FirstJudged, TokenGuards
<1>2. QED
  BY <1>1, Known, PTL

\* A client in a session is in the one its own connection opened, at the
\* version the brain granted, with the brain's handler there to serve it.
THEOREM BothEndsAgree == Spec => []EndsAgree
<1>1. ASSUME TypeOK, Placed, Dialed, Agreed, session # None
      PROVE  /\ session = conn /\ terms[session] # None
             /\ terms[session].version = version
             /\ NewestCommon(version, config.versions)
             /\ link[session] = "up" => handler[session] \in {"welcoming", "serving"}
  <2>1. session = conn /\ conn \in Conn /\ config # None
    BY <1>1 DEF TypeOK, Dialed, Agreed, ClientKnown
  <2>2. terms[conn] # None /\ terms[conn].version = version
    BY <1>1 DEF Agreed, ClientKnown
  <2>3. first[conn] \in Hello /\ NewestCommon(version, first[conn].versions)
    BY <1>1, <2>1, <2>2 DEF Agreed, FirstJudged
  <2>4. first[conn] # None
    BY <2>3, Frames, NoneAssumption
  <2>5. first[conn].versions = config.versions
    BY <1>1, <2>1, <2>4 DEF Agreed, ClientKnown
  <2>6. QED
    BY <1>1, <2>1, <2>2, <2>3, <2>5 DEF Placed
<1>2. TypeOK /\ Placed /\ Dialed /\ Agreed => EndsAgree
  BY <1>1 DEF EndsAgree
<1>3. QED
  BY <1>2, Known, PTL

-----------------------------------------------------------------------------
(* No living connection is forgotten.                                      *)

\* A living connection that is not abandoned stays the client's.
LEMMA RememberedStep ==
  ASSUME TypeOK, Placed, Dialed, Agreed, Remembered, [Next]_vars
  PROVE  Remembered'
<1>1. ASSUME NEW c \in Conn, Dial(c)
      PROVE  Remembered'
  <2>1. conn # c
    BY <1>1, NoneAssumption DEF Dial, Dialed
  <2>2. conn' = c /\ dialing' /\ UNCHANGED <<config, abandoned>>
    BY <1>1 DEF Dial
  <2>3. ASSUME config # None, NEW d \in Conn \ abandoned, link[d] = "up"
        PROVE  FALSE
    BY <1>1, <2>3, NoneAssumption DEF Dial, Remembered
  <2>4. \A d \in Conn \ {c} : link'[d] = link[d]
    BY <1>1 DEF Dial, TypeOK
  <2>5. QED
    BY <2>2, <2>3, <2>4 DEF Remembered
<1>2. CASE Welcomed
  <2>1. dialing /\ conn \in Conn /\ session' = conn
    <3>1. ClientKnown'
      BY <1>2, ClientKnownStep
    <3>2. /\ session' \in Conn \cup {None} /\ conn' = conn
          /\ dialing /\ conn \in Conn
      BY <1>2, PlacedStep DEF Welcomed, Replied, Dialed, TypeOK
    <3>3. session' # None
      <4>1. down[conn] \in Seq(Reply) /\ down[conn] # <<>>
        BY <1>2, <3>2 DEF Welcomed, Replied, TypeOK
      <4>2. Head(down[conn]) \in Reply /\ Head(down[conn]).type = "welcome"
        BY <1>2, <4>1, HeadTailProperties DEF Welcomed, Replied
      <4>3. QED
        BY <1>2, <4>2, WelcomeIsReply, NoneAssumption DEF Welcomed
    <3>4. QED
      BY <3>1, <3>2, <3>3 DEF ClientKnown
  <2>2. UNCHANGED <<config, conn, link, abandoned>>
    BY <1>2 DEF Welcomed
  <2>3. QED
    BY <2>1, <2>2 DEF Remembered
<1>3. CASE Rejected
  <2>1. dialing /\ conn \in Conn /\ session = None
    BY <1>3 DEF Rejected, Replied, Dialed, TypeOK
  <2>2. /\ UNCHANGED <<config, session, abandoned>>
        /\ link'[conn] = "down" /\ \A d \in Conn \ {conn} : link'[d] = link[d]
    BY <1>3, <2>1 DEF Rejected, TypeOK
  <2>3. QED
    BY <2>1, <2>2 DEF Remembered
<1>4. CASE DialTimesOut
  BY <1>4 DEF DialTimesOut, Remembered
<1>5. CASE DialLosesLink
  BY <1>5 DEF DialLosesLink, Remembered
<1>6. CASE Sends \/ SendFails
  BY <1>6 DEF Sends, SendFails, Remembered
<1>7. CASE Closes
  BY <1>7 DEF Closes, Remembered, Dialed, TypeOK
<1>8. ASSUME NEW c \in Conn, NEW f \in CallerFrame, CallerDials(c, f) \/ CallerSends(c, f)
      PROVE  Remembered'
  BY <1>8 DEF CallerDials, CallerSends, Remembered, clientVars
<1>9. ASSUME NEW c \in Conn, \/ Refuses(c) \/ Welcomes(c) \/ SessionOpens(c)
                             \/ Receives(c) \/ HandlerBreaks(c)
      PROVE  Remembered'
  BY <1>9 DEF Refuses, Welcomes, SessionOpens, Receives, HandlerBreaks, Remembered,
              clientVars
<1>10. ASSUME NEW c \in Conn, Leaves(c) \/ LinkDies(c)
       PROVE  Remembered'
  <2>1. UNCHANGED clientVars /\ link' = [link EXCEPT ![c] = "down"]
    BY <1>10, Leaving DEF LinkDies
  <2>2. QED
    BY <2>1 DEF Remembered, clientVars, TypeOK
<1>11. CASE UNCHANGED vars
  BY <1>11 DEF vars, clientVars, Remembered
<1>12. QED
  BY <1>1, <1>2, <1>3, <1>4, <1>5, <1>6, <1>7, <1>8, <1>9, <1>10, <1>11
     DEF Next, Client, ClientReceives, Caller, HandlerRuns, Leaves

\* A session the brain keeps over a living connection is the one the client
\* is in or is dialing, unless the client gave up a dial on it.
THEOREM NoneForgotten == Spec => []NoForgottenSession
<1>1. Init => Remembered
  BY DEF Init, Remembered
<1>2. TypeOK /\ Remembered => NoForgottenSession
  BY DEF TypeOK, Remembered, NoForgottenSession
<1>3. QED
  BY <1>1, <1>2, Known, RememberedStep, PTL DEF Spec

-----------------------------------------------------------------------------
(* The numbers.                                                            *)

\* Every verdict keeps the tracker's sum.
LEMMA NumbersAddUpStep ==
  ASSUME TypeOK, Placed, NumbersAddUp, [Next]_vars
  PROVE  NumbersAddUp'
<1>1. ASSUME NEW c \in Conn, SessionOpens(c)
      PROVE  NumbersAddUp'
  <2>1. judged[c] = Unjudged /\ terms[c] \in Terms
    BY <1>1 DEF SessionOpens, HandlerGoes, Placed, TypeOK
  <2>2. /\ last'[c] = terms[c].seq /\ UNCHANGED <<terms, judged>>
        /\ \A d \in Conn \ {c} : last'[d] = last[d]
        /\ registered' = registered \cup {c}
    BY <1>1 DEF SessionOpens, Register, TypeOK
  <2>3. terms[c].seq = terms[c].seq + judged[c].taken + judged[c].missing
    BY <2>1 DEF Unjudged, Terms, Number
  <2>4. QED
    BY <2>2, <2>3 DEF NumbersAddUp, TypeOK
<1>2. ASSUME NEW c \in Conn, Receives(c)
      PROVE  NumbersAddUp'
  <2>1. UNCHANGED <<terms, registered>>
    BY <1>2 DEF Receives
  <2>2. CASE Head(up[c]) = Junk
    BY <1>2, <2>1, <2>2 DEF Receives, NumbersAddUp
  <2>3. CASE Head(up[c]) # Junk
    <3>1. Head(up[c]) \in Frame
      BY <1>2, HeadTailProperties DEF Receives, TypeOK
    <3>2. Head(up[c]).seq \in Number /\ Observe(c, Head(up[c]).seq)
      BY <1>2, <2>3, <3>1, Frames DEF Receives
    <3>3. /\ last'[c] - judged'[c].taken - judged'[c].missing
               = last[c] - judged[c].taken - judged[c].missing
          /\ last' \in [Conn -> 0 .. MaxSeq] /\ judged' \in [Conn -> Verdict]
          /\ \A d \in Conn \ {c} : last'[d] = last[d] /\ judged'[d] = judged[d]
      BY <3>2, Observed DEF TypeOK
    <3>4. c \in registered => terms[c] \in Terms
      BY DEF Placed, TypeOK
    <3>5. c \in registered => last'[c] = terms[c].seq + judged'[c].taken + judged'[c].missing
      <4>1. /\ judged[c].taken \in Nat /\ judged[c].missing \in Nat
            /\ judged'[c].taken \in Nat /\ judged'[c].missing \in Nat
        BY <3>3 DEF TypeOK, Verdict
      <4>2. last[c] \in Int /\ last'[c] \in Int
        BY <3>3, BoundAssumption DEF TypeOK
      <4>3. c \in registered => terms[c].seq \in Nat
        BY <3>4, BoundAssumption DEF Terms, Number
      <4>4. c \in registered => last[c] = terms[c].seq + judged[c].taken + judged[c].missing
        BY DEF NumbersAddUp
      <4>5. QED
        BY <3>3, <4>1, <4>2, <4>3, <4>4
    <3>6. QED
      BY <2>1, <3>3, <3>5 DEF NumbersAddUp, TypeOK
  <2>4. QED
    BY <2>2, <2>3
<1>3. ASSUME NEW c \in Conn, Refuses(c) \/ Welcomes(c)
      PROVE  NumbersAddUp'
  <2>1. c \notin registered
    BY <1>3 DEF Refuses, Welcomes, HandlerGoes, Placed
  <2>2. UNCHANGED <<last, judged, registered>> /\ \A d \in Conn \ {c} : terms'[d] = terms[d]
    BY <1>3 DEF Refuses, Welcomes, TypeOK
  <2>3. QED
    BY <2>1, <2>2 DEF NumbersAddUp, TypeOK
<1>4. ASSUME NEW c \in Conn, Leaves(c) \/ HandlerBreaks(c)
      PROVE  NumbersAddUp'
  BY <1>4, Leaving DEF HandlerBreaks, NumbersAddUp
<1>5. CASE Client
  BY <1>5 DEF Client, ClientReceives, Dial, Welcomed, Rejected, DialLosesLink,
              DialTimesOut, Sends, SendFails, Closes, brainVars, NumbersAddUp
<1>6. ASSUME NEW c \in Conn, Caller(c) \/ LinkDies(c)
      PROVE  NumbersAddUp'
  BY <1>6 DEF Caller, CallerDials, CallerSends, LinkDies, brainVars, NumbersAddUp
<1>7. CASE UNCHANGED vars
  BY <1>7 DEF vars, brainVars, NumbersAddUp
<1>8. QED
  BY <1>1, <1>2, <1>3, <1>4, <1>5, <1>6, <1>7 DEF Next, HandlerRuns, Leaves

\* However frames are numbered, the tracker neither loses one nor counts one
\* twice: it stands at the hello's number, plus those taken, plus those missing.
THEOREM TrackerAddsUp == Spec => []NumbersAddUp
<1>1. Init => NumbersAddUp
  BY DEF Init, NumbersAddUp
<1>2. QED
  BY <1>1, Started, NumbersAddUpStep, PTL DEF Spec

\* Numbered(c) takes a step that gives c no frame and takes none from it.
LEMMA GapShifts ==
  ASSUME NEW new \in Int, NEW i \in Int, NEW was \in Int, NEW from \in Int,
         NEW base \in Int, NEW room \in Int, new - (i + 1) + was <= base + room
  PROVE  new - i + (was + (from - base - 1)) <= from + room
OBVIOUS

\* The gaps of a connection add up as before when its frames and its books stay.
LEMMA NumberedStays ==
  ASSUME TypeOK, TypeOK', NEW c \in Conn, Numbered(c),
         up'[c] = up[c], judged'[c] = judged[c], dropped'[c] = dropped[c],
         Base(c)' = Base(c), Base(c) \in Int, next <= next', Live(c)' => Live(c) /\ next' = next
  PROVE  Numbered(c)'
<1>1. next \in Int /\ next' \in Int /\ Len(up[c]) \in Nat
  BY BoundAssumption DEF TypeOK
<1>2. \A i \in 1 .. Len(up[c]) : up[c][i] \in Later => up[c][i].seq \in Int
  BY BoundAssumption DEF Later, Number
<1> DEFINE base == Base(c)
<1>3. base' = base /\ base \in Int
  OBVIOUS
<1> HIDE DEF base
<1>4. Numbered(c) <=>
        /\ judged[c].missing <= dropped[c]
        /\ base < next
        /\ \A i \in 1 .. Len(up[c]) :
             /\ up[c][i] \in Later
             /\ base < up[c][i].seq
             /\ up[c][i].seq < next
             /\ up[c][i].seq - i + judged[c].missing <= base + dropped[c]
        /\ \A i, j \in 1 .. Len(up[c]) : i < j => up[c][i].seq < up[c][j].seq
        /\ Live(c) => next - 1 - Len(up[c]) + judged[c].missing <= base + dropped[c]
  BY DEF Numbered, base
<1>5. Numbered(c)' <=>
        /\ judged[c].missing <= dropped[c]
        /\ base < next'
        /\ \A i \in 1 .. Len(up[c]) :
             /\ up[c][i] \in Later
             /\ base < up[c][i].seq
             /\ up[c][i].seq < next'
             /\ up[c][i].seq - i + judged[c].missing <= base + dropped[c]
        /\ \A i, j \in 1 .. Len(up[c]) : i < j => up[c][i].seq < up[c][j].seq
        /\ Live(c)' => next' - 1 - Len(up[c]) + judged[c].missing <= base + dropped[c]
  BY <1>3 DEF Numbered, base
<1>6. QED
  BY <1>1, <1>2, <1>3, <1>4, <1>5

\* What InOrder says of one connection.
Ordered(c) ==
  /\ ~judged[c].repeated
  /\ first[c] # None => first[c].seq < next
  /\ handler[c] = "accepting" =>
       /\ Len(up[c]) <= 1
       /\ link[c] = "up" /\ conn = c /\ dialing => first[c].seq = next - 1
  /\ handler[c] \in {"welcoming", "serving", "broken"} => Numbered(c)

\* The number a connection's frames rise from is a number.
LEMMA BaseTyped ==
  ASSUME TypeOK, Placed, NEW c \in Conn, handler[c] \in {"welcoming", "serving", "broken"}
  PROVE  Base(c) \in Int
<1>1. terms[c] \in Terms /\ last[c] \in Int
  BY BoundAssumption DEF Placed, TypeOK
<1>2. QED
  BY <1>1, BoundAssumption DEF Base, Terms, Number

\* The same of a connection a step leaves alone, but for its going down.
LEMMA OrderedStays ==
  ASSUME TypeOK, TypeOK', Placed, NEW c \in Conn, Ordered(c),
         first[c] # None => first[c] \in Hello,
         up'[c] = up[c], judged'[c] = judged[c], dropped'[c] = dropped[c],
         first'[c] = first[c], terms'[c] = terms[c], last'[c] = last[c],
         c \in registered' <=> c \in registered,
         handler'[c] = handler[c], next <= next',
         Live(c)' => Live(c) /\ next' = next,
         link'[c] = "up" /\ conn' = c /\ dialing' =>
           link[c] = "up" /\ conn = c /\ dialing
  PROVE  Ordered(c)'
<1>1. Base(c)' = Base(c)
  BY DEF Base
<1>2. handler[c] \in {"welcoming", "serving", "broken"} => Numbered(c)'
  <2>1. SUFFICES ASSUME handler[c] \in {"welcoming", "serving", "broken"} PROVE Numbered(c)'
    OBVIOUS
  <2>2. Numbered(c) /\ Base(c) \in Int
    BY <2>1, BaseTyped DEF Ordered
  <2>3. QED
    BY <1>1, <2>2, NumberedStays
<1>3. next \in Int /\ next' \in Int
  BY BoundAssumption DEF TypeOK
<1>4. first[c] # None => first'[c].seq < next'
  <2>1. first[c] # None => first[c].seq \in Int /\ first[c].seq < next
    BY Frames, BoundAssumption DEF Ordered, Number
  <2>2. QED
    BY <1>3, <2>1
<1>5. handler[c] = "accepting" /\ link'[c] = "up" /\ conn' = c /\ dialing' =>
        first[c].seq = next' - 1
  BY DEF Ordered, Live
<1>6. QED
  BY <1>2, <1>4, <1>5 DEF Ordered

\* The frames in flight stay in the order they were numbered.
LEMMA InOrderStep ==
  ASSUME TypeOK, TypeOK', Placed, Dialed, Agreed, InOrder, [Next]_vars
  PROVE  InOrder'
<1> USE NoneAssumption
<1>1. config' = config
  <2>1. CASE Client
    BY <2>1 DEF Client, ClientReceives, Dial, Welcomed, Rejected, DialLosesLink,
                DialTimesOut, Sends, SendFails, Closes
  <2>2. ASSUME NEW c \in Conn,
               Caller(c) \/ HandlerRuns(c) \/ AcceptTimesOut(c) \/ LinkDies(c)
        PROVE  config' = config
    BY <2>2 DEF Caller, CallerDials, CallerSends, HandlerRuns, Refuses, Welcomes,
                AcceptLosesLink, RefusalSent, SessionOpens, WelcomeFails, Receives,
                SessionEnds, HandlerBreaks, AcceptTimesOut, LinkDies, clientVars
  <2>3. CASE UNCHANGED vars
    BY <2>3 DEF vars, clientVars
  <2>4. QED
    BY <2>1, <2>2, <2>3 DEF Next
<1> SUFFICES ASSUME config # None
             PROVE  \A c \in Conn : Ordered(c)'
  BY <1>1 DEF InOrder, Ordered
<1>2. /\ \A c \in Conn : Ordered(c)
      /\ \A c \in Conn : first[c] # None => first[c] \in Hello
      /\ next \in Int /\ next' \in Int
      /\ session # None => session = conn /\ conn \in Conn
      /\ dialing => session = None
  BY BoundAssumption DEF InOrder, Ordered, Agreed, ClientKnown, TypeOK, Dialed
<1>3. ASSUME NEW c \in Conn, Dial(c)
      PROVE  \A d \in Conn : Ordered(d)'
  <2>1. /\ HelloFrame.seq = next /\ up'[c] = <<HelloFrame>> /\ first'[c] = HelloFrame
        /\ handler'[c] = "accepting" /\ judged'[c] = judged[c] /\ next' = next + 1
    BY <1>3, HelloIsHello DEF Dial, TypeOK, Number
  <2>2. Ordered(c)'
    BY <1>2, <2>1 DEF Ordered
  <2>3. ASSUME NEW d \in Conn \ {c}
        PROVE  Ordered(d)'
    <3>1. /\ UNCHANGED <<terms, last, registered, judged, dropped>>
          /\ up'[d] = up[d] /\ first'[d] = first[d] /\ handler'[d] = handler[d]
          /\ conn' # d
      BY <1>3, <2>3 DEF Dial, TypeOK
    <3>2. QED
      BY <1>2, <2>1, <3>1, OrderedStays DEF Live
  <2>4. QED
    BY <2>2, <2>3
<1>4. CASE Welcomed \/ Rejected \/ DialTimesOut \/ DialLosesLink \/ Closes
  <2>1. /\ UNCHANGED <<up, judged, dropped, first, terms, last, registered, handler, next>>
        /\ \A d \in Conn : link'[d] = "up" => link[d] = "up"
        /\ dialing' => dialing
        /\ conn' \in {conn, None}
    BY <1>4 DEF Welcomed, Rejected, Replied, DialTimesOut, DialLosesLink, Closes,
                brainVars, TypeOK
  <2>2. \A d \in Conn : session' = d /\ conn' = d => dialing \/ session = d
    BY <1>4 DEF Welcomed, Rejected, Replied, DialTimesOut, DialLosesLink, Closes
  <2>3. \A d \in Conn : Live(d)' => Live(d)
    BY <2>1, <2>2, <1>2 DEF Live
  <2>4. \A d \in Conn : conn' = d => conn = d
    BY <2>1
  <2>5. QED
    BY <1>2, <2>1, <2>3, <2>4, OrderedStays
<1>5. CASE Sends
  <2>1. /\ conn \in Conn /\ session = conn /\ link[conn] = "up" /\ ~dialing
        /\ handler[conn] \in {"welcoming", "serving"}
    BY <1>2, <1>5 DEF Sends, Placed, Agreed, ClientKnown
  <2> DEFINE later == [type |-> "later", seq |-> next]
  <2>2. later \in Later /\ later \in Frame /\ later.seq = next
    BY <1>5, Frames DEF Sends, TypeOK, Number
  <2>3. /\ UNCHANGED <<conn, session, link, dialing, judged, dropped, first, terms, last,
                       registered, handler>>
        /\ up' = [up EXCEPT ![conn] = Append(up[conn], later)]
        /\ next' = next + 1
    BY <1>5 DEF Sends, brainVars
  <2>4. \A d \in Conn \ {conn} : Ordered(d)'
    <3>1. \A d \in Conn \ {conn} : up'[d] = up[d] /\ ~Live(d)' /\ ~dialing'
      BY <2>1, <2>3 DEF TypeOK, Live
    <3>2. next <= next'
      BY <1>2, <2>3
    <3>3. QED
      BY <1>2, <2>3, <3>1, <3>2, OrderedStays
  <2>5. ASSUME NEW c \in Conn, c = conn
        PROVE  Ordered(c)'
    <3> DEFINE base == Base(c)
               s == up[c]
               t == up'[c]
    <3>1. s \in Seq(Frame) /\ t = Append(s, later)
      BY <2>3, <2>5 DEF TypeOK
    <3>2. /\ base \in Int /\ base' = base
          /\ judged[c].missing \in Int /\ dropped[c] \in Int
          /\ \A f \in Later : f.seq \in Int
      BY <2>1, <2>3, <2>5, BaseTyped, BoundAssumption, Frames
         DEF Base, TypeOK, Verdict, Number
    <3>3. Numbered(c) /\ Live(c)
      BY <1>2, <2>1, <2>5 DEF Ordered, Live
    <3> HIDE DEF base, s, t, later
    <3>4. /\ Len(t) = Len(s) + 1 /\ Len(s) \in Nat
          /\ \A i \in 1 .. Len(s) : t[i] = s[i]
          /\ t[Len(s) + 1] = later
      BY <2>2, <3>1, AppendProperties
    <3>5. /\ judged[c].missing <= dropped[c]
          /\ base < next
          /\ \A i \in 1 .. Len(s) :
               /\ s[i] \in Later /\ base < s[i].seq /\ s[i].seq < next
               /\ s[i].seq - i + judged[c].missing <= base + dropped[c]
          /\ \A i, j \in 1 .. Len(s) : i < j => s[i].seq < s[j].seq
          /\ next - 1 - Len(s) + judged[c].missing <= base + dropped[c]
      BY <3>3 DEF Numbered, base, s
    <3>6. ASSUME NEW i \in 1 .. Len(t)
          PROVE  /\ t[i] \in Later /\ base < t[i].seq /\ t[i].seq < next + 1
                 /\ t[i].seq - i + judged[c].missing <= base + dropped[c]
      <4>1. CASE i \in 1 .. Len(s)
        <5>1. t[i] = s[i] /\ s[i].seq \in Int /\ i \in Int
          BY <3>2, <3>4, <3>5, <4>1
        <5>2. QED
          BY <1>2, <3>2, <3>5, <4>1, <5>1
      <4>2. CASE i = Len(s) + 1
        BY <1>2, <2>2, <3>2, <3>4, <3>5, <4>2
      <4>3. QED
        BY <3>4, <4>1, <4>2
    <3>7. ASSUME NEW i \in 1 .. Len(t), NEW j \in 1 .. Len(t), i < j
          PROVE  t[i].seq < t[j].seq
      <4>1. i \in 1 .. Len(s) /\ t[i] = s[i]
        BY <3>4, <3>7
      <4>2. CASE j \in 1 .. Len(s)
        BY <3>4, <3>5, <3>7, <4>1, <4>2
      <4>3. CASE j = Len(s) + 1
        BY <2>2, <3>4, <3>5, <4>1, <4>3
      <4>4. QED
        BY <3>4, <4>2, <4>3
    <3>8. next + 1 - 1 - Len(t) + judged[c].missing <= base + dropped[c]
      BY <1>2, <3>2, <3>4, <3>5
    <3>9. base < next + 1
      BY <1>2, <3>2, <3>5
    <3>10. Numbered(c)'
      <4>1. Base(c)' = base /\ up'[c] = t
        BY <3>2 DEF base, t
      <4>2. /\ next' = next + 1 /\ judged'[c] = judged[c] /\ dropped'[c] = dropped[c]
        BY <2>3
      <4>3. judged'[c].missing <= dropped'[c] /\ Base(c)' < next'
        BY <3>5, <3>9, <4>1, <4>2
      <4>4. \A i \in 1 .. Len(up'[c]) :
              /\ up'[c][i] \in Later
              /\ Base(c)' < up'[c][i].seq
              /\ up'[c][i].seq < next'
              /\ up'[c][i].seq - i + judged'[c].missing <= Base(c)' + dropped'[c]
        BY <3>6, <4>1, <4>2
      <4>5. \A i, j \in 1 .. Len(up'[c]) : i < j => up'[c][i].seq < up'[c][j].seq
        BY <3>7, <4>1
      <4>6. next' - 1 - Len(up'[c]) + judged'[c].missing <= Base(c)' + dropped'[c]
        BY <1>2, <3>2, <3>4, <3>8, <4>1, <4>2
      <4>7. QED
        BY <4>3, <4>4, <4>5, <4>6 DEF Numbered
    <3>11. first[c] # None => first[c].seq \in Int
      BY <1>2, Frames, BoundAssumption DEF Number
    <3>12. QED
      BY <1>2, <2>1, <2>3, <2>5, <3>10, <3>11 DEF Ordered
  <2>6. QED
    BY <2>4, <2>5
<1>6. CASE SendFails
  <2>1. /\ conn \in Conn /\ session = conn /\ ~dialing
        /\ handler[conn] # "accepting" /\ next' = next + 1
        /\ UNCHANGED <<conn, session, link, dialing, judged, up, first, terms, last,
                       registered, handler>>
    BY <1>2, <1>6 DEF SendFails, Placed, Agreed, ClientKnown, brainVars
  <2>2. /\ dropped'[conn] = dropped[conn] + 1
        /\ \A d \in Conn \ {conn} : dropped'[d] = dropped[d]
    BY <1>6, <2>1 DEF SendFails, TypeOK
  <2>3. \A d \in Conn \ {conn} : Ordered(d)'
    <3>1. \A d \in Conn \ {conn} : ~Live(d)' /\ ~dialing'
      BY <2>1 DEF Live
    <3>2. next <= next'
      BY <1>2, <2>1
    <3>3. QED
      BY <1>2, <2>1, <2>2, <3>1, <3>2, OrderedStays
  <2>4. ASSUME NEW c \in Conn, c = conn
        PROVE  Ordered(c)'
    <3>1. ASSUME handler[c] \in {"welcoming", "serving", "broken"}
          PROVE  Numbered(c)'
      <4> DEFINE base == Base(c)
                 s == up[c]
      <4>1. /\ base \in Int /\ base' = base /\ Len(s) \in Nat
            /\ judged[c].missing \in Int /\ dropped[c] \in Int
            /\ \A f \in Later : f.seq \in Int
        <5>1. base \in Int
          BY <3>1, BaseTyped
        <5>2. base' = base
          BY <2>1 DEF Base
        <5>3. judged[c].missing \in Int /\ dropped[c] \in Int
          BY DEF TypeOK, Verdict
        <5>4. Len(s) \in Nat
          BY DEF TypeOK
        <5>5. \A f \in Later : f.seq \in Int
          BY BoundAssumption, Frames DEF Number
        <5>6. QED
          BY <5>1, <5>2, <5>3, <5>4, <5>5
      <4>2. Numbered(c)
        BY <1>2, <2>1, <3>1 DEF Ordered
      <4> HIDE DEF base, s
      <4>3. /\ judged[c].missing <= dropped[c]
            /\ base < next
            /\ \A i \in 1 .. Len(s) :
                 /\ s[i] \in Later /\ base < s[i].seq /\ s[i].seq < next
                 /\ s[i].seq - i + judged[c].missing <= base + dropped[c]
            /\ \A i, j \in 1 .. Len(s) : i < j => s[i].seq < s[j].seq
            /\ Live(c) => next - 1 - Len(s) + judged[c].missing <= base + dropped[c]
        BY <4>2 DEF Numbered, base, s
      <4>4. /\ judged[c].missing <= dropped[c] + 1
            /\ base < next + 1
            /\ \A i \in 1 .. Len(s) :
                 /\ s[i] \in Later /\ base < s[i].seq /\ s[i].seq < next + 1
                 /\ s[i].seq - i + judged[c].missing <= base + (dropped[c] + 1)
            /\ Live(c) =>
                 (next + 1) - 1 - Len(s) + judged[c].missing <= base + (dropped[c] + 1)
        <5>1. /\ judged[c].missing <= dropped[c] + 1
              /\ base < next + 1
          BY <1>2, <4>1, <4>3
        <5>2. ASSUME NEW i \in 1 .. Len(s)
              PROVE  /\ s[i] \in Later /\ base < s[i].seq /\ s[i].seq < next + 1
                     /\ s[i].seq - i + judged[c].missing <= base + (dropped[c] + 1)
          <6>1. /\ s[i] \in Later /\ base < s[i].seq /\ s[i].seq < next
                /\ s[i].seq - i + judged[c].missing <= base + dropped[c]
            BY <4>3
          <6>2. s[i].seq \in Int /\ i \in Int
            BY <4>1, <6>1
          <6>3. /\ next \in Int /\ base \in Int
                /\ judged[c].missing \in Int /\ dropped[c] \in Int
            BY <1>2, <4>1
          <6>4. QED
            BY <6>1, <6>2, <6>3
        <5>3. Live(c) =>
                (next + 1) - 1 - Len(s) + judged[c].missing <= base + (dropped[c] + 1)
          BY <1>2, <4>1, <4>3
        <5>4. QED
          BY <5>1, <5>2, <5>3
      <4>5. Live(c)' <=> Live(c)
        BY <2>1 DEF Live
      <4>6. QED
        BY <2>1, <2>2, <2>4, <4>1, <4>3, <4>4, <4>5 DEF Numbered, base, s
    <3>2. first[c] # None => first[c].seq \in Int
      BY <1>2, Frames, BoundAssumption DEF Number
    <3>3. QED
      BY <1>2, <2>1, <2>4, <3>1, <3>2 DEF Ordered
  <2>5. QED
    BY <2>3, <2>4
<1>7. ASSUME NEW c \in Conn, Caller(c)
      PROVE  FALSE
  BY <1>7 DEF Caller, CallerDials, CallerSends
<1>8. ASSUME NEW c \in Conn, Refuses(c) \/ Welcomes(c)
      PROVE  \A d \in Conn : Ordered(d)'
  <2>1. /\ handler[c] = "accepting" /\ up[c] # <<>> /\ up[c][1] = first[c]
        /\ terms[c] = None /\ c \notin registered /\ judged[c] = Unjudged
    BY <1>8 DEF Refuses, Welcomes, HandlerGoes, Placed, Agreed, FirstJudged
  <2>2. /\ UNCHANGED <<clientVars, link, registered, last, judged, first>>
        /\ up' = [up EXCEPT ![c] = Tail(up[c])]
        /\ \A d \in Conn \ {c} : terms'[d] = terms[d] /\ handler'[d] = handler[d]
        /\ handler'[c] \in {"refusing", "welcoming"}
        /\ handler'[c] = "welcoming" => terms'[c].seq = Head(up[c]).seq
    <3>1. CASE Refuses(c)
      BY <3>1 DEF Refuses, HandlerGoes, TypeOK
    <3>2. CASE Welcomes(c)
      <4>1. PICK v : terms' = [terms EXCEPT ![c] = [version |-> v, seq |-> Head(up[c]).seq]]
        BY <3>2 DEF Welcomes
      <4>2. terms'[c].seq = Head(up[c]).seq /\ \A d \in Conn \ {c} : terms'[d] = terms[d]
        BY <4>1 DEF TypeOK
      <4>3. QED
        BY <3>2, <4>2 DEF Welcomes, HandlerGoes, TypeOK
    <3>3. QED
      BY <1>8, <3>1, <3>2
  <2>3. \A d \in Conn \ {c} : Ordered(d)'
    <3>1. \A d \in Conn \ {c} : up'[d] = up[d] /\ (Live(d)' <=> Live(d))
      BY <2>2 DEF TypeOK, Live, clientVars
    <3>2. next' = next /\ next <= next'
      BY <1>2, <2>2 DEF clientVars
    <3>3. QED
      BY <1>2, <2>2, <3>1, <3>2, OrderedStays DEF clientVars
  <2>4. Len(up'[c]) = 0 /\ up[c] \in Seq(Frame)
    <3>1. up[c] \in Seq(Frame) /\ Len(up[c]) <= 1
      BY <1>2, <2>1 DEF TypeOK, Ordered
    <3>2. Len(Tail(up[c])) = Len(up[c]) - 1 /\ Len(up[c]) \in Nat /\ Len(up[c]) # 0
      BY <2>1, <3>1, TailElements
    <3>3. up'[c] = Tail(up[c]) /\ Len(up[c]) = 1
      BY <2>2, <3>1, <3>2 DEF TypeOK
    <3>4. QED
      BY <3>1, <3>2, <3>3
  <2>5. ASSUME handler'[c] = "welcoming"
        PROVE  Numbered(c)'
    <3>1. /\ terms'[c].seq = first[c].seq /\ first[c] # None /\ first[c].seq \in Int
          /\ first[c].seq < next
      <4>1. Head(up[c]) = first[c] /\ first[c] \in Frame
        BY <2>1, <2>4, HeadTailProperties
      <4>2. first[c] # None
        BY <4>1
      <4>3. QED
        BY <1>2, <2>2, <2>5, <4>1, <4>2, Frames, BoundAssumption DEF Ordered, Number
    <3>2. Base(c)' = first[c].seq /\ judged'[c].missing = 0 /\ dropped'[c] \in Nat
      BY <2>1, <2>2, <3>1 DEF Base, Unjudged, TypeOK, clientVars
    <3>3. Live(c)' => first[c].seq = next - 1
      BY <1>2, <2>1, <2>2 DEF Live, Ordered, Agreed, ClientKnown, clientVars
    <3>4. next' = next
      BY <2>2 DEF clientVars
    <3>5. QED
      BY <1>2, <2>4, <3>1, <3>2, <3>3, <3>4 DEF Numbered
  <2>6. Ordered(c)'
    <3>1. Ordered(c) /\ next' = next
      BY <1>2, <2>2 DEF clientVars
    <3>2. QED
      BY <2>2, <2>5, <3>1 DEF Ordered
  <2>7. QED
    BY <2>3, <2>6
<1>9. ASSUME NEW c \in Conn, Leaves(c)
      PROVE  \A d \in Conn : Ordered(d)'
  <2>1. /\ UNCHANGED <<clientVars, terms, last, judged, up, first>>
        /\ handler'[c] = "gone" /\ registered' = registered \ {c}
        /\ \A d \in Conn \ {c} : handler'[d] = handler[d] /\ link'[d] = link[d]
    <3>1. /\ UNCHANGED <<clientVars, terms, last, judged, up, first>>
          /\ handler' = [handler EXCEPT ![c] = "gone"] /\ registered' = registered \ {c}
          /\ link' = [link EXCEPT ![c] = "down"]
      BY <1>9, Leaving
    <3>2. QED
      BY <3>1 DEF TypeOK
  <2>2. Ordered(c)'
    BY <1>2, <2>1 DEF Ordered, clientVars
  <2>3. \A d \in Conn \ {c} : Live(d)' <=> Live(d)
    BY <2>1 DEF Live, clientVars
  <2>4. next' = next /\ next <= next'
    BY <1>2, <2>1 DEF clientVars
  <2>5. \A d \in Conn \ {c} : Ordered(d)'
    BY <1>2, <2>1, <2>3, <2>4, OrderedStays DEF clientVars
  <2>6. QED
    BY <2>2, <2>5
<1>10. ASSUME NEW c \in Conn, SessionOpens(c)
       PROVE  \A d \in Conn : Ordered(d)'
  <2>1. /\ UNCHANGED <<clientVars, terms, judged, up, link, first>>
        /\ registered' = registered \cup {c} /\ last'[c] = terms[c].seq
        /\ handler[c] = "welcoming" /\ c \notin registered
        /\ \A d \in Conn \ {c} : handler'[d] = handler[d] /\ last'[d] = last[d]
    <3>1. /\ UNCHANGED <<clientVars, terms, judged, up, link, first>>
          /\ registered' = registered \cup {c} /\ last' = [last EXCEPT ![c] = terms[c].seq]
          /\ handler[c] = "welcoming" /\ handler' = [handler EXCEPT ![c] = "serving"]
      BY <1>10 DEF SessionOpens, Register, HandlerGoes
    <3>2. c \notin registered
      BY <3>1 DEF Placed
    <3>3. last'[c] = terms[c].seq /\ \A d \in Conn \ {c} : last'[d] = last[d]
      BY <3>1 DEF TypeOK
    <3>4. \A d \in Conn \ {c} : handler'[d] = handler[d]
      BY <3>1 DEF TypeOK
    <3>5. QED
      BY <3>1, <3>2, <3>3, <3>4
  <2>2. \A d \in Conn : Live(d)' <=> Live(d)
    BY <2>1 DEF Live, clientVars
  <2>3. next' = next /\ next <= next' /\ UNCHANGED <<conn, dialing, session, dropped>>
    BY <1>2, <2>1 DEF clientVars
  <2>4. \A d \in Conn \ {c} : Ordered(d)'
    BY <1>2, <2>1, <2>2, <2>3, OrderedStays
  <2>5. Base(c)' = Base(c) /\ Base(c) \in Int
    BY <2>1, BaseTyped DEF Base
  <2>6. Numbered(c)'
    BY <1>2, <2>1, <2>2, <2>3, <2>5, NumberedStays DEF Ordered
  <2>7. handler'[c] = "serving"
    BY <1>10 DEF SessionOpens, HandlerGoes, TypeOK
  <2>8. Ordered(c)'
    BY <1>2, <2>1, <2>3, <2>6, <2>7 DEF Ordered
  <2>9. QED
    BY <2>4, <2>8
<1>11. ASSUME NEW c \in Conn, Receives(c)
       PROVE  \A d \in Conn : Ordered(d)'
  <2> DEFINE s == up[c]
             t == Tail(up[c])
             f == Head(up[c])
             base == Base(c)
  <2>1. /\ UNCHANGED <<clientVars, terms, link, first, handler, registered>>
        /\ handler[c] = "serving" /\ c \in registered
        /\ up' = [up EXCEPT ![c] = t] /\ s \in Seq(Frame) /\ s # <<>>
    BY <1>11 DEF Receives, Placed, TypeOK
  <2>2. next' = next /\ next <= next' /\ UNCHANGED <<conn, dialing, session, dropped>>
    BY <1>2, <2>1 DEF clientVars
  <2>3. \A d \in Conn : Live(d)' <=> Live(d)
    BY <2>1, <2>2 DEF Live
  <2>4. /\ Len(t) = Len(s) - 1 /\ Len(s) \in Nat /\ 1 \in 1 .. Len(s) /\ f = s[1]
        /\ \A i \in 1 .. Len(t) : i + 1 \in 1 .. Len(s) /\ t[i] = s[i + 1]
    <3>1. s # <<>> => Len(s) \in Nat /\ Len(s) # 0 /\ f = s[1]
      BY <2>1
    <3>2. QED
      BY <2>1, <3>1, TailElements
  <2>5. /\ Numbered(c) /\ ~judged[c].repeated /\ base \in Int /\ base = last[c]
        /\ judged[c].missing \in Int /\ dropped[c] \in Int
        /\ \A g \in Later : g.seq \in Int
    <3>1. Numbered(c) /\ ~judged[c].repeated
      BY <1>2, <2>1 DEF Ordered
    <3>2. base \in Int /\ base = last[c]
      BY <2>1, BaseTyped DEF Base
    <3>3. judged[c].missing \in Int /\ dropped[c] \in Int
      BY DEF TypeOK, Verdict
    <3>4. \A g \in Later : g.seq \in Int
      BY Frames, BoundAssumption DEF Number
    <3>5. QED
      BY <3>1, <3>2, <3>3, <3>4
  <2>6. up'[c] = t
    BY <2>1 DEF TypeOK
  <2> HIDE DEF s, t, f, base
  <2>7. /\ judged[c].missing <= dropped[c]
        /\ base < next
        /\ \A i \in 1 .. Len(s) :
             /\ s[i] \in Later /\ base < s[i].seq /\ s[i].seq < next
             /\ s[i].seq - i + judged[c].missing <= base + dropped[c]
        /\ \A i, j \in 1 .. Len(s) : i < j => s[i].seq < s[j].seq
        /\ Live(c) => next - 1 - Len(s) + judged[c].missing <= base + dropped[c]
    BY <2>5 DEF Numbered, base, s
  <2>8. /\ f \in Later /\ base < f.seq /\ f.seq < next /\ f.seq \in Number
        /\ f.seq - 1 + judged[c].missing <= base + dropped[c]
    BY <2>4, <2>7, Frames
  <2>9. /\ last'[c] = f.seq /\ ~judged'[c].repeated
        /\ judged'[c].missing = judged[c].missing + (f.seq - base - 1)
        /\ \A d \in Conn \ {c} : last'[d] = last[d] /\ judged'[d] = judged[d]
    <3>1. f # Junk
      BY <2>8, Frames
    <3>2. Observe(c, f.seq)
      BY <1>11, <3>1 DEF Receives, f
    <3>3. f.seq > last[c]
      BY <2>5, <2>8
    <3>4. /\ last'[c] = f.seq /\ judged'[c].repeated = judged[c].repeated
          /\ judged'[c].missing = judged[c].missing + (f.seq - last[c] - 1)
          /\ \A d \in Conn \ {c} : last'[d] = last[d] /\ judged'[d] = judged[d]
      BY <2>8, <3>2, <3>3, Observed DEF TypeOK
    <3>5. QED
      BY <2>5, <3>4
  <2>10. \A d \in Conn \ {c} : Ordered(d)'
    <3>1. \A d \in Conn \ {c} : up'[d] = up[d]
      BY <2>1 DEF TypeOK
    <3>2. QED
      BY <1>2, <2>1, <2>2, <2>3, <2>9, <3>1, OrderedStays
  <2>11. Base(c)' = f.seq /\ f.seq \in Int
    BY <2>1, <2>5, <2>8, <2>9 DEF Base
  <2>12. judged'[c].missing <= dropped[c] /\ judged'[c].missing \in Int
    BY <2>5, <2>8, <2>9, <2>11
  <2>13. ASSUME NEW i \in 1 .. Len(t)
         PROVE  /\ t[i] \in Later /\ f.seq < t[i].seq /\ t[i].seq < next
                /\ t[i].seq - i + judged'[c].missing <= f.seq + dropped[c]
    <3>1. i + 1 \in 1 .. Len(s) /\ t[i] = s[i + 1] /\ i \in Int /\ 1 < i + 1
      BY <2>4
    <3>2. /\ t[i] \in Later /\ t[i].seq < next /\ f.seq < t[i].seq
          /\ t[i].seq - (i + 1) + judged[c].missing <= base + dropped[c]
      BY <2>4, <2>7, <3>1
    <3>3. t[i].seq \in Int
      BY <2>5, <3>2
    <3>4. QED
      <4> DEFINE was == judged[c].missing
                 new == t[i].seq
                 from == f.seq
      <4>1. /\ was \in Int /\ new \in Int /\ from \in Int
            /\ new - (i + 1) + was <= base + dropped[c]
            /\ judged'[c].missing = was + (from - base - 1)
        BY <2>5, <2>9, <2>11, <3>2, <3>3
      <4> HIDE DEF was, new, from
      <4>2. new - i + (was + (from - base - 1)) <= from + dropped[c]
        BY <2>5, <3>1, <4>1, GapShifts
      <4>3. QED
        BY <3>2, <4>1, <4>2 DEF new, from
  <2>14. ASSUME NEW i \in 1 .. Len(t), NEW j \in 1 .. Len(t), i < j
         PROVE  t[i].seq < t[j].seq
    <3>1. i + 1 \in 1 .. Len(s) /\ j + 1 \in 1 .. Len(s) /\ i + 1 < j + 1
      BY <2>4, <2>14
    <3>2. QED
      BY <2>4, <2>7, <3>1
  <2>15. Live(c) => next - 1 - Len(t) + judged'[c].missing <= f.seq + dropped[c]
    <3> DEFINE was == judged[c].missing
               from == f.seq
               old == Len(s)
    <3>1. /\ was \in Int /\ from \in Int /\ old \in Int /\ Len(t) = old - 1
          /\ Live(c) => next - 1 - old + was <= base + dropped[c]
          /\ judged'[c].missing = was + (from - base - 1)
      BY <2>4, <2>5, <2>7, <2>9, <2>11
    <3> HIDE DEF was, from, old
    <3>2. Live(c) => next - 1 - (old - 1) + (was + (from - base - 1)) <= from + dropped[c]
      <4>1. Live(c) => next - (old + 1) + was <= base + dropped[c]
        BY <1>2, <2>5, <3>1
      <4>2. Live(c) => next - old + (was + (from - base - 1)) <= from + dropped[c]
        BY <1>2, <2>5, <3>1, <4>1, GapShifts
      <4>3. QED
        BY <1>2, <2>5, <3>1, <4>2
    <3>3. QED
      BY <3>1, <3>2 DEF from
  <2>16. Numbered(c)'
    BY <2>2, <2>3, <2>6, <2>8, <2>11, <2>12, <2>13, <2>14, <2>15 DEF Numbered
  <2>17. Ordered(c)'
    BY <1>2, <2>1, <2>2, <2>9, <2>16 DEF Ordered
  <2>18. QED
    BY <2>10, <2>17
<1>12. ASSUME NEW c \in Conn, LinkDies(c)
       PROVE  \A d \in Conn : Ordered(d)'
  <2>1. PICK m \in 0 .. Len(up[c]) : up' = [up EXCEPT ![c] = SubSeq(up[c], 1, m)]
    BY <1>12 DEF LinkDies
  <2>2. /\ UNCHANGED <<clientVars, brainVars, first>>
        /\ link'[c] = "down" /\ up[c] \in Seq(Frame)
        /\ \A d \in Conn \ {c} : link'[d] = link[d] /\ up'[d] = up[d]
    BY <1>12, <2>1 DEF LinkDies, TypeOK
  <2>3. /\ next' = next /\ next <= next'
        /\ UNCHANGED <<conn, dialing, session, dropped, handler, terms, registered, last,
                       judged>>
    BY <1>2, <2>2 DEF clientVars, brainVars
  <2>4. \A d \in Conn \ {c} : Ordered(d)'
    <3>1. \A d \in Conn \ {c} : Live(d)' <=> Live(d)
      BY <2>2, <2>3 DEF Live
    <3>2. QED
      BY <1>2, <2>2, <2>3, <3>1, OrderedStays
  <2>5. /\ Len(up'[c]) = m /\ m \in Nat /\ m <= Len(up[c]) /\ Len(up[c]) \in Nat
        /\ \A i \in 1 .. m : i \in 1 .. Len(up[c]) /\ up'[c][i] = up[c][i]
    <3>1. up'[c] = SubSeq(up[c], 1, m)
      BY <2>1 DEF TypeOK
    <3>2. Len(up[c]) \in Nat
      BY <2>2
    <3>3. QED
      BY <2>2, <3>1, <3>2, PrefixElements
  <2>6. ~Live(c)' /\ Base(c)' = Base(c)
    BY <2>2, <2>3 DEF Live, Base
  <2>7. Numbered(c) => Numbered(c)'
    BY <2>3, <2>5, <2>6 DEF Numbered
  <2>8. Ordered(c)'
    BY <1>2, <2>2, <2>3, <2>5, <2>7 DEF Ordered
  <2>9. QED
    BY <2>4, <2>8
<1>13. ASSUME NEW c \in Conn, HandlerBreaks(c)
       PROVE  \A d \in Conn : Ordered(d)'
  <2>1. /\ UNCHANGED <<clientVars, terms, registered, last, judged, link, up, first>>
        /\ handler[c] = "serving" /\ handler'[c] = "broken"
        /\ \A d \in Conn \ {c} : handler'[d] = handler[d]
    BY <1>13 DEF HandlerBreaks, HandlerGoes, TypeOK
  <2>2. \A d \in Conn : Numbered(d) => Numbered(d)'
    BY <2>1 DEF Numbered, Base, Live, clientVars
  <2>3. \A d \in Conn : handler'[d] # handler[d] =>
          handler[d] = "serving" /\ handler'[d] = "broken"
    BY <2>1
  <2>4. QED
    BY <1>2, <2>1, <2>2, <2>3 DEF Ordered, clientVars
<1>14. CASE UNCHANGED vars
  BY <1>2, <1>14 DEF vars, clientVars, brainVars, Ordered, Numbered, Base, Live
<1>15. QED
  BY <1>3, <1>4, <1>5, <1>6, <1>7, <1>8, <1>9, <1>10, <1>11, <1>12, <1>13, <1>14
     DEF Next, Client, ClientReceives, HandlerRuns, Leaves

\* The client's frames are never taken for repetitions, and what the tracker
\* calls missing of them was numbered and never sent.
THEOREM NoFalseAlarm == Spec => []HonestFramesInOrder
<1>1. Init => InOrder
  BY BoundAssumption DEF Init, InOrder
<1>2. TypeOK /\ Placed /\ InOrder => HonestFramesInOrder
  BY DEF TypeOK, Placed, InOrder, Numbered, HonestFramesInOrder
<1>3. QED
  BY <1>1, <1>2, Known, InOrderStep, PTL DEF Spec

-----------------------------------------------------------------------------
(* Waiting for the reply.                                                  *)

\* While a dial waits over a living connection, the hello is still before the
\* handler that will judge it, or what it was judged is on its way back: the
\* client and the brain never wait for each other.
ReplyIsDue ==
  dialing /\ link[conn] = "up" =>
    \/ handler[conn] = "accepting" /\ up[conn] # <<>>
    \/ down[conn] # <<>>

\* Steps of other connections, and those that leave a reply where it is.
LEMMA DueStays ==
  ASSUME TypeOK, Dialed, ReplyIsDue, UNCHANGED <<dialing, conn>>,
         dialing => \/ link'[conn] # "up"
                    \/ down'[conn] # <<>>
                    \/ /\ link'[conn] = link[conn] /\ down'[conn] = down[conn]
                       /\ handler[conn] = "accepting" =>
                            handler'[conn] = "accepting" /\ up'[conn] = up[conn]
  PROVE  ReplyIsDue'
BY DEF ReplyIsDue

\* Each step keeps the reply due.
LEMMA ReplyIsDueStep ==
  ASSUME TypeOK, Placed, Dialed, ReplyIsDue, [Next]_vars
  PROVE  ReplyIsDue'
<1>1. dialing => conn \in Conn /\ config # None /\ session = None
  BY DEF Dialed, TypeOK
<1>2. ASSUME NEW c \in Conn, Dial(c) PROVE ReplyIsDue'
  <2>1. conn' = c /\ handler'[c] = "accepting" /\ up'[c] = <<HelloFrame>>
    BY <1>2 DEF Dial, TypeOK
  <2>2. QED BY <2>1 DEF ReplyIsDue
<1>3. CASE ClientReceives \/ DialTimesOut
  BY <1>3 DEF ClientReceives, Welcomed, Rejected, Replied, DialLosesLink, DialTimesOut,
              ReplyIsDue
<1>4. CASE Sends \/ SendFails \/ Closes
  <2>1. ~dialing'
    BY <1>1, <1>4 DEF Sends, SendFails, Closes
  <2>2. QED BY <2>1 DEF ReplyIsDue
<1>5. ASSUME NEW c \in Conn, Caller(c) PROVE ReplyIsDue'
  <2>1. ~dialing'
    BY <1>1, <1>5 DEF Caller, CallerDials, CallerSends, clientVars
  <2>2. QED BY <2>1 DEF ReplyIsDue
<1>6. ASSUME NEW c \in Conn, Refuses(c) \/ Welcomes(c) PROVE ReplyIsDue'
  <2>1. /\ UNCHANGED <<dialing, conn, link>>
        /\ \A d \in Conn \ {c} : /\ down'[d] = down[d] /\ up'[d] = up[d]
                                 /\ handler'[d] = handler[d]
    BY <1>6 DEF Refuses, Welcomes, HandlerGoes, Replies, clientVars, TypeOK
  <2>2. link[c] = "up" => down'[c] # <<>>
    <3>1. PICK r : down' = IF link[c] = "up" THEN [down EXCEPT ![c] = Append(@, r)] ELSE down
      BY <1>6 DEF Refuses, Welcomes, Replies
    <3>2. Append(down[c], r) # <<>>
      OBVIOUS
    <3>3. QED BY <3>1, <3>2 DEF TypeOK
  <2>3. QED BY <1>1, <2>1, <2>2, DueStays
<1>7. ASSUME NEW c \in Conn,
             \/ AcceptTimesOut(c) \/ AcceptLosesLink(c) \/ RefusalSent(c)
             \/ WelcomeFails(c) \/ SessionEnds(c) \/ HandlerBreaks(c) \/ LinkDies(c)
      PROVE  ReplyIsDue'
  <2>1. /\ UNCHANGED <<dialing, conn>> /\ link'[c] = "down"
        /\ \A d \in Conn \ {c} : /\ link'[d] = link[d] /\ down'[d] = down[d]
                                 /\ up'[d] = up[d] /\ handler'[d] = handler[d]
    BY <1>7 DEF AcceptTimesOut, AcceptLosesLink, RefusalSent, WelcomeFails, SessionEnds,
                HandlerBreaks, LinkDies, HandlerGoes, clientVars, brainVars, TypeOK
  <2>2. QED BY <1>1, <2>1, DueStays
<1>8. ASSUME NEW c \in Conn, SessionOpens(c) \/ Receives(c) PROVE ReplyIsDue'
  <2>1. /\ UNCHANGED <<dialing, conn, link, down>> /\ handler[c] # "accepting"
        /\ \A d \in Conn \ {c} : up'[d] = up[d] /\ handler'[d] = handler[d]
    BY <1>8 DEF SessionOpens, Receives, HandlerGoes, clientVars, TypeOK
  <2>2. QED BY <1>1, <2>1, DueStays
<1>9. CASE UNCHANGED vars
  BY <1>9, DueStays DEF vars, clientVars, brainVars
<1>10. QED
  BY <1>2, <1>3, <1>4, <1>5, <1>6, <1>7, <1>8, <1>9 DEF Next, Client, HandlerRuns

\* A dial is never left hanging: as long as its connection lives, its hello
\* is before the handler or the reply is under way (client.py's wait in
\* connect, against _open and _refuse of server.py).
THEOREM NoDialHangs == Spec => []ReplyIsDue
<1>1. Init => ReplyIsDue
  BY DEF Init, ReplyIsDue
<1>2. TypeOK /\ Placed /\ Dialed /\ ReplyIsDue /\ [Next]_vars => ReplyIsDue'
  BY ReplyIsDueStep
<1>3. QED BY <1>1, <1>2, Started, PTL DEF Spec
=============================================================================
