--------------------------- MODULE System_proofs ---------------------------
(***************************************************************************)
(* Brain and body together implement SpanLife, for every set of spans,     *)
(* every command they carry, and every lease and bound.                    *)
(*                                                                         *)
(* Each step of System is first reduced to what it does to the two halves' *)
(* books and to the frames between them; what follows for the invariant    *)
(* and for the places of the spans is then a question about those alone.   *)
(***************************************************************************)
EXTENDS System, TLAPS

\* What each variable the places depend on may hold.
Typed ==
  /\ ledger \in [Span -> {"unseen", "open"} \cup Body!Terminal]
  /\ results \in [Span -> Nat]
  /\ left \in [Body!Proc -> SUBSET Span]
  /\ down \in Seq(Body!Frame)
  /\ up \in Seq(Brain!Frame)
  /\ asked \in SUBSET Span
  /\ spans \in SUBSET Span
  /\ ended \in [Span -> Nat]
  /\ believed \in [Span -> {"nothing", "answered", "failed"}]
  /\ bodyLink \in {"up", "down"}
  /\ brainLink \in {"up", "down"}

\* The brain waits only on spans somebody asked about, and of those it no
\* longer waits on it alone remembers why.
Booked ==
  /\ spans \subseteq asked
  /\ \A s \in Span : believed[s] # "nothing" => s \in asked \ spans

\* Nobody has heard of a span that was not asked.
Unheard ==
  \A s \in Span \ asked :
    /\ ledger[s] = "unseen"
    /\ ~Arriving(down, "command", s)
    /\ ~Arriving(up, "result", s)

\* A task of the body's has only spans to end that were begun.
Begun == \A p \in Body!Proc : \A s \in left[p] : ledger[s] # "unseen"

\* A result on its way is the result of a span that has ended.
Honest == \A s \in Span : Arriving(up, "result", s) => ledger[s] \in Body!Terminal

\* Over a connection nobody has seen die, what the brain waits for is
\* somewhere.
UnderWay ==
  bodyLink = "up" /\ brainLink = "up" =>
    \A s \in spans :
      \/ Arriving(up, "result", s)
      \/ ledger[s] = "open"
      \/ ledger[s] = "unseen" /\ Arriving(down, "command", s)

Inv == Typed /\ Booked /\ Unheard /\ Begun /\ Honest /\ UnderWay

-----------------------------------------------------------------------------
(* The frames between them.                                                *)

\* What one more frame on the wire adds to what is on its way.
LEMMA ArrivingAppended ==
  ASSUME NEW F, NEW queue \in Seq(F), NEW f \in F, NEW type, NEW s
  PROVE  Arriving(Append(queue, f), type, s)
           <=> Arriving(queue, type, s) \/ (f.type = type /\ f.span = s)
<1> DEFINE new == Append(queue, f)
<1>1. /\ DOMAIN queue = 1 .. Len(queue) /\ Len(queue) \in Nat
      /\ DOMAIN new = 1 .. Len(queue) + 1
      /\ \A i \in 1 .. Len(queue) : new[i] = queue[i]
      /\ new[Len(queue) + 1] = f
  OBVIOUS
<1> HIDE DEF new
<1>2. QED BY <1>1 DEF Arriving

\* What taking the oldest frame off the wire removes.
LEMMA ArrivingTaken ==
  ASSUME NEW F, NEW queue \in Seq(F), queue # <<>>, NEW type, NEW s
  PROVE  /\ Tail(queue) \in Seq(F)
         /\ Head(queue) \in F
         /\ Arriving(queue, type, s)
              <=> \/ Arriving(Tail(queue), type, s)
                  \/ Head(queue).type = type /\ Head(queue).span = s
<1> DEFINE rest == Tail(queue)
<1>1. /\ rest \in Seq(F)
      /\ Head(queue) \in F /\ Head(queue) = queue[1]
      /\ Len(queue) \in Nat \ {0}
      /\ DOMAIN queue = 1 .. Len(queue)
      /\ DOMAIN rest = 1 .. Len(queue) - 1
      /\ \A i \in 1 .. Len(queue) - 1 : rest[i] = queue[i + 1]
  OBVIOUS
<1> HIDE DEF rest
<1>2. ASSUME NEW i \in DOMAIN queue, queue[i].type = type, queue[i].span = s, i # 1
      PROVE  Arriving(rest, type, s)
  <2>1. i - 1 \in DOMAIN rest /\ rest[i - 1] = queue[i]
    BY <1>1, <1>2
  <2>2. QED BY <1>2, <2>1 DEF Arriving
<1>3. ASSUME NEW i \in DOMAIN rest, rest[i].type = type, rest[i].span = s
      PROVE  Arriving(queue, type, s)
  <2>1. i + 1 \in DOMAIN queue /\ queue[i + 1] = rest[i]
    BY <1>1
  <2>2. QED BY <1>3, <2>1 DEF Arriving
<1>4. Head(queue).type = type /\ Head(queue).span = s => Arriving(queue, type, s)
  BY <1>1 DEF Arriving
<1>5. QED BY <1>1, <1>2, <1>3, <1>4 DEF Arriving

\* Losing the latest frames adds nothing.
LEMMA ArrivingCut ==
  ASSUME NEW F, NEW queue \in Seq(F), NEW n \in 0 .. Len(queue), NEW type, NEW s
  PROVE  /\ SubSeq(queue, 1, n) \in Seq(F)
         /\ Arriving(SubSeq(queue, 1, n), type, s) => Arriving(queue, type, s)
<1> DEFINE cut == SubSeq(queue, 1, n)
<1>1. /\ cut \in Seq(F)
      /\ DOMAIN cut = 1 .. n /\ 1 .. n \subseteq DOMAIN queue
      /\ \A i \in 1 .. n : cut[i] = queue[i]
  OBVIOUS
<1> HIDE DEF cut
<1>2. QED BY <1>1 DEF Arriving

-----------------------------------------------------------------------------
(* A turn of the body's.                                                   *)

\* A span ends, and its result goes out if the socket lives.
Ends(s) ==
  /\ ledger[s] \notin Body!Terminal
  /\ \E status \in Body!Terminal : ledger' = [ledger EXCEPT ![s] = status]
  /\ results' = [results EXCEPT ![s] = IF bodyLink = "up" THEN @ + 1 ELSE @]

Begins(s) ==
  /\ ledger' = [ledger EXCEPT ![s] = "open"]
  /\ UNCHANGED results

\* The next frame is taken, and it is a command or it is not.
Takes == down # <<>> /\ down' = Tail(down)
TakesCommand(s) == Takes /\ Head(down).type = "command" /\ Head(down).span = s

\* A span that the body has in hand may end, whatever frame is taken; one it
\* has not seen begins or ends only when its command is, and then it does.
Turn ==
  \/ /\ \/ UNCHANGED down
        \/ Takes /\ (Head(down).type = "command" => ledger[Head(down).span] # "unseen")
     /\ \/ UNCHANGED <<ledger, results>>
        \/ \E s \in Span : ledger[s] # "unseen" /\ Ends(s)
  \/ \E s \in Span :
       /\ TakesCommand(s)
       /\ ledger[s] = "unseen"
       /\ Ends(s) \/ Begins(s)

\* The tasks are left with spans that were begun.
LeftBegun ==
  /\ left' \in [Body!Proc -> SUBSET Span]
  /\ \A p \in Body!Proc : \A s \in left'[p] : s \in left[p] \/ ledger'[s] # "unseen"

\* A terminal status is none of the others.
LEMMA Statuses == "unseen" \notin Body!Terminal /\ "open" \notin Body!Terminal
BY DEF Body!Terminal

\* _emit_terminal ends a span or does nothing, and the result is wanted.
LEMMA EmitTerminalEnds ==
  ASSUME Typed, NEW s \in Span, NEW status \in Body!Terminal,
         Body!EmitTerminal(s, status)
  PROVE  IF Body!Ended(s) THEN UNCHANGED <<ledger, results>> ELSE Ends(s)
<1>1. CASE Body!Ended(s)
  BY <1>1 DEF Body!EmitTerminal
<1>2. CASE ~Body!Ended(s)
  <2>1. /\ ledger' = [ledger EXCEPT ![s] = status]
        /\ results' = [results EXCEPT ![s] =
                         IF CommandOf[s].expects_result /\ bodyLink = "up"
                         THEN @ + 1 ELSE @]
    BY <1>2 DEF Body!EmitTerminal
  <2>2. CommandOf[s].expects_result
    BY WantedAssumption
  <2>3. QED BY <1>2, <2>1, <2>2 DEF Ends, Body!Ended
<1>3. QED BY <1>1, <1>2

\* A turn of a latch ends one span that was begun, or none.
LEMMA LatchEnds ==
  ASSUME Typed, NEW p \in Body!Proc, NEW some \in SUBSET Span,
         \A s \in some : ledger[s] # "unseen",
         NEW t, NEW st, Body!FailThenAnnounce(p, some, t, st)
  PROVE  /\ \/ UNCHANGED <<ledger, results>>
            \/ \E s \in Span : ledger[s] # "unseen" /\ Ends(s)
         /\ LeftBegun
<1> DEFINE pending == {s \in some : ~Body!Ended(s)}
<1>1. ASSUME NEW s \in pending, Body!EmitTerminal(s, "failed"),
             left' = [left EXCEPT ![p] = pending \ {s}]
      PROVE  Ends(s) /\ LeftBegun
  <2>1. Ends(s)
    BY <1>1, EmitTerminalEnds DEF Body!Terminal
  <2>2. PICK status \in Body!Terminal : ledger' = [ledger EXCEPT ![s] = status]
    BY <2>1 DEF Ends
  <2>3. \A x \in some : ledger'[x] # "unseen"
    BY <2>2, Statuses DEF Typed
  <2>4. QED BY <1>1, <2>1, <2>3 DEF LeftBegun, Typed
<1>2. CASE left' = [left EXCEPT ![p] = {}] /\ UNCHANGED <<ledger, results>>
  BY <1>2 DEF LeftBegun, Typed
<1>3. QED BY <1>1, <1>2 DEF Body!FailThenAnnounce

\* What any turn of any of the body's tasks is to the books.
LEMMA BodyTurns ==
  ASSUME Typed, Begun, Body!ReceiveLoop \/ Body!Watchdog \/ Body!RunReturns
  PROVE  Turn /\ LeftBegun /\ UNCHANGED bodyLink
<1>a. "recv" \in Body!Proc /\ "watch" \in Body!Proc
  BY DEF Body!Proc
<1>b. Body!InFlightActuation \in SUBSET Span
      /\ \A s \in Body!InFlightActuation : ledger[s] # "unseen"
  BY DEF Body!InFlightActuation, Body!Outstanding
<1>c. UNCHANGED left => LeftBegun
  BY DEF LeftBegun, Typed
<1>1. CASE Body!RecvHeartbeat \/ Body!RecvEstopClear
  BY <1>1, <1>c DEF Body!RecvHeartbeat, Body!RecvEstopClear, Body!NextFrame, Turn, Takes
<1>2. CASE Body!RecvDuplicate
  BY <1>2, <1>c DEF Body!RecvDuplicate, Body!NextFrame, Body!IsNew, Turn, Takes
<1>3. CASE Body!RecvEstop
  <2>1. Body!FailThenAnnounce("recv", Body!InFlightActuation, Body!Estop(safety),
                              Body!Estop(safety).state)
    BY <1>3 DEF Body!RecvEstop
  <2>2. Takes /\ Head(down).type # "command" /\ UNCHANGED bodyLink
    BY <1>3 DEF Body!RecvEstop, Body!NextFrame, Takes
  <2>3. QED BY <1>a, <1>b, <2>1, <2>2, LatchEnds DEF Turn
<1>4. ASSUME NEW s \in Span, Body!RecvTooLate(s) \/ Body!RecvCommand(s)
      PROVE  Turn /\ LeftBegun /\ UNCHANGED bodyLink
  <2>1. TakesCommand(s) /\ ledger[s] = "unseen" /\ UNCHANGED <<left, bodyLink>>
    BY <1>4 DEF Body!RecvTooLate, Body!RecvCommand, Body!NextFrame, Body!IsNew,
                TakesCommand, Takes
  <2>2. Body!OutcomeOf(s) \in Body!Terminal /\ "expired" \in Body!Terminal
    BY DEF Body!OutcomeOf, Body!Terminal
  <2>3. Ends(s)
    BY <1>4, <2>1, <2>2, EmitTerminalEnds, Statuses
       DEF Body!RecvTooLate, Body!RecvCommand, Body!Ended
  <2>4. QED BY <1>c, <2>1, <2>3 DEF Turn
<1>5. ASSUME NEW s \in Span, Body!RecvClearSafeHold(s)
      PROVE  Turn /\ LeftBegun /\ UNCHANGED bodyLink
  <2> DEFINE t == Body!ClearSafeHold(safety)
  <2>1. TakesCommand(s) /\ ledger[s] = "unseen" /\ UNCHANGED bodyLink
    BY <1>5 DEF Body!RecvClearSafeHold, Body!NextFrame, Body!IsNew, TakesCommand, Takes
  <2>2. CASE t.changed
    <3>1. /\ ledger' = [ledger EXCEPT ![s] = "open"]
          /\ left' = [left EXCEPT !["recv"] = {s}]
          /\ UNCHANGED results
      BY <1>5, <2>2 DEF Body!RecvClearSafeHold
    <3>2. LeftBegun
      BY <1>a, <3>1 DEF LeftBegun, Typed
    <3>3. QED BY <2>1, <3>1, <3>2 DEF Turn, Begins
  <2>3. CASE ~t.changed
    <3>1. PICK status \in {"rejected", "succeeded"} : Body!EmitTerminal(s, status)
      BY <1>5, <2>3, Zenon DEF Body!RecvClearSafeHold
    <3>2. UNCHANGED left
      BY <1>5, <2>3 DEF Body!RecvClearSafeHold
    <3>3. status \in Body!Terminal
      BY DEF Body!Terminal
    <3>4. Ends(s)
      BY <2>1, <3>1, <3>3, EmitTerminalEnds, Statuses DEF Body!Ended
    <3>5. QED BY <1>c, <2>1, <3>2, <3>4 DEF Turn
  <2>4. QED BY <2>2, <2>3
<1>6. ASSUME NEW s \in Span, Body!ClearFinishes(s)
      PROVE  Turn /\ LeftBegun /\ UNCHANGED bodyLink
  <2>1. /\ s \in left["recv"] /\ left' = [left EXCEPT !["recv"] = {}]
        /\ Body!EmitTerminal(s, "succeeded") /\ UNCHANGED <<down, bodyLink>>
    BY <1>6 DEF Body!ClearFinishes
  <2>2. ledger[s] # "unseen"
    BY <1>a, <2>1 DEF Begun
  <2>3. UNCHANGED <<ledger, results>> \/ Ends(s)
    BY <2>1, EmitTerminalEnds DEF Body!Terminal
  <2>4. LeftBegun
    BY <1>a, <2>1 DEF LeftBegun, Typed
  <2>5. QED BY <2>1, <2>2, <2>3, <2>4 DEF Turn
<1>7. ASSUME NEW p \in Body!Proc, Body!Resume(p)
      PROVE  Turn /\ LeftBegun /\ UNCHANGED bodyLink
  <2>1. Body!FailThenAnnounce(p, left[p], moved[p], safety)
        /\ UNCHANGED <<down, bodyLink>>
    BY <1>7 DEF Body!Resume
  <2>2. left[p] \in SUBSET Span /\ \A s \in left[p] : ledger[s] # "unseen"
    BY DEF Typed, Begun
  <2>3. QED BY <2>1, <2>2, LatchEnds DEF Turn
<1>8. CASE Body!WatchLatches
  <2> DEFINE t == Body!EnterSafeHold(safety)
             some == IF t.changed THEN Body!InFlightActuation ELSE {}
  <2>1. Body!FailThenAnnounce("watch", some, t, t.state) /\ UNCHANGED <<down, bodyLink>>
    BY <1>8 DEF Body!WatchLatches
  <2>2. some \in SUBSET Span /\ \A s \in some : ledger[s] # "unseen"
    BY <1>b
  <2> HIDE DEF t, some
  <2>3. QED BY <1>a, <2>1, <2>2, LatchEnds DEF Turn
<1>9. CASE Body!RecvEnds \/ Body!WatchRearms
  BY <1>9, <1>c DEF Body!RecvEnds, Body!WatchRearms, Turn
<1>10. CASE Body!RunReturns
  BY <1>10 DEF Body!RunReturns, Body!AllOver, Turn, LeftBegun
<1>11. CASE Body!ReceiveLoop
  BY <1>a, <1>1, <1>2, <1>3, <1>4, <1>5, <1>6, <1>7, <1>9, <1>11 DEF Body!ReceiveLoop
<1>12. CASE Body!Watchdog
  BY <1>a, <1>7, <1>8, <1>9, <1>12 DEF Body!Watchdog
<1>13. QED BY <1>10, <1>11, <1>12

-----------------------------------------------------------------------------
(* The places of the spans.                                                *)

Places == [s \in Span |-> Place(s)]
Severed == bodyLink = "down" \/ brainLink = "down"
LifeStep == Life!SpanNext \/ UNCHANGED <<Places, Severed>>

\* The place of a span, case by case.
LEMMA PlacesNow ==
  ASSUME NEW s \in Span
  PROVE  /\ s \notin asked => Place(s) = "unasked"
         /\ s \in asked /\ believed[s] # "nothing" => Place(s) = believed[s]
         /\ s \in asked \ spans /\ believed[s] = "nothing" => Place(s) = "dropped"
         /\ s \in asked \cap spans /\ believed[s] = "nothing" =>
              Place(s) = IF Arriving(up, "result", s) THEN "coming"
                         ELSE IF ledger[s] = "open" THEN "running"
                         ELSE IF ledger[s] = "unseen" /\ Arriving(down, "command", s)
                         THEN "going" ELSE "adrift"
<1>1. CASE s \notin asked
  BY <1>1 DEF Place, Waits
<1>2. CASE s \in asked /\ believed[s] # "nothing"
  BY <1>2 DEF Place, Waits
<1>3. CASE s \in asked \ spans /\ believed[s] = "nothing"
  BY <1>3 DEF Place, Waits
<1>4. CASE s \in asked \cap spans /\ believed[s] = "nothing"
  BY <1>4 DEF Place, Waits
<1>5. QED BY <1>1, <1>2, <1>3, <1>4

\* The same of the next state.
LEMMA PlacesNext ==
  ASSUME NEW s \in Span
  PROVE  /\ s \notin asked' => Place(s)' = "unasked"
         /\ s \in asked' /\ believed'[s] # "nothing" => Place(s)' = believed'[s]
         /\ s \in asked' \ spans' /\ believed'[s] = "nothing" => Place(s)' = "dropped"
         /\ s \in asked' \cap spans' /\ believed'[s] = "nothing" =>
              Place(s)' = IF Arriving(up', "result", s) THEN "coming"
                          ELSE IF ledger'[s] = "open" THEN "running"
                          ELSE IF ledger'[s] = "unseen" /\ Arriving(down', "command", s)
                          THEN "going" ELSE "adrift"
<1> DEFINE coming == Arriving(up', "result", s)
           going == Arriving(down', "command", s)
           awaits == s \in asked' \cap spans' /\ believed'[s] = "nothing"
<1>1. (coming <=> Arriving(up, "result", s)') /\ (going <=> Arriving(down, "command", s)')
  BY DEF Arriving
<1>2. Place(s)' =
        CASE s \notin asked' -> "unasked"
          [] s \in asked' /\ believed'[s] # "nothing" -> believed'[s]
          [] s \in asked' \ spans' /\ believed'[s] = "nothing" -> "dropped"
          [] awaits /\ coming -> "coming"
          [] awaits /\ ~coming /\ ledger'[s] = "open" -> "running"
          [] awaits /\ ~coming /\ ledger'[s] = "unseen" /\ going -> "going"
          [] OTHER -> "adrift"
  BY <1>1 DEF Place, Waits
<1> HIDE DEF coming, going
<1>3. CASE s \notin asked'
  BY <1>2, <1>3
<1>4. CASE s \in asked' /\ believed'[s] # "nothing"
  BY <1>2, <1>4
<1>5. CASE s \in asked' \ spans' /\ believed'[s] = "nothing"
  BY <1>2, <1>5
<1>6. CASE s \in asked' \cap spans' /\ believed'[s] = "nothing"
  <2>1. Place(s)' = IF coming THEN "coming"
                    ELSE IF ledger'[s] = "open" THEN "running"
                    ELSE IF ledger'[s] = "unseen" /\ going THEN "going" ELSE "adrift"
    BY <1>2, <1>6
  <2>2. QED BY <1>6, <2>1 DEF coming, going
<1>7. QED BY <1>3, <1>4, <1>5, <1>6

\* What the brain waits for is what is under way.
LEMMA AwaitedSpans ==
  ASSUME Typed, Booked
  PROVE  Life!Awaited = spans /\ \A s \in spans : s \in asked /\ believed[s] = "nothing"
<1>1. \A s \in spans : s \in Span /\ s \in asked /\ believed[s] = "nothing"
  BY DEF Typed, Booked
<1>2. \A s \in Span : Place(s) \in Life!UnderWay <=> s \in spans
  <2> SUFFICES ASSUME NEW s \in Span PROVE Place(s) \in Life!UnderWay <=> s \in spans
    OBVIOUS
  <2>1. believed[s] \in {"nothing", "answered", "failed"}
    BY DEF Typed
  <2>2. QED BY <1>1, <2>1, PlacesNow DEF Life!UnderWay
<1>3. QED BY <1>1, <1>2 DEF Life!Awaited, Typed

\* A span's place depends on this and nothing else.
LEMMA PlaceKept ==
  ASSUME NEW s \in Span,
         s \in asked' <=> s \in asked, believed'[s] = believed[s],
         s \in spans' <=> s \in spans,
         s \in spans =>
           /\ Arriving(up', "result", s) <=> Arriving(up, "result", s)
           /\ ledger'[s] = "open" <=> ledger[s] = "open"
           /\ ledger'[s] = "unseen" /\ Arriving(down', "command", s)
                <=> ledger[s] = "unseen" /\ Arriving(down, "command", s)
  PROVE  Place(s)' = Place(s)
BY PlacesNow, PlacesNext

\* The spans of some move together.
LEMMA MovesThose ==
  ASSUME NEW some, NEW to,
         \A s \in Span : Place(s)' = IF s \in some THEN to ELSE Place(s)
  PROVE  Life!Moves(some, to)
BY DEF Life!Moves

\* No span moves.
LEMMA NoneMoves ==
  ASSUME \A s \in Span : Place(s)' = Place(s)
  PROVE  UNCHANGED Places /\ Life!Moves({}, "adrift") /\ {} \in SUBSET Life!Awaited
BY DEF Life!Moves, Places

\* A step that changes no book, and takes and sends no frame that counts.
Idle ==
  /\ UNCHANGED <<ledger, results, left, asked, spans, ended, believed, bodyLink,
                  brainLink>>
  /\ down' \in Seq(Body!Frame)
  /\ up' \in Seq(Brain!Frame)
  /\ \A s \in Span :
       /\ Arriving(up', "result", s) <=> Arriving(up, "result", s)
       /\ Arriving(down', "command", s) <=> Arriving(down, "command", s)

\* Such a step keeps the invariant and the places.
LEMMA IdleStep ==
  ASSUME Inv, Idle
  PROVE  Inv' /\ LifeStep
<1>1. \A s \in Span : /\ Arriving(up, "result", s)' <=> Arriving(up, "result", s)
                      /\ Arriving(down, "command", s)' <=> Arriving(down, "command", s)
  BY DEF Idle, Arriving
<1>2. Typed'
  BY DEF Inv, Idle, Typed
<1>3. Booked' /\ Begun'
  BY DEF Inv, Idle, Booked, Begun
<1>4. Unheard' /\ Honest'
  BY <1>1 DEF Inv, Idle, Unheard, Honest
<1>5. UnderWay'
  BY <1>1 DEF Inv, Idle, UnderWay, Typed
<1>6. \A s \in Span : Place(s)' = Place(s)
  BY PlaceKept DEF Idle
<1>7. UNCHANGED Severed
  BY DEF Idle, Severed
<1>8. QED BY <1>2, <1>3, <1>4, <1>5, <1>6, <1>7, NoneMoves DEF Inv, LifeStep

-----------------------------------------------------------------------------
(* The body's steps.                                                       *)

\* What a turn takes off the wire is not missed by a span still unseen.
LEMMA TurnFrames ==
  ASSUME Inv, Turn
  PROVE  /\ down' \in Seq(Body!Frame)
         /\ \A s \in Span :
              /\ Arriving(down', "command", s) => Arriving(down, "command", s)
              /\ ledger'[s] = "unseen" /\ Arriving(down, "command", s)
                   => Arriving(down', "command", s)
              /\ ledger[s] # "unseen" => ledger'[s] # "unseen"
<1>1. ASSUME NEW s \in Span, Ends(s) \/ Begins(s)
      PROVE  /\ ledger'[s] # "unseen"
             /\ \A x \in Span \ {s} : ledger'[x] = ledger[x]
  BY <1>1, Statuses DEF Ends, Begins, Inv, Typed
<1>2. CASE UNCHANGED down
  <2>1. \A s \in Span : ledger[s] # "unseen" => ledger'[s] # "unseen"
    BY <1>1 DEF Turn
  <2>2. QED BY <1>2, <2>1 DEF Inv, Typed
<1>3. CASE Takes
  <2>1. \A s \in Span : ledger[s] # "unseen" => ledger'[s] # "unseen"
    BY <1>1 DEF Turn
  <2>2. /\ Tail(down) \in Seq(Body!Frame)
        /\ Head(down) \in Body!Frame
        /\ \A s \in Span :
             Arriving(down, "command", s)
               <=> \/ Arriving(Tail(down), "command", s)
                   \/ Head(down).type = "command" /\ Head(down).span = s
    BY <1>3, ArrivingTaken DEF Takes, Inv, Typed
  <2>3. Head(down).type = "command" =>
          Head(down).span \in Span /\ ledger'[Head(down).span] # "unseen"
    <3>1. Head(down).type = "command" => Head(down).span \in Span
      BY <2>2 DEF Body!Frame
    <3>2. CASE Head(down).type = "command" => ledger[Head(down).span] # "unseen"
      BY <2>1, <3>1, <3>2
    <3>3. CASE \E s \in Span : TakesCommand(s) /\ (Ends(s) \/ Begins(s))
      BY <1>1, <3>3 DEF TakesCommand
    <3>4. QED BY <1>3, <3>1, <3>2, <3>3 DEF Turn, Takes, TakesCommand
  <2>4. down' = Tail(down)
    BY <1>3 DEF Takes
  <2>5. QED BY <2>1, <2>2, <2>3, <2>4
<1>4. QED BY <1>2, <1>3 DEF Turn, TakesCommand

\* The span a turn is about was asked, and its result is not on its way yet.
LEMMA TurnIsAsked ==
  ASSUME Inv, NEW s \in Span, ledger[s] \notin Body!Terminal,
         ledger[s] # "unseen" \/ TakesCommand(s)
  PROVE  /\ s \in asked
         /\ ~Arriving(up, "result", s)
         /\ ledger[s] = "open" \/ (ledger[s] = "unseen" /\ Arriving(down, "command", s))
<1>1. ~Arriving(up, "result", s)
  BY DEF Inv, Honest
<1>2. TakesCommand(s) => Arriving(down, "command", s)
  BY ArrivingTaken DEF TakesCommand, Takes, Inv, Typed
<1>3. ledger[s] \in {"unseen", "open"}
  BY DEF Inv, Typed
<1>4. QED BY <1>1, <1>2, <1>3 DEF Inv, Unheard

\* A span that ends is answered over a living connection.
Hears(s) ==
  up' = IF bodyLink = "up" /\ brainLink = "up"
        THEN Append(up, [type |-> "result", span |-> s]) ELSE up

BrainStill == UNCHANGED <<spans, asked, ended, brainLink, believed>>

\* A turn that ends a span hands its result to the socket; no other sends.
LEMMA AnswersSend ==
  ASSUME Typed, Answers
  PROVE  /\ BrainStill
         /\ UNCHANGED results => UNCHANGED up
         /\ \A s \in Span : Ends(s) => Hears(s)
<1> DEFINE answered == {s \in Span : results'[s] > results[s]}
<1>1. IF answered = {} THEN UNCHANGED brainVars
      ELSE \E s \in answered : BrainHears([type |-> "result", span |-> s])
  BY DEF Answers
<1>2. ASSUME NEW s, BrainHears([type |-> "result", span |-> s])
      PROVE  /\ UNCHANGED <<spans, asked, ended, brainLink>>
             /\ up' = IF brainLink = "up"
                      THEN Append(up, [type |-> "result", span |-> s]) ELSE up
  BY <1>2 DEF BrainHears, Brain!BodySends, brainVars
<1>3. BrainStill
  BY <1>1, <1>2 DEF Answers, brainVars, BrainStill
<1>4. ASSUME UNCHANGED results PROVE UNCHANGED up
  <2>1. answered = {}
    BY <1>4 DEF Typed
  <2>2. QED BY <1>1, <2>1 DEF brainVars
<1>5. ASSUME NEW s \in Span, Ends(s) PROVE Hears(s)
  <2>1. CASE bodyLink = "up"
    <3>1. results' = [results EXCEPT ![s] = results[s] + 1]
      BY <1>5, <2>1 DEF Ends
    <3>2. answered = {s}
      BY <3>1 DEF Typed
    <3>3. QED BY <1>1, <1>2, <2>1, <3>2 DEF Hears
  <2>2. CASE bodyLink # "up"
    <3>1. results' = [results EXCEPT ![s] = results[s]]
      BY <1>5, <2>2 DEF Ends
    <3>2. UNCHANGED results
      BY <3>1 DEF Typed
    <3>3. QED BY <1>4, <2>2, <3>2 DEF Hears
  <2>3. QED BY <2>1, <2>2
<1>6. QED BY <1>3, <1>4, <1>5

\* What Ends and Hears together leave on the wire.
LEMMA HeardResult ==
  ASSUME Typed, NEW s \in Span, Hears(s)
  PROVE  /\ up' \in Seq(Brain!Frame)
         /\ \A x \in Span :
              Arriving(up', "result", x) <=>
                \/ Arriving(up, "result", x)
                \/ x = s /\ bodyLink = "up" /\ brainLink = "up"
<1>1. [type |-> "result", span |-> s] \in Brain!Frame
  BY DEF Brain!Frame
<1>2. CASE bodyLink = "up" /\ brainLink = "up"
  BY <1>1, <1>2, ArrivingAppended DEF Hears, Typed
<1>3. CASE ~(bodyLink = "up" /\ brainLink = "up")
  BY <1>3 DEF Hears, Typed
<1>4. QED BY <1>2, <1>3

\* A turn of the body's keeps the invariant, and begins a span, finishes it,
\* loses it with the connection or moves none.
LEMMA BodyStep ==
  ASSUME Inv, BodyReceives \/ BodyWatches \/ BodyReturns
  PROVE  Inv' /\ LifeStep
<1>1. Turn /\ LeftBegun /\ UNCHANGED bodyLink
  BY BodyTurns DEF Inv, BodyReceives, BodyWatches, BodyReturns
<1>2. /\ BrainStill
      /\ UNCHANGED results => UNCHANGED up
      /\ \A s \in Span : Ends(s) => Hears(s)
  <2>1. CASE Answers
    BY <2>1, AnswersSend DEF Inv
  <2>2. CASE BodyReturns
    <3>1. BrainStill /\ UNCHANGED up /\ UNCHANGED results
      BY <2>2 DEF BodyReturns, Body!RunReturns, brainVars, BrainStill
    <3>2. ASSUME NEW s \in Span, Ends(s) PROVE FALSE
      <4>1. UNCHANGED ledger
        BY <2>2 DEF BodyReturns, Body!RunReturns
      <4>2. QED BY <3>2, <4>1 DEF Ends, Inv, Typed
    <3>3. QED BY <3>1, <3>2
  <2>3. QED BY <2>1, <2>2 DEF BodyReceives, BodyWatches
<1>3. /\ down' \in Seq(Body!Frame)
      /\ \A s \in Span :
           /\ Arriving(down', "command", s) => Arriving(down, "command", s)
           /\ ledger'[s] = "unseen" /\ Arriving(down, "command", s)
                => Arriving(down', "command", s)
           /\ ledger[s] # "unseen" => ledger'[s] # "unseen"
  BY <1>1, TurnFrames
<1>4. Begun'
  <2> SUFFICES ASSUME NEW p \in Body!Proc, NEW s \in left'[p] PROVE ledger'[s] # "unseen"
    BY DEF Begun
  <2>1. s \in Span /\ (s \in left[p] \/ ledger'[s] # "unseen")
    BY <1>1 DEF LeftBegun
  <2>2. QED BY <1>3, <2>1 DEF Inv, Begun
<1>5. Booked'
  BY <1>2 DEF BrainStill, Inv, Booked
<1>6. left' \in [Body!Proc -> SUBSET Span]
  BY <1>1 DEF LeftBegun
<1>7. CASE UNCHANGED <<ledger, results>>
  <2>1. Typed' /\ UNCHANGED up
    BY <1>1, <1>2, <1>3, <1>6, <1>7 DEF BrainStill, Inv, Typed
  <2>2. \A s \in Span : /\ Arriving(up, "result", s)' <=> Arriving(up, "result", s)
                        /\ Arriving(down, "command", s)' => Arriving(down, "command", s)
                        /\ ledger[s] = "unseen" /\ Arriving(down, "command", s)
                             => Arriving(down, "command", s)'
    BY <1>3, <1>7, <2>1 DEF Arriving
  <2>3. Unheard' /\ Honest'
    BY <1>2, <1>7, <2>2 DEF BrainStill, Inv, Unheard, Honest
  <2>4. UnderWay'
    BY <1>1, <1>2, <1>7, <2>2 DEF BrainStill, Inv, UnderWay, Typed
  <2>5. \A s \in Span : Place(s)' = Place(s)
    BY <1>2, <1>3, <1>7, <2>1, PlaceKept DEF BrainStill
  <2>6. UNCHANGED Severed
    BY <1>1, <1>2 DEF BrainStill, Severed
  <2>7. QED BY <1>4, <1>5, <2>1, <2>3, <2>4, <2>5, <2>6, NoneMoves DEF Inv, LifeStep
<1>8. ASSUME NEW s \in Span, Ends(s), ledger[s] # "unseen" \/ TakesCommand(s)
      PROVE  Inv' /\ LifeStep
  <2>1. /\ s \in asked /\ ~Arriving(up, "result", s)
        /\ ledger[s] = "open" \/ (ledger[s] = "unseen" /\ Arriving(down, "command", s))
    BY <1>8, TurnIsAsked DEF Ends, Inv, Typed
  <2>2. PICK status \in Body!Terminal : ledger' = [ledger EXCEPT ![s] = status]
    BY <1>8 DEF Ends
  <2>3. /\ ledger'[s] \in Body!Terminal
        /\ \A x \in Span \ {s} : ledger'[x] = ledger[x]
        /\ ledger' \in [Span -> {"unseen", "open"} \cup Body!Terminal]
    BY <2>2 DEF Inv, Typed
  <2>4. /\ up' \in Seq(Brain!Frame)
        /\ \A x \in Span :
             Arriving(up', "result", x) <=>
               \/ Arriving(up, "result", x)
               \/ x = s /\ bodyLink = "up" /\ brainLink = "up"
    BY <1>2, <1>8, HeardResult DEF Inv
  <2>5. results' \in [Span -> Nat]
    <3>1. PICK n \in {results[s], results[s] + 1} : results' = [results EXCEPT ![s] = n]
      BY <1>8, Zenon DEF Ends
    <3>2. QED BY <3>1 DEF Inv, Typed
  <2>6. Typed'
    BY <1>1, <1>2, <1>3, <1>6, <2>3, <2>4, <2>5 DEF BrainStill, Inv, Typed
  <2>7. \A x \in Span : /\ Arriving(up, "result", x)' <=> Arriving(up', "result", x)
                        /\ Arriving(down, "command", x)' <=> Arriving(down', "command", x)
    BY DEF Arriving
  <2>8. Unheard'
    BY <1>2, <1>3, <2>1, <2>3, <2>4, <2>7 DEF BrainStill, Inv, Unheard
  <2>9. Honest'
    BY <2>3, <2>4, <2>7 DEF Inv, Honest
  <2>10. UnderWay'
    <3> SUFFICES ASSUME bodyLink = "up", brainLink = "up", NEW x \in spans
                 PROVE  \/ Arriving(up', "result", x)
                        \/ ledger'[x] = "open"
                        \/ ledger'[x] = "unseen" /\ Arriving(down', "command", x)
      BY <1>1, <1>2, <2>7 DEF BrainStill, UnderWay
    <3>1. x \in Span /\ (\/ Arriving(up, "result", x)
                         \/ ledger[x] = "open"
                         \/ ledger[x] = "unseen" /\ Arriving(down, "command", x))
      BY DEF Inv, Typed, UnderWay
    <3>2. QED BY <1>3, <2>3, <2>4, <3>1
  <2>11. \A x \in Span \ {s} : Place(x)' = Place(x)
    BY <1>2, <1>3, <2>3, <2>4, PlaceKept DEF BrainStill
  <2>12. UNCHANGED Severed
    BY <1>1, <1>2 DEF BrainStill, Severed
  <2>13. LifeStep
    <3>1. CASE s \notin spans
      <4>1. Place(s)' = Place(s)
        BY <1>2, <3>1, PlaceKept DEF BrainStill
      <4>2. QED BY <2>11, <2>12, <4>1, NoneMoves DEF LifeStep
    <3>2. CASE s \in spans
      <4>1. believed[s] = "nothing" /\ Life!Awaited = spans
        BY <3>2, AwaitedSpans DEF Inv
      <4>2. Place(s) \in {"going", "running"}
        BY <2>1, <3>2, <4>1, PlacesNow
      <4>3. Place(s)' = IF bodyLink = "up" /\ brainLink = "up" THEN "coming" ELSE "adrift"
        BY <1>2, <2>1, <2>3, <2>4, <3>2, <4>1, PlacesNext, Statuses DEF BrainStill
      <4>4. CASE bodyLink = "up" /\ brainLink = "up"
        <5>1. Life!Moves({s}, "coming")
          BY <2>11, <4>3, <4>4, MovesThose
        <5>2. Life!Finish(s)
          BY <2>12, <4>2, <5>1 DEF Life!Finish, Severed
        <5>3. QED BY <5>2 DEF LifeStep, Life!SpanNext
      <4>5. CASE ~(bodyLink = "up" /\ brainLink = "up")
        <5>1. Life!Moves({s}, "adrift") /\ {s} \in SUBSET Life!Awaited
          BY <2>11, <3>2, <4>1, <4>3, <4>5, MovesThose
        <5>2. Severed'
          BY <2>12, <4>5 DEF Severed, Inv, Typed
        <5>3. QED BY <5>1, <5>2 DEF LifeStep, Life!SpanNext, Life!Sever, Severed
      <4>6. QED BY <4>4, <4>5
    <3>3. QED BY <3>1, <3>2
  <2>14. QED BY <1>4, <1>5, <2>6, <2>8, <2>9, <2>10, <2>13 DEF Inv
<1>9. ASSUME NEW s \in Span, TakesCommand(s), ledger[s] = "unseen", Begins(s)
      PROVE  Inv' /\ LifeStep
  <2>1. s \in asked /\ ~Arriving(up, "result", s) /\ Arriving(down, "command", s)
    BY <1>9, TurnIsAsked, Statuses
  <2>2. /\ ledger'[s] = "open"
        /\ \A x \in Span \ {s} : ledger'[x] = ledger[x]
        /\ ledger' \in [Span -> {"unseen", "open"} \cup Body!Terminal]
        /\ UNCHANGED <<up, results>>
    BY <1>2, <1>9 DEF Begins, Inv, Typed
  <2>3. Typed'
    BY <1>1, <1>2, <1>3, <1>6, <2>2 DEF BrainStill, Inv, Typed
  <2>4. \A x \in Span : /\ Arriving(up, "result", x)' <=> Arriving(up, "result", x)
                        /\ Arriving(down, "command", x)' <=> Arriving(down', "command", x)
    BY <2>2 DEF Arriving
  <2>5. Unheard'
    BY <1>2, <1>3, <2>1, <2>2, <2>4 DEF BrainStill, Inv, Unheard
  <2>6. Honest'
    BY <2>1, <2>2, <2>4 DEF Inv, Honest
  <2>7. UnderWay'
    <3> SUFFICES ASSUME bodyLink = "up", brainLink = "up", NEW x \in spans
                 PROVE  \/ Arriving(up, "result", x)
                        \/ ledger'[x] = "open"
                        \/ ledger'[x] = "unseen" /\ Arriving(down', "command", x)
      BY <1>1, <1>2, <2>2, <2>4 DEF BrainStill, UnderWay
    <3>1. x \in Span /\ (\/ Arriving(up, "result", x)
                         \/ ledger[x] = "open"
                         \/ ledger[x] = "unseen" /\ Arriving(down, "command", x))
      BY DEF Inv, Typed, UnderWay
    <3>2. QED BY <1>3, <2>2, <3>1
  <2>8. \A x \in Span \ {s} : Place(x)' = Place(x)
    BY <1>2, <1>3, <2>2, PlaceKept DEF BrainStill
  <2>9. UNCHANGED Severed
    BY <1>1, <1>2 DEF BrainStill, Severed
  <2>10. LifeStep
    <3>1. CASE s \notin spans
      <4>1. Place(s)' = Place(s)
        BY <1>2, <3>1, PlaceKept DEF BrainStill
      <4>2. QED BY <2>8, <2>9, <4>1, NoneMoves DEF LifeStep
    <3>2. CASE s \in spans
      <4>1. believed[s] = "nothing"
        BY <3>2, AwaitedSpans DEF Inv
      <4>2. Place(s) = "going"
        BY <1>9, <2>1, <3>2, <4>1, PlacesNow
      <4>3. Place(s)' = "running"
        BY <1>2, <2>1, <2>2, <3>2, <4>1, PlacesNext DEF BrainStill
      <4>4. Life!Moves({s}, "running")
        BY <2>8, <4>3, MovesThose
      <4>5. Life!Begin(s)
        BY <2>9, <4>2, <4>4 DEF Life!Begin, Severed
      <4>6. QED BY <4>5 DEF LifeStep, Life!SpanNext
    <3>3. QED BY <3>1, <3>2
  <2>11. QED BY <1>4, <1>5, <2>3, <2>5, <2>6, <2>7, <2>10 DEF Inv
<1>10. QED BY <1>1, <1>7, <1>8, <1>9 DEF Turn

-----------------------------------------------------------------------------
(* The brain's steps, and everybody else's.                                *)

\* Frames that are neither commands nor results change nothing.
LEMMA HeartbeatSent ==
  ASSUME Inv
  PROVE  /\ Append(up, [type |-> "heartbeat"]) \in Seq(Brain!Frame)
         /\ Append(down, [type |-> "heartbeat"]) \in Seq(Body!Frame)
         /\ \A s : /\ Arriving(Append(up, [type |-> "heartbeat"]), "result", s)
                        <=> Arriving(up, "result", s)
                   /\ Arriving(Append(down, [type |-> "heartbeat"]), "command", s)
                        <=> Arriving(down, "command", s)
<1>1. [type |-> "heartbeat"] \in Brain!Frame /\ [type |-> "heartbeat"] \in Body!Frame
  BY DEF Brain!Frame, Body!Frame
<1>2. up \in Seq(Brain!Frame) /\ down \in Seq(Body!Frame)
  BY DEF Inv, Typed
<1>3. QED BY <1>1, <1>2, ArrivingAppended

\* A heartbeat, from either end, is idle.
LEMMA BeatStep ==
  ASSUME Inv, BodyBeats \/ (Brain!BeatSends /\ BodyHears([type |-> "heartbeat"])
                            /\ UNCHANGED believed)
  PROVE  Idle
<1>1. CASE BodyBeats
  <2>1. UNCHANGED <<ledger, results, left, down, bodyLink, believed>>
    BY <1>1 DEF BodyBeats, Body!HeartbeatBeats, Body!HeartbeatEnds
  <2>2. UNCHANGED <<asked, spans, ended, brainLink>>
        /\ up' \in {up, Append(up, [type |-> "heartbeat"])}
    BY <1>1 DEF BodyBeats, BrainHears, Brain!BodySends, brainVars
  <2>3. QED BY <2>1, <2>2, HeartbeatSent DEF Idle, Inv, Typed
<1>2. CASE Brain!BeatSends /\ BodyHears([type |-> "heartbeat"]) /\ UNCHANGED believed
  <2>1. UNCHANGED <<asked, spans, ended, brainLink, up, believed>>
    BY <1>2 DEF Brain!BeatSends
  <2>2. UNCHANGED <<ledger, results, left, bodyLink>>
        /\ down' \in {down, Append(down, [type |-> "heartbeat"])}
    BY <1>2 DEF BodyHears, Body!BrainSends, bodyVars
  <2>3. QED BY <2>1, <2>2, HeartbeatSent DEF Idle, Inv, Typed
<1>3. QED BY <1>1, <1>2

\* What the handler or the beat task does to the spans it does not end.
Learns(how) ==
  believed' = [s \in Span |-> IF ended'[s] > ended[s] THEN how ELSE believed[s]]

\* A step that ends no span teaches the brain nothing.
LEMMA NothingLearnt ==
  ASSUME Typed, NEW how, Learns(how), UNCHANGED ended
  PROVE  UNCHANGED believed
<1>1. \A s \in Span : ~(ended[s] > ended[s])
  BY DEF Typed
<1>2. QED BY <1>1 DEF Learns, Typed

\* The handler's end of the connection closes, and no span with it.
LEMMA LinkStep ==
  ASSUME Inv, UNCHANGED <<ledger, results, left, down, asked, spans, ended, believed,
                          bodyLink, up>>,
         brainLink' = "down"
  PROVE  Inv' /\ LifeStep
<1>1. \A s \in Span : /\ Arriving(up, "result", s)' <=> Arriving(up, "result", s)
                      /\ Arriving(down, "command", s)' <=> Arriving(down, "command", s)
  BY DEF Arriving
<1>2. Typed' /\ Booked' /\ Begun'
  BY DEF Inv, Typed, Booked, Begun
<1>3. Unheard' /\ Honest' /\ UnderWay'
  BY <1>1 DEF Inv, Unheard, Honest, UnderWay
<1>4. \A s \in Span : Place(s)' = Place(s)
  BY PlaceKept
<1>5. Life!Moves({}, "adrift") /\ {} \in SUBSET Life!Awaited /\ Severed'
  BY <1>4, NoneMoves DEF Severed
<1>6. QED BY <1>2, <1>3, <1>5 DEF Inv, LifeStep, Life!SpanNext, Life!Sever, Severed

\* The spans of some are ended, as how, or dropped.
LEMMA EndStep ==
  ASSUME Inv, NEW some \in SUBSET spans, spans' = spans \ some,
         NEW how \in {"answered", "failed", "nothing"},
         \A s \in Span : believed'[s] = IF s \in some THEN how ELSE believed[s],
         believed' \in [Span -> {"nothing", "answered", "failed"}],
         ended' \in [Span -> Nat],
         UNCHANGED <<ledger, results, left, down, asked, bodyLink>>,
         brainLink' \in {brainLink, "down"},
         up' \in Seq(Brain!Frame),
         \A s \in Span : Arriving(up', "result", s) => Arriving(up, "result", s),
         \A s \in spans' : Arriving(up, "result", s) => Arriving(up', "result", s)
  PROVE  Inv' /\ Life!Moves(some, IF how = "nothing" THEN "dropped" ELSE how)
<1>1. \A s \in Span : /\ Arriving(up, "result", s)' <=> Arriving(up', "result", s)
                      /\ Arriving(down, "command", s)' <=> Arriving(down, "command", s)
  BY DEF Arriving
<1>2. Typed'
  BY DEF Inv, Typed
<1>3. \A s \in some : s \in Span /\ s \in spans /\ s \in asked
  BY DEF Inv, Typed, Booked
<1>4. Booked'
  BY <1>3 DEF Inv, Booked
<1>5. Begun' /\ Unheard' /\ Honest'
  BY <1>1 DEF Inv, Begun, Unheard, Honest
<1>6. UnderWay'
  BY <1>1 DEF Inv, UnderWay, Typed
<1>7. \A s \in some : Place(s)' = IF how = "nothing" THEN "dropped" ELSE how
  BY <1>3, PlacesNext
<1>8. \A s \in Span \ some : Place(s)' = Place(s)
  BY PlaceKept
<1>9. QED BY <1>2, <1>4, <1>5, <1>6, <1>7, <1>8, MovesThose DEF Inv

\* The handler learns a result, or drops what it waits for as it closes.
LEMMA HandlerStep ==
  ASSUME Inv, BrainWorks
  PROVE  Inv' /\ LifeStep
<1>1. Brain!Handler /\ Learns("answered")
      /\ UNCHANGED <<ledger, results, left, down, bodyLink>>
  BY DEF BrainWorks, Learns, bodyVars
<1>2. CASE Brain!HelloAccepted \/ Brain!SessionOpens \/ Brain!WelcomeFails
           \/ Brain!DispatchReturns \/ Brain!HandlerLeaves
  <2>1. UNCHANGED <<asked, spans, ended, brainLink, up>>
    BY <1>2 DEF Brain!HelloAccepted, Brain!SessionOpens, Brain!WelcomeFails,
                Brain!DispatchReturns, Brain!HandlerLeaves
  <2>2. UNCHANGED believed
    BY <1>1, <2>1, NothingLearnt DEF Inv
  <2>3. Idle
    BY <1>1, <2>1, <2>2 DEF Idle, Inv, Typed
  <2>4. QED BY <2>3, IdleStep
<1>3. CASE Brain!RecvHeartbeat \/ Brain!RecvOther
  <2>1. /\ UNCHANGED <<asked, spans, ended, brainLink>>
        /\ up # <<>> /\ up' = Tail(up) /\ Head(up).type # "result"
    BY <1>3 DEF Brain!RecvHeartbeat, Brain!RecvOther, Brain!NextFrame
  <2>2. UNCHANGED believed
    BY <1>1, <2>1, NothingLearnt DEF Inv
  <2>3. up' \in Seq(Brain!Frame)
        /\ \A s \in Span : Arriving(up', "result", s) <=> Arriving(up, "result", s)
    BY <2>1, ArrivingTaken DEF Inv, Typed
  <2>4. Idle
    BY <1>1, <2>1, <2>2, <2>3 DEF Idle, Inv, Typed
  <2>5. QED BY <2>4, IdleStep
<1>4. CASE Brain!HelloRefused \/ Brain!HandlerBreaks
  <2>1. UNCHANGED <<asked, spans, ended, up>> /\ brainLink' = "down"
    BY <1>4 DEF Brain!HelloRefused, Brain!HandlerBreaks
  <2>2. UNCHANGED believed
    BY <1>1, <2>1, NothingLearnt DEF Inv
  <2>3. QED BY <1>1, <2>1, <2>2, LinkStep
<1>5. CASE Brain!HandlerCloses
  <2>1. UNCHANGED <<asked, ended, up>> /\ spans' = {} /\ brainLink' = "down"
    BY <1>5 DEF Brain!HandlerCloses
  <2>2. UNCHANGED believed
    BY <1>1, <2>1, NothingLearnt DEF Inv
  <2>3. /\ \A s \in spans : believed[s] = "nothing"
        /\ Life!Awaited = spans
    BY AwaitedSpans DEF Inv
  <2>4. Inv' /\ Life!Moves(spans, "dropped")
    <3>1. /\ \A s \in Span : believed'[s] = IF s \in spans THEN "nothing" ELSE believed[s]
          /\ believed' \in [Span -> {"nothing", "answered", "failed"}]
          /\ ended' \in [Span -> Nat] /\ up' \in Seq(Brain!Frame)
          /\ spans' = spans \ spans
      BY <2>1, <2>2, <2>3 DEF Inv, Typed
    <3>2. QED BY <1>1, <2>1, <3>1, EndStep
  <2>5. Severed'
    BY <2>1 DEF Severed
  <2>6. QED BY <2>3, <2>4, <2>5 DEF LifeStep, Life!SpanNext, Life!Close, Severed
<1>6. ASSUME NEW s \in Span, Brain!RecvResult(s) PROVE Inv' /\ LifeStep
  <2>1. /\ UNCHANGED <<asked, brainLink>>
        /\ up # <<>> /\ up' = Tail(up) /\ Head(up).type = "result" /\ Head(up).span = s
        /\ spans' = spans \ {s}
        /\ ended' = [x \in Span |-> ended[x] + (IF x \in spans \cap {s} THEN 1 ELSE 0)]
    BY <1>6 DEF Brain!RecvResult, Brain!NextFrame, Brain!ResolveSpan, Brain!EndSpans
  <2>2. /\ up' \in Seq(Brain!Frame)
        /\ Arriving(up, "result", s)
        /\ \A x \in Span \ {s} : Arriving(up', "result", x) <=> Arriving(up, "result", x)
        /\ \A x \in Span : Arriving(up', "result", x) => Arriving(up, "result", x)
    BY <2>1, ArrivingTaken DEF Inv, Typed
  <2>3. ended' \in [Span -> Nat]
        /\ \A x \in Span : ended'[x] > ended[x] <=> x \in spans \cap {s}
    <3>1. \A x \in Span : ended[x] \in Nat
      BY DEF Inv, Typed
    <3>2. QED BY <2>1, <3>1
  <2>4. /\ \A x \in Span : believed'[x] = IF x \in spans \cap {s} THEN "answered"
                                          ELSE believed[x]
        /\ believed' \in [Span -> {"nothing", "answered", "failed"}]
    BY <1>1, <2>3 DEF Learns, Inv, Typed
  <2>5. UNCHANGED Severed
    BY <1>1, <2>1 DEF Severed
  <2>6. spans \cap {s} \in SUBSET spans /\ spans' = spans \ (spans \cap {s})
    BY <2>1
  <2>7. Inv' /\ Life!Moves(spans \cap {s}, "answered")
    <3>1. \A x \in spans' : Arriving(up, "result", x) => Arriving(up', "result", x)
      BY <2>1, <2>2 DEF Inv, Typed
    <3>2. QED BY <1>1, <2>1, <2>2, <2>3, <2>4, <2>6, <3>1, EndStep
  <2>8. CASE s \in spans
    <3>1. spans \cap {s} = {s}
      BY <2>8
    <3>2. Place(s) = "coming"
      BY <2>2, <2>8, AwaitedSpans, PlacesNow DEF Inv
    <3>3. Life!Learn(s)
      BY <2>5, <2>7, <3>1, <3>2 DEF Life!Learn, Severed
    <3>4. QED BY <2>7, <3>3 DEF LifeStep, Life!SpanNext
  <2>9. CASE s \notin spans
    <3>1. UNCHANGED <<believed, spans>>
      BY <2>1, <2>4, <2>9 DEF Inv, Typed
    <3>2. \A x \in Span : Place(x)' = Place(x)
      BY <1>1, <2>1, <2>2, <2>9, <3>1, PlaceKept
    <3>3. QED BY <2>5, <2>7, <3>2, NoneMoves DEF LifeStep
  <2>10. QED BY <2>8, <2>9
<1>7. QED BY <1>1, <1>2, <1>3, <1>4, <1>5, <1>6 DEF Brain!Handler

\* The beat task gives up everything or nothing.
LEMMA BeatTaskStep ==
  ASSUME Inv, BrainBeats
  PROVE  Inv' /\ LifeStep
<1>1. Learns("failed")
  BY DEF BrainBeats, Learns
<1>2. CASE Brain!BeatSends /\ BodyHears([type |-> "heartbeat"])
  <2>1. UNCHANGED ended
    BY <1>2 DEF Brain!BeatSends
  <2>2. QED BY <1>1, <1>2, <2>1, NothingLearnt, BeatStep, IdleStep DEF Inv
<1>3. CASE (Brain!BeatLooks \/ Brain!TellReturns) /\ UNCHANGED bodyVars
  <2>1. UNCHANGED <<asked, spans, ended, brainLink, up, ledger, results, left, down,
                    bodyLink>>
    BY <1>3 DEF Brain!BeatLooks, Brain!TellReturns, bodyVars
  <2>2. UNCHANGED believed
    BY <1>1, <2>1, NothingLearnt DEF Inv
  <2>3. Idle
    BY <2>1, <2>2 DEF Idle, Inv, Typed
  <2>4. QED BY <2>3, IdleStep
<1>4. CASE Brain!BeatMisses /\ UNCHANGED bodyVars
  <2>1. /\ UNCHANGED <<asked, brainLink, up, ledger, results, left, down, bodyLink>>
        /\ spans' = {}
        /\ ended' = [s \in Span |-> ended[s] + (IF s \in spans THEN 1 ELSE 0)]
    BY <1>4 DEF Brain!BeatMisses, Brain!MarkLost, Brain!EndSpans, bodyVars
  <2>2. ended' \in [Span -> Nat] /\ \A s \in Span : ended'[s] > ended[s] <=> s \in spans
    <3>1. \A s \in Span : ended[s] \in Nat
      BY DEF Inv, Typed
    <3>2. QED BY <2>1, <3>1
  <2>3. /\ \A s \in Span : believed'[s] = IF s \in spans THEN "failed" ELSE believed[s]
        /\ believed' \in [Span -> {"nothing", "answered", "failed"}]
    BY <1>1, <2>2 DEF Learns, Inv, Typed
  <2>4. Inv' /\ Life!Moves(spans, "failed")
    <3>1. spans' = spans \ spans /\ up' \in Seq(Brain!Frame)
      BY <2>1 DEF Inv, Typed
    <3>2. QED BY <2>1, <2>2, <2>3, <3>1, EndStep
  <2>5. UNCHANGED Severed
    BY <2>1 DEF Severed
  <2>6. QED
    BY <2>4, <2>5, AwaitedSpans DEF Inv, LifeStep, Life!SpanNext, Life!GiveUp, Severed
<1>5. QED BY <1>2, <1>3, <1>4 DEF BrainBeats

\* A command sent is on its way, unless one end has seen the connection die.
LEMMA AskStep ==
  ASSUME Inv, NEW s \in Span, CallerAsks(s)
  PROVE  Inv' /\ LifeStep
<1> DEFINE ask == [type |-> "command", span |-> s]
<1>1. /\ s \notin asked /\ asked' = asked \cup {s} /\ spans' = spans \cup {s}
      /\ UNCHANGED <<ended, brainLink, up, believed>>
  BY DEF CallerAsks, Brain!CallerSends
<1>2. /\ UNCHANGED <<ledger, results, left, bodyLink>>
      /\ down' = IF bodyLink = "up" /\ brainLink = "up" THEN Append(down, ask) ELSE down
  BY DEF CallerAsks, BodyHears, Body!BrainSends, bodyVars, Inv, Typed
<1>3. /\ down' \in Seq(Body!Frame)
      /\ \A x \in Span : Arriving(down', "command", x)
           <=> \/ Arriving(down, "command", x)
               \/ x = s /\ bodyLink = "up" /\ brainLink = "up"
  <2>1. ask \in Body!Frame /\ down \in Seq(Body!Frame)
    BY DEF Body!Frame, Inv, Typed
  <2>2. \A x : Arriving(Append(down, ask), "command", x)
                 <=> Arriving(down, "command", x) \/ x = s
    BY <2>1, ArrivingAppended
  <2>3. QED BY <1>2, <2>1, <2>2
<1>4. /\ ledger[s] = "unseen" /\ believed[s] = "nothing" /\ s \notin spans
      /\ ~Arriving(up, "result", s) /\ ~Arriving(down, "command", s)
  BY <1>1 DEF Inv, Unheard, Booked
<1>5. \A x \in Span : /\ Arriving(up, "result", x)' <=> Arriving(up, "result", x)
                      /\ Arriving(down, "command", x)' <=> Arriving(down', "command", x)
  BY <1>1 DEF Arriving
<1>6. Typed'
  BY <1>1, <1>2, <1>3 DEF Inv, Typed
<1>7. Booked' /\ Begun'
  BY <1>1, <1>2, <1>4 DEF Inv, Booked, Begun
<1>8. Unheard' /\ Honest'
  BY <1>1, <1>2, <1>3, <1>5 DEF Inv, Unheard, Honest
<1>9. UnderWay'
  BY <1>1, <1>2, <1>3, <1>4, <1>5 DEF Inv, UnderWay, Typed
<1>10. \A x \in Span \ {s} : Place(x)' = Place(x)
  BY <1>1, <1>2, <1>3, PlaceKept
<1>11. Place(s) = "unasked"
  BY <1>1, PlacesNow
<1>12. Place(s)' = IF bodyLink = "up" /\ brainLink = "up" THEN "going" ELSE "adrift"
  BY <1>1, <1>2, <1>3, <1>4, PlacesNext
<1>13. UNCHANGED Severed /\ (Severed <=> ~(bodyLink = "up" /\ brainLink = "up"))
  BY <1>1, <1>2 DEF Severed, Inv, Typed
<1>14. Life!Moves({s}, IF Severed THEN "adrift" ELSE "going")
  BY <1>10, <1>12, <1>13, MovesThose
<1>15. Life!Ask(s)
  BY <1>11, <1>13, <1>14 DEF Life!Ask, Severed
<1>16. QED BY <1>6, <1>7, <1>8, <1>9, <1>15 DEF Inv, LifeStep, Life!SpanNext

\* An end that sees its socket die loses part of what was on its way to it.
LEMMA LossStep ==
  ASSUME Inv, BodyLosesLink \/ BrainLosesLink
  PROVE  Inv' /\ LifeStep
<1>1. /\ UNCHANGED <<ledger, results, left, asked, spans, ended, believed>>
      /\ bodyLink' \in {bodyLink, "down"} /\ brainLink' \in {brainLink, "down"}
      /\ bodyLink' = "down" \/ brainLink' = "down"
      /\ \E n \in 0 .. Len(down) : down' \in {down, SubSeq(down, 1, n)}
      /\ \E n \in 0 .. Len(up) : up' \in {up, SubSeq(up, 1, n)}
  <2>1. 0 \in 0 .. Len(up) /\ 0 \in 0 .. Len(down)
    BY DEF Inv, Typed
  <2>2. CASE BodyLosesLink
    BY <2>1, <2>2 DEF BodyLosesLink, Body!LinkDies, brainVars
  <2>3. CASE BrainLosesLink
    BY <2>1, <2>3 DEF BrainLosesLink, Brain!LinkDies, bodyVars
  <2>4. QED BY <2>2, <2>3
<1>2. /\ down' \in Seq(Body!Frame)
      /\ \A s \in Span : Arriving(down', "command", s) => Arriving(down, "command", s)
  <2>1. down \in Seq(Body!Frame)
    BY DEF Inv, Typed
  <2>2. PICK n \in 0 .. Len(down) : down' \in {down, SubSeq(down, 1, n)}
    BY <1>1
  <2>3. CASE down' = down
    BY <2>1, <2>3
  <2>4. CASE down' = SubSeq(down, 1, n)
    BY <2>1, <2>4, ArrivingCut
  <2>5. QED BY <2>2, <2>3, <2>4
<1>3. /\ up' \in Seq(Brain!Frame)
      /\ \A s \in Span : Arriving(up', "result", s) => Arriving(up, "result", s)
  <2>1. up \in Seq(Brain!Frame)
    BY DEF Inv, Typed
  <2>2. PICK n \in 0 .. Len(up) : up' \in {up, SubSeq(up, 1, n)}
    BY <1>1
  <2>3. CASE up' = up
    BY <2>1, <2>3
  <2>4. CASE up' = SubSeq(up, 1, n)
    BY <2>1, <2>4, ArrivingCut
  <2>5. QED BY <2>2, <2>3, <2>4
<1>4. \A s \in Span : /\ Arriving(up, "result", s)' <=> Arriving(up', "result", s)
                      /\ Arriving(down, "command", s)' <=> Arriving(down', "command", s)
  BY DEF Arriving
<1>5. Typed'
  BY <1>1, <1>2, <1>3 DEF Inv, Typed
<1>6. Booked' /\ Begun'
  BY <1>1 DEF Inv, Booked, Begun
<1>7. Unheard' /\ Honest'
  BY <1>1, <1>2, <1>3, <1>4 DEF Inv, Unheard, Honest
<1>8. UnderWay' /\ Severed'
  BY <1>1 DEF UnderWay, Severed
<1> DEFINE strays == {s \in spans : Place(s)' # Place(s)}
<1>9. \A s \in strays : Place(s)' = "adrift"
  <2> SUFFICES ASSUME NEW s \in spans, Place(s)' # Place(s) PROVE Place(s)' = "adrift"
    OBVIOUS
  <2>1. s \in Span /\ s \in asked /\ believed[s] = "nothing"
    BY AwaitedSpans DEF Inv, Typed
  <2>2. Arriving(up, "result", s) => ledger[s] # "open" /\ ledger[s] # "unseen"
    BY <2>1, Statuses DEF Inv, Honest
  <2>3. QED BY <1>1, <1>2, <1>3, <2>1, <2>2, PlacesNow, PlacesNext
<1>10. \A s \in Span \ spans : Place(s)' = Place(s)
  BY <1>1, PlaceKept
<1>11. Life!Moves(strays, "adrift")
  BY <1>9, <1>10, MovesThose
<1>12. strays \in SUBSET Life!Awaited
  BY AwaitedSpans DEF Inv
<1>13. Life!Sever
  BY <1>8, <1>11, <1>12 DEF Life!Sever, Severed
<1>14. QED BY <1>5, <1>6, <1>7, <1>8, <1>13 DEF Inv, LifeStep, Life!SpanNext

\* Every step keeps the invariant and is one of SpanLife's, or moves no span.
LEMMA SystemStep ==
  ASSUME Inv, [Next]_vars
  PROVE  Inv' /\ LifeStep
<1>1. CASE BodyBeats
  BY <1>1, BeatStep, IdleStep
<1>2. CASE (\E s \in Span : CallerDone(s)) \/ BodyTicks \/ BrainTicks \/ UNCHANGED vars
  <2>1. UNCHANGED <<ledger, results, left, down, up, asked, spans, ended, believed,
                    bodyLink, brainLink>>
    BY <1>2 DEF CallerDone, Brain!CallerSent, BodyTicks, Body!Tick, BrainTicks,
                Brain!Tick, vars, bodyVars, brainVars
  <2>2. Idle
    BY <2>1 DEF Idle, Inv, Typed
  <2>3. QED BY <2>2, IdleStep
<1>3. QED
  BY <1>1, <1>2, BodyStep, HandlerStep, BeatTaskStep, AskStep, LossStep DEF Next

\* The invariant holds at the start.
LEMMA InvBegins == Init => Inv
<1> SUFFICES ASSUME Init PROVE Inv
  OBVIOUS
<1>1. /\ ledger = [s \in Span |-> "unseen"] /\ results = [s \in Span |-> 0]
      /\ left = [p \in Body!Proc |-> {}] /\ down = <<>> /\ up = <<>>
      /\ asked = {} /\ spans = {} /\ ended = [s \in Span |-> 0]
      /\ believed = [s \in Span |-> "nothing"]
      /\ bodyLink = "up" /\ brainLink = "up"
  BY DEF Init, Body!Init
<1>2. Typed
  BY <1>1 DEF Typed
<1>3. \A type, s : ~Arriving(<<>>, type, s)
  BY DEF Arriving
<1>4. QED BY <1>1, <1>2, <1>3 DEF Inv, Booked, Unheard, Begun, Honest, UnderWay

\* And ever after.
LEMMA InvHolds == Spec => []Inv
<1>1. Inv /\ [Next]_vars => Inv'
  BY SystemStep
<1>2. QED BY InvBegins, <1>1, PTL DEF Spec

\* What the brain believes of a span is what the body made of it, and until
\* one end has seen the connection die every span it waits for is under way:
\* the brain and the body implement SpanLife.
THEOREM ImplementsSpanLife == Spec => LivesASpan
<1>1. Init => Life!SpanInit
  <2> SUFFICES ASSUME Init PROVE Life!SpanInit
    OBVIOUS
  <2>1. asked = {} /\ bodyLink = "up" /\ brainLink = "up"
    BY DEF Init, Body!Init
  <2>2. \A s \in Span : Place(s) = "unasked"
    BY <2>1, PlacesNow
  <2>3. QED BY <2>1, <2>2 DEF Life!SpanInit
<1>2. Inv /\ [Next]_vars => Inv' /\ [Life!SpanNext]_<<Places, Severed>>
  BY SystemStep DEF LifeStep
<1>3. QED
  BY InvBegins, <1>1, <1>2, PTL DEF Spec, LivesASpan, Life!SpanSpec, Places, Severed

=============================================================================
