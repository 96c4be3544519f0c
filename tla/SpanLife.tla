------------------------------ MODULE SpanLife ------------------------------
(***************************************************************************)
(* What a brain and a body together promise of a command's span, whatever  *)
(* the two of them and the network between them do.  A span is in one      *)
(* place at a time.  It goes one way, from the caller to the body and back *)
(* to the brain; it is answered only by what the body made of it, and the  *)
(* brain gives up all it waits for at once or nothing.  Only a connection  *)
(* that one end at least has seen die may leave a span adrift.             *)
(***************************************************************************)
CONSTANT Span

VARIABLES
  place,   \* where each span is
  severed  \* one of the ends has seen the connection die

\* What the brain still waits for.
UnderWay == {"going", "running", "coming", "adrift"}

Awaited == {s \in Span : place[s] \in UnderWay}

Moves(some, to) == place' = [s \in Span |-> IF s \in some THEN to ELSE place[s]]

SpanInit ==
  /\ place = [s \in Span |-> "unasked"]
  /\ severed = FALSE

Ask(s) ==
  /\ place[s] = "unasked"
  /\ \/ Moves({s}, "going")
     \/ severed /\ Moves({s}, "adrift")
  /\ UNCHANGED severed

Begin(s) ==
  /\ place[s] = "going"
  /\ Moves({s}, "running")
  /\ UNCHANGED severed

Finish(s) ==
  /\ place[s] \in {"going", "running"}
  /\ Moves({s}, "coming")
  /\ UNCHANGED severed

Learn(s) ==
  /\ place[s] = "coming"
  /\ Moves({s}, "answered")
  /\ UNCHANGED severed

GiveUp ==
  /\ Moves(Awaited, "failed")
  /\ UNCHANGED severed

\* The session ends, and what it waited for with it.
Close ==
  /\ Moves(Awaited, "dropped")
  /\ severed' = TRUE

Sever ==
  /\ \E some \in SUBSET Awaited : Moves(some, "adrift")
  /\ severed' = TRUE

SpanNext ==
  \/ \E s \in Span : Ask(s) \/ Begin(s) \/ Finish(s) \/ Learn(s)
  \/ GiveUp \/ Close \/ Sever

SpanSpec == SpanInit /\ [][SpanNext]_<<place, severed>>
=============================================================================
