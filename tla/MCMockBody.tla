----------------------------- MODULE MCMockBody -----------------------------
(* MockBody with the commands its runs use.                                *)
EXTENDS MockBody, TLC

CONSTANTS
  Clears, Drives, \* the span ids of each kind of command
  Unwanted        \* those whose result nobody asked for

Cmd(where, what, speed) ==
  [capability |-> where, action |-> what, velocity |-> speed,
   wellformed |-> TRUE, expects_result |-> TRUE]

\* Drives for the latches to find in flight, and clears, of which a second
\* one lets a latch be lifted, made again while the first is still failing
\* its spans, and lifted again.
MCSpan == Clears \cup Drives

ClearsAndDrives ==
  [s \in MCSpan |->
     [(IF s \in Clears THEN Cmd("sys", "clear_safe_hold", 0)
                       ELSE Cmd("drive0", "set_velocity", 1))
        EXCEPT !.expects_result = s \notin Unwanted]]

MCSymmetry == Permutations(Drives)

\* A clear, which a frame may have to wait behind, and a drive that is refused
\* for its speed and one whose handler raises.
Odd ==
  [s1 |-> Cmd("sys", "clear_safe_hold", 0),
   s2 |-> Cmd("drive0", "set_velocity", 2),
   s3 |-> [Cmd("drive0", "set_velocity", 1) EXCEPT !.wellformed = FALSE]]

MCOddSpan == DOMAIN Odd
=============================================================================
