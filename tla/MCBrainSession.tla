--------------------------- MODULE MCBrainSession ---------------------------
(* BrainSession with two commands to ask, to lose and to answer.           *)
EXTENDS BrainSession

MCSpan == {"s1", "s2"}

=============================================================================
