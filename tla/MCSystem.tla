------------------------------ MODULE MCSystem ------------------------------
(* System with a clear, the command a body has to begin before it can end. *)
EXTENDS System

MCSpan == {"c1"}

MCCommandOf ==
  [s \in MCSpan |->
     [capability |-> "sys", action |-> "clear_safe_hold", velocity |-> 0,
      wellformed |-> TRUE, expects_result |-> TRUE]]
=============================================================================
