---------------------------- MODULE MCHandshake ----------------------------
(* Handshake on a few connections.                                         *)
EXTENDS Handshake

MCVersion == 1 .. 3
MCSupported == {1, 2}

\* A good hello, which does not start at 1, and every number from there on
\* in any order.
MCCallerFrame ==
  {[type |-> "hello", token |-> "good", versions |-> {1, 3}, seq |-> 2], Junk}
  \cup {f \in Later : f.seq >= 2}
=============================================================================
