----------------------------- MODULE MCJournal -----------------------------
(* Journal on a few connections and calls.                                 *)
EXTENDS Journal, TLC

MCTime == 1 .. 2
Sessions == Permutations(Conn)
=============================================================================
