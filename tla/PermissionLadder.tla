-------------------------- MODULE PermissionLadder --------------------------
(***************************************************************************)
(* What a body with a drive promises about motion, with no tasks, frames   *)
(* or leases in it.  The body stands on a rung: 0 estopped, 1 in           *)
(* safe_hold, 2 permitted to move but still, 3 moving.  It may come down   *)
(* any number of rungs at any time.  It goes up one rung at a time, and    *)
(* above rung 1 only by spending an authorisation nobody has spent before  *)
(* (a command's span): a retransmission moves nothing.                     *)
(***************************************************************************)
EXTENDS Naturals

CONSTANT Authorisation

VARIABLES rung, spent

ladderVars == <<rung, spent>>

LadderInit == rung = 1 /\ spent = {}

ComeDown == rung' \in 0 .. rung

\* estop_clear carries no span: it may be repeated, and lands in safe_hold.
ReleaseEstop == rung = 0 /\ rung' = 1

GoUp == rung \in {1, 2} /\ rung' = rung + 1 /\ spent' # spent

LadderNext ==
  /\ spent' \in SUBSET Authorisation
  /\ spent \subseteq spent'
  /\ ComeDown \/ ReleaseEstop \/ GoUp

LadderSpec == LadderInit /\ [][LadderNext]_ladderVars

=============================================================================
