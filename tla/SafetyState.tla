---------------------------- MODULE SafetyState ----------------------------
(***************************************************************************)
(* The latched body state of src/src/bodies/safety.py: what each request   *)
(* to change state returns.  A request is a function of the state it finds *)
(* and yields the code's Transition; the caller assigns its `state`.  The  *)
(* cause, which only ever reaches a log line or an event's text, is left   *)
(* out.                                                                    *)
(***************************************************************************)

State == {"ok", "safe_hold", "estopped"}

Transition == [state : State, changed : BOOLEAN, refused : BOOLEAN]

\* Nothing moves from a latched state.
MayActuate(st) == st = "ok"

Move(st, target) == [state |-> target, changed |-> st # target, refused |-> FALSE]

Refuse(st) == [state |-> st, changed |-> FALSE, refused |-> TRUE]

-----------------------------------------------------------------------------
(* Slips in the requests below that the runs must catch.                   *)

\* The severity test the wrong way round.
EnterSafeHoldInverted(st) ==
  IF st = "ok" THEN Refuse(st) ELSE Move(st, "safe_hold")

\* The release lands in motion instead of in the milder latch.
ClearEstopToOk(st) == IF st = "estopped" THEN Move(st, "ok") ELSE Refuse(st)

-----------------------------------------------------------------------------
EnterSafeHold(st) ==
  IF st = "estopped" THEN Refuse(st) ELSE Move(st, "safe_hold")

Estop(st) == Move(st, "estopped")

ClearSafeHold(st) ==
  IF st = "estopped" THEN Refuse(st) ELSE Move(st, "ok")

ClearEstop(st) ==
  IF st = "estopped" THEN Move(st, "safe_hold") ELSE Refuse(st)

=============================================================================
