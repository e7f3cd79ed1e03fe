---------------------------- MODULE ApplyClaims ----------------------------
(***************************************************************************)
(* What README.md says of exit 10.  It holds where the shadows are copies, *)
(* and is checked there; with hard links it does not.                      *)
(***************************************************************************)
EXTENDS Apply

(* README: exit 10 is "apply rolled back to the pre-apply state".  Stated  *)
(* of the first invocation, where the pre-apply state is not in doubt.     *)
RolledBackIsPreApply ==
  exit = RollbackCompleted /\ runs = 1 => live = Origin
=============================================================================
