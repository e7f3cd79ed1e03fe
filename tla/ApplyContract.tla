---------------------------- MODULE ApplyContract ----------------------------
(***************************************************************************)
(* What apply promises of one plan, over any number of invocations that    *)
(* may be killed: chunk by chunk the canonical bytes land in the live tree *)
(* and are then marked; work that a marker vouches for is left alone until *)
(* a rollback begins; success is claimed only for what is canonical or     *)
(* marked.  That a marker is believed, and not checked, is part of it.     *)
(***************************************************************************)
EXTENDS Integers

VARIABLES
  work,        \* the chunks that the plan lists
  canonical,   \* those whose live bytes are the canonical ones
  believed,    \* those with a marker that the next invocation would believe
  mode,        \* "down", "working", "undoing"
  exit

vars == <<work, canonical, believed, mode, exit>>

Success == 0
Running == -1
Killed == -2
Undone == {10, 11}

Init ==
  /\ canonical = {} /\ believed = {}
  /\ mode = "down" /\ exit = Running

Begin ==
  /\ mode = "down"
  /\ mode' = "working" /\ exit' = Running
  /\ UNCHANGED <<work, canonical, believed>>

Land(c) ==
  /\ mode = "working"
  /\ c \notin believed
  /\ canonical' = canonical \cup {c}
  /\ UNCHANGED <<work, believed, mode, exit>>

(* A write that fails half-way.                                            *)
Tear(c) ==
  /\ mode = "working"
  /\ c \notin believed
  /\ canonical' = canonical \ {c}
  /\ UNCHANGED <<work, believed, mode, exit>>

Mark(c) ==
  /\ mode = "working"
  /\ c \in canonical
  /\ believed' = believed \cup {c}
  /\ UNCHANGED <<work, canonical, mode, exit>>

(* The rollback, which leaves the markers.                                 *)
Undo ==
  /\ mode \in {"working", "undoing"}
  /\ mode' = "undoing"
  /\ canonical' \in SUBSET work
  /\ UNCHANGED <<work, believed, exit>>

End(code) ==
  /\ mode # "down"
  /\ code # Running
  /\ code \in Undone => mode = "undoing"
  /\ code = Success => mode = "working" /\ work \subseteq canonical \cup believed
  /\ mode' = "down" /\ exit' = code
  /\ UNCHANGED <<work, canonical, believed>>

(* A kill may cut a write off.                                             *)
Kill(torn) ==
  /\ mode # "down"
  /\ torn \cap believed = {}
  /\ canonical' = canonical \ torn
  /\ mode' = "down" /\ exit' = Killed
  /\ UNCHANGED <<work, believed>>

Next ==
  \/ Begin \/ Undo
  \/ \E c \in work : Land(c) \/ Tear(c) \/ Mark(c)
  \/ \E code \in {Success, 1, 10, 11, 12} : End(code)
  \/ \E torn \in SUBSET work : Kill(torn)

ContractSpec == Init /\ [][Next]_vars
=============================================================================
