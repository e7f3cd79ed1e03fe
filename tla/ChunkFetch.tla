----------------------------- MODULE ChunkFetch -----------------------------
(***************************************************************************)
(* What a worker of the pool relies on when it calls fetch.FetchWithRetry: *)
(* some tries, each of which leaves the staged file as it was or starts it *)
(* anew, and a success only with the whole body in it.  The steps are those*)
(* of a worker in WorkerPool; Transfer is shown to implement them.         *)
(***************************************************************************)
EXTENDS Naturals

CONSTANT Tries  \* the most there are

VARIABLES at, left, staged, cancelled

vars == <<at, left, staged, cancelled>>

Init ==
  /\ at = "connecting" /\ left \in 1 .. Tries
  /\ staged = "none"
  /\ cancelled = FALSE

(* The destination is created, or truncated.                               *)
Create ==
  /\ at = "connecting"
  /\ at' = "writing"
  /\ staged' = "partial"
  /\ UNCHANGED <<left, cancelled>>

Complete ==
  /\ at = "writing"
  /\ at' = "fetched"
  /\ staged' = "whole"
  /\ UNCHANGED <<left, cancelled>>

(* A try fails before or after it has created the destination.             *)
Err ==
  /\ at \in {"connecting", "writing"}
  /\ \/ left > 1 /\ left' = left - 1 /\ at' = "connecting"
     \/ (left = 1 \/ cancelled) /\ at' = "gave_up" /\ UNCHANGED left
  /\ UNCHANGED <<staged, cancelled>>

Cancel ==
  /\ ~cancelled
  /\ cancelled' = TRUE
  /\ UNCHANGED <<at, left, staged>>

Next == Create \/ Complete \/ Err \/ Cancel
FetchSpec == Init /\ [][Next]_vars
=============================================================================
