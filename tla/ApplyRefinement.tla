--------------------------- MODULE ApplyRefinement ---------------------------
(* Apply implements ApplyContract.                                         *)
EXTENDS Apply

Ids == {Id(i) : i \in Task}

Contract == INSTANCE ApplyContract WITH
  work <- Ids,
  canonical <- {Id(i) : i \in {j \in Task : IsNew(j)}},
  believed <- IF planHash = "this" THEN markers \cap Ids ELSE {},
  mode <- CASE pc = "down" -> "down"
            [] pc = "rollback" -> "undoing"
            [] OTHER -> "working"

(* Whatever is killed, fails or is resumed, apply does to the work of its  *)
(* plan what the contract allows: it never touches a marked chunk but in a *)
(* rollback, marks only what has landed, and claims success only for what  *)
(* has landed or is marked.                                                *)
ImplementsContract == Contract!ContractSpec
=============================================================================
