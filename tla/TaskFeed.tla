------------------------------ MODULE TaskFeed ------------------------------
(***************************************************************************)
(* What the fetch pool of apply promises to the rest of apply.Run, with    *)
(* the channels and the goroutines taken away: the pending divergences are *)
(* handed out in plan order, never more than Limit at a time, a settled    *)
(* one is replaced at once for as long as any is waiting, each is settled  *)
(* once, and the loop returns when all are settled, or when its context is *)
(* cancelled.                                                              *)
(***************************************************************************)
EXTENDS Integers, FiniteSets

CONSTANTS
  Tasks,  \* the pending divergences, by their place in the plan: numbers
  Limit   \* opts.Parallel

VARIABLES waiting, out, returned, cancelled

feedVars == <<waiting, out, returned, cancelled>>

FeedInit ==
  /\ waiting = Tasks
  /\ out = {}
  /\ returned = FALSE
  /\ cancelled = FALSE

IsNext(i) == i \in waiting /\ \A j \in waiting : i <= j

HandOut(i) ==
  /\ ~returned
  /\ IsNext(i)
  /\ Cardinality(out) < Limit
  /\ waiting' = waiting \ {i}
  /\ out' = out \cup {i}
  /\ UNCHANGED <<returned, cancelled>>

Settle(i) ==
  /\ ~returned
  /\ i \in out
  /\ IF waiting = {}
     THEN out' = out \ {i} /\ UNCHANGED waiting
     ELSE \E j \in waiting : /\ IsNext(j)
                             /\ out' = (out \ {i}) \cup {j}
                             /\ waiting' = waiting \ {j}
  /\ UNCHANGED <<returned, cancelled>>

Return ==
  /\ ~returned
  /\ cancelled \/ (waiting = {} /\ out = {})
  /\ returned' = TRUE
  /\ UNCHANGED <<waiting, out, cancelled>>

Cancelled ==
  /\ ~cancelled
  /\ cancelled' = TRUE
  /\ UNCHANGED <<waiting, out, returned>>

FeedStep == Return \/ \E i \in Tasks : HandOut(i) \/ Settle(i)
FeedNext == FeedStep \/ Cancelled

FeedSafe == FeedInit /\ [][FeedNext]_feedVars
FeedSpec == FeedSafe /\ WF_feedVars(FeedStep)
=============================================================================
