------------------------------- MODULE Recovery -------------------------------
(***************************************************************************)
(* Recovery as the operator lives it: diagnose writes a plan, apply        *)
(* executes it, for as long as it takes, over a published canonical that   *)
(* moves on, a staging directory that outlives every run, and a tree that  *)
(* others change too.  Apply takes the steps of ApplyContract, which Apply *)
(* implements; diagnose writes the difference, as Diagnose shows it does.  *)
(*                                                                         *)
(* A plan is its content: diagnose writes no time and nothing random into  *)
(* it, so two runs that find the same damage against the same canonical    *)
(* write the same bytes, with the same self_hash.                          *)
(***************************************************************************)
EXTENDS Integers, FiniteSets

CONSTANTS
  Chunks,      \* the chunks of the tree
  Canon,       \* per published version, the bytes of each chunk
  Trees,       \* trees that a node or the restoring of a backup may leave
  Mishaps,     \* what may go wrong in this instance
  MaxMishaps   \* bound: how often

Versions == DOMAIN Canon
Junk == -1

ASSUME RecoveryAssumption ==
  /\ IsFiniteSet(Chunks)
  /\ Versions \subseteq Nat \ {0} /\ 1 \in Versions
  /\ \A v \in Versions : Canon[v] \in [Chunks -> Nat]
  /\ Trees \subseteq [Chunks -> Nat]
  /\ Mishaps \subseteq {"budget", "rollback", "kill", "change", "power", "network"}
  /\ MaxMishaps \in Nat

VARIABLES
  served,           \* the version at the manifest's URL
  tree,             \* the live tree
  plan,             \* what plan.json holds
  stamp, marked,    \* the staging directory: the plan it belongs to, its markers
  before,           \* the tree that the shadows hold, if there are any
  unsynced,         \* chunks whose bytes are not on the medium yet
  mode, exit,       \* the invocation of apply
  mishaps,
  accepted,         \* history: the version served when apply passed its gates
  fresh,            \* history: what has changed since the diagnosis is in the plan
  spoiled           \* history: bytes under a marker of the directory were lost

world == <<served, mishaps>>
staging == <<stamp, marked>>
vars == <<world, tree, plan, staging, before, unsynced, mode, exit, accepted, fresh, spoiled>>

SupersededCanonical == 14
NoPlan == [version |-> 0, work |-> {}]
NoShadows == [c \in Chunks |-> -2]
Plans == [version : Versions, work : SUBSET Chunks] \cup {NoPlan}
Differs(t, v) == {c \in Chunks : t[c] # Canon[v][c]}
IsCanonical(v) == Differs(tree, v) = {}

TypeOK ==
  /\ served \in Versions
  /\ tree \in [Chunks -> Nat \cup {Junk}]
  /\ before \in [Chunks -> Nat \cup {Junk}] \cup {NoShadows}
  /\ plan \in Plans /\ stamp \in Plans
  /\ marked \subseteq stamp.work
  /\ unsynced \subseteq Chunks
  /\ mode \in {"down", "working", "undoing"}
  /\ exit \in {0, 10, 11, 12, 14, -1, -2}
  /\ mishaps \in 0 .. MaxMishaps
  /\ accepted \in Versions \cup {0}
  /\ fresh \in BOOLEAN /\ spoiled \in BOOLEAN

Contract == INSTANCE ApplyContract WITH
  work <- plan.work,
  canonical <- plan.work \ (IF plan = NoPlan THEN {} ELSE Differs(tree, plan.version)),
  believed <- IF stamp = plan THEN marked ELSE {}

Init ==
  /\ served = 1
  /\ tree \in Trees
  /\ plan = NoPlan /\ stamp = NoPlan /\ marked = {}
  /\ before = NoShadows /\ unsynced = {}
  /\ mode = "down" /\ exit = Contract!Running
  /\ mishaps = 0
  /\ accepted = 0 /\ fresh = FALSE /\ spoiled = FALSE

Mishap(kind) ==
  /\ kind \in Mishaps
  /\ mishaps < MaxMishaps
  /\ mishaps' = mishaps + 1
-----------------------------------------------------------------------------
(* Mutation of Diagnose: a plan that is there already is left.             *)
DiagnoseOnce ==
  /\ mode = "down"
  /\ plan = NoPlan
  /\ plan' = [version |-> served, work |-> Differs(tree, served)]
  /\ fresh' = TRUE
  /\ exit' = Contract!Running
  /\ UNCHANGED <<world, tree, staging, before, unsynced, mode, accepted, spoiled>>

(* diagnose, with no apply running: the plan lists what differs from what  *)
(* is served now.                                                          *)
Diagnose ==
  /\ mode = "down"
  /\ plan' = [version |-> served, work |-> Differs(tree, served)]
  /\ fresh' = TRUE
  /\ exit' = Contract!Running
  /\ UNCHANGED <<world, tree, staging, before, unsynced, mode, accepted, spoiled>>

(* apply refuses: the canonical has moved on, or the request that asks     *)
(* fails.                                                                  *)
Superseded ==
  /\ mode = "down" /\ plan # NoPlan
  /\ \/ plan.version # served /\ UNCHANGED mishaps
     \/ Mishap("network")
  /\ exit' = SupersededCanonical
  /\ UNCHANGED <<served, tree, plan, staging, before, unsynced, mode, accepted, fresh, spoiled>>

(* Mutation of FreshPlan: no freshness gate.                               *)
AnyPlan == plan # NoPlan
FreshPlan == plan # NoPlan /\ plan.version = served

(* CreateOrResume: this plan's directory with its markers, or a new one.   *)
(* Shadows that the directory has are kept; an invocation that was killed  *)
(* early has left none.                                                    *)
EnterStaging ==
  /\ stamp' = plan
  /\ IF stamp = plan
     THEN before' \in {before, tree} \ {NoShadows} /\ UNCHANGED <<marked, spoiled>>
     ELSE before' = tree /\ marked' = {} /\ spoiled' = FALSE

(* Mutation of Apply: the directory is kept whatever its stamp.            *)
ApplyInAnyStaging ==
  /\ mode = "down" /\ FreshPlan
  /\ mode' = "working" /\ exit' = Contract!Running
  /\ stamp' = plan /\ marked' = marked \cap plan.work
  /\ before' = tree
  /\ accepted' = served
  /\ UNCHANGED <<world, tree, plan, unsynced, fresh, spoiled>>

Apply ==
  /\ FreshPlan
  /\ EnterStaging
  /\ accepted' = served
  /\ UNCHANGED <<world, tree, plan, unsynced, fresh>>
  /\ Contract!Begin

(* The process is killed while it discards another plan's directory.       *)
HalfDiscarded ==
  /\ mode = "down" /\ FreshPlan
  /\ stamp # plan
  /\ Mishap("kill")
  /\ marked' \in SUBSET marked
  /\ exit' = Contract!Killed
  /\ UNCHANGED <<served, tree, plan, stamp, before, unsynced, mode, accepted, fresh, spoiled>>
-----------------------------------------------------------------------------
Put(c, bytes) == tree' = [tree EXCEPT ![c] = bytes]
ApplySteps == UNCHANGED <<world, plan, stamp, accepted, fresh>>

(* Nothing that apply writes is synced.  (Landing what is canonical already*)
(* changes nothing.)                                                       *)
Land(c) ==
  /\ c \in plan.work /\ tree[c] # Canon[plan.version][c]
  /\ Put(c, Canon[plan.version][c])
  /\ unsynced' = unsynced \cup {c}
  /\ UNCHANGED <<marked, before, spoiled>> /\ ApplySteps
  /\ Contract!Land(c)

Mark(c) ==
  /\ c \in plan.work
  /\ marked' = marked \cup {c}
  /\ UNCHANGED <<tree, before, unsynced, spoiled>> /\ ApplySteps
  /\ Contract!Mark(c)

(* A promotion or the verification fails: shadows are renamed back.        *)
Rollback(S) ==
  /\ mode = "working" => Mishap("rollback")
  /\ mode = "undoing" => UNCHANGED mishaps
  /\ tree' = [c \in Chunks |-> IF c \in S THEN before[c] ELSE tree[c]]
  /\ unsynced' = unsynced \cup S
  /\ spoiled' = (spoiled \/ \E c \in marked : tree'[c] # tree[c])
  /\ UNCHANGED <<served, plan, staging, before, accepted, fresh>>
  /\ Contract!Undo

(* Exit: success, budget exhausted, or what the rollback came to.  Cleanup *)
(* removes the shadows; so does their renaming.                            *)
Return(code) ==
  /\ code = 12 => mode = "working" /\ Mishap("budget")
  /\ code # 12 => UNCHANGED mishaps
  /\ before' = IF code = 12 THEN before ELSE NoShadows
  /\ UNCHANGED <<served, tree, plan, staging, unsynced, accepted, fresh, spoiled>>
  /\ Contract!End(code)

(* The process is killed, possibly in the middle of a page.                *)
Killed(torn) ==
  /\ Mishap("kill")
  /\ tree' = [c \in Chunks |-> IF c \in torn THEN Junk ELSE tree[c]]
  /\ UNCHANGED <<served, plan, staging, before, unsynced, accepted, fresh, spoiled>>
  /\ Contract!Kill(torn)
-----------------------------------------------------------------------------
Publish ==
  /\ served + 1 \in Versions
  /\ served' = served + 1
  /\ UNCHANGED <<mishaps, tree, plan, staging, before, unsynced, mode, exit,
                 accepted, fresh, spoiled>>

(* While no apply runs, the node runs or a backup is restored.             *)
TreeChanges ==
  /\ mode = "down"
  /\ Mishap("change")
  /\ tree' \in Trees \ {tree}
  /\ unsynced' = {}
  /\ fresh' = FALSE
  /\ spoiled' = (spoiled \/ \E c \in marked : tree'[c] # tree[c])
  /\ exit' = Contract!Running
  /\ UNCHANGED <<served, plan, staging, before, mode, accepted>>

(* The kernel writes back what it holds.                                   *)
WriteBack ==
  /\ unsynced # {}
  /\ unsynced' = {}
  /\ UNCHANGED <<world, tree, plan, staging, before, mode, exit, accepted, fresh, spoiled>>

(* The machine loses power: bytes that are not on the medium are gone, and *)
(* the markers, which are not synced either, are there or are not.         *)
PowerLoss(lost) ==
  /\ lost \subseteq unsynced
  /\ Mishap("power")
  /\ tree' = [c \in Chunks |-> IF c \in lost THEN Junk ELSE tree[c]]
  /\ marked' \in SUBSET marked
  /\ unsynced' = {}
  /\ mode' = "down" /\ exit' = Contract!Killed
  /\ fresh' = (fresh /\ lost \subseteq plan.work)
  /\ spoiled' = (spoiled \/ lost \cap marked' # {})
  /\ UNCHANGED <<served, plan, stamp, before, accepted>>
-----------------------------------------------------------------------------
Progress ==
  \/ \E c \in Chunks : Land(c) \/ Mark(c)
  \/ \E code \in {0, 10, 11} : Return(code)
Failure ==
  \/ HalfDiscarded
  \/ Return(12)
  \/ \E S \in SUBSET plan.work : Rollback(S)
  \/ \E torn \in SUBSET plan.work : Cardinality(torn) <= 1 /\ Killed(torn)
  \/ \E lost \in SUBSET unsynced : PowerLoss(lost)
Next ==
  \/ Diagnose \/ Superseded \/ Apply \/ Progress \/ Failure
  \/ Publish \/ TreeChanges \/ WriteBack

Spec == Init /\ [][Next]_vars

(* The operator follows README's exit codes: diagnose when there is no plan*)
(* or exit 14 asks for it, when apply has undone its work, and after the   *)
(* tree was changed; otherwise run apply.  Strong for diagnose, since every*)
(* apply in between holds it back.  An apply that nothing disturbs goes on *)
(* (Apply!EventuallyCanonical).                                            *)
Rediagnose == Diagnose /\ (plan = NoPlan \/ ~fresh \/ exit \in {10, 11, 14})
FairSpec == Spec /\ SF_vars(Rediagnose) /\ WF_vars(Apply \/ Superseded) /\ WF_vars(Progress)
-----------------------------------------------------------------------------
(* A marker in the staging directory is true of the canonical its plan was *)
(* made for, whichever versions and plans have come and gone, for as long  *)
(* as nobody took the bytes back under it.                                 *)
MarkersAreThePlans ==
  ~spoiled => \A c \in marked : tree[c] = Canon[stamp.version][c]

(* diagnose, then apply until exit 0: the whole tree, not only what the    *)
(* plan lists, is the canonical that was served when that apply began,     *)
(* unless bytes were lost under a marker.                                  *)
SuccessMeansRecovered ==
  exit = Contract!Success /\ fresh /\ ~spoiled => IsCanonical(accepted)

(* The operator who follows the exit codes ends with the tree that is      *)
(* served, unless bytes were lost under a marker.                          *)
EventuallyRecovered == <>[](IsCanonical(served) \/ spoiled)

(* The same without the exception, for a plan made of the tree as it is:   *)
(* README "diagnose compares your local pocketdb against the canonical     *)
(* manifest", apply "fetches the divergent chunks and swaps them into      *)
(* place", and exit 0 is "success".                                        *)
SuccessIsRecovery ==
  exit = Contract!Success /\ fresh => IsCanonical(accepted)
=============================================================================
