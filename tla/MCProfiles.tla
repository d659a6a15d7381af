----------------------------- MODULE MCProfiles -----------------------------
(* Every shipped profile whose classes are modelled, one of them in each   *)
(* behaviour.                                                              *)
EXTENDS Profiles, Site

CONSTANTS MaxFaults, MaxRuns

VARIABLES prof, mode, node, pos, bad, hit, have, outcome, faults, tainted, runs

Plans == Listed([q \in DOMAIN Shipped |-> CatalogsOf(Shipped[q])])
CompilesIn == Listed([q \in DOMAIN Shipped |-> CompilesOf(Shipped[q], Plans[q])])
FactsIn == Listed([q \in DOMAIN Shipped |-> FactsOf(Plans[q])])
OneShotsIn == Listed([q \in DOMAIN Shipped |-> OneShotOf(Plans[q])])

P(q) == INSTANCE Cluster WITH N <- Len(Plans[q]), Plan <- Plans[q], Compiles <- CompilesIn[q],
                              Fact <- FactsIn[q], OneShot <- OneShotsIn[q]

vars == <<prof, mode, node, pos, bad, hit, have, outcome, faults, tainted, runs>>

Init == \E q \in DOMAIN Shipped : prof = q /\ P(q)!Init
Next == \E q \in DOMAIN Shipped : prof = q /\ P(q)!Next /\ UNCHANGED prof
Spec == Init /\ [][Next]_vars

(* A puppet run on a shipped profile goes wrong only when a command died   *)
(* in that run or an earlier node is not provisioned (or an accident in a  *)
(* OneShot command left a guard that lies).                                *)
FailureExplained == \A q \in DOMAIN Shipped : prof = q => P(q)!FailureExplained

(* A shipped profile that puppet reports as provisioned has everything its *)
(* manifests promise.                                                      *)
OkMeansComplete == \A q \in DOMAIN Shipped : prof = q => P(q)!OkMeansComplete

(* The daemons of a shipped profile come up in the order the comments of   *)
(* site.pp give, over all accidents and reruns.                            *)
BringUpOrder == \A q \in DOMAIN Shipped : prof = q => P(q)!BringUpOrder

(* The comments of site.pp about the namenode, the metastore and the Hive  *)
(* servers hold for the daemons of Hive 2 as well.                         *)
Hive2Order == \A q \in DOMAIN Shipped : prof = q => P(q)!Hive2Order

(* The catalogs of each profile pass the static checks from which          *)
(* ProvisionProofs derives the properties above.                           *)
PlanSound ==
  runs = 0 => \A q \in DOMAIN Shipped : prof = q => P(q)!SoundPlan(Plans[q]) /\ P(q)!OrderedPlan(Plans[q])
=============================================================================
