------------------------------ MODULE MCReadme ------------------------------
(* The profiles that README.md describes: its example, and the example     *)
(* with security.                                                          *)
EXTENDS Cluster, Profiles

CONSTANT Variant
Example == [example |-> readme_default(FALSE), secure |-> readme_default(TRUE)][Variant]
Catalogs == CatalogsOf(Example)
Compiling == CompilesOf(Example, Catalogs)
Facts == FactsOf(Catalogs)
OneShots == OneShotOf(Catalogs)

(* The values of the constants: TLC keeps those of the definitions above. *)
MCN == Len(Catalogs)
MCPlan == Catalogs
MCCompiles == Compiling
MCFact == Facts
MCOneShot == OneShots

(* The catalogs pass the static checks from which ProvisionProofs derives  *)
(* the safety properties and the order of the daemons for any number of    *)
(* accidents and reruns.                                                   *)
PlanSound == runs = 0 => SoundPlan(Catalogs) /\ OrderedPlan(Catalogs)
=============================================================================
