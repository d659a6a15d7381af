-------------------------- MODULE ProvisionProofs --------------------------
(***************************************************************************)
(* Theorems about Provision for every number of nodes, every plan, and any *)
(* number of accidents and reruns; at the end, about the order in which    *)
(* the daemons that Cluster names come up.                                 *)
(***************************************************************************)
EXTENDS Cluster, TLAPS

(* A prefix of what a command establishes is part of all it establishes. *)
LEMMA FirstInAll ==
  ASSUME NEW s, Len(s) \in Nat, NEW j \in 0..Len(s)
  PROVE  First(s, j) \subseteq All(s)
BY DEF First, All

(* What PlanAssumption says of the resource a puppet run is at. *)
LEMMA AtTyped ==
  ASSUME TypeOK, AtResource
  PROVE  /\ node \in Nodes /\ pos \in 1..Len(Plan[node]) /\ Len(Plan[node]) \in Nat
         /\ Len(R.gives) \in Nat /\ All(R.gives) \subseteq Fact
         /\ R.id \in Titles(node)
<1>1. pos \in Nat /\ (pos > 0 => node \in Nodes)
  BY DEF TypeOK
<1>2. node \in Nodes /\ pos \in Nat /\ pos > 0 /\ pos <= Len(Plan[node])
  BY <1>1 DEF AtResource
<1>3. Len(Plan[node]) \in Nat
  BY <1>2, PlanAssumption
<1>4. pos \in 1..Len(Plan[node])
  BY <1>2, <1>3
<1>5. Len(R.gives) \in Nat /\ All(R.gives) \subseteq Fact
  BY <1>2, <1>4, PlanAssumption DEF R
<1>6. R.id \in Titles(node)
  BY <1>4 DEF R, Titles
<1> QED BY <1>2, <1>3, <1>4, <1>5, <1>6

(* Every variable keeps its type: in particular a puppet run is under way  *)
(* only inside a vagrant command, and only titles of the node's own        *)
(* catalog are recorded as failed or skipped.                              *)
THEOREM TypeCorrect == Spec => []TypeOK
<1>1. Init => TypeOK
  <2> SUFFICES ASSUME Init PROVE TypeOK
    OBVIOUS
  <2>1. outcome \in [Nodes -> Outcomes]
    BY DEF Init, Outcomes
  <2>2. node \in 1..(N + 1) /\ runs \in 0..MaxRuns /\ pos = 0
    BY PlanAssumption DEF Init
  <2>3. tainted \in BOOLEAN
    BY DEF Init
  <2>4. /\ mode = "idle" /\ bad = {} /\ hit = {} /\ have = {} /\ faults = {}
    BY DEF Init
  <2> QED BY <2>1, <2>2, <2>3, <2>4 DEF TypeOK
<1>2. TypeOK /\ [Next]_vars => TypeOK'
  <2> SUFFICES ASSUME TypeOK, [Next]_vars PROVE TypeOK'
    OBVIOUS
  <2> USE PlanAssumption
  <2>1. CASE \E m \in {"up", "provision"} : Start(m)
    BY <2>1 DEF Start, TypeOK, Nodes
  <2>2. CASE PassOver
    BY <2>2 DEF PassOver, TypeOK, Nodes
  <2>3. CASE Compile
    <3>1. outcome' \in [Nodes -> Outcomes]
      BY <2>3 DEF Compile, TypeOK, Outcomes
    <3>2. Len(Plan[node]) \in Nat
      BY <2>3 DEF Compile
    <3> QED BY <2>3, <3>1, <3>2 DEF Compile, TypeOK, Nodes
  <2>4. CASE FinishNode
    <3>1. outcome' \in [Nodes -> Outcomes]
      BY <2>4 DEF FinishNode, TypeOK, Outcomes
    <3> QED BY <2>4, <3>1 DEF FinishNode, TypeOK, Nodes
  <2>5. CASE FinishCommand
    BY <2>5 DEF FinishCommand, TypeOK, Nodes
  <2>6. CASE Skip \/ LeaveAlone \/ Apply \/ Fail
    <3>1. AtResource /\ Advance
      BY <2>6 DEF Skip, LeaveAlone, Apply, Fail
    <3>2. node \in Nodes /\ pos \in 1..Len(Plan[node]) /\ Len(Plan[node]) \in Nat
          /\ All(R.gives) \subseteq Fact /\ R.id \in Titles(node)
      BY <3>1, AtTyped
    <3>4. tainted' \in BOOLEAN /\ runs \in 0..MaxRuns /\ mode # "idle"
      BY <2>6, <3>1 DEF Skip, LeaveAlone, Apply, Fail, TypeOK, AtResource
    <3>3. have' \subseteq Fact /\ bad' \subseteq Titles(node) /\ hit' \subseteq bad' /\ faults' = faults
      BY <2>6, <3>1, <3>2 DEF Skip, LeaveAlone, Apply, Fail, TypeOK
    <3>5. pos \in Nat /\ mode \in {"idle", "up", "provision"} /\ outcome \in [Nodes -> Outcomes] /\ node \in 1..(N + 1)
          /\ faults \subseteq Nodes \X UNION {Titles(i) : i \in Nodes}
      BY DEF TypeOK
    <3> QED BY <3>1, <3>2, <3>3, <3>4, <3>5 DEF Advance, TypeOK
  <2>7. CASE Fault \/ Interrupt
    <3>1. AtResource /\ Die
      BY <2>7 DEF Fault, Interrupt, Die
    <3>2. node \in Nodes /\ pos \in 1..Len(Plan[node]) /\ Len(Plan[node]) \in Nat
          /\ Len(R.gives) \in Nat /\ All(R.gives) \subseteq Fact /\ R.id \in Titles(node)
      BY <3>1, AtTyped
    <3>3. have' \subseteq Fact
      <4>1. PICK j \in 0..(Len(R.gives) - 1) : have' = (have \ R.drops) \cup First(R.gives, j)
        BY <3>1 DEF Die
      <4>2. First(R.gives, j) \subseteq All(R.gives)
        BY <3>2, FirstInAll
      <4> QED BY <4>1, <4>2, <3>2 DEF TypeOK
    <3>4. faults' \subseteq Nodes \X UNION {Titles(i) : i \in Nodes}
      BY <3>1, <3>2 DEF Die, TypeOK
    <3>7. tainted' \in BOOLEAN
      BY <3>1 DEF Die
    <3>8. /\ pos \in Nat /\ mode \in {"up", "provision"} /\ outcome \in [Nodes -> Outcomes] /\ node \in 1..(N + 1)
          /\ bad \subseteq Titles(node) /\ hit \subseteq bad /\ runs \in 0..MaxRuns
      BY <3>1 DEF TypeOK, AtResource
    <3>5. CASE Fault
      <4>1. pos' = pos + 1 /\ UNCHANGED <<mode, node, outcome, runs>> /\ bad' = bad \cup {R.id} /\ hit' = hit \cup {R.id}
        BY <3>5 DEF Fault, Advance
      <4> QED BY <4>1, <3>2, <3>3, <3>4, <3>7, <3>8 DEF TypeOK
    <3>6. CASE Interrupt
      <4>1. outcome' \in [Nodes -> Outcomes]
        BY <3>6 DEF Interrupt, TypeOK, Outcomes
      <4>2. mode' = "idle" /\ node' = N + 1 /\ pos' = 0 /\ bad' = {} /\ hit' = {} /\ runs' = runs
        BY <3>6 DEF Interrupt
      <4>3. node' \in 1..(N + 1) /\ pos' \in Nat
        BY <4>2
      <4> QED BY <3>3, <3>4, <3>7, <3>8, <4>1, <4>2, <4>3 DEF TypeOK
    <3> QED BY <2>7, <3>5, <3>6
  <2>8. CASE UNCHANGED vars
    BY <2>8 DEF vars, TypeOK, AtResource, R, Titles
  <2> QED BY <2>1, <2>2, <2>3, <2>4, <2>5, <2>6, <2>7, <2>8 DEF Next
<1> QED BY <1>1, <1>2, PTL DEF Spec

-----------------------------------------------------------------------------
(* The inductive invariant.  FailureExplained is not inductive: a resource *)
(* finds what it needs because the resources before it, on this node and   *)
(* on earlier ones, have left all of their facts, and those that were left *)
(* alone only because their guards tell the truth.  Between a command that *)
(* cannot be run twice and its marker they do so only together with what   *)
(* the resources that follow are about to establish.                       *)

(* The resource before pos was applied in this run. *)
Intact ==
  LET prev == Plan[node][pos - 1]
  IN /\ pos > 1 /\ ({prev.id} \cup prev.deps) \cap bad = {}
     /\ prev.needs \cup All(prev.gives) \subseteq have

GuardsTell ==
  \/ Truthful(Resources(Plan), have)
  \/ Intact /\ Truthful(Resources(Plan), have \cup Rest(Plan, node, pos))

DoneSoFar ==
  pos > 0 => \A m \in 1..(pos - 1) :
    (Plan[node][m].id \notin bad /\ Sure(Plan[node][m])) => Left(Plan[node][m]) \subseteq have

(* Only visited titles are bad, and a node is not "ok" while it runs. *)
Recorded ==
  pos > 0 => /\ bad \subseteq {Plan[node][m].id : m \in 1..(pos - 1)}
             /\ outcome[node] = "started"

Sound == tainted \/ (GuardsTell /\ DoneSoFar)

IInv == TypeOK /\ Recorded /\ FailureExplained /\ OkMeansComplete /\ Sound

(* An accident is never forgotten. *)
LEMMA TaintStays == ASSUME [Next]_vars, tainted PROVE tainted'
BY DEF Next, vars, Start, PassOver, Compile, FinishNode, FinishCommand, Skip, LeaveAlone,
       Apply, Fail, Fault, Interrupt, Die, Advance

(* What is still to come is what the next resource gives and the rest, if  *)
(* it follows, and nothing otherwise.                                      *)
LEMMA RestStep ==
  ASSUME NEW i \in Nodes, NEW k \in 1..Len(Plan[i])
  PROVE  /\ ~Follows(Plan, i, k) => Rest(Plan, i, k) = {}
         /\ Follows(Plan, i, k) => Rest(Plan, i, k) = All(Plan[i][k].gives) \cup Rest(Plan, i, k + 1)
<1>1. Len(Plan[i]) \in Nat
  BY PlanAssumption
<1> DEFINE F(n) == Follows(Plan, i, n)
           G(m) == All(Plan[i][m].gives)
           M(n) == {m \in n..Len(Plan[i]) : \A x \in n..m : F(x)}
<1>2. \A n : Rest(Plan, i, n) = UNION {G(m) : m \in M(n)}
  BY DEF Rest
<1>3. ~F(k) => M(k) = {}
  <2> SUFFICES ASSUME ~F(k), NEW m \in M(k) PROVE FALSE
    OBVIOUS
  <2>1. k \in k..m
    BY <1>1
  <2> QED BY <2>1
<1>4. F(k) => M(k) = {k} \cup M(k + 1)
  <2> HIDE DEF F
  <2> SUFFICES ASSUME F(k) PROVE M(k) = {k} \cup M(k + 1)
    OBVIOUS
  <2>1. ASSUME NEW m \in M(k) PROVE m \in {k} \cup M(k + 1)
    <3>1. m \in k..Len(Plan[i]) /\ \A x \in k..m : F(x)
      OBVIOUS
    <3>2. m # k => m \in (k + 1)..Len(Plan[i])
      BY <3>1, <1>1
    <3>3. \A x \in (k + 1)..m : x \in k..m
      BY <3>1, <1>1
    <3> QED BY <3>1, <3>2, <3>3
  <2>2. ASSUME NEW m \in M(k + 1) PROVE m \in M(k)
    <3>1. m \in (k + 1)..Len(Plan[i]) /\ \A x \in (k + 1)..m : F(x)
      OBVIOUS
    <3>2. m \in k..Len(Plan[i]) /\ \A x \in k..m : x = k \/ x \in (k + 1)..m
      BY <3>1, <1>1
    <3> QED BY <3>1, <3>2
  <2>3. k \in M(k)
    <3>1. k \in k..Len(Plan[i]) /\ \A x \in k..k : x = k
      BY <1>1
    <3> QED BY <3>1
  <2> QED BY <2>1, <2>2, <2>3
<1> HIDE DEF F, G, M
<1>5. F(k) => UNION {G(m) : m \in M(k)} = G(k) \cup UNION {G(m) : m \in M(k + 1)}
  BY <1>4
<1>6. ~F(k) => UNION {G(m) : m \in M(k)} = {}
  BY <1>3
<1> QED BY <1>2, <1>5, <1>6 DEF F, G

(* Guards that tell the truth go on to do so when an honest S is added.    *)
LEMMA HonestAdds ==
  ASSUME NEW H, NEW S, NEW T, T \subseteq H, Honest(Plan, S, T), Truthful(Resources(Plan), H)
  PROVE  Truthful(Resources(Plan), H \cup S)
<1> SUFFICES ASSUME NEW r \in Resources(Plan)
             PROVE  /\ r.unless \cap (H \cup S) # {} => All(r.gives) \subseteq H \cup S
                    /\ Clashes(r) \cap (H \cup S) # {} => r.unless \cap (H \cup S) # {}
  BY DEF Truthful
<1>1. /\ S \cap r.unless # {} => All(r.gives) \subseteq S \cup T
      /\ S \cap Clashes(r) # {} => S \cap r.unless # {}
  BY DEF Honest
<1>2. /\ r.unless \cap H # {} => All(r.gives) \subseteq H
      /\ Clashes(r) \cap H # {} => r.unless \cap H # {}
  BY DEF Truthful
<1> QED BY <1>1, <1>2

(* What SoundPlan says of the resource a puppet run is at. *)
LEMMA AtSound ==
  ASSUME SoundPlan(Plan), TypeOK, AtResource
  PROVE  /\ R \in Resources(Plan) /\ R.drops \subseteq All(R.gives)
         /\ R.unless = {} => (R.drops \cap (R.needs \cup R.bars) = {} /\ Private(Plan, node, pos))
         /\ Honest(Plan, All(R.gives) \cup Rest(Plan, node, pos + 1), Given(Plan, node, pos))
         /\ <<node, R.id>> \notin OneShot =>
              \A j \in 0..(Len(R.gives) - 1) : Honest(Plan, First(R.gives, j), Given(Plan, node, pos))
<1>1. node \in Nodes /\ pos \in 1..Len(Plan[node])
  BY AtTyped
<1>2. R \in Resources(Plan)
  BY <1>1 DEF Resources, R
<1> QED BY <1>1, <1>2 DEF SoundPlan, R

(* A resource that is not skipped finds what those it waits for have left. *)
LEMMA GivenThere ==
  ASSUME TypeOK, DoneSoFar, AtResource, ~Blocked
  PROVE  Given(Plan, node, pos) \subseteq have
<1> SUFFICES ASSUME NEW m \in 1..(pos - 1), Plan[node][m].id \in R.deps, Sure(Plan[node][m])
             PROVE  Left(Plan[node][m]) \subseteq have
  BY DEF Given, R
<1>1. Plan[node][m].id \notin bad
  BY DEF Blocked
<1> QED BY <1>1 DEF DoneSoFar, AtResource

(* A resource that does not follow is visited with guards that are true. *)
LEMMA TrueHere ==
  ASSUME TypeOK, GuardsTell, AtResource, ~Follows(Plan, node, pos)
  PROVE  Truthful(Resources(Plan), have)
<1>1. Rest(Plan, node, pos) = {}
  BY AtTyped, RestStep
<1>2. have \cup {} = have
  OBVIOUS
<1> QED BY <1>1, <1>2 DEF GuardsTell

(* Nothing but an accident comes between the resources that follow. *)
LEMMA FollowerApplied ==
  ASSUME TypeOK, AtResource, Follows(Plan, node, pos), Intact
  PROVE  ~Blocked /\ ~InPlace /\ Ready /\ <<node, R.id>> \in OneShot
<1>1. /\ R.unless = {} /\ R.onlyif = {} /\ R.bars = {} /\ <<node, R.id>> \in OneShot
      /\ R.deps \subseteq Plan[node][pos - 1].deps \cup {Plan[node][pos - 1].id}
      /\ R.needs \subseteq Plan[node][pos - 1].needs \cup All(Plan[node][pos - 1].gives)
  BY DEF Follows, R
<1> QED BY <1>1 DEF Intact, Blocked, InPlace, Ready

(* A command that dies removes nothing, or, unguarded, only its own.       *)
LEMMA DieTakes ==
  ASSUME SoundPlan(Plan), TypeOK, GuardsTell, Die
  PROVE  \E D : /\ have \ D \subseteq have' /\ D \subseteq R.drops
                /\ R.unless # {} => D = {}
                /\ \E j \in 0..(Len(R.gives) - 1) : have' = (have \ D) \cup First(R.gives, j)
<1>1. AtResource /\ ~InPlace
  BY DEF Die
<1>2. PICK j \in 0..(Len(R.gives) - 1) : have' = (have \ R.drops) \cup First(R.gives, j)
  BY DEF Die
<1>3. CASE R.unless = {}
  BY <1>2, <1>3
<1>4. CASE R.unless # {}
  <2>1. ~Follows(Plan, node, pos)
    BY <1>4 DEF Follows, R
  <2>2. Truthful(Resources(Plan), have) /\ R \in Resources(Plan)
    BY <1>1, <2>1, TrueHere, AtSound
  <2>3. Clashes(R) \cap have = {}
    BY <1>1, <2>2 DEF Truthful, InPlace
  <2>4. R.drops \cap have = {}
    BY <1>4, <2>3 DEF Clashes
  <2>5. have' = (have \ {}) \cup First(R.gives, j)
    BY <1>2, <2>4
  <2> QED BY <2>5
<1> QED BY <1>3, <1>4

(* No step takes away what another resource has left: one that was visited *)
(* before on this node, or one of another node.                            *)
LEMMA OthersKeep ==
  ASSUME SoundPlan(Plan), TypeOK, GuardsTell, [Next]_vars, ~tainted',
         NEW h \in Nodes, NEW m \in 1..Len(Plan[h]), pos > 0 => (h # node \/ m < pos),
         NEW f \in have
  PROVE  /\ f \in All(Plan[h][m].gives) => f \in have'
         /\ (h = node /\ f \in Plan[h][m].needs) => f \in have'
<1>1. CASE UNCHANGED have
  BY <1>1
<1>2. CASE Apply
  <2>1. R.drops \subseteq All(R.gives)
    BY <1>2, AtSound DEF Apply
  <2> QED BY <1>2, <2>1 DEF Apply
<1>3. CASE Fault \/ Interrupt
  <2>0. Die /\ AtResource
    BY <1>3 DEF Fault, Interrupt, Die
  <2>1. node \in Nodes /\ pos \in 1..Len(Plan[node]) /\ pos > 0
    BY <2>0, AtTyped DEF AtResource
  <2>2. PICK D : have \ D \subseteq have' /\ D \subseteq R.drops /\ (R.unless # {} => D = {})
    BY <2>0, DieTakes
  <2>3. CASE R.unless # {}
    BY <2>2, <2>3
  <2>4. CASE R.unless = {}
    <3>1. Private(Plan, node, pos)
      BY <2>0, <2>4, AtSound
    <3>2. h # node \/ m # pos
      BY <2>1
    <3>3. R.drops \cap All(Plan[h][m].gives) = {} /\ ((h = node /\ m < pos) => R.drops \cap Plan[h][m].needs = {})
      BY <3>1, <3>2 DEF Private, R
    <3> QED BY <2>1, <2>2, <3>3
  <2> QED BY <2>3, <2>4
<1>4. UNCHANGED have \/ Apply \/ Fault \/ Interrupt
  BY DEF Next, vars, Start, PassOver, Compile, FinishNode, FinishCommand, Skip, LeaveAlone, Fail
<1> QED BY <1>1, <1>2, <1>3, <1>4

(* An accident that did not taint leaves guards that are true. *)
LEMMA DeathTruthful ==
  ASSUME SoundPlan(Plan), TypeOK, GuardsTell, DoneSoFar, Die, ~tainted'
  PROVE  Truthful(Resources(Plan), have')
<1>1. AtResource /\ ~Blocked /\ ~InPlace
  BY DEF Die
<1>2. CASE <<node, R.id>> \in OneShot
  BY <1>2 DEF Die
<1>3. CASE <<node, R.id>> \notin OneShot
  <2>1. ~Follows(Plan, node, pos)
    BY <1>3 DEF Follows, R
  <2>2. Truthful(Resources(Plan), have) /\ Given(Plan, node, pos) \subseteq have
    BY <1>1, <2>1, TrueHere, GivenThere
  <2>3. PICK D : /\ D \subseteq R.drops /\ (R.unless # {} => D = {})
                 /\ \E j \in 0..(Len(R.gives) - 1) : have' = (have \ D) \cup First(R.gives, j)
    BY DieTakes
  <2>4. PICK j \in 0..(Len(R.gives) - 1) : have' = (have \ D) \cup First(R.gives, j)
    BY <2>3
  <2>5. Honest(Plan, First(R.gives, j), Given(Plan, node, pos))
    BY <1>1, <1>3, AtSound
  <2>6. CASE D = {}
    <3>1. have' = have \cup First(R.gives, j)
      BY <2>4, <2>6
    <3> QED BY <2>2, <2>5, <3>1, HonestAdds
  <2>7. CASE D # {}
    <3>1. R.unless = {} /\ Private(Plan, node, pos) /\ R.drops \cap R.bars = {} /\ R \in Resources(Plan)
      BY <1>1, <2>3, <2>7, AtSound
    <3>2. node \in Nodes /\ pos \in 1..Len(Plan[node])
      BY <1>1, AtTyped
    <3>3. \A r \in Resources(Plan) : R.drops \cap (r.unless \cup Clashes(r)) = {}
                                     /\ (r.unless # {} => R.drops \cap All(r.gives) = {})
      <4> SUFFICES ASSUME NEW h \in Nodes, NEW m \in 1..Len(Plan[h])
                   PROVE  /\ R.drops \cap (Plan[h][m].unless \cup Clashes(Plan[h][m])) = {}
                          /\ (Plan[h][m].unless # {} => R.drops \cap All(Plan[h][m].gives) = {})
        BY DEF Resources
      <4>1. CASE h = node /\ m = pos
        BY <3>1, <4>1 DEF R, Clashes
      <4>2. CASE h # node \/ m # pos
        BY <3>1, <4>2 DEF Private, R
      <4> QED BY <4>1, <4>2
    <3>4. Truthful(Resources(Plan), have \ D)
      <4> SUFFICES ASSUME NEW r \in Resources(Plan)
                   PROVE  /\ r.unless \cap (have \ D) # {} => All(r.gives) \subseteq (have \ D)
                          /\ Clashes(r) \cap (have \ D) # {} => r.unless \cap (have \ D) # {}
        BY DEF Truthful
      <4>1. /\ r.unless \cap have # {} => All(r.gives) \subseteq have
            /\ Clashes(r) \cap have # {} => r.unless \cap have # {}
        BY <2>2 DEF Truthful
      <4>2. D \cap r.unless = {} /\ (r.unless # {} => D \cap All(r.gives) = {})
        BY <2>3, <3>3
      <4> QED BY <4>1, <4>2
    <3>5. Given(Plan, node, pos) \subseteq have \ D
      <4> SUFFICES ASSUME NEW m \in 1..(pos - 1) PROVE D \cap Left(Plan[node][m]) = {}
        BY <2>2 DEF Given
      <4>1. m \in 1..Len(Plan[node]) /\ m # pos /\ m < pos
        BY <3>2, PlanAssumption
      <4>2. R.drops \cap All(Plan[node][m].gives) = {} /\ R.drops \cap Plan[node][m].needs = {}
        BY <3>1, <3>2, <4>1 DEF Private, R
      <4> QED BY <2>3, <4>2 DEF Left
    <3> QED BY <2>4, <2>5, <3>4, <3>5, HonestAdds
  <2> QED BY <2>6, <2>7
<1> QED BY <1>2, <1>3

(* A command that was run to its end leaves guards that are true, once the *)
(* resources that follow it have been applied as well.                     *)
LEMMA AppliedTells ==
  ASSUME SoundPlan(Plan), TypeOK, Recorded, GuardsTell, DoneSoFar, Apply
  PROVE  GuardsTell'
<1>1. AtResource /\ ~Blocked /\ Ready /\ bad' = bad /\ pos' = pos + 1 /\ node' = node
  BY DEF Apply, Advance
<1>2. node \in Nodes /\ pos \in 1..Len(Plan[node]) /\ pos \in Nat /\ pos > 0
  BY <1>1, AtTyped DEF AtResource, TypeOK
<1>3. have' = have \cup All(R.gives)
  <2>1. R.drops \subseteq All(R.gives)
    BY <1>1, AtSound
  <2> QED BY <2>1 DEF Apply
<1>4. R.id \notin bad
  <2> SUFFICES ASSUME NEW m \in 1..(pos - 1), Plan[node][m].id = R.id PROVE FALSE
    BY <1>2 DEF Recorded
  <2>1. m \in 1..Len(Plan[node]) /\ m # pos
    BY <1>2, PlanAssumption
  <2> QED BY <1>2, <2>1 DEF SoundPlan, R
<1>5. Intact'
  <2>1. pos' - 1 = pos /\ pos' > 1
    BY <1>1, <1>2
  <2>2. ({R.id} \cup R.deps) \cap bad' = {} /\ R.needs \cup All(R.gives) \subseteq have'
    BY <1>1, <1>3, <1>4 DEF Blocked, Ready
  <2> QED BY <1>1, <2>1, <2>2 DEF Intact, R
<1>6. Truthful(Resources(Plan), have' \cup Rest(Plan, node, pos + 1))
  <2> DEFINE S == All(R.gives) \cup Rest(Plan, node, pos + 1)
  <2>1. have' \cup Rest(Plan, node, pos + 1) = have \cup S
    BY <1>3
  <2>2. CASE Truthful(Resources(Plan), have)
    <3>1. Honest(Plan, S, Given(Plan, node, pos)) /\ Given(Plan, node, pos) \subseteq have
      BY <1>1, AtSound, GivenThere
    <3> HIDE DEF S
    <3>2. Truthful(Resources(Plan), have \cup S)
      BY <2>2, <3>1, HonestAdds
    <3> QED BY <2>1, <3>2
  <2>3. CASE ~Truthful(Resources(Plan), have)
    <3>1. Follows(Plan, node, pos) /\ Truthful(Resources(Plan), have \cup Rest(Plan, node, pos))
      BY <1>1, <2>3, TrueHere DEF GuardsTell
    <3>2. Rest(Plan, node, pos) = S
      BY <1>2, <3>1, RestStep DEF R
    <3> QED BY <2>1, <3>1, <3>2
  <2> QED BY <2>2, <2>3
<1> QED BY <1>1, <1>5, <1>6 DEF GuardsTell, Resources, Nodes

(* The guards keep telling the truth. *)
LEMMA GuardsStay ==
  ASSUME SoundPlan(Plan), TypeOK, Recorded, GuardsTell, DoneSoFar, [Next]_vars, ~tainted'
  PROVE  GuardsTell'
<1>1. CASE have' = have /\ Truthful(Resources(Plan), have)
  BY <1>1 DEF GuardsTell, Resources, Nodes
<1>2. CASE Apply
  BY <1>2, AppliedTells
<1>3. CASE Fault \/ Interrupt
  <2>1. Truthful(Resources(Plan), have')
    BY <1>3, DeathTruthful DEF Fault, Interrupt
  <2> QED BY <2>1 DEF GuardsTell, Resources, Nodes
<1>4. CASE Skip \/ LeaveAlone \/ Fail
  <2>1. AtResource /\ (Blocked \/ InPlace \/ ~Ready) /\ have' = have
    BY <1>4 DEF Skip, LeaveAlone, Fail
  <2>2. Truthful(Resources(Plan), have)
    BY <2>1, FollowerApplied, TrueHere DEF GuardsTell
  <2> QED BY <1>1, <2>1, <2>2
<1>5. CASE UNCHANGED vars
  BY <1>5 DEF vars, GuardsTell, Intact, Resources, Nodes
<1>6. CASE (\E m \in {"up", "provision"} : Start(m)) \/ PassOver \/ Compile \/ FinishCommand \/ FinishNode
  <2>1. CASE pos = 0 /\ have' = have
    <3>1. Truthful(Resources(Plan), have)
      BY <2>1 DEF GuardsTell, Intact
    <3> QED BY <1>1, <2>1, <3>1
  <2>2. CASE FinishNode
    <3>1. node \in Nodes /\ pos = Len(Plan[node]) + 1 /\ Len(Plan[node]) \in Nat /\ have' = have
      BY <2>2, PlanAssumption DEF FinishNode, TypeOK
    <3>2. Rest(Plan, node, pos) = {}
      BY <3>1 DEF Rest
    <3>3. have \cup {} = have
      OBVIOUS
    <3>4. Truthful(Resources(Plan), have)
      BY <3>2, <3>3 DEF GuardsTell
    <3> QED BY <1>1, <3>1, <3>4
  <2>3. CASE \E m \in {"up", "provision"} : Start(m)
    <3>1. pos = 0 /\ have' = have
      BY <2>3 DEF Start, TypeOK
    <3> QED BY <2>1, <3>1
  <2>4. CASE PassOver \/ Compile
    <3>1. pos = 0 /\ have' = have
      BY <2>4 DEF PassOver, Compile
    <3> QED BY <2>1, <3>1
  <2>5. CASE FinishCommand
    <3>1. pos = 0 /\ have' = have
      BY <2>5, PlanAssumption DEF FinishCommand, TypeOK, Nodes
    <3> QED BY <2>1, <3>1
  <2> QED BY <1>6, <2>2, <2>3, <2>4, <2>5
<1> QED BY <1>2, <1>3, <1>4, <1>5, <1>6 DEF Next

(* In a sound plan a resource that nothing explains a failure of finds     *)
(* what it needs.                                                          *)
LEMMA NeedsThere ==
  ASSUME SoundPlan(Plan), IInv, ~tainted, AtResource, ~InPlace,
         bad = {}, \A j \in Nodes : j < node => outcome[j] = "ok"
  PROVE  Ready
<1>1. node \in Nodes /\ pos \in 1..Len(Plan[node]) /\ Len(Plan[node]) \in Nat
  BY AtTyped DEF IInv
<1>2. ASSUME NEW f \in R.needs PROVE f \in have
  <2>1. PICK h \in 1..node : \E m \in 1..Len(Plan[h]) :
          (h < node \/ m < pos) /\ Sure(Plan[h][m]) /\ f \in All(Plan[h][m].gives)
    BY <1>1, <1>2 DEF SoundPlan, NeedsMet, R
  <2>2. PICK m \in 1..Len(Plan[h]) :
          (h < node \/ m < pos) /\ Sure(Plan[h][m]) /\ f \in All(Plan[h][m].gives)
    BY <2>1
  <2>3. h \in Nodes
    BY <1>1, <2>1, PlanAssumption DEF Nodes
  <2>4. CASE h < node
    BY <2>2, <2>3, <2>4 DEF IInv, OkMeansComplete
  <2>5. CASE h = node /\ m < pos
    BY <1>1, <2>2, <2>5 DEF IInv, Sound, DoneSoFar, Left
  <2> QED BY <1>1, <2>1, <2>2, <2>4, <2>5 DEF Nodes
<1>3. R.bars \cap have = {}
  <2>1. CASE Follows(Plan, node, pos)
    BY <2>1 DEF Follows, R
  <2>2. CASE ~Follows(Plan, node, pos)
    <3>1. R \in Resources(Plan) /\ Truthful(Resources(Plan), have)
      BY <2>2, AtSound, TrueHere DEF IInv, Sound
    <3> QED BY <3>1 DEF Truthful, Clashes, InPlace
  <2> QED BY <2>1, <2>2
<1> QED BY <1>2, <1>3 DEF Ready

(* What is recorded of a run. *)
LEMMA RecordedStays ==
  ASSUME TypeOK, Recorded, [Next]_vars
  PROVE  Recorded'
<1>1. CASE AtResource /\ Advance /\ bad' \subseteq bad \cup {R.id}
  <2>1. node' = node /\ pos' = pos + 1 /\ outcome' = outcome /\ pos \in Nat /\ pos > 0
    BY <1>1 DEF Advance, AtResource, TypeOK
  <2>2. \A m \in 1..(pos - 1) : m \in 1..(pos' - 1)
    BY <2>1
  <2>3. pos \in 1..(pos' - 1)
    BY <2>1
  <2> QED BY <1>1, <2>1, <2>2, <2>3 DEF Recorded, R
<1>2. CASE Skip \/ LeaveAlone \/ Apply \/ Fail \/ Fault
  BY <1>1, <1>2 DEF Skip, LeaveAlone, Apply, Fail, Fault, Die
<1>3. CASE (\E m \in {"up", "provision"} : Start(m)) \/ PassOver \/ FinishCommand \/ Interrupt \/ FinishNode
  <2>1. pos' = 0
    <3>1. CASE \E m \in {"up", "provision"} : Start(m)
      BY <3>1 DEF Start, TypeOK
    <3>2. CASE FinishCommand
      BY <3>2, PlanAssumption DEF FinishCommand, TypeOK, Nodes
    <3>3. CASE PassOver \/ Interrupt \/ FinishNode
      BY <3>3 DEF PassOver, Interrupt, FinishNode
    <3> QED BY <1>3, <3>1, <3>2, <3>3
  <2> QED BY <2>1 DEF Recorded
<1>4. CASE Compile
  BY <1>4 DEF Compile, Recorded, TypeOK
<1>5. CASE UNCHANGED vars
  BY <1>5 DEF vars, Recorded
<1> QED BY <1>2, <1>3, <1>4, <1>5 DEF Next

(* The step of the induction, once the accidents are put aside. *)
LEMMA StepSound ==
  ASSUME SoundPlan(Plan), IInv, TypeOK', [Next]_vars, ~tainted'
  PROVE  FailureExplained' /\ OkMeansComplete' /\ GuardsTell' /\ DoneSoFar'
<1>1. ~tainted /\ GuardsTell /\ DoneSoFar /\ TypeOK /\ Recorded
  BY TaintStays DEF IInv, Sound
<1>2. GuardsTell'
  BY <1>1, GuardsStay
<1>3. ASSUME NEW m \in 1..(pos - 1), pos > 0, Left(Plan[node][m]) \subseteq have
      PROVE  Left(Plan[node][m]) \subseteq have'
  <2>1. node \in Nodes /\ m \in 1..Len(Plan[node]) /\ m < pos
    BY <1>1, <1>3, PlanAssumption DEF TypeOK
  <2>2. ASSUME NEW f \in Left(Plan[node][m]) PROVE f \in have'
    <3>1. f \in have /\ (f \in All(Plan[node][m].gives) \/ f \in Plan[node][m].needs)
      BY <1>3, <2>2 DEF Left
    <3> QED BY <1>1, <2>1, <3>1, OthersKeep
  <2> QED BY <2>2
<1>4. DoneSoFar'
  <2>1. CASE UNCHANGED <<node, pos, bad>>
    BY <1>1, <1>3, <2>1 DEF DoneSoFar
  <2>2. CASE pos' \in {0, 1}
    BY <2>2 DEF DoneSoFar
  <2>3. CASE AtResource /\ Advance /\ bad \subseteq bad'
             /\ (R.id \in bad' \/ (Sure(R) => Left(R) \subseteq have'))
    <3>1. node' = node /\ pos' = pos + 1 /\ pos \in Nat /\ pos > 0
      BY <1>1, <2>3 DEF Advance, AtResource, TypeOK
    <3>2. SUFFICES ASSUME NEW m \in 1..pos, Plan[node][m].id \notin bad', Sure(Plan[node][m])
                   PROVE  Left(Plan[node][m]) \subseteq have'
      BY <3>1 DEF DoneSoFar
    <3>3. CASE m = pos
      BY <2>3, <3>2, <3>3 DEF R
    <3>4. CASE m \in 1..(pos - 1)
      BY <1>1, <1>3, <2>3, <3>1, <3>2, <3>4 DEF DoneSoFar
    <3> QED BY <3>1, <3>2, <3>3, <3>4
  <2>4. CASE Skip \/ Fail \/ Fault
    BY <2>3, <2>4 DEF Skip, Fail, Fault, Die
  <2>5. CASE Apply
    <3>1. R.needs \subseteq have /\ R.drops \subseteq All(R.gives) /\ have' = (have \ R.drops) \cup All(R.gives)
      BY <1>1, <2>5, AtSound DEF Apply, Ready
    <3>2. Left(R) \subseteq have'
      BY <3>1 DEF Left
    <3> QED BY <2>3, <2>5, <3>2 DEF Apply
  <2>6. CASE LeaveAlone
    <3>1. AtResource /\ InPlace /\ have' = have
      BY <2>6 DEF LeaveAlone
    <3>2. ASSUME Sure(R) PROVE Left(R) \subseteq have
      <4>1. R.unless \cap have # {} /\ R.unless # {}
        BY <3>1, <3>2 DEF InPlace, Sure
      <4>2. ~Follows(Plan, node, pos)
        BY <4>1 DEF Follows, R
      <4>3. Truthful(Resources(Plan), have) /\ R \in Resources(Plan)
        BY <1>1, <3>1, <4>2, TrueHere, AtSound
      <4> QED BY <4>1, <4>3 DEF Truthful, Left
    <3> QED BY <2>3, <2>6, <3>1, <3>2 DEF LeaveAlone
  <2>7. CASE \E m \in {"up", "provision"} : Start(m)
    BY <1>1, <2>2, <2>7 DEF Start, TypeOK
  <2>8. CASE PassOver
    BY <2>2, <2>8 DEF PassOver
  <2>9. CASE Compile \/ FinishNode \/ FinishCommand \/ Interrupt \/ UNCHANGED vars
    BY <1>1, <2>1, <2>2, <2>9 DEF Compile, FinishNode, FinishCommand, Interrupt, vars, TypeOK
  <2> QED BY <2>4, <2>5, <2>6, <2>7, <2>8, <2>9 DEF Next
<1>5. OkMeansComplete'
  <2>1. SUFFICES ASSUME NEW i \in Nodes, outcome'[i] = "ok",
                        NEW k \in 1..Len(Plan[i]), Sure(Plan[i][k])
                 PROVE  All(Plan[i][k].gives) \subseteq have'
    BY DEF OkMeansComplete, Nodes
  <2>2. CASE outcome[i] = "ok"
    <3>1. All(Plan[i][k].gives) \subseteq have
      BY <1>1, <2>1, <2>2 DEF IInv, OkMeansComplete
    <3>2. pos > 0 => i # node
      BY <1>1, <2>2 DEF Recorded
    <3> QED BY <1>1, <3>1, <3>2, OthersKeep
  <2>3. CASE outcome[i] # "ok"
    <3>1. FinishNode /\ i = node /\ bad = {}
      BY <1>1, <2>1, <2>3 DEF Next, vars, Start, PassOver, Compile, FinishNode, FinishCommand, Skip,
           LeaveAlone, Apply, Fail, Fault, Interrupt, Advance, TypeOK
    <3>2. Len(Plan[i]) \in Nat /\ pos = Len(Plan[i]) + 1 /\ have' = have
      BY <2>1, <3>1, PlanAssumption DEF FinishNode
    <3> QED BY <1>1, <2>1, <3>1, <3>2 DEF DoneSoFar, Left
  <2> QED BY <2>2, <2>3
<1>6. FailureExplained'
  <2>1. CASE bad' = {} \/ hit' # {}
    BY <2>1 DEF FailureExplained
  <2>2. CASE UNCHANGED <<node, bad, hit, outcome>>
    BY <1>1, <2>2 DEF IInv, FailureExplained
  <2>3. CASE Skip
    BY <1>1, <2>3 DEF Skip, Blocked, Advance, IInv, FailureExplained
  <2>4. CASE Fail
    <3>1. node' = node /\ outcome' = outcome /\ hit' = hit
      BY <2>4 DEF Fail, Advance
    <3>2. CASE bad = {} /\ \A j \in Nodes : j < node => outcome[j] = "ok"
      BY <1>1, <2>4, <3>2, NeedsThere DEF Fail
    <3> QED BY <1>1, <3>1, <3>2 DEF IInv, FailureExplained
  <2>5. CASE LeaveAlone \/ Apply
    BY <2>2, <2>5 DEF LeaveAlone, Apply, Advance
  <2>6. CASE \E m \in {"up", "provision"} : Start(m)
    BY <1>1, <2>1, <2>6 DEF Start, TypeOK
  <2>7. CASE PassOver
    BY <1>1, <2>1, <2>7 DEF PassOver, TypeOK
  <2>8. CASE Compile
    BY <1>1, <2>1, <2>8 DEF Compile, TypeOK
  <2>9. CASE FinishNode \/ FinishCommand \/ Fault \/ Interrupt \/ UNCHANGED vars
    BY <2>1, <2>2, <2>9 DEF FinishNode, FinishCommand, Fault, Interrupt, vars
  <2> QED BY <2>3, <2>4, <2>5, <2>6, <2>7, <2>8, <2>9 DEF Next
<1> QED BY <1>2, <1>4, <1>5, <1>6

(* The inductive invariant holds of every sound plan. *)
THEOREM InductiveInvariant == SoundPlan(Plan) => (Spec => []IInv)
<1> SUFFICES ASSUME SoundPlan(Plan) PROVE Spec => []IInv
  OBVIOUS
<1> DEFINE J == Recorded /\ FailureExplained /\ OkMeansComplete /\ Sound
<1>1. Init => J
  <2> SUFFICES ASSUME Init PROVE J
    OBVIOUS
  <2>1. Truthful(Resources(Plan), have)
    BY DEF Init, Truthful
  <2> QED BY <2>1 DEF Init, Recorded, FailureExplained, OkMeansComplete, Sound, GuardsTell, DoneSoFar
<1>2. TypeOK /\ TypeOK' /\ J /\ [Next]_vars => J'
  <2> SUFFICES ASSUME TypeOK, TypeOK', J, [Next]_vars PROVE J'
    OBVIOUS
  <2>0. Recorded'
    BY RecordedStays
  <2>1. CASE tainted'
    BY <2>0, <2>1 DEF FailureExplained, OkMeansComplete, Sound
  <2>2. CASE ~tainted'
    BY <2>0, <2>2, StepSound DEF IInv, Sound
  <2> QED BY <2>1, <2>2
<1>3. Spec => []TypeOK
  BY TypeCorrect
<1>4. IInv <=> TypeOK /\ J
  BY DEF IInv
<1> HIDE DEF J
<1> QED BY <1>1, <1>2, <1>3, <1>4, PTL DEF Spec

(* In a sound plan a puppet run fails only for a reason of its own, for    *)
(* any number of nodes, accidents and reruns.                              *)
THEOREM FailuresExplained == SoundPlan(Plan) => (Spec => []FailureExplained)
<1>1. IInv => FailureExplained
  BY DEF IInv
<1> QED BY <1>1, InductiveInvariant, PTL

(* In a sound plan a node that puppet reports as provisioned has, and      *)
(* keeps, everything its catalog promises.                                 *)
THEOREM ProvisionedIsComplete == SoundPlan(Plan) => (Spec => []OkMeansComplete)
<1>1. IInv => OkMeansComplete
  BY DEF IInv
<1> QED BY <1>1, InductiveInvariant, PTL

-----------------------------------------------------------------------------
(* The order of the daemons.  BringUpOrder is not inductive: a daemon is   *)
(* started because the resources it waits for did not fail in this run,    *)
(* and that says something of the first daemon only along the chain of     *)
(* dependencies between the two.                                           *)

(* Of a resource that relies on the daemon a and was visited without       *)
(* failure in this run, a is up.                                           *)
ReliedOn ==
  pos > 0 => \A pr \in Promised : pr[1] \in Titles(node) =>
    \A k \in 1..(pos - 1) :
      (Plan[node][k].id \in Relying(Plan, node, pr[1]) /\ Plan[node][k].id \notin bad)
        => <<node, pr[1]>> \in have

(* What OrderedPlan says of one pair of daemons. *)
LEMMA OrderedStart ==
  ASSUME OrderedPlan(Plan), NEW i \in Nodes, NEW pr \in Promised, pr[1] \in Titles(i),
         NEW k \in 1..Len(Plan[i]), Plan[i][k].id = pr[1]
  PROVE  /\ Plan[i][k].onlyif = {} /\ Plan[i][k].unless \subseteq {<<i, pr[1]>>}
         /\ <<i, pr[1]>> \in All(Plan[i][k].gives)
BY Zenon DEF OrderedPlan, Sure

LEMMA OrderedChain ==
  ASSUME OrderedPlan(Plan), NEW i \in Nodes, NEW pr \in Promised, pr[1] \in Titles(i),
         NEW k \in 1..Len(Plan[i]), Plan[i][k].id # pr[1], Plan[i][k].id \in Relying(Plan, i, pr[1])
  PROVE  \E m \in 1..(k - 1) : Plan[i][m].id \in Plan[i][k].deps \cap Relying(Plan, i, pr[1])
BY Zenon DEF OrderedPlan

LEMMA OrderedEffects ==
  ASSUME OrderedPlan(Plan), NEW i \in Nodes, NEW pr \in Promised, pr[1] \in Titles(i),
         NEW h \in Nodes, NEW k \in 1..Len(Plan[h])
  PROVE  /\ <<i, pr[1]>> \notin Plan[h][k].drops
         /\ <<i, pr[2]>> \in All(Plan[h][k].gives) =>
              h = i /\ Plan[h][k].id \in Relying(Plan, i, pr[1]) /\ Plan[h][k].id # pr[1]
<1>1. <<i, pr[1]>> \notin Plan[h][k].drops
  BY Zenon DEF OrderedPlan
<1>2. <<i, pr[2]>> \in All(Plan[h][k].gives) => h = i /\ Plan[h][k].id \in Relying(Plan, i, pr[1]) \ {pr[1]}
  BY Zenon DEF OrderedPlan
<1> QED
  BY <1>1, <1>2

(* A resource that is not blocked finds the daemon it relies on. *)
LEMMA FindsDaemon ==
  ASSUME OrderedPlan(Plan), TypeOK, ReliedOn, AtResource, ~Blocked,
         NEW pr \in Promised, pr[1] \in Titles(node),
         R.id \in Relying(Plan, node, pr[1]), R.id # pr[1]
  PROVE  <<node, pr[1]>> \in have
<1>1. node \in Nodes /\ pos \in 1..Len(Plan[node]) /\ pos > 0
  BY AtTyped DEF AtResource
<1>2. PICK m \in 1..(pos - 1) : Plan[node][m].id \in R.deps \cap Relying(Plan, node, pr[1])
  BY <1>1, OrderedChain DEF R
<1>3. Plan[node][m].id \notin bad
  BY <1>2 DEF Blocked
<1> QED
  BY <1>1, <1>2, <1>3 DEF ReliedOn

(* What a visit, whether it succeeds or not, does to facts and titles. *)
Visits ==
  /\ AtResource
  /\ have \ R.drops \subseteq have' /\ have' \subseteq have \cup All(R.gives)
  /\ Blocked => have' = have

LEMMA VisitKeepsOrder ==
  ASSUME OrderedPlan(Plan), TypeOK, BringUpOrder, ReliedOn, Visits
  PROVE  BringUpOrder'
<1> SUFFICES ASSUME NEW i \in Nodes, NEW pr \in Promised, <<i, pr[2]>> \in have', pr[1] \in Titles(i)
             PROVE  <<i, pr[1]>> \in have'
  BY DEF BringUpOrder
<1>1. node \in Nodes /\ pos \in 1..Len(Plan[node]) /\ R = Plan[node][pos]
  BY AtTyped DEF Visits, R
<1>2. /\ <<i, pr[1]>> \notin R.drops
      /\ <<i, pr[2]>> \in All(R.gives) => node = i /\ R.id \in Relying(Plan, i, pr[1]) /\ R.id # pr[1]
  BY <1>1, OrderedEffects, Zenon
<1>3. <<i, pr[1]>> \in have
  <2>1. CASE <<i, pr[2]>> \in have
    BY <2>1 DEF BringUpOrder
  <2>2. CASE <<i, pr[2]>> \notin have
    <3>1. ~Blocked /\ <<i, pr[2]>> \in All(R.gives)
      BY <2>2 DEF Visits
    <3>2. node = i /\ R.id \in Relying(Plan, i, pr[1]) /\ R.id # pr[1]
      BY <1>2, <3>1
    <3> QED
      BY <3>1, <3>2, FindsDaemon DEF Visits
  <2> QED
    BY <2>1, <2>2
<1> QED
  BY <1>2, <1>3 DEF Visits

LEMMA VisitKeepsRelied ==
  ASSUME OrderedPlan(Plan), TypeOK, ReliedOn, Visits, bad \subseteq bad', node' = node, pos' = pos + 1,
         R.id \in bad' \/ (~Blocked /\ (InPlace \/ All(R.gives) \subseteq have'))
  PROVE  ReliedOn'
<1>1. node \in Nodes /\ pos \in 1..Len(Plan[node]) /\ R = Plan[node][pos] /\ Len(Plan[node]) \in Nat
  BY AtTyped DEF Visits, R
<1> SUFFICES ASSUME NEW pr \in Promised, pr[1] \in Titles(node), NEW k \in 1..pos,
                    Plan[node][k].id \in Relying(Plan, node, pr[1]), Plan[node][k].id \notin bad'
             PROVE  <<node, pr[1]>> \in have'
  <2>1. \A k \in 1..(pos' - 1) : k \in 1..pos
    BY <1>1
  <2> QED
    BY <2>1 DEF ReliedOn
<1>2. <<node, pr[1]>> \in have => <<node, pr[1]>> \in have'
  <2>1. <<node, pr[1]>> \notin R.drops
    BY <1>1, OrderedEffects, Zenon
  <2> QED
    BY <2>1 DEF Visits
<1>3. CASE k # pos
  <2>1. k \in 1..(pos - 1) /\ pos > 0
    BY <1>1, <1>3
  <2> QED
    BY <1>2, <2>1 DEF ReliedOn
<1>4. CASE k = pos
  <2>1. ~Blocked /\ (InPlace \/ All(R.gives) \subseteq have') /\ R.id \in Relying(Plan, node, pr[1])
    BY <1>1, <1>4
  <2>2. CASE R.id # pr[1]
    BY <1>2, <2>1, <2>2, FindsDaemon DEF Visits
  <2>3. CASE R.id = pr[1]
    <3>1. R.onlyif = {} /\ R.unless \subseteq {<<node, pr[1]>>} /\ <<node, pr[1]>> \in All(R.gives)
      BY <1>1, <2>3, OrderedStart, Zenon
    <3> QED
      BY <1>2, <2>1, <3>1 DEF InPlace
  <2> QED
    BY <2>2, <2>3
<1> QED
  BY <1>3, <1>4

LEMMA DieVisits ==
  ASSUME TypeOK, Die
  PROVE  Visits
<1>1. AtResource /\ ~Blocked
  BY DEF Die
<1>2. Len(R.gives) \in Nat
  BY <1>1, AtTyped
<1>3. PICK j \in 0..(Len(R.gives) - 1) : have' = (have \ R.drops) \cup First(R.gives, j)
  BY DEF Die
<1>4. First(R.gives, j) \subseteq All(R.gives)
  BY <1>2, FirstInAll
<1> QED
  BY <1>1, <1>3, <1>4 DEF Visits

(* The daemons that the comments of site.pp order come up in that order on *)
(* every node, for every catalog that passes the static check OrderedPlan, *)
(* however many commands die, one-shot commands among them, and however    *)
(* often puppet is rerun.                                                  *)
THEOREM DaemonsInOrder == OrderedPlan(Plan) => (Spec => []BringUpOrder)
<1> SUFFICES ASSUME OrderedPlan(Plan) PROVE Spec => []BringUpOrder
  OBVIOUS
<1>1. Init => BringUpOrder /\ ReliedOn
  BY DEF Init, BringUpOrder, ReliedOn
<1>2. ASSUME TypeOK, BringUpOrder, ReliedOn, [Next]_vars
      PROVE  BringUpOrder' /\ ReliedOn'
  <2>1. ASSUME have' = have, pos' = 0 \/ pos' = 1 \/ (pos' = pos /\ node' = node /\ bad' = bad)
        PROVE  BringUpOrder' /\ ReliedOn'
    <3>1. BringUpOrder'
      BY <1>2, <2>1 DEF BringUpOrder
    <3> SUFFICES ReliedOn'
      BY <3>1
    <3>2. CASE pos' = 0 \/ pos' = 1
      <4>1. pos' > 0 => \A k \in 1..(pos' - 1) : FALSE
        BY <3>2
      <4> QED
        BY <4>1 DEF ReliedOn
    <3>3. CASE pos' = pos /\ node' = node /\ bad' = bad
      <4> SUFFICES ASSUME pos' > 0, NEW pr \in Promised, pr[1] \in Titles(node'), NEW k \in 1..(pos' - 1),
                          Plan[node'][k].id \in Relying(Plan, node', pr[1]), Plan[node'][k].id \notin bad'
                   PROVE  <<node', pr[1]>> \in have'
        BY DEF ReliedOn
      <4>1. <<node, pr[1]>> \in have
        BY <1>2, <3>3 DEF ReliedOn
      <4> QED
        BY <2>1, <3>3, <4>1
    <3> QED
      BY <2>1, <3>2, <3>3
  <2>2. CASE \E m \in {"up", "provision"} : Start(m)
    <3>1. pos = 0
      BY <1>2, <2>2 DEF Start, TypeOK
    <3> QED
      BY <2>1, <2>2, <3>1 DEF Start
  <2>3. CASE PassOver \/ Compile
    BY <2>1, <2>3 DEF PassOver, Compile
  <2>4. CASE FinishNode \/ FinishCommand \/ UNCHANGED vars
    BY <2>1, <2>4 DEF FinishNode, FinishCommand, vars
  <2>5. CASE Skip \/ LeaveAlone \/ Apply \/ Fail
    <3>1. Visits /\ bad \subseteq bad' /\ node' = node /\ pos' = pos + 1
      BY <2>5 DEF Skip, LeaveAlone, Apply, Fail, Visits, Advance
    <3>2. R.id \in bad' \/ (~Blocked /\ (InPlace \/ All(R.gives) \subseteq have'))
      BY <2>5 DEF Skip, LeaveAlone, Apply, Fail
    <3> QED
      BY <1>2, <3>1, <3>2, VisitKeepsOrder, VisitKeepsRelied
  <2>6. CASE Fault
    <3>1. Visits /\ bad \subseteq bad' /\ node' = node /\ pos' = pos + 1 /\ R.id \in bad'
      BY <1>2, <2>6, DieVisits DEF Fault, Advance
    <3> QED
      BY <1>2, <3>1, VisitKeepsOrder, VisitKeepsRelied
  <2>7. CASE Interrupt
    <3>1. pos' = 0
      BY <2>7 DEF Interrupt
    <3>2. ReliedOn'
      BY <3>1 DEF ReliedOn
    <3>3. BringUpOrder'
      <4>1. Visits
        BY <1>2, <2>7, DieVisits DEF Interrupt
      <4> QED
        BY <1>2, <4>1, VisitKeepsOrder
    <3> QED
      BY <3>2, <3>3
  <2> QED
    BY <1>2, <2>2, <2>3, <2>4, <2>5, <2>6, <2>7 DEF Next
<1> QED
  BY <1>1, <1>2, TypeCorrect, PTL DEF Spec
=============================================================================
