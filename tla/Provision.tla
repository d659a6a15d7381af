----------------------------- MODULE Provision -----------------------------
(***************************************************************************)
(* `vagrant up` and `vagrant provision` over the nodes of a profile, and   *)
(* the puppet run on each node.  Vagrant takes the nodes in the order of   *)
(* the profile (Vagrantfile, profile[:nodes].each), one puppet run at a    *)
(* time; a puppet run walks the resources of the node's catalog in the     *)
(* order Plan[i] and applies, leaves alone, skips or fails each of them.   *)
(*                                                                         *)
(* What a resource does is abstracted to facts: the files, packages,       *)
(* database contents and running services it needs, the ones it            *)
(* establishes in order, and the ones its guard (creates, unless, onlyif)  *)
(* tests.  A command that dies half way leaves a proper prefix of what it  *)
(* establishes.                                                            *)
(***************************************************************************)
EXTENDS Guards, FiniteSets

CONSTANTS N,          \* the number of nodes of the profile
          Plan,       \* Plan[i]: the resources of node i in the order puppet visits them
          Compiles,   \* the nodes whose catalog compiles
          Fact,       \* every fact a resource can establish
          OneShot,    \* the <<node, title>> that can die so that a guard is true of half-done work
          MaxFaults,  \* bound: how many commands die half way in a behaviour
          MaxRuns     \* bound: how many times the user starts vagrant

Nodes == 1..N

(* The titles of node i's catalog. *)
Titles(i) == {Plan[i][k].id : k \in 1..Len(Plan[i])}

Resources(plan) == UNION {{plan[i][k] : k \in 1..Len(plan[i])} : i \in Nodes}

ASSUME PlanAssumption ==
  /\ N \in Nat \ {0}
  /\ MaxFaults \in Nat /\ MaxRuns \in Nat
  /\ Compiles \subseteq Nodes
  /\ DOMAIN Plan = Nodes
  /\ \A i \in Nodes :
       /\ Len(Plan[i]) \in Nat
       /\ \A k \in 1..Len(Plan[i]) :
            /\ Plan[i][k].deps \subseteq Titles(i)
            /\ Plan[i][k].needs \subseteq Fact
            /\ All(Plan[i][k].gives) \subseteq Fact
            /\ Len(Plan[i][k].gives) \in Nat

VARIABLES mode,     \* "idle", or the vagrant command under way: "up", "provision"
          node,     \* the node that command is at; N+1 past the last one
          pos,      \* the resource the puppet run is at; 0 when no run is under way
          bad,      \* the titles that failed or were skipped in this puppet run
          hit,      \* those of them whose command died half way in this run
          have,     \* the facts that hold now
          outcome,  \* what became of the last puppet run on each node
          faults,   \* history: the <<node, title>> whose command died half way
          tainted,  \* history: a OneShot command died and left a guard that lies
          runs      \* how many times vagrant was started

vars == <<mode, node, pos, bad, hit, have, outcome, faults, tainted, runs>>

Outcomes == {"new", "started", "ok", "failed"}

(* The types, and that a puppet run is under way only inside a vagrant     *)
(* command and records only titles of its own node's catalog.              *)
TypeOK ==
  /\ mode \in {"idle", "up", "provision"}
  /\ node \in 1..(N + 1)
  /\ pos \in Nat
  /\ pos > 0 => (node \in Nodes /\ pos <= Len(Plan[node]) + 1 /\ mode # "idle")
  /\ have \subseteq Fact
  /\ bad \subseteq (IF pos > 0 THEN Titles(node) ELSE {})
  /\ hit \subseteq bad
  /\ outcome \in [Nodes -> Outcomes]
  /\ faults \subseteq Nodes \X UNION {Titles(i) : i \in Nodes}
  /\ tainted \in BOOLEAN
  /\ runs \in 0..MaxRuns

Init ==
  /\ mode = "idle" /\ node = N + 1 /\ pos = 0
  /\ bad = {} /\ hit = {} /\ have = {}
  /\ outcome = [i \in Nodes |-> "new"]
  /\ faults = {} /\ tainted = FALSE /\ runs = 0

-----------------------------------------------------------------------------
(* Vagrant. *)

(* The user types `vagrant up` or `vagrant provision`. *)
Start(m) ==
  /\ mode = "idle" /\ runs < MaxRuns
  /\ mode' = m /\ node' = 1 /\ runs' = runs + 1
  /\ UNCHANGED <<pos, bad, hit, have, outcome, faults, tainted>>

(* `up` creates and provisions a node once: a node that was created before, *)
(* whatever became of its run, is left alone.  `provision` reruns puppet on *)
(* the nodes that exist.                                                    *)
Takes(i) == IF mode = "up" THEN outcome[i] = "new" ELSE outcome[i] # "new"

PassOver ==
  /\ mode # "idle" /\ pos = 0 /\ node \in Nodes /\ ~Takes(node)
  /\ node' = node + 1
  /\ UNCHANGED <<mode, pos, bad, hit, have, outcome, faults, tainted, runs>>

(* Puppet compiles the catalog of the node before it touches anything; a    *)
(* catalog that does not compile is a failed run, and a failed run ends the *)
(* vagrant command.                                                         *)
Compile ==
  /\ mode # "idle" /\ pos = 0 /\ node \in Nodes /\ Takes(node)
  /\ IF node \in Compiles
       THEN /\ pos' = 1 /\ bad' = {}
            /\ outcome' = [outcome EXCEPT ![node] = "started"]
            /\ UNCHANGED <<mode, node>>
       ELSE /\ outcome' = [outcome EXCEPT ![node] = "failed"]
            /\ mode' = "idle" /\ node' = N + 1
            /\ UNCHANGED <<pos, bad>>
  /\ hit' = {}
  /\ UNCHANGED <<have, faults, tainted, runs>>

FinishNode_keeps_bad ==
  /\ pos > 0 /\ pos = Len(Plan[node]) + 1
  /\ pos' = 0 /\ node' = N + 1 /\ mode' = "idle"
  /\ UNCHANGED <<bad, hit, outcome, have, faults, tainted, runs>>

FinishNode ==
  /\ pos > 0 /\ pos = Len(Plan[node]) + 1
  /\ pos' = 0 /\ bad' = {} /\ hit' = {}
  /\ IF bad = {}
       THEN /\ outcome' = [outcome EXCEPT ![node] = "ok"]
            /\ node' = node + 1 /\ UNCHANGED mode
       ELSE /\ outcome' = [outcome EXCEPT ![node] = "failed"]
            /\ node' = N + 1 /\ mode' = "idle"
  /\ UNCHANGED <<have, faults, tainted, runs>>

FinishCommand ==
  /\ mode # "idle" /\ node = N + 1
  /\ mode' = "idle"
  /\ UNCHANGED <<node, pos, bad, hit, have, outcome, faults, tainted, runs>>

-----------------------------------------------------------------------------
(* Puppet. *)

AtResource == pos > 0 /\ pos <= Len(Plan[node])
R == Plan[node][pos]

Blocked == R.deps \cap bad # {}
(* The guard says there is nothing to do. *)
InPlace == R.unless \cap have # {} \/ ~(R.onlyif \subseteq have)
(* What the command needs is there and nothing it cannot cope with is. *)
Ready == R.needs \subseteq have /\ R.bars \cap have = {}

Advance == pos' = pos + 1 /\ UNCHANGED <<mode, node, outcome, runs>>

Skip ==
  /\ AtResource /\ Blocked
  /\ bad' = bad \cup {R.id}
  /\ Advance /\ UNCHANGED <<hit, have, faults, tainted>>

LeaveAlone ==
  /\ AtResource /\ ~Blocked /\ InPlace
  /\ Advance /\ UNCHANGED <<bad, hit, have, faults, tainted>>

Apply ==
  /\ AtResource /\ ~Blocked /\ ~InPlace /\ Ready
  /\ have' = (have \ R.drops) \cup All(R.gives)
  /\ Advance /\ UNCHANGED <<bad, hit, faults, tainted>>

Fail ==
  /\ AtResource /\ ~Blocked /\ ~InPlace /\ ~Ready
  /\ bad' = bad \cup {R.id}
  /\ Advance /\ UNCHANGED <<hit, have, faults, tainted>>

(* The command dies after the first j of the things it establishes: a lost  *)
(* connection, a full disk, a killed process.                               *)
Die ==
  /\ AtResource /\ ~Blocked /\ ~InPlace /\ Ready
  /\ Cardinality(faults) < MaxFaults
  /\ \E j \in 0..(Len(R.gives) - 1) :
       have' = (have \ R.drops) \cup First(R.gives, j)
  /\ faults' = faults \cup {<<node, R.id>>}
  /\ tainted' = (tainted \/ (<<node, R.id>> \in OneShot /\ ~Truthful(Resources(Plan), have')))

(* The resource fails and the puppet run goes on with what does not depend  *)
(* on it ...                                                                *)
Fault ==
  /\ Die
  /\ bad' = bad \cup {R.id} /\ hit' = hit \cup {R.id}
  /\ Advance

(* ... or the puppet run and the vagrant command are stopped with it.  The  *)
(* virtual machine goes on, and with it the daemons that run.               *)
Interrupt ==
  /\ Die
  /\ outcome' = [outcome EXCEPT ![node] = "failed"]
  /\ mode' = "idle" /\ node' = N + 1 /\ pos' = 0 /\ bad' = {} /\ hit' = {}
  /\ UNCHANGED runs

-----------------------------------------------------------------------------
Next ==
  \/ \E m \in {"up", "provision"} : Start(m)
  \/ PassOver \/ Compile \/ FinishNode \/ FinishCommand
  \/ Skip \/ LeaveAlone \/ Apply \/ Fail
  \/ Fault \/ Interrupt

Spec == Init /\ [][Next]_vars

-----------------------------------------------------------------------------
(* Properties. *)

(* A puppet run goes wrong only for a reason of its own: a command died in  *)
(* this very run, or the run of a node listed earlier in the profile has    *)
(* not succeeded.  In particular the first `vagrant up` succeeds when       *)
(* nothing dies, and a rerun repairs whatever an earlier accident left      *)
(* behind.  The exceptions are the accidents in a OneShot resource that     *)
(* left a `creates` or `unless` true of half-done work.                     *)
FailureExplained ==
  \/ bad = {} \/ hit # {} \/ tainted
  \/ \E j \in Nodes : j < node /\ outcome[j] # "ok"

(* When puppet reports a node as provisioned, everything its catalog        *)
(* promises is there: no guard hides half-done work, no run on another node *)
(* took something away, and what a command of its own removed (the remote   *)
(* root of add-remote-root) was made again.                                 *)
OkMeansComplete ==
  \A i \in Nodes : (outcome[i] = "ok" /\ ~tainted) =>
     \A k \in 1..Len(Plan[i]) : Sure(Plan[i][k]) => All(Plan[i][k].gives) \subseteq have

(* README.md: `vagrant up` brings up the cluster. *)
UpSucceeds == faults = {} => \A i \in Nodes : outcome[i] # "failed"

-----------------------------------------------------------------------------
(* A static check of a plan, under which the properties above hold however *)
(* many commands die and however often vagrant is started.                 *)

(* What a resource needs comes from a node listed earlier, or from a       *)
(* resource visited earlier on the same node.                              *)
NeedsMet(plan) ==
  \A i \in Nodes : \A k \in 1..Len(plan[i]) : \A f \in plan[i][k].needs :
    \E h \in 1..i : \E m \in 1..Len(plan[h]) :
      (h < i \/ m < k) /\ Sure(plan[h][m]) /\ f \in All(plan[h][m].gives)

(* Resource k cannot but be applied when the one before it was: nothing    *)
(* can come between secure-mysqld, add-remote-root and the marker but an   *)
(* accident, which is OneShot.                                             *)
Follows(plan, i, k) ==
  LET r == plan[i][k]
      prev == plan[i][k - 1]
  IN /\ k > 1 /\ <<i, r.id>> \in OneShot
     /\ r.unless = {} /\ r.onlyif = {} /\ r.bars = {}
     /\ r.deps \subseteq prev.deps \cup {prev.id}
     /\ r.needs \subseteq prev.needs \cup All(prev.gives)

(* What is still to come, at resource k, of those that follow. *)
Rest(plan, i, k) ==
  UNION {All(plan[i][m].gives) : m \in {m \in k..Len(plan[i]) : \A n \in k..m : Follows(plan, i, n)}}

(* What there is after a resource that did not fail. *)
Left(r) == All(r.gives) \cup (IF r.unless = {} THEN r.needs ELSE {})
(* What there is when resource k is not skipped. *)
Given(plan, i, k) ==
  UNION {Left(plan[i][m]) : m \in {m \in 1..(k - 1) : plan[i][m].id \in plan[i][k].deps /\ Sure(plan[i][m])}}

(* Whoever establishes S where T holds leaves no guard true of work that   *)
(* is not done, and nothing that clashes with a command still to be run.   *)
Honest(plan, S, T) ==
  \A r \in Resources(plan) :
    /\ S \cap r.unless # {} => All(r.gives) \subseteq S \cup T
    /\ S \cap Clashes(r) # {} => S \cap r.unless # {}

(* What an unguarded command removes is made by no other, tested by no     *)
(* guard, and needed by nothing that is visited before it.                 *)
Private(plan, i, k) ==
  LET a == plan[i][k]
  IN \A h \in Nodes : \A m \in 1..Len(plan[h]) : (h # i \/ m # k) =>
       LET r == plan[h][m]
       IN /\ a.drops \cap (All(r.gives) \cup r.unless \cup Clashes(r)) = {}
          /\ (h = i /\ m < k) => a.drops \cap r.needs = {}

(* Titles are different.  A command that is run to its end, with those     *)
(* that follow it, is honest, and so are those that are not OneShot at any *)
(* point.  What a command removes it makes again, and it removes either    *)
(* nothing but its own, or under a guard.                                  *)
SoundPlan(plan) ==
  /\ Compiles = Nodes
  /\ NeedsMet(plan)
  /\ \A i \in Nodes : \A k, m \in 1..Len(plan[i]) : plan[i][k].id = plan[i][m].id => k = m
  /\ \A i \in Nodes : \A k \in 1..Len(plan[i]) :
       LET a == plan[i][k]
           T == Given(plan, i, k)
       IN /\ a.drops \subseteq All(a.gives)
          /\ a.unless = {} => (a.drops \cap (a.needs \cup a.bars) = {} /\ Private(plan, i, k))
          /\ Honest(plan, All(a.gives) \cup Rest(plan, i, k + 1), T)
          /\ <<i, a.id>> \notin OneShot =>
               \A j \in 0..(Len(a.gives) - 1) : Honest(plan, First(a.gives, j), T)
=============================================================================
