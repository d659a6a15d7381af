------------------------------- MODULE Guards -------------------------------
(***************************************************************************)
(* What a resource establishes, step by step, and what its guard says of   *)
(* the facts H that hold.                                                  *)
(***************************************************************************)
EXTENDS Naturals, Sequences

(* A command establishes s[1], then s[2], ...: sets of facts. *)
First(s, j) == UNION {s[k] : k \in 1..j}
All(s) == First(s, Len(s))

(* A resource that is certain to be applied or in place when it is visited. *)
Sure(r) == r.onlyif = {}

(* What a command removes when it is run and what it cannot cope with; an  *)
(* unguarded command removes its own work to make it again.                *)
Clashes(r) == r.bars \cup (IF r.unless = {} THEN {} ELSE r.drops)

(* No guard of the resources rs is true of work that is not done, and no   *)
(* guard lets a command run into what it clashes with.                     *)
Truthful(rs, H) ==
  \A r \in rs :
    /\ r.unless \cap H # {} => All(r.gives) \subseteq H
    /\ Clashes(r) \cap H # {} => r.unless \cap H # {}
=============================================================================
