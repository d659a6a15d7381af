----------------------------- MODULE TableLoad -----------------------------
(***************************************************************************)
(* What a run of ssb-dbgen promises, whichever processes do the work: the  *)
(* tables are built one after the other, every row of a table once and in  *)
(* one file; a table is left behind when it has all its rows, or when a    *)
(* process was lost over it, and is not touched after that.  A run that is *)
(* given up never goes on to another table, but the processes it had may   *)
(* still add rows.                                                         *)
(***************************************************************************)
EXTENDS Integers

CONSTANTS Plans,  \* what may be wanted: the rows of each table
          Files   \* the files that a table may be spread over

VARIABLES wanted,    \* the rows that each table is to have
          built,     \* <<table, file, row>>
          finished,  \* the tables left behind
          damaged,   \* the tables over which a process was lost
          status     \* "loading", "done", "aborted"
vars == <<wanted, built, finished, damaged, status>>

(* The tables are built in the order of their numbers. *)
InWork(t) == t \in DOMAIN wanted \ finished /\ \A u \in DOMAIN wanted \ finished : t <= u
Has(t, r) == \E x \in built : x[1] = t /\ x[3] = r
Complete(t) == \A r \in wanted[t] : Has(t, r)

Init ==
  /\ wanted \in Plans
  /\ built = {} /\ finished = {} /\ damaged = {} /\ status = "loading"

AddRow(t) ==
  /\ InWork(t) /\ status # "done"
  /\ \E f \in Files, r \in wanted[t] : ~Has(t, r) /\ built' = built \cup {<<t, f, r>>}
  /\ UNCHANGED <<wanted, finished, damaged, status>>

LoseProcess(t) ==
  /\ InWork(t) /\ status # "done"
  /\ damaged' = damaged \cup {t}
  /\ UNCHANGED <<wanted, built, finished, status>>

Finish(t) ==
  /\ InWork(t) /\ status = "loading"
  /\ Complete(t) \/ t \in damaged
  /\ finished' = finished \cup {t}
  /\ UNCHANGED <<wanted, built, damaged, status>>

GiveUp(t) ==
  /\ InWork(t) /\ status = "loading"
  /\ status' = "aborted"
  /\ UNCHANGED <<wanted, built, finished, damaged>>

Return ==
  /\ status = "loading" /\ finished = DOMAIN wanted
  /\ status' = "done"
  /\ UNCHANGED <<wanted, built, finished, damaged>>

Next ==
  \/ \E t \in DOMAIN wanted : AddRow(t) \/ LoseProcess(t) \/ Finish(t) \/ GiveUp(t)
  \/ Return

Spec == Init /\ [][Next]_vars
=============================================================================
