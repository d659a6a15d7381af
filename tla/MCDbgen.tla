------------------------------ MODULE MCDbgen ------------------------------
(* Tables of a few rows and the ways to build them: alone, in parallel     *)
(* with a remainder for the last child, with more children than rows, and  *)
(* one step of a parallel load.                                            *)
EXTENDS Dbgen

Table(t) == IF t = PART THEN 2 ELSE IF t = SUPP THEN 1 ELSE IF t = CUST THEN 5 ELSE IF t = DATE THEN 3 ELSE 4
MCBase == [t \in Tables |-> Table(t)]

Command(children, step, scale, T) ==
  [children |-> children, step |-> step, scale |-> scale, T |-> T, late |-> FALSE]
Late(o) == [o EXCEPT !.late = TRUE]

MCCommandLines ==
  {Command(1, 1, 3, "a"), Command(1, -1, 1, "l"), Late(Command(3, 2, 2, "d")),
   Command(3, -1, 2, "a"), Command(3, -1, 2, "d"), Command(4, -1, 1, "p"), Command(2, -1, 2, "none"),
   Command(3, 2, 2, "l"), Command(3, 3, 2, "c"), Command(2, 1, 3, "a")}

(* The commands that the documents speak of. *)
ParallelLine == {Command(2, -1, 1, "l")}
ParallelPart == {Command(2, -1, 3, "p")}
=============================================================================
