------------------------------- MODULE Dbgen -------------------------------
(***************************************************************************)
(* ssb-dbgen: main walks over the tables asked for and generates each of   *)
(* them in its own process (one child, or one step with -S) or in children *)
(* that it forks and waits for (-C).  Process 0 is main; a child has a     *)
(* copy of main's streams.  A row is generated in one step: nothing of it  *)
(* is shared between processes.                                            *)
(***************************************************************************)
EXTENDS Ssb, FiniteSets

CONSTANTS Base,          \* Base[t]: tdefs[t].base
          CommandLines,  \* -C children, -S step (-1 without), -s scale, -T table ("none" without)
                         \* and whether -S comes late, after -T
          MaxDeaths,     \* bound: how many children die
          MaxForkFails   \* bound: how many forks fail

ASSUME OptionsAssumption ==
  /\ Base \in [Tables -> Nat \ {0}]
  /\ CommandLines \subseteq [children : Nat \ {0}, step : Int, scale : Nat \ {0},
                            T : {"c", "p", "s", "d", "l", "a", "none"}, late : BOOLEAN]
  /\ \A o \in CommandLines : o.step = -1 \/ o.step \in 1..o.children
  /\ MaxDeaths \in Nat /\ MaxForkFails \in {0, 1}

VARIABLES opt,      \* the options, with the tables asked for
          phase,    \* main: "tables", "rows" of its own, "fork", "wait", "done", "aborted"
          tbl,      \* main's table
          c,        \* the loop counter of pload
          kid,      \* the children: "none", "running", "zombie"
          row,      \* the row each process generates next
          left,     \* the rows it still has to generate
          seeds,    \* the streams of each process
          written,  \* <<table, file, row>>: file 0 is <table>.tbl, file s is <table>.tbl.s
          deaths,   \* history: the <<table, child>> that died
          signalled \* the children that kill_load's signal reached

vars == <<opt, phase, tbl, c, kid, row, left, seeds, written, deaths, signalled>>

Kids == 1..opt.children
Procs == 0..opt.children

-----------------------------------------------------------------------------
(* process_options: the options are read from left to right, and `-T a`    *)
(* looks at the step read so far.  Without -T the tables are those of      *)
(* TPC-H, of which SSBM has two.                                           *)

Named(T, step) ==
  CASE T = "c" -> {CUST}
    [] T = "p" -> {PART}
    [] T = "s" -> {SUPP}
    [] T = "d" -> {DATE}
    [] T = "l" -> {LINE}
    [] T = "a" -> {CUST, PART, SUPP, LINE} \cup (IF step = 1 THEN {DATE} ELSE {})
    [] OTHER -> {CUST, SUPP}

AskedFor(o) ==
  IF ~o.late THEN Named(o.T, o.step)
  ELSE Named(o.T, -1) \ (IF o.step > 1 THEN {DATE} ELSE {})

process_options(o) ==
  [children |-> o.children, step |-> o.step, scale |-> o.scale, asked |-> AskedFor(o)]

-----------------------------------------------------------------------------
(* set_state: the rows of a child, and the remainder for the last one. *)

rowcount_of(t, o) ==
  (Base[t] \div o.children) * o.scale + ((Base[t] % o.children) * o.scale) \div o.children
extra_rows(t, o) == ((Base[t] % o.children) * o.scale) % o.children

(* The streams, past the rows of the steps before. *)
set_state(t, o, s, from) ==
  [x \in Stream |-> from[x] + (s - 1) * rowcount_of(t, o) * gen_seed(t)[x]]

(* partial: where the s-th part of a table starts and how long it is. *)
part_start_no_remainder(t, o, s) == (Base[t] \div o.children) * o.scale * (s - 1) + 1
part_start(t, o, s) == rowcount_of(t, o) * (s - 1) + 1
part_count_equal(t, o, s) == rowcount_of(t, o)
part_count(t, o, s) ==
  IF s = o.children THEN rowcount_of(t, o) + extra_rows(t, o) ELSE rowcount_of(t, o)

(* floor(log2(n)): the powers of two above 1 that n reaches. *)
Log2(n) == Cardinality({k \in 1..n : 2^k <= n})

(* The rows of a table that main generates alone. *)
serial_rows(t, o) == CASE t = PART -> Base[t] * (1 + Log2(o.scale))
                       [] t = DATE -> Base[t]
                       [] OTHER -> Base[t] * o.scale

(* config.h: KILL(pid) is kill(SIGUSR1, pid), and kill takes the process   *)
(* first: the signal number of SIGUSR1 is taken for the process.           *)
SIGUSR1 == 10
Pid(k) == 1000 + k
kill_load == {k \in Kids : kid[k] # "none" /\ SIGUSR1 = Pid(k)}

-----------------------------------------------------------------------------
Init ==
  /\ \E o \in CommandLines : opt = process_options(o)
  /\ phase = "tables" /\ tbl = PART /\ c = 0
  /\ kid = [k \in Kids |-> "none"]
  /\ row = [p \in Procs |-> 0] /\ left = [p \in Procs |-> 0]
  /\ seeds = [p \in Procs |-> [s \in Stream |-> 0]]
  /\ written = {} /\ deaths = {} /\ signalled = {}

(* The next table that was asked for. *)
Ahead == {t \in opt.asked : t >= tbl}
IsNext(t) == t \in Ahead /\ \A u \in Ahead : t <= u

(* children == 1: gen_tbl over the whole table. *)
Serial ==
  /\ phase = "tables" /\ opt.children = 1
  /\ \E t \in Tables :
       /\ IsNext(t) /\ tbl' = t
       /\ row' = [row EXCEPT ![0] = 1] /\ left' = [left EXCEPT ![0] = serial_rows(t, opt)]
  /\ phase' = "rows"
  /\ UNCHANGED <<opt, c, kid, seeds, written, deaths, signalled>>

(* children > 1 with -S: partial, in main's own process. *)
Partial ==
  /\ phase = "tables" /\ opt.children > 1 /\ opt.step >= 0
  /\ \E t \in Tables :
       /\ IsNext(t) /\ tbl' = t
       /\ row' = [row EXCEPT ![0] = part_start(t, opt, opt.step)]
       /\ left' = [left EXCEPT ![0] = part_count(t, opt, opt.step)]
       /\ seeds' = [seeds EXCEPT ![0] = set_state(t, opt, opt.step, seeds[0])]
  /\ phase' = "rows"
  /\ UNCHANGED <<opt, c, kid, written, deaths, signalled>>

(* children > 1 without -S: pload. *)
Pload ==
  /\ phase = "tables" /\ opt.children > 1 /\ opt.step < 0
  /\ \E t \in Tables : IsNext(t) /\ tbl' = t
  /\ phase' = "fork" /\ c' = 0
  /\ UNCHANGED <<opt, kid, row, left, seeds, written, deaths, signalled>>

Return ==
  /\ phase = "tables" /\ Ahead = {}
  /\ phase' = "done"
  /\ UNCHANGED <<opt, tbl, c, kid, row, left, seeds, written, deaths, signalled>>

-----------------------------------------------------------------------------
(* pload *)

Fork_too_many ==
  /\ phase = "fork" /\ c <= opt.children
  /\ kid' = [k \in Kids |-> IF k = c + 1 THEN "running" ELSE kid[k]] /\ c' = c + 1
  /\ UNCHANGED <<opt, phase, tbl, row, left, seeds, written, deaths, signalled>>

(* The child c + 1 starts on its part. *)
Fork ==
  /\ phase = "fork" /\ c < opt.children
  /\ LET s == c + 1 IN
       /\ kid' = [kid EXCEPT ![s] = "running"]
       /\ row' = [row EXCEPT ![s] = part_start(tbl, opt, s)]
       /\ left' = [left EXCEPT ![s] = part_count(tbl, opt, s)]
       /\ seeds' = [seeds EXCEPT ![s] = set_state(tbl, opt, s, seeds[0])]
  /\ c' = c + 1
  /\ UNCHANGED <<opt, phase, tbl, written, deaths, signalled>>

ForkFails_waits ==
  /\ phase = "fork" /\ c < opt.children /\ MaxForkFails > 0
  /\ signalled' = signalled \cup kill_load
  /\ phase' = "wait"
  /\ UNCHANGED <<opt, tbl, c, kid, row, left, seeds, written, deaths>>

(* "Child loader not created": kill_load, and main gives up. *)
ForkFails ==
  /\ phase = "fork" /\ c < opt.children /\ MaxForkFails > 0
  /\ signalled' = signalled \cup kill_load
  /\ phase' = "aborted"
  /\ UNCHANGED <<opt, tbl, c, kid, row, left, seeds, written, deaths>>

AllForked ==
  /\ phase = "fork" /\ c = opt.children
  /\ phase' = "wait"
  /\ UNCHANGED <<opt, tbl, c, kid, row, left, seeds, written, deaths, signalled>>

Wait_normal_exit ==
  /\ phase = "wait" /\ c > 0
  /\ \E k \in Kids : kid[k] = "zombie" /\ <<tbl, k>> \notin deaths /\ kid' = [kid EXCEPT ![k] = "none"]
  /\ c' = c - 1
  /\ UNCHANGED <<opt, phase, tbl, row, left, seeds, written, deaths, signalled>>

(* WAIT(res, pid) is wait(res): any child that has ended, whatever became  *)
(* of it, counts for one.                                                  *)
Wait ==
  /\ phase = "wait" /\ c > 0
  /\ \E k \in Kids : kid[k] = "zombie" /\ kid' = [kid EXCEPT ![k] = "none"]
  /\ c' = c - 1
  /\ UNCHANGED <<opt, phase, tbl, row, left, seeds, written, deaths, signalled>>

Waited_one_left ==
  /\ phase = "wait" /\ c <= 1
  /\ phase' = "tables" /\ tbl' = tbl + 1
  /\ UNCHANGED <<opt, c, kid, row, left, seeds, written, deaths, signalled>>

Waited ==
  /\ phase = "wait" /\ c = 0
  /\ phase' = "tables" /\ tbl' = tbl + 1
  /\ UNCHANGED <<opt, c, kid, row, left, seeds, written, deaths, signalled>>

-----------------------------------------------------------------------------
(* gen_tbl *)

Generates(p) == IF p = 0 THEN phase = "rows" ELSE kid[p] = "running"
FileOf(p, o) == IF p > 0 THEN p ELSE IF o.children = 1 THEN 0 ELSE o.step

(* row_start, mk_*, the loader, row_stop. *)
GenRow(p) ==
  /\ Generates(p) /\ left[p] > 0
  /\ \E usage \in Draws(tbl) :
       seeds' = [seeds EXCEPT ![p] = [s \in Stream |-> @[s] + RowTakes(tbl, usage, s)]]
  /\ written' = written \cup {<<tbl, FileOf(p, opt), row[p]>>}
  /\ row' = [row EXCEPT ![p] = @ + 1] /\ left' = [left EXCEPT ![p] = @ - 1]
  /\ UNCHANGED <<opt, phase, tbl, c, kid, deaths, signalled>>

TableDone ==
  /\ phase = "rows" /\ left[0] = 0
  /\ phase' = "tables" /\ tbl' = tbl + 1
  /\ UNCHANGED <<opt, c, kid, row, left, seeds, written, deaths, signalled>>

(* exit(0) *)
KidExits(k) ==
  /\ kid[k] = "running" /\ left[k] = 0
  /\ kid' = [kid EXCEPT ![k] = "zombie"]
  /\ UNCHANGED <<opt, phase, tbl, c, row, left, seeds, written, deaths, signalled>>

(* A full disk, a file that cannot be opened, a signal. *)
KidDies(k) ==
  /\ kid[k] = "running" /\ Cardinality(deaths) < MaxDeaths
  /\ kid' = [kid EXCEPT ![k] = "zombie"]
  /\ deaths' = deaths \cup {<<tbl, k>>}
  /\ UNCHANGED <<opt, phase, tbl, c, row, left, seeds, written, signalled>>

Next ==
  \/ Serial \/ Partial \/ Pload \/ Return
  \/ Fork \/ ForkFails \/ AllForked \/ Wait \/ Waited \/ TableDone
  \/ \E p \in Procs : GenRow(p)
  \/ \E k \in Kids : KidExits(k) \/ KidDies(k)

(* The scheduler runs main and the children as long as one of them has     *)
(* something to do.  Nothing has to die, and no fork has to fail.          *)
Progress ==
  \/ Serial \/ Partial \/ Pload \/ Return
  \/ Fork \/ AllForked \/ Wait \/ Waited \/ TableDone
  \/ \E p \in Procs : GenRow(p)
  \/ \E k \in Kids : KidExits(k)

Spec == Init /\ [][Next]_vars
FairSpec == Spec /\ WF_vars(Progress)

-----------------------------------------------------------------------------
(* Properties. *)

(* The types, and that pload's counter stays within the children and main  *)
(* works only on tables that were asked for.                               *)
TypeOK ==
  /\ opt \in {process_options(o) : o \in CommandLines}
  /\ phase \in {"tables", "rows", "fork", "wait", "done", "aborted"}
  /\ tbl \in 0..(LINE + 1)
  /\ phase \in {"rows", "fork", "wait", "aborted"} => tbl \in opt.asked
  /\ c \in 0..opt.children
  /\ kid \in [Kids -> {"none", "running", "zombie"}]
  /\ row \in [Procs -> Nat] /\ left \in [Procs -> Nat]
  /\ seeds \in [Procs -> [Stream -> Int]]
  /\ written \subseteq Tables \X Nat \X Nat
  /\ deaths \subseteq Tables \X Kids
  /\ signalled \subseteq Kids

(* No two of the processes that build a table generate the same row: the   *)
(* parts that set_state and partial cut do not overlap, whatever base,     *)
(* scale and number of children leave over.                                *)
NoRowTwice == \A x, y \in written : (x[1] = y[1] /\ x[3] = y[3]) => x[2] = y[2]

RowsOf(t) == {x[3] : x \in {y \in written : y[1] = t}}
AllRows(t) == 1..(IF opt.children = 1 THEN serial_rows(t, opt) ELSE Base[t] * opt.scale)

(* When main goes on to the next table, or returns, every row of the table *)
(* is there, unless a child died: wait() has returned for each child, and  *)
(* the parts add up to the table.                                          *)
TableComplete ==
  \A t \in opt.asked :
    (phase # "aborted" /\ t < tbl /\ opt.step < 0 /\ \A k \in Kids : <<t, k>> \notin deaths)
      => RowsOf(t) = AllRows(t)

(* pload waits exactly for the children that are still to be collected: it *)
(* neither hangs in wait() nor leaves a child behind for the next table.   *)
WaitsForAll ==
  /\ phase = "wait" => Cardinality({k \in Kids : kid[k] # "none"}) = c
  /\ phase \in {"tables", "rows", "done"} => \A k \in Kids : kid[k] = "none"

(* The columns whose streams gen_seed skips in step with row_stop. *)
Continued(t) == CASE t = PART -> PartStreams \ {"P_MFG"}
                  [] t = SUPP -> {"S_ADDR", "S_NTRG"}
                  [] t = CUST -> CustStreams
                  [] t = LINE -> LineStreams \cup {"O_ODATE", "O_LCNT"}
                  [] OTHER -> {}

(* A process that has generated nothing but this table. *)
Fresh(p) == p # 0 \/ opt.asked = {tbl}

(* Whichever process comes to row r of a table, those columns have the     *)
(* values of row r in a serial run: the streams stand r - 1 boundaries     *)
(* after their start, however many lines or letters the rows before drew.  *)
PartsContinue ==
  \A p \in Procs : (Generates(p) /\ left[p] > 0 /\ Fresh(p)) =>
    \A s \in Continued(tbl) : seeds[p][s] = (row[p] - 1) * Boundary(s)

(* The rows of table t that a command is to make: with -S those of its     *)
(* part.                                                                   *)
Wanted(t, o) ==
  IF o.children = 1 THEN 1..serial_rows(t, o)
  ELSE IF o.step < 0 THEN 1..(Base[t] * o.scale)
  ELSE part_start(t, o, o.step)..(part_start(t, o, o.step) + part_count(t, o, o.step) - 1)
PlanOf(o) == [t \in o.asked |-> Wanted(t, o)]

Load == INSTANCE TableLoad WITH
  Plans <- {PlanOf(process_options(o)) : o \in CommandLines},
  Files <- UNION {0..o.children : o \in CommandLines},
  wanted <- PlanOf(opt), built <- written,
  finished <- {t \in opt.asked : t < tbl},
  damaged <- {x[1] : x \in deaths},
  status <- IF phase \in {"done", "aborted"} THEN phase ELSE "loading"

(* main and its children implement TableLoad: however they interleave, die *)
(* or fail to be forked, every row that is generated is one of the table   *)
(* in work that no file has yet, and main goes on only from a table that   *)
(* is complete or has lost a child, even with -S, where the run's part is  *)
(* what is wanted.                                                         *)
LoadsTables == Load!Spec

(* Every run ends: main does not wait for a child that does not come. *)
Ends == <>(phase \in {"done", "aborted"})

-----------------------------------------------------------------------------
(* What the comments and documents say and the code does not do. *)

Drawn(t) == {s \in Stream : \E u \in Draws(t) : u[s] + Uncounted(t)[s] > 0}
SerialTakes(t, s) == RowTakes(t, CHOOSE u \in Draws(t) : TRUE, s)

(* rnd.h: "assure reproducible multi-stream runs ... always round-up to a  *)
(* known per-row boundary": whichever process generates row r of a table,  *)
(* every stream it draws from stands where it does in a serial run.        *)
Reproducible ==
  \A p \in Procs : (Generates(p) /\ left[p] > 0 /\ Fresh(p)) =>
    \A s \in Drawn(tbl) : seeds[p][s] = (row[p] - 1) * SerialTakes(tbl, s)

(* BUGS, problem 2, closed: the number of processes does not change the    *)
(* data set: a parallel load has as many rows as a serial one.             *)
SameSize ==
  (phase = "done" /\ deaths = {} /\ opt.step < 0) =>
    \A t \in opt.asked : RowsOf(t) = 1..serial_rows(t, opt)

(* config.h: KILL(pid) is "how to terminate a process in a parallel load": *)
(* when main has given up, the signal is on its way to every child.        *)
NoOrphans == phase = "aborted" => \A k \in Kids : kid[k] = "running" => k \in signalled
=============================================================================
