# Structor: a TLA+ model of the cluster provisioning and of ssb-dbgen

Structor builds virtual Hadoop clusters: a JSON profile names the machines and
their roles, `vagrant up` creates the machines one after the other and runs
puppet on each, and the puppet classes under `modules/` install, configure and
start the services. The repository also carries a benchmark kit, and in it
`ssb-dbgen`, a C program that generates the tables of the Star Schema Benchmark
in one or many processes. These two are where the repository's own logic is,
and they are what this project models. Paths below are relative to the
repository; `dbgen/` stands for
`modules/benchmetrics/files/ssb/ssb-gen/ssb-dbgen/`.

## 1. Inventory

### Provisioning

| part | state | operations | talks to |
|---|---|---|---|
| `Vagrantfile` | which nodes exist, what became of their last run | `vagrant up`, `vagrant provision`; one puppet run per node in profile order | puppet, by facts (`roles`, `nodes`, `clients`, `security`) |
| `environments/structor/manifests/site.pp` | none | includes a class per role, adds `Class[a] -> Class[b]` edges | the classes |
| `puppet/parser/functions/hasrole.rb` | none | `hasrole`, `islastslave` | site.pp |
| `modules/*/manifests/init.pp` | files, packages, databases, HDFS contents and daemons of the machine, the shared folder `/vagrant` | resources with guards (`creates`, `unless`), ordered by `->`, `require`, `before` | each other through the machine, and other nodes through HDFS, MySQL, the KDC and `/vagrant/generated` |
| templates | none | pick the first node with a role as the host of a service | the daemons |

What is hard here: a command may die half way and leave its own guard true; the
manifest is rerun after that; the order of resources is partly only the order of
the file; a node needs what an earlier node made; `create-kerberos-db` deletes
what other nodes rely on, and `add-remote-root` deletes and remakes the remote
root of the database in every run. What makes it correct: a rerun repairs what an
accident left, success means that everything promised is there, and daemons
start in the promised order.

### ssb-dbgen

| part | state | operations |
|---|---|---|
| `rnd.c`, `speed_seed.c` | the value of each stream | `NextRand`, `NthElement` (jump), `RND_ModMult` |
| `build.c`, `rnd.h`, `rnd.c` | `Seed[]`: value, usage, boundary | `mk_*` draws a row, `row_start`, `row_stop` round to the boundary |
| `bm_utils.c`, `speed_seed.c` | | `set_state` cuts a table and skips the streams (`sd_*`) |
| `build.c`, `permute.c`, `bm_utils.c` | the distributions, one static order | `mk_part`, `mk_supp`, `mk_cust`, `mk_order`, `mk_time`, `mk_date`, `pick_str`, `agg_str`, `read_dist` |
| `print.c`, `load_stub.c`, `bm_utils.c` | the open file of each table, running checksums, the statics of `pr_line` and `pr_drange` | `pr_*`, `vrf_*`, `ld_*`, `print_prep`, `tbl_open` |
| `bcd2.c`, `build.c` | | order keys: `mk_sparse`, `ez_sparse`, `hd_sparse` |
| `driver.c` | options, children, files | `process_options`, `main` (tables, or update pairs with `-U`), `partial`, `pload` (fork and wait), `gen_tbl`, `set_files`, `kill_load` |

What is hard: the arithmetic of the parts when base, scale and children do not
divide; that skipping a part and generating it take the same number of draws
from each stream; that `wait` returns children in any order, dead ones included;
a fork that fails half way; two calendars, and two formulas for one number of
rows; state that outlives a row, a table or a run (the static order, the
checksums, the segment counters, the files of an earlier run); update pairs that
go through the table again. What makes it correct: every row once, no row
missing, the same columns whoever generates the row, every child collected, an
end; foreign keys that join, keys of update pairs that are new, delete files
that name what is there, segments of even size, no file lost unasked.

`PROJECT.json` lists every component, also the ones that are not modelled, and
the hazards at their lines.

## 2. Modules

| module | models |
|---|---|
| `Manifests` | the puppet classes: each is an operator that gives the class's resources |
| `Site` | site.pp and the catalog puppet compiles: classes in evaluation order, dependencies, order of visits |
| `Profiles` | README.md's example and the shipped profiles |
| `Guards` | what a resource establishes step by step, and what its guard says of the facts that hold |
| `Provision` | vagrant and a puppet run over any plan of resources; its properties; the static check `SoundPlan` |
| `Cluster` | `Provision` over the catalogs of `Site`; `BringUpOrder` and the static check `OrderedPlan` |
| `ProvisionProofs` | theorems about `Provision`, and about the order of the daemons in `Cluster` |
| `Rnd` | the generator and its jumps, with the word width as a parameter |
| `RndProofs` | theorems about `Rnd`, and about the digits of `Bcd` |
| `Ssb` | tables, streams, what a row takes and what a skip takes |
| `Dbgen` | main, its children, the files |
| `TableLoad` | what a run promises, without processes: the abstract specification of `Dbgen` |
| `DbgenProofs` | theorems about `Dbgen`, among them that it implements `TableLoad` |
| `Calendar` | `julian`, `mk_time` and `mk_date`: the calendar of the orders and that of the date table |
| `Rows` | what `mk_part`, `mk_supp`, `mk_cust`, `mk_order` may put into a row, with the distributions they pick from |
| `Tables` | a serial run without `-U`: `gen_tbl`, the print, load and verify routines, the files |
| `Update` | a run with `-U`: `main`'s pairs, `gen_tbl` with its segments, `pr_line`, `pr_drange` |
| `Load` | one process, which is one or the other |
| `Keys` | order keys: `mk_sparse`, `ez_sparse`, and the value of `hd_sparse` |
| `Bcd` | keys in decimal digits: `bcd2.c`, `hd_sparse`, the printed key |
| `UpdateProofs`, `LoadProofs` | theorems about update pairs: the invariants of `Update`, and what `Load` inherits from them |
| `CalendarProofs` | the calendars of `mk_time` and `mk_date` agree |
| `TablesProofs` | theorems about the files and the rows of a run through the tables |
| `NatFacts` | induction over a set of numbers, and that a function defined by recursion exists |
| `MCReadme`, `MCProfiles`, `MCRnd`, `MCDbgen`, `MCLoad` | instances for TLC |

### How provisioning is modelled

A resource is a record of facts: `needs` (what its command uses), `bars` (what it
cannot cope with), `unless` and `onlyif` (its guard), `gives` (a sequence of sets:
what it makes, in order), `drops` (what it deletes first) and `deps` (titles ahead
of it). A fact is `<<host, name>>`; host 0 is the shared folder. Resources that
only succeed or fail together, such as the configuration files of a client or
the chain of `hdfs dfs -chown`, are one resource.

`Provision` visits the resources of a node in the order of `Plan[i]`: `Skip` when
a dependency failed, `LeaveAlone` when the guard holds, `Apply`, or `Fail` when
something it needs is missing. `Fault` and `Interrupt` let a command die after a
proper prefix of `gives`; the first lets the puppet run go on, the second ends
the vagrant command. `Compile` fails on a catalog with a missing class, an edge
to a class the node does not have, a template without its host, or a cycle.

External behaviour that the model assumes, because it is not in the repository:
puppet 4 or later (resources in manifest order where dependencies allow, implied
dependencies on parent directories, users and scripts, a failed dependency skips
its dependents, a failed run is reported to vagrant); vagrant takes the machines
one at a time, stops at a failed provisioner and provisions on the first `up`
only; `hadoop fs -put` of a file renames at the end, of a directory does not.
Version- and OS-dependent names are one name.

`OneShotOf` computes the commands that can die so that a guard is true of work
that is not done (kdc-init, namenode-format, create-cert, create-hivedb and
create-druiddb, the database and share of oozie, the sample data, the Tez UI), or so
that secure-mysqld, which cannot be run twice, is run again (add-remote-root and the
marker behind it, in the run that sets the password).
Which commands are in the set is computed from the manifests, not chosen. The
variable `tainted` records that such a command died *and* left a guard that lies.

`FailureExplained` and `OkMeansComplete` exempt behaviours that are tainted. So they
do not catch the accidents of the OneShot commands, which really are not repaired
by a rerun and are listed among the hazards; they say that there is no other
accident, or sequence of accidents, runs and commands, that is not repaired.

`add-remote-root` has no guard: it is applied in every run and first removes what
it makes. It is the one command that takes away a fact of a node that is
provisioned; `OkMeansComplete` and `SoundPlan` cover that it is there again at the
end of the run, and that a run in which it died is reported as failed.

### How dbgen is modelled

A stream is the number of draws it is away from its start; `Rnd` shows that a jump
lands where those draws lead. A row takes from each stream what it draws and what
`row_stop` adds up to the boundary (`RowTakes`); letters of an address and lines
of an order are drawn nondeterministically. `Uncounted` is the draw of `gen_city`,
which names a stream past the table and so draws from stream 0 without being
counted there. Process 0 is main; a child starts with a copy of main's streams,
moved by `set_state`. Generating a row is one step: processes share nothing but
the directory, and each has files of its own. `wait` takes any ended child.
Without `-T` dbgen walks over the tables of TPC-H; the four that SSBM does not
have produce no rows and are left out. A step of 0 or beyond the number of
children is excluded by `OptionsAssumption`. Scales are whole numbers; a
fractional scale changes only `Base`.

`TableLoad` says what a run promises to whoever reads its files, and knows neither
processes nor streams: one table is in work at a time, a row is added that is
wanted and that no file of the table has, a table is left when it is complete or
when a process was lost over it, and never touched again. `Dbgen` implements it
(`LoadsTables`): the rows wanted are those of the table, or of the run's part with
`-S`; the tables left behind are those below main's `tbl`; a table is damaged when a
child died on it. The children that `kill_load` does not reach may still add rows
after main has given up, and `TableLoad` allows for that.

### How rows, files and update pairs are modelled

`Rows` gives, for every `mk_` routine, the set of rows it can build: a draw is
any value of `Probe[stream]` inside the bounds of the code. Texts are members of
the distributions; what `read_dist` makes of their weights is computed, because
the region of a nation is the sum of weights up to it. A date printed as text is
the number it reads as; a brand is the digits of its category and its own. A
priority that is longer than its field is cut where `ship_priority` is written
over it. `localtime` is external: the proleptic rule for 1970 to 2037, at a
constant distance from UTC.

`Tables` builds one row per step. The static order of `gen_tbl` is a variable, so
that the lines of a longer order are still there. A file is its length in bytes
and the rows and bytes that this run has written from its start; a row has any of
the lengths in `Widths`. The LINUX build, which is that of the kit's Makefile,
opens without `O_TRUNC`: bytes take the place of bytes, and a longer file keeps its
end, torn at any place of a row. `stat` of a missing file leaves its result unset,
so that the question of `tbl_open` may come for a file that is not there. A
checksum is the set of columns that went into it.

`Update` keeps the counters of the code: `mode` is `gen_tbl`'s `upd_num`, which
grows by 10000 with every insert segment; `line` and `drange` are the statics of
`pr_line` and `pr_drange`. An entry of an insert file is a key and its row, an
entry of a delete file a range of keys. `set_state` calls `gen_seed` with one
argument; the other is any member of `Garbage`. One step is one row, or one key.

In `Load` a process either generates pairs and exits or goes through the tables.
`Dbgen` is about the processes of a parallel run and keeps only the position of
the streams of a row; `Tables` is about what one process writes.

Keys are made by `mk_sparse` (`Keys`). The build does not define
`SUPPORT_64BITS`, so that from scale 1000 on this is `hd_sparse`, which takes the
low bits of a key from the lowest decimal digit of the row: rows 8 and 10 get the
same key. `Keys` has its value, `Bcd` its arithmetic, with a number as the function
of its digits over two words.

## 3. Runs

| run | question | states |
|---|---|---|
| `readme` | the three nodes of README.md's example, up to 3 commands, 1 accident | 148 844 |
| `profiles` | ten shipped catalogs, secure, HBase, Hive 2, Postgres, Tez UI, up to 2 commands, 1 accident | 339 474 |
| `rnd` | all start values of a 7 bit generator under draws and jumps; digits of keys around the word border | 15 876 |
| `dbgen` | ten command lines, 1 dead child, 1 failed fork | 20 788 |
| `load` | nine command lines for update pairs, nine for tables | 54 216 |
| `loadrollover` | violated: a delete file names keys that were never loaded | |
| `readme_secure` | violated: the example with security does not come up | |
| `profiles_hive2` | violated: the metastore of Hive 2 comes up before the namenode | |
| `dbgen_repro` | violated: order columns of a parallel lineorder repeat in every part | |
| `dbgen_size` | violated: part has another size in parallel than in serial | |
| `dbgen_orphans` | violated: `kill(SIGUSR1, pid)` stops no child | |
| `load_force` | violated: `-f` leaves the end of a longer file behind the table | |

Properties of the passing runs:

* `FailureExplained`: a puppet run goes wrong only when a command dies in it or
  an earlier node is not up; so the first `up` succeeds and a rerun repairs what
  is not tainted.
* `OkMeansComplete`: a node reported as provisioned has everything its catalog
  promises, and keeps it.
* `BringUpOrder`: the pairs of daemons that the comments of site.pp promise and for
  which it has edges. The same comments (lines 294 and 333) speak of "the
  metastore" and "Hive servers" in general; for those of Hive 2 there is no edge to
  the namenode, and `profiles_hive2` shows hdp260 breaking the order (`Hive2Order`).
* `PlanSound`: the catalogs satisfy the premises of the theorems below
  (`SoundPlan`, `OrderedPlan`).
* `Positioned`, `FullPeriod`, `ModMultIsProduct`: jumps equal draws, also
  backwards; the comment of `NextRand` about its period; the split product.
* `UTypeOK`, `TTypeOK`: types, ranges of rows and file numbers; a file never ends
  before what was written to it.
* `FreshKeys`, `SegmentsEven`, `DeletesLoaded`, `StepContinues`, `UpdatesEnd`: an
  inserted key is new; a pair is whole and its files even; a delete file names
  exactly the rows of its pair while the pairs go through the table for the
  first time (`loadrollover` shows what happens afterwards); `-S` continues the
  streams; the run ends.
* `KeysJoin`: the part, supplier, customer and dates of a line are rows of their
  tables, although the code counts each twice, by different formulas.
* `OwnLines`, `PartsDistinct`, `PlacesAgree`: nothing of an earlier order is
  printed; a permutation stays one; city, nation, region and phone code agree.
* `DateJoins`, `DatesFollow`: the two calendars agree on every day, and the
  columns of the date table follow from day to day. Neither says which day of the
  week is the first, nor anything of `lastdayinmonthfl`: see section 5.
* `FilesKept`: no file is written over unasked, and every other file is as it was
  found. That "-f -- force. Overwrite existing files" leaves nothing of the earlier
  file is not true of the code (`load_force`).
* `BcdExact`, `HugeKeys`: digits against numbers; a printed key lies in the block
  of its row and generation. Which of its eight keys it is, is not claimed:
  `hd_sparse` takes it from the lowest decimal digit, and rows 8 and 10 collide.
* `NoRowTwice`, `TableComplete`, `WaitsForAll`, `PartsContinue`, `Ends`: see the
  comments in `Dbgen.tla`.
* `LoadsTables`: main and its children implement `TableLoad`, in all interleavings.

Bounds. One accident suffices to reach every state in which a guard tests
half-done work, and two commands after it show the repair; the theorems remove
the bound. The 7 bit modulus 127 is prime with 3 as a primitive root, as 16807 is
for 2^31 - 1, and the split after 4 bits exercises both carries of `RND_ModMult`.
The tables of `dbgen` have 1 to 5 rows per unit of scale: with 2 to 4 children
that gives an even cut, remainders smaller and larger than the number of
children, parts without rows, and several tables after each other; the theorems
remove these bounds too. Deadlock is not checked where the system really stops:
dbgen returns, and a user need not start vagrant again. Jumps (`Shifts`) are
chosen at 0, around half and at the whole period, and small ones of both signs.
`load`: the date table has all its 2556 rows and the nations are all 25; the draws
of an order are the first and last day it can have, 29 February and a day past
the range, keys at the limits, one line or two. Update pairs have 0 to 20 rows of
a table of 20, in 0 to 7 segments, so that there are even cuts, remainders, more
segments than rows and no rows at all; refresh 10000 and 3333 go through the
table again, at scale 1, where `ez_sparse` makes the keys. Files of an earlier run
are absent or of 3 bytes, and tables take from 2 bytes upwards, so that files stay
longer, are just covered, and grow. `CHECK_DEADLOCK FALSE`: the process ends.

Fairness. `Provision` has none: its properties are safety properties, and that the
walk over nodes and resources ends is no question for these manifests. `Dbgen`: weak fairness of the disjunction of all steps of main and its children,
which is no more than that the operating system runs some process that can run;
failing forks and deaths are not fair. `Load`: weak fairness of the steps of a
running update process; the path through the tables has none, it waits for the
user's answers.

## 4. Proofs

All theorems are checked by TLAPS for every value of the constants.

`ProvisionProofs` (premise: `PlanAssumption`; all but the first also `SoundPlan(Plan)`):
`TypeCorrect`, `FailuresExplained`, `ProvisionedIsComplete`, for any number of nodes,
accidents and commands. `SoundPlan` is a static condition on catalogs: what a
resource needs comes from an earlier node or resource (`NeedsMet`); every completed
command leaves honest guards (`Honest`), and a command that is not OneShot does so
at every point; what a command removes it makes again; what an unguarded command
removes is its own (`Private`: made by no other, tested by no guard, needed by
nothing visited before it). Completed means together with the resources that
follow it: secure-mysqld cannot be run twice once the password is set, and the
marker that keeps it from that comes two resources later. `Follows` says that
nothing but an accident can come between them, `Rest` what is still to come. TLC
evaluates `SoundPlan` on the catalogs (`PlanSound`), which is how the theorems reach
the manifests. The properties are not inductive: that a visited resource did its
work follows only from the facts of all resources visited so far, a guard may be
true of the work of another, and between secure-mysqld and its marker the guards
are honest only if the rest is counted as there. The inductive invariant adds that
every guard is honest of the facts and of that rest, and that what was visited
without failure is there.

`DaemonsInOrder` (premise: `OrderedPlan(Plan)`) has no exception for OneShot
commands. `OrderedPlan` is a second static check of the catalogs, evaluated in
`PlanSound` as well: whatever starts the second daemon of a pair relies on the
first, along a chain of dependencies; the first is left alone only when it runs;
nothing stops it. The order is not inductive: that the first daemon is up follows
only from the resources in between, which did not fail in this run (`ReliedOn`).

`DbgenProofs` (premise: `OptionsAssumption`): `TypeCorrect`,
`EveryChildIsWaitedFor`, `RowsOnce`, `NoRowMissing`, `SameColumns`, for every base,
scale, number of children, deaths and interleaving. The first two rest on
`KidsInv`, which relates the children that are alive to the counter of `pload`.
The two about rows rest on the arithmetic of the parts (`RowsAddUp`,
`PartsInOrder`, `LastPart`, `PartsCover`: the parts follow each other and end at
base * scale) and on an invariant that says how far each process is, what each
file holds and that a table left behind is whole. `SameColumns` needs that a row
takes exactly its boundary from a continued stream whatever it draws
(`TakesBoundary`) and that `gen_seed` skips exactly that (`SkipsBoundary`).

`LoadIsImplemented` is the refinement, `Spec => Load!Spec`, by the mapping in
`Dbgen`: `LoadInit` for the initial states, `LoadStep` with one case per action.
Starting on a table, forking, waiting and exiting are stutters; generating a row,
a death, a failed fork, the end of a table and of the run are the actions of
`TableLoad`. The invariants above say what is written but not what is missing,
and a row must be new: `AheadInv` adds that nothing is written of the tables ahead,
of children that were not forked, or of the rows a process has still to come to;
no other file can have the row because the parts are disjoint (`RowIsNew`). A
table that main leaves is whole by `WaitedComplete` (no child is left, and each
ended with its part written) or `OwnComplete`, which also covers the part of a run
with `-S`, of which `TableComplete` says nothing.

`RndProofs` (premises: `WidthAssumption`, and rnd.c's "nM is prime and nA is a
primitive element" as `PrimeAssumption` and `PrimitiveAssumption`, which hold of
2^31 - 1 and 16807 and which TLC evaluates for 7 bits): `JumpsAreDraws`,
`PeriodIsFull`, `ModMultMultiplies`, for every word width, split and multiplier.
`NextRandIs` is Schrage's argument of the comment in `NextRand`. `ModMultIs` shows
that a * b is p * nM + r after the first carry and that after the second the
result lies in 0..nM, where primality excludes both ends. `SeedIs` shows by
induction over the bits, from the highest down, that the loop of `RND_seed` holds
the power of the bits read so far; a jump back is one forward because the powers
begin again after a period (`PowerWraps`).

`DigitsAreExact` and `HugeKeysInBlock` are about the digits, for every number of
them in a word. They rest on `BcdComputes` (any two numbers whose sum fits) and
`HugeKeyInBlock` (any row and generation whose key fits); `WordsAssumption`, four
times the modulus is less than what the digits hold, makes the values of streams
such numbers (2^33 against 10^14 in the program; TLC evaluates it for 7 bits and
four digits). The number of the first k digits is a function `Sums`, and each loop
has an invariant over k: for `bcd2_add` the digits done and the carry (`CarryStep`),
for `bcd2_mul` the same within a digit of the multiplier and the sum over its digits
(`MulCarry`, `MulAcc`), for `bcd2_div` the digits of the quotient from the highest
down and the remainder (`DivStep`). The powers of ten are a recursive function
`Ten`, so that its equation can be used.

`UpdateProofs` and `LoadProofs` (premises: `UpdateAssumption`, `RowsAssumption`,
`TablesAssumption`): `UpdateTypeCorrect`, `KeysAreNew`, `StepsContinue`,
`SegmentsAreEven`, `DeletesAreLoaded`, of `LoadSpec`. `KeysAreNew` and
`DeletesAreLoaded` have the hypothesis `SmallScales`, that every command has a scale
below 1000: with the keys of `hd_sparse` they are false. `FreshKeys` is not inductive:
that the key of the next row is new depends on where the pair began and on every
row written before. `UInv` adds `PairInv` (the row, the rows left, the generation
and the open file belong to the pair in work, and every entry lies before the
current row) and `KeysInv` (an entry has its row in its pair and the key of its
row, a row has one entry, and a later row is not of an earlier pair). The
arithmetic is in lemmas: where the rows of a pair start and end, that a key
determines its row within the eight keys of a generation, and that keys grow with
rows when the generation does not decrease. `SeedInv` says that every stream has
moved by the rows since the first one; it needs that a row takes its boundary
whatever it draws.

Neither `SegmentsEven` nor `DeletesLoaded` is inductive either: both speak of
files that are complete and say nothing of the one being written, nor of the
counters in `pr_line` and `pr_drange` that decide when the next file begins.
`SegInv` says what the files of every pair hold after k entries (`Placed`: entry j
is in the file of its part), for the finished pairs, the pair in work and the
static counters between them. Its arithmetic is the division of n rows into s
parts with the remainder in front (`PartSize`, `PartStart`, `PartOf`), and that the
counters of the code, which know only the rows left in a segment, follow it.
From there `SegmentsAreEven` counts the entries of a part by a bijection and
`DeletesAreLoaded` compares the two kinds of files row by row.

`TablesProofs` (premises: `RowsAssumption`, `TablesAssumption`): `TablesTypeCorrect`,
`FilesAreKept`, for any tables, scale, options, lengths of rows and earlier files.
`TInv` says which tables are still to be gone through and that none
comes twice (`TodoInv`), that exactly the files opened so far are written over and
by whose leave (`FileInv`), and how many rows each has (`OpenInv`): a file that a run has not come to is kept only because
it was not opened before. `RowInv` says that the row built last is one that its
routine makes for its index. From it follow `LinesAreOwn`, `PartsAreDistinct` (premise
`ColorsAssumption`: the colors of dists.dss differ), `KeysDoJoin` (premises
`DateAssumption`: DATE has a row for every date of an order or a line, and
`ProbeAssumption`: draws are integers), which shows that `live_customer` ends in two
rounds and that the two logarithms by which parts are counted agree,
`DatesJoin`, `DatesDoFollow` and `PlacesDoAgree`. The last has the premise
`NationsAssumption` about dists.dss: brief names and regions differ, and the weight
of a nation is the step from the region of the nation before it to its own.
`WeightIsRegion` shows by induction over the nations that the sums of `read_dist`
are then the numbers of the regions.

`CalendarProofs.CalendarsAgree`: the n-th row of DATE is the n-th day of the calendar
of the orders, by `JulianOf` (the loop of `julian` year by year), `MonthOf` and `LocalOf`
(localtime finds the same year and day). The hypothesis `FirstOfJanuary` is
needed: D_STARTDATE is 06:01:01 UTC, so that in zones more than six hours west of
UTC every row of DATE is the day before; `DatesJoin`, `DatesDoFollow` and `KeysDoJoin`
have it too. TLC checks a zone five hours west.

Induction is over sets (`NatFacts.SetInduction`: a set with 0 and with every
successor has all numbers), because the library's induction theorems take an
operator as a parameter; that a recursive function is what its equation says comes
from `NatFacts.Recursion`, or from a closed form that satisfies the equation.

Only model-checked: the liveness properties `Ends` and `UpdatesEnd`, which need
fairness; `PlanSound`, which is about the concrete catalogs and carries
the theorems to them; the properties of `MCProfiles`, which are those of `Provision`
and `Cluster` for each of ten catalogs.

## 5. Not modelled

* Classes outside the modelled profiles: LLAP, spark, druid, kafka, phoenix,
  ambari, ranger, knox, hue, superset and the demo classes.
* The profiles with `hive-meta` and `hive2` (hdp250, hdp253, llap): `hive_meta`
  does not wait for `hive2`, so an accident in the package hive2 leaves a database
  with the schema of Hive 1, over which the rerun initialises that of Hive 2. What
  becomes of it is decided by two `schematool` programs outside the repository.
* A virtual machine that stops or reboots, or is destroyed and made again: the
  daemons of a node stay up in `have` once they run. `Interrupt` stops puppet and
  vagrant, not the machine.
* The contents of configuration files, and what daemons do once they run.
* Of dbgen: qgen, varsub and text.c (its README says that there is no QGEN for
  SSBM, and the tables of SSBM have no comments); the branches for TPC-H, DOS and
  MVS; scales below 1, which scale the date table as well; named pipes as
  destinations; the layout of a printed row; the header stubs; an update file that
  cannot be opened (`pr_drange` returns -1, which driver.c:1046 ignores; an insert
  file that fails is not looked at).
* Daylight saving time: `localtime` has one distance from UTC for all days.
* Disagreements that are modelled as the code has them and that no run shows:
  README.md:75 names a role hbase-regionmaster, which site.pp does not know (it
  includes hbase_regionserver for hbase-regionserver, line 137) and ignores; the
  README of ssb-dbgen (57-58) gives `dbgen -s 1 -T a` "for all SSBM tables", which
  leaves out the date table because `-T a` adds it only after `-S 1` (driver.c:754);
  build.c:692 says "make Sunday be the first day of a week", but day 1 is a
  Saturday and gets the name Sunday; `lastdayinmonthfl` is "0" on the last day of a
  month and "1" on the others (build.c:717-721); `vrf_supp` adds most columns of a
  supplier to the checksum of the customers (print.c:923).
* Undefined behaviour next to modelled code: `dss_random` counts a stream number
  past `MAX_STREAM` in memory behind `Seed[]`; `kill_load` reads `pids` that were
  never set. Neither influences the modelled state.
* The start scripts, the benchmark scripts and yarnlocaltop (planned below); queries
  and dashboards, which are data.

## 6. Plan

1. Done: the provisioning engine, the classes of the non-LLAP profiles, site.pp,
   the generator, the parallel driver; the theorems above.
2. Done: the update path of dbgen, the rows and files of a serial run, keys in
   decimal digits; the theorems about update pairs.
3. Interference of tables in one run (streams shared by supplier and customer).
4. Done: hive2, its metastore and server, slider, and the profile hdp260. Left:
   LLAP, spark, the profiles with both versions of Hive; the druid profile, which
   does not compile.
5. The start scripts (`files/init.d`, the scripts under `modules/*/files`) and
   the systemd units: pid files that outlive their process, start over a running
   daemon, stop that times out, restart.
6. `GenTable.java`, which runs dbgen with `-C` and `-S` in map tasks that may be
   retried, composed with `Dbgen`; the polling loops of the benchmark scripts.
7. yarnlocaltop: attach, update and lost connections of `VMInfo` and
   `ProxyClient`, with the snapshot cache that is flushed between updates.
8. Done: the theorems about segments, files, rows, calendars, the
   generator, decimal digits and the order of the daemons; the refinement of
   `TableLoad` by `Dbgen`. Next: that the catalogs of `Site` pass the static checks
   by the shape of its edges.
