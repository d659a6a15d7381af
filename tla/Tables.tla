------------------------------- MODULE Tables -------------------------------
(***************************************************************************)
(* ssb-dbgen in one process and without -U: main goes through the tables   *)
(* that were asked for, and gen_tbl builds each row, and verifies, loads   *)
(* or prints it.  Of a file its length is kept, and how many rows and      *)
(* bytes this run has written from its start.                              *)
(***************************************************************************)
EXTENDS Rows

CONSTANTS Options,  \* the command lines: tables, scale, -f, -O f, -O v, -O s, -D, and the build
          HomeRegion, \* the region that a nation lies in
          Widths,   \* the bytes that a printed row of a table may take
          Earlier   \* the lengths of the files that an earlier run may have left, -1 for none

Traversal == <<"part", "supplier", "customer", "date", "lineorder">>
Tables == {Traversal[k] : k \in DOMAIN Traversal}
Names == {"default", "entered"}
TableFiles == Tables \X Names

ASSUME TablesAssumption ==
  /\ Options \subseteq [tables : SUBSET Tables, scale : 1..MaxScale,
                        force : BOOLEAN, fnames : BOOLEAN, validate : BOOLEAN, set_seeds : BOOLEAN,
                        direct : BOOLEAN, LINUX : BOOLEAN]
  /\ Widths \in [Tables -> SUBSET (Nat \ {0})]
  /\ Earlier \subseteq [TableFiles -> Nat \cup {-1}]

(* DATE has a row for every date that an order or a line may have, and no  *)
(* more than there are dates (2556 rows, dates up to day 2496 of 2557): so *)
(* at scale 1 and more; below it dbgen scales this table as well.          *)
ASSUME DateAssumption == O_ODATE_MAX - STARTDATE + L_CDTE_MAX < base["date"] /\ base["date"] <= TOTDATE

(* Nation k lies in region r, counted from 0. *)
LiesIn(k, r) == /\ r \in 0..(Len(Dists["regions"]) - 1)
                /\ Dists["regions"][r + 1].text = HomeRegion[Dists["nations"][k].text]

(* dists.dss: there are no more nations than codes, their brief names and  *)
(* the names of the regions are different, and the weight of a nation is   *)
(* the step from the region of the one before it to its own.               *)
ASSUME NationsAssumption ==
  LET nations == Dists["nations"]
      regions == Dists["regions"]
  IN /\ DOMAIN nations = 1..Len(nations) /\ Len(nations) \in 1..NATIONS_MAX
     /\ DOMAIN regions = 1..Len(regions) /\ Len(regions) \in Nat
     /\ \A j, k \in DOMAIN nations : Brief[nations[j].text] = Brief[nations[k].text] => j = k
     /\ \A j, k \in DOMAIN regions : regions[j].text = regions[k].text => j = k
     /\ \A k \in DOMAIN nations :
          /\ nations[k].weight \in Int
          /\ \E r \in 0..(Len(regions) - 1) :
               LiesIn(k, r) /\ (IF k = 1 THEN r = nations[k].weight ELSE LiesIn(k - 1, r - nations[k].weight))

VARIABLES opt,       \* the options, and the files found
          phase,     \* "idle", "names", "tables", "done", "declined", "failed"
          todo,      \* the tables to go through, the one in work first
          at,        \* gen_tbl's i
          o,         \* gen_tbl's static order
          row,       \* the row that was built last, and what was printed of it
          name,      \* tdefs[].name
          fp,        \* the tables whose print routine has opened its file
          file,      \* the rows and the bytes written to a file, and its length, or -1
          agreed,    \* the files whose overwriting the user agreed to
          vtotal,    \* the columns that went into a checksum
          printed    \* the checksums

tvars == <<opt, phase, todo, at, o, row, name, fp, file, agreed, vtotal, printed>>

-----------------------------------------------------------------------------
(* floor(log(scale) / log(2)) *)
powers_of_2 ==
  <<2, 4, 8, 16, 32, 64, 128, 256, 512, 1024, 2048, 4096, 8192, 16384, 32768, 65536, 131072, 262144,
    524288, 1048576, 2097152, 4194304, 8388608, 16777216, 33554432, 67108864, 134217728, 268435456,
    536870912, 1073741824>>
Lb(scale) == Cardinality({k \in DOMAIN powers_of_2 : powers_of_2[k] <= scale})

(* main's rowcnt. *)
rows_of(t, scale) ==
  CASE t = "part" -> base[t] * (1 + Lb(scale))
    [] t = "date" -> base[t]
    [] OTHER -> base[t] * scale

NoRow == [table |-> "none", index |-> 0, built |-> <<>>, lines |-> <<>>]
NoLine == [okey |-> 0, linenumber |-> 0, line |-> <<>>]
NoOrder == [okey |-> 0, custkey |-> 0, odate |-> 0, opriority |-> <<>>, lines |-> 0, totalprice |-> 0,
            lineorders |-> [n \in 1..MaxLines |-> NoLine]]

-----------------------------------------------------------------------------
(* Files. *)

Dest(t) == <<t, name[t]>>
Found(f) == file[f].size >= 0

(* tbl_open: without -f it asks before it writes over a file; stat() of a  *)
(* file that is not there leaves fstats as it was, and it may ask as well. *)
Asks_never(t) == {FALSE}
Asks(t) == IF opt.force THEN {FALSE} ELSE IF Found(Dest(t)) THEN {TRUE} ELSE BOOLEAN

(* On LINUX open() has no O_TRUNC, and fdopen() does not empty a file.     *)
Opened(f) == [fresh |-> 0, written |-> 0, size |-> IF opt.LINUX /\ Found(f) THEN file[f].size ELSE 0]

Longer(a, b) == IF a > b THEN a ELSE b
Appended_inside(f, bytes) == [fresh |-> f.fresh + 1, written |-> f.written + bytes, size |-> f.size]
(* The bytes of a row take the place of the bytes that were there, and the *)
(* file grows with what is written past its end.                           *)
Appended(f, bytes) ==
  [fresh |-> f.fresh + 1, written |-> f.written + bytes, size |-> Longer(f.size, f.written + bytes)]

Prints == ~opt.set_seeds /\ ~opt.validate /\ ~opt.direct
Opens(t) == Prints /\ t \notin fp

-----------------------------------------------------------------------------
(* The checksums: which columns of which table each routine adds to which  *)
(* total.                                                                  *)
Adds(t, columns, to) == {<<to, <<t, c>>>> : c \in columns}
vrf_cust == Adds("customer", {"custkey", "name", "address", "city", "nation_name", "region_name", "phone",
                              "mktsegment"}, "customer")
vrf_line == Adds("lineorder", {"okey", "linenumber", "custkey", "partkey", "suppkey", "orderdate", "opriority",
                               "ship_priority", "quantity", "extended_price", "order_totalprice", "discount",
                               "revenue", "supp_cost", "tax", "commit_date", "shipmode"}, "lineorder")
vrf_part == Adds("part", {"partkey", "name", "mfgr", "brand", "type", "size", "container", "category"}, "part")
(* Most columns of a supplier go to the total of the customers. *)
vrf_supp == Adds("supplier", {"suppkey", "name"}, "supplier")
            \cup Adds("supplier", {"address", "nation_key", "nation_name", "region_key", "region_name", "phone"},
                      "customer")
vrf_date == Adds("date", {"datekey", "date", "dayofweek", "month", "year", "yearmonthnum", "yearmonth",
                          "daynuminweek", "daynuminmonth", "daynuminyear", "monthnuminyear", "weeknuminyear",
                          "sellingseason", "lastdayinweekfl", "lastdayinmonthfl", "weekdayfl"}, "date")
verify(t) ==
  CASE t = "part" -> vrf_part [] t = "supplier" -> vrf_supp [] t = "customer" -> vrf_cust
    [] t = "date" -> vrf_date [] t = "lineorder" -> vrf_line

-----------------------------------------------------------------------------
(* A print routine opens its file for its first row, and writes the row. *)
WritesRow(t) ==
  /\ \E asks \in IF Opens(t) THEN Asks(t) ELSE {FALSE} : agreed' = IF asks THEN agreed \cup {Dest(t)} ELSE agreed
  /\ fp' = fp \cup {t}
  /\ \E bytes \in Widths[t] :
       file' = [file EXCEPT ![Dest(t)] = Appended(IF Opens(t) THEN Opened(Dest(t)) ELSE @, bytes)]
pr_part == WritesRow("part")
pr_supp == WritesRow("supplier")
pr_cust == WritesRow("customer")
pr_date == WritesRow("date")
pr_lineorder == WritesRow("lineorder")

(* -D: the routines of load_stub.c only say that they are not there. *)
ld == UNCHANGED <<agreed, fp, file>>

loader(t) ==
  IF opt.direct THEN ld
  ELSE CASE t = "part" -> pr_part [] t = "supplier" -> pr_supp [] t = "customer" -> pr_cust
         [] t = "date" -> pr_date [] t = "lineorder" -> pr_lineorder

(* gen_tbl's round for a row `r' of table t; `lines' is what pr_line makes *)
(* of an order.                                                            *)
Round(t, r, lines) ==
  /\ row' = [table |-> t, index |-> at, built |-> r, lines |-> lines]
  /\ at' = at + 1
  /\ vtotal' = IF opt.validate /\ ~opt.set_seeds THEN vtotal \cup verify(t) ELSE vtotal
  /\ IF opt.set_seeds \/ opt.validate THEN UNCHANGED <<agreed, fp, file>> ELSE loader(t)
  /\ UNCHANGED <<opt, phase, todo, name, printed>>

InTable(t) == phase = "tables" /\ todo # <<>> /\ Head(todo) = t /\ at <= rows_of(t, opt.scale)

PartRow == InTable("part") /\ \E p \in mk_part(at) : Round("part", p, <<>>) /\ UNCHANGED o
SuppRow == InTable("supplier") /\ \E s \in mk_supp(at) : Round("supplier", s, <<>>) /\ UNCHANGED o
CustRow == InTable("customer") /\ \E c \in mk_cust(at) : Round("customer", c, <<>>) /\ UNCHANGED o
DateRow == InTable("date") /\ Round("date", mk_date(at), <<>>) /\ UNCHANGED o

pr_line_all(order) == order.lineorders
(* pr_line prints the lines of the order, and not those behind them. *)
pr_line(order) == SubSeq(order.lineorders, 1, order.lines)

LineRow ==
  /\ InTable("lineorder")
  /\ \E next \in mk_order(at, o, opt.scale) :
       o' = next /\ Round("lineorder", next, pr_line(next))

(* The answer to tbl_open's question is no: exit(0). *)
Decline ==
  /\ phase = "tables" /\ todo # <<>> /\ InTable(Head(todo))
  /\ Opens(Head(todo)) /\ TRUE \in Asks(Head(todo))
  /\ phase' = "declined"
  /\ UNCHANGED <<opt, todo, at, o, row, name, fp, file, agreed, vtotal, printed>>

(* OPEN_CHECK: the file cannot be opened. *)
OpenFails ==
  /\ phase = "tables" /\ todo # <<>> /\ InTable(Head(todo)) /\ Opens(Head(todo))
  /\ phase' = "failed"
  /\ UNCHANGED <<opt, todo, at, o, row, name, fp, file, agreed, vtotal, printed>>

(* The table is complete; -O v prints its checksum. *)
TableDone ==
  /\ phase = "tables" /\ todo # <<>> /\ at > rows_of(Head(todo), opt.scale)
  /\ printed' = IF opt.validate
                THEN printed \cup {<<Head(todo), {x \in vtotal : x[1] = Head(todo)}>>} ELSE printed
  /\ todo' = Tail(todo) /\ at' = 1
  /\ UNCHANGED <<opt, phase, o, row, name, fp, file, agreed, vtotal>>

Return ==
  /\ phase = "tables" /\ todo = <<>>
  /\ phase' = "done"
  /\ UNCHANGED <<opt, todo, at, o, row, name, fp, file, agreed, vtotal, printed>>

-----------------------------------------------------------------------------
(* -O f: set_files asks for a name for each table, `at' counts them; an    *)
(* empty line keeps the name.                                              *)
EnterName ==
  /\ phase = "names" /\ at <= Len(todo)
  /\ \E n \in Names : name' = [name EXCEPT ![todo[at]] = n]
  /\ at' = at + 1
  /\ UNCHANGED <<opt, phase, todo, o, row, fp, file, agreed, vtotal, printed>>

(* The end of the input: "Load aborted!" *)
AbortLoad ==
  /\ phase = "names" /\ at <= Len(todo)
  /\ phase' = "failed"
  /\ UNCHANGED <<opt, todo, at, o, row, name, fp, file, agreed, vtotal, printed>>

NamesDone ==
  /\ phase = "names" /\ at > Len(todo)
  /\ phase' = "tables" /\ at' = 1
  /\ UNCHANGED <<opt, todo, o, row, name, fp, file, agreed, vtotal, printed>>

-----------------------------------------------------------------------------
Fresh ==
  /\ at = 1 /\ o = NoOrder /\ row = NoRow
  /\ name = [t \in Tables |-> "default"]
  /\ fp = {} /\ agreed = {} /\ vtotal = {} /\ printed = {}
  /\ file = [f \in TableFiles |-> [fresh |-> 0, written |-> 0, size |-> opt.found[f]]]

(* The options of the command line, with the files that are there. *)
Started(c, found) ==
  [found |-> found, tables |-> c.tables, scale |-> c.scale, force |-> c.force, fnames |-> c.fnames,
   validate |-> c.validate, set_seeds |-> c.set_seeds, direct |-> c.direct, LINUX |-> c.LINUX]

(* A table of the loop in main that was asked for. *)
Asked(t) == IF t \in opt.tables THEN <<t>> ELSE <<>>

TInit ==
  /\ opt \in {Started(c, found) : c \in Options, found \in Earlier}
  /\ phase = IF opt.fnames /\ ~opt.direct THEN "names" ELSE "tables"
  /\ todo = Asked("part") \o Asked("supplier") \o Asked("customer") \o Asked("date") \o Asked("lineorder")
  /\ Fresh

(* A process that was started with -U. *)
TIdle ==
  /\ opt = [found |-> [f \in TableFiles |-> -1]]
  /\ phase = "idle" /\ todo = <<>> /\ Fresh

TNext ==
  \/ EnterName \/ AbortLoad \/ NamesDone
  \/ PartRow \/ SuppRow \/ CustRow \/ DateRow \/ LineRow
  \/ Decline \/ OpenFails \/ TableDone \/ Return

TSpec == TInit /\ [][TNext]_tvars

-----------------------------------------------------------------------------
(* Properties. *)

Running == phase # "idle"

(* The types of the state, and that a file ends where this run has written *)
(* to or behind it.                                                        *)
TTypeOK ==
  /\ phase \in {"idle", "names", "tables", "done", "declined", "failed"}
  /\ \A k \in DOMAIN todo : todo[k] \in opt.tables
  /\ at \in Nat \ {0} /\ o.lines \in 0..MaxLines
  /\ name \in [Tables -> Names] /\ fp \subseteq Tables /\ agreed \subseteq TableFiles
  /\ file \in [TableFiles -> [fresh : Nat, written : Nat, size : Nat \cup {-1}]]
  /\ \A f \in TableFiles : file[f].fresh > 0 => file[f].written <= file[f].size

(* A key is one of DATE: the row that it can only be in has it. *)
DateRowOf(key) ==
  LET y == key \div 10000
      m == (key \div 100) % 100
  IN DaysBefore(y) + DaysBeforeMonth(y, m) + (key % 100) - DaysBefore(1992)
IsDateKey(key) ==
  /\ DateRowOf(key) \in 1..base["date"]
  /\ mk_date(DateRowOf(key)).datekey = key

(* Every key of a line is one of its table: of a part, although parts are  *)
(* counted with one logarithm (main) and drawn with another (L_PKEY_MAX),  *)
(* of a supplier, of a customer that has orders, and the dates of the      *)
(* order and of the commitment are rows of DATE, although they are counted *)
(* with another calendar.                                                  *)
KeysJoin ==
  row.table = "lineorder" =>
    /\ row.built.custkey \in 1..rows_of("customer", opt.scale)
    /\ row.built.custkey % CUST_MORTALITY # 0
    /\ IsDateKey(row.built.odate)
    /\ \A k \in DOMAIN row.lines :
         /\ row.lines[k].line.partkey \in 1..rows_of("part", opt.scale)
         /\ row.lines[k].line.suppkey \in 1..rows_of("supplier", opt.scale)
         /\ IsDateKey(row.lines[k].line.commit_date)

(* The lines that are printed are those of this order, numbered from one,  *)
(* and its total is the sum over them, although the struct still has the   *)
(* lines of a longer order before.                                         *)
OwnLines ==
  row.table = "lineorder" =>
    /\ \A k \in DOMAIN row.lines : row.lines[k].okey = row.built.okey /\ row.lines[k].linenumber = k
    /\ row.built.totalprice = total([k \in DOMAIN row.lines |-> row.lines[k].line])

(* The colors of a part are different, and its brand starts with its       *)
(* category, which starts with its manufacturer.                           *)
PartsDistinct ==
  row.table = "part" =>
    /\ Cardinality({row.built.color} \cup {row.built.name[k] : k \in DOMAIN row.built.name}) = P_NAME_SCL
    /\ row.built.category \div 10 = row.built.mfgr
    /\ row.built.category \in {row.built.brand \div 10, row.built.brand \div 100}

(* A city, its nation, its region and the code in the phone number agree:  *)
(* the brief name is that of one nation only, the nation lies in the       *)
(* region, and no other nation has the code.                               *)
PlacesAgree ==
  row.table \in {"customer", "supplier"} =>
    LET p == row.built.place
        nations == Dists["nations"]
    IN /\ {k \in DOMAIN nations : Brief[nations[k].text] = p.city[1]} = {p.phone - 9}
       /\ nations[p.phone - 9].text = p.nation_name
       /\ p.region_name = HomeRegion[p.nation_name]

(* The n-th row of DATE is the n-th day of the calendar of the orders      *)
(* (mk_date asks localtime, mk_time has a calendar of its own), and it     *)
(* belongs to a season.                                                    *)
DateJoins ==
  row.table = "date" =>
    /\ mk_time(row.index).alpha = row.built.datekey
    /\ mk_time(row.index).day = row.built.daynuminmonth
    /\ row.built.sellingseason # ""

(* From one row of DATE to the next the days follow each other (Follows):  *)
(* no day is left out or told twice, over the ends of months and years and *)
(* the leap days, although each row is read off localtime on its own.      *)
DatesFollow ==
  [][(row.table = "date" /\ row'.table = "date" /\ row' # row) => Follows(row.built, row'.built)]_tvars

(* A file that was there is written over only with -f or when the user     *)
(* agreed to it; a run that ended well has written as many rows as each    *)
(* table has; the files of the other tables, and of those after a question *)
(* that was declined, are as before.                                       *)
FilesKept ==
  Running =>
    \A f \in TableFiles :
      /\ (opt.found[f] >= 0 /\ file[f].fresh > 0) => (opt.force \/ f \in agreed)
      /\ (file[f].fresh = 0) => file[f].size = opt.found[f]
      /\ phase = "done" =>
           file[f].fresh = IF Prints /\ f[1] \in opt.tables /\ f = Dest(f[1]) THEN rows_of(f[1], opt.scale) ELSE 0

(* usage: "-f -- force. Overwrite existing files".  After a run with -f    *)
(* that ended well a file that it wrote is what it wrote, and nothing of   *)
(* the file that was there is left in it.                                  *)
ForceOverwrites ==
  (Running /\ phase = "done" /\ opt.force) =>
    \A f \in TableFiles : file[f].fresh > 0 => file[f].size = file[f].written
=============================================================================
