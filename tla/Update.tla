------------------------------- MODULE Update -------------------------------
(***************************************************************************)
(* ssb-dbgen -U: pairs of files with the orders to insert into and the     *)
(* order keys to delete from a loaded table.  Pair u has the rows          *)
(* (u - 1) * rowcnt + 1 to u * rowcnt; a key leaves two bits of room for   *)
(* the generation (seq) of its row.  An order is its key and its row here. *)
(***************************************************************************)
EXTENDS Keys, FiniteSets

S == INSTANCE Ssb

FULL == 10000   \* -r is in hundredths of a percent
PAIRS == 10000  \* gen_tbl's upd_num: the pair + PAIRS * the segments before

CONSTANTS LineBase,  \* tdefs[LINE].base
          Commands,  \* -U, -s, -r, -S (-1 without), -i, -d (0 without), -O r, -O d
          Garbage    \* what the second argument that a call leaves out may be

ASSUME UpdateAssumption ==
  /\ LineBase \in Nat \ {0}
  /\ Commands # {}
  /\ Commands \subseteq [updates : 1..(PAIRS - 1), scale : Nat \ {0}, refresh : 1..FULL,
                        step : Nat \cup {-1}, insert_segments : Nat, delete_segments : Nat,
                        gen_rng : BOOLEAN, gen_sql : BOOLEAN]
  /\ Garbage \subseteq Int /\ Garbage # {}

VARIABLES cmd,      \* the options
          pc,       \* "idle", "start", "pairs", "inserts", "deletes", "done"
          upd_num,  \* main's counter of pairs
          i, left,  \* the row, and how many are left
          mode,     \* gen_tbl's upd_num
          rows_this_segment,
          line,     \* pr_line: last_mode, and the file that is open
          segment,  \* insert_orders_segment
          drange,   \* the statics of pr_drange, and its file
          delete_segment,
          range,    \* start and last of pr_drange
          seeds,    \* the streams of the orders and their lines
          extra,    \* what gen_seed took for its second argument
          disk      \* <<file, entry>>; a file is <<kind, pair, segment>>

ucontrol == <<cmd, pc, upd_num, i, left>>
ufiles == <<mode, rows_this_segment, line, segment, drange, delete_segment, range, disk>>
useeds == <<seeds, extra>>
uvars == <<ucontrol, ufiles, useeds>>

Streams == S!OrderStreams \cup S!LineStreams
None == <<"none", 0, 0>>

-----------------------------------------------------------------------------
(* Keys. *)

(* The macro that the deletes use, at every scale. *)
MK_SPARSE(row, seq) == ((row \div 8) * 4 + (seq % 4)) * 8 + (row % 8)

(* The pairs that go through the table once. *)
cycle(c) == FULL \div c.refresh
insert_key_same_generation(c, row, u) == mk_sparse(row, IF u = 0 THEN 0 ELSE u \div cycle(c), c.scale)
insert_key(c, row, u) == mk_sparse(row, IF u = 0 THEN 0 ELSE 1 + u \div cycle(c), c.scale)
delete_key(c, row, u) == MK_SPARSE(row, (u - 1) \div cycle(c))

loaded(c) == LineBase * c.scale
rowcnt(c) == (LineBase * c.scale * c.refresh) \div FULL
minrow_prior_pair(c, u) == (u - 2) * rowcnt(c) + 1
minrow(c, u) == (u - 1) * rowcnt(c) + 1

-----------------------------------------------------------------------------
(* The streams. *)

sd_order(n) == [s \in Streams |-> IF s \in S!OrderStreams THEN n ELSE 0]
sd_line(child, n) ==
  [s \in Streams |-> IF s \in S!LineStreams THEN S!O_LCNT_MAX * n
                     ELSE IF child = 1 /\ s \in {"O_ODATE", "O_LCNT"} THEN n ELSE 0]

(* set_state(LINE, scale, 1, 2): past the rows of the table, and then      *)
(* gen_seed(0), which lacks its second argument.                           *)
set_state(c, g) == [s \in Streams |-> sd_line(1, loaded(c))[s] + sd_line(0, g)[s]]

(* "adjust RNG for any prior update generation" *)
skip_prior_orders_only(c) ==
  IF c.step > 0 THEN sd_order(rowcnt(c) * (c.step - 1)) ELSE sd_order(0)
skip_prior(c) ==
  IF c.step > 0
  THEN [s \in Streams |-> sd_order(rowcnt(c) * (c.step - 1))[s] + sd_line(0, rowcnt(c) * (c.step - 1))[s]]
  ELSE sd_order(0)

-----------------------------------------------------------------------------
(* Files: fopen(path, "w") empties the file. *)

Emptied(f) == {x \in disk : x[1] # f}

(* print_prep for an update: its segment is counted up, except that        *)
(* without segments it is 0.                                               *)
insert_file(m, seg) == <<"lineorder", m % PAIRS, seg>>
delete_file(u, seg) == <<"delete", u, seg>>
NextSegment(segments, seg) == IF segments > 0 THEN seg + 1 ELSE seg

-----------------------------------------------------------------------------
Untouched ==
  /\ upd_num = 0 /\ i = 0 /\ left = 0
  /\ mode = 0 /\ rows_this_segment = -1 /\ segment = 0
  /\ line = [last_mode |-> 0, file |-> None]
  /\ drange = [last_num |-> 0, rows_per_segment |-> 0, rows_this_segment |-> 0,
               residual_rows |-> 0, file |-> None]
  /\ delete_segment = 0 /\ range = [start |-> 0, last |-> 0]
  /\ seeds = [s \in Streams |-> 0] /\ extra = 0
  /\ disk = {}

UInit == cmd \in Commands /\ pc = "start" /\ Untouched

(* A process that was started without -U. *)
UIdle == cmd = (CHOOSE c \in Commands : TRUE) /\ pc = "idle" /\ Untouched

StartUpdates ==
  /\ pc = "start"
  /\ extra' \in Garbage
  /\ seeds' = [s \in Streams |-> seeds[s] + set_state(cmd, extra')[s] + skip_prior(cmd)[s]]
  /\ upd_num' = IF cmd.step > 0 THEN cmd.step - 1 ELSE 0
  /\ pc' = "pairs"
  /\ UNCHANGED <<cmd, i, left, ufiles>>

BeginPair_segments_kept ==
  /\ pc = "pairs" /\ upd_num < cmd.updates
  /\ i' = minrow(cmd, upd_num + 1) /\ left' = rowcnt(cmd)
  /\ mode' = upd_num + 1 /\ rows_this_segment' = -1
  /\ pc' = "inserts"
  /\ UNCHANGED <<cmd, upd_num, line, segment, drange, delete_segment, range, disk, useeds>>

(* The next pair: the segments start anew. *)
BeginPair ==
  /\ pc = "pairs" /\ upd_num < cmd.updates
  /\ segment' = 0 /\ delete_segment' = 0
  /\ i' = minrow(cmd, upd_num + 1) /\ left' = rowcnt(cmd)
  /\ mode' = upd_num + 1 /\ rows_this_segment' = -1
  /\ pc' = "inserts"
  /\ UNCHANGED <<cmd, upd_num, line, drange, range, disk, useeds>>

(* gen_tbl: whether this row is the first one of the next segment.  The    *)
(* first segments have one row more when the rows do not divide evenly.    *)
Rolls(c, m, rts) ==
  /\ c.insert_segments > 0
  /\ LET per == rowcnt(c) \div c.insert_segments
         residual == rowcnt(c) - per * c.insert_segments
     IN IF m \div PAIRS < residual THEN rts + 1 > per ELSE rts + 1 >= per

(* gen_tbl's round for one order: mk_order, the segment, pr_line, row_stop. *)
InsertRow ==
  /\ pc = "inserts" /\ left > 0
  /\ mode' = IF Rolls(cmd, mode, rows_this_segment) THEN mode + PAIRS ELSE mode
  /\ rows_this_segment' = IF cmd.insert_segments = 0 THEN rows_this_segment
                          ELSE IF Rolls(cmd, mode, rows_this_segment) THEN 0
                          ELSE rows_this_segment + 1
  /\ LET opens == mode' # line.last_mode
         seg == IF opens THEN NextSegment(cmd.insert_segments, segment) ELSE segment
         file == IF opens THEN insert_file(mode', seg) ELSE line.file
     IN /\ segment' = seg
        /\ line' = [last_mode |-> mode', file |-> file]
        /\ disk' = (IF opens THEN Emptied(file) ELSE disk)
                     \cup {<<file, <<insert_key(cmd, i, mode % PAIRS), i>>>>}
  /\ \E usage \in S!mk_order :
       seeds' = [s \in Streams |-> seeds[s] + S!RowTakes(S!LINE, usage, s)]
  /\ i' = i + 1 /\ left' = left - 1
  /\ UNCHANGED <<cmd, pc, upd_num, drange, delete_segment, range, extra>>

(* pr_drange opens the file of the pair and starts before its first key. *)
InsertsDone ==
  /\ pc = "inserts" /\ left = 0
  /\ LET num == upd_num + 1
         opens == drange.last_num # num
         seg == IF opens THEN NextSegment(cmd.delete_segments, delete_segment) ELSE delete_segment
         key == delete_key(cmd, minrow(cmd, num), num)
     IN /\ delete_segment' = seg
        /\ drange' = IF opens THEN [drange EXCEPT !.last_num = num, !.rows_this_segment = 0,
                                                  !.file = delete_file(num, seg)]
                     ELSE drange
        /\ disk' = IF opens THEN Emptied(delete_file(num, seg)) ELSE disk
        /\ range' = [start |-> key, last |-> key - 1]
        /\ i' = minrow(cmd, num) /\ left' = rowcnt(cmd)
  /\ pc' = "deletes"
  /\ UNCHANGED <<cmd, upd_num, mode, rows_this_segment, line, segment, useeds>>

DeleteKey == delete_key(cmd, i, upd_num + 1)

(* A key that follows the last one extends the range. *)
ExtendRange ==
  /\ pc = "deletes" /\ left > 0
  /\ cmd.gen_rng /\ DeleteKey - range.last = 1
  /\ range' = [range EXCEPT !.last = DeleteKey]
  /\ i' = i + 1 /\ left' = left - 1
  /\ UNCHANGED <<cmd, pc, upd_num, mode, rows_this_segment, line, segment, drange,
                 delete_segment, disk, useeds>>

(* The range before is written, as a row or as SQL; it has to be complete. *)
WriteRange ==
  /\ pc = "deletes" /\ left > 0
  /\ ~(cmd.gen_rng /\ DeleteKey - range.last = 1)
  /\ cmd.gen_sql \/ cmd.gen_rng
  /\ disk' = disk \cup {<<drange.file, <<range.start, range.last>>>>}
  /\ range' = [start |-> DeleteKey, last |-> DeleteKey]
  /\ i' = i + 1 /\ left' = left - 1
  /\ UNCHANGED <<cmd, pc, upd_num, mode, rows_this_segment, line, segment, drange,
                 delete_segment, useeds>>

(* The rows of a delete segment are computed for the first key of all. *)
DeleteRows(d, n, segments) ==
  IF segments > 0 /\ d.rows_per_segment = 0
  THEN [d EXCEPT !.rows_per_segment = n \div segments + 1, !.residual_rows = n % segments]
  ELSE d

DeleteRolls(d, seg) ==
  IF seg <= d.residual_rows THEN d.rows_this_segment + 1 > d.rows_per_segment
  ELSE d.rows_this_segment + 1 >= d.rows_per_segment

(* A single key, possibly the first one of the next segment. *)
WriteKey ==
  /\ pc = "deletes" /\ left > 0 /\ ~cmd.gen_sql /\ ~cmd.gen_rng
  /\ LET d == DeleteRows(drange, left, cmd.delete_segments)
         rolls == cmd.delete_segments > 0 /\ DeleteRolls(d, delete_segment)
         seg == IF rolls THEN delete_segment + 1 ELSE delete_segment
         file == IF rolls THEN delete_file(upd_num + 1, seg) ELSE d.file
     IN /\ delete_segment' = seg
        /\ drange' = [d EXCEPT !.file = file,
                               !.rows_this_segment = IF rolls THEN 1
                                                     ELSE IF cmd.delete_segments > 0 THEN @ + 1 ELSE @]
        /\ disk' = (IF rolls THEN Emptied(file) ELSE disk) \cup {<<file, <<DeleteKey, DeleteKey>>>>}
  /\ range' = [start |-> DeleteKey, last |-> DeleteKey]
  /\ i' = i + 1 /\ left' = left - 1
  /\ UNCHANGED <<cmd, pc, upd_num, mode, rows_this_segment, line, segment, useeds>>

DeletesDone_last_range_lost ==
  /\ pc = "deletes" /\ left = 0
  /\ upd_num' = upd_num + 1 /\ pc' = "pairs"
  /\ UNCHANGED <<cmd, i, left, ufiles, useeds>>

(* With ranges, the last one is still to be written. *)
DeletesDone ==
  /\ pc = "deletes" /\ left = 0
  /\ disk' = IF cmd.gen_rng THEN disk \cup {<<drange.file, <<range.start, range.last>>>>} ELSE disk
  /\ upd_num' = upd_num + 1 /\ pc' = "pairs"
  /\ UNCHANGED <<cmd, i, left, mode, rows_this_segment, line, segment, drange, delete_segment,
                 range, useeds>>

Exit_only_equal ==
  /\ pc = "pairs" /\ upd_num = cmd.updates
  /\ pc' = "done"
  /\ UNCHANGED <<cmd, upd_num, i, left, ufiles, useeds>>

(* exit(0), at once when -S is past the pairs of -U. *)
Exit ==
  /\ pc = "pairs" /\ upd_num >= cmd.updates
  /\ pc' = "done"
  /\ UNCHANGED <<cmd, upd_num, i, left, ufiles, useeds>>

UNext ==
  \/ StartUpdates \/ BeginPair \/ InsertRow \/ InsertsDone
  \/ ExtendRange \/ WriteRange \/ WriteKey \/ DeletesDone \/ Exit

(* A process that runs goes on. *)
USpec == UInit /\ [][UNext]_uvars /\ WF_uvars(UNext)

-----------------------------------------------------------------------------
(* Properties. *)

Inserted == {x \in disk : x[1][1] = "lineorder"}
Deleted == {x \in disk : x[1][1] = "delete"}
LoadedKeys == {insert_key(cmd, row, 0) : row \in 1..loaded(cmd)}
PairRows(u) == minrow(cmd, u)..(minrow(cmd, u) + rowcnt(cmd) - 1)

First == IF cmd.step > 0 THEN cmd.step ELSE 1
Finished == First..upd_num
InsertsOf(u) == {x \in Inserted : x[1][2] = u}
DeletesOf(u) == {x \in Deleted : x[1][2] = u}

(* The types, and that a pair has its rows left to insert and to delete.   *)
UTypeOK ==
  /\ cmd \in Commands
  /\ pc \in {"idle", "start", "pairs", "inserts", "deletes", "done"}
  /\ upd_num \in Nat /\ i \in Nat /\ left \in Nat
  /\ mode \in Nat /\ rows_this_segment \in Int
  /\ line \in [last_mode : Nat, file : {"none", "lineorder"} \X Nat \X Nat]
  /\ segment \in Nat /\ delete_segment \in Nat
  /\ drange \in [last_num : Nat, rows_per_segment : Nat, rows_this_segment : Nat,
                 residual_rows : Nat, file : {"none", "delete"} \X Nat \X Nat]
  /\ range \in [start : Int, last : Int]
  /\ seeds \in [Streams -> Int] /\ extra \in Int
  /\ disk \subseteq (({"lineorder", "delete"} \X Nat \X Nat) \X (Int \X Int))

(* An order key is new: below MAX_32B_SCALE no order that a pair inserts   *)
(* has the key of an order of the table, or of another one that was        *)
(* inserted, however often the pairs have gone through the table.          *)
FreshKeys ==
  /\ \A x, y \in Inserted : x[2][1] = y[2][1] => x = y
  /\ \A x \in Inserted : x[2][1] \notin LoadedKeys

(* BUGS, problems 54 and 60: the rows of a pair are all there, in as many  *)
(* files as -i and -d say (or one for each row), and no file has more than *)
(* one row more than another.                                              *)
Split(entries, segments) ==
  LET files == {x[1] : x \in entries}
      size(f) == Cardinality({x \in entries : x[1] = f})
      n == IF segments = 0 THEN 1 ELSE segments
  IN /\ Cardinality(entries) = rowcnt(cmd)
     /\ Cardinality(files) = IF rowcnt(cmd) < n THEN rowcnt(cmd) ELSE n
     /\ \A f, g \in files : size(f) <= size(g) + 1
SegmentsEven ==
  \A u \in Finished :
    /\ Split(InsertsOf(u), cmd.insert_segments)
    /\ (~cmd.gen_rng /\ ~cmd.gen_sql) => Split(DeletesOf(u), cmd.delete_segments)

(* While the pairs go through the table for the first time, the keys or    *)
(* ranges of a pair name exactly the orders of the table that are its rows *)
(* (with -O d the last range of a pair is not written).                    *)
DeletesLoaded ==
  \A u \in Finished : (u <= cycle(cmd) /\ ~cmd.gen_sql) =>
    /\ UNION {x[2][1]..x[2][2] : x \in DeletesOf(u)} = {insert_key(cmd, row, 0) : row \in PairRows(u)}
    /\ PairRows(u) \subseteq 1..loaded(cmd)

(* BUGS, problem 55: with -S the streams stand where they do in the run    *)
(* that generates the pairs before as well.                                *)
StepContinues ==
  (pc = "inserts" /\ left > 0) =>
    \A s \in Streams :
      seeds[s] = set_state(cmd, extra)[s] + (i - 1) * (IF s \in S!LineStreams THEN S!O_LCNT_MAX ELSE 1)

(* A run with -U comes to its end, whatever -S and the segments are. *)
UpdatesEnd == (pc = "start") ~> (pc = "done")

-----------------------------------------------------------------------------
(* What the documents say and the code does not do. *)

(* BUGS, problem 62, closed: after the pairs went through the table once,  *)
(* a delete file had "keys to be deleted that have never been loaded".  A  *)
(* run that starts with the first pair deletes what was loaded or inserted *)
(* only.                                                                   *)
DeletesWereLoaded ==
  First = 1 => \A x \in Deleted : x[2][1]..x[2][2] \subseteq (LoadedKeys \cup {y[2][1] : y \in Inserted})
=============================================================================
