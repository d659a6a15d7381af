-------------------------------- MODULE Ssb --------------------------------
(***************************************************************************)
(* The tables of ssb-dbgen, the random number streams behind their columns *)
(* and what a row takes from each stream.  A stream is the number of draws *)
(* it is away from its start (Rnd.tla shows that a jump of NthElement and  *)
(* the draws it stands for lead to the same value).                        *)
(***************************************************************************)
EXTENDS Integers

(* The numbers of dss.h; with SSBM, DATE has the number of ORDER. *)
PART == 0
SUPP == 2
CUST == 3
ORDER == 4
DATE == 4
LINE == 5
Tables == {PART, SUPP, CUST, DATE, LINE}

O_LCNT_MAX == 7
MAX_COLOR == 92

(* Seed[] of rnd.h, the streams that some table of SSBM draws from or      *)
(* skips: P_MFG is stream 0.                                               *)
PartStreams == {"P_MFG", "P_BRND", "P_TYPE", "P_SIZE", "P_CNTR", "P_NAME"}
SuppStreams == {"S_ADDR", "S_NTRG", "S_PHNE"}
CustStreams == {"C_ADDR", "C_NTRG", "C_PHNE", "C_MSEG"}
OrderStreams == {"O_CLRK", "O_ODATE", "O_PRIO", "O_CKEY", "O_LCNT"}
LineStreams == {"L_QTY", "L_DCNT", "L_TAX", "L_SMODE", "L_PKEY", "L_SKEY", "L_CDTE"}
Stream == PartStreams \cup SuppStreams \cup CustStreams \cup OrderStreams \cup LineStreams

SeedTable(s) == CASE s \in PartStreams -> PART
                  [] s \in SuppStreams -> SUPP
                  [] s \in CustStreams -> CUST
                  [] s \in OrderStreams -> ORDER
                  [] s \in LineStreams -> LINE

Boundary(s) == CASE s \in LineStreams -> O_LCNT_MAX
                 [] s \in {"S_ADDR", "C_ADDR"} -> 9
                 [] s \in {"S_PHNE", "C_PHNE"} -> 3
                 [] s = "P_NAME" -> MAX_COLOR
                 [] OTHER -> 1

-----------------------------------------------------------------------------
(* What one row draws and Seed[].usage counts. *)

Once(S) == [s \in Stream |-> IF s \in S THEN 1 ELSE 0]

(* agg_str permutes all the colors of the name, then picks the first. *)
mk_part == {[Once(PartStreams) EXCEPT !["P_NAME"] = MAX_COLOR]}

(* The address is as long as its first draw says, five letters to a draw.  *)
(* The phone of a supplier comes from the stream of the customers.         *)
AddrDraws == 3..6
mk_supp == {[Once({"S_NTRG"}) EXCEPT !["S_ADDR"] = a, !["C_PHNE"] = 3] : a \in AddrDraws}
mk_cust == {[Once({"C_NTRG", "C_MSEG"}) EXCEPT !["C_ADDR"] = a, !["C_PHNE"] = 3] : a \in AddrDraws}

(* The order draws once from its streams, each of its lines from the       *)
(* streams of the lines.                                                   *)
mk_order == {[s \in Stream |-> IF s \in OrderStreams THEN 1 ELSE IF s \in LineStreams THEN lines ELSE 0]
             : lines \in 1..O_LCNT_MAX}

Draws(t) == CASE t = PART -> mk_part
              [] t = SUPP -> mk_supp
              [] t = CUST -> mk_cust
              [] t = LINE -> mk_order
              [] OTHER -> {Once({})}

(* The category of a part (P_CAT_SD is 97) and the city (98) have streams  *)
(* above MAX_STREAM: UnifInt takes stream 0 for them, and no usage of it   *)
(* is counted.                                                             *)
Uncounted(t) == IF t \in {PART, SUPP, CUST} THEN Once({"P_MFG"}) ELSE Once({})

(* row_stop takes the streams of the table up to their boundary. *)
row_stop(t, usage) ==
  [s \in Stream |-> IF SeedTable(s) = t THEN Boundary(s) - usage[s] ELSE 0]

(* What a row takes from stream s all in all. *)
RowTakes(t, usage, s) == usage[s] + Uncounted(t)[s] + row_stop(t, usage)[s]

-----------------------------------------------------------------------------
(* gen_seed: what is skipped for a row that another process generates. *)

sd_part == [Once(PartStreams) EXCEPT !["P_NAME"] = MAX_COLOR]

sd_supp == [Once({"S_NTRG"}) EXCEPT !["S_ADDR"] = 9, !["S_PHNE"] = 3]

sd_cust == [Once({"C_NTRG", "C_MSEG"}) EXCEPT !["C_ADDR"] = 9, !["C_PHNE"] = 3]

sd_line_no_link ==
  [s \in Stream |-> IF s \in LineStreams THEN O_LCNT_MAX ELSE 0]

(* child = 1: with the link between the order and its lines. *)
sd_line ==
  [s \in Stream |-> IF s \in LineStreams THEN O_LCNT_MAX
                    ELSE IF s \in {"O_ODATE", "O_LCNT"} THEN 1 ELSE 0]

gen_seed(t) == CASE t = PART -> sd_part
                 [] t = SUPP -> sd_supp
                 [] t = CUST -> sd_cust
                 [] t = LINE -> sd_line
                 [] OTHER -> Once({})
=============================================================================
