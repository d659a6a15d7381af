------------------------------- MODULE MCLoad -------------------------------
(***************************************************************************)
(* Small tables with the distributions of dists.dss: all nations and       *)
(* regions and all days; four colors, orders of at most two lines.         *)
(***************************************************************************)
EXTENDS Load, TLC

MCbase == [part |-> 2, supplier |-> 2, customer |-> 3, date |-> 2556, lineorder |-> 1]

Last == STARTDATE + TOTDATE - 1
MCProbe ==
  [P_NAME |-> 0..3, P_MFG |-> {1, 5}, P_CAT |-> {5}, P_BRND |-> {9, 10}, P_TYPE |-> {2}, P_SIZE |-> {50},
   P_CNTR |-> {1}, C_ADDR |-> {24}, S_ADDR |-> {6, 24}, C_NTRG |-> 0..24, S_NTRG |-> 0..24,
   CITY |-> {9}, C_MSEG |-> {5}, O_CKEY |-> {6, 12}, O_PRIO |-> {4}, O_LCNT |-> {1, 2},
   O_ODATE |-> {STARTDATE, STARTDATE + 59, Last - 151, Last},
   L_PKEY |-> {2, 4, 8}, L_SKEY |-> {2}, L_QTY |-> {50}, L_DCNT |-> {10}, L_TAX |-> {8},
   L_CDTE |-> {30, 90}, L_SMODE |-> {7}]

Member(text, weight) == [text |-> text, weight |-> weight]
Even(texts) == [k \in DOMAIN texts |-> Member(texts[k], 1)]

MCDists ==
  [colors |-> Even(<<"almond", "antique", "aquamarine", "azure">>),
   p_types |-> Even(<<"STANDARD ANODIZED TIN", "STANDARD ANODIZED NICKEL">>),
   p_cntr |-> Even(<<"SM CASE", "SM BOX">>),
   regions |-> Even(<<"AFRICA", "AMERICA", "ASIA", "EUROPE", "MIDDLE EAST">>),
   nations |-> <<Member("ALGERIA", 0), Member("ARGENTINA", 1), Member("BRAZIL", 0), Member("CANADA", 0),
                 Member("EGYPT", 3), Member("ETHIOPIA", -4), Member("FRANCE", 3), Member("GERMANY", 0),
                 Member("INDIA", -1), Member("INDONESIA", 0), Member("IRAN", 2), Member("IRAQ", 0),
                 Member("JAPAN", -2), Member("JORDAN", 2), Member("KENYA", -4), Member("MOROCCO", 0),
                 Member("MOZAMBIQUE", 0), Member("PERU", 1), Member("CHINA", 1), Member("ROMANIA", 1),
                 Member("SAUDI ARABIA", 1), Member("VIETNAM", -2), Member("RUSSIA", 1),
                 Member("UNITED KINGDOM", 0), Member("UNITED STATES", -2)>>,
   o_oprio |-> Even(<<"1-URGENT", "2-HIGH", "3-MEDIUM", "4-NOT SPECIFIED", "5-LOW">>),
   smode |-> Even(<<"REG AIR", "AIR", "RAIL", "TRUCK", "MAIL", "FOB", "SHIP">>),
   msegmnt |-> Even(<<"AUTOMOBILE", "BUILDING", "FURNITURE", "HOUSEHOLD", "MACHINERY">>)]

Nations == {MCDists["nations"][k].text : k \in DOMAIN MCDists["nations"]}
Shortened ==
  [MOZAMBIQUE |-> "MOZAMBIQU"] @@ ("SAUDI ARABIA" :> "SAUDI ARA") @@ ("UNITED KINGDOM" :> "UNITED KI")
  @@ ("UNITED STATES" :> "UNITED ST")
MCBrief == [n \in Nations |-> IF n \in DOMAIN Shortened THEN Shortened[n] ELSE n]

MCHomeRegion ==
  [n \in Nations |->
     CASE n \in {"ALGERIA", "ETHIOPIA", "KENYA", "MOROCCO", "MOZAMBIQUE"} -> "AFRICA"
       [] n \in {"ARGENTINA", "BRAZIL", "CANADA", "PERU", "UNITED STATES"} -> "AMERICA"
       [] n \in {"CHINA", "INDIA", "INDONESIA", "JAPAN", "VIETNAM"} -> "ASIA"
       [] n \in {"FRANCE", "GERMANY", "ROMANIA", "RUSSIA", "UNITED KINGDOM"} -> "EUROPE"
       [] OTHER -> "MIDDLE EAST"]

MCLength == [p \in {"1-URGENT", "2-HIGH", "3-MEDIUM", "4-NOT SPECIFIED", "5-LOW"} |->
               CASE p = "1-URGENT" -> 8 [] p = "2-HIGH" -> 6 [] p = "3-MEDIUM" -> 8 [] p = "5-LOW" -> 5
                 [] OTHER -> 15]

-----------------------------------------------------------------------------
Plain(tables, scale) ==
  [tables |-> tables, scale |-> scale, force |-> FALSE, fnames |-> FALSE, validate |-> FALSE,
   set_seeds |-> FALSE, direct |-> FALSE, LINUX |-> TRUE]

MCOptions ==
  {Plain({"date"}, 1), Plain({"lineorder"}, 2), Plain({"part", "supplier", "customer"}, 1),
   [Plain({"part", "lineorder"}, 4) EXCEPT !.direct = TRUE],
   [Plain({"supplier", "part"}, 4) EXCEPT !.force = TRUE],
   [Plain({"supplier"}, 1) EXCEPT !.LINUX = FALSE],
   [Plain({"supplier", "customer"}, 1) EXCEPT !.fnames = TRUE],
   [Plain({"part", "supplier", "customer"}, 1) EXCEPT !.validate = TRUE],
   [Plain({"supplier"}, 1) EXCEPT !.set_seeds = TRUE]}

(* For the run that looks at updates only. *)
MCNoOptions == {}

(* The smallest rows fill less than an earlier file, the largest more. *)
MCWidths == [part |-> {2}, supplier |-> {1, 2}, customer |-> {2}, date |-> {1}, lineorder |-> {3}]
MCEarlier == {[f \in TableFiles |-> bytes] : bytes \in {-1, 3}}

(* For the run with -f. *)
MCForce == {[Plain({"supplier"}, 1) EXCEPT !.force = TRUE]}

Pairs(updates, refresh, step, inserts, deletes, rng, sql) ==
  [updates |-> updates, scale |-> 1, refresh |-> refresh, step |-> step, insert_segments |-> inserts,
   delete_segments |-> deletes, gen_rng |-> rng, gen_sql |-> sql]

MCCommands ==
  {Pairs(3, 5000, -1, 3, 4, FALSE, FALSE), Pairs(5, 10000, -1, 0, 0, TRUE, FALSE),
   Pairs(4, 1000, 3, 3, 3, FALSE, FALSE), Pairs(1, 400, -1, 2, 2, FALSE, FALSE),
   Pairs(3, 5000, 2, 0, 3, TRUE, TRUE), Pairs(2, 5000, -1, 4, 0, FALSE, TRUE),
   Pairs(6, 3333, 1, 5, 2, FALSE, FALSE), Pairs(2, 5000, -1, 5, 7, FALSE, FALSE), Pairs(1, 5000, 3, 0, 0, FALSE, FALSE)}

(* For the run with -f: no pair is generated. *)
MCNoPairs == {Pairs(1, 400, 2, 0, 0, FALSE, FALSE)}

MCGarbage == {0, 3}
MCUtcOffset == -18000
=============================================================================
