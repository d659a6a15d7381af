-------------------------------- MODULE Load --------------------------------
(***************************************************************************)
(* ssb-dbgen as one process: main generates update pairs with -U and exits *)
(* before it comes to the tables, and goes through the tables without.     *)
(***************************************************************************)
EXTENDS Update, Tables

loadvars == <<uvars, tvars>>

main == (UInit /\ TIdle) \/ (TInit /\ UIdle)

LoadNext ==
  \/ UNext /\ UNCHANGED tvars
  \/ TNext /\ UNCHANGED uvars

LoadSpec == main /\ [][LoadNext]_loadvars /\ WF_uvars(UNext)
=============================================================================
