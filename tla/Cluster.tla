------------------------------ MODULE Cluster ------------------------------
(***************************************************************************)
(* A profile provisioned by vagrant and puppet: the catalogs of site.pp    *)
(* composed with the engine of Provision.                                  *)
(***************************************************************************)
EXTENDS Provision, Site

(* What the comments of site.pp promise about a node and its edges keep:   *)
(* <<a, b>> when the daemon b comes up after the daemon a.  For the        *)
(* daemons of Hive 2 see Hive2Order.                                       *)
Promised ==
  {"krb5kdc"} \X {"hbase-master", "hive-metastore", "hbase-regionserver", "hadoop-hdfs-namenode"}
  \cup {"hadoop-hdfs-namenode"} \X {"hadoop-hdfs-datanode", "hadoop-yarn-resourcemanager",
                                    "hive-metastore", "oozie"}
  \cup {"mysqld"} \X {"oozie", "hive-metastore", "hive2-metastore"}
  \cup {<<"hive-metastore", "hive-server2">>, <<"hadoop-hdfs-datanode", "oozie">>,
        <<"hadoop-hdfs-datanode", "hive-server2">>,
        <<"hadoop-hdfs-datanode", "hive2-server2">>, <<"hbase-master", "hbase-regionserver">>,
        <<"hadoop-hdfs-datanode", "hbase-master">>}

(* No daemon runs before the daemons of the same node that site.pp says    *)
(* come first, whatever died on the way and however often puppet is rerun. *)
BringUpOrder ==
  \A i \in Nodes : \A pr \in Promised :
    (<<i, pr[2]>> \in have /\ pr[1] \in Titles(i)) => <<i, pr[1]>> \in have

(* site.pp: "Ensure the namenode is brought up before the slaves,          *)
(* jobtracker, metastore, and oozie", "Bring up the metastore before Hive  *)
(* servers".  There are edges for the roles hive-meta and hive-server2,    *)
(* none for hive2-meta.                                                    *)
Hive2Order ==
  \A i \in Nodes :
    \A pr \in {<<"hadoop-hdfs-namenode", "hive2-metastore">>, <<"hive2-metastore", "hive2-server2">>} :
      (<<i, pr[2]>> \in have /\ pr[1] \in Titles(i)) => <<i, pr[1]>> \in have

(* The titles of node i that are not applied unless the title a was: those *)
(* that wait for it, or for one that does.                                 *)
Relying(plan, i, a) ==
  LET upto[k \in 0..Len(plan[i])] ==
        IF k = 0 THEN {a}
        ELSE LET D == upto[k - 1]
             IN IF plan[i][k].deps \cap D # {} THEN D \cup {plan[i][k].id} ELSE D
  IN upto[Len(plan[i])]

(* A static check: what starts the daemon pr[2] relies on pr[1], which is  *)
(* left alone only when that daemon runs, and which nothing stops.         *)
OrderedPlan(plan) ==
  \A i \in Nodes : \A pr \in Promised :
    LET a == pr[1]
        rely == Relying(plan, i, a)
    IN a \in Titles(i) =>
       /\ \A k \in 1..Len(plan[i]) :
            IF plan[i][k].id = a
              THEN Sure(plan[i][k]) /\ plan[i][k].unless \subseteq {<<i, a>>} /\ <<i, a>> \in All(plan[i][k].gives)
              ELSE plan[i][k].id \in rely =>
                     \E m \in 1..(k - 1) : plan[i][m].id \in plan[i][k].deps \cap rely
       /\ \A h \in Nodes : \A k \in 1..Len(plan[h]) :
            /\ <<i, a>> \notin plan[h][k].drops
            /\ <<i, pr[2]>> \in All(plan[h][k].gives) => h = i /\ plan[h][k].id \in rely \ {a}
=============================================================================
