------------------------------ MODULE Profiles ------------------------------
(***************************************************************************)
(* The profiles that the runs provision: the example of README.md and the  *)
(* shipped profiles all of whose classes Manifests.tla models.  Profiles   *)
(* that differ only in the operating system or the version of HDP have the *)
(* same catalog here and appear once.                                      *)
(***************************************************************************)
EXTENDS Naturals, Sequences

Machine(roles) == [roles |-> roles]

(* README.md: the gateway, the master and one slave. *)
readme_default(sec) ==
  [security |-> sec, extras |-> {},
   clients |-> {"hdfs", "hive", "oozie", "pig", "tez", "yarn", "zk"},
   nodes |-> << Machine({"client"}),
                Machine({"kdc", "hive-db", "hive-meta", "nn", "yarn", "zk"}),
                Machine({"oozie", "slave"}) >>]

hdp2_2_4_15 ==
  [security |-> FALSE, extras |-> {}, clients |-> {"hdfs", "hive", "tez", "yarn"},
   nodes |-> << Machine({"client", "hive-db", "hive-meta", "nn", "slave", "yarn"}) >>]

(* also hdp228 *)
hdp232 ==
  [security |-> FALSE, extras |-> {"sample-hive-data"},
   clients |-> {"hdfs", "hive", "odbc", "tez", "yarn", "yarnlocaltop"},
   nodes |-> << Machine({"client", "hive-db", "hive-meta", "hive-server2", "nn", "slave",
                         "yarn", "yarn-timelineserver"}) >>]

hdp2_3_2_secure_hive ==
  [security |-> TRUE, extras |-> {}, clients |-> {"hdfs", "hive", "tez", "yarn", "zk"},
   nodes |-> << Machine({"client", "kdc", "hive-db", "hive-meta", "hive-server2", "nn", "slave",
                         "yarn", "zk"}) >>]

(* on CentOS and on Ubuntu *)
hdp2_3_2_secure_hbase ==
  [security |-> TRUE, extras |-> {}, clients |-> {"hbase", "hdfs", "zk"},
   nodes |-> << Machine({"client", "hbase-master", "hbase-regionserver", "kdc", "nn", "slave",
                         "zk"}) >>]

(* hdp229, hdp234, hdp236 and hdp240 without its database and security *)
hdp242 ==
  [security |-> TRUE, extras |-> {"sample-hive-data"},
   clients |-> {"hdfs", "hive", "odbc", "tez", "yarn"},
   nodes |-> << Machine({"client", "hive-db", "hive-meta", "hive-server2", "httpd", "kdc", "nn",
                         "postgres", "slave", "tez-ui", "yarn", "yarn-timelineserver"}) >>]

hdp242_hbase ==
  [security |-> FALSE, extras |-> {}, clients |-> {"hbase", "hdfs", "yarn", "zk"},
   nodes |-> << Machine({"client", "hbase-master", "hbase-regionserver", "httpd", "nn", "slave",
                         "yarn", "zk"}) >>]

(* with security: hdp250-ubuntu *)
hdp234_ubuntu(sec) ==
  [security |-> sec, extras |-> {"sample-hive-data"},
   clients |-> {"hbase", "hdfs", "hive", "odbc", "tez", "yarn"},
   nodes |-> << Machine({"client", "hbase-master", "hbase-regionserver", "hive-db", "hive-meta",
                         "hive-server2", "nn", "slave", "yarn", "yarn-timelineserver", "zk"}
                        \cup (IF sec THEN {"kdc"} ELSE {})) >>]

(* also hdp263 *)
hdp260 ==
  [security |-> FALSE, extras |-> {"sample-hive-data"},
   clients |-> {"hdfs", "hive2", "odbc", "slider", "yarn", "zk"},
   nodes |-> << Machine({"client", "hive-db", "hive2-meta", "hive2", "hive2-server2", "httpd", "nn",
                         "postgres", "slave", "tez-ui", "yarn", "yarn-timelineserver", "zk"}) >>]

postgres ==
  [security |-> FALSE, extras |-> {}, clients |-> {"odbc"},
   nodes |-> << Machine({"client", "nn", "postgres", "slave"}) >>]

(* The shipped profiles of the run over all of them. *)
Shipped == << hdp2_2_4_15, hdp232, hdp2_3_2_secure_hive, hdp2_3_2_secure_hbase, hdp242,
              hdp242_hbase, hdp234_ubuntu(FALSE), hdp234_ubuntu(TRUE),
              hdp260, postgres >>
=============================================================================
