----------------------------- MODULE Manifests -----------------------------
(***************************************************************************)
(* The puppet classes under modules/*/manifests/init.pp.  A class has the  *)
(* classes it requires and a body: its resources in the order of the       *)
(* manifest.  A run of resources that can only succeed or fail together    *)
(* (the configuration files of a client, the `->` chain of hdfs dfs -chown *)
(* commands) is one resource here.  Packages and start scripts are named   *)
(* the same on every operating system.                                     *)
(*                                                                         *)
(* The context x of a class is the profile x.p and the index x.n of the    *)
(* node that compiles the catalog.                                         *)
(***************************************************************************)
EXTENDS Naturals, Sequences

-----------------------------------------------------------------------------
(* Profiles: JSON files, see the nodes, roles, clients and security knobs. *)

Sec(x) == x.p.security
hasrole(x, r) == r \in x.p.nodes[x.n].roles
hasclient(x, c) == c \in x.p.clients
With(p, r) == {i \in DOMAIN p.nodes : r \in p.nodes[i].roles}
(* The templates take the first node that has a role. *)
FirstOf(S) == CHOOSE i \in S : \A j \in S : i <= j
Nowhere(x) == Len(x.p.nodes) + 1
HostOf(x, r) == IF With(x.p, r) = {} THEN Nowhere(x) ELSE FirstOf(With(x.p, r))

(* nodes.select{slave}.last == host *)
islastslave(x) == LET S == With(x.p, "slave")
                  IN x.n \in S /\ \A j \in S : j <= x.n

-----------------------------------------------------------------------------
(* Resources.  `after` are the titles that `->`, require and before put    *)
(* ahead; `auto` those puppet requires by itself when the catalog has      *)
(* them: the parent directory, the owner, the user and the script of a     *)
(* command.                                                                *)

On(i, S) == {<<i, f>> : f \in S}
Here(x, S) == On(x.n, S)

Res(x, id, after, needs, gives) ==
  [id |-> id, after |-> after, auto |-> {},
   needs |-> Here(x, needs), bars |-> {},
   unless |-> {}, onlyif |-> {},
   gives |-> SubSeq([k \in DOMAIN gives |-> {<<x.n, gives[k]>>}], 1, Len(gives)), drops |-> {}]

Unless(x, fs, r) == [r EXCEPT !.unless = Here(x, fs)]
Autorequires(ids, r) == [r EXCEPT !.auto = ids]
Also(facts, r) == [r EXCEPT !.needs = @ \cup facts]

(* ensure => installed does nothing when the package is there. *)
Pkg(x, id, after) == Unless(x, {id}, Res(x, id, after, {"repo"}, <<id>>))
(* A service is started unless it runs; it needs its start script. *)
Svc(x, id, after, needs) == Unless(x, {id}, Res(x, id, after, needs, <<id>>))
(* A keytab is copied from the directory that the kdc's script fills. *)
Keytab(x, u, after) ==
  Autorequires({"keytab_dir", "hadoop users"},
       Res(x, u \o ".keytab", after,
           {"generated " \o u, "keytab_dir", "hadoop users"}, <<u \o ".keytab">>))
(* kinit needs the keytab and a kdc that answers. *)
Kinit(x, u, after) ==
  Also(On(HostOf(x, "kdc"), {"krb5kdc"}),
       Res(x, "kinit " \o u, after, {u \o ".keytab", "krb5.conf"}, <<"ticket " \o u>>))
(* Commands that talk to HDFS reach the namenode of core-site.xml. *)
Hdfs(x, r) == Also(On(HostOf(x, "nn"), {"hadoop-hdfs-namenode"}), r)

If(c, s) == IF c THEN s ELSE <<>>
If2(c, S) == IF c THEN S ELSE {}

-----------------------------------------------------------------------------
(* Base system. *)

repos_setup(x) == << Res(x, "repos", {}, {}, <<"repo">>) >>

vm_users(x) == << Res(x, "vm users", {}, {}, <<"user vagrant">>) >>

ip_setup(x) == << Res(x, "firewall", {}, {}, <<"firewall off">>),
                  Res(x, "/etc/hosts", {}, {}, <<"/etc/hosts">>) >>

selinux(x) == << Res(x, "/etc/selinux/config", {}, {}, <<"/etc/selinux/config">>) >>

weak_random(x) == << Unless(x, {"urandom"}, Res(x, "/dev/random", {}, {}, <<"urandom">>)) >>

ntp(x) == << Pkg(x, "ntp pkg", {}), Svc(x, "ntp", {}, {"ntp pkg"}) >>

hdp_select(x) == << Pkg(x, "hdp-select", {}) >>

jdk(x) == << Pkg(x, "jdk", {}), Res(x, "java.sh", {}, {}, <<"java.sh">>) >>

os_performance(x) == << Res(x, "limits.conf", {}, {}, <<"limits.conf">>) >>

mysql_connector(x) == << Pkg(x, "mysql-connector", {}) >>

-----------------------------------------------------------------------------
(* Kerberos and certificates. *)

kerberos_client(x) ==
  << Pkg(x, "krb5-workstation", {}),
     Res(x, "krb5.conf", {"krb5-workstation"}, {}, <<"krb5.conf">>) >>

(* The users map of create-kerberos-kdc.erb: the principals of a role. *)
Principals(r) ==
  CASE r \in {"hbase-master", "hbase-regionserver"} -> {"hbase", "HTTP"}
    [] r = "hive-meta" -> {"hive"}
    [] r \in {"hive-server2", "hive2"} -> {"hive"}
    [] r = "nn" -> {"nn", "HTTP"}
    [] r = "oozie" -> {"oozie", "HTTP"}
    [] r = "slave" -> {"nm", "dn", "HTTP"}
    [] r = "yarn" -> {"rm", "jhs", "HTTP"}
    [] r = "yarn-timelineserver" -> {"ats"}
    [] r = "zk" -> {"zookeeper"}
    [] OTHER -> {}

GeneratedFor_no_jhs(p, i) ==
  On(i, {"generated " \o u : u \in UNION {Principals(r) : r \in p.nodes[i].roles} \ {"jhs"}})
GeneratedFor(p, i) ==
  On(i, {"generated " \o u : u \in UNION {Principals(r) : r \in p.nodes[i].roles}})

(* create-kerberos-kdc.erb removes every keytab, creates the database and  *)
(* then extracts the keytabs of the nodes one after the other; kdc-init    *)
(* tests the database file.                                                *)
KdcInit(x) ==
  [Unless(x, {"principal"},
     Autorequires({"create-kerberos-db"},
       Res(x, "kdc-init", {"create-kerberos-db"}, {"kdc.conf", "krb5-server"}, <<"principal">>)))
   EXCEPT !.gives = @ \o << Here(x, {"vagrant principal"}) >> \o [i \in DOMAIN x.p.nodes |-> GeneratedFor(x.p, i)],
          !.drops = UNION {GeneratedFor(x.p, i) : i \in DOMAIN x.p.nodes}]

(* /vagrant is shared by the nodes: its facts belong to host 0. *)
Shared(fs) == On(0, fs)
OnShared(r, fs) == [r EXCEPT !.gives = <<Shared(fs)>>]

kerberos_kdc(x) ==
  << Pkg(x, "krb5-server", {}),
     Res(x, "kdc.conf", {"krb5-server"}, {"krb5-server"}, <<"kdc.conf">>),
     OnShared(Res(x, "/vagrant/generated", {"kdc.conf"}, {}, <<>>), {"/vagrant/generated"}),
     Autorequires({"/vagrant/generated"},
       Also(Shared({"/vagrant/generated"}),
         Res(x, "create-kerberos-db", {"/vagrant/generated"}, {}, <<"create-kerberos-db">>))),
     KdcInit(x),
     Svc(x, "krb5kdc", {"kdc-init"}, {"krb5-server", "principal"}) >>

ssl_ca(x) ==
  << Autorequires({"/vagrant/generated"},
       Also(Shared({"/vagrant/generated"}),
         OnShared(Res(x, "ssl-ca", {}, {}, <<>>), {"ssl-ca"}))),
     [OnShared(Res(x, "ca.key", {"ssl-ca"}, {"jdk"}, <<>>), {"ca.key"}) EXCEPT !.unless = Shared({"ca.key"})],
     Also(Shared({"ca.key"}),
       [OnShared(Res(x, "ca.crt", {"ca.key"}, {}, <<>>), {"ca.crt"}) EXCEPT !.unless = Shared({"ca.crt"})]),
     Autorequires({"ssl-ca"}, Also(Shared({"ssl-ca"}),
         [OnShared(Res(x, "ca.ser", {}, {}, <<>>), {"ca.ser"}) EXCEPT !.unless = Shared({"ca.ser"})])) >>

kerberos_http(x) ==
  << Autorequires({"hadoop users"}, Res(x, "keytab_dir", {}, {"hadoop users"}, <<"keytab_dir">>)),
     Res(x, "http-secret", {"keytab_dir"}, {"keytab_dir"}, <<"http-secret">>),
     Keytab(x, "HTTP", {"http-secret"}),
     Also(Shared({"ca.key", "ca.crt", "ca.ser"}),
       Unless(x, {"server.crt"},
         Res(x, "create-cert", {"HTTP.keytab"}, {"jdk", "keytab_dir"},
             <<"server.jks", "server.crt", "signed server.jks">>))),
     Res(x, "ssl-server.xml", {}, {"hadoop conf", "hadoop users"}, <<"ssl-server.xml">>) >>

hive_keytab(x) == << Keytab(x, "hive", {}) >>

load_hdfs_keytab(x) == << Kinit(x, "dn", {}) >>

-----------------------------------------------------------------------------
(* HDFS and YARN. *)

hdfs_client(x) ==
  << Pkg(x, "hadoop", {}),
     Res(x, "select hadoop-client", {"hadoop"}, {"hdp-select", "hadoop"}, <<"hadoop-client">>),
     Pkg(x, "hadoop-client libs", {"hadoop"}),
     Res(x, "hadoop conf", {"hadoop"}, {"hadoop"}, <<"hadoop conf">>) >>
  \o If(Sec(x),
     << Unless(x, {"trusted ca"},
          Also(Shared({"ca.crt"}), Res(x, "importcert", {}, {"jdk"}, <<"trusted ca">>))),
        Res(x, "ssl-client.xml", {}, {"hadoop conf"}, <<"ssl-client.xml">>) >>)

yarn_client(x) ==
  << Pkg(x, "hadoop-yarn", {}), Pkg(x, "hadoop-mapreduce", {}),
     Res(x, "yarn libexec", {"hadoop-yarn", "hadoop-mapreduce"}, {"hadoop-yarn"}, <<"yarn libexec">>),
     Res(x, "yarn conf", {}, {"hadoop conf"}, <<"yarn conf">>) >>

hadoop_server(x) ==
  << Res(x, "hadoop users", {}, {}, <<"hadoop users">>),
     Autorequires({"hadoop users"}, Res(x, "hadoop dirs", {}, {"hadoop users"}, <<"hadoop dirs">>)) >>

(* hadoop namenode -format makes the directory that `creates` tests before *)
(* it writes the image a namenode starts from.  Without `creates` a rerun  *)
(* would format over the directories made in HDFS.                         *)
NamenodeFormat_always(x) ==
  [Autorequires({"hadoop users"},
     Res(x, "namenode-format", {"select namenode"}, {"hadoop conf", "hadoop dirs"},
         <<"namenode dir", "fsimage">>))
   EXCEPT !.drops = Here(x, {"hdfs dirs"})]
NamenodeFormat(x) ==
  Unless(x, {"namenode dir"},
    Autorequires({"hadoop users"},
      Res(x, "namenode-format", {"select namenode"}, {"hadoop conf", "hadoop dirs"},
          <<"namenode dir", "fsimage">>)))

NamenodeAfter_format(x) == {"namenode-format"}
NamenodeAfter(x) == {"namenode-format", "namenode unit"}

hdfs_namenode(x) ==
  If(Sec(x), << Keytab(x, "nn", {}), Kinit(x, "nn", {"nn.keytab"}) >>) \o
  << Pkg(x, "hadoop-hdfs-namenode pkg", If2(Sec(x), {"kinit nn"})),
     Res(x, "select namenode", {"hadoop-hdfs-namenode pkg"}, {"hdp-select"}, <<"namenode selected">>),
     NamenodeFormat(x),
     Svc(x, "hadoop-hdfs-namenode", NamenodeAfter(x),
         {"namenode unit", "fsimage", "jdk"} \cup If2(Sec(x), {"nn.keytab", "signed server.jks"})),
     Hdfs(x, Res(x, "hdfs dirs", {"hadoop-hdfs-namenode"}, If2(Sec(x), {"ticket nn"}), <<"hdfs dirs">>)),
     Res(x, "namenode unit", {}, {}, <<"namenode unit">>) >>

hdfs_datanode(x) ==
  If(Sec(x), << Keytab(x, "dn", {}) >>) \o
  << Pkg(x, "hadoop-hdfs-datanode pkg", If2(Sec(x), {"dn.keytab"})),
     Res(x, "select datanode", {"hadoop-hdfs-datanode pkg"}, {"hdp-select"}, <<"datanode selected">>),
     Svc(x, "hadoop-hdfs-datanode", {"select datanode", "datanode unit"},
         {"datanode unit", "hadoop dirs", "jdk"} \cup If2(Sec(x), {"dn.keytab"})),
     Res(x, "datanode unit", {}, {}, <<"datanode unit">>) >>

yarn_resource_manager(x) ==
  If(Sec(x), << Keytab(x, "rm", {}), Kinit(x, "rm", {"rm.keytab"}), Keytab(x, "jhs", {}) >>) \o
  << Pkg(x, "resourcemanager pkg", If2(Sec(x), {"jhs.keytab"})),
     Res(x, "select resourcemanager", {"resourcemanager pkg"}, {"hdp-select"}, <<"resourcemanager selected">>),
     Also(On(HostOf(x, "nn"), {"hdfs dirs"}), Hdfs(x, Autorequires({"hadoop users"},
       Res(x, "entity-file-history", {"select resourcemanager"},
           {"hadoop users"} \cup If2(Sec(x), {"ticket rm"}), <<"entity-file-history">>)))),
     Svc(x, "hadoop-yarn-resourcemanager", {"entity-file-history", "resourcemanager unit"},
         {"resourcemanager unit", "yarn conf"} \cup If2(Sec(x), {"rm.keytab"})),
     Pkg(x, "historyserver pkg", If2(Sec(x), {"kinit rm"})),
     Res(x, "select historyserver", {"historyserver pkg"}, {"hdp-select"}, <<"historyserver selected">>),
     Svc(x, "hadoop-mapreduce-historyserver", {"select historyserver", "historyserver unit"},
         {"historyserver unit", "yarn conf"} \cup If2(Sec(x), {"jhs.keytab"})),
     Res(x, "resourcemanager unit", {}, {}, <<"resourcemanager unit">>),
     Res(x, "historyserver unit", {}, {}, <<"historyserver unit">>) >>

(* Nothing orders the service after its package but the manifest. *)
yarn_node_manager(x) ==
  If(Sec(x), << Keytab(x, "nm", {}),
                Res(x, "container-executor.cfg", {"nm.keytab"}, {"hadoop conf", "hadoop users"},
                    <<"container-executor.cfg">>) >>) \o
  << Pkg(x, "nodemanager pkg", If2(Sec(x), {"container-executor.cfg"})),
     Res(x, "select nodemanager", {"nodemanager pkg"}, {"hdp-select"}, <<"nodemanager selected">>),
     Svc(x, "hadoop-yarn-nodemanager", {"nodemanager unit"},
         {"nodemanager unit", "nodemanager pkg", "nodemanager selected", "yarn conf"}),
     Res(x, "nodemanager unit", {}, {}, <<"nodemanager unit">>) >>

yarn_timelineserver(x) ==
  If(Sec(x), << Keytab(x, "ats", {}) >>) \o
  << Pkg(x, "timelineserver pkg", {}),
     Res(x, "select timelineserver", {"timelineserver pkg"}, {"hdp-select"}, <<"timelineserver selected">>),
     Svc(x, "hadoop-yarn-timelineserver", {"timelineserver unit"},
         {"timelineserver unit", "timelineserver pkg", "timelineserver selected", "yarn conf"}),
     Res(x, "timelineserver unit", {}, {}, <<"timelineserver unit">>) >>

(* hadoop fs -put copies to a temporary name and renames: no half copies.  *)
Tarball(x, t, after) ==
  [Hdfs(x, Res(x, t, after, {"hadoop-hdfs-datanode"} \cup If2(Sec(x), {"ticket dn"}), <<t>>))
   EXCEPT !.needs = @ \cup On(HostOf(x, "nn"), {"hdfs dirs"}),
          !.unless = Here(x, {t})]

install_hdfs_tarballs(x) ==
  If(hasclient(x, "yarn"), << Tarball(x, "mapreduce.tar.gz", {}) >>)
  \o If(hasclient(x, "tez"), << Also(Here(x, {"tez"}), Tarball(x, "tez.tar.gz", {})) >>)
  \o If(hasclient(x, "hive2"), << Also(Here(x, {"tez_hive2"}), Tarball(x, "tez_hive2.tar.gz", {})) >>)

-----------------------------------------------------------------------------
(* Clients. *)

tez_client(x) == << Pkg(x, "tez", {}), Res(x, "tez conf", {"tez"}, {"tez"}, <<"tez conf">>) >>

pig_client(x) == << Pkg(x, "pig", {}), Res(x, "pig conf", {"pig"}, {"pig"}, <<"pig conf">>) >>

oozie_client(x) == << Pkg(x, "oozie-client", {}), Res(x, "oozie.sh", {}, {}, <<"oozie.sh">>) >>

zookeeper_client(x) ==
  << Pkg(x, "zookeeper", {}),
     Res(x, "select zookeeper-client", {"zookeeper"}, {"hdp-select"}, <<"zookeeper-client">>),
     Res(x, "zookeeper conf", {"zookeeper"}, {"zookeeper"}, <<"zookeeper conf">>) >>

yarnlocaltop_client(x) == << Res(x, "yarnlocaltop", {}, {}, <<"yarnlocaltop">>) >>

odbc_client(x) ==
  << Pkg(x, "unixODBC", {}),
     Res(x, "Download ODBC", {"unixODBC"}, {}, <<"odbc rpm">>),
     Unless(x, {"odbc driver"}, Res(x, "Install ODBC", {"Download ODBC"}, {"odbc rpm"}, <<"odbc driver">>)),
     Res(x, "odbc conf", {"Install ODBC"}, {"odbc driver"}, <<"odbc conf">>),
     Pkg(x, "python-pip", {}),
     Res(x, "Install pyodbc", {"python-pip"}, {"python-pip", "unixODBC"}, <<"pyodbc">>) >>

(* The jaas file goes where the package will install its configuration. *)
hbase_client(x) ==
  If(Sec(x), << Res(x, "zk-jaas.conf", {}, {}, <<"zk-jaas.conf">>) >>) \o
  << Pkg(x, "hbase", If2(Sec(x), {"zk-jaas.conf"})), Pkg(x, "phoenix", {"hbase"}),
     Res(x, "hbase conf", {"phoenix"}, {"hbase"}, <<"hbase conf">>),
     Res(x, "phoenix scripts", {"phoenix"}, {"phoenix"}, <<"phoenix scripts">>) >>

hive_client(x) ==
  << Pkg(x, "hive", {}),
     Res(x, "usermod hive", {"hive"}, {"hive"}, <<"hive in hive">>),
     Pkg(x, "hive-hcatalog", {}),
     Res(x, "hive conf", {"hive"}, {"hive"}, <<"hive conf">>) >>

slider(x) == << Pkg(x, "slider", {}), Res(x, "slider-env.sh", {"slider"}, {"slider"}, <<"slider-env.sh">>) >>

(* Nothing orders the links, which turn hive into hive2, with the package. *)
hive2(x) ==
  << Pkg(x, "hive2", {}), Pkg(x, "tez_hive2", {}),
     Res(x, "hive2 conf", {"hive2"}, {"hive2"}, <<"hive2 conf">>),
     Res(x, "tez_hive2 conf", {"tez_hive2"}, {"tez_hive2"}, <<"tez_hive2 conf">>),
     Res(x, "hive2 links", {}, {}, <<"hive2 links">>) >>

-----------------------------------------------------------------------------
(* Zookeeper, the database, Hive and Oozie. *)

zookeeper_server(x) ==
  If(Sec(x), << Res(x, "zookeeper-server.jaas", {}, {"zookeeper conf"}, <<"zookeeper-server.jaas">>),
                Also(Here(x, {"zookeeper"}), Keytab(x, "zookeeper", {})) >>) \o
  << Pkg(x, "zookeeper-server pkg", {}),
     Res(x, "select zookeeper-server", {"zookeeper-server pkg"}, {"hdp-select"}, <<"zookeeper selected">>),
     Res(x, "zookeeper dirs", {"select zookeeper-server"}, {"zookeeper conf"}, <<"zookeeper dirs">>),
     Svc(x, "zookeeper-server",
         {"zookeeper dirs", "zookeeper unit"} \cup If2(Sec(x), {"zookeeper-server.jaas", "zookeeper.keytab"}),
         {"zookeeper dirs", "zookeeper unit", "jdk"} \cup If2(Sec(x), {"zookeeper.keytab"})),
     Res(x, "zookeeper unit", {}, {}, <<"zookeeper unit">>) >>

(* secure-mysqld answers the prompts of mysql_secure_installation, the     *)
(* first of which asks for the root password and is answered with an empty *)
(* line: it works once.  The marker it tests is made after                 *)
(* add-remote-root, which is not guarded and deletes the remote root of an *)
(* earlier run before it creates and grants it again.  setup-hive.txt      *)
(* creates the database that create-hivedb tests before it grants it.      *)
DruidDb_hive(x) ==
  Unless(x, {"mysql/hive"},
    Res(x, "create-druiddb", {"create-hivedb"}, {"mysqld"}, <<"mysql/druid", "druid grants">>))
DruidDb(x) ==
  Unless(x, {"mysql/druid"},
    Res(x, "create-druiddb", {"create-hivedb"}, {"mysqld", "root password"},
        <<"mysql/druid", "druid grants">>))

RemoteRoot_unless_secured(x) ==
  Unless(x, {"root password"},
    Res(x, "add-remote-root", {"secure-mysqld"}, {"mysqld", "root password"}, <<"root@%", "root@% grants">>))
RemoteRoot(x) ==
  [Res(x, "add-remote-root", {"secure-mysqld"}, {"mysqld", "root password"}, <<"root@%", "root@% grants">>)
   EXCEPT !.drops = Here(x, {"root@%", "root@% grants"})]

hive_db(x) ==
  << Pkg(x, "mysql pkg", {}),
     Svc(x, "mysqld", {"mysql pkg"}, {"mysql pkg"}),
     [Unless(x, {"mysql_setup_complete"},
        Res(x, "secure-mysqld", {"mysqld"}, {"mysqld"}, <<"root password">>))
      EXCEPT !.bars = Here(x, {"root password"})],
     RemoteRoot(x),
     Res(x, "mysql_setup_complete", {"add-remote-root"}, {}, <<"mysql_setup_complete">>),
     Unless(x, {"mysql/hive"},
       Res(x, "create-hivedb", {"mysql_setup_complete"}, {"mysqld", "root password"},
           <<"mysql/hive", "hive grants">>)),
     DruidDb(x) >>

AtDb(x, r) == Also(On(HostOf(x, "hive-db"), {"mysqld", "hive grants"}), r)

(* Only the schema of Hive 1 is made here: without hive2 its schematool    *)
(* does not exist and "Hive 2 Schema" is left alone.  No profile of the    *)
(* runs has both hive-meta and hive2.                                      *)
hive_meta(x) ==
  << Pkg(x, "hive-metastore pkg", {}),
     Res(x, "select hive-metastore", {"hive-metastore pkg"}, {"hdp-select"}, <<"hive-metastore selected">>),
     [AtDb(x, Res(x, "Hive 1 Schema", {"select hive-metastore"},
                  {"hive conf", "hive-metastore selected", "mysql-connector"}, <<>>))
      EXCEPT !.gives = << On(HostOf(x, "hive-db"), {"hive schema"}) >>,
             !.unless = On(HostOf(x, "hive-db"), {"hive schema"})],
     Also(On(HostOf(x, "hive-db"), {"hive schema"}),
       Svc(x, "hive-metastore", {"Hive 1 Schema", "hive-metastore unit"},
           {"hive-metastore unit", "hive conf"} \cup If2(Sec(x), {"hive.keytab"}))),
     Res(x, "hive-metastore unit", {}, {}, <<"hive-metastore unit">>) >>

hive_server2(x) ==
  << Pkg(x, "hive-server2 pkg", {}),
     Res(x, "select hive-server2", {"hive-server2 pkg"}, {"hdp-select"}, <<"hive-server2 selected">>),
     Svc(x, "hive-server2", {"select hive-server2", "hive-server2 unit"},
         {"hive-server2 unit", "hive conf"} \cup If2(Sec(x), {"hive.keytab"})),
     Res(x, "hive-server2 unit", {}, {}, <<"hive-server2 unit">>) >>

(* The class hive2 is ahead: the schematool that `unless` looks for exists. *)
(* It finds the driver of the database through hadoop-env.sh.              *)
hive2_meta(x) ==
  LET schema == On(HostOf(x, "hive-db"), {"hive schema"})
  IN << Res(x, "hive2-metastore unit", {}, {}, <<"hive2-metastore unit">>),
        [AtDb(x, Res(x, "Hive 2 Schema", {},
                     {"hive2", "hive2 conf", "hadoop conf", "mysql-connector"}, <<>>))
         EXCEPT !.gives = <<schema>>, !.unless = schema],
        Res(x, "hive2-metastore script", {"Hive 2 Schema"}, {"hive2"}, <<"hive2-metastore script">>),
        Also(schema,
          Svc(x, "hive2-metastore", {"hive2-metastore script", "hive2-metastore unit"},
              {"hive2-metastore script", "hive2-metastore unit", "hive2 conf"}
              \cup If2(Sec(x), {"hive.keytab"}))) >>

hive2_server2(x) ==
  << Svc(x, "hive2-server2", {"hive2-server2 unit", "hive2-server2 script"},
         {"hive2-server2 unit", "hive2-server2 script", "hive2 conf"} \cup If2(Sec(x), {"hive.keytab"})),
     Res(x, "hive2-server2 unit", {}, {}, <<"hive2-server2 unit">>),
     Res(x, "hive2-server2 script", {}, {"hive2"}, <<"hive2-server2 script">>) >>

hbase_server(x) == If(Sec(x), << Keytab(x, "hbase", {}) >>)

HbaseDaemon(x, d) ==
  << Pkg(x, d \o " pkg", {}),
     Res(x, "select " \o d, {d \o " pkg"}, {"hdp-select"}, <<d \o " selected">>),
     Svc(x, d, {"select " \o d, d \o " unit", "hbase conf"},
         {d \o " unit", "hbase conf"} \cup If2(Sec(x), {"hbase.keytab"})),
     Res(x, d \o " unit", {}, {}, <<d \o " unit">>) >>

hbase_master(x) == HbaseDaemon(x, "hbase-master")

hbase_regionserver(x) == HbaseDaemon(x, "hbase-regionserver")

(* createdb is guarded by the list of databases, not by that of users. *)
PgDatabase_user(x) ==
  Unless(x, {"pg vagrant"}, Res(x, "createdb vagrant", {"Create User"}, {}, <<"pg db vagrant">>))
PgDatabase(x) ==
  Unless(x, {"pg db vagrant"},
    Res(x, "createdb vagrant", {"Create User"}, {"pg vagrant"}, <<"pg db vagrant">>))

postgres_server(x) ==
  << Pkg(x, "postgresql", {}), Pkg(x, "postgresql-server", {}),
     Unless(x, {"pg_log"}, Res(x, "initdb", {"postgresql-server"}, {"postgresql-server"}, <<"pg_log">>)),
     Res(x, "postgresql conf", {"initdb"}, {"pg_log"}, <<"postgresql conf">>),
     Svc(x, "postgresql svc", {"postgresql conf"}, {"pg_log"}),
     Unless(x, {"pg vagrant"},
       Res(x, "Create User", {"postgresql svc"}, {"postgresql svc", "postgresql"}, <<"pg vagrant">>)),
     PgDatabase(x) >>

httpd(x) ==
  << Pkg(x, "httpd pkg", {}), Svc(x, "httpd", {"httpd pkg"}, {"httpd pkg"}),
     Res(x, "index.html", {"httpd pkg"}, {"httpd pkg"}, <<"index.html">>) >>

(* unzip writes index.html, which `creates` tests, among the other files.  *)
tez_ui(x) ==
  << Pkg(x, "unzip", {}),
     Res(x, "tez-ui", {}, {"httpd pkg"}, <<"tez-ui">>),
     Unless(x, {"tez-ui/index.html"},
       Res(x, "Extract the Tez UI WAR", {"tez-ui", "unzip"}, {"tez", "unzip", "tez-ui"},
           <<"tez-ui/index.html", "tez-ui files">>)),
     Res(x, "tez-ui configs", {"Extract the Tez UI WAR"}, {"tez-ui"}, <<"tez-ui configs">>),
     Res(x, "tez-ui2", {}, {"httpd pkg"}, <<"tez-ui2">>),
     [Unless(x, {"tez-ui2/index.html"},
        Res(x, "Extract the Tez2 UI WAR", {"tez-ui2", "unzip"}, {"unzip", "tez-ui2"},
            <<"tez-ui2/index.html", "tez-ui2 files">>))
      EXCEPT !.onlyif = Here(x, {"tez_hive2"})],
     Res(x, "tez-ui2 configs", {"Extract the Tez2 UI WAR"}, {"tez-ui2"}, <<"tez-ui2 configs">>) >>

(* ooziedb.sh writes the file that oozie-createdb tests before it runs it, *)
(* tar makes /tmp/share before it fills it, and a put of a directory       *)
(* makes the directory first.                                              *)
oozie_server(x) ==
  If(Sec(x), << Keytab(x, "oozie", {}), Kinit(x, "oozie", {"oozie.keytab"}) >>) \o
  << Pkg(x, "oozie pkg", If2(Sec(x), {"kinit oozie"})),
     Res(x, "oozie conf", {"oozie pkg"}, {"oozie pkg", "mysql-connector"}, <<"oozie conf">>),
     Unless(x, {"oozie.war"}, Res(x, "oozie-prepare-war", {"oozie conf"}, {"jdk"}, <<"oozie.war">>)),
     [Also(On(HostOf(x, "hive-db"), {"mysqld", "root@% grants"}),
        Res(x, "oozie-db-user", {"oozie-prepare-war"}, {}, <<>>))
      EXCEPT !.gives = << On(HostOf(x, "hive-db"), {"oozie grants"}) >>],
     Also(On(HostOf(x, "hive-db"), {"mysqld", "oozie grants"}),
       Unless(x, {"oozie.sql"},
         Res(x, "oozie-createdb", {"oozie-db-user"}, {"oozie conf"}, <<"oozie.sql", "oozie db">>))),
     Unless(x, {"/tmp/share"},
       Res(x, "untar-oozie-sharelib", {"oozie-createdb"}, {"oozie pkg"}, <<"/tmp/share", "sharelib">>)),
     Also(On(HostOf(x, "slave"), {"hadoop-hdfs-datanode"}) \cup On(HostOf(x, "nn"), {"hdfs dirs"}),
       Hdfs(x, Unless(x, {"hdfs share"},
         Res(x, "install-oozie-sharelib", {"untar-oozie-sharelib"},
             {"sharelib"} \cup If2(Sec(x), {"ticket oozie"}), <<"hdfs share", "hdfs sharelib">>)))),
     Svc(x, "oozie", {"install-oozie-sharelib"}, {"oozie.war", "oozie db", "hdfs sharelib"}) >>

(* What the hive command needs: Hive 1 asks the metastore; hive2, whose    *)
(* hive-site.xml names no metastore, opens the database itself.            *)
HiveCommand(x) ==
  IF hasrole(x, "hive2")
  THEN Here(x, {"hive2", "hive2 conf", "hive2 links"}) \cup On(HostOf(x, "hive-db"), {"mysqld", "hive schema"})
  ELSE Here(x, {"hive conf"}) \cup On(HostOf(x, "hive-meta"), {"hive-metastore"})

(* The two databases are loaded the same way, one after the other. *)
SampleDb(x, db, after) ==
  << Also(On(HostOf(x, "nn"), {"hdfs dirs"}),
       Hdfs(x, Unless(x, {"warehouse " \o db},
         Res(x, "copy " \o db, after,
             {"hadoop-hdfs-datanode"} \cup If2(Sec(x), {"ticket vagrant"}),
             <<"warehouse " \o db, "files of " \o db>>)))),
     Also(HiveCommand(x),
       Unless(x, {"some tables of " \o db},
         Res(x, "load " \o db, {"copy " \o db}, {"files of " \o db},
             <<"some tables of " \o db, "tables of " \o db>>))) >>

sample_hive_data(x) ==
  If(Sec(x), << Also(On(HostOf(x, "kdc"), {"krb5kdc", "vagrant principal"}),
                  Res(x, "kinit vagrant", {}, {"krb5.conf"}, <<"ticket vagrant">>)) >>)
  \o SampleDb(x, "foodmart.db", If2(Sec(x), {"kinit vagrant"}))
  \o SampleDb(x, "foodmart_parquet.db", {"load foodmart.db"})
=============================================================================
