-------------------------------- MODULE Site --------------------------------
(***************************************************************************)
(* environments/structor/manifests/site.pp: which classes a node includes, *)
(* the edges it adds between them, and the catalog puppet compiles from    *)
(* them: the resources in evaluation order, their dependencies, and the    *)
(* order in which they are visited.                                        *)
(***************************************************************************)
EXTENDS Manifests, Guards, FiniteSets, SequencesExt

(* The classes whose manifests are modelled, and the bodies they have. *)
Body(c, x) ==
  CASE c = "repos_setup" -> repos_setup(x)
    [] c = "vm_users" -> vm_users(x)
    [] c = "ip_setup" -> ip_setup(x)
    [] c = "selinux" -> selinux(x)
    [] c = "weak_random" -> weak_random(x)
    [] c = "ntp" -> ntp(x)
    [] c = "hdp_select" -> hdp_select(x)
    [] c = "jdk" -> jdk(x)
    [] c = "os_performance" -> os_performance(x)
    [] c = "mysql_connector" -> mysql_connector(x)
    [] c = "kerberos_client" -> kerberos_client(x)
    [] c = "kerberos_kdc" -> kerberos_kdc(x)
    [] c = "kerberos_http" -> kerberos_http(x)
    [] c = "ssl_ca" -> ssl_ca(x)
    [] c = "hive_keytab" -> hive_keytab(x)
    [] c = "load_hdfs_keytab" -> load_hdfs_keytab(x)
    [] c = "hdfs_client" -> hdfs_client(x)
    [] c = "yarn_client" -> yarn_client(x)
    [] c = "hadoop_server" -> hadoop_server(x)
    [] c = "hdfs_namenode" -> hdfs_namenode(x)
    [] c = "hdfs_datanode" -> hdfs_datanode(x)
    [] c = "yarn_resource_manager" -> yarn_resource_manager(x)
    [] c = "yarn_node_manager" -> yarn_node_manager(x)
    [] c = "yarn_timelineserver" -> yarn_timelineserver(x)
    [] c = "install_hdfs_tarballs" -> install_hdfs_tarballs(x)
    [] c = "tez_client" -> tez_client(x)
    [] c = "pig_client" -> pig_client(x)
    [] c = "oozie_client" -> oozie_client(x)
    [] c = "zookeeper_client" -> zookeeper_client(x)
    [] c = "zookeeper_server" -> zookeeper_server(x)
    [] c = "hive_db" -> hive_db(x)
    [] c = "hive_client" -> hive_client(x)
    [] c = "hive_meta" -> hive_meta(x)
    [] c = "hive_server2" -> hive_server2(x)
    [] c = "slider" -> slider(x)
    [] c = "hive2" -> hive2(x)
    [] c = "hive2_meta" -> hive2_meta(x)
    [] c = "hive2_server2" -> hive2_server2(x)
    [] c = "oozie_server" -> oozie_server(x)
    [] c = "sample_hive_data" -> sample_hive_data(x)
    [] c = "yarnlocaltop_client" -> yarnlocaltop_client(x)
    [] c = "odbc_client" -> odbc_client(x)
    [] c = "hbase_client" -> hbase_client(x)
    [] c = "hbase_server" -> hbase_server(x)
    [] c = "hbase_master" -> hbase_master(x)
    [] c = "hbase_regionserver" -> hbase_regionserver(x)
    [] c = "postgres_server" -> postgres_server(x)
    [] c = "httpd" -> httpd(x)
    [] c = "tez_ui" -> tez_ui(x)

(* `require` evaluates the class on the spot and puts all of it ahead. *)
Requires(c, x) ==
  CASE c \in {"weak_random", "hdp_select", "postgres_server"} -> <<"repos_setup">>
    [] c = "kerberos_client" -> <<"ntp">>
    [] c = "kerberos_kdc" -> <<"kerberos_client">>
    [] c = "kerberos_http" -> <<"hadoop_server", "kerberos_client", "ssl_ca">>
    [] c \in {"ssl_ca", "yarnlocaltop_client"} -> <<"jdk">>
    [] c = "load_hdfs_keytab" -> <<"hdfs_datanode">>
    [] c = "hdfs_client" -> <<"repos_setup", "hdp_select", "jdk">>
                            \o If(Sec(x), <<"kerberos_client", "ssl_ca">>)
    [] c = "yarn_client" -> <<"repos_setup", "jdk", "hdfs_client">>
    [] c = "hadoop_server" -> <<"hdfs_client", "yarn_client">>
    [] c \in {"hdfs_namenode", "hdfs_datanode"} ->
         <<"hdfs_client", "hadoop_server">> \o If(Sec(x), <<"kerberos_http">>)
    [] c \in {"yarn_resource_manager", "yarn_node_manager"} ->
         <<"yarn_client", "hadoop_server">> \o If(Sec(x), <<"kerberos_http">>)
    [] c = "yarn_timelineserver" ->
         <<"yarn_client">> \o If(Sec(x), <<"kerberos_http", "hdfs_client">>)
    [] c = "install_hdfs_tarballs" ->
         <<"hdfs_datanode">> \o If(Sec(x), <<"load_hdfs_keytab">>)
         \o If(hasclient(x, "yarn"), <<"yarn_client">>) \o If(hasclient(x, "tez"), <<"tez_client">>)
         \o If(hasclient(x, "hive2"), <<"hive2">>)
    [] c \in {"tez_client", "pig_client"} -> <<"yarn_client">>
    [] c = "oozie_client" -> <<"repos_setup", "hdp_select">>
    [] c = "zookeeper_client" -> <<"repos_setup", "hdp_select", "jdk">>
    [] c = "zookeeper_server" -> <<"zookeeper_client">>
    [] c = "hive_db" -> <<"mysql_connector">>
    [] c = "hive_client" -> <<"yarn_client", "mysql_connector">>
    [] c = "hive_meta" -> <<"hive_client", "hive_db">> \o If(Sec(x), <<"hive_keytab">>)
    [] c = "hive_server2" -> <<"hive_client", "os_performance">> \o If(Sec(x), <<"hive_keytab">>)
    [] c = "slider" -> <<"repos_setup", "jdk">>
    [] c = "hive2_meta" -> <<"hive2", "hive_db">> \o If(Sec(x), <<"hive_keytab">>)
    [] c = "hive2_server2" -> <<"hive2", "os_performance">>
    [] c = "oozie_server" ->
         <<"repos_setup", "hdp_select", "hdfs_client", "hive_client">> \o If(Sec(x), <<"kerberos_http">>)
    [] c = "sample_hive_data" -> If(Sec(x), <<"kerberos_client">>)
    [] c = "hbase_client" -> <<"hdfs_client", "zookeeper_client">>
    [] c = "hbase_server" ->
         <<"hdfs_client", "zookeeper_client", "hbase_client">> \o If(Sec(x), <<"kerberos_http">>)
    [] c = "hbase_master" -> <<"hbase_server", "zookeeper_server">>
    [] c = "hbase_regionserver" -> <<"hbase_server">>
    [] c = "tez_ui" -> <<"httpd", "tez_client">>
    [] OTHER -> <<>>

-----------------------------------------------------------------------------
(* site.pp *)

When(cond, c) == If(cond, <<c>>)

(* The include statements, in order. *)
Includes(x) ==
  <<"repos_setup", "vm_users", "ip_setup", "selinux", "weak_random", "ntp">>
  \o When(Sec(x), "kerberos_client")
  \o When(Sec(x) /\ hasrole(x, "kdc"), "kerberos_kdc")
  \o If(hasrole(x, "client"),
        When(hasclient(x, "hbase"), "hbase_client")
        \o When(hasclient(x, "hdfs"), "hdfs_client")
        \o When(hasclient(x, "hive"), "hive_client")
        \o When(hasclient(x, "odbc"), "odbc_client")
        \o When(hasclient(x, "oozie"), "oozie_client")
        \o When(hasclient(x, "pig"), "pig_client")
        \o When(hasclient(x, "slider"), "slider")
        \o When(hasclient(x, "tez"), "tez_client")
        \o When(hasclient(x, "yarn"), "yarn_client")
        \o When(hasclient(x, "yarnlocaltop"), "yarnlocaltop_client")
        \o When(hasclient(x, "zk"), "zookeeper_client"))
  \o When(hasrole(x, "druid-flighttracker"), "druid_flighttracker")
  \o When(hasrole(x, "hbase-master"), "hbase_master")
  \o When(hasrole(x, "hbase-regionserver"), "hbase_regionserver")
  \o When(hasrole(x, "hive-db"), "hive_db")
  \o When(hasrole(x, "hive-meta"), "hive_meta")
  \o When(hasrole(x, "hive-server2"), "hive_server2")
  \o When(hasrole(x, "hive2"), "hive2")
  \o When(hasrole(x, "hive2-meta"), "hive2_meta")
  \o When(hasrole(x, "hive2-server2"), "hive2_server2")
  \o When(hasrole(x, "hive-llap"), "hive_llap")
  \o When(hasrole(x, "httpd"), "httpd")
  \o When(hasrole(x, "nn"), "hdfs_namenode")
  \o When(hasrole(x, "oozie"), "oozie_server")
  \o When(hasrole(x, "postgres"), "postgres_server")
  \o If(hasrole(x, "slave"), <<"hdfs_datanode", "yarn_node_manager">>)
  \o When(hasrole(x, "tez-ui"), "tez_ui")
  \o When(hasrole(x, "yarn"), "yarn_resource_manager")
  \o When(hasrole(x, "yarn-timelineserver"), "yarn_timelineserver")
  \o When(hasrole(x, "zk"), "zookeeper_server")
  \o When(islastslave(x), "install_hdfs_tarballs")
  \o When(islastslave(x) /\ "sample-hive-data" \in x.p.extras, "sample_hive_data")

(* Class[a] -> Class[b] when the node has the roles of both. *)
Edge_not_from_nn(x, ra, rb, a, b) ==
  If2(ra # "nn" /\ hasrole(x, ra) /\ hasrole(x, rb), {<<a, b>>})
Edge(x, ra, rb, a, b) == If2(hasrole(x, ra) /\ hasrole(x, rb), {<<a, b>>})

Edges(x) ==
  If2(islastslave(x) /\ "sample-hive-data" \in x.p.extras,
      {<<"install_hdfs_tarballs", "sample_hive_data">>})
  \cup If2(Sec(x), Edge(x, "kdc", "hbase-master", "kerberos_kdc", "hbase_master")
                   \cup Edge(x, "kdc", "hive-meta", "kerberos_kdc", "hive_meta")
                   \cup Edge(x, "kdc", "hbase-regionserver", "kerberos_kdc", "hbase_regionserver")
                   \cup Edge(x, "kdc", "nn", "kerberos_kdc", "hdfs_namenode"))
  \cup Edge(x, "nn", "slave", "hdfs_namenode", "hdfs_datanode")
  \cup Edge(x, "nn", "yarn", "hdfs_namenode", "yarn_resource_manager")
  \cup Edge(x, "nn", "hive-meta", "hdfs_namenode", "hive_meta")
  \cup Edge(x, "nn", "oozie", "hdfs_namenode", "oozie_server")
  \cup Edge(x, "nn", "hbase-master", "hdfs_namenode", "hbase_master")
  \cup Edge(x, "nn", "hbase-regionserver", "hdfs_namenode", "hbase_regionserver")
  \cup Edge(x, "hive-db", "hive-meta", "hive_db", "hive_meta")
  \cup Edge(x, "hive-db", "oozie", "hive_db", "oozie_server")
  \cup Edge(x, "hive-server2", "hive-meta", "hive_meta", "hive_server2")
  \cup Edge(x, "hive-server2", "hive-llap", "hive_meta", "hive_llap")
  \cup Edge(x, "slave", "oozie", "hdfs_datanode", "oozie_server")
  \cup Edge(x, "slave", "hive-server2", "hdfs_datanode", "hive_server2")
  \cup Edge(x, "slave", "hive2-server2", "hdfs_datanode", "hive2_server2")
  \cup Edge(x, "hbase-master", "hbase-regionserver", "hbase_master", "hbase_regionserver")
  \cup Edge(x, "hbase-master", "slave", "hdfs_datanode", "hbase_master")

-----------------------------------------------------------------------------
(* Compiling the catalog. *)

(* s, listed: TLC computes its elements once. *)
Listed(s) == SubSeq(s, 1, Len(s))

(* The first occurrences in s. *)
FirstOnly(s) ==
  FlattenSeq(Listed([i \in DOMAIN s |-> IF \E j \in 1..(i - 1) : s[j] = s[i] THEN <<>> ELSE <<s[i]>>]))

(* The classes in the order of their evaluation: a class comes after those *)
(* it requires, once.  No chain of requires is longer than RequireDepth.   *)
RequireDepth == 8
Catalog(x) ==
  LET one(cs) == FirstOnly(FlattenSeq(Listed([i \in DOMAIN cs |-> Append(Requires(cs[i], x), cs[i])])))
      round[k \in 0..RequireDepth] == IF k = 0 THEN Includes(x) ELSE LET cs == round[k - 1] IN one(cs)
  IN round[RequireDepth]

(* The edges between the classes cs of the catalog: those of site.pp, the  *)
(* one that kerberos_http declares, and the requires.                      *)
ClassEdges(x, cs) ==
  Edges(x)
  \cup If2(Sec(x) /\ hasrole(x, "kdc") /\ "kerberos_http" \in cs,
           {<<"kerberos_kdc", "kerberos_http">>})
  \cup UNION {{<<a, c>> : a \in Range(Requires(c, x))} : c \in cs}

(* The include of a module that is not there, an edge to a class the node  *)
(* does not have, the exec "Hive 2 Schema" of two classes, and a template  *)
(* that looks for a role no node has, are compilation errors.              *)
Missing == {"druid_flighttracker", "hive_llap"}
Compiled(x, cs) ==
  /\ cs \cap Missing = {} /\ ~({"hive_meta", "hive2_meta"} \subseteq cs)
  /\ \A e \in ClassEdges(x, cs) : e[1] \in cs /\ e[2] \in cs
  /\ "hdfs_client" \in cs => With(x.p, "nn") # {}
  /\ "kerberos_client" \in cs => With(x.p, "kdc") # {}
  /\ "oozie_server" \in cs => With(x.p, "hive-db") # {}

(* The resources of the classes cs in evaluation order, each with its      *)
(* class.                                                                  *)
OfClass(c, b) == Listed([k \in DOMAIN b |-> [res |-> b[k], cls |-> c]])
Declared(x, cs) == FlattenSeq(Listed([i \in DOMAIN cs |-> OfClass(cs[i], Body(cs[i], x))]))

(* The classes that are ahead of c: no path of edges is longer than the    *)
(* number of classes.                                                      *)
Ahead(c, es, n) ==
  LET step(cs) == cs \cup {e[1] : e \in {e \in es : e[2] \in cs}}
      upto[k \in 0..n] == IF k = 0 THEN {c} ELSE LET cs == upto[k - 1] IN step(cs)
  IN upto[n] \ {c}

(* The catalog: each resource of ds waits for the titles it names, for     *)
(* those it requires by itself when the catalog has them, and for all of   *)
(* the classes ahead of its own.                                           *)
Resolved(ds, cs, es) ==
  LET titles == {ds[k].res.id : k \in DOMAIN ds}
      titlesOf(S) == {ds[k].res.id : k \in {j \in DOMAIN ds : ds[j].cls \in S}}
      before == Listed([i \in DOMAIN cs |-> titlesOf(Ahead(cs[i], es, Len(cs)))])
      resolve(r, c) == [id |-> r.id, needs |-> r.needs, bars |-> r.bars,
                        unless |-> r.unless, onlyif |-> r.onlyif,
                        gives |-> r.gives, drops |-> r.drops,
                        deps |-> r.after \cup (r.auto \cap titles)
                                 \cup before[CHOOSE i \in DOMAIN cs : cs[i] = c]]
  IN Listed([k \in DOMAIN ds |-> resolve(ds[k].res, ds[k].cls)])

(* The next visit: of the resources whose dependencies were visited, the   *)
(* one declared first.  Resources that wait for each other are never       *)
(* visited.                                                                *)
Visit(rs, order) ==
  LET seen == {order[i].id : i \in DOMAIN order}
      ready == {j \in DOMAIN rs : rs[j].id \notin seen /\ rs[j].deps \subseteq seen}
  IN IF ready = {} THEN order ELSE Append(order, rs[FirstOf(ready)])

(* The order of the visits, in legs of LegLength: the recursion of a       *)
(* catalog of N resources is N \div LegLength + LegLength deep.            *)
LegLength == 12
Scheduled(rs) ==
  LET visits(order) ==
        LET after[k \in 0..LegLength] ==
              IF k = 0 THEN order ELSE LET o == after[k - 1] IN Visit(rs, o)
        IN after[LegLength]
      leg[k \in 0..(Len(rs) \div LegLength + 1)] ==
        IF k = 0 THEN <<>>
        ELSE LET order == leg[k - 1] IN IF Len(order) = Len(rs) THEN order ELSE visits(order)
  IN leg[Len(rs) \div LegLength + 1]

(* A dependency cycle, which puppet reports instead of a run. *)
Acyclic(order, ds) == Len(order) = Len(ds)

-----------------------------------------------------------------------------
(* The catalogs of a profile, and the constants of Provision they give.    *)

Context(p, i) == [p |-> p, n |-> i]

CatalogFor(x, cs) == Scheduled(Resolved(Declared(x, cs), cs, ClassEdges(x, Range(cs))))
CatalogsOf(p) ==
  Listed([i \in DOMAIN p.nodes |-> LET x == Context(p, i) IN CatalogFor(x, Catalog(x))])

CompilesWith(x, cs, order) == Compiled(x, Range(cs)) /\ Acyclic(order, Declared(x, cs))
CompilesOf(p, plan) ==
  {i \in DOMAIN p.nodes : LET x == Context(p, i) IN CompilesWith(x, Catalog(x), plan[i])}

FactsOf(plan) ==
  UNION {UNION {plan[i][k].needs \cup UNION Range(plan[i][k].gives) : k \in DOMAIN plan[i]} : i \in DOMAIN plan}

(* What there is when resource k of node i dies after j of the things it   *)
(* establishes, in a first run that applied all before it.                 *)
HalfWay(plan, i, k, j) ==
  LET before == UNION {UNION {All(plan[h][m].gives) : m \in 1..(IF h < i THEN Len(plan[h]) ELSE k - 1)} : h \in 1..i}
  IN (before \ plan[i][k].drops) \cup First(plan[i][k].gives, j)

(* The commands that can die so that a guard is true of half-done work, or *)
(* that leave behind what a command clashes with that is run again.        *)
OneShotOf(plan) ==
  LET rs == UNION {Range(plan[i]) : i \in DOMAIN plan}
  IN UNION {{<<i, plan[i][k].id>> : k \in {k \in DOMAIN plan[i] :
               \E j \in 0..(Len(plan[i][k].gives) - 1) : ~Truthful(rs, HalfWay(plan, i, k, j))}}
            : i \in DOMAIN plan}
=============================================================================
