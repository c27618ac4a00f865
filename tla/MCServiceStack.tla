--------------------------- MODULE MCServiceStack ---------------------------
(* Small manifests for ServiceStack: of every kind that others refer to or  *)
(* that publishes a variable one resource, two services, two databases of   *)
(* which one is named like the reader of the other, and two topics of which *)
(* one is named like the settings of the other.                             *)
EXTENDS ServiceStack

D(kind, key, refs, flags) ==
  [kind |-> kind, key |-> key, refs |-> refs, flags |-> flags, environment |-> {}]

mcWords == [x |-> <<"X">>, y |-> <<"Y">>, x_reader |-> <<"X", "READER">>, x_config |-> <<"X", "CONFIG">>]

mcStores == {
  D("kms", "x", {}, {}),
  D("bucket", "x", {Own("kms", "x"), Own("queue", "x")}, {"cdn", "presign"}),
  D("queue", "x", {Own("kms", "x")}, {}), D("secret", "x", {}, {}),
  D("database", "x", {Own("secret", "x")}, {"serverless", "named"}),
  D("database", "x_reader", {}, {"named"})}
mcCompute == {
  D("scheduler", "x", {}, {}), D("function", "x", {Own("queue", "x"), Own("bucket", "x")}, {}),
  [D("service", "x", {}, {}) EXCEPT !.environment = {<<"queue", "X">>}],
  D("service", "y", {}, {"unscalable"})}
mcEdges == {
  D("userpool", "x", {Own("function", "x")}, {}), D("api", "x", {}, {}),
  D("dns", "x", {Own("service", "x")}, {}), D("dns", "y", {Own("cdn", "x")}, {})}
mcOthers == {
  D("table", "x", {Own("kms", "x")}, {}), D("snstopic", "x", {}, {}), D("loggroup", "x", {}, {}),
  D("appconfig", "x", {}, {}), D("cache", "x", {}, {}), D("topic", "x", {}, {}),
  D("topic", "x_config", {}, {}),
  D("ses", "x", {}, {}), D("mediaconvert", "x", {}, {}), D("rum", "x", {}, {}),
  D("amplify", "x", {}, {}), D("batchjob", "x", {}, {}),
  D("websocket", "x", {Own("function", "x")}, {}),
  D("eventbus", "x", {Own("queue", "x"), Own("function", "x"), Own("snstopic", "x")}, {}),
  D("alarm", "x", {Res("media", "snstopic", "x"), Own("queue", "x")}, {})}

mcSpecs == mcStores \cup mcCompute \cup mcEdges \cup mcOthers

\* References to another service, each intent on each kind of resource.
mcUses == {[on |-> Res("media", kind, "x"), access |-> a] :
  kind \in {"bucket", "table", "queue", "snstopic", "secret", "function"},
  a \in Intents}

\* The other kinds come all together or not at all, and only with them does it
\* matter where the stack is deployed or that the synthesis ends at a service.  One
\* manifest is tried with every two foreign references.
mcCore == mcStores \cup mcCompute \cup mcEdges
mcPair == {s \in mcSpecs : s.kind \in {"function", "service", "queue"} /\ s.flags = {}}
mcInit ==
  /\ \/ uses = {} /\ owns \in SUBSET {s \in mcCore : "unscalable" \notin s.flags} /\ deployEnv = "dev"
     \/ uses = {} /\ owns \in {o \cup mcOthers : o \in SUBSET (mcCompute \cup mcEdges)} /\ deployEnv \in {"local", "dev"}
     \/ uses \in {{r, q} : r, q \in mcUses} /\ owns = mcPair /\ deployEnv = "dev"
  /\ SInit
mcSpec == mcInit /\ [][SNext]_sVars
mcDeployEnvs == {"local", "dev"}
=============================================================================
