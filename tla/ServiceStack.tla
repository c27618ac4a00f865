---------------------------- MODULE ServiceStack ----------------------------
(***************************************************************************)
(* How a service's manifest becomes its cloud stack: the constructor of    *)
(* cloud/src/lib/ServiceStack.ts, and the CloudResolver that reads at run  *)
(* time what the stack has put in the environment of its compute.          *)
(*                                                                         *)
(* The constructor goes through the kinds of resource in a fixed order.    *)
(* Each maker looks its references up among what earlier makers left in    *)
(* the maps of the stack, drops without a word those it does not find, and *)
(* adds its identifier to the one table of variables; a job or a service   *)
(* copies that table as it stands when it is made.  So what a stack is     *)
(* depends on the order, which no type checks.                             *)
(***************************************************************************)
EXTENDS Naturals, Sequences

CONSTANTS Specs,    \* the resources a manifest may declare
          Uses,     \* the references to other services' resources it may hold
          Words,    \* Words[key]: the key as envVarName() spells it, in words
          DeployEnvs

\* The order of the constructor.
Order == <<"kms", "bucket", "table", "queue", "secret", "snstopic", "loggroup",
           "appconfig", "database", "cache", "topic", "ses", "mediaconvert",
           "rum", "amplify", "scheduler", "function", "service", "batchjob",
           "userpool", "api", "websocket", "eventbus", "alarm", "dns">>
Kinds == {Order[i] : i \in 1..Len(Order)}

\* A resource, ours or another service's.
Res(owner, kind, key) == [owner |-> owner, kind |-> kind, key |-> key]
Own(kind, key) == Res("self", kind, key)

\* What a resource of a kind names of its own service by the key alone: a CMK,
\* the credentials, the jobs behind triggers and routes.
ByKey == [k \in Kinds |->
  CASE k \in {"bucket", "table", "queue"} -> {"kms"}
    [] k = "database" -> {"secret"}
    [] k \in {"userpool", "websocket"} -> {"function"}
    [] OTHER -> {}]

\* The kinds that hold ResourceRefs, each to any kind of resource of any service:
\* the notifications of a bucket, the triggers of a job, the targets of a bus's
\* rules, the actions of an alarm, the alias of a record.
HoldRefs == {"bucket", "function", "eventbus", "alarm", "dns"}

\* The references that the maker of a kind looks up.  It passes over the others:
\* a bucket's notifications and a job's triggers by anything but a queue too.
LooksUp == [k \in Kinds |->
  CASE k = "function" -> {"queue"}
    [] k = "eventbus" -> {"queue", "function"}
    [] k = "alarm"    -> {"snstopic"}
    [] k = "dns"      -> {"cdn", "service", "api"}
    [] OTHER          -> ByKey[k]]

\* AccessIntent.
Intents == {"read", "write", "readwrite", "send", "consume", "publish", "subscribe",
            "invoke", "admin"}

\* Of a declaration: refs are the resources it names, environment the variables a
\* job or service sets by itself, flags its options.
ASSUME SpecsAssumption ==
  /\ \A s \in Specs :
       /\ s.kind \in Kinds /\ s.key \in DOMAIN Words
       /\ \A r \in s.refs : s.kind \in HoldRefs \/ (r.owner = "self" /\ r.kind \in ByKey[s.kind])
       /\ s.flags \subseteq {"cdn", "presign", "serverless", "named", "unscalable"}
  /\ \A r \in Uses : r.on.owner # "self" /\ r.access \in Intents
  /\ \A key \in DOMAIN Words : Words[key] \in Seq({Words[key][i] : i \in DOMAIN Words[key]})
  /\ DeployEnvs \subseteq {"local", "dev", "staging", "production"}

VARIABLES owns, uses, deployEnv,   \* the manifest and the environment
          progress,     \* "making", "done", or "failed": it threw
          made,      \* the declarations whose maker has run
          granted,   \* the references whose grant has been made
          exists,    \* the resources in the template
          env,       \* envVars: a variable's name to the identifier it holds
          compute,   \* the environment of each job and service
          links,     \* the references resolved, from one resource to another
          grants,    \* what a role may do, on which resource
          alb,       \* the service whose load balancer the API is put in front of
          target,    \* lambdas[0]
          pool       \* the first user pool

inputVars == <<owns, uses, deployEnv>>
stackVars == <<exists, env, compute, links, grants, alb, target, pool>>
sVars == <<inputVars, progress, made, granted, stackVars>>

Nobody == Res("nobody", "none", "")

SInit ==
  /\ owns \in SUBSET Specs /\ uses \in SUBSET Uses /\ deployEnv \in DeployEnvs
  /\ progress = "making" /\ made = {} /\ granted = {}
  /\ exists = {}
  /\ env = << >> /\ compute = << >>
  /\ links = {} /\ grants = {}
  /\ alb = Nobody /\ target = Nobody /\ pool = Nobody

-----------------------------------------------------------------------------
Id(s) == Own(s.kind, s.key)

\* envVarName(): the kind and the words of the key.
EnvVarName(kind, key) == <<kind>> \o Words[key]

Grant(who, mays, on) == {[who |-> who, may |-> m, on |-> on] : m \in mays}

\* grantOwned(): what compute may do with each resource of its service.
Rights == [table |-> {"read", "write"}, bucket |-> {"read", "write"},
           queue |-> {"send", "consume"}, kms |-> {"use"},
           secret |-> {"read"}, snstopic |-> {"publish"}]
GrantOwned(who) ==
  UNION {Grant(who, Rights[r.kind], r) : r \in {x \in exists : x.kind \in DOMAIN Rights}}

\* A job is looked for among the lambdas by comparing functionName with its
\* physical name; CDK's name attribute of a function is a token until deployment
\* and equals no literal, so none is found.
LambdaNamed(key) == {}

\* A maker looks up what its declaration names and links what it finds.  The maps
\* hold the resources of this stack by their keys: the service that a reference
\* names is not looked at.
Named(r) == Own(r.kind, r.key)
Lookups(s, r) ==
  CASE r.kind \notin LooksUp[s.kind] -> {}
    [] r.kind = "function"           -> LambdaNamed(r.key)
    [] OTHER                         -> {Named(r)} \cap exists
Found(s) == {[from |-> Id(s), to |-> x] : x \in UNION {Lookups(s, r) : r \in s.refs}}

\* One variable, and the variables of f with those of g that f has not.
Var(name, id) == [v \in {name} |-> id]
Over(f, g) == [v \in DOMAIN f \cup DOMAIN g |-> IF v \in DOMAIN f THEN f[v] ELSE g[v]]

\* The identifier is published under one name, after it under those of `more'.
Published(s) == Var(EnvVarName(s.kind, s.key), Id(s))
Declare(s, new, more) ==
  /\ exists' = exists \cup new
  /\ env' = Over(more, env)
  /\ links' = links \cup Found(s)
Nothing == UNCHANGED <<compute, grants, alb, target, pool>>

Plain(s, kind) == s.kind = kind /\ Declare(s, {Id(s)}, Published(s)) /\ Nothing
Silent(s, kind) == s.kind = kind /\ Declare(s, {Id(s)}, << >>) /\ Nothing

MakeKey(s)       == Plain(s, "kms")
MakeTable(s)     == Plain(s, "table")
MakeQueue(s)     == Plain(s, "queue")
MakeSecret(s)    == Plain(s, "secret")
MakeSnsTopic(s)  == Plain(s, "snstopic")
MakeLogGroup(s)  == Silent(s, "loggroup")
MakeAppConfig(s) == Plain(s, "appconfig")
MakeCache(s)     == Plain(s, "cache")
MakeSes(s)       == Plain(s, "ses")
MakeBatchJob(s)  == Plain(s, "batchjob")

\* A bucket, its distribution if it is served by one, and the presigner, a
\* function that is neither a job nor given the grants of compute.
MakeBucket(s) ==
  LET cdn == IF "cdn" \in s.flags THEN {Own("cdn", s.key)} ELSE {}
      signer == Own("presigner", s.key)
  IN /\ s.kind = "bucket"
     /\ Declare(s, {Id(s)} \cup cdn \cup (IF "presign" \in s.flags THEN {signer} ELSE {}),
                Over([v \in {EnvVarName(r.kind, r.key) : r \in cdn} |-> Own("cdn", s.key)], Published(s)))
     /\ grants' = grants \cup (IF "presign" \in s.flags THEN Grant(signer, {"write"}, Id(s)) ELSE {})
     /\ UNCHANGED <<compute, alb, target, pool>>

\* A database behind its proxy: one user name for all, the name of the last one
\* that has a name, and the reader of a serverless one under its own variable.
MakeDatabase(s) ==
  LET reader == IF "serverless" \in s.flags
                THEN Var(EnvVarName(s.kind, s.key) \o <<"READER">>, Own("reader", s.key)) ELSE << >>
      name == IF "named" \in s.flags THEN Var(<<"DB", "NAME">>, Id(s)) ELSE << >>
  IN /\ s.kind = "database"
     /\ Declare(s, {Id(s)}, Over(reader, Over(name, Over(Var(<<"DB", "USER">>, Nobody), Published(s)))))
     /\ Nothing

\* A topic is no resource of the stack; its name and its settings are published.
MakeTopic(s) ==
  /\ s.kind = "topic"
  /\ Declare(s, {}, Over(Var(EnvVarName("topic", s.key) \o <<"CONFIG">>, Id(s)), Published(s)))
  /\ Nothing

\* Kinds LocalStack has no emulation of are skipped there.
SkipLocal(kind) == deployEnv = "local" /\ kind \in {"mediaconvert", "rum", "amplify"}
MakeUnlessLocal(s, kind) ==
  \/ ~SkipLocal(kind) /\ Plain(s, kind)
  \/ s.kind = kind /\ SkipLocal(kind) /\ UNCHANGED stackVars
MakeMediaConvert(s) == MakeUnlessLocal(s, "mediaconvert")
MakeRum(s)          == MakeUnlessLocal(s, "rum")
MakeAmplify(s)      == MakeUnlessLocal(s, "amplify")

\* The schedule group and the role deliveries are made with.
MakeScheduler(s) ==
  /\ s.kind = "scheduler"
  /\ Declare(s, {Id(s)}, [v \in {<<"SCHEDULER", "ROLE_ARN">>, <<"SCHEDULER", "GROUP">>} |-> Id(s)])
  /\ Nothing

\* What a job or service is made with: the variables there are by now, under its own.
Environment(s) == Over([v \in s.environment |-> Nobody], Over(Var(<<"ENVIRONMENT">>, Nobody), env))

MakeJob(s) ==
  /\ s.kind = "function"
  /\ Declare(s, {Id(s)}, << >>)
  /\ compute' = Over(Var(Id(s), Environment(s)), compute)
  /\ grants' = grants \cup GrantOwned(Id(s))
  /\ target' = IF target = Nobody THEN Id(s) ELSE target
  /\ UNCHANGED <<alb, pool>>

\* The service made last is the one with the load balancer.
MakeEcsService(s) ==
  /\ s.kind = "service" /\ "unscalable" \notin s.flags
  /\ Declare(s, {Id(s)}, << >>)
  /\ compute' = Over(Var(Id(s), Environment(s)), compute)
  /\ grants' = grants \cup GrantOwned(Id(s))
  /\ alb' = Id(s)
  /\ UNCHANGED <<target, pool>>

MakeUserPool(s) ==
  /\ s.kind = "userpool"
  /\ Declare(s, {Id(s)}, Published(s))
  /\ pool' = IF pool = Nobody THEN Id(s) ELSE pool
  /\ UNCHANGED <<compute, grants, alb, target>>

\* The API is linked to the pool that authorizes its callers, to the load
\* balancer or else the first job, and to every presigner.
MakeApi(s) ==
  LET behind == IF alb # Nobody THEN alb ELSE target
  IN /\ s.kind = "api"
     /\ exists' = exists \cup {Id(s)}
     /\ env' = Over(Published(s), env)
     /\ links' = links \cup {[from |-> Id(s), to |-> r] :
                  r \in ({pool, behind} \ {Nobody}) \cup {x \in exists : x.kind = "presigner"}}
     /\ Nothing

MakeWebSocketApi(s) == Plain(s, "websocket")
MakeEventBus(s)     == Plain(s, "eventbus")
MakeAlarm(s)        == Silent(s, "alarm")

\* aliasTarget(): a distribution by its key, anything else the load balancer.
AliasTarget(r) == IF r.kind = "cdn" THEN Named(r) ELSE alb
MakeDnsRecord(s) ==
  /\ s.kind = "dns"
  /\ exists' = exists \cup {Id(s)}
  /\ links' = links \cup {[from |-> Id(s), to |-> AliasTarget(r)] :
                           r \in {q \in s.refs : q.kind \in LooksUp["dns"] /\ AliasTarget(q) \in exists}}
  /\ UNCHANGED env /\ Nothing

MakeOne(s) ==
  \/ MakeKey(s) \/ MakeBucket(s) \/ MakeTable(s) \/ MakeQueue(s) \/ MakeSecret(s)
  \/ MakeSnsTopic(s) \/ MakeLogGroup(s) \/ MakeAppConfig(s) \/ MakeDatabase(s)
  \/ MakeCache(s) \/ MakeTopic(s) \/ MakeSes(s) \/ MakeMediaConvert(s) \/ MakeRum(s)
  \/ MakeAmplify(s) \/ MakeScheduler(s) \/ MakeJob(s) \/ MakeEcsService(s)
  \/ MakeBatchJob(s) \/ MakeUserPool(s) \/ MakeApi(s) \/ MakeWebSocketApi(s)
  \/ MakeEventBus(s) \/ MakeAlarm(s) \/ MakeDnsRecord(s)

\* Variants: the jobs are made before the stores they use; the API before the pool.
JobsFirst == <<"function">> \o SelectSeq(Order, LAMBDA k : k # "function")
ApiFirst  == <<"api">> \o SelectSeq(Order, LAMBDA k : k # "api")

\* The kinds in the order the constructor takes them.
Sequence == Order
Rank(kind) == CHOOSE i \in 1..Len(Sequence) : Sequence[i] = kind

\* The next maker: kind by kind, in the order of the manifest's array, which is any.
Make(s) ==
  /\ progress = "making"
  /\ s \in owns \ made
  /\ \A t \in owns \ made : Rank(s.kind) <= Rank(t.kind)
  /\ MakeOne(s)
  /\ made' = made \cup {s}
  /\ UNCHANGED <<inputVars, progress, granted>>

\* A service whose autoscaling bounds contradict each other ends the synthesis.
MakeThrows(s) ==
  /\ progress = "making"
  /\ s \in owns \ made /\ s.kind = "service" /\ "unscalable" \in s.flags
  /\ \A t \in owns \ made : Rank(s.kind) <= Rank(t.kind)
  /\ progress' = "failed"
  /\ UNCHANGED <<inputVars, made, granted, stackVars>>

-----------------------------------------------------------------------------
\* grantUses(): what compute gets on another service's resource.
UsesRights(r) ==
  CASE r.on.kind \in {"bucket", "table"} ->
         (CASE r.access = "read"      -> {"read"}
            [] r.access = "write"     -> {"write"}
            [] r.access = "readwrite" -> {"read", "write"}
            [] OTHER                  -> {})
    [] r.on.kind = "queue" ->
         (CASE r.access = "send"      -> {"send"}
            [] r.access = "consume"   -> {"consume"}
            [] OTHER                  -> {"send", "consume"})
    [] r.on.kind = "snstopic" -> (IF r.access # "subscribe" THEN {"publish"} ELSE {})
    [] r.on.kind = "secret" -> {"read"}
    [] OTHER -> {}

\* A foreign resource is imported under an id of its own, which the stack may have
\* only once: a second reference to it ends the synthesis.
Imported == {"bucket", "table", "queue", "snstopic", "secret"}
Twice(r) == r.on.kind \in Imported /\ \E q \in granted : q.on = r.on
GrantThrows(r) ==
  /\ progress = "making" /\ made = owns
  /\ r \in uses \ granted /\ Twice(r)
  /\ progress' = "failed"
  /\ UNCHANGED <<inputVars, made, granted, stackVars>>

\* Variant: only the first job gets the grants.
GrantUsesOnce(r) ==
  /\ progress = "making" /\ made = owns
  /\ r \in uses \ granted /\ ~Twice(r)
  /\ granted' = granted \cup {r}
  /\ grants' = grants \cup Grant(target, UsesRights(r), r.on)
  /\ UNCHANGED <<inputVars, progress, made, exists, env, compute, links, alb, target, pool>>

GrantUses(r) ==
  /\ progress = "making" /\ made = owns
  /\ r \in uses \ granted /\ ~Twice(r)
  /\ granted' = granted \cup {r}
  /\ grants' = grants \cup UNION {Grant(who, UsesRights(r), r.on) : who \in DOMAIN compute}
  /\ UNCHANGED <<inputVars, progress, made, exists, env, compute, links, alb, target, pool>>

Owned(kind) == {r \in exists : r.kind = kind}

GrantDatabaseConnect ==
  UNION {Grant(who, {"connect"}, db) : who \in DOMAIN compute, db \in Owned("database")}

\* The role delivers to queues and jobs; compute manages schedules and may pass
\* the role on.
SchedulerGrants(role) ==
  UNION ({Grant(role, {"send"}, q) : q \in Owned("queue")}
         \cup {Grant(role, {"invoke"}, f) : f \in Owned("function")}
         \cup {Grant(who, {"manage", "pass"}, role) : who \in DOMAIN compute})
GrantSchedulerAccess == UNION {SchedulerGrants(role) : role \in Owned("scheduler")}

Finish ==
  /\ progress = "making" /\ made = owns /\ granted = uses
  /\ progress' = "done"
  /\ grants' = grants \cup GrantDatabaseConnect \cup GrantSchedulerAccess
  /\ UNCHANGED <<inputVars, made, granted, exists, env, compute, links, alb, target, pool>>

SNext ==
  \/ \E s \in Specs : Make(s) \/ MakeThrows(s)
  \/ \E r \in Uses : GrantUses(r) \/ GrantThrows(r)
  \/ Finish

SSpec == SInit /\ [][SNext]_sVars

-----------------------------------------------------------------------------
\* CloudResolver.lookup() in the compute c.
Lookup(c, kind, key) ==
  LET name == EnvVarName(kind, key)
  IN IF name \in DOMAIN compute[c] THEN compute[c][name] ELSE Nobody

\* The kinds the resolver has an accessor for.
Resolvable == {"queue", "bucket", "table", "database", "secret", "eventbus", "topic",
               "function", "snstopic", "api", "kms", "appconfig", "cache", "search", "cdn",
               "userpool", "mediaconvert", "rum", "amplify", "websocket"}

-----------------------------------------------------------------------------
(* Properties                                                              *)

Done == progress = "done"

\* The variables one declaration publishes, and whether another one publishes or
\* sets one of them too: then the last writer has it.
Names(s) == {EnvVarName(s.kind, s.key)}
  \cup (IF "serverless" \in s.flags THEN {EnvVarName(s.kind, s.key) \o <<"READER">>} ELSE {})
  \cup (IF s.kind = "topic" THEN {EnvVarName(s.kind, s.key) \o <<"CONFIG">>} ELSE {})
Clashes(s, c) == \/ \E t \in owns \ {s} : Names(s) \cap Names(t) # {}
                 \/ \E t \in owns : Id(t) = c /\ Names(s) \cap t.environment # {}

\* `env is complete by now' (ServiceStack.ts:154): what a service stores and
\* sends, every job and service of its stack can resolve by its key, whatever
\* else the manifest declares, unless two declarations share a variable.
DataReachesCompute ==
  Done => \A c \in DOMAIN compute, s \in owns :
    /\ s.kind \in Resolvable \ {"eventbus", "function", "api", "userpool", "websocket"}
    /\ ~SkipLocal(s.kind) /\ ~Clashes(s, c)
    => Lookup(c, s.kind, s.key) = Id(s)

Linked(s, x) == [from |-> Id(s), to |-> x] \in links

\* A reference that its maker looks up, but for a job, is resolved when the
\* manifest declares a resource of that kind and key.  An alias of a service or an
\* API goes to a load balancer, when there is a service.
WiredUp(s) ==
  /\ \A r \in s.refs :
       r.kind \in LooksUp[s.kind] \ {"function"} /\ Named(r) \in exists =>
         Linked(s, Named(r)) \/ (s.kind = "dns" /\ r.kind \in {"service", "api"})
  /\ s.kind = "dns" /\ (\E r \in s.refs : r.kind \in {"service", "api"}) /\ Owned("service") # {} =>
       \E t \in Owned("service") : Linked(s, t)
  /\ s.kind = "api" => \A kind \in {"userpool", "service"} :
       Owned(kind) # {} => \E t \in Owned(kind) : Linked(s, t)

\* What a declaration is linked to, its maker looks up: the API's are its pool, what
\* it is put in front of and the presigners.
WiredFor(s, x) ==
  \/ s.kind = "api"
  \/ \E r \in s.refs : r.kind \in LooksUp[s.kind] \ {"function"} /\ x = Named(r)
  \/ s.kind = "dns" /\ x.kind = "service" /\ \E r \in s.refs : r.kind \in {"service", "api"}

\* Which references of a manifest are wired: the order of the makers loses none of
\* those they look up (a name is looked up when the maker runs and dropped when it
\* is not there yet), and all the others, those to jobs included, are passed over.
ReferencesAreWired ==
  Done => /\ \A s \in owns : WiredUp(s)
          /\ \A l \in links : \E s \in owns : l.from = Id(s) /\ WiredFor(s, l.to)

\* The intent a reference declares, as its enum comments it (Common.ts:43).
Intended(access) == IF access = "readwrite" THEN {"read", "write"} ELSE {access}

\* Departures from it: a subscription to a topic, the kinds whose grant is `not yet
\* implemented' (ServiceStack.ts:919) and the intents a bucket or table has not are
\* granted nothing; on a queue, a topic or a secret such an intent is granted all.
Ungranted(r) ==
  \/ r.on.kind \notin Imported
  \/ r.on.kind = "snstopic" /\ r.access = "subscribe"
  \/ r.on.kind \in {"bucket", "table"} /\ r.access \notin {"read", "write", "readwrite"}
Loose(r) ==
  \/ r.on.kind = "queue" /\ r.access \notin {"send", "consume"}
  \/ r.on.kind = "snstopic" /\ r.access \notin {"publish", "subscribe"}
  \/ r.on.kind = "secret" /\ r.access # "read"

\* What the compute c may do with a resource.
Held(c, x) == {g.may : g \in {h \in grants : h.who = c /\ h.on = x}}

\* Least privilege (ServiceStack.ts:71): in the end every job and service holds on
\* a foreign resource the intents that the manifest declares for it and no other,
\* with the departures named, on one that the manifest does not use nothing, and on
\* the service's own stores all it takes to use them.
ComputeHoldsItsIntents ==
  Done => \A c \in DOMAIN compute :
    /\ \A r \in uses :
         Held(c, r.on) = CASE Ungranted(r) -> {}
                           [] Loose(r)     -> Rights[r.on.kind]
                           [] OTHER        -> Intended(r.access)
    /\ \A x \in {r.on : r \in Uses} \ {r.on : r \in uses} : Held(c, x) = {}
    /\ \A x \in exists : x.kind \in DOMAIN Rights => Rights[x.kind] \subseteq Held(c, x)
    /\ \A db \in Owned("database") : "connect" \in Held(c, db)

\* `injects every resource's identifier into the service's compute as an env var
\* the CloudResolver reads back' (ServiceStack.ts:72), of what has an identifier to
\* inject: a job publishes none at all.
EveryIdentifierIsInjected ==
  Done => \A c \in DOMAIN compute, s \in owns :
    s.kind \in Resolvable \ {"function"} /\ ~SkipLocal(s.kind) /\ ~Clashes(s, c)
    => Lookup(c, s.kind, s.key) = Id(s)

\* `wires least-privilege IAM (including cross-service `uses' by access intent)'
\* (ServiceStack.ts:71), without the departures.
EveryIntentIsGranted ==
  Done => \A c \in DOMAIN compute, r \in uses : Held(c, r.on) = Intended(r.access)

\* What a reference may be: `fan to a queue/lambda or onto EventBridge'
\* (Resources.ts:78), `queue / lambda / etc.' (:202), `the source resource
\* (queue/bus/bucket/api)' (:229).
EveryReferenceIsWired ==
  Done => \A s \in owns : s.kind # "dns" => \A r \in s.refs \cap exists :
    r.kind # "function" => Linked(s, r)

\* `A reference to a resource owned by some service (possibly another)'
\* (Common.ts:55): what is linked is what was referred to.
LinksAreToTheServiceNamed ==
  Done => \A s \in owns : s.kind \notin {"api", "dns"} =>
    \A x \in exists : Linked(s, x) => x \in s.refs

\* `Attach an owned Lambda (by logical key) as a Cognito user-pool trigger'
\* (ServiceStack.ts:1048); routes of a WebSocket API `integrated to owned Lambdas'
\* (ServiceStack.ts:1117); rules `with queue/Lambda targets' (ServiceStack.ts:1151).
JobsAreTriggered ==
  Done => \A s \in owns, r \in Owned("function") :
    r \in s.refs => Linked(s, r)
=============================================================================
