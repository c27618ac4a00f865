------------------------- MODULE ServiceStack_proofs --------------------------
(***************************************************************************)
(* Three invariants of ServiceStack, for any manifest and any names.       *)
(*                                                                         *)
(* All three rest on the order of the makers.  The proof says what making  *)
(* one declaration writes (Writes) and leaves (Leaves), whatever its kind, *)
(* and then that a step can only add to what was made before it: the       *)
(* variables of earlier declarations stay in the table and in the copies   *)
(* that compute took of it, and the grants come when all compute is there. *)
(***************************************************************************)
EXTENDS ServiceStack, SequenceTheorems, TLAPS

-----------------------------------------------------------------------------
(* The order of the makers                                                 *)

\* The declarations whose makers leave a resource of a kind.
Source(kind) == IF kind \in {"cdn", "presigner"} THEN "bucket" ELSE kind

Compute == {"function", "service"}
Stored == Resolvable \ {"eventbus", "function", "api", "userpool", "websocket"}

LEMMA Ranks ==
  /\ Kinds = {"kms", "bucket", "table", "queue", "secret", "snstopic", "loggroup",
              "appconfig", "database", "cache", "topic", "ses", "mediaconvert",
              "rum", "amplify", "scheduler", "function", "service", "batchjob",
              "userpool", "api", "websocket", "eventbus", "alarm", "dns"}
  /\ Rank("kms") = 1 /\ Rank("bucket") = 2 /\ Rank("table") = 3
  /\ Rank("queue") = 4 /\ Rank("secret") = 5 /\ Rank("snstopic") = 6 /\ Rank("loggroup") = 7
  /\ Rank("appconfig") = 8 /\ Rank("database") = 9 /\ Rank("cache") = 10 /\ Rank("topic") = 11
  /\ Rank("ses") = 12 /\ Rank("mediaconvert") = 13 /\ Rank("rum") = 14 /\ Rank("amplify") = 15
  /\ Rank("scheduler") = 16 /\ Rank("function") = 17 /\ Rank("service") = 18
  /\ Rank("batchjob") = 19 /\ Rank("userpool") = 20 /\ Rank("api") = 21
  /\ Rank("websocket") = 22 /\ Rank("eventbus") = 23 /\ Rank("alarm") = 24 /\ Rank("dns") = 25
<1>1. /\ Len(Order) = 25
      /\ Order[1] = "kms" /\ Order[2] = "bucket" /\ Order[3] = "table" /\ Order[4] = "queue"
      /\ Order[5] = "secret" /\ Order[6] = "snstopic" /\ Order[7] = "loggroup"
      /\ Order[8] = "appconfig" /\ Order[9] = "database" /\ Order[10] = "cache"
      /\ Order[11] = "topic" /\ Order[12] = "ses" /\ Order[13] = "mediaconvert"
      /\ Order[14] = "rum" /\ Order[15] = "amplify" /\ Order[16] = "scheduler"
      /\ Order[17] = "function" /\ Order[18] = "service" /\ Order[19] = "batchjob"
      /\ Order[20] = "userpool" /\ Order[21] = "api" /\ Order[22] = "websocket"
      /\ Order[23] = "eventbus" /\ Order[24] = "alarm" /\ Order[25] = "dns"
  BY DEF Order
<1>2. \A i \in 1..25 : i = 1 \/ i = 2 \/ i = 3 \/ i = 4 \/ i = 5 \/ i = 6 \/ i = 7 \/ i = 8 \/ i = 9
        \/ i = 10 \/ i = 11 \/ i = 12 \/ i = 13 \/ i = 14 \/ i = 15 \/ i = 16 \/ i = 17 \/ i = 18
        \/ i = 19 \/ i = 20 \/ i = 21 \/ i = 22 \/ i = 23 \/ i = 24 \/ i = 25
  OBVIOUS
<1>3. \A i, j \in 1..25 : Order[i] = Order[j] => i = j
  BY ONLY <1>1, <1>2
<1>4. \A i \in 1..25 : Rank(Order[i]) = i
  <2> TAKE i \in 1..25
  <2>1. \A k \in 1..25 : Order[k] = Order[i] <=> k = i BY ONLY <1>3, i \in 1..25
  <2> QED BY ONLY <2>1, <1>1, i \in 1..25 DEF Rank, Sequence
<1>5. Kinds = {Order[i] : i \in 1..25} BY ONLY <1>1 DEF Kinds
<1>6. Kinds = {"kms", "bucket", "table", "queue", "secret", "snstopic", "loggroup",
               "appconfig", "database", "cache", "topic", "ses", "mediaconvert",
               "rum", "amplify", "scheduler", "function", "service", "batchjob",
               "userpool", "api", "websocket", "eventbus", "alarm", "dns"}
  BY ONLY <1>1, <1>2, <1>5
<1>7. \A kind : \A i \in 1..25 : kind = Order[i] => Rank(kind) = i BY ONLY <1>4
<1> HIDE DEF Rank
<1> QED BY ONLY <1>1, <1>6, <1>7

-----------------------------------------------------------------------------
(* Variables                                                               *)

LEMMA VarIs == \A n, v : DOMAIN Var(n, v) = {n} /\ Var(n, v)[n] = v BY DEF Var

\* A sequence begins with its first element, whatever is added to it.
LEMMA FirstStays ==
  ASSUME NEW S, NEW a \in S, NEW q \in Seq(S)
  PROVE  /\ (<<a>> \o q)[1] = a
         /\ \A w \in S : ((<<a>> \o q) \o <<w>>)[1] = a /\ <<a>> \o q # (<<a>> \o q) \o <<w>>
<1>1. \A x \in S : <<x>> \in Seq(S) /\ Len(<<x>>) = 1 /\ <<x>>[1] = x OBVIOUS
<1>2. Len(q) \in Nat BY LenProperties
<1>3. <<a>> \o q \in Seq(S) /\ Len(<<a>> \o q) = 1 + Len(q) /\ (<<a>> \o q)[1] = a
  <2>1. /\ <<a>> \o q \in Seq(S) /\ Len(<<a>> \o q) = Len(<<a>>) + Len(q)
        /\ \A i \in 1..(Len(<<a>>) + Len(q)) :
             (<<a>> \o q)[i] = IF i <= Len(<<a>>) THEN <<a>>[i] ELSE q[i - Len(<<a>>)]
    BY <1>1, ConcatProperties
  <2> QED BY <1>1, <1>2, <2>1
<1> DEFINE n == <<a>> \o q
<1> HIDE DEF n
<1>4. ASSUME NEW w \in S PROVE (n \o <<w>>)[1] = a /\ n # n \o <<w>>
  <2>1. n \in Seq(S) /\ Len(n) \in Nat /\ Len(n) >= 1 /\ n[1] = a BY <1>2, <1>3 DEF n
  <2>2. /\ Len(n \o <<w>>) = Len(n) + 1
        /\ \A i \in 1..(Len(n) + 1) : (n \o <<w>>)[i] = IF i <= Len(n) THEN n[i] ELSE <<w>>[i - Len(n)]
    BY <1>1, <2>1, ConcatProperties
  <2>3. (n \o <<w>>)[1] = a /\ Len(n \o <<w>>) # Len(n) BY <2>1, <2>2
  <2> QED BY <2>3
<1> QED BY <1>3, <1>4 DEF n

\* A name begins with its kind.
LEMMA NameBegins ==
  ASSUME NEW kind, NEW key \in DOMAIN Words
  PROVE  /\ EnvVarName(kind, key)[1] = kind
         /\ \A w : /\ (EnvVarName(kind, key) \o <<w>>)[1] = kind
                   /\ EnvVarName(kind, key) # EnvVarName(kind, key) \o <<w>>
<1> DEFINE q == Words[key]
<1>1. q \in Seq({q[i] : i \in DOMAIN q}) BY SpecsAssumption
<1>2. EnvVarName(kind, key) = <<kind>> \o q BY DEF EnvVarName
<1> HIDE DEF q
<1>3. ASSUME NEW w
      PROVE  /\ (<<kind>> \o q)[1] = kind
             /\ ((<<kind>> \o q) \o <<w>>)[1] = kind /\ <<kind>> \o q # (<<kind>> \o q) \o <<w>>
  <2> DEFINE S == {q[i] : i \in DOMAIN q} \cup {kind, w}
  <2>1. q \in Seq(S)
    <3>1. {q[i] : i \in DOMAIN q} \subseteq S OBVIOUS
    <3> QED BY ONLY <1>1, <3>1, SeqMonotonic
  <2>2. kind \in S /\ w \in S OBVIOUS
  <2> HIDE DEF S
  <2> QED BY ONLY <2>1, <2>2, FirstStays
<1> QED BY <1>2, <1>3

LEMMA NoVariables == DOMAIN << >> = {} OBVIOUS

-----------------------------------------------------------------------------
(* What the makers have in common                                          *)

PlainKinds == {"kms", "table", "queue", "secret", "snstopic", "appconfig", "cache", "ses",
               "batchjob", "mediaconvert", "rum", "amplify", "websocket", "eventbus"}
LocalKinds == {"mediaconvert", "rum", "amplify"}

LEMMA Makers ==
  ASSUME NEW s \in Specs, MakeOne(s)
  PROVE  \/ \E kind \in PlainKinds : Plain(s, kind)
         \/ \E kind \in {"loggroup", "alarm"} : Silent(s, kind)
         \/ s.kind \in LocalKinds /\ SkipLocal(s.kind) /\ UNCHANGED stackVars
         \/ MakeBucket(s) \/ MakeDatabase(s) \/ MakeTopic(s) \/ MakeScheduler(s)
         \/ MakeJob(s) \/ MakeEcsService(s) \/ MakeUserPool(s) \/ MakeApi(s) \/ MakeDnsRecord(s)
<1>1. ASSUME NEW kind \in LocalKinds, MakeUnlessLocal(s, kind)
      PROVE  Plain(s, kind) \/ (s.kind \in LocalKinds /\ SkipLocal(s.kind) /\ UNCHANGED stackVars)
  BY <1>1 DEF MakeUnlessLocal
<1> QED BY <1>1 DEF MakeOne, MakeKey, MakeTable, MakeQueue, MakeSecret, MakeSnsTopic, MakeLogGroup,
    MakeAppConfig, MakeCache, MakeSes, MakeBatchJob, MakeMediaConvert, MakeRum, MakeAmplify,
    MakeWebSocketApi, MakeEventBus, MakeAlarm, PlainKinds, LocalKinds

LEMMA SpecIs ==
  ASSUME NEW s \in Specs
  PROVE  /\ s.kind \in Kinds /\ s.key \in DOMAIN Words
         /\ EnvVarName(s.kind, s.key)[1] = s.kind
         /\ \A r \in s.refs : s.kind \in HoldRefs \/ r.kind \in ByKey[s.kind]
<1>1. /\ s.kind \in Kinds /\ s.key \in DOMAIN Words
      /\ \A r \in s.refs : s.kind \in HoldRefs \/ r.kind \in ByKey[s.kind]
  BY SpecsAssumption
<1> QED BY <1>1, NameBegins

\* What making s does to the variables: it writes none but its own, and no other
\* begins with a kind; and what stores or sends publishes its identifier.
Writes(s) ==
  /\ \A n \in DOMAIN env : n[1] \in Kinds /\ n \notin Names(s) => n \in DOMAIN env' /\ env'[n] = env[n]
  /\ s.kind \in Stored /\ ~SkipLocal(s.kind) =>
       EnvVarName(s.kind, s.key) \in DOMAIN env' /\ env'[EnvVarName(s.kind, s.key)] = Id(s)

LEMMA OverWrites ==
  ASSUME NEW s \in Specs, NEW more, env' = Over(more, env),
         \A n \in DOMAIN more : n[1] \in Kinds => n \in Names(s),
         s.kind \in Stored => EnvVarName(s.kind, s.key) \in DOMAIN more
                              /\ more[EnvVarName(s.kind, s.key)] = Id(s)
  PROVE  Writes(s)
BY DEF Over, Writes

LEMMA MakerWrites == ASSUME NEW s \in Specs, MakeOne(s) PROVE Writes(s)
<1> DEFINE name == EnvVarName(s.kind, s.key)
<1>1. name[1] = s.kind /\ s.kind \in Kinds /\ s.key \in DOMAIN Words /\ name \in Names(s)
  BY SpecIs DEF Names
<1>2. Published(s) = Var(name, Id(s)) /\ DOMAIN Published(s) = {name} /\ Published(s)[name] = Id(s)
  BY VarIs DEF Published
<1> HIDE DEF name
<1>3. ASSUME NEW kind \in PlainKinds, Plain(s, kind) PROVE Writes(s)
  BY <1>1, <1>2, <1>3, OverWrites DEF Plain, Declare, name
<1>4. ASSUME NEW kind \in {"loggroup", "alarm"}, Silent(s, kind) PROVE Writes(s)
  BY <1>4, OverWrites DEF Silent, Declare, Stored, Resolvable
<1>5. CASE SkipLocal(s.kind) /\ UNCHANGED stackVars BY <1>5 DEF Writes, stackVars
<1>6. CASE MakeBucket(s)
  <2> DEFINE cdn == IF "cdn" \in s.flags THEN {Own("cdn", s.key)} ELSE {}
             other == [v \in {EnvVarName(r.kind, r.key) : r \in cdn} |-> Own("cdn", s.key)]
  <2>1. env' = Over(Over(other, Published(s)), env) BY <1>6 DEF MakeBucket, Declare
  <2>2. \A n \in DOMAIN other : n[1] = "cdn"
    <3>1. EnvVarName("cdn", s.key)[1] = "cdn" BY <1>1, NameBegins
    <3> QED BY <3>1 DEF Own, Res
  <2> HIDE DEF other
  <2>3. "cdn" \notin Kinds BY Ranks
  <2>4. name \notin DOMAIN other BY <1>1, <2>2, <2>3
  <2>5. /\ DOMAIN Over(other, Published(s)) = DOMAIN other \cup {name}
        /\ Over(other, Published(s))[name] = Id(s)
    BY <1>2, <2>4 DEF Over
  <2> QED BY <1>1, <2>1, <2>2, <2>3, <2>5, OverWrites DEF name
<1>7. CASE MakeDatabase(s)
  <2> DEFINE longer == name \o <<"READER">>
             reader == IF "serverless" \in s.flags THEN Var(longer, Own("reader", s.key)) ELSE << >>
             named == IF "named" \in s.flags THEN Var(<<"DB", "NAME">>, Id(s)) ELSE << >>
             user == Var(<<"DB", "USER">>, Nobody)
             more == Over(reader, Over(named, Over(user, Published(s))))
  <2>1. env' = Over(more, env) BY <1>7 DEF MakeDatabase, Declare, name
  <2>2. longer[1] = s.kind /\ longer # name BY <1>1, NameBegins, SpecIs DEF name
  <2>3. DOMAIN reader \subseteq {longer} /\ (reader = << >> \/ longer \in Names(s))
    BY NoVariables DEF Var, Names, name
  <2>4. DOMAIN named \subseteq {<<"DB", "NAME">>} /\ DOMAIN user = {<<"DB", "USER">>} BY NoVariables DEF Var
  <2>5. "DB" \notin Kinds /\ <<"DB", "NAME">>[1] = "DB" /\ <<"DB", "USER">>[1] = "DB" BY Ranks
  <2>6. DOMAIN reader # {} => longer \in Names(s) BY <2>3
  <2> HIDE DEF reader, named, user, longer
  <2>7. DOMAIN more = DOMAIN reader \cup DOMAIN named \cup DOMAIN user \cup {name} BY <1>2 DEF Over
  <2>8. name \notin DOMAIN reader \cup DOMAIN named \cup DOMAIN user BY <1>1, <2>2, <2>3, <2>4, <2>5
  <2>9. more[name] = Id(s) BY <1>2, <2>8 DEF Over
  <2> HIDE DEF more
  <2>10. \A n \in DOMAIN more : n[1] \in Kinds => n \in Names(s)
    BY <1>1, <2>3, <2>4, <2>5, <2>6, <2>7
  <2> QED BY <2>1, <2>7, <2>9, <2>10, OverWrites DEF name
<1>8. CASE MakeTopic(s)
  <2> DEFINE longer == name \o <<"CONFIG">>
             more == Over(Var(longer, Id(s)), Published(s))
  <2>1. s.kind = "topic" /\ env' = Over(more, env) BY <1>8 DEF MakeTopic, Declare, name
  <2>2. longer # name BY <1>1, NameBegins, SpecIs DEF name
  <2>3. longer \in Names(s) BY <2>1 DEF Names, name
  <2> HIDE DEF longer
  <2>4. DOMAIN more = {longer, name} /\ more[name] = Id(s) BY <1>2, <2>2 DEF Over, Var
  <2> HIDE DEF more
  <2> QED BY <1>1, <2>1, <2>3, <2>4, OverWrites DEF name
<1>9. CASE MakeScheduler(s)
  <2> DEFINE more == [v \in {<<"SCHEDULER", "ROLE_ARN">>, <<"SCHEDULER", "GROUP">>} |-> Id(s)]
  <2>1. s.kind = "scheduler" /\ env' = Over(more, env) BY <1>9 DEF MakeScheduler, Declare
  <2>2. "SCHEDULER" \notin Kinds /\ \A n \in DOMAIN more : n[1] = "SCHEDULER" BY Ranks
  <2> HIDE DEF more
  <2> QED BY <2>1, <2>2, OverWrites DEF Stored, Resolvable
<1>10. CASE MakeJob(s) BY <1>10, OverWrites DEF MakeJob, Declare, Stored
<1>11. CASE MakeEcsService(s) BY <1>11, OverWrites DEF MakeEcsService, Declare, Stored, Resolvable
<1>12. CASE MakeUserPool(s) BY <1>1, <1>2, <1>12, OverWrites DEF MakeUserPool, Declare, name
<1>13. CASE MakeApi(s) BY <1>1, <1>2, <1>13, OverWrites DEF MakeApi, name
<1>14. CASE MakeDnsRecord(s) BY <1>14 DEF MakeDnsRecord, Writes, Stored, Resolvable
<1> QED BY <1>3, <1>4, <1>5, <1>6, <1>7, <1>8, <1>9, <1>10, <1>11, <1>12, <1>13, <1>14, Makers

\* The alias of a service or an API is the load balancer.
FrontFor(s, x) ==
  s.kind = "dns" /\ x = alb /\ alb \in exists /\ \E r \in s.refs : r.kind \in {"service", "api"}

\* What making s leaves in the maps of the stack: resources of its own, grants on
\* them or on earlier ones, and a link for all it refers to and finds.
Leaves(s) ==
  /\ exists \subseteq exists'
  /\ \A x \in exists' \ exists : x.owner = "self" /\ Source(x.kind) = s.kind
  /\ grants \subseteq grants' /\ \A g \in grants' \ grants : g.on \in exists'
  /\ \/ compute' = compute
     \/ /\ s.kind \in Compute /\ compute' = Over(Var(Id(s), Environment(s)), compute)
        /\ GrantOwned(Id(s)) \subseteq grants'
  /\ links \subseteq links'
  /\ s.kind \notin {"api", "dns"} =>
       \A r \in s.refs : r.kind \in LooksUp[s.kind] \ {"function"} /\ Named(r) \in exists =>
         [from |-> Id(s), to |-> Named(r)] \in links'
  /\ \A l \in links' \ links : l.from = Id(s) /\ (WiredFor(s, l.to) \/ FrontFor(s, l.to))
  /\ IF s.kind = "service" THEN alb' = Id(s) /\ Id(s) \in exists' ELSE alb' = alb
  /\ s.kind = "userpool" => Id(s) \in exists'
  /\ pool' = IF s.kind = "userpool" /\ pool = Nobody THEN Id(s) ELSE pool

\* What a maker finds among the references it looks up.
LEMMA LinksFound ==
  ASSUME NEW s
  PROVE  /\ \A r \in s.refs : r.kind \in LooksUp[s.kind] \ {"function"} /\ Named(r) \in exists =>
              [from |-> Id(s), to |-> Named(r)] \in Found(s)
         /\ \A l \in Found(s) : l.from = Id(s) /\ WiredFor(s, l.to)
<1> DEFINE Finds == UNION {Lookups(s, r) : r \in s.refs}
<1>1. Found(s) = {[from |-> Id(s), to |-> x] : x \in Finds} BY DEF Found
<1> HIDE DEF Named, LooksUp
<1>2. ASSUME NEW r \in s.refs, r.kind \in LooksUp[s.kind] \ {"function"}, Named(r) \in exists
      PROVE  Named(r) \in Finds
  <2>1. Named(r) \in Lookups(s, r) BY <1>2 DEF Lookups
  <2> QED BY <2>1
<1>3. ASSUME NEW x \in Finds PROVE WiredFor(s, x)
  <2>1. PICK r \in s.refs : x \in Lookups(s, r) OBVIOUS
  <2>2. r.kind \in LooksUp[s.kind] \ {"function"} /\ x = Named(r) BY <2>1 DEF Lookups, LambdaNamed
  <2> QED BY <2>2 DEF WiredFor
<1> HIDE DEF Finds
<1> QED BY <1>1, <1>2, <1>3

LEMMA MakerLeaves == ASSUME NEW s \in Specs, MakeOne(s) PROVE Leaves(s)
<1>1. /\ s.kind \in Kinds /\ Source(s.kind) = s.kind /\ Id(s).kind = s.kind /\ Id(s).owner = "self"
      /\ s.kind \in {"api", "loggroup"} \cup LocalKinds => s.refs = {}
  BY SpecIs, Ranks DEF Source, Id, Own, Res, ByKey, HoldRefs, LocalKinds
<1>2. /\ \A r \in s.refs : r.kind \in LooksUp[s.kind] \ {"function"} /\ Named(r) \in exists =>
            [from |-> Id(s), to |-> Named(r)] \in Found(s)
      /\ \A l \in Found(s) : l.from = Id(s) /\ WiredFor(s, l.to)
  BY LinksFound
<1>3. \A who : \A g \in GrantOwned(who) : g.on \in exists
  BY DEF GrantOwned, Grant
<1> USE DEF Leaves, Declare, Nothing
<1> HIDE DEF Id
<1>4. ASSUME NEW kind \in PlainKinds, Plain(s, kind) PROVE Leaves(s)
  BY <1>1, <1>2, <1>4 DEF Plain, PlainKinds
<1>5. ASSUME NEW kind \in {"loggroup", "alarm"}, Silent(s, kind) PROVE Leaves(s)
  BY <1>1, <1>2, <1>5 DEF Silent
<1>6. CASE s.kind \in LocalKinds /\ UNCHANGED stackVars
  BY <1>1, <1>6 DEF stackVars, LocalKinds
<1>7. CASE MakeBucket(s)
  <2> DEFINE cdn == IF "cdn" \in s.flags THEN {Own("cdn", s.key)} ELSE {}
             signer == IF "presign" \in s.flags THEN {Own("presigner", s.key)} ELSE {}
             granted2 == IF "presign" \in s.flags
                         THEN Grant(Own("presigner", s.key), {"write"}, Id(s)) ELSE {}
  <2>1. /\ s.kind = "bucket" /\ exists' = exists \cup ({Id(s)} \cup cdn \cup signer)
        /\ links' = links \cup Found(s) /\ grants' = grants \cup granted2
        /\ compute' = compute /\ alb' = alb /\ pool' = pool
    BY <1>7 DEF MakeBucket
  <2>2. \A x \in cdn \cup signer : x.owner = "self" /\ Source(x.kind) = "bucket" BY DEF Own, Res, Source
  <2>3. \A g \in granted2 : g.on = Id(s) BY DEF Grant
  <2> HIDE DEF cdn, signer, granted2
  <2> QED BY <1>1, <1>2, <2>1, <2>2, <2>3
<1>8. CASE MakeDatabase(s) BY <1>1, <1>2, <1>8 DEF MakeDatabase
<1>9. CASE MakeTopic(s) BY <1>1, <1>2, <1>9 DEF MakeTopic
<1>10. CASE MakeScheduler(s) BY <1>1, <1>2, <1>10 DEF MakeScheduler
<1>11. CASE MakeJob(s) BY <1>1, <1>2, <1>3, <1>11 DEF MakeJob, Compute
<1>12. CASE MakeEcsService(s) BY <1>1, <1>2, <1>3, <1>12 DEF MakeEcsService, Compute
<1>13. CASE MakeUserPool(s) BY <1>1, <1>2, <1>13 DEF MakeUserPool
<1>14. CASE MakeApi(s)
  <2>1. \A x : WiredFor(s, x) BY <1>14 DEF MakeApi, WiredFor
  <2> QED BY <1>1, <1>14, <2>1 DEF MakeApi
<1>15. CASE MakeDnsRecord(s)
  <2> DEFINE Aliased == {q \in s.refs : q.kind \in LooksUp["dns"] /\ AliasTarget(q) \in exists}
  <2>1. links' = links \cup {[from |-> Id(s), to |-> AliasTarget(r)] : r \in Aliased} /\ s.kind = "dns"
    BY <1>15 DEF MakeDnsRecord
  <2>2. ASSUME NEW r \in Aliased PROVE WiredFor(s, AliasTarget(r)) \/ FrontFor(s, AliasTarget(r))
    <3>1. r.kind \in {"cdn", "service", "api"} BY Ranks, Zenon DEF LooksUp
    <3>2. CASE r.kind = "cdn" BY <2>1, <3>2 DEF WiredFor, AliasTarget
    <3>3. CASE r.kind # "cdn" BY <2>1, <3>1, <3>3 DEF FrontFor, AliasTarget
    <3> QED BY <3>2, <3>3
  <2> HIDE DEF Aliased
  <2> QED BY <1>1, <1>15, <2>1, <2>2 DEF MakeDnsRecord
<1> QED BY <1>4, <1>5, <1>6, <1>7, <1>8, <1>9, <1>10, <1>11, <1>12, <1>13, <1>14, <1>15, Makers

-----------------------------------------------------------------------------
(* The inductive invariant                                                 *)

\* Whatever is left to make comes after what is made, and the grants come last.
Ordered ==
  /\ made \subseteq owns /\ owns \subseteq Specs
  /\ \A s \in made, t \in owns \ made : Rank(s.kind) <= Rank(t.kind)
  /\ granted \subseteq uses /\ uses \subseteq Uses /\ (granted # {} => made = owns)
  /\ Done => made = owns /\ granted = uses
  /\ DOMAIN compute # {} => \E s \in made : s.kind \in Compute

Holds(f, s) == LET name == EnvVarName(s.kind, s.key) IN name \in DOMAIN f /\ f[name] = Id(s)
Sole(s) == \A t \in owns \ {s} : Names(s) \cap Names(t) = {}

\* What is stored has its variable, in the table and in the copies of it.
InTheTable ==
  \A s \in made : s.kind \in Stored /\ ~SkipLocal(s.kind) /\ Sole(s) => Holds(env, s)
InTheCopies ==
  \A c \in DOMAIN compute : \A s \in made :
    s.kind \in Stored /\ ~SkipLocal(s.kind) /\ ~Clashes(s, c) => Holds(compute[c], s)

\* What the API and the aliases are linked to is there when there is any.
Fronts ==
  /\ \A x \in exists : x.owner = "self"
  /\ alb = Nobody \/ alb \in Owned("service")
  /\ Owned("service") # {} => alb # Nobody
  /\ pool = Nobody \/ pool \in Owned("userpool")
  /\ Owned("userpool") # {} => pool # Nobody

\* A declaration that is made has its links, and every link is of one.
LinksHave ==
  /\ \A s \in made : WiredUp(s)
  /\ \A l \in links : \E s \in made : l.from = Id(s) /\ WiredFor(s, l.to)

\* A grant on another service's resource is one of a reference granted, and all
\* compute has those; all compute has its rights on the service's own stores.
GrantsHeld ==
  /\ \A g \in grants :
       g.on.owner # "self" => \E r \in granted : g.on = r.on /\ g.may \in UsesRights(r)
  /\ \A q, r \in granted : q.on = r.on /\ r.on.kind \in Imported => q = r
  /\ \A c \in DOMAIN compute : \A r \in granted : Grant(c, UsesRights(r), r.on) \subseteq grants
  /\ \A c \in DOMAIN compute : \A x \in exists :
       x.kind \in DOMAIN Rights => Grant(c, Rights[x.kind], x) \subseteq grants
  /\ Done => GrantDatabaseConnect \subseteq grants

StackInv ==
  /\ Ordered /\ InTheTable /\ InTheCopies
  /\ Fronts /\ LinksHave /\ GrantsHeld

-----------------------------------------------------------------------------
(* Making one declaration                                                  *)

\* The next declaration is made after all those before it in the order.
LEMMA MadeInOrder ==
  ASSUME Ordered, NEW s \in Specs, Make(s)
  PROVE  /\ Ordered' /\ s \in owns /\ s \notin made /\ made' = made \cup {s}
         /\ granted = {} /\ granted' = {} /\ ~Done /\ ~Done' /\ MakeOne(s)
         /\ owns' = owns /\ uses' = uses /\ deployEnv' = deployEnv
         /\ \A t \in made : Rank(t.kind) <= Rank(s.kind)
         /\ \A t \in owns : Rank(t.kind) < Rank(s.kind) => t \in made
<1>1. /\ s \in owns /\ s \notin made /\ made' = made \cup {s} /\ progress = "making"
      /\ progress' = progress /\ granted' = granted /\ MakeOne(s)
      /\ owns' = owns /\ uses' = uses /\ deployEnv' = deployEnv
      /\ \A t \in owns \ made : Rank(s.kind) <= Rank(t.kind)
  BY DEF Make, inputVars
<1>2. granted = {} BY <1>1 DEF Ordered
<1>3. \A t \in Specs : Rank(t.kind) \in 1..25
  <2> TAKE t \in Specs
  <2>1. t.kind \in Kinds BY SpecIs
  <2> HIDE DEF Rank
  <2> QED BY <2>1, Ranks
<1>4. DOMAIN compute' # {} => \E t \in made' : t.kind \in Compute
  <2>1. Leaves(s) BY <1>1, MakerLeaves
  <2>2. CASE compute' = compute BY <1>1, <2>2 DEF Ordered
  <2>3. CASE s.kind \in Compute BY <1>1, <2>3
  <2> QED BY <2>1, <2>2, <2>3 DEF Leaves
<1>5. \A t \in made, u \in owns \ made : Rank(t.kind) <= Rank(u.kind) BY DEF Ordered
<1>6. \A t \in made', u \in owns \ made' : Rank(t.kind) <= Rank(u.kind) BY <1>1, <1>5
<1>7. Ordered' BY <1>1, <1>2, <1>4, <1>6 DEF Ordered, Done
<1>8. \A t \in owns : Rank(t.kind) < Rank(s.kind) => t \in made
  <2> TAKE t \in owns
  <2>1. t \in Specs BY DEF Ordered
  <2>2. Rank(t.kind) \in 1..25 /\ Rank(s.kind) \in 1..25 BY <1>3, <2>1
  <2> HIDE DEF Rank
  <2> QED BY <1>1, <2>2
<1> QED BY <1>1, <1>2, <1>5, <1>7, <1>8 DEF Done

\* All stores come before any compute, ...
LEMMA StoresFirst ==
  ASSUME Ordered, NEW s \in Specs, Make(s)
  PROVE  /\ s.kind \in Compute => \A t \in owns : t.kind \in Stored => t \in made
         /\ s.kind \in Stored \cup {"bucket"} \cup DOMAIN Rights => DOMAIN compute = {} /\ s.kind \notin Compute
<1>1. /\ \A t \in made : Rank(t.kind) <= Rank(s.kind)
      /\ \A t \in owns : Rank(t.kind) < Rank(s.kind) => t \in made
      /\ owns \subseteq Specs
  BY MadeInOrder DEF Ordered
<1>2. \A t \in Specs : t.kind \in Kinds BY SpecIs
<1>3. \A k \in Kinds \cap (Stored \cup {"bucket"} \cup DOMAIN Rights) : k \notin Compute /\ Rank(k) \in 1..15
  <2> HIDE DEF Rank
  <2> QED BY Ranks DEF Stored, Resolvable, Compute, Rights
<1>4. \A k \in Compute : Rank(k) \in 17..18
  <2> HIDE DEF Rank
  <2> QED BY Ranks DEF Compute
<1>5. ASSUME s.kind \in Compute, NEW t \in owns, t.kind \in Stored PROVE t \in made
  <2>1. Rank(t.kind) \in 1..15 /\ Rank(s.kind) \in 17..18 BY <1>1, <1>2, <1>3, <1>4, <1>5
  <2> HIDE DEF Rank
  <2> QED BY <1>1, <2>1
<1>6. ASSUME s.kind \in Stored \cup {"bucket"} \cup DOMAIN Rights, DOMAIN compute # {} PROVE FALSE
  <2>1. PICK t \in made : t.kind \in Compute BY <1>6 DEF Ordered
  <2>2. Rank(s.kind) \in 1..15 /\ Rank(t.kind) \in 17..18 BY <1>2, <1>3, <1>4, <1>6, <2>1
  <2>3. Rank(t.kind) <= Rank(s.kind) BY <1>1, <2>1
  <2> HIDE DEF Rank
  <2> QED BY <2>2, <2>3
<1> QED BY <1>2, <1>3, <1>5, <1>6

\* What a maker looks up is made before.
LEMMA RefersBack ==
  ASSUME NEW k \in Kinds, NEW j \in LooksUp[k]
  PROVE  Source(j) \in Kinds /\ Rank(Source(j)) < Rank(k)
<1> HIDE DEF Rank
<1>1. /\ k \in {"bucket", "table", "queue"} => j = "kms"
      /\ k = "database" => j = "secret"
      /\ k = "function" => j = "queue"
      /\ k \in {"userpool", "websocket"} => j = "function"
      /\ k = "eventbus" => j \in {"queue", "function"}
      /\ k = "alarm" => j = "snstopic"
      /\ k = "dns" => j \in {"cdn", "service", "api"}
      /\ k \in {"bucket", "table", "queue", "database", "function", "userpool", "websocket",
                "eventbus", "alarm", "dns"}
  BY Zenon DEF LooksUp, ByKey
<1> QED BY <1>1, Ranks DEF Source

\* ... and nothing that is made refers to what comes later.
LEMMA NothingBehind ==
  ASSUME Ordered, NEW s \in Specs, Make(s), NEW t \in made \cup {s}, NEW x \in exists' \ exists
  PROVE  /\ \A r \in t.refs : r.kind \in LooksUp[t.kind] => Named(r) # x
         /\ t.kind = "api" => x.kind \notin {"userpool", "service"}
         /\ t.kind = "dns" => x.kind # "service"
<1>1. /\ t \in Specs /\ t.kind \in Kinds /\ Source(x.kind) = s.kind /\ s.kind \in Kinds
      /\ t = s \/ Rank(t.kind) <= Rank(s.kind)
  <2>1. t \in Specs /\ MakeOne(s) /\ (t = s \/ Rank(t.kind) <= Rank(s.kind)) BY MadeInOrder DEF Ordered
  <2> QED BY <2>1, MakerLeaves, SpecIs DEF Leaves
<1>2. \A k \in Kinds : Rank(k) \in 1..25
  <2> HIDE DEF Rank
  <2> QED BY Ranks
<1> HIDE DEF Rank
<1>3. t.kind = "api" => x.kind \notin {"userpool", "service"} BY <1>1, Ranks DEF Source
<1>4. t.kind = "dns" => x.kind # "service" BY <1>1, Ranks DEF Source
<1>5. ASSUME NEW r \in t.refs, r.kind \in LooksUp[t.kind], Named(r) = x PROVE FALSE
  <2>1. x.kind \in LooksUp[t.kind] BY <1>5 DEF Named, Own, Res
  <2>2. Rank(s.kind) < Rank(t.kind) BY <1>1, <2>1, RefersBack
  <2> QED BY <1>1, <1>2, <2>2
<1> QED BY <1>3, <1>4, <1>5

\* A variable stays, whatever is made next, when no other declaration has it.
LEMMA TableKept ==
  ASSUME StackInv, NEW s \in Specs, Make(s)
  PROVE  InTheTable'
<1>1. /\ s \in owns /\ s \notin made /\ made' = made \cup {s} /\ MakeOne(s)
      /\ owns' = owns /\ deployEnv' = deployEnv /\ made \subseteq owns /\ owns \subseteq Specs
  BY MadeInOrder DEF StackInv, Ordered
<1>2. Writes(s) BY <1>1, MakerWrites
<1>3. SUFFICES ASSUME NEW t \in made', t.kind \in Stored, ~SkipLocal(t.kind)', Sole(t)'
               PROVE  Holds(env, t)'
  BY DEF InTheTable
<1>4. ~SkipLocal(t.kind) /\ Sole(t) BY <1>1, <1>3 DEF SkipLocal, Sole
<1>5. CASE t = s BY <1>2, <1>3, <1>4, <1>5 DEF Writes, Holds
<1>6. CASE t # s
  <2> DEFINE name == EnvVarName(t.kind, t.key)
  <2>1. t \in made /\ t \in Specs BY <1>1, <1>6
  <2>2. name \in DOMAIN env /\ env[name] = Id(t) BY <1>3, <1>4, <2>1 DEF StackInv, InTheTable, Holds
  <2>3. name[1] \in Kinds BY <2>1, SpecIs
  <2>4. name \in Names(t) BY DEF Names
  <2>5. name \notin Names(s) BY <1>1, <1>4, <1>6, <2>4 DEF Sole
  <2> HIDE DEF name
  <2>6. name \in DOMAIN env' /\ env'[name] = env[name] BY <1>2, <2>2, <2>3, <2>5 DEF Writes
  <2> QED BY <2>2, <2>6 DEF Holds, name
<1> QED BY <1>5, <1>6

\* A copy of the table is taken when all that is stored is in it.
LEMMA CopiesKept ==
  ASSUME StackInv, NEW s \in Specs, Make(s)
  PROVE  InTheCopies'
<1>1. /\ s \in owns /\ s \notin made /\ made' = made \cup {s} /\ MakeOne(s)
      /\ owns' = owns /\ deployEnv' = deployEnv /\ made \subseteq owns /\ owns \subseteq Specs
  BY MadeInOrder DEF StackInv, Ordered
<1>2. SUFFICES ASSUME NEW c \in DOMAIN compute', NEW t \in made',
                      t.kind \in Stored, ~SkipLocal(t.kind)', ~Clashes(t, c)'
               PROVE  Holds(compute'[c], t)
  BY DEF InTheCopies, Holds
<1>3. t \in owns /\ t \in Specs /\ ~SkipLocal(t.kind) /\ ~Clashes(t, c) BY <1>1, <1>2 DEF SkipLocal, Clashes
<1>4. /\ s.kind \in Compute => s.kind \notin Stored
      /\ s.kind \in Stored => DOMAIN compute = {} /\ s.kind \notin Compute
      /\ s.kind \in Compute => \A u \in owns : u.kind \in Stored => u \in made
  BY StoresFirst DEF StackInv, Compute, Stored, Resolvable
<1>5. Leaves(s) BY <1>1, MakerLeaves
<1>6. CASE compute' = compute
  <2>1. t # s BY <1>2, <1>4, <1>6
  <2> QED BY <1>1, <1>2, <1>3, <1>6, <2>1 DEF StackInv, InTheCopies
<1>7. CASE s.kind \in Compute /\ compute' = Over(Var(Id(s), Environment(s)), compute)
  <2>1. t \in made BY <1>2, <1>3, <1>4, <1>7
  <2>2. CASE c # Id(s)
    <3>1. c \in DOMAIN compute /\ compute'[c] = compute[c] BY <1>2, <1>7, <2>2 DEF Over, Var
    <3> QED BY <1>2, <1>3, <2>1, <3>1 DEF StackInv, InTheCopies
  <2>3. CASE c = Id(s)
    <3> DEFINE name == EnvVarName(t.kind, t.key)
    <3>1. compute'[c] = Environment(s) BY <1>7, <2>3 DEF Over, Var
    <3>2. Sole(t) BY <1>3 DEF Clashes, Sole
    <3>3. name \in DOMAIN env /\ env[name] = Id(t)
      BY <1>2, <1>3, <2>1, <3>2 DEF StackInv, InTheTable, Holds
    <3>4. name \notin s.environment
      <4>1. name \in Names(t) BY DEF Names
      <4>2. Names(t) \cap s.environment = {} BY <1>1, <1>3, <2>3 DEF Clashes
      <4> QED BY <4>1, <4>2
    <3>5. name[1] = t.kind /\ t.kind # "ENVIRONMENT" BY <1>3, SpecIs, Ranks
    <3>6. name # <<"ENVIRONMENT">> BY <3>5
    <3> HIDE DEF name
    <3>7. name \in DOMAIN Environment(s) /\ Environment(s)[name] = env[name]
      BY <3>3, <3>4, <3>6 DEF Environment, Over, Var
    <3> QED BY <3>1, <3>3, <3>7 DEF Holds, name
  <2> QED BY <2>2, <2>3
<1> QED BY <1>5, <1>6, <1>7 DEF Leaves

LEMMA FrontsKept ==
  ASSUME StackInv, NEW s \in Specs, Make(s)
  PROVE  Fronts'
<1>1. Leaves(s) /\ s.kind \in Kinds BY MadeInOrder, MakerLeaves, SpecIs DEF StackInv
<1>2. Id(s) # Nobody /\ Id(s).kind = s.kind BY DEF Id, Own, Res, Nobody
<1>3. \A x \in exists' \ exists : x.owner = "self" /\ (x.kind \in {"service", "userpool"} => s.kind = x.kind)
  BY <1>1 DEF Leaves, Source
<1>4. Fronts BY DEF StackInv
<1>5. \A x \in exists' : x.owner = "self" BY <1>3, <1>4 DEF Fronts
<1>6. \A kind : Owned(kind) \subseteq Owned(kind)' BY <1>1 DEF Leaves, Owned
<1>7. \A kind \in {"service", "userpool"} : Owned(kind)' # Owned(kind) => s.kind = kind
  BY <1>1, <1>3 DEF Leaves, Owned
<1>8. s.kind \in {"service", "userpool"} => Id(s) \in Owned(s.kind)'
  BY <1>1, <1>2 DEF Leaves, Owned
<1>9. (alb' = Nobody \/ alb' \in Owned("service")') /\ (Owned("service")' # {} => alb' # Nobody)
  <2>1. CASE s.kind = "service" BY <1>1, <1>2, <1>8, <2>1 DEF Leaves
  <2>2. CASE s.kind # "service" BY <1>1, <1>4, <1>7, <2>2 DEF Leaves, Fronts
  <2> QED BY <2>1, <2>2
<1>10. (pool' = Nobody \/ pool' \in Owned("userpool")') /\ (Owned("userpool")' # {} => pool' # Nobody)
  <2>1. CASE s.kind = "userpool" /\ pool = Nobody BY <1>1, <1>2, <1>8, <2>1 DEF Leaves
  <2>2. CASE pool # Nobody
    <3>1. pool' = pool /\ pool \in Owned("userpool") BY <1>1, <1>4, <2>2 DEF Leaves, Fronts
    <3> QED BY <1>6, <2>2, <3>1
  <2>3. CASE s.kind # "userpool" /\ pool = Nobody BY <1>1, <1>4, <1>7, <2>3 DEF Leaves, Fronts
  <2> QED BY <2>1, <2>2, <2>3
<1> QED BY <1>5, <1>9, <1>10 DEF Fronts

\* References stay resolved; those of the one made now are to what there is.
LEMMA WiresKept ==
  ASSUME StackInv, NEW s \in Specs, Make(s), NEW t \in made'
  PROVE  WiredUp(t)'
<1>1. /\ made' = made \cup {s} /\ MakeOne(s) /\ Leaves(s) /\ t \in Specs
  BY MadeInOrder, MakerLeaves DEF StackInv, Ordered
<1>2. \A r \in t.refs : r.kind \in LooksUp[t.kind] /\ Named(r) \in exists' => Named(r) \in exists
  BY <1>1, NothingBehind DEF StackInv
<1>3. t.kind = "api" => Owned("userpool")' = Owned("userpool") /\ Owned("service")' = Owned("service")
  BY <1>1, NothingBehind DEF StackInv, Leaves, Owned
<1>4. t.kind = "dns" => Owned("service")' = Owned("service")
  BY <1>1, NothingBehind DEF StackInv, Leaves, Owned
<1>5. \A x : Linked(t, x) => Linked(t, x)' BY <1>1 DEF Leaves, Linked
<1>6. CASE t \in made
  <2>1. WiredUp(t) BY <1>6 DEF StackInv, LinksHave
  <2> HIDE DEF Linked, Named, LooksUp
  <2> QED BY <1>2, <1>3, <1>4, <1>5, <2>1 DEF WiredUp
<1>7. CASE t = s
  <2>1. Fronts BY DEF StackInv
  <2>2. CASE s.kind \notin {"api", "dns"}
    <3>1. \A r \in s.refs : r.kind \in LooksUp[s.kind] \ {"function"} /\ Named(r) \in exists' => Linked(s, Named(r))'
      BY <1>1, <1>2, <1>7, <2>2 DEF Leaves, Linked
    <3> QED BY <1>7, <2>2, <3>1 DEF WiredUp
  <2>3. CASE s.kind = "api"
    <3>1. s.refs = {} BY <1>1, <1>7, <2>3, SpecIs, Ranks DEF ByKey, HoldRefs
    <3>2. MakeApi(s)
      BY <1>1, <2>3, Makers
      DEF Plain, PlainKinds, Silent, LocalKinds, MakeBucket, MakeDatabase, MakeTopic, MakeScheduler,
          MakeJob, MakeEcsService, MakeUserPool, MakeDnsRecord
    <3>3. /\ pool # Nobody => [from |-> Id(s), to |-> pool] \in links'
          /\ alb # Nobody => [from |-> Id(s), to |-> alb] \in links'
      BY <3>2 DEF MakeApi
    <3> QED BY <1>3, <1>7, <2>1, <2>3, <3>1, <3>3 DEF WiredUp, Fronts, Linked
  <2>4. CASE s.kind = "dns"
    <3>1. MakeDnsRecord(s)
      BY <1>1, <2>4, Makers
      DEF Plain, PlainKinds, Silent, LocalKinds, MakeBucket, MakeDatabase, MakeTopic, MakeScheduler,
          MakeJob, MakeEcsService, MakeUserPool, MakeApi
    <3>2. LooksUp["dns"] = {"cdn", "service", "api"} BY Ranks, Zenon DEF LooksUp
    <3>3. \A r \in s.refs : r.kind \in LooksUp["dns"] /\ AliasTarget(r) \in exists =>
            [from |-> Id(s), to |-> AliasTarget(r)] \in links'
      <4> DEFINE Aliased == {q \in s.refs : q.kind \in LooksUp["dns"] /\ AliasTarget(q) \in exists}
      <4>1. links' = links \cup {[from |-> Id(s), to |-> AliasTarget(r)] : r \in Aliased}
        BY <3>1 DEF MakeDnsRecord
      <4>2. \A r \in s.refs : r.kind \in LooksUp["dns"] /\ AliasTarget(r) \in exists => r \in Aliased
        OBVIOUS
      <4> HIDE DEF Aliased
      <4> QED BY <4>1, <4>2
    <3>4. \A r \in s.refs : r.kind = "cdn" /\ Named(r) \in exists => Linked(s, Named(r))'
      BY <3>2, <3>3 DEF AliasTarget, Linked
    <3>5. ASSUME NEW r \in s.refs, r.kind \in {"service", "api"}, Owned("service") # {}
          PROVE  \E f \in Owned("service") : [from |-> Id(s), to |-> f] \in links'
      <4>1. alb \in Owned("service") /\ alb \in exists BY <2>1, <3>5 DEF Fronts, Owned
      <4> QED BY <3>2, <3>3, <3>5, <4>1 DEF AliasTarget
    <3> HIDE DEF Named, Owned
    <3>6. \A r \in s.refs : r.kind \in LooksUp[s.kind] \ {"function"} /\ Named(r) \in exists' =>
            Linked(s, Named(r))' \/ r.kind \in {"service", "api"}
      BY <1>2, <1>7, <2>4, <3>2, <3>4
    <3>7. (\E r \in s.refs : r.kind \in {"service", "api"}) /\ Owned("service")' # {} =>
            \E f \in Owned("service")' : Linked(s, f)'
      BY <1>4, <1>7, <2>4, <3>5 DEF Linked
    <3>8. WiredUp(s)' BY <2>4, <3>6, <3>7 DEF WiredUp
    <3> QED BY <1>7, <3>8
  <2> QED BY <2>2, <2>3, <2>4
<1> QED BY <1>1, <1>6, <1>7

\* ... and a link is of the one made, for a reference it looks up.
LEMMA LinksKept ==
  ASSUME StackInv, NEW s \in Specs, Make(s)
  PROVE  LinksHave'
<1>1. /\ made' = made \cup {s} /\ Leaves(s) BY MadeInOrder, MakerLeaves DEF StackInv
<1>2. ASSUME NEW l \in links', l \notin links PROVE l.from = Id(s) /\ WiredFor(s, l.to)
  <2>1. l.from = Id(s) /\ (WiredFor(s, l.to) \/ FrontFor(s, l.to)) BY <1>1, <1>2 DEF Leaves
  <2>2. FrontFor(s, l.to) => WiredFor(s, l.to)
    <3>1. alb \in exists => alb.kind = "service"
      <4>1. alb = Nobody \/ alb \in Owned("service") BY DEF StackInv, Fronts
      <4>2. Nobody \notin exists
        <5>1. Nobody.owner # "self" BY DEF Nobody, Res
        <5> QED BY <5>1 DEF StackInv, Fronts
      <4> QED BY <4>1, <4>2 DEF Owned
    <3> QED BY <3>1 DEF FrontFor, WiredFor
  <2> QED BY <2>1, <2>2
<1>3. \A l \in links : \E t \in made : l.from = Id(t) /\ WiredFor(t, l.to) BY DEF StackInv, LinksHave
<1>4. \A l \in links' : \E t \in made' : l.from = Id(t) /\ WiredFor(t, l.to) BY <1>1, <1>2, <1>3
<1> QED BY <1>4, WiresKept DEF LinksHave

LEMMA GrantsKept ==
  ASSUME StackInv, NEW s \in Specs, Make(s)
  PROVE  GrantsHeld'
<1>1. Leaves(s) /\ granted = {} /\ granted' = {} /\ ~Done' /\ s.kind \in Kinds
  BY MadeInOrder, MakerLeaves, SpecIs DEF StackInv
<1>2. Fronts' BY FrontsKept
<1>3. \A g \in grants' : g.on.owner = "self"
  <2>1. \A g \in grants' \ grants : g.on.owner = "self" BY <1>1, <1>2 DEF Leaves, Fronts
  <2>2. \A g \in grants : g.on.owner = "self" BY <1>1 DEF StackInv, GrantsHeld
  <2> QED BY <2>1, <2>2
<1>4. ASSUME NEW c \in DOMAIN compute', NEW x \in exists', x.kind \in DOMAIN Rights
      PROVE  Grant(c, Rights[x.kind], x) \subseteq grants'
  <2>1. x \in exists
    <3>1. SUFFICES ASSUME x \notin exists PROVE FALSE OBVIOUS
    <3>2. s.kind \in DOMAIN Rights BY <1>1, <1>4, <3>1 DEF Leaves, Source, Rights
    <3>3. DOMAIN compute = {} /\ s.kind \notin Compute BY <3>2, StoresFirst DEF StackInv
    <3> QED BY <1>1, <1>4, <3>3 DEF Leaves
  <2>2. CASE c \in DOMAIN compute
    <3>1. Grant(c, Rights[x.kind], x) \subseteq grants BY <1>4, <2>1, <2>2 DEF StackInv, GrantsHeld
    <3> QED BY <1>1, <3>1 DEF Leaves
  <2>3. CASE c \notin DOMAIN compute
    <3>1. c = Id(s) /\ GrantOwned(Id(s)) \subseteq grants' BY <1>1, <1>4, <2>3 DEF Leaves, Over, Var
    <3>2. Grant(c, Rights[x.kind], x) \subseteq GrantOwned(c) BY <1>4, <2>1 DEF GrantOwned
    <3> QED BY <3>1, <3>2
  <2> QED BY <2>2, <2>3
<1> QED BY <1>1, <1>3, <1>4 DEF GrantsHeld

-----------------------------------------------------------------------------
(* The other steps                                                         *)

\* None of them makes or links anything.
LEMMA SameWires ==
  ASSUME StackInv, UNCHANGED <<made, exists, links, alb, pool>>
  PROVE  Fronts' /\ LinksHave'
<1>1. \A kind : Owned(kind)' = Owned(kind) BY DEF Owned
<1>2. Fronts' BY <1>1 DEF StackInv, Fronts
<1>3. ASSUME NEW s \in made' PROVE WiredUp(s)'
  <2>1. WiredUp(s) BY <1>3 DEF StackInv, LinksHave
  <2> QED BY <1>1, <2>1 DEF WiredUp, Linked
<1> QED BY <1>2, <1>3 DEF StackInv, LinksHave

\* A foreign resource's grants are added for all compute at once.
LEMMA GrantedOnce ==
  ASSUME StackInv, NEW r \in Uses, GrantUses(r)
  PROVE  StackInv'
<1>1. /\ made = owns /\ r \in uses /\ granted' = granted \cup {r} /\ ~Done /\ progress' = progress
      /\ grants' = grants \cup UNION {Grant(who, UsesRights(r), r.on) : who \in DOMAIN compute}
      /\ UNCHANGED <<inputVars, made, exists, env, compute, links, alb, target, pool>>
      /\ ~Twice(r)
  BY DEF GrantUses, Done
<1>2. owns' = owns /\ uses' = uses /\ deployEnv' = deployEnv /\ ~Done' BY <1>1 DEF inputVars, Done
<1>3. Ordered' BY <1>1, <1>2 DEF StackInv, Ordered
<1>4. InTheTable' /\ InTheCopies'
  BY <1>1, <1>2 DEF StackInv, InTheTable, InTheCopies, Holds, Sole, SkipLocal, Clashes
<1>5. Fronts' /\ LinksHave' BY <1>1, SameWires
<1>6. GrantsHeld'
  <2>1. ASSUME NEW g \in grants', g.on.owner # "self"
        PROVE  \E q \in granted' : g.on = q.on /\ g.may \in UsesRights(q)
    <3>1. CASE g \in grants BY <1>1, <2>1, <3>1 DEF StackInv, GrantsHeld
    <3>2. CASE g \notin grants
      <4>1. g.on = r.on /\ g.may \in UsesRights(r) BY <1>1, <3>2 DEF Grant
      <4> QED BY <1>1, <4>1
    <3> QED BY <3>1, <3>2
  <2>2. ASSUME NEW c \in DOMAIN compute', NEW q \in granted'
        PROVE  Grant(c, UsesRights(q), q.on) \subseteq grants'
    <3>1. CASE q \in granted BY <1>1, <2>2, <3>1 DEF StackInv, GrantsHeld
    <3>2. CASE q = r BY <1>1, <2>2, <3>2
    <3> QED BY <1>1, <3>1, <3>2
  <2>3. \A c \in DOMAIN compute' : \A x \in exists' :
          x.kind \in DOMAIN Rights => Grant(c, Rights[x.kind], x) \subseteq grants'
    BY <1>1 DEF StackInv, GrantsHeld
  <2>4. \A p, q \in granted' : p.on = q.on /\ q.on.kind \in Imported => p = q
    BY <1>1 DEF StackInv, GrantsHeld, Twice
  <2> QED BY <1>2, <2>1, <2>2, <2>3, <2>4 DEF GrantsHeld
<1> QED BY <1>3, <1>4, <1>5, <1>6 DEF StackInv

LEMMA FinishKeeps ==
  ASSUME StackInv, Finish
  PROVE  StackInv'
<1>1. /\ made = owns /\ granted = uses /\ progress' = "done"
      /\ grants' = grants \cup GrantDatabaseConnect \cup GrantSchedulerAccess
      /\ UNCHANGED <<inputVars, made, granted, exists, env, compute, links, alb, target, pool>>
  BY DEF Finish
<1>2. owns' = owns /\ uses' = uses /\ deployEnv' = deployEnv BY <1>1 DEF inputVars
<1>3. Ordered' BY <1>1, <1>2 DEF StackInv, Ordered, Done
<1>4. InTheTable' /\ InTheCopies'
  BY <1>1, <1>2 DEF StackInv, InTheTable, InTheCopies, Holds, Sole, SkipLocal, Clashes
<1>5. Fronts' /\ LinksHave' BY <1>1, SameWires
<1>6. \A g \in GrantDatabaseConnect \cup GrantSchedulerAccess : g.on \in exists
  <2>1. \A kind : Owned(kind) \subseteq exists BY DEF Owned
  <2>2. \A who, mays, x : \A g \in Grant(who, mays, x) : g.on = x BY DEF Grant
  <2> HIDE DEF Grant, Owned
  <2>3. \A g \in GrantDatabaseConnect : g.on \in exists BY <2>1, <2>2 DEF GrantDatabaseConnect
  <2>4. ASSUME NEW g \in GrantSchedulerAccess PROVE g.on \in exists
    <3>1. PICK role \in Owned("scheduler") : g \in SchedulerGrants(role) BY DEF GrantSchedulerAccess
    <3>2. ASSUME NEW q \in Owned("queue"), g \in Grant(role, {"send"}, q) PROVE g.on \in exists
      BY <2>1, <2>2, <3>2
    <3>3. ASSUME NEW f \in Owned("function"), g \in Grant(role, {"invoke"}, f) PROVE g.on \in exists
      BY <2>1, <2>2, <3>3
    <3>4. ASSUME NEW who \in DOMAIN compute, g \in Grant(who, {"manage", "pass"}, role)
          PROVE  g.on \in exists
      BY <2>1, <2>2, <3>4
    <3>5. \/ \E q \in Owned("queue") : g \in Grant(role, {"send"}, q)
          \/ \E f \in Owned("function") : g \in Grant(role, {"invoke"}, f)
          \/ \E who \in DOMAIN compute : g \in Grant(who, {"manage", "pass"}, role)
      BY <3>1, Zenon DEF SchedulerGrants
    <3> QED BY <3>2, <3>3, <3>4, <3>5
  <2> QED BY <2>3, <2>4
<1>7. GrantDatabaseConnect' = GrantDatabaseConnect BY <1>1 DEF GrantDatabaseConnect, Owned
<1>8. GrantsHeld' BY <1>1, <1>6, <1>7 DEF StackInv, Fronts, GrantsHeld
<1> QED BY <1>3, <1>4, <1>5, <1>8 DEF StackInv

LEMMA OthersKeep ==
  ASSUME StackInv, UNCHANGED <<inputVars, made, granted, stackVars>>,
         progress' = progress \/ progress' = "failed"
  PROVE  StackInv'
<1>1. /\ owns' = owns /\ uses' = uses /\ deployEnv' = deployEnv /\ made' = made /\ granted' = granted
      /\ exists' = exists /\ env' = env /\ compute' = compute /\ links' = links /\ grants' = grants
      /\ alb' = alb /\ target' = target /\ pool' = pool /\ (Done' => Done)
  BY DEF inputVars, stackVars, Done
<1>2. Ordered' BY <1>1 DEF StackInv, Ordered
<1>3. InTheTable' /\ InTheCopies'
  BY <1>1 DEF StackInv, InTheTable, InTheCopies, Holds, Sole, SkipLocal, Clashes
<1>4. Fronts' /\ LinksHave' BY <1>1, SameWires
<1>5. GrantsHeld' BY <1>1 DEF StackInv, GrantsHeld, GrantDatabaseConnect, Owned
<1> QED BY <1>2, <1>3, <1>4, <1>5 DEF StackInv

LEMMA StackStep == StackInv /\ [SNext]_sVars => StackInv'
<1> SUFFICES ASSUME StackInv, [SNext]_sVars PROVE StackInv' OBVIOUS
<1>1. ASSUME NEW s \in Specs, Make(s) PROVE StackInv'
  <2>1. Ordered' BY <1>1, MadeInOrder DEF StackInv
  <2> QED BY <1>1, <2>1, TableKept, CopiesKept, FrontsKept, LinksKept, GrantsKept DEF StackInv
<1>2. ASSUME NEW s \in Specs, MakeThrows(s) PROVE StackInv' BY <1>2, OthersKeep DEF MakeThrows
<1>3. ASSUME NEW r \in Uses, GrantUses(r) PROVE StackInv' BY <1>3, GrantedOnce
<1>4. ASSUME NEW r \in Uses, GrantThrows(r) PROVE StackInv' BY <1>4, OthersKeep DEF GrantThrows
<1>5. CASE Finish BY <1>5, FinishKeeps
<1>6. CASE UNCHANGED sVars BY <1>6, OthersKeep DEF sVars
<1> QED BY <1>1, <1>2, <1>3, <1>4, <1>5, <1>6 DEF SNext

LEMMA StackStart == SInit => StackInv
<1> SUFFICES ASSUME SInit PROVE StackInv OBVIOUS
<1>1. /\ owns \subseteq Specs /\ uses \subseteq Uses /\ made = {} /\ granted = {} /\ exists = {}
      /\ DOMAIN compute = {} /\ grants = {} /\ alb = Nobody /\ pool = Nobody /\ ~Done
  BY NoVariables DEF SInit, Done
<1>2. Ordered BY <1>1 DEF Ordered
<1>3. InTheTable /\ InTheCopies BY <1>1 DEF InTheTable, InTheCopies
<1>4. Fronts BY <1>1 DEF Fronts, Owned
<1>5. GrantsHeld BY <1>1 DEF GrantsHeld
<1>6. LinksHave BY <1>1 DEF LinksHave, SInit
<1> QED BY <1>2, <1>3, <1>4, <1>5, <1>6 DEF StackInv

LEMMA StackIsSound == SSpec => []StackInv
<1> QED BY StackStart, StackStep, PTL DEF SSpec

\* grantUses() by intent: what it grants as declared, not at all, or loosely.
LEMMA RightsAre ==
  ASSUME NEW r \in Uses
  PROVE  UsesRights(r) = CASE Ungranted(r) -> {}
                           [] Loose(r)     -> Rights[r.on.kind]
                           [] OTHER        -> Intended(r.access)
<1>1. r.access \in Intents BY SpecsAssumption
<1>2. CASE r.on.kind \in {"bucket", "table"}
  BY <1>1, <1>2 DEF UsesRights, Ungranted, Loose, Intended, Imported, Intents
<1>3. CASE r.on.kind = "queue"
  BY <1>1, <1>3 DEF UsesRights, Ungranted, Loose, Intended, Imported, Intents, Rights
<1>4. CASE r.on.kind = "snstopic"
  BY <1>1, <1>4 DEF UsesRights, Ungranted, Loose, Intended, Imported, Intents, Rights
<1>5. CASE r.on.kind = "secret"
  BY <1>1, <1>5 DEF UsesRights, Ungranted, Loose, Intended, Imported, Intents, Rights
<1>6. CASE r.on.kind \notin Imported BY <1>6 DEF UsesRights, Ungranted, Loose, Imported
<1> QED BY <1>2, <1>3, <1>4, <1>5, <1>6 DEF Imported

-----------------------------------------------------------------------------
(* Results                                                                 *)

\* Every job and service of a finished stack resolves each store, topic and queue
\* the manifest declares to that resource, whatever the manifest, unless two
\* declarations spell one variable.
THEOREM DataIsReached == SSpec => []DataReachesCompute
<1>1. StackInv => DataReachesCompute
  BY DEF StackInv, Ordered, InTheCopies, Holds, DataReachesCompute, Lookup, Stored
<1> QED BY <1>1, StackIsSound, PTL

\* No reference that its maker looks up is lost to the order of the makers, and no
\* other, to a job or of a kind that the maker passes over, is wired.
THEOREM ReferencesAreKept == SSpec => []ReferencesAreWired
<1>1. StackInv => ReferencesAreWired
  BY DEF StackInv, Ordered, LinksHave, ReferencesAreWired
<1> QED BY <1>1, StackIsSound, PTL

\* On a foreign resource all compute has the intents the manifest declares and no
\* other, with the departures that the property names, and on the service's own
\* stores all it takes to use them.
THEOREM IntentsAreHeld == SSpec => []ComputeHoldsItsIntents
<1>1. ASSUME StackInv, Done, NEW c \in DOMAIN compute
      PROVE  /\ \A r \in uses : Held(c, r.on) = CASE Ungranted(r) -> {}
                                                  [] Loose(r)     -> Rights[r.on.kind]
                                                  [] OTHER        -> Intended(r.access)
             /\ \A x \in {r.on : r \in Uses} \ {r.on : r \in uses} : Held(c, x) = {}
             /\ \A x \in exists : x.kind \in DOMAIN Rights => Rights[x.kind] \subseteq Held(c, x)
             /\ \A db \in Owned("database") : "connect" \in Held(c, db)
  <2>1. granted = uses /\ uses \subseteq Uses BY <1>1 DEF StackInv, Ordered
  <2>2. ASSUME NEW x, NEW m, [who |-> c, may |-> m, on |-> x] \in grants PROVE m \in Held(c, x)
    BY <2>2 DEF Held
  <2>3. ASSUME NEW r \in uses PROVE Held(c, r.on) = UsesRights(r)
    <3>1. ASSUME NEW m \in Held(c, r.on) PROVE m \in UsesRights(r)
      <4>1. PICK g \in grants : g.who = c /\ g.on = r.on /\ m = g.may BY DEF Held
      <4>2. r.on.owner # "self" BY <2>1, SpecsAssumption
      <4>3. PICK q \in granted : g.on = q.on /\ m \in UsesRights(q)
        BY <1>1, <4>1, <4>2 DEF StackInv, GrantsHeld
      <4>4. q.on.kind \in Imported BY <4>3 DEF UsesRights, Imported
      <4>5. q = r BY <1>1, <2>1, <4>1, <4>3, <4>4 DEF StackInv, GrantsHeld
      <4> QED BY <4>3, <4>5
    <3>2. ASSUME NEW m \in UsesRights(r) PROVE m \in Held(c, r.on)
      <4>1. Grant(c, UsesRights(r), r.on) \subseteq grants BY <1>1, <2>1 DEF StackInv, GrantsHeld
      <4>2. [who |-> c, may |-> m, on |-> r.on] \in Grant(c, UsesRights(r), r.on) BY <3>2 DEF Grant
      <4> QED BY <2>2, <4>1, <4>2
    <3> QED BY <3>1, <3>2
  <2>4. ASSUME NEW r \in uses
        PROVE  UsesRights(r) = CASE Ungranted(r) -> {}
                                 [] Loose(r)     -> Rights[r.on.kind]
                                 [] OTHER        -> Intended(r.access)
    BY <2>1, RightsAre
  <2>5. ASSUME NEW x \in {r.on : r \in Uses} \ {r.on : r \in uses} PROVE Held(c, x) = {}
    <3>1. x.owner # "self" BY SpecsAssumption
    <3>2. \A g \in grants : g.on # x BY <1>1, <2>1, <3>1 DEF StackInv, GrantsHeld
    <3> QED BY <3>2 DEF Held
  <2>6. ASSUME NEW x \in exists, x.kind \in DOMAIN Rights, NEW m \in Rights[x.kind]
        PROVE  m \in Held(c, x)
    <3>1. Grant(c, Rights[x.kind], x) \subseteq grants BY <1>1, <2>6 DEF StackInv, GrantsHeld
    <3>2. [who |-> c, may |-> m, on |-> x] \in Grant(c, Rights[x.kind], x) BY <2>6 DEF Grant
    <3> QED BY <2>2, <3>1, <3>2
  <2>7. ASSUME NEW db \in Owned("database") PROVE "connect" \in Held(c, db)
    <3>1. GrantDatabaseConnect \subseteq grants BY <1>1 DEF StackInv, GrantsHeld
    <3>2. Grant(c, {"connect"}, db) \subseteq grants BY <1>1, <3>1 DEF GrantDatabaseConnect
    <3>3. [who |-> c, may |-> "connect", on |-> db] \in Grant(c, {"connect"}, db) BY DEF Grant
    <3> QED BY <2>2, <3>2, <3>3
  <2> QED BY <2>3, <2>4, <2>5, <2>6, <2>7
<1>2. StackInv => ComputeHoldsItsIntents BY <1>1 DEF ComputeHoldsItsIntents
<1> QED BY <1>2, StackIsSound, PTL
===============================================================================
