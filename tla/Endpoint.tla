------------------------------ MODULE Endpoint ------------------------------
(***************************************************************************)
(* A REST endpoint, packages/endpoint/src/RestfulEndpoint.ts: the request  *)
(* a client marshals, the one instance with which the service answers all  *)
(* requests of the route (Service.ts), and what execute() finds in it.     *)
(*                                                                         *)
(* A value is the sequence of what stands between its slashes: <<"a">> is  *)
(* plain, <<"a", "b">> has a slash in it.  Fastify's router is external:   *)
(* it calls the handler of the route whose pattern the path fits and       *)
(* allows an optional parameter only at the end of a pattern.              *)
(***************************************************************************)
EXTENDS Naturals, Sequences

CONSTANTS Requests,
          Texts,      \* what may stand between two slashes, free of the characters
                      \* that mean something in a uri
          Pattern,    \* the uri, a sequence of [is, name, optional], where `is' is
                      \* "static" or "param"
          Location,   \* getMappings(): of each field "uri", "header" or "param"
          Required,   \* the fields the query schema requires
          Queries     \* those clients ask for: some of the fields, with a value each

Fields == DOMAIN Location

Segment == [is : {"static", "param"}, name : Texts \cup Fields, optional : BOOLEAN]

ASSUME EndpointAssumption ==
  /\ Pattern \in Seq(Segment) /\ Location \in [Fields -> {"uri", "header", "param"}]
  /\ \A q \in Queries : DOMAIN q \subseteq Fields /\ q \in [DOMAIN q -> Seq(Texts)] /\ \A f \in DOMAIN q : q[f] # <<>>
  /\ Required \subseteq Fields
  /\ \A f \in Fields : Location[f] = "uri" =>
       \E i \in DOMAIN Pattern : Pattern[i].is = "param" /\ Pattern[i].name = f
  /\ \A i \in DOMAIN Pattern :
       /\ Pattern[i].is = "param" =>
            /\ Pattern[i].name \in Fields /\ Location[Pattern[i].name] = "uri"
            /\ \A j \in DOMAIN Pattern \ {i} : Pattern[j].is = "param" => Pattern[j].name # Pattern[i].name
       /\ Pattern[i].optional => i = Len(Pattern) /\ Pattern[i].is = "param"
       /\ Pattern[i].is = "param" /\ ~Pattern[i].optional => Pattern[i].name \in Required

VARIABLES at,        \* where each request is
          asked,     \* the query its client put into it
          wire,      \* what the client sends
          query,     \* the field of that name of the server's instance
          started,   \* what execute() found there when it was called
          found      \* and what it found there after an await of its own

endpointVars == <<at, asked, wire, query, started, found>>

Unset == << >>

EInit ==
  /\ at = [r \in Requests |-> "new"]
  /\ asked = [r \in Requests |-> Unset] /\ wire = [r \in Requests |-> Unset]
  /\ query = Unset
  /\ started = [r \in Requests |-> Unset] /\ found = [r \in Requests |-> Unset]

\* validate(): the schema's required fields stand for all that it checks.
Accepts(q) == Required \subseteq DOMAIN q

\* The fields of q that are sent at a place.
Placed(q, place) == [f \in {g \in DOMAIN q : Location[g] = place} |-> q[f]]

-----------------------------------------------------------------------------
(* The client                                                              *)

\* What a segment of the uri becomes: a placeholder its value, as it is and not
\* percent-encoded; an optional one without a value is dropped.
Segments(seg, q) ==
  IF seg.is = "static" THEN <<seg.name>>
  ELSE IF seg.name \in DOMAIN q THEN q[seg.name] ELSE <<>>

ResolvedUri(q) ==
  LET upTo[i \in 0..Len(Pattern)] ==
        IF i = 0 THEN <<>> ELSE upTo[i - 1] \o Segments(Pattern[i], q)
  IN upTo[Len(Pattern)]

\* marshalClient() of a query that is valid.
MarshalClient(q) ==
  [path   |-> ResolvedUri(q),
   header |-> Placed(q, "header"),
   param  |-> Placed(q, "param")]

Send(r, q) ==
  /\ at[r] = "new"
  /\ asked' = [asked EXCEPT ![r] = q]
  /\ \/ /\ Accepts(q)
        /\ at' = [at EXCEPT ![r] = "sent"]
        /\ wire' = [wire EXCEPT ![r] = MarshalClient(q)]
     \/ /\ ~Accepts(q)
        /\ at' = [at EXCEPT ![r] = "thrown"] /\ UNCHANGED wire
  /\ UNCHANGED <<query, started, found>>

-----------------------------------------------------------------------------
(* The server                                                              *)

\* The path's segments fit the pattern's one by one and only optional ones are
\* left over.
Fits(path) ==
  /\ Len(path) <= Len(Pattern)
  /\ \A i \in DOMAIN Pattern :
       IF i <= Len(path) THEN Pattern[i].is = "static" => path[i] = Pattern[i].name
                         ELSE Pattern[i].optional

\* parseUriParams()
ParseUriParams(path) ==
  LET params == {i \in DOMAIN path : Fits(path) /\ Pattern[i].is = "param"}
  IN [f \in {Pattern[i].name : i \in params} |-> <<path[CHOOSE i \in params : Pattern[i].name = f]>>]

\* Variant: the fields are put into the query that is there, so that one that is
\* not sent keeps the value of an earlier request.
UnmarshalOver(w) ==
  LET uri == ParseUriParams(w.path)
  IN [f \in DOMAIN uri \cup DOMAIN w.header \cup DOMAIN w.param \cup DOMAIN query |->
        IF f \in DOMAIN uri THEN uri[f]
        ELSE IF f \in DOMAIN w.header THEN w.header[f]
        ELSE IF f \in DOMAIN w.param THEN w.param[f] ELSE query[f]]

\* unmarshalServer(): each mapped field from its place.
UnmarshalServer(w) ==
  LET uri == ParseUriParams(w.path)
  IN [f \in DOMAIN uri \cup DOMAIN w.header \cup DOMAIN w.param |->
        IF f \in DOMAIN uri THEN uri[f]
        ELSE IF f \in DOMAIN w.header THEN w.header[f] ELSE w.param[f]]

\* processEndpoint() up to the first await of execute(): reset, unmarshal, and a
\* 400 when the query is not valid, which then stays in the instance.
ProcessEndpoint(r) ==
  /\ at[r] = "sent" /\ Fits(wire[r].path)
  /\ query' = UnmarshalServer(wire[r])
  /\ \/ /\ Accepts(query')
        /\ at' = [at EXCEPT ![r] = "executing"] /\ started' = [started EXCEPT ![r] = query']
     \/ /\ ~Accepts(query')
        /\ at' = [at EXCEPT ![r] = "400"] /\ UNCHANGED started
  /\ UNCHANGED <<asked, wire, found>>

\* No pattern fits.
NoRoute(r) ==
  /\ at[r] = "sent" /\ ~Fits(wire[r].path)
  /\ at' = [at EXCEPT ![r] = "404"]
  /\ UNCHANGED <<asked, wire, query, started, found>>

\* execute() goes on after an await, reads its query again, and is answered.
Reply200(r) ==
  /\ at[r] = "executing"
  /\ at' = [at EXCEPT ![r] = "200"] /\ found' = [found EXCEPT ![r] = query]
  /\ UNCHANGED <<asked, wire, query, started>>

ENext ==
  \E r \in Requests : \/ \E q \in Queries : Send(r, q)
                      \/ ProcessEndpoint(r) \/ NoRoute(r) \/ Reply200(r)

ESpec == EInit /\ [][ENext]_endpointVars

-----------------------------------------------------------------------------
(* Properties                                                              *)

\* No value in the path is empty or has a slash in it.
Plain(q) == \A f \in DOMAIN q : Location[f] = "uri" => Len(q[f]) = 1

\* `the SAME definition the web client (marshalClient) and server
\* (unmarshalServer/execute) share' (RestfulEndpoint.ts:34): whatever requests the
\* instance served before, execute() starts with the query the client was given,
\* all fields of it and no others, and a valid query is not turned away.
ServerSeesWhatTheClientSent ==
  \A r \in Requests :
    Plain(asked[r]) /\ at[r] \notin {"new", "sent", "thrown"} =>
      at[r] \in {"executing", "200"} /\ started[r] = asked[r]

\* `endpoint instances are registered once and reused, so clear per-request state
\* first' (Service.ts:76): what execute() reads after an await is its own request.
AwaitsKeepTheQuery == \A r \in Requests : at[r] = "200" => found[r] = started[r]
=============================================================================
