------------------------------ MODULE MCTraffic ------------------------------
(* Four small instances for one run of TLC, each behaving on its own while    *)
(* the others rest in their initial states: what is on its way between the    *)
(* window, the services and the queue - a request and its endpoint, a frame   *)
(* pushed back, a configuration that is polled, and work that is shared out.  *)
EXTENDS WorkQueue, Endpoint, ConfigPoll, LivePush, TLC

CONSTANTS c1, c2, a, u, p1, p2, r1, r2, x, y

mcTwo     == {c1, c2}
mcTenant  == {a}
mcUrgent  == {u}

\* Doubles with three binary digits instead of 53, so that most sums are rounded:
\* 2/3 is 10 of 16 units, and 1 the largest weight whose sum never reaches 1.
mcSpacings == {1, 2, 4}

\* No priority queue, and one with the weights 0, too small to tell, 2/3, and 1.
mcOptions == {[priorityKey |-> FALSE, fairWeight |-> 0]}
             \cup [priorityKey : {TRUE}, fairWeight : {0, 1, 10, 16}]

\* "/items/:id/:part?" with a header and a query parameter.
mcPattern  == <<[is |-> "static", name |-> "items", optional |-> FALSE],
                [is |-> "param", name |-> "id", optional |-> FALSE],
                [is |-> "param", name |-> "part", optional |-> TRUE]>>
mcLocation == [id |-> "uri", part |-> "uri", session |-> "header", q |-> "param"]
mcRequired == {"id"}
mcTexts    == {"items", "a", "b", "c", "d", "e"}
mcFull     == [id |-> <<"a">>, part |-> <<"b">>, session |-> <<"c">>, q |-> <<"d", "e">>]
mcSlashed  == [id |-> <<"a", "b">>]
mcQueries  == {[f \in fs |-> mcFull[f]] : fs \in SUBSET DOMAIN mcFull}
              \cup {mcSlashed, mcSlashed @@ mcFull}
mcRequests == {r1, r2}
mcPolls    == {p1, p2}
mcAccounts == {x, y}

VARIABLE part

mcAll == <<part, vars, endpointVars, configVars, pushVars>>

mcTrafficInit ==
  /\ part \in {"queue", "endpoint", "config", "push"}
  /\ Init /\ (part = "queue" \/ ~opts.priorityKey)
  /\ EInit /\ CInit /\ LPInit

mcTrafficNext ==
  /\ UNCHANGED part
  /\ \/ part = "queue" /\ Next /\ UNCHANGED <<endpointVars, configVars, pushVars>>
     \/ part = "endpoint" /\ ENext /\ UNCHANGED <<vars, configVars, pushVars>>
     \/ part = "config" /\ CNext /\ UNCHANGED <<vars, endpointVars, pushVars>>
     \/ part = "push" /\ LPNext /\ UNCHANGED <<vars, endpointVars, configVars>>

\* Only the queue promises liveness: a behaviour of another part is not fair, as
\* the queue rests, and its safety properties do not need it to be.
mcTrafficSpec == mcTrafficInit /\ [][mcTrafficNext]_mcAll /\ Fairness
=============================================================================
