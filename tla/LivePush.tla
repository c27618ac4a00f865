------------------------------ MODULE LivePush ------------------------------
(***************************************************************************)
(* The realtime path to the web application: the window's socket           *)
(* (WebsocketService.ts), the proxy that bridges each connection of it to  *)
(* the backend (ProxyService.ts), and a frame's way to the subscribers.    *)
(*                                                                         *)
(* Nothing calls setAccountId() yet: any account at any time stands for    *)
(* its callers.  The reconnecting-websocket library is external: a socket  *)
(* that is not closed gets a new connection when the one it has ends.  So  *)
(* are the sockets and the backend: a connection can end at any time, and  *)
(* the proxy learns of it by an event.                                     *)
(***************************************************************************)
EXTENDS Naturals, Sequences, FiniteSets

CONSTANTS AccountIds,
          NoAccount,
          MaxConns,     \* bound on the connections made
          MaxFrames     \* bound on the frames the backend sends

ASSUME PushAssumption == NoAccount \notin AccountIds /\ MaxConns \in Nat /\ MaxFrames \in Nat

Conn == 1..MaxConns

VARIABLES accountId,   \* the field of that name
          socket,      \* the account the socket was made for, NoAccount without one
          conn,        \* the connection the socket has, or 0
          made,        \* the connections made are 1..made
          of,          \* the account of the socket each was made by
          client,      \* the connection between window and proxy: "none", "open" or "closed"
          backend,     \* between proxy and backend: "connecting" as well
          unheard,     \* the ends of connections whose event the proxy has to take yet
          pipe,        \* the frames on their way on each connection
          frames,      \* frames sent so far
          reading,     \* the received frames whose text is being read
          published    \* the frames the subscribers were told of

windowVars == <<accountId, socket, conn>>
bridgeVars == <<client, backend, unheard>>
frameVars  == <<pipe, frames, reading, published>>
pushVars   == <<windowVars, made, of, bridgeVars, frameVars>>

LPInit ==
  /\ accountId = NoAccount /\ socket = NoAccount /\ conn = 0
  /\ made = 0 /\ of = [k \in Conn |-> NoAccount]
  /\ client = [k \in Conn |-> "none"] /\ backend = [k \in Conn |-> "none"]
  /\ unheard = {} /\ pipe = [k \in Conn |-> <<>>] /\ frames = 0
  /\ reading = {} /\ published = {}

-----------------------------------------------------------------------------
(* Connections                                                             *)

Live == {"connecting", "open"}

\* One of the two connections of a bridge ends, if it has not.
ClientEnds(k) ==
  IF k \in Conn /\ client[k] = "open"
  THEN client' = [client EXCEPT ![k] = "closed"] /\ unheard' = unheard \cup {<<k, "client">>}
  ELSE UNCHANGED <<client, unheard>>

BackendEnds(k) ==
  IF backend[k] \in Live
  THEN backend' = [backend EXCEPT ![k] = "closed"] /\ unheard' = unheard \cup {<<k, "backend">>}
  ELSE UNCHANGED <<backend, unheard>>

\* setAccountId(): another account gets another socket; the old one loses its
\* listeners and is closed.
SetAccountId(id) ==
  /\ id # accountId
  /\ accountId' = id /\ socket' = id /\ conn' = 0
  /\ ClientEnds(conn)
  /\ UNCHANGED <<made, of, backend, frameVars>>

\* makeEmpty(): the socket goes, the account stays.
MakeEmpty ==
  /\ socket # NoAccount /\ socket' = NoAccount /\ conn' = 0
  /\ ClientEnds(conn)
  /\ UNCHANGED <<accountId, made, of, backend, frameVars>>

\* The library connects.  onClientSocket() opens a connection to the backend; with
\* no upstream that has a socket it closes the client at once.
OnClientSocket ==
  /\ socket # NoAccount /\ (conn # 0 => client[conn] = "closed") /\ made < MaxConns
  /\ made' = made + 1 /\ conn' = made'
  /\ of' = [of EXCEPT ![made'] = socket]
  /\ \/ client' = [client EXCEPT ![made'] = "open"] /\ backend' = [backend EXCEPT ![made'] = "connecting"]
     \/ client' = [client EXCEPT ![made'] = "closed"] /\ UNCHANGED backend
  /\ UNCHANGED <<accountId, socket, unheard, frameVars>>

Accept(k) ==
  /\ backend[k] = "connecting"
  /\ backend' = [backend EXCEPT ![k] = "open"]
  /\ UNCHANGED <<windowVars, made, of, client, unheard, frameVars>>

\* A connection is refused, closed by the other side or lost.
NetworkFails(k) ==
  /\ \/ client[k] = "open" /\ ClientEnds(k) /\ UNCHANGED backend
     \/ backend[k] \in Live /\ BackendEnds(k) /\ UNCHANGED client
  /\ UNCHANGED <<windowVars, made, of, frameVars>>

\* Variant: the proxy does not listen to the close of its client.
Unpaired(k, end) == unheard' = unheard \ {<<k, end>>} /\ UNCHANGED <<client, backend>>

\* on( "close" ) and on( "error" ) of one of the two close the other.
Paired(k, end) ==
  LET rest == unheard \ {<<k, end>>}
  IN \/ /\ end = "client" /\ backend[k] \in Live
        /\ backend' = [backend EXCEPT ![k] = "closed"] /\ unheard' = rest \cup {<<k, "backend">>}
        /\ UNCHANGED client
     \/ /\ end = "backend" /\ client[k] = "open"
        /\ client' = [client EXCEPT ![k] = "closed"] /\ unheard' = rest \cup {<<k, "client">>}
        /\ UNCHANGED backend
     \/ /\ (end = "client" => backend[k] \notin Live) /\ (end = "backend" => client[k] # "open")
        /\ unheard' = rest /\ UNCHANGED <<client, backend>>

OnClose(k, end) ==
  /\ <<k, end>> \in unheard
  /\ Paired(k, end)
  /\ UNCHANGED <<windowVars, made, of, frameVars>>

-----------------------------------------------------------------------------
(* Frames                                                                  *)

\* The backend sends a frame; the proxy passes it on if its client is open.
Push(k) ==
  /\ backend[k] = "open" /\ frames < MaxFrames /\ frames' = frames + 1
  /\ pipe' = IF client[k] = "open" THEN [pipe EXCEPT ![k] = Append(@, frames')] ELSE pipe
  /\ UNCHANGED <<windowVars, made, of, bridgeVars, reading, published>>

\* Variant: the listeners stay on a socket that is being closed.
Always(k) == TRUE

Listening(k) == conn = k

\* A frame arrives.  While the socket has its listeners its text is asked for; of
\* a frame it is remembered whose it is and who was signed in when it came.
FrameArrives(k) ==
  /\ pipe[k] # <<>> /\ pipe' = [pipe EXCEPT ![k] = Tail(@)]
  /\ reading' = IF Listening(k)
                THEN reading \cup {[frame |-> Head(pipe[k]), of |-> of[k], to |-> accountId]}
                ELSE reading
  /\ UNCHANGED <<windowVars, made, of, bridgeVars, frames, published>>

\* The text is there, perhaps before that of an earlier frame.
Publish(m) ==
  /\ m \in reading /\ reading' = reading \ {m}
  /\ published' = published \cup {<<m, accountId>>}
  /\ UNCHANGED <<windowVars, made, of, bridgeVars, pipe, frames>>

LPNext ==
  \/ \E id \in AccountIds : SetAccountId(id)
  \/ MakeEmpty \/ OnClientSocket
  \/ \E k \in Conn : \/ Accept(k) \/ NetworkFails(k) \/ Push(k) \/ FrameArrives(k)
                     \/ \E end \in {"client", "backend"} : OnClose(k, end)
  \/ \E m \in reading : Publish(m)

LPSpec == LPInit /\ [][LPNext]_pushVars

-----------------------------------------------------------------------------
(* Properties                                                              *)

\* `bridge a client socket to the upstream's WS endpoint' (ProxyService.ts:241):
\* whichever side ends first and however the accounts are switched, once the proxy
\* has taken the events a bridge has both of its connections or neither.
BridgesEndTogether ==
  unheard = {} => \A k \in Conn : (backend[k] \in Live) = (client[k] = "open")

\* closeSocket() before `going to another account' (WebsocketService.ts:81): no
\* frame that comes on a connection made for one account is taken for another's,
\* whatever is still on its way when the account is switched.
FramesAreOfTheAccount ==
  \A m \in reading \cup {p[1] : p \in published} : m.of = m.to

\* Those that are being read at the switch are published after it.
PublishedToTheAccount == \A p \in published : p[1].of = p[2]

\* Signed in, the window has a socket.
SignedInHasSocket == accountId # NoAccount => socket = accountId
=============================================================================
