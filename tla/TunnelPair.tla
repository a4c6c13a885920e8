------------------------------ MODULE TunnelPair ------------------------------
(***************************************************************************)
(* One tunnel client and the tunnel server, and what they promise          *)
(* together.  The client's connection is one of the server's; the server   *)
(* may still be busy with connections the client has left.  Either process *)
(* may die at any time and be started again.                               *)
(***************************************************************************)
EXTENDS Tunnel, TunnelClient

CONSTANT
  Client         \* the id of the client

ASSUME PairAssumption ==
  /\ Client \in Ids
  /\ Answers = Prefixes /\ NoAnswer = NoPrefix

VARIABLE conn    \* the client's connection in the server, NoConn if there is none

pairVars == <<vars, clientVars, conn>>

PairTypeOK == TypeOK /\ ClientTypeOK /\ conn \in Conns \cup {NoConn}

\* The assignments that an earlier run of the server may have left, to others.
EarlierMaps ==
  {map \in Assignments :
     map[Client] = NoPrefix /\ PrefixesOf(map) = 0..(Cardinality(Assigned(map)) - 1)}

PairInit ==
  /\ SessionsInit
  /\ prefixes = NoAssignments /\ inuse = {}
  /\ prefixfile \in {[map |-> map, length |-> Cardinality(Assigned(map))] : map \in EarlierMaps}
  /\ ClientInit
  /\ conn = NoConn

-----------------------------------------------------------------------------
\* Steps of the server that the connection does not see.
Alone(step) == step /\ UNCHANGED <<clientVars, conn>>

\* A write of the server, to the client if it is still there.
ReplyPrefix(c) ==
  /\ SendPrefix(c)
  /\ answer' = IF c = conn THEN prefix[c] ELSE answer
  /\ UNCHANGED <<cpc, cprefix, address, tunReady, ctun, sock, down, sent, conn>>

WritePacket(c) ==
  /\ WriteReturns(c)
  /\ IF c = conn THEN down < MaxStream /\ down' = down + 1 ELSE UNCHANGED down
  /\ UNCHANGED <<cpc, cprefix, address, tunReady, ctun, sock, answer, sent, conn>>

\* A read of the server: of what the client sent, or of the end of its connection.
ReadPacket(c) ==
  /\ TcpRead(c)
  /\ IF c = conn THEN sent > 0 /\ sent' = sent - 1 ELSE UNCHANGED sent
  /\ UNCHANGED <<cpc, cprefix, address, tunReady, ctun, sock, answer, down, conn>>

\* The joint steps of the two.
Connect(c) == ClientConnects(c, Client) /\ Connected /\ conn' = c

ServerDies ==
  /\ ServerKilled \/ \E c \in Conns : Fatal(c)
  /\ ServerGone
  /\ conn' = NoConn

\* The server learns of the end of a connection that the client has left, from the
\* client's kernel or, if that is gone too, by keep-alive probes.
LeftBehind(c) == c # conn /\ Alone(ClientDisconnects(c))

\* Steps of the client that the server does not see; one that closes the
\* connection leaves it behind.
ClientAlone(step) ==
  /\ step
  /\ conn' = IF sock' \in {"open", "fin", "reset"} THEN conn ELSE NoConn
  /\ UNCHANGED vars

-----------------------------------------------------------------------------
\* The threads of the two processes.
pairHandleClient(c) ==
  \/ Alone(HelloFails(c) \/ Hello(c) \/ Lock(c) \/ GetPrefix(c) \/ SendPrefixFails(c))
  \/ Alone(TakeTunName(c) \/ OpenTun(c) \/ FromClient(c) \/ ToClient(c) \/ Shutdown(c))
  \/ ReplyPrefix(c) \/ WritePacket(c)
pairClientTUN(c) == Alone(clientTUN(c))
clientThread == ClientAlone(ClientSteps)

PairNext ==
  \/ \E c \in Conns :
       \/ pairHandleClient(c) \/ ReadPacket(c) \/ pairClientTUN(c)
       \/ Alone(HelloGarbled(c)) \/ Alone(PacketArrives(c)) \/ LeftBehind(c)
       \/ Connect(c)
  \/ Alone(ServerStart) \/ ServerDies
  \/ clientThread
  \/ ClientAlone(ClientTrouble) \/ ClientAlone(ClientStart) \/ ClientAlone(ClientKilled)
  \/ ClientAlone(Outgoing)

\* The schedulers run both processes, and handle_loop's select passes over no ready
\* case for ever.  A connection that is left is noticed.  And retries do not fail
\* for ever: time and again the host is resolved and the answer comes alone and whole.
PairFairness ==
  /\ \A c \in Conns :
       /\ WF_pairVars(pairHandleClient(c))
       /\ WF_pairVars(ReadPacket(c))
       /\ WF_pairVars(pairClientTUN(c))
       /\ WF_pairVars(LeftBehind(c))
       /\ SF_pairVars(Alone(FromClient(c))) /\ SF_pairVars(Alone(Quit(c)))
  /\ WF_pairVars(clientThread)
  /\ SF_pairVars(\E c \in Conns : Connect(c))
  /\ SF_pairVars(ClientAlone(Answer))

PairSpec == PairInit /\ [][PairNext]_pairVars /\ PairFairness

-----------------------------------------------------------------------------
\* The two ends agree: a client that shuttles packets over an open connection has
\* the prefix, and the address, that the server routes to its session, restarts
\* of either included.  The address is added once, at the start (client.c:311-323).
AddressIsServers ==
  sock = "open" /\ cpc \in Shuttling =>
    /\ InSession(conn) /\ id[conn] = Client
    /\ cprefix = prefix[conn] /\ address = prefix[conn]

\* Nothing is taken for something else: the server has its id before a packet can
\* reach it, and no answer is left in the connection for the client to write to its
\* TUN device (client.c:164-182, 357-369).
NothingMistaken ==
  /\ \A c \in Conns : c = conn /\ sent > 0 => pc[c] \in Serving \cup {"name", "open"}
  /\ cpc \in Shuttling => answer = NoAnswer
  /\ down > 0 /\ cpc = "answer" => answer # NoAnswer

\* Both processes wait for the other to read, each in a write.
BothWrite ==
  /\ conn # NoConn
  /\ cpc = "send" /\ sent = MaxStream
  /\ pc[conn] = "write" /\ down = MaxStream

\* "It too listens on both file descriptors and moves packets between them as
\* needed" (README.md:47-49): a client that sends is soon back at its select, unless
\* the two wait for each other.
SendReturns == cpc = "send" ~> cpc # "send" \/ BothWrite

\* Ways to wait for ever for the prefix: the server threw the id away, or an
\* earlier session of the client has deadlocked and keeps its lock.
IdLost == cpc = "answer" /\ conn # NoConn /\ pc[conn] = "reading" /\ ~hello[conn]
EarlierSessionStuck ==
  /\ cpc \in {"connect", "answer", "retry"}
  /\ \E c \in Conns : c # conn /\ pc[c] = "handoff" /\ tun[c] = "sending"

\* "As soon as the server comes back the client will reconnect and operate as
\* before" (README.md:53-56): while both processes run, the client is back at its
\* select with an open connection again and again, unless it is stuck in one of
\* three ways.
ClientComesBack ==
  <>[](up /\ cpc # "off") =>
    \/ []<>(cpc = "select" /\ sock = "open")
    \/ <>[](IdLost \/ EarlierSessionStuck \/ BothWrite)
=============================================================================
