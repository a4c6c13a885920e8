--------------------------- MODULE TunnelPairProofs ---------------------------
(***************************************************************************)
(* Proofs about a tunnel client and its server, for every number of        *)
(* clients, connections, prefixes and TUN devices and every capacity of    *)
(* the queues between them.  The server's own invariants carry over: every *)
(* step of the pair is a step of the server or leaves the server alone.    *)
(***************************************************************************)
EXTENDS TunnelPair, TunnelProofs

USE PrefixAssumption, ServerAssumption, ClientAssumption, PairAssumption

-----------------------------------------------------------------------------
\* The steps of the pair, one action each.
ServerAction(c) ==
  \/ HelloFails(c) \/ HelloGarbled(c) \/ Hello(c) \/ Lock(c)
  \/ GetPrefix(c) \/ SendPrefixFails(c) \/ TakeTunName(c) \/ OpenTun(c)
  \/ FromClient(c) \/ ToClient(c)
  \/ Quit(c) \/ Wake(c) \/ Handoff(c) \/ FreeTunName(c) \/ Unlock(c)
  \/ TunRead(c) \/ TunForwards(c) \/ TunCloses(c) \/ PacketArrives(c)

ClientAction ==
  \/ Retry \/ Answer \/ AnswerAndPackets \/ AnswerCut
  \/ AnswerEof \/ AnswerEofCrash \/ AnswerError
  \/ Select \/ TcpData \/ TcpEnds \/ TunPacket \/ Send \/ SendFails
  \/ ResolveFails \/ TunError \/ SendKills
  \/ ClientStart \/ ClientKilled \/ Outgoing

LEMMA PairCases ==
  ASSUME PairNext
  PROVE  \/ \E c \in Conns : Alone(ServerAction(c))
         \/ \E c \in Conns : ReplyPrefix(c)
         \/ \E c \in Conns : WritePacket(c)
         \/ \E c \in Conns : ReadPacket(c)
         \/ \E c \in Conns : LeftBehind(c)
         \/ \E c \in Conns : Connect(c)
         \/ Alone(ServerStart)
         \/ ServerDown /\ ServerGone /\ conn' = NoConn
         \/ ClientAlone(ClientAction)
<1>1. ASSUME NEW c \in Conns, pairHandleClient(c)
      PROVE  Alone(ServerAction(c)) \/ ReplyPrefix(c) \/ WritePacket(c)
  BY <1>1 DEF pairHandleClient, Alone, ServerAction, Shutdown
<1>2. ASSUME NEW c \in Conns,
             pairClientTUN(c) \/ Alone(HelloGarbled(c)) \/ Alone(PacketArrives(c))
      PROVE  Alone(ServerAction(c))
  BY <1>2 DEF pairClientTUN, clientTUN, Alone, ServerAction
<1>3. ASSUME \/ clientThread \/ ClientAlone(ClientTrouble) \/ ClientAlone(ClientStart)
             \/ ClientAlone(ClientKilled) \/ ClientAlone(Outgoing)
      PROVE  ClientAlone(ClientAction)
  BY <1>3 DEF clientThread, ClientAlone, ClientTrouble, ClientAction, ClientSteps, get_prefix, shuttle
<1>4. ServerDies => ServerDown /\ ServerGone /\ conn' = NoConn
  BY DEF ServerDies, ServerKilled, Fatal
<1>5. QED
  BY <1>1, <1>2, <1>3, <1>4 DEF PairNext

LEMMA PairStepsServer ==
  ASSUME [PairNext]_pairVars
  PROVE  [Next]_vars
<1>1. ASSUME NEW c \in Conns, pairHandleClient(c) \/ ReadPacket(c) \/ pairClientTUN(c)
      PROVE  Next
  BY <1>1 DEF pairHandleClient, ReadPacket, pairClientTUN, ReplyPrefix, WritePacket, Alone,
     Next, handleClient, clientTCP, clientTUN, Setup, Shutdown
<1>2. ASSUME NEW c \in Conns,
             Alone(HelloGarbled(c)) \/ Alone(PacketArrives(c)) \/ LeftBehind(c) \/ Connect(c)
      PROVE  Next
  BY <1>2 DEF LeftBehind, Connect, Alone, Next, Environment, handleClient, Setup
<1>3. Alone(ServerStart) \/ ServerDies => Next
  BY DEF Alone, ServerDies, Next, Environment
<1>4. QED
  BY <1>1, <1>2, <1>3 DEF PairNext, pairVars, clientThread, ClientAlone

-----------------------------------------------------------------------------
\* The server's invariants hold in the pair, which may start with assignments of
\* an earlier run in the file.
ServerInv == TypeOK /\ LockInv /\ AssignInv /\ SessionInv /\ DeviceInv /\ GoroutineInv

LEMMA EarlierMapInjective ==
  ASSUME NEW map \in EarlierMaps
  PROVE  map \in Assignments /\ Injective(map)
<1>1. map \in Assignments /\ PrefixesOf(map) = 0..(Cardinality(Assigned(map)) - 1)
  BY DEF EarlierMaps
<1>2. DEFINE A == Assigned(map)
             P == PrefixesOf(map)
             f == [i \in A |-> map[i]]
<1>3. IsFiniteSet(A) /\ Cardinality(A) \in Nat
  BY AssignedFinite
<1>4. f \in Surjection(A, P)
  BY <1>1 DEF Surjection, PrefixesOf
<1>5. Cardinality(P) = Cardinality(A)
  <2>1. Cardinality(0..(Cardinality(A) - 1))
          = IF 0 > Cardinality(A) - 1 THEN 0 ELSE (Cardinality(A) - 1) - 0 + 1
    <3> HIDE DEF A
    <3>1. Cardinality(A) - 1 \in Int /\ 0 \in Int
      BY <1>3
    <3>2. QED
      BY <3>1, FS_Interval
  <2>2. QED
    BY <1>1, <1>3, <2>1
<1>6. f \in Injection(A, P)
  <2> HIDE DEF A, P, f
  <2> QED
    BY <1>3, <1>4, <1>5, FS_SurjSameCardinalityImpliesInj
<1>7. Injective(map)
  BY <1>6 DEF Injection, IsInjective, Injective, Assigned
<1>8. QED
  BY <1>1, <1>7

LEMMA InitServer == PairInit => ServerInv
<1> SUFFICES ASSUME PairInit PROVE ServerInv
  OBVIOUS
<1>1. PICK map \in EarlierMaps : prefixfile = [map |-> map, length |-> Cardinality(Assigned(map))]
  BY DEF PairInit
<1>2. map \in Assignments /\ Injective(map) /\ Cardinality(Assigned(map)) \in Nat
  BY EarlierMapInjective, AssignedFinite
<1>3. \A i \in Ids : NoAssignments[i] = NoPrefix
  BY DEF NoAssignments
<1>4. AssignInv
  BY <1>1, <1>2, <1>3 DEF PairInit, SessionsInit, AssignInv
<1>5. TypeOK
  <2>1. PrefixTypeOK /\ told \in [Ids -> Prefixes \cup {NoPrefix}]
    BY <1>1, <1>2, EmptyMap DEF PairInit, SessionsInit, PrefixTypeOK, Assignments
  <2>2. /\ up \in BOOLEAN /\ id \in [Conns -> Ids]
        /\ hello \in [Conns -> BOOLEAN] /\ alive \in [Conns -> BOOLEAN]
        /\ tunQuit \in [Conns -> BOOLEAN] /\ tunset \in [TunIds -> BOOLEAN]
    BY DEF PairInit, SessionsInit, OnAll
  <2>3. /\ pc \in [Conns -> Outside \cup Inside]
        /\ tcp \in [Conns -> {"none", "reading", "packet", "quit"}]
        /\ tun \in [Conns -> {"none", "reading", "got", "sending", "closed"}]
    BY DEF PairInit, SessionsInit, OnAll, Outside
  <2>4. /\ mw \in [Conns -> MutexNumbers] /\ client_locks \in [Ids -> MutexNumbers]
        /\ locked \in SUBSET (Ids \X MutexNumbers)
        /\ queue \in [Conns -> 0..MaxTunQueue]
        /\ tunname \in [Conns -> TunIds]
    BY DEF PairInit, SessionsInit, OnAll, TunIds, MutexNumbers
  <2>5. prefix \in [Conns -> Prefixes \cup {NoPrefix}] /\ device \in [TunIds -> Conns \cup {NoConn}]
    BY DEF PairInit, SessionsInit, OnAll
  <2>6. QED
    BY <2>1, <2>2, <2>3, <2>4, <2>5 DEF TypeOK
<1>6. LockInv /\ SessionInv /\ DeviceInv /\ GoroutineInv
  BY DEF PairInit, SessionsInit, OnAll, LockInv, InSession, OneSessionPerClient, SessionInv,
     DeviceInv, GoroutineInv, Inside, Serving
<1>7. QED
  BY <1>4, <1>5, <1>6 DEF ServerInv

LEMMA StepServer ==
  ASSUME FileLimit >= Cardinality(Ids), ServerInv, [PairNext]_pairVars
  PROVE  ServerInv'
<1>1. [Next]_vars
  BY PairStepsServer
<1>2. QED
  BY <1>1, StepType, StepLocks, StepAssign, StepDevice, StepGoroutines DEF ServerInv

\* The prefix that a client was told does not change.
LEMMA ToldStays ==
  ASSUME ServerInv, [Next]_vars, NEW i \in Ids, told[i] # NoPrefix
  PROVE  told'[i] = told[i]
<1>1. CASE \E c \in Conns : SendPrefix(c)
  <2>1. PICK c \in Conns : SendPrefix(c)
    BY <1>1
  <2>2. told' = [told EXCEPT ![id[c]] = prefix[c]] /\ pc[c] = "reply"
    BY <2>1 DEF SendPrefix
  <2>3. prefix[c] = prefixfile.map[id[c]]
    BY <2>2 DEF ServerInv, SessionInv, Inside
  <2>4. prefixfile.map[i] = told[i]
    BY DEF ServerInv, AssignInv
  <2>5. QED
    BY <2>2, <2>3, <2>4 DEF ServerInv, TypeOK
<1>2. CASE ~\E c \in Conns : SendPrefix(c)
  BY <1>2, NextCases DEF ServerStart, ServerDown, ClientConnects, HelloFails, HelloGarbled,
     Hello, Lock, GetPrefix, SendPrefixFails, TakeTunName, OpenTun, Quit, Wake, Handoff,
     FreeTunName, Unlock, FromClient, ToClient, WriteReturns, TcpRead, TunRead, TunForwards, TunCloses,
     PacketArrives, ClientDisconnects, vars
<1>3. QED
  BY <1>1, <1>2

-----------------------------------------------------------------------------
\* A session whose client is still connected.  It ends only when the client is gone.
Ending == {"wake", "handoff", "free", "unlock"}
QuitInv == \A c \in Conns : tcp[c] = "quit" \/ pc[c] \in Ending => ~alive[c]

LEMMA StepQuit ==
  ASSUME TypeOK, GoroutineInv, QuitInv, [Next]_vars
  PROVE  QuitInv'
<1>t. /\ pc \in [Conns -> Outside \cup Inside] /\ alive \in [Conns -> BOOLEAN]
      /\ tcp \in [Conns -> {"none", "reading", "packet", "quit"}]
  BY DEF TypeOK
<1> USE DEF Ending
<1>1. CASE ServerDown
  BY <1>1 DEF ServerDown, OnAll, QuitInv
<1>2. ASSUME NEW c \in Conns, NEW i \in Ids, ClientConnects(c, i) PROVE QuitInv'
  <2>1. pc[c] = "idle" /\ tcp[c] = "none"
    BY <1>2 DEF ClientConnects, GoroutineInv, Serving
  <2>2. QED
    BY <1>2, <1>t, <2>1 DEF ClientConnects, Goto, goVars, QuitInv
<1>3. ASSUME NEW c \in Conns,
             \/ HelloFails(c) \/ SendPrefixFails(c) \/ Unlock(c) \/ Hello(c) \/ Lock(c)
             \/ GetPrefix(c) \/ SendPrefix(c) \/ TakeTunName(c) \/ ToClient(c) \/ WriteReturns(c)
      PROVE  QuitInv'
  <2>1. /\ \E l \in {"idle", "locking", "prefix", "reply", "name", "open", "loop", "write"} :
             pc' = [pc EXCEPT ![c] = l]
        /\ UNCHANGED <<tcp, alive>>
    BY <1>3 DEF HelloFails, SendPrefixFails, Unlock, Return, Hello, Lock, GetPrefix, SendPrefix,
       TakeTunName, ToClient, WriteReturns, Goto, goVars
  <2>2. QED
    BY <1>t, <2>1 DEF QuitInv
<1>4. ASSUME NEW c \in Conns, OpenTun(c) PROVE QuitInv'
  BY <1>4, <1>t DEF OpenTun, Goto, QuitInv
<1>5. ASSUME NEW c \in Conns, Quit(c) \/ Wake(c) \/ Handoff(c) \/ FreeTunName(c) PROVE QuitInv'
  <2>1. /\ tcp[c] = "quit" \/ pc[c] \in Ending
        /\ alive' = alive
        /\ \A d \in Conns \ {c} : pc'[d] = pc[d] /\ tcp'[d] = tcp[d]
    BY <1>5, <1>t DEF Quit, Wake, WakeUp, Handoff, FreeTunName, Goto, goVars
  <2>2. QED
    BY <2>1 DEF QuitInv
<1>6. ASSUME NEW c \in Conns, FromClient(c) \/ TcpRead(c) PROVE QuitInv'
  BY <1>6, <1>t DEF FromClient, TcpRead, sessionVars, QuitInv
<1>7. ASSUME NEW c \in Conns,
             HelloGarbled(c) \/ TunRead(c) \/ TunForwards(c) \/ TunCloses(c) \/ PacketArrives(c)
      PROVE  QuitInv'
  BY <1>7 DEF HelloGarbled, TunRead, TunForwards, TunCloses, PacketArrives, sessionVars, goVars, QuitInv
<1>8. ASSUME NEW c \in Conns, ClientDisconnects(c) PROVE QuitInv'
  BY <1>8, <1>t DEF ClientDisconnects, goVars, QuitInv
<1>9. CASE ServerStart \/ UNCHANGED vars
  BY <1>9 DEF ServerStart, vars, sessionVars, goVars, QuitInv
<1>10. QED
  BY NextCases, <1>1, <1>2, <1>3, <1>4, <1>5, <1>6, <1>7, <1>8, <1>9

\* The session has told its client the prefix.
Past(c) == pc[c] \in Inside \ {"prefix", "reply"}
Live(c) == alive[c] /\ id[c] = Client /\ pc[c] # "idle"

LEMMA LiveGoesOn ==
  ASSUME TypeOK, QuitInv, NEW d \in Conns, Live(d), NEW c \in Conns,
         \/ ServerAction(c) \/ WriteReturns(c) \/ TcpRead(c)
         \/ c # d /\ (SendPrefix(c) \/ ClientDisconnects(c))
  PROVE  Live(d)' /\ (Past(d)' <=> Past(d))
<1>t. pc \in [Conns -> Outside \cup Inside] /\ alive \in [Conns -> BOOLEAN]
  BY DEF TypeOK
<1>q. tcp[d] # "quit" /\ pc[d] \notin Ending
  BY DEF QuitInv, Live
<1> USE DEF Live, Past
<1>1. CASE c # d /\ (SendPrefix(c) \/ ClientDisconnects(c))
  BY <1>1, <1>t DEF SendPrefix, ClientDisconnects, Goto
<1>2. CASE \/ HelloGarbled(c) \/ FromClient(c) \/ TcpRead(c) \/ TunRead(c)
           \/ TunForwards(c) \/ TunCloses(c) \/ PacketArrives(c)
  BY <1>2 DEF HelloGarbled, FromClient, TcpRead, TunRead, TunForwards, TunCloses, PacketArrives,
     sessionVars
<1>3. CASE HelloFails(c) \/ SendPrefixFails(c) \/ Unlock(c)
  <2>1. c # d /\ alive' = alive /\ id' = id /\ pc' = [pc EXCEPT ![c] = "idle"]
    BY <1>3, <1>q DEF HelloFails, SendPrefixFails, Unlock, Return, Goto, Ending
  <2>2. QED
    BY <1>t, <2>1
<1>4. CASE Quit(c) \/ Wake(c) \/ Handoff(c) \/ FreeTunName(c)
  <2>1. c # d /\ alive' = alive /\ id' = id
    BY <1>4, <1>q DEF Quit, Wake, WakeUp, Handoff, FreeTunName, Ending
  <2>2. pc'[d] = pc[d]
    BY <1>4, <1>t, <2>1 DEF Quit, Wake, WakeUp, Handoff, FreeTunName, Goto
  <2>3. QED
    BY <2>1, <2>2
<1>5. CASE Hello(c) \/ Lock(c) \/ GetPrefix(c)
  <2>1. /\ alive' = alive /\ id' = id
        /\ pc[c] \in {"reading", "locking", "prefix"}
        /\ \E l \in {"locking", "prefix", "reply"} : pc' = [pc EXCEPT ![c] = l]
    BY <1>5 DEF Hello, Lock, GetPrefix, Goto
  <2>2. QED
    BY <1>t, <2>1 DEF Inside, Serving
<1>6. CASE TakeTunName(c) \/ OpenTun(c) \/ ToClient(c) \/ WriteReturns(c)
  <2>1. /\ alive' = alive /\ id' = id
        /\ pc[c] \in {"name", "open", "loop", "write"}
        /\ \E l \in {"open", "loop", "write"} : pc' = [pc EXCEPT ![c] = l]
    BY <1>6 DEF TakeTunName, OpenTun, ToClient, WriteReturns, Goto
  <2>2. QED
    BY <1>t, <2>1 DEF Inside, Serving
<1>7. QED
  BY <1>1, <1>2, <1>3, <1>4, <1>5, <1>6 DEF ServerAction

-----------------------------------------------------------------------------
\* The types of the client's variables.
LEMMA StepClientType ==
  ASSUME PairTypeOK, [PairNext]_pairVars
  PROVE  PairTypeOK'
<1>s. TypeOK'
  BY PairStepsServer, StepType DEF PairTypeOK
<1>t. /\ cpc \in {"off", "connect", "answer", "retry"} \cup Shuttling
      /\ sock \in {"none", "open", "fin", "reset"}
      /\ cprefix \in Answers \cup {NoAnswer} /\ address \in Answers \cup {NoAnswer}
      /\ answer \in Answers \cup {NoAnswer}
      /\ tunReady \in BOOLEAN
      /\ down \in 0..MaxStream /\ sent \in 0..MaxStream /\ ctun \in 0..MaxTun
      /\ conn \in Conns \cup {NoConn}
  BY DEF PairTypeOK, ClientTypeOK
<1> USE DEF PairTypeOK, ClientTypeOK, Shuttling
<1>1. ASSUME NEW c \in Conns, Alone(ServerAction(c)) PROVE PairTypeOK'
  BY <1>1, <1>s, <1>t DEF Alone, clientVars, connVars
<1>2. ASSUME NEW c \in Conns, ReplyPrefix(c) PROVE PairTypeOK'
  BY <1>2, <1>s, <1>t DEF ReplyPrefix, TypeOK
<1>3. ASSUME NEW c \in Conns, WritePacket(c) PROVE PairTypeOK'
  BY <1>3, <1>s, <1>t DEF WritePacket
<1>4. ASSUME NEW c \in Conns, ReadPacket(c) PROVE PairTypeOK'
  BY <1>4, <1>s, <1>t DEF ReadPacket
<1>5. ASSUME NEW c \in Conns, LeftBehind(c) PROVE PairTypeOK'
  BY <1>5, <1>s, <1>t DEF LeftBehind, Alone, clientVars, connVars
<1>6. ASSUME NEW c \in Conns, Connect(c) PROVE PairTypeOK'
  BY <1>6, <1>s, <1>t DEF Connect, Connected, Connection
<1>7. CASE Alone(ServerStart) \/ UNCHANGED pairVars
  BY <1>7, <1>s, <1>t DEF Alone, pairVars, clientVars, connVars
<1>8. CASE ServerDown /\ ServerGone /\ conn' = NoConn
  BY <1>8, <1>s, <1>t DEF ServerGone, Connection, connVars
<1>9. CASE ClientAlone(ClientAction)
  <2>1. ClientAction /\ conn' \in Conns \cup {NoConn}
    BY <1>9, <1>t DEF ClientAlone
  <2>2. CASE ResolveFails \/ ClientStart
    BY <2>1, <2>2, <1>s, <1>t DEF ResolveFails, ClientStart, connVars
  <2>12. CASE Outgoing \/ TunPacket
    <3>1. ctun' \in 0..MaxTun
      BY <2>12, <1>t DEF Outgoing, TunPacket
    <3>2. /\ cpc' = cpc \/ cpc' = "send"
          /\ tunReady' = tunReady \/ tunReady' = FALSE
          /\ UNCHANGED <<cprefix, address, sock, answer, down, sent>>
      BY <2>12 DEF Outgoing, TunPacket, connVars
    <3>3. QED
      BY <2>1, <3>1, <3>2, <1>s, <1>t
  <2>11. CASE Select
    <3>1. tunReady' \in BOOLEAN
      <4>1. CASE ctun > 0
        BY <2>11, <4>1 DEF Select
      <4>2. CASE ~(ctun > 0)
        BY <2>11, <4>2 DEF Select
      <4>3. QED
        BY <4>1, <4>2
    <3>2. cpc' \in {"tcp", "tun"} /\ UNCHANGED <<cprefix, address, ctun, sock, answer, down, sent>>
      BY <2>11 DEF Select, connVars
    <3>3. QED
      BY <2>1, <3>1, <3>2, <1>s, <1>t
  <2>3. CASE \/ Retry \/ TcpEnds \/ SendFails
    BY <2>1, <2>3, <1>s, <1>t DEF Retry, TcpEnds, SendFails, reconnect, Connection
  <2>4. CASE \/ AnswerEofCrash \/ TunError \/ SendKills \/ ClientKilled
    <3>1. ClientOff
      BY <2>4 DEF AnswerEofCrash, TunError, SendKills, ClientKilled
    <3>2. /\ cpc' = "off" /\ sock' = "none" /\ tunReady' = FALSE
          /\ cprefix' = NoAnswer /\ address' = NoAnswer /\ answer' = NoAnswer
          /\ down' = 0 /\ sent' = 0 /\ ctun' = 0
      BY <3>1 DEF ClientOff, Connection
    <3>3. 0 \in 0..MaxStream /\ 0 \in 0..MaxTun
      OBVIOUS
    <3>4. QED
      BY <2>1, <3>2, <3>3, <1>s, <1>t
  <2>5. CASE \/ AnswerEof \/ AnswerError
    BY <2>1, <2>5, <1>s, <1>t DEF AnswerEof, AnswerError, Fails, GotPrefix, connVars
  <2>6. CASE Answer \/ AnswerCut
    BY <2>1, <2>6, <1>s, <1>t DEF Answer, AnswerCut, Fails, RecvAnswer, GotPrefix
  <2>7. CASE AnswerAndPackets
    BY <2>1, <2>7, <1>s, <1>t DEF AnswerAndPackets, Fails, RecvAnswer, GotPrefix
  <2>8. CASE TcpData
    BY <2>1, <2>8, <1>s, <1>t DEF TcpData, AfterTcp
  <2>9. CASE Send
    BY <2>1, <2>9, <1>s, <1>t DEF Send
  <2>10. QED
    BY <2>1, <2>2, <2>3, <2>4, <2>5, <2>6, <2>7, <2>8, <2>9, <2>11, <2>12 DEF ClientAction
<1>10. QED
  BY PairCases, <1>1, <1>2, <1>3, <1>4, <1>5, <1>6, <1>7, <1>8, <1>9

LEMMA InitPairType == PairInit => PairTypeOK
<1> SUFFICES ASSUME PairInit PROVE PairTypeOK
  OBVIOUS
<1>1. /\ cpc = "off" /\ sock = "none" /\ tunReady = FALSE
      /\ cprefix = NoAnswer /\ address = NoAnswer /\ answer = NoAnswer
      /\ down = 0 /\ sent = 0 /\ ctun = 0 /\ conn = NoConn
  BY DEF PairInit, ClientInit
<1>2. 0 \in 0..MaxStream /\ 0 \in 0..MaxTun
  OBVIOUS
<1>3. ClientTypeOK
  BY <1>1, <1>2 DEF ClientTypeOK
<1>4. QED
  BY <1>1, <1>3, InitServer DEF PairTypeOK, ServerInv

\* The variables of the two processes and of what is between them keep their types:
\* neither direction of the connection, nor the client's device, holds more than it
\* can, and the client has no prefix but one of the server's (client.c:150-230).
THEOREM PairTypeCorrect == PairSpec => []PairTypeOK
  BY InitPairType, StepClientType, PTL DEF PairSpec

-----------------------------------------------------------------------------
\* What the two ends know of each other.
TalkInv ==
  /\ conn # NoConn <=> sock = "open"
  /\ conn # NoConn => Live(conn)
  /\ {answer, cprefix, address} \subseteq {NoAnswer, told[Client]}
  /\ cpc \in Shuttling => cprefix # NoAnswer /\ address # NoAnswer /\ answer = NoAnswer
  /\ conn # NoConn /\ (cpc \in Shuttling \/ answer # NoAnswer \/ sent > 0) => Past(conn)
  /\ conn # NoConn /\ cpc = "answer" /\ Past(conn) => answer # NoAnswer
  /\ down > 0 /\ cpc = "answer" => answer # NoAnswer

\* A step of the server that the client notices at most by packets.
LEMMA TalkKept ==
  ASSUME ServerInv, TalkInv, [Next]_vars,
         UNCHANGED <<conn, cpc, sock, cprefix, address, answer>>,
         conn # NoConn => Live(conn)' /\ (Past(conn)' <=> Past(conn)),
         conn # NoConn /\ sent' > 0 => Past(conn),
         down' > 0 /\ cpc = "answer" => answer # NoAnswer
  PROVE  TalkInv'
<1>1. told[Client] # NoPrefix => told'[Client] = told[Client]
  BY ToldStays
<1>2. {answer, cprefix, address} \subseteq {NoAnswer, told'[Client]}
  BY <1>1 DEF TalkInv
<1>3. QED
  BY <1>2 DEF TalkInv

LEMMA ClientSocket ==
  ASSUME ClientAction
  PROVE  /\ sock' = "open" => sock = "open"
         /\ sock = "open" => sock' \in {"open", "none"}
<1>1. CASE ResolveFails \/ ClientStart \/ Outgoing \/ Select \/ TunPacket \/ AnswerEof \/ AnswerError
  BY <1>1 DEF ResolveFails, ClientStart, Outgoing, Select, TunPacket, AnswerEof, AnswerError, Fails,
     connVars
<1>2. CASE Retry \/ TcpEnds \/ SendFails \/ AnswerEofCrash \/ TunError \/ SendKills \/ ClientKilled
  BY <1>2 DEF Retry, TcpEnds, SendFails, reconnect, AnswerEofCrash, TunError, SendKills,
     ClientKilled, ClientOff, Connection
<1>3. CASE Answer \/ AnswerCut \/ AnswerAndPackets \/ TcpData \/ Send
  BY <1>3 DEF Answer, AnswerCut, AnswerAndPackets, Fails, RecvAnswer, TcpData, Send
<1>4. QED
  BY <1>1, <1>2, <1>3 DEF ClientAction

\* The client's own steps.
LEMMA ClientTalks ==
  ASSUME PairTypeOK, TalkInv, ClientAlone(ClientAction)
  PROVE  TalkInv'
<1>1. /\ ClientAction
      /\ conn' = (IF sock' \in {"open", "fin", "reset"} THEN conn ELSE NoConn)
      /\ UNCHANGED <<pc, alive, id, told>>
  BY DEF ClientAlone, vars, sessionVars
<1>2. /\ conn' # NoConn <=> sock' = "open"
      /\ conn' # NoConn => conn' = conn /\ conn # NoConn
  BY <1>1, ClientSocket DEF TalkInv
<1>3. conn' # NoConn => Live(conn)' /\ (Past(conn)' <=> Past(conn))
  BY <1>1, <1>2 DEF TalkInv, Live, Past
<1>4. /\ down \in Nat /\ sent \in Nat /\ NoAnswer \notin Answers
      /\ answer \in Answers \cup {NoAnswer}
  BY DEF PairTypeOK, ClientTypeOK
\* It is enough to look at the client's side of the connection.
<1>5. ASSUME {answer', cprefix', address'} \subseteq {NoAnswer, answer, cprefix, address},
             cpc' \in Shuttling =>
               /\ cprefix' # NoAnswer /\ address' # NoAnswer /\ answer' = NoAnswer
               /\ cpc \in Shuttling \/ answer # NoAnswer \/ sock # "open",
             answer' # NoAnswer => answer # NoAnswer,
             sent' > 0 => sent > 0 \/ cpc \in Shuttling,
             cpc' = "answer" => cpc = "answer" /\ answer' = answer /\ down' = down
      PROVE  TalkInv'
  <2>1. {answer', cprefix', address'} \subseteq {NoAnswer, told'[Client]}
    BY <1>1, <1>5 DEF TalkInv
  <2>2. conn' # NoConn /\ (cpc' \in Shuttling \/ answer' # NoAnswer \/ sent' > 0) => Past(conn)'
    BY <1>2, <1>3, <1>5 DEF TalkInv
  <2>3. conn' # NoConn /\ cpc' = "answer" /\ Past(conn)' => answer' # NoAnswer
    BY <1>2, <1>3, <1>5 DEF TalkInv
  <2>4. down' > 0 /\ cpc' = "answer" => answer' # NoAnswer
    BY <1>5 DEF TalkInv
  <2>5. conn' # NoConn => Live(conn)'
    BY <1>3
  <2>6. QED
    BY <1>2, <1>5, <2>1, <2>2, <2>3, <2>4, <2>5 DEF TalkInv
<1> USE DEF Shuttling
<1>6. CASE ResolveFails \/ ClientStart \/ Select \/ TunPacket \/ Outgoing
  BY <1>5, <1>6 DEF ResolveFails, ClientStart, Select, TunPacket, Outgoing, connVars, TalkInv
<1>7. CASE Retry \/ TcpEnds \/ SendFails
  BY <1>5, <1>7 DEF Retry, TcpEnds, SendFails, reconnect, Connection
<1>8. CASE AnswerEofCrash \/ TunError \/ SendKills \/ ClientKilled
  BY <1>5, <1>8 DEF AnswerEofCrash, TunError, SendKills, ClientKilled, ClientOff, Connection
<1>9. CASE AnswerEof
  BY <1>5, <1>9 DEF AnswerEof, GotPrefix, connVars
<1>10. CASE AnswerError
  BY <1>5, <1>10 DEF AnswerError, Fails, connVars
<1>11. CASE Answer
  BY <1>5, <1>11 DEF Answer, RecvAnswer, GotPrefix
<1>12. CASE AnswerAndPackets
  BY <1>5, <1>12 DEF AnswerAndPackets, Fails, RecvAnswer, GotPrefix
<1>13. CASE AnswerCut
  BY <1>5, <1>13 DEF AnswerCut, Fails, RecvAnswer
<1>14. CASE TcpData
  BY <1>5, <1>14 DEF TcpData, AfterTcp, TalkInv
<1>15. CASE Send
  BY <1>5, <1>15 DEF Send, TalkInv
<1>16. QED
  BY <1>1, <1>6, <1>7, <1>8, <1>9, <1>10, <1>11, <1>12, <1>13, <1>14, <1>15 DEF ClientAction

LEMMA StepTalk ==
  ASSUME PairTypeOK, ServerInv, QuitInv, TalkInv, [PairNext]_pairVars
  PROVE  TalkInv'
<1>n. [Next]_vars
  BY PairStepsServer
<1>t. /\ conn \in Conns \cup {NoConn} /\ TypeOK /\ down \in Nat /\ sent \in Nat
      /\ pc \in [Conns -> Outside \cup Inside] /\ alive \in [Conns -> BOOLEAN]
      /\ id \in [Conns -> Ids]
  BY DEF PairTypeOK, ClientTypeOK, ServerInv, TypeOK
\* What it takes for a server step to leave the client's connection alive.
<1>l. ASSUME NEW c \in Conns, conn' = conn,
             \/ ServerAction(c) \/ WriteReturns(c) \/ TcpRead(c)
             \/ c # conn /\ (SendPrefix(c) \/ ClientDisconnects(c))
      PROVE  conn # NoConn => Live(conn)' /\ (Past(conn)' <=> Past(conn))
  <2> SUFFICES ASSUME conn # NoConn PROVE Live(conn)' /\ (Past(conn)' <=> Past(conn))
    OBVIOUS
  <2>1. PICK d \in Conns : d = conn
    BY <1>t
  <2>2. Live(d)
    BY <2>1 DEF TalkInv
  <2>3. Live(d)' /\ (Past(d)' <=> Past(d))
    BY <1>l, <1>t, <2>1, <2>2, LiveGoesOn
  <2>4. QED
    BY <1>l, <2>1, <2>3 DEF Live, Past
<1>1. ASSUME NEW c \in Conns, Alone(ServerAction(c)) \/ LeftBehind(c) PROVE TalkInv'
  <2>1. /\ UNCHANGED <<conn, cpc, sock, cprefix, address, answer, sent, down>>
        /\ ServerAction(c) \/ (c # conn /\ ClientDisconnects(c))
    BY <1>1 DEF Alone, LeftBehind, clientVars, connVars
  <2>2. conn # NoConn => Live(conn)' /\ (Past(conn)' <=> Past(conn))
    BY <1>l, <2>1
  <2>3. /\ conn # NoConn /\ sent' > 0 => Past(conn)
        /\ down' > 0 /\ cpc = "answer" => answer # NoAnswer
    BY <2>1 DEF TalkInv
  <2>4. QED
    BY <1>n, <2>1, <2>2, <2>3, TalkKept
<1>2. ASSUME NEW c \in Conns, WritePacket(c) PROVE TalkInv'
  <2>1. /\ UNCHANGED <<conn, cpc, sock, cprefix, address, answer, sent>> /\ WriteReturns(c)
        /\ c # conn => down' = down
    BY <1>2 DEF WritePacket
  <2>2. conn # NoConn => Live(conn)' /\ (Past(conn)' <=> Past(conn))
    BY <1>l, <2>1
  <2>3. c = conn /\ cpc = "answer" => answer # NoAnswer
    BY <2>1 DEF WriteReturns, TalkInv, Past, Inside, Serving
  <2>4. /\ conn # NoConn /\ sent' > 0 => Past(conn)
        /\ down' > 0 /\ cpc = "answer" => answer # NoAnswer
    BY <2>1, <2>3 DEF TalkInv
  <2>5. QED
    BY <1>n, <2>1, <2>2, <2>4, TalkKept
<1>3. ASSUME NEW c \in Conns, ReadPacket(c) PROVE TalkInv'
  <2>1. /\ UNCHANGED <<conn, cpc, sock, cprefix, address, answer, down>> /\ TcpRead(c)
        /\ sent' = sent \/ sent > 0
    BY <1>3 DEF ReadPacket
  <2>2. conn # NoConn => Live(conn)' /\ (Past(conn)' <=> Past(conn))
    BY <1>l, <2>1
  <2>3. /\ conn # NoConn /\ sent' > 0 => Past(conn)
        /\ down' > 0 /\ cpc = "answer" => answer # NoAnswer
    BY <2>1 DEF TalkInv
  <2>4. QED
    BY <1>n, <2>1, <2>2, <2>3, TalkKept
<1>4. ASSUME NEW c \in Conns, ReplyPrefix(c) PROVE TalkInv'
  <2>1. /\ UNCHANGED <<conn, cpc, sock, cprefix, address, sent, down>> /\ SendPrefix(c)
        /\ answer' = IF c = conn THEN prefix[c] ELSE answer
    BY <1>4 DEF ReplyPrefix
  <2>2. CASE c # conn
    <3>1. conn # NoConn => Live(conn)' /\ (Past(conn)' <=> Past(conn))
      BY <1>l, <2>1, <2>2
    <3>2. /\ conn # NoConn /\ sent' > 0 => Past(conn)
          /\ down' > 0 /\ cpc = "answer" => answer # NoAnswer
      BY <2>1 DEF TalkInv
    <3>3. QED
      BY <1>n, <2>1, <2>2, <3>1, <3>2, TalkKept
  <2>3. CASE c = conn
    <3>1. /\ pc[c] = "reply" /\ pc' = [pc EXCEPT ![c] = "name"]
          /\ told' = [told EXCEPT ![id[c]] = prefix[c]] /\ UNCHANGED <<alive, id>>
      BY <2>1 DEF SendPrefix, Goto
    <3>2. conn # NoConn /\ conn = c /\ Live(c) /\ ~Past(c) /\ sock = "open"
      BY <2>3, <3>1 DEF TalkInv, Past
    <3>3. cpc \notin Shuttling /\ answer = NoAnswer /\ ~(sent > 0)
      BY <3>2 DEF TalkInv
    <3>4. prefix[c] # NoPrefix
      BY <3>1 DEF ServerInv, SessionInv, Inside
    <3>5. told'[Client] = prefix[c]
      BY <3>1, <3>2 DEF Live, ServerInv, TypeOK
    <3>6. told[Client] # NoPrefix => told'[Client] = told[Client]
      BY <1>n, ToldStays
    <3>7. {answer', cprefix', address'} \subseteq {NoAnswer, told'[Client]}
      BY <2>1, <2>3, <3>5, <3>6 DEF TalkInv
    <3>8. pc'[c] = "name"
      BY <1>t, <3>1
    <3>9. Live(c)' /\ Past(c)' /\ conn' = c
      BY <2>1, <3>1, <3>2, <3>8 DEF Live, Past, Inside, Serving
    <3>10. Live(conn)' /\ Past(conn)'
      BY <3>9 DEF Live, Past
    <3>11. answer' # NoAnswer
      BY <2>1, <2>3, <3>4
    <3>12. QED
      BY <2>1, <3>2, <3>3, <3>7, <3>10, <3>11 DEF TalkInv
  <2>4. QED
    BY <2>2, <2>3
<1>5. ASSUME NEW c \in Conns, Connect(c) PROVE TalkInv'
  <2>1. /\ cpc' = "answer" /\ sock' = "open" /\ answer' = NoAnswer /\ down' = 0 /\ sent' = 0
        /\ UNCHANGED <<cprefix, address, told>> /\ conn' = c
    BY <1>5 DEF Connect, Connected, Connection, ClientConnects
  <2>2. pc'[c] = "reading" /\ alive'[c] /\ id'[c] = Client
    BY <1>5, <1>t DEF Connect, ClientConnects, Goto
  <2>3. Live(conn)' /\ ~Past(conn)'
    BY <2>1, <2>2 DEF Live, Past, Inside, Serving
  <2>4. QED
    BY <2>1, <2>3 DEF TalkInv, Shuttling
<1>6. CASE Alone(ServerStart) \/ UNCHANGED pairVars
  BY <1>6 DEF Alone, ServerStart, pairVars, vars, sessionVars, clientVars, connVars, TalkInv, Live, Past
<1>7. CASE ServerDown /\ ServerGone /\ conn' = NoConn
  <2>1. UNCHANGED <<cpc, cprefix, address, told>> /\ conn' = NoConn
    BY <1>7 DEF ServerDown, ServerGone
  <2>2. sock' # "open"
    BY <1>7 DEF ServerGone, Connection, connVars
  <2>3. \/ answer' = answer /\ down' = down
        \/ answer' = NoAnswer /\ down' = 0
    BY <1>7 DEF ServerGone, Connection, connVars
  <2>4. QED
    BY <2>1, <2>2, <2>3 DEF TalkInv
<1>8. CASE ClientAlone(ClientAction)
  BY <1>8, ClientTalks
<1>9. QED
  BY PairCases, <1>1, <1>2, <1>3, <1>4, <1>5, <1>6, <1>7, <1>8

-----------------------------------------------------------------------------
PairInv == PairTypeOK /\ ServerInv /\ QuitInv /\ TalkInv

LEMMA PairInvariant == ASSUME FileLimit >= Cardinality(Ids) PROVE PairSpec => []PairInv
<1>1. PairInit => PairInv
  <2> SUFFICES ASSUME PairInit PROVE PairInv
    OBVIOUS
  <2>1. ServerInv
    BY InitServer
  <2>2. PairTypeOK
    BY InitPairType
  <2>3. QuitInv
    BY DEF PairInit, SessionsInit, OnAll, QuitInv, Ending
  <2>4. TalkInv
    BY DEF PairInit, ClientInit, SessionsInit, TalkInv, Shuttling
  <2>5. QED
    BY <2>1, <2>2, <2>3, <2>4 DEF PairInv
<1>2. PairInv /\ [PairNext]_pairVars => PairInv'
  <2> SUFFICES ASSUME PairInv, [PairNext]_pairVars PROVE PairInv'
    OBVIOUS
  <2>1. ServerInv'
    BY StepServer DEF PairInv
  <2>2. PairTypeOK'
    BY StepClientType DEF PairInv
  <2>3. QuitInv'
    BY PairStepsServer, StepQuit DEF PairInv, ServerInv
  <2>4. TalkInv'
    BY StepTalk DEF PairInv
  <2>5. QED
    BY <2>1, <2>2, <2>3, <2>4 DEF PairInv
<1>3. QED
  BY <1>1, <1>2, PTL DEF PairSpec

\* A client that shuttles packets over an open connection has the prefix and the
\* address that the server routes to its session (client.c:311-323, server.go:96-160),
\* if the assignments file is no longer than what Create reads.
THEOREM AddressIsServersHolds ==
  ASSUME FileLimit >= Cardinality(Ids) PROVE PairSpec => []AddressIsServers
<1>1. ASSUME PairInv, sock = "open", cpc \in Shuttling
      PROVE  /\ InSession(conn) /\ id[conn] = Client
             /\ cprefix = prefix[conn] /\ address = prefix[conn]
  <2>1. conn \in Conns /\ Live(conn) /\ Past(conn)
    BY <1>1 DEF PairInv, TalkInv, PairTypeOK
  <2>2. told[Client] = prefix[conn]
    <3>1. id[conn] = Client /\ pc[conn] \in Inside \ {"prefix", "reply"}
      BY <2>1 DEF Live, Past
    <3>2. told[id[conn]] = prefix[conn]
      BY <1>1, <2>1, <3>1 DEF PairInv, ServerInv, SessionInv
    <3>3. QED
      BY <3>1, <3>2
  <2>3. cprefix = told[Client] /\ address = told[Client]
    BY <1>1 DEF PairInv, TalkInv
  <2>4. QED
    BY <2>1, <2>2, <2>3 DEF Live, Past, InSession
<1>2. PairInv => AddressIsServers
  BY <1>1 DEF AddressIsServers
<1>3. QED
  BY <1>2, PairInvariant, PTL

\* No packet is taken for an id, and no answer for a packet (client.c:164-182,
\* 357-369, server.go:113-133), on the same condition.
THEOREM NothingMistakenHolds ==
  ASSUME FileLimit >= Cardinality(Ids) PROVE PairSpec => []NothingMistaken
<1>1. ASSUME PairInv, NEW c \in Conns, c = conn, sent > 0
      PROVE  pc[c] \in Serving \cup {"name", "open"}
  <2>1. Live(c) /\ Past(c)
    BY <1>1 DEF PairInv, TalkInv
  <2>2. pc[c] \notin Ending
    BY <1>1, <2>1 DEF PairInv, QuitInv, Live
  <2>3. QED
    BY <2>1, <2>2 DEF Past, Inside, Serving, Ending
<1>2. PairInv => (cpc \in Shuttling => answer = NoAnswer)
                 /\ (down > 0 /\ cpc = "answer" => answer # NoAnswer)
  BY DEF PairInv, TalkInv
<1>3. PairInv => NothingMistaken
  BY <1>1, <1>2 DEF NothingMistaken
<1>4. QED
  BY <1>3, PairInvariant, PTL

\* The server keeps its contract (server.go:102-226) with a client that dies, is
\* started again and comes back over another connection, too, and with
\* assignments in the file that an earlier run of the server left to others.
THEOREM PairServiceImplemented ==
  ASSUME FileLimit >= Cardinality(Ids) PROVE PairSpec => ServiceKept
<1>1. PairInit => Contract!ContractInit
  BY InitService DEF PairInit
<1>2. PairInv /\ PairInv' /\ [PairNext]_pairVars => [Contract!ContractNext]_(Contract!contractVars)
  BY PairStepsServer, StepService DEF PairInv, ServerInv
<1>3. QED
  BY <1>1, <1>2, PairInvariant, PTL DEF PairSpec, ServiceKept, Contract!ContractSpec
=============================================================================
