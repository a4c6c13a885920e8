----------------------------- MODULE TunnelProofs -----------------------------
(***************************************************************************)
(* Proofs about the tunnel server, for every number of clients,            *)
(* connections, prefixes and TUN devices.                                  *)
(***************************************************************************)
EXTENDS Tunnel, FiniteSetTheorems, TLAPS

USE PrefixAssumption, ServerAssumption

\* The steps of the server and of its surroundings, one action each.
LEMMA NextCases ==
  ASSUME Next
  PROVE  \/ ServerStart
         \/ ServerDown
         \/ \E c \in Conns, i \in Ids : ClientConnects(c, i)
         \/ \E c \in Conns :
              \/ HelloFails(c) \/ HelloGarbled(c) \/ Hello(c) \/ Lock(c)
              \/ GetPrefix(c) \/ SendPrefix(c) \/ SendPrefixFails(c)
              \/ TakeTunName(c) \/ OpenTun(c)
              \/ ToClient(c) \/ WriteReturns(c)
              \/ Quit(c) \/ Wake(c) \/ Handoff(c) \/ FreeTunName(c) \/ Unlock(c)
         \/ \E c \in Conns :
              \/ FromClient(c) \/ TcpRead(c) \/ TunRead(c) \/ TunForwards(c)
              \/ TunCloses(c) \/ PacketArrives(c) \/ ClientDisconnects(c)
  BY DEF Next, Environment, handleClient, clientTCP, clientTUN, Setup, Shutdown, Fatal, ServerKilled

-----------------------------------------------------------------------------
\* Maps and files of assignments.
LEMMA EmptyMap ==
  NoAssignments \in Assignments /\ Assigned(NoAssignments) = {} /\ PrefixesOf(NoAssignments) = {}
<1>1. NoAssignments \in Assignments /\ Assigned(NoAssignments) = {}
  BY DEF NoAssignments, Assignments, Assigned
<1>2. QED
  BY <1>1 DEF PrefixesOf, PrefixTypeOK

LEMMA AssignedFinite ==
  ASSUME NEW map
  PROVE  IsFiniteSet(Assigned(map)) /\ Cardinality(Assigned(map)) \in Nat
<1>1. Assigned(map) \subseteq Ids
  BY DEF Assigned
<1>2. IsFiniteSet(Assigned(map))
  BY <1>1, FS_Subset
<1>3. QED
  BY <1>2, FS_CardinalityType

LEMMA PrefixesOfType ==
  ASSUME NEW map \in Assignments
  PROVE  PrefixesOf(map) \in SUBSET Prefixes
  BY DEF PrefixesOf, Assigned, Assignments

LEMMA ReadType ==
  ASSUME NEW file, file.map \in Assignments
  PROVE  Read(file) \in Assignments
  BY EmptyMap DEF Read

\* What getPrefix does to the types, whatever it returns.
LEMMA GetPrefixType ==
  ASSUME PrefixTypeOK, NEW i \in Ids, NEW p \in Prefixes, getPrefix(i, p)
  PROVE  PrefixTypeOK'
<1>1. prefixes' \in Assignments
  BY DEF getPrefix, PrefixTypeOK, Assignments
<1>2. inuse' \in SUBSET Prefixes
  BY DEF getPrefix, PrefixTypeOK
<1>3. prefixfile'.map = prefixes' /\ prefixfile'.length \in Nat
  <2>1. Cardinality(Assigned(prefixes')) \in Nat
    BY AssignedFinite
  <2>2. prefixfile' = Written(prefixfile, prefixes') /\ prefixfile.length \in Nat
    BY DEF getPrefix, PrefixTypeOK
  <2>3. QED
    BY <2>1, <2>2 DEF Written
<1>4. QED
  BY <1>1, <1>2, <1>3 DEF PrefixTypeOK

LEMMA StepType == TypeOK /\ [Next]_vars => TypeOK'
<1> SUFFICES ASSUME TypeOK, [Next]_vars PROVE TypeOK'
  OBVIOUS
<1> USE DEF TypeOK, Inside, Serving, Outside, Goto
<1> USE DEF prefixVars, sessionVars, goVars, lockVars, tunVars
<1>1. CASE ServerStart
  <2>1. PrefixTypeOK'
    BY <1>1, ReadType, PrefixesOfType DEF ServerStart, Create, PrefixTypeOK
  <2>2. QED
    BY <1>1, <2>1 DEF ServerStart
<1>2. CASE ServerDown
  <2>1. PrefixTypeOK'
    BY <1>2, EmptyMap DEF ServerDown, PrefixTypeOK
  <2>2. /\ up' \in BOOLEAN /\ id' \in [Conns -> Ids] /\ told' = told
        /\ hello' \in [Conns -> BOOLEAN] /\ alive' \in [Conns -> BOOLEAN]
        /\ tunQuit' \in [Conns -> BOOLEAN] /\ tunset' \in [TunIds -> BOOLEAN]
    BY <1>2 DEF ServerDown, OnAll
  <2>3. /\ pc' \in [Conns -> Outside \cup Inside]
        /\ tcp' \in [Conns -> {"none", "reading", "packet", "quit"}]
        /\ tun' \in [Conns -> {"none", "reading", "got", "sending", "closed"}]
    BY <1>2 DEF ServerDown, OnAll
  <2>4. /\ mw' \in [Conns -> MutexNumbers] /\ client_locks' \in [Ids -> MutexNumbers]
        /\ locked' \in SUBSET (Ids \X MutexNumbers)
        /\ queue' \in [Conns -> 0..MaxTunQueue]
        /\ tunname' \in [Conns -> TunIds]
    BY <1>2 DEF ServerDown, OnAll, TunIds, MutexNumbers
  <2>5. prefix' \in [Conns -> Prefixes \cup {NoPrefix}]
    BY <1>2 DEF ServerDown, OnAll
  <2>6. device' \in [TunIds -> Conns \cup {NoConn}]
    BY <1>2 DEF ServerDown, OnAll
  <2>7. QED
    BY <2>1, <2>2, <2>3, <2>4, <2>5, <2>6
<1>3. ASSUME NEW c \in Conns, NEW i \in Ids, ClientConnects(c, i) PROVE TypeOK'
  BY <1>3 DEF ClientConnects, PrefixTypeOK
<1>4. ASSUME NEW c \in Conns, HelloFails(c) PROVE TypeOK'
  BY <1>4 DEF HelloFails, Return, TunIds, MutexNumbers, PrefixTypeOK
<1>5. ASSUME NEW c \in Conns, HelloGarbled(c) PROVE TypeOK'
  BY <1>5 DEF HelloGarbled, PrefixTypeOK
<1>6. ASSUME NEW c \in Conns, Hello(c) PROVE TypeOK'
  <2>1. MutexFor(id[c]) \in MutexNumbers
    BY DEF MutexFor, MutexNumbers, TypeOK
  <2>2. QED
    BY <1>6, <2>1 DEF Hello, PrefixTypeOK
<1>7. ASSUME NEW c \in Conns, Lock(c) PROVE TypeOK'
  BY <1>7 DEF Lock, PrefixTypeOK
<1>8. ASSUME NEW c \in Conns, GetPrefix(c) PROVE TypeOK'
  <2>1. PICK p \in Prefixes : getPrefix(id[c], p) /\ prefix' = [prefix EXCEPT ![c] = p]
    BY <1>8 DEF GetPrefix
  <2>2. PrefixTypeOK'
    BY <2>1, GetPrefixType
  <2>3. QED
    BY <1>8, <2>1, <2>2 DEF GetPrefix
<1>9. ASSUME NEW c \in Conns, SendPrefix(c) PROVE TypeOK'
  BY <1>9 DEF SendPrefix, PrefixTypeOK
<1>10. ASSUME NEW c \in Conns, SendPrefixFails(c) PROVE TypeOK'
  BY <1>10 DEF SendPrefixFails, Return, unlockClient, TunIds, MutexNumbers, PrefixTypeOK
<1>11. ASSUME NEW c \in Conns, TakeTunName(c) PROVE TypeOK'
  BY <1>11 DEF TakeTunName, PrefixTypeOK
<1>12. ASSUME NEW c \in Conns, OpenTun(c) PROVE TypeOK'
  BY <1>12 DEF OpenTun, PrefixTypeOK
<1>13. ASSUME NEW c \in Conns, FromClient(c) PROVE TypeOK'
  BY <1>13 DEF FromClient, PrefixTypeOK
<1>14. ASSUME NEW c \in Conns, ToClient(c) PROVE TypeOK'
  BY <1>14 DEF ToClient, PrefixTypeOK
<1>28. ASSUME NEW c \in Conns, WriteReturns(c) PROVE TypeOK'
  BY <1>28 DEF WriteReturns, PrefixTypeOK
<1>15. ASSUME NEW c \in Conns, Quit(c) PROVE TypeOK'
  BY <1>15 DEF Quit, PrefixTypeOK
<1>16. ASSUME NEW c \in Conns, Wake(c) PROVE TypeOK'
  BY <1>16 DEF Wake, WakeUp, Route, PrefixTypeOK
<1>17. ASSUME NEW c \in Conns, Handoff(c) PROVE TypeOK'
  BY <1>17 DEF Handoff, PrefixTypeOK
<1>18. ASSUME NEW c \in Conns, FreeTunName(c) PROVE TypeOK'
  BY <1>18 DEF FreeTunName, PrefixTypeOK
<1>19. ASSUME NEW c \in Conns, Unlock(c) PROVE TypeOK'
  BY <1>19 DEF Unlock, Return, unlockClient, TunIds, MutexNumbers, PrefixTypeOK
<1>20. ASSUME NEW c \in Conns, TcpRead(c) PROVE TypeOK'
  BY <1>20 DEF TcpRead, PrefixTypeOK
<1>21. ASSUME NEW c \in Conns, TunRead(c) PROVE TypeOK'
  BY <1>21 DEF TunRead, PrefixTypeOK
<1>22. ASSUME NEW c \in Conns, TunForwards(c) PROVE TypeOK'
  BY <1>22 DEF TunForwards, PrefixTypeOK
<1>23. ASSUME NEW c \in Conns, TunCloses(c) PROVE TypeOK'
  BY <1>23 DEF TunCloses, PrefixTypeOK
<1>24. ASSUME NEW c \in Conns, PacketArrives(c) PROVE TypeOK'
  BY <1>24 DEF PacketArrives, Route, PrefixTypeOK
<1>25. ASSUME NEW c \in Conns, ClientDisconnects(c) PROVE TypeOK'
  BY <1>25 DEF ClientDisconnects, PrefixTypeOK
<1>26. CASE UNCHANGED vars
  BY <1>26 DEF vars, PrefixTypeOK
<1>27. QED
  BY NextCases, <1>1, <1>2, <1>3, <1>4, <1>5, <1>6, <1>7, <1>8, <1>9, <1>10, <1>11, <1>12, <1>13, <1>14,
     <1>15, <1>16, <1>17, <1>18, <1>19, <1>20, <1>21, <1>22, <1>23, <1>24, <1>25, <1>26,
     <1>28

LEMMA TypeInvariant == Spec => []TypeOK
<1>1. Init => TypeOK
  <2> SUFFICES ASSUME Init PROVE TypeOK
    OBVIOUS
  <2>1. PrefixTypeOK /\ told \in [Ids -> Prefixes \cup {NoPrefix}]
    BY EmptyMap DEF Init, SessionsInit, PrefixInit, PrefixTypeOK, Assignments
  <2>2. /\ up \in BOOLEAN /\ id \in [Conns -> Ids]
        /\ hello \in [Conns -> BOOLEAN] /\ alive \in [Conns -> BOOLEAN]
        /\ tunQuit \in [Conns -> BOOLEAN] /\ tunset \in [TunIds -> BOOLEAN]
    BY DEF Init, SessionsInit, OnAll
  <2>3. /\ pc \in [Conns -> Outside \cup Inside]
        /\ tcp \in [Conns -> {"none", "reading", "packet", "quit"}]
        /\ tun \in [Conns -> {"none", "reading", "got", "sending", "closed"}]
    BY DEF Init, SessionsInit, OnAll, Outside
  <2>4. /\ mw \in [Conns -> MutexNumbers] /\ client_locks \in [Ids -> MutexNumbers]
        /\ locked \in SUBSET (Ids \X MutexNumbers)
        /\ queue \in [Conns -> 0..MaxTunQueue]
        /\ tunname \in [Conns -> TunIds]
    BY DEF Init, SessionsInit, OnAll, TunIds, MutexNumbers
  <2>5. prefix \in [Conns -> Prefixes \cup {NoPrefix}] /\ device \in [TunIds -> Conns \cup {NoConn}]
    BY DEF Init, SessionsInit, OnAll
  <2>6. QED
    BY <2>1, <2>2, <2>3, <2>4, <2>5 DEF TypeOK
<1>2. QED
  BY <1>1, StepType, PTL DEF Spec
-----------------------------------------------------------------------------
\* One mutex per client: what OneSessionPerClient rests on.
LockInv ==
  /\ \A c \in Conns : pc[c] \in Inside \cup {"locking"} => mw[c] = 1 /\ client_locks[id[c]] = 1
  /\ \A c \in Conns : InSession(c) => <<id[c], 1>> \in locked
  /\ OneSessionPerClient

\* A step that moves no session into or out of its lock.
LEMMA LocksKept ==
  ASSUME LockInv, UNCHANGED <<id, mw, lockVars>>,
         \A c \in Conns : pc'[c] = pc[c] \/ (pc[c] \in Inside /\ pc'[c] \in Inside)
  PROVE  LockInv'
  BY DEF LockInv, lockVars, InSession, OneSessionPerClient

LEMMA StepLocks ==
  ASSUME TypeOK, LockInv, [Next]_vars
  PROVE  LockInv'
<1>t. /\ pc \in [Conns -> Outside \cup Inside] /\ id \in [Conns -> Ids] /\ mw \in [Conns -> MutexNumbers]
      /\ client_locks \in [Ids -> MutexNumbers]
  BY DEF TypeOK
<1>1. CASE ServerStart \/ UNCHANGED vars
  BY <1>1, LocksKept DEF ServerStart, vars, sessionVars
<1>2. CASE ServerDown
  BY <1>2 DEF ServerDown, OnAll, LockInv, InSession, OneSessionPerClient, Inside, Serving
<1>3. ASSUME NEW c \in Conns, NEW i \in Ids, ClientConnects(c, i) PROVE LockInv'
  BY <1>3, <1>t DEF ClientConnects, Goto, lockVars, LockInv, InSession, OneSessionPerClient, Inside, Serving
<1>4. ASSUME NEW c \in Conns, HelloFails(c) PROVE LockInv'
  BY <1>4, <1>t DEF HelloFails, Return, Goto, lockVars, LockInv, InSession, OneSessionPerClient,
     Inside, Serving
<1>5. ASSUME NEW c \in Conns, Hello(c) PROVE LockInv'
  <2>1. client_locks[id[c]] \in {0, 1}
    BY <1>t DEF MutexNumbers
  <2>2. MutexFor(id[c]) = 1
    BY <2>1 DEF MutexFor
  <2>3. /\ pc' = [pc EXCEPT ![c] = "locking"] /\ mw' = [mw EXCEPT ![c] = 1] /\ id' = id
        /\ locked' = locked /\ client_locks' = [client_locks EXCEPT ![id[c]] = 1]
        /\ pc[c] = "reading"
    BY <1>5, <2>2 DEF Hello, Goto
  <2>4. QED
    BY <1>t, <2>3 DEF LockInv, InSession, OneSessionPerClient, Inside, Serving
<1>6. ASSUME NEW c \in Conns, Lock(c) PROVE LockInv'
  <2>1. mw[c] = 1 /\ client_locks[id[c]] = 1
    BY <1>6 DEF Lock, LockInv
  <2>2. \A d \in Conns : InSession(d) => id[d] # id[c]
    BY <1>6, <2>1 DEF Lock, LockInv
  <2>3. QED
    BY <1>6, <1>t, <2>1, <2>2 DEF Lock, Goto, LockInv, InSession, OneSessionPerClient, Inside, Serving
<1>7. ASSUME NEW c \in Conns, SendPrefixFails(c) \/ Unlock(c) PROVE LockInv'
  <2>1. /\ InSession(c) /\ id' = id /\ client_locks' = client_locks
        /\ pc' = [pc EXCEPT ![c] = "idle"] /\ mw' = [mw EXCEPT ![c] = 0]
        /\ locked' = locked \ {<<id[c], client_locks[id[c]]>>}
    BY <1>7 DEF SendPrefixFails, Unlock, Return, Goto, unlockClient, InSession, Inside, Serving
  <2>2. client_locks[id[c]] = 1
    BY <2>1 DEF LockInv, InSession
  <2>3. \A d \in Conns : d # c /\ InSession(d) => id[d] # id[c]
    BY <2>1 DEF LockInv, OneSessionPerClient
  <2>4. QED
    BY <1>t, <2>1, <2>2, <2>3 DEF LockInv, InSession, OneSessionPerClient, Inside, Serving
<1>8. ASSUME NEW c \in Conns,
             \/ GetPrefix(c) \/ SendPrefix(c) \/ TakeTunName(c) \/ OpenTun(c)
             \/ ToClient(c) \/ WriteReturns(c)
             \/ Quit(c) \/ Wake(c) \/ Handoff(c) \/ FreeTunName(c)
      PROVE  LockInv'
  BY <1>8, <1>t, LocksKept DEF GetPrefix, SendPrefix, TakeTunName, OpenTun, ToClient, WriteReturns, Quit, Wake, WakeUp,
     Handoff, FreeTunName, Goto, Inside, Serving
<1>9. ASSUME NEW c \in Conns,
             \/ HelloGarbled(c) \/ FromClient(c) \/ TcpRead(c) \/ TunRead(c)
             \/ TunForwards(c) \/ TunCloses(c) \/ PacketArrives(c) \/ ClientDisconnects(c)
      PROVE  LockInv'
  BY <1>9, LocksKept DEF HelloGarbled, FromClient, TcpRead, TunRead, TunForwards,
     TunCloses, PacketArrives, ClientDisconnects, sessionVars
<1>10. QED
  BY NextCases, <1>1, <1>2, <1>3, <1>4, <1>5, <1>6, <1>7, <1>8, <1>9

LEMMA LockInvariant == Spec => []LockInv
<1>1. Init => LockInv
  BY DEF Init, SessionsInit, OnAll, LockInv, InSession, OneSessionPerClient, Inside, Serving
<1>2. QED
  BY <1>1, StepLocks, TypeInvariant, PTL DEF Spec

\* No client has two sessions at the same time (server.go:26-54).
THEOREM OneSessionPerClientHolds == Spec => []OneSessionPerClient
<1>1. LockInv => OneSessionPerClient
  BY DEF LockInv
<1>2. QED
  BY <1>1, LockInvariant, PTL
-----------------------------------------------------------------------------
\* The assignments survive, if they all fit in the buffer they are read into.
Injective(map) == \A i, j \in Ids : map[i] = map[j] /\ map[i] # NoPrefix => i = j

AssignInv ==
  /\ prefixfile.length = Cardinality(Assigned(prefixfile.map))
  /\ Injective(prefixfile.map)
  /\ up => prefixes = prefixfile.map /\ inuse = PrefixesOf(prefixes)
  /\ \A i \in Ids : told[i] # NoPrefix => prefixfile.map[i] = told[i]

\* A session works with its client's prefix, and has told the client.
SessionInv ==
  /\ \A c \in Conns : pc[c] # "idle" => up
  /\ \A c \in Conns : pc[c] \in Inside \ {"prefix"} =>
       prefix[c] # NoPrefix /\ prefix[c] = prefixfile.map[id[c]]
  /\ \A c \in Conns : pc[c] \in Inside \ {"prefix", "reply"} => told[id[c]] = prefix[c]

LEMMA FileIsRead ==
  ASSUME FileLimit >= Cardinality(Ids), AssignInv
  PROVE  Read(prefixfile) = prefixfile.map
<1>1. Assigned(prefixfile.map) \subseteq Ids
  BY DEF Assigned
<1>2. Cardinality(Assigned(prefixfile.map)) <= Cardinality(Ids) /\ Cardinality(Ids) \in Nat
  BY <1>1, FS_Subset, FS_CardinalityType
<1>3. Cardinality(Assigned(prefixfile.map)) <= FileLimit
  BY <1>2, AssignedFinite
<1>4. QED
  BY <1>3 DEF AssignInv, Readable, Read

\* getPrefix assigns a prefix to one client at most, and takes none away.
LEMMA GetPrefixAssigns ==
  ASSUME TypeOK, AssignInv, up, NEW i \in Ids, NEW p \in Prefixes, getPrefix(i, p)
  PROVE  /\ prefixfile'.map = prefixes' /\ inuse' = PrefixesOf(prefixes')
         /\ prefixfile'.length = Cardinality(Assigned(prefixes'))
         /\ Injective(prefixes')
         /\ prefixes'[i] = p
         /\ \A j \in Ids : prefixfile.map[j] # NoPrefix => prefixes'[j] = prefixfile.map[j]
<1> USE DEF Assignments
<1>1. /\ prefixes \in Assignments /\ prefixes = prefixfile.map /\ inuse = PrefixesOf(prefixes)
      /\ Injective(prefixes) /\ prefixfile.length = Cardinality(Assigned(prefixes))
  BY DEF TypeOK, PrefixTypeOK, AssignInv
<1>2. /\ prefixes' = [prefixes EXCEPT ![i] = p] /\ inuse' = inuse \cup {p}
      /\ prefixfile' = Written(prefixfile, prefixes') /\ IsPrefixFor(i, p)
  BY DEF getPrefix
<1>3. prefixes'[i] = p /\ p # NoPrefix /\ \A j \in Ids : j # i => prefixes'[j] = prefixes[j]
  BY <1>1, <1>2
<1>4. prefixes[i] = NoPrefix => \A j \in Ids : prefixes[j] # p
  BY <1>1, <1>2, <1>3 DEF IsPrefixFor, Free, PrefixesOf, Assigned
<1>5. prefixes[i] # NoPrefix => prefixes[i] = p
  BY <1>2 DEF IsPrefixFor
<1>6. Injective(prefixes')
  BY <1>1, <1>3, <1>4, <1>5 DEF Injective
<1>7. \A j \in Ids : prefixes[j] # NoPrefix => prefixes'[j] = prefixes[j]
  BY <1>3, <1>5
<1>8. inuse' = PrefixesOf(prefixes')
  <2>1. Assigned(prefixes') = Assigned(prefixes) \cup {i}
    BY <1>3 DEF Assigned
  <2>2. ASSUME NEW q \in PrefixesOf(prefixes') PROVE q \in PrefixesOf(prefixes) \cup {p}
    <3>1. PICK j \in Assigned(prefixes') : q = prefixes'[j]
      BY DEF PrefixesOf
    <3>2. QED
      BY <1>3, <2>1, <3>1 DEF PrefixesOf, Assigned
  <2>3. ASSUME NEW q \in PrefixesOf(prefixes) PROVE q \in PrefixesOf(prefixes')
    <3>1. PICK j \in Assigned(prefixes) : q = prefixes[j]
      BY DEF PrefixesOf
    <3>2. prefixes'[j] = q /\ j \in Assigned(prefixes')
      BY <1>7, <2>1, <3>1 DEF Assigned
    <3>3. QED
      BY <3>2 DEF PrefixesOf
  <2>4. p \in PrefixesOf(prefixes')
    BY <1>3, <2>1 DEF PrefixesOf
  <2>5. QED
    BY <1>1, <1>2, <2>2, <2>3, <2>4
<1>9. prefixfile'.map = prefixes' /\ prefixfile'.length = Cardinality(Assigned(prefixes'))
  <2>1. Assigned(prefixes) \subseteq Assigned(prefixes')
    BY <1>7, <1>3 DEF Assigned
  <2>2. Cardinality(Assigned(prefixes)) <= Cardinality(Assigned(prefixes'))
    BY <2>1, AssignedFinite, FS_Subset
  <2>3. Cardinality(Assigned(prefixes)) \in Nat /\ Cardinality(Assigned(prefixes')) \in Nat
    BY AssignedFinite
  <2>4. QED
    BY <1>1, <1>2, <2>2, <2>3 DEF Written
<1>10. QED
  BY <1>1, <1>3, <1>6, <1>7, <1>8, <1>9

\* A step that leaves the assignments alone, and takes a session that has its
\* prefix no further than to the next step that has it.
LEMMA AssignmentsKept ==
  ASSUME AssignInv, SessionInv, UNCHANGED <<prefixVars, up, id, prefix, told>>,
         \A c \in Conns :
           \/ pc'[c] = pc[c]
           \/ pc[c] # "idle" /\ pc'[c] \in {"locking", "prefix"}
           \/ pc[c] \in Inside \ {"prefix", "reply"}
  PROVE  AssignInv' /\ SessionInv'
<1>1. AssignInv'
  BY DEF AssignInv, prefixVars
<1>2. SessionInv'
  BY DEF SessionInv, prefixVars, Inside, Serving
<1>3. QED
  BY <1>1, <1>2

LEMMA StepAssign ==
  ASSUME FileLimit >= Cardinality(Ids), TypeOK, AssignInv, SessionInv, [Next]_vars
  PROVE  AssignInv' /\ SessionInv'
<1>t. /\ pc \in [Conns -> Outside \cup Inside] /\ id \in [Conns -> Ids]
      /\ prefix \in [Conns -> Prefixes \cup {NoPrefix}]
      /\ told \in [Ids -> Prefixes \cup {NoPrefix}]
      /\ prefixfile.map \in Assignments
  BY DEF TypeOK, PrefixTypeOK
<1>1. CASE ServerStart
  <2>1. /\ prefixes' = prefixfile.map /\ inuse' = PrefixesOf(prefixes') /\ up'
        /\ prefixfile' = prefixfile /\ told' = told
        /\ pc' = pc /\ id' = id /\ prefix' = prefix
    BY <1>1, FileIsRead DEF ServerStart, Create, sessionVars
  <2>2. AssignInv'
    BY <2>1 DEF AssignInv
  <2>3. SessionInv'
    BY <2>1 DEF SessionInv
  <2>4. QED
    BY <2>2, <2>3
<1>2. CASE ServerDown
  <2>1. AssignInv'
    BY <1>2 DEF ServerDown, AssignInv
  <2>2. SessionInv'
    BY <1>2 DEF ServerDown, OnAll, SessionInv, Inside, Serving
  <2>3. QED
    BY <2>1, <2>2
<1>3. ASSUME NEW c \in Conns, NEW i \in Ids, ClientConnects(c, i) PROVE AssignInv' /\ SessionInv'
  <2>1. AssignInv'
    BY <1>3 DEF ClientConnects, prefixVars, AssignInv
  <2>2. SessionInv'
    BY <1>3, <1>t DEF ClientConnects, Goto, prefixVars, SessionInv, Inside, Serving
  <2>3. QED
    BY <2>1, <2>2
<1>4. ASSUME NEW c \in Conns, HelloFails(c) \/ SendPrefixFails(c) \/ Unlock(c)
      PROVE  AssignInv' /\ SessionInv'
  <2>1. UNCHANGED <<prefixVars, up, id, told>> /\ pc' = [pc EXCEPT ![c] = "idle"]
        /\ prefix' = [prefix EXCEPT ![c] = NoPrefix]
    BY <1>4 DEF HelloFails, SendPrefixFails, Unlock, Return, Goto
  <2>2. AssignInv'
    BY <2>1 DEF prefixVars, AssignInv
  <2>3. SessionInv'
    BY <1>t, <2>1 DEF prefixVars, SessionInv, Inside, Serving
  <2>4. QED
    BY <2>2, <2>3
<1>5. ASSUME NEW c \in Conns, GetPrefix(c) PROVE AssignInv' /\ SessionInv'
  <2>1. PICK p \in Prefixes : getPrefix(id[c], p) /\ prefix' = [prefix EXCEPT ![c] = p]
    BY <1>5 DEF GetPrefix
  <2>2. /\ pc[c] = "prefix" /\ pc' = [pc EXCEPT ![c] = "reply"]
        /\ up' = up /\ id' = id /\ told' = told
    BY <1>5 DEF GetPrefix, Goto
  <2>3. up /\ id[c] \in Ids
    BY <1>t, <2>2 DEF SessionInv
  <2>4. /\ prefixfile'.map = prefixes' /\ inuse' = PrefixesOf(prefixes')
        /\ prefixfile'.length = Cardinality(Assigned(prefixes'))
        /\ Injective(prefixes')
        /\ prefixes'[id[c]] = p
        /\ \A j \in Ids : prefixfile.map[j] # NoPrefix => prefixes'[j] = prefixfile.map[j]
    BY <2>1, <2>3, GetPrefixAssigns
  <2>5. AssignInv'
    BY <2>2, <2>4 DEF AssignInv
  <2>6. ASSUME NEW d \in Conns
        PROVE  /\ pc'[d] # "idle" => up'
               /\ pc'[d] \in Inside \ {"prefix"} =>
                    prefix'[d] # NoPrefix /\ prefix'[d] = prefixfile'.map[id'[d]]
               /\ pc'[d] \in Inside \ {"prefix", "reply"} => told'[id'[d]] = prefix'[d]
    <3>1. CASE d = c
      BY <1>t, <2>1, <2>2, <2>3, <2>4, <3>1
    <3>2. CASE d # c
      <4>1. pc'[d] = pc[d] /\ prefix'[d] = prefix[d] /\ id'[d] = id[d] /\ id[d] \in Ids
        BY <1>t, <2>1, <2>2, <3>2
      <4>2. QED
        BY <2>2, <2>4, <4>1 DEF SessionInv
    <3>3. QED
      BY <3>1, <3>2
  <2>7. SessionInv'
    BY <2>6 DEF SessionInv
  <2>8. QED
    BY <2>5, <2>7
<1>6. ASSUME NEW c \in Conns, SendPrefix(c) PROVE AssignInv' /\ SessionInv'
  <2>1. /\ pc[c] = "reply" /\ pc' = [pc EXCEPT ![c] = "name"]
        /\ told' = [told EXCEPT ![id[c]] = prefix[c]]
        /\ UNCHANGED <<prefixVars, up, id, prefix>>
    BY <1>6 DEF SendPrefix, Goto
  <2>2. prefix[c] = prefixfile.map[id[c]] /\ id[c] \in Ids
    BY <1>t, <2>1 DEF SessionInv, Inside, Serving
  <2>3. AssignInv'
    BY <1>t, <2>1, <2>2 DEF AssignInv, prefixVars
  <2>4. SessionInv'
    BY <1>t, <2>1, <2>2 DEF SessionInv, prefixVars, Inside, Serving
  <2>5. QED
    BY <2>3, <2>4
<1>7. ASSUME NEW c \in Conns,
             \/ Hello(c) \/ Lock(c) \/ TakeTunName(c) \/ OpenTun(c)
             \/ ToClient(c) \/ WriteReturns(c)
             \/ Quit(c) \/ Wake(c) \/ Handoff(c) \/ FreeTunName(c)
      PROVE  AssignInv' /\ SessionInv'
  BY <1>7, <1>t, AssignmentsKept DEF Hello, Lock, TakeTunName, OpenTun, ToClient, WriteReturns, Quit, Wake, WakeUp, Handoff,
     FreeTunName, Goto, Inside, Serving
<1>8. CASE UNCHANGED vars
  BY <1>8, AssignmentsKept DEF vars, sessionVars
<1>9. ASSUME NEW c \in Conns,
             \/ HelloGarbled(c) \/ FromClient(c) \/ TcpRead(c) \/ TunRead(c)
             \/ TunForwards(c) \/ TunCloses(c) \/ PacketArrives(c) \/ ClientDisconnects(c)
      PROVE  AssignInv' /\ SessionInv'
  BY <1>9, AssignmentsKept DEF HelloGarbled, FromClient, TcpRead, TunRead, TunForwards,
     TunCloses, PacketArrives, ClientDisconnects, sessionVars
<1>10. QED
  BY NextCases, <1>1, <1>2, <1>3, <1>4, <1>5, <1>6, <1>7, <1>8, <1>9

LEMMA AssignInvariant ==
  ASSUME FileLimit >= Cardinality(Ids) PROVE Spec => [](AssignInv /\ SessionInv)
<1>1. Init => AssignInv /\ SessionInv
  <2> SUFFICES ASSUME Init PROVE AssignInv /\ SessionInv
    OBVIOUS
  <2>1. Cardinality({}) = 0 /\ \A i \in Ids : NoAssignments[i] = NoPrefix
    BY FS_EmptySet DEF NoAssignments
  <2>2. AssignInv
    BY <2>1, EmptyMap DEF Init, SessionsInit, PrefixInit, AssignInv, Injective
  <2>3. SessionInv
    BY DEF Init, SessionsInit, OnAll, SessionInv, Inside, Serving
  <2>4. QED
    BY <2>2, <2>3
<1>2. QED
  BY <1>1, StepAssign, TypeInvariant, PTL DEF Spec

\* No two clients are given the same prefix (prefix.go:27-64), restarts of the
\* server included, while the file is no longer than what Create reads.
THEOREM PrefixesDistinctHolds ==
  ASSUME FileLimit >= Cardinality(Ids) PROVE Spec => []PrefixesDistinct
<1>1. AssignInv => PrefixesDistinct
  BY DEF AssignInv, Injective, PrefixesDistinct
<1>2. QED
  BY <1>1, AssignInvariant, PTL

\* A client gets the prefix it was told before (README.md:52), on the same
\* condition.
THEOREM SamePrefixAgainHolds ==
  ASSUME FileLimit >= Cardinality(Ids) PROVE Spec => SamePrefixAgain
<1>1. ASSUME TypeOK, AssignInv, SessionInv, [Next]_vars, NEW i \in Ids, told[i] # NoPrefix
      PROVE  told'[i] = told[i]
  <2>1. CASE \E c \in Conns : SendPrefix(c)
    <3>1. PICK c \in Conns : SendPrefix(c)
      BY <2>1
    <3>2. told' = [told EXCEPT ![id[c]] = prefix[c]] /\ pc[c] = "reply"
      BY <3>1 DEF SendPrefix
    <3>5. prefix[c] = prefixfile.map[id[c]]
      BY <1>1, <3>2 DEF SessionInv, Inside, Serving
    <3>3. prefixfile.map[i] = told[i]
      BY <1>1 DEF AssignInv
    <3>4. QED
      BY <1>1, <3>2, <3>3, <3>5 DEF TypeOK
  <2>2. CASE ~\E c \in Conns : SendPrefix(c)
    BY <1>1, <2>2, NextCases DEF ServerStart, ServerDown, ClientConnects, HelloFails, HelloGarbled,
       Hello, Lock, GetPrefix, SendPrefixFails, TakeTunName, OpenTun, Quit, Wake, Handoff,
       FreeTunName, Unlock, FromClient, ToClient, WriteReturns, TcpRead, TunRead, TunForwards, TunCloses,
       PacketArrives, ClientDisconnects, vars
  <2>3. QED
    BY <2>1, <2>2
<1>2. TypeOK /\ AssignInv /\ SessionInv /\ [Next]_vars
        => [\A i \in Ids : told[i] # NoPrefix => told'[i] = told[i]]_vars
  BY <1>1
<1>3. QED
  BY <1>2, TypeInvariant, AssignInvariant, PTL DEF Spec, SamePrefixAgain
-----------------------------------------------------------------------------
\* A device belongs to a session that is still at work, until clientTUN has
\* closed it and handleClient has heard of that.
DeviceInv ==
  /\ \A n \in TunIds : device[n] # NoConn =>
       tunname[device[n]] = n /\ pc[device[n]] \in Serving
  /\ \A c \in Conns : tun[c] = "closed" => \A n \in TunIds : device[n] # c

LEMMA StepDevice ==
  ASSUME TypeOK, DeviceInv, [Next]_vars
  PROVE  DeviceInv'
<1>t. /\ pc \in [Conns -> Outside \cup Inside]
      /\ tunname \in [Conns -> TunIds]
      /\ tun \in [Conns -> {"none", "reading", "got", "sending", "closed"}]
      /\ device \in [TunIds -> Conns \cup {NoConn}]
  BY DEF TypeOK
<1>1. CASE ServerDown
  BY <1>1 DEF ServerDown, OnAll, DeviceInv, Serving
<1>2. ASSUME NEW c \in Conns,
             \/ HelloFails(c) \/ SendPrefixFails(c) \/ Unlock(c)
             \/ (\E i \in Ids : ClientConnects(c, i)) \/ Hello(c) \/ Lock(c)
             \/ GetPrefix(c) \/ SendPrefix(c) \/ TakeTunName(c) \/ FreeTunName(c)
      PROVE  DeviceInv'
  <2>1. /\ pc[c] \notin Serving /\ tun' = tun /\ device' = device
        /\ \A d \in Conns : d # c => pc'[d] = pc[d] /\ tunname'[d] = tunname[d]
    BY <1>2, <1>t DEF HelloFails, SendPrefixFails, Unlock, Return, ClientConnects, Hello, Lock,
       GetPrefix, SendPrefix, TakeTunName, FreeTunName, Goto, Serving, goVars, tunVars
  <2>2. QED
    BY <1>t, <2>1 DEF DeviceInv, Serving
<1>3. ASSUME NEW c \in Conns, OpenTun(c) PROVE DeviceInv'
  BY <1>3, <1>t DEF OpenTun, Goto, DeviceInv, Serving
<1>11. ASSUME NEW c \in Conns, ToClient(c) \/ WriteReturns(c) PROVE DeviceInv'
  BY <1>11, <1>t DEF ToClient, WriteReturns, Goto, goVars, tunVars, DeviceInv, Serving
<1>4. ASSUME NEW c \in Conns, Quit(c) \/ Wake(c) PROVE DeviceInv'
  <2>1. /\ device' = device /\ tun' = tun /\ tunname' = tunname
        /\ pc' = [pc EXCEPT ![c] = "wake"] \/ pc' = [pc EXCEPT ![c] = "handoff"]
    BY <1>4 DEF Quit, Wake, WakeUp, Goto, goVars, tunVars
  <2>2. QED
    BY <1>t, <2>1 DEF DeviceInv, Serving
<1>5. ASSUME NEW c \in Conns, Handoff(c) PROVE DeviceInv'
  BY <1>5, <1>t DEF Handoff, Goto, tunVars, DeviceInv, Serving
<1>6. ASSUME NEW c \in Conns, TunRead(c) \/ TunForwards(c) PROVE DeviceInv'
  BY <1>6, <1>t DEF TunRead, TunForwards, sessionVars, tunVars, DeviceInv, Serving
<1>7. ASSUME NEW c \in Conns, TunCloses(c) PROVE DeviceInv'
  BY <1>7, <1>t DEF TunCloses, sessionVars, DeviceInv, Serving
<1>8. CASE ServerStart \/ UNCHANGED vars
  BY <1>8 DEF ServerStart, vars, sessionVars, goVars, tunVars, DeviceInv, Serving
<1>9. ASSUME NEW c \in Conns,
             HelloGarbled(c) \/ FromClient(c) \/ TcpRead(c) \/ PacketArrives(c) \/ ClientDisconnects(c)
      PROVE  DeviceInv'
  BY <1>9 DEF HelloGarbled, FromClient, TcpRead, PacketArrives, ClientDisconnects, sessionVars,
     goVars, tunVars, DeviceInv, Serving
<1>10. QED
  BY NextCases, <1>1, <1>2, <1>3, <1>4, <1>5, <1>6, <1>7, <1>8, <1>9, <1>11

\* Packets for a client's prefix go to that client's device and to no other
\* (README.md:21-23, server.go:157-225): two open devices with one prefix would
\* be two sessions of one client.
THEOREM OneDevicePerPrefixHolds ==
  ASSUME FileLimit >= Cardinality(Ids) PROVE Spec => []OneDevicePerPrefix
<1>1. Init => DeviceInv
  BY DEF Init, SessionsInit, OnAll, DeviceInv
<1>2. TypeOK /\ DeviceInv /\ [Next]_vars => DeviceInv'
  BY StepDevice
<1>3. TypeOK /\ LockInv /\ AssignInv /\ SessionInv /\ DeviceInv => OneDevicePerPrefix
  <2> SUFFICES ASSUME TypeOK, LockInv, AssignInv, SessionInv, DeviceInv,
                      NEW m \in TunIds, NEW n \in TunIds, device[m] # NoConn, device[n] # NoConn
               PROVE  /\ prefix[device[m]] = told[id[device[m]]]
                      /\ prefix[device[m]] = prefix[device[n]] => m = n
    BY DEF OneDevicePerPrefix
  <2>1. /\ device[m] \in Conns /\ device[n] \in Conns
        /\ id[device[m]] \in Ids /\ id[device[n]] \in Ids
    BY DEF TypeOK
  <2>2. /\ InSession(device[m]) /\ pc[device[m]] \in Inside \ {"prefix", "reply"}
        /\ InSession(device[n]) /\ pc[device[n]] \in Inside \ {"prefix", "reply"}
    BY DEF DeviceInv, InSession, Inside, Serving
  <2>3. /\ prefix[device[m]] = told[id[device[m]]]
        /\ prefix[device[m]] = prefixfile.map[id[device[m]]] /\ prefix[device[m]] # NoPrefix
        /\ prefix[device[n]] = prefixfile.map[id[device[n]]]
    BY <2>1, <2>2 DEF SessionInv
  <2>4. ASSUME prefix[device[m]] = prefix[device[n]] PROVE m = n
    <3>1. id[device[m]] = id[device[n]]
      BY <2>1, <2>3, <2>4 DEF AssignInv, Injective
    <3>2. device[m] = device[n]
      BY <2>1, <2>2, <3>1 DEF LockInv, OneSessionPerClient
    <3>3. QED
      BY <3>2 DEF DeviceInv
  <2>5. QED
    BY <2>3, <2>4
<1>4. QED
  BY <1>1, <1>2, <1>3, TypeInvariant, LockInvariant, AssignInvariant, PTL DEF Spec

\* The tunnel server's variables keep their types: a session's prefix is one of
\* the configured range, its device one of tun0 to tun15 (prefix.go:27-64,
\* tunindex.go:19-46), whatever the file held when the server started.
THEOREM ServerTypeCorrect == Spec => []TypeOK
  BY TypeInvariant

-----------------------------------------------------------------------------
\* A session that has taken a TUN name holds it alone, if there are as many names
\* as connections.
Holding == {"open", "free"} \cup Serving
NameInv ==
  /\ \A c \in Conns : pc[c] \in Holding => tunset[tunname[c]]
  /\ \A c, d \in Conns : pc[c] \in Holding /\ pc[d] \in Holding /\ tunname[c] = tunname[d] => c = d
  /\ \A n \in TunIds : tunset[n] => \E c \in Conns : pc[c] \in Holding /\ tunname[c] = n

\* What is left of a session's goroutines, channels and packets at each place.
GoroutineInv ==
  \A c \in Conns :
    /\ pc[c] \notin Serving => tcp[c] = "none" /\ tun[c] = "none" /\ ~tunQuit[c] /\ queue[c] = 0
    /\ pc[c] \in {"wake", "handoff"} => tcp[c] = "none"
    /\ pc[c] \notin {"wake", "handoff"} => ~tunQuit[c] /\ tun[c] # "closed"
    /\ tun[c] = "closed" => ~tunQuit[c] /\ queue[c] = 0

\* The names that are taken are no more than the sessions that hold one.
LEMMA ANameIsFree ==
  ASSUME IsFiniteSet(Conns), Cardinality(Conns) <= TUN_ID_MAX + 1, TypeOK, NameInv,
         NEW c \in Conns, pc[c] \notin Holding
  PROVE  \E n \in TunIds : ~tunset[n]
<1> SUFFICES ASSUME \A n \in TunIds : tunset[n] PROVE FALSE
  OBVIOUS
<1>1. DEFINE Holders == {d \in Conns : pc[d] \in Holding}
             f == [d \in Holders |-> tunname[d]]
<1>2. f \in Surjection(Holders, TunIds)
  <2>1. f \in [Holders -> TunIds]
    BY DEF TypeOK
  <2>2. \A n \in TunIds : \E d \in Holders : f[d] = n
    BY DEF NameInv
  <2>3. QED
    BY <2>1, <2>2 DEF Surjection
<1>3. Holders \in SUBSET (Conns \ {c})
  OBVIOUS
<1>4. /\ IsFiniteSet(Conns \ {c}) /\ Cardinality(Conns \ {c}) = Cardinality(Conns) - 1
      /\ Cardinality(Conns) \in Nat
  BY FS_RemoveElement, FS_CardinalityType
<1>5. IsFiniteSet(Holders) /\ Cardinality(Holders) <= Cardinality(Conns \ {c})
  BY <1>3, <1>4, FS_Subset
<1>6. Cardinality(TunIds) <= Cardinality(Holders)
  <2> HIDE DEF Holders, f
  <2> QED
    BY <1>2, <1>5, FS_Surjection
<1>7. Cardinality(TunIds) = TUN_ID_MAX + 1
  <2>1. TUN_ID_MAX \in Int /\ 0 \in Int /\ ~(0 > TUN_ID_MAX)
    OBVIOUS
  <2>2. Cardinality(0..TUN_ID_MAX) = IF 0 > TUN_ID_MAX THEN 0 ELSE TUN_ID_MAX - 0 + 1
    BY <2>1, FS_Interval
  <2>3. QED
    BY <2>1, <2>2 DEF TunIds
<1>8. Cardinality(Holders) \in Nat
  BY <1>5, FS_CardinalityType
<1>9. QED
  BY <1>4, <1>5, <1>6, <1>7, <1>8

\* A step that moves no session into or out of those that hold a name.
LEMMA NamesKept ==
  ASSUME NameInv, UNCHANGED tunset,
         \A c \in Conns : \/ pc'[c] = pc[c] /\ tunname'[c] = tunname[c]
                          \/ pc[c] \in Holding /\ pc'[c] \in Holding /\ tunname'[c] = tunname[c]
                          \/ pc[c] \notin Holding /\ pc'[c] \notin Holding
  PROVE  NameInv'
<1>1. \A c \in Conns : /\ pc'[c] \in Holding <=> pc[c] \in Holding
                       /\ pc[c] \in Holding => tunname'[c] = tunname[c]
  OBVIOUS
<1>2. QED
  BY <1>1 DEF NameInv

LEMMA StepNames ==
  ASSUME IsFiniteSet(Conns), Cardinality(Conns) <= TUN_ID_MAX + 1, TypeOK, NameInv, [Next]_vars
  PROVE  NameInv'
<1>t. /\ pc \in [Conns -> Outside \cup Inside]
      /\ tunname \in [Conns -> TunIds]
      /\ tunset \in [TunIds -> BOOLEAN]
  BY DEF TypeOK
<1>1. CASE ServerDown
  BY <1>1 DEF ServerDown, OnAll, NameInv, Holding, Serving
<1>2. ASSUME NEW c \in Conns, TakeTunName(c) PROVE NameInv'
  <2>1. PICK n \in TunIds : /\ IsNewTunName(n)
                            /\ tunset' = [tunset EXCEPT ![n] = TRUE]
                            /\ tunname' = [tunname EXCEPT ![c] = n]
    BY <1>2 DEF TakeTunName
  <2>2. pc[c] = "name" /\ pc' = [pc EXCEPT ![c] = "open"]
    BY <1>2 DEF TakeTunName, Goto
  <2>3. pc[c] \notin Holding /\ "open" \in Holding
    BY <2>2 DEF Holding, Serving
  <2>4. ~tunset[n]
    BY <2>1, <2>3, ANameIsFree DEF IsNewTunName
  <2>5. \A d \in Conns : pc[d] \in Holding => tunname[d] # n
    BY <2>4 DEF NameInv
  <2>6. \A d \in Conns \ {c} : pc'[d] = pc[d] /\ tunname'[d] = tunname[d]
    BY <1>t, <2>1, <2>2
  <2>7. pc'[c] = "open" /\ tunname'[c] = n
    BY <1>t, <2>1, <2>2
  <2>8. \A m \in TunIds : tunset'[m] <=> tunset[m] \/ m = n
    BY <1>t, <2>1
  <2>9. \A d \in Conns : pc[d] \in Holding => d # c
    BY <2>3
  <2>10. QED
    BY <1>t, <2>3, <2>5, <2>6, <2>7, <2>8, <2>9 DEF NameInv
<1>3. ASSUME NEW c \in Conns, FreeTunName(c) PROVE NameInv'
  <2>1. /\ pc[c] = "free" /\ pc' = [pc EXCEPT ![c] = "unlock"] /\ tunname' = tunname
        /\ tunset' = [tunset EXCEPT ![tunname[c]] = FALSE]
    BY <1>3 DEF FreeTunName, Goto
  <2>2. pc[c] \in Holding /\ "unlock" \notin Holding
    BY <2>1 DEF Holding, Serving
  <2>3. pc'[c] = "unlock" /\ \A d \in Conns \ {c} : pc'[d] = pc[d]
    BY <1>t, <2>1
  <2>4. \A m \in TunIds : tunset'[m] <=> tunset[m] /\ m # tunname[c]
    BY <1>t, <2>1
  <2>5. QED
    BY <1>t, <2>1, <2>2, <2>3, <2>4 DEF NameInv
<1>4. ASSUME NEW c \in Conns,
             HelloFails(c) \/ SendPrefixFails(c) \/ Unlock(c)
      PROVE  NameInv'
  <2>1. /\ pc[c] \in {"reading", "reply", "unlock"}
        /\ pc' = [pc EXCEPT ![c] = "idle"] /\ tunname' = [tunname EXCEPT ![c] = 0]
        /\ tunset' = tunset
    BY <1>4 DEF HelloFails, SendPrefixFails, Unlock, Return, Goto, tunVars
  <2>2. pc[c] \notin Holding /\ "idle" \notin Holding
    BY <2>1 DEF Holding, Serving
  <2>3. QED
    BY <1>t, <2>1, <2>2, NamesKept
<1>5. ASSUME NEW c \in Conns,
             \/ \E i \in Ids : ClientConnects(c, i)
             \/ Hello(c) \/ Lock(c) \/ GetPrefix(c) \/ SendPrefix(c)
      PROVE  NameInv'
  <2>1. /\ pc[c] \in {"idle", "reading", "locking", "prefix", "reply"}
        /\ \E l \in {"reading", "locking", "prefix", "reply", "name"} : pc' = [pc EXCEPT ![c] = l]
        /\ tunname' = tunname /\ tunset' = tunset
    BY <1>5 DEF ClientConnects, Hello, Lock, GetPrefix, SendPrefix, Goto, tunVars
  <2>2. pc[c] \notin Holding /\ pc'[c] \notin Holding
    BY <1>t, <2>1 DEF Holding, Serving
  <2>3. \A d \in Conns \ {c} : pc'[d] = pc[d]
    BY <1>t, <2>1
  <2>4. QED
    BY <2>1, <2>2, <2>3, NamesKept
<1>6. ASSUME NEW c \in Conns,
             OpenTun(c) \/ ToClient(c) \/ WriteReturns(c) \/ Quit(c) \/ Wake(c) \/ Handoff(c)
      PROVE  NameInv'
  <2>1. /\ pc[c] \in {"open", "loop", "write", "wake", "handoff"}
        /\ \E l \in {"loop", "write", "wake", "handoff", "free"} : pc' = [pc EXCEPT ![c] = l]
        /\ tunname' = tunname /\ tunset' = tunset
    BY <1>6 DEF OpenTun, ToClient, WriteReturns, Quit, Wake, WakeUp, Handoff, Goto, tunVars
  <2>2. pc[c] \in Holding /\ pc'[c] \in Holding
    BY <1>t, <2>1 DEF Holding, Serving
  <2>3. \A d \in Conns \ {c} : pc'[d] = pc[d]
    BY <1>t, <2>1
  <2>4. QED
    BY <2>1, <2>2, <2>3, NamesKept
<1>7. ASSUME NEW c \in Conns,
             \/ HelloGarbled(c) \/ FromClient(c) \/ TcpRead(c) \/ TunRead(c)
             \/ TunForwards(c) \/ TunCloses(c) \/ PacketArrives(c) \/ ClientDisconnects(c)
      PROVE  NameInv'
  BY <1>7, NamesKept DEF HelloGarbled, FromClient, TcpRead, TunRead, TunForwards, TunCloses,
     PacketArrives, ClientDisconnects, sessionVars, tunVars
<1>8. CASE ServerStart \/ UNCHANGED vars
  BY <1>8, NamesKept DEF ServerStart, vars, sessionVars, tunVars
<1>9. QED
  BY NextCases, <1>1, <1>2, <1>3, <1>4, <1>5, <1>6, <1>7, <1>8

LEMMA StepGoroutines ==
  ASSUME TypeOK, DeviceInv, GoroutineInv, [Next]_vars
  PROVE  GoroutineInv'
<1>t. /\ pc \in [Conns -> Outside \cup Inside]
      /\ tcp \in [Conns -> {"none", "reading", "packet", "quit"}]
      /\ tun \in [Conns -> {"none", "reading", "got", "sending", "closed"}]
      /\ tunQuit \in [Conns -> BOOLEAN] /\ queue \in [Conns -> 0..MaxTunQueue]
  BY DEF TypeOK
<1> USE DEF Serving
<1>1. CASE ServerDown
  BY <1>1 DEF ServerDown, OnAll, GoroutineInv
<1>2. ASSUME NEW c \in Conns,
             \/ HelloFails(c) \/ SendPrefixFails(c) \/ Unlock(c)
             \/ (\E i \in Ids : ClientConnects(c, i)) \/ Hello(c) \/ Lock(c)
             \/ GetPrefix(c) \/ SendPrefix(c) \/ TakeTunName(c) \/ FreeTunName(c)
      PROVE  GoroutineInv'
  <2>1. /\ pc[c] \notin Serving
        /\ \E l \in Outside \cup (Inside \ Serving) : pc' = [pc EXCEPT ![c] = l]
        /\ UNCHANGED <<tcp, tun, tunQuit, queue>>
    BY <1>2 DEF HelloFails, SendPrefixFails, Unlock, Return, ClientConnects, Hello, Lock,
       GetPrefix, SendPrefix, TakeTunName, FreeTunName, Goto, goVars, tunVars, Inside, Outside
  <2>2. pc'[c] \notin Serving /\ \A d \in Conns \ {c} : pc'[d] = pc[d]
    BY <1>t, <2>1 DEF Inside, Outside
  <2>3. QED
    BY <2>1, <2>2 DEF GoroutineInv
<1>3. ASSUME NEW c \in Conns, OpenTun(c) PROVE GoroutineInv'
  BY <1>3, <1>t DEF OpenTun, Goto, GoroutineInv
<1>4. ASSUME NEW c \in Conns, ToClient(c) \/ WriteReturns(c) PROVE GoroutineInv'
  BY <1>4, <1>t DEF ToClient, WriteReturns, Goto, goVars, tunVars, GoroutineInv
<1>5. ASSUME NEW c \in Conns, Quit(c) PROVE GoroutineInv'
  BY <1>5, <1>t DEF Quit, Goto, tunVars, GoroutineInv
<1>6. ASSUME NEW c \in Conns, Wake(c) PROVE GoroutineInv'
  <2>1. /\ pc[c] = "wake" /\ pc' = [pc EXCEPT ![c] = "handoff"]
        /\ UNCHANGED <<tcp, tun, tunQuit>>
        /\ queue' = queue \/ (DeviceOpen(c) /\ Route(c))
    BY <1>6 DEF Wake, WakeUp, Goto, goVars
  <2>2. tun[c] = "closed" => queue' = queue
    BY <2>1 DEF DeviceOpen, DeviceInv
  <2>3. \A d \in Conns \ {c} : queue'[d] = queue[d] /\ pc'[d] = pc[d]
    BY <1>t, <2>1 DEF Route
  <2>4. pc'[c] = "handoff"
    BY <1>t, <2>1
  <2>5. QED
    BY <2>1, <2>2, <2>3, <2>4 DEF GoroutineInv
<1>7. ASSUME NEW c \in Conns, Handoff(c) PROVE GoroutineInv'
  BY <1>7, <1>t DEF Handoff, Goto, tunVars, GoroutineInv
<1>8. ASSUME NEW c \in Conns, FromClient(c) \/ TcpRead(c) PROVE GoroutineInv'
  BY <1>8, <1>t DEF FromClient, TcpRead, sessionVars, tunVars, GoroutineInv
<1>9. ASSUME NEW c \in Conns, TunRead(c) \/ TunForwards(c) PROVE GoroutineInv'
  BY <1>9, <1>t DEF TunRead, TunForwards, sessionVars, tunVars, GoroutineInv
<1>10. ASSUME NEW c \in Conns, TunCloses(c) PROVE GoroutineInv'
  BY <1>10, <1>t DEF TunCloses, sessionVars, GoroutineInv
<1>11. ASSUME NEW c \in Conns, PacketArrives(c) PROVE GoroutineInv'
  <2>1. UNCHANGED <<pc, tcp, tun, tunQuit>> /\ DeviceOpen(c) /\ Route(c)
    BY <1>11 DEF PacketArrives, sessionVars, goVars
  <2>2. tun[c] # "closed" /\ pc[c] \in Serving
    BY <2>1 DEF DeviceOpen, DeviceInv, TypeOK
  <2>3. \A d \in Conns \ {c} : queue'[d] = queue[d]
    BY <1>t, <2>1 DEF Route
  <2>4. QED
    BY <2>1, <2>2, <2>3 DEF GoroutineInv
<1>12. ASSUME NEW c \in Conns, HelloGarbled(c) \/ ClientDisconnects(c) PROVE GoroutineInv'
  BY <1>12 DEF HelloGarbled, ClientDisconnects, sessionVars, goVars, tunVars, GoroutineInv
<1>13. CASE ServerStart \/ UNCHANGED vars
  BY <1>13 DEF ServerStart, vars, sessionVars, goVars, tunVars, GoroutineInv
<1>14. QED
  BY NextCases, <1>1, <1>2, <1>3, <1>4, <1>5, <1>6, <1>7, <1>8, <1>9, <1>10, <1>11, <1>12, <1>13

\* A TUN device lives inside its client's session (server.go:199-225), if there
\* are no more connections than names: getNewTunName hands out tun0 once more when
\* it has none left (tunindex.go:19-34).
THEOREM DeviceWithinSessionHolds ==
  ASSUME IsFiniteSet(Conns), Cardinality(Conns) <= TUN_ID_MAX + 1
  PROVE  Spec => []DeviceWithinSession
<1>1. Init => DeviceInv /\ NameInv /\ GoroutineInv
  BY DEF Init, SessionsInit, OnAll, DeviceInv, NameInv, GoroutineInv, Holding, Serving
<1>2. TypeOK /\ DeviceInv /\ NameInv /\ GoroutineInv /\ [Next]_vars
        => (DeviceInv /\ NameInv /\ GoroutineInv)'
  BY StepDevice, StepNames, StepGoroutines
<1>3. TypeOK /\ DeviceInv /\ NameInv /\ GoroutineInv => DeviceWithinSession
  BY DEF DeviceInv, NameInv, GoroutineInv, Holding, DeviceWithinSession, TypeOK
<1>4. QED
  BY <1>1, <1>2, <1>3, TypeInvariant, PTL DEF Spec
-----------------------------------------------------------------------------
\* The server implements its contract.  A step changes what the clients and the
\* network see of it only by a session that begins or ends, a route that appears
\* or goes, or a prefix that is told.
LEMMA SessionsKept ==
  ASSUME \A d \in Conns : InSession(d)' <=> InSession(d),
         \A d \in Conns : InSession(d) => id'[d] = id[d]
  PROVE  Sessions' = Sessions
  BY DEF Sessions

LEMMA RoutesKept ==
  ASSUME \A d \in Conns : DeviceOpen(d)' <=> DeviceOpen(d),
         \A d \in Conns : DeviceOpen(d) => prefix'[d] = prefix[d]
  PROVE  Routes' = Routes
  BY DEF Routes

LEMMA DevicesKept ==
  ASSUME device' = device
  PROVE  \A d \in Conns : DeviceOpen(d)' <=> DeviceOpen(d)
  BY DEF DeviceOpen

LEMMA NotServingNotRouted ==
  ASSUME DeviceInv, NEW c \in Conns, pc[c] \notin Serving
  PROVE  ~DeviceOpen(c) /\ \A r \in Routes : r[2] # c
<1>1. ~DeviceOpen(c)
  BY DEF DeviceInv, DeviceOpen
<1>2. QED
  BY <1>1 DEF Routes

\* A session ends, with its connection's variables, when nothing is routed to it.
LEMMA SessionEnds ==
  ASSUME TypeOK, DeviceInv, NEW c \in Conns, SendPrefixFails(c) \/ Unlock(c)
  PROVE  Contract!ContractNext
<1>t. /\ pc \in [Conns -> Outside \cup Inside] /\ id \in [Conns -> Ids]
      /\ prefix \in [Conns -> Prefixes \cup {NoPrefix}]
  BY DEF TypeOK
<1>1. /\ InSession(c) /\ pc[c] \notin Serving
      /\ pc' = [pc EXCEPT ![c] = "idle"] /\ id' = id /\ told' = told
      /\ prefix' = [prefix EXCEPT ![c] = NoPrefix] /\ device' = device
  BY DEF SendPrefixFails, Unlock, Return, Goto, tunVars, InSession, Inside, Serving
<1>2. ~DeviceOpen(c) /\ \A r \in Routes : r[2] # c
  BY <1>1, NotServingNotRouted
<1>3. Routes' = Routes
  <2>1. \A d \in Conns : DeviceOpen(d) => prefix'[d] = prefix[d]
    BY <1>t, <1>1, <1>2
  <2>2. QED
    BY <1>1, <2>1, DevicesKept, RoutesKept
<1>4. Sessions' = Sessions \ {<<id[c], c>>}
  <2>1. \A d \in Conns : InSession(d)' <=> InSession(d) /\ d # c
    BY <1>t, <1>1 DEF InSession, Inside, Serving
  <2>2. QED
    BY <1>1, <2>1 DEF Sessions
<1>5. <<id[c], c>> \in Sessions /\ id[c] \in Ids
  BY <1>t, <1>1 DEF Sessions
<1>6. Contract!End(id[c], c)
  BY <1>1, <1>2, <1>3, <1>4, <1>5 DEF Contract!End, Contract!Routed
<1>7. QED
  BY <1>5, <1>6 DEF Contract!ContractNext

\* A session begins under its client's lock.
LEMMA SessionBegins ==
  ASSUME TypeOK, LockInv', NEW c \in Conns, Lock(c)
  PROVE  Contract!ContractNext
<1>t. pc \in [Conns -> Outside \cup Inside] /\ id \in [Conns -> Ids]
  BY DEF TypeOK
<1>1. /\ ~InSession(c) /\ InSession(c)' /\ id' = id /\ told' = told
      /\ prefix' = prefix /\ device' = device
      /\ \A d \in Conns \ {c} : pc'[d] = pc[d]
  BY <1>t DEF Lock, Goto, tunVars, InSession, Inside, Serving
<1>2. Routes' = Routes
  BY <1>1, DevicesKept, RoutesKept
<1>3. \A d \in Conns : InSession(d) => d # c /\ id[d] # id[c]
  BY <1>1 DEF LockInv, OneSessionPerClient, InSession
<1>4. Sessions' = Sessions \cup {<<id[c], c>>}
  <2>1. \A d \in Conns : InSession(d)' <=> InSession(d) \/ d = c
    BY <1>1 DEF InSession
  <2>2. QED
    BY <1>1, <2>1 DEF Sessions
<1>5. \A s \in Sessions : s[1] # id[c] /\ s[2] # c
  BY <1>3 DEF Sessions
<1>6. Contract!Begin(id[c], c)
  BY <1>1, <1>2, <1>4, <1>5 DEF Contract!Begin
<1>7. QED
  BY <1>t, <1>6 DEF Contract!ContractNext

\* A client is told the prefix that the file has for it, and for nobody else.
LEMMA PrefixIsTold ==
  ASSUME TypeOK, AssignInv, SessionInv, NEW c \in Conns, SendPrefix(c)
  PROVE  Contract!ContractNext
<1>t. /\ pc \in [Conns -> Outside \cup Inside] /\ id \in [Conns -> Ids]
      /\ prefix \in [Conns -> Prefixes \cup {NoPrefix}]
  BY DEF TypeOK
<1>1. /\ pc[c] = "reply" /\ pc' = [pc EXCEPT ![c] = "name"]
      /\ told' = [told EXCEPT ![id[c]] = prefix[c]]
      /\ id' = id /\ prefix' = prefix /\ device' = device
  BY DEF SendPrefix, Goto, tunVars
<1>2. Sessions' = Sessions /\ Routes' = Routes
  <2>1. \A d \in Conns : InSession(d)' <=> InSession(d)
    BY <1>t, <1>1 DEF InSession, Inside, Serving
  <2>2. QED
    BY <1>1, <2>1, SessionsKept, DevicesKept, RoutesKept
<1>3. prefix[c] = prefixfile.map[id[c]] /\ prefix[c] # NoPrefix /\ prefix[c] \in Prefixes /\ id[c] \in Ids
  BY <1>t, <1>1 DEF SessionInv, Inside, Serving
<1>4. told[id[c]] \in {NoPrefix, prefix[c]}
  BY <1>3 DEF AssignInv
<1>5. \A j \in Ids \ {id[c]} : told[j] # prefix[c]
  BY <1>3 DEF AssignInv, Injective
<1>6. <<id[c], c>> \in Sessions
  BY <1>1 DEF Sessions, InSession, Inside, Serving
<1>7. Contract!Tell(id[c], c, prefix[c])
  BY <1>1, <1>2, <1>4, <1>5, <1>6 DEF Contract!Tell
<1>8. QED
  BY <1>3, <1>7 DEF Contract!ContractNext

\* A device is opened for the prefix that the session's client was told,
LEMMA RouteOpens ==
  ASSUME TypeOK, SessionInv, DeviceInv, NEW c \in Conns, OpenTun(c)
  PROVE  Contract!ContractNext
<1>t. /\ pc \in [Conns -> Outside \cup Inside] /\ id \in [Conns -> Ids]
      /\ tunname \in [Conns -> TunIds] /\ device \in [TunIds -> Conns \cup {NoConn}]
  BY DEF TypeOK
<1>1. /\ pc[c] = "open" /\ pc' = [pc EXCEPT ![c] = "loop"]
      /\ device[tunname[c]] = NoConn /\ device' = [device EXCEPT ![tunname[c]] = c]
      /\ told' = told /\ id' = id /\ prefix' = prefix
  BY DEF OpenTun, Goto
<1>2. InSession(c) /\ pc[c] \notin Serving
  BY <1>1 DEF InSession, Inside, Serving
<1>3. Sessions' = Sessions
  <2>1. \A d \in Conns : InSession(d)' <=> InSession(d)
    BY <1>t, <1>1 DEF InSession, Inside, Serving
  <2>2. QED
    BY <1>1, <2>1, SessionsKept
<1>4. told[id[c]] = prefix[c] /\ prefix[c] # NoPrefix /\ id[c] \in Ids
  BY <1>t, <1>1 DEF SessionInv, Inside, Serving
<1>5. Routes' = Routes \cup {<<told[id[c]], c>>}
  <2>1. \A d \in Conns : DeviceOpen(d)' <=> DeviceOpen(d) \/ d = c
    BY <1>t, <1>1 DEF DeviceOpen
  <2>2. QED
    BY <1>1, <1>4, <2>1 DEF Routes
<1>6. \A r \in Routes : r[2] # c
  BY <1>2, NotServingNotRouted
<1>7. <<id[c], c>> \in Sessions
  BY <1>2 DEF Sessions
<1>8. Contract!Open(id[c], c)
  BY <1>1, <1>3, <1>4, <1>5, <1>6, <1>7 DEF Contract!Open, Contract!Routed
<1>9. QED
  BY <1>4, <1>8 DEF Contract!ContractNext

\* and closed in the session; a device that was closed already changes nothing.
LEMMA RouteCloses ==
  ASSUME TypeOK, NEW c \in Conns, TunCloses(c)
  PROVE  Contract!ContractNext \/ UNCHANGED <<told, Sessions, Routes>>
<1>t. device \in [TunIds -> Conns \cup {NoConn}]
  BY DEF TypeOK
<1>1. /\ pc' = pc /\ id' = id /\ prefix' = prefix /\ told' = told
      /\ device' = [n \in TunIds |-> IF device[n] = c THEN NoConn ELSE device[n]]
  BY DEF TunCloses, sessionVars
<1>2. Sessions' = Sessions
  BY <1>1, SessionsKept DEF InSession
<1>3. \A d \in Conns : DeviceOpen(d)' <=> DeviceOpen(d) /\ d # c
  BY <1>t, <1>1 DEF DeviceOpen
<1>4. CASE DeviceOpen(c)
  <2>1. Routes' = {r \in Routes : r[2] # c}
    BY <1>1, <1>3 DEF Routes
  <2>2. <<prefix[c], c>> \in Routes
    BY <1>4 DEF Routes
  <2>3. Contract!Close(c)
    BY <1>1, <1>2, <2>1, <2>2 DEF Contract!Close, Contract!Routed
  <2>4. QED
    BY <2>3 DEF Contract!ContractNext
<1>5. CASE ~DeviceOpen(c)
  BY <1>1, <1>2, <1>3, <1>5, RoutesKept
<1>6. QED
  BY <1>4, <1>5

LEMMA ServiceEnds ==
  ASSUME ServerDown
  PROVE  Contract!ContractNext
<1>1. told' = told /\ \A d \in Conns : ~InSession(d)' /\ ~DeviceOpen(d)'
  BY DEF ServerDown, OnAll, InSession, DeviceOpen, Inside, Serving
<1>2. Sessions' = {} /\ Routes' = {}
  BY <1>1 DEF Sessions, Routes
<1>3. QED
  BY <1>1, <1>2 DEF Contract!ContractNext, Contract!Down

LEMMA StepService ==
  ASSUME TypeOK, LockInv', AssignInv, SessionInv, DeviceInv, [Next]_vars
  PROVE  [Contract!ContractNext]_(Contract!contractVars)
<1>t. /\ pc \in [Conns -> Outside \cup Inside] /\ id \in [Conns -> Ids]
      /\ prefix \in [Conns -> Prefixes \cup {NoPrefix}]
  BY DEF TypeOK
<1> SUFFICES Contract!ContractNext \/ UNCHANGED <<told, Sessions, Routes>>
  BY DEF Contract!contractVars
<1>1. CASE ServerDown
  BY <1>1, ServiceEnds
<1>2. ASSUME NEW c \in Conns, SendPrefixFails(c) \/ Unlock(c) PROVE Contract!ContractNext
  BY <1>2, SessionEnds
<1>3. ASSUME NEW c \in Conns, Lock(c) PROVE Contract!ContractNext
  BY <1>3, SessionBegins
<1>4. ASSUME NEW c \in Conns, SendPrefix(c) PROVE Contract!ContractNext
  BY <1>4, PrefixIsTold
<1>5. ASSUME NEW c \in Conns, OpenTun(c) PROVE Contract!ContractNext
  BY <1>5, RouteOpens
<1>6. ASSUME NEW c \in Conns, TunCloses(c)
      PROVE  Contract!ContractNext \/ UNCHANGED <<told, Sessions, Routes>>
  BY <1>6, RouteCloses
\* The client's id and the session's prefix change where neither is in use.
<1>7. ASSUME NEW c \in Conns, HelloFails(c) \/ (\E i \in Ids : ClientConnects(c, i)) \/ GetPrefix(c)
      PROVE  UNCHANGED <<told, Sessions, Routes>>
  <2>1. /\ pc[c] \in {"idle", "reading", "prefix"} /\ told' = told /\ device' = device
        /\ \A d \in Conns \ {c} : pc'[d] = pc[d] /\ id'[d] = id[d] /\ prefix'[d] = prefix[d]
        /\ InSession(c)' <=> InSession(c)
        /\ InSession(c) => id'[c] = id[c]
    BY <1>7, <1>t DEF HelloFails, Return, ClientConnects, GetPrefix, Goto, tunVars, InSession, Inside, Serving
  <2>2. ~DeviceOpen(c)
    BY <2>1, NotServingNotRouted DEF Serving
  <2>3. Sessions' = Sessions
    BY <2>1, SessionsKept DEF InSession
  <2>4. Routes' = Routes
    BY <2>1, <2>2, DevicesKept, RoutesKept
  <2>5. QED
    BY <2>1, <2>3, <2>4
\* The other steps move no session, and open or close no device.
<1>8. ASSUME NEW c \in Conns,
             \/ Hello(c) \/ TakeTunName(c) \/ ToClient(c) \/ WriteReturns(c)
             \/ Quit(c) \/ Wake(c) \/ Handoff(c) \/ FreeTunName(c)
      PROVE  UNCHANGED <<told, Sessions, Routes>>
  <2>1. /\ told' = told /\ device' = device /\ id' = id /\ prefix' = prefix
        /\ \A d \in Conns : pc'[d] = pc[d] \/ (d = c /\ (pc'[d] \in Inside <=> pc[d] \in Inside))
    BY <1>8, <1>t DEF Hello, TakeTunName, ToClient, WriteReturns, Quit, Wake, WakeUp, Handoff, FreeTunName,
       Goto, tunVars, Inside, Serving
  <2>2. \A d \in Conns : InSession(d)' <=> InSession(d)
    BY <2>1 DEF InSession
  <2>3. QED
    BY <2>1, <2>2, SessionsKept, DevicesKept, RoutesKept
<1>9. ASSUME \/ ServerStart \/ UNCHANGED vars
             \/ \E c \in Conns : \/ HelloGarbled(c) \/ FromClient(c) \/ TcpRead(c) \/ TunRead(c)
                                 \/ TunForwards(c) \/ PacketArrives(c) \/ ClientDisconnects(c)
      PROVE  UNCHANGED <<told, Sessions, Routes>>
  <2>1. UNCHANGED <<told, pc, id, prefix, device>>
    BY <1>9 DEF ServerStart, HelloGarbled, FromClient, TcpRead, TunRead, TunForwards, PacketArrives,
       ClientDisconnects, vars, sessionVars, tunVars
  <2>2. QED
    BY <2>1, SessionsKept, DevicesKept, RoutesKept DEF InSession
<1>10. QED
  BY NextCases, <1>1, <1>2, <1>3, <1>4, <1>5, <1>6, <1>7, <1>8, <1>9

LEMMA InitService == SessionsInit => Contract!ContractInit
<1> SUFFICES ASSUME SessionsInit PROVE Contract!ContractInit
  OBVIOUS
<1>1. \A d \in Conns : ~InSession(d) /\ ~DeviceOpen(d)
  BY DEF SessionsInit, OnAll, InSession, DeviceOpen, Inside, Serving
<1>2. Sessions = {} /\ Routes = {}
  BY <1>1 DEF Sessions, Routes
<1>3. told = [i \in Ids |-> NoPrefix]
  BY DEF SessionsInit, NoAssignments
<1>4. QED
  BY <1>2, <1>3 DEF Contract!ContractInit

\* The tunnel server keeps its contract with its clients and the network
\* (server.go:102-226, README.md:45-52), while the file of assignments is no longer
\* than what Create reads.
THEOREM ServiceImplemented ==
  ASSUME FileLimit >= Cardinality(Ids) PROVE Spec => ServiceKept
<1>1. Init => DeviceInv
  BY DEF Init, SessionsInit, OnAll, DeviceInv
<1>2. TypeOK /\ DeviceInv /\ [Next]_vars => DeviceInv'
  BY StepDevice
<1>3. Init => Contract!ContractInit
  BY InitService DEF Init
<1>4. TypeOK /\ LockInv' /\ AssignInv /\ SessionInv /\ DeviceInv /\ [Next]_vars
        => [Contract!ContractNext]_(Contract!contractVars)
  BY StepService
<1>5. QED
  BY <1>1, <1>2, <1>3, <1>4, TypeInvariant, LockInvariant, AssignInvariant, PTL
  DEF Spec, ServiceKept, Contract!ContractSpec
=============================================================================
