----------------------------- MODULE TunnelServer -----------------------------
(***************************************************************************)
(* The IPv6 tunnel server: for each TCP connection a goroutine             *)
(* handleClient and, once the client has its prefix and its TUN device,    *)
(* two more, clientTCP and clientTUN, that block in reads and hand what    *)
(* they read to handleClient over unbuffered channels.                     *)
(*                                                                         *)
(* A connection is a slot that is used again when its session is over.  A  *)
(* step of a goroutine ends where it blocks or where another goroutine can *)
(* see what it did.  Packets have no contents; a read that fails is a      *)
(* client that has disconnected.                                           *)
(***************************************************************************)
EXTENDS PrefixManager

CONSTANTS
  Conns,         \* the TCP connections the server can have at a time
  NoConn,
  TUN_ID_MAX,
  MaxTunQueue    \* packets a TUN device can hold; the kernel drops the rest

TunIds == 0..TUN_ID_MAX

ASSUME ServerAssumption ==
  /\ NoConn \notin Conns
  /\ TUN_ID_MAX \in Nat
  /\ MaxTunQueue \in Nat \ {0}

VARIABLES
  up,            \* the server process runs
  pc,            \* where handleClient is
  id,            \* newclient.Id
  hello,         \* the client's id is in the socket, not read yet
  alive,         \* the client is connected
  mw,            \* which mutex of its id lockClient found
  prefix,        \* prefix.Prefix
  tunname,       \* the number in tunname
  tcp,           \* where clientTCP is
  tun,           \* where clientTUN is
  tunQuit,       \* tun_quit_ch holds a message
  client_locks,  \* id -> number of its mutex, 0 if there is none
  locked,        \* the mutexes that are locked
  tunset,        \* TunManager.tunset
  device,        \* the kernel's TUN devices: the session that opened each
  queue,         \* packets routed to the device of a session and not read yet
  told           \* history: the prefix last sent to each client

sessionVars == <<pc, id, hello, alive, mw, prefix, tunname>>
goVars == <<tcp, tun, tunQuit>>
lockVars == <<client_locks, locked>>
tunVars == <<tunset, device, queue>>
vars == <<prefixVars, up, sessionVars, goVars, lockVars, tunVars, told>>

\* Each id has one mutex for ever, 1; 0 stands for none.
MutexNumbers == {0, 1}

Outside == {"idle", "reading", "locking"}
\* The session has its TUN device and its goroutines.
Serving == {"loop", "write", "wake", "handoff"}
Inside  == {"prefix", "reply", "name", "open", "free", "unlock"} \cup Serving

TypeOK ==
  /\ PrefixTypeOK
  /\ up \in BOOLEAN
  /\ pc \in [Conns -> Outside \cup Inside]
  /\ id \in [Conns -> Ids]
  /\ hello \in [Conns -> BOOLEAN]
  /\ alive \in [Conns -> BOOLEAN]
  /\ mw \in [Conns -> MutexNumbers]
  /\ prefix \in [Conns -> Prefixes \cup {NoPrefix}]
  /\ tunname \in [Conns -> TunIds]
  /\ tcp \in [Conns -> {"none", "reading", "packet", "quit"}]
  /\ tun \in [Conns -> {"none", "reading", "got", "sending", "closed"}]
  /\ tunQuit \in [Conns -> BOOLEAN]
  /\ client_locks \in [Ids -> MutexNumbers]
  /\ locked \in SUBSET (Ids \X MutexNumbers)
  /\ tunset \in [TunIds -> BOOLEAN]
  /\ device \in [TunIds -> Conns \cup {NoConn}]
  /\ queue \in [Conns -> 0..MaxTunQueue]
  /\ told \in [Ids -> Prefixes \cup {NoPrefix}]

\* A process that does not run has no goroutine, lock, device or map.
OnAll(S, value) == [x \in S |-> value]

SessionsInit ==
  /\ up = FALSE
  /\ pc = OnAll(Conns, "idle")
  /\ id \in {OnAll(Conns, i) : i \in Ids}
  /\ hello = OnAll(Conns, FALSE) /\ alive = OnAll(Conns, FALSE)
  /\ mw = OnAll(Conns, 0)
  /\ prefix = OnAll(Conns, NoPrefix)
  /\ tunname = OnAll(Conns, 0)
  /\ tcp = OnAll(Conns, "none") /\ tun = OnAll(Conns, "none")
  /\ tunQuit = OnAll(Conns, FALSE)
  /\ client_locks = OnAll(Ids, 0) /\ locked = {}
  /\ tunset = OnAll(TunIds, FALSE) /\ device = OnAll(TunIds, NoConn)
  /\ queue = OnAll(Conns, 0)
  /\ told = NoAssignments

Init == PrefixInit /\ SessionsInit

-----------------------------------------------------------------------------
\* The process dies, by log.Fatal or from outside; only the file is left.
ServerDown ==
  /\ up' = FALSE
  /\ pc' = OnAll(Conns, "idle")
  /\ hello' = OnAll(Conns, FALSE) /\ alive' = OnAll(Conns, FALSE)
  /\ mw' = OnAll(Conns, 0)
  /\ prefix' = OnAll(Conns, NoPrefix)
  /\ tunname' = OnAll(Conns, 0)
  /\ tcp' = OnAll(Conns, "none") /\ tun' = OnAll(Conns, "none")
  /\ tunQuit' = OnAll(Conns, FALSE)
  /\ client_locks' = OnAll(Ids, 0) /\ locked' = {}
  /\ tunset' = OnAll(TunIds, FALSE) /\ device' = OnAll(TunIds, NoConn)
  /\ queue' = OnAll(Conns, 0)
  /\ prefixes' = NoAssignments
  /\ inuse' = {}
  /\ UNCHANGED <<prefixfile, id, told>>

ServerKilled == up /\ ServerDown

\* main
ServerStart ==
  /\ ~up
  /\ up' = TRUE
  /\ Create
  /\ UNCHANGED <<sessionVars, goVars, lockVars, tunVars, told>>

Goto(c, label) == pc' = [pc EXCEPT ![c] = label]

\* handleClient returns, and its variables are gone.
Return(c) ==
  /\ Goto(c, "idle")
  /\ hello' = [hello EXCEPT ![c] = FALSE]
  /\ mw' = [mw EXCEPT ![c] = 0]
  /\ prefix' = [prefix EXCEPT ![c] = NoPrefix]
  /\ tunname' = [tunname EXCEPT ![c] = 0]
  /\ UNCHANGED <<up, id, alive>>

\* The client i connects and sends its id, and acceptTcp starts handleClient.
ClientConnects(c, i) ==
  /\ up
  /\ pc[c] = "idle"
  /\ Goto(c, "reading")
  /\ id' = [id EXCEPT ![c] = i]
  /\ hello' = [hello EXCEPT ![c] = TRUE]
  /\ alive' = [alive EXCEPT ![c] = TRUE]
  /\ UNCHANGED <<prefixVars, up, mw, prefix, tunname, goVars, lockVars, tunVars, told>>

\* The client goes away; the server only learns it from a read or a write.
ClientDisconnects(c) ==
  /\ alive[c]
  /\ alive' = [alive EXCEPT ![c] = FALSE]
  /\ UNCHANGED <<prefixVars, up, pc, id, hello, mw, prefix, tunname, goVars, lockVars, tunVars, told>>

-----------------------------------------------------------------------------
\* handleClient up to its locks.  The read fails:
HelloFails(c) ==
  /\ pc[c] = "reading"
  /\ ~alive[c]
  /\ Return(c)
  /\ UNCHANGED <<prefixVars, goVars, lockVars, tunVars, told>>

\* The read returns part of the id, which does not parse and is thrown away.
HelloGarbled(c) ==
  /\ pc[c] = "reading"
  /\ hello[c]
  /\ hello' = [hello EXCEPT ![c] = FALSE]
  /\ UNCHANGED <<prefixVars, up, pc, id, alive, mw, prefix, tunname>>
  /\ UNCHANGED <<goVars, lockVars, tunVars, told>>

\* The mutex that lockClient takes out of the map, and the map afterwards.
\* Faulty variant: a new mutex every time.
AlwaysNewMutex(i) == client_locks[i] + 1
MutexFor(i) == IF client_locks[i] = 0 THEN 1 ELSE client_locks[i]

\* The id is read; lockClient looks up the client's mutex, under client_locks_lock.
Hello(c) ==
  /\ pc[c] = "reading"
  /\ hello[c]
  /\ hello' = [hello EXCEPT ![c] = FALSE]
  /\ mw' = [mw EXCEPT ![c] = MutexFor(id[c])]
  /\ client_locks' = [client_locks EXCEPT ![id[c]] = MutexFor(id[c])]
  /\ Goto(c, "locking")
  /\ UNCHANGED <<prefixVars, up, id, alive, prefix, tunname, goVars, locked, tunVars, told>>

\* mw.lock.Lock() returns.
Lock(c) ==
  /\ pc[c] = "locking"
  /\ <<id[c], mw[c]>> \notin locked
  /\ locked' = locked \cup {<<id[c], mw[c]>>}
  /\ Goto(c, "prefix")
  /\ UNCHANGED <<prefixVars, up, id, hello, alive, mw, prefix, tunname>>
  /\ UNCHANGED <<goVars, client_locks, tunVars, told>>

unlockClient(i) == locked' = locked \ {<<i, client_locks[i]>>} /\ UNCHANGED client_locks

\* prefixes.getPrefix succeeds.
GetPrefix(c) ==
  /\ pc[c] = "prefix"
  /\ \E p \in Prefixes : getPrefix(id[c], p) /\ prefix' = [prefix EXCEPT ![c] = p]
  /\ Goto(c, "reply")
  /\ UNCHANGED <<up, id, hello, alive, mw, tunname, goVars, lockVars, tunVars, told>>

\* tcpc.Write of the prefix.  It may still succeed when the client is gone.
SendPrefix(c) ==
  /\ pc[c] = "reply"
  /\ told' = [told EXCEPT ![id[c]] = prefix[c]]
  /\ Goto(c, "name")
  /\ UNCHANGED <<prefixVars, up, id, hello, alive, mw, prefix, tunname, goVars, lockVars, tunVars>>

SendPrefixFails(c) ==
  /\ pc[c] = "reply"
  /\ ~alive[c]
  /\ unlockClient(id[c])
  /\ Return(c)
  /\ UNCHANGED <<prefixVars, goVars, tunVars, told>>

\* tunids.getNewTunName: the lowest free number, and tun0 if none is free.
IsNewTunName(n) ==
  LET free == {k \in TunIds : ~tunset[k]}
  IN  IF free = {} THEN n = 0 ELSE n \in free /\ \A k \in free : n <= k

TakeTunName(c) ==
  /\ pc[c] = "name"
  /\ \E n \in TunIds :
       /\ IsNewTunName(n)
       /\ tunset' = [tunset EXCEPT ![n] = TRUE]
       /\ tunname' = [tunname EXCEPT ![c] = n]
  /\ Goto(c, "open")
  /\ UNCHANGED <<prefixVars, up, id, hello, alive, mw, prefix>>
  /\ UNCHANGED <<goVars, lockVars, device, queue, told>>

\* tuntap.Open succeeds, the prefix is routed to the device, and the two
\* goroutines are started.
OpenTun(c) ==
  /\ pc[c] = "open"
  /\ device[tunname[c]] = NoConn
  /\ device' = [device EXCEPT ![tunname[c]] = c]
  /\ tcp' = [tcp EXCEPT ![c] = "reading"]
  /\ tun' = [tun EXCEPT ![c] = "reading"]
  /\ Goto(c, "loop")
  /\ UNCHANGED <<prefixVars, up, id, hello, alive, mw, prefix, tunname>>
  /\ UNCHANGED <<tunQuit, lockVars, tunset, queue, told>>

\* log.Fatal: no prefix is left; tuntap.Open fails, always if the device is open
\* already; ReadPacket fails.
Fatal(c) ==
  /\ \/ pc[c] = "prefix" /\ OutOfPrefixes(id[c])
     \/ pc[c] = "open"
     \/ tun[c] = "reading"
  /\ ServerDown

-----------------------------------------------------------------------------
\* handle_loop: a packet from the client, which is written to the TUN device,
FromClient(c) ==
  /\ pc[c] = "loop"
  /\ tcp[c] = "packet"
  /\ tcp' = [tcp EXCEPT ![c] = "reading"]
  /\ UNCHANGED <<prefixVars, up, sessionVars, tun, tunQuit, lockVars, tunVars, told>>

\* a packet for the client, which handleClient goes on to write to the connection:
ToClient(c) ==
  /\ pc[c] = "loop"
  /\ tun[c] = "sending"
  /\ tun' = [tun EXCEPT ![c] = "reading"]
  /\ Goto(c, "write")
  /\ UNCHANGED <<prefixVars, up, id, hello, alive, mw, prefix, tunname>>
  /\ UNCHANGED <<tcp, tunQuit, lockVars, tunVars, told>>

\* tcpc.Write returns, written or not; its error is ignored.  It blocks while
\* the connection has no room.
WriteReturns(c) ==
  /\ pc[c] = "write"
  /\ Goto(c, "loop")
  /\ UNCHANGED <<prefixVars, up, id, hello, alive, mw, prefix, tunname>>
  /\ UNCHANGED <<goVars, lockVars, tunVars, told>>

\* handle_loop hears from clientTCP that the client is gone: tun_quit_ch <- 1.
Quit(c) ==
  /\ pc[c] = "loop"
  /\ tcp[c] = "quit"
  /\ tcp' = [tcp EXCEPT ![c] = "none"]
  /\ tunQuit' = [tunQuit EXCEPT ![c] = TRUE]
  /\ Goto(c, "wake")
  /\ UNCHANGED <<prefixVars, up, id, hello, alive, mw, prefix, tunname>>
  /\ UNCHANGED <<tun, lockVars, tunVars, told>>

\* Routing a packet to the session's device; a full device drops it.
Route(c) == queue' = [queue EXCEPT ![c] = IF @ < MaxTunQueue THEN @ + 1 ELSE @]
DeviceOpen(c) == \E n \in TunIds : device[n] = c

\* Faulty variant: no packet wakes clientTUN.
NoWakeUp(c) == pc[c] = "wake" /\ Goto(c, "handoff") /\ UNCHANGED queue

\* The UDP packet that wakes clientTUN; it is lost if the device is closed already.
WakeUp(c) ==
  /\ pc[c] = "wake"
  /\ IF DeviceOpen(c) THEN Route(c) ELSE UNCHANGED queue
  /\ Goto(c, "handoff")

Wake(c) ==
  /\ WakeUp(c)
  /\ UNCHANGED <<prefixVars, up, id, hello, alive, mw, prefix, tunname>>
  /\ UNCHANGED <<goVars, lockVars, tunset, device, told>>

\* Faulty variant: tun_quit_ch2 has a buffer.
HandoffBuffered(c) ==
  /\ pc[c] = "handoff"
  /\ tun' = [tun EXCEPT ![c] = IF @ = "closed" THEN "none" ELSE @]
  /\ Goto(c, "free")
  /\ UNCHANGED <<prefixVars, up, id, hello, alive, mw, prefix, tunname>>
  /\ UNCHANGED <<tcp, tunQuit, lockVars, tunVars, told>>

\* tun_quit_ch2 <- 1 meets its receiver in clientTUN, which then returns.
Handoff(c) ==
  /\ pc[c] = "handoff"
  /\ tun[c] = "closed"
  /\ tun' = [tun EXCEPT ![c] = "none"]
  /\ Goto(c, "free")
  /\ UNCHANGED <<prefixVars, up, id, hello, alive, mw, prefix, tunname>>
  /\ UNCHANGED <<tcp, tunQuit, lockVars, tunVars, told>>

\* tunids.unsetTunName(tunname)
FreeTunName(c) ==
  /\ pc[c] = "free"
  /\ tunset' = [tunset EXCEPT ![tunname[c]] = FALSE]
  /\ Goto(c, "unlock")
  /\ UNCHANGED <<prefixVars, up, id, hello, alive, mw, prefix, tunname>>
  /\ UNCHANGED <<goVars, lockVars, device, queue, told>>

Unlock(c) ==
  /\ pc[c] = "unlock"
  /\ unlockClient(id[c])
  /\ Return(c)
  /\ UNCHANGED <<prefixVars, goVars, tunVars, told>>

-----------------------------------------------------------------------------
\* clientTCP reads a packet, or fails to.
TcpRead(c) ==
  /\ tcp[c] = "reading"
  /\ \/ alive[c] /\ tcp' = [tcp EXCEPT ![c] = "packet"]
     \/ ~alive[c] /\ tcp' = [tcp EXCEPT ![c] = "quit"]
  /\ UNCHANGED <<prefixVars, up, sessionVars, tun, tunQuit, lockVars, tunVars, told>>

\* clientTUN: ReadPacket returns a packet,
TunRead(c) ==
  /\ tun[c] = "reading"
  /\ queue[c] > 0
  /\ queue' = [queue EXCEPT ![c] = @ - 1]
  /\ tun' = [tun EXCEPT ![c] = "got"]
  /\ UNCHANGED <<prefixVars, up, sessionVars, tcp, tunQuit, lockVars, tunset, device, told>>

\* tun_quit_ch is empty, and the packet is offered to handleClient,
TunForwards(c) ==
  /\ tun[c] = "got"
  /\ ~tunQuit[c]
  /\ tun' = [tun EXCEPT ![c] = "sending"]
  /\ UNCHANGED <<prefixVars, up, sessionVars, tcp, tunQuit, lockVars, tunVars, told>>

\* or it is not, and the device is closed.
TunCloses(c) ==
  /\ tun[c] = "got"
  /\ tunQuit[c]
  /\ tunQuit' = [tunQuit EXCEPT ![c] = FALSE]
  /\ device' = [n \in TunIds |-> IF device[n] = c THEN NoConn ELSE device[n]]
  /\ queue' = [queue EXCEPT ![c] = 0]
  /\ tun' = [tun EXCEPT ![c] = "closed"]
  /\ UNCHANGED <<prefixVars, up, sessionVars, tcp, lockVars, tunset, told>>

\* The network routes a packet to the client's prefix.
PacketArrives(c) ==
  /\ DeviceOpen(c)
  /\ queue[c] < MaxTunQueue
  /\ Route(c)
  /\ UNCHANGED <<prefixVars, up, sessionVars, goVars, lockVars, tunset, device, told>>

-----------------------------------------------------------------------------
Setup(c) ==
  \/ HelloFails(c) \/ HelloGarbled(c) \/ Hello(c) \/ Lock(c)
  \/ GetPrefix(c) \/ SendPrefix(c) \/ SendPrefixFails(c)
  \/ TakeTunName(c) \/ OpenTun(c)
Shutdown(c) == Quit(c) \/ Wake(c) \/ Handoff(c) \/ FreeTunName(c) \/ Unlock(c)
handleClient(c) == Setup(c) \/ FromClient(c) \/ ToClient(c) \/ WriteReturns(c) \/ Shutdown(c)
clientTCP(c) == TcpRead(c)
clientTUN(c) == TunRead(c) \/ TunForwards(c) \/ TunCloses(c)

Environment ==
  \/ ServerKilled \/ ServerStart
  \/ \E c \in Conns : ClientDisconnects(c) \/ PacketArrives(c)
  \/ \E c \in Conns, i \in Ids : ClientConnects(c, i)

Next ==
  \/ Environment
  \/ \E c \in Conns : handleClient(c) \/ clientTCP(c) \/ clientTUN(c) \/ Fatal(c)

Spec == Init /\ [][Next]_vars

\* The Go scheduler runs every goroutine that can run, and the clients read what
\* is written to them.  Nothing makes the process die.
Fairness ==
  \A c \in Conns :
    /\ WF_vars(handleClient(c))
    /\ WF_vars(clientTCP(c))
    /\ WF_vars(clientTUN(c))

FairSpec == Spec /\ Fairness

\* And a select picks at random among its ready cases, so that no case of
\* handle_loop that is ready again and again is passed over for ever.
FairSelect ==
  \A c \in Conns : SF_vars(FromClient(c)) /\ SF_vars(ToClient(c)) /\ SF_vars(Quit(c))

SelectSpec == FairSpec /\ FairSelect
=============================================================================
