-------------------------- MODULE PersistentTcpProofs --------------------------
(***************************************************************************)
(* Proofs about the persistent TCP connection, for every number of files,  *)
(* of descriptors, of refused connects and of losses.                      *)
(***************************************************************************)
EXTENDS PersistentTcp, LinuxProcessProofs, FiniteSetTheorems

USE ProcessAssumption, TcpAssumption

\* What the proofs assume of the process: a descriptor fits its entry of the map
\* (IOManagerP.nc:23, 35), and the application does not connect again while a
\* reconnect_task is posted.
Tame ==
  /\ Descriptors \subseteq 2..(Width - 1)
  /\ ~ConnectAtOnce

-----------------------------------------------------------------------------
\* The steps, one action each.
LEMMA NextCases ==
  ASSUME Next
  PROVE  \/ TimerTask \/ ReconnectTask \/ ReceiveTask
         \/ ReceiveReady \/ OtherReceiveReady \/ Sleeps
         \/ Wakes \/ WakesForNothing \/ TakesAlarm
         \/ connect \/ close \/ send
         \/ HostGoesDown \/ HostComesUp \/ BytesArrive \/ OtherInputArrives \/ TimerElapses
  BY DEF Next, Process, Kernel, Application, Environment

LEMMA InitType == Init => TypeOK
  BY DEF Init, TypeOK, ProcessTypeOK, NoTaskTwice, SocketStates, Files, Nothing

LEMMA RegisteredType ==
  ASSUME TypeOK, NEW fd \in Descriptors
  PROVE  registered(TcpFile, fd) \in [Files -> 0..(Width - 1)]
<1>1. fd % Width \in 0..(Width - 1)
  BY DEF Nothing
<1>2. QED
  BY <1>1 DEF registered, TypeOK, ProcessTypeOK

LEMMA UnregisteredType ==
  ASSUME TypeOK
  PROVE  unregistered(TcpFile) \in [Files -> 0..(Width - 1)]
  BY DEF unregistered, TypeOK, ProcessTypeOK, Nothing

\* What a connect does to the types, whether it succeeds or not.
LEMMA ConnectsType ==
  ASSUME TypeOK, Connects
  PROVE  /\ sock' \in Descriptors
         /\ watched' \in [Files -> 0..(Width - 1)]
         /\ fds' \in [Descriptors -> SocketStates \cup {"free"}]
         /\ arrived' = FALSE /\ failures' = failures
<1>1. PICK fd \in Free : Opens(fd, "open") /\ sock' = fd /\ watched' = registered(TcpFile, fd)
  BY DEF Connects
<1>2. fd \in Descriptors
  BY DEF Free
<1>3. fds' \in [Descriptors -> SocketStates \cup {"free"}]
  BY <1>1 DEF Opens, TypeOK, SocketStates
<1>4. QED
  BY <1>1, <1>2, <1>3, RegisteredType DEF Connects

LEMMA FailsType ==
  ASSUME TypeOK, NEW left, FailsToConnect(left)
  PROVE  /\ fds' \in [Descriptors -> SocketStates \cup {"free"}]
         /\ arrived' = arrived /\ failures' \in 0..MaxFailures
  BY DEF FailsToConnect, Opens, TypeOK, SocketStates

LEMMA ReconnectHelperType ==
  ASSUME TypeOK, NEW map \in [Files -> 0..(Width - 1)], NEW clock \in {"off", "running", "elapsed"},
         reconnect_helper(map, clock)
  PROVE  /\ sock' \in Descriptors \cup {NoSock}
         /\ watched' \in [Files -> 0..(Width - 1)]
         /\ timer' \in {"off", "running", "elapsed"}
         /\ fds' \in [Descriptors -> SocketStates \cup {"free"}]
         /\ arrived' \in BOOLEAN /\ failures' \in 0..MaxFailures
<1>1. CASE Connects /\ timer' = clock
  BY <1>1, ConnectsType DEF TypeOK
<1>2. CASE /\ \E left \in Descriptors \cup {NoSock} : FailsToConnect(left)
           /\ sock' = NoSock /\ watched' = map /\ timer' = "running"
  BY <1>2, FailsType DEF TypeOK
<1>3. QED
  BY <1>1, <1>2 DEF reconnect_helper

LEMMA StepType == TypeOK /\ [Next]_vars => TypeOK'
<1> SUFFICES ASSUME TypeOK, [Next]_vars PROVE TypeOK'
  OBVIOUS
<1> USE DEF TypeOK, ProcessTypeOK
<1>a. \A t \in Tasks : LET posted == PostTo(taskQueue, t) IN
        posted \in Seq(Tasks) /\ NoTaskTwice(posted)
  BY PostToQueue
<1>b. taskQueue # <<>> => Tail(taskQueue) \in Seq(Tasks) /\ NoTaskTwice(Tail(taskQueue))
  BY TailQueue
<1>1. CASE TimerTask
  <2>1. CASE timer = "elapsed"
    <3>1. reconnect_helper(watched, "off")
      BY <1>1, <2>1 DEF TimerTask
    <3>2. QED
      BY <1>1, <1>b, <3>1, ReconnectHelperType DEF TimerTask, Runs
  <2>2. CASE timer # "elapsed"
    BY <1>1, <1>b, <2>2 DEF TimerTask, Runs
  <2>3. QED
    BY <2>1, <2>2
<1>2. CASE ReconnectTask
  <2>1. CASE sock # NoSock
    <3>1. reconnect_helper(unregistered(TcpFile), timer)
      BY <1>2, <2>1 DEF ReconnectTask
    <3>2. QED
      BY <1>2, <1>b, <3>1, UnregisteredType, ReconnectHelperType DEF ReconnectTask, Runs
  <2>2. CASE sock = NoSock
    BY <1>2, <1>b, <2>2 DEF ReconnectTask, Runs
  <2>3. QED
    BY <2>1, <2>2
<1>3. CASE ReceiveTask
  BY <1>3, <1>b DEF ReceiveTask, Runs, tcpVars, kernelVars
<1>4. CASE ReceiveReady
  <2>1. main' \in {"running", "dispatch"} /\ pending' \in SUBSET Files
    BY <1>4 DEF ReceiveReady, Tells
  <2>2. taskQueue' \in Seq(Tasks) /\ NoTaskTwice(taskQueue')
    BY <1>4, <1>a DEF ReceiveReady
  <2>3. arrived' \in BOOLEAN /\ alive' \in BOOLEAN
    BY <1>4, Zenon DEF ReceiveReady
  <2>5. unread' \in Nat
    BY <1>4 DEF ReceiveReady
  <2>4. QED
    BY <1>4, <2>1, <2>2, <2>3, <2>5 DEF ReceiveReady, tcpVars
<1>5. CASE OtherReceiveReady
  BY <1>5 DEF OtherReceiveReady, Tells, tcpVars, history
<1>6. CASE Sleeps
  BY <1>6 DEF Sleeps, FallAsleep, CallSelect, tcpVars, kernelVars, history
<1>7. CASE Wakes \/ WakesForNothing
  BY <1>7 DEF Wakes, WakesForNothing, SelectReturns, Selected, tcpVars, kernelVars, history
<1>8. CASE TakesAlarm
  BY <1>8, <1>a DEF TakesAlarm, Alarm, tcpVars, kernelVars, history
<1>9. CASE connect
  <2>1. CASE Connects /\ asked' = "connected"
    BY <1>9, <2>1, ConnectsType DEF connect
  <2>2. CASE /\ \E left \in Descriptors \cup {NoSock} : FailsToConnect(left) /\ sock' = left
             /\ asked' = "failed" /\ UNCHANGED watched
    BY <1>9, <2>2, FailsType DEF connect
  <2>3. QED
    BY <1>9, <2>1, <2>2 DEF connect
<1>10. CASE close
  BY <1>10, UnregisteredType DEF close
<1>11. CASE send
  BY <1>11 DEF send, SocketStates, processVars, tcpVars, history
<1>12. CASE HostGoesDown
  <2>1. fds' \in [Descriptors -> SocketStates \cup {"free"}]
    BY <1>12 DEF HostGoesDown, SocketStates
  <2>2. QED
    <3>1. losses' \in 0..MaxLosses
      BY <1>12 DEF HostGoesDown
    <3>2. hostUp' \in BOOLEAN
      BY <1>12, Zenon DEF HostGoesDown
    <3>3. QED
      BY <1>12, <2>1, <3>1, <3>2, Zenon DEF HostGoesDown, processVars, tcpVars
<1>13. CASE HostComesUp \/ BytesArrive \/ OtherInputArrives \/ TimerElapses
  <2>1. CASE HostComesUp
    BY <2>1, Zenon DEF HostComesUp, processVars, tcpVars, history
  <2>2. CASE BytesArrive
    BY <2>2, Zenon DEF BytesArrive, processVars, tcpVars, history
  <2>3. CASE OtherInputArrives
    BY <2>3, Zenon DEF OtherInputArrives, processVars, tcpVars, history
  <2>4. CASE TimerElapses
    BY <2>4, Zenon DEF TimerElapses, kernelVars, history
  <2>5. QED
    BY <1>13, <2>1, <2>2, <2>3, <2>4
<1>14. CASE UNCHANGED vars
  BY <1>14 DEF vars, processVars, tcpVars, kernelVars, history
<1>15. QED
  BY <1>1, <1>2, <1>3, <1>4, <1>5, <1>6, <1>7, <1>8, <1>9, <1>10, <1>11, <1>12, <1>13, <1>14,
     NextCases

\* Types: the queue never holds a task twice, a descriptor fits its entry of the
\* map, and the timer, the sockets and the counters stay in their ranges
\* (IOManagerP.nc:35, PersistentTcpConnectionP.nc:39).
THEOREM TcpTypeCorrect == Spec => []TypeOK
  BY InitType, StepType, PTL DEF Spec

-----------------------------------------------------------------------------
\* The strengthening: handlers are told only in the dispatch loop, and whatever
\* can make the component connect again belongs to a connection that the
\* application wants.
InDispatch == pending # {} => main = "dispatch"
Wanted ==
  /\ watched[TcpFile] # Nothing => asked = "connected"
  /\ Posted("reconnect") /\ sock # NoSock => asked = "connected"

ConnectionInv == WatchesItsSocket /\ WaitsWithoutSocket /\ ClosedStaysClosed /\ Wanted /\ InDispatch

LEMMA InitConnection == Init => ConnectionInv
  BY DEF Init, ConnectionInv, WatchesItsSocket, WaitsWithoutSocket, ClosedStaysClosed, Wanted,
         InDispatch, Posted, Queued

\* A successful connect gives the component a new, open, watched socket.
LEMMA ConnectsWatched ==
  ASSUME TypeOK, Tame, Connects
  PROVE  /\ sock' \in Descriptors /\ sock' # NoSock
         /\ watched'[TcpFile] = sock' /\ sock' # Nothing
         /\ fds'[sock'] = "open"
<1>1. PICK fd \in Free : Opens(fd, "open") /\ sock' = fd /\ watched' = registered(TcpFile, fd)
  BY DEF Connects
<1>2. fd \in Descriptors /\ fd # NoSock /\ fd # Nothing /\ fd % Width = fd
  BY DEF Free, Tame, Nothing
<1>3. watched'[TcpFile] = fd
  BY <1>1, <1>2 DEF registered, TypeOK, ProcessTypeOK
<1>4. fds'[fd] = "open"
  BY <1>1, <1>2 DEF Opens, TypeOK
<1>5. QED
  BY <1>1, <1>2, <1>3, <1>4

LEMMA UnregisteredFile ==
  ASSUME TypeOK
  PROVE  unregistered(TcpFile)[TcpFile] = Nothing
  BY DEF unregistered, TypeOK, ProcessTypeOK

\* An attempt on behalf of an application that wants the connection.
LEMMA ReconnectHelperInv ==
  ASSUME TypeOK, Tame, NEW map, map[TcpFile] = Nothing, NEW clock, clock = "off",
         reconnect_helper(map, clock), asked = "connected", asked' = asked,
         pending = {}, pending' = {}
  PROVE  ConnectionInv'
<1>1. CASE Connects /\ timer' = clock
  BY <1>1, ConnectsWatched
  DEF ConnectionInv, WatchesItsSocket, WaitsWithoutSocket, ClosedStaysClosed, Wanted, InDispatch
<1>2. CASE sock' = NoSock /\ watched' = map /\ timer' = "running"
  BY <1>2
  DEF ConnectionInv, WatchesItsSocket, WaitsWithoutSocket, ClosedStaysClosed, Wanted, InDispatch
<1>3. QED
  BY <1>1, <1>2 DEF reconnect_helper

LEMMA StepConnection ==
  ASSUME TypeOK, Tame, ConnectionInv, [Next]_vars
  PROVE  ConnectionInv'
<1> USE DEF ConnectionInv
<1>a. WatchesItsSocket /\ WaitsWithoutSocket /\ ClosedStaysClosed /\ Wanted /\ InDispatch
  OBVIOUS
<1>b. taskQueue # <<>> => \A t : Queued(Tail(taskQueue), t) => Queued(taskQueue, t)
  BY TailQueue DEF TypeOK, ProcessTypeOK
<1>c. \A t \in Tasks : \A u : Queued(PostTo(taskQueue, t), u) => Queued(taskQueue, u) \/ u = t
  BY PostToQueue DEF TypeOK, ProcessTypeOK
\* A step that leaves the connection alone, and posts no reconnect_task.
<1>d. ASSUME UNCHANGED <<sock, timer, fds, watched, asked>>,
             InDispatch', TcpFile \in pending' => watched[TcpFile] # Nothing,
             Posted("reconnect")' => Posted("reconnect")
      PROVE  ConnectionInv'
  BY <1>a, <1>d DEF WatchesItsSocket, WaitsWithoutSocket, ClosedStaysClosed, Wanted
<1>1. CASE TimerTask
  <2>1. pending = {} /\ pending' = {} /\ asked' = asked
    BY <1>1, <1>a DEF TimerTask, Runs, InDispatch
  <2>2. CASE timer = "elapsed"
    <3>1. asked = "connected" /\ watched[TcpFile] = Nothing
      BY <2>2, <1>a DEF WaitsWithoutSocket, WatchesItsSocket
    <3>2. reconnect_helper(watched, "off")
      BY <1>1, <2>2 DEF TimerTask
    <3>3. QED
      BY <2>1, <3>1, <3>2, ReconnectHelperInv
  <2>3. CASE timer # "elapsed"
    <3>1. Posted("reconnect")' => Posted("reconnect")
      BY <1>1, <1>b DEF TimerTask, Runs, Posted
    <3>2. QED
      BY <1>1, <1>d, <2>1, <2>3, <3>1 DEF TimerTask, InDispatch
  <2>4. QED
    BY <2>2, <2>3
<1>2. CASE ReconnectTask
  <2>1. pending = {} /\ pending' = {} /\ asked' = asked
    BY <1>2, <1>a DEF ReconnectTask, Runs, InDispatch
  <2>2. Posted("reconnect")
    <3>1. taskQueue # <<>> /\ Head(taskQueue) = "reconnect" /\ taskQueue \in Seq(Tasks)
      BY <1>2 DEF ReconnectTask, Runs, TypeOK, ProcessTypeOK
    <3>2. 1 \in 1..Len(taskQueue) /\ taskQueue[1] = "reconnect"
      BY <3>1
    <3>3. QED
      BY <3>2 DEF Posted, Queued
  <2>3. CASE sock # NoSock
    <3>1. asked = "connected" /\ timer = "off"
      BY <1>a, <2>2, <2>3 DEF Wanted, WaitsWithoutSocket
    <3>2. reconnect_helper(unregistered(TcpFile), timer)
      BY <1>2, <2>3 DEF ReconnectTask
    <3>3. QED
      BY <2>1, <3>1, <3>2, UnregisteredFile, ReconnectHelperInv
  <2>4. CASE sock = NoSock
    BY <1>2, <1>d, <2>1, <2>2, <2>4 DEF ReconnectTask, InDispatch
  <2>5. QED
    BY <2>3, <2>4
<1>3. CASE ReceiveTask
  <2>1. Posted("reconnect")' => Posted("reconnect")
    BY <1>3, <1>b DEF ReceiveTask, Runs, Posted
  <2>2. pending = {} /\ pending' = {}
    BY <1>3, <1>a DEF ReceiveTask, Runs, InDispatch
  <2>3. QED
    BY <1>3, <1>d, <2>1, <2>2 DEF ReceiveTask, tcpVars, kernelVars, InDispatch
<1>4. CASE ReceiveReady
  <2>1. /\ asked = "connected" /\ UNCHANGED <<sock, timer, fds, watched, asked>>
        /\ pending' \subseteq pending /\ watched[TcpFile] # Nothing
    BY <1>4, <1>a DEF ReceiveReady, Tells, WatchesItsSocket, Wanted, tcpVars
  <2>2. InDispatch'
    BY <1>4 DEF ReceiveReady, Tells, InDispatch
  <2>3. QED
    BY <1>a, <2>1, <2>2 DEF WatchesItsSocket, WaitsWithoutSocket, ClosedStaysClosed, Wanted
<1>5. CASE OtherReceiveReady
  <2>1. InDispatch' /\ pending' \subseteq pending
    BY <1>5 DEF OtherReceiveReady, Tells, InDispatch
  <2>2. TcpFile \in pending' => watched[TcpFile] # Nothing
    BY <1>a, <2>1 DEF WatchesItsSocket
  <2>3. QED
    BY <1>5, <1>d, <2>1, <2>2 DEF OtherReceiveReady, tcpVars, history, Posted
<1>6. CASE Sleeps
  <2>1. pending = {} /\ pending' = {}
    BY <1>6, <1>a DEF Sleeps, FallAsleep, CallSelect, InDispatch
  <2>2. QED
    BY <1>6, <1>d, <2>1
    DEF Sleeps, FallAsleep, CallSelect, InDispatch, Posted, tcpVars, kernelVars, history
<1>7. CASE Wakes \/ WakesForNothing
  <2>1. pending' \subseteq Selected /\ main' = "dispatch"
    BY <1>7 DEF Wakes, WakesForNothing, SelectReturns
  <2>2. TcpFile \in pending' => watched[TcpFile] # Nothing
    BY <2>1 DEF Selected
  <2>3. QED
    BY <1>7, <1>d, <2>1, <2>2
    DEF Wakes, WakesForNothing, SelectReturns, InDispatch, Posted, tcpVars, kernelVars, history
<1>8. CASE TakesAlarm
  <2>1. Posted("reconnect")' => Posted("reconnect")
    BY <1>8, <1>c DEF TakesAlarm, Alarm, Posted
  <2>2. InDispatch' /\ pending' = pending
    BY <1>8, <1>a DEF TakesAlarm, Alarm, InDispatch
  <2>3. QED
    BY <1>8, <1>a, <1>d, <2>1, <2>2
    DEF TakesAlarm, Alarm, WatchesItsSocket, tcpVars, kernelVars, history
<1>9. CASE connect
  <2>1. /\ asked # "connected" /\ ~Posted("reconnect") /\ timer' = timer
        /\ taskQueue' = taskQueue /\ pending' = pending /\ main' = main
    BY <1>9 DEF connect, Tame
  <2>2. watched[TcpFile] = Nothing /\ TcpFile \notin pending /\ timer = "off"
    BY <1>a, <2>1 DEF Wanted, WatchesItsSocket, WaitsWithoutSocket
  <2>3. InDispatch' /\ ~Posted("reconnect")'
    BY <1>a, <2>1 DEF InDispatch, Posted
  <2>4. CASE Connects /\ asked' = "connected"
    BY <2>1, <2>2, <2>3, <2>4, ConnectsWatched
    DEF WatchesItsSocket, WaitsWithoutSocket, ClosedStaysClosed, Wanted
  <2>5. CASE asked' = "failed" /\ UNCHANGED watched
    BY <2>1, <2>2, <2>3, <2>5 DEF WatchesItsSocket, WaitsWithoutSocket, ClosedStaysClosed, Wanted
  <2>6. QED
    BY <1>9, <2>4, <2>5 DEF connect
<1>10. CASE close
  <2>1. timer = "off" /\ timer' = "off" /\ sock' = NoSock /\ asked' = "nothing"
    BY <1>10, <1>a DEF close, WaitsWithoutSocket
  <2>2. pending = {} /\ pending' = {}
    BY <1>10, <1>a DEF close, InDispatch
  <2>3. watched'[TcpFile] = Nothing
    BY <1>10, UnregisteredFile DEF close
  <2>4. QED
    BY <2>1, <2>2, <2>3
    DEF WatchesItsSocket, WaitsWithoutSocket, ClosedStaysClosed, Wanted, InDispatch
<1>11. CASE send
  <2>1. fds' = fds \/ fds' = [fds EXCEPT ![sock] = "broken"]
    BY <1>11 DEF send
  <2>2. QED
    BY <1>11, <1>a, <2>1
    DEF send, TypeOK, WatchesItsSocket, WaitsWithoutSocket, ClosedStaysClosed, Wanted,
        InDispatch, Posted, processVars, tcpVars, history
<1>12. CASE HostGoesDown
  <2>1. PICK how \in {"eof", "reset"} :
          fds' = [fd \in Descriptors |-> IF fds[fd] = "open" THEN how ELSE fds[fd]]
    BY <1>12 DEF HostGoesDown
  <2>2. \A fd \in Descriptors : fds[fd] \notin {"free", "idle"} => fds'[fd] \notin {"free", "idle"}
    BY <2>1
  <2>3. QED
    BY <1>12, <1>a, <2>2
    DEF HostGoesDown, TypeOK, WatchesItsSocket, WaitsWithoutSocket, ClosedStaysClosed, Wanted,
        InDispatch, Posted, processVars, tcpVars
<1>13. CASE HostComesUp \/ BytesArrive \/ OtherInputArrives
  BY <1>13, <1>a, <1>d
  DEF HostComesUp, BytesArrive, OtherInputArrives, WatchesItsSocket, InDispatch, Posted,
      processVars, tcpVars, history
<1>14. CASE TimerElapses
  BY <1>14, <1>a
  DEF TimerElapses, WatchesItsSocket, WaitsWithoutSocket, ClosedStaysClosed, Wanted, InDispatch,
      Posted, kernelVars, history
<1>15. CASE UNCHANGED vars
  BY <1>15, <1>a, <1>d
  DEF vars, WatchesItsSocket, InDispatch, Posted, processVars, tcpVars, kernelVars, history
<1>16. QED
  BY <1>1, <1>2, <1>3, <1>4, <1>5, <1>6, <1>7, <1>8, <1>9, <1>10, <1>11, <1>12, <1>13, <1>14, <1>15,
     NextCases

\* select() never watches a closed, replaced or unconnected socket
\* (PersistentTcpConnectionP.nc:63-71, 124, 156-171).
THEOREM WatchesItsSocketAlways == ASSUME Tame PROVE Spec => []WatchesItsSocket
<1>1. Init => TypeOK /\ ConnectionInv
  BY InitType, InitConnection
<1>2. TypeOK /\ ConnectionInv /\ [Next]_vars => (TypeOK /\ ConnectionInv)'
  BY StepType, StepConnection
<1>3. ConnectionInv => WatchesItsSocket
  BY DEF ConnectionInv
<1>4. QED
  BY <1>1, <1>2, <1>3, PTL DEF Spec

\* A component that waits to connect again has no socket
\* (PersistentTcpConnectionP.nc:48-59).
THEOREM WaitsWithoutSocketAlways == ASSUME Tame PROVE Spec => []WaitsWithoutSocket
<1>1. Init => TypeOK /\ ConnectionInv
  BY InitType, InitConnection
<1>2. TypeOK /\ ConnectionInv /\ [Next]_vars => (TypeOK /\ ConnectionInv)'
  BY StepType, StepConnection
<1>3. ConnectionInv => WaitsWithoutSocket
  BY DEF ConnectionInv
<1>4. QED
  BY <1>1, <1>2, <1>3, PTL DEF Spec

\* A closed connection stays closed, whatever was posted or pending when it was
\* closed (PersistentTcpConnectionP.nc:64, 156-171).
THEOREM ClosedStaysClosedAlways == ASSUME Tame PROVE Spec => []ClosedStaysClosed
<1>1. Init => TypeOK /\ ConnectionInv
  BY InitType, InitConnection
<1>2. TypeOK /\ ConnectionInv /\ [Next]_vars => (TypeOK /\ ConnectionInv)'
  BY StepType, StepConnection
<1>3. ConnectionInv => ClosedStaysClosed
  BY DEF ConnectionInv
<1>4. QED
  BY <1>1, <1>2, <1>3, PTL DEF Spec

-----------------------------------------------------------------------------
\* The strengthening: the process does not sleep, and does not read the socket,
\* before receive_task has run.
HandedUp == main \in {"enabled", "select"} \/ TcpFile \in pending => ~Posted("receive")
HandInv == NothingOverwritten /\ HandedUp /\ InDispatch

LEMMA InitHand == Init => HandInv
  BY DEF Init, HandInv, NothingOverwritten, HandedUp, InDispatch, Posted, Queued

LEMMA StepHand ==
  ASSUME TypeOK, HandInv, [Next]_vars
  PROVE  HandInv'
<1>a. NothingOverwritten /\ HandedUp /\ InDispatch
  BY DEF HandInv
<1>b. taskQueue # <<>> =>
        \A t : Queued(Tail(taskQueue), t) <=> Queued(taskQueue, t) /\ t # Head(taskQueue)
  BY TailQueue DEF TypeOK, ProcessTypeOK
<1>c. \A t \in Tasks : \A u : Queued(PostTo(taskQueue, t), u) <=> Queued(taskQueue, u) \/ u = t
  BY PostToQueue DEF TypeOK, ProcessTypeOK
<1>d. unread \in Nat /\ pending \in SUBSET Files
  BY DEF TypeOK, ProcessTypeOK
\* A step that neither reads the socket nor touches receive_task.
<1>e. ASSUME unread' = unread, Posted("receive")' <=> Posted("receive"), HandedUp', InDispatch'
      PROVE  HandInv'
  BY <1>a, <1>e DEF HandInv, NothingOverwritten
<1>1. CASE TimerTask \/ ReconnectTask
  <2>1. Posted("receive")' <=> Posted("receive")
    BY <1>1, <1>b DEF TimerTask, ReconnectTask, Runs, Posted
  <2>2. pending' = {} /\ main' = "running" /\ unread' = unread
    BY <1>1, <1>a DEF TimerTask, ReconnectTask, Runs, InDispatch
  <2>3. QED
    BY <1>e, <2>1, <2>2 DEF HandedUp, InDispatch
<1>2. CASE ReceiveTask
  <2>1. ~Posted("receive")' /\ unread' = 0
    BY <1>2, <1>b DEF ReceiveTask, Runs, Posted
  <2>2. InDispatch'
    BY <1>2, <1>a DEF ReceiveTask, Runs, InDispatch
  <2>3. QED
    BY <2>1, <2>2 DEF HandInv, NothingOverwritten, HandedUp
<1>3. CASE ReceiveReady
  <2>1. ~Posted("receive") /\ unread = 0
    BY <1>3, <1>a, <1>d DEF ReceiveReady, Tells, HandedUp, NothingOverwritten
  <2>2. TcpFile \notin pending' /\ main' \notin {"enabled", "select"} /\ InDispatch'
    BY <1>3 DEF ReceiveReady, Tells, InDispatch
  <2>3. CASE unread' = unread + 1 /\ taskQueue' = PostTo(taskQueue, "receive")
    BY <1>c, <2>1, <2>2, <2>3 DEF HandInv, HandedUp, NothingOverwritten, Posted
  <2>4. CASE unread' = unread /\ taskQueue' \in {taskQueue, PostTo(taskQueue, "reconnect")}
    BY <1>c, <2>1, <2>2, <2>4 DEF HandInv, HandedUp, NothingOverwritten, Posted
  <2>5. QED
    BY <1>3, <2>3, <2>4 DEF ReceiveReady
<1>4. CASE OtherReceiveReady
  <2>1. /\ pending' \subseteq pending /\ main' \notin {"enabled", "select"} /\ InDispatch'
        /\ unread' = unread /\ taskQueue' = taskQueue
    BY <1>4 DEF OtherReceiveReady, Tells, InDispatch, history
  <2>2. QED
    BY <1>a, <1>e, <2>1 DEF HandedUp, Posted
<1>5. CASE Sleeps
  <2>1. unread' = unread /\ taskQueue' = taskQueue /\ pending' = {}
    BY <1>5, <1>a DEF Sleeps, FallAsleep, CallSelect, InDispatch, history
  <2>2. ~Posted("receive")
    BY <1>5, <1>a DEF Sleeps, FallAsleep, CallSelect, HandedUp, Posted, Queued
  <2>3. QED
    BY <1>e, <2>1, <2>2 DEF HandedUp, InDispatch, Posted
<1>6. CASE Wakes \/ WakesForNothing
  <2>1. unread' = unread /\ taskQueue' = taskQueue /\ main = "select" /\ main' = "dispatch"
    BY <1>6 DEF Wakes, WakesForNothing, SelectReturns, history
  <2>2. QED
    BY <1>a, <1>e, <2>1 DEF HandedUp, InDispatch, Posted
<1>7. CASE TakesAlarm
  <2>1. unread' = unread /\ pending' = pending /\ taskQueue' = PostTo(taskQueue, "timer")
    BY <1>7 DEF TakesAlarm, Alarm, history
  <2>2. main' = main \/ (main = "select" /\ main' = "running")
    BY <1>7 DEF TakesAlarm, Alarm
  <2>3. Posted("receive")' <=> Posted("receive")
    BY <1>c, <2>1 DEF Posted
  <2>4. QED
    BY <1>a, <1>e, <2>1, <2>2, <2>3 DEF HandedUp, InDispatch
<1>8. CASE UNCHANGED <<main, taskQueue, pending, unread>>
  BY <1>8, <1>a, <1>e DEF HandedUp, InDispatch, Posted
<1>9. connect \/ close \/ send \/ HostGoesDown \/ HostComesUp \/ BytesArrive \/ OtherInputArrives
        \/ TimerElapses \/ UNCHANGED vars => UNCHANGED <<main, taskQueue, pending, unread>>
  BY DEF connect, close, send, HostGoesDown, HostComesUp, BytesArrive, OtherInputArrives,
         TimerElapses, vars, processVars, history
<1>10. QED
  BY <1>1, <1>2, <1>3, <1>4, <1>5, <1>6, <1>7, <1>8, <1>9, NextCases

\* The bytes of a read are handed up before the next read overwrites them: the
\* process goes back to select() only when no task is left
\* (PersistentTcpConnectionP.nc:173-179, 210-213).
THEOREM NothingOverwrittenEver == Spec => []NothingOverwritten
<1>1. Init => TypeOK /\ HandInv
  BY InitType, InitHand
<1>2. TypeOK /\ HandInv /\ [Next]_vars => (TypeOK /\ HandInv)'
  BY StepType, StepHand
<1>3. HandInv => NothingOverwritten
  BY DEF HandInv
<1>4. QED
  BY <1>1, <1>2, <1>3, PTL DEF Spec

-----------------------------------------------------------------------------
\* The strengthening: the only open socket is the present one, which nothing is
\* about to replace, and each dead one is paid for by a failure or a loss.
Dead == {fd \in Descriptors : fds[fd] \notin {"free", "open"}}
NoneOpen == \A fd \in Descriptors : fds[fd] # "open"
OpenIsPresent ==
  \A fd \in Descriptors :
    fds[fd] = "open" => fd = sock /\ asked = "connected" /\ ~Posted("reconnect")
TimerAlone == timer # "off" => ~Posted("reconnect")
DeadAreLosses == Cardinality(Dead) <= failures + losses
LeakInv == OpenIsPresent /\ TimerAlone /\ DeadAreLosses

LEMMA DescriptorsFinite ==
  ASSUME Tame
  PROVE  IsFiniteSet(Descriptors) /\ \A S \in SUBSET Descriptors : IsFiniteSet(S) /\ Cardinality(S) \in Nat
<1>1. IsFiniteSet(2..(Width - 1))
  BY FS_Interval
<1>2. IsFiniteSet(Descriptors)
  BY <1>1, FS_Subset DEF Tame
<1>3. QED
  BY <1>2, FS_Subset, FS_CardinalityType

LEMMA OneMore ==
  ASSUME NEW S, NEW x, IsFiniteSet(S)
  PROVE  /\ IsFiniteSet(S \cup {x})
         /\ Cardinality(S \cup {x}) \in Nat
         /\ Cardinality(S \cup {x}) <= Cardinality(S) + 1
<1>1. Cardinality(S) \in Nat
  BY FS_CardinalityType
<1>2. IsFiniteSet(S \cup {x}) /\ Cardinality(S \cup {x}) \in {Cardinality(S), Cardinality(S) + 1}
  BY FS_AddElement
<1>3. QED
  BY <1>1, <1>2

LEMMA InitLeak == ASSUME Tame PROVE Init => LeakInv
<1> SUFFICES ASSUME Init PROVE LeakInv
  OBVIOUS
<1>1. Dead = {} /\ OpenIsPresent /\ TimerAlone
  BY DEF Init, Dead, OpenIsPresent, TimerAlone
<1>2. failures + losses = 0
  BY DEF Init
<1>3. QED
  BY <1>1, <1>2, FS_EmptySet DEF LeakInv, DeadAreLosses

\* A connect that succeeds while no socket is open.
LEMMA ConnectsLeak ==
  ASSUME TypeOK, Tame, Connects, NoneOpen, DeadAreLosses, losses' = losses
  PROVE  DeadAreLosses' /\ \A fd \in Descriptors : fds'[fd] = "open" => fd = sock'
<1>1. PICK fd \in Free : Opens(fd, "open") /\ sock' = fd
  BY DEF Connects
<1>2. fd \in Descriptors /\ fds[fd] = "free" /\ fds' = [fds EXCEPT ![fd] = "open"]
  BY <1>1 DEF Free, Opens
<1>3. Dead' = Dead /\ failures' = failures
  BY <1>2 DEF Dead, TypeOK, Connects
<1>4. \A other \in Descriptors : fds'[other] = "open" => other = fd
  BY <1>2 DEF TypeOK, NoneOpen
<1>5. QED
  BY <1>1, <1>3, <1>4 DEF DeadAreLosses

\* A connect that fails while no socket is open.
LEMMA FailsLeak ==
  ASSUME TypeOK, Tame, NEW left, FailsToConnect(left), NoneOpen, DeadAreLosses, losses' = losses
  PROVE  DeadAreLosses' /\ NoneOpen'
<1>1. CASE UNCHANGED <<fds, failures>>
  BY <1>1 DEF DeadAreLosses, Dead, NoneOpen
<1>2. CASE failures' = failures + 1 /\ left \in Free /\ Opens(left, "idle")
  <2>1. left \in Descriptors /\ fds' = [fds EXCEPT ![left] = "idle"]
    BY <1>2 DEF Free, Opens
  <2>2. Dead' = Dead \cup {left} /\ Dead \in SUBSET Descriptors
    BY <2>1 DEF Dead, TypeOK
  <2>3. IsFiniteSet(Dead) /\ Cardinality(Dead) \in Nat
    BY <2>2, DescriptorsFinite
  <2>4. Cardinality(Dead') <= Cardinality(Dead) + 1
    BY <2>2, <2>3, OneMore
  <2>5. NoneOpen'
    BY <2>1 DEF NoneOpen, TypeOK
  <2>6. Cardinality(Dead') \in Nat
    BY <2>2, <2>3, OneMore
  <2>7. failures \in Nat /\ losses \in Nat
    BY DEF TypeOK
  <2>8. QED
    BY <1>2, <2>3, <2>4, <2>5, <2>6, <2>7 DEF DeadAreLosses
<1>3. QED
  BY <1>1, <1>2 DEF FailsToConnect

LEMMA HelperLeak ==
  ASSUME TypeOK, Tame, NEW map, NEW clock, reconnect_helper(map, clock), NoneOpen, DeadAreLosses,
         losses' = losses, asked' = "connected", ~Posted("reconnect")'
  PROVE  LeakInv'
<1>1. CASE Connects
  BY <1>1, ConnectsLeak DEF LeakInv, OpenIsPresent, TimerAlone
<1>2. CASE \E left \in Descriptors \cup {NoSock} : FailsToConnect(left)
  <2>1. DeadAreLosses' /\ NoneOpen'
    BY <1>2, FailsLeak
  <2>2. QED
    BY <2>1 DEF LeakInv, OpenIsPresent, TimerAlone, NoneOpen
<1>3. QED
  BY <1>1, <1>2 DEF reconnect_helper

LEMMA StepLeak ==
  ASSUME TypeOK, Tame, ConnectionInv, LeakInv, [Next]_vars
  PROVE  LeakInv'
<1>a. OpenIsPresent /\ TimerAlone /\ DeadAreLosses
  BY DEF LeakInv
<1>i. WatchesItsSocket /\ WaitsWithoutSocket /\ ClosedStaysClosed /\ Wanted
  BY DEF ConnectionInv
<1>b. taskQueue # <<>> =>
        \A t : Queued(Tail(taskQueue), t) <=> Queued(taskQueue, t) /\ t # Head(taskQueue)
  BY TailQueue DEF TypeOK, ProcessTypeOK
<1>c. \A t \in Tasks : \A u : Queued(PostTo(taskQueue, t), u) <=> Queued(taskQueue, u) \/ u = t
  BY PostToQueue DEF TypeOK, ProcessTypeOK
\* A step that leaves the sockets alone, and posts no reconnect_task.
<1>d. ASSUME UNCHANGED <<sock, fds, asked, failures, losses>>, timer' # "off" => timer # "off",
             Posted("reconnect")' => Posted("reconnect")
      PROVE  LeakInv'
  BY <1>a, <1>d DEF LeakInv, OpenIsPresent, TimerAlone, DeadAreLosses, Dead
<1>1. CASE TimerTask
  <2>1. asked' = asked /\ losses' = losses
    BY <1>1 DEF TimerTask
  <2>2. Posted("reconnect")' => Posted("reconnect")
    BY <1>1, <1>b DEF TimerTask, Runs, Posted
  <2>3. CASE timer = "elapsed"
    <3>1. asked = "connected" /\ sock = NoSock /\ ~Posted("reconnect")
      BY <1>a, <1>i, <2>3 DEF WaitsWithoutSocket, TimerAlone
    <3>2. NoneOpen
      BY <1>a, <3>1 DEF OpenIsPresent, NoneOpen
    <3>3. reconnect_helper(watched, "off")
      BY <1>1, <2>3 DEF TimerTask
    <3>4. QED
      BY <1>a, <2>1, <2>2, <3>1, <3>2, <3>3, HelperLeak
  <2>4. CASE timer # "elapsed"
    BY <1>1, <1>d, <2>1, <2>2, <2>4 DEF TimerTask
  <2>5. QED
    BY <2>3, <2>4
<1>2. CASE ReconnectTask
  <2>1. asked' = asked /\ losses' = losses
    BY <1>2 DEF ReconnectTask
  <2>2. Posted("reconnect") /\ ~Posted("reconnect")'
    <3>1. /\ taskQueue # <<>> /\ Head(taskQueue) = "reconnect" /\ taskQueue \in Seq(Tasks)
          /\ taskQueue' = Tail(taskQueue)
      BY <1>2 DEF ReconnectTask, Runs, TypeOK, ProcessTypeOK
    <3>2. 1 \in 1..Len(taskQueue) /\ taskQueue[1] = "reconnect"
      BY <3>1
    <3>3. QED
      BY <1>b, <3>1, <3>2 DEF Posted, Queued
  <2>3. CASE sock # NoSock
    <3>1. asked = "connected" /\ NoneOpen
      BY <1>a, <1>i, <2>2, <2>3 DEF Wanted, OpenIsPresent, NoneOpen
    <3>2. reconnect_helper(unregistered(TcpFile), timer)
      BY <1>2, <2>3 DEF ReconnectTask
    <3>3. QED
      BY <1>a, <2>1, <2>2, <3>1, <3>2, HelperLeak
  <2>4. CASE sock = NoSock
    BY <1>2, <1>d, <2>1, <2>2, <2>4 DEF ReconnectTask
  <2>5. QED
    BY <2>3, <2>4
<1>3. CASE ReceiveTask
  <2>1. Posted("reconnect")' => Posted("reconnect")
    BY <1>3, <1>b DEF ReceiveTask, Runs, Posted
  <2>2. QED
    BY <1>3, <1>d, <2>1 DEF ReceiveTask, tcpVars, kernelVars
<1>4. CASE ReceiveReady
  <2>1. UNCHANGED <<sock, timer, fds, asked, failures, losses>>
    BY <1>4 DEF ReceiveReady, tcpVars
  <2>2. CASE recv = "closed" /\ taskQueue' = PostTo(taskQueue, "reconnect")
    <3>1. sock # NoSock /\ fds[sock] # "open"
      BY <2>2 DEF recv
    <3>2. timer = "off"
      BY <1>i, <3>1 DEF WaitsWithoutSocket
    <3>3. NoneOpen
      BY <1>a, <3>1 DEF OpenIsPresent, NoneOpen
    <3>4. QED
      BY <1>a, <2>1, <3>2, <3>3 DEF LeakInv, OpenIsPresent, TimerAlone, DeadAreLosses, Dead, NoneOpen
  <2>3. CASE taskQueue' \in {taskQueue, PostTo(taskQueue, "receive")}
    <3>1. Posted("reconnect")' => Posted("reconnect")
      BY <1>c, <2>3 DEF Posted
    <3>2. QED
      BY <1>d, <2>1, <3>1
  <2>4. QED
    BY <1>4, <2>2, <2>3 DEF ReceiveReady
<1>5. CASE TakesAlarm
  <2>1. Posted("reconnect")' => Posted("reconnect")
    BY <1>5, <1>c DEF TakesAlarm, Alarm, Posted
  <2>2. QED
    BY <1>5, <1>d, <2>1 DEF TakesAlarm, tcpVars, kernelVars, history
<1>6. CASE connect
  <2>1. /\ asked # "connected" /\ ~Posted("reconnect") /\ UNCHANGED <<timer, taskQueue, losses>>
    BY <1>6 DEF connect, Tame
  <2>2. NoneOpen /\ ~Posted("reconnect")'
    BY <1>a, <2>1 DEF OpenIsPresent, NoneOpen, Posted
  <2>3. CASE Connects /\ asked' = "connected"
    BY <1>a, <2>1, <2>2, <2>3, ConnectsLeak DEF LeakInv, OpenIsPresent, TimerAlone
  <2>4. CASE \E left \in Descriptors \cup {NoSock} : FailsToConnect(left)
    <3>1. DeadAreLosses' /\ NoneOpen'
      BY <1>a, <2>1, <2>2, <2>4, FailsLeak
    <3>2. QED
      BY <2>2, <3>1 DEF LeakInv, OpenIsPresent, TimerAlone, NoneOpen
  <2>5. QED
    BY <1>6, <2>3, <2>4 DEF connect
<1>7. CASE close
  <2>1. /\ sock # NoSock /\ fds' = [fds EXCEPT ![sock] = "free"]
        /\ UNCHANGED <<timer, taskQueue, failures, losses>>
    BY <1>7 DEF close
  <2>2. sock \in Descriptors /\ Dead \in SUBSET Descriptors /\ Dead' \in SUBSET Dead
    BY <2>1 DEF TypeOK, Dead
  <2>3. NoneOpen'
    BY <1>a, <2>1, <2>2 DEF OpenIsPresent, NoneOpen, TypeOK
  <2>4. /\ Cardinality(Dead') <= Cardinality(Dead)
        /\ Cardinality(Dead') \in Nat /\ Cardinality(Dead) \in Nat
    BY <2>2, DescriptorsFinite, FS_Subset
  <2>5. DeadAreLosses'
    BY <1>a, <2>1, <2>4 DEF DeadAreLosses, TypeOK
  <2>6. QED
    BY <1>a, <2>1, <2>3, <2>5 DEF LeakInv, OpenIsPresent, TimerAlone, NoneOpen, Posted
<1>8. CASE send
  <2>1. /\ sock \in Descriptors /\ UNCHANGED <<sock, timer, taskQueue, asked, failures, losses>>
        /\ fds' = fds \/ (fds[sock] \in {"eof", "reset"} /\ fds' = [fds EXCEPT ![sock] = "broken"])
    BY <1>8 DEF send, processVars, tcpVars, history, TypeOK
  <2>2. Dead' = Dead /\ \A fd \in Descriptors : fds'[fd] = "open" => fds[fd] = "open"
    BY <2>1 DEF Dead, TypeOK
  <2>3. QED
    BY <1>a, <2>1, <2>2 DEF LeakInv, OpenIsPresent, TimerAlone, DeadAreLosses, Posted
<1>9. CASE HostGoesDown
  <2>1. UNCHANGED <<timer, taskQueue, failures>> /\ losses' = losses + 1
    BY <1>9 DEF HostGoesDown, processVars, tcpVars
  <2>2. PICK how \in {"eof", "reset"} :
          fds' = [fd \in Descriptors |-> IF fds[fd] = "open" THEN how ELSE fds[fd]]
    BY <1>9 DEF HostGoesDown
  <2>3. NoneOpen' /\ Dead' \in SUBSET (Dead \cup {sock}) /\ Dead \in SUBSET Descriptors
    BY <1>a, <2>2 DEF NoneOpen, Dead, OpenIsPresent
  <2>4. IsFiniteSet(Dead) /\ Cardinality(Dead) \in Nat
    BY <2>3, DescriptorsFinite
  <2>5. IsFiniteSet(Dead \cup {sock}) /\ Cardinality(Dead \cup {sock}) <= Cardinality(Dead) + 1
    BY <2>4, OneMore
  <2>6. /\ Cardinality(Dead') <= Cardinality(Dead \cup {sock})
        /\ Cardinality(Dead') \in Nat /\ Cardinality(Dead \cup {sock}) \in Nat
    BY <2>3, <2>5, FS_Subset, FS_CardinalityType
  <2>7. failures \in Nat /\ losses \in Nat
    BY DEF TypeOK
  <2>8. DeadAreLosses'
    BY <1>a, <2>1, <2>4, <2>5, <2>6, <2>7 DEF DeadAreLosses
  <2>9. QED
    BY <1>a, <2>1, <2>3, <2>8 DEF LeakInv, OpenIsPresent, TimerAlone, NoneOpen, Posted
<1>10. CASE TimerElapses
  BY <1>10, <1>d DEF TimerElapses, kernelVars, history, Posted
<1>11. CASE UNCHANGED <<taskQueue, tcpVars, fds, asked, failures, losses>>
  BY <1>11, <1>d DEF tcpVars, Posted
<1>12. QED
  <2>1. \/ OtherReceiveReady \/ Sleeps \/ Wakes \/ WakesForNothing
        \/ HostComesUp \/ BytesArrive \/ OtherInputArrives \/ UNCHANGED vars
        => UNCHANGED <<taskQueue, tcpVars, fds, asked, failures, losses>>
    BY DEF OtherReceiveReady, Sleeps, FallAsleep, CallSelect, Wakes, WakesForNothing, SelectReturns,
       HostComesUp, BytesArrive, OtherInputArrives, vars, processVars, kernelVars, history
  <2>2. QED
    BY <1>1, <1>2, <1>3, <1>4, <1>5, <1>6, <1>7, <1>8, <1>9, <1>10, <1>11, <2>1, NextCases

\* No more descriptors are in use than the present socket, one for each refused
\* connect and one for each lost connection
\* (PersistentTcpConnectionP.nc:66-68, 113-118).
THEOREM LeaksAreLossesAlways == ASSUME Tame PROVE Spec => []LeaksAreLosses
<1>1. Init => TypeOK /\ ConnectionInv /\ LeakInv
  BY InitType, InitConnection, InitLeak
<1>2. TypeOK /\ ConnectionInv /\ LeakInv /\ [Next]_vars => (TypeOK /\ ConnectionInv /\ LeakInv)'
  BY StepType, StepConnection, StepLeak
<1>3. ASSUME TypeOK, LeakInv PROVE LeaksAreLosses
  <2>1. OpenIsPresent /\ Cardinality(Dead) <= failures + losses
    BY <1>3 DEF LeakInv, DeadAreLosses
  <2>2. Descriptors \ Free \in SUBSET (Dead \cup {sock}) /\ Dead \in SUBSET Descriptors
    BY <2>1 DEF Free, Dead, OpenIsPresent
  <2>3. IsFiniteSet(Dead) /\ Cardinality(Dead) \in Nat
    BY <2>2, DescriptorsFinite
  <2>4. IsFiniteSet(Dead \cup {sock}) /\ Cardinality(Dead \cup {sock}) <= Cardinality(Dead) + 1
    BY <2>3, OneMore
  <2>5. /\ Cardinality(Descriptors \ Free) <= Cardinality(Dead \cup {sock})
        /\ Cardinality(Descriptors \ Free) \in Nat /\ Cardinality(Dead \cup {sock}) \in Nat
    BY <2>2, <2>4, FS_Subset, FS_CardinalityType
  <2>6. failures \in Nat /\ losses \in Nat
    BY <1>3 DEF TypeOK
  <2>7. QED
    BY <2>1, <2>3, <2>4, <2>5, <2>6 DEF LeaksAreLosses
<1>4. TypeOK /\ LeakInv => LeaksAreLosses
  BY <1>3
<1>5. QED
  BY <1>1, <1>2, <1>4, PTL DEF Spec
=============================================================================
