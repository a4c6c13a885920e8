----------------------- MODULE PersistentTcpConnectionP -----------------------
(***************************************************************************)
(* A TCP socket that connects again when it loses its connection, in the   *)
(* process of LinuxProcess, with an application that connects, closes and  *)
(* sends between any two tasks, and a remote host that comes and goes.     *)
(*                                                                         *)
(* The application calls connect only if its last connect failed or was    *)
(* closed; unless ConnectAtOnce, it does so after reconnect_task has run.  *)
(* One more file stands for everything else that the process watches.      *)
(***************************************************************************)
EXTENDS LinuxProcess

CONSTANTS
  TcpFile,        \* the file id of this component
  OtherFd,        \* the descriptor of the other files
  NoSock,         \* -1
  Resets,         \* a connection may also be lost with an error
  ConnectAtOnce,
  MaxFailures,    \* bound: connects refused while the host is down
  MaxLosses       \* bound: times the host goes down

ASSUME TcpAssumption ==
  /\ {"timer", "reconnect", "receive"} \subseteq Tasks
  /\ TcpFile \in Files
  /\ OtherFd \in 0..(Width - 1) /\ OtherFd # Nothing
  /\ NoSock \notin Descriptors
  /\ Resets \in BOOLEAN /\ ConnectAtOnce \in BOOLEAN
  /\ MaxFailures \in Nat /\ MaxLosses \in Nat

VARIABLES
  sock,
  timer,         \* ReconnectTimer: "off", "running", or "elapsed" and not handled
  \* The kernel and the remote host.
  fds,           \* what each descriptor is
  arrived,       \* bytes wait in the socket
  otherInput,    \* the other files have input
  hostUp,
  alive,         \* the process has not exited
  \* History.
  asked,         \* the application: "nothing" before connect and after close,
                 \* "failed" or "connected" by its last connect
  unread,        \* reads of the socket whose bytes were not handed up
  failures, losses

tcpVars == <<sock, timer>>
kernelVars == <<fds, arrived, otherInput, hostUp, alive>>
history == <<asked, unread, failures, losses>>
vars == <<processVars, tcpVars, kernelVars, history>>

\* A socket is "idle" until it is connected, "eof" when the host has closed it,
\* "reset" when the connection broke, and "broken" when a send has met either:
\* the next send raises SIGPIPE.
SocketStates == {"idle", "open", "eof", "reset", "broken"}

TypeOK ==
  /\ ProcessTypeOK
  /\ sock \in Descriptors \cup {NoSock}
  /\ timer \in {"off", "running", "elapsed"}
  /\ fds \in [Descriptors -> SocketStates \cup {"free"}]
  /\ arrived \in BOOLEAN /\ otherInput \in BOOLEAN
  /\ hostUp \in BOOLEAN /\ alive \in BOOLEAN
  /\ asked \in {"nothing", "failed", "connected"}
  /\ unread \in Nat
  /\ failures \in 0..MaxFailures
  /\ losses \in 0..MaxLosses

Init ==
  /\ main = "running"
  /\ taskQueue = <<>>
  /\ sigalrm = FALSE
  /\ watched = [f \in Files |-> IF f = TcpFile THEN Nothing ELSE OtherFd]
  /\ pending = {}
  /\ sock = NoSock
  /\ timer = "off"
  /\ fds = [fd \in Descriptors |-> "free"]
  /\ arrived = FALSE /\ otherInput = FALSE
  /\ hostUp = TRUE /\ alive = TRUE
  /\ asked = "nothing" /\ unread = 0 /\ failures = 0 /\ losses = 0

-----------------------------------------------------------------------------
\* The remote host and the kernel.
HostGoesDown ==
  /\ hostUp
  /\ losses < MaxLosses
  /\ hostUp' = FALSE
  /\ losses' = losses + 1
  /\ \E how \in IF Resets THEN {"eof", "reset"} ELSE {"eof"} :
       fds' = [fd \in Descriptors |-> IF fds[fd] = "open" THEN how ELSE fds[fd]]
  /\ UNCHANGED <<processVars, tcpVars, arrived, otherInput, alive, asked, unread, failures>>

HostComesUp ==
  /\ ~hostUp
  /\ hostUp' = TRUE
  /\ UNCHANGED <<processVars, tcpVars, fds, arrived, otherInput, alive, history>>

BytesArrive ==
  /\ sock # NoSock /\ fds[sock] = "open"
  /\ arrived' = TRUE
  /\ UNCHANGED <<processVars, tcpVars, fds, otherInput, hostUp, alive, history>>

OtherInputArrives ==
  /\ otherInput' = TRUE
  /\ UNCHANGED <<processVars, tcpVars, fds, arrived, hostUp, alive, history>>

\* The POSIX timer behind ReconnectTimer expires.
TimerElapses ==
  /\ timer = "running"
  /\ hostUp \/ failures < MaxFailures
  /\ timer' = "elapsed"
  /\ sigalrm' = TRUE
  /\ UNCHANGED <<main, taskQueue, watched, pending, sock, kernelVars, history>>

-----------------------------------------------------------------------------
\* connect.  The kernel gives out the lowest free descriptor.
Free == {fd \in Descriptors : fds[fd] = "free"}
Opens(fd, as) ==
  /\ fd \in Free
  /\ \A other \in Free : fd <= other
  /\ fds' = [fds EXCEPT ![fd] = as]

Connects ==
  /\ hostUp
  /\ \E fd \in Free : Opens(fd, "open") /\ sock' = fd /\ watched' = registered(TcpFile, fd)
  /\ arrived' = FALSE
  /\ UNCHANGED failures

\* The host is not resolved, no socket can be had, or the host refuses; then
\* sock is left as given.
FailsToConnect(left) ==
  /\ \/ ~hostUp /\ left = sock /\ UNCHANGED <<fds, failures>>
     \/ Free = {} /\ left = NoSock /\ UNCHANGED <<fds, failures>>
     \/ /\ ~hostUp
        /\ failures < MaxFailures
        /\ failures' = failures + 1
        /\ left \in Free /\ Opens(left, "idle")
  /\ UNCHANGED arrived

\* reconnect_helper, given the map when it is called and the timer that a success
\* leaves.
\* Faulty variant: no timer is started.
TriesOnce(map, clock) ==
  /\ timer' = clock
  /\ \/ Connects
     \/ /\ \E left \in Descriptors \cup {NoSock} : FailsToConnect(left)
        /\ sock' = NoSock
        /\ watched' = map

\* Faulty variant: the timer is also started when the socket is connected.
TriesForEver(map, clock) ==
  /\ timer' = "running"
  /\ \/ Connects
     \/ /\ \E left \in Descriptors \cup {NoSock} : FailsToConnect(left)
        /\ sock' = NoSock
        /\ watched' = map

reconnect_helper(map, clock) ==
  \/ Connects /\ timer' = clock
  \/ /\ \E left \in Descriptors \cup {NoSock} : FailsToConnect(left)
     /\ sock' = NoSock
     /\ watched' = map
     /\ timer' = "running"

-----------------------------------------------------------------------------
\* The tasks.
TimerTask ==
  /\ Runs("timer")
  /\ IF timer = "elapsed" THEN reconnect_helper(watched, "off")
     ELSE UNCHANGED <<sock, timer, fds, watched, failures, arrived>>
  /\ taskQueue' = Tail(taskQueue)
  /\ UNCHANGED <<main, sigalrm, pending, otherInput, hostUp, alive, asked, unread, losses>>

\* Faulty variant: reconnect does not look whether the socket was closed.
ReconnectUnchecked ==
  /\ Runs("reconnect")
  /\ reconnect_helper(unregistered(TcpFile), timer)
  /\ taskQueue' = Tail(taskQueue)
  /\ UNCHANGED <<main, sigalrm, pending, otherInput, hostUp, alive, asked, unread, losses>>

\* reconnect: the lost socket is forgotten, not closed.
ReconnectTask ==
  /\ Runs("reconnect")
  /\ IF sock # NoSock THEN reconnect_helper(unregistered(TcpFile), timer)
     ELSE UNCHANGED <<sock, timer, fds, watched, failures, arrived>>
  /\ taskQueue' = Tail(taskQueue)
  /\ UNCHANGED <<main, sigalrm, pending, otherInput, hostUp, alive, asked, unread, losses>>

ReceiveTask ==
  /\ Runs("receive")
  /\ taskQueue' = Tail(taskQueue)
  /\ unread' = 0
  /\ UNCHANGED <<main, sigalrm, watched, pending, tcpVars, kernelVars, asked, failures, losses>>

-----------------------------------------------------------------------------
\* What recv answers.
recv ==
  IF sock = NoSock THEN "error"
  ELSE IF arrived THEN "bytes"
  ELSE IF fds[sock] = "open" THEN "again"
  ELSE IF fds[sock] \in {"eof", "broken"} THEN "closed"
  ELSE "error"

\* IO.receiveReady
ReceiveReady ==
  /\ Tells(TcpFile)
  /\ \/ /\ recv = "bytes"
        /\ arrived' = FALSE
        /\ unread' = unread + 1
        /\ taskQueue' = PostTo(taskQueue, "receive")
        /\ UNCHANGED alive
     \/ recv = "again" /\ UNCHANGED <<arrived, unread, taskQueue, alive>>
     \/ /\ recv = "closed"
        /\ taskQueue' = PostTo(taskQueue, "reconnect")
        /\ UNCHANGED <<arrived, unread, alive>>
     \/ recv = "error" /\ alive' = FALSE /\ UNCHANGED <<arrived, unread, taskQueue>>
  /\ UNCHANGED <<sigalrm, watched, tcpVars, fds, otherInput, hostUp, asked, failures, losses>>

OtherReceiveReady ==
  /\ \E f \in Files \ {TcpFile} : Tells(f)
  /\ otherInput' = FALSE
  /\ UNCHANGED <<taskQueue, sigalrm, watched, tcpVars, fds, arrived, hostUp, alive, history>>

\* The files that have input: bytes or the end of the connection.
Ready ==
  {f \in Files :
     IF f = TcpFile
       THEN /\ watched[f] \in Descriptors
            /\ \/ fds[watched[f]] \in {"eof", "reset", "broken"}
               \/ watched[f] = sock /\ arrived
       ELSE otherInput}

Wakes == SelectReturns(Ready) /\ UNCHANGED <<tcpVars, kernelVars, history>>
WakesForNothing == SelectReturns({TcpFile}) /\ UNCHANGED <<tcpVars, kernelVars, history>>
TakesAlarm == Alarm("timer") /\ UNCHANGED <<tcpVars, kernelVars, history>>
Sleeps == (FallAsleep \/ CallSelect) /\ UNCHANGED <<tcpVars, kernelVars, history>>

-----------------------------------------------------------------------------
\* The application, between two tasks.
connect ==
  /\ main = "running"
  /\ asked # "connected"
  /\ ConnectAtOnce \/ ~Posted("reconnect")
  /\ \/ Connects /\ asked' = "connected"
     \/ /\ \E left \in Descriptors \cup {NoSock} : FailsToConnect(left) /\ sock' = left
        /\ asked' = "failed"
        /\ UNCHANGED watched
  /\ UNCHANGED <<main, taskQueue, sigalrm, pending, timer, otherInput, hostUp, alive, unread, losses>>

\* Faulty variant: the descriptor stays registered.
CloseUnregistersNothing ==
  /\ main = "running"
  /\ sock # NoSock
  /\ fds' = [fds EXCEPT ![sock] = "free"]
  /\ sock' = NoSock
  /\ asked' = "nothing"
  /\ arrived' = FALSE
  /\ UNCHANGED <<processVars, timer, otherInput, hostUp, alive, unread, failures, losses>>

\* Faulty variant: the descriptor is not given back.
CloseKeepsDescriptor ==
  /\ main = "running"
  /\ sock # NoSock
  /\ watched' = unregistered(TcpFile)
  /\ sock' = NoSock
  /\ asked' = "nothing"
  /\ arrived' = FALSE
  /\ UNCHANGED <<main, taskQueue, sigalrm, pending, timer, fds, otherInput, hostUp, alive>>
  /\ UNCHANGED <<unread, failures, losses>>

\* close, if there is a socket; without one it answers FAIL.
close ==
  /\ main = "running"
  /\ sock # NoSock
  /\ fds' = [fds EXCEPT ![sock] = "free"]
  /\ watched' = unregistered(TcpFile)
  /\ sock' = NoSock
  /\ asked' = "nothing"
  /\ arrived' = FALSE
  /\ UNCHANGED <<main, taskQueue, sigalrm, pending, timer, otherInput, hostUp, alive>>
  /\ UNCHANGED <<unread, failures, losses>>

\* send on a connection that the host has lost, or that was never made.
send ==
  /\ main = "running"
  /\ sock # NoSock
  /\ \/ /\ fds[sock] \in {"eof", "reset"}
        /\ fds' = [fds EXCEPT ![sock] = "broken"]
        /\ UNCHANGED alive
     \/ /\ fds[sock] \in {"idle", "broken"}
        /\ alive' = FALSE
        /\ UNCHANGED fds
  /\ UNCHANGED <<processVars, tcpVars, arrived, otherInput, hostUp, history>>

-----------------------------------------------------------------------------
Process ==
  /\ alive
  /\ TimerTask \/ ReconnectTask \/ ReceiveTask \/ ReceiveReady \/ OtherReceiveReady \/ Sleeps
Kernel == alive /\ (Wakes \/ TakesAlarm)
Application == alive /\ (connect \/ close \/ send)
Environment ==
  /\ alive
  /\ \/ HostGoesDown \/ HostComesUp \/ BytesArrive \/ OtherInputArrives
     \/ TimerElapses \/ WakesForNothing

Next == Process \/ Kernel \/ Application \/ Environment

Spec == Init /\ [][Next]_vars

\* The process runs, select() returns when a file is ready, a pending signal is
\* delivered and a running timer expires.
FairSpec ==
  /\ Spec
  /\ WF_vars(Process)
  /\ WF_vars(alive /\ Wakes)
  /\ WF_vars(alive /\ TakesAlarm)
  /\ WF_vars(alive /\ TimerElapses)
=============================================================================
