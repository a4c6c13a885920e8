----------------------------- MODULE PersistentTcp -----------------------------
(***************************************************************************)
(* The properties of PersistentTcpConnectionP.                             *)
(***************************************************************************)
EXTENDS PersistentTcpConnectionP, FiniteSets

Connected == sock # NoSock /\ fds[sock] = "open"

\* What select() watches for the component is its present socket, and that is or
\* was connected: receiveReady never reads from a descriptor that was closed,
\* replaced, or never connected (PersistentTcpConnectionP.nc:63-71, 124, 156-171).
WatchesItsSocket ==
  /\ watched[TcpFile] # Nothing =>
       sock # NoSock /\ watched[TcpFile] = sock /\ fds[sock] \notin {"free", "idle"}
  /\ TcpFile \in pending => watched[TcpFile] # Nothing

\* While the component waits to connect again it has no socket and its
\* application wants the connection: no attempt replaces a live connection
\* (PersistentTcpConnectionP.nc:48-59).
WaitsWithoutSocket == timer # "off" => sock = NoSock /\ asked = "connected"

\* What the application closed stays closed: no timer is left and a reconnect
\* that was posted before the close does nothing
\* (PersistentTcpConnectionP.nc:64, 156-171).
ClosedStaysClosed == asked = "nothing" => sock = NoSock /\ timer = "off"

\* One descriptor leaks for each connect that was refused and for each connection
\* that was lost, and no other (PersistentTcpConnectionP.nc:66-68, 113-118).
LeaksAreLosses == Cardinality(Descriptors \ Free) <= failures + losses + 1

\* The bytes of a read are handed up before the next read overwrites them
\* (PersistentTcpConnectionP.nc:173-179, 210-213).
NothingOverwritten == unread <= 1 /\ (unread = 1 <=> Posted("receive"))

\* The process sleeps although a task is posted: the signal that posted it came
\* between the enabling of signals and select() (McuSleepP.nc:20-24).
LostWakeUp == main = "select" /\ taskQueue # <<>>

\* "A linux TCP socket that will automatically reconnect if the socket is closed
\* for some reason" (PersistentTcpConnectionP.nc:2-3): a lost connection comes
\* back as long as the host can be reached, the application wants it, the process
\* has not exited and descriptors are left.
WantsBack == asked = "connected" /\ hostUp /\ ~Connected
Excused == ~hostUp \/ asked # "connected" \/ ~alive \/ Free = {}
Reconnects == WantsBack ~> (Connected \/ Excused)

\* It does, unless the process sleeps with a task posted
\* (PersistentTcpConnectionP.nc:48-76, McuSleepP.nc:20-24).
ReconnectsUnlessAsleep == WantsBack ~> (Connected \/ Excused \/ LostWakeUp)
=============================================================================
