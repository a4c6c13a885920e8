-------------------------------- MODULE Tunnel --------------------------------
(***************************************************************************)
(* The properties of the tunnel server TunnelServer.                       *)
(***************************************************************************)
EXTENDS TunnelServer

InSession(c) == pc[c] \in Inside

\* The locks of lockClient "prevent the same client from having two sessions
\* at the same time" (server.go:26-27): one connection of a client at most is
\* past lockClient.
OneSessionPerClient ==
  \A c, d \in Conns : InSession(c) /\ InSession(d) /\ id[c] = id[d] => c = d

\* A TUN device lives inside its client's session: when handleClient gives the
\* name back or lets the next session in, the device is closed and no goroutine
\* of the old session is left (server.go:199-225).
DeviceWithinSession ==
  /\ \A n \in TunIds : device[n] # NoConn =>
       /\ tunset[n]
       /\ tunname[device[n]] = n
       /\ pc[device[n]] \in Serving
  /\ \A c \in Conns : pc[c] \notin Serving =>
       tcp[c] = "none" /\ tun[c] = "none" /\ ~tunQuit[c] /\ queue[c] = 0

\* Packets for a prefix have one way to go: no two open devices have the same
\* prefix, and the prefix is that of the device's client (README.md:21-23).
OneDevicePerPrefix ==
  \A m, n \in TunIds : device[m] # NoConn /\ device[n] # NoConn =>
    /\ prefix[device[m]] = told[id[device[m]]]
    /\ prefix[device[m]] = prefix[device[n]] => m = n

\* No prefix was given to two clients, restarts of the server included.
PrefixesDistinct ==
  \A i, j \in Ids : told[i] = told[j] /\ told[i] # NoPrefix => i = j

\* "If the client reconnects, the same prefix is assigned" (README.md:52), also
\* by a server that was restarted in between.
SamePrefixAgain ==
  [][\A i \in Ids : told[i] # NoPrefix => told'[i] = told[i]]_vars

\* If clientTUN has no packet on its hands when the quit message is queued, the
\* session comes to its end, whatever traffic still arrives (server.go:208-225).
ShutdownCompletes ==
  \A c \in Conns : (tunQuit[c] /\ tun[c] \in {"reading", "got"}) ~> pc[c] = "idle"

\* "If the client disconnects, the server's TUN device for that client is
\* removed" (README.md:51).
DisconnectRemovesTun ==
  \A c \in Conns : (pc[c] = "loop" /\ ~alive[c]) ~> ~DeviceOpen(c)

-----------------------------------------------------------------------------
\* The sessions, and where packets go, as a client and the network see them: a
\* session lasts from lockClient to unlockClient, a route as long as its device.
Sessions == {<<id[c], c>> : c \in {d \in Conns : InSession(d)}}
Routes == {<<prefix[c], c>> : c \in {d \in Conns : DeviceOpen(d)}}

Contract == INSTANCE TunnelContract WITH lease <- told, sessions <- Sessions, routes <- Routes

\* The server keeps its contract: among others, no session ends while packets still
\* go to its connection, and a prefix is told in a session only (server.go:102-226).
ServiceKept == Contract!ContractSpec
=============================================================================
