---------------------------- MODULE TunnelContract ----------------------------
(***************************************************************************)
(* What the tunnel server promises its clients: a client has one session   *)
(* at a time, over one connection; in a session it is told a prefix that   *)
(* nobody else was told, and the same one for ever; and what the network   *)
(* routes to that prefix goes to that connection, while the session lasts. *)
(* Only the prefixes outlive the server.                                   *)
(***************************************************************************)
CONSTANTS Ids, Prefixes, NoPrefix, Conns

VARIABLES
  lease,      \* the prefix each client was told, NoPrefix before
  sessions,   \* pairs of a client and the connection of its session
  routes      \* pairs of a prefix and the connection its packets go to

contractVars == <<lease, sessions, routes>>

ContractInit ==
  /\ lease = [i \in Ids |-> NoPrefix]
  /\ sessions = {}
  /\ routes = {}

Routed(c) == \E r \in routes : r[2] = c

Begin(i, c) ==
  /\ \A s \in sessions : s[1] # i /\ s[2] # c
  /\ sessions' = sessions \cup {<<i, c>>}
  /\ UNCHANGED <<lease, routes>>

Tell(i, c, p) ==
  /\ <<i, c>> \in sessions
  /\ lease[i] \in {NoPrefix, p}
  /\ \A j \in Ids \ {i} : lease[j] # p
  /\ lease' = [lease EXCEPT ![i] = p]
  /\ UNCHANGED <<sessions, routes>>

Open(i, c) ==
  /\ <<i, c>> \in sessions
  /\ lease[i] # NoPrefix
  /\ ~Routed(c)
  /\ routes' = routes \cup {<<lease[i], c>>}
  /\ UNCHANGED <<lease, sessions>>

Close(c) ==
  /\ Routed(c)
  /\ routes' = {r \in routes : r[2] # c}
  /\ UNCHANGED <<lease, sessions>>

End(i, c) ==
  /\ <<i, c>> \in sessions
  /\ ~Routed(c)
  /\ sessions' = sessions \ {<<i, c>>}
  /\ UNCHANGED <<lease, routes>>

\* The server dies.
Down ==
  /\ sessions' = {}
  /\ routes' = {}
  /\ UNCHANGED lease

ContractNext ==
  \/ Down
  \/ \E c \in Conns :
       \/ Close(c)
       \/ \E i \in Ids :
            \/ Begin(i, c) \/ Open(i, c) \/ End(i, c)
            \/ \E p \in Prefixes : Tell(i, c, p)

ContractSpec == ContractInit /\ [][ContractNext]_contractVars
=============================================================================
