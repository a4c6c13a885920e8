----------------------------- MODULE TunnelClient -----------------------------
(***************************************************************************)
(* The IPv6 tunnel client: one thread that connects to the server, sends   *)
(* its id, waits for its prefix, and then shuttles packets between its TUN *)
(* device and the TCP connection with blocking calls.                      *)
(*                                                                         *)
(* The connection is what the client's kernel knows of it: its state, the  *)
(* server's answer if it is not read yet, and the packets on their way in  *)
(* each direction, of which it holds MaxStream at most.  A step ends where *)
(* the client blocks or where the state of the connection matters next.    *)
(***************************************************************************)
EXTENDS Naturals

CONSTANTS
  Answers,     \* the prefixes the server may answer with
  NoAnswer,    \* no prefix
  MaxStream,   \* packets a direction of the connection holds before a write blocks
  MaxTun       \* packets the client's TUN device holds; the kernel drops the rest

ASSUME ClientAssumption ==
  /\ NoAnswer \notin Answers
  /\ MaxStream \in Nat \ {0}
  /\ MaxTun \in Nat \ {0}

VARIABLES
  cpc,         \* where the client is
  sock,        \* the state of tcp_socket's connection
  cprefix,     \* the global buffer prefix
  address,     \* the prefix of the address added to the TUN interface
  tunReady,    \* FD_ISSET(tun_file, &rfds)
  answer,      \* the server's answer, in the connection and not read yet
  down,        \* packets in the connection that the client has not read
  sent,        \* packets in the connection that the server has not read
  ctun         \* packets in the TUN device that the client has not read

connVars == <<sock, answer, down, sent>>
clientVars == <<cpc, cprefix, address, tunReady, ctun, connVars>>

\* "fin": the server has closed.  "reset": the connection is gone and its data too.
Shuttling == {"select", "tcp", "tun", "send"}
ClientTypeOK ==
  /\ cpc \in {"off", "connect", "answer", "retry"} \cup Shuttling
  /\ sock \in {"none", "open", "fin", "reset"}
  /\ cprefix \in Answers \cup {NoAnswer}
  /\ address \in Answers \cup {NoAnswer}
  /\ tunReady \in BOOLEAN
  /\ answer \in Answers \cup {NoAnswer}
  /\ down \in 0..MaxStream
  /\ sent \in 0..MaxStream
  /\ ctun \in 0..MaxTun

\* No connection, or one with nothing in it.
Connection(state) == sock' = state /\ answer' = NoAnswer /\ down' = 0 /\ sent' = 0

ClientInit ==
  /\ cpc = "off" /\ sock = "none"
  /\ cprefix = NoAnswer /\ address = NoAnswer
  /\ tunReady = FALSE
  /\ answer = NoAnswer /\ down = 0 /\ sent = 0 /\ ctun = 0

\* The process is gone, with its connection and its TUN device.
ClientOff ==
  /\ cpc' = "off"
  /\ cprefix' = NoAnswer /\ address' = NoAnswer
  /\ tunReady' = FALSE /\ ctun' = 0
  /\ Connection("none")

ClientKilled == cpc # "off" /\ ClientOff

\* main up to reconnect: the configuration and the MAC address are there, and the
\* TUN device is open.  Where one of them is not, main returns at once.
ClientStart ==
  /\ cpc = "off"
  /\ cpc' = "connect"
  /\ UNCHANGED <<cprefix, address, tunReady, ctun, connVars>>

-----------------------------------------------------------------------------
\* reconnect, and in it connect_tcp, which first closes tcp_socket.
reconnect ==
  /\ cpc' = "connect"
  /\ Connection("none")
  /\ UNCHANGED <<cprefix, address, ctun>>

\* connect_tcp cannot resolve the host or create a socket.
ResolveFails ==
  /\ cpc = "connect"
  /\ cpc' = "retry"
  /\ UNCHANGED <<cprefix, address, tunReady, ctun, connVars>>

\* Faulty variant: a client that has a prefix does not wait for the answer.
ConnectedKeepsPrefix ==
  /\ cpc = "connect"
  /\ cpc' = IF cprefix = NoAnswer THEN "answer" ELSE "select"
  /\ Connection("open")
  /\ UNCHANGED <<cprefix, address, tunReady, ctun>>

\* connect succeeds, and get_prefix sends the id.  A send that fails finds a
\* server that has died, and ends as AnswerError does.
Connected ==
  /\ cpc = "connect"
  /\ cpc' = "answer"
  /\ Connection("open")
  /\ UNCHANGED <<cprefix, address, tunReady, ctun>>

\* sleep(2), and the loop of reconnect goes round.
Retry ==
  /\ cpc = "retry"
  /\ reconnect
  /\ UNCHANGED tunReady

Fails(step) == step /\ cpc' = "retry" /\ UNCHANGED <<cprefix, address>>

\* get_prefix returns 0 with p in prefix.  After the first reconnect main adds the
\* address; a later one goes on where select's loop called it.
GotPrefix(p) ==
  /\ cprefix' = p
  /\ address' = IF address = NoAnswer THEN p ELSE address
  /\ cpc' = IF tunReady THEN "tun" ELSE "select"

\* recv takes the answer and k of the packets behind it.
RecvAnswer(k) ==
  /\ cpc = "answer"
  /\ answer # NoAnswer
  /\ answer' = NoAnswer
  /\ down' = down - k
  /\ UNCHANGED <<sock, sent, tunReady, ctun>>

\* Faulty variant: the prefix is not copied out of the answer.
AnswerNotCopied == RecvAnswer(0) /\ GotPrefix(cprefix)

\* get_prefix reads the answer,
Answer == RecvAnswer(0) /\ GotPrefix(answer)

\* or with it packets that follow it, which are lost: the text behind the answer
\* parses if a NUL ends it early, and if not the client tries again,
AnswerAndPackets ==
  \E k \in 1..down :
    \/ RecvAnswer(k) /\ GotPrefix(answer)
    \/ Fails(RecvAnswer(k))

\* or a part of it, which does not parse.
AnswerCut == Fails(RecvAnswer(0))

\* recv returns 0.  The empty text parses, the tokens that are then compared with
\* "Prefix" are uninitialized and as good as never match; if an earlier answer is
\* still in prefix get_prefix returns 0.
AnswerEof ==
  /\ cpc = "answer" /\ sock = "fin" /\ answer = NoAnswer /\ down = 0
  /\ IF cprefix = NoAnswer
       THEN cpc' = "retry" /\ UNCHANGED <<cprefix, address>>
       ELSE GotPrefix(cprefix)
  /\ UNCHANGED <<tunReady, ctun, connVars>>

\* Or reading a string through those tokens is the end of the process.
AnswerEofCrash ==
  /\ cpc = "answer" /\ sock = "fin" /\ answer = NoAnswer /\ down = 0
  /\ ClientOff

\* recv fails.
AnswerError ==
  /\ cpc = "answer" /\ sock = "reset"
  /\ Fails(UNCHANGED <<tunReady, ctun, connVars>>)

get_prefix == Answer \/ AnswerAndPackets \/ AnswerCut \/ AnswerEof \/ AnswerEofCrash \/ AnswerError

-----------------------------------------------------------------------------
\* select returns when something can be read, an end of file or an error included.
TcpReadable == sock # "open" \/ answer # NoAnswer \/ down > 0
Select ==
  /\ cpc = "select"
  /\ TcpReadable \/ ctun > 0
  /\ cpc' = IF TcpReadable THEN "tcp" ELSE "tun"
  /\ tunReady' = (ctun > 0)
  /\ UNCHANGED <<cprefix, address, ctun, connVars>>

AfterTcp == IF tunReady THEN "tun" ELSE "select"

\* recv returns data, and whatever it is goes to the TUN device as one packet.
TcpData ==
  /\ cpc = "tcp"
  /\ answer # NoAnswer \/ down > 0
  /\ \E k \in 0..down : (answer = NoAnswer => k > 0) /\ down' = down - k
  /\ answer' = NoAnswer
  /\ cpc' = AfterTcp
  /\ UNCHANGED <<cprefix, address, tunReady, ctun, sock, sent>>

\* Faulty variant: every error is taken for an errant wakeup.
TcpErrorIgnored ==
  /\ cpc = "tcp" /\ sock # "open" /\ answer = NoAnswer /\ down = 0
  /\ cpc' = AfterTcp
  /\ UNCHANGED <<cprefix, address, tunReady, ctun, connVars>>

\* recv returns 0 or fails.
TcpEnds ==
  /\ cpc = "tcp" /\ sock # "open" /\ answer = NoAnswer /\ down = 0
  /\ reconnect
  /\ UNCHANGED tunReady

\* read returns a packet.  EAGAIN cannot happen: nobody else reads the device.
TunPacket ==
  /\ cpc = "tun"
  /\ ctun > 0
  /\ ctun' = ctun - 1
  /\ tunReady' = FALSE
  /\ cpc' = "send"
  /\ UNCHANGED <<cprefix, address, connVars>>

\* Or it fails, and main returns.
TunError == cpc = "tun" /\ ClientOff

\* Faulty variant: no end to what a connection takes.
SendNeverBlocks ==
  /\ cpc = "send" /\ sock = "open"
  /\ sent' = sent + 1
  /\ cpc' = "select"
  /\ UNCHANGED <<cprefix, address, tunReady, ctun, sock, answer, down>>

\* send blocks until the connection has room.  A connection that the server has
\* closed takes the packet, loses it, and is reset.
Send ==
  /\ cpc = "send"
  /\ \/ sock = "open" /\ sent < MaxStream /\ sent' = sent + 1 /\ UNCHANGED sock
     \/ sock = "fin" /\ sock' = "reset" /\ UNCHANGED sent
  /\ cpc' = "select"
  /\ UNCHANGED <<cprefix, address, tunReady, ctun, answer, down>>

\* Faulty variant: a send that fails is tried again.
SendAgain == cpc = "send" /\ sock = "reset" /\ UNCHANGED clientVars

\* send fails; the packet is lost.
SendFails ==
  /\ cpc = "send" /\ sock = "reset"
  /\ reconnect
  /\ UNCHANGED tunReady

\* If the server's FIN came before the reset, send raises SIGPIPE, which nothing
\* handles.
SendKills == cpc = "send" /\ sock = "reset" /\ ClientOff

shuttle == Select \/ TcpData \/ TcpEnds \/ TunPacket \/ Send \/ SendFails

\* The steps of the process itself.
ClientSteps == Retry \/ get_prefix \/ shuttle
\* And what ends it or holds it up.
ClientTrouble == ResolveFails \/ TunError \/ SendKills

-----------------------------------------------------------------------------
\* The local network sends a packet through the client's TUN device.
Outgoing ==
  /\ cpc # "off"
  /\ ctun < MaxTun
  /\ ctun' = ctun + 1
  /\ UNCHANGED <<cpc, cprefix, address, tunReady, connVars>>

\* The server dies: its kernel closes the connection, or resets it if there was
\* data the server had not read, and what the client had not read is lost then.
ServerGone ==
  /\ IF sock # "open"
       THEN UNCHANGED connVars
       ELSE \/ sock' = "fin" /\ sent' = 0 /\ UNCHANGED <<answer, down>>
            \/ Connection("reset")
  /\ UNCHANGED <<cpc, cprefix, address, tunReady, ctun>>
=============================================================================
