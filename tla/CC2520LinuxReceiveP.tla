-------------------------- MODULE CC2520LinuxReceiveP --------------------------
(***************************************************************************)
(* The receive path: a child process reads the radio's driver and writes   *)
(* each packet to a pipe; the TinyOS process reads it from the pipe into a *)
(* buffer when select() says so, and a task hands the buffer to the stack  *)
(* above, which gives one of its own buffers back.                         *)
(*                                                                         *)
(* The packets that the child has read before the driver failed are        *)
(* numbered.  The pipe takes a packet as a whole: a write of at most 256   *)
(* bytes is atomic.                                                        *)
(***************************************************************************)
EXTENDS LinuxProcess

CONSTANTS
  RadioFile,     \* the file id of this component
  RadioFd,       \* the descriptor of the pipe
  Buffers,       \* the message buffers
  PipeSize,      \* packets that fit into the pipe
  MaxPackets     \* bound: packets of the radio

ASSUME ReceivePAssumption ==
  /\ RadioFile \in Files
  /\ RadioFd \in 0..(Width - 1) /\ RadioFd # Nothing
  /\ "receive" \in Tasks
  /\ Buffers # {}
  /\ PipeSize \in Nat \ {0} /\ MaxPackets \in Nat

VARIABLES
  pkt_buf,       \* the packet that the child is about to write
  writeEnd,      \* the child has not closed its end of the pipe
  pipe,          \* the packets in the pipe
  rx_msg_ptr,    \* the buffer for the next packet
  contents,      \* the packet in each buffer
  \* History.
  read,          \* packets the child has read
  damaged,       \* those among them whose CRC is wrong
  handedUp,      \* the packets handed to the stack
  kept           \* the packet of each buffer that the stack has not given back

receivePVars == <<pkt_buf, writeEnd, pipe, rx_msg_ptr, contents, read, damaged, handedUp, kept>>

NoPacket == 0
Packets == 1..MaxPackets

ReceivePTypeOK ==
  /\ pkt_buf \in Packets \cup {NoPacket}
  /\ writeEnd \in BOOLEAN
  /\ pipe \in Seq(Packets) /\ Len(pipe) <= PipeSize
  /\ rx_msg_ptr \in Buffers
  /\ contents \in [Buffers -> Packets \cup {NoPacket}]
  /\ read \in 0..MaxPackets
  /\ damaged \subseteq 1..read
  /\ handedUp \in Seq(Packets)
  /\ kept \in [Buffers -> Packets \cup {NoPacket}]

\* SoftwareInit.init
ReceivePInit ==
  /\ pkt_buf = NoPacket
  /\ writeEnd = TRUE
  /\ pipe = <<>>
  /\ rx_msg_ptr \in Buffers
  /\ contents = [b \in Buffers |-> NoPacket]
  /\ read = 0 /\ damaged = {} /\ handedUp = <<>>
  /\ kept = [b \in Buffers |-> NoPacket]

-----------------------------------------------------------------------------
\* The child process.
ChildReads ==
  /\ writeEnd
  /\ pkt_buf = NoPacket
  /\ read < MaxPackets
  /\ read' = read + 1
  /\ pkt_buf' = read'
  /\ damaged' \in {damaged, damaged \cup {read'}}
  /\ UNCHANGED <<processVars, writeEnd, pipe, rx_msg_ptr, contents, handedUp, kept>>

ChildWrites ==
  /\ pkt_buf # NoPacket
  /\ Len(pipe) < PipeSize
  /\ pipe' = Append(pipe, pkt_buf)
  /\ pkt_buf' = NoPacket
  /\ UNCHANGED <<processVars, writeEnd, rx_msg_ptr, contents, read, damaged, handedUp, kept>>

\* A read of the driver fails: the child closes the pipe and goes on reading, but
\* whatever it reads then it writes to a closed descriptor.
ChildFails ==
  /\ writeEnd
  /\ pkt_buf = NoPacket
  /\ writeEnd' = FALSE
  /\ UNCHANGED <<processVars, pkt_buf, pipe, rx_msg_ptr, contents, read, damaged, handedUp, kept>>

-----------------------------------------------------------------------------
\* select() finds a packet in the pipe, or its end.
RadioReady == pipe # <<>> \/ ~writeEnd

\* IO.receiveReady.  Without a packet the read gives no byte or EAGAIN.
RadioReceiveReady ==
  /\ Tells(RadioFile)
  /\ \/ /\ pipe # <<>>
        /\ contents' = [contents EXCEPT ![rx_msg_ptr] = Head(pipe)]
        /\ pipe' = Tail(pipe)
        /\ taskQueue' = PostTo(taskQueue, "receive")
     \/ pipe = <<>> /\ UNCHANGED <<contents, pipe, taskQueue>>
  /\ UNCHANGED <<sigalrm, watched, pkt_buf, writeEnd, rx_msg_ptr, read, damaged, handedUp, kept>>

\* BareReceive.receive: the stack keeps the buffer and gives one back, which may
\* be the same.
HandsUp(back) ==
  /\ handedUp' = Append(handedUp, contents[rx_msg_ptr])
  /\ kept' = [b \in Buffers |-> IF b = back THEN NoPacket
                               ELSE IF b = rx_msg_ptr THEN contents[b] ELSE kept[b]]

\* The most significant bit of crc_lqi is not set.
CrcFailed == contents[rx_msg_ptr] \in damaged

\* receive_task; what the stack does to the queue of tasks is for BorderRouter.
\* Faulty variant: the buffer that the stack gives back is not taken.
TaskKeepsBuffer ==
  /\ Runs("receive")
  /\ \/ CrcFailed /\ UNCHANGED <<handedUp, kept>>
     \/ ~CrcFailed /\ \E back \in Buffers : HandsUp(back)
  /\ UNCHANGED <<main, sigalrm, watched, pending>>
  /\ UNCHANGED <<pkt_buf, writeEnd, pipe, rx_msg_ptr, contents, read, damaged>>

RadioReceiveTask ==
  /\ Runs("receive")
  /\ \/ CrcFailed /\ UNCHANGED <<rx_msg_ptr, handedUp, kept>>
     \/ ~CrcFailed /\ \E back \in Buffers : HandsUp(back) /\ rx_msg_ptr' = back
  /\ UNCHANGED <<main, sigalrm, watched, pending, pkt_buf, writeEnd, pipe, contents, read, damaged>>
=============================================================================
