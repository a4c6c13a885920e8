--------------------------- MODULE CC2520LinuxSendP ---------------------------
(***************************************************************************)
(* The bottom of the transmit stack: the TinyOS process writes a packet    *)
(* into a pipe, a forked child reads it there, blocks in write() on the    *)
(* radio character device and pipes the driver's answer back.              *)
(*                                                                         *)
(* Each action below is one step of one of the two processes; a packet's   *)
(* header and body, two write()s of the single writer and two read()s of   *)
(* the single reader, travel as one record.  The module has no Next of its *)
(* own: CC2520LinuxLinkP signals and calls it, and CC2520LinuxRadioP       *)
(* closes the system.                                                      *)
(***************************************************************************)
EXTENDS Naturals, Sequences

CONSTANTS
  Messages,     \* the message_t buffers of the application
  SeqMod,       \* the sequence number is a uint8_t that wraps at SeqMod
  NoMessage,    \* the null message_t pointer
  TxResults     \* the answers of the radio driver that a run considers

\* What write() on the radio device can answer: the five CC2520_TX_* codes,
\* "WRITTEN" for the packet's own length (len - 1), "OTHER" for anything else.
AckResults  == {"SUCCESS", "WRITTEN"}
NackResults == {"BUSY", "ACK_TIMEOUT", "FAILED"}
OddResults  == {"LENGTH", "OTHER"}
Results     == AckResults \cup NackResults \cup OddResults

SeqNumbers == 0..(SeqMod - 1)

ASSUME SendPAssumption ==
  /\ NoMessage \notin Messages
  /\ SeqMod \in Nat \ {0}
  /\ TxResults \subseteq Results

VARIABLES
  taskQueue,    \* the posted tasks of the TinyOS scheduler, in FIFO order
  writePipe,    \* packets on their way to the child
  txChild,      \* the packets the child is writing to the driver (at most one)
  readPipe,     \* driver answers on their way back
  sendHdr,      \* send_hdr, the last answer read by receiveReady
  acked,        \* metadata of each buffer: the ack flag
  dsn           \* header of each buffer: the data sequence number

sendPVars == <<taskQueue, writePipe, txChild, readPipe, sendHdr, acked, dsn>>

Packet == [msg : Messages, dsn : SeqNumbers]
Answer == [msg : Messages, ret : Results]
NoAnswer == [msg |-> NoMessage, ret |-> "OTHER"]

Task == {"send", "sendDone_task"}

SendPTypeOK ==
  /\ taskQueue \in Seq(Task)
  /\ writePipe \in Seq(Packet)
  /\ txChild \in Seq(Packet)
  /\ readPipe \in Seq(Answer)
  /\ sendHdr \in Answer \cup {NoAnswer}
  /\ acked \in [Messages -> BOOLEAN]
  /\ dsn \in [Messages -> SeqNumbers]

SendPInit ==
  /\ taskQueue = <<>>
  /\ writePipe = <<>>
  /\ txChild = <<>>
  /\ readPipe = <<>>
  /\ sendHdr = NoAnswer
  /\ acked = [m \in Messages |-> FALSE]
  /\ dsn \in [Messages -> SeqNumbers]

-----------------------------------------------------------------------------
\* Posting a task that is already pending changes nothing (TinyOS scheduler).
PostTo(queue, task) ==
  IF \E i \in 1..Len(queue) : queue[i] = task THEN queue ELSE Append(queue, task)

Runs(task) == taskQueue # <<>> /\ Head(taskQueue) = task

\* BareSend.send: hand the buffer's present contents to the child.
BareSendSend(m) == writePipe' = Append(writePipe, [msg |-> m, dsn |-> dsn[m]])

\* The child reads the next packet from the pipe.
ChildRead ==
  /\ txChild = <<>>
  /\ writePipe # <<>>
  /\ txChild' = <<Head(writePipe)>>
  /\ writePipe' = Tail(writePipe)
  /\ UNCHANGED <<taskQueue, readPipe, sendHdr, acked, dsn>>

\* The child's write() on the device returns ret; the answer is piped back.
ChildWrite(ret) ==
  /\ txChild # <<>>
  /\ txChild' = <<>>
  /\ readPipe' = Append(readPipe, [msg |-> Head(txChild).msg, ret |-> ret])
  /\ UNCHANGED <<taskQueue, writePipe, sendHdr, acked, dsn>>

\* IO.receiveReady: select() is entered only when no task is left to run.
ReceiveReady ==
  /\ taskQueue = <<>>
  /\ readPipe # <<>>
  /\ sendHdr' = Head(readPipe)
  /\ readPipe' = Tail(readPipe)
  /\ taskQueue' = PostTo(taskQueue, "sendDone_task")
  /\ UNCHANGED <<writePipe, txChild, acked, dsn>>

\* Faulty variants, for the properties to reject: a failed transmission does not
\* clear the flag; the driver's own length is not taken for an acknowledgement.
AckNeverCleared(answer) ==
  [m \in Messages |-> acked[m] \/ (m = answer.msg /\ answer.ret \in AckResults)]
WrittenNotAnAck(answer) ==
  [m \in Messages |-> IF m = answer.msg THEN answer.ret = "SUCCESS" ELSE acked[m]]

\* The switch of sendDone_task: an odd answer leaves the ack flag as it was.
AckedAfter(answer) ==
  [m \in Messages |->
    IF m = answer.msg /\ answer.ret \notin OddResults
      THEN answer.ret \in AckResults ELSE acked[m]]
=============================================================================
