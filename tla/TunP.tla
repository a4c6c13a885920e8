--------------------------------- MODULE TunP ---------------------------------
(***************************************************************************)
(* The TUN interface as the border router's IPForward: packets of the host *)
(* are read into one buffer and handed up by a task; packets for the host  *)
(* are written at once and answered by another task, out of one send_info. *)
(*                                                                         *)
(* The packets that the host sends and the packets that are sent to it are *)
(* numbered.  IPForward.send is a conjunct of the task that calls it.      *)
(***************************************************************************)
EXTENDS LinuxProcess

CONSTANTS
  TunFile,       \* the file id of this component
  TunFd,         \* its descriptor
  MaxTun,        \* bound: packets of the host
  MaxSends       \* bound: calls of IPForward.send

ASSUME TunPAssumption ==
  /\ TunFile \in Files
  /\ TunFd \in 0..(Width - 1) /\ TunFd # Nothing
  /\ {"tunReceive", "sendDone"} \subseteq Tasks
  /\ MaxTun \in Nat /\ MaxSends \in Nat

VARIABLES
  tunQueue,          \* the packets that wait in the device
  in_buf,
  send_info_struct,
  alive,             \* the process has not exited
  \* History.
  tunSent,           \* packets the host has sent
  tunHandedUp,       \* the packets handed to the stack
  sends,             \* calls of IPForward.send
  unanswered         \* the sends that returned SUCCESS before the last sendDone

tunPVars == <<tunQueue, in_buf, send_info_struct, alive, tunSent, tunHandedUp, sends, unanswered>>

TunPackets == 1..MaxTun

TunPTypeOK ==
  /\ tunQueue \in Seq(TunPackets)
  /\ in_buf \in 0..MaxTun
  /\ send_info_struct \in [upper_data : 0..MaxSends, failed : BOOLEAN]
  /\ alive \in BOOLEAN
  /\ tunSent \in 0..MaxTun
  /\ tunHandedUp \in Seq(TunPackets)
  /\ sends \in 0..MaxSends
  /\ unanswered \subseteq 1..sends

TunPInit ==
  /\ tunQueue = <<>>
  /\ in_buf = 0
  /\ send_info_struct = [upper_data |-> 0, failed |-> FALSE]
  /\ alive = TRUE
  /\ tunSent = 0 /\ tunHandedUp = <<>>
  /\ sends = 0 /\ unanswered = {}

-----------------------------------------------------------------------------
HostSends ==
  /\ tunSent < MaxTun
  /\ tunSent' = tunSent + 1
  /\ tunQueue' = Append(tunQueue, tunSent')
  /\ UNCHANGED <<processVars, in_buf, send_info_struct, alive, tunHandedUp, sends, unanswered>>

TunReady == tunQueue # <<>>

\* IO.receiveReady: a packet, EAGAIN, or an error, which ends the process.
TunReceiveReady ==
  /\ Tells(TunFile)
  /\ \/ /\ tunQueue # <<>>
        /\ in_buf' = Head(tunQueue)
        /\ tunQueue' = Tail(tunQueue)
        /\ taskQueue' = PostTo(taskQueue, "tunReceive")
        /\ UNCHANGED alive
     \/ tunQueue = <<>> /\ UNCHANGED <<in_buf, tunQueue, taskQueue, alive>>
     \/ alive' = FALSE /\ UNCHANGED <<in_buf, tunQueue, taskQueue>>
  /\ UNCHANGED <<sigalrm, watched, send_info_struct, tunSent, tunHandedUp, sends, unanswered>>

-----------------------------------------------------------------------------
\* IPForward.send, given the tasks queued when it is called.
\* Faulty variant: sendDone_task is posted whatever write answers.
SendPostsFirst(queue) ==
  /\ sends < MaxSends
  /\ sends' = sends + 1
  /\ taskQueue' = PostTo(queue, "sendDone")
  /\ \E failed \in BOOLEAN :
       /\ send_info_struct' = [upper_data |-> sends', failed |-> failed]
       /\ unanswered' = IF failed THEN unanswered ELSE unanswered \cup {sends'}

send(queue) ==
  /\ sends < MaxSends
  /\ sends' = sends + 1
  /\ \/ /\ send_info_struct' = [upper_data |-> sends', failed |-> TRUE]
        /\ taskQueue' = queue
        /\ UNCHANGED unanswered
     \/ /\ send_info_struct' = [upper_data |-> sends', failed |-> FALSE]
        /\ taskQueue' = PostTo(queue, "sendDone")
        /\ unanswered' = unanswered \cup {sends'}

\* The stack calls IPForward.send or does not.
MaySend(queue) ==
  \/ send(queue)
  \/ taskQueue' = queue /\ UNCHANGED <<send_info_struct, sends, unanswered>>

\* receive_task
TunReceiveTask ==
  /\ Runs("tunReceive")
  /\ tunHandedUp' = Append(tunHandedUp, in_buf)
  /\ MaySend(Tail(taskQueue))
  /\ UNCHANGED <<main, sigalrm, watched, pending, tunQueue, in_buf, alive, tunSent>>

\* sendDone_task
SendDoneTask ==
  /\ Runs("sendDone")
  /\ taskQueue' = Tail(taskQueue)
  /\ unanswered' = {}
  /\ UNCHANGED <<main, sigalrm, watched, pending, tunQueue, in_buf, send_info_struct, alive>>
  /\ UNCHANGED <<tunSent, tunHandedUp, sends>>
=============================================================================
