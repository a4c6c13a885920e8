----------------------------- MODULE BorderRouter -----------------------------
(***************************************************************************)
(* A border router: the radio's receive path and the TUN interface in one  *)
(* process, under one select(), with a stack that forwards packets to the  *)
(* TUN interface, or a timer of it that sends there.                       *)
(***************************************************************************)
EXTENDS CC2520LinuxReceiveP, TunP

ASSUME BorderRouterAssumption ==
  /\ RadioFile # TunFile /\ Files = {RadioFile, TunFile}
  /\ "timer" \in Tasks

vars == <<processVars, receivePVars, tunPVars>>

TypeOK == ProcessTypeOK /\ ReceivePTypeOK /\ TunPTypeOK

Init ==
  /\ main = "running"
  /\ taskQueue = <<>>
  /\ sigalrm = FALSE
  /\ watched = [f \in Files |-> (IF f = RadioFile THEN RadioFd ELSE TunFd) % Width]
  /\ pending = {}
  /\ ReceivePInit
  /\ TunPInit

-----------------------------------------------------------------------------
\* The tasks that run code of the stack.
StackReceives ==
  /\ RadioReceiveTask
  /\ IF CrcFailed
       THEN taskQueue' = Tail(taskQueue) /\ UNCHANGED <<send_info_struct, sends, unanswered>>
       ELSE MaySend(Tail(taskQueue))
  /\ UNCHANGED <<tunQueue, in_buf, alive, tunSent, tunHandedUp>>

TimerTask ==
  /\ Runs("timer")
  /\ MaySend(Tail(taskQueue))
  /\ UNCHANGED <<main, sigalrm, watched, pending, receivePVars>>
  /\ UNCHANGED <<tunQueue, in_buf, alive, tunSent, tunHandedUp>>

Ready == {f \in Files : IF f = RadioFile THEN RadioReady ELSE TunReady}

Wakes == SelectReturns(Ready) /\ UNCHANGED <<receivePVars, tunPVars>>
WakesForNothing == SelectReturns(Files) /\ UNCHANGED <<receivePVars, tunPVars>>
TakesAlarm == Alarm("timer") /\ UNCHANGED <<receivePVars, tunPVars>>
Sleeps == (FallAsleep \/ CallSelect) /\ UNCHANGED <<receivePVars, tunPVars>>

TimerElapses ==
  /\ ~sigalrm
  /\ sigalrm' = TRUE
  /\ UNCHANGED <<main, taskQueue, watched, pending, receivePVars, tunPVars>>

-----------------------------------------------------------------------------
Process ==
  /\ alive
  /\ \/ StackReceives
     \/ TimerTask
     \/ (TunReceiveTask \/ SendDoneTask \/ TunReceiveReady) /\ UNCHANGED receivePVars
     \/ RadioReceiveReady /\ UNCHANGED tunPVars
     \/ Sleeps
Child == alive /\ (ChildReads \/ ChildWrites \/ ChildFails) /\ UNCHANGED tunPVars
Kernel == alive /\ (Wakes \/ TakesAlarm)
Environment ==
  /\ alive
  /\ \/ HostSends /\ UNCHANGED receivePVars
     \/ WakesForNothing
     \/ TimerElapses

Next == Process \/ Child \/ Kernel \/ Environment

Spec == Init /\ [][Next]_vars

\* The processes run and a pending signal is delivered.  An alarm may keep the
\* process from sleeping and may interrupt select(), but not every time: the
\* timer's interval is longer than the few steps from the last task to select().
FairSpec ==
  /\ Spec
  /\ WF_vars(Process)
  /\ WF_vars(alive /\ ChildWrites /\ UNCHANGED tunPVars)
  /\ WF_vars(alive /\ TakesAlarm)
  /\ SF_vars(alive /\ Sleeps)
  /\ SF_vars(alive /\ Wakes)

-----------------------------------------------------------------------------
\* The packet in a buffer that a posted task is still to hand up.
InBuffer(task, packet) == IF Posted(task) THEN <<packet>> ELSE <<>>

\* The packets that were taken from the radio and from the host, and that are not
\* handed up yet.
InChild == IF pkt_buf = NoPacket THEN <<>> ELSE <<pkt_buf>>
RadioWay == InBuffer("receive", contents[rx_msg_ptr]) \o pipe \o InChild
TunWay == InBuffer("tunReceive", in_buf) \o tunQueue

\* The packets are the latest among the first n.
Latest(packets, n) ==
  \A i \in 1..Len(packets) : packets[i] = n - Len(packets) + i

\* Every packet is handed up once, in the order in which it came, or is still on
\* its way: none is overwritten in the buffer before its task has run
\* (CC2520LinuxReceiveP.nc:50-98, 100-140, TunP.nc:92-135).  And a buffer that the
\* stack keeps is not written to (CC2520LinuxReceiveP.nc:95-97).
RadioInOrder ==
  /\ Latest(RadioWay, read)
  /\ {handedUp[i] : i \in 1..Len(handedUp)} = (1..(read - Len(RadioWay))) \ damaged
  /\ \A i, j \in 1..Len(handedUp) : i < j => handedUp[i] < handedUp[j]
TunInOrder ==
  /\ Latest(TunWay, tunSent)
  /\ tunHandedUp = [i \in 1..(tunSent - Len(TunWay)) |-> i]
BuffersKept ==
  \A b \in Buffers :
    kept[b] # NoPacket => b # rx_msg_ptr /\ contents[b] = kept[b] /\ kept[b] \notin damaged
ReceivedIntact == RadioInOrder /\ TunInOrder /\ BuffersKept

\* sendDone is to come if and only if a send returned SUCCESS since the last one.
\* Earlier sends have no event of their own: it tells of the latest send, which is
\* one of these unless it failed (TunP.nc:53-55, 75-88).
SendsAnswered ==
  /\ Posted("sendDone") <=> unanswered # {}
  /\ unanswered # {} =>
       \/ send_info_struct.upper_data \in unanswered
       \/ send_info_struct.failed
  /\ \A s \in unanswered : s <= send_info_struct.upper_data

\* Whatever the other file does, and although a radio that has failed keeps
\* select() from sleeping, every packet is handed up and every send is answered,
\* unless the process exits (IOManagerP.nc:66-88, CC2520LinuxReceiveP.nc:100-124,
\* TunP.nc:111-135).
NothingStarves ==
  /\ \A n \in Packets :
       read >= n ~> (n \in damaged \/ (\E i \in 1..Len(handedUp) : handedUp[i] = n) \/ ~alive)
  /\ \A n \in TunPackets : tunSent >= n ~> (Len(tunHandedUp) >= n \/ ~alive)
  /\ unanswered # {} ~> (unanswered = {} \/ ~alive)
=============================================================================
