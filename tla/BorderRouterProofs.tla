--------------------------- MODULE BorderRouterProofs ---------------------------
(***************************************************************************)
(* Proofs about the border router's receive paths, for every number of     *)
(* packets, of sends and of buffers and every size of the pipe.            *)
(***************************************************************************)
EXTENDS BorderRouter, LinuxProcessProofs, SequenceTheorems

-----------------------------------------------------------------------------
\* Sequences of packets on their way.
LEMMA FirstIsTaken ==
  ASSUME NEW s \in Seq(Nat), s # <<>>
  PROVE  <<Head(s)>> \o Tail(s) = s
<1> DEFINE first == <<Head(s)>>
<1>1. /\ Head(s) = s[1] /\ Head(s) \in Nat
      /\ Tail(s) \in Seq(Nat) /\ Len(Tail(s)) = Len(s) - 1 /\ Len(s) \in Nat \ {0}
      /\ \A i \in 1..Len(Tail(s)) : Tail(s)[i] = s[i + 1]
  BY HeadTailProperties
<1>2. first \in Seq(Nat) /\ Len(first) = 1 /\ first[1] = Head(s)
  BY <1>1
<1> HIDE DEF first
<1>3. /\ first \o Tail(s) \in Seq(Nat)
      /\ Len(first \o Tail(s)) = Len(first) + Len(Tail(s))
      /\ \A i \in 1..(Len(first) + Len(Tail(s))) :
           (first \o Tail(s))[i] = IF i <= Len(first) THEN first[i] ELSE Tail(s)[i - Len(first)]
  BY <1>1, <1>2, ConcatProperties, ZenonT(60)
<1>4. /\ Len(first \o Tail(s)) = Len(s)
      /\ \A i \in 1..Len(s) : (first \o Tail(s))[i] = s[i]
  BY <1>1, <1>2, <1>3
<1>5. first \o Tail(s) = s
  <2> DEFINE all == first \o Tail(s)
  <2>1. all \in Seq(Nat) /\ Len(all) = Len(s) /\ \A i \in 1..Len(all) : all[i] = s[i]
    BY <1>3, <1>4
  <2> HIDE DEF all
  <2>2. all = s
    BY <2>1, SeqEqual
  <2>3. QED
    BY <2>2 DEF all
<1>6. QED
  BY <1>5 DEF first

LEMMA Associative ==
  \A r, s, t \in Seq(Nat) : (r \o s) \o t = r \o (s \o t)
<1> DEFINE N == Nat
<1> SUFFICES ASSUME NEW r \in Seq(N), NEW s \in Seq(N), NEW t \in Seq(N)
             PROVE  (r \o s) \o t = r \o (s \o t)
  OBVIOUS
<1> HIDE DEF N
<1> QED
  BY ConcatAssociative, SMTT(30)

LEMMA FirstIsGone ==
  ASSUME NEW n \in Nat, NEW s \in Seq(Nat)
  PROVE  /\ Tail(<<n>> \o s) = s
         /\ (<<n>> \o s)[1] = n
         /\ <<n>> \o s # <<>>
<1> DEFINE first == <<n>>
           both == first \o s
<1>1. first \in Seq(Nat) /\ Len(first) = 1 /\ first[1] = n
  OBVIOUS
<1> HIDE DEF first
<1>2. /\ both \in Seq(Nat) /\ Len(both) = Len(first) + Len(s)
      /\ \A i \in 1..(Len(first) + Len(s)) :
           both[i] = IF i <= Len(first) THEN first[i] ELSE s[i - Len(first)]
  BY <1>1, ConcatProperties, ZenonT(60)
<1> HIDE DEF both
<1>3. Len(s) \in Nat /\ Len(both) = Len(s) + 1 /\ both # <<>>
  <2>1. Len(s) \in Nat /\ Len(both) = Len(s) + 1
    BY <1>1, <1>2, LenProperties
  <2>2. Len(both) # 0
    BY <2>1
  <2>3. QED
    BY <2>1, <2>2, EmptySeq
<1>4. /\ Tail(both) \in Seq(Nat) /\ Len(Tail(both)) = Len(s)
      /\ \A i \in 1..Len(s) : Tail(both)[i] = both[i + 1]
  <2>1. /\ Tail(both) \in Seq(Nat) /\ Len(Tail(both)) = Len(both) - 1
        /\ \A i \in 1..Len(Tail(both)) : Tail(both)[i] = both[i + 1]
    BY <1>2, <1>3, HeadTailProperties
  <2>2. QED
    BY <1>3, <2>1
<1>5. ASSUME NEW i \in 1..Len(s)
      PROVE  Tail(both)[i] = s[i]
  <2>1. i + 1 \in 1..(1 + Len(s)) /\ ~(i + 1 <= 1) /\ (i + 1) - 1 = i
    BY <1>3, <1>5
  <2>2. both[i + 1] = s[i]
    <3>1. \A j \in 1..(1 + Len(s)) : both[j] = IF j <= 1 THEN first[j] ELSE s[j - 1]
      BY <1>1, <1>2
    <3>2. QED
      BY <2>1, <3>1
  <2>3. QED
    BY <1>4, <1>5, <2>2
<1>6. Tail(both) = s
  BY <1>4, <1>5, SeqEqual
<1>7. both[1] = n
  BY <1>1, <1>2, <1>3
<1>8. QED
  BY <1>3, <1>6, <1>7 DEF both, first

LEMMA LatestAppend ==
  ASSUME NEW s \in Seq(Nat), NEW n \in Nat, Latest(s, n)
  PROVE  Latest(Append(s, n + 1), n + 1)
<1> DEFINE longer == Append(s, n + 1)
<1>1. /\ Len(longer) = Len(s) + 1 /\ Len(s) \in Nat
      /\ \A i \in 1..Len(s) : longer[i] = s[i]
      /\ longer[Len(s) + 1] = n + 1
  BY AppendProperties
<1> HIDE DEF longer
<1>2. ASSUME NEW i \in 1..Len(longer)
      PROVE  longer[i] = (n + 1) - Len(longer) + i
  <2>1. CASE i = Len(s) + 1
    BY <1>1, <2>1
  <2>2. CASE i # Len(s) + 1
    <3>1. i \in 1..Len(s) /\ s[i] = n - Len(s) + i
      BY <1>1, <2>2 DEF Latest
    <3>2. QED
      BY <1>1, <3>1
  <2>3. QED
    BY <2>1, <2>2
<1>3. QED
  BY <1>2 DEF Latest, longer

LEMMA LatestTail ==
  ASSUME NEW s \in Seq(Nat), NEW n \in Nat, Latest(s, n), s # <<>>
  PROVE  Latest(Tail(s), n) /\ s[1] = n - Len(Tail(s)) /\ Len(Tail(s)) = Len(s) - 1
<1>1. /\ Len(Tail(s)) = Len(s) - 1 /\ Len(s) \in Nat \ {0}
      /\ \A i \in 1..Len(Tail(s)) : Tail(s)[i] = s[i + 1]
  BY HeadTailProperties
<1>2. QED
  BY <1>1 DEF Latest

USE ProcessAssumption, ReceivePAssumption, TunPAssumption, BorderRouterAssumption

-----------------------------------------------------------------------------
\* The steps, one action each.
LEMMA NextCases ==
  ASSUME Next
  PROVE  \/ StackReceives \/ TimerTask
         \/ (TunReceiveTask \/ SendDoneTask \/ TunReceiveReady) /\ UNCHANGED receivePVars
         \/ RadioReceiveReady /\ UNCHANGED tunPVars
         \/ Sleeps \/ Wakes \/ WakesForNothing \/ TakesAlarm
         \/ (ChildReads \/ ChildWrites \/ ChildFails) /\ UNCHANGED tunPVars
         \/ HostSends /\ UNCHANGED receivePVars
         \/ TimerElapses
  BY DEF Next, Process, Child, Kernel, Environment

\* What a send does to the queue of tasks and to the sends.
LEMMA MaySendType ==
  ASSUME TunPTypeOK, NEW queue \in Seq(Tasks), NoTaskTwice(queue), MaySend(queue)
  PROVE  /\ taskQueue' \in Seq(Tasks) /\ NoTaskTwice(taskQueue')
         /\ \A t : t # "sendDone" => (Queued(taskQueue', t) <=> Queued(queue, t))
         /\ send_info_struct' \in [upper_data : 0..MaxSends, failed : BOOLEAN]
         /\ sends' \in 0..MaxSends /\ unanswered' \subseteq 1..sends'
         /\ \/ /\ Queued(taskQueue', "sendDone") <=> Queued(queue, "sendDone")
               /\ UNCHANGED unanswered
               /\ \/ UNCHANGED send_info_struct
                  \/ send_info_struct'.failed /\ send_info_struct'.upper_data = sends'
            \/ /\ Queued(taskQueue', "sendDone")
               /\ unanswered' = unanswered \cup {sends'}
               /\ send_info_struct'.upper_data = sends'
         /\ sends <= sends'
<1> USE DEF TunPTypeOK
<1>1. CASE UNCHANGED <<send_info_struct, sends, unanswered>> /\ taskQueue' = queue
  BY <1>1
<1>2. CASE /\ sends < MaxSends /\ sends' = sends + 1
           /\ send_info_struct' = [upper_data |-> sends', failed |-> TRUE]
           /\ taskQueue' = queue /\ UNCHANGED unanswered
  BY <1>2
<1>3. CASE /\ sends < MaxSends /\ sends' = sends + 1
           /\ send_info_struct' = [upper_data |-> sends', failed |-> FALSE]
           /\ taskQueue' = PostTo(queue, "sendDone")
           /\ unanswered' = unanswered \cup {sends'}
  <2>1. /\ taskQueue' \in Seq(Tasks) /\ NoTaskTwice(taskQueue')
        /\ \A t : Queued(taskQueue', t) <=> Queued(queue, t) \/ t = "sendDone"
    BY <1>3, PostToQueue
  <2>2. QED
    BY <1>3, <2>1
<1>4. QED
  BY <1>1, <1>2, <1>3 DEF MaySend, send

-----------------------------------------------------------------------------
\* The strengthening: events are told only in the dispatch loop, which begins with
\* no task but the timer's and tells each file once, and the buffer of a posted
\* task holds a packet.
Scheduled ==
  /\ pending # {} => main = "dispatch"
  /\ main \in {"enabled", "select"} => \A t \in Tasks : Posted(t) => t = "timer"
  /\ RadioFile \in pending => ~Posted("receive")
  /\ TunFile \in pending => ~Posted("tunReceive")

Filled ==
  /\ Posted("receive") => contents[rx_msg_ptr] # NoPacket
  /\ Posted("tunReceive") => in_buf # 0

WereRead ==
  /\ \A b \in Buffers : contents[b] <= read
  /\ \A i \in 1..Len(pipe) : pipe[i] <= read
  /\ pkt_buf <= read

IInv == TypeOK /\ Scheduled /\ Filled /\ WereRead /\ SendsAnswered /\ ReceivedIntact

LEMMA QueueType ==
  ASSUME TypeOK
  PROVE  /\ \A t \in Tasks :
              /\ PostTo(taskQueue, t) \in Seq(Tasks) /\ NoTaskTwice(PostTo(taskQueue, t))
              /\ \A u : Queued(PostTo(taskQueue, t), u) <=> Queued(taskQueue, u) \/ u = t
         /\ taskQueue # <<>> =>
              /\ Tail(taskQueue) \in Seq(Tasks) /\ NoTaskTwice(Tail(taskQueue))
              /\ \A u : Queued(Tail(taskQueue), u) <=> Queued(taskQueue, u) /\ u # Head(taskQueue)
  BY PostToQueue, TailQueue DEF TypeOK, ProcessTypeOK

LEMMA RunsPosted ==
  ASSUME TypeOK, NEW t, Runs(t)
  PROVE  Posted(t) /\ taskQueue # <<>> /\ Head(taskQueue) = t /\ main = "running"
<1>1. taskQueue \in Seq(Tasks) /\ taskQueue # <<>> /\ Head(taskQueue) = t
  BY DEF Runs, TypeOK, ProcessTypeOK
<1>2. 1 \in 1..Len(taskQueue) /\ taskQueue[1] = t
  BY <1>1
<1>3. QED
  BY <1>1, <1>2 DEF Runs, Posted, Queued

LEMMA EmptyPosts == ASSUME taskQueue = <<>>, NEW t PROVE ~Posted(t)
  BY DEF Posted, Queued

-----------------------------------------------------------------------------
\* Types.
LEMMA InitType == Init => TypeOK
<1> SUFFICES ASSUME Init PROVE TypeOK
  OBVIOUS
<1>1. ProcessTypeOK
  <2>1. Width \in Nat \ {0} /\ RadioFd % Width \in 0..(Width - 1) /\ TunFd % Width \in 0..(Width - 1)
    BY DEF Nothing
  <2>2. watched \in [Files -> 0..(Width - 1)]
    BY <2>1 DEF Init
  <2>3. NoTaskTwice(<<>>)
    BY DEF NoTaskTwice
  <2>4. taskQueue = <<>> /\ main = "running" /\ pending = {} /\ sigalrm = FALSE
    BY DEF Init
  <2>5. QED
    <3>1. taskQueue \in Seq(Tasks) /\ NoTaskTwice(taskQueue) /\ pending \in SUBSET Files
      BY <2>3, <2>4
    <3>2. main \in {"running", "enabled", "select", "dispatch"} /\ sigalrm \in BOOLEAN
      BY <2>4
    <3>3. QED
      BY <2>2, <3>1, <3>2 DEF ProcessTypeOK
<1>2. ReceivePTypeOK
  <2>1. \A b \in Buffers : NoPacket \in Packets \cup {NoPacket}
    OBVIOUS
  <2>2. QED
    BY <2>1 DEF Init, ReceivePInit, ReceivePTypeOK
<1>3. TunPTypeOK
  BY DEF Init, TunPInit, TunPTypeOK
<1>4. QED
  BY <1>1, <1>2, <1>3 DEF TypeOK

LEMMA ProcessStep == TypeOK /\ [Next]_vars => ProcessTypeOK'
<1> SUFFICES ASSUME TypeOK, [Next]_vars PROVE ProcessTypeOK'
  OBVIOUS
<1> USE DEF ProcessTypeOK
<1>t. ProcessTypeOK /\ TunPTypeOK
  BY DEF TypeOK
<1>1. CASE StackReceives
  <2>1. /\ taskQueue # <<>>
        /\ UNCHANGED <<main, sigalrm, watched, pending>>
    BY <1>1, RunsPosted DEF StackReceives, RadioReceiveTask
  <2>2. taskQueue' \in Seq(Tasks) /\ NoTaskTwice(taskQueue')
    <3>1. CASE taskQueue' = Tail(taskQueue)
      BY <2>1, <3>1, QueueType
    <3>2. CASE MaySend(Tail(taskQueue))
      BY <1>t, <2>1, <3>2, QueueType, MaySendType
    <3>3. QED
      BY <1>1, <3>1, <3>2 DEF StackReceives
  <2>3. QED
    BY <1>t, <2>1, <2>2
<1>2. CASE TimerTask \/ TunReceiveTask
  <2>1. /\ taskQueue # <<>> /\ MaySend(Tail(taskQueue))
        /\ UNCHANGED <<main, sigalrm, watched, pending>>
    BY <1>2, RunsPosted DEF TimerTask, TunReceiveTask
  <2>2. taskQueue' \in Seq(Tasks) /\ NoTaskTwice(taskQueue')
    BY <1>t, <2>1, QueueType, MaySendType
  <2>3. QED
    BY <1>t, <2>1, <2>2
<1>3. CASE SendDoneTask
  <2>1. /\ taskQueue # <<>> /\ taskQueue' = Tail(taskQueue)
        /\ UNCHANGED <<main, sigalrm, watched, pending>>
    BY <1>3, RunsPosted DEF SendDoneTask
  <2>2. QED
    BY <1>t, <2>1, QueueType
<1>4. CASE TunReceiveReady \/ RadioReceiveReady
  <2>1. main' \in {"running", "dispatch"} /\ pending' \in SUBSET Files
    BY <1>4, <1>t DEF TunReceiveReady, RadioReceiveReady, Tells
  <2>2. taskQueue' \in Seq(Tasks) /\ NoTaskTwice(taskQueue')
    BY <1>4, <1>t, QueueType DEF TunReceiveReady, RadioReceiveReady
  <2>3. UNCHANGED <<sigalrm, watched>>
    BY <1>4 DEF TunReceiveReady, RadioReceiveReady
  <2>4. QED
    BY <1>t, <2>1, <2>2, <2>3
<1>5. CASE Sleeps
  BY <1>5, <1>t DEF Sleeps, FallAsleep, CallSelect
<1>6. CASE Wakes \/ WakesForNothing
  BY <1>6, <1>t DEF Wakes, WakesForNothing, SelectReturns, Selected
<1>7. CASE TakesAlarm
  <2>1. main' \in {"running", main} /\ taskQueue' = PostTo(taskQueue, "timer")
        /\ sigalrm' = FALSE /\ UNCHANGED <<watched, pending>>
    BY <1>7 DEF TakesAlarm, Alarm
  <2>2. QED
    BY <1>t, <2>1, QueueType
<1>8. CASE TimerElapses
  BY <1>8, <1>t DEF TimerElapses
<1>9. CASE UNCHANGED processVars
  BY <1>9, <1>t DEF processVars
<1>10. QED
  <2>1. ChildReads \/ ChildWrites \/ ChildFails \/ HostSends \/ UNCHANGED vars => UNCHANGED processVars
    BY DEF ChildReads, ChildWrites, ChildFails, HostSends, vars
  <2>2. QED
    BY <1>1, <1>2, <1>3, <1>4, <1>5, <1>6, <1>7, <1>8, <1>9, <2>1, NextCases

LEMMA HandsUpType ==
  ASSUME TypeOK, Filled, Posted("receive"), NEW back \in Buffers, HandsUp(back)
  PROVE  /\ handedUp' = Append(handedUp, contents[rx_msg_ptr])
         /\ contents[rx_msg_ptr] \in Packets
         /\ handedUp' \in Seq(Packets)
         /\ kept' \in [Buffers -> Packets \cup {NoPacket}]
<1>1. contents[rx_msg_ptr] \in Packets /\ handedUp \in Seq(Packets)
  BY DEF TypeOK, ReceivePTypeOK, Filled
<1>2. handedUp' \in Seq(Packets)
  BY <1>1, AppendProperties DEF HandsUp
<1>3. kept' \in [Buffers -> Packets \cup {NoPacket}]
  BY DEF HandsUp, TypeOK, ReceivePTypeOK
<1>4. QED
  BY <1>1, <1>2, <1>3 DEF HandsUp

LEMMA ReceivePStep == TypeOK /\ Filled /\ [Next]_vars => ReceivePTypeOK'
<1> SUFFICES ASSUME TypeOK, Filled, [Next]_vars PROVE ReceivePTypeOK'
  OBVIOUS
<1> USE DEF ReceivePTypeOK
<1>t. ReceivePTypeOK
  BY DEF TypeOK
<1>1. CASE StackReceives
  <2>1. UNCHANGED <<pkt_buf, writeEnd, pipe, contents, read, damaged>>
    BY <1>1 DEF StackReceives, RadioReceiveTask
  <2>2. rx_msg_ptr' \in Buffers /\ handedUp' \in Seq(Packets)
        /\ kept' \in [Buffers -> Packets \cup {NoPacket}]
    <3>1. CASE UNCHANGED <<rx_msg_ptr, handedUp, kept>>
      BY <1>t, <3>1
    <3>2. CASE \E back \in Buffers : HandsUp(back) /\ rx_msg_ptr' = back
      <4>1. Posted("receive")
        BY <1>1, RunsPosted DEF StackReceives, RadioReceiveTask
      <4>2. QED
        BY <3>2, <4>1, HandsUpType
    <3>3. QED
      BY <1>1, <3>1, <3>2 DEF StackReceives, RadioReceiveTask
  <2>3. QED
    BY <1>t, <2>1, <2>2
<1>2. CASE RadioReceiveReady
  <2>1. UNCHANGED <<pkt_buf, writeEnd, rx_msg_ptr, read, damaged, handedUp, kept>>
    BY <1>2 DEF RadioReceiveReady
  <2>2. /\ pipe' \in Seq(Packets) /\ Len(pipe') <= PipeSize
        /\ contents' \in [Buffers -> Packets \cup {NoPacket}]
    <3>1. CASE pipe = <<>> /\ UNCHANGED <<contents, pipe>>
      BY <1>t, <3>1
    <3>2. CASE /\ pipe # <<>> /\ pipe' = Tail(pipe)
               /\ contents' = [contents EXCEPT ![rx_msg_ptr] = Head(pipe)]
      <4>1. Head(pipe) \in Packets /\ Tail(pipe) \in Seq(Packets) /\ Len(Tail(pipe)) = Len(pipe) - 1
        BY <1>t, <3>2, HeadTailProperties
      <4>2. QED
        BY <1>t, <3>2, <4>1
    <3>3. QED
      BY <1>2, <3>1, <3>2 DEF RadioReceiveReady
  <2>3. QED
    BY <1>t, <2>1, <2>2
<1>3. CASE ChildReads
  <2>1. read' = read + 1 /\ read' \in 0..MaxPackets /\ read' \in Packets /\ pkt_buf' = read'
    BY <1>3, <1>t DEF ChildReads, Packets
  <2>2. damaged' \subseteq 1..read'
    BY <1>3, <1>t, <2>1 DEF ChildReads
  <2>3. UNCHANGED <<writeEnd, pipe, rx_msg_ptr, contents, handedUp, kept>>
    BY <1>3 DEF ChildReads
  <2>4. QED
    BY <1>t, <2>1, <2>2, <2>3
<1>4. CASE ChildWrites
  <2>1. pkt_buf \in Packets /\ pipe' = Append(pipe, pkt_buf) /\ Len(pipe) < PipeSize
    BY <1>4, <1>t DEF ChildWrites
  <2>2. pipe' \in Seq(Packets) /\ Len(pipe') = Len(pipe) + 1 /\ Len(pipe) \in Nat
    BY <1>t, <2>1, AppendProperties, LenProperties
  <2>3. pkt_buf' = NoPacket /\ UNCHANGED <<writeEnd, rx_msg_ptr, contents, read, damaged, handedUp, kept>>
    BY <1>4 DEF ChildWrites
  <2>4. QED
    BY <1>t, <2>1, <2>2, <2>3
<1>5. CASE ChildFails
  BY <1>5, <1>t DEF ChildFails
<1>6. CASE UNCHANGED receivePVars
  BY <1>6, <1>t DEF receivePVars
<1>7. QED
  <2>1. \/ TimerTask \/ Sleeps \/ Wakes \/ WakesForNothing \/ TakesAlarm \/ TimerElapses
        \/ UNCHANGED vars
        => UNCHANGED receivePVars
    BY DEF TimerTask, Sleeps, Wakes, WakesForNothing, TakesAlarm, TimerElapses, vars
  <2>2. QED
    BY <1>1, <1>2, <1>3, <1>4, <1>5, <1>6, <2>1, NextCases

LEMMA TunPStep == TypeOK /\ Filled /\ [Next]_vars => TunPTypeOK'
<1> SUFFICES ASSUME TypeOK, Filled, [Next]_vars PROVE TunPTypeOK'
  OBVIOUS
<1> USE DEF TunPTypeOK
<1>t. TunPTypeOK
  BY DEF TypeOK
<1>m. ASSUME taskQueue # <<>>, MaySend(Tail(taskQueue))
      PROVE  /\ send_info_struct' \in [upper_data : 0..MaxSends, failed : BOOLEAN]
             /\ sends' \in 0..MaxSends /\ unanswered' \subseteq 1..sends'
  BY <1>t, <1>m, QueueType, MaySendType
<1>1. CASE StackReceives \/ TimerTask
  <2>1. /\ taskQueue # <<>>
        /\ \/ MaySend(Tail(taskQueue)) \/ UNCHANGED <<send_info_struct, sends, unanswered>>
        /\ UNCHANGED <<tunQueue, in_buf, alive, tunSent, tunHandedUp>>
    BY <1>1, RunsPosted DEF StackReceives, RadioReceiveTask, TimerTask
  <2>2. QED
    BY <1>t, <1>m, <2>1
<1>2. CASE TunReceiveTask
  <2>1. /\ taskQueue # <<>> /\ Posted("tunReceive") /\ MaySend(Tail(taskQueue))
        /\ tunHandedUp' = Append(tunHandedUp, in_buf)
        /\ UNCHANGED <<tunQueue, in_buf, alive, tunSent>>
    BY <1>2, RunsPosted DEF TunReceiveTask
  <2>2. in_buf \in TunPackets
    BY <1>t, <2>1 DEF Filled, TunPackets
  <2>3. tunHandedUp' \in Seq(TunPackets)
    BY <1>t, <2>1, <2>2, AppendProperties
  <2>4. QED
    BY <1>t, <1>m, <2>1, <2>3
<1>3. CASE SendDoneTask
  BY <1>3, <1>t DEF SendDoneTask
<1>4. CASE TunReceiveReady
  <2>1. UNCHANGED <<send_info_struct, tunSent, tunHandedUp, sends, unanswered>>
    BY <1>4 DEF TunReceiveReady
  <2>2. tunQueue' \in Seq(TunPackets) /\ in_buf' \in 0..MaxTun
    <3>1. CASE UNCHANGED <<in_buf, tunQueue>>
      BY <1>t, <3>1
    <3>2. CASE tunQueue # <<>> /\ in_buf' = Head(tunQueue) /\ tunQueue' = Tail(tunQueue)
      <4>1. Head(tunQueue) \in TunPackets /\ Tail(tunQueue) \in Seq(TunPackets)
        BY <1>t, <3>2, HeadTailProperties
      <4>2. QED
        BY <3>2, <4>1 DEF TunPackets
    <3>3. QED
      BY <1>4, <3>1, <3>2 DEF TunReceiveReady
  <2>3. alive' \in BOOLEAN
    BY <1>4, <1>t, Zenon DEF TunReceiveReady
  <2>4. QED
    BY <1>t, <2>1, <2>2, <2>3
<1>5. CASE HostSends
  <2>1. tunSent' = tunSent + 1 /\ tunSent' \in 0..MaxTun /\ tunSent' \in TunPackets
    BY <1>5, <1>t DEF HostSends, TunPackets
  <2>2. tunQueue' \in Seq(TunPackets)
    BY <1>5, <1>t, <2>1, AppendProperties DEF HostSends
  <2>3. UNCHANGED <<in_buf, send_info_struct, alive, tunHandedUp, sends, unanswered>>
    BY <1>5 DEF HostSends
  <2>4. QED
    BY <1>t, <2>1, <2>2, <2>3
<1>6. CASE UNCHANGED tunPVars
  BY <1>6, <1>t DEF tunPVars
<1>7. QED
  <2>1. Sleeps \/ Wakes \/ WakesForNothing \/ TakesAlarm \/ TimerElapses \/ UNCHANGED vars
        => UNCHANGED tunPVars
    BY DEF Sleeps, Wakes, WakesForNothing, TakesAlarm, TimerElapses, vars
  <2>2. QED
    BY <1>1, <1>2, <1>3, <1>4, <1>5, <1>6, <2>1, NextCases

-----------------------------------------------------------------------------
\* The schedule.
LEMMA ScheduledStep == TypeOK /\ Scheduled /\ [Next]_vars => Scheduled'
<1> SUFFICES ASSUME TypeOK, Scheduled, [Next]_vars PROVE Scheduled'
  OBVIOUS
<1> USE DEF Scheduled
<1>1. CASE StackReceives \/ TimerTask \/ TunReceiveTask \/ SendDoneTask
  <2>1. main = "running" /\ UNCHANGED <<main, pending>>
    BY <1>1, RunsPosted DEF StackReceives, RadioReceiveTask, TimerTask, TunReceiveTask, SendDoneTask
  <2>2. pending = {}
    BY <2>1
  <2>3. QED
    BY <2>1, <2>2
<1>2. CASE TunReceiveReady
  <2>1. /\ TunFile \in pending /\ pending' = pending \ {TunFile}
        /\ main' = IF pending' = {} THEN "running" ELSE "dispatch"
        /\ taskQueue' \in {taskQueue, PostTo(taskQueue, "tunReceive")}
    BY <1>2 DEF TunReceiveReady, Tells
  <2>2. Posted("receive")' => Posted("receive")
    BY <2>1, QueueType DEF Posted
  <2>3. QED
    BY <2>1, <2>2
<1>3. CASE RadioReceiveReady
  <2>1. /\ RadioFile \in pending /\ pending' = pending \ {RadioFile}
        /\ main' = IF pending' = {} THEN "running" ELSE "dispatch"
        /\ taskQueue' \in {taskQueue, PostTo(taskQueue, "receive")}
    BY <1>3 DEF RadioReceiveReady, Tells
  <2>2. Posted("tunReceive")' => Posted("tunReceive")
    BY <2>1, QueueType DEF Posted
  <2>3. QED
    BY <2>1, <2>2
<1>4. CASE Sleeps
  <2>1. UNCHANGED <<taskQueue, pending>> /\ main' \in {"enabled", "select"} /\ main \in {"running", "enabled"}
        /\ (main = "running" => taskQueue = <<>>)
    BY <1>4 DEF Sleeps, FallAsleep, CallSelect
  <2>2. \A t : Posted(t)' <=> Posted(t)
    BY <2>1 DEF Posted
  <2>3. pending' = {} /\ \A t \in Tasks : Posted(t) => t = "timer"
    BY <2>1, EmptyPosts
  <2>4. QED
    BY <2>1, <2>2, <2>3
<1>5. CASE Wakes \/ WakesForNothing
  <2>1. UNCHANGED taskQueue /\ main = "select" /\ main' = "dispatch"
    BY <1>5 DEF Wakes, WakesForNothing, SelectReturns
  <2>2. \A t : Posted(t)' <=> Posted(t)
    BY <2>1 DEF Posted
  <2>3. QED
    BY <2>1, <2>2
<1>6. CASE TakesAlarm
  <2>1. /\ taskQueue' = PostTo(taskQueue, "timer") /\ UNCHANGED pending
        /\ main' = IF main = "select" THEN "running" ELSE main
    BY <1>6 DEF TakesAlarm, Alarm
  <2>2. \A t : Posted(t)' <=> Posted(t) \/ t = "timer"
    BY <2>1, QueueType DEF Posted
  <2>3. main = "select" => pending = {}
    OBVIOUS
  <2>4. QED
    BY <2>1, <2>2, <2>3
<1>7. CASE UNCHANGED <<main, taskQueue, pending>>
  BY <1>7 DEF Posted
<1>8. QED
  <2>1. ChildReads \/ ChildWrites \/ ChildFails \/ HostSends \/ TimerElapses \/ UNCHANGED vars
        => UNCHANGED <<main, taskQueue, pending>>
    BY DEF ChildReads, ChildWrites, ChildFails, HostSends, TimerElapses, vars, processVars
  <2>2. QED
    BY <1>1, <1>2, <1>3, <1>4, <1>5, <1>6, <1>7, <2>1, NextCases

-----------------------------------------------------------------------------
\* Packets on their way.
LEMMA WaysType ==
  ASSUME TypeOK
  PROVE  /\ InBuffer("receive", contents[rx_msg_ptr]) \in Seq(Nat)
         /\ pipe \in Seq(Nat) /\ InChild \in Seq(Nat) /\ RadioWay \in Seq(Nat)
         /\ InBuffer("tunReceive", in_buf) \in Seq(Nat)
         /\ tunQueue \in Seq(Nat) /\ TunWay \in Seq(Nat)
<1> DEFINE b == InBuffer("receive", contents[rx_msg_ptr])
           t == InBuffer("tunReceive", in_buf)
<1>1. /\ contents[rx_msg_ptr] \in Nat /\ in_buf \in Nat /\ pkt_buf \in Nat
      /\ Packets \subseteq Nat /\ TunPackets \subseteq Nat
  BY DEF TypeOK, ReceivePTypeOK, TunPTypeOK, Packets, NoPacket, TunPackets
<1>2. pipe \in Seq(Nat) /\ tunQueue \in Seq(Nat)
  BY <1>1, SeqMonotonic DEF TypeOK, ReceivePTypeOK, TunPTypeOK
<1>3. b \in Seq(Nat) /\ t \in Seq(Nat) /\ InChild \in Seq(Nat)
  BY <1>1 DEF InBuffer, InChild
<1> HIDE DEF b, t
<1>4. b \o pipe \in Seq(Nat) /\ t \o tunQueue \in Seq(Nat)
  BY <1>2, <1>3, ConcatProperties
<1>5. (b \o pipe) \o InChild \in Seq(Nat)
  BY <1>3, <1>4, ConcatProperties
<1>6. QED
  BY <1>2, <1>3, <1>4, <1>5 DEF RadioWay, TunWay, b, t

\* What a step does to the packets of the radio that are on their way.
LEMMA RadioWayStep ==
  ASSUME TypeOK, Scheduled, Filled, [Next]_vars
  PROVE  \/ /\ ChildReads
            /\ RadioWay' = Append(RadioWay, read + 1)
         \/ /\ StackReceives
            /\ RadioWay = <<contents[rx_msg_ptr]>> \o RadioWay'
            /\ RadioWay' \in Seq(Nat)
            /\ Posted("receive") /\ ~Posted("receive")'
         \/ /\ ~ChildReads /\ ~StackReceives
            /\ RadioWay' = RadioWay
            /\ UNCHANGED <<read, damaged, handedUp, rx_msg_ptr, kept>>
            /\ \/ UNCHANGED contents /\ (Posted("receive")' <=> Posted("receive"))
               \/ /\ ~Posted("receive") /\ pipe # <<>>
                  /\ contents' = [contents EXCEPT ![rx_msg_ptr] = Head(pipe)]
<1> DEFINE b == InBuffer("receive", contents[rx_msg_ptr])
<1>w. b \in Seq(Nat) /\ pipe \in Seq(Nat) /\ InChild \in Seq(Nat) /\ b \o pipe \in Seq(Nat)
  BY WaysType, ConcatProperties
<1>a. (b \o pipe) \o InChild = b \o (pipe \o InChild)
  <2> HIDE DEF b
  <2>1. QED
    BY <1>w, Associative
<1>t. TypeOK'
  BY ProcessStep, ReceivePStep, TunPStep DEF TypeOK
<1>v. b' \in Seq(Nat) /\ pipe' \in Seq(Nat) /\ InChild' \in Seq(Nat) /\ (b \o pipe)' \in Seq(Nat)
  <2>1. b' \in Seq(Nat) /\ pipe' \in Seq(Nat) /\ InChild' \in Seq(Nat)
    <3>1. contents'[rx_msg_ptr'] \in Nat /\ pkt_buf' \in Nat /\ Packets \subseteq Nat
      BY <1>t DEF TypeOK, ReceivePTypeOK, Packets, NoPacket
    <3>2. pipe' \in Seq(Nat)
      BY <1>t, <3>1, SeqMonotonic DEF TypeOK, ReceivePTypeOK
    <3>3. QED
      BY <3>1, <3>2 DEF InBuffer, InChild
  <2>2. QED
    BY <2>1, ConcatProperties
<1>e. /\ RadioWay = b \o pipe \o InChild
      /\ RadioWay' = b' \o pipe' \o InChild'
  BY DEF RadioWay
<1>1. CASE ChildReads
  <2>1. pkt_buf = NoPacket /\ pkt_buf' = read + 1 /\ read \in Nat
        /\ UNCHANGED <<taskQueue, pipe, rx_msg_ptr, contents>>
    BY <1>1 DEF ChildReads, processVars, TypeOK, ReceivePTypeOK
  <2>2. InChild = <<>> /\ InChild' = <<read + 1>> /\ b' = b /\ pipe' = pipe
    BY <2>1 DEF InChild, InBuffer, Posted, NoPacket
  <2> HIDE DEF b
  <2>3. RadioWay = b \o pipe
    BY <1>e, <1>w, <2>2, ConcatEmptySeq
  <2>4. RadioWay' = RadioWay \o <<read + 1>>
    BY <1>e, <2>2, <2>3
  <2>5. RadioWay \o <<read + 1>> = Append(RadioWay, read + 1)
    BY <1>w, <2>1, <2>3, AppendIsConcat
  <2>6. QED
    BY <1>1, <2>4, <2>5
<1>2. CASE StackReceives
  <2>1. /\ Posted("receive") /\ taskQueue # <<>> /\ Head(taskQueue) = "receive"
        /\ UNCHANGED <<pkt_buf, pipe>>
    BY <1>2, RunsPosted DEF StackReceives, RadioReceiveTask
  <2>2. ~Queued(taskQueue', "receive")
    <3>1. /\ ~Queued(Tail(taskQueue), "receive")
          /\ Tail(taskQueue) \in Seq(Tasks) /\ NoTaskTwice(Tail(taskQueue))
      BY <2>1, QueueType
    <3>2. CASE taskQueue' = Tail(taskQueue)
      BY <3>1, <3>2
    <3>3. CASE MaySend(Tail(taskQueue))
      BY <3>1, <3>3, MaySendType DEF TypeOK
    <3>4. QED
      BY <1>2, <3>2, <3>3 DEF StackReceives
  <2>3. /\ ~Posted("receive")' /\ b = <<contents[rx_msg_ptr]>> /\ b' = <<>>
        /\ InChild' = InChild /\ pipe' = pipe
    BY <2>1, <2>2 DEF Posted, InBuffer, InChild
  <2> HIDE DEF b
  <2>4. RadioWay' = pipe \o InChild /\ RadioWay' \in Seq(Nat)
    <3>1. <<>> \o pipe = pipe /\ pipe \o InChild \in Seq(Nat)
      BY <1>w, ConcatEmptySeq, ConcatProperties
    <3>2. QED
      BY <1>e, <2>3, <3>1
  <2>5. RadioWay = b \o (pipe \o InChild)
    BY <1>e, <1>a
  <2>6. QED
    BY <1>2, <2>1, <2>3, <2>4, <2>5
<1>n. ASSUME UNCHANGED <<pkt_buf, pipe, rx_msg_ptr, contents>>, Posted("receive")' <=> Posted("receive")
      PROVE  RadioWay' = RadioWay
  <2>1. b' = b /\ InChild' = InChild /\ pipe' = pipe
    BY <1>n DEF InBuffer, InChild
  <2> HIDE DEF b
  <2>2. QED
    BY <1>e, <2>1
<1>3. CASE RadioReceiveReady
  <2>0. /\ ~Posted("receive") /\ ~ChildReads /\ ~StackReceives
        /\ UNCHANGED <<pkt_buf, read, damaged, handedUp, rx_msg_ptr, kept>>
    <3>1. /\ main = "dispatch" /\ RadioFile \in pending /\ pending' = pending \ {RadioFile}
          /\ UNCHANGED <<pkt_buf, read, damaged, handedUp, rx_msg_ptr, kept>>
      BY <1>3 DEF RadioReceiveReady, Tells
    <3>2. pending' # pending
      BY <3>1
    <3>3. ~ChildReads /\ ~StackReceives
      BY <3>1, <3>2 DEF ChildReads, StackReceives, RadioReceiveTask, Runs, processVars
    <3>4. QED
      BY <3>1, <3>3 DEF Scheduled
  <2>1. CASE pipe = <<>> /\ UNCHANGED <<contents, pipe, taskQueue>>
    BY <1>n, <2>0, <2>1 DEF Posted
  <2>2. CASE /\ pipe # <<>> /\ pipe' = Tail(pipe)
             /\ contents' = [contents EXCEPT ![rx_msg_ptr] = Head(pipe)]
             /\ taskQueue' = PostTo(taskQueue, "receive")
    <3>1. Posted("receive")'
      BY <2>2, QueueType DEF Posted
    <3>2. contents'[rx_msg_ptr'] = Head(pipe)
      BY <2>0, <2>2 DEF TypeOK, ReceivePTypeOK
    <3>3. b = <<>> /\ b' = <<Head(pipe)>> /\ InChild' = InChild
      BY <2>0, <3>1, <3>2 DEF InBuffer, InChild
    <3> HIDE DEF b
    <3>4. b' \o pipe' = pipe
      BY <1>w, <2>2, <3>3, FirstIsTaken
    <3>5. b \o pipe = pipe
      BY <1>w, <3>3, ConcatEmptySeq
    <3>6. RadioWay' = RadioWay
      BY <1>e, <3>3, <3>4, <3>5
    <3>7. QED
      BY <2>0, <2>2, <3>6
  <2>3. QED
    BY <1>3, <2>1, <2>2 DEF RadioReceiveReady
<1>4. CASE ChildWrites
  <2>1. /\ pkt_buf # NoPacket /\ pkt_buf' = NoPacket /\ pkt_buf \in Nat
        /\ pipe' = Append(pipe, pkt_buf)
        /\ UNCHANGED <<taskQueue, contents, read, damaged, handedUp, rx_msg_ptr, kept>>
    BY <1>4 DEF ChildWrites, processVars, TypeOK, ReceivePTypeOK, Packets
  <2>2. b' = b /\ InChild = <<pkt_buf>> /\ InChild' = <<>>
    BY <2>1 DEF InBuffer, InChild, Posted
  <2>3. ~ChildReads
    BY <2>1 DEF ChildReads
  <2>4. ~StackReceives
    BY <2>1 DEF StackReceives, RadioReceiveTask
  <2> HIDE DEF b
  <2>5. pipe' = pipe \o <<pkt_buf>>
    BY <1>w, <2>1, AppendIsConcat
  <2>6. RadioWay' = b \o (pipe \o <<pkt_buf>>)
    <3>1. (b' \o pipe') \o <<>> = b' \o pipe'
      BY <1>v, ConcatEmptySeq
    <3>2. QED
      BY <1>e, <2>2, <2>5, <3>1
  <2>7. RadioWay = b \o (pipe \o <<pkt_buf>>)
    BY <1>e, <1>a, <2>2
  <2>8. Posted("receive")' <=> Posted("receive")
    BY <2>1 DEF Posted
  <2>9. QED
    BY <2>1, <2>3, <2>4, <2>6, <2>7, <2>8
<1>5. ASSUME ~ChildReads, ~StackReceives, ~RadioReceiveReady, ~ChildWrites
      PROVE  /\ UNCHANGED <<pkt_buf, pipe, rx_msg_ptr, contents, read, damaged, handedUp, kept>>
             /\ Posted("receive")' <=> Posted("receive")
  <2>1. UNCHANGED <<pkt_buf, pipe, rx_msg_ptr, contents, read, damaged, handedUp, kept>>
    BY <1>5, NextCases DEF vars, receivePVars, TimerTask, Sleeps, Wakes, WakesForNothing, TakesAlarm,
       TimerElapses, ChildFails
  <2>2. CASE TunReceiveTask \/ TimerTask
    <3>1. /\ taskQueue # <<>> /\ Head(taskQueue) # "receive" /\ MaySend(Tail(taskQueue))
      BY <2>2, RunsPosted DEF TunReceiveTask, TimerTask
    <3>2. /\ Queued(Tail(taskQueue), "receive") <=> Posted("receive")
          /\ Tail(taskQueue) \in Seq(Tasks) /\ NoTaskTwice(Tail(taskQueue))
      BY <3>1, QueueType DEF Posted
    <3>3. QED
      BY <2>1, <3>1, <3>2, MaySendType DEF TypeOK, Posted
  <2>3. CASE SendDoneTask
    <3>1. taskQueue # <<>> /\ Head(taskQueue) # "receive" /\ taskQueue' = Tail(taskQueue)
      BY <2>3, RunsPosted DEF SendDoneTask
    <3>2. QED
      BY <2>1, <3>1, QueueType DEF Posted
  <2>4. CASE TunReceiveReady \/ TakesAlarm
    <3>1. taskQueue' \in {taskQueue, PostTo(taskQueue, "tunReceive"), PostTo(taskQueue, "timer")}
      BY <2>4 DEF TunReceiveReady, TakesAlarm, Alarm
    <3>2. QED
      BY <2>1, <3>1, QueueType DEF Posted
  <2>5. CASE UNCHANGED taskQueue
    BY <2>1, <2>5 DEF Posted
  <2>6. QED
    <3>1. \/ Sleeps \/ Wakes \/ WakesForNothing \/ ChildFails \/ HostSends \/ TimerElapses
          \/ UNCHANGED vars
          => UNCHANGED taskQueue
      BY DEF Sleeps, FallAsleep, CallSelect, Wakes, WakesForNothing, SelectReturns, ChildFails,
         HostSends, TimerElapses, vars, processVars
    <3>2. QED
      BY <1>5, <2>2, <2>3, <2>4, <2>5, <3>1, NextCases
<1>6. QED
  BY <1>1, <1>2, <1>3, <1>4, <1>5, <1>n

\* What a step does to the packets of the host that are on their way.
LEMMA TunWayStep ==
  ASSUME TypeOK, Scheduled, Filled, [Next]_vars
  PROVE  \/ /\ HostSends
            /\ TunWay' = Append(TunWay, tunSent + 1)
            /\ UNCHANGED <<taskQueue, in_buf>>
         \/ /\ TunReceiveTask
            /\ TunWay = <<in_buf>> \o TunWay'
            /\ TunWay' \in Seq(Nat)
            /\ Posted("tunReceive") /\ ~Posted("tunReceive")'
         \/ /\ TunWay' = TunWay
            /\ UNCHANGED <<tunSent, tunHandedUp>>
            /\ \/ UNCHANGED in_buf /\ (Posted("tunReceive")' <=> Posted("tunReceive"))
               \/ ~Posted("tunReceive") /\ tunQueue # <<>> /\ in_buf' = Head(tunQueue)
<1> DEFINE b == InBuffer("tunReceive", in_buf)
<1>w. b \in Seq(Nat) /\ tunQueue \in Seq(Nat) /\ b \o tunQueue \in Seq(Nat)
  BY WaysType, ConcatProperties
<1>e. /\ TunWay = b \o tunQueue
      /\ TunWay' = b' \o tunQueue'
  BY DEF TunWay
<1>1. CASE HostSends
  <2>1. tunQueue' = Append(tunQueue, tunSent + 1) /\ tunSent + 1 \in Nat /\ UNCHANGED <<taskQueue, in_buf>>
    BY <1>1 DEF HostSends, processVars, TypeOK, TunPTypeOK
  <2>2. b' = b
    BY <2>1 DEF InBuffer, Posted
  <2> HIDE DEF b
  <2>3. tunQueue' = tunQueue \o <<tunSent + 1>> /\ <<tunSent + 1>> \in Seq(Nat)
    BY <1>w, <2>1, AppendIsConcat
  <2>4. TunWay' = TunWay \o <<tunSent + 1>>
    BY <1>e, <1>w, <2>2, <2>3, ConcatAssociative
  <2>5. TunWay \o <<tunSent + 1>> = Append(TunWay, tunSent + 1)
    BY <1>e, <1>w, <2>1, AppendIsConcat
  <2>6. QED
    BY <1>1, <2>1, <2>4, <2>5
<1>2. CASE TunReceiveTask
  <2>1. /\ Posted("tunReceive") /\ taskQueue # <<>> /\ Head(taskQueue) = "tunReceive"
        /\ MaySend(Tail(taskQueue)) /\ UNCHANGED tunQueue
    BY <1>2, RunsPosted DEF TunReceiveTask
  <2>2. ~Queued(taskQueue', "tunReceive")
    BY <2>1, QueueType, MaySendType DEF TypeOK
  <2>3. ~Posted("tunReceive")' /\ b = <<in_buf>> /\ b' = <<>>
    BY <2>1, <2>2 DEF Posted, InBuffer
  <2> HIDE DEF b
  <2>4. TunWay' = tunQueue
    BY <1>e, <1>w, <2>1, <2>3, ConcatEmptySeq
  <2>5. QED
    BY <1>2, <1>e, <1>w, <2>1, <2>3, <2>4
<1>n. ASSUME UNCHANGED <<tunQueue, in_buf>>, Posted("tunReceive")' <=> Posted("tunReceive")
      PROVE  TunWay' = TunWay
  <2>1. b' = b
    BY <1>n DEF InBuffer
  <2> HIDE DEF b
  <2>2. QED
    BY <1>e, <1>n, <2>1
<1>3. CASE TunReceiveReady
  <2>0. ~Posted("tunReceive") /\ UNCHANGED <<tunSent, tunHandedUp>>
    BY <1>3 DEF Scheduled, TunReceiveReady, Tells
  <2>1. CASE UNCHANGED <<in_buf, tunQueue, taskQueue>>
    BY <1>n, <2>0, <2>1 DEF Posted
  <2>2. CASE /\ tunQueue # <<>> /\ in_buf' = Head(tunQueue) /\ tunQueue' = Tail(tunQueue)
             /\ taskQueue' = PostTo(taskQueue, "tunReceive")
    <3>1. Posted("tunReceive")'
      BY <2>2, QueueType DEF Posted
    <3>2. b = <<>> /\ b' = <<Head(tunQueue)>>
      BY <2>0, <2>2, <3>1 DEF InBuffer
    <3> HIDE DEF b
    <3>3. b' \o tunQueue' = tunQueue
      BY <1>w, <2>2, <3>2, FirstIsTaken
    <3>4. b \o tunQueue = tunQueue
      BY <1>w, <3>2, ConcatEmptySeq
    <3>5. QED
      BY <1>e, <2>0, <2>2, <3>3, <3>4
  <2>3. QED
    BY <1>3, <2>1, <2>2 DEF TunReceiveReady
<1>4. ASSUME ~HostSends, ~TunReceiveTask, ~TunReceiveReady
      PROVE  /\ UNCHANGED <<tunQueue, in_buf, tunSent, tunHandedUp>>
             /\ Posted("tunReceive")' <=> Posted("tunReceive")
  <2>1. UNCHANGED <<tunQueue, in_buf, tunSent, tunHandedUp>>
    BY <1>4, NextCases DEF vars, tunPVars, StackReceives, TimerTask, SendDoneTask, Sleeps, Wakes,
       WakesForNothing, TakesAlarm, TimerElapses
  <2>2. CASE StackReceives \/ TimerTask
    <3>1. /\ taskQueue # <<>> /\ Head(taskQueue) # "tunReceive"
          /\ taskQueue' = Tail(taskQueue) \/ MaySend(Tail(taskQueue))
      BY <2>2, RunsPosted DEF StackReceives, RadioReceiveTask, TimerTask
    <3>2. /\ Queued(Tail(taskQueue), "tunReceive") <=> Posted("tunReceive")
          /\ Tail(taskQueue) \in Seq(Tasks) /\ NoTaskTwice(Tail(taskQueue))
      BY <3>1, QueueType DEF Posted
    <3>3. QED
      BY <2>1, <3>1, <3>2, MaySendType DEF TypeOK, Posted
  <2>3. CASE SendDoneTask
    <3>1. taskQueue # <<>> /\ Head(taskQueue) # "tunReceive" /\ taskQueue' = Tail(taskQueue)
      BY <2>3, RunsPosted DEF SendDoneTask
    <3>2. QED
      BY <2>1, <3>1, QueueType DEF Posted
  <2>4. CASE RadioReceiveReady \/ TakesAlarm
    <3>1. taskQueue' \in {taskQueue, PostTo(taskQueue, "receive"), PostTo(taskQueue, "timer")}
      BY <2>4 DEF RadioReceiveReady, TakesAlarm, Alarm
    <3>2. QED
      BY <2>1, <3>1, QueueType DEF Posted
  <2>5. CASE UNCHANGED taskQueue
    BY <2>1, <2>5 DEF Posted
  <2>6. QED
    <3>1. \/ Sleeps \/ Wakes \/ WakesForNothing \/ ChildReads \/ ChildWrites \/ ChildFails
          \/ TimerElapses \/ UNCHANGED vars
          => UNCHANGED taskQueue
      BY DEF Sleeps, FallAsleep, CallSelect, Wakes, WakesForNothing, SelectReturns, ChildReads,
         ChildWrites, ChildFails, TimerElapses, vars, processVars
    <3>2. QED
      BY <1>4, <2>2, <2>3, <2>4, <2>5, <3>1, NextCases
<1>5. QED
  BY <1>1, <1>2, <1>3, <1>4, <1>n

-----------------------------------------------------------------------------
\* The rest of the strengthening.
LEMMA FilledStep == TypeOK /\ Scheduled /\ Filled /\ [Next]_vars => Filled'
<1> SUFFICES ASSUME TypeOK, Scheduled, Filled, [Next]_vars PROVE Filled'
  OBVIOUS
<1>1. Posted("receive")' => contents'[rx_msg_ptr'] # NoPacket
  <2>1. CASE ChildReads
    BY <2>1 DEF ChildReads, processVars, Filled, Posted
  <2>2. CASE Posted("receive") /\ ~Posted("receive")'
    BY <2>2
  <2>3. CASE UNCHANGED <<rx_msg_ptr, contents>> /\ (Posted("receive")' <=> Posted("receive"))
    BY <2>3 DEF Filled
  <2>4. CASE /\ pipe # <<>> /\ UNCHANGED rx_msg_ptr
             /\ contents' = [contents EXCEPT ![rx_msg_ptr] = Head(pipe)]
    <3>1. Head(pipe) \in Packets /\ rx_msg_ptr \in Buffers /\ DOMAIN contents = Buffers
      BY <2>4, HeadTailProperties DEF TypeOK, ReceivePTypeOK
    <3>2. QED
      BY <2>4, <3>1 DEF Packets, NoPacket
  <2>5. QED
    BY <2>1, <2>2, <2>3, <2>4, RadioWayStep
<1>2. Posted("tunReceive")' => in_buf' # 0
  <2>1. CASE UNCHANGED in_buf /\ (Posted("tunReceive")' => Posted("tunReceive"))
    BY <2>1 DEF Filled
  <2>2. CASE ~Posted("tunReceive")'
    BY <2>2
  <2>3. CASE tunQueue # <<>> /\ in_buf' = Head(tunQueue)
    <3>1. Head(tunQueue) \in TunPackets
      BY <2>3, HeadTailProperties DEF TypeOK, TunPTypeOK
    <3>2. QED
      BY <2>3, <3>1 DEF TunPackets
  <2>4. CASE UNCHANGED <<taskQueue, in_buf>>
    BY <2>4 DEF Filled, Posted
  <2>5. QED
    BY <2>1, <2>2, <2>3, <2>4, TunWayStep
<1>3. QED
  BY <1>1, <1>2 DEF Filled

LEMMA WereReadStep == TypeOK /\ Filled /\ WereRead /\ [Next]_vars => WereRead'
<1> SUFFICES ASSUME TypeOK, Filled, WereRead, [Next]_vars PROVE WereRead'
  OBVIOUS
<1> USE DEF WereRead
<1>t. /\ read \in Nat /\ pkt_buf \in Nat /\ pipe \in Seq(Packets) /\ rx_msg_ptr \in Buffers
      /\ contents \in [Buffers -> Nat] /\ Packets \subseteq Nat
  BY DEF TypeOK, ReceivePTypeOK, Packets, NoPacket
<1>1. CASE RadioReceiveReady
  <2>1. UNCHANGED <<pkt_buf, read>>
    BY <1>1 DEF RadioReceiveReady
  <2>2. CASE UNCHANGED <<contents, pipe>>
    BY <2>1, <2>2
  <2>3. CASE /\ pipe # <<>> /\ pipe' = Tail(pipe)
             /\ contents' = [contents EXCEPT ![rx_msg_ptr] = Head(pipe)]
    <3>1. /\ Head(pipe) = pipe[1] /\ Len(pipe) \in Nat \ {0} /\ Len(Tail(pipe)) = Len(pipe) - 1
          /\ \A i \in 1..Len(Tail(pipe)) : Tail(pipe)[i] = pipe[i + 1]
      BY <1>t, <2>3, HeadTailProperties
    <3>2. QED
      BY <1>t, <2>1, <2>3, <3>1
  <2>4. QED
    BY <1>1, <2>2, <2>3 DEF RadioReceiveReady
<1>2. CASE ChildReads
  <2>1. read' = read + 1 /\ pkt_buf' = read + 1 /\ UNCHANGED <<contents, pipe>>
    BY <1>2 DEF ChildReads
  <2>2. \A i \in 1..Len(pipe) : pipe[i] \in Nat
    BY <1>t, ElementOfSeq
  <2>3. QED
    BY <1>t, <2>1, <2>2
<1>3. CASE ChildWrites
  <2>1. pkt_buf \in Packets /\ pipe' = Append(pipe, pkt_buf) /\ pkt_buf' = NoPacket /\ UNCHANGED <<contents, read>>
    BY <1>3 DEF ChildWrites, TypeOK, ReceivePTypeOK
  <2>2. /\ Len(pipe') = Len(pipe) + 1 /\ Len(pipe) \in Nat
        /\ \A i \in 1..Len(pipe) : pipe'[i] = pipe[i]
        /\ pipe'[Len(pipe) + 1] = pkt_buf
    BY <1>t, <2>1, AppendProperties, LenProperties
  <2>3. QED
    BY <1>t, <2>1, <2>2 DEF NoPacket
<1>4. CASE UNCHANGED <<contents, pipe, pkt_buf, read>>
  BY <1>4
<1>5. QED
  <2>1. ~RadioReceiveReady /\ ~ChildReads /\ ~ChildWrites => UNCHANGED <<contents, pipe, pkt_buf, read>>
    BY NextCases DEF vars, receivePVars, StackReceives, RadioReceiveTask, TimerTask, Sleeps, Wakes,
       WakesForNothing, TakesAlarm, TimerElapses, ChildFails
  <2>2. QED
    BY <1>1, <1>2, <1>3, <1>4, <2>1

-----------------------------------------------------------------------------
\* The order of the packets.
LEMMA AppendElements ==
  ASSUME NEW S, NEW s \in Seq(S), NEW e \in S
  PROVE  {Append(s, e)[i] : i \in 1..Len(Append(s, e))} = {s[i] : i \in 1..Len(s)} \cup {e}
<1> DEFINE longer == Append(s, e)
<1>1. /\ Len(longer) = Len(s) + 1 /\ Len(s) \in Nat
      /\ \A i \in 1..Len(s) : longer[i] = s[i]
      /\ longer[Len(s) + 1] = e
  BY AppendProperties, LenProperties
<1> HIDE DEF longer
<1>2. \A i \in 1..Len(longer) : i \in 1..Len(s) \/ i = Len(s) + 1
  BY <1>1
<1>3. {longer[i] : i \in 1..Len(longer)} \subseteq {s[i] : i \in 1..Len(s)} \cup {e}
  BY <1>1, <1>2
<1>4. {s[i] : i \in 1..Len(s)} \cup {e} \subseteq {longer[i] : i \in 1..Len(longer)}
  <2>1. Len(s) + 1 \in 1..Len(longer) /\ \A i \in 1..Len(s) : i \in 1..Len(longer)
    BY <1>1
  <2>2. QED
    BY <1>1, <2>1
<1>5. QED
  BY <1>3, <1>4 DEF longer

LEMMA RadioOrderStep ==
  TypeOK /\ Scheduled /\ Filled /\ RadioInOrder /\ [Next]_vars => RadioInOrder'
<1> SUFFICES ASSUME TypeOK, Scheduled, Filled, RadioInOrder, [Next]_vars
             PROVE  RadioInOrder'
  OBVIOUS
<1> USE DEF RadioInOrder
<1>t. /\ RadioWay \in Seq(Nat) /\ Len(RadioWay) \in Nat /\ read \in Nat
      /\ handedUp \in Seq(Packets) /\ damaged \subseteq 1..read
  BY WaysType, LenProperties DEF TypeOK, ReceivePTypeOK
<1>1. CASE ChildReads /\ RadioWay' = Append(RadioWay, read + 1)
  <2>1. read' = read + 1 /\ handedUp' = handedUp /\ damaged' \in {damaged, damaged \cup {read + 1}}
    BY <1>1 DEF ChildReads
  <2>2. Latest(RadioWay', read')
    BY <1>1, <1>t, <2>1, LatestAppend
  <2>3. Len(RadioWay') = Len(RadioWay) + 1
    BY <1>1, <1>t, AppendProperties
  <2>4. (1..(read' - Len(RadioWay'))) \ damaged' = (1..(read - Len(RadioWay))) \ damaged
    <3>1. read' - Len(RadioWay') = read - Len(RadioWay)
      BY <1>t, <2>1, <2>3
    <3>2. read + 1 \notin 1..(read - Len(RadioWay))
      BY <1>t
    <3>3. QED
      BY <2>1, <3>1, <3>2
  <2>5. QED
    BY <2>1, <2>2, <2>4
<1>2. CASE /\ StackReceives /\ Posted("receive")
           /\ RadioWay = <<contents[rx_msg_ptr]>> \o RadioWay'
           /\ RadioWay' \in Seq(Nat)
  <2> DEFINE c == contents[rx_msg_ptr]
  <2>1. c \in Packets /\ c \in Nat \ {0} /\ UNCHANGED <<read, damaged>>
    BY <1>2 DEF Filled, TypeOK, ReceivePTypeOK, NoPacket, Packets, StackReceives, RadioReceiveTask
  <2> HIDE DEF c
  <2>2. Tail(RadioWay) = RadioWay' /\ RadioWay[1] = c /\ RadioWay # <<>>
    BY <1>2, <2>1, FirstIsGone DEF c
  <2>3. /\ Latest(RadioWay', read) /\ c = read - Len(RadioWay')
        /\ Len(RadioWay') = Len(RadioWay) - 1
    BY <1>t, <2>2, LatestTail
  <2>4. {handedUp[i] : i \in 1..Len(handedUp)} = (1..(c - 1)) \ damaged
    BY <1>t, <2>1, <2>3
  <2>5. 1..c = (1..(c - 1)) \cup {c}
    BY <2>1
  <2>6. CASE c \in damaged /\ UNCHANGED handedUp
    BY <2>1, <2>3, <2>4, <2>5, <2>6
  <2>7. CASE c \notin damaged /\ \E back \in Buffers : HandsUp(back)
    <3>1. handedUp' = Append(handedUp, c)
      BY <2>7 DEF HandsUp, c
    <3>2. {handedUp'[i] : i \in 1..Len(handedUp')} = ((1..(c - 1)) \ damaged) \cup {c}
      BY <1>t, <2>1, <2>4, <3>1, AppendElements
    <3>3. {handedUp'[i] : i \in 1..Len(handedUp')} = (1..c) \ damaged
      BY <2>5, <2>7, <3>2
    <3>4. /\ Len(handedUp') = Len(handedUp) + 1 /\ Len(handedUp) \in Nat
          /\ \A i \in 1..Len(handedUp) : handedUp'[i] = handedUp[i]
          /\ handedUp'[Len(handedUp) + 1] = c
      BY <1>t, <2>1, <3>1, AppendProperties, LenProperties
    <3>5. \A i \in 1..Len(handedUp) : handedUp[i] \in 1..(c - 1)
      BY <2>4
    <3>6. ASSUME NEW i \in 1..Len(handedUp'), NEW j \in 1..Len(handedUp'), i < j
          PROVE  handedUp'[i] < handedUp'[j]
      <4>1. i \in 1..Len(handedUp)
        BY <3>4, <3>6
      <4>2. CASE j \in 1..Len(handedUp)
        BY <3>4, <3>6, <4>1, <4>2
      <4>3. CASE j = Len(handedUp) + 1
        BY <2>1, <3>4, <3>5, <4>1, <4>3
      <4>4. QED
        BY <3>4, <4>2, <4>3
    <3>7. QED
      BY <2>1, <2>3, <3>3, <3>6
  <2>8. QED
    BY <1>2, <2>6, <2>7 DEF StackReceives, RadioReceiveTask, CrcFailed, c
<1>3. CASE RadioWay' = RadioWay /\ UNCHANGED <<read, damaged, handedUp>>
  BY <1>3
<1>4. QED
  BY <1>1, <1>2, <1>3, RadioWayStep

LEMMA TunOrderStep == TypeOK /\ Scheduled /\ Filled /\ TunInOrder /\ [Next]_vars => TunInOrder'
<1> SUFFICES ASSUME TypeOK, Scheduled, Filled, TunInOrder, [Next]_vars
             PROVE  TunInOrder'
  OBVIOUS
<1> USE DEF TunInOrder
<1>t. /\ TunWay \in Seq(Nat) /\ Len(TunWay) \in Nat /\ tunSent \in Nat
      /\ tunHandedUp \in Seq(TunPackets)
  BY WaysType, LenProperties DEF TypeOK, TunPTypeOK
<1>1. CASE HostSends /\ TunWay' = Append(TunWay, tunSent + 1)
  <2>1. tunSent' = tunSent + 1 /\ UNCHANGED tunHandedUp
    BY <1>1 DEF HostSends
  <2>2. Latest(TunWay', tunSent')
    BY <1>1, <1>t, <2>1, LatestAppend
  <2>3. Len(TunWay') = Len(TunWay) + 1
    BY <1>1, <1>t, AppendProperties
  <2>4. tunSent' - Len(TunWay') = tunSent - Len(TunWay)
    BY <1>t, <2>1, <2>3
  <2>5. QED
    BY <2>1, <2>2, <2>4
<1>2. CASE /\ TunReceiveTask /\ Posted("tunReceive")
           /\ TunWay = <<in_buf>> \o TunWay'
           /\ TunWay' \in Seq(Nat)
  <2>1. /\ in_buf \in TunPackets /\ in_buf \in Nat \ {0} /\ UNCHANGED tunSent
        /\ tunHandedUp' = Append(tunHandedUp, in_buf)
    BY <1>2 DEF Filled, TypeOK, TunPTypeOK, TunPackets, TunReceiveTask
  <2>2. Tail(TunWay) = TunWay' /\ TunWay[1] = in_buf /\ TunWay # <<>>
    BY <1>2, <2>1, FirstIsGone
  <2>3. /\ Latest(TunWay', tunSent) /\ in_buf = tunSent - Len(TunWay')
        /\ Len(TunWay') = Len(TunWay) - 1
    BY <1>t, <2>2, LatestTail
  <2>4. tunHandedUp = [i \in 1..(in_buf - 1) |-> i]
    BY <1>t, <2>1, <2>3
  <2>5. tunHandedUp' = [i \in 1..in_buf |-> i]
    <3> DEFINE short == [i \in 1..(in_buf - 1) |-> i]
               long == [i \in 1..in_buf |-> i]
    <3>1. short \in Seq(Nat) /\ Len(short) = in_buf - 1 /\ \A i \in 1..(in_buf - 1) : short[i] = i
      BY <2>1
    <3>2. long \in Seq(Nat) /\ Len(long) = in_buf /\ \A i \in 1..in_buf : long[i] = i
      BY <2>1
    <3> HIDE DEF short, long
    <3>3. /\ Append(short, in_buf) \in Seq(Nat)
          /\ Len(Append(short, in_buf)) = in_buf
          /\ \A i \in 1..(in_buf - 1) : Append(short, in_buf)[i] = i
          /\ Append(short, in_buf)[in_buf] = in_buf
      BY <2>1, <3>1, AppendProperties
    <3>4. \A i \in 1..in_buf : Append(short, in_buf)[i] = long[i]
      BY <2>1, <3>2, <3>3
    <3>5. Append(short, in_buf) = long
      BY <3>2, <3>3, <3>4, SeqEqual
    <3>6. QED
      BY <2>1, <2>4, <3>5 DEF short, long
  <2>6. QED
    BY <2>1, <2>3, <2>5
<1>3. CASE TunWay' = TunWay /\ UNCHANGED <<tunSent, tunHandedUp>>
  BY <1>3
<1>4. QED
  BY <1>1, <1>2, <1>3, TunWayStep

LEMMA KeptStep ==
  TypeOK /\ Scheduled /\ Filled /\ WereRead /\ BuffersKept /\ [Next]_vars => BuffersKept'
<1> SUFFICES ASSUME TypeOK, Scheduled, Filled, WereRead, BuffersKept, [Next]_vars
             PROVE  BuffersKept'
  OBVIOUS
<1> USE DEF BuffersKept
<1>t. /\ contents \in [Buffers -> Nat] /\ kept \in [Buffers -> Nat]
      /\ rx_msg_ptr \in Buffers /\ read \in Nat
  <2>1. Packets \cup {NoPacket} \subseteq Nat
    BY DEF Packets, NoPacket
  <2>2. QED
    BY <2>1 DEF TypeOK, ReceivePTypeOK
<1>1. CASE ChildReads
  <2>1. damaged' \in {damaged, damaged \cup {read + 1}} /\ UNCHANGED <<contents, kept, rx_msg_ptr>>
    BY <1>1 DEF ChildReads
  <2>2. \A b \in Buffers : contents[b] # read + 1
    BY <1>t DEF WereRead
  <2>3. QED
    BY <2>1, <2>2
<1>2. CASE StackReceives
  <2>1. UNCHANGED <<contents, damaged>>
    BY <1>2 DEF StackReceives, RadioReceiveTask
  <2>2. CASE UNCHANGED <<rx_msg_ptr, kept>>
    BY <2>1, <2>2
  <2>3. CASE /\ contents[rx_msg_ptr] \notin damaged
             /\ \E back \in Buffers : HandsUp(back) /\ rx_msg_ptr' = back
    BY <1>t, <2>1, <2>3 DEF HandsUp
  <2>4. QED
    BY <1>2, <2>2, <2>3 DEF StackReceives, RadioReceiveTask, CrcFailed
<1>3. CASE /\ UNCHANGED <<damaged, rx_msg_ptr, kept>>
           /\ contents' = contents \/ contents' = [contents EXCEPT ![rx_msg_ptr] = Head(pipe)]
  BY <1>t, <1>3
<1>4. QED
  BY <1>1, <1>2, <1>3, RadioWayStep

-----------------------------------------------------------------------------
\* The answers to the sends.
LEMMA SendsStep == TypeOK /\ SendsAnswered /\ [Next]_vars => SendsAnswered'
<1> SUFFICES ASSUME TypeOK, SendsAnswered, [Next]_vars PROVE SendsAnswered'
  OBVIOUS
<1> USE DEF SendsAnswered
<1>t. sends \in Nat /\ unanswered \subseteq 1..sends
  BY DEF TypeOK, TunPTypeOK
<1>m. ASSUME NEW queue \in Seq(Tasks), NoTaskTwice(queue), MaySend(queue),
             Queued(queue, "sendDone") <=> Posted("sendDone")
      PROVE  SendsAnswered'
  <2>1. sends' \in Nat /\ sends <= sends'
    BY <1>m, MaySendType DEF TypeOK
  <2>2. CASE /\ Queued(taskQueue', "sendDone") <=> Queued(queue, "sendDone")
             /\ UNCHANGED <<unanswered, send_info_struct>>
    BY <1>m, <2>2 DEF Posted
  <2>3. CASE /\ Queued(taskQueue', "sendDone") <=> Queued(queue, "sendDone")
             /\ UNCHANGED unanswered
             /\ send_info_struct'.failed /\ send_info_struct'.upper_data = sends'
    <3>1. \A s \in unanswered : s <= sends'
      BY <1>t, <2>1
    <3>2. unanswered' # {} <=> Queued(taskQueue', "sendDone")
      BY <1>m, <2>3 DEF Posted
    <3>3. QED
      BY <2>3, <3>1, <3>2, Zenon DEF Posted
  <2>4. CASE /\ Queued(taskQueue', "sendDone")
             /\ unanswered' = unanswered \cup {sends'}
             /\ send_info_struct'.upper_data = sends'
    BY <1>t, <2>1, <2>4 DEF Posted
  <2>5. QED
    <3>1. TunPTypeOK
      BY DEF TypeOK
    <3>2. QED
      BY <1>m, <2>2, <2>3, <2>4, <3>1, MaySendType
<1>1. CASE StackReceives \/ TimerTask \/ TunReceiveTask
  <2>1. /\ taskQueue # <<>> /\ Head(taskQueue) # "sendDone"
        /\ \/ MaySend(Tail(taskQueue))
           \/ taskQueue' = Tail(taskQueue) /\ UNCHANGED <<send_info_struct, unanswered>>
    BY <1>1, RunsPosted DEF StackReceives, RadioReceiveTask, TimerTask, TunReceiveTask
  <2>2. /\ Queued(Tail(taskQueue), "sendDone") <=> Posted("sendDone")
        /\ Tail(taskQueue) \in Seq(Tasks) /\ NoTaskTwice(Tail(taskQueue))
    BY <2>1, QueueType DEF Posted
  <2>3. CASE MaySend(Tail(taskQueue))
    BY <1>m, <2>2, <2>3
  <2>4. CASE taskQueue' = Tail(taskQueue) /\ UNCHANGED <<send_info_struct, unanswered>>
    BY <2>2, <2>4 DEF Posted
  <2>5. QED
    BY <2>1, <2>3, <2>4
<1>2. CASE SendDoneTask
  <2>1. /\ taskQueue # <<>> /\ Head(taskQueue) = "sendDone"
        /\ taskQueue' = Tail(taskQueue) /\ unanswered' = {}
    BY <1>2, RunsPosted DEF SendDoneTask
  <2>2. ~Posted("sendDone")'
    BY <2>1, QueueType DEF Posted
  <2>3. QED
    BY <2>1, <2>2
<1>3. CASE TunReceiveReady \/ (RadioReceiveReady /\ UNCHANGED tunPVars) \/ TakesAlarm
  <2>1. /\ taskQueue' \in {taskQueue, PostTo(taskQueue, "tunReceive"), PostTo(taskQueue, "receive"),
                           PostTo(taskQueue, "timer")}
        /\ UNCHANGED <<send_info_struct, unanswered>>
    BY <1>3 DEF TunReceiveReady, RadioReceiveReady, TakesAlarm, Alarm, tunPVars
  <2>2. Posted("sendDone")' <=> Posted("sendDone")
    BY <2>1, QueueType DEF Posted
  <2>3. QED
    BY <2>1, <2>2
<1>4. CASE UNCHANGED <<taskQueue, send_info_struct, unanswered>>
  BY <1>4 DEF Posted
<1>5. QED
  <2>1. \/ Sleeps \/ Wakes \/ WakesForNothing \/ TimerElapses \/ HostSends
        \/ ((ChildReads \/ ChildWrites \/ ChildFails) /\ UNCHANGED tunPVars)
        \/ UNCHANGED vars
        => UNCHANGED <<taskQueue, send_info_struct, unanswered>>
    BY DEF Sleeps, FallAsleep, CallSelect, Wakes, WakesForNothing, SelectReturns, HostSends,
       ChildReads, ChildWrites, ChildFails, TimerElapses, vars, processVars, tunPVars
  <2>2. QED
    BY <1>1, <1>2, <1>3, <1>4, <2>1, NextCases

-----------------------------------------------------------------------------
LEMMA InitIInv == Init => IInv
<1> SUFFICES ASSUME Init PROVE IInv
  OBVIOUS
<1> USE DEF Init, ReceivePInit, TunPInit
<1>1. \A t : ~Posted(t)
  BY EmptyPosts
<1>2. Scheduled /\ Filled
  BY <1>1 DEF Scheduled, Filled
<1>3. WereRead /\ BuffersKept
  BY DEF WereRead, BuffersKept, NoPacket
<1>4. SendsAnswered
  BY <1>1 DEF SendsAnswered
<1>5. RadioWay = <<>> /\ TunWay = <<>>
  <2>1. <<>> \o <<>> = <<>>
    BY ConcatEmptySeq, EmptySeq
  <2>2. QED
    BY <1>1, <2>1 DEF RadioWay, TunWay, InBuffer, InChild
<1>6. RadioInOrder /\ TunInOrder
  BY <1>5 DEF RadioInOrder, TunInOrder, Latest
<1>7. QED
  BY <1>2, <1>3, <1>4, <1>6, InitType DEF IInv, ReceivedIntact

LEMMA StepIInv == IInv /\ [Next]_vars => IInv'
<1> SUFFICES ASSUME IInv, [Next]_vars PROVE IInv'
  OBVIOUS
<1> USE DEF IInv, ReceivedIntact
<1>1. TypeOK'
  BY ProcessStep, ReceivePStep, TunPStep DEF TypeOK
<1>2. Scheduled' /\ Filled' /\ WereRead'
  BY ScheduledStep, FilledStep, WereReadStep
<1>3. SendsAnswered'
  BY SendsStep
<1>4. RadioInOrder' /\ TunInOrder' /\ BuffersKept'
  BY RadioOrderStep, TunOrderStep, KeptStep
<1>5. QED
  BY <1>1, <1>2, <1>3, <1>4

THEOREM InductiveInvariant == Spec => []IInv
  BY InitIInv, StepIInv, PTL DEF Spec

\* Types: no task is queued twice, and the buffers hold packets that were read
\* (IOManagerP.nc:23, CC2520LinuxReceiveP.nc:27-32, TunP.nc:40-48).
THEOREM BorderRouterTypeCorrect == Spec => []TypeOK
<1>1. IInv => TypeOK
  BY DEF IInv
<1>2. QED
  BY <1>1, InductiveInvariant, PTL

\* No packet is overwritten, lost or handed up out of order, and the stack's
\* buffers are not touched (CC2520LinuxReceiveP.nc:50-140, TunP.nc:92-135).
THEOREM ReceivedIntactAlways == Spec => []ReceivedIntact
<1>1. IInv => ReceivedIntact
  BY DEF IInv
<1>2. QED
  BY <1>1, InductiveInvariant, PTL

\* sendDone is queued exactly while a send is unanswered (TunP.nc:53-88).
THEOREM SendsAnsweredAlways == Spec => []SendsAnswered
<1>1. IInv => SendsAnswered
  BY DEF IInv
<1>2. QED
  BY <1>1, InductiveInvariant, PTL
=============================================================================
