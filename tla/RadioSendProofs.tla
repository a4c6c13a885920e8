---------------------------- MODULE RadioSendProofs ----------------------------
(***************************************************************************)
(* Proofs about the transmit stack, for every set of buffers, every number *)
(* of retries and every sequence number width.                             *)
(***************************************************************************)
EXTENDS RadioSend, SequenceTheorems, FiniteSetTheorems, TLAPS

-----------------------------------------------------------------------------
\* What TypeOK rests on: the retry counter stays below its bound while LinkP
\* may still count an attempt.
CounterInv ==
  state \in {STATE_SENDING, STATE_SENDDONE} => totalRetries = 0 \/ totalRetries < MaxRetries

\* Where the one packet of a send is, if no message is cancelled twice.
PipesEmpty == writePipe = <<>> /\ txChild = <<>> /\ readPipe = <<>>
InWritePipe ==
  /\ txChild = <<>> /\ readPipe = <<>>
  /\ Len(writePipe) = 1 /\ writePipe[1].msg = currentMsg
InChild ==
  /\ writePipe = <<>> /\ readPipe = <<>>
  /\ Len(txChild) = 1 /\ txChild[1].msg = currentMsg
InReadPipe ==
  /\ writePipe = <<>> /\ txChild = <<>>
  /\ Len(readPipe) = 1 /\ readPipe[1].msg = currentMsg
Answered == PipesEmpty /\ sendHdr.msg = currentMsg
PacketPlace ==
  \/ taskQueue = <<"send">> /\ PipesEmpty
  \/ taskQueue = <<"sendDone_task">> /\ Answered
  \/ taskQueue = <<>> /\ (InWritePipe \/ InChild \/ InReadPipe)

PlaceInv ==
  /\ state = STATE_READY => taskQueue = <<>> /\ PipesEmpty /\ ~delayTimer
  /\ state = STATE_SENDING =>
       PipesEmpty /\ taskQueue = (IF delayTimer THEN <<>> ELSE <<"send">>)
  /\ state \in {STATE_SENDDONE, STATE_SIGNAL + ECANCEL} => ~delayTimer /\ PacketPlace

\* What LinkP's counter and the ack flag say of the transmissions made.
Limit(m) == IF asked[m] = 0 THEN 1 ELSE asked[m]

CountInv ==
  /\ \A m \in Messages : maxRetries[m] <= asked[m]
  /\ state # STATE_READY => totalRetries < Limit(currentMsg)
  /\ state = STATE_SENDING => sent.attempts = totalRetries
  /\ state = STATE_SENDDONE => sent.attempts = totalRetries + 1
  /\ currentMsg # NoMessage => sent.attempts <= Limit(currentMsg)

\* If the application sets the metadata before each send: what LinkP works with
\* is what the application asked for.
ReportInv ==
  /\ state # STATE_READY => maxRetries[currentMsg] = asked[currentMsg] /\ outcome = NoOutcome
  /\ SuccessMeansAcked
  /\ FailMeansExhausted

AckInv ==
  /\ state = STATE_SENDING => sent.ret \notin AckResults
  /\ state = STATE_SENDDONE /\ taskQueue = <<"send">> =>
       (acked[currentMsg] <=> sent.ret \in AckResults)
  /\ state = STATE_SENDDONE /\ taskQueue = <<"sendDone_task">> =>
       sendHdr.ret = sent.ret /\ sent.ret \in TxResults
  /\ state = STATE_SENDDONE /\ readPipe # <<>> =>
       readPipe[1].ret = sent.ret /\ sent.ret \in TxResults

-----------------------------------------------------------------------------
\* Posting a task keeps a queue of tasks, and is exact on a queue that holds
\* nothing else (the scheduler under CC2520LinuxLinkP.nc and CC2520LinuxSendP.nc).
LEMMA PostToType ==
  ASSUME NEW queue \in Seq(Task), NEW task \in Task
  PROVE  PostTo(queue, task) \in Seq(Task)
  BY DEF PostTo

LEMMA PostToEmpty ==
  ASSUME NEW task \in Task
  PROVE  PostTo(<<>>, task) = <<task>> /\ PostTo(<<task>>, task) = <<task>>
  BY DEF PostTo, Task

\* The disjuncts of Next, one leaf action each; every invariance proof below
\* goes through them.
LEMMA NextCases ==
  ASSUME Next
  PROVE  \/ \E m \in Messages : AppSend(m) \/ AppSendAgain(m)
         \/ \E m \in Messages : AppSendBusy(m)
         \/ \E m \in Messages : AppCancel(m)
         \/ RadioStart
         \/ Transmit \/ DelayRetry \/ SignalDone \/ IdleTask
         \/ TimerFired \/ SendDone \/ ResultReady \/ TxRead \/ TxWrite
  BY DEF Next, Application, Process, Child, SendTask

TypeInv == TypeOK /\ CounterInv

USE SendPAssumption, LinkPAssumption, RadioPAssumption

LEMMA ModRange ==
  ASSUME NEW n \in Nat
  PROVE  n % SeqMod \in SeqNumbers
  BY DEF SeqNumbers

LEMMA NumberPacketType ==
  ASSUME NEW m \in Messages, NumberPacket(m), dsn \in [Messages -> SeqNumbers],
         sequence_number \in SeqNumbers
  PROVE  dsn' \in [Messages -> SeqNumbers] /\ sequence_number' \in SeqNumbers
<1>1. sequence_number + 1 \in Nat
  BY DEF SeqNumbers
<1>2. sequence_number' \in SeqNumbers
  BY <1>1, ModRange DEF NumberPacket
<1>3. dsn' \in [Messages -> SeqNumbers]
  BY DEF NumberPacket
<1>4. QED
  BY <1>2, <1>3

LEMMA AckedAfterType ==
  ASSUME NEW answer, acked \in [Messages -> BOOLEAN]
  PROVE  AckedAfter(answer) \in [Messages -> BOOLEAN]
<1>1. ASSUME NEW m \in Messages
      PROVE  (IF m = answer.msg /\ answer.ret \notin OddResults
                THEN answer.ret \in AckResults ELSE acked[m]) \in BOOLEAN
  <2>1. acked[m] \in BOOLEAN /\ (answer.ret \in AckResults) \in BOOLEAN
    OBVIOUS
  <2>2. CASE m = answer.msg /\ answer.ret \notin OddResults
    BY <2>1, <2>2
  <2>3. CASE ~(m = answer.msg /\ answer.ret \notin OddResults)
    BY <2>1, <2>3
  <2>4. QED
    BY <2>2, <2>3
<1>2. QED
  BY <1>1, Zenon DEF AckedAfter

LEMMA InitType == Init => TypeInv
<1> SUFFICES ASSUME Init PROVE TypeInv
  OBVIOUS
<1>1. SendPTypeOK
  <2>1. sendHdr = NoAnswer
    BY DEF Init, SendPInit
  <2>2. acked \in [Messages -> BOOLEAN]
    BY DEF Init, SendPInit
  <2>3. QED
    BY <2>1, <2>2 DEF Init, SendPInit, SendPTypeOK
<1>2. LinkPTypeOK /\ CounterInv
  <2>1. maxRetries \in [Messages -> 0..MaxRetries]
    BY DEF Init, LinkPInit
  <2>2. retryDelay \in [Messages -> BOOLEAN]
    BY DEF Init, LinkPInit
  <2>3. state = 0 /\ currentMsg = NoMessage /\ totalRetries = 0
    BY DEF Init, LinkPInit, STATE_READY
  <2>4. delayTimer \in BOOLEAN
    BY DEF Init, LinkPInit
  <2>5. QED
    BY <2>1, <2>2, <2>3, <2>4 DEF LinkPTypeOK, CounterInv, STATE_READY, STATE_SENDING,
         STATE_SENDDONE, STATE_SIGNAL, ECANCEL
<1>3. sent \in Transmissions
  BY DEF Init, NothingSent, Transmissions, Results, OddResults
<1>4. outcome \in Outcome
  BY DEF Init, NoOutcome, Outcome, Errors
<1>5. QED
  BY <1>1, <1>2, <1>3, <1>4 DEF Init, TypeInv, TypeOK

LEMMA StepType == TypeInv /\ [Next]_vars => TypeInv'
<1> SUFFICES ASSUME TypeInv, [Next]_vars PROVE TypeInv'
  OBVIOUS
<1> USE DEF TypeInv, TypeOK, SendPTypeOK, LinkPTypeOK, CounterInv,
            STATE_READY, STATE_SENDING, STATE_SENDDONE, STATE_SIGNAL, ECANCEL
<1>1. ASSUME NEW m \in Messages, AppSend(m) \/ AppSendAgain(m) PROVE TypeInv'
  <2>1. PostTo(taskQueue, "send") \in Seq(Task)
    BY PostToType DEF Task
  <2>2. RadioSend(m)
    BY <1>1 DEF AppSend, AppSendAgain
  <2>3. dsn' \in [Messages -> SeqNumbers] /\ sequence_number' \in SeqNumbers
    BY <2>2, NumberPacketType DEF RadioSend
  <2>4. /\ maxRetries' \in [Messages -> 0..MaxRetries]
        /\ retryDelay' \in [Messages -> BOOLEAN]
        /\ asked' \in [Messages -> 0..MaxRetries]
    <3>1. CASE AppSend(m)
      <4>1. PICK retries \in 0..MaxRetries, delay \in BOOLEAN :
              /\ maxRetries' = [maxRetries EXCEPT ![m] = retries]
              /\ retryDelay' = [retryDelay EXCEPT ![m] = delay]
              /\ asked' = [asked EXCEPT ![m] = retries]
        BY <3>1 DEF AppSend
      <4>2. QED
        BY <4>1
    <3>2. CASE AppSendAgain(m)
      BY <3>2 DEF AppSendAgain
    <3>3. QED
      BY <1>1, <3>1, <3>2
  <2>5. sent' \in Transmissions
    BY <2>2 DEF RadioSend, NothingSent, Transmissions, Results, OddResults
  <2>6. outcome' \in Outcome
    BY <2>2 DEF RadioSend, NoOutcome, Outcome, Errors
  <2>7. SendPTypeOK'
    BY <2>1, <2>2, <2>3 DEF RadioSend, LinkSend
  <2>8. LinkPTypeOK' /\ CounterInv'
    BY <2>2, <2>4 DEF RadioSend, LinkSend
  <2>9. QED
    BY <2>3, <2>4, <2>5, <2>6, <2>7, <2>8
<1>2. ASSUME NEW m \in Messages, AppSendBusy(m) PROVE TypeInv'
  <2>1. dsn' \in [Messages -> SeqNumbers] /\ sequence_number' \in SeqNumbers
    BY <1>2, NumberPacketType DEF AppSendBusy
  <2>2. QED
    BY <1>2, <2>1 DEF AppSendBusy, linkPVars, history
<1>3. ASSUME NEW m \in Messages, AppCancel(m) PROVE TypeInv'
  <2>1. PostTo(taskQueue, "send") \in Seq(Task)
    BY PostToType DEF Task
  <2>2. QED
    BY <1>3, <2>1 DEF AppCancel, LinkCancel, history
<1>4. CASE RadioStart
  BY <1>4 DEF RadioStart, sendPVars, linkPVars, history
<1>5. CASE Transmit
  <2>1. dsn[currentMsg] \in SeqNumbers /\ currentMsg \in Messages
    BY <1>5 DEF Transmit, SendTaskTransmits
  <2>2. writePipe' \in Seq(Packet)
    BY <1>5, <2>1 DEF Transmit, SendTaskTransmits, BareSendSend, Packet
  <2>3. totalRetries' \in 0..MaxRetries /\ (totalRetries' = 0 \/ totalRetries' < MaxRetries)
    BY <1>5, <2>1 DEF Transmit, SendTaskTransmits, TriesAgain
  <2>4. sent' \in Transmissions
    BY <1>5, <2>1 DEF Transmit, OneMore, Transmissions
  <2>5. QED
    BY <1>5, <2>1, <2>2, <2>3, <2>4 DEF Transmit, SendTaskTransmits, Runs
<1>6. CASE DelayRetry
  <2>1. totalRetries' \in 0..MaxRetries /\ totalRetries' < MaxRetries
    BY <1>6 DEF DelayRetry, SendTaskDelays, TriesAgain
  <2>2. QED
    BY <1>6, <2>1 DEF DelayRetry, SendTaskDelays, Runs, history
<1>7. CASE SignalDone
  <2>1. currentMsg \in Messages /\ maxRetries[currentMsg] \in 0..MaxRetries
    BY <1>7 DEF SignalDone, SendTaskSignals
  <2>2. RetriesUsed \in 0..MaxRetries
    BY <2>1 DEF RetriesUsed, GivesUp, Delivered
  <2>3. outcome' \in Outcome
    BY <1>7, <2>1 DEF SignalDone, Outcome
  <2>4. QED
    BY <1>7, <2>1, <2>2, <2>3 DEF SignalDone, SendTaskSignals, Runs
<1>8. CASE IdleTask
  BY <1>8 DEF IdleTask, SendTaskIdle, Runs, linkPVars, history
<1>9. CASE TimerFired
  <2>1. PostTo(taskQueue, "send") \in Seq(Task)
    BY PostToType DEF Task
  <2>2. QED
    BY <1>9, <2>1 DEF TimerFired, DelayTimerFired, history
<1>10. CASE SendDone
  <2>a. Tail(taskQueue) \in Seq(Task)
    BY <1>10 DEF SendDone, SendDoneTask, Runs
  <2>1. PostTo(Tail(taskQueue), "send") \in Seq(Task)
    BY <2>a, PostToType DEF Task
  <2>2. acked' \in [Messages -> BOOLEAN]
    BY <1>10, AckedAfterType DEF SendDone, SendDoneTask
  <2>3. QED
    BY <1>10, <2>1, <2>2 DEF SendDone, SendDoneTask, linkPVars, history
<1>11. CASE ResultReady
  <2>1. PostTo(taskQueue, "sendDone_task") \in Seq(Task)
    BY PostToType DEF Task
  <2>2. QED
    BY <1>11, <2>1 DEF ResultReady, ReceiveReady, linkPVars, history
<1>12. CASE TxRead
  BY <1>12 DEF TxRead, ChildRead, linkPVars, history
<1>13. CASE TxWrite
  <2>1. PICK ret \in TxResults : ChildWrite(ret) /\ sent' = [sent EXCEPT !.ret = ret]
    BY <1>13 DEF TxWrite
  <2>a. Head(txChild) \in Packet
    BY <2>1 DEF ChildWrite
  <2>2. ret \in Results /\ Head(txChild).msg \in Messages
    BY <2>a DEF Packet
  <2>3. readPipe' \in Seq(Answer)
    BY <2>1, <2>2 DEF ChildWrite, Answer
  <2>4. sent' \in Transmissions
    BY <2>1, <2>2 DEF Transmissions
  <2>5. QED
    BY <1>13, <2>1, <2>2, <2>3, <2>4 DEF TxWrite, ChildWrite, linkPVars
<1>14. CASE UNCHANGED vars
  BY <1>14 DEF vars, sendPVars, linkPVars, history
<1>15. QED
  BY NextCases, <1>1, <1>2, <1>3, <1>4, <1>5, <1>6, <1>7, <1>8, <1>9, <1>10, <1>11,
     <1>12, <1>13, <1>14

\* Every variable of the stack keeps its type, whatever the application does:
\* LinkP's retry counter never exceeds the largest maxRetries
\* (CC2520LinuxLinkP.nc:44, 75) although it overwrites that field itself.
THEOREM TypeCorrect == Spec => []TypeOK
<1>1. TypeInv => TypeOK
  BY DEF TypeInv
<1>2. QED
  BY InitType, StepType, <1>1, PTL DEF Spec
-----------------------------------------------------------------------------
LEMMA TypeInvariant == Spec => []TypeInv
  BY InitType, StepType, PTL DEF Spec

\* A step of the stack is a step of its Send contract, or none of its business.
LEMMA StepContract ==
  TypeInv /\ [Next]_vars => [Contract!ContractNext]_Contract!contractVars
<1> SUFFICES ASSUME TypeInv, [Next]_vars
             PROVE  [Contract!ContractNext]_Contract!contractVars
  OBVIOUS
<1> USE DEF Contract!contractVars
<1>0. /\ currentMsg \in Messages \cup {NoMessage}
      /\ state # STATE_READY => currentMsg \in Messages
      /\ state \in {STATE_READY, STATE_SENDING, STATE_SENDDONE, STATE_SIGNAL + ECANCEL}
  BY DEF TypeInv, TypeOK, LinkPTypeOK
<1> USE DEF STATE_READY, STATE_SENDING, STATE_SENDDONE, STATE_SIGNAL, ECANCEL
<1>1. ASSUME NEW m \in Messages, AppSend(m) \/ AppSendAgain(m)
      PROVE  Contract!ContractNext
  <2>1. RadioSend(m)
    BY <1>1 DEF AppSend, AppSendAgain
  <2>2. Contract!Accept(m)
    BY <2>1 DEF RadioSend, LinkSend, Contract!Accept
  <2>3. QED
    BY <2>2 DEF Contract!ContractNext
<1>2. ASSUME NEW m \in Messages, AppCancel(m) PROVE Contract!ContractNext
  <2>1. Contract!Cancel
    BY <1>0, <1>2 DEF AppCancel, LinkCancel, history, Contract!Cancel
  <2>2. QED
    BY <2>1 DEF Contract!ContractNext
<1>3. CASE SignalDone
  <2>1. PICK error \in Errors :
          SendTaskSignals(error) /\ outcome' = [msg |-> currentMsg, error |-> error]
    BY <1>3 DEF SignalDone
  <2>2. state # STATE_READY /\ state' = STATE_READY /\ currentMsg' = currentMsg
    BY <2>1 DEF SendTaskSignals
  <2>3. state >= STATE_SIGNAL <=> error = ECANCEL
    BY <1>0, <2>1 DEF SendTaskSignals, SUCCESS, FAIL
  <2>4. Contract!Complete(error)
    BY <1>0, <2>1, <2>2, <2>3 DEF Contract!Complete
  <2>5. QED
    BY <2>4 DEF Contract!ContractNext
<1>4. CASE Transmit \/ DelayRetry
  BY <1>0, <1>4 DEF Transmit, SendTaskTransmits, DelayRetry, SendTaskDelays, history
<1>5. CASE (\E m \in Messages : AppSendBusy(m)) \/ RadioStart \/ IdleTask \/ UNCHANGED vars
  BY <1>5 DEF AppSendBusy, RadioStart, IdleTask, SendTaskIdle, vars, linkPVars, history
<1>6. CASE TimerFired \/ SendDone \/ ResultReady \/ TxRead \/ TxWrite
  BY <1>6 DEF TimerFired, DelayTimerFired, SendDone, SendDoneTask, ResultReady, TxRead, TxWrite,
       linkPVars, history
<1>7. QED
  BY NextCases, <1>1, <1>2, <1>3, <1>4, <1>5, <1>6

\* The stack implements its Send contract: one message at a time, one sendDone
\* for each accepted send, and ECANCEL exactly for the cancelled ones
\* (CC2520LinuxLinkP.nc:35-127).  It holds even for an application that cancels
\* twice, although such a sendDone can come before the packet has left.
THEOREM ContractImplemented == Spec => ContractSafety
<1>1. Init => Contract!ContractInit
  BY DEF Init, LinkPInit, Contract!ContractInit, STATE_READY, STATE_SIGNAL
<1>2. QED
  BY <1>1, TypeInvariant, StepContract, PTL DEF Spec, ContractSafety, Contract!ContractSafety
-----------------------------------------------------------------------------
\* Queues of one element.
LEMMA Singleton ==
  ASSUME NEW S, NEW s \in Seq(S), Len(s) = 1
  PROVE  s # <<>> /\ Head(s) = s[1] /\ Tail(s) = <<>>
<1>1. s # <<>>
  BY EmptySeq
<1>2. Tail(s) \in Seq(S) /\ Len(Tail(s)) = 0
  BY <1>1, HeadTailProperties
<1>3. Tail(s) = <<>>
  BY <1>2, EmptySeq
<1>4. Head(s) = s[1]
  OBVIOUS
<1>5. QED
  BY <1>1, <1>3, <1>4

LEMMA OneElement ==
  ASSUME NEW x
  PROVE  /\ Append(<<>>, x) = <<x>>
         /\ <<x>> # <<>> /\ Len(<<x>>) = 1 /\ <<x>>[1] = x
         /\ Head(<<x>>) = x /\ Tail(<<x>>) = <<>>
<1>1. <<x>> \in Seq({x}) /\ Len(<<x>>) = 1 /\ <<x>>[1] = x
  OBVIOUS
<1>2. <<x>> # <<>> /\ Head(<<x>>) = x /\ Tail(<<x>>) = <<>>
  BY <1>1, Singleton
<1>3. Append(<<>>, x) = <<x>>
  OBVIOUS
<1>4. QED
  BY <1>1, <1>2, <1>3

LEMMA TypeFacts ==
  ASSUME TypeInv
  PROVE  /\ state \in {0, 1, 2, 7}
         /\ currentMsg \in Messages \cup {NoMessage}
         /\ state # 0 => currentMsg \in Messages
         /\ delayTimer \in BOOLEAN
         /\ writePipe \in Seq(Packet) /\ txChild \in Seq(Packet) /\ readPipe \in Seq(Answer)
  BY DEF TypeInv, TypeOK, SendPTypeOK, LinkPTypeOK,
         STATE_READY, STATE_SENDING, STATE_SENDDONE, STATE_SIGNAL, ECANCEL

\* The one packet of a send keeps to one place, if no message is cancelled twice.
LEMMA StepPlace ==
  ASSUME CancelTwice = FALSE, TypeInv, PlaceInv, [Next]_vars
  PROVE  PlaceInv'
<1> USE DEF STATE_READY, STATE_SENDING, STATE_SENDDONE, STATE_SIGNAL, ECANCEL
<1>0. /\ state \in {0, 1, 2, 7}
      /\ delayTimer \in BOOLEAN
      /\ writePipe \in Seq(Packet) /\ txChild \in Seq(Packet) /\ readPipe \in Seq(Answer)
  BY TypeFacts
<1>e. /\ PostTo(<<>>, "send") = <<"send">>
      /\ PostTo(<<"send">>, "send") = <<"send">>
      /\ PostTo(<<>>, "sendDone_task") = <<"sendDone_task">>
  BY PostToEmpty DEF Task
<1>t. ASSUME NEW task \in Task, Runs(task), PlaceInv
      PROVE  taskQueue = <<task>> /\ Tail(taskQueue) = <<>>
  <2>1. taskQueue # <<>> /\ Head(taskQueue) = task
    BY <1>t DEF Runs
  <2>2. taskQueue \in {<<"send">>, <<"sendDone_task">>}
    BY <1>0, <1>t, <2>1 DEF PlaceInv, PacketPlace
  <2>3. QED
    BY <2>1, <2>2, OneElement
<1>1. ASSUME NEW m \in Messages, AppSend(m) \/ AppSendAgain(m) PROVE PlaceInv'
  <2>1. RadioSend(m)
    BY <1>1 DEF AppSend, AppSendAgain
  <2>2. QED
    BY <1>e, <2>1 DEF RadioSend, LinkSend, PlaceInv, PipesEmpty
<1>2. ASSUME NEW m \in Messages, AppCancel(m) PROVE PlaceInv'
  <2>1. CASE state = 1
    BY <1>e, <1>2, <2>1 DEF AppCancel, LinkCancel, PlaceInv, PacketPlace, PipesEmpty
  <2>2. CASE state = 2
    BY <1>2, <2>2 DEF AppCancel, LinkCancel, PlaceInv, PacketPlace, PipesEmpty, InWritePipe,
       InChild, InReadPipe, Answered
  <2>3. QED
    BY <1>0, <1>2, <2>1, <2>2 DEF AppCancel, LinkCancel
<1>3. CASE Transmit
  <2>1. taskQueue = <<"send">> /\ Tail(taskQueue) = <<>>
    BY <1>3, <1>t DEF Transmit, SendTaskTransmits, Task
  <2>2. PipesEmpty /\ ~delayTimer
    BY <1>3, <2>1, OneElement DEF Transmit, SendTaskTransmits, PlaceInv, PacketPlace
  <2>3. Len(writePipe') = 1 /\ writePipe'[1].msg = currentMsg
    BY <1>3, <2>2, OneElement DEF Transmit, SendTaskTransmits, BareSendSend, PipesEmpty
  <2>4. QED
    BY <1>3, <2>1, <2>2, <2>3 DEF Transmit, SendTaskTransmits, PlaceInv, PacketPlace,
       PipesEmpty, InWritePipe
<1>4. CASE DelayRetry
  <2>1. taskQueue = <<"send">> /\ Tail(taskQueue) = <<>>
    BY <1>4, <1>t DEF DelayRetry, SendTaskDelays, Task
  <2>2. PipesEmpty
    BY <1>4, <2>1, OneElement DEF DelayRetry, SendTaskDelays, PlaceInv, PacketPlace
  <2>3. QED
    BY <1>4, <2>1, <2>2 DEF DelayRetry, SendTaskDelays, PlaceInv, PipesEmpty
<1>5. CASE SignalDone
  <2>1. taskQueue = <<"send">> /\ Tail(taskQueue) = <<>>
    BY <1>5, <1>t DEF SignalDone, SendTaskSignals, Task
  <2>2. PipesEmpty /\ ~delayTimer
    BY <1>0, <1>5, <2>1, OneElement DEF SignalDone, SendTaskSignals, PlaceInv, PacketPlace
  <2>3. QED
    BY <1>5, <2>1, <2>2 DEF SignalDone, SendTaskSignals, PlaceInv, PipesEmpty
<1>6. CASE IdleTask
  BY <1>6, <1>t, OneElement DEF IdleTask, SendTaskIdle, PlaceInv, Task
<1>7. CASE TimerFired
  <2>1. state = 1 /\ taskQueue = <<>>
    BY <1>0, <1>7 DEF TimerFired, DelayTimerFired, PlaceInv
  <2>2. QED
    BY <1>7, <1>e, <2>1 DEF TimerFired, DelayTimerFired, PlaceInv, PipesEmpty
<1>8. CASE SendDone
  <2>1. taskQueue = <<"sendDone_task">> /\ Tail(taskQueue) = <<>>
    BY <1>8, <1>t DEF SendDone, SendDoneTask, Task
  <2>2. state \in {2, 7} /\ Answered
    BY <1>0, <2>1, OneElement DEF PlaceInv, PacketPlace
  <2>3. QED
    BY <1>8, <1>e, <2>1, <2>2 DEF SendDone, SendDoneTask, linkPVars, PlaceInv, PacketPlace,
       PipesEmpty, Answered
<1>9. CASE ResultReady
  <2>1. taskQueue = <<>> /\ readPipe # <<>>
    BY <1>9 DEF ResultReady, ReceiveReady
  <2>2. state \in {2, 7} /\ InReadPipe
    BY <1>0, <2>1, OneElement DEF PlaceInv, PacketPlace, PipesEmpty, InWritePipe, InChild
  <2>3. Tail(readPipe) = <<>> /\ Head(readPipe) = readPipe[1]
    BY <1>0, <2>2, Singleton DEF InReadPipe
  <2>4. QED
    BY <1>9, <1>e, <2>1, <2>2, <2>3 DEF ResultReady, ReceiveReady, linkPVars, PlaceInv,
       PacketPlace, PipesEmpty, Answered, InReadPipe
<1>10. CASE TxRead
  <2>1. writePipe # <<>>
    BY <1>10 DEF TxRead, ChildRead
  <2>2. state \in {2, 7} /\ InWritePipe /\ taskQueue = <<>>
    BY <1>0, <2>1, OneElement DEF PlaceInv, PacketPlace, PipesEmpty, InReadPipe, InChild, Answered
  <2>3. Tail(writePipe) = <<>> /\ Head(writePipe) = writePipe[1]
    BY <1>0, <2>2, Singleton DEF InWritePipe
  <2>4. Len(txChild') = 1 /\ txChild'[1] = writePipe[1]
    BY <1>10, <2>3, OneElement DEF TxRead, ChildRead
  <2>5. QED
    BY <1>10, <2>2, <2>3, <2>4 DEF TxRead, ChildRead, linkPVars, PlaceInv, PacketPlace,
       InWritePipe, InChild
<1>11. CASE TxWrite
  <2>1. PICK ret \in TxResults : ChildWrite(ret)
    BY <1>11 DEF TxWrite
  <2>2. state \in {2, 7} /\ InChild /\ taskQueue = <<>>
    BY <1>0, <2>1, OneElement DEF ChildWrite, PlaceInv, PacketPlace, PipesEmpty, InReadPipe,
       InWritePipe, Answered
  <2>3. Head(txChild) = txChild[1]
    BY <1>0, <2>2, Singleton DEF InChild
  <2>4. Len(readPipe') = 1 /\ readPipe'[1].msg = currentMsg
    BY <2>1, <2>2, <2>3, OneElement DEF ChildWrite, InChild
  <2>5. QED
    BY <1>11, <2>1, <2>2, <2>4 DEF TxWrite, ChildWrite, linkPVars, PlaceInv, PacketPlace,
       InChild, InReadPipe
<1>12. CASE (\E m \in Messages : AppSendBusy(m)) \/ RadioStart \/ UNCHANGED vars
  BY <1>12 DEF AppSendBusy, RadioStart, vars, sendPVars, linkPVars, PlaceInv, PacketPlace,
     PipesEmpty, InWritePipe, InChild, InReadPipe, Answered
<1>13. QED
  BY NextCases, <1>1, <1>2, <1>3, <1>4, <1>5, <1>6, <1>7, <1>8, <1>9, <1>10, <1>11, <1>12

LEMMA PlaceInvariant == ASSUME CancelTwice = FALSE PROVE Spec => []PlaceInv
<1>1. Init => PlaceInv
  BY DEF Init, SendPInit, LinkPInit, PlaceInv, PipesEmpty, STATE_READY, STATE_SENDING,
     STATE_SENDDONE, STATE_SIGNAL, ECANCEL
<1>2. TypeInv /\ PlaceInv /\ [Next]_vars => PlaceInv'
  BY StepPlace
<1>3. QED
  BY <1>1, <1>2, TypeInvariant, PTL DEF Spec

\* LinkP has at most one packet below it, and none whose sendDone it has
\* already signalled, as long as no message is cancelled twice.
THEOREM OneInFlightHolds == ASSUME CancelTwice = FALSE PROVE Spec => []OneInFlight
<1>1. TypeInv /\ PlaceInv => OneInFlight
  <2> SUFFICES ASSUME TypeInv, PlaceInv PROVE OneInFlight
    OBVIOUS
  <2> USE DEF STATE_READY, STATE_SENDING, STATE_SENDDONE, STATE_SIGNAL, ECANCEL
  <2>1. /\ Len(<<>>) = 0
        /\ ~\E i \in 1..Len(<<>>) : <<>>[i] = "sendDone_task"
        /\ ~\E i \in 1..Len(<<"send">>) : <<"send">>[i] = "sendDone_task"
    OBVIOUS
  <2>2. CASE state \in {0, 1}
    BY <2>1, <2>2 DEF PlaceInv, PipesEmpty, InFlight, OneInFlight
  <2>3. CASE state \in {2, 7}
    <3>1. PacketPlace
      BY <2>3 DEF PlaceInv
    <3>2. InFlight <= 1
      <4>1. CASE taskQueue = <<>> /\ (InWritePipe \/ InChild \/ InReadPipe)
        <5>1. InFlight = Len(writePipe) + Len(txChild) + Len(readPipe)
          BY <2>1, <4>1, TypeFacts DEF InFlight
        <5>2. CASE InWritePipe
          BY <2>1, <5>1, <5>2 DEF InWritePipe
        <5>3. CASE InChild
          BY <2>1, <5>1, <5>3 DEF InChild
        <5>4. CASE InReadPipe
          BY <2>1, <5>1, <5>4 DEF InReadPipe
        <5>5. QED
          BY <4>1, <5>2, <5>3, <5>4
      <4>2. CASE PipesEmpty
        BY <2>1, <4>2 DEF PipesEmpty, InFlight
      <4>3. QED
        BY <3>1, <4>1, <4>2 DEF PacketPlace, Answered
    <3>3. QED
      BY <2>3, <3>2 DEF OneInFlight
  <2>4. QED
    BY <2>2, <2>3, TypeFacts
<1>2. QED
  BY <1>1, PlaceInvariant, TypeInvariant, PTL

\* The ack flag of a buffer changes only while the stack owns the buffer, as
\* long as no message is cancelled twice (CC2520LinuxSendP.nc:52-77).
THEOREM AckWrittenOnlyWhileOwnedHolds ==
  ASSUME CancelTwice = FALSE PROVE Spec => AckWrittenOnlyWhileOwned
<1>1. ASSUME TypeInv, PlaceInv, [Next]_vars, NEW m \in Messages, acked'[m] # acked[m]
      PROVE  m = currentMsg /\ state # STATE_READY
  <2>1. SendDone
    BY <1>1, NextCases DEF AppSend, AppSendAgain, RadioSend, AppSendBusy, AppCancel, RadioStart,
       Transmit, SendTaskTransmits, DelayRetry, SendTaskDelays, SignalDone, SendTaskSignals,
       IdleTask, SendTaskIdle, TimerFired, DelayTimerFired, ResultReady, ReceiveReady, TxRead,
       ChildRead, TxWrite, ChildWrite, vars, sendPVars
  <2>2. taskQueue # <<>> /\ Head(taskQueue) = "sendDone_task" /\ acked' = AckedAfter(sendHdr)
    BY <2>1 DEF SendDone, SendDoneTask, Runs
  <2>3. m = sendHdr.msg
    BY <1>1, <2>2 DEF AckedAfter
  <2>4. state \in {STATE_SENDDONE, STATE_SIGNAL + ECANCEL}
    BY <1>1, <2>2, TypeFacts, OneElement DEF PlaceInv, STATE_READY, STATE_SENDING,
       STATE_SENDDONE, STATE_SIGNAL, ECANCEL
  <2>5. sendHdr.msg = currentMsg
    BY <1>1, <2>2, <2>4, OneElement DEF PlaceInv, PacketPlace, Answered
  <2>6. QED
    BY <2>3, <2>4, <2>5 DEF STATE_READY, STATE_SENDDONE, STATE_SIGNAL, ECANCEL
<1>2. TypeInv /\ PlaceInv /\ [Next]_vars
        => [\A m \in Messages :
              acked'[m] # acked[m] => m = currentMsg /\ state # STATE_READY]_vars
  BY <1>1
<1>3. QED
  BY <1>2, PlaceInvariant, TypeInvariant, PTL DEF Spec, AckWrittenOnlyWhileOwned
-----------------------------------------------------------------------------
LEMMA CountFacts ==
  ASSUME TypeInv
  PROVE  /\ totalRetries \in Nat /\ sent.attempts \in Nat
         /\ \A m \in Messages : maxRetries[m] \in Nat /\ asked[m] \in Nat
         /\ \A m \in Messages : Limit(m) \in Nat /\ Limit(m) >= 1 /\ Limit(m) >= asked[m]
<1>1. totalRetries \in Nat /\ \A m \in Messages : maxRetries[m] \in Nat /\ asked[m] \in Nat
  BY DEF TypeInv, TypeOK, LinkPTypeOK
<1>2. sent.attempts \in Nat
  BY DEF TypeInv, TypeOK, Transmissions
<1>3. QED
  BY <1>1, <1>2 DEF Limit

LEMMA StepCount ==
  ASSUME TypeInv, CountInv, [Next]_vars
  PROVE  CountInv'
<1> USE DEF STATE_READY, STATE_SENDING, STATE_SENDDONE, STATE_SIGNAL, ECANCEL
<1>0. /\ state \in {0, 1, 2, 7}
      /\ currentMsg \in Messages \cup {NoMessage}
      /\ state # 0 => currentMsg \in Messages
  BY TypeFacts
<1>f. /\ totalRetries \in Nat /\ sent.attempts \in Nat
      /\ \A m \in Messages : maxRetries[m] \in Nat /\ asked[m] \in Nat
      /\ \A m \in Messages : Limit(m) \in Nat /\ Limit(m) >= 1 /\ Limit(m) >= asked[m]
  BY CountFacts
<1>t. maxRetries \in [Messages -> 0..MaxRetries] /\ asked \in [Messages -> 0..MaxRetries]
  BY DEF TypeInv, TypeOK, LinkPTypeOK
<1>1. ASSUME NEW m \in Messages, AppSend(m) \/ AppSendAgain(m) PROVE CountInv'
  <2>1. RadioSend(m)
    BY <1>1 DEF AppSend, AppSendAgain
  <2>2. /\ state' = 1 /\ currentMsg' = m /\ totalRetries' = 0
        /\ sent'.attempts = 0
    BY <2>1 DEF RadioSend, LinkSend, NothingSent
  <2>3. /\ \A x \in Messages : maxRetries'[x] <= asked'[x]
        /\ asked'[m] \in Nat
    <3>1. CASE AppSend(m)
      <4>1. PICK retries \in 0..MaxRetries :
              /\ maxRetries' = [maxRetries EXCEPT ![m] = retries]
              /\ asked' = [asked EXCEPT ![m] = retries]
        BY <3>1 DEF AppSend
      <4>2. ASSUME NEW x \in Messages PROVE maxRetries'[x] <= asked'[x]
        BY <1>t, <1>f, <4>1 DEF CountInv
      <4>3. QED
        BY <1>t, <4>1, <4>2
    <3>2. CASE AppSendAgain(m)
      BY <1>f, <3>2 DEF AppSendAgain, CountInv
    <3>3. QED
      BY <1>1, <3>1, <3>2
  <2>4. QED
    BY <2>2, <2>3 DEF CountInv, Limit
<1>2. ASSUME NEW m \in Messages, AppCancel(m) PROVE CountInv'
  BY <1>0, <1>2 DEF AppCancel, LinkCancel, history, CountInv, Limit
<1>3. CASE Transmit
  <2>1. /\ currentMsg \in Messages /\ currentMsg' = currentMsg /\ state' = 2
        /\ asked' = asked /\ maxRetries' = maxRetries
        /\ sent'.attempts = sent.attempts + 1
    BY <1>0, <1>3 DEF Transmit, SendTaskTransmits, OneMore
  <2>2. totalRetries' = sent.attempts /\ totalRetries' < Limit(currentMsg)
    <3>1. CASE state = 1
      BY <1>3, <3>1 DEF Transmit, SendTaskTransmits, CountInv
    <3>2. CASE state = 2
      BY <1>3, <1>f, <2>1, <3>2 DEF Transmit, SendTaskTransmits, TriesAgain, CountInv
    <3>3. QED
      BY <1>3, <3>1, <3>2 DEF Transmit, SendTaskTransmits
  <2>3. QED
    BY <1>f, <2>1, <2>2 DEF CountInv, Limit
<1>4. CASE DelayRetry
  <2>1. /\ currentMsg \in Messages /\ currentMsg' = currentMsg /\ state = 2 /\ state' = 1
        /\ asked' = asked /\ maxRetries' = maxRetries /\ sent' = sent
        /\ totalRetries' = totalRetries + 1 /\ totalRetries + 1 < maxRetries[currentMsg]
    BY <1>0, <1>4 DEF DelayRetry, SendTaskDelays, TriesAgain, history
  <2>2. QED
    BY <1>f, <2>1 DEF CountInv, Limit
<1>5. CASE SignalDone
  <2>1. /\ currentMsg \in Messages /\ currentMsg' = currentMsg /\ state # 0 /\ state' = 0
        /\ asked' = asked /\ sent' = sent
    BY <1>0, <1>5 DEF SignalDone, SendTaskSignals
  <2>2. RetriesUsed \in Nat /\ RetriesUsed <= Limit(currentMsg)
    BY <1>0, <1>f, <2>1 DEF RetriesUsed, CountInv
  <2>3. ASSUME NEW x \in Messages PROVE maxRetries'[x] <= asked'[x]
    <3>1. CASE maxRetries[currentMsg] > 0
      <4>1. Limit(currentMsg) = asked[currentMsg]
        BY <1>f, <2>1, <3>1 DEF CountInv, Limit
      <4>2. maxRetries' = [maxRetries EXCEPT ![currentMsg] = RetriesUsed]
        BY <1>5, <3>1 DEF SignalDone, SendTaskSignals
      <4>3. QED
        BY <1>f, <1>t, <2>1, <2>2, <4>1, <4>2 DEF CountInv
    <3>2. CASE ~(maxRetries[currentMsg] > 0)
      BY <1>5, <2>1, <3>2 DEF SignalDone, SendTaskSignals, CountInv
    <3>3. QED
      BY <3>1, <3>2
  <2>4. QED
    BY <2>1, <2>3 DEF CountInv, Limit
<1>6. CASE IdleTask \/ (\E m \in Messages : AppSendBusy(m)) \/ RadioStart \/ UNCHANGED vars
  BY <1>6 DEF IdleTask, SendTaskIdle, AppSendBusy, RadioStart, vars, linkPVars, history,
     CountInv, Limit
<1>7. CASE TimerFired \/ SendDone \/ ResultReady \/ TxRead
  BY <1>7 DEF TimerFired, DelayTimerFired, SendDone, SendDoneTask, ResultReady, TxRead,
     linkPVars, history, CountInv, Limit
<1>8. CASE TxWrite
  <2>1. sent'.attempts = sent.attempts
    BY <1>8 DEF TxWrite, TypeInv, TypeOK, Transmissions
  <2>2. QED
    BY <1>8, <2>1 DEF TxWrite, linkPVars, CountInv, Limit
<1>9. QED
  BY NextCases, <1>1, <1>2, <1>3, <1>4, <1>5, <1>6, <1>7, <1>8

LEMMA CountInvariant == Spec => []CountInv
<1>1. Init => CountInv
  BY DEF Init, LinkPInit, NothingSent, CountInv, STATE_READY, STATE_SENDING, STATE_SENDDONE
<1>2. TypeInv /\ CountInv /\ [Next]_vars => CountInv'
  BY StepCount
<1>3. QED
  BY <1>1, <1>2, TypeInvariant, PTL DEF Spec

\* A send is transmitted at most as often as its setRetries allows, whatever
\* the application does: also if it cancels twice, or sends a buffer whose
\* maxRetries LinkP has overwritten (CC2520LinuxLinkP.nc:44-58, 74-76).
THEOREM AttemptBoundHolds == Spec => []AttemptBound
<1>1. CountInv => AttemptBound
  BY DEF CountInv, AttemptBound, Limit
<1>2. QED
  BY <1>1, CountInvariant, PTL
-----------------------------------------------------------------------------
\* Transmit is a first attempt, or follows one that was not acknowledged.
LEMMA NoAckBeforeTransmit ==
  ASSUME TypeInv, AckInv, PlaceInv, Transmit \/ DelayRetry
  PROVE  sent.ret \notin AckResults
<1> USE DEF STATE_READY, STATE_SENDING, STATE_SENDDONE, STATE_SIGNAL, ECANCEL
<1>1. state \in {1, 2} /\ taskQueue # <<>> /\ Head(taskQueue) = "send"
  BY DEF Transmit, SendTaskTransmits, DelayRetry, SendTaskDelays, Runs
<1>2. CASE state = 1
  BY <1>2 DEF AckInv
<1>3. CASE state = 2
  <2>1. taskQueue = <<"send">>
    BY <1>1, <1>3, OneElement DEF PlaceInv, PacketPlace
  <2>2. ~acked[currentMsg]
    BY <1>3 DEF Transmit, SendTaskTransmits, DelayRetry, SendTaskDelays, TriesAgain, Delivered
  <2>3. QED
    BY <1>3, <2>1, <2>2 DEF AckInv
<1>4. QED
  BY <1>1, <1>2, <1>3

\* AckInv: the ack flag that task send() reads is the driver's answer to the
\* transmission that is over.
LEMMA StepAck ==
  ASSUME CancelTwice = FALSE, TxResults \cap OddResults = {},
         TypeInv, PlaceInv, PlaceInv', AckInv, [Next]_vars
  PROVE  AckInv'
<1> USE DEF STATE_READY, STATE_SENDING, STATE_SENDDONE, STATE_SIGNAL, ECANCEL
<1>0. /\ state \in {0, 1, 2, 7}
      /\ writePipe \in Seq(Packet) /\ txChild \in Seq(Packet) /\ readPipe \in Seq(Answer)
  BY TypeFacts
<1>e. PostTo(<<>>, "send") = <<"send">> /\ PostTo(<<>>, "sendDone_task") = <<"sendDone_task">>
  BY PostToEmpty DEF Task
<1>1. ASSUME NEW m \in Messages, AppSend(m) \/ AppSendAgain(m) PROVE AckInv'
  <2>1. RadioSend(m)
    BY <1>1 DEF AppSend, AppSendAgain
  <2>2. state' = 1 /\ sent'.ret = "OTHER"
    BY <2>1 DEF RadioSend, LinkSend, NothingSent
  <2>3. QED
    BY <2>2 DEF AckInv, AckResults
<1>2. ASSUME NEW m \in Messages, AppCancel(m) PROVE AckInv'
  BY <1>2 DEF AppCancel, LinkCancel, AckInv
<1>3. CASE Transmit
  <2>1. writePipe' # <<>> /\ state' = 2
    <3>1. PipesEmpty
      BY <1>3, OneElement DEF Transmit, SendTaskTransmits, Runs, PlaceInv, PacketPlace
    <3>2. QED
      BY <1>3, <3>1, OneElement DEF Transmit, SendTaskTransmits, BareSendSend, PipesEmpty
  <2>2. readPipe' = <<>> /\ taskQueue' = <<>>
    BY <2>1, OneElement DEF PlaceInv, PacketPlace, PipesEmpty, Answered, InWritePipe, InChild,
       InReadPipe
  <2>3. QED
    BY <2>1, <2>2, OneElement DEF AckInv
<1>4. CASE DelayRetry
  <2>1. sent.ret \notin AckResults
    BY <1>4, NoAckBeforeTransmit
  <2>2. QED
    BY <1>4, <2>1 DEF DelayRetry, SendTaskDelays, history, AckInv
<1>5. CASE SignalDone
  BY <1>5 DEF SignalDone, SendTaskSignals, AckInv
<1>6. CASE TimerFired
  <2>1. state = 1
    BY <1>0, <1>6 DEF TimerFired, DelayTimerFired, PlaceInv
  <2>2. QED
    BY <1>6, <2>1 DEF TimerFired, DelayTimerFired, history, AckInv
<1>7. CASE SendDone
  <2>1. taskQueue # <<>> /\ Head(taskQueue) = "sendDone_task" /\ acked' = AckedAfter(sendHdr)
    BY <1>7 DEF SendDone, SendDoneTask, Runs
  <2>2. state \in {2, 7} /\ taskQueue = <<"sendDone_task">> /\ Answered
    BY <1>0, <2>1, OneElement DEF PlaceInv, PacketPlace
  <2>3. taskQueue' = <<"send">> /\ readPipe' = <<>> /\ state' = state /\ sent' = sent
        /\ currentMsg' = currentMsg
    BY <1>7, <1>e, <2>2, OneElement DEF SendDone, SendDoneTask, linkPVars, history, Answered,
       PipesEmpty
  <2>4. state = 2 => (acked'[currentMsg] <=> sent.ret \in AckResults)
    <3> SUFFICES ASSUME state = 2 PROVE acked'[currentMsg] <=> sent.ret \in AckResults
      OBVIOUS
    <3>1. sendHdr.ret = sent.ret /\ sent.ret \notin OddResults
      BY <2>2 DEF AckInv
    <3>2. currentMsg \in Messages /\ sendHdr.msg = currentMsg
      BY <2>2, TypeFacts DEF Answered
    <3>3. QED
      BY <2>1, <3>1, <3>2, Zenon DEF AckedAfter
  <2>5. QED
    BY <2>3, <2>4, OneElement DEF AckInv
<1>8. CASE ResultReady
  <2>1. /\ taskQueue = <<>> /\ readPipe # <<>> /\ sendHdr' = Head(readPipe)
        /\ taskQueue' = <<"sendDone_task">> /\ readPipe' = Tail(readPipe)
        /\ state' = state /\ sent' = sent
    BY <1>8, <1>e DEF ResultReady, ReceiveReady, linkPVars, history
  <2>2. state \in {2, 7} /\ InReadPipe
    BY <1>0, <2>1, OneElement DEF PlaceInv, PacketPlace, PipesEmpty, InWritePipe, InChild
  <2>3. readPipe' = <<>> /\ sendHdr' = readPipe[1]
    BY <1>0, <2>1, <2>2, Singleton DEF InReadPipe
  <2>4. QED
    BY <2>1, <2>2, <2>3, OneElement DEF AckInv
<1>9. CASE TxWrite
  <2>1. PICK ret \in TxResults : ChildWrite(ret) /\ sent' = [sent EXCEPT !.ret = ret]
    BY <1>9 DEF TxWrite
  <2>2. state \in {2, 7} /\ InChild /\ taskQueue = <<>>
    BY <1>0, <2>1, OneElement DEF ChildWrite, PlaceInv, PacketPlace, PipesEmpty, InReadPipe,
       InWritePipe, Answered
  <2>3. readPipe'[1].ret = ret /\ state' = state /\ taskQueue' = <<>>
    BY <1>9, <2>1, <2>2, OneElement DEF TxWrite, ChildWrite, InChild, linkPVars
  <2>4. sent'.ret = ret
    BY <2>1 DEF TypeInv, TypeOK, Transmissions
  <2>5. QED
    BY <2>2, <2>3, <2>4, OneElement DEF AckInv
<1>10. CASE TxRead
  <2>1. readPipe' = readPipe /\ taskQueue' = taskQueue /\ state' = state /\ sent' = sent
        /\ sendHdr' = sendHdr /\ acked' = acked /\ currentMsg' = currentMsg
    BY <1>10 DEF TxRead, ChildRead, linkPVars, history
  <2>2. QED
    BY <2>1 DEF AckInv
<1>11. CASE (\E m \in Messages : AppSendBusy(m)) \/ RadioStart \/ UNCHANGED vars
  <2>1. readPipe' = readPipe /\ taskQueue' = taskQueue /\ state' = state /\ sent' = sent
        /\ sendHdr' = sendHdr /\ acked' = acked /\ currentMsg' = currentMsg
    BY <1>11 DEF AppSendBusy, RadioStart, vars, sendPVars, linkPVars, history
  <2>2. QED
    BY <2>1 DEF AckInv
<1>12. CASE IdleTask
  BY <1>12 DEF IdleTask, SendTaskIdle, linkPVars, AckInv
<1>13. QED
  BY NextCases, <1>1, <1>2, <1>3, <1>4, <1>5, <1>6, <1>7, <1>8, <1>9, <1>10, <1>11, <1>12

\* ReportInv: what sendDone reports is what the driver answered.
LEMMA StepReport ==
  ASSUME CancelTwice = FALSE, ReuseMetadata = FALSE,
         TypeInv, PlaceInv, CountInv, AckInv, ReportInv, [Next]_vars
  PROVE  ReportInv'
<1> USE DEF STATE_READY, STATE_SENDING, STATE_SENDDONE, STATE_SIGNAL, ECANCEL, SUCCESS, FAIL
<1>0. /\ state \in {0, 1, 2, 7}
      /\ state # 0 => currentMsg \in Messages
      /\ writePipe \in Seq(Packet) /\ txChild \in Seq(Packet) /\ readPipe \in Seq(Answer)
  BY TypeFacts
<1>n. NoOutcome.error = 0
  BY DEF NoOutcome
<1>1. ASSUME NEW m \in Messages, AppSend(m) \/ AppSendAgain(m) PROVE ReportInv'
  <2>1. RadioSend(m) /\ AppSend(m)
    BY <1>1 DEF AppSend, AppSendAgain
  <2>2. outcome' = NoOutcome /\ currentMsg' = m
    BY <2>1 DEF RadioSend, LinkSend
  <2>3. PICK retries \in 0..MaxRetries :
          /\ maxRetries' = [maxRetries EXCEPT ![m] = retries]
          /\ asked' = [asked EXCEPT ![m] = retries]
    BY <2>1 DEF AppSend
  <2>4. maxRetries'[m] = asked'[m]
    BY <2>3 DEF TypeInv, TypeOK, LinkPTypeOK
  <2>5. QED
    BY <1>n, <2>2, <2>4 DEF ReportInv, SuccessMeansAcked, FailMeansExhausted
<1>2. CASE SignalDone
  <2>1. PICK error \in Errors :
          SendTaskSignals(error) /\ outcome' = [msg |-> currentMsg, error |-> error]
    BY <1>2 DEF SignalDone
  <2>2. /\ state' = 0 /\ sent' = sent /\ asked' = asked
        /\ outcome'.error = error /\ outcome'.msg = currentMsg
        /\ state # 0 /\ taskQueue # <<>> /\ Head(taskQueue) = "send"
    BY <1>2, <2>1 DEF SignalDone, SendTaskSignals, Runs
  <2>3. maxRetries[currentMsg] = asked[currentMsg]
    BY <2>2 DEF ReportInv
  <2>4. state = 2 => (acked[currentMsg] <=> sent.ret \in AckResults)
    BY <2>2, OneElement DEF PlaceInv, PacketPlace, AckInv
  <2>5. state = 2 => sent.attempts = totalRetries + 1 /\ sent.attempts <= Limit(currentMsg)
    BY <1>0, <2>2, SendPAssumption DEF CountInv
  <2>6. error = 0 => state = 2 /\ Delivered
    BY <1>0, <2>1 DEF SendTaskSignals
  <2>7. error = 1 => state = 2 /\ GivesUp
    BY <1>0, <2>1 DEF SendTaskSignals
  <2>8. SuccessMeansAcked'
    BY <2>2, <2>3, <2>4, <2>5, <2>6, <1>0, CountFacts DEF SuccessMeansAcked, Delivered
  <2>9. FailMeansExhausted'
    BY <2>2, <2>3, <2>4, <2>5, <2>7, <1>0, CountFacts DEF FailMeansExhausted, GivesUp, TriesAgain,
       Delivered, Limit
  <2>10. QED
    BY <2>2, <2>8, <2>9 DEF ReportInv
<1>3. CASE TxWrite
  <2>1. state # 0 /\ outcome = NoOutcome
    BY <1>3 DEF TxWrite, ChildWrite, PlaceInv, PipesEmpty, ReportInv
  <2>2. QED
    BY <1>3, <1>n, <2>1 DEF TxWrite, linkPVars, ReportInv, SuccessMeansAcked, FailMeansExhausted
<1>4. CASE Transmit \/ DelayRetry
  <2>1. /\ state # 0 /\ outcome = NoOutcome /\ outcome' = outcome
        /\ currentMsg' = currentMsg /\ maxRetries' = maxRetries /\ asked' = asked
    BY <1>4 DEF Transmit, SendTaskTransmits, DelayRetry, SendTaskDelays, history, ReportInv
  <2>2. QED
    BY <1>n, <2>1 DEF ReportInv, SuccessMeansAcked, FailMeansExhausted
<1>5. ASSUME NEW m \in Messages, AppCancel(m) PROVE ReportInv'
  BY <1>5 DEF AppCancel, LinkCancel, history, ReportInv, SuccessMeansAcked, FailMeansExhausted
<1>6. CASE IdleTask \/ (\E m \in Messages : AppSendBusy(m)) \/ RadioStart \/ UNCHANGED vars
  BY <1>6 DEF IdleTask, SendTaskIdle, AppSendBusy, RadioStart, vars, linkPVars, history,
     ReportInv, SuccessMeansAcked, FailMeansExhausted
<1>7. CASE TimerFired \/ SendDone \/ ResultReady \/ TxRead
  BY <1>7 DEF TimerFired, DelayTimerFired, SendDone, SendDoneTask, ResultReady, TxRead,
     linkPVars, history, ReportInv, SuccessMeansAcked, FailMeansExhausted
<1>8. QED
  BY NextCases, <1>1, <1>2, <1>3, <1>4, <1>5, <1>6, <1>7

\* For an application that sets the metadata of each send and cancels a message
\* once, over a driver that answers only what sendDone_task has a case for.
LEMMA ReportInvariant ==
  ASSUME CancelTwice = FALSE, ReuseMetadata = FALSE, TxResults \cap OddResults = {}
  PROVE  Spec => [](AckInv /\ ReportInv)
<1>1. Init => AckInv /\ ReportInv
  BY DEF Init, SendPInit, LinkPInit, NoOutcome, AckInv, ReportInv, SuccessMeansAcked,
     FailMeansExhausted, STATE_READY, STATE_SENDING, STATE_SENDDONE, SUCCESS, FAIL
<1>2. TypeInv /\ PlaceInv /\ PlaceInv' /\ CountInv /\ AckInv /\ ReportInv /\ [Next]_vars
        => (AckInv /\ ReportInv)'
  BY StepAck, StepReport
<1>3. QED
  BY <1>1, <1>2, TypeInvariant, PlaceInvariant, CountInvariant, PTL DEF Spec

\* sendDone(SUCCESS) of a send with retries means that its last transmission was
\* acknowledged (CC2520LinuxLinkP.nc:41-49, CC2520LinuxSendP.nc:52-77).
THEOREM SuccessMeansAckedHolds ==
  ASSUME CancelTwice = FALSE, ReuseMetadata = FALSE, TxResults \cap OddResults = {}
  PROVE  Spec => []SuccessMeansAcked
<1>1. ReportInv => SuccessMeansAcked
  BY DEF ReportInv
<1>2. QED
  BY <1>1, ReportInvariant, PTL

\* sendDone(FAIL) comes after exactly the attempts the send asked for, the last
\* of them not acknowledged (CC2520LinuxLinkP.nc:44-58).
THEOREM FailMeansExhaustedHolds ==
  ASSUME CancelTwice = FALSE, ReuseMetadata = FALSE, TxResults \cap OddResults = {}
  PROVE  Spec => []FailMeansExhausted
<1>1. ReportInv => FailMeansExhausted
  BY DEF ReportInv
<1>2. QED
  BY <1>1, ReportInvariant, PTL

\* An acknowledged packet is not transmitted again (CC2520LinuxLinkP.nc:41-64).
THEOREM NoRetryAfterAckHolds ==
  ASSUME CancelTwice = FALSE, ReuseMetadata = FALSE, TxResults \cap OddResults = {}
  PROVE  Spec => NoRetryAfterAck
<1>1. ASSUME TypeInv, PlaceInv, AckInv, [Next]_vars, sent'.attempts > sent.attempts
      PROVE  sent.ret \notin AckResults
  <2>1. sent.attempts \in Nat
    BY <1>1, CountFacts
  <2>2. CASE Transmit \/ DelayRetry
    BY <1>1, <2>2, NoAckBeforeTransmit
  <2>3. CASE \E m \in Messages : AppSend(m) \/ AppSendAgain(m)
    BY <1>1, <2>1, <2>3 DEF AppSend, AppSendAgain, RadioSend, NothingSent
  <2>4. CASE TxWrite
    BY <1>1, <2>1, <2>4 DEF TxWrite, TypeInv, TypeOK, Transmissions
  <2>5. QED
    BY <1>1, <2>1, <2>2, <2>3, <2>4, NextCases DEF AppSendBusy, AppCancel, RadioStart, SignalDone,
       IdleTask, TimerFired, SendDone, ResultReady, TxRead, vars, history
<1>2. TypeInv /\ PlaceInv /\ AckInv /\ [Next]_vars
        => [sent'.attempts > sent.attempts => sent.ret \notin AckResults]_vars
  BY <1>1
<1>3. QED
  BY <1>2, ReportInvariant, PlaceInvariant, TypeInvariant, PTL DEF Spec, NoRetryAfterAck

-----------------------------------------------------------------------------
\* If a busy buffer is not sent again: all that was transmitted of the present
\* send carries the number that the buffer still has.
NumberInv ==
  /\ \E n \in SeqNumbers : sent.dsns \subseteq {n}
  /\ state # STATE_READY => sent.dsns \subseteq {dsn[currentMsg]}

LEMMA InitNumber == Init => NumberInv
<1> SUFFICES ASSUME Init PROVE NumberInv
  OBVIOUS
<1>1. sent.dsns = {} /\ state = STATE_READY /\ FirstSeq \in SeqNumbers
  BY DEF Init, LinkPInit, NothingSent
<1>2. QED
  BY <1>1 DEF NumberInv

LEMMA StepNumber ==
  ASSUME ResendBusy = FALSE, TypeInv, NumberInv, [Next]_vars
  PROVE  NumberInv'
<1>a. PICK n \in SeqNumbers : sent.dsns \subseteq {n}
  BY DEF NumberInv
<1>t. /\ dsn \in [Messages -> SeqNumbers]
      /\ state # STATE_READY => currentMsg \in Messages
      /\ sent \in Transmissions
  BY DEF TypeInv, TypeOK, SendPTypeOK, LinkPTypeOK
\* A step that sends nothing and numbers no packet of the send in progress.
<1>b. ASSUME sent'.dsns = sent.dsns,
             state' # STATE_READY =>
               state # STATE_READY /\ currentMsg' = currentMsg /\ dsn'[currentMsg] = dsn[currentMsg]
      PROVE  NumberInv'
  BY <1>a, <1>b DEF NumberInv
<1>1. CASE \E m \in Messages : AppSend(m) \/ AppSendAgain(m)
  <2>1. sent' = NothingSent
    BY <1>1 DEF AppSend, AppSendAgain, RadioSend
  <2>2. sent'.dsns = {}
    BY <2>1 DEF NothingSent
  <2>3. QED
    BY <2>2, <1>a DEF NumberInv
<1>2. CASE \E m \in Messages : AppSendBusy(m)
  <2>1. PICK m \in Messages : AppSendBusy(m)
    BY <1>2
  <2>2. state # STATE_READY /\ m # currentMsg /\ UNCHANGED <<state, currentMsg, sent>>
    BY <2>1 DEF AppSendBusy, linkPVars, history
  <2>3. dsn'[currentMsg] = dsn[currentMsg]
    BY <2>1, <2>2, <1>t DEF AppSendBusy, NumberPacket
  <2>4. QED
    BY <2>2, <2>3, <1>b
<1>3. CASE Transmit
  <2>1. state # STATE_READY /\ UNCHANGED <<dsn, currentMsg>>
    BY <1>3 DEF Transmit, SendTaskTransmits, STATE_READY, STATE_SENDING, STATE_SENDDONE
  <2>2. sent'.dsns = sent.dsns \cup {dsn[currentMsg]}
    BY <1>3 DEF Transmit, OneMore
  <2>3. dsn[currentMsg] \in SeqNumbers
    BY <2>1, <1>t
  <2>4. QED
    BY <2>1, <2>2, <2>3 DEF NumberInv
<1>4. CASE TxWrite
  <2>1. PICK ret \in TxResults : sent' = [sent EXCEPT !.ret = ret]
    BY <1>4 DEF TxWrite
  <2>2. sent'.dsns = sent.dsns
    BY <2>1, <1>t DEF Transmissions
  <2>3. UNCHANGED <<state, currentMsg, dsn>>
    BY <1>4 DEF TxWrite, ChildWrite, linkPVars
  <2>4. QED
    BY <2>2, <2>3, <1>b
<1>5. CASE SignalDone
  BY <1>5, <1>b DEF SignalDone, SendTaskSignals
<1>6. CASE \E m \in Messages : AppCancel(m)
  BY <1>6, <1>b DEF AppCancel, LinkCancel, history
<1>7. CASE RadioStart
  BY <1>7, <1>b DEF RadioStart, sendPVars, linkPVars, history
<1>8. CASE DelayRetry
  BY <1>8, <1>b DEF DelayRetry, SendTaskDelays, history, STATE_READY, STATE_SENDDONE
<1>9. CASE IdleTask \/ TimerFired \/ SendDone \/ ResultReady \/ TxRead
  BY <1>9, <1>b
     DEF IdleTask, SendTaskIdle, TimerFired, DelayTimerFired, SendDone, SendDoneTask,
         ResultReady, ReceiveReady, TxRead, ChildRead, linkPVars, history
<1>10. CASE UNCHANGED vars
  BY <1>10, <1>b DEF vars, sendPVars, linkPVars, history
<1>11. QED
  BY <1>1, <1>2, <1>3, <1>4, <1>5, <1>6, <1>7, <1>8, <1>9, <1>10, NextCases

\* All transmissions of one send carry one sequence number, for an application
\* that does not send a busy buffer again (CC2520LinuxRadioP.nc:124-131).
THEOREM OneNumberPerSendHolds == ASSUME ResendBusy = FALSE PROVE Spec => []OneNumberPerSend
<1>1. Init => TypeInv /\ NumberInv
  BY InitType, InitNumber
<1>2. TypeInv /\ NumberInv /\ [Next]_vars => (TypeInv /\ NumberInv)'
  BY StepType, StepNumber
<1>3. ASSUME NumberInv PROVE OneNumberPerSend
  <2>1. PICK n \in SeqNumbers : sent.dsns \subseteq {n}
    BY <1>3 DEF NumberInv
  <2>2. sent.dsns = {} \/ sent.dsns = {n}
    BY <2>1
  <2>3. Cardinality({}) = 0 /\ Cardinality({n}) = 1
    BY FS_EmptySet, FS_Singleton
  <2>4. QED
    BY <2>2, <2>3 DEF OneNumberPerSend
<1>4. TypeInv /\ NumberInv => OneNumberPerSend
  BY <1>3
<1>5. QED
  BY <1>1, <1>2, <1>4, PTL DEF Spec
=============================================================================
