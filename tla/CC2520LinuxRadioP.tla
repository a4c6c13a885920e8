-------------------------- MODULE CC2520LinuxRadioP --------------------------
(***************************************************************************)
(* The Send side of the radio driver, RadioP over LinkP over SendP, closed *)
(* by an application that sends and cancels.  RadioP numbers each packet.  *)
(*                                                                         *)
(* An application acts between any two tasks.  The three switches are the  *)
(* freedoms that the Send interface does not forbid but that a careful     *)
(* application does without:                                               *)
(*   ReuseMetadata  it sends a buffer without calling setRetries again     *)
(*   ResendBusy     it calls send for the buffer that is being sent        *)
(*                  (ExtAddrTestP.nc does, on every timer tick)            *)
(*   CancelTwice    it cancels a message whose cancel already succeeded    *)
(***************************************************************************)
EXTENDS CC2520LinuxLinkP

CONSTANTS
  FirstSeq,        \* TOS_NODE_ID << 3
  ReuseMetadata, ResendBusy, CancelTwice,
  MaxInFlight      \* bound: no new send with this many packets below LinkP

ASSUME RadioPAssumption ==
  /\ FirstSeq \in SeqNumbers
  /\ {ReuseMetadata, ResendBusy, CancelTwice} \subseteq BOOLEAN
  /\ MaxInFlight \in Nat \ {0}

VARIABLES
  sequence_number,
  \* History, read by the properties only: what the send in progress (or the
  \* last one) asked for and did, and the last sendDone event.
  asked,      \* the maxRetries the application wants for each buffer
  sent,       \* [attempts, dsns, ret]: transmissions of this send, their
              \* sequence numbers, the driver's last answer
  outcome     \* that event, [msg, error]; NoOutcome since an accepted send

history == <<asked, sent, outcome>>
vars == <<sendPVars, linkPVars, sequence_number, history>>

Errors == {SUCCESS, FAIL, ECANCEL}
Outcome == [msg : Messages \cup {NoMessage}, error : Errors]
NoOutcome == [msg |-> NoMessage, error |-> SUCCESS]
Transmissions == [attempts : Nat, dsns : SUBSET SeqNumbers, ret : Results]
NothingSent == [attempts |-> 0, dsns |-> {}, ret |-> "OTHER"]

\* Values of the variables, and what LinkP's counter can reach.
TypeOK ==
  /\ SendPTypeOK
  /\ LinkPTypeOK
  /\ sequence_number \in SeqNumbers
  /\ asked \in [Messages -> 0..MaxRetries]
  /\ sent \in Transmissions
  /\ outcome \in Outcome

Init ==
  /\ SendPInit
  /\ LinkPInit
  /\ sequence_number = FirstSeq
  /\ asked = [m \in Messages |-> 0]
  /\ sent = NothingSent
  /\ outcome = NoOutcome

-----------------------------------------------------------------------------
InFlight ==
  Len(writePipe) + Len(txChild) + Len(readPipe)
    + (IF \E i \in 1..Len(taskQueue) : taskQueue[i] = "sendDone_task" THEN 1 ELSE 0)

\* The number Send.send writes into the header before it asks LinkP.
NumberPacket(m) ==
  /\ dsn' = [dsn EXCEPT ![m] = sequence_number]
  /\ sequence_number' = (sequence_number + 1) % SeqMod

\* Send.send(m), accepted.
RadioSend(m) ==
  /\ InFlight < MaxInFlight
  /\ NumberPacket(m)
  /\ LinkSend(m)
  /\ sent' = NothingSent
  /\ outcome' = NoOutcome
  /\ UNCHANGED <<writePipe, txChild, readPipe, sendHdr, acked>>

\* The application sets the metadata of a buffer it owns and sends it.
AppSend(m) ==
  /\ \E retries \in 0..MaxRetries, delay \in BOOLEAN :
       /\ maxRetries' = [maxRetries EXCEPT ![m] = retries]
       /\ retryDelay' = [retryDelay EXCEPT ![m] = delay]
       /\ asked' = [asked EXCEPT ![m] = retries]
  /\ RadioSend(m)

\* The application sends a buffer with the metadata it still has.
AppSendAgain(m) ==
  /\ ReuseMetadata
  /\ RadioSend(m)
  /\ UNCHANGED <<maxRetries, retryDelay, asked>>

\* Send.send(m) answered EBUSY: the buffer got a new number all the same.
AppSendBusy(m) ==
  /\ state # STATE_READY
  /\ m = currentMsg => ResendBusy
  /\ NumberPacket(m)
  /\ UNCHANGED <<taskQueue, writePipe, txChild, readPipe, sendHdr, acked, linkPVars, history>>

\* Send.cancel(m), answered SUCCESS.
AppCancel(m) ==
  /\ state >= STATE_SIGNAL => CancelTwice
  /\ LinkCancel(m)
  /\ UNCHANGED <<writePipe, txChild, readPipe, sendHdr, acked, dsn>>
  /\ UNCHANGED <<sequence_number, history>>

\* SplitControl.start, the part that touches this state.
RadioStart ==
  /\ sequence_number' = FirstSeq
  /\ UNCHANGED <<sendPVars, linkPVars, history>>

OneMore(s) ==
  [attempts |-> s.attempts + 1, dsns |-> s.dsns \cup {dsn[currentMsg]}, ret |-> s.ret]

\* Faulty variant: every transmission gets a number of its own.
NumberedTransmit ==
  /\ SendTaskTransmits
  /\ NumberPacket(currentMsg)
  /\ sent' = OneMore(sent)
  /\ UNCHANGED <<asked, outcome>>

Transmit ==
  /\ SendTaskTransmits
  /\ sent' = OneMore(sent)
  /\ UNCHANGED <<dsn, sequence_number, asked, outcome>>

\* LinkP's sendDone, passed up by RadioP.SubSend.sendDone.
SignalDone ==
  /\ \E error \in Errors :
       /\ SendTaskSignals(error)
       /\ outcome' = [msg |-> currentMsg, error |-> error]
  /\ UNCHANGED <<sequence_number, asked, sent>>

DelayRetry == SendTaskDelays /\ UNCHANGED <<sequence_number, history>>
IdleTask == SendTaskIdle /\ UNCHANGED <<sequence_number, history>>

\* A run of LinkP's task send().
SendTask == Transmit \/ DelayRetry \/ SignalDone \/ IdleTask

TimerFired == DelayTimerFired /\ UNCHANGED <<sequence_number, history>>
SendDone == SendDoneTask /\ UNCHANGED <<sequence_number, history>>
ResultReady == ReceiveReady /\ UNCHANGED <<linkPVars, sequence_number, history>>

TxRead == ChildRead /\ UNCHANGED <<linkPVars, sequence_number, history>>
TxWrite ==
  /\ \E ret \in TxResults : ChildWrite(ret) /\ sent' = [sent EXCEPT !.ret = ret]
  /\ UNCHANGED <<linkPVars, sequence_number, asked, outcome>>

Application ==
  \/ \E m \in Messages : AppSend(m) \/ AppSendAgain(m) \/ AppSendBusy(m) \/ AppCancel(m)
  \/ RadioStart
Process == SendTask \/ TimerFired \/ SendDone \/ ResultReady
Child == TxRead \/ TxWrite

Next == Application \/ Process \/ Child

Spec == Init /\ [][Next]_vars

\* The scheduler runs every posted task, select() returns while the result pipe
\* is readable, and the driver answers every write.  Nothing is assumed of the
\* delay timer: its alarm may never be set (AlarmMilli32P.nc:91), and the task
\* that its signal posts may wait while the process sleeps (McuSleepP.nc:21-22).
Fairness ==
  /\ WF_vars(SendTask)
  /\ WF_vars(SendDone)
  /\ WF_vars(ResultReady)
  /\ WF_vars(Child)

FairSpec == Spec /\ Fairness
=============================================================================
