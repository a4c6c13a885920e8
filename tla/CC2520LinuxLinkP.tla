--------------------------- MODULE CC2520LinuxLinkP ---------------------------
(***************************************************************************)
(* The retry layer.  One message at a time: it is transmitted until it is  *)
(* acknowledged or the number of attempts its metadata allows is used up,  *)
(* with an optional delay between attempts; a send can be cancelled.       *)
(*                                                                         *)
(* The commands (LinkSend, LinkCancel) are conjuncts of the application's  *)
(* actions in CC2520LinuxRadioP; the task and the two events are actions.  *)
(***************************************************************************)
EXTENDS CC2520LinuxSendP

CONSTANT MaxRetries   \* bound on the maxRetries field (uint16_t)

ASSUME LinkPAssumption == MaxRetries \in Nat

VARIABLES
  state,         \* STATE_READY .. STATE_SIGNAL + error
  currentMsg,
  totalRetries,
  delayTimer,    \* DelayTimer is running
  maxRetries,    \* metadata of each buffer: link.maxRetries
  retryDelay     \* metadata of each buffer: link.retryDelay is not zero

linkPVars == <<state, currentMsg, totalRetries, delayTimer, maxRetries, retryDelay>>

STATE_READY    == 0
STATE_SENDING  == 1
STATE_SENDDONE == 2
STATE_SIGNAL   == 4

\* error_t
SUCCESS == 0
FAIL    == 1
ECANCEL == 3
EBUSY   == 5

LinkPTypeOK ==
  /\ state \in {STATE_READY, STATE_SENDING, STATE_SENDDONE, STATE_SIGNAL + ECANCEL}
  /\ currentMsg \in Messages \cup {NoMessage}
  /\ state # STATE_READY => currentMsg \in Messages
  /\ totalRetries \in 0..MaxRetries
  /\ delayTimer \in BOOLEAN
  /\ maxRetries \in [Messages -> 0..MaxRetries]
  /\ retryDelay \in [Messages -> BOOLEAN]

LinkPInit ==
  /\ state = STATE_READY
  /\ currentMsg = NoMessage
  /\ totalRetries = 0
  /\ delayTimer = FALSE
  /\ maxRetries = [m \in Messages |-> 0]
  /\ retryDelay = [m \in Messages |-> FALSE]

-----------------------------------------------------------------------------
\* Faulty variants: the retry counter is not reset; no EBUSY.
SendKeepsCounter(m) ==
  /\ state = STATE_READY
  /\ currentMsg' = m
  /\ state' = STATE_SENDING
  /\ taskQueue' = PostTo(taskQueue, "send")
  /\ UNCHANGED <<totalRetries, delayTimer>>
SendNeverBusy(m) ==
  /\ currentMsg' = m
  /\ totalRetries' = 0
  /\ state' = STATE_SENDING
  /\ taskQueue' = PostTo(taskQueue, "send")
  /\ UNCHANGED delayTimer

\* Send.send(m), for a buffer whose metadata is retries and delay when it is
\* called.  The ack-request bit it sets in the header is not kept: it is on
\* exactly when retries > 0.
LinkSend(m) ==
  /\ state = STATE_READY
  /\ currentMsg' = m
  /\ totalRetries' = 0
  /\ state' = STATE_SENDING
  /\ taskQueue' = PostTo(taskQueue, "send")
  /\ UNCHANGED delayTimer

\* Faulty variants: cancel always posts the task; cancel never posts it.
CancelAlwaysPosts(m) ==
  /\ currentMsg = m
  /\ state # STATE_READY
  /\ taskQueue' = PostTo(taskQueue, "send")
  /\ delayTimer' = FALSE
  /\ state' = STATE_SIGNAL + ECANCEL
  /\ UNCHANGED <<currentMsg, totalRetries, maxRetries, retryDelay>>
CancelNeverPosts(m) ==
  /\ currentMsg = m
  /\ state # STATE_READY
  /\ delayTimer' = FALSE
  /\ state' = STATE_SIGNAL + ECANCEL
  /\ UNCHANGED <<taskQueue, currentMsg, totalRetries, maxRetries, retryDelay>>

\* Send.cancel(m) when it returns SUCCESS.  SubSend.cancel always answers FAIL
\* and changes nothing, so the STATE_SENDDONE branch only waits.
LinkCancel(m) ==
  /\ currentMsg = m
  /\ state # STATE_READY
  /\ taskQueue' = IF state = STATE_SENDDONE THEN taskQueue ELSE PostTo(taskQueue, "send")
  /\ delayTimer' = FALSE
  /\ state' = STATE_SIGNAL + ECANCEL
  /\ UNCHANGED <<currentMsg, totalRetries, maxRetries, retryDelay>>

-----------------------------------------------------------------------------
\* What the first branch of task send() concludes about an attempt that is over.
Delivered == maxRetries[currentMsg] = 0 \/ acked[currentMsg]
OneTryTooMany == ~Delivered /\ totalRetries < maxRetries[currentMsg]   \* faulty variant
TriesAgain == ~Delivered /\ totalRetries + 1 < maxRetries[currentMsg]
GivesUp == ~Delivered /\ ~TriesAgain

\* task send() hands the message to SendP: a first attempt, an attempt after the
\* delay, or a retry without delay.
SendTaskTransmits ==
  /\ Runs("send")
  /\ \/ /\ state = STATE_SENDING
        /\ UNCHANGED totalRetries
     \/ /\ state = STATE_SENDDONE
        /\ TriesAgain
        /\ ~retryDelay[currentMsg]
        /\ totalRetries' = totalRetries + 1
  /\ state' = STATE_SENDDONE
  /\ BareSendSend(currentMsg)
  /\ taskQueue' = Tail(taskQueue)
  /\ UNCHANGED <<txChild, readPipe, sendHdr, acked>>
  /\ UNCHANGED <<currentMsg, delayTimer, maxRetries, retryDelay>>

\* task send() starts the delay before a retry.
SendTaskDelays ==
  /\ Runs("send")
  /\ state = STATE_SENDDONE
  /\ TriesAgain
  /\ retryDelay[currentMsg]
  /\ totalRetries' = totalRetries + 1
  /\ state' = STATE_SENDING
  /\ delayTimer' = TRUE
  /\ taskQueue' = Tail(taskQueue)
  /\ UNCHANGED <<writePipe, txChild, readPipe, sendHdr, acked, dsn>>
  /\ UNCHANGED <<currentMsg, maxRetries, retryDelay>>

\* The retries that task send() reports for its error code.
RetriesUsed == IF state = STATE_SENDDONE /\ GivesUp THEN totalRetries + 1 ELSE totalRetries

\* task send() signals Send.sendDone(currentMsg, error), after overwriting the
\* message's maxRetries with the retries it took.
SendTaskSignals(error) ==
  /\ Runs("send")
  /\ \/ state = STATE_SENDDONE /\ Delivered /\ error = SUCCESS
     \/ state = STATE_SENDDONE /\ GivesUp /\ error = FAIL
     \/ state >= STATE_SIGNAL /\ error = state - STATE_SIGNAL
  /\ totalRetries' = RetriesUsed
  /\ maxRetries' = IF maxRetries[currentMsg] > 0
                     THEN [maxRetries EXCEPT ![currentMsg] = RetriesUsed] ELSE maxRetries
  /\ state' = STATE_READY
  /\ taskQueue' = Tail(taskQueue)
  /\ UNCHANGED <<writePipe, txChild, readPipe, sendHdr, acked, dsn>>
  /\ UNCHANGED <<currentMsg, delayTimer, retryDelay>>

\* task send() finds nothing to do.
SendTaskIdle ==
  /\ Runs("send")
  /\ state = STATE_READY
  /\ taskQueue' = Tail(taskQueue)
  /\ UNCHANGED <<writePipe, txChild, readPipe, sendHdr, acked, dsn>>
  /\ UNCHANGED linkPVars

\* DelayTimer.fired
DelayTimerFired ==
  /\ delayTimer
  /\ delayTimer' = FALSE
  /\ taskQueue' = PostTo(taskQueue, "send")
  /\ UNCHANGED <<writePipe, txChild, readPipe, sendHdr, acked, dsn>>
  /\ UNCHANGED <<state, currentMsg, totalRetries, maxRetries, retryDelay>>

\* SendP's sendDone_task and the SubSend.sendDone(msg, SUCCESS) it signals.
SendDoneTask ==
  /\ Runs("sendDone_task")
  /\ acked' = AckedAfter(sendHdr)
  /\ taskQueue' = PostTo(Tail(taskQueue), "send")
  /\ UNCHANGED <<writePipe, txChild, readPipe, sendHdr, dsn>>
  /\ UNCHANGED linkPVars
=============================================================================
