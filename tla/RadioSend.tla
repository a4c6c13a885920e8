------------------------------- MODULE RadioSend -------------------------------
(***************************************************************************)
(* The properties of the transmit stack CC2520LinuxRadioP.                 *)
(***************************************************************************)
EXTENDS CC2520LinuxRadioP, FiniteSets

\* LinkP keeps at most one packet below it, and none unless it waits for that
\* packet's sendDone: a buffer is never signalled back, nor sent once more,
\* while the child still holds it.  A cancel must therefore wait for the
\* transmission it cannot stop (CC2520LinuxLinkP.nc:116-124).
OneInFlight ==
  /\ InFlight <= 1
  /\ state \in {STATE_READY, STATE_SENDING} => InFlight = 0

\* A send that asked for retries, and so for an acknowledgement, is reported
\* SUCCESS only if the driver reported its last transmission acknowledged.
SuccessMeansAcked ==
  (outcome # NoOutcome /\ outcome.error = SUCCESS)
    => /\ sent.attempts >= 1
       /\ asked[outcome.msg] > 0 => sent.ret \in AckResults

\* A send is reported FAIL only after all the attempts it asked for, the last
\* of them not acknowledged.
FailMeansExhausted ==
  outcome.error = FAIL
    => /\ sent.attempts = asked[outcome.msg]
       /\ sent.ret \notin AckResults

\* A message goes on the air at most as often as its setRetries allows, and
\* once if it allows none.
AttemptBound ==
  currentMsg # NoMessage =>
    sent.attempts <= (IF asked[currentMsg] = 0 THEN 1 ELSE asked[currentMsg])

\* All transmissions of one send carry the same data sequence number, so that
\* a receiver can tell a retry from a new packet (CC2520LinuxRadioP.nc:124-127).
OneNumberPerSend == Cardinality(sent.dsns) <= 1

\* A packet the driver reported acknowledged is not transmitted again by the
\* same send.
NoRetryAfterAck ==
  [][sent'.attempts > sent.attempts => sent.ret \notin AckResults]_vars

\* The stack writes the ack flag of a buffer only while it owns the buffer,
\* that is between an accepted send and its sendDone.
AckWrittenOnlyWhileOwned ==
  [][\A m \in Messages :
       acked'[m] # acked[m] => m = currentMsg /\ state # STATE_READY]_vars

\* The stack implements the contract of its Send interface: an accepted send is
\* signalled back at most once, with ECANCEL if and only if it was cancelled, and
\* it is signalled back unless the retry timer never fires: LinkP has no other
\* way out of the delay between two attempts (CC2520LinuxLinkP.nc:47-52).
Contract == INSTANCE SendContract WITH
  pending <- IF state = STATE_READY THEN NoMessage ELSE currentMsg,
  cancelled <- state >= STATE_SIGNAL,
  waiting <- state = STATE_SENDING /\ delayTimer,
  CancelError <- ECANCEL
ContractSafety == Contract!ContractSafety
ContractKept == Contract!ContractSpec
=============================================================================
