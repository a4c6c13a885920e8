----------------------------- MODULE SendContract -----------------------------
(***************************************************************************)
(* What the transmit stack promises a user of its Send interface: it takes *)
(* one message at a time; the message it took is signalled back exactly    *)
(* once, and with ECANCEL exactly when a cancel was answered SUCCESS; and  *)
(* while it has no message it signals nothing.  It may keep a message for  *)
(* ever only by waiting for ever for a timer of its own.                   *)
(***************************************************************************)
CONSTANTS Messages, NoMessage, Errors, CancelError, NoOutcome

VARIABLES
  pending,     \* the message the stack has accepted, or NoMessage
  cancelled,   \* a cancel of that message was answered SUCCESS
  outcome,     \* the last sendDone, [msg, error]; NoOutcome since an accept
  waiting      \* the stack waits for its timer; the contract leaves it free

contractVars == <<pending, cancelled, outcome>>

ContractInit ==
  /\ pending = NoMessage
  /\ cancelled = FALSE
  /\ outcome = NoOutcome

Accept(m) ==
  /\ pending = NoMessage
  /\ pending' = m
  /\ outcome' = NoOutcome
  /\ UNCHANGED cancelled

Cancel ==
  /\ pending # NoMessage
  /\ cancelled' = TRUE
  /\ UNCHANGED <<pending, outcome>>

Complete(error) ==
  /\ pending # NoMessage
  /\ cancelled <=> error = CancelError
  /\ outcome' = [msg |-> pending, error |-> error]
  /\ pending' = NoMessage
  /\ cancelled' = FALSE

ContractNext ==
  \/ \E m \in Messages : Accept(m)
  \/ Cancel
  \/ \E error \in Errors : Complete(error)

ContractSafety == ContractInit /\ [][ContractNext]_contractVars

\* A message that the stack keeps is completed, unless the stack waits for its
\* timer from some moment on.
Completes == SF_contractVars(~waiting /\ \E error \in Errors : Complete(error))

ContractSpec == ContractSafety /\ Completes
=============================================================================
