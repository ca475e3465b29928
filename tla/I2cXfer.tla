------------------------------ MODULE I2cXfer ------------------------------
(* What a transfer of write messages promises its caller, without registers *)
(* or interrupts: the messages of one call are delivered to the slave in    *)
(* order and each as a whole; the first one the slave does not acknowledge  *)
(* ends the call with an error and is not delivered; the call returns 0     *)
(* exactly when all were.                                                   *)
EXTENDS Integers, Sequences

CONSTANT WriteCalls    \* the calls: sequences of messages, each a sequence of bytes

VARIABLES
  call,       \* the messages of the current call
  active,     \* a call is in progress
  delivered,  \* the messages delivered in this call
  refused,    \* the slave has refused one
  ret         \* what the last call returned

xferVars == <<call, active, delivered, refused, ret>>

XferInit ==
  /\ call = <<>> /\ active = FALSE /\ delivered = <<>>
  /\ refused = FALSE /\ ret = 0

Begin(c) ==
  /\ ~active
  /\ call' = c /\ active' = TRUE /\ delivered' = <<>> /\ refused' = FALSE
  /\ UNCHANGED ret

Deliver ==
  /\ active /\ ~refused /\ Len(delivered) < Len(call)
  /\ delivered' = Append(delivered, call[Len(delivered) + 1])
  /\ UNCHANGED <<call, active, refused, ret>>

Refuse ==
  /\ active /\ ~refused /\ Len(delivered) < Len(call)
  /\ refused' = TRUE
  /\ UNCHANGED <<call, active, delivered, ret>>

Return ==
  /\ active
  /\ refused \/ Len(delivered) = Len(call)
  /\ active' = FALSE
  /\ ret' = IF refused THEN -1 ELSE 0
  /\ UNCHANGED <<call, delivered, refused>>

XferNext == (\E c \in WriteCalls : Begin(c)) \/ Deliver \/ Refuse \/ Return

XferSafety == XferInit /\ [][XferNext]_xferVars

XferSpec ==
  XferSafety /\ WF_xferVars(Deliver \/ Refuse) /\ WF_xferVars(Return)
=============================================================================
