----------------------------- MODULE I2cMaster -----------------------------
(* The I2C master driver of the S3C2440 (i2c/s3c2440_i2c_controller.c): a    *)
(* transfer is started by the caller, driven by one interrupt per byte and   *)
(* awaited in a polling loop.                                                *)
(*                                                                          *)
(* The controller shifts one byte, raises IRQ 27 and holds the clock until   *)
(* the handler clears IICCON[4]; while it holds, nothing moves on the bus,   *)
(* and the handler is not interrupted, so each handler run is one step.  The *)
(* polling loop, the controller and the slave interleave freely with it.     *)
EXTENDS Integers, Sequences

CONSTANTS
  Data,          \* the bytes on the bus
  Calls,         \* the calls of master_xfer: sequences of messages
  AddressByte,   \* what IICDS holds while it is addr << 1 or addr << 1 | 1
  NoByte         \* what a buffer cell holds that was never written

\* struct i2c_msg: flag 0 writes buf, flag 1 reads len bytes.  The len of a read
\* is an int that nothing checks.
Messages ==
  [flag : {0}, len : Nat, buf : Seq(Data)] \cup [flag : {1}, len : Int, buf : {<<>>}]

ASSUME I2cAssumption ==
  /\ Calls \subseteq Seq(Messages) \ {<<>>}
  /\ \A c \in Calls : \A i \in 1..Len(c) : c[i].flag = 0 => c[i].len = Len(c[i].buf)
  /\ NoByte \notin Data /\ AddressByte \notin Data \cup {NoByte}

VARIABLES
  msgs,       \* the messages of the current (or last) call
  mi,         \* master_xfer: the message the loop is at (from 1)
  mpc,        \* where the caller is: "idle", "setup", "start", "wait"
  ret,        \* what the last call returned
  cnt,        \* p_cur_msg->cnt_transferred
  err,        \* p_cur_msg->err
  bus,        \* "idle", "shift" (a byte is moving), "held" (interrupt pending)
  mode,       \* "tx" or "rx"
  phase,      \* "address" or "data": what the byte on the bus is
  iicds,      \* IICDS
  acked,      \* IICSTAT[0] = 0: the last byte was acknowledged
  wire,       \* data bytes the slave has seen, or sent, since START
  rxbuf,      \* the caller's buffer of a read; index -1 is the byte before it
  delivered   \* history: messages completed by a STOP in this call

callVars == <<msgs, mi, mpc, ret>>
msgVars == <<cnt, err, rxbuf>>
busVars == <<bus, mode, phase, iicds, acked, wire>>
vars == <<callVars, msgVars, busVars, delivered>>

Msg == msgs[mi]
-----------------------------------------------------------------------------
(* The caller *)

\* s3c2440_master_xfer(msgs, num): the loop starts.  A call is made only while
\* the bus is idle: what reprogramming a controller that is still receiving
\* does is not in the code.
Call(c) ==
  /\ mpc = "idle" /\ bus = "idle"
  /\ mpc' = "setup"
  /\ msgs' = c /\ mi' = 1 /\ delivered' = <<>>
  /\ UNCHANGED <<ret, msgVars, busVars>>

\* Mutant: the count starts at 0, as if the address were a data byte.
SetUpFromZero ==
  /\ mpc = "setup" /\ mpc' = "start"
  /\ cnt' = 0 /\ err' = 0
  /\ rxbuf' = [i \in -1..(Msg.len - 1) |-> NoByte]
  /\ UNCHANGED <<msgs, mi, ret, busVars, delivered>>

\* do_master_tx, do_master_rx: p_cur_msg = msg, its count and error.
SetUp ==
  /\ mpc = "setup" /\ mpc' = "start"
  /\ cnt' = -1 /\ err' = 0
  /\ rxbuf' = [i \in -1..(Msg.len - 1) |-> NoByte]
  /\ UNCHANGED <<msgs, mi, ret, busVars, delivered>>

\* The address goes out: IICDS, then IICSTAT = 0xf0 or 0xb0.
Start ==
  /\ mpc = "start" /\ mpc' = "wait"
  /\ bus' = "shift" /\ phase' = "address"
  /\ mode' = IF Msg.flag = 0 THEN "tx" ELSE "rx"
  /\ iicds' = AddressByte /\ wire' = <<>>
  /\ UNCHANGED <<msgs, mi, ret, msgVars, acked, delivered>>

\* Mutant: the loop ends when the last byte is handed over, not when it is out.
PollEndEarly ==
  /\ mpc = "wait"
  /\ err # 0 \/ cnt >= Msg.len - 1
  /\ IF err # 0 THEN mpc' = "idle" /\ ret' = -1 /\ UNCHANGED mi
     ELSE IF mi = Len(msgs) THEN mpc' = "idle" /\ ret' = 0 /\ UNCHANGED mi
     ELSE mpc' = "setup" /\ mi' = mi + 1 /\ UNCHANGED ret
  /\ UNCHANGED <<msgs, msgVars, busVars, delivered>>

\* Mutant: master_xfer goes on to the next message after a refused one.
PollEndGoesOn ==
  /\ mpc = "wait"
  /\ err # 0 \/ cnt = Msg.len
  /\ IF mi = Len(msgs) THEN mpc' = "idle" /\ ret' = err /\ UNCHANGED mi
     ELSE mpc' = "setup" /\ mi' = mi + 1 /\ UNCHANGED ret
  /\ UNCHANGED <<msgs, msgVars, busVars, delivered>>

\* The loop "while (!err && cnt != len)" ends, and master_xfer goes on with the
\* next message or returns.  (It is declared void: ret is what the build leaves
\* in the return register, the value of the last do_master call; see README.)
PollEnd ==
  /\ mpc = "wait"
  /\ err # 0 \/ cnt = Msg.len
  /\ IF err # 0 THEN mpc' = "idle" /\ ret' = -1 /\ UNCHANGED mi
     ELSE IF mi = Len(msgs) THEN mpc' = "idle" /\ ret' = 0 /\ UNCHANGED mi
     ELSE mpc' = "setup" /\ mi' = mi + 1 /\ UNCHANGED ret
  /\ UNCHANGED <<msgs, msgVars, busVars, delivered>>
-----------------------------------------------------------------------------
(* The controller and the slave *)

\* The address byte has been shifted; a slave answers or does not (absent, or
\* busy with a write cycle).
AddressDone ==
  /\ bus = "shift" /\ phase = "address"
  /\ bus' = "held" /\ phase' = "data"
  /\ acked' \in BOOLEAN
  /\ UNCHANGED <<callVars, msgVars, mode, iicds, wire, delivered>>

\* A data byte has been shifted out to the slave.
ByteOut ==
  /\ bus = "shift" /\ phase = "data" /\ mode = "tx"
  /\ bus' = "held"
  /\ wire' = Append(wire, iicds)
  /\ acked' \in BOOLEAN
  /\ UNCHANGED <<callVars, msgVars, mode, phase, iicds, delivered>>

\* A data byte has been shifted in from the slave.
ByteIn ==
  /\ bus = "shift" /\ phase = "data" /\ mode = "rx"
  /\ bus' = "held"
  /\ iicds' \in Data /\ wire' = Append(wire, iicds')
  /\ UNCHANGED <<callVars, msgVars, mode, phase, acked, delivered>>
-----------------------------------------------------------------------------
(* i2c_interrupt_func: cnt_transferred is incremented first *)

Interrupt(m) == bus = "held" /\ mode = m /\ cnt' = cnt + 1
First == cnt + 1 = 0                    \* this interrupt follows the address
Stop == bus' = "idle"                   \* IICSTAT = 0xd0 or 0x90
Resume == bus' = "shift"                \* IICCON[4] = 0

\* Mutant: the bus is stopped, but the error is not recorded.
IsrNoAckSilent ==
  /\ \E m \in {"tx", "rx"} : Interrupt(m)
  /\ First /\ ~acked
  /\ Stop /\ UNCHANGED err
  /\ UNCHANGED <<callVars, rxbuf, mode, phase, iicds, acked, wire, delivered>>

\* No slave acknowledged the address: stop with an error.
IsrNoAck ==
  /\ \E m \in {"tx", "rx"} : Interrupt(m)
  /\ First /\ ~acked
  /\ Stop /\ err' = -1
  /\ UNCHANGED <<callVars, rxbuf, mode, phase, iicds, acked, wire, delivered>>

\* Write: the next byte goes out.
IsrTxNext ==
  /\ Interrupt("tx") /\ (First => acked)
  /\ cnt' < Msg.len
  /\ iicds' = Msg.buf[cnt' + 1] /\ Resume
  /\ UNCHANGED <<callVars, err, rxbuf, mode, phase, acked, wire, delivered>>

\* Mutant: no STOP after the last byte.
IsrTxStopMissing ==
  /\ Interrupt("tx") /\ (First => acked)
  /\ cnt' >= Msg.len
  /\ Resume /\ delivered' = Append(delivered, wire)
  /\ UNCHANGED <<callVars, err, rxbuf, mode, phase, iicds, acked, wire>>

\* Write: all bytes are out.
IsrTxStop ==
  /\ Interrupt("tx") /\ (First => acked)
  /\ cnt' >= Msg.len
  /\ Stop /\ delivered' = Append(delivered, wire)
  /\ UNCHANGED <<callVars, err, rxbuf, mode, phase, iicds, acked, wire>>

\* Read, first interrupt: IICDS is stored at buf[cnt - 1], which is buf[-1].
IsrRxFirst ==
  /\ Interrupt("rx") /\ First /\ acked
  /\ IF cnt' < Msg.len
     THEN rxbuf' = [rxbuf EXCEPT ![cnt' - 1] = iicds] /\ Resume
     ELSE UNCHANGED rxbuf /\ Stop
  /\ UNCHANGED <<callVars, err, mode, phase, iicds, acked, wire, delivered>>

\* Read, every later interrupt: the bus is resumed, with or without ACK, and
\* the handler returns.
IsrRxLater ==
  /\ Interrupt("rx") /\ ~First
  /\ cnt <= Msg.len     \* bound: one interrupt past the end of the polling
  /\ Resume
  /\ UNCHANGED <<callVars, err, rxbuf, mode, phase, iicds, acked, wire, delivered>>
-----------------------------------------------------------------------------
Init ==
  /\ msgs = <<>> /\ mi = 1 /\ mpc = "idle" /\ ret = 0
  /\ cnt = -1 /\ err = 0 /\ rxbuf = <<>>
  /\ bus = "idle" /\ mode = "tx" /\ phase = "address" /\ iicds = AddressByte
  /\ acked = FALSE /\ wire = <<>> /\ delivered = <<>>

Caller == (\E c \in Calls : Call(c)) \/ SetUp \/ Start \/ PollEnd
Controller == AddressDone \/ ByteOut \/ ByteIn
Isr == IsrNoAck \/ IsrTxNext \/ IsrTxStop \/ IsrRxFirst \/ IsrRxLater

Next == Caller \/ Controller \/ Isr

Spec == Init /\ [][Next]_vars

\* Next without the steps of a read.  Calls of write messages never take those
\* (theorem WritesNeverReceive of I2cMaster_proof).
WriteNext == Caller \/ AddressDone \/ ByteOut \/ IsrNoAck \/ IsrTxNext \/ IsrTxStop

\* Such calls when the polling loop runs, the controller shifts, and IRQ 27 is
\* served.
FairWriteSpec ==
  /\ Init /\ [][WriteNext]_vars
  /\ WF_vars(SetUp \/ Start \/ PollEnd)
  /\ WF_vars(AddressDone \/ ByteOut)
  /\ WF_vars(IsrNoAck \/ IsrTxNext \/ IsrTxStop)
-----------------------------------------------------------------------------
Byte == Data \cup {AddressByte}

\* Every variable has its type, and the count never passes the message.
TypeOK ==
  /\ msgs \in Calls \cup {<<>>} /\ mi \in 1..(Len(msgs) + 1)
  /\ mpc \in {"idle", "setup", "start", "wait"} /\ ret \in {0, -1}
  /\ mpc # "idle" => mi \in 1..Len(msgs)
  /\ cnt \in Int /\ cnt >= -1 /\ err \in {0, -1}
  /\ mpc = "wait" => cnt <= Msg.len
  /\ bus \in {"idle", "shift", "held"} /\ mode \in {"tx", "rx"}
  /\ phase \in {"address", "data"} /\ iicds \in Byte /\ acked \in BOOLEAN
  /\ wire \in Seq(Byte) /\ delivered \in Seq(Seq(Byte))

\* While no polling loop waits, the bus is free: every write ends with a STOP
\* before its caller goes on, so no interrupt finds p_cur_msg pointing to a
\* message whose stack frame is gone, and no START meets a busy bus.
BusFreeUnlessWaiting == mpc # "wait" => bus = "idle"

\* The inductive invariant of calls that only write: where the bus is, the count
\* is, and so is what the slave has seen.
AllWrites == \A c \in Calls : \A i \in 1..Len(c) : c[i].flag = 0

Waiting ==
  /\ mode = "tx"
  /\ bus # "idle" => err = 0 /\ Len(delivered) = mi - 1
  /\ bus = "shift" /\ phase = "address" => cnt = -1 /\ wire = <<>>
  /\ bus = "shift" /\ phase = "data" =>
       /\ cnt \in 0..(Msg.len - 1)
       /\ iicds = Msg.buf[cnt + 1] /\ wire = SubSeq(Msg.buf, 1, cnt)
  /\ bus = "held" =>
       /\ phase = "data" /\ cnt \in -1..(Msg.len - 1)
       /\ wire = SubSeq(Msg.buf, 1, cnt + 1)
  /\ bus = "idle" /\ err = 0 => cnt = Msg.len /\ Len(delivered) = mi
  /\ bus = "idle" /\ err # 0 => Len(delivered) = mi - 1

WriteInv ==
  /\ BusFreeUnlessWaiting
  /\ Len(delivered) <= Len(msgs)
  /\ \A i \in 1..Len(delivered) : delivered[i] = msgs[i].buf
  /\ mpc \in {"setup", "start"} => Len(delivered) = mi - 1
  /\ mpc = "start" => cnt = -1 /\ err = 0
  /\ mpc = "wait" => Waiting

\* master_xfer goes on to a message only when all before it were delivered: a
\* read never starts without the address message that precedes it.
EarlierMessagesDelivered ==
  mpc # "idle" /\ (\A i \in 1..(mi - 1) : msgs[i].flag = 0) =>
    /\ Len(delivered) >= mi - 1
    /\ \A i \in 1..(mi - 1) : delivered[i] = msgs[i].buf

\* Calls of write messages are what I2cXfer promises.
Bufs(c) == [i \in 1..Len(c) |-> c[i].buf]
Promise == INSTANCE I2cXfer WITH
  WriteCalls <- {Bufs(c) : c \in Calls},
  call <- Bufs(msgs),
  active <- mpc # "idle",
  refused <- err # 0 /\ mpc \in {"wait", "idle"}
RefinesXfer == Promise!XferSpec

\* s3c2440_i2c_controller.c:116: "not the first interrupt: a new byte has come;
\* read it from IICDS and save it": a read that returns 0 has saved what the
\* slave sent.
ReadDeliversData ==
  mpc = "idle" /\ ret = 0 /\ mi \in 1..Len(msgs) /\ Msg.flag = 1 =>
    \A i \in 1..Msg.len : rxbuf[i - 1] = wire[i]
=============================================================================
