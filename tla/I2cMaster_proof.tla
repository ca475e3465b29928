-------------------------- MODULE I2cMaster_proof --------------------------
(* Proofs about the master driver, for any bytes, any number of messages and  *)
(* any lengths: of calls that only write, and then of any calls.              *)
EXTENDS I2cMaster, SequenceTheorems, TLAPS

\* What a call holds: every message writes, and its len is the length of buf.
LEMMA MessageFacts ==
  ASSUME AllWrites, NEW c \in Calls, NEW i \in 1..Len(c)
  PROVE  /\ c[i].flag = 0 /\ c[i].buf \in Seq(Data)
         /\ c[i].len = Len(c[i].buf) /\ c[i].len \in Nat
<1>1. c \in Seq(Messages) /\ c[i] \in Messages
  BY I2cAssumption
<1>2. c[i].flag = 0 /\ c[i].len = Len(c[i].buf)
  BY I2cAssumption DEF AllWrites
<1>3. c[i] \in [flag : {0}, len : Nat, buf : Seq(Data)]
  BY <1>1, <1>2 DEF Messages
<1>4. QED
  BY <1>2, <1>3

LEMMA CurrentMessage ==
  ASSUME AllWrites, TypeOK, mpc # "idle"
  PROVE  /\ msgs \in Calls /\ mi \in 1..Len(msgs)
         /\ Msg.flag = 0 /\ Msg.buf \in Seq(Data)
         /\ Msg.len = Len(Msg.buf) /\ Msg.len \in Nat
<1>1. mi \in 1..Len(msgs) /\ msgs \in Calls
  BY DEF TypeOK
<1>2. QED
  BY <1>1, MessageFacts DEF Msg

\* One more byte of a prefix.
LEMMA PrefixStep ==
  ASSUME NEW S, NEW s \in Seq(S), NEW n \in 0..(Len(s) - 1)
  PROVE  Append(SubSeq(s, 1, n), s[n + 1]) = SubSeq(s, 1, n + 1)
OBVIOUS

LEMMA WholePrefix ==
  ASSUME NEW S, NEW s \in Seq(S)
  PROVE  SubSeq(s, 1, 0) = <<>> /\ SubSeq(s, 1, Len(s)) = s
OBVIOUS

\* The types and the inductive invariant WriteInv: the byte count of the message
\* is in step with what the bus has carried, so the polling loop of do_master_tx
\* ends exactly when i2c_interrupt_func has sent STOP.
THEOREM WriteTypes == ASSUME AllWrites PROVE Spec => [](TypeOK /\ WriteInv)
<1> USE AllWrites
<1>1. Init => TypeOK /\ WriteInv
  <2>1. <<>> \in Seq(Byte) /\ <<>> \in Seq(Seq(Byte)) /\ Len(<<>>) = 0
    OBVIOUS
  <2>2. ASSUME Init PROVE TypeOK
    <3>1. /\ msgs \in Calls \cup {<<>>} /\ mi \in 1..(Len(msgs) + 1)
          /\ mpc = "idle" /\ ret \in {0, -1} /\ cnt \in Int /\ cnt >= -1
      BY <2>1, <2>2 DEF Init
    <3>2. wire \in Seq(Byte) /\ delivered \in Seq(Seq(Byte)) /\ iicds \in Byte
      BY <2>1, <2>2 DEF Init, Byte
    <3>3. QED
      BY <2>2, <3>1, <3>2 DEF Init, TypeOK
  <2>3. Init => WriteInv
    BY <2>1 DEF Init, WriteInv, BusFreeUnlessWaiting
  <2>4. QED
    BY <2>2, <2>3
<1>2. TypeOK /\ WriteInv /\ [Next]_vars => TypeOK' /\ WriteInv'
  <2> SUFFICES ASSUME TypeOK, WriteInv, [Next]_vars PROVE TypeOK' /\ WriteInv'
    OBVIOUS
  <2>1. ASSUME NEW c \in Calls, Call(c) PROVE TypeOK' /\ WriteInv'
    <3>1. c \in Seq(Messages) /\ c # <<>> /\ Len(c) \in Nat /\ 1 \in 1..Len(c)
      BY I2cAssumption
    <3>2. QED
      BY <2>1, <3>1 DEF Call, TypeOK, WriteInv, BusFreeUnlessWaiting, msgVars, busVars
  <2>2. CASE SetUp
    BY <2>2, CurrentMessage DEF SetUp, TypeOK, WriteInv, BusFreeUnlessWaiting, busVars
  <2>3. CASE Start
    BY <2>3, CurrentMessage DEF Start, TypeOK, WriteInv, BusFreeUnlessWaiting, Waiting, Msg,
       msgVars, Byte
  <2>4. CASE PollEnd
    <3>1. bus = "idle" /\ (err = 0 => Len(delivered) = mi)
      BY <2>4, CurrentMessage DEF PollEnd, WriteInv, Waiting, TypeOK
    <3>2. QED
      BY <2>4, <3>1, CurrentMessage DEF PollEnd, TypeOK, WriteInv, BusFreeUnlessWaiting, Msg,
         msgVars, busVars
  <2>5. CASE AddressDone
    <3>1. mpc = "wait" /\ SubSeq(Msg.buf, 1, 0) = <<>>
      BY <2>5, CurrentMessage, WholePrefix DEF AddressDone, WriteInv, BusFreeUnlessWaiting
    <3>2. QED
      BY <2>5, <3>1, CurrentMessage DEF AddressDone, TypeOK, WriteInv, BusFreeUnlessWaiting,
         Waiting, Msg, callVars, msgVars
  <2>6. CASE ByteOut
    <3>1. /\ mpc = "wait" /\ cnt \in 0..(Msg.len - 1)
          /\ iicds = Msg.buf[cnt + 1] /\ wire = SubSeq(Msg.buf, 1, cnt)
      BY <2>6 DEF ByteOut, WriteInv, BusFreeUnlessWaiting, Waiting
    <3>2. wire' = SubSeq(Msg.buf, 1, cnt + 1)
      BY <2>6, <3>1, CurrentMessage, PrefixStep DEF ByteOut
    <3>3. wire' \in Seq(Byte)
      BY <2>6, AppendProperties DEF ByteOut, TypeOK
    <3>4. QED
      BY <2>6, <3>1, <3>2, <3>3, CurrentMessage DEF ByteOut, TypeOK, WriteInv,
         BusFreeUnlessWaiting, Waiting, Msg, callVars, msgVars
  <2>7. CASE ByteIn
    BY <2>7, CurrentMessage DEF ByteIn, WriteInv, BusFreeUnlessWaiting, Waiting
  <2>8. CASE IsrNoAck
    <3>1. mpc = "wait" /\ cnt = -1 /\ cnt' = 0
      BY <2>8 DEF IsrNoAck, Interrupt, First, WriteInv, BusFreeUnlessWaiting, TypeOK
    <3>2. QED
      BY <2>8, <3>1, CurrentMessage DEF IsrNoAck, Interrupt, Stop, TypeOK, WriteInv,
         BusFreeUnlessWaiting, Waiting, Msg, callVars
  <2>9. CASE IsrTxNext
    <3>1. /\ mpc = "wait" /\ cnt' = cnt + 1 /\ cnt' \in 0..(Msg.len - 1)
          /\ wire = SubSeq(Msg.buf, 1, cnt')
      <4>1. mpc = "wait" /\ bus = "held" /\ cnt' = cnt + 1 /\ cnt' < Msg.len
        BY <2>9 DEF IsrTxNext, Interrupt, WriteInv, BusFreeUnlessWaiting
      <4>2. cnt \in -1..(Msg.len - 1) /\ wire = SubSeq(Msg.buf, 1, cnt + 1)
        BY <4>1 DEF WriteInv, Waiting
      <4>3. QED
        BY <4>1, <4>2, CurrentMessage
    <3>2. iicds' \in Byte
      BY <2>9, <3>1, CurrentMessage DEF IsrTxNext, Byte
    <3>3. QED
      BY <2>9, <3>1, <3>2, CurrentMessage DEF IsrTxNext, Interrupt, Resume, TypeOK, WriteInv,
         BusFreeUnlessWaiting, Waiting, Msg, callVars
  <2>10. CASE IsrTxStop
    <3>1. /\ mpc = "wait" /\ cnt' = Msg.len /\ wire = SubSeq(Msg.buf, 1, Msg.len)
          /\ Len(delivered) = mi - 1 /\ err = 0
      BY <2>10, CurrentMessage DEF IsrTxStop, Interrupt, WriteInv, BusFreeUnlessWaiting,
         Waiting, TypeOK
    <3>2. wire = Msg.buf
      BY <3>1, CurrentMessage, WholePrefix
    <3>3. /\ delivered' \in Seq(Seq(Byte)) /\ Len(delivered') = mi
          /\ \A i \in 1..mi : delivered'[i] = msgs[i].buf
      <4>1. delivered' = Append(delivered, wire) /\ wire = msgs[mi].buf
        BY <2>10, <3>2 DEF IsrTxStop, Msg
      <4>2. delivered \in Seq(Seq(Byte)) /\ wire \in Seq(Byte) /\ mi \in Nat \ {0}
        BY <3>1, CurrentMessage DEF TypeOK
      <4>3. /\ delivered' \in Seq(Seq(Byte)) /\ Len(delivered') = mi
            /\ delivered'[mi] = wire
            /\ \A i \in 1..(mi - 1) : delivered'[i] = delivered[i]
        BY <3>1, <4>1, <4>2, AppendProperties
      <4>4. \A i \in 1..(mi - 1) : delivered[i] = msgs[i].buf
        BY <3>1 DEF WriteInv
      <4>5. QED
        <5>1. ASSUME NEW i \in 1..mi PROVE delivered'[i] = msgs[i].buf
          <6>1. CASE i = mi
            BY <4>1, <4>3, <6>1
          <6>2. CASE i # mi
            BY <4>2, <4>3, <4>4, <6>2
          <6>3. QED
            BY <6>1, <6>2
        <5>2. QED
          BY <4>3, <5>1
    <3>4. mi <= Len(msgs)
      BY <3>1, CurrentMessage
    <3>5. /\ bus' = "idle" /\ UNCHANGED <<callVars, err, mode, phase, iicds, acked, wire>>
      BY <2>10 DEF IsrTxStop, Stop
    <3>6. TypeOK'
      BY <3>1, <3>3, <3>5, CurrentMessage DEF TypeOK, callVars, Msg
    <3>7. Waiting'
      BY <2>10, <3>1, <3>3, <3>5 DEF WriteInv, Waiting, callVars, Msg
    <3>8. QED
      BY <3>1, <3>3, <3>4, <3>5, <3>6, <3>7 DEF WriteInv, BusFreeUnlessWaiting, callVars
  <2>11. CASE IsrRxFirst \/ IsrRxLater
    BY <2>11 DEF IsrRxFirst, IsrRxLater, Interrupt, WriteInv, BusFreeUnlessWaiting, Waiting
  <2>12. CASE UNCHANGED vars
    BY <2>12 DEF vars, callVars, msgVars, busVars, TypeOK, WriteInv, BusFreeUnlessWaiting,
       Waiting, Msg
  <2>13. QED
    BY <2>1, <2>2, <2>3, <2>4, <2>5, <2>6, <2>7, <2>8, <2>9, <2>10, <2>11, <2>12
       DEF Next, Caller, Controller, Isr
<1>3. QED
  BY <1>1, <1>2, PTL DEF Spec

\* The bus is free whenever no polling loop waits: no interrupt comes after its
\* message is gone, and no START meets a busy bus.
THEOREM BusFree == ASSUME AllWrites PROVE Spec => []BusFreeUnlessWaiting
<1>1. WriteInv => BusFreeUnlessWaiting
  BY DEF WriteInv
<1>2. QED
  BY <1>1, WriteTypes, PTL

\* The receiving branch of the interrupt handler is never entered by calls of
\* write messages: their steps are those of WriteNext.
THEOREM WritesNeverReceive == ASSUME AllWrites PROVE Spec => [][WriteNext]_vars
<1>1. TypeOK /\ WriteInv /\ [Next]_vars => [WriteNext]_vars
  <2>1. WriteInv => bus = "idle" \/ mode = "tx"
    BY DEF WriteInv, BusFreeUnlessWaiting, Waiting
  <2>2. WriteInv => ~ByteIn /\ ~IsrRxFirst /\ ~IsrRxLater
    BY <2>1 DEF ByteIn, IsrRxFirst, IsrRxLater, Interrupt
  <2>3. QED
    BY <2>2 DEF Next, WriteNext, Controller, Isr
<1>2. QED
  BY <1>1, WriteTypes, PTL DEF Spec

-----------------------------------------------------------------------------
(* Every call of writes ends.  MsgLeft bounds the steps that are left of the  *)
(* message at hand, two for each byte: the byte itself and its interrupt.     *)

MsgLeft ==
  LET rest == 2 * (Msg.len - cnt) IN
  IF mpc = "setup" THEN 2 * Msg.len + 6
  ELSE IF mpc = "start" THEN 2 * Msg.len + 5
  ELSE IF bus = "shift" THEN rest + 2
  ELSE IF bus = "held" THEN rest + 1
  ELSE 1

\* A step that the call can take.
CallCanStep ==
  \/ mpc \in {"setup", "start"}
  \/ mpc = "wait" /\ bus = "idle" /\ (err # 0 \/ cnt = Msg.len)
  \/ mpc = "wait" /\ bus \in {"shift", "held"} /\ mode = "tx"

MessageStep == SetUp \/ Start \/ PollEnd \/ Controller \/ Isr

\* The call ends, or goes on with its next message, or is nearer to the end of
\* this one.
Advance ==
  /\ msgs' = msgs
  /\ \/ mpc' = "idle"
     \/ mi' = mi + 1 /\ mi' <= Len(msgs)
     \/ mi' = mi /\ MsgLeft \in Nat /\ MsgLeft' \in Nat /\ MsgLeft' < MsgLeft

\* Where the bus is on when a write waits.
LEMMA WritingFacts ==
  ASSUME AllWrites, TypeOK, WriteInv, bus # "idle"
  PROVE  /\ mpc = "wait" /\ mode = "tx" /\ Waiting /\ cnt \in -1..(Msg.len - 1)
         /\ Msg.len \in Nat /\ bus \in {"shift", "held"} /\ phase \in {"address", "data"}
         /\ MsgLeft = 2 * (Msg.len - cnt) + (IF bus = "shift" THEN 2 ELSE 1)
<1>1. mpc = "wait" /\ mode = "tx" /\ Waiting
  BY DEF WriteInv, BusFreeUnlessWaiting, Waiting
<1>2. Msg.len \in Nat
  BY <1>1, CurrentMessage
<1>3. bus \in {"shift", "held"} /\ phase \in {"address", "data"}
  BY DEF TypeOK
<1>4. cnt \in -1..(Msg.len - 1)
  BY <1>1, <1>2, <1>3 DEF Waiting
<1>5. QED
  BY <1>1, <1>2, <1>3, <1>4 DEF MsgLeft

LEMMA MessageStepEnds ==
  ASSUME AllWrites, TypeOK, WriteInv, MessageStep PROVE Advance
<1>1. CASE SetUp
  <2>1. mpc = "setup" /\ mpc' = "start" /\ UNCHANGED <<msgs, mi>> /\ Msg' = Msg
    BY <1>1 DEF SetUp, Msg
  <2>2. Msg.len \in Nat
    BY <2>1, CurrentMessage
  <2>3. MsgLeft = 2 * Msg.len + 6 /\ MsgLeft' = 2 * Msg.len + 5
    BY <2>1 DEF MsgLeft
  <2>4. QED
    BY <2>1, <2>2, <2>3 DEF Advance
<1>2. CASE Start
  <2>1. mpc = "start" /\ mpc' = "wait" /\ bus' = "shift" /\ UNCHANGED <<msgs, mi, cnt>> /\ Msg' = Msg
    BY <1>2 DEF Start, Msg, msgVars
  <2>2. Msg.len \in Nat /\ cnt = -1
    BY <2>1, CurrentMessage DEF WriteInv
  <2>3. MsgLeft = 2 * Msg.len + 5 /\ MsgLeft' = 2 * (Msg.len - cnt) + 2
    BY <2>1 DEF MsgLeft
  <2>4. QED
    BY <2>1, <2>2, <2>3 DEF Advance
<1>3. CASE PollEnd
  <2>1. mi \in 1..Len(msgs) /\ msgs' = msgs /\ Len(msgs) \in Nat
        /\ (mpc' = "idle" \/ (mi # Len(msgs) /\ mi' = mi + 1))
    BY <1>3, CurrentMessage, I2cAssumption DEF PollEnd
  <2>2. QED
    BY <2>1 DEF Advance
<1>4. CASE Controller
  <2>1. bus = "shift"
    BY <1>4 DEF Controller, AddressDone, ByteOut, ByteIn
  <2>2. bus' = "held" /\ UNCHANGED <<msgs, mi, mpc, cnt>> /\ Msg' = Msg
    BY <1>4 DEF Controller, AddressDone, ByteOut, ByteIn, callVars, msgVars, Msg
  <2>3. MsgLeft = 2 * (Msg.len - cnt) + 2 /\ mpc = "wait"
        /\ cnt \in -1..(Msg.len - 1) /\ Msg.len \in Nat
    BY <2>1, WritingFacts
  <2>4. MsgLeft' = 2 * (Msg.len - cnt) + 1
    BY <2>2, <2>3 DEF MsgLeft
  <2>5. QED
    BY <2>2, <2>3, <2>4 DEF Advance
<1>5. CASE Isr
  <2>1. bus = "held" /\ cnt' = cnt + 1 /\ UNCHANGED <<msgs, mi, mpc>> /\ Msg' = Msg
    BY <1>5 DEF Isr, IsrNoAck, IsrTxNext, IsrTxStop, IsrRxFirst, IsrRxLater, Interrupt, callVars, Msg
  <2>2. MsgLeft = 2 * (Msg.len - cnt) + 1 /\ mpc = "wait" /\ mode = "tx"
        /\ cnt \in -1..(Msg.len - 1) /\ Msg.len \in Nat
    BY <2>1, WritingFacts
  <2>3. bus' \in {"idle", "shift"}
    BY <1>5, <2>2 DEF Isr, IsrNoAck, IsrTxNext, IsrTxStop, IsrRxFirst, IsrRxLater, Stop, Resume
  <2>4. MsgLeft' = IF bus' = "shift" THEN 2 * (Msg.len - (cnt + 1)) + 2 ELSE 1
    BY <2>1, <2>2, <2>3 DEF MsgLeft
  <2>5. QED
    BY <2>1, <2>2, <2>4 DEF Advance
<1>6. QED
  BY <1>1, <1>2, <1>3, <1>4, <1>5 DEF MessageStep

\* A call of writes ends, refused or delivered, however many messages it has and
\* however long they are: until it does, the caller, the controller or the
\* handler has a step to take, the polling loop of do_master_tx never waiting for
\* an interrupt that will not come; and each step ends the call, goes on with its
\* next message, or brings the end of this message nearer.
THEOREM WriteCallsEnd ==
  ASSUME AllWrites
  PROVE  Spec => [](mpc # "idle" => CallCanStep) /\ [][MessageStep => Advance]_vars
<1> USE AllWrites
<1>1. TypeOK /\ WriteInv => (mpc # "idle" => CallCanStep)
  <2> SUFFICES ASSUME TypeOK, WriteInv, mpc = "wait" PROVE CallCanStep
    BY DEF TypeOK, CallCanStep
  <2>1. CASE bus = "idle"
    BY <2>1 DEF WriteInv, Waiting, CallCanStep
  <2>2. CASE bus # "idle"
    BY <2>2, WritingFacts DEF CallCanStep
  <2>3. QED
    BY <2>1, <2>2
<1>2. TypeOK /\ WriteInv /\ [Next]_vars => [MessageStep => Advance]_vars
  BY MessageStepEnds
<1>3. QED
  BY <1>1, <1>2, WriteTypes, PTL DEF Spec

-----------------------------------------------------------------------------
(* Any calls, reads among them, in any order.  Nothing is known of the bus    *)
(* once a read has been left without a STOP; but until then, that is while    *)
(* all messages before the one at hand are writes, they are as in WriteInv.   *)

\* What any call holds.
LEMMA WriteMessageFacts ==
  ASSUME NEW c \in Calls, NEW i \in 1..Len(c)
  PROVE  /\ c[i].flag \in {0, 1} /\ c[i].len \in Int
         /\ c[i].flag = 0 =>
              c[i].buf \in Seq(Data) /\ c[i].len = Len(c[i].buf) /\ c[i].len \in Nat
<1>1. c \in Seq(Messages) /\ c[i] \in Messages
  BY I2cAssumption
<1>2. c[i].flag = 0 => c[i].len = Len(c[i].buf)
  BY I2cAssumption
<1>3. \/ c[i] \in [flag : {0}, len : Nat, buf : Seq(Data)]
      \/ c[i] \in [flag : {1}, len : Int, buf : {<<>>}]
  BY <1>1 DEF Messages
<1>4. QED
  BY <1>2, <1>3

CallTyped ==
  /\ msgs \in Calls \cup {<<>>} /\ mpc \in {"idle", "setup", "start", "wait"}
  /\ mpc # "idle" => msgs \in Calls /\ mi \in 1..Len(msgs)
  /\ bus \in {"idle", "shift", "held"} /\ phase \in {"address", "data"}

OnlyWritesBefore == \A i \in 1..(mi - 1) : msgs[i].flag = 0

Sent(n) ==
  /\ delivered \in Seq(Seq(Data)) /\ Len(delivered) = n
  /\ \A i \in 1..n : delivered[i] = msgs[i].buf

AfterWrites ==
  mpc # "idle" /\ OnlyWritesBefore =>
    /\ mpc \in {"setup", "start"} => bus = "idle" /\ Sent(mi - 1)
    /\ mpc = "start" => cnt = -1 /\ err = 0
    /\ mpc = "wait" /\ Msg.flag = 0 => Waiting /\ Sent(Len(delivered))
    /\ mpc = "wait" /\ Msg.flag = 1 => mode = "rx" /\ Sent(mi - 1)

MixedInv == CallTyped /\ AfterWrites

LEMMA AtMessage ==
  ASSUME CallTyped, mpc # "idle"
  PROVE  /\ msgs \in Calls /\ Len(msgs) \in Nat /\ mi \in 1..Len(msgs) /\ mi - 1 \in Nat
         /\ Msg.flag \in {0, 1} /\ Msg.len \in Int
         /\ Msg.flag = 0 =>
              Msg.buf \in Seq(Data) /\ Msg.len = Len(Msg.buf) /\ Msg.len \in Nat
<1>1. msgs \in Calls /\ mi \in 1..Len(msgs)
  BY DEF CallTyped
<1>2. Len(msgs) \in Nat
  BY <1>1, I2cAssumption
<1>3. QED
  BY <1>1, <1>2, WriteMessageFacts DEF Msg

\* The steps of the caller.
LEMMA MixedCaller ==
  ASSUME MixedInv, Caller PROVE MixedInv'
<1>1. ASSUME NEW c \in Calls, Call(c) PROVE MixedInv'
  <2>1. c \in Seq(Messages) /\ c # <<>> /\ Len(c) \in Nat /\ 1 \in 1..Len(c)
    BY I2cAssumption
  <2>2. CallTyped'
    BY <1>1, <2>1 DEF Call, MixedInv, CallTyped, busVars
  <2>3. <<>> \in Seq(Seq(Data)) /\ Len(<<>>) = 0
    OBVIOUS
  <2>4. mpc' = "setup" /\ bus' = "idle" /\ mi' = 1 /\ delivered' = <<>>
    BY <1>1 DEF Call, busVars
  <2>5. Sent(mi - 1)'
    BY <2>3, <2>4 DEF Sent
  <2>6. QED
    BY <2>2, <2>4, <2>5 DEF MixedInv, AfterWrites
<1>2. CASE SetUp
  <2>1. /\ mpc = "setup" /\ mpc' = "start" /\ cnt' = -1 /\ err' = 0
        /\ UNCHANGED <<msgs, mi, bus, phase, delivered>>
    BY <1>2 DEF SetUp, busVars
  <2>2. Sent(mi - 1)' = Sent(mi - 1) /\ OnlyWritesBefore' = OnlyWritesBefore
    BY <2>1 DEF Sent, OnlyWritesBefore
  <2>3. QED
    BY <2>1, <2>2 DEF MixedInv, AfterWrites, CallTyped
<1>3. CASE Start
  <2>1. /\ mpc = "start" /\ mpc' = "wait" /\ bus' = "shift" /\ phase' = "address" /\ wire' = <<>>
        /\ mode' = IF Msg.flag = 0 THEN "tx" ELSE "rx"
        /\ UNCHANGED <<msgs, mi, cnt, err, delivered>>
    BY <1>3 DEF Start, msgVars
  <2>2. /\ Sent(mi - 1)' = Sent(mi - 1) /\ OnlyWritesBefore' = OnlyWritesBefore
        /\ Sent(Len(delivered))' = Sent(Len(delivered)) /\ Msg' = Msg
    BY <2>1 DEF Sent, OnlyWritesBefore, Msg
  <2>3. Msg.flag \in {0, 1}
    BY <2>1, AtMessage DEF MixedInv
  <2>4. ASSUME OnlyWritesBefore
        PROVE  /\ Sent(mi - 1) /\ Sent(Len(delivered)) /\ Len(delivered) = mi - 1
               /\ cnt = -1 /\ err = 0
    BY <2>1, <2>4 DEF MixedInv, AfterWrites, Sent
  <2>5. ASSUME OnlyWritesBefore, Msg.flag = 0 PROVE Waiting'
    BY <2>1, <2>4, <2>5 DEF Waiting
  <2>6. CallTyped'
    BY <2>1 DEF MixedInv, CallTyped
  <2>7. AfterWrites'
    BY <2>1, <2>2, <2>3, <2>4, <2>5 DEF AfterWrites
  <2>8. QED
    BY <2>6, <2>7 DEF MixedInv
<1>4. CASE PollEnd
  <2>1. mpc = "wait" /\ UNCHANGED <<msgs, delivered, bus, phase>> /\ mi' \in {mi, mi + 1}
    BY <1>4 DEF PollEnd, busVars
  <2>2. CASE mpc' = "idle"
    BY <1>4, <2>1, <2>2 DEF MixedInv, CallTyped, AfterWrites
  <2>3. CASE mpc' # "idle"
    <3>1. mpc' = "setup" /\ mi' = mi + 1 /\ err = 0 /\ mi # Len(msgs) /\ cnt = Msg.len
      BY <1>4, <2>3 DEF PollEnd
    <3>2. /\ msgs \in Calls /\ mi \in 1..Len(msgs) /\ Len(msgs) \in Nat
          /\ Msg.flag = 0 => Msg.len \in Nat
      BY <2>1, AtMessage DEF MixedInv
    <3>3. CallTyped'
      BY <2>1, <3>1, <3>2 DEF MixedInv, CallTyped
    <3>4. ASSUME OnlyWritesBefore' PROVE bus = "idle" /\ Sent(mi)
      <4>1. \A i \in 1..mi : msgs[i].flag = 0
        BY <2>1, <3>1, <3>2, <3>4 DEF OnlyWritesBefore
      <4>2. OnlyWritesBefore /\ Msg.flag = 0
        BY <3>2, <4>1 DEF OnlyWritesBefore, Msg
      <4>3. Waiting /\ Sent(Len(delivered))
        BY <2>1, <4>2 DEF MixedInv, AfterWrites
      <4>4. bus = "idle"
        BY <2>1, <3>1, <3>2, <4>2, <4>3 DEF Waiting, MixedInv, CallTyped
      <4>5. QED
        BY <3>1, <4>3, <4>4 DEF Waiting
    <3>5. Sent(mi - 1)' <=> Sent(mi)
      <4>1. (mi - 1)' = mi
        BY <3>1, <3>2
      <4>2. QED
        BY <2>1, <4>1 DEF Sent
    <3>6. QED
      BY <2>1, <3>1, <3>3, <3>4, <3>5 DEF MixedInv, AfterWrites
  <2>4. QED
    BY <2>2, <2>3
<1>5. QED
  BY <1>1, <1>2, <1>3, <1>4 DEF Caller

\* What the message at hand is when the bus moves: a write, with the count in
\* step with the bus, or a read, of which nothing is said but that it receives.
LEMMA BusMoves ==
  ASSUME MixedInv, mpc # "idle", OnlyWritesBefore, bus # "idle"
  PROVE  /\ mpc = "wait" /\ (Msg.flag = 0 \/ Msg.flag = 1)
         /\ Msg.flag = 0 => Waiting /\ Sent(Len(delivered)) /\ mode = "tx"
         /\ Msg.flag = 1 => mode = "rx" /\ Sent(mi - 1)
<1>1. mpc = "wait"
  BY DEF MixedInv, AfterWrites, CallTyped
<1>2. QED
  BY <1>1, AtMessage DEF MixedInv, AfterWrites, Waiting

InStep == Waiting /\ Sent(Len(delivered))
Writing == mpc = "wait" /\ OnlyWritesBefore /\ Msg.flag = 0 /\ mode = "tx" /\ InStep

\* To keep the invariant, a step of the controller or of the handler need only
\* look after a message that is a write, or leave delivered alone.
LEMMA MixedStep ==
  ASSUME MixedInv, UNCHANGED callVars, bus # "idle",
         bus' \in {"idle", "shift", "held"}, phase' \in {"address", "data"}, mode' = mode,
         mode = "rx" => delivered' = delivered,
         Writing => InStep'
  PROVE  MixedInv'
<1>1. CallTyped'
  BY DEF MixedInv, CallTyped, callVars
<1>2. SUFFICES ASSUME mpc # "idle", OnlyWritesBefore PROVE AfterWrites'
  BY <1>1 DEF MixedInv, AfterWrites, OnlyWritesBefore, callVars
<1>3. /\ mpc = "wait" /\ mpc' = "wait" /\ (Msg.flag = 0 \/ Msg.flag = 1) /\ Msg' = Msg
      /\ mi' = mi /\ msgs' = msgs
  BY <1>2, BusMoves DEF callVars, Msg
<1>4. CASE Msg.flag = 0
  <2>1. Waiting' /\ Sent(Len(delivered))'
    BY <1>2, <1>3, <1>4, BusMoves DEF Writing, InStep
  <2>2. QED
    BY <1>3, <1>4, <2>1 DEF AfterWrites
<1>5. CASE Msg.flag = 1
  <2>1. mode' = "rx" /\ delivered' = delivered /\ Sent(mi - 1)
    BY <1>2, <1>5, BusMoves
  <2>2. Sent(mi - 1)'
    BY <1>3, <2>1 DEF Sent
  <2>3. QED
    BY <1>3, <1>5, <2>1, <2>2 DEF AfterWrites
<1>6. QED
  BY <1>3, <1>4, <1>5

LEMMA MixedController ==
  ASSUME MixedInv, Controller PROVE MixedInv'
<1>1. Writing => Msg.buf \in Seq(Data) /\ Msg.len = Len(Msg.buf) /\ Msg.len \in Nat
  BY AtMessage DEF MixedInv, Writing
<1>2. CASE AddressDone
  <2>1. /\ UNCHANGED <<callVars, msgVars, mode, iicds, wire, delivered>>
        /\ bus = "shift" /\ phase = "address" /\ bus' = "held" /\ phase' = "data"
    BY <1>2 DEF AddressDone
  <2>2. ASSUME Writing PROVE InStep'
    <3>1. SubSeq(Msg.buf, 1, 0) = <<>>
      BY <1>1, <2>2, WholePrefix
    <3>2. Waiting'
      BY <1>1, <2>1, <2>2, <3>1 DEF Writing, InStep, Waiting, Msg, callVars, msgVars
    <3>3. QED
      BY <2>1, <2>2, <3>2 DEF Writing, InStep, Sent, callVars
  <2>3. QED
    BY <2>1, <2>2, MixedStep
<1>3. CASE ByteOut
  <2>1. /\ UNCHANGED <<callVars, msgVars, mode, phase, iicds, delivered>>
        /\ bus = "shift" /\ phase = "data" /\ bus' = "held" /\ wire' = Append(wire, iicds)
    BY <1>3 DEF ByteOut
  <2>2. ASSUME Writing PROVE InStep'
    <3>1. cnt \in 0..(Msg.len - 1) /\ iicds = Msg.buf[cnt + 1] /\ wire = SubSeq(Msg.buf, 1, cnt)
      BY <2>1, <2>2 DEF Writing, InStep, Waiting
    <3>2. wire' = SubSeq(Msg.buf, 1, cnt + 1)
      BY <1>1, <2>1, <2>2, <3>1, PrefixStep
    <3>3. Waiting'
      BY <1>1, <2>1, <2>2, <3>1, <3>2 DEF Writing, InStep, Waiting, Msg, callVars, msgVars
    <3>4. QED
      BY <2>1, <2>2, <3>3 DEF Writing, InStep, Sent, callVars
  <2>3. phase \in {"address", "data"}
    BY DEF MixedInv, CallTyped
  <2>4. QED
    BY <2>1, <2>2, <2>3, MixedStep
<1>4. CASE ByteIn
  <2>1. /\ UNCHANGED <<callVars, msgVars, mode, phase, acked, delivered>>
        /\ bus = "shift" /\ bus' = "held" /\ mode = "rx"
    BY <1>4 DEF ByteIn
  <2>2. phase \in {"address", "data"} /\ ~Writing
    BY <2>1 DEF MixedInv, CallTyped, Writing
  <2>3. QED
    BY <2>1, <2>2, MixedStep
<1>5. QED
  BY <1>2, <1>3, <1>4 DEF Controller

LEMMA MixedIsr ==
  ASSUME MixedInv, Isr PROVE MixedInv'
<1>1. Writing => Msg.buf \in Seq(Data) /\ Msg.len = Len(Msg.buf) /\ Msg.len \in Nat
                 /\ mi - 1 \in Nat /\ mi \in Nat
  BY AtMessage DEF MixedInv, Writing
<1>2. phase \in {"address", "data"} /\ bus = "held" /\ cnt' = cnt + 1 /\ UNCHANGED <<callVars, mode, phase>>
  BY DEF MixedInv, CallTyped, Isr, IsrNoAck, IsrTxNext, IsrTxStop, IsrRxFirst, IsrRxLater, Interrupt
<1>3. Writing => cnt \in -1..(Msg.len - 1) /\ wire = SubSeq(Msg.buf, 1, cnt + 1) /\ err = 0
                 /\ phase = "data" /\ Len(delivered) = mi - 1
  BY <1>2 DEF Waiting, Writing, InStep
<1>4. CASE IsrNoAck
  <2>1. bus' = "idle" /\ err' = -1 /\ delivered' = delivered
    BY <1>4 DEF IsrNoAck, Stop
  <2>2. Writing => InStep'
    BY <1>2, <1>3, <2>1 DEF Writing, InStep, Waiting, Sent, callVars
  <2>3. QED
    BY <1>2, <2>1, <2>2, MixedStep
<1>5. CASE IsrTxNext
  <2>1. bus' = "shift" /\ iicds' = Msg.buf[cnt' + 1] /\ cnt' < Msg.len
        /\ UNCHANGED <<err, wire, delivered>>
    BY <1>5 DEF IsrTxNext, Resume
  <2>2. ASSUME Writing PROVE InStep'
    <3>1. cnt' \in 0..(Msg.len - 1) /\ wire = SubSeq(Msg.buf, 1, cnt')
      BY <1>1, <1>2, <1>3, <2>1, <2>2
    <3>2. Waiting'
      BY <1>2, <1>3, <2>1, <2>2, <3>1 DEF Writing, InStep, Waiting, Msg, callVars
    <3>3. QED
      BY <1>2, <2>1, <2>2, <3>2 DEF Writing, InStep, Sent, callVars
  <2>3. QED
    BY <1>2, <2>1, <2>2, MixedStep
<1>6. CASE IsrTxStop
  <2>1. bus' = "idle" /\ delivered' = Append(delivered, wire) /\ cnt' >= Msg.len /\ mode = "tx"
        /\ UNCHANGED <<err, wire>>
    BY <1>6 DEF IsrTxStop, Stop, Interrupt
  <2>2. ASSUME Writing PROVE InStep'
    <3>1. cnt + 1 = Msg.len
      BY <1>1, <1>2, <1>3, <2>1, <2>2
    <3>2. wire = msgs[mi].buf /\ wire \in Seq(Data)
      BY <1>1, <1>3, <2>2, <3>1, WholePrefix DEF Msg
    <3>3. /\ delivered' \in Seq(Seq(Data)) /\ Len(delivered') = mi
          /\ delivered'[mi] = wire
          /\ \A i \in 1..(mi - 1) : delivered'[i] = delivered[i]
      <4>1. delivered \in Seq(Seq(Data)) /\ Len(delivered) = mi - 1 /\ mi \in Nat
        BY <1>1, <1>3, <2>2 DEF Writing, InStep, Waiting, Sent
      <4>2. delivered' = Append(delivered, wire) /\ wire \in Seq(Data)
        BY <2>1, <3>2
      <4>3. /\ delivered' \in Seq(Seq(Data)) /\ Len(delivered') = Len(delivered) + 1
            /\ \A i \in 1..Len(delivered) : delivered'[i] = delivered[i]
            /\ delivered'[Len(delivered) + 1] = wire
        BY <4>1, <4>2, AppendProperties
      <4>4. (mi - 1) + 1 = mi
        BY <4>1
      <4>5. QED
        BY <4>1, <4>3, <4>4
    <3>4. \A i \in 1..(mi - 1) : delivered[i] = msgs[i].buf
      BY <1>3, <2>2 DEF Writing, InStep, Sent
    <3>5. ASSUME NEW i \in 1..mi PROVE delivered'[i] = msgs[i].buf
      <4>1. CASE i = mi
        BY <3>2, <3>3, <4>1
      <4>2. CASE i # mi
        <5>1. i \in 1..(mi - 1)
          BY <1>1, <2>2, <4>2
        <5>2. QED
          BY <3>3, <3>4, <5>1
      <4>3. QED
        BY <4>1, <4>2
    <3>6. Sent(Len(delivered))'
      BY <1>2, <3>3, <3>5 DEF Writing, InStep, Sent, callVars
    <3>7. Waiting'
      BY <1>1, <1>2, <1>3, <2>1, <2>2, <3>1, <3>3 DEF Writing, InStep, Waiting, Msg, callVars
    <3>8. QED
      BY <3>6, <3>7 DEF InStep
  <2>3. QED
    BY <1>2, <2>1, <2>2, MixedStep
<1>7. CASE IsrRxFirst \/ IsrRxLater
  <2>1. mode = "rx" /\ delivered' = delivered /\ bus' \in {"idle", "shift"}
    BY <1>7 DEF IsrRxFirst, IsrRxLater, Interrupt, Stop, Resume
  <2>2. ~Writing
    BY <2>1 DEF Writing
  <2>3. QED
    BY <1>2, <2>1, <2>2, MixedStep
<1>8. QED
  BY <1>4, <1>5, <1>6, <1>7 DEF Isr

THEOREM MixedInductive == Spec => []MixedInv
<1>1. Init => MixedInv
  BY DEF Init, MixedInv, CallTyped, AfterWrites
<1>2. MixedInv /\ UNCHANGED vars => MixedInv'
  BY DEF vars, callVars, msgVars, busVars, MixedInv, CallTyped, AfterWrites, OnlyWritesBefore,
     Sent, Waiting, Msg
<1>3. MixedInv /\ [Next]_vars => MixedInv'
  BY <1>2, MixedCaller, MixedController, MixedIsr DEF Next
<1>4. QED
  BY <1>1, <1>3, PTL DEF Spec

\* master_xfer goes on to a message only when all before it were delivered: of
\* any call, of writes and reads, a message that follows writes only, the read
\* after its cell address among them, is begun when those have gone out whole,
\* each to its STOP, whatever an earlier call has left on the bus.
THEOREM InOrder == Spec => []EarlierMessagesDelivered
<1>1. MixedInv => EarlierMessagesDelivered
  <2> SUFFICES ASSUME MixedInv, mpc # "idle", OnlyWritesBefore
               PROVE  /\ Len(delivered) >= mi - 1
                      /\ \A i \in 1..(mi - 1) : delivered[i] = msgs[i].buf
    BY DEF EarlierMessagesDelivered, OnlyWritesBefore
  <2>1. mi \in Nat /\ mi - 1 \in Nat /\ Msg.flag \in {0, 1}
        /\ mpc \in {"setup", "start", "wait"}
    BY AtMessage DEF MixedInv, CallTyped
  <2>2. CASE Sent(mi - 1)
    BY <2>1, <2>2 DEF Sent
  <2>3. CASE mpc = "wait" /\ Msg.flag = 0
    <3>1. Waiting /\ Sent(Len(delivered)) /\ bus \in {"idle", "shift", "held"}
      BY <2>3 DEF MixedInv, AfterWrites, CallTyped
    <3>2. Len(delivered) \in {mi - 1, mi}
      BY <3>1 DEF Waiting
    <3>3. QED
      BY <2>1, <3>1, <3>2 DEF Sent
  <2>4. QED
    BY <2>1, <2>2, <2>3 DEF MixedInv, AfterWrites
<1>2. QED
  BY <1>1, MixedInductive, PTL

\* No read stores what the slave sent: whatever is called, buf[0], buf[1], ...
\* of a read stay as they were, and only the byte before the buffer is written.
\* (The run i2c_read_data shows one such read that returns 0.)
THEOREM ReadsSaveNothing ==
  Spec => [](\A i \in DOMAIN rxbuf : i # -1 => rxbuf[i] = NoByte)
<1> DEFINE Empty == \A i \in DOMAIN rxbuf : i # -1 => rxbuf[i] = NoByte
<1>1. Init => Empty
  BY DEF Init
<1>2. ASSUME Empty, [Next]_vars PROVE Empty'
  <2>1. CASE SetUp
    BY <2>1 DEF SetUp
  <2>2. CASE IsrRxFirst
    <3>1. CASE UNCHANGED rxbuf
      BY <1>2, <3>1
    <3>2. CASE rxbuf' = [rxbuf EXCEPT ![cnt' - 1] = iicds]
      <4>1. cnt' = 0
        BY <2>2 DEF IsrRxFirst, Interrupt, First
      <4>2. QED
        BY <1>2, <3>2, <4>1
    <3>3. QED
      BY <2>2, <3>1, <3>2 DEF IsrRxFirst
  <2>3. CASE UNCHANGED rxbuf
    BY <1>2, <2>3
  <2>4. QED
    BY <1>2, <2>1, <2>2, <2>3
       DEF Next, Caller, Controller, Isr, Call, Start, PollEnd, AddressDone, ByteOut, ByteIn,
           IsrNoAck, IsrTxNext, IsrTxStop, IsrRxLater, vars, msgVars
<1>3. QED
  BY <1>1, <1>2, PTL DEF Spec

\* The bytes of a call, message by message.
LEMMA BufsFacts ==
  ASSUME NEW c, Len(c) \in Nat
  PROVE  /\ Len(Bufs(c)) = Len(c)
         /\ \A i \in 1..Len(c) : Bufs(c)[i] = c[i].buf
<1>1. Bufs(c) = [i \in 1..Len(c) |-> c[i].buf]
  BY DEF Bufs
<1>2. \A i \in 1..Len(c) : Bufs(c)[i] = c[i].buf
  BY <1>1
<1>3. Len(Bufs(c)) = Len(c)
  BY <1>1
<1>4. QED
  BY <1>2, <1>3

\* The driver, its interrupt handler and the bus implement what I2cXfer promises
\* a caller of i2c_transfer: START to STOP is one delivery, a NACK of the address
\* is the refusal, and every other step is invisible.
THEOREM ImplementsXfer == ASSUME AllWrites PROVE Spec => Promise!XferSafety
<1> USE AllWrites
<1>1. Init => Promise!XferInit
  <2>1. Bufs(<<>>) = <<>>
    BY DEF Bufs
  <2>2. QED
    BY <2>1 DEF Init, Promise!XferInit
<1>2. TypeOK /\ WriteInv /\ [Next]_vars => [Promise!XferNext]_(Promise!xferVars)
  <2> SUFFICES ASSUME TypeOK, WriteInv, [Next]_vars
               PROVE  Promise!XferNext \/ UNCHANGED Promise!xferVars
    OBVIOUS
  <2>1. ASSUME NEW c \in Calls, Call(c) PROVE Promise!Begin(Bufs(c))
    BY <2>1 DEF Call, Promise!Begin, Bufs
  <2>2. CASE SetUp \/ Start
    BY <2>2 DEF SetUp, Start, WriteInv, Promise!xferVars, msgVars, Bufs
  <2>3. CASE PollEnd
    <3>1. bus = "idle" /\ mi \in 1..Len(msgs) /\ Len(Bufs(msgs)) = Len(msgs)
      <4>1. Len(msgs) \in Nat
        BY <2>3, CurrentMessage, I2cAssumption DEF PollEnd
      <4>2. QED
        BY <2>3, <4>1, CurrentMessage, BufsFacts DEF PollEnd, WriteInv, Waiting, TypeOK
    <3>2. ASSUME err # 0 \/ mi = Len(msgs) PROVE Promise!Return
      <4>1. /\ mpc = "wait" /\ mpc' = "idle" /\ UNCHANGED <<msgs, err, delivered>>
            /\ ret' = IF err # 0 THEN -1 ELSE 0
        BY <2>3, <3>2 DEF PollEnd, msgVars
      <4>2. err = 0 => Len(delivered) = Len(Bufs(msgs))
        BY <3>1, <3>2, <4>1 DEF WriteInv, Waiting
      <4>3. Bufs(msgs') = Bufs(msgs)
        BY <4>1
      <4>4. QED
        BY <4>1, <4>2, <4>3 DEF Promise!Return
    <3>3. CASE err = 0 /\ mi # Len(msgs)
      BY <2>3, <3>3 DEF PollEnd, Promise!xferVars, msgVars, Bufs
    <3>4. QED
      BY <3>2, <3>3 DEF Promise!XferNext
  <2>4. CASE AddressDone \/ ByteOut \/ ByteIn
    BY <2>4 DEF AddressDone, ByteOut, ByteIn, Promise!xferVars, callVars, msgVars, Bufs
  <2>5. ASSUME IsrNoAck \/ IsrTxNext \/ IsrTxStop
        PROVE  /\ mpc = "wait" /\ err = 0 /\ Len(delivered) = mi - 1
               /\ mi \in 1..Len(msgs) /\ Len(Bufs(msgs)) = Len(msgs)
               /\ Bufs(msgs)[mi] = Msg.buf /\ Bufs(msgs') = Bufs(msgs)
    <3>1. bus = "held" /\ mpc = "wait" /\ msgs' = msgs
      BY <2>5 DEF IsrNoAck, IsrTxNext, IsrTxStop, Interrupt, WriteInv, BusFreeUnlessWaiting,
         callVars
    <3>2. msgs \in Calls /\ Len(msgs) \in Nat /\ mi \in 1..Len(msgs)
      BY <3>1, CurrentMessage, I2cAssumption
    <3>3. QED
      BY <3>1, <3>2, BufsFacts DEF WriteInv, Waiting, Msg, Bufs
  <2>6. CASE IsrNoAck
    <3>1. Promise!Refuse
      BY <2>5, <2>6 DEF IsrNoAck, Promise!Refuse, callVars
    <3>2. QED
      BY <3>1 DEF Promise!XferNext
  <2>7. CASE IsrTxNext
    BY <2>5, <2>7 DEF IsrTxNext, Promise!xferVars, callVars
  <2>8. CASE IsrTxStop
    <3>1. mpc = "wait" /\ cnt + 1 = Msg.len /\ wire = SubSeq(Msg.buf, 1, Msg.len)
      BY <2>5, <2>8, CurrentMessage DEF IsrTxStop, Interrupt, WriteInv, Waiting, TypeOK
    <3>2. wire = Msg.buf
      BY <3>1, CurrentMessage, WholePrefix
    <3>3. Promise!Deliver
      BY <2>5, <2>8, <3>2 DEF IsrTxStop, Promise!Deliver, callVars
    <3>4. QED
      BY <3>3 DEF Promise!XferNext
  <2>9. CASE IsrRxFirst \/ IsrRxLater
    BY <2>9 DEF IsrRxFirst, IsrRxLater, Interrupt, WriteInv, BusFreeUnlessWaiting, Waiting
  <2>10. CASE UNCHANGED vars
    BY <2>10 DEF vars, callVars, msgVars, busVars, Promise!xferVars, Bufs
  <2>11. QED
    BY <2>1, <2>2, <2>3, <2>4, <2>6, <2>7, <2>8, <2>9, <2>10
       DEF Next, Caller, Controller, Isr, Promise!XferNext
<1>3. QED
  BY <1>1, <1>2, WriteTypes, PTL DEF Spec, Promise!XferSafety
=============================================================================
