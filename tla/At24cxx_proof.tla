--------------------------- MODULE At24cxx_proof ---------------------------
(* Proofs about the EEPROM driver over the master driver, for chips and       *)
(* lengths of any size.  A read may leave the bus running; no write begins    *)
(* before it has stopped.                                                     *)
EXTENDS At24cxx, I2cMaster_proof

At24TypeOK ==
  /\ op \in {"none", "write", "read"} /\ addr \in Nat /\ len \in Int /\ k \in Nat
  /\ data \in Buffers
  /\ op = "write" => len \in 1..MaxLen
  /\ op = "read" => len \in ReadLens
  /\ cells \in [CellAddresses -> Values] /\ pointer \in CellAddresses
  /\ cnt \in Int /\ cnt >= -1
  /\ mpc \in {"idle", "setup", "start", "wait"} /\ mode \in {"tx", "rx"}
  /\ bus \in {"idle", "shift", "held"} /\ phase \in {"address", "data"}

\* The call that i2c_transfer is in, or whose result has not been taken.
Transfer ==
  \/ /\ op = "write" /\ k < len
     /\ mi = 1 /\ msgs = WriteMessage(Target(k), SentByte)
  \/ /\ op = "read" /\ mi \in {1, 2}
     /\ msgs = ReadMessages(Target(0), len)

CallInv ==
  /\ pending => Transfer
  /\ mpc # "idle" => pending
  /\ mpc = "start" => cnt = -1 /\ err = 0
  /\ mpc \in {"setup", "start"} => bus = "idle"

\* The byte count and what the slave has seen of the message being sent.
Sending ==
  /\ bus = "shift" /\ phase = "address" => cnt = -1 /\ wire = <<>>
  /\ bus = "shift" /\ phase = "data" =>
       /\ cnt \in 0..(Msg.len - 1)
       /\ iicds = Msg.buf[cnt + 1] /\ wire = SubSeq(Msg.buf, 1, cnt)
  /\ bus = "held" =>
       /\ phase = "data" /\ cnt \in -1..(Msg.len - 1)
       /\ wire = SubSeq(Msg.buf, 1, cnt + 1)

BusInv ==
  /\ bus # "idle" /\ mode = "tx" => mpc = "wait" /\ Msg.flag = 0 /\ Sending
  /\ bus # "idle" /\ mode = "rx" => op # "write" /\ (mpc = "wait" => Msg.flag = 1)
  /\ mpc = "wait" /\ err # 0 => bus = "idle"

\* The byte of this turn of at24cxx_write's loop is in its cell: the STOP is out
\* and the master has not seen it yet, or has returned without an error.
Arrived ==
  /\ pending
  /\ \/ mpc = "wait" /\ bus = "idle" /\ err = 0
     \/ mpc = "idle" /\ ret = 0
Reached == IF op = "write" /\ Arrived THEN k + 1 ELSE k

CellInv == cells = Written(Reached)

\* Where the chip's address counter is before and during a read.
PointerInv ==
  /\ op = "read" /\ pending /\ mi = 1 /\ mpc = "wait" /\ bus = "idle" /\ err = 0 =>
       pointer = Target(0)
  /\ op = "read" /\ pending /\ mi = 2 /\ mpc \in {"setup", "start"} => pointer = Target(0)
  /\ mode = "rx" /\ bus # "idle" => pointer = Target(Len(wire))

\* The bytes the chip has sent, and that it has sent none before its address was
\* acknowledged.
ReceivedInv ==
  mode = "rx" =>
    /\ wire \in Seq(Data) /\ ReadSeesItsCells
    /\ bus = "idle" \/ cnt = -1 \/ phase = "address" => wire = <<>>
    /\ bus = "shift" /\ phase = "data" => cnt >= 0

AInv == At24TypeOK /\ CallInv /\ BusInv /\ CellInv /\ PointerInv /\ ReceivedInv
-----------------------------------------------------------------------------
LEMMA TargetRange ==
  ASSUME addr \in Nat
  PROVE  \A j \in Nat : Target(j) \in CellAddresses
<1>1. Cells \in Nat \ {0}
  BY At24Assumption
<1>2. \A x \in Nat : x % Cells \in 0..(Cells - 1)
  BY <1>1
<1>3. QED
  BY <1>2 DEF Target, CellAddresses

\* The cell after the cell of address a is that of a + 1.
LEMMA NextCell ==
  ASSUME NEW c \in Nat \ {0}, NEW a \in Nat
  PROVE  ((a % c) + 1) % c = (a + 1) % c
<1> DEFINE m == a % c
           d == a \div c
           r == (a + 1) % c
           e == (a + 1) \div c
<1>1. m \in 0..(c - 1) /\ d \in Nat /\ a = d * c + m
  OBVIOUS
<1>2. r \in 0..(c - 1) /\ e \in Nat /\ a + 1 = e * c + r
  OBVIOUS
<1>3. CASE m + 1 < c
  <2>1. (m + 1) % c = m + 1
    BY <1>1, <1>3
  <2>2. (e - d) * c = m + 1 - r
    BY <1>1, <1>2
  <2>3. e = d
    BY <1>1, <1>2, <1>3, <2>2
  <2>4. QED
    BY <1>1, <1>2, <2>1, <2>3
<1>4. CASE m + 1 = c
  <2>1. (m + 1) % c = 0
    BY <1>1, <1>4
  <2>2. a + 1 = (d + 1) * c
    <3>1. (d + 1) * c = d * c + c
      BY <1>1
    <3>2. QED
      BY <1>1, <1>4, <3>1
  <2>3. (e - (d + 1)) * c = 0 - r
    BY <1>1, <1>2, <2>2
  <2>4. e - (d + 1) = 0
    BY <1>1, <1>2, <2>3
  <2>5. r = 0
    BY <1>1, <1>2, <2>3, <2>4
  <2>6. QED
    BY <2>1, <2>5
<1>5. QED
  BY <1>1, <1>3, <1>4

LEMMA NextTarget ==
  ASSUME addr \in Nat, NEW j \in Nat
  PROVE  (Target(j) + 1) % Cells = Target(j + 1)
<1>1. Cells \in Nat \ {0} /\ addr + j \in Nat /\ (addr + j) + 1 = addr + (j + 1)
  BY At24Assumption
<1>2. QED
  BY <1>1, NextCell DEF Target

\* One more byte of a write.
LEMMA WrittenStep ==
  ASSUME addr \in Nat, NEW n \in Nat
  PROVE  Written(n + 1) = [Written(n) EXCEPT ![Target(n)] = SentByte]
<1>1. Target(n) \in CellAddresses
  BY TargetRange
<1>2. \A j : j \in 0..((n + 1) - 1) <=> j \in 0..(n - 1) \/ j = n
  OBVIOUS
<1>3. ASSUME NEW c \in CellAddresses
      PROVE  (\E j \in 0..((n + 1) - 1) : c = Target(j))
               <=> (\E j \in 0..(n - 1) : c = Target(j)) \/ c = Target(n)
  BY <1>2
<1>4. QED
  BY <1>1, <1>3 DEF Written

\* The message in hand: a byte with its address, the address of a read, or the
\* read itself.
LEMMA MessageCases ==
  ASSUME At24TypeOK, CallInv, pending
  PROVE  /\ Len(msgs) = (IF op = "write" THEN 1 ELSE 2)
         /\ \/ /\ op = "write" /\ k < len /\ mi = 1 /\ Msg.flag = 0 /\ Msg.len = 2
               /\ Msg.buf = <<Target(k), SentByte>> /\ Len(Msg.buf) = 2
            \/ /\ op = "read" /\ mi = 1 /\ Msg.flag = 0 /\ Msg.len = 1
               /\ Msg.buf = <<Target(0)>> /\ Len(Msg.buf) = 1
            \/ /\ op = "read" /\ mi = 2 /\ Msg.flag = 1 /\ Msg.len = len
         /\ op \in {"write", "read"}
         /\ Msg.flag = 0 => Msg.len = Len(Msg.buf) /\ Msg.len \in Nat
<1>1. len \in Int /\ Transfer
  BY DEF At24TypeOK, CallInv
<1>2. CASE op = "write"
  <2>1. mi = 1 /\ k < len /\ msgs = WriteMessage(Target(k), SentByte)
    BY <1>1, <1>2 DEF Transfer
  <2>2. Msg = [flag |-> 0, len |-> 2, buf |-> <<Target(k), SentByte>>] /\ Len(msgs) = 1
    BY <2>1 DEF Msg, WriteMessage
  <2>3. QED
    BY <1>2, <2>1, <2>2
<1>3. CASE op # "write"
  <2>1. op = "read" /\ mi \in {1, 2} /\ msgs = ReadMessages(Target(0), len)
    BY <1>1, <1>3 DEF Transfer
  <2>2. Len(msgs) = 2
    BY <2>1 DEF ReadMessages
  <2>3. CASE mi = 1
    <3>1. Msg = [flag |-> 0, len |-> 1, buf |-> <<Target(0)>>]
      BY <2>1, <2>3 DEF Msg, ReadMessages
    <3>2. QED
      BY <2>1, <2>2, <2>3, <3>1
  <2>4. CASE mi = 2
    <3>1. Msg = [flag |-> 1, len |-> len, buf |-> <<>>]
      BY <2>1, <2>4 DEF Msg, ReadMessages
    <3>2. QED
      BY <1>1, <2>1, <2>2, <2>4, <3>1
  <2>5. QED
    BY <2>1, <2>3, <2>4
<1>4. QED
  BY <1>2, <1>3

\* The byte that at24cxx_write sends is a value of a cell.
LEMMA SentByteFacts ==
  ASSUME At24TypeOK PROVE SentByte \in Values /\ Values \subseteq Data /\ CellAddresses \subseteq Data
BY At24Assumption DEF At24TypeOK, Buffers, SentByte, CellAddresses

\* While bytes go out, the sequence of the message is known.
LEMMA SendingFacts ==
  ASSUME AInv, bus # "idle", mode = "tx"
  PROVE  /\ mpc = "wait" /\ pending /\ err = 0 /\ Sending /\ Msg.flag = 0
         /\ Msg.len \in Nat /\ Msg.len = Len(Msg.buf) /\ Msg.buf \in Seq(Data)
         /\ op = "write" => k < len /\ Msg.len = 2 /\ Msg.buf = <<Target(k), SentByte>>
         /\ op # "write" => op = "read" /\ mi = 1 /\ Msg.len = 1 /\ Msg.buf = <<Target(0)>>
<1>1. mpc = "wait" /\ pending /\ err = 0 /\ Sending /\ Msg.flag = 0
  BY DEF AInv, BusInv, CallInv
<1>2. At24TypeOK /\ CallInv /\ addr \in Nat /\ k \in Nat
  BY DEF AInv, At24TypeOK
<1>3. \/ /\ op = "write" /\ k < len /\ Msg.len = 2
         /\ Msg.buf = <<Target(k), SentByte>> /\ Len(Msg.buf) = 2
      \/ /\ op = "read" /\ mi = 1 /\ Msg.len = 1
         /\ Msg.buf = <<Target(0)>> /\ Len(Msg.buf) = 1
  BY <1>1, <1>2, MessageCases
<1>4. SentByte \in Data /\ Target(k) \in Data /\ Target(0) \in Data
  BY <1>2, SentByteFacts, TargetRange
<1>5. Msg.buf \in Seq(Data)
  <2>1. \A x, y \in Data : <<x, y>> \in Seq(Data) /\ <<x>> \in Seq(Data)
    OBVIOUS
  <2>2. QED
    BY <1>3, <1>4, <2>1
<1>6. Msg.len \in Nat /\ Msg.len = Len(Msg.buf)
  BY <1>1, <1>2, MessageCases
<1>7. op = "write" => k < len /\ Msg.len = 2 /\ Msg.buf = <<Target(k), SentByte>>
  BY <1>3
<1>8. op # "write" => op = "read" /\ mi = 1 /\ Msg.len = 1 /\ Msg.buf = <<Target(0)>>
  BY <1>3
<1>9. QED
  BY <1>1, <1>5, <1>6, <1>7, <1>8
-----------------------------------------------------------------------------
(* The steps of the EEPROM driver *)

LEMMA At24InitInv == At24Init => AInv
<1> SUFFICES ASSUME At24Init PROVE AInv
  OBVIOUS
<1>1. At24TypeOK
  BY DEF At24Init, Init, At24TypeOK
<1>2. mpc = "idle" /\ bus = "idle" /\ mode = "tx" /\ pending = FALSE /\ op = "none" /\ k = 0
  BY DEF At24Init, Init
<1>3. CallInv /\ BusInv /\ PointerInv /\ ReceivedInv
  BY <1>2 DEF CallInv, BusInv, PointerInv, ReceivedInv
<1>4. CellInv
  <2>1. cells \in [CellAddresses -> Values] /\ before = cells
    BY DEF At24Init
  <2>2. Reached = 0 /\ 0..(0 - 1) = {}
    BY <1>2 DEF Reached
  <2>3. QED
    BY <2>1, <2>2 DEF CellInv, Written
<1>5. QED
  BY <1>1, <1>3, <1>4 DEF AInv

LEMMA BeginInv ==
  ASSUME AInv, NEW o \in {"write", "read"}, NEW ad \in 0..Cells, NEW d \in Buffers,
         NEW n \in Int, o = "write" => n \in 1..MaxLen, o = "read" => n \in ReadLens,
         Begin(o, ad, d, n)
  PROVE  AInv'
<1>1. ad \in Nat
  BY At24Assumption
<1>2. UNCHANGED vars /\ UNCHANGED <<cells, busy, pointer, result>> /\ bus = "idle" /\ op = "none"
      /\ op' = o /\ addr' = ad /\ data' = d /\ len' = n /\ k' = 0 /\ pending' = FALSE
      /\ before' = cells
  BY DEF Begin, chipVars
<1>3. At24TypeOK'
  BY <1>1, <1>2 DEF AInv, At24TypeOK, vars, callVars, msgVars, busVars
<1>4. mpc = "idle"
  <2>1. ~pending
    BY <1>2 DEF AInv, CallInv, Transfer
  <2>2. QED
    BY <2>1 DEF AInv, CallInv
<1>5. CallInv' /\ BusInv' /\ PointerInv'
  BY <1>2, <1>4 DEF CallInv, BusInv, PointerInv, vars, callVars, msgVars, busVars
<1>6. ReceivedInv'
  <2>1. /\ mode' = mode /\ bus' = "idle" /\ wire' = wire
        /\ mode = "rx" => wire = <<>> /\ wire \in Seq(Data)
    BY <1>2 DEF AInv, ReceivedInv, vars, busVars
  <2>2. QED
    BY <2>1 DEF ReceivedInv, ReadSeesItsCells
<1>7. CellInv'
  <2>1. Reached' = 0 /\ 0..(0 - 1) = {}
    BY <1>2 DEF Reached, Arrived
  <2>2. cells \in [CellAddresses -> Values] /\ before' = cells /\ cells' = cells
    BY <1>2 DEF AInv, At24TypeOK
  <2>3. QED
    BY <2>1, <2>2 DEF CellInv, Written
<1>8. QED
  BY <1>3, <1>5, <1>6, <1>7 DEF AInv

\* i2c_transfer: the call begins.
LEMMA TransferInv == ASSUME AInv, WriteByte \/ ReadStart PROVE AInv'
<1>1. /\ mpc = "idle" /\ bus = "idle" /\ mpc' = "setup" /\ mi' = 1 /\ pending = FALSE
      /\ pending' = TRUE
      /\ UNCHANGED <<ret, cnt, err, rxbuf, bus, mode, phase, iicds, acked, wire>>
      /\ UNCHANGED <<op, addr, data, len, k, result, before, cells, busy, pointer>>
  BY DEF WriteByte, ReadStart, Call, chipVars, msgVars, busVars
<1>2. At24TypeOK'
  BY <1>1 DEF AInv, At24TypeOK
<1>3. CallInv'
  <2>1. Transfer'
    BY <1>1 DEF WriteByte, ReadStart, Call, Transfer, Target, SentByte
  <2>2. QED
    BY <1>1, <2>1 DEF CallInv
<1>4. BusInv' /\ PointerInv'
  BY <1>1 DEF BusInv, PointerInv
<1>5. ReceivedInv'
  BY <1>1 DEF AInv, ReceivedInv, ReadSeesItsCells, Target
<1>6. CellInv'
  <2>1. Reached' = Reached /\ \A n : Written(n)' = Written(n)
    BY <1>1 DEF Reached, Arrived, Written, Target, SentByte
  <2>2. QED
    BY <1>1, <2>1 DEF AInv, CellInv
<1>7. QED
  BY <1>2, <1>3, <1>4, <1>5, <1>6 DEF AInv

\* The result is taken: the driver goes on, or returns.
LEMMA ResultInv == ASSUME AInv, WriteCheck \/ WriteEnd \/ ReadEnd PROVE AInv'
<1>1. /\ UNCHANGED vars /\ UNCHANGED <<addr, data, len, before, cells, busy, pointer>>
      /\ mpc = "idle" /\ pending' = FALSE
  BY DEF WriteCheck, WriteEnd, ReadEnd, chipVars, AInv, CallInv
<1>2. At24TypeOK'
  BY <1>1 DEF AInv, At24TypeOK, WriteCheck, WriteEnd, ReadEnd, vars, callVars, msgVars, busVars
<1>3. CallInv' /\ PointerInv' /\ ReceivedInv'
  BY <1>1 DEF AInv, CallInv, PointerInv, ReceivedInv, ReadSeesItsCells, Target,
     vars, callVars, msgVars, busVars
<1>4. BusInv'
  <2>1. op' # "write" \/ op' = op
    BY DEF WriteCheck, WriteEnd, ReadEnd
  <2>2. bus # "idle" /\ mode = "tx" => mpc = "wait"
    BY DEF AInv, BusInv
  <2>3. QED
    BY <1>1, <2>1, <2>2 DEF AInv, BusInv, vars, callVars, msgVars, busVars
<1>5. CellInv'
  <2>1. Reached' = k' /\ \A n : Written(n)' = Written(n)
    BY <1>1 DEF Reached, Arrived, Written, Target, SentByte
  <2>2. k' = Reached
    BY <1>1 DEF WriteCheck, WriteEnd, ReadEnd, Reached, Arrived
  <2>3. QED
    BY <1>1, <2>1, <2>2 DEF AInv, CellInv
<1>6. QED
  BY <1>2, <1>3, <1>4, <1>5 DEF AInv
-----------------------------------------------------------------------------
(* The steps of the master driver and of the controller *)

\* What these steps leave alone.
Apart == UNCHANGED <<driverVars, chipVars, msgs>>

LEMMA ApartFacts ==
  ASSUME AInv, Apart, UNCHANGED mi
  PROVE  /\ UNCHANGED <<op, addr, data, len, k, pending, result, before, cells, pointer, msgs>>
         /\ Msg' = Msg
         /\ \A j : Target(j)' = Target(j)
         /\ (pending => Transfer)'
         /\ Reached' = Reached => CellInv'
<1>1. UNCHANGED <<op, addr, data, len, k, pending, result, before, cells, pointer, msgs>>
  BY DEF Apart, driverVars, chipVars
<1>2. Msg' = Msg /\ \A j : Target(j)' = Target(j)
  BY <1>1 DEF Msg, Target
<1>3. (pending => Transfer)'
  BY <1>1 DEF AInv, CallInv, Transfer, Target, SentByte
<1>4. \A n : Written(n)' = Written(n)
  BY <1>1 DEF Written, Target, SentByte
<1>5. QED
  BY <1>1, <1>2, <1>3, <1>4 DEF AInv, CellInv

LEMMA SetUpStartInv == ASSUME AInv, Apart, SetUp \/ Start PROVE AInv'
<1>1. UNCHANGED mi
  BY DEF SetUp, Start
<1>2. /\ UNCHANGED <<op, addr, data, len, k, pending, result, before, cells, pointer, msgs>>
      /\ Msg' = Msg /\ \A j : Target(j)' = Target(j)
      /\ (pending => Transfer)'
      /\ Reached' = Reached => CellInv'
  BY <1>1, ApartFacts
<1>3. mpc \in {"setup", "start"} /\ pending /\ bus = "idle"
  BY DEF SetUp, Start, AInv, CallInv
<1>4. At24TypeOK'
  BY <1>2 DEF AInv, At24TypeOK, SetUp, Start, msgVars, busVars
<1>5. CallInv'
  BY <1>2, <1>3 DEF AInv, CallInv, SetUp, Start, busVars
<1>6. CASE SetUp
  <2>1. mpc' = "start" /\ UNCHANGED <<ret, bus, mode, phase, wire>>
    BY <1>6 DEF SetUp, busVars
  <2>2. BusInv' /\ PointerInv'
    BY <1>1, <1>2, <1>3, <2>1 DEF AInv, BusInv, PointerInv
  <2>3. ReceivedInv'
    BY <1>2, <1>3, <2>1 DEF AInv, ReceivedInv, ReadSeesItsCells
  <2>4. CellInv'
    BY <1>2, <1>3, <2>1 DEF Reached, Arrived
  <2>5. QED
    BY <1>4, <1>5, <2>2, <2>3, <2>4 DEF AInv
<1>7. CASE Start
  <2>1. /\ mpc' = "wait" /\ bus' = "shift" /\ phase' = "address" /\ wire' = <<>>
        /\ cnt' = -1 /\ err' = 0 /\ mode' = IF Msg.flag = 0 THEN "tx" ELSE "rx"
    BY <1>7 DEF AInv, CallInv, Start, msgVars
  <2>2. Msg.flag = 0 \/ (Msg.flag = 1 /\ op = "read" /\ mi = 2)
    BY <1>3, MessageCases DEF AInv
  <2>3. mode' = "tx" => Msg.flag = 0
    BY <2>1
  <2>4. mode' = "rx" => Msg.flag = 1 /\ op = "read" /\ mi = 2
    BY <2>1, <2>2
  <2>5. BusInv'
    <3>1. Sending'
      BY <2>1 DEF Sending
    <3>2. QED
      BY <1>2, <2>1, <2>3, <2>4, <3>1 DEF BusInv
  <2>6. PointerInv'
    <3>1. mode' = "rx" => pointer = Target(0)
      BY <1>3, <2>4 DEF AInv, PointerInv
    <3>2. Len(<<>>) = 0
      OBVIOUS
    <3>3. QED
      BY <1>2, <2>1, <3>1, <3>2 DEF PointerInv
  <2>7. ReceivedInv'
    <3>1. <<>> \in Seq(Data) /\ Len(<<>>) = 0
      OBVIOUS
    <3>2. QED
      BY <2>1, <3>1 DEF ReceivedInv, ReadSeesItsCells
  <2>8. CellInv'
    BY <1>2, <1>3, <2>1 DEF Reached, Arrived
  <2>9. QED
    BY <1>4, <1>5, <2>5, <2>6, <2>7, <2>8 DEF AInv
<1>8. QED
  BY <1>6, <1>7

LEMMA PollEndInv == ASSUME AInv, Apart, PollEnd PROVE AInv'
<1>1. /\ mpc = "wait" /\ (err # 0 \/ cnt = Msg.len) /\ pending
      /\ UNCHANGED <<cnt, err, rxbuf, bus, mode, phase, iicds, acked, wire>>
  BY DEF PollEnd, AInv, CallInv, msgVars, busVars
<1>2. UNCHANGED <<op, addr, data, len, k, pending, result, before, cells, pointer, msgs>>
  BY DEF Apart, driverVars, chipVars
<1>3. /\ Len(msgs) = (IF op = "write" THEN 1 ELSE 2)
      /\ \/ op = "write" /\ mi = 1 /\ Msg.flag = 0
         \/ op = "read" /\ mi = 1 /\ Msg.flag = 0
         \/ op = "read" /\ mi = 2 /\ Msg.flag = 1
      /\ Msg.flag = 0 => Msg.len \in Nat
  BY <1>1, MessageCases DEF AInv
<1>4. Msg.flag = 0 => bus = "idle"
  <2> SUFFICES ASSUME Msg.flag = 0, bus # "idle" PROVE FALSE
    OBVIOUS
  <2>1. mode = "tx" /\ Sending /\ err = 0
    BY <1>1 DEF AInv, At24TypeOK, BusInv
  <2>2. cnt = Msg.len
    BY <1>1, <2>1
  <2>3. cnt = -1 \/ cnt \in 0..(Msg.len - 1) \/ cnt \in -1..(Msg.len - 1)
    BY <2>1 DEF Sending, AInv, At24TypeOK
  <2>4. QED
    BY <1>3, <2>2, <2>3
<1>5. ReceivedInv'
  BY <1>1, <1>2 DEF AInv, ReceivedInv, ReadSeesItsCells, Target
<1>6. \A n : Written(n)' = Written(n) /\ Target(n)' = Target(n)
  BY <1>2 DEF Written, Target, SentByte
<1>7. CASE err = 0 /\ mi # Len(msgs)
  <2>1. op = "read" /\ mi = 1 /\ mi' = 2 /\ mpc' = "setup" /\ ret' = ret /\ bus = "idle"
    BY <1>3, <1>4, <1>7 DEF PollEnd
  <2>2. At24TypeOK'
    BY <1>1, <1>2, <2>1 DEF AInv, At24TypeOK
  <2>3. CallInv'
    <3>1. Transfer'
      BY <1>1, <1>2, <2>1 DEF AInv, CallInv, Transfer, Target, SentByte
    <3>2. QED
      BY <1>1, <1>2, <2>1, <3>1 DEF CallInv
  <2>4. BusInv'
    BY <1>1, <2>1 DEF BusInv
  <2>5. PointerInv'
    <3>1. pointer = Target(0)
      BY <1>1, <1>7, <2>1 DEF AInv, PointerInv
    <3>2. QED
      BY <1>1, <1>2, <1>6, <2>1, <3>1 DEF PointerInv
  <2>6. CellInv'
    <3>1. Reached' = Reached
      BY <1>2, <2>1 DEF Reached
    <3>2. QED
      BY <1>2, <1>6, <3>1 DEF AInv, CellInv
  <2>7. QED
    BY <1>5, <2>2, <2>3, <2>4, <2>5, <2>6 DEF AInv
<1>8. CASE err # 0 \/ mi = Len(msgs)
  <2>1. mpc' = "idle" /\ mi' = mi /\ ret' = (IF err # 0 THEN -1 ELSE 0)
    BY <1>8 DEF PollEnd
  <2>2. At24TypeOK'
    BY <1>1, <1>2, <2>1 DEF AInv, At24TypeOK
  <2>3. CallInv'
    BY <1>1, <1>2, <2>1 DEF AInv, CallInv, Transfer, Target, SentByte
  <2>4. BusInv'
    <3>1. bus # "idle" => mode # "tx"
      BY <1>3, <1>4 DEF AInv, BusInv
    <3>2. QED
      BY <1>1, <1>2, <2>1, <3>1 DEF AInv, BusInv
  <2>5. PointerInv'
    BY <1>1, <1>2, <1>6, <2>1 DEF AInv, PointerInv
  <2>6. CellInv'
    <3>1. op = "write" => bus = "idle"
      BY <1>3, <1>4
    <3>2. Reached' = Reached
      BY <1>1, <1>2, <2>1, <3>1 DEF Reached, Arrived
    <3>3. QED
      BY <1>2, <1>6, <3>2 DEF AInv, CellInv
  <2>7. QED
    BY <1>5, <2>2, <2>3, <2>4, <2>5, <2>6 DEF AInv
<1>9. QED
  BY <1>3, <1>7, <1>8

\* A byte of a write, or the address, has been shifted.
LEMMA ByteInv == ASSUME AInv, Apart, AddressDone \/ ByteOut PROVE AInv'
<1>1. /\ bus = "shift" /\ bus' = "held" /\ phase' = "data"
      /\ UNCHANGED <<mi, mpc, ret, cnt, err, rxbuf, mode>>
  BY DEF AddressDone, ByteOut, callVars, msgVars
<1>2. /\ UNCHANGED <<op, addr, data, len, k, pending, result, before, cells, pointer, msgs>>
      /\ Msg' = Msg /\ \A j : Target(j)' = Target(j)
      /\ (pending => Transfer)'
      /\ Reached' = Reached => CellInv'
  BY <1>1, ApartFacts
<1>3. At24TypeOK'
  BY <1>1, <1>2 DEF AInv, At24TypeOK
<1>4. CallInv' /\ CellInv'
  BY <1>1, <1>2 DEF AInv, CallInv, Reached, Arrived
<1>5. BusInv'
  <2>1. ASSUME mode = "tx" PROVE Sending'
    <3>1. /\ mpc = "wait" /\ Sending /\ Msg.len \in Nat /\ Msg.len = Len(Msg.buf)
          /\ Msg.buf \in Seq(Data)
      BY <1>1, <2>1, SendingFacts
    <3>2. CASE AddressDone
      <4>1. cnt = -1 /\ wire = <<>> /\ wire' = wire
        BY <1>1, <3>1, <3>2 DEF AddressDone, Sending
      <4>2. cnt \in -1..(Msg.len - 1) /\ SubSeq(Msg.buf, 1, 0) = <<>> /\ cnt + 1 = 0
        BY <3>1, <4>1, WholePrefix
      <4>3. QED
        BY <1>1, <1>2, <4>1, <4>2 DEF Sending
    <3>3. CASE ByteOut
      <4>1. /\ cnt \in 0..(Msg.len - 1) /\ iicds = Msg.buf[cnt + 1]
            /\ wire = SubSeq(Msg.buf, 1, cnt) /\ wire' = Append(wire, iicds)
        BY <1>1, <3>1, <3>3 DEF ByteOut, Sending
      <4>2. wire' = SubSeq(Msg.buf, 1, cnt + 1) /\ cnt \in -1..(Msg.len - 1)
        BY <3>1, <4>1, PrefixStep
      <4>3. QED
        BY <1>1, <1>2, <4>2 DEF Sending
    <3>4. QED
      BY <3>2, <3>3
  <2>2. QED
    BY <1>1, <1>2, <2>1 DEF AInv, BusInv
<1>6. PointerInv' /\ ReceivedInv'
  <2>1. mode = "rx" => wire' = wire /\ phase = "address"
    BY <1>1 DEF AddressDone, ByteOut
  <2>2. PointerInv'
    BY <1>1, <1>2, <2>1 DEF AInv, PointerInv
  <2>3. ReceivedInv'
    BY <1>1, <1>2, <2>1 DEF AInv, ReceivedInv, ReadSeesItsCells
  <2>4. QED
    BY <2>2, <2>3
<1>7. QED
  BY <1>3, <1>4, <1>5, <1>6 DEF AInv

\* No slave answered: what the transfer was to write stays unwritten.
LEMMA NoAckInv == ASSUME AInv, Apart, IsrNoAck PROVE AInv'
<1>1. /\ bus = "held" /\ bus' = "idle" /\ cnt = -1 /\ cnt' = 0 /\ err' = -1
      /\ UNCHANGED <<mi, mpc, ret, rxbuf, phase, mode, wire>>
  BY DEF IsrNoAck, Interrupt, First, Stop, callVars, AInv, At24TypeOK
<1>2. /\ UNCHANGED <<op, addr, data, len, k, pending, result, before, cells, pointer, msgs>>
      /\ \A j : Target(j)' = Target(j)
      /\ (pending => Transfer)'
      /\ Reached' = Reached => CellInv'
  BY <1>1, ApartFacts
<1>3. mpc \notin {"setup", "start"}
  BY <1>1 DEF AInv, CallInv
<1>4. At24TypeOK'
  BY <1>1, <1>2 DEF AInv, At24TypeOK
<1>5. CallInv' /\ BusInv'
  BY <1>1, <1>2, <1>3 DEF AInv, CallInv, BusInv
<1>6. CellInv'
  BY <1>1, <1>2 DEF Reached, Arrived
<1>7. PointerInv'
  BY <1>1, <1>2, <1>3 DEF PointerInv
<1>8. ReceivedInv'
  BY <1>1, <1>2 DEF AInv, ReceivedInv, ReadSeesItsCells
<1>9. QED
  BY <1>4, <1>5, <1>6, <1>7, <1>8 DEF AInv

LEMMA NextByteInv == ASSUME AInv, Apart, IsrTxNext PROVE AInv'
<1>1. /\ bus = "held" /\ mode = "tx" /\ bus' = "shift" /\ cnt' = cnt + 1 /\ cnt' < Msg.len
      /\ iicds' = Msg.buf[cnt' + 1] /\ UNCHANGED <<mi, mpc, ret, err, rxbuf, mode, phase, wire>>
  BY DEF IsrTxNext, Interrupt, Resume, callVars
<1>2. /\ UNCHANGED <<op, addr, data, len, k, pending, result, before, cells, pointer, msgs>>
      /\ Msg' = Msg
      /\ (pending => Transfer)'
      /\ Reached' = Reached => CellInv'
  BY <1>1, ApartFacts
<1>3. /\ mpc = "wait" /\ pending /\ err = 0 /\ Sending /\ Msg.flag = 0 /\ Msg.len \in Nat
  BY <1>1, SendingFacts
<1>4. phase = "data" /\ cnt \in -1..(Msg.len - 1) /\ wire = SubSeq(Msg.buf, 1, cnt + 1)
  BY <1>1, <1>3 DEF Sending
<1>5. At24TypeOK'
  BY <1>1, <1>2, <1>3, <1>4 DEF AInv, At24TypeOK
<1>6. CallInv' /\ PointerInv' /\ ReceivedInv'
  BY <1>1, <1>2, <1>3 DEF CallInv, PointerInv, ReceivedInv
<1>7. CellInv'
  BY <1>1, <1>2, <1>3 DEF Reached, Arrived
<1>8. BusInv'
  <2>1. cnt' \in 0..(Msg.len - 1)
    BY <1>1, <1>3, <1>4
  <2>2. Sending'
    BY <1>1, <1>2, <1>4, <2>1 DEF Sending
  <2>3. QED
    BY <1>1, <1>2, <1>3, <2>2 DEF BusInv
<1>9. QED
  BY <1>5, <1>6, <1>7, <1>8 DEF AInv

\* The two interrupts of a read touch no cell.
LEMMA ReceiveInv == ASSUME AInv, Apart, IsrRxFirst \/ IsrRxLater PROVE AInv'
<1>1. /\ bus = "held" /\ mode = "rx" /\ cnt' = cnt + 1 /\ bus' \in {"idle", "shift"}
      /\ bus' = "idle" => cnt = -1
      /\ UNCHANGED <<mi, mpc, ret, err, mode, phase, wire>>
  BY DEF IsrRxFirst, IsrRxLater, Interrupt, Resume, Stop, First, callVars, AInv, At24TypeOK
<1>2. /\ UNCHANGED <<op, addr, data, len, k, pending, result, before, cells, pointer, msgs>>
      /\ Msg' = Msg /\ \A j : Target(j)' = Target(j)
      /\ (pending => Transfer)'
      /\ Reached' = Reached => CellInv'
  BY <1>1, ApartFacts
<1>3. /\ op # "write" /\ mpc \in {"idle", "wait"}
      /\ mpc = "wait" => err = 0 /\ pending /\ Msg.flag = 1
  BY <1>1 DEF AInv, At24TypeOK, CallInv, BusInv
<1>4. cnt' \in Int /\ cnt' >= 0
  BY <1>1 DEF AInv, At24TypeOK
<1>5. At24TypeOK'
  BY <1>1, <1>2, <1>4 DEF AInv, At24TypeOK
<1>6. CallInv'
  BY <1>1, <1>2, <1>3 DEF AInv, CallInv
<1>7. CellInv'
  BY <1>2, <1>3 DEF Reached
<1>8. BusInv'
  BY <1>1, <1>2, <1>3 DEF BusInv
<1>9. PointerInv'
  <2>1. mpc = "wait" => mi = 2
    BY <1>3, MessageCases DEF AInv
  <2>2. pointer = Target(Len(wire))
    BY <1>1 DEF AInv, PointerInv
  <2>3. QED
    BY <1>1, <1>2, <1>3, <2>1, <2>2 DEF PointerInv
<1>10. ReceivedInv'
  <2>1. cnt = -1 \/ phase = "address" => wire = <<>>
    BY <1>1 DEF AInv, ReceivedInv
  <2>2. wire \in Seq(Data) /\ ReadSeesItsCells'
    BY <1>1, <1>2 DEF AInv, ReceivedInv, ReadSeesItsCells
  <2>3. QED
    BY <1>1, <1>4, <2>1, <2>2 DEF ReceivedInv
<1>11. QED
  BY <1>5, <1>6, <1>7, <1>8, <1>9, <1>10 DEF AInv
-----------------------------------------------------------------------------
(* The chip *)

\* The byte of a read is that of the cell the counter is at.
LEMMA SendsInv == ASSUME AInv, ChipSends PROVE AInv'
<1>1. /\ bus = "shift" /\ phase = "data" /\ mode = "rx" /\ bus' = "held"
      /\ wire' = Append(wire, cells[pointer]) /\ pointer' = (pointer + 1) % Cells
      /\ UNCHANGED <<msgs, mi, mpc, ret, cnt, err, rxbuf, mode, phase>>
      /\ UNCHANGED <<op, addr, data, len, k, pending, result, before, cells, busy>>
  BY DEF ChipSends, ByteIn, callVars, msgVars, driverVars
<1>2. /\ wire \in Seq(Data) /\ ReadSeesItsCells /\ cnt >= 0
      /\ pointer = Target(Len(wire)) /\ addr \in Nat /\ Len(wire) \in Nat
      /\ cells[pointer] \in Data /\ mpc \notin {"setup", "start"}
      /\ op # "write"
  BY <1>1, SentByteFacts DEF AInv, At24TypeOK, ReceivedInv, PointerInv, CallInv, BusInv
<1>3. /\ wire' \in Seq(Data) /\ Len(wire') = Len(wire) + 1
      /\ \A i \in 1..Len(wire) : wire'[i] = wire[i]
      /\ wire'[Len(wire) + 1] = cells[pointer]
  BY <1>1, <1>2, AppendProperties
<1>4. pointer' = Target(Len(wire) + 1) /\ pointer' \in CellAddresses
  BY <1>1, <1>2, NextTarget, TargetRange
<1>5. At24TypeOK'
  BY <1>1, <1>4 DEF AInv, At24TypeOK
<1>6. CallInv' /\ BusInv'
  BY <1>1 DEF AInv, CallInv, BusInv, Transfer, Target, SentByte, Msg
<1>7. CellInv'
  BY <1>1, <1>2 DEF AInv, CellInv, Reached, Written, Target, SentByte
<1>8. PointerInv'
  <2>1. \A j : Target(j)' = Target(j)
    BY <1>1 DEF Target
  <2>2. QED
    BY <1>1, <1>2, <1>3, <1>4, <2>1 DEF PointerInv
<1>9. ReceivedInv'
  <2>1. ASSUME NEW i \in 1..Len(wire') PROVE wire'[i] = cells[Target(i - 1)]
    <3>1. CASE i \in 1..Len(wire)
      BY <1>1, <1>2, <1>3, <3>1 DEF ReadSeesItsCells
    <3>2. CASE i = Len(wire) + 1
      <4>1. i - 1 = Len(wire)
        BY <1>2, <3>2
      <4>2. QED
        BY <1>2, <1>3, <3>2, <4>1
    <3>3. QED
      BY <1>2, <1>3, <3>1, <3>2
  <2>2. ReadSeesItsCells'
    BY <1>1, <2>1 DEF ReadSeesItsCells, Target
  <2>3. QED
    BY <1>1, <1>2, <1>3, <2>2 DEF ReceivedInv
<1>10. QED
  BY <1>5, <1>6, <1>7, <1>8, <1>9 DEF AInv

\* The STOP that begins a write cycle: the message carried the cell and the byte
\* of this turn of the loop, so the cell written is the next one of the range.
\* The STOP of a cell address leaves the counter where the read begins.
LEMMA StoppedInv == ASSUME AInv, ChipStopped PROVE AInv'
<1>1. /\ bus = "held" /\ mode = "tx" /\ bus' = "idle" /\ cnt' = cnt + 1 /\ cnt' >= Msg.len
      /\ UNCHANGED <<msgs, mi, mpc, ret, err, rxbuf, phase, mode>>
      /\ UNCHANGED <<op, addr, data, len, k, pending, result, before>>
  BY DEF ChipStopped, IsrTxStop, Interrupt, Stop, callVars, driverVars
<1>2. /\ mpc = "wait" /\ pending /\ err = 0 /\ Sending
      /\ Msg.len \in Nat /\ Msg.len = Len(Msg.buf) /\ Msg.buf \in Seq(Data)
      /\ op = "write" => k < len /\ Msg.len = 2 /\ Msg.buf = <<Target(k), SentByte>>
      /\ op # "write" => op = "read" /\ mi = 1 /\ Msg.len = 1 /\ Msg.buf = <<Target(0)>>
  BY <1>1, SendingFacts
<1>3. cnt + 1 = Msg.len /\ wire = Msg.buf
  <2>1. cnt \in -1..(Msg.len - 1) /\ wire = SubSeq(Msg.buf, 1, cnt + 1)
    BY <1>1, <1>2 DEF Sending
  <2>2. cnt + 1 = Msg.len
    BY <1>1, <1>2, <2>1
  <2>3. QED
    BY <1>2, <2>1, <2>2, WholePrefix
<1>4. /\ addr \in Nat /\ k \in Nat /\ Target(k) \in CellAddresses /\ Target(0) \in CellAddresses
      /\ SentByte \in Values
  BY TargetRange, SentByteFacts DEF AInv, At24TypeOK
<1>5. CallInv' /\ BusInv' /\ ReceivedInv'
  BY <1>1, <1>2 DEF AInv, CallInv, Transfer, Target, SentByte, BusInv, ReceivedInv
<1>6. \A n : Written(n)' = Written(n) /\ Target(n)' = Target(n)
  BY <1>1 DEF Written, Target, SentByte
<1>7. CASE op = "write"
  <2>1. Len(wire) = 2 /\ wire[1] = Target(k) /\ wire[2] = SentByte
    BY <1>2, <1>3, <1>7
  <2>2. cells' = [cells EXCEPT ![Target(k)] = SentByte] /\ pointer' \in CellAddresses
    BY <2>1 DEF ChipStopped
  <2>3. At24TypeOK'
    <3>1. cells' \in [CellAddresses -> Values]
      BY <1>4, <2>2 DEF AInv, At24TypeOK
    <3>2. cnt' \in Int /\ cnt' >= -1
      BY <1>1 DEF AInv, At24TypeOK
    <3>3. QED
      BY <1>1, <2>2, <3>1, <3>2 DEF AInv, At24TypeOK
  <2>4. CellInv'
    <3>1. Reached = k /\ Reached' = k + 1
      BY <1>1, <1>2, <1>7 DEF Reached, Arrived
    <3>2. cells' = Written(k + 1)
      BY <1>4, <2>2, <3>1, WrittenStep DEF AInv, CellInv
    <3>3. QED
      BY <1>6, <3>1, <3>2 DEF CellInv
  <2>5. PointerInv'
    BY <1>1, <1>2, <1>7 DEF PointerInv
  <2>6. QED
    BY <1>5, <2>3, <2>4, <2>5 DEF AInv
<1>8. CASE op # "write"
  <2>1. Len(wire) # 2 /\ wire[1] = Target(0)
    <3>1. Len(wire) = 1 /\ wire = <<Target(0)>>
      BY <1>2, <1>3, <1>8, Zenon
    <3>2. QED
      BY <3>1
  <2>2. pointer' = Target(0) /\ cells' = cells
    BY <2>1 DEF ChipStopped
  <2>3. At24TypeOK'
    <3>1. cnt' \in Int /\ cnt' >= -1
      BY <1>1 DEF AInv, At24TypeOK
    <3>2. QED
      BY <1>1, <1>4, <2>2, <3>1 DEF AInv, At24TypeOK
  <2>4. CellInv'
    <3>1. Reached' = Reached
      BY <1>1, <1>8 DEF Reached
    <3>2. QED
      BY <1>6, <2>2, <3>1 DEF AInv, CellInv
  <2>5. PointerInv'
    BY <1>1, <1>2, <1>6, <2>2 DEF PointerInv
  <2>6. QED
    BY <1>5, <2>3, <2>4, <2>5 DEF AInv
<1>9. QED
  BY <1>7, <1>8

LEMMA QuietInv ==
  ASSUME AInv, UNCHANGED <<cells, pointer, vars, driverVars>> PROVE AInv'
<1>1. /\ UNCHANGED <<op, addr, data, len, k, pending, result, before, cells, pointer>>
      /\ UNCHANGED <<msgs, mi, mpc, ret, cnt, err, bus, mode, phase, iicds, wire>>
  BY DEF vars, callVars, msgVars, busVars, driverVars
<1>2. At24TypeOK'
  BY <1>1 DEF AInv, At24TypeOK
<1>3. CallInv'
  BY <1>1 DEF AInv, CallInv, Transfer, Target, SentByte
<1>4. BusInv'
  BY <1>1 DEF AInv, BusInv, Sending, Msg
<1>5. CellInv'
  BY <1>1 DEF AInv, CellInv, Reached, Arrived, Written, Target, SentByte
<1>6. PointerInv' /\ ReceivedInv'
  BY <1>1 DEF AInv, PointerInv, ReceivedInv, ReadSeesItsCells, Target
<1>7. QED
  BY <1>2, <1>3, <1>4, <1>5, <1>6 DEF AInv
-----------------------------------------------------------------------------
\* The driver, the master driver and the chip together keep AInv.
THEOREM At24Inductive == At24Spec => []AInv
<1>1. AInv /\ [At24Next]_at24Vars => AInv'
  <2> SUFFICES ASSUME AInv, [At24Next]_at24Vars PROVE AInv'
    OBVIOUS
  <2>1. CASE Driver
    <3>1. data \in Buffers /\ 1..MaxLen \subseteq Int /\ ReadLens \subseteq Int
      BY At24Assumption DEF AInv, At24TypeOK
    <3>2. ASSUME NEW ad \in 0..Cells, NEW d \in Buffers, NEW n \in 1..MaxLen,
                 Begin("write", ad, d, n)
          PROVE  AInv'
      BY <3>1, <3>2, BeginInv
    <3>3. ASSUME NEW ad \in 0..Cells, NEW n \in ReadLens, Begin("read", ad, data, n)
          PROVE  AInv'
      BY <3>1, <3>3, BeginInv
    <3>4. QED
      BY <2>1, <3>2, <3>3, TransferInv, ResultInv DEF Driver
  <2>2. CASE MasterStep
    <3>1. Apart
      BY <2>2 DEF MasterStep, Apart, SetUp, Start, PollEnd, ByteOut, IsrNoAck, IsrTxNext,
         IsrRxFirst, IsrRxLater, callVars
    <3>2. QED
      BY <2>2, <3>1, SetUpStartInv, PollEndInv, ByteInv, NoAckInv, NextByteInv, ReceiveInv
         DEF MasterStep
  <2>3. CASE ChipAddressed
    <3>1. Apart /\ AddressDone
      BY <2>3 DEF ChipAddressed, Apart, AddressDone, callVars
    <3>2. QED
      BY <3>1, ByteInv
  <2>4. CASE ChipStopped \/ ChipSends
    BY <2>4, StoppedInv, SendsInv
  <2>5. CASE WriteCycleDone \/ UNCHANGED at24Vars
    BY <2>5, QuietInv DEF WriteCycleDone, at24Vars, chipVars
  <2>6. QED
    BY <2>1, <2>2, <2>3, <2>4, <2>5 DEF At24Next
<1>2. QED
  BY <1>1, At24InitInv, PTL DEF At24Spec

\* Whatever the chip refuses, and whenever: of a write of any length to a chip of
\* any size, the first k cells have been written, k being the byte the driver is
\* at or was refused at, and no other cell has changed.
THEOREM WritesArePrefixes == At24Spec => []OnlyPrefixWritten
<1>1. AInv => OnlyPrefixWritten
  BY DEF AInv, CellInv, Reached, Arrived, OnlyPrefixWritten
<1>2. QED
  BY <1>1, At24Inductive, PTL

\* What the chip sends in a read of any length is what its cells hold from addr
\* on, round the end of the chip as often as the length asks for.
THEOREM ReadsSeeTheirCells == At24Spec => []ReadSeesItsCells
<1>1. AInv => ReadSeesItsCells
  BY DEF AInv, ReceivedInv, ReadSeesItsCells
<1>2. QED
  BY <1>1, At24Inductive, PTL
-----------------------------------------------------------------------------
(* The EEPROM driver is one of the callers that I2cMaster allows: what is     *)
(* proved there of any calls holds of its calls.                              *)

\* The master driver may be given the messages that at24cxx.c builds.
TransferCalls ==
  \A c \in CellAddresses :
    /\ \A v \in Values : WriteMessage(c, v) \in Calls
    /\ \A n \in ReadLens : ReadMessages(c, n) \in Calls

\* What WriteByte and ReadStart hand to i2c_transfer are such messages.
LEMMA OwnCalls ==
  ASSUME TransferCalls, At24TypeOK, WriteByte \/ ReadStart
  PROVE  Caller
<1>1. addr \in Nat /\ k \in Nat /\ SentByte \in Values
  BY SentByteFacts DEF At24TypeOK
<1>2. Target(k) \in CellAddresses /\ Target(0) \in CellAddresses
  BY <1>1, TargetRange
<1>3. CASE WriteByte
  BY <1>1, <1>2, <1>3 DEF WriteByte, TransferCalls, Caller
<1>4. CASE ReadStart
  <2>1. len \in ReadLens
    BY <1>4 DEF ReadStart, At24TypeOK
  <2>2. QED
    BY <1>2, <1>4, <2>1 DEF ReadStart, TransferCalls, Caller
<1>5. QED
  BY <1>3, <1>4

\* Driver, master driver and chip together are a behaviour of the master driver:
\* at24cxx.c starts no transfer while one is running, and the chip does nothing
\* on the bus that a slave may not do.
THEOREM ImplementsMaster == ASSUME TransferCalls PROVE At24Spec => Spec
<1> USE TransferCalls
<1>1. ASSUME AInv, [At24Next]_at24Vars PROVE [Next]_vars
  <2>1. CASE WriteByte \/ ReadStart
    BY <1>1, <2>1, OwnCalls DEF AInv, Next
  <2>2. CASE Driver /\ ~WriteByte /\ ~ReadStart
    BY <2>2 DEF Driver, Begin, WriteCheck, WriteEnd, ReadEnd
  <2>3. CASE MasterStep
    BY <2>3 DEF MasterStep, Next, Caller, Controller, Isr
  <2>4. CASE ChipAddressed \/ ChipStopped \/ ChipSends
    BY <2>4 DEF ChipAddressed, ChipStopped, ChipSends, Next, Controller, Isr
  <2>5. CASE WriteCycleDone \/ UNCHANGED at24Vars
    BY <2>5 DEF WriteCycleDone, at24Vars
  <2>6. QED
    BY <1>1, <2>1, <2>2, <2>3, <2>4, <2>5 DEF At24Next, Driver
<1>2. At24Init => Init
  BY DEF At24Init
<1>3. QED
  BY <1>1, <1>2, At24Inductive, PTL DEF At24Spec, Spec

\* While at24cxx_read's second message is being set up, sent or awaited, the chip
\* has been given the address of the cell to read, up to the STOP.
ReadIsAddressed ==
  op = "read" /\ mpc # "idle" /\ mi = 2 => delivered[1] = <<Target(0)>>

\* No read of the EEPROM begins without the cell address that precedes it ...
THEOREM ReadsAreAddressed == ASSUME TransferCalls PROVE At24Spec => []ReadIsAddressed
<1>1. AInv /\ EarlierMessagesDelivered => ReadIsAddressed
  <2> SUFFICES ASSUME AInv, EarlierMessagesDelivered, op = "read", mpc # "idle", mi = 2
               PROVE  delivered[1] = <<Target(0)>>
    BY DEF ReadIsAddressed
  <2>1. msgs = ReadMessages(Target(0), len)
    BY DEF AInv, CallInv, Transfer
  <2>2. msgs[1] = [flag |-> 0, len |-> 1, buf |-> <<Target(0)>>]
    BY <2>1 DEF ReadMessages
  <2>3. \A i \in 1..(mi - 1) : i = 1
    OBVIOUS
  <2>4. \A i \in 1..(mi - 1) : msgs[i].flag = 0
    BY <2>2, <2>3
  <2>5. delivered[1] = msgs[1].buf
    BY <2>4 DEF EarlierMessagesDelivered
  <2>6. QED
    BY <2>2, <2>5
<1>2. QED
  BY <1>1, At24Inductive, ImplementsMaster, InOrder, PTL

\* ... and none gives its caller a byte of the chip: at24cxx_read leaves buf[0],
\* buf[1], ... as they were, whatever it returns.
THEOREM ReadsReturnNothing ==
  ASSUME TransferCalls
  PROVE  At24Spec => [](\A i \in DOMAIN rxbuf : i # -1 => rxbuf[i] = NoByte)
BY ImplementsMaster, ReadsSaveNothing, PTL
=============================================================================
