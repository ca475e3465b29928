----------------------------- MODULE Rtc_proof -----------------------------
(* Proofs about Rtc, for every set of dates. The inductive invariant follows *)
(* a transfer byte by byte: how many the handler has handed over, which of   *)
(* them the chip has, and at which register its pointer is.                  *)
EXTENDS Rtc, TLAPS

NatDate == [year : Int, mon : Nat, mday : Nat, wday : Nat, hour : Nat, min : Nat, sec : Nat]

Quiet == bus = "idle" /\ count = -1 /\ sda = "free"

\* The chip has had the first k bytes of the buffer: the pointer, then registers.
Sent(k) ==
  /\ expects = (IF k = 0 THEN "pointer" ELSE "register")
  /\ k > 0 => ptr = k - 1
  /\ \A j \in 0..k - 2 : regs[j] = buf[j + 1]

SendInv(n) ==
  /\ mode = "tx" /\ sda = "free" /\ buf[0] = 0 /\ \A j \in 0..n - 1 : buf[j] \in Byte
  /\ \/ bus = "address" /\ pt = 0 /\ count = n
     \/ bus = "held" /\ pt \in 0..n /\ count = n - pt /\ Sent(pt)
     \/ bus = "data" /\ pt \in 1..n /\ count = n - pt /\ iicds = buf[pt - 1] /\ Sent(pt - 1)
     \/ bus = "idle" /\ count = -1 /\ expects = "register" /\ (n = 1 => ptr = 0)

Got(k) == \A j \in 0..k - 1 : buf[j] \in Byte /\ (last # {} => buf[j] = regs[j])

\* The last byte is not acknowledged, and with that the chip lets the line go.
Answer == IF count = 0 THEN "nack" ELSE "ack"
Line == IF count = 0 THEN "free" ELSE "driven"

ReceiveInv ==
  /\ mode = "rx"
  /\ \/ bus = "address" /\ pt = -1 /\ count = 8 /\ ptr = 0 /\ sda = "free"
     \/ bus = "held" /\ pt = -1 /\ count = 8 /\ ptr = 0 /\ sda = "driven"
     \/ /\ bus = "data" /\ pt \in 0..8 /\ count = 8 - pt /\ ptr = pt /\ sda = "driven"
        /\ ack = Answer /\ Got(pt)
     \/ /\ bus = "held" /\ pt \in 0..8 /\ count = 8 - pt /\ iicds = regs[pt]
        /\ sda = Line /\ (count # 0 => ptr = pt + 1) /\ Got(pt)
     \/ bus = "idle" /\ count = -1 /\ sda = "free" /\ Got(9)

BusInv ==
  /\ rpc \in {"menu", "set"} => Quiet
  /\ rpc = "wait_set" => SendInv(9)
  /\ rpc = "wait_addr" => SendInv(1)
  /\ rpc = "wait_get" => ReceiveInv

\* What the registers make of a date from 2000 on: of the centuries after this
\* one, one hundred years are dropped.
Held(d) == d.year >= 2000 /\ d.wday \in 0..7
Kept(d) == [d EXCEPT !.year = IF @ >= 2100 THEN @ - 100 ELSE @]

\* The date that was set is on its way to the registers, or in them.
Underway(d) == Status(d) = 0 /\ buf = Frame([d EXCEPT !.year = ChipYear(@)])
DateInv ==
  /\ dt \in NatDate /\ last \subseteq NatDate
  /\ \A d \in last :
       IF rpc = "wait_set" /\ bus # "idle" THEN Underway(d)
       ELSE Held(d) => Decode(regs) = Kept(d)

IInv == TypeOK /\ BusInv /\ DateInv
-----------------------------------------------------------------------------
(* Dates and registers *)

\* Two decimal digits survive the way through BCD, and so do numbers up to 159,
\* whose tens are one hexadecimal digit,
LEMMA BcdRoundTrip ==
  ASSUME NEW x \in 0..159
  PROVE  /\ ToBcd(x) = (x \div 10) * 16 + (x % 10) /\ FromBcd(ToBcd(x)) = x
         /\ ToBcd(x) \in 0..249
<1>1. PICK t \in 0..15, u \in 0..9 : x = 10 * t + u /\ x \div 10 = t /\ x % 10 = u
  <2>1. x \div 10 \in 0..15 /\ x % 10 \in 0..9 /\ x = 10 * (x \div 10) + (x % 10)
    OBVIOUS
  <2> QED BY <2>1
<1>2. ToBcd(x) = 16 * t + u
  BY <1>1 DEF ToBcd
<1>3. (16 * t + u) % 16 = u /\ (16 * t + u) \div 16 = t
  OBVIOUS
<1> QED BY <1>1, <1>2, <1>3 DEF FromBcd

\* and any integer gives a byte.
LEMMA BcdIsByte == ASSUME NEW x \in Int PROVE ToBcd(x) \in Byte
<1>1. \A y \in Int : y % 256 \in Byte
  BY DEF Byte
<1>2. CASE x >= 0
  <2>1. (x \div 10) * 16 + (x % 10) \in Int
    OBVIOUS
  <2> QED BY <1>1, <1>2, <2>1 DEF ToBcd
<1>3. CASE ~(x >= 0)
  <2>1. -(((-x) \div 10) * 16 + ((-x) % 10)) \in Int
    OBVIOUS
  <2> QED BY <1>1, <1>3, <2>1 DEF ToBcd
<1> QED BY <1>2, <1>3

LEMMA FromBcdIsNat == ASSUME NEW v \in Nat PROVE FromBcd(v) \in Nat
BY DEF FromBcd

\* Registers and the frame that carries them.
LEMMA EncodeIsByte == ASSUME NEW d \in Date, NEW k \in 0..7 PROVE Encode(d, k) \in Byte
<1>1. /\ ToBcd(d.sec) \in Byte /\ ToBcd(d.min) \in Byte /\ ToBcd(d.hour) \in Byte
      /\ ToBcd(d.wday) \in Byte /\ ToBcd(d.mday) \in Byte /\ ToBcd(d.mon) \in Byte
      /\ ToBcd(d.year) \in Byte /\ 0 \in Byte
  BY BcdIsByte DEF Date, Byte
<1>2. CASE k \in {0, 1, 2, 3}
  BY <1>1, <1>2 DEF Encode
<1>3. CASE k \in {4, 5, 6, 7}
  BY <1>1, <1>3 DEF Encode
<1> QED BY <1>2, <1>3

LEMMA FrameIs ==
  ASSUME NEW d \in Date
  PROVE  /\ Frame(d) \in [Registers -> Byte \cup {Beyond}] /\ Frame(d)[0] = 0
         /\ \A j \in 0..7 : Frame(d)[j + 1] = Encode(d, j) /\ Frame(d)[j + 1] \in Byte
<1>1. \A j \in 0..7 : Frame(d)[j + 1] = Encode(d, j)
  <2> SUFFICES ASSUME NEW j \in 0..7 PROVE Frame(d)[j + 1] = Encode(d, j)
    OBVIOUS
  <2>1. j + 1 \in Registers /\ j + 1 # 0 /\ j + 1 # 9 /\ (j + 1) - 1 = j
    BY DEF Registers
  <2> QED BY <2>1 DEF Frame
<1>2. Frame(d)[0] = 0 /\ Frame(d)[9] = Beyond
  BY DEF Frame, Registers
<1>3. \A k \in Registers : Frame(d)[k] \in Byte \cup {Beyond}
  <2> SUFFICES ASSUME NEW k \in Registers PROVE Frame(d)[k] \in Byte \cup {Beyond}
    OBVIOUS
  <2>1. CASE k \in {0, 9}
    BY <1>2, <2>1 DEF Byte
  <2>2. CASE k \notin {0, 9}
    <3>1. k - 1 \in 0..7 /\ (k - 1) + 1 = k
      BY <2>2 DEF Registers
    <3> QED BY <1>1, <3>1, EncodeIsByte
  <2> QED BY <2>1, <2>2
<1> QED BY <1>1, <1>2, <1>3, EncodeIsByte DEF Frame

\* What a get can hand to the program is a date of natural numbers.
LEMMA DecodeIsDate ==
  ASSUME NEW r, \A j \in 0..6 : r[j] \in Byte PROVE Decode(r) \in NatDate
<1>1. /\ r[0] % 128 \in Nat /\ r[1] % 128 \in Nat /\ r[2] % 64 \in Nat /\ r[3] % 8 \in Nat
      /\ r[4] % 64 \in Nat /\ r[5] % 32 \in Nat /\ r[6] \in Nat
  <2>1. \A x \in Byte : x % 128 \in Nat /\ x % 64 \in Nat /\ x % 32 \in Nat /\ x % 8 \in Nat /\ x \in Nat
    BY DEF Byte
  <2>2. /\ r[0] \in Byte /\ r[1] \in Byte /\ r[2] \in Byte /\ r[3] \in Byte
        /\ r[4] \in Byte /\ r[5] \in Byte /\ r[6] \in Byte
    OBVIOUS
  <2> QED BY <2>1, <2>2
<1>2. 2000 + FromBcd(r[6]) \in Int
  BY <1>1, FromBcdIsNat
<1> QED BY <1>1, <1>2, FromBcdIsNat DEF Decode, NatDate

\* Set accepts the dates there are: DayExists lists the months' lengths.
LEMMA StatusIsZero ==
  ASSUME NEW d \in NatDate PROVE Status(d) = 0 <=> DayExists(d) /\ d.year <= 2255
<1>0. /\ d.mon \in Nat /\ d.mday \in Nat /\ d.hour \in Nat /\ d.min \in Nat /\ d.sec \in Nat
      /\ d.year \in Int
  BY DEF NatDate
<1>1. CASE d.mon < 1 \/ d.mon > 12 \/ d.mday = 0
  <2>1. Status(d) # 0
    BY <1>1 DEF Status
  <2>2. ~DayExists(d)
    BY <1>0, <1>1 DEF DayExists
  <2> QED BY <2>1, <2>2
<1>2. CASE d.mon \in 1..12 /\ d.mday # 0
  <2> DEFINE l == CASE d.mon \in {4, 6, 9, 11} -> 30
                    [] d.mon = 2 -> (IF LeapYear(d.year) THEN 29 ELSE 28)
                    [] OTHER -> 31
  <2>1. Days(d) = l /\ Days(d) \in Nat
    BY <1>0, <1>2 DEF Days, days_in_mo
  <2>2. ~(d.mon < 1 \/ d.mon > 12 \/ d.mday = 0)
    BY <1>0, <1>2
  <2>3. DayExists(d) <=> d.mday <= l /\ d.hour < 24 /\ d.min < 60 /\ d.sec < 60
    BY <1>0, <1>2 DEF DayExists
  <2>4. CASE d.mday > Days(d)
    <3>1. Status(d) # 0
      BY <2>2, <2>4 DEF Status
    <3> HIDE DEF l
    <3> QED BY <1>0, <2>1, <2>3, <2>4, <3>1
  <2>5. CASE ~(d.mday > Days(d)) /\ (d.hour >= 24 \/ d.min >= 60 \/ d.sec >= 60)
    <3>1. Status(d) # 0
      BY <2>2, <2>5 DEF Status
    <3> HIDE DEF l
    <3> QED BY <1>0, <2>3, <2>5, <3>1
  <2>6. CASE ~(d.mday > Days(d)) /\ ~(d.hour >= 24 \/ d.min >= 60 \/ d.sec >= 60)
    <3>1. d.year - 2000 > 255 => Status(d) = -4
      BY <2>2, <2>6 DEF Status
    <3>2. ~(d.year - 2000 > 255) => Status(d) = 0
      BY <2>2, <2>6 DEF Status
    <3> HIDE DEF l
    <3> QED BY <1>0, <2>1, <2>3, <2>6, <3>1, <3>2
  <2> QED BY <2>4, <2>5, <2>6
<1> QED BY <1>0, <1>1, <1>2

\* A date that set accepts is, up to the century, what get makes of its registers.
LEMMA DateRoundTrip ==
  ASSUME NEW d \in NatDate, Status(d) = 0, Held(d), NEW r,
         \A j \in 0..6 : r[j] = Encode([d EXCEPT !.year = ChipYear(@)], j)
  PROVE  Decode(r) = Kept(d)
<1> DEFINE e == [d EXCEPT !.year = ChipYear(@)]
<1>1. /\ d.mon \in 1..12 /\ d.mday \in 1..31 /\ d.hour \in 0..23 /\ d.min \in 0..59
      /\ d.sec \in 0..59 /\ d.wday \in 0..7 /\ d.year \in 2000..2255
  <2>1. d.mon \in 1..12 /\ d.mday # 0 /\ d.mday <= Days(d) /\ d.hour < 24 /\ d.min < 60 /\ d.sec < 60
    <3>1. d.mon \in Nat /\ d.mday \in Nat
      BY DEF NatDate
    <3>2. ~(d.mon < 1 \/ d.mon > 12 \/ d.mday = 0)
      BY DEF Status
    <3>3. ~(d.mday > Days(d))
      BY <3>2 DEF Status
    <3>4. ~(d.hour >= 24 \/ d.min >= 60 \/ d.sec >= 60)
      BY <3>2, <3>3 DEF Status
    <3>5. d.hour \in Nat /\ d.min \in Nat /\ d.sec \in Nat /\ Days(d) \in Nat
      BY <3>1, <3>2 DEF NatDate, Days, days_in_mo
    <3> QED BY <3>1, <3>2, <3>3, <3>4, <3>5
  <2>2. Days(d) <= 31
    BY <2>1 DEF Days, days_in_mo
  <2>3. Days(d) \in Nat
    BY <2>1 DEF Days, days_in_mo
  <2>4. d.year - 2000 <= 255
    <3>1. ~(d.mon < 1 \/ d.mon > 12 \/ d.mday = 0) /\ ~(d.mday > Days(d))
          /\ ~(d.hour >= 24 \/ d.min >= 60 \/ d.sec >= 60)
      BY <2>1, <2>3 DEF NatDate
    <3>2. ~(d.year - 2000 > 255)
      BY <3>1 DEF Status
    <3> QED BY <3>2 DEF NatDate
  <2> QED BY <2>1, <2>2, <2>3, <2>4 DEF NatDate, Held
<1>2. /\ e.sec = d.sec /\ e.min = d.min /\ e.hour = d.hour /\ e.wday = d.wday
      /\ e.mday = d.mday /\ e.mon = d.mon /\ e.year = ChipYear(d.year)
  BY DEF NatDate
<1>3. /\ r[0] = ToBcd(d.sec) /\ r[1] = ToBcd(d.min) /\ r[2] = ToBcd(d.hour)
      /\ r[3] = ToBcd(d.wday) /\ r[4] = ToBcd(d.mday) /\ r[5] = ToBcd(d.mon)
      /\ r[6] = ToBcd(ChipYear(d.year))
  BY <1>2 DEF Encode
<1>4. \A x \in 0..99 :
        /\ x < 60 => ToBcd(x) % 128 = ToBcd(x)
        /\ x < 32 => ToBcd(x) % 64 = ToBcd(x)
        /\ x < 13 => ToBcd(x) % 32 = ToBcd(x)
        /\ x < 8 => ToBcd(x) % 8 = ToBcd(x)
  <2> SUFFICES ASSUME NEW x \in 0..99
               PROVE  /\ x < 60 => ToBcd(x) % 128 = ToBcd(x)
                      /\ x < 32 => ToBcd(x) % 64 = ToBcd(x)
                      /\ x < 13 => ToBcd(x) % 32 = ToBcd(x)
                      /\ x < 8 => ToBcd(x) % 8 = ToBcd(x)
    OBVIOUS
  <2>1. ToBcd(x) = (x \div 10) * 16 + (x % 10)
    BY BcdRoundTrip
  <2> QED BY <2>1
<1>5. /\ FromBcd(r[0] % 128) = d.sec /\ FromBcd(r[1] % 128) = d.min
      /\ FromBcd(r[2] % 64) = d.hour /\ FromBcd(r[3] % 8) = d.wday
      /\ FromBcd(r[4] % 64) = d.mday /\ FromBcd(r[5] % 32) = d.mon
      /\ FromBcd(r[6]) = ChipYear(d.year)
  <2>1. /\ d.mon \in 0..99 /\ d.mday \in 0..99 /\ d.hour \in 0..99 /\ d.min \in 0..99
        /\ d.sec \in 0..99 /\ d.wday \in 0..99 /\ ChipYear(d.year) \in 0..159
    BY <1>1 DEF ChipYear
  <2>2. /\ r[0] % 128 = r[0] /\ r[1] % 128 = r[1] /\ r[2] % 64 = r[2] /\ r[3] % 8 = r[3]
        /\ r[4] % 64 = r[4] /\ r[5] % 32 = r[5]
    BY <1>1, <1>3, <1>4, <2>1
  <2> QED BY <1>3, <2>1, <2>2, BcdRoundTrip
<1>6. Decode(r) = [sec |-> d.sec, min |-> d.min, hour |-> d.hour, wday |-> d.wday,
                   mday |-> d.mday, mon |-> d.mon, year |-> 2000 + ChipYear(d.year)]
  BY <1>5 DEF Decode
<1>7. 2000 + ChipYear(d.year) = IF d.year >= 2100 THEN d.year - 100 ELSE d.year
  BY <1>1 DEF ChipYear
<1> QED BY <1>6, <1>7 DEF NatDate, Kept

\* Dates of this century are kept as they are.
LEMMA CenturyKept == ASSUME NEW d \in NatDate, InCentury(d) PROVE Held(d) /\ Kept(d) = d
BY DEF NatDate, InCentury, Held, Kept
-----------------------------------------------------------------------------
(* The invariant *)

LEMMA InitInv == Init => IInv
<1> SUFFICES ASSUME Init PROVE IInv
  OBVIOUS
<1>1. dt \in NatDate /\ dt \in Date
  BY RtcAssumption DEF Init, NatDate, Date
<1>2. regs \in [Registers -> Byte] /\ buf \in [Registers -> Byte \cup {Beyond}] /\ 0 \in Byte /\ 0 \in Registers
  BY RtcAssumption DEF Init, Byte, Registers
<1>3. TypeOK
  BY <1>1, <1>2 DEF Init, TypeOK
<1>4. BusInv
  BY DEF Init, BusInv, Quiet
<1>5. DateInv
  BY <1>1 DEF Init, DateInv
<1> QED BY <1>3, <1>4, <1>5 DEF IInv

\* A transfer that begins leaves the chip as it was.
LEMMA BusStarts ==
  IInv /\ (Get \/ SetAccepted \/ GetReads) => BusInv'
<1> SUFFICES ASSUME IInv, Get \/ SetAccepted \/ GetReads PROVE BusInv'
  OBVIOUS
<1>0. TypeOK /\ BusInv
  BY DEF IInv
<1>1. CASE Get
  <2>1. sda = "free" /\ rpc' = "wait_addr" /\ mode' = "tx" /\ sda' = sda /\ bus' = "address"
        /\ pt' = 0 /\ count' = 1
    BY <1>0, <1>1 DEF Get, Transfer, BusInv, Quiet, chipVars
  <2>2. buf'[0] = 0 /\ 0 \in Byte
    BY <1>1 DEF Get, Transfer, Registers, Byte
  <2>3. SendInv(1)'
    BY <2>1, <2>2 DEF SendInv
  <2> QED BY <2>1, <2>3 DEF BusInv
<1>2. CASE SetAccepted
  <2>1. sda = "free" /\ rpc' = "wait_set" /\ mode' = "tx" /\ sda' = sda /\ bus' = "address"
        /\ pt' = 0 /\ count' = 9 /\ buf' = Frame(dt')
    BY <1>0, <1>2 DEF SetAccepted, Transfer, BusInv, Quiet, chipVars
  <2>2. dt' \in Date
    BY <1>0, <1>2 DEF SetAccepted, TypeOK, Date, ChipYear
  <2>3. buf'[0] = 0 /\ \A j \in 0..7 : buf'[j + 1] \in Byte
    BY <2>1, <2>2, FrameIs
  <2>4. \A j \in 0..8 : buf'[j] \in Byte
    <3> SUFFICES ASSUME NEW j \in 0..8 PROVE buf'[j] \in Byte
      OBVIOUS
    <3>1. CASE j = 0
      BY <2>3, <3>1 DEF Byte
    <3>2. CASE j # 0
      <4>1. j - 1 \in 0..7 /\ (j - 1) + 1 = j
        BY <3>2
      <4> QED BY <2>3, <4>1
    <3> QED BY <3>1, <3>2
  <2>5. SendInv(9)'
    BY <2>1, <2>3, <2>4 DEF SendInv
  <2> QED BY <2>1, <2>5 DEF BusInv
<1>3. CASE GetReads
  <2>1. count = -1 /\ SendInv(1)
    BY <1>0, <1>3 DEF GetReads, TransferDone, BusInv
  <2>2. ptr = 0 /\ sda = "free"
    BY <2>1 DEF SendInv
  <2>3. ReceiveInv'
    BY <1>3, <2>2 DEF GetReads, Transfer, ReceiveInv, chipVars
  <2> QED BY <1>3, <2>3 DEF BusInv, GetReads
<1> QED BY <1>1, <1>2, <1>3

\* Each byte and each interrupt of a write moves it on by one.
LEMMA SendKept ==
  ASSUME IInv, NEW n \in {1, 9}, SendInv(n), UNCHANGED rpc,
         Controller \/ Isr
  PROVE  SendInv(n)'
<1>0. TypeOK
  BY DEF IInv
<1>1. CASE AddressShifted
  <2>1. bus = "address" /\ pt = 0 /\ count = n
    BY <1>1 DEF AddressShifted, SendInv
  <2>2. Sent(0)'
    BY <1>1 DEF AddressShifted, SendInv, Sent
  <2> QED BY <1>1, <2>1, <2>2 DEF AddressShifted, SendInv, xferVars
<1>2. CASE ByteSent
  <2>1. pt \in 1..n /\ count = n - pt /\ iicds = buf[pt - 1] /\ Sent(pt - 1)
    BY <1>2 DEF ByteSent, SendInv
  <2>2. Sent(pt)'
    <3>1. CASE expects = "pointer"
      <4>1. pt = 1
        BY <2>1, <3>1 DEF Sent
      <4>2. iicds = 0
        BY <2>1, <4>1 DEF SendInv
      <4> QED BY <1>2, <3>1, <4>1, <4>2 DEF ByteSent, Sent, xferVars
    <3>2. CASE expects # "pointer"
      <4>1. pt \in 2..9 /\ ptr = pt - 2 /\ ptr \in Registers /\ ptr # 9
        BY <2>1, <3>2 DEF Sent, Registers
      <4>2. /\ regs' = [regs EXCEPT ![ptr] = buf[pt - 1]] /\ ptr' = pt - 1 /\ expects' = "register"
            /\ pt' = pt /\ buf' = buf
        BY <1>2, <2>1, <3>2, <4>1 DEF ByteSent, Following, xferVars
      <4>3. \A j \in 0..pt - 2 : regs'[j] = buf[j + 1]
        <5> SUFFICES ASSUME NEW j \in 0..pt - 2 PROVE regs'[j] = buf[j + 1]
          OBVIOUS
        <5>1. CASE j = pt - 2
          BY <1>0, <4>1, <4>2, <5>1 DEF TypeOK
        <5>2. CASE j # pt - 2
          <6>1. j \in 0..(pt - 1) - 2 /\ j \in Registers /\ j # ptr
            BY <4>1, <5>2 DEF Registers
          <6> QED BY <1>0, <2>1, <4>2, <6>1 DEF TypeOK, Sent
        <5> QED BY <5>1, <5>2
      <4> QED BY <4>1, <4>2, <4>3 DEF Sent
    <3> QED BY <3>1, <3>2
  <2> QED BY <1>2, <2>1, <2>2 DEF ByteSent, SendInv, xferVars
<1>3. CASE IsrSend
  <2>1. pt \in 0..n /\ count = n - pt /\ count # 0 /\ Sent(pt)
    BY <1>3 DEF IsrSend, SendInv
  <2>2. pt' = pt + 1 /\ count' = count - 1 /\ iicds' = buf[pt] /\ bus' = "data" /\ buf' = buf
    BY <1>3 DEF IsrSend, Resume
  <2>3. pt' \in 1..n /\ count' = n - pt' /\ pt' - 1 = pt
    BY <2>1, <2>2
  <2>4. Sent(pt - 1)'
    BY <1>3, <2>1, <2>2, <2>3 DEF IsrSend, Sent, chipVars
  <2> QED BY <1>3, <2>2, <2>3, <2>4 DEF IsrSend, SendInv, chipVars
<1>4. CASE IsrSent
  <2>1. pt = n /\ Sent(n)
    BY <1>4 DEF IsrSent, SendInv
  <2>2. expects = "register" /\ (n = 1 => ptr = 0)
    BY <2>1 DEF Sent
  <2> QED BY <1>4, <2>2 DEF IsrSent, SendInv, chipVars
<1>5. CASE ByteReceived \/ IsrReadStart \/ IsrStore \/ IsrStoreLast
  BY <1>5 DEF ByteReceived, IsrReadStart, IsrStore, IsrStoreLast, SendInv
<1> QED BY <1>1, <1>2, <1>3, <1>4, <1>5 DEF Controller, Isr

\* So it does with a read, whose last byte is the ninth.
LEMMA ReceiveKept ==
  ASSUME IInv, ReceiveInv, UNCHANGED rpc, Controller \/ Isr
  PROVE  ReceiveInv'
<1>0. TypeOK
  BY DEF IInv
<1>1. CASE AddressShifted
  BY <1>1 DEF AddressShifted, ReceiveInv, xferVars
<1>2. CASE ByteReceived
  <2>1. /\ pt \in 0..8 /\ count = 8 - pt /\ ptr = pt /\ sda = "driven" /\ ack = Answer /\ Got(pt)
    BY <1>2 DEF ByteReceived, ReceiveInv
  <2>2. /\ iicds' = regs[pt] /\ ptr' = pt + 1 /\ sda' = Line /\ bus' = "held"
        /\ pt' = pt /\ count' = count /\ mode' = "rx" /\ regs' = regs
    BY <1>0, <1>2, <2>1 DEF ByteReceived, Following, xferVars, TypeOK, Answer, Line
  <2>3. Got(pt)'
    BY <1>2, <2>1, <2>2 DEF ByteReceived, Got, xferVars, callVars
  <2> QED BY <2>1, <2>2, <2>3 DEF ReceiveInv, Line
<1>3. CASE IsrReadStart
  <2>1. pt = -1 /\ count = 8 /\ ptr = 0 /\ sda = "driven"
    BY <1>3 DEF IsrReadStart, ReceiveInv
  <2>2. Got(0)'
    BY DEF Got
  <2>3. pt' = 0
    BY <1>3 DEF IsrReadStart
  <2>4. Got(pt)'
    BY <2>2, <2>3
  <2> QED BY <1>3, <2>1, <2>3, <2>4 DEF IsrReadStart, Resume, ReceiveInv, Answer, chipVars
<1>4. CASE IsrStore \/ IsrStoreLast
  <2>1. /\ pt \in 0..8 /\ count = 8 - pt /\ iicds = regs[pt] /\ sda = Line
        /\ count # 0 => ptr = pt + 1
        /\ Got(pt)
    BY <1>4 DEF IsrStore, IsrStoreLast, ReceiveInv
  <2>2. /\ buf' = [buf EXCEPT ![pt] = regs[pt]] /\ pt' = pt + 1 /\ count' = count - 1
        /\ regs' = regs /\ ptr' = ptr /\ sda' = sda /\ last' = last /\ mode' = "rx"
    BY <1>4, <2>1 DEF IsrStore, IsrStoreLast, Store, chipVars, callVars
  <2>3. Got(pt)'
    <3>0. pt' - 1 = pt
      BY <2>1, <2>2
    <3> SUFFICES ASSUME NEW j \in 0..pt PROVE buf'[j] \in Byte /\ (last' # {} => buf'[j] = regs'[j])
      BY <3>0 DEF Got
    <3>1. j \in Registers /\ pt \in Registers
      BY <2>1 DEF Registers
    <3>2. CASE j = pt
      BY <1>0, <2>2, <3>1, <3>2 DEF TypeOK
    <3>3. CASE j # pt
      <4>1. j \in 0..pt - 1
        BY <2>1, <3>3
      <4> QED BY <1>0, <2>1, <2>2, <3>1, <3>3, <4>1 DEF Got, TypeOK
    <3> QED BY <3>2, <3>3
  <2>4. CASE IsrStore
    <3>1. pt' \in 0..8 /\ count' = 8 - pt' /\ sda' = "driven" /\ ptr' = pt' /\ ack' = Answer'
          /\ bus' = "data"
      BY <2>1, <2>2, <2>4 DEF IsrStore, Resume, Answer, Line
    <3> QED BY <2>2, <2>3, <3>1 DEF ReceiveInv
  <2>5. CASE IsrStoreLast
    <3>1. pt = 8 /\ count = 0 /\ sda = "free" /\ pt' = 9 /\ count' = -1 /\ bus' = "idle"
      BY <2>1, <2>2, <2>5 DEF IsrStoreLast, Line
    <3>2. Got(9)'
      BY <2>3, <3>1 DEF Got
    <3> QED BY <2>2, <3>1, <3>2 DEF ReceiveInv
  <2> QED BY <1>4, <2>4, <2>5
<1>5. CASE ByteSent \/ IsrSend \/ IsrSent
  BY <1>5 DEF ByteSent, IsrSend, IsrSent, ReceiveInv
<1> QED BY <1>1, <1>2, <1>3, <1>4, <1>5 DEF Controller, Isr

\* The bus keeps in step with the program.
LEMMA BusKept == IInv /\ [Next]_vars => BusInv'
<1> SUFFICES ASSUME IInv, [Next]_vars PROVE BusInv'
  OBVIOUS
<1>0. TypeOK /\ BusInv
  BY DEF IInv
<1>1. CASE Get \/ SetAccepted \/ GetReads
  BY <1>1, BusStarts
<1>2. CASE (\E d \in Dates, whole \in BOOLEAN : Enter(d, whole)) \/ SetRejected
  BY <1>0, <1>2 DEF Enter, SetRejected, BusInv, Quiet, xferVars, busVars, chipVars
<1>3. CASE SetReturns \/ GetReturns
  BY <1>0, <1>3 DEF SetReturns, GetReturns, TransferDone, BusInv, Quiet, SendInv, ReceiveInv,
    xferVars, busVars, chipVars
<1>4. CASE Controller \/ Isr
  <2>1. rpc' = rpc
    BY <1>4 DEF Controller, AddressShifted, ByteSent, ByteReceived, Isr, IsrSend, IsrSent,
      IsrReadStart, IsrStore, IsrStoreLast, callVars
  <2>2. rpc \notin {"menu", "set"}
    BY <1>0, <1>4 DEF Controller, AddressShifted, ByteSent, ByteReceived, Isr, IsrSend, IsrSent,
      IsrReadStart, IsrStore, IsrStoreLast, BusInv, Quiet
  <2>3. rpc = "wait_set" => SendInv(9)'
    BY <1>0, <1>4, <2>1, SendKept DEF BusInv
  <2>4. rpc = "wait_addr" => SendInv(1)'
    BY <1>0, <1>4, <2>1, SendKept DEF BusInv
  <2>5. rpc = "wait_get" => ReceiveInv'
    BY <1>0, <1>4, <2>1, ReceiveKept DEF BusInv
  <2> QED BY <2>1, <2>2, <2>3, <2>4, <2>5 DEF BusInv
<1>5. CASE Tick
  <2>1. /\ bus = "idle" /\ last' = {} /\ UNCHANGED <<rpc, xferVars, busVars, ptr, expects, sda>>
    BY <1>5 DEF Tick
  <2>2. \A n \in {1, 9} : SendInv(n) => SendInv(n)'
    BY <2>1 DEF SendInv, xferVars, busVars
  <2>3. ReceiveInv => ReceiveInv'
    BY <2>1 DEF ReceiveInv, Got, xferVars, busVars
  <2> QED BY <1>0, <2>1, <2>2, <2>3 DEF BusInv, Quiet, xferVars, busVars
<1>6. CASE UNCHANGED vars
  <2>1. UNCHANGED <<rpc, last, buf, mode, pt, count, bus, iicds, ack, regs, ptr, expects, sda>>
    BY <1>6 DEF vars, callVars, xferVars, busVars, chipVars
  <2> QED BY <1>0, <2>1 DEF BusInv, Quiet, SendInv, Sent, ReceiveInv, Got, Answer, Line
<1> QED BY <1>1, <1>2, <1>3, <1>4, <1>5, <1>6 DEF Next, Menu, Program

\* The date stays what it was, on the way to the registers and in them.
LEMMA DateKept == IInv /\ [Next]_vars => DateInv'
<1> SUFFICES ASSUME IInv, [Next]_vars PROVE DateInv'
  OBVIOUS
<1>0. TypeOK /\ BusInv /\ DateInv
  BY DEF IInv
<1>1. CASE \E d \in Dates, whole \in BOOLEAN : Enter(d, whole)
  <2>1. Dates \subseteq NatDate
    BY RtcAssumption DEF NatDate
  <2>2. dt' \in NatDate
    BY <1>0, <1>1, <2>1 DEF Enter, DateInv, NatDate
  <2> QED BY <1>0, <1>1, <2>2 DEF Enter, DateInv, chipVars
<1>2. CASE SetRejected
  <2>1. dt' \in NatDate
    BY <1>0, <1>2 DEF SetRejected, DateInv, NatDate
  <2> QED BY <1>0, <1>2, <2>1 DEF SetRejected, DateInv, chipVars
<1>3. CASE SetAccepted
  <2>1. /\ rpc' = "wait_set" /\ bus' = "address" /\ last' = {dt} /\ Status(dt) = 0
        /\ dt' = [dt EXCEPT !.year = ChipYear(@)] /\ buf' = Frame(dt')
    BY <1>3 DEF SetAccepted, Transfer
  <2>2. dt' \in NatDate
    BY <1>0, <2>1 DEF DateInv, NatDate, ChipYear
  <2> QED BY <1>0, <2>1, <2>2 DEF DateInv, Underway
<1>4. CASE Get \/ GetReads
  BY <1>0, <1>4 DEF Get, GetReads, Transfer, TransferDone, DateInv, chipVars
<1>5. CASE SetReturns
  <2>1. bus = "idle"
    BY <1>0, <1>5 DEF SetReturns, TransferDone, BusInv, SendInv
  <2> QED BY <1>0, <1>5, <2>1 DEF SetReturns, DateInv, chipVars
<1>6. CASE GetReturns
  <2>1. Got(9)
    BY <1>0, <1>6 DEF GetReturns, TransferDone, BusInv, ReceiveInv
  <2>2. dt' \in NatDate
    BY <1>6, <2>1, DecodeIsDate DEF GetReturns, Got
  <2> QED BY <1>0, <1>6, <2>2 DEF GetReturns, DateInv, chipVars
<1>7. CASE ByteSent
  <2>1. rpc \in {"wait_set", "wait_addr"} /\ bus = "data" /\ bus' = "held"
    BY <1>0, <1>7 DEF ByteSent, BusInv, Quiet, ReceiveInv, TypeOK
  <2>2. rpc = "wait_addr" => regs' = regs
    BY <1>0, <1>7, <2>1 DEF ByteSent, BusInv, SendInv, Sent
  <2> QED BY <1>0, <1>7, <2>1, <2>2 DEF ByteSent, DateInv, Underway, callVars, xferVars
<1>8. CASE IsrSent
  <2>1. CASE rpc = "wait_set"
    <3>1. pt = 9 /\ Sent(9)
      BY <1>0, <1>8, <2>1 DEF IsrSent, BusInv, SendInv
    <3>2. \A d \in last : Held(d) => Decode(regs) = Kept(d)
      <4> SUFFICES ASSUME NEW d \in last, Held(d) PROVE Decode(regs) = Kept(d)
        OBVIOUS
      <4>1. d \in NatDate /\ Underway(d)
        BY <1>0, <1>8, <2>1 DEF IsrSent, DateInv
      <4>2. [d EXCEPT !.year = ChipYear(@)] \in Date
        BY <4>1 DEF NatDate, Date, ChipYear
      <4>3. \A j \in 0..6 : regs[j] = Encode([d EXCEPT !.year = ChipYear(@)], j)
        <5>1. \A j \in 0..6 : regs[j] = buf[j + 1] /\ j \in 0..7
          BY <3>1 DEF Sent
        <5> QED BY <4>1, <4>2, <5>1, FrameIs DEF Underway
      <4> QED BY <4>1, <4>3, DateRoundTrip DEF Underway
    <3> QED BY <1>0, <1>8, <3>2 DEF IsrSent, DateInv, callVars, chipVars
  <2>2. CASE rpc # "wait_set"
    BY <1>0, <1>8, <2>2 DEF IsrSent, DateInv, callVars, chipVars
  <2> QED BY <2>1, <2>2
<1>9. CASE AddressShifted \/ ByteReceived \/ IsrSend \/ IsrReadStart
  <2>1. /\ bus # "idle" /\ bus' # "idle" /\ UNCHANGED <<rpc, dt, last, regs, buf>>
    BY <1>9 DEF AddressShifted, ByteReceived, IsrSend, IsrReadStart, Resume, callVars, xferVars, chipVars
  <2> QED BY <1>0, <2>1 DEF DateInv, Underway
<1>10. CASE IsrStore \/ IsrStoreLast
  <2>1. rpc # "wait_set"
    BY <1>0, <1>10 DEF IsrStore, IsrStoreLast, BusInv, SendInv
  <2> QED BY <1>0, <1>10, <2>1 DEF IsrStore, IsrStoreLast, DateInv, callVars, chipVars
<1>11. CASE Tick
  BY <1>0, <1>11 DEF Tick, DateInv
<1>12. CASE UNCHANGED vars
  BY <1>0, <1>12 DEF vars, callVars, xferVars, busVars, chipVars, DateInv, Underway
<1> QED BY <1>1, <1>2, <1>3, <1>4, <1>5, <1>6, <1>7, <1>8, <1>9, <1>10, <1>11, <1>12
     DEF Next, Menu, Program, Controller, Isr

\* Every variable keeps its type.
LEMMA TypeKept == IInv /\ [Next]_vars => TypeOK'
<1> SUFFICES ASSUME IInv, [Next]_vars PROVE TypeOK'
  OBVIOUS
<1>0. TypeOK /\ BusInv /\ DateInv
  BY DEF IInv
<1>1. NatDate \subseteq Date
  BY DEF NatDate, Date
<1>2. dt' \in Date /\ last' \in SUBSET Date
  BY <1>1, DateKept DEF DateInv
<1>3. CASE (\E d \in Dates, whole \in BOOLEAN : Enter(d, whole)) \/ SetReturns \/ GetReturns
  BY <1>0, <1>2, <1>3 DEF Enter, SetReturns, GetReturns, TypeOK, xferVars, busVars, chipVars
<1>4. CASE SetRejected
  <2>1. ret' \in -4..0
    BY <1>4 DEF SetRejected, Status
  <2> QED BY <1>0, <1>2, <1>4, <2>1 DEF SetRejected, TypeOK, xferVars, busVars, chipVars
<1>5. CASE SetAccepted
  <2>1. Frame(dt') \in [Registers -> Byte \cup {Beyond}]
    BY <1>2, FrameIs
  <2> QED BY <1>0, <1>2, <1>5, <2>1 DEF SetAccepted, Transfer, TypeOK, chipVars
<1>6. CASE Get \/ GetReads
  <2>1. buf' \in [Registers -> Byte \cup {Beyond}]
    BY <1>6 DEF Get, GetReads, Transfer, Byte
  <2>2. pt' \in -1..9 /\ count' \in -1..9 /\ mode' \in {"tx", "rx"} /\ bus' = "address"
    BY <1>6 DEF Get, GetReads, Transfer
  <2> QED BY <1>0, <1>2, <1>6, <2>1, <2>2 DEF Get, GetReads, Transfer, TypeOK, chipVars
<1>7. CASE Controller \/ Isr
  <2>1. rpc' = rpc /\ ret' = ret /\ mode' = mode
    BY <1>7 DEF Controller, AddressShifted, ByteSent, ByteReceived, Isr, IsrSend, IsrSent,
      IsrReadStart, IsrStore, IsrStoreLast, callVars, xferVars
  <2>2. buf' \in [Registers -> Byte \cup {Beyond}]
    <3>1. iicds \in Byte /\ buf \in [Registers -> Byte \cup {Beyond}]
      BY <1>0 DEF TypeOK
    <3> QED BY <1>7, <3>1 DEF Controller, AddressShifted, ByteSent, ByteReceived, Isr, IsrSend,
          IsrSent, IsrReadStart, IsrStore, IsrStoreLast, Store, xferVars
  <2>3. regs' \in [Registers -> Byte] /\ ptr' \in Registers
    <3>1. CASE ByteSent
      <4>1. rpc \in {"wait_set", "wait_addr"} /\ iicds \in Byte
        BY <1>0, <3>1 DEF ByteSent, BusInv, Quiet, ReceiveInv, TypeOK
      <4>2. expects = "pointer" => iicds = 0
        BY <1>0, <3>1, <4>1 DEF ByteSent, BusInv, SendInv, Sent
      <4> QED BY <1>0, <3>1, <4>1, <4>2 DEF ByteSent, Following, TypeOK, Registers
    <3>2. CASE ByteReceived
      BY <1>0, <3>2 DEF ByteReceived, Following, TypeOK, Registers
    <3>3. CASE ~ByteSent /\ ~ByteReceived
      BY <1>0, <1>7, <3>3 DEF Controller, AddressShifted, Isr, IsrSend, IsrSent, IsrReadStart,
        IsrStore, IsrStoreLast, TypeOK, chipVars
    <3> QED BY <3>1, <3>2, <3>3
  <2>4. iicds' \in Byte
    <3>1. CASE IsrSend
      <4>1. pt \in 0..8 /\ buf[pt] \in Byte
        BY <1>0, <3>1 DEF IsrSend, BusInv, Quiet, SendInv, ReceiveInv, TypeOK
      <4> QED BY <3>1, <4>1 DEF IsrSend
    <3>2. CASE ByteReceived
      BY <1>0, <3>2 DEF ByteReceived, TypeOK, Byte
    <3>3. CASE ~IsrSend /\ ~ByteReceived
      BY <1>0, <1>7, <3>3 DEF Controller, AddressShifted, ByteSent, Isr, IsrSent, IsrReadStart,
        IsrStore, IsrStoreLast, TypeOK, chipVars
    <3> QED BY <3>1, <3>2, <3>3
  <2>5. pt' \in -1..9 /\ count' \in -1..9
    <3>1. BusInv'
      BY BusKept
    <3>2. rpc \in {"wait_set", "wait_addr", "wait_get"}
      BY <1>0, <1>7 DEF Controller, AddressShifted, ByteSent, ByteReceived, Isr, IsrSend, IsrSent,
        IsrReadStart, IsrStore, IsrStoreLast, BusInv, Quiet, TypeOK
    <3>3. CASE IsrSent
      BY <1>0, <3>3 DEF IsrSent, TypeOK
    <3>4. CASE IsrStoreLast
      <4>1. pt \in 0..8
        BY <1>0, <3>2, <3>4 DEF IsrStoreLast, BusInv, SendInv, ReceiveInv
      <4> QED BY <3>4, <4>1 DEF IsrStoreLast, Store
    <3>5. CASE ~IsrSent /\ ~IsrStoreLast
      <4>1. bus' # "idle"
        BY <1>7, <3>5 DEF Controller, AddressShifted, ByteSent, ByteReceived, Isr, IsrSend,
          IsrReadStart, IsrStore, Resume
      <4> QED BY <2>1, <3>1, <3>2, <4>1 DEF BusInv, SendInv, ReceiveInv
    <3> QED BY <3>3, <3>4, <3>5
  <2>6. /\ bus' \in {"idle", "address", "data", "held"} /\ ack' \in {"ack", "nack"}
        /\ expects' \in {"pointer", "register"} /\ sda' \in {"driven", "free"}
    BY <1>0, <1>7 DEF Controller, AddressShifted, ByteSent, ByteReceived, Isr, IsrSend, IsrSent,
      IsrReadStart, IsrStore, IsrStoreLast, Resume, TypeOK, chipVars
  <2> QED BY <1>0, <1>2, <2>1, <2>2, <2>3, <2>4, <2>5, <2>6 DEF TypeOK
<1>8. CASE Tick
  BY <1>0, <1>2, <1>8, RtcAssumption DEF Tick, TypeOK, xferVars, busVars, Registers
<1>9. CASE UNCHANGED vars
  BY <1>0, <1>9 DEF vars, callVars, xferVars, busVars, chipVars, TypeOK
<1> QED BY <1>3, <1>4, <1>5, <1>6, <1>7, <1>8, <1>9 DEF Next, Menu, Program

\* The invariant is one.
LEMMA Inductive == Spec => []IInv
<1>1. IInv /\ [Next]_vars => IInv'
  BY BusKept, DateKept, TypeKept DEF IInv
<1> QED BY <1>1, InitInv, PTL DEF Spec
-----------------------------------------------------------------------------
(* The theorems *)

\* Every variable keeps its type.
THEOREM RtcTypeCorrect == Spec => []TypeOK
BY Inductive, PTL DEF IInv

\* When set or get has returned, nothing is left to happen on the bus.
THEOREM TransferOver == Spec => []OverOnTheBus
<1>1. IInv => OverOnTheBus
  BY DEF IInv, BusInv, Quiet, OverOnTheBus
<1> QED BY <1>1, Inductive, PTL

\* Any date of this century that set accepts is in the chip's registers when it
\* returns, and they read as that date.
THEOREM DateStored == Spec => []SetThenGet
<1>1. IInv => SetThenGet
  BY CenturyKept DEF IInv, DateInv, SetThenGet
<1> QED BY <1>1, Inductive, PTL

\* What get hands to the program is what the registers hold.
LEMMA GetGives == ASSUME IInv, GetReturns, NEW d \in last, Held(d) PROVE dt' = Kept(d)
<1>1. rpc = "wait_get" /\ count = -1
  BY DEF GetReturns, TransferDone
<1>2. Got(9) /\ Decode(regs) = Kept(d)
  BY <1>1 DEF IInv, BusInv, ReceiveInv, DateInv
<1>3. \A j \in 0..6 : buf[j] = regs[j]
  BY <1>2 DEF Got
<1>4. Decode(buf) = Decode(regs)
  BY <1>3 DEF Decode
<1> QED BY <1>2, <1>4 DEF GetReturns

\* And get hands it to the program.
THEOREM DateReadBack == Spec => GetGivesRegisters
<1>1. IInv /\ [Next]_vars => [GetReturns => \A d \in last : InCentury(d) => dt' = d]_vars
  BY GetGives, CenturyKept DEF IInv, DateInv
<1> QED BY <1>1, Inductive, PTL DEF Spec, GetGivesRegisters

\* The centuries set accepts and the chip has no room for: from 2100 to 2255 a
\* date reads back a hundred years earlier, and otherwise as it was set.
KeptUpToCentury == [][GetReturns => \A d \in last : Held(d) => dt' = Kept(d)]_vars

\* Get gives back every date that set accepted from 2000 on, up to its century.
THEOREM CenturyDropped == Spec => KeptUpToCentury
<1>1. IInv /\ [Next]_vars => [GetReturns => \A d \in last : Held(d) => dt' = Kept(d)]_vars
  BY GetGives
<1> QED BY <1>1, Inductive, PTL DEF Spec, KeptUpToCentury

\* Set takes the dates there are up to the year 2255, and refuses all others.
THEOREM DatesChecked == Spec => OnlyDatesAccepted
<1>1. IInv /\ [Next]_vars =>
        [rpc = "set" /\ rpc' # "set" => (ret' = 0) = (DayExists(dt) /\ dt.year <= 2255)]_vars
  <2> SUFFICES ASSUME IInv, Next, rpc = "set", rpc' # "set"
               PROVE  ret' = 0 <=> DayExists(dt) /\ dt.year <= 2255
    BY DEF vars, callVars
  <2>1. dt \in NatDate /\ BusInv
    BY DEF IInv, DateInv
  <2>2. SetRejected \/ SetAccepted
    BY <2>1 DEF Next, Menu, Program, Controller, Isr, Get, Enter, SetReturns, GetReads, GetReturns,
      AddressShifted, ByteSent, ByteReceived, IsrSend, IsrSent, IsrReadStart, IsrStore,
      IsrStoreLast, Tick, BusInv, Quiet, callVars
  <2>3. ret' = Status(dt)
    BY <2>2 DEF SetRejected, SetAccepted
  <2>4. Status(dt) = 0 <=> DayExists(dt) /\ dt.year <= 2255
    BY <2>1, StatusIsZero
  <2> QED BY <2>3, <2>4
<1> QED BY <1>1, Inductive, PTL DEF Spec, OnlyDatesAccepted
-----------------------------------------------------------------------------
(* Every set and get ends.  RtcLeft bounds the steps, the program's, the      *)
(* controller's and the handler's, that are left: two for each byte, the byte *)
(* itself and its interrupt, and a get has two transfers.                     *)

XferLeft ==
  IF bus = "idle" THEN 1
  ELSE 2 * count + (IF bus = "data" THEN 3
                    ELSE IF bus = "address" THEN (IF mode = "tx" THEN 3 ELSE 5)
                    ELSE IF pt = -1 THEN 4 ELSE 2)

RtcLeft ==
  IF rpc = "menu" THEN 0
  ELSE IF rpc = "set" THEN 22
  ELSE IF rpc = "wait_addr" THEN XferLeft + 21 ELSE XferLeft

\* A step that the set or get can take.
RtcCanStep == rpc = "set" \/ bus # "idle" \/ TransferDone

\* Where a transfer is, and how much of it is left.
LEMMA XferFacts ==
  ASSUME IInv, rpc \notin {"menu", "set"}
  PROVE  /\ count \in -1..9 /\ XferLeft \in 1..21
         /\ rpc = "wait_addr" => XferLeft \in 1..5
         /\ bus = "idle" => count = -1 /\ XferLeft = 1
         /\ bus # "idle" => count \in 0..9
         /\ bus = "held" /\ mode = "tx" => pt # -1
<1>1. TypeOK /\ BusInv /\ rpc \in {"wait_set", "wait_addr", "wait_get"}
  BY DEF IInv, TypeOK
<1>2. CASE rpc = "wait_set"
  <2>1. SendInv(9)
    BY <1>1, <1>2 DEF BusInv
  <2> QED BY <1>1, <1>2, <2>1 DEF SendInv, XferLeft, TypeOK
<1>3. CASE rpc = "wait_addr"
  <2>1. SendInv(1)
    BY <1>1, <1>3 DEF BusInv
  <2> QED BY <1>1, <1>3, <2>1 DEF SendInv, XferLeft, TypeOK
<1>4. CASE rpc = "wait_get"
  <2>1. ReceiveInv
    BY <1>1, <1>4 DEF BusInv
  <2> QED BY <1>1, <1>4, <2>1 DEF ReceiveInv, XferLeft, TypeOK
<1> QED BY <1>1, <1>2, <1>3, <1>4

\* A byte or an interrupt brings the end of the transfer nearer.
LEMMA XferStepEnds ==
  ASSUME IInv, Controller \/ Isr
  PROVE  /\ rpc \notin {"menu", "set"} /\ rpc' = rpc
         /\ XferLeft' \in Int /\ XferLeft' < XferLeft /\ XferLeft' >= 1
<1>1. bus # "idle" /\ rpc' = rpc
  BY DEF Controller, AddressShifted, ByteSent, ByteReceived, Isr, IsrSend, IsrSent, IsrReadStart,
    IsrStore, IsrStoreLast, callVars
<1>2. rpc \notin {"menu", "set"}
  BY <1>1 DEF IInv, BusInv, Quiet
<1>3. count \in 0..9 /\ (bus = "held" /\ mode = "tx" => pt # -1) /\ mode \in {"tx", "rx"}
  BY <1>1, <1>2, XferFacts DEF IInv, TypeOK
<1>4. CASE AddressShifted
  <2>1. bus = "address" /\ bus' = "held" /\ UNCHANGED <<count, pt, mode>>
    BY <1>4 DEF AddressShifted, xferVars
  <2>2. mode = "tx" => pt # -1
    <3>1. mode = "tx" => rpc \in {"wait_set", "wait_addr"}
      BY <1>2 DEF IInv, TypeOK, BusInv, ReceiveInv
    <3> QED BY <2>1, <3>1 DEF IInv, BusInv, SendInv
  <2> QED BY <1>1, <1>2, <1>3, <2>1, <2>2 DEF XferLeft
<1>5. CASE ByteSent \/ ByteReceived
  <2>1. bus = "data" /\ bus' = "held" /\ UNCHANGED <<count, pt, mode>>
    BY <1>5 DEF ByteSent, ByteReceived, xferVars
  <2>2. pt # -1
    BY <1>2, <2>1 DEF IInv, TypeOK, BusInv, SendInv, ReceiveInv
  <2> QED BY <1>1, <1>2, <1>3, <2>1, <2>2 DEF XferLeft
<1>6. CASE IsrSend \/ IsrStore
  <2>1. bus = "held" /\ bus' = "data" /\ count' = count - 1 /\ pt # -1 /\ count # 0
    BY <1>3, <1>6 DEF IsrSend, IsrStore, Store, Resume
  <2>2. XferLeft = 2 * count + 2 /\ XferLeft' = 2 * (count - 1) + 3
    BY <2>1 DEF XferLeft
  <2> QED BY <1>1, <1>2, <1>3, <2>1, <2>2
<1>7. CASE IsrSent \/ IsrStoreLast
  <2>1. bus = "held" /\ bus' = "idle" /\ count = 0 /\ pt # -1
    BY <1>3, <1>7 DEF IsrSent, IsrStoreLast
  <2> QED BY <1>1, <1>2, <2>1 DEF XferLeft
<1>8. CASE IsrReadStart
  <2>1. bus = "held" /\ bus' = "data" /\ count' = count /\ pt = -1
    BY <1>8 DEF IsrReadStart, Resume
  <2> QED BY <1>1, <1>2, <1>3, <2>1 DEF XferLeft
<1> QED BY <1>4, <1>5, <1>6, <1>7, <1>8 DEF Controller, Isr

\* The program's steps between the transfers.
LEMMA ProgramStepEnds ==
  ASSUME IInv, Program
  PROVE  RtcLeft \in 1..26 /\ RtcLeft' \in 0..25 /\ RtcLeft' < RtcLeft
<1>1. CASE SetRejected
  BY <1>1 DEF SetRejected, RtcLeft
<1>2. CASE SetAccepted
  BY <1>2 DEF SetAccepted, Transfer, RtcLeft, XferLeft
<1>3. CASE SetReturns \/ GetReturns
  <2>1. rpc \in {"wait_set", "wait_get"} /\ rpc' = "menu" /\ count = -1
    BY <1>3 DEF SetReturns, GetReturns, TransferDone
  <2>2. XferLeft = 1
    BY <2>1, XferFacts
  <2> QED BY <2>1, <2>2 DEF RtcLeft
<1>4. CASE GetReads
  <2>1. rpc = "wait_addr" /\ rpc' = "wait_get" /\ bus' = "address" /\ mode' = "rx" /\ count' = 8
    BY <1>4 DEF GetReads, Transfer
  <2>2. XferLeft \in 1..5
    BY <2>1, XferFacts
  <2>3. RtcLeft = XferLeft + 21 /\ RtcLeft' = 21
    BY <2>1 DEF RtcLeft, XferLeft
  <2> QED BY <1>4, <2>2, <2>3, XferFacts DEF GetReads, TransferDone
<1> QED BY <1>1, <1>2, <1>3, <1>4 DEF Program

\* Set and get come back to the menu: until they do, the program, the controller
\* or the handler has a step to take, no polling loop waiting for a DataCount
\* that the handler will not write; each such step brings the end nearer, of at
\* most 22 for a set and 26 for a get; and the ticks of the clock take none away.
THEOREM RtcOperationsEnd ==
  Spec => /\ [](rpc # "menu" => RtcCanStep)
          /\ [][/\ Program \/ Controller \/ Isr =>
                      RtcLeft \in 1..26 /\ RtcLeft' \in 0..25 /\ RtcLeft' < RtcLeft
                /\ Tick => RtcLeft' = RtcLeft]_vars
<1>1. IInv => (rpc # "menu" => RtcCanStep)
  BY XferFacts DEF RtcCanStep, TransferDone
<1>2. ASSUME IInv, Controller \/ Isr
      PROVE  RtcLeft \in 1..26 /\ RtcLeft' \in 0..25 /\ RtcLeft' < RtcLeft
  <2> DEFINE x == XferLeft
             y == XferLeft'
  <2>1. rpc \notin {"menu", "set"} /\ rpc' = rpc /\ y \in Int /\ y < x /\ y >= 1
    BY <1>2, XferStepEnds
  <2>2. x \in 1..21 /\ (rpc = "wait_addr" => x \in 1..5)
    BY <1>2, <2>1, XferFacts
  <2>3. /\ RtcLeft = IF rpc = "wait_addr" THEN x + 21 ELSE x
        /\ RtcLeft' = IF rpc = "wait_addr" THEN y + 21 ELSE y
    BY <2>1 DEF RtcLeft
  <2> HIDE DEF x, y
  <2> QED BY <2>1, <2>2, <2>3
<1>3. ASSUME Tick PROVE RtcLeft' = RtcLeft
  BY <1>3 DEF Tick, RtcLeft, XferLeft, xferVars, busVars
<1>4. IInv /\ [Next]_vars =>
        [/\ Program \/ Controller \/ Isr =>
              RtcLeft \in 1..26 /\ RtcLeft' \in 0..25 /\ RtcLeft' < RtcLeft
         /\ Tick => RtcLeft' = RtcLeft]_vars
  BY <1>2, <1>3, ProgramStepEnds
<1> QED BY <1>1, <1>4, Inductive, PTL DEF Spec
=============================================================================
