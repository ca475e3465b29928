-------------------------------- MODULE Rtc --------------------------------
(* The real-time clock program among the first edition's bare-metal examples *)
(* (its directory i2c): the menu of main.c, the M41T11 driver (m41t11.c) and *)
(* the interrupt-driven transfer of i2c.c under it.                          *)
(*                                                                          *)
(* As in I2cMaster the controller holds the bus from its interrupt until the *)
(* handler writes IICCON, so a run of I2CIntHandle is one step; the polling  *)
(* loops, the controller and the chip interleave with it.                    *)
EXTENDS Integers

CONSTANTS
  Dates,      \* what is typed at the menu
  PowerOn,    \* what the chip's registers may hold at power-on
  Seconds,    \* values the running clock may give its seconds register
  Beyond      \* memory that is not the buffer's

Byte == 0..255
\* Registers 0 to 7 are secs, mins, hours, wday, mday, mon, year and cs; 8 and 9
\* stand for the chip's RAM.
Registers == 0..9
Date == [year : Int, mon : Int, mday : Int, wday : Int, hour : Int, min : Int, sec : Int]

ASSUME RtcAssumption ==
  /\ Dates \subseteq [year : Nat, mon : Nat, mday : Nat, wday : Nat, hour : Nat, min : Nat, sec : Nat]
  /\ PowerOn \subseteq [Registers -> Byte] /\ Seconds \subseteq Byte
  /\ Beyond \notin Byte

VARIABLES
  rpc,      \* where the program is: "menu", "set", or in the polling loop of a
            \* transfer: "wait_set", "wait_addr", "wait_get"
  dt,       \* main's struct rtc_time
  ret,      \* what the last set returned
  buf,      \* memory from the buffer's first byte on
  mode,     \* g_tS3C24xx_I2C.Mode: "tx" or "rx"
  pt,       \* g_tS3C24xx_I2C.Pt
  count,    \* g_tS3C24xx_I2C.DataCount
  bus,      \* "idle", "address" or "data" (a byte is moving), "held"
  iicds,    \* IICDS
  ack,      \* IICCON[7], what the next byte received is answered with: "ack", "nack"
  regs,     \* the chip's registers
  ptr,      \* its address pointer
  expects,  \* what the next byte it is sent is: "pointer", "register"
  sda,      \* the data line in a read: "driven" by the chip, "free"
  last      \* history: {the date of the last successful set}, {} after a tick

callVars == <<rpc, dt, ret, last>>
xferVars == <<buf, mode, pt, count>>
busVars == <<bus, iicds, ack>>
chipVars == <<regs, ptr, expects, sda>>
vars == <<callVars, xferVars, busVars, chipVars>>
-----------------------------------------------------------------------------
(* m41t11.c: dates and registers *)

\* (x / 10 << 4) + x % 10 as a byte, with C's division of negative numbers.
ToBcd(x) ==
  IF x >= 0 THEN ((x \div 10) * 16 + (x % 10)) % 256
  ELSE (-(((-x) \div 10) * 16 + ((-x) % 10))) % 256
FromBcd(v) == (v % 16) + (v \div 16) * 10

LeapYear(y) == (y % 4 = 0 /\ y % 100 # 0) \/ y % 400 = 0
days_in_mo == <<31, 28, 31, 30, 31, 30, 31, 31, 30, 31, 30, 31>>
\* Mutant: no leap day.
DaysNoLeap(d) == days_in_mo[d.mon]
Days(d) == days_in_mo[d.mon] + (IF d.mon = 2 /\ LeapYear(d.year) THEN 1 ELSE 0)

\* What m41t11_set_datetime returns.
Status(d) ==
  CASE d.mon < 1 \/ d.mon > 12 \/ d.mday = 0        -> -1
    [] d.mday > Days(d)                             -> -2
    [] d.hour >= 24 \/ d.min >= 60 \/ d.sec >= 60   -> -3
    [] d.year - 2000 > 255                          -> -4
    [] OTHER                                        -> 0

\* tm_year -= epoch, and the century is dropped: in the caller's structure.
ChipYear(y) == IF y - 2000 >= 100 THEN y - 2100 ELSE y - 2000

\* Register i for a date whose year is already the chip's.
Encode(d, i) ==
  CASE i = 0 -> ToBcd(d.sec)  [] i = 1 -> ToBcd(d.min)  [] i = 2 -> ToBcd(d.hour)
    [] i = 3 -> ToBcd(d.wday) [] i = 4 -> ToBcd(d.mday) [] i = 5 -> ToBcd(d.mon)
    [] i = 6 -> ToBcd(d.year) [] OTHER -> 0

\* The masks of m41t11_get_datetime, and BCD_TO_BIN.
Decode(r) ==
  [sec |-> FromBcd(r[0] % 128), min |-> FromBcd(r[1] % 128), hour |-> FromBcd(r[2] % 64),
   wday |-> FromBcd(r[3] % 8), mday |-> FromBcd(r[4] % 64), mon |-> FromBcd(r[5] % 32),
   year |-> 2000 + FromBcd(r[6])]
-----------------------------------------------------------------------------
(* The program *)

\* The address goes out; n bytes are to follow.
Transfer(m, n, from) ==
  /\ mode' = m /\ count' = n /\ pt' = (IF m = "tx" THEN 0 ELSE -1)
  /\ buf' = from /\ bus' = "address" /\ UNCHANGED <<iicds, ack>>

\* A date is typed, or only its day: sscanf leaves the other fields as they were.
Enter(d, whole) ==
  /\ rpc = "menu" /\ rpc' = "set"
  /\ dt' = IF whole THEN d
           ELSE [dt EXCEPT !.year = d.year, !.mon = d.mon, !.mday = d.mday]
  /\ UNCHANGED <<ret, last, xferVars, busVars, chipVars>>

SetRejected ==
  /\ rpc = "set" /\ Status(dt) # 0 /\ rpc' = "menu"
  /\ ret' = Status(dt)
  /\ dt' = IF ret' = -4 THEN [dt EXCEPT !.year = @ - 2000] ELSE dt
  /\ UNCHANGED <<last, xferVars, busVars, chipVars>>

\* The pointer 0 and the eight registers, in one write of nine bytes.
Frame(d) == [i \in Registers |-> CASE i = 0 -> 0 [] i = 9 -> Beyond [] OTHER -> Encode(d, i - 1)]

SetAccepted ==
  /\ rpc = "set" /\ Status(dt) = 0 /\ rpc' = "wait_set"
  /\ ret' = 0 /\ last' = {dt}
  /\ dt' = [dt EXCEPT !.year = ChipYear(@)]
  /\ Transfer("tx", 9, Frame(dt'))
  /\ UNCHANGED chipVars

\* m41t11_get_datetime: the pointer first.
Get ==
  /\ rpc = "menu" /\ rpc' = "wait_addr"
  /\ Transfer("tx", 1, [i \in Registers |-> IF i = 0 THEN 0 ELSE Beyond])
  /\ UNCHANGED <<dt, ret, last, chipVars>>

\* Mutant: the loop ends when no byte is left to hand over.
TransferDoneAtZero == count <= 0 /\ bus # "address"

\* while (DataCount != -1)
TransferDone == count = -1

SetReturns ==
  /\ rpc = "wait_set" /\ TransferDone /\ rpc' = "menu"
  /\ UNCHANGED <<dt, ret, last, xferVars, busVars, chipVars>>

\* Then the eight registers.
GetReads ==
  /\ rpc = "wait_addr" /\ TransferDone /\ rpc' = "wait_get"
  /\ Transfer("rx", 8, [i \in Registers |-> IF i < 8 THEN 0 ELSE Beyond])
  /\ UNCHANGED <<dt, ret, last, chipVars>>

GetReturns ==
  /\ rpc = "wait_get" /\ TransferDone /\ rpc' = "menu"
  /\ dt' = Decode(buf)
  /\ UNCHANGED <<ret, last, xferVars, busVars, chipVars>>
-----------------------------------------------------------------------------
(* The controller and the chip *)

AddressShifted ==
  /\ bus = "address" /\ bus' = "held"
  /\ expects' = (IF mode = "tx" THEN "pointer" ELSE "register")
  /\ sda' = (IF mode = "rx" THEN "driven" ELSE "free")
  /\ UNCHANGED <<callVars, xferVars, iicds, ack, regs, ptr>>

Following(r) == IF r = 9 THEN 0 ELSE r + 1    \* the pointer advances by itself

ByteSent ==
  /\ bus = "data" /\ mode = "tx" /\ bus' = "held"
  /\ IF expects = "pointer" THEN ptr' = iicds /\ UNCHANGED regs
     ELSE regs' = [regs EXCEPT ![ptr] = iicds] /\ ptr' = Following(ptr)
  /\ expects' = "register"
  /\ UNCHANGED <<callVars, xferVars, iicds, ack, sda>>

\* A chip whose byte is not acknowledged lets the line go; it then reads as ones.
ByteReceived ==
  /\ bus = "data" /\ mode = "rx" /\ bus' = "held"
  /\ iicds' = (IF sda = "driven" THEN regs[ptr] ELSE 255)
  /\ ptr' = Following(ptr) /\ sda' = (IF ack = "ack" THEN sda ELSE "free")
  /\ UNCHANGED <<callVars, xferVars, ack, regs, expects>>

\* The clock runs while it is not addressed.
Tick ==
  /\ bus = "idle"
  /\ \E s \in Seconds : regs' = [regs EXCEPT ![0] = s]
  /\ last' = {}
  /\ UNCHANGED <<rpc, dt, ret, xferVars, busVars, ptr, expects, sda>>
-----------------------------------------------------------------------------
(* I2CIntHandle *)

Resume(answer) == bus' = "data" /\ ack' = answer

IsrSend ==
  /\ bus = "held" /\ mode = "tx" /\ count # 0
  /\ iicds' = buf[pt] /\ pt' = pt + 1 /\ count' = count - 1 /\ Resume("ack")
  /\ UNCHANGED <<callVars, buf, mode, chipVars>>

\* Mutant: the count is taken down before it is compared, and stays 0.
IsrSentPreDecrement ==
  /\ bus = "held" /\ mode = "tx" /\ count = 0
  /\ bus' = "idle" /\ ack' = "ack"
  /\ UNCHANGED <<callVars, buf, mode, pt, count, iicds, chipVars>>

\* All are out: STOP.
IsrSent ==
  /\ bus = "held" /\ mode = "tx" /\ count = 0
  /\ count' = -1 /\ bus' = "idle" /\ ack' = "ack"
  /\ UNCHANGED <<callVars, buf, mode, pt, iicds, chipVars>>

IsrReadStart ==
  /\ bus = "held" /\ mode = "rx" /\ pt = -1
  /\ pt' = 0 /\ Resume(IF count = 1 THEN "nack" ELSE "ack")
  /\ UNCHANGED <<callVars, buf, mode, count, iicds, chipVars>>

Store == buf' = [buf EXCEPT ![pt] = iicds] /\ pt' = pt + 1 /\ count' = count - 1

\* Mutant: every byte is acknowledged.
IsrStoreAckAll ==
  /\ bus = "held" /\ mode = "rx" /\ pt # -1 /\ count # 0
  /\ Store /\ Resume("ack")
  /\ UNCHANGED <<callVars, mode, iicds, chipVars>>

\* Mutant: the count is left alone.
IsrStoreUncounted ==
  /\ bus = "held" /\ mode = "rx" /\ pt # -1 /\ count # 0
  /\ buf' = [buf EXCEPT ![pt] = iicds] /\ pt' = pt + 1 /\ Resume("ack")
  /\ UNCHANGED <<callVars, mode, count, iicds, chipVars>>

IsrStore ==
  /\ bus = "held" /\ mode = "rx" /\ pt # -1 /\ count # 0
  /\ Store /\ Resume(IF count' = 0 THEN "nack" ELSE "ack")
  /\ UNCHANGED <<callVars, mode, iicds, chipVars>>

\* One byte more, and STOP.
IsrStoreLast ==
  /\ bus = "held" /\ mode = "rx" /\ pt # -1 /\ count = 0
  /\ Store /\ bus' = "idle" /\ ack' = "ack"
  /\ UNCHANGED <<callVars, mode, iicds, chipVars>>
-----------------------------------------------------------------------------
\* main's dt is not initialised; "Dates" is what its memory may look like.
Init ==
  /\ rpc = "menu" /\ dt \in Dates /\ ret = 0 /\ last = {}
  /\ buf = [i \in Registers |-> Beyond] /\ mode = "tx" /\ pt = 0 /\ count = -1
  /\ bus = "idle" /\ iicds = 0 /\ ack = "ack"
  /\ regs \in PowerOn /\ ptr = 0 /\ expects = "register" /\ sda = "free"

Menu == Get \/ \E d \in Dates, whole \in BOOLEAN : Enter(d, whole)
Program == SetRejected \/ SetAccepted \/ SetReturns \/ GetReads \/ GetReturns
Controller == AddressShifted \/ ByteSent \/ ByteReceived
Isr == IsrSend \/ IsrSent \/ IsrReadStart \/ IsrStore \/ IsrStoreLast

Next == Menu \/ Program \/ Controller \/ Isr \/ Tick

Spec == Init /\ [][Next]_vars

\* The program runs, the controller shifts, and the interrupt is served.
FairSpec == Spec /\ WF_vars(Program) /\ WF_vars(Controller) /\ WF_vars(Isr)
-----------------------------------------------------------------------------
\* Every variable has its type.
TypeOK ==
  /\ rpc \in {"menu", "set", "wait_set", "wait_addr", "wait_get"}
  /\ dt \in Date /\ ret \in -4..0 /\ last \in SUBSET Date
  /\ buf \in [Registers -> Byte \cup {Beyond}] /\ mode \in {"tx", "rx"}
  /\ pt \in -1..9 /\ count \in -1..9
  /\ bus \in {"idle", "address", "data", "held"} /\ iicds \in Byte /\ ack \in {"ack", "nack"}
  /\ regs \in [Registers -> Byte] /\ ptr \in Registers
  /\ expects \in {"pointer", "register"} /\ sda \in {"driven", "free"}

\* A date of this century that was set is read back as it was, however the
\* bytes, interrupts and polls of the two transfers fell, as long as the clock
\* did not tick; and in the registers it is from the moment set returns.
InCentury(d) == d.year \in 2000..2099 /\ d.wday \in 0..7
SetThenGet ==
  rpc \in {"menu", "set"} => \A d \in last : InCentury(d) => Decode(regs) = d
GetGivesRegisters ==
  [][GetReturns => \A d \in last : InCentury(d) => dt' = d]_vars

\* A transfer is over for the program only when it is over on the bus: no
\* interrupt is left to work on a buffer whose function has returned, and the
\* chip has let the data line go.
OverOnTheBus == rpc \in {"menu", "set"} => bus = "idle" /\ sda = "free"

\* A set that is refused has sent nothing; one that is accepted was a date.
DayExists(d) ==
  /\ d.mon \in 1..12 /\ d.mday >= 1 /\ d.hour < 24 /\ d.min < 60 /\ d.sec < 60
  /\ d.mday <= CASE d.mon \in {4, 6, 9, 11} -> 30
                 [] d.mon = 2 -> (IF LeapYear(d.year) THEN 29 ELSE 28)
                 [] OTHER -> 31
OnlyDatesAccepted ==
  [][rpc = "set" /\ rpc' # "set" => (ret' = 0) = (DayExists(dt) /\ dt.year <= 2255)]_vars

\* Set and get always come back to the menu.
ComesBack == rpc # "menu" ~> rpc = "menu"
=============================================================================
