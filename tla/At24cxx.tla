------------------------------ MODULE At24cxx ------------------------------
(* The EEPROM driver (i2c/at24cxx.c) on top of the I2C master driver, and    *)
(* the AT24Cxx chip as the slave.  at24cxx_write sends one two-byte message  *)
(* per byte of data; after each the chip is busy with its write cycle and    *)
(* does not acknowledge its address.  at24cxx_read sends the cell address    *)
(* and then a read message.                                                  *)
EXTENDS I2cMaster

CONSTANTS
  Values,   \* the bytes stored in cells
  Cells,    \* number of cells; cell addresses are sent modulo Cells (one byte)
  MaxLen,   \* bound on the len of a write, strlen(str) + 1
  ReadLens  \* the lens given to reads: any int, the menu checks none

ASSUME At24Assumption ==
  /\ Cells \in Nat \ {0} /\ MaxLen \in Nat
  /\ Values \cup 0..(Cells - 1) \subseteq Data
  /\ ReadLens \subseteq Int

VARIABLES
  op,       \* "none", "write", "read": the at24cxx function running
  addr,     \* its addr argument, as given
  data,     \* its data argument
  len,      \* its len argument
  k,        \* at24cxx_write: i
  pending,  \* i2c_transfer has been called and its result not yet taken
  result,   \* what the last at24cxx function returned
  cells,    \* the chip's memory
  busy,     \* the chip is in a write cycle
  pointer,  \* the chip's address counter: the cell a read gives next
  before    \* history: cells when the operation began

driverVars == <<op, addr, data, len, k, pending, result, before>>
chipVars == <<cells, busy, pointer>>
at24Vars == <<vars, driverVars, chipVars>>

\* A caller's buffer, as far as it is looked at: data[1] is even when len is 1.
Buffers == [{1} \cup 0..(MaxLen - 1) -> Values]
CellAddresses == 0..(Cells - 1)
WriteMessage(c, v) == <<[flag |-> 0, len |-> 2, buf |-> <<c, v>>]>>
ReadMessages(c, n) ==
  <<[flag |-> 0, len |-> 1, buf |-> <<c>>], [flag |-> 1, len |-> n, buf |-> <<>>]>>

\* Cell addr + j of the operation, as the chip sees it.
Target(j) == (addr + j) % Cells

\* What at24cxx_write sends for byte j of the string: data[1], whatever j is.
SentByte == data[1]
-----------------------------------------------------------------------------
(* at24cxx_write and at24cxx_read *)

Begin(o, ad, d, n) ==
  /\ op = "none" /\ bus = "idle"
  /\ op' = o /\ addr' = ad /\ data' = d /\ len' = n
  /\ k' = 0 /\ pending' = FALSE /\ before' = cells
  /\ UNCHANGED <<result, vars, chipVars>>

\* buf[0] = addr++, buf[1] = data[1], i2c_transfer(&msg, 1).
WriteByte ==
  /\ op = "write" /\ ~pending /\ k < len
  /\ Call(WriteMessage(Target(k), SentByte))
  /\ pending' = TRUE
  /\ UNCHANGED <<op, addr, data, len, k, result, before, chipVars>>

\* Mutant: an error does not end the loop.
WriteCheckIgnored ==
  /\ op = "write" /\ pending /\ mpc = "idle"
  /\ pending' = FALSE /\ k' = k + 1
  /\ UNCHANGED <<op, addr, data, len, result, before, vars, chipVars>>

\* if (err) return err, else the loop goes on.
WriteCheck ==
  /\ op = "write" /\ pending /\ mpc = "idle"
  /\ pending' = FALSE
  /\ IF ret # 0
     THEN op' = "none" /\ result' = ret /\ UNCHANGED k
     ELSE k' = k + 1 /\ UNCHANGED <<op, result>>
  /\ UNCHANGED <<addr, data, len, before, vars, chipVars>>

WriteEnd ==
  /\ op = "write" /\ ~pending /\ k >= len
  /\ op' = "none" /\ result' = 0
  /\ UNCHANGED <<addr, data, len, k, pending, before, vars, chipVars>>

\* i2c_transfer(msg, 2): the address of addr's first byte, then a read.
ReadStart ==
  /\ op = "read" /\ ~pending
  /\ Call(ReadMessages(Target(0), len))
  /\ pending' = TRUE
  /\ UNCHANGED <<op, addr, data, len, k, result, before, chipVars>>

ReadEnd ==
  /\ op = "read" /\ pending /\ mpc = "idle"
  /\ op' = "none" /\ pending' = FALSE /\ result' = ret
  /\ UNCHANGED <<addr, data, len, k, before, vars, chipVars>>
-----------------------------------------------------------------------------
(* The chip *)

\* It acknowledges its address unless it is writing.
ChipAddressed == AddressDone /\ acked' = ~busy /\ UNCHANGED <<driverVars, chipVars>>

\* What follows the STOP of a write: an address and a value begin the write
\* cycle, and leave the address counter in the same page; an address alone sets
\* the counter.
ChipStopped ==
  /\ IsrTxStop
  /\ IF Len(wire) = 2
     THEN /\ cells' = [cells EXCEPT ![wire[1]] = wire[2]] /\ busy' = TRUE
          /\ pointer' \in CellAddresses
     ELSE pointer' = wire[1] /\ UNCHANGED <<cells, busy>>
  /\ UNCHANGED driverVars

\* A read gives the cell at the counter, which moves on, from the last cell to
\* the first.
ChipSends ==
  /\ ByteIn /\ iicds' = cells[pointer]
  /\ pointer' = (pointer + 1) % Cells
  /\ UNCHANGED <<cells, busy, driverVars>>

WriteCycleDone ==
  /\ busy /\ busy' = FALSE
  /\ UNCHANGED <<cells, pointer, vars, driverVars>>
-----------------------------------------------------------------------------
At24Init ==
  /\ Init
  /\ op = "none" /\ addr = 0 /\ len = 0 /\ k = 0 /\ pending = FALSE /\ result = 0
  /\ data \in Buffers
  /\ cells \in [CellAddresses -> Values] /\ busy = FALSE /\ before = cells
  /\ pointer \in CellAddresses

\* The menu of i2c_test.c admits addresses up to and including the size.
Driver ==
  \/ \E ad \in 0..Cells, d \in Buffers, n \in 1..MaxLen : Begin("write", ad, d, n)
  \/ \E ad \in 0..Cells, n \in ReadLens : Begin("read", ad, data, n)
  \/ WriteByte \/ WriteCheck \/ WriteEnd \/ ReadStart \/ ReadEnd

\* The steps of the master that neither the driver nor the chip sees.
MasterStep ==
  /\ SetUp \/ Start \/ PollEnd \/ ByteOut
     \/ IsrNoAck \/ IsrTxNext \/ IsrRxFirst \/ IsrRxLater
  /\ UNCHANGED <<driverVars, chipVars>>

At24Next ==
  Driver \/ MasterStep \/ ChipAddressed \/ ChipStopped \/ ChipSends \/ WriteCycleDone

At24Spec == At24Init /\ [][At24Next]_at24Vars

\* The processor runs the driver's loop and the polling loop, the controller
\* shifts what it was given, and IRQ 27 is served.  Nothing makes the chip end
\* its write cycle.
Own(A) == A /\ UNCHANGED <<driverVars, chipVars>>
FairAt24Spec ==
  /\ At24Spec
  /\ WF_at24Vars(WriteByte \/ WriteCheck \/ WriteEnd)
  /\ WF_at24Vars(Own(SetUp \/ Start \/ PollEnd))
  /\ WF_at24Vars(ChipAddressed \/ Own(ByteOut))
  /\ WF_at24Vars(Own(IsrNoAck \/ IsrTxNext) \/ ChipStopped)
-----------------------------------------------------------------------------
\* The chip after n bytes of the write: the cells of the first n bytes hold what
\* was sent for them (not the bytes of the string, see SentByte), and all others
\* what they held when the write began.
Written(n) ==
  [c \in CellAddresses |->
     IF \E j \in 0..(n - 1) : c = Target(j) THEN SentByte ELSE before[c]]

\* A write that the chip refuses at byte k, because it is still writing byte
\* k - 1, has written the first k bytes and nothing else, across the end of the
\* chip too; while it runs, byte k may be there as well.  A read writes nothing.
OnlyPrefixWritten ==
  \/ cells = Written(k)
  \/ op = "write" /\ pending /\ cells = Written(k + 1)

\* What at24cxx_read has the chip send are the cells from addr on, wrapping at
\* the end of the chip: the receiving message never starts when the address
\* message before it was refused, or meets a chip at another cell.
ReadSeesItsCells ==
  mode = "rx" => \A i \in 1..Len(wire) : wire[i] = cells[Target(i - 1)]

\* at24cxx_write returns, whatever the chip refuses: no turn of its loop waits
\* for an interrupt that does not come.
WritesReturn == op = "write" ~> op = "none"
=============================================================================
