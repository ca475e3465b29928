----------------------------- MODULE NandFlash -----------------------------
(* The NAND driver (nand_flash.c) and the flash chip behind it.  An operation *)
(* of the driver is a sequence of commands; after each the chip is busy for a *)
(* while with its array, and wait_ready polls NFSTAT until it is not.         *)
EXTENDS Integers

CONSTANTS
  PageSize,     \* data bytes of a page: 2048
  OobSize,      \* spare bytes of a page: 64
  BlockPages,   \* pages of a block: 64
  Pages,        \* pages of the chip
  Divisor,      \* what nand_read and nand_write divide the address by: 2018
  Stride,       \* bytes from buf[i] to buf[i + 1] in nand_write: sizeof(int)
  Byte,         \* the values of a byte
  Erased,       \* 0xff
  And(_, _),    \* bitwise and: programming only clears bits
  MaxLen,       \* bound on the len of a read or write
  Addrs, WriteAddrs,     \* the addresses given to reads and erases, to writes
  ReadLens, WriteLens, EraseLens    \* and the lengths

ASSUME NandAssumption ==
  /\ PageSize \in Nat \ {0} /\ BlockPages \in Nat \ {0} /\ Pages \in Nat \ {0}
  /\ Divisor \in Nat \ {0} /\ Stride \in Nat \ {0}
  /\ Divisor <= PageSize
  /\ OobSize \in Nat /\ MaxLen \in Nat
  /\ Addrs \subseteq Nat /\ WriteAddrs \subseteq Nat /\ EraseLens \subseteq Nat \ {0}
  /\ ReadLens \subseteq 0..MaxLen /\ WriteLens \subseteq 1..MaxLen
  /\ Pages % BlockPages = 0
  /\ Erased \in Byte /\ \A x, y \in Byte : And(x, y) \in Byte
  /\ \A x \in Byte : And(x, Erased) = x

VARIABLES
  cells,    \* the array: cells[page][column], spare columns after the data
  reg,      \* the chip's page register
  latch,    \* the command in progress, its row and column
  ready,    \* NFSTAT[0]: the chip is not busy
  select,   \* chip select, active
  pc,       \* where the driver is: "idle", "issue", "wait"
  op,       \* the function running, or the last one that ran
  addr, len, i, page, col,   \* its arguments and locals
  data,     \* nand_write: the bytes at buf
  mem,      \* nand_read: the memory from buf on
  ret,      \* what the last nand_erase returned
  before    \* history: cells and mem when the operation began

chipVars == <<cells, reg, latch, ready, select>>
driverVars == <<pc, op, addr, len, i, page, col, data, ret>>
nandVars == <<chipVars, driverVars, mem, before>>

Columns == 0..(PageSize + OobSize - 1)
Rows == 0..(Pages - 1)
BlockSize == BlockPages * PageSize
Indices == 0..(MaxLen - 1)
Blank == [j \in Indices |-> Erased]    \* stands for a buffer no one uses

\* Column and row as the chip takes them: rows past the last one wrap.
Latch(cmd) == [cmd |-> cmd, row |-> page % Pages, col |-> col]
-----------------------------------------------------------------------------
(* nand_read *)

\* buf is what the caller's buffer holds.
StartRead(a, n, buf) ==
  /\ pc = "idle"
  /\ op' = "read" /\ addr' = a /\ len' = n /\ i' = 0
  /\ page' = a \div Divisor /\ col' = a % PageSize
  /\ select' = TRUE /\ pc' = "issue"
  /\ data' = Blank /\ mem' = buf /\ before' = [cells |-> cells, mem |-> buf]
  /\ UNCHANGED <<cells, reg, latch, ready, ret>>

\* The loop test; commands 00h and 30h around the five address bytes.
IssueRead ==
  /\ pc = "issue" /\ op = "read" /\ i < len
  /\ latch' = Latch("read") /\ ready' = FALSE /\ pc' = "wait"
  /\ UNCHANGED <<cells, reg, select, op, addr, len, i, page, col, data, ret, mem, before>>

\* Mutant: the data are read without waiting for the chip.
TakePageNoWait ==
  /\ pc = "wait" /\ op = "read"
  /\ LET n == IF PageSize - col < len - i THEN PageSize - col ELSE len - i IN
     /\ mem' = [j \in DOMAIN mem |->
                  IF j \in i..(i + n - 1) THEN reg[col + j - i] ELSE mem[j]]
     /\ i' = i + n
  /\ pc' = "issue" /\ col' = 0 /\ page' = page + 1
  /\ UNCHANGED <<chipVars, op, addr, len, data, ret, before>>

\* Mutant: the next page is read from the column the last one ended at.
TakePageKeepCol ==
  /\ pc = "wait" /\ op = "read" /\ ready
  /\ LET n == IF PageSize - col < len - i THEN PageSize - col ELSE len - i IN
     /\ mem' = [j \in DOMAIN mem |->
                  IF j \in i..(i + n - 1) THEN reg[col + j - i] ELSE mem[j]]
     /\ i' = i + n
  /\ pc' = "issue" /\ page' = page + 1 /\ UNCHANGED col
  /\ UNCHANGED <<chipVars, op, addr, len, data, ret, before>>

\* Mutant: the loop runs to the end of the page whatever was asked for.
TakeWholePage ==
  /\ pc = "wait" /\ op = "read" /\ ready
  /\ LET n == PageSize - col IN
     /\ mem' = [j \in DOMAIN mem |->
                  IF j \in i..(i + n - 1) THEN reg[col + j - i] ELSE mem[j]]
     /\ i' = i + n
  /\ pc' = "issue" /\ col' = 0 /\ page' = page + 1
  /\ UNCHANGED <<chipVars, op, addr, len, data, ret, before>>

\* wait_ready, then the bytes to the end of the page or of the request; the
\* break at i == len leaves page and col to no one.
TakePage ==
  /\ pc = "wait" /\ op = "read" /\ ready
  /\ LET n == IF PageSize - col < len - i THEN PageSize - col ELSE len - i IN
     /\ mem' = [j \in DOMAIN mem |->
                  IF j \in i..(i + n - 1) THEN reg[col + j - i] ELSE mem[j]]
     /\ i' = i + n
  /\ pc' = "issue" /\ col' = 0 /\ page' = page + 1
  /\ UNCHANGED <<chipVars, op, addr, len, data, ret, before>>

EndRead ==
  /\ pc = "issue" /\ op = "read" /\ i >= len
  /\ select' = FALSE /\ pc' = "idle"
  /\ UNCHANGED <<cells, reg, latch, ready, op, addr, len, i, page, col, data, ret, mem, before>>
-----------------------------------------------------------------------------
(* nand_erase *)

\* Mutant: the length is not checked.
StartEraseAnyLen(a, n) ==
  /\ pc = "idle"
  /\ op' = "erase" /\ addr' = a /\ len' = n
  /\ IF a % BlockSize # 0
     THEN ret' = -1 /\ UNCHANGED <<select, pc>>
     ELSE select' = TRUE /\ pc' = "issue" /\ UNCHANGED ret
  /\ i' = 0 /\ page' = a \div PageSize /\ data' = Blank
  /\ mem' = Blank /\ before' = [cells |-> cells, mem |-> Blank]
  /\ UNCHANGED <<cells, reg, latch, ready, col>>

\* Addresses and lengths that are not whole blocks are refused.
StartErase(a, n) ==
  /\ pc = "idle"
  /\ op' = "erase" /\ addr' = a /\ len' = n
  /\ IF a % BlockSize # 0 \/ n % BlockSize # 0
     THEN ret' = -1 /\ UNCHANGED <<select, pc>>
     ELSE select' = TRUE /\ pc' = "issue" /\ UNCHANGED ret
  /\ i' = 0 /\ page' = a \div PageSize /\ data' = Blank
  /\ mem' = Blank /\ before' = [cells |-> cells, mem |-> Blank]
  /\ UNCHANGED <<cells, reg, latch, ready, col>>

\* Commands 60h and d0h around the three row bytes.
IssueErase ==
  /\ pc = "issue" /\ op = "erase"
  /\ latch' = Latch("erase") /\ ready' = FALSE /\ pc' = "wait"
  /\ UNCHANGED <<cells, reg, select, op, addr, len, i, page, col, data, ret, mem, before>>

\* wait_ready, and on to the next block while len lasts.  The model keeps len
\* and addr as given and counts the bytes erased in i.
EraseDone ==
  /\ pc = "wait" /\ op = "erase" /\ ready
  /\ i' = i + BlockSize
  /\ IF i' >= len
     THEN select' = FALSE /\ pc' = "idle" /\ ret' = 0 /\ UNCHANGED page
     ELSE pc' = "issue" /\ page' = (addr + i') \div PageSize /\ UNCHANGED <<select, ret>>
  /\ UNCHANGED <<cells, reg, latch, ready, op, addr, len, col, data, mem, before>>
-----------------------------------------------------------------------------
(* nand_write *)

\* do_write_nand_flash hands over a string of n bytes.
StartWrite(a, d, n) ==
  /\ pc = "idle"
  /\ op' = "write" /\ addr' = a /\ data' = d /\ len' = n /\ i' = 0
  /\ page' = a \div Divisor /\ col' = a % PageSize
  /\ select' = TRUE /\ pc' = "issue"
  /\ mem' = Blank /\ before' = [cells |-> cells, mem |-> Blank]
  /\ UNCHANGED <<cells, reg, latch, ready, ret>>

\* What nand_write may send as its j-th byte: buf[j] is the int at byte Stride * j
\* of the string; past its end the byte is whatever the stack holds.
Sent(j) == IF Stride * j < len THEN {data[Stride * j]} ELSE Byte

\* Mutant: the column is not sent.
IssueWriteColZero ==
  /\ pc = "issue" /\ op = "write"
  /\ \E sent \in [0..(len - 1) -> Byte] :
       /\ \A j \in 0..(len - 1) : sent[j] \in Sent(j)
       /\ reg' = [c \in Columns |-> IF c < len THEN sent[c] ELSE Erased]
  /\ latch' = [Latch("program") EXCEPT !.col = 0]
  /\ ready' = FALSE /\ i' = len /\ pc' = "wait"
  /\ UNCHANGED <<cells, select, op, addr, len, page, col, data, ret, mem, before>>

\* Command 80h, the address, the data, command 10h.  The data loop tests col but
\* never advances it, so all len bytes go out for this page; the chip drops what
\* comes after its last spare column.
IssueWrite ==
  /\ pc = "issue" /\ op = "write"
  /\ \E sent \in [0..(len - 1) -> Byte] :
       /\ \A j \in 0..(len - 1) : sent[j] \in Sent(j)
       /\ reg' = [c \in Columns |->
                    IF c \in col..(col + len - 1) THEN sent[c - col] ELSE Erased]
  /\ latch' = Latch("program") /\ ready' = FALSE /\ i' = len /\ pc' = "wait"
  /\ UNCHANGED <<cells, select, op, addr, len, page, col, data, ret, mem, before>>

\* wait_ready; i is len, so the loop ends.
WriteDone ==
  /\ pc = "wait" /\ op = "write" /\ ready
  /\ select' = FALSE /\ pc' = "idle"
  /\ UNCHANGED <<cells, reg, latch, ready, op, addr, len, i, page, col, data, ret, mem, before>>
-----------------------------------------------------------------------------
(* The chip at work *)

ChipReads ==
  /\ ~ready /\ latch.cmd = "read"
  /\ reg' = cells[latch.row] /\ ready' = TRUE
  /\ UNCHANGED <<cells, latch, select, driverVars, mem, before>>

ChipErases ==
  /\ ~ready /\ latch.cmd = "erase"
  /\ cells' = [r \in Rows |->
                 IF r \div BlockPages = latch.row \div BlockPages
                 THEN [c \in Columns |-> Erased] ELSE cells[r]]
  /\ ready' = TRUE
  /\ UNCHANGED <<reg, latch, select, driverVars, mem, before>>

ChipPrograms ==
  /\ ~ready /\ latch.cmd = "program"
  /\ cells' = [cells EXCEPT ![latch.row] =
                 [c \in Columns |-> And(cells[latch.row][c], reg[c])]]
  /\ ready' = TRUE
  /\ UNCHANGED <<reg, latch, select, driverVars, mem, before>>
-----------------------------------------------------------------------------
\* The chip may hold anything; nand_init has left it deselected.
NandInit ==
  /\ cells \in [Rows -> [Columns -> Byte]]
  /\ reg = [c \in Columns |-> Erased] /\ ready = TRUE /\ select = FALSE
  /\ latch = [cmd |-> "none", row |-> 0, col |-> 0]
  /\ pc = "idle" /\ op = "none" /\ addr = 0 /\ len = 0 /\ i = 0 /\ page = 0 /\ col = 0
  /\ data = Blank /\ ret = 0
  /\ mem \in [Indices -> Byte]
  /\ before = [cells |-> cells, mem |-> mem]

ReadStep == IssueRead \/ TakePage \/ EndRead
EraseStep == IssueErase \/ EraseDone
WriteStep == IssueWrite \/ WriteDone
DriverStep == ReadStep \/ EraseStep \/ WriteStep
Chip == ChipReads \/ ChipErases \/ ChipPrograms

\* The menu's buffer is on the stack: it holds anything, here one byte throughout.
Calls ==
  \/ \E a \in Addrs, n \in ReadLens, b \in Byte : StartRead(a, n, [j \in Indices |-> b])
  \/ \E a \in Addrs, n \in EraseLens : StartErase(a, n)
  \/ \E a \in WriteAddrs, d \in [Indices -> Byte], n \in WriteLens : StartWrite(a, d, n)

NandNext == Calls \/ DriverStep \/ Chip

NandSpec == NandInit /\ [][NandNext]_nandVars

-----------------------------------------------------------------------------
\* The byte at address p of the chip's data: page p / 2048, column p % 2048.
Main(c, p) == c[(p \div PageSize) % Pages][p % PageSize]

\* The page that nand_read and nand_write compute is the one address a is in.
SamePage(a) == a \div Divisor = a \div PageSize

\* Every variable has its type; columns stay within a page's data.
TypeOK ==
  /\ cells \in [Rows -> [Columns -> Byte]] /\ reg \in [Columns -> Byte]
  /\ latch \in [cmd : {"none", "read", "erase", "program"}, row : Rows, col : Nat]
  /\ ready \in BOOLEAN /\ select \in BOOLEAN
  /\ pc \in {"idle", "issue", "wait"} /\ op \in {"none", "read", "erase", "write"}
  /\ addr \in Nat /\ len \in Nat /\ i \in Nat /\ page \in Nat /\ col \in 0..(PageSize - 1)
  /\ data \in [Indices -> Byte] /\ ret \in {0, -1} /\ mem \in [Indices -> Byte]
  /\ before \in [cells : [Rows -> [Columns -> Byte]], mem : [Indices -> Byte]]
  /\ op \in {"read", "write"} => i <= len /\ len <= MaxLen

\* nand_read fills buf from the front with consecutive bytes of the data area,
\* over page boundaries, and writes nothing past byte i; when it returns, i is
\* len.  For addresses whose page comes out right, 0 among them.
ReadIsCopy ==
  op = "read" /\ SamePage(addr) =>
    /\ \A j \in Indices : mem[j] = IF j < i THEN Main(cells, addr + j) ELSE before.mem[j]
    /\ pc = "idle" => i = len

\* While the chip is busy the driver keeps it selected, sends it no command and
\* takes no data from it.
BusyChipIsLeftAlone ==
  [][~ready => UNCHANGED <<latch, mem>> /\ select /\ select']_nandVars

\* A whole erase clears the blocks of its range, spare bytes included, and no
\* other byte; a refused one clears nothing.
InRange(r) == \E p \in addr..(addr + len - 1) : (p \div PageSize) % Pages = r
EraseIsExact ==
  op = "erase" /\ pc = "idle" =>
    \A r \in Rows :
      cells[r] = IF ret = 0 /\ InRange(r) THEN [c \in Columns |-> Erased] ELSE before.cells[r]

\* A write changes no data byte outside its range (spare bytes are not data),
\* for addresses whose page comes out right.
WriteStaysInRange ==
  op = "write" /\ SamePage(addr) =>
    \A r \in Rows, c \in 0..(PageSize - 1) :
      cells[r][c] # before.cells[r][c] =>
        \E p \in addr..(addr + len - 1) : r = (p \div PageSize) % Pages /\ c = p % PageSize
=============================================================================
