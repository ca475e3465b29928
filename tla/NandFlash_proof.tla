-------------------------- MODULE NandFlash_proof --------------------------
(* Proofs about nand_read for pages of any size, any chip and any request.   *)
EXTENDS NandFlash, TLAPS

\* Division with remainder: a position given by page and column.
LEMMA PageAndColumn ==
  ASSUME NEW n \in Nat \ {0}, NEW q \in Nat, NEW r \in 0..(n - 1)
  PROVE  (q * n + r) \div n = q /\ (q * n + r) % n = r
<1> DEFINE x == q * n + r
           d == x \div n
           m == x % n
<1>1. x \in Nat /\ d \in Nat /\ m \in 0..(n - 1) /\ x = d * n + m
  OBVIOUS
<1>2. d = q
  <2>1. CASE d >= q + 1
    <3>1. d * n >= (q + 1) * n
      BY <1>1, <2>1
    <3>2. (q + 1) * n = q * n + n
      OBVIOUS
    <3>3. QED
      BY <1>1, <3>1, <3>2
  <2>2. CASE q >= d + 1
    <3>1. q * n >= (d + 1) * n
      BY <1>1, <2>2
    <3>2. (d + 1) * n = d * n + n
      BY <1>1
    <3>3. QED
      BY <1>1, <3>1, <3>2
  <2>3. QED
    BY <1>1, <2>1, <2>2
<1>3. m = r
  BY <1>1, <1>2
<1>4. QED
  BY <1>2, <1>3

LEMMA Divides ==
  ASSUME NEW n \in Nat \ {0}, NEW a \in Nat
  PROVE  /\ a \div n \in Nat /\ a % n \in 0..(n - 1)
         /\ (a \div n) * n + (a % n) = a
<1>1. a \div n \in Nat
  OBVIOUS
<1>2. a % n \in 0..(n - 1)
  OBVIOUS
<1>3. a = (a \div n) * n + (a % n)
  OBVIOUS
<1>4. QED
  BY <1>1, <1>2, <1>3

\* What the driver and the chip are doing at any moment: the chip is busy only
\* while the driver waits, and then with the driver's own command; after a read
\* command its register holds the page; outside the wait it is ready.
Handshake ==
  /\ pc # "wait" => ready
  /\ pc = "wait" => latch.cmd = IF op = "write" THEN "program" ELSE op
  /\ pc # "idle" => op \in {"read", "write", "erase"}
  /\ pc # "idle" => select
  /\ pc = "wait" /\ op = "read" =>
       /\ latch.row = page % Pages
       /\ ready => reg = cells[page % Pages]
       /\ i < len

\* Where nand_read is: page and column are those of byte addr + i.
Position ==
  op = "read" /\ SamePage(addr) /\ i < len => page * PageSize + col = addr + i

ReadInv == Handshake /\ Position /\ ReadIsCopy

\* Rows and columns as the constants bound them.
LEMMA Geometry ==
  /\ \A p \in Nat : p % Pages \in Rows /\ p % PageSize \in 0..(PageSize - 1)
                    /\ p \div PageSize \in Nat /\ p \div Divisor \in Nat
  /\ 0 \in Rows /\ 0..(PageSize - 1) \subseteq Columns
<1>1. \A p \in Nat : p % Pages \in 0..(Pages - 1)
  BY Divides, NandAssumption
<1>2. \A p \in Nat : p % PageSize \in 0..(PageSize - 1) /\ p \div PageSize \in Nat
  BY Divides, NandAssumption
<1>3. \A p \in Nat : p \div Divisor \in Nat
  BY Divides, NandAssumption
<1>4. Pages \in Nat \ {0} /\ PageSize \in Nat \ {0} /\ OobSize \in Nat
  BY NandAssumption
<1>5. 0 \in Rows /\ 0..(PageSize - 1) \subseteq Columns
  BY <1>4 DEF Rows, Columns
<1>6. QED
  BY <1>1, <1>2, <1>3, <1>5 DEF Rows

\* The byte at a position.
LEMMA MainAt ==
  ASSUME NEW c, NEW p \in Nat, NEW k \in 0..(PageSize - 1)
  PROVE  Main(c, p * PageSize + k) = c[p % Pages][k]
BY PageAndColumn, NandAssumption DEF Main

LEMMA InitInv == NandInit => TypeOK /\ ReadInv
<1> SUFFICES ASSUME NandInit PROVE TypeOK /\ ReadInv
  OBVIOUS
<1>1. Blank \in [Indices -> Byte] /\ [c \in Columns |-> Erased] \in [Columns -> Byte]
  BY NandAssumption DEF Blank
<1>2. 0 \in 0..(PageSize - 1) /\ 0 \in Rows
  BY Geometry, NandAssumption
<1>3. TypeOK
  <2>1. op = "none" /\ before = [cells |-> cells, mem |-> mem]
    BY DEF NandInit
  <2>2. before \in [cells : [Rows -> [Columns -> Byte]], mem : [Indices -> Byte]]
    BY <2>1 DEF NandInit
  <2>3. latch \in [cmd : {"none", "read", "erase", "program"}, row : Rows, col : Nat]
    BY <1>2 DEF NandInit
  <2>4. QED
    BY <1>1, <1>2, <2>1, <2>2, <2>3 DEF NandInit, TypeOK
<1>4. ReadInv
  BY DEF NandInit, ReadInv, Handshake, Position, ReadIsCopy
<1>5. QED
  BY <1>3, <1>4

LEMMA StartReadInv ==
  ASSUME TypeOK, Handshake, NEW a \in Nat, NEW n \in 0..MaxLen, NEW buf \in [Indices -> Byte],
         StartRead(a, n, buf)
  PROVE  TypeOK' /\ ReadInv'
<1>1. TypeOK'
  <2>1. Blank \in [Indices -> Byte]
    BY NandAssumption DEF Blank
  <2>2. a \div Divisor \in Nat /\ a % PageSize \in 0..(PageSize - 1)
    BY Geometry, NandAssumption
  <2>3. n \in Nat /\ n <= MaxLen
    BY NandAssumption
  <2>4. QED
    BY <2>1, <2>2, <2>3 DEF StartRead, TypeOK
<1>2. Handshake'
  BY DEF StartRead, Handshake
<1>3. Position'
  <2>1. a \div Divisor = a \div PageSize => (a \div Divisor) * PageSize + (a % PageSize) = a
    BY Divides, NandAssumption
  <2>2. QED
    BY <2>1 DEF StartRead, Position, SamePage
<1>4. ReadIsCopy'
  <2>1. \A j \in Indices : mem'[j] = before'.mem[j] /\ ~(j < 0)
    BY NandAssumption DEF StartRead, Indices
  <2>2. QED
    BY <2>1 DEF StartRead, ReadIsCopy
<1>5. QED
  BY <1>1, <1>2, <1>3, <1>4 DEF ReadInv

LEMMA IssueReadInv == ASSUME TypeOK, ReadInv, IssueRead PROVE TypeOK' /\ ReadInv'
<1>1. page % Pages \in Rows
  BY Geometry DEF TypeOK
<1>2. TypeOK'
  <2>1. latch' \in [cmd : {"none", "read", "erase", "program"}, row : Rows, col : Nat]
    BY <1>1, NandAssumption DEF IssueRead, TypeOK, Latch
  <2>2. QED
    BY <2>1 DEF IssueRead, TypeOK
<1>3. ReadInv'
  BY DEF IssueRead, Latch, ReadInv, Handshake, Position, ReadIsCopy, SamePage
<1>4. QED
  BY <1>2, <1>3

LEMMA TakePageInv == ASSUME TypeOK, ReadInv, TakePage PROVE TypeOK' /\ ReadInv'
<1> DEFINE n == IF PageSize - col < len - i THEN PageSize - col ELSE len - i
<1>1. /\ addr \in Nat /\ len \in Nat /\ i \in Nat /\ page \in Nat /\ col \in Nat
      /\ n \in Nat /\ i + n \in Nat /\ i < len /\ i' = i + n
      /\ col + n <= PageSize /\ i + n <= len /\ len <= MaxLen
      /\ i + n < len => col + n = PageSize
      /\ PageSize \in Nat \ {0} /\ MaxLen \in Nat
  <2>1. /\ addr \in Nat /\ len \in Nat /\ i \in Nat /\ page \in Nat
        /\ col \in Nat /\ col < PageSize /\ i < len /\ len <= MaxLen
        /\ PageSize \in Nat \ {0} /\ MaxLen \in Nat
    BY NandAssumption DEF TakePage, TypeOK, ReadInv, Handshake
  <2>2. i' = i + n
    BY DEF TakePage
  <2>3. QED
    BY <2>1, <2>2
<1>2. mem' = [j \in Indices |-> IF j \in i..(i + n - 1) THEN reg[col + j - i] ELSE mem[j]]
  BY DEF TakePage, TypeOK
<1>3. \A j \in i..(i + n - 1) : col + j - i \in 0..(PageSize - 1)
  BY <1>1
<1>4. mem' \in [Indices -> Byte]
  <2>1. \A j \in i..(i + n - 1) : reg[col + j - i] \in Byte
    BY <1>3, Geometry DEF TypeOK
  <2>2. QED
    BY <1>2, <2>1 DEF TypeOK
<1>5. TypeOK'
  BY <1>1, <1>4 DEF TakePage, TypeOK, chipVars
<1>6. Handshake'
  BY DEF TakePage, chipVars, ReadInv, Handshake
<1>7. Position'
  <2> SUFFICES ASSUME SamePage(addr), i + n < len
               PROVE  (page + 1) * PageSize + 0 = addr + (i + n)
    BY <1>1 DEF TakePage, Position, SamePage
  <2>1. page * PageSize + col = addr + i /\ col + n = PageSize
    BY <1>1 DEF TakePage, ReadInv, Position
  <2>2. (page + 1) * PageSize = page * PageSize + PageSize /\ page * PageSize \in Nat
    BY <1>1
  <2>3. page * PageSize + PageSize = addr + (i + n)
    BY <1>1, <2>1, <2>2
  <2>4. QED
    BY <1>1, <2>2, <2>3
<1>8. ReadIsCopy'
  <2> SUFFICES ASSUME SamePage(addr), NEW j \in Indices
               PROVE  mem'[j] = IF j < i + n THEN Main(cells, addr + j) ELSE before.mem[j]
    BY <1>1 DEF TakePage, ReadIsCopy, SamePage, chipVars
  <2>1. mem[j] = IF j < i THEN Main(cells, addr + j) ELSE before.mem[j]
    BY DEF TakePage, ReadInv, ReadIsCopy
  <2>2. j \in Nat
    BY <1>1 DEF Indices
  <2>3. CASE j \in i..(i + n - 1)
    <3>1. addr + j = page * PageSize + (col + j - i)
      <4>1. page * PageSize \in Nat /\ page * PageSize + col = addr + i
        BY <1>1 DEF TakePage, ReadInv, Position
      <4>2. QED
        BY <1>1, <2>2, <4>1
    <3>2. Main(cells, addr + j) = cells[page % Pages][col + j - i]
      BY <1>1, <1>3, <2>3, <3>1, MainAt
    <3>3. reg = cells[page % Pages]
      BY DEF TakePage, ReadInv, Handshake
    <3>4. QED
      BY <1>1, <1>2, <2>2, <2>3, <3>2, <3>3
  <2>4. CASE j \notin i..(i + n - 1)
    BY <1>1, <1>2, <2>1, <2>2, <2>4
  <2>5. QED
    BY <2>3, <2>4
<1>9. QED
  BY <1>5, <1>6, <1>7, <1>8 DEF ReadInv

LEMMA EndReadInv == ASSUME TypeOK, ReadInv, EndRead PROVE TypeOK' /\ ReadInv'
<1>1. i = len
  <2>1. i \in Nat /\ len \in Nat /\ i <= len /\ i >= len
    BY DEF EndRead, TypeOK
  <2>2. QED
    BY <2>1
<1>2. TypeOK'
  BY DEF EndRead, TypeOK
<1>3. Handshake' /\ Position'
  BY <1>1 DEF EndRead, ReadInv, Handshake, Position, SamePage
<1>4. ReadIsCopy'
  BY <1>1 DEF EndRead, ReadInv, ReadIsCopy, SamePage
<1>5. QED
  BY <1>2, <1>3, <1>4 DEF ReadInv

\* Starting an erase or a write, and finishing one.
LEMMA OtherStepsInv ==
  ASSUME TypeOK, ReadInv,
         \/ \E a \in Addrs, n \in EraseLens : StartErase(a, n)
         \/ \E a \in WriteAddrs, d \in [Indices -> Byte], n \in WriteLens : StartWrite(a, d, n)
         \/ EraseDone \/ WriteDone
  PROVE  TypeOK' /\ ReadInv'
<1>1. Blank \in [Indices -> Byte] /\ MaxLen \in Nat
  BY NandAssumption DEF Blank
<1>2. ASSUME NEW a \in Addrs, NEW n \in EraseLens, StartErase(a, n) PROVE TypeOK' /\ ReadInv'
  <2>1. a \in Nat /\ n \in Nat /\ a \div PageSize \in Nat
    BY Geometry, NandAssumption
  <2>2. before' \in [cells : [Rows -> [Columns -> Byte]], mem : [Indices -> Byte]]
    BY <1>1, <1>2 DEF StartErase, TypeOK
  <2>3. TypeOK'
    BY <1>1, <1>2, <2>1, <2>2 DEF StartErase, TypeOK
  <2>4. ReadInv'
    BY <1>2 DEF StartErase, ReadInv, Handshake, Position, ReadIsCopy
  <2>5. QED
    BY <2>3, <2>4
<1>3. ASSUME NEW a \in WriteAddrs, NEW d \in [Indices -> Byte], NEW n \in WriteLens,
             StartWrite(a, d, n)
      PROVE  TypeOK' /\ ReadInv'
  <2>1. a \in Nat /\ n \in 1..MaxLen
    BY NandAssumption
  <2>2. n \in Nat /\ n <= MaxLen /\ a \div Divisor \in Nat /\ a % PageSize \in 0..(PageSize - 1)
    BY <1>1, <2>1, Geometry
  <2>3. before' \in [cells : [Rows -> [Columns -> Byte]], mem : [Indices -> Byte]]
    BY <1>1, <1>3 DEF StartWrite, TypeOK
  <2>4. TypeOK'
    BY <1>1, <1>3, <2>1, <2>2, <2>3 DEF StartWrite, TypeOK
  <2>5. ReadInv'
    BY <1>3 DEF StartWrite, ReadInv, Handshake, Position, ReadIsCopy
  <2>6. QED
    BY <2>4, <2>5
<1>4. CASE EraseDone
  <2>1. BlockSize \in Nat
    BY NandAssumption DEF BlockSize
  <2>2. i' \in Nat /\ (addr + i') \in Nat
    BY <1>4, <2>1 DEF EraseDone, TypeOK
  <2>3. (addr + i') \div PageSize \in Nat
    BY <2>2, Geometry
  <2>4. TypeOK'
    BY <1>4, <2>2, <2>3 DEF EraseDone, TypeOK
  <2>5. ReadInv'
    BY <1>4 DEF EraseDone, ReadInv, Handshake, Position, ReadIsCopy
  <2>6. QED
    BY <2>4, <2>5
<1>5. CASE WriteDone
  <2>1. TypeOK'
    BY <1>5 DEF WriteDone, TypeOK
  <2>2. ReadInv'
    BY <1>5 DEF WriteDone, ReadInv, Handshake, Position, ReadIsCopy
  <2>3. QED
    BY <2>1, <2>2
<1>6. QED
  BY <1>2, <1>3, <1>4, <1>5

\* Commands other than the read.
LEMMA IssueInv == ASSUME TypeOK, ReadInv, IssueErase \/ IssueWrite PROVE TypeOK' /\ ReadInv'
<1>1. page % Pages \in Rows /\ col \in Nat
  <2>1. page \in Nat /\ col \in 0..(PageSize - 1) /\ PageSize \in Nat
    BY NandAssumption DEF TypeOK
  <2>2. QED
    BY <2>1, Geometry
<1>2. latch' \in [cmd : {"none", "read", "erase", "program"}, row : Rows, col : Nat]
  BY <1>1 DEF IssueErase, IssueWrite, Latch
<1>3. CASE IssueErase
  <2>1. TypeOK'
    BY <1>2, <1>3 DEF IssueErase, TypeOK
  <2>2. ReadInv'
    BY <1>3 DEF IssueErase, Latch, ReadInv, Handshake, Position, ReadIsCopy
  <2>3. QED
    BY <2>1, <2>2
<1>4. CASE IssueWrite
  <2>1. reg' \in [Columns -> Byte]
    <3>1. PICK sent \in [0..(len - 1) -> Byte] :
            reg' = [c \in Columns |->
                      IF c \in col..(col + len - 1) THEN sent[c - col] ELSE Erased]
      BY <1>4 DEF IssueWrite
    <3>2. len \in Nat /\ col \in Nat
      BY <1>1 DEF TypeOK
    <3>3. \A c \in col..(col + len - 1) : c - col \in 0..(len - 1)
      BY <3>2
    <3>4. QED
      BY <3>1, <3>3, NandAssumption
  <2>2. TypeOK'
    <3>1. /\ i' = len /\ pc' = "wait" /\ ready' = FALSE
          /\ UNCHANGED <<cells, select, op, addr, len, page, col, data, ret, mem, before>>
      BY <1>4 DEF IssueWrite
    <3>2. len \in Nat /\ len <= len /\ (op \in {"read", "write"} => len <= MaxLen)
      BY DEF TypeOK
    <3>3. QED
      BY <1>2, <2>1, <3>1, <3>2 DEF TypeOK
  <2>3. ReadInv'
    BY <1>4 DEF IssueWrite, Latch, ReadInv, Handshake, Position, ReadIsCopy
  <2>4. QED
    BY <2>2, <2>3
<1>5. QED
  BY <1>3, <1>4

\* The chip at work: only an erase or a write changes the array.
LEMMA ChipInv == ASSUME TypeOK, ReadInv, Chip PROVE TypeOK' /\ ReadInv'
<1>1. CASE ChipReads
  <2>1. TypeOK'
    BY <1>1 DEF ChipReads, TypeOK, driverVars
  <2>2. ReadInv'
    BY <1>1 DEF ChipReads, ReadInv, Handshake, Position, ReadIsCopy, SamePage, driverVars
  <2>3. QED
    BY <2>1, <2>2
<1>2. CASE ChipErases
  <2>1. cells' \in [Rows -> [Columns -> Byte]]
    <3>1. [c \in Columns |-> Erased] \in [Columns -> Byte]
      BY NandAssumption
    <3>2. QED
      BY <1>2, <3>1 DEF ChipErases, TypeOK
  <2>2. TypeOK'
    BY <1>2, <2>1 DEF ChipErases, TypeOK, driverVars
  <2>3. op = "erase"
    BY <1>2 DEF ChipErases, ReadInv, Handshake
  <2>4. ReadInv'
    BY <1>2, <2>3 DEF ChipErases, ReadInv, Handshake, Position, ReadIsCopy, driverVars
  <2>5. QED
    BY <2>2, <2>4
<1>3. CASE ChipPrograms
  <2>1. cells' \in [Rows -> [Columns -> Byte]]
    <3>1. latch.row \in Rows
      BY DEF TypeOK
    <3>2. [c \in Columns |-> And(cells[latch.row][c], reg[c])] \in [Columns -> Byte]
      BY <3>1, NandAssumption DEF TypeOK
    <3>3. QED
      BY <1>3, <3>2 DEF ChipPrograms, TypeOK
  <2>2. TypeOK'
    BY <1>3, <2>1 DEF ChipPrograms, TypeOK, driverVars
  <2>3. op = "write"
    BY <1>3 DEF ChipPrograms, ReadInv, Handshake
  <2>4. ReadInv'
    BY <1>3, <2>3 DEF ChipPrograms, ReadInv, Handshake, Position, ReadIsCopy, driverVars
  <2>5. QED
    BY <2>2, <2>4
<1>4. QED
  BY <1>1, <1>2, <1>3 DEF Chip

\* Types, the handshake of driver and chip, and where nand_read is.
THEOREM NandInductive == NandSpec => [](TypeOK /\ ReadInv)
<1>1. TypeOK /\ ReadInv /\ [NandNext]_nandVars => TypeOK' /\ ReadInv'
  <2> SUFFICES ASSUME TypeOK, ReadInv, [NandNext]_nandVars PROVE TypeOK' /\ ReadInv'
    OBVIOUS
  <2>1. ASSUME NEW a \in Addrs, NEW n \in ReadLens, NEW b \in Byte,
               StartRead(a, n, [j \in Indices |-> b])
        PROVE  TypeOK' /\ ReadInv'
    <3>1. a \in Nat /\ n \in 0..MaxLen /\ [j \in Indices |-> b] \in [Indices -> Byte]
      BY NandAssumption
    <3>2. QED
      BY <2>1, <3>1, StartReadInv DEF ReadInv
  <2>2. CASE ReadStep
    BY <2>2, IssueReadInv, TakePageInv, EndReadInv DEF ReadStep
  <2>3. CASE EraseStep \/ WriteStep
    BY <2>3, OtherStepsInv, IssueInv DEF EraseStep, WriteStep
  <2>4. CASE Chip
    BY <2>4, ChipInv
  <2>5. CASE UNCHANGED nandVars
    <3>1. TypeOK'
      BY <2>5 DEF nandVars, chipVars, driverVars, TypeOK
    <3>2. ReadInv'
      BY <2>5 DEF nandVars, chipVars, driverVars, ReadInv, Handshake, Position, ReadIsCopy,
         SamePage
    <3>3. QED
      BY <3>1, <3>2
  <2>6. QED
    BY <2>1, <2>2, <2>3, <2>4, <2>5, OtherStepsInv DEF NandNext, Calls, DriverStep
<1>2. QED
  BY <1>1, InitInv, PTL DEF NandSpec

\* nand_read copies: page after page, buf fills with consecutive data bytes, and
\* nothing past byte i is written.
THEOREM NandReadCopies == NandSpec => []ReadIsCopy
<1>1. ReadInv => ReadIsCopy
  BY DEF ReadInv
<1>2. QED
  BY <1>1, NandInductive, PTL

\* Between a command and the end of wait_ready the driver leaves the chip alone.
THEOREM NandBusyAlone == NandSpec => BusyChipIsLeftAlone
<1>1. TypeOK /\ ReadInv /\ [NandNext]_nandVars =>
        [~ready => UNCHANGED <<latch, mem>> /\ select /\ select']_nandVars
  <2> SUFFICES ASSUME ReadInv, NandNext, ~ready
               PROVE  UNCHANGED <<latch, mem>> /\ select /\ select'
    OBVIOUS
  <2>1. pc = "wait" /\ select
    BY DEF ReadInv, Handshake
  <2>2. ~Calls /\ ~DriverStep
    BY <2>1 DEF Calls, StartRead, StartErase, StartWrite, DriverStep, ReadStep, IssueRead,
       TakePage, EndRead, EraseStep, IssueErase, EraseDone, WriteStep, IssueWrite, WriteDone
  <2>3. Chip
    BY <2>2 DEF NandNext
  <2>4. QED
    BY <2>1, <2>3 DEF Chip, ChipReads, ChipErases, ChipPrograms
<1>2. QED
  BY <1>1, NandInductive, PTL DEF NandSpec, BusyChipIsLeftAlone
-----------------------------------------------------------------------------
(* nand_write *)

\* Until the chip has programmed, the array is as it was; outside the bytes sent
\* the register is erased, so that programming leaves those cells alone.
WriteInv ==
  op = "write" =>
    /\ page = addr \div Divisor /\ col = addr % PageSize
    /\ pc = "issue" \/ (pc = "wait" /\ ~ready) => cells = before.cells
    /\ pc = "wait" =>
         /\ latch.row = page % Pages
         /\ \A c \in Columns : c \notin col..(col + len - 1) => reg[c] = Erased
    /\ WriteStaysInRange

\* A data column of the page, at or after the first byte, is in the range.
LEMMA ColumnInRange ==
  ASSUME NEW a \in Nat, NEW n \in Nat, NEW c \in 0..(PageSize - 1),
         c \in (a % PageSize)..((a % PageSize) + n - 1)
  PROVE  \E p \in a..(a + n - 1) :
           (a \div PageSize) % Pages = (p \div PageSize) % Pages /\ c = p % PageSize
<1> DEFINE q == a \div PageSize
           d == a % PageSize
           x == q * PageSize
           p == x + c
<1>1. /\ q \in Nat /\ d \in 0..(PageSize - 1) /\ x + d = a /\ PageSize \in Nat \ {0}
      /\ x \in Nat
  <2>1. PageSize \in Nat \ {0}
    BY NandAssumption
  <2>2. q \in Nat /\ d \in 0..(PageSize - 1) /\ x + d = a
    BY <2>1, Divides
  <2>3. QED
    BY <2>1, <2>2
<1>2. p \div PageSize = q /\ p % PageSize = c
  BY <1>1, PageAndColumn
<1>3. p \in a..(a + n - 1)
  <2> HIDE DEF x, d
  <2>1. d \in Nat /\ c \in Nat /\ c >= d /\ c <= d + n - 1
    BY <1>1 DEF d
  <2>2. QED
    BY <1>1, <2>1
<1> HIDE DEF q, p
<1>4. QED
  BY <1>2, <1>3 DEF q

LEMMA ProgramInRange ==
  ASSUME TypeOK, ReadInv, WriteInv, ChipPrograms PROVE WriteInv'
<1>1. op = "write" /\ pc = "wait" /\ ~ready
  BY DEF ChipPrograms, ReadInv, Handshake
<1>2. UNCHANGED <<op, pc, addr, len, page, col, latch, reg, before>>
  BY DEF ChipPrograms, driverVars
<1>3. /\ page = addr \div Divisor /\ col = addr % PageSize /\ cells = before.cells
      /\ latch.row = page % Pages
      /\ \A c \in Columns : c \notin col..(col + len - 1) => reg[c] = Erased
  BY <1>1 DEF WriteInv
<1>4. ready' = TRUE
  BY DEF ChipPrograms
<1>5. WriteStaysInRange'
  <2> SUFFICES ASSUME SamePage(addr), NEW r \in Rows, NEW c \in 0..(PageSize - 1),
                      cells'[r][c] # before.cells[r][c]
               PROVE  \E p \in addr..(addr + len - 1) :
                        r = (p \div PageSize) % Pages /\ c = p % PageSize
    BY <1>2 DEF WriteStaysInRange, SamePage
  <2>1. c \in Columns /\ latch.row \in Rows /\ addr \in Nat /\ len \in Nat
    BY Geometry DEF TypeOK
  <2>2. cells' = [cells EXCEPT ![latch.row] =
                    [x \in Columns |-> And(cells[latch.row][x], reg[x])]]
    BY DEF ChipPrograms
  <2>3. r = latch.row /\ cells'[r][c] = And(cells[r][c], reg[c])
    BY <1>3, <2>1, <2>2 DEF TypeOK
  <2>4. c \in col..(col + len - 1)
    <3>1. cells[r][c] \in Byte /\ And(cells[r][c], Erased) = cells[r][c]
      BY <2>1, NandAssumption DEF TypeOK
    <3>2. QED
      BY <1>3, <2>1, <2>3, <3>1
  <2>5. r = (addr \div PageSize) % Pages
    BY <1>3, <2>3 DEF SamePage
  <2>6. QED
    BY <1>3, <2>1, <2>4, <2>5, ColumnInRange
<1>6. QED
  BY <1>1, <1>2, <1>3, <1>4, <1>5 DEF WriteInv

LEMMA WriteStepInv == ASSUME TypeOK, ReadInv, WriteInv, NandNext PROVE WriteInv'
<1>1. ASSUME NEW a \in WriteAddrs, NEW d \in [Indices -> Byte], NEW n \in WriteLens,
             StartWrite(a, d, n)
      PROVE  WriteInv'
  <2>1. WriteStaysInRange'
    BY <1>1 DEF StartWrite, WriteStaysInRange
  <2>2. QED
    BY <1>1, <2>1 DEF StartWrite, WriteInv
<1>2. CASE IssueWrite
  <2>1. PICK sent \in [0..(len - 1) -> Byte] :
          reg' = [c \in Columns |-> IF c \in col..(col + len - 1) THEN sent[c - col] ELSE Erased]
    BY <1>2 DEF IssueWrite
  <2>2. WriteStaysInRange'
    BY <1>2 DEF IssueWrite, WriteInv, WriteStaysInRange, SamePage
  <2>3. latch'.row = page % Pages
    BY <1>2 DEF IssueWrite, Latch
  <2>4. QED
    BY <1>2, <2>1, <2>2, <2>3 DEF IssueWrite, WriteInv
<1>3. CASE WriteDone
  BY <1>3 DEF WriteDone, WriteInv, WriteStaysInRange, SamePage
<1>4. CASE ChipPrograms
  BY <1>4, ProgramInRange
<1>5. CASE op' # "write"
  BY <1>5 DEF WriteInv
<1>6. QED
  <2>1. ASSUME Chip, ~ChipPrograms PROVE op' # "write"
    BY <2>1 DEF Chip, ChipReads, ChipErases, driverVars, ReadInv, Handshake
  <2>2. ASSUME DriverStep, ~IssueWrite, ~WriteDone PROVE op' # "write"
    BY <2>2 DEF DriverStep, ReadStep, EraseStep, WriteStep, IssueRead, TakePage, EndRead,
       IssueErase, EraseDone
  <2>3. ASSUME NEW a, NEW n, NEW buf, StartRead(a, n, buf) \/ StartErase(a, n)
        PROVE  op' # "write"
    BY <2>3 DEF StartRead, StartErase
  <2>4. QED
    BY <1>1, <1>2, <1>3, <1>4, <1>5, <2>1, <2>2, <2>3 DEF NandNext, Calls

\* A write changes no data byte outside its range, for every address whose page
\* comes out right.
THEOREM NandWritesInRange == NandSpec => []WriteStaysInRange
<1>1. NandInit => WriteInv
  BY DEF NandInit, WriteInv
<1>2. TypeOK /\ ReadInv /\ WriteInv /\ [NandNext]_nandVars => WriteInv'
  <2>1. ASSUME WriteInv, UNCHANGED nandVars PROVE WriteInv'
    BY <2>1 DEF nandVars, chipVars, driverVars, WriteInv, WriteStaysInRange, SamePage
  <2>2. QED
    BY <2>1, WriteStepInv
<1>3. WriteInv => WriteStaysInRange
  BY DEF WriteInv, WriteStaysInRange
<1>4. QED
  BY <1>1, <1>2, <1>3, NandInductive, PTL DEF NandSpec
-----------------------------------------------------------------------------
(* nand_erase *)

\* The array when the blocks of the first n bytes are erased and no other.
BlankRow == [c \in Columns |-> Erased]
InFirst(n, r) == \E p \in addr..(addr + n - 1) : (p \div PageSize) % Pages = r
Cleared(n) ==
  \A r \in Rows : cells[r] = IF InFirst(n, r) THEN BlankRow ELSE before.cells[r]

EraseInv ==
  op = "erase" =>
    /\ pc # "idle" =>
         /\ addr % BlockSize = 0 /\ len % BlockSize = 0 /\ i % BlockSize = 0 /\ i < len
         /\ page = (addr + i) \div PageSize
    /\ pc = "issue" => Cleared(i)
    /\ pc = "wait" =>
         /\ latch.row = page % Pages
         /\ IF ready THEN Cleared(i + BlockSize) ELSE Cleared(i)
    /\ EraseIsExact

LEMMA EraseSizes ==
  /\ PageSize \in Nat \ {0} /\ BlockPages \in Nat \ {0} /\ Pages \in Nat \ {0}
  /\ BlockSize \in Nat \ {0} /\ BlockSize = BlockPages * PageSize
  /\ EraseLens \subseteq Nat \ {0} /\ Addrs \subseteq Nat
BY NandAssumption DEF BlockSize

\* Whole blocks add up to whole blocks.
LEMMA Multiples ==
  ASSUME NEW n \in Nat \ {0}, NEW x \in Nat, NEW y \in Nat, x % n = 0, y % n = 0
  PROVE  /\ (x + y) % n = 0 /\ (x + n) % n = 0
         /\ x < y => x + n <= y
<1> DEFINE p == x \div n
           q == y \div n
<1>1. p \in Nat /\ q \in Nat /\ p * n = x /\ q * n = y
  BY Divides
<1>2. (p + q) * n = x + y /\ (p + 1) * n = x + n
  BY <1>1
<1>3. \A m \in Nat : (m * n) % n = 0
  <2> TAKE m \in Nat
  <2>1. (m * n + 0) % n = 0 /\ m * n + 0 = m * n
    BY PageAndColumn
  <2>2. QED
    BY <2>1
<1> HIDE DEF p, q
<1>4. (x + y) % n = 0 /\ (x + n) % n = 0
  <2>1. p + q \in Nat /\ p + 1 \in Nat
    BY <1>1
  <2>2. ((p + q) * n) % n = 0 /\ ((p + 1) * n) % n = 0
    BY <1>3, <2>1
  <2>3. QED
    BY <1>2, <2>2
<1>5. ASSUME x < y PROVE x + n <= y
  <2>1. p < q
    <3> SUFFICES ASSUME p >= q PROVE FALSE
      BY <1>1
    <3>1. p * n >= q * n
      BY <1>1
    <3>2. QED
      BY <1>1, <1>5, <3>1
  <2>2. (p + 1) * n <= q * n
    BY <1>1, <2>1
  <2>3. QED
    BY <1>1, <1>2, <2>2
<1>6. QED
  BY <1>4, <1>5

\* The rows of the block that begins at byte a, rows past the last one wrapped.
LEMMA BlockRows ==
  ASSUME NEW a \in Nat, a % BlockSize = 0, NEW r \in Rows
  PROVE  (\E p \in a..(a + BlockSize - 1) : (p \div PageSize) % Pages = r)
           <=> r \div BlockPages = ((a \div PageSize) % Pages) \div BlockPages
<1> DEFINE q == a \div BlockSize
           B == BlockPages
           N == Pages \div BlockPages
           u == q \div N
           v == q % N
<1>1. B \in Nat \ {0} /\ PageSize \in Nat \ {0} /\ Pages \in Nat \ {0}
  BY EraseSizes
<1>2. q \in Nat /\ q * BlockSize = a
  <2>1. BlockSize \in Nat \ {0}
    BY EraseSizes
  <2>2. q \in Nat /\ q * BlockSize + (a % BlockSize) = a
    BY <2>1, Divides
  <2>3. q * BlockSize \in Nat
    BY <2>1, <2>2
  <2>4. QED
    BY <2>2, <2>3
<1>3. N \in Nat \ {0} /\ N * B = Pages
  <2>1. N \in Nat /\ N * B + (Pages % B) = Pages
    BY <1>1, Divides
  <2>2. Pages % B = 0
    BY NandAssumption
  <2>3. N * B = Pages
    BY <1>1, <2>1, <2>2
  <2>4. N # 0
    BY <1>1, <2>3
  <2>5. QED
    BY <2>1, <2>3, <2>4
<1>4. u \in Nat /\ v \in 0..(N - 1) /\ u * N + v = q
  BY <1>2, <1>3, Divides
<1> HIDE DEF q, N, u, v
<1>5. ASSUME NEW y \in 0..(B - 1), NEW z \in 0..(PageSize - 1), NEW x, x = a + (y * PageSize + z)
      PROVE  (x \div PageSize) % Pages = v * B + y
  <2>1. q * B \in Nat /\ q * B + y \in Nat /\ y \in Nat /\ z \in Nat
    BY <1>1, <1>2
  <2>2. x = (q * B + y) * PageSize + z
    <3>1. a = (q * B) * PageSize
      <4>1. BlockSize = B * PageSize
        BY DEF BlockSize
      <4>2. q * (B * PageSize) = (q * B) * PageSize
        BY <1>1, <1>2
      <4>3. QED
        BY <1>2, <4>1, <4>2
    <3>2. (q * B) * PageSize + y * PageSize = (q * B + y) * PageSize
      BY <1>1, <2>1
    <3>3. (q * B) * PageSize \in Nat /\ y * PageSize \in Nat
      BY <1>1, <2>1
    <3>4. QED
      BY <1>5, <2>1, <3>1, <3>2, <3>3
  <2>3. x \div PageSize = q * B + y
    BY <1>1, <2>1, <2>2, PageAndColumn
  <2>4. q * B + y = u * Pages + (v * B + y)
    <3>1. (u * N + v) * B = u * (N * B) + v * B
      BY <1>1, <1>3, <1>4
    <3>2. q * B = u * Pages + v * B
      BY <1>3, <1>4, <3>1
    <3>3. u * Pages \in Nat /\ v * B \in Nat
      BY <1>1, <1>4
    <3>4. QED
      BY <2>1, <3>2, <3>3
  <2>5. v * B + y \in 0..(Pages - 1)
    <3>1. (v + 1) * B <= N * B
      BY <1>1, <1>3, <1>4
    <3>2. (v + 1) * B = v * B + B /\ v * B \in Nat
      BY <1>1, <1>4
    <3>3. QED
      BY <1>1, <1>3, <2>1, <3>1, <3>2
  <2>6. QED
    BY <1>1, <1>4, <2>3, <2>4, <2>5, PageAndColumn
<1>6. (a \div PageSize) % Pages = v * B
  <2>1. 0 \in 0..(B - 1) /\ 0 \in 0..(PageSize - 1) /\ a = a + (0 * PageSize + 0)
    BY <1>1
  <2>2. (a \div PageSize) % Pages = v * B + 0
    BY <1>5, <2>1
  <2>3. v * B \in Nat
    BY <1>1, <1>4
  <2>4. QED
    BY <2>2, <2>3
<1>7. (v * B) \div B = v
  <2>1. v \in Nat /\ 0 \in 0..(B - 1) /\ v * B \in Nat
    BY <1>1, <1>4
  <2>2. (v * B + 0) \div B = v
    BY <1>1, <2>1, PageAndColumn
  <2>3. QED
    BY <2>1, <2>2
<1>8. ASSUME NEW p \in a..(a + BlockSize - 1), (p \div PageSize) % Pages = r
      PROVE  r \div B = v
  <2> DEFINE x == p - a
             y == x \div PageSize
             z == x % PageSize
  <2>1. x \in Nat /\ x < B * PageSize
    BY EraseSizes
  <2>2. y \in Nat /\ z \in 0..(PageSize - 1) /\ y * PageSize + z = x
    BY <1>1, <2>1, Divides
  <2> HIDE DEF y, z
  <2>3. y < B
    <3> SUFFICES ASSUME y >= B PROVE FALSE
      BY <1>1, <2>2
    <3>1. y * PageSize >= B * PageSize
      BY <1>1, <2>2
    <3>2. QED
      BY <1>1, <2>1, <2>2, <3>1
  <2>4. y \in 0..(B - 1) /\ p = a + (y * PageSize + z)
    BY <1>1, <2>1, <2>2, <2>3
  <2>5. r = v * B + y
    BY <1>5, <1>8, <2>2, <2>4
  <2>6. v \in Nat
    BY <1>4
  <2>7. QED
    BY <1>1, <2>4, <2>5, <2>6, PageAndColumn
<1>9. ASSUME r \div B = v
      PROVE  \E p \in a..(a + BlockSize - 1) : (p \div PageSize) % Pages = r
  <2> DEFINE y == r % B
             p == a + (y * PageSize + 0)
  <2>1. r \in Nat
    BY <1>1 DEF Rows
  <2>2. y \in 0..(B - 1) /\ v * B + y = r
    BY <1>1, <1>9, <2>1, Divides
  <2> HIDE DEF y
  <2>3. (p \div PageSize) % Pages = r
    <3>1. 0 \in 0..(PageSize - 1)
      BY <1>1
    <3>2. QED
      BY <1>5, <2>2, <3>1
  <2>4. p \in a..(a + BlockSize - 1)
    <3>1. (y + 1) * PageSize <= B * PageSize
      BY <1>1, <2>2
    <3>2. (y + 1) * PageSize = y * PageSize + PageSize /\ y * PageSize \in Nat
      BY <1>1, <2>2
    <3>3. y * PageSize <= BlockSize - 1 /\ BlockSize \in Nat
      BY <1>1, <3>1, <3>2, EraseSizes
    <3>4. QED
      BY <3>2, <3>3
  <2>5. QED
    BY <2>3, <2>4
<1>10. QED
  BY <1>6, <1>7, <1>8, <1>9

\* Erasing the block after the first n bytes.
LEMMA NextBlock ==
  ASSUME TypeOK, NEW n \in Nat, addr % BlockSize = 0, n % BlockSize = 0, NEW r \in Rows
  PROVE  InFirst(n + BlockSize, r) <=>
           (InFirst(n, r)
            \/ r \div BlockPages = (((addr + n) \div PageSize) % Pages) \div BlockPages)
<1>1. addr \in Nat /\ BlockSize \in Nat \ {0} /\ addr + n \in Nat /\ (addr + n) % BlockSize = 0
  <2>1. addr \in Nat /\ BlockSize \in Nat \ {0}
    BY EraseSizes DEF TypeOK
  <2>2. addr + n \in Nat
    BY <2>1
  <2>3. (addr + n) % BlockSize = 0
    BY <2>1, Multiples, Zenon
  <2>4. QED
    BY <2>1, <2>2, <2>3
<1>2. (\E p \in (addr + n)..(addr + n + BlockSize - 1) : (p \div PageSize) % Pages = r)
        <=> r \div BlockPages = (((addr + n) \div PageSize) % Pages) \div BlockPages
  BY <1>1, BlockRows
<1>3. \A p : p \in addr..(addr + (n + BlockSize) - 1) <=>
               (p \in addr..(addr + n - 1) \/ p \in (addr + n)..(addr + n + BlockSize - 1))
  BY <1>1
<1>4. QED
  BY <1>2, <1>3, Zenon DEF InFirst

LEMMA StartEraseInv ==
  ASSUME TypeOK, NEW a \in Addrs, NEW n \in EraseLens, StartErase(a, n)
  PROVE  EraseInv'
<1>1. /\ op' = "erase" /\ addr' = a /\ len' = n /\ i' = 0 /\ page' = a \div PageSize
      /\ before' = [cells |-> cells, mem |-> Blank] /\ cells' = cells /\ pc = "idle"
  BY DEF StartErase
<1>2. a \in Nat /\ n \in Nat /\ n > 0 /\ BlockSize \in Nat \ {0} /\ a + 0 = a /\ a + 0 - 1 < a
  BY EraseSizes
<1>3. CASE pc' = "idle"
  <2>1. ret' = -1
    BY <1>3 DEF StartErase
  <2>2. EraseIsExact'
    BY <1>1, <2>1 DEF EraseIsExact
  <2>3. QED
    BY <1>3, <2>2 DEF EraseInv
<1>4. CASE pc' # "idle"
  <2>1. a % BlockSize = 0 /\ n % BlockSize = 0 /\ pc' = "issue"
    BY <1>1, <1>4 DEF StartErase
  <2>2. 0 % BlockSize = 0
    BY <1>2
  <2>3. Cleared(0)'
    <3>1. a..(a + 0 - 1) = {}
      BY <1>2
    <3>2. \A r : ~InFirst(0, r)'
      BY <1>1, <3>1 DEF InFirst
    <3>3. QED
      BY <1>1, <3>2 DEF Cleared
  <2>4. Cleared(i)'
    BY <1>1, <2>3
  <2>5. EraseIsExact'
    BY <2>1 DEF EraseIsExact
  <2>6. QED
    BY <1>1, <1>2, <2>1, <2>2, <2>4, <2>5 DEF EraseInv
<1>5. QED
  BY <1>3, <1>4

LEMMA IssueEraseInv == ASSUME EraseInv, IssueErase PROVE EraseInv'
<1>1. /\ op = "erase" /\ pc = "issue" /\ pc' = "wait" /\ ready' = FALSE /\ latch' = Latch("erase")
      /\ UNCHANGED <<op, addr, len, i, page, cells, before>>
  BY DEF IssueErase
<1>2. Cleared(i) /\ Cleared(i)' = Cleared(i)
  BY <1>1 DEF EraseInv, Cleared, InFirst
<1>3. latch'.row = page % Pages
  BY <1>1 DEF Latch
<1>4. EraseIsExact'
  BY <1>1 DEF EraseIsExact
<1>5. QED
  BY <1>1, <1>2, <1>3, <1>4 DEF EraseInv

LEMMA ChipErasesInv == ASSUME TypeOK, ReadInv, EraseInv, ChipErases PROVE EraseInv'
<1>1. op = "erase" /\ pc = "wait" /\ ~ready
  BY DEF ChipErases, ReadInv, Handshake
<1>2. ready' = TRUE /\ UNCHANGED <<op, pc, addr, len, i, page, ret, latch, before>>
  BY DEF ChipErases, driverVars
<1>3. /\ addr % BlockSize = 0 /\ i % BlockSize = 0 /\ page = (addr + i) \div PageSize
      /\ latch.row = page % Pages /\ Cleared(i)
  BY <1>1 DEF EraseInv
<1>4. i \in Nat
  BY DEF TypeOK
<1>5. cells' = [r \in Rows |-> IF r \div BlockPages = latch.row \div BlockPages
                              THEN BlankRow ELSE cells[r]]
  BY DEF ChipErases, BlankRow
<1>6. Cleared(i + BlockSize)'
  <2> SUFFICES ASSUME NEW r \in Rows
               PROVE  cells'[r] = IF InFirst(i + BlockSize, r) THEN BlankRow ELSE before.cells[r]
    BY <1>2 DEF Cleared, InFirst
  <2>1. InFirst(i + BlockSize, r) <=>
          (InFirst(i, r) \/ r \div BlockPages = latch.row \div BlockPages)
    BY <1>3, <1>4, NextBlock
  <2>2. cells[r] = IF InFirst(i, r) THEN BlankRow ELSE before.cells[r]
    BY <1>3 DEF Cleared
  <2>3. QED
    BY <1>5, <2>1, <2>2
<1>7. EraseIsExact'
  BY <1>1, <1>2 DEF EraseIsExact
<1>8. QED
  BY <1>1, <1>2, <1>6, <1>7 DEF EraseInv

LEMMA EraseDoneInv == ASSUME TypeOK, EraseInv, EraseDone PROVE EraseInv'
<1>1. /\ op = "erase" /\ pc = "wait" /\ ready /\ i' = i + BlockSize
      /\ UNCHANGED <<op, addr, len, cells, before, ready>>
  BY DEF EraseDone
<1>2. /\ addr % BlockSize = 0 /\ len % BlockSize = 0 /\ i % BlockSize = 0 /\ i < len
      /\ Cleared(i + BlockSize)
  BY <1>1 DEF EraseInv
<1>3. addr \in Nat /\ len \in Nat /\ i \in Nat /\ BlockSize \in Nat \ {0}
  BY EraseSizes DEF TypeOK
<1>4. (i + BlockSize) % BlockSize = 0 /\ i + BlockSize <= len
  <2>1. (i + BlockSize) % BlockSize = 0 /\ (i < len => i + BlockSize <= len)
    BY <1>2, <1>3, Multiples, Zenon
  <2>2. QED
    BY <1>2, <2>1
<1>5. CASE i + BlockSize >= len
  <2>1. pc' = "idle" /\ ret' = 0
    BY <1>1, <1>5 DEF EraseDone
  <2>2. i + BlockSize = len
    BY <1>3, <1>4, <1>5
  <2>3. EraseIsExact'
    BY <1>1, <1>2, <2>1, <2>2 DEF EraseIsExact, Cleared, InFirst, InRange, BlankRow
  <2>4. QED
    BY <2>1, <2>3 DEF EraseInv
<1>6. CASE ~(i + BlockSize >= len)
  <2>1. pc' = "issue" /\ page' = (addr + (i + BlockSize)) \div PageSize
    BY <1>1, <1>6 DEF EraseDone
  <2>2. i + BlockSize < len
    BY <1>3, <1>6
  <2>3. Cleared(i)'
    BY <1>1, <1>2 DEF Cleared, InFirst
  <2>4. EraseIsExact'
    BY <2>1 DEF EraseIsExact
  <2>5. QED
    BY <1>1, <1>2, <1>4, <2>1, <2>2, <2>3, <2>4 DEF EraseInv
<1>7. QED
  BY <1>5, <1>6

\* Where nand_erase is: the blocks before byte i of the range are erased.
LEMMA NandEraseInductive == NandSpec => []EraseInv
<1>1. NandInit => EraseInv
  BY DEF NandInit, EraseInv
<1>2. TypeOK /\ ReadInv /\ EraseInv /\ [NandNext]_nandVars => EraseInv'
  <2>1. ASSUME EraseInv, UNCHANGED nandVars PROVE EraseInv'
    <3>1. UNCHANGED <<cells, latch, ready, pc, op, addr, len, i, page, ret, before>>
      BY <2>1 DEF nandVars, chipVars, driverVars
    <3>2. Cleared(i)' = Cleared(i) /\ Cleared(i + BlockSize)' = Cleared(i + BlockSize)
      BY <3>1 DEF Cleared, InFirst
    <3>3. EraseIsExact' = EraseIsExact
      BY <3>1 DEF EraseIsExact, InRange
    <3>4. QED
      BY <2>1, <3>1, <3>2, <3>3 DEF EraseInv
  <2>2. ASSUME TypeOK, ReadInv, EraseInv, NandNext PROVE EraseInv'
    <3>1. CASE op' # "erase"
      BY <3>1 DEF EraseInv
    <3>2. ASSUME op' = "erase", Chip PROVE ChipErases
      BY <2>2, <3>2 DEF Chip, ChipReads, ChipPrograms, driverVars, ReadInv, Handshake
    <3>3. ASSUME op' = "erase", DriverStep PROVE IssueErase \/ EraseDone
      BY <3>3 DEF DriverStep, ReadStep, EraseStep, WriteStep, IssueRead, TakePage, EndRead,
         IssueWrite, WriteDone
    <3>4. ASSUME op' = "erase", Calls PROVE \E a \in Addrs, n \in EraseLens : StartErase(a, n)
      BY <3>4 DEF Calls, StartRead, StartWrite
    <3>5. QED
      BY <2>2, <3>1, <3>2, <3>3, <3>4, StartEraseInv, IssueEraseInv, ChipErasesInv, EraseDoneInv
         DEF NandNext
  <2>3. QED
    BY <2>1, <2>2
<1>3. QED
  BY <1>1, <1>2, NandInductive, PTL DEF NandSpec

\* A whole erase clears the blocks of its range and no other, rows past the end of
\* the chip wrapped; a refused one clears nothing.
THEOREM NandErasesExactly == NandSpec => []EraseIsExact
<1>1. EraseInv => EraseIsExact
  BY DEF EraseInv, EraseIsExact
<1>2. QED
  BY <1>1, NandEraseInductive, PTL
-----------------------------------------------------------------------------
(* Every operation ends.  OpLeft bounds the steps, the driver's and the        *)
(* chip's, that are left of the operation; a page or a block takes three: its  *)
(* command, the chip at work, and the end of wait_ready.                       *)

OpLeft ==
  LET rest == IF op = "write" THEN 2 ELSE 3 * (len - i) IN
  IF pc = "idle" THEN 0
  ELSE IF pc = "issue" THEN rest + 1
  ELSE IF ready THEN rest - 1 ELSE rest

\* A step that the operation can take.
OpCanStep ==
  \/ pc = "issue" /\ op \in {"read", "write", "erase"}
  \/ pc = "wait" /\ ready /\ op \in {"read", "write", "erase"}
  \/ pc = "wait" /\ ~ready /\ latch.cmd \in {"read", "program", "erase"}

LEMMA TakePageAdvances ==
  ASSUME TypeOK, Handshake, TakePage PROVE i' \in Nat /\ i' > i /\ i' <= len
<1>1. /\ i \in Nat /\ len \in Nat /\ i < len /\ col \in Nat /\ col < PageSize
      /\ PageSize \in Nat
  BY NandAssumption DEF TypeOK, Handshake, TakePage
<1>2. i' = i + (IF PageSize - col < len - i THEN PageSize - col ELSE len - i)
  BY DEF TakePage
<1>3. QED
  BY <1>1, <1>2

\* A step of nand_read or of the chip serving it.
LEMMA ReadStepEnds ==
  ASSUME TypeOK, Handshake, op = "read", ReadStep \/ ChipReads
  PROVE  OpLeft \in Nat /\ OpLeft' \in Nat /\ OpLeft' < OpLeft
<1>1. i \in Nat /\ len \in Nat /\ i <= len /\ op' = "read"
  BY DEF TypeOK, ReadStep, IssueRead, TakePage, EndRead, ChipReads, driverVars
<1>2. CASE IssueRead
  BY <1>1, <1>2 DEF IssueRead, OpLeft
<1>3. CASE TakePage
  <2>1. i' \in Nat /\ i' > i /\ i' <= len
    BY <1>3, TakePageAdvances
  <2>2. pc = "wait" /\ ready /\ pc' = "issue" /\ len' = len
    BY <1>3 DEF TakePage
  <2> DEFINE n == i'
  <2>3. OpLeft = 3 * (len - i) - 1 /\ OpLeft' = 3 * (len - n) + 1
    BY <1>1, <2>2 DEF OpLeft
  <2>4. n \in Nat /\ n > i /\ n <= len
    BY <2>1
  <2> HIDE DEF n
  <2>5. QED
    BY <1>1, <2>3, <2>4
<1>4. CASE EndRead
  BY <1>1, <1>4 DEF EndRead, OpLeft
<1>5. CASE ChipReads
  <2>1. pc = "wait" /\ ~ready /\ ready' /\ i < len /\ UNCHANGED <<pc, i, len>>
    BY <1>5 DEF ChipReads, Handshake, TypeOK, driverVars
  <2>2. OpLeft = 3 * (len - i) /\ OpLeft' = 3 * (len - i) - 1
    BY <1>1, <2>1 DEF OpLeft
  <2>3. QED
    BY <1>1, <2>1, <2>2
<1>6. QED
  BY <1>2, <1>3, <1>4, <1>5 DEF ReadStep

LEMMA EraseStepEnds ==
  ASSUME TypeOK, Handshake, EraseInv, op = "erase", EraseStep \/ ChipErases
  PROVE  OpLeft \in Nat /\ OpLeft' \in Nat /\ OpLeft' < OpLeft
<1>1. /\ i \in Nat /\ len \in Nat /\ BlockSize \in Nat \ {0} /\ op' = "erase" /\ len' = len
      /\ pc # "idle" /\ i < len
  BY EraseSizes DEF TypeOK, EraseInv, Handshake, EraseStep, IssueErase, EraseDone, ChipErases,
     driverVars
<1>2. CASE IssueErase
  BY <1>1, <1>2 DEF IssueErase, OpLeft
<1>3. CASE EraseDone
  <2>1. pc = "wait" /\ ready /\ i' = i + BlockSize
        /\ (pc' = "idle" \/ (pc' = "issue" /\ i' < len))
    BY <1>1, <1>3 DEF EraseDone
  <2>2. OpLeft = 3 * (len - i) - 1
    BY <1>1, <2>1 DEF OpLeft
  <2>3. OpLeft' = 0 \/ (i' < len /\ OpLeft' = 3 * (len - i') + 1)
    BY <1>1, <2>1 DEF OpLeft
  <2>4. QED
    BY <1>1, <2>1, <2>2, <2>3
<1>4. CASE ChipErases
  <2>1. pc = "wait" /\ ~ready /\ ready' /\ UNCHANGED <<pc, i>>
    BY <1>4 DEF ChipErases, Handshake, TypeOK, driverVars
  <2>2. OpLeft = 3 * (len - i) /\ OpLeft' = 3 * (len - i) - 1
    BY <1>1, <2>1 DEF OpLeft
  <2>3. QED
    BY <1>1, <2>2
<1>5. QED
  BY <1>2, <1>3, <1>4 DEF EraseStep

LEMMA WriteStepEnds ==
  ASSUME TypeOK, Handshake, op = "write", WriteStep \/ ChipPrograms
  PROVE  OpLeft \in Nat /\ OpLeft' \in Nat /\ OpLeft' < OpLeft
<1>1. CASE IssueWrite
  BY <1>1 DEF IssueWrite, OpLeft
<1>2. CASE WriteDone
  BY <1>2 DEF WriteDone, OpLeft
<1>3. CASE ChipPrograms
  BY <1>3 DEF ChipPrograms, Handshake, TypeOK, OpLeft, driverVars
<1>4. QED
  BY <1>1, <1>2, <1>3 DEF WriteStep

\* Every read, erase and write ends, whatever the sizes, the address and the
\* length: it starts with at most 3 * len + 3 steps ahead, each of its steps or
\* of the chip's leaves fewer, and until it has returned one of them can be
\* taken: wait_ready never polls a chip that has nothing to finish.
THEOREM NandOperationsEnd ==
  NandSpec => /\ [](pc # "idle" => OpCanStep)
              /\ [][/\ DriverStep \/ Chip => OpLeft \in Nat /\ OpLeft' < OpLeft
                   /\ Calls => OpLeft' \in 0..(3 * len' + 3)]_nandVars
<1>1. TypeOK /\ ReadInv => (pc # "idle" => OpCanStep)
  <2>1. TypeOK /\ Handshake /\ pc = "wait" => latch.cmd \in {"read", "program", "erase"}
    BY DEF TypeOK, Handshake
  <2>2. QED
    BY <2>1 DEF TypeOK, ReadInv, Handshake, OpCanStep
<1>2. ASSUME TypeOK, ReadInv, EraseInv, DriverStep \/ Chip
      PROVE  OpLeft \in Nat /\ OpLeft' < OpLeft
  <2>1. /\ ReadStep => op = "read"
        /\ EraseStep => op = "erase"
        /\ WriteStep => op = "write"
    BY DEF ReadStep, IssueRead, TakePage, EndRead, EraseStep, IssueErase, EraseDone, WriteStep,
       IssueWrite, WriteDone
  <2>2. /\ ChipReads => op = "read"
        /\ ChipErases => op = "erase"
        /\ ChipPrograms => op = "write"
    BY <1>2 DEF ReadInv, Handshake, TypeOK, ChipReads, ChipErases, ChipPrograms
  <2>3. CASE ReadStep \/ ChipReads
    BY <1>2, <2>1, <2>2, <2>3, ReadStepEnds DEF ReadInv
  <2>4. CASE EraseStep \/ ChipErases
    BY <1>2, <2>1, <2>2, <2>4, EraseStepEnds DEF ReadInv
  <2>5. CASE WriteStep \/ ChipPrograms
    BY <1>2, <2>1, <2>2, <2>5, WriteStepEnds DEF ReadInv
  <2>6. QED
    BY <1>2, <2>3, <2>4, <2>5 DEF DriverStep, Chip
<1>3. ASSUME Calls PROVE OpLeft' \in 0..(3 * len' + 3)
  <2>1. len' \in Nat /\ i' = 0 /\ pc' \in {"idle", "issue"}
    BY <1>3, NandAssumption DEF Calls, StartRead, StartErase, StartWrite
  <2> DEFINE n == len'
           m == i'
  <2>2. n \in Nat /\ m = 0 /\ OpLeft' \in {0, 2 + 1, 3 * (n - m) + 1}
    BY <2>1, Zenon DEF OpLeft
  <2> HIDE DEF n, m
  <2>3. OpLeft' \in 0..(3 * n + 3)
    BY <2>2
  <2>4. QED
    BY <2>3 DEF n
<1>4. TypeOK /\ ReadInv /\ EraseInv /\ [NandNext]_nandVars =>
        [/\ DriverStep \/ Chip => OpLeft \in Nat /\ OpLeft' < OpLeft
         /\ Calls => OpLeft' \in 0..(3 * len' + 3)]_nandVars
  BY <1>2, <1>3
<1>5. QED
  BY <1>1, <1>4, NandInductive, NandEraseInductive, PTL DEF NandSpec
=============================================================================
