----------------------------- MODULE Boot_proof -----------------------------
(* Proofs about start-up: whatever the page and word sizes, the programs and  *)
(* the number and moments of the resets, user mode is entered with the        *)
(* program in SDRAM.  The copy from NAND rests on the lemmas about nand_read. *)
EXTENDS Boot, NandFlash_proof

\* What copy2sdram and clean_bss have done so far.  A reset may leave a read
\* half done, so that what is known of nand_read holds in its own phase only.
ProbeInv ==
  /\ bpc = "probed" /\ medium = "nor" => word0 = "vector"
  /\ bpc = "probed again" => word0 = (IF medium = "nand" THEN "mark" ELSE "vector")
  /\ bpc = "nor" => medium = "nor"
  /\ bpc = "nand" => medium = "nand"

DriverInv ==
  /\ Handshake
  /\ bpc # "nand" => pc = "idle"
  /\ bpc = "nand" => op = "read" /\ addr = 0 /\ len = CodeSize /\ Position /\ ReadIsCopy

CopyInv ==
  /\ bpc = "nor" => k % WordSize = 0 /\ \A j \in 0..(k - 1) : mem[j] = nor[j]
  /\ bpc \in {"clear", "run"} =>
       /\ k >= CodeSize
       /\ \A j \in 0..(CodeSize - 1) : mem[j] = Image(j)
       /\ \A j \in CodeSize..(k - 1) : mem[j] = Zero
  /\ bpc = "run" => k > End

BInv == BootTypeOK /\ VectorsIntact /\ ProbeInv /\ DriverInv /\ CopyInv
-----------------------------------------------------------------------------
(* Sizes *)

\* The constants as numbers.
LEMMA Sizes ==
  /\ WordSize \in Nat /\ WordSize > 0 /\ CodeSize \in Nat /\ End \in Nat /\ MaxResets \in Nat
  /\ MaxLen \in Nat /\ CodeSize <= End /\ End + WordSize <= MaxLen
  /\ CodeSize \in 0..MaxLen /\ 0 \in 0..(End + WordSize)
BY BootAssumption, NandAssumption

LEMMA ZeroIsByte == Zero \in Byte
BY BootAssumption DEF Zero

\* A word that starts before the end of a whole number of words ends there at
\* the latest.
LEMMA NextWordFits ==
  ASSUME NEW n \in Nat, n % WordSize = 0, n < CodeSize
  PROVE  (n + WordSize) % WordSize = 0 /\ n + WordSize <= CodeSize
<1> DEFINE q == n \div WordSize
           p == CodeSize \div WordSize
<1>1. q \in Nat /\ p \in Nat /\ q * WordSize = n /\ p * WordSize = CodeSize
  BY Sizes, Divides, BootAssumption
<1>2. (q + 1) * WordSize + 0 = n + WordSize
  BY <1>1, Sizes
<1>3. (n + WordSize) % WordSize = 0
  <2>1. q + 1 \in Nat /\ 0 \in 0..(WordSize - 1) /\ WordSize \in Nat \ {0}
    BY <1>1, Sizes
  <2>2. ((q + 1) * WordSize + 0) % WordSize = 0
    BY <2>1, PageAndColumn
  <2>3. QED
    BY <1>2, <2>2
<1>4. q < p
  <2>1. SUFFICES ASSUME q >= p PROVE FALSE
    BY <1>1
  <2>2. q * WordSize >= p * WordSize
    BY <1>1, <2>1, Sizes
  <2>3. QED
    BY <1>1, <2>2, Sizes
<1>5. (q + 1) * WordSize <= p * WordSize
  BY <1>1, <1>4, Sizes
<1>6. QED
  BY <1>1, <1>2, <1>3, <1>5, Sizes

\* The word at an offset, and what writing it does to the memory around it.
LEMMA WordWritten ==
  ASSUME NEW n \in Nat, NEW g \in [Indices -> Byte], n + WordSize <= MaxLen,
         mem \in [Indices -> Byte],
         mem' = [j \in DOMAIN mem |-> IF j \in Word(n) THEN g[j] ELSE mem[j]]
  PROVE  /\ mem' \in [Indices -> Byte]
         /\ \A j \in 0..(n - 1) : mem'[j] = mem[j]
         /\ \A j \in n..(n + WordSize - 1) : mem'[j] = g[j]
         /\ \A j \in Indices : j >= n + WordSize => mem'[j] = mem[j]
<1>1. mem' = [j \in Indices |-> IF j \in Word(n) THEN g[j] ELSE mem[j]]
  OBVIOUS
<1>2. /\ Word(n) = n..(n + WordSize - 1) /\ Indices = 0..(MaxLen - 1)
      /\ WordSize \in Nat /\ MaxLen \in Nat
  BY Sizes DEF Word, Indices
<1>3. \A j \in 0..(n - 1) : j \in Indices /\ j \notin Word(n)
  BY <1>2
<1>4. \A j \in n..(n + WordSize - 1) : j \in Indices /\ j \in Word(n)
  BY <1>2
<1>5. \A j \in Indices : j >= n + WordSize => j \notin Word(n)
  BY <1>2
<1>6. mem' \in [Indices -> Byte]
  BY <1>1
<1>7. QED
  BY <1>1, <1>3, <1>4, <1>5, <1>6

LEMMA CopyWordWrites ==
  ASSUME BInv, CopyWord
  PROVE  /\ k \in Nat /\ k + WordSize <= CodeSize /\ (k + WordSize) % WordSize = 0
         /\ mem' \in [Indices -> Byte]
         /\ \A j \in 0..(k - 1) : mem'[j] = mem[j]
         /\ \A j \in k..(k + WordSize - 1) : mem'[j] = nor[j]
         /\ \A j \in Indices : j >= k + WordSize => mem'[j] = mem[j]
<1>1. k \in Nat /\ k % WordSize = 0 /\ k < CodeSize /\ nor \in [Indices -> Byte]
  BY Sizes DEF BInv, BootTypeOK, CopyInv, CopyWord
<1>2. k + WordSize <= CodeSize /\ (k + WordSize) % WordSize = 0
  BY <1>1, NextWordFits
<1>3. k + WordSize <= MaxLen
  BY <1>1, <1>2, Sizes
<1>4. mem \in [Indices -> Byte]
  BY DEF BInv, BootTypeOK, TypeOK
<1>5. mem' = [j \in DOMAIN mem |-> IF j \in Word(k) THEN nor[j] ELSE mem[j]]
  BY DEF CopyWord
<1>6. QED
  BY <1>1, <1>2, <1>3, <1>4, <1>5, WordWritten

LEMMA ClearWordWrites ==
  ASSUME BInv, ClearWord
  PROVE  /\ k \in Nat /\ k + WordSize <= End + WordSize
         /\ mem' \in [Indices -> Byte]
         /\ \A j \in 0..(k - 1) : mem'[j] = mem[j]
         /\ \A j \in k..(k + WordSize - 1) : mem'[j] = Zero
         /\ \A j \in Indices : j >= k + WordSize => mem'[j] = mem[j]
<1> DEFINE g == [j \in Indices |-> Zero]
<1>1. k \in Nat /\ k + WordSize <= End + WordSize /\ k + WordSize <= MaxLen
  BY Sizes DEF BInv, BootTypeOK, ClearWord
<1>2. mem \in [Indices -> Byte] /\ g \in [Indices -> Byte]
  BY ZeroIsByte DEF BInv, BootTypeOK, TypeOK
<1>3. mem' = [j \in DOMAIN mem |-> IF j \in Word(k) THEN g[j] ELSE mem[j]]
  BY <1>2 DEF ClearWord
<1>4. \A j \in k..(k + WordSize - 1) : g[j] = Zero
  BY <1>1, Sizes DEF Indices
<1> HIDE DEF g
<1>5. QED
  BY <1>1, <1>2, <1>3, <1>4, WordWritten
-----------------------------------------------------------------------------
(* The steps *)

LEMMA BootInitInv == BootInit => BInv
<1> SUFFICES ASSUME BootInit PROVE BInv
  OBVIOUS
<1>1. TypeOK /\ ReadInv
  BY InitInv DEF BootInit
<1>2. BootTypeOK
  BY <1>1, Sizes DEF BootInit, BootTypeOK
<1>3. QED
  BY <1>1, <1>2 DEF BootInit, NandInit, BInv, VectorsIntact, ProbeInv, DriverInv, CopyInv, ReadInv

\* Steps that touch neither SDRAM nor the NAND driver.
LEMMA QuietInv ==
  ASSUME BInv, Probe \/ ProbeAgain \/ FromNor \/ EnterUser PROVE BInv'
<1>1. UNCHANGED nandVars /\ UNCHANGED <<medium, nor, resets>> /\ bpc' # "nand"
  BY DEF Probe, ProbeAgain, FromNor, EnterUser
<1>2. TypeOK'
  BY <1>1 DEF BInv, BootTypeOK, TypeOK, nandVars, chipVars, driverVars
<1>3. pc = "idle"
  BY DEF BInv, DriverInv, Probe, ProbeAgain, FromNor, EnterUser
<1>4. DriverInv'
  BY <1>1, <1>3 DEF BInv, DriverInv, Handshake, nandVars, chipVars, driverVars
<1>5. BootTypeOK' /\ VectorsIntact' /\ ProbeInv'
  <2>1. k' \in 0..(End + WordSize) /\ (bpc' = "nor" => k' <= CodeSize)
    <3>1. \/ k' = 0
          \/ (k' = k /\ bpc' # "nor")
      BY DEF Probe, ProbeAgain, FromNor, EnterUser
    <3>2. k \in 0..(End + WordSize)
      BY DEF BInv, BootTypeOK
    <3>3. QED
      BY <3>1, <3>2, Sizes
  <2>2. CASE Probe
    BY <1>1, <1>2, <2>1, <2>2 DEF BInv, BootTypeOK, VectorsIntact, ProbeInv, Probe, Written
  <2>3. CASE ProbeAgain
    BY <1>1, <1>2, <2>1, <2>3
       DEF BInv, BootTypeOK, VectorsIntact, ProbeInv, ProbeAgain, Written
  <2>4. CASE FromNor
    BY <1>1, <1>2, <2>1, <2>4 DEF BInv, BootTypeOK, VectorsIntact, ProbeInv, FromNor
  <2>5. CASE EnterUser
    BY <1>1, <1>2, <2>1, <2>5 DEF BInv, BootTypeOK, VectorsIntact, ProbeInv, EnterUser
  <2>6. QED
    BY <2>2, <2>3, <2>4, <2>5
<1>6. CopyInv'
  <2>1. CASE Probe \/ ProbeAgain
    BY <2>1 DEF Probe, ProbeAgain, CopyInv
  <2>2. CASE FromNor
    <3>1. 0 % WordSize = 0 /\ 0..(0 - 1) = {}
      BY Sizes
    <3>2. QED
      BY <2>2, <3>1 DEF FromNor, CopyInv
  <2>3. CASE EnterUser
    BY <2>3 DEF EnterUser, BInv, CopyInv, Image, nandVars, chipVars
  <2>4. QED
    BY <2>1, <2>2, <2>3
<1>7. QED
  BY <1>4, <1>5, <1>6 DEF BInv

LEMMA FromNandInv == ASSUME BInv, FromNand PROVE BInv'
<1>1. TypeOK /\ Handshake /\ mem \in [Indices -> Byte]
  BY DEF BInv, BootTypeOK, TypeOK, DriverInv
<1>2. StartRead(0, CodeSize, mem) /\ 0 \in Nat /\ CodeSize \in 0..MaxLen
  BY Sizes DEF FromNand
<1>3. TypeOK' /\ ReadInv'
  BY <1>1, <1>2, StartReadInv
<1>4. BootTypeOK'
  BY <1>3 DEF FromNand, BInv, BootTypeOK
<1>5. VectorsIntact' /\ CopyInv'
  BY DEF FromNand, VectorsIntact, CopyInv
<1>6. ProbeInv'
  BY DEF FromNand, BInv, BootTypeOK, ProbeInv
<1>7. DriverInv'
  BY <1>2, <1>3 DEF FromNand, StartRead, DriverInv, ReadInv
<1>8. QED
  BY <1>4, <1>5, <1>6, <1>7 DEF BInv

LEMMA NandStepInv == ASSUME BInv, NandStep PROVE BInv'
<1>1. TypeOK /\ ReadInv
  BY DEF BInv, BootTypeOK, DriverInv, ReadInv, NandStep
<1>2. TypeOK' /\ ReadInv'
  BY <1>1, IssueReadInv, TakePageInv, EndReadInv, ChipInv DEF NandStep, ReadStep, Chip
<1>3. UNCHANGED <<op, addr, len>> /\ UNCHANGED bootVars
  BY DEF NandStep, ReadStep, IssueRead, TakePage, EndRead, ChipReads, driverVars
<1>4. BootTypeOK' /\ VectorsIntact' /\ ProbeInv'
  BY <1>2, <1>3 DEF BInv, BootTypeOK, VectorsIntact, ProbeInv, bootVars
<1>5. DriverInv' /\ CopyInv'
  BY <1>2, <1>3 DEF NandStep, BInv, DriverInv, CopyInv, ReadInv, bootVars
<1>6. QED
  BY <1>4, <1>5 DEF BInv

LEMMA CopyWordInv == ASSUME BInv, CopyWord PROVE BInv'
<1>1. /\ k \in Nat /\ k + WordSize <= CodeSize /\ (k + WordSize) % WordSize = 0
      /\ mem' \in [Indices -> Byte]
      /\ \A j \in 0..(k - 1) : mem'[j] = mem[j]
      /\ \A j \in k..(k + WordSize - 1) : mem'[j] = nor[j]
  BY CopyWordWrites
<1>2. k' = k + WordSize /\ bpc = "nor" /\ bpc' = "nor"
      /\ UNCHANGED <<medium, nor, word0, resets, chipVars, driverVars, before>>
  BY DEF CopyWord
<1>3. BootTypeOK'
  <2>1. TypeOK'
    BY <1>1, <1>2 DEF BInv, BootTypeOK, TypeOK, chipVars, driverVars
  <2>2. k' \in 0..(End + WordSize) /\ k' <= CodeSize
    BY <1>1, <1>2, Sizes
  <2>3. QED
    BY <1>2, <2>1, <2>2 DEF BInv, BootTypeOK
<1>4. VectorsIntact' /\ ProbeInv'
  BY <1>2 DEF BInv, VectorsIntact, ProbeInv
<1>5. DriverInv'
  BY <1>2 DEF BInv, DriverInv, Handshake, chipVars, driverVars
<1>6. CopyInv'
  <2>1. \A j \in 0..(k' - 1) : mem'[j] = nor'[j]
    <3>1. \A j \in 0..(k' - 1) : j \in 0..(k - 1) \/ j \in k..(k + WordSize - 1)
      BY <1>1, <1>2, Sizes
    <3>2. \A j \in 0..(k - 1) : mem[j] = nor[j]
      BY <1>2 DEF BInv, CopyInv
    <3>3. QED
      BY <1>1, <1>2, <3>1, <3>2
  <2>2. QED
    BY <1>1, <1>2, <2>1 DEF CopyInv
<1>7. QED
  BY <1>3, <1>4, <1>5, <1>6 DEF BInv

\* Either copy is complete when it ends: nand_read has returned len bytes, the
\* words copied from NOR add up to the program.
LEMMA CopiedInv == ASSUME BInv, Copied PROVE BInv'
<1>1. bpc \in {"nor", "nand"} /\ bpc' = "clear" /\ k' = CodeSize
      /\ UNCHANGED <<medium, nor, word0, resets, nandVars>>
  BY DEF Copied
<1>2. \A j \in 0..(CodeSize - 1) : mem[j] = Image(j)
  <2>1. CASE bpc = "nor"
    <3>1. k >= CodeSize /\ k \in Nat
      BY <2>1, Sizes DEF Copied, BInv, BootTypeOK
    <3>2. \A j \in 0..(CodeSize - 1) : j \in 0..(k - 1)
      BY <3>1, Sizes
    <3>3. medium = "nor" /\ \A j \in 0..(k - 1) : mem[j] = nor[j]
      BY <2>1 DEF BInv, ProbeInv, CopyInv
    <3>4. QED
      BY <3>2, <3>3 DEF Image
  <2>2. CASE bpc = "nand"
    <3>1. pc = "idle" /\ op = "read" /\ addr = 0 /\ len = CodeSize /\ ReadIsCopy
      BY <2>2 DEF Copied, BInv, DriverInv
    <3>2. SamePage(addr)
      <4>1. 0 \div Divisor = 0 /\ 0 \div PageSize = 0
        BY NandAssumption
      <4>2. QED
        BY <3>1, <4>1 DEF SamePage
    <3>3. i = CodeSize
      BY <3>1, <3>2 DEF ReadIsCopy
    <3>4. \A j \in Indices : mem[j] = IF j < CodeSize THEN Main(cells, 0 + j) ELSE before.mem[j]
      BY <3>1, <3>2, <3>3 DEF ReadIsCopy
    <3>5. \A j \in 0..(CodeSize - 1) : j \in Indices /\ j < CodeSize /\ 0 + j = j
      BY Sizes DEF Indices
    <3>6. medium = "nand"
      BY <2>2 DEF BInv, ProbeInv
    <3>7. QED
      BY <3>4, <3>5, <3>6 DEF Image
  <2>3. QED
    BY <1>1, <2>1, <2>2
<1>3. pc = "idle" /\ word0 = "vector"
  BY <1>1 DEF Copied, BInv, DriverInv, VectorsIntact
<1>4. BootTypeOK'
  <2>1. TypeOK'
    BY <1>1 DEF BInv, BootTypeOK, TypeOK, nandVars, chipVars, driverVars
  <2>2. k' \in 0..(End + WordSize)
    BY <1>1, Sizes
  <2>3. QED
    BY <1>1, <2>1, <2>2 DEF BInv, BootTypeOK
<1>5. VectorsIntact' /\ ProbeInv'
  BY <1>1, <1>3 DEF VectorsIntact, ProbeInv
<1>6. DriverInv'
  BY <1>1, <1>3 DEF BInv, DriverInv, Handshake, nandVars, chipVars, driverVars
<1>7. CopyInv'
  <2>1. \A j \in 0..(CodeSize - 1) : mem'[j] = Image(j)'
    BY <1>1, <1>2 DEF Image, nandVars, chipVars
  <2>2. k' >= CodeSize /\ CodeSize..(k' - 1) = {}
    BY <1>1, Sizes
  <2>3. QED
    BY <1>1, <2>1, <2>2 DEF CopyInv
<1>8. QED
  BY <1>4, <1>5, <1>6, <1>7 DEF BInv

LEMMA ClearWordInv == ASSUME BInv, ClearWord PROVE BInv'
<1>1. /\ k \in Nat /\ k + WordSize <= End + WordSize
      /\ mem' \in [Indices -> Byte]
      /\ \A j \in 0..(k - 1) : mem'[j] = mem[j]
      /\ \A j \in k..(k + WordSize - 1) : mem'[j] = Zero
  BY ClearWordWrites
<1>2. k' = k + WordSize /\ bpc = "clear" /\ bpc' = "clear"
      /\ UNCHANGED <<medium, nor, word0, resets, chipVars, driverVars, before>>
  BY DEF ClearWord
<1>3. BootTypeOK'
  <2>1. TypeOK'
    BY <1>1, <1>2 DEF BInv, BootTypeOK, TypeOK, chipVars, driverVars
  <2>2. k' \in 0..(End + WordSize)
    BY <1>1, <1>2, Sizes
  <2>3. QED
    BY <1>2, <2>1, <2>2 DEF BInv, BootTypeOK
<1>4. VectorsIntact' /\ ProbeInv'
  BY <1>2 DEF BInv, VectorsIntact, ProbeInv
<1>5. DriverInv'
  BY <1>2 DEF BInv, DriverInv, Handshake, chipVars, driverVars
<1>6. CopyInv'
  <2>1. /\ k >= CodeSize
        /\ \A j \in 0..(CodeSize - 1) : mem[j] = Image(j)
        /\ \A j \in CodeSize..(k - 1) : mem[j] = Zero
    BY <1>2 DEF BInv, CopyInv
  <2>2. \A j \in 0..(CodeSize - 1) : mem'[j] = Image(j)'
    <3>1. \A j \in 0..(CodeSize - 1) : j \in 0..(k - 1)
      BY <1>1, <2>1, Sizes
    <3>2. \A j \in 0..(CodeSize - 1) : Image(j)' = Image(j)
      BY <1>2 DEF Image, chipVars
    <3>3. QED
      BY <1>1, <2>1, <3>1, <3>2
  <2>3. \A j \in CodeSize..(k' - 1) : mem'[j] = Zero
    <3>1. \A j \in CodeSize..(k' - 1) : \/ j \in CodeSize..(k - 1) /\ j \in 0..(k - 1)
                                        \/ j \in k..(k + WordSize - 1)
      BY <1>1, <1>2, Sizes
    <3>2. QED
      BY <1>1, <2>1, <3>1
  <2>4. k' >= CodeSize
    BY <1>1, <1>2, <2>1, Sizes
  <2>5. QED
    BY <1>2, <2>2, <2>3, <2>4 DEF CopyInv
<1>7. QED
  BY <1>3, <1>4, <1>5, <1>6 DEF BInv

\* The running program, and the reset button.
LEMMA RunInv == ASSUME BInv, Run \/ Reset PROVE BInv'
<1>1. TypeOK'
  BY DEF BInv, BootTypeOK, TypeOK, Run, Reset, chipVars, driverVars
<1>2. BootTypeOK'
  <2>1. resets' \in 0..MaxResets
    <3>1. /\ resets \in 0..MaxResets
          /\ \/ resets' = resets
             \/ (resets < MaxResets /\ resets' = resets + 1)
      BY DEF BInv, BootTypeOK, Run, Reset
    <3>2. QED
      BY <3>1, Sizes
  <2>2. k' \in 0..(End + WordSize)
    BY Sizes DEF BInv, BootTypeOK, Run, Reset
  <2>3. QED
    BY <1>1, <2>1, <2>2 DEF BInv, BootTypeOK, Run, Reset
<1>3. VectorsIntact' /\ ProbeInv' /\ CopyInv'
  BY DEF BInv, VectorsIntact, ProbeInv, CopyInv, Run, Reset
<1>4. DriverInv'
  BY DEF BInv, DriverInv, Handshake, Run, Reset, chipVars, driverVars
<1>5. QED
  BY <1>2, <1>3, <1>4 DEF BInv

LEMMA BStutterInv == ASSUME BInv, KeepRunning \/ UNCHANGED allVars PROVE BInv'
<1> UNCHANGED allVars
  BY DEF KeepRunning
<1>1. BootTypeOK'
  <2>1. TypeOK'
    BY DEF BInv, BootTypeOK, TypeOK, allVars, nandVars, chipVars, driverVars
  <2>2. QED
    BY <2>1 DEF BInv, BootTypeOK, allVars, bootVars
<1>2. VectorsIntact' /\ ProbeInv'
  BY DEF BInv, VectorsIntact, ProbeInv, allVars, bootVars
<1>3. DriverInv'
  BY DEF BInv, DriverInv, Handshake, Position, ReadIsCopy, SamePage, allVars, bootVars, nandVars,
     chipVars, driverVars
<1>4. CopyInv'
  BY DEF BInv, CopyInv, Image, allVars, bootVars, nandVars, chipVars
<1>5. QED
  BY <1>1, <1>2, <1>3, <1>4 DEF BInv
-----------------------------------------------------------------------------
\* Everything together is an invariant of start-up.
THEOREM BootInductive == BootSpec => []BInv
<1>1. BInv /\ [BootNext]_allVars => BInv'
  BY QuietInv, FromNandInv, NandStepInv, CopyWordInv, CopiedInv, ClearWordInv, RunInv, BStutterInv
     DEF BootNext, BootStep
<1>2. QED
  BY <1>1, BootInitInv, PTL DEF BootSpec

\* The offsets and the NAND driver stay within what start-up is at.
THEOREM BootTypeCorrect == BootSpec => []BootTypeOK
<1>1. BInv => BootTypeOK
  BY DEF BInv
<1>2. QED
  BY <1>1, BootInductive, PTL

\* The vector the probes overwrite is back before it can be used.
THEOREM VectorsRestored == BootSpec => []VectorsIntact
<1>1. BInv => VectorsIntact
  BY DEF BInv
<1>2. QED
  BY <1>1, BootInductive, PTL

\* User mode is entered with the program of the flash in SDRAM and the BSS clear.
THEOREM BootLoadsImage == BootSpec => []BootedImage
<1>1. BInv => BootedImage
  <2> SUFFICES ASSUME BInv, bpc = "run" PROVE BootedImage
    BY DEF BootedImage
  <2>1. /\ k > End /\ k \in Nat
        /\ \A j \in 0..(CodeSize - 1) : mem[j] = Image(j)
        /\ \A j \in CodeSize..(k - 1) : mem[j] = Zero
    BY Sizes DEF BInv, CopyInv, BootTypeOK
  <2>2. \A j \in CodeSize..(End - 1) : j \in CodeSize..(k - 1)
    BY <2>1, Sizes
  <2>3. QED
    BY <2>1, <2>2 DEF BootedImage
<1>2. QED
  BY <1>1, BootInductive, PTL

\* Until the program runs nothing past the word after _end is written.
THEOREM BootStaysInImage == BootSpec => WritesWithinImage
<1>1. BInv /\ [BootNext]_allVars =>
        [bpc # "run" => \A j \in Indices : j >= End + WordSize => mem'[j] = mem[j]]_allVars
  <2> SUFFICES ASSUME BInv, BootNext, bpc # "run", NEW j \in Indices, j >= End + WordSize
               PROVE  mem'[j] = mem[j]
    OBVIOUS
  <2>1. j \in Nat
    BY Sizes DEF Indices
  <2>2. CASE CopyWord
    <3>1. k + WordSize <= CodeSize /\ k \in Nat
      BY <2>2, CopyWordWrites
    <3>2. j >= k + WordSize
      BY <2>1, <3>1, Sizes
    <3>3. QED
      BY <2>2, <3>2, CopyWordWrites
  <2>3. CASE ClearWord
    <3>1. k + WordSize <= End + WordSize /\ k \in Nat
      BY <2>3, ClearWordWrites
    <3>2. j >= k + WordSize
      BY <2>1, <3>1, Sizes
    <3>3. QED
      BY <2>3, <3>2, ClearWordWrites
  <2>4. CASE NandStep
    <3>1. CASE TakePage
      <4> DEFINE n == IF PageSize - col < len - i THEN PageSize - col ELSE len - i
      <4>1. /\ i \in Nat /\ len \in Nat /\ col \in Nat /\ PageSize \in Nat /\ i <= len
            /\ len = CodeSize /\ col <= PageSize
        BY <2>4, <3>1, NandAssumption DEF BInv, BootTypeOK, DriverInv, TypeOK, NandStep, TakePage
      <4>2. i + n - 1 < j
        BY <2>1, <4>1, Sizes
      <4>3. j \notin i..(i + n - 1)
        BY <2>1, <4>1, <4>2
      <4>4. mem' = [x \in Indices |-> IF x \in i..(i + n - 1) THEN reg[col + x - i] ELSE mem[x]]
        BY <3>1 DEF BInv, BootTypeOK, TypeOK, TakePage
      <4>5. QED
        BY <4>3, <4>4
    <3>2. CASE ~TakePage
      BY <2>4, <3>2 DEF NandStep, ReadStep, IssueRead, EndRead, ChipReads
    <3>3. QED
      BY <3>1, <3>2
  <2>5. CASE ~(CopyWord \/ ClearWord \/ NandStep)
    BY <2>5 DEF BootNext, BootStep, Probe, ProbeAgain, FromNor, FromNand, StartRead, Copied,
       EnterUser, Run, KeepRunning, Reset, allVars, nandVars
  <2>6. QED
    BY <2>2, <2>3, <2>4, <2>5
<1>2. QED
  BY <1>1, BootInductive, PTL DEF BootSpec, WritesWithinImage
-----------------------------------------------------------------------------
(* Start-up ends.  BootLeft bounds the steps that are left until user mode if *)
(* no reset falls: the probes, three for every page that nand_read takes (a   *)
(* page gives a byte at least), and one for every word copied or cleared.     *)

Whole == 3 * CodeSize + End + WordSize + 4

BootLeft ==
  IF bpc = "reset" THEN Whole + 2
  ELSE IF bpc = "probed" THEN Whole + 1
  ELSE IF bpc = "probed again" THEN Whole
  ELSE IF bpc = "nand" THEN OpLeft + End + WordSize - CodeSize + 2
  ELSE IF bpc = "nor" THEN End + WordSize - k + 2
  ELSE IF bpc = "clear" THEN End + WordSize - k + 1
  ELSE 0

\* A step that start-up can take: nand_init finds the driver idle, and a chip
\* that is waited for has a page to deliver.
BootCanStep ==
  \/ bpc \in {"reset", "probed", "nor", "clear"}
  \/ bpc = "probed again" /\ (word0 # "mark" \/ pc = "idle")
  \/ bpc = "nand" /\ pc = "idle"
  \/ bpc = "nand" /\ op = "read" /\ (pc = "issue" \/ (pc = "wait" /\ ready))
  \/ bpc = "nand" /\ ~ready /\ latch.cmd = "read"

LEMMA BootStepEnds ==
  ASSUME BInv, BootStep PROVE BootLeft \in Nat /\ BootLeft' < BootLeft
<1>1. /\ k \in Nat /\ k <= End + WordSize
      /\ Whole = 3 * CodeSize + End + WordSize + 4 /\ Whole \in Nat
  <2>1. k \in 0..(End + WordSize)
    BY DEF BInv, BootTypeOK
  <2>2. Whole \in Nat
    BY Sizes DEF Whole
  <2>3. QED
    BY <2>1, <2>2, Sizes DEF Whole
<1>2. CASE Probe \/ ProbeAgain
  <2>1. \/ bpc = "reset" /\ bpc' = "probed"
        \/ bpc = "probed" /\ bpc' = "probed again"
    BY <1>2 DEF Probe, ProbeAgain
  <2>2. \/ BootLeft = Whole + 2 /\ BootLeft' = Whole + 1
        \/ BootLeft = Whole + 1 /\ BootLeft' = Whole
    BY <2>1 DEF BootLeft, Whole
  <2>3. QED
    BY <1>1, <2>2
<1>3. CASE FromNor
  <2>1. bpc = "probed again" /\ bpc' = "nor" /\ k' = 0
    BY <1>3 DEF FromNor
  <2> DEFINE n == k'
  <2>2. n = 0 /\ BootLeft = Whole /\ BootLeft' = End + WordSize - n + 2
    BY <2>1 DEF BootLeft
  <2> HIDE DEF n
  <2>3. QED
    BY <1>1, <2>2, Sizes
<1>4. CASE FromNand
  <2>1. /\ bpc = "probed again" /\ bpc' = "nand"
        /\ pc' = "issue" /\ op' = "read" /\ len' = CodeSize /\ i' = 0
    BY <1>4 DEF FromNand, StartRead
  <2> DEFINE l == OpLeft'
             m == i'
  <2>2. m = 0 /\ l = 3 * (CodeSize - m) + 1
    BY <2>1, Zenon DEF OpLeft
  <2>3. BootLeft = Whole /\ BootLeft' = l + End + WordSize - CodeSize + 2
    BY <2>1 DEF BootLeft
  <2> HIDE DEF l, m
  <2>4. QED
    BY <1>1, <2>2, <2>3, Sizes
<1>5. CASE CopyWord
  <2>1. bpc = "nor" /\ bpc' = "nor" /\ k' = k + WordSize
    BY <1>5 DEF CopyWord
  <2> DEFINE n == k'
  <2>2. n = k + WordSize /\ BootLeft = End + WordSize - k + 2
        /\ BootLeft' = End + WordSize - n + 2
    BY <2>1 DEF BootLeft
  <2> HIDE DEF n
  <2>3. QED
    BY <1>1, <2>2, Sizes
<1>6. CASE NandStep
  <2>1. bpc = "nand" /\ bpc' = "nand" /\ (ReadStep \/ ChipReads)
    BY <1>6 DEF NandStep, bootVars
  <2>2. TypeOK /\ Handshake /\ op = "read"
    BY <2>1 DEF BInv, BootTypeOK, DriverInv
  <2> DEFINE l == OpLeft
             m == OpLeft'
  <2>3. l \in Nat /\ m \in Nat /\ m < l
    BY <2>1, <2>2, ReadStepEnds
  <2>4. BootLeft = l + End + WordSize - CodeSize + 2 /\ BootLeft' = m + End + WordSize - CodeSize + 2
    BY <2>1 DEF BootLeft
  <2> HIDE DEF l, m
  <2>5. QED
    BY <1>1, <2>3, <2>4, Sizes
<1>7. CASE Copied
  <2>1. bpc' = "clear" /\ k' = CodeSize
        /\ \/ bpc = "nor" /\ k >= CodeSize
           \/ bpc = "nand" /\ pc = "idle"
    BY <1>7 DEF Copied
  <2> DEFINE n == k'
  <2>2. n = CodeSize /\ BootLeft' = End + WordSize - n + 1
    BY <2>1 DEF BootLeft
  <2>3. CASE bpc = "nor"
    <3>1. BootLeft = End + WordSize - k + 2 /\ k <= CodeSize
      BY <2>3 DEF BootLeft, BInv, BootTypeOK
    <3> HIDE DEF n
    <3>2. QED
      BY <1>1, <2>2, <3>1, Sizes
  <2>4. CASE bpc = "nand"
    <3>1. BootLeft = 0 + End + WordSize - CodeSize + 2
      BY <2>1, <2>4 DEF BootLeft, OpLeft
    <3> HIDE DEF n
    <3>2. QED
      BY <1>1, <2>2, <3>1, Sizes
  <2>5. QED
    BY <2>1, <2>3, <2>4
<1>8. CASE ClearWord
  <2>1. bpc = "clear" /\ bpc' = "clear" /\ k' = k + WordSize
    BY <1>8 DEF ClearWord
  <2> DEFINE n == k'
  <2>2. n = k + WordSize /\ BootLeft = End + WordSize - k + 1
        /\ BootLeft' = End + WordSize - n + 1
    BY <2>1 DEF BootLeft
  <2> HIDE DEF n
  <2>3. QED
    BY <1>1, <2>2, Sizes
<1>9. CASE EnterUser
  BY <1>1, <1>9, Sizes DEF EnterUser, BootLeft
<1>10. QED
  BY <1>2, <1>3, <1>4, <1>5, <1>6, <1>7, <1>8, <1>9 DEF BootStep

\* Start-up cannot hang: before user mode it can always go on, and every step
\* of it, of the loops and of the NAND chip it polls, leaves fewer to do.  A
\* reset, of which there are finitely many, starts it over.
THEOREM BootReachesUser ==
  BootSpec => /\ [](bpc \notin {"run", "running"} => BootCanStep)
              /\ [][BootStep => BootLeft \in Nat /\ BootLeft' < BootLeft]_allVars
<1>1. BInv => (bpc \notin {"run", "running"} => BootCanStep)
  <2> SUFFICES ASSUME BInv, bpc \in {"probed again", "nand"} PROVE BootCanStep
    BY DEF BInv, BootTypeOK, BootCanStep
  <2>1. bpc = "probed again" => pc = "idle"
    BY DEF BInv, DriverInv
  <2>2. bpc = "nand" => op = "read" /\ Handshake /\ pc \in {"idle", "issue", "wait"}
    BY DEF BInv, DriverInv, BootTypeOK, TypeOK
  <2>3. bpc = "nand" /\ pc = "wait" => latch.cmd = "read"
    BY <2>2 DEF Handshake
  <2>4. QED
    BY <2>1, <2>2, <2>3, Zenon DEF BootCanStep
<1>2. BInv /\ [BootNext]_allVars =>
        [BootStep => BootLeft \in Nat /\ BootLeft' < BootLeft]_allVars
  BY BootStepEnds
<1>3. QED
  BY <1>1, <1>2, BootInductive, PTL DEF BootSpec
=============================================================================
