-------------------------------- MODULE Boot --------------------------------
(* Start-up from NOR or NAND flash (start.S, init.c), up to user mode.  The   *)
(* program finds out what is at address 0 by writing there: NOR ignores the   *)
(* write, the SRAM into which the hardware loads the first bytes of NAND      *)
(* takes it.  Then it copies itself to SDRAM, from NOR word by word or with   *)
(* nand_read, and clears its BSS.  The reset button may be pressed at any     *)
(* moment; SDRAM keeps what it held.                                          *)
EXTENDS NandFlash

CONSTANTS
  WordSize,     \* bytes of a word: 4
  CodeSize,     \* __bss_start - __code_start
  End,          \* _end - __code_start
  MaxResets     \* bound on the resets

ASSUME BootAssumption ==
  /\ WordSize \in Nat \ {0} /\ CodeSize \in Nat /\ End \in Nat /\ MaxResets \in Nat
  /\ CodeSize % WordSize = 0
  /\ CodeSize <= End /\ End + WordSize <= MaxLen
  /\ \E b \in Byte : b # Erased

VARIABLES
  medium,   \* "nor" or "nand": the boot switch
  nor,      \* what NOR holds; mem is SDRAM from __code_start on
  word0,    \* the word at address 0: "vector", or what a probe wrote
  bpc,      \* where start-up is
  k,        \* copy2sdram, clean_bss: the offset reached
  resets

bootVars == <<medium, nor, word0, bpc, k, resets>>
allVars == <<nandVars, bootVars>>

Zero == CHOOSE b \in Byte : b # Erased   \* the byte clean_bss writes
Written(w) == IF medium = "nand" THEN w ELSE word0
Word(j) == j..(j + WordSize - 1)
-----------------------------------------------------------------------------
\* start.S writes 0 to address 0.
Probe ==
  /\ bpc = "reset" /\ bpc' = "probed"
  /\ word0' = Written("zero")
  /\ UNCHANGED <<medium, nor, k, resets, nandVars>>

\* It reads the word back to choose a stack, restores it if it took the write,
\* and calls copy2sdram; isBootFromNorFlash writes 0x12345678.
ProbeAgain ==
  /\ bpc = "probed" /\ bpc' = "probed again"
  /\ word0' = Written("mark")
  /\ UNCHANGED <<medium, nor, k, resets, nandVars>>

FromNor ==
  /\ bpc = "probed again" /\ word0 # "mark"
  /\ bpc' = "nor" /\ k' = 0
  /\ UNCHANGED <<medium, nor, word0, resets, nandVars>>

\* Mutant: the word at 0 is not restored.
FromNandNoRestore ==
  /\ bpc = "probed again" /\ word0 = "mark"
  /\ bpc' = "nand"
  /\ StartRead(0, CodeSize, mem)
  /\ UNCHANGED <<medium, nor, word0, k, resets>>

\* The word is restored; nand_init, nand_read(0, __code_start, len).
FromNand ==
  /\ bpc = "probed again" /\ word0 = "mark"
  /\ bpc' = "nand" /\ word0' = "vector"
  /\ StartRead(0, CodeSize, mem)
  /\ UNCHANGED <<medium, nor, k, resets>>

\* Mutant: the source pointer does not advance.
CopyWordSame ==
  /\ bpc = "nor" /\ k < CodeSize
  /\ mem' = [j \in DOMAIN mem |-> IF j \in Word(k) THEN nor[j - k] ELSE mem[j]]
  /\ k' = k + WordSize
  /\ UNCHANGED <<medium, nor, word0, bpc, resets, chipVars, driverVars, before>>

\* *dest++ = *src++
CopyWord ==
  /\ bpc = "nor" /\ k < CodeSize
  /\ mem' = [j \in DOMAIN mem |-> IF j \in Word(k) THEN nor[j] ELSE mem[j]]
  /\ k' = k + WordSize
  /\ UNCHANGED <<medium, nor, word0, bpc, resets, chipVars, driverVars, before>>

NandStep ==
  /\ bpc = "nand" /\ (ReadStep \/ ChipReads)
  /\ UNCHANGED bootVars

\* copy2sdram returns; clean_bss starts at __bss_start.
Copied ==
  /\ \/ bpc = "nor" /\ k >= CodeSize
     \/ bpc = "nand" /\ pc = "idle"
  /\ bpc' = "clear" /\ k' = CodeSize
  /\ UNCHANGED <<medium, nor, word0, resets, nandVars>>

\* Mutant: the loop runs one word further.
ClearWordFar ==
  /\ bpc = "clear" /\ k <= End + WordSize
  /\ mem' = [j \in DOMAIN mem |-> IF j \in Word(k) THEN Zero ELSE mem[j]]
  /\ k' = k + WordSize
  /\ UNCHANGED <<medium, nor, word0, bpc, resets, chipVars, driverVars, before>>

\* while (start <= end) *start++ = 0
ClearWord ==
  /\ bpc = "clear" /\ k <= End
  /\ mem' = [j \in DOMAIN mem |-> IF j \in Word(k) THEN Zero ELSE mem[j]]
  /\ k' = k + WordSize
  /\ UNCHANGED <<medium, nor, word0, bpc, resets, chipVars, driverVars, before>>

\* Mutant: the end is compared for equality only.
EnterUserAtEnd ==
  /\ bpc = "clear" /\ k = End
  /\ bpc' = "run"
  /\ UNCHANGED <<medium, nor, word0, k, resets, nandVars>>

\* Interrupts on, user mode, ldr pc, =sdram.
EnterUser ==
  /\ bpc = "clear" /\ k > End
  /\ bpc' = "run"
  /\ UNCHANGED <<medium, nor, word0, k, resets, nandVars>>

\* The program runs and leaves anything in its memory.
Run ==
  /\ bpc = "run" /\ bpc' = "running"
  /\ mem' \in [Indices -> Byte]
  /\ UNCHANGED <<medium, nor, word0, k, resets, chipVars, driverVars, before>>

KeepRunning == bpc = "running" /\ UNCHANGED allVars

\* The reset button, at any moment: the hardware loads SRAM from NAND anew, which
\* leaves the NAND chip ready.
Reset ==
  /\ resets < MaxResets /\ resets' = resets + 1
  /\ bpc' = "reset" /\ word0' = "vector" /\ k' = 0
  /\ pc' = "idle" /\ ready' = TRUE /\ select' = FALSE
  /\ UNCHANGED <<medium, nor, cells, reg, latch, op, addr, len, i, page, col, data, ret,
                 mem, before>>
-----------------------------------------------------------------------------
BootInit ==
  /\ NandInit
  /\ medium \in {"nor", "nand"} /\ nor \in [Indices -> Byte]
  /\ word0 = "vector" /\ bpc = "reset" /\ k = 0 /\ resets = 0

BootStep ==
  Probe \/ ProbeAgain \/ FromNor \/ FromNand \/ CopyWord \/ NandStep \/ Copied
  \/ ClearWord \/ EnterUser

BootNext == BootStep \/ Run \/ KeepRunning \/ Reset

\* The processor runs, and the NAND chip finishes.
BootSpec == BootInit /\ [][BootNext]_allVars /\ WF_allVars(BootStep)
-----------------------------------------------------------------------------
Image(j) == IF medium = "nand" THEN Main(cells, j) ELSE nor[j]

\* k and the NAND driver stay within what start-up is at, whatever was
\* interrupted by a reset.
BootTypeOK ==
  /\ TypeOK
  /\ medium \in {"nor", "nand"} /\ nor \in [Indices -> Byte]
  /\ word0 \in {"vector", "zero", "mark"} /\ resets \in 0..MaxResets
  /\ bpc \in {"reset", "probed", "probed again", "nor", "nand", "clear", "run", "running"}
  /\ k \in 0..(End + WordSize) /\ (bpc = "nor" => k <= CodeSize)

\* When user mode is entered SDRAM holds the program as it is in the flash, .data
\* included, and a cleared BSS, whatever SDRAM held and wherever a reset fell.
BootedImage ==
  bpc = "run" =>
    /\ \A j \in 0..(CodeSize - 1) : mem[j] = Image(j)
    /\ \A j \in CodeSize..(End - 1) : mem[j] = Zero

\* The probes leave the reset vector as it was by the time anything can branch
\* through it again.
VectorsIntact == bpc \notin {"probed", "probed again"} => word0 = "vector"

\* Start-up writes no further than one word past _end.
WritesWithinImage ==
  [][bpc # "run" => \A j \in Indices : j >= End + WordSize => mem'[j] = mem[j]]_allVars

\* Start-up gets to user mode, after the last reset.
BootCompletes == bpc = "reset" ~> bpc = "run"
=============================================================================
