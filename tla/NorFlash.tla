------------------------------ MODULE NorFlash ------------------------------
(* The NOR flash test (nor_flash.c): its menu, the command sequences of scan, *)
(* erase and write, and wait_ready's polling of the toggle bit; the chip it   *)
(* drives, which also holds the exception vectors; and the key interrupt,     *)
(* which main leaves enabled.                                                 *)
(*                                                                            *)
(* An offset counts the chip's 16-bit words. Only the words of "Words" are    *)
(* followed. do_read_nor_flash and the printing change nothing.               *)
EXTENDS Integers, Sequences

CONSTANTS
  Words,      \* the words of the chip that are followed
  Sectors,    \* the words at which its sectors start
  Image,      \* what the words hold at first
  Ident,      \* its vendor and device words
  Cfi,        \* its CFI table
  RegionStart,  \* the byte address at which each region of the table starts
  Addresses,  \* the byte addresses typed at the menu
  Strings,    \* the strings typed at the menu
  Values,     \* the values the words may take
  BitAnd(_, _)  \* bitwise and

Word == 0..65535
Erased == 65535
VectorWords == {12, 13, 20, 21}    \* the vector at 0x18 and irq_addr

\* A string of n characters and its NUL take this many words.
WordsFor(s) == Len(s) \div 2 + 1

ASSUME NorAssumption ==
  /\ Words \subseteq Nat /\ VectorWords \subseteq Words /\ Sectors \subseteq Nat
  /\ Ident \in [{0, 1} -> Word]
  /\ 44 \in DOMAIN Cfi /\ 45..44 + 4 * Cfi[44] \subseteq DOMAIN Cfi
  /\ \A off \in DOMAIN Cfi : Cfi[off] \in Word
  /\ Addresses \subseteq Nat /\ Strings \subseteq Seq(1..255)
  /\ \A a \in Addresses, s \in Strings : \A k \in 0..WordsFor(s) - 1 : a \div 2 + k \in Words
  /\ \A a \in Addresses : a \div 2 \in Words

\* Region r of the table: its number of blocks, their size, where they start.
TableBlocks(r) == 1 + Cfi[45 + 4 * r] + 256 * Cfi[46 + 4 * r]
TableSize(r) == 256 * (Cfi[47 + 4 * r] + 256 * Cfi[48 + 4 * r])
RegionSectors(r) == {RegionStart[r] + j * TableSize(r) : j \in 0..TableBlocks(r) - 1}

\* The table describes the chip.
ASSUME CfiAssumption ==
  /\ RegionStart \in [0..Cfi[44] -> Nat] /\ RegionStart[0] = 0
  /\ \A r \in 0..Cfi[44] - 1 :
       RegionStart[r + 1] = RegionStart[r] + TableBlocks(r) * TableSize(r)
  /\ {2 * s : s \in Sectors} = UNION {RegionSectors(r) : r \in 0..Cfi[44] - 1}

\* str[k], up to and with its NUL.
Char(s, k) == IF k < Len(s) THEN s[k + 1] ELSE 0

\* Word k of the string, low byte first.
Stored(s, k) == Char(s, 2 * k) + 256 * Char(s, 2 * k + 1)

\* The test of the loop, and the word that is written after it either way.
InLoop(s, k) == Char(s, k) # 0 /\ Char(s, k + 1) # 0
\* Mutant: the high byte first.
ValSwapped(s, k) == 256 * Char(s, k) + (IF InLoop(s, k) THEN Char(s, k + 1) ELSE 0)
Val(s, k) == Char(s, k) + (IF InLoop(s, k) THEN 256 * Char(s, k + 1) ELSE 0)

ASSUME ValuesAssumption ==
  /\ Values \subseteq Word /\ Erased \in Values /\ Image \in [Words -> Values]
  /\ \A s \in Strings : \A k \in 0..WordsFor(s) - 1 : Stored(s, k) \in Values
  /\ \A u, v \in Values : BitAnd(u, v) \in Values
  /\ \A v \in Values : BitAnd(Erased, v) = v

VARIABLES
  pc,       \* "menu"; "cycles" (of a command); "id", "cfi", "regions" (scan); "pre",
            \* "poll" (wait_ready); "lost": the vector fetched was no vector
  command,  \* the command being given: "id", "cfi", "reset", "erase", "program"
  n,        \* its write cycles so far
  job,      \* what was asked at the menu: [op, addr, str]
  addr,     \* addr and i of do_write_nor_flash
  i,
  final,    \* the word being written is the one after the loop
  pre,      \* bit 6 of wait_ready's pre
  seen,     \* what the scan has printed: [ident, starts]
  region,   \* the scan's loop: [i, regions, block_addr]
  mode,     \* the chip: "array"; "u1", "u2", "e0", "e1", "e2", "pgm" (commands under
            \* way); "id", "cfi"; "busy"; "stuck" (busy for ever)
  cells,    \* its words
  dq6,      \* the bit it toggles at every read while it is busy
  before    \* history: cells when the operation was asked for

driverVars == <<pc, command, n, job, addr, i, final, pre, seen, region>>
chipVars == <<mode, cells, dq6>>
vars == <<driverVars, chipVars, before>>
-----------------------------------------------------------------------------
(* The chip *)

Busy == mode \in {"busy", "stuck"}
Answers == mode \notin {"busy", "stuck", "id", "cfi"}    \* reads give its words

Dat(off) ==
  CASE mode = "id" -> Ident[off]
    [] mode = "cfi" -> Cfi[off]
    [] Busy -> 64 * dq6
    [] OTHER -> IF off \in Words THEN cells[off] ELSE 0

Bit6(v) == (v \div 64) % 2

SameSector(v, w) == \A s \in Sectors : s <= v <=> s <= w

\* What a write cycle makes of each mode, the start of a program or erase
\* operation excepted.
Decoded(off, val) ==
  CASE mode = "array" /\ off = 1365 /\ val = 170 -> "u1"
    [] mode = "u1" /\ off = 682 /\ val = 85      -> "u2"
    [] mode = "u2" /\ off = 1365 /\ val = 144    -> "id"
    [] mode = "u2" /\ off = 1365 /\ val = 128    -> "e0"
    [] mode = "u2" /\ off = 1365 /\ val = 160    -> "pgm"
    [] mode = "e0" /\ off = 1365 /\ val = 170    -> "e1"
    [] mode = "e1" /\ off = 682 /\ val = 85      -> "e2"
    [] mode \in {"array", "id"} /\ off = 85 /\ val = 152 -> "cfi"
    [] mode \in {"id", "cfi"} /\ val # 240       -> mode
    [] Busy                                      -> mode
    [] OTHER                                     -> "array"

\* Nothing can read the words before the operation is over, so they change at
\* its start. A program operation that would have to make a 1 of a 0 may end
\* with the 0, or never.
Programmed(off, val) ==
  /\ cells' = [w \in Words |-> IF w = off THEN BitAnd(cells[w], val) ELSE cells[w]]
  /\ mode' \in {"busy"} \cup (IF BitAnd(cells[off], val) = val THEN {} ELSE {"stuck"})

ErasedSector(off) ==
  /\ cells' = [w \in Words |-> IF SameSector(w, off) THEN Erased ELSE cells[w]]
  /\ mode' = "busy"

\* nor_write_word
NorCmd(off, val) ==
  /\ IF mode = "pgm" THEN Programmed(off, val)
     ELSE IF mode = "e2" /\ val = 48 THEN ErasedSector(off)
     ELSE mode' = Decoded(off, val) /\ UNCHANGED cells
  /\ UNCHANGED dq6

\* A read toggles the bit.
Toggled == dq6' = (IF Busy THEN 1 - dq6 ELSE dq6) /\ UNCHANGED <<mode, cells>>

ChipReady == mode = "busy" /\ mode' = "array" /\ UNCHANGED <<driverVars, cells, dq6, before>>
-----------------------------------------------------------------------------
(* The command sequences *)

\* Offset and value of each write cycle.
Unlock1 == <<1365, 170>>
Unlock2 == <<682, 85>>
\* Mutant: the byte address goes to the chip as it is.
EraseByteAddress(a) == <<Unlock1, Unlock2, <<1365, 128>>, Unlock1, Unlock2, <<a, 48>>>>
EraseCycles(a) == <<Unlock1, Unlock2, <<1365, 128>>, Unlock1, Unlock2, <<a \div 2, 48>>>>
ProgramCycles(a, val) == <<Unlock1, Unlock2, <<1365, 160>>, <<a \div 2, val>>>>
Cycles(a, val) ==
  [id |-> <<Unlock1, Unlock2, <<1365, 144>>>>, cfi |-> <<<<0, 240>>, <<85, 152>>>>,
   reset |-> <<<<0, 240>>>>, erase |-> EraseCycles(a), program |-> ProgramCycles(a, val)]
Then ==
  [id |-> "id", cfi |-> "cfi", reset |-> "menu", erase |-> "pre", program |-> "pre"]

Give(c) == command' = c /\ n' = 0 /\ pc' = "cycles"

Ask(op, a, s) ==
  /\ pc = "menu"
  /\ job' = [op |-> op, addr |-> a, str |-> s] /\ before' = cells

Cycle ==
  /\ pc = "cycles"
  /\ LET cycles == Cycles(addr, Val(job.str, i))[command] IN
     /\ NorCmd(cycles[n + 1][1], cycles[n + 1][2])
     /\ n' = n + 1
     /\ pc' = IF n' = Len(cycles) THEN Then[command] ELSE "cycles"
  /\ UNCHANGED <<command, job, addr, i, final, pre, seen, region, before>>
-----------------------------------------------------------------------------
(* do_scan_nor_flash *)

Scan ==
  /\ Ask("scan", 0, <<>>) /\ Give("id")
  /\ UNCHANGED <<addr, i, final, pre, seen, region, chipVars>>

ScanId ==
  /\ pc = "id" /\ Give("cfi")
  /\ seen' = [ident |-> <<Dat(0), Dat(1)>>, starts |-> {}]
  /\ UNCHANGED <<job, addr, i, final, pre, region, chipVars, before>>

ScanCfi ==
  /\ pc = "cfi" /\ pc' = "regions"
  /\ region' = [i |-> 0, regions |-> Dat(44), block_addr |-> 0]
  /\ UNCHANGED <<command, n, job, addr, i, final, pre, seen, chipVars, before>>

\* Mutant: the count in the table is taken for the number of blocks.
BlocksAsRead(b) == Dat(b) + 256 * Dat(b + 1)
Blocks(b) == 1 + Dat(b) + 256 * Dat(b + 1)
BlockSize(b) == 256 * (Dat(b + 2) + 256 * Dat(b + 3))

ScanRegion ==
  /\ pc = "regions" /\ region.i < region.regions
  /\ LET b == 45 + 4 * region.i IN
     /\ seen' = [seen EXCEPT !.starts =
          @ \cup {region.block_addr + j * BlockSize(b) : j \in 0..Blocks(b) - 1}]
     /\ region' = [region EXCEPT !.i = @ + 1, !.block_addr = @ + Blocks(b) * BlockSize(b)]
  /\ UNCHANGED <<pc, command, n, job, addr, i, final, pre, chipVars, before>>

ScanEnd ==
  /\ pc = "regions" /\ region.i >= region.regions /\ Give("reset")
  /\ UNCHANGED <<job, addr, i, final, pre, seen, region, chipVars, before>>
-----------------------------------------------------------------------------
(* do_erase_nor_flash and do_write_nor_flash *)

Erase(a) ==
  /\ Ask("erase", a, <<>>) /\ Give("erase")
  /\ addr' = a
  /\ UNCHANGED <<i, final, pre, seen, region, chipVars>>

WriteWord(s, a, k) ==
  /\ addr' = a /\ i' = k /\ final' = ~InLoop(s, k)
  /\ Give("program")

Write(a, s) ==
  /\ Ask("write", a, s) /\ WriteWord(s, a, 0)
  /\ UNCHANGED <<pre, seen, region, chipVars>>
-----------------------------------------------------------------------------
(* wait_ready *)

ReadPre ==
  /\ pc = "pre" /\ pre' = Bit6(Dat(addr \div 2)) /\ pc' = "poll"
  /\ Toggled
  /\ UNCHANGED <<command, n, job, addr, i, final, seen, region, before>>

PollAgain ==
  /\ pc = "poll" /\ Bit6(Dat(addr \div 2)) # pre
  /\ pre' = Bit6(Dat(addr \div 2)) /\ Toggled
  /\ UNCHANGED <<pc, command, n, job, addr, i, final, seen, region, before>>

\* Mutant: two reads, and whatever they say is good.
ReadyAnyway == pc = "poll" /\ Toggled
\* Mutant: the bit is taken for one that is 0 when the chip is ready.
ReadyAtZero == pc = "poll" /\ Bit6(Dat(addr \div 2)) = 0 /\ pre = 0 /\ Toggled
Ready == pc = "poll" /\ Bit6(Dat(addr \div 2)) = pre /\ Toggled

\* Mutant: the address does not advance.
NextWordSameAddress ==
  /\ Ready /\ job.op = "write" /\ ~final
  /\ WriteWord(job.str, addr, i + 2)
  /\ UNCHANGED <<job, pre, seen, region, before>>

NextWord ==
  /\ Ready /\ job.op = "write" /\ ~final
  /\ WriteWord(job.str, addr + 2, i + 2)
  /\ UNCHANGED <<job, pre, seen, region, before>>

Done ==
  /\ Ready /\ (job.op = "erase" \/ final) /\ pc' = "menu"
  /\ UNCHANGED <<command, n, job, addr, i, final, pre, seen, region, before>>
-----------------------------------------------------------------------------
\* A key. start.S's vector at 0x18 and irq_addr are fetched from the chip; where
\* it gives the words of the image, key_action runs and nothing here changes.
VectorFetched == Answers /\ \A w \in VectorWords : cells[w] = Image[w]
KeyIrq ==
  /\ pc # "lost" /\ ~VectorFetched /\ pc' = "lost"
  /\ UNCHANGED <<command, n, job, addr, i, final, pre, seen, region, chipVars, before>>

Init ==
  /\ pc = "menu" /\ command = "reset" /\ n = 0
  /\ job = [op |-> "scan", addr |-> 0, str |-> <<>>]
  /\ addr = 0 /\ i = 0 /\ final = FALSE /\ pre = 0
  /\ seen = [ident |-> <<>>, starts |-> {}]
  /\ region = [i |-> 0, regions |-> 0, block_addr |-> 0]
  /\ mode = "array" /\ cells = Image /\ dq6 = 0 /\ before = Image

\* The menu, and the rest of the operation it starts.
Menu == Scan \/ \E a \in Addresses : Erase(a) \/ \E s \in Strings : Write(a, s)
Operation ==
  Cycle \/ ScanId \/ ScanCfi \/ ScanRegion \/ ScanEnd \/ ReadPre \/ PollAgain \/ NextWord \/ Done

Next == Menu \/ Operation \/ ChipReady \/ KeyIrq

Spec == Init /\ [][Next]_vars

\* The program runs on, and an operation of the chip ends unless it is stuck.
FairSpec == Spec /\ WF_vars(Operation) /\ WF_vars(ChipReady)
-----------------------------------------------------------------------------
\* Every variable has its type.
NorTypeOK ==
  /\ pc \in {"menu", "cycles", "id", "cfi", "regions", "pre", "poll", "lost"}
  /\ command \in DOMAIN Then /\ n \in 0..6
  /\ job \in [op : {"scan", "erase", "write"}, addr : Nat, str : Seq(1..255)]
  /\ addr \in Nat /\ i \in Nat /\ final \in BOOLEAN /\ pre \in {0, 1}
  /\ region \in [i : Nat, regions : Nat, block_addr : Nat]
  /\ mode \in {"array", "u1", "u2", "e0", "e1", "e2", "pgm", "id", "cfi", "busy", "stuck"}
  /\ cells \in [Words -> Values] /\ dq6 \in {0, 1}

\* No write cycle reaches the chip while it works on the last one, which would
\* not hear it: two equal toggle bits are never a coincidence, whatever the word
\* holds and whenever the chip gets ready between the reads.
CommandsHeard == pc = "cycles" => ~Busy

\* The menu finds the chip as it left it, and so do its reads and the vectors.
MenuFindsArray == pc = "menu" => mode = "array"

\* A write into erased words stores the string and its NUL there, low byte
\* first, and changes no other word.
StringStored ==
  pc = "menu" /\ job.op = "write" =>
    LET at == job.addr \div 2
        range == at..at + WordsFor(job.str) - 1 IN
    (\A w \in range : before[w] = Erased) =>
      cells = [w \in Words |-> IF w \in range THEN Stored(job.str, w - at) ELSE before[w]]

\* An erase clears the sector of the address asked for and nothing else.
EraseExact ==
  pc = "menu" /\ job.op = "erase" =>
    cells = [w \in Words |-> IF SameSector(w, job.addr \div 2) THEN Erased ELSE before[w]]

\* The scan prints the chip's identity and the byte addresses of its sectors.
ScanListsSectors ==
  pc = "menu" /\ seen.starts # {} /\ job.op = "scan" =>
    seen = [ident |-> <<Ident[0], Ident[1]>>, starts |-> {2 * s : s \in Sectors}]

\* An operation comes back to the menu, unless it asked the chip for a 1 in the
\* place of a 0 or an interrupt found no vector.
NorOperationsEnd == pc # "menu" ~> pc \in {"menu", "lost"} \/ mode = "stuck"

\* start.S:12 "vector 0x18 : irq": an interrupt finds it there.
VectorInPlace == pc # "lost"
=============================================================================
