--------------------------- MODULE NorFlash_proof ---------------------------
(* Proofs about NorFlash, for every chip, every string and every address.     *)
(*                                                                            *)
(* The parts of the inductive invariant: StepInv says in which mode the chip   *)
(* is at each cycle the driver has left to write; PollInv that wait_ready has  *)
(* read the toggle bit of a busy chip an odd number of times ago; LoopInv where *)
(* the write loop is; DataInv how much of the string, or which sector, the     *)
(* cells show. ScanInv, on top of them, says what the scan has printed.        *)
EXTENDS NorFlash, SequenceTheorems, TLAPS

StepInv ==
  /\ pc = "menu" => mode = "array"
  /\ pc = "id" => mode = "id"
  /\ pc \in {"cfi", "regions"} => mode = "cfi"
  /\ pc = "regions" => region.regions = Cfi[44]
  /\ pc \in {"pre", "poll"} => mode \in {"array", "busy", "stuck"} /\ job.op # "scan"
  /\ pc = "cycles" =>
       \/ /\ command = "id" /\ job.op = "scan"
          /\ \/ (n = 0 /\ mode = "array") \/ (n = 1 /\ mode = "u1") \/ (n = 2 /\ mode = "u2")
       \/ /\ command = "cfi" /\ job.op = "scan"
          /\ \/ (n = 0 /\ mode = "id") \/ (n = 1 /\ mode = "array")
       \/ command = "reset" /\ job.op = "scan" /\ n = 0 /\ mode = "cfi"
       \/ /\ command = "program" /\ job.op = "write"
          /\ \/ (n = 0 /\ mode = "array") \/ (n = 1 /\ mode = "u1") \/ (n = 2 /\ mode = "u2")
             \/ n = 3 /\ mode = "pgm"
       \/ /\ command = "erase" /\ job.op = "erase"
          /\ \/ (n = 0 /\ mode = "array") \/ (n = 1 /\ mode = "u1") \/ (n = 2 /\ mode = "u2")
             \/ (n = 3 /\ mode = "e0") \/ (n = 4 /\ mode = "e1") \/ (n = 5 /\ mode = "e2")
  /\ pc \in {"id", "cfi", "regions"} => job.op = "scan"

PollInv == pc = "poll" /\ Busy => pre = 1 - dq6

\* The cells once m words of the string are programmed.
Partial(m) ==
  LET at == job.addr \div 2 IN
  [w \in Words |-> IF w \in at..at + m - 1 THEN BitAnd(before[w], Stored(job.str, w - at))
                   ELSE before[w]]

\* Where the write loop is.
LoopInv ==
  pc \in {"cycles", "pre", "poll"} /\ job.op = "write" =>
    /\ i % 2 = 0 /\ i <= Len(job.str) /\ addr = job.addr + i
    /\ final = ~InLoop(job.str, i)

DataInv ==
  /\ before \in [Words -> Values]
  /\ job.op # "scan" => job.addr \in Addresses
  /\ job.op = "write" => job.str \in Strings
  /\ job.op = "erase" /\ pc \in {"cycles", "pre", "poll"} => addr = job.addr
  /\ job.op = "write" =>
       /\ pc = "cycles" => cells = Partial(i \div 2)
       /\ pc \in {"pre", "poll"} => cells = Partial(i \div 2 + 1)
       /\ pc = "menu" => cells = Partial(WordsFor(job.str))
  /\ job.op = "erase" =>
       /\ pc = "cycles" => cells = before
       /\ pc \in {"pre", "poll", "menu"} =>
            cells = [w \in Words |-> IF SameSector(w, job.addr \div 2) THEN Erased ELSE before[w]]

IInv == NorTypeOK /\ StepInv /\ PollInv /\ LoopInv /\ DataInv
-----------------------------------------------------------------------------
(* The words of a string *)

\* The characters of a string typed at the menu are bytes, and 0 behind it.
LEMMA CharIsByte ==
  ASSUME NEW s \in Seq(1..255), NEW k \in Nat
  PROVE  /\ Char(s, k) \in 0..255
         /\ Char(s, k) = 0 => k >= Len(s)
         /\ k >= Len(s) => Char(s, k) = 0
<1>1. Len(s) \in Nat
  OBVIOUS
<1>2. CASE k < Len(s)
  <2>1. k + 1 \in 1..Len(s)
    BY <1>1, <1>2
  <2>2. s[k + 1] \in 1..255
    BY <2>1, ElementOfSeq
  <2>3. Char(s, k) = s[k + 1]
    BY <1>2 DEF Char
  <2>4. Char(s, k) \in 1..255
    BY <2>2, <2>3
  <2> DEFINE c == Char(s, k)
             l == Len(s)
  <2>5. c \in 1..255 /\ l \in Nat /\ k < l
    BY <2>4, <1>1, <1>2
  <2> HIDE DEF c, l
  <2>6. c \in 0..255 /\ ~(c = 0) /\ ~(k >= l)
    BY <2>5
  <2> QED BY <2>6 DEF c, l
<1>3. CASE ~(k < Len(s))
  BY <1>1, <1>3 DEF Char
<1> QED BY <1>2, <1>3

\* At the even positions the loop reaches, the value written is the string's
\* word, and the loop is left at the last of them.
LEMMA LoopWords ==
  ASSUME NEW s \in Seq(1..255), NEW k \in Nat, k % 2 = 0, k <= Len(s)
  PROVE  /\ Val(s, k) = Stored(s, k \div 2) /\ Val(s, k) \in Nat
         /\ k \div 2 \in 0..WordsFor(s) - 1
         /\ InLoop(s, k) => k + 2 <= Len(s)
         /\ ~InLoop(s, k) => k \div 2 = WordsFor(s) - 1
<1>1. /\ Char(s, k) \in 0..255
      /\ Char(s, k + 1) \in 0..255
      /\ Char(s, k) = 0 <=> k >= Len(s)
      /\ Char(s, k + 1) = 0 <=> k + 1 >= Len(s)
  BY CharIsByte, k + 1 \in Nat
<1>2. Len(s) \in Nat
  OBVIOUS
<1>3. k = 2 * (k \div 2) /\ k \div 2 \in Nat
  OBVIOUS
<1>4. Stored(s, k \div 2) = Char(s, k) + 256 * Char(s, k + 1)
  BY <1>3 DEF Stored
<1>5. Val(s, k) = Stored(s, k \div 2) /\ Val(s, k) \in Nat
  <2> DEFINE c == Char(s, k)
             d == Char(s, k + 1)
  <2>1. c \in 0..255 /\ d \in 0..255 /\ (c = 0 => d = 0)
    BY <1>1, <1>2
  <2>2. Val(s, k) = c + (IF c # 0 /\ d # 0 THEN 256 * d ELSE 0)
    BY DEF Val, InLoop
  <2>3. Stored(s, k \div 2) = c + 256 * d
    BY <1>4
  <2> HIDE DEF c, d
  <2> QED BY <2>1, <2>2, <2>3
<1>6. /\ k \div 2 \in 0..WordsFor(s) - 1
      /\ InLoop(s, k) => k + 2 <= Len(s)
      /\ ~InLoop(s, k) => k \div 2 = WordsFor(s) - 1
  BY <1>1, <1>2, <1>3 DEF WordsFor, InLoop
<1> QED BY <1>5, <1>6

\* It takes some number of words.
LEMMA WordsForIsNat == ASSUME NEW s \in Seq(1..255) PROVE WordsFor(s) \in Nat /\ Len(s) \in Nat
<1>1. Len(s) \in Nat
  OBVIOUS
<1>2. \A l \in Nat : l \div 2 + 1 \in Nat
  OBVIOUS
<1> QED BY <1>1, <1>2 DEF WordsFor

\* The bit a busy chip shows is dq6.
LEMMA ToggleBit == ASSUME NEW b \in {0, 1} PROVE Bit6(64 * b) = b
BY DEF Bit6

\* A chip in CFI mode answers from its table.
LEMMA CfiDat == ASSUME mode = "cfi", NEW off PROVE Dat(off) = Cfi[off]
<1>1. mode # "id" /\ ~Busy
  BY DEF Busy
<1>2. Dat(off) = CASE mode = "id" -> Ident[off]
                   [] mode = "cfi" -> Cfi[off]
                   [] Busy -> 64 * dq6
                   [] OTHER -> IF off \in Words THEN cells[off] ELSE 0
  BY DEF Dat
<1> QED BY <1>1, <1>2

\* A chip that is asked for its identity gives it.
LEMMA IdDat == ASSUME mode = "id", NEW off PROVE Dat(off) = Ident[off]
<1>1. mode # "cfi" /\ ~Busy
  BY DEF Busy
<1>2. Dat(off) = CASE mode = "id" -> Ident[off]
                   [] mode = "cfi" -> Cfi[off]
                   [] Busy -> 64 * dq6
                   [] OTHER -> IF off \in Words THEN cells[off] ELSE 0
  BY DEF Dat
<1> QED BY <1>1, <1>2

\* A word is a number.
LEMMA WordsAreNumbers == \A x \in Word : x \in Nat
BY DEF Word

\* A busy chip answers with the toggle bit,
LEMMA BusyDat == ASSUME Busy, NEW off PROVE Dat(off) = 64 * dq6
BY DEF Busy, Dat

\* so that wait_ready does not take it for ready.
LEMMA BusyNotReady == ASSUME NorTypeOK, PollInv, Ready PROVE ~Busy
<1> SUFFICES ASSUME Busy PROVE FALSE
  OBVIOUS
<1>1. Bit6(Dat(addr \div 2)) = dq6
  BY BusyDat, ToggleBit DEF NorTypeOK
<1> QED BY <1>1 DEF Ready, PollInv, NorTypeOK
-----------------------------------------------------------------------------
(* Each part of the invariant is preserved *)

\* What the chip answers is a number.
LEMMA DatIsNat ==
  ASSUME NorTypeOK, NEW off \in Words, mode \notin {"id", "cfi"}
  PROVE  Dat(off) \in Nat /\ Bit6(Dat(off)) \in {0, 1}
<1>1. cells[off] \in Word
  BY ValuesAssumption DEF NorTypeOK
<1>2. Dat(off) = IF Busy THEN 64 * dq6 ELSE cells[off]
  BY DEF Dat, Busy
<1>3. 64 * dq6 \in Nat
  BY DEF NorTypeOK
<1>4. Dat(off) \in Nat
  <2>1. CASE Busy
    BY <1>2, <1>3, <2>1
  <2>2. CASE ~Busy
    <3>1. Dat(off) = cells[off]
      BY <1>2, <2>2, Zenon
    <3> QED BY <3>1, <1>1, WordsAreNumbers, Zenon
  <2> QED BY <2>1, <2>2
<1> HIDE DEF Dat
<1> QED BY <1>4 DEF Bit6

LEMMA InitInv == Init => IInv
<1> SUFFICES ASSUME Init PROVE IInv
  OBVIOUS
<1>1. NorTypeOK
  <2>1. cells \in [Words -> Values] /\ <<>> \in Seq(1..255)
    BY ValuesAssumption DEF Init
  <2>2. job \in [op : {"scan", "erase", "write"}, addr : Nat, str : Seq(1..255)]
    BY <2>1 DEF Init
  <2>3. command \in DOMAIN Then /\ region \in [i : Nat, regions : Nat, block_addr : Nat]
    BY DEF Init, Then
  <2>4. n \in 0..6 /\ addr \in Nat /\ i \in Nat /\ pre \in {0, 1} /\ dq6 \in {0, 1}
    BY DEF Init
  <2>5. pc = "menu" /\ mode = "array" /\ final \in BOOLEAN
    BY Zenon DEF Init
  <2> QED BY <2>1, <2>2, <2>3, <2>4, <2>5 DEF NorTypeOK
<1>2. StepInv /\ PollInv /\ LoopInv
  BY DEF Init, StepInv, PollInv, LoopInv
<1>3. DataInv
  BY ValuesAssumption DEF Init, DataInv
<1> QED BY <1>1, <1>2, <1>3 DEF IInv

\* The word being written is one that is followed.
LEMMA TargetFollowed ==
  ASSUME IInv, pc \in {"cycles", "pre", "poll"}, job.op # "scan"
  PROVE  addr \div 2 \in Words
<1>1. CASE job.op = "erase"
  BY <1>1, NorAssumption DEF IInv, DataInv
<1>2. CASE job.op = "write"
  <2>1. job.str \in Strings /\ job.str \in Seq(1..255) /\ job.addr \in Addresses /\ job.addr \in Nat
    BY <1>2, NorAssumption DEF IInv, DataInv
  <2>2. i \in Nat /\ i % 2 = 0 /\ i <= Len(job.str) /\ addr = job.addr + i
    BY <1>2 DEF IInv, LoopInv, NorTypeOK
  <2>3. i \div 2 \in 0..WordsFor(job.str) - 1
    BY <2>1, <2>2, LoopWords
  <2>4. addr \div 2 = job.addr \div 2 + i \div 2
    <3> DEFINE a == job.addr
    <3>1. a \in Nat /\ i \in Nat /\ i % 2 = 0 /\ addr = a + i
      BY <2>1, <2>2
    <3> HIDE DEF a
    <3>2. (a + i) \div 2 = a \div 2 + i \div 2
      BY <3>1
    <3> QED BY <3>1, <3>2 DEF a
  <2> QED BY <2>1, <2>3, <2>4, NorAssumption
<1> QED BY <1>1, <1>2 DEF IInv, NorTypeOK

\* The chip's next mode for each cycle of a command.
LEMMA DecodedModes ==
  /\ mode = "array" => Decoded(1365, 170) = "u1"
  /\ mode = "u1" => Decoded(682, 85) = "u2"
  /\ mode = "u2" => Decoded(1365, 144) = "id"
  /\ mode = "u2" => Decoded(1365, 128) = "e0"
  /\ mode = "u2" => Decoded(1365, 160) = "pgm"
  /\ mode = "e0" => Decoded(1365, 170) = "e1"
  /\ mode = "e1" => Decoded(682, 85) = "e2"
  /\ mode = "array" => Decoded(85, 152) = "cfi"
  /\ mode = "id" => Decoded(0, 240) = "array"
  /\ mode = "cfi" => Decoded(0, 240) = "array"
BY DEF Decoded, Busy

\* What one write cycle does: the last of a program or erase command starts the
\* operation, any other moves the chip on through the command.
LEMMA CycleEffect ==
  ASSUME NorTypeOK, StepInv, Cycle
  PROVE  /\ StepInv'
         /\ \/ /\ command = "program" /\ n = 3 /\ pc' = "pre"
               /\ Programmed(addr \div 2, Val(job.str, i))
            \/ command = "erase" /\ n = 5 /\ pc' = "pre" /\ ErasedSector(addr \div 2)
            \/ /\ cells' = cells /\ pc' \in {"cycles", "id", "cfi", "menu"}
               /\ pc' \in {"id", "cfi", "menu"} => job.op = "scan"
<1> DEFINE v == Val(job.str, i)
<1>1. CASE command = "id"
  <2>1. Cycles(addr, v)[command] = <<<<1365, 170>>, <<682, 85>>, <<1365, 144>>>> /\ Then[command] = "id"
    BY <1>1 DEF Cycles, Then, Unlock1, Unlock2
  <2> QED BY <1>1, <2>1, DecodedModes DEF Cycle, StepInv, NorCmd
<1>2. CASE command = "cfi"
  <2>1. Cycles(addr, v)[command] = <<<<0, 240>>, <<85, 152>>>> /\ Then[command] = "cfi"
    BY <1>2 DEF Cycles, Then
  <2> QED BY <1>2, <2>1, DecodedModes DEF Cycle, StepInv, NorCmd
<1>3. CASE command = "reset"
  <2>1. Cycles(addr, v)[command] = <<<<0, 240>>>> /\ Then[command] = "menu"
    BY <1>3 DEF Cycles, Then
  <2> QED BY <1>3, <2>1, DecodedModes DEF Cycle, StepInv, NorCmd
<1>4. CASE command = "erase"
  <2>1. /\ Cycles(addr, v)[command] = <<<<1365, 170>>, <<682, 85>>, <<1365, 128>>,
                                        <<1365, 170>>, <<682, 85>>, <<addr \div 2, 48>>>>
        /\ Then[command] = "pre"
    BY <1>4 DEF Cycles, Then, Unlock1, Unlock2, EraseCycles
  <2>2. CASE n = 5
    BY <1>4, <2>1, <2>2 DEF Cycle, StepInv, NorCmd, ErasedSector
  <2>3. CASE n # 5
    BY <1>4, <2>1, <2>3, DecodedModes DEF Cycle, StepInv, NorCmd
  <2> QED BY <2>2, <2>3
<1>5. CASE command = "program"
  <2>1. /\ Cycles(addr, v)[command] = <<<<1365, 170>>, <<682, 85>>, <<1365, 160>>, <<addr \div 2, v>>>>
        /\ Then[command] = "pre"
    BY <1>5 DEF Cycles, Then, Unlock1, Unlock2, ProgramCycles
  <2>2. CASE n = 3
    BY <1>5, <2>1, <2>2 DEF Cycle, StepInv, NorCmd, Programmed
  <2>3. CASE n # 3
    BY <1>5, <2>1, <2>3, DecodedModes DEF Cycle, StepInv, NorCmd
  <2> QED BY <2>2, <2>3
<1> QED BY <1>1, <1>2, <1>3, <1>4, <1>5 DEF Cycle, StepInv

\* The mode follows the commands, and comes back to the array with them.
LEMMA StepKept == IInv /\ [Next]_vars => StepInv'
<1> SUFFICES ASSUME IInv, [Next]_vars PROVE StepInv'
  OBVIOUS
<1>0. NorTypeOK /\ StepInv /\ PollInv
  BY DEF IInv
<1>1. CASE Scan \/ ScanId \/ ScanEnd
  BY <1>0, <1>1 DEF Scan, ScanId, ScanEnd, Ask, Give, StepInv, chipVars
<1>2. CASE \E a \in Addresses : Erase(a)
  BY <1>0, <1>2 DEF Erase, Ask, Give, StepInv, chipVars
<1>3. CASE \E a \in Addresses : \E s \in Strings : Write(a, s)
  BY <1>0, <1>3 DEF Write, WriteWord, Ask, Give, StepInv, chipVars
<1>4. CASE Cycle
  BY <1>0, <1>4, CycleEffect
<1>5. CASE ScanCfi
  <2>1. mode = "cfi" /\ job.op = "scan" /\ pc = "cfi"
    BY <1>0, <1>5 DEF ScanCfi, StepInv
  <2>2. Dat(44) = Cfi[44]
    BY <2>1, CfiDat
  <2>3. pc' = "regions" /\ region'.regions = Cfi[44] /\ mode' = mode /\ job' = job
    BY <1>5, <2>2 DEF ScanCfi, chipVars
  <2> QED BY <2>1, <2>3 DEF StepInv
<1>6. CASE ScanRegion
  BY <1>0, <1>6 DEF ScanRegion, StepInv, NorTypeOK, chipVars
<1>7. CASE ReadPre \/ PollAgain
  BY <1>0, <1>7 DEF ReadPre, PollAgain, Toggled, StepInv
<1>8. CASE NextWord \/ Done
  <2>1. ~Busy
    BY <1>0, <1>8, BusyNotReady DEF NextWord, Done
  <2> QED BY <1>0, <1>8, <2>1
       DEF NextWord, Done, Ready, Toggled, WriteWord, Give, StepInv, Busy
<1>9. CASE ChipReady
  BY <1>0, <1>9 DEF ChipReady, StepInv, driverVars
<1>10. CASE KeyIrq
  BY <1>0, <1>10 DEF KeyIrq, StepInv, chipVars
<1>11. CASE UNCHANGED vars
  BY <1>0, <1>11 DEF vars, driverVars, chipVars, StepInv
<1> QED BY <1>1, <1>2, <1>3, <1>4, <1>5, <1>6, <1>7, <1>8, <1>9, <1>10, <1>11
     DEF Next, Menu, Operation

\* After an odd number of reads the driver holds the bit a busy chip showed last,
\* and the chip's has toggled since.
LEMMA PollKept == IInv /\ [Next]_vars => PollInv'
<1> SUFFICES ASSUME IInv, [Next]_vars, pc' = "poll", Busy' PROVE pre' = 1 - dq6'
  BY DEF PollInv
<1>0. NorTypeOK /\ StepInv /\ PollInv
  BY DEF IInv
<1>1. CASE Menu \/ ScanId \/ ScanCfi \/ ScanEnd \/ NextWord \/ Done \/ KeyIrq
  BY <1>1 DEF Menu, Scan, Erase, Write, ScanId, ScanCfi, ScanEnd, NextWord, Done, KeyIrq,
    WriteWord, Ask, Give
<1>2. CASE Cycle
  BY <1>0, <1>2, CycleEffect
<1>3. CASE ScanRegion
  BY <1>3 DEF ScanRegion
<1>4. CASE ReadPre \/ PollAgain
  <2>1. Busy /\ mode' = mode /\ dq6' = 1 - dq6
    BY <1>4 DEF ReadPre, PollAgain, Toggled, Busy
  <2>2. pre' = Bit6(64 * dq6)
    BY <1>4, <2>1, BusyDat DEF ReadPre, PollAgain
  <2> QED BY <1>0, <2>1, <2>2, ToggleBit DEF NorTypeOK
<1>5. CASE ChipReady
  BY <1>5 DEF ChipReady, Busy
<1>6. CASE UNCHANGED vars
  BY <1>0, <1>6 DEF vars, driverVars, chipVars, PollInv, Busy
<1> QED BY <1>1, <1>2, <1>3, <1>4, <1>5, <1>6 DEF Next, Operation

\* What is known of a write in its loop: where its word lies and what it is.
LEMMA LoopState ==
  ASSUME IInv, pc \in {"cycles", "pre", "poll"}, job.op = "write"
  PROVE  /\ job.str \in Strings /\ job.str \in Seq(1..255)
         /\ job.addr \in Addresses /\ job.addr \in Nat
         /\ i \in Nat /\ i % 2 = 0 /\ i <= Len(job.str) /\ Len(job.str) \in Nat
         /\ addr = job.addr + i /\ addr \div 2 = job.addr \div 2 + i \div 2
         /\ i \div 2 \in 0..WordsFor(job.str) - 1
         /\ Val(job.str, i) = Stored(job.str, i \div 2) /\ Val(job.str, i) \in Values
<1>1. job.str \in Strings /\ job.str \in Seq(1..255) /\ job.addr \in Addresses /\ job.addr \in Nat
  BY NorAssumption DEF IInv, DataInv
<1>2. /\ i \in Nat /\ i % 2 = 0 /\ i <= Len(job.str) /\ addr = job.addr + i
  BY DEF IInv, LoopInv, NorTypeOK
<1>3. Len(job.str) \in Nat
  BY <1>1
<1>4. /\ i \div 2 \in 0..WordsFor(job.str) - 1
      /\ Val(job.str, i) = Stored(job.str, i \div 2)
  BY <1>1, <1>2, LoopWords
<1>5. Stored(job.str, i \div 2) \in Values
  BY <1>1, <1>4, ValuesAssumption
<1>6. addr \div 2 = job.addr \div 2 + i \div 2
  <2> DEFINE a == job.addr
  <2>1. a \in Nat /\ i \in Nat /\ i % 2 = 0 /\ addr = a + i
    BY <1>1, <1>2
  <2> HIDE DEF a
  <2>2. (a + i) \div 2 = a \div 2 + i \div 2
    BY <2>1
  <2> QED BY <2>1, <2>2 DEF a
<1> QED BY <1>1, <1>2, <1>3, <1>4, <1>5, <1>6

\* The loop goes on to the next word of the string.
LEMMA LoopKept == IInv /\ [Next]_vars => LoopInv'
<1> SUFFICES ASSUME IInv, [Next]_vars, pc' \in {"cycles", "pre", "poll"}, job'.op = "write"
             PROVE  /\ i' % 2 = 0 /\ i' <= Len(job'.str) /\ addr' = job'.addr + i'
                    /\ final' = ~InLoop(job'.str, i')
  BY DEF LoopInv, InLoop, Char
<1>0. NorTypeOK /\ StepInv /\ LoopInv
  BY DEF IInv
<1>1. CASE Scan \/ \E a \in Addresses : Erase(a)
  BY <1>1 DEF Scan, Erase, Ask
<1>2. CASE \E a \in Addresses : \E s \in Strings : Write(a, s)
  <2>1. PICK a \in Addresses, s \in Strings : Write(a, s)
    BY <1>2
  <2>2. job' = [op |-> "write", addr |-> a, str |-> s] /\ addr' = a /\ i' = 0
        /\ final' = ~InLoop(s, 0)
    BY <2>1 DEF Write, WriteWord, Ask
  <2>3. a \in Nat /\ Len(s) \in Nat
    BY NorAssumption
  <2> QED BY <2>2, <2>3
<1>3. CASE NextWord
  <2>1. /\ i' = i + 2 /\ addr' = addr + 2 /\ final' = ~InLoop(job.str, i + 2) /\ job' = job
        /\ pc = "poll" /\ ~final
    BY <1>3 DEF NextWord, WriteWord, Ready
  <2>2. /\ job.str \in Seq(1..255) /\ i \in Nat /\ i % 2 = 0 /\ i <= Len(job.str)
        /\ addr = job.addr + i /\ job.addr \in Nat
    BY <2>1, LoopState
  <2>3. InLoop(job.str, i)
    BY <1>0, <2>1 DEF LoopInv, NorTypeOK
  <2>4. i + 2 <= Len(job.str)
    BY <2>2, <2>3, LoopWords
  <2>5. (i + 2) % 2 = 0 /\ addr + 2 = job.addr + (i + 2)
    BY <2>2
  <2> QED BY <2>1, <2>4, <2>5
<1>4. CASE ScanId \/ ScanCfi \/ ScanRegion \/ ScanEnd
  BY <1>0, <1>4 DEF ScanId, ScanCfi, ScanRegion, ScanEnd, StepInv
<1>5. CASE \/ Cycle \/ ReadPre \/ PollAgain \/ Done \/ ChipReady \/ KeyIrq \/ UNCHANGED vars
  <2>1. /\ job' = job /\ i' = i /\ addr' = addr /\ final' = final
        /\ pc \in {"cycles", "pre", "poll"}
    BY <1>5 DEF Cycle, ReadPre, PollAgain, Done, Ready, ChipReady, KeyIrq, vars, driverVars
  <2> QED BY <1>0, <2>1 DEF LoopInv
<1> QED BY <1>1, <1>2, <1>3, <1>4, <1>5 DEF Next, Menu, Operation

\* What a program or erase operation does to the cells.
LEMMA CellsTyped ==
  ASSUME IInv, Cycle PROVE cells' \in [Words -> Values]
<1>0. NorTypeOK /\ StepInv
  BY DEF IInv
<1>1. CASE /\ command = "program" /\ n = 3 /\ Programmed(addr \div 2, Val(job.str, i))
  <2>1. Val(job.str, i) \in Values
    <3>1. job.op = "write" /\ pc = "cycles"
      BY <1>0, <1>1 DEF StepInv, Cycle
    <3> QED BY <3>1, LoopState
  <2>2. \A w \in Words : cells[w] \in Values /\ BitAnd(cells[w], Val(job.str, i)) \in Values
    BY <1>0, <2>1, ValuesAssumption DEF NorTypeOK
  <2> QED BY <1>1, <2>2 DEF Programmed
<1>2. CASE ErasedSector(addr \div 2)
  BY <1>0, <1>2, ValuesAssumption DEF ErasedSector, NorTypeOK
<1>3. CASE cells' = cells
  BY <1>0, <1>3 DEF NorTypeOK
<1> QED BY <1>0, <1>1, <1>2, <1>3, CycleEffect

\* Every variable keeps its type.
LEMMA TypeKept == IInv /\ [Next]_vars => NorTypeOK'
<1> SUFFICES ASSUME IInv, [Next]_vars PROVE NorTypeOK'
  OBVIOUS
<1>0. NorTypeOK /\ StepInv /\ LoopInv
  BY DEF IInv
<1>1. CASE Scan
  <2>1. <<>> \in Seq(1..255)
    OBVIOUS
  <2> QED BY <1>0, <1>1, <2>1 DEF Scan, Ask, Give, NorTypeOK, Then, chipVars
<1>2. CASE \E a \in Addresses : Erase(a)
  <2>1. <<>> \in Seq(1..255) /\ Addresses \subseteq Nat
    BY NorAssumption
  <2> QED BY <1>0, <1>2, <2>1 DEF Erase, Ask, Give, NorTypeOK, Then, chipVars
<1>3. CASE \E a \in Addresses : \E s \in Strings : Write(a, s)
  <2>1. Strings \subseteq Seq(1..255) /\ Addresses \subseteq Nat
    BY NorAssumption
  <2> QED BY <1>0, <1>3, <2>1 DEF Write, WriteWord, Ask, Give, InLoop, NorTypeOK, Then, chipVars
<1>4. CASE Cycle
  <2>1. cells' \in [Words -> Values]
    BY <1>4, CellsTyped
  <2>2. /\ pc' \in {"menu", "cycles", "id", "cfi", "pre"} /\ n' \in 0..6
        /\ mode' \in {"array", "u1", "u2", "e0", "e1", "e2", "pgm", "id", "cfi", "busy", "stuck"}
    BY <1>0, <1>4, CycleEffect
       DEF Cycle, StepInv, NorTypeOK, Programmed, ErasedSector
  <2>3. dq6' = dq6
    BY <1>4 DEF Cycle, NorCmd
  <2> QED BY <1>0, <1>4, <2>1, <2>2, <2>3 DEF Cycle, NorTypeOK
<1>5. CASE ScanId \/ ScanEnd
  BY <1>0, <1>5 DEF ScanId, ScanEnd, Give, NorTypeOK, Then, chipVars
<1>6. CASE ScanCfi
  <2>1. Dat(44) \in Nat
    BY <1>0, <1>6, CfiDat, NorAssumption, WordsAreNumbers DEF ScanCfi, StepInv
  <2> QED BY <1>0, <1>6, <2>1 DEF ScanCfi, NorTypeOK, chipVars
<1>7. CASE ScanRegion
  <2> DEFINE b == 45 + 4 * region.i
  <2>1. mode = "cfi" /\ region.i \in Nat /\ region.i < Cfi[44] /\ Cfi[44] \in Nat
    BY <1>0, <1>7, NorAssumption, WordsAreNumbers DEF ScanRegion, StepInv, NorTypeOK
  <2>2. {b, b + 1, b + 2, b + 3} \subseteq 45..44 + 4 * Cfi[44]
    BY <2>1
  <2>3. \A x \in {b, b + 1, b + 2, b + 3} : Dat(x) \in Nat
    BY <2>1, <2>2, CfiDat, NorAssumption, WordsAreNumbers
  <2>4. Blocks(b) \in Nat /\ BlockSize(b) \in Nat
    BY <2>3 DEF Blocks, BlockSize
  <2>5. Blocks(b) * BlockSize(b) \in Nat
    BY <2>4
  <2>6. region' \in [i : Nat, regions : Nat, block_addr : Nat]
    <3> DEFINE x == Blocks(b) * BlockSize(b)
    <3>1. region' = [region EXCEPT !.i = @ + 1, !.block_addr = @ + x]
      BY <1>7 DEF ScanRegion
    <3>2. x \in Nat /\ region \in [i : Nat, regions : Nat, block_addr : Nat]
      BY <1>0, <2>5 DEF NorTypeOK
    <3> HIDE DEF x
    <3>3. region.i + 1 \in Nat /\ region.block_addr + x \in Nat
      BY <3>2
    <3>4. region' = [i |-> region.i + 1, regions |-> region.regions,
                     block_addr |-> region.block_addr + x]
      BY <3>1, <3>2
    <3> QED BY <3>2, <3>3, <3>4
  <2> QED BY <1>0, <1>7, <2>6 DEF ScanRegion, NorTypeOK, chipVars
<1>8. CASE ReadPre \/ PollAgain
  <2>1. addr \div 2 \in Words /\ mode \notin {"id", "cfi"}
    BY <1>0, <1>8, TargetFollowed DEF ReadPre, PollAgain, StepInv
  <2>2. pre' \in {0, 1}
    BY <1>0, <1>8, <2>1, DatIsNat DEF ReadPre, PollAgain
  <2>3. dq6' \in {0, 1} /\ mode' = mode /\ cells' = cells
    BY <1>0, <1>8 DEF ReadPre, PollAgain, Toggled, NorTypeOK
  <2> QED BY <1>0, <1>8, <2>2, <2>3 DEF ReadPre, PollAgain, NorTypeOK
<1>9. CASE NextWord \/ Done
  <2>1. dq6' \in {0, 1} /\ mode' = mode /\ cells' = cells /\ pre' = pre /\ region' = region
        /\ job' = job
    BY <1>0, <1>9 DEF NextWord, Done, Ready, Toggled, NorTypeOK
  <2>2. command' \in DOMAIN Then /\ n' \in 0..6 /\ pc' \in {"cycles", "menu"}
    BY <1>0, <1>9 DEF NextWord, Done, WriteWord, Give, NorTypeOK, Then
  <2>3. addr' \in Nat /\ i' \in Nat
    BY <1>0, <1>9 DEF NextWord, Done, WriteWord, NorTypeOK
  <2>4. final' \in BOOLEAN
    BY <1>0, <1>9 DEF NextWord, Done, WriteWord, InLoop, NorTypeOK
  <2> QED BY <1>0, <2>1, <2>2, <2>3, <2>4 DEF NorTypeOK
<1>10. CASE ChipReady \/ KeyIrq
  BY <1>0, <1>10 DEF ChipReady, KeyIrq, NorTypeOK, driverVars, chipVars
<1>11. CASE UNCHANGED vars
  BY <1>0, <1>11 DEF vars, driverVars, chipVars, NorTypeOK
<1> QED BY <1>1, <1>2, <1>3, <1>4, <1>5, <1>6, <1>7, <1>8, <1>9, <1>10, <1>11
     DEF Next, Menu, Operation

\* Programming word k of the string adds it to those the cells show.
LEMMA PartialNext ==
  ASSUME IInv, NEW k \in Nat, addr \div 2 = job.addr \div 2 + k, job.addr \in Nat,
         cells = Partial(k), Programmed(addr \div 2, Stored(job.str, k))
  PROVE  cells' = Partial(k + 1)
<1> DEFINE at == job.addr \div 2
<1>1. at \in Nat /\ addr \div 2 = at + k
  OBVIOUS
<1>2. cells' = [w \in Words |-> IF w = at + k THEN BitAnd(cells[w], Stored(job.str, k)) ELSE cells[w]]
  BY <1>1 DEF Programmed
<1>3. \A w \in Words : w \in at..at + k - 1 => w \in at..at + (k + 1) - 1 /\ w # at + k
  BY <1>1
<1>4. \A w \in Words : w \notin at..at + k - 1 /\ w # at + k => w \notin at..at + (k + 1) - 1
  BY <1>1, NorAssumption
<1>5. at + k \in at..at + (k + 1) - 1 /\ at + k \notin at..at + k - 1 /\ (at + k) - at = k
  BY <1>1
<1>6. \A w \in Words : cells[w] = IF w \in at..at + k - 1
                                  THEN BitAnd(before[w], Stored(job.str, w - at)) ELSE before[w]
  BY DEF Partial
<1>7. \A w \in Words : cells'[w] = Partial(k + 1)[w]
  <2> SUFFICES ASSUME NEW w \in Words PROVE cells'[w] = Partial(k + 1)[w]
    OBVIOUS
  <2>0. Partial(k + 1)[w] = IF w \in at..at + (k + 1) - 1
                            THEN BitAnd(before[w], Stored(job.str, w - at)) ELSE before[w]
    BY DEF Partial
  <2> HIDE DEF at
  <2>1. CASE w = at + k
    <3>1. cells'[w] = BitAnd(cells[w], Stored(job.str, k)) /\ cells[w] = before[w]
      BY <1>2, <1>5, <1>6, <2>1
    <3>2. Partial(k + 1)[w] = BitAnd(before[w], Stored(job.str, k))
      BY <1>5, <2>0, <2>1
    <3> QED BY <3>1, <3>2
  <2>2. CASE w # at + k
    BY <1>2, <1>3, <1>4, <1>6, <2>0, <2>2
  <2> QED BY <2>1, <2>2
<1>8. cells' = [w \in Words |-> cells'[w]] /\ Partial(k + 1) = [w \in Words |-> Partial(k + 1)[w]]
  BY <1>2 DEF Partial
<1> QED BY <1>7, <1>8

\* The cells show the words written so far, or the sector that is erased.
LEMMA DataKept == IInv /\ [Next]_vars => DataInv'
<1> SUFFICES ASSUME IInv, [Next]_vars PROVE DataInv'
  OBVIOUS
<1>0. NorTypeOK /\ StepInv /\ LoopInv /\ DataInv
  BY DEF IInv
<1>1. CASE Scan
  BY <1>0, <1>1 DEF Scan, Ask, DataInv, NorTypeOK
<1>2. CASE \E a \in Addresses : Erase(a)
  BY <1>0, <1>2 DEF Erase, Ask, Give, DataInv, NorTypeOK, chipVars
<1>3. CASE \E a \in Addresses : \E s \in Strings : Write(a, s)
  <2>1. PICK a \in Addresses, s \in Strings : Write(a, s)
    BY <1>3
  <2>2. /\ job' = [op |-> "write", addr |-> a, str |-> s] /\ i' = 0 /\ pc' = "cycles"
        /\ cells' = cells /\ before' = cells
    BY <2>1 DEF Write, WriteWord, Ask, Give, chipVars
  <2>3. Partial(i \div 2)' = cells
    <3>1. i' \div 2 = 0
      BY <2>2
    <3>2. a \div 2 \in Nat
      BY NorAssumption
    <3>3. \A w \in Words : w \notin a \div 2..a \div 2 + 0 - 1
      BY <3>2
    <3>4. Partial(i \div 2)' = [w \in Words |-> before'[w]]
      BY <2>2, <3>1, <3>3 DEF Partial
    <3> QED BY <1>0, <2>2, <3>4 DEF NorTypeOK
  <2> QED BY <1>0, <2>2, <2>3 DEF DataInv, NorTypeOK
<1>4. CASE Cycle
  <2>1. job' = job /\ before' = before /\ i' = i /\ addr' = addr /\ pc = "cycles"
    BY <1>4 DEF Cycle
  <2>2. CASE /\ command = "program" /\ n = 3 /\ pc' = "pre"
             /\ Programmed(addr \div 2, Val(job.str, i))
    <3>1. job.op = "write"
      BY <1>0, <2>1, <2>2 DEF StepInv
    <3>2. cells = Partial(i \div 2)
      BY <1>0, <2>1, <3>1 DEF DataInv
    <3>3. cells' = Partial(i \div 2 + 1)
      BY <2>1, <2>2, <3>1, <3>2, LoopState, PartialNext
    <3>4. Partial(i \div 2 + 1)' = Partial(i \div 2 + 1)
      BY <2>1 DEF Partial
    <3> QED BY <1>0, <2>1, <2>2, <3>1, <3>3, <3>4 DEF DataInv
  <2>3. CASE command = "erase" /\ n = 5 /\ pc' = "pre" /\ ErasedSector(addr \div 2)
    <3>1. job.op = "erase"
      BY <1>0, <2>1, <2>3 DEF StepInv
    <3>2. cells = before /\ addr = job.addr
      BY <1>0, <2>1, <3>1 DEF DataInv
    <3> QED BY <1>0, <2>1, <2>3, <3>1, <3>2 DEF DataInv, ErasedSector
  <2>4. CASE /\ cells' = cells /\ pc' \in {"cycles", "id", "cfi", "menu"}
             /\ pc' \in {"id", "cfi", "menu"} => job.op = "scan"
    <3>1. Partial(i \div 2)' = Partial(i \div 2)
      BY <2>1 DEF Partial
    <3> QED BY <1>0, <2>1, <2>4, <3>1 DEF DataInv
  <2> QED BY <1>0, <1>4, <2>2, <2>3, <2>4, CycleEffect
<1>5. CASE ScanId \/ ScanCfi \/ ScanRegion \/ ScanEnd
  BY <1>0, <1>5 DEF ScanId, ScanCfi, ScanRegion, ScanEnd, StepInv, DataInv
<1>6. CASE NextWord
  <2>1. /\ job.op = "write" /\ pc = "poll" /\ pc' = "cycles" /\ i' = i + 2 /\ job' = job
        /\ before' = before /\ cells' = cells
    BY <1>6 DEF NextWord, WriteWord, Give, Ready, Toggled
  <2>2. i \in Nat /\ i % 2 = 0
    BY <2>1, LoopState
  <2>3. i' \div 2 = i \div 2 + 1
    BY <2>1, <2>2
  <2>4. Partial(i \div 2)' = Partial(i \div 2 + 1)
    BY <2>1, <2>3 DEF Partial
  <2> QED BY <1>0, <2>1, <2>4 DEF DataInv
<1>7. CASE Done
  <2>1. /\ pc = "poll" /\ pc' = "menu" /\ job' = job /\ before' = before /\ cells' = cells
        /\ job.op = "erase" \/ final
    BY <1>7 DEF Done, Ready, Toggled
  <2>2. job.op = "write" => cells' = Partial(WordsFor(job.str))'
    <3> SUFFICES ASSUME job.op = "write" PROVE cells' = Partial(WordsFor(job.str))'
      OBVIOUS
    <3>1. ~InLoop(job.str, i)
      BY <1>0, <2>1 DEF LoopInv
    <3>2. i \div 2 + 1 = WordsFor(job.str)
      <4>1. i \div 2 = WordsFor(job.str) - 1
        BY <2>1, <3>1, LoopState, LoopWords
      <4>2. WordsFor(job.str) \in Nat
        BY <2>1, LoopState, WordsForIsNat
      <4> QED BY <4>1, <4>2
    <3>3. cells = Partial(WordsFor(job.str))
      BY <1>0, <2>1, <3>2 DEF DataInv
    <3> QED BY <2>1, <3>3 DEF Partial, WordsFor
  <2> QED BY <1>0, <2>1, <2>2 DEF DataInv
<1>8. CASE ReadPre \/ PollAgain
  <2>1. /\ pc \in {"pre", "poll"} /\ pc' = "poll" /\ job' = job /\ before' = before /\ cells' = cells
        /\ i' = i /\ addr' = addr
    BY <1>8 DEF ReadPre, PollAgain, Toggled
  <2>2. Partial(i \div 2 + 1)' = Partial(i \div 2 + 1)
    BY <2>1 DEF Partial
  <2> QED BY <1>0, <2>1, <2>2 DEF DataInv
<1>9. CASE ChipReady \/ KeyIrq \/ UNCHANGED vars
  <2>1. /\ pc' \in {pc, "lost"} /\ job' = job /\ before' = before /\ cells' = cells
        /\ i' = i /\ addr' = addr
    BY <1>9 DEF ChipReady, KeyIrq, vars, driverVars, chipVars
  <2>2. /\ Partial(i \div 2)' = Partial(i \div 2) /\ Partial(i \div 2 + 1)' = Partial(i \div 2 + 1)
        /\ Partial(WordsFor(job.str))' = Partial(WordsFor(job.str))
    BY <2>1 DEF Partial, WordsFor
  <2> QED BY <1>0, <2>1, <2>2 DEF DataInv
<1> QED BY <1>1, <1>2, <1>3, <1>4, <1>5, <1>6, <1>7, <1>8, <1>9 DEF Next, Menu, Operation

\* The invariant is one.
LEMMA Inductive == Spec => []IInv
<1>1. IInv /\ [Next]_vars => IInv'
  BY StepKept, PollKept, LoopKept, TypeKept, DataKept DEF IInv
<1> QED BY <1>1, InitInv, PTL DEF Spec
-----------------------------------------------------------------------------
(* The scan *)

\* What the scan has printed after r regions of the table.
Listed(r) ==
  [ident |-> <<Ident[0], Ident[1]>>, starts |-> UNION {RegionSectors(q) : q \in 0..r - 1}]

\* How far the scan is, and what it has printed by then.
ScanInv ==
  job.op = "scan" =>
    /\ pc = "cfi" \/ (pc = "cycles" /\ command = "cfi") => seen = Listed(0)
    /\ pc = "regions" =>
         /\ region.i <= Cfi[44] /\ seen = Listed(region.i)
         /\ region.block_addr = RegionStart[region.i]
    /\ pc = "cycles" /\ command = "reset" => seen = Listed(Cfi[44])
    /\ pc = "menu" => seen.starts = {} \/ seen = Listed(Cfi[44])

\* The table has some number of regions.
LEMMA RegionCount == Cfi[44] \in Nat
BY NorAssumption, WordsAreNumbers

\* One round of the loop adds the sectors of one region.
LEMMA ListedNext ==
  ASSUME NEW r \in Nat
  PROVE  /\ Listed(r + 1).ident = Listed(r).ident
         /\ Listed(r + 1).starts = Listed(r).starts \cup RegionSectors(r)
<1> DEFINE old == UNION {RegionSectors(q) : q \in 0..r - 1}
           new == UNION {RegionSectors(q) : q \in 0..(r + 1) - 1}
<1>1. \A q : q \in 0..(r + 1) - 1 <=> q \in 0..r - 1 \/ q = r
  OBVIOUS
<1>2. new = old \cup RegionSectors(r)
  BY <1>1, Zenon
<1>3. Listed(r).starts = old /\ Listed(r + 1).starts = new
  BY Zenon DEF Listed
<1>4. Listed(r + 1).ident = Listed(r).ident
  BY Zenon DEF Listed
<1> QED BY <1>2, <1>3, <1>4, Zenon

\* The numbers the loop takes from the chip are those of the table.
LEMMA RegionRead ==
  ASSUME mode = "cfi", NEW r \in Nat
  PROVE  Blocks(45 + 4 * r) = TableBlocks(r) /\ BlockSize(45 + 4 * r) = TableSize(r)
<1> DEFINE b == 45 + 4 * r
<1>1. b + 1 = 46 + 4 * r /\ b + 2 = 47 + 4 * r /\ b + 3 = 48 + 4 * r
  OBVIOUS
<1>2. Dat(b) = Cfi[b] /\ Dat(b + 1) = Cfi[b + 1] /\ Dat(b + 2) = Cfi[b + 2] /\ Dat(b + 3) = Cfi[b + 3]
  BY CfiDat
<1> QED BY <1>1, <1>2 DEF Blocks, BlockSize, TableBlocks, TableSize

\* The scan goes through the regions of the table and lists each.
LEMMA ScanKept == IInv /\ ScanInv /\ [Next]_vars => ScanInv'
<1> SUFFICES ASSUME IInv, ScanInv, [Next]_vars PROVE ScanInv'
  OBVIOUS
<1>0. NorTypeOK /\ StepInv
  BY DEF IInv
<1>1. CASE Scan
  BY <1>1 DEF Scan, Ask, Give, ScanInv
<1>2. CASE (\E a \in Addresses : Erase(a)) \/ \E a \in Addresses : \E s \in Strings : Write(a, s)
  BY <1>2 DEF Erase, Write, Ask, ScanInv
<1>3. CASE Cycle
  <2>1. /\ pc = "cycles" /\ job' = job /\ seen' = seen /\ region' = region /\ command' = command
        /\ pc' = "cycles" \/ pc' = Then[command]
    BY <1>3 DEF Cycle
  <2>2. job.op = "scan" => command \in {"id", "cfi", "reset"}
    BY <1>0, <2>1 DEF StepInv
  <2>3. Then["id"] = "id" /\ Then["cfi"] = "cfi" /\ Then["reset"] = "menu"
    BY DEF Then
  <2>4. Listed(0)' = Listed(0) /\ Listed(Cfi[44])' = Listed(Cfi[44])
    BY DEF Listed
  <2> QED BY <2>1, <2>2, <2>3, <2>4 DEF ScanInv
<1>4. CASE ScanId
  <2>1. Dat(0) = Ident[0] /\ Dat(1) = Ident[1]
    BY <1>0, <1>4, IdDat DEF ScanId, StepInv
  <2>2. seen' = [ident |-> <<Ident[0], Ident[1]>>, starts |-> {}]
    BY <1>4, <2>1 DEF ScanId
  <2>3. seen' = Listed(0)
    BY <2>2 DEF Listed
  <2>4. Listed(0)' = Listed(0)
    BY DEF Listed
  <2>5. pc' = "cycles" /\ command' = "cfi" /\ job' = job
    BY <1>4 DEF ScanId, Give
  <2> QED BY <2>3, <2>5 DEF ScanInv
<1>5. CASE ScanCfi
  <2>1. /\ job.op = "scan" /\ seen' = seen /\ pc = "cfi" /\ pc' = "regions"
        /\ region'.i = 0 /\ region'.block_addr = 0
    BY <1>0, <1>5 DEF ScanCfi, StepInv
  <2>2. seen' = Listed(0)
    BY <2>1 DEF ScanInv
  <2> QED BY <2>1, <2>2, RegionCount, CfiAssumption DEF ScanInv, Listed
<1>6. CASE ScanRegion
  <2> DEFINE r == region.i
             b == 45 + 4 * r
  <2>1. /\ pc = "regions" /\ pc' = "regions" /\ job' = job /\ mode = "cfi" /\ job.op = "scan"
        /\ r \in Nat /\ r < Cfi[44] /\ region \in [i : Nat, regions : Nat, block_addr : Nat]
    BY <1>0, <1>6 DEF ScanRegion, StepInv, NorTypeOK
  <2>2. seen = Listed(r) /\ region.block_addr = RegionStart[r]
    BY <2>1 DEF ScanInv
  <2>3. Blocks(b) = TableBlocks(r) /\ BlockSize(b) = TableSize(r)
    BY <2>1, RegionRead
  <2>4. seen' = [seen EXCEPT !.starts = @ \cup RegionSectors(r)]
    BY <1>6, <2>2, <2>3 DEF ScanRegion, RegionSectors
  <2>5. seen' = Listed(r + 1)
    <3> DEFINE l == UNION {RegionSectors(q) : q \in 0..r - 1}
               m == UNION {RegionSectors(q) : q \in 0..(r + 1) - 1}
               more == RegionSectors(r)
    <3>1. seen = [ident |-> <<Ident[0], Ident[1]>>, starts |-> l]
      BY <2>2 DEF Listed
    <3>2. Listed(r + 1) = [ident |-> <<Ident[0], Ident[1]>>, starts |-> m]
      BY DEF Listed
    <3>3. m = l \cup more
      BY <2>1, ListedNext DEF Listed
    <3>4. seen' = [seen EXCEPT !.starts = @ \cup more]
      BY <2>4
    <3> HIDE DEF l, m, more
    <3>5. seen' = [ident |-> <<Ident[0], Ident[1]>>, starts |-> l \cup more]
      BY <3>1, <3>4
    <3> QED BY <3>2, <3>3, <3>5
  <2>6. region'.i = r + 1 /\ region'.block_addr = RegionStart[r] + TableBlocks(r) * TableSize(r)
    <3> DEFINE x == TableBlocks(r) * TableSize(r)
    <3>1. region' = [region EXCEPT !.i = @ + 1, !.block_addr = @ + x]
      BY <1>6, <2>3 DEF ScanRegion
    <3> HIDE DEF x
    <3>2. region'.i = region.i + 1 /\ region'.block_addr = region.block_addr + x
      BY <2>1, <3>1
    <3> QED BY <2>2, <3>2 DEF x
  <2>7. r \in 0..Cfi[44] - 1 /\ r + 1 <= Cfi[44]
    BY <2>1, RegionCount
  <2>8. region'.block_addr = RegionStart[r + 1]
    BY <2>6, <2>7, CfiAssumption
  <2> HIDE DEF r
  <2>9. Listed(region.i)' = Listed(r + 1)
    BY <2>6 DEF Listed
  <2> QED BY <2>1, <2>5, <2>6, <2>7, <2>8, <2>9 DEF ScanInv
<1>7. CASE ScanEnd
  <2>1. /\ pc = "regions" /\ region.i >= Cfi[44] /\ job' = job /\ seen' = seen /\ job.op = "scan"
        /\ pc' = "cycles" /\ command' = "reset" /\ region.i \in Nat
    BY <1>0, <1>7 DEF ScanEnd, Give, StepInv, NorTypeOK
  <2>2. region.i = Cfi[44] /\ seen = Listed(region.i)
    BY <2>1, RegionCount DEF ScanInv
  <2> QED BY <2>1, <2>2 DEF ScanInv, Listed
<1>8. CASE ReadPre \/ PollAgain \/ NextWord \/ Done
  <2>1. pc \in {"pre", "poll"} /\ job' = job
    BY <1>8 DEF ReadPre, PollAgain, NextWord, Done, Ready
  <2> QED BY <1>0, <2>1 DEF StepInv, ScanInv
<1>9. CASE ChipReady \/ KeyIrq \/ UNCHANGED vars
  <2>1. /\ pc' \in {pc, "lost"} /\ job' = job /\ seen' = seen /\ region' = region
        /\ command' = command
    BY <1>9 DEF ChipReady, KeyIrq, vars, driverVars, chipVars
  <2>2. /\ Listed(0)' = Listed(0) /\ Listed(Cfi[44])' = Listed(Cfi[44])
        /\ Listed(region.i)' = Listed(region.i)
    BY <2>1 DEF Listed
  <2> QED BY <2>1, <2>2 DEF ScanInv
<1> QED BY <1>1, <1>2, <1>3, <1>4, <1>5, <1>6, <1>7, <1>8, <1>9 DEF Next, Menu, Operation
-----------------------------------------------------------------------------
(* The theorems *)

\* Every variable keeps its type, whatever is typed at the menu.
THEOREM NorTypeCorrect == Spec => []NorTypeOK
BY Inductive, PTL DEF IInv

\* wait_ready lets no command be written to a chip that is still at work.
THEOREM CommandsReachChip == Spec => []CommandsHeard
<1>1. IInv => CommandsHeard
  BY DEF IInv, StepInv, CommandsHeard, Busy
<1> QED BY <1>1, Inductive, PTL

\* Scan, erase and write all leave the chip reading its array.
THEOREM MenuCorrect == Spec => []MenuFindsArray
<1>1. IInv => MenuFindsArray
  BY DEF IInv, StepInv, MenuFindsArray
<1> QED BY <1>1, Inductive, PTL

\* An erase clears its sector and no other word.
THEOREM EraseCorrect == Spec => []EraseExact
<1>1. IInv => EraseExact
  BY DEF IInv, DataInv, EraseExact
<1> QED BY <1>1, Inductive, PTL

\* A string written to erased words is there, with its NUL, and nothing else has
\* changed.
THEOREM WriteCorrect == Spec => []StringStored
<1>1. IInv => StringStored
  <2> SUFFICES ASSUME IInv, pc = "menu", job.op = "write",
                      NEW at, at = job.addr \div 2,
                      \A w \in at..at + WordsFor(job.str) - 1 : before[w] = Erased
               PROVE  cells = [w \in Words |->
                         IF w \in at..at + WordsFor(job.str) - 1 THEN Stored(job.str, w - at)
                         ELSE before[w]]
    BY DEF StringStored
  <2>1. cells = Partial(WordsFor(job.str))
    BY DEF IInv, DataInv
  <2>2. /\ job.str \in Strings /\ job.str \in Seq(1..255) /\ job.addr \in Addresses
    BY NorAssumption DEF IInv, DataInv
  <2>3. at \in Nat /\ WordsFor(job.str) \in Nat
    <3>1. job.addr \in Nat
      BY <2>2, NorAssumption
    <3>2. \A a \in Nat : a \div 2 \in Nat
      OBVIOUS
    <3> QED BY <2>2, <3>1, <3>2, WordsForIsNat
  <2>4. \A w \in at..at + WordsFor(job.str) - 1 :
          BitAnd(before[w], Stored(job.str, w - at)) = Stored(job.str, w - at)
    <3> SUFFICES ASSUME NEW w \in at..at + WordsFor(job.str) - 1
                 PROVE  BitAnd(Erased, Stored(job.str, w - at)) = Stored(job.str, w - at)
      OBVIOUS
    <3>1. w - at \in 0..WordsFor(job.str) - 1
      BY <2>3
    <3>2. Stored(job.str, w - at) \in Values
      BY <2>2, <3>1, ValuesAssumption
    <3> QED BY <3>2, ValuesAssumption
  <2> QED BY <2>1, <2>4 DEF Partial
<1> QED BY <1>1, Inductive, PTL

\* The scan prints the chip's identity and where each of its sectors starts, for
\* any table of regions.
THEOREM ScanCorrect == Spec => []ScanListsSectors
<1>1. Init => ScanInv
  BY DEF Init, ScanInv
<1>2. IInv /\ ScanInv /\ [Next]_vars => ScanInv'
  BY ScanKept
<1>3. ScanInv => ScanListsSectors
  BY CfiAssumption DEF ScanInv, ScanListsSectors, Listed
<1> QED BY <1>1, <1>2, <1>3, Inductive, PTL DEF Spec
-----------------------------------------------------------------------------
(* The vectors.  No address typed at the menu lies in their sector, or so near *)
(* before it that a string reaches them.                                      *)

VectorsApart ==
  \A a \in Addresses : \A w \in VectorWords :
    /\ ~SameSector(w, a \div 2)
    /\ \A s \in Strings : w \notin a \div 2..a \div 2 + WordsFor(s) - 1

VectorsHeld == \A w \in VectorWords : cells[w] = Image[w]

LEMMA VectorsCycle ==
  ASSUME VectorsApart, IInv, VectorsHeld, Cycle PROVE VectorsHeld'
<1>0. NorTypeOK /\ StepInv /\ DataInv /\ pc = "cycles" /\ VectorWords \subseteq Words
  BY NorAssumption DEF IInv, Cycle
<1>1. CASE /\ command = "program" /\ n = 3 /\ Programmed(addr \div 2, Val(job.str, i))
  <2>1. job.op = "write"
    BY <1>0, <1>1 DEF StepInv
  <2>2. /\ job.str \in Strings /\ job.addr \in Addresses /\ job.addr \in Nat
        /\ addr \div 2 = job.addr \div 2 + i \div 2
        /\ i \div 2 \in 0..WordsFor(job.str) - 1 /\ job.str \in Seq(1..255)
    BY <1>0, <2>1, LoopState
  <2>3. addr \div 2 \in job.addr \div 2..job.addr \div 2 + WordsFor(job.str) - 1
    <3> DEFINE at == job.addr \div 2
               k == i \div 2
               l == WordsFor(job.str)
    <3>1. at \in Nat /\ l \in Nat /\ k \in 0..l - 1 /\ addr \div 2 = at + k
      BY <2>2, WordsForIsNat
    <3> HIDE DEF at, k, l
    <3>2. at + k \in at..at + l - 1
      BY <3>1
    <3> QED BY <3>1, <3>2 DEF at, l
  <2>4. addr \div 2 \notin VectorWords
    BY <2>2, <2>3 DEF VectorsApart
  <2> QED BY <1>0, <1>1, <2>4 DEF Programmed, VectorsHeld
<1>2. CASE command = "erase" /\ ErasedSector(addr \div 2)
  <2>1. job.op = "erase" /\ addr = job.addr /\ job.addr \in Addresses
    BY <1>0, <1>2 DEF StepInv, DataInv
  <2> QED BY <1>0, <1>2, <2>1 DEF ErasedSector, VectorsHeld, VectorsApart
<1>3. CASE cells' = cells
  BY <1>3 DEF VectorsHeld
<1> QED BY <1>0, <1>1, <1>2, <1>3, CycleEffect

\* Where the menu is given no address that touches them, the vectors stay in the
\* chip for good; a key interrupt fails to find them only while the chip does not
\* answer with its words: while it identifies itself, shows its table or is busy
\* with an operation. At the menu every key is served. (The run nor_vector shows
\* one that is not, in the middle of an operation.)
THEOREM VectorsKept ==
  ASSUME VectorsApart
  PROVE  Spec => /\ []VectorsHeld
                 /\ [][KeyIrq => mode \in {"id", "cfi", "busy", "stuck"} /\ pc # "menu"]_vars
<1> USE VectorsApart
<1>1. Init => VectorsHeld
  BY DEF Init, VectorsHeld
<1>2. ASSUME IInv, VectorsHeld, [Next]_vars PROVE VectorsHeld'
  <2>1. CASE Cycle
    BY <1>2, <2>1, VectorsCycle
  <2>2. CASE UNCHANGED cells
    BY <1>2, <2>2 DEF VectorsHeld
  <2> QED BY <1>2, <2>1, <2>2
       DEF Next, Menu, Operation, Scan, Erase, Write, ScanId, ScanCfi, ScanRegion, ScanEnd, ReadPre,
           PollAgain, NextWord, Done, Ready, Toggled, ChipReady, KeyIrq, vars, chipVars
<1>3. IInv /\ VectorsHeld /\ [Next]_vars =>
        [KeyIrq => mode \in {"id", "cfi", "busy", "stuck"} /\ pc # "menu"]_vars
  BY DEF KeyIrq, VectorFetched, Answers, VectorsHeld, IInv, StepInv
<1> QED BY <1>1, <1>2, <1>3, Inductive, PTL DEF Spec
-----------------------------------------------------------------------------
(* Every operation ends, if the chip's does.  NorLeft bounds the steps that    *)
(* are left: the cycles of the commands, the chip's getting ready, and the    *)
(* reads that tell; the reads of a busy chip are not counted.                 *)

PollLeft ==
  IF pc = "pre" THEN (IF Busy THEN 5 ELSE 4)
  ELSE IF Busy THEN 3
  ELSE IF Bit6(Dat(addr \div 2)) = pre THEN 1 ELSE 2

ScanLeft ==
  LET regions == Cfi[44] IN
  IF pc = "cycles"
  THEN IF command = "id" THEN regions + 9 - n ELSE IF command = "cfi" THEN regions + 5 - n ELSE 1
  ELSE IF pc = "id" THEN regions + 6 ELSE IF pc = "cfi" THEN regions + 3
  ELSE regions - region.i + 2

WordsLeft == IF job.op = "write" THEN WordsFor(job.str) - 1 - i \div 2 ELSE 0

NorLeft ==
  IF pc \in {"menu", "lost"} THEN 0
  ELSE IF job.op = "scan" THEN ScanLeft
  ELSE 9 * WordsLeft
       + (IF pc # "cycles" THEN PollLeft ELSE IF job.op = "erase" THEN 11 - n ELSE 9 - n)

\* A step that the operation can take.
NorCanStep ==
  \/ pc = "cycles" /\ n < Len(Cycles(addr, Val(job.str, i))[command])
  \/ pc \in {"id", "cfi", "regions", "pre"}
  \/ pc = "poll" /\ job.op \in {"erase", "write"}

\* Nearer to the end, or the read of a busy chip.
NearerEnd ==
  /\ NorLeft \in Nat /\ NorLeft' \in Nat
  /\ NorLeft' < NorLeft \/ (PollAgain /\ Busy /\ NorLeft' = NorLeft)

LEMMA WordsLeftIsNat ==
  ASSUME IInv, pc \in {"cycles", "pre", "poll"} PROVE WordsLeft \in Nat
<1>1. CASE job.op = "write"
  <2> DEFINE k == i \div 2
             l == WordsFor(job.str)
  <2>1. l \in Nat /\ k \in 0..l - 1 /\ WordsLeft = l - 1 - k
    BY <1>1, LoopState, WordsForIsNat DEF WordsLeft
  <2> HIDE DEF k, l
  <2> QED BY <2>1
<1> QED BY <1>1 DEF WordsLeft

LEMMA PollLeftRange == PollLeft \in 1..5
BY DEF PollLeft

\* The scan.
LEMMA ScanStepEnds ==
  ASSUME IInv, ScanInv, job.op = "scan", Cycle \/ ScanId \/ ScanCfi \/ ScanRegion \/ ScanEnd
  PROVE  NorLeft \in Nat /\ NorLeft' \in Nat /\ NorLeft' < NorLeft
<1>0. NorTypeOK /\ StepInv /\ Cfi[44] \in Nat /\ n \in Nat /\ job' = job
  BY RegionCount DEF IInv, NorTypeOK, Cycle, ScanId, ScanCfi, ScanRegion, ScanEnd
<1>1. CASE Cycle
  <2>1. command' = command /\ n' = n + 1 /\ pc = "cycles"
    BY <1>1 DEF Cycle
  <2>2. CASE command = "id"
    <3>1. n \in 0..2 /\ pc' = (IF n = 2 THEN "id" ELSE "cycles")
      <4>1. Cycles(addr, Val(job.str, i))[command] = <<Unlock1, Unlock2, <<1365, 144>>>>
            /\ Then[command] = "id"
        BY <2>2 DEF Cycles, Then
      <4>2. n \in 0..2
        BY <1>0, <2>1, <2>2 DEF StepInv
      <4> QED BY <1>1, <4>1, <4>2 DEF Cycle
    <3>2. NorLeft = Cfi[44] + 9 - n
      BY <2>1, <2>2 DEF NorLeft, ScanLeft
    <3>3. NorLeft' = IF n = 2 THEN Cfi[44] + 6 ELSE Cfi[44] + 9 - (n + 1)
      BY <1>0, <2>1, <2>2, <3>1 DEF NorLeft, ScanLeft
    <3> QED BY <1>0, <3>1, <3>2, <3>3
  <2>3. CASE command = "cfi"
    <3>1. n \in 0..1 /\ pc' = (IF n = 1 THEN "cfi" ELSE "cycles")
      <4>1. Cycles(addr, Val(job.str, i))[command] = <<<<0, 240>>, <<85, 152>>>>
            /\ Then[command] = "cfi"
        BY <2>3 DEF Cycles, Then
      <4>2. n \in 0..1
        BY <1>0, <2>1, <2>3 DEF StepInv
      <4> QED BY <1>1, <4>1, <4>2 DEF Cycle
    <3>2. NorLeft = Cfi[44] + 5 - n
      BY <2>1, <2>3 DEF NorLeft, ScanLeft
    <3>3. NorLeft' = IF n = 1 THEN Cfi[44] + 3 ELSE Cfi[44] + 5 - (n + 1)
      BY <1>0, <2>1, <2>3, <3>1 DEF NorLeft, ScanLeft
    <3> QED BY <1>0, <3>1, <3>2, <3>3
  <2>4. CASE command = "reset"
    <3>1. Cycles(addr, Val(job.str, i))[command] = <<<<0, 240>>>> /\ Then[command] = "menu" /\ n = 0
      BY <1>0, <2>1, <2>4 DEF Cycles, Then, StepInv
    <3>2. pc' = "menu"
      BY <1>1, <3>1 DEF Cycle
    <3> QED BY <2>1, <2>4, <3>2 DEF NorLeft, ScanLeft
  <2> QED BY <1>0, <2>1, <2>2, <2>3, <2>4 DEF StepInv
<1>2. CASE ScanId
  BY <1>0, <1>2 DEF ScanId, Give, NorLeft, ScanLeft
<1>3. CASE ScanCfi
  BY <1>0, <1>3 DEF ScanCfi, NorLeft, ScanLeft
<1>4. CASE ScanRegion
  <2>1. /\ pc = "regions" /\ pc' = "regions" /\ region.i < Cfi[44] /\ region.i \in Nat
        /\ region'.i = region.i + 1
    BY <1>0, <1>4 DEF ScanRegion, StepInv, NorTypeOK
  <2>2. NorLeft = Cfi[44] - region.i + 2 /\ NorLeft' = Cfi[44] - (region.i + 1) + 2
    BY <1>0, <2>1 DEF NorLeft, ScanLeft
  <2> QED BY <1>0, <2>1, <2>2
<1>5. CASE ScanEnd
  <2>1. /\ pc = "regions" /\ pc' = "cycles" /\ command' = "reset" /\ region.i \in Nat
        /\ region.i <= Cfi[44]
    BY <1>0, <1>5 DEF ScanEnd, Give, ScanInv, NorTypeOK
  <2>2. NorLeft = Cfi[44] - region.i + 2 /\ NorLeft' = 1
    BY <1>0, <2>1 DEF NorLeft, ScanLeft
  <2> QED BY <1>0, <2>1, <2>2
<1> QED BY <1>1, <1>2, <1>3, <1>4, <1>5

\* The command cycles of an erase or of a word.
LEMMA CommandStepEnds ==
  ASSUME IInv, job.op # "scan", Cycle
  PROVE  NorLeft \in Nat /\ NorLeft' \in Nat /\ NorLeft' < NorLeft
<1> DEFINE w == WordsLeft
           k == IF job.op = "erase" THEN 6 ELSE 4
<1>1. /\ NorTypeOK /\ StepInv /\ pc = "cycles" /\ n' = n + 1 /\ job' = job /\ w \in Nat
      /\ WordsLeft' = w
  BY WordsLeftIsNat DEF IInv, Cycle, WordsLeft
<1>2. n \in 0..k - 1
  BY <1>1 DEF StepInv
<1>3. IF n = k - 1 THEN pc' = "pre" /\ Busy' ELSE pc' = "cycles"
  <2>1. CASE job.op = "erase"
    <3>1. command = "erase"
      BY <1>1, <2>1 DEF StepInv
    <3>2. Len(Cycles(addr, Val(job.str, i))[command]) = 6 /\ Then[command] = "pre"
      BY <3>1 DEF Cycles, EraseCycles, Then
    <3>3. pc' = IF n + 1 = 6 THEN "pre" ELSE "cycles"
      BY <1>1, <3>2 DEF Cycle
    <3>4. pc' = "pre" => Busy'
      BY <1>1, <3>1, CycleEffect DEF ErasedSector, Busy
    <3> QED BY <1>1, <1>2, <2>1, <3>3, <3>4 DEF NorTypeOK
  <2>2. CASE job.op # "erase"
    <3>1. command = "program"
      BY <1>1, <2>2 DEF StepInv
    <3>2. Len(Cycles(addr, Val(job.str, i))[command]) = 4 /\ Then[command] = "pre"
      BY <3>1 DEF Cycles, ProgramCycles, Then
    <3>3. pc' = IF n + 1 = 4 THEN "pre" ELSE "cycles"
      BY <1>1, <3>2 DEF Cycle
    <3>4. pc' = "pre" => Busy'
      BY <1>1, <3>1, CycleEffect DEF Programmed, Busy
    <3> QED BY <1>1, <1>2, <2>2, <3>3, <3>4 DEF NorTypeOK
  <2> QED BY <2>1, <2>2
<1>4. NorLeft = 9 * w + (k + 5 - n)
  <2>1. NorLeft = 9 * w + (IF job.op = "erase" THEN 11 - n ELSE 9 - n)
    BY <1>1 DEF NorLeft
  <2> HIDE DEF w
  <2>2. (IF job.op = "erase" THEN 11 - n ELSE 9 - n) = k + 5 - n
    BY <1>1 DEF NorTypeOK
  <2> QED BY <2>1, <2>2
<1>5. NorLeft' = 9 * w + (IF n = k - 1 THEN 5 ELSE k + 5 - (n + 1))
  BY <1>1, <1>3 DEF NorLeft, PollLeft
<1>6. k \in {4, 6}
  OBVIOUS
<1> HIDE DEF w, k
<1> QED BY <1>1, <1>2, <1>4, <1>5, <1>6

\* wait_ready.
LEMMA PollStepEnds ==
  ASSUME IInv, ReadPre \/ PollAgain \/ (pc # "lost" /\ ChipReady)
  PROVE  NearerEnd
<1>0. /\ NorTypeOK /\ StepInv /\ pc \in {"pre", "poll"} /\ job.op \in {"erase", "write"}
      /\ job' = job /\ i' = i /\ pc' \in {"pre", "poll"} /\ addr' = addr
  BY DEF IInv, NorTypeOK, StepInv, ReadPre, PollAgain, ChipReady, driverVars
<1> DEFINE w == WordsLeft
           x == PollLeft
           y == PollLeft'
<1>1. w \in Nat /\ WordsLeft' = w
  BY <1>0, WordsLeftIsNat DEF WordsLeft
<1>2. NorLeft = 9 * w + x /\ NorLeft' = 9 * w + y
  BY <1>0, <1>1 DEF NorLeft
<1>3. x \in 1..5 /\ y \in 1..5
  BY DEF PollLeft
<1>4. y < x \/ (PollAgain /\ Busy /\ y = x)
  <2>1. CASE Toggled /\ ~Busy /\ (ReadPre \/ PollAgain)
    <3>1. /\ ~Busy' /\ pre' = Bit6(Dat(addr \div 2)) /\ pc' = "poll"
          /\ Dat(addr \div 2)' = Dat(addr \div 2)
      BY <1>0, <2>1 DEF ReadPre, PollAgain, Toggled, Busy, Dat
    <3>2. y = 1
      BY <1>0, <3>1 DEF PollLeft, Bit6
    <3>3. x # 1
      BY <2>1 DEF PollLeft, ReadPre, PollAgain
    <3> QED BY <1>3, <3>2, <3>3
  <2>2. CASE Toggled /\ Busy /\ (ReadPre \/ PollAgain)
    <3>1. Busy' /\ pc' = "poll"
      BY <2>2 DEF ReadPre, PollAgain, Toggled, Busy
    <3>2. y = 3 /\ x = IF pc = "pre" THEN 5 ELSE 3
      BY <2>2, <3>1 DEF PollLeft
    <3>3. ReadPre => pc = "pre"
      BY DEF ReadPre
    <3> QED BY <1>0, <2>2, <3>2, <3>3
  <2>3. CASE ChipReady
    <3>1. Busy /\ ~Busy' /\ pc' = pc
      BY <2>3 DEF ChipReady, Busy, driverVars
    <3>2. x = (IF pc = "pre" THEN 5 ELSE 3) /\ y \in (IF pc = "pre" THEN {4} ELSE {1, 2})
      BY <3>1 DEF PollLeft
    <3> QED BY <3>2
  <2> QED BY <2>1, <2>2, <2>3 DEF ReadPre, PollAgain
<1> HIDE DEF w, x, y
<1> QED BY <1>1, <1>2, <1>3, <1>4 DEF NearerEnd

\* The end of a word.
LEMMA WordStepEnds ==
  ASSUME IInv, NextWord \/ Done
  PROVE  NorLeft \in Nat /\ NorLeft' \in Nat /\ NorLeft' < NorLeft
<1>0. NorTypeOK /\ StepInv /\ PollInv /\ LoopInv /\ pc = "poll" /\ job.op # "scan" /\ job' = job
  BY DEF IInv, StepInv, NextWord, Done, Ready
<1>1. PollLeft = 1
  BY <1>0, BusyNotReady DEF NextWord, Done, Ready, PollLeft
<1>2. WordsLeft \in Nat /\ NorLeft = 9 * WordsLeft + 1
  BY <1>0, <1>1, WordsLeftIsNat DEF NorLeft
<1>3. CASE Done
  BY <1>2, <1>3 DEF Done, NorLeft
<1>4. CASE NextWord
  <2>1. /\ job.op = "write" /\ i' = i + 2 /\ ~final /\ pc' = "cycles" /\ n' = 0
    BY <1>4 DEF NextWord, WriteWord, Give
  <2>2. /\ job.str \in Seq(1..255) /\ i \in Nat /\ i % 2 = 0 /\ i <= Len(job.str)
    BY <1>0, <2>1, LoopState
  <2>3. InLoop(job.str, i)
    BY <1>0, <2>1 DEF LoopInv, NorTypeOK
  <2>4. i + 2 <= Len(job.str) /\ i + 2 \in Nat /\ (i + 2) % 2 = 0 /\ (i + 2) \div 2 = i \div 2 + 1
        /\ i \div 2 \in Nat
    BY <2>2, <2>3, LoopWords
  <2>5. (i + 2) \div 2 \in 0..WordsFor(job.str) - 1
    BY <2>2, <2>4, LoopWords
  <2> DEFINE l == WordsFor(job.str)
             k == i \div 2
  <2>6. l \in Nat /\ k \in Nat /\ k + 1 \in 0..l - 1
    BY <2>2, <2>4, <2>5, WordsForIsNat
  <2>7. WordsLeft = l - 1 - k /\ WordsLeft' = l - 1 - (k + 1)
    BY <1>0, <2>1, <2>4 DEF WordsLeft
  <2>8. NorLeft' = 9 * WordsLeft' + 9
    BY <1>0, <2>1 DEF NorLeft
  <2> HIDE DEF l, k
  <2>9. NorLeft = 9 * (l - 1 - k) + 1 /\ NorLeft' = 9 * (l - 1 - (k + 1)) + 9
    BY <1>2, <2>7, <2>8
  <2> QED BY <2>6, <2>9
<1> QED BY <1>3, <1>4

\* Scan, erase and write come back to the menu when the chip does not stay busy
\* for good and no key finds the vectors gone: until they do there is a step to
\* take, no command ever running past its cycles and no poll past the end of its
\* operation; and each step, the chip's getting ready among them, brings the end
\* nearer, but for the reads wait_ready makes while the chip is busy.
THEOREM NorOperationsBounded ==
  Spec => /\ [](pc \notin {"menu", "lost"} => NorCanStep)
          /\ [][/\ pc # "lost" /\ (Operation \/ ChipReady) => NearerEnd
                /\ Menu => NorLeft' \in {Cfi[44] + 9, 11, 9 * WordsFor(job'.str)}]_vars
<1>1. IInv => (pc \notin {"menu", "lost"} => NorCanStep)
  <2> SUFFICES ASSUME IInv, pc \notin {"menu", "lost"} PROVE NorCanStep
    OBVIOUS
  <2>0. NorTypeOK /\ StepInv
    BY DEF IInv
  <2>1. CASE pc = "cycles"
    <3> DEFINE a == addr
               v == Val(job.str, i)
               c == Cycles(a, v)
    <3>1. /\ Len(c["id"]) = 3 /\ Len(c["cfi"]) = 2 /\ Len(c["reset"]) = 1
          /\ Len(c["erase"]) = 6 /\ Len(c["program"]) = 4
      <4> HIDE DEF a, v
      <4>1. Len(c["id"]) = 3 /\ Len(c["cfi"]) = 2 /\ Len(c["reset"]) = 1
        BY DEF Cycles
      <4>2. c["erase"] = EraseCycles(a) /\ c["program"] = ProgramCycles(a, v)
        BY DEF Cycles
      <4>3. Len(EraseCycles(a)) = 6 /\ Len(ProgramCycles(a, v)) = 4
        BY DEF EraseCycles, ProgramCycles
      <4> QED BY <4>1, <4>2, <4>3
    <3> HIDE DEF c
    <3>2. \/ command = "id" /\ n \in 0..2
          \/ command = "cfi" /\ n \in 0..1
          \/ command = "reset" /\ n = 0
          \/ command = "program" /\ n \in 0..3
          \/ command = "erase" /\ n \in 0..5
      BY <2>0, <2>1 DEF StepInv
    <3>3. n < Len(c[command])
      <4> DEFINE l == Len(c[command])
      <4>1. command = "id" => l = 3
        BY <3>1, Zenon
      <4>2. command = "cfi" => l = 2
        BY <3>1, Zenon
      <4>3. command = "reset" => l = 1
        BY <3>1, Zenon
      <4>4. command = "program" => l = 4
        BY <3>1, Zenon
      <4>5. command = "erase" => l = 6
        BY <3>1, Zenon
      <4> HIDE DEF l
      <4>6. n < l
        BY <3>2, <4>1, <4>2, <4>3, <4>4, <4>5
      <4> QED BY <4>6 DEF l
    <3> QED BY <2>1, <3>3 DEF NorCanStep, c, a, v
  <2>2. CASE pc # "cycles"
    BY <2>0, <2>2 DEF NorCanStep, NorTypeOK, StepInv
  <2> QED BY <2>1, <2>2
<1>2. ASSUME IInv, ScanInv, pc # "lost", Operation \/ ChipReady PROVE NearerEnd
  <2>1. CASE job.op = "scan" /\ (Cycle \/ ScanId \/ ScanCfi \/ ScanRegion \/ ScanEnd)
    BY <1>2, <2>1, ScanStepEnds DEF NearerEnd
  <2>2. CASE job.op # "scan" /\ Cycle
    BY <1>2, <2>2, CommandStepEnds DEF NearerEnd
  <2>3. CASE ReadPre \/ PollAgain \/ ChipReady
    BY <1>2, <2>3, PollStepEnds
  <2>4. CASE NextWord \/ Done
    BY <1>2, <2>4, WordStepEnds DEF NearerEnd
  <2>5. ScanId \/ ScanCfi \/ ScanRegion \/ ScanEnd => job.op = "scan"
    BY <1>2 DEF IInv, StepInv, ScanId, ScanCfi, ScanRegion, ScanEnd
  <2> QED BY <1>2, <2>1, <2>2, <2>3, <2>4, <2>5 DEF Operation
<1>3. ASSUME Menu PROVE NorLeft' \in {Cfi[44] + 9, 11, 9 * WordsFor(job'.str)}
  <2>1. CASE Scan
    <3>1. pc' = "cycles" /\ command' = "id" /\ n' = 0 /\ job'.op = "scan"
      BY <2>1 DEF Scan, Ask, Give
    <3> QED BY <3>1, RegionCount DEF NorLeft, ScanLeft
  <2>2. CASE \E a \in Addresses : Erase(a)
    <3>1. pc' = "cycles" /\ n' = 0 /\ job'.op = "erase"
      BY <2>2 DEF Erase, Ask, Give
    <3> QED BY <3>1 DEF NorLeft, WordsLeft
  <2>3. CASE \E a \in Addresses : \E s \in Strings : Write(a, s)
    <3>1. PICK s \in Strings : pc' = "cycles" /\ n' = 0 /\ job'.op = "write" /\ i' = 0 /\ job'.str = s
      BY <2>3 DEF Write, WriteWord, Ask, Give
    <3> DEFINE l == WordsFor(s)
    <3>2. l \in Nat
      BY NorAssumption, WordsForIsNat
    <3>3. NorLeft' = 9 * (l - 1 - 0 \div 2) + (9 - 0)
      BY <3>1 DEF NorLeft, WordsLeft
    <3> HIDE DEF l
    <3>4. NorLeft' = 9 * l
      BY <3>2, <3>3
    <3> QED BY <3>1, <3>4 DEF l
  <2> QED BY <1>3, <2>1, <2>2, <2>3 DEF Menu
<1>4. IInv /\ ScanInv /\ [Next]_vars =>
        [/\ pc # "lost" /\ (Operation \/ ChipReady) => NearerEnd
         /\ Menu => NorLeft' \in {Cfi[44] + 9, 11, 9 * WordsFor(job'.str)}]_vars
  BY <1>2, <1>3
<1>5. Init => ScanInv
  BY DEF Init, ScanInv
<1>6. IInv /\ ScanInv /\ [Next]_vars => ScanInv'
  BY ScanKept
<1> QED BY <1>1, <1>4, <1>5, <1>6, Inductive, PTL DEF Spec
=============================================================================
