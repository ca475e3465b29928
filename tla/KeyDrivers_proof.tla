-------------------------- MODULE KeyDrivers_proof --------------------------
(* Proofs about the two key drivers, for any number of keys and processes.   *)
EXTENDS KeyDrivers, TLAPS, SequenceTheorems, FiniteSetTheorems

Pcs == {"user", "down", "request", "wait", "sleep", "copy", "clear", "free", "up"}
CPcs == {"user", "request", "rollback", "free", "wait", "sleep", "reset", "copy", "zero"}
Key == [line : Lines, down : BOOLEAN]

\* The lines are counted from 1 to NLines.
LEMMA LineSteps ==
  /\ 1 \in Lines
  /\ \A l \in Lines : l \in Nat /\ 1 <= l /\ l <= NLines
  /\ \A l \in Lines : l < NLines => l + 1 \in Lines
  /\ \A l \in Lines : l # 1 => l - 1 \in Lines
BY KeyLinesAssumption DEF Lines

\* button_irqs lists the lines backwards.
LEMMA CLineFacts ==
  ASSUME NEW i \in Lines PROVE CLine(i) \in Lines /\ CLine(CLine(i)) = i
BY KeyLinesAssumption DEF Lines, CLine

\* A step of ButtonDriver leaves the types.
LEMMA ButtonTypes == TypeOK /\ ButtonNext /\ UNCHANGED pressVars => TypeOK'
<1> SUFFICES ASSUME TypeOK, ButtonNext, UNCHANGED pressVars PROVE TypeOK'
    OBVIOUS
<1>0. PressType'
  BY DEF TypeOK, PressType, pressVars, countVars
<1> USE <1>0, LineSteps DEF TypeOK, LinesType
<1>1. ASSUME NEW p \in Users, OpenNonblock(p) \/ Open(p) \/ Down(p) PROVE TypeOK'
  BY <1>1 DEF OpenNonblock, Open, Down, At, Go, ButtonType, keyVars, fileVars, lineVars
<1>2. ASSUME NEW p \in Users, Request(p) PROVE TypeOK'
  BY <1>2 DEF Request, NextLine, Take, Nobody, At, Go, ButtonType, keyVars, lineVars
<1>3. ASSUME NEW p \in Users, Release(p) \/ Up(p) PROVE TypeOK'
  BY <1>3 DEF Release, Up, At, Go, ButtonType, keyVars, lineVars
<1>4. ASSUME NEW p \in Users, FreeLine(p) PROVE TypeOK'
  BY <1>4 DEF FreeLine, NextLine, Free, Nobody, At, Go, ButtonType, keyVars
<1>5. ASSUME NEW p \in Users, Read(p) \/ ReadStep(p) \/ Signal(p) PROVE TypeOK'
  BY <1>5 DEF Read, ReadStep, Wait, Copy, Clear, Signal, At, Go, ButtonType, keyVars, fileVars,
     lineVars
<1>6. ASSUME NEW l \in Lines, EnterIrq(l) PROVE TypeOK'
  <2>1. [line |-> l, down |-> Level(l)] \in Key
    BY DEF Key, Level
  <2>2. running' \in Seq(Key)
    BY <1>6, <2>1 DEF EnterIrq, ButtonType, Key
  <2> QED BY <1>6, <2>2 DEF EnterIrq, ButtonType, Key, fileVars
<1>7. ASSUME LeaveIrq PROVE TypeOK'
  <2>1. running \in Seq(Key) /\ Len(running) \in 1..Len(running)
    BY <1>7 DEF LeaveIrq, ButtonType, Key
  <2>2. key_val' \in Key /\ running' \in Seq(Key)
    BY <1>7, <2>1 DEF LeaveIrq
  <2>3. pc' \in [Users -> Pcs]
    BY <1>7 DEF LeaveIrq, Woken, ButtonType, Pcs
  <2> QED BY <1>7, <2>2, <2>3 DEF LeaveIrq, ButtonType, Key, Pcs, fileVars, lineVars
<1> QED BY <1>1, <1>2, <1>3, <1>4, <1>5, <1>6, <1>7 DEF ButtonNext, OpenClose

\* A step of PressDriver leaves the types.
LEMMA PressTypes ==
  TypeOK /\ (Processes \/ \E l \in Lines : CountIrq(l)) /\ UNCHANGED buttonVars => TypeOK'
<1> SUFFICES ASSUME TypeOK, Processes \/ \E l \in Lines : CountIrq(l), UNCHANGED buttonVars
             PROVE  TypeOK'
    OBVIOUS
<1>0. ButtonType'
  BY DEF TypeOK, ButtonType, buttonVars, fileVars, keyVars
<1> USE LineSteps DEF TypeOK, LinesType, PressType, countVars, lineVars, CAt, CGo
<1>1. ASSUME NEW p \in Counters, COpen(p) \/ CRelease(p) PROVE TypeOK'
  BY <1>0, <1>1 DEF COpen, CRelease
<1>2. ASSUME NEW p \in Counters, CRequest(p) PROVE TypeOK'
  <2>1. owner' \in [Lines -> {Nobody, "sixth_drv", "s3c24xx_buttons"}]
    BY <1>2, CLineFacts DEF CRequest, Take
  <2>2. cpc' \in [Counters -> CPcs] /\ cline' \in [Counters -> Lines] /\ copen' \in BOOLEAN
    BY <1>2 DEF CRequest, CPcs
  <2> QED BY <1>0, <1>2, <2>1, <2>2 DEF CRequest, CPcs
<1>3. ASSUME NEW p \in Counters, CRequestFails(p) PROVE TypeOK'
  <2>1. cpc' \in [Counters -> CPcs] /\ cline' \in [Counters -> Lines]
    BY <1>3 DEF CRequestFails, CPcs
  <2> QED BY <1>0, <1>3, <2>1 DEF CRequestFails, CPcs
<1>4. ASSUME NEW p \in Counters, CRollback(p) \/ CFreeLine(p) PROVE TypeOK'
  <2>1. owner' \in [Lines -> {Nobody, "sixth_drv", "s3c24xx_buttons"}]
    BY <1>4 DEF CRollback, CFreeLine, Free
  <2>2. cpc' \in [Counters -> CPcs] /\ cline' \in [Counters -> Lines]
    BY <1>4 DEF CRollback, CFreeLine, CPcs
  <2> QED BY <1>0, <1>4, <2>1, <2>2 DEF CRollback, CFreeLine, CPcs
<1>6. ASSUME NEW p \in Counters,
             CRead(p) \/ CWait(p) \/ CSignal(p) \/ CReset(p) \/ CCopy(p) \/ CZero(p)
      PROVE  TypeOK'
  <2>1. cpc' \in [Counters -> CPcs]
    BY <1>6 DEF CRead, CWait, CSignal, CReset, CCopy, CZero, CPcs
  <2>2. press_cnt' \in [Lines -> Nat]
    BY <1>6 DEF CRead, CWait, CSignal, CReset, CCopy, CZero
  <2>3. given' \in [Counters -> 0..NLines]
    BY <1>6, KeyLinesAssumption DEF CRead, CWait, CSignal, CReset, CCopy, CZero
  <2>4. fresh' \in SUBSET Lines
    BY <1>6 DEF CRead, CWait, CSignal, CReset, CCopy, CZero
  <2> QED
    BY <1>0, <1>6, <2>1, <2>2, <2>3, <2>4 DEF CRead, CWait, CSignal, CReset, CCopy, CZero, CPcs
<1>5. ASSUME NEW l \in Lines, CountIrq(l) PROVE TypeOK'
  <2>1. cpc' \in [Counters -> CPcs]
    BY <1>5 DEF CountIrq, CPcs
  <2>2. press_cnt' \in [Lines -> Nat]
    BY <1>5 DEF CountIrq
  <2>3. fresh' \in SUBSET Lines /\ pending' \in SUBSET Lines
    <3>1. l \in Lines /\ fresh \in SUBSET Lines /\ pending \in SUBSET Lines
      OBVIOUS
    <3>2. fresh' = fresh \ {l} \/ fresh' = fresh \cup {l}
      BY <1>5 DEF CountIrq
    <3> QED BY <1>5, <3>1, <3>2 DEF CountIrq
  <2> QED BY <1>0, <1>5, <2>1, <2>2, <2>3 DEF CountIrq, CPcs
<1> QED BY <1>1, <1>2, <1>3, <1>4, <1>5, <1>6 DEF Processes, CProcess

\* Whatever the processes, the keys and the handlers do, every variable of the
\* two drivers keeps its type.
THEOREM KeyTypeCorrect == Spec => []TypeOK
<1>1. Init => TypeOK
  <2> SUFFICES ASSUME Init PROVE TypeOK
      OBVIOUS
  <2>1. LinesType
    BY KeyLinesAssumption DEF Init, LinesInit, LinesType
  <2>2. ButtonType
    BY LineSteps, <<>> \in Seq(Key) DEF Init, ButtonInit, ButtonType, Key
  <2>3. PressType
    <3>1. given \in [Counters -> 0..NLines]
      <4>1. 0 \in 0..NLines
        BY KeyLinesAssumption
      <4> QED BY <4>1 DEF Init, PressInit
    <3>2. /\ cpc = [p \in Counters |-> "user"] /\ cline = [p \in Counters |-> 1] /\ copen = FALSE
          /\ press_cnt = [l \in Lines |-> 0] /\ cev_press = FALSE /\ fresh = {}
      BY DEF Init, PressInit
    <3>3. 1 \in Lines
      BY LineSteps
    <3> QED BY <3>1, <3>2, <3>3 DEF PressType
  <2> QED BY <2>1, <2>2, <2>3 DEF TypeOK
<1>2. TypeOK /\ [Next]_vars => TypeOK'
  <2> SUFFICES ASSUME TypeOK, [Next]_vars PROVE TypeOK'
      OBVIOUS
  <2>1. CASE ButtonNext /\ UNCHANGED pressVars
    BY <2>1, ButtonTypes
  <2>2. CASE (Processes \/ \E l \in Lines : CountIrq(l)) /\ UNCHANGED buttonVars
    BY <2>2, PressTypes
  <2>3. ASSUME NEW l \in Lines, Edge(l), unread' = unread \cup {l},
               UNCHANGED <<fileVars, pc, ev_press, key_val, running, event, pressVars>>
        PROVE  TypeOK'
    BY <2>3, KeyLinesAssumption DEF TypeOK, LinesType, ButtonType, PressType, Edge, fileVars,
       pressVars, countVars
  <2>4. CASE UNCHANGED vars
    BY <2>4 DEF vars, lineVars, buttonVars, fileVars, keyVars, pressVars, countVars,
       TypeOK, LinesType, ButtonType, PressType
  <2> QED BY <2>1, <2>2, <2>3, <2>4 DEF Next
<1> QED BY <1>1, <1>2, PTL DEF Spec
-----------------------------------------------------------------------------
(* The flag and the event, and the sleepers.  Once a process has copied the event and  *)
(* has not yet cleared the flag, the last event is not an unseen one: it is    *)
(* the copied one, or a later one that the clearing will drop.                 *)
ClearingInv == Clearing => event # "unseen"
FlagInv == TypeOK /\ ClearingInv /\ FlagMatchesEvent /\ NoSleeperMissesEvent

\* Only the handlers and the processes of ButtonDriver touch the flag.
LEMMA FlagSteps == FlagInv /\ TypeOK' /\ [Next]_vars => FlagInv'
<1> SUFFICES ASSUME FlagInv, TypeOK', [Next]_vars
             PROVE  (ClearingInv /\ FlagMatchesEvent /\ NoSleeperMissesEvent)'
    BY DEF FlagInv
<1> USE DEF FlagInv, ClearingInv, FlagMatchesEvent, NoSleeperMissesEvent, Clearing
<1>0. pc \in [Users -> Pcs]
  BY DEF TypeOK, ButtonType, Pcs
<1>1. ASSUME NEW p \in Users, OpenClose(p)
      PROVE  (ClearingInv /\ FlagMatchesEvent /\ NoSleeperMissesEvent)'
  BY <1>0, <1>1 DEF OpenClose, OpenNonblock, Open, Down, Request, Release, FreeLine, Up,
     NextLine, At, Go, keyVars
<1>2. ASSUME NEW p \in Users, Read(p) \/ Wait(p)
      PROVE  (ClearingInv /\ FlagMatchesEvent /\ NoSleeperMissesEvent)'
  BY <1>0, <1>2 DEF Read, Wait, At, Go, keyVars
<1>3. ASSUME NEW p \in Users, Copy(p) \/ Clear(p) \/ Signal(p)
      PROVE  (ClearingInv /\ FlagMatchesEvent /\ NoSleeperMissesEvent)'
  BY <1>0, <1>3 DEF Copy, Clear, Signal, At, Go, keyVars
<1>4. ASSUME NEW l \in Lines, EnterIrq(l)
      PROVE  (ClearingInv /\ FlagMatchesEvent /\ NoSleeperMissesEvent)'
  BY <1>4 DEF EnterIrq
<1>5. ASSUME LeaveIrq
      PROVE  (ClearingInv /\ FlagMatchesEvent /\ NoSleeperMissesEvent)'
  BY <1>0, <1>5 DEF LeaveIrq, Woken, Pcs
<1>6. ASSUME UNCHANGED <<pc, ev_press, event>>
      PROVE  (ClearingInv /\ FlagMatchesEvent /\ NoSleeperMissesEvent)'
  BY <1>6
<1> QED BY <1>1, <1>2, <1>3, <1>4, <1>5, <1>6 DEF Next, ButtonNext, ReadStep, buttonVars, keyVars,
    vars

\* No key event is lost outside the two statements that end a read, and the
\* flag never announces one that was read.
THEOREM FlagCorrect == Spec => []FlagMatchesEvent
<1>1. Init => ClearingInv /\ FlagMatchesEvent /\ NoSleeperMissesEvent
  BY DEF Init, ButtonInit, ClearingInv, Clearing, FlagMatchesEvent, NoSleeperMissesEvent
<1> QED BY <1>1, FlagSteps, KeyTypeCorrect, PTL DEF Spec, FlagInv

\* No process sleeps while an event waits: the condition is looked at again by
\* everyone a handler wakes.
THEOREM NoMissedWakeUp == Spec => []NoSleeperMissesEvent
<1>1. Init => ClearingInv /\ FlagMatchesEvent /\ NoSleeperMissesEvent
  BY DEF Init, ButtonInit, ClearingInv, Clearing, FlagMatchesEvent, NoSleeperMissesEvent
<1> QED BY <1>1, FlagSteps, KeyTypeCorrect, PTL DEF Spec, FlagInv
-----------------------------------------------------------------------------
(* button_lock.  A close has freed the lines before the one it is at.          *)
Freed(p) == CASE pc[p] = "free" -> {l \in Lines : l < line}
              [] pc[p] = "up"   -> Lines
              [] OTHER          -> {}
LockInv ==
  /\ TypeOK /\ OpenIsExclusive
  /\ file \in {"opening", "closing"} => \E p \in Users : Busy(p)
  /\ \A p \in Users : \A l \in Freed(p) : owner[l] # "sixth_drv"

\* At most one process is in open's and close's loops, and it holds button_lock.
LEMMA LockSteps == LockInv /\ TypeOK' /\ [Next]_vars => LockInv'
<1> SUFFICES ASSUME LockInv, TypeOK', [Next]_vars PROVE LockInv'
    OBVIOUS
<1> USE LineSteps DEF LockInv, OpenIsExclusive, Busy, Freed
<1>0. /\ pc \in [Users -> Pcs] /\ owner \in [Lines -> {Nobody, "sixth_drv", "s3c24xx_buttons"}]
      /\ line \in Lines /\ locked \in BOOLEAN
  BY DEF TypeOK, LinesType, ButtonType, Pcs
<1>1. ASSUME NEW p \in Users, OpenNonblock(p) \/ Down(p) PROVE LockInv'
  BY <1>0, <1>1 DEF OpenNonblock, Down, At, Go, lineVars
<1>2. ASSUME NEW p \in Users, Open(p) \/ Read(p) \/ ReadStep(p) \/ Signal(p) PROVE LockInv'
  BY <1>0, <1>2 DEF Open, Read, ReadStep, Wait, Copy, Clear, Signal, At, Go, fileVars, lineVars
<1>3. ASSUME NEW p \in Users, Request(p) PROVE LockInv'
  BY <1>0, <1>3 DEF Request, NextLine, Take, At, Go
<1>4. ASSUME NEW p \in Users, Release(p) PROVE LockInv'
  BY <1>0, <1>4 DEF Release, At, Go, lineVars
<1>5. ASSUME NEW p \in Users, FreeLine(p) PROVE LockInv'
  <2>1. \A l \in Lines : l <= line => owner'[l] # "sixth_drv"
    BY <1>0, <1>5 DEF FreeLine, Free, At, Nobody
  <2>2. CASE line < NLines
    BY <1>0, <1>5, <2>1, <2>2 DEF FreeLine, NextLine, At, Go
  <2>3. CASE ~(line < NLines)
    <3>1. \A l \in Lines : owner'[l] # "sixth_drv"
      BY <1>0, <2>1, <2>3, KeyLinesAssumption
    <3> QED BY <1>0, <1>5, <3>1, <2>3 DEF FreeLine, NextLine, At, Go
  <2> QED BY <2>2, <2>3
<1>6. ASSUME NEW p \in Users, Up(p) PROVE LockInv'
  BY <1>0, <1>6 DEF Up, At, Go, lineVars
<1>7. ASSUME NEW l \in Lines, EnterIrq(l) PROVE LockInv'
  BY <1>0, <1>7 DEF EnterIrq, fileVars
<1>8. ASSUME LeaveIrq PROVE LockInv'
  <2>1. \A p \in Users : pc[p] \in {"request", "free", "up"} <=> pc'[p] \in {"request", "free", "up"}
    BY <1>0, <1>8 DEF LeaveIrq, Woken
  <2>2. \A p \in Users : pc[p] \in {"request", "free", "up"} => pc'[p] = pc[p]
    BY <1>0, <1>8 DEF LeaveIrq, Woken
  <2> QED BY <1>0, <1>8, <2>1, <2>2 DEF LeaveIrq, fileVars, lineVars
<1>9. ASSUME NEW p \in Counters, CProcess(p), UNCHANGED buttonVars PROVE LockInv'
  <2>1. \A l \in Lines : owner'[l] = "sixth_drv" => owner[l] = "sixth_drv"
    BY <1>0, <1>9 DEF CProcess, COpen, CRequest, CRequestFails, CRollback, CRelease, CFreeLine,
       CRead, CWait, CSignal, CReset, CCopy, CZero, Take, Free, Nobody, lineVars
  <2> QED BY <1>0, <1>9, <2>1 DEF buttonVars, fileVars
<1>10. ASSUME UNCHANGED <<fileVars, pc, owner>> PROVE LockInv'
  BY <1>10 DEF fileVars
<1>11. ASSUME NEW l \in Lines, CountIrq(l), UNCHANGED buttonVars PROVE LockInv'
  BY <1>10, <1>11 DEF CountIrq, buttonVars
<1>12. ASSUME NEW l \in Lines, Edge(l), UNCHANGED <<fileVars, pc>> PROVE LockInv'
  BY <1>10, <1>12 DEF Edge
<1> QED
  BY <1>1, <1>2, <1>3, <1>4, <1>5, <1>6, <1>7, <1>8, <1>9, <1>10, <1>11, <1>12
     DEF Next, ButtonNext, OpenClose, Processes, vars, buttonVars, lineVars

\* Open and close never overlap, the lock is held from open's first step to
\* close's last, and a closed device has no interrupt line left.
THEOREM ExclusiveOpen == Spec => []OpenIsExclusive
<1>1. Init /\ TypeOK => LockInv
  BY DEF Init, LinesInit, ButtonInit, LockInv, OpenIsExclusive, Busy, Freed, Nobody
<1> QED BY <1>1, LockSteps, KeyTypeCorrect, PTL DEF Spec, LockInv
-----------------------------------------------------------------------------
(* The level in key_val.  Handlers of one line never nest, so that a handler  *)
(* in progress stands alone for its line.                                      *)
LevelInv ==
  /\ TypeOK /\ KeyValIsCurrent
  /\ \A i, j \in 1..Len(running) : running[i].line = running[j].line => i = j

\* Every step that moves a key, reads a pin or stores an event keeps the levels.
LEMMA LevelSteps == LevelInv /\ TypeOK' /\ [Next]_vars => LevelInv'
<1> SUFFICES ASSUME LevelInv, TypeOK', [Next]_vars PROVE LevelInv'
    OBVIOUS
<1> USE DEF LevelInv, KeyValIsCurrent
<1>0. /\ running \in Seq(Key) /\ unread \in SUBSET Lines /\ pressed \in [Lines -> BOOLEAN]
      /\ Len(running) \in Nat /\ \A i \in 1..Len(running) : running[i] \in Key
  <2>1. running \in Seq(Key)
    BY DEF TypeOK, ButtonType, Key
  <2>2. unread \in SUBSET Lines /\ pressed \in [Lines -> BOOLEAN]
    BY DEF TypeOK, LinesType, ButtonType
  <2> QED BY <2>1, <2>2, LenProperties, ElementOfSeq
<1>1. ASSUME UNCHANGED <<pressed, key_val, running, unread>> PROVE LevelInv'
  BY <1>1
<1>2. ASSUME NEW l \in Lines, EnterIrq(l) PROVE LevelInv'
  <2> DEFINE n == Len(running)
             k == [line |-> l, down |-> pressed[l]]
  <2>1. /\ running' = Append(running, k) /\ Len(running') = n + 1
        /\ running'[n + 1] = k /\ \A i \in 1..n : running'[i] = running[i]
    BY <1>0, <1>2 DEF EnterIrq, Level, Key
  <2>2. /\ \A i \in 1..n : running[i].line # l
        /\ UNCHANGED <<pressed, key_val>> /\ unread' = unread \ {l}
    BY <1>2 DEF EnterIrq
  <2>3. \A i \in 1..(n + 1) : i \in 1..n \/ i = n + 1
    BY <1>0
  <2>4. n + 1 \in 1..(n + 1) /\ \A i \in 1..n : i \in 1..(n + 1)
    BY <1>0
  <2>5. \A i, j \in 1..Len(running') : running'[i].line = running'[j].line => i = j
    BY <2>1, <2>2, <2>3
  <2>6. \A m \in Lines : m \notin unread' =>
          \A i \in 1..Len(running') : running'[i].line = m => running'[i].down = pressed'[m]
    BY <2>1, <2>2, <2>3
  <2>7. \A m \in Lines :
          key_val'.line = m /\ m \notin unread' /\ (\A i \in 1..Len(running') : running'[i].line # m)
            => key_val'.down = pressed'[m]
    BY <2>1, <2>2, <2>4
  <2> QED BY <2>5, <2>6, <2>7
<1>3. ASSUME LeaveIrq PROVE LevelInv'
  <2> DEFINE n == Len(running)
  <2>1. n \in 1..n
    BY <1>0, <1>3, EmptySeq DEF LeaveIrq
  <2>2. /\ key_val' = running[n] /\ running' = SubSeq(running, 1, n - 1)
        /\ UNCHANGED <<pressed, unread>>
    BY <1>3 DEF LeaveIrq, lineVars
  <2>3. 1 \in Int /\ n - 1 \in Int /\ \A i \in 1..(n - 1) : i \in 1..n /\ i # n
    BY <1>0
  <2>4. Len(running') = n - 1 /\ \A i \in 1..(n - 1) : running'[i] = running[i]
    <3>1. \A i \in 1..(n - 1) : running[i] \in Key
      BY <1>0, <2>3
    <3>2. /\ Len(SubSeq(running, 1, n - 1)) = IF 1 <= n - 1 THEN (n - 1) - 1 + 1 ELSE 0
          /\ \A i \in 1..((n - 1) - 1 + 1) :
               SubSeq(running, 1, n - 1)[i] = running[1 + i - 1]
      BY <2>3, <3>1, SubSeqProperties
    <3>3. /\ (n - 1) - 1 + 1 = n - 1 /\ (IF 1 <= n - 1 THEN (n - 1) - 1 + 1 ELSE 0) = n - 1
          /\ \A i \in 1..(n - 1) : 1 + i - 1 = i
      <4>1. n \in Nat /\ n >= 1
        BY <1>0, <2>1
      <4> HIDE DEF n
      <4> QED BY <4>1
    <3> QED BY <2>2, <3>2, <3>3
  <2>5. \A i, j \in 1..Len(running') : running'[i].line = running'[j].line => i = j
    BY <2>3, <2>4
  <2>6. \A m \in Lines : m \notin unread' =>
          \A i \in 1..Len(running') : running'[i].line = m => running'[i].down = pressed'[m]
    BY <2>2, <2>3, <2>4
  <2>7. \A m \in Lines :
          key_val'.line = m /\ m \notin unread' /\ (\A i \in 1..Len(running') : running'[i].line # m)
            => key_val'.down = pressed'[m]
    BY <2>1, <2>2
  <2> QED BY <2>5, <2>6, <2>7
<1>4. ASSUME NEW l \in Lines, Edge(l), unread' = unread \cup {l}, UNCHANGED <<key_val, running>>
      PROVE  LevelInv'
  BY <1>0, <1>4 DEF Edge
<1>5. ASSUME NEW p \in Users, OpenClose(p) \/ Read(p) \/ ReadStep(p) \/ Signal(p) PROVE LevelInv'
  BY <1>1, <1>5 DEF OpenClose, OpenNonblock, Open, Down, Request, Release, FreeLine, Up, Read,
     ReadStep, Wait, Copy, Clear, Signal, keyVars, lineVars
<1>6. ASSUME Processes \/ \E l \in Lines : CountIrq(l), UNCHANGED buttonVars PROVE LevelInv'
  BY <1>1, <1>6 DEF Processes, CProcess, COpen, CRequest, CRequestFails, CRollback, CRelease,
     CFreeLine, CRead, CWait, CSignal, CReset, CCopy, CZero, CountIrq, buttonVars, keyVars, lineVars
<1> QED
  BY <1>1, <1>2, <1>3, <1>4, <1>5, <1>6 DEF Next, ButtonNext, vars, buttonVars, keyVars, lineVars

\* However the handlers of different keys interrupt each other, the level given
\* to a reader is the key's, or an edge has come whose handler is still to run.
THEOREM LevelCorrect == Spec => []KeyValIsCurrent
<1>1. Init /\ TypeOK => LevelInv
  <2> SUFFICES ASSUME Init, TypeOK PROVE LevelInv
      OBVIOUS
  <2>1. running = <<>> /\ Len(running) = 0 /\ key_val.line = 0
    BY DEF Init, ButtonInit, NoKey
  <2>2. 1..0 = {} /\ \A l \in Lines : l # 0
    BY LineSteps
  <2> QED BY <2>1, <2>2 DEF LevelInv, KeyValIsCurrent
<1> QED BY <1>1, LevelSteps, KeyTypeCorrect, PTL DEF Spec, LevelInv
-----------------------------------------------------------------------------
(* The counts.  A reader that has copied them and not yet cleared them has     *)
(* left nothing fresh but what it did not copy.                                *)
CountInv ==
  /\ TypeOK /\ CountsAreAnnounced /\ PressLostOnlyInWindow
  /\ \A p \in Counters : cpc[p] = "zero" => fresh \subseteq {CLine(i) : i \in (given[p] + 1)..NLines}

\* Only readers and the handler touch the counts and their flag.
LEMMA CountSteps == CountInv /\ TypeOK' /\ [Next]_vars => CountInv'
<1> SUFFICES ASSUME CountInv, TypeOK', [Next]_vars PROVE CountInv'
    OBVIOUS
<1> USE DEF CountInv, CountsAreAnnounced, PressLostOnlyInWindow
<1>0. /\ cpc \in [Counters -> CPcs] /\ press_cnt \in [Lines -> Nat]
      /\ fresh \in SUBSET Lines /\ cev_press \in BOOLEAN /\ given \in [Counters -> 0..NLines]
  BY DEF TypeOK, PressType, CPcs
<1>1. ASSUME UNCHANGED <<cpc, countVars>> PROVE CountInv'
  BY <1>1 DEF countVars
<1>2. ASSUME NEW p \in Counters,
             COpen(p) \/ CRequest(p) \/ CRequestFails(p) \/ CRollback(p) \/ CRelease(p)
               \/ CFreeLine(p) \/ CRead(p) \/ CWait(p) \/ CSignal(p)
      PROVE  CountInv'
  <2>1. /\ UNCHANGED countVars /\ cpc[p] \notin {"copy", "zero"}
        /\ \E to \in CPcs \ {"copy", "zero"} : cpc' = [cpc EXCEPT ![p] = to] \/ cpc' = cpc
    BY <1>0, <1>2 DEF COpen, CRequest, CRequestFails, CRollback, CRelease, CFreeLine, CRead, CWait,
       CSignal, CAt, CGo, CPcs
  <2>2. \A q \in Counters : \A at \in {"copy", "zero"} : cpc'[q] = at <=> cpc[q] = at
    BY <1>0, <2>1
  <2> QED BY <1>0, <2>1, <2>2 DEF countVars
<1>3. ASSUME NEW p \in Counters, CReset(p) PROVE CountInv'
  BY <1>0, <1>3 DEF CReset, CAt, CGo
<1>4. ASSUME NEW p \in Counters, CCopy(p) PROVE CountInv'
  <2>1. PICK n \in 0..NLines : /\ given' = [given EXCEPT ![p] = n]
                               /\ fresh' = fresh \ {CLine(i) : i \in 1..n}
    BY <1>4 DEF CCopy
  <2>2. cpc[p] = "copy" /\ cpc' = [cpc EXCEPT ![p] = "zero"] /\ UNCHANGED <<press_cnt, cev_press>>
    BY <1>4 DEF CCopy, CAt, CGo
  <2>3. ASSUME NEW l \in fresh' PROVE \E i \in (n + 1)..NLines : l = CLine(i)
    <3>1. l \in Lines /\ CLine(l) \in Lines /\ CLine(CLine(l)) = l
      BY <1>0, <2>1, CLineFacts
    <3>2. CLine(l) \notin 1..n
      BY <2>1, <3>1
    <3>3. CLine(l) \in (n + 1)..NLines
      BY <2>1, <3>1, <3>2, KeyLinesAssumption DEF Lines
    <3> QED BY <3>1, <3>3
  <2>4. ASSUME NEW q \in Counters, cpc'[q] = "zero"
        PROVE  fresh' \subseteq {CLine(i) : i \in (given'[q] + 1)..NLines}
    <3>1. CASE q = p
      <4>1. given'[q] = n
        BY <1>0, <2>1, <3>1
      <4> QED BY <2>3, <4>1
    <3>2. CASE q # p
      BY <1>0, <2>1, <2>2, <2>4, <3>2
    <3> QED BY <3>1, <3>2
  <2>5. CountsAreAnnounced'
    BY <1>0, <2>2
  <2>6. PressLostOnlyInWindow'
    BY <2>1, <2>2
  <2> QED BY <2>4, <2>5, <2>6
<1>5. ASSUME NEW p \in Counters, CZero(p) PROVE CountInv'
  <2>1. fresh' = {}
    BY <1>5 DEF CZero, CAt
  <2>2. press_cnt' = [l \in Lines |-> 0]
    BY <1>5 DEF CZero
  <2> QED BY <2>1, <2>2
<1>6. ASSUME NEW l \in Lines, CountIrq(l) PROVE CountInv'
  <2>1. \A q \in Counters : \A at \in {"copy", "zero"} : cpc'[q] = at <=> cpc[q] = at
    BY <1>0, <1>6 DEF CountIrq
  <2>2. /\ press_cnt' \in [Lines -> Nat] /\ press_cnt'[l] > 0
        /\ \A m \in Lines : m # l => press_cnt'[m] = press_cnt[m]
    BY <1>0, <1>6 DEF CountIrq
  <2>3. /\ cev_press' = TRUE /\ given' = given
        /\ IF \E q \in Counters : cpc[q] = "zero" THEN fresh' = fresh \ {l} ELSE fresh' = fresh \cup {l}
    BY <1>6 DEF CountIrq
  <2> QED BY <1>0, <2>1, <2>2, <2>3
<1>7. ASSUME ButtonNext, UNCHANGED pressVars PROVE CountInv'
  BY <1>1, <1>7 DEF pressVars
<1> QED
  BY <1>1, <1>2, <1>3, <1>4, <1>5, <1>6, <1>7 DEF Next, Processes, CProcess, vars, pressVars

\* No press waits for the next one to be reported.
THEOREM PressesAnnounced == Spec => []CountsAreAnnounced
<1>1. Init /\ TypeOK => CountInv
  BY DEF Init, PressInit, CountInv, CountsAreAnnounced, PressLostOnlyInWindow
<1> QED BY <1>1, CountSteps, KeyTypeCorrect, PTL DEF Spec, CountInv

\* No press is lost outside the two statements that end a read, except by a read
\* that clears counts it did not give.
THEOREM PressesCounted == Spec => []PressLostOnlyInWindow
<1>1. Init /\ TypeOK => CountInv
  BY DEF Init, PressInit, CountInv, CountsAreAnnounced, PressLostOnlyInWindow
<1> QED BY <1>1, CountSteps, KeyTypeCorrect, PTL DEF Spec, CountInv
-----------------------------------------------------------------------------
(* Who holds the lines of PressDriver: the open device, or the opens and      *)
(* closes in progress, each a stretch of its own.                              *)
Holds(p) == CASE cpc[p] = "request"  -> {l \in Lines : CLine(l) < cline[p]}
              [] cpc[p] = "rollback" -> {l \in Lines : CLine(l) <= cline[p]}
              [] cpc[p] = "free"     -> {l \in Lines : CLine(l) >= cline[p]}
              [] OTHER               -> {}
HoldInv ==
  /\ TypeOK
  /\ \A l \in Lines : owner[l] = "s3c24xx_buttons" <=> copen \/ \E p \in Counters : l \in Holds(p)
  /\ copen => \A p \in Counters : Holds(p) = {}
  /\ \A p, q \in Counters : p # q => Holds(p) \cap Holds(q) = {}

\* An open that is refused a line gives back its own lines and no others.
LEMMA HoldSteps == HoldInv /\ TypeOK' /\ [Next]_vars => HoldInv'
<1> SUFFICES ASSUME HoldInv, TypeOK', [Next]_vars PROVE HoldInv'
    OBVIOUS
<1> USE DEF HoldInv
<1>0. /\ cpc \in [Counters -> CPcs] /\ cline \in [Counters -> Lines]
      /\ owner \in [Lines -> {Nobody, "sixth_drv", "s3c24xx_buttons"}] /\ copen \in BOOLEAN
  BY DEF TypeOK, LinesType, PressType, CPcs
<1>1. ASSUME UNCHANGED copen, \A p \in Counters : Holds(p)' = Holds(p),
             \A l \in Lines : owner'[l] = "s3c24xx_buttons" <=> owner[l] = "s3c24xx_buttons"
      PROVE  HoldInv'
  BY <1>1
\* p alone moves, and what it holds changes as the table does.
<1>2. ASSUME NEW p \in Counters, NEW l \in Lines, UNCHANGED copen, ~copen,
             \A q \in Counters : q # p => Holds(q)' = Holds(q),
             \A m \in Lines : m # l => owner'[m] = owner[m],
             \/ /\ Holds(p)' = Holds(p) \cup {l} /\ owner[l] = Nobody /\ owner'[l] = "s3c24xx_buttons"
             \/ /\ Holds(p)' = Holds(p) \ {l} /\ l \in Holds(p) /\ owner'[l] = Nobody
      PROVE  HoldInv'
  BY <1>2 DEF Nobody
<1>3. ASSUME NEW p \in Counters, COpen(p) PROVE HoldInv'
  <2>1. /\ cpc[p] = "user" /\ cpc'[p] = "request" /\ cline'[p] = 1
    BY <1>0, <1>3 DEF COpen, CAt, CGo
  <2>4. Holds(p) = {} /\ Holds(p)' = {l \in Lines : CLine(l) < 1}
    BY <2>1 DEF Holds
  <2>5. \A l \in Lines : ~(CLine(l) < 1)
    BY KeyLinesAssumption DEF Lines, CLine
  <2>2. \A q \in Counters : q # p => Holds(q)' = Holds(q)
    BY <1>0, <1>3 DEF COpen, CGo, Holds
  <2>3. Holds(p)' = Holds(p)
    BY <2>4, <2>5
  <2> QED BY <1>1, <1>3, <2>2, <2>3 DEF COpen, lineVars
<1>4. ASSUME NEW p \in Counters, CRequest(p) PROVE HoldInv'
  <2>1. \A q \in Counters : q # p => Holds(q)' = Holds(q)
    BY <1>0, <1>4 DEF CRequest, CGo, Holds
  <2>2. /\ owner[CLine(cline[p])] = Nobody /\ owner'[CLine(cline[p])] = "s3c24xx_buttons"
        /\ cline[p] \in Lines /\ CLine(cline[p]) \in Lines
        /\ \A m \in Lines : m # CLine(cline[p]) => owner'[m] = owner[m]
    BY <1>0, <1>4, CLineFacts DEF CRequest, Take
  <2>3. ~copen
    BY <2>2 DEF Nobody
  <2>4. CASE cline[p] < NLines
    <3>1. cpc[p] = "request" /\ cpc'[p] = "request" /\ cline'[p] = cline[p] + 1 /\ UNCHANGED copen
      BY <1>0, <1>4, <2>4 DEF CRequest, CAt
    <3>2. Holds(p)' = {l \in Lines : CLine(l) < cline[p] + 1} /\ Holds(p) = {l \in Lines : CLine(l) < cline[p]}
      BY <3>1 DEF Holds
    <3>3. Holds(p)' = Holds(p) \cup {CLine(cline[p])}
      BY <2>2, <3>2, KeyLinesAssumption DEF Lines, CLine
    <3> QED BY <1>2, <2>1, <2>2, <2>3, <3>1, <3>3
  <2>5. CASE ~(cline[p] < NLines)
    <3>1. cpc[p] = "request" /\ cpc'[p] = "user" /\ copen' = TRUE
      BY <1>0, <1>4, <2>5 DEF CRequest, CAt, CGo
    <3>2. Holds(p)' = {} /\ Holds(p) = {l \in Lines : CLine(l) < cline[p]}
      BY <3>1 DEF Holds
    <3>3. CLine(cline[p]) = 1 /\ Lines = Holds(p) \cup {1}
      <4>1. cline[p] = NLines
        BY <2>2, <2>5, LineSteps, KeyLinesAssumption
      <4> QED BY <2>2, <3>2, <4>1, KeyLinesAssumption DEF Lines, CLine
    <3>4. \A q \in Counters : q # p => Holds(q)' = {}
      <4>1. \A q \in Counters : Holds(q) \subseteq Lines
        BY DEF Holds
      <4>2. \A q \in Counters : 1 \notin Holds(q)
        BY <2>2, <3>3 DEF Nobody
      <4> QED BY <2>1, <3>3, <4>1, <4>2
    <3>5. \A l \in Lines : owner'[l] = "s3c24xx_buttons"
      BY <2>2, <3>3
    <3> QED BY <3>1, <3>2, <3>4, <3>5
  <2> QED BY <2>4, <2>5
<1>5. ASSUME NEW p \in Counters, CRequestFails(p) PROVE HoldInv'
  <2>1. \A q \in Counters : q # p => Holds(q)' = Holds(q)
    BY <1>0, <1>5 DEF CRequestFails, CGo, Holds
  <2>2. Holds(p) = {l \in Lines : CLine(l) < cline[p]} /\ cline[p] \in Lines
    BY <1>0, <1>5 DEF CRequestFails, CAt, Holds
  <2>3. Holds(p)' = IF cline[p] = 1 THEN {} ELSE {l \in Lines : CLine(l) <= cline[p] - 1}
    BY <1>0, <1>5 DEF CRequestFails, CGo, Holds
  <2>4. Holds(p)' = Holds(p)
    BY <2>2, <2>3, KeyLinesAssumption DEF Lines, CLine
  <2> QED BY <1>1, <1>5, <2>1, <2>4 DEF CRequestFails, lineVars
<1>6. ASSUME NEW p \in Counters, CRollback(p) PROVE HoldInv'
  <2>1. \A q \in Counters : q # p => Holds(q)' = Holds(q)
    BY <1>0, <1>6 DEF CRollback, CGo, Holds
  <2>2. Holds(p) = {l \in Lines : CLine(l) <= cline[p]} /\ cline[p] \in Lines
    BY <1>0, <1>6 DEF CRollback, CAt, Holds
  <2>3. Holds(p)' = IF cline[p] > 1 THEN {l \in Lines : CLine(l) <= cline[p] - 1} ELSE {}
    <3>1. CASE cline[p] > 1
      BY <1>0, <1>6, <3>1 DEF CRollback, CAt, Holds
    <3>2. CASE ~(cline[p] > 1)
      BY <1>0, <1>6, <3>2 DEF CRollback, CAt, CGo, Holds
    <3> QED BY <3>1, <3>2
  <2>4. Holds(p)' = Holds(p) \ {CLine(cline[p])} /\ CLine(cline[p]) \in Holds(p)
    BY <2>2, <2>3, KeyLinesAssumption DEF Lines, CLine
  <2> QED BY <1>0, <1>2, <1>6, <2>1, <2>2, <2>4 DEF CRollback, Free
<1>7. ASSUME NEW p \in Counters, CRelease(p) PROVE HoldInv'
  <2>1. \A q \in Counters : q # p => Holds(q)' = {}
    BY <1>0, <1>7 DEF CRelease, CGo, Holds
  <2>2. cpc'[p] = "free" /\ cline'[p] = 1 /\ copen /\ ~copen' /\ owner' = owner
    BY <1>0, <1>7 DEF CRelease, CGo, lineVars
  <2>3. Holds(p)' = Lines
    BY <2>2, CLineFacts, LineSteps DEF Holds
  <2> QED BY <2>1, <2>2, <2>3
<1>8. ASSUME NEW p \in Counters, CFreeLine(p) PROVE HoldInv'
  <2>1. \A q \in Counters : q # p => Holds(q)' = Holds(q)
    BY <1>0, <1>8 DEF CFreeLine, CGo, Holds
  <2>2. Holds(p) = {l \in Lines : CLine(l) >= cline[p]} /\ cline[p] \in Lines
    BY <1>0, <1>8 DEF CFreeLine, CAt, Holds
  <2>3. Holds(p)' = IF cline[p] < NLines THEN {l \in Lines : CLine(l) >= cline[p] + 1} ELSE {}
    <3>1. CASE cline[p] < NLines
      BY <1>0, <1>8, <3>1 DEF CFreeLine, CAt, Holds
    <3>2. CASE ~(cline[p] < NLines)
      BY <1>0, <1>8, <3>2 DEF CFreeLine, CAt, CGo, Holds
    <3> QED BY <3>1, <3>2
  <2>4. Holds(p)' = Holds(p) \ {CLine(cline[p])} /\ CLine(cline[p]) \in Holds(p)
    BY <2>2, <2>3, KeyLinesAssumption DEF Lines, CLine
  <2> QED BY <1>0, <1>2, <1>8, <2>1, <2>2, <2>4 DEF CFreeLine, Free
<1>9. ASSUME NEW p \in Counters,
             CRead(p) \/ CWait(p) \/ CSignal(p) \/ CReset(p) \/ CCopy(p) \/ CZero(p)
      PROVE  HoldInv'
  <2>3. /\ cline' = cline /\ \A q \in Counters : q # p => cpc'[q] = cpc[q]
        /\ cpc[p] \notin {"request", "rollback", "free"}
        /\ cpc'[p] \notin {"request", "rollback", "free"}
    <3>1. CASE CRead(p) \/ CWait(p) \/ CSignal(p) \/ CReset(p)
      BY <1>0, <3>1 DEF CRead, CWait, CSignal, CReset, CAt, CGo
    <3>2. CASE CCopy(p) \/ CZero(p)
      BY <1>0, <3>2 DEF CCopy, CZero, CAt, CGo
    <3> QED BY <1>9, <3>1, <3>2
  <2>1. \A q \in Counters : Holds(q)' = Holds(q)
    BY <2>3 DEF Holds
  <2>2. UNCHANGED <<copen, owner>>
    BY <1>9 DEF CRead, CWait, CSignal, CReset, CCopy, CZero, lineVars
  <2> QED BY <1>1, <2>1, <2>2
<1>10. ASSUME NEW l \in Lines, CountIrq(l) PROVE HoldInv'
  <2>1. \A q \in Counters : Holds(q)' = Holds(q)
    BY <1>0, <1>10 DEF CountIrq, Holds
  <2> QED BY <1>1, <1>10, <2>1 DEF CountIrq
<1>11. ASSUME UNCHANGED pressVars, \A l \in Lines : owner'[l] = "s3c24xx_buttons" <=> owner[l] = "s3c24xx_buttons"
       PROVE HoldInv'
  BY <1>1, <1>11 DEF pressVars, Holds
<1>12. ASSUME ButtonNext, UNCHANGED pressVars PROVE HoldInv'
  <2>1. \A l \in Lines : owner'[l] = "s3c24xx_buttons" <=> owner[l] = "s3c24xx_buttons"
    BY <1>0, <1>12 DEF ButtonNext, OpenClose, OpenNonblock, Open, Down, Request, Release, FreeLine,
       Up, Read, ReadStep, Wait, Copy, Clear, Signal, EnterIrq, LeaveIrq, Take, Free, Nobody, lineVars
  <2> QED BY <1>11, <1>12, <2>1
<1>13. ASSUME UNCHANGED <<pressVars, owner>> PROVE HoldInv'
  BY <1>11, <1>13
<1> QED
  BY <1>3, <1>4, <1>5, <1>6, <1>7, <1>8, <1>9, <1>10, <1>12, <1>13
     DEF Next, Processes, CProcess, Edge, vars, lineVars

\* An open device of the counting driver has all its lines, and one that is not
\* open has none.
THEOREM AllLinesOrNone == Spec => []OpenHasAllLines
<1>1. Init /\ TypeOK => HoldInv
  BY DEF Init, LinesInit, PressInit, HoldInv, Holds, Nobody
<1>2. HoldInv => OpenHasAllLines
  BY DEF HoldInv, Holds, OpenHasAllLines
<1> QED BY <1>1, <1>2, HoldSteps, KeyTypeCorrect, PTL DEF Spec, HoldInv
-----------------------------------------------------------------------------
\* Handlers nest no deeper than there are lines.
HandlersNest == Len(running) <= NLines

\* The stack of handlers in progress is bounded by the number of keys, however
\* fast the keys bounce: no handler interrupts itself.
THEOREM NestingBounded == Spec => []HandlersNest
<1>1. Init /\ TypeOK => LevelInv
  <2> SUFFICES ASSUME Init, TypeOK PROVE LevelInv
      OBVIOUS
  <2>1. running = <<>> /\ Len(running) = 0 /\ key_val.line = 0
    BY DEF Init, ButtonInit, NoKey
  <2>2. 1..0 = {} /\ \A l \in Lines : l # 0
    BY LineSteps
  <2> QED BY <2>1, <2>2 DEF LevelInv, KeyValIsCurrent
<1>2. LevelInv => HandlersNest
  <2> SUFFICES ASSUME LevelInv PROVE HandlersNest
      OBVIOUS
  <2> DEFINE n == Len(running)
             f == [i \in 1..n |-> running[i].line]
  <2>1. running \in Seq(Key) /\ NLines \in Nat
    BY KeyLinesAssumption DEF LevelInv, TypeOK, ButtonType, Key
  <2>2. n \in Nat /\ \A i \in 1..n : running[i] \in Key
    BY <2>1, LenProperties, ElementOfSeq
  <2> SUFFICES ASSUME n > NLines PROVE FALSE
    BY <2>1, <2>2 DEF HandlersNest
  <2>3. f \in [1..n -> Lines]
    BY <2>2 DEF Key
  <2>4. \A i, j \in 1..n : f[i] = f[j] => i = j
    BY DEF LevelInv
  <2>5. n > NLines
    OBVIOUS
  <2> HIDE DEF n, f
  <2>6. IsFiniteSet(1..n) /\ Cardinality(1..n) = n
    <3>1. 1 \in Int /\ n \in Int /\ (IF 1 > n THEN 0 ELSE n - 1 + 1) = n
      BY <2>2
    <3> QED BY <3>1, FS_Interval
  <2>7. IsFiniteSet(Lines) /\ Cardinality(Lines) = NLines
    <3>1. 1 \in Int /\ NLines \in Int /\ (IF 1 > NLines THEN 0 ELSE NLines - 1 + 1) = NLines
      BY <2>1
    <3> QED BY <3>1, FS_Interval DEF Lines
  <2>8. Cardinality(Lines) < Cardinality(1..n)
    BY <2>1, <2>2, <2>5, <2>6, <2>7
  <2>9. \E i, j \in 1..n : i # j /\ f[i] = f[j]
    BY <2>3, <2>6, <2>7, <2>8, FS_PigeonHole
  <2> QED BY <2>4, <2>9
<1> QED BY <1>1, <1>2, LevelSteps, KeyTypeCorrect, PTL DEF Spec, LevelInv
-----------------------------------------------------------------------------
(* Opens and closes end.  What is left of the one that holds button_lock, and  *)
(* of each open and close of the counting driver, whose way back from a line   *)
(* that is refused is shorter than the way on.                                 *)
LockLeft == CASE file = "opening" -> NLines + 1 - line
              [] file = "closing" -> IF \E p \in Users : pc[p] = "up" THEN 1 ELSE NLines + 2 - line
              [] OTHER            -> 0
PressLeft(p) == CASE cpc[p] = "request"  -> 2 * NLines + 1 - cline[p]
                  [] cpc[p] = "rollback" -> cline[p]
                  [] cpc[p] = "free"     -> NLines + 1 - cline[p]
                  [] OTHER               -> 0

LockStep(p) == Request(p) \/ FreeLine(p) \/ Up(p)
PressStep(p) == CRequest(p) \/ CRequestFails(p) \/ CRollback(p) \/ CFreeLine(p)

\* Whoever waits for button_lock waits for an open file or for a process that is
\* in open or close.
LockIsWorkedOff ==
  /\ locked => file = "open" \/ \E p \in Users : Busy(p)
  /\ LockLeft \in Nat /\ (LockLeft > 0 <=> \E p \in Users : Busy(p))
PressIsWorkedOff == \A p \in Counters : PressLeft(p) \in Nat
OpenCloseInv == LockInv /\ LockIsWorkedOff /\ PressIsWorkedOff

LockMoves ==
  /\ \A p \in Users : LockStep(p) => LockLeft' = LockLeft - 1
  /\ LockLeft' > LockLeft =>
       \E p \in Users : /\ LockLeft = 0 /\ (OpenNonblock(p) \/ Down(p) \/ Release(p))
                        /\ LockLeft' = IF file = "open" THEN NLines + 1 ELSE NLines
  /\ LockLeft' < LockLeft => \E p \in Users : LockStep(p)
PressMoves == \A p \in Counters :
  /\ PressStep(p) => PressLeft(p)' < PressLeft(p)
  /\ PressLeft(p)' > PressLeft(p) =>
       PressLeft(p) = 0 /\ \/ COpen(p) /\ PressLeft(p)' = 2 * NLines
                           \/ CRelease(p) /\ PressLeft(p)' = NLines
  /\ PressLeft(p)' < PressLeft(p) => PressStep(p)

\* The measures count the steps of an open or a close in progress.
LEMMA LeftNat == LockInv => LockIsWorkedOff /\ PressIsWorkedOff
<1> SUFFICES ASSUME LockInv PROVE LockIsWorkedOff /\ PressIsWorkedOff
    OBVIOUS
<1>0. /\ NLines \in Nat /\ NLines > 0 /\ line \in Nat /\ 1 <= line /\ line <= NLines
      /\ cpc \in [Counters -> CPcs] /\ \A p \in Counters : cline[p] \in 1..NLines
  BY KeyLinesAssumption DEF LockInv, TypeOK, ButtonType, PressType, Lines, CPcs
<1>1. LockLeft \in Nat /\ (LockLeft > 0 <=> file \in {"opening", "closing"})
  BY <1>0 DEF LockLeft
<1>2. (\E p \in Users : Busy(p)) <=> file \in {"opening", "closing"}
  BY DEF LockInv, OpenIsExclusive, Busy
<1>3. locked => file = "open" \/ file \in {"opening", "closing"}
  BY DEF LockInv, OpenIsExclusive, TypeOK, ButtonType
<1>4. PressIsWorkedOff
  BY <1>0 DEF PressIsWorkedOff, PressLeft
<1> QED BY <1>1, <1>2, <1>3, <1>4 DEF LockIsWorkedOff

\* A step of open or close has one step less to go, and only the one that holds
\* button_lock takes such steps.
LEMMA LockLess == OpenCloseInv /\ OpenCloseInv' /\ [Next]_vars => LockMoves
<1> SUFFICES ASSUME OpenCloseInv, OpenCloseInv', [Next]_vars PROVE LockMoves
    OBVIOUS
<1> USE DEF OpenCloseInv
<1>0. /\ NLines \in Nat /\ NLines > 0 /\ line \in Nat /\ 1 <= line /\ line <= NLines
      /\ pc \in [Users -> Pcs]
  BY KeyLinesAssumption DEF LockInv, TypeOK, ButtonType, Lines, Pcs
<1>1. LockLeft \in Nat
  BY DEF LockIsWorkedOff
<1>2. /\ locked <=> file # "closed"
      /\ \A p, q \in Users : Busy(p) /\ Busy(q) => p = q
      /\ \A p \in Users : Busy(p) => file = (IF pc[p] = "request" THEN "opening" ELSE "closing")
  BY DEF LockInv, OpenIsExclusive
<1>3. ASSUME NEW p \in Users, Request(p) PROVE LockLeft' = LockLeft - 1
  <2>1. pc[p] = "request" /\ file = "opening" /\ LockLeft = NLines + 1 - line
    BY <1>2, <1>3 DEF Request, At, Busy, LockLeft
  <2>2. CASE line < NLines
    <3>1. file' = "opening" /\ line' = line + 1
      BY <1>3, <2>1, <2>2 DEF Request, NextLine
    <3>2. LockLeft' = NLines + 1 - (line + 1)
      BY <3>1 DEF LockLeft
    <3> QED BY <1>0, <2>1, <3>2
  <2>3. CASE ~(line < NLines)
    <3>1. file' = "open"
      BY <1>3, <2>3 DEF Request
    <3>2. LockLeft' = 0
      BY <3>1 DEF LockLeft
    <3> QED BY <1>0, <2>1, <2>3, <3>2
  <2> QED BY <2>2, <2>3
<1>4. ASSUME NEW p \in Users, FreeLine(p) PROVE LockLeft' = LockLeft - 1
  <2>1. pc[p] = "free" /\ file = "closing" /\ file' = "closing"
    BY <1>2, <1>4 DEF FreeLine, At, Busy
  <2>2. LockLeft = NLines + 2 - line
    BY <1>2, <2>1 DEF LockLeft, Busy
  <2>3. CASE line < NLines
    <3>1. pc' = pc /\ line' = line + 1
      BY <1>4, <2>3 DEF FreeLine, NextLine
    <3>2. LockLeft' = NLines + 2 - (line + 1)
      BY <1>2, <2>1, <3>1 DEF LockLeft, Busy
    <3> QED BY <1>0, <2>2, <3>2
  <2>4. CASE ~(line < NLines)
    <3>1. pc'[p] = "up"
      BY <1>0, <1>4, <2>4 DEF FreeLine, NextLine, Go
    <3>2. LockLeft' = 1
      BY <2>1, <3>1 DEF LockLeft
    <3> QED BY <1>0, <2>2, <2>4, <3>2
  <2> QED BY <2>3, <2>4
<1>5. ASSUME NEW p \in Users, Up(p) PROVE LockLeft' = LockLeft - 1
  <2>1. pc[p] = "up" /\ file = "closing" /\ file' = "closed"
    BY <1>2, <1>5 DEF Up, At, Busy
  <2> QED BY <2>1 DEF LockLeft
<1>6. ASSUME NEW p \in Users, OpenNonblock(p) \/ Down(p)
      PROVE  file = "closed" /\ LockLeft = 0 /\ LockLeft' = NLines
  <2>1. file = "closed" /\ file' = "opening" /\ line' = 1
    BY <1>2, <1>6 DEF OpenNonblock, Down
  <2>2. LockLeft' = NLines + 1 - 1
    BY <2>1 DEF LockLeft
  <2> QED BY <1>0, <2>1, <2>2 DEF LockLeft
<1>7. ASSUME NEW p \in Users, Release(p)
      PROVE  file = "open" /\ LockLeft = 0 /\ LockLeft' = NLines + 1
  <2>1. file = "open" /\ file' = "closing" /\ line' = 1
    BY <1>7 DEF Release
  <2>2. \A q \in Users : pc'[q] # "up"
    BY <1>0, <1>2, <1>7, <2>1 DEF Release, Go, Busy
  <2>3. LockLeft' = NLines + 2 - 1
    BY <2>1, <2>2 DEF LockLeft
  <2> QED BY <1>0, <2>1, <2>3 DEF LockLeft
<1>8. ASSUME UNCHANGED <<file, line>>,
             (\E q \in Users : pc'[q] = "up") <=> (\E q \in Users : pc[q] = "up")
      PROVE  LockLeft' = LockLeft
  BY <1>8 DEF LockLeft
<1>9. ASSUME NEW p \in Users, Open(p) \/ Read(p) \/ ReadStep(p) \/ Signal(p)
      PROVE  LockLeft' = LockLeft
  <2>1. \A q \in Users : pc'[q] = "up" <=> pc[q] = "up"
    BY <1>0, <1>9 DEF Open, Read, ReadStep, Wait, Copy, Clear, Signal, At, Go
  <2>2. UNCHANGED fileVars
    BY <1>9 DEF Open, Read, ReadStep, Wait, Copy, Clear, Signal
  <2> QED BY <1>8, <2>1, <2>2 DEF fileVars
<1>10. ASSUME LeaveIrq PROVE LockLeft' = LockLeft
  <2>1. \A q \in Users : pc'[q] = "up" <=> pc[q] = "up"
    BY <1>0, <1>10 DEF LeaveIrq, Woken
  <2> QED BY <1>8, <1>10, <2>1 DEF LeaveIrq, fileVars
<1>11. ASSUME UNCHANGED <<fileVars, pc>> PROVE LockLeft' = LockLeft
  BY <1>8, <1>11 DEF fileVars
<1>12. \/ \E p \in Users : LockStep(p) \/ OpenNonblock(p) \/ Down(p) \/ Release(p)
       \/ LockLeft' = LockLeft
  BY <1>9, <1>10, <1>11 DEF Next, ButtonNext, OpenClose, LockStep, EnterIrq, vars, buttonVars
<1>13. \A p \in Users : LockStep(p) => LockLeft' = LockLeft - 1
  BY <1>3, <1>4, <1>5 DEF LockStep
<1>14. LockLeft' \in Nat
  BY DEF LockIsWorkedOff
<1> DEFINE now  == LockLeft
           next == LockLeft'
<1>15. now \in Nat /\ next \in Nat
  BY <1>1, <1>14
<1>16. \A p \in Users : LockStep(p) => next = now - 1
  BY <1>13
<1>17. \A p \in Users : OpenNonblock(p) \/ Down(p) \/ Release(p) =>
         now = 0 /\ next = IF file = "open" THEN NLines + 1 ELSE NLines
  BY <1>6, <1>7
<1>18. (\E p \in Users : LockStep(p) \/ OpenNonblock(p) \/ Down(p) \/ Release(p)) \/ next = now
  BY <1>12
<1> HIDE DEF now, next
<1>19. next > now => \E p \in Users : /\ now = 0 /\ (OpenNonblock(p) \/ Down(p) \/ Release(p))
                                      /\ next = IF file = "open" THEN NLines + 1 ELSE NLines
  BY <1>0, <1>15, <1>16, <1>17, <1>18
<1>20. next < now => \E p \in Users : LockStep(p)
  BY <1>0, <1>15, <1>16, <1>17, <1>18
<1> QED BY <1>16, <1>19, <1>20 DEF LockMoves, now, next

\* A step of an open or a close of the counting driver brings its end nearer,
\* and no other process lengthens it.
LEMMA PressLess == OpenCloseInv /\ OpenCloseInv' /\ [Next]_vars => PressMoves
<1> SUFFICES ASSUME OpenCloseInv, OpenCloseInv', [Next]_vars, NEW p \in Counters
             PROVE  /\ PressStep(p) => PressLeft(p)' < PressLeft(p)
                    /\ PressLeft(p)' > PressLeft(p) =>
                         PressLeft(p) = 0 /\ \/ COpen(p) /\ PressLeft(p)' = 2 * NLines
                                             \/ CRelease(p) /\ PressLeft(p)' = NLines
                    /\ PressLeft(p)' < PressLeft(p) => PressStep(p)
    BY DEF PressMoves
<1> USE DEF OpenCloseInv
<1>0. /\ NLines \in Nat /\ NLines > 0
      /\ cpc \in [Counters -> CPcs] /\ cline \in [Counters -> Lines]
      /\ cline[p] \in Nat /\ 1 <= cline[p] /\ cline[p] <= NLines
  BY KeyLinesAssumption DEF LockInv, TypeOK, PressType, Lines, CPcs
<1>1. PressLeft(p) \in Nat /\ PressLeft(p)' \in Nat
  BY DEF PressIsWorkedOff
<1>2. ASSUME CRequest(p) PROVE PressLeft(p)' < PressLeft(p)
  <2>1. PressLeft(p) = 2 * NLines + 1 - cline[p]
    BY <1>2 DEF CRequest, CAt, PressLeft
  <2>2. CASE cline[p] < NLines
    <3>1. cpc'[p] = "request" /\ cline'[p] = cline[p] + 1
      BY <1>0, <1>2, <2>2 DEF CRequest, CAt
    <3>2. PressLeft(p)' = 2 * NLines + 1 - (cline[p] + 1)
      BY <3>1 DEF PressLeft
    <3> QED BY <1>0, <2>1, <3>2
  <2>3. CASE ~(cline[p] < NLines)
    <3>1. cpc'[p] = "user"
      BY <1>0, <1>2, <2>3 DEF CRequest, CGo
    <3>2. PressLeft(p)' = 0
      BY <3>1 DEF PressLeft
    <3> QED BY <1>0, <2>1, <3>2
  <2> QED BY <2>2, <2>3
<1>3. ASSUME CRequestFails(p) PROVE PressLeft(p)' < PressLeft(p)
  <2>1. PressLeft(p) = 2 * NLines + 1 - cline[p]
    BY <1>3 DEF CRequestFails, CAt, PressLeft
  <2>2. CASE cline[p] = 1
    <3>1. cpc'[p] = "user"
      BY <1>0, <1>3, <2>2 DEF CRequestFails, CGo
    <3>2. PressLeft(p)' = 0
      BY <3>1 DEF PressLeft
    <3> QED BY <1>0, <2>1, <3>2
  <2>3. CASE cline[p] # 1
    <3>1. cpc'[p] = "rollback" /\ cline'[p] = cline[p] - 1
      BY <1>0, <1>3, <2>3 DEF CRequestFails, CGo
    <3>2. PressLeft(p)' = cline[p] - 1
      BY <3>1 DEF PressLeft
    <3> QED BY <1>0, <2>1, <3>2
  <2> QED BY <2>2, <2>3
<1>4. ASSUME CRollback(p) PROVE PressLeft(p)' < PressLeft(p)
  <2>1. PressLeft(p) = cline[p]
    BY <1>4 DEF CRollback, CAt, PressLeft
  <2>2. CASE cline[p] > 1
    <3>1. cpc'[p] = "rollback" /\ cline'[p] = cline[p] - 1
      BY <1>0, <1>4, <2>2 DEF CRollback, CAt
    <3>2. PressLeft(p)' = cline[p] - 1
      BY <3>1 DEF PressLeft
    <3> QED BY <1>0, <2>1, <3>2
  <2>3. CASE ~(cline[p] > 1)
    <3>1. cpc'[p] = "user"
      BY <1>0, <1>4, <2>3 DEF CRollback, CGo
    <3>2. PressLeft(p)' = 0
      BY <3>1 DEF PressLeft
    <3> QED BY <1>0, <2>1, <3>2
  <2> QED BY <2>2, <2>3
<1>5. ASSUME CFreeLine(p) PROVE PressLeft(p)' < PressLeft(p)
  <2>1. PressLeft(p) = NLines + 1 - cline[p]
    BY <1>5 DEF CFreeLine, CAt, PressLeft
  <2>2. CASE cline[p] < NLines
    <3>1. cpc'[p] = "free" /\ cline'[p] = cline[p] + 1
      BY <1>0, <1>5, <2>2 DEF CFreeLine, CAt
    <3>2. PressLeft(p)' = NLines + 1 - (cline[p] + 1)
      BY <3>1 DEF PressLeft
    <3> QED BY <1>0, <2>1, <3>2
  <2>3. CASE ~(cline[p] < NLines)
    <3>1. cpc'[p] = "user"
      BY <1>0, <1>5, <2>3 DEF CFreeLine, CGo
    <3>2. PressLeft(p)' = 0
      BY <3>1 DEF PressLeft
    <3> QED BY <1>0, <2>1, <3>2
  <2> QED BY <2>2, <2>3
<1>6. ASSUME COpen(p) PROVE PressLeft(p) = 0 /\ PressLeft(p)' = 2 * NLines
  <2>1. cpc[p] = "user" /\ cpc'[p] = "request" /\ cline'[p] = 1
    BY <1>0, <1>6 DEF COpen, CAt, CGo
  <2>2. PressLeft(p)' = 2 * NLines + 1 - 1
    BY <2>1 DEF PressLeft
  <2> QED BY <1>0, <2>1, <2>2 DEF PressLeft
<1>7. ASSUME CRelease(p) PROVE PressLeft(p) = 0 /\ PressLeft(p)' = NLines
  <2>1. cpc[p] = "user" /\ cpc'[p] = "free" /\ cline'[p] = 1
    BY <1>0, <1>7 DEF CRelease, CAt, CGo
  <2>2. PressLeft(p)' = NLines + 1 - 1
    BY <2>1 DEF PressLeft
  <2> QED BY <1>0, <2>1, <2>2 DEF PressLeft
<1>8. ASSUME UNCHANGED <<cpc[p], cline[p]>> PROVE PressLeft(p)' = PressLeft(p)
  BY <1>8 DEF PressLeft
<1>9. ASSUME NEW q \in Counters, q # p, CProcess(q) PROVE PressLeft(p)' = PressLeft(p)
  <2>1. UNCHANGED <<cpc[p], cline[p]>>
    BY <1>0, <1>9 DEF CProcess, COpen, CRequest, CRequestFails, CRollback, CRelease, CFreeLine,
       CRead, CWait, CSignal, CReset, CCopy, CZero, CAt, CGo
  <2> QED BY <1>8, <2>1
<1>10. ASSUME CRead(p) \/ CWait(p) \/ CSignal(p) \/ CReset(p) \/ CCopy(p) \/ CZero(p)
       PROVE  PressLeft(p)' = PressLeft(p)
  <2>1. cpc[p] \notin {"request", "rollback", "free"} /\ cpc'[p] \notin {"request", "rollback", "free"}
    BY <1>0, <1>10 DEF CRead, CWait, CSignal, CReset, CCopy, CZero, CAt, CGo
  <2> QED BY <2>1 DEF PressLeft
<1>11. ASSUME NEW l \in Lines, CountIrq(l) PROVE PressLeft(p)' = PressLeft(p)
  <2>1. /\ cpc'[p] = cpc[p] \/ (cpc[p] = "sleep" /\ cpc'[p] = "wait")
        /\ cline'[p] = cline[p]
    BY <1>0, <1>11 DEF CountIrq
  <2> QED BY <2>1 DEF PressLeft
<1>12. ASSUME UNCHANGED pressVars PROVE PressLeft(p)' = PressLeft(p)
  BY <1>8, <1>12 DEF pressVars
<1>13. PressStep(p) \/ COpen(p) \/ CRelease(p) \/ PressLeft(p)' = PressLeft(p)
  BY <1>9, <1>10, <1>11, <1>12 DEF Next, Processes, CProcess, PressStep, vars
<1>14. PressStep(p) => PressLeft(p)' < PressLeft(p)
  BY <1>2, <1>3, <1>4, <1>5 DEF PressStep
<1> DEFINE now  == PressLeft(p)
           next == PressLeft(p)'
           twice == 2 * NLines
<1>15. now \in Nat /\ next \in Nat
  BY <1>1
<1>16. PressStep(p) => next < now
  BY <1>14
<1>17. /\ COpen(p) => now = 0 /\ next = twice
       /\ CRelease(p) => now = 0 /\ next = NLines
  BY <1>6, <1>7
<1>18. PressStep(p) \/ COpen(p) \/ CRelease(p) \/ next = now
  BY <1>13
<1> HIDE DEF now, next, twice
<1>19. next > now => now = 0 /\ ((COpen(p) /\ next = twice) \/ (CRelease(p) /\ next = NLines))
  <2>1. PressStep(p) \/ next = now => ~(next > now)
    BY <1>15, <1>16
  <2> QED BY <1>17, <1>18, <2>1
<1>20. next < now => PressStep(p)
  BY <1>15, <1>16, <1>17, <1>18
<1> QED BY <1>16, <1>19, <1>20 DEF now, next, twice

\* Neither driver can be caught in an open or a close.  Whoever waits for
\* button_lock waits for an open file or for a process in open or close; what
\* that process does next asks only that no handler is in progress, it needs
\* NLines steps to open and NLines + 1 to close, and no handler, no reader and
\* no process of the other driver adds to them.
\* The counting driver opens, or gives up, within 2 * NLines steps.
THEOREM OpensAndClosesEnd ==
  Spec => [](LockIsWorkedOff /\ PressIsWorkedOff) /\ [][LockMoves /\ PressMoves]_vars
<1>1. Init /\ TypeOK => LockInv
  BY DEF Init, LinesInit, ButtonInit, LockInv, OpenIsExclusive, Busy, Freed, Nobody
<1>2. Spec => []LockInv
  BY <1>1, LockSteps, KeyTypeCorrect, PTL DEF Spec, LockInv
<1>3. Spec => []OpenCloseInv
  BY <1>2, LeftNat, PTL DEF OpenCloseInv
<1>4. OpenCloseInv => LockIsWorkedOff /\ PressIsWorkedOff
  BY DEF OpenCloseInv
<1> QED BY <1>3, <1>4, LockLess, PressLess, PTL DEF Spec
=============================================================================
