---------------------------- MODULE ButtonDriver ----------------------------
(* The last key driver of the first edition (sixth_drv.c): a one-place       *)
(* mailbox between the interrupt handler and the processes that read, a      *)
(* semaphore for exclusive opening, and a wait queue.                        *)
(*                                                                          *)
(* Handlers run on top of whatever the processor was doing and end before    *)
(* any process goes on; the handler of one line may interrupt that of        *)
(* another.  Processes are switched at any point here, which includes the    *)
(* points where the board's non-preemptive kernel switches them.             *)
EXTENDS KeyLines

CONSTANT Users    \* processes that use the device

VARIABLES
  locked,    \* button_lock is taken
  file,      \* the open file: "closed", "opening", "open", "closing"
  nonblock,  \* O_NONBLOCK was given to open
  line,      \* the line that open or close is at
  pc,        \* where each process is in the driver; "user" outside it
  ev_press,  \* a key event is waiting
  key_val,   \* the last key event: its line and level
  running,   \* handlers in progress, the innermost last, with the pin they read
  unread,    \* history: lines with an edge since their handler read the pin
  event      \* history: what became of the last event: "seen" (copied to a
             \* reader), "faulted" (its reader's buffer could not be written),
             \* "unseen", or "raced": unseen, and stored while a reader was
             \* between its copy and the reset of ev_press

fileVars == <<locked, file, nonblock, line>>
keyVars == <<ev_press, key_val, running, unread, event>>
buttonVars == <<fileVars, pc, keyVars>>

At(p, from) == running = <<>> /\ pc[p] = from
Go(p, to) == pc' = [pc EXCEPT ![p] = to]
Readers == {p \in Users : pc[p] \in {"wait", "sleep", "copy", "clear"}}
Clearing == \E p \in Users : pc[p] = "clear"
-----------------------------------------------------------------------------
(* open and close *)

\* sixth_drv_open with O_NONBLOCK: down_trylock.  (-EBUSY changes nothing.)
OpenNonblock(p) ==
  /\ At(p, "user") /\ ~locked /\ Go(p, "request")
  /\ locked' = TRUE /\ nonblock' = TRUE /\ file' = "opening" /\ line' = 1
  /\ UNCHANGED <<keyVars, lineVars>>

Open(p) ==
  /\ At(p, "user") /\ Go(p, "down")
  /\ UNCHANGED <<fileVars, keyVars, lineVars>>

\* Mutant: open does not wait for the semaphore.
DownAnyway(p) ==
  /\ At(p, "down") /\ Go(p, "request")
  /\ locked' = TRUE /\ nonblock' = FALSE /\ file' = "opening" /\ line' = 1
  /\ UNCHANGED <<keyVars, lineVars>>

\* down(&button_lock), which no signal interrupts.
Down(p) ==
  /\ At(p, "down") /\ ~locked /\ Go(p, "request")
  /\ locked' = TRUE /\ nonblock' = FALSE /\ file' = "opening" /\ line' = 1
  /\ UNCHANGED <<keyVars, lineVars>>

\* Mutant: one line too many.
NextLineTooFar(p, to) ==
  IF line <= NLines THEN line' = line + 1 /\ UNCHANGED pc ELSE Go(p, to) /\ UNCHANGED line

\* The next line, or out of the loop to pc "to".
NextLine(p, to) ==
  IF line < NLines THEN line' = line + 1 /\ UNCHANGED pc ELSE Go(p, to) /\ UNCHANGED line

\* request_irq for each key in turn; what it returns is not looked at.
Request(p) ==
  /\ At(p, "request") /\ NextLine(p, "user")
  /\ Take(line, "sixth_drv") \/ (owner[line] # Nobody /\ UNCHANGED owner)
  /\ file' = IF line < NLines THEN file ELSE "open"
  /\ UNCHANGED <<locked, nonblock, keyVars, pressed, pending, edges>>

\* The last reference to the file is dropped: no read is in progress.
Release(p) ==
  /\ At(p, "user") /\ file = "open" /\ Readers = {} /\ Go(p, "free")
  /\ file' = "closing" /\ line' = 1
  /\ UNCHANGED <<locked, nonblock, keyVars, lineVars>>

\* sixth_drv_close: free_irq for each key in turn.
FreeLine(p) ==
  /\ At(p, "free") /\ NextLine(p, "up")
  /\ Free(line, "sixth_drv")
  /\ UNCHANGED <<locked, file, nonblock, keyVars, pressed, pending, edges>>

\* up(&button_lock).  ev_press and key_val stay for whoever opens next.
Up(p) ==
  /\ At(p, "up") /\ Go(p, "user")
  /\ locked' = FALSE /\ file' = "closed"
  /\ UNCHANGED <<nonblock, line, keyVars, lineVars>>
-----------------------------------------------------------------------------
(* read: by any process, since an open file is inherited *)

\* sixth_drv_read of one byte.  (-EINVAL and -EAGAIN change nothing.)
Read(p) ==
  /\ At(p, "user") /\ file = "open"
  /\ IF nonblock THEN ev_press /\ Go(p, "copy") ELSE Go(p, "wait")
  /\ UNCHANGED <<fileVars, keyVars, lineVars>>

\* Mutant: it sleeps without looking at ev_press.
SleepFirst(p) ==
  /\ At(p, "wait") /\ Go(p, "sleep")
  /\ UNCHANGED <<fileVars, keyVars, lineVars>>

\* wait_event_interruptible(button_waitq, ev_press)
Wait(p) ==
  /\ At(p, "wait") /\ Go(p, IF ev_press THEN "copy" ELSE "sleep")
  /\ UNCHANGED <<fileVars, keyVars, lineVars>>

\* A signal ends the wait; its result is ignored and the read goes on.
Signal(p) ==
  /\ At(p, "sleep") /\ Go(p, "copy")
  /\ UNCHANGED <<fileVars, keyVars, lineVars>>

\* copy_to_user(buf, &key_val, 1), whose failure is not looked at.
Copy(p) ==
  /\ At(p, "copy") /\ Go(p, "clear")
  /\ event' \in {"seen", IF event = "seen" THEN "seen" ELSE "faulted"}
  /\ UNCHANGED <<fileVars, ev_press, key_val, running, unread, lineVars>>

\* Mutant: the flag is left set.
ClearNothing(p) ==
  /\ At(p, "clear") /\ Go(p, "user")
  /\ UNCHANGED <<fileVars, keyVars, lineVars>>

\* ev_press = 0
Clear(p) ==
  /\ At(p, "clear") /\ Go(p, "user")
  /\ ev_press' = FALSE
  /\ UNCHANGED <<fileVars, key_val, running, unread, event, lineVars>>
-----------------------------------------------------------------------------
(* buttons_irq *)

\* Mutant: the level is taken from the last event and not from the pin.
LevelGuessed(l) == key_val.line = l => ~key_val.down

\* pinval = s3c2410_gpio_getpin(pindesc->pin)
Level(l) == pressed[l]

\* A latched line whose handler is not already running: up to the pin's reading.
EnterIrq(l) ==
  /\ l \in pending /\ owner[l] = "sixth_drv"
  /\ \A i \in 1..Len(running) : running[i].line # l
  /\ pending' = pending \ {l} /\ unread' = unread \ {l}
  /\ running' = Append(running, [line |-> l, down |-> Level(l)])
  /\ UNCHANGED <<fileVars, pc, ev_press, key_val, event, pressed, owner, edges>>

\* Mutant: no wake_up_interruptible.
WokenNobody == pc

\* wake_up_interruptible(&button_waitq): those asleep look at ev_press again.
Woken == [p \in Users |-> IF pc[p] = "sleep" THEN "wait" ELSE pc[p]]

\* key_val = ..., ev_press = 1, wake up.
LeaveIrq ==
  /\ running # <<>>
  /\ key_val' = running[Len(running)]
  /\ running' = SubSeq(running, 1, Len(running) - 1)
  /\ ev_press' = TRUE /\ pc' = Woken
  /\ event' = IF Clearing THEN "raced" ELSE "unseen"
  /\ UNCHANGED <<fileVars, unread, lineVars>>
-----------------------------------------------------------------------------
NoKey == [line |-> 0, down |-> FALSE]    \* key_val starts as 0

ButtonInit ==
  /\ locked = FALSE /\ file = "closed" /\ nonblock = FALSE /\ line = 1
  /\ pc = [p \in Users |-> "user"]
  /\ ev_press = FALSE /\ key_val = NoKey /\ running = <<>>
  /\ unread = {} /\ event = "seen"

OpenClose(p) ==
  OpenNonblock(p) \/ Open(p) \/ Down(p) \/ Request(p) \/ Release(p) \/ FreeLine(p) \/ Up(p)
ReadStep(p) == Wait(p) \/ Copy(p) \/ Clear(p)

ButtonNext ==
  \/ \E p \in Users : OpenClose(p) \/ Read(p) \/ ReadStep(p) \/ Signal(p)
  \/ (\E l \in Lines : EnterIrq(l)) \/ LeaveIrq
-----------------------------------------------------------------------------
ButtonType ==
  /\ locked \in BOOLEAN /\ file \in {"closed", "opening", "open", "closing"}
  /\ nonblock \in BOOLEAN /\ line \in Lines
  /\ pc \in [Users -> {"user", "down", "request", "wait", "sleep", "copy", "clear",
                       "free", "up"}]
  /\ ev_press \in BOOLEAN
  /\ key_val \in [line : Lines, down : BOOLEAN] \cup {NoKey}
  /\ running \in Seq([line : Lines, down : BOOLEAN])
  /\ unread \in SUBSET Lines /\ event \in {"seen", "faulted", "unseen", "raced"}

\* button_lock makes open and close exclusive: one process at most is in either,
\* none is while the file is open, and outside them no line is left with the
\* driver, so that no handler runs for a closed device.
Busy(p) == pc[p] \in {"request", "free", "up"}
OpenIsExclusive ==
  /\ locked <=> file # "closed"
  /\ \A p, q \in Users : Busy(p) /\ Busy(q) => p = q
  /\ \A p \in Users : Busy(p) => file = (IF pc[p] = "request" THEN "opening" ELSE "closing")
  /\ file = "closed" => \A l \in Lines : owner[l] # "sixth_drv"

\* The flag and the event agree.  An event no reader was given is announced by
\* ev_press unless it came while a reader was between its copy and its reset
\* of ev_press, or that reader's copy failed; and ev_press never announces an
\* event that a reader has taken, except between those two statements.
FlagMatchesEvent ==
  /\ event = "unseen" => ev_press
  /\ ev_press => event \in {"unseen", "raced"} \/ Clearing

\* No process sleeps on a waiting event.
NoSleeperMissesEvent == ev_press => \A p \in Users : pc[p] # "sleep"

\* The level a reader is given is the key's present one, unless an edge came
\* since whose handler has not read the pin: handlers that interrupt each
\* other never leave an older level of the same key behind.
KeyValIsCurrent ==
  \A l \in Lines :
    /\ key_val.line = l /\ l \notin unread /\ (\A i \in 1..Len(running) : running[i].line # l)
         => key_val.down = pressed[l]
    /\ l \notin unread => \A i \in 1..Len(running) : running[i].line = l => running[i].down = pressed[l]

\* A process that waits for an event that is there gets it, or another does.
WaitingEventIsTaken == (ev_press /\ \E p \in Users : pc[p] = "wait") ~> ~ev_press
=============================================================================
