---------------------------- MODULE PressDriver ----------------------------
(* The press-counting key driver (buttons/s3c24xx_buttons.c): open takes     *)
(* the four interrupt lines or none, the handler counts, read gives the      *)
(* counts and clears them.  The variables begin with c to stand beside       *)
(* those of ButtonDriver.                                                    *)
EXTENDS KeyLines

CONSTANT Counters    \* processes that use the device

VARIABLES
  cpc,         \* where each process is in the driver; "user" outside it
  cline,       \* open, close: i (from 1)
  copen,       \* the device is open
  press_cnt,   \* presses counted per line
  cev_press,   \* ev_press of this driver
  fresh,       \* history: lines with a count that no reader was given, counted
               \* when none was between its copy and its memset
  given        \* history: how many counts a reader about to clear was given

countVars == <<press_cnt, cev_press, fresh, given>>
pressVars == <<cpc, cline, copen, countVars>>

CAt(p, from) == cpc[p] = from
CGo(p, to) == cpc' = [cpc EXCEPT ![p] = to]
CReaders == {p \in Counters : cpc[p] \in {"wait", "sleep", "reset", "copy", "zero"}}

\* Line i of button_irqs: from the last line of sixth_drv's order to the first.
CLine(i) == NLines + 1 - i
-----------------------------------------------------------------------------
(* open and close *)

COpen(p) ==
  /\ CAt(p, "user") /\ CGo(p, "request") /\ cline' = [cline EXCEPT ![p] = 1]
  /\ UNCHANGED <<copen, countVars, lineVars>>

\* request_irq succeeds for one line: on to the next one, or the device is open.
CRequest(p) ==
  /\ CAt(p, "request") /\ Take(CLine(cline[p]), "s3c24xx_buttons")
  /\ IF cline[p] < NLines
     THEN cline' = [cline EXCEPT ![p] = @ + 1] /\ UNCHANGED <<cpc, copen>>
     ELSE CGo(p, "user") /\ copen' = TRUE /\ UNCHANGED cline
  /\ UNCHANGED <<countVars, pressed, pending, edges>>

\* Mutant: the line that could not be had is passed over.
CRequestSkips(p) ==
  /\ CAt(p, "request") /\ owner[CLine(cline[p])] # Nobody
  /\ IF cline[p] < NLines
     THEN cline' = [cline EXCEPT ![p] = @ + 1] /\ UNCHANGED <<cpc, copen>>
     ELSE CGo(p, "user") /\ copen' = TRUE /\ UNCHANGED cline
  /\ UNCHANGED <<countVars, lineVars>>

\* It fails: the lines taken so far are given back, last first.
CRequestFails(p) ==
  /\ CAt(p, "request") /\ owner[CLine(cline[p])] # Nobody
  /\ CGo(p, IF cline[p] = 1 THEN "user" ELSE "rollback")
  /\ cline' = [cline EXCEPT ![p] = IF @ = 1 THEN 1 ELSE @ - 1]
  /\ UNCHANGED <<copen, countVars, lineVars>>

CRollback(p) ==
  /\ CAt(p, "rollback") /\ Free(CLine(cline[p]), "s3c24xx_buttons")
  /\ IF cline[p] > 1
     THEN cline' = [cline EXCEPT ![p] = @ - 1] /\ UNCHANGED cpc
     ELSE CGo(p, "user") /\ UNCHANGED cline
  /\ UNCHANGED <<copen, countVars, pressed, pending, edges>>

CRelease(p) ==
  /\ CAt(p, "user") /\ copen /\ CReaders = {}
  /\ CGo(p, "free") /\ copen' = FALSE /\ cline' = [cline EXCEPT ![p] = 1]
  /\ UNCHANGED <<countVars, lineVars>>

CFreeLine(p) ==
  /\ CAt(p, "free") /\ Free(CLine(cline[p]), "s3c24xx_buttons")
  /\ IF cline[p] < NLines
     THEN cline' = [cline EXCEPT ![p] = @ + 1] /\ UNCHANGED cpc
     ELSE CGo(p, "user") /\ UNCHANGED cline
  /\ UNCHANGED <<copen, countVars, pressed, pending, edges>>
-----------------------------------------------------------------------------
(* read *)

CRead(p) ==
  /\ CAt(p, "user") /\ copen /\ CGo(p, "wait")
  /\ UNCHANGED <<cline, copen, countVars, lineVars>>

CWait(p) ==
  /\ CAt(p, "wait") /\ CGo(p, IF cev_press THEN "reset" ELSE "sleep")
  /\ UNCHANGED <<cline, copen, countVars, lineVars>>

CSignal(p) ==
  /\ CAt(p, "sleep") /\ CGo(p, "reset")
  /\ UNCHANGED <<cline, copen, countVars, lineVars>>

\* Mutant: the counts are cleared with the flag, before the copy.
CResetAndZero(p) ==
  /\ CAt(p, "reset") /\ CGo(p, "copy") /\ cev_press' = FALSE
  /\ press_cnt' = [l \in Lines |-> 0]
  /\ UNCHANGED <<cline, copen, fresh, given, lineVars>>

\* ev_press = 0, before the counts are looked at.
CReset(p) ==
  /\ CAt(p, "reset") /\ CGo(p, "copy") /\ cev_press' = FALSE
  /\ UNCHANGED <<cline, copen, press_cnt, fresh, given, lineVars>>

\* copy_to_user of the first min(sizeof(press_cnt), count) bytes, up to a fault:
\* the first n counts.
CCopy(p) ==
  /\ CAt(p, "copy") /\ CGo(p, "zero")
  /\ \E n \in 0..NLines :
       /\ given' = [given EXCEPT ![p] = n]
       /\ fresh' = fresh \ {CLine(i) : i \in 1..n}
  /\ UNCHANGED <<cline, copen, press_cnt, cev_press, lineVars>>

\* Mutant: ev_press is reset here, in the order of sixth_drv.
CZeroAndReset(p) ==
  /\ CAt(p, "zero") /\ CGo(p, "user") /\ cev_press' = FALSE
  /\ UNCHANGED <<cline, copen, press_cnt, fresh, given, lineVars>>

\* memset(press_cnt, 0, ...), the counts that were not given included.  A
\* handler that comes in the middle of it finds its own count cleared or not
\* yet: it comes after this step, or before it.
CZero(p) ==
  /\ CAt(p, "zero") /\ CGo(p, "user") /\ press_cnt' = [l \in Lines |-> 0]
  /\ fresh' = fresh \ {CLine(i) : i \in (given[p] + 1)..NLines}
  /\ given' = [given EXCEPT ![p] = 0]
  /\ UNCHANGED <<cline, copen, cev_press, lineVars>>
-----------------------------------------------------------------------------
\* buttons_interrupt: nothing it touches is left half done by another handler.
CountIrq(l) ==
  /\ l \in pending /\ owner[l] = "s3c24xx_buttons" /\ pending' = pending \ {l}
  /\ press_cnt' = [press_cnt EXCEPT ![l] = @ + 1]
  /\ cev_press' = TRUE
  /\ cpc' = [p \in Counters |-> IF cpc[p] = "sleep" THEN "wait" ELSE cpc[p]]
  /\ fresh' = IF \E p \in Counters : cpc[p] = "zero" THEN fresh \ {l} ELSE fresh \cup {l}
  /\ UNCHANGED <<cline, copen, given, pressed, owner, edges>>
-----------------------------------------------------------------------------
PressInit ==
  /\ cpc = [p \in Counters |-> "user"] /\ cline = [p \in Counters |-> 1] /\ copen = FALSE
  /\ press_cnt = [l \in Lines |-> 0] /\ cev_press = FALSE
  /\ fresh = {} /\ given = [p \in Counters |-> 0]

CProcess(p) ==
  \/ COpen(p) \/ CRequest(p) \/ CRequestFails(p) \/ CRollback(p) \/ CRelease(p) \/ CFreeLine(p)
  \/ CRead(p) \/ CWait(p) \/ CSignal(p) \/ CReset(p) \/ CCopy(p) \/ CZero(p)
-----------------------------------------------------------------------------
PressType ==
  /\ cpc \in [Counters -> {"user", "request", "rollback", "free", "wait", "sleep",
                           "reset", "copy", "zero"}]
  /\ cline \in [Counters -> Lines] /\ copen \in BOOLEAN
  /\ press_cnt \in [Lines -> Nat] /\ cev_press \in BOOLEAN
  /\ fresh \in SUBSET Lines /\ given \in [Counters -> 0..NLines]

\* An open device has all its lines, whatever other opens and closes, of this
\* driver or of the other, were going on; and lines held without an open device
\* belong to an open or a close in progress.
OpenHasAllLines ==
  /\ copen => \A l \in Lines : owner[l] = "s3c24xx_buttons"
  /\ (\A p \in Counters : cpc[p] = "user") /\ ~copen =>
       \A l \in Lines : owner[l] # "s3c24xx_buttons"

\* Counts that no read has cleared are announced by ev_press, unless a reader is
\* about to take them: no press waits for the next one to be reported.
CountsAreAnnounced ==
  (\E l \in Lines : press_cnt[l] > 0) =>
    cev_press \/ \E p \in Counters : cpc[p] \in {"copy", "zero"}

\* A press stays counted until a reader was given the count, unless it came
\* between the copy and the memset of a read, or that read was for less than all
\* counts, or faulted, and cleared what it did not give.
PressLostOnlyInWindow == \A l \in fresh : press_cnt[l] > 0
=============================================================================
