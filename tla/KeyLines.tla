------------------------------ MODULE KeyLines ------------------------------
(* What the key drivers of the first edition share: the keys, their          *)
(* interrupt lines, and the kernel's table of who owns a line.  request_irq  *)
(* gives a line to one driver (neither asks for sharing) and free_irq takes  *)
(* it back.  The modules that use these lines are ButtonDriver and           *)
(* PressDriver; KeyDrivers puts them together.                               *)
EXTENDS Integers, Sequences

CONSTANTS
  NLines,     \* number of keys, and of interrupt lines: 4
  MaxEdges    \* bound on key presses and releases

ASSUME KeyLinesAssumption == NLines \in Nat \ {0} /\ MaxEdges \in Nat

VARIABLES
  pressed,    \* key levels
  pending,    \* lines whose interrupt has been latched and not yet handled
  owner,      \* the kernel's table: the driver a line calls
  edges       \* key edges so far (bound)

lineVars == <<pressed, pending, owner, edges>>

Lines == 1..NLines
Nobody == "nobody"

Take(l, driver) == owner[l] = Nobody /\ owner' = [owner EXCEPT ![l] = driver]
Free(l, driver) ==
  owner' = IF owner[l] = driver THEN [owner EXCEPT ![l] = Nobody] ELSE owner

\* The edges that latch an interrupt: both for sixth_drv (IRQT_BOTHEDGE), the
\* press only for s3c24xx_buttons (IRQF_TRIGGER_FALLING).  An edge on a line no
\* one owns may or may not be found latched by the next owner.
Latches(l, down) ==
  CASE owner[l] = "sixth_drv" -> {TRUE}
    [] owner[l] = "s3c24xx_buttons" -> {down}
    [] OTHER -> BOOLEAN

Edge(l) ==
  /\ edges < MaxEdges /\ edges' = edges + 1
  /\ pressed' = [pressed EXCEPT ![l] = ~@]
  /\ \E latched \in Latches(l, ~pressed[l]) :
       pending' = IF latched THEN pending \cup {l} ELSE pending
  /\ UNCHANGED owner

LinesInit ==
  /\ pressed = [l \in Lines |-> FALSE] /\ pending = {}
  /\ owner = [l \in Lines |-> Nobody] /\ edges = 0

LinesType ==
  /\ pressed \in [Lines -> BOOLEAN] /\ pending \in SUBSET Lines
  /\ owner \in [Lines -> {Nobody, "sixth_drv", "s3c24xx_buttons"}]
  /\ edges \in 0..MaxEdges
=============================================================================
