----------------------------- MODULE Interrupts -----------------------------
(* The interrupt path of the bare-metal program: the S3C2440 interrupt      *)
(* controller, the vector-table side (do_irq, handle_irq_c, register_irq)   *)
(* and the key handler key_eint_irq that turns key edges into LED levels.   *)
(*                                                                          *)
(* There is one CPU.  The main program runs in user mode with interrupts    *)
(* on, and registers handlers one by one; an interrupt suspends it, and     *)
(* do_irq does not re-enable interrupts, so handlers never nest.  What does *)
(* interleave with a handler is the hardware: key edges and device requests *)
(* arrive between any two of its register accesses, and each access that    *)
(* can observe or destroy such an arrival is a step of its own here.        *)

EXTENDS Integers, Sequences, FiniteSets

CONSTANTS
  Irqs,           \* interrupt numbers in use (bits of SRCPND)
  Registrations,  \* the irqs main registers, in order, by register_irq
  MaxEdges,       \* bound on key presses and releases
  MaxRequests     \* bound on the requests of the other devices

\* EINT0 (S2), EINT2 (S3), EINT8_23 (S4 and S5)
KeyIrqs == {0, 2, 5}

ASSUME InterruptsAssumption ==
  /\ KeyIrqs \subseteq Irqs
  /\ Irqs \subseteq 0..31
  /\ Registrations \in Seq(Irqs)
  /\ MaxEdges \in Nat
  /\ MaxRequests \in Nat

Keys == {"S2", "S3", "S4", "S5"}
LEDs == {"D10", "D11", "D12"}
Eints == {11, 19}                \* the bits of EINTPEND in use

NoHandler == "none"
Handlers == {"key_eint_irq", "timer_irq"}

\* The interrupt line of a key, and for S4 and S5 its EINTPEND bit.
IrqOf == [k \in Keys |-> IF k = "S2" THEN 0 ELSE IF k = "S3" THEN 2 ELSE 5]
EintOf == [k \in {"S4", "S5"} |-> IF k = "S4" THEN 11 ELSE 19]

\* Mutant: the LEDs of S2 and S3 are swapped.
DrivesSwapped == [k \in Keys |->
             CASE k = "S2" -> {"D11"}
               [] k = "S3" -> {"D12"}
               [] k = "S4" -> {"D10"}
               [] k = "S5" -> LEDs]

\* The LEDs the code gives a key (key_eint_irq).
Drives == [k \in Keys |->
             CASE k = "S2" -> {"D12"}
               [] k = "S3" -> {"D11"}
               [] k = "S4" -> {"D10"}
               [] k = "S5" -> LEDs]

VARIABLES
  srcpnd,     \* SRCPND: irqs requested
  intmsk,     \* INTMSK: irqs masked
  intpnd,     \* INTPND: the one request being serviced, or {}
  eintpend,   \* EINTPEND
  eintmask,   \* EINTMASK, restricted to Eints
  pressed,    \* key levels (pin low = pressed)
  lit,        \* LED levels (GPF4..6, low = lit)
  irq_array,  \* the handler table
  mpc,        \* where main is
  reg,        \* the registration main is at
  ipc,        \* where the CPU is in the interrupt path; "user" outside it
  bit,        \* handle_irq_c: int bit
  val,        \* key_eint_irq: val, the EINTPEND it read
  pins,       \* key_eint_irq: val1 and val2, the levels it read
  edges,      \* key edges so far (bound)
  requests,   \* other devices' requests so far (bound)
  due,        \* history: keys whose last edge no LED write has shown yet
  late        \* history: direct keys whose last edge came after the handler
              \* read their pin and before it cleared their SRCPND bit

hwVars == <<srcpnd, intmsk, intpnd, eintpend, eintmask>>
mainVars == <<mpc, reg>>
isrVars == <<ipc, bit, val, pins>>
envVars == <<pressed, edges, requests>>
vars == <<hwVars, mainVars, isrVars, envVars, lit, irq_array, due, late>>
-----------------------------------------------------------------------------
(* The interrupt controller *)

\* The EINT8_23 line is high while an unmasked EINTPEND bit is set.
EintLine(pend, mask) == IF pend \ mask # {} THEN {5} ELSE {}

\* Key k requests an interrupt: S2 and S3 in SRCPND, S4 and S5 in EINTPEND
\* and through it in SRCPND.
RequestKey(k) ==
  /\ eintpend' = eintpend \cup (IF k \in {"S4", "S5"} THEN {EintOf[k]} ELSE {})
  /\ srcpnd' = srcpnd \cup (IF k \in {"S4", "S5"}
                            THEN EintLine(eintpend', eintmask)
                            ELSE {IrqOf[k]})

\* Arbitration: one unmasked request is moved to INTPND when it is free.  The
\* priority is left open (the rotating arbiter is never programmed).
Arbitrate ==
  /\ intpnd = {}
  /\ \E b \in srcpnd \ intmsk : intpnd' = {b}
  /\ UNCHANGED <<srcpnd, intmsk, eintpend, eintmask, mainVars, isrVars,
                 envVars, lit, irq_array, due, late>>

\* The pins raise interrupts from key_eint_init on: while only the pin
\* function is set the trigger is still the reset value (low level), then both
\* edges.
Triggers(k, down) ==
  \/ mpc = "trigger" /\ down
  \/ mpc \notin {"pins", "trigger"}

\* The keys with an SRCPND bit of their own.
DirectKeys == {"S2", "S3"}

\* The handler has read the pin of direct key k and has not yet cleared the
\* key's SRCPND bit.
InWindow(k) ==
  /\ k \in DirectKeys /\ bit = IrqOf[k]
  /\ ipc \in {"read_gpgdat", "set_leds", "ack_eint", "ack_src"}

\* A key goes down or comes up, at any moment.
KeyEdge(k) ==
  /\ edges < MaxEdges
  /\ edges' = edges + 1
  /\ pressed' = [pressed EXCEPT ![k] = ~@]
  /\ IF Triggers(k, ~pressed[k])
     THEN RequestKey(k) ELSE UNCHANGED <<eintpend, srcpnd>>
  /\ due' = IF mpc \in {"pins", "trigger"} THEN due ELSE due \cup {k}
  /\ late' = IF InWindow(k) THEN late \cup {k} ELSE late \ {k}
  /\ UNCHANGED <<intmsk, intpnd, eintmask, mainVars, isrVars, requests, lit,
                 irq_array>>

\* Another device (timer 0) requests service once main has started it, which
\* it does just before registering its handler.
DeviceRequest(b) ==
  /\ requests < MaxRequests
  /\ mpc \in {"store", "unmask", "done"}
  /\ \E i \in 1..Len(Registrations) : i <= reg /\ Registrations[i] = b
  /\ requests' = requests + 1
  /\ srcpnd' = srcpnd \cup {b}
  /\ UNCHANGED <<intmsk, intpnd, eintpend, eintmask, mainVars, isrVars,
                 pressed, edges, lit, irq_array, due, late>>
-----------------------------------------------------------------------------
(* The main program: key_eint_init, then one register_irq per irq *)

Main(from, to) == ipc = "user" /\ mpc = from /\ mpc' = to

\* Mutant: interrupt_init, which main.c leaves commented out, is called first
\* and unmasks every irq before it has a handler.
ConfigurePinsAfterInterruptInit ==
  /\ Main("pins", "trigger")
  /\ intmsk' = intmsk \ {0, 2, 5, 10}
  /\ eintpend' = eintpend \cup {EintOf[k] : k \in {"S4", "S5"} \cap {x \in Keys : pressed[x]}}
  /\ srcpnd' = srcpnd \cup EintLine(eintpend', eintmask)
                      \cup {IrqOf[k] : k \in {"S2", "S3"} \cap {x \in Keys : pressed[x]}}
  /\ UNCHANGED <<intpnd, eintmask, reg, isrVars, envVars, lit, irq_array, due,
                 late>>

\* GPFCON, GPGCON: the four pins become interrupt inputs.  A key that is down
\* requests at once (low-level trigger).
ConfigurePins ==
  /\ Main("pins", "trigger")
  /\ eintpend' = eintpend \cup {EintOf[k] : k \in {"S4", "S5"} \cap {x \in Keys : pressed[x]}}
  /\ srcpnd' = srcpnd \cup EintLine(eintpend', eintmask)
                      \cup {IrqOf[k] : k \in {"S2", "S3"} \cap {x \in Keys : pressed[x]}}
  /\ UNCHANGED <<intmsk, intpnd, eintmask, reg, isrVars, envVars, lit,
                 irq_array, due, late>>

\* EXTINT0..2: both edges.
ConfigureTrigger ==
  /\ Main("trigger", "eintmask")
  /\ UNCHANGED <<hwVars, reg, isrVars, envVars, lit, irq_array, due, late>>

\* EINTMASK: EINT11 and EINT19 are let through.
UnmaskEints ==
  /\ Main("eintmask", IF Len(Registrations) = 0 THEN "done" ELSE "store")
  /\ eintmask' = eintmask \ {11, 19}
  /\ srcpnd' = srcpnd \cup EintLine(eintpend, eintmask')
  /\ UNCHANGED <<intmsk, intpnd, eintpend, reg, isrVars, envVars, lit,
                 irq_array, due, late>>

HandlerOf(irq) == IF irq \in KeyIrqs THEN "key_eint_irq" ELSE "timer_irq"

\* register_irq, first statement: irq_array[irq] = fp.
StoreHandler ==
  /\ Main("store", "unmask")
  /\ irq_array' = [irq_array EXCEPT ![Registrations[reg]] = HandlerOf(Registrations[reg])]
  /\ UNCHANGED <<hwVars, reg, isrVars, envVars, lit, due, late>>

\* Mutant: main registers one irq more than there is.
UnmaskIrqOneMore ==
  /\ Main("unmask", IF reg <= Len(Registrations) THEN "store" ELSE "done")
  /\ intmsk' = intmsk \ {Registrations[reg]}
  /\ reg' = reg + 1
  /\ UNCHANGED <<srcpnd, intpnd, eintpend, eintmask, isrVars, envVars, lit,
                 irq_array, due, late>>

\* register_irq, second statement: INTMSK &= ~(1<<irq).  No handler writes
\* INTMSK, so the read-modify-write is one step.
UnmaskIrq ==
  /\ Main("unmask", IF reg < Len(Registrations) THEN "store" ELSE "done")
  /\ intmsk' = intmsk \ {Registrations[reg]}
  /\ reg' = reg + 1
  /\ UNCHANGED <<srcpnd, intpnd, eintpend, eintmask, isrVars, envVars, lit,
                 irq_array, due, late>>
-----------------------------------------------------------------------------
(* The interrupt path *)

NoPins == [k \in Keys |-> FALSE]

Isr(from, to) == ipc = from /\ ipc' = to

\* do_irq: the CPU is in user mode and INTPND is not empty.
TakeIrq ==
  /\ intpnd # {}
  /\ Isr("user", "dispatch")
  /\ UNCHANGED <<hwVars, mainVars, bit, val, pins, envVars, lit, irq_array,
                 due, late>>

\* INTOFFSET: the number of the bit set in INTPND, 0 when none is.
IntOffset == IF intpnd = {} THEN 0 ELSE CHOOSE b \in intpnd : TRUE

Entry(h) ==
  CASE h = "key_eint_irq" -> "read_eintpend"
    [] h = "timer_irq"    -> "timer_irq"
    [] h = NoHandler      -> "address 0"   \* a call through a null pointer

\* handle_irq_c: bit = INTOFFSET; irq_array[bit](bit).
Dispatch ==
  /\ bit' = IntOffset
  /\ Isr("dispatch", Entry(irq_array[bit']))
  /\ UNCHANGED <<hwVars, mainVars, val, pins, envVars, lit, irq_array, due,
                 late>>

\* key_eint_irq: val = EINTPEND.
ReadEintpend ==
  /\ Isr("read_eintpend", "read_gpfdat")
  /\ val' = eintpend
  /\ UNCHANGED <<hwVars, mainVars, bit, pins, envVars, lit, irq_array, due,
                 late>>

\* val1 = GPFDAT: the levels of S2 and S3.
ReadGpfdat ==
  /\ Isr("read_gpfdat", "read_gpgdat")
  /\ pins' = [k \in Keys |-> IF k \in DirectKeys THEN pressed[k] ELSE pins[k]]
  /\ late' = late \ {k \in DirectKeys : bit = IrqOf[k]}
  /\ UNCHANGED <<hwVars, mainVars, bit, val, envVars, lit, irq_array, due>>

\* val2 = GPGDAT: the levels of S4 and S5.
ReadGpgdat ==
  /\ Isr("read_gpgdat", "set_leds")
  /\ pins' = [k \in Keys |-> IF k \in {"S4", "S5"} THEN pressed[k] ELSE pins[k]]
  /\ UNCHANGED <<hwVars, mainVars, bit, val, envVars, lit, irq_array, due,
                 late>>

\* The keys whose branch the handler takes: at most one.
Serviced ==
  CASE bit = 0 -> {"S2"}
    [] bit = 2 -> {"S3"}
    [] bit = 5 /\ 11 \in val -> {"S4"}
    [] bit = 5 /\ 11 \notin val /\ 19 \in val -> {"S5"}
    [] OTHER -> {}

\* The branches on irq and val: the serviced key's LEDs follow its level.
SetLeds ==
  /\ Isr("set_leds", "ack_eint")
  /\ lit' = [d \in LEDs |->
               IF \E k \in Serviced : d \in Drives[k]
               THEN \E k \in Serviced : pins[k] ELSE lit[d]]
  /\ due' = due \ {k \in Serviced : pins[k] = pressed[k]}
  /\ UNCHANGED <<hwVars, mainVars, bit, val, pins, envVars, irq_array, late>>

\* Mutant: EINTPEND is not written.
AckEintMissing ==
  /\ Isr("ack_eint", "ack_src")
  /\ UNCHANGED <<hwVars, mainVars, bit, val, pins, envVars, lit, irq_array,
                 due, late>>

\* EINTPEND = val: every bit that was read is cleared, serviced or not.
AckEint ==
  /\ Isr("ack_eint", "ack_src")
  /\ eintpend' = eintpend \ val
  /\ UNCHANGED <<srcpnd, intmsk, intpnd, eintmask, mainVars, bit, val, pins,
                 envVars, lit, irq_array, due, late>>

\* timer_irq: walks the timer table and calls nothing.
TimerIrq ==
  /\ Isr("timer_irq", "ack_src")
  /\ UNCHANGED <<hwVars, mainVars, bit, val, pins, envVars, lit, irq_array,
                 due, late>>

\* Mutant: SRCPND = SRCPND, which clears every request and not this one only.
AckSrcpndAll ==
  /\ Isr("ack_src", "ack_int")
  /\ srcpnd' = EintLine(eintpend, eintmask)
  /\ UNCHANGED <<intmsk, intpnd, eintpend, eintmask, mainVars, bit, val, pins,
                 envVars, lit, irq_array, due, late>>

\* SRCPND = 1<<bit; a line that is still high sets the bit again.
AckSrcpnd ==
  /\ Isr("ack_src", "ack_int")
  /\ srcpnd' = (srcpnd \ {bit}) \cup EintLine(eintpend, eintmask)
  /\ UNCHANGED <<intmsk, intpnd, eintpend, eintmask, mainVars, bit, val, pins,
                 envVars, lit, irq_array, due, late>>

\* INTPND = 1<<bit, and back to user mode: the locals are gone.
AckIntpnd ==
  /\ Isr("ack_int", "user")
  /\ intpnd' = intpnd \ {bit}
  /\ bit' = 0 /\ val' = {} /\ pins' = NoPins
  /\ UNCHANGED <<srcpnd, intmsk, eintpend, eintmask, mainVars, envVars, lit,
                 irq_array, due, late>>
-----------------------------------------------------------------------------
\* INTMSK and EINTMASK come out of reset all masked; keys may be held and the
\* LEDs may show anything.
Init ==
  /\ srcpnd = {} /\ intmsk = Irqs /\ intpnd = {}
  /\ eintpend = {} /\ eintmask = Eints
  /\ pressed \in [Keys -> BOOLEAN] /\ lit \in [LEDs -> BOOLEAN]
  /\ irq_array = [i \in Irqs |-> NoHandler]
  /\ mpc = "pins" /\ reg = 1
  /\ ipc = "user" /\ bit = 0 /\ val = {} /\ pins = NoPins
  /\ edges = 0 /\ requests = 0 /\ due = {} /\ late = {}

MainStep ==
  ConfigurePins \/ ConfigureTrigger \/ UnmaskEints \/ StoreHandler \/ UnmaskIrq

IsrStep ==
  \/ TakeIrq \/ Dispatch \/ ReadEintpend \/ ReadGpfdat \/ ReadGpgdat
  \/ SetLeds \/ AckEint \/ TimerIrq \/ AckSrcpnd \/ AckIntpnd

Environment ==
  \/ \E k \in Keys : KeyEdge(k)
  \/ \E b \in Irqs \ KeyIrqs : DeviceRequest(b)

Next == MainStep \/ IsrStep \/ Arbitrate \/ Environment

Spec == Init /\ [][Next]_vars

\* The CPU keeps executing and the controller keeps arbitrating.
Fairness ==
  /\ WF_vars(MainStep)
  /\ WF_vars(IsrStep)
  /\ WF_vars(Arbitrate)

FairSpec == Spec /\ Fairness

\* Nothing is requested or in service, and main has finished its set-up.
Quiescent ==
  ipc = "user" /\ intpnd = {} /\ srcpnd = {} /\ eintpend = {} /\ mpc = "done"

\* Keys worked slowly: a key moves only when the interrupt system is at rest.
SlowNext ==
  \/ MainStep \/ IsrStep \/ Arbitrate
  \/ \E k \in Keys : Quiescent /\ KeyEdge(k)
  \/ \E b \in Irqs \ KeyIrqs : DeviceRequest(b)

SlowSpec == Init /\ [][SlowNext]_vars /\ Fairness
-----------------------------------------------------------------------------
MainPcs == {"pins", "trigger", "eintmask", "store", "unmask", "done"}
IsrPcs == {"user", "dispatch", "read_eintpend", "read_gpfdat", "read_gpgdat",
           "set_leds", "ack_eint", "timer_irq", "ack_src", "ack_int",
           "address 0"}

HwType ==
  /\ srcpnd \in SUBSET Irqs /\ intmsk \in SUBSET Irqs
  /\ intpnd \in SUBSET Irqs
  /\ eintpend \in SUBSET Eints /\ eintmask \in SUBSET Eints

MainType ==
  /\ mpc \in MainPcs /\ reg \in 1..(Len(Registrations) + 1)
  /\ mpc \in {"pins", "trigger", "eintmask"} => reg = 1
  /\ mpc \in {"store", "unmask"} => reg \in 1..Len(Registrations)
  /\ irq_array \in [Irqs -> Handlers \cup {NoHandler}]

IsrType ==
  /\ ipc \in IsrPcs /\ bit \in Irqs
  /\ val \in SUBSET Eints /\ pins \in [Keys -> BOOLEAN]

EnvType ==
  /\ pressed \in [Keys -> BOOLEAN] /\ lit \in [LEDs -> BOOLEAN]
  /\ edges \in 0..MaxEdges /\ requests \in 0..MaxRequests
  /\ due \in SUBSET Keys /\ late \in SUBSET Keys

\* Every variable has its type, and main's registration index is in range
\* wherever register_irq uses it.
TypeOK == HwType /\ MainType /\ IsrType /\ EnvType

\* Interrupts are on before main registers anything, so register_irq must store
\* the handler before it unmasks the irq: handle_irq_c never calls through an
\* empty irq_array slot (which would jump to address 0, the reset vector).
NoEmptyDispatch == ipc # "address 0"

\* "Clear the interrupt from its source": SRCPND is cleared before INTPND, so
\* INTPND never holds a request that SRCPND does not, except between those two
\* writes, and no handler runs for a request that was already acknowledged.
PendingIsRequested ==
  intpnd \subseteq srcpnd \cup (IF ipc = "ack_int" THEN {bit} ELSE {})

\* An edge of S2 or S3 whose level the LEDs do not show still has its SRCPND bit
\* set, unless it fell between the pin read of its own handler and the SRCPND
\* write that ends it: no other interleaving with other keys, with devices or
\* with main's registrations loses one.
DirectEdgeLostOnlyInWindow ==
  \A k \in DirectKeys : k \in due => IrqOf[k] \in srcpnd \/ k \in late

\* The inductive invariant behind the three properties above.
\* Every unmasked irq has its handler, and only unmasked irqs reach INTPND.
TableInv ==
  /\ \A b \in Irqs : irq_array[b] \in {NoHandler, HandlerOf(b)}
  /\ \A b \in Irqs : b \notin intmsk => irq_array[b] # NoHandler
  /\ mpc = "unmask" => irq_array[Registrations[reg]] # NoHandler
  /\ intpnd \cap intmsk = {}

\* At most one irq is in service; the handler running is the one of bit, and
\* bit is what INTPND holds.
ServiceInv ==
  /\ \A b, c \in intpnd : b = c
  /\ ipc = "dispatch" => intpnd # {}
  /\ ipc \notin {"user", "dispatch"} => intpnd = {bit}
  /\ ipc = "timer_irq" => bit \notin KeyIrqs
  /\ ipc \in {"read_eintpend", "read_gpfdat", "read_gpgdat", "set_leds", "ack_eint"}
       => bit \in KeyIrqs

\* Once the handler of a direct key has read the pin, the copy it holds is the
\* present level, and after the LED write the key is no longer due, unless an
\* edge came since.
EdgeInv ==
  /\ mpc \in {"pins", "trigger"} => due = {}
  /\ \A k \in DirectKeys :
       /\ bit = IrqOf[k] /\ ipc \in {"read_gpgdat", "set_leds"} /\ k \notin late
            => pins[k] = pressed[k]
       /\ bit = IrqOf[k] /\ ipc \in {"ack_eint", "ack_src"} /\ k \in due => k \in late

IInv ==
  /\ TableInv /\ ServiceInv /\ EdgeInv
  /\ NoEmptyDispatch /\ PendingIsRequested /\ DirectEdgeLostOnlyInWindow

\* EINT8_23 is a level: while an unmasked EINTPEND bit is set the request of
\* irq 5 stands in SRCPND, also after the handler has cleared its SRCPND bit.
EintLineHigh == EintLine(eintpend, eintmask) \subseteq srcpnd

\* The invariant behind the slow-key promise.  The pins a handler holds are the
\* present levels, no edge of a direct key is late, and an edge the LEDs do not
\* show yet is the only one and is still pending: S4 or S5 as the one bit of
\* EINTPEND, with no handler of another key about to clear it.
SlowPins ==
  /\ ipc \in {"read_gpgdat", "set_leds"} => \A k \in DirectKeys : pins[k] = pressed[k]
  /\ ipc = "set_leds" => \A k \in {"S4", "S5"} : pins[k] = pressed[k]

SlowDue ==
  \A k \in due :
    /\ due = {k} /\ mpc = "done"
    /\ k \in {"S4", "S5"} =>
         /\ eintpend = {EintOf[k]}
         /\ (srcpnd \cup intpnd) \cap KeyIrqs \subseteq {5}
         /\ ipc \in {"read_gpfdat", "read_gpgdat", "set_leds"} => val = {EintOf[k]}
         /\ ipc # "ack_eint"

SlowInv == late = {} /\ SlowPins /\ SlowDue

\* When keys and devices fall silent, main has registered its handlers and the
\* CPU is back in user mode for good: no request is left unserved, and no
\* acknowledge that fails to clear its source keeps the CPU in handlers.
InterruptsSettle ==
  <>[](mpc = "done" /\ ipc = "user" /\ intpnd = {} /\ srcpnd \subseteq intmsk)

\* With slow keys the program is the four-key, three-LED device of KeyLeds.
Promise == INSTANCE KeyLeds
RefinesKeyLeds == Promise!KeySpec

\* interrupt.c:74: "eint11: s4 controls D10, eint19: s5 controls all LEDs": what
\* the EINT8_23 handler clears in EINTPEND it has shown on the LEDs.
ClearedEintWasServiced ==
  [][ipc = "ack_eint" /\ bit = 5 =>
       \A k \in {"S4", "S5"} : EintOf[k] \in eintpend \ eintpend' => k \in Serviced]_vars
=============================================================================
