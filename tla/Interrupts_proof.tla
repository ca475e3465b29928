-------------------------- MODULE Interrupts_proof --------------------------
(* Proofs about Interrupts, for every set of irqs, every order of            *)
(* registration and any number of edges and requests.                        *)
EXTENDS Interrupts, TLAPS

-----------------------------------------------------------------------------
(* Types, one lemma per group of variables *)

LEMMA HwTyped == ASSUME TypeOK, [Next]_vars PROVE HwType'
<1> USE InterruptsAssumption DEF TypeOK, HwType, KeyIrqs
<1>1. CASE ConfigurePins
  <2>1. {EintOf[k] : k \in {"S4", "S5"} \cap {x \in Keys : pressed[x]}} \subseteq Eints
    BY DEF EintOf, Eints
  <2>2. {IrqOf[k] : k \in {"S2", "S3"} \cap {x \in Keys : pressed[x]}} \subseteq Irqs
    BY DEF IrqOf, Keys
  <2>3. QED
    BY <1>1, <2>1, <2>2 DEF ConfigurePins, EintLine
<1>2. CASE UnmaskEints
  BY <1>2 DEF UnmaskEints, EintLine
<1>3. CASE UnmaskIrq
  BY <1>3 DEF UnmaskIrq
<1>4. CASE AckEint \/ AckSrcpnd \/ AckIntpnd
  BY <1>4 DEF AckEint, AckSrcpnd, AckIntpnd, EintLine
<1>5. CASE Arbitrate
  BY <1>5 DEF Arbitrate
<1>6. ASSUME NEW k \in Keys, KeyEdge(k) PROVE HwType'
  <2>1. IrqOf[k] \in Irqs /\ (k \in {"S4", "S5"} => EintOf[k] \in Eints)
    BY DEF IrqOf, EintOf, Eints, Keys
  <2>2. CASE RequestKey(k)
    BY <1>6, <2>1, <2>2 DEF KeyEdge, RequestKey, EintLine
  <2>3. CASE UNCHANGED <<eintpend, srcpnd>>
    BY <1>6, <2>3 DEF KeyEdge
  <2>4. QED
    BY <1>6, <2>2, <2>3 DEF KeyEdge
<1>7. ASSUME NEW b \in Irqs \ KeyIrqs, DeviceRequest(b) PROVE HwType'
  BY <1>7 DEF DeviceRequest
<1>8. CASE UNCHANGED hwVars
  BY <1>8 DEF hwVars
<1>9. CASE \/ ConfigureTrigger \/ StoreHandler \/ TakeIrq \/ Dispatch \/ ReadEintpend
           \/ ReadGpfdat \/ ReadGpgdat \/ SetLeds \/ TimerIrq \/ UNCHANGED vars
  BY <1>8, <1>9 DEF ConfigureTrigger, StoreHandler, TakeIrq, Dispatch, ReadEintpend,
                    ReadGpfdat, ReadGpgdat, SetLeds, TimerIrq, vars
<1>10. QED
  BY <1>1, <1>2, <1>3, <1>4, <1>5, <1>6, <1>7, <1>9
     DEF Next, MainStep, IsrStep, Environment

LEMMA MainTyped == ASSUME TypeOK, [Next]_vars PROVE MainType'
<1> USE InterruptsAssumption DEF TypeOK, MainType, Main, MainPcs
<1>1. CASE ConfigurePins \/ ConfigureTrigger
  BY <1>1 DEF ConfigurePins, ConfigureTrigger
<1>2. CASE UnmaskEints
  BY <1>2 DEF UnmaskEints
<1>3. CASE StoreHandler
  BY <1>3 DEF StoreHandler, HandlerOf, Handlers
<1>4. CASE UnmaskIrq
  BY <1>4 DEF UnmaskIrq
<1>5. CASE UNCHANGED <<mainVars, irq_array>>
  BY <1>5 DEF mainVars
<1>6. CASE IsrStep \/ Arbitrate \/ Environment \/ UNCHANGED vars
  BY <1>5, <1>6 DEF IsrStep, TakeIrq, Dispatch, ReadEintpend, ReadGpfdat, ReadGpgdat,
                    SetLeds, AckEint, TimerIrq, AckSrcpnd, AckIntpnd, Arbitrate,
                    Environment, KeyEdge, DeviceRequest, vars
<1>7. QED
  BY <1>1, <1>2, <1>3, <1>4, <1>6 DEF Next, MainStep

LEMMA IsrTyped == ASSUME TypeOK, [Next]_vars PROVE IsrType'
<1> USE InterruptsAssumption DEF TypeOK, IsrType, Isr, IsrPcs
<1>1. CASE TakeIrq \/ AckEint \/ TimerIrq \/ AckSrcpnd \/ SetLeds
  BY <1>1 DEF TakeIrq, AckEint, TimerIrq, AckSrcpnd, SetLeds
<1>2. CASE Dispatch
  <2>1. bit' \in Irqs
    BY <1>2 DEF Dispatch, IntOffset, KeyIrqs, HwType
  <2>2. irq_array[bit'] \in Handlers \cup {NoHandler}
    BY <2>1 DEF MainType
  <2>3. QED
    BY <1>2, <2>1, <2>2 DEF Dispatch, Entry, Handlers, NoHandler
<1>3. CASE ReadEintpend
  BY <1>3 DEF ReadEintpend, HwType
<1>4. CASE ReadGpfdat
  BY <1>4 DEF ReadGpfdat, EnvType
<1>5. CASE ReadGpgdat
  BY <1>5 DEF ReadGpgdat, EnvType
<1>6. CASE AckIntpnd
  BY <1>6 DEF AckIntpnd, NoPins, KeyIrqs
<1>7. CASE UNCHANGED isrVars
  BY <1>7 DEF isrVars
<1>8. CASE MainStep \/ Arbitrate \/ Environment \/ UNCHANGED vars
  BY <1>7, <1>8 DEF MainStep, ConfigurePins, ConfigureTrigger, UnmaskEints,
                    StoreHandler, UnmaskIrq, Arbitrate, Environment, KeyEdge,
                    DeviceRequest, vars
<1>9. QED
  BY <1>1, <1>2, <1>3, <1>4, <1>5, <1>6, <1>8 DEF Next, IsrStep

LEMMA EnvTyped == ASSUME TypeOK, [Next]_vars PROVE EnvType'
<1> USE InterruptsAssumption DEF TypeOK, EnvType
<1>1. ASSUME NEW k \in Keys, KeyEdge(k) PROVE EnvType'
  BY <1>1 DEF KeyEdge
<1>2. ASSUME NEW b \in Irqs \ KeyIrqs, DeviceRequest(b) PROVE EnvType'
  BY <1>2 DEF DeviceRequest
<1>3. CASE ReadGpfdat
  BY <1>3 DEF ReadGpfdat, envVars
<1>4. CASE SetLeds
  <2>1. \A d \in LEDs : (IF \E k \in Serviced : d \in Drives[k]
                         THEN \E k \in Serviced : pins[k] ELSE lit[d]) \in BOOLEAN
    OBVIOUS
  <2>2. lit' \in [LEDs -> BOOLEAN]
    BY <1>4, <2>1 DEF SetLeds
  <2>3. QED
    BY <1>4, <2>2 DEF SetLeds, envVars
<1>5. CASE UNCHANGED <<envVars, lit, due, late>>
  BY <1>5 DEF envVars
<1>6. CASE \/ MainStep \/ Arbitrate \/ TakeIrq \/ Dispatch \/ ReadEintpend \/ ReadGpgdat
           \/ AckEint \/ TimerIrq \/ AckSrcpnd \/ AckIntpnd \/ UNCHANGED vars
  BY <1>5, <1>6 DEF MainStep, ConfigurePins, ConfigureTrigger, UnmaskEints,
                    StoreHandler, UnmaskIrq, Arbitrate, TakeIrq, Dispatch,
                    ReadEintpend, ReadGpgdat, AckEint, TimerIrq, AckSrcpnd,
                    AckIntpnd, vars
<1>7. QED
  BY <1>1, <1>2, <1>3, <1>4, <1>6 DEF Next, IsrStep, Environment

\* Type correctness: every variable keeps its type, and main's registration
\* index stays in range.
THEOREM TypeCorrect == Spec => []TypeOK
<1>1. Init => TypeOK
  BY InterruptsAssumption
     DEF Init, TypeOK, HwType, MainType, IsrType, EnvType, KeyIrqs, MainPcs, IsrPcs,
         NoPins
<1>2. TypeOK /\ [Next]_vars => TypeOK'
  BY HwTyped, MainTyped, IsrTyped, EnvTyped DEF TypeOK
<1>3. QED
  BY <1>1, <1>2, PTL DEF Spec
-----------------------------------------------------------------------------
(* The inductive invariant *)

LEMMA TableStep == ASSUME TypeOK, TableInv, [Next]_vars PROVE TableInv'
<1> USE InterruptsAssumption DEF TypeOK, TableInv
<1>1. CASE StoreHandler
  <2>1. Registrations[reg] \in Irqs /\ HandlerOf(Registrations[reg]) # NoHandler
    BY <1>1 DEF StoreHandler, Main, MainType, HandlerOf, NoHandler
  <2>2. \A b \in Irqs : irq_array'[b] = IF b = Registrations[reg] THEN HandlerOf(b) ELSE irq_array[b]
    BY <1>1 DEF StoreHandler, MainType
  <2>3. UNCHANGED <<hwVars, reg>>
    BY <1>1 DEF StoreHandler
  <2>4. QED
    BY <2>1, <2>2, <2>3 DEF hwVars
<1>2. CASE UnmaskIrq
  <2>1. mpc = "unmask" /\ mpc' # "unmask" /\ intmsk' = intmsk \ {Registrations[reg]}
    BY <1>2 DEF UnmaskIrq, Main
  <2>2. UNCHANGED <<intpnd, irq_array>>
    BY <1>2 DEF UnmaskIrq
  <2>3. QED
    BY <2>1, <2>2
<1>3. CASE Arbitrate
  BY <1>3 DEF Arbitrate, mainVars, HwType
<1>4. CASE AckIntpnd
  BY <1>4 DEF AckIntpnd, mainVars
<1>5. CASE ConfigurePins \/ ConfigureTrigger \/ UnmaskEints
  BY <1>5 DEF ConfigurePins, ConfigureTrigger, UnmaskEints, Main, hwVars
<1>6. CASE UNCHANGED <<intmsk, intpnd, irq_array, mpc, reg>>
  BY <1>6
<1>7. CASE \/ TakeIrq \/ Dispatch \/ ReadEintpend \/ ReadGpfdat \/ ReadGpgdat \/ SetLeds
           \/ AckEint \/ TimerIrq \/ AckSrcpnd \/ Environment \/ UNCHANGED vars
  BY <1>6, <1>7 DEF TakeIrq, Dispatch, ReadEintpend, ReadGpfdat, ReadGpgdat, SetLeds,
                    AckEint, TimerIrq, AckSrcpnd, Environment, KeyEdge, DeviceRequest,
                    vars, hwVars, mainVars
<1>8. QED
  BY <1>1, <1>2, <1>3, <1>4, <1>5, <1>7 DEF Next, MainStep, IsrStep

\* What Dispatch finds: the one irq in service, with its handler.
LEMMA DispatchFinds ==
  ASSUME TypeOK, TableInv, ServiceInv, Dispatch
  PROVE  /\ bit' \in Irqs /\ intpnd' = {bit'}
         /\ ipc' = IF bit' \in KeyIrqs THEN "read_eintpend" ELSE "timer_irq"
<1>1. intpnd # {} /\ intpnd \subseteq Irqs /\ intpnd' = intpnd
  BY DEF Dispatch, Isr, ServiceInv, TypeOK, HwType, hwVars
<1>2. bit' \in intpnd
  BY <1>1 DEF Dispatch, IntOffset
<1>3. irq_array[bit'] = HandlerOf(bit')
  BY <1>1, <1>2 DEF TableInv
<1>4. ipc' = Entry(HandlerOf(bit'))
  BY <1>3 DEF Dispatch, Isr
<1>5. intpnd = {bit'}
  BY <1>1, <1>2 DEF ServiceInv
<1>6. ipc' = IF bit' \in KeyIrqs THEN "read_eintpend" ELSE "timer_irq"
  BY <1>4 DEF Entry, HandlerOf, NoHandler
<1>7. QED
  BY <1>1, <1>2, <1>5, <1>6

LEMMA ServiceStep ==
  ASSUME TypeOK, TableInv, ServiceInv, NoEmptyDispatch, [Next]_vars
  PROVE  ServiceInv' /\ NoEmptyDispatch'
<1> USE DEF ServiceInv, NoEmptyDispatch, Isr
<1>1. CASE Dispatch
  BY <1>1, DispatchFinds
<1>2. CASE Arbitrate
  BY <1>2 DEF Arbitrate, isrVars
<1>3. CASE TakeIrq
  BY <1>3 DEF TakeIrq, hwVars
<1>4. CASE ReadEintpend \/ ReadGpfdat \/ ReadGpgdat \/ SetLeds \/ AckEint \/ TimerIrq \/ AckSrcpnd
  BY <1>4 DEF ReadEintpend, ReadGpfdat, ReadGpgdat, SetLeds, AckEint, TimerIrq,
              AckSrcpnd, hwVars
<1>5. CASE AckIntpnd
  BY <1>5 DEF AckIntpnd
<1>6. CASE UNCHANGED <<intpnd, ipc, bit>>
  BY <1>6
<1>7. CASE MainStep \/ Environment \/ UNCHANGED vars
  BY <1>6, <1>7 DEF MainStep, ConfigurePins, ConfigureTrigger, UnmaskEints, StoreHandler,
                    UnmaskIrq, Environment, KeyEdge, DeviceRequest, vars, hwVars, isrVars
<1>8. QED
  BY <1>1, <1>2, <1>3, <1>4, <1>5, <1>7 DEF Next, IsrStep

\* Only AckSrcpnd takes anything out of SRCPND, and only the irq in service.
LEMMA RequestsStay ==
  ASSUME TypeOK, [Next]_vars
  PROVE  srcpnd \subseteq srcpnd' \/ AckSrcpnd
<1>1. CASE MainStep
  BY <1>1 DEF MainStep, ConfigurePins, ConfigureTrigger, UnmaskEints, StoreHandler,
              UnmaskIrq, hwVars
<1>2. CASE Environment
  BY <1>2 DEF Environment, KeyEdge, RequestKey, DeviceRequest
<1>3. CASE Arbitrate \/ UNCHANGED vars
  BY <1>3 DEF Arbitrate, vars, hwVars
<1>4. CASE \/ TakeIrq \/ Dispatch \/ ReadEintpend \/ ReadGpfdat \/ ReadGpgdat \/ SetLeds
           \/ AckEint \/ TimerIrq \/ AckIntpnd
  BY <1>4 DEF TakeIrq, Dispatch, ReadEintpend, ReadGpfdat, ReadGpgdat, SetLeds, AckEint,
              TimerIrq, AckIntpnd, hwVars
<1>5. QED
  BY <1>1, <1>2, <1>3, <1>4 DEF Next, IsrStep

LEMMA PendingStep ==
  ASSUME TypeOK, ServiceInv, PendingIsRequested, [Next]_vars PROVE PendingIsRequested'
<1> USE DEF PendingIsRequested, Isr
<1>1. CASE AckSrcpnd
  BY <1>1 DEF AckSrcpnd, ServiceInv
<1>2. CASE Arbitrate
  BY <1>2 DEF Arbitrate, isrVars
<1>3. CASE AckIntpnd
  BY <1>3, RequestsStay DEF AckIntpnd, ServiceInv
<1>4. CASE \/ TakeIrq \/ Dispatch \/ ReadEintpend \/ ReadGpfdat \/ ReadGpgdat \/ SetLeds
           \/ AckEint \/ TimerIrq
  BY <1>4 DEF TakeIrq, Dispatch, ReadEintpend, ReadGpfdat, ReadGpgdat, SetLeds, AckEint,
              TimerIrq, hwVars
<1>5. CASE MainStep \/ Environment \/ UNCHANGED vars
  <2>1. UNCHANGED <<intpnd, ipc, bit>>
    BY <1>5 DEF MainStep, ConfigurePins, ConfigureTrigger, UnmaskEints, StoreHandler,
                UnmaskIrq, Environment, KeyEdge, DeviceRequest, vars, hwVars, isrVars
  <2>2. srcpnd \subseteq srcpnd'
    BY <1>5, <2>1, RequestsStay DEF AckSrcpnd
  <2>3. QED
    BY <2>1, <2>2
<1>6. QED
  BY <1>1, <1>2, <1>3, <1>4, <1>5 DEF Next, IsrStep

\* What one edge of key j does to the history variables and to SRCPND.
LEMMA EdgeEffect ==
  ASSUME TypeOK, NEW j \in Keys, KeyEdge(j)
  PROVE  /\ UNCHANGED <<ipc, bit, pins, mpc>>
         /\ srcpnd \subseteq srcpnd'
         /\ \A k \in Keys \ {j} : pressed'[k] = pressed[k]
         /\ due' = IF mpc \in {"pins", "trigger"} THEN due ELSE due \cup {j}
         /\ late' = IF InWindow(j) THEN late \cup {j} ELSE late \ {j}
         /\ j \in DirectKeys /\ mpc \notin {"pins", "trigger"} => IrqOf[j] \in srcpnd'
<1>1. UNCHANGED <<ipc, bit, pins, mpc>>
  BY DEF KeyEdge, mainVars, isrVars
<1>2. srcpnd \subseteq srcpnd'
  BY DEF KeyEdge, RequestKey
<1>3. \A k \in Keys \ {j} : pressed'[k] = pressed[k]
  BY DEF KeyEdge, TypeOK, EnvType
<1>4. j \in DirectKeys /\ mpc \notin {"pins", "trigger"} => IrqOf[j] \in srcpnd'
  BY DEF KeyEdge, RequestKey, Triggers, DirectKeys
<1>5. QED
  BY <1>1, <1>2, <1>3, <1>4 DEF KeyEdge

LEMMA DirectStep ==
  ASSUME TypeOK, IInv, [Next]_vars PROVE DirectEdgeLostOnlyInWindow'
<1> SUFFICES ASSUME NEW k \in DirectKeys, k \in due'
             PROVE  IrqOf[k] \in srcpnd' \/ k \in late'
  BY DEF DirectEdgeLostOnlyInWindow
<1>1. k \in due => IrqOf[k] \in srcpnd \/ k \in late
  BY DEF IInv, DirectEdgeLostOnlyInWindow
<1>2. CASE AckSrcpnd
  <2>1. k \in due /\ late' = late /\ srcpnd \ {bit} \subseteq srcpnd'
    BY <1>2 DEF AckSrcpnd
  <2>2. bit = IrqOf[k] => k \in late
    BY <1>2, <2>1 DEF AckSrcpnd, Isr, IInv, EdgeInv
  <2>3. QED
    BY <1>1, <2>1, <2>2
<1>3. CASE ReadGpfdat
  <2>1. k \in due /\ srcpnd' = srcpnd /\ bit \in srcpnd
    BY <1>3 DEF ReadGpfdat, Isr, IInv, ServiceInv, PendingIsRequested, hwVars
  <2>2. bit # IrqOf[k] => (k \in late => k \in late')
    BY <1>3 DEF ReadGpfdat
  <2>3. QED
    BY <1>1, <2>1, <2>2
<1>4. ASSUME NEW j \in Keys, KeyEdge(j)
      PROVE  IrqOf[k] \in srcpnd' \/ k \in late'
  <2>1. CASE mpc \in {"pins", "trigger"}
    BY <1>4, <2>1, EdgeEffect DEF IInv, EdgeInv
  <2>2. CASE mpc \notin {"pins", "trigger"}
    BY <1>1, <1>4, <2>2, EdgeEffect
  <2>3. QED
    BY <2>1, <2>2
<1>5. CASE srcpnd \subseteq srcpnd' /\ due' \subseteq due /\ late' = late
  BY <1>1, <1>5
<1>6. CASE \/ MainStep \/ Arbitrate \/ TakeIrq \/ Dispatch \/ ReadEintpend \/ ReadGpgdat
           \/ SetLeds \/ AckEint \/ TimerIrq \/ AckIntpnd \/ UNCHANGED vars
  <2>1. due' \subseteq due /\ late' = late
    BY <1>6 DEF MainStep, ConfigurePins, ConfigureTrigger, UnmaskEints, StoreHandler,
                UnmaskIrq, Arbitrate, TakeIrq, Dispatch, ReadEintpend, ReadGpgdat,
                SetLeds, AckEint, TimerIrq, AckIntpnd, vars
  <2>2. CASE AckSrcpnd
    BY <1>2, <2>2
  <2>3. QED
    BY <1>5, <1>2, <2>1, RequestsStay
<1>7. ASSUME NEW b \in Irqs \ KeyIrqs, DeviceRequest(b)
      PROVE  IrqOf[k] \in srcpnd' \/ k \in late'
  BY <1>5, <1>7 DEF DeviceRequest
<1>8. QED
  BY <1>2, <1>3, <1>4, <1>6, <1>7 DEF Next, IsrStep, Environment

LEMMA EdgeStep ==
  ASSUME TypeOK, IInv, [Next]_vars PROVE EdgeInv'
<1> USE DEF Isr, IInv, EdgeInv
<1>1. ASSUME NEW j \in Keys, KeyEdge(j) PROVE EdgeInv'
  <2> DEFINE Early == mpc \in {"pins", "trigger"}
  <2>1. /\ ipc' = ipc /\ bit' = bit /\ pins' = pins /\ mpc' = mpc
        /\ Early => due' = due
        /\ \A k \in DirectKeys \ {j} :
             /\ pressed'[k] = pressed[k] /\ (k \in late' <=> k \in late)
             /\ k \in due' => k \in due
    BY <1>1, EdgeEffect DEF DirectKeys, Keys
  <2>2. InWindow(j) => j \in late'
    BY <1>1, EdgeEffect
  <2>3. ASSUME NEW k \in DirectKeys, bit = IrqOf[k],
               ipc \in {"read_gpgdat", "set_leds", "ack_eint", "ack_src"}, k = j
        PROVE  k \in late'
    BY <2>2, <2>3 DEF InWindow
  <2>4. ASSUME Early' PROVE due' = {}
    BY <2>1, <2>4
  <2>5. QED
    BY <2>1, <2>3, <2>4
<1>2. CASE ReadGpfdat
  <2>1. \A k \in DirectKeys : pins'[k] = pressed'[k]
    BY <1>2 DEF ReadGpfdat, envVars, DirectKeys, Keys
  <2>2. QED
    BY <1>2, <2>1 DEF ReadGpfdat, mainVars
<1>3. CASE ReadGpgdat
  <2>1. \A k \in DirectKeys : pins'[k] = pins[k]
    BY <1>3 DEF ReadGpgdat, DirectKeys, Keys
  <2>2. QED
    BY <1>3, <2>1 DEF ReadGpgdat, mainVars, envVars
<1>4. CASE SetLeds
  <2>1. \A k \in DirectKeys : bit = IrqOf[k] => Serviced = {k}
    BY DEF DirectKeys, IrqOf, Keys, Serviced
  <2>2. \A k \in DirectKeys : bit = IrqOf[k] /\ k \in due' => k \in late'
    BY <1>4, <2>1 DEF SetLeds
  <2>3. due' \subseteq due /\ ipc' = "ack_eint" /\ mpc' = mpc /\ bit' = bit
    BY <1>4 DEF SetLeds, mainVars
  <2>4. QED
    BY <2>2, <2>3
<1>5. CASE TimerIrq
  <2>1. bit \notin KeyIrqs
    BY <1>5 DEF TimerIrq, ServiceInv
  <2>2. \A k \in DirectKeys : IrqOf[k] \in KeyIrqs
    BY DEF DirectKeys, IrqOf, Keys, KeyIrqs
  <2>3. QED
    BY <1>5, <2>1, <2>2 DEF TimerIrq, mainVars
<1>6. CASE TakeIrq \/ ReadEintpend \/ AckEint \/ AckSrcpnd
  BY <1>6 DEF TakeIrq, ReadEintpend, AckEint, AckSrcpnd, mainVars
<1>7. CASE AckIntpnd
  BY <1>7 DEF AckIntpnd, mainVars
<1>8. CASE Dispatch
  BY <1>8, DispatchFinds DEF Dispatch, mainVars
<1>9. CASE MainStep
  <2>1. ipc' = "user" /\ due' = due
    BY <1>9 DEF MainStep, ConfigurePins, ConfigureTrigger, UnmaskEints, StoreHandler,
                UnmaskIrq, Main, isrVars
  <2>2. mpc' \in {"pins", "trigger"} => mpc \in {"pins", "trigger"}
    BY <1>9 DEF MainStep, ConfigurePins, ConfigureTrigger, UnmaskEints, StoreHandler,
                UnmaskIrq, Main
  <2>3. QED
    BY <2>1, <2>2
<1>10. CASE UNCHANGED <<mpc, ipc, bit, pins, pressed, due, late>>
  BY <1>10
<1>11. CASE Arbitrate \/ UNCHANGED vars
  BY <1>10, <1>11 DEF Arbitrate, vars, mainVars, isrVars, envVars
<1>12. ASSUME NEW b \in Irqs \ KeyIrqs, DeviceRequest(b) PROVE EdgeInv'
  BY <1>10, <1>12 DEF DeviceRequest, mainVars, isrVars
<1>13. QED
  BY <1>1, <1>2, <1>3, <1>4, <1>5, <1>6, <1>7, <1>8, <1>9, <1>11, <1>12
     DEF Next, IsrStep, Environment

THEOREM Inductive == Spec => [](TypeOK /\ IInv)
<1>1. Init => IInv
  BY InterruptsAssumption
     DEF Init, IInv, TableInv, ServiceInv, EdgeInv, NoEmptyDispatch, PendingIsRequested,
         DirectEdgeLostOnlyInWindow, Keys
<1>2. TypeOK /\ IInv /\ [Next]_vars => IInv'
  BY TableStep, ServiceStep, PendingStep, DirectStep, EdgeStep DEF IInv
<1>3. QED
  BY <1>1, <1>2, TypeCorrect, PTL DEF Spec

\* handle_irq_c never calls through an empty irq_array slot: register_irq's
\* order of its two statements suffices, whatever main registers and whenever
\* interrupts arrive.
THEOREM DispatchSafe == Spec => []NoEmptyDispatch
BY Inductive, PTL DEF IInv

\* INTPND never holds a request that is not in SRCPND, so no handler runs twice
\* for one request.
THEOREM AcknowledgeFromSource == Spec => []PendingIsRequested
BY Inductive, PTL DEF IInv

\* The only interleaving that loses an edge of S2 or S3 is one inside the
\* window between the handler's pin read and its SRCPND write.
THEOREM LostEdgesAreLate == Spec => []DirectEdgeLostOnlyInWindow
BY Inductive, PTL DEF IInv

\* A pending EINT always requests irq 5: whatever a handler clears, and in
\* whatever order key edges fall between its register accesses, the request
\* of an unmasked EINTPEND bit is never lost between EINTPEND and SRCPND.
THEOREM PendingEintRequests == Spec => []EintLineHigh
<1> USE DEF EintLineHigh, EintLine
<1>1. Init => EintLineHigh
  BY DEF Init
<1>2. ASSUME TypeOK, EintLineHigh, [Next]_vars PROVE EintLineHigh'
  <2>1. CASE ConfigurePins
    BY <1>2, <2>1 DEF ConfigurePins
  <2>2. CASE UnmaskEints
    BY <1>2, <2>2 DEF UnmaskEints
  <2>3. ASSUME NEW k \in Keys, KeyEdge(k) PROVE EintLineHigh'
    <3>1. CASE RequestKey(k) /\ k \in {"S4", "S5"}
      BY <2>3, <3>1 DEF KeyEdge, RequestKey
    <3>2. CASE RequestKey(k) /\ k \notin {"S4", "S5"}
      BY <1>2, <2>3, <3>2 DEF KeyEdge, RequestKey
    <3>3. CASE UNCHANGED <<eintpend, srcpnd>>
      BY <1>2, <2>3, <3>3 DEF KeyEdge
    <3>4. QED
      BY <2>3, <3>1, <3>2, <3>3 DEF KeyEdge
  <2>4. ASSUME NEW b \in Irqs \ KeyIrqs, DeviceRequest(b) PROVE EintLineHigh'
    BY <1>2, <2>4 DEF DeviceRequest
  <2>5. CASE AckEint
    BY <1>2, <2>5 DEF AckEint
  <2>6. CASE AckSrcpnd
    BY <2>6 DEF AckSrcpnd
  <2>7. CASE UNCHANGED <<eintpend, eintmask, srcpnd>>
    BY <1>2, <2>7
  <2>8. CASE \/ ConfigureTrigger \/ StoreHandler \/ UnmaskIrq \/ TakeIrq \/ Dispatch
             \/ ReadEintpend \/ ReadGpfdat \/ ReadGpgdat \/ SetLeds \/ TimerIrq
             \/ AckIntpnd \/ Arbitrate \/ UNCHANGED vars
    BY <2>7, <2>8 DEF ConfigureTrigger, StoreHandler, UnmaskIrq, TakeIrq, Dispatch,
                      ReadEintpend, ReadGpfdat, ReadGpgdat, SetLeds, TimerIrq,
                      AckIntpnd, Arbitrate, hwVars, vars
  <2>9. QED
    BY <1>2, <2>1, <2>2, <2>3, <2>4, <2>5, <2>6, <2>8
       DEF Next, MainStep, IsrStep, Environment
<1>3. QED
  BY <1>1, <1>2, TypeCorrect, PTL DEF Spec
-----------------------------------------------------------------------------
(* Slow keys: the program implements KeyLeds *)

\* What a key moving at rest finds, and that nothing is due then.
LEMMA RestShowsAll ==
  ASSUME TypeOK, IInv, SlowInv, Quiescent PROVE due = {}
<1> SUFFICES ASSUME NEW k \in due PROVE FALSE
  OBVIOUS
<1>1. k \in Keys
  BY DEF TypeOK, EnvType
<1>2. CASE k \in DirectKeys
  BY <1>2 DEF IInv, DirectEdgeLostOnlyInWindow, SlowInv, Quiescent
<1>3. CASE k \in {"S4", "S5"}
  BY <1>3 DEF SlowInv, SlowDue, Quiescent
<1>4. QED
  BY <1>1, <1>2, <1>3 DEF Keys, DirectKeys

LEMMA SlowIsNext == SlowNext => Next
BY DEF SlowNext, Next, Environment

\* Of several keys moving, only the history says which came late.
LEMMA SlowEdge ==
  ASSUME TypeOK, IInv, SlowInv, NEW j \in Keys, Quiescent, KeyEdge(j)
  PROVE  SlowInv' /\ due = {} /\ due' = {j}
<1>1. due = {} /\ ipc' = "user" /\ mpc' = "done" /\ intpnd' = {}
  BY RestShowsAll DEF Quiescent, KeyEdge, mainVars, isrVars
<1>2. due' = {j}
  BY <1>1 DEF KeyEdge, Quiescent
<1>3. late' = {}
  BY DEF KeyEdge, InWindow, Quiescent, SlowInv
<1>4. j \in {"S4", "S5"} => eintpend' = {EintOf[j]} /\ srcpnd' \subseteq {5}
  BY DEF KeyEdge, RequestKey, Triggers, Quiescent, EintLine
<1>5. QED
  BY <1>1, <1>2, <1>3, <1>4 DEF SlowInv, SlowPins, SlowDue

\* At the LED write the serviced key's copy is its present level.
LEMMA SlowSetLeds ==
  ASSUME TypeOK, IInv, SlowInv, SetLeds
  PROVE  /\ \A k \in Serviced : pins[k] = pressed[k]
         /\ due' = due \ Serviced
         /\ due' = {} \/ due' \subseteq DirectKeys
<1>1. Serviced \subseteq Keys
  BY DEF Serviced, Keys
<1>2. \A k \in Serviced : pins[k] = pressed[k]
  BY <1>1 DEF SetLeds, Isr, SlowInv, SlowPins, Keys, DirectKeys
<1>3. due' = due \ Serviced
  BY <1>2 DEF SetLeds
<1>4. ASSUME NEW k \in due, k \in {"S4", "S5"} PROVE Serviced = {k}
  <2>1. val = {EintOf[k]} /\ intpnd \cap KeyIrqs \subseteq {5} /\ intpnd = {bit}
    BY <1>4 DEF SlowInv, SlowDue, SetLeds, Isr, IInv, ServiceInv
  <2>2. bit \in KeyIrqs
    BY DEF SetLeds, Isr, IInv, ServiceInv
  <2>3. bit = 5
    BY <2>1, <2>2
  <2>4. CASE k = "S4"
    BY <2>1, <2>3, <2>4 DEF Serviced, EintOf
  <2>5. CASE k = "S5"
    BY <2>1, <2>3, <2>5 DEF Serviced, EintOf
  <2>6. QED
    BY <1>4, <2>4, <2>5
<1>5. due \subseteq Keys
  BY DEF TypeOK, EnvType
<1>6. QED
  BY <1>2, <1>3, <1>4, <1>5 DEF Keys, DirectKeys

LEMMA SlowStep ==
  ASSUME TypeOK, IInv, SlowInv, [SlowNext]_vars PROVE SlowInv'
<1> USE DEF SlowInv, SlowPins, SlowDue, Isr
<1>1. ASSUME NEW j \in Keys, Quiescent, KeyEdge(j) PROVE SlowInv'
  BY <1>1, SlowEdge
<1>2. ASSUME NEW b \in Irqs \ KeyIrqs, DeviceRequest(b) PROVE SlowInv'
  <2>1. UNCHANGED <<eintpend, intpnd, mpc, ipc, val, pins, pressed, due, late>>
    BY <1>2 DEF DeviceRequest, mainVars, isrVars
  <2>2. srcpnd' \cap KeyIrqs = srcpnd \cap KeyIrqs
    BY <1>2 DEF DeviceRequest
  <2>3. QED
    BY <2>1, <2>2
<1>3. CASE MainStep
  <2>1. ipc' = "user" /\ mpc # "done" /\ UNCHANGED <<late, due>>
    BY <1>3 DEF MainStep, ConfigurePins, ConfigureTrigger, UnmaskEints, StoreHandler,
                UnmaskIrq, Main, isrVars
  <2>2. QED
    BY <2>1
<1>4. CASE Arbitrate
  BY <1>4 DEF Arbitrate, mainVars, isrVars, envVars
<1>5. CASE TakeIrq \/ TimerIrq
  BY <1>5 DEF TakeIrq, TimerIrq, hwVars, mainVars, envVars
<1>6. CASE Dispatch
  <2>1. ipc' \in {"read_eintpend", "timer_irq"}
    BY <1>6, DispatchFinds DEF IInv
  <2>2. QED
    BY <1>6, <2>1 DEF Dispatch, hwVars, mainVars, envVars
<1>7. CASE ReadEintpend
  BY <1>7 DEF ReadEintpend, hwVars, mainVars, envVars
<1>8. CASE ReadGpfdat
  <2>1. \A k \in DirectKeys : pins'[k] = pressed'[k]
    BY <1>8 DEF ReadGpfdat, envVars, DirectKeys, Keys
  <2>2. QED
    BY <1>8, <2>1 DEF ReadGpfdat, hwVars, mainVars, envVars
<1>9. CASE ReadGpgdat
  <2>1. \A k \in DirectKeys : pins'[k] = pins[k]
    BY <1>9 DEF ReadGpgdat, DirectKeys, Keys
  <2>2. \A k \in {"S4", "S5"} : pins'[k] = pressed'[k]
    BY <1>9 DEF ReadGpgdat, envVars, Keys
  <2>3. QED
    BY <1>9, <2>1, <2>2 DEF ReadGpgdat, hwVars, mainVars, envVars
<1>10. CASE SetLeds
  <2>1. due' = due \ Serviced /\ (due' = {} \/ due' \subseteq DirectKeys)
    BY <1>10, SlowSetLeds
  <2>2. UNCHANGED <<mpc, late>> /\ ipc' = "ack_eint"
    BY <1>10 DEF SetLeds, mainVars
  <2>3. QED
    BY <2>1, <2>2 DEF DirectKeys
<1>11. CASE AckEint
  BY <1>11 DEF AckEint, mainVars, envVars
<1>12. CASE AckSrcpnd
  BY <1>12 DEF AckSrcpnd, EintLine, mainVars, envVars
<1>13. CASE AckIntpnd
  BY <1>13 DEF AckIntpnd, mainVars, envVars
<1>14. CASE UNCHANGED vars
  BY <1>14 DEF vars, hwVars, mainVars, isrVars, envVars
<1>15. QED
  BY <1>1, <1>2, <1>3, <1>4, <1>5, <1>6, <1>7, <1>8, <1>9, <1>10, <1>11, <1>12,
     <1>13, <1>14 DEF SlowNext, IsrStep

\* Every step of the program with slow keys is a step of the four-key device or
\* leaves it alone: a key moves only when nothing is due, and an LED write
\* shows the present level of the one key it serves.
LEMMA SlowStepMaps ==
  ASSUME TypeOK, IInv, SlowInv, [SlowNext]_vars
  PROVE  [Promise!KeyNext]_(Promise!keyVars)
<1> USE DEF Promise!KeyNext, Promise!keyVars
<1>1. ASSUME NEW k \in Keys, Quiescent, KeyEdge(k) PROVE Promise!KeyNext
  <2>1. due = {} /\ due' = {k}
    BY <1>1, SlowEdge
  <2>2. pressed' = [pressed EXCEPT ![k] = ~@] /\ lit' = lit
    BY <1>1 DEF KeyEdge
  <2>3. Promise!Edge(k)
    BY <2>1, <2>2 DEF Promise!Edge
  <2>4. QED
    BY <2>3 DEF Keys, Promise!Keys
<1>2. CASE SetLeds
  <2>1. /\ \A k \in Serviced : pins[k] = pressed[k]
        /\ due' = due \ Serviced
    BY <1>2, SlowSetLeds
  <2>2. pressed' = pressed
    BY <1>2 DEF SetLeds, envVars
  <2>3. CASE Serviced = {}
    <3>1. lit' = [d \in LEDs |-> lit[d]]
      BY <1>2, <2>3 DEF SetLeds
    <3>2. lit' = lit
      BY <3>1 DEF TypeOK, EnvType
    <3>3. due' = due
      BY <2>1, <2>3
    <3>4. QED
      BY <2>2, <3>2, <3>3
  <2>4. ASSUME NEW k \in Keys, Serviced = {k} PROVE Promise!KeyNext
    <3>1. \A d \in LEDs : (\E j \in Serviced : d \in Drives[j]) <=> d \in Drives[k]
      BY <2>4
    <3>2. (\E j \in Serviced : pins[j]) = pressed[k]
      <4>1. pressed[k] \in BOOLEAN
        BY <2>4 DEF TypeOK, EnvType
      <4>2. (\E j \in Serviced : pins[j]) <=> pressed[k]
        BY <2>1, <2>4
      <4>3. QED
        BY <4>1, <4>2, Zenon
    <3>3. Drives = Promise!Drives
      BY DEF Drives, Promise!Drives, Keys, Promise!Keys, LEDs, Promise!LEDs
    <3>4. lit' = [d \in Promise!LEDs |-> IF d \in Promise!Drives[k] THEN pressed[k] ELSE lit[d]]
      <4>1. lit' = [d \in LEDs |-> IF \E j \in Serviced : d \in Drives[j]
                                  THEN \E j \in Serviced : pins[j] ELSE lit[d]]
        BY <1>2 DEF SetLeds
      <4>2. lit' = [d \in LEDs |-> IF d \in Drives[k] THEN pressed[k] ELSE lit[d]]
        BY <4>1, <3>1, <3>2, Zenon
      <4>3. LEDs = Promise!LEDs
        BY DEF LEDs, Promise!LEDs
      <4>4. QED
        BY <4>2, <4>3, <3>3, Zenon
    <3>5. Promise!Show(k)
      BY <2>1, <2>2, <2>4, <3>4 DEF Promise!Show
    <3>6. QED
      BY <3>5 DEF Keys, Promise!Keys
  <2>5. Serviced = {} \/ \E k \in Keys : Serviced = {k}
    BY DEF Serviced, Keys
  <2>6. QED
    BY <2>3, <2>4, <2>5
<1>3. CASE UNCHANGED <<pressed, lit, due>>
  BY <1>3
<1>4. ASSUME NEW b \in Irqs \ KeyIrqs, DeviceRequest(b) PROVE UNCHANGED <<pressed, lit, due>>
  BY <1>4 DEF DeviceRequest
<1>5. CASE \/ MainStep \/ Arbitrate \/ TakeIrq \/ Dispatch \/ ReadEintpend \/ ReadGpfdat
           \/ ReadGpgdat \/ AckEint \/ TimerIrq \/ AckSrcpnd \/ AckIntpnd \/ UNCHANGED vars
  BY <1>3, <1>5 DEF MainStep, ConfigurePins, ConfigureTrigger, UnmaskEints, StoreHandler,
                    UnmaskIrq, Arbitrate, TakeIrq, Dispatch, ReadEintpend, ReadGpfdat,
                    ReadGpgdat, AckEint, TimerIrq, AckSrcpnd, AckIntpnd, envVars, vars
<1>6. QED
  BY <1>1, <1>2, <1>3, <1>4, <1>5 DEF SlowNext, IsrStep

\* The safety half of RefinesKeyLeds: with slow keys the program is the
\* four-key, three-LED device, for any irqs, any order of registration and any
\* number of presses and device requests.
THEOREM ImplementsKeyLeds ==
  Init /\ [][SlowNext]_vars => Promise!KeyInit /\ [][Promise!KeyNext]_(Promise!keyVars)
<1>1. Init => Promise!KeyInit
  BY DEF Init, Promise!KeyInit, Keys, Promise!Keys, LEDs, Promise!LEDs
<1>2. Init => SlowInv
  BY DEF Init, SlowInv, SlowPins, SlowDue
<1>3. [SlowNext]_vars => [Next]_vars
  BY SlowIsNext
<1>4. Init /\ [][SlowNext]_vars => [](TypeOK /\ IInv)
  BY <1>3, Inductive, PTL DEF Spec
<1>5. TypeOK /\ IInv /\ SlowInv /\ [SlowNext]_vars => SlowInv'
  BY SlowStep
<1>6. Init /\ [][SlowNext]_vars => []SlowInv
  BY <1>2, <1>4, <1>5, PTL
<1>7. TypeOK /\ IInv /\ SlowInv /\ [SlowNext]_vars => [Promise!KeyNext]_(Promise!keyVars)
  BY SlowStepMaps
<1>8. QED
  BY <1>1, <1>4, <1>6, <1>7, PTL
=============================================================================
