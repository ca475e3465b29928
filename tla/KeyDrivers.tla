----------------------------- MODULE KeyDrivers -----------------------------
(* Both key drivers of the first edition loaded into one kernel: they ask    *)
(* for the same four interrupt lines.                                        *)
EXTENDS ButtonDriver, PressDriver

ASSUME KeyDriversAssumption == Users \cap Counters = {}

vars == <<lineVars, buttonVars, pressVars>>

Init == LinesInit /\ ButtonInit /\ PressInit

\* A process of the second driver goes on only when no handler of the first is
\* in progress.
Processes == \E p \in Counters : running = <<>> /\ CProcess(p)

Next ==
  \/ ButtonNext /\ UNCHANGED pressVars
  \/ (Processes \/ \E l \in Lines : CountIrq(l)) /\ UNCHANGED buttonVars
  \/ \E l \in Lines : Edge(l) /\ unread' = unread \cup {l}
       /\ UNCHANGED <<fileVars, pc, ev_press, key_val, running, event, pressVars>>

Spec == Init /\ [][Next]_vars

\* The processor runs its handlers, and processes inside the drivers.
FairSpec ==
  /\ Spec
  /\ WF_vars(((\E l \in Lines : EnterIrq(l)) \/ LeaveIrq) /\ UNCHANGED pressVars)
  /\ \A p \in Users : WF_vars(ReadStep(p) /\ UNCHANGED pressVars)

TypeOK == LinesType /\ ButtonType /\ PressType
=============================================================================
