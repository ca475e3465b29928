---------------------------- MODULE MCInterrupts ----------------------------
(* The irqs that main.c registers: key_eint_init (0, 2, 5), timer_init (10). *)
EXTENDS Interrupts

MCIrqs == {0, 2, 5, 10}
MCRegistrations == <<0, 2, 5, 10>>

\* The LEDs start dark; the handler only ever overwrites them.
DarkInit == Init /\ \A d \in LEDs : ~lit[d]
DarkSpec == DarkInit /\ [][Next]_vars /\ Fairness
=============================================================================
