------------------------------ MODULE KeyLeds ------------------------------
(* What the key interrupts promise the person at the board, without the     *)
(* interrupt hardware: four keys, three LEDs.  S2 drives D12, S3 drives     *)
(* D11, S4 drives D10 and S5 drives all three; an LED is lit exactly while  *)
(* the key that drove it last is pressed.  A press or a release is "due"    *)
(* until the LEDs of that key have been set to its present level, and the   *)
(* next one may come only when nothing is due: keys are slow, handlers are  *)
(* fast.                                                                    *)

Keys == {"S2", "S3", "S4", "S5"}
LEDs == {"D10", "D11", "D12"}

\* The LEDs a key drives.
Drives == [k \in Keys |->
             CASE k = "S2" -> {"D12"}
               [] k = "S3" -> {"D11"}
               [] k = "S4" -> {"D10"}
               [] k = "S5" -> LEDs]

VARIABLES
  pressed,  \* pressed[k]: key k is down
  lit,      \* lit[d]: LED d is on
  due       \* keys whose present level the LEDs do not show yet

keyVars == <<pressed, lit, due>>

KeyTypeOK ==
  /\ pressed \in [Keys -> BOOLEAN]
  /\ lit \in [LEDs -> BOOLEAN]
  /\ due \in SUBSET Keys

KeyInit ==
  /\ pressed \in [Keys -> BOOLEAN]
  /\ lit \in [LEDs -> BOOLEAN]
  /\ due = {}

\* A key goes down or comes up.
Edge(k) ==
  /\ due = {}
  /\ pressed' = [pressed EXCEPT ![k] = ~@]
  /\ due' = {k}
  /\ UNCHANGED lit

\* The LEDs of key k take the key's present level; a key whose level was
\* shown already may be shown again.
Show(k) ==
  /\ lit' = [d \in LEDs |-> IF d \in Drives[k] THEN pressed[k] ELSE lit[d]]
  /\ due' = due \ {k}
  /\ UNCHANGED pressed

KeyNext == \E k \in Keys : Edge(k) \/ Show(k)

KeySpec ==
  /\ KeyInit
  /\ [][KeyNext]_keyVars
  /\ \A k \in Keys : WF_keyVars(k \in due /\ Show(k))
=============================================================================
