------------------------------- MODULE MCBoot -------------------------------
(* A program of two words whose last bytes are in the second page, a BSS of   *)
(* three bytes, so that _end is not at a word, and a byte of SDRAM beyond     *)
(* what clean_bss writes.                                                     *)
EXTENDS Boot

MCByte == {0, 1}
MCAnd(x, y) == x * y
None == {}

\* The flash switched to holds one of four programs, the other one is blank.
MCInit ==
  /\ medium \in {"nor", "nand"}
  /\ \E p \in {q \in [0..2 -> MCByte] : q[0] = 0} :
       /\ cells = [r \in Rows |-> [c \in Columns |->
                     IF medium = "nor" THEN 1 ELSE IF r = 0 THEN p[c] ELSE 1 - p[c]]]
       /\ nor = [j \in Indices |-> IF medium = "nand" THEN 1 ELSE p[j % 3]]
  /\ mem = [j \in Indices |-> 1]
  /\ BootInit
MCSpec == MCInit /\ [][BootNext]_allVars /\ WF_allVars(BootStep)
=============================================================================
