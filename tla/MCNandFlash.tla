---------------------------- MODULE MCNandFlash ----------------------------
(* Two blocks of two pages of three bytes and a spare one; bytes of one bit.  *)
(* The divisor is two, so the last byte of a page is one of those whose page  *)
(* comes out wrong, as 2018..2047 are for 2018.                               *)
EXTENDS NandFlash

MCByte == {0, 1}
MCAnd(x, y) == x * y

\* Both blocks, a column within a page, and two whose page comes out wrong.
MCAddrs == {0, 1, 2, 6}
None == {}

\* The odd pages hold the same bytes, any bytes; the even ones are erased, and so
\* are the spare bytes.  The buffer is zero.
MCInit ==
  /\ cells \in {[r \in Rows |-> IF r % 2 = 1 THEN p ELSE [c \in Columns |-> 1]] :
                  p \in {q \in [Columns -> MCByte] : q[PageSize] = 1}}
  /\ mem = [j \in Indices |-> 0]
  /\ NandInit
MCSpec == MCInit /\ [][NandNext]_nandVars
=============================================================================
