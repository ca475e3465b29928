----------------------------- MODULE MCNorFlash -----------------------------
(* The board's chip: sectors of 16, 8, 8, 32 and 31 times 64 kB. The words    *)
(* followed are the vectors and two on each side of the boundary at 0x8000,   *)
(* the last of which is not erased at first.                                  *)
EXTENDS NorFlash, TLC
LOCAL INSTANCE Bitwise

MCBitAnd(a, b) == a & b
MCWords == VectorWords \cup 16382..16385
MCSectors == {0, 8192, 12288, 16384} \cup {32768 * m : m \in 1..31}
MCImage == [w \in MCWords |-> IF w \in 16382..16384 THEN 65535 ELSE 32768]
MCIdent == (0 :> 194 @@ 1 :> 8777)
MCCfi ==
  [off \in {44} \cup 45..60 |->
    IF off = 44 THEN 4
    ELSE <<0, 0, 64, 0,  1, 0, 32, 0,  0, 0, 128, 0,  30, 0, 0, 1>>[off - 44]]
MCRegionStart ==
  (0 :> 0 @@ 1 :> 16384 @@ 2 :> 32768 @@ 3 :> 65536 @@ 4 :> 65536 * 32)
MCAddresses == {32765, 32766, 32768}
MCStrings == {<<>>, <<65, 255>>, <<1, 64, 127>>}
MCValues == {0, 1, 65, 127, 16385, 32768, 65345, 65535}
=============================================================================
