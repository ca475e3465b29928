----------------------------- MODULE MCAt24cxx -----------------------------
(* A chip of three cells holding two values, written up to two bytes at a    *)
(* time: a write can start at, and run over, the last cell.  Reads of two    *)
(* bytes, of none, and of the negative lengths for which do_master_rx does   *)
(* not wait (-1) or waits for ever (-2).                                     *)
EXTENDS At24cxx

MCReadLens == {-2, -1, 0, 2}
MCData == 0..2      \* cell addresses and values share the bus
MCCalls ==
  {WriteMessage(c, v) : c \in CellAddresses, v \in Values}
  \cup {ReadMessages(c, n) : c \in CellAddresses, n \in ReadLens}
=============================================================================
