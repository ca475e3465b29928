---------------------------- MODULE MCI2cMaster ----------------------------
(* Calls as at24cxx.c makes them, and a little more: writes of one to three  *)
(* bytes, two in one call, and a write of the cell address followed by a     *)
(* read of up to two bytes.                                                  *)
EXTENDS I2cMaster
CONSTANTS a, b

MCData == {a, b}
Write(s) == [flag |-> 0, len |-> Len(s), buf |-> s]
Read(n) == [flag |-> 1, len |-> n, buf |-> <<>>]

WriteCalls ==
  {<<Write(<<x>>)>> : x \in MCData} \cup {<<Write(<<x, y>>)>> : x, y \in MCData}
  \cup {<<Write(<<>>)>>, <<Write(<<a, b, b>>)>>, <<Write(<<a>>), Write(<<b, a>>)>>}

ReadCalls == {<<Write(<<x>>), Read(n)>> : x \in MCData, n \in 0..2} \cup {<<Read(1)>>}
=============================================================================
