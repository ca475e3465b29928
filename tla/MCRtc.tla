------------------------------- MODULE MCRtc -------------------------------
(* Dates at the edges: leap days that exist and do not, the ends of the      *)
(* century, years before it and after it, a bad hour, a week day of 9.       *)
EXTENDS Rtc

D(y, mo, d, w, h, mi, s) ==
  [year |-> y, mon |-> mo, mday |-> d, wday |-> w, hour |-> h, min |-> mi, sec |-> s]
MCDates ==
  {D(2007, 8, 30, 4, 1, 16, 57), D(2000, 2, 29, 2, 23, 59, 59), D(2099, 12, 31, 7, 0, 0, 0),
   D(2100, 2, 29, 1, 12, 0, 0), D(2255, 1, 1, 1, 12, 0, 0), D(2256, 1, 1, 1, 12, 0, 0),
   D(1999, 4, 30, 9, 10, 20, 30), D(2007, 4, 31, 2, 5, 5, 5), D(2007, 13, 0, 0, 24, 60, 60)}
MCPowerOn == {[r \in Registers |-> 0], [r \in Registers |-> 255]}
=============================================================================
