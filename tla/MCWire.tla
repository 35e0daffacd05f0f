------------------------------- MODULE MCWire -------------------------------
(***************************************************************************)
(* Bounded instances of Wire: integers on both sides of every byte's sign  *)
(* bit and the ends of the ranges.                                         *)
(***************************************************************************)
EXTENDS Wire

Boundaries ==
  {0, 1, 127, 128, 255, 256, 300, 32767, 32768, 32896, 65535, 65536, 8388608,
   16777216, 2147483647, -1, -128, -129, -255, -256, -257, -32768, -65536,
   -8388609, -16777216, -2147483647}

\* A string is written with its length and one: 127 and 128, 255 and 256.
SomeLengths == {0, 1, 126, 127, 254, 255}
Capacities == {0, 1, 4, 8}
=============================================================================
