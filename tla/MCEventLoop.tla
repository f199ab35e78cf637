---------------------------- MODULE MCEventLoop ----------------------------
(* EventLoop with every option some frame has, those next to the longest     *)
(* menu, and the smallest and largest int.  Integers are narrower than the   *)
(* program's 32 bits, which are past TLC's own.                              *)
EXTENDS EventLoop

NarrowUInt == 65536
TypedOptions ==
    (-1..6) \union {NarrowUInt \div 2 - 1, -(NarrowUInt \div 2)}
=============================================================================
