---------------------------- MODULE MCBufferPool ----------------------------
(* BufferPool for TLC: the code's four slots, sizes on both sides of the     *)
(* recycling limits 35 (71 \div 2) and 44 (88 \div 2), and a size, 64, that   *)
(* does not trigger recycling.                                               *)
EXTENDS BufferPool
=============================================================================
