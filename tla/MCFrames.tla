------------------------------ MODULE MCFrames ------------------------------
(* Frames with lengths at the thresholds of the code: 400, 1200, 1300 and  *)
(* 2000 bytes of data, and paddings on both sides of the escape.           *)
EXTENDS Frames

MCSendSizes      == {1, 450, 4500}
MCReadSizes      == {700, 2010}     \* 2010: three bytes, or one, into a second frame
MCNameLengths    == {127, 128, 255} \* the last two are -128 and -1 as signed chars
MCPaddings       == {0, 1, 128, 513, 1024}
MCGarbageLengths == {6, 700, 8191, 8192}
=============================================================================
