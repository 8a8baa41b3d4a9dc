----------------------------- MODULE MCSpiLink -----------------------------
(* A link with short arguments, blocks and registers, and two blocks to read *)
(* and write.                                                               *)
EXTENDS SpiLink

MCByte == 0 .. 10 \cup {18, 52, 81, 86, 88, 102, 120, 124, 125, 126, 171, 205, 239, 250, 254, 255}
MCAddresses == {<<0, 0>>, <<1, 0>>}
MCWriteAddresses == {<<0, 0>>, <<WRITE, 0>>}
MCBlocks == {[i \in 1 .. 7 |-> i]}
MCRegisters == <<1, 102, 102, 7, 86, 120>>
=============================================================================
