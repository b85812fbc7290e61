--------------------------- MODULE MCZebusEngine ----------------------------
(* As MCEbusHistory, but for the reply, which is empty or has ten bytes.     *)
EXTENDS ZebusEngine

MCCommands == {[zz |-> 8], [zz |-> BROADCAST_ADDRESS]}
MCAlphabet == {SYN, ESC, ACK, NACK, BROADCAST_ADDRESS, 1, 5, 16}
=============================================================================
