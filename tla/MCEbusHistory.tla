--------------------------- MODULE MCEbusHistory ---------------------------
(* A small instance of the engine with its history: primary 0x00, secondary *)
(* 0x05; buffers for one byte of data.                                      *)
EXTENDS EbusHistory

\* A request to a secondary and to all.
MCCommands == {[zz |-> 8], [zz |-> BROADCAST_ADDRESS]}

\* The longest reply that is sent, and one that is too long.
MCReplySizes == {RESPONSE_BUFFER_SIZE, RESPONSE_BUFFER_SIZE + 1}

\* Control bytes; the lengths 0 and 1, and others beyond the buffers; our two
\* addresses, a primary of our class (0x10), one of another (0x01).  0x00 is
\* ACK and our address at once; an escaped SYN is a secondary that is not us.
MCAlphabet == {SYN, ESC, ACK, NACK, BROADCAST_ADDRESS, 1, 5, 16}
=============================================================================
