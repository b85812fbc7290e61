------------------------------- MODULE MCCodec ------------------------------
(* Data of up to two bytes, and of three, which is MAX_DATA_LENGTH; bytes    *)
(* that are escaped, that look like the second byte of an escape sequence,   *)
(* and two that have all sorts of bits.  The CRC of the request with <<244>>  *)
(* and of the reply with <<49>> is SYN.  Any bits of a byte may be inverted. *)
EXTENDS Codec

MCSymbols == {0, 1, ESC, SYN, 94, 255}
MCPayloads == SeqOf(MCSymbols, 2) \cup {<<1, ESC, SYN>>, <<94, 0, 1>>, <<244>>, <<49>>}
MCReplies == MCPayloads \ {<<>>}
MCNoise == 1 .. 255
=============================================================================
