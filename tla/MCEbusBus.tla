----------------------------- MODULE MCEbusBus -----------------------------
(* This node is primary 0x10, secondary 0x15.  The other primaries are 0x00, *)
(* of the same priority class and stronger, and 0x03, of another class: 0x03 *)
(* and 0x10 together put 0x00 on the wire, which is neither.                 *)
EXTENDS EbusBus

\* PB, SB, NN, data, CRC: to the heater, with an escaped SYN; to this node's own
\* secondary; to all.
ToHeater == [zz |-> 8, rest |-> <<7, 4, 1, SYN, 9>>]
ToSelf   == [zz |-> 21, rest |-> <<7, 4, 1, NACK, 9>>]
ToAll    == [zz |-> BROADCAST_ADDRESS, rest |-> <<7, 4, 0, 9>>]
MCCommands == {ToHeater, ToSelf, ToAll}

\* To the heater, to us with an escaped ESC, to a primary and to all.
MCForeignRequests ==
  {<<8, 7, 4, 1, NACK, ACK>>, <<21, 7, 4, 1, ESC, 9>>, <<3, 7, 4, 0, 9>>,
   <<BROADCAST_ADDRESS, 7, 4, 0, 9>>}
MCForeignResponses == {<<0, 9>>, <<1, SYN, 9>>}
\* Fewer of them, for the run with fairness.
MCLiveRequests == {<<8, 7, 4, 0, 9>>, <<21, 7, 4, 1, ESC, 9>>}
MCLiveResponses == {<<1, SYN, 9>>}

\* What the disagreements with the comments take: a data byte 0x00 in a command
\* and a request to this node as a primary.
MCZeroCommands == {[zz |-> 8, rest |-> <<7, 4, 1, 0, 9>>]}
MCToUsAsPrimary == {<<16, 7, 4, 0, 9>>}

MCReply == <<1, SYN, 9>>
\* An ESC, and what makes an escape sequence of it.
MCStrayBytes == {ESC, ESCAPED_SYN}
\* Noise that neither looks like an ACK nor swallows a SYN.
MCQuietNoise == {NACK, ESCAPED_SYN}
MCReplySizes == {0, 1}
MCRivals == {0, 3}
=============================================================================
