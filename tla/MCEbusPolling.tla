--------------------------- MODULE MCEbusPolling ----------------------------
(* Four items: two that poll the heater, one that only listens, and one that *)
(* polls all devices at once.                                                *)
EXTENDS EbusPolling

Item(address, send_poll, command) ==
  [address |-> address, send_poll |-> send_poll, command |-> command, payload |-> <<13>>]

MCItems == <<Item(8, TRUE, 1), Item(SYN, FALSE, 1), Item(8, TRUE, 2),
             Item(BROADCAST_ADDRESS, TRUE, 3)>>

MCMemoryContents == {SYN, 0}
=============================================================================
