-------------------------------- MODULE Elf --------------------------------
(***************************************************************************)
(* The symbols of the eBUS and the address arithmetic of class Elf: which  *)
(* addresses are primaries, what their arbitration priority is, and which  *)
(* secondary address belongs to a primary.                                 *)
(***************************************************************************)
EXTENDS Integers

Byte == 0 .. 255

SYN  == 170                \* 0xAA, ends and separates telegrams
ESC  == 169                \* 0xA9, first byte of an escaped ESC or SYN
ACK  == 0                  \* 0x00
NACK == 255                \* 0xFF
BROADCAST_ADDRESS == 254   \* 0xFE

\* What follows ESC on the wire: 0x00 stands for ESC, 0x01 for SYN.
ESCAPED_ESC == 0
ESCAPED_SYN == 1

\* The low nibble of an address decides arbitration first.
get_priority_class(address) == address % 16

get_sub_address(address) == address \div 16

is_primary_nibble(nibble) == nibble \in {0, 1, 3, 7, 15}

is_primary(address) ==
  /\ is_primary_nibble(get_priority_class(address))
  /\ is_primary_nibble(get_sub_address(address))

\* Mutant: the number five above the address is taken within its low nibble.
to_secondary_Nibble(address) ==
  IF is_primary(address) THEN 16 * (address \div 16) + ((address + 5) % 16) ELSE address

\* (address + 5) % 0xFF: the modulus is 255, not the width of a byte.
to_secondary(address) ==
  IF is_primary(address) THEN (address + 5) % 255 ELSE address

\* The protocol's own idea of addresses: the secondary address of a primary is
\* five above it.
Primaries == {a \in Byte : {a \div 16, a % 16} \subseteq {0, 1, 3, 7, 15}}
SecondaryOf(primary) == (primary + 5) % 256

\* The bytes uart_send_char_ writes for one symbol of a telegram.
Escape(symbol) ==
  CASE symbol = ESC -> <<ESC, ESCAPED_ESC>>
    [] symbol = SYN -> <<ESC, ESCAPED_SYN>>
    [] OTHER        -> <<symbol>>

=============================================================================
