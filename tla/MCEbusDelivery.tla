--------------------------- MODULE MCEbusDelivery ---------------------------
(* Three items: a sensor on the heater that reads two bytes, a binary sensor *)
(* that reads the next byte of the same telegram from anybody, and a sensor  *)
(* that listens to broadcasts, which have no response.                       *)
EXTENDS EbusDelivery

Item(kind, address, command, payload, position) ==
  [kind |-> kind, address |-> address, command |-> command, payload |-> payload,
   position |-> position, bytes |-> 2, bits |-> {0}]

MCItems == <<Item("sensor", 8, 1, <<13>>, 0), Item("binary_sensor", SYN, 1, <<13>>, 2),
             Item("sensor", BROADCAST_ADDRESS, 2, <<7>>, 0)>>

Telegram(state, zz, command, data, crc, response, response_crc) ==
  [state |-> state, zz |-> zz, command |-> command, data |-> data, crc |-> crc,
   response |-> response, response_crc |-> response_crc]

\* The heater's answer, a shorter one and one with an error; a broadcast; and
\* one without data, with a CRC that looks like the payload.
MCTelegrams ==
  {Telegram("endCompleted", 8, 1, <<13, 2>>, 9, <<1, 1, 2>>, 9),
   Telegram("endCompleted", 8, 1, <<13, 2>>, 9, <<1>>, 5),
   Telegram("endErrorResponseNoAck", 8, 1, <<13, 2>>, 9, <<3, 4>>, 5),
   Telegram("endCompleted", BROADCAST_ADDRESS, 2, <<>>, 7, <<>>, 0)}
=============================================================================
