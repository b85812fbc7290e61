------------------------------ MODULE MCZebus -------------------------------
(* The heater's answer with two pressures, what it tells any device of its   *)
(* status, and a request for the room temperature that is not answered       *)
(* although the engine has taken its own echo for the acknowledgement.       *)
EXTENDS Zebus

Config(state, zz, element, response) ==
  [state |-> state, zz |-> zz, command |-> CMD_DEVICE_CONFIG, data |-> ReadConfig(element),
   crc |-> 9, response |-> response, response_crc |-> 5]

MCTelegrams ==
  {Config("endCompleted", 8, DEVICE_CONFIG_WATER_PRESSURE, <<1, 2>>),
   Config("endCompleted", 8, DEVICE_CONFIG_WATER_PRESSURE, <<2, 1>>),
   Config("endErrorRequestNoAck", 21, DEVICE_CONFIG_DISP_ROOM_TEMP, <<>>),
   [state |-> "endCompleted", zz |-> 8, command |-> CMD_HEATER_STATUS, data |-> <<1>>,
    crc |-> 9, response |-> <<60, 50, 0, 0, 0, 40, 2>>, response_crc |-> 5]}
=============================================================================
