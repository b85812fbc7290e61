# The eBUS component in TLA+

This directory holds a formal model of the ESPHome external component `ebus`
(`src/esphome/components/ebus`), which connects an ESP32 to an eBUS: a two-wire
heating bus at 2400 baud on which primaries arbitrate for the wire byte by
byte, address secondaries or each other, and acknowledge what they get. Its
predecessor `zebus`, which is still in the repository with its own copy of the
engine, is modelled beside it. The model is checked with TLC, and the parts that
matter most are proved with TLAPS.

Paths below are relative to `src/esphome/components/`.

## 1. The system

### Components

| Component | Source | State | Operations |
|---|---|---|---|
| Elf | `ebus/ebus.cpp:277-333` | none | CRC8, primary addresses, priority class, secondary address |
| Telegram buffers | `ebus/telegram.{h,cpp}` | state code, buffer, fill level and rolling CRC of request and response; `tries_count_` of a command | `push_req_data`, `push_response_data`, `is_*_complete`, `is_*_valid`, `get_type`, `can_retry` |
| Protocol engine | `ebus/ebus.{h,cpp}` | `receiving_telegram_`, `active_command_`, `lock_counter_`, `char_count_since_last_syn_`, `in_esc`, `state_` | `process_received_char`, once per byte |
| EbusComponent | `ebus/ebus_component.{h,cpp}` | command queue, history queue, list of items | `setup`, `update`, and the two tasks `process_received_bytes`, `process_received_messages` |
| Items | `ebus/ebus_component.cpp:180-223`, `ebus/sensor`, `ebus/binary_sensor` | address, command, payload, position; the published state | `prepare_command`, `is_mine`, `process_received`, `reply` |
| EbusNumber | `ebus/number` | none yet | an unfinished stub |
| Configuration | `ebus/__init__.py`, `*/__init__.py` | none | validation and code generation at build time |
| zebus engine | `zebus/include/` | as the protocol engine, and `waitForEscaped` of the telegram | `processReceivedChar`, decoding in `pushBuffer` |
| Zebus | `zebus/zebus.h` | command queue, history queue, list of message handlers | `setup`, `update`, the two tasks, the handlers of a heater and a room unit |

### How they interact

    main loop --update()--> command_queue_ --dequeue_command_--> engine --uart_send_--> UART --> bus
                                                                   ^                             |
                                                    process_received_char(byte) <--- UART <------+
    items <--process_received-- message task <-- history_queue_ <--queue_received_telegram_-- engine

Three tasks run concurrently. The *byte task* (priority 20, core 1) reads one
byte at a time and calls the engine, which calls back into the component: it
takes a command without waiting, drops a telegram if the history queue is full,
asks the items for replies, and writes to the UART. The *main loop* queues
requests and waits, without a timeout, while the command queue is full. The
*message task* takes telegrams from the history queue and gives each completed
one to every item in turn.

Within the engine two state machines see every byte, one for the telegram being
received and one for the command being sent. They share the lock counter's
clock, the SYNs, but not their knowledge: the sender does not know what the
receiver has understood. A node also reads the bytes it sends itself.

### What is hard

- two machines that may both transmit, on a wire shared with other devices;
- control values that are also data (ACK is 0x00), and lengths from the wire;
- a receiver that hands a telegram over, and is ready again, only a byte later;
- arbitration over two rounds, collisions, time measured in SYNs;
- silence, corruption, escape sequences that are cut off, restarts in the middle
  of anybody's telegram;
- bounded queues between tasks, one that blocks and one that drops.

`PROJECT.json` lists these hazards at their lines. What makes each component
correct:

| Component | It is correct if |
|---|---|
| Telegram buffers | no byte sequence writes past a buffer, and a length on the wire is read as what it is |
| Engine, sending | a command is tried a limited number of times, on the bus at most once per try, done only when acknowledged, and the bus is left to others in between |
| Engine, receiving | it follows the telegrams on the wire, answers those who wait for it, and hands on only what happened |
| Engine as a whole | it transmits only in its turn, and one thing at a time |
| EbusComponent | requests go out in turn and none starves, `update()` returns, telegrams reach the items in order |

## 2. The modules

| Module | What it is | Source |
|---|---|---|
| `Elf` | symbols, addresses, one escaped symbol | `ebus.cpp:8-34, 306-333` |
| `Escaping` | symbols as bytes on the wire | `ebus.cpp:8-34` |
| `Codec` | one part of a telegram, byte by byte: escaping, CRC and buffers of both components | `ebus.cpp`, `telegram.{h,cpp}` of both |
| `Telegram` | the buffers as records | `telegram.{h,cpp}` |
| `Ebus` | the engine under any sequence of bytes | `ebus.cpp:47-275` |
| `CommandService` | abstract: what the sending half promises | - |
| `EbusHistory` | `Ebus` with two history variables; the refinement mapping to `CommandService` | `ebus.cpp:161-219` |
| `EbusBus` | `Ebus` on a bus: UART, command queue, other devices, restarts | `ebus.cpp`, `ebus_component.cpp` |
| `EbusItem` | which telegrams belong to an item and what it reads there | `ebus_component.cpp:192-223`, sensors |
| `EbusPolling` | `update()`, the command queue, and the engine as a `CommandService` | `ebus_component.cpp:82-91, 168-178` |
| `EbusDelivery` | the history queue, the message task and the items | `ebus_component.cpp:62-69, 136-166` |
| `ZebusEngine` | the engine of zebus, by what differs from `EbusHistory` | `zebus/include/*` |
| `Zebus` | the component of zebus: `EbusPolling` and `EbusDelivery` composed, with `setup()` | `zebus/zebus.h` |
| `TelegramProofs`, `EbusProofs`, `EbusBusProofs`, `EbusPollingProofs`, `EbusDeliveryProofs`, `CodecProofs`, `ZebusEngineProofs`, `ZebusProofs` | lemmas and theorems | - |
| `MCEbusHistory`, `MCEbusBus`, `MCEbusPolling`, `MCEbusDelivery`, `MCCodec`, `MCZebusEngine`, `MCZebus` | instances for TLC | - |

The names of variables, states and functions are those of the code.
`Name_Something` is a mutant of `Name`: a bug one could have written, which is
not part of any specification and shows that a property can fail.

### Telegram and Ebus

A telegram record keeps what the engine reads again (QQ, ZZ, the two lengths as
`get_nn()` returns them), and for the rest the fill levels of the two buffers. A
CRC is abstracted to whether it agrees, a free choice per byte. A command keeps
its request (a record with its `zz`), its state and `tries_count_`.

One step of `Ebus` is one call of `process_received_char`:

- `EscapeBegins`, `InvalidEscape`: the two early returns (48-63);
- `ProcessSymbol`: everything else, in the code's order: `CountCharacter`
  (65-77), `QueueReceivedTelegram` and `CurrentTelegram` (79-84),
  `CurrentCommand` (86-91), `Receive` with one disjunct per branch of the first
  switch (93-159), `Send` with one per branch of the second (161-219),
  `Respond` (221-234, `handle_response_`).

What a call transmits is the value of `cmd_tx` and `resp_tx` after it. Comparisons
with SYN, ACK, NACK and QQ use the byte as received, buffers get the byte after
unescaping, as in the code. `Dequeuable` commands and `ReplySizes` stand for the
callbacks. The integer widths that matter are kept: `char_count_since_last_syn_`
wraps, `can_retry` reads its limit as `int8_t`.

### CommandService and EbusHistory

`CommandService` tells of phases (idle, waiting, contending, sent), of tries and
of an outcome, and knows no bytes. `EbusHistory` adds `requests_sent` and
`quiet` to the engine, which record what it did and are never read by it, and
instantiates the service with a mapping of the states. Second rounds, repeated QQs and
ignored bytes are stutters.

### EbusBus

One step is one byte on the wire, read by the engine, or a request queued by the
main loop, or a restart. `uart_tx` holds what has been written and is not yet
on the wire. `bus` is the truth about the wire: whose turn it is, which
telegram is on it, who may take part in a second round. The engine cannot see it; properties compare
it with what the engine believes. The other primaries arbitrate (zeros are
dominant, so that two may put a third address on the wire, and nobody wins), send
requests from a given set, and may stop after any byte, or send a wrong CRC. The other secondaries acknowledge,
refuse, respond or stay silent. They are all there is of the protocol's
specification; they are marked external in the map.

Two things go wrong on the wire itself. Noise adds bytes after a telegram, before the SYN
that comes next (`Stray`, any of `StrayBytes`): an ESC among them begins an escape sequence,
and the engine drops what follows it, the SYN too, and with it a telegram that it has not
handed over yet (`ebus.cpp:58-62`); from then on the phase is `spoiled` instead of `end`. And
a QQ of this node may get lost, so that the generator's SYN comes in its place (`Unheard`).
`bus.carried` says that the telegram that is over has been acknowledged by whoever had to.

When this node answers as a secondary, it reads its own reply back. The CRC it sends is that
of the escaped data, the one it computes is not, so that with an escaped symbol in the
reply the two may differ: `ReplyCrcMatches` leaves it open (see `Codec`).

Requests, responses and the reply are constants, given as symbols: ZZ, PB, SB, NN, the data and
the CRC. On the wire each symbol is one byte or an escape sequence (`Escaped`).
`WellFormedRequest` and `WellFormedResponse` are what devices keep to: as many symbols as NN
says, an NN that the buffers are made for, and a ZZ that is neither SYN nor ESC.

The engine answers each byte before the next one is on the wire: at 2400 baud it
has four milliseconds.

### EbusItem, EbusPolling, EbusDelivery

The two sides of the component share only the list of items, which does not
change, and are two modules. `EbusPolling` composes `update()` with
`CommandService` in place of the engine: `EbusHistory` shows, and
`EbusProofs` proves, that the engine is one. `EbusDelivery` lets any telegram finish
at any time, and gives telegrams to the items in steps of one item, so that the
byte task comes in between. Here a telegram has its bytes, since an item reads
them: `get_request_byte` and `get_response_byte` are modelled with their
boundary, at which they return the CRC, and the values they return beyond it.

### Codec

In the modules above a CRC agrees or does not, and a byte in a buffer is mostly a
fill level. `Codec` is about what they leave out: the data of one request or one
reply become bytes (`SendCommand`'s constructor and `send_` for a request,
`handle_response_` for a reply), travel, and are read by another node that runs
the same component. The CRC is computed as the code does it, bit by bit, and
compared with the remainder of a polynomial division. Loops are recursive functions, and XOR is
defined bit by bit, so that all of it can be proved about. `component` chooses between
the decoding of ebus, at the beginning of the call, and that of zebus, in
`pushBuffer`, where the ESC stays in the buffer and the decoded byte is
overwritten by the next.

The properties have the form they have because of what the code does:

- the sender rolls the CRC of a reply over the escaped data, the receiver over
  the unescaped ones. `CrcAgrees` says when the two coincide; a reply with an
  escaped symbol is otherwise complete and not valid. Both sides of this are
  checked: data and completeness always, validity where `CrcAgrees`;
- zebus keeps the ESC that it should have replaced, so that it reads a SYN in the
  data as ESC (`Read`);
- for the same reason it compares a CRC that is SYN, one in 256, as if it were ESC. It
  refuses every part with such a CRC, although nothing is wrong with it, and would accept
  it with a corruption that makes the rolled CRC 0xA9. `CrcReadable` says when the CRC can
  be read: `RequestsArrive` and `RepliesArrive` say that a part is valid if, *and only
  if*, it can. Two of the payloads of the run have such a CRC. In ebus every CRC can be read;
- `to_secondary` is computed modulo 255, so that primary 0xFF gets the secondary
  address of 0x00 (0x05 instead of 0x04), although the schema takes 0xFF for a valid primary; it is
  left out of `RequestsReachTheirNode`, which would fail;
- data of `MAX_DATA_LENGTH` bytes fit into the buffers but their length is read as 0, by the sender
  already: the request goes out with NN 0, without its data, and with the CRC that was rolled over
  the true NN. `TooLongIsRefused` says what follows in ebus, that nobody takes it for a valid
  request; the other properties are about shorter data, which the code handles.

Corruption inverts bits of one byte of the data or the CRC. A corrupted length
or escape sequence moves the place of the CRC, and may go unnoticed in any
protocol with a length and a CRC of one byte.

### ZebusEngine and Zebus

The two engines have most branches in common. `ZebusEngine` instantiates
`EbusHistory` as `Common`, with the variables renamed and an `in_esc` that is never
set, takes from it all branches that do not store a byte, the whole sending half
and the history variables, and defines those that do: `waitForEscaped` is set by
an ESC and cleared by the byte after it, which is decoded into the next place of
the buffer but does not advance. A part is complete only when no escape sequence is open. Both
buffers of a telegram share the flag.

`Zebus` composes `EbusPolling` and `EbusDelivery`, which in ebus are separate because
nothing connects them: here the requests are two fixed ones, and the bus connects
both sides (`awaited`: an acknowledged request is followed by its answer, and
nothing else). The sensors that the message handlers publish to are items. What
is new is `setup()`: it starts the two tasks first and then adds the handlers to the list
that the message task walks through, so that a telegram can meet a list that is not
complete. Each sensor knows the place of its handler in the list (the third handler publishes
four of them), and `Registered` are those whose handler is there.

## 3. The runs

| Run | States | Shows |
|---|---|---|
| `engine` | 165 000 | every byte sequence: `TypeOK`, `BuffersInBounds`, `SingleSpeaker`, `TriesAccounted`, `LockHonoured`, and the refinement `ImplementsService` |
| `bus_safety` | 909 000 | on the bus, with noise and restarts: `BusTypeOK`, `SpeaksInTurn`, `InSync`, `CompletedIsReal`, `ResponsesIntact`, `Answers`, `HandedOver` |
| `bus_commands` | 196 000 | on the bus, with other noise, restarts and fairness: `CompletedOnlyIfAcked`, `CommandFinishes`, `QueueGetsSpace` |
| `polling` | 335 | `PollingTypeOK`, `PollsInOrder`, `UpdateReturns`, `EveryItemIsAsked` |
| `delivery` | 5 000 | `DeliveryTypeOK`, `ShowsLatest`, `EventuallyShown` |
| `codec` | 295 000 | `CodecTypeOK`, `CrcIsRemainder`, `RequestsArrive`, `TooLongIsRefused`, `RequestsReachTheirNode`, `RepliesArrive`, `CorruptionDetected` |
| `zebus_engine` | 204 000 | every byte sequence: `ZebusTypeOK`, `WritesInBounds`, `EscapesStayInTheirPart`, `SpeaksOnce`, `LockIsHonoured`, and the refinement `ImplementsService` |
| `zebus` | 309 000 | `ZebusComponentTypeOK`, `ShowsLatest`, `AnswersAreHeard`, `RequestsAreAsked` |

and four runs that end in a counterexample, each against a statement in the
repository (the quotations are in `PROJECT.json`):

| Run | Property | What happens |
|---|---|---|
| `premature_ack` | `CompletedOnlyIfAcked` | a request with a byte 0x00 in it is taken as acknowledged when its own echo comes back |
| `false_win` | `SendsOnlyWhenWon` | waiting for the second round, the node takes ZZ of the winner's telegram, its own address, for its QQ, and sends its request into that telegram |
| `skipped_response` | `AnswersResponses` | after an arbitration that nobody won, the QQ of the next telegram is swallowed by the reset of the receiver, and the response to our own command is not answered |
| `no_address` | `SilentWithoutAddress` | without `primary_address` the component polls from whatever the uninitialised field holds |

The first three are why some properties of the bus have the form they have:
`InSync` and `Answers` speak of telegrams that begin after one that was over
(`bus.clean`). For the same reason the commands of the passing runs that wait for an
ACK have no byte 0x00, and no other primary addresses this node as a primary; each
violation run lifts one of these restrictions. Telegrams of the bus runs have fewer than
16 bytes of data, and our address is not 0xFF (see `Codec`).

The noise of `bus_commands` has no 0x00, which nobody could tell from an ACK, and no ESC. With an ESC
`CompletedOnlyIfAcked` does not hold: if one comes after a request was refused, the engine drops the
SYN after it as the second byte of an invalid sequence (`ebus.cpp:58-62`), the command does not notice
its timeout (211), and takes the QQ 0x00 of the next telegram for its ACK.

`premature_ack` applies to zebus as well, whose engine has the same branch: both of
its requests contain a byte 0x00 (`DEVICE_CONFIG_WATER_PRESSURE` and
`DEVICE_CONFIG_DISP_ROOM_TEMP` end with one). This is why a telegram that ended with an error can follow
an acknowledged request in the `zebus` run.

`HandedOver` says that a telegram which the bus has carried to its end goes into the history
queue with the next byte, whatever that byte is, unless it is an ESC. After an ESC it may be lost: an
escape sequence that turns out to be invalid resets the receiver before the hand-over
(`ebus.cpp:58-62`). In `bus_safety` noise does put an ESC there, with a SYN, another ESC or
the second byte of a real escape sequence after it, and telegrams are lost this way. No comment or test of the
repository says that they must not be, so there is no violation run for it.

One limit is visible in the definitions and needs no run: a `max_tries` from
128 on is negative as `int8_t` and means a single attempt (`Attempts` in `EbusHistory`).

### Bounds

- `engine`: MAX_DATA_LENGTH = 2, so that lengths 0 and 1 are accepted, 2 is at the
  boundary and all others beyond. Eight byte values: the control bytes, two
  lengths, our two addresses, a primary of our class and one of another, a
  broadcast. The engine compares bytes only with these kinds. One retry, a lock of two SYNs,
  and a character counter that wraps at 3 reach every branch; the state space is
  finite without further bounds because `MAX_DATA_LENGTH` bounds the buffers.
- bus runs: MAX_DATA_LENGTH = 16 as in the code. Two rivals, 0x00 of the class of our
  0x10, and 0x03 of another: with three contenders one of our class may win, one of another, we
  ourselves, or nobody. One command per ACK rule, one of them to this node's own secondary
  address, both sorts of escape sequences in both directions, one retry, a lock of one SYN, a queue of one. The character
  counter wraps at 16 instead of 256: longer than every telegram of the
  instance; a SYN swallowed after a lone ESC lets it run on into a second telegram, up
  to the wrap. `bus_commands` has fewer foreign telegrams, and a counter that
  wraps at 8: a telegram cut off after nine characters ends with a SYN that the engine takes for
  the end of an arbitration, as it would after 257. Noise is ESC and 0x01, which makes an escape
  sequence of the ESC; in `bus_commands` it is NACK and 0x01.
- `polling`: three polling items and one that does not poll, a queue of two, three
  attempts. `delivery`: a queue of two, four telegrams.
- `codec`: MAX_DATA_LENGTH = 3, so that all lengths up to two, the boundary
  and escaped symbols at the first and the last place occur; every byte may be followed by every
  other kind. A request and a reply whose CRC is SYN. All 24 other primaries as
  receivers, and every inversion of bits (1 to 255) of one byte.
- `zebus_engine`: as `engine`.
- `zebus`: queues of one, so that either is full after one step; two attempts; four
  telegrams: two values of one sensor, an error, and one for four sensors at
  once.

### Fairness

- `BusFairness`: `WF(Traffic)`: an eBUS has an AUTO-SYN generator, and a byte is
  on the wire again and again; the byte task, at priority 20, reads it. Noise and lost
  bytes (`Stray`, `Unheard`) are not `Traffic`: they may happen at any time but do not go on for
  ever, as they would have to for the second round to repeat its QQ without end.
  `SF(IdleSyn)`: others do not use every single slot; again and again nobody
  begins after a SYN. `SF(Pause)`: again and again this is so after a telegram that
  was over, too. Without the latter two other primaries could starve this one,
  since a SYN that follows a lone QQ is no slot for it (`state_` is
  ARBITRATION). Nothing is assumed about the queue or the engine's choices.
- `EbusPolling!Fairness`: the scheduler calls `update()` again and again; the byte task takes
  commands and brings them to an end, which is what `CommandFinishes` says of
  the engine on the bus.
- `EbusDelivery!FairSpec`: the message task, on a core of its own choice, is run.
- `Zebus!FairSpec`: `setup()` comes to its end, `update()` is called again and again, both
  tasks get their turn, and an answer that is next on the bus comes (the
  AUTO-SYN generator ends a telegram whose sender is silent). Nothing is assumed about telegrams of others.

## 4. The proofs

`TelegramProofs` holds what both engines need of the buffers: what storing a byte
keeps, that `get_nn` is clamped, and the fill levels `Fits`. It also holds what `EbusBusProofs`
and `CodecProofs` need of sequences and of the wire. `Escaped` is a fold (`FlattenSeq`) over
symbols, and `FlattenCons` takes the first one from it. That is an induction over data; it
is carried out on the set of those numbers for which the claim holds (`NatSetInduction`,
from the well-foundedness of the naturals), which needs no operator as a parameter.

`EbusProofs` proves, for all values of the constants under `EbusAssumption` and
`MaxDataLengthAssumption` (addresses, tries and lock are bytes, requests have
a byte as ZZ, the counter's modulus is at least 2, 1 <= MAX_DATA_LENGTH <= 200):

- `TypeCorrect`: `Spec => []TypeOK`;
- `NoBufferOverrun`: `Spec => []BuffersInBounds`;
- `OneTransmissionPerByte`: `Spec => []SingleSpeaker`.

They follow from one inductive invariant `IInv`: `TypeOK`, `Fits`,
`ContendsAtStart` and `SingleSpeaker`. `BuffersInBounds` is not inductive: it does not say that
a machine that still takes data has room. `Fits` says that a telegram that
waits for request data has at most as many bytes as its length asks for, and
likewise for the response. `SingleSpeaker` is not inductive either: a request is sent on a
byte at which the receiver might end a request to us. `ContendsAtStart` says that a
command that contends has transmitted its QQ at a SYN, where the receiver is before
the beginning of a telegram, and that in the second round it has stored at most the QQ of
the winner; so that at the byte that decides, no answer is due. The step is proved per disjunct of `Receive` and of
`Send`.

Its second half adds the history variables:

- `TriesAreAccounted`: `HistorySpec => []TriesAccounted`;
- `LockIsHonoured`: `HistorySpec => []LockHonoured`;
- `EbusImplementsService`: `HistorySpec => ImplementsService`, the refinement.

The invariant `HInv` adds to `IInv` that only the default command has the default request
and no `tries_count_` wraps (`Taken`), the bookkeeping of the service, and
`Waited`: lock and quiet SYNs together make up the whole waiting time, and a
contending command has waited. `CommandStep` tells what a byte can do to the
command without mentioning the byte; `ServiceStep` maps each of these to an action of
the service or a stutter; `QuietStep` and `LockStep` are about the lock. They use
nothing of the receiving half, so `SendInv` holds their part of the invariant and
`SendingStep` says of any byte that meets the sending half that it keeps `SendInv`
and is a step of the service; `SilentStep` says so of the bytes that `Ebus` holds
back, a begun escape sequence and an invalid one.

`ZebusEngineProofs`, for the engine of zebus and every MAX_DATA_LENGTH:

- `ZebusWritesInBounds`: `ZebusSpec => []WritesInBounds`;
- `ZebusEscapesStay`: `ZebusSpec => []EscapesStayInTheirPart`;
- `ZebusSpeaksOnce`: `ZebusSpec => []SpeaksOnce`.

The bound of ebus is too strict here: a part that ends with an ESC is as long as
a complete one and still waits for a byte. `EscapedFits` allows it one byte more
while `waitForEscaped` is set (`Slack`), and the buffers have just that byte. `ReceiverOK` and
`ContendsAtStart` take the roles of `Fits` and of its namesake.

and for its sending half:

- `ZebusTypeCorrect`: `ZebusSpec => []ZebusTypeOK`;
- `ZebusHonoursLock`: `ZebusSpec => []LockIsHonoured`;
- `ZebusImplementsService`: `ZebusSpec => ImplementsService`, the refinement.

The sending half of zebus is that of ebus with `in_esc` always FALSE, and is
proved by saying so: `EbusProofs` is instantiated as `Half`, the `Same...` lemmas
show that its operators and those of `Common`, the instance that `ZebusEngine` is built
from, mean the same, and `Half!SendingStep` does the rest. A byte ESC, which `Ebus`
holds back, meets the sending half here; `SendingStep` covers it because it
does not ask which byte comes.

`EbusBusProofs`, about the engine on the bus with restarts (`CrashSpec`), for all
sets of other primaries, of well-formed requests, responses and commands, all noise that is not a
SYN, every reply, queue size, lock and number of tries:

- `BusTypesHold`: `CrashSpec => []BusTypeOK`;
- `NeverOutOfTurn`: `CrashSpec => []SpeaksInTurn`;
- `RequestSentWhenWon`: `CrashSpec => []SendsOnlyWhenWon`;
- `FollowsTheWire`: `CrashSpec => []InSync`;
- `CompletedTelegramsAreReal`: `CrashSpec => []CompletedIsReal`;
- `CorruptResponsesRefused`: `CrashSpec => []ResponsesIntact`;
- `EverybodyAnswered`: `CrashSpec => []Answers`;
- `CompletedTelegramsHandedOver`: `CrashSpec => HandedOver`;
- `CompletedOnlyByAck`: `CrashSpec => CompletedOnlyIfAcked`.

All of them assume `NeverAddressedAsPrimary`: no other primary addresses this node as
a primary. The run `false_win` shows that without it the node sends into somebody
else's telegram, and then nothing of the rest need hold. The last one assumes `NoAckInRequests` and
`QuietNoise` as well: no byte of a request of ours looks like the ACK that it waits for, and noise
neither looks like one nor contains an ESC; section 3 shows why.
`CompletedTelegramsHandedOver` needs no assumption about the noise: the
exception for a restart and for an ESC, after which the code may lose the telegram, is in the property. `EbusBusAssumption` holds what the model takes for granted of
its constants: this node's address is a primary whose secondary the code computes
correctly (any but 0xFF, see `Codec`), every NN is below `MAX_DATA_LENGTH`, no ZZ is SYN or ESC.

They follow from one inductive invariant, `BInv` (`BusInvariant`), which says where the
engine is when the wire is at any given place:

- `TransmissionInv`, the core: what is still to come of a request or a response, in the UART if it is
  ours and in the script of its sender if not, is the encoding (`Encodes`) of some symbols, perhaps with the ESC
  of the first one gone already, and either the engine skips this telegram (`Skips`: it waits for SYN in a telegram
  that did not begin after one that was over) or it is just where these symbols will complete
  the telegram, and not before the last of them (`Follows`, `RequestGoesOn`, `ResponseGoesOn`);
- `ReceiverInv` and `HeaderInv`: the same for the moments between the parts, where the engine
  waits for an ACK, for a SYN, or for the first byte;
- `UartInv`: what can wait in the UART in each phase, of which `SpeaksInTurn` is a
  conjunct and which is not inductive without the others;
- `CommandInv`: when a command contends, and that it then finds its QQ in the UART, an undecided
  arbitration, or the first byte of the winner, which is not its QQ;
- `AddressInv`, `GoodInv`: who has been addressed, and when a CRC may be wrong;
- `IInv` of `EbusProofs`.

The proof follows the byte: the `Transmits...` lemmas are about one byte of a request or a
response, whoever sends it, the `Answer...` lemmas about an ACK or a NACK, the `Syn...` lemmas
about the end of a telegram, `PrimaryRead`, `RequestBegins` and `ArbitrationEnds`
about its beginning. Below them are the lemmas of `TelegramProofs` about sequences.
`AckInv` adds, for `CompletedOnlyByAck`, that a waiting command has its request on the wire and no
ACK in what is left of it.

`EbusPollingProofs`, for every list of items, queue size and number of attempts:

- `PollingTypeCorrect`: `Spec => []PollingTypeOK`;
- `ItemsArePolledInOrder`: `Spec => []PollsInOrder`.

`PollsInOrder` was given a form that is inductive together with the types: it
relates each request in the queue to the one before it (`Follows`), the last one to the item that
`update()` is at (`GoesOnAfter`), so that taking the head of the queue moves the front of
the chain, appending moves its end, and passing an item that does not poll
moves neither.

`EbusDeliveryProofs`, for every list of items, set of telegrams and queue size:

- `DeliveryTypeCorrect`: `Spec => []DeliveryTypeOK`;
- `ItemsShowLatest`: `Spec => []ShowsLatest`.

`ShowsLatest` speaks of the moments when nothing is on its way. `DInv` says
what holds at all the others: for an item that has lost nothing, the last telegram on its
way that concerns it, in the queue or in the hands of the message task before
this item, is the one that gives it its `latest` value; if there is none, it already
shows it. The lemmas on the single steps (`QueueStep`, `ReceiveStep`, `ProcessStep`) are about one item, any
set of items that hear a telegram and any loop that does not end before an item that is to
get the telegram in hand, so that they also serve a list that grows.

`CodecProofs`, for both components, all data of requests and replies up to `MAX_DATA_LENGTH`
bytes, all receivers and all noise on one byte:

- `CodecTypes`: `Spec => []CodecTypeOK`;
- `RequestsAreRead`: `Spec => []RequestsArrive`;
- `TooLongAreRefused`: `Spec => []TooLongIsRefused`;
- `RepliesAreRead`: `Spec => []RepliesArrive`;
- `RequestsFindTheirNode`: `Spec => []RequestsReachTheirNode`;
- `CorruptionIsDetected`: `Spec => []CorruptionDetected`;
- `CrcIsTheRemainder`: `Spec => []CrcIsRemainder`.

`CodecAssumption` holds what is taken for granted: data are bytes, no more than
`MAX_DATA_LENGTH` of them, replies have at least one, and `MAX_DATA_LENGTH` is below ESC, so that no
length needs escaping.

The properties speak of the moment when everything has arrived, or of a validity that comes
with the last byte; none says anything of the way there. `CodecInv` (`CodecInvariant`) does: at every byte there are
a `body`, the symbols still to come, and a CRC `c` after it, such that

- the wire carries the encoding of both, perhaps with the ESC of the first symbol gone (`half`),
  and the flag that belongs to `half` is set, `in_esc` or `waitForEscaped` (`OnTheWay`);
- the buffer holds as many places as have been taken (`Filled`: in zebus the ESC of an open escape
  sequence fills one), its length byte is the right one, and so is everything else unless a byte
  has been corrupted (`Stored`, `BodyAsSent`);
- the rolling CRC, continued over what is still to be rolled (`ToRoll`: symbols in ebus, bytes in
  zebus), would come out as `c` if nothing has been corrupted, and as something else if it has
  (`Rolled`). That is why corruption is found: it makes the two differ once, and since rolling in the same
  bytes is injective in the CRC (`FromInjective`), they differ to the end.

`DeliverInv` and `CorruptInv` are the two steps, `TakeSymbol`, `TakeEsc` and `TakeSecond` what
a receiver does with a plain symbol and with either half of an escape sequence. `SendCommandIs` is
about the sender: the constructor pushes every byte through a buffer of its own, and what is
read from that buffer again is what went in.

Below are the lemmas about the CRC. A loop is a recursive function; `RunExists` shows that it has a value
and `AlongRun` is induction along it. `ShiftInBits` says what one round does to each of the eight
bits; from it follow `CalcInjectiveInCrc` and `CalcInjectiveInByte` (two CRCs, or two bytes, that differ in a
bit make results that differ), and `ShiftInDivides`: one round is one step of
the long division. `CalcDivides` and `CrcOfMessage` carry this over bits and bytes (`Dividing`: the
CRC so far stands where the division has come to, with the rest of the message below it).
`TooLongAreRefused` needs injectivity, too: the length is the last byte that either side rolls, and
the two have rolled different ones. `PushCovered` shows that the receiver's CRC is at every byte that of the bytes covered by it, although where these end is not
known before the length has come.

`ZebusProofs`, for every address, set of telegrams, number of attempts and queue size:

- `ZebusComponentTyped`: `Spec => []ZebusComponentTypeOK`;
- `SensorsShowLatest`: `Spec => []ShowsLatest`;
- `OwnAnswersAreHeard`: `Spec => AnswersAreHeard`;
- `ZebusImplementsPolling`: `Spec => P!Spec`, a refinement: the sending side of zebus is an `EbusPolling`;
- `ZebusPollsInOrder`: `Spec => []P!PollsInOrder`, which follows from it and `ItemsArePolledInOrder`.

`P` and `D` are instances of the two proof modules; the `Same...` lemmas show that they mean
what `Polling` and `Delivery` in `Zebus` mean. The invariant `ZebusInv` consists of theirs, of
`HandlerIsThere`: what is on its way to a sensor that has lost nothing found its handler in the list,
so that the message task does not come to the end of the list before it; and of
`QuietDuringSetup`: until the list is complete nothing is asked for, so that an answer
finds all handlers. `DInv` itself does not hold of zebus with the whole list as `Items`:
the items that hear a telegram are those registered by then.

TLC evaluates the assumptions in every run. `IInv`, `DInv` and the
others were checked as invariants of the instances before they were proved; `CodecInv`, which
quantifies over all sequences, was not.

Every safety property and both refinements that the passing runs check are proved. Not proved, only model-checked:

- `EventuallyShown`, `UpdateReturns`, `EveryItemIsAsked`, `CommandFinishes`,
  `QueueGetsSpace`, `RequestsAreAsked`: liveness, for which the prover lacks ENABLED;
- what the four runs with a counterexample say, since it is false; `AnswersResponses` and
  `SilentWithoutAddress` have no restriction under which they are stated here.

## 5. What is not modelled

- Noise within a telegram other than a wrong CRC, a missing byte or a refusal, noise between a SYN
  and the next QQ, and noise that is a SYN. `Ebus` and `ZebusEngine` by themselves take any byte at any time.
- PB, SB and data in the engine: only their number and, on the bus and in `Codec`, their values.
- The FreeRTOS queues copy items of a given size; that this size fits the object
  that is copied is not visible, nor is the layout of objects.
- The division of a sensor's reading, and the contents of the reply to an
  identification request in zebus: values without control.
- UART setup, logging, the state strings, code generation, a handler that takes long.
- `EbusNumber`, which is a stub.
- Repeating a request or response after NACK, which the code does not do either.

## 6. What could come next

In the order of what it would add: noise between a SYN and the next QQ in `EbusBus`,
together with a weaker form of `InSync` that survives it; the engine with
the bytes and CRCs of `Codec` in place of fill levels and a free choice, as a refinement
of `Ebus`; `reply()` of the items with its contents, once
the platform for it (`EbusNumber`) exists.
