# A verification project for the Haier heat pump controller

TLA+ models of the controller firmware in `fw/`, TLC configurations that check them on
small instances, and TLAPS proofs of what matters most for every value of the constants.
Everything is translated from the C source; `PROJECT.json` maps each definition to the
lines it stands for.

## The system

An ESP32-C6 sits on the RS485 line between a Haier heat pump and its YR-E27 remote
control. It listens to the pump's responses, keeps the register blocks they carry, and
publishes values from them over MQTT. A command from MQTT or a shell is encoded as a
changed copy of a register block and written to the pump on the same line, in the gap
after the last response of a polling cycle.

| Part | State | Operations | Interacts through |
|---|---|---|---|
| Write handshake, `heatpump.c:36-61, 94-146` | `write_sem`, `write_req_data.{pending, transmitting}`, `enable_gpio`, `data_mutex` | `write_pump`; the sniffer's grant after an R241 response | binary semaphore, two unlocked flags, a 300 ms sleep under the mutex |
| Driver, `heatpump.c` | `data->registers` (R101, R141, R201, R241), `modbus_client_iface` | `set_pump_*`, getters, storing a response | called by shell and MQTT threads; `data_mutex` |
| Codec, `haier_cmd.c` | none | 25 decoders, 8 encoders | pure functions of register blocks |
| Frame sniffer, `heatpump.c:63-120` | bytes of the frame being read | find a header, read a payload, time out | polls the UART modbus also uses |
| MQTT link, `mqtt.c` | `client`, `connected`, socket, buffers | `mqtt_init`, `mqtt_thread`, `handler`, `publish_msg` | called by `main` and by `mqtt_sub`, without a lock |
| Command path, `mqtt.c:39-112`, `shell.c` | none | name lookup, number parsing, dispatch | calls the driver; publishes a status afterwards |
| WiFi bring-up, `wifi.c` | three semaphores, `target_channel` | scan, connect, wait for an address | event callbacks give, `main` takes |
| Main loop, `main.c` | one status packet | `get_status`, publish every 30 s | reads the driver value by value |
| Relays, DS18B20, DS2401 | pins | one I/O call each | called by the shell and `get_status` |

What is hard here, with the property each part must have:

* **Handshake.** The sniffer (priority 5), `mqtt_sub` (priority 7) and the serial and
  telnet shells are preempted anywhere. `write_pump` takes no mutex. Correct means: one
  transmitter at a time, a sniffer that keeps off the UART meanwhile, transmission only
  in the slot after R241, no flag or pin left behind, no call that hangs.
* **Driver.** A command rewrites a whole block from cached registers. Correct means: the
  pump ends with the setting commanded and no other changed, and a call that returns 0
  has been sent.
* **Codec.** Values share words, bytes and nibbles, in 8, 12 and 16 bits. Correct means:
  decoders do not overlap, and an encoder changes its own setting under one flag.
* **Frame sniffer.** No CRC check, a one-byte address match, blocks told apart by length,
  time-outs inside frames, bytes missed while it sleeps. Correct means: what is stored
  under a block, and what opens a slot, is a response of that block that the pump sent;
  the sniffer finds its place again.
* **MQTT link.** Two threads reconnect one client without a lock; the first thing a
  reconnect does is to zero the client, its mutex included; callbacks re-enter it.
  Correct means: reports and commands come back after any fault, the flag `connected`
  never stays wrong, and descriptors are not lost.
* **WiFi.** Three waits without time-outs for events that come in any number and order.
  Correct means: no token is missed or taken back that will not come again.
* **Command path and telemetry.** Two front ends with tables of parsers; each value of a
  packet waits for the mutex with which the sniffer sleeps. Correct means: each command
  lets `mqtt_sub` go on and, if the link stays up, gets its status packet; main's packets
  go on; a relay number stays inside its table.

The full list of hazards, each at its line and with the properties that cover it, is in
`PROJECT.json`.

## Modules

```
BusArbiter            what the line promises (abstract)
  ^ refined by
WriteHandshake        control: semaphore, flags, mutex, sniffer loop, write_pump
  ^ extended by (and refined by, see Proofs)
  |-- FrameSniffer    the bytes that its Receive and Skip stand for
  |-- CommandPath     MQTT and shell commands, relays, status packets
  `-- HeatpumpDriver  registers, commands, frames, pump   --> RegisterCodec
                                                                ^ extended by
                                                              CodecWalk

NetIface              the address of the network interface
  ^ extended by
  |-- WifiBringup     main's way to the network
  |-- MqttLink        the session, main and mqtt_sub
  `-- Network         both together
MC<module>            instances for TLC
<module>Proofs        theorems
```

**BusArbiter** says what a user of the line may rely on: it is idle, listened to, open
as a slot, or driven by exactly one writer, who got it through a slot.

**WriteHandshake** has the real variables. A step is the code between two accesses to
shared state. `pc[w]` is where a client thread is in `set_pump_*` and `write_pump`
(`Call`, `Encode`, `Reset`, `Raise`, `TakeToken` or `Block`, `Timeout`, `Withdraw`,
`Begin`, `Drive`, `Send`, `Release`, `Clear`; `NoIface` is the early return), and
`sniffer` where that thread is in its loop. `k_sem_reset` aborts every blocked
`k_sem_take`, `k_sem_give` wakes any one blocked writer or leaves a token, and
`data_mutex` is held from storing an R241 response to the end of the 300 ms sleep, so
`Encode` waits that long. Three choices need a word:

* `waiting` and `overdue` are one place in the code, a writer blocked in `k_sem_take`.
  It becomes overdue when an R241 response was handled without serving it. On a healthy
  bus only an overdue writer can time out; otherwise any blocked one can.
* `Prompt` says that a client that is runnable gets from any point of `write_pump` to its
  next wait within the 300 ms hold. These are a few instructions, against 300 ms in which
  the sniffer, the thread above them, sleeps. The code has nothing else that keeps the sniffer off the
  UART between the give and `transmitting = true`: the mutant `WakeAtOnce` drops the hold
  and breaks `QuietLine`.
* `HealthyBus` says that the interface was found and an R241 response comes within each
  5000 ms wait. The pump simulator (`sw/mock_heatpump.py:55-77`) has a cycle of 4 s. Safety
  is checked and proved without it.

**RegisterCodec** has all functions of `haier_cmd.c`. Floats are whole tenths, blocks are
functions to 16-bit words, and shifts and casts keep their width. The checks of `count`
and NULL are left out, as every caller passes constants that satisfy them.

**CodecWalk** walks from register images over flipped bits and states what the decoders
and encoders owe on each. `OneBitOneParameter` is why it is a state machine: it compares
the parameters before and after one bit changes.

**HeatpumpDriver** extends the handshake with data: the cached R101 and R201, the request
and block of each call, what it returned, and the pump's own settings. The pump is
external. It is modelled from the way the encoders address it, and since the source does
not say whether it takes over a whole block or only what the command flag names,
`SendFrame` allows both (`TakeBlock`, `TakeField`). `TurnKnob` is somebody at the pump's
panel. `basis` and `sent` are history variables. R141 and R241 are left out of the cache:
no command reads them.

**FrameSniffer** puts bytes under the handshake. The line is a polling cycle that repeats:
each frame has fixed bytes, then bytes of any value the line may have (`bus.octets`), its
CRC among them. `line` is the next byte the sniffer has not read. `MatchAddr`, `ReadFunc`,
`ReadLen`, `ReadBody` and `ReadTimeout` are `uart_read_bytes` at its three calls; `Complete` is
the handshake's `Receive`, with the block that `BlockOf` makes of the length, and `WrongAddr`,
`WrongFunc`, `TooLong` and `ReadTimeout` are its `Skip`. `PassByte` is a byte that goes by while
the sniffer sleeps or the Modbus client has the UART. `source` is history: the block of the
frame whose address byte was matched. Payloads, CRCs and the data of the remote control's
writes may hold what reads like a header (`Imitates`), and the sniffer then takes it for one,
as on the device. `Unmistakable` says, from the frames of the cycle, for which blocks this
cannot come about, and the properties are about those. Bytes are not flipped or lost inside
a frame that is being read: without a CRC check any such byte may be stored.

**CommandPath** puts the front ends over the handshake. An argument is what `strtof` and
`strtol` make of the text; no caller looks where these stopped, so text that is no number
is 0. `dispatch_cmd` blocks `mqtt_sub` in `handler` until the driver has returned, `Getter` is
one of the seven critical sections of `get_status`, and `cmd_set_relay` cuts the number to
eight bits before it compares it. `link` is the connection as `publish_msg` finds it: on one
that is down it calls `mqtt_init` and publishes nothing, on one that is broken the packet is
lost or the library closes the socket. It changes at any time here (`LinkChanges`); who
changes it is in MqttLink, and so are commands that the loop of `mqtt_init` reads. `told` is
history. NaN is left out, and a payload without a space, which the code scans past its end.

**MqttLink** is `mqtt.c` in the two threads that run it. `Wipe` is `mqtt_client_init`, which
forgets the socket, the state and the mutex; `Dial` to `GiveUp` are the rest of `mqtt_init`;
`Hear` is `mqtt_input` with the callback `handler`; `Loop`, `Poll`, `Live`, `Drop` and `Abort` are
`mqtt_thread`; `Report` and `Publish` are `publish_msg`. `Poll` has all its ways on: something to
read (`PollInput`), nothing, or an error without `POLLIN`, which the code does not look at
(`PollNothing`), and a failure of `zsock_poll` (`PollFails`). `Leave` is `handler` returning before
it has read a payload, after which `mqtt_input` fails. A command is executed wherever
`mqtt_input` was called, also in the loop of `mqtt_init`, to which it then returns (`nested`,
`Return`); its status may call `mqtt_init` again, and of these calls inside calls one level
is modelled. A message that the code ignores, an unknown name among them, is as none. A
socket has a state for both of its ends (`net`), so that descriptors that nobody will close
can be counted (`Orphans`). What the library does with a client that was zeroed under it is
in `AskTwice` and `AskNobody`. Nothing keeps the threads apart but what `mqtt.c` has: the flag
and the mutex of the client that `Wipe` zeroes.

**WifiBringup** is `wifi.c`: main's steps, one action per callback, and a queue of events that
one thread hands out in order. `step = "refused"` is the early return of `wifi_connect`, after
which main waits for an address for ever.

**Network** lets main call `mqtt_init` when `WifiBringup` is up, and lets a lost Wi-Fi
connection break every socket.

Operators marked "Mutant" in the modules are deliberately wrong forms of the definition
that follows them. Nothing refers to them; they document which mistake each property
detects, by replacing that definition in a copy of the module.

## Runs

| Run | Instance | Shows |
|---|---|---|
| HandshakeSafety | 3 writers (symmetric), any bus | `TypeOK`, `OneTransmitter`, `QuietLine`, `FlagsMatchLine`, `SlotOnly`, refinement `LineDiscipline`; no deadlock |
| HandshakeLiveness | 2 writers, healthy bus | `EveryCallReturns`, `ListeningResumes` |
| CodecWalk | 7 images and all one bit away | `OneBitOneParameter`, `OneCommandFlag`, `TempSettersExact`, `StateSetterExact` |
| DriverSolo | 1 client, 2 calls of 6 requests, 1 panel change | `DriverTypeOK`, `AcceptedIsSent`, `FreshWriteIsExact`, `StaleWriteIsOld`, `CommandTakesEffect` |
| FrameFeed | 1 writer, 12 frames, 3 kinds of line | `FrameTypeOK`, `NoForeignData`, `TrueSlot`, `BlocksKeepComing` |
| CommandPath | `mqtt_sub` and 1 shell, 10 arguments, packets of 3 values, a link that comes and goes | `CommandTypeOK`, `EveryCommandReported`, `PacketsGoOn` |
| LinkRecovers | 3 descriptors; 1 late CONNACK, 2 faults, any meetings (2 counted) | `LinkTypeOK`, `OrphansExplained`, `FlagRepaired`, `TelemetryRecovers`, `CommandsRecover` |
| Network | 2 access points, 1 failed attempt, 1 lost connection, 2 descriptors, any meetings | `WifiTypeOK`, `NoTokenMissed`, `BootCompletes`, `ReportsResume`, `CommandsHeard` |
| CodecOnOff | as CodecWalk | violation of `StateSetterTotal` |
| DriverTwoWriters | 2 clients, 1 call each | violation of `AcceptedIsSent` |
| DriverStale | 1 client, 2 calls | violation of `SetTouchesOnlyItsField` |
| LinkExhausted | 2 descriptors, 2 late CONNACKs | violation of `ResumesUnmet` |

Bounds. Three writers are enough for the handshake to have one that is granted, one that
still waits and one that resets or withdraws at that moment; calls are unbounded. Two
writers are enough for liveness, where one starves the other if anything does, and
symmetry is not used. The images of CodecWalk are all zeros (the cache before the first
response), all ones, two alternations of bits, one of bytes, one of nibbles, and the
simulator's; every nibble, byte and sign of every parameter is then both set and clear,
next to a neighbour that is not. `DriverSolo` needs two calls, because the second is
encoded from registers the first may have changed (and the first before any response, from
zeros), and a request of each function, one
refused one, and one temperature between two half degrees.

`FrameFeed` has every length the `switch` tells apart, one it does not, one longer than the
buffer, zero, and frames of other functions and devices. Its lines are of three kinds. On
`Loose` nothing is said of timing, the sniffer starts anywhere and misses bytes, but the
address byte occurs as an address only; no block can be mistaken there. On `Separate` and
`Missed` every free byte may be the address, the function or any length, and frames are
separated by silence; on `Missed` the sniffer starts and misses anywhere, the middle of a
frame included. The silence is the simulator's (`sw/mock_heatpump.py:55-77`): 0.5 s between
frames and 2.5 s after R241, against time-outs of 50 and 100 ms and a hold of 300 ms. On
these two, R101, R141 and R201 can be imitated: a frame of another device whose payload
holds `11 03 02`, or a write of the remote control that does, is stored as R201. R241 cannot,
because no frame but its own has room for 44 bytes behind such a header, so `TrueSlot` and
the R241 part of `NoForeignData` are checked with all imitations present. `CoveredBlocks`
makes TLC evaluate which blocks are covered on which line. On a line with longer foreign
frames a slot could open behind an imitation, as on the device.

In `CommandPath` the numbers lie on both sides of every limit. Three values make a packet
that a command, a grant and another packet can come between; the code has seven, and the
getters do not differ in what they lock.

In `MqttLink` two bounds limit what the code does not: `MaxLate`, CONNACKs that come after
`mqtt_init` gave up, and `MaxFaults`, refused and broken connections, lost addresses, failures
of `zsock_poll` and payloads left unread. `MeetingsCounted` limits nothing: calls of `mqtt_init`
while the other thread uses the client happen any number of times in every run, and are
counted up to that number. Each late answer can cost one descriptor and each meeting two,
which is what `OrphansExplained` says while all meetings are counted. In `LinkRecovers` every
descriptor can be lost, in `Network` those that meetings cost.

`TelemetryRecovers` and `CommandsRecover`, and with them `ReportsResume` and `CommandsHeard`,
except what `Hopeless` says: all descriptors are lost, so that `mqtt_connect` finds none, or
the threads meet in `mqtt_init` for ever. The second is no formality. Without time in the
model, `mqtt_sub` can be as slow as to clear the flag, let main make a whole new connection,
abort that one and find the flag set by it, again and again; each round begins with one thread
zeroing a client the other uses. Nothing in `mqtt.c` excludes this but that it is unlikely.
What is shown is that every run that does not end in one of these recovers, however often the
threads have met before and whatever they left: on one descriptor, if no more is left.
`LinkExhausted` shows that late answers alone exhaust the descriptors: `ResumesUnmet` leaves
out the runs in which threads meet, and fails.

Liveness is about what happens after the last fault: faults that never end are no
recovery. In `Network` one lost connection suffices to hit each wait of main and each place
of the two threads, and two events in the queue are enough for a loss to overtake a success
that main has not seen.

Only the walk is checked without deadlock detection: it ends when its flips are spent.
The driver's models stop in no other way than by clients that have spent their calls,
and the sniffer goes on even then.

Fairness. A thread that can run does run (weak fairness of `Advance`, `Handle`, `Run`,
`Serve`, `MainStep` and `Callback`); Zephyr's `k_mutex_unlock` hands the mutex to a thread
waiting for it (strong fairness of `Encode` and `Getter`); the end of a connection shows, as
something to read in the next poll or in a ping that cannot be written (strong fairness of
`Notice`); `mqtt_init` returns after 50 polls (weak fairness of `MainReturns` and
`SubReturns`); on a healthy bus R241 responses keep coming (strong fairness of their
reception, as the sniffer may drop bytes in between), which `BlocksKeepComing` derives for a
quiet line from weak fairness alone, unless bytes are missed for ever. `CommandPath` assumes
no healthy bus: its calls end by their time-out. main's sleep ends (`WakeUp`). Outside the
device, the broker answers a CONNECT, a scan ends, joining succeeds in the end and DHCP gives
an address. Calls and commands themselves are not fair.

### What the violations say

* **ON and OFF count.** `set_state` adds 1 to the cached state byte for ON and subtracts 1
  for OFF (`haier_cmd.c:446, 451`), which is right for a pump in the other state only. ON
  for a pump that is on in state 133 asks for 134, which is off, with other heating bits.
* **Success without a frame.** `set_pump_*` return the encoder's result and drop that of
  `write_pump` (`heatpump.c:236, 249, 260, 274`). Two clients on a healthy bus can abort
  each other: by `k_sem_reset`, or when the one that finishes clears the `pending` of the
  one that waits. The loser writes nothing and returns 0.
* **A command that undoes another.** After a heating temperature has been written, and
  before the next R101 response, a tank temperature is encoded from the old block and
  sends the old heating temperature along. How much of it the pump takes over is its
  own affair (`TakeBlock`, `TakeField`), so the property is about the frame. What it can do
  to the pump at most is `StaleWriteIsOld`, which holds: settings come back that the old
  registers had, and the command still takes effect.
* **Descriptors run out.** `mqtt_init` gives up after 50 polls and leaves the socket open
  (`mqtt.c:182-190`); the next one begins by zeroing the client (`mqtt.c:159`), which forgets
  the descriptor. Once all are gone `mqtt_connect` fails for ever and nothing is published,
  although the broker and the network are well.

`FreshWriteIsExact` and `CommandTakesEffect` leave ON for a pump that is on and OFF for one
that is off to the first of these.

## Proofs

The eight proof modules are checked by TLAPS to the last leaf.

**WriteHandshakeProofs**, for any set of writers. `SlotInv` is the inductive invariant:
at most one writer holds the slot (`OneHolder`); a free token excludes a holder and a
blocked writer (`TokenIsFree`); outside the hold nobody can be about to take a token,
since every writer resets first (`NoStaleTake`); a granted writer runs inside the hold and
a transmitting one inside it or behind the flag (`HoldCovers`); the hold is behind R241
(`HoldFrame`); and `FlagsMatchLine`. `OneTransmitter` alone is not inductive: it says
nothing of a token that is free while somebody holds the slot. From `SlotInv` follow
`MutualExclusion`, `SnifferKeepsOff`, `FlagsCorrect`, `OnlyInSlot`, and that every step maps
to a step or a stutter of BusArbiter (`ImplementsArbiter`). All but `TypeCorrect` assume
`Prompt`; none assumes `HealthyBus`.

**RegisterCodecProofs** reduces the encoders to arithmetic on bytes: a word splits into
two bytes and back (`WordSplit`, `WordJoin`), the status bits live in the low byte
(`LowBits`), counting an even byte up or an odd one down flips bit 0 only (`CountUp`,
`CountDown`). It shows what each encoder does to any of the 2^96 blocks R101, and
which flag its block carries.

**CodecWalkProofs** carries this to any walk: `TempSettersAlwaysExact`,
`StateSetterAlwaysExact`, `OneCommandFlagAlways` (the block carries the flag of its own
command, and in the two words that hold flags nothing else of the kind).
`OneBitChangesOneParameter` is about the decoders. A flipped bit leaves three of the four
nibbles of its word alone (`FlipIsNear`), and within the nibble one flag at most
(`OneFlagApart`); then, word by word of the four blocks, all parameters but one are functions
of parts that did not change (`SettingsWord`, `WaterWord`, `CompressorWord`, `ModeWordOnly`).
With two decoders made to share a nibble, the proof fails at the word they share.

**HeatpumpDriverProofs**. A step of the driver is a step of the handshake (`DriverStep`), so
`SlotInv` holds of it too (`DriverImplementsHandshake`, `DriverKeepsDiscipline`). `DriverInv`
adds that a call under way has a request that passed the range check, that its block is what
the request makes of its basis, and that it is unsent until `SendFrame`. `FrameEffect` puts
the codec lemmas together with both ways the pump may take a frame, for registers and a pump
that need not agree. This gives `StaleWritesAreOld`, for any requests, clients and register
values, and, where they do agree, `FreshWritesAreExact`. `AloneAcceptedIsSent` shows that the
second finding needs a second client: its invariant `SoloInv` says that a client alone is
never refused, because nobody else resets the semaphore or lowers `pending`.

**FrameSnifferProofs**, for any polling cycle and any kinds of line. A step at the level of
bytes is a step of the handshake or none (`BytesImplementBlocks`), so `SlotInv` carries over
(`BytesExclude`). `StoredIsReceived` and `SlotIsTrue` are `NoForeignData` and `TrueSlot`. These say
nothing of a frame half read; the invariant `SourceInv` does. On a quiet line, what has been
matched so far may be the header of an imitation in the frame where the sniffer is, and
came from its start exactly if `source` says so (`Traced`): when the payload is complete, the
imitation fits, which `Unmistakable` excludes for all but the response itself. Without the
silence, and with the address byte as an address only, the sniffer is at the right byte of
the frame it matched (`Aligned`). What is stored, and the hold behind it, still have the
history they came with (`Sourced`).

**CommandPathProofs**, for any writers and arguments: the front ends take only steps of the
handshake (`CommandsUseDriver`, `CommandsExclude`), and `CommandTypeCorrect`, which needs that
`mqtt_sub` is inside the driver only while it runs a handler.

**MqttLinkProofs**, for any number of descriptors and any bounds. `LinkInv` adds to
`LinkTypeOK` where each thread's calls return to, without which main could come back into
`mqtt_sub`'s loop. `LossesExplained` is `OrphansExplained`, for as long as meetings are
counted. It is not inductive: when two threads meet in `mqtt_init`, or an answer comes too
late, nothing is lost yet, and when the descriptor is lost, nothing is counted. Its invariant
`LossInv` keeps the account in between. A descriptor is `Astray` when it is allocated and not
the client's; one more is at stake (`AtStake`) when the client's may still be zeroed away or
overwritten without anybody closing it. `DebtInv` says that what is astray and at stake never
exceeds the late answers plus twice the meetings, and `SocketInv` that the client never keeps
a closed descriptor, and an idle one only while its opener is in `mqtt_connect`. Each action
then falls under one of the five ways in which the account may move (`Account`), the last of
which closes it: the meetings are counted no longer. `LostForGood` says that no step gives a
lost descriptor back, and `ExhaustedForGood` that there is never a session again once all are
lost: the finding of `LinkExhausted` is an end, and so is the first alternative of `Hopeless`.

**NetworkProofs**, for any air and bounds. `NoTokenMissed` speaks of an empty queue only;
the invariant behind it follows the queue: a success still to be handed out has no loss
behind it, or the token was given and no loss is to come (`JoinPending`), and likewise for the
scan and the address (`ScanPending`, `AddressPending`). The composition keeps both types and
misses no token (`NetworkSafe`), and the account of descriptors survives a Wi-Fi loss that
breaks all sockets at once (`NetworkLossesExplained`).

Whatever is built on the handshake implements BusArbiter: `StepsImplementArbiter` needs its
initial states and steps only, so that `DriverImplementsArbiter`, `BytesImplementArbiter` and
`CommandsImplementArbiter` follow for the three modules that extend it.

Assumptions on constants are the `ASSUME`s of the modules (`HandshakeAssumption`,
`WalkAssumption`, `DriverAssumption`, `FrameAssumption`, `CommandAssumption`, `LinkAssumption`,
`WifiAssumption`), evaluated in the runs of those modules.

Model-checked only: liveness and what rests on fairness (`EveryCallReturns`,
`ListeningResumes`, `CommandTakesEffect`, `BlocksKeepComing`, `FlagRepaired`,
`TelemetryRecovers`, `CommandsRecover`, `BootCompletes`, `ReportsResume`, `CommandsHeard`,
`EveryCommandReported`, `PacketsGoOn`), which is out of reach of the prover, and the four
properties that the code violates. Every invariant and every action property of the passing
runs is a theorem.

## What is left

The rest of the register cache (R141, R241) and the values of a status packet: what a
packet mixes when a response comes between two getters. Nothing in the repository says
that the values of a packet belong together.

## Not modelled

The temperature sensor and the ROM reader are device I/O without state. The shell's getters
read one value and print it. `wifi_disconnect` is called by nothing, and the interface status
that `wifi_wait_for_ip_addr` prints (from a struct that stays uninitialized when the request
fails) goes to the console only. Credentials that Zephyr's connection manager may have
stored, an overflow of its event queue, and the MQTT library's keep-alive time are outside
the source. Board files, schematics, CAD data and the host tools in `sw/` are not part of
the device's behaviour. Formatting, CBOR and logging are left out everywhere.
