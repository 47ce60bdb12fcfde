------------------------------ MODULE FrameSniffer ------------------------------
(***************************************************************************)
(* The sniffer thread at the level of bytes: how sniffer() and             *)
(* uart_read_bytes() (heatpump.c:63-147) cut the byte stream of the RS485  *)
(* line into the blocks that WriteHandshake takes as received.  The stream *)
(* is a polling cycle of frames that repeats; line is the next byte that   *)
(* the sniffer has not read, on the wire or in the UART's buffer.          *)
(***************************************************************************)
EXTENDS WriteHandshake, Sequences

CONSTANTS
  SlaveAddr,   \* cfg->slave_addr
  Polling,     \* the frames of a cycle: records [head, size, block]
  Buses        \* kinds of line: records [octets, quiet, whole]

Octet == 0 .. 255
NoBlock == "none"

(***************************************************************************)
(* A frame has fixed bytes (head), then bytes of any value up to its size, *)
(* its CRC at the end.  Its block is that of a response of the heat pump,  *)
(* or NoBlock.  On a line                                                  *)
(*  - octets are the values that payload and CRC bytes may have;           *)
(*  - quiet says that frames are followed by more silence than any of the  *)
(*    sniffer's time-outs, and are not interrupted by it;                  *)
(*  - whole says that the sniffer starts between two frames and that no    *)
(*    frame comes while it is not listening for longer than the UART's     *)
(*    buffer lasts; otherwise it starts anywhere and misses bytes.         *)
(***************************************************************************)
FrameT == [head : Seq(Octet), size : Nat, block : Blocks \union {NoBlock}]
BusT   == [octets : SUBSET Octet, quiet : BOOLEAN, whole : BOOLEAN]

ASSUME FrameAssumption ==
  /\ SlaveAddr \in Octet
  /\ Polling \in Seq(FrameT) /\ Polling # << >>
  /\ \A k \in DOMAIN Polling : Polling[k].size > 0
  /\ Buses \subseteq BusT

VARIABLES
  bus,      \* the kind of line, chosen once
  line,     \* the next byte to be read: frame of the cycle and offset in it
  at,       \* what uart_read_bytes is reading
  len,      \* header[1]
  need,     \* payload bytes still to be read
  source    \* history: the block of the response whose address byte was matched

stream == << bus, line, at, len, need, source >>
frameVars == << vars, stream >>

ReadAt == {"addr", "func", "wrong", "len", "body"}

FrameInit ==
  /\ Init
  /\ bus \in Buses
  /\ \E k \in DOMAIN Polling :
       \E i \in IF bus.whole THEN {1} ELSE 1 .. Polling[k].size :
         line = [frame |-> k, off |-> i]
  /\ at = "addr" /\ len = 0 /\ need = 0
  /\ source = NoBlock

-----------------------------------------------------------------------------
(* The line                                                                *)

Current == Polling[line.frame]
AtEnd == line.off > Current.size
Step == line' = [line EXCEPT !.off = @ + 1]

\* The values the next byte may have.
Incoming == IF line.off <= Len(Current.head) THEN {Current.head[line.off]} ELSE bus.octets

\* The silence after a frame is over.
NextFrame ==
  /\ AtEnd
  /\ bus.quiet => at = "addr"
  /\ line' = [frame |-> (line.frame % Len(Polling)) + 1, off |-> 1]
  /\ UNCHANGED << vars, bus, at, len, need, source >>

\* A byte passes while the sniffer sleeps or the Modbus client has the UART.
PassByte ==
  /\ ~bus.whole /\ ~AtEnd
  /\ sniffer \in {"top", "hold"}
  /\ Step
  /\ UNCHANGED << vars, bus, at, len, need, source >>

-----------------------------------------------------------------------------
(* uart_read_bytes, inside sniffer = "read"                                *)

Reading(where) == sniffer = "read" /\ at = where /\ ~AtEnd /\ Step

\* continue: the locals addr, header and payload are gone.
Forget == at' = "addr" /\ len' = 0 /\ need' = 0
Drop == Skip /\ Forget /\ source' = NoBlock

\* The first byte is read with K_FOREVER.
WrongAddr ==
  /\ Reading("addr")
  /\ \E c \in Incoming : c # SlaveAddr
  /\ Skip
  /\ UNCHANGED << bus, at, len, need, source >>

\* Mutant: the address is not compared.
AnyAddr ==
  /\ Reading("addr")
  /\ at' = "func"
  /\ source' = IF line.off = 1 THEN Current.block ELSE NoBlock
  /\ UNCHANGED << vars, bus, len, need >>

MatchAddr ==
  /\ Reading("addr")
  /\ SlaveAddr \in Incoming
  /\ at' = "func"
  /\ source' = IF line.off = 1 THEN Current.block ELSE NoBlock
  /\ UNCHANGED << vars, bus, len, need >>

\* Both header bytes are read before the first of them is looked at.
ReadFunc ==
  /\ Reading("func")
  /\ \E c \in Incoming : at' = IF c = 3 THEN "len" ELSE "wrong"
  /\ UNCHANGED << vars, bus, len, need, source >>

WrongFunc ==
  /\ Reading("wrong")
  /\ Drop
  /\ UNCHANGED bus

\* Mutant: the payload buffer has 32 bytes.
PayloadOf32 == 32

\* sizeof(payload)
PayloadSize == 64

TooLong ==
  /\ Reading("len")
  /\ \E c \in Incoming : c > PayloadSize
  /\ Drop
  /\ UNCHANGED bus

\* Mutant: the length is not compared with the buffer's.
ReadLenAny ==
  /\ Reading("len")
  /\ \E c \in Incoming : len' = c /\ need' = c
  /\ at' = "body"
  /\ UNCHANGED << vars, bus, source >>

ReadLen ==
  /\ Reading("len")
  /\ \E c \in Incoming : c <= PayloadSize /\ len' = c /\ need' = c
  /\ at' = "body"
  /\ UNCHANGED << vars, bus, source >>

ReadBody ==
  /\ need > 0
  /\ Reading("body")
  /\ need' = need - 1
  /\ UNCHANGED << vars, bus, at, len, source >>

\* switch (header[1]): the payload's length alone says which block it is.
BlockOf(n) ==
  CASE n = 12 -> "R101" [] n = 32 -> "R141" [] n = 2 -> "R201" [] n = 44 -> "R241"
    [] OTHER -> "other"

\* Mutant: the result of the last uart_read_bytes is not looked at.
ReadTimeoutTaken ==
  /\ sniffer = "read"
  /\ at # "addr" /\ (at = "body" => need > 0)
  /\ bus.quiet => AtEnd
  /\ IF at = "body" THEN Receive(BlockOf(len)) /\ Forget /\ UNCHANGED source ELSE Drop
  /\ UNCHANGED << bus, line >>

\* uart_read_bytes gives up, 50 ms after the address or 100 ms after the header.
ReadTimeout ==
  /\ sniffer = "read"
  /\ at # "addr" /\ (at = "body" => need > 0)
  /\ bus.quiet => AtEnd
  /\ Drop
  /\ UNCHANGED << bus, line >>

-----------------------------------------------------------------------------
(* Complete payloads                                                       *)

\* No byte is awaited for a length of zero.
Complete ==
  /\ sniffer = "read" /\ at = "body" /\ need = 0
  /\ Receive(BlockOf(len))
  /\ Forget
  /\ UNCHANGED << bus, line, source >>

\* The history is needed no longer, except in the slot behind an R241.
StoreFrame ==
  /\ Store
  /\ source' = IF frame = "R241" THEN source ELSE NoBlock
  /\ UNCHANGED << bus, line, at, len, need >>

-----------------------------------------------------------------------------
(* The specification                                                       *)

\* The rest of the sniffer's loop and the writers, as in WriteHandshake.
Grant ==
  /\ \/ Listen \/ NobodyAsks \/ SomebodyAsks
     \/ (\E w \in Writers : GiveTo(w)) \/ GiveToNobody \/ Wake
  /\ UNCHANGED stream

WriteStep(w) == Write(w) /\ UNCHANGED stream

Hear ==
  \/ WrongAddr \/ MatchAddr \/ ReadFunc \/ WrongFunc \/ TooLong \/ ReadLen
  \/ ReadBody \/ ReadTimeout \/ Complete \/ StoreFrame \/ NextFrame

FrameNext == Grant \/ Hear \/ PassByte \/ \E w \in Writers : WriteStep(w)

\* The line goes on, and every thread that can run does.
FrameFairness ==
  /\ WF_frameVars(Grant) /\ WF_frameVars(Hear)
  /\ \A w \in Writers : WF_frameVars(Advance(w) /\ UNCHANGED stream)

FrameSpec == FrameInit /\ [][FrameNext]_frameVars /\ FrameFairness

-----------------------------------------------------------------------------
(* Properties                                                              *)

FrameTypeOK ==
  /\ TypeOK
  /\ bus \in Buses
  /\ line.frame \in DOMAIN Polling /\ line.off \in 1 .. Current.size + 1
  /\ at \in ReadAt
  /\ len \in 0 .. PayloadSize /\ need \in 0 .. len
  /\ source \in Blocks \union {NoBlock}

\* Byte i of frame f may be c on line b.
MayBe(b, f, i, c) == IF i <= Len(f.head) THEN f.head[i] = c ELSE c \in b.octets

\* Frame f has room for a payload of n bytes from byte i + 3 on, and the three bytes
\* before it may be the header of a response with such a payload: sniffer() would read
\* that payload, whatever is in it.
Imitates(b, f, i, n) ==
  /\ i + 2 + n <= f.size
  /\ MayBe(b, f, i, SlaveAddr) /\ MayBe(b, f, i + 1, 3) /\ MayBe(b, f, i + 2, n)

\* The address byte occurs in f at its start only, in a frame whose fixed bytes say,
\* when it is a response, which block it is.
AddressedOnce(b, f) ==
  \A i \in 1 .. f.size :
    MayBe(b, f, i, SlaveAddr) =>
      /\ i = 1 /\ Len(f.head) >= 3 /\ f.size >= 3
      /\ f.head[2] = 3 => BlockOf(f.head[3]) \in {f.block, "other"}

\* On line b the sniffer cannot take other bytes for a response with the given block.
\* When silence separates the frames, a match ends in the frame it started in: no frame
\* may hold an imitation, except the response itself.  When nothing is said of timing,
\* a match may run on into any later frame, and the address byte must not occur in it.
Unmistakable(b, block) ==
  \A k \in DOMAIN Polling :
    LET f == Polling[k] IN
    IF b.quiet
      THEN \A i \in 1 .. f.size, n \in 0 .. PayloadSize :
             BlockOf(n) = block /\ Imitates(b, f, i, n) => i = 1 /\ f.block = block
      ELSE AddressedOnce(b, f)

\* What is stored under a block that cannot be mistaken is a response of that block, from
\* its first payload byte to its last, although frames are found by one address byte and
\* told apart by their length, no CRC is checked, and the sniffer starts and loses its
\* place anywhere (heatpump.c:101-134).
NoForeignData ==
  sniffer = "store" /\ frame # "other" /\ Unmistakable(bus, frame) => source = frame

\* A writer starts to transmit behind an R241 response that the pump really sent, and not
\* behind bytes that look like the start of one: the slot is the pump's
\* (heatpump.c:134-138).  On a line with silence between the frames this holds with the
\* bytes 17, 3, 44 in any payload, because none of the other frames is long enough for
\* the rest.
TrueSlot ==
  [][\A w \in Writers :
       Begin(w) /\ Unmistakable(bus, "R241") => source = "R241"]_frameVars

\* On a quiet line no block is lost for ever behind the sniffer's resynchronisation or
\* behind the writers: each keeps being received, unless bytes are missed again and again
\* for ever.  This is what HealthyBus assumes.
BlocksKeepComing ==
  \A block \in Blocks \ {"other"} :
    bus.quiet /\ sniffer # "exited" =>
      \/ []<>(sniffer = "store" /\ frame = block /\ source = block)
      \/ []<><<PassByte>>_frameVars

=============================================================================
