-------------------------- MODULE FrameSnifferProofs --------------------------
(***************************************************************************)
(* Proofs about FrameSniffer for any polling cycle and any set of writers. *)
(* The bytes only decide when the driver of WriteHandshake takes which     *)
(* step, so all of WriteHandshakeProofs carries over.  What is stored is   *)
(* traced back to the byte at which the sniffer matched the address.       *)
(***************************************************************************)
EXTENDS FrameSniffer, WriteHandshakeProofs, SequenceTheorems

FrameInv == FrameTypeOK /\ line \in [frame : Nat, off : Nat]

-----------------------------------------------------------------------------
(* The byte level implements WriteHandshake                                *)

LEMMA HearStep == Hear => [Next]_vars
  <1> SUFFICES ASSUME Hear PROVE [Next]_vars
    OBVIOUS
  <1>1. CASE WrongAddr \/ WrongFunc \/ TooLong \/ ReadTimeout
    <2>1. Skip
      BY <1>1 DEF WrongAddr, WrongFunc, TooLong, ReadTimeout, Drop
    <2>2. QED
      BY <2>1 DEF Next, Sniff
  <1>2. CASE MatchAddr \/ ReadFunc \/ ReadLen \/ ReadBody \/ NextFrame
    BY <1>2 DEF MatchAddr, ReadFunc, ReadLen, ReadBody, NextFrame
  <1>3. CASE Complete
    <2>1. BlockOf(len) \in Blocks
      BY DEF BlockOf, Blocks
    <2>2. QED
      BY <1>3, <2>1 DEF Complete, Next, Sniff
  <1>4. CASE StoreFrame
    BY <1>4 DEF StoreFrame, Next, Sniff, Handle
  <1>5. QED
    BY <1>1, <1>2, <1>3, <1>4 DEF Hear

LEMMA FrameStep == [FrameNext]_frameVars => [Next]_vars
  <1>1. CASE Grant
    BY <1>1 DEF Grant, Next, Sniff, Handle
  <1>2. CASE \E w \in Writers : WriteStep(w)
    BY <1>2 DEF WriteStep, Next
  <1>3. CASE PassByte \/ UNCHANGED frameVars
    BY <1>3 DEF PassByte, frameVars
  <1>4. QED
    BY <1>1, <1>2, <1>3, HearStep DEF FrameNext

\* The sniffer that reads bytes implements the one that receives blocks: every step of
\* it is a step of WriteHandshake or leaves that module's state alone.
THEOREM BytesImplementBlocks == FrameSpec => Init /\ [][Next]_vars
  <1>1. FrameInit => Init
    BY DEF FrameInit
  <1>2. QED
    BY <1>1, FrameStep, PTL DEF FrameSpec

LEMMA FrameSlotInv == Prompt /\ FrameSpec => []SlotInv
  BY StepsKeepSlot, BytesImplementBlocks, PTL

\* Whatever bytes the line brings and wherever the sniffer starts in them, no two
\* clients drive the line.
THEOREM BytesExclude == Prompt /\ FrameSpec => []OneTransmitter
  BY FrameSlotInv, SlotFacts, PTL

\* Two refinements in a row: the loop of read_frame over bytes gives the line the discipline
\* of BusArbiter, one driver at a time and only from a slot, for any cycle and any losses.
THEOREM BytesImplementArbiter == Prompt /\ FrameSpec => LineDiscipline
  BY StepsImplementArbiter, BytesImplementBlocks, PTL

-----------------------------------------------------------------------------
(* Type correctness                                                        *)

LEMMA PollingFacts ==
  /\ Len(Polling) \in Nat /\ Len(Polling) > 0
  /\ DOMAIN Polling = 1 .. Len(Polling)
  /\ \A k \in DOMAIN Polling : Polling[k] \in FrameT /\ Polling[k].size \in Nat \ {0}
  <1>1. Polling \in Seq(FrameT) /\ Polling # << >>
    BY FrameAssumption
  <1>2. Len(Polling) \in Nat /\ DOMAIN Polling = 1 .. Len(Polling)
    BY <1>1
  <1>3. Len(Polling) > 0
    BY <1>1, <1>2, EmptySeq
  <1>4. \A k \in DOMAIN Polling : Polling[k] \in FrameT
    BY <1>1, <1>2, ElementOfSeq
  <1>5. \A k \in DOMAIN Polling : Polling[k].size \in Nat
    BY <1>4 DEF FrameT
  <1>6. QED
    BY <1>2, <1>3, <1>4, <1>5, FrameAssumption

LEMMA FrameFacts ==
  ASSUME FrameInv
  PROVE  /\ Current \in FrameT
         /\ Incoming \subseteq Octet
         /\ line.off \in Nat /\ line.frame \in 1 .. Len(Polling)
         /\ Current.size \in Nat /\ Current.block \in Blocks \union {NoBlock}
  <1>1. Current \in FrameT /\ line.off \in Nat /\ line.frame \in 1 .. Len(Polling)
    BY PollingFacts DEF FrameInv, FrameTypeOK, Current
  <1>2. bus.octets \subseteq Octet
    BY FrameAssumption DEF FrameInv, FrameTypeOK, BusT
  <1>3. Incoming \subseteq Octet
    <2>1. CASE line.off <= Len(Current.head)
      BY <1>1, <2>1 DEF Incoming, FrameT, FrameInv, FrameTypeOK
    <2>2. CASE ~(line.off <= Len(Current.head))
      BY <1>2, <2>2 DEF Incoming
    <2>3. QED
      BY <2>1, <2>2
  <1>4. QED
    BY <1>1, <1>3 DEF FrameT

LEMMA FrameTypeInit == FrameInit => FrameInv
  <1> SUFFICES ASSUME FrameInit PROVE FrameInv
    OBVIOUS
  <1>1. TypeOK
    BY TypeInit DEF FrameInit
  <1>2. PICK k \in DOMAIN Polling :
          \E i \in IF bus.whole THEN {1} ELSE 1 .. Polling[k].size : line = [frame |-> k, off |-> i]
    BY DEF FrameInit
  <1>3. PICK i \in IF bus.whole THEN {1} ELSE 1 .. Polling[k].size : line = [frame |-> k, off |-> i]
    BY <1>2
  <1>4. k \in Nat /\ Polling[k].size \in Nat /\ Polling[k].size > 0
    BY PollingFacts
  <1>5. i \in 1 .. Polling[k].size
    BY <1>3, <1>4
  <1>6. line \in [frame : Nat, off : Nat] /\ line.off \in 1 .. Current.size + 1
    BY <1>3, <1>4, <1>5 DEF Current
  <1>7. QED
    BY <1>1, <1>3, <1>6 DEF FrameInit, FrameInv, FrameTypeOK, ReadAt, PayloadSize

LEMMA StepForward ==
  ASSUME FrameInv, Step, ~AtEnd
  PROVE  /\ line' \in [frame : Nat, off : Nat]
         /\ line'.frame = line.frame /\ line'.off = line.off + 1
         /\ line'.frame \in DOMAIN Polling /\ Current' = Current
         /\ line'.off \in 1 .. Current'.size + 1
  BY FrameFacts DEF FrameInv, FrameTypeOK, Step, AtEnd, Current

LEMMA FrameTypeStep == FrameInv /\ [FrameNext]_frameVars => FrameInv'
  <1> SUFFICES ASSUME FrameInv, [FrameNext]_frameVars PROVE FrameInv'
    OBVIOUS
  <1>0. TypeOK'
    BY FrameStep, TypeStep DEF FrameInv, FrameTypeOK
  <1> USE DEF FrameInv, FrameTypeOK, ReadAt, PayloadSize
  <1>1. CASE Grant \/ (\E w \in Writers : WriteStep(w)) \/ UNCHANGED frameVars
    <2>1. UNCHANGED stream
      BY <1>1 DEF Grant, WriteStep, frameVars
    <2>2. QED
      BY <1>0, <2>1 DEF stream, Current
  <1>2. CASE NextFrame
    <2>1. (line.frame % Len(Polling)) + 1 \in 1 .. Len(Polling) /\ Len(Polling) \in Nat
      BY FrameFacts, PollingFacts
    <2>2. line'.frame \in DOMAIN Polling /\ line'.off = 1 /\ line' \in [frame : Nat, off : Nat]
      BY <1>2, <2>1, PollingFacts DEF NextFrame
    <2>3. Polling[line'.frame].size \in Nat
      BY <2>2, PollingFacts
    <2>4. line'.off \in 1 .. Current'.size + 1
      BY <2>2, <2>3 DEF Current
    <2>5. QED
      BY <1>0, <1>2, <2>2, <2>4 DEF NextFrame
  <1>3. CASE PassByte \/ WrongAddr \/ ReadFunc \/ ReadBody
    <2>1. Step /\ ~AtEnd
      BY <1>3 DEF PassByte, WrongAddr, ReadFunc, ReadBody, Reading
    <2>2. UNCHANGED << bus, len, source >> /\ need' \in 0 .. len' /\ at' \in ReadAt
      BY <1>3 DEF PassByte, WrongAddr, ReadFunc, ReadBody
    <2>3. QED
      BY <1>0, <2>1, <2>2, StepForward
  <1>4. CASE MatchAddr
    <2>1. Step /\ ~AtEnd /\ source' \in Blocks \union {NoBlock}
      BY <1>4, FrameFacts DEF MatchAddr, Reading
    <2>2. QED
      BY <1>0, <1>4, <2>1, StepForward DEF MatchAddr
  <1>5. CASE WrongFunc \/ TooLong
    <2>1. Step /\ ~AtEnd
      BY <1>5 DEF WrongFunc, TooLong, Reading
    <2>2. QED
      BY <1>0, <1>5, <2>1, StepForward DEF WrongFunc, TooLong, Drop, Forget
  <1>6. CASE ReadLen
    <2>1. Step /\ ~AtEnd /\ at' = "body" /\ UNCHANGED << bus, source >>
      BY <1>6 DEF ReadLen, Reading
    <2>2. PICK c \in Incoming : c <= PayloadSize /\ len' = c /\ need' = c
      BY <1>6 DEF ReadLen
    <2>3. c \in Octet
      BY FrameFacts
    <2>4. c \in Nat
      BY <2>3 DEF Octet
    <2>5. QED
      BY <1>0, <2>1, <2>2, <2>4, StepForward
  <1>7. CASE ReadTimeout \/ Complete \/ StoreFrame
    BY <1>0, <1>7 DEF ReadTimeout, Complete, StoreFrame, Drop, Forget, Current
  <1>8. QED
    BY <1>1, <1>2, <1>3, <1>4, <1>5, <1>6, <1>7 DEF FrameNext, Hear

\* On any line the read position, the length and the bytes still awaited stay within
\* the frame and the payload buffer.
THEOREM FrameTypeCorrect == FrameSpec => []FrameTypeOK
  <1>1. FrameInv => FrameTypeOK
    BY DEF FrameInv
  <1>2. QED
    BY <1>1, FrameTypeInit, FrameTypeStep, PTL DEF FrameSpec

-----------------------------------------------------------------------------
(* What is stored                                                          *)

\* Where in the frame the address byte was that the sniffer is reading behind.
Matched ==
  CASE at = "func" -> line.off - 1
    [] at \in {"len", "wrong"} -> line.off - 2
    [] OTHER -> line.off - 3 - (len - need)

\* On a quiet line what has been read since the match is in one frame, which has these
\* bytes where they were read.
Traced ==
  bus.quiet /\ at # "addr" =>
    /\ Matched >= 1
    /\ MayBe(bus, Current, Matched, SlaveAddr)
    /\ at \in {"len", "body"} => MayBe(bus, Current, Matched + 1, 3)
    /\ at = "body" => MayBe(bus, Current, Matched + 2, len)
    /\ source = IF Matched = 1 THEN Current.block ELSE NoBlock

\* On a line that says nothing of timing but uses the address byte as an address only,
\* the sniffer is at the right byte of the frame it matched.
AddressLine == ~bus.quiet /\ \A k \in DOMAIN Polling : AddressedOnce(bus, Polling[k])

Aligned ==
  AddressLine =>
    /\ at \in {"func", "len"} => MayBe(bus, Current, 1, SlaveAddr) /\ source = Current.block
    /\ at = "func" => line.off = 2
    /\ at = "len" => line.off = 3 /\ Current.head[2] = 3
    /\ at = "body" => BlockOf(len) \in {source, "other"}

\* A block is stored, and the slot behind it opened, with the history it came with.
Sourced ==
  /\ at # "addr" => sniffer = "read"
  /\ sniffer = "store" /\ Unmistakable(bus, frame) => frame \in {source, "other"}
  /\ DataLocked /\ Unmistakable(bus, "R241") => source = "R241"

SourceInv == FrameInv /\ Traced /\ Aligned /\ Sourced

LEMMA SourceInit == FrameInit => SourceInv
  BY FrameTypeInit DEF FrameInit, Init, SourceInv, Traced, Aligned, Sourced, DataLocked

\* What is read may be there.
LEMMA IncomingMayBe ==
  ASSUME FrameInv
  PROVE  \A c \in Incoming : MayBe(bus, Current, line.off, c)
  BY DEF Incoming, MayBe

\* With the address byte in its place only, it is matched at the start of a frame.
LEMMA MatchAtStart ==
  ASSUME AddressLine, FrameInv, ~AtEnd, SlaveAddr \in Incoming
  PROVE  line.off = 1 /\ MayBe(bus, Current, 1, SlaveAddr)
  <1>1. line.frame \in DOMAIN Polling /\ line.off \in 1 .. Current.size
    BY FrameFacts DEF FrameInv, FrameTypeOK, AtEnd
  <1>2. AddressedOnce(bus, Current)
    BY <1>1 DEF AddressLine, Current
  <1>3. MayBe(bus, Current, line.off, SlaveAddr)
    BY <1>1, IncomingMayBe
  <1>4. QED
    BY <1>1, <1>2, <1>3 DEF AddressedOnce

\* The header of a frame that starts with the address byte is fixed, and long enough.
LEMMA CleanHead ==
  ASSUME AddressLine, FrameInv, MayBe(bus, Current, 1, SlaveAddr)
  PROVE  /\ Len(Current.head) \in Nat /\ Len(Current.head) >= 3 /\ Current.size >= 3
         /\ Current.head[2] = 3 => BlockOf(Current.head[3]) \in {Current.block, "other"}
  <1>1. line.frame \in DOMAIN Polling /\ 1 \in 1 .. Current.size /\ Len(Current.head) \in Nat
    BY FrameFacts, PollingFacts DEF FrameInv, FrameTypeOK, Current, FrameT
  <1>2. AddressedOnce(bus, Current)
    BY <1>1 DEF AddressLine, Current
  <1>3. QED
    BY <1>1, <1>2 DEF AddressedOnce

-----------------------------------------------------------------------------
(* A complete payload, traced back                                         *)

LEMMA LastByte ==
  ASSUME FrameInv, at = "body", need = 0, Matched >= 1
  PROVE  /\ Matched \in 1 .. Current.size
         /\ Matched + 2 + len <= Current.size
         /\ len \in 0 .. PayloadSize
  <1>1. /\ line.off \in Nat /\ Current.size \in Nat /\ line.off <= Current.size + 1
        /\ len \in Nat /\ need = 0 /\ len \in 0 .. PayloadSize
    BY FrameFacts DEF FrameInv, FrameTypeOK, PayloadSize
  <1>2. Matched = line.off - 3 - len
    BY <1>1 DEF Matched
  <1>3. QED
    BY <1>1, <1>2

\* On a line where the block cannot be mistaken, the bytes read are its response.
LEMMA CompleteIsTrue ==
  ASSUME SourceInv, at = "body", need = 0, Unmistakable(bus, BlockOf(len))
  PROVE  BlockOf(len) \in {source, "other"}
  <1>0. FrameInv /\ Traced /\ Aligned
    BY DEF SourceInv
  <1>1. line.frame \in DOMAIN Polling /\ bus \in BusT
    BY <1>0, FrameAssumption DEF FrameInv, FrameTypeOK
  <1>2. CASE bus.quiet
    <2>1. /\ Matched >= 1
          /\ MayBe(bus, Current, Matched, SlaveAddr) /\ MayBe(bus, Current, Matched + 1, 3)
          /\ MayBe(bus, Current, Matched + 2, len)
          /\ source = IF Matched = 1 THEN Current.block ELSE NoBlock
      BY <1>0, <1>2 DEF Traced
    <2>2. /\ Matched \in 1 .. Current.size /\ Matched + 2 + len <= Current.size
          /\ len \in 0 .. PayloadSize
      BY <1>0, <2>1, LastByte
    <2>3. Imitates(bus, Current, Matched, len)
      BY <2>1, <2>2 DEF Imitates
    <2>4. Matched = 1 /\ Current.block = BlockOf(len)
      <3>1. \A i \in 1 .. Current.size, n \in 0 .. PayloadSize :
              BlockOf(n) = BlockOf(len) /\ Imitates(bus, Current, i, n)
                => i = 1 /\ Current.block = BlockOf(len)
        BY <1>1, <1>2 DEF Unmistakable, Current
      <3>2. QED
        BY <2>2, <2>3, <3>1
    <2>5. QED
      BY <2>1, <2>4
  <1>3. CASE ~bus.quiet
    <2>1. AddressLine
      BY <1>3 DEF Unmistakable, AddressLine
    <2>2. QED
      BY <1>0, <2>1 DEF Aligned
  <1>4. QED
    BY <1>2, <1>3

-----------------------------------------------------------------------------
(* The steps                                                               *)

\* Reading on inside a match moves both ends of it by one byte.
LEMMA TracedFunc ==
  ASSUME SourceInv, ReadFunc
  PROVE  Traced'
  <1>0. FrameInv /\ Traced /\ Step /\ ~AtEnd /\ at = "func"
    BY DEF SourceInv, ReadFunc, Reading
  <1>1. /\ Current' = Current /\ line'.off = line.off + 1 /\ line.off \in Nat
        /\ UNCHANGED << bus, len, need, source >>
    BY <1>0, StepForward, FrameFacts DEF ReadFunc
  <1>2. PICK c \in Incoming : at' = IF c = 3 THEN "len" ELSE "wrong"
    BY DEF ReadFunc
  <1>3. Matched = line.off - 1 /\ Matched' = Matched
    BY <1>0, <1>1, <1>2 DEF Matched
  <1>4. MayBe(bus, Current, Matched + 1, c)
    BY <1>0, <1>1, <1>3, IncomingMayBe
  <1>5. MayBe(bus, Current, Matched + 1, 3) \/ at' = "wrong"
    BY <1>2, <1>4
  <1>6. at' # "body" /\ (at' \in {"len", "body"} => MayBe(bus, Current, Matched + 1, 3))
    BY <1>2, <1>5
  <1> HIDE DEF Matched
  <1>7. QED
    BY <1>0, <1>1, <1>3, <1>6 DEF Traced

LEMMA TracedLen ==
  ASSUME SourceInv, ReadLen
  PROVE  Traced'
  <1>0. FrameInv /\ Traced /\ Step /\ ~AtEnd /\ at = "len" /\ at' = "body"
    BY DEF SourceInv, ReadLen, Reading
  <1>1. /\ Current' = Current /\ line'.off = line.off + 1 /\ line.off \in Nat
        /\ UNCHANGED << bus, source >>
    BY <1>0, StepForward, FrameFacts DEF ReadLen
  <1>2. PICK c \in Incoming : len' = c /\ need' = c
    BY DEF ReadLen
  <1>3. c \in Nat
    <2>1. c \in Octet
      BY <1>0, <1>2, FrameFacts
    <2>2. QED
      BY <2>1 DEF Octet
  <1>4. Matched = line.off - 2 /\ Matched' = Matched
    BY <1>0, <1>1, <1>2, <1>3 DEF Matched
  <1>5. MayBe(bus, Current, Matched + 2, len')
    BY <1>0, <1>1, <1>2, <1>4, IncomingMayBe
  <1> HIDE DEF Matched
  <1>6. QED
    BY <1>0, <1>1, <1>4, <1>5 DEF Traced

LEMMA TracedBody ==
  ASSUME SourceInv, ReadBody
  PROVE  Traced'
  <1>0. FrameInv /\ Traced /\ Step /\ ~AtEnd /\ at = "body" /\ at' = at
    BY DEF SourceInv, ReadBody, Reading
  <1>1. /\ Current' = Current /\ line'.off = line.off + 1 /\ line.off \in Nat
        /\ UNCHANGED << bus, len, source >> /\ need' = need - 1
        /\ len \in Nat /\ need \in Nat
    BY <1>0, StepForward, FrameFacts DEF ReadBody, FrameInv, FrameTypeOK, PayloadSize
  <1>2. Matched' = Matched
    BY <1>0, <1>1 DEF Matched
  <1> HIDE DEF Matched
  <1>3. QED
    BY <1>0, <1>1, <1>2 DEF Traced

LEMMA TracedMatch ==
  ASSUME SourceInv, MatchAddr
  PROVE  Traced'
  <1>0. FrameInv /\ Step /\ ~AtEnd /\ at' = "func" /\ SlaveAddr \in Incoming
    BY DEF SourceInv, MatchAddr, Reading
  <1>1. /\ Current' = Current /\ line'.off = line.off + 1
        /\ line.off \in Nat /\ line.off >= 1 /\ bus' = bus
        /\ source' = IF line.off = 1 THEN Current.block ELSE NoBlock
    BY <1>0, StepForward, FrameFacts DEF MatchAddr, FrameInv, FrameTypeOK
  <1>2. Matched' = line.off
    BY <1>0, <1>1 DEF Matched
  <1>3. MayBe(bus, Current, line.off, SlaveAddr)
    BY <1>0, IncomingMayBe
  <1> HIDE DEF Matched
  <1>4. QED
    BY <1>0, <1>1, <1>2, <1>3 DEF Traced

LEMMA SourceStep == SourceInv /\ [FrameNext]_frameVars => SourceInv'
  <1> SUFFICES ASSUME SourceInv, [FrameNext]_frameVars PROVE Traced' /\ Aligned' /\ Sourced'
    BY FrameTypeStep DEF SourceInv
  <1>0. FrameInv /\ Traced /\ Aligned /\ Sourced
    BY DEF SourceInv
  <1>a. bus' = bus /\ (AddressLine' <=> AddressLine)
    <2>1. bus' = bus
      BY DEF FrameNext, Grant, Hear, PassByte, WriteStep, frameVars, stream, WrongAddr, MatchAddr,
         ReadFunc, WrongFunc, TooLong, ReadLen, ReadBody, ReadTimeout, Complete, StoreFrame,
         NextFrame
    <2>2. QED
      BY <2>1 DEF AddressLine
  <1>b. \A block : Unmistakable(bus', block) <=> Unmistakable(bus, block)
    BY <1>a
  <1>1. CASE Grant
    <2>1. UNCHANGED stream /\ sniffer # "read" /\ sniffer' # "store"
      BY <1>1 DEF Grant, Listen, NobodyAsks, SomebodyAsks, GiveTo, GiveToNobody, Wake, Turn
    <2>2. DataLocked' => DataLocked
      BY <1>1 DEF Grant, Listen, NobodyAsks, SomebodyAsks, GiveTo, GiveToNobody, Wake, Turn,
         DataLocked
    <2>3. at = "addr" /\ at' = "addr"
      BY <1>0, <2>1 DEF Sourced, stream
    <2>4. QED
      BY <1>0, <1>b, <2>1, <2>2, <2>3 DEF Traced, Aligned, Sourced, stream
  <1>2. CASE (\E w \in Writers : WriteStep(w)) \/ UNCHANGED frameVars
    <2>1. UNCHANGED << stream, sniffer, frame >>
      BY <1>2 DEF frameVars, vars, WriteStep, Write, Advance, Call, Encode, NoIface, Reset, Raise,
         TakeToken, Block, Timeout, Withdraw, Begin, Drive, Send, Release, Clear
    <2>2. Current' = Current /\ Matched' = Matched /\ (DataLocked' <=> DataLocked)
      BY <2>1 DEF Current, Matched, stream, DataLocked
    <2>3. Traced'
      BY <1>0, <2>1, <2>2 DEF Traced, stream
    <2>4. QED
      BY <1>0, <1>a, <1>b, <2>1, <2>2, <2>3 DEF Aligned, Sourced, stream
  <1>3. CASE NextFrame
    <2>1. UNCHANGED << at, len, need, source, sniffer, frame >> /\ (DataLocked' <=> DataLocked)
      BY <1>3 DEF NextFrame, vars, DataLocked
    <2>2. Traced'
      BY <1>3, <1>a, <2>1 DEF NextFrame, Traced
    <2>3. AddressLine => ~(at \in {"func", "len"})
      BY <1>0, <1>3, CleanHead, FrameFacts DEF NextFrame, AtEnd, Aligned
    <2>4. Aligned'
      BY <1>0, <1>a, <2>1, <2>3 DEF Aligned
    <2>5. QED
      BY <1>0, <1>b, <2>1, <2>2, <2>4 DEF Sourced
  <1>4. CASE PassByte \/ WrongAddr
    <2>1. at = "addr" /\ at' = "addr" /\ UNCHANGED << source, frame >>
      BY <1>0, <1>4 DEF PassByte, WrongAddr, Reading, Sourced, Skip, vars
    <2>2. sniffer' = sniffer \/ sniffer' = "top"
      BY <1>4 DEF PassByte, WrongAddr, Skip, Turn, vars
    <2>3. QED
      BY <1>0, <1>b, <2>1, <2>2 DEF Traced, Aligned, Sourced, DataLocked
  <1>5. CASE MatchAddr
    <2>1. AddressLine => line.off = 1 /\ MayBe(bus, Current, 1, SlaveAddr)
      BY <1>0, <1>5, MatchAtStart DEF MatchAddr, Reading
    <2>2. /\ Current' = Current /\ line'.off = line.off + 1 /\ at' = "func"
          /\ source' = IF line.off = 1 THEN Current.block ELSE NoBlock
      BY <1>0, <1>5, StepForward DEF MatchAddr, Reading
    <2>3. sniffer' = "read"
      BY <1>5 DEF MatchAddr, Reading, vars
    <2>4. Aligned'
      BY <1>a, <2>1, <2>2 DEF Aligned
    <2>5. QED
      BY <1>5, <2>2, <2>3, <2>4, TracedMatch DEF Sourced, DataLocked
  <1>6. CASE ReadFunc
    <2>1. Current' = Current /\ line'.off = line.off + 1 /\ source' = source /\ sniffer' = "read"
      BY <1>0, <1>6, StepForward DEF ReadFunc, Reading, vars
    <2>2. at = "func" /\ at' \in {"len", "wrong"}
      BY <1>6 DEF ReadFunc, Reading
    <2>3. AddressLine => /\ line.off = 2 /\ MayBe(bus, Current, 1, SlaveAddr)
                         /\ source = Current.block
      BY <1>0, <2>2 DEF Aligned
    <2>4. AddressLine => Incoming = {Current.head[2]}
      BY <1>0, <2>3, CleanHead DEF Incoming
    <2>5. AddressLine => (at' = "len" => Current.head[2] = 3)
      BY <1>6, <2>4 DEF ReadFunc
    <2>6. Aligned'
      BY <1>a, <2>1, <2>2, <2>3, <2>5 DEF Aligned
    <2>7. QED
      BY <1>6, <2>1, <2>6, TracedFunc DEF Sourced, DataLocked
  <1>7. CASE ReadLen
    <2>1. at = "len" /\ at' = "body" /\ sniffer' = "read" /\ source' = source
      BY <1>7 DEF ReadLen, Reading, vars
    <2>2. AddressLine => /\ line.off = 3 /\ source = Current.block
                         /\ MayBe(bus, Current, 1, SlaveAddr) /\ Current.head[2] = 3
      BY <1>0, <2>1 DEF Aligned
    <2>3. AddressLine => Incoming = {Current.head[3]}
      BY <1>0, <2>2, CleanHead DEF Incoming
    <2>4. AddressLine => BlockOf(len') \in {source', "other"}
      BY <1>0, <1>7, <2>1, <2>2, <2>3, CleanHead DEF ReadLen
    <2>5. Aligned'
      BY <1>a, <2>1, <2>4 DEF Aligned
    <2>6. QED
      BY <1>7, <2>1, <2>5, TracedLen DEF Sourced, DataLocked
  <1>8. CASE ReadBody
    <2>1. at = "body" /\ UNCHANGED << at, len, source, sniffer, frame >> /\ sniffer = "read"
      BY <1>8 DEF ReadBody, Reading, vars
    <2>2. Aligned'
      BY <1>0, <1>a, <2>1 DEF Aligned
    <2>3. QED
      BY <1>8, <2>1, <2>2, TracedBody DEF Sourced, DataLocked
  <1>9. CASE WrongFunc \/ TooLong \/ ReadTimeout
    <2>1. sniffer' = "top" /\ at' = "addr"
      BY <1>9 DEF WrongFunc, TooLong, ReadTimeout, Drop, Skip, Turn, Forget
    <2>2. QED
      BY <2>1 DEF Traced, Aligned, Sourced, DataLocked
  <1>10. CASE Complete
    <2>1. sniffer' = "store" /\ at' = "addr" /\ frame' = BlockOf(len) /\ source' = source
      BY <1>10 DEF Complete, Receive, Turn, Forget
    <2>2. Unmistakable(bus, BlockOf(len)) => BlockOf(len) \in {source, "other"}
      BY <1>10, CompleteIsTrue DEF Complete
    <2>3. QED
      BY <1>b, <2>1, <2>2 DEF Traced, Aligned, Sourced, DataLocked
  <1>11. CASE StoreFrame
    <2>1. /\ sniffer = "store" /\ frame' = frame /\ at' = at
          /\ sniffer' = IF frame = "R241" THEN "check" ELSE "top"
          /\ frame = "R241" => source' = source
      BY <1>11 DEF StoreFrame, Store, Turn
    <2>2. at = "addr"
      BY <1>0, <2>1 DEF Sourced
    <2>3. frame = "R241" /\ Unmistakable(bus, "R241") => source = "R241"
      BY <1>0, <2>1 DEF Sourced
    <2>4. QED
      BY <1>b, <2>1, <2>2, <2>3 DEF Traced, Aligned, Sourced, DataLocked
  <1>12. QED
    BY <1>1, <1>2, <1>3, <1>4, <1>5, <1>6, <1>7, <1>8, <1>9, <1>10, <1>11 DEF FrameNext, Hear

LEMMA SourceInvariant == FrameSpec => []SourceInv
  BY SourceInit, SourceStep, PTL DEF FrameSpec

\* Without a CRC the sniffer stores the registers of a block only from a response of that
\* block, whatever the payloads hold, wherever it starts, however often it loses its
\* place and whatever it misses, on every line and cycle in which no other stretch of
\* bytes can be read as that response: with silence between the frames, none inside a
\* frame; without, none behind an address byte in any frame.
THEOREM StoredIsReceived == FrameSpec => []NoForeignData
  <1>1. SourceInv => NoForeignData
    BY DEF SourceInv, Sourced, NoForeignData
  <1>2. QED
    BY <1>1, SourceInvariant, PTL

\* Under the same condition on R241 alone a writer starts only behind an R241 response
\* that the pump sent, whatever the other blocks may be taken for.
THEOREM SlotIsTrue == Prompt /\ FrameSpec => TrueSlot
  <1>1. SlotInv /\ SourceInv
          => \A w \in Writers : Begin(w) /\ Unmistakable(bus, "R241") => source = "R241"
    BY BeginInSlot DEF SourceInv, Sourced, DataLocked
  <1>2. SlotInv /\ SourceInv /\ [FrameNext]_frameVars
        => [\A w \in Writers :
              Begin(w) /\ Unmistakable(bus, "R241") => source = "R241"]_frameVars
    BY <1>1
  <1>3. QED
    BY <1>2, FrameSlotInv, SourceInvariant, PTL DEF FrameSpec, TrueSlot

=============================================================================
