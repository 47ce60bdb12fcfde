-------------------------- MODULE HeatpumpDriverProofs --------------------------
(***************************************************************************)
(* Proofs about HeatpumpDriver: it keeps the discipline of WriteHandshake, *)
(* and what a frame does to the pump follows from RegisterCodecProofs.     *)
(***************************************************************************)
EXTENDS HeatpumpDriver, WriteHandshakeProofs, RegisterCodecProofs

-----------------------------------------------------------------------------
(* The control is that of WriteHandshake                                   *)

LEMMA DriverStep == [DriverNext]_driverVars => [Next]_vars
  <1> SUFFICES ASSUME [DriverNext]_driverVars PROVE [Next]_vars
    OBVIOUS
  <1>1. ASSUME NEW w \in Writers,
               Reject(w) \/ Ask(w) \/ EncodeFrame(w) \/ Proceed(w)
        PROVE  [Next]_vars
    BY <1>1 DEF Reject, Ask, EncodeFrame, Proceed, Negotiate, SendFrame, Return,
       Next, Write, Advance
  <1>2. CASE Serve \/ DropBytes \/ TurnKnob \/ \E block \in Blocks : ReceiveBlock(block)
    BY <1>2 DEF Serve, Grant, StoreBlock, DropBytes, TurnKnob, ReceiveBlock, Next, Sniff, Handle
  <1>3. CASE UNCHANGED driverVars
    BY <1>3 DEF driverVars
  <1>4. QED
    BY <1>1, <1>2, <1>3 DEF DriverNext

\* The driver with its data implements the one without: each step of it is a step of
\* WriteHandshake or changes data only.
THEOREM DriverImplementsHandshake == DriverSpec => Init /\ [][Next]_vars
  <1>1. DriverInit => Init
    BY DEF DriverInit
  <1>2. QED
    BY <1>1, DriverStep, PTL DEF DriverSpec

\* With the data added, two clients still never drive the line at once, the sniffer
\* still keeps off it, and the flags still match it.
THEOREM DriverKeepsDiscipline ==
  Prompt /\ DriverSpec => [](OneTransmitter /\ QuietLine /\ FlagsMatchLine)
  <1>1. Prompt /\ DriverSpec => []SlotInv
    BY StepsKeepSlot, DriverImplementsHandshake, PTL
  <1>2. QED
    BY <1>1, SlotFacts, PTL

\* And the line keeps the discipline of BusArbiter, whatever commands are encoded, lost on
\* the line or returned from, and whoever turns the knobs of the pump.
THEOREM DriverImplementsArbiter == Prompt /\ DriverSpec => LineDiscipline /\ SlotOnly
  BY StepsImplementArbiter, StepsOnlyInSlot, DriverImplementsHandshake, PTL

-----------------------------------------------------------------------------
(* What a frame does to the pump                                           *)

\* Both ways in which the pump may take over a block of settings: each setting is the
\* block's or stays, and the one that the flag of the block names is the block's.
LEMMA BlockTaken ==
  ASSUME NEW p \in PumpImage, NEW s \in R101T,
         NEW q \in {TakeBlock(p, [R101 |-> s]), TakeField(p, [R101 |-> s])}
  PROVE  LET now == Settings(p.R101)  then == Settings(q.R101)  block == Settings(s)
         IN  /\ q.R201 = p.R201
             /\ then.status \in {now.status, block.status} /\ then.ch \in {now.ch, block.ch}
             /\ then.comp \in {now.comp, block.comp} /\ then.dhw \in {now.dhw, block.dhw}
             /\ then.dhw_comp \in {now.dhw_comp, block.dhw_comp}
             /\ Hi(s[4]) = 2 => then.dhw = block.dhw
             /\ Hi(s[4]) # 2 /\ Hi(s[0]) = 4 => then.ch = block.ch
             /\ Hi(s[4]) # 2 /\ Hi(s[0]) # 4 => then.status = block.status
  <1> DEFINE cur == p.R101
  <1>1. cur \in R101T /\ p.R201 \in Word /\ p = [R101 |-> cur, R201 |-> p.R201]
    BY DEF PumpImage, Block101
  <1>2. /\ \A i \in 0..5 : cur[i] \in Word /\ s[i] \in Word
        /\ \A a \in Word : Hi(a) \in Byte /\ Lo(a) \in Byte
    BY <1>1, WordSplit DEF R101T
  <1> HIDE DEF cur
  <1> USE DEF get_ch_temp, get_temp_compensation, get_dhw_target_temp, get_dhw_compensation
  <1>3. CASE q = TakeBlock(p, [R101 |-> s])
    <2>1. q = [R101 |-> Kept(s), R201 |-> p.R201]
      BY <1>1, <1>3 DEF TakeBlock
    <2>2. QED
      BY <2>1, KeptSettings DEF Settings
  <1>4. CASE q = TakeField(p, [R101 |-> s])
    <2>1. CASE Hi(s[4]) = 2
      <3> DEFINE b == [cur EXCEPT ![5] = Pack(Hi(s[5]), Lo(@))]
      <3>1. q = [R101 |-> b, R201 |-> p.R201]
        BY <1>1, <1>4, <2>1 DEF TakeField
      <3>2. Pack(Hi(s[5]), Lo(cur[5])) \in Word
            /\ Hi(Pack(Hi(s[5]), Lo(cur[5]))) = Hi(s[5])
            /\ Lo(Pack(Hi(s[5]), Lo(cur[5]))) = Lo(cur[5])
        BY <1>2, PackParts
      <3>3. /\ b \in R101T /\ b[0] = cur[0] /\ b[1] = cur[1]
            /\ Hi(b[5]) = Hi(s[5]) /\ Lo(b[5]) = Lo(cur[5])
        BY <1>1, <3>2 DEF R101T
      <3>4. get_state(b) = get_state(cur)
        BY <3>3 DEF get_state
      <3> HIDE DEF b
      <3>5. QED
        BY <2>1, <3>1, <3>3, <3>4 DEF cur, Settings
    <2>2. CASE Hi(s[4]) # 2 /\ Hi(s[0]) = 4
      <3> DEFINE b == [cur EXCEPT ![1] = Pack(Hi(s[1]), Lo(@))]
      <3>1. q = [R101 |-> b, R201 |-> p.R201]
        BY <1>1, <1>4, <2>2 DEF TakeField
      <3>2. Pack(Hi(s[1]), Lo(cur[1])) \in Word
            /\ Hi(Pack(Hi(s[1]), Lo(cur[1]))) = Hi(s[1])
            /\ Lo(Pack(Hi(s[1]), Lo(cur[1]))) = Lo(cur[1])
        BY <1>2, PackParts
      <3>3. /\ b \in R101T /\ b[0] = cur[0] /\ b[5] = cur[5]
            /\ Hi(b[1]) = Hi(s[1]) /\ Lo(b[1]) = Lo(cur[1])
        BY <1>1, <3>2 DEF R101T
      <3>4. get_state(b) = get_state(cur)
        BY <3>3 DEF get_state
      <3> HIDE DEF b
      <3>5. QED
        BY <2>2, <3>1, <3>3, <3>4 DEF cur, Settings
    <2>3. CASE Hi(s[4]) # 2 /\ Hi(s[0]) # 4
      <3> DEFINE b == [cur EXCEPT ![0] = Lo(s[0])]
      <3>1. q = [R101 |-> b, R201 |-> p.R201]
        BY <1>1, <1>4, <2>3 DEF TakeField
      <3>2. Lo(s[0]) \in Word
        BY <1>2, LowWord
      <3>3. b \in R101T /\ b[0] = Lo(s[0]) /\ b[5] = cur[5] /\ b[1] = cur[1]
        BY <1>1, <3>2 DEF R101T
      <3>4. s[0] \in Word /\ 0 \in Byte /\ b[0] = 256 * 0 + Lo(s[0])
        BY <1>2, <3>3, WordSplit DEF Byte
      <3> HIDE DEF b
      <3>5. get_state(b) = get_state(s)
        BY <3>4, SameStatus
      <3>6. QED
        BY <2>3, <3>1, <3>3, <3>5 DEF cur, Settings
    <2>4. QED
      BY <2>1, <2>2, <2>3
  <1>5. QED
    BY <1>3, <1>4

\* What the frame of a command does to the pump, from the exactness of the encoders: g is
\* the registers it was encoded from, p those of the pump.
LEMMA FrameEffect ==
  ASSUME NEW p \in PumpImage, NEW g \in PumpImage, NEW c, InRange(c), SwitchesPump(c, g),
         NEW q \in {TakeBlock(p, Frame(c, g)), TakeField(p, Frame(c, g))}
  PROVE  LET asked == Commanded(PumpSettings(g), c)
         IN  TakenOver(PumpSettings(p), PumpSettings(q), asked) /\ Obeyed(c, PumpSettings(q), asked)
  <1> DEFINE cur == g.R101
             asked == Commanded(PumpSettings(g), c)
  <1>1. cur \in R101T /\ p.R101 \in R101T
    BY DEF PumpImage, Block101
  <1>2. ASSUME NEW s \in R101T, Frame(c, g) = [R101 |-> s], asked.r101 = Settings(s),
               \/ c.op = "ch" /\ Hi(s[4]) # 2 /\ Hi(s[0]) = 4
               \/ c.op = "dhw" /\ Hi(s[4]) = 2
               \/ c.op = "state" /\ Hi(s[4]) # 2 /\ Hi(s[0]) # 4
        PROVE  TakenOver(PumpSettings(p), PumpSettings(q), asked)
               /\ Obeyed(c, PumpSettings(q), asked)
    <2> HIDE DEF asked, cur
    <2>1. /\ PumpSettings(p).r101 = Settings(p.R101) /\ PumpSettings(q).r101 = Settings(q.R101)
          /\ PumpSettings(p).mode = get_mode(p.R201) /\ PumpSettings(q).mode = get_mode(q.R201)
      BY DEF PumpSettings
    <2>2. DOMAIN Settings(p.R101) = {"status", "ch", "comp", "dhw", "dhw_comp"}
      BY DEF Settings
    <2>3. q \in {TakeBlock(p, [R101 |-> s]), TakeField(p, [R101 |-> s])}
      BY <1>2
    <2>4. TakenOver(PumpSettings(p), PumpSettings(q), asked)
      BY <1>2, <2>1, <2>2, <2>3, BlockTaken DEF TakenOver
    <2>5. Obeyed(c, PumpSettings(q), asked)
      BY <1>2, <2>1, <2>3, BlockTaken DEF Obeyed
    <2>6. QED
      BY <2>4, <2>5
  <1>3. CASE c.op = "ch" /\ c.temp \in 60 .. 500
    <2> DEFINE s == set_ch_temp(cur, c.temp)
    <2>1. Frame(c, g) = [R101 |-> s]
      BY <1>3 DEF Frame
    <2>2. s \in R101T /\ Hi(s[0]) = 4 /\ Hi(s[4]) = 0
      BY <1>1, <1>3, ChBlock
    <2>3. Settings(s) = [Settings(cur) EXCEPT !.ch = 5 * (c.temp \div 5)]
      BY <1>1, <1>3, SetChTempExact
    <2> HIDE DEF s
    <2>4. asked.r101 = Settings(s)
      BY <1>3, <2>3 DEF Commanded, PumpSettings
    <2>5. QED
      BY <1>2, <1>3, <2>1, <2>2, <2>4
  <1>4. CASE c.op = "dhw" /\ c.temp \in 60 .. 500
    <2> DEFINE s == set_dhw_temp(cur, c.temp)
    <2>1. Frame(c, g) = [R101 |-> s]
      BY <1>4 DEF Frame
    <2>2. s \in R101T /\ Hi(s[4]) = 2
      BY <1>1, <1>4, DhwBlock
    <2>3. Settings(s) = [Settings(cur) EXCEPT !.dhw = 5 * (c.temp \div 5)]
      BY <1>1, <1>4, SetDhwTempExact
    <2> HIDE DEF s
    <2>4. asked.r101 = Settings(s)
      BY <1>4, <2>3 DEF Commanded, PumpSettings
    <2>5. QED
      BY <1>2, <1>4, <2>1, <2>2, <2>4
  <1>5. CASE c.op = "state" /\ c.state \in States
    <2> DEFINE s == set_state(cur, c.state)
    <2>1. Frame(c, g) = [R101 |-> s]
      BY <1>5 DEF Frame
    <2>2. s \in R101T /\ Hi(s[0]) # 4 /\ Hi(s[4]) # 2
      BY <1>1, <1>5, StateBlock
    <2>3. Settings(s) = [Settings(cur) EXCEPT !.status = Wanted(c.state, get_state(cur))]
      BY <1>1, <1>5, SetStateExact DEF SwitchesPump
    <2>4. Settings(cur).status = get_state(cur)
      BY DEF Settings
    <2> HIDE DEF s
    <2>5. asked.r101 = Settings(s)
      BY <1>5, <2>3, <2>4 DEF Commanded, PumpSettings
    <2>6. QED
      BY <1>2, <1>5, <2>1, <2>2, <2>5
  <1>6. CASE c.op = "mode" /\ c.mode \in Modes
    <2>1. Frame(c, g) = [R201 |-> set_mode(c.mode)]
      BY <1>6 DEF Frame
    <2>2. q.R101 = p.R101 /\ q.R201 = Lo(set_mode(c.mode))
      BY <2>1 DEF TakeBlock, TakeField, PumpImage
    <2>3. get_mode(Lo(set_mode(c.mode))) = c.mode
      BY <1>6, ModeWord
    <2>4. asked.mode = c.mode
      BY <1>6 DEF Commanded, PumpSettings
    <2>5. PumpSettings(q).r101 = PumpSettings(p).r101 /\ PumpSettings(q).mode = asked.mode
      BY <2>2, <2>3, <2>4 DEF PumpSettings
    <2>6. QED
      BY <1>6, <2>5 DEF TakenOver, Obeyed
  <1>7. QED
    BY <1>3, <1>4, <1>5, <1>6 DEF InRange

\* A frame that changes what its command is named for, and brings back nothing that is
\* not the pump's, has the effect of the command.
LEMMA FreshEffect ==
  ASSUME NEW p \in PumpImage, NEW q, NEW c, InRange(c),
         LET asked == Commanded(PumpSettings(p), c)
         IN  TakenOver(PumpSettings(p), PumpSettings(q), asked) /\ Obeyed(c, PumpSettings(q), asked)
  PROVE  PumpSettings(q) = Commanded(PumpSettings(p), c)
  <1> DEFINE now == Settings(p.R101)
             new == Settings(q.R101)
             asked == Commanded(PumpSettings(p), c)
  <1> SUFFICES PumpSettings(q) = asked
    OBVIOUS
  <1>1. /\ PumpSettings(p) = [r101 |-> now, mode |-> get_mode(p.R201)]
        /\ PumpSettings(q) = [r101 |-> new, mode |-> get_mode(q.R201)]
    BY DEF PumpSettings
  <1>2. /\ now = [status |-> now.status, ch |-> now.ch, comp |-> now.comp,
                  dhw |-> now.dhw, dhw_comp |-> now.dhw_comp]
        /\ new = [status |-> new.status, ch |-> new.ch, comp |-> new.comp,
                  dhw |-> new.dhw, dhw_comp |-> new.dhw_comp]
        /\ DOMAIN now = {"status", "ch", "comp", "dhw", "dhw_comp"}
    BY DEF Settings
  <1>3. TakenOver(PumpSettings(p), PumpSettings(q), asked) /\ Obeyed(c, PumpSettings(q), asked)
    OBVIOUS
  <1>4. asked = CASE c.op = "ch"    -> [r101 |-> [now EXCEPT !.ch = 5 * (c.temp \div 5)],
                                        mode |-> get_mode(p.R201)]
                  [] c.op = "dhw"   -> [r101 |-> [now EXCEPT !.dhw = 5 * (c.temp \div 5)],
                                        mode |-> get_mode(p.R201)]
                  [] c.op = "state" -> [r101 |-> [now EXCEPT !.status = Wanted(c.state, @)],
                                        mode |-> get_mode(p.R201)]
                  [] c.op = "mode"  -> [r101 |-> now, mode |-> c.mode]
    BY <1>1 DEF InRange, Commanded
  <1> HIDE DEF now, new, asked
  <1>5. /\ get_mode(q.R201) \in {get_mode(p.R201), asked.mode}
        /\ new.status \in {now.status, asked.r101.status} /\ new.ch \in {now.ch, asked.r101.ch}
        /\ new.comp \in {now.comp, asked.r101.comp} /\ new.dhw \in {now.dhw, asked.r101.dhw}
        /\ new.dhw_comp \in {now.dhw_comp, asked.r101.dhw_comp}
    BY <1>1, <1>2, <1>3 DEF TakenOver
  <1>6. CASE c.op = "ch"
    <2>1. new.ch = asked.r101.ch
      BY <1>1, <1>3, <1>6 DEF Obeyed
    <2>2. QED
      BY <1>1, <1>2, <1>4, <1>5, <1>6, <2>1
  <1>7. CASE c.op = "dhw"
    <2>1. new.dhw = asked.r101.dhw
      BY <1>1, <1>3, <1>7 DEF Obeyed
    <2>2. QED
      BY <1>1, <1>2, <1>4, <1>5, <1>7, <2>1
  <1>8. CASE c.op = "state"
    <2>1. new.status = asked.r101.status
      BY <1>1, <1>3, <1>8 DEF Obeyed
    <2>2. QED
      BY <1>1, <1>2, <1>4, <1>5, <1>8, <2>1
  <1>9. CASE c.op = "mode"
    <2>1. get_mode(q.R201) = asked.mode
      BY <1>1, <1>3, <1>9 DEF Obeyed
    <2>2. QED
      BY <1>1, <1>2, <1>4, <1>5, <1>9, <2>1
  <1>10. QED
    BY <1>6, <1>7, <1>8, <1>9 DEF InRange

-----------------------------------------------------------------------------
(* Types of the data                                                       *)

Frames == PumpImage \union [R101 : Block101] \union [R201 : Word]

LEMMA FrameType ==
  ASSUME NEW c, InRange(c), NEW regs \in PumpImage
  PROVE  Frame(c, regs) \in Frames
  <1>1. regs.R101 \in R101T
    BY DEF PumpImage, Block101
  <1>2. CASE c.op = "ch" /\ c.temp \in 60 .. 500
    BY <1>1, <1>2, ChBlock DEF Frame, Frames, Block101
  <1>3. CASE c.op = "dhw" /\ c.temp \in 60 .. 500
    BY <1>1, <1>3, DhwBlock DEF Frame, Frames, Block101
  <1>4. CASE c.op = "state" /\ c.state \in States
    BY <1>1, <1>4, StateBlock DEF Frame, Frames, Block101
  <1>5. CASE c.op = "mode" /\ c.mode \in Modes
    BY <1>5, ModeWord DEF Frame, Frames
  <1>6. QED
    BY <1>2, <1>3, <1>4, <1>5 DEF InRange

LEMMA TakenType ==
  ASSUME NEW p \in PumpImage, NEW f \in Frames
  PROVE  TakeBlock(p, f) \in PumpImage /\ TakeField(p, f) \in PumpImage
  <1>1. p.R101 \in R101T /\ p.R201 \in Word
    BY DEF PumpImage, Block101
  <1>2. \A a \in Word : Lo(a) \in Word /\ Lo(a) \in Byte /\ Hi(a) \in Byte
    BY WordSplit, LowWord
  <1>3. CASE "R101" \notin DOMAIN f
    <2>1. f.R201 \in Word
      BY <1>3 DEF Frames, PumpImage
    <2>2. QED
      BY <1>1, <1>2, <1>3, <2>1 DEF TakeBlock, TakeField, PumpImage
  <1>4. CASE "R101" \in DOMAIN f
    <2>1. f.R101 \in R101T
      BY <1>4 DEF Frames, PumpImage, Block101
    <2>2. Kept(f.R101) \in R101T
      BY <2>1, KeptBlock
    <2>3. TakeBlock(p, f) \in PumpImage
      BY <1>1, <1>4, <2>2 DEF TakeBlock, PumpImage, Block101
    <2>4. \A i \in 0..5 : p.R101[i] \in Word /\ f.R101[i] \in Word
      BY <1>1, <2>1 DEF R101T
    <2>5. /\ Pack(Hi(f.R101[5]), Lo(p.R101[5])) \in Word
          /\ Pack(Hi(f.R101[1]), Lo(p.R101[1])) \in Word
          /\ Lo(f.R101[0]) \in Word
      BY <1>2, <2>4, PackParts
    <2>6. \A i \in 0..5, a \in Word : [p EXCEPT !.R101[i] = a] \in PumpImage
      BY <1>1 DEF PumpImage, Block101, R101T
    <2>7. TakeField(p, f) \in {[p EXCEPT !.R101[5] = Pack(Hi(f.R101[5]), Lo(p.R101[5]))],
                              [p EXCEPT !.R101[1] = Pack(Hi(f.R101[1]), Lo(p.R101[1]))],
                              [p EXCEPT !.R101[0] = Lo(f.R101[0])]}
      BY <1>4 DEF TakeField
    <2>8. TakeField(p, f) \in PumpImage
      BY <2>5, <2>6, <2>7
    <2>9. QED
      BY <2>3, <2>8
  <1>5. QED
    BY <1>3, <1>4

-----------------------------------------------------------------------------
(* The calls under way                                                     *)

Asked   == {w \in Writers : pc[w] # "idle"}
Encoded == {w \in Writers : pc[w] \notin {"idle", "encode"}}
Unsent  == {w \in Writers : pc[w] \notin {"idle", "settle", "clear"}}

\* A call under way has a request that passed the range check; from Encode on its
\* block is the one its request makes of its basis; and until Send it is not sent.
CallInv ==
  /\ \A w \in Asked : InRange(cmd[w])
  /\ \A w \in Encoded : out[w] = Frame(cmd[w], basis[w])
  /\ \A w \in Unsent : sent[w] = FALSE

DriverInv == DriverTypeOK /\ CallInv

\* No call is started, encoded or sent again.
NoNewCall == Asked' \subseteq Asked /\ Encoded' \subseteq Encoded /\ Unsent' \subseteq Unsent

LEMMA CallsGoOn ==
  ASSUME TypeOK
  PROVE  /\ \A w \in Writers : Negotiate(w) \/ Send(w) => NoNewCall
         /\ Grant \/ DropBytes \/ StoreBlock \/ TurnKnob => NoNewCall
         /\ \A block \in Blocks : ReceiveBlock(block) => NoNewCall
  <1> USE DEF NoNewCall, Asked, Encoded, Unsent, TypeOK
  <1>1. ASSUME NEW w \in Writers, Raise(w) \/ TakeToken(w) \/ Block(w) \/ Begin(w) \/ Drive(w)
                                 \/ Send(w) \/ Release(w)
        PROVE  NoNewCall
    BY <1>1 DEF Raise, TakeToken, Block, Begin, Drive, Send, Release, Goto
  <1>2. ASSUME NEW w \in Writers, Reset(w) \/ Timeout(w)
        PROVE  NoNewCall
    BY <1>2 DEF Reset, Timeout, Blocked
  <1>3. ASSUME NEW w \in Writers, GiveTo(w)
        PROVE  NoNewCall
    BY <1>3 DEF GiveTo, PassOver, BlockedWriters, Blocked
  <1>4. ASSUME NobodyAsks
        PROVE  NoNewCall
    BY <1>4 DEF NobodyAsks, PassOver
  <1>5. ASSUME NEW block \in Blocks, Listen \/ SomebodyAsks \/ GiveToNobody \/ Wake \/ Skip
                                     \/ Store \/ Receive(block) \/ UNCHANGED vars
        PROVE  NoNewCall
    BY <1>5 DEF Listen, SomebodyAsks, GiveToNobody, Wake, Skip, Store, Receive, vars
  <1>6. "other" \in Blocks
    BY DEF Blocks
  <1>7. QED
    BY <1>1, <1>2, <1>3, <1>4, <1>5, <1>6
       DEF Negotiate, Grant, DropBytes, StoreBlock, TurnKnob, ReceiveBlock

LEMMA DriverInvInit == DriverInit => DriverInv
  <1> SUFFICES ASSUME DriverInit PROVE DriverInv
    OBVIOUS
  <1>1. TypeOK
    BY TypeInit DEF DriverInit
  <1>2. 0 \in Word
    BY WordRange
  <1>3. Blank \in PumpImage
    BY <1>2 DEF Blank, PumpImage, Block101, R101T
  <1>4. pump \in PumpImage
    BY DriverAssumption DEF DriverInit
  <1>5. DriverTypeOK
    BY <1>1, <1>3, <1>4, DriverAssumption DEF DriverInit, DriverTypeOK
  <1>6. CallInv
    BY DEF DriverInit, Init, CallInv, Asked, Encoded, Unsent
  <1>7. QED
    BY <1>5, <1>6 DEF DriverInv

LEMMA DriverInvStep == DriverInv /\ [DriverNext]_driverVars => DriverInv'
  <1> SUFFICES ASSUME DriverInv, [DriverNext]_driverVars PROVE DriverInv'
    OBVIOUS
  <1> USE DEF DriverInv, DriverTypeOK, Set
  <1>0. TypeOK /\ TypeOK'
    BY DriverStep, TypeStep
  <1>1. ASSUME NoNewCall, UNCHANGED << cmd, out, ret, basis, calls, pump >>, UNCHANGED sent,
               payload' \in PumpImage, cache' \in PumpImage, panel' \in 0 .. MaxPanel
        PROVE  DriverInv'
    BY <1>0, <1>1 DEF CallInv, NoNewCall, Asked, Encoded, Unsent
  <1>2. ASSUME NEW w \in Writers, Reject(w)
        PROVE  DriverInv'
    <2>1. UNCHANGED << vars, pump, payload, cache, cmd, out, basis, sent, panel >>
          /\ ret' = [ret EXCEPT ![w] = "EINVAL"]
          /\ calls[w] < MaxCalls /\ calls' = [calls EXCEPT ![w] = calls[w] + 1]
      BY <1>2 DEF Reject, Spend
    <2>2. calls' \in [Writers -> 0 .. MaxCalls]
      BY <2>1, DriverAssumption
    <2>3. CallInv'
      BY <2>1 DEF CallInv, Asked, Encoded, Unsent, vars
    <2>4. QED
      BY <1>0, <2>1, <2>2, <2>3
  <1>3. ASSUME NEW w \in Writers, Ask(w)
        PROVE  DriverInv'
    <2>1. PICK c \in Requests : InRange(c) /\ cmd' = [cmd EXCEPT ![w] = c]
      BY <1>3 DEF Ask
    <2>2. /\ UNCHANGED << pump, payload, cache, out, basis, panel >>
          /\ ret' = [ret EXCEPT ![w] = "none"] /\ sent' = [sent EXCEPT ![w] = FALSE]
          /\ calls[w] < MaxCalls /\ calls' = [calls EXCEPT ![w] = calls[w] + 1]
          /\ pc[w] = "idle" /\ pc' = [pc EXCEPT ![w] = "encode"]
      BY <1>3 DEF Ask, Spend, Call, Goto
    <2>3. calls' \in [Writers -> 0 .. MaxCalls]
      BY <2>2, DriverAssumption
    <2>4. CallInv'
      BY <1>0, <2>1, <2>2 DEF CallInv, Asked, Encoded, Unsent, TypeOK
    <2>5. QED
      BY <1>0, <2>1, <2>2, <2>3, <2>4
  <1>4. ASSUME NEW w \in Writers, EncodeFrame(w)
        PROVE  DriverInv'
    <2>1. /\ UNCHANGED << pump, payload, cache, cmd, ret, sent, calls, panel >>
          /\ out' = [out EXCEPT ![w] = Frame(cmd[w], cache)]
          /\ basis' = [basis EXCEPT ![w] = cache]
          /\ pc[w] = "encode" /\ pc' = [pc EXCEPT ![w] = "reset"]
      BY <1>4 DEF EncodeFrame, Encode, Goto
    <2>2. InRange(cmd[w])
      BY <2>1 DEF CallInv, Asked
    <2>3. Frame(cmd[w], cache) \in Frames
      BY <2>2, FrameType
    <2>4. out' \in [Writers -> Frames]
      BY <2>1, <2>3 DEF Frames
    <2>5. CallInv'
      BY <1>0, <2>1 DEF CallInv, Asked, Encoded, Unsent, TypeOK
    <2>6. QED
      BY <1>0, <2>1, <2>4, <2>5 DEF Frames
  <1>5. ASSUME NEW w \in Writers, SendFrame(w)
        PROVE  DriverInv'
    <2>1. /\ UNCHANGED << payload, cache, cmd, out, ret, basis, calls, panel >>
          /\ pc[w] = "drive" /\ pc' = [pc EXCEPT ![w] = "settle"]
          /\ \/ pump' \in {TakeBlock(pump, out[w]), TakeField(pump, out[w])}
                /\ sent' = [sent EXCEPT ![w] = TRUE]
             \/ UNCHANGED << pump, sent >>
      BY <1>5 DEF SendFrame, Send, Goto
    <2>2. out[w] \in Frames
      BY DEF Frames
    <2>3. pump' \in PumpImage /\ sent' \in [Writers -> BOOLEAN]
      BY <2>1, <2>2, TakenType
    <2>4. CallInv'
      BY <1>0, <2>1 DEF CallInv, Asked, Encoded, Unsent, TypeOK
    <2>5. QED
      BY <1>0, <2>1, <2>3, <2>4
  <1>6. ASSUME NEW w \in Writers, Return(w)
        PROVE  DriverInv'
    <2>1. /\ UNCHANGED << pump, payload, cache, sent, calls, panel >>
          /\ ret' = [ret EXCEPT ![w] = "ok"] /\ cmd' = [cmd EXCEPT ![w] = NoRequest]
          /\ out' = [out EXCEPT ![w] = Blank] /\ basis' = [basis EXCEPT ![w] = Blank]
      BY <1>6 DEF Return
    <2>2. pc' = [pc EXCEPT ![w] = "idle"]
      BY <1>6 DEF Return, NoIface, Withdraw, Clear, Goto
    <2>3. 0 \in Word
      BY WordRange
    <2>4. Blank \in PumpImage
      BY <2>3 DEF Blank, PumpImage, Block101, R101T
    <2>5. CallInv'
      BY <1>0, <2>1, <2>2 DEF CallInv, Asked, Encoded, Unsent, TypeOK
    <2>6. QED
      BY <1>0, <2>1, <2>4, <2>5
  <1>7. ASSUME NEW block \in Blocks, ReceiveBlock(block)
        PROVE  DriverInv'
    <2>1. payload' \in PumpImage
      BY <1>7 DEF ReceiveBlock, PumpImage, Block101
    <2>2. NoNewCall
      BY <1>0, <1>7, CallsGoOn
    <2>3. QED
      BY <1>1, <1>7, <2>1, <2>2 DEF ReceiveBlock
  <1>8. CASE StoreBlock
    <2>1. 0 \in Word
      BY WordRange
    <2>2. payload' \in PumpImage
      BY <1>8, <2>1 DEF StoreBlock, Blank, PumpImage, Block101, R101T
    <2>3. cache' \in PumpImage
      BY <1>8 DEF StoreBlock, PumpImage
    <2>4. NoNewCall
      BY <1>0, <1>8, CallsGoOn
    <2>5. QED
      BY <1>1, <1>8, <2>2, <2>3, <2>4 DEF StoreBlock
  <1>9. CASE TurnKnob
    <2>1. /\ UNCHANGED << vars, payload, cache, cmd, out, ret, basis, sent, calls >>
          /\ panel' = panel + 1 /\ panel < MaxPanel /\ pump' \in PumpImage
      BY <1>9, DriverAssumption DEF TurnKnob
    <2>2. panel' \in 0 .. MaxPanel
      BY <2>1, DriverAssumption
    <2>3. CallInv'
      BY <2>1 DEF CallInv, Asked, Encoded, Unsent, vars
    <2>4. QED
      BY <1>0, <2>1, <2>2, <2>3
  <1>10. CASE Grant \/ DropBytes \/ \E w \in Writers : Negotiate(w)
    <2>1. NoNewCall
      BY <1>0, <1>10, CallsGoOn
    <2>2. UNCHANGED data
      BY <1>10 DEF Grant, DropBytes, Negotiate
    <2>3. QED
      BY <1>1, <2>1, <2>2 DEF data
  <1>11. CASE UNCHANGED driverVars
    BY <1>0, <1>11 DEF driverVars, data, vars, CallInv, Asked, Encoded, Unsent
  <1>12. QED
    BY <1>2, <1>3, <1>4, <1>5, <1>6, <1>7, <1>8, <1>9, <1>10, <1>11
       DEF DriverNext, Proceed, Serve

-----------------------------------------------------------------------------
(* The theorems                                                            *)

\* DriverTypeOK holds for any clients, requests, settings at the panel and bounds:
\* the registers of the cache and of every frame stay 16-bit words.
THEOREM DriverTypeCorrect == DriverSpec => []DriverTypeOK
  BY DriverInvInit, DriverInvStep, PTL DEF DriverSpec, DriverInv

\* What the step of a frame that is taken does, from the registers it was encoded from.
LEMMA SentEffect ==
  ASSUME DriverInv, NEW w \in Writers, SendFrame(w), sent'[w], SwitchesPump(cmd[w], basis[w])
  PROVE  LET asked == Commanded(PumpSettings(basis[w]), cmd[w])
         IN  /\ InRange(cmd[w]) /\ pump \in PumpImage
             /\ TakenOver(PumpSettings(pump), PumpSettings(pump'), asked)
             /\ Obeyed(cmd[w], PumpSettings(pump'), asked)
  <1>1. pc[w] = "drive"
    BY DEF SendFrame, Send, Goto
  <1>2. InRange(cmd[w]) /\ out[w] = Frame(cmd[w], basis[w]) /\ sent[w] = FALSE
    BY <1>1 DEF DriverInv, CallInv, Asked, Encoded, Unsent
  <1>3. pump' \in {TakeBlock(pump, out[w]), TakeField(pump, out[w])}
    BY <1>2 DEF SendFrame
  <1>4. pump \in PumpImage /\ basis[w] \in PumpImage
    BY DEF DriverInv, DriverTypeOK
  <1>5. QED
    BY <1>2, <1>3, <1>4, FrameEffect

\* StaleWriteIsOld holds for any clients, requests and settings, and however long a call
\* waited: a frame sets what it is named for, and the worst it does is bring back
\* settings that its registers had.
THEOREM StaleWritesAreOld == DriverSpec => StaleWriteIsOld
  <1> DEFINE Old == \A w \in Writers :
       SendFrame(w) /\ sent'[w] /\ SwitchesPump(cmd[w], basis[w])
         => LET asked == Commanded(PumpSettings(basis[w]), cmd[w])
            IN  /\ TakenOver(PumpSettings(pump), PumpSettings(pump'), asked)
                /\ Obeyed(cmd[w], PumpSettings(pump'), asked)
  <1>1. DriverInv /\ [DriverNext]_driverVars => [Old]_driverVars
    BY SentEffect
  <1>2. QED
    BY <1>1, DriverInvInit, DriverInvStep, PTL DEF DriverSpec, StaleWriteIsOld

\* FreshWriteIsExact holds for any clients, requests and pump settings: no value of
\* the other registers makes a command change anything but what it is named for.
THEOREM FreshWritesAreExact == DriverSpec => FreshWriteIsExact
  <1> DEFINE Exact == \A w \in Writers :
       SendFrame(w) /\ sent'[w] /\ basis[w] = pump /\ SwitchesPump(cmd[w], pump)
         => PumpSettings(pump') = Commanded(PumpSettings(pump), cmd[w])
  <1>1. DriverInv /\ [DriverNext]_driverVars => [Exact]_driverVars
    <2> SUFFICES ASSUME DriverInv, NEW w \in Writers, SendFrame(w), sent'[w],
                        basis[w] = pump, SwitchesPump(cmd[w], pump)
                 PROVE  PumpSettings(pump') = Commanded(PumpSettings(pump), cmd[w])
      OBVIOUS
    <2> DEFINE asked == Commanded(PumpSettings(pump), cmd[w])
    <2>1. /\ InRange(cmd[w]) /\ pump \in PumpImage
          /\ TakenOver(PumpSettings(pump), PumpSettings(pump'), asked)
          /\ Obeyed(cmd[w], PumpSettings(pump'), asked)
      BY SentEffect
    <2>2. QED
      BY <2>1, FreshEffect
  <1>2. QED
    BY <1>1, DriverInvInit, DriverInvStep, PTL DEF DriverSpec, FreshWriteIsExact

-----------------------------------------------------------------------------
(* One client alone                                                        *)

Alone == HealthyBus /\ ~LossyLine /\ \E w \in Writers : Writers = {w}

\* A client alone is never refused: nobody else lowers its pending or resets the
\* semaphore, so the first R241 response behind it serves it.
SoloInv ==
  /\ iface = TRUE
  /\ \A w \in Writers :
       /\ pc[w] \notin {"overdue", "refused"}
       /\ pc[w] \notin {"idle", "encode", "reset", "raise"} => pending = TRUE
       /\ pc[w] \in {"settle", "clear"} => sent[w] = TRUE
       /\ pc[w] = "idle" /\ ret[w] = "ok" => sent[w] = TRUE

LEMMA SoloInit == Alone /\ DriverInit => SoloInv
  BY DEF Alone, DriverInit, Init, SoloInv

LEMMA SoloStep == Alone /\ DriverInv /\ SoloInv /\ [DriverNext]_driverVars => SoloInv'
  <1> SUFFICES ASSUME Alone, DriverInv, SoloInv, [DriverNext]_driverVars PROVE SoloInv'
    OBVIOUS
  <1>0. PICK me \in Writers : Writers = {me}
    BY DEF Alone
  <1>1. HealthyBus = TRUE /\ LossyLine = FALSE
    BY DriverAssumption, HandshakeAssumption DEF Alone
  <1>2. pc \in [Writers -> WriterAt] /\ sent \in [Writers -> BOOLEAN]
        /\ ret \in [Writers -> {"none", "EINVAL", "ok"}]
    BY DEF DriverInv, DriverTypeOK, TypeOK
  <1> USE <1>0, <1>2 DEF SoloInv
  <1>3. CASE Reject(me)
    BY <1>3 DEF Reject, Set, vars
  <1>4. CASE Ask(me)
    BY <1>4 DEF Ask, Call, Goto, Set
  <1>5. CASE EncodeFrame(me)
    BY <1>5 DEF EncodeFrame, Encode, Goto
  <1>6. CASE Negotiate(me)
    <2>1. UNCHANGED << ret, sent >>
      BY <1>6 DEF Negotiate, data
    <2>2. CASE Reset(me) \/ Raise(me) \/ TakeToken(me) \/ Block(me)
      BY <2>1, <2>2 DEF Reset, Raise, TakeToken, Block, Goto
    <2>3. CASE Timeout(me)
      BY <1>1, <2>3 DEF Timeout
    <2>4. CASE Begin(me) \/ Drive(me) \/ Release(me)
      BY <2>1, <2>4 DEF Begin, Drive, Release, Goto
    <2>5. QED
      BY <1>6, <2>2, <2>3, <2>4 DEF Negotiate
  <1>7. CASE SendFrame(me)
    BY <1>1, <1>7 DEF SendFrame, Send, Goto, Set
  <1>8. CASE Return(me)
    <2>1. Clear(me)
      BY <1>8 DEF Return, NoIface, Withdraw, Goto
    <2>2. UNCHANGED << sent, iface >>
      BY <1>8, <2>1 DEF Return, Clear
    <2>3. QED
      BY <2>1, <2>2 DEF Clear, Goto
  <1>9. CASE Grant
    <2>1. UNCHANGED << ret, sent >>
      BY <1>9 DEF Grant, data
    <2>2. CASE Listen \/ SomebodyAsks \/ GiveToNobody \/ Wake
      BY <2>1, <2>2 DEF Listen, SomebodyAsks, GiveToNobody, Wake
    <2>3. CASE NobodyAsks
      BY <2>1, <2>3 DEF NobodyAsks, PassOver
    <2>4. CASE GiveTo(me)
      BY <2>1, <2>4 DEF GiveTo, PassOver, BlockedWriters, Blocked
    <2>5. QED
      BY <1>9, <2>2, <2>3, <2>4 DEF Grant
  <1>10. CASE StoreBlock \/ DropBytes \/ TurnKnob \/ UNCHANGED driverVars
    BY <1>10 DEF StoreBlock, Store, DropBytes, Skip, TurnKnob, driverVars, data, vars
  <1>11. CASE \E block \in Blocks : ReceiveBlock(block)
    BY <1>11 DEF ReceiveBlock, Receive
  <1>12. QED
    BY <1>3, <1>4, <1>5, <1>6, <1>7, <1>8, <1>9, <1>10, <1>11 DEF DriverNext, Proceed, Serve

\* With one client, a healthy bus and a line that loses nothing, no call returns 0
\* without its frame on the pump: what the two-client run finds needs both clients.
THEOREM AloneAcceptedIsSent == Alone /\ DriverSpec => []AcceptedIsSent
  <1>1. CASE Alone
    <2>1. SoloInv => AcceptedIsSent
      BY DEF SoloInv, AcceptedIsSent
    <2>2. DriverInit => DriverInv /\ SoloInv
      BY <1>1, DriverInvInit, SoloInit
    <2>3. (DriverInv /\ SoloInv) /\ [DriverNext]_driverVars => (DriverInv /\ SoloInv)'
      BY <1>1, DriverInvStep, SoloStep
    <2>4. QED
      BY <2>1, <2>2, <2>3, PTL DEF DriverSpec
  <1>2. QED
    BY <1>1

=============================================================================
