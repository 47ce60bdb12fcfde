---------------------------- MODULE CodecWalkProofs ----------------------------
(***************************************************************************)
(* On every image a walk can reach, from any set of starting images, the   *)
(* encoders are exact (RegisterCodecProofs carried over to CodecWalk), and *)
(* the decoders read no bit twice.                                         *)
(***************************************************************************)
EXTENDS CodecWalk, RegisterCodecProofs, FiniteSetTheorems

\* A word with one bit flipped is a word.
LEMMA FlipType ==
  ASSUME NEW word \in Word, NEW weight \in Weights
  PROVE  FlipBit(word, weight) \in Word
  <1>0. word \in Int /\ 0 <= word /\ word <= 65535
    BY WordRange
  <1> SUFFICES FlipBit(word, weight) \in Int /\ 0 <= FlipBit(word, weight)
               /\ FlipBit(word, weight) <= 65535
    BY WordRange
  <1>1. CASE weight = 1
    BY <1>0, <1>1 DEF FlipBit, Bit
  <1>2. CASE weight = 2
    BY <1>0, <1>2 DEF FlipBit, Bit
  <1>3. CASE weight = 4
    BY <1>0, <1>3 DEF FlipBit, Bit
  <1>4. CASE weight = 8
    BY <1>0, <1>4 DEF FlipBit, Bit
  <1>5. CASE weight = 16
    BY <1>0, <1>5 DEF FlipBit, Bit
  <1>6. CASE weight = 32
    BY <1>0, <1>6 DEF FlipBit, Bit
  <1>7. CASE weight = 64
    BY <1>0, <1>7 DEF FlipBit, Bit
  <1>8. CASE weight = 128
    BY <1>0, <1>8 DEF FlipBit, Bit
  <1>9. CASE weight = 256
    BY <1>0, <1>9 DEF FlipBit, Bit
  <1>10. CASE weight = 512
    BY <1>0, <1>10 DEF FlipBit, Bit
  <1>11. CASE weight = 1024
    BY <1>0, <1>11 DEF FlipBit, Bit
  <1>12. CASE weight = 2048
    BY <1>0, <1>12 DEF FlipBit, Bit
  <1>13. CASE weight = 4096
    BY <1>0, <1>13 DEF FlipBit, Bit
  <1>14. CASE weight = 8192
    BY <1>0, <1>14 DEF FlipBit, Bit
  <1>15. CASE weight = 16384
    BY <1>0, <1>15 DEF FlipBit, Bit
  <1>16. CASE weight = 32768
    BY <1>0, <1>16 DEF FlipBit, Bit
  <1>17. QED
    BY <1>1, <1>2, <1>3, <1>4, <1>5, <1>6, <1>7, <1>8, <1>9, <1>10,
       <1>11, <1>12, <1>13, <1>14, <1>15, <1>16 DEF Weights

LEMMA WalkTypeStep == WalkTypeOK /\ [WalkNext]_walkVars => WalkTypeOK'
  <1> SUFFICES ASSUME WalkTypeOK, [WalkNext]_walkVars PROVE WalkTypeOK'
    OBVIOUS
  <1>1. ASSUME NEW image \in Image, Change(image) PROVE WalkTypeOK'
    BY <1>1, WalkAssumption DEF Change, WalkTypeOK
  <1>2. ASSUME NEW weight \in Weights, NEW i \in 0..5
        PROVE  [regs EXCEPT !.R101[i] = FlipBit(@, weight)] \in Image
    <2>1. FlipBit(regs.R101[i], weight) \in Word
      BY FlipType DEF WalkTypeOK, Image, R101T
    <2>2. QED
      BY <2>1 DEF WalkTypeOK, Image, R101T
  <1>3. ASSUME NEW weight \in Weights, NEW i \in 0..15
        PROVE  [regs EXCEPT !.R141[i] = FlipBit(@, weight)] \in Image
    <2>1. FlipBit(regs.R141[i], weight) \in Word
      BY FlipType DEF WalkTypeOK, Image, R141T
    <2>2. QED
      BY <2>1 DEF WalkTypeOK, Image, R141T
  <1>4. ASSUME NEW weight \in Weights
        PROVE  [regs EXCEPT !.R201 = FlipBit(@, weight)] \in Image
    BY FlipType DEF WalkTypeOK, Image
  <1>5. ASSUME NEW weight \in Weights, NEW i \in 0..21
        PROVE  [regs EXCEPT !.R241[i] = FlipBit(@, weight)] \in Image
    <2>1. FlipBit(regs.R241[i], weight) \in Word
      BY FlipType DEF WalkTypeOK, Image, R241T
    <2>2. QED
      BY <2>1 DEF WalkTypeOK, Image, R241T
  <1>6. CASE UNCHANGED walkVars
    BY <1>6 DEF walkVars, WalkTypeOK
  <1>7. QED
    BY <1>1, <1>2, <1>3, <1>4, <1>5, <1>6 DEF WalkNext

\* Every image of a walk is made of 16-bit words.
THEOREM WalkTypeCorrect == WalkSpec => []WalkTypeOK
  <1>1. WalkInit => WalkTypeOK
    BY WalkAssumption DEF WalkInit, WalkTypeOK
  <1>2. QED
    BY <1>1, WalkTypeStep, PTL DEF WalkSpec

LEMMA ExactOnImages == WalkTypeOK => TempSettersExact /\ StateSetterExact
  <1> SUFFICES ASSUME WalkTypeOK PROVE TempSettersExact /\ StateSetterExact
    OBVIOUS
  <1>1. regs.R101 \in R101T
    BY DEF WalkTypeOK, Image
  <1>2. TempSettersExact
    <2>1. \A t \in Temps : t \in 60 .. 500
      BY WalkAssumption
    <2>2. \A c \in Comps : c \in CompRange
      BY WalkAssumption
    <2>3. \A t \in Temps :
            /\ Settings(set_ch_temp(regs.R101, t))
                 = [Settings(regs.R101) EXCEPT !.ch = 5 * (t \div 5)]
            /\ Settings(set_dhw_temp(regs.R101, t))
                 = [Settings(regs.R101) EXCEPT !.dhw = 5 * (t \div 5)]
      BY <1>1, <2>1, SetChTempExact, SetDhwTempExact
    <2>4. \A c \in Comps :
            /\ Settings(set_temp_compensation(regs.R101, c))
                 = [Settings(regs.R101) EXCEPT !.comp = HalfDegree(c)]
            /\ Settings(set_dhw_compensation(regs.R101, c))
                 = [Settings(regs.R101) EXCEPT !.dhw_comp = HalfDegree(c)]
      BY <1>1, <2>2, SetTempCompensationExact, SetDhwCompensationExact
    <2>5. QED
      BY <2>3, <2>4 DEF TempSettersExact
  <1>3. StateSetterExact
    BY <1>1, SetStateExact DEF StateSetterExact, Settings
  <1>4. QED
    BY <1>2, <1>3

\* A temperature or compensation command changes its own setting, to the half degree
\* asked for, and no other, whatever is in the block it is encoded from.
THEOREM TempSettersAlwaysExact == WalkSpec => []TempSettersExact
  BY WalkTypeCorrect, ExactOnImages, PTL

\* A state command that switches the pump asks for exactly the state it is named for
\* and for no other setting, whatever is in the block it is encoded from.
THEOREM StateSetterAlwaysExact == WalkSpec => []StateSetterExact
  BY WalkTypeCorrect, ExactOnImages, PTL

\* Each encoder's flag bytes depend on the command alone.
LEMMA FlagsOfCommand ==
  ASSUME NEW cur \in R101T
  PROVE  /\ \A t \in 60 .. 500 :
              /\ set_ch_temp(cur, t) \in R101T /\ Flags(set_ch_temp(cur, t)) = << 4, 0 >>
              /\ set_dhw_temp(cur, t) \in R101T /\ Flags(set_dhw_temp(cur, t)) = << 0, 2 >>
         /\ \A c \in CompRange :
              /\ set_temp_compensation(cur, c) \in R101T
              /\ Flags(set_temp_compensation(cur, c)) = << 8, 0 >>
              /\ set_dhw_compensation(cur, c) \in R101T
              /\ Flags(set_dhw_compensation(cur, c)) = << 8, 0 >>
         /\ \A e \in BOOLEAN :
              /\ set_heater(cur, e) \in R101T /\ Flags(set_heater(cur, e)) = << 16, 0 >>
              /\ set_pump(cur, e) \in R101T /\ Flags(set_pump(cur, e)) = << 32, 0 >>
         /\ \A state \in States :
              /\ set_state(cur, state) \in R101T
              /\ Flags(set_state(cur, state))
                   = << IF state \in {"on", "off"} THEN 1 ELSE 134, 0 >>
  <1>1. ASSUME NEW t \in 60 .. 500
        PROVE  /\ set_ch_temp(cur, t) \in R101T /\ Flags(set_ch_temp(cur, t)) = << 4, 0 >>
               /\ set_dhw_temp(cur, t) \in R101T /\ Flags(set_dhw_temp(cur, t)) = << 0, 2 >>
    <2>1. Hi(Lo(cur[0])) = 0
      BY LowWord DEF R101T
    <2>2. QED
      BY <2>1, ChBlock, DhwBlock DEF Flags
  <1>2. ASSUME NEW c \in CompRange
        PROVE  /\ set_temp_compensation(cur, c) \in R101T
               /\ Flags(set_temp_compensation(cur, c)) = << 8, 0 >>
               /\ set_dhw_compensation(cur, c) \in R101T
               /\ Flags(set_dhw_compensation(cur, c)) = << 8, 0 >>
    BY CompBlocks DEF Flags
  <1>3. ASSUME NEW e \in BOOLEAN
        PROVE  /\ set_heater(cur, e) \in R101T /\ Flags(set_heater(cur, e)) = << 16, 0 >>
               /\ set_pump(cur, e) \in R101T /\ Flags(set_pump(cur, e)) = << 32, 0 >>
    BY SwitchBlocks DEF Flags
  <1>4. ASSUME NEW state \in States
        PROVE  /\ set_state(cur, state) \in R101T
               /\ Flags(set_state(cur, state))
                    = << IF state \in {"on", "off"} THEN 1 ELSE 134, 0 >>
    BY StateBlock DEF Flags
  <1>5. QED
    BY <1>1, <1>2, <1>3, <1>4

\* A block whose flag bytes are those of the command, one of which is zero.
LEMMA FlagIsOwn ==
  ASSUME NEW r \in R101T, NEW fresh, Flags(r) = Flags(fresh),
         NEW flag \in Nat \ {0}, Flags(r) = << flag, 0 >> \/ Flags(r) = << 0, flag >>
  PROVE  OwnFlag(r, fresh)
  <1>1. \/ Hi(r[0]) = flag /\ Hi(r[4]) = 0
        \/ Hi(r[0]) = 0 /\ Hi(r[4]) = flag
    BY DEF Flags
  <1>2. flag # 0
    OBVIOUS
  <1>3. Hi(r[0]) = 0 <=> Hi(r[4]) # 0
    BY <1>1, <1>2
  <1>4. QED
    BY <1>3 DEF OwnFlag

\* So a command encoded from any two blocks carries the same flag.
LEMMA FlagsIgnoreBlock ==
  ASSUME NEW cur \in R101T, NEW fresh \in R101T
  PROVE  /\ \A t \in 60 .. 500 :
              /\ OwnFlag(set_ch_temp(cur, t), set_ch_temp(fresh, t))
              /\ OwnFlag(set_dhw_temp(cur, t), set_dhw_temp(fresh, t))
         /\ \A c \in CompRange :
              /\ OwnFlag(set_temp_compensation(cur, c), set_temp_compensation(fresh, c))
              /\ OwnFlag(set_dhw_compensation(cur, c), set_dhw_compensation(fresh, c))
         /\ \A e \in BOOLEAN :
              /\ OwnFlag(set_heater(cur, e), set_heater(fresh, e))
              /\ OwnFlag(set_pump(cur, e), set_pump(fresh, e))
         /\ \A state \in States :
              OwnFlag(set_state(cur, state), set_state(fresh, state))
  <1>1. \A flag \in {1, 2, 4, 8, 16, 32, 134} : flag \in Nat \ {0}
    OBVIOUS
  <1>2. ASSUME NEW t \in 60 .. 500
        PROVE  /\ OwnFlag(set_ch_temp(cur, t), set_ch_temp(fresh, t))
               /\ OwnFlag(set_dhw_temp(cur, t), set_dhw_temp(fresh, t))
    <2>1. OwnFlag(set_ch_temp(cur, t), set_ch_temp(fresh, t))
      <3>1. /\ set_ch_temp(cur, t) \in R101T
            /\ Flags(set_ch_temp(cur, t)) = << 4, 0 >> /\ Flags(set_ch_temp(fresh, t)) = << 4, 0 >>
        BY FlagsOfCommand
      <3>2. QED
        BY <1>1, <3>1, FlagIsOwn
    <2>2. OwnFlag(set_dhw_temp(cur, t), set_dhw_temp(fresh, t))
      <3>1. /\ set_dhw_temp(cur, t) \in R101T
            /\ Flags(set_dhw_temp(cur, t)) = << 0, 2 >> /\ Flags(set_dhw_temp(fresh, t)) = << 0, 2 >>
        BY FlagsOfCommand
      <3>2. QED
        BY <1>1, <3>1, FlagIsOwn
    <2>3. QED
      BY <2>1, <2>2
  <1>3. ASSUME NEW c \in CompRange
        PROVE  /\ OwnFlag(set_temp_compensation(cur, c), set_temp_compensation(fresh, c))
               /\ OwnFlag(set_dhw_compensation(cur, c), set_dhw_compensation(fresh, c))
    <2>1. OwnFlag(set_temp_compensation(cur, c), set_temp_compensation(fresh, c))
      <3>1. /\ set_temp_compensation(cur, c) \in R101T
            /\ Flags(set_temp_compensation(cur, c)) = << 8, 0 >>
            /\ Flags(set_temp_compensation(fresh, c)) = << 8, 0 >>
        BY FlagsOfCommand
      <3>2. QED
        BY <1>1, <3>1, FlagIsOwn
    <2>2. OwnFlag(set_dhw_compensation(cur, c), set_dhw_compensation(fresh, c))
      <3>1. /\ set_dhw_compensation(cur, c) \in R101T
            /\ Flags(set_dhw_compensation(cur, c)) = << 8, 0 >>
            /\ Flags(set_dhw_compensation(fresh, c)) = << 8, 0 >>
        BY FlagsOfCommand
      <3>2. QED
        BY <1>1, <3>1, FlagIsOwn
    <2>3. QED
      BY <2>1, <2>2
  <1>4. ASSUME NEW e \in BOOLEAN
        PROVE  /\ OwnFlag(set_heater(cur, e), set_heater(fresh, e))
               /\ OwnFlag(set_pump(cur, e), set_pump(fresh, e))
    <2>1. OwnFlag(set_heater(cur, e), set_heater(fresh, e))
      <3>1. /\ set_heater(cur, e) \in R101T
            /\ Flags(set_heater(cur, e)) = << 16, 0 >>
            /\ Flags(set_heater(fresh, e)) = << 16, 0 >>
        BY FlagsOfCommand
      <3>2. QED
        BY <1>1, <3>1, FlagIsOwn
    <2>2. OwnFlag(set_pump(cur, e), set_pump(fresh, e))
      <3>1. /\ set_pump(cur, e) \in R101T
            /\ Flags(set_pump(cur, e)) = << 32, 0 >>
            /\ Flags(set_pump(fresh, e)) = << 32, 0 >>
        BY FlagsOfCommand
      <3>2. QED
        BY <1>1, <3>1, FlagIsOwn
    <2>3. QED
      BY <2>1, <2>2
  <1>5. ASSUME NEW state \in States
        PROVE  OwnFlag(set_state(cur, state), set_state(fresh, state))
    <2>1. PICK flag \in {1, 134} : flag = IF state \in {"on", "off"} THEN 1 ELSE 134
      OBVIOUS
    <2>2. /\ set_state(cur, state) \in R101T
          /\ Flags(set_state(cur, state)) = << flag, 0 >>
          /\ Flags(set_state(fresh, state)) = << flag, 0 >>
      BY <2>1, FlagsOfCommand
    <2>3. QED
      BY <1>1, <2>2, FlagIsOwn
  <1>6. QED
    BY <1>2, <1>3, <1>4, <1>5

LEMMA OneFlagOnImages == WalkTypeOK => OneCommandFlag
  <1> SUFFICES ASSUME WalkTypeOK PROVE OneCommandFlag
    OBVIOUS
  <1>1. regs.R101 \in R101T /\ Unflagged \in R101T
    BY WordRange DEF WalkTypeOK, Image, R101T, Unflagged
  <1>2. Temps \subseteq 60 .. 500 /\ Comps \subseteq CompRange
    BY WalkAssumption
  <1>3. QED
    BY <1>1, <1>2, FlagsIgnoreBlock DEF OneCommandFlag

\* Every command is sent with its own flag and no other, in either flag byte, whatever
\* flags the cached block still has, and nothing overflows a word.
THEOREM OneCommandFlagAlways == WalkSpec => []OneCommandFlag
  BY WalkTypeCorrect, OneFlagOnImages, PTL

-----------------------------------------------------------------------------
(* The decoders: one bit, one parameter                                    *)

\* A flipped bit leaves the other three nibbles, and the other flags, as they are.
LEMMA FlipLowNibble ==
  ASSUME NEW word \in Word, NEW weight \in {1, 2, 4, 8}
  PROVE  /\ FlipBit(word, weight) \div 16 = word \div 16
         /\ weight = 1 => Bit(FlipBit(word, weight), 2) = Bit(word, 2)
         /\ weight = 1 => Bit(FlipBit(word, weight), 4) = Bit(word, 4)
         /\ weight # 1 => Bit(FlipBit(word, weight), 1) = Bit(word, 1)
  <1>0. word \in Int /\ 0 <= word /\ word <= 65535
    BY WordRange
  <1>1. CASE weight = 1
    BY <1>0, <1>1 DEF FlipBit, Bit
  <1>2. CASE weight = 2
    BY <1>0, <1>2 DEF FlipBit, Bit
  <1>3. CASE weight = 4
    BY <1>0, <1>3 DEF FlipBit, Bit
  <1>4. CASE weight = 8
    BY <1>0, <1>4 DEF FlipBit, Bit
  <1>5. QED
    BY <1>1, <1>2, <1>3, <1>4

LEMMA FlipHighNibble ==
  ASSUME NEW word \in Word, NEW weight \in {16, 32, 64, 128}
  PROVE  /\ FlipBit(word, weight) \div 256 = word \div 256
         /\ FlipBit(word, weight) % 16 = word % 16
  <1>0. word \in Int /\ 0 <= word /\ word <= 65535
    BY WordRange
  <1>1. CASE weight = 16
    BY <1>0, <1>1 DEF FlipBit, Bit
  <1>2. CASE weight = 32
    BY <1>0, <1>2 DEF FlipBit, Bit
  <1>3. CASE weight = 64
    BY <1>0, <1>3 DEF FlipBit, Bit
  <1>4. CASE weight = 128
    BY <1>0, <1>4 DEF FlipBit, Bit
  <1>5. QED
    BY <1>1, <1>2, <1>3, <1>4

LEMMA FlipThirdNibble ==
  ASSUME NEW word \in Word, NEW weight \in {256, 512, 1024, 2048}
  PROVE  /\ FlipBit(word, weight) \div 4096 = word \div 4096
         /\ FlipBit(word, weight) % 256 = word % 256
         /\ weight # 256 => Bit(FlipBit(word, weight), 256) = Bit(word, 256)
         /\ weight = 256 => Bit(FlipBit(word, weight), 512) = Bit(word, 512)
  <1>0. word \in Int /\ 0 <= word /\ word <= 65535
    BY WordRange
  <1>1. CASE weight = 256
    BY <1>0, <1>1 DEF FlipBit, Bit
  <1>2. CASE weight = 512
    BY <1>0, <1>2 DEF FlipBit, Bit
  <1>3. CASE weight = 1024
    BY <1>0, <1>3 DEF FlipBit, Bit
  <1>4. CASE weight = 2048
    BY <1>0, <1>4 DEF FlipBit, Bit
  <1>5. QED
    BY <1>1, <1>2, <1>3, <1>4

LEMMA FlipTopNibble ==
  ASSUME NEW word \in Word, NEW weight \in {4096, 8192, 16384, 32768}
  PROVE  FlipBit(word, weight) % 4096 = word % 4096
  <1>0. word \in Int /\ 0 <= word /\ word <= 65535
    BY WordRange
  <1>1. CASE weight = 4096
    BY <1>0, <1>1 DEF FlipBit, Bit
  <1>2. CASE weight = 8192
    BY <1>0, <1>2 DEF FlipBit, Bit
  <1>3. CASE weight = 16384
    BY <1>0, <1>3 DEF FlipBit, Bit
  <1>4. CASE weight = 32768
    BY <1>0, <1>4 DEF FlipBit, Bit
  <1>5. QED
    BY <1>1, <1>2, <1>3, <1>4

\* Two words that agree outside one nibble: on a byte, and on half of the other one.
OneNibbleApart(v, w) ==
  \/ /\ Hi(w) = Hi(v) /\ w \div 4096 = v \div 4096
     /\ Lo(w) % 16 = Lo(v) % 16 \/ Lo(w) \div 16 = Lo(v) \div 16
  \/ /\ Lo(w) = Lo(v)
     /\ \/ Hi(w) % 16 = Hi(v) % 16 /\ w % 4096 = v % 4096
        \/ Hi(w) \div 16 = Hi(v) \div 16 /\ w \div 4096 = v \div 4096

SameBits(v, w, weights) == \A weight \in weights : Bit(w, weight) = Bit(v, weight)

\* Two words that agree on all but one of the things the flags of a word are read as.
OneFlagApart(v, w) ==
  /\ SameBits(v, w, {1, 128}) \/ SameBits(v, w, {1, 2, 4}) \/ SameBits(v, w, {2, 4, 128})
  /\ SameBits(v, w, {256}) \/ SameBits(v, w, {512})
  /\ Lo(w) = Lo(v) \/ SameBits(v, w, {512, 1024, 2048, 8192})

\* Flipping a bit changes one nibble, and one of the things the flags mean.
LEMMA FlipIsNear ==
  ASSUME NEW word \in Word, NEW weight \in Weights
  PROVE  /\ OneNibbleApart(word, FlipBit(word, weight))
         /\ OneFlagApart(word, FlipBit(word, weight))
  <1> DEFINE flipped == FlipBit(word, weight)
  <1>0. flipped \in Word
    BY FlipType
  <1>1. CASE weight \in {1, 2, 4, 8}
    <2>1. flipped \div 16 = word \div 16
      BY <1>1, FlipLowNibble
    <2>2. Hi(flipped) = Hi(word) /\ Lo(flipped) \div 16 = Lo(word) \div 16
      BY <1>0, <2>1, WordNibbles
    <2>3. Bit(flipped, 128) = Bit(word, 128) /\ SameBits(word, flipped, {256, 512, 1024, 2048, 8192})
      BY <1>0, <2>1, <2>2, FlagNibbles DEF SameBits
    <2>4. SameBits(word, flipped, {1, 128}) \/ SameBits(word, flipped, {2, 4, 128})
      BY <1>1, <2>3, FlipLowNibble DEF SameBits
    <2> HIDE DEF flipped
    <2>5. QED
      BY <1>0, <2>2, <2>3, <2>4, WordNibbles DEF OneNibbleApart, OneFlagApart, SameBits, flipped
  <1>2. CASE weight \in {16, 32, 64, 128}
    <2>1. Hi(flipped) = Hi(word) /\ flipped % 16 = word % 16
      BY <1>2, FlipHighNibble DEF Hi
    <2>2. Lo(flipped) % 16 = Lo(word) % 16 /\ flipped \div 4096 = word \div 4096
      BY <1>0, <2>1, WordNibbles
    <2>3. SameBits(word, flipped, {1, 2, 4}) /\ SameBits(word, flipped, {256, 512, 1024, 2048, 8192})
      BY <1>0, <2>1, FlagNibbles DEF SameBits
    <2> HIDE DEF flipped
    <2>4. QED
      BY <2>1, <2>2, <2>3 DEF OneNibbleApart, OneFlagApart, SameBits, flipped
  <1>3. CASE weight \in {256, 512, 1024, 2048}
    <2>1. Lo(flipped) = Lo(word) /\ flipped \div 4096 = word \div 4096
      BY <1>3, FlipThirdNibble DEF Lo
    <2>2. Hi(flipped) \div 16 = Hi(word) \div 16
      BY <1>0, <2>1, WordNibbles
    <2>3. SameBits(word, flipped, {1, 2, 4})
      BY <1>0, <2>1, LowBits DEF SameBits
    <2>4. SameBits(word, flipped, {256}) \/ SameBits(word, flipped, {512})
      BY <1>3, FlipThirdNibble DEF SameBits
    <2> HIDE DEF flipped
    <2>5. QED
      BY <2>1, <2>2, <2>3, <2>4 DEF OneNibbleApart, OneFlagApart, flipped
  <1>4. CASE weight \in {4096, 8192, 16384, 32768}
    <2>1. flipped % 4096 = word % 4096
      BY <1>4, FlipTopNibble
    <2>2. Lo(flipped) = Lo(word) /\ Hi(flipped) % 16 = Hi(word) % 16
      BY <1>0, <2>1, WordNibbles
    <2>3. SameBits(word, flipped, {1, 2, 4}) /\ SameBits(word, flipped, {256})
      BY <1>0, <2>1, <2>2, LowBits, FlagNibbles DEF SameBits
    <2> HIDE DEF flipped
    <2>4. QED
      BY <2>1, <2>2, <2>3 DEF OneNibbleApart, OneFlagApart, flipped
  <1>5. QED
    BY <1>1, <1>2, <1>3, <1>4 DEF Weights

\* Two images of which at most the k-th parameter differs.
AllBut(k, image, other) ==
  \A j \in DOMAIN Telemetry(image) : j # k => Telemetry(other)[j] = Telemetry(image)[j]

\* A word of a block that changes in this way changes one parameter: each parameter is
\* named with the parts of the words it is read from.
LEMMA SettingsWord ==
  ASSUME NEW image \in Image, NEW i \in 0..5, NEW word, NEW other,
         other = [image EXCEPT !.R101[i] = word],
         OneNibbleApart(image.R101[i], word), OneFlagApart(image.R101[i], word)
  PROVE  \E k : AllBut(k, image, other)
  <1>1. /\ other.R141 = image.R141 /\ other.R201 = image.R201 /\ other.R241 = image.R241
        /\ other.R101[i] = word /\ \A l \in 0..5 : l # i => other.R101[l] = image.R101[l]
    BY DEF Image, R101T
  <1>2. i = 0 => other.R101[1] = image.R101[1] /\ other.R101[5] = image.R101[5]
    BY <1>1
  <1>3. i # 0 => get_state(other.R101) = get_state(image.R101)
    BY <1>1 DEF get_state
  <1>4. ASSUME NEW k,
               k # 1 => Bit(other.R101[0], 1) = Bit(image.R101[0], 1),
               k # 2 => Bit(other.R101[0], 128) = Bit(image.R101[0], 128),
               k # 3 => SameBits(image.R101[0], other.R101[0], {2, 4}),
               k # 4 => Hi(other.R101[1]) = Hi(image.R101[1]),
               k # 5 => Lo(other.R101[1]) = Lo(image.R101[1]),
               k # 6 => Hi(other.R101[5]) = Hi(image.R101[5]),
               k # 7 => Lo(other.R101[5]) = Lo(image.R101[5])
        PROVE  AllBut(k, image, other)
    BY <1>1, <1>4 DEF AllBut, Telemetry, get_state, get_ch_temp, get_temp_compensation,
       get_dhw_target_temp, get_dhw_compensation, SameBits
  <1> USE DEF SameBits
  <1>5. CASE i = 0
    <2>1. \E k \in {1, 2, 3} :
            /\ k # 1 => Bit(word, 1) = Bit(image.R101[0], 1)
            /\ k # 2 => Bit(word, 128) = Bit(image.R101[0], 128)
            /\ k # 3 => SameBits(image.R101[0], word, {2, 4})
      BY <1>5 DEF OneFlagApart
    <2>2. QED
      BY <1>1, <1>2, <1>4, <1>5, <2>1
  <1>6. CASE i = 1
    BY <1>1, <1>4, <1>6 DEF OneNibbleApart
  <1>7. CASE i = 5
    BY <1>1, <1>4, <1>7 DEF OneNibbleApart
  <1>8. CASE i \in 2..4
    BY <1>1, <1>4, <1>8
  <1>9. QED
    BY <1>5, <1>6, <1>7, <1>8

LEMMA WaterWord ==
  ASSUME NEW image \in Image, NEW i \in 0..15, NEW word, NEW other,
         other = [image EXCEPT !.R141[i] = word],
         OneNibbleApart(image.R141[i], word), OneFlagApart(image.R141[i], word)
  PROVE  \E k : AllBut(k, image, other)
  <1> DEFINE r == image.R141
             s == other.R141
  <1>1. /\ other.R101 = image.R101 /\ other.R201 = image.R201 /\ other.R241 = image.R241
        /\ s[i] = word /\ \A l \in 0..15 : l # i => s[l] = r[l]
    BY DEF Image, R141T
  <1>2. ASSUME NEW k,
               k # 8 => SameBits(r[0], s[0], {512, 1024, 2048, 8192}), k # 9 => Lo(s[0]) = Lo(r[0]),
               k # 10 => SameBits(r[3], s[3], {256}), k # 11 => SameBits(r[3], s[3], {512}),
               k # 12 => s[13] = r[13],
               k # 13 => Hi(s[7]) % 16 = Hi(r[7]) % 16 /\ Lo(s[7]) = Lo(r[7]),
               k # 14 => Hi(s[7]) \div 16 = Hi(r[7]) \div 16 /\ Hi(s[8]) = Hi(r[8]),
               k # 15 => Lo(s[5]) % 16 = Lo(r[5]) % 16 /\ Hi(s[6]) = Hi(r[6]),
               k # 16 => Lo(s[5]) \div 16 = Lo(r[5]) \div 16 /\ Lo(s[6]) = Lo(r[6])
        PROVE  AllBut(k, image, other)
    BY <1>1, <1>2 DEF AllBut, Telemetry, get_3way_state, get_error, get_heater_state,
       get_pump_state, OnOff, get_dhw_temp, get_thi_tho_info, get_twi_two_info, LowNibble,
       HighNibble, SameBits
  <1> HIDE DEF r, s
  <1>3. /\ i # 0 => s[0] = r[0] /\ SameBits(r[0], s[0], {512, 1024, 2048, 8192})
        /\ i # 3 => SameBits(r[3], s[3], {256}) /\ SameBits(r[3], s[3], {512})
    BY <1>1 DEF SameBits
  <1>4. CASE i = 0
    <2>1. s[13] = r[13] /\ s[5] = r[5] /\ s[6] = r[6] /\ s[7] = r[7] /\ s[8] = r[8]
      BY <1>1, <1>4
    <2>2. AllBut(8, image, other) \/ AllBut(9, image, other)
      BY <1>1, <1>2, <1>3, <1>4, <2>1 DEF OneFlagApart, r
    <2>3. QED
      BY <2>2
  <1>5. CASE i = 3
    <2>1. s[13] = r[13] /\ s[5] = r[5] /\ s[6] = r[6] /\ s[7] = r[7] /\ s[8] = r[8]
      BY <1>1, <1>5
    <2>2. AllBut(10, image, other) \/ AllBut(11, image, other)
      BY <1>1, <1>2, <1>3, <1>5, <2>1 DEF OneFlagApart, r
    <2>3. QED
      BY <2>2
  <1>6. CASE i = 5
    <2>1. s[13] = r[13] /\ s[7] = r[7] /\ s[8] = r[8] /\ s[6] = r[6]
      BY <1>1, <1>6
    <2>2. Lo(s[5]) % 16 = Lo(r[5]) % 16 \/ Lo(s[5]) \div 16 = Lo(r[5]) \div 16
      BY <1>1, <1>6 DEF OneNibbleApart, r
    <2>3. AllBut(15, image, other) \/ AllBut(16, image, other)
      BY <1>2, <1>3, <1>6, <2>1, <2>2
    <2>4. QED
      BY <2>3
  <1>7. CASE i = 6
    <2>1. s[13] = r[13] /\ s[7] = r[7] /\ s[8] = r[8] /\ s[5] = r[5]
      BY <1>1, <1>7
    <2>2. Hi(s[6]) = Hi(r[6]) \/ Lo(s[6]) = Lo(r[6])
      BY <1>1, <1>7 DEF OneNibbleApart, r
    <2>3. AllBut(15, image, other) \/ AllBut(16, image, other)
      BY <1>2, <1>3, <1>7, <2>1, <2>2
    <2>4. QED
      BY <2>3
  <1>8. CASE i = 7
    BY <1>1, <1>2, <1>3, <1>8 DEF OneNibbleApart, r
  <1>9. CASE i = 8
    <2>1. /\ s[13] = r[13] /\ s[7] = r[7] /\ s[5] = r[5] /\ s[6] = r[6]
      BY <1>1, <1>9
    <2>2. AllBut(14, image, other)
      BY <1>2, <1>3, <1>9, <2>1
    <2>3. QED
      BY <2>2
  <1>10. CASE i \in 0..15 \ {0, 3, 5, 6, 7, 8}
    <2>1. /\ s[7] = r[7] /\ s[8] = r[8] /\ s[5] = r[5] /\ s[6] = r[6]
      BY <1>1, <1>10
    <2>2. AllBut(12, image, other)
      BY <1>2, <1>3, <1>10, <2>1
    <2>3. QED
      BY <2>2
  <1>11. QED
    BY <1>4, <1>5, <1>6, <1>7, <1>8, <1>9, <1>10

LEMMA CompressorWord ==
  ASSUME NEW image \in Image, NEW i \in 0..21, NEW word, NEW other,
         other = [image EXCEPT !.R241[i] = word], OneNibbleApart(image.R241[i], word)
  PROVE  \E k : AllBut(k, image, other)
  <1> DEFINE r == image.R241
             s == other.R241
  <1>1. /\ other.R101 = image.R101 /\ other.R141 = image.R141 /\ other.R201 = image.R201
        /\ s[i] = word /\ \A l \in 0..21 : l # i => s[l] = r[l]
    BY DEF Image, R241T
  <1>2. ASSUME NEW k,
               k # 18 => Lo(s[0]) = Lo(r[0]), k # 19 => Hi(s[19]) = Hi(r[19]),
               k # 20 => Lo(s[19]) = Lo(r[19]), k # 21 => Hi(s[20]) = Hi(r[20]),
               k # 22 => Lo(s[2]) = Lo(r[2]), k # 23 => Hi(s[3]) = Hi(r[3]),
               k # 24 => Hi(s[15]) = Hi(r[15]), k # 25 => Lo(s[15]) = Lo(r[15]),
               k # 26 => Lo(s[14]) = Lo(r[14]), k # 27 => Lo(s[3]) = Lo(r[3]),
               k # 28 => Hi(s[4]) = Hi(r[4]), k # 29 => Hi(s[5]) = Hi(r[5]),
               k # 30 => Hi(s[18]) = Hi(r[18]), k # 31 => Lo(s[5]) = Lo(r[5]),
               k # 32 => Hi(s[6]) = Hi(r[6]), k # 33 => Hi(s[8]) = Hi(r[8]),
               k # 34 => Lo(s[8]) = Lo(r[8]), k # 35 => s[12] % 4096 = r[12] % 4096,
               k # 36 => s[12] \div 4096 = r[12] \div 4096 /\ Hi(s[13]) = Hi(r[13]),
               k # 37 => Lo(s[10]) % 16 = Lo(r[10]) % 16 /\ Hi(s[11]) = Hi(r[11]),
               k # 38 => Lo(s[10]) \div 16 = Lo(r[10]) \div 16 /\ Lo(s[11]) = Lo(r[11]),
               k # 39 => Lo(s[6]) % 16 = Lo(r[6]) % 16 /\ Hi(s[7]) = Hi(r[7]),
               k # 40 => Lo(s[6]) \div 16 = Lo(r[6]) \div 16 /\ Lo(s[7]) = Lo(r[7]),
               k # 41 => Hi(s[9]) % 16 = Hi(r[9]) % 16 /\ Lo(s[9]) = Lo(r[9]),
               k # 42 => Hi(s[9]) \div 16 = Hi(r[9]) \div 16 /\ Hi(s[10]) = Hi(r[10])
        PROVE  AllBut(k, image, other)
    BY <1>1, <1>2 DEF AllBut, Telemetry, get_last_error, get_arch_errors, get_comp_info,
       get_fans_rpm, get_eev_level, get_firmware_version, get_pd_ps_info, get_tao, get_tdef,
       get_td_ts_info, get_tsat_pd_info, get_tsat_ps_info, LowNibble, HighNibble
  <1> HIDE DEF r, s
  <1>3. CASE i \in {1, 16, 17, 21}
    <2>1. AllBut(0, image, other)
      BY <1>1, <1>2, <1>3
    <2>2. QED
      BY <2>1
  <1>4. CASE i \in {0, 2, 4, 13, 14, 18, 20}
    <2>1. \E k \in {18, 22, 28, 36, 26, 30, 21} : AllBut(k, image, other)
      BY <1>1, <1>2, <1>4
    <2>2. QED
      BY <2>1
  <1>5. CASE i = 3
    <2>1. AllBut(27, image, other) \/ AllBut(23, image, other)
      BY <1>1, <1>2, <1>5 DEF OneNibbleApart, r
    <2>2. QED
      BY <2>1
  <1>6. CASE i = 5
    <2>1. AllBut(31, image, other) \/ AllBut(29, image, other)
      BY <1>1, <1>2, <1>6 DEF OneNibbleApart, r
    <2>2. QED
      BY <2>1
  <1>7. CASE i = 7
    <2>1. AllBut(40, image, other) \/ AllBut(39, image, other)
      BY <1>1, <1>2, <1>7 DEF OneNibbleApart, r
    <2>2. QED
      BY <2>1
  <1>8. CASE i = 8
    <2>1. AllBut(34, image, other) \/ AllBut(33, image, other)
      BY <1>1, <1>2, <1>8 DEF OneNibbleApart, r
    <2>2. QED
      BY <2>1
  <1>9. CASE i = 11
    <2>1. AllBut(38, image, other) \/ AllBut(37, image, other)
      BY <1>1, <1>2, <1>9 DEF OneNibbleApart, r
    <2>2. QED
      BY <2>1
  <1>10. CASE i = 15
    <2>1. AllBut(25, image, other) \/ AllBut(24, image, other)
      BY <1>1, <1>2, <1>10 DEF OneNibbleApart, r
    <2>2. QED
      BY <2>1
  <1>11. CASE i = 19
    <2>1. AllBut(20, image, other) \/ AllBut(19, image, other)
      BY <1>1, <1>2, <1>11 DEF OneNibbleApart, r
    <2>2. QED
      BY <2>1
  <1>12. CASE i = 6
    <2>1. AllBut(32, image, other) \/ AllBut(39, image, other) \/ AllBut(40, image, other)
      BY <1>1, <1>2, <1>12 DEF OneNibbleApart, r
    <2>2. QED
      BY <2>1
  <1>13. CASE i = 9
    <2>1. AllBut(41, image, other) \/ AllBut(42, image, other)
      BY <1>1, <1>2, <1>13 DEF OneNibbleApart, r
    <2>2. QED
      BY <2>1
  <1>14. CASE i = 10
    <2>1. AllBut(42, image, other) \/ AllBut(37, image, other) \/ AllBut(38, image, other)
      BY <1>1, <1>2, <1>14 DEF OneNibbleApart, r
    <2>2. QED
      BY <2>1
  <1>15. CASE i = 12
    <2>1. AllBut(35, image, other) \/ AllBut(36, image, other)
      BY <1>1, <1>2, <1>15 DEF OneNibbleApart, r
    <2>2. QED
      BY <2>1
  <1>16. QED
    BY <1>3, <1>4, <1>5, <1>6, <1>7, <1>8, <1>9, <1>10, <1>11, <1>12, <1>13, <1>14, <1>15

LEMMA ModeWordOnly ==
  ASSUME NEW image \in Image, NEW word
  PROVE  AllBut(17, image, [image EXCEPT !.R201 = word])
  BY DEF AllBut, Telemetry, Image

\* Two images that agree on all parameters but one differ in at most one.
LEMMA OneDiffers ==
  ASSUME NEW image, NEW other, NEW k, AllBut(k, image, other)
  PROVE  LET before == Telemetry(image)  after == Telemetry(other)
         IN  Cardinality({j \in DOMAIN before : before[j] # after[j]}) <= 1
  <1> DEFINE D == {j \in DOMAIN Telemetry(image) : Telemetry(image)[j] # Telemetry(other)[j]}
  <1>1. D \subseteq {k}
    BY DEF AllBut
  <1>2. IsFiniteSet({k}) /\ Cardinality({k}) = 1
    BY FS_Singleton
  <1>3. Cardinality(D) <= 1
    BY <1>1, <1>2, FS_Subset
  <1>4. QED
    BY <1>3

LEMMA FlipsOneParameter ==
  ASSUME WalkTypeOK, WalkNext
  PROVE  \E k : AllBut(k, regs, regs')
  <1>1. regs \in Image
    BY DEF WalkTypeOK
  <1>2. PICK weight \in Weights :
          \/ \E i \in 0..5  : Change([regs EXCEPT !.R101[i] = FlipBit(@, weight)])
          \/ \E i \in 0..15 : Change([regs EXCEPT !.R141[i] = FlipBit(@, weight)])
          \/ Change([regs EXCEPT !.R201 = FlipBit(@, weight)])
          \/ \E i \in 0..21 : Change([regs EXCEPT !.R241[i] = FlipBit(@, weight)])
    BY DEF WalkNext
  <1>3. ASSUME NEW i \in 0..5, Change([regs EXCEPT !.R101[i] = FlipBit(@, weight)])
        PROVE  \E k : AllBut(k, regs, regs')
    <2>1. regs.R101[i] \in Word
      BY <1>1 DEF Image, R101T
    <2>2. regs' = [regs EXCEPT !.R101[i] = FlipBit(regs.R101[i], weight)]
      BY <1>3 DEF Change
    <2>3. QED
      BY <1>1, <2>1, <2>2, FlipIsNear, SettingsWord
  <1>4. ASSUME NEW i \in 0..15, Change([regs EXCEPT !.R141[i] = FlipBit(@, weight)])
        PROVE  \E k : AllBut(k, regs, regs')
    <2>1. regs.R141[i] \in Word
      BY <1>1 DEF Image, R141T
    <2>2. regs' = [regs EXCEPT !.R141[i] = FlipBit(regs.R141[i], weight)]
      BY <1>4 DEF Change
    <2>3. QED
      BY <1>1, <2>1, <2>2, FlipIsNear, WaterWord
  <1>5. CASE Change([regs EXCEPT !.R201 = FlipBit(@, weight)])
    BY <1>1, <1>5, ModeWordOnly DEF Change
  <1>6. ASSUME NEW i \in 0..21, Change([regs EXCEPT !.R241[i] = FlipBit(@, weight)])
        PROVE  \E k : AllBut(k, regs, regs')
    <2>1. regs.R241[i] \in Word
      BY <1>1 DEF Image, R241T
    <2>2. regs' = [regs EXCEPT !.R241[i] = FlipBit(regs.R241[i], weight)]
      BY <1>6 DEF Change
    <2>3. QED
      BY <1>1, <2>1, <2>2, FlipIsNear, CompressorWord
  <1>7. QED
    BY <1>2, <1>3, <1>4, <1>5, <1>6

\* Whatever image the pump reports, a bit that changes in it changes at most one of the 42
\* parameters: no decoder reads into the nibbles of another (haier_cmd.c:229-332).
THEOREM OneBitChangesOneParameter == WalkSpec => OneBitOneParameter
  <1>1. WalkTypeOK /\ [WalkNext]_walkVars =>
          [LET before == Telemetry(regs)  after == Telemetry(regs')
           IN  Cardinality({k \in DOMAIN before : before[k] # after[k]}) <= 1]_walkVars
    BY FlipsOneParameter, OneDiffers
  <1>2. QED
    BY <1>1, WalkTypeCorrect, PTL DEF WalkSpec, OneBitOneParameter

=============================================================================
