------------------------- MODULE RegisterCodecProofs -------------------------
(***************************************************************************)
(* What the encoders of RegisterCodec do to every one of the 2^96 blocks   *)
(* R101, where TLC looks at some.  The arithmetic is done on bytes.        *)
(***************************************************************************)
EXTENDS RegisterCodec, TLAPS

Byte == 0 .. 255

-----------------------------------------------------------------------------
(* Bytes and bits                                                          *)

\* The words are the integers of 16 bits.
LEMMA WordRange == Word \subseteq Int /\ \A x \in Int : x \in Word <=> 0 <= x /\ x <= 65535
  <1>1. MaxWord = 65535
    BY DEF MaxWord
  <1>2. Word \subseteq Int
    BY <1>1 DEF Word
  <1>3. \A x \in Int : x \in Word <=> 0 <= x /\ x <= 65535
    BY <1>1 DEF Word
  <1>4. QED
    BY <1>2, <1>3

\* A word is made of two bytes.
LEMMA WordSplit ==
  ASSUME NEW word \in Word
  PROVE  Hi(word) \in Byte /\ Lo(word) \in Byte /\ word = 256 * Hi(word) + Lo(word)
  <1>1. word \in Int /\ 0 <= word /\ word <= 65535
    BY WordRange
  <1>2. word \div 256 \in Byte
    <2>1. word \div 256 \in Int /\ 0 <= word \div 256 /\ word \div 256 <= 255
      BY <1>1
    <2>2. QED
      BY <2>1 DEF Byte
  <1>3. word % 256 \in Byte
    <2>1. word % 256 \in Int /\ 0 <= word % 256 /\ word % 256 <= 255
      BY <1>1
    <2>2. QED
      BY <2>1 DEF Byte
  <1>4. word = 256 * (word \div 256) + (word % 256)
    BY <1>1
  <1>5. QED
    BY <1>2, <1>3, <1>4 DEF Hi, Lo

\* Two bytes make a word.
LEMMA WordJoin ==
  ASSUME NEW hi \in Byte, NEW lo \in Byte
  PROVE  /\ 256 * hi + lo \in Word
         /\ Hi(256 * hi + lo) = hi /\ Lo(256 * hi + lo) = lo
         /\ Pack(hi, lo) = 256 * hi + lo
  <1>1. hi \in Int /\ 0 <= hi /\ hi <= 255 /\ lo \in Int /\ 0 <= lo /\ lo <= 255
    BY DEF Byte
  <1>2. 256 * hi + lo \in Word
    BY <1>1, WordRange
  <1>3. (256 * hi + lo) \div 256 = hi
    BY <1>1
  <1>4. (256 * hi + lo) % 256 = lo
    BY <1>1
  <1>5. (hi * 256) % 65536 = 256 * hi
    BY <1>1
  <1>6. QED
    BY <1>2, <1>3, <1>4, <1>5 DEF Hi, Lo, Pack

LEMMA PackParts ==
  ASSUME NEW hi \in Byte, NEW lo \in Byte
  PROVE  Pack(hi, lo) \in Word /\ Hi(Pack(hi, lo)) = hi /\ Lo(Pack(hi, lo)) = lo
  BY WordJoin

\* The status bits of a word are those of its low byte.
LEMMA ByteBits ==
  ASSUME NEW hi \in Byte, NEW lo \in Byte
  PROVE  /\ Bit(256 * hi + lo, 1) = Bit(lo, 1) /\ Bit(256 * hi + lo, 2) = Bit(lo, 2)
         /\ Bit(256 * hi + lo, 4) = Bit(lo, 4) /\ Bit(256 * hi + lo, 128) = Bit(lo, 128)
  <1>1. hi \in Int /\ 0 <= hi /\ hi <= 255 /\ lo \in Int /\ 0 <= lo /\ lo <= 255
    BY DEF Byte
  <1>2. ((256 * hi + lo) \div 1) % 2 = (lo \div 1) % 2
    BY <1>1
  <1>3. ((256 * hi + lo) \div 2) % 2 = (lo \div 2) % 2
    BY <1>1
  <1>4. ((256 * hi + lo) \div 4) % 2 = (lo \div 4) % 2
    BY <1>1
  <1>5. ((256 * hi + lo) \div 128) % 2 = (lo \div 128) % 2
    BY <1>1
  <1>6. QED
    BY <1>2, <1>3, <1>4, <1>5 DEF Bit

LEMMA LowBits ==
  ASSUME NEW word \in Word
  PROVE  /\ Bit(word, 1) = Bit(Lo(word), 1) /\ Bit(word, 2) = Bit(Lo(word), 2)
         /\ Bit(word, 4) = Bit(Lo(word), 4) /\ Bit(word, 128) = Bit(Lo(word), 128)
  BY WordSplit, ByteBits

\* The bytes and the nibbles of a word, from what is left of it without one nibble.
LEMMA WordNibbles ==
  ASSUME NEW word \in Word
  PROVE  /\ Hi(word) = (word \div 16) \div 16 /\ Lo(word) \div 16 = (word \div 16) % 16
         /\ word \div 4096 = Hi(word) \div 16
         /\ Lo(word) % 16 = word % 16
         /\ Hi(word) % 16 = (word % 4096) \div 256 /\ Lo(word) = (word % 4096) % 256
  <1>0. word \in Int /\ 0 <= word /\ word <= 65535
    BY WordRange
  <1>1. word \div 256 = (word \div 16) \div 16
    BY <1>0
  <1>2. (word % 256) \div 16 = (word \div 16) % 16
    BY <1>0
  <1>3. word \div 4096 = (word \div 256) \div 16
    BY <1>0
  <1>4. (word % 256) % 16 = word % 16
    BY <1>0
  <1>5. (word \div 256) % 16 = (word % 4096) \div 256
    BY <1>0
  <1>6. word % 256 = (word % 4096) % 256
    BY <1>0
  <1>7. QED
    BY <1>1, <1>2, <1>3, <1>4, <1>5, <1>6 DEF Hi, Lo

\* Which part of a word each of its flags is in.
LEMMA FlagNibbles ==
  ASSUME NEW word \in Word
  PROVE  /\ Bit(word, 1) = Bit(word % 16, 1) /\ Bit(word, 2) = Bit(word % 16, 2)
         /\ Bit(word, 4) = Bit(word % 16, 4) /\ Bit(word, 128) = Bit(word \div 16, 8)
         /\ Bit(word, 256) = Bit(Hi(word), 1) /\ Bit(word, 512) = Bit(Hi(word), 2)
         /\ Bit(word, 1024) = Bit(Hi(word), 4) /\ Bit(word, 2048) = Bit(Hi(word), 8)
         /\ Bit(word, 8192) = Bit(Hi(word), 32)
         /\ Bit(word, 256) = Bit(word % 4096, 256)
  <1>0. word \in Int /\ 0 <= word /\ word <= 65535
    BY WordRange
  <1>1. Bit(word, 1) = Bit(word % 16, 1) /\ Bit(word, 2) = Bit(word % 16, 2)
    BY <1>0 DEF Bit
  <1>2. Bit(word, 4) = Bit(word % 16, 4) /\ Bit(word, 128) = Bit(word \div 16, 8)
    BY <1>0 DEF Bit
  <1>3. Bit(word, 256) = Bit(Hi(word), 1) /\ Bit(word, 512) = Bit(Hi(word), 2)
    BY <1>0 DEF Bit, Hi
  <1>4. Bit(word, 1024) = Bit(Hi(word), 4) /\ Bit(word, 2048) = Bit(Hi(word), 8)
    BY <1>0 DEF Bit, Hi
  <1>5. Bit(word, 8192) = Bit(Hi(word), 32)
    BY <1>0 DEF Bit, Hi
  <1>6. Bit(word, 256) = Bit(word % 4096, 256)
    BY <1>0 DEF Bit
  <1>7. QED
    BY <1>1, <1>2, <1>3, <1>4, <1>5, <1>6

\* Counting up a byte whose first bit is clear sets that bit only ...
LEMMA CountUp ==
  ASSUME NEW byte \in Byte, ~Bit(byte, 1)
  PROVE  LET up == (byte + 1) % 256
         IN  /\ up \in Byte /\ Bit(up, 1) /\ Bit(up, 2) = Bit(byte, 2)
             /\ Bit(up, 4) = Bit(byte, 4) /\ Bit(up, 128) = Bit(byte, 128)
  <1>0. byte \in Int /\ 0 <= byte /\ byte <= 254 /\ byte % 2 = 0
    BY DEF Bit, Byte
  <1>1. (byte + 1) % 256 = byte + 1 /\ byte + 1 \in Byte
    BY <1>0 DEF Byte
  <1>2. ((byte + 1) \div 1) % 2 = 1
    BY <1>0
  <1>3. (byte + 1) \div 2 = byte \div 2
    BY <1>0
  <1>4. (byte + 1) \div 4 = byte \div 4
    BY <1>0
  <1>5. (byte + 1) \div 128 = byte \div 128
    BY <1>0
  <1>6. QED
    BY <1>1, <1>2, <1>3, <1>4, <1>5 DEF Bit

\* ... and counting down one whose first bit is set clears that bit only.
LEMMA CountDown ==
  ASSUME NEW byte \in Byte, Bit(byte, 1)
  PROVE  LET down == (byte + 255) % 256
         IN  /\ down \in Byte /\ ~Bit(down, 1) /\ Bit(down, 2) = Bit(byte, 2)
             /\ Bit(down, 4) = Bit(byte, 4) /\ Bit(down, 128) = Bit(byte, 128)
  <1>0. byte \in Int /\ 1 <= byte /\ byte <= 255 /\ byte % 2 = 1
    BY DEF Bit, Byte
  <1>1. (byte + 255) % 256 = byte - 1 /\ byte - 1 \in Byte
    BY <1>0 DEF Byte
  <1>2. ((byte - 1) \div 1) % 2 # 1
    BY <1>0
  <1>3. (byte - 1) \div 2 = byte \div 2
    BY <1>0
  <1>4. (byte - 1) \div 4 = byte \div 4
    BY <1>0
  <1>5. (byte - 1) \div 128 = byte \div 128
    BY <1>0
  <1>6. QED
    BY <1>1, <1>2, <1>3, <1>4, <1>5 DEF Bit

-----------------------------------------------------------------------------
(* The encoders of temperatures and compensations                          *)

\* A block whose first word differs in its high byte only has the same status.
LEMMA SameStatus ==
  ASSUME NEW r, NEW cur, NEW flag \in Byte, cur[0] \in Word, r[0] = 256 * flag + Lo(cur[0])
  PROVE  get_state(r) = get_state(cur)
  <1>1. /\ Bit(r[0], 1) = Bit(cur[0], 1) /\ Bit(r[0], 2) = Bit(cur[0], 2)
        /\ Bit(r[0], 4) = Bit(cur[0], 4) /\ Bit(r[0], 128) = Bit(cur[0], 128)
    BY WordSplit, LowBits, ByteBits
  <1>2. QED
    BY <1>1 DEF get_state

\* A temperature in the range of set_pump_ch_temp scales to a byte below 128.
LEMMA ScaledTemp ==
  ASSUME NEW temp \in 60 .. 500
  PROVE  temp \div 5 \in Byte /\ Signed8(temp \div 5) = temp \div 5
  <1>1. temp \div 5 \in Int /\ 0 <= temp \div 5 /\ temp \div 5 <= 100
    OBVIOUS
  <1>2. QED
    BY <1>1 DEF Byte, Signed8

LEMMA ScaledComp ==
  ASSUME NEW comp \in CompRange
  PROVE  Compensation(comp) \in Byte /\ 5 * (Compensation(comp) - 30) = HalfDegree(comp)
  <1>1. comp \in Int /\ -150 <= comp /\ comp <= 1129
    BY DEF CompRange
  <1>2. /\ (300 + 2 * comp) \div 10 \in Int
        /\ 0 <= (300 + 2 * comp) \div 10 /\ (300 + 2 * comp) \div 10 <= 255
    BY <1>1
  <1>3. ((300 + 2 * comp) \div 10) % 256 = (300 + 2 * comp) \div 10
    BY <1>2
  <1>4. (300 + 2 * comp) \div 10 \in Byte
    BY <1>2 DEF Byte
  <1>5. QED
    BY <1>3, <1>4 DEF Compensation, HalfDegree

\* set_ch_temp changes the central heating target and nothing else.
LEMMA SetChTempExact ==
  ASSUME NEW cur \in R101T, NEW temp \in 60 .. 500
  PROVE  Settings(set_ch_temp(cur, temp)) = [Settings(cur) EXCEPT !.ch = 5 * (temp \div 5)]
  <1> DEFINE r == set_ch_temp(cur, temp)
  <1>1. /\ r[0] = 1024 + Lo(cur[0]) /\ r[1] = Pack(temp \div 5, Lo(cur[1])) /\ r[5] = cur[5]
        /\ cur[0] \in Word /\ cur[1] \in Word
    BY DEF set_ch_temp, Kept, R101T
  <1>2. get_state(r) = get_state(cur)
    <2>1. 4 \in Byte /\ r[0] = 256 * 4 + Lo(cur[0])
      BY <1>1 DEF Byte
    <2>2. QED
      BY <1>1, <2>1, SameStatus
  <1>3. Hi(r[1]) = temp \div 5 /\ Lo(r[1]) = Lo(cur[1])
    <2>1. temp \div 5 \in Byte /\ Lo(cur[1]) \in Byte
      BY <1>1, WordSplit, ScaledTemp
    <2>2. QED
      BY <1>1, <2>1, PackParts
  <1>4. QED
    BY <1>1, <1>2, <1>3 DEF Settings, get_ch_temp, get_temp_compensation,
       get_dhw_target_temp, get_dhw_compensation

\* set_dhw_temp changes the hot water target and nothing else.
LEMMA SetDhwTempExact ==
  ASSUME NEW cur \in R101T, NEW temp \in 60 .. 500
  PROVE  Settings(set_dhw_temp(cur, temp)) = [Settings(cur) EXCEPT !.dhw = 5 * (temp \div 5)]
  <1> DEFINE r == set_dhw_temp(cur, temp)
  <1>1. /\ r[0] = Lo(cur[0]) /\ r[1] = cur[1] /\ r[5] = Pack(temp \div 5, Lo(cur[5]))
        /\ cur[0] \in Word /\ cur[5] \in Word
    BY DEF set_dhw_temp, Kept, R101T
  <1>2. get_state(r) = get_state(cur)
    <2>1. 0 \in Byte /\ Lo(cur[0]) = 256 * 0 + Lo(cur[0])
      BY <1>1, WordSplit DEF Byte
    <2>2. QED
      BY <1>1, <2>1, SameStatus
  <1>3. Hi(r[5]) = temp \div 5 /\ Lo(r[5]) = Lo(cur[5])
    <2>1. temp \div 5 \in Byte /\ Lo(cur[5]) \in Byte
      BY <1>1, WordSplit, ScaledTemp
    <2>2. QED
      BY <1>1, <2>1, PackParts
  <1>4. Signed8(Hi(r[5])) = temp \div 5
    BY <1>3, ScaledTemp
  <1>5. QED
    BY <1>1, <1>2, <1>3, <1>4 DEF Settings, get_ch_temp, get_temp_compensation,
       get_dhw_target_temp, get_dhw_compensation

\* set_temp_compensation changes the compensation of the central heating only ...
LEMMA SetTempCompensationExact ==
  ASSUME NEW cur \in R101T, NEW comp \in CompRange
  PROVE  Settings(set_temp_compensation(cur, comp))
           = [Settings(cur) EXCEPT !.comp = HalfDegree(comp)]
  <1> DEFINE r == set_temp_compensation(cur, comp)
  <1>1. /\ r[0] = 2048 + Lo(cur[0]) /\ r[1] = Pack(Hi(cur[1]), Compensation(comp))
        /\ r[5] = cur[5] /\ cur[0] \in Word /\ cur[1] \in Word
    BY DEF set_temp_compensation, Kept, R101T
  <1>2. get_state(r) = get_state(cur)
    <2>1. 8 \in Byte /\ r[0] = 256 * 8 + Lo(cur[0])
      BY <1>1 DEF Byte
    <2>2. QED
      BY <1>1, <2>1, SameStatus
  <1>3. Hi(r[1]) = Hi(cur[1]) /\ Lo(r[1]) = Compensation(comp)
    <2>1. Hi(cur[1]) \in Byte /\ Compensation(comp) \in Byte
      BY <1>1, WordSplit, ScaledComp
    <2>2. QED
      BY <1>1, <2>1, PackParts
  <1>4. QED
    BY <1>1, <1>2, <1>3, ScaledComp DEF Settings, get_ch_temp, get_temp_compensation,
       get_dhw_target_temp, get_dhw_compensation

\* ... and set_dhw_compensation that of the hot water only.
LEMMA SetDhwCompensationExact ==
  ASSUME NEW cur \in R101T, NEW comp \in CompRange
  PROVE  Settings(set_dhw_compensation(cur, comp))
           = [Settings(cur) EXCEPT !.dhw_comp = HalfDegree(comp)]
  <1> DEFINE r == set_dhw_compensation(cur, comp)
  <1>1. /\ r[0] = 2048 + Lo(cur[0]) /\ r[1] = cur[1]
        /\ r[5] = Pack(Hi(cur[5]), Compensation(comp)) /\ cur[0] \in Word /\ cur[5] \in Word
    BY DEF set_dhw_compensation, Kept, R101T
  <1>2. get_state(r) = get_state(cur)
    <2>1. 8 \in Byte /\ r[0] = 256 * 8 + Lo(cur[0])
      BY <1>1 DEF Byte
    <2>2. QED
      BY <1>1, <2>1, SameStatus
  <1>3. Hi(r[5]) = Hi(cur[5]) /\ Lo(r[5]) = Compensation(comp)
    <2>1. Hi(cur[5]) \in Byte /\ Compensation(comp) \in Byte
      BY <1>1, WordSplit, ScaledComp
    <2>2. QED
      BY <1>1, <2>1, PackParts
  <1>4. QED
    BY <1>1, <1>2, <1>3, ScaledComp DEF Settings, get_ch_temp, get_temp_compensation,
       get_dhw_target_temp, get_dhw_compensation

-----------------------------------------------------------------------------
(* set_state                                                               *)

\* The status written is that of the state byte alone, whatever the flag over it.
LEMMA StatusOfByte ==
  ASSUME NEW r, NEW flag \in Byte, NEW byte \in Byte, r[0] = 256 * flag + byte
  PROVE  get_state(r) = [ is_on |-> Bit(byte, 1), has_tank |-> Bit(byte, 128),
                          heat_mode |-> heat_mode(Bit(byte, 2), Bit(byte, 4)) ]
  BY ByteBits DEF get_state

\* The five constant state bytes mean what their names say.
LEMMA ConstantStates ==
  ASSUME NEW cur \in R101T, NEW state \in DOMAIN StateByte, NEW status
  PROVE  get_state(set_state(cur, state)) = Wanted(state, status)
  <1> DEFINE byte == StateByte[state]
  <1>1. state \in {"cooling", "heating", "dhw", "cool_dhw", "heat_dhw"}
    BY DEF StateByte
  <1>2. set_state(cur, state)[0] = 256 * 134 + byte /\ 134 \in Byte /\ byte \in Byte
    BY <1>1 DEF set_state, Kept, R101T, StateByte, Byte
  <1>3. get_state(set_state(cur, state))
          = [ is_on |-> Bit(byte, 1), has_tank |-> Bit(byte, 128),
              heat_mode |-> heat_mode(Bit(byte, 2), Bit(byte, 4)) ]
    BY <1>2, StatusOfByte
  <1> USE DEF Wanted, heat_mode, StateByte
  <1>4. CASE state = "cooling"
    <2>1. /\ Bit(3, 1) = TRUE /\ Bit(3, 2) = TRUE
          /\ Bit(3, 4) = FALSE /\ Bit(3, 128) = FALSE
      BY DEF Bit
    <2>2. QED
      BY <1>3, <1>4, <2>1
  <1>5. CASE state = "heating"
    <2>1. /\ Bit(5, 1) = TRUE /\ Bit(5, 2) = FALSE
          /\ Bit(5, 4) = TRUE /\ Bit(5, 128) = FALSE
      BY DEF Bit
    <2>2. QED
      BY <1>3, <1>5, <2>1
  <1>6. CASE state = "dhw"
    <2>1. /\ Bit(135, 1) = TRUE /\ Bit(135, 2) = TRUE
          /\ Bit(135, 4) = TRUE /\ Bit(135, 128) = TRUE
      BY DEF Bit
    <2>2. QED
      BY <1>3, <1>6, <2>1
  <1>7. CASE state = "cool_dhw"
    <2>1. /\ Bit(131, 1) = TRUE /\ Bit(131, 2) = TRUE
          /\ Bit(131, 4) = FALSE /\ Bit(131, 128) = TRUE
      BY DEF Bit
    <2>2. QED
      BY <1>3, <1>7, <2>1
  <1>8. CASE state = "heat_dhw"
    <2>1. /\ Bit(133, 1) = TRUE /\ Bit(133, 2) = FALSE
          /\ Bit(133, 4) = TRUE /\ Bit(133, 128) = TRUE
      BY DEF Bit
    <2>2. QED
      BY <1>3, <1>8, <2>1
  <1>9. QED
    BY <1>1, <1>4, <1>5, <1>6, <1>7, <1>8

\* ON and OFF change is_on and nothing else in the status, if the pump is switched.
LEMMA CountedStates ==
  ASSUME NEW cur \in R101T, NEW state \in {"on", "off"}, Switches(state, get_state(cur))
  PROVE  get_state(set_state(cur, state)) = Wanted(state, get_state(cur))
  <1> DEFINE lo == Lo(cur[0])
  <1>1. cur[0] \in Word /\ lo \in Byte /\ 1 \in Byte
    BY WordSplit DEF R101T, Byte
  <1>2. get_state(cur) = [ is_on |-> Bit(lo, 1), has_tank |-> Bit(lo, 128),
                           heat_mode |-> heat_mode(Bit(lo, 2), Bit(lo, 4)) ]
    BY <1>1, LowBits DEF get_state
  <1>3. CASE state = "on"
    <2>1. set_state(cur, state)[0] = 256 * 1 + ((lo + 1) % 256)
      BY <1>3 DEF set_state, Kept, R101T
    <2>2. ~Bit(lo, 1)
      BY <1>2, <1>3 DEF Switches
    <2>3. (lo + 1) % 256 \in Byte
      BY <1>1, <2>2, CountUp
    <2>4. get_state(set_state(cur, state))
            = [ is_on |-> TRUE, has_tank |-> Bit(lo, 128),
                heat_mode |-> heat_mode(Bit(lo, 2), Bit(lo, 4)) ]
      BY <1>1, <2>1, <2>2, <2>3, CountUp, StatusOfByte
    <2>5. QED
      BY <1>2, <1>3, <2>4 DEF Wanted
  <1>4. CASE state = "off"
    <2>1. set_state(cur, state)[0] = 256 * 1 + ((lo + 255) % 256)
      BY <1>4 DEF set_state, Kept, R101T
    <2>2. Bit(lo, 1)
      BY <1>2, <1>4 DEF Switches
    <2>3. (lo + 255) % 256 \in Byte
      BY <1>1, <2>2, CountDown
    <2>4. get_state(set_state(cur, state))
            = [ is_on |-> FALSE, has_tank |-> Bit(lo, 128),
                heat_mode |-> heat_mode(Bit(lo, 2), Bit(lo, 4)) ]
      BY <1>1, <2>1, <2>2, <2>3, CountDown, StatusOfByte
    <2>5. QED
      BY <1>2, <1>4, <2>4 DEF Wanted
  <1>5. QED
    BY <1>3, <1>4

\* set_state asks for the state it is named for and touches no other setting.
LEMMA SetStateExact ==
  ASSUME NEW cur \in R101T, NEW state \in States, Switches(state, get_state(cur))
  PROVE  Settings(set_state(cur, state))
           = [Settings(cur) EXCEPT !.status = Wanted(state, get_state(cur))]
  <1>1. get_state(set_state(cur, state)) = Wanted(state, get_state(cur))
    BY ConstantStates, CountedStates DEF States
  <1>2. set_state(cur, state)[1] = cur[1] /\ set_state(cur, state)[5] = cur[5]
    BY DEF set_state, Kept, R101T
  <1>3. QED
    BY <1>1, <1>2 DEF Settings, get_ch_temp, get_temp_compensation,
       get_dhw_target_temp, get_dhw_compensation

-----------------------------------------------------------------------------
(* Frames are blocks of words                                              *)

LEMMA LowWord ==
  ASSUME NEW word \in Word
  PROVE  Lo(word) \in Word /\ word % 16 \in Word /\ Lo(Lo(word)) = Lo(word)
         /\ Hi(Lo(word)) = 0
  <1>1. word \in Int /\ 0 <= word /\ word <= 65535
    BY WordRange
  <1>2. word % 256 \in Int /\ 0 <= word % 256 /\ word % 256 <= 255
    BY <1>1
  <1>3. word % 16 \in Int /\ 0 <= word % 16 /\ word % 16 <= 15
    BY <1>1
  <1>4. (word % 256) % 256 = word % 256 /\ (word % 256) \div 256 = 0
    BY <1>1
  <1>5. word % 256 \in Word /\ word % 16 \in Word
    BY <1>2, <1>3, WordRange
  <1>6. QED
    BY <1>4, <1>5 DEF Lo, Hi

\* A flag over a low byte.
LEMMA Flagged ==
  ASSUME NEW word \in Word, NEW flag \in Byte
  PROVE  /\ 256 * flag + Lo(word) \in Word
         /\ Lo(256 * flag + Lo(word)) = Lo(word) /\ Hi(256 * flag + Lo(word)) = flag
  BY WordSplit, WordJoin

LEMMA KeptBlock ==
  ASSUME NEW cur \in R101T
  PROVE  /\ Kept(cur) \in R101T
         /\ Kept(cur)[0] = Lo(cur[0]) /\ Kept(cur)[4] = Lo(cur[4])
         /\ Kept(cur)[1] = cur[1] /\ Kept(cur)[5] = cur[5]
  BY LowWord DEF Kept, R101T

\* Dropping the command flags changes no setting.
LEMMA KeptSettings ==
  ASSUME NEW r \in R101T
  PROVE  Settings(Kept(r)) = Settings(r)
  <1>1. r[0] \in Word
    BY DEF R101T
  <1>2. 0 \in Byte /\ Kept(r)[0] = 256 * 0 + Lo(r[0])
    BY <1>1, KeptBlock, WordSplit DEF Byte
  <1>3. get_state(Kept(r)) = get_state(r)
    BY <1>1, <1>2, SameStatus
  <1>4. QED
    BY <1>3, KeptBlock DEF Settings, get_ch_temp, get_temp_compensation,
       get_dhw_target_temp, get_dhw_compensation

\* The block of each command is made of words, carries its command flag, and differs
\* from the current one in one byte and the flags.
LEMMA ChBlock ==
  ASSUME NEW cur \in R101T, NEW temp \in 60 .. 500
  PROVE  LET r == set_ch_temp(cur, temp)
         IN  /\ r \in R101T /\ Hi(r[0]) = 4 /\ Hi(r[4]) = 0 /\ Lo(r[0]) = Lo(cur[0])
             /\ Lo(r[1]) = Lo(cur[1]) /\ r[1] = Pack(Hi(r[1]), Lo(cur[1])) /\ r[5] = cur[5]
  <1> DEFINE r == set_ch_temp(cur, temp)
             k == Kept(cur)
  <1>1. cur[0] \in Word /\ cur[1] \in Word /\ cur[4] \in Word /\ 4 \in Byte
    BY DEF R101T, Byte
  <1>2. temp \div 5 \in Byte /\ Lo(cur[1]) \in Byte
    BY <1>1, ScaledTemp, WordSplit
  <1>3. k \in R101T /\ k[0] = Lo(cur[0]) /\ k[4] = Lo(cur[4]) /\ k[1] = cur[1] /\ k[5] = cur[5]
    BY KeptBlock
  <1>4. 1024 + k[0] \in Word /\ Hi(1024 + k[0]) = 4 /\ Lo(1024 + k[0]) = Lo(cur[0])
    <2>1. 1024 + k[0] = 256 * 4 + Lo(cur[0])
      BY <1>3
    <2>2. QED
      BY <1>1, <2>1, Flagged
  <1>5. /\ Pack(temp \div 5, Lo(k[1])) \in Word
        /\ Hi(Pack(temp \div 5, Lo(k[1]))) = temp \div 5
        /\ Lo(Pack(temp \div 5, Lo(k[1]))) = Lo(cur[1])
    BY <1>2, <1>3, PackParts
  <1>6. Hi(Lo(cur[4])) = 0
    BY <1>1, LowWord
  <1> HIDE DEF k
  <1>7. r \in R101T
    BY <1>3, <1>4, <1>5 DEF set_ch_temp, R101T, k
  <1>8. /\ r[0] = 1024 + k[0] /\ r[1] = Pack(temp \div 5, Lo(k[1]))
        /\ r[4] = k[4] /\ r[5] = k[5]
    BY <1>3 DEF set_ch_temp, R101T, k
  <1> HIDE DEF r
  <1>9. QED
    BY <1>3, <1>4, <1>5, <1>6, <1>7, <1>8 DEF r

LEMMA DhwBlock ==
  ASSUME NEW cur \in R101T, NEW temp \in 60 .. 500
  PROVE  LET r == set_dhw_temp(cur, temp)
         IN  /\ r \in R101T /\ Hi(r[4]) = 2 /\ r[0] = Lo(cur[0]) /\ r[1] = cur[1]
             /\ Lo(r[5]) = Lo(cur[5]) /\ r[5] = Pack(Hi(r[5]), Lo(cur[5]))
  <1> DEFINE r == set_dhw_temp(cur, temp)
             k == Kept(cur)
  <1>1. cur[4] \in Word /\ cur[5] \in Word /\ 2 \in Byte
    BY DEF R101T, Byte
  <1>2. temp \div 5 \in Byte /\ Lo(cur[5]) \in Byte
    BY <1>1, ScaledTemp, WordSplit
  <1>3. k \in R101T /\ k[0] = Lo(cur[0]) /\ k[4] = Lo(cur[4]) /\ k[1] = cur[1] /\ k[5] = cur[5]
    BY KeptBlock
  <1>4. 512 + k[4] \in Word /\ Hi(512 + k[4]) = 2
    <2>1. 512 + k[4] = 256 * 2 + Lo(cur[4])
      BY <1>3
    <2>2. QED
      BY <1>1, <2>1, Flagged
  <1>5. /\ Pack(temp \div 5, Lo(k[5])) \in Word
        /\ Hi(Pack(temp \div 5, Lo(k[5]))) = temp \div 5
        /\ Lo(Pack(temp \div 5, Lo(k[5]))) = Lo(cur[5])
    BY <1>2, <1>3, PackParts
  <1> HIDE DEF k
  <1>6. r \in R101T
    BY <1>3, <1>4, <1>5 DEF set_dhw_temp, R101T, k
  <1>7. /\ r[0] = k[0] /\ r[1] = k[1] /\ r[4] = 512 + k[4]
        /\ r[5] = Pack(temp \div 5, Lo(k[5]))
    BY <1>3 DEF set_dhw_temp, R101T, k
  <1> HIDE DEF r
  <1>8. QED
    BY <1>3, <1>4, <1>5, <1>6, <1>7 DEF r

LEMMA StateBlock ==
  ASSUME NEW cur \in R101T, NEW state \in States
  PROVE  LET r == set_state(cur, state)
         IN  /\ r \in R101T /\ Hi(r[4]) = 0
             /\ Hi(r[0]) = IF state \in {"on", "off"} THEN 1 ELSE 134
             /\ r[1] = cur[1] /\ r[5] = cur[5]
  <1> DEFINE r == set_state(cur, state)
             k == Kept(cur)
  <1>1. cur[0] \in Word /\ cur[4] \in Word /\ Lo(cur[0]) \in Byte /\ 1 \in Byte /\ 134 \in Byte
    BY WordSplit DEF R101T, Byte
  <1>2. k \in R101T /\ k[0] = Lo(cur[0]) /\ k[4] = Lo(cur[4]) /\ k[1] = cur[1] /\ k[5] = cur[5]
    BY KeptBlock
  <1>3. Hi(Lo(cur[4])) = 0
    BY <1>1, LowWord
  <1>4. (k[0] + 1) % 256 \in Byte /\ (k[0] + 255) % 256 \in Byte
    <2>1. k[0] \in Byte
      BY <1>1, <1>2
    <2> HIDE DEF k
    <2>2. k[0] \in Int /\ 0 <= k[0] /\ k[0] <= 255
      BY <2>1 DEF Byte
    <2>3. /\ (k[0] + 1) % 256 \in Int /\ 0 <= (k[0] + 1) % 256 /\ (k[0] + 1) % 256 <= 255
          /\ (k[0] + 255) % 256 \in Int /\ 0 <= (k[0] + 255) % 256 /\ (k[0] + 255) % 256 <= 255
      BY <2>2
    <2>4. QED
      BY <2>3 DEF Byte
  <1> HIDE DEF k
  <1>5. r \in R101T /\ Hi(r[0]) = IF state \in {"on", "off"} THEN 1 ELSE 134
    <2>1. CASE state = "on"
      <3>1. 256 * 1 + ((k[0] + 1) % 256) \in Word /\ Hi(256 * 1 + ((k[0] + 1) % 256)) = 1
        BY <1>1, <1>4, WordJoin
      <3>2. r \in R101T
        BY <1>2, <2>1, <3>1 DEF set_state, R101T, k
      <3>3. r[0] = 256 * 1 + ((k[0] + 1) % 256)
        BY <1>2, <2>1 DEF set_state, R101T, k
      <3>4. QED
        BY <2>1, <3>1, <3>2, <3>3
    <2>2. CASE state = "off"
      <3>1. 256 * 1 + ((k[0] + 255) % 256) \in Word /\ Hi(256 * 1 + ((k[0] + 255) % 256)) = 1
        BY <1>1, <1>4, WordJoin
      <3>2. r \in R101T
        BY <1>2, <2>2, <3>1 DEF set_state, R101T, k
      <3>3. r[0] = 256 * 1 + ((k[0] + 255) % 256)
        BY <1>2, <2>2 DEF set_state, R101T, k
      <3>4. QED
        BY <2>2, <3>1, <3>2, <3>3
    <2>3. CASE state \in DOMAIN StateByte
      <3>1. StateByte[state] \in Byte /\ state # "on" /\ state # "off"
        BY <2>3 DEF StateByte, Byte
      <3>2. 256 * 134 + StateByte[state] \in Word /\ Hi(256 * 134 + StateByte[state]) = 134
        BY <1>1, <3>1, WordJoin
      <3>3. r \in R101T
        BY <1>2, <3>1, <3>2 DEF set_state, R101T, k
      <3>4. r[0] = 256 * 134 + StateByte[state]
        BY <1>2, <3>1 DEF set_state, R101T, k
      <3>5. QED
        BY <3>1, <3>2, <3>3, <3>4
    <2>4. QED
      BY <2>1, <2>2, <2>3 DEF States
  <1>6. r[4] = k[4] /\ r[1] = k[1] /\ r[5] = k[5]
    BY <1>2 DEF set_state, R101T, k
  <1> HIDE DEF r
  <1>7. QED
    BY <1>2, <1>3, <1>5, <1>6 DEF r

LEMMA ModeWord ==
  ASSUME NEW mode \in Modes
  PROVE  /\ set_mode(mode) \in Word /\ Lo(set_mode(mode)) \in Word
         /\ get_mode(Lo(set_mode(mode))) = mode
  <1>1. CASE mode = "eco"
    BY <1>1, WordRange DEF set_mode, get_mode, Lo
  <1>2. CASE mode = "quiet"
    BY <1>2, WordRange DEF set_mode, get_mode, Lo
  <1>3. CASE mode = "turbo"
    BY <1>3, WordRange DEF set_mode, get_mode, Lo
  <1>4. QED
    BY <1>1, <1>2, <1>3 DEF Modes

LEMMA KeptWords ==
  ASSUME NEW cur \in R101T
  PROVE  Hi(Kept(cur)[4]) = 0
  <1>1. Hi(Lo(cur[4])) = 0
    BY LowWord DEF R101T
  <1>2. QED
    BY <1>1 DEF Kept, R101T

LEMMA CompBlocks ==
  ASSUME NEW cur \in R101T, NEW comp \in CompRange,
         NEW r \in {set_temp_compensation(cur, comp), set_dhw_compensation(cur, comp)}
  PROVE  r \in R101T /\ Hi(r[0]) = 8 /\ Hi(r[4]) = 0
  <1> DEFINE k == Kept(cur)
             u == Pack(Hi(k[1]), Compensation(comp))
             v == Pack(Hi(k[5]), Compensation(comp))
  <1>1. cur[0] \in Word /\ cur[1] \in Word /\ cur[5] \in Word
    BY DEF R101T
  <1>2. /\ k \in R101T /\ k[0] = Lo(cur[0]) /\ k[1] = cur[1] /\ k[5] = cur[5]
        /\ Hi(k[4]) = 0
    BY KeptBlock, KeptWords
  <1>3. u \in Word /\ v \in Word
    BY <1>1, <1>2, WordSplit, ScaledComp, PackParts
  <1>4. 8 \in Byte /\ 2048 + k[0] = 256 * 8 + Lo(cur[0])
    BY <1>2 DEF Byte
  <1>5. 2048 + k[0] \in Word /\ Hi(2048 + k[0]) = 8
    BY <1>1, <1>4, Flagged
  <1> HIDE DEF k, u, v
  <1>6. CASE r = set_temp_compensation(cur, comp)
    <2>1. r = [k EXCEPT ![0] = 2048 + k[0], ![1] = u]
      BY <1>6 DEF set_temp_compensation, k, u
    <2>2. QED
      BY <1>2, <1>3, <1>5, <2>1 DEF R101T
  <1>7. CASE r = set_dhw_compensation(cur, comp)
    <2>1. r = [k EXCEPT ![0] = 2048 + k[0], ![5] = v]
      BY <1>7 DEF set_dhw_compensation, k, v
    <2>2. QED
      BY <1>2, <1>3, <1>5, <2>1 DEF R101T
  <1>8. QED
    BY <1>6, <1>7

LEMMA BitAdded ==
  ASSUME NEW byte \in Byte, NEW weight \in {8, 32}
  PROVE  SetBit(byte, weight) \in Byte
  <1>1. byte \in Int /\ 0 <= byte /\ byte <= 255
    BY DEF Byte
  <1> SUFFICES SetBit(byte, weight) \in Int /\ 0 <= SetBit(byte, weight)
               /\ SetBit(byte, weight) <= 255
    BY DEF Byte
  <1>2. CASE weight = 8
    BY <1>1, <1>2 DEF SetBit, Bit
  <1>3. CASE weight = 32
    BY <1>1, <1>3 DEF SetBit, Bit
  <1>4. QED
    BY <1>2, <1>3

LEMMA SwitchBlocks ==
  ASSUME NEW cur \in R101T, NEW enable \in BOOLEAN
  PROVE  LET h == set_heater(cur, enable)  p == set_pump(cur, enable)
         IN  /\ h \in R101T /\ Hi(h[0]) = 16 /\ Hi(h[4]) = 0
             /\ p \in R101T /\ Hi(p[0]) = 32 /\ Hi(p[4]) = 0
  <1> DEFINE k == Kept(cur)
             heater == IF enable THEN SetBit(k[0], 8) ELSE k[0]
             pumpon == IF enable THEN SetBit(k[0], 32) ELSE k[0]
  <1>1. cur[0] \in Word /\ Lo(cur[0]) \in Byte
    BY WordSplit DEF R101T
  <1>2. k \in R101T /\ k[0] = Lo(cur[0]) /\ Hi(k[4]) = 0
    BY KeptBlock, KeptWords
  <1>3. heater \in Byte /\ pumpon \in Byte /\ 16 \in Byte /\ 32 \in Byte
    <2>1. SetBit(k[0], 8) \in Byte /\ SetBit(k[0], 32) \in Byte
      BY <1>1, <1>2, BitAdded
    <2>2. heater \in Byte /\ pumpon \in Byte
      BY <1>1, <1>2, <2>1
    <2>3. QED
      BY <2>2 DEF Byte
  <1> HIDE DEF k, heater, pumpon
  <1>4. 4096 + heater = 256 * 16 + heater /\ 8192 + pumpon = 256 * 32 + pumpon
    OBVIOUS
  <1>5. /\ 4096 + heater \in Word /\ Hi(4096 + heater) = 16
        /\ 8192 + pumpon \in Word /\ Hi(8192 + pumpon) = 32
    BY <1>3, <1>4, WordJoin
  <1>6. set_heater(cur, enable) = [k EXCEPT ![0] = 4096 + heater]
    BY DEF set_heater, k, heater
  <1>7. set_pump(cur, enable) = [k EXCEPT ![0] = 8192 + pumpon]
    BY DEF set_pump, k, pumpon
  <1>8. QED
    BY <1>2, <1>5, <1>6, <1>7 DEF R101T

=============================================================================
