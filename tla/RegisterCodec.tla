----------------------------- MODULE RegisterCodec -----------------------------
(***************************************************************************)
(* The pure functions of fw/drivers/heatpump/haier_cmd.c: what the raw     *)
(* register blocks of the heat pump mean, and which block a command sends. *)
(*                                                                         *)
(* A block is a function from 0..n-1 to 16-bit words, as in the C arrays.  *)
(* Floats are modelled as whole tenths: 21.5 degrees is 215.  The count    *)
(* and NULL tests are left out: heatpump.c always passes the right ones.   *)
(***************************************************************************)
EXTENDS Integers

MaxWord == 65535
Word  == 0 .. MaxWord
R101T == [0..5 -> Word]     \* settings
R141T == [0..15 -> Word]    \* valve, tank and water temperatures, heater, pump
R241T == [0..21 -> Word]    \* compressor, fans, pressures, refrigerant, errors

Hi(word) == word \div 256
Lo(word) == word % 256
Pack(hi, lo) == ((hi * 256) % 65536) + lo

Bit(word, weight) == (word \div weight) % 2 = 1
SetBit(word, weight) == IF Bit(word, weight) THEN word ELSE word + weight

\* Two's complement of 8, 12 and 16 bits.
Signed8(x)  == IF x > 127 THEN x - 256 ELSE x
Signed12(x) == IF x > 2047 THEN x - 4096 ELSE x
Signed16(x) == IF x > 32767 THEN x - 65536 ELSE x

\* A 12-bit value: one nibble of a byte over a whole byte.
LowNibble(nibbles, low)  == (nibbles % 16) * 256 + low
HighNibble(nibbles, low) == (nibbles \div 16) * 256 + low

-----------------------------------------------------------------------------
(* Decoders of R101, the settings                                          *)

get_ch_temp(r) == 5 * Hi(r[1])
get_temp_compensation(r) == 5 * (Lo(r[1]) - 30)
get_dhw_target_temp(r) == 5 * Signed8(Hi(r[5]))
get_dhw_compensation(r) == 5 * (Lo(r[5]) - 30)

heat_mode(is_cool, is_heat) ==
  IF is_cool = is_heat THEN "none" ELSE IF is_cool THEN "cool" ELSE "heat"

get_state(r) ==
  [ is_on     |-> Bit(r[0], 1),
    has_tank  |-> Bit(r[0], 128),
    heat_mode |-> heat_mode(Bit(r[0], 2), Bit(r[0], 4)) ]

-----------------------------------------------------------------------------
(* Decoders of R141, R201 and R241                                         *)

OnOff(word, weight) == IF Bit(word, weight) THEN "on" ELSE "off"

get_3way_state(r) ==
  IF Bit(r[0], 512) THEN "dhw"
  ELSE IF Bit(r[0], 1024) THEN "ch"
  ELSE IF Bit(r[0], 2048) THEN "antifreeze"
  ELSE IF Bit(r[0], 8192) THEN "defrost" ELSE "off"

get_error(r) == Lo(r[0])
get_heater_state(r) == OnOff(r[3], 256)
get_pump_state(r) == OnOff(r[3], 512)
get_dhw_temp(r) == Signed16(r[13])
get_thi_tho_info(r) == [ ti |-> Signed12(LowNibble(Hi(r[7]), Lo(r[7]))),
                         to |-> Signed12(HighNibble(Hi(r[7]), Hi(r[8]))) ]
\* The water temperatures are the only 12-bit ones whose sign is not extended.
get_twi_two_info(r) == [ ti |-> LowNibble(Lo(r[5]), Hi(r[6])),
                         to |-> HighNibble(Lo(r[5]), Lo(r[6])) ]

get_mode(word) ==
  CASE word = 0 -> "eco" [] word = 1 -> "quiet" [] word = 2 -> "turbo" [] OTHER -> "invalid"

get_last_error(r) == Lo(r[0])
get_arch_errors(r) == << Hi(r[19]), Lo(r[19]), Hi(r[20]) >>
get_comp_info(r) == [ fact |-> Lo(r[2]), fset |-> Hi(r[3]), current |-> 2 * Hi(r[15]),
                      voltage |-> 40 * Lo(r[15]), temp |-> Lo(r[14]) ]
get_fans_rpm(r) == << 5 * Lo(r[3]), 5 * Hi(r[4]) >>
get_eev_level(r) == Hi(r[5])
get_firmware_version(r) == Hi(r[18])
get_pd_ps_info(r) == [ pd_set |-> 2 * Lo(r[5]), pd_act |-> 2 * Hi(r[6]),
                       ps_set |-> 2 * Hi(r[8]), ps_act |-> 2 * Lo(r[8]) ]
get_tao(r) == Signed12(r[12] % 4096)
get_tdef(r) == Signed12((r[12] \div 4096) * 256 + Hi(r[13]))
\* Mutant: both values take the low nibble of the byte they share.
get_td_ts_one_nibble(r) == [ td |-> Signed12(LowNibble(Lo(r[10]), Hi(r[11]))),
                             ts |-> Signed12(LowNibble(Lo(r[10]), Lo(r[11]))) ]
get_td_ts_info(r) == [ td |-> Signed12(LowNibble(Lo(r[10]), Hi(r[11]))),
                       ts |-> Signed12(HighNibble(Lo(r[10]), Lo(r[11]))) ]
get_tsat_pd_info(r) == [ target |-> Signed12(LowNibble(Lo(r[6]), Hi(r[7]))),
                         act    |-> Signed12(HighNibble(Lo(r[6]), Lo(r[7]))) ]
get_tsat_ps_info(r) == [ target |-> Signed12(LowNibble(Hi(r[9]), Lo(r[9]))),
                         act    |-> Signed12(HighNibble(Hi(r[9]), Hi(r[10]))) ]

\* Everything the driver can say about the settings in a block.
Settings(r) ==
  [ status |-> get_state(r), ch |-> get_ch_temp(r), comp |-> get_temp_compensation(r),
    dhw |-> get_dhw_target_temp(r), dhw_comp |-> get_dhw_compensation(r) ]

-----------------------------------------------------------------------------
(* Encoders: the block a command writes, from the current one              *)

\* Mutant: the mask of word 0 is one digit short, and half of the old flags stay.
KeptFlag(cur) ==
  [cur EXCEPT ![0] = @ % 4096, ![3] = @ % 16, ![4] = Lo(@)]

\* What every encoder keeps of the current block: the command flags, in the high
\* bytes of words 0 and 4, are cleared.
Kept(cur) ==
  [cur EXCEPT ![0] = Lo(@), ![3] = @ % 16, ![4] = Lo(@)]

\* Mutant: the compensation in the other byte is overwritten.
set_ch_temp_alone(cur, temp) ==
  [Kept(cur) EXCEPT ![0] = \h0400 + @, ![1] = Pack(temp \div 5, 0)]

set_ch_temp(cur, temp) ==
  [Kept(cur) EXCEPT ![0] = \h0400 + @, ![1] = Pack(temp \div 5, Lo(@))]

\* Mutant: tenths instead of half degrees, in more than 16 bits.
set_dhw_temp_wide(cur, temp) ==
  [Kept(cur) EXCEPT ![4] = \h0200 + @, ![5] = temp * 256 + Lo(@)]

\* Mutant: the temperature goes into the byte of the compensation.
set_dhw_temp_low(cur, temp) ==
  [Kept(cur) EXCEPT ![4] = \h0200 + @, ![5] = Pack(Hi(@), temp \div 5)]

set_dhw_temp(cur, temp) ==
  [Kept(cur) EXCEPT ![4] = \h0200 + @, ![5] = Pack(temp \div 5, Lo(@))]

\* The uint8_t a compensation is sent as; CompRange is what fits in it.
CompRange == -150 .. 1129
Compensation(comp) == ((300 + 2 * comp) \div 10) % 256

\* A compensation rounded to the half degree at or below it.
HalfDegree(comp) == 5 * ((300 + 2 * comp) \div 10 - 30)

\* Mutant: the compensation goes into the byte of the temperature.
set_temp_compensation_high(cur, comp) ==
  [Kept(cur) EXCEPT ![0] = \h0800 + @, ![1] = Pack(Compensation(comp), Lo(@))]

set_temp_compensation(cur, comp) ==
  [Kept(cur) EXCEPT ![0] = \h0800 + @, ![1] = Pack(Hi(@), Compensation(comp))]

set_dhw_compensation(cur, comp) ==
  [Kept(cur) EXCEPT ![0] = \h0800 + @, ![5] = Pack(Hi(@), Compensation(comp))]

\* The bit is only ever set: with enable = FALSE the current one is written back.
set_heater(cur, enable) ==
  [Kept(cur) EXCEPT ![0] = \h1000 + (IF enable THEN SetBit(@, 8) ELSE @)]

set_pump(cur, enable) ==
  [Kept(cur) EXCEPT ![0] = \h2000 + (IF enable THEN SetBit(@, 32) ELSE @)]

Modes == {"eco", "quiet", "turbo"}
set_mode(mode) ==
  \h0100 + (CASE mode = "eco" -> 0 [] mode = "quiet" -> 1 [] mode = "turbo" -> 2)

\* Mutant: cooling and heating with the tank are swapped.
StateByteSwapped == [cooling |-> 3, heating |-> 5, dhw |-> 135, cool_dhw |-> 133, heat_dhw |-> 131]

\* The state byte is replaced by a constant, except by ON and OFF, which count the
\* current one up or down.
StateByte == [cooling |-> 3, heating |-> 5, dhw |-> 135, cool_dhw |-> 131, heat_dhw |-> 133]
States == {"on", "off"} \union DOMAIN StateByte

set_state(cur, state) ==
  [Kept(cur) EXCEPT ![0] =
     CASE state = "on"  -> \h0100 + ((@ + 1) % 256)
       [] state = "off" -> \h0100 + ((@ + 255) % 256)
       [] OTHER         -> \h8600 + StateByte[state]]

-----------------------------------------------------------------------------
(* What the state commands are for                                         *)

\* What each command asks for, in the terms of get_state; ON and OFF leave the tank
\* and the heating mode as they are.
Wanted(state, status) ==
  CASE state = "on"       -> [status EXCEPT !.is_on = TRUE]
    [] state = "off"      -> [status EXCEPT !.is_on = FALSE]
    [] state = "cooling"  -> [is_on |-> TRUE, has_tank |-> FALSE, heat_mode |-> "cool"]
    [] state = "heating"  -> [is_on |-> TRUE, has_tank |-> FALSE, heat_mode |-> "heat"]
    [] state = "dhw"      -> [is_on |-> TRUE, has_tank |-> TRUE,  heat_mode |-> "none"]
    [] state = "cool_dhw" -> [is_on |-> TRUE, has_tank |-> TRUE,  heat_mode |-> "cool"]
    [] state = "heat_dhw" -> [is_on |-> TRUE, has_tank |-> TRUE,  heat_mode |-> "heat"]

\* ON and OFF count the state byte up and down, which is right for a pump in the
\* other state.
Switches(state, status) ==
  /\ state = "on" => ~status.is_on
  /\ state = "off" => status.is_on

=============================================================================
