------------------------------- MODULE CodecWalk -------------------------------
(***************************************************************************)
(* A walk over register images, one flipped bit at a time, from the images *)
(* the heat pump may report, and what the decoders and encoders of         *)
(* RegisterCodec must do on every one of them.                             *)
(***************************************************************************)
EXTENDS RegisterCodec, FiniteSets

CONSTANTS
  Starts,     \* the images the walk starts from
  MaxFlips,   \* bound on the bits flipped
  Temps,      \* target temperatures asked for, in tenths of a degree
  Comps       \* compensations asked for, in tenths of a degree

Image == [R101 : R101T, R141 : R141T, R201 : Word, R241 : R241T]

ASSUME WalkAssumption ==
  /\ Starts \subseteq Image
  /\ MaxFlips \in Nat
  /\ Temps \subseteq 60 .. 500    \* the range check of set_pump_ch_temp and _dhw_temp
  /\ Comps \subseteq CompRange

VARIABLES
  regs,   \* the image: data->registers
  flips   \* bits flipped so far

walkVars == << regs, flips >>

Weights == {1, 2, 4, 8, 16, 32, 64, 128, 256, 512, 1024, 2048, 4096, 8192, 16384, 32768}

FlipBit(word, weight) == IF Bit(word, weight) THEN word - weight ELSE word + weight

WalkInit == regs \in Starts /\ flips = 0

\* One bit of one word changes.
Change(image) ==
  /\ flips < MaxFlips
  /\ flips' = flips + 1
  /\ regs' = image

WalkNext ==
  \E weight \in Weights :
    \/ \E i \in 0..5  : Change([regs EXCEPT !.R101[i] = FlipBit(@, weight)])
    \/ \E i \in 0..15 : Change([regs EXCEPT !.R141[i] = FlipBit(@, weight)])
    \/ Change([regs EXCEPT !.R201 = FlipBit(@, weight)])
    \/ \E i \in 0..21 : Change([regs EXCEPT !.R241[i] = FlipBit(@, weight)])

WalkSpec == WalkInit /\ [][WalkNext]_walkVars

-----------------------------------------------------------------------------
(* Properties                                                              *)

WalkTypeOK == regs \in Image /\ flips \in 0 .. MaxFlips

\* Every parameter the library decodes from an image, each under a name of its own.
Telemetry(image) ==
  LET r101 == image.R101  r141 == image.R141  r241 == image.R241
      status == get_state(r101)
      thitho == get_thi_tho_info(r141)    twitwo == get_twi_two_info(r141)
      comp == get_comp_info(r241)         pdps == get_pd_ps_info(r241)
      tdts == get_td_ts_info(r241)
      pd == get_tsat_pd_info(r241)        ps == get_tsat_ps_info(r241)
  IN  << status.is_on, status.has_tank, status.heat_mode, get_ch_temp(r101),
         get_temp_compensation(r101), get_dhw_target_temp(r101), get_dhw_compensation(r101),
         get_3way_state(r141), get_error(r141), get_heater_state(r141), get_pump_state(r141),
         get_dhw_temp(r141), thitho.ti, thitho.to, twitwo.ti, twitwo.to,
         get_mode(image.R201),
         get_last_error(r241), get_arch_errors(r241)[1], get_arch_errors(r241)[2],
         get_arch_errors(r241)[3], comp.fact, comp.fset, comp.current, comp.voltage, comp.temp,
         get_fans_rpm(r241)[1], get_fans_rpm(r241)[2], get_eev_level(r241),
         get_firmware_version(r241), pdps.pd_set, pdps.pd_act, pdps.ps_set, pdps.ps_act,
         get_tao(r241), get_tdef(r241), tdts.td, tdts.ts,
         pd.target, pd.act, ps.target, ps.act >>

\* No bit of a response belongs to two parameters: the nibbles that the decoders
\* cut out of shared bytes (haier_cmd.c:229-332) do not overlap.
OneBitOneParameter ==
  [][LET before == Telemetry(regs)  after == Telemetry(regs')
     IN  Cardinality({k \in DOMAIN before : before[k] # after[k]}) <= 1]_walkVars

\* The two bytes of a settings block that carry command flags, and a block without any.
Flags(r) == << Hi(r[0]), Hi(r[4]) >>
Unflagged == [i \in 0..5 |-> 0]

\* Block r carries exactly the flag byte that the same command (fresh) has when nothing
\* was flagged before, and none in the other place; and it is made of 16-bit words.
OwnFlag(r, fresh) ==
  /\ r \in R101T
  /\ Flags(r) = Flags(fresh)
  /\ Hi(r[0]) = 0 <=> Hi(r[4]) # 0

\* A frame carries one command: whatever flags the cached block still has in the high
\* bytes of words 0 and 4, from an earlier command or from the pump, none of them is sent
\* beside the new one, neither in the other word nor in the same byte (haier_cmd.c:339,
\* :345, :374 and their like), and nothing spills over 16 bits.
OneCommandFlag ==
  LET cur == regs.R101
  IN  /\ \A t \in Temps :
           /\ OwnFlag(set_ch_temp(cur, t), set_ch_temp(Unflagged, t))
           /\ OwnFlag(set_dhw_temp(cur, t), set_dhw_temp(Unflagged, t))
      /\ \A c \in Comps :
           /\ OwnFlag(set_temp_compensation(cur, c), set_temp_compensation(Unflagged, c))
           /\ OwnFlag(set_dhw_compensation(cur, c), set_dhw_compensation(Unflagged, c))
      /\ \A e \in BOOLEAN :
           /\ OwnFlag(set_heater(cur, e), set_heater(Unflagged, e))
           /\ OwnFlag(set_pump(cur, e), set_pump(Unflagged, e))
      /\ \A state \in States :
           OwnFlag(set_state(cur, state), set_state(Unflagged, state))

\* Each temperature and compensation encoder changes the setting it is named for, to
\* the half degree at or below the one asked for, and no other that is decoded.
TempSettersExact ==
  LET cur == regs.R101  was == Settings(cur)
  IN  /\ \A t \in Temps :
           /\ Settings(set_ch_temp(cur, t))  = [was EXCEPT !.ch = 5 * (t \div 5)]
           /\ Settings(set_dhw_temp(cur, t)) = [was EXCEPT !.dhw = 5 * (t \div 5)]
      /\ \A c \in Comps :
           /\ Settings(set_temp_compensation(cur, c)) = [was EXCEPT !.comp = HalfDegree(c)]
           /\ Settings(set_dhw_compensation(cur, c)) = [was EXCEPT !.dhw_comp = HalfDegree(c)]

\* A state command that switches the pump says exactly what was asked for, whatever
\* else is in the block, and touches no other setting.
StateSetterExact ==
  LET cur == regs.R101  was == Settings(cur)
  IN  \A state \in States :
        Switches(state, was.status) =>
          Settings(set_state(cur, state)) = [was EXCEPT !.status = Wanted(state, was.status)]

\* "sets heatpump state" (shell.c:107): HEATPUMP_STATE_ON asks for a pump that is on
\* and HEATPUMP_STATE_OFF for one that is off, also when it is so already.
StateSetterTotal ==
  \A state \in States :
    get_state(set_state(regs.R101, state)) = Wanted(state, get_state(regs.R101))

=============================================================================
