----------------------------- MODULE HeatpumpDriver -----------------------------
(***************************************************************************)
(* The heat pump driver with its data: WriteHandshake carries the control, *)
(* RegisterCodec the encodings, and here are the cached registers, the     *)
(* commands, the frames encoded from them and the heat pump's own settings.*)
(***************************************************************************)
EXTENDS WriteHandshake, RegisterCodec

CONSTANTS
  Requests,    \* what clients ask for: records [op, temp], [op, state] or [op, mode]
  Panels,      \* settings the pump starts with or is given at its own panel
  LossyLine,   \* TRUE: a frame may be lost, or modbus_write_holding_regs may fail
  MaxCalls,    \* bound on the calls of each client
  MaxPanel     \* bound on the changes made at the panel

Block101 == R101T
PumpImage == [R101 : Block101, R201 : Word]

ASSUME DriverAssumption ==
  /\ Panels \subseteq PumpImage
  /\ LossyLine \in BOOLEAN
  /\ MaxCalls \in Nat /\ MaxPanel \in Nat

VARIABLES
  pump,      \* the heat pump's R101 and R201
  payload,   \* the response being read, under the name of its block
  cache,     \* data->registers: R101 and R201
  cmd,       \* the request of the call each client is in
  out,       \* its regs: what write_pump is to write, and at which address
  ret,       \* what each client's last call returned
  basis,     \* history: the registers out was encoded from
  sent,      \* history: the pump has taken the frame of its last call
  calls,     \* calls made so far, for the bound MaxCalls
  panel      \* changes at the panel so far, for the bound MaxPanel

data == << pump, payload, cache, cmd, out, ret, basis, sent, calls, panel >>
driverVars == << vars, data >>

\* Static data is zero until the first response has been stored.
Blank == [R101 |-> [i \in 0..5 |-> 0], R201 |-> 0]

NoRequest == [op |-> "none"]

DriverInit ==
  /\ Init
  /\ pump \in Panels
  /\ payload = Blank /\ cache = Blank
  /\ cmd = [w \in Writers |-> NoRequest]
  /\ out = [w \in Writers |-> Blank]
  /\ basis = [w \in Writers |-> Blank]
  /\ ret = [w \in Writers |-> "none"]
  /\ sent = [w \in Writers |-> FALSE]
  /\ calls = [w \in Writers |-> 0] /\ panel = 0

-----------------------------------------------------------------------------
(* The set_pump_* functions                                                *)

Set(f, w, value) == [f EXCEPT ![w] = value]

InRange(c) ==
  \/ c.op \in {"ch", "dhw"} /\ c.temp \in 60 .. 500
  \/ c.op = "state" /\ c.state \in States
  \/ c.op = "mode" /\ c.mode \in Modes

Spend(w) == calls[w] < MaxCalls /\ calls' = Set(calls, w, calls[w] + 1)

\* An argument out of range is refused before anything else is done.
Reject(w) ==
  /\ pc[w] = "idle"
  /\ Spend(w)
  /\ \E c \in Requests : ~InRange(c)
  /\ ret' = Set(ret, w, "EINVAL")
  /\ UNCHANGED << vars, pump, payload, cache, cmd, out, basis, sent, panel >>

Ask(w) ==
  /\ Call(w)
  /\ Spend(w)
  /\ \E c \in Requests : InRange(c) /\ cmd' = Set(cmd, w, c)
  /\ ret' = Set(ret, w, "none")
  /\ sent' = Set(sent, w, FALSE)
  /\ UNCHANGED << pump, payload, cache, out, basis, panel >>

\* Mutant: the tank temperature is encoded as the heating temperature.
FrameMixed(c, regs) ==
  CASE c.op \in {"ch", "dhw"} -> [R101 |-> set_ch_temp(regs.R101, c.temp)]
    [] c.op = "state" -> [R101 |-> set_state(regs.R101, c.state)]
    [] c.op = "mode"  -> [R201 |-> set_mode(c.mode)]

\* The block write_pump is given, under the name of the block it is written to.
Frame(c, regs) ==
  CASE c.op = "ch"    -> [R101 |-> set_ch_temp(regs.R101, c.temp)]
    [] c.op = "dhw"   -> [R101 |-> set_dhw_temp(regs.R101, c.temp)]
    [] c.op = "state" -> [R101 |-> set_state(regs.R101, c.state)]
    [] c.op = "mode"  -> [R201 |-> set_mode(c.mode)]

EncodeFrame(w) ==
  /\ Encode(w)
  /\ out' = Set(out, w, Frame(cmd[w], cache))
  /\ basis' = Set(basis, w, cache)
  /\ UNCHANGED << pump, payload, cache, cmd, ret, sent, calls, panel >>

-----------------------------------------------------------------------------
(* write_pump                                                              *)

\* Steps that touch the semaphore, the flags and the pin only.
Negotiate(w) ==
  /\ \/ Reset(w) \/ Raise(w) \/ TakeToken(w) \/ Block(w) \/ Timeout(w)
     \/ Begin(w) \/ Drive(w) \/ Release(w)
  /\ UNCHANGED data

\* The pump takes over the whole block it is sent, without the command flags, ...
TakeBlock(image, f) ==
  IF "R101" \in DOMAIN f THEN [image EXCEPT !.R101 = Kept(f.R101)]
                         ELSE [image EXCEPT !.R201 = Lo(f.R201)]

\* ... or only the setting that the command flag names.
TakeField(image, f) ==
  IF "R101" \notin DOMAIN f THEN TakeBlock(image, f)
  ELSE IF Hi(f.R101[4]) = 2
    THEN [image EXCEPT !.R101[5] = Pack(Hi(f.R101[5]), Lo(@))]
  ELSE IF Hi(f.R101[0]) = 4
    THEN [image EXCEPT !.R101[1] = Pack(Hi(f.R101[1]), Lo(@))]
  ELSE [image EXCEPT !.R101[0] = Lo(f.R101[0])]

SendFrame(w) ==
  /\ Send(w)
  /\ \/ /\ pump' \in {TakeBlock(pump, out[w]), TakeField(pump, out[w])}
        /\ sent' = Set(sent, w, TRUE)
     \/ LossyLine /\ UNCHANGED << pump, sent >>
  /\ UNCHANGED << payload, cache, cmd, out, ret, basis, calls, panel >>

\* However write_pump ends, set_pump_* returns the encoder's result, which is 0;
\* its local variables are gone.
Return(w) ==
  /\ NoIface(w) \/ Withdraw(w) \/ Clear(w)
  /\ ret' = Set(ret, w, "ok")
  /\ cmd' = Set(cmd, w, NoRequest)
  /\ out' = Set(out, w, Blank)
  /\ basis' = Set(basis, w, Blank)
  /\ UNCHANGED << pump, payload, cache, sent, calls, panel >>

-----------------------------------------------------------------------------
(* The sniffer and the heat pump                                           *)

ReceiveBlock(block) ==
  /\ Receive(block)
  /\ payload' = IF block \in DOMAIN pump THEN [payload EXCEPT ![block] = pump[block]] ELSE payload
  /\ UNCHANGED << pump, cache, cmd, out, ret, basis, sent, calls, panel >>

StoreBlock ==
  /\ Store
  /\ cache' = [block \in DOMAIN cache |->
                 IF block = frame THEN payload[block] ELSE cache[block]]
  /\ payload' = Blank
  /\ UNCHANGED << pump, cmd, out, ret, basis, sent, calls, panel >>

\* Steps of the sniffer that touch neither registers nor payload.
Grant ==
  /\ \/ Listen \/ NobodyAsks \/ SomebodyAsks
     \/ (\E w \in Writers : GiveTo(w)) \/ GiveToNobody \/ Wake
  /\ UNCHANGED data

DropBytes == Skip /\ UNCHANGED data

\* Somebody changes the settings at the pump's own panel.
TurnKnob ==
  /\ panel < MaxPanel
  /\ panel' = panel + 1
  /\ pump' \in Panels
  /\ UNCHANGED << vars, payload, cache, cmd, out, ret, basis, sent, calls >>

-----------------------------------------------------------------------------
(* The specification                                                       *)

Proceed(w) == Negotiate(w) \/ SendFrame(w) \/ Return(w)
Serve == Grant \/ StoreBlock

DriverNext ==
  \/ \E w \in Writers : Reject(w) \/ Ask(w) \/ EncodeFrame(w) \/ Proceed(w)
  \/ Serve \/ DropBytes \/ TurnKnob
  \/ \E block \in Blocks : ReceiveBlock(block)

\* As in WriteHandshake.
DriverFairness ==
  /\ \A w \in Writers : WF_driverVars(Proceed(w)) /\ SF_driverVars(EncodeFrame(w))
  /\ WF_driverVars(Serve)
  /\ HealthyBus => SF_driverVars(ReceiveBlock("R241"))

DriverSpec == DriverInit /\ [][DriverNext]_driverVars /\ DriverFairness

-----------------------------------------------------------------------------
(* Properties                                                              *)

Commands == {c \in Requests : InRange(c)}

DriverTypeOK ==
  /\ TypeOK
  /\ pump \in PumpImage /\ payload \in PumpImage /\ cache \in PumpImage
  /\ cmd \in [Writers -> Requests \union {NoRequest}]
  /\ basis \in [Writers -> PumpImage]
  /\ out \in [Writers -> PumpImage \union [R101 : Block101] \union [R201 : Word]]
  /\ ret \in [Writers -> {"none", "EINVAL", "ok"}]
  /\ sent \in [Writers -> BOOLEAN]
  /\ calls \in [Writers -> 0 .. MaxCalls] /\ panel \in 0 .. MaxPanel

\* The settings a client can read back, and what a command makes of them.
PumpSettings(image) == [r101 |-> Settings(image.R101), mode |-> get_mode(image.R201)]

Commanded(settings, c) ==
  CASE c.op = "ch"    -> [settings EXCEPT !.r101.ch = 5 * (c.temp \div 5)]
    [] c.op = "dhw"   -> [settings EXCEPT !.r101.dhw = 5 * (c.temp \div 5)]
    [] c.op = "state" -> [settings EXCEPT !.r101.status = Wanted(c.state, @)]
    [] c.op = "mode"  -> [settings EXCEPT !.mode = c.mode]

SwitchesPump(c, image) ==
  c.op = "state" => Switches(c.state, get_state(image.R101))

\* A command encoded from registers that are still the pump's when its frame arrives
\* changes the setting it is named for as asked, and nothing else, whether the pump
\* takes over the block or the flagged setting only.
FreshWriteIsExact ==
  [][\A w \in Writers :
       SendFrame(w) /\ sent'[w] /\ basis[w] = pump /\ SwitchesPump(cmd[w], pump)
         => PumpSettings(pump') = Commanded(PumpSettings(pump), cmd[w])]_driverVars

\* One by one, the settings after a frame are those before it or those it asks for.
TakenOver(before, after, asked) ==
  /\ after.mode \in {before.mode, asked.mode}
  /\ \A s \in DOMAIN before.r101 : after.r101[s] \in {before.r101[s], asked.r101[s]}

\* The setting that a command is named for is as the frame asks.
Obeyed(c, after, asked) ==
  CASE c.op = "ch"    -> after.r101.ch = asked.r101.ch
    [] c.op = "dhw"   -> after.r101.dhw = asked.r101.dhw
    [] c.op = "state" -> after.r101.status = asked.r101.status
    [] c.op = "mode"  -> after.mode = asked.mode

\* However old the registers are that a command was encoded from, its frame sets what it
\* is named for, and can only bring back settings that those registers had: no two
\* settings that share a word are mixed into a third value.
StaleWriteIsOld ==
  [][\A w \in Writers :
       SendFrame(w) /\ sent'[w] /\ SwitchesPump(cmd[w], basis[w])
         => LET asked == Commanded(PumpSettings(basis[w]), cmd[w])
            IN  /\ TakenOver(PumpSettings(pump), PumpSettings(pump'), asked)
                /\ Obeyed(cmd[w], PumpSettings(pump'), asked)]_driverVars

\* "sets heater temperature" (shell.c:104): a call that returned 0 has put its
\* command on the pump.
AcceptedIsSent ==
  \A w \in Writers : pc[w] = "idle" /\ ret[w] = "ok" => sent[w]

\* With one client, a line that loses nothing and a bus that keeps polling, every
\* command that was accepted does reach the pump and takes effect there, also when
\* the panel or the cache changes while the client waits for its slot.
CommandTakesEffect ==
  \A w \in Writers, c \in Commands :
    (pc[w] = "reset" /\ cmd[w] = c /\ SwitchesPump(c, basis[w]))
      ~> (PumpSettings(pump) = Commanded(PumpSettings(pump), c))

\* "sets tank temperature" (shell.c:105): once the driver has heard of the pump's
\* settings, the frame of a command repeats all the other settings as the pump has
\* them at that moment.
SetTouchesOnlyItsField ==
  [][\A w \in Writers :
       SendFrame(w) /\ basis[w].R101 # Blank.R101 /\ SwitchesPump(cmd[w], basis[w])
         => PumpSettings(TakeBlock(pump, out[w])) = Commanded(PumpSettings(pump), cmd[w])
    ]_driverVars

=============================================================================
