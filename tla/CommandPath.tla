------------------------------ MODULE CommandPath ------------------------------
(***************************************************************************)
(* From the user to the driver and back: the commands of the MQTT topic    *)
(* (dispatch_cmd in fw/src/mqtt.c) and of the shell (fw/src/shell.c), and  *)
(* the status packets (get_status in fw/src/main.c) that main sends every  *)
(* 30 s and mqtt_sub sends after each command.  The driver under them is   *)
(* WriteHandshake: a command waits in write_pump for its slot, and each    *)
(* value of a packet waits for data_mutex.  The connection to the broker   *)
(* comes and goes as it likes here; what both threads do with it, and with *)
(* a command that mqtt_init itself reads, is in MqttLink.                  *)
(***************************************************************************)
EXTENDS WriteHandshake, Integers

CONSTANTS
  Sub,            \* the thread mqtt_sub; the other writers are shells
  Texts,          \* arguments: records [float, int]
  Values,         \* values that get_status reads under data_mutex, 7 in the code
  RelayNumbers    \* the numbers given to set_relay

(***************************************************************************)
(* float and int are what strtof and strtol make of a text, float in       *)
(* tenths.  The callers do not look where these stopped: what is no number *)
(* is read as 0.                                                           *)
(***************************************************************************)
ASSUME CommandAssumption ==
  Sub \in Writers /\ Values \in Nat \ {0} /\ RelayNumbers \subseteq Int

VARIABLES
  sub,      \* where mqtt_sub is: input, handler, status or init
  main,     \* main sleeps, is in get_status, or in mqtt_init
  left,     \* values of the packet that main and mqtt_sub have still to read
  link,     \* the connection: connected ("up", or "broken" and not known to be) or not
  told,     \* history: the status of the last command is still to come ("no"), was sent
            \* ("yes"), or the link was not up all the time ("cut")
  relays    \* the outputs of relay.c

frontend == << sub, main, left, link, told, relays >>
commandVars == << vars, frontend >>

Shells == Writers \ {Sub}
Names == {"ch", "dhw", "state", "mode"}
RELAY_COUNT == 3

CommandInit ==
  /\ Init
  /\ sub = "input" /\ main = "sleep"
  /\ left = [main |-> 0, sub |-> 0]
  /\ link = "down" /\ told = "yes"
  /\ relays = [r \in 0 .. RELAY_COUNT - 1 |-> FALSE]

-----------------------------------------------------------------------------
(* Commands                                                                *)

Temperature(setter, text) == [setter |-> setter, value |-> text.float]
Choice(setter, text) == [setter |-> setter, value |-> 10 * text.int]

\* cmd_ch, cmd_dhw, cmd_state and cmd_mode
handler(name, text) ==
  CASE name = "ch"    -> Temperature("set_ch_temp", text)
    [] name = "dhw"   -> Temperature("set_dhw_temp", text)
    [] name = "state" -> Choice("set_state", text)
    [] name = "mode"  -> Choice("set_mode", text)

\* cmd_set_ch, cmd_set_dhw, cmd_set_state and cmd_set_mode
cmd_set(name, text) ==
  CASE name = "ch"    -> Temperature("set_ch_temp", text)
    [] name = "dhw"   -> Temperature("set_dhw_temp", text)
    [] name = "state" -> Choice("set_state", text)
    [] name = "mode"  -> Choice("set_mode", text)

\* The range checks of set_pump_*, in tenths.
Accepts(call) ==
  CASE call.setter \in {"set_ch_temp", "set_dhw_temp"} -> call.value \in 60 .. 500
    [] call.setter = "set_mode"  -> call.value \in 0 .. 20
    [] call.setter = "set_state" -> call.value \in 0 .. 60

Execute(w, call) == IF Accepts(call) THEN Call(w) ELSE UNCHANGED vars

\* A payload "name text" with a name of cmd_list, which came while there was a session;
\* any other name is ignored.
dispatch_cmd(name, text) ==
  /\ sub = "input" /\ link # "down"
  /\ Execute(Sub, handler(name, text))
  /\ sub' = "handler"
  /\ told' = IF link = "up" THEN "no" ELSE "cut"
  /\ UNCHANGED << main, left, link, relays >>

\* Mutant: the handler's thread goes on without its status once the request is dropped.
Dispatched_sent ==
  /\ sub = "handler" /\ pc[Sub] = "clear"
  /\ sub' = "status"
  /\ left' = [left EXCEPT !.sub = Values]
  /\ UNCHANGED << vars, main, link, told, relays >>

\* The handler has returned, whatever came of it; after a second the status follows.
Dispatched ==
  /\ sub = "handler" /\ pc[Sub] = "idle"
  /\ sub' = "status"
  /\ left' = [left EXCEPT !.sub = Values]
  /\ UNCHANGED << vars, main, link, told, relays >>

\* hp set name text
ShellSet(w, name, text) ==
  /\ pc[w] = "idle"
  /\ Execute(w, cmd_set(name, text))
  /\ UNCHANGED frontend

\* Mutant: off by one.
relay_refused_late(n) == n > RELAY_COUNT

relay_refused(n) == n >= RELAY_COUNT

\* set_relay number state: the number is stored in a uint8_t before it is checked.
cmd_set_relay(number, on) ==
  LET relay == number % 256 IN
  /\ ~relay_refused(relay)
  /\ relays' = [r \in DOMAIN relays \union {relay} |-> IF r = relay THEN on ELSE relays[r]]
  /\ UNCHANGED << vars, sub, main, left, link, told >>

-----------------------------------------------------------------------------
(* Status packets                                                          *)

\* main's 30 s are over.
WakeUp ==
  /\ main = "sleep"
  /\ main' = "status"
  /\ left' = [left EXCEPT !.main = Values]
  /\ UNCHANGED << vars, sub, link, told, relays >>

\* One getter of the driver, under data_mutex.
Getter(who) ==
  /\ left[who] > 0 /\ ~DataLocked
  /\ left' = [left EXCEPT ![who] = @ - 1]
  /\ UNCHANGED << vars, sub, main, link, told, relays >>

\* publish_msg: without the flag it calls mqtt_init and publishes nothing.  With it, what
\* is published on a broken connection is lost, or fails, and then the library has ended
\* the connection.
PublishMsg == IF link = "broken" THEN link' \in {"broken", "down"} ELSE UNCHANGED link

MainPublishes ==
  /\ main = "status" /\ left.main = 0
  /\ main' = IF link = "down" THEN "init" ELSE "sleep"
  /\ PublishMsg
  /\ UNCHANGED << vars, sub, left, told, relays >>

SubPublishes ==
  /\ sub = "status" /\ left.sub = 0
  /\ sub' = IF link = "down" THEN "init" ELSE "input"
  /\ PublishMsg
  /\ told' = IF link = "up" THEN "yes" ELSE "cut"
  /\ UNCHANGED << vars, main, left, relays >>

\* mqtt_init returns after 50 polls at most, with a connection or without.
MainReturns ==
  /\ main = "init"
  /\ main' = "sleep"
  /\ UNCHANGED << vars, sub, left, link, told, relays >>

SubReturns ==
  /\ sub = "init"
  /\ sub' = "input"
  /\ UNCHANGED << vars, main, left, link, told, relays >>

\* The connection breaks, is noticed to be broken, or is made again, by either thread, the
\* broker or the network.
LinkChanges ==
  /\ link' \in {"up", "broken", "down"} \ {link}
  /\ link' = "broken" => link = "up"
  /\ told' = IF told = "no" THEN "cut" ELSE told
  /\ UNCHANGED << vars, sub, main, left, relays >>

-----------------------------------------------------------------------------
(* The specification                                                       *)

\* The driver, once a command has called it.
DriverStep ==
  /\ Sniff \/ \E w \in Writers : Encode(w) \/ Advance(w)
  /\ UNCHANGED frontend

Commands ==
  \E name \in Names, text \in Texts :
    dispatch_cmd(name, text) \/ \E w \in Shells : ShellSet(w, name, text)

Relays == \E n \in RelayNumbers, on \in BOOLEAN : cmd_set_relay(n, on)

Report ==
  \/ Dispatched \/ WakeUp \/ MainPublishes \/ SubPublishes \/ MainReturns \/ SubReturns
  \/ \E who \in {"main", "sub"} : Getter(who)

CommandNext == DriverStep \/ Commands \/ Relays \/ Report \/ LinkChanges

\* As Fairness of WriteHandshake, and for the threads that send packets.
CommandFairness ==
  /\ \A w \in Writers : /\ WF_commandVars(Advance(w) /\ UNCHANGED frontend)
                        /\ SF_commandVars(Encode(w) /\ UNCHANGED frontend)
  /\ WF_commandVars(Handle /\ UNCHANGED frontend)
  /\ WF_commandVars(WakeUp) /\ WF_commandVars(MainPublishes)
  /\ WF_commandVars(Dispatched) /\ WF_commandVars(SubPublishes)
  /\ WF_commandVars(MainReturns) /\ WF_commandVars(SubReturns)
  /\ SF_commandVars(Getter("main")) /\ SF_commandVars(Getter("sub"))

CommandSpec == CommandInit /\ [][CommandNext]_commandVars /\ CommandFairness

-----------------------------------------------------------------------------
(* Properties                                                              *)

CommandTypeOK ==
  /\ TypeOK
  /\ sub \in {"input", "handler", "status", "init"} /\ main \in {"sleep", "status", "init"}
  /\ left \in [{"main", "sub"} -> 0 .. Values]
  /\ link \in {"up", "broken", "down"} /\ told \in {"no", "yes", "cut"}
  /\ relays \in [0 .. RELAY_COUNT - 1 -> BOOLEAN]

\* Every command of the list lets mqtt_sub go back to its input, whether it was refused,
\* timed out waiting for its slot or was sent, and whatever the shells, main and the link
\* do meanwhile; and if the link was up from the command on, a status packet has then
\* been sent (mqtt.c:101-109, :193-216).  When it was not, none need be: publish_msg
\* calls mqtt_init instead, or loses the packet.
EveryCommandReported == (sub # "input") ~> (sub = "input" /\ told # "no")

\* main's packets go on: none of the locks of data_mutex keeps main for ever,
\* although the sniffer sleeps 300 ms with it and the writers queue for it.
PacketsGoOn == []<>(main = "sleep") /\ []<>(main = "status")

=============================================================================
