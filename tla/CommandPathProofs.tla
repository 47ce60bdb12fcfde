--------------------------- MODULE CommandPathProofs ---------------------------
(***************************************************************************)
(* Proofs about CommandPath for any set of writers, any texts and any      *)
(* number of values in a packet.  The front ends call the driver of        *)
(* WriteHandshake and do nothing else to it, so its proofs carry over.     *)
(***************************************************************************)
EXTENDS CommandPath, WriteHandshakeProofs

\* mqtt_sub is inside the driver only while it runs a handler.
SubIdle == sub # "handler" => pc[Sub] = "idle"

CommandInv == CommandTypeOK /\ SubIdle

-----------------------------------------------------------------------------
(* The front ends implement WriteHandshake                                 *)

LEMMA ExecuteStep ==
  ASSUME NEW w \in Writers, NEW call, Execute(w, call)
  PROVE  [Next]_vars
  BY DEF Execute, Next, Write

LEMMA CommandStep == [CommandNext]_commandVars => [Next]_vars
  <1> SUFFICES ASSUME [CommandNext]_commandVars PROVE [Next]_vars
    OBVIOUS
  <1>1. CASE DriverStep
    BY <1>1 DEF DriverStep, Next, Write
  <1>2. ASSUME NEW name \in Names, NEW text \in Texts, dispatch_cmd(name, text) PROVE [Next]_vars
    BY <1>2, ExecuteStep, CommandAssumption DEF dispatch_cmd
  <1>3. ASSUME NEW name \in Names, NEW text \in Texts, NEW w \in Shells, ShellSet(w, name, text)
        PROVE [Next]_vars
    BY <1>3, ExecuteStep DEF ShellSet, Shells
  <1>4. CASE Relays
    BY <1>4 DEF Relays, cmd_set_relay
  <1>5. CASE Report \/ UNCHANGED commandVars
    BY <1>5 DEF Report, commandVars, Dispatched, WakeUp, MainPublishes, SubPublishes,
                MainReturns, SubReturns, Getter
  <1>6. CASE LinkChanges
    BY <1>6 DEF LinkChanges
  <1>7. QED
    BY <1>1, <1>2, <1>3, <1>4, <1>5, <1>6 DEF CommandNext, Commands

\* The driver under the MQTT commands, the shells and the status packets is the driver
\* of WriteHandshake: each step of the whole is one of its steps or none.
THEOREM CommandsUseDriver == CommandSpec => Init /\ [][Next]_vars
  <1>1. CommandInit => Init
    BY DEF CommandInit
  <1>2. QED
    BY <1>1, CommandStep, PTL DEF CommandSpec

\* Commands of the broker and of any number of shells are never sent at once.
THEOREM CommandsExclude == Prompt /\ CommandSpec => []OneTransmitter
  <1>1. Prompt /\ CommandSpec => []SlotInv
    BY StepsKeepSlot, CommandsUseDriver, PTL
  <1>2. QED
    BY <1>1, SlotFacts, PTL

\* The front ends and the packets leave the line the discipline of BusArbiter: a command of
\* the broker or of a shell is sent only from a slot that the pump's cycle opened.
THEOREM CommandsImplementArbiter == Prompt /\ CommandSpec => LineDiscipline /\ SlotOnly
  BY StepsImplementArbiter, StepsOnlyInSlot, CommandsUseDriver, PTL

-----------------------------------------------------------------------------
(* Type correctness                                                        *)

\* The driver never starts a command by itself.
LEMMA IdleStays ==
  ASSUME TypeOK, NEW w \in Writers, pc[w] = "idle",
         Sniff \/ \E v \in Writers : Encode(v) \/ Advance(v)
  PROVE  pc'[w] = "idle"
  <1> USE DEF TypeOK, Goto, Turn, Blocked
  <1>1. CASE Sniff
    <2>1. CASE Listen \/ Skip \/ Store \/ SomebodyAsks \/ GiveToNobody \/ Wake
               \/ \E block \in Blocks : Receive(block)
      BY <2>1 DEF Listen, Skip, Store, SomebodyAsks, GiveToNobody, Wake, Receive
    <2>2. CASE NobodyAsks \/ \E v \in Writers : GiveTo(v)
      BY <2>2 DEF NobodyAsks, GiveTo, PassOver, BlockedWriters
    <2>3. QED
      BY <1>1, <2>1, <2>2 DEF Sniff, Handle
  <1>2. ASSUME NEW v \in Writers, Encode(v) \/ Advance(v) PROVE pc'[w] = "idle"
    <2>1. CASE Encode(v) \/ NoIface(v) \/ Raise(v) \/ TakeToken(v) \/ Block(v)
      BY <2>1 DEF Encode, NoIface, Raise, TakeToken, Block
    <2>2. CASE Reset(v) \/ Timeout(v) \/ Withdraw(v)
      BY <2>2 DEF Reset, Timeout, Withdraw
    <2>3. CASE Begin(v) \/ Drive(v) \/ Send(v) \/ Release(v) \/ Clear(v)
      BY <2>3 DEF Begin, Drive, Send, Release, Clear
    <2>4. QED
      BY <1>2, <2>1, <2>2, <2>3 DEF Advance
  <1>3. QED
    BY <1>1, <1>2

LEMMA CommandInvInit == CommandInit => CommandInv
  <1> SUFFICES ASSUME CommandInit PROVE CommandInv
    OBVIOUS
  <1>1. TypeOK /\ pc[Sub] = "idle"
    BY TypeInit, CommandAssumption DEF CommandInit, Init
  <1>2. left \in [{"main", "sub"} -> 0 .. Values]
    BY CommandAssumption DEF CommandInit
  <1>3. QED
    BY <1>1, <1>2 DEF CommandInit, CommandInv, CommandTypeOK, SubIdle

LEMMA CommandInvStep == CommandInv /\ [CommandNext]_commandVars => CommandInv'
  <1> SUFFICES ASSUME CommandInv, [CommandNext]_commandVars PROVE CommandInv'
    OBVIOUS
  <1>0. TypeOK' /\ Sub \in Writers /\ Values \in Nat \ {0}
    BY CommandStep, TypeStep, CommandAssumption DEF CommandInv, CommandTypeOK
  <1> USE DEF CommandInv, CommandTypeOK, SubIdle
  <1>1. CASE DriverStep
    <2>1. pc[Sub] = "idle" => pc'[Sub] = "idle"
      BY <1>0, <1>1, IdleStays DEF DriverStep
    <2>2. QED
      BY <1>0, <1>1, <2>1 DEF DriverStep, frontend
  <1>2. ASSUME NEW name \in Names, NEW text \in Texts, dispatch_cmd(name, text) PROVE CommandInv'
    BY <1>0, <1>2 DEF dispatch_cmd
  <1>3. ASSUME NEW name \in Names, NEW text \in Texts, NEW w \in Shells, ShellSet(w, name, text)
        PROVE CommandInv'
    <2>1. pc'[Sub] = pc[Sub]
      BY <1>0, <1>3 DEF ShellSet, Execute, Call, Goto, TypeOK, Shells, vars
    <2>2. QED
      BY <1>0, <1>3, <2>1 DEF ShellSet, frontend
  <1>4. ASSUME NEW n \in RelayNumbers, NEW on \in BOOLEAN, cmd_set_relay(n, on) PROVE CommandInv'
    <2>1. relays' \in [0 .. RELAY_COUNT - 1 -> BOOLEAN]
      <3> DEFINE relay == n % 256
      <3>1. relay \in 0 .. 255
        BY CommandAssumption
      <3>2. relay \in 0 .. RELAY_COUNT - 1
        BY <1>4, <3>1 DEF cmd_set_relay, relay_refused, RELAY_COUNT
      <3>3. QED
        BY <1>4, <3>2 DEF cmd_set_relay, RELAY_COUNT
    <2>2. QED
      BY <1>0, <1>4, <2>1 DEF cmd_set_relay, vars
  <1>5. CASE Dispatched \/ WakeUp
    BY <1>0, <1>5 DEF Dispatched, WakeUp, vars
  <1>6. ASSUME NEW who \in {"main", "sub"}, Getter(who) PROVE CommandInv'
    BY <1>0, <1>6 DEF Getter, vars
  <1>7. CASE MainPublishes \/ SubPublishes
    BY <1>0, <1>7 DEF MainPublishes, SubPublishes, PublishMsg, vars
  <1>8. CASE MainReturns \/ SubReturns \/ LinkChanges
    BY <1>0, <1>8 DEF MainReturns, SubReturns, LinkChanges, vars
  <1>9. CASE UNCHANGED commandVars
    BY <1>0, <1>9 DEF commandVars, frontend, vars
  <1>10. QED
    BY <1>1, <1>2, <1>3, <1>4, <1>5, <1>6, <1>7, <1>8, <1>9 DEF CommandNext, Commands, Relays, Report

LEMMA CommandInvariant == CommandSpec => []CommandInv
  BY CommandInvInit, CommandInvStep, PTL DEF CommandSpec

\* The relays keep three outputs whatever number the shell was given, and the packets
\* under way the number of values they have.
THEOREM CommandTypeCorrect == CommandSpec => []CommandTypeOK
  <1>1. CommandInv => CommandTypeOK
    BY DEF CommandInv
  <1>2. QED
    BY <1>1, CommandInvariant, PTL

=============================================================================
