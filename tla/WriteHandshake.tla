---------------------------- MODULE WriteHandshake ----------------------------
(***************************************************************************)
(* The control of the heat pump driver (fw/drivers/heatpump/heatpump.c):   *)
(* the client threads that call a set_pump_* function and run write_pump,  *)
(* and the sniffer thread that reads the heat pump's responses off the     *)
(* same UART and grants the line by giving write_sem after an R241         *)
(* response.  Registers and frames are added by HeatpumpDriver.            *)
(*                                                                         *)
(* The threads run on one core under Zephyr's preemptive scheduler, with   *)
(* different priorities, and are switched at every kernel call and at any  *)
(* interrupt: a step here is the code between two accesses to state that   *)
(* another thread also uses.                                               *)
(***************************************************************************)
EXTENDS Naturals

CONSTANTS
  Writers,      \* threads that may call set_pump_*: mqtt_sub and the shells
  Prompt,       \* TRUE: a runnable writer blocks again within the 300 ms hold
  HealthyBus    \* TRUE: an R241 response arrives within every 5000 ms wait

ASSUME HandshakeAssumption == Prompt \in BOOLEAN /\ HealthyBus \in BOOLEAN

VARIABLES
  write_sem,      \* count of the binary semaphore write_sem
  pending,        \* write_req_data.pending
  transmitting,   \* write_req_data.transmitting
  enable,         \* level of the transceiver's enable_gpio
  iface,          \* modbus_client_iface >= 0, as heatpump_init left it
  sniffer,        \* where the sniffer thread is in its loop
  frame,          \* the register block of the response it holds
  pc              \* where each writer is in set_pump_* and write_pump

vars == << write_sem, pending, transmitting, enable, iface, sniffer, frame, pc >>

\* The register blocks the sniffer tells apart by the payload length (0x0C, 0x20,
\* 0x02, 0x2C); "other" is any other length, which it reads and ignores.
Blocks == {"R101", "R141", "R201", "R241", "other"}

(***************************************************************************)
(* A writer blocked in k_sem_take is "waiting" until the sniffer has       *)
(* handled an R241 response without waking it, and "overdue" after that.   *)
(* The code does not tell the two apart: the difference only says when the *)
(* 5000 ms of a healthy bus can be over.                                   *)
(***************************************************************************)
Blocked  == {"waiting", "overdue"}
Runnable == {"reset", "raise", "take", "granted", "refused"}
Sending  == {"lead", "drive", "settle", "clear"}
WriterAt == {"idle", "encode"} \union Blocked \union Runnable \union Sending

SnifferAt == {"exited", "top", "read", "store", "check", "give", "hold"}

BlockedWriters == {w \in Writers : pc[w] \in Blocked}
Transmitters   == {w \in Writers : pc[w] \in Sending}

\* The sniffer owns data_mutex from storing an R241 response to the end of its
\* 300 ms sleep; every other critical section of data_mutex is one step here.
DataLocked == sniffer \in {"check", "give", "hold"}

Init ==
  /\ write_sem = 0
  /\ pending = FALSE /\ transmitting = FALSE /\ enable = FALSE
  /\ iface \in (IF HealthyBus THEN {TRUE} ELSE BOOLEAN)
  /\ sniffer \in (IF HealthyBus THEN {"top"} ELSE {"top", "exited"})
  /\ frame = "other"
  /\ pc = [w \in Writers |-> "idle"]

-----------------------------------------------------------------------------
(* Writers: set_pump_* and write_pump                                      *)

Goto(w, from, to) == pc[w] = from /\ pc' = [pc EXCEPT ![w] = to]

\* A client calls set_pump_* with an argument that passes its range check.
Call(w) ==
  /\ Goto(w, "idle", "encode")
  /\ UNCHANGED << write_sem, pending, transmitting, enable, iface, sniffer, frame >>

\* Under data_mutex the command is encoded into regs from the cached registers.
Encode(w) ==
  /\ ~DataLocked
  /\ Goto(w, "encode", "reset")
  /\ UNCHANGED << write_sem, pending, transmitting, enable, iface, sniffer, frame >>

\* write_pump returns -EINVAL at once when no Modbus interface was found.
NoIface(w) ==
  /\ ~iface
  /\ Goto(w, "reset", "idle")
  /\ UNCHANGED << write_sem, pending, transmitting, enable, iface, sniffer, frame >>

\* Mutant: the semaphore is not reset.
ResetNothing(w) ==
  /\ iface
  /\ Goto(w, "reset", "raise")
  /\ UNCHANGED << write_sem, pending, transmitting, enable, iface, sniffer, frame >>

\* k_sem_reset empties the semaphore and aborts every k_sem_take under way.
Reset(w) ==
  /\ iface
  /\ pc[w] = "reset"
  /\ write_sem' = 0
  /\ pc' = [x \in Writers |-> IF x = w THEN "raise"
                              ELSE IF pc[x] \in Blocked THEN "refused" ELSE pc[x]]
  /\ UNCHANGED << pending, transmitting, enable, iface, sniffer, frame >>

\* Mutant: the request is not announced to the sniffer.
RaiseNothing(w) ==
  /\ Goto(w, "raise", "take")
  /\ UNCHANGED << write_sem, pending, transmitting, enable, iface, sniffer, frame >>

Raise(w) ==
  /\ Goto(w, "raise", "take")
  /\ pending' = TRUE
  /\ UNCHANGED << write_sem, transmitting, enable, iface, sniffer, frame >>

\* k_sem_take finds the token ...
TakeToken(w) ==
  /\ write_sem = 1
  /\ Goto(w, "take", "granted")
  /\ write_sem' = 0
  /\ UNCHANGED << pending, transmitting, enable, iface, sniffer, frame >>

\* ... or blocks for up to 5000 ms.
Block(w) ==
  /\ write_sem = 0
  /\ Goto(w, "take", "waiting")
  /\ UNCHANGED << write_sem, pending, transmitting, enable, iface, sniffer, frame >>

\* Mutant: the semaphore is taken with K_FOREVER.
WaitForever(w) ==
  /\ pc[w] \in Blocked /\ write_sem = 1
  /\ pc' = [pc EXCEPT ![w] = "refused"]
  /\ UNCHANGED << write_sem, pending, transmitting, enable, iface, sniffer, frame >>

Timeout(w) ==
  /\ pc[w] \in (IF HealthyBus THEN {"overdue"} ELSE Blocked)
  /\ pc' = [pc EXCEPT ![w] = "refused"]
  /\ UNCHANGED << write_sem, pending, transmitting, enable, iface, sniffer, frame >>

\* Mutant: the whole write_req_data is cleared.
WithdrawAll(w) ==
  /\ Goto(w, "refused", "idle")
  /\ pending' = FALSE
  /\ transmitting' = FALSE
  /\ UNCHANGED << write_sem, enable, iface, sniffer, frame >>

\* Mutant: after a failed wait the semaphore, which has no limit, is given.
WithdrawAndGive(w) ==
  /\ Goto(w, "refused", "idle")
  /\ pending' = FALSE
  /\ write_sem' = write_sem + 1
  /\ UNCHANGED << transmitting, enable, iface, sniffer, frame >>

\* k_sem_take failed: "Write timeout", pending is withdrawn, -ETIMEDOUT.
Withdraw(w) ==
  /\ Goto(w, "refused", "idle")
  /\ pending' = FALSE
  /\ UNCHANGED << write_sem, transmitting, enable, iface, sniffer, frame >>

\* k_sem_take succeeded: the writer has the line.
Begin(w) ==
  /\ Goto(w, "granted", "lead")
  /\ transmitting' = TRUE
  /\ UNCHANGED << write_sem, pending, enable, iface, sniffer, frame >>

Drive(w) ==
  /\ Goto(w, "lead", "drive")
  /\ enable' = TRUE
  /\ UNCHANGED << write_sem, pending, transmitting, iface, sniffer, frame >>

\* After 1000 ms modbus_write_holding_regs sends the frame and awaits the reply.
Send(w) ==
  /\ Goto(w, "drive", "settle")
  /\ UNCHANGED << write_sem, pending, transmitting, enable, iface, sniffer, frame >>

\* Mutant: the sniffer is let in before the transaction is over.
ReleaseEarly(w) ==
  /\ Goto(w, "settle", "clear")
  /\ enable' = FALSE
  /\ transmitting' = FALSE
  /\ UNCHANGED << write_sem, pending, iface, sniffer, frame >>

\* After 200 ms the transceiver is released.
Release(w) ==
  /\ Goto(w, "settle", "clear")
  /\ enable' = FALSE
  /\ UNCHANGED << write_sem, pending, transmitting, iface, sniffer, frame >>

Clear(w) ==
  /\ Goto(w, "clear", "idle")
  /\ pending' = FALSE
  /\ transmitting' = FALSE
  /\ UNCHANGED << write_sem, enable, iface, sniffer, frame >>

-----------------------------------------------------------------------------
(* The sniffer thread                                                      *)

Turn(from, to) == sniffer = from /\ sniffer' = to

\* Mutant: the sniffer does not look at transmitting.
ListenAlways ==
  /\ Turn("top", "read")
  /\ UNCHANGED << write_sem, pending, transmitting, enable, iface, frame, pc >>

\* Mutant: the sniffer waits as soon as a request is pending.
ListenUnasked ==
  /\ sniffer = "top"
  /\ sniffer' = IF pending THEN "top" ELSE "read"
  /\ UNCHANGED << write_sem, pending, transmitting, enable, iface, frame, pc >>

\* While a frame is being sent the sniffer sleeps 100 ms and looks again.
Listen ==
  /\ ~transmitting
  /\ Turn("top", "read")
  /\ UNCHANGED << write_sem, pending, transmitting, enable, iface, frame, pc >>

\* A byte that starts no response, or a response cut short, is dropped.
Skip ==
  /\ Turn("read", "top")
  /\ UNCHANGED << write_sem, pending, transmitting, enable, iface, frame, pc >>

Receive(block) ==
  /\ Turn("read", "store")
  /\ frame' = block
  /\ UNCHANGED << write_sem, pending, transmitting, enable, iface, pc >>

\* The response is parsed under data_mutex, which is kept only after an R241.
Store ==
  /\ Turn("store", IF frame = "R241" THEN "check" ELSE "top")
  /\ UNCHANGED << write_sem, pending, transmitting, enable, iface, frame, pc >>

\* The slot passes over the blocked writers that are not served by it.
PassOver(served) ==
  [w \in Writers |-> IF w \in served THEN "granted"
                     ELSE IF pc[w] = "waiting" THEN "overdue" ELSE pc[w]]

NobodyAsks ==
  /\ ~pending
  /\ Turn("check", "top")
  /\ pc' = PassOver({})
  /\ UNCHANGED << write_sem, pending, transmitting, enable, iface, frame >>

SomebodyAsks ==
  /\ pending
  /\ Turn("check", "give")
  /\ UNCHANGED << write_sem, pending, transmitting, enable, iface, frame, pc >>

\* k_sem_give wakes one blocked writer; with none it leaves the token.
GiveTo(w) ==
  /\ w \in BlockedWriters
  /\ Turn("give", "hold")
  /\ pc' = PassOver({w})
  /\ UNCHANGED << write_sem, pending, transmitting, enable, iface, frame >>

GiveToNobody ==
  /\ BlockedWriters = {}
  /\ Turn("give", "hold")
  /\ write_sem' = 1
  /\ UNCHANGED << pending, transmitting, enable, iface, frame, pc >>

\* Mutant: the sniffer does not sleep after giving the semaphore.
WakeAtOnce ==
  /\ Turn("hold", "top")
  /\ UNCHANGED << write_sem, pending, transmitting, enable, iface, frame, pc >>

\* Mutant: instead of sleeping, the sniffer waits for the token to be taken.
WakeWhenTaken ==
  /\ write_sem = 0
  /\ Turn("hold", "top")
  /\ UNCHANGED << write_sem, pending, transmitting, enable, iface, frame, pc >>

\* k_msleep(300) is over and data_mutex is unlocked.
Wake ==
  /\ Prompt => \A w \in Writers : pc[w] \notin Runnable
  /\ Turn("hold", "top")
  /\ UNCHANGED << write_sem, pending, transmitting, enable, iface, frame, pc >>

-----------------------------------------------------------------------------
(* The specification                                                       *)

\* What a writer does on its own once it is called and has its registers.
Advance(w) ==
  \/ NoIface(w) \/ Reset(w) \/ Raise(w) \/ TakeToken(w) \/ Block(w)
  \/ Timeout(w) \/ Withdraw(w)
  \/ Begin(w) \/ Drive(w) \/ Send(w) \/ Release(w) \/ Clear(w)

Write(w) == Call(w) \/ Encode(w) \/ Advance(w)

\* What the sniffer does on its own once it has a response.
Handle ==
  \/ Listen \/ Store \/ NobodyAsks \/ SomebodyAsks
  \/ (\E w \in Writers : GiveTo(w)) \/ GiveToNobody \/ Wake

Sniff == Handle \/ Skip \/ \E block \in Blocks : Receive(block)

Next == Sniff \/ \E w \in Writers : Write(w)

\* A thread that can run does run; k_mutex_unlock hands data_mutex to a thread
\* that waits for it (strong fairness); a healthy bus keeps delivering R241.
Fairness ==
  /\ \A w \in Writers : WF_vars(Advance(w)) /\ SF_vars(Encode(w))
  /\ WF_vars(Handle)
  /\ HealthyBus => SF_vars(Receive("R241"))

Spec == Init /\ [][Next]_vars /\ Fairness

-----------------------------------------------------------------------------
(* Properties                                                              *)

TypeOK ==
  /\ write_sem \in {0, 1}
  /\ pending \in BOOLEAN /\ transmitting \in BOOLEAN /\ enable \in BOOLEAN
  /\ iface \in BOOLEAN
  /\ sniffer \in SnifferAt
  /\ frame \in Blocks
  /\ pc \in [Writers -> WriterAt]

\* Two clients never drive the RS485 line at once, although write_pump takes no
\* mutex of its own: the single token of write_sem is all that separates them.
OneTransmitter == \A v, w \in Transmitters : v = w

\* The sniffer never takes bytes off the UART while a writer is inside its
\* transaction (heatpump.c:52-59): it would swallow the reply modbus waits for.
QuietLine == sniffer = "read" => Transmitters = {}

\* The flag the sniffer obeys and the transceiver's direction pin never outlive
\* the transaction they announce, whatever the other writers reset meanwhile.
FlagsMatchLine ==
  /\ transmitting <=> Transmitters # {}
  /\ enable <=> \E w \in Writers : pc[w] \in {"drive", "settle"}

\* A writer starts to transmit only in the slot behind an R241 response, never on
\* a token left over from a slot nobody used (heatpump.c:42, 137-139).
SlotOnly ==
  [][\A w \in Writers : Begin(w) => sniffer = "hold" /\ frame = "R241"]_vars

\* The line as BusArbiter sees it.
LinePhase ==
  IF Transmitters # {} THEN "driven"
  ELSE IF sniffer = "hold" /\ (write_sem = 1 \/ \E w \in Writers : pc[w] = "granted")
  THEN "slot"
  ELSE IF sniffer = "read" THEN "listening" ELSE "idle"

Line == INSTANCE BusArbiter WITH phase <- LinePhase, driver <- Transmitters

\* The semaphore, the two flags and the 300 ms sleep together give the line the
\* discipline of BusArbiter: one driver, only from a slot, never while listening.
LineDiscipline == Line!LineSpec

\* Every set_pump_* call returns: neither data_mutex nor write_sem keeps a client
\* for ever, whatever the other clients do to pending and to the semaphore.
EveryCallReturns == \A w \in Writers : (pc[w] # "idle") ~> (pc[w] = "idle")

\* The sniffer always comes back to reading responses: no sequence of grants,
\* time-outs and aborted waits leaves transmitting set behind it.
ListeningResumes == (sniffer # "exited") ~> (sniffer = "read")

=============================================================================
