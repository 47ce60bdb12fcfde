------------------------------ MODULE BusArbiter ------------------------------
(***************************************************************************)
(* What the heat pump driver promises about the shared half-duplex line:   *)
(* at every moment the line is idle, or the sniffer is listening to it, or *)
(* a transmit slot is open, or exactly one writer drives it; and a writer  *)
(* gets the line only through a slot.  Nothing is said about semaphores,   *)
(* flags or threads: WriteHandshake implements this module.                *)
(***************************************************************************)

CONSTANT Writers    \* the client threads that may send a frame

VARIABLES
  phase,    \* "idle", "listening", "slot" or "driven"
  driver    \* the writers driving the line: empty or a singleton

lineVars == << phase, driver >>

LineInit == phase = "idle" /\ driver = {}

Change(from, to) == phase = from /\ phase' = to

\* The sniffer starts and stops reading bytes off the line.
Listen == Change("idle", "listening") /\ UNCHANGED driver
Hush   == Change("listening", "idle") /\ UNCHANGED driver

\* A slot opens after the last response of a polling cycle and may close unused.
OpenSlot  == Change("idle", "slot") /\ UNCHANGED driver
CloseSlot == Change("slot", "idle") /\ UNCHANGED driver

\* One writer takes the slot, and with it the line, until it lets go.
Seize(w)   == Change("slot", "driven") /\ driver' = {w}
LetGo(w)   == Change("driven", "idle") /\ driver = {w} /\ driver' = {}

LineNext == \/ Listen \/ Hush \/ OpenSlot \/ CloseSlot
            \/ \E w \in Writers : Seize(w) \/ LetGo(w)

LineSpec == LineInit /\ [][LineNext]_lineVars

=============================================================================
