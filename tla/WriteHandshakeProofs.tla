------------------------- MODULE WriteHandshakeProofs -------------------------
(***************************************************************************)
(* Proofs about WriteHandshake for any set of writers.  The semaphore      *)
(* excludes nobody by itself: that it does rests on the inductive          *)
(* invariant SlotInv below, which needs the 300 ms hold to be long enough  *)
(* for every runnable writer to block again (Prompt).                      *)
(***************************************************************************)
EXTENDS WriteHandshake, TLAPS

\* The writers the current slot belongs to.
Holders == {w \in Writers : pc[w] \in {"granted"} \union Sending}

\* At most one writer holds the slot.
OneHolder == \A v, w \in Holders : v = w

\* A token that was given and not taken excludes a holder, and a blocked writer.
TokenIsFree ==
  write_sem = 1 => Holders = {} /\ BlockedWriters = {}

\* A token outside the hold cannot be taken: whoever is in write_pump has yet to
\* call k_sem_reset.
NoStaleTake ==
  write_sem = 1 /\ sniffer # "hold" => \A w \in Writers : pc[w] \notin {"raise", "take"}

\* A granted writer runs inside the hold; while one sends, the sniffer is in the
\* hold or stopped by the transmitting flag.
HoldCovers ==
  \A w \in Writers : /\ pc[w] = "granted" => sniffer = "hold"
                     /\ pc[w] \in Sending => sniffer \in {"hold", "top"}

\* The hold is behind an R241 response.
HoldFrame == DataLocked => frame = "R241"

SlotInv ==
  /\ TypeOK
  /\ OneHolder /\ TokenIsFree /\ NoStaleTake /\ HoldCovers /\ HoldFrame
  /\ FlagsMatchLine

-----------------------------------------------------------------------------
(* Type correctness                                                        *)

LEMMA TypeInit == Init => TypeOK
  BY HandshakeAssumption
     DEF Init, TypeOK, SnifferAt, Blocks, WriterAt, Blocked, Runnable, Sending

LEMMA TypeStep == TypeOK /\ [Next]_vars => TypeOK'
  <1> SUFFICES ASSUME TypeOK, [Next]_vars PROVE TypeOK'
    OBVIOUS
  <1> USE DEF TypeOK, SnifferAt, Blocks, WriterAt, Blocked, Runnable, Sending, Goto, Turn
  <1>1. ASSUME NEW w \in Writers, Write(w) PROVE TypeOK'
    <2>0. CASE Call(w) \/ Encode(w) \/ NoIface(w)
      BY <2>0 DEF Call, Encode, NoIface
    <2>1. CASE Raise(w) \/ TakeToken(w) \/ Block(w)
      BY <2>1 DEF Raise, TakeToken, Block
    <2>2. CASE Reset(w)
      BY <2>2 DEF Reset
    <2>3. CASE Timeout(w) \/ Withdraw(w)
      BY <2>3 DEF Timeout, Withdraw
    <2>4. CASE Begin(w) \/ Drive(w) \/ Send(w) \/ Release(w) \/ Clear(w)
      BY <2>4 DEF Begin, Drive, Send, Release, Clear
    <2>5. QED
      BY <1>1, <2>0, <2>1, <2>2, <2>3, <2>4 DEF Write, Advance
  <1>2. CASE Sniff
    <2>1. CASE Listen \/ Skip \/ Store \/ SomebodyAsks \/ GiveToNobody \/ Wake
      BY <2>1 DEF Listen, Skip, Store, SomebodyAsks, GiveToNobody, Wake
    <2>2. CASE \E block \in Blocks : Receive(block)
      BY <2>2 DEF Receive
    <2>3. CASE NobodyAsks \/ \E w \in Writers : GiveTo(w)
      BY <2>3 DEF NobodyAsks, GiveTo, PassOver
    <2>4. QED
      BY <1>2, <2>1, <2>2, <2>3 DEF Sniff, Handle
  <1>3. CASE UNCHANGED vars
    BY <1>3 DEF vars
  <1>4. QED
    BY <1>1, <1>2, <1>3 DEF Next

\* In every reachable state each flag, the semaphore and each thread's place has a
\* value of its type; nothing is assumed of the scheduler or of the bus.
THEOREM TypeCorrect == Spec => []TypeOK
  BY TypeInit, TypeStep, PTL DEF Spec

-----------------------------------------------------------------------------
(* The slot invariant                                                      *)

LEMMA SlotInit == Init => SlotInv
  BY TypeInit DEF Init, SlotInv, OneHolder, TokenIsFree, NoStaleTake, HoldCovers, HoldFrame,
     FlagsMatchLine, Holders, BlockedWriters, Transmitters, Blocked, Sending, DataLocked

\* No step of a writer before it holds the slot disturbs the invariant: k_sem_reset
\* only empties the semaphore, and a token is taken only inside the hold.
LEMMA SlotEnter ==
  ASSUME SlotInv, TypeOK', NEW w \in Writers,
         Call(w) \/ Encode(w) \/ NoIface(w) \/ Reset(w) \/ Raise(w) \/ TakeToken(w)
         \/ Block(w) \/ Timeout(w) \/ Withdraw(w)
  PROVE  SlotInv'
  <1> USE DEF SlotInv, TypeOK, OneHolder, TokenIsFree, NoStaleTake, HoldCovers, HoldFrame,
      FlagsMatchLine, Holders, BlockedWriters, Transmitters, Blocked, Sending, DataLocked, Goto
  <1>1. CASE Call(w) \/ Encode(w)
    BY <1>1 DEF Call, Encode
  <1>2. CASE NoIface(w) \/ Withdraw(w)
    BY <1>2 DEF NoIface, Withdraw
  <1>3. CASE Reset(w)
    BY <1>3 DEF Reset
  <1>4. CASE Raise(w)
    BY <1>4 DEF Raise
  <1>5. CASE TakeToken(w)
    BY <1>5 DEF TakeToken
  <1>6. CASE Block(w)
    BY <1>6 DEF Block
  <1>7. CASE Timeout(w)
    BY <1>7 DEF Timeout
  <1>8. QED
    BY <1>1, <1>2, <1>3, <1>4, <1>5, <1>6, <1>7

\* The holder's own steps keep it the only holder and keep its flags right.
LEMMA SlotDrive ==
  ASSUME SlotInv, TypeOK', NEW w \in Writers,
         Begin(w) \/ Drive(w) \/ Send(w) \/ Release(w) \/ Clear(w)
  PROVE  SlotInv'
  <1> USE DEF SlotInv, TypeOK, OneHolder, TokenIsFree, NoStaleTake, HoldCovers, HoldFrame,
      FlagsMatchLine, Holders, BlockedWriters, Transmitters, Blocked, Sending, DataLocked, Goto
  <1>1. CASE Begin(w)
    BY <1>1 DEF Begin
  <1>2. CASE Drive(w)
    BY <1>2 DEF Drive
  <1>3. CASE Send(w)
    BY <1>3 DEF Send
  <1>4. CASE Release(w)
    BY <1>4 DEF Release
  <1>5. CASE Clear(w)
    BY <1>5 DEF Clear
  <1>6. QED
    BY <1>1, <1>2, <1>3, <1>4, <1>5

\* The sniffer opens a slot only when nobody holds one, and leaves the hold with
\* no writer between k_sem_reset and k_sem_take.
LEMMA SlotSniff ==
  ASSUME Prompt, SlotInv, TypeOK', Sniff
  PROVE  SlotInv'
  <1> USE DEF SlotInv, TypeOK, OneHolder, TokenIsFree, NoStaleTake, HoldCovers, HoldFrame,
      FlagsMatchLine, Holders, BlockedWriters, Transmitters, Blocked, Sending, DataLocked, Turn
  <1>1. CASE Listen
    BY <1>1 DEF Listen
  <1>2. CASE Skip \/ \E block \in Blocks : Receive(block)
    BY <1>2 DEF Skip, Receive
  <1>3. CASE Store
    BY <1>3 DEF Store
  <1>4. CASE NobodyAsks
    BY <1>4 DEF NobodyAsks, PassOver
  <1>5. CASE SomebodyAsks
    BY <1>5 DEF SomebodyAsks
  <1>6. ASSUME NEW w \in Writers, GiveTo(w) PROVE SlotInv'
    BY <1>6 DEF GiveTo, PassOver
  <1>7. CASE GiveToNobody
    BY <1>7 DEF GiveToNobody
  <1>8. CASE Wake
    BY <1>8 DEF Wake, Runnable
  <1>9. QED
    BY <1>1, <1>2, <1>3, <1>4, <1>5, <1>6, <1>7, <1>8 DEF Sniff, Handle

LEMMA SlotStep ==
  ASSUME Prompt, SlotInv, [Next]_vars
  PROVE  SlotInv'
  <1>1. TypeOK'
    BY TypeStep DEF SlotInv
  <1>2. ASSUME NEW w \in Writers, Write(w) PROVE SlotInv'
    BY <1>1, <1>2, SlotEnter, SlotDrive DEF Write, Advance
  <1>3. CASE Sniff
    BY <1>1, <1>3, SlotSniff
  <1>4. CASE UNCHANGED vars
    BY <1>4 DEF vars, SlotInv, TypeOK, OneHolder, TokenIsFree, NoStaleTake, HoldCovers,
       HoldFrame, FlagsMatchLine, Holders, BlockedWriters, Transmitters, DataLocked
  <1>5. QED
    BY <1>2, <1>3, <1>4 DEF Next

\* Every behaviour made of the driver's steps keeps the invariant, whatever else it does:
\* the modules that compose the driver with other parts of the system cite this one.
THEOREM StepsKeepSlot == Prompt /\ Init /\ [][Next]_vars => []SlotInv
  <1>1. CASE Prompt
    <2>1. SlotInv /\ [Next]_vars => SlotInv'
      BY <1>1, SlotStep
    <2>2. QED
      BY <2>1, SlotInit, PTL
  <1>2. QED
    BY <1>1

\* The invariant on which the exclusion rests holds for any set of writers.
THEOREM SlotInvariant == Prompt /\ Spec => []SlotInv
  BY StepsKeepSlot, PTL DEF Spec

-----------------------------------------------------------------------------
(* What follows from the slot invariant                                    *)

LEMMA SlotFacts == SlotInv => OneTransmitter /\ QuietLine /\ FlagsMatchLine
  BY DEF SlotInv, OneHolder, HoldCovers, OneTransmitter, QuietLine, Holders, Transmitters

\* However many clients call set_pump_* at once, no two of them drive the line:
\* write_sem and the hold do what a mutex around write_pump would do.
THEOREM MutualExclusion == Prompt /\ Spec => []OneTransmitter
  BY SlotInvariant, SlotFacts, PTL

\* The sniffer and a Modbus transaction never poll the UART at the same time.
THEOREM SnifferKeepsOff == Prompt /\ Spec => []QuietLine
  BY SlotInvariant, SlotFacts, PTL

\* transmitting and the direction pin announce exactly the transactions that are
\* under way, so the sniffer is neither blinded for ever nor let in too early.
THEOREM FlagsCorrect == Prompt /\ Spec => []FlagsMatchLine
  BY SlotInvariant, SlotFacts, PTL

LEMMA BeginInSlot ==
  ASSUME SlotInv, NEW w \in Writers, Begin(w)
  PROVE  sniffer = "hold" /\ frame = "R241"
  BY DEF Begin, Goto, SlotInv, HoldCovers, HoldFrame, DataLocked

\* Every transmission starts in the hold behind an R241 response.
THEOREM StepsOnlyInSlot == Prompt /\ Init /\ [][Next]_vars => SlotOnly
  <1>1. SlotInv => \A w \in Writers : Begin(w) => sniffer = "hold" /\ frame = "R241"
    BY BeginInSlot
  <1>2. SlotInv /\ [Next]_vars
        => [\A w \in Writers : Begin(w) => sniffer = "hold" /\ frame = "R241"]_vars
    BY <1>1
  <1>3. QED
    BY <1>2, StepsKeepSlot, PTL DEF SlotOnly

\* In particular those of the handshake alone.
THEOREM OnlyInSlot == Prompt /\ Spec => SlotOnly
  BY StepsOnlyInSlot, PTL DEF Spec

-----------------------------------------------------------------------------
(* WriteHandshake implements BusArbiter                                    *)

LEMMA LineStart == Init => Line!LineInit
  BY DEF Init, Line!LineInit, LinePhase, Transmitters, Sending

LEMMA LineWriterStep ==
  ASSUME SlotInv, SlotInv', NEW w \in Writers, Write(w)
  PROVE  [Line!LineNext]_(Line!lineVars)
  <1> USE DEF SlotInv, TypeOK, OneHolder, TokenIsFree, NoStaleTake, HoldCovers,
      Holders, Transmitters, Sending, Blocked, LinePhase, Goto,
      Line!lineVars, Line!LineNext, Line!Change
  <1>1. CASE Call(w) \/ Encode(w) \/ NoIface(w) \/ Raise(w) \/ Block(w)
    BY <1>1 DEF Call, Encode, NoIface, Raise, Block
  <1>2. CASE Timeout(w) \/ Withdraw(w)
    BY <1>2 DEF Timeout, Withdraw
  <1>3. CASE Reset(w)
    <2>1. UNCHANGED Transmitters
      BY <1>3 DEF Reset
    <2>2. \A v \in Writers : pc[v] = "granted" <=> pc'[v] = "granted"
      BY <1>3 DEF Reset
    <2>3. UNCHANGED LinePhase \/ Line!CloseSlot
      BY <1>3, <2>1, <2>2 DEF Reset, Line!CloseSlot
    <2>4. QED
      BY <2>1, <2>3
  <1>4. CASE TakeToken(w)
    BY <1>4 DEF TakeToken
  <1>5. CASE Begin(w)
    <2>1. Transmitters = {} /\ Transmitters' = {w}
      BY <1>5 DEF Begin
    <2>2. LinePhase = "slot" /\ LinePhase' = "driven"
      BY <1>5, <2>1 DEF Begin
    <2>3. QED
      BY <2>1, <2>2 DEF Line!Seize
  <1>6. CASE Drive(w) \/ Send(w) \/ Release(w)
    <2>1. UNCHANGED Transmitters /\ w \in Transmitters
      BY <1>6 DEF Drive, Send, Release
    <2>2. QED
      BY <2>1
  <1>7. CASE Clear(w)
    <2>1. Transmitters = {w} /\ Transmitters' = {}
      BY <1>7 DEF Clear
    <2>2. \A v \in Writers : pc'[v] # "granted"
      BY <1>7 DEF Clear
    <2>3. LinePhase = "driven" /\ LinePhase' = "idle"
      BY <1>7, <2>1, <2>2 DEF Clear
    <2>4. QED
      BY <2>1, <2>3 DEF Line!LetGo
  <1>8. QED
    BY <1>1, <1>2, <1>3, <1>4, <1>5, <1>6, <1>7 DEF Write, Advance

LEMMA LineSnifferStep ==
  ASSUME SlotInv, SlotInv', Sniff
  PROVE  [Line!LineNext]_(Line!lineVars)
  <1> USE DEF SlotInv, TypeOK, OneHolder, TokenIsFree, NoStaleTake, HoldCovers, FlagsMatchLine,
      Holders, Transmitters, Sending, Blocked, BlockedWriters, LinePhase, Turn,
      Line!lineVars, Line!LineNext, Line!Change
  <1>1. CASE Listen
    BY <1>1 DEF Listen, Line!Listen
  <1>2. CASE Skip \/ \E block \in Blocks : Receive(block)
    BY <1>2 DEF Skip, Receive, Line!Hush
  <1>3. CASE Store \/ SomebodyAsks
    BY <1>3 DEF Store, SomebodyAsks
  <1>4. CASE NobodyAsks
    <2>1. UNCHANGED Transmitters
      BY <1>4 DEF NobodyAsks, PassOver
    <2>2. QED
      BY <1>4, <2>1 DEF NobodyAsks
  <1>5. ASSUME NEW w \in Writers, GiveTo(w) PROVE [Line!LineNext]_(Line!lineVars)
    <2>1. Transmitters = {} /\ Transmitters' = {}
      BY <1>5 DEF GiveTo, PassOver
    <2>2. LinePhase = "idle" /\ LinePhase' = "slot"
      BY <1>5, <2>1 DEF GiveTo, PassOver
    <2>3. QED
      BY <2>1, <2>2 DEF Line!OpenSlot
  <1>6. CASE GiveToNobody
    BY <1>6 DEF GiveToNobody, Line!OpenSlot
  <1>7. CASE Wake
    BY <1>7 DEF Wake, Line!CloseSlot
  <1>8. QED
    BY <1>1, <1>2, <1>3, <1>4, <1>5, <1>6, <1>7 DEF Sniff, Handle

LEMMA LineStep ==
  ASSUME SlotInv, SlotInv', [Next]_vars
  PROVE  [Line!LineNext]_(Line!lineVars)
  <1>1. CASE UNCHANGED vars
    BY <1>1 DEF vars, Line!lineVars, LinePhase, Transmitters
  <1>2. QED
    BY <1>1, LineWriterStep, LineSnifferStep DEF Next

\* The semaphore, the flags and the hold implement the abstract line: every step
\* of the driver is a step of BusArbiter or leaves the line as it is.
THEOREM StepsImplementArbiter == Prompt /\ Init /\ [][Next]_vars => LineDiscipline
  <1>1. SlotInv /\ SlotInv' /\ [Next]_vars => [Line!LineNext]_(Line!lineVars)
    BY LineStep
  <1>2. QED
    BY <1>1, LineStart, StepsKeepSlot, PTL DEF LineDiscipline, Line!LineSpec

\* The handshake alone implements it.
THEOREM ImplementsArbiter == Prompt /\ Spec => LineDiscipline
  BY StepsImplementArbiter, PTL DEF Spec

=============================================================================
