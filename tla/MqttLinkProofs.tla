----------------------------- MODULE MqttLinkProofs -----------------------------
(***************************************************************************)
(* Proofs about MqttLink for any descriptors and any bounds.  The session  *)
(* stays well typed, which includes what the library's mutex still does    *)
(* although mqtt_init zeroes it (its owner, if it has one, is in           *)
(* mqtt_connect); every lost descriptor is accounted for by a late answer  *)
(* or by two threads that met; and what is lost stays lost.                *)
(***************************************************************************)
EXTENDS MqttLink, FiniteSetTheorems, TLAPS

\* Where a thread may be, and where its calls may return to.
MayBe(t) == Shared \union (IF t = "main" THEN MainAt ELSE SubAt)
MayGoTo(t) == IF t = "main" THEN {"await", "report"} ELSE {"await"} \union SubAt

LinkInv ==
  /\ LinkTypeOK
  /\ at \in [Threads -> Shared \union MainAt \union SubAt]
  /\ back \in [Threads -> {"report", "loop", "live"}]
  /\ after \in [Threads -> {"await", "report"} \union SubAt]
  /\ after["main"] \in {"await", "report"}
  /\ after["mqtt_sub"] \in {"await"} \union SubAt

LEMMA LinkInit0 == LinkInit => LinkInv
  <1> SUFFICES ASSUME LinkInit PROVE LinkInv
    OBVIOUS
  <1>1. late \in 0 .. MaxLate /\ met \in 0 .. MeetingsCounted /\ faults \in 0 .. MaxFaults
    BY LinkAssumption DEF LinkInit
  <1>2. QED
    BY <1>1 DEF LinkInit, LinkInv, LinkTypeOK, Threads, NoThread, NoSocket, NetState, Shared,
       MainAt, SubAt

-----------------------------------------------------------------------------
(* One step of a thread                                                    *)

\* A thread that goes to one of its places leaves both threads at theirs.
LEMMA GoesTo ==
  ASSUME LinkInv, NEW t \in Threads, NEW to \in MayBe(t), at' = [at EXCEPT ![t] = to]
  PROVE  /\ at' \in [Threads -> Shared \union MainAt \union SubAt]
         /\ at'["main"] \in Shared \union MainAt /\ at'["mqtt_sub"] \in Shared \union SubAt
         /\ at'[t] = to /\ \A u \in Threads : u # t => at'[u] = at[u]
  BY DEF LinkInv, LinkTypeOK, MayBe, Threads

\* Likewise for where the library's calls return to.
LEMMA ReturnsTo ==
  ASSUME LinkInv, NEW t \in Threads, NEW then \in MayGoTo(t), after' = [after EXCEPT ![t] = then]
  PROVE  /\ after' \in [Threads -> {"await", "report"} \union SubAt]
         /\ after'["main"] \in {"await", "report"}
         /\ after'["mqtt_sub"] \in {"await"} \union SubAt
         /\ \A u \in Threads : after'[u] \in Shared \union SubAt
  BY DEF LinkInv, LinkTypeOK, MayGoTo, Threads, Shared, SubAt

\* What each place to go to is.
LEMMA Places ==
  ASSUME LinkInv, NEW t \in Threads
  PROVE  /\ Shared \subseteq MayBe(t) /\ MayGoTo(t) \subseteq MayBe(t)
         /\ Return(t) \in MayBe(t) /\ Return(t) \in MayGoTo(t) /\ after[t] \in MayGoTo(t)
         /\ at[t] \in MayBe(t)
         /\ t = "mqtt_sub" => SubAt \subseteq MayBe(t) /\ SubAt \subseteq MayGoTo(t)
         /\ t = "main" => at[t] # "input"
  BY DEF LinkInv, LinkTypeOK, Return, MayBe, MayGoTo, Threads, Shared, MainAt, SubAt

\* The mutex's owner is in mqtt_connect, if nobody else takes it.
LEMMA OwnerStays ==
  ASSUME LinkInv, NEW t \in Threads, \A u \in Threads : u # t => at'[u] = at[u],
         lock' = NoThread \/ (lock' = lock /\ (at[t] # "dialing" \/ at'[t] = "dialing" \/ lock # t))
  PROVE  lock' \in Threads \union {NoThread} /\ \A u \in Threads : lock' = u => at'[u] = "dialing"
  BY DEF LinkInv, LinkTypeOK, Threads, NoThread

LEMMA CountsStay ==
  ASSUME LinkInv
  PROVE  /\ Fault => faults' \in 0 .. MaxFaults
         /\ late < MaxLate => late + 1 \in 0 .. MaxLate
         /\ met < MeetingsCounted => met + 1 \in 0 .. MeetingsCounted
  BY LinkAssumption DEF LinkInv, LinkTypeOK, Fault

-----------------------------------------------------------------------------
(* Every step                                                              *)

LEMMA AttemptType ==
  ASSUME LinkInv, NEW t \in Threads, Attempt(t)
  PROVE  LinkInv'
  <1> USE DEF LinkInv, LinkTypeOK, Goto, Returns, Set, Unlock, session, control, counts
  <1>0. t \in {"main", "mqtt_sub"} /\ "main" \in Threads /\ "mqtt_sub" \in Threads
    BY DEF Threads
  <1>1. CASE Wipe(t)
    <2>1. at' = [at EXCEPT ![t] = "dial"] /\ lock' = NoThread /\ met' \in 0 .. MeetingsCounted
      BY <1>1, CountsStay DEF Wipe
    <2>2. "dial" \in MayBe(t)
      BY DEF MayBe, Shared
    <2>3. QED
      BY <1>1, <2>1, <2>2, GoesTo, OwnerStays DEF Wipe
  <1>2. CASE Done(t)
    <2>1. Return(t) \in MayBe(t)
      BY Places
    <2>2. QED
      BY <1>2, <2>1, GoesTo, OwnerStays DEF Done
  <1>3. CASE Dial(t)
    <2>1. "dialing" \in MayBe(t)
      BY DEF MayBe, Shared
    <2>2. PICK s \in Free : Set(s, "dialing") /\ sock' = s /\ mine' = [mine EXCEPT ![t] = s]
      BY <1>3 DEF Dial
    <2>3. s \in Sockets /\ net' \in [Sockets -> NetState]
      BY <2>2 DEF Free, NetState
    <2>4. lock' = t /\ at' = [at EXCEPT ![t] = "dialing"]
      BY <1>3 DEF Dial
    <2>5. /\ lock' \in Threads \union {NoThread}
          /\ \A u \in Threads : lock' = u => at'[u] = "dialing"
      BY <2>1, <2>4, GoesTo
    <2>6. QED
      BY <1>3, <2>1, <2>2, <2>3, <2>4, <2>5, GoesTo DEF Dial
  <1>4. CASE NoneLeft(t)
    <2>1. Return(t) \in MayBe(t)
      BY Places
    <2>2. QED
      BY <1>4, <2>1, GoesTo, OwnerStays DEF NoneLeft
  <1>5. CASE DialFails(t)
    <2>1. Return(t) \in MayBe(t) /\ faults' \in 0 .. MaxFaults
      BY <1>5, Places, CountsStay DEF DialFails
    <2>2. net' \in [Sockets -> NetState]
      BY <1>5 DEF DialFails, NetState
    <2>3. lock' = NoThread \/ (lock' = lock /\ lock # t)
      BY <1>5 DEF DialFails
    <2>4. QED
      BY <1>5, <2>1, <2>2, <2>3, GoesTo, OwnerStays DEF DialFails
  <1>6. CASE Ask(t) \/ AskTwice(t)
    <2>1. "await" \in MayBe(t) /\ at' = [at EXCEPT ![t] = "await"]
      BY <1>6 DEF Ask, AskTwice, MayBe, Shared
    <2>2. net' \in [Sockets -> NetState]
      BY <1>6 DEF Ask, AskTwice, NetState
    <2>3. lock' = NoThread \/ (lock' = lock /\ lock # t)
      BY <1>6 DEF Ask, AskTwice
    <2>4. QED
      BY <1>6, <2>1, <2>2, <2>3, GoesTo, OwnerStays DEF Ask, AskTwice
  <1>7. CASE AskNobody(t)
    <2>1. /\ "gone" \in MayBe(t) /\ at' = [at EXCEPT ![t] = "gone"]
          /\ Return(t) \in MayGoTo(t) /\ after' = [after EXCEPT ![t] = Return(t)]
      BY <1>7, Places DEF AskNobody, MayBe, Shared
    <2>2. net' \in [Sockets -> NetState]
      BY <1>7 DEF AskNobody, NetState
    <2>3. lock' = NoThread \/ (lock' = lock /\ lock # t)
      BY <1>7 DEF AskNobody
    <2>4. QED
      BY <1>7, <2>1, <2>2, <2>3, GoesTo, ReturnsTo, OwnerStays DEF AskNobody
  <1>8. CASE GiveUp(t)
    <2>1. Return(t) \in MayBe(t) /\ late' \in 0 .. MaxLate
      BY <1>8, Places, CountsStay DEF GiveUp
    <2>2. QED
      BY <1>8, <2>1, GoesTo, OwnerStays DEF GiveUp
  <1>9. QED
    BY <1>1, <1>2, <1>3, <1>4, <1>5, <1>6, <1>7, <1>8 DEF Attempt

\* Closing the client's socket, by whichever thread and from wherever.
LEMMA DisconnectType ==
  ASSUME LinkInv, NEW t \in Threads, at[t] # "dialing", NEW then \in MayGoTo(t),
         Disconnect(t, then), told' \in BOOLEAN,
         nested' \subseteq Threads, UNCHANGED << lock, back, mine, counts >>
  PROVE  LinkInv'
  <1> USE DEF LinkInv, LinkTypeOK, counts
  <1>1. "gone" \in MayBe(t) /\ at' = [at EXCEPT ![t] = "gone"]
    BY DEF Disconnect, MayBe, Shared
  <1>2. net' \in [Sockets -> NetState]
    BY DEF Disconnect, NetState
  <1>3. QED
    BY <1>1, <1>2, GoesTo, ReturnsTo, OwnerStays DEF Disconnect

LEMMA HearType ==
  ASSUME LinkInv, NEW t \in Threads, Hear(t)
  PROVE  LinkInv'
  <1> USE DEF LinkInv, LinkTypeOK, Goto, Set, session, control, counts
  <1>0. t \in {"main", "mqtt_sub"} /\ "main" \in Threads /\ "mqtt_sub" \in Threads
    BY DEF Threads
  <1>1. CASE NothingThere(t)
    <2>1. PICK to : to \in MayBe(t) /\ at' = [at EXCEPT ![t] = to]
      BY <1>0, <1>1, Places DEF NothingThere, Polling, Proceed, MayBe, Shared, SubAt
    <2>2. at[t] # "dialing"
      BY <1>1 DEF NothingThere, Polling
    <2>3. QED
      BY <1>1, <2>1, <2>2, GoesTo, OwnerStays DEF NothingThere
  <1>2. CASE Accepted(t)
    <2>1. "acked" \in MayBe(t) /\ at' = [at EXCEPT ![t] = "acked"] /\ at[t] # "dialing"
      BY <1>2 DEF Accepted, Polling, MayBe, Shared
    <2>2. Proceed(t, "live") \in MayGoTo(t)
      BY <1>0, <1>2, Places DEF Accepted, Polling, Proceed, MayGoTo, SubAt
    <2>3. after' = [after EXCEPT ![t] = Proceed(t, "live")]
      BY <1>2 DEF Accepted
    <2>4. net' \in [Sockets -> NetState]
      BY <1>2 DEF Accepted, NetState
    <2> HIDE DEF Proceed
    <2>5. QED
      BY <1>2, <2>1, <2>2, <2>3, <2>4, GoesTo, ReturnsTo, OwnerStays DEF Accepted
  <1>3. CASE Closed(t)
    <2>1. Proceed(t, "drop") \in MayGoTo(t) /\ at[t] # "dialing"
      BY <1>0, <1>3, Places DEF Closed, Polling, Proceed, MayGoTo, SubAt
    <2>2. QED
      BY <1>3, <2>1, DisconnectType DEF Closed
  <1>4. CASE Leave(t)
    <2>1. PICK to \in {"await", "live"} : at' = [at EXCEPT ![t] = to] /\ (to = "live" => at[t] = "input")
      BY <1>4 DEF Leave, Polling, Proceed
    <2>2. to \in MayBe(t) /\ at[t] # "dialing"
      BY <1>0, <1>4, <2>1, Places DEF Leave, Polling, MayBe, Shared, SubAt
    <2>3. net' \in [Sockets -> NetState] /\ faults' \in 0 .. MaxFaults
      BY <1>4, CountsStay DEF Leave, NetState
    <2>4. QED
      BY <1>4, <2>1, <2>2, <2>3, GoesTo, OwnerStays DEF Leave
  <1>5. CASE Command(t)
    <2>1. "report" \in MayBe(t) /\ at' = [at EXCEPT ![t] = "report"] /\ at[t] # "dialing"
      BY <1>5 DEF Command, Polling, MayBe, Shared
    <2>2. /\ back' \in [Threads -> {"report", "loop", "live"}]
          /\ back'["main"] = "report" /\ back'["mqtt_sub"] \in {"loop", "live"}
      <3>1. t = "main" => at[t] = "await"
        BY <1>5, Places DEF Command, Polling
      <3>2. \/ back' = back
            \/ t = "mqtt_sub" /\ back' = [back EXCEPT ![t] = "live"]
        BY <1>0, <1>5, <3>1 DEF Command
      <3> HIDE DEF LinkTypeOK, LinkInv
      <3>3. /\ back \in [Threads -> {"report", "loop", "live"}]
            /\ back["main"] = "report" /\ back["mqtt_sub"] \in {"loop", "live"}
        BY DEF LinkInv, LinkTypeOK
      <3>4. QED
        BY <1>0, <3>2, <3>3
    <2>3. nested' \subseteq Threads
      BY <1>5 DEF Command
    <2>4. QED
      BY <1>5, <2>1, <2>2, <2>3, GoesTo, OwnerStays DEF Command
  <1>6. CASE Acked(t)
    <2>1. "subscribe" \in MayBe(t)
      BY DEF MayBe, Shared
    <2>2. QED
      BY <1>6, <2>1, GoesTo, OwnerStays DEF Acked
  <1>7. CASE Subscribe(t) \/ Gone(t)
    <2>1. after[t] \in MayBe(t) /\ "await" \in MayGoTo(t)
      BY Places DEF MayGoTo
    <2>2. net' \in [Sockets -> NetState]
      BY <1>7 DEF Subscribe, Gone, NetState
    <2>3. /\ at' = [at EXCEPT ![t] = after[t]] /\ after' = [after EXCEPT ![t] = "await"]
          /\ at[t] # "dialing" /\ UNCHANGED << back, nested, mine >>
      BY <1>7 DEF Subscribe, Gone, Handled
    <2>4. QED
      BY <1>7, <2>1, <2>2, <2>3, GoesTo, ReturnsTo, OwnerStays DEF Subscribe, Gone
  <1>8. QED
    BY <1>1, <1>2, <1>3, <1>4, <1>5, <1>6, <1>7 DEF Hear

LEMMA ReportType ==
  ASSUME LinkInv, NEW t \in Threads, Report(t) \/ Publish(t) \/ PublishBroken(t)
  PROVE  LinkInv'
  <1> USE DEF LinkInv, LinkTypeOK, Goto, Returns, session, control, counts
  <1>0. t \in {"main", "mqtt_sub"} /\ "main" \in Threads /\ "mqtt_sub" \in Threads
    BY DEF Threads
  <1>1. CASE Report(t)
    <2>1. PICK to : to \in MayBe(t) /\ at' = [at EXCEPT ![t] = to] /\ at[t] = "report"
      BY <1>1 DEF Report, MayBe, Shared
    <2>2. QED
      BY <1>1, <2>1, GoesTo, OwnerStays DEF Report
  <1>2. CASE Publish(t)
    <2>1. Return(t) \in MayBe(t)
      BY Places
    <2>2. nested' \subseteq Threads
      BY <1>2 DEF Publish
    <2>3. told' \in BOOLEAN
      BY <1>2 DEF Publish
    <2>4. QED
      BY <1>2, <2>1, <2>2, <2>3, GoesTo, OwnerStays DEF Publish
  <1>3. CASE PublishBroken(t)
    <2>1. Return(t) \in MayGoTo(t) /\ told' \in BOOLEAN
      BY <1>3, Places DEF PublishBroken
    <2>2. QED
      BY <1>3, <2>1, DisconnectType DEF PublishBroken
  <1>4. QED
    BY <1>1, <1>2, <1>3

LEMMA ServeType ==
  ASSUME LinkInv, Serve
  PROVE  LinkInv'
  <1> USE DEF LinkInv, LinkTypeOK, Goto, session, control, counts
  <1>0. "mqtt_sub" \in Threads
    BY DEF Threads
  <1>1. CASE Loop
    <2>1. PICK to : /\ to \in MayBe("mqtt_sub") /\ at' = [at EXCEPT !["mqtt_sub"] = to]
                    /\ at["mqtt_sub"] # "dialing"
      BY <1>1 DEF Loop, MayBe, Shared, SubAt
    <2>2. QED
      BY <1>0, <1>1, <2>1, GoesTo, OwnerStays DEF Loop, Threads
  <1> USE DEF Poll, PollInput, PollNothing, PollFails
  <1>2. CASE Poll \/ Live \/ Drop
    <2>1. PICK to : /\ to \in MayBe("mqtt_sub") /\ at' = [at EXCEPT !["mqtt_sub"] = to]
                    /\ at["mqtt_sub"] # "dialing"
      BY <1>2 DEF Live, Drop, MayBe, SubAt
    <2>2. faults' \in 0 .. MaxFaults
      BY <1>2, CountsStay DEF Live, Drop
    <2>3. QED
      BY <1>0, <1>2, <2>1, <2>2, GoesTo, OwnerStays DEF Live, Drop
  <1>3. CASE Abort
    <2>1. "loop" \in MayGoTo("mqtt_sub") /\ "loop" \in MayBe("mqtt_sub")
      BY DEF MayGoTo, MayBe, SubAt
    <2>2. CASE state = "idle"
      BY <1>0, <1>3, <2>1, <2>2, GoesTo, OwnerStays DEF Abort
    <2>3. CASE state # "idle"
      BY <1>0, <1>3, <2>1, <2>3, DisconnectType DEF Abort
    <2>4. QED
      BY <2>2, <2>3
  <1>4. CASE PingFails
    <2>1. "drop" \in MayGoTo("mqtt_sub")
      BY DEF MayGoTo, SubAt
    <2>2. QED
      BY <1>0, <1>4, <2>1, DisconnectType DEF PingFails
  <1>5. QED
    BY <1>1, <1>2, <1>3, <1>4 DEF Serve

LEMMA OutsideType ==
  ASSUME LinkInv, Outside \/ GainAddress \/ (LoseAddress /\ Fault)
  PROVE  LinkInv'
  <1> USE DEF LinkInv, LinkTypeOK, session, control, counts, Set
  <1>1. faults' \in 0 .. MaxFaults
    BY CountsStay DEF Outside, Answer, Refuse, Break, GainAddress
  <1>2. net' \in [Sockets -> NetState]
    BY DEF Outside, Answer, Refuse, Break, GainAddress, LoseAddress, NetState, InSession
  <1>3. QED
    BY <1>1, <1>2 DEF Outside, Answer, Refuse, Break, GainAddress, LoseAddress

LEMMA LinkInvStep == LinkInv /\ [LinkNext]_linkVars => LinkInv'
  <1> SUFFICES ASSUME LinkInv, [LinkNext]_linkVars PROVE LinkInv'
    OBVIOUS
  <1>1. CASE Online
    <2>1. "main" \in Threads /\ "init" \in MayBe("main")
      BY DEF Threads, MayBe, Shared
    <2>2. at' = [at EXCEPT !["main"] = "init"] /\ at["main"] # "dialing"
      BY <1>1 DEF Online, Goto
    <2>3. QED
      BY <1>1, <2>1, <2>2, GoesTo, OwnerStays
         DEF Online, LinkInv, LinkTypeOK, session, control, counts
  <1>2. CASE UNCHANGED linkVars
    BY <1>2 DEF linkVars, LinkInv, LinkTypeOK, session, control, counts
  <1>3. QED
    BY <1>1, <1>2, AttemptType, HearType, ReportType, ServeType, OutsideType DEF LinkNext, Run

\* The client that two threads share and zero stays a client: its socket is a descriptor
\* or none, and its mutex, if it is held, is held by a thread inside mqtt_connect.
THEOREM LinkTypeCorrect == LinkSpec => []LinkTypeOK
  <1>1. LinkInv => LinkTypeOK
    BY DEF LinkInv
  <1>2. QED
    BY <1>1, LinkInit0, LinkInvStep, PTL DEF LinkSpec

-----------------------------------------------------------------------------
(* Descriptors                                                             *)

\* Allocated descriptors that are not the client's: the lost ones, and those of threads
\* in mqtt_connect whose client was zeroed meanwhile.
Astray == {s \in Sockets : net[s] # "free"} \ {sock}

\* What the client has is going to be closed, or the flag is set or going to be set on
\* it, or giving it up will count as late.
LookedAfter ==
  \/ connected
  \/ at["mqtt_sub"] \in {"drop", "abort"}
  \/ \E t \in Threads : at[t] = "acked"
  \/ \E t \in Threads : at[t] = "dialing" /\ mine[t] = sock
  \/ \E t \in Threads : at[t] = "await" /\ net[sock] \in {"asked", "answered", "refused", "broken"}

\* One more descriptor can be lost before another late answer or meeting: the client's,
\* if nobody looks after it, or a thread is about to replace it, or another one to clear
\* the flag; or one that a thread is about to open while the other may do so.
AtStake ==
  \/ sock # NoSocket /\ ~LookedAfter
  \/ sock # NoSocket /\ \E t \in Threads : at[t] \in {"dial", "gone"}
  \/ \E t, u \in Threads : t # u /\ at[t] = "dial" /\ at[u] \in {"dial", "dialing", "gone"}

Stake == IF AtStake THEN 1 ELSE 0

\* What the client has is an open descriptor, on which it stays idle only while the
\* thread that opened it is connecting.
SocketInv ==
  /\ sock = NoSocket => state = "idle"
  /\ sock # NoSocket => net[sock] \notin {"free", "open"}
  /\ sock # NoSocket /\ (state = "idle" \/ net[sock] = "dialing") =>
       \E t \in Threads : at[t] = "dialing" /\ mine[t] = sock
  /\ \A t, u \in Threads :
       t # u /\ at[t] = "dial" /\ at[u] \in {"dial", "gone"} => sock = NoSocket
  /\ \A t \in Threads : at[t] = "dialing" => mine[t] # NoSocket

\* The account, as long as the meetings are counted.
DebtInv == met < MeetingsCounted => Cardinality(Astray) + Stake <= late + 2 * met

LossInv == LinkInv /\ SocketInv /\ DebtInv

\* Subsets of the descriptors are finite, and one more element is one more.
LEMMA Counting ==
  ASSUME NEW S \in SUBSET Sockets, NEW T \in SUBSET Sockets, NEW x
  PROVE  /\ Cardinality(S) \in Nat
         /\ S \subseteq T => Cardinality(S) <= Cardinality(T)
         /\ S \subseteq T \union {x} => Cardinality(S) <= Cardinality(T) + 1
  <1>1. IsFiniteSet(S) /\ IsFiniteSet(T)
    BY FS_Subset, LinkAssumption
  <1>2. /\ IsFiniteSet(T \union {x}) /\ Cardinality(T \union {x}) <= Cardinality(T) + 1
        /\ Cardinality(S) \in Nat /\ Cardinality(T) \in Nat
    <2>1. Cardinality(S) \in Nat /\ Cardinality(T) \in Nat
      BY <1>1, FS_CardinalityType
    <2>2. /\ IsFiniteSet(T \union {x})
          /\ Cardinality(T \union {x}) = IF x \in T THEN Cardinality(T) ELSE Cardinality(T) + 1
      BY <1>1, FS_AddElement
    <2>3. QED
      BY <2>1, <2>2
  <1>3. S \subseteq T => Cardinality(S) <= Cardinality(T)
    BY <1>1, FS_Subset
  <1>4. S \subseteq T \union {x} => Cardinality(S) <= Cardinality(T \union {x})
    BY <1>2, FS_Subset
  <1>5. Cardinality(T \union {x}) \in Nat
    BY <1>2, FS_CardinalityType
  <1>6. QED
    BY <1>2, <1>3, <1>4, <1>5

\* The ways in which a step may keep the account: nothing goes astray and nothing more
\* is at stake; what was at stake is lost; an answer is late; two threads meet; they are no longer counted.
LEMMA Account ==
  ASSUME LinkInv, LinkInv', DebtInv,
         \/ Astray' \subseteq Astray /\ (AtStake' => AtStake) /\ late' = late /\ met' = met
         \/ Astray' \subseteq Astray \union {sock} /\ AtStake /\ ~AtStake'
              /\ late' = late /\ met' = met
         \/ Astray' \subseteq Astray /\ late' = late + 1 /\ met' = met
         \/ Astray' \subseteq Astray \union {sock} /\ late' = late /\ met' = met + 1
         \/ met' = MeetingsCounted
  PROVE  DebtInv'
  <1>1. Astray \in SUBSET Sockets /\ Astray' \in SUBSET Sockets
    BY DEF Astray
  <1>2. /\ Cardinality(Astray) \in Nat /\ Cardinality(Astray') \in Nat
        /\ Astray' \subseteq Astray => Cardinality(Astray') <= Cardinality(Astray)
        /\ Astray' \subseteq Astray \union {sock} => Cardinality(Astray') <= Cardinality(Astray) + 1
    BY <1>1, Counting
  <1>3. late \in Nat /\ met \in Nat /\ late' \in Nat /\ met' \in Nat /\ MeetingsCounted \in Nat
    BY LinkAssumption DEF LinkInv, LinkTypeOK
  <1>4. QED
    BY <1>2, <1>3 DEF DebtInv, Stake

\* The two threads, seen from one of them.
LEMMA TheOther ==
  ASSUME LinkInv, NEW t \in Threads
  PROVE  \E u \in Threads : /\ u = Other(t) /\ u # t /\ Threads = {t, u}
                            /\ at[t] \in Shared \union MainAt \union SubAt
                            /\ at[u] \in Shared \union MainAt \union SubAt
                            /\ DOMAIN at = Threads /\ DOMAIN mine = Threads
  <1>1. PICK u \in Threads : u # t /\ Threads = {t, u}
    BY DEF Threads
  <1>2. Other(t) = u
    BY <1>1 DEF Other
  <1>3. QED
    BY <1>1, <1>2 DEF LinkInv, LinkTypeOK

LEMMA WipeLoss ==
  ASSUME LossInv, NEW t \in Threads, Wipe(t)
  PROVE  SocketInv' /\ DebtInv'
  <1>1. LinkInv /\ LinkInv' /\ SocketInv /\ DebtInv
    BY AttemptType DEF LossInv, Attempt
  <1>2. PICK u \in Threads : /\ u = Other(t) /\ u # t /\ Threads = {t, u}
                             /\ DOMAIN at = Threads
    BY <1>1, TheOther
  <1>3. /\ sock' = NoSocket /\ state' = "idle" /\ net' = net /\ connected' = connected
        /\ at[t] = "init" /\ at'[t] = "dial" /\ at'[u] = at[u] /\ mine' = mine /\ late' = late
    BY <1>2 DEF Wipe, Goto, control
  <1>4. SocketInv'
    BY <1>1, <1>2, <1>3 DEF SocketInv
  <1>5. Astray' \subseteq Astray \union {sock} /\ (sock = NoSocket => Astray' \subseteq Astray)
    BY <1>3 DEF Astray
  <1>6. CASE Using(u)
    <2>1. met' = met + 1 \/ met' = MeetingsCounted
      BY <1>1, <1>2, <1>6, LinkAssumption DEF Wipe, LinkInv, LinkTypeOK
    <2>2. QED
      BY <1>1, <1>3, <1>4, <1>5, <2>1, Account
  <1>7. CASE ~Using(u)
    <2>1. met' = met /\ ~connected /\ at[u] \in {"boot", "init", "report", "loop"}
      BY <1>2, <1>7 DEF Wipe, Using
    <2>2. ~AtStake'
      BY <1>2, <1>3, <2>1 DEF AtStake
    <2>3. sock # NoSocket => AtStake
      BY <1>2, <1>3, <2>1 DEF AtStake, LookedAfter, Threads
    <2>4. QED
      BY <1>1, <1>3, <1>4, <1>5, <2>1, <2>2, <2>3, Account
  <1>8. QED
    BY <1>6, <1>7

\* A step that leaves the client and the sockets alone, and is not one of those that
\* look after them.
LEMMA CalmLoss ==
  ASSUME LossInv, LinkInv', NEW t \in Threads, NEW to, at' = [at EXCEPT ![t] = to],
         UNCHANGED << connected, sock, state, net, mine, late, met >>,
         to \notin {"dial", "gone", "dialing"},
         at[t] # "dialing",
         at[t] \in {"acked", "await", "drop", "abort"} =>
           (sock # NoSocket /\ ~LookedAfter' => ~LookedAfter)
  PROVE  SocketInv' /\ DebtInv'
  <1>1. LinkInv /\ SocketInv /\ DebtInv
    BY DEF LossInv
  <1>2. PICK u \in Threads : u # t /\ Threads = {t, u} /\ DOMAIN at = Threads
    BY <1>1, TheOther
  <1>3. at'[t] = to /\ at'[u] = at[u]
    BY <1>2
  <1>4. SocketInv'
    BY <1>1, <1>2, <1>3 DEF SocketInv
  <1>5. Astray' = Astray
    BY DEF Astray
  <1>6. AtStake' => AtStake
    <2>1. sock # NoSocket /\ ~LookedAfter' => ~LookedAfter
      BY <1>2, <1>3 DEF LookedAfter, Threads
    <2>2. QED
      BY <1>2, <1>3, <2>1 DEF AtStake
  <1>7. QED
    BY <1>1, <1>4, <1>5, <1>6, Account

LEMMA DialLoss ==
  ASSUME LossInv, NEW t \in Threads, Dial(t) \/ NoneLeft(t)
  PROVE  SocketInv' /\ DebtInv'
  <1>1. LinkInv /\ LinkInv' /\ SocketInv /\ DebtInv
    BY AttemptType DEF LossInv, Attempt
  <1>2. PICK u \in Threads : u # t /\ Threads = {t, u} /\ DOMAIN at = Threads /\ DOMAIN mine = Threads
    BY <1>1, TheOther
  <1>3. at[t] = "dial" /\ at'[u] = at[u] /\ UNCHANGED << connected, late, met >>
    BY <1>2 DEF Dial, NoneLeft, Goto, counts
  <1>4. sock # NoSocket => AtStake /\ at[u] \notin {"dial", "gone"}
    BY <1>1, <1>2, <1>3 DEF AtStake, SocketInv
  <1>5. CASE Dial(t)
    <2>1. PICK s \in Sockets : /\ net[s] = "free" /\ net' = [net EXCEPT ![s] = "dialing"]
                               /\ sock' = s /\ mine' = [mine EXCEPT ![t] = s]
      BY <1>5 DEF Dial, Free, Set
    <2>2. at'[t] = "dialing" /\ mine'[t] = s /\ state' = state /\ net'[s] = "dialing"
      BY <1>1, <1>2, <1>5, <2>1 DEF Dial, Goto, LinkInv, LinkTypeOK
    <2>3. s # NoSocket
      BY <2>1, LinkAssumption DEF NoSocket
    <2>4. SocketInv'
      BY <1>1, <1>2, <1>3, <2>1, <2>2, <2>3 DEF SocketInv
    <2>5. Astray' \subseteq Astray \union {sock} /\ (sock = NoSocket => Astray' \subseteq Astray)
      BY <1>1, <2>1, LinkAssumption DEF Astray, LinkInv, LinkTypeOK, NoSocket
    <2>6. AtStake' => at[u] \in {"dial", "gone"}
      BY <1>2, <1>3, <2>1, <2>2 DEF AtStake, LookedAfter
    <2>7. at[u] \in {"dial", "gone"} => AtStake
      BY <1>2, <1>3 DEF AtStake
    <2>8. QED
      BY <1>1, <1>3, <1>4, <2>4, <2>5, <2>6, <2>7, Account
  <1>6. CASE NoneLeft(t)
    <2>1. /\ at'[t] = Return(t) /\ Return(t) \in {"await", "report", "loop", "live"}
          /\ sock' = NoSocket /\ state' = "idle" /\ net' = net /\ mine' = mine
      BY <1>1, <1>2, <1>6 DEF NoneLeft, Goto, LinkInv, Return
    <2>2. SocketInv' /\ ~AtStake'
      BY <1>1, <1>2, <1>3, <2>1 DEF SocketInv, AtStake
    <2>3. Astray' \subseteq Astray \union {sock} /\ (sock = NoSocket => Astray' \subseteq Astray)
      BY <2>1 DEF Astray
    <2>4. QED
      BY <1>1, <1>3, <1>4, <2>2, <2>3, Account
  <1>7. QED
    BY <1>5, <1>6

\* Closing what the client has, and forgetting it.
LEMMA CloseLoss ==
  ASSUME LossInv, LinkInv', NEW t \in Threads, NEW to, at' = [at EXCEPT ![t] = to],
         UNCHANGED << late, met >>, \A u \in Threads : u # t => mine'[u] = mine[u],
         to \notin {"dial", "dialing"}, sock' = NoSocket, state' = "idle",
         \A s \in Sockets : s # sock /\ net'[s] # "free" => net[s] # "free",
         sock # NoSocket => net'[sock] = "free",
         sock # NoSocket \/ to # "gone" \/ at[t] = "dialing"
  PROVE  SocketInv' /\ DebtInv'
  <1>1. LinkInv /\ SocketInv /\ DebtInv
    BY DEF LossInv
  <1>2. PICK u \in Threads : u # t /\ Threads = {t, u} /\ DOMAIN at = Threads
    BY <1>1, TheOther
  <1>3. at'[t] = to /\ at'[u] = at[u]
    BY <1>2
  <1>4. SocketInv'
    BY <1>1, <1>2, <1>3 DEF SocketInv
  <1>5. Astray' \subseteq Astray
    BY DEF Astray
  <1>6. AtStake' => AtStake
    <2>1. AtStake' => at[u] = "dial" /\ to = "gone"
      BY <1>2, <1>3 DEF AtStake
    <2>2. at[u] = "dial" /\ to = "gone" => AtStake
      BY <1>2 DEF AtStake
    <2>3. QED
      BY <2>1, <2>2
  <1>7. QED
    BY <1>1, <1>4, <1>5, <1>6, Account

\* The broker and the network: only sockets that are connected, and were asked on, change,
\* and none of them to one that nobody looks after.
LEMMA OutsideLoss ==
  ASSUME LossInv, LinkInv', UNCHANGED << connected, sock, state, at, mine, late, met >>,
         \A s \in Sockets :
           \/ net'[s] = net[s]
           \/ /\ net[s] \notin {"free", "dialing", "open"}
              /\ net'[s] \in {"answered", "refused", "broken"}
  PROVE  SocketInv' /\ DebtInv'
  <1>1. LinkInv /\ SocketInv /\ DebtInv /\ sock \in Sockets \union {NoSocket}
    BY DEF LossInv, LinkInv, LinkTypeOK
  <1>2. SocketInv'
    BY <1>1 DEF SocketInv
  <1>3. Astray' = Astray
    BY DEF Astray
  <1>4. AtStake' => AtStake
    BY <1>1 DEF AtStake, LookedAfter
  <1>5. QED
    BY <1>1, <1>2, <1>3, <1>4, Account

\* A CONNECT goes out, on the thread's own socket or on another one.
LEMMA AskLoss ==
  ASSUME LossInv, NEW t \in Threads, Ask(t) \/ AskTwice(t)
  PROVE  SocketInv' /\ DebtInv'
  <1>1. LinkInv /\ LinkInv' /\ SocketInv /\ DebtInv /\ net \in [Sockets -> NetState]
    BY AttemptType DEF LossInv, Attempt, LinkInv, LinkTypeOK
  <1>2. PICK u \in Threads : u # t /\ Threads = {t, u} /\ DOMAIN at = Threads /\ DOMAIN mine = Threads
    BY <1>1, TheOther
  <1>3. /\ at[t] = "dialing" /\ at'[t] = "await" /\ at'[u] = at[u]
        /\ mine'[t] = NoSocket /\ mine'[u] = mine[u]
        /\ UNCHANGED << connected, sock, late, met >> /\ state' = "tcp"
    BY <1>2 DEF Ask, AskTwice, Goto, counts
  <1>4. sock \in Sockets /\ sock # NoSocket
    BY <1>1, <1>3 DEF Ask, AskTwice, SocketInv, LinkInv, LinkTypeOK
  <1>5. net'[sock] \in {"asked", "refused", "broken"}
    BY <1>1, <1>4 DEF Ask, AskTwice, Set
  <1>6. \A s \in Sockets : s # sock => (net[s] = "free" <=> net'[s] = "free")
    BY <1>1, <1>4 DEF Ask, AskTwice, Set
  <1>7. SocketInv'
    BY <1>1, <1>2, <1>3, <1>4, <1>5 DEF SocketInv
  <1>8. Astray' \subseteq Astray
    BY <1>3, <1>6 DEF Astray
  <1>9. AtStake' => AtStake
    BY <1>2, <1>3, <1>4, <1>5 DEF AtStake, LookedAfter
  <1>10. QED
    BY <1>1, <1>3, <1>7, <1>8, <1>9, Account

\* An answer that comes too late, or may come, counts; without one, nobody looked after
\* the socket because of this thread.
LEMMA GiveUpLoss ==
  ASSUME LossInv, NEW t \in Threads, GiveUp(t)
  PROVE  SocketInv' /\ DebtInv'
  <1>1. LinkInv /\ LinkInv' /\ SocketInv /\ DebtInv
    BY AttemptType DEF LossInv, Attempt
  <1>2. PICK u \in Threads : u # t /\ Threads = {t, u} /\ DOMAIN at = Threads
    BY <1>1, TheOther
  <1>3. /\ at[t] = "await" /\ at' = [at EXCEPT ![t] = Return(t)] /\ ~connected
        /\ UNCHANGED << connected, sock, state, net, mine, met >>
        /\ Return(t) \in {"await", "report", "loop", "live"}
        /\ at'[u] = at[u] /\ at'[t] = Return(t)
    BY <1>1, <1>2 DEF GiveUp, Goto, session, LinkInv, Return
  <1>4. CASE On({"asked", "answered", "refused", "broken"})
    <2>1. late' = late + 1
      BY <1>4 DEF GiveUp
    <2>2. SocketInv'
      BY <1>1, <1>2, <1>3 DEF SocketInv
    <2>3. Astray' = Astray
      BY <1>3 DEF Astray
    <2>4. QED
      BY <1>1, <1>3, <2>1, <2>2, <2>3, Account
  <1>5. CASE ~On({"asked", "answered", "refused", "broken"})
    <2>1. late' = late
      BY <1>5 DEF GiveUp
    <2>2. sock # NoSocket /\ state = "idle" => at[u] = "dialing" /\ mine[u] = sock
      BY <1>1, <1>2, <1>3 DEF SocketInv
    <2>3. sock # NoSocket /\ ~LookedAfter' => ~LookedAfter
      BY <1>2, <1>3, <1>5, <2>2 DEF LookedAfter, On, Threads
    <2>4. QED
      BY <1>1, <1>3, <2>1, <2>3, CalmLoss
  <1>6. QED
    BY <1>4, <1>5

\* The callback, and what mqtt_sub does after an error, set and clear the flag.
LEMMA FlagLoss ==
  ASSUME LossInv, LinkInv', NEW t \in Threads, NEW to, at' = [at EXCEPT ![t] = to],
         UNCHANGED << sock, state, net, mine, late, met >>,
         \/ at[t] = "acked" /\ to = "subscribe" /\ connected' = TRUE
         \/ at[t] = "gone" /\ to \notin {"dial", "gone", "dialing"} /\ connected' = FALSE
         \/ t = "mqtt_sub" /\ at[t] \in {"drop", "poll"} /\ to = "abort" /\ connected' = FALSE
  PROVE  SocketInv' /\ DebtInv'
  <1>1. LinkInv /\ SocketInv /\ DebtInv
    BY DEF LossInv
  <1>2. PICK u \in Threads : u # t /\ Threads = {t, u} /\ DOMAIN at = Threads
    BY <1>1, TheOther
  <1>3. at'[t] = to /\ at'[u] = at[u]
    BY <1>2
  <1>4. SocketInv'
    BY <1>1, <1>2, <1>3 DEF SocketInv
  <1>5. Astray' = Astray
    BY DEF Astray
  <1>6. AtStake' => AtStake
    BY <1>2, <1>3 DEF AtStake, LookedAfter
  <1>7. QED
    BY <1>1, <1>4, <1>5, <1>6, Account

\* An accepted CONNECT, the subscription, and a payload that is left.
LEMMA SessionLoss ==
  ASSUME LossInv, LinkInv', NEW t \in Threads, Accepted(t) \/ Subscribe(t) \/ Leave(t)
  PROVE  SocketInv' /\ DebtInv'
  <1>1. LinkInv /\ SocketInv /\ DebtInv /\ net \in [Sockets -> NetState]
    BY DEF LossInv, LinkInv, LinkTypeOK
  <1>2. PICK u \in Threads : u # t /\ Threads = {t, u} /\ DOMAIN at = Threads
    BY <1>1, TheOther
  <1>3. CASE Accepted(t)
    <2>1. /\ at'[t] = "acked" /\ at'[u] = at[u] /\ at[t] \in {"await", "input"}
          /\ sock # NoSocket /\ net[sock] = "answered" /\ net' = [net EXCEPT ![sock] = "live"]
          /\ state # "idle" /\ state' = "connected"
          /\ UNCHANGED << connected, sock, mine, late, met >>
      BY <1>2, <1>3 DEF Accepted, Polling, On, Set, counts
    <2>2. SocketInv'
      BY <1>1, <1>2, <2>1 DEF SocketInv, LinkInv, LinkTypeOK
    <2>3. Astray' = Astray
      BY <1>1, <2>1 DEF Astray
    <2>4. AtStake' => AtStake
      BY <1>2, <2>1 DEF AtStake, LookedAfter
    <2>5. QED
      BY <1>1, <2>1, <2>2, <2>3, <2>4, Account
  <1>4. CASE Subscribe(t)
    <2>1. /\ at[t] = "subscribe" /\ at'[t] = after[t] /\ at'[u] = at[u]
          /\ after[t] \in {"await", "report"} \union SubAt
          /\ UNCHANGED << connected, sock, state, mine, late, met >>
      BY <1>1, <1>2, <1>4 DEF Subscribe, Handled, Goto, session, counts, LinkInv
    <2>2. \/ net' = net
          \/ sock # NoSocket /\ net[sock] = "live" /\ net' = [net EXCEPT ![sock] = "subscribed"]
      BY <1>4 DEF Subscribe, On
    <2>3. SocketInv'
      BY <1>1, <1>2, <2>1, <2>2 DEF SocketInv, SubAt, LinkInv, LinkTypeOK
    <2>4. Astray' = Astray
      BY <1>1, <2>1, <2>2 DEF Astray
    <2>5. AtStake' => AtStake
      BY <1>1, <1>2, <2>1, <2>2 DEF AtStake, LookedAfter, Threads, SubAt, LinkInv, LinkTypeOK
    <2>6. QED
      BY <1>1, <2>1, <2>3, <2>4, <2>5, Account
  <1>5. CASE Leave(t)
    <2>1. PICK to \in {"await", "live"} :
            at' = [at EXCEPT ![t] = to] /\ at[t] \in {"await", "input"} /\ (at[t] = "await" => to = "await")
      BY <1>5 DEF Leave, Polling, Proceed
    <2>2. /\ at'[t] = to /\ at'[u] = at[u]
          /\ sock # NoSocket /\ net[sock] = "subscribed" /\ net' = [net EXCEPT ![sock] = "unread"]
          /\ UNCHANGED << connected, sock, state, mine, late, met >>
      BY <1>2, <1>5, <2>1 DEF Leave, On, Set, session, control
    <2>3. SocketInv'
      BY <1>1, <1>2, <2>1, <2>2 DEF SocketInv, LinkInv, LinkTypeOK
    <2>4. Astray' = Astray
      BY <1>1, <2>2 DEF Astray
    <2>5. AtStake' => AtStake
      BY <1>1, <1>2, <2>1, <2>2 DEF AtStake, LookedAfter, Threads, LinkInv, LinkTypeOK
    <2>6. QED
      BY <1>1, <2>2, <2>3, <2>4, <2>5, Account
  <1>6. QED
    BY <1>3, <1>4, <1>5

LEMMA AttemptLoss ==
  ASSUME LossInv, NEW t \in Threads, Attempt(t)
  PROVE  LossInv'
  <1>1. LinkInv /\ LinkInv' /\ SocketInv
    BY AttemptType DEF LossInv
  <1>2. Return(t) \in {"await", "report", "loop", "live"}
    BY <1>1 DEF LinkInv, Return
  <1>3. CASE Done(t)
    <2>1. PICK to \in {"await", "report", "loop", "live"} : at' = [at EXCEPT ![t] = to]
      BY <1>2, <1>3 DEF Done, Goto
    <2>2. UNCHANGED << connected, sock, state, net, mine, late, met >> /\ at[t] = "await" /\ connected
      BY <1>3 DEF Done, Goto, session, counts
    <2>3. LookedAfter'
      BY <2>2 DEF LookedAfter
    <2>4. QED
      BY <1>1, <2>1, <2>2, <2>3, CalmLoss DEF LossInv
  <1>4. CASE DialFails(t)
    <2>1. /\ at' = [at EXCEPT ![t] = Return(t)] /\ sock' = NoSocket /\ state' = "idle"
          /\ UNCHANGED << late, met >> /\ \A u \in Threads : u # t => mine'[u] = mine[u]
      BY <1>1, <1>4 DEF DialFails, Goto, LinkInv, LinkTypeOK
    <2>2. /\ \A s \in Sockets : s # sock /\ net'[s] # "free" => net[s] # "free"
          /\ sock # NoSocket => net'[sock] = "free"
      BY <1>1, <1>4 DEF DialFails, LinkInv, LinkTypeOK
    <2>3. QED
      BY <1>1, <1>2, <2>1, <2>2, CloseLoss DEF LossInv
  <1>5. CASE AskNobody(t)
    <2>1. /\ at' = [at EXCEPT ![t] = "gone"] /\ at[t] = "dialing"
          /\ sock' = NoSocket /\ state' = "idle"
          /\ UNCHANGED << late, met >> /\ \A u \in Threads : u # t => mine'[u] = mine[u]
      BY <1>1, <1>5 DEF AskNobody, counts, LinkInv, LinkTypeOK
    <2>2. /\ \A s \in Sockets : s # sock /\ net'[s] # "free" => net[s] # "free"
          /\ sock # NoSocket => net'[sock] = "free"
      BY <1>1, <1>5 DEF AskNobody, LinkInv, LinkTypeOK
    <2>3. QED
      BY <1>1, <2>1, <2>2, CloseLoss DEF LossInv
  <1>6. QED
    BY <1>1, <1>3, <1>4, <1>5, WipeLoss, DialLoss, AskLoss, GiveUpLoss DEF Attempt, LossInv

\* Closing the client's socket, by whichever thread and from wherever.
LEMMA DisconnectLoss ==
  ASSUME LossInv, LinkInv', NEW t \in Threads, NEW then, Disconnect(t, then), sock # NoSocket,
         UNCHANGED << mine, counts >>
  PROVE  LossInv'
  <1>1. LinkInv
    BY DEF LossInv
  <1>2. /\ at' = [at EXCEPT ![t] = "gone"] /\ sock' = NoSocket /\ state' = "idle"
        /\ UNCHANGED << late, met >> /\ net' = [net EXCEPT ![sock] = "free"]
        /\ \A u \in Threads : u # t => mine'[u] = mine[u]
    BY DEF Disconnect, counts
  <1>3. /\ \A s \in Sockets : s # sock /\ net'[s] # "free" => net[s] # "free"
        /\ net'[sock] = "free"
    BY <1>1, <1>2 DEF LinkInv, LinkTypeOK
  <1>4. QED
    BY <1>2, <1>3, CloseLoss DEF LossInv

LEMMA HearLoss ==
  ASSUME LossInv, NEW t \in Threads, Hear(t)
  PROVE  LossInv'
  <1>1. LinkInv /\ LinkInv' /\ SocketInv
    BY HearType DEF LossInv
  <1>2. after[t] \in {"await", "report"} \union SubAt
    BY <1>1 DEF LinkInv
  <1>3. CASE NothingThere(t)
    <2>1. PICK to \in {"await", "drop", "live"} :
            at' = [at EXCEPT ![t] = to] /\ at[t] \in {"await", "input"} /\ (at[t] = "await" => to = "await")
      BY <1>3 DEF NothingThere, Polling, Proceed
    <2>2. UNCHANGED << connected, sock, state, net, mine, late, met >>
      BY <1>3 DEF NothingThere, session, control, counts
    <2>3. at[t] = "await" => at' = at
      BY <1>1, <2>1 DEF LinkInv
    <2>4. at[t] = "await" => (LookedAfter' <=> LookedAfter)
      BY <2>2, <2>3 DEF LookedAfter
    <2>5. QED
      BY <1>1, <2>1, <2>2, <2>4, CalmLoss DEF LossInv
  <1>4. CASE Closed(t)
    BY <1>1, <1>4, DisconnectLoss DEF Closed, On
  <1>5. CASE Command(t)
    <2>1. /\ at' = [at EXCEPT ![t] = "report"] /\ at[t] \in {"await", "input"}
          /\ net[sock] = "subscribed"
          /\ UNCHANGED << connected, sock, state, net, mine, late, met >>
      BY <1>5 DEF Command, Polling, On, session, counts
    <2>2. sock # NoSocket /\ ~LookedAfter' => ~LookedAfter
      BY <1>1, <2>1 DEF LookedAfter, Threads, LinkInv
    <2>3. QED
      BY <1>1, <2>1, <2>2, CalmLoss DEF LossInv
  <1>6. CASE Acked(t)
    <2>1. /\ at' = [at EXCEPT ![t] = "subscribe"] /\ at[t] = "acked" /\ connected' = TRUE
          /\ UNCHANGED << sock, state, net, mine, late, met >>
      BY <1>6 DEF Acked, Goto, control, counts
    <2>2. QED
      BY <1>1, <2>1, FlagLoss DEF LossInv
  <1>7. CASE Gone(t)
    <2>1. /\ at' = [at EXCEPT ![t] = after[t]] /\ at[t] = "gone" /\ connected' = FALSE
          /\ UNCHANGED << sock, state, net, mine, late, met >>
      BY <1>7 DEF Gone, Handled, Goto, counts
    <2>2. after[t] \notin {"dial", "gone", "dialing"}
      BY <1>2 DEF SubAt
    <2>3. QED
      BY <1>1, <2>1, <2>2, FlagLoss DEF LossInv
  <1>8. QED
    BY <1>1, <1>3, <1>4, <1>5, <1>6, <1>7, SessionLoss DEF Hear, LossInv

LEMMA ReportLoss ==
  ASSUME LossInv, NEW t \in Threads, Report(t) \/ Publish(t) \/ PublishBroken(t)
  PROVE  LossInv'
  <1>1. LinkInv /\ LinkInv' /\ SocketInv
    BY ReportType DEF LossInv
  <1>2. CASE Report(t) \/ Publish(t)
    <2>1. PICK to \in {"publish", "init", "await", "report", "loop", "live"} :
            at' = [at EXCEPT ![t] = to] /\ at[t] \in {"report", "publish"}
      BY <1>1, <1>2 DEF Report, Publish, Goto, Return, LinkInv
    <2>2. UNCHANGED << connected, sock, state, net, mine, late, met >>
      BY <1>2 DEF Report, Publish, session, control, counts
    <2>3. QED
      BY <1>1, <2>1, <2>2, CalmLoss DEF LossInv
  <1>3. CASE PublishBroken(t)
    BY <1>1, <1>3, DisconnectLoss DEF PublishBroken, On
  <1>4. QED
    BY <1>2, <1>3

LEMMA ServeLoss ==
  ASSUME LossInv, Serve
  PROVE  LossInv'
  <1>1. LinkInv /\ LinkInv' /\ SocketInv /\ "mqtt_sub" \in Threads
    BY ServeType DEF LossInv, Threads
  <1>2. CASE Loop \/ PollInput \/ PollNothing \/ Live
    <2>1. PICK to \in {"poll", "init", "input", "live", "loop", "drop"} :
            at' = [at EXCEPT !["mqtt_sub"] = to] /\ at["mqtt_sub"] \in {"loop", "poll", "live"}
      BY <1>2 DEF Loop, PollInput, PollNothing, Live, Goto
    <2>2. UNCHANGED << connected, sock, state, net, mine, late, met >>
      BY <1>2 DEF Loop, PollInput, PollNothing, Live, session, control, counts
    <2>3. QED
      BY <1>1, <2>1, <2>2, CalmLoss DEF LossInv
  <1>3. CASE Drop \/ PollFails
    <2>1. /\ at' = [at EXCEPT !["mqtt_sub"] = "abort"] /\ at["mqtt_sub"] \in {"drop", "poll"}
          /\ connected' = FALSE /\ UNCHANGED << sock, state, net, mine, late, met >>
      BY <1>3 DEF Drop, PollFails, Goto, control, counts
    <2>2. QED
      BY <1>1, <2>1, FlagLoss DEF LossInv
  <1>4. CASE Abort /\ state # "idle"
    BY <1>1, <1>4, DisconnectLoss DEF Abort, SocketInv
  <1>5. CASE Abort /\ state = "idle"
    <2>1. /\ at' = [at EXCEPT !["mqtt_sub"] = "loop"] /\ at["mqtt_sub"] = "abort"
          /\ UNCHANGED << connected, sock, state, net, mine, late, met >>
      BY <1>5 DEF Abort, Goto, session, counts
    <2>2. sock # NoSocket => LookedAfter'
      BY <1>1, <1>5, <2>1 DEF SocketInv, LookedAfter, LinkInv
    <2>3. QED
      BY <1>1, <2>1, <2>2, CalmLoss DEF LossInv
  <1>6. CASE PingFails
    BY <1>1, <1>6, DisconnectLoss DEF PingFails, On
  <1>7. QED
    BY <1>2, <1>3, <1>4, <1>5, <1>6 DEF Serve, Poll

\* The environment, with the loss of the address whether it counts as a fault or not.
LEMMA WorldLoss ==
  ASSUME LossInv, LinkInv', Outside \/ GainAddress \/ LoseAddress
  PROVE  LossInv'
  <1>1. /\ UNCHANGED << connected, sock, state, at, mine, late, met >>
        /\ net \in [Sockets -> NetState]
    BY DEF Outside, Answer, Refuse, Break, GainAddress, LoseAddress, session, control, counts,
       LossInv, LinkInv, LinkTypeOK
  <1>2. \A s \in Sockets :
          \/ net'[s] = net[s]
          \/ /\ net[s] \notin {"free", "dialing", "open"}
             /\ net'[s] \in {"answered", "refused", "broken"}
    BY <1>1 DEF Outside, Answer, Refuse, Break, GainAddress, LoseAddress, Set, InSession
  <1>3. QED
    BY <1>1, <1>2, OutsideLoss DEF LossInv

LEMMA LossInvInit == LinkInit => LossInv
  <1> SUFFICES ASSUME LinkInit PROVE LossInv
    OBVIOUS
  <1>1. LinkInv
    BY LinkInit0
  <1>2. SocketInv /\ ~AtStake
    BY DEF LinkInit, SocketInv, AtStake, Threads, NoSocket
  <1>3. Astray = {} /\ Cardinality({}) = 0
    BY FS_EmptySet DEF LinkInit, Astray
  <1>4. QED
    BY <1>1, <1>2, <1>3 DEF LossInv, DebtInv, Stake, LinkInit

LEMMA LossInvStep == LossInv /\ [LinkNext]_linkVars => LossInv'
  <1> SUFFICES ASSUME LossInv, [LinkNext]_linkVars PROVE LossInv'
    OBVIOUS
  <1>1. LinkInv /\ LinkInv'
    BY LinkInvStep DEF LossInv
  <1>2. CASE Online
    <2>1. /\ at' = [at EXCEPT !["main"] = "init"] /\ at["main"] = "boot" /\ "main" \in Threads
          /\ UNCHANGED << connected, sock, state, net, mine, late, met >>
      BY <1>2 DEF Online, Goto, session, control, counts, Threads
    <2>2. QED
      BY <1>1, <2>1, CalmLoss DEF LossInv
  <1>3. CASE UNCHANGED linkVars
    BY <1>1, <1>3 DEF linkVars, LossInv, session, control, counts, SocketInv, DebtInv, Stake,
       AtStake, LookedAfter, Astray
  <1>4. QED
    BY <1>1, <1>2, <1>3, AttemptLoss, HearLoss, ReportLoss, ServeLoss, WorldLoss DEF LinkNext, Run

LEMMA LossExplained == LossInv => OrphansExplained
  <1> SUFFICES ASSUME LossInv PROVE OrphansExplained
    OBVIOUS
  <1>1. Orphans \subseteq Astray /\ Astray \in SUBSET Sockets /\ Orphans \in SUBSET Sockets
    BY DEF Orphans, Astray
  <1>2. Cardinality(Orphans) \in Nat /\ Cardinality(Orphans) <= Cardinality(Astray)
    BY <1>1, Counting
  <1>3. Cardinality(Astray) \in Nat /\ late \in Nat /\ met \in Nat
    BY <1>1, Counting, LinkAssumption DEF LossInv, LinkInv, LinkTypeOK
  <1>4. QED
    BY <1>2, <1>3 DEF LossInv, DebtInv, Stake, OrphansExplained

\* Whatever the two threads, the broker and the network do, a descriptor is lost only to a
\* CONNACK that was given up on or to a client zeroed under the other thread, one for each
\* of the former and two for each of the latter, however far these are counted.
THEOREM LossesExplained == LinkSpec => []OrphansExplained
  BY LossInvInit, LossInvStep, LossExplained, PTL DEF LinkSpec

-----------------------------------------------------------------------------
(* What is lost stays lost                                                 *)

\* The socket of the client is the only one that anybody closes.
LEMMA StaysLost ==
  ASSUME NEW s \in Orphans, sock' \in {sock, NoSocket},
         \A t \in Threads : mine'[t] \in {mine[t], NoSocket},
         net'[s] = net[s] \/ net'[s] # "free"
  PROVE  s \in Orphans'
  BY LinkAssumption DEF Orphans, NoSocket

LEMMA AttemptLoses ==
  ASSUME LinkInv, NEW s \in Orphans, NEW t \in Threads, Attempt(t)
  PROVE  s \in Orphans'
  <1>1. s \in Sockets /\ s # sock /\ net[s] # "free" /\ \A u \in Threads : mine[u] # s
    BY DEF Orphans
  <1>2. DOMAIN net = Sockets /\ DOMAIN mine = Threads
    BY DEF LinkInv, LinkTypeOK
  <1>3. CASE Wipe(t) \/ NoneLeft(t) \/ Done(t) \/ GiveUp(t)
    <2>1. UNCHANGED << net, mine >> /\ sock' \in {sock, NoSocket}
      BY <1>3 DEF Wipe, NoneLeft, Done, GiveUp, session, control
    <2>2. QED
      BY <2>1, StaysLost
  <1>4. CASE Dial(t)
    <2>1. PICK r \in Sockets : /\ net[r] = "free" /\ net' = [net EXCEPT ![r] = "dialing"]
                               /\ sock' = r /\ mine' = [mine EXCEPT ![t] = r]
      BY <1>4 DEF Dial, Free, Set
    <2>2. QED
      BY <1>1, <1>2, <2>1 DEF Orphans
  <1>5. CASE DialFails(t) \/ Ask(t) \/ AskTwice(t) \/ AskNobody(t)
    <2>1. sock' \in {sock, NoSocket} /\ mine' = [mine EXCEPT ![t] = NoSocket]
      BY <1>5 DEF DialFails, Ask, AskTwice, AskNobody
    <2>2. net'[s] = net[s]
      BY <1>1, <1>2, <1>5 DEF DialFails, Ask, AskTwice, AskNobody, Set
    <2>3. QED
      BY <1>2, <2>1, <2>2, StaysLost
  <1>6. QED
    BY <1>3, <1>4, <1>5 DEF Attempt

LEMMA RunLoses ==
  ASSUME LinkInv, NEW s \in Orphans, NEW t \in Threads,
         Hear(t) \/ Report(t) \/ Publish(t) \/ PublishBroken(t) \/ (t = "mqtt_sub" /\ Serve)
  PROVE  s \in Orphans'
  <1>1. s \in Sockets /\ s # sock /\ DOMAIN net = Sockets
    BY DEF Orphans, LinkInv, LinkTypeOK
  <1>2. CASE NothingThere(t) \/ Command(t) \/ Acked(t) \/ Gone(t) \/ Report(t) \/ Publish(t)
             \/ (Serve /\ ~Abort /\ ~PingFails)
    <2>1. UNCHANGED << sock, net, mine >>
      BY <1>2 DEF NothingThere, Command, Acked, Gone, Handled, Report, Publish, Serve, Loop, Poll,
         PollInput, PollNothing, PollFails, Live, Drop, session, control
    <2>2. QED
      BY <2>1, StaysLost
  <1>3. CASE Accepted(t) \/ Subscribe(t) \/ Leave(t)
    <2>1. UNCHANGED << sock, mine >>
      BY <1>3 DEF Accepted, Subscribe, Leave, Handled, session, control
    <2>2. \E what : net' = [net EXCEPT ![sock] = what] \/ net' = net
      BY <1>3 DEF Accepted, Subscribe, Leave, Set
    <2>3. net'[s] = net[s]
      BY <1>1, <2>2
    <2>4. QED
      BY <2>1, <2>3, StaysLost
  <1>4. ASSUME NEW u \in Threads, NEW then, Disconnect(u, then), mine' = mine PROVE s \in Orphans'
    <2>1. sock' = NoSocket /\ net'[s] = net[s]
      BY <1>1, <1>4 DEF Disconnect
    <2>2. QED
      BY <1>4, <2>1, StaysLost
  <1>5. CASE Closed(t) \/ PublishBroken(t) \/ PingFails
    BY <1>4, <1>5 DEF Closed, PublishBroken, PingFails, Threads
  <1>6. CASE Abort
    <2>1. mine' = mine /\ "mqtt_sub" \in Threads
      BY <1>6 DEF Abort, Threads
    <2>2. CASE state = "idle"
      BY <1>6, <2>1, <2>2, StaysLost DEF Abort, session
    <2>3. QED
      BY <1>4, <1>6, <2>1, <2>2 DEF Abort
  <1>7. QED
    BY <1>2, <1>3, <1>5, <1>6 DEF Hear

LEMMA WorldLoses ==
  ASSUME LinkInv, NEW s \in Orphans, Outside \/ GainAddress \/ LoseAddress \/ Online
  PROVE  s \in Orphans'
  <1>1. UNCHANGED << sock, mine >> /\ (net'[s] = net[s] \/ net'[s] # "free")
    BY DEF Outside, Answer, Refuse, Break, GainAddress, LoseAddress, Online, session, control, Set,
       LinkInv, LinkTypeOK, Orphans
  <1>2. QED
    BY <1>1, StaysLost

LEMMA LossIsFinal == LinkInv /\ [LinkNext]_linkVars => Orphans \subseteq Orphans'
  <1> SUFFICES ASSUME LinkInv, [LinkNext]_linkVars, NEW s \in Orphans PROVE s \in Orphans'
    OBVIOUS
  <1>1. CASE UNCHANGED linkVars
    BY <1>1, StaysLost DEF linkVars, session, control
  <1>2. CASE \E t \in Threads : Run(t)
    BY <1>2, AttemptLoses, RunLoses DEF Run
  <1>3. CASE Serve
    BY <1>3, RunLoses DEF Threads
  <1>4. QED
    BY <1>1, <1>2, <1>3, WorldLoses DEF LinkNext

\* No step of a thread, the broker or the network gives back a lost descriptor: mqtt.c keeps
\* no other record of a socket than the client it zeroes (mqtt.c:159).
THEOREM LostForGood == LinkSpec => [][Orphans \subseteq Orphans']_linkVars
  BY LinkInit0, LinkInvStep, LossIsFinal, PTL DEF LinkSpec

\* Every descriptor is lost, and the client has none.
AllLost == Orphans = Sockets
NoSessionAnyMore == AllLost /\ sock = NoSocket /\ state = "idle"

\* Once every descriptor is lost there is never a session again: the first alternative of
\* TelemetryRecovers and CommandsRecover is an end, and what the run LinkExhausted reaches is
\* left by a reset only.
THEOREM ExhaustedForGood == LinkSpec => [](AllLost => []NoSessionAnyMore)
  <1>1. LossInv /\ AllLost => NoSessionAnyMore
    BY DEF LossInv, LinkInv, LinkTypeOK, SocketInv, AllLost, NoSessionAnyMore, Orphans
  <1>2. LossInv /\ AllLost /\ [LinkNext]_linkVars => AllLost'
    BY LossIsFinal DEF LossInv, AllLost, Orphans
  <1>3. QED
    BY <1>1, <1>2, LossInvInit, LossInvStep, PTL DEF LinkSpec

=============================================================================
