----------------------------- MODULE NetworkProofs -----------------------------
(***************************************************************************)
(* Proofs about WifiBringup, for any air and any bounds, and about Network *)
(* for any descriptors too: that no token is missed rests on the order of  *)
(* the events still to be handed out (ScanPending, JoinPending and         *)
(* AddressPending), and neither the bring-up nor the session loses what is *)
(* proved of it when the other runs beside it.                             *)
(***************************************************************************)
EXTENDS Network, MqttLinkProofs, SequenceTheorems

\* An event of the type is still to be handed out.
Raised(type) == \E i \in 1 .. Len(events) : events[i].type = type

ScanPending ==
  step = "scanning" /\ radio = "idle" => sem_wifi_scan = 1 \/ Raised("SCAN_DONE")

\* A successful connection is still to be reported, and no loss of it is behind; or it
\* was, and none is to come.
JoinPending ==
  step = "connecting" /\ radio = "joined" =>
    \/ sem_wifi = 1 /\ ~Raised("DISCONNECT_RESULT")
    \/ \E i \in 1 .. Len(events) :
         /\ events[i].type = "CONNECT_RESULT" /\ events[i].status
         /\ \A j \in i + 1 .. Len(events) : events[j].type # "DISCONNECT_RESULT"

AddressPending == addr /\ step # "up" => sem_ipv4 = 1 \/ Raised("ADDR_ADD")

WifiInv == WifiTypeOK /\ ScanPending /\ JoinPending /\ AddressPending

-----------------------------------------------------------------------------
(* Type correctness                                                        *)

LEMMA WifiTypeInit == WifiInit => WifiTypeOK
  <1> SUFFICES ASSUME WifiInit PROVE WifiTypeOK
    OBVIOUS
  <1>1. events \in Seq(EventT) /\ Len(events) = 0
    BY EmptySeq DEF WifiInit
  <1>2. Len(events) <= MaxQueue /\ drops \in 0 .. MaxDrops /\ fails \in 0 .. MaxFails
    BY <1>1, WifiAssumption DEF WifiInit
  <1>3. target_channel \in Channel
    BY DEF WifiInit, Channel, ANY
  <1>4. QED
    BY <1>1, <1>2, <1>3 DEF WifiInit, WifiTypeOK, StepAt

LEMMA RaiseType ==
  ASSUME WifiTypeOK, NEW event \in EventT, Raise(event)
  PROVE  /\ events' \in Seq(EventT) /\ Len(events') <= MaxQueue
         /\ Len(events') = Len(events) + 1 /\ events'[Len(events')] = event
         /\ \A i \in 1 .. Len(events) : events'[i] = events[i]
  BY WifiAssumption, AppendProperties DEF WifiTypeOK, Raise

LEMMA HandedType ==
  ASSUME WifiTypeOK, NEW type, Handed(type)
  PROVE  /\ events' \in Seq(EventT) /\ Len(events') <= MaxQueue
         /\ Len(events) > 0 /\ Len(events') = Len(events) - 1
         /\ Head(events) = events[1] /\ events[1] \in EventT /\ events[1].type = type
         /\ \A i \in 1 .. Len(events') : events'[i] = events[i + 1]
  <1>1. events \in Seq(EventT) /\ events # << >> /\ events' = Tail(events)
    BY DEF WifiTypeOK, Handed
  <1>2. Len(events) \in Nat \ {0}
    BY <1>1, EmptySeq
  <1>3. Head(events) = events[1] /\ events[1] \in EventT
    BY <1>1, <1>2, HeadTailProperties
  <1>4. /\ events' \in Seq(EventT) /\ Len(events') = Len(events) - 1
        /\ \A i \in 1 .. Len(events') : events'[i] = events[i + 1]
    BY <1>1, HeadTailProperties
  <1>5. QED
    BY <1>2, <1>3, <1>4, WifiAssumption DEF WifiTypeOK, Handed

LEMMA WifiTypeStep == WifiTypeOK /\ [WifiNext]_wifiVars => WifiTypeOK'
  <1> SUFFICES ASSUME WifiTypeOK, [WifiNext]_wifiVars PROVE WifiTypeOK'
    OBVIOUS
  <1> USE DEF WifiTypeOK, sems, outside
  <1>1. CASE MainStep
    <2>1. CASE Scan \/ ScanRefused
      BY <2>1 DEF Scan, ScanRefused, Pass, StepAt, Channel, ANY
    <2>2. CASE Connect \/ ConnectRefused
      BY <2>2 DEF Connect, ConnectRefused, Pass, StepAt
    <2>3. CASE Scanned \/ Connected \/ Addressed
      BY <2>3 DEF Scanned, Connected, Addressed, Pass, StepAt
    <2>4. QED
      BY <1>1, <2>1, <2>2, <2>3 DEF MainStep
  <1>2. CASE on_wifi_scan_result
    <2>1. events[1] \in EventT /\ events[1].type = "SCAN_RESULT" /\ Head(events) = events[1]
          /\ events' \in Seq(EventT) /\ Len(events') <= MaxQueue
      BY <1>2, HandedType DEF on_wifi_scan_result
    <2>2. events[1].ap \in Air
      BY <2>1 DEF EventT
    <2>3. target_channel' \in Channel
      BY <1>2, <2>1, <2>2, WifiAssumption DEF on_wifi_scan_result
    <2>4. QED
      BY <1>2, <2>1, <2>3 DEF on_wifi_scan_result
  <1>3. CASE on_wifi_scan_done \/ on_wifi_connect \/ on_wifi_disconnect \/ on_ipv4_obtained
    <2>1. \E type : Handed(type)
      BY <1>3 DEF on_wifi_scan_done, on_wifi_connect, on_wifi_disconnect, on_ipv4_obtained
    <2>2. events' \in Seq(EventT) /\ Len(events') <= MaxQueue
      BY <2>1, HandedType
    <2>3. QED
      BY <1>3, <2>2 DEF on_wifi_scan_done, on_wifi_connect, on_wifi_disconnect, on_ipv4_obtained
  <1>4. CASE ScanEnds \/ Joins \/ JoinFails \/ GetsAddress \/ Drops \/ \E ap \in Air : Hears(ap)
    <2>1. \E event \in EventT : Raise(event)
      BY <1>4 DEF ScanEnds, Joins, JoinFails, GetsAddress, Drops, Hears, StatusOf, EventT
    <2>2. events' \in Seq(EventT) /\ Len(events') <= MaxQueue
      BY <2>1, RaiseType
    <2>3. drops' \in 0 .. MaxDrops /\ fails' \in 0 .. MaxFails
      <3>1. CASE JoinFails
        BY <3>1, WifiAssumption DEF JoinFails
      <3>2. CASE Drops
        BY <3>2, WifiAssumption DEF Drops
      <3>3. CASE ScanEnds \/ Joins \/ GetsAddress \/ \E ap \in Air : Hears(ap)
        BY <3>3 DEF ScanEnds, Joins, GetsAddress, Hears
      <3>4. QED
        BY <1>4, <3>1, <3>2, <3>3
    <2>4. QED
      BY <1>4, <2>2, <2>3 DEF ScanEnds, Joins, JoinFails, GetsAddress, Drops, Hears
  <1>5. CASE UNCHANGED wifiVars
    BY <1>5 DEF wifiVars
  <1>6. QED
    BY <1>1, <1>2, <1>3, <1>4, <1>5 DEF WifiNext, Callback, Driver, Misfortune

\* The semaphores stay binary and the channel one that exists, whatever access points
\* are in range and whatever the driver reports.
THEOREM WifiTypeCorrect == WifiSpec => []WifiTypeOK
  BY WifiTypeInit, WifiTypeStep, PTL DEF WifiSpec

-----------------------------------------------------------------------------
(* No token is missed                                                      *)

LEMMA WifiInvInit == WifiInit => WifiInv
  BY WifiTypeInit DEF WifiInit, WifiInv, ScanPending, JoinPending, AddressPending

\* Raising an event keeps what is still to be handed out.
LEMMA RaisePending ==
  ASSUME WifiInv, NEW event \in EventT, Raise(event), UNCHANGED << step, sems >>
  PROVE  /\ (radio' = radio /\ event.type # "DISCONNECT_RESULT") => ScanPending' /\ JoinPending'
         /\ addr' = addr => AddressPending'
         /\ event.type = "SCAN_DONE" /\ radio' = "idle" => ScanPending' /\ JoinPending'
         /\ event.type = "CONNECT_RESULT" /\ event.status /\ radio' = "joined"
              => ScanPending' /\ JoinPending'
         /\ event.type = "ADDR_ADD" => AddressPending'
  <1>1. /\ Len(events) \in Nat /\ Len(events') = Len(events) + 1
        /\ events'[Len(events) + 1] = event
        /\ \A i \in 1 .. Len(events) : events'[i] = events[i]
    BY RaiseType DEF WifiInv, WifiTypeOK
  <1>2. ASSUME NEW type, Raised(type) PROVE Raised(type)'
    BY <1>1, <1>2 DEF Raised
  <1>3. ASSUME NEW type, event.type = type PROVE Raised(type)'
    BY <1>1, <1>3 DEF Raised
  <1>4. ASSUME radio' = radio, event.type # "DISCONNECT_RESULT" PROVE ScanPending' /\ JoinPending'
    <2>1. ScanPending'
      BY <1>2, <1>4 DEF WifiInv, ScanPending, sems
    <2>2. Raised("DISCONNECT_RESULT")' => Raised("DISCONNECT_RESULT")
      BY <1>1, <1>4 DEF Raised
    <2>3. JoinPending'
      BY <1>1, <1>4, <2>2 DEF WifiInv, JoinPending, sems
    <2>4. QED
      BY <2>1, <2>3
  <1>5. addr' = addr => AddressPending'
    BY <1>2 DEF WifiInv, AddressPending, sems
  <1>6. event.type = "SCAN_DONE" /\ radio' = "idle" => ScanPending' /\ JoinPending'
    BY <1>3 DEF ScanPending, JoinPending
  <1>7. event.type = "CONNECT_RESULT" /\ event.status /\ radio' = "joined"
          => ScanPending' /\ JoinPending'
    BY <1>1 DEF ScanPending, JoinPending
  <1>8. event.type = "ADDR_ADD" => AddressPending'
    BY <1>3 DEF AddressPending
  <1>9. QED
    BY <1>4, <1>5, <1>6, <1>7, <1>8

\* Handing out the first event keeps the others; only its own token may change.
LEMMA HandPending ==
  ASSUME WifiInv, NEW type, Handed(type), UNCHANGED << step, radio, addr >>
  PROVE  /\ sem_wifi_scan' = (IF type = "SCAN_DONE" THEN 1 ELSE sem_wifi_scan) => ScanPending'
         /\ sem_ipv4' = (IF type = "ADDR_ADD" THEN 1 ELSE sem_ipv4) => AddressPending'
         /\ type # "DISCONNECT_RESULT"
            /\ sem_wifi' = (IF type = "CONNECT_RESULT" /\ Head(events).status THEN 1 ELSE sem_wifi)
              => JoinPending'
         /\ type = "DISCONNECT_RESULT" => JoinPending'
  <1>1. /\ Len(events) \in Nat \ {0} /\ Len(events') = Len(events) - 1
        /\ Head(events) = events[1] /\ events[1].type = type
        /\ \A i \in 1 .. Len(events') : events'[i] = events[i + 1]
    BY HandedType DEF WifiInv, WifiTypeOK
  <1>2. ASSUME NEW t, Raised(t), t # type PROVE Raised(t)'
    <2>1. PICK i \in 1 .. Len(events) : events[i].type = t
      BY <1>2 DEF Raised
    <2>2. i - 1 \in 1 .. Len(events') /\ events'[i - 1].type = t
      BY <1>1, <1>2, <2>1
    <2>3. QED
      BY <2>2 DEF Raised
  <1>3. ASSUME NEW t, Raised(t)' PROVE Raised(t)
    <2>1. PICK i \in 1 .. Len(events') : events'[i].type = t
      BY <1>3 DEF Raised
    <2>2. i + 1 \in 1 .. Len(events) /\ events[i + 1].type = t
      BY <1>1, <2>1
    <2>3. QED
      BY <2>2 DEF Raised
  <1>4. sem_wifi_scan' = (IF type = "SCAN_DONE" THEN 1 ELSE sem_wifi_scan) => ScanPending'
    BY <1>2 DEF WifiInv, ScanPending
  <1>5. sem_ipv4' = (IF type = "ADDR_ADD" THEN 1 ELSE sem_ipv4) => AddressPending'
    BY <1>2 DEF WifiInv, AddressPending
  <1>6. ASSUME step = "connecting", radio = "joined",
               NEW i \in 1 .. Len(events), i # 1,
               events[i].type = "CONNECT_RESULT" /\ events[i].status,
               \A j \in i + 1 .. Len(events) : events[j].type # "DISCONNECT_RESULT"
        PROVE JoinPending'
    <2>1. i - 1 \in 1 .. Len(events') /\ events'[i - 1] = events[i]
      BY <1>1, <1>6
    <2>2. ASSUME NEW j \in (i - 1) + 1 .. Len(events')
          PROVE  events'[j].type # "DISCONNECT_RESULT"
      <3>1. j \in 1 .. Len(events') /\ j + 1 \in i + 1 .. Len(events)
        BY <1>1
      <3>2. QED
        BY <1>1, <1>6, <3>1
    <2>3. QED
      BY <1>6, <2>1, <2>2 DEF JoinPending
  <1>7. ASSUME type # "DISCONNECT_RESULT",
               sem_wifi' = IF type = "CONNECT_RESULT" /\ Head(events).status THEN 1 ELSE sem_wifi
        PROVE JoinPending'
    <2> SUFFICES ASSUME step = "connecting", radio = "joined" PROVE JoinPending'
      BY DEF JoinPending
    <2>1. CASE sem_wifi = 1 /\ ~Raised("DISCONNECT_RESULT")
      BY <1>3, <1>7, <2>1 DEF JoinPending
    <2>2. ASSUME events[1].type = "CONNECT_RESULT" /\ events[1].status,
                 \A j \in 1 + 1 .. Len(events) : events[j].type # "DISCONNECT_RESULT"
          PROVE JoinPending'
      <3>1. sem_wifi' = 1
        BY <1>1, <1>7, <2>2
      <3>2. ~Raised("DISCONNECT_RESULT")'
        BY <1>1, <2>2 DEF Raised
      <3>3. QED
        BY <3>1, <3>2 DEF JoinPending
    <2>3. QED
      BY <1>6, <2>1, <2>2 DEF WifiInv, JoinPending
  <1>8. ASSUME type = "DISCONNECT_RESULT" PROVE JoinPending'
    <2> SUFFICES ASSUME step = "connecting", radio = "joined" PROVE JoinPending'
      BY DEF JoinPending
    <2>1. Raised("DISCONNECT_RESULT")
      BY <1>1, <1>8 DEF Raised
    <2>2. events[1].type # "CONNECT_RESULT"
      BY <1>1, <1>8
    <2>3. QED
      BY <1>6, <2>1, <2>2 DEF WifiInv, JoinPending
  <1>9. QED
    BY <1>4, <1>5, <1>7, <1>8

LEMMA WifiInvStep == WifiInv /\ [WifiNext]_wifiVars => WifiInv'
  <1> SUFFICES ASSUME WifiInv, [WifiNext]_wifiVars
      PROVE ScanPending' /\ JoinPending' /\ AddressPending'
    BY WifiTypeStep DEF WifiInv
  <1> USE DEF sems, outside
  <1>1. CASE MainStep
    BY <1>1 DEF MainStep, Scan, ScanRefused, Scanned, Connect, ConnectRefused, Connected,
       Addressed, Pass, WifiInv, ScanPending, JoinPending, AddressPending, Raised
  <1>2. CASE on_wifi_scan_result \/ on_wifi_scan_done
    BY <1>2, HandPending DEF on_wifi_scan_result, on_wifi_scan_done
  <1>3. CASE on_wifi_connect \/ on_wifi_disconnect
    BY <1>3, HandPending DEF on_wifi_connect, on_wifi_disconnect
  <1>4. CASE on_ipv4_obtained
    BY <1>4, HandPending DEF on_ipv4_obtained
  <1>5. CASE ScanEnds
    BY <1>5, RaisePending DEF ScanEnds, EventT
  <1>6. CASE Joins
    <2> DEFINE event == [type |-> "CONNECT_RESULT", status |-> TRUE]
    <2>1. event \in EventT
      BY DEF EventT
    <2>2. Raise(event) /\ radio' = "joined" /\ UNCHANGED << step, sems, addr >>
      BY <1>6 DEF Joins, StatusOf
    <2>3. event.type = "CONNECT_RESULT" /\ event.status
      OBVIOUS
    <2> HIDE DEF event
    <2>4. QED
      BY <2>1, <2>2, <2>3, RaisePending
  <1>7. CASE JoinFails
    <2> DEFINE event == [type |-> "CONNECT_RESULT", status |-> FALSE]
    <2>1. event \in EventT
      BY DEF EventT
    <2>2. Raise(event) /\ UNCHANGED << step, sems, radio, addr >>
      BY <1>7 DEF JoinFails, StatusOf
    <2>3. event.type # "DISCONNECT_RESULT"
      OBVIOUS
    <2> HIDE DEF event
    <2>4. QED
      BY <2>1, <2>2, <2>3, RaisePending
  <1>8. CASE GetsAddress
    <2> DEFINE event == [type |-> "ADDR_ADD"]
    <2>1. event \in EventT
      BY DEF EventT
    <2>2. Raise(event) /\ UNCHANGED << step, sems, radio >>
      BY <1>8 DEF GetsAddress
    <2>3. event.type = "ADDR_ADD"
      OBVIOUS
    <2> HIDE DEF event
    <2>4. QED
      BY <2>1, <2>2, <2>3, RaisePending
  <1>9. CASE Drops
    BY <1>9 DEF Drops, ScanPending, JoinPending, AddressPending
  <1>10. ASSUME NEW ap \in Air, Hears(ap) PROVE ScanPending' /\ JoinPending' /\ AddressPending'
    BY <1>10, RaisePending DEF Hears, EventT
  <1>11. CASE UNCHANGED wifiVars
    BY <1>11 DEF wifiVars, WifiInv, ScanPending, JoinPending, AddressPending, Raised
  <1>12. QED
    BY <1>1, <1>2, <1>3, <1>4, <1>5, <1>6, <1>7, <1>8, <1>9, <1>10, <1>11
       DEF WifiNext, Callback, Driver, Misfortune

LEMMA TokenIsThere == WifiInv => NoTokenMissed
  <1> SUFFICES ASSUME WifiInv, events = << >> PROVE NoTokenMissed
    BY DEF NoTokenMissed
  <1>1. Len(events) = 0
    BY EmptySeq
  <1>2. QED
    BY <1>1 DEF WifiInv, ScanPending, JoinPending, AddressPending, Raised, NoTokenMissed

\* However often joining fails and the connection is lost, in whatever order that is
\* reported, main does not sleep on a semaphore that will not be given again.
THEOREM TokensAreKept == WifiSpec => []NoTokenMissed
  BY TokenIsThere, WifiInvInit, WifiInvStep, PTL DEF WifiSpec

-----------------------------------------------------------------------------
(* Network                                                                 *)

LEMMA NetworkWifiStep == [NetworkNext]_networkVars => [WifiNext]_wifiVars
  <1>1. CASE WifiStep
    BY <1>1 DEF WifiStep, WifiNext, Driver, Misfortune
  <1>2. CASE Attach
    BY <1>2 DEF Attach, WifiNext, Driver
  <1>3. CASE Detach
    BY <1>3 DEF Detach, WifiNext, Misfortune
  <1>4. CASE Proceeds \/ LinkStep \/ UNCHANGED networkVars
    BY <1>4 DEF Proceeds, LinkStep, networkVars
  <1>5. QED
    BY <1>1, <1>2, <1>3, <1>4 DEF NetworkNext

LEMMA NetworkLinkStep == LinkInv /\ [NetworkNext]_networkVars => LinkInv'
  <1> SUFFICES ASSUME LinkInv, [NetworkNext]_networkVars PROVE LinkInv'
    OBVIOUS
  <1>1. CASE WifiStep \/ UNCHANGED networkVars
    <2>1. UNCHANGED linkVars
      BY <1>1 DEF WifiStep, networkVars
    <2>2. QED
      BY <2>1, LinkInvStep
  <1>2. CASE Attach \/ Proceeds \/ LinkStep
    <2>1. LinkNext
      BY <1>2 DEF Attach, Proceeds, LinkStep, LinkNext
    <2>2. QED
      BY <2>1, LinkInvStep
  <1>3. CASE Detach
    <2>1. CASE UNCHANGED linkVars
      BY <2>1, LinkInvStep
    <2>2. CASE LoseAddress /\ UNCHANGED faults
      <3>1. net' \in [Sockets -> NetState]
        BY <2>2 DEF LoseAddress, LinkInv, LinkTypeOK, NetState
      <3>2. QED
        BY <2>2, <3>1 DEF LoseAddress, LinkInv, LinkTypeOK, session, control
    <2>3. QED
      BY <1>3, <2>1, <2>2 DEF Detach
  <1>4. QED
    BY <1>1, <1>2, <1>3 DEF NetworkNext

\* A step of both is one of the session, or takes its address without using up a fault.
LEMMA NetworkLossStep == LossInv /\ [NetworkNext]_networkVars => LossInv'
  <1> SUFFICES ASSUME LossInv, [NetworkNext]_networkVars PROVE LossInv'
    OBVIOUS
  <1>1. [LinkNext]_linkVars \/ LoseAddress
    BY DEF NetworkNext, WifiStep, Attach, Detach, Proceeds, LinkStep, LinkNext, networkVars
  <1>2. LinkInv'
    BY NetworkLinkStep DEF LossInv
  <1>3. QED
    BY <1>1, <1>2, LossInvStep, WorldLoss

\* With the MQTT session beside it, the bring-up still misses no token, and both keep
\* their types although a lost Wi-Fi connection breaks every socket at once.
THEOREM NetworkSafe == NetworkSpec => [](WifiTypeOK /\ NoTokenMissed /\ LinkTypeOK)
  <1>1. WifiInv => WifiTypeOK /\ NoTokenMissed
    BY TokenIsThere DEF WifiInv
  <1>2. LinkInv => LinkTypeOK
    BY DEF LinkInv
  <1>3. WifiInv /\ [NetworkNext]_networkVars => WifiInv'
    BY NetworkWifiStep, WifiInvStep
  <1>4. NetworkInit => WifiInv /\ LinkInv
    BY WifiInvInit, LinkInit0 DEF NetworkInit
  <1>5. QED
    BY <1>1, <1>2, <1>3, <1>4, NetworkLinkStep, PTL DEF NetworkSpec

\* However often the Wi-Fi connection is lost, no descriptor is lost to that: the account of
\* the session alone holds for the network as a whole.
THEOREM NetworkLossesExplained == NetworkSpec => []OrphansExplained
  <1>1. NetworkInit => LossInv
    BY LossInvInit DEF NetworkInit
  <1>2. QED
    BY <1>1, NetworkLossStep, LossExplained, PTL DEF NetworkSpec

=============================================================================
