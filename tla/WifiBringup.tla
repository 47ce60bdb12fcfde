------------------------------ MODULE WifiBringup ------------------------------
(***************************************************************************)
(* How main gets on the network: fw/src/wifi.c and main.c:42-44.  main     *)
(* scans, asks to connect and waits for an address, each time on a         *)
(* semaphore that a callback gives in the thread that hands out the        *)
(* network management events, in the order in which they were raised.      *)
(*                                                                         *)
(* The Wi-Fi driver and DHCP are external.  The driver goes on trying to   *)
(* join once it was asked to (CONFIG_ESP32_WIFI_STA_RECONNECT), after a    *)
(* failure and after the connection was lost.                              *)
(***************************************************************************)
EXTENDS NetIface, Naturals, Sequences, SequencesExt

CONSTANTS
  Ssid,       \* CONFIG_WIFI_CREDENTIALS_STATIC_SSID, a sequence of characters
  Air,        \* the access points in range: records [ssid, channel]
  MaxDrops,   \* bound on lost connections
  MaxFails,   \* bound on failed attempts to join
  MaxQueue    \* bound on events not handed out yet

ANY == 0      \* WIFI_CHANNEL_ANY

Channel == 0 .. 14

ASSUME WifiAssumption ==
  /\ \A ap \in Air : ap.channel \in Channel \ {ANY}
  /\ MaxDrops \in Nat /\ MaxFails \in Nat /\ MaxQueue \in Nat \ {0}

VARIABLES
  step,           \* where main is in wifi_connect and wifi_wait_for_ip_addr
  sem_wifi_scan, sem_wifi, sem_ipv4,
  target_channel,
  events,         \* raised and not handed out yet
  radio,          \* what the driver is doing
  heard,          \* access points reported in this scan
  drops, fails    \* what the bounds count

sems == << sem_wifi_scan, sem_wifi, sem_ipv4 >>
outside == << radio, heard, addr, drops, fails >>
wifiVars == << step, sems, target_channel, events, outside >>

StepAt == {"scan", "scanning", "settle", "connecting", "address", "up", "refused"}

EventT ==
  [type : {"SCAN_RESULT"}, ap : Air]
    \union [type : {"CONNECT_RESULT", "DISCONNECT_RESULT"}, status : BOOLEAN]
    \union [type : {"SCAN_DONE", "ADDR_ADD"}]

WifiInit ==
  /\ step = "scan"
  /\ sem_wifi_scan = 0 /\ sem_wifi = 0 /\ sem_ipv4 = 0
  /\ target_channel = ANY
  /\ events = << >>
  /\ radio = "off" /\ heard = {} /\ addr = FALSE
  /\ drops = 0 /\ fails = 0

-----------------------------------------------------------------------------
(* main                                                                    *)

Pass(from, to) == step = from /\ step' = to

\* The scan is requested; the driver accepts, ...
Scan ==
  /\ Pass("scan", "scanning")
  /\ target_channel' = ANY
  /\ radio' = "scanning"
  /\ UNCHANGED << sems, events, heard, addr, drops, fails >>

\* ... or does not, and main, which ignores what wifi_connect returns, goes on to wait
\* for an address.
ScanRefused ==
  /\ Pass("scan", "refused")
  /\ target_channel' = ANY
  /\ UNCHANGED << sems, events, outside >>

\* k_sem_take(&sem_wifi_scan, K_FOREVER)
Scanned ==
  /\ sem_wifi_scan = 1
  /\ Pass("scanning", "settle")
  /\ sem_wifi_scan' = 0
  /\ UNCHANGED << sem_wifi, sem_ipv4, target_channel, events, outside >>

\* After 200 ms the driver is asked to join, on the channel found last, ...
Connect ==
  /\ Pass("settle", "connecting")
  /\ radio' = "joining"
  /\ UNCHANGED << sems, target_channel, events, heard, addr, drops, fails >>

ConnectRefused ==
  /\ Pass("settle", "refused")
  /\ UNCHANGED << sems, target_channel, events, outside >>

\* k_sem_take(&sem_wifi, K_FOREVER)
Connected ==
  /\ sem_wifi = 1
  /\ Pass("connecting", "address")
  /\ sem_wifi' = 0
  /\ UNCHANGED << sem_wifi_scan, sem_ipv4, target_channel, events, outside >>

\* k_sem_take(&sem_ipv4, K_FOREVER)
Addressed ==
  /\ sem_ipv4 = 1
  /\ Pass("address", "up")
  /\ sem_ipv4' = 0
  /\ UNCHANGED << sem_wifi_scan, sem_wifi, target_channel, events, outside >>

-----------------------------------------------------------------------------
(* The callbacks                                                           *)

Handed(type) == events # << >> /\ Head(events).type = type /\ events' = Tail(events)

\* strncmp over the length of the access point's name: a prefix of the target is taken
\* for it, the empty name of a hidden network included.
Matches(ap) == Ssid # << >> /\ IsPrefix(ap.ssid, Ssid)

on_wifi_scan_result ==
  /\ Handed("SCAN_RESULT")
  /\ target_channel' = IF Matches(Head(events).ap) THEN Head(events).ap.channel ELSE target_channel
  /\ UNCHANGED << step, sems, outside >>

on_wifi_scan_done ==
  /\ Handed("SCAN_DONE")
  /\ sem_wifi_scan' = 1
  /\ UNCHANGED << step, sem_wifi, sem_ipv4, target_channel, outside >>

\* Mutant: the status is taken for a flag.
give_on_failure ==
  /\ Handed("CONNECT_RESULT")
  /\ sem_wifi' = IF Head(events).status THEN sem_wifi ELSE 1
  /\ UNCHANGED << step, sem_wifi_scan, sem_ipv4, target_channel, outside >>

\* A status other than zero is only printed.
on_wifi_connect ==
  /\ Handed("CONNECT_RESULT")
  /\ sem_wifi' = IF Head(events).status THEN 1 ELSE sem_wifi
  /\ UNCHANGED << step, sem_wifi_scan, sem_ipv4, target_channel, outside >>

\* Mutant: the token is taken back with K_FOREVER.
take_back_forever ==
  /\ sem_wifi = 1
  /\ Handed("DISCONNECT_RESULT")
  /\ sem_wifi' = IF Head(events).status THEN 0 ELSE sem_wifi
  /\ UNCHANGED << step, sem_wifi_scan, sem_ipv4, target_channel, outside >>

\* k_sem_take(&sem_wifi, K_NO_WAIT)
on_wifi_disconnect ==
  /\ Handed("DISCONNECT_RESULT")
  /\ sem_wifi' = IF Head(events).status THEN 0 ELSE sem_wifi
  /\ UNCHANGED << step, sem_wifi_scan, sem_ipv4, target_channel, outside >>

\* Mutant: the semaphore has no limit.
give_unlimited ==
  /\ Handed("ADDR_ADD")
  /\ sem_ipv4' = sem_ipv4 + 1
  /\ UNCHANGED << step, sem_wifi_scan, sem_wifi, target_channel, outside >>

on_ipv4_obtained ==
  /\ Handed("ADDR_ADD")
  /\ sem_ipv4' = 1
  /\ UNCHANGED << step, sem_wifi_scan, sem_wifi, target_channel, outside >>

-----------------------------------------------------------------------------
(* The driver and DHCP                                                     *)

Raise(event) == Len(events) < MaxQueue /\ events' = Append(events, event)
StatusOf(ok, type) == [type |-> type, status |-> ok]

Hears(ap) ==
  /\ radio = "scanning" /\ ap \notin heard
  /\ Raise([type |-> "SCAN_RESULT", ap |-> ap])
  /\ heard' = heard \union {ap}
  /\ UNCHANGED << step, sems, target_channel, radio, addr, drops, fails >>

ScanEnds ==
  /\ radio = "scanning"
  /\ Raise([type |-> "SCAN_DONE"])
  /\ radio' = "idle"
  /\ heard' = {}
  /\ UNCHANGED << step, sems, target_channel, addr, drops, fails >>

Joins ==
  /\ radio = "joining"
  /\ Raise(StatusOf(TRUE, "CONNECT_RESULT"))
  /\ radio' = "joined"
  /\ UNCHANGED << step, sems, target_channel, heard, addr, drops, fails >>

JoinFails ==
  /\ radio = "joining" /\ fails < MaxFails
  /\ Raise(StatusOf(FALSE, "CONNECT_RESULT"))
  /\ fails' = fails + 1
  /\ UNCHANGED << step, sems, target_channel, radio, heard, addr, drops >>

GetsAddress ==
  /\ radio = "joined" /\ ~addr
  /\ Raise([type |-> "ADDR_ADD"])
  /\ addr' = TRUE
  /\ UNCHANGED << step, sems, target_channel, radio, heard, drops, fails >>

\* The driver starts to join again; the status of the event may be an error code.
Drops ==
  /\ radio = "joined" /\ drops < MaxDrops
  /\ \E ok \in BOOLEAN : Raise(StatusOf(ok, "DISCONNECT_RESULT"))
  /\ radio' = "joining"
  /\ addr' = FALSE
  /\ drops' = drops + 1
  /\ UNCHANGED << step, sems, target_channel, heard, fails >>

-----------------------------------------------------------------------------
(* The specification                                                       *)

MainStep == Scan \/ ScanRefused \/ Scanned \/ Connect \/ ConnectRefused \/ Connected \/ Addressed
Callback ==
  \/ on_wifi_scan_result \/ on_wifi_scan_done \/ on_wifi_connect \/ on_wifi_disconnect
  \/ on_ipv4_obtained
Driver == ScanEnds \/ Joins \/ GetsAddress
Misfortune == JoinFails \/ Drops

WifiNext == MainStep \/ Callback \/ Driver \/ Misfortune \/ \E ap \in Air : Hears(ap)

\* A thread that can run does; a scan ends, joining succeeds in the end, and an
\* address is given.
WifiFairness == WF_wifiVars(MainStep) /\ WF_wifiVars(Callback) /\ WF_wifiVars(Driver)

WifiSpec == WifiInit /\ [][WifiNext]_wifiVars /\ WifiFairness

-----------------------------------------------------------------------------
(* Properties                                                              *)

WifiTypeOK ==
  /\ step \in StepAt
  /\ sem_wifi_scan \in {0, 1} /\ sem_wifi \in {0, 1} /\ sem_ipv4 \in {0, 1}
  /\ target_channel \in Channel
  /\ events \in Seq(EventT) /\ Len(events) <= MaxQueue
  /\ radio \in {"off", "scanning", "idle", "joining", "joined"}
  /\ heard \subseteq Air
  /\ addr \in BOOLEAN
  /\ drops \in 0 .. MaxDrops /\ fails \in 0 .. MaxFails

\* main never waits for a token that has come and gone: when what it waits for has
\* happened and every event was handed out, the token is there, although a lost
\* connection takes it back and neither wait looks at the state itself (wifi.c:46).
NoTokenMissed ==
  events = << >> =>
    /\ step = "scanning" /\ radio = "idle" => sem_wifi_scan = 1
    /\ step = "connecting" /\ radio = "joined" => sem_wifi = 1
    /\ step = "address" /\ addr => sem_ipv4 = 1

\* Unless the driver refuses a request, main gets past its three waits, none of which
\* has a time-out, however often joining fails and the connection is lost meanwhile:
\* no token is missed, and none is taken back that will not come again (wifi.c:46).
BootCompletes == <>(step \in {"up", "refused"})

=============================================================================
