-------------------------------- MODULE Network --------------------------------
(***************************************************************************)
(* The Wi-Fi bring-up and the MQTT session together (main.c:39-54): main   *)
(* calls mqtt_init when wifi_wait_for_ip_addr has returned, mqtt_sub       *)
(* starts 30 s after boot whether there is a network or not, and a lost    *)
(* Wi-Fi connection takes the peers of the sockets with it, which the two  *)
(* threads find out when they next use them.                               *)
(***************************************************************************)
EXTENDS WifiBringup, MqttLink

networkVars == << wifiVars, linkVars >>

NetworkInit == WifiInit /\ LinkInit

WifiStep ==
  /\ MainStep \/ Callback \/ ScanEnds \/ Joins \/ JoinFails \/ \E ap \in Air : Hears(ap)
  /\ UNCHANGED linkVars

Attach == GetsAddress /\ GainAddress

Detach == Drops /\ IF addr THEN LoseAddress /\ UNCHANGED faults ELSE UNCHANGED linkVars

Proceeds == step = "up" /\ Online /\ UNCHANGED wifiVars

LinkStep == ((\E t \in Threads : Run(t)) \/ Serve \/ Outside) /\ UNCHANGED wifiVars

NetworkNext == WifiStep \/ Attach \/ Detach \/ Proceeds \/ LinkStep

\* As WifiFairness and LinkFairness say.
NetworkFairness ==
  /\ WF_networkVars(MainStep /\ UNCHANGED linkVars)
  /\ WF_networkVars(Callback /\ UNCHANGED linkVars)
  /\ WF_networkVars((ScanEnds \/ Joins) /\ UNCHANGED linkVars)
  /\ WF_networkVars(Attach) /\ WF_networkVars(Proceeds)
  /\ WF_networkVars(Run("main") /\ UNCHANGED wifiVars)
  /\ WF_networkVars((Run("mqtt_sub") \/ Serve) /\ UNCHANGED wifiVars)
  /\ SF_networkVars(Notice /\ UNCHANGED wifiVars)
  /\ \A s \in Sockets : WF_networkVars(Answer(s) /\ UNCHANGED wifiVars)

NetworkSpec == NetworkInit /\ [][NetworkNext]_networkVars /\ NetworkFairness

-----------------------------------------------------------------------------
(* Properties                                                              *)

\* When the Wi-Fi connection is lost, whichever thread notices first and however often one
\* zeroes the client under the other, main's reports reach the broker again, unless a
\* request was refused at boot (main.c:43), every descriptor is lost or the threads end
\* each other's connections for ever.
ReportsResume == <>(step = "refused") \/ TelemetryRecovers

\* And the commands are heard again: the session has its subscription.
CommandsHeard == <>(step = "refused") \/ CommandsRecover

=============================================================================
