------------------------------- MODULE NetIface -------------------------------
(***************************************************************************)
(* The default network interface, which wifi.c brings up and the sockets   *)
(* of mqtt.c depend on.                                                    *)
(***************************************************************************)

VARIABLE addr    \* it has an address, and packets reach the broker

=============================================================================
