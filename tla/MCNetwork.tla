------------------------------- MODULE MCNetwork -------------------------------
(* Instances of Network for TLC.                                           *)
EXTENDS Network

Home == << "h", "a" >>

\* The network itself, and one whose name is a prefix of it.
Neighbours == { [ssid |-> Home, channel |-> 6], [ssid |-> << "h" >>, channel |-> 1] }

\* One descriptor for each thread: one can be lost, and the other must do.
Few == 0 .. 1

=============================================================================
