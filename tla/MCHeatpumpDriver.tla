---------------------------- MODULE MCHeatpumpDriver ----------------------------
(* Instances of HeatpumpDriver for TLC.                                    *)
EXTENDS HeatpumpDriver

CONSTANTS mqtt, shell

OneWriter  == {mqtt}
TwoWriters == {mqtt, shell}

Image(state, ch, dhw, mode) ==
  [ R101 |-> [i \in 0..5 |-> << state, Pack(ch, 30), 10, 0, 100, Pack(dhw, 30) >>[i + 1]],
    R201 |-> mode ]

\* On, heating, with a tank.  The panel gives it these settings back.
OnePanel == { Image(133, 60, 90, 2) }

\* One request per function and one that is refused; 219 is between two steps.
AllRequests ==
  { [op |-> "ch", temp |-> 219], [op |-> "dhw", temp |-> 420], [op |-> "ch", temp |-> 505],
    [op |-> "state", state |-> "on"], [op |-> "state", state |-> "off"],
    [op |-> "mode", mode |-> "quiet"] }

\* Two clients that set one temperature each.
Temperatures == { [op |-> "ch", temp |-> 219], [op |-> "dhw", temp |-> 420] }

=============================================================================
