--------------------------- MODULE MCWriteHandshake ---------------------------
(* Instances of WriteHandshake for TLC.                                    *)
EXTENDS WriteHandshake, TLC

CONSTANTS mqtt, shell, telnet

\* The MQTT thread and two shell backends: the third writer lets one withdraw
\* or reset while a second is granted and a third still waits.
AllWriters == {mqtt, shell, telnet}
TwoWriters == {mqtt, shell}

\* The writers are interchangeable: no action names one of them.
WriterSymmetry == Permutations(AllWriters)

=============================================================================
