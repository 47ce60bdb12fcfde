----------------------------- MODULE MCCommandPath -----------------------------
(* Instances of CommandPath for TLC.                                       *)
EXTENDS CommandPath

CONSTANTS mqtt, shell

TwoWriters == {mqtt, shell}

\* strtof and strtol of a decimal number in tenths, and of what is no number.
Number(n) == [float |-> n, int |-> n \div 10]
Junk == Number(0)

\* Both sides of every boundary of the four parameters.
Arguments == {Number(n) : n \in {-10, 0, 20, 30, 59, 60, 70, 215, 500, 501}} \union {Junk}

Indices == {0, 3, 255, 256}

=============================================================================
