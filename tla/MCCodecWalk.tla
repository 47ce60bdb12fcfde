------------------------------ MODULE MCCodecWalk ------------------------------
(* Instances of CodecWalk for TLC.                                         *)
EXTENDS CodecWalk

Every(word) == [ R101 |-> [i \in 0..5 |-> word], R141 |-> [i \in 0..15 |-> word],
                 R201 |-> word,                  R241 |-> [i \in 0..21 |-> word] ]

\* All zeros (the image before the first response), all ones, the two patterns of
\* alternating bits, alternating bytes, and one nibble in two.
Patterns == {Every(w) : w \in {0, \hFFFF, \hAAAA, \h5555, \h00FF, \hF0F0}}

\* The R101 block of sw/mock_heatpump.py:36.
Mock == [Every(0) EXCEPT !.R101 =
          [i \in 0..5 |-> << 40, 52, 10, 0, 100, 1 >>[i + 1]]]

AllStarts == Patterns \union {Mock}

\* The ends of the range, whole and half degrees, and values between two steps.
SomeTemps == {60, 63, 65, 210, 215, 219, 495, 500}
SomeComps == {-150, -5, 0, 5, 12, 1129}

=============================================================================
