---------------------------- MODULE MCFrameSniffer ----------------------------
(* Instances of FrameSniffer for TLC.                                      *)
EXTENDS FrameSniffer

CONSTANT mqtt

OneWriter == {mqtt}

\* A response (sw/mock_heatpump.py:22-32), a request or acknowledgement of the
\* registers at addr, and a frame of another function or device.
Response(block, bytes) == [head |-> << 17, 3, bytes >>, size |-> bytes + 5, block |-> block]
Ask(function, addr, count) ==
  [head |-> << 17, function, 0, addr, 0, count >>, size |-> 8, block |-> NoBlock]
Other(head, size) == [head |-> head, size |-> size, block |-> NoBlock]

\* One cycle of the remote control and the pump, with a block it writes (function 16),
\* the acknowledgement, a response of a length without a block, and one of another device.
Cycle ==
  << Ask(3, 101, 6), Response("R101", 12), Ask(3, 141, 16), Response("R141", 32),
     Other(<< 17, 16, 0, 101, 0, 6, 12 >>, 21), Ask(16, 101, 6),
     Other(<< 17, 3, 10 >>, 15), Other(<< 5, 3, 12 >>, 17),
     Ask(3, 201, 1), Response("R201", 2), Ask(3, 241, 22), Response("R241", 44) >>

\* Bytes that matter to the sniffer: address, function, the lengths, and others.
Lengths == {0, 2, 12, 32, 44, 65}
AnyOctets  == {17, 3} \union Lengths
NoAddress  == AnyOctets \ {17}

\* Nothing is said of timing, and the address byte occurs only as an address.
Loose == [octets |-> NoAddress, quiet |-> FALSE, whole |-> FALSE]

\* Any payload and CRC bytes, and frames separated by silence (sw/mock_heatpump.py:55-77);
\* the sniffer starts between two frames and misses none, or starts and misses anywhere.
Separate == [octets |-> AnyOctets, quiet |-> TRUE, whole |-> TRUE]
Missed   == [Separate EXCEPT !.whole = FALSE]

Lines == {Loose, Separate, Missed}

\* What the invariants are about on these lines: every block on the first, and with
\* arbitrary bytes the block that opens the slot, while the others can be imitated.
ASSUME CoveredBlocks ==
  /\ \A b \in Lines : Unmistakable(b, "R241")
  /\ \A block \in {"R101", "R141", "R201"} :
       Unmistakable(Loose, block) /\ ~Unmistakable(Separate, block)

=============================================================================
