------------------------------ MODULE MCMqttLink ------------------------------
(* Instances of MqttLink for TLC.                                          *)
EXTENDS MqttLink

\* As many as a late answer and a meeting can cost together.
Scarce == 0 .. 2

\* No more than can be lost to late answers.
Few == 0 .. 1

=============================================================================
