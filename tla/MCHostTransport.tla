-------------------------- MODULE MCHostTransport --------------------------
(* TLC instance of HostTransport: the pet loop as the one sender and the    *)
(* uplink reader, with the installed socket and one being closed or being   *)
(* established.                                                             *)
EXTENDS HostTransport

CONSTANTS s1, s2, loop, uplink, g1

OneSender == {loop}
TwoSockets == {s1, s2}
OneTouch == {g1}

=============================================================================
