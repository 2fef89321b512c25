---------------------------- MODULE MCConnections ----------------------------
(* Instances of Connections for TLC.                                       *)
EXTENDS Connections, TLC

\* Sockets are interchangeable: no property of a safety run names one.
SocketSymmetry == Permutations(Sockets)
=============================================================================
