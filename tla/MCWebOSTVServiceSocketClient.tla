--------------------- MODULE MCWebOSTVServiceSocketClient ---------------------
(* One command and one subscription, with pairing.                            *)
EXTENDS WebOSTVServiceSocketClient, TLC

CONSTANTS c1, s1

MCCommands == {c1}
MCSubs == {s1}
=============================================================================
