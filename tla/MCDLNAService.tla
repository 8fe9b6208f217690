---------------------------- MODULE MCDLNAService ----------------------------
(* A renderer with one service that sends events, and two subscriptions.      *)
EXTENDS DLNAService, Integers

CONSTANTS av, s1, s2

MCEventServices == {av}

MCSubs == {s1, s2}

MCSessionIds == 1..3
=============================================================================
