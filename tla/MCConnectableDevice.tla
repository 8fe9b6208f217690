------------------------- MODULE MCConnectableDevice -------------------------
(* A device with an HTTP service, another one to replace it, and a webOS one. *)
EXTENDS ConnectableDevice, TLC

CONSTANTS d1, d2, w1

MCHttp == {d1, d2}
MCWebOs == {w1}
MCName(s) == IF s = w1 THEN "webOS TV" ELSE "DLNA"
=============================================================================
