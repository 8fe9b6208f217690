---------------------------- MODULE MCDeviceLists ----------------------------
(* Small instances of DeviceLists: a TV at one address with a DLNA service,  *)
(* found under two UUIDs, and a webOS service; a second device with a DLNA   *)
(* service whose location XML may be missing.                                *)
EXTENDS DeviceLists, TLC

CONSTANTS d1, d2, tv, box, dlna, webos, u1, u2, play

MCDevices == {d1, d2}

MCSymmetry == Permutations(MCDevices)

MCAddresses == {tv, box}

MCServiceIds == {dlna, webos}

MCUUIDs == {u1, u2}

MCCapabilities == {play}

Describe(a, s, u, ok) == [address |-> a, serviceId |-> s, uuid |-> u, complete |-> ok]

MCDescriptions ==
    {Describe(tv, dlna, u1, TRUE), Describe(tv, dlna, u2, TRUE), Describe(tv, webos, u1, TRUE),
     Describe(box, dlna, u1, TRUE), Describe(box, dlna, u1, FALSE)}

MCInitialCaps == [s \in MCServiceIds |-> IF s = webos THEN {play} ELSE {}]

MCFilterChoices == {{}, {{play}}}
=============================================================================
