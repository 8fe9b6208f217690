---------------------------- MODULE MCDeviceStore ----------------------------
(* A small instance: one TV with two services, two ids and two objects.       *)
EXTENDS DeviceStore, TLC

CONSTANTS o1, o2, i1, i2, tv, webos, dlna

MCObjects == {o1, o2}

MCIds == {i1, i2}

MCTVs == {tv}

MCServices == {webos, dlna}

MCTVOf == [u \in MCServices |-> tv]

MCSymmetry == Permutations(MCObjects) \cup Permutations(MCIds)
=============================================================================
