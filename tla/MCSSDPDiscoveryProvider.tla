----------------------- MODULE MCSSDPDiscoveryProvider -----------------------
(* Small instances: a TV that announces two search targets under one UUID.    *)
(* In one each target belongs to one service, in the other both services      *)
(* share a target.                                                            *)
EXTENDS SSDPDiscoveryProvider, TLC

CONSTANTS tv, renderer, dial, dlna, cast, n1, n2

MCSlots == {n1, n2}

SlotSymmetry == Permutations(MCSlots)

MCUUIDs == {tv}

MCTypes == {renderer, dial}

MCServiceIds == {dlna, cast}

OneEach == {[serviceId |-> dlna, filter |-> renderer], [serviceId |-> cast, filter |-> dial]}

Shared == {[serviceId |-> dlna, filter |-> renderer], [serviceId |-> cast, filter |-> renderer]}

Single == {[serviceId |-> dlna, filter |-> renderer]}

BothTypes == {<<tv, renderer>>, <<tv, dial>>}

OneType == {<<tv, renderer>>}
=============================================================================
