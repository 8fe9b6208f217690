------------------------- MODULE MCDiscoveryControl -------------------------
(* Small instances of DiscoveryControl. *)
EXTENDS DiscoveryControl

CONSTANTS ssdp, zeroconf, home, office

MCProviders == {ssdp, zeroconf}

MCSSIDs == {home, office}
=============================================================================
