----------------------------- MODULE MCZonedSync -----------------------------
(* Instances of ZonedSync for TLC. *)
EXTENDS ZonedSync, TLC

CONSTANTS all, left, Left, NoZone, p, q, v0, v1

\* One feature without a zone and one made for the zone.
MCZoneOf == [f \in Feature |-> IF f = left THEN Left ELSE General]

\* sync() of each zone object asks for every property.
MCGetters ==
    [known \in SUBSET AllZones |->
        SelectSeq(<<<<General, p>>, <<General, q>>, <<Left, p>>, <<Left, q>>>>,
                  LAMBDA g : g[1] \in known)]
==============================================================================
