------------------------- MODULE MCProductEntities -------------------------
(***************************************************************************)
(* A Jupiter in small: a sensor of each fast command, one made of both, a  *)
(* binary sensor of the main device, and a sensor of each of two packs.    *)
(***************************************************************************)
EXTENDS ProductEntities, TLC

CONSTANTS Runtime, Detail, Sensor, Binary, Power, Both, Valid, Pack1, Pack2

MCEntities == {Power, Both, Valid, Pack1, Pack2}
MCPlatforms == {Sensor, Binary}
MCCommands == {Runtime, Detail}
MCPlatformOf == [e \in MCEntities |-> IF e = Valid THEN Binary ELSE Sensor]
MCPackOf == [e \in MCEntities |-> CASE e = Pack1 -> 1 [] e = Pack2 -> 2 [] OTHER -> 0]
MCStaleOn ==
    [e \in MCEntities |->
        CASE e = Power -> {Runtime}
          [] e = Both -> {Runtime, Detail}
          [] e = Valid -> {}
          [] OTHER -> {Detail}]
MCCounts == 0..3
=============================================================================
