-------------------------- MODULE MCStandaloneTool --------------------------
(***************************************************************************)
(* Two batteries, and three commands: a payload that is a start byte, one  *)
(* that looks like the beginning of a frame, and one that its parser       *)
(* rejects.                                                                *)
(***************************************************************************)
EXTENDS StandaloneTool, TLC

CONSTANTS Garage, Cellar

MCDevices == {Garage, Cellar}
MCTargetLists == {<<>>, <<Garage>>, <<Garage, Cellar>>}
MCCommands == <<8, 13, 3>>
MCPayload ==
    (Garage :> (8 :> <<StartByte>> @@ 13 :> <<StartByte, 6>> @@ 3 :> <<0>>))
    @@ (Cellar :> (8 :> <<9>> @@ 13 :> <<>> @@ 3 :> <<>>))
MCUnparsable == {3}

(* What the proofs assume of the answers holds of these. *)
ASSUME MCAnswersAreDistinct == NothingHides /\ NothingOverlaps
=============================================================================
