------------------------- MODULE MCControlEntities -------------------------
(***************************************************************************)
(* The charge mode select, which is read back, has a value without an      *)
(* option, and shares its command with the poll for the system data; the   *)
(* output switch, read back, whose command the operating mode select also  *)
(* sends; the EPS switch, which nothing reads back; a button.              *)
(***************************************************************************)
EXTENDS ControlEntities, TLC

CONSTANTS Charge, Output, Mode, Eps, Button

MCControls == {Charge, Output, Mode, Eps, Button}
MCSwitches == {Output, Eps} \cap MCControls
MCButtons == {Button} \cap MCControls
MCOptions ==
    [c \in MCControls |->
        CASE c = Charge -> {"load", "pv"} [] c = Mode -> {"self", "manual"}
          [] c = Button -> {"press"} [] OTHER -> {"on", "off"}]
MCFrame ==
    [c \in MCControls |->
        CASE c = Charge -> ("load" :> <<"0D", "1">> @@ "pv" :> <<"0D", "0">>)
          [] c = Mode -> ("self" :> <<"0E", "1">> @@ "manual" :> <<"09", "1">>)
          [] c = Output -> ("on" :> <<"0E", "1">> @@ "off" :> <<"0E", "0">>)
          [] c = Eps -> ("on" :> <<"05", "1">> @@ "off" :> <<"05", "0">>)
          [] OTHER -> ("press" :> <<"15", "1">>)]
MCReadBack ==
    [c \in MCControls |-> CASE c = Charge -> "1A" [] c = Output -> "03" [] OTHER -> None]
MCStatuses == {"0D"}
MCReads == ("1A" :> "0D" @@ "03" :> "0E")
MCScenes == {{Charge}, {Output, Mode}, {Eps, Button}}
MCValues ==
    [s \in {"0D", "0E", "09", "05", "15"} |-> IF s = "0D" THEN {"0", "1", "2"} ELSE {"0", "1"}]
(* The charge modes "load" and "pv" mirror each other: one of them is enough to start with. *)
MCStarts ==
    [s \in {"0D", "0E", "09", "05", "15"} |->
        CASE s = "0D" -> {"1", "2"} [] s = "09" -> {"0"} [] OTHER -> {"0", "1"}]
=============================================================================
