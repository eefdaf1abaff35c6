--------------------------- MODULE MCProductData ---------------------------
(***************************************************************************)
(* The frames of the run: for every command the lengths at which a bound   *)
(* or a minimum of the tables bites, text that names none, one or several  *)
(* attributes, a corrupt frame, and a command nobody decodes.              *)
(***************************************************************************)
EXTENDS ProductData, TLC

Plain(command, lengths) ==
    {[command |-> command, length |-> n, sound |-> TRUE, legible |-> TRUE, names |-> {}] :
        n \in lengths}

Text(command, length, names) ==
    [command |-> command, length |-> length, sound |-> TRUE, legible |-> TRUE, names |-> names]

VenusFrames ==
    Plain(\h03, {36, 37, 59, 60, 99, 100}) \cup Plain(\h14, {17, 79, 80}) \cup Plain(\h0D, {10, 11})
    \cup Plain(\h13, {44, 45}) \cup Plain(\h1A, {16, 17}) \cup Plain(\h22, {0, 1})
    \cup Plain(\h28, {2, 3}) \cup Plain(\h21, {0, 7}) \cup Plain(\h08, {0}) \cup Plain(\h1C, {5})
    \cup {Text(\h04, 0, {}), Text(\h04, 9, {"device_id"}),
          Text(\h04, 20, {"device_id", "firmware_version"}),
          Text(\h24, 0, {}), Text(\h24, 12, {"ip_address", "gateway"})}
    \cup {[f EXCEPT !.sound = FALSE] : f \in Plain(\h14, {80})}

JupiterFrames ==
    Plain(\h03, {73, 74, 75}) \cup Plain(\h14, {165, 166, 167}) \cup Plain(\h13, {159, 160})
    \cup Plain(\h0D, {12}) \cup Plain(\h21, {1, 2}) \cup Plain(\h28, {3})
    \cup {Text(\h04, 9, {"device_id", "bms_firmware_version"}),
          [Text(\h08, 4, {}) EXCEPT !.legible = FALSE], Text(\h08, 4, {})}
    \cup {[f EXCEPT !.sound = FALSE] : f \in Plain(\h03, {74})}

MCFrames == (Venus :> VenusFrames) @@ (Jupiter :> JupiterFrames)
=============================================================================
