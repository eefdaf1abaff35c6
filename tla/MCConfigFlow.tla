---------------------------- MODULE MCConfigFlow ----------------------------
(***************************************************************************)
(* A battery under two random addresses, and another one.                  *)
(***************************************************************************)
EXTENDS ConfigFlow, TLC

CONSTANTS Garage, Cellar

MCBatteries == {[address |-> 1, name |-> Garage], [address |-> 2, name |-> Garage],
                [address |-> 3, name |-> Cellar]}
Symmetry == Permutations(Flows)
=============================================================================
