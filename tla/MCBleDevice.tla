---------------------------- MODULE MCBleDevice ----------------------------
EXTENDS BleDeviceRefines, TLC

\* Client objects and commands are interchangeable, and so are the senders.
Symmetry == Permutations(Senders) \cup Permutations(Idlers)
              \cup Permutations(Clients) \cup Permutations(Cmds)
=============================================================================
