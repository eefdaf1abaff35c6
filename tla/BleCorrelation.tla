--------------------------- MODULE BleCorrelation ---------------------------
(***************************************************************************)
(* BleDevice with an auxiliary variable that says whether the device has   *)
(* answered the call now being served.  There is no transaction identifier *)
(* in the protocol, and the code has no such variable: it only observes.   *)
(***************************************************************************)
EXTENDS BleDevice

VARIABLE answered

CorrelationInit == Init /\ answered = FALSE

CorrelationNext ==
    /\ Next
    /\ answered' = \/ \E s \in Senders : DeviceAnswers(s)
                   \/ answered /\ opOwner' = opOwner

CorrelationSpec == CorrelationInit /\ [][CorrelationNext]_<<vars, answered>>

\* The response a call goes on is the device's answer to that call, not one the
\* device gave to an earlier call with the same command byte.  The protocol
\* document takes this to follow from the serialization of commands.
AnswersThisCall ==
    event = "set" /\ (\E s \in Senders : pc[s] \in InFlight) => answered
=============================================================================
