--------------------------- MODULE CommandChannel ---------------------------
(***************************************************************************)
(* What MarstekBLEDevice.send_command promises to the coordinator and to   *)
(* the control entities (docs/OKF/venus-ble-protocol.md, "Request and      *)
(* response behavior"): calls are served one at a time, a call succeeds    *)
(* only on the strength of a response to a request that it has outstanding *)
(* at that moment, and every call ends.  Connections, retries and timers   *)
(* are not visible here.  Module BleDeviceRefines shows that BleDevice     *)
(* implements it.                                                          *)
(***************************************************************************)
CONSTANT Senders

VARIABLES
    phase,  \* idle, queued for the device, or active on it
    heard,  \* the active call has a response to its outstanding request
    outcome \* how each sender's last call ended

vars == <<phase, heard, outcome>>

TypeOK ==
    /\ phase \in [Senders -> {"idle", "queued", "active"}]
    /\ heard \in BOOLEAN
    /\ outcome \in [Senders -> {"none", "ok", "failed", "cancelled"}]

Init ==
    /\ phase = [s \in Senders |-> "idle"]
    /\ heard = FALSE
    /\ outcome = [s \in Senders |-> "none"]

Move(s, p, r) ==
    /\ phase' = [phase EXCEPT ![s] = p]
    /\ outcome' = [outcome EXCEPT ![s] = r]

Submit(s) ==
    /\ phase[s] = "idle"
    /\ Move(s, "queued", "none")
    /\ UNCHANGED heard

Serve(s) ==
    /\ phase[s] = "queued"
    /\ \A t \in Senders : phase[t] # "active"
    /\ phase' = [phase EXCEPT ![s] = "active"]
    /\ UNCHANGED <<heard, outcome>>

\* The response to the outstanding request arrives.
Hear(s) ==
    /\ phase[s] = "active"
    /\ heard' = TRUE
    /\ UNCHANGED <<phase, outcome>>

\* The request is given up and will be repeated: its response counts no more.
GiveUp(s) ==
    /\ phase[s] = "active"
    /\ heard' = FALSE
    /\ UNCHANGED <<phase, outcome>>

Succeed(s) ==
    /\ phase[s] = "active"
    /\ heard
    /\ heard' = FALSE
    /\ Move(s, "idle", "ok")

Fail(s) ==
    /\ phase[s] = "active"
    /\ heard' = FALSE
    /\ Move(s, "idle", "failed")

Cancel(s) ==
    /\ phase[s] # "idle"
    /\ heard' = IF phase[s] = "active" THEN FALSE ELSE heard
    /\ Move(s, "idle", "cancelled")

Next ==
    \E s \in Senders :
        Submit(s) \/ Serve(s) \/ Hear(s) \/ GiveUp(s) \/ Succeed(s) \/ Fail(s) \/ Cancel(s)

Spec == Init /\ [][Next]_vars

\* The service is fair: whoever waits is served, and whoever is served is done
\* with at some time.
Done(s) == Succeed(s) \/ Fail(s) \/ Cancel(s)

FairSpec == Spec /\ \A s \in Senders : SF_vars(Serve(s)) /\ WF_vars(Done(s))
=============================================================================
