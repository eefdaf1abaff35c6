-------------------------- MODULE BleDeviceRefines --------------------------
(***************************************************************************)
(* BleDevice implements CommandChannel, and its liveness.                  *)
(*                                                                         *)
(* Fairness.  A task that can continue does, and every call into the       *)
(* Bluetooth stack returns or raises: WF on the steps of the tasks.        *)
(* asyncio.Lock hands itself to its waiters in FIFO order, so a waiter is  *)
(* not passed over for ever: SF on lock acquisition.  The event loop runs  *)
(* due timers: WF on TimerFires, part of IdlerStep.  Nothing is assumed of *)
(* callers, cancellation, link loss, the device or its responses.          *)
(***************************************************************************)
EXTENDS BleDevice

Phase(s) ==
    CASE pc[s] = "idle"   -> "idle"
      [] pc[s] = "wantOp" -> "queued"
      [] OTHER            -> "active"

Phases == [s \in Senders |-> Phase(s)]

\* A response to the request in flight has been delivered.
Heard == event = "set" /\ \E s \in Senders : pc[s] \in InFlight

Channel == INSTANCE CommandChannel WITH
    phase <- Phases, heard <- Heard, outcome <- result

Fairness ==
    /\ \A s \in Senders :
         /\ WF_vars(SenderStep(s))
         /\ SF_vars(AcquireOp(s))
         /\ SF_vars(SenderAcquiresConn(s))
    /\ \A i \in Idlers : WF_vars(IdlerStep(i)) /\ SF_vars(IdlerAcquiresConn(i))
    /\ \A k \in Closers : WF_vars(CloserStep(k)) /\ SF_vars(CloserAcquiresConn(k))

FairSpec == Spec /\ Fairness

\* send_command keeps to the channel's protocol: one call at a time, and True
\* only if a response came while that call's request was pending (894-1037).
ImplementsChannel == Channel!Spec

\* Every call of send_command comes to an end, whatever the link, the device
\* and the other tasks do (the loop of 912 and the locks of 774 and 911).
CallsEnd == \A s \in Senders : pc[s] # "idle" ~> pc[s] = "idle"

\* When commands stop, the link does not stay up for ever: the inactivity timer
\* or disconnect() takes it down unless a new command comes first (860-892).
LinkIsReleased == Quiet ~> (links = {} \/ ~Quiet)
=============================================================================
