-------------------------- MODULE BleDeviceProofs --------------------------
(***************************************************************************)
(* Proofs about BleDevice, for any number of tasks, client objects,        *)
(* commands and attempts and for every behaviour of the environment        *)
(* (cancellation, failing disconnects, late acknowledgements).  What the   *)
(* code keeps only without some of these is proved twice: in every         *)
(* environment, up to a step that is named (Leaks, Forgets, Deafens), and  *)
(* without that hypothesis where the environment cannot take such a step.  *)
(***************************************************************************)
EXTENDS BleDeviceRefines, FiniteSetTheorems, TLAPS

----------------------------------------------------------------------------
(* What the shared parts of the actions do to the types.                   *)

\* A sender moves to one of its labels.
LEMMA GotoTypes ==
    ASSUME TasksOK, NEW s \in Senders, NEW label \in SenderLabels,
           NEW c \in Clients \cup {None}, Goto(s, label, c)
    PROVE  TasksOK'
BY TasksAssumption DEF TasksOK, Goto, Tasks

LEMMA IdlerGotoTypes ==
    ASSUME TasksOK, NEW i \in Idlers, NEW label \in IdlerLabels,
           NEW c \in Clients \cup {None}, Goto(i, label, c)
    PROVE  TasksOK'
BY TasksAssumption DEF TasksOK, Goto, Tasks

LEMMA CloserGotoTypes ==
    ASSUME TasksOK, NEW k \in Closers, NEW label \in CloserLabels,
           NEW c \in Clients \cup {None}, Goto(k, label, c)
    PROVE  TasksOK'
BY TasksAssumption DEF TasksOK, Goto, Tasks

LEMMA EndCallTypes ==
    ASSUME TasksOK, CallsOK, NEW s \in Senders,
           NEW r \in {"ok", "failed", "cancelled"}, EndCall(s, r)
    PROVE  TasksOK' /\ CallsOK'
<1>1. TasksOK'
  BY GotoTypes DEF EndCall, SenderLabels
<1>2. CallsOK'
  BY RetryAssumption DEF EndCall, CallsOK
<1>. QED  BY <1>1, <1>2

LEMMA RetryTypes ==
    ASSUME TasksOK, CallsOK, NEW s \in Senders,
           NEW label \in SenderLabels, RetryOrFail(s, label)
    PROVE  TasksOK' /\ CallsOK' /\ opOwner' \in {opOwner, None}
<1>1. CASE attempt[s] < Retry
  <2>1. TasksOK'
    BY <1>1, GotoTypes DEF RetryOrFail
  <2>2. CallsOK'
    BY <1>1, RetryAssumption DEF RetryOrFail, CallsOK
  <2>. QED  BY <1>1, <2>1, <2>2 DEF RetryOrFail
<1>2. CASE ~(attempt[s] < Retry)
  BY <1>2, EndCallTypes DEF RetryOrFail, Return
<1>. QED  BY <1>1, <1>2

LEMMA FailAttemptTypes ==
    ASSUME TasksOK, CallsOK, NEW s \in Senders,
           NEW cur \in Clients \cup {None}, FailAttempt(s, cur)
    PROVE  TasksOK' /\ CallsOK' /\ opOwner' \in {opOwner, None}
<1>1. CASE cur # None
  BY <1>1, GotoTypes DEF FailAttempt, SenderLabels, callVars, CallsOK
<1>2. CASE cur = None
  BY <1>2, RetryTypes DEF FailAttempt, SenderLabels
<1>. QED  BY <1>1, <1>2

LEMMA BeginRequestTypes ==
    ASSUME TasksOK, CallsOK, NEW s \in Senders,
           NEW c \in Clients \cup {None}, BeginRequest(s, c)
    PROVE  TasksOK' /\ CallsOK' /\ opOwner' = opOwner /\ pending' \in Cmds \cup {None}
<1>1. TasksOK'
  BY GotoTypes DEF BeginRequest, SenderLabels
<1>2. CallsOK' /\ opOwner' = opOwner /\ pending' \in Cmds \cup {None}
  BY DEF BeginRequest, callVars, CallsOK
<1>. QED  BY <1>1, <1>2

LEMMA LinkLostTypes ==
    ASSUME LinksOK, NEW c, LinkLost(c)
    PROVE  LinksOK'
BY DEF LinksOK, LinkLost

----------------------------------------------------------------------------
(* Type correctness, action by action.                                     *)

LEMMA SenderTypes ==
    ASSUME TypeOK, CommandKnown, NEW s \in Senders,
           \/ \E b \in Cmds : Call(s, b)
           \/ AcquireOp(s) \/ SenderAcquiresConn(s) \/ SenderStep(s) \/ Cancel(s)
           \/ DeviceAnswers(s)
    PROVE  TypeOK'
<1>. USE DEF TypeOK, linkVars, requestVars, timerVars, callVars
<1>1. s \in Tasks
  BY DEF Tasks
<1>2. held[s] \in Clients \cup {None}
  BY <1>1 DEF TasksOK
<1>3. CASE \E b \in Cmds : Call(s, b)
  <2>1. PICK b \in Cmds : Call(s, b)
    BY <1>3
  <2>2. TasksOK'
    BY <2>1, GotoTypes DEF Call, SenderLabels
  <2>. QED  BY <2>1, <2>2 DEF Call, LocksOK, DeviceOK, CallsOK, LinksOK
<1>4. CASE AcquireOp(s)
  <2>1. TasksOK'
    BY <1>4, GotoTypes DEF AcquireOp, SenderLabels
  <2>. QED  BY <1>4, <2>1 DEF AcquireOp, LocksOK, DeviceOK, CallsOK, LinksOK
<1>5. CASE EnsureConnected(s)
  <2>1. CASE Connected
    BY <1>5, <2>1, BeginRequestTypes
       DEF EnsureConnected, BeginRequest, LocksOK, DeviceOK, LinksOK
  <2>2. CASE ~Connected
    BY <1>5, <2>2, GotoTypes
       DEF EnsureConnected, SenderLabels, LocksOK, DeviceOK, CallsOK, LinksOK
  <2>. QED  BY <2>1, <2>2
<1>6. CASE SenderAcquiresConn(s)
  <2>1. CASE Connected
    BY <1>6, <2>1, BeginRequestTypes
       DEF SenderAcquiresConn, BeginRequest, LocksOK, DeviceOK, LinksOK
  <2>2. CASE ~Connected
    BY <1>1, <1>6, <2>2, GotoTypes
       DEF SenderAcquiresConn, SenderLabels, LocksOK, DeviceOK, CallsOK, LinksOK
  <2>. QED  BY <2>1, <2>2
<1>7. CASE \E c \in Clients : EstablishSucceeds(s, c)
  <2>1. PICK c \in Clients : EstablishSucceeds(s, c)
    BY <1>7
  <2>2. CASE started
    BY <2>1, <2>2, BeginRequestTypes
       DEF EstablishSucceeds, BeginRequest, LocksOK, DeviceOK, LinksOK
  <2>3. CASE ~started
    BY <2>1, <2>3, GotoTypes
       DEF EstablishSucceeds, SenderLabels, LocksOK, DeviceOK, CallsOK, LinksOK
  <2>. QED  BY <2>2, <2>3
<1>8. CASE EstablishFails(s) \/ SubscribeFails(s)
  <2>1. AbandonConnection(s)
    BY <1>8 DEF EstablishFails, SubscribeFails
  <2>2. CASE Connected
    BY <2>1, <2>2, GotoTypes
       DEF AbandonConnection, SenderLabels, LocksOK, DeviceOK, CallsOK, LinksOK
  <2>3. CASE ~Connected
    BY <2>1, <2>3, FailAttemptTypes
       DEF AbandonConnection, FailAttempt, ClearRequest, LocksOK, DeviceOK, LinksOK
  <2>. QED  BY <2>2, <2>3
<1>9. CASE SubscribeSucceeds(s)
  <2>1. notifying' \subseteq Clients
    BY <1>2, <1>9 DEF SubscribeSucceeds, LinksOK
  <2>2. CASE client # None
    BY <1>9, <2>1, <2>2, BeginRequestTypes
       DEF SubscribeSucceeds, BeginRequest, LocksOK, DeviceOK, LinksOK
  <2>3. CASE client = None
    BY <1>9, <2>1, <2>3, FailAttemptTypes
       DEF SubscribeSucceeds, FailAttempt, ClearRequest, LocksOK, DeviceOK, LinksOK
  <2>. QED  BY <2>2, <2>3
<1>10. CASE CleanupDone(s)
  <2>1. client' \in Clients \cup {None} /\ started' \in BOOLEAN /\ LinksOK'
    BY <1>10, LinkLostTypes DEF CleanupDone, DisconnectSucceeds, OnDisconnect, DeviceOK, LinksOK
  <2>2. FailAttempt(s, client) /\ client \in Clients \cup {None}
    BY <1>10 DEF CleanupDone, DeviceOK
  <2>3. TasksOK' /\ CallsOK' /\ opOwner' \in {opOwner, None}
    BY <2>2, FailAttemptTypes
  <2>. QED
    BY <1>10, <2>1, <2>2, <2>3 DEF CleanupDone, FailAttempt, ClearRequest, LocksOK, DeviceOK
<1>11. CASE \E i \in Idlers : WriteSucceeds(s, i)
  <2>1. PICK i \in Idlers : WriteSucceeds(s, i)
    BY <1>11
  <2>2. TasksOK'
    BY <2>1, TasksAssumption
       DEF WriteSucceeds, ResetDisconnectTimer, TasksOK, Tasks, DeviceOK, SenderLabels,
           IdlerLabels
  <2>. QED
    BY <2>1, <2>2 DEF WriteSucceeds, ResetDisconnectTimer, LocksOK, DeviceOK, CallsOK, LinksOK
<1>12. CASE WriteFails(s)
  <2>1. FailAttempt(s, client) /\ client \in Clients \cup {None}
    BY <1>12 DEF WriteFails, DeviceOK
  <2>. QED
    BY <1>12, <2>1, FailAttemptTypes
       DEF WriteFails, FailAttempt, ClearRequest, LocksOK, DeviceOK, LinksOK
<1>13. CASE ResponseReceived(s)
  BY <1>13, EndCallTypes
     DEF ResponseReceived, ClearRequest, Return, LocksOK, DeviceOK, LinksOK
<1>14. CASE ResponseTimeout(s)
  BY <1>14, RetryTypes
     DEF ResponseTimeout, ClearRequest, SenderLabels, LocksOK, DeviceOK, LinksOK
<1>15. CASE DropDone(s)
  <2>1. LinksOK'
    BY <1>15, LinkLostTypes DEF DropDone, LinksOK
  <2>2. TasksOK' /\ CallsOK' /\ opOwner' \in {opOwner, None}
    BY <1>15, RetryTypes DEF DropDone, SenderLabels
  <2>. QED
    BY <1>15, <2>1, <2>2 DEF DropDone, OnDisconnect, LocksOK, DeviceOK
<1>16. CASE BackoffOver(s)
  BY <1>16, GotoTypes DEF BackoffOver, SenderLabels, LocksOK, DeviceOK, CallsOK, LinksOK
<1>17. CASE Cancel(s)
  <2>1. TasksOK' /\ CallsOK'
    BY <1>17, EndCallTypes DEF Cancel
  <2>. QED
    BY <1>17, <2>1 DEF Cancel, ClearRequest, LocksOK, DeviceOK, LinksOK
<1>18. CASE DeviceAnswers(s)
  <2>1. cmd[s] \in Cmds
    BY <1>18 DEF DeviceAnswers, InFlight, CommandKnown
  <2>. QED
    BY <1>18, <2>1 DEF DeviceAnswers, TasksOK, LocksOK, DeviceOK, CallsOK, LinksOK
<1>. QED
  BY <1>3, <1>4, <1>5, <1>6, <1>7, <1>8, <1>9, <1>10, <1>11, <1>12, <1>13, <1>14,
     <1>15, <1>16, <1>17, <1>18 DEF SenderStep

LEMMA IdlerTypes ==
    ASSUME TypeOK, NEW i \in Idlers, IdlerAcquiresConn(i) \/ IdlerStep(i)
    PROVE  TypeOK'
<1>. USE DEF TypeOK, linkVars, requestVars, timerVars, callVars
<1>1. i \in Tasks
  BY DEF Tasks
<1>2. CASE TimerFires(i)
  BY <1>2, IdlerGotoTypes DEF TimerFires, IdlerLabels, LocksOK, DeviceOK, CallsOK, LinksOK
<1>3. CASE IdlerAcquiresConn(i)
  <2>1. TasksOK'
    BY <1>3, IdlerGotoTypes DEF IdlerAcquiresConn, IdlerLabels, DeviceOK
  <2>. QED
    BY <1>1, <1>3, <2>1 DEF IdlerAcquiresConn, LocksOK, DeviceOK, CallsOK, LinksOK
<1>4. CASE IdleDisconnectDone(i)
  <2>1. TasksOK'
    BY <1>4, IdlerGotoTypes DEF IdleDisconnectDone, IdlerLabels
  <2>2. LinksOK'
    BY <1>4, LinkLostTypes DEF IdleDisconnectDone, DisconnectSucceeds, LinksOK
  <2>. QED
    BY <1>4, <2>1, <2>2
       DEF IdleDisconnectDone, DisconnectSucceeds, OnDisconnect, LocksOK, DeviceOK, CallsOK
<1>. QED  BY <1>2, <1>3, <1>4 DEF IdlerStep

LEMMA CloserTypes ==
    ASSUME TypeOK, NEW k \in Closers,
           Disconnect(k) \/ CloserAcquiresConn(k) \/ CloserStep(k)
    PROVE  TypeOK'
<1>. USE DEF TypeOK, linkVars, requestVars, timerVars, callVars
<1>1. k \in Tasks
  BY DEF Tasks
<1>2. CASE Disconnect(k)
  <2>1. TasksOK'
    BY <1>2, TasksAssumption
       DEF Disconnect, TasksOK, Tasks, DeviceOK, CloserLabels, IdlerLabels
  <2>. QED  BY <1>2, <2>1 DEF Disconnect, LocksOK, DeviceOK, CallsOK, LinksOK
<1>3. CASE CloserAcquiresConn(k)
  <2>1. TasksOK'
    BY <1>3, CloserGotoTypes DEF CloserAcquiresConn, CloserLabels, DeviceOK
  <2>. QED
    BY <1>1, <1>3, <2>1 DEF CloserAcquiresConn, LocksOK, DeviceOK, CallsOK, LinksOK
<1>4. CASE NotificationsStopped(k)
  <2>1. TasksOK'
    BY <1>4, CloserGotoTypes DEF NotificationsStopped, CloserLabels, DeviceOK
  <2>. QED
    BY <1>4, <2>1 DEF NotificationsStopped, LocksOK, DeviceOK, CallsOK, LinksOK
<1>5. CASE DisconnectDone(k)
  <2>1. TasksOK'
    BY <1>5, CloserGotoTypes DEF DisconnectDone, CloserLabels
  <2>2. LinksOK'
    BY <1>5, LinkLostTypes DEF DisconnectDone, LinksOK
  <2>. QED
    BY <1>5, <2>1, <2>2 DEF DisconnectDone, LocksOK, DeviceOK, CallsOK
<1>. QED  BY <1>2, <1>3, <1>4, <1>5 DEF CloserStep

LEMMA NextTypes ==
    ASSUME TypeOK, CommandKnown, [Next]_vars
    PROVE  TypeOK'
<1>1. CASE \E c \in Clients : DropLink(c)
  BY <1>1, LinkLostTypes
     DEF DropLink, OnDisconnect, TypeOK, TasksOK, LocksOK, DeviceOK, CallsOK,
         requestVars, timerVars, callVars
<1>2. CASE \E c \in Clients, b \in Cmds : Deliver(c, b)
  BY <1>2 DEF Deliver, TypeOK, TasksOK, LocksOK, DeviceOK, CallsOK, LinksOK,
              timerVars, callVars
<1>3. CASE UNCHANGED vars
  BY <1>3 DEF vars, TypeOK, TasksOK, LocksOK, DeviceOK, CallsOK, LinksOK
<1>. QED
  BY <1>1, <1>2, <1>3, SenderTypes, IdlerTypes, CloserTypes DEF Next

----------------------------------------------------------------------------
(* The locks and the pending request.                                      *)

\* What a step of the sender that holds the operation lock does to the locks,
\* the pending request and the other tasks: it only starts or cancels timers.
\* c tells how the connect lock is treated.
SenderEffect(s) ==
    /\ pc[s] \in InOperation
    /\ pc'[s] \in SenderLabels \ {"wantOp"}
    /\ \A t \in Tasks \ {s} :
         pc'[t] = pc[t] \/ (t \in Idlers /\ {pc[t], pc'[t]} \subseteq {"idle", "armed"})
    /\ opOwner' = IF pc'[s] = "idle" THEN None ELSE s
    /\ IF pc'[s] \in InConnection
         THEN connOwner \in {s, None} /\ connOwner' = s
         ELSE connOwner' = IF connOwner = s THEN None ELSE connOwner
    /\ pc'[s] \in InFlight => pending' = cmd'[s] /\ event' # "absent"
    /\ \A t \in Senders : cmd'[t] = cmd[t] \/ (t = s /\ pc'[s] = "idle")

LEMMA EffectKeepsInvariant ==
    ASSUME TasksOK, TasksOK', LocksOK, LockDiscipline, RequestIsPending, CommandKnown,
           NEW s \in Senders, SenderEffect(s)
    PROVE  LockDiscipline' /\ RequestIsPending' /\ CommandKnown'
<1>1. s \in Tasks /\ s # None /\ s \notin Idlers /\ Senders \subseteq Tasks
  BY TasksAssumption DEF Tasks
<1>2. opOwner = s
  BY DEF LockDiscipline, SenderEffect
<1>3. \A t \in Senders \ {s} : pc'[t] = pc[t] /\ pc[t] \notin InOperation
  BY <1>1, <1>2, TasksAssumption DEF SenderEffect, LockDiscipline
<1>4. \A t \in Senders : pc'[t] \in InOperation <=> opOwner' = t
  BY <1>1, <1>3, TasksAssumption DEF SenderEffect, InOperation
<1>5. \A t \in Tasks : pc'[t] \in InConnection <=> connOwner' = t
  <2>1. \A t \in Tasks \ {s} : pc'[t] \in InConnection <=> pc[t] \in InConnection
    BY DEF SenderEffect, InConnection
  <2>2. \A t \in Tasks : pc[t] \in InConnection <=> connOwner = t
    BY DEF LockDiscipline
  <2>3. CASE pc'[s] \in InConnection
    BY <2>1, <2>2, <2>3, TasksAssumption DEF SenderEffect
  <2>4. CASE pc'[s] \notin InConnection
    BY <1>1, <2>1, <2>2, <2>4, TasksAssumption DEF SenderEffect
  <2>. QED  BY <2>3, <2>4
<1>6. RequestIsPending'
  BY <1>3 DEF SenderEffect, RequestIsPending, InFlight, InOperation, SenderLabels, TasksOK
<1>7. CommandKnown'
  BY <1>3 DEF SenderEffect, CommandKnown, InOperation
<1>. QED  BY <1>4, <1>5, <1>6, <1>7 DEF LockDiscipline

\* An attempt that ends leaves the connect lock's labels.
LEMMA RetryEffect ==
    ASSUME TasksOK, CallsOK, NEW s \in Senders, NEW label \in {"attempt", "backoff"},
           RetryOrFail(s, label), opOwner = s
    PROVE  /\ pc'[s] \in {label, "idle"}
           /\ \A t \in Tasks \ {s} : pc'[t] = pc[t]
           /\ opOwner' = IF pc'[s] = "idle" THEN None ELSE s
           /\ \A t \in Senders : cmd'[t] = cmd[t] \/ (t = s /\ pc'[s] = "idle")
<1>1. s \in Tasks
  BY DEF Tasks
<1>2. CASE attempt[s] < Retry
  BY <1>1, <1>2 DEF RetryOrFail, Goto, TasksOK
<1>3. CASE ~(attempt[s] < Retry)
  BY <1>1, <1>3 DEF RetryOrFail, Return, EndCall, Goto, TasksOK, CallsOK
<1>. QED  BY <1>2, <1>3

LEMMA FailEffect ==
    ASSUME TasksOK, CallsOK, NEW s \in Senders, NEW cur, FailAttempt(s, cur), opOwner = s
    PROVE  /\ pc'[s] \in {"drop", "backoff", "idle"}
           /\ \A t \in Tasks \ {s} : pc'[t] = pc[t]
           /\ opOwner' = IF pc'[s] = "idle" THEN None ELSE s
           /\ \A t \in Senders : cmd'[t] = cmd[t] \/ (t = s /\ pc'[s] = "idle")
<1>1. s \in Tasks
  BY DEF Tasks
<1>2. CASE cur # None
  BY <1>1, <1>2 DEF FailAttempt, Goto, callVars, TasksOK
<1>3. CASE cur = None
  BY <1>3, RetryEffect DEF FailAttempt
<1>. QED  BY <1>2, <1>3

LEMMA SenderEffects ==
    ASSUME TypeOK, LockDiscipline, CommandKnown, RequestIsPending,
           NEW s \in Senders, SenderAcquiresConn(s) \/ SenderStep(s)
    PROVE  SenderEffect(s)
<1>1. s \in Tasks /\ s # None /\ s \notin Idlers
  BY TasksAssumption DEF Tasks
<1>. USE <1>1 DEF TypeOK, callVars, requestVars, timerVars, linkVars, InFlight,
                  InOperation, InConnection, SenderLabels
<1>2. /\ pc[s] \in InOperation => opOwner = s
      /\ pc[s] \in InConnection <=> connOwner = s
  BY DEF LockDiscipline
<1>3. CASE EnsureConnected(s)
  BY <1>2, <1>3 DEF EnsureConnected, BeginRequest, Goto, SenderEffect, TasksOK
<1>4. CASE SenderAcquiresConn(s)
  BY <1>2, <1>4 DEF SenderAcquiresConn, BeginRequest, Goto, SenderEffect, TasksOK
<1>5. CASE \E c \in Clients : EstablishSucceeds(s, c)
  BY <1>2, <1>5 DEF EstablishSucceeds, BeginRequest, Goto, SenderEffect, TasksOK
<1>6. CASE EstablishFails(s) \/ SubscribeFails(s)
  <2>1. AbandonConnection(s) /\ pc[s] \in {"establish", "subscribe"}
    BY <1>6 DEF EstablishFails, SubscribeFails
  <2>2. CASE Connected
    BY <1>2, <2>1, <2>2 DEF AbandonConnection, Goto, SenderEffect, TasksOK
  <2>3. CASE ~Connected
    BY <1>2, <2>1, <2>3, FailEffect DEF AbandonConnection, SenderEffect
  <2>. QED  BY <2>2, <2>3
<1>7. CASE SubscribeSucceeds(s)
  <2>1. CASE client # None
    BY <1>2, <1>7, <2>1 DEF SubscribeSucceeds, BeginRequest, Goto, SenderEffect, TasksOK
  <2>2. CASE client = None
    BY <1>2, <1>7, <2>2, FailEffect DEF SubscribeSucceeds, SenderEffect
  <2>. QED  BY <2>1, <2>2
<1>8. CASE CleanupDone(s)
  BY <1>2, <1>8, FailEffect DEF CleanupDone, SenderEffect
<1>9. CASE \E i \in Idlers : WriteSucceeds(s, i)
  <2>1. PICK i \in Idlers : WriteSucceeds(s, i)
    BY <1>9
  <2>2. /\ pc'[s] = "waiting" /\ pc[s] = "writing"
        /\ \A t \in Tasks \ {s} :
             pc'[t] = pc[t] \/ (t \in Idlers /\ {pc[t], pc'[t]} \subseteq {"idle", "armed"})
    BY <2>1, TasksAssumption DEF WriteSucceeds, ResetDisconnectTimer, TasksOK, DeviceOK, Tasks
  <2>. QED
    BY <1>2, <2>1, <2>2 DEF WriteSucceeds, SenderEffect, RequestIsPending
<1>10. CASE WriteFails(s)
  BY <1>2, <1>10, FailEffect DEF WriteFails, SenderEffect
<1>11. CASE ResponseReceived(s)
  BY <1>2, <1>11 DEF ResponseReceived, Return, EndCall, Goto, SenderEffect, TasksOK, CallsOK
<1>12. CASE ResponseTimeout(s)
  BY <1>2, <1>12, RetryEffect DEF ResponseTimeout, SenderEffect
<1>13. CASE DropDone(s)
  BY <1>2, <1>13, RetryEffect DEF DropDone, SenderEffect
<1>14. CASE BackoffOver(s)
  BY <1>2, <1>14 DEF BackoffOver, Goto, SenderEffect, TasksOK
<1>. QED
  BY <1>3, <1>4, <1>5, <1>6, <1>7, <1>8, <1>9, <1>10, <1>11, <1>12, <1>13, <1>14
     DEF SenderStep

\* The other steps of a sender.
LEMMA CallInvariant ==
    ASSUME IInv, TasksOK', NEW s \in Senders, NEW b \in Cmds, Call(s, b)
    PROVE  LockDiscipline' /\ RequestIsPending' /\ CommandKnown'
<1>1. s \in Tasks /\ Senders \subseteq Tasks
  BY DEF Tasks
<1>2. /\ pc[s] = "idle" /\ pc'[s] = "wantOp"
      /\ \A t \in Tasks \ {s} : pc'[t] = pc[t]
      /\ cmd'[s] = b /\ \A t \in Senders \ {s} : cmd'[t] = cmd[t]
      /\ UNCHANGED <<opOwner, connOwner, pending, event>>
  BY <1>1 DEF Call, Goto, requestVars, IInv, TypeOK, TasksOK, CallsOK
<1>3. LockDiscipline'
  BY <1>1, <1>2 DEF IInv, LockDiscipline, InOperation, InConnection, SenderLabels
<1>4. RequestIsPending' /\ CommandKnown'
  BY <1>1, <1>2 DEF IInv, RequestIsPending, CommandKnown, InFlight
<1>. QED  BY <1>3, <1>4

LEMMA AcquireOpInvariant ==
    ASSUME IInv, NEW s \in Senders, AcquireOp(s)
    PROVE  LockDiscipline' /\ RequestIsPending' /\ CommandKnown'
<1>1. s \in Tasks /\ s # None /\ Senders \subseteq Tasks
  BY TasksAssumption DEF Tasks
<1>2. /\ pc[s] = "wantOp" /\ pc'[s] = "attempt"
      /\ \A t \in Tasks \ {s} : pc'[t] = pc[t]
      /\ opOwner = None /\ opOwner' = s
      /\ UNCHANGED <<connOwner, pending, event, cmd>>
  BY <1>1 DEF AcquireOp, Goto, requestVars, callVars, IInv, TypeOK, TasksOK
<1>3. LockDiscipline'
  BY <1>1, <1>2, TasksAssumption
     DEF IInv, LockDiscipline, InOperation, InConnection, SenderLabels
<1>4. RequestIsPending' /\ CommandKnown'
  BY <1>1, <1>2 DEF IInv, RequestIsPending, CommandKnown, InFlight
<1>. QED  BY <1>3, <1>4

LEMMA CancelInvariant ==
    ASSUME IInv, NEW s \in Senders, Cancel(s)
    PROVE  LockDiscipline' /\ RequestIsPending' /\ CommandKnown'
<1>1. s \in Tasks /\ s # None /\ Senders \subseteq Tasks
  BY TasksAssumption DEF Tasks
<1>2. /\ pc'[s] = "idle"
      /\ \A t \in Tasks \ {s} : pc'[t] = pc[t]
      /\ \A t \in Senders \ {s} : cmd'[t] = cmd[t]
      /\ opOwner' = IF opOwner = s THEN None ELSE opOwner
      /\ connOwner' = IF connOwner = s THEN None ELSE connOwner
      /\ pc[s] # "waiting" => UNCHANGED <<pending, event>>
  BY <1>1 DEF Cancel, EndCall, Goto, requestVars, IInv, TypeOK, TasksOK, CallsOK
<1>3. LockDiscipline'
  BY <1>1, <1>2, TasksAssumption
     DEF IInv, LockDiscipline, InOperation, InConnection, SenderLabels
<1>4. RequestIsPending'
  <2>1. CASE pc[s] = "waiting"
    \* Then s holds the operation lock and nobody else has a request.
    BY <1>1, <1>2, <2>1 DEF IInv, LockDiscipline, RequestIsPending, InOperation, InFlight,
                            SenderLabels
  <2>2. CASE pc[s] # "waiting"
    BY <1>1, <1>2, <2>2 DEF IInv, RequestIsPending, InFlight
  <2>. QED  BY <2>1, <2>2
<1>5. CommandKnown'
  BY <1>1, <1>2 DEF IInv, CommandKnown
<1>. QED  BY <1>3, <1>4, <1>5

\* What a step of a timer or of disconnect() does: it touches neither the operation
\* lock nor the request.
OtherTaskEffect(t) ==
    /\ UNCHANGED <<opOwner, pending, event, cmd>>
    /\ \A u \in Tasks \ {t} : pc'[u] = pc[u]
         \/ (u \in Idlers /\ {pc[u], pc'[u]} \subseteq {"idle", "armed"})
    /\ \/ pc'[t] \in InConnection /\ connOwner' = t /\ connOwner \in {t, None}
       \/ pc'[t] \notin InConnection
            /\ connOwner' = IF connOwner = t THEN None ELSE connOwner

LEMMA OtherTaskInvariant ==
    ASSUME IInv, NEW t \in Idlers \cup Closers, OtherTaskEffect(t)
    PROVE  LockDiscipline' /\ RequestIsPending' /\ CommandKnown'
<1>1. t \in Tasks /\ t # None /\ Senders \subseteq Tasks /\ t \notin Senders
      /\ Senders \cap Idlers = {}
  BY TasksAssumption DEF Tasks
<1>2. \A s \in Senders : pc'[s] = pc[s]
  BY <1>1 DEF OtherTaskEffect
<1>3. \A u \in Tasks \ {t} : pc'[u] \in InConnection <=> pc[u] \in InConnection
  BY DEF OtherTaskEffect, InConnection
<1>4. \A u \in Tasks : pc'[u] \in InConnection <=> connOwner' = u
  <2>1. \A u \in Tasks : pc[u] \in InConnection <=> connOwner = u
    BY DEF IInv, LockDiscipline
  <2>2. CASE pc'[t] \in InConnection
    BY <1>1, <1>3, <2>1, <2>2, TasksAssumption DEF OtherTaskEffect
  <2>3. CASE pc'[t] \notin InConnection
    BY <1>1, <1>3, <2>1, <2>3, TasksAssumption DEF OtherTaskEffect
  <2>. QED  BY <2>2, <2>3
<1>5. LockDiscipline'
  <2>1. \A s \in Senders : pc[s] \in InOperation <=> opOwner = s
    BY DEF IInv, LockDiscipline
  <2>2. opOwner' = opOwner
    BY DEF OtherTaskEffect
  <2>. QED  BY <1>2, <1>4, <2>1, <2>2 DEF LockDiscipline, InOperation
<1>6. RequestIsPending' /\ CommandKnown'
  BY <1>2 DEF OtherTaskEffect, IInv, RequestIsPending, CommandKnown, InFlight
<1>. QED  BY <1>5, <1>6

LEMMA IdlerInvariant ==
    ASSUME IInv, NEW i \in Idlers, IdlerAcquiresConn(i) \/ IdlerStep(i)
    PROVE  LockDiscipline' /\ RequestIsPending' /\ CommandKnown'
<1>1. i \in Tasks /\ i # None
  BY TasksAssumption DEF Tasks
<1>2. (pc[i] \in InConnection <=> connOwner = i) /\ TasksOK
  BY <1>1 DEF IInv, LockDiscipline, TypeOK
<1>3. OtherTaskEffect(i)
  <2>. USE <1>1, <1>2 DEF OtherTaskEffect, Goto, requestVars, callVars, InConnection,
                         TasksOK
  <2>1. CASE IdlerAcquiresConn(i)
    BY <2>1 DEF IdlerAcquiresConn
  <2>2. CASE TimerFires(i)
    BY <2>2 DEF TimerFires
  <2>3. CASE IdleDisconnectDone(i)
    BY <2>3 DEF IdleDisconnectDone
  <2>. QED  BY <2>1, <2>2, <2>3 DEF IdlerStep
<1>. QED  BY <1>3, OtherTaskInvariant

LEMMA CloserInvariant ==
    ASSUME IInv, NEW k \in Closers,
           Disconnect(k) \/ CloserAcquiresConn(k) \/ CloserStep(k)
    PROVE  LockDiscipline' /\ RequestIsPending' /\ CommandKnown'
<1>1. k \in Tasks /\ k # None /\ k \notin Idlers /\ Idlers \subseteq Tasks
  BY TasksAssumption DEF Tasks
<1>2. (pc[k] \in InConnection <=> connOwner = k) /\ TasksOK
      /\ timer \in Idlers \cup {None}
  BY <1>1 DEF IInv, LockDiscipline, TypeOK, DeviceOK
<1>3. OtherTaskEffect(k)
  <2>. USE <1>1, <1>2 DEF OtherTaskEffect, Goto, requestVars, callVars, InConnection,
                         TasksOK
  <2>1. CASE Disconnect(k)
    BY <2>1 DEF Disconnect
  <2>2. CASE CloserAcquiresConn(k)
    BY <2>2 DEF CloserAcquiresConn
  <2>3. CASE NotificationsStopped(k)
    BY <2>3 DEF NotificationsStopped
  <2>4. CASE DisconnectDone(k)
    BY <2>4 DEF DisconnectDone
  <2>. QED  BY <2>1, <2>2, <2>3, <2>4 DEF CloserStep
<1>. QED  BY <1>3, OtherTaskInvariant

LEMMA InvariantStep == IInv /\ [Next]_vars => IInv'
<1>. SUFFICES ASSUME IInv, [Next]_vars PROVE IInv'
  OBVIOUS
<1>1. TypeOK'
  BY NextTypes DEF IInv
<1>2. TasksOK /\ TasksOK' /\ LocksOK
  BY <1>1 DEF IInv, TypeOK
<1>3. SUFFICES LockDiscipline' /\ RequestIsPending' /\ CommandKnown'
  BY <1>1 DEF IInv
<1>4. ASSUME NEW s \in Senders, SenderAcquiresConn(s) \/ SenderStep(s)
      PROVE  LockDiscipline' /\ RequestIsPending' /\ CommandKnown'
  BY <1>2, <1>4, SenderEffects, EffectKeepsInvariant DEF IInv
<1>5. CASE \E s \in Senders : DeviceAnswers(s)
  BY <1>5 DEF DeviceAnswers, requestVars, callVars, IInv, LockDiscipline,
              RequestIsPending, CommandKnown
<1>6. CASE \E c \in Clients : DropLink(c)
  BY <1>6 DEF DropLink, requestVars, callVars, IInv, LockDiscipline, RequestIsPending,
              CommandKnown
<1>7. CASE \E c \in Clients, b \in Cmds : Deliver(c, b)
  BY <1>7 DEF Deliver, callVars, IInv, LockDiscipline, RequestIsPending, CommandKnown
<1>8. CASE UNCHANGED vars
  BY <1>8 DEF vars, IInv, LockDiscipline, RequestIsPending, CommandKnown
<1>9. CASE \E s \in Senders, b \in Cmds : Call(s, b)
  BY <1>2, <1>9, CallInvariant
<1>10. CASE \E s \in Senders : AcquireOp(s) \/ Cancel(s)
  BY <1>10, AcquireOpInvariant, CancelInvariant
<1>11. CASE \E i \in Idlers : IdlerAcquiresConn(i) \/ IdlerStep(i)
  BY <1>11, IdlerInvariant
<1>12. CASE \E k \in Closers : Disconnect(k) \/ CloserAcquiresConn(k) \/ CloserStep(k)
  BY <1>12, CloserInvariant
<1>13. CASE \E s \in Senders : SenderAcquiresConn(s) \/ SenderStep(s)
  BY <1>4, <1>13
<1>. QED
  BY <1>5, <1>6, <1>7, <1>8, <1>9, <1>10, <1>11, <1>12, <1>13 DEF Next

LEMMA InvariantInit == Init => IInv
<1>. SUFFICES ASSUME Init PROVE IInv
  OBVIOUS
<1>1. TasksOK /\ LocksOK /\ DeviceOK /\ LinksOK
  BY TasksAssumption
     DEF Init, TasksOK, LocksOK, DeviceOK, LinksOK, Tasks, SenderLabels, IdlerLabels,
         CloserLabels
<1>2. CallsOK
  BY RetryAssumption DEF Init, CallsOK
<1>3. LockDiscipline /\ RequestIsPending /\ CommandKnown
  BY TasksAssumption DEF Init, LockDiscipline, RequestIsPending, CommandKnown, Tasks,
                         InOperation, InConnection, InFlight, SenderLabels
<1>. QED  BY <1>1, <1>2, <1>3 DEF IInv, TypeOK

THEOREM Invariance == Spec => []IInv
BY InvariantInit, InvariantStep, PTL DEF Spec

\* Every variable keeps to its type, whatever the stack, the device and the
\* callers of MarstekBLEDevice do.
THEOREM TypeCorrect == Spec => []TypeOK
<1>1. IInv => TypeOK
  BY DEF IInv
<1>. QED  BY <1>1, Invariance, PTL

\* Mutual exclusion on both locks and no lock left behind, for any number of
\* callers, timers and disconnect() calls, cancelled or not (774, 878, 911, 1045).
THEOREM LocksAreExclusive == Spec => []LockDiscipline
<1>1. IInv => LockDiscipline
  BY DEF IInv
<1>. QED  BY <1>1, Invariance, PTL

\* The request in flight is always the one whose answer is awaited (921-965).
THEOREM RequestStaysPending == Spec => []RequestIsPending
<1>1. IInv => RequestIsPending
  BY DEF IInv
<1>. QED  BY <1>1, Invariance, PTL

----------------------------------------------------------------------------
(* The client is never stale.  The invariant is inductive by itself: only  *)
(* LinkLost removes links, and no handler lets a link go and keeps it as   *)
(* the client.                                                             *)

LEMMA LiveSenderStep ==
    ASSUME ClientIsLive, NEW s \in Senders, SenderAcquiresConn(s) \/ SenderStep(s)
    PROVE  ClientIsLive'
<1>. USE DEF ClientIsLive, linkVars
<1>1. CASE EnsureConnected(s) \/ SenderAcquiresConn(s) \/ WriteFails(s) \/ BackoffOver(s)
  BY <1>1 DEF EnsureConnected, SenderAcquiresConn, WriteFails, BackoffOver
<1>2. CASE \E c \in Clients : EstablishSucceeds(s, c)
  BY <1>2 DEF EstablishSucceeds
<1>3. CASE EstablishFails(s) \/ SubscribeFails(s)
  BY <1>3 DEF EstablishFails, SubscribeFails, AbandonConnection
<1>4. CASE SubscribeSucceeds(s)
  BY <1>4 DEF SubscribeSucceeds
<1>5. CASE CleanupDone(s)
  BY <1>5 DEF CleanupDone, DisconnectSucceeds, LinkLost, OnDisconnect
<1>6. CASE \E i \in Idlers : WriteSucceeds(s, i)
  BY <1>6 DEF WriteSucceeds
<1>7. CASE ResponseReceived(s) \/ ResponseTimeout(s)
  BY <1>7 DEF ResponseReceived, ResponseTimeout
<1>8. CASE DropDone(s)
  BY <1>8 DEF DropDone, OnDisconnect
<1>. QED
  BY <1>1, <1>2, <1>3, <1>4, <1>5, <1>6, <1>7, <1>8 DEF SenderStep

LEMMA LiveStep == ClientIsLive /\ [Next]_vars => ClientIsLive'
<1>. SUFFICES ASSUME ClientIsLive, [Next]_vars PROVE ClientIsLive'
  OBVIOUS
<1>1. CASE \E s \in Senders : SenderAcquiresConn(s) \/ SenderStep(s)
  BY <1>1, LiveSenderStep
<1>. USE DEF ClientIsLive, linkVars
<1>2. CASE \E s \in Senders : \/ \E b \in Cmds : Call(s, b)
                              \/ AcquireOp(s) \/ Cancel(s) \/ DeviceAnswers(s)
  BY <1>2 DEF Call, AcquireOp, Cancel, DeviceAnswers
<1>3. CASE \E i \in Idlers : IdlerAcquiresConn(i) \/ IdlerStep(i)
  BY <1>3 DEF IdlerAcquiresConn, IdlerStep, TimerFires, IdleDisconnectDone,
              DisconnectSucceeds, LinkLost, OnDisconnect
<1>4. CASE \E k \in Closers : Disconnect(k) \/ CloserAcquiresConn(k) \/ CloserStep(k)
  BY <1>4 DEF Disconnect, CloserAcquiresConn, CloserStep, NotificationsStopped,
              DisconnectDone
<1>5. CASE \E c \in Clients : DropLink(c)
  BY <1>5 DEF DropLink, OnDisconnect
<1>6. CASE \E c \in Clients, b \in Cmds : Deliver(c, b)
  BY <1>6 DEF Deliver
<1>7. CASE UNCHANGED vars
  BY <1>7 DEF vars
<1>. QED
  BY <1>1, <1>2, <1>3, <1>4, <1>5, <1>6, <1>7 DEF Next

\* self._client is None or connected, whenever another task may look at it, also
\* when a disconnect raised or a call was cancelled (799, 826, 857, 1018, 1060).
THEOREM ClientStaysLive == Spec => []ClientIsLive
<1>1. Init => ClientIsLive
  BY DEF Init, ClientIsLive
<1>. QED  BY <1>1, LiveStep, PTL DEF Spec

----------------------------------------------------------------------------
(* At most one link.  The steps that can break it are named; in every      *)
(* environment, without them, the links stay known.                        *)

\* The disconnect of a connection that failed raises or is cancelled: the link stays
\* up and no client refers to it (826-838, 1018-1024).
Leaks ==
    \E s \in Senders :
        /\ pc[s] \in {"cleanup", "drop"} /\ pc'[s] # pc[s]
        /\ held[s] \in links' /\ client' = None

\* A lock has one holder.
LEMMA Alone ==
    ASSUME IInv
    PROVE  /\ \A s, t \in Senders : pc[s] \in InOperation /\ pc[t] \in InOperation => s = t
           /\ \A s, t \in Tasks : pc[s] \in InConnection /\ pc[t] \in InConnection => s = t
BY DEF IInv, LockDiscipline

LEMMA KnownLinks ==
    ASSUME IInv, LinkInv
    PROVE  /\ client # None => links = {client}
           /\ \A c, d \in links : c = d
<1>1. \A s, t \in Senders : pc[s] = "cleanup" /\ pc[t] = "cleanup" => s = t
  BY Alone DEF InConnection, Tasks
<1>2. client # None => links = {client}
  BY DEF LinkInv, ClientIsLive, LinksKnown, ClientSettled
<1>3. ASSUME NEW c \in links, NEW d \in links, client = None PROVE c = d
  <2>1. c # None /\ d # None
    BY TasksAssumption DEF IInv, TypeOK, LinksOK
  <2>2. PICK s \in Senders : pc[s] = "cleanup" /\ held[s] = c
    BY <1>3, <2>1 DEF LinkInv, LinksKnown
  <2>3. PICK t \in Senders : pc[t] = "cleanup" /\ held[t] = d
    BY <1>3, <2>1 DEF LinkInv, LinksKnown
  <2>. QED  BY <1>1, <2>2, <2>3
<1>. QED  BY <1>2, <1>3

LEMMA KnownIsOne ==
    ASSUME IInv, LinkInv PROVE OneLink
<1>1. CASE links = {}
  BY <1>1, FS_EmptySet DEF OneLink
<1>2. ASSUME NEW c \in links PROVE OneLink
  <2>1. links = {c}
    BY <1>2, KnownLinks
  <2>. QED  BY <2>1, FS_Singleton DEF OneLink
<1>. QED  BY <1>1, <1>2

\* Only task a moves, apart from timers that it arms or cancels.
MovesOnly(a) ==
    \A t \in Tasks \ {a} :
        /\ held'[t] = held[t]
        /\ pc'[t] = pc[t] \/ (t \in Idlers /\ {pc[t], pc'[t]} \subseteq {"idle", "armed"})

\* What a step of task a can do to the link: leave it alone, close it, give it up to
\* the cleanup, or make one.
LinkKept(a) ==
    /\ links' = links /\ client' = client
    /\ pc[a] = "cleanup" => held[a] \notin links
    /\ pc'[a] \in {"establish", "cleanup"} => client = None
    /\ pc'[a] \in Attached => client \in {held'[a], None}

LinkClosed == links' = {} /\ client' = None

LinkGivenUp(a) ==
    /\ links' = links /\ client' = None
    /\ client \in links /\ pc'[a] = "cleanup" /\ held'[a] = client

LinkMade(a) ==
    /\ pc[a] = "establish" /\ pc'[a] \in {"subscribe", "writing"}
    /\ held'[a] = client' /\ links' = links \cup {client'}

LinkEffect(a) ==
    /\ MovesOnly(a)
    /\ LinkKept(a) \/ LinkClosed \/ LinkGivenUp(a) \/ LinkMade(a)

LEMMA EffectKeepsLinks ==
    ASSUME IInv, LinkInv, NEW a \in Tasks, LinkEffect(a),
           a \notin Senders => pc[a] # "cleanup" /\ pc'[a] # "cleanup"
    PROVE  LinksKnown' /\ ClientSettled'
<1>1. Senders \subseteq Tasks /\ Senders \cap Idlers = {}
  BY TasksAssumption DEF Tasks
<1>2. CASE LinkKept(a)
  <2>1. LinksKnown'
    BY <1>1, <1>2 DEF LinkEffect, MovesOnly, LinkKept, LinkInv, LinksKnown
  <2>2. ClientSettled'
    BY <1>1, <1>2 DEF LinkEffect, MovesOnly, LinkKept, LinkInv, ClientSettled, Attached, InFlight
  <2>. QED  BY <2>1, <2>2
<1>3. CASE LinkClosed
  BY <1>3 DEF LinkClosed, LinksKnown, ClientSettled
<1>4. CASE LinkGivenUp(a)
  BY <1>4, KnownLinks, TasksAssumption DEF LinkGivenUp, LinksKnown, ClientSettled, LinkInv
<1>5. CASE LinkMade(a)
  <2>1. \A t \in Tasks : pc[t] \in InConnection => t = a
    BY <1>5, Alone DEF LinkMade, InConnection
  <2>2. a \in Senders => \A t \in Senders : pc[t] \in InOperation => t = a
    BY <1>5, Alone DEF LinkMade, InOperation, SenderLabels
  <2>3. a \in Senders
    BY <1>5 DEF LinkMade, IInv, TypeOK, TasksOK, IdlerLabels, CloserLabels, Tasks
  <2>4. client = None /\ None \notin links
    BY <1>5, <2>3, TasksAssumption DEF LinkMade, LinkInv, ClientSettled, IInv, TypeOK, LinksOK
  <2>5. \A t \in Senders : pc[t] # "cleanup"
    BY <1>1, <1>5, <2>1 DEF LinkMade, InConnection
  <2>6. links = {}
    BY <2>4, <2>5 DEF LinkInv, LinksKnown
  <2>7. LinksKnown'
    BY <1>5, <2>6 DEF LinkMade, LinksKnown
  <2>8. ASSUME NEW t \in Tasks, t # a
        PROVE  pc'[t] \notin Attached \cup {"establish", "cleanup"}
    <3>1. pc[t] \notin {"establish", "cleanup", "unsub", "disc", "subscribe"}
      BY <2>1, <2>8 DEF InConnection
    <3>2. pc[t] \notin InFlight \cup {"drop"}
      BY <2>2, <2>3, <2>8 DEF InFlight, InOperation, SenderLabels, IInv, TypeOK, TasksOK,
                              IdlerLabels, CloserLabels, Tasks
    <3>. QED  BY <2>8, <3>1, <3>2 DEF LinkEffect, MovesOnly, Attached, InFlight
  <2>9. ClientSettled'
    BY <1>1, <1>5, <2>8 DEF ClientSettled, LinkMade
  <2>. QED  BY <2>7, <2>9
<1>. QED  BY <1>2, <1>3, <1>4, <1>5 DEF LinkEffect

\* The end of an attempt, as far as links and tasks go.
LEMMA RetryMoves ==
    ASSUME TasksOK, NEW s \in Senders, NEW label, RetryOrFail(s, label)
    PROVE  MovesOnly(s) /\ pc'[s] \in {label, "idle"}
<1>1. s \in Tasks
  BY DEF Tasks
<1>. QED
  BY <1>1 DEF RetryOrFail, Return, EndCall, Goto, MovesOnly, TasksOK

LEMMA FailMoves ==
    ASSUME TasksOK, NEW s \in Senders, NEW cur, FailAttempt(s, cur)
    PROVE  /\ MovesOnly(s)
           /\ IF cur # None THEN pc'[s] = "drop" /\ held'[s] = cur
                            ELSE pc'[s] \in {"backoff", "idle"}
<1>1. s \in Tasks
  BY DEF Tasks
<1>. QED
  BY <1>1, RetryMoves DEF FailAttempt, Goto, MovesOnly, TasksOK

\* What is left when the link of c is lost.
LEMMA LostLink ==
    ASSUME IInv, LinkInv, NEW c, LinkLost(c),
           client # None => c = client,
           \A s \in Senders : pc[s] = "cleanup" => held[s] = c
    PROVE  links' = {}
<1>1. None \notin links
  BY TasksAssumption DEF IInv, TypeOK, LinksOK
<1>. QED
  BY <1>1 DEF LinkLost, LinkInv, LinksKnown

LEMMA DisconnectEffect ==
    ASSUME IInv, LinkInv, NEW t \in Tasks, pc[t] \in {"cleanup", "disc"}, DisconnectSucceeds(t)
    PROVE  \/ LinkClosed
           \/ links' = links /\ client' = client /\ held[t] \notin links
<1>1. CASE held[t] \in links
  <2>1. links = {held[t]}
    BY <1>1, KnownLinks
  <2>. QED  BY <1>1, <2>1 DEF DisconnectSucceeds, LinkLost, OnDisconnect, LinkClosed
<1>2. CASE held[t] \notin links
  BY <1>2 DEF DisconnectSucceeds, LinkLost
<1>. QED  BY <1>1, <1>2

LEMMA SenderLinkEffect ==
    ASSUME IInv, LinkInv, ~Leaks, NEW s \in Senders,
           SenderAcquiresConn(s) \/ SenderStep(s) \/ Cancel(s)
    PROVE  LinkEffect(s)
<1>1. s \in Tasks /\ s # None /\ s \notin Idlers /\ TasksOK
  BY TasksAssumption DEF Tasks, IInv, TypeOK
<1>. USE <1>1 DEF linkVars, LinkEffect, Attached, InFlight
<1>2. Connected <=> client # None
  BY DEF Connected, LinkInv, ClientIsLive
<1>3. CASE EnsureConnected(s)
  BY <1>3 DEF EnsureConnected, BeginRequest, Goto, MovesOnly, LinkKept, TasksOK
<1>4. CASE SenderAcquiresConn(s)
  BY <1>2, <1>4 DEF SenderAcquiresConn, BeginRequest, Goto, MovesOnly, LinkKept, TasksOK
<1>5. CASE \E c \in Clients : EstablishSucceeds(s, c)
  BY <1>5 DEF EstablishSucceeds, BeginRequest, Goto, MovesOnly, LinkMade, TasksOK
<1>6. CASE EstablishFails(s) \/ SubscribeFails(s)
  <2>1. AbandonConnection(s) /\ pc[s] \in {"establish", "subscribe"}
    BY <1>6 DEF EstablishFails, SubscribeFails
  <2>2. CASE Connected
    BY <2>1, <2>2 DEF AbandonConnection, Goto, MovesOnly, LinkGivenUp, TasksOK, Connected
  <2>3. CASE ~Connected
    BY <1>2, <2>1, <2>3, FailMoves DEF AbandonConnection, LinkKept
  <2>. QED  BY <2>2, <2>3
<1>7. CASE SubscribeSucceeds(s)
  <2>1. MovesOnly(s) /\ pc'[s] \in {"writing", "backoff", "idle"}
        /\ (pc'[s] = "writing" => held'[s] = client)
    BY <1>7, FailMoves DEF SubscribeSucceeds, BeginRequest, Goto, MovesOnly, TasksOK
  <2>. QED  BY <1>7, <2>1 DEF SubscribeSucceeds, LinkKept
<1>8. CASE CleanupDone(s)
  <2>1. pc[s] = "cleanup" /\ client = None /\ FailAttempt(s, client)
    BY <1>8 DEF CleanupDone, LinkInv, ClientSettled
  <2>2. MovesOnly(s) /\ pc'[s] \in {"backoff", "idle"}
    BY <2>1, FailMoves
  <2>3. \/ LinkClosed
        \/ links' = links /\ client' = client /\ held[s] \notin links
    BY <1>8, <2>1, <2>2, DisconnectEffect DEF CleanupDone, Leaks
  <2>. QED  BY <2>2, <2>3 DEF LinkKept
<1>9. CASE \E i \in Idlers : WriteSucceeds(s, i)
  <2>1. PICK i \in Idlers : WriteSucceeds(s, i)
    BY <1>9
  <2>2. MovesOnly(s) /\ pc'[s] = "waiting"
    BY <2>1, TasksAssumption
       DEF WriteSucceeds, ResetDisconnectTimer, MovesOnly, TasksOK, IInv, TypeOK, DeviceOK, Tasks
  <2>. QED  BY <2>1, <2>2 DEF WriteSucceeds, LinkKept, LinkInv, ClientSettled
<1>10. CASE WriteFails(s)
  <2>1. MovesOnly(s) /\ pc'[s] \in {"drop", "backoff", "idle"}
        /\ (pc'[s] = "drop" => held'[s] = client)
    BY <1>10, FailMoves DEF WriteFails
  <2>. QED  BY <1>10, <2>1 DEF WriteFails, LinkKept
<1>11. CASE ResponseReceived(s)
  BY <1>11 DEF ResponseReceived, Return, EndCall, Goto, MovesOnly, LinkKept, TasksOK
<1>12. CASE ResponseTimeout(s)
  BY <1>12, RetryMoves DEF ResponseTimeout, LinkKept
<1>13. CASE DropDone(s)
  <2>1. pc[s] = "drop" /\ client' = None /\ MovesOnly(s) /\ pc'[s] \in {"backoff", "idle"}
    BY <1>13, RetryMoves DEF DropDone, OnDisconnect
  <2>2. client \in {held[s], None}
    BY <2>1 DEF LinkInv, ClientSettled
  <2>3. \A t \in Senders : pc[t] # "cleanup"
    BY <2>1, Alone DEF InOperation, SenderLabels
  <2>4. CASE LinkLost(held[s])
    BY <2>1, <2>2, <2>3, <2>4, LostLink DEF LinkClosed
  <2>5. CASE UNCHANGED linkVars
    <3>1. held[s] \notin links
      BY <2>1, <2>5 DEF Leaks
    <3>2. client = None
      BY <2>2, <3>1 DEF LinkInv, ClientIsLive
    <3>. QED
      BY <2>1, <2>5, <3>2 DEF LinkKept
  <2>. QED  BY <1>13, <2>1, <2>4, <2>5 DEF DropDone
<1>14. CASE BackoffOver(s)
  BY <1>14 DEF BackoffOver, Goto, MovesOnly, LinkKept, TasksOK
<1>15. CASE Cancel(s)
  <2>1. MovesOnly(s) /\ pc'[s] = "idle" /\ links' = links /\ client' = client
    BY <1>15 DEF Cancel, EndCall, Goto, MovesOnly, TasksOK
  <2>2. pc[s] = "cleanup" => held[s] \notin links
    BY <2>1 DEF Leaks, LinkInv, ClientSettled
  <2>. QED  BY <2>1, <2>2 DEF LinkKept
<1>. QED
  BY <1>3, <1>4, <1>5, <1>6, <1>7, <1>8, <1>9, <1>10, <1>11, <1>12, <1>13, <1>14, <1>15
     DEF SenderStep

LEMMA IdlerLinkEffect ==
    ASSUME IInv, LinkInv, NEW i \in Idlers, IdlerAcquiresConn(i) \/ IdlerStep(i)
    PROVE  LinkEffect(i) /\ pc[i] # "cleanup" /\ pc'[i] # "cleanup"
<1>1. i \in Tasks /\ TasksOK /\ pc[i] # "cleanup"
  BY DEF Tasks, IInv, TypeOK, TasksOK, IdlerLabels
<1>. USE <1>1 DEF linkVars, LinkEffect, Attached, InFlight
<1>2. CASE TimerFires(i)
  BY <1>2 DEF TimerFires, Goto, MovesOnly, LinkKept, TasksOK
<1>3. CASE IdlerAcquiresConn(i)
  BY <1>3 DEF IdlerAcquiresConn, Goto, MovesOnly, LinkKept, TasksOK
<1>4. CASE IdleDisconnectDone(i)
  <2>1. pc[i] = "disc" /\ MovesOnly(i) /\ pc'[i] = "idle"
    BY <1>4 DEF IdleDisconnectDone, Goto, MovesOnly, TasksOK
  <2>2. LinkClosed \/ (links' = links /\ client' = client)
    BY <1>4, <2>1, DisconnectEffect DEF IdleDisconnectDone
  <2>. QED  BY <2>1, <2>2 DEF LinkKept
<1>. QED  BY <1>2, <1>3, <1>4 DEF IdlerStep

LEMMA CloserLinkEffect ==
    ASSUME IInv, LinkInv, NEW k \in Closers,
           Disconnect(k) \/ CloserAcquiresConn(k) \/ CloserStep(k)
    PROVE  LinkEffect(k) /\ pc[k] # "cleanup" /\ pc'[k] # "cleanup"
<1>1. k \in Tasks /\ TasksOK /\ pc[k] # "cleanup" /\ timer \in Idlers \cup {None}
      /\ k \notin Idlers
  BY TasksAssumption DEF Tasks, IInv, TypeOK, TasksOK, CloserLabels, DeviceOK
<1>. USE <1>1 DEF linkVars, LinkEffect, Attached, InFlight
<1>2. Connected <=> client # None
  BY DEF Connected, LinkInv, ClientIsLive
<1>3. CASE Disconnect(k)
  BY <1>3, TasksAssumption DEF Disconnect, MovesOnly, LinkKept, TasksOK, Tasks
<1>4. CASE CloserAcquiresConn(k)
  BY <1>2, <1>4 DEF CloserAcquiresConn, Goto, MovesOnly, LinkKept, TasksOK
<1>5. CASE NotificationsStopped(k)
  BY <1>5 DEF NotificationsStopped, Goto, MovesOnly, LinkKept, TasksOK
<1>6. CASE DisconnectDone(k)
  <2>1. pc[k] = "disc" /\ MovesOnly(k) /\ pc'[k] = "idle"
    BY <1>6 DEF DisconnectDone, Goto, MovesOnly, TasksOK
  <2>2. client \in {held[k], None}
    BY <2>1 DEF LinkInv, ClientSettled
  <2>3. \A t \in Senders : pc[t] # "cleanup"
    BY <2>1, Alone, TasksAssumption DEF InConnection, Tasks
  <2>4. CASE LinkLost(held[k]) /\ client' = None
    BY <2>1, <2>2, <2>3, <2>4, LostLink DEF LinkClosed
  <2>5. CASE UNCHANGED <<client, linkVars>>
    BY <2>1, <2>5 DEF LinkKept
  <2>. QED  BY <1>6, <2>1, <2>4, <2>5 DEF DisconnectDone
<1>. QED  BY <1>3, <1>4, <1>5, <1>6 DEF CloserStep

LEMMA LinkStep == IInv /\ LinkInv /\ [Next]_vars /\ [~Leaks]_vars => LinkInv'
<1>. SUFFICES ASSUME IInv, LinkInv, [Next]_vars, [~Leaks]_vars PROVE LinkInv'
  OBVIOUS
<1>1. ClientIsLive'
  BY LiveStep DEF LinkInv
<1>2. SUFFICES LinksKnown' /\ ClientSettled'
  BY <1>1 DEF LinkInv
<1>3. CASE UNCHANGED vars
  BY <1>3 DEF vars, LinkInv, LinksKnown, ClientSettled
<1>4. CASE ~Leaks /\ \E s \in Senders : SenderAcquiresConn(s) \/ SenderStep(s) \/ Cancel(s)
  BY <1>4, SenderLinkEffect, EffectKeepsLinks DEF Tasks
<1>5. CASE \E i \in Idlers : IdlerAcquiresConn(i) \/ IdlerStep(i)
  BY <1>5, IdlerLinkEffect, EffectKeepsLinks DEF Tasks
<1>6. CASE \E k \in Closers : Disconnect(k) \/ CloserAcquiresConn(k) \/ CloserStep(k)
  BY <1>6, CloserLinkEffect, EffectKeepsLinks DEF Tasks
<1>7. ASSUME NEW s \in Senders, AcquireOp(s) \/ \E b \in Cmds : Call(s, b)
      PROVE  LinksKnown' /\ ClientSettled'
  <2>1. LinkEffect(s)
    BY <1>7 DEF AcquireOp, Call, Goto, linkVars, LinkEffect, LinkKept, MovesOnly, IInv, TypeOK,
                TasksOK, Tasks, Attached, InFlight
  <2>. QED  BY <2>1, EffectKeepsLinks DEF Tasks
<1>8. CASE \E s \in Senders : DeviceAnswers(s)
  BY <1>8 DEF DeviceAnswers, LinkInv, LinksKnown, ClientSettled
<1>9. CASE \E c \in Clients : DropLink(c)
  <2>1. PICK c \in Clients : DropLink(c)
    BY <1>9
  <2>2. links' = {} /\ client' = None
    BY <2>1, KnownLinks DEF DropLink, LinkLost, OnDisconnect
  <2>. QED  BY <2>2 DEF LinksKnown, ClientSettled
<1>10. CASE \E c \in Clients, b \in Cmds : Deliver(c, b)
  BY <1>10 DEF Deliver, LinkInv, LinksKnown, ClientSettled
<1>. QED
  BY <1>3, <1>4, <1>5, <1>6, <1>7, <1>8, <1>9, <1>10 DEF Next

LEMMA LinkInit == Init => LinkInv
BY DEF Init, LinkInv, ClientIsLive, LinksKnown, ClientSettled, Tasks

\* The invariant of the links: whatever the environment does, a link that is up is one that
\* self._client, or the task at work on it, knows of, as long as no step leaks one.
THEOREM LinksStayKnown == Spec /\ [][~Leaks]_vars => []LinkInv
BY LinkInit, LinkStep, Invariance, PTL DEF Spec

\* In every environment a second link needs a leak: neither reconnecting, nor the
\* inactivity timer, nor disconnect(), nor a cancellation elsewhere makes one.
THEOREM SecondLinkNeedsLeak == Spec /\ [][~Leaks]_vars => []OneLink
<1>1. IInv /\ LinkInv => OneLink
  BY KnownIsOne
<1>. QED  BY <1>1, Invariance, LinksStayKnown, PTL

\* A suspended task goes on by a step of its own.
LEMMA OwnStep ==
    ASSUME IInv, LinkInv, [Next]_vars, NEW t \in Tasks,
           pc[t] \notin {"idle", "armed"}, pc'[t] # pc[t]
    PROVE  \/ t \in Senders /\ (AcquireOp(t) \/ SenderAcquiresConn(t) \/ SenderStep(t)
                                  \/ Cancel(t))
           \/ t \in Idlers /\ (IdlerAcquiresConn(t) \/ IdlerStep(t))
           \/ t \in Closers /\ (CloserAcquiresConn(t) \/ CloserStep(t))
<1>1. TasksOK
  BY DEF IInv, TypeOK
<1>2. CASE \E s \in Senders : \/ \E b \in Cmds : Call(s, b)
                              \/ AcquireOp(s) \/ Cancel(s)
  <2>1. PICK s \in Senders : (\E b \in Cmds : Call(s, b)) \/ AcquireOp(s) \/ Cancel(s)
    BY <1>2
  <2>2. s = t
    BY <1>1, <2>1 DEF Call, AcquireOp, Cancel, EndCall, Goto, TasksOK
  <2>. QED  BY <2>1, <2>2 DEF Call
<1>3. CASE \E s \in Senders : SenderAcquiresConn(s) \/ SenderStep(s)
  <2>1. PICK s \in Senders : SenderAcquiresConn(s) \/ SenderStep(s)
    BY <1>3
  <2>2. SenderEffect(s)
    BY <2>1, SenderEffects DEF IInv
  <2>3. s = t
    BY <2>2 DEF SenderEffect
  <2>. QED  BY <2>1, <2>3
<1>4. CASE \E i \in Idlers : IdlerAcquiresConn(i) \/ IdlerStep(i)
  <2>1. PICK i \in Idlers : IdlerAcquiresConn(i) \/ IdlerStep(i)
    BY <1>4
  <2>2. i = t
    BY <2>1, IdlerLinkEffect DEF LinkEffect, MovesOnly
  <2>. QED  BY <2>1, <2>2
<1>5. CASE \E k \in Closers : Disconnect(k) \/ CloserAcquiresConn(k) \/ CloserStep(k)
  <2>1. PICK k \in Closers : Disconnect(k) \/ CloserAcquiresConn(k) \/ CloserStep(k)
    BY <1>5
  <2>2. k = t
    BY <2>1, CloserLinkEffect DEF LinkEffect, MovesOnly
  <2>. QED  BY <2>1, <2>2 DEF Disconnect
<1>6. CASE \/ UNCHANGED pc
           \/ \E s \in Senders : DeviceAnswers(s)
           \/ \E c \in Clients : DropLink(c)
           \/ \E c \in Clients, b \in Cmds : Deliver(c, b)
  BY <1>6 DEF DeviceAnswers, DropLink, Deliver
<1>. QED
  BY <1>2, <1>3, <1>4, <1>5, <1>6 DEF Next, vars

\* Where nothing is cancelled and no disconnect fails, nothing leaks: the sender in
\* cleanup or drop leaves it with the link closed.
LEMMA NoLeak ==
    ASSUME ~MayCancel, ~DisconnectMayFail, IInv, LinkInv, [Next]_vars PROVE [~Leaks]_vars
<1>. SUFFICES ASSUME NEW s \in Senders, pc[s] \in {"cleanup", "drop"}, pc'[s] # pc[s]
              PROVE  held[s] \notin links'
  BY DEF Leaks
<1>1. CleanupDone(s) \/ DropDone(s)
  <2>1. s \in Tasks /\ s \notin Idlers /\ s \notin Closers
    BY TasksAssumption DEF Tasks
  <2>2. AcquireOp(s) \/ SenderAcquiresConn(s) \/ SenderStep(s)
    BY <2>1, OwnStep DEF Cancel
  <2>. QED
    BY <2>2 DEF AcquireOp, SenderAcquiresConn, SenderStep, EnsureConnected, EstablishSucceeds,
         EstablishFails, SubscribeSucceeds, SubscribeFails, WriteSucceeds, WriteFails,
         ResponseReceived, ResponseTimeout, BackoffOver
<1>. QED  BY <1>1 DEF CleanupDone, DropDone, DisconnectSucceeds, LinkLost

\* The device has at most one link if no call is cancelled and disconnect() of Bleak
\* does not fail (_ensure_connected 774-847, _execute_disconnect 878, disconnect 1045).
THEOREM LinkIsUnique ==
    ASSUME ~MayCancel, ~DisconnectMayFail PROVE Spec => []OneLink
<1>1. IInv /\ LinkInv /\ [Next]_vars => LinkInv'
  BY NoLeak, LinkStep
<1>2. IInv /\ LinkInv => OneLink
  BY KnownIsOne
<1>. QED  BY <1>1, <1>2, LinkInit, Invariance, PTL DEF Spec

----------------------------------------------------------------------------
(* A live link is watched.                                                 *)

\* A task ends with the connection it works on still up: a cancelled call, or a
\* timer or disconnect() whose client.disconnect() raised (878-905, 1045-1062).
Forgets ==
    \E t \in Tasks :
        /\ pc[t] \in {"subscribe", "writing", "drop", "disc"} /\ pc'[t] = "idle"
        /\ held[t] \in links'

\* Some task is yet to close the client's connection or to arm its timer.
WatchedBy(t) ==
    IF t \in Senders THEN pc[t] \in {"subscribe", "writing", "drop"} ELSE pc[t] # "idle"

LEMMA WatchersAreTasks == ClientWatched <=> (client # None => \E t \in Tasks : WatchedBy(t))
BY TasksAssumption DEF ClientWatched, WatchedBy, Tasks

LEMMA SenderMovesAlone ==
    ASSUME TasksOK, NEW s \in Senders, SenderAcquiresConn(s) \/ SenderStep(s) \/ Cancel(s),
           ~ \E i \in Idlers : WriteSucceeds(s, i)
    PROVE  \A t \in Tasks \ {s} : pc'[t] = pc[t]
<1>. DEFINE OnlyS == \A t \in Tasks \ {s} : pc'[t] = pc[t]
<1>1. ASSUME NEW label, NEW c, Goto(s, label, c) PROVE OnlyS
  BY <1>1 DEF Goto, TasksOK
<1>2. ASSUME NEW c, BeginRequest(s, c) PROVE OnlyS
  BY <1>1, <1>2 DEF BeginRequest
<1>3. ASSUME NEW label, RetryOrFail(s, label) PROVE OnlyS
  BY <1>1, <1>3 DEF RetryOrFail, Return, EndCall
<1>4. ASSUME NEW c, FailAttempt(s, c) PROVE OnlyS
  BY <1>1, <1>3, <1>4 DEF FailAttempt
<1>5. ASSUME AbandonConnection(s) PROVE OnlyS
  BY <1>1, <1>4, <1>5 DEF AbandonConnection
<1>6. CASE EnsureConnected(s) \/ SenderAcquiresConn(s)
  BY <1>1, <1>2, <1>6 DEF EnsureConnected, SenderAcquiresConn
<1>7. CASE (\E c \in Clients : EstablishSucceeds(s, c)) \/ EstablishFails(s) \/ SubscribeFails(s)
  BY <1>1, <1>2, <1>5, <1>7 DEF EstablishSucceeds, EstablishFails, SubscribeFails
<1>8. CASE SubscribeSucceeds(s) \/ CleanupDone(s) \/ WriteFails(s)
  BY <1>2, <1>4, <1>8 DEF SubscribeSucceeds, CleanupDone, WriteFails
<1>9. CASE ResponseTimeout(s) \/ DropDone(s)
  BY <1>3, <1>9 DEF ResponseTimeout, DropDone
<1>10. CASE ResponseReceived(s) \/ BackoffOver(s) \/ Cancel(s)
  BY <1>1, <1>10 DEF ResponseReceived, BackoffOver, Cancel, Return, EndCall
<1>. QED  BY <1>6, <1>7, <1>8, <1>9, <1>10 DEF SenderStep

\* The step of a sender leaves a watched client watched, by the same task, by the
\* sender itself or by the timer it arms.
LEMMA SenderWatches ==
    ASSUME IInv, LinkInv, ClientWatched, ~Forgets, NEW s \in Senders, LinkEffect(s),
           SenderAcquiresConn(s) \/ SenderStep(s) \/ Cancel(s)
    PROVE  ClientWatched'
<1>. SUFFICES ASSUME client' # None PROVE \E t \in Tasks : WatchedBy(t)'
  BY WatchersAreTasks DEF ClientWatched, WatchedBy, Tasks
<1>1. s \in Tasks /\ s # None /\ TasksOK /\ Senders \cap Idlers = {}
  BY TasksAssumption DEF Tasks, IInv, TypeOK
<1>2. CASE LinkMade(s)
  BY <1>1, <1>2 DEF LinkMade, WatchedBy
<1>3. CASE LinkKept(s)
  <2>1. client' = client /\ links' = links /\ client \in links
    BY <1>3 DEF LinkKept, LinkInv, ClientIsLive
  <2>2. PICK t \in Tasks : WatchedBy(t)
    BY <2>1, WatchersAreTasks
  <2>3. CASE \E i \in Idlers : WriteSucceeds(s, i)
    <3>1. PICK i \in Idlers : WriteSucceeds(s, i)
      BY <2>3
    <3>2. i \in Tasks /\ pc'[i] = "armed" /\ i \notin Senders
      BY <1>1, <3>1, TasksAssumption DEF WriteSucceeds, ResetDisconnectTimer, TasksOK, Tasks,
                                         IInv, TypeOK, DeviceOK
    <3>. QED  BY <3>2 DEF WatchedBy
  <2>4. CASE ~ \E i \in Idlers : WriteSucceeds(s, i)
    <3>1. CASE t # s
      <4>1. pc'[t] = pc[t]
        BY <1>1, <2>4, <3>1, SenderMovesAlone
      <4>. QED  BY <3>1, <2>2, <4>1 DEF WatchedBy
    <3>2. CASE t = s
      <4>1. pc[s] \in {"subscribe", "writing", "drop"} /\ held[s] = client
        BY <2>1, <2>2, <3>2 DEF WatchedBy, LinkInv, ClientSettled, Attached, InFlight
      <4>2. pc'[s] # "idle"
        BY <1>1, <2>1, <4>1 DEF Forgets
      <4>3. \/ pc[s] = "subscribe" /\ SubscribeSucceeds(s)
            \/ pc[s] = "writing" /\ WriteFails(s)
            \/ pc[s] = "drop" /\ DropDone(s)
        <5>1. ~Cancel(s)
          BY <1>1, <4>2 DEF Cancel, EndCall, Goto, TasksOK
        <5>2. ~SubscribeFails(s)
          BY DEF SubscribeFails, AbandonConnection
        <5>. QED
          BY <2>4, <4>1, <5>1, <5>2
             DEF SenderAcquiresConn, SenderStep, EnsureConnected, EstablishSucceeds,
                 EstablishFails, SubscribeSucceeds, CleanupDone, WriteFails, ResponseReceived,
                 ResponseTimeout, DropDone, BackoffOver
      <4>4. CASE pc[s] = "subscribe"
        <5>1. SubscribeSucceeds(s)
          BY <4>3, <4>4
        <5>. QED
          BY <1>1, <5>1 DEF SubscribeSucceeds, BeginRequest, Goto, TasksOK, WatchedBy
      <4>5. CASE pc[s] = "writing"
        <5>1. WriteFails(s)
          BY <4>3, <4>5
        <5>. QED
          BY <1>1, <2>1, <5>1, FailMoves DEF WriteFails, WatchedBy
      <4>6. CASE pc[s] = "drop"
        <5>1. DropDone(s)
          BY <4>3, <4>6
        <5>. QED
          BY <5>1 DEF DropDone, OnDisconnect
      <4>. QED  BY <4>1, <4>4, <4>5, <4>6
    <3>. QED  BY <3>1, <3>2
  <2>. QED  BY <2>3, <2>4
<1>. QED  BY <1>2, <1>3 DEF LinkEffect, LinkClosed, LinkGivenUp

\* A task that has done with the client's connection has closed it.
LEMMA EndsClosed ==
    ASSUME LinkInv, ~Forgets, NEW t \in Tasks, pc[t] = "disc", pc'[t] = "idle",
           LinkKept(t) \/ LinkClosed
    PROVE  client' = None
BY DEF Forgets, LinkKept, LinkClosed, LinkInv, ClientSettled, ClientIsLive, Attached

LEMMA OthersWatch ==
    ASSUME IInv, LinkInv, ClientWatched, ~Forgets, NEW t \in Idlers \cup Closers, LinkEffect(t),
           \/ t \in Idlers /\ (IdlerAcquiresConn(t) \/ IdlerStep(t))
           \/ t \in Closers /\ (Disconnect(t) \/ CloserAcquiresConn(t) \/ CloserStep(t))
    PROVE  ClientWatched'
<1>1. t \in Tasks /\ t \notin Senders /\ TasksOK
  BY TasksAssumption DEF Tasks, IInv, TypeOK
<1>2. Connected <=> client # None
  BY DEF Connected, LinkInv, ClientIsLive
<1>. USE <1>1 DEF Goto, TasksOK, ClientWatched
<1>3. CASE TimerFires(t)
  BY <1>3 DEF TimerFires
<1>4. CASE IdlerAcquiresConn(t)
  BY <1>2, <1>4 DEF IdlerAcquiresConn
<1>5. CASE IdleDisconnectDone(t) \/ DisconnectDone(t)
  <2>1. pc[t] = "disc" /\ pc'[t] = "idle"
    BY <1>5 DEF IdleDisconnectDone, DisconnectDone
  <2>2. client' = None
    BY <2>1, EndsClosed DEF LinkEffect, LinkGivenUp, LinkMade
  <2>. QED  BY <2>2
<1>6. CASE t \in Closers /\ Disconnect(t)
  <2>1. pc'[t] = "wantConn"
    BY <1>6, TasksAssumption DEF Disconnect, IInv, TypeOK, DeviceOK, Tasks
  <2>. QED  BY <2>1
<1>7. CASE CloserAcquiresConn(t)
  BY <1>2, <1>7 DEF CloserAcquiresConn
<1>8. CASE NotificationsStopped(t)
  BY <1>8 DEF NotificationsStopped
<1>. QED
  BY <1>3, <1>4, <1>5, <1>6, <1>7, <1>8 DEF IdlerStep, CloserStep

LEMMA WatchStep ==
    IInv /\ LinkInv /\ ClientWatched /\ [Next]_vars /\ [~Leaks]_vars /\ [~Forgets]_vars
      => ClientWatched'
<1>. SUFFICES ASSUME IInv, LinkInv, ClientWatched, [Next]_vars, [~Leaks]_vars, [~Forgets]_vars
              PROVE  ClientWatched'
  OBVIOUS
<1>1. CASE UNCHANGED vars
  BY <1>1 DEF vars, ClientWatched
<1>2. CASE ~Leaks /\ ~Forgets
           /\ \E s \in Senders : SenderAcquiresConn(s) \/ SenderStep(s) \/ Cancel(s)
  BY <1>2, SenderLinkEffect, SenderWatches
<1>3. CASE ~Forgets /\ \E i \in Idlers : IdlerAcquiresConn(i) \/ IdlerStep(i)
  BY <1>3, IdlerLinkEffect, OthersWatch
<1>4. CASE ~Forgets
           /\ \E k \in Closers : Disconnect(k) \/ CloserAcquiresConn(k) \/ CloserStep(k)
  BY <1>4, CloserLinkEffect, OthersWatch
<1>5. CASE \E s \in Senders : AcquireOp(s) \/ \E b \in Cmds : Call(s, b)
  BY <1>5, TasksAssumption
     DEF AcquireOp, Call, Goto, ClientWatched, IInv, TypeOK, TasksOK, Tasks
<1>6. CASE \E s \in Senders : DeviceAnswers(s)
  BY <1>6 DEF DeviceAnswers, ClientWatched
<1>7. CASE \E c \in Clients : DropLink(c)
  BY <1>7 DEF DropLink, OnDisconnect, ClientWatched
<1>8. CASE \E c \in Clients, b \in Cmds : Deliver(c, b)
  BY <1>8 DEF Deliver, ClientWatched
<1>. QED
  BY <1>1, <1>2, <1>3, <1>4, <1>5, <1>6, <1>7, <1>8 DEF Next

LEMMA WatchedWhenQuiet ==
    ASSUME IInv, LinkInv, ClientWatched PROVE LinkIsWatched
<1>. SUFFICES ASSUME Quiet, NEW c \in links PROVE \E t \in Idlers \cup Closers : pc[t] # "idle"
  BY DEF LinkIsWatched
<1>1. c = client /\ c # None
  BY TasksAssumption DEF Quiet, LinkInv, LinksKnown, IInv, TypeOK, LinksOK
<1>. QED  BY <1>1 DEF ClientWatched, Quiet

LEMMA WatchInit == Init => ClientWatched
BY DEF Init, ClientWatched

\* In every environment a connection that stays up unattended was leaked or
\* forgotten by a cancelled call or a failing disconnect.
THEOREM UnwatchedLinkNeedsFault ==
    Spec /\ [][~Leaks]_vars /\ [][~Forgets]_vars => []LinkIsWatched
<1>1. IInv /\ LinkInv /\ ClientWatched => LinkIsWatched
  BY WatchedWhenQuiet
<1>. QED  BY <1>1, WatchInit, WatchStep, Invariance, LinksStayKnown, PTL DEF Spec

\* A sender that ends at one of these labels had lost its connection before.
LEMMA NoClientNoLink ==
    ASSUME IInv, LinkInv, client = None, NEW s \in Senders,
           pc[s] \in InOperation \ {"cleanup"}
    PROVE  links = {}
<1>1. \A t \in Senders : pc[t] # "cleanup"
  BY Alone DEF InOperation, SenderLabels
<1>. QED  BY <1>1, TasksAssumption DEF LinkInv, LinksKnown, IInv, TypeOK, LinksOK

LEMMA NothingForgotten ==
    ASSUME ~MayCancel, ~DisconnectMayFail, IInv, LinkInv, [Next]_vars PROVE [~Forgets]_vars
<1>. SUFFICES ASSUME NEW t \in Tasks, pc[t] \in {"subscribe", "writing", "drop", "disc"},
                     pc'[t] = "idle"
              PROVE  held[t] \notin links'
  BY DEF Forgets
<1>1. \/ t \in Senders /\ (AcquireOp(t) \/ SenderAcquiresConn(t) \/ SenderStep(t))
      \/ t \in Idlers /\ (IdlerAcquiresConn(t) \/ IdlerStep(t))
      \/ t \in Closers /\ (CloserAcquiresConn(t) \/ CloserStep(t))
  BY OwnStep DEF Cancel
<1>2. CASE t \in Senders
  <2>1. SubscribeSucceeds(t) \/ SubscribeFails(t) \/ WriteFails(t) \/ DropDone(t)
    <3>1. AcquireOp(t) \/ SenderAcquiresConn(t) \/ SenderStep(t)
      BY <1>1, <1>2, TasksAssumption
    <3>2. ~ \E i \in Idlers : WriteSucceeds(t, i)
      BY <1>2, TasksAssumption DEF WriteSucceeds, ResetDisconnectTimer, IInv, TypeOK, TasksOK,
                                   DeviceOK, Tasks
    <3>3. pc[t] # "disc"
      BY <1>2 DEF IInv, TypeOK, TasksOK, SenderLabels
    <3>. QED
      BY <3>1, <3>2, <3>3 DEF AcquireOp, SenderAcquiresConn, SenderStep, EnsureConnected,
           EstablishSucceeds, EstablishFails, CleanupDone, ResponseReceived, ResponseTimeout,
           BackoffOver
  <2>2. CASE DropDone(t)
    BY <2>2 DEF DropDone, LinkLost
  <2>3. CASE SubscribeSucceeds(t) \/ WriteFails(t)
    <3>1. client = None
      BY <1>2, <2>3, FailMoves
         DEF SubscribeSucceeds, WriteFails, BeginRequest, Goto, IInv, TypeOK, TasksOK
    <3>2. links = {}
      BY <1>2, <3>1, NoClientNoLink DEF InOperation, SenderLabels, IInv, TypeOK, TasksOK
    <3>. QED  BY <2>3, <3>2 DEF SubscribeSucceeds, WriteFails, linkVars
  <2>4. CASE SubscribeFails(t)
    <3>1. ~Connected
      BY <2>4 DEF SubscribeFails, AbandonConnection, Goto, IInv, TypeOK, TasksOK
    <3>2. client = None
      BY <3>1 DEF Connected, LinkInv, ClientIsLive
    <3>3. links = {}
      BY <1>2, <3>2, NoClientNoLink DEF InOperation, SenderLabels, IInv, TypeOK, TasksOK
    <3>. QED  BY <2>4, <3>3 DEF SubscribeFails, AbandonConnection, linkVars
  <2>. QED  BY <2>1, <2>2, <2>3, <2>4
<1>3. CASE t \in Idlers
  <2>1. IdleDisconnectDone(t)
    BY <1>1, <1>3, TasksAssumption
       DEF IdlerAcquiresConn, IdlerStep, TimerFires, IInv, TypeOK, TasksOK, IdlerLabels
  <2>. QED  BY <2>1 DEF IdleDisconnectDone, DisconnectSucceeds, LinkLost
<1>4. CASE t \in Closers
  <2>1. DisconnectDone(t)
    BY <1>1, <1>4, TasksAssumption
       DEF CloserAcquiresConn, CloserStep, NotificationsStopped, IInv, TypeOK, TasksOK,
           CloserLabels
  <2>. QED  BY <2>1 DEF DisconnectDone, LinkLost
<1>. QED  BY <1>2, <1>3, <1>4 DEF Tasks

\* No connection is forgotten while it is up if no call is cancelled and
\* client.disconnect() does not fail (_reset_disconnect_timer 849-876).
THEOREM LinksAreWatched ==
    ASSUME ~MayCancel, ~DisconnectMayFail PROVE Spec => []LinkIsWatched
<1>1. IInv /\ LinkInv /\ [Next]_vars => [~Leaks]_vars /\ [~Forgets]_vars
  BY NoLeak, NothingForgotten
<1>2. IInv /\ LinkInv /\ ClientWatched => LinkIsWatched
  BY WatchedWhenQuiet
<1>. QED
  BY <1>1, <1>2, LinkInit, LinkStep, WatchInit, WatchStep, Invariance, PTL DEF Spec

----------------------------------------------------------------------------
(* Answers can be heard.                                                   *)

\* A connection is left up without its subscription: the subscribing call is cancelled
\* or disconnect() fails after it unsubscribed.  Or the flag is set for a connection
\* that was lost before start_notify returned (816, 1049-1062).
Deafens ==
    \/ \E t \in Senders \cup Closers :
         /\ pc[t] \in {"subscribe", "disc"} /\ pc'[t] = "idle"
         /\ held[t] \in links'
    \/ \E s \in Senders : pc[s] = "subscribe" /\ held[s] \notin links /\ started'

\* Steps that leave client, flag and subscription alone, of a task that is not in the
\* middle of changing them.
LEMMA HeardFrame ==
    ASSUME LinksHeard, NEW a \in Tasks, MovesOnly(a), UNCHANGED <<client, started, notifying>>,
           a \in Senders => pc[a] # "subscribe",
           a \in Closers => pc[a] # "disc" /\ (pc'[a] = "disc" => ~started)
    PROVE  LinksHeard'
BY TasksAssumption DEF LinksHeard, MovesOnly, Tasks

\* Steps after which there is no client.
LEMMA HeardClosed ==
    ASSUME client' = None, ~started' PROVE LinksHeard'
BY DEF LinksHeard

LEMMA DisconnectHeard ==
    ASSUME IInv, LinkInv, LinksHeard, NEW t \in Senders \cup Idlers, MovesOnly(t),
           pc[t] \in {"cleanup", "disc"}, DisconnectSucceeds(t)
    PROVE  LinksHeard'
<1>1. CASE held[t] \in links
  BY <1>1, HeardClosed DEF DisconnectSucceeds, OnDisconnect
<1>2. CASE held[t] \notin links
  BY <1>2, TasksAssumption
     DEF DisconnectSucceeds, LinkLost, LinksHeard, MovesOnly, Tasks, LinkInv, ClientIsLive
<1>. QED  BY <1>1, <1>2

LEMMA SenderHears ==
    ASSUME IInv, LinkInv, LinksHeard, ~Deafens, NEW s \in Senders, LinkEffect(s),
           SenderAcquiresConn(s) \/ SenderStep(s) \/ Cancel(s)
    PROVE  LinksHeard'
<1>1. s \in Tasks /\ s \notin Closers /\ s \notin Idlers /\ TasksOK /\ MovesOnly(s)
  BY TasksAssumption DEF Tasks, IInv, TypeOK, LinkEffect
<1>. USE <1>1 DEF linkVars
<1>2. CASE EnsureConnected(s) \/ SenderAcquiresConn(s) \/ WriteFails(s) \/ BackoffOver(s)
  BY <1>2, HeardFrame DEF EnsureConnected, SenderAcquiresConn, WriteFails, BackoffOver
<1>3. CASE ResponseReceived(s) \/ ResponseTimeout(s) \/ \E i \in Idlers : WriteSucceeds(s, i)
  BY <1>3, HeardFrame DEF ResponseReceived, ResponseTimeout, WriteSucceeds
<1>4. CASE \E c \in Clients : EstablishSucceeds(s, c)
  <2>1. ~started
    BY <1>4 DEF EstablishSucceeds, LinkInv, ClientSettled, LinksHeard
  <2>. QED
    BY <1>4, <2>1, TasksAssumption DEF EstablishSucceeds, Goto, TasksOK, LinksHeard
<1>5. CASE EstablishFails(s) \/ SubscribeFails(s)
  BY <1>5, HeardClosed DEF EstablishFails, SubscribeFails, AbandonConnection
<1>6. CASE SubscribeSucceeds(s)
  <2>1. pc[s] = "subscribe" /\ held[s] \in links /\ started' /\ client' = client
    BY <1>6 DEF SubscribeSucceeds, Deafens
  <2>2. client = held[s] /\ client # None
    <3>1. \A t \in Senders : pc[t] # "cleanup"
      BY <2>1, Alone DEF InOperation, SenderLabels
    <3>. QED
      BY <2>1, <3>1, TasksAssumption DEF LinkInv, LinksKnown, IInv, TypeOK, LinksOK
  <2>3. client' \in notifying'
    BY <1>6, <2>1, <2>2 DEF SubscribeSucceeds
  <2>4. \A k \in Closers : pc'[k] # "disc"
    BY <2>1, Alone, TasksAssumption DEF InConnection, MovesOnly, Tasks
  <2>. QED  BY <2>1, <2>2, <2>3, <2>4 DEF LinksHeard
<1>7. CASE CleanupDone(s)
  BY <1>7, DisconnectHeard, HeardFrame DEF CleanupDone
<1>8. CASE DropDone(s)
  BY <1>8, HeardClosed DEF DropDone, OnDisconnect
<1>9. CASE Cancel(s)
  <2>1. UNCHANGED <<client, started, links, notifying>> /\ pc'[s] = "idle"
    BY <1>9 DEF Cancel, EndCall, Goto, TasksOK
  <2>2. CASE pc[s] = "subscribe"
    <3>1. client = None
      BY <2>1, <2>2 DEF Deafens, LinkInv, ClientSettled, ClientIsLive, Attached
    <3>. QED  BY <2>1, <3>1, HeardClosed DEF LinksHeard
  <2>3. CASE pc[s] # "subscribe"
    BY <2>1, <2>3, HeardFrame
  <2>. QED  BY <2>2, <2>3
<1>. QED
  BY <1>2, <1>3, <1>4, <1>5, <1>6, <1>7, <1>8, <1>9 DEF SenderStep

LEMMA OthersHear ==
    ASSUME IInv, LinkInv, LinksHeard, ~Deafens, NEW t \in Idlers \cup Closers, LinkEffect(t),
           \/ t \in Idlers /\ (IdlerAcquiresConn(t) \/ IdlerStep(t))
           \/ t \in Closers /\ (Disconnect(t) \/ CloserAcquiresConn(t) \/ CloserStep(t))
    PROVE  LinksHeard'
<1>1. t \in Tasks /\ t \notin Senders /\ TasksOK /\ MovesOnly(t)
  BY TasksAssumption DEF Tasks, IInv, TypeOK, LinkEffect
<1>2. Connected <=> client # None
  BY DEF Connected, LinkInv, ClientIsLive
<1>. USE <1>1 DEF linkVars
<1>3. CASE t \in Idlers /\ (TimerFires(t) \/ IdlerAcquiresConn(t))
  BY <1>3, HeardFrame, TasksAssumption DEF TimerFires, IdlerAcquiresConn
<1>4. CASE t \in Idlers /\ IdleDisconnectDone(t)
  BY <1>4, DisconnectHeard, HeardFrame, TasksAssumption DEF IdleDisconnectDone
<1>5. CASE t \in Closers /\ Disconnect(t)
  <2>1. pc'[t] = "wantConn"
    BY <1>5, TasksAssumption DEF Disconnect, IInv, TypeOK, DeviceOK, TasksOK, Tasks
  <2>. QED  BY <1>5, <2>1, HeardFrame DEF Disconnect
<1>6. CASE CloserAcquiresConn(t)
  <2>1. CASE Connected
    BY <1>6, <2>1, HeardFrame DEF CloserAcquiresConn, Goto, TasksOK
  <2>2. CASE ~Connected
    BY <1>2, <1>6, <2>2, HeardClosed DEF CloserAcquiresConn, LinksHeard
  <2>. QED  BY <2>1, <2>2
<1>7. CASE t \in Closers /\ NotificationsStopped(t)
  BY <1>7, TasksAssumption DEF NotificationsStopped, Goto, TasksOK, LinksHeard
<1>8. CASE t \in Closers /\ DisconnectDone(t)
  <2>1. pc[t] = "disc" /\ pc'[t] = "idle" /\ started = FALSE /\ started' = FALSE
    <3>1. pc[t] = "disc" /\ pc'[t] = "idle"
      BY <1>8 DEF DisconnectDone, Goto, TasksOK
    <3>2. started = FALSE
      BY <1>8, <3>1 DEF LinksHeard, IInv, TypeOK, DeviceOK
    <3>. QED  BY <1>8, <3>1, <3>2 DEF DisconnectDone
  <2>2. client' = None
    BY <1>8, <2>1 DEF DisconnectDone, Deafens, LinkInv, ClientSettled, ClientIsLive, Attached
  <2>. QED  BY <2>1, <2>2, HeardClosed
<1>. QED
  BY <1>3, <1>4, <1>5, <1>6, <1>7, <1>8, TasksAssumption DEF IdlerStep, CloserStep

LEMMA HearStep ==
    IInv /\ LinkInv /\ LinksHeard /\ [Next]_vars /\ [~Leaks]_vars /\ [~Deafens]_vars
      => LinksHeard'
<1>. SUFFICES ASSUME IInv, LinkInv, LinksHeard, [Next]_vars, [~Leaks]_vars, [~Deafens]_vars
              PROVE  LinksHeard'
  OBVIOUS
<1>1. CASE UNCHANGED vars
  BY <1>1 DEF vars, LinksHeard
<1>2. CASE ~Leaks /\ ~Deafens
           /\ \E s \in Senders : SenderAcquiresConn(s) \/ SenderStep(s) \/ Cancel(s)
  BY <1>2, SenderLinkEffect, SenderHears
<1>3. CASE ~Deafens /\ \E i \in Idlers : IdlerAcquiresConn(i) \/ IdlerStep(i)
  BY <1>3, IdlerLinkEffect, OthersHear
<1>4. CASE ~Deafens
           /\ \E k \in Closers : Disconnect(k) \/ CloserAcquiresConn(k) \/ CloserStep(k)
  BY <1>4, CloserLinkEffect, OthersHear
<1>5. ASSUME NEW s \in Senders, AcquireOp(s) \/ \E b \in Cmds : Call(s, b)
      PROVE  LinksHeard'
  <2>1. s \in Tasks /\ s \notin Closers /\ MovesOnly(s) /\ pc[s] # "subscribe"
        /\ UNCHANGED <<client, started, notifying>>
    BY <1>5, TasksAssumption
       DEF AcquireOp, Call, Goto, MovesOnly, linkVars, IInv, TypeOK, TasksOK, Tasks
  <2>. QED  BY <2>1, HeardFrame
<1>6. CASE \E s \in Senders : DeviceAnswers(s)
  BY <1>6 DEF DeviceAnswers, LinksHeard
<1>7. CASE \E c \in Clients : DropLink(c)
  BY <1>7, HeardClosed DEF DropLink, OnDisconnect
<1>8. CASE \E c \in Clients, b \in Cmds : Deliver(c, b)
  BY <1>8 DEF Deliver, LinksHeard
<1>. QED
  BY <1>1, <1>2, <1>3, <1>4, <1>5, <1>6, <1>7, <1>8 DEF Next

LEMMA HeardWhileWaiting ==
    ASSUME IInv, LinkInv, LinksHeard PROVE ListensWhileWaiting
<1>. SUFFICES ASSUME NEW s \in Senders, pc[s] \in InFlight, held[s] \in links
              PROVE  held[s] \in notifying \/ \E k \in Closers : pc[k] = "disc"
  BY DEF ListensWhileWaiting
<1>1. \A t \in Senders : pc[t] \notin {"cleanup", "subscribe"}
  BY Alone DEF InOperation, InFlight, SenderLabels
<1>2. client = held[s] /\ client # None
  BY <1>1, TasksAssumption DEF LinkInv, LinksKnown, IInv, TypeOK, LinksOK
<1>. QED  BY <1>1, <1>2 DEF LinksHeard

LEMMA HeardInit == Init => LinksHeard
BY TasksAssumption DEF Init, LinksHeard, Tasks

\* In every environment a request waits on a deaf connection only after a leak, a
\* cancelled subscription, a failed disconnect() or a late acknowledgement.
THEOREM DeafLinkNeedsFault ==
    Spec /\ [][~Leaks]_vars /\ [][~Deafens]_vars => []ListensWhileWaiting
<1>1. IInv /\ LinkInv /\ LinksHeard => ListensWhileWaiting
  BY HeardWhileWaiting
<1>. QED  BY <1>1, HeardInit, HearStep, Invariance, LinksStayKnown, PTL DEF Spec

\* Only the end of a subscription sets the flag.
LEMMA FlagIsSet ==
    ASSUME started = FALSE, started' # FALSE, [Next]_vars
    PROVE  \E s \in Senders : SubscribeSucceeds(s)
<1>1. ASSUME NEW s \in Senders,
             \/ \E b \in Cmds : Call(s, b)
             \/ AcquireOp(s) \/ SenderAcquiresConn(s) \/ SenderStep(s) \/ Cancel(s)
               \/ DeviceAnswers(s)
      PROVE  SubscribeSucceeds(s)
  <2>1. ~AbandonConnection(s) /\ ~CleanupDone(s) /\ ~DropDone(s)
    BY DEF AbandonConnection, CleanupDone, DisconnectSucceeds, OnDisconnect, DropDone
  <2>. QED
    BY <1>1, <2>1 DEF Call, AcquireOp, SenderAcquiresConn, SenderStep, Cancel, DeviceAnswers,
         EnsureConnected, EstablishSucceeds, EstablishFails, SubscribeFails, WriteSucceeds,
         WriteFails, ResponseReceived, ResponseTimeout, BackoffOver
<1>2. ASSUME NEW i \in Idlers PROVE ~IdlerAcquiresConn(i) /\ ~IdlerStep(i)
  BY DEF IdlerAcquiresConn, IdlerStep, TimerFires, IdleDisconnectDone, DisconnectSucceeds,
         OnDisconnect
<1>3. ASSUME NEW k \in Closers
      PROVE  ~Disconnect(k) /\ ~CloserAcquiresConn(k) /\ ~CloserStep(k)
  BY DEF Disconnect, CloserAcquiresConn, CloserStep, NotificationsStopped, DisconnectDone
<1>4. ASSUME NEW c \in Clients, NEW b PROVE ~DropLink(c) /\ ~Deliver(c, b)
  BY DEF DropLink, OnDisconnect, Deliver
<1>5. ~UNCHANGED vars
  BY DEF vars
<1>. QED  BY <1>1, <1>2, <1>3, <1>4, <1>5 DEF Next

LEMMA NothingDeafened ==
    ASSUME ~MayCancel, ~DisconnectMayFail, ~LateSubscribeAck,
           IInv, LinkInv, LinksHeard, [Next]_vars
    PROVE  [~Deafens]_vars
<1>. SUFFICES ASSUME Deafens, ~UNCHANGED vars PROVE FALSE
  OBVIOUS
<1>1. ASSUME NEW t \in Senders \cup Closers, pc[t] \in {"subscribe", "disc"}, pc'[t] = "idle",
             held[t] \in links'
      PROVE  FALSE
  <2>1. t \in Tasks
    BY DEF Tasks
  <2>2. Forgets
    BY <1>1, <2>1 DEF Forgets
  <2>. QED  BY <2>2, NothingForgotten
<1>2. ASSUME NEW s \in Senders, pc[s] = "subscribe", held[s] \notin links, started'
      PROVE  FALSE
  <2>1. s \in Tasks /\ client = None /\ started = FALSE
    BY <1>2 DEF Tasks, LinkInv, ClientSettled, ClientIsLive, Attached, LinksHeard, IInv, TypeOK,
                DeviceOK
  <2>2. PICK t \in Senders : SubscribeSucceeds(t)
    BY <1>2, <2>1, FlagIsSet
  <2>3. t = s
    BY <1>2, <2>2, Alone DEF SubscribeSucceeds, InOperation, SenderLabels
  <2>. QED  BY <1>2, <2>2, <2>3 DEF SubscribeSucceeds
<1>. QED  BY <1>1, <1>2 DEF Deafens

\* A request on a live connection can hear its answer if nothing is cancelled, no
\* disconnect fails and start_notify does not return for a link that is gone (811-822).
THEOREM RequestsAreHeard ==
    ASSUME ~MayCancel, ~DisconnectMayFail, ~LateSubscribeAck
    PROVE  Spec => []ListensWhileWaiting
<1>1. IInv /\ LinkInv /\ LinksHeard /\ [Next]_vars => [~Leaks]_vars /\ [~Deafens]_vars
  BY NoLeak, NothingDeafened
<1>2. IInv /\ LinkInv /\ LinksHeard => ListensWhileWaiting
  BY HeardWhileWaiting
<1>. QED
  BY <1>1, <1>2, LinkInit, LinkStep, HeardInit, HearStep, Invariance, PTL DEF Spec

----------------------------------------------------------------------------
(* A call goes towards its end.  Each label of a sender has its place in an *)
(* attempt; within an attempt the places only fall, and an attempt that is  *)
(* over costs more than the places of the next one give back.               *)

\* The one sender that moves inside the operation goes on towards the end.
Nearer(s) == pc'[s] = "idle" \/ StepsLeft(s)' < StepsLeft(s)

LEMMA PlaceBounds ==
    ASSUME NEW label
    PROVE  /\ Place(label) \in Nat /\ Place(label) <= 8
           /\ label \in InOperation => Place(label) > 0
BY DEF Place, InOperation, SenderLabels

\* A move within the attempt.
LEMMA GotoNearer ==
    ASSUME TasksOK, CallsOK, NEW s \in Senders, NEW label, NEW c, Goto(s, label, c),
           attempt' = attempt, Place(label) < Place(pc[s])
    PROVE  Nearer(s)
<1>1. s \in Tasks
  BY DEF Tasks
<1>2. pc'[s] = label
  BY <1>1 DEF Goto, TasksOK
<1>3. attempt[s] \in Int /\ attempt'[s] = attempt[s] /\ Retry \in Int
  BY RetryAssumption DEF CallsOK
<1>4. Place(label) \in Nat /\ Place(pc[s]) \in Nat
  BY PlaceBounds
<1>. QED
  <2>. DEFINE k == (Retry - attempt[s]) * 9
  <2>1. k \in Int
    BY <1>3
  <2>2. StepsLeft(s)' = k + Place(label) /\ StepsLeft(s) = k + Place(pc[s])
    BY <1>2, <1>3 DEF StepsLeft
  <2>. HIDE DEF k
  <2>. QED  BY <1>4, <2>1, <2>2 DEF Nearer

\* The end of the attempt.
LEMMA RetryNearer ==
    ASSUME TasksOK, CallsOK, NEW s \in Senders, NEW label, RetryOrFail(s, label),
           pc[s] \in InOperation
    PROVE  Nearer(s)
<1>1. s \in Tasks
  BY DEF Tasks
<1>2. CASE attempt[s] < Retry
  <2>1. pc'[s] = label /\ attempt'[s] = attempt[s] + 1
    BY <1>1, <1>2 DEF RetryOrFail, Goto, TasksOK, CallsOK
  <2>2. attempt[s] \in Int /\ Retry \in Int
    BY RetryAssumption DEF CallsOK
  <2>3. /\ Place(label) \in Nat /\ Place(label) <= 8
        /\ Place(pc[s]) \in Nat /\ Place(pc[s]) > 0
    BY PlaceBounds
  <2>4. /\ StepsLeft(s)' = (Retry - (attempt[s] + 1)) * 9 + Place(label)
        /\ StepsLeft(s) = (Retry - attempt[s]) * 9 + Place(pc[s])
    BY <2>1 DEF StepsLeft
  <2>5. (Retry - (attempt[s] + 1)) * 9 = (Retry - attempt[s]) * 9 - 9
    BY <2>2
  <2>. DEFINE k == (Retry - attempt[s]) * 9
  <2>6. k \in Int
    BY <2>2
  <2>7. StepsLeft(s)' = k - 9 + Place(label) /\ StepsLeft(s) = k + Place(pc[s])
    BY <2>4, <2>5
  <2>. HIDE DEF k
  <2>. QED  BY <2>3, <2>6, <2>7 DEF Nearer
<1>3. CASE ~(attempt[s] < Retry)
  BY <1>1, <1>3 DEF RetryOrFail, Return, EndCall, Goto, TasksOK, Nearer
<1>. QED  BY <1>2, <1>3

LEMMA FailNearer ==
    ASSUME TasksOK, CallsOK, NEW s \in Senders, NEW cur, FailAttempt(s, cur),
           pc[s] \in {"establish", "subscribe", "cleanup", "writing"}
    PROVE  Nearer(s)
<1>1. CASE cur # None
  <2>1. Place("drop") < Place(pc[s])
    BY DEF Place
  <2>2. Goto(s, "drop", cur) /\ attempt' = attempt
    BY <1>1 DEF FailAttempt, callVars
  <2>. QED  BY <2>1, <2>2, GotoNearer
<1>2. CASE cur = None
  <2>1. RetryOrFail(s, "backoff") /\ pc[s] \in InOperation
    BY <1>2 DEF FailAttempt, InOperation, SenderLabels
  <2>. QED  BY <2>1, RetryNearer
<1>. QED  BY <1>1, <1>2

LEMMA BeginNearer ==
    ASSUME TasksOK, CallsOK, NEW s \in Senders, NEW c, BeginRequest(s, c),
           pc[s] \in {"attempt", "wantConn", "establish", "subscribe"}
    PROVE  Nearer(s)
<1>1. Place("writing") < Place(pc[s])
  BY DEF Place
<1>2. Goto(s, "writing", c) /\ attempt' = attempt
  BY DEF BeginRequest, callVars
<1>. QED  BY <1>1, <1>2, GotoNearer

LEMMA AbandonNearer ==
    ASSUME TasksOK, CallsOK, NEW s \in Senders, AbandonConnection(s),
           pc[s] \in {"establish", "subscribe"}
    PROVE  Nearer(s)
<1>1. CASE Connected
  <2>1. Place("cleanup") < Place(pc[s])
    BY DEF Place
  <2>2. Goto(s, "cleanup", client) /\ attempt' = attempt
    BY <1>1 DEF AbandonConnection, callVars
  <2>. QED  BY <2>1, <2>2, GotoNearer
<1>2. CASE ~Connected
  BY <1>2, FailNearer DEF AbandonConnection
<1>. QED  BY <1>1, <1>2

LEMMA OwnStepNearer ==
    ASSUME IInv, NEW s \in Senders, SenderAcquiresConn(s) \/ SenderStep(s)
    PROVE  Nearer(s)
<1>1. TasksOK /\ CallsOK /\ s \in Tasks
  BY DEF IInv, TypeOK, Tasks
<1>2. CASE EnsureConnected(s)
  <2>1. CASE Connected
    BY <1>1, <1>2, <2>1, BeginNearer DEF EnsureConnected
  <2>2. CASE ~Connected
    <3>1. Goto(s, "wantConn", None) /\ attempt' = attempt /\ pc[s] = "attempt"
      BY <1>2, <2>2 DEF EnsureConnected, callVars
    <3>2. Place("wantConn") < Place(pc[s])
      BY <3>1 DEF Place
    <3>. QED  BY <1>1, <3>1, <3>2, GotoNearer
  <2>. QED  BY <2>1, <2>2
<1>3. CASE SenderAcquiresConn(s)
  <2>1. CASE Connected
    BY <1>1, <1>3, <2>1, BeginNearer DEF SenderAcquiresConn
  <2>2. CASE ~Connected
    <3>1. Goto(s, "establish", None) /\ attempt' = attempt /\ pc[s] = "wantConn"
      BY <1>3, <2>2 DEF SenderAcquiresConn, callVars
    <3>2. Place("establish") < Place(pc[s])
      BY <3>1 DEF Place
    <3>. QED  BY <1>1, <3>1, <3>2, GotoNearer
  <2>. QED  BY <2>1, <2>2
<1>4. ASSUME NEW c \in Clients, EstablishSucceeds(s, c) PROVE Nearer(s)
  <2>1. CASE started
    BY <1>1, <1>4, <2>1, BeginNearer DEF EstablishSucceeds
  <2>2. CASE ~started
    <3>1. Goto(s, "subscribe", c) /\ attempt' = attempt /\ pc[s] = "establish"
      BY <1>4, <2>2 DEF EstablishSucceeds, callVars
    <3>2. Place("subscribe") < Place(pc[s])
      BY <3>1 DEF Place
    <3>. QED  BY <1>1, <3>1, <3>2, GotoNearer
  <2>. QED  BY <2>1, <2>2
<1>5. CASE EstablishFails(s) \/ SubscribeFails(s)
  BY <1>1, <1>5, AbandonNearer DEF EstablishFails, SubscribeFails
<1>6. CASE SubscribeSucceeds(s)
  BY <1>1, <1>6, BeginNearer, FailNearer DEF SubscribeSucceeds
<1>7. CASE CleanupDone(s)
  BY <1>1, <1>7, FailNearer DEF CleanupDone
<1>8. ASSUME NEW i \in Idlers, WriteSucceeds(s, i) PROVE Nearer(s)
  <2>1. pc[s] = "writing" /\ attempt' = attempt
    BY <1>8 DEF WriteSucceeds, callVars
  <2>2. pc'[s] = "waiting"
    <3>1. /\ s # i /\ (timer # None => s # timer)
          /\ pc \in [Tasks -> SenderLabels \cup IdlerLabels \cup CloserLabels]
      BY TasksAssumption DEF IInv, TypeOK, TasksOK, DeviceOK
    <3>. DEFINE live == [pc EXCEPT ![s] = "waiting"]
                cancelled == IF timer # None /\ pc[timer] = "armed"
                               THEN [live EXCEPT ![timer] = "idle"] ELSE live
    <3>2. cancelled[s] = "waiting" /\ DOMAIN cancelled = Tasks
      BY <1>1, <3>1
    <3>3. pc' = [cancelled EXCEPT ![i] = "armed"]
      BY <1>8 DEF WriteSucceeds, ResetDisconnectTimer
    <3>. HIDE DEF cancelled
    <3>. QED  BY <1>1, <3>1, <3>2, <3>3
  <2>3. attempt[s] \in Int /\ Retry \in Int
    BY <1>1, RetryAssumption DEF CallsOK
  <2>4. StepsLeft(s)' = (Retry - attempt[s]) * 9 + 2 /\ StepsLeft(s) = (Retry - attempt[s]) * 9 + 3
    BY <2>1, <2>2 DEF StepsLeft, Place
  <2>. DEFINE k == (Retry - attempt[s]) * 9
  <2>5. k \in Int /\ StepsLeft(s)' = k + 2 /\ StepsLeft(s) = k + 3
    BY <2>3, <2>4
  <2>. HIDE DEF k
  <2>. QED  BY <2>5 DEF Nearer
<1>9. CASE WriteFails(s)
  BY <1>1, <1>9, FailNearer DEF WriteFails
<1>10. CASE ResponseReceived(s)
  BY <1>1, <1>10 DEF ResponseReceived, Return, EndCall, Goto, TasksOK, Nearer
<1>11. CASE ResponseTimeout(s) \/ DropDone(s)
  <2>1. pc[s] \in InOperation
    BY <1>11 DEF ResponseTimeout, DropDone, InOperation, SenderLabels
  <2>. QED  BY <1>1, <1>11, <2>1, RetryNearer DEF ResponseTimeout, DropDone
<1>12. CASE BackoffOver(s)
  <2>1. Goto(s, "attempt", None) /\ attempt' = attempt /\ pc[s] = "backoff"
    BY <1>12 DEF BackoffOver, callVars
  <2>2. Place("attempt") < Place(pc[s])
    BY <2>1 DEF Place
  <2>. QED  BY <1>1, <2>1, <2>2, GotoNearer
<1>. QED
  BY <1>2, <1>3, <1>4, <1>5, <1>6, <1>7, <1>8, <1>9, <1>10, <1>11, <1>12 DEF SenderStep

\* A sender's step leaves the attempts of the others.
LEMMA OthersKeepAttempt ==
    ASSUME CallsOK, NEW s \in Senders, NEW t \in Senders, t # s,
           SenderAcquiresConn(s) \/ SenderStep(s) \/ Cancel(s)
    PROVE  attempt'[t] = attempt[t]
<1>. DEFINE Kept == attempt'[t] = attempt[t]
<1>1. ASSUME NEW r, EndCall(s, r) PROVE Kept
  BY <1>1 DEF EndCall, CallsOK
<1>2. ASSUME NEW label, RetryOrFail(s, label) PROVE Kept
  BY <1>1, <1>2 DEF RetryOrFail, Return, CallsOK
<1>3. ASSUME NEW c, FailAttempt(s, c) PROVE Kept
  BY <1>2, <1>3 DEF FailAttempt, callVars
<1>4. ASSUME NEW c, BeginRequest(s, c) PROVE Kept
  BY <1>4 DEF BeginRequest, callVars
<1>5. ASSUME AbandonConnection(s) PROVE Kept
  BY <1>3, <1>5 DEF AbandonConnection, callVars
<1>6. CASE EnsureConnected(s) \/ SenderAcquiresConn(s)
  BY <1>4, <1>6 DEF EnsureConnected, SenderAcquiresConn, callVars
<1>7. CASE (\E c \in Clients : EstablishSucceeds(s, c)) \/ EstablishFails(s) \/ SubscribeFails(s)
  BY <1>4, <1>5, <1>7 DEF EstablishSucceeds, EstablishFails, SubscribeFails, callVars
<1>8. CASE SubscribeSucceeds(s) \/ CleanupDone(s) \/ WriteFails(s)
  BY <1>3, <1>4, <1>8 DEF SubscribeSucceeds, CleanupDone, WriteFails
<1>9. CASE ResponseTimeout(s) \/ DropDone(s)
  BY <1>2, <1>9 DEF ResponseTimeout, DropDone
<1>10. CASE ResponseReceived(s) \/ Cancel(s)
  BY <1>1, <1>10 DEF ResponseReceived, Return, Cancel
<1>11. CASE BackoffOver(s) \/ \E i \in Idlers : WriteSucceeds(s, i)
  BY <1>11 DEF BackoffOver, WriteSucceeds, callVars
<1>. QED  BY <1>6, <1>7, <1>8, <1>9, <1>10, <1>11 DEF SenderStep

\* Once it has the lock, a call of any number of attempts can only come nearer to its
\* end, in every environment (send_command 911-1038); with the fairness of the ble_live
\* run this is why calls end.
THEOREM CallsNeverGoBack == Spec => CallsGetShorter
<1>. DEFINE Moves(t) == \/ pc'[t] = "idle"
                        \/ UNCHANGED <<pc[t], attempt[t]>>
                        \/ StepsLeft(t)' < StepsLeft(t)
<1>1. ASSUME IInv, [Next]_vars, NEW t \in Senders, pc[t] \in InOperation PROVE Moves(t)
  <2>1. TasksOK /\ CallsOK /\ t \in Tasks
    BY <1>1 DEF IInv, TypeOK, Tasks
  <2>2. CASE \E s \in Senders : SenderAcquiresConn(s) \/ SenderStep(s)
    <3>1. PICK s \in Senders : SenderAcquiresConn(s) \/ SenderStep(s)
      BY <2>2
    <3>2. CASE s = t
      BY <1>1, <3>1, <3>2, OwnStepNearer DEF Nearer
    <3>3. CASE s # t
      <4>1. pc'[t] = pc[t]
        <5>1. SenderEffect(s)
          BY <1>1, <3>1, SenderEffects DEF IInv
        <5>. QED  BY <1>1, <3>3, <5>1, Alone DEF SenderEffect
      <4>. QED  BY <1>1, <2>1, <3>1, <3>3, <4>1, OthersKeepAttempt
    <3>. QED  BY <3>2, <3>3
  <2>3. CASE \E s \in Senders, b \in Cmds : Call(s, b)
    BY <1>1, <2>1, <2>3 DEF Call, Goto, TasksOK, InOperation
  <2>4. CASE \E s \in Senders : AcquireOp(s)
    BY <1>1, <2>1, <2>4 DEF AcquireOp, Goto, TasksOK, InOperation, callVars
  <2>5. CASE \E s \in Senders : Cancel(s)
    <3>1. PICK s \in Senders : Cancel(s)
      BY <2>5
    <3>2. CASE s = t
      BY <2>1, <3>1, <3>2 DEF Cancel, EndCall, Goto, TasksOK
    <3>3. CASE s # t
      <4>1. pc'[t] = pc[t]
        BY <2>1, <3>1, <3>3 DEF Cancel, EndCall, Goto, TasksOK
      <4>. QED  BY <2>1, <3>1, <3>3, <4>1, OthersKeepAttempt
    <3>. QED  BY <3>2, <3>3
  <2>6. CASE \E i \in Idlers : IdlerAcquiresConn(i) \/ IdlerStep(i)
    <3>1. t \notin Idlers
      BY TasksAssumption
    <3>. QED
      BY <2>1, <2>6, <3>1 DEF IdlerAcquiresConn, IdlerStep, TimerFires, IdleDisconnectDone, Goto,
         TasksOK, callVars
  <2>7. CASE \E k \in Closers : CloserAcquiresConn(k) \/ CloserStep(k)
    <3>1. t \notin Closers
      BY TasksAssumption
    <3>. QED
      BY <2>1, <2>7, <3>1 DEF CloserAcquiresConn, CloserStep, NotificationsStopped,
         DisconnectDone, Goto, TasksOK, callVars
  <2>8. CASE \E k \in Closers : Disconnect(k)
    <3>1. PICK k \in Closers : Disconnect(k)
      BY <2>8
    <3>2. t # k /\ (timer # None => t # timer)
      BY <1>1, TasksAssumption DEF IInv, TypeOK, DeviceOK
    <3>. QED  BY <1>1, <2>1, <3>1, <3>2 DEF Disconnect, TasksOK, callVars
  <2>9. CASE \/ \E s \in Senders : DeviceAnswers(s)
             \/ \E c \in Clients : DropLink(c)
             \/ \E c \in Clients, b \in Cmds : Deliver(c, b)
             \/ UNCHANGED vars
    BY <2>9 DEF DeviceAnswers, DropLink, Deliver, vars, callVars
  <2>. QED
    BY <1>1, <2>2, <2>3, <2>4, <2>5, <2>6, <2>7, <2>8, <2>9 DEF Next
<1>2. IInv /\ [Next]_vars =>
         [\A s \in Senders : pc[s] \in InOperation => Moves(s)]_vars
  BY <1>1
<1>. QED  BY <1>2, Invariance, PTL DEF Spec, CallsGetShorter
=============================================================================
