------------------------ MODULE BleRefinementProofs ------------------------
(***************************************************************************)
(* BleDevice implements CommandChannel: the safety part of the refinement, *)
(* for every value of the constants and every fault; and which step it     *)
(* takes for an answer to be taken for another call's.                     *)
(***************************************************************************)
EXTENDS BleDeviceProofs, BleCorrelation

\* How a step of the sender that is served ends its call, if it does.
StepOutcome(s) ==
    \/ pc'[s] # "idle" /\ result' = result
    \/ pc'[s] = "idle" /\ result' = [result EXCEPT ![s] = "failed"]
    \/ /\ pc'[s] = "idle" /\ result' = [result EXCEPT ![s] = "ok"]
       /\ pc[s] = "waiting" /\ event = "set"

LEMMA RetryOutcome ==
    ASSUME TasksOK, NEW s \in Senders, NEW label \in {"attempt", "backoff"},
           RetryOrFail(s, label)
    PROVE  StepOutcome(s)
<1>1. s \in Tasks
  BY DEF Tasks
<1>2. CASE attempt[s] < Retry
  BY <1>1, <1>2 DEF RetryOrFail, Goto, TasksOK, StepOutcome
<1>3. CASE ~(attempt[s] < Retry)
  BY <1>1, <1>3 DEF RetryOrFail, Return, EndCall, Goto, TasksOK, StepOutcome
<1>. QED  BY <1>2, <1>3

LEMMA FailOutcome ==
    ASSUME TasksOK, NEW s \in Senders, NEW cur, FailAttempt(s, cur)
    PROVE  StepOutcome(s)
<1>1. s \in Tasks
  BY DEF Tasks
<1>2. CASE cur # None
  BY <1>1, <1>2 DEF FailAttempt, Goto, callVars, TasksOK, StepOutcome
<1>3. CASE cur = None
  BY <1>3, RetryOutcome DEF FailAttempt
<1>. QED  BY <1>2, <1>3

LEMMA RequestOutcome ==
    ASSUME TasksOK, NEW s \in Senders, NEW c, BeginRequest(s, c)
    PROVE  StepOutcome(s)
<1>1. s \in Tasks
  BY DEF Tasks
<1>. QED  BY <1>1 DEF BeginRequest, Goto, callVars, TasksOK, StepOutcome

LEMMA GotoOutcome ==
    ASSUME TasksOK, NEW s \in Senders, NEW label, label # "idle", NEW c,
           Goto(s, label, c), UNCHANGED callVars
    PROVE  StepOutcome(s)
<1>1. s \in Tasks
  BY DEF Tasks
<1>. QED  BY <1>1 DEF Goto, callVars, TasksOK, StepOutcome

LEMMA SenderOutcomes ==
    ASSUME TypeOK, NEW s \in Senders, SenderAcquiresConn(s) \/ SenderStep(s)
    PROVE  StepOutcome(s)
<1>1. s \in Tasks /\ s \notin Idlers /\ TasksOK
  BY TasksAssumption DEF Tasks, TypeOK
<1>2. CASE EnsureConnected(s)
  BY <1>1, <1>2, RequestOutcome, GotoOutcome DEF EnsureConnected
<1>3. CASE SenderAcquiresConn(s)
  BY <1>1, <1>3, RequestOutcome, GotoOutcome DEF SenderAcquiresConn
<1>4. CASE \E c \in Clients : EstablishSucceeds(s, c)
  BY <1>1, <1>4, RequestOutcome, GotoOutcome DEF EstablishSucceeds
<1>5. CASE EstablishFails(s) \/ SubscribeFails(s)
  BY <1>1, <1>5, FailOutcome, GotoOutcome
     DEF EstablishFails, SubscribeFails, AbandonConnection
<1>6. CASE SubscribeSucceeds(s)
  BY <1>1, <1>6, FailOutcome, RequestOutcome DEF SubscribeSucceeds
<1>7. CASE CleanupDone(s)
  BY <1>1, <1>7, FailOutcome DEF CleanupDone
<1>8. CASE \E i \in Idlers : WriteSucceeds(s, i)
  <2>1. PICK i \in Idlers : WriteSucceeds(s, i)
    BY <1>8
  <2>2. pc'[s] = "waiting"
    BY <1>1, <2>1 DEF WriteSucceeds, ResetDisconnectTimer, TypeOK, TasksOK, DeviceOK
  <2>. QED  BY <2>1, <2>2 DEF WriteSucceeds, callVars, StepOutcome
<1>9. CASE WriteFails(s)
  BY <1>1, <1>9, FailOutcome DEF WriteFails
<1>10. CASE ResponseReceived(s)
  BY <1>1, <1>10 DEF ResponseReceived, Return, EndCall, Goto, TasksOK, StepOutcome
<1>11. CASE ResponseTimeout(s)
  BY <1>1, <1>11, RetryOutcome DEF ResponseTimeout
<1>12. CASE DropDone(s)
  BY <1>1, <1>12, RetryOutcome DEF DropDone
<1>13. CASE BackoffOver(s)
  BY <1>1, <1>13, GotoOutcome DEF BackoffOver
<1>. QED
  BY <1>2, <1>3, <1>4, <1>5, <1>6, <1>7, <1>8, <1>9, <1>10, <1>11, <1>12, <1>13
     DEF SenderStep

----------------------------------------------------------------------------
(* What a step shows at the level of the channel.                          *)

LEMMA PhaseTypes == Phases \in [Senders -> {"idle", "queued", "active"}]
<1>1. \A s \in Senders : Phase(s) \in {"idle", "queued", "active"}
  BY DEF Phase
<1>. QED  BY <1>1 DEF Phases

\* Only s may change its phase.
LEMMA PhaseStep ==
    ASSUME NEW s \in Senders, \A t \in Senders \ {s} : pc'[t] = pc[t]
    PROVE  Phases' = [Phases EXCEPT ![s] = Phase(s)']
BY DEF Phases, Phase

\* A served call whose phase and outcome stay may only hear or give up a response.
LEMMA ActiveStep ==
    ASSUME NEW s \in Senders, Phases[s] = "active", Phases' = Phases, result' = result
    PROVE  [Channel!Next]_(Channel!vars)
<1>1. Heard' = Heard \/ Heard' = TRUE \/ Heard' = FALSE
  BY DEF Heard
<1>2. CASE Heard' = Heard
  BY <1>2 DEF Channel!vars
<1>3. CASE Heard' = TRUE
  <2>1. Channel!Hear(s)
    BY <1>3 DEF Channel!Hear
  <2>. QED  BY <2>1 DEF Channel!Next
<1>4. CASE Heard' = FALSE
  <2>1. Channel!GiveUp(s)
    BY <1>4 DEF Channel!GiveUp
  <2>. QED  BY <2>1 DEF Channel!Next
<1>. QED  BY <1>1, <1>2, <1>3, <1>4

\* When the served call ends nobody has a request in flight.
LEMMA NothingHeard ==
    ASSUME LockDiscipline, NEW s \in Senders, pc[s] \in InOperation, pc'[s] = "idle",
           \A t \in Senders \ {s} : pc'[t] = pc[t]
    PROVE  Heard' = FALSE
<1>1. opOwner = s
  BY DEF LockDiscipline
<1>2. \A t \in Senders : pc'[t] \notin InFlight
  BY <1>1 DEF LockDiscipline, InOperation, InFlight, SenderLabels
<1>. QED  BY <1>2 DEF Heard

LEMMA SenderRefines ==
    ASSUME IInv, NEW s \in Senders, SenderAcquiresConn(s) \/ SenderStep(s)
    PROVE  [Channel!Next]_(Channel!vars)
<1>1. SenderEffect(s) /\ StepOutcome(s)
  BY SenderEffects, SenderOutcomes DEF IInv
<1>2. s \in Tasks /\ Senders \subseteq Tasks /\ Senders \cap Idlers = {}
  BY TasksAssumption DEF Tasks
<1>3. \A t \in Senders \ {s} : pc'[t] = pc[t]
  BY <1>1, <1>2 DEF SenderEffect
<1>4. Phases' = [Phases EXCEPT ![s] = Phase(s)']
  BY <1>3, PhaseStep
<1>5. pc[s] \in InOperation /\ Phases[s] = "active"
      /\ Phases \in [Senders -> {"idle", "queued", "active"}]
  BY <1>1, PhaseTypes DEF SenderEffect, InOperation, SenderLabels, Phases, Phase
<1>6. CASE pc'[s] # "idle"
  <2>1. Phase(s)' = "active"
    BY <1>1, <1>6 DEF SenderEffect, SenderLabels, Phase
  <2>2. Phases' = Phases
    BY <1>4, <1>5, <2>1
  <2>. QED  BY <1>1, <1>5, <1>6, <2>2, ActiveStep DEF StepOutcome
<1>7. CASE pc'[s] = "idle"
  <2>1. Heard' = FALSE
    BY <1>3, <1>5, <1>7, NothingHeard DEF IInv
  <2>2. Phases' = [Phases EXCEPT ![s] = "idle"]
    BY <1>4, <1>7 DEF Phase
  <2>3. CASE result' = [result EXCEPT ![s] = "failed"]
    <3>1. Channel!Fail(s)
      BY <1>5, <2>1, <2>2, <2>3 DEF Channel!Fail, Channel!Move
    <3>. QED  BY <3>1 DEF Channel!Next
  <2>4. CASE result' = [result EXCEPT ![s] = "ok"] /\ pc[s] = "waiting" /\ event = "set"
    <3>1. Heard
      BY <2>4 DEF Heard, InFlight
    <3>2. Channel!Succeed(s)
      BY <1>5, <2>1, <2>2, <2>4, <3>1 DEF Channel!Succeed, Channel!Move
    <3>. QED  BY <3>2 DEF Channel!Next
  <2>. QED  BY <1>1, <1>7, <2>3, <2>4 DEF StepOutcome
<1>. QED  BY <1>6, <1>7
----------------------------------------------------------------------------
(* The other steps of a sender.                                            *)

LEMMA CallRefines ==
    ASSUME IInv, NEW s \in Senders, NEW b \in Cmds, Call(s, b)
    PROVE  [Channel!Next]_(Channel!vars)
<1>1. s \in Tasks /\ Senders \subseteq Tasks
  BY DEF Tasks
<1>2. /\ pc[s] = "idle" /\ pc'[s] = "wantOp"
      /\ \A t \in Senders \ {s} : pc'[t] = pc[t]
  BY <1>1 DEF Call, Goto, IInv, TypeOK, TasksOK
<1>3. Phases' = [Phases EXCEPT ![s] = "queued"] /\ Phases[s] = "idle"
  BY <1>2, PhaseStep DEF Phase, Phases
<1>4. Heard' = Heard
  BY <1>2 DEF Call, requestVars, Heard, InFlight
<1>5. Channel!Submit(s)
  BY <1>3, <1>4 DEF Call, Channel!Submit, Channel!Move
<1>. QED  BY <1>5 DEF Channel!Next

LEMMA AcquireOpRefines ==
    ASSUME IInv, NEW s \in Senders, AcquireOp(s)
    PROVE  [Channel!Next]_(Channel!vars)
<1>1. s \in Tasks /\ Senders \subseteq Tasks
  BY DEF Tasks
<1>2. /\ pc[s] = "wantOp" /\ pc'[s] = "attempt"
      /\ \A t \in Senders \ {s} : pc'[t] = pc[t]
  BY <1>1 DEF AcquireOp, Goto, IInv, TypeOK, TasksOK
<1>3. Phases' = [Phases EXCEPT ![s] = "active"] /\ Phases[s] = "queued"
  BY <1>2, PhaseStep DEF Phase, Phases
<1>4. Heard' = Heard
  BY <1>2 DEF AcquireOp, requestVars, Heard, InFlight
<1>5. \A t \in Senders : Phases[t] # "active"
  <2>1. \A t \in Senders : pc[t] \notin InOperation
    BY TasksAssumption DEF AcquireOp, IInv, LockDiscipline, Tasks
  <2>2. \A t \in Senders : pc[t] \in SenderLabels
    BY DEF IInv, TypeOK, TasksOK
  <2>. QED  BY <2>1, <2>2 DEF Phases, Phase, InOperation
<1>6. Channel!Serve(s)
  BY <1>3, <1>4, <1>5 DEF AcquireOp, callVars, Channel!Serve
<1>. QED  BY <1>6 DEF Channel!Next

LEMMA CancelRefines ==
    ASSUME IInv, NEW s \in Senders, Cancel(s)
    PROVE  [Channel!Next]_(Channel!vars)
<1>1. s \in Tasks /\ Senders \subseteq Tasks
  BY DEF Tasks
<1>2. /\ pc[s] # "idle" /\ pc'[s] = "idle"
      /\ \A t \in Senders \ {s} : pc'[t] = pc[t]
      /\ result' = [result EXCEPT ![s] = "cancelled"]
  BY <1>1 DEF Cancel, EndCall, Goto, IInv, TypeOK, TasksOK
<1>3. Phases' = [Phases EXCEPT ![s] = "idle"] /\ Phases[s] # "idle"
  BY <1>2, PhaseStep DEF Phase, Phases
<1>4. CASE pc[s] = "wantOp"
  <2>1. Heard' = Heard
    BY <1>2, <1>4 DEF Cancel, requestVars, Heard, InFlight
  <2>2. Phases[s] = "queued"
    BY <1>4 DEF Phases, Phase
  <2>3. Channel!Cancel(s)
    BY <1>2, <1>3, <2>1, <2>2 DEF Channel!Cancel, Channel!Move
  <2>. QED  BY <2>3 DEF Channel!Next
<1>5. CASE pc[s] # "wantOp"
  <2>1. pc[s] \in InOperation /\ Phases[s] = "active"
    BY <1>2, <1>5 DEF IInv, TypeOK, TasksOK, InOperation, Phases, Phase
  <2>2. Heard' = FALSE
    BY <1>2, <2>1, NothingHeard DEF IInv
  <2>3. Channel!Cancel(s)
    BY <1>2, <1>3, <2>1, <2>2 DEF Channel!Cancel, Channel!Move
  <2>. QED  BY <2>3 DEF Channel!Next
<1>. QED  BY <1>4, <1>5

----------------------------------------------------------------------------
(* Steps of the environment, of timers and of disconnect().                *)

\* No phase, no outcome and no event changes.
LEMMA SilentStep ==
    ASSUME \A s \in Senders : pc'[s] = pc[s], UNCHANGED <<event, result>>
    PROVE  [Channel!Next]_(Channel!vars)
<1>1. Phases' = Phases /\ Heard' = Heard
  BY DEF Phases, Phase, Heard
<1>. QED  BY <1>1 DEF Channel!vars

LEMMA DeliverRefines ==
    ASSUME NEW c \in Clients, NEW b \in Cmds, Deliver(c, b)
    PROVE  [Channel!Next]_(Channel!vars)
<1>1. Phases' = Phases /\ result' = result
  BY DEF Deliver, callVars, Phases, Phase
<1>2. CASE \E s \in Senders : pc[s] \in InFlight
  <2>1. PICK s \in Senders : pc[s] \in InFlight
    BY <1>2
  <2>2. Phases[s] = "active"
    BY <2>1 DEF InFlight, Phases, Phase
  <2>. QED  BY <1>1, <2>2, ActiveStep
<1>3. CASE ~ \E s \in Senders : pc[s] \in InFlight
  <2>1. Heard' = Heard
    BY <1>3 DEF Deliver, Heard
  <2>. QED  BY <1>1, <2>1 DEF Channel!vars
<1>. QED  BY <1>2, <1>3

LEMMA StepRefines == IInv /\ [Next]_vars => [Channel!Next]_(Channel!vars)
<1>. SUFFICES ASSUME IInv, [Next]_vars PROVE [Channel!Next]_(Channel!vars)
  OBVIOUS
<1>1. Senders \subseteq Tasks /\ Senders \cap Idlers = {} /\ Senders \cap Closers = {}
  BY TasksAssumption DEF Tasks
<1>2. TasksOK /\ timer \in Idlers \cup {None}
  BY DEF IInv, TypeOK, DeviceOK
<1>3. CASE \E s \in Senders, b \in Cmds : Call(s, b)
  BY <1>3, CallRefines
<1>4. CASE \E s \in Senders : AcquireOp(s)
  BY <1>4, AcquireOpRefines
<1>5. CASE \E s \in Senders : SenderAcquiresConn(s) \/ SenderStep(s)
  BY <1>5, SenderRefines
<1>6. CASE \E s \in Senders : Cancel(s)
  BY <1>6, CancelRefines
<1>7. CASE \E s \in Senders : DeviceAnswers(s)
  BY <1>7, SilentStep DEF DeviceAnswers, requestVars, callVars
<1>8. CASE \E i \in Idlers : IdlerAcquiresConn(i) \/ IdlerStep(i)
  <2>1. PICK i \in Idlers : IdlerAcquiresConn(i) \/ IdlerStep(i)
    BY <1>8
  <2>2. \A s \in Senders : pc'[s] = pc[s]
    BY <1>1, <1>2, <2>1 DEF IdlerAcquiresConn, IdlerStep, TimerFires, IdleDisconnectDone,
                            Goto, TasksOK
  <2>3. UNCHANGED <<event, result>>
    BY <2>1 DEF IdlerAcquiresConn, IdlerStep, TimerFires, IdleDisconnectDone,
                requestVars, callVars
  <2>. QED  BY <2>2, <2>3, SilentStep
<1>9. CASE \E k \in Closers : Disconnect(k) \/ CloserAcquiresConn(k) \/ CloserStep(k)
  <2>1. PICK k \in Closers : Disconnect(k) \/ CloserAcquiresConn(k) \/ CloserStep(k)
    BY <1>9
  <2>2. \A s \in Senders : pc'[s] = pc[s]
    BY <1>1, <1>2, <2>1, TasksAssumption
       DEF Disconnect, CloserAcquiresConn, CloserStep, NotificationsStopped,
           DisconnectDone, Goto, TasksOK
  <2>3. UNCHANGED <<event, result>>
    BY <2>1 DEF Disconnect, CloserAcquiresConn, CloserStep, NotificationsStopped,
                DisconnectDone, requestVars, callVars
  <2>. QED  BY <2>2, <2>3, SilentStep
<1>10. CASE \E c \in Clients : DropLink(c)
  BY <1>10, SilentStep DEF DropLink, requestVars, callVars
<1>11. CASE \E c \in Clients, b \in Cmds : Deliver(c, b)
  BY <1>11, DeliverRefines
<1>12. CASE UNCHANGED vars
  BY <1>12, SilentStep DEF vars
<1>. QED
  BY <1>3, <1>4, <1>5, <1>6, <1>7, <1>8, <1>9, <1>10, <1>11, <1>12 DEF Next

LEMMA InitRefines == Init => Channel!Init
BY DEF Init, Channel!Init, Phases, Phase, Heard, Tasks

\* Whatever the stack, the device and the other tasks do, send_command serves
\* one call at a time and returns True only when a response was delivered while
\* the request of that call was outstanding (911-983, 1142-1144).
THEOREM Refinement == Spec => ImplementsChannel
<1>. QED  BY InitRefines, StepRefines, Invariance, PTL
          DEF Spec, ImplementsChannel, Channel!Spec

----------------------------------------------------------------------------
(* Whose answer it was.                                                    *)

\* A call ends, and an answer of the battery is still on its way.
LeavesAnswer ==
    opOwner # None /\ opOwner' = None /\ \E c \in Clients : replies'[c] # {}

\* What a step does to answers and requests: only the battery sends an answer, only
\* an answer sets the event, and a request begins with the event unset.
RequestEffect ==
    /\ \/ \E s \in Senders : DeviceAnswers(s)
       \/ \A c \in Clients : replies'[c] \subseteq replies[c]
    /\ opOwner = None \/ opOwner' \in {opOwner, None}
    /\ event' = "set" /\ event # "set" =>
         opOwner' = opOwner /\ \E c \in Clients : replies[c] # {}
    /\ \A s \in Senders : pc'[s] \in InFlight /\ pc[s] \notin InFlight => event' = "unset"

LEMMA LostReplies ==
    ASSUME LinksOK, NEW c, LinkLost(c)
    PROVE  \A d \in Clients : replies'[d] \subseteq replies[d]
BY DEF LinksOK, LinkLost

\* An attempt or a call that ends starts no request and touches no answer.
LEMMA AttemptEnds ==
    ASSUME TasksOK, NEW s \in Senders, NEW cur,
           FailAttempt(s, cur) \/ \E label \in {"attempt", "backoff"} : RetryOrFail(s, label)
    PROVE  /\ pc'[s] \notin InFlight /\ \A t \in Tasks \ {s} : pc'[t] = pc[t]
           /\ opOwner' \in {opOwner, None}
           /\ FailAttempt(s, cur) => event' = "absent"
<1>1. s \in Tasks
  BY DEF Tasks
<1>. USE <1>1 DEF Goto, TasksOK, InFlight
<1>2. ASSUME NEW label \in {"attempt", "backoff"}, RetryOrFail(s, label)
      PROVE  /\ pc'[s] \notin InFlight /\ \A t \in Tasks \ {s} : pc'[t] = pc[t]
             /\ opOwner' \in {opOwner, None}
  BY <1>2 DEF RetryOrFail, Return, EndCall
<1>3. CASE FailAttempt(s, cur)
  <2>1. CASE cur # None
    BY <1>3, <2>1 DEF FailAttempt, ClearRequest
  <2>2. CASE cur = None
    BY <1>2, <1>3, <2>2 DEF FailAttempt, ClearRequest
  <2>. QED  BY <2>1, <2>2
<1>4. event' = "absent" \/ ~FailAttempt(s, cur)
  BY DEF FailAttempt, ClearRequest
<1>. QED  BY <1>2, <1>3, <1>4

LEMMA BeginsRequest ==
    ASSUME TasksOK, NEW s \in Senders, NEW c, BeginRequest(s, c)
    PROVE  /\ event' = "unset" /\ opOwner' = opOwner
           /\ \A t \in Tasks \ {s} : pc'[t] = pc[t]
BY DEF BeginRequest, Goto, TasksOK, Tasks

LEMMA SenderRequests ==
    ASSUME IInv, NEW s \in Senders, SenderAcquiresConn(s) \/ SenderStep(s)
    PROVE  RequestEffect
<1>1. /\ s \in Tasks /\ TasksOK /\ LinksOK /\ Senders \subseteq Tasks
      /\ Senders \cap Idlers = {} /\ timer \in Idlers \cup {None}
  BY TasksAssumption DEF IInv, TypeOK, DeviceOK, Tasks
<1>2. ASSUME \A t \in Senders \ {s} : pc'[t] = pc[t], pc'[s] \notin InFlight \/ event' = "unset",
             \A c \in Clients : replies'[c] \subseteq replies[c],
             opOwner' \in {opOwner, None}, event' = "set" => event = "set"
      PROVE  RequestEffect
  BY <1>2 DEF RequestEffect
<1>. USE <1>1 DEF requestVars, timerVars, callVars, linkVars
<1>3. CASE EnsureConnected(s)
  BY <1>2, <1>3, BeginsRequest DEF EnsureConnected, Goto, TasksOK, InFlight
<1>4. CASE SenderAcquiresConn(s)
  BY <1>2, <1>4, BeginsRequest DEF SenderAcquiresConn, Goto, TasksOK, InFlight
<1>5. CASE \E c \in Clients : EstablishSucceeds(s, c)
  BY <1>2, <1>5, BeginsRequest DEF EstablishSucceeds, Goto, TasksOK, InFlight
<1>6. CASE EstablishFails(s) \/ SubscribeFails(s)
  BY <1>2, <1>6, AttemptEnds
     DEF EstablishFails, SubscribeFails, AbandonConnection, Goto, TasksOK, InFlight
<1>7. CASE SubscribeSucceeds(s)
  BY <1>2, <1>7, BeginsRequest, AttemptEnds DEF SubscribeSucceeds
<1>8. CASE CleanupDone(s)
  <2>1. \A c \in Clients : replies'[c] \subseteq replies[c]
    BY <1>8, LostReplies DEF CleanupDone, DisconnectSucceeds
  <2>. QED  BY <1>2, <1>8, <2>1, AttemptEnds DEF CleanupDone
<1>9. CASE \E i \in Idlers : WriteSucceeds(s, i)
  <2>1. PICK i \in Idlers : WriteSucceeds(s, i)
    BY <1>9
  <2>2. /\ pc[s] = "writing" /\ \A t \in Senders \ {s} : pc'[t] = pc[t]
    BY <2>1 DEF WriteSucceeds, ResetDisconnectTimer, TasksOK
  <2>. QED  BY <2>1, <2>2 DEF WriteSucceeds, RequestEffect, InFlight
<1>10. CASE WriteFails(s)
  BY <1>2, <1>10, AttemptEnds DEF WriteFails
<1>11. CASE ResponseReceived(s)
  BY <1>2, <1>11 DEF ResponseReceived, ClearRequest, Return, EndCall, Goto, TasksOK, InFlight
<1>12. CASE ResponseTimeout(s)
  BY <1>2, <1>12, AttemptEnds DEF ResponseTimeout, ClearRequest
<1>13. CASE DropDone(s)
  <2>1. \A c \in Clients : replies'[c] \subseteq replies[c]
    BY <1>13, LostReplies DEF DropDone
  <2>. QED  BY <1>2, <1>13, <2>1, AttemptEnds DEF DropDone
<1>14. CASE BackoffOver(s)
  BY <1>2, <1>14 DEF BackoffOver, Goto, TasksOK, InFlight
<1>. QED
  BY <1>3, <1>4, <1>5, <1>6, <1>7, <1>8, <1>9, <1>10, <1>11, <1>12, <1>13, <1>14
     DEF SenderStep

LEMMA StepRequests == IInv /\ [Next]_vars => RequestEffect
<1>. SUFFICES ASSUME IInv, [Next]_vars PROVE RequestEffect
  OBVIOUS
<1>1. /\ TasksOK /\ LinksOK /\ Senders \subseteq Tasks /\ Senders \cap Idlers = {}
      /\ Senders \cap Closers = {} /\ timer \in Idlers \cup {None}
  BY TasksAssumption DEF IInv, TypeOK, DeviceOK, Tasks
<1>. USE <1>1 DEF requestVars, timerVars, callVars, linkVars
<1>2. ASSUME \A t \in Senders : pc'[t] = pc[t] \/ pc'[t] \notin InFlight,
             \A c \in Clients : replies'[c] \subseteq replies[c],
             opOwner = None \/ opOwner' \in {opOwner, None}, event' = "set" => event = "set"
      PROVE  RequestEffect
  BY <1>2 DEF RequestEffect
<1>3. CASE \E s \in Senders, b \in Cmds : Call(s, b)
  BY <1>2, <1>3 DEF Call, Goto, TasksOK, InFlight
<1>4. CASE \E s \in Senders : AcquireOp(s)
  BY <1>2, <1>4 DEF AcquireOp, Goto, TasksOK, InFlight
<1>5. CASE \E s \in Senders : SenderAcquiresConn(s) \/ SenderStep(s)
  BY <1>5, SenderRequests
<1>6. CASE \E s \in Senders : Cancel(s)
  <2>1. PICK s \in Senders : Cancel(s)
    BY <1>6
  <2>2. \A t \in Senders : pc'[t] = pc[t] \/ pc'[t] \notin InFlight
    BY <2>1 DEF Cancel, EndCall, Goto, TasksOK, InFlight
  <2>3. opOwner' \in {opOwner, None} /\ (event' = "set" => event = "set") /\ replies' = replies
    BY <2>1 DEF Cancel, ClearRequest
  <2>. QED  BY <1>2, <2>2, <2>3
<1>7. CASE \E s \in Senders : DeviceAnswers(s)
  BY <1>7 DEF DeviceAnswers, RequestEffect
<1>8. CASE \E i \in Idlers : IdlerAcquiresConn(i) \/ IdlerStep(i)
  <2>1. PICK i \in Idlers : IdlerAcquiresConn(i) \/ IdlerStep(i)
    BY <1>8
  <2>2. \A s \in Senders : pc'[s] = pc[s]
    BY <2>1 DEF IdlerAcquiresConn, IdlerStep, TimerFires, IdleDisconnectDone, Goto, TasksOK
  <2>3. \A c \in Clients : replies'[c] \subseteq replies[c]
    BY <2>1, LostReplies DEF IdlerAcquiresConn, IdlerStep, TimerFires, IdleDisconnectDone,
                             DisconnectSucceeds
  <2>4. UNCHANGED <<opOwner, event>>
    BY <2>1 DEF IdlerAcquiresConn, IdlerStep, TimerFires, IdleDisconnectDone
  <2>. QED  BY <1>2, <2>2, <2>3, <2>4
<1>9. CASE \E k \in Closers : Disconnect(k) \/ CloserAcquiresConn(k) \/ CloserStep(k)
  <2>1. PICK k \in Closers : Disconnect(k) \/ CloserAcquiresConn(k) \/ CloserStep(k)
    BY <1>9
  <2>2. \A s \in Senders : pc'[s] = pc[s]
    BY <2>1, TasksAssumption
       DEF Disconnect, CloserAcquiresConn, CloserStep, NotificationsStopped,
           DisconnectDone, Goto, TasksOK
  <2>3. \A c \in Clients : replies'[c] \subseteq replies[c]
    BY <2>1, LostReplies DEF Disconnect, CloserAcquiresConn, CloserStep, NotificationsStopped,
                             DisconnectDone
  <2>4. UNCHANGED <<opOwner, event>>
    BY <2>1 DEF Disconnect, CloserAcquiresConn, CloserStep, NotificationsStopped, DisconnectDone
  <2>. QED  BY <1>2, <2>2, <2>3, <2>4
<1>10. CASE \E c \in Clients : DropLink(c)
  <2>1. PICK c \in Clients : DropLink(c)
    BY <1>10
  <2>2. \A d \in Clients : replies'[d] \subseteq replies[d]
    BY <2>1, LostReplies DEF DropLink
  <2>. QED  BY <1>2, <2>1, <2>2 DEF DropLink
<1>11. CASE \E c \in Clients, b \in Cmds : Deliver(c, b)
  <2>1. PICK c \in Clients, b \in Cmds : Deliver(c, b)
    BY <1>11
  <2>2. replies[c] # {} /\ \A d \in Clients : replies'[d] \subseteq replies[d]
    BY <2>1 DEF Deliver, LinksOK
  <2>. QED  BY <2>1, <2>2 DEF Deliver, RequestEffect
<1>12. CASE UNCHANGED vars
  BY <1>2, <1>12 DEF vars
<1>. QED
  BY <1>3, <1>4, <1>5, <1>6, <1>7, <1>8, <1>9, <1>10, <1>11, <1>12 DEF Next

\* Between two calls no answer is on its way, and none before the battery has answered
\* the call being served.
AirIsClear == opOwner = None \/ ~answered => \A c \in Clients : replies[c] = {}

Correlated == answered \in BOOLEAN /\ AirIsClear /\ AnswersThisCall

LEMMA CorrelatedStep ==
    ASSUME IInv, IInv', Correlated, CorrelationNext, ~LeavesAnswer
    PROVE  Correlated'
<1>1. RequestEffect
  BY StepRequests DEF CorrelationNext
<1>2. answered' <=> (\E s \in Senders : DeviceAnswers(s)) \/ (answered /\ opOwner' = opOwner)
  BY DEF CorrelationNext
<1>3. answered' \in BOOLEAN
  BY DEF CorrelationNext
<1>4. ASSUME NEW s \in Senders, DeviceAnswers(s) PROVE opOwner = s /\ opOwner' = s /\ s # None
  BY <1>4, TasksAssumption
     DEF DeviceAnswers, IInv, LockDiscipline, InFlight, InOperation, SenderLabels, Tasks
<1>5. CASE \E s \in Senders : DeviceAnswers(s)
  BY <1>2, <1>3, <1>4, <1>5 DEF Correlated, AirIsClear, AnswersThisCall
<1>6. CASE ~\E s \in Senders : DeviceAnswers(s)
  <2>1. \A c \in Clients : replies'[c] \subseteq replies[c]
    BY <1>1, <1>6 DEF RequestEffect
  <2>2. AirIsClear'
    <3>1. ASSUME opOwner' = None \/ ~answered', NEW c \in Clients PROVE replies'[c] = {}
      <4>1. CASE opOwner = None \/ ~answered
        BY <2>1, <4>1 DEF Correlated, AirIsClear
      <4>2. CASE opOwner # None /\ answered
        <5>1. opOwner' = None
          BY <1>1, <1>2, <3>1, <4>2 DEF RequestEffect
        <5>. QED  BY <4>2, <5>1 DEF LeavesAnswer
      <4>. QED  BY <4>1, <4>2 DEF Correlated
    <3>. QED  BY <3>1 DEF AirIsClear
  <2>3. ASSUME event' = "set", NEW s \in Senders, pc'[s] \in InFlight PROVE answered'
    <3>1. pc[s] \in InFlight /\ opOwner = s /\ opOwner' = s
      BY <1>1, <2>3 DEF RequestEffect, IInv, LockDiscipline, InFlight, InOperation, SenderLabels
    <3>2. answered
      BY <1>1, <2>3, <3>1 DEF RequestEffect, Correlated, AirIsClear, AnswersThisCall
    <3>. QED  BY <1>2, <3>1, <3>2
  <2>. QED  BY <1>3, <2>2, <2>3 DEF Correlated, AnswersThisCall
<1>. QED  BY <1>5, <1>6

\* How far the premise of the protocol document holds: in every environment, a call
\* goes on an answer that was given to another one only after a step that ended a call
\* while an answer was on its way.  Neither retries nor lost links, timers or
\* disconnects mix up answers by themselves (911-983, 1142-1144).
THEOREM WrongAnswerNeedsALateOne ==
    CorrelationSpec /\ [][~LeavesAnswer]_<<vars, answered>> => []AnswersThisCall
<1>1. CorrelationInit => Correlated
  BY DEF CorrelationInit, Init, Correlated, AirIsClear, AnswersThisCall
<1>2. CorrelationSpec => Spec
  <2>1. [CorrelationNext]_<<vars, answered>> => [Next]_vars
    BY DEF CorrelationNext
  <2>. QED  BY <2>1, PTL DEF CorrelationSpec, CorrelationInit, Spec
<1>3. IInv /\ IInv' /\ Correlated /\ [CorrelationNext]_<<vars, answered>>
        /\ [~LeavesAnswer]_<<vars, answered>> => Correlated'
  <2>1. CASE CorrelationNext /\ ~LeavesAnswer
    BY <2>1, CorrelatedStep
  <2>2. CASE UNCHANGED <<vars, answered>>
    BY <2>2 DEF vars, Correlated, AirIsClear, AnswersThisCall
  <2>. QED  BY <2>1, <2>2
<1>4. Correlated => AnswersThisCall
  BY DEF Correlated
<1>. QED  BY <1>1, <1>2, <1>3, <1>4, Invariance, PTL DEF CorrelationSpec
=============================================================================
