----------------------------- MODULE BleDevice -----------------------------
(***************************************************************************)
(* The transport of one battery: class MarstekBLEDevice of                 *)
(* custom_components/marstek_ble/marstek_device.py.                        *)
(*                                                                         *)
(* The class runs on one asyncio loop, so the code between two awaits is   *)
(* atomic and is one action here; an await is a label of pc.  Two labels   *)
(* are finer than the code: a task does not yield at "attempt", nor at     *)
(* "wantConn" when the lock is free.  Other tasks may come in between here *)
(* and not there, so what holds here holds there; a task is not cancelled  *)
(* at "attempt".  Three kinds of task run the methods:                     *)
(*   Senders  callers of send_command (the poll loop, buttons, switches,   *)
(*            selects),                                                    *)
(*   Idlers   inactivity timers: scheduled by call_later, and once fired a *)
(*            task running _execute_disconnect,                            *)
(*   Closers  callers of disconnect() (unloading the config entry).        *)
(*                                                                         *)
(* The Bluetooth stack is external.  A member of Clients is one connected  *)
(* client object; links are those whose is_connected is true.  A link that *)
(* goes away runs the disconnected callback at once, as Bleak does.  The   *)
(* number a client object gets is reused when nothing refers to it.        *)
(*                                                                         *)
(* Left out: diagnostics (histories, counters, timestamps), the frame      *)
(* bytes, _response_data and _expected_disconnect, of which the first is   *)
(* never read and the second only picks a log level.                       *)
(***************************************************************************)
EXTENDS Naturals, FiniteSets

CONSTANTS
    Senders, Idlers, Closers,   \* the three kinds of tasks
    Clients,                    \* client objects alive at one time, at most
    Cmds,                       \* command bytes
    Retry,                      \* the retry argument of send_command
    None,
    MayCancel,          \* a task in send_command may be cancelled
    DisconnectMayFail,  \* client.disconnect() may raise and leave the link up
    LateSubscribeAck    \* start_notify may return although the link is gone

Tasks == Senders \cup Idlers \cup Closers

ASSUME TasksAssumption ==
    /\ Senders \cap Idlers = {}
    /\ Senders \cap Closers = {}
    /\ Idlers \cap Closers = {}
    /\ None \notin Tasks \cup Clients \cup Cmds

ASSUME RetryAssumption == Retry \in Nat \ {0}

ASSUME EnvironmentAssumption ==
    {MayCancel, DisconnectMayFail, LateSubscribeAck} \subseteq BOOLEAN

VARIABLES
    pc,         \* where each task is suspended
    held,       \* the client object a suspended task awaits on
    opOwner,    \* holder of _operation_lock
    connOwner,  \* holder of _connect_lock
    client,     \* self._client
    started,    \* self._notifications_started
    pending,    \* self._pending_command
    event,      \* self._response_event: absent, unset or set
    timer,      \* self._disconnect_timer: the inactivity timer it refers to
    young,      \* the timer armed by the write now awaited, not yet 30 s old
    cmd,        \* the command each sender sends
    attempt,    \* the attempt each sender makes
    result,     \* what its last call returned
    links,      \* client objects whose link is up
    notifying,  \* client objects subscribed to the notify characteristic
    replies     \* responses on their way to us over each link

vars == <<pc, held, opOwner, connOwner, client, started, pending, event, timer,
          young, cmd, attempt, result, links, notifying, replies>>

linkVars    == <<links, notifying, replies>>
requestVars == <<pending, event>>
timerVars   == <<timer, young>>
callVars    == <<cmd, attempt, result>>

SenderLabels == {"idle", "wantOp", "attempt", "wantConn", "establish", "subscribe",
                 "cleanup", "writing", "waiting", "drop", "backoff"}
IdlerLabels  == {"idle", "armed", "wantConn", "disc"}
CloserLabels == {"idle", "wantConn", "unsub", "disc"}

\* Labels at which a task holds _operation_lock, and those at which it holds
\* _connect_lock.
InOperation  == SenderLabels \ {"idle", "wantOp"}
InConnection == {"establish", "subscribe", "cleanup", "unsub", "disc"}

\* Labels at which a sender has a request in flight.
InFlight == {"writing", "waiting"}

TasksOK ==
    /\ pc \in [Tasks -> SenderLabels \cup IdlerLabels \cup CloserLabels]
    /\ \A s \in Senders : pc[s] \in SenderLabels
    /\ \A i \in Idlers : pc[i] \in IdlerLabels
    /\ \A k \in Closers : pc[k] \in CloserLabels
    /\ held \in [Tasks -> Clients \cup {None}]

LocksOK ==
    /\ opOwner \in Senders \cup {None}
    /\ connOwner \in Tasks \cup {None}

DeviceOK ==
    /\ client \in Clients \cup {None}
    /\ started \in BOOLEAN
    /\ pending \in Cmds \cup {None}
    /\ event \in {"absent", "unset", "set"}
    /\ timer \in Idlers \cup {None}
    /\ young \in Idlers \cup {None}

CallsOK ==
    /\ cmd \in [Senders -> Cmds \cup {None}]
    /\ attempt \in [Senders -> 1..Retry]
    /\ result \in [Senders -> {"none", "ok", "failed", "cancelled"}]

LinksOK ==
    /\ links \subseteq Clients
    /\ notifying \subseteq Clients
    /\ replies \in [Clients -> SUBSET Cmds]

TypeOK == TasksOK /\ LocksOK /\ DeviceOK /\ CallsOK /\ LinksOK

Init ==
    /\ pc = [t \in Tasks |-> "idle"]
    /\ held = [t \in Tasks |-> None]
    /\ opOwner = None /\ connOwner = None
    /\ client = None /\ started = FALSE
    /\ pending = None /\ event = "absent"
    /\ timer = None /\ young = None
    /\ cmd = [s \in Senders |-> None]
    /\ attempt = [s \in Senders |-> 1]
    /\ result = [s \in Senders |-> "none"]
    /\ links = {} /\ notifying = {}
    /\ replies = [c \in Clients |-> {}]

\* self._client and self._client.is_connected
Connected == client # None /\ client \in links

Goto(t, label, c) ==
    /\ pc' = [pc EXCEPT ![t] = label]
    /\ held' = [held EXCEPT ![t] = c]

----------------------------------------------------------------------------
(* The link as the Bluetooth stack moves it (external).                    *)

\* The link of c goes down: what was subscribed or in the air is gone.
LinkLost(c) ==
    /\ links' = links \ {c}
    /\ notifying' = notifying \ {c}
    /\ replies' = [replies EXCEPT ![c] = {}]

\* Mutant: the callback forgets to reset the notification flag.
OnDisconnectKeepsFlag ==
    /\ client' = None
    /\ UNCHANGED started

\* _on_disconnect: whichever client reports, the current one is forgotten.
OnDisconnect ==
    /\ client' = None
    /\ started' = FALSE

\* The peer or the radio ends a link.
DropLink(c) ==
    /\ c \in links
    /\ LinkLost(c)
    /\ OnDisconnect
    /\ UNCHANGED <<pc, held, opOwner, connOwner, requestVars, timerVars, callVars>>

\* Mutant: an expected disconnect does not clear the client.
DisconnectSucceedsSilently(t) ==
    /\ LinkLost(held[t])
    /\ UNCHANGED <<client, started>>

\* The awaited disconnect of held[t] succeeds; the callback runs if the link
\* was still up.
DisconnectSucceeds(t) ==
    /\ LinkLost(held[t])
    /\ IF held[t] \in links THEN OnDisconnect ELSE UNCHANGED <<client, started>>

\* The device answers the request that is in flight on a live link.
DeviceAnswers(s) ==
    /\ pc[s] \in InFlight
    /\ held[s] \in links
    /\ replies' = [replies EXCEPT ![held[s]] = @ \cup {cmd[s]}]
    /\ UNCHANGED <<pc, held, opOwner, connOwner, client, started, requestVars,
                   timerVars, callVars, links, notifying>>

\* record_notification, reached from the notification callback: a frame whose
\* command byte is the pending one sets the event.
Deliver(c, b) ==
    /\ c \in notifying
    /\ b \in replies[c]
    /\ replies' = [replies EXCEPT ![c] = @ \ {b}]
    /\ event' = IF pending = b /\ event # "absent" THEN "set" ELSE event
    /\ UNCHANGED <<pc, held, opOwner, connOwner, client, started, pending,
                   timerVars, callVars, links, notifying>>

----------------------------------------------------------------------------
(* send_command and _ensure_connected                                      *)

Call(s, b) ==
    /\ pc[s] = "idle"
    /\ Goto(s, "wantOp", None)
    /\ cmd' = [cmd EXCEPT ![s] = b]
    /\ result' = [result EXCEPT ![s] = "none"]
    /\ UNCHANGED <<opOwner, connOwner, client, started, requestVars, timerVars,
                   attempt, linkVars>>

\* Mutant: commands are not serialized.
AcquireOpUnguarded(s) ==
    /\ pc[s] = "wantOp"
    /\ opOwner' = s
    /\ Goto(s, "attempt", None)
    /\ UNCHANGED <<connOwner, client, started, requestVars, timerVars, callVars,
                   linkVars>>

AcquireOp(s) ==
    /\ pc[s] = "wantOp"
    /\ opOwner = None
    /\ opOwner' = s
    /\ Goto(s, "attempt", None)
    /\ UNCHANGED <<connOwner, client, started, requestVars, timerVars, callVars,
                   linkVars>>

\* The call of s is over with outcome r; its local variables are gone.
EndCall(s, r) ==
    /\ Goto(s, "idle", None)
    /\ result' = [result EXCEPT ![s] = r]
    /\ cmd' = [cmd EXCEPT ![s] = None]
    /\ attempt' = [attempt EXCEPT ![s] = 1]

\* The call returns r and gives _operation_lock back.
Return(s, r) == EndCall(s, r) /\ opOwner' = None

\* Mutants: one attempt too many; a retry that does not use up an attempt.
RetryOrFailLate(s, label) ==
    IF attempt[s] <= Retry
      THEN /\ Goto(s, label, None)
           /\ attempt' = [attempt EXCEPT ![s] = @ + 1]
           /\ UNCHANGED <<opOwner, cmd, result>>
      ELSE Return(s, "failed")

RetryForever(s, label) ==
    /\ Goto(s, label, None)
    /\ UNCHANGED <<opOwner, callVars>>

\* An attempt is over without a response: the next one, or the end.
RetryOrFail(s, label) ==
    IF attempt[s] < Retry
      THEN /\ Goto(s, label, None)
           /\ attempt' = [attempt EXCEPT ![s] = @ + 1]
           /\ UNCHANGED <<opOwner, cmd, result>>
      ELSE Return(s, "failed")

\* The request is registered and the write on client c begins.
BeginRequest(s, c) ==
    /\ pending' = cmd[s]
    /\ event' = "unset"
    /\ Goto(s, "writing", c)
    /\ UNCHANGED <<opOwner, callVars>>

ClearRequest ==
    /\ pending' = None
    /\ event' = "absent"

\* The except branch of send_command, cur being self._client at that moment.
FailAttempt(s, cur) ==
    /\ ClearRequest
    /\ IF cur # None
         THEN Goto(s, "drop", cur) /\ UNCHANGED <<opOwner, callVars>>
         ELSE RetryOrFail(s, "backoff")

EnsureConnected(s) ==
    /\ pc[s] = "attempt"
    /\ IF Connected
         THEN BeginRequest(s, client)
         ELSE /\ Goto(s, "wantConn", None)
              /\ UNCHANGED <<opOwner, requestVars, callVars>>
    /\ UNCHANGED <<connOwner, client, started, timerVars, linkVars>>

\* _connect_lock obtained; the connection is checked a second time.
SenderAcquiresConn(s) ==
    /\ pc[s] = "wantConn"
    /\ connOwner = None
    /\ IF Connected
         THEN BeginRequest(s, client) /\ UNCHANGED connOwner
         ELSE /\ connOwner' = s
              /\ Goto(s, "establish", None)
              /\ UNCHANGED <<opOwner, requestVars, callVars>>
    /\ UNCHANGED <<client, started, timerVars, linkVars>>

\* A client object nothing refers to.
Unreferenced(c) ==
    /\ c \notin links
    /\ c # client
    /\ \A t \in Tasks : held[t] # c

\* establish_connection returns c; notifications are started unless the flag
\* says they are.
EstablishSucceeds(s, c) ==
    /\ pc[s] = "establish"
    /\ Unreferenced(c)
    /\ client' = c
    /\ links' = links \cup {c}
    /\ IF started
         THEN BeginRequest(s, c) /\ connOwner' = None
         ELSE /\ Goto(s, "subscribe", c)
              /\ UNCHANGED <<opOwner, connOwner, requestVars, callVars>>
    /\ UNCHANGED <<started, timerVars, notifying, replies>>

\* Mutant: the partial connection is not closed.
AbandonWithoutCleanup(s) ==
    /\ client' = None
    /\ started' = FALSE
    /\ FailAttempt(s, None)
    /\ connOwner' = None
    /\ UNCHANGED <<timerVars, linkVars>>

\* The except branch of _ensure_connected.  A live client is disconnected
\* before the exception goes on to send_command.
AbandonConnection(s) ==
    /\ client' = None
    /\ started' = FALSE
    /\ IF Connected
         THEN /\ Goto(s, "cleanup", client)
              /\ UNCHANGED <<opOwner, connOwner, requestVars, callVars>>
         ELSE FailAttempt(s, None) /\ connOwner' = None
    /\ UNCHANGED <<timerVars, linkVars>>

EstablishFails(s) == pc[s] = "establish" /\ AbandonConnection(s)

SubscribeFails(s) == pc[s] = "subscribe" /\ AbandonConnection(s)

\* start_notify returns and the write begins; without a client, taking its
\* write_gatt_char raises.
SubscribeSucceeds(s) ==
    /\ pc[s] = "subscribe"
    /\ held[s] \in links \/ LateSubscribeAck
    /\ notifying' = IF held[s] \in links THEN notifying \cup {held[s]} ELSE notifying
    /\ started' = TRUE
    /\ connOwner' = None
    /\ IF client # None THEN BeginRequest(s, client) ELSE FailAttempt(s, None)
    /\ UNCHANGED <<client, timerVars, links, replies>>

\* The partial connection is closed, or failed to close, and the exception
\* reaches send_command.
CleanupDone(s) ==
    /\ pc[s] = "cleanup"
    /\ \/ DisconnectSucceeds(s)
       \/ DisconnectMayFail /\ UNCHANGED <<client, started, linkVars>>
    /\ connOwner' = None
    /\ FailAttempt(s, client)
    /\ UNCHANGED timerVars

\* Mutant: the handle is replaced first, and then the new timer is cancelled.
ResetDisconnectTimerSwapped(s, i) ==
    /\ pc[i] = "idle"
    /\ pc' = [pc EXCEPT ![s] = "waiting"]
    /\ timer' = i
    /\ young' = i

\* _reset_disconnect_timer: the timer referred to is cancelled (which does
\* nothing once it has fired) and timer i is scheduled.
ResetDisconnectTimer(s, i) ==
    LET live == [pc EXCEPT ![s] = "waiting"]
        cancelled == IF timer # None /\ pc[timer] = "armed"
                       THEN [live EXCEPT ![timer] = "idle"] ELSE live
    IN  /\ cancelled[i] = "idle"
        /\ pc' = [cancelled EXCEPT ![i] = "armed"]
        /\ timer' = i
        /\ young' = i

WriteSucceeds(s, i) ==
    /\ pc[s] = "writing"
    /\ ResetDisconnectTimer(s, i)
    /\ UNCHANGED <<held, opOwner, connOwner, client, started, requestVars, callVars,
                   linkVars>>

WriteFails(s) ==
    /\ pc[s] = "writing"
    /\ FailAttempt(s, client)
    /\ UNCHANGED <<connOwner, client, started, timerVars, linkVars>>

\* Mutant: the end of the wait counts as a response.
ResponseAssumed(s) ==
    /\ pc[s] = "waiting"
    /\ ClearRequest
    /\ young' = None
    /\ Return(s, "ok")
    /\ UNCHANGED <<connOwner, client, started, timer, linkVars>>

ResponseReceived(s) ==
    /\ pc[s] = "waiting"
    /\ event = "set"
    /\ ClearRequest
    /\ young' = None
    /\ Return(s, "ok")
    /\ UNCHANGED <<connOwner, client, started, timer, linkVars>>

\* The 2 s wait runs out.  It may do so in the loop iteration in which the
\* event is set: wait_for then still raises TimeoutError.
ResponseTimeout(s) ==
    /\ pc[s] = "waiting"
    /\ ClearRequest
    /\ young' = None
    /\ RetryOrFail(s, "attempt")
    /\ UNCHANGED <<connOwner, client, started, timer, linkVars>>

\* The disconnect of the except branch is over; its own failure is swallowed.
DropDone(s) ==
    /\ pc[s] = "drop"
    /\ \/ LinkLost(held[s])
       \/ DisconnectMayFail /\ UNCHANGED linkVars
    /\ OnDisconnect
    /\ RetryOrFail(s, "backoff")
    /\ UNCHANGED <<connOwner, requestVars, timerVars>>

BackoffOver(s) ==
    /\ pc[s] = "backoff"
    /\ Goto(s, "attempt", None)
    /\ UNCHANGED <<opOwner, connOwner, client, started, requestVars, timerVars,
                   callVars, linkVars>>

\* Mutant: a cancelled call does not release the operation lock.
CancelKeepsLock(s) ==
    /\ MayCancel
    /\ pc[s] \notin {"idle", "attempt"}
    /\ EndCall(s, "cancelled")
    /\ connOwner' = IF connOwner = s THEN None ELSE connOwner
    /\ IF pc[s] = "waiting"
         THEN ClearRequest /\ young' = None
         ELSE UNCHANGED <<requestVars, young>>
    /\ UNCHANGED <<opOwner, client, started, timer, linkVars>>

\* CancelledError at the await s is suspended in.  It is no Exception, so only
\* the finally of the wait and the two lock contexts run.
Cancel(s) ==
    /\ MayCancel
    /\ pc[s] \notin {"idle", "attempt"}
    /\ EndCall(s, "cancelled")
    /\ opOwner' = IF opOwner = s THEN None ELSE opOwner
    /\ connOwner' = IF connOwner = s THEN None ELSE connOwner
    /\ IF pc[s] = "waiting"
         THEN ClearRequest /\ young' = None
         ELSE UNCHANGED <<requestVars, young>>
    /\ UNCHANGED <<client, started, timer, linkVars>>

----------------------------------------------------------------------------
(* _execute_disconnect, run by a timer                                     *)

\* Thirty seconds have passed: not for a timer armed by the write whose 2 s
\* wait is still running.
TimerFires(i) ==
    /\ pc[i] = "armed"
    /\ young # i
    /\ Goto(i, "wantConn", None)
    /\ UNCHANGED <<opOwner, connOwner, client, started, requestVars, timerVars,
                   callVars, linkVars>>

IdlerAcquiresConn(i) ==
    /\ pc[i] = "wantConn"
    /\ connOwner = None
    /\ IF Connected
         THEN Goto(i, "disc", client) /\ connOwner' = i /\ UNCHANGED timer
         ELSE Goto(i, "idle", None) /\ timer' = None /\ UNCHANGED connOwner
    /\ UNCHANGED <<opOwner, client, started, requestVars, young, callVars, linkVars>>

\* An exception of disconnect() ends the task before it clears the timer.
IdleDisconnectDone(i) ==
    /\ pc[i] = "disc"
    /\ Goto(i, "idle", None)
    /\ connOwner' = None
    /\ \/ DisconnectSucceeds(i) /\ timer' = None
       \/ DisconnectMayFail /\ UNCHANGED <<client, started, linkVars, timer>>
    /\ UNCHANGED <<opOwner, requestVars, young, callVars>>

----------------------------------------------------------------------------
(* disconnect()                                                            *)

Disconnect(k) ==
    /\ pc[k] = "idle"
    /\ LET called == [pc EXCEPT ![k] = "wantConn"]
       IN  pc' = IF timer # None /\ pc[timer] = "armed"
                   THEN [called EXCEPT ![timer] = "idle"] ELSE called
    /\ timer' = None
    /\ UNCHANGED <<held, opOwner, connOwner, client, started, requestVars, young,
                   callVars, linkVars>>

CloserAcquiresConn(k) ==
    /\ pc[k] = "wantConn"
    /\ connOwner = None
    /\ IF Connected
         THEN /\ connOwner' = k
              /\ Goto(k, IF started THEN "unsub" ELSE "disc", client)
              /\ UNCHANGED client
         ELSE client' = None /\ Goto(k, "idle", None) /\ UNCHANGED connOwner
    /\ UNCHANGED <<opOwner, started, requestVars, timerVars, callVars, linkVars>>

\* stop_notify returned or raised.  If the link dropped meanwhile there is no
\* client left to disconnect and disconnect() ends with an AttributeError.
NotificationsStopped(k) ==
    /\ pc[k] = "unsub"
    /\ notifying' = notifying \ {held[k]} \/ UNCHANGED notifying
    /\ started' = FALSE
    /\ IF client # None
         THEN Goto(k, "disc", client) /\ UNCHANGED connOwner
         ELSE Goto(k, "idle", None) /\ connOwner' = None
    /\ UNCHANGED <<opOwner, client, requestVars, timerVars, callVars, links, replies>>

DisconnectDone(k) ==
    /\ pc[k] = "disc"
    /\ Goto(k, "idle", None)
    /\ connOwner' = None
    /\ \/ /\ LinkLost(held[k])
          /\ client' = None
          /\ started' = IF held[k] \in links THEN FALSE ELSE started
       \/ DisconnectMayFail /\ UNCHANGED <<client, started, linkVars>>
    /\ UNCHANGED <<opOwner, requestVars, timerVars, callVars>>

----------------------------------------------------------------------------

\* What the tasks and the calls they await do without the environment's help.
SenderStep(s) ==
    \/ EnsureConnected(s)
    \/ \E c \in Clients : EstablishSucceeds(s, c)
    \/ EstablishFails(s)
    \/ SubscribeSucceeds(s)
    \/ SubscribeFails(s)
    \/ CleanupDone(s)
    \/ \E i \in Idlers : WriteSucceeds(s, i)
    \/ WriteFails(s)
    \/ ResponseReceived(s)
    \/ ResponseTimeout(s)
    \/ DropDone(s)
    \/ BackoffOver(s)

IdlerStep(i) == TimerFires(i) \/ IdleDisconnectDone(i)

CloserStep(k) == NotificationsStopped(k) \/ DisconnectDone(k)

Next ==
    \/ \E s \in Senders, b \in Cmds : Call(s, b)
    \/ \E s \in Senders :
         AcquireOp(s) \/ SenderAcquiresConn(s) \/ SenderStep(s) \/ Cancel(s)
           \/ DeviceAnswers(s)
    \/ \E i \in Idlers : IdlerAcquiresConn(i) \/ IdlerStep(i)
    \/ \E k \in Closers : Disconnect(k) \/ CloserAcquiresConn(k) \/ CloserStep(k)
    \/ \E c \in Clients : DropLink(c)
    \/ \E c \in Clients, b \in Cmds : Deliver(c, b)

Spec == Init /\ [][Next]_vars

----------------------------------------------------------------------------
(* Safety                                                                  *)

\* Each lock is held by exactly the task whose suspension point lies inside it:
\* no two commands and no two connection changes overlap, and no return, retry,
\* exception or cancellation leaves a lock behind (send_command 911,
\* _ensure_connected 774, _execute_disconnect 878, disconnect 1045).
LockDiscipline ==
    /\ \A s \in Senders : pc[s] \in InOperation <=> opOwner = s
    /\ \A t \in Tasks : pc[t] \in InConnection <=> connOwner = t

\* While a request is on its way the pending byte is the one of that request and
\* its event exists, so its answer cannot be ignored (921-965, 1142-1144).
RequestIsPending ==
    \A s \in Senders : pc[s] \in InFlight =>
        /\ pending = cmd[s]
        /\ event # "absent"

\* A call in progress has a command.
CommandKnown == \A s \in Senders : pc[s] # "idle" => cmd[s] \in Cmds

\* Inductive in every environment; proved in BleDeviceProofs.
IInv == TypeOK /\ LockDiscipline /\ RequestIsPending /\ CommandKnown

\* At most one connection to the battery exists, across reconnects, failed
\* setups, inactivity disconnects and disconnect().
OneLink == Cardinality(links) <= 1

\* self._client is never an object whose link is gone: each way a link can end
\* makes the device forget the client before another task runs.
ClientIsLive == client # None => client \in links

\* A request is never awaited on a live connection that cannot deliver its
\* answer, unless disconnect() is just closing that connection.
ListensWhileWaiting ==
    \A s \in Senders :
        pc[s] \in InFlight /\ held[s] \in links =>
            \/ held[s] \in notifying
            \/ \E k \in Closers : pc[k] = "disc"

Quiet == \A s \in Senders : pc[s] = "idle"

\* With no command running, a live connection is still in the care of an
\* inactivity timer or of a disconnect() call: it cannot be forgotten while up.
LinkIsWatched ==
    Quiet /\ links # {} => \E t \in Idlers \cup Closers : pc[t] # "idle"

\* The rest of what the three are proved from; inductive together with IInv and
\* ClientIsLive where no task is cancelled and no disconnect fails (LinksHeard: and
\* no acknowledgement is late).

\* Each link that is up is the client's, or the except branch of _ensure_connected
\* is closing it.
LinksKnown ==
    \A c \in links : c = client \/ \E s \in Senders : pc[s] = "cleanup" /\ held[s] = c

\* Labels at which a task works on a connection it took to be the client's.
Attached == InFlight \cup {"subscribe", "drop", "unsub", "disc"}

\* There is no client while a connection is made or given up, and who works on one
\* works on the current one or on one that is gone already.
ClientSettled ==
    /\ \A s \in Senders : pc[s] \in {"establish", "cleanup"} => client = None
    /\ \A t \in Tasks : pc[t] \in Attached => client \in {held[t], None}

LinkInv == ClientIsLive /\ LinksKnown /\ ClientSettled

\* The client has an inactivity timer or a disconnect() call, or a command that has
\* yet to arm the timer or to disconnect.
ClientWatched ==
    client # None =>
        \/ \E t \in Idlers \cup Closers : pc[t] # "idle"
        \/ \E s \in Senders : pc[s] \in {"subscribe", "writing", "drop"}

\* Notifications are on for the client unless they are being started or the client is
\* being disconnected; the flag is set for a client only, and not for one that
\* disconnect() has unsubscribed.
LinksHeard ==
    /\ started => client # None
    /\ client # None =>
         \/ client \in notifying
         \/ \E s \in Senders : pc[s] = "subscribe"
         \/ \E k \in Closers : pc[k] = "disc"
    /\ \A k \in Closers : pc[k] = "disc" => ~started

\* How far a call is from its end: the attempts it has left, each of at most nine
\* awaits, and the place it has reached in this one.
Place(label) ==
    CASE label = "backoff"    -> 8
      [] label = "attempt"    -> 7
      [] label = "wantConn"   -> 6
      [] label = "establish"  -> 5
      [] label = "subscribe"  -> 4
      [] label \in {"cleanup", "writing"} -> 3
      [] label = "waiting"    -> 2
      [] label = "drop"       -> 1
      [] OTHER -> 0

StepsLeft(s) == (Retry - attempt[s]) * 9 + Place(pc[s])

\* A call that has the lock moves only towards its end: whatever fails, is lost or is
\* cancelled, and whatever timers, disconnect() and other callers do meanwhile, none of
\* them sends it back or gives it an attempt more (911-1038).
CallsGetShorter ==
    [][\A s \in Senders :
           pc[s] \in InOperation =>
               \/ pc'[s] = "idle"
               \/ UNCHANGED <<pc[s], attempt[s]>>
               \/ StepsLeft(s)' < StepsLeft(s)]_vars

\* The inactivity timer takes no connection down under a request that is in
\* flight ("Disconnect after 30 seconds of inactivity", 865).  The code breaks
\* this: the timer is reset only after a write has returned (944).
DisconnectsOnlyInactive ==
    [][\A i \in Idlers : pc[i] = "wantConn" /\ pc'[i] = "disc" =>
           \A s \in Senders : pc[s] \notin InFlight]_vars
=============================================================================
