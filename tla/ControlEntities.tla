-------------------------- MODULE ControlEntities --------------------------
(***************************************************************************)
(* The selects, switches and buttons of a Venus (select.py, switch.py,     *)
(* button.py) between their users, the polls and the battery.  All calls   *)
(* of send_command queue for the operation lock in order; the one at the   *)
(* head makes up to Attempts attempts and succeeds when a notification     *)
(* with its command byte comes while it waits, whichever request that      *)
(* notification answers.  Notifications arrive in the order they were      *)
(* sent, or are lost with the link.  What the battery does with a write is *)
(* external: it stores the value and reports it when the command that      *)
(* reads it is polled.                                                     *)
(***************************************************************************)
EXTENDS Naturals, Sequences, FiniteSets

CONSTANTS
    Controls, Switches, Buttons,
    Options,    \* the options of each control, "on" and "off" of a switch
    Frame,      \* the command and the value that each option of a control sends
    ReadBack,   \* the command whose response holds a control's value, or None
    Reads,      \* the setting that a polled command reports; no control writes with it
    Statuses,   \* commands that write a setting and are polled too, for what no control shows
    Values,     \* what each setting of the battery may be
    Starts,     \* and what it is at first, which bounds it
    None,
    Scenes,     \* the sets of controls that one behaviour may use, which bounds it
    Attempts,   \* the parameter retry of send_command
    MaxCalls,   \* bound on the calls of users
    MaxChanges, \* bound on the settings changed with the vendor's app
    MaxAir      \* bound on the notifications in flight

Settings == DOMAIN Values

AnyValue == UNION {Values[s] : s \in Settings}

AnyOption == UNION {Options[c] : c \in Controls}

ASSUME ControlAssumption ==
    /\ Switches \subseteq Controls /\ Buttons \subseteq Controls /\ Scenes \subseteq SUBSET Controls
    /\ \A c \in Controls : \A o \in Options[c] :
         Frame[c][o][1] \in Settings /\ Frame[c][o][2] \in Values[Frame[c][o][1]]
    /\ \A r \in DOMAIN Reads : Reads[r] \in Settings /\ r \notin Settings
    /\ Statuses \subseteq Settings /\ \A s \in Settings : Starts[s] \subseteq Values[s]
    /\ \A c \in Controls : ReadBack[c] = None \/ ReadBack[c] \in DOMAIN Reads
    /\ None \notin Controls /\ \A c \in Controls : None \notin Options[c]

ASSUME BoundAssumption ==
    Attempts \in Nat \ {0} /\ MaxAir \in Nat \ {0} /\ MaxCalls \in Nat /\ MaxChanges \in Nat

VARIABLES
    scene,      \* the controls in use
    setting,    \* in the battery, by the command that writes it
    calls,      \* queue of the operation lock, its head being served
    attempt,    \* how many the head has made
    asking,     \* _pending_command is the head's command
    took,       \* the battery has taken a request of the head
    air,        \* notifications in flight: command and what it reports
    data,       \* what the coordinator's data holds, by polled command
    shown,      \* _attr_current_option or _assumed_state, written whenever it changes
    used, changed,  \* calls and changes so far
    writer,     \* who changed each setting last, None for the vendor's app
    doubt       \* controls whose calls have left it open what is set

vars == <<scene, setting, calls, attempt, asking, took, air, data, shown, used, changed,
          writer, doubt>>
deviceVars == <<setting, writer, air>>
entityVars == <<data, shown>>
serveVars == <<attempt, asking, took>>

(* The commands that the controls in use write and read, and the polls that share the command of
   a write. *)
Touched == UNION {{Frame[c][o][1] : o \in Options[c]} : c \in scene}

Polled == ({ReadBack[c] : c \in scene} \ {None}) \cup (Statuses \cap Touched)

Call(c, o) == [control |-> c, option |-> o, command |-> Frame[c][o][1]]

Poll(r) == [control |-> None, option |-> None, command |-> r]

IsPoll(call) == call.control = None

Requests ==
    (UNION {{Call(c, o) : o \in Options[c]} : c \in Controls}) \cup
        {Poll(r) : r \in DOMAIN Reads \cup Statuses}

TypeOK ==
    /\ scene \in Scenes
    /\ setting \in [Settings -> AnyValue] /\ \A s \in Settings : setting[s] \in Values[s]
    /\ calls \in Seq(Requests)
    /\ attempt \in 0..Attempts /\ asking \in BOOLEAN /\ took \in BOOLEAN
    /\ asking \/ took => calls # <<>>
    /\ Len(air) <= MaxAir
    /\ data \in [DOMAIN Reads -> AnyValue \cup {None}]
    /\ shown \in [Controls -> AnyOption \cup {None}]
    /\ \A c \in Controls : shown[c] \in Options[c] \cup {None}
    /\ used \in 0..MaxCalls /\ changed \in 0..MaxChanges /\ doubt \subseteq Controls
    /\ writer \in [Settings -> Controls \cup {None}]

-----------------------------------------------------------------------------
(* _value_to_option: the option that stands for a value read back, or None. *)
OptionOf(c, v) ==
    IF \E o \in Options[c] : Frame[c][o][2] = v
    THEN CHOOSE o \in Options[c] : Frame[c][o][2] = v
    ELSE None

\* Mutant: only a control that shows nothing yet takes the value read back.
SyncedOnce(c, d, old) ==
    IF ReadBack[c] = None \/ old # None THEN old ELSE OptionOf(c, d[ReadBack[c]])

(* _sync_from_coordinator, _current_state: what the control shows with the data d. *)
Synced(c, d, old) ==
    IF ReadBack[c] # None /\ OptionOf(c, d[ReadBack[c]]) # None
    THEN OptionOf(c, d[ReadBack[c]])
    ELSE old

(* async_update_listeners with the data d. *)
Shows(d) == [c \in Controls |-> Synced(c, d, shown[c])]

Round(d) == data' = d /\ shown' = Shows(d)

\* Mutant: the option is taken whether or not the command succeeded.
ChosenAnyway(before, call, ok) ==
    IF IsPoll(call) THEN before ELSE [before EXCEPT ![call.control] = call.option]

\* Mutant: a poll that fails makes the controls it is read for unknown.
ChosenForgets(before, call, ok) ==
    [c \in Controls |->
        IF ok /\ ~IsPoll(call) /\ call.control = c /\ c \notin Buttons
        THEN IF c \in Switches THEN Synced(c, data, call.option) ELSE call.option
        ELSE IF ~ok /\ IsPoll(call) /\ ReadBack[c] = call.command THEN None ELSE before[c]]

(* What the controls show after send_command has returned, if they showed before until then. *)
Chosen(before, call, ok) ==
    IF ok /\ ~IsPoll(call) /\ call.control \notin Buttons
    THEN [before EXCEPT ![call.control] =
            IF call.control \in Switches THEN Synced(call.control, data, call.option)
                                         ELSE call.option]
    ELSE before

(* The head's call returns ok; its control, if it has one, writes its state. *)
Return(before, ok) ==
    LET call == Head(calls) IN
    /\ calls' = Tail(calls)
    /\ attempt' = 0 /\ asking' = FALSE /\ took' = FALSE
    /\ shown' = Chosen(before, call, ok)
    /\ doubt' = IF IsPoll(call) \/ (~ok /\ ~took) THEN doubt
                ELSE IF ok /\ took THEN doubt \ {call.control}
                ELSE doubt \cup {call.control}

-----------------------------------------------------------------------------
Init ==
    /\ scene \in Scenes
    /\ setting \in [Settings -> AnyValue]
    /\ \A s \in Settings :
         setting[s] \in Starts[s] /\ (s \in Touched \/ setting[s] = CHOOSE v \in Starts[s] : TRUE)
    /\ calls = <<>> /\ attempt = 0 /\ asking = FALSE /\ took = FALSE /\ air = <<>>
    /\ data = [r \in DOMAIN Reads |-> None]
    /\ shown = [c \in Controls |-> None]
    /\ used = 0 /\ changed = 0 /\ doubt = {}
    /\ writer = [s \in Settings |-> None]

(* async_select_option, async_turn_on, async_turn_off, async_press. *)
Choose(c, o) ==
    /\ c \in scene /\ used < MaxCalls
    /\ used' = used + 1
    /\ calls' = Append(calls, Call(c, o))
    /\ UNCHANGED <<scene, deviceVars, serveVars, entityVars, changed, doubt>>

(* The coordinator polls r; its polls of a command follow one another. *)
StartPoll(r) ==
    /\ r \in Polled
    /\ \A i \in 1..Len(calls) : calls[i] # Poll(r)
    /\ calls' = Append(calls, Poll(r))
    /\ UNCHANGED <<scene, deviceVars, serveVars, entityVars, used, changed, doubt>>

(* What the battery answers to a poll, as far as controls show it. *)
Reported(r) == IF r \in DOMAIN Reads THEN setting[Reads[r]] ELSE None

(* The bound on what is in flight leaves room for a reading beside the statuses, which would keep
   all readings out otherwise. *)
Room == IF IsPoll(Head(calls)) /\ Head(calls).command \in Statuses THEN MaxAir - 1 ELSE MaxAir

(* An attempt to send command m begins: the battery takes the request and answers it. *)
Reaches(m) ==
    /\ calls # <<>> /\ ~asking /\ Head(calls).command = m
    /\ Len(air) < Room
    /\ LET call == Head(calls) IN
         IF IsPoll(call)
         THEN /\ air' = Append(air, <<call.command, Reported(call.command)>>)
              /\ UNCHANGED <<setting, writer>>
         ELSE /\ air' = Append(air, <<call.command, None>>)
              /\ setting' = [setting EXCEPT ![call.command] = Frame[call.control][call.option][2]]
              /\ writer' = [writer EXCEPT ![call.command] = call.control]
    /\ attempt' = attempt + 1 /\ asking' = TRUE /\ took' = ~IsPoll(Head(calls))
    /\ UNCHANGED <<scene, calls, entityVars, used, changed, doubt>>

(* An attempt begins and the request is lost. *)
Misses ==
    /\ calls # <<>> /\ ~asking
    /\ attempt' = attempt + 1 /\ asking' = TRUE
    /\ UNCHANGED <<scene, deviceVars, calls, took, entityVars, used, changed, doubt>>

(* No response in time, or the link is lost: the next attempt, or the end of the call. *)
Expires ==
    /\ asking
    /\ \/ UNCHANGED air
       \/ air' = <<>>
    /\ IF attempt < Attempts
       THEN /\ asking' = FALSE
            /\ UNCHANGED <<calls, attempt, took, shown, doubt>>
       ELSE Return(shown, FALSE)
    /\ UNCHANGED <<scene, setting, writer, data, used, changed>>

(* A notification with command m arrives.  It is parsed and the call that waits for its        *)
(* command woken; the listener round for what it reports precedes what that call goes on to do. *)
(* A status reports nothing that a control shows, but makes a round; an answer to a write none. *)
Deliver(m) ==
    /\ air # <<>> /\ Head(air)[1] = m
    /\ air' = Tail(air)
    /\ IF m \in DOMAIN Reads
       THEN /\ Round([data EXCEPT ![m] = Head(air)[2]])
            /\ IF asking /\ Head(calls).command = m
               THEN /\ calls' = Tail(calls)
                    /\ attempt' = 0 /\ asking' = FALSE /\ took' = FALSE
               ELSE UNCHANGED <<calls, serveVars>>
            /\ UNCHANGED doubt
       ELSE /\ \E before \in {shown, IF m \in Statuses THEN Shows(data) ELSE shown} :
                 IF asking /\ Head(calls).command = m
                 THEN Return(before, TRUE)
                 ELSE shown' = before /\ UNCHANGED <<calls, serveVars, doubt>>
            /\ UNCHANGED data
    /\ UNCHANGED <<scene, setting, writer, used, changed>>

(* The base class calls the listeners for an advertisement. *)
Advertised ==
    /\ Round(data)
    /\ UNCHANGED <<scene, deviceVars, calls, serveVars, used, changed, doubt>>

(* Somebody changes a setting with the vendor's app. *)
ChangesOutside(s, v) ==
    /\ s \in Touched /\ changed < MaxChanges
    /\ changed' = changed + 1
    /\ setting' = [setting EXCEPT ![s] = v]
    /\ writer' = [writer EXCEPT ![s] = None]
    /\ UNCHANGED <<scene, air, calls, serveVars, entityVars, used, doubt>>

Next ==
    \/ \E c \in Controls : \E o \in Options[c] : Choose(c, o)
    \/ \E r \in DOMAIN Reads \cup Statuses : StartPoll(r)
    \/ \E m \in Settings \cup DOMAIN Reads : Reaches(m) \/ Deliver(m)
    \/ Misses \/ Expires
    \/ Advertised
    \/ \E s \in Settings : \E v \in Values[s] : ChangesOutside(s, v)

(* A notification comes while a reading is the i-th on its way. *)
Nears(i) ==
    /\ i <= Len(air) /\ air[i][1] \in DOMAIN Reads
    /\ \E m \in Settings \cup DOMAIN Reads : Deliver(m)

(* The polls go on, every wait ends, a notification comes or is lost with the link; and of the
   controls in use not every poll is lost, nor every reading, nor always what is before it. *)
Fairness ==
    /\ \A r \in DOMAIN Reads : WF_vars(StartPoll(r))
    /\ SF_vars(\E r \in DOMAIN Reads : Reaches(r)) /\ \A i \in 1..MaxAir : SF_vars(Nears(i))
    /\ WF_vars(\E s \in Settings : Deliver(s)) /\ WF_vars(Misses \/ Expires)

Spec == Init /\ [][Next]_vars /\ Fairness

-----------------------------------------------------------------------------
(* A control that is never read back shows what the battery is set to, with the calls of several
   users queueing, attempts repeated and requests lost, for as long as its calls have left no
   doubt (none that failed had been taken by the battery, and none was answered by the answer to
   an earlier one) and nobody else, by the app or by a control that sends the same command, has
   changed the setting. *)
AssumedIsTrue ==
    \A c \in Controls \ Buttons :
        /\ ReadBack[c] = None /\ c \notin doubt
        /\ shown[c] # None
        /\ writer[Frame[c][shown[c]][1]] = c
        /\ ~(took /\ Head(calls).control = c)
        => setting[Frame[c][shown[c]][1]] = Frame[c][shown[c]][2]

(* A control that is read back comes to show what the battery is set to, and stays with it,
   once nobody changes it any more: late answers, false successes and failed calls are put
   right by the polls, as long as the value has an option. *)
Converges ==
    \A c \in {d \in Controls : ReadBack[d] # None} :
        <>[](c \in scene =>
                LET o == OptionOf(c, setting[Reads[ReadBack[c]]]) IN o # None => shown[c] = o)

(* A control that is read back is settled once it shows what the battery is set to, the reading
   at hand and all that are on their way say the same, and no call waits that sets it. *)
Settled(c) ==
    LET r == ReadBack[c] IN
    /\ OptionOf(c, setting[Reads[r]]) # None
    /\ shown[c] = OptionOf(c, setting[Reads[r]])
    /\ data[r] = setting[Reads[r]]
    /\ \A i \in 1..Len(air) : air[i][1] = r => air[i][2] = setting[Reads[r]]
    /\ \A i \in 1..Len(calls) :
           calls[i].control # c /\ (IsPoll(calls[i]) \/ calls[i].command # Reads[r])

(* Somebody sets the control, or what it shows: by a control of the same command, or the app. *)
Resets(c) ==
    \/ \E d \in Controls : \E o \in Options[d] :
          Choose(d, o) /\ (d = c \/ Frame[d][o][1] = Reads[ReadBack[c]])
    \/ \E v \in Values[Reads[ReadBack[c]]] : ChangesOutside(Reads[ReadBack[c]], v)

(* Only that unsettles it: not a poll that fails, a link that is lost, an answer that comes late or
   is taken for that of another call, a write's for a poll's or a poll's for a write's, nor a call
   of another control that waits, fails or is repeated (select.py 188-226, switch.py 105-150). *)
SettledStays ==
    [][\A c \in Controls : ReadBack[c] # None /\ Settled(c) => Settled(c)' \/ Resets(c)]_vars
=============================================================================
