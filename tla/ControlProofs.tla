--------------------------- MODULE ControlProofs ---------------------------
(***************************************************************************)
(* The safety properties of ControlEntities, for any number of controls,   *)
(* of settings they share, and of calls waiting for the operation lock.    *)
(***************************************************************************)
EXTENDS ControlEntities, TLAPS

Notifications == {<<m, v>> : m \in Settings \cup DOMAIN Reads, v \in AnyValue \cup {None}}

(* Whatever is on its way has a command and a value, and a reading one of its setting. *)
AirOK == air \in Seq(Notifications)

(* An attempt is left as long as none is being made. *)
AttemptLeft == ~asking => attempt < Attempts

(* The request that the battery has taken is the head's, and unless somebody changed the setting
   since, it holds. *)
TakenHolds ==
    took =>
        /\ ~IsPoll(Head(calls))
        /\ writer[Head(calls).command] = Head(calls).control
           => setting[Head(calls).command] = Frame[Head(calls).control][Head(calls).option][2]

IInv == TypeOK /\ AirOK /\ AttemptLeft /\ TakenHolds /\ AssumedIsTrue

LEMMA NoneIsNoControl == None \notin Controls
BY ControlAssumption

LEMMA RequestKinds ==
    ASSUME NEW call \in Requests
    PROVE  \/ /\ ~IsPoll(call) /\ call.control \in Controls /\ call.option \in Options[call.control]
              /\ call.command = Frame[call.control][call.option][1]
           \/ IsPoll(call) /\ call.command \in DOMAIN Reads \cup Statuses
<1>1. CASE \E c \in Controls : call \in {Call(c, o) : o \in Options[c]}
  <2>1. PICK c \in Controls : call \in {Call(c, o) : o \in Options[c]} BY <1>1
  <2>2. PICK o \in Options[c] : call = Call(c, o) BY <2>1
  <2>3. call.control = c /\ call.option = o /\ call.command = Frame[c][o][1] BY <2>2 DEF Call
  <2> QED BY <2>3, ControlAssumption DEF IsPoll
<1>2. CASE call \in {Poll(r) : r \in DOMAIN Reads \cup Statuses}
  <2>1. PICK r \in DOMAIN Reads \cup Statuses : call = Poll(r) BY <1>2
  <2>2. call.control = None /\ call.command = r BY <2>1 DEF Poll
  <2> QED BY <2>2 DEF IsPoll
<1> QED BY <1>1, <1>2 DEF Requests

LEMMA HeadIsRequest ==
    ASSUME TypeOK, calls # <<>>
    PROVE  Head(calls) \in Requests /\ Tail(calls) \in Seq(Requests)
BY DEF TypeOK

(* A queue keeps its head when a request joins it. *)
LEMMA JoinKeepsHead ==
    ASSUME TypeOK, NEW call \in Requests, calls' = Append(calls, call)
    PROVE  /\ calls' \in Seq(Requests) /\ calls' # <<>>
           /\ calls # <<>> => Head(calls') = Head(calls)
BY DEF TypeOK

LEMMA OptionOfIsOption ==
    ASSUME NEW c \in Controls, NEW v PROVE OptionOf(c, v) \in Options[c] \cup {None}
BY DEF OptionOf

LEMMA SyncedIsOption ==
    ASSUME NEW c \in Controls, NEW d, NEW old \in Options[c] \cup {None}
    PROVE  /\ Synced(c, d, old) \in Options[c] \cup {None}
           /\ ReadBack[c] = None => Synced(c, d, old) = old
BY OptionOfIsOption DEF Synced

(* A listener round changes nothing of a control that is not read back. *)
LEMMA ShowsKeeps ==
    ASSUME TypeOK, NEW d
    PROVE  /\ Shows(d) \in [Controls -> AnyOption \cup {None}]
           /\ \A c \in Controls : Shows(d)[c] \in Options[c] \cup {None}
           /\ \A c \in Controls : ReadBack[c] = None => Shows(d)[c] = shown[c]
<1>1. Shows(d) = [c \in Controls |-> Synced(c, d, shown[c])] BY DEF Shows
<1>2. ASSUME NEW c \in Controls
      PROVE  /\ Synced(c, d, shown[c]) \in Options[c] \cup {None}
             /\ ReadBack[c] = None => Synced(c, d, shown[c]) = shown[c]
  <2>1. shown[c] \in Options[c] \cup {None} BY DEF TypeOK
  <2> QED BY <2>1, SyncedIsOption
<1>3. \A c \in Controls : Options[c] \subseteq AnyOption BY DEF AnyOption
<1> QED BY <1>1, <1>2, <1>3

LEMMA RoundKeeps ==
    ASSUME TypeOK, NEW d, Round(d)
    PROVE  /\ shown' \in [Controls -> AnyOption \cup {None}]
           /\ \A c \in Controls : shown'[c] \in Options[c] \cup {None}
           /\ \A c \in Controls : ReadBack[c] = None => shown'[c] = shown[c]
BY ShowsKeeps DEF Round

(* What a call that returns does to its control, and to no other, whatever was shown before. *)
LEMMA ReturnShows ==
    ASSUME TypeOK, NEW ok \in BOOLEAN, calls # <<>>,
           NEW before \in [Controls -> AnyOption \cup {None}],
           \A c \in Controls : before[c] \in Options[c] \cup {None},
           Return(before, ok)
    PROVE  LET call == Head(calls) IN
           /\ calls' \in Seq(Requests) /\ attempt' = 0 /\ asking' = FALSE /\ took' = FALSE
           /\ doubt' \subseteq Controls
           /\ shown' \in [Controls -> AnyOption \cup {None}]
           /\ \A c \in Controls : shown'[c] \in Options[c] \cup {None}
           /\ \A c \in Controls :
                c # call.control => shown'[c] = before[c] /\ (c \in doubt' <=> c \in doubt)
           /\ ~ok => shown' = before
           /\ ~IsPoll(call) /\ call.control \notin Buttons /\ ok /\ ReadBack[call.control] = None
              => shown'[call.control] = call.option
           /\ ~IsPoll(call) => (call.control \notin doubt' => (ok => took) /\ (took => ok))
           /\ ~IsPoll(call) /\ ~ok /\ ~took => doubt' = doubt
<1> DEFINE call == Head(calls)
<1>1. call \in Requests /\ Tail(calls) \in Seq(Requests) BY HeadIsRequest
<1>2. /\ calls' = Tail(calls) /\ attempt' = 0 /\ asking' = FALSE /\ took' = FALSE
      /\ shown' = Chosen(before, call, ok)
      /\ doubt' = IF IsPoll(call) \/ (~ok /\ ~took) THEN doubt
                  ELSE IF ok /\ took THEN doubt \ {call.control}
                  ELSE doubt \cup {call.control}
  BY DEF Return
<1> HIDE DEF call
<1>3. \A c \in Controls : Options[c] \subseteq AnyOption BY DEF AnyOption
<1>4. CASE IsPoll(call)
  <2>1. shown' = before /\ doubt' = doubt BY <1>2, <1>4 DEF Chosen
  <2> QED BY <2>1, <1>1, <1>2, <1>4 DEF TypeOK, call
<1>5. CASE ~IsPoll(call)
  <2>1. call.control \in Controls /\ call.option \in Options[call.control]
    BY <1>1, <1>5, RequestKinds
  <2>2. doubt' \subseteq Controls BY <1>2, <2>1 DEF TypeOK
  <2> DEFINE new == IF call.control \in Switches THEN Synced(call.control, data, call.option)
                                                 ELSE call.option
  <2>3. new \in Options[call.control] \cup {None} BY <2>1, SyncedIsOption
  <2>4. ReadBack[call.control] = None => new = call.option BY <2>1, SyncedIsOption
  <2>5. shown' = IF ok /\ call.control \notin Buttons
                 THEN [before EXCEPT ![call.control] = new] ELSE before
    BY <1>2, <1>5 DEF Chosen
  <2> HIDE DEF new
  <2>6. /\ shown' \in [Controls -> AnyOption \cup {None}]
        /\ \A c \in Controls : shown'[c] \in Options[c] \cup {None}
        /\ \A c \in Controls : c # call.control => shown'[c] = before[c]
        /\ ~ok => shown' = before
        /\ call.control \notin Buttons /\ ok /\ ReadBack[call.control] = None
           => shown'[call.control] = call.option
    BY <2>1, <2>3, <2>4, <2>5, <1>3 DEF TypeOK
  <2> QED BY <1>1, <1>2, <1>5, <2>1, <2>2, <2>6 DEF call
<1> QED BY <1>4, <1>5

(* The condition under which AssumedIsTrue speaks of a control, and what it says of it. *)
Certain(c) ==
    /\ ReadBack[c] = None /\ c \notin doubt
    /\ shown[c] # None
    /\ writer[Frame[c][shown[c]][1]] = c
    /\ ~(took /\ Head(calls).control = c)

Holds(c) == setting[Frame[c][shown[c]][1]] = Frame[c][shown[c]][2]

LEMMA AssumedPerControl == AssumedIsTrue <=> \A c \in Controls \ Buttons : Certain(c) => Holds(c)
BY DEF AssumedIsTrue, Certain, Holds

(* A step that changes no setting, and of a control neither what it shows nor its doubt nor the
   call of it that the battery has taken, keeps what is assumed of it. *)
LEMMA AssumedKept ==
    ASSUME NEW c \in Controls \ Buttons, Certain(c) => Holds(c), Certain(c)',
           shown'[c] = shown[c], UNCHANGED <<setting, writer>>, c \notin doubt,
           ~(took /\ Head(calls).control = c)
    PROVE  Holds(c)'
BY DEF Certain, Holds

LEMMA ReturnKeeps ==
    ASSUME IInv, NEW ok \in BOOLEAN, calls # <<>>,
           NEW before \in [Controls -> AnyOption \cup {None}],
           \A c \in Controls : before[c] \in Options[c] \cup {None},
           \A c \in Controls : ReadBack[c] = None => before[c] = shown[c],
           Return(before, ok), UNCHANGED <<setting, writer>>
    PROVE  AssumedIsTrue'
<1> DEFINE call == Head(calls)
<1> SUFFICES ASSUME NEW c \in Controls \ Buttons, Certain(c)' PROVE Holds(c)'
  BY DEF AssumedIsTrue, Certain, Holds
<1>1. call \in Requests BY HeadIsRequest DEF IInv
<1>2. /\ took' = FALSE
      /\ \A x \in Controls :
           x # call.control => shown'[x] = before[x] /\ (x \in doubt' <=> x \in doubt)
      /\ ~ok => shown' = before
      /\ ~IsPoll(call) /\ call.control \notin Buttons /\ ok /\ ReadBack[call.control] = None
         => shown'[call.control] = call.option
      /\ ~IsPoll(call) /\ ~ok /\ ~took => doubt' = doubt
  BY ReturnShows DEF IInv
<1>9. ~IsPoll(call) => (call.control \notin doubt' => (ok => took) /\ (took => ok))
  BY ReturnShows DEF IInv
<1>3. Certain(c) => Holds(c) BY AssumedPerControl DEF IInv
<1>4. ReadBack[c] = None /\ c \notin doubt' BY DEF Certain
<1>5. TakenHolds BY DEF IInv
<1>6. \/ /\ ~IsPoll(call) /\ call.control \in Controls
         /\ call.command = Frame[call.control][call.option][1]
      \/ IsPoll(call)
  BY <1>1, RequestKinds
<1> HIDE DEF call
<1>7. CASE c # call.control
  <2>1. shown'[c] = shown[c] /\ c \notin doubt BY <1>2, <1>4, <1>7
  <2> QED BY <2>1, <1>3, <1>7, AssumedKept DEF call
<1>8. CASE c = call.control
  <2>1. ~IsPoll(call)
    <3>1. call.control # None BY <1>8, NoneIsNoControl
    <3> QED BY <3>1 DEF IsPoll
  <2>2. CASE ok
    <3>1. took BY <1>4, <1>8, <1>9, <2>1, <2>2
    <3>2. shown'[c] = call.option /\ call.command = Frame[c][call.option][1]
      BY <1>2, <1>4, <1>6, <1>8, <2>1, <2>2
    <3>3. writer[call.command] = c BY <3>2 DEF Certain
    <3>4. setting[call.command] = Frame[c][call.option][2]
      BY <1>5, <1>8, <3>1, <3>3 DEF TakenHolds, call
    <3> QED BY <3>2, <3>4 DEF Holds
  <2>3. CASE ~ok
    <3>1. ~took BY <1>4, <1>8, <1>9, <2>1, <2>3
    <3>2. shown'[c] = shown[c] /\ doubt' = doubt BY <1>2, <1>4, <2>1, <2>3, <3>1
    <3> QED BY <3>1, <3>2, <1>3, <1>4, AssumedKept
  <2> QED BY <2>2, <2>3
<1> QED BY <1>7, <1>8

LEMMA CallIsRequest ==
    ASSUME NEW c \in Controls, NEW o \in Options[c] PROVE Call(c, o) \in Requests
BY DEF Requests

LEMMA PollIsRequest ==
    ASSUME NEW r \in DOMAIN Reads \cup Statuses PROVE Poll(r) \in Requests
BY DEF Requests

(* A step that leaves the settings, what is shown but never read back, and the request that the
   battery has taken of the head of the queue, leaves what is assumed. *)
LEMMA QuietKeepsAssumed ==
    ASSUME IInv, UNCHANGED <<setting, writer, doubt>>, took' <=> took,
           \A c \in Controls : ReadBack[c] = None => shown'[c] = shown[c],
           took => Head(calls') = Head(calls)
    PROVE  AssumedIsTrue' /\ TakenHolds'
<1>1. AssumedIsTrue'
  <2> SUFFICES ASSUME NEW c \in Controls \ Buttons, Certain(c)' PROVE Holds(c)'
    BY DEF AssumedIsTrue, Certain, Holds
  <2>1. Certain(c)
    <3>1. ~(took /\ Head(calls).control = c) BY DEF Certain
    <3> QED BY <3>1 DEF Certain
  <2>2. Holds(c) BY <2>1, AssumedPerControl DEF IInv
  <2>3. shown'[c] = shown[c] BY DEF Certain
  <2> QED BY <2>2, <2>3 DEF Holds
<1>2. TakenHolds' BY DEF IInv, TakenHolds
<1> QED BY <1>1, <1>2

LEMMA JoinKeeps ==
    ASSUME IInv, NEW call \in Requests, calls' = Append(calls, call), used' \in 0..MaxCalls,
           UNCHANGED <<scene, deviceVars, serveVars, entityVars, changed, doubt>>
    PROVE  IInv'
<1> USE DEF deviceVars, serveVars, entityVars
<1>1. /\ calls' \in Seq(Requests) /\ calls' # <<>>
      /\ calls # <<>> => Head(calls') = Head(calls)
  BY JoinKeepsHead DEF IInv
<1>2. took => Head(calls') = Head(calls) BY <1>1 DEF IInv, TypeOK
<1>3. TypeOK' BY <1>1 DEF IInv, TypeOK
<1>4. AirOK' /\ AttemptLeft' BY DEF IInv, AirOK, AttemptLeft
<1> QED BY <1>2, <1>3, <1>4, QuietKeepsAssumed DEF IInv

LEMMA ReachesKeeps ==
    ASSUME IInv, NEW m, Reaches(m) PROVE IInv'
<1> DEFINE call == Head(calls)
<1> USE DEF entityVars
<1>1. /\ calls # <<>> /\ ~asking /\ Len(air) < MaxAir
      /\ attempt' = attempt + 1 /\ asking' = TRUE /\ took' = ~IsPoll(call)
      /\ UNCHANGED <<scene, calls, data, shown, used, changed, doubt>>
  <2>1. Len(air) < Room /\ Len(air) \in Nat BY DEF Reaches, IInv, AirOK
  <2>2. Room \in {MaxAir, MaxAir - 1} BY DEF Room
  <2>3. Len(air) < MaxAir BY <2>1, <2>2, BoundAssumption
  <2> QED BY <2>3 DEF Reaches
<1>2. call \in Requests BY <1>1, HeadIsRequest DEF IInv
<1>3. CASE IsPoll(call)
  <2>1. call.command \in Settings \cup DOMAIN Reads
    BY <1>2, <1>3, RequestKinds, ControlAssumption
  <2>2. /\ air' = Append(air, <<call.command, Reported(call.command)>>)
        /\ UNCHANGED <<setting, writer>>
    BY <1>3 DEF Reaches
  <2>3. Reported(call.command) \in AnyValue \cup {None}
    BY ControlAssumption DEF Reported, IInv, TypeOK
  <2>4. <<call.command, Reported(call.command)>> \in Notifications
    BY <2>1, <2>3 DEF Notifications
  <2>5. AirOK' /\ Len(air') <= MaxAir
    BY <2>2, <2>4, <1>1, BoundAssumption DEF IInv, AirOK
  <2>6. ~took /\ ~took' BY <1>1, <1>3 DEF IInv, TakenHolds
  <2>7. TypeOK' /\ AttemptLeft'
    BY <1>1, <2>2, <2>5, BoundAssumption DEF IInv, TypeOK, AttemptLeft
  <2>8. AssumedIsTrue' /\ TakenHolds'
    <3>1. UNCHANGED <<setting, writer, shown, doubt>> /\ (took' <=> took) BY <1>1, <2>2, <2>6
    <3> QED BY <3>1, <2>6, QuietKeepsAssumed
  <2> QED BY <2>5, <2>7, <2>8 DEF IInv
<1>4. CASE ~IsPoll(call)
  <2>1. /\ call.control \in Controls /\ call.option \in Options[call.control]
        /\ call.command = Frame[call.control][call.option][1]
    BY <1>2, <1>4, RequestKinds
  <2>2. /\ air' = Append(air, <<call.command, None>>)
        /\ setting' = [setting EXCEPT ![call.command] = Frame[call.control][call.option][2]]
        /\ writer' = [writer EXCEPT ![call.command] = call.control]
    BY <1>4 DEF Reaches
  <2>3. call.command \in Settings /\ Frame[call.control][call.option][2] \in Values[call.command]
    BY <2>1, ControlAssumption
  <2>4. Frame[call.control][call.option][2] \in AnyValue BY <2>3 DEF AnyValue, Settings
  <2>5. AirOK' /\ Len(air') <= MaxAir
    <3>1. <<call.command, None>> \in Notifications BY <2>3 DEF Notifications
    <3> QED BY <3>1, <2>2, <1>1, BoundAssumption DEF IInv, AirOK
  <2>6. /\ setting' \in [Settings -> AnyValue] /\ \A s \in Settings : setting'[s] \in Values[s]
        /\ writer' \in [Settings -> Controls \cup {None}]
    BY <2>1, <2>2, <2>3, <2>4 DEF IInv, TypeOK
  <2> HIDE DEF call
  <2>7. TypeOK' /\ AttemptLeft'
    BY <1>1, <2>5, <2>6, BoundAssumption DEF IInv, TypeOK, AttemptLeft
  <2>8. TakenHolds'
    BY <1>1, <1>4, <2>2, <2>3 DEF IInv, TypeOK, TakenHolds, call, IsPoll
  <2>9. AssumedIsTrue'
    <3> SUFFICES ASSUME NEW c \in Controls \ Buttons, Certain(c)' PROVE Holds(c)'
      BY DEF AssumedIsTrue, Certain, Holds
    <3> DEFINE s == Frame[c][shown[c]][1]
    <3>1. /\ ReadBack[c] = None /\ c \notin doubt /\ shown[c] # None /\ writer'[s] = c
          /\ c # call.control
      BY <1>1, <1>4 DEF Certain, call
    <3>2. shown[c] \in Options[c] BY <3>1 DEF IInv, TypeOK
    <3>3. s \in Settings BY <3>2, ControlAssumption
    <3> HIDE DEF s
    <3>4. s # call.command BY <2>2, <2>3, <3>1, <3>3 DEF IInv, TypeOK
    <3>5. writer'[s] = writer[s] /\ setting'[s] = setting[s]
      BY <2>2, <2>3, <3>3, <3>4 DEF IInv, TypeOK
    <3>6. Certain(c) BY <3>1, <3>5 DEF Certain, s, call
    <3>7. setting[s] = Frame[c][shown[c]][2] BY <3>6, AssumedPerControl DEF IInv, Holds, s
    <3> QED BY <3>5, <3>7, <1>1 DEF Holds, s
  <2> QED BY <2>5, <2>7, <2>8, <2>9 DEF IInv
<1> QED BY <1>3, <1>4

LEMMA MissesKeeps == ASSUME IInv, Misses PROVE IInv'
<1> USE DEF Misses, deviceVars, entityVars
<1>1. TypeOK' /\ AirOK' /\ AttemptLeft'
  BY BoundAssumption DEF IInv, TypeOK, AirOK, AttemptLeft
<1>2. took => Head(calls') = Head(calls) OBVIOUS
<1> QED BY <1>1, <1>2, QuietKeepsAssumed DEF IInv

LEMMA TypeAfterCall ==
    ASSUME TypeOK, Len(air') <= MaxAir, calls' \in Seq(Requests),
           attempt' = 0, asking' = FALSE, took' = FALSE, doubt' \subseteq Controls,
           data' \in [DOMAIN Reads -> AnyValue \cup {None}],
           shown' \in [Controls -> AnyOption \cup {None}],
           \A c \in Controls : shown'[c] \in Options[c] \cup {None},
           UNCHANGED <<scene, setting, writer, used, changed>>
    PROVE  TypeOK' /\ AttemptLeft' /\ TakenHolds'
<1>1. attempt' \in 0..Attempts /\ attempt' < Attempts BY BoundAssumption
<1>2. /\ scene' \in Scenes /\ used' \in 0..MaxCalls /\ changed' \in 0..MaxChanges
      /\ setting' \in [Settings -> AnyValue] /\ \A s \in Settings : setting'[s] \in Values[s]
      /\ writer' \in [Settings -> Controls \cup {None}]
  BY DEF TypeOK
<1>3. asking' \in BOOLEAN /\ took' \in BOOLEAN /\ ~asking' /\ ~took' OBVIOUS
<1>4. TypeOK' BY <1>1, <1>2, <1>3 DEF TypeOK
<1> QED BY <1>1, <1>3, <1>4 DEF AttemptLeft, TakenHolds

(* The end of the head's call keeps the invariant whatever it returns, with the notifications
   that are left and with the reading, if any, that came with it. *)
LEMMA ReturnKeepsAll ==
    ASSUME IInv, NEW ok \in BOOLEAN, calls # <<>>,
           NEW before \in [Controls -> AnyOption \cup {None}],
           \A c \in Controls : before[c] \in Options[c] \cup {None},
           \A c \in Controls : ReadBack[c] = None => before[c] = shown[c],
           Return(before, ok), AirOK', Len(air') <= MaxAir,
           UNCHANGED <<scene, setting, writer, data, used, changed>>
    PROVE  IInv'
<1>1. /\ calls' \in Seq(Requests) /\ attempt' = 0 /\ asking' = FALSE /\ took' = FALSE
      /\ doubt' \subseteq Controls
      /\ shown' \in [Controls -> AnyOption \cup {None}]
      /\ \A c \in Controls : shown'[c] \in Options[c] \cup {None}
  BY ReturnShows DEF IInv
<1>2. data' \in [DOMAIN Reads -> AnyValue \cup {None}] BY DEF IInv, TypeOK
<1>3. TypeOK' /\ AttemptLeft' /\ TakenHolds' BY <1>1, <1>2, TypeAfterCall DEF IInv
<1>4. AssumedIsTrue' BY ReturnKeeps
<1> QED BY <1>3, <1>4 DEF IInv

LEMMA ExpiresKeeps == ASSUME IInv, Expires PROVE IInv'
<1>1. calls # <<>> BY DEF Expires, IInv, TypeOK
<1>2. AirOK' /\ Len(air') <= MaxAir
  <2>1. air' = air \/ air' = <<>> BY DEF Expires
  <2>2. CASE air' = air BY <2>2 DEF IInv, TypeOK, AirOK
  <2>3. CASE air' = <<>> BY <2>3, BoundAssumption DEF AirOK
  <2> QED BY <2>1, <2>2, <2>3
<1>3. CASE attempt < Attempts
  <2>1. /\ asking' = FALSE
        /\ UNCHANGED <<scene, setting, writer, calls, attempt, took, shown, data, used, changed,
                       doubt>>
    BY <1>3 DEF Expires
  <2>2. TypeOK' /\ AttemptLeft' BY <2>1, <1>1, <1>2, <1>3 DEF IInv, TypeOK, AttemptLeft
  <2>3. AssumedIsTrue' /\ TakenHolds' BY <2>1, QuietKeepsAssumed
  <2> QED BY <1>2, <2>2, <2>3 DEF IInv
<1>4. CASE ~(attempt < Attempts)
  <2>1. Return(shown, FALSE) /\ UNCHANGED <<scene, setting, writer, data, used, changed>>
    BY <1>4 DEF Expires
  <2>2. /\ shown \in [Controls -> AnyOption \cup {None}]
        /\ \A c \in Controls : shown[c] \in Options[c] \cup {None}
    BY DEF IInv, TypeOK
  <2> QED BY <2>1, <2>2, <1>1, <1>2, ReturnKeepsAll
<1> QED BY <1>3, <1>4

LEMMA DeliverKeeps == ASSUME IInv, NEW m, Deliver(m) PROVE IInv'
<1>1. /\ air # <<>> /\ Head(air)[1] = m /\ air' = Tail(air)
      /\ UNCHANGED <<scene, setting, writer, used, changed>>
  BY DEF Deliver
<1>2. AirOK' /\ Len(air') <= MaxAir
  BY <1>1, BoundAssumption DEF IInv, TypeOK, AirOK
<1>3. CASE m \in DOMAIN Reads
  <2> DEFINE d == [data EXCEPT ![m] = Head(air)[2]]
  <2>1. Round(d) /\ doubt' = doubt /\ data' = d BY <1>3 DEF Deliver, Round
  <2>2. Head(air) \in Notifications BY <1>1 DEF IInv, AirOK
  <2>3. Head(air)[2] \in AnyValue \cup {None} BY <2>2 DEF Notifications
  <2>4. data' \in [DOMAIN Reads -> AnyValue \cup {None}] BY <2>1, <2>3 DEF IInv, TypeOK
  <2> HIDE DEF d
  <2>5. /\ shown' \in [Controls -> AnyOption \cup {None}]
        /\ \A c \in Controls : shown'[c] \in Options[c] \cup {None}
        /\ \A c \in Controls : ReadBack[c] = None => shown'[c] = shown[c]
    BY <2>1, RoundKeeps DEF IInv
  <2>6. CASE asking /\ Head(calls).command = m
    <3>1. calls' = Tail(calls) /\ attempt' = 0 /\ asking' = FALSE /\ took' = FALSE
      BY <1>3, <2>6 DEF Deliver
    <3>2. calls # <<>> BY <2>6 DEF IInv, TypeOK
    <3>3. Head(calls) \in Requests /\ calls' \in Seq(Requests) BY <3>1, <3>2, HeadIsRequest DEF IInv
    <3>4. IsPoll(Head(calls))
      <4> SUFFICES ASSUME ~IsPoll(Head(calls)) PROVE FALSE OBVIOUS
      <4>1. m \in Settings BY <3>3, <2>6, RequestKinds, ControlAssumption
      <4> QED BY <4>1, <1>3, ControlAssumption
    <3>5. ~took BY <3>4 DEF IInv, TakenHolds
    <3>6. TypeOK' /\ AttemptLeft'
      <4>1. doubt' \subseteq Controls BY <2>1 DEF IInv, TypeOK
      <4> QED BY <1>1, <1>2, <2>4, <2>5, <3>1, <3>3, <4>1, TypeAfterCall DEF IInv
    <3>7. AssumedIsTrue' /\ TakenHolds' BY <1>1, <2>1, <2>5, <3>1, <3>5, QuietKeepsAssumed
    <3> QED BY <1>2, <3>6, <3>7 DEF IInv
  <2>7. CASE ~(asking /\ Head(calls).command = m)
    <3>1. UNCHANGED <<calls, attempt, asking, took>> BY <1>3, <2>7 DEF Deliver, serveVars
    <3>2. TypeOK' /\ AttemptLeft'
      BY <1>1, <1>2, <2>1, <2>4, <2>5, <3>1 DEF IInv, TypeOK, AttemptLeft
    <3>3. AssumedIsTrue' /\ TakenHolds' BY <1>1, <2>1, <2>5, <3>1, QuietKeepsAssumed
    <3> QED BY <1>2, <3>2, <3>3 DEF IInv
  <2> QED BY <2>6, <2>7
<1>4. CASE m \notin DOMAIN Reads
  <2>1. data' = data BY <1>4 DEF Deliver
  <2>2. PICK before \in {shown, IF m \in Statuses THEN Shows(data) ELSE shown} :
          IF asking /\ Head(calls).command = m
          THEN Return(before, TRUE)
          ELSE shown' = before /\ UNCHANGED <<calls, serveVars, doubt>>
    BY <1>4 DEF Deliver
  <2>3. /\ before \in [Controls -> AnyOption \cup {None}]
        /\ \A c \in Controls : before[c] \in Options[c] \cup {None}
        /\ \A c \in Controls : ReadBack[c] = None => before[c] = shown[c]
    <3>1. CASE before = shown BY <3>1 DEF IInv, TypeOK
    <3>2. CASE before = Shows(data) BY <3>2, ShowsKeeps DEF IInv
    <3> QED BY <2>2, <3>1, <3>2
  <2>4. CASE asking /\ Head(calls).command = m
    <3>1. Return(before, TRUE) BY <2>2, <2>4
    <3>2. calls # <<>> BY <2>4 DEF IInv, TypeOK
    <3> QED BY <3>1, <3>2, <1>1, <1>2, <2>1, <2>3, ReturnKeepsAll
  <2>5. CASE ~(asking /\ Head(calls).command = m)
    <3>1. shown' = before /\ UNCHANGED <<calls, attempt, asking, took, doubt, data>>
      BY <2>1, <2>2, <2>5 DEF serveVars
    <3>2. TypeOK' /\ AttemptLeft' BY <1>1, <1>2, <2>3, <3>1 DEF IInv, TypeOK, AttemptLeft
    <3>3. AssumedIsTrue' /\ TakenHolds' BY <1>1, <2>3, <3>1, QuietKeepsAssumed
    <3> QED BY <1>2, <3>2, <3>3 DEF IInv
  <2> QED BY <2>4, <2>5
<1> QED BY <1>3, <1>4

LEMMA AdvertisedKeeps == ASSUME IInv, Advertised PROVE IInv'
<1> USE DEF deviceVars, serveVars
<1>1. /\ Round(data) /\ data' = data
      /\ UNCHANGED <<scene, setting, writer, air, calls, attempt, asking, took, used, changed,
                     doubt>>
  BY DEF Advertised, Round
<1>2. /\ shown' \in [Controls -> AnyOption \cup {None}]
      /\ \A c \in Controls : shown'[c] \in Options[c] \cup {None}
      /\ \A c \in Controls : ReadBack[c] = None => shown'[c] = shown[c]
  BY <1>1, RoundKeeps DEF IInv
<1>3. TypeOK' /\ AirOK' /\ AttemptLeft' BY <1>1, <1>2 DEF IInv, TypeOK, AirOK, AttemptLeft
<1>4. AssumedIsTrue' /\ TakenHolds' BY <1>1, <1>2, QuietKeepsAssumed
<1> QED BY <1>3, <1>4 DEF IInv

LEMMA ChangesOutsideKeeps ==
    ASSUME IInv, NEW s \in Settings, NEW v \in Values[s], ChangesOutside(s, v) PROVE IInv'
<1> USE DEF serveVars, entityVars
<1>1. /\ changed < MaxChanges /\ changed' = changed + 1
      /\ setting' = [setting EXCEPT ![s] = v] /\ writer' = [writer EXCEPT ![s] = None]
      /\ UNCHANGED <<scene, air, calls, attempt, asking, took, data, shown, used, doubt>>
  BY DEF ChangesOutside
<1>2. v \in AnyValue BY DEF AnyValue
<1>3. /\ setting' \in [Settings -> AnyValue] /\ \A t \in Settings : setting'[t] \in Values[t]
      /\ writer' \in [Settings -> Controls \cup {None}]
  BY <1>1, <1>2 DEF IInv, TypeOK
<1>4. TypeOK' /\ AirOK' /\ AttemptLeft'
  BY <1>1, <1>3, BoundAssumption DEF IInv, TypeOK, AirOK, AttemptLeft
<1>5. TakenHolds'
  <2> SUFFICES ASSUME took,
                      writer'[Head(calls).command] = Head(calls).control
               PROVE  setting'[Head(calls).command]
                        = Frame[Head(calls).control][Head(calls).option][2]
    BY <1>1 DEF TakenHolds, IInv
  <2>1. calls # <<>> /\ ~IsPoll(Head(calls)) BY DEF IInv, TypeOK, TakenHolds
  <2>2. Head(calls) \in Requests BY <2>1, HeadIsRequest DEF IInv
  <2>3. Head(calls).control \in Controls /\ Head(calls).command \in Settings
    BY <2>1, <2>2, RequestKinds, ControlAssumption
  <2>4. Head(calls).command # s BY <1>1, <2>3, NoneIsNoControl DEF IInv, TypeOK
  <2> QED BY <1>1, <2>3, <2>4 DEF IInv, TypeOK, TakenHolds
<1>6. AssumedIsTrue'
  <2> SUFFICES ASSUME NEW c \in Controls \ Buttons, Certain(c)' PROVE Holds(c)'
    BY DEF AssumedIsTrue, Certain, Holds
  <2> DEFINE t == Frame[c][shown[c]][1]
  <2>1. /\ ReadBack[c] = None /\ c \notin doubt /\ shown[c] # None /\ writer'[t] = c
        /\ ~(took /\ Head(calls).control = c)
    BY <1>1 DEF Certain
  <2>2. shown[c] \in Options[c] BY <2>1 DEF IInv, TypeOK
  <2>3. t \in Settings BY <2>2, ControlAssumption
  <2> HIDE DEF t
  <2>4. t # s BY <1>1, <2>1, <2>3, NoneIsNoControl DEF IInv, TypeOK
  <2>5. writer'[t] = writer[t] /\ setting'[t] = setting[t] BY <1>1, <2>3, <2>4 DEF IInv, TypeOK
  <2>6. Certain(c) BY <2>1, <2>5 DEF Certain, t
  <2>7. setting[t] = Frame[c][shown[c]][2] BY <2>6, AssumedPerControl DEF IInv, Holds, t
  <2> QED BY <2>5, <2>7, <1>1 DEF Holds, t
<1> QED BY <1>4, <1>5, <1>6 DEF IInv

LEMMA InitEstablishes == Init => IInv
<1> SUFFICES ASSUME Init PROVE IInv OBVIOUS
<1>1. TypeOK
  <2>1. /\ attempt \in 0..Attempts /\ used \in 0..MaxCalls /\ changed \in 0..MaxChanges
        /\ calls \in Seq(Requests) /\ Len(air) <= MaxAir
    BY BoundAssumption DEF Init
  <2>2. /\ data \in [DOMAIN Reads -> AnyValue \cup {None}]
        /\ shown \in [Controls -> AnyOption \cup {None}]
        /\ \A c \in Controls : shown[c] \in Options[c] \cup {None}
        /\ writer \in [Settings -> Controls \cup {None}]
    BY DEF Init
  <2>3. \A s \in Settings : setting[s] \in Values[s] BY ControlAssumption DEF Init
  <2> QED BY <2>1, <2>2, <2>3 DEF Init, TypeOK
<1>2. AirOK /\ AttemptLeft /\ TakenHolds
  BY BoundAssumption DEF Init, AirOK, AttemptLeft, TakenHolds
<1>3. AssumedIsTrue BY DEF Init, AssumedIsTrue
<1> QED BY <1>1, <1>2, <1>3 DEF IInv

LEMMA NextPreserves == IInv /\ [Next]_vars => IInv'
<1> SUFFICES ASSUME IInv, [Next]_vars PROVE IInv' OBVIOUS
<1>1. ASSUME NEW c \in Controls, NEW o \in Options[c], Choose(c, o) PROVE IInv'
  <2>1. used' \in 0..MaxCalls BY <1>1, BoundAssumption DEF Choose, IInv, TypeOK
  <2> QED BY <1>1, <2>1, CallIsRequest, JoinKeeps DEF Choose
<1>2. ASSUME NEW r \in DOMAIN Reads \cup Statuses, StartPoll(r) PROVE IInv'
  <2>1. used' \in 0..MaxCalls BY <1>2 DEF StartPoll, IInv, TypeOK
  <2> QED BY <1>2, <2>1, PollIsRequest, JoinKeeps DEF StartPoll
<1>3. ASSUME NEW m \in Settings \cup DOMAIN Reads, Reaches(m) \/ Deliver(m) PROVE IInv'
  BY <1>3, ReachesKeeps, DeliverKeeps
<1>4. ASSUME NEW s \in Settings, NEW v \in Values[s], ChangesOutside(s, v) PROVE IInv'
  BY <1>4, ChangesOutsideKeeps
<1>5. CASE UNCHANGED vars
  <2>1. TypeOK' /\ AirOK' /\ AttemptLeft'
    BY <1>5 DEF vars, IInv, TypeOK, AirOK, AttemptLeft
  <2>2. AssumedIsTrue' /\ TakenHolds' BY <1>5, QuietKeepsAssumed DEF vars
  <2> QED BY <2>1, <2>2 DEF IInv
<1> QED BY <1>1, <1>2, <1>3, <1>4, <1>5, MissesKeeps, ExpiresKeeps, AdvertisedKeeps DEF Next

LEMMA InvariantHolds == Spec => []IInv
<1>1. Spec => Init /\ [][Next]_vars BY DEF Spec
<1> QED BY <1>1, InitEstablishes, NextPreserves, PTL

(* Whatever the controls share, the queue, the attempt being made and what is shown keep their
   types: no control ever shows something that is not one of its own options. *)
THEOREM ControlsTypeCorrect == Spec => []TypeOK
<1>1. IInv => TypeOK BY DEF IInv
<1> QED BY <1>1, InvariantHolds, PTL

(* A control that nothing reads back shows the truth unless its own calls have left it open or
   somebody else has changed the setting, however many controls send the same command, and
   however many calls and polls wait for the lock. *)
THEOREM AssumedStatesAreTrue == Spec => []AssumedIsTrue
<1>1. IInv => AssumedIsTrue BY DEF IInv
<1> QED BY <1>1, InvariantHolds, PTL

-----------------------------------------------------------------------------
(* A settled control stays settled. *)

(* What is on its way, and what waits, when a control is settled on the setting v. *)
AirSays(c, v) == \A i \in 1..Len(air) : air[i][1] = ReadBack[c] => air[i][2] = v

SetsOther(call, c) ==
    call.control # c /\ (IsPoll(call) \/ call.command # Reads[ReadBack[c]])

NothingSets(c) == \A i \in 1..Len(calls) : SetsOther(calls[i], c)

LEMMA SettledIs ==
    ASSUME NEW c
    PROVE  Settled(c) <=>
             LET v == setting[Reads[ReadBack[c]]] IN
             /\ OptionOf(c, v) # None /\ shown[c] = OptionOf(c, v) /\ data[ReadBack[c]] = v
             /\ AirSays(c, v) /\ NothingSets(c)
BY DEF Settled, AirSays, NothingSets, SetsOther

LEMMA SettledKept ==
    ASSUME NEW c, Settled(c), setting'[Reads[ReadBack[c]]] = setting[Reads[ReadBack[c]]],
           shown'[c] = shown[c], data'[ReadBack[c]] = data[ReadBack[c]],
           AirSays(c, setting[Reads[ReadBack[c]]])', NothingSets(c)'
    PROVE  Settled(c)'
BY DEF Settled, OptionOf, AirSays, NothingSets, SetsOther

LEMMA TailElements ==
    ASSUME NEW S, NEW q \in Seq(S), q # <<>>
    PROVE  \A i \in 1..Len(Tail(q)) : i + 1 \in 1..Len(q) /\ Tail(q)[i] = q[i + 1]
<1>1. Len(q) \in Nat /\ Len(q) > 0 OBVIOUS
<1>2. Len(Tail(q)) = Len(q) - 1 OBVIOUS
<1> SUFFICES ASSUME NEW i \in 1..Len(Tail(q)) PROVE i + 1 \in 1..Len(q) /\ Tail(q)[i] = q[i + 1]
  OBVIOUS
<1>3. i \in 1..(Len(q) - 1) BY <1>2
<1>4. i + 1 \in 1..Len(q) BY <1>1, <1>3
<1>5. Tail(q)[i] = q[i + 1] BY <1>3
<1> QED BY <1>4, <1>5

(* A step of the queue: what waits stays, its head goes, or a call joins that sets
   something else. *)
LEMMA QueueMoves ==
    ASSUME TypeOK, NEW c, NothingSets(c),
           \/ calls' = calls
           \/ calls # <<>> /\ calls' = Tail(calls)
           \/ \E call \in Requests : calls' = Append(calls, call) /\ SetsOther(call, c)
    PROVE  NothingSets(c)'
<1>1. calls \in Seq(Requests) BY DEF TypeOK
<1>2. CASE calls' = calls BY <1>2 DEF NothingSets
<1>3. CASE calls # <<>> /\ calls' = Tail(calls)
  <2>1. \A i \in 1..Len(calls') : i + 1 \in 1..Len(calls) /\ calls'[i] = calls[i + 1]
    BY <1>1, <1>3, TailElements
  <2> QED BY <2>1 DEF NothingSets
<1>4. ASSUME NEW call \in Requests, calls' = Append(calls, call), SetsOther(call, c)
      PROVE  NothingSets(c)'
  <2>1. /\ Len(calls') = Len(calls) + 1 /\ calls'[Len(calls) + 1] = call
        /\ \A i \in 1..Len(calls) : calls'[i] = calls[i]
    BY <1>1, <1>4
  <2>2. \A i \in 1..(Len(calls) + 1) : i \in 1..Len(calls) \/ i = Len(calls) + 1 BY <1>1
  <2> QED BY <1>4, <2>1, <2>2 DEF NothingSets
<1> QED BY <1>2, <1>3, <1>4

(* A step of what is on its way. *)
LEMMA AirMoves ==
    ASSUME AirOK, NEW c, NEW v, AirSays(c, v),
           \/ air' = air \/ air' = <<>>
           \/ air # <<>> /\ air' = Tail(air)
           \/ \E n : air' = Append(air, n) /\ (n[1] = ReadBack[c] => n[2] = v)
    PROVE  \A i \in 1..Len(air') : air'[i][1] = ReadBack[c] => air'[i][2] = v
<1>1. air \in Seq(Notifications) BY DEF AirOK
<1>2. CASE air' = air \/ air' = <<>> BY <1>2 DEF AirSays
<1>3. CASE air # <<>> /\ air' = Tail(air)
  <2>1. \A i \in 1..Len(air') : i + 1 \in 1..Len(air) /\ air'[i] = air[i + 1]
    BY <1>1, <1>3, TailElements
  <2> QED BY <2>1 DEF AirSays
<1>4. ASSUME NEW n, air' = Append(air, n), n[1] = ReadBack[c] => n[2] = v
      PROVE  \A i \in 1..Len(air') : air'[i][1] = ReadBack[c] => air'[i][2] = v
  <2>1. /\ Len(air') = Len(air) + 1 /\ air'[Len(air) + 1] = n
        /\ \A i \in 1..Len(air) : air'[i] = air[i]
    BY <1>1, <1>4
  <2>2. \A i \in 1..(Len(air) + 1) : i \in 1..Len(air) \/ i = Len(air) + 1 BY <1>1
  <2> QED BY <1>4, <2>1, <2>2 DEF AirSays
<1> QED BY <1>2, <1>3, <1>4

(* A round of the listeners shows the setting again. *)
LEMMA RoundSettles ==
    ASSUME NEW c \in Controls, NEW d, Round(d), ReadBack[c] # None,
           OptionOf(c, d[ReadBack[c]]) # None
    PROVE  shown'[c] = OptionOf(c, d[ReadBack[c]])
BY DEF Round, Shows, Synced

LEMMA HeadSetsOthers ==
    ASSUME IInv, NEW c, NothingSets(c), calls # <<>>
    PROVE  Head(calls) \in Requests /\ SetsOther(Head(calls), c)
<1>1. calls \in Seq(Requests) /\ Head(calls) \in Requests BY HeadIsRequest DEF IInv, TypeOK
<1>2. 1 \in 1..Len(calls) /\ Head(calls) = calls[1] BY <1>1
<1> QED BY <1>1, <1>2 DEF NothingSets

LEMMA SettledServed ==
    ASSUME IInv, NEW c \in Controls, ReadBack[c] # None, Settled(c),
           NEW m \in Settings \cup DOMAIN Reads, Reaches(m)
    PROVE  Settled(c)'
<1> DEFINE r == ReadBack[c]
           s == Reads[r]
           call == Head(calls)
<1>1. r \in DOMAIN Reads /\ s \in Settings /\ r \notin Settings BY ControlAssumption
<1>2. calls # <<>> /\ calls' = calls /\ shown' = shown /\ data' = data
  BY DEF Reaches, entityVars
<1>3. /\ OptionOf(c, setting[s]) # None /\ shown[c] = OptionOf(c, setting[s])
      /\ data[r] = setting[s] /\ AirSays(c, setting[s]) /\ NothingSets(c)
  BY SettledIs
<1>4. call \in Requests /\ call.control # c /\ (IsPoll(call) \/ call.command # s)
  BY <1>2, <1>3, HeadSetsOthers DEF SetsOther
<1>5. NothingSets(c)' BY <1>2, <1>3 DEF NothingSets
<1>6. CASE IsPoll(call)
  <2>1. setting' = setting BY <1>6 DEF Reaches
  <2>2. air' = Append(air, <<call.command, Reported(call.command)>>)
    BY <1>6 DEF Reaches
  <2>3. \E n : air' = Append(air, n) /\ (n[1] = r => n[2] = setting[s])
    <3> WITNESS <<call.command, Reported(call.command)>>
    <3> QED BY <1>1, <2>2 DEF Reported
  <2>4. AirSays(c, setting[s])' BY <1>3, <2>1, <2>3, AirMoves DEF IInv, AirSays
  <2> QED BY <1>2, <1>5, <2>1, <2>4, SettledKept
<1>7. CASE ~IsPoll(call)
  <2>1. /\ air' = Append(air, <<call.command, None>>)
        /\ setting' = [setting EXCEPT ![call.command] = Frame[call.control][call.option][2]]
    BY <1>7 DEF Reaches
  <2>2. call.command \in Settings
    BY <1>4, <1>7, RequestKinds, ControlAssumption
  <2>3. setting'[s] = setting[s] BY <1>1, <1>4, <1>7, <2>1 DEF IInv, TypeOK
  <2>4. call.command # r BY <1>1, <2>2
  <2>5. \E n : air' = Append(air, n) /\ (n[1] = r => n[2] = setting[s])
    <3> WITNESS <<call.command, None>>
    <3> QED BY <2>1, <2>4
  <2>6. \A i \in 1..Len(air') : air'[i][1] = r => air'[i][2] = setting[s]
    BY <1>3, <2>5, AirMoves DEF IInv
  <2>7. AirSays(c, setting[s])' BY <2>3, <2>6 DEF AirSays
  <2> QED BY <1>2, <1>5, <2>3, <2>7, SettledKept
<1> QED BY <1>6, <1>7

(* The end of a call of another control, or of a poll. *)
LEMMA SettledReturn ==
    ASSUME IInv, NEW c \in Controls, NothingSets(c), calls # <<>>, NEW ok \in BOOLEAN,
           NEW before \in [Controls -> AnyOption \cup {None}],
           \A x \in Controls : before[x] \in Options[x] \cup {None},
           Return(before, ok)
    PROVE  shown'[c] = before[c] /\ NothingSets(c)'
<1>1. Head(calls).control # c BY HeadSetsOthers DEF SetsOther
<1>2. shown'[c] = before[c] BY <1>1, ReturnShows DEF IInv
<1>3. calls' = Tail(calls) BY DEF Return
<1> QED BY <1>2, <1>3, QueueMoves DEF IInv

LEMMA SettledDelivered ==
    ASSUME IInv, NEW c \in Controls, ReadBack[c] # None, Settled(c),
           NEW m \in Settings \cup DOMAIN Reads, Deliver(m)
    PROVE  Settled(c)'
<1> DEFINE r == ReadBack[c]
           v == setting[Reads[r]]
<1>1. r \in DOMAIN Reads /\ r \notin Settings BY ControlAssumption
<1>2. air # <<>> /\ Head(air)[1] = m /\ air' = Tail(air) /\ setting' = setting BY DEF Deliver
<1>3. /\ OptionOf(c, v) # None /\ shown[c] = OptionOf(c, v)
      /\ data[r] = v /\ AirSays(c, v) /\ NothingSets(c)
  BY SettledIs
<1>4. AirSays(c, v)' BY <1>2, <1>3, AirMoves DEF IInv, AirSays
<1>5. m = r => Head(air)[2] = v
  <2>1. air \in Seq(Notifications) BY DEF IInv, AirOK
  <2>2. 1 \in 1..Len(air) /\ Head(air) = air[1] BY <1>2, <2>1
  <2> QED BY <1>2, <1>3, <2>2 DEF AirSays
<1>6. asking => calls # <<>> BY DEF IInv, TypeOK
<1>7. CASE m \in DOMAIN Reads
  <2> DEFINE d == [data EXCEPT ![m] = Head(air)[2]]
  <2>1. Round(d) /\ data' = d BY <1>7 DEF Deliver, Round
  <2>2. d[r] = v BY <1>1, <1>3, <1>5, <1>7 DEF IInv, TypeOK
  <2> HIDE DEF d
  <2>3. shown'[c] = shown[c] BY <1>3, <2>1, <2>2, RoundSettles
  <2>4. calls' = calls \/ (calls # <<>> /\ calls' = Tail(calls))
    BY <1>6, <1>7 DEF Deliver
  <2>5. NothingSets(c)' BY <1>3, <2>4, QueueMoves DEF IInv
  <2> QED BY <1>2, <1>3, <1>4, <2>1, <2>2, <2>3, <2>5, SettledKept
<1>8. CASE m \notin DOMAIN Reads
  <2>1. data' = data BY <1>8 DEF Deliver
  <2>2. shown'[c] = shown[c] /\ NothingSets(c)'
    <3>1. PICK before \in {shown, IF m \in Statuses THEN Shows(data) ELSE shown} :
            IF asking /\ Head(calls).command = m
            THEN Return(before, TRUE)
            ELSE shown' = before /\ UNCHANGED <<calls, serveVars, doubt>>
      BY <1>8 DEF Deliver
    <3>2. /\ before \in [Controls -> AnyOption \cup {None}]
          /\ \A x \in Controls : before[x] \in Options[x] \cup {None}
          /\ before[c] = shown[c]
      <4>1. CASE before = shown BY <4>1 DEF IInv, TypeOK
      <4>2. CASE before = Shows(data)
        <5>1. Shows(data)[c] = shown[c] BY <1>3 DEF Shows, Synced
        <5> QED BY <4>2, <5>1, ShowsKeeps DEF IInv
      <4> QED BY <3>1, <4>1, <4>2
    <3>3. CASE asking /\ Head(calls).command = m
      <4>1. Return(before, TRUE) BY <3>1, <3>3
      <4> QED BY <1>3, <1>6, <3>2, <3>3, <4>1, SettledReturn
    <3>4. CASE ~(asking /\ Head(calls).command = m)
      <4>1. calls' = calls /\ shown' = before BY <3>1, <3>4
      <4> QED BY <1>3, <3>2, <4>1 DEF NothingSets
    <3> QED BY <3>3, <3>4
  <2> QED BY <1>2, <1>4, <2>1, <2>2, SettledKept
<1> QED BY <1>7, <1>8

LEMMA SettledExpires ==
    ASSUME IInv, NEW c \in Controls, ReadBack[c] # None, Settled(c), Expires
    PROVE  Settled(c)'
<1> DEFINE v == setting[Reads[ReadBack[c]]]
<1>1. calls # <<>> /\ setting' = setting /\ data' = data BY DEF Expires, IInv, TypeOK
<1>2. AirSays(c, v) /\ NothingSets(c) BY SettledIs
<1>3. air' = air \/ air' = <<>> BY DEF Expires
<1>4. AirSays(c, v)' BY <1>1, <1>2, <1>3, AirMoves DEF IInv, AirSays
<1>5. shown'[c] = shown[c] /\ NothingSets(c)'
  <2>1. CASE attempt < Attempts BY <1>2, <2>1 DEF Expires, NothingSets
  <2>2. CASE ~(attempt < Attempts)
    <3>1. Return(shown, FALSE) BY <2>2 DEF Expires
    <3>2. /\ shown \in [Controls -> AnyOption \cup {None}]
          /\ \A x \in Controls : shown[x] \in Options[x] \cup {None}
      BY DEF IInv, TypeOK
    <3> QED BY <1>1, <1>2, <3>1, <3>2, SettledReturn
  <2> QED BY <2>1, <2>2
<1> QED BY <1>1, <1>4, <1>5, SettledKept

LEMMA SettledQueued ==
    ASSUME IInv, NEW c \in Controls, ReadBack[c] # None, Settled(c),
           NEW call \in Requests, calls' = Append(calls, call),
           SetsOther(call, c), UNCHANGED <<setting, air, data, shown>>
    PROVE  Settled(c)'
<1>1. AirSays(c, setting[Reads[ReadBack[c]]]) /\ NothingSets(c) BY SettledIs
<1>2. NothingSets(c)' BY <1>1, QueueMoves DEF IInv
<1> QED BY <1>1, <1>2, SettledKept DEF AirSays

LEMMA SettledStep ==
    ASSUME IInv, [Next]_vars, NEW c \in Controls, ReadBack[c] # None, Settled(c), ~Resets(c)
    PROVE  Settled(c)'
<1> DEFINE r == ReadBack[c]
           s == Reads[r]
<1>1. r \in DOMAIN Reads /\ s \in Settings /\ r \notin Settings BY ControlAssumption
<1>2. /\ OptionOf(c, setting[s]) # None /\ shown[c] = OptionOf(c, setting[s])
      /\ data[r] = setting[s] /\ AirSays(c, setting[s]) /\ NothingSets(c)
  BY SettledIs
<1>3. ASSUME NEW d \in Controls, NEW o \in Options[d], Choose(d, o) PROVE Settled(c)'
  <2>1. d # c /\ Frame[d][o][1] # s BY <1>3 DEF Resets
  <2>2. Call(d, o).control = d /\ Call(d, o).command = Frame[d][o][1] BY DEF Call
  <2>3. calls' = Append(calls, Call(d, o)) /\ UNCHANGED <<setting, air, data, shown>>
    BY <1>3 DEF Choose, deviceVars, entityVars
  <2>4. SetsOther(Call(d, o), c) BY <2>1, <2>2 DEF SetsOther
  <2> QED BY <2>3, <2>4, CallIsRequest, SettledQueued
<1>4. ASSUME NEW q \in DOMAIN Reads \cup Statuses, StartPoll(q) PROVE Settled(c)'
  <2>1. Poll(q).control = None BY DEF Poll
  <2>2. SetsOther(Poll(q), c) BY <2>1, NoneIsNoControl DEF SetsOther, IsPoll
  <2>3. calls' = Append(calls, Poll(q)) /\ UNCHANGED <<setting, air, data, shown>>
    BY <1>4 DEF StartPoll, deviceVars, entityVars
  <2> QED BY <2>2, <2>3, PollIsRequest, SettledQueued
<1>5. CASE Misses
  BY <1>5, <1>2, SettledKept DEF Misses, deviceVars, entityVars, AirSays, NothingSets
<1>6. CASE Advertised
  <2>1. Round(data) /\ data' = data /\ UNCHANGED <<setting, air, calls>>
    BY <1>6 DEF Advertised, Round, deviceVars
  <2>2. shown'[c] = shown[c] BY <1>2, <2>1, RoundSettles
  <2> QED BY <1>2, <2>1, <2>2, SettledKept DEF AirSays, NothingSets
<1>7. ASSUME NEW t \in Settings, NEW v \in Values[t], ChangesOutside(t, v) PROVE Settled(c)'
  <2>1. t # s BY <1>7 DEF Resets
  <2>2. setting'[s] = setting[s] /\ UNCHANGED <<air, calls, data, shown>>
    BY <1>1, <1>7, <2>1 DEF ChangesOutside, entityVars, IInv, TypeOK
  <2> QED BY <1>2, <2>2, SettledKept DEF AirSays, NothingSets
<1>8. CASE UNCHANGED vars
  BY <1>8, <1>2, SettledKept DEF vars, AirSays, NothingSets
<1> QED
  BY <1>3, <1>4, <1>5, <1>6, <1>7, <1>8, SettledServed, SettledDelivered, SettledExpires DEF Next

(* Nothing but a user or the app moves a control away from what the battery is set to once it has
   settled on that, in any number of controls, calls and polls: what is left of Converges is that
   it settles (select.py 188-226, switch.py 105-150). *)
THEOREM SettledControlsStay == Spec => SettledStays
<1>1. Spec => Init /\ [][Next]_vars BY DEF Spec
<1>2. IInv /\ [Next]_vars =>
        [\A c \in Controls : ReadBack[c] # None /\ Settled(c) => Settled(c)' \/ Resets(c)]_vars
  BY SettledStep
<1> QED BY <1>1, <1>2, InvariantHolds, PTL DEF SettledStays
=============================================================================
