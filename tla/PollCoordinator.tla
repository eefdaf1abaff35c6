-------------------------- MODULE PollCoordinator --------------------------
(***************************************************************************)
(* The polling coordinators of several batteries: coordinator.py and       *)
(* product_coordinator.py.  Each battery has a coordinator; a poll of it   *)
(* is started by the time trigger or by an advertisement, waits for the    *)
(* poll lock, and sends the fast group of commands and, when it is due,    *)
(* the medium group.  The backoff is one pair of module globals that all   *)
(* coordinators share.                                                     *)
(*                                                                         *)
(* A poll is a pair of its coordinator and a slot: Event for the polls     *)
(* that Home Assistant's debouncer starts one at a time, a time slot for   *)
(* each poll the time trigger may have under way.  The result of           *)
(* send_command is nondeterministic (CommandChannel says what it means).   *)
(* Time is counted in units; _GLOBAL_BACKOFF_UNTIL, _last_poll_started_at  *)
(* and the trigger's next call are kept as distances from now, and         *)
(* _fast_poll_count modulo the cycle, the only way the code reads it.      *)
(***************************************************************************)
EXTENDS Naturals, Sequences

CONSTANTS
    Coordinators,
    TimeSlots,          \* bound on the time polls of one coordinator under way
    Event,              \* the slot of the polls advertisements start
    None,
    Backoffs,           \* BACKOFF_INTERVALS
    Requests,           \* pairs of intervals the options may ask for
    MinFast, MaxFast, MinMedium, MaxMedium,
    FastCommands, MediumCommands    \* lengths of the two groups

Slots == TimeSlots \cup {Event}
Polls == Coordinators \X Slots

ASSUME SlotsAssumption == Event \notin TimeSlots /\ None \notin Polls

ASSUME BackoffAssumption == Backoffs \in Seq(Nat) /\ Len(Backoffs) > 1

ASSUME IntervalAssumption ==
    /\ {MinFast, MaxFast, MinMedium, MaxMedium} \subseteq Nat \ {0}
    /\ MinFast <= MaxFast /\ MinMedium <= MaxMedium /\ MaxFast <= MaxMedium
    /\ Requests \subseteq Nat \X Nat /\ Requests # {}

ASSUME CommandsAssumption == {FastCommands, MediumCommands} \subseteq Nat \ {0}

VARIABLES
    level,      \* _GLOBAL_BACKOFF_LEVEL
    window,     \* time left until _GLOBAL_BACKOFF_UNTIL, 0 if None or past
    fast, medium, cycle,    \* the intervals, and _medium_poll_cycle
    count,      \* _fast_poll_count modulo cycle
    initialDone,
    seen,       \* _last_service_info is not None
    failed,     \* _current_poll_commands holds a failure
    lock,       \* holder of _poll_lock
    next,       \* time until the time trigger calls
    age,        \* time since _last_poll_started_at, capped at MaxFast
    pc,         \* where each poll is
    left,       \* commands left in the group it sends
    gap         \* observer: fast groups since the last medium group or change

vars == <<level, window, fast, medium, cycle, count, initialDone, seen, failed, lock,
          next, age, pc, left, gap>>

backoffVars  == <<level, window>>
scheduleVars == <<fast, medium, cycle>>

MaxLevel == Len(Backoffs) - 1

Running == {"fast", "medium"}

TypeOK ==
    /\ level \in 0..MaxLevel
    /\ window \in Nat
    /\ fast \in [Coordinators -> MinFast..MaxFast]
    /\ medium \in [Coordinators -> MinMedium..MaxMedium]
    /\ cycle \in [Coordinators -> Nat \ {0}]
    /\ count \in [Coordinators -> Nat]
    /\ initialDone \in [Coordinators -> BOOLEAN]
    /\ seen \in [Coordinators -> BOOLEAN]
    /\ failed \in [Coordinators -> BOOLEAN]
    /\ lock \in [Coordinators -> Polls \cup {None}]
    /\ next \in [Coordinators -> Nat]
    /\ age \in [Coordinators -> 0..MaxFast]
    /\ pc \in [Polls -> {"idle", "wantLock", "fast", "medium"}]
    /\ left \in [Polls -> Nat]
    /\ gap \in [Coordinators -> Nat]

----------------------------------------------------------------------------
(* Intervals                                                               *)

SanitizeFast(f) ==
    IF f < MinFast THEN MinFast ELSE IF f > MaxFast THEN MaxFast ELSE f

SanitizeMedium(m, f) ==
    LET clamped == IF m < MinMedium THEN MinMedium
                   ELSE IF m > MaxMedium THEN MaxMedium ELSE m
    IN  IF clamped < f THEN f ELSE clamped

\* math.ceil(m / f)
Cycle(m, f) == (m + f - 1) \div f

Init ==
    /\ level = 0 /\ window = 0
    /\ \E request \in [Coordinators -> Requests] :
         /\ fast = [c \in Coordinators |-> SanitizeFast(request[c][1])]
         /\ medium = [c \in Coordinators |-> SanitizeMedium(request[c][2], fast[c])]
    /\ cycle = [c \in Coordinators |-> Cycle(medium[c], fast[c])]
    /\ count = [c \in Coordinators |-> 0]
    /\ initialDone = [c \in Coordinators |-> FALSE]
    /\ seen = [c \in Coordinators |-> FALSE]
    /\ failed = [c \in Coordinators |-> FALSE]
    /\ lock = [c \in Coordinators |-> None]
    /\ next = fast
    /\ age = [c \in Coordinators |-> MaxFast]
    /\ pc = [p \in Polls |-> "idle"]
    /\ left = [p \in Polls |-> 0]
    /\ gap = [c \in Coordinators |-> 0]

\* Mutant: the cycle is not recomputed.
SetIntervalsKeepsCycle(c, f, m) ==
    LET newFast == SanitizeFast(f)
        newMedium == SanitizeMedium(m, newFast)
    IN  /\ <<newFast, newMedium>> # <<fast[c], medium[c]>>
        /\ fast' = [fast EXCEPT ![c] = newFast]
        /\ medium' = [medium EXCEPT ![c] = newMedium]
        /\ next' = [next EXCEPT ![c] = newFast]
        /\ count' = [count EXCEPT ![c] = 0]
        /\ gap' = [gap EXCEPT ![c] = 0]
        /\ UNCHANGED <<backoffVars, cycle, initialDone, seen, failed, lock, age, pc, left>>

\* Mutant: the counter is not reset.
SetIntervalsKeepsCount(c, f, m) ==
    LET newFast == SanitizeFast(f)
        newMedium == SanitizeMedium(m, newFast)
    IN  /\ <<newFast, newMedium>> # <<fast[c], medium[c]>>
        /\ fast' = [fast EXCEPT ![c] = newFast]
        /\ medium' = [medium EXCEPT ![c] = newMedium]
        /\ cycle' = [cycle EXCEPT ![c] = Cycle(newMedium, newFast)]
        /\ next' = [next EXCEPT ![c] = newFast]
        /\ gap' = [gap EXCEPT ![c] = 0]
        /\ UNCHANGED <<backoffVars, count, initialDone, seen, failed, lock, age, pc, left>>

\* set_poll_intervals, called at any time by the options listener: it takes no
\* lock, and a poll under way goes on with the counters reset.
SetIntervals(c, f, m) ==
    LET newFast == SanitizeFast(f)
        newMedium == SanitizeMedium(m, newFast)
    IN  /\ <<newFast, newMedium>> # <<fast[c], medium[c]>>
        /\ fast' = [fast EXCEPT ![c] = newFast]
        /\ medium' = [medium EXCEPT ![c] = newMedium]
        /\ cycle' = [cycle EXCEPT ![c] = Cycle(newMedium, newFast)]
        /\ next' = [next EXCEPT ![c] = newFast]
        /\ count' = [count EXCEPT ![c] = 0]
        /\ gap' = [gap EXCEPT ![c] = 0]
        /\ UNCHANGED <<backoffVars, initialDone, seen, failed, lock, age, pc, left>>

----------------------------------------------------------------------------
(* The two triggers                                                        *)

TimePasses ==
    /\ \A c \in Coordinators : next[c] > 0
    /\ next' = [c \in Coordinators |-> next[c] - 1]
    /\ window' = IF window > 0 THEN window - 1 ELSE 0
    /\ age' = [c \in Coordinators |-> IF age[c] < MaxFast THEN age[c] + 1 ELSE MaxFast]
    /\ UNCHANGED <<level, scheduleVars, count, initialDone, seen, failed, lock, pc, left,
                   gap>>

\* _async_time_poll is called: a poll begins to wait for the lock.
TimePoll(c, slot) ==
    /\ next[c] = 0
    /\ pc[<<c, slot>>] = "idle"
    /\ next' = [next EXCEPT ![c] = fast[c]]
    /\ pc' = [pc EXCEPT ![<<c, slot>>] = "wantLock"]
    /\ UNCHANGED <<backoffVars, scheduleVars, count, initialDone, seen, failed, lock, age,
                   left, gap>>

\* It returns at once when no advertisement was ever used and the battery is not
\* connectable now.
TimePollSkipped(c) ==
    /\ next[c] = 0
    /\ ~seen[c]
    /\ next' = [next EXCEPT ![c] = fast[c]]
    /\ UNCHANGED <<backoffVars, scheduleVars, count, initialDone, seen, failed, lock, age,
                   pc, left, gap>>

\* An advertisement: _needs_poll looks only at whether the battery is connectable.
EventPoll(c) ==
    /\ pc[<<c, Event>>] = "idle"
    /\ pc' = [pc EXCEPT ![<<c, Event>>] = "wantLock"]
    /\ UNCHANGED <<backoffVars, scheduleVars, count, initialDone, seen, failed, lock, next,
                   age, left, gap>>

----------------------------------------------------------------------------
(* _async_run_poll                                                         *)

\* The poll goes on with n commands of a group.
Enter(p, group, n) ==
    /\ pc' = [pc EXCEPT ![p] = group]
    /\ left' = [left EXCEPT ![p] = n]

\* The lock is free, and there is a backoff window: the poll is skipped.
PollSkipped(p) ==
    /\ pc[p] = "wantLock"
    /\ lock[p[1]] = None
    /\ window > 0
    /\ Enter(p, "idle", 0)
    /\ UNCHANGED <<backoffVars, scheduleVars, count, initialDone, seen, failed, lock, next,
                   age, gap>>

\* Mutant: the poll does not wait for the lock.
PollStartsUnguarded(p) ==
    /\ pc[p] = "wantLock"
    /\ window = 0
    /\ lock' = [lock EXCEPT ![p[1]] = p]
    /\ failed' = [failed EXCEPT ![p[1]] = FALSE]
    /\ seen' = [seen EXCEPT ![p[1]] = TRUE]
    /\ age' = [age EXCEPT ![p[1]] = 0]
    /\ Enter(p, "fast", FastCommands)
    /\ UNCHANGED <<backoffVars, scheduleVars, count, initialDone, next, gap>>

PollStarts(p) ==
    /\ pc[p] = "wantLock"
    /\ lock[p[1]] = None
    /\ window = 0
    /\ lock' = [lock EXCEPT ![p[1]] = p]
    /\ failed' = [failed EXCEPT ![p[1]] = FALSE]
    /\ seen' = [seen EXCEPT ![p[1]] = TRUE]
    /\ age' = [age EXCEPT ![p[1]] = 0]
    /\ Enter(p, "fast", FastCommands)
    /\ UNCHANGED <<backoffVars, scheduleVars, count, initialDone, next, gap>>

\* A command of the group succeeded or failed (_safe_send_and_sleep swallows the
\* exception), and it was not the last one.
CommandDone(p, ok) ==
    /\ pc[p] \in Running
    /\ left[p] > 1
    /\ failed' = [failed EXCEPT ![p[1]] = @ \/ ~ok]
    /\ left' = [left EXCEPT ![p] = @ - 1]
    /\ UNCHANGED <<backoffVars, scheduleVars, count, initialDone, seen, lock, next, age, pc,
                   gap>>

\* Mutants: the level has no cap; the deadline outlives a success.
HandleBackoffUncapped(hadFailure) ==
    IF hadFailure
      THEN level' = level + 1 /\ window' = Backoffs[Len(Backoffs)]
      ELSE level' = 0 /\ window' = 0

HandleBackoffKeepsWindow(hadFailure) ==
    IF hadFailure
      THEN /\ level' = IF level < MaxLevel THEN level + 1 ELSE level
           /\ window' = Backoffs[level' + 1]
      ELSE level' = 0 /\ UNCHANGED window

\* _handle_backoff, on the globals.
HandleBackoff(hadFailure) ==
    IF hadFailure
      THEN /\ level' = IF level < MaxLevel THEN level + 1 ELSE level
           /\ window' = Backoffs[level' + 1]
      ELSE level' = 0 /\ window' = 0

\* Mutant: a poll with a failure does not give the lock back.
PollEndsLocked(p, hadFailure) ==
    /\ HandleBackoff(hadFailure)
    /\ initialDone' = [initialDone EXCEPT ![p[1]] = TRUE]
    /\ lock' = IF hadFailure THEN lock ELSE [lock EXCEPT ![p[1]] = None]
    /\ Enter(p, "idle", 0)

\* The end of the poll, in the step of its last command.
PollEnds(p, hadFailure) ==
    /\ HandleBackoff(hadFailure)
    /\ initialDone' = [initialDone EXCEPT ![p[1]] = TRUE]
    /\ lock' = [lock EXCEPT ![p[1]] = None]
    /\ Enter(p, "idle", 0)

\* Mutant: no medium group after a failure in the fast one.
FastGroupDoneStrict(p, ok) ==
    LET c == p[1] IN
    /\ pc[p] = "fast"
    /\ left[p] = 1
    /\ failed' = [failed EXCEPT ![c] = @ \/ ~ok]
    /\ count' = [count EXCEPT ![c] = (@ + 1) % cycle[c]]
    /\ IF (~initialDone[c] \/ count'[c] = 0) /\ ~failed'[c]
         THEN /\ Enter(p, "medium", MediumCommands)
              /\ gap' = [gap EXCEPT ![c] = 0]
              /\ UNCHANGED <<backoffVars, initialDone, lock>>
         ELSE /\ PollEnds(p, failed'[c])
              /\ gap' = [gap EXCEPT ![c] = @ + 1]
    /\ UNCHANGED <<scheduleVars, seen, next, age>>

\* The last fast command is done: the medium group follows when it is due.
FastGroupDone(p, ok) ==
    LET c == p[1] IN
    /\ pc[p] = "fast"
    /\ left[p] = 1
    /\ failed' = [failed EXCEPT ![c] = @ \/ ~ok]
    /\ count' = [count EXCEPT ![c] = (@ + 1) % cycle[c]]
    /\ IF ~initialDone[c] \/ count'[c] = 0
         THEN /\ Enter(p, "medium", MediumCommands)
              /\ gap' = [gap EXCEPT ![c] = 0]
              /\ UNCHANGED <<backoffVars, initialDone, lock>>
         ELSE /\ PollEnds(p, failed'[c])
              /\ gap' = [gap EXCEPT ![c] = @ + 1]
    /\ UNCHANGED <<scheduleVars, seen, next, age>>

MediumGroupDone(p, ok) ==
    /\ pc[p] = "medium"
    /\ left[p] = 1
    /\ failed' = [failed EXCEPT ![p[1]] = @ \/ ~ok]
    /\ PollEnds(p, failed'[p[1]])
    /\ UNCHANGED <<scheduleVars, count, seen, next, age, gap>>

----------------------------------------------------------------------------

Trigger(c) == TimePollSkipped(c) \/ \E slot \in TimeSlots : TimePoll(c, slot)

AcquireLock(p) == PollSkipped(p) \/ PollStarts(p)

CommandStep(p) ==
    \E ok \in BOOLEAN : CommandDone(p, ok) \/ FastGroupDone(p, ok) \/ MediumGroupDone(p, ok)

Next ==
    \/ TimePasses
    \/ \E c \in Coordinators, r \in Requests : SetIntervals(c, r[1], r[2])
    \/ \E c \in Coordinators : Trigger(c) \/ EventPoll(c)
    \/ \E p \in Polls : AcquireLock(p) \/ CommandStep(p)

Spec == Init /\ [][Next]_vars

(* Time goes on, the time trigger is called, commands come to an end (which *)
(* BleDeviceRefines shows), and asyncio.Lock serves its waiters in turn.    *)
Fairness ==
    /\ WF_vars(TimePasses)
    /\ \A c \in Coordinators : WF_vars(Trigger(c))
    /\ \A p \in Polls : WF_vars(CommandStep(p)) /\ SF_vars(AcquireLock(p))

FairSpec == Spec /\ Fairness

----------------------------------------------------------------------------
(* Properties                                                              *)

\* The list of results, the counters and the start time of a coordinator belong
\* to one poll at a time, though two triggers start polls (303, 323).
OnePollAtATime ==
    \A p, q \in Polls : pc[p] \in Running /\ pc[q] \in Running /\ p[1] = q[1] => p = q

\* A backoff window is never longer than the level allows and never outlasts
\* the level, whichever coordinators fail and succeed in turn (391-413).
WindowMatchesLevel ==
    window > 0 => level > 0 /\ window <= Backoffs[level + 1]

\* The medium group is not put off: unless the intervals change, there is one in
\* every cycle of fast groups, failures and resets in mid-poll included (262-370).
MediumKeepsUp == \A c \in Coordinators : gap[c] < cycle[c]

\* Nor is it hurried: after the first poll the medium groups are a cycle of fast
\* groups apart, the first pair perhaps one less, as the poll that is first sends
\* both groups and counts one; interval changes in mid-poll begin a cycle anew
\* (262-263, 339-370).
MediumOnTime ==
    [][\A p \in Polls :
           pc[p] = "fast" /\ pc'[p] = "medium" /\ initialDone[p[1]] =>
               gap[p[1]] + 2 >= cycle[p[1]]]_vars

\* The lock is held by the poll that runs, and by no other.
LockHeld == \A p \in Polls : pc[p] \in Running <=> lock[p[1]] = p

\* The counter is within the cycle and knows of every group the observer counts.
CountKnowsGap == \A c \in Coordinators : gap[c] <= count[c] /\ count[c] < cycle[c]

\* The counter is at most one ahead of the observer, by the group of the first poll.
CountStaysNear ==
    \A c \in Coordinators :
        /\ count[c] <= gap[c] + 1
        /\ ~initialDone[c] => \/ count[c] = 0
                              \/ \E p \in Polls : p[1] = c /\ pc[p] = "medium"

\* Inductive; proved in PollProofs.
IInv == TypeOK /\ LockHeld /\ WindowMatchesLevel /\ CountKnowsGap

\* The medium interval is met by the schedule in force: the shortest whole number
\* of fast intervals that is no shorter, and never faster than the fast interval
\* (README "never faster than the fast interval"); the trigger keeps that pace.
Cadence ==
    \A c \in Coordinators :
        /\ medium[c] >= fast[c]
        /\ cycle[c] * fast[c] >= medium[c]
        /\ (cycle[c] - 1) * fast[c] < medium[c]
        /\ next[c] <= fast[c]

\* Once a battery was seen, polls start and end again and again: backoff never
\* turns polling off for good.
PollsGoOn ==
    /\ \A p \in Polls : pc[p] # "idle" ~> pc[p] = "idle"
    /\ []<>(\/ \A c \in Coordinators : ~seen[c]
            \/ \E p \in Polls : pc[p] \in Running)

\* Polls of a coordinator start at least a fast interval apart ("runs at the
\* configured base interval", 363).  The code breaks this: advertisements start
\* polls whatever their age, and polls that waited for the lock follow at once.
FastPollsSpaced ==
    [][\A p \in Polls : pc[p] = "wantLock" /\ pc'[p] = "fast" =>
           age[p[1]] >= fast[p[1]]]_vars
=============================================================================
