----------------------------- MODULE PollProofs -----------------------------
(***************************************************************************)
(* Proofs about PollCoordinator, for any number of batteries and polls,    *)
(* any backoff table and any bounds and requests of intervals.             *)
(***************************************************************************)
EXTENDS PollCoordinator, TLAPS

LEMMA FastBounds ==
    ASSUME NEW f \in Nat
    PROVE  SanitizeFast(f) \in MinFast..MaxFast
BY IntervalAssumption DEF SanitizeFast

LEMMA MediumBounds ==
    ASSUME NEW m \in Nat, NEW f \in MinFast..MaxFast
    PROVE  /\ SanitizeMedium(m, f) \in Nat
           /\ SanitizeMedium(m, f) >= f
           /\ SanitizeMedium(m, f) <= MaxMedium
           /\ SanitizeMedium(m, f) >= MinMedium
BY IntervalAssumption DEF SanitizeMedium

LEMMA CyclePositive ==
    ASSUME NEW m \in Nat, NEW f \in Nat \ {0}, m >= f
    PROVE  Cycle(m, f) \in Nat \ {0}
BY DEF Cycle

LEMMA CountStep ==
    ASSUME NEW n \in Nat, NEW k \in Nat \ {0}, n < k
    PROVE  /\ (n + 1) % k \in Nat
           /\ (n + 1) % k < k
           /\ (n + 1) % k # 0 => (n + 1) % k = n + 1
OBVIOUS

----------------------------------------------------------------------------
(* The inductive invariant.  Every step of a poll p changes pc and lock only *)
(* for p, so the lock part is one lemma: p runs after the step exactly when  *)
(* it holds the lock after the step, and no other poll gained or lost it.    *)

LEMMA PollCoordinatorOf == ASSUME NEW p \in Polls PROVE p[1] \in Coordinators
BY DEF Polls

LEMMA LockStep ==
    ASSUME TypeOK, LockHeld, NEW p \in Polls, NEW where, NEW holder,
           pc' = [pc EXCEPT ![p] = where],
           lock' = [lock EXCEPT ![p[1]] = holder],
           where \in Running => lock[p[1]] \in {None, p} /\ holder = p,
           where \notin Running => pc[p] \in Running /\ holder = None
    PROVE  LockHeld'
<1> SUFFICES ASSUME NEW q \in Polls
             PROVE  pc'[q] \in Running <=> lock'[q[1]] = q
    BY DEF LockHeld
<1> USE SlotsAssumption
<1>1. p[1] \in Coordinators /\ q[1] \in Coordinators
    BY PollCoordinatorOf
<1>2. /\ pc[q] \in Running <=> lock[q[1]] = q
      /\ pc[p] \in Running <=> lock[p[1]] = p
    BY DEF LockHeld
<1>3. CASE q = p
    BY <1>1, <1>3 DEF TypeOK
<1>4. CASE q # p /\ q[1] = p[1]
    BY <1>1, <1>2, <1>4 DEF TypeOK
<1>5. CASE q[1] # p[1]
    BY <1>1, <1>2, <1>5 DEF TypeOK
<1> QED BY <1>3, <1>4, <1>5

LEMMA BackoffStep ==
    ASSUME TypeOK, WindowMatchesLevel, NEW hadFailure \in BOOLEAN,
           HandleBackoff(hadFailure)
    PROVE  /\ level' \in 0..MaxLevel
           /\ window' \in Nat
           /\ WindowMatchesLevel'
<1>1. Len(Backoffs) \in Nat /\ Len(Backoffs) > 1 /\ \A i \in 1..Len(Backoffs) : Backoffs[i] \in Nat
    BY BackoffAssumption
<1>2. level \in 0..(Len(Backoffs) - 1)
    BY DEF TypeOK, MaxLevel
<1>3. CASE hadFailure
  <2>1. level' = IF level < MaxLevel THEN level + 1 ELSE level
      BY <1>3 DEF HandleBackoff
  <2>2. window' = Backoffs[level' + 1]
      BY <1>3 DEF HandleBackoff
  <2>3. level' \in 1..MaxLevel
      BY <1>1, <1>2, <2>1 DEF MaxLevel
  <2>4. window' \in Nat
      BY <1>1, <2>2, <2>3 DEF MaxLevel
  <2> QED
      BY <1>1, <2>2, <2>3, <2>4 DEF WindowMatchesLevel, MaxLevel
<1>4. CASE ~hadFailure
    BY <1>1, <1>4 DEF HandleBackoff, WindowMatchesLevel, MaxLevel
<1> QED BY <1>3, <1>4

LEMMA IntervalStep ==
    ASSUME NEW f \in Nat, NEW m \in Nat
    PROVE  LET g == SanitizeFast(f)
               n == SanitizeMedium(m, g)
           IN  /\ g \in MinFast..MaxFast
               /\ g \in Nat
               /\ n \in MinMedium..MaxMedium
               /\ Cycle(n, g) \in Nat \ {0}
<1> DEFINE g == SanitizeFast(f)
           n == SanitizeMedium(m, g)
<1>1. g \in MinFast..MaxFast
    BY FastBounds
<1>2. g \in Nat \ {0}
    BY <1>1, IntervalAssumption
<1>3. n \in Nat /\ n >= g /\ n <= MaxMedium /\ n >= MinMedium
    BY <1>1, MediumBounds
<1>4. Cycle(n, g) \in Nat \ {0}
    BY <1>2, <1>3, CyclePositive
<1>5. n \in MinMedium..MaxMedium
    BY <1>3, IntervalAssumption
<1> QED BY <1>1, <1>2, <1>4, <1>5

LEMMA InvInit == Init => IInv
<1> SUFFICES ASSUME Init PROVE IInv
    OBVIOUS
<1>1. PICK request \in [Coordinators -> Requests] :
        /\ fast = [c \in Coordinators |-> SanitizeFast(request[c][1])]
        /\ medium = [c \in Coordinators |-> SanitizeMedium(request[c][2], fast[c])]
    BY DEF Init
<1>2. ASSUME NEW c \in Coordinators
      PROVE  /\ fast[c] \in MinFast..MaxFast
             /\ fast[c] \in Nat
             /\ medium[c] \in MinMedium..MaxMedium
             /\ Cycle(medium[c], fast[c]) \in Nat \ {0}
  <2>1. request[c][1] \in Nat /\ request[c][2] \in Nat
      BY IntervalAssumption
  <2>2. fast[c] = SanitizeFast(request[c][1]) /\ medium[c] = SanitizeMedium(request[c][2], fast[c])
      BY <1>1
  <2> QED BY <2>1, <2>2, IntervalStep
<1>3. MaxLevel \in Nat
    BY BackoffAssumption DEF MaxLevel
<1>4. MaxFast \in Nat
    BY IntervalAssumption
<1>5. TypeOK
  <2>1. /\ fast \in [Coordinators -> MinFast..MaxFast]
        /\ medium \in [Coordinators -> MinMedium..MaxMedium]
      BY <1>1, <1>2
  <2>2. cycle \in [Coordinators -> Nat \ {0}]
      BY <1>2 DEF Init
  <2>3. next \in [Coordinators -> Nat]
      BY <1>2, <2>1 DEF Init
  <2> QED BY <1>3, <1>4, <2>1, <2>2, <2>3 DEF TypeOK, Init
<1>6. LockHeld
  <2> SUFFICES ASSUME NEW p \in Polls PROVE pc[p] \in Running <=> lock[p[1]] = p
      BY DEF LockHeld
  <2>1. pc[p] = "idle"
      BY DEF Init
  <2>2. lock[p[1]] = None /\ None # p
      BY SlotsAssumption, PollCoordinatorOf DEF Init
  <2> QED BY <2>1, <2>2 DEF Running
<1>7. WindowMatchesLevel
    BY DEF WindowMatchesLevel, Init
<1>8. CountKnowsGap
  <2> SUFFICES ASSUME NEW c \in Coordinators
               PROVE  gap[c] <= count[c] /\ count[c] < cycle[c]
      BY DEF CountKnowsGap
  <2>1. cycle[c] \in Nat \ {0} /\ count[c] = 0 /\ gap[c] = 0
      BY <1>2 DEF Init
  <2> QED BY <2>1
<1> QED BY <1>5, <1>6, <1>7, <1>8 DEF IInv

----------------------------------------------------------------------------

LEMMA SetIntervalsStep ==
    ASSUME IInv, NEW c \in Coordinators, NEW r \in Requests, SetIntervals(c, r[1], r[2])
    PROVE  IInv'
<1> USE DEF SetIntervals, IInv
<1>1. r[1] \in Nat /\ r[2] \in Nat
    BY IntervalAssumption
<1> DEFINE g == SanitizeFast(r[1])
           n == SanitizeMedium(r[2], g)
<1>2. g \in MinFast..MaxFast /\ g \in Nat /\ n \in MinMedium..MaxMedium /\ Cycle(n, g) \in Nat \ {0}
    BY <1>1, IntervalStep
<1>3. /\ fast' = [fast EXCEPT ![c] = g]
      /\ medium' = [medium EXCEPT ![c] = n]
      /\ cycle' = [cycle EXCEPT ![c] = Cycle(n, g)]
      /\ next' = [next EXCEPT ![c] = g]
    OBVIOUS
<1> HIDE DEF g, n
<1>4. TypeOK'
    BY <1>2, <1>3 DEF TypeOK, backoffVars
<1>5. LockHeld'
    BY DEF LockHeld
<1>6. WindowMatchesLevel'
    BY DEF WindowMatchesLevel, backoffVars
<1>7. CountKnowsGap'
    BY <1>2, <1>3 DEF CountKnowsGap, TypeOK
<1> QED BY <1>4, <1>5, <1>6, <1>7

\* What the start of the fast or medium group and the end of the poll change.
LEMMA PollEndsStep ==
    ASSUME IInv, NEW p \in Polls, NEW hadFailure \in BOOLEAN, pc[p] \in Running,
           PollEnds(p, hadFailure)
    PROVE  /\ LockHeld' /\ WindowMatchesLevel'
           /\ level' \in 0..MaxLevel /\ window' \in Nat
           /\ initialDone' \in [Coordinators -> BOOLEAN]
           /\ lock' \in [Coordinators -> Polls \cup {None}]
           /\ pc' \in [Polls -> {"idle", "wantLock", "fast", "medium"}]
           /\ left' \in [Polls -> Nat]
<1> USE DEF IInv, PollEnds
<1>1. level' \in 0..MaxLevel /\ window' \in Nat /\ WindowMatchesLevel'
    BY BackoffStep
<1>2. LockHeld'
    BY LockStep DEF Enter, Running
<1>3. /\ initialDone' \in [Coordinators -> BOOLEAN]
      /\ lock' \in [Coordinators -> Polls \cup {None}]
      /\ pc' \in [Polls -> {"idle", "wantLock", "fast", "medium"}]
      /\ left' \in [Polls -> Nat]
    BY DEF TypeOK, Enter
<1> QED BY <1>1, <1>2, <1>3

LEMMA FastGroupDoneStep ==
    ASSUME IInv, NEW p \in Polls, NEW ok \in BOOLEAN, FastGroupDone(p, ok)
    PROVE  IInv'
<1> DEFINE c == p[1]
           due == ~initialDone[c] \/ count'[c] = 0
<1> USE DEF FastGroupDone, IInv
<1>1. c \in Coordinators /\ pc[p] \in Running
    BY PollCoordinatorOf DEF Running
<1>2. failed' \in [Coordinators -> BOOLEAN] /\ failed'[c] \in BOOLEAN
    BY <1>1 DEF TypeOK
<1>3. /\ count[c] \in Nat /\ cycle[c] \in Nat \ {0} /\ gap[c] \in Nat
      /\ gap[c] <= count[c] /\ count[c] < cycle[c]
    BY <1>1 DEF TypeOK, CountKnowsGap
<1>4. /\ count' = [count EXCEPT ![c] = (count[c] + 1) % cycle[c]]
      /\ cycle' = cycle
    BY DEF scheduleVars
<1>5. /\ count'[c] = (count[c] + 1) % cycle[c]
      /\ count'[c] \in Nat
      /\ count'[c] < cycle[c]
      /\ count'[c] # 0 => count'[c] = count[c] + 1
    BY <1>1, <1>3, <1>4, CountStep DEF TypeOK
<1>6. count' \in [Coordinators -> Nat]
    BY <1>1, <1>4, <1>5 DEF TypeOK
<1>7. CASE due
  <2>1. /\ pc' = [pc EXCEPT ![p] = "medium"]
        /\ left' = [left EXCEPT ![p] = MediumCommands]
        /\ gap' = [gap EXCEPT ![c] = 0]
        /\ level' = level /\ window' = window /\ initialDone' = initialDone /\ lock' = lock
      BY <1>7 DEF Enter, backoffVars
  <2>2. MediumCommands \in Nat
      BY CommandsAssumption
  <2>3. TypeOK'
      BY <1>2, <1>6, <2>1, <2>2 DEF TypeOK, scheduleVars
  <2>4. LockHeld'
    <3>1. lock[c] = p
        BY <1>1 DEF LockHeld
    <3>2. lock' = [lock EXCEPT ![p[1]] = p]
        BY <1>1, <2>1, <3>1 DEF TypeOK
    <3> QED BY <2>1, <3>1, <3>2, LockStep DEF Running
  <2>5. WindowMatchesLevel'
      BY <2>1 DEF WindowMatchesLevel
  <2>6. CountKnowsGap'
      BY <1>1, <1>4, <1>5, <2>1 DEF CountKnowsGap, TypeOK
  <2> QED BY <2>3, <2>4, <2>5, <2>6
<1>8. CASE ~due
  <2>1. PollEnds(p, failed'[c]) /\ gap' = [gap EXCEPT ![c] = @ + 1]
      BY <1>8
  <2>2. /\ LockHeld' /\ WindowMatchesLevel'
        /\ level' \in 0..MaxLevel /\ window' \in Nat
        /\ initialDone' \in [Coordinators -> BOOLEAN]
        /\ lock' \in [Coordinators -> Polls \cup {None}]
        /\ pc' \in [Polls -> {"idle", "wantLock", "fast", "medium"}]
        /\ left' \in [Polls -> Nat]
      BY <1>1, <1>2, <2>1, PollEndsStep
  <2>3. gap' \in [Coordinators -> Nat]
      BY <1>1, <1>3, <2>1 DEF TypeOK
  <2>4. UNCHANGED <<fast, medium, cycle, seen, next, age>>
      BY DEF scheduleVars
  <2>5. TypeOK'
    <3> HIDE DEF FastGroupDone, IInv
    <3> QED BY <1>2, <1>6, <2>2, <2>3, <2>4 DEF TypeOK, IInv
  <2>6. CountKnowsGap'
      BY <1>1, <1>3, <1>4, <1>5, <1>8, <2>1 DEF CountKnowsGap, TypeOK
  <2> QED BY <2>2, <2>5, <2>6
<1> QED BY <1>7, <1>8

LEMMA InvStep == IInv /\ [Next]_vars => IInv'
<1> SUFFICES ASSUME IInv, [Next]_vars PROVE IInv'
    OBVIOUS
<1>1. CASE TimePasses
  <2> USE <1>1 DEF TimePasses, IInv
  <2>1. TypeOK'
      BY IntervalAssumption DEF TypeOK, scheduleVars
  <2>2. WindowMatchesLevel'
      BY BackoffAssumption DEF WindowMatchesLevel, TypeOK, MaxLevel
  <2> QED BY <2>1, <2>2 DEF LockHeld, CountKnowsGap, scheduleVars
<1>2. ASSUME NEW c \in Coordinators, NEW r \in Requests, SetIntervals(c, r[1], r[2])
      PROVE  IInv'
    BY <1>2, SetIntervalsStep
<1>3. ASSUME NEW c \in Coordinators, NEW slot \in TimeSlots, TimePoll(c, slot)
      PROVE  IInv'
  <2> USE <1>3 DEF TimePoll, IInv
  <2>1. TypeOK'
    <3>1. <<c, slot>> \in Polls
        BY DEF Polls, Slots
    <3>2. fast[c] \in Nat
        BY IntervalAssumption DEF TypeOK
    <3>3. next' \in [Coordinators -> Nat]
        BY <3>2 DEF TypeOK
    <3>4. pc' \in [Polls -> {"idle", "wantLock", "fast", "medium"}]
        BY <3>1 DEF TypeOK
    <3> QED BY <3>3, <3>4 DEF TypeOK, backoffVars, scheduleVars
  <2>2. LockHeld'
      BY DEF LockHeld, TypeOK, Running
  <2> QED BY <2>1, <2>2 DEF WindowMatchesLevel, CountKnowsGap, backoffVars, scheduleVars
<1>4. ASSUME NEW c \in Coordinators, TimePollSkipped(c)
      PROVE  IInv'
  <2> USE <1>4 DEF TimePollSkipped, IInv
  <2>1. TypeOK'
      BY IntervalAssumption DEF TypeOK, backoffVars, scheduleVars
  <2> QED BY <2>1 DEF LockHeld, WindowMatchesLevel, CountKnowsGap, backoffVars, scheduleVars
<1>5. ASSUME NEW c \in Coordinators, EventPoll(c)
      PROVE  IInv'
  <2> USE <1>5 DEF EventPoll, IInv
  <2>1. TypeOK'
      BY DEF TypeOK, backoffVars, scheduleVars
  <2>2. LockHeld'
      BY DEF LockHeld, TypeOK, Running
  <2> QED BY <2>1, <2>2 DEF WindowMatchesLevel, CountKnowsGap, backoffVars, scheduleVars
<1>6. ASSUME NEW p \in Polls, PollSkipped(p)
      PROVE  IInv'
  <2> USE <1>6 DEF PollSkipped, IInv, Enter
  <2>1. TypeOK'
      BY DEF TypeOK, backoffVars, scheduleVars
  <2>2. LockHeld'
      BY DEF LockHeld, TypeOK, Running
  <2> QED BY <2>1, <2>2 DEF WindowMatchesLevel, CountKnowsGap, backoffVars, scheduleVars
<1>7. ASSUME NEW p \in Polls, PollStarts(p)
      PROVE  IInv'
  <2> USE <1>7 DEF PollStarts, IInv, Enter
  <2>1. FastCommands \in Nat /\ MaxFast \in Nat
      BY CommandsAssumption, IntervalAssumption
  <2>2. TypeOK'
    <3>1. /\ seen' \in [Coordinators -> BOOLEAN]
          /\ failed' \in [Coordinators -> BOOLEAN]
          /\ lock' \in [Coordinators -> Polls \cup {None}]
        BY PollCoordinatorOf DEF TypeOK
    <3>2. age' \in [Coordinators -> 0..MaxFast]
      <4>1. 0 \in 0..MaxFast
          BY <2>1
      <4>2. age' = [age EXCEPT ![p[1]] = 0]
          OBVIOUS
      <4>3. age \in [Coordinators -> 0..MaxFast]
          BY DEF TypeOK
      <4> HIDE DEF PollStarts
      <4> QED BY <4>1, <4>2, <4>3
    <3>3. pc' \in [Polls -> {"idle", "wantLock", "fast", "medium"}]
        BY DEF TypeOK
    <3>4. left' \in [Polls -> Nat]
        BY <2>1 DEF TypeOK
    <3>5. UNCHANGED <<level, window, fast, medium, cycle, count, initialDone, next, gap>>
        BY DEF backoffVars, scheduleVars
    <3> HIDE DEF PollStarts
    <3> QED BY <3>1, <3>2, <3>3, <3>4, <3>5 DEF TypeOK
  <2>3. LockHeld'
      BY LockStep DEF Running
  <2> QED BY <2>2, <2>3 DEF WindowMatchesLevel, CountKnowsGap, backoffVars, scheduleVars
<1>8. ASSUME NEW p \in Polls, NEW ok \in BOOLEAN, CommandDone(p, ok)
      PROVE  IInv'
  <2> USE <1>8 DEF CommandDone, IInv
  <2>1. left' \in [Polls -> Nat]
      BY DEF TypeOK
  <2>2. failed' \in [Coordinators -> BOOLEAN]
      BY PollCoordinatorOf DEF TypeOK
  <2>3. TypeOK'
      BY <2>1, <2>2 DEF TypeOK, backoffVars, scheduleVars
  <2> QED BY <2>3 DEF LockHeld, WindowMatchesLevel, CountKnowsGap, backoffVars, scheduleVars
<1>9. ASSUME NEW p \in Polls, NEW ok \in BOOLEAN, FastGroupDone(p, ok)
      PROVE  IInv'
    BY <1>9, FastGroupDoneStep
<1>10. ASSUME NEW p \in Polls, NEW ok \in BOOLEAN, MediumGroupDone(p, ok)
       PROVE  IInv'
  <2> USE <1>10 DEF MediumGroupDone
  <2>1. failed' \in [Coordinators -> BOOLEAN] /\ failed'[p[1]] \in BOOLEAN
      BY PollCoordinatorOf DEF TypeOK, IInv
  <2>2. /\ LockHeld' /\ WindowMatchesLevel'
        /\ level' \in 0..MaxLevel /\ window' \in Nat
        /\ initialDone' \in [Coordinators -> BOOLEAN]
        /\ lock' \in [Coordinators -> Polls \cup {None}]
        /\ pc' \in [Polls -> {"idle", "wantLock", "fast", "medium"}]
        /\ left' \in [Polls -> Nat]
      BY <2>1, PollEndsStep DEF Running
  <2>3. TypeOK'
      BY <2>1, <2>2 DEF TypeOK, IInv, scheduleVars
  <2> QED BY <2>2, <2>3 DEF IInv, CountKnowsGap, scheduleVars
<1>11. CASE UNCHANGED vars
    BY <1>11 DEF vars, IInv, TypeOK, LockHeld, WindowMatchesLevel, CountKnowsGap
<1> QED
    BY <1>1, <1>2, <1>3, <1>4, <1>5, <1>6, <1>7, <1>8, <1>9, <1>10, <1>11
    DEF Next, Trigger, AcquireLock, CommandStep

THEOREM PollInvariance == Spec => []IInv
BY InvInit, InvStep, PTL DEF Spec

----------------------------------------------------------------------------
(* The theorems.                                                           *)

\* Every variable keeps to its type; in particular the backoff level is always
\* an index of BACKOFF_INTERVALS (coordinator.py 391-397).
THEOREM PollTypeCorrect == Spec => []TypeOK
BY PollInvariance, PTL DEF IInv

\* However many triggers fire, one poll of a coordinator sends commands at a time
\* (coordinator.py 299-324).
THEOREM PollsAreExclusive == Spec => []OnePollAtATime
<1>1. IInv => OnePollAtATime
    BY PollCoordinatorOf DEF IInv, LockHeld, OnePollAtATime
<1> QED BY <1>1, PollInvariance, PTL

\* The backoff window of all batteries is at most the entry of the level in
\* force, and a success of any battery ends it (coordinator.py 391-413).
THEOREM WindowIsBounded == Spec => []WindowMatchesLevel
BY PollInvariance, PTL DEF IInv

\* The medium group is never put off for a whole cycle of fast groups
\* (coordinator.py 262-370).
THEOREM MediumNotStarved == Spec => []MediumKeepsUp
<1>1. IInv => MediumKeepsUp
  <2> SUFFICES ASSUME IInv, NEW c \in Coordinators PROVE gap[c] < cycle[c]
      BY DEF MediumKeepsUp
  <2>1. gap[c] \in Nat /\ count[c] \in Nat /\ cycle[c] \in Nat
      BY DEF IInv, TypeOK
  <2> QED BY <2>1 DEF IInv, CountKnowsGap
<1> QED BY <1>1, PollInvariance, PTL

----------------------------------------------------------------------------
(* The schedule.  Cadence is inductive given the types: only SetIntervals    *)
(* touches the intervals, and it makes the three of them anew.               *)

LEMMA CeilingBounds ==
    ASSUME NEW m \in Nat, NEW f \in Nat \ {0}
    PROVE  /\ Cycle(m, f) * f >= m
           /\ (Cycle(m, f) - 1) * f < m
<1> DEFINE x == m + f - 1
           k == x \div f
<1>1. x \in Nat /\ k \in Nat
    OBVIOUS
<1>2. x = (f * k) + (x % f) /\ x % f \in 0..(f - 1)
    OBVIOUS
<1>3. (k - 1) * f = f * k - f
    BY <1>1
<1>4. k * f = f * k
    BY <1>1
<1>5. f * k \in Nat
    BY <1>1
<1> HIDE DEF k
<1>6. f * k >= m /\ f * k - f < m
    BY <1>1, <1>2, <1>5
<1> QED BY <1>3, <1>4, <1>6 DEF Cycle, k

LEMMA CadenceOf ==
    ASSUME NEW f \in Nat, NEW m \in Nat
    PROVE  LET g == SanitizeFast(f)
               n == SanitizeMedium(m, g)
           IN  /\ g \in Nat \ {0} /\ n \in Nat /\ n >= g
               /\ Cycle(n, g) * g >= n
               /\ (Cycle(n, g) - 1) * g < n
<1>1. SanitizeFast(f) \in MinFast..MaxFast
    BY FastBounds
<1>2. SanitizeFast(f) \in Nat \ {0}
    BY <1>1, IntervalAssumption
<1> QED BY <1>1, <1>2, MediumBounds, CeilingBounds

LEMMA CadenceInit == Init => Cadence
<1> SUFFICES ASSUME Init, NEW c \in Coordinators
             PROVE  /\ medium[c] >= fast[c]
                    /\ cycle[c] * fast[c] >= medium[c]
                    /\ (cycle[c] - 1) * fast[c] < medium[c]
                    /\ next[c] <= fast[c]
    BY DEF Cadence
<1>1. PICK request \in [Coordinators -> Requests] :
        /\ fast = [d \in Coordinators |-> SanitizeFast(request[d][1])]
        /\ medium = [d \in Coordinators |-> SanitizeMedium(request[d][2], fast[d])]
    BY DEF Init
<1>2. request[c][1] \in Nat /\ request[c][2] \in Nat
    BY IntervalAssumption
<1> DEFINE g == SanitizeFast(request[c][1])
           n == SanitizeMedium(request[c][2], g)
<1>3. fast[c] = g /\ medium[c] = n /\ cycle[c] = Cycle(n, g) /\ next[c] = g
    BY <1>1 DEF Init
<1>4. /\ g \in Nat \ {0} /\ n \in Nat /\ n >= g
      /\ Cycle(n, g) * g >= n
      /\ (Cycle(n, g) - 1) * g < n
    BY <1>2, CadenceOf
<1> HIDE DEF g, n
<1> QED BY <1>3, <1>4

LEMMA CadenceStep == IInv /\ Cadence /\ [Next]_vars => Cadence'
<1> SUFFICES ASSUME IInv, Cadence, [Next]_vars, NEW c \in Coordinators
             PROVE  /\ medium'[c] >= fast'[c]
                    /\ cycle'[c] * fast'[c] >= medium'[c]
                    /\ (cycle'[c] - 1) * fast'[c] < medium'[c]
                    /\ next'[c] <= fast'[c]
    BY DEF Cadence
<1>1. /\ medium[c] >= fast[c]
      /\ cycle[c] * fast[c] >= medium[c]
      /\ (cycle[c] - 1) * fast[c] < medium[c]
      /\ next[c] <= fast[c]
    BY DEF Cadence
<1>2. fast[c] \in Nat /\ next[c] \in Nat
    BY IntervalAssumption DEF IInv, TypeOK
<1>3. ASSUME NEW d \in Coordinators, NEW r \in Requests, SetIntervals(d, r[1], r[2])
      PROVE  /\ medium'[c] >= fast'[c]
             /\ cycle'[c] * fast'[c] >= medium'[c]
             /\ (cycle'[c] - 1) * fast'[c] < medium'[c]
             /\ next'[c] <= fast'[c]
  <2> DEFINE g == SanitizeFast(r[1])
             n == SanitizeMedium(r[2], g)
  <2>1. /\ g \in Nat \ {0} /\ n \in Nat /\ n >= g
        /\ Cycle(n, g) * g >= n
        /\ (Cycle(n, g) - 1) * g < n
      BY IntervalAssumption, CadenceOf
  <2>2. /\ fast' = [fast EXCEPT ![d] = g]
        /\ medium' = [medium EXCEPT ![d] = n]
        /\ cycle' = [cycle EXCEPT ![d] = Cycle(n, g)]
        /\ next' = [next EXCEPT ![d] = g]
      BY <1>3 DEF SetIntervals
  <2> HIDE DEF g, n
  <2>3. CASE c = d
    <3>1. fast'[c] = g /\ medium'[c] = n /\ cycle'[c] = Cycle(n, g) /\ next'[c] = g
        BY <2>2, <2>3 DEF IInv, TypeOK
    <3> QED BY <2>1, <3>1
  <2>4. CASE c # d
    <3>1. /\ fast'[c] = fast[c] /\ medium'[c] = medium[c]
          /\ cycle'[c] = cycle[c] /\ next'[c] = next[c]
        BY <2>2, <2>4 DEF IInv, TypeOK
    <3> QED BY <1>1, <3>1
  <2> QED BY <2>3, <2>4
<1>4. ASSUME UNCHANGED scheduleVars, next'[c] <= fast[c]
      PROVE  /\ medium'[c] >= fast'[c]
             /\ cycle'[c] * fast'[c] >= medium'[c]
             /\ (cycle'[c] - 1) * fast'[c] < medium'[c]
             /\ next'[c] <= fast'[c]
    BY <1>1, <1>4 DEF scheduleVars
<1>5. CASE TimePasses
  <2>1. next'[c] = next[c] - 1 /\ next[c] > 0
      BY <1>5 DEF TimePasses
  <2> QED BY <1>1, <1>2, <1>4, <1>5, <2>1 DEF TimePasses
<1>6. ASSUME NEW d \in Coordinators, UNCHANGED scheduleVars,
             next' = [next EXCEPT ![d] = fast[d]]
      PROVE  UNCHANGED scheduleVars /\ next'[c] <= fast[c]
    BY <1>1, <1>2, <1>6 DEF IInv, TypeOK
<1>7. ASSUME UNCHANGED <<scheduleVars, next>>
      PROVE  UNCHANGED scheduleVars /\ next'[c] <= fast[c]
    BY <1>1, <1>7
<1>8. ASSUME NEW d \in Coordinators, Trigger(d) \/ EventPoll(d)
      PROVE  UNCHANGED scheduleVars /\ next'[c] <= fast[c]
    BY <1>6, <1>7, <1>8 DEF Trigger, TimePoll, TimePollSkipped, EventPoll
<1>9. ASSUME NEW p \in Polls, AcquireLock(p) \/ CommandStep(p)
      PROVE  UNCHANGED scheduleVars /\ next'[c] <= fast[c]
    BY <1>7, <1>9 DEF AcquireLock, PollSkipped, PollStarts, CommandStep, CommandDone,
       FastGroupDone, MediumGroupDone
<1>10. CASE UNCHANGED vars
    BY <1>4, <1>7, <1>10 DEF vars, scheduleVars
<1> QED BY <1>3, <1>4, <1>5, <1>8, <1>9, <1>10 DEF Next

\* The medium interval is the shortest whole number of fast intervals that is no
\* shorter than the one configured, for every configuration (coordinator.py 169-264).
THEOREM CadenceIsKept == Spec => []Cadence
BY CadenceInit, CadenceStep, PollInvariance, PTL DEF Spec

----------------------------------------------------------------------------
(* The medium group is not early.  The first poll is the one that puts the  *)
(* counter ahead of the observer, once: it holds the lock until it is done, *)
(* so no other poll begins its fast group with a counter that is ahead and  *)
(* the initial poll not done.                                               *)

LEMMA NearInit == Init => CountStaysNear
<1> SUFFICES ASSUME Init PROVE CountStaysNear
    OBVIOUS
<1>1. \A c \in Coordinators : count[c] = 0 /\ gap[c] = 0
    BY DEF Init
<1>2. ASSUME NEW c \in Coordinators PROVE count[c] <= gap[c] + 1
  <2>1. count[c] = 0 /\ gap[c] = 0
      BY <1>1
  <2> QED BY <2>1
<1> QED BY <1>1, <1>2 DEF CountStaysNear

\* Steps that leave the counters of every coordinator, and who is in the medium group.
LEMMA NearUnchanged ==
    ASSUME CountStaysNear, UNCHANGED <<count, gap, initialDone>>,
           \A q \in Polls : pc[q] = "medium" => pc'[q] = "medium"
    PROVE  CountStaysNear'
BY DEF CountStaysNear

\* Who runs holds the lock, so with the initial poll not done and a poll in its fast
\* group the counter is zero.
LEMMA FirstGroupCountsFromZero ==
    ASSUME IInv, CountStaysNear, NEW p \in Polls, pc[p] = "fast", ~initialDone[p[1]]
    PROVE  count[p[1]] = 0
<1>1. ASSUME NEW q \in Polls, q[1] = p[1], pc[q] = "medium" PROVE FALSE
    BY <1>1 DEF IInv, LockHeld, Running
<1> QED BY <1>1, PollCoordinatorOf DEF CountStaysNear

LEMMA NearFastDone ==
    ASSUME IInv, CountStaysNear, NEW p \in Polls, NEW ok \in BOOLEAN, FastGroupDone(p, ok)
    PROVE  CountStaysNear'
<1> DEFINE c == p[1]
<1>1. c \in Coordinators /\ pc[p] = "fast"
    BY PollCoordinatorOf DEF FastGroupDone
<1>2. /\ count[c] \in Nat /\ cycle[c] \in Nat \ {0} /\ gap[c] \in Nat
      /\ count[c] < cycle[c] /\ count[c] <= gap[c] + 1
    BY <1>1 DEF IInv, TypeOK, CountKnowsGap, CountStaysNear
<1>3. count' = [count EXCEPT ![c] = (count[c] + 1) % cycle[c]]
    BY DEF FastGroupDone
<1>4. /\ count'[c] = (count[c] + 1) % cycle[c] /\ count'[c] \in Nat
      /\ count'[c] # 0 => count'[c] = count[c] + 1
    BY <1>1, <1>2, <1>3, CountStep DEF IInv, TypeOK
<1>5. ASSUME NEW d \in Coordinators, d # c,
             gap'[d] = gap[d], initialDone'[d] = initialDone[d],
             \A q \in Polls : q # p => pc'[q] = pc[q]
      PROVE  /\ count'[d] <= gap'[d] + 1
             /\ ~initialDone'[d] => \/ count'[d] = 0
                                    \/ \E q \in Polls : q[1] = d /\ pc'[q] = "medium"
    BY <1>1, <1>3, <1>5 DEF CountStaysNear, IInv, TypeOK
<1>6. CASE ~initialDone[c] \/ count'[c] = 0
  <2>1. /\ pc' = [pc EXCEPT ![p] = "medium"] /\ gap' = [gap EXCEPT ![c] = 0]
        /\ initialDone' = initialDone
      BY <1>6 DEF FastGroupDone, Enter
  <2>2. gap'[c] = 0 /\ pc'[p] = "medium"
      BY <1>1, <2>1 DEF IInv, TypeOK
  <2>3. count'[c] <= 1
    <3>1. ~initialDone[c] => count[c] = 0
        BY <1>1, FirstGroupCountsFromZero
    <3> QED BY <1>2, <1>4, <1>6, <3>1
  <2>4. ASSUME NEW d \in Coordinators, d # c
        PROVE  gap'[d] = gap[d] /\ initialDone'[d] = initialDone[d]
      BY <2>1, <2>4 DEF IInv, TypeOK
  <2>5. \A q \in Polls : q # p => pc'[q] = pc[q]
      BY <2>1 DEF IInv, TypeOK
  <2>6. /\ count'[c] <= gap'[c] + 1
        /\ \E q \in Polls : q[1] = c /\ pc'[q] = "medium"
      BY <1>4, <2>2, <2>3
  <2> QED BY <1>5, <2>4, <2>5, <2>6 DEF CountStaysNear
<1>7. CASE ~(~initialDone[c] \/ count'[c] = 0)
  <2>1. /\ pc' = [pc EXCEPT ![p] = "idle"] /\ gap' = [gap EXCEPT ![c] = @ + 1]
        /\ initialDone' = [initialDone EXCEPT ![c] = TRUE]
      BY <1>7 DEF FastGroupDone, PollEnds, Enter
  <2>2. gap'[c] = gap[c] + 1 /\ initialDone'[c]
      BY <1>1, <2>1 DEF IInv, TypeOK
  <2>3. ASSUME NEW d \in Coordinators, d # c
        PROVE  gap'[d] = gap[d] /\ initialDone'[d] = initialDone[d]
      BY <2>1, <2>3 DEF IInv, TypeOK
  <2>4. \A q \in Polls : q # p => pc'[q] = pc[q]
      BY <2>1 DEF IInv, TypeOK
  <2>5. count'[c] <= gap'[c] + 1
      BY <1>2, <1>4, <1>7, <2>2
  <2> QED BY <1>5, <2>2, <2>3, <2>4, <2>5 DEF CountStaysNear
<1> QED BY <1>6, <1>7

LEMMA NearStep == IInv /\ CountStaysNear /\ [Next]_vars => CountStaysNear'
<1> SUFFICES ASSUME IInv, CountStaysNear, [Next]_vars PROVE CountStaysNear'
    OBVIOUS
<1>1. CASE TimePasses
    BY <1>1, NearUnchanged DEF TimePasses
<1>2. ASSUME NEW c \in Coordinators, NEW r \in Requests, SetIntervals(c, r[1], r[2])
      PROVE  CountStaysNear'
  <2>1. /\ count' = [count EXCEPT ![c] = 0] /\ gap' = [gap EXCEPT ![c] = 0]
        /\ initialDone' = initialDone /\ pc' = pc
      BY <1>2 DEF SetIntervals
  <2> SUFFICES ASSUME NEW d \in Coordinators
               PROVE  /\ count'[d] <= gap'[d] + 1
                      /\ ~initialDone'[d] =>
                            \/ count'[d] = 0
                            \/ \E q \in Polls : q[1] = d /\ pc'[q] = "medium"
      BY DEF CountStaysNear
  <2>2. CASE d = c
      BY <2>1, <2>2 DEF IInv, TypeOK
  <2>3. CASE d # c
      BY <2>1, <2>3 DEF IInv, TypeOK, CountStaysNear
  <2> QED BY <2>2, <2>3
<1>3. ASSUME NEW c \in Coordinators, Trigger(c) \/ EventPoll(c)
      PROVE  CountStaysNear'
    BY <1>3, NearUnchanged DEF Trigger, TimePoll, TimePollSkipped, EventPoll, IInv, TypeOK
<1>4. ASSUME NEW p \in Polls, AcquireLock(p) PROVE CountStaysNear'
    BY <1>4, NearUnchanged DEF AcquireLock, PollSkipped, PollStarts, Enter, IInv, TypeOK
<1>5. ASSUME NEW p \in Polls, NEW ok \in BOOLEAN, CommandDone(p, ok)
      PROVE  CountStaysNear'
    BY <1>5, NearUnchanged DEF CommandDone
<1>6. ASSUME NEW p \in Polls, NEW ok \in BOOLEAN, MediumGroupDone(p, ok)
      PROVE  CountStaysNear'
  <2>1. /\ count' = count /\ gap' = gap /\ pc[p] = "medium"
        /\ initialDone' = [initialDone EXCEPT ![p[1]] = TRUE]
        /\ pc' = [pc EXCEPT ![p] = "idle"]
      BY <1>6 DEF MediumGroupDone, PollEnds, Enter
  <2>2. \A q \in Polls : q # p => pc'[q] = pc[q]
      BY <2>1 DEF IInv, TypeOK
  <2>3. \A d \in Coordinators :
           initialDone'[d] = IF d = p[1] THEN TRUE ELSE initialDone[d]
      BY <2>1 DEF IInv, TypeOK
  <2>4. ASSUME NEW d \in Coordinators, ~initialDone'[d], count[d] # 0
        PROVE  \E q \in Polls : q[1] = d /\ pc'[q] = "medium"
    <3>1. d # p[1] /\ ~initialDone[d]
        BY <2>3, <2>4
    <3>2. PICK q \in Polls : q[1] = d /\ pc[q] = "medium"
        BY <2>4, <3>1 DEF CountStaysNear
    <3> QED BY <2>2, <3>1, <3>2
  <2>5. \A d \in Coordinators : count'[d] <= gap'[d] + 1
      BY <2>1 DEF CountStaysNear
  <2> QED BY <2>1, <2>4, <2>5 DEF CountStaysNear
<1>7. ASSUME NEW p \in Polls, NEW ok \in BOOLEAN, FastGroupDone(p, ok)
      PROVE  CountStaysNear'
    BY <1>7, NearFastDone
<1>8. CASE UNCHANGED vars
    BY <1>8, NearUnchanged DEF vars
<1> QED BY <1>1, <1>2, <1>3, <1>4, <1>5, <1>6, <1>7, <1>8 DEF Next, CommandStep

\* A medium group of a coordinator whose first poll is done begins in FastGroupDone.
LEMMA MediumBegins ==
    ASSUME IInv, [Next]_vars, NEW p \in Polls, pc[p] = "fast", pc'[p] = "medium"
    PROVE  \E ok \in BOOLEAN : FastGroupDone(p, ok)
<1> SUFFICES ASSUME Next PROVE \E ok \in BOOLEAN : FastGroupDone(p, ok)
    BY DEF vars
<1> USE DEF IInv, TypeOK
<1>1. ~TimePasses /\ \A c \in Coordinators, r \in Requests : ~SetIntervals(c, r[1], r[2])
    BY DEF TimePasses, SetIntervals
<1>2. \A c \in Coordinators : ~Trigger(c) /\ ~EventPoll(c)
    BY DEF Trigger, TimePoll, TimePollSkipped, EventPoll
<1>3. ASSUME NEW q \in Polls, AcquireLock(q) PROVE FALSE
    BY <1>3 DEF AcquireLock, PollSkipped, PollStarts, Enter
<1>4. ASSUME NEW q \in Polls, NEW ok \in BOOLEAN,
             CommandDone(q, ok) \/ MediumGroupDone(q, ok) PROVE FALSE
    BY <1>4 DEF CommandDone, MediumGroupDone, PollEnds, Enter
<1>5. ASSUME NEW q \in Polls, NEW ok \in BOOLEAN, FastGroupDone(q, ok), q # p PROVE FALSE
    BY <1>5 DEF FastGroupDone, PollEnds, Enter
<1> QED BY <1>1, <1>2, <1>3, <1>4, <1>5 DEF Next, CommandStep

\* After the first poll no medium group comes more than one fast group before its
\* cycle is over, whatever fails and however intervals change in mid-poll
\* (coordinator.py 262-263, 339-370).
THEOREM MediumNotHurried == Spec => MediumOnTime
<1> DEFINE Timely ==
        \A p \in Polls :
           pc[p] = "fast" /\ pc'[p] = "medium" /\ initialDone[p[1]] =>
               gap[p[1]] + 2 >= cycle[p[1]]
<1>1. IInv /\ CountStaysNear /\ [Next]_vars => [Timely]_vars
  <2> SUFFICES ASSUME IInv, CountStaysNear, [Next]_vars, NEW p \in Polls,
                      pc[p] = "fast", pc'[p] = "medium", initialDone[p[1]]
               PROVE  gap[p[1]] + 2 >= cycle[p[1]]
      OBVIOUS
  <2> DEFINE c == p[1]
  <2>1. PICK ok \in BOOLEAN : FastGroupDone(p, ok)
      BY MediumBegins
  <2>2. c \in Coordinators
      BY PollCoordinatorOf
  <2>3. /\ count[c] \in Nat /\ cycle[c] \in Nat \ {0} /\ gap[c] \in Nat
        /\ count[c] < cycle[c] /\ count[c] <= gap[c] + 1
      BY <2>2 DEF IInv, TypeOK, CountKnowsGap, CountStaysNear
  <2>4. count'[c] = 0
      BY <2>1, <2>2 DEF FastGroupDone, PollEnds, Enter, IInv, TypeOK
  <2>5. (count[c] + 1) % cycle[c] = 0
      BY <2>1, <2>2, <2>4 DEF FastGroupDone, IInv, TypeOK
  <2>6. count[c] + 1 = cycle[c]
    <3> DEFINE n == count[c] + 1
    <3>1. n \in Nat /\ n > 0 /\ n <= cycle[c]
        BY <2>3
    <3>2. n < cycle[c] => n % cycle[c] = n
        BY <2>3, <3>1
    <3> QED BY <2>3, <2>5, <3>1, <3>2
  <2> QED BY <2>3, <2>6
<1> QED
    BY <1>1, PollInvariance, NearInit, NearStep, PTL DEF Spec, MediumOnTime
=============================================================================
