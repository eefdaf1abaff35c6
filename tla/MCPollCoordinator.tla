------------------------- MODULE MCPollCoordinator -------------------------
EXTENDS PollCoordinator, TLC

\* The shape of BACKOFF_INTERVALS with fewer and shorter steps: an unused first
\* entry, then growing ones.
ShortBackoffs == <<1, 1, 2>>

\* For liveness, with one level above the baseline.
TwoBackoffs == <<1, 1>>

\* One request inside the bounds, and one with the fast interval above its
\* maximum and the medium one below the fast one.
SomeRequests == {<<1, 3>>, <<9, 1>>}

\* For liveness: the intervals stay as they are.  (A change restarts the time
\* trigger, so that changes in a row could put it off for ever.)
OneRequest == {<<1, 1>>}

Symmetry == Permutations(Coordinators)
=============================================================================
