----------------------- MODULE ProductEntitiesProofs -----------------------
(***************************************************************************)
(* The safety invariants of ProductEntities, for every battery: any        *)
(* number of entities, platforms, packs and commands.                      *)
(***************************************************************************)
EXTENDS ProductEntities, TLAPS

(* Exactly the known entities have been made, and once; they are scheduled or added; and only an
   added entity has written a state. *)
Bookkeeping ==
    /\ known = scheduled \cup added
    /\ \A e \in Entities : made[e] = IF e \in known THEN 1 ELSE 0
    /\ \A e \in Entities \ added : shown[e] = "none"

Covered == \A e \in Entities : PlatformOf[e] \in up /\ Present(e, count) => e \in known

IInv == TypeOK /\ Bookkeeping /\ Covered /\ ShownIsPresent

LEMMA ActiveIsNat ==
    ASSUME NEW n \in Counts \cup {None} PROVE Active(n) \in Nat
BY NumberAssumption DEF Active

LEMMA PlanIsPresent ==
    ASSUME NEW n \in Counts \cup {None}, NEW e \in Entities PROVE e \in Plan(n) <=> Present(e, n)
<1>1. Active(n) \in Nat BY ActiveIsNat
<1>2. PackOf[e] \in Nat BY EntityAssumption, NumberAssumption
<1> QED BY <1>1, <1>2 DEF Plan, OfMain, OfPacks, Present

(* Handing new entities over keeps the books, whichever they are. *)
LEMMA ScheduleKeepsBooks ==
    ASSUME TypeOK, Bookkeeping, NEW new, new \subseteq Entities, new \cap known = {}, Schedule(new),
           added' = added, \A e \in Entities \ added : shown'[e] = shown[e]
    PROVE  /\ Bookkeeping'
           /\ known' \subseteq Entities /\ made' \in [Entities -> Nat]
           /\ scheduled' \subseteq Entities /\ scheduled' \cap added' = {}
<1>1. known' = scheduled' \cup added' BY DEF Schedule, Bookkeeping
<1>2. known' \subseteq Entities /\ scheduled' \subseteq Entities BY DEF TypeOK, Schedule
<1>3. scheduled' \cap added' = {} BY DEF TypeOK, Schedule, Bookkeeping
<1>4. made' \in [Entities -> Nat] BY DEF TypeOK, Schedule
<1>5. \A e \in Entities : made'[e] = IF e \in known' THEN 1 ELSE 0
  BY DEF TypeOK, Schedule, Bookkeeping
<1>6. \A e \in Entities \ added' : shown'[e] = "none" BY DEF Bookkeeping
<1> QED BY <1>1, <1>2, <1>3, <1>4, <1>5, <1>6 DEF Bookkeeping

(* A listener round with the data n, a brings all that depends on it up to date. *)
LEMMA RoundRestores ==
    ASSUME TypeOK, Bookkeeping, NEW n \in Counts \cup {None}, NEW a, Round(n, a), count' = n
    PROVE  /\ Bookkeeping' /\ Covered' /\ ShownIsPresent'
           /\ known' \subseteq Entities /\ made' \in [Entities -> Nat]
           /\ scheduled' \subseteq Entities /\ scheduled' \cap added' = {}
           /\ shown' \in [Entities -> States] /\ up' = up /\ added' = added
<1>1. up' = up /\ added' = added /\ Schedule(New(up, n)) BY DEF Round
<1>2. shown' = [e \in Entities |-> IF e \in added THEN StateOf(e, n, a) ELSE shown[e]] BY DEF Round
<1>3. New(up, n) \subseteq Entities /\ New(up, n) \cap known = {}
    BY DEF New, Plan, OfMain, OfPacks
<1>4. \A e \in Entities \ added : shown'[e] = shown[e] BY <1>2
<1>5. /\ Bookkeeping'
      /\ known' \subseteq Entities /\ made' \in [Entities -> Nat]
      /\ scheduled' \subseteq Entities /\ scheduled' \cap added' = {}
  BY <1>1, <1>3, <1>4, ScheduleKeepsBooks
<1>6. shown' \in [Entities -> States] BY <1>2 DEF TypeOK, StateOf, States
<1>7. Covered'
  <2> SUFFICES ASSUME NEW e \in Entities, PlatformOf[e] \in up, Present(e, n) PROVE e \in known'
    BY <1>1 DEF Covered, Present
  <2>1. e \in Plan(n) BY PlanIsPresent
  <2> QED BY <2>1, <1>1 DEF New, Schedule
<1>8. ShownIsPresent'
  <2> SUFFICES ASSUME NEW e \in Entities, shown'[e] = "available" PROVE Present(e, n)
    BY DEF ShownIsPresent, Present
  <2>1. CASE e \in added BY <2>1, <1>2 DEF StateOf
  <2>2. CASE e \notin added BY <2>2, <1>2 DEF Bookkeeping
  <2> QED BY <2>1, <2>2
<1> QED BY <1>1, <1>5, <1>6, <1>7, <1>8

LEMMA InitEstablishes == Init => IInv
<1> SUFFICES ASSUME Init PROVE IInv OBVIOUS
<1>1. TypeOK BY DEF Init, TypeOK, States
<1>2. Bookkeeping BY DEF Init, Bookkeeping
<1>3. Covered BY DEF Init, Covered
<1>4. ShownIsPresent BY DEF Init, ShownIsPresent
<1> QED BY <1>1, <1>2, <1>3, <1>4 DEF IInv

LEMMA NextPreserves == IInv /\ [Next]_vars => IInv'
<1> SUFFICES ASSUME IInv, [Next]_vars PROVE IInv' OBVIOUS
<1> USE DEF IInv
<1>1. ASSUME NEW p \in Platforms, SetUp(p) PROVE IInv'
  <2>1. /\ up' = up \cup {p} /\ Schedule(New({p}, count))
        /\ added' = added /\ shown' = shown /\ count' = count /\ age' = age
    BY <1>1 DEF SetUp
  <2>2. count \in Counts \cup {None} BY DEF TypeOK
  <2>3. New({p}, count) \subseteq Entities /\ New({p}, count) \cap known = {}
    BY DEF New, Plan, OfMain, OfPacks
  <2>4. /\ Bookkeeping'
        /\ known' \subseteq Entities /\ made' \in [Entities -> Nat]
        /\ scheduled' \subseteq Entities /\ scheduled' \cap added' = {}
    BY <2>1, <2>3, ScheduleKeepsBooks
  <2>5. TypeOK' BY <2>1, <2>4 DEF TypeOK
  <2>6. Covered'
    <3> SUFFICES ASSUME NEW e \in Entities, PlatformOf[e] \in up \cup {p}, Present(e, count)
                 PROVE e \in known'
      BY <2>1 DEF Covered, Present
    <3>1. e \in Plan(count) BY <2>2, PlanIsPresent
    <3>2. CASE PlatformOf[e] \in up BY <3>2, <2>1 DEF Covered, Schedule
    <3>3. CASE PlatformOf[e] = p BY <3>1, <3>3, <2>1 DEF New, Schedule
    <3> QED BY <3>2, <3>3
  <2>7. ShownIsPresent' BY <2>1 DEF ShownIsPresent, Present
  <2> QED BY <2>4, <2>5, <2>6, <2>7
<1>2. ASSUME NEW e \in Entities, Add(e) PROVE IInv'
  <2>1. /\ e \in scheduled /\ scheduled' = scheduled \ {e} /\ added' = added \cup {e}
        /\ shown' = [shown EXCEPT ![e] = StateOf(e, count, age)]
        /\ up' = up /\ known' = known /\ made' = made /\ count' = count /\ age' = age
    BY <1>2 DEF Add
  <2>2. TypeOK' BY <2>1 DEF TypeOK, StateOf, States
  <2>3. Bookkeeping'
    <3>1. known' = scheduled' \cup added' BY <2>1 DEF Bookkeeping
    <3>2. \A x \in Entities : made'[x] = IF x \in known' THEN 1 ELSE 0 BY <2>1 DEF Bookkeeping
    <3>3. \A x \in Entities \ added' : shown'[x] = "none" BY <2>1 DEF Bookkeeping, TypeOK
    <3> QED BY <3>1, <3>2, <3>3 DEF Bookkeeping
  <2>4. Covered' BY <2>1 DEF Covered, Present
  <2>5. ShownIsPresent'
    <3> SUFFICES ASSUME NEW x \in Entities, shown'[x] = "available" PROVE Present(x, count)
      BY <2>1 DEF ShownIsPresent, Present
    <3>1. CASE x = e BY <3>1, <2>1 DEF TypeOK, StateOf
    <3>2. CASE x # e BY <3>2, <2>1 DEF TypeOK, ShownIsPresent
    <3> QED BY <3>1, <3>2
  <2> QED BY <2>2, <2>3, <2>4, <2>5
<1>3. ASSUME NEW c \in Commands, NEW n \in Counts \cup {None}, Notified(c, n) PROVE IInv'
  <2>1. count' = n /\ age' = [age EXCEPT ![c] = 0] /\ Round(n, age') BY <1>3 DEF Notified
  <2>2. /\ Bookkeeping' /\ Covered' /\ ShownIsPresent'
        /\ known' \subseteq Entities /\ made' \in [Entities -> Nat]
        /\ scheduled' \subseteq Entities /\ scheduled' \cap added' = {}
        /\ shown' \in [Entities -> States] /\ up' = up /\ added' = added
    BY <2>1, RoundRestores
  <2>3. age' \in [Commands -> Ages \cup {None}] BY <2>1, NumberAssumption DEF TypeOK, Ages
  <2>4. TypeOK' BY <2>1, <2>2, <2>3 DEF TypeOK
  <2> QED BY <2>2, <2>4
<1>4. ASSUME Advertised PROVE IInv'
  <2>1. count \in Counts \cup {None} BY DEF TypeOK
  <2>2. count' = count /\ age' = age /\ Round(count, age) BY <1>4 DEF Advertised
  <2>3. /\ Bookkeeping' /\ Covered' /\ ShownIsPresent'
        /\ known' \subseteq Entities /\ made' \in [Entities -> Nat]
        /\ scheduled' \subseteq Entities /\ scheduled' \cap added' = {}
        /\ shown' \in [Entities -> States] /\ up' = up /\ added' = added
    BY <2>1, <2>2, RoundRestores
  <2>4. TypeOK' BY <2>2, <2>3 DEF TypeOK
  <2> QED BY <2>3, <2>4
<1>5. ASSUME TimePasses PROVE IInv'
  <2>1. /\ age' = [c \in Commands |-> Older(age[c])]
        /\ UNCHANGED <<up, known, made, scheduled, added, shown, count>>
    BY <1>5 DEF TimePasses
  <2>2. ASSUME NEW c \in Commands PROVE Older(age[c]) \in Ages \cup {None}
    <3>1. age[c] \in Ages \cup {None} BY DEF TypeOK
    <3>2. CASE age[c] = None BY <3>2 DEF Older
    <3>3. CASE age[c] \in Ages BY <3>3, NumberAssumption DEF Older, Ages
    <3> QED BY <3>1, <3>2, <3>3
  <2>3. TypeOK' BY <2>1, <2>2 DEF TypeOK
  <2>4. Bookkeeping' /\ Covered' /\ ShownIsPresent'
    BY <2>1 DEF Bookkeeping, Covered, ShownIsPresent, Present
  <2> QED BY <2>3, <2>4
<1>6. ASSUME Unload PROVE IInv'
  <2>1. TypeOK' BY <1>6 DEF Unload, TypeOK, States
  <2>2. Bookkeeping' BY <1>6 DEF Unload, Bookkeeping
  <2>3. Covered' BY <1>6 DEF Unload, Covered
  <2>4. ShownIsPresent' BY <1>6 DEF Unload, ShownIsPresent
  <2> QED BY <2>1, <2>2, <2>3, <2>4
<1>7. CASE UNCHANGED vars
  BY <1>7 DEF vars, TypeOK, Bookkeeping, Covered, ShownIsPresent, Present
<1> QED BY <1>1, <1>2, <1>3, <1>4, <1>5, <1>6, <1>7 DEF Next

LEMMA InvariantHolds == Spec => []IInv
BY InitEstablishes, NextPreserves, PTL DEF Spec

(* The types; an entity is never both waiting to be added and added. *)
THEOREM EntitiesTypeCorrect == Spec => []TypeOK
<1>1. IInv => TypeOK BY DEF IInv
<1> QED BY <1>1, InvariantHolds, PTL

(* However the pack count changes and however late entities are added, none is made twice. *)
THEOREM EntitiesAreMadeOnce == Spec => []MadeOnce
<1>1. IInv => MadeOnce BY DEF IInv, Bookkeeping, MadeOnce
<1> QED BY <1>1, InvariantHolds, PTL

(* On every platform that is set up, no entity of a populated slot is missing. *)
THEOREM PacksHaveTheirEntities == Spec => []EveryPackHasEntities
<1>1. IInv => EveryPackHasEntities BY DEF IInv, Bookkeeping, Covered, EveryPackHasEntities
<1> QED BY <1>1, InvariantHolds, PTL

(* The last state that an entity of a slot has written is never behind the pack count. *)
THEOREM ShownEntitiesArePresent == Spec => []ShownIsPresent
<1>1. IInv => ShownIsPresent BY DEF IInv
<1> QED BY <1>1, InvariantHolds, PTL
=============================================================================
