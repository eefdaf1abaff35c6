-------------------------- MODULE ProductEntities --------------------------
(***************************************************************************)
(* The entities of a battery whose packs come and go: the entity plan of   *)
(* entity.py, the ProductEntityManager of product_entity_platform.py, one  *)
(* for each platform, and the availability of sensor.py and                *)
(* binary_sensor.py.                                                       *)
(*                                                                         *)
(* A listener round is one call of async_update_listeners: every manager   *)
(* that is set up syncs and every entity that has been added writes its    *)
(* state.  A parsed notification ends in one, and Home Assistant's base    *)
(* class has one for every advertisement, and when they stop.  The timed   *)
(* polls of coordinator.py have none of their own.  async_add_entities     *)
(* only schedules: an entity is added later, and rounds may overtake it.   *)
(***************************************************************************)
EXTENDS Naturals, FiniteSets

CONSTANTS
    Entities, Platforms, Commands,
    PlatformOf,     \* binding.platform
    PackOf,         \* presence.index + 1 of an entity of a pack, 0 of any other
    StaleOn,        \* the commands that carry its stale_paths; {} for a binary sensor
    CountCommand,   \* the command whose response carries pack_count and the packs
    MaxPacks,       \* slots of the repeated section
    Counts,         \* the pack counts a response may report
    StaleAfter,     \* STALE_AFTER_SECONDS, in units of time
    None

ASSUME EntityAssumption ==
    /\ PlatformOf \in [Entities -> Platforms]
    /\ PackOf \in [Entities -> 0..MaxPacks]
    /\ StaleOn \in [Entities -> SUBSET Commands]
    /\ CountCommand \in Commands

ASSUME NumberAssumption ==
    /\ MaxPacks \in Nat /\ StaleAfter \in Nat
    /\ Counts \subseteq Nat /\ None \notin Nat

VARIABLES
    up,         \* the platforms set up, their managers subscribed
    known,      \* _known_keys of the managers together
    made,       \* how many objects the factory has made for an entity
    scheduled,  \* handed to async_add_entities and not yet added
    added,      \* subscribed to the coordinator
    shown,      \* the state last written
    count,      \* pack_count in the data
    age         \* of the last response to each command, up to StaleAfter + 1

vars == <<up, known, made, scheduled, added, shown, count, age>>

States == {"none", "available", "unavailable"}

Ages == 0..(StaleAfter + 1)

TypeOK ==
    /\ up \subseteq Platforms
    /\ known \subseteq Entities
    /\ made \in [Entities -> Nat]
    /\ scheduled \subseteq Entities /\ added \subseteq Entities /\ scheduled \cap added = {}
    /\ shown \in [Entities -> States]
    /\ count \in Counts \cup {None}
    /\ age \in [Commands -> Ages \cup {None}]

-----------------------------------------------------------------------------
(* _count: what the repeated section takes the reported number for. *)
Active(n) == IF n = None THEN 0 ELSE IF n < MaxPacks THEN n ELSE MaxPacks

(* PresenceBinding.is_present. *)
Present(e, n) == PackOf[e] <= Active(n)

(* _collect: what the walk over the data finds outside the repeated section. *)
OfMain == {e \in Entities : PackOf[e] = 0}

(* _collect_repeated: what it finds in the first items of the section. *)
OfPacks(n) == {e \in Entities : PackOf[e] \in 1..n}

\* Mutant: the loop over the packs stops one early.
PlanShort(n) == OfMain \cup OfPacks(Active(n) - 1)

(* build_entity_plan. *)
Plan(n) == OfMain \cup OfPacks(Active(n))

(* available: a sensor also looks at the age of what it is made of.  What the base class asks of *)
(* the coordinator, last_poll_successful, is always true: a poll counts its failures and returns. *)
Stale(e, a) == \E c \in StaleOn[e] : a[c] # None /\ a[c] > StaleAfter

\* Mutant: a sensor of a pack that has gone stays available.
StateOfSlot(e, n, a) == IF ~Stale(e, a) THEN "available" ELSE "unavailable"

\* Mutant: the age of the data is not looked at.
StateOfAnyAge(e, n, a) == IF Present(e, n) THEN "available" ELSE "unavailable"

StateOf(e, n, a) == IF Present(e, n) /\ ~Stale(e, a) THEN "available" ELSE "unavailable"

\* Mutant: a manager asks which entities have been added instead of keeping keys.
NewUnlessAdded(ps, n) == {e \in Plan(n) : PlatformOf[e] \in ps} \ added

(* ProductEntityManager.sync of the platforms ps: the bindings to be added. *)
New(ps, n) == {e \in Plan(n) : PlatformOf[e] \in ps} \ known

Schedule(new) ==
    /\ known' = known \cup new
    /\ scheduled' = scheduled \cup new
    /\ made' = [e \in Entities |-> IF e \in new THEN made[e] + 1 ELSE made[e]]

(* A listener round with the data as it is now. *)
Round(n, a) ==
    /\ Schedule(New(up, n))
    /\ shown' = [e \in Entities |-> IF e \in added THEN StateOf(e, n, a) ELSE shown[e]]
    /\ UNCHANGED <<up, added>>

-----------------------------------------------------------------------------
Init ==
    /\ up = {} /\ known = {} /\ scheduled = {} /\ added = {}
    /\ made = [e \in Entities |-> 0]
    /\ shown = [e \in Entities |-> "none"]
    /\ count = None
    /\ age = [c \in Commands |-> None]

(* async_setup_entry of a platform: subscribe, then sync once. *)
SetUp(p) ==
    /\ p \notin up
    /\ up' = up \cup {p}
    /\ Schedule(New({p}, count))
    /\ UNCHANGED <<added, shown, count, age>>

(* Home Assistant adds a scheduled entity, which subscribes and writes its first state. *)
Add(e) ==
    /\ e \in scheduled
    /\ scheduled' = scheduled \ {e}
    /\ added' = added \cup {e}
    /\ shown' = [shown EXCEPT ![e] = StateOf(e, count, age)]
    /\ UNCHANGED <<up, known, made, count, age>>

(* A notification has been parsed: the response to c, with n packs if it carries their number. *)
Notified(c, n) ==
    /\ n = count \/ c = CountCommand
    /\ c = CountCommand => n # None
    /\ count' = n
    /\ age' = [age EXCEPT ![c] = 0]
    /\ Round(n, age')

(* The base class calls the listeners for every advertisement, and when they have stopped. *)
Advertised == Round(count, age) /\ UNCHANGED <<count, age>>

Older(a) == IF a = None \/ a > StaleAfter THEN a ELSE a + 1

TimePasses ==
    /\ \E c \in Commands : Older(age[c]) # age[c]
    /\ age' = [c \in Commands |-> Older(age[c])]
    /\ UNCHANGED <<up, known, made, scheduled, added, shown, count>>

(* The entry is unloaded: entities and managers go, and the next setup has a new coordinator. *)
Unload ==
    /\ up = Platforms
    /\ up' = {} /\ known' = {} /\ scheduled' = {} /\ added' = {}
    /\ made' = [e \in Entities |-> 0]
    /\ shown' = [e \in Entities |-> "none"]
    /\ count' = None
    /\ age' = [c \in Commands |-> None]

Next ==
    \/ \E p \in Platforms : SetUp(p)
    \/ \E e \in Entities : Add(e)
    \/ \E c \in Commands, n \in Counts \cup {None} : Notified(c, n)
    \/ Advertised
    \/ TimePasses
    \/ Unload

(* Scheduled entities are added, and the battery keeps advertising. *)
Fairness == WF_vars(Advertised) /\ \A e \in Entities : WF_vars(Add(e))

Spec == Init /\ [][Next]_vars /\ Fairness

-----------------------------------------------------------------------------
(* However the pack count shrinks and grows, and however long the adding takes, no entity is
   made twice while the entry is loaded: Home Assistant would refuse the second one's unique ID. *)
MadeOnce == \A e \in Entities : made[e] <= 1

(* No entity of a populated slot is lost: on every platform that is set up it is added or about
   to be, whether the slot was filled before, during or after the platform's setup; and what a
   manager believes to exist does exist. *)
EveryPackHasEntities ==
    /\ \A e \in Entities : PlatformOf[e] \in up /\ Present(e, count) => e \in scheduled \cup added
    /\ known = scheduled \cup added

(* A sensor of a slot is shown as available only while the battery reports that slot: the last
   state written is never behind the pack count. *)
ShownIsPresent == \A e \in Entities : shown[e] = "available" => Present(e, count)

(* While the battery is heard but the command behind a sensor is not answered any more, the
   sensor does not go on showing its last value. *)
StaleGoesUnavailable ==
    \A e \in Entities :
        e \in added /\ Stale(e, age)
            ~> shown[e] = "unavailable" \/ ~Stale(e, age) \/ e \notin added
=============================================================================
