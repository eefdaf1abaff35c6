-------------------------- MODULE LifecycleProofs --------------------------
(***************************************************************************)
(* Proofs about EntryLifecycle, for any number of setups, any options and  *)
(* any number of updates under way; and, at the end, about ConfigFlow,     *)
(* which makes the entries.                                                *)
(***************************************************************************)
EXTENDS EntryLifecycle, TLAPS

LEMMA LifecycleInit == Init => IInv
BY NoneAssumption, OptionsAssumption
   DEF Init, IInv, TypeOK, States, OneListener, StoredFollowsEntry, OptionsInForce

\* A coordinator's own steps and those of the options leave the entry alone.
LEMMA SetupStep == IInv /\ Setup => IInv'
<1> SUFFICES ASSUME IInv, Setup PROVE IInv'
    OBVIOUS
<1> USE NoneAssumption DEF IInv, TypeOK, States, OneListener, StoredFollowsEntry,
    OptionsInForce, deviceVars
<1>1. CASE SetupNotFound
    BY <1>1 DEF SetupNotFound
<1>2. ASSUME NEW c \in Coordinators, SetupBegins(c) PROVE IInv'
  <2> USE <1>2 DEF SetupBegins
  <2>1. TypeOK'
      OBVIOUS
  <2>2. OneListener' /\ StoredFollowsEntry' /\ OptionsInForce'
      OBVIOUS
  <2> QED BY <2>1, <2>2
<1>3. CASE BatteryReady
    BY <1>3 DEF BatteryReady
<1>4. CASE ReadyTimeout
    BY <1>4 DEF ReadyTimeout
<1>5. CASE PlatformsForwarded
    BY <1>5 DEF PlatformsForwarded
<1> QED BY <1>1, <1>2, <1>3, <1>4, <1>5 DEF Setup

LEMMA UnloadStep == IInv /\ Unload => IInv'
<1> SUFFICES ASSUME IInv, Unload PROVE IInv'
    OBVIOUS
<1> USE NoneAssumption DEF IInv, TypeOK, States, OneListener, StoredFollowsEntry,
    OptionsInForce, deviceVars
<1>1. CASE UnloadBegins
    BY <1>1 DEF UnloadBegins
<1>2. ASSUME NEW ok \in BOOLEAN, Disconnected(ok) PROVE IInv'
    BY <1>2 DEF Disconnected
<1>3. CASE PlatformsUnloaded
    BY <1>3 DEF PlatformsUnloaded
<1>4. CASE PlatformsStay
    BY <1>4 DEF PlatformsStay
<1>5. CASE RetryCancelled
    BY <1>5 DEF RetryCancelled
<1> QED BY <1>1, <1>2, <1>3, <1>4, <1>5 DEF Unload

LEMMA OptionsStep ==
    ASSUME IInv, HandleUpdate \/ \E o \in Options : ChangeOptions(o)
    PROVE  IInv'
<1> USE NoneAssumption DEF IInv, TypeOK, OneListener, StoredFollowsEntry, OptionsInForce,
    entryVars, deviceVars
<1>1. CASE HandleUpdate
    BY <1>1 DEF HandleUpdate
<1>2. ASSUME NEW o \in Options, ChangeOptions(o) PROVE IInv'
    BY <1>2, OptionsAssumption DEF ChangeOptions
<1> QED BY <1>1, <1>2

LEMMA CoordinatorStep ==
    ASSUME IInv, NEW c \in Coordinators,
           Advertisement(c) \/ CommandStarts(c) \/ CommandEnds(c) \/ LinkEnds(c)
    PROVE  IInv'
<1> USE DEF IInv, TypeOK, OneListener, StoredFollowsEntry, OptionsInForce, entryVars,
    deviceVars
<1>1. CASE Advertisement(c)
    BY <1>1 DEF Advertisement
<1>2. CASE CommandStarts(c)
    BY <1>2 DEF CommandStarts
<1>3. CASE CommandEnds(c)
    BY <1>3 DEF CommandEnds
<1>4. CASE LinkEnds(c)
    BY <1>4 DEF LinkEnds
<1> QED BY <1>1, <1>2, <1>3, <1>4

THEOREM LifecycleInvariance == Spec => []IInv
<1>1. IInv /\ [Next]_vars => IInv'
  <2> SUFFICES ASSUME IInv, [Next]_vars PROVE IInv'
      OBVIOUS
  <2>1. CASE UNCHANGED vars
      BY <2>1 DEF vars, IInv, TypeOK, OneListener, StoredFollowsEntry, OptionsInForce
  <2> QED BY <2>1, SetupStep, UnloadStep, OptionsStep, CoordinatorStep DEF Next
<1> QED BY <1>1, LifecycleInit, PTL DEF Spec

\* Every variable keeps to its type.
THEOREM LifecycleTypeCorrect == Spec => []TypeOK
BY LifecycleInvariance, PTL DEF IInv

\* However often setup fails or the entry is reloaded, advertisements reach one
\* coordinator, the one in runtime_data (__init__.py 116-122).
THEOREM ListenerIsUnique == Spec => []OneListener
BY LifecycleInvariance, PTL DEF IInv

\* The entities of a loaded entry belong to the coordinator that hears the battery
\* and that unload disconnects (__init__.py 105-140).
THEOREM EntitiesStayServed == Spec => []EntitiesAreServed
<1>1. IInv => EntitiesAreServed
    BY NoneAssumption DEF IInv, StoredFollowsEntry, EntitiesAreServed, TypeOK
<1> QED BY <1>1, LifecycleInvariance, PTL

\* No change of the options is lost, the ones during setup included
\* (__init__.py 117, 188-203).
THEOREM OptionsReachPolls == Spec => []OptionsInForce
BY LifecycleInvariance, PTL DEF IInv

----------------------------------------------------------------------------
\* A coordinator that another one has replaced, or that was unloaded, sends a command: its time
\* trigger was never unsubscribed (coordinator.py 221-227).
ReplacedPolls == \E c \in Coordinators \ {runtime} : CommandStarts(c)

\* A setup puts a new coordinator in the place of the last one while a command is in flight.
ReplacedInFlight == sending # {} /\ runtime' \notin {runtime, None}

OneSends ==
    /\ CommandsAreSerialized
    /\ runtime # None => sending \subseteq {runtime}

LEMMA OneSendsStep ==
    ASSUME IInv, OneSends, Next, ~ReplacedPolls, ~ReplacedInFlight
    PROVE  OneSends'
<1>1. CASE \E c \in Coordinators : CommandStarts(c)
  <2>1. PICK c \in Coordinators : CommandStarts(c)
    BY <1>1
  <2>2. c = runtime /\ c # None
    BY <2>1, NoneAssumption DEF ReplacedPolls
  <2>3. sending' = {runtime} /\ runtime' = runtime
    BY <2>1, <2>2 DEF OneSends, CommandStarts, entryVars
  <2> QED BY <2>3 DEF OneSends, CommandsAreSerialized
<1>2. CASE \E c \in Coordinators : CommandEnds(c)
  <2>1. sending' \subseteq sending /\ runtime' = runtime
    BY <1>2 DEF CommandEnds, entryVars
  <2> QED BY <2>1 DEF OneSends, CommandsAreSerialized
<1>3. CASE sending' = sending /\ runtime' \in {runtime, None}
  BY <1>3 DEF OneSends, CommandsAreSerialized
<1>4. CASE sending' = sending /\ runtime' \notin {runtime, None}
  BY <1>4 DEF OneSends, CommandsAreSerialized, ReplacedInFlight
<1>5. \/ sending' = sending
      \/ \E c \in Coordinators : CommandStarts(c) \/ CommandEnds(c)
  BY DEF Next, Setup, Unload, SetupNotFound, SetupBegins, BatteryReady, ReadyTimeout,
     PlatformsForwarded, UnloadBegins, Disconnected, PlatformsUnloaded, PlatformsStay,
     RetryCancelled, HandleUpdate, ChangeOptions, Advertisement, LinkEnds, deviceVars
<1> QED BY <1>1, <1>2, <1>3, <1>4, <1>5

\* However often setup is retried and the entry reloaded, in any order with the commands, the
\* options and the losses of the link, two commands are in flight at once only after one of two
\* steps: a coordinator that is not in use any more polls on, or it still has a command in flight
\* when the next one takes its place (__init__.py 65-115).  The entry_serial run shows that the
\* code takes such a step.
THEOREM SecondSenderIsAReplacedOne ==
    Spec /\ [][~ReplacedPolls /\ ~ReplacedInFlight]_vars => []CommandsAreSerialized
<1>1. Init => OneSends
  BY DEF Init, OneSends, CommandsAreSerialized
<1>2. ASSUME IInv, OneSends, [Next]_vars, [~ReplacedPolls /\ ~ReplacedInFlight]_vars
      PROVE  OneSends'
  <2>1. CASE UNCHANGED vars
    BY <1>2, <2>1 DEF vars, OneSends, CommandsAreSerialized
  <2> QED BY <1>2, <2>1, OneSendsStep
<1>3. OneSends => CommandsAreSerialized
  BY DEF OneSends
<1> QED BY <1>1, <1>2, <1>3, LifecycleInvariance, PTL DEF Spec

-----------------------------------------------------------------------------
(***************************************************************************)
(* Where the entries come from: ConfigFlow, for any batteries, addresses   *)
(* and names, and any number of flows that lie open.                       *)
(***************************************************************************)
CONSTANTS Batteries, Flows

VARIABLES entries, flows

Flow == INSTANCE ConfigFlow

(* A unique ID has one flow or one entry. *)
FlowInv ==
    /\ Flow!TypeOK
    /\ \A f \in Flows : \A a \in flows[f].id :
           /\ \A g \in Flows : a \in flows[g].id => g = f
           /\ \A e \in entries : a \notin e.id
    /\ \A e, o \in entries : \A a \in e.id : a \in o.id => e = o

USE DEF Flow!Closed, Flow!Addresses

LEMMA FlowInit == Flow!Init => FlowInv
BY DEF Flow!Init, FlowInv, Flow!TypeOK

LEMMA CardIs ==
    ASSUME FlowInv, NEW f \in Flows, flows[f].step = "card"
    PROVE  \E b \in Batteries : flows[f].id = {b.address} /\ flows[f].offers = {b}
BY DEF FlowInv, Flow!TypeOK, Flow!Card

LEMMA EntryIs ==
    ASSUME FlowInv, NEW e \in entries
    PROVE  e.battery \in Batteries /\ e.id = {e.battery.address}
BY DEF FlowInv, Flow!TypeOK

LEMMA FlowCreates ==
    ASSUME FlowInv, NEW f \in Flows, NEW b \in Batteries, Flow!CreateEntry(f, b, {b.address})
    PROVE  FlowInv'
<1>1. entries' = {e \in entries : b.address \notin e.id} \cup {[battery |-> b, id |-> {b.address}]}
  <2>1. \A e \in entries : e.id \cap {b.address} = {} <=> b.address \notin e.id
    OBVIOUS
  <2>. QED BY <2>1 DEF Flow!CreateEntry
<1>2. flows' = [g \in Flows |->
                   IF g = f \/ b.address \in flows[g].id THEN Flow!Closed ELSE flows[g]]
  <2>1. \A g \in Flows : flows[g].id \cap {b.address} # {} <=> b.address \in flows[g].id
    OBVIOUS
  <2>. QED BY <2>1 DEF Flow!CreateEntry
<1>3. Flow!TypeOK'
  BY <1>1, <1>2 DEF FlowInv, Flow!TypeOK, Flow!Card
<1>4. ASSUME NEW e \in entries', NEW o \in entries', NEW a \in e.id, a \in o.id PROVE e = o
  <2>1. CASE e \in entries /\ o \in entries
    BY <1>4, <2>1 DEF FlowInv
  <2>2. CASE b.address \notin e.id \/ b.address \notin o.id
    BY <1>1, <1>4, <2>1, <2>2
  <2>3. CASE b.address \in e.id /\ b.address \in o.id
    BY <1>1, <2>3
  <2>. QED BY <2>1, <2>2, <2>3
<1>5. ASSUME NEW g \in Flows, NEW a \in flows'[g].id
      PROVE  /\ \A h \in Flows : a \in flows'[h].id => h = g
             /\ \A e \in entries' : a \notin e.id
  <2>1. flows'[g] = flows[g] /\ a \in flows[g].id /\ b.address \notin flows[g].id
    BY <1>2, <1>5
  <2>2. \A h \in Flows : a \in flows'[h].id => h = g
    BY <1>2, <2>1 DEF FlowInv
  <2>3. \A e \in entries' : a \notin e.id
    BY <1>1, <2>1 DEF FlowInv
  <2>. QED BY <2>2, <2>3
<1>. QED BY <1>3, <1>4, <1>5 DEF FlowInv

LEMMA FlowStep == FlowInv /\ [Flow!Next]_Flow!vars => FlowInv'
<1> SUFFICES ASSUME FlowInv, [Flow!Next]_Flow!vars PROVE FlowInv'
  OBVIOUS
<1>1. ASSUME NEW f \in Flows, NEW b \in Batteries, Flow!Discover(f, b) PROVE FlowInv'
  <2>1. /\ flows' = [flows EXCEPT ![f] = Flow!Card(b)] /\ entries' = entries
        /\ \A g \in Flows : b.address \notin flows[g].id
        /\ \A e \in entries : b.address \notin e.id
    BY <1>1 DEF Flow!Discover, Flow!Ids
  <2>2. Flow!TypeOK'
    <3>1. flows' \in [Flows -> [step : {"none", "card", "form"}, id : SUBSET Flow!Addresses,
                               offers : SUBSET Batteries]]
      BY <2>1 DEF FlowInv, Flow!TypeOK, Flow!Card
    <3>2. ASSUME NEW g \in Flows
          PROVE  IF flows'[g].step = "card" THEN \E c \in Batteries : flows'[g] = Flow!Card(c)
                                            ELSE flows'[g].id = {}
      <4>1. CASE g = f
        <5>1. flows'[g] = Flow!Card(b)
          BY <2>1, <4>1 DEF FlowInv, Flow!TypeOK
        <5>2. flows'[g].step = "card"
          BY <5>1 DEF Flow!Card
        <5>. QED BY <5>1, <5>2
      <4>2. CASE g # f
        BY <2>1, <4>2 DEF FlowInv, Flow!TypeOK
      <4>. QED BY <4>1, <4>2
    <3>. QED BY <2>1, <3>1, <3>2 DEF FlowInv, Flow!TypeOK
  <2>3. flows'[f].id = {b.address} /\ \A g \in Flows \ {f} : flows'[g] = flows[g]
    BY <2>1 DEF FlowInv, Flow!TypeOK, Flow!Card
  <2>. QED BY <2>1, <2>2, <2>3 DEF FlowInv
<1>2. ASSUME NEW f \in Flows, NEW flow, flow.id = {}, flows' = [flows EXCEPT ![f] = flow],
             UNCHANGED entries, Flow!TypeOK'
      PROVE  FlowInv'
  <2>1. flows'[f].id = {} /\ \A g \in Flows \ {f} : flows'[g] = flows[g]
    BY <1>2 DEF FlowInv, Flow!TypeOK
  <2>. QED BY <1>2, <2>1 DEF FlowInv
<1>3. ASSUME NEW f \in Flows, NEW seen \in SUBSET Batteries, Flow!ShowForm(f, seen) PROVE FlowInv'
  <2>1. Flow!TypeOK'
    BY <1>3 DEF Flow!ShowForm, FlowInv, Flow!TypeOK, Flow!Card
  <2>. QED BY <1>2, <1>3, <2>1 DEF Flow!ShowForm
<1>4. ASSUME NEW f \in Flows, flows' = [flows EXCEPT ![f] = Flow!Closed], UNCHANGED entries
      PROVE  FlowInv'
  <2>1. Flow!TypeOK'
    BY <1>4 DEF FlowInv, Flow!TypeOK, Flow!Card
  <2>. QED BY <1>2, <1>4, <2>1
<1>5. ASSUME NEW f \in Flows, Flow!Dismiss(f) PROVE FlowInv'
  BY <1>4, <1>5 DEF Flow!Dismiss
<1>6. ASSUME NEW f \in Flows, NEW b \in Batteries, Flow!Choose(f, b) PROVE FlowInv'
  BY <1>4, <1>6, FlowCreates DEF Flow!Choose
<1>7. ASSUME NEW f \in Flows, Flow!Confirm(f) PROVE FlowInv'
  <2>1. \E b \in Batteries : Flow!CreateEntry(f, b, {b.address})
    <3>1. PICK b \in Batteries : flows[f].id = {b.address} /\ flows[f].offers = {b}
      BY <1>7, CardIs DEF Flow!Confirm
    <3>. QED BY <1>7, <3>1 DEF Flow!Confirm
  <2>. QED BY <2>1, FlowCreates
<1>8. ASSUME NEW e \in entries, Flow!Remove(e) PROVE FlowInv'
  BY <1>8 DEF Flow!Remove, FlowInv, Flow!TypeOK, Flow!Card
<1>9. CASE UNCHANGED Flow!vars
  BY <1>9 DEF Flow!vars, FlowInv, Flow!TypeOK, Flow!Card
<1>. QED BY <1>1, <1>3, <1>5, <1>6, <1>7, <1>8, <1>9 DEF Flow!Next

LEMMA FlowAlways == Flow!Spec => []FlowInv
BY FlowInit, FlowStep, PTL DEF Flow!Spec

(* An address gets one entry, however many cards and forms offer it at once: the user step asks for
   the address again, and whichever flow is first ends the card (async_step_bluetooth,
   async_step_user). *)
THEOREM AddressesGetOneEntry == Flow!Spec => []Flow!OneEntryPerAddress
<1>1. FlowInv => Flow!OneEntryPerAddress
  BY EntryIs DEF FlowInv, Flow!OneEntryPerAddress
<1>. QED BY <1>1, FlowAlways, PTL

(* A card that lies open is for an address that has no entry and no other card, whatever the other
   flows have done since it was shown (_abort_if_unique_id_configured and the flow manager). *)
THEOREM CardsStayNew == Flow!Spec => []Flow!CardsAreNew
<1>1. ASSUME FlowInv PROVE Flow!CardsAreNew
  <2> SUFFICES ASSUME NEW f \in Flows, NEW b \in Batteries,
                      flows[f].step = "card", b \in flows[f].offers
               PROVE  /\ \A e \in entries : e.battery.address # b.address
                      /\ \A g \in Flows \ {f} : flows[g].step = "card" =>
                             \A o \in flows[g].offers : o.address # b.address
    BY DEF Flow!CardsAreNew
  <2>1. b.address \in flows[f].id
    <3>1. \E c \in Batteries : flows[f].id = {c.address} /\ flows[f].offers = {c}
      BY <1>1, CardIs
    <3>. QED BY <3>1
  <2>2. ASSUME NEW e \in entries PROVE e.battery.address # b.address
    BY <1>1, <2>1, EntryIs DEF FlowInv
  <2>3. ASSUME NEW g \in Flows \ {f}, flows[g].step = "card", NEW o \in flows[g].offers
        PROVE  o.address # b.address
    <3>1. o.address \in flows[g].id
      <4>1. \E c \in Batteries : flows[g].id = {c.address} /\ flows[g].offers = {c}
        BY <1>1, <2>3, CardIs
      <4>. QED BY <2>3, <4>1
    <3>. QED BY <1>1, <2>1, <3>1 DEF FlowInv
  <2>. QED BY <2>2, <2>3
<1>. QED BY <1>1, FlowAlways, PTL

(* How far OneEntryPerName can fail: a battery that comes with another address each time has one
   entry as long as no two flows offer it at the same time. *)
THEOREM SecondEntryNeedsTwoOffers ==
    Flow!Spec /\ []Flow!OfferedOnce => [](Flow!OneEntryPerName /\ Flow!OffersAreNew)
<1> DEFINE Apart == Flow!OneEntryPerName /\ Flow!OffersAreNew
<1>1. Flow!Init => Apart
  BY DEF Flow!Init, Flow!OneEntryPerName, Flow!OffersAreNew, Flow!Names
<1>2. ASSUME FlowInv, Flow!OfferedOnce, Apart, [Flow!Next]_Flow!vars PROVE Apart'
  <2> USE <1>2
  <2>1. ASSUME NEW f \in Flows, NEW b \in Batteries, b \in flows[f].offers,
               Flow!CreateEntry(f, b, {b.address})
        PROVE  Apart'
    <3>1. entries' \subseteq entries \cup {[battery |-> b, id |-> {b.address}]}
      BY <2>1 DEF Flow!CreateEntry
    <3>2. \A g \in Flows : flows'[g].offers = {} \/ (g # f /\ flows'[g] = flows[g])
      <4>1. ASSUME NEW g \in Flows PROVE flows'[g] = Flow!Closed \/ (g # f /\ flows'[g] = flows[g])
        <5>1. flows'[g] = IF g = f \/ flows[g].id \cap {b.address} # {}
                            THEN Flow!Closed ELSE flows[g]
          BY <2>1, Zenon DEF Flow!CreateEntry
        <5>. QED BY <5>1
      <4>. QED BY <4>1
    <3>3. b.name \notin Flow!Names
      BY <2>1 DEF Flow!OffersAreNew
    <3>4. Flow!Names' \subseteq Flow!Names \cup {b.name}
      BY <3>1 DEF Flow!Names
    <3>5. Flow!OneEntryPerName'
      <4>1. ASSUME NEW e \in entries', NEW o \in entries', e.battery.name = o.battery.name
            PROVE  e = o
        <5>1. ASSUME NEW d \in entries PROVE d.battery.name # b.name
          BY <3>3 DEF Flow!Names
        <5>2. CASE e \in entries /\ o \in entries
          BY <4>1, <5>2 DEF Flow!OneEntryPerName
        <5>3. CASE e \notin entries /\ o \notin entries
          BY <3>1, <4>1, <5>3
        <5>4. CASE \/ e \notin entries /\ o \in entries
                   \/ e \in entries /\ o \notin entries
          <6>1. [battery |-> b, id |-> {b.address}].battery = b
            OBVIOUS
          <6>2. \/ e.battery = b /\ o \in entries
                \/ o.battery = b /\ e \in entries
            BY <3>1, <4>1, <5>4, <6>1
          <6>. QED BY <4>1, <5>1, <6>2
        <5>. QED BY <5>2, <5>3, <5>4
      <4>. QED BY <4>1 DEF Flow!OneEntryPerName
    <3>6. Flow!OffersAreNew'
      BY <2>1, <3>2, <3>4 DEF Flow!OffersAreNew, Flow!OfferedOnce
    <3>. QED BY <3>5, <3>6
  <2>2. ASSUME Flow!Names' \subseteq Flow!Names, entries' \subseteq entries,
               \A g \in Flows : flows'[g].offers \subseteq flows[g].offers
        PROVE  Apart'
    BY <2>2 DEF Flow!OneEntryPerName, Flow!OffersAreNew
  <2>3. ASSUME NEW f \in Flows, flows' = [flows EXCEPT ![f] = Flow!Closed], UNCHANGED entries
        PROVE  Apart'
    BY <2>2, <2>3 DEF FlowInv, Flow!TypeOK, Flow!Names
  <2>4. ASSUME NEW f \in Flows, NEW b \in Batteries, Flow!Discover(f, b) PROVE Apart'
    BY <2>4 DEF Flow!Discover, Flow!OneEntryPerName, Flow!OffersAreNew, Flow!Names, FlowInv,
                Flow!TypeOK, Flow!Card
  <2>5. ASSUME NEW f \in Flows, NEW seen \in SUBSET Batteries, Flow!ShowForm(f, seen) PROVE Apart'
    BY <2>5 DEF Flow!ShowForm, Flow!OneEntryPerName, Flow!OffersAreNew, Flow!Names, FlowInv,
                Flow!TypeOK
  <2>6. ASSUME NEW f \in Flows, Flow!Dismiss(f) PROVE Apart'
    BY <2>3, <2>6 DEF Flow!Dismiss
  <2>7. ASSUME NEW f \in Flows, NEW b \in Batteries, Flow!Choose(f, b) PROVE Apart'
    BY <2>1, <2>3, <2>7 DEF Flow!Choose
  <2>8. ASSUME NEW f \in Flows, Flow!Confirm(f) PROVE Apart'
    <3>1. \E b \in Batteries : b \in flows[f].offers /\ Flow!CreateEntry(f, b, {b.address})
      <4>1. PICK b \in Batteries : flows[f].id = {b.address} /\ flows[f].offers = {b}
        BY <2>8, CardIs DEF Flow!Confirm
      <4>. QED BY <2>8, <4>1 DEF Flow!Confirm
    <3>. QED BY <2>1, <3>1
  <2>9. ASSUME NEW e \in entries, Flow!Remove(e) PROVE Apart'
    BY <2>2, <2>9 DEF Flow!Remove, Flow!Names
  <2>10. CASE UNCHANGED Flow!vars
    BY <2>2, <2>10 DEF Flow!vars, Flow!Names
  <2>. QED BY <2>4, <2>5, <2>6, <2>7, <2>8, <2>9, <2>10 DEF Flow!Next
<1>. QED BY <1>1, <1>2, FlowAlways, PTL DEF Flow!Spec
=============================================================================
