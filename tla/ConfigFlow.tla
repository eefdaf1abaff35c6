---------------------------- MODULE ConfigFlow ----------------------------
(***************************************************************************)
(* How batteries become entries (config_flow.py): a card for a battery     *)
(* that was discovered, which waits to be confirmed, and a form with all   *)
(* batteries in sight, one of which is chosen.  Flows lie open for any     *)
(* time, beside one another.  Home Assistant keeps the unique IDs: what is *)
(* modelled of it is what the flows rely on.                               *)
(***************************************************************************)
CONSTANTS
    Batteries,  \* what is advertised: records of an address and a name
    Flows

VARIABLES
    entries,    \* of each entry the battery and the unique ID, if it has one
    flows       \* of each flow the step, the unique ID if it has one, and the batteries it offers

vars == <<entries, flows>>

Closed == [step |-> "none", id |-> {}, offers |-> {}]

Ids == UNION {e.id : e \in entries}

Names == {e.battery.name : e \in entries}

Card(b) == [step |-> "card", id |-> {b.address}, offers |-> {b}]

Addresses == {b.address : b \in Batteries}

(* The types, and what belongs together: an entry and a card have the unique ID of their address, a
   form gets one only in the step that ends it. *)
TypeOK ==
    /\ entries \subseteq {[battery |-> b, id |-> {b.address}] : b \in Batteries}
    /\ flows \in [Flows -> [step : {"none", "card", "form"}, id : SUBSET Addresses,
                            offers : SUBSET Batteries]]
    /\ \A f \in Flows :
         IF flows[f].step = "card" THEN \E b \in Batteries : flows[f] = Card(b)
                                   ELSE flows[f].id = {}

-----------------------------------------------------------------------------
Init ==
    /\ entries = {}
    /\ flows = [f \in Flows |-> Closed]

(* async_step_bluetooth: the flow goes on to its card unless the address is that of an entry or of a
   flow in progress, or the name that of an entry. *)
Discover(f, b) ==
    /\ flows[f].step = "none"
    /\ \A g \in Flows : b.address \notin flows[g].id
    /\ b.address \notin Ids
    /\ b.name \notin Names
    /\ flows' = [flows EXCEPT ![f] = Card(b)]
    /\ UNCHANGED entries

(* Home Assistant takes the entry of a flow: an entry of the same unique ID is replaced, and other
   flows of that ID are ended. *)
CreateEntry(f, b, id) ==
    /\ entries' = {e \in entries : e.id \cap id = {}} \cup {[battery |-> b, id |-> id]}
    /\ flows' = [g \in Flows |->
                    IF g = f \/ flows[g].id \cap id # {} THEN Closed ELSE flows[g]]

(* async_step_bluetooth_confirm asks nothing again. *)
Confirm(f) ==
    /\ flows[f].step = "card"
    /\ \E b \in flows[f].offers : CreateEntry(f, b, flows[f].id)

(* async_step_user without input: the form offers what is in sight, has no entry by its address and
   none by its name; without such a battery there is no form. *)
ShowForm(f, seen) ==
    /\ flows[f].step = "none"
    /\ LET offers == {b \in seen : b.address \notin Ids /\ b.name \notin Names} IN
         /\ offers # {}
         /\ flows' = [flows EXCEPT ![f] = [step |-> "form", id |-> {}, offers |-> offers]]
    /\ UNCHANGED entries

(* async_step_user with an address: the flow ends, with an entry unless the address has one. *)
Choose(f, b) ==
    /\ flows[f].step = "form" /\ b \in flows[f].offers
    /\ \/ b.address \notin Ids /\ CreateEntry(f, b, {b.address})
       \/ /\ b.address \in Ids
          /\ flows' = [flows EXCEPT ![f] = Closed]
          /\ UNCHANGED entries

(* A flow is dismissed, or an entry removed. *)
Dismiss(f) ==
    /\ flows[f].step # "none"
    /\ flows' = [flows EXCEPT ![f] = Closed]
    /\ UNCHANGED entries

Remove(e) ==
    /\ entries' = entries \ {e}
    /\ UNCHANGED flows

Next ==
    \/ \E f \in Flows :
         \/ \E b \in Batteries : Discover(f, b) \/ Choose(f, b)
         \/ \E seen \in SUBSET Batteries : ShowForm(f, seen)
         \/ Confirm(f) \/ Dismiss(f)
    \/ \E e \in entries : Remove(e)

Spec == Init /\ [][Next]_vars

-----------------------------------------------------------------------------
(* An address gets one entry, however many flows offer it at once: each flow has asked before the
   others were done, and only some ask again. *)
OneEntryPerAddress ==
    \A e, o \in entries : e.battery.address = o.battery.address => e = o

(* A card that lies open is for an address without an entry and without another card, whatever the
   other flows have done since it was shown: confirming it replaces nothing. *)
CardsAreNew ==
    \A f \in Flows, b \in Batteries : flows[f].step = "card" /\ b \in flows[f].offers =>
        /\ \A e \in entries : e.battery.address # b.address
        /\ \A g \in Flows \ {f} : flows[g].step = "card" =>
               \A o \in flows[g].offers : o.address # b.address

(* A battery has one entry, by its name: "This prevents duplicate discovery when devices use random
   MAC addresses" (config_flow.py:71), "to prevent duplicates" (152).  The code breaks it. *)
OneEntryPerName == \A e, o \in entries : e.battery.name = o.battery.name => e = o

(* What keeps the names apart if nothing else does: no flow offers a name that has an entry, and no
   two flows offer the same name. *)
OffersAreNew == \A f \in Flows, b \in Batteries : b \in flows[f].offers => b.name \notin Names

OfferedOnce ==
    \A f, g \in Flows, b, c \in Batteries :
        b \in flows[f].offers /\ c \in flows[g].offers /\ b.name = c.name => f = g
===========================================================================
