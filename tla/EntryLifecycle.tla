--------------------------- MODULE EntryLifecycle ---------------------------
(***************************************************************************)
(* The config entry of one battery: __init__.py, with what coordinator.py  *)
(* leaves running.  Every setup makes a new coordinator.  Home Assistant   *)
(* serializes setup and unload of an entry, runs the on_unload callbacks   *)
(* after a successful unload and after ConfigEntryNotReady, and drops      *)
(* runtime_data after an unload; the coordinators' polls, advertisements   *)
(* and changes of the options come in at every await.                      *)
(*                                                                         *)
(* Every coordinator that was created keeps its time trigger: no step of   *)
(* the code unsubscribes it other than a change of its own intervals,      *)
(* which subscribes it again (coordinator.py 221-227).                     *)
(***************************************************************************)
EXTENDS Naturals

CONSTANTS
    Coordinators,   \* coordinator objects, one for every setup
    Options,        \* the intervals that the options may hold
    None,
    MaxUpdates      \* bound on the runs of the update listener waiting to run

ASSUME NoneAssumption == None \notin Coordinators

ASSUME OptionsAssumption == Options # {} /\ MaxUpdates \in Nat

VARIABLES
    entry,      \* state of the entry, and the await setup or unload is at
    options,    \* entry.options
    updates,    \* runs of _async_handle_entry_update waiting to run
    runtime,    \* entry.runtime_data
    stored,     \* hass.data[DOMAIN][entry_id]["coordinator"]
    platforms,  \* the coordinator of the entities that exist
    created,    \* coordinators made so far
    listening,  \* those whose async_start, and the update listener beside it,
                \* is not undone
    ready,      \* those whose _ready_event is set
    intervals,  \* the intervals they poll at
    sending,    \* those with a command in flight
    linked      \* those whose MarstekBLEDevice has the link up

vars == <<entry, options, updates, runtime, stored, platforms, created, listening, ready,
          intervals, sending, linked>>

entryVars == <<entry, runtime, stored, platforms>>
deviceVars == <<sending, linked>>

States == {"notLoaded", "retry", "waiting", "forwarding", "loaded", "disconnecting",
           "unloading", "failedUnload"}

TypeOK ==
    /\ entry \in States
    /\ options \in Options
    /\ updates \in Nat
    /\ {runtime, stored, platforms} \subseteq Coordinators \cup {None}
    /\ created \subseteq Coordinators
    /\ listening \subseteq created
    /\ ready \subseteq created
    /\ intervals \in [Coordinators -> Options]
    /\ sending \subseteq created
    /\ linked \subseteq created

Init ==
    /\ entry = "notLoaded"
    /\ options \in Options
    /\ updates = 0
    /\ runtime = None /\ stored = None /\ platforms = None
    /\ created = {} /\ listening = {} /\ ready = {}
    /\ intervals = [c \in Coordinators |-> options]
    /\ sending = {} /\ linked = {}

----------------------------------------------------------------------------
(* async_setup_entry                                                       *)

\* The battery is not connectable, or its product is unknown.
SetupNotFound ==
    /\ entry = "notLoaded"
    /\ entry' = "retry"
    /\ UNCHANGED <<options, updates, runtime, stored, platforms, created, listening, ready,
                   intervals, deviceVars>>

\* Up to the await in async_wait_ready.
SetupBegins(c) ==
    /\ entry \in {"notLoaded", "retry"}
    /\ c \notin created
    /\ created' = created \cup {c}
    /\ intervals' = [intervals EXCEPT ![c] = options]
    /\ runtime' = c
    /\ listening' = listening \cup {c}
    /\ entry' = "waiting"
    /\ UNCHANGED <<options, updates, stored, platforms, ready, deviceVars>>

\* Mutants: setup goes on without readiness; the subscription outlives a failed setup.
BatteryReadyAnyway ==
    /\ entry = "waiting"
    /\ stored' = runtime
    /\ entry' = "forwarding"
    /\ UNCHANGED <<options, updates, runtime, platforms, created, listening, ready, intervals,
                   deviceVars>>

ReadyTimeoutKeepsListening ==
    /\ entry = "waiting"
    /\ entry' = "retry"
    /\ UNCHANGED <<options, updates, runtime, stored, platforms, created, listening, ready,
                   intervals, deviceVars>>

\* async_wait_ready returns True: the coordinator is stored, the platforms load.
BatteryReady ==
    /\ entry = "waiting"
    /\ runtime \in ready
    /\ stored' = runtime
    /\ entry' = "forwarding"
    /\ UNCHANGED <<options, updates, runtime, platforms, created, listening, ready, intervals,
                   deviceVars>>

\* 30 s are over, perhaps in the iteration in which the event was set: setup
\* raises, and the on_unload callbacks run.
ReadyTimeout ==
    /\ entry = "waiting"
    /\ entry' = "retry"
    /\ listening' = listening \ {runtime}
    /\ UNCHANGED <<options, updates, runtime, stored, platforms, created, ready, intervals,
                   deviceVars>>

PlatformsForwarded ==
    /\ entry = "forwarding"
    /\ platforms' = runtime
    /\ entry' = "loaded"
    /\ UNCHANGED <<options, updates, runtime, stored, created, listening, ready, intervals,
                   deviceVars>>

----------------------------------------------------------------------------
(* async_unload_entry                                                      *)

\* Up to the await of device.disconnect().
UnloadBegins ==
    /\ entry = "loaded"
    /\ entry' = "disconnecting"
    /\ UNCHANGED <<options, updates, runtime, stored, platforms, created, listening, ready,
                   intervals, deviceVars>>

\* disconnect() is over, or raised, which is logged; the platforms unload next.
Disconnected(ok) ==
    /\ entry = "disconnecting"
    /\ linked' = IF ok THEN linked \ {stored} ELSE linked
    /\ entry' = "unloading"
    /\ UNCHANGED <<options, updates, runtime, stored, platforms, created, listening, ready,
                   intervals, sending>>

PlatformsUnloaded ==
    /\ entry = "unloading"
    /\ stored' = None
    /\ platforms' = None
    /\ listening' = listening \ {runtime}
    /\ runtime' = None
    /\ entry' = "notLoaded"
    /\ UNCHANGED <<options, updates, created, ready, intervals, deviceVars>>

PlatformsStay ==
    /\ entry = "unloading"
    /\ entry' = "failedUnload"
    /\ UNCHANGED <<options, updates, runtime, stored, platforms, created, listening, ready,
                   intervals, deviceVars>>

\* An entry that waits for its next try is unloaded without a call.
RetryCancelled ==
    /\ entry = "retry"
    /\ entry' = "notLoaded"
    /\ UNCHANGED <<options, updates, runtime, stored, platforms, created, listening, ready,
                   intervals, deviceVars>>

----------------------------------------------------------------------------
(* Options                                                                 *)

\* Mutant: the listener is registered once the platforms are loaded.
ChangeOptionsUnheard(o) ==
    /\ o # options
    /\ updates < MaxUpdates
    /\ options' = o
    /\ updates' = IF runtime \in listening /\ entry # "waiting" THEN updates + 1 ELSE updates
    /\ UNCHANGED <<entryVars, created, listening, ready, intervals, deviceVars>>

\* The user changes the options; Home Assistant makes a task of the listener.
ChangeOptions(o) ==
    /\ o # options
    /\ updates < MaxUpdates
    /\ options' = o
    /\ updates' = IF runtime \in listening THEN updates + 1 ELSE updates
    /\ UNCHANGED <<entryVars, created, listening, ready, intervals, deviceVars>>

\* _async_handle_entry_update: it reads the coordinator and the options of now.
HandleUpdate ==
    /\ updates > 0
    /\ updates' = updates - 1
    /\ intervals' = IF runtime = None THEN intervals
                    ELSE [intervals EXCEPT ![runtime] = options]
    /\ UNCHANGED <<entryVars, options, created, listening, ready, deviceVars>>

----------------------------------------------------------------------------
(* The coordinators                                                        *)

\* _async_handle_bluetooth_event; the poll that it may start is CommandStarts.
Advertisement(c) ==
    /\ c \in listening
    /\ ready' = ready \cup {c}
    /\ UNCHANGED <<entryVars, options, updates, created, listening, intervals, deviceVars>>

\* A poll of c, of the time trigger if of nothing else, sends a command and
\* connects for it; each coordinator's own lock admits one at a time.
CommandStarts(c) ==
    /\ c \in created
    /\ c \notin sending
    /\ sending' = sending \cup {c}
    /\ linked' = linked \cup {c}
    /\ UNCHANGED <<entryVars, options, updates, created, listening, ready, intervals>>

CommandEnds(c) ==
    /\ c \in sending
    /\ sending' = sending \ {c}
    /\ UNCHANGED <<entryVars, options, updates, created, listening, ready, intervals, linked>>

\* The inactivity timer, or a loss of the link.
LinkEnds(c) ==
    /\ c \in linked
    /\ linked' = linked \ {c}
    /\ UNCHANGED <<entryVars, options, updates, created, listening, ready, intervals, sending>>

----------------------------------------------------------------------------

Setup == SetupNotFound \/ (\E c \in Coordinators : SetupBegins(c)) \/ BatteryReady
            \/ ReadyTimeout \/ PlatformsForwarded

Unload == UnloadBegins \/ (\E ok \in BOOLEAN : Disconnected(ok)) \/ PlatformsUnloaded
            \/ PlatformsStay \/ RetryCancelled

Next ==
    \/ Setup
    \/ Unload
    \/ HandleUpdate \/ \E o \in Options : ChangeOptions(o)
    \/ \E c \in Coordinators :
         Advertisement(c) \/ CommandStarts(c) \/ CommandEnds(c) \/ LinkEnds(c)

Spec == Init /\ [][Next]_vars

----------------------------------------------------------------------------
(* Properties                                                              *)

\* One coordinator of the battery hears advertisements, the one in runtime_data,
\* however often setup fails or the entry is reloaded (__init__.py 116-122).
OneListener == listening \subseteq {runtime}

\* The entities of a loaded entry belong to the coordinator that hears the battery
\* and was heard of, that the options reach, and that unload disconnects
\* (__init__.py 105-140, 155).
EntitiesAreServed ==
    entry = "loaded" =>
        /\ platforms # None
        /\ platforms = stored /\ platforms = runtime
        /\ platforms \in listening /\ platforms \in ready

\* Options changed at any moment, the ready wait of setup included, are in force
\* when the listener has run (__init__.py 117, 188-203).
OptionsInForce ==
    updates = 0 /\ runtime \in listening => intervals[runtime] = options

\* The stored coordinator is the one in use, and is stored only from readiness to
\* the end of the unload; entities exist for no other.
StoredFollowsEntry ==
    /\ runtime # None => runtime \in created
    /\ IF entry \in {"notLoaded", "retry", "waiting"}
         THEN stored = None /\ platforms = None
         ELSE stored = runtime /\ runtime \in listening /\ runtime \in ready
    /\ entry = "waiting" => runtime \in listening
    /\ entry = "forwarding" => platforms = None
    /\ entry \in {"notLoaded", "retry"} => listening = {}
    /\ entry \in {"loaded", "disconnecting", "unloading", "failedUnload"} =>
           platforms = runtime

\* Inductive; proved in LifecycleProofs.
IInv == TypeOK /\ OneListener /\ StoredFollowsEntry /\ OptionsInForce

\* Commands to the battery are serialized (docs/OKF/venus-ble-protocol.md:99).  The
\* code breaks this: the time trigger of a coordinator that was replaced polls on.
CommandsAreSerialized == \A c, d \in sending : c = d
=============================================================================
