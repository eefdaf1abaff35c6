----------------------------- MODULE ProductData -----------------------------
(***************************************************************************)
(* What the notifications of a battery leave in the data that its entities *)
(* show: ProductProtocol.parse_notification and ProductRuntime             *)
(* .parse_payload of product_runtime.py, the payload parsers of            *)
(* venus_runtime.py and jupiter_runtime.py, the handler of                 *)
(* product_coordinator.py, and, for a Venus, the MarstekProtocol that the  *)
(* product runtime is to replace without a difference.                     *)
(*                                                                         *)
(* A frame is its command byte, the length of its payload, whether header, *)
(* declared length and checksum are right, whether its text decodes, and   *)
(* the attributes its text names.  A value is the number of the frame it   *)
(* came from and the bytes in it, so two decoders agree on a field exactly *)
(* when they read the same bytes of the same frame.                        *)
(***************************************************************************)
EXTENDS PacketLayouts

CONSTANTS
    Venus, Jupiter,     \* the two products
    Frames,             \* for each product, the frames that may arrive
    MaxFrames           \* bound on the number of notifications

(* The two product keys differ; a frame says in one byte how long it is. *)
ASSUME ProductsDiffer == Venus # Jupiter

ASSUME FramesAssumption ==
    /\ MaxFrames \in Nat
    /\ \A p \in {Venus, Jupiter} : \A f \in Frames[p] : f.sound => f.length \in 0..MaxPayload

VARIABLES
    product,
    heard,      \* notifications so far
    value,      \* each field's value
    marks,      \* field_updates under the canonical path of each field
    flat,       \* field_updates under the one-word names older code reads
    told,       \* the last notification that async_update_listeners followed
    legacy, legacyTold  \* values and result of MarstekProtocol on the same frames

vars == <<product, heard, value, marks, flat, told, legacy, legacyTold>>

None == <<0, 0, 0>>

Packets(p) == IF p = Venus THEN VenusPackets ELSE JupiterPackets

Sources(p) == IF p = Venus THEN VenusSources ELSE JupiterSources

Texts(p) == IF p = Venus THEN VenusTexts ELSE JupiterTexts

TextsOf(p, command) == {t[2] : t \in {u \in Texts(p) : u[1] = command}}

TextFields(p) == {t[2] : t \in Texts(p)}

Fields(p) == {s.field : s \in Sources(p)} \cup TextFields(p)

(* _FLAT_FIELD_PATHS of venus.py, _FLAT_PATHS of jupiter_runtime.py: <<name, field>>. *)
VenusFlatPaths == {<<f[3], f>> : f \in Fields(Venus)}

JupiterFlatPaths ==
    {<<"battery_voltage", <<"battery", 0, "voltage">>>>,
     <<"battery_current", <<"battery", 0, "current">>>>,
     <<"battery_soh", <<"battery", 0, "soh">>>>,
     <<"battery_temp", <<"battery", 0, "temperature">>>>,
     <<"design_capacity", <<"battery", 0, "rated_capacity">>>>,
     <<"grid_power", <<"runtime", 0, "ac_output_power">>>>,
     <<"out1_power", <<"runtime", 0, "ac_output_power">>>>,
     <<"daily_energy_discharged", <<"energy", 0, "daily_output_energy">>>>,
     <<"monthly_energy_discharged", <<"energy", 0, "monthly_output_energy">>>>,
     <<"total_energy_discharged", <<"energy", 0, "local_total_output_energy">>>>,
     <<"mosfet_temp", <<"battery", 0, "mosfet_temperature">>>>,
     <<"bms_version", <<"runtime", 0, "bms_firmware_version">>>>,
     <<"voltage_limit", <<"battery", 0, "charge_voltage_limit">>>>,
     <<"error_code", <<"battery", 0, "error_code_1">>>>,
     <<"warning_code", <<"battery", 0, "warning_code_1">>>>,
     <<"out1_active", <<"runtime", 0, "ac_output_active">>>>}
    \cup {<<n, <<"battery", 0, n>>>> :
            n \in {"temp_sensor_1", "temp_sensor_2", "temp_sensor_3", "temp_sensor_4",
                   "charge_current_limit", "discharge_current_limit"}}
    \cup {<<n, <<"identity", 0, n>>>> :
            n \in {"device_type", "device_id", "mac_address", "wifi_ssid"}}
    \cup {<<"battery_soc", <<"runtime", 0, "battery_soc">>>>}

FlatPaths(p) == IF p = Venus THEN VenusFlatPaths ELSE JupiterFlatPaths

FlatNames(p) == {r[1] : r \in FlatPaths(p)}

(* The fields whose update is also entered under a one-word name: the last part of the path, *)
(* and the older name of it. *)
EnteredAs(p, name) ==
    {f \in Fields(p) : f[3] = name} \cup {r[2] : r \in {q \in FlatPaths(p) : q[1] = name}}

Polled(p) == IF p = Venus THEN VenusPolled ELSE JupiterPolled

Unseen(p) == IF p = Venus THEN VenusUnseen ELSE JupiterUnseen

Derived(p) == IF p = Venus THEN VenusDerived ELSE JupiterDerived

-----------------------------------------------------------------------------
(* One response. *)

\* Mutant: the minimum length of a source is not looked at.
AppliesToAnyLength(s, length) == length >= s.first + s.size

Applies(s, length) == length >= s.first + s.size /\ length >= s.least

\* Mutant: a payload of the wrong length is decoded as far as it goes.
InBoundsUnchecked(p, f) == \E k \in Packets(p) : k[1] = f.command

InBounds(p, f) == \E k \in Packets(p) : k[1] = f.command /\ f.length \in k[2]..k[3]

(* parse_notification's checks, and parse_payload's before it decodes. *)
Accepted(p, f) == f.sound /\ InBounds(p, f)

Named(f, fields) == {x \in fields : x[3] \in f.names}

VenusText(f) ==
    CASE f.command = \h04 -> Named(f, TextsOf(Venus, \h04))
      [] f.command = \h24 ->
            Named(f, TextsOf(Venus, \h24)) \cup {<<"network", 0, "network_info">>}
      [] OTHER -> TextsOf(Venus, f.command)

JupiterText(f) ==
    CASE ~f.legible -> {}
      [] f.command = \h04 -> Named(f, TextsOf(Jupiter, \h04))
      [] OTHER -> TextsOf(Jupiter, f.command)

(* The updates an accepted frame makes: <<field, first byte, size>>. *)
Updates(p, f) ==
    IF TextsOf(p, f.command) # {}
    THEN {<<x, 0, f.length>> : x \in IF p = Venus THEN VenusText(f) ELSE JupiterText(f)}
    ELSE {<<s.field, s.first, s.size>> :
            s \in {t \in Sources(p) : t.packet = f.command /\ Applies(t, f.length)}}

\* Mutant: updates are applied before the frame has been checked.
WrittenUnchecked(p, f) == IF \E k \in Packets(p) : k[1] = f.command THEN Updates(p, f) ELSE {}

Written(p, f) == IF Accepted(p, f) THEN Updates(p, f) ELSE {}

\* Mutant: every attribute a device information frame can name is marked, as MarstekProtocol does.
MarkedByCommand(p, f) ==
    {u[1] : u \in Written(p, f)}
    \cup (IF Accepted(p, f) /\ f.command = \h04 THEN TextsOf(p, \h04) ELSE {})

Marked(p, f) == {u[1] : u \in Written(p, f)}

(* The new contents: the fields in updates, whose first component is the key, get the frame. *)
Stored(old, updates, frame) ==
    [x \in DOMAIN old |->
        IF \E u \in updates : u[1] = x
        THEN LET u == CHOOSE u \in updates : u[1] = x IN <<frame, u[2], u[3]>>
        ELSE old[x]]

(* MarstekProtocol on the same frame. *)
LegacyAccepted(f) ==
    f.sound /\ \E k \in LegacyLeast : k[1] = f.command /\ f.length >= k[2]

LegacyText(f) ==
    CASE f.command = \h04 -> f.names \cap VenusDeviceInformation
      [] f.command = \h08 -> {"wifi_ssid"}
      [] f.command = \h21 -> {"meter_ip"}
      [] f.command = \h24 -> {"network_info"} \cup (f.names \cap VenusNetworkAddresses)
      [] f.command = \h28 -> {"local_api_status"}
      [] OTHER -> {}

LegacyWritten(f) ==
    IF LegacyAccepted(f)
    THEN LegacySlices(f.command, f.length) \cup {<<n, 0, f.length>> : n \in LegacyText(f)}
    ELSE {}

-----------------------------------------------------------------------------
Init ==
    /\ product \in {Venus, Jupiter}
    /\ heard = 0 /\ told = 0 /\ legacyTold = 0
    /\ value = [f \in Fields(product) |-> None]
    /\ marks = [f \in Fields(product) |-> 0]
    /\ flat = [n \in FlatNames(product) |-> 0]
    /\ legacy = IF product = Venus THEN [n \in FlatNames(Venus) |-> None] ELSE <<>>

(* The time stamp of the next notification. *)
Now == heard + 1

(* _handle_notification: listeners are called only when the frame was parsed. *)
Notify(f) ==
    /\ heard < MaxFrames
    /\ heard' = Now
    /\ value' = Stored(value, Written(product, f), Now)
    /\ LET marked == Marked(product, f) IN
         /\ marks' = [x \in DOMAIN marks |-> IF x \in marked THEN Now ELSE marks[x]]
         /\ flat' = [n \in DOMAIN flat |->
                       IF EnteredAs(product, n) \cap marked # {} THEN Now ELSE flat[n]]
    /\ told' = IF Accepted(product, f) THEN Now ELSE told
    /\ IF product = Venus
       THEN /\ legacy' = Stored(legacy, LegacyWritten(f), Now)
            /\ legacyTold' = IF LegacyAccepted(f) THEN Now ELSE legacyTold
       ELSE UNCHANGED <<legacy, legacyTold>>
    /\ UNCHANGED product

Next == \E f \in Frames[product] : Notify(f)

Spec == Init /\ [][Next]_vars

-----------------------------------------------------------------------------
Bytes == (0..heard) \X (0..MaxPayload) \X (0..MaxPayload)

(* The types; nothing comes from a notification not yet received. *)
TypeOK ==
    /\ product \in {Venus, Jupiter}
    /\ heard \in 0..MaxFrames
    /\ \A f \in DOMAIN value : value[f] \in Bytes
    /\ DOMAIN value = Fields(product)
    /\ marks \in [Fields(product) -> 0..heard]
    /\ flat \in [FlatNames(product) -> 0..heard]
    /\ {told, legacyTold} \subseteq 0..heard

(* The product runtime of a Venus is a drop-in for MarstekProtocol (the two decoders share no
   code): whatever frames of whatever length arrive in whatever order, every flat name reads the
   same bytes of the same frame, and entities are told of the same frames. *)
DropIn ==
    product = Venus =>
        /\ told = legacyTold
        /\ \A f \in Fields(Venus) : value[f] = legacy[f[3]]

(* The older names of fields, without the error_code of a Jupiter: the inverter's field of that
   name enters its updates under it too, while the name reads the battery's. *)
OlderNames(p) ==
    IF p = Jupiter THEN {r \in FlatPaths(p) : r[1] # "error_code"} ELSE FlatPaths(p)

(* The time stamp under which a sensor decides that a field is stale is that of the frame its
   value came from, under the field's path and under the older name of it. *)
MetadataMatchesValue ==
    /\ \A f \in Fields(product) : marks[f] = value[f][1]
    /\ \A r \in OlderNames(product) : flat[r[1]] = value[r[2]][1]

(* A derived sensor multiplies fields of one and the same frame: power is never the voltage of
   one moment times the current of another, however short and long frames mix. *)
DerivedInputsAgree ==
    \A d \in Derived(product) : \A f, g \in d : value[f][1] = value[g][1]

(* The names of the fields of a Venus differ, whatever their section. *)
NamesDiffer == \A f, g \in Fields(Venus) : f[3] = g[3] => f = g

(* A frame updates fields of the product, each from one place. *)
Definite(p, f) ==
    LET written == Written(p, f) IN
    \A u, v \in written : u[1] \in Fields(p) /\ (u[1] = v[1] => u = v)

(* A frame enters an older name exactly if it updates the field that the name reads. *)
NamedAlike(p, f) ==
    LET marked == Marked(p, f) IN
    \A r \in OlderNames(p) : EnteredAs(p, r[1]) \cap marked # {} <=> r[2] \in marked

(* A frame updates all that a derived sensor is made of, or nothing of it. *)
Together(p, f) ==
    LET marked == Marked(p, f) IN
    \A d \in Derived(p) : d \subseteq marked \/ d \cap marked = {}

(* A frame says the same to both decoders of a Venus. *)
ReadAlike(f) ==
    /\ LegacyAccepted(f) <=> Accepted(Venus, f)
    /\ LegacyWritten(f) = {<<u[1][3], u[2], u[3]>> : u \in Written(Venus, f)}

OfEveryLength(p) ==
    [command : {k[1] : k \in Packets(p)}, length : 0..MaxPayload,
     sound : {TRUE}, legible : {TRUE}, names : {{}}]

Last(s) == s.first + s.size - 1

Nested(s, t) == t.first <= s.first /\ Last(s) <= Last(t)

(* The tables of a product make sense together: two fields of a packet share bytes only if one
   is within the other (bits of a status word, an event and its parts), each source fits some
   payload its packet allows, each field with an entity is in a packet that a poll asks for, and
   a payload of any length enters no older name without the field it reads, feeds no derived
   sensor in part, and has at most one value for a field, which for a Venus is the one that
   MarstekProtocol reads. *)
LayoutsAreSound ==
    heard = 0 =>
        /\ \A s, t \in Sources(product) :
             s.packet = t.packet /\ s.first <= t.first /\ t.first <= Last(s)
                => Nested(s, t) \/ Nested(t, s)
        /\ \A s \in Sources(product) :
             \E k \in Packets(product) : k[1] = s.packet /\ Applies(s, k[3])
        /\ \A f \in Fields(product) \ Unseen(product) :
             \/ \E s \in Sources(product) : s.field = f /\ s.packet \in Polled(product)
             \/ \E t \in Texts(product) : t[2] = f /\ t[1] \in Polled(product)
        /\ \A r \in OlderNames(product) : r[2] \in Fields(product)
        /\ \A d \in Derived(product) : d \subseteq Fields(product)
        /\ \A f \in OfEveryLength(product) \cup Frames[product] :
             /\ Definite(product, f) /\ NamedAlike(product, f) /\ Together(product, f)
             /\ product = Venus => ReadAlike(f)
        /\ product = Venus => NamesDiffer

(* Decoding is all or nothing: a frame that entities are not told of has changed no value and
   no time stamp. *)
RejectedFramesAreIgnored ==
    [][told' = told => UNCHANGED <<value, marks, flat>>]_vars
=============================================================================
