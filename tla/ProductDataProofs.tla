------------------------- MODULE ProductDataProofs -------------------------
(***************************************************************************)
(* What the run shows for three notifications and for the frames it has,   *)
(* for any number of any frames.  The first part is about the tables of    *)
(* the two products, entry by entry: a frame of any command and length     *)
(* updates each field from one place, enters each older name with the      *)
(* field it reads, brings all of a derived sensor or nothing of it, and    *)
(* says the same to MarstekProtocol.  The second part carries that over    *)
(* to every sequence of frames.                                            *)
(***************************************************************************)
EXTENDS ProductData, TLAPS

(* A field has one place in a packet. *)
OnePlace(S) ==
    \A s, t \in S : s.packet = t.packet /\ s.field = t.field => s.first = t.first /\ s.size = t.size

(* The sources of one section. *)
PartOf(S, section) ==
    /\ \A s \in S : /\ s.first \in Nat /\ s.size \in Nat /\ s.least \in Nat
                    /\ s.field[1] = section
    /\ OnePlace(S)

LEMMA VenusParts ==
    /\ PartOf(VenusRuntimeData \cup VenusEnergyCounters, "runtime")
    /\ PartOf(VenusBatteryLimits \cup VenusBatteryStatus, "battery")
    /\ PartOf(VenusSystemData, "system")
    /\ PartOf(VenusTimerData, "timer")
    /\ PartOf(VenusConfigurationData, "configuration")
<1> USE DEF PartOf, OnePlace, In
<1>1. PartOf(VenusRuntimeData \cup VenusEnergyCounters, "runtime")
  BY DEF VenusRuntimeData, VenusEnergyCounters
<1>2. PartOf(VenusBatteryLimits \cup VenusBatteryStatus, "battery")
  BY DEF VenusBatteryLimits, VenusBatteryStatus
<1>3. PartOf(VenusSystemData, "system")
  BY DEF VenusSystemData
<1>4. PartOf(VenusTimerData, "timer")
  BY DEF VenusTimerData
<1>5. PartOf(VenusConfigurationData, "configuration")
  BY DEF VenusConfigurationData
<1> QED BY <1>1, <1>2, <1>3, <1>4, <1>5

LEMMA JupiterParts ==
    /\ PartOf(JupiterPvInputData, "pv_inputs") /\ PartOf(JupiterRuntimeData, "runtime")
    /\ PartOf(JupiterEnergyData, "energy") /\ PartOf(JupiterInverterData, "inverter")
    /\ PartOf(JupiterMpptData, "mppt") /\ PartOf(JupiterBatteryPackData, "packs")
    /\ PartOf(JupiterBatteryData, "battery") /\ PartOf(JupiterEventRecord, "events")
    /\ PartOf(JupiterRawStatusData, "raw_status")
<1> USE DEF PartOf, OnePlace
<1>1. PartOf(JupiterPvInputData, "pv_inputs")
  BY DEF JupiterPvInputData, Repeated
<1>2. PartOf(JupiterRuntimeData, "runtime")
  BY DEF JupiterRuntimeData, In
<1>3. PartOf(JupiterEnergyData, "energy")
  BY DEF JupiterEnergyData, In
<1>4. PartOf(JupiterInverterData, "inverter")
  BY DEF JupiterInverterData, In
<1>5. PartOf(JupiterMpptData, "mppt")
  BY DEF JupiterMpptData, In
<1>6. PartOf(JupiterBatteryPackData, "packs")
  BY DEF JupiterBatteryPackData, Repeated
<1>7. PartOf(JupiterBatteryData, "battery")
  BY DEF JupiterBatteryData, In
<1>8. PartOf(JupiterEventRecord, "events")
  BY DEF JupiterEventRecord, Repeated
<1>9. PartOf(JupiterRawStatusData, "raw_status")
  BY DEF JupiterRawStatusData, In
<1> QED BY <1>1, <1>2, <1>3, <1>4, <1>5, <1>6, <1>7, <1>8, <1>9, Zenon

LEMMA VenusSections ==
    \A s \in VenusSources :
        \/ s.field[1] = "runtime" /\ s \in VenusRuntimeData \cup VenusEnergyCounters
        \/ s.field[1] = "battery" /\ s \in VenusBatteryLimits \cup VenusBatteryStatus
        \/ s.field[1] = "system" /\ s \in VenusSystemData
        \/ s.field[1] = "timer" /\ s \in VenusTimerData
        \/ s.field[1] = "configuration" /\ s \in VenusConfigurationData
BY VenusParts DEF PartOf, VenusSources

LEMMA JupiterSections ==
    \A s \in JupiterSources :
        \/ s.field[1] = "pv_inputs" /\ s \in JupiterPvInputData
        \/ s.field[1] = "runtime" /\ s \in JupiterRuntimeData
        \/ s.field[1] = "energy" /\ s \in JupiterEnergyData
        \/ s.field[1] = "inverter" /\ s \in JupiterInverterData
        \/ s.field[1] = "mppt" /\ s \in JupiterMpptData
        \/ s.field[1] = "packs" /\ s \in JupiterBatteryPackData
        \/ s.field[1] = "battery" /\ s \in JupiterBatteryData
        \/ s.field[1] = "events" /\ s \in JupiterEventRecord
        \/ s.field[1] = "raw_status" /\ s \in JupiterRawStatusData
BY JupiterParts DEF PartOf, JupiterSources

LEMMA PlacesAreDefinite == \A p \in {Venus, Jupiter} : OnePlace(Sources(p))
<1>1. OnePlace(VenusSources)
  <2> SUFFICES ASSUME NEW s \in VenusSources, NEW t \in VenusSources,
                      s.packet = t.packet, s.field = t.field
               PROVE  s.first = t.first /\ s.size = t.size
      BY DEF OnePlace
  <2>1. s.field[1] = t.field[1]
    OBVIOUS
  <2> QED BY <2>1, VenusSections, VenusParts DEF PartOf, OnePlace
<1>2. OnePlace(JupiterSources)
  <2> SUFFICES ASSUME NEW s \in JupiterSources, NEW t \in JupiterSources,
                      s.packet = t.packet, s.field = t.field
               PROVE  s.first = t.first /\ s.size = t.size
      BY DEF OnePlace
  <2>1. s.field[1] = t.field[1]
    OBVIOUS
  <2> QED BY <2>1, JupiterSections, JupiterParts DEF PartOf, OnePlace
<1> QED BY <1>1, <1>2 DEF Sources

LEMMA PlacesAreNumbers ==
    \A p \in {Venus, Jupiter} : \A s \in Sources(p) :
        s.first \in Nat /\ s.size \in Nat /\ s.least \in Nat
BY VenusParts, JupiterParts, VenusSections, JupiterSections DEF PartOf, Sources

(* The parts of the Venus schema by packet. *)
LEMMA VenusPacketParts ==
    /\ \A s \in VenusRuntimeData \cup VenusEnergyCounters : s.packet = \h03
    /\ \A s \in VenusBatteryLimits \cup VenusBatteryStatus : s.packet = \h14
    /\ \A s \in VenusSystemData : s.packet = \h0D
    /\ \A s \in VenusTimerData : s.packet = \h13
    /\ \A s \in VenusConfigurationData : s.packet \in {\h1A, \h22}
BY DEF VenusRuntimeData, VenusEnergyCounters, VenusBatteryLimits, VenusBatteryStatus,
       VenusSystemData, VenusTimerData, VenusConfigurationData, In

(* No two fields of a Venus are called alike. *)
LEMMA VenusNamesDiffer == NamesDiffer
<1>1. ASSUME NEW s \in VenusSources, NEW t \in VenusSources, s.field[3] = t.field[3]
      PROVE  s.field[1] = t.field[1]
  BY <1>1 DEF VenusSources, VenusRuntimeData, VenusEnergyCounters, VenusBatteryLimits,
     VenusBatteryStatus, VenusSystemData, VenusTimerData, VenusConfigurationData, In
<1>2. ASSUME NEW s \in VenusSources PROVE s.field = <<s.field[1], 0, s.field[3]>>
  BY <1>2 DEF VenusSources, VenusRuntimeData, VenusEnergyCounters, VenusBatteryLimits,
     VenusBatteryStatus, VenusSystemData, VenusTimerData, VenusConfigurationData, In
<1>3. ASSUME NEW s \in VenusSources, NEW t \in VenusTexts PROVE s.field[3] # t[2][3]
  BY DEF VenusTexts, VenusDeviceInformation, VenusNetworkAddresses, VenusSources,
     VenusRuntimeData, VenusEnergyCounters, VenusBatteryLimits, VenusBatteryStatus,
     VenusSystemData, VenusTimerData, VenusConfigurationData, In
<1>4. ASSUME NEW t \in VenusTexts, NEW u \in VenusTexts, t[2][3] = u[2][3] PROVE t[2] = u[2]
  BY <1>4 DEF VenusTexts, VenusDeviceInformation, VenusNetworkAddresses
<1>5. ASSUME NEW s \in VenusSources, NEW t \in VenusSources, s.field[3] = t.field[3]
      PROVE  s.field = t.field
  BY <1>1, <1>2, <1>5
<1>6. Fields(Venus) = {s.field : s \in VenusSources} \cup {t[2] : t \in VenusTexts}
  BY DEF Fields, Sources, TextFields, Texts
<1> QED BY <1>3, <1>4, <1>5, <1>6 DEF NamesDiffer

FieldsOf(S) == {s.field : s \in S}

(* Rows of a part are fields of it. *)
LEMMA RowsAreFields ==
    ASSUME NEW S, NEW section, NEW packet, NEW least, NEW rows,
           In(section, packet, least, rows) \subseteq S
    PROVE  {<<section, 0, r[1]>> : r \in rows} \subseteq FieldsOf(S)
<1> SUFFICES ASSUME NEW r \in rows PROVE <<section, 0, r[1]>> \in FieldsOf(S)
  OBVIOUS
<1> DEFINE s == [field |-> <<section, 0, r[1]>>, packet |-> packet,
                 first |-> r[2], size |-> r[3], least |-> least]
<1>1. s \in S /\ s.field = <<section, 0, r[1]>>
  BY DEF In
<1> QED BY <1>1, Zenon DEF FieldsOf

LEMMA OlderNamesAreFields == \A r \in JupiterFlatPaths :
    r[2] \in FieldsOf(JupiterSources) \cup {t[2] : t \in JupiterTexts}
<1> DEFINE
   battery == {<<"voltage", \h66, 2>>, <<"current", \h68, 2>>, <<"soh", \h60, 2>>,
     <<"temperature", \h6A, 2>>, <<"rated_capacity", \h62, 2>>, <<"mosfet_temperature", \hA4, 2>>,
     <<"charge_voltage_limit", \h58, 2>>, <<"error_code_1", \h6C, 2>>,
     <<"warning_code_1", \h6E, 2>>, <<"temp_sensor_1", \h9A, 2>>, <<"temp_sensor_2", \h9C, 2>>,
     <<"temp_sensor_3", \h9E, 2>>, <<"temp_sensor_4", \hA0, 2>>,
     <<"charge_current_limit", \h5A, 2>>, <<"discharge_current_limit", \h5C, 2>>}
   runtime == {<<"ac_output_power", \h0C, 2>>, <<"ac_output_active", \h0E, 1>>,
               <<"battery_soc", \h15, 1>>, <<"bms_firmware_version", \h35, 2>>}
   energy == {<<"daily_output_energy", \h14, 4>>, <<"monthly_output_energy", \h1C, 4>>,
              <<"local_total_output_energy", \h18, 4>>}
   identity == {<<"identity", 0, "device_type">>, <<"identity", 0, "device_id">>,
                <<"identity", 0, "mac_address">>, <<"identity", 0, "wifi_ssid">>}
<1>1. \A r \in JupiterFlatPaths :
        \/ r[2] \in {<<"battery", 0, q[1]>> : q \in battery}
        \/ r[2] \in {<<"runtime", 0, q[1]>> : q \in runtime}
        \/ r[2] \in {<<"energy", 0, q[1]>> : q \in energy}
        \/ r[2] \in identity
  BY DEF JupiterFlatPaths
<1>2. {<<"battery", 0, q[1]>> : q \in battery} \subseteq FieldsOf(JupiterBatteryData)
  <2>1. In("battery", \h14, 0, battery) \subseteq JupiterBatteryData
    BY DEF JupiterBatteryData, In
  <2> HIDE DEF battery
  <2> QED BY <2>1, RowsAreFields, Zenon
<1>3. {<<"runtime", 0, q[1]>> : q \in runtime} \subseteq FieldsOf(JupiterRuntimeData)
  <2>1. In("runtime", \h03, 0, runtime) \subseteq JupiterRuntimeData
    BY DEF JupiterRuntimeData, In
  <2> QED BY <2>1, RowsAreFields, Zenon
<1>4. {<<"energy", 0, q[1]>> : q \in energy} \subseteq FieldsOf(JupiterEnergyData)
  <2>1. In("energy", \h14, 0, energy) \subseteq JupiterEnergyData
    BY DEF JupiterEnergyData, In
  <2> QED BY <2>1, RowsAreFields, Zenon
<1>5. identity \subseteq {t[2] : t \in JupiterTexts}
  <2>1. \A x \in identity : <<\h04, x>> \in JupiterTexts \/ <<\h08, x>> \in JupiterTexts
    BY DEF JupiterTexts, JupiterIdentity
  <2> QED BY <2>1
<1>6. /\ FieldsOf(JupiterBatteryData) \subseteq FieldsOf(JupiterSources)
      /\ FieldsOf(JupiterRuntimeData) \subseteq FieldsOf(JupiterSources)
      /\ FieldsOf(JupiterEnergyData) \subseteq FieldsOf(JupiterSources)
  BY DEF FieldsOf, JupiterSources
<1> HIDE DEF battery, runtime, energy, identity
<1> QED BY <1>1, <1>2, <1>3, <1>4, <1>5, <1>6

(* A field that is called like an older name of another one comes with it, in packet \h14. *)
LEMMA OlderNamesAreNames ==
    /\ \A r \in JupiterFlatPaths : \A s \in JupiterSources :
         s.field[3] = r[1] =>
            \/ s.field = r[2]
            \/ r[1] = "error_code"
            \/ r[1] = "warning_code" /\ s.packet = \h14
    /\ \A r \in JupiterFlatPaths : \A t \in JupiterTexts : t[2][3] = r[1] => t[2] = r[2]
    /\ \A r, q \in JupiterFlatPaths : r[1] = q[1] => r[2] = q[2]
<1> USE DEF JupiterFlatPaths, In
<1>1. \A r \in JupiterFlatPaths : \A s \in JupiterPvInputData : s.field[3] # r[1]
  BY DEF JupiterPvInputData, Repeated
<1>2. \A r \in JupiterFlatPaths : \A s \in JupiterBatteryPackData : s.field[3] # r[1]
  BY DEF JupiterBatteryPackData, Repeated
<1>3. \A r \in JupiterFlatPaths : \A s \in JupiterEventRecord : s.field[3] # r[1]
  BY DEF JupiterEventRecord, Repeated
<1>4. \A r \in JupiterFlatPaths : \A s \in JupiterRawStatusData : s.field[3] # r[1]
  BY DEF JupiterRawStatusData
<1>5. \A r \in JupiterFlatPaths : \A s \in JupiterEnergyData : s.field[3] # r[1]
  BY DEF JupiterEnergyData
<1>6. \A r \in JupiterFlatPaths : \A s \in JupiterInverterData :
        s.field[3] = r[1] => r[1] = "error_code" \/ (r[1] = "warning_code" /\ s.packet = \h14)
  BY DEF JupiterInverterData
<1>7. \A r \in JupiterFlatPaths : \A s \in JupiterMpptData :
        s.field[3] = r[1] => r[1] = "error_code" \/ (r[1] = "warning_code" /\ s.packet = \h14)
  BY DEF JupiterMpptData
<1>8. \A r \in JupiterFlatPaths : \A s \in JupiterRuntimeData : s.field[3] = r[1] => s.field = r[2]
  BY DEF JupiterRuntimeData
<1>9. \A r \in JupiterFlatPaths : \A s \in JupiterBatteryData : s.field[3] = r[1] => s.field = r[2]
  BY DEF JupiterBatteryData
<1>10. \A r \in JupiterFlatPaths : \A t \in JupiterTexts : t[2][3] = r[1] => t[2] = r[2]
  BY DEF JupiterTexts, JupiterIdentity, JupiterVersions
<1>11. \A r, q \in JupiterFlatPaths : r[1] = q[1] => r[2] = q[2]
  OBVIOUS
<1>12. \A r \in JupiterFlatPaths : \A s \in JupiterSources :
         s.field[3] = r[1] =>
            \/ s.field = r[2]
            \/ r[1] = "error_code"
            \/ r[1] = "warning_code" /\ s.packet = \h14
  BY ONLY <1>1, <1>2, <1>3, <1>4, <1>5, <1>6, <1>7, <1>8, <1>9 DEF JupiterSources
<1> QED BY ONLY <1>10, <1>11, <1>12

LEMMA TextsWithin ==
    ASSUME NEW f
    PROVE  VenusText(f) \subseteq TextsOf(Venus, f.command)
             /\ JupiterText(f) \subseteq TextsOf(Jupiter, f.command)
<1>1. <<"network", 0, "network_info">> \in TextsOf(Venus, \h24)
  <2>1. <<\h24, <<"network", 0, "network_info">>>> \in Texts(Venus)
    BY DEF Texts, VenusTexts
  <2> QED BY <2>1 DEF TextsOf
<1> QED BY <1>1 DEF VenusText, JupiterText, Named

(* What a frame updates is in its packet, or in its text. *)
LEMMA MarkedFields ==
    ASSUME NEW p \in {Venus, Jupiter}, NEW f, NEW x \in Marked(p, f)
    PROVE  /\ Accepted(p, f)
           /\ \/ \E s \in Sources(p) : s.packet = f.command /\ s.field = x
              \/ x \in TextsOf(p, f.command)
<1>1. Accepted(p, f) /\ Written(p, f) = Updates(p, f) /\ \E u \in Updates(p, f) : u[1] = x
  BY DEF Marked, Written
<1> QED BY <1>1, TextsWithin DEF Updates

LEMMA MarkedSource ==
    ASSUME NEW p, NEW f, Accepted(p, f), TextsOf(p, f.command) = {}, NEW s \in Sources(p),
           s.packet = f.command, Applies(s, f.length)
    PROVE  s.field \in Marked(p, f)
<1> DEFINE u == <<s.field, s.first, s.size>>
<1>1. u \in Written(p, f) /\ u[1] = s.field
  BY DEF Written, Updates
<1> QED BY <1>1 DEF Marked

(* The sections of text fields. *)
LEMMA TextSections ==
    ASSUME NEW p
    PROVE \A t \in Texts(p) :
            t[2][1] \in {"device", "network", "identity", "runtime"} /\ t[1] # \h14
BY DEF Texts, VenusTexts, JupiterTexts, JupiterIdentity, JupiterVersions

LEMMA TextFieldsApart ==
    ASSUME NEW p
    PROVE \A command : \A x \in TextsOf(p, command) :
            x[1] \in {"device", "network", "identity", "runtime"} /\ command # \h14
BY TextSections DEF TextsOf

(* The measurements of a battery come in packet \h14, which has all of them or is not accepted. *)
LEMMA VenusMeasurements ==
    \A s \in VenusBatteryLimits \cup VenusBatteryStatus :
        /\ s.packet = \h14 /\ s.least = 0
        /\ s.first \in Nat /\ s.size \in Nat /\ s.first + s.size <= 80
BY DEF VenusBatteryLimits, VenusBatteryStatus, In

LEMMA JupiterMeasurements ==
    /\ \A s \in JupiterBatteryData : s.packet = \h14
    /\ \A s \in JupiterSources : s.least = 0 /\ (s.packet = \h14 => s.first + s.size <= 166)
<1>1. \A s \in JupiterPvInputData : s.least = 0 /\ (s.packet = \h14 => s.first + s.size <= 166)
  BY DEF JupiterPvInputData, Repeated
<1>2. \A s \in JupiterBatteryPackData \cup JupiterEventRecord :
        s.least = 0 /\ (s.packet = \h14 => s.first + s.size <= 166)
  BY DEF JupiterBatteryPackData, JupiterEventRecord, Repeated
<1>3. \A s \in JupiterRuntimeData \cup JupiterEnergyData \cup JupiterInverterData
                \cup JupiterMpptData \cup JupiterBatteryData \cup JupiterRawStatusData :
        s.least = 0 /\ (s.packet = \h14 => s.first + s.size <= 166)
  BY DEF JupiterRuntimeData, JupiterEnergyData, JupiterInverterData, JupiterMpptData,
         JupiterBatteryData, JupiterRawStatusData, In
<1>4. \A s \in JupiterBatteryData : s.packet = \h14
  BY DEF JupiterBatteryData, In
<1> QED BY <1>1, <1>2, <1>3, <1>4 DEF JupiterSources

LEMMA MeasurementsComeTogether ==
    ASSUME NEW f, f.command = \h14
    PROVE  /\ Accepted(Venus, f) =>
                FieldsOf(VenusBatteryLimits \cup VenusBatteryStatus) \subseteq Marked(Venus, f)
           /\ Accepted(Jupiter, f) =>
                FieldsOf({s \in JupiterSources : s.packet = \h14}) \subseteq Marked(Jupiter, f)
<1>1. TextsOf(Venus, \h14) = {} /\ TextsOf(Jupiter, \h14) = {}
  BY TextFieldsApart
<1>2. ASSUME Accepted(Venus, f), NEW s \in VenusBatteryLimits \cup VenusBatteryStatus
      PROVE  s.field \in Marked(Venus, f)
  <2>1. f.length \in 80..MaxPayload
    BY <1>2 DEF Accepted, InBounds, Packets, VenusPackets
  <2>2. Applies(s, f.length)
    BY <2>1, VenusMeasurements DEF Applies, MaxPayload
  <2>3. s \in Sources(Venus) /\ s.packet = f.command
    BY VenusMeasurements DEF Sources, VenusSources
  <2> QED BY <1>1, <1>2, <2>2, <2>3, MarkedSource
<1>3. ASSUME Accepted(Jupiter, f), NEW s \in JupiterSources, s.packet = \h14
      PROVE  s.field \in Marked(Jupiter, f)
  <2>1. f.length \in 166..166
    BY <1>3, ProductsDiffer DEF Accepted, InBounds, Packets, JupiterPackets
  <2>2. s \in Sources(Jupiter) /\ s.first \in Nat /\ s.size \in Nat
    BY ProductsDiffer, PlacesAreNumbers DEF Sources
  <2>3. Applies(s, f.length)
    BY <1>3, <2>1, <2>2, JupiterMeasurements DEF Applies
  <2> QED BY <1>1, <1>3, <2>2, <2>3, MarkedSource
<1> QED BY <1>2, <1>3 DEF FieldsOf

LEMMA DerivedFields ==
    /\ \A d \in VenusDerived : d \subseteq FieldsOf(VenusBatteryLimits \cup VenusBatteryStatus)
    /\ \A d \in JupiterDerived : d \subseteq FieldsOf({s \in JupiterSources : s.packet = \h14})
    /\ \A d \in VenusDerived \cup JupiterDerived : \A x \in d : x[1] = "battery"
<1> DEFINE venus == {<<"battery_voltage", \h0E, 2>>, <<"battery_current", \h10, 2>>,
                     <<"battery_soc", 8, 2>>, <<"design_capacity", \h0C, 2>>}
           jupiter == {<<"voltage", \h66, 2>>, <<"current", \h68, 2>>}
<1>1. \A d \in VenusDerived : d \subseteq {<<"battery", 0, r[1]>> : r \in venus}
  BY DEF VenusDerived
<1>2. \A d \in JupiterDerived : d \subseteq {<<"battery", 0, r[1]>> : r \in jupiter}
  BY DEF JupiterDerived
<1>3. In("battery", \h14, 0, venus) \subseteq VenusBatteryLimits \cup VenusBatteryStatus
  BY DEF VenusBatteryLimits, In
<1>4. In("battery", \h14, 0, jupiter) \subseteq {s \in JupiterSources : s.packet = \h14}
  <2>1. In("battery", \h14, 0, jupiter) \subseteq JupiterBatteryData
    BY DEF JupiterBatteryData, In
  <2> QED BY <2>1, JupiterMeasurements DEF JupiterSources
<1>5. \A d \in VenusDerived \cup JupiterDerived : \A x \in d : x[1] = "battery"
  BY DEF VenusDerived, JupiterDerived
<1> HIDE DEF venus, jupiter
<1>6. {<<"battery", 0, r[1]>> : r \in venus}
        \subseteq FieldsOf(VenusBatteryLimits \cup VenusBatteryStatus)
  BY <1>3, RowsAreFields, Zenon
<1>7. {<<"battery", 0, r[1]>> : r \in jupiter}
        \subseteq FieldsOf({s \in JupiterSources : s.packet = \h14})
  BY <1>4, RowsAreFields, Zenon
<1> QED BY <1>1, <1>2, <1>5, <1>6, <1>7

LEMMA DerivedTogether == \A p \in {Venus, Jupiter} : \A f : Together(p, f)
<1> SUFFICES ASSUME NEW p \in {Venus, Jupiter}, NEW f, NEW d \in Derived(p),
                    NEW x \in d, x \in Marked(p, f)
             PROVE  d \subseteq Marked(p, f)
  BY DEF Together
<1>1. x[1] = "battery"
  BY DerivedFields DEF Derived
<1>2. x \notin TextsOf(p, f.command)
  BY <1>1, TextFieldsApart
<1>3. PICK s \in Sources(p) : s.packet = f.command /\ s.field = x
  BY <1>2, MarkedFields
<1>4. Accepted(p, f)
  BY MarkedFields
<1>5. CASE p = Venus
  <2>1. s \in VenusBatteryLimits \cup VenusBatteryStatus
    BY <1>1, <1>3, <1>5, VenusSections DEF Sources
  <2>2. f.command = \h14
    BY <1>3, <2>1, VenusMeasurements
  <2> QED BY <1>4, <1>5, <2>2, MeasurementsComeTogether, DerivedFields DEF Derived
<1>6. CASE p = Jupiter
  <2>1. s \in JupiterBatteryData
    BY <1>1, <1>3, <1>6, ProductsDiffer, JupiterSections DEF Sources
  <2>2. f.command = \h14
    BY <1>3, <2>1, JupiterMeasurements
  <2> QED BY <1>4, <1>6, <2>2, ProductsDiffer, MeasurementsComeTogether, DerivedFields DEF Derived
<1> QED BY <1>5, <1>6

LEMMA DerivedAreFields == \A p \in {Venus, Jupiter} : \A d \in Derived(p) : d \subseteq Fields(p)
<1>1. FieldsOf(VenusBatteryLimits \cup VenusBatteryStatus) \subseteq FieldsOf(VenusSources)
  BY DEF FieldsOf, VenusSources
<1>2. FieldsOf({s \in JupiterSources : s.packet = \h14}) \subseteq FieldsOf(JupiterSources)
  BY DEF FieldsOf
<1>3. \A p : FieldsOf(Sources(p)) \subseteq Fields(p)
  BY DEF FieldsOf, Fields
<1> QED BY <1>1, <1>2, <1>3, DerivedFields DEF Derived, Sources

LEMMA WrittenOnce == \A p \in {Venus, Jupiter} : \A f : Definite(p, f)
<1> SUFFICES ASSUME NEW p \in {Venus, Jupiter}, NEW f,
                    NEW u \in Written(p, f), NEW v \in Written(p, f)
             PROVE  u[1] \in Fields(p) /\ (u[1] = v[1] => u = v)
  BY DEF Definite
<1>1. u \in Updates(p, f) /\ v \in Updates(p, f)
  BY DEF Written
<1>2. \A x \in TextsOf(p, f.command) : x \in Fields(p)
  BY DEF TextsOf, TextFields, Fields
<1>3. CASE TextsOf(p, f.command) # {}
  BY <1>1, <1>2, <1>3, TextsWithin DEF Updates
<1>4. CASE TextsOf(p, f.command) = {}
  <2>1. PICK s \in Sources(p) : s.packet = f.command /\ u = <<s.field, s.first, s.size>>
    BY <1>1, <1>4 DEF Updates
  <2>2. PICK t \in Sources(p) : t.packet = f.command /\ v = <<t.field, t.first, t.size>>
    BY <1>1, <1>4 DEF Updates
  <2>3. u[1] \in Fields(p)
    BY <2>1 DEF Fields
  <2> QED BY <2>1, <2>2, <2>3, PlacesAreDefinite DEF OnePlace
<1> QED BY <1>3, <1>4

LEMMA OlderNamesReadFields ==
    \A p \in {Venus, Jupiter} : \A r \in OlderNames(p) : r[2] \in Fields(p)
<1>1. \A r \in OlderNames(Venus) : r[2] \in Fields(Venus)
  BY ProductsDiffer DEF OlderNames, FlatPaths, VenusFlatPaths
<1>2. \A r \in OlderNames(Jupiter) : r[2] \in Fields(Jupiter)
  BY ProductsDiffer, OlderNamesAreFields
     DEF OlderNames, FlatPaths, Fields, FieldsOf, TextFields, Texts, Sources
<1> QED BY <1>1, <1>2

LEMMA VenusNamedAlike == \A f : NamedAlike(Venus, f)
<1>1. ASSUME NEW r \in OlderNames(Venus) PROVE EnteredAs(Venus, r[1]) = {r[2]}
  <2>1. OlderNames(Venus) = {<<x[3], x>> : x \in Fields(Venus)}
          /\ FlatPaths(Venus) = {<<x[3], x>> : x \in Fields(Venus)}
    BY ProductsDiffer DEF OlderNames, FlatPaths, VenusFlatPaths
  <2>2. PICK x \in Fields(Venus) : r = <<x[3], x>>
    BY <2>1
  <2>3. {y \in Fields(Venus) : y[3] = r[1]} = {x}
    BY <2>2, VenusNamesDiffer DEF NamesDiffer
  <2>4. {q[2] : q \in {s \in FlatPaths(Venus) : s[1] = r[1]}} = {x}
    BY <2>1, <2>2, VenusNamesDiffer DEF NamesDiffer
  <2> QED BY <2>2, <2>3, <2>4 DEF EnteredAs
<1> QED BY <1>1 DEF NamedAlike

(* The one name under which fields of a Jupiter enter that it does not read is warning_code. *)
LEMMA JupiterEntered ==
    ASSUME NEW r \in OlderNames(Jupiter), NEW x \in EnteredAs(Jupiter, r[1]), x # r[2]
    PROVE  /\ r[1] = "warning_code" /\ x \notin TextFields(Jupiter)
           /\ \A s \in JupiterSources : s.field = x => s.packet = \h14
<1>1. r \in JupiterFlatPaths /\ r[1] # "error_code" /\ FlatPaths(Jupiter) = JupiterFlatPaths
        /\ Texts(Jupiter) = JupiterTexts /\ Sources(Jupiter) = JupiterSources
  BY ProductsDiffer DEF OlderNames, FlatPaths, Texts, Sources
<1>2. x[3] = r[1] /\ x \in Fields(Jupiter)
  BY <1>1, OlderNamesAreNames DEF EnteredAs
<1>3. x \notin TextFields(Jupiter)
  BY <1>1, <1>2, OlderNamesAreNames DEF TextFields
<1>4. \E s \in JupiterSources : s.field = x
  BY <1>1, <1>2, <1>3 DEF Fields
<1> QED BY <1>1, <1>2, <1>3, <1>4, OlderNamesAreNames

LEMMA JupiterNamedAlike == \A f : NamedAlike(Jupiter, f)
<1> SUFFICES ASSUME NEW f, NEW r \in OlderNames(Jupiter)
             PROVE  EnteredAs(Jupiter, r[1]) \cap Marked(Jupiter, f) # {}
                      <=> r[2] \in Marked(Jupiter, f)
  BY DEF NamedAlike
<1>1. r[2] \in EnteredAs(Jupiter, r[1])
  BY ProductsDiffer DEF EnteredAs, OlderNames
<1>2. ASSUME NEW x \in EnteredAs(Jupiter, r[1]), x \in Marked(Jupiter, f), x # r[2]
      PROVE  r[2] \in Marked(Jupiter, f)
  <2>1. r[1] = "warning_code" /\ x \notin TextFields(Jupiter)
          /\ \A s \in JupiterSources : s.field = x => s.packet = \h14
    BY <1>2, JupiterEntered
  <2>2. Accepted(Jupiter, f) /\ f.command = \h14
    <3>1. x \notin TextsOf(Jupiter, f.command)
      BY <2>1 DEF TextsOf, TextFields
    <3> QED BY <1>2, <2>1, <3>1, MarkedFields, ProductsDiffer DEF Sources
  <2>3. r[2] = <<"battery", 0, "warning_code_1">>
    BY <2>1, ProductsDiffer DEF OlderNames, FlatPaths, JupiterFlatPaths
  <2>4. r[2] \in FieldsOf({s \in JupiterSources : s.packet = \h14})
    <3> DEFINE rows == {<<"warning_code_1", \h6E, 2>>}
    <3>1. In("battery", \h14, 0, rows) \subseteq JupiterBatteryData
      BY DEF JupiterBatteryData, In
    <3>2. In("battery", \h14, 0, rows) \subseteq {s \in JupiterSources : s.packet = \h14}
      BY <3>1, JupiterMeasurements DEF JupiterSources
    <3>3. r[2] \in {<<"battery", 0, q[1]>> : q \in rows}
      BY <2>3
    <3> QED BY <3>2, <3>3, RowsAreFields
  <2> QED BY <2>2, <2>4, MeasurementsComeTogether
<1> QED BY <1>1, <1>2

Slice(s) == <<s.field[3], s.first, s.size>>
Slices(S) == {Slice(s) : s \in S}

LEMMA SlicesOfRows ==
    ASSUME NEW section, NEW packet, NEW least, NEW rows, \A r \in rows : r = <<r[1], r[2], r[3]>>
    PROVE  Slices(In(section, packet, least, rows)) = rows
<1>1. ASSUME NEW r \in rows PROVE r \in Slices(In(section, packet, least, rows))
  <2> DEFINE s == [field |-> <<section, 0, r[1]>>, packet |-> packet,
                   first |-> r[2], size |-> r[3], least |-> least]
  <2>1. s \in In(section, packet, least, rows) /\ Slice(s) = r
    BY DEF In, Slice
  <2> QED BY <2>1, Zenon DEF Slices
<1>2. \A s \in In(section, packet, least, rows) : Slice(s) \in rows
  BY DEF In, Slice
<1> QED BY <1>1, <1>2 DEF Slices

LEMMA SlicesOfBoth == \A S, T : Slices(S \cup T) = Slices(S) \cup Slices(T)
BY DEF Slices

(* The sources that a payload of n bytes of a packet has. *)
Selected(command, n) == {s \in VenusSources : s.packet = command /\ Applies(s, n)}

LEMMA SystemReadAlike == ASSUME NEW n \in 11..MaxPayload
                        PROVE LegacySystemData = Slices(Selected(\h0D, n))
<1>1. VenusSystemData = Selected(\h0D, n)
  <2>1. \A s \in VenusSystemData : s.packet = \h0D /\ Applies(s, n)
    BY DEF VenusSystemData, In, Applies, MaxPayload
  <2>2. \A s \in VenusSources : s.packet = \h0D => s \in VenusSystemData
    BY VenusPacketParts DEF VenusSources
  <2> QED BY <2>1, <2>2 DEF Selected, VenusSources
<1>2. Slices(VenusSystemData) = LegacySystemData
  BY SlicesOfRows DEF VenusSystemData, LegacySystemData
<1> QED BY <1>1, <1>2

LEMMA TimerReadAlike == ASSUME NEW n \in 45..MaxPayload
                        PROVE LegacyTimerInfo = Slices(Selected(\h13, n))
<1>1. VenusTimerData = Selected(\h13, n)
  <2>1. \A s \in VenusTimerData : s.packet = \h13 /\ Applies(s, n)
    BY DEF VenusTimerData, In, Applies, MaxPayload
  <2>2. \A s \in VenusSources : s.packet = \h13 => s \in VenusTimerData
    BY VenusPacketParts DEF VenusSources
  <2> QED BY <2>1, <2>2 DEF Selected, VenusSources
<1>2. Slices(VenusTimerData) = LegacyTimerInfo
  BY SlicesOfRows DEF VenusTimerData, LegacyTimerInfo
<1> QED BY <1>1, <1>2

LEMMA BatteryReadAlike == ASSUME NEW n \in 80..MaxPayload
                        PROVE LegacyBmsData = Slices(Selected(\h14, n))
<1>1. VenusBatteryLimits \cup VenusBatteryStatus = Selected(\h14, n)
  <2>1. \A s \in VenusBatteryLimits \cup VenusBatteryStatus : s.packet = \h14 /\ Applies(s, n)
    BY VenusMeasurements DEF Applies, MaxPayload
  <2>2. \A s \in VenusSources : s.packet = \h14 => s \in VenusBatteryLimits \cup VenusBatteryStatus
    BY VenusPacketParts DEF VenusSources
  <2> QED BY <2>1, <2>2 DEF Selected, VenusSources
<1>2. Slices(VenusBatteryLimits) \cup Slices(VenusBatteryStatus) = LegacyBmsData
  BY SlicesOfRows DEF VenusBatteryLimits, VenusBatteryStatus, LegacyBmsData
<1> QED BY <1>1, <1>2, SlicesOfBoth

LEMMA ConfigReadAlike ==
    /\ \A n \in 17..MaxPayload : LegacyConfigData = Slices(Selected(\h1A, n))
    /\ \A n \in 1..MaxPayload : LegacyCtPollingRate = Slices(Selected(\h22, n))
<1> DEFINE config == In("configuration", \h1A, 0, {
             <<"config_mode", 0, 1>>, <<"config_status", 4, 1>>, <<"config_value", \h10, 1>>})
           rate == In("configuration", \h22, 0, {<<"ct_polling_rate", 0, 1>>})
<1>1. config \cup rate = VenusConfigurationData
  BY DEF VenusConfigurationData
<1>2. \A s \in VenusSources : s.packet \in {\h1A, \h22} => s \in config \cup rate
  BY <1>1, VenusPacketParts DEF VenusSources
<1>3. ASSUME NEW n \in 17..MaxPayload PROVE LegacyConfigData = Slices(Selected(\h1A, n))
  <2>1. \A s \in config : s.packet = \h1A /\ Applies(s, n)
    BY DEF In, Applies, MaxPayload
  <2>2. \A s \in rate : s.packet # \h1A
    BY DEF In
  <2>3. Slices(config) = LegacyConfigData
    BY SlicesOfRows DEF LegacyConfigData
  <2> HIDE DEF config, rate
  <2> QED BY <1>1, <1>2, <2>1, <2>2, <2>3 DEF Selected, VenusSources
<1>4. ASSUME NEW n \in 1..MaxPayload PROVE LegacyCtPollingRate = Slices(Selected(\h22, n))
  <2>1. \A s \in rate : s.packet = \h22 /\ Applies(s, n)
    BY DEF In, Applies, MaxPayload
  <2>2. \A s \in config : s.packet # \h22
    BY DEF In
  <2>3. Slices(rate) = LegacyCtPollingRate
    BY SlicesOfRows DEF LegacyCtPollingRate
  <2> HIDE DEF config, rate
  <2> QED BY <1>1, <1>2, <2>1, <2>2, <2>3 DEF Selected, VenusSources
<1> QED BY <1>3, <1>4

LEMMA RuntimeReadAlike == ASSUME NEW n \in 37..MaxPayload
                          PROVE  LegacyRuntimeInfo(n) = Slices(Selected(\h03, n))
<1> DEFINE
      always == {<<"out1_power", \h14, 2>>, <<"wifi_connected", \h0F, 1>>,
                 <<"mqtt_connected", \h0F, 1>>, <<"out1_active", \h10, 1>>,
                 <<"extern1_connected", \h1C, 1>>}
      warm == {<<"temp_low", \h21, 2>>, <<"temp_high", \h23, 2>>}
      long == {<<"grid_power", 0, 2>>, <<"solar_power", 2, 2>>, <<"work_mode", 4, 1>>,
               <<"product_code", \h0C, 2>>, <<"power_rating", \h4A, 2>>}
      energy == {<<"daily_energy_charged", \h0E, 4>>, <<"monthly_energy_charged", \h12, 4>>,
                 <<"daily_energy_discharged", \h16, 4>>, <<"monthly_energy_discharged", \h1A, 4>>,
                 <<"total_energy_charged", \h29, 4>>, <<"total_energy_discharged", \h2D, 4>>}
      A == In("runtime", \h03, 0, always)
      B == In("runtime", \h03, 60, warm)
      C == In("runtime", \h03, 100, long)
      D == In("runtime", \h03, 100, energy)
<1>1. VenusRuntimeData = A \cup B \cup C /\ VenusEnergyCounters = D
  BY DEF VenusRuntimeData, VenusEnergyCounters
<1>2. LegacyRuntimeInfo(n) = always \cup (IF n >= 60 THEN warm ELSE {})
                               \cup (IF n >= 100 THEN long \cup energy ELSE {})
  BY DEF LegacyRuntimeInfo
<1>3. Slices(A) = always /\ Slices(B) = warm /\ Slices(C) = long /\ Slices(D) = energy
  BY SlicesOfRows
<1>4. /\ \A s \in A : s.packet = \h03 /\ Applies(s, n)
      /\ \A s \in B : s.packet = \h03 /\ (Applies(s, n) <=> n >= 60)
      /\ \A s \in C : s.packet = \h03 /\ (Applies(s, n) <=> n >= 100)
      /\ \A s \in D : s.packet = \h03 /\ (Applies(s, n) <=> n >= 100)
  BY DEF In, Applies, MaxPayload
<1>5. \A s \in VenusSources : s.packet = \h03 => s \in VenusRuntimeData \cup VenusEnergyCounters
  BY VenusPacketParts DEF VenusSources
<1> HIDE DEF always, warm, long, energy, A, B, C, D
<1> DEFINE X == IF n >= 60 THEN B ELSE {}
           Y == IF n >= 100 THEN C \cup D ELSE {}
<1>6. Selected(\h03, n) = (A \cup X) \cup Y
  <2>1. A \cup B \cup C \cup D \subseteq VenusSources
    BY <1>1 DEF VenusSources
  <2> QED BY <1>1, <1>4, <1>5, <2>1 DEF Selected
<1>7. Slices({}) = {}
  BY DEF Slices
<1>8. Slices(X) = IF n >= 60 THEN warm ELSE {}
  BY <1>3, <1>7
<1>9. Slices(Y) = IF n >= 100 THEN long \cup energy ELSE {}
  BY <1>3, <1>7, SlicesOfBoth
<1> HIDE DEF X, Y
<1>10. Slices((A \cup X) \cup Y) = (Slices(A) \cup Slices(X)) \cup Slices(Y)
  BY DEF Slices
<1> QED BY <1>2, <1>3, <1>6, <1>8, <1>9, <1>10

VenusTextCommands == {\h04, \h08, \h21, \h24, \h28}

LEMMA TextMembers == \A command, x : x \in TextsOf(Venus, command) <=> <<command, x>> \in VenusTexts
<1>1. \A t \in VenusTexts : t = <<t[1], t[2]>>
  BY DEF VenusTexts
<1>2. ASSUME NEW command, NEW x, <<command, x>> \in VenusTexts PROVE x \in TextsOf(Venus, command)
  <2> DEFINE t == <<command, x>>
  <2>1. t \in Texts(Venus) /\ t[1] = command /\ t[2] = x
    BY <1>2 DEF Texts
  <2> QED BY <2>1, Zenon DEF TextsOf
<1>3. ASSUME NEW command, NEW x \in TextsOf(Venus, command) PROVE <<command, x>> \in VenusTexts
  <2>1. PICK t \in VenusTexts : t[1] = command /\ t[2] = x
    BY DEF TextsOf, Texts
  <2> QED BY <1>1, <2>1
<1> QED BY <1>2, <1>3

LEMMA VenusTextsOf ==
    /\ \A x : x \in TextsOf(Venus, \h04)
                <=> \E n \in VenusDeviceInformation : x = <<"device", 0, n>>
    /\ \A x : x \in TextsOf(Venus, \h24)
                <=> \/ x = <<"network", 0, "network_info">>
                    \/ \E n \in VenusNetworkAddresses : x = <<"network", 0, n>>
    /\ TextsOf(Venus, \h08) = {<<"network", 0, "wifi_ssid">>}
    /\ TextsOf(Venus, \h21) = {<<"network", 0, "meter_ip">>}
    /\ TextsOf(Venus, \h28) = {<<"network", 0, "local_api_status">>}
    /\ \A command : command \notin VenusTextCommands => TextsOf(Venus, command) = {}
<1>1. \A x : x \in TextsOf(Venus, \h04)
               <=> \E n \in VenusDeviceInformation : x = <<"device", 0, n>>
  BY TextMembers DEF VenusTexts
<1>2. \A x : x \in TextsOf(Venus, \h24)
               <=> \/ x = <<"network", 0, "network_info">>
                   \/ \E n \in VenusNetworkAddresses : x = <<"network", 0, n>>
  BY TextMembers DEF VenusTexts
<1>3. TextsOf(Venus, \h08) = {<<"network", 0, "wifi_ssid">>}
  BY TextMembers DEF VenusTexts
<1>4. TextsOf(Venus, \h21) = {<<"network", 0, "meter_ip">>}
  BY TextMembers DEF VenusTexts
<1>5. TextsOf(Venus, \h28) = {<<"network", 0, "local_api_status">>}
  BY TextMembers DEF VenusTexts
<1>6. \A command : command \notin VenusTextCommands => TextsOf(Venus, command) = {}
  BY TextMembers DEF VenusTextCommands, VenusTexts
<1> QED BY <1>1, <1>2, <1>3, <1>4, <1>5, <1>6

(* A frame says how long it is with one byte. *)
LEMMA AcceptedAlike ==
    ASSUME NEW f, f.sound => f.length \in 0..MaxPayload
    PROVE  LegacyAccepted(f) <=> Accepted(Venus, f)
BY DEF LegacyAccepted, LegacyLeast, Accepted, InBounds, Packets, VenusPackets, MaxPayload

LEMMA SourcePackets ==
  \A s \in VenusSources : s.packet \notin VenusTextCommands
BY VenusPacketParts DEF VenusTextCommands, VenusSources

LEMMA AcceptedLengths ==
    ASSUME NEW f, Accepted(Venus, f)
    PROVE  \/ f.command = \h03 /\ f.length \in 37..MaxPayload
           \/ f.command = \h0D /\ f.length \in 11..MaxPayload
           \/ f.command = \h13 /\ f.length \in 45..MaxPayload
           \/ f.command = \h14 /\ f.length \in 80..MaxPayload
           \/ f.command = \h1A /\ f.length \in 17..MaxPayload
           \/ f.command = \h22 /\ f.length \in 1..MaxPayload
           \/ f.command \in VenusTextCommands
BY DEF Accepted, InBounds, Packets, VenusPackets, MaxPayload, VenusTextCommands

LEMMA SlicesAlike ==
    ASSUME NEW f, Accepted(Venus, f)
    PROVE  LegacySlices(f.command, f.length) = Slices(Selected(f.command, f.length))
<1>1. CASE f.command \in VenusTextCommands
  <2>1. Selected(f.command, f.length) = {}
    BY <1>1, SourcePackets DEF Selected
  <2>2. LegacySlices(f.command, f.length) = {}
    BY <1>1 DEF VenusTextCommands, LegacySlices
  <2> QED BY <2>1, <2>2 DEF Slices
<1>2. CASE f.command \notin VenusTextCommands
  BY <1>2, AcceptedLengths, SystemReadAlike, TimerReadAlike, BatteryReadAlike, ConfigReadAlike,
     RuntimeReadAlike DEF LegacySlices
<1> QED BY <1>1, <1>2

LEMMA TextAlike ==
    ASSUME NEW f
    PROVE  LegacyText(f) = {x[3] : x \in VenusText(f)}
<1>1. CASE f.command = \h04
  <2>1. /\ VenusText(f) = Named(f, TextsOf(Venus, \h04))
        /\ LegacyText(f) = f.names \cap VenusDeviceInformation
    BY <1>1 DEF LegacyText, VenusText
  <2>2. ASSUME NEW n \in LegacyText(f) PROVE n \in {x[3] : x \in VenusText(f)}
    <3> DEFINE x == <<"device", 0, n>>
    <3>1. x \in VenusText(f) /\ x[3] = n
      BY <2>1, VenusTextsOf DEF Named
    <3> QED BY <3>1, Zenon
  <2>3. ASSUME NEW x \in VenusText(f) PROVE x[3] \in LegacyText(f)
    BY <2>1, VenusTextsOf DEF Named
  <2> QED BY <2>2, <2>3
<1>2. CASE f.command = \h24
  <2>1. /\ VenusText(f)
             = Named(f, TextsOf(Venus, \h24)) \cup {<<"network", 0, "network_info">>}
        /\ LegacyText(f) = {"network_info"} \cup (f.names \cap VenusNetworkAddresses)
    BY <1>2 DEF LegacyText, VenusText
  <2>2. ASSUME NEW n \in LegacyText(f) PROVE n \in {x[3] : x \in VenusText(f)}
    <3> DEFINE x == <<"network", 0, n>>
    <3>1. x \in VenusText(f) /\ x[3] = n
      BY <2>1, VenusTextsOf DEF Named
    <3> QED BY <3>1, Zenon
  <2>3. ASSUME NEW x \in VenusText(f) PROVE x[3] \in LegacyText(f)
    BY <2>1, VenusTextsOf DEF Named
  <2> QED BY <2>2, <2>3
<1>3. CASE f.command \in {\h08, \h21, \h28}
  <2>1. VenusText(f) = TextsOf(Venus, f.command)
    BY <1>3 DEF VenusText
  <2>2. CASE f.command = \h08
    <3>1. /\ VenusText(f) = {<<"network", 0, "wifi_ssid">>}
          /\ LegacyText(f) = {"wifi_ssid"}
      BY <2>1, <2>2, VenusTextsOf DEF LegacyText
    <3> QED BY <3>1
  <2>3. CASE f.command = \h21
    <3>1. /\ VenusText(f) = {<<"network", 0, "meter_ip">>}
          /\ LegacyText(f) = {"meter_ip"}
      BY <2>1, <2>3, VenusTextsOf DEF LegacyText
    <3> QED BY <3>1
  <2>4. CASE f.command = \h28
    <3>1. /\ VenusText(f) = {<<"network", 0, "local_api_status">>}
          /\ LegacyText(f) = {"local_api_status"}
      BY <2>1, <2>4, VenusTextsOf DEF LegacyText
    <3> QED BY <3>1
  <2> QED BY <1>3, <2>2, <2>3, <2>4
<1>4. CASE f.command \notin VenusTextCommands
  BY <1>4, VenusTextsOf DEF LegacyText, VenusText, VenusTextCommands
<1> QED BY <1>1, <1>2, <1>3, <1>4 DEF VenusTextCommands

(* The update of a field, as MarstekProtocol would write it. *)
Flattened(updates) == {<<u[1][3], u[2], u[3]>> : u \in updates}

LEMMA FlattenedText ==
    ASSUME NEW S, NEW n
    PROVE  Flattened({<<x, 0, n>> : x \in S}) = {<<m, 0, n>> : m \in {x[3] : x \in S}}
<1> DEFINE U == {<<x, 0, n>> : x \in S}
           N == {x[3] : x \in S}
<1>1. ASSUME NEW u \in U PROVE <<u[1][3], u[2], u[3]>> \in {<<m, 0, n>> : m \in N}
  OBVIOUS
<1>2. ASSUME NEW m \in N PROVE <<m, 0, n>> \in Flattened(U)
  <2>1. PICK x \in S : m = x[3]
    OBVIOUS
  <2> DEFINE u == <<x, 0, n>>
  <2>2. u \in U /\ u[1][3] = m /\ u[2] = 0 /\ u[3] = n
    BY <2>1
  <2> QED BY <2>2, Zenon DEF Flattened
<1> QED BY <1>1, <1>2 DEF Flattened

LEMMA FlattenedSources ==
    ASSUME NEW S
    PROVE  Flattened({<<s.field, s.first, s.size>> : s \in S}) = Slices(S)
<1> DEFINE U == {<<s.field, s.first, s.size>> : s \in S}
<1>1. ASSUME NEW u \in U PROVE <<u[1][3], u[2], u[3]>> \in Slices(S)
  BY DEF Slices, Slice
<1>2. ASSUME NEW s \in S PROVE Slice(s) \in Flattened(U)
  <2> DEFINE u == <<s.field, s.first, s.size>>
  <2>1. u \in U /\ u[1][3] = s.field[3] /\ u[2] = s.first /\ u[3] = s.size
    OBVIOUS
  <2>2. Slice(s) = <<u[1][3], u[2], u[3]>>
    BY DEF Slice
  <2> QED BY <2>1, <2>2, Zenon DEF Flattened
<1> QED BY <1>1, <1>2 DEF Flattened, Slices

LEMMA FramesReadAlike ==
    ASSUME NEW f, f.sound => f.length \in 0..MaxPayload
    PROVE  ReadAlike(f)
<1> DEFINE W == {<<u[1][3], u[2], u[3]>> : u \in Written(Venus, f)}
<1>1. LegacyAccepted(f) <=> Accepted(Venus, f)
  BY AcceptedAlike
<1>2. CASE ~Accepted(Venus, f)
  BY <1>1, <1>2 DEF ReadAlike, LegacyWritten, Written
<1>3. CASE Accepted(Venus, f) /\ f.command \in VenusTextCommands
  <2>1. Written(Venus, f) = {<<x, 0, f.length>> : x \in VenusText(f)}
    <3>1. TextsOf(Venus, f.command) # {}
      <4>1. <<"device", 0, "device_type">> \in TextsOf(Venus, \h04)
        BY VenusTextsOf DEF VenusDeviceInformation
      <4> QED BY <1>3, <4>1, VenusTextsOf DEF VenusTextCommands
    <3> QED BY <1>3, <3>1 DEF Written, Updates
  <2>2. LegacySlices(f.command, f.length) = {}
    BY <1>3 DEF VenusTextCommands, LegacySlices
  <2>3. LegacyWritten(f) = {<<n, 0, f.length>> : n \in LegacyText(f)}
    BY <1>1, <1>3, <2>2 DEF LegacyWritten
  <2>4. W = {<<n, 0, f.length>> : n \in {x[3] : x \in VenusText(f)}}
    BY <2>1, FlattenedText DEF Flattened
  <2> QED BY <1>1, <1>3, <2>3, <2>4, TextAlike DEF ReadAlike
<1>4. CASE Accepted(Venus, f) /\ f.command \notin VenusTextCommands
  <2>1. TextsOf(Venus, f.command) = {}
    BY <1>4, VenusTextsOf
  <2>2. Written(Venus, f)
          = {<<s.field, s.first, s.size>> : s \in Selected(f.command, f.length)}
    BY <1>4, <2>1 DEF Written, Updates, Sources, Selected
  <2>3. W = Slices(Selected(f.command, f.length))
    BY <2>2, FlattenedSources DEF Flattened
  <2>4. LegacyText(f) = {}
    BY <1>4 DEF LegacyText, VenusTextCommands
  <2>5. LegacyWritten(f) = LegacySlices(f.command, f.length)
    BY <1>1, <1>4, <2>4 DEF LegacyWritten
  <2> QED BY <1>1, <1>4, <2>3, <2>5, SlicesAlike DEF ReadAlike
<1> QED BY <1>2, <1>3, <1>4

LEMMA VenusPacketsOfSources ==
    \A s \in VenusSources :
        /\ s.packet \in {\h03, \h0D, \h13, \h14, \h1A, \h22}
        /\ s.first + s.size <= MaxPayload /\ s.least <= MaxPayload
BY DEF VenusSources, VenusRuntimeData, VenusEnergyCounters, VenusTimerData, VenusSystemData,
       VenusBatteryLimits, VenusBatteryStatus, VenusConfigurationData, In, MaxPayload

LEMMA VenusSourcesFit ==
    \A s \in VenusSources : \E k \in VenusPackets : k[1] = s.packet /\ Applies(s, k[3])
<1>1. \A command \in {\h03, \h0D, \h13, \h14, \h1A, \h22} : \E k \in VenusPackets :
        k[1] = command /\ k[3] = MaxPayload
  BY DEF VenusPackets
<1> QED BY <1>1, VenusPacketsOfSources DEF Applies, MaxPayload

LEMMA JupiterPacketsOfSources ==
    \A s \in JupiterSources :
        \/ s.packet = \h03 /\ s.first + s.size <= 74
        \/ s.packet = \h13 /\ s.first + s.size <= 160
        \/ s.packet = \h14 /\ s.first + s.size <= 166
        \/ s.packet \in {\h21, \h22, \h24} /\ s.first + s.size <= 1 /\ s \in JupiterRawStatusData
<1> USE DEF In, Repeated
<1>1. \A s \in JupiterPvInputData :
         \/ s.packet = \h03 /\ s.first + s.size <= 74
         \/ s.packet = \h14 /\ s.first + s.size <= 166
  BY DEF JupiterPvInputData
<1>2. \A s \in JupiterBatteryPackData : s.packet = \h14 /\ s.first + s.size <= 166
  BY DEF JupiterBatteryPackData
<1>3. \A s \in JupiterEventRecord : s.packet = \h13 /\ s.first + s.size <= 160
  BY DEF JupiterEventRecord
<1>4. \A s \in JupiterRuntimeData \cup JupiterEnergyData \cup JupiterInverterData
               \cup JupiterMpptData \cup JupiterBatteryData :
         \/ s.packet = \h03 /\ s.first + s.size <= 74
         \/ s.packet = \h14 /\ s.first + s.size <= 166
  BY DEF JupiterRuntimeData, JupiterEnergyData, JupiterInverterData, JupiterMpptData,
         JupiterBatteryData
<1>5. \A s \in JupiterRawStatusData : s.packet \in {\h21, \h22, \h24} /\ s.first + s.size <= 1
  BY DEF JupiterRawStatusData
<1> QED BY ONLY <1>1, <1>2, <1>3, <1>4, <1>5 DEF JupiterSources

LEMMA JupiterSourcesFit ==
    \A s \in JupiterSources : \E k \in JupiterPackets : k[1] = s.packet /\ Applies(s, k[3])
<1>1. \A s \in JupiterSources : s.least = 0 /\ s.first \in Nat /\ s.size \in Nat
  BY JupiterMeasurements, PlacesAreNumbers, ProductsDiffer DEF Sources
<1> QED BY <1>1, JupiterPacketsOfSources DEF Applies, JupiterPackets

LEMMA SeenFieldsArePolled ==
    \A p \in {Venus, Jupiter} : \A f \in Fields(p) \ Unseen(p) :
      \/ \E s \in Sources(p) : s.field = f /\ s.packet \in Polled(p)
      \/ \E t \in Texts(p) : t[2] = f /\ t[1] \in Polled(p)
<1>1. \A s \in VenusSources : s.packet \in VenusPolled
  BY VenusPacketsOfSources DEF VenusPolled
<1>2. \A t \in VenusTexts : t[1] \in VenusPolled
  BY DEF VenusTexts, VenusPolled
<1>3. \A s \in JupiterSources : s.packet \in JupiterPolled \/ s.field \in JupiterUnseen
  BY JupiterPacketsOfSources DEF JupiterPolled, JupiterUnseen
<1>4. \A t \in JupiterTexts : t[1] \in JupiterPolled
  BY DEF JupiterTexts, JupiterPolled
<1> QED BY <1>1, <1>2, <1>3, <1>4, ProductsDiffer
           DEF Fields, TextFields, Sources, Texts, Polled, Unseen

(* Places on the grid of their sizes, powers of two, nest. *)
OnGrid(s) == s.first \in Nat /\ s.size \in {1, 2, 4, 8} /\ s.first % s.size = 0

LEMMA GridNests ==
    ASSUME NEW s, NEW t, OnGrid(s), OnGrid(t), s.first <= t.first, t.first <= Last(s)
    PROVE  Nested(s, t) \/ Nested(t, s)
BY DEF OnGrid, Last, Nested

LEMMA JupiterOnGrid ==
    \A s \in JupiterSources : s.packet # \h03 => OnGrid(s)
<1> USE DEF In, Repeated, OnGrid
<1>1. \A s \in JupiterPvInputData : s.packet # \h03 => OnGrid(s)
  BY DEF JupiterPvInputData
<1>2. \A s \in JupiterBatteryPackData : OnGrid(s)
  BY DEF JupiterBatteryPackData
<1>3. \A s \in JupiterEventRecord : OnGrid(s)
  BY DEF JupiterEventRecord
<1>4. \A s \in JupiterRuntimeData \cup JupiterEnergyData \cup JupiterInverterData
               \cup JupiterMpptData \cup JupiterBatteryData :
         s.packet # \h03 => OnGrid(s)
  BY DEF JupiterRuntimeData, JupiterEnergyData, JupiterInverterData, JupiterMpptData,
         JupiterBatteryData
<1>5. \A s \in JupiterRawStatusData : OnGrid(s)
  BY DEF JupiterRawStatusData
<1> QED BY ONLY <1>1, <1>2, <1>3, <1>4, <1>5 DEF JupiterSources

Overlapping(s, t) == s.packet = t.packet /\ s.first <= t.first /\ t.first <= Last(s)

LEMMA VenusOthersNest == 
   \A s, t \in VenusSystemData \cup VenusTimerData \cup VenusConfigurationData:
      Overlapping(s, t) => s.first = t.first /\ s.size = t.size
BY DEF VenusTimerData, VenusSystemData, VenusConfigurationData, In, Overlapping, Last

LEMMA VenusBatteryNest == 
   \A s, t \in VenusBatteryLimits \cup VenusBatteryStatus:
      Overlapping(s, t) => s.first = t.first /\ s.size = t.size
BY DEF VenusBatteryLimits, VenusBatteryStatus, In, Overlapping, Last

LEMMA VenusRuntimeNest == 
   \A s, t \in VenusRuntimeData \cup VenusEnergyCounters:
      Overlapping(s, t) => Nested(s, t) \/ Nested(t, s)
BY DEF VenusRuntimeData, VenusEnergyCounters, In, Overlapping, Last, Nested

LEMMA JupiterRuntimeNest ==
    \A s, t \in JupiterSources :
        s.packet = \h03 /\ Overlapping(s, t) => Nested(s, t) \/ Nested(t, s)
<1>1. \A s \in JupiterPvInputData : s.packet = \h03 => s.first + s.size <= 12 /\ s.first < 12
  BY DEF JupiterPvInputData, Repeated
<1>2. \A s, t \in JupiterPvInputData :
        s.packet = \h03 /\ Overlapping(s, t) => s.first = t.first /\ s.size = t.size
  BY DEF JupiterPvInputData, Repeated, Overlapping, Last
<1>3. \A s \in JupiterRuntimeData \cup JupiterEnergyData \cup JupiterInverterData :
        s.packet = \h03 => s.first >= 12
  BY DEF JupiterRuntimeData, JupiterEnergyData, JupiterInverterData, In
<1>4. \A s, t \in JupiterRuntimeData \cup JupiterEnergyData \cup JupiterInverterData :
        s.packet = \h03 /\ Overlapping(s, t) => s.first = t.first /\ s.size = t.size
  BY DEF JupiterRuntimeData, JupiterEnergyData, JupiterInverterData, In, Overlapping, Last
<1>5. \A s \in JupiterSources : s.packet = \h03 =>
        \/ s \in JupiterPvInputData
        \/ s \in JupiterRuntimeData \cup JupiterEnergyData \cup JupiterInverterData
  <2>1. \A s \in JupiterMpptData \cup JupiterBatteryData \cup JupiterRawStatusData : s.packet # \h03
    BY DEF JupiterMpptData, JupiterBatteryData, JupiterRawStatusData, In
  <2>2. \A s \in JupiterBatteryPackData \cup JupiterEventRecord : s.packet # \h03
    BY DEF JupiterBatteryPackData, JupiterEventRecord, Repeated
  <2> QED BY <2>1, <2>2 DEF JupiterSources
<1>6. \A s \in JupiterSources : s.first \in Nat /\ s.size \in Nat
  BY PlacesAreNumbers, ProductsDiffer DEF Sources
<1>7. ASSUME NEW s \in JupiterSources, NEW t \in JupiterSources, s.packet = \h03, Overlapping(s, t)
      PROVE  s.first = t.first /\ s.size = t.size
  <2>1. s.first \in Nat /\ s.size \in Nat /\ t.first \in Nat /\ t.size \in Nat /\ t.packet = \h03
          /\ s.first <= t.first /\ t.first <= s.first + s.size - 1
    BY <1>6, <1>7 DEF Overlapping, Last
  <2> DEFINE Others == JupiterRuntimeData \cup JupiterEnergyData \cup JupiterInverterData
  <2>2. (s \in JupiterPvInputData \/ s \in Others) /\ (t \in JupiterPvInputData \/ t \in Others)
    BY <1>5, <1>7, <2>1
  <2>3. CASE s \in JupiterPvInputData /\ t \in JupiterPvInputData
    BY <1>2, <1>7, <2>3
  <2>4. CASE s \in JupiterPvInputData /\ t \in Others
    BY <1>1, <1>3, <1>7, <2>1, <2>4
  <2>5. CASE s \in Others /\ t \in JupiterPvInputData
    BY <1>1, <1>3, <1>7, <2>1, <2>5
  <2>6. CASE s \in Others /\ t \in Others
    BY <1>4, <1>7, <2>6
  <2> QED BY <2>2, <2>3, <2>4, <2>5, <2>6
<1> QED BY <1>6, <1>7 DEF Nested, Last

LEMMA VenusNest ==
    \A s, t \in VenusSources : Overlapping(s, t) => Nested(s, t) \/ Nested(t, s)
<1>1. \A s \in VenusSources :
        /\ s.packet = \h03 => s \in VenusRuntimeData \cup VenusEnergyCounters
        /\ s.packet = \h14 => s \in VenusBatteryLimits \cup VenusBatteryStatus
        /\ s.packet \notin {\h03, \h14} =>
             s \in VenusSystemData \cup VenusTimerData \cup VenusConfigurationData
  BY VenusPacketParts DEF VenusSources
<1>2. \A s \in VenusSources : s.first \in Nat /\ s.size \in Nat
  BY PlacesAreNumbers DEF Sources
<1>3. ASSUME NEW s \in VenusSources, NEW t \in VenusSources, Overlapping(s, t)
      PROVE  Nested(s, t) \/ Nested(t, s)
  <2>1. s.packet = t.packet
    BY <1>3 DEF Overlapping
  <2>2. CASE s.packet = \h03
    BY <1>1, <1>3, <2>1, <2>2, VenusRuntimeNest
  <2>3. CASE s.packet = \h14
    <3>1. s.first = t.first /\ s.size = t.size
      BY <1>1, <1>3, <2>1, <2>3, VenusBatteryNest
    <3> QED BY <1>2, <3>1 DEF Nested, Last
  <2>4. CASE s.packet \notin {\h03, \h14}
    <3>1. s.first = t.first /\ s.size = t.size
      BY <1>1, <1>3, <2>1, <2>4, VenusOthersNest
    <3> QED BY <1>2, <3>1 DEF Nested, Last
  <2> QED BY <2>2, <2>3, <2>4
<1> QED BY <1>3

-----------------------------------------------------------------------------
(* What the tables grant of each frame that may come. *)
TablesAreSound ==
    \A p \in {Venus, Jupiter} :
        /\ \A r \in OlderNames(p) : r[2] \in Fields(p)
        /\ \A d \in Derived(p) : d \subseteq Fields(p)
        /\ \A f \in Frames[p] : Definite(p, f) /\ NamedAlike(p, f) /\ Together(p, f)

DecodersAgree == NamesDiffer /\ \A f \in Frames[Venus] : ReadAlike(f)

LEMMA TablesHold == TablesAreSound /\ DecodersAgree
<1>1. TablesAreSound
  BY OlderNamesReadFields, DerivedAreFields, WrittenOnce, VenusNamedAlike, JupiterNamedAlike,
     DerivedTogether DEF TablesAreSound
<1>2. DecodersAgree
  BY VenusNamesDiffer, FramesReadAlike, FramesAssumption DEF DecodersAgree
<1> QED BY <1>1, <1>2

LEMMA LayoutsHold == ASSUME product \in {Venus, Jupiter} PROVE LayoutsAreSound
<1>1. \A s, t \in Sources(product) :
        s.packet = t.packet /\ s.first <= t.first /\ t.first <= Last(s)
           => Nested(s, t) \/ Nested(t, s)
  <2>1. \A s, t \in JupiterSources : Overlapping(s, t) => Nested(s, t) \/ Nested(t, s)
    BY JupiterRuntimeNest, JupiterOnGrid, GridNests DEF Overlapping
  <2> QED BY <2>1, VenusNest DEF Overlapping, Sources
<1>2. \A s \in Sources(product) :
        \E k \in Packets(product) : k[1] = s.packet /\ Applies(s, k[3])
  BY VenusSourcesFit, JupiterSourcesFit DEF Sources, Packets
<1>3. ASSUME NEW f \in OfEveryLength(product) \cup Frames[product]
      PROVE  /\ Definite(product, f) /\ NamedAlike(product, f) /\ Together(product, f)
             /\ product = Venus => ReadAlike(f)
  <2>1. f.sound => f.length \in 0..MaxPayload
    BY FramesAssumption DEF OfEveryLength
  <2> QED BY <2>1, WrittenOnce, VenusNamedAlike, JupiterNamedAlike, DerivedTogether,
             FramesReadAlike
<1> QED BY <1>1, <1>2, <1>3, SeenFieldsArePolled, OlderNamesReadFields, DerivedAreFields,
           VenusNamesDiffer DEF LayoutsAreSound

(* The tables of both products make sense together, for payloads of any length and for whatever
   frames come. *)
THEOREM LayoutsMakeSense == Spec => []LayoutsAreSound
<1>1. Init => product \in {Venus, Jupiter}
  BY DEF Init
<1>2. product \in {Venus, Jupiter} /\ [Next]_vars => (product \in {Venus, Jupiter})'
  BY DEF Next, Notify, vars
<1> QED BY <1>1, <1>2, LayoutsHold, PTL DEF Spec

-----------------------------------------------------------------------------
(* The data of the product in use; no frame is told of before it has come. *)
Shapes ==
    /\ heard \in Nat /\ told \in 0..heard
    /\ value = [x \in Fields(product) |-> value[x]]
    /\ marks = [x \in Fields(product) |-> marks[x]]
    /\ flat = [n \in FlatNames(product) |-> flat[n]]

ShapesAtFirst == heard = 0 /\ told = 0
    /\ value = [f \in Fields(product) |-> None]
    /\ marks = [f \in Fields(product) |-> 0]
    /\ flat = [n \in FlatNames(product) |-> 0]

LEMMA NothingStored ==
    ASSUME NEW old, NEW frame, old = [x \in DOMAIN old |-> old[x]]
    PROVE  Stored(old, {}, frame) = old
BY DEF Stored

LEMMA ShapesInit == Init => Shapes
<1>1. ASSUME Init PROVE ShapesAtFirst
  BY <1>1 DEF Init, ShapesAtFirst
<1>2. ASSUME ShapesAtFirst PROVE Shapes
  BY <1>2 DEF ShapesAtFirst, Shapes
<1> QED BY <1>1, <1>2

(* What a notification does to the data of the product, without MarstekProtocol. *)
Effect(f) ==
    /\ heard' = Now
    /\ value' = Stored(value, Written(product, f), Now)
    /\ marks' = [x \in DOMAIN marks |-> IF x \in Marked(product, f) THEN Now ELSE marks[x]]
    /\ flat' = [n \in DOMAIN flat |->
                  IF EnteredAs(product, n) \cap Marked(product, f) # {} THEN Now ELSE flat[n]]
    /\ told' = IF Accepted(product, f) THEN Now ELSE told
    /\ product' = product

LEMMA NotifyEffect == ASSUME NEW f, Notify(f) PROVE Effect(f)
BY DEF Notify, Effect

LEMMA ShapesStep ==
    ASSUME Shapes, [Next]_vars PROVE Shapes'
<1>1. CASE UNCHANGED vars
  BY <1>1 DEF Shapes, vars
<1>2. ASSUME NEW f, Notify(f) PROVE Shapes'
  <2>1. Effect(f)
    BY <1>2, NotifyEffect
  <2>2. heard' \in Nat /\ told' \in 0..heard'
    BY <2>1 DEF Effect, Shapes, Now
  <2>3. DOMAIN value = Fields(product) /\ DOMAIN marks = Fields(product)
          /\ DOMAIN flat = FlatNames(product)
    BY DEF Shapes
  <2>4. value' = [x \in Fields(product) |-> value'[x]]
    BY <2>1, <2>3 DEF Effect, Stored
  <2>5. marks' = [x \in Fields(product) |-> marks'[x]]
    BY <2>1, <2>3 DEF Effect
  <2>6. flat' = [n \in FlatNames(product) |-> flat'[n]]
    BY <2>1, <2>3 DEF Effect
  <2>7. product' = product /\ Fields(product') = Fields(product)
          /\ FlatNames(product') = FlatNames(product)
    BY <2>1 DEF Effect
  <2> QED BY <2>2, <2>4, <2>5, <2>6, <2>7 DEF Shapes
<1> QED BY <1>1, <1>2 DEF Next

THEOREM ShapesHold == Spec => []Shapes
BY ShapesInit, ShapesStep, PTL DEF Spec

-----------------------------------------------------------------------------
LEMMA StoredValue ==
    ASSUME NEW old, NEW U, NEW n, NEW x \in DOMAIN old
    PROVE  \/ Stored(old, U, n)[x] = old[x]
           \/ \E u \in U : Stored(old, U, n)[x] = <<n, u[2], u[3]>>
BY DEF Stored

(* What a frame writes is in its payload. *)
LEMMA WrittenBytes ==
    ASSUME NEW p \in {Venus, Jupiter}, NEW f \in Frames[p], NEW u \in Written(p, f)
    PROVE  u[2] \in 0..MaxPayload /\ u[3] \in 0..MaxPayload
<1>1. Accepted(p, f) /\ u \in Updates(p, f)
  BY DEF Written
<1>2. f.length \in 0..MaxPayload
  BY <1>1, FramesAssumption DEF Accepted
<1>3. CASE TextsOf(p, f.command) # {}
  <2>1. u[2] = 0 /\ u[3] = f.length
    BY <1>1, <1>3 DEF Updates
  <2> QED BY <1>2, <2>1 DEF MaxPayload
<1>4. CASE TextsOf(p, f.command) = {}
  <2>1. PICK s \in Sources(p) : u = <<s.field, s.first, s.size>> /\ Applies(s, f.length)
    BY <1>1, <1>4 DEF Updates
  <2>2. s.first \in Nat /\ s.size \in Nat
    BY PlacesAreNumbers
  <2>3. f.length >= s.first + s.size
    BY <2>1 DEF Applies
  <2>4. s.first \in 0..MaxPayload /\ s.size \in 0..MaxPayload
    BY <1>2, <2>2, <2>3 DEF MaxPayload
  <2>5. u[2] = s.first /\ u[3] = s.size
    BY <2>1
  <2> QED BY <2>4, <2>5
<1> QED BY <1>3, <1>4

LEMMA TypeInit == ASSUME Init PROVE TypeOK
<1>1. product \in {Venus, Jupiter} /\ heard = 0 /\ told = 0 /\ legacyTold = 0
        /\ value = [f \in Fields(product) |-> None]
        /\ marks = [f \in Fields(product) |-> 0] /\ flat = [n \in FlatNames(product) |-> 0]
  BY DEF Init
<1>2. None \in Bytes
  BY <1>1 DEF None, Bytes, MaxPayload
<1> QED BY <1>1, <1>2, FramesAssumption DEF TypeOK

LEMMA TypeStep == ASSUME Shapes, TypeOK, [Next]_vars PROVE TypeOK'
<1>1. CASE UNCHANGED vars
  BY <1>1 DEF TypeOK, Bytes, vars
<1>2. ASSUME NEW f \in Frames[product], Notify(f) PROVE TypeOK'
  <2>1. Effect(f)
    BY <1>2, NotifyEffect
  <2>2. product' = product /\ product \in {Venus, Jupiter}
          /\ Fields(product') = Fields(product) /\ FlatNames(product') = FlatNames(product)
    BY <2>1 DEF Effect, TypeOK
  <2>3. heard \in Nat /\ heard' = heard + 1 /\ heard' \in 0..MaxFrames /\ Now = heard'
    BY <1>2, <2>1, FramesAssumption DEF Notify, Effect, Now, TypeOK
  <2>4. DOMAIN value = Fields(product) /\ DOMAIN value' = Fields(product)
    BY <2>1 DEF Effect, Stored, Shapes
  <2>5. ASSUME NEW x \in Fields(product) PROVE value'[x] \in Bytes'
    <3>1. value[x] \in Bytes
      BY DEF TypeOK
    <3>2. CASE value'[x] = value[x]
      BY <2>3, <3>1, <3>2 DEF Bytes
    <3>3. CASE \E u \in Written(product, f) : value'[x] = <<Now, u[2], u[3]>>
      <4>1. PICK u \in Written(product, f) : value'[x] = <<Now, u[2], u[3]>>
        BY <3>3
      <4>2. u[2] \in 0..MaxPayload /\ u[3] \in 0..MaxPayload
        BY <2>2, WrittenBytes
      <4> QED BY <2>3, <4>1, <4>2 DEF Bytes
    <3> QED BY <2>1, <2>4, <3>2, <3>3, StoredValue DEF Effect
  <2>6. marks' \in [Fields(product) -> 0..heard']
    BY <2>1, <2>3 DEF Effect, TypeOK
  <2>7. flat' \in [FlatNames(product) -> 0..heard']
    BY <2>1, <2>3 DEF Effect, TypeOK
  <2>8. told' \in 0..heard' /\ legacyTold' \in 0..heard'
    <3>1. told \in 0..heard /\ legacyTold \in 0..heard
      BY DEF TypeOK
    <3>2. told' \in {Now, told}
      BY <2>1 DEF Effect
    <3>3. legacyTold' \in {Now, legacyTold}
      BY <1>2 DEF Notify
    <3> QED BY <2>3, <3>1, <3>2, <3>3
  <2> QED BY <2>2, <2>3, <2>4, <2>5, <2>6, <2>7, <2>8 DEF TypeOK
<1> QED BY <1>1, <1>2 DEF Next

(* The data keeps its shape, and no value, time stamp or report is from a notification that has
   not come. *)
THEOREM DataIsTyped == Spec => []TypeOK
<1>1. Init => Shapes /\ TypeOK
  BY ShapesInit, TypeInit
<1>2. Shapes /\ TypeOK /\ [Next]_vars => (Shapes /\ TypeOK)'
  BY ShapesStep, TypeStep
<1> QED BY <1>1, <1>2, PTL DEF Spec

-----------------------------------------------------------------------------
LEMMA RejectedStep ==
    ASSUME Shapes, [Next]_vars, told' = told PROVE UNCHANGED <<value, marks, flat>>
<1>1. CASE UNCHANGED vars
  BY <1>1 DEF vars
<1>2. ASSUME NEW f, Notify(f) PROVE UNCHANGED <<value, marks, flat>>
  <2>1. Effect(f)
    BY <1>2, NotifyEffect
  <2>2. ~Accepted(product, f)
    BY <2>1 DEF Effect, Shapes, Now
  <2>3. Written(product, f) = {} /\ Marked(product, f) = {}
    BY <2>2 DEF Written, Marked
  <2>4. value' = value
    <3>1. value = [x \in DOMAIN value |-> value[x]]
      BY DEF Shapes
    <3> QED BY <2>1, <2>3, <3>1, NothingStored DEF Effect
  <2>5. marks' = marks /\ flat' = flat
    BY <2>1, <2>3 DEF Effect, Shapes
  <2> QED BY <2>4, <2>5
<1> QED BY <1>1, <1>2 DEF Next

(* Decoding is all or nothing, whatever frames come and however many. *)
THEOREM RejectedFramesLeaveNoTrace == Spec => RejectedFramesAreIgnored
<1>1. Shapes /\ [Next]_vars => [told' = told => UNCHANGED <<value, marks, flat>>]_vars
  BY RejectedStep
<1> QED BY <1>1, ShapesHold, PTL DEF Spec, RejectedFramesAreIgnored

-----------------------------------------------------------------------------
LEMMA ProductStep ==
    ASSUME product \in {Venus, Jupiter}, [Next]_vars PROVE product' \in {Venus, Jupiter}
BY DEF Next, Notify, vars

(* A field that the updates name gets the frame. *)
LEMMA StoredFrame ==
    ASSUME NEW old, NEW U, NEW n, NEW x \in DOMAIN old, NEW u \in U, u[1] = x
    PROVE  Stored(old, U, n)[x][1] = n
BY DEF Stored

(* A field that they do not name keeps what it has. *)
LEMMA StoredOther ==
    ASSUME NEW old, NEW U, NEW n, NEW x \in DOMAIN old, \A u \in U : u[1] # x
    PROVE  Stored(old, U, n)[x] = old[x]
BY DEF Stored

(* A field that they name once gets the bytes they say. *)
LEMMA StoredBytes ==
    ASSUME NEW old, NEW U, NEW n, NEW x \in DOMAIN old, NEW u \in U, u[1] = x,
           \A v \in U : v[1] = x => v = u
    PROVE  Stored(old, U, n)[x] = <<n, u[2], u[3]>>
<1>1. (CHOOSE v \in U : v[1] = x) = u
  OBVIOUS
<1> QED BY <1>1 DEF Stored

LEMMA MetadataStep ==
    ASSUME Shapes, product \in {Venus, Jupiter}, MetadataMatchesValue, [Next]_vars
    PROVE  MetadataMatchesValue'
<1>1. CASE UNCHANGED vars
  BY <1>1 DEF MetadataMatchesValue, vars
<1>2. ASSUME NEW f \in Frames[product], Notify(f) PROVE MetadataMatchesValue'
  <2> DEFINE W == Written(product, f)
  <2>1. Effect(f)
    BY <1>2, NotifyEffect
  <2>2. product' = product /\ Fields(product') = Fields(product)
          /\ OlderNames(product') = OlderNames(product)
    BY <2>1 DEF Effect
  <2>3. DOMAIN value = Fields(product) /\ DOMAIN marks = Fields(product)
          /\ DOMAIN flat = FlatNames(product)
    BY DEF Shapes
  <2>4. \A x \in Fields(product) : x \in Marked(product, f) => value'[x][1] = Now
    BY <2>1, <2>3, StoredFrame DEF Effect, Marked
  <2>5. \A x \in Fields(product) : x \notin Marked(product, f) => value'[x] = value[x]
    BY <2>1, <2>3, StoredOther DEF Effect, Marked
  <2>6. ASSUME NEW x \in Fields(product) PROVE marks'[x] = value'[x][1]
    BY <2>1, <2>3, <2>4, <2>5 DEF Effect, MetadataMatchesValue
  <2>7. ASSUME NEW r \in OlderNames(product) PROVE flat'[r[1]] = value'[r[2]][1]
    <3>1. r[1] \in FlatNames(product)
      BY DEF OlderNames, FlatNames
    <3>2. /\ r[2] \in Fields(product)
          /\ EnteredAs(product, r[1]) \cap Marked(product, f) # {} <=> r[2] \in Marked(product, f)
      BY <1>2, TablesHold DEF TablesAreSound, NamedAlike
    <3>3. flat'[r[1]] = IF r[2] \in Marked(product, f) THEN Now ELSE flat[r[1]]
      BY <2>1, <2>3, <3>1, <3>2 DEF Effect
    <3>4. flat[r[1]] = value[r[2]][1]
      BY DEF MetadataMatchesValue
    <3> QED BY <2>4, <2>5, <3>2, <3>3, <3>4
  <2> QED BY <2>2, <2>6, <2>7 DEF MetadataMatchesValue
<1> QED BY <1>1, <1>2 DEF Next

LEMMA MetadataInit ==
    ASSUME Init PROVE MetadataMatchesValue
<1>1. product \in {Venus, Jupiter} /\ value = [f \in Fields(product) |-> None]
        /\ marks = [f \in Fields(product) |-> 0] /\ flat = [n \in FlatNames(product) |-> 0]
  BY DEF Init
<1>2. ASSUME NEW r \in OlderNames(product) PROVE flat[r[1]] = 0 /\ value[r[2]] = None
  <2>1. r[1] \in FlatNames(product) /\ r[2] \in Fields(product)
    BY <1>1, TablesHold DEF OlderNames, FlatNames, TablesAreSound
  <2> QED BY <1>1, <2>1
<1>3. None[1] = 0
  BY DEF None
<1>4. \A f \in Fields(product) : marks[f] = value[f][1]
  BY <1>1, <1>3
<1>5. \A r \in OlderNames(product) : flat[r[1]] = value[r[2]][1]
  BY <1>2, <1>3
<1> QED BY <1>4, <1>5 DEF MetadataMatchesValue

(* Time stamps and values stay together through any number of notifications, under the field's
   path and under its older name. *)
THEOREM TimeStampsFollowValues == Spec => []MetadataMatchesValue
<1>1. Init => MetadataMatchesValue /\ product \in {Venus, Jupiter}
  BY MetadataInit DEF Init
<1>2. Shapes /\ (MetadataMatchesValue /\ product \in {Venus, Jupiter}) /\ [Next]_vars
        => (MetadataMatchesValue /\ product \in {Venus, Jupiter})'
  BY MetadataStep, ProductStep
<1> QED BY <1>1, <1>2, ShapesHold, PTL DEF Spec

LEMMA DerivedStep ==
    ASSUME Shapes, product \in {Venus, Jupiter}, DerivedInputsAgree, [Next]_vars
    PROVE  DerivedInputsAgree'
<1>1. CASE UNCHANGED vars
  BY <1>1 DEF DerivedInputsAgree, vars
<1>2. ASSUME NEW f \in Frames[product], Notify(f) PROVE DerivedInputsAgree'
  <2>1. Effect(f)
    BY <1>2, NotifyEffect
  <2>2. product' = product /\ Derived(product') = Derived(product)
    BY <2>1 DEF Effect
  <2>3. DOMAIN value = Fields(product)
    BY DEF Shapes
  <2>4. \A x \in Fields(product) : x \in Marked(product, f) => value'[x][1] = Now
    BY <2>1, <2>3, StoredFrame DEF Effect, Marked
  <2>5. \A x \in Fields(product) : x \notin Marked(product, f) => value'[x] = value[x]
    BY <2>1, <2>3, StoredOther DEF Effect, Marked
  <2>6. ASSUME NEW d \in Derived(product), NEW x \in d, NEW y \in d
        PROVE  value'[x][1] = value'[y][1]
    <3>1. x \in Fields(product) /\ y \in Fields(product)
            /\ (d \subseteq Marked(product, f) \/ d \cap Marked(product, f) = {})
      BY <1>2, TablesHold DEF TablesAreSound, Together
    <3>2. value[x][1] = value[y][1]
      BY DEF DerivedInputsAgree
    <3> QED BY <2>4, <2>5, <3>1, <3>2
  <2> QED BY <2>2, <2>6 DEF DerivedInputsAgree
<1> QED BY <1>1, <1>2 DEF Next

LEMMA DerivedInit ==
    ASSUME Init PROVE DerivedInputsAgree
<1>1. product \in {Venus, Jupiter} /\ value = [f \in Fields(product) |-> None]
  BY DEF Init
<1>2. \A d \in Derived(product) : \A x \in d : value[x] = None
  BY <1>1, TablesHold DEF TablesAreSound
<1> QED BY <1>2 DEF DerivedInputsAgree

(* A derived sensor never mixes two frames, however long the sequence and however short some of
   the frames. *)
THEOREM DerivedInputsStayTogether == Spec => []DerivedInputsAgree
<1>1. Init => DerivedInputsAgree /\ product \in {Venus, Jupiter}
  BY DerivedInit DEF Init
<1>2. Shapes /\ (DerivedInputsAgree /\ product \in {Venus, Jupiter}) /\ [Next]_vars
        => (DerivedInputsAgree /\ product \in {Venus, Jupiter})'
  BY DerivedStep, ProductStep
<1> QED BY <1>1, <1>2, ShapesHold, PTL DEF Spec

-----------------------------------------------------------------------------
(* DropIn with what its induction needs to know of the two data objects. *)
Twins ==
    product = Venus =>
        /\ told = legacyTold
        /\ DOMAIN value = Fields(Venus) /\ DOMAIN legacy = FlatNames(Venus)
        /\ \A x \in Fields(Venus) : value[x] = legacy[x[3]]

LEMMA VenusNames == \A x \in Fields(Venus) : x[3] \in FlatNames(Venus)
<1>1. FlatPaths(Venus) = {<<x[3], x>> : x \in Fields(Venus)}
  BY DEF FlatPaths, VenusFlatPaths
<1>2. ASSUME NEW x \in Fields(Venus) PROVE x[3] \in FlatNames(Venus)
  <2> DEFINE r == <<x[3], x>>
  <2>1. r \in FlatPaths(Venus) /\ r[1] = x[3]
    BY <1>1
  <2> QED BY <2>1 DEF FlatNames
<1> QED BY <1>2

LEMMA TwinsInit == ASSUME Init PROVE Twins
<1>1. ASSUME product = Venus
      PROVE  /\ value = [f \in Fields(Venus) |-> None] /\ legacy = [n \in FlatNames(Venus) |-> None]
             /\ told = 0 /\ legacyTold = 0
  BY <1>1 DEF Init
<1> QED BY <1>1, VenusNames DEF Twins

LEMMA TwinsStep ==
    ASSUME Twins, [Next]_vars PROVE Twins'
<1>1. CASE UNCHANGED vars
  BY <1>1 DEF Twins, vars
<1>2. ASSUME NEW f \in Frames[product], Notify(f) PROVE Twins'
  <2> SUFFICES ASSUME product' = Venus PROVE Twins'
    BY DEF Twins
  <2> DEFINE W == Written(Venus, f)
             LW == LegacyWritten(f)
  <2>1. product = Venus /\ f \in Frames[Venus]
    BY <1>2 DEF Notify
  <2>2. /\ value' = Stored(value, W, Now) /\ legacy' = Stored(legacy, LW, Now)
        /\ told' = (IF Accepted(Venus, f) THEN Now ELSE told)
        /\ legacyTold' = (IF LegacyAccepted(f) THEN Now ELSE legacyTold)
    BY <1>2, <2>1 DEF Notify
  <2>3. (LegacyAccepted(f) <=> Accepted(Venus, f)) /\ LW = {<<u[1][3], u[2], u[3]>> : u \in W}
    BY <2>1, TablesHold DEF DecodersAgree, ReadAlike
  <2>4. \A u, v \in W : u[1] \in Fields(Venus) /\ (u[1] = v[1] => u = v)
    BY <2>1, TablesHold DEF TablesAreSound, Definite
  <2>5. \A x, y \in Fields(Venus) : x[3] = y[3] => x = y
    BY TablesHold DEF DecodersAgree, NamesDiffer
  <2>6. DOMAIN value = Fields(Venus) /\ DOMAIN legacy = FlatNames(Venus)
          /\ \A x \in Fields(Venus) : value[x] = legacy[x[3]]
    BY <2>1 DEF Twins
  <2>7. told' = legacyTold'
    BY <2>1, <2>2, <2>3 DEF Twins
  <2>8. DOMAIN value' = Fields(Venus) /\ DOMAIN legacy' = FlatNames(Venus)
    BY <2>2, <2>6 DEF Stored
  <2>9. ASSUME NEW x \in Fields(Venus) PROVE value'[x] = legacy'[x[3]]
    <3>1. x[3] \in DOMAIN legacy
      BY <2>6, VenusNames
    <3>2. ASSUME NEW u \in W, u[1] = x PROVE value'[x] = legacy'[x[3]]
      <4> DEFINE l == <<u[1][3], u[2], u[3]>>
      <4>1. l \in LW /\ l[1] = x[3] /\ l[2] = u[2] /\ l[3] = u[3]
        BY <2>3, <3>2
      <4>2. \A v \in W : v[1] = x => v = u
        BY <2>4, <3>2
      <4>3. \A k \in LW : k[1] = x[3] => k = l
        BY <2>3, <2>4, <2>5, <3>2
      <4>4. value'[x] = <<Now, u[2], u[3]>>
        BY <2>2, <2>6, <3>2, <4>2, StoredBytes
      <4>5. legacy'[x[3]] = <<Now, l[2], l[3]>>
        BY <2>2, <3>1, <4>1, <4>3, StoredBytes
      <4> QED BY <4>1, <4>4, <4>5
    <3>3. ASSUME \A u \in W : u[1] # x PROVE value'[x] = legacy'[x[3]]
      <4>1. \A k \in LW : k[1] # x[3]
        BY <2>3, <2>4, <2>5, <3>3
      <4>2. value'[x] = value[x]
        BY <2>2, <2>6, <3>3, StoredOther
      <4>3. legacy'[x[3]] = legacy[x[3]]
        BY <2>2, <3>1, <4>1, StoredOther
      <4> QED BY <2>6, <4>2, <4>3
    <3> QED BY <3>2, <3>3
  <2> QED BY <2>7, <2>8, <2>9 DEF Twins
<1> QED BY <1>1, <1>2 DEF Next

(* The two decoders of a Venus agree after any sequence of frames, whatever short and long
   payloads it mixes: the product runtime is a drop-in for MarstekProtocol. *)
THEOREM DropInForever == Spec => []DropIn
<1>1. Init => Twins
  BY TwinsInit
<1>2. Twins /\ [Next]_vars => Twins'
  BY TwinsStep
<1>3. Twins => DropIn
  BY DEF Twins, DropIn
<1> QED BY <1>1, <1>2, <1>3, PTL DEF Spec
=============================================================================
