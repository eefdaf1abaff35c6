--------------------------- MODULE PacketLayouts ---------------------------
(***************************************************************************)
(* Where the bytes of a response are kept: the declarative packet schemas  *)
(* of products/venus.py and products/jupiter.py, read by schema.py, and    *)
(* the slices that the older MarstekProtocol of marstek_device.py cuts.    *)
(*                                                                         *)
(* A field is <<section, item, name>>; item is 0 except in a repeated      *)
(* section.  A source says in which packet a field is, at which bytes, and *)
(* the least length of a payload that has it.  Converters (scaling, bits,  *)
(* text) are left out: a value is known by the bytes it is made of.        *)
(***************************************************************************)
EXTENDS Naturals

(* FieldSource: rows are <<name, offset, size>>. *)
In(section, packet, least, rows) ==
    { [field |-> <<section, 0, r[1]>>, packet |-> packet,
       first |-> r[2], size |-> r[3], least |-> least] : r \in rows }

\* Mutant: the records are counted from one.
RepeatedFromOne(section, count, packet, offset, stride, rows) ==
    { [field |-> <<section, i, r[1]>>, packet |-> packet,
       first |-> offset + i * stride + r[2], size |-> r[3], least |-> 0] :
         i \in 1..count, r \in rows }

(* RepeatedSectionSource, as _iter_parsed_fields walks it. *)
Repeated(section, count, packet, offset, stride, rows) ==
    { [field |-> <<section, i, r[1]>>, packet |-> packet,
       first |-> offset + (i - 1) * stride + r[2], size |-> r[3], least |-> 0] :
         i \in 1..count, r \in rows }

(* PacketSchema: <<command, least, greatest>> payload length; a frame has one byte for its own *)
(* length. *)
MaxPayload == 250

VenusPackets ==
    {<<\h03, 37, MaxPayload>>, <<\h04, 1, MaxPayload>>, <<\h08, 0, MaxPayload>>,
     <<\h0D, 11, MaxPayload>>, <<\h13, 45, MaxPayload>>, <<\h14, 80, MaxPayload>>,
     <<\h1A, 17, MaxPayload>>, <<\h21, 1, MaxPayload>>, <<\h22, 1, MaxPayload>>,
     <<\h24, 0, MaxPayload>>, <<\h28, 3, MaxPayload>>}

JupiterPackets ==
    {<<\h03, 74, 74>>, <<\h04, 0, MaxPayload>>, <<\h08, 0, MaxPayload>>, <<\h0D, 12, 12>>,
     <<\h13, 160, 160>>, <<\h14, 166, 166>>, <<\h21, 1, 1>>, <<\h22, 1, 1>>, <<\h24, 1, 1>>}

-----------------------------------------------------------------------------
(* products/venus.py *)

VenusRuntimeData ==
    In("runtime", \h03, 0, {
        <<"out1_power", \h14, 2>>, <<"wifi_connected", \h0F, 1>>, <<"mqtt_connected", \h0F, 1>>,
        <<"out1_active", \h10, 1>>, <<"extern1_connected", \h1C, 1>>})
    \cup In("runtime", \h03, 60, {<<"temp_low", \h21, 2>>, <<"temp_high", \h23, 2>>})
    \cup In("runtime", \h03, 100, {
        <<"grid_power", 0, 2>>, <<"solar_power", 2, 2>>, <<"work_mode", 4, 1>>,
        <<"product_code", \h0C, 2>>, <<"power_rating", \h4A, 2>>})

VenusEnergyCounters ==
    In("runtime", \h03, 100, {
        <<"daily_energy_charged", \h0E, 4>>, <<"monthly_energy_charged", \h12, 4>>,
        <<"daily_energy_discharged", \h16, 4>>, <<"monthly_energy_discharged", \h1A, 4>>,
        <<"total_energy_charged", \h29, 4>>, <<"total_energy_discharged", \h2D, 4>>})

VenusBatteryLimits ==
    In("battery", \h14, 0, {
        <<"bms_version", 0, 2>>, <<"voltage_limit", 2, 2>>, <<"charge_current_limit", 4, 2>>,
        <<"discharge_current_limit", 6, 2>>, <<"battery_soc", 8, 2>>, <<"battery_soh", \h0A, 2>>,
        <<"design_capacity", \h0C, 2>>, <<"battery_voltage", \h0E, 2>>,
        <<"battery_current", \h10, 2>>, <<"battery_temp", \h12, 2>>})

VenusBatteryStatus ==
    In("battery", \h14, 0, {
        <<"error_code", \h1A, 2>>, <<"warning_code", \h1C, 4>>, <<"runtime_hours", \h20, 4>>,
        <<"mosfet_temp", \h26, 2>>, <<"temp_sensor_1", \h28, 2>>, <<"temp_sensor_2", \h2A, 2>>,
        <<"temp_sensor_3", \h2C, 2>>, <<"temp_sensor_4", \h2E, 2>>, <<"cell_voltages", \h30, 32>>})

VenusSystemData ==
    In("system", \h0D, 0, {
        <<"system_status", 0, 1>>, <<"system_value_1", 1, 2>>, <<"system_value_2", 3, 2>>,
        <<"system_value_3", 5, 2>>, <<"system_value_4", 7, 2>>, <<"system_value_5", 9, 2>>})

VenusTimerData ==
    In("timer", \h13, 0, {
        <<"adaptive_mode_enabled", 0, 1>>, <<"smart_meter_connected", \h25, 1>>,
        <<"adaptive_power_out", \h26, 2>>})

VenusConfigurationData ==
    In("configuration", \h1A, 0,
        {<<"config_mode", 0, 1>>, <<"config_status", 4, 1>>, <<"config_value", \h10, 1>>})
    \cup In("configuration", \h22, 0, {<<"ct_polling_rate", 0, 1>>})

VenusSources ==
    VenusRuntimeData \cup VenusEnergyCounters \cup VenusBatteryLimits \cup VenusBatteryStatus
    \cup VenusSystemData \cup VenusTimerData \cup VenusConfigurationData

(* Fields that a payload parser of venus_runtime.py sets from text, and the command of each. *)
VenusDeviceInformation ==
    {"device_type", "device_id", "serial_number", "mac_address", "firmware_version",
     "hardware_version"}

VenusNetworkAddresses == {"ip_address", "gateway", "subnet_mask", "dns_server"}

(* <<command, field>>. *)
VenusTexts ==
    {<<\h04, <<"device", 0, n>>>> : n \in VenusDeviceInformation}
    \cup {<<\h24, <<"network", 0, n>>>> : n \in VenusNetworkAddresses}
    \cup {<<\h24, <<"network", 0, "network_info">>>>, <<\h08, <<"network", 0, "wifi_ssid">>>>,
          <<\h21, <<"network", 0, "meter_ip">>>>, <<\h28, <<"network", 0, "local_api_status">>>>}

VenusPolled == {\h03, \h14, \h0D, \h08, \h1A, \h22, \h21, \h24, \h04, \h13, \h28, \h1C}

(* Sections whose fields have no entity, and single such fields. *)
VenusUnseen ==
    {<<"network", 0, "local_api_status">>, <<"timer", 0, "adaptive_mode_enabled">>,
     <<"timer", 0, "adaptive_power_out">>, <<"configuration", 0, "config_status">>,
     <<"configuration", 0, "config_value">>}
    \cup {<<"system", 0, v>> : v \in {"system_value_1", "system_value_2", "system_value_3",
                                      "system_value_4", "system_value_5"}}

(* derived_entities: the fields each of them multiplies. *)
VenusDerived ==
    {{<<"battery", 0, "battery_voltage">>, <<"battery", 0, "battery_current">>},
     {<<"battery", 0, "battery_soc">>, <<"battery", 0, "design_capacity">>}}

-----------------------------------------------------------------------------
(* products/jupiter.py *)

JupiterPvInputData ==
    Repeated("pv_inputs", 4, \h03, 0, 3, {<<"power", 0, 2>>, <<"connected", 2, 1>>})
    \cup Repeated("pv_inputs", 4, \h14, \h28, 6,
            {<<"voltage", 0, 2>>, <<"current", 2, 2>>, <<"power", 4, 2>>})

JupiterRuntimeData ==
    In("runtime", \h03, 0, {
        <<"ac_output_power", \h0C, 2>>, <<"grid_connection_valid", \h0E, 1>>,
        <<"ac_output_active", \h0E, 1>>, <<"battery_state", \h12, 1>>,
        <<"stored_battery_energy", \h13, 2>>, <<"battery_soc", \h15, 1>>,
        <<"operational_status", \h3C, 1>>, <<"surplus_feed_in_active", \h3C, 1>>,
        <<"ems_firmware_version", \h2F, 2>>, <<"inverter_firmware_version", \h31, 2>>,
        <<"mppt_firmware_version", \h33, 2>>, <<"bms_firmware_version", \h35, 2>>})
    \cup In("runtime", \h14, 0, {
        <<"ac_output_power", \h10, 2>>, <<"stored_battery_energy", \h78, 2>>,
        <<"battery_soc", \h5E, 2>>, <<"bms_firmware_version", \h64, 2>>})

JupiterEnergyData ==
    In("energy", \h03, 0, {
        <<"daily_pv_generation", \h17, 4>>, <<"monthly_pv_generation", \h1B, 4>>,
        <<"total_pv_generation", \h1F, 4>>, <<"daily_output_energy", \h27, 4>>,
        <<"monthly_output_energy", \h2B, 4>>})
    \cup In("energy", \h14, 0, {
        <<"daily_pv_generation", \h40, 4>>, <<"monthly_pv_generation", \h48, 4>>,
        <<"total_pv_generation", \h4C, 4>>, <<"daily_output_energy", \h14, 4>>,
        <<"monthly_output_energy", \h1C, 4>>, <<"local_total_output_energy", \h18, 4>>})

JupiterInverterData ==
    In("inverter", \h03, 0, {<<"error_code", \h23, 2>>})
    \cup In("inverter", \h14, 0, {
        <<"state_flags", 0, 2>>, <<"error_code", 2, 2>>, <<"warning_code", 4, 2>>,
        <<"grid_voltage", 6, 2>>, <<"grid_current", 8, 2>>, <<"grid_power_factor", \h0A, 2>>,
        <<"grid_frequency", \h0C, 2>>, <<"bus_voltage", \h0E, 2>>, <<"temperature", \h12, 2>>})

JupiterMpptData ==
    In("mppt", \h14, 0,
        {<<n, \h20, 2>> : n \in {"state_flags", "controller_ready", "pv_input_1_active",
                                 "pv_input_2_active", "pv_input_3_active", "pv_input_4_active"}}
        \cup {<<"error_code", \h22, 2>>, <<"temperature", \h24, 2>>, <<"warning_code", \h26, 2>>,
              <<"dc_output_voltage", \h50, 2>>, <<"dc_output_current", \h52, 2>>})

JupiterBatteryPackData ==
    Repeated("packs", 4, \h14, \h7A, 8, {
        <<"highest_cell_index", 0, 1>>, <<"lowest_cell_index", 1, 1>>,
        <<"highest_cell_voltage", 2, 2>>, <<"lowest_cell_voltage", 4, 2>>, <<"status", 6, 2>>})

JupiterBatteryData ==
    In("battery", \h14, 0, {
        <<"base_voltage", \h54, 2>>, <<"pe_voltage", \h56, 2>>, <<"charge_voltage_limit", \h58, 2>>,
        <<"charge_current_limit", \h5A, 2>>, <<"discharge_current_limit", \h5C, 2>>,
        <<"soh", \h60, 2>>, <<"rated_capacity", \h62, 2>>, <<"voltage", \h66, 2>>,
        <<"current", \h68, 2>>, <<"temperature", \h6A, 2>>, <<"error_code_1", \h6C, 2>>,
        <<"warning_code_1", \h6E, 2>>, <<"error_code_2", \h70, 2>>, <<"warning_code_2", \h72, 2>>,
        <<"cell_flags", \h74, 1>>, <<"status_flags", \h75, 1>>, <<"pack_count", \h76, 2>>,
        <<"temp_sensor_1", \h9A, 2>>, <<"temp_sensor_2", \h9C, 2>>, <<"temp_sensor_3", \h9E, 2>>,
        <<"temp_sensor_4", \hA0, 2>>, <<"environment_temperature", \hA2, 2>>,
        <<"mosfet_temperature", \hA4, 2>>})

JupiterEventRecord ==
    Repeated("events", 20, \h13, 0, 8, {
        <<"summary", 0, 8>>, <<"year", 0, 2>>, <<"month", 2, 1>>, <<"day", 3, 1>>,
        <<"hour", 4, 1>>, <<"minute", 5, 1>>, <<"event_code", 6, 2>>, <<"event_value", 6, 1>>,
        <<"event_state", 7, 1>>})

JupiterRawStatusData ==
    In("raw_status", \h21, 0, {<<"status_21", 0, 1>>})
    \cup In("raw_status", \h22, 0, {<<"status_22", 0, 1>>})
    \cup In("raw_status", \h24, 0, {<<"status_24", 0, 1>>})

JupiterSources ==
    JupiterPvInputData \cup JupiterRuntimeData \cup JupiterEnergyData \cup JupiterInverterData
    \cup JupiterMpptData \cup JupiterBatteryPackData \cup JupiterBatteryData
    \cup JupiterEventRecord \cup JupiterRawStatusData

JupiterIdentity == {<<"identity", 0, n>> : n \in {"device_type", "device_id", "mac_address"}}

JupiterVersions ==
    {<<"runtime", 0, n>> : n \in {"ems_firmware_version", "inverter_firmware_version",
                                  "mppt_firmware_version", "bms_firmware_version"}}

JupiterTexts ==
    {<<\h04, f>> : f \in JupiterIdentity \cup JupiterVersions}
    \cup {<<\h08, <<"identity", 0, "wifi_ssid">>>>}

JupiterPolled == {\h03, \h14, \h0D, \h08, \h04, \h13}

JupiterUnseen ==
    {s.field : s \in JupiterRawStatusData}
    \cup {s.field : s \in {t \in JupiterEventRecord : t.field[3] # "summary"}}
    \cup {<<"runtime", 0, "ac_output_active">>, <<"inverter", 0, "grid_current">>}

JupiterDerived == {{<<"battery", 0, "voltage">>, <<"battery", 0, "current">>}}

-----------------------------------------------------------------------------
(* MarstekProtocol of marstek_device.py: <<name, first byte, size>> for a payload length. *)

LegacyRuntimeInfo(n) ==
    {<<"wifi_connected", 15, 1>>, <<"mqtt_connected", 15, 1>>, <<"out1_active", 16, 1>>,
     <<"out1_power", 20, 2>>, <<"extern1_connected", 28, 1>>}
    \cup (IF n >= 60 THEN {<<"temp_low", 33, 2>>, <<"temp_high", 35, 2>>} ELSE {})
    \cup (IF n >= 100
          THEN {<<"grid_power", 0, 2>>, <<"solar_power", 2, 2>>, <<"work_mode", 4, 1>>,
                <<"product_code", 12, 2>>, <<"daily_energy_charged", 14, 4>>,
                <<"monthly_energy_charged", 18, 4>>, <<"daily_energy_discharged", 22, 4>>,
                <<"monthly_energy_discharged", 26, 4>>, <<"total_energy_charged", 41, 4>>,
                <<"total_energy_discharged", 45, 4>>, <<"power_rating", 74, 2>>}
          ELSE {})

LegacyBmsData ==
    {<<"bms_version", 0, 2>>, <<"voltage_limit", 2, 2>>, <<"charge_current_limit", 4, 2>>,
     <<"discharge_current_limit", 6, 2>>, <<"battery_soc", 8, 2>>, <<"battery_soh", 10, 2>>,
     <<"design_capacity", 12, 2>>, <<"battery_voltage", 14, 2>>, <<"battery_current", 16, 2>>,
     <<"battery_temp", 18, 2>>, <<"error_code", 26, 2>>, <<"warning_code", 28, 4>>,
     <<"runtime_hours", 32, 4>>, <<"mosfet_temp", 38, 2>>, <<"temp_sensor_1", 40, 2>>,
     <<"temp_sensor_2", 42, 2>>, <<"temp_sensor_3", 44, 2>>, <<"temp_sensor_4", 46, 2>>,
     <<"cell_voltages", 48, 32>>}

LegacySystemData ==
    {<<"system_status", 0, 1>>, <<"system_value_1", 1, 2>>, <<"system_value_2", 3, 2>>,
     <<"system_value_3", 5, 2>>, <<"system_value_4", 7, 2>>, <<"system_value_5", 9, 2>>}

LegacyTimerInfo ==
    {<<"adaptive_mode_enabled", 0, 1>>, <<"smart_meter_connected", 37, 1>>,
     <<"adaptive_power_out", 38, 2>>}

LegacyConfigData ==
    {<<"config_mode", 0, 1>>, <<"config_status", 4, 1>>, <<"config_value", 16, 1>>}

LegacyCtPollingRate == {<<"ct_polling_rate", 0, 1>>}

(* The length below which a parser of MarstekProtocol returns False; the dispatch on cmd. *)
LegacyLeast ==
    {<<\h03, 37>>, <<\h04, 1>>, <<\h08, 0>>, <<\h0D, 11>>, <<\h13, 45>>, <<\h14, 80>>, <<\h1A, 17>>,
     <<\h21, 1>>, <<\h22, 1>>, <<\h24, 0>>, <<\h28, 3>>}

LegacySlices(command, n) ==
    CASE command = \h03 -> LegacyRuntimeInfo(n)
      [] command = \h0D -> LegacySystemData
      [] command = \h13 -> LegacyTimerInfo
      [] command = \h14 -> LegacyBmsData
      [] command = \h1A -> LegacyConfigData
      [] command = \h22 -> LegacyCtPollingRate
      [] OTHER -> {}
=============================================================================
