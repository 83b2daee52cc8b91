----------------------------- MODULE ConfigMbus -----------------------------
(***************************************************************************)
(* The parsers of the Modbus sections of the configuration.  A cell of the *)
(* sections with an Item describes a template: each cell of its Item lists *)
(* a copy of the template with keys of its own.  The copies hold the       *)
(* serial parameters, and the points named by X_copies.                    *)
(***************************************************************************)
EXTENDS ConfigRules

\* The setters of a serial line refuse what the line cannot do: a rate outside
\* 2400..115200, other than 5..8 data bits, an unknown parity, other than one or
\* two stop bits.
SetBaudrate == Serial("Baudrate")
SetDatabits == Serial("Databit")
SetParity == Checked("Parity", "skip", "exit")
SetStopbits == Serial("Stopbit")

\* DeviceAddr ... Delay: the same branches in every section
SerialElements ==
  <<Num("DeviceAddr", "skip", "exit"), Serial("Port"), SetBaudrate, SetDatabits, SetParity, SetStopbits,
    Letter("Feedback"), Letter("OnlineCheck"), Letter("FullDuplex"), Num("Delay", "skip", "exit")>>

\* The element whose children are the cells with the keys: they make the
\* copies at the end of the cell, and then the template is freed.
Item == Leaf("Item", {"Item"}, [empty |-> "skip"])

\* keys of a cell that describes one device: <PrimaryKey> <ForeignKey> <ForeignType>
CellKeys == <<Text("PrimaryKey", "skip"), ForeignKey("spin"), ForeignType("exit")>>
\* keys of a cell of an Item, which also has the attribute group and a RoomNo
ItemKeys(primary, type) ==
  <<Attribute("group", "none"), Text("PrimaryKey", primary), ForeignKey("spin"),
    ForeignType(type), Num("RoomNo", "spin", "exit")>>

Template(type, keyType, elements, points, copies, keys) ==
  [type |-> type, keyType |-> keyType, elements |-> elements \o points,
   copies |-> copies, keys |-> keys, foreign |-> "typed", carry |-> FALSE]
Single(type, elements, points) ==
  [type |-> type, keyType |-> type, elements |-> elements \o points,
   copies |-> {}, keys |-> <<>>, foreign |-> "typed", carry |-> FALSE]

-----------------------------------------------------------------------------
(* Air condition *)
MbusAcd_base == <<Text("SharedLibrary", "exit"), ProductID({})>> \o SerialElements
MbusAcd_points ==
  <<Point("Switch", "ACD_SWITCH", "exit"), Point("Speed", "ACD_SPEED", "exit"),
    Point("Mode", "ACD_MODE", "exit"), Point("Temp", "ACD_TEMP", "exit")>>
MbusAcd_sensors ==
  <<Point("EnvTemp", "ACD_ENV_TEMP", "skip"), Point("Fault", "ACD_ERROR_CODE", "skip"), Item>>
\* (fault) the copy of the set temperature is forgotten
FaultMbusAcd_copies == {"Switch", "Speed", "Mode", "EnvTemp", "Fault"}
MbusAcd_copies == {"Switch", "Speed", "Mode", "Temp", "EnvTemp", "Fault"}
MbusAcd_keys == ItemKeys("exit", "crash")
ParseMbusAcdCfg ==
  Template("MODBUS_DEVICE_AIRCONDITION", "MODBUS_DEVICE_AIRCONDITION", MbusAcd_base,
           MbusAcd_points \o MbusAcd_sensors, MbusAcd_copies, MbusAcd_keys)

(* Ventilation: the log lines of the last five points read pSpeed *)
MbusVent_base == <<Text("SharedLibrary", "skip"), ProductID({})>> \o SerialElements
MbusVent_points ==
  <<Point("Switch", "VENT_SWITCH", "skip"), Point("Speed", "VENT_SPEED", "skip"),
    PointLogging("Humi", "VENT_HUMI", "skip", "Speed"),
    PointLogging("Mode", "VENT_MODE", "skip", "Speed")>>
MbusVent_sensors ==
  <<PointLogging("Valve", "VENT_VALVE", "skip", "Speed"),
    PointLogging("EnvHumi", "VENT_ENV_HUMI", "skip", "Speed"),
    PointLogging("Fault", "FREATURE_FAULT", "skip", "Speed"), Item>>
MbusVent_copies == {"Switch", "Speed", "Fault"}
MbusVent_keys == ItemKeys("exit", "exit")
ParseMbusVentCfg ==
  Template("MODBUS_DEVICE_VENTILATION", "MODBUS_DEVICE_VENTILATION", MbusVent_base,
           MbusVent_points \o MbusVent_sensors, MbusVent_copies, MbusVent_keys)

(* Floor heating: Fault has the local point of EnvTemp, and its log reads it *)
MbusHeat_base == <<Text("SharedLibrary", "skip"), ProductID({})>> \o SerialElements
MbusHeat_points ==
  <<Point("Switch", "HEAT_SWITCH", "skip"), Point("Temp", "HEAT_TEMP", "skip"),
    Point("EnvTemp", "HEAT_ENV_TEMP", "skip"),
    PointLogging("Fault", "HEAT_ENV_TEMP", "skip", "EnvTemp"), Item>>
MbusHeat_copies == {"Switch", "Temp", "EnvTemp"}
MbusHeat_keys == ItemKeys("skip", "exit")
ParseMbusHeatCfg ==
  Template("MODBUS_DEVICE_FLOORHEATING", "MODBUS_DEVICE_FLOORHEATING", MbusHeat_base,
           MbusHeat_points, MbusHeat_copies, MbusHeat_keys)

(* Air quality; the keys give the copy the type of a floor heating *)
MbusAqi_base == <<Text("SharedLibrary", "skip"), ProductID({})>> \o SerialElements
MbusAqi_points ==
  <<Point("Humi", "AQI_HUMI", "skip"), Point("Temp", "AQI_TEMP", "skip"),
    Point("PM25", "AQI_PM25", "skip"), Point("CO2", "AQI_CO2", "skip"), Item>>
MbusAqi_copies == {"Humi", "Temp", "PM25", "CO2"}
MbusAqi_keys == Tail(ItemKeys("skip", "exit"))
ParseMbusAqiCfg ==
  Template("MODBUS_DEVICE_AQI", "MODBUS_DEVICE_FLOORHEATING", MbusAqi_base,
           MbusAqi_points, MbusAqi_copies, MbusAqi_keys)

(* Panel; the keys give the copy the type of a ventilation *)
MbusPanel_base == <<Text("SharedLibrary", "skip"), ProductID({})>> \o SerialElements
MbusPanel_points == <<Point("Switch", "PANEL_SWITCH", "skip"), Item>>
MbusPanel_copies == {"Switch"}
MbusPanel_keys == Tail(ItemKeys("skip", "exit"))
ParseMbusPanelCfg ==
  Template("MODBUS_DEVICE_PANNEL", "MODBUS_DEVICE_VENTILATION", MbusPanel_base,
           MbusPanel_points, MbusPanel_copies, MbusPanel_keys)

(* Humidifier, purifier and curtain: a cell is a device *)
Humidifier_base == <<Text("SharedLibrary", "skip"), ProductID({})>> \o CellKeys \o SerialElements
Humidifier_points ==
  <<Point("Switch", "HUMIDIFIER_SWITCH", "skip"), Point("Humidity", "HUMIDIFIER_HUMIDITY_SET", "skip")>>
ParseModbusHumidifierCfg == Single("MODBUS_DEVICE_HUMIDIFIER", Humidifier_base, Humidifier_points)

Purifier_base == <<Text("SharedLibrary", "skip"), ProductID({})>> \o CellKeys \o SerialElements
Purifier_points ==
  <<Point("Flow", "PURIFIER_FLOW", "skip"), Point("TDS", "PURIFIER_TDS", "skip"),
    Point("FilterTime", "PURIFIER_PP_FILTER_TIME", "skip"), Point("Reset", "PURIFIER_RESET", "skip")>>
ParseModbusPurifierCfg == Single("MODBUS_DEVICE_PURIFIER", Purifier_base, Purifier_points)

MbusCurtain_base == <<Text("SharedLibrary", "skip"), ProductID({})>> \o CellKeys \o SerialElements
MbusCurtain_points ==
  <<Point("Switch", "CURTAIN_SWITCH", "skip"), Point("Fault", "FREATURE_FAULT", "skip"),
    Point("Direction", "CURTAIN_DIRECTION", "skip"), Point("Position", "FEATURE_POS", "skip")>>
ParseMbusCurtainCfg == Single("MODBUS_DEVICE_CURTAIN", MbusCurtain_base, MbusCurtain_points)

-----------------------------------------------------------------------------
MbusSections ==
  [MbusAcd |-> ParseMbusAcdCfg, MbusVent |-> ParseMbusVentCfg, MbusHeat |-> ParseMbusHeatCfg,
   MbusAqi |-> ParseMbusAqiCfg, MbusPanel |-> ParseMbusPanelCfg,
   Humidifier |-> ParseModbusHumidifierCfg, Purifier |-> ParseModbusPurifierCfg,
   MbusCurtain |-> ParseMbusCurtainCfg]
=============================================================================
