----------------------------- MODULE ConfigKnx -----------------------------
(***************************************************************************)
(* The parsers of the KNX sections, of the inputs, outputs and scenes, and *)
(* of the gateway itself.  The sections with carry TRUE declare            *)
(* pPrimaryKey and pForeignKey outside the loop over the cells.            *)
(***************************************************************************)
EXTENDS ConfigRules

Cell(type, elements, foreign, carry) ==
  [type |-> type, keyType |-> type, elements |-> elements, copies |-> {}, keys |-> <<>>,
   foreign |-> foreign, carry |-> carry]

Actuator == ProductID({"attri"})
KnxBase(foreign, type) ==
  <<Text("SharedLibrary", "skip"), Actuator, Text("PhyAddr", "skip"), Text("PrimaryKey", "skip"),
    ForeignKey(foreign), ForeignType(type), Letter("Feedback"), Letter("OnlineCheck"), DeviceAttr>>

-----------------------------------------------------------------------------
(* Air condition, ventilation, floor heating *)
KnxAcd_base == KnxBase("spin", "exit")
KnxAcd_switch == <<Pair("Switch"), Pair("Speed")>>
KnxAcd_mode == <<Pair("Mode"), Pair("Temp")>>
KnxAcd_sensors == <<Sensor("EnvTemp", "Temp"), Sensor("Fault", "Ctrl")>>
ParseKnxAcdCfg ==
  Cell("KNX_DEVICE_AIRCONDITION", KnxAcd_base \o KnxAcd_switch \o KnxAcd_mode \o KnxAcd_sensors,
       "master", FALSE)

\* the sensors of a ventilation live without a data point, but not without
\* an address or with a data point above 200
KnxVent_base == KnxBase("skip", "exit")
KnxVent_pairs == <<Pair("Switch"), Pair("Speed")>>
KnxVent_sensors ==
  <<Group("EnvTemp", <<Checked("Temp", "exit", "exit"),
                       Leaf("DataPoint", {"DataPoint"}, [empty |-> "crash", nested |-> "exit",
                                                         huge |-> "exit", bad |-> "garble"])>>, {"Temp"}),
    Group("Fault", <<Checked("Ctrl", "skip", "skip"),
                     Leaf("DataPoint", {"DataPoint"}, [empty |-> "crash", nested |-> "skip",
                                                       huge |-> "garble", bad |-> "garble"])>>, {"Ctrl"})>>
ParseKnxVentCfg ==
  Cell("KNX_DEVICE_VENTILATION", KnxVent_base \o KnxVent_pairs \o KnxVent_sensors, "master", FALSE)

KnxHeat_base == KnxBase("skip", "crash")
KnxHeat_pairs == <<Pair("Switch"), Pair("Temp")>>
KnxHeat_sensors == <<Sensor("Valve", "Status"), Sensor("EnvTemp", "Temp"), Sensor("Fault", "Ctrl")>>
ParseKnxHeatCfg ==
  Cell("KNX_DEVICE_FLOORHEATING", KnxHeat_base \o KnxHeat_pairs \o KnxHeat_sensors, "master", FALSE)

-----------------------------------------------------------------------------
(* Panels and dimmers: the channels are appended to the device, and their  *)
(* number makes its type.                                                  *)
Writes(e, fields) == Leaf(e, fields, [empty |-> "crash", nested |-> "skip"])
CarriedKeys == <<GivenKey, ForeignKey("spin"), ForeignType("exit"), Letter("OnlineCheck")>>

PanelChannel ==
  <<Attribute("mode", "none"), Writes("Switch", {"Switch", "feature"}),
    Writes("Status", {"Status", "feature"}), Num("DataPoint", "skip", "garble")>>
KnxPanel_base ==
  <<Text("SharedLibrary", "skip"), Actuator, Text("PhyAddr", "skip")>> \o CarriedKeys \o <<DeviceAttr>>
ParseKnxPanelCfg ==
  Cell("KNX_PANEL_ONE_KEY",
       KnxPanel_base \o <<Channel("channel1", PanelChannel, "if filled"),
                          Channel("channel2", PanelChannel, "if filled")>>, "master", TRUE)

SmartSwitch ==
  <<Writes("switch.Ctrl", {"switch.Ctrl", "feature"}), Writes("switch.Status", {"switch.Status", "feature"}),
    Num("switch.DataPoint", "skip", "garble")>>
SmartScene ==
  <<Text("scene.addr", "skip"), Num("scene.value", "skip", "exit"), Num("scene.DataPoint", "skip", "exit")>>
SmartMode == <<Checked("mode.select", "skip", "exit"), Num("mode.DataPoint", "skip", "exit")>>
SmartChannel(e) == Channel(e, SmartSwitch \o SmartScene \o SmartMode, "always")
KnxSmartPanel_base == <<Actuator, Text("PhyAddr", "skip")>> \o CarriedKeys \o <<DeviceAttr>>
ParseKnxSmartPanelCfg ==
  Cell("KNX_MISC_PANEL_ONE_KEY",
       KnxSmartPanel_base \o <<SmartChannel("channel1"), SmartChannel("channel2")>>, "master", TRUE)

DimmerSwitch ==
  <<Attribute("mode", "none"), Writes("Switch.Ctrl", {"Switch.Ctrl", "feature"}),
    Writes("Switch.Status", {"Switch.Status", "feature"}), Num("Switch.DataPoint", "skip", "exit")>>
DimmerBrightness ==
  <<Attribute("max", "exit"), Attribute("min", "garble"), Attribute("step", "exit"), Attribute("scaling", "exit"),
    Writes("Brightness.Ctrl", {"Brightness.Ctrl", "brightFeature"}),
    Writes("Brightness.Status", {"Brightness.Status", "brightFeature"}),
    Num("Brightness.DataPoint", "skip", "exit")>>
DimmerChannel(e) == Channel(e, DimmerSwitch \o DimmerBrightness, "always")
KnxDimmer_base == <<Text("SharedLibrary", "skip"), Actuator, Text("PhyAddr", "skip")>> \o CarriedKeys
ParseKnxDimmerCfg ==
  Cell("KNX_DIMMER_ONE_KEY", KnxDimmer_base \o <<DimmerChannel("channel1"), DimmerChannel("channel2")>>,
       "master", TRUE)

-----------------------------------------------------------------------------
(* Curtain: the foreign key is written at once *)
CurtainGroup(e, kids) == [Group(e, kids \o <<Num("DataPoint", "exit", "exit")>>, {}) EXCEPT !.bare = "exit"]
KnxCurtain_base ==
  <<Actuator, Text("PrimaryKey", "spin"), Text("ForeignKey", "spin"), ForeignType("exit"), Letter("OnlineCheck")>>
KnxCurtain_points ==
  <<CurtainGroup("control", <<Text("open", "exit"), Text("close", "exit")>>),
    CurtainGroup("pause", <<Text("pause", "exit")>>)>>
ParseKnxCurtainCfg == Cell("KNX_DEVICE_CURTAIN", KnxCurtain_base \o KnxCurtain_points, "none", FALSE)

(* Digital inputs and outputs, scenes *)
DioBase == <<Text("UUID", "skip"), Text("AUTHKEY", "skip"), ProductID({}), GivenKey,
             ForeignKey("spin"), ForeignType("exit")>>
DioEnd == <<Num("Channel", "skip", "garble"), Num("DataPoint", "skip", "garble")>>
ParseDiCfg == Cell("DI", DioBase \o <<Checked("Trigger", "exit", "skip")>> \o DioEnd, "master", TRUE)
ParseDoCfg == Cell("DO", DioBase \o <<Checked("Output", "skip", "skip")>> \o DioEnd, "master", TRUE)

ParseKnxSceneCfg ==
  Cell("scene", <<Num("id", "skip", "garble"), Text("addr", "skip"), Num("value", "skip", "garble"),
                  Text("name", "skip")>>, "none", FALSE)

(* Zigbee devices and the gateway, whose fault point is written over its   *)
(* reset point                                                             *)
ParseZ3Cfg ==
  Cell("Z3", <<Text("SharedLibrary", "skip"), Text("UUID", "skip"), Text("AuthKey", "skip"),
               Text("ProductID", "skip")>>, "none", FALSE)
ParseDeviceElement ==
  Cell("gateway", <<Text("UUID", "skip"), Text("AuthKey", "skip"), Text("ProductID", "skip")>>, "none", FALSE)
ParseGatewayCfg ==
  Cell("gateway",
       <<Text("ProductID", "skip"), Num("state", "skip", "garble"), Num("reset", "skip", "garble"),
         Num("alarm", "skip", "garble"), Num("scene", "skip", "exit"),
         Leaf("fault", {"reset"}, [empty |-> "crash", nested |-> "skip", huge |-> "garble"]),
         Num("pos", "skip", "exit")>>, "none", FALSE)

\* The switches of the Zigbee module and of the acknowledgement on the bus are
\* attributes; another text leaves them as they are.
Switchable(e) == Leaf(e, {e}, [bad |-> "skip"])
ParseZigbeeCfg == Cell("Zigbee", <<Switchable("module")>>, "none", FALSE)
ParseKnxCfg == Cell("KNX", <<Switchable("autoAck")>>, "none", FALSE)

-----------------------------------------------------------------------------
KnxSections ==
  [KnxAcd |-> ParseKnxAcdCfg, KnxVent |-> ParseKnxVentCfg, KnxHeat |-> ParseKnxHeatCfg,
   KnxPanel |-> ParseKnxPanelCfg, KnxSmartPanel |-> ParseKnxSmartPanelCfg, KnxDimmer |-> ParseKnxDimmerCfg,
   KnxCurtain |-> ParseKnxCurtainCfg, DI |-> ParseDiCfg, DO |-> ParseDoCfg, Scene |-> ParseKnxSceneCfg,
   Z3 |-> ParseZ3Cfg, Zigbee |-> ParseZigbeeCfg, KNX |-> ParseKnxCfg,
   Gateway |-> ParseGatewayCfg, GatewayElement |-> ParseDeviceElement]
=============================================================================
