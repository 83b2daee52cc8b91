------------------------------ MODULE MCPlugins -----------------------------
(* Instances of PluginLine: every plugin, on a line with two units. *)
EXTENDS PluginLine

MCUnit == [dev |-> 1, reg |-> 1, full |-> TRUE]
MCSameDev == [dev |-> 1, reg |-> 2, full |-> TRUE]
MCOtherDev == [dev |-> 2, reg |-> 1, full |-> TRUE]

AllModbus == GatewayPlugins \cup CurtainPlugins \cup
  {"Broan", "DTouch", "ERDH", "ERDH45", "noah", "Dpurat", "TuoLi", "BROAN", "Honeywell", "Panel", "AQI",
   "SPTC", "Purifier"}
MCPlugins == AllModbus \cup KnxPluginNames

Range2(dpid, S) == {[dpid |-> dpid, v |-> v] : v \in S}

\* Room temperatures: the ends of the documented ranges, and around zero
MCRoomTemps == {-20, -5, 0, 21, 50, 80}

\* The commands of the first unit: every value of an enumeration, the ends of
\* a temperature.
FullCommands(p) ==
  CASE p \in {"ZhongHong"} \cup (KnxAcdPlugins \ {"KnxWater"}) ->
         Range2(1, 0..1) \cup Range2(2, {16, 30}) \cup Range2(4, 0..3) \cup Range2(5, 0..3)
    [] p = "DaikinAcd" -> Range2(1, 0..1) \cup Range2(2, {30}) \cup Range2(4, 0..4) \cup Range2(5, 0..5)
    [] p = "TG" -> Range2(1, {1}) \cup Range2(2, {16}) \cup Range2(4, {1}) \cup Range2(5, {1})
    [] p = "KnxWater" -> Range2(1, 0..1) \cup Range2(2, {16, 30}) \cup Range2(4, 0..1) \cup Range2(5, 0..2)
    [] p \in {"ERDH", "ERDH45"} -> Range2(8, {30, 90}) \cup Range2(22, 0..1) \cup Range2(28, 0..1)
                                     \cup Range2(39, 0..1) \cup Range2(101, 0..1)
    [] p = "DTouch" -> Range2(28, 0..1) \cup Range2(39, 0..1) \cup Range2(101, 0..1)
    [] p \in {"Broan", "noah"} -> Range2(28, 1..3) \cup Range2(39, 0..1)
    [] p \in {"Dpurat", "TuoLi"} -> Range2(101, 1..3) \cup Range2(39, 0..1)
    [] p = "BROAN" -> Range2(28, 1..3) \cup Range2(39, 0..1)
    [] p = "DaikinVent" \/ p \in KnxVentPlugins -> Range2(28, 0..1) \cup Range2(39, 0..1)
    [] p \in {"Honeywell", "TOWWIRE", "KnxSdkHeat", "KnxHeatPanel"} -> Range2(1, 0..1) \cup Range2(2, {16, 30})
    [] p = "KnxStecHeat" -> Range2(1, 0..1) \cup Range2(2, {160, 235, 300})
    [] p \in CurtainPlugins -> Range2(1, 0..2)
    [] p = "Panel" -> Range2(1, 0..1)
    [] p = "SPTC" -> Range2(101, 0..1) \cup Range2(102, {40, 60})
    [] p = "Purifier" -> Range2(104, {1})
    [] OTHER -> {}

\* The other unit is only switched on, and then polled.
MCCommands(p, u) ==
  IF u = MCUnit THEN FullCommands(p) ELSE {o \in FullCommands(p) : o.v = 1 /\ o.dpid \in {1, 39, 101}}
=============================================================================
