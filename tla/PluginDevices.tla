--------------------------- MODULE PluginDevices ----------------------------
(***************************************************************************)
(* The plugins by name, as MbusIf and KnxIf give them to the gateway        *)
(* (build, parse, control, report), and the devices behind them, modelled   *)
(* from the frames the plugins write and expect.                            *)
(***************************************************************************)
EXTENDS MbusAcdPlugins, MbusVentPlugins, MbusMiscPlugins, KnxPlugins

GatewayPlugins == {"ZhongHong", "DaikinAcd", "TG", "DaikinVent", "TOWWIRE"}
CurtainPlugins == {"AOK", "BinThen", "Changming", "HeChuang", "Dooya"}
CheckingPlugins == {"TOWWIRE", "SPTC", "BROAN", "Purifier"}
KnxAcdPlugins == {"KnxGeneral", "KnxAcdPanel", "KnxStec", "KnxSdk", "KnxWater"}
KnxHeatPlugins == {"KnxStecHeat", "KnxSdkHeat", "KnxHeatPanel"}
KnxVentPlugins == {"KnxStecVent", "KnxSdkVent", "KnxVentPanel"}
KnxPluginNames == KnxAcdPlugins \cup KnxHeatPlugins \cup KnxVentPlugins

(* ------------------------------ The plugins ----------------------------- *)
\* What a plugin's static data is before it is used.
CacheOf(p, regs) ==
  CASE p = "DaikinAcd"  -> [r \in regs |-> DaikinBlank]
    [] p = "TG"         -> [r \in regs |-> TgBlank]
    [] p = "DaikinVent" -> [r \in regs |-> DkVentBlank]
    [] p = "Broan"      -> BroanBlank
    [] p = "ERDH"       -> ERDHBlank
    [] OTHER            -> 0

\* The cloud's data points and the local points they stand for.
PointOf(p, dpid) ==
  CASE p \in {"ZhongHong", "DaikinAcd", "TG"} \cup KnxAcdPlugins ->
         (1 :> "ACD_SWITCH" @@ 2 :> "ACD_TEMP" @@ 4 :> "ACD_MODE" @@ 5 :> "ACD_SPEED")[dpid]
    [] p \in {"ERDH", "ERDH45", "DTouch"} ->
         (8 :> "VENT_HUMI" @@ 22 :> "VENT_VALVE" @@ 28 :> "VENT_SPEED" @@ 39 :> "VENT_SWITCH"
            @@ 101 :> "VENT_MODE")[dpid]
    [] p \in {"Broan", "noah", "DaikinVent", "Dpurat", "TuoLi", "BROAN"} \cup KnxVentPlugins ->
         IF dpid = 39 THEN "VENT_SWITCH" ELSE "VENT_SPEED"
    [] p \in {"Honeywell", "TOWWIRE"} \cup KnxHeatPlugins ->
         IF dpid = 1 THEN "HEAT_SWITCH" ELSE "HEAT_TEMP"
    [] p \in CurtainPlugins -> "CURTAIN_SWITCH"
    [] p = "Panel" -> "PANEL_SWITCH"
    [] p = "SPTC" -> IF dpid = 101 THEN "HUMIDIFIER_SWITCH" ELSE "HUMIDIFIER_HUMIDITY_SET"
    [] OTHER -> "PURIFIER_RESET"

KnxControl(p, pt, v) ==
  CASE p = "KnxGeneral"   -> General_control(0, pt, v)
    [] p = "KnxAcdPanel"  -> AcdPanel_control(0, pt, v)
    [] p = "KnxStec"      -> Stec_control(0, pt, v)
    [] p = "KnxSdk"       -> Sdk_control(0, pt, v)
    [] p = "KnxWater"     -> Water_control(0, pt, v)
    [] p = "KnxStecHeat"  -> StecHeat_control(0, pt, v)
    [] p = "KnxSdkHeat"   -> SdkHeat_control(0, pt, v)
    [] p = "KnxHeatPanel" -> HeatPanel_control(0, pt, v)
    [] p = "KnxStecVent"  -> StecVent_control(0, pt, v)
    [] p = "KnxSdkVent"   -> SdkVent_control(0, pt, v)
    [] OTHER              -> VentPanel_control(0, pt, v)

KnxReport(p, pt, raw) ==
  CASE p = "KnxGeneral"   -> General_report(0, pt, raw)
    [] p = "KnxAcdPanel"  -> AcdPanel_report(0, pt, raw)
    [] p = "KnxStec"      -> Stec_report(0, pt, raw)
    [] p = "KnxSdk"       -> Sdk_report(0, pt, raw)
    [] p = "KnxWater"     -> Water_report(0, pt, raw)
    [] p = "KnxStecHeat"  -> StecHeat_report(0, pt, raw)
    [] p = "KnxSdkHeat"   -> SdkHeat_report(0, pt, raw)
    [] p = "KnxHeatPanel" -> HeatPanel_report(0, pt, raw)
    [] p = "KnxStecVent"  -> StecVent_report(0, pt, raw)
    [] p = "KnxSdkVent"   -> SdkVent_report(0, pt, raw)
    [] OTHER              -> VentPanel_report(0, pt, raw)

\* The status a KNX device is asked for in a heartbeat.
KnxPollPoint(p) ==
  CASE p \in KnxAcdPlugins -> "ACD_SWITCH" [] p \in KnxHeatPlugins -> "HEAT_SWITCH" [] OTHER -> "VENT_SWITCH"

\* build: the frame for a command or, with Poll, for a heartbeat.  A KNX
\* telegram is the group object and its raw value.
Build(p, c, u, o) ==
  CASE p = "ZhongHong"  -> ZhongHong_build(u, o)
    [] p = "DaikinAcd"  -> DaikinAcd_build(c, u, u.reg, o)
    [] p = "TG"         -> TG_build(c, u, u.reg, o)
    [] p = "Broan"      -> Broan_build(c, u, o)
    [] p = "DTouch"     -> DTouch_build(u, o)
    [] p = "ERDH"       -> ERDH_build(u, o)
    [] p = "ERDH45"     -> ERDH45_build(u, o)
    [] p = "noah"       -> Noah_build(u, o)
    [] p = "DaikinVent" -> DaikinVent_build(c, u, u.reg, o)
    [] p = "Dpurat"     -> Dpurat_build(u, o)
    [] p = "TuoLi"      -> TuoLi_build(u, o)
    [] p = "BROAN"      -> BROAN_build(u, o)
    [] p = "AOK"        -> AOK_build(u, o)
    [] p = "BinThen"    -> BinThen_build(u, o)
    [] p = "Changming"  -> Changming_build(u, o)
    [] p = "HeChuang"   -> HeChuang_build(u, o)
    [] p = "Dooya"      -> Dooya_build(u, o)
    [] p = "Honeywell"  -> Honeywell_build(u, o)
    [] p = "TOWWIRE"    -> TOWWIRE_build(u, o)
    [] p = "Panel"      -> Panel_build(u, o)
    [] p = "AQI"        -> AQI_build(u, o)
    [] p = "SPTC"       -> SPTC_build(c, u, o)
    [] p = "Purifier"   -> Purifier_build(u, o)
    [] OTHER            -> IF o = Poll THEN <<"READ", KnxPollPoint(p)>>
                           ELSE <<PointOf(p, o.dpid), KnxControl(p, PointOf(p, o.dpid), o.v)>>

\* The static data after build.
Sent(p, c, u, o) ==
  CASE p = "DaikinAcd" -> DaikinAcd_sent(c, u.reg, o)
    [] p = "Broan"     -> Broan_sent(c, u, o)
    [] p = "SPTC"      -> SPTC_sent(c, o)
    [] OTHER           -> c

\* parse: the static data and the objects.  b.f is all that was read.
Received(p, c, u, b) ==
  CASE p = "DaikinAcd"  -> LET pos == DaikinAcd_find(u, b.f) IN IF pos = NoFrame THEN c ELSE DaikinAcd_received(c, u, pos)
    [] p = "TG"         -> LET pos == TG_find(u, b.f) IN IF pos = NoFrame THEN c ELSE TG_received(c, u, pos)
    [] p = "Broan"      -> LET pos == Broan_find(u, b.f) IN IF pos = NoFrame THEN c ELSE Broan_received(c, pos)
    [] p = "ERDH"       -> LET pos == ERDH_find(u, b.f) IN IF pos = NoFrame THEN c ELSE ERDH_received(c, pos)
    [] p = "DaikinVent" -> LET pos == DaikinVent_find(u, b.f) IN IF pos = NoFrame THEN c ELSE DaikinVent_received(c, u, pos)
    [] OTHER            -> c

\* c is the static data after Received.
Objs(p, c, u, b) ==
  CASE p = "ZhongHong"  -> ZhongHong_parse(u, b.f)
    [] p = "DaikinAcd"  -> LET pos == DaikinAcd_find(u, b.f) IN IF pos = NoFrame THEN NoObjs ELSE DaikinAcd_objs(c, u, pos)
    [] p = "TG"         -> LET pos == TG_find(u, b.f) IN IF pos = NoFrame THEN NoObjs ELSE TG_objs(pos)
    [] p = "Broan"      -> LET pos == Broan_find(u, b.f) IN IF pos = NoFrame THEN NoObjs ELSE Broan_objs(c, pos)
    [] p = "DTouch"     -> DTouch_parse(u, b.f)
    [] p = "ERDH"       -> LET pos == ERDH_find(u, b.f) IN IF pos = NoFrame THEN NoObjs ELSE ERDH_objs(c)
    [] p = "ERDH45"     -> ERDH45_parse(u, b.f)
    [] p = "noah"       -> Noah_parse(u, b.f)
    [] p = "DaikinVent" -> LET pos == DaikinVent_find(u, b.f) IN IF pos = NoFrame THEN NoObjs ELSE DaikinVent_objs(c, u, pos)
    [] p = "Dpurat"     -> Dpurat_parse(u, b.f)
    [] p = "TuoLi"      -> TuoLi_parse(u, b.f)
    [] p = "BROAN"      -> BROAN_parse(u, b)
    [] p = "AOK"        -> AOK_parse(u, b.f)
    [] p = "BinThen"    -> BinThen_parse(u, b.f)
    [] p = "Changming"  -> Changming_parse(u, b.f)
    [] p = "HeChuang"   -> HeChuang_parse(u, b.f)
    [] p = "Dooya"      -> Dooya_parse(u, b.f)
    [] p = "Honeywell"  -> Honeywell_parse(u, b.f)
    [] p = "TOWWIRE"    -> TOWWIRE_parse(u, b)
    [] p = "Panel"      -> Panel_parse(u, b.f)
    [] p = "AQI"        -> AQI_parse(u, b.f)
    [] p = "SPTC"       -> SPTC_parse(u, b)
    [] p = "Purifier"   -> Purifier_parse(u, b)
    [] OTHER            -> << <<b.f[1], KnxReport(p, b.f[1], b.f[2])>> >>
=============================================================================
