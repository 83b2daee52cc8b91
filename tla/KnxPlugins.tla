----------------------------- MODULE KnxPlugins -----------------------------
(***************************************************************************)
(* The KNX plugins: src/plugin/compile/KNX_*.c and knx_*_panel.c.  control  *)
(* turns a cloud value into the raw value of a group object, report turns   *)
(* the raw value of a status object into the value for the cloud.  `old` is *)
(* what the object held: a value no branch names leaves it.                 *)
(***************************************************************************)
EXTENDS PluginFrames, TLC

(* ------------------- Temperatures: two bytes, DPT 9.001 ----------------- *)
\* C's division truncates towards zero.
Trunc(x, d) == IF x >= 0 THEN x \div d ELSE 0 - ((0 - x) \div d)

\* The temperature, in hundredths, scaled down until it fits eleven bits.
ConvetTemp2Uint16(h) ==
  LET fits == {e \in 0..15 : Trunc(h, 2^e) > -2048 /\ Trunc(h, 2^e) <= 2047}
      e == Min(fits)
      m == Trunc(h, 2^e)
  IN IF fits = {} THEN 65535
     ELSE IF m >= 0 THEN m + e * 2048
     ELSE 32768 + (m % 2048) + e * 2048

\* Hundredths again: the sign bit is tested and both branches do the same.
ConvetUint162Temp(raw) == (raw % 2048) * 2^((raw \div 2048) % 16)

TempRaw(v) == ConvetTemp2Uint16(100 * v)
TempOf(raw) == ConvetUint162Temp(raw) \div 100

Known(table, v, old) == IF v \in DOMAIN table THEN table[v] ELSE old

(* --------------------------- Air conditioners --------------------------- *)
\* control and report of an air conditioner, given its two tables.
AcdControl(mode, speed, old, pt, v) ==
  CASE pt = "ACD_SWITCH" -> v
    [] pt = "ACD_TEMP"   -> TempRaw(v)
    [] pt = "ACD_MODE"   -> Known(mode, v, old)
    [] pt = "ACD_SPEED"  -> Known(speed, v, old)
    [] OTHER             -> old
AcdReport(mode, speed, old, pt, raw) ==
  CASE pt = "ACD_SWITCH" -> raw
    [] pt \in {"ACD_TEMP", "ACD_ENV_TEMP"} -> TempOf(raw)
    [] pt = "ACD_MODE"   -> Known(mode, raw, old)
    [] pt = "ACD_SPEED"  -> Known(speed, raw, old)
    [] OTHER             -> old

\* Tables over the byte a raw enumeration is.
Same == [v \in 0..255 |-> v]
HighLow == [Same EXCEPT ![1] = 3, ![3] = 1]

OneHotMode == 0 :> 1 @@ 1 :> 2 @@ 2 :> 4 @@ 3 :> 8
OneHotModeBack == 1 :> 0 @@ 2 :> 1 @@ 4 :> 2 @@ 8 :> 3
OneHotSpeed == 0 :> 0 @@ 1 :> 1 @@ 2 :> 2 @@ 3 :> 4
OneHotSpeedBack == 0 :> 0 @@ 1 :> 1 @@ 2 :> 2 @@ 4 :> 3
General_control(old, pt, v) == AcdControl(OneHotMode, OneHotSpeed, old, pt, v)
General_report(old, pt, raw) == AcdReport(OneHotModeBack, OneHotSpeedBack, old, pt, raw)
AcdPanel_control(old, pt, v) == AcdControl(OneHotMode, OneHotSpeed, old, pt, v)
AcdPanel_report(old, pt, raw) == AcdReport(OneHotModeBack, OneHotSpeedBack, old, pt, raw)

\* (fault) The speed is not turned round on the way back.
FaultStec_report(old, pt, raw) ==
  AcdReport(1 :> 0 @@ 2 :> 1 @@ 3 :> 3 @@ 4 :> 2, Same, old, pt, raw)
\* STEC: what the cloud calls low is the unit's high (the build without the
\* five-mode variant).
Stec_control(old, pt, v) == AcdControl(0 :> 1 @@ 1 :> 2 @@ 2 :> 4 @@ 3 :> 3, HighLow, old, pt, v)
Stec_report(old, pt, raw) == AcdReport(1 :> 0 @@ 2 :> 1 @@ 3 :> 3 @@ 4 :> 2, HighLow, old, pt, raw)

SdkMode == 0 :> 0 @@ 1 :> 1 @@ 2 :> 3 @@ 3 :> 2
Sdk_control(old, pt, v) == AcdControl(SdkMode, Same, old, pt, v)
Sdk_report(old, pt, raw) == AcdReport(SdkMode, Same, old, pt, raw)

Water_control(old, pt, v) ==
  AcdControl(0 :> 1 @@ 1 :> 2, [s \in 0..254 |-> s + 1], old, pt, v)
Water_report(old, pt, raw) ==
  AcdReport(1 :> 0 @@ 2 :> 1, 1 :> 0 @@ 2 :> 1 @@ 3 :> 2, old, pt, raw)

(* ----------------------------- Floor heating ---------------------------- *)
HeatControl(old, pt, v, raw) ==
  CASE pt = "HEAT_SWITCH" -> v
    [] pt = "HEAT_TEMP"   -> raw
    [] OTHER              -> old
HeatReport(old, pt, raw, temp) ==
  CASE pt \in {"HEAT_SWITCH", "HEAT_VALVE"} -> raw
    [] pt = "HEAT_TEMP"     -> temp
    [] pt = "HEAT_ENV_TEMP" -> TempOf(raw)
    [] OTHER                -> old

\* STEC: the cloud's target is in tenths of a degree.
StecHeat_control(old, pt, v) == HeatControl(old, pt, v, ConvetTemp2Uint16(10 * v))
StecHeat_report(old, pt, raw) == HeatReport(old, pt, raw, ConvetUint162Temp(raw) \div 10)
SdkHeat_control(old, pt, v) == HeatControl(old, pt, v, TempRaw(v))
SdkHeat_report(old, pt, raw) == HeatReport(old, pt, raw, TempOf(raw))
HeatPanel_control(old, pt, v) == HeatControl(old, pt, v, TempRaw(v))
HeatPanel_report(old, pt, raw) == HeatReport(old, pt, raw, TempOf(raw))

(* ------------------------------ Ventilation ----------------------------- *)
VentCodec(speed, old, pt, v) ==
  CASE pt = "VENT_SWITCH" -> v
    [] pt = "VENT_SPEED"  -> Known(speed, v, old)
    [] OTHER              -> old
StecVent_control(old, pt, v) == VentCodec(Same, old, pt, v)
StecVent_report(old, pt, raw) ==
  IF pt = "VENT_ENV_TEMP" THEN TempOf(raw) ELSE VentCodec(Same, old, pt, raw)
SdkVent_control(old, pt, v) == VentCodec([Same EXCEPT ![0] = 1, ![1] = 2], old, pt, v)
SdkVent_report(old, pt, raw) == VentCodec(1 :> 0 @@ 2 :> 1, old, pt, raw)
VentPanel_control(old, pt, v) == VentCodec(Same, old, pt, v)
VentPanel_report(old, pt, raw) == VentCodec(Same, old, pt, raw)
=============================================================================
