-------------------------- MODULE MbusMiscPlugins ---------------------------
(***************************************************************************)
(* The other Modbus plugins of src/plugin/compile: curtains, floor heating, *)
(* panel, air quality, humidifier, water purifier.                          *)
(***************************************************************************)
EXTENDS PluginFrames, TLC

(* -------------------------------- Curtains ------------------------------ *)
\* The cloud knows 0 open, 1 stop, 2 close.
\* AOK: head, address, channel, command, action.
AokAction == 0 :> 221 @@ 1 :> 204 @@ 2 :> 238
AOK_build(u, o) ==
  LET Frame(cmd, act) == <<154, u.dev, 128, 0, cmd, act>> \o Zeros(1)
  IN CASE o = Poll   -> Frame(204, 0)
       [] o.dpid = 1 -> Frame(10, Lookup(AokAction, o.v))
       [] o.dpid = 2 -> Frame(10, 2)
       [] OTHER      -> Frame(0, 0)

\* parse: position 0 is open, 100 closed, every other one left at 0, open.
AOK_parse(u, buf) ==
  LET pos == FindFrame(buf, << <<216, u.dev>> >>, 9)
  IN IF Len(buf) < 10 \/ pos = NoFrame THEN NoObjs
     ELSE << <<"CURTAIN_SWITCH", Lookup(100 :> 2, At(pos, 6))>> >>

\* BinThen: 22 bytes in little-endian fields; PackageFactory and
\* generatePackage fill them, UnpackPackage takes them apart.
BinThenAction == 0 :> 1 @@ 1 :> 2 @@ 2 :> 0
BinThen_package(u, type, action) ==
  <<85, 170, 170, 85, 0, 0, Lo(type), Hi(type), 10, 0, 0, 0, 1, action, 0, 1, 1, u.dev>> \o Zeros(4)
BinThen_unpack(buf) ==
  [type |-> At(buf, 7) * 256 + At(buf, 6), action |-> At(buf, 13), sn |-> At(buf, 17)]
BinThen_build(u, o) ==
  IF o = Poll THEN BinThen_package(u, 2561, 1) ELSE BinThen_package(u, 2562, Lookup(BinThenAction, o.v))

\* parse: neither the address nor the type of the package is looked at.
BinThen_parse(u, buf) ==
  IF Len(buf) < 22 \/ BinThen_unpack(buf).action \notin 0..2 THEN NoObjs
  ELSE << <<"CURTAIN_SWITCH", (1 :> 0 @@ 2 :> 1 @@ 0 :> 2)[BinThen_unpack(buf).action]>> >>

\* Changming and HeChuang differ in the head only: address twice, command 3
\* with 1 open, 2 close, 3 stop; command 1 reads the position or, with 3,
\* changes the direction.
MotorAction == 0 :> 1 @@ 1 :> 3 @@ 2 :> 2
Motor_build(head, u, o) ==
  CASE o = Poll     -> <<head, u.dev, u.dev, 1, 2, 1>> \o Zeros(2)
    [] o.dpid = 1   -> <<head, u.dev, u.dev, 3, Lookup(MotorAction, o.v)>> \o Zeros(2)
    [] o.dpid = 101 -> <<head, u.dev, u.dev, 1, 3, 1>> \o Zeros(2)
    [] OTHER        -> <<head, u.dev, u.dev>> \o Zeros(5)

Motor_parse(u, buf) ==
  LET pos == FindFrame(buf, << <<u.dev, u.dev>> >>, 6)
  IN CASE Len(buf) < 7 \/ pos = NoFrame -> NoObjs
       [] At(pos, 2) = 1 -> << <<"CURTAIN_SWITCH", Lookup(0 :> 2, At(pos, 4))>> >>
       [] At(pos, 2) = 3 -> << <<"CURTAIN_SWITCH", LookupOr(1 :> 0 @@ 2 :> 2 @@ 3 :> 1, At(pos, 3))>> >>
       [] OTHER -> NoObjs

Changming_build(u, o) == Motor_build(170, u, o)
Changming_parse(u, buf) == Motor_parse(u, buf)
HeChuang_build(u, o) == Motor_build(85, u, o)
HeChuang_parse(u, buf) == Motor_parse(u, buf)

\* Dooya: a sixteen-bit address; the raw action is reported as it is.
Dooya_build(u, o) ==
  CASE o = Poll   -> <<85>> \o W(u.dev) \o <<1, 5, 1>> \o Zeros(2)
    [] o.dpid = 1 -> <<85>> \o W(u.dev) \o <<3, Lookup(MotorAction, o.v)>> \o Zeros(2)
    [] OTHER      -> <<85>> \o W(u.dev) \o <<3>> \o Zeros(3)
Dooya_parse(u, buf) ==
  LET pos == FindFrame(buf, << W(u.dev) >>, 7)
  IN CASE Len(buf) < 7 \/ pos = NoFrame -> NoObjs
       [] At(pos, 2) = 1 -> << <<"CURTAIN_SWITCH", At(pos, 4)>> >>
       [] At(pos, 2) = 3 -> << <<"CURTAIN_SWITCH", At(pos, 3)>> >>
       [] OTHER -> NoObjs

(* ----------------------------- Floor heating ---------------------------- *)
\* Honeywell: switch in register 1, target in 4, room in 2, tenths of degrees.
Honeywell_build(u, o) ==
  LET Write(reg, val) == <<u.dev, 6>> \o W(reg) \o W(val) \o Zeros(2)
  IN CASE o = Poll   -> <<u.dev, 3>> \o W(1) \o W(4) \o Zeros(2)
       [] o.dpid = 1 -> Write(1, o.v)
       [] o.dpid = 2 -> Write(4, o.v * 10)
       [] OTHER      -> Write(0, 0)
Honeywell_parse(u, buf) ==
  LET pos == FindFrame(buf, << <<u.dev, 3>>, <<u.dev, 6>> >>, 7)
  IN CASE Len(buf) < 7 \/ pos = NoFrame -> NoObjs
       [] At(pos, 1) = 3 -> << <<"HEAT_SWITCH", At(pos, 4)>>, <<"HEAT_TEMP", WordAt(pos, 9) \div 10>>,
                               <<"HEAT_ENV_TEMP", WordAt(pos, 5) \div 10>> >>
       [] WordAt(pos, 2) = 1 -> << <<"HEAT_SWITCH", At(pos, 5)>> >>
       [] WordAt(pos, 2) = 4 -> << <<"HEAT_TEMP", WordAt(pos, 4) \div 10>> >>
       [] OTHER -> NoObjs

\* TOWWIRE: seven registers per circuit, from register 4 on; here the length,
\* the checksum, the address and the function code are looked at first.
CheckPackage(u, b, codes) == Len(b.f) >= 3 /\ b.ok /\ At(b.f, 0) = u.dev /\ At(b.f, 1) \in codes
TOWWIRE_build(u, o) ==
  LET base == 4 + 7 * (u.reg - 1)
  IN CASE o = Poll   -> <<u.dev, 3, 0, base, 0, 5>> \o Zeros(2)
       [] o.dpid = 1 -> <<u.dev, 6, 0, base, 0, o.v>> \o Zeros(2)
       [] o.dpid = 2 -> <<u.dev, 6, 0, base + 1>> \o W(o.v) \o Zeros(2)
       [] OTHER      -> NoFrame
TOWWIRE_parse(u, b) ==
  LET f == b.f  point == ((At(f, 3) - 3) % 7) - 1
  IN CASE ~CheckPackage(u, b, {3, 6}) -> NoObjs
       [] At(f, 1) = 3 -> << <<"HEAT_SWITCH", At(f, 4)>>, <<"HEAT_TEMP", WordAt(f, 5)>>,
                             <<"HEAT_ENV_TEMP", WordAt(f, 7)>> >>
       [] At(f, 1) # 3 /\ point = 0 -> << <<"HEAT_SWITCH", At(f, 5)>> >>
       [] At(f, 1) # 3 /\ point \in {1, 2} ->
             << <<IF point = 1 THEN "HEAT_TEMP" ELSE "HEAT_ENV_TEMP", WordAt(f, 4)>> >>
       [] OTHER -> NoObjs

(* ------------------------- Panel and air quality ------------------------ *)
\* Ohosure panel: a poll of one register is answered with seven bytes, which
\* parse() takes for too short.
Panel_build(u, o) ==
  CASE o = Poll   -> <<u.dev, 3>> \o W(4107) \o W(1) \o Zeros(2)
    [] o.dpid = 1 -> <<u.dev, 6>> \o W(4104) \o W(o.v) \o Zeros(2)
    [] OTHER      -> <<u.dev, 6>> \o Zeros(6)
Panel_parse(u, buf) ==
  LET pos == FindFrame(buf, << <<u.dev, 3>>, <<u.dev, 6>> >>, 8)
  IN IF Len(buf) < 8 \/ pos = NoFrame THEN NoObjs ELSE << <<"PANEL_SWITCH", At(pos, 5)>> >>

\* Ohosure air quality: it is never asked, and what it sends is put under the
\* points of the floor heating.
AQI_build(u, o) == NoFrame
AQI_parse(u, buf) ==
  LET pos == FindFrame(buf, << <<u.dev, 66>>, <<u.dev, 6>> >>, 7)
  IN IF Len(buf) < 7 \/ pos = NoFrame THEN NoObjs
     ELSE IF At(pos, 1) # 66 THEN NoObjs
     ELSE << <<"HEAT_TEMP", WordAt(pos, 11) - 25>>, <<"HEAT_SWITCH", WordAt(pos, 13)>>,
             <<"HEAT_ENV_TEMP", WordAt(pos, 15)>>, <<"HEAT_ENV_TEMP", WordAt(pos, 19)>> >>

(* ----------------------- Humidifier and water purifier ------------------ *)
\* SPTC: one poll asks for the power, the next for the switch, by a counter
\* all units share.
SPTC_build(n, u, o) ==
  CASE o = Poll /\ n % 2 = 1 -> <<u.dev, 1, 0, 0, 0, 1>> \o Zeros(2)
    [] o = Poll /\ n % 2 = 0 -> <<u.dev, 4, 0, 145, 0, 1>> \o Zeros(2)
    [] o.dpid = 101 -> <<u.dev, 5, 0, 0, IF o.v = 1 THEN 255 ELSE 0, 0>> \o Zeros(2)
    [] o.dpid = 102 -> <<u.dev, 6, 0, 98, 0, o.v>> \o Zeros(2)
    [] OTHER        -> NoFrame
\* Only the parity of the eight-bit counter is used, and a wrap keeps it.
SPTC_sent(n, o) == IF o = Poll THEN (n + 1) % 2 ELSE n
SPTC_parse(u, b) ==
  LET f == b.f  Switch(x) == << <<"HUMIDIFIER_SWITCH", IF x = 255 THEN 1 ELSE 0>> >>
  IN CASE ~CheckPackage(u, b, {1, 4, 5, 6}) -> NoObjs
       [] At(f, 1) = 1 -> Switch(At(f, 3))
       [] At(f, 1) = 5 -> Switch(At(f, 4))
       [] At(f, 1) = 4 -> << <<"HUMIDIFIER_HUMIDITY_SET", At(f, 4)>> >>
       [] OTHER        -> << <<"HUMIDIFIER_HUMIDITY_SET", At(f, 5)>> >>

\* Purifier: a frame carries its length; the sum is taken before head and
\* address are filled in.
Purifier_build(u, o) ==
  CASE o = Poll     -> <<170, u.dev, 5, 4, 9>>
    [] o.dpid = 104 -> <<170, u.dev, 9, 5, 85, 85, 85, 85, (14 + 4 * 85) % 256>>
    [] OTHER        -> NoFrame

\* parse: the length, not the code, chooses between answer and reset, so only
\* packages of four or five bytes get that far; what is read of them behind
\* their end is the heap's, zero here.
LittleWord(f, k) == At(f, k + 1) * 256 + At(f, k)
Purifier_parse(u, b) ==
  LET f == b.f \o Zeros(18)
      valid == /\ Len(b.f) >= 3 /\ At(f, 0) = 170 /\ At(f, 1) = u.dev
               /\ At(f, 3) \in {4, 5} /\ At(f, 2) = Len(b.f) /\ b.ok
  IN CASE ~valid -> NoObjs
       [] At(f, 2) = 4 ->
            << <<"PURIFIER_FLOW", (LittleWord(f, 4) + LittleWord(f, 6) + LittleWord(f, 8) + LittleWord(f, 10)) % 65536>>,
               <<"PURIFIER_TDS", LittleWord(f, 20)>>, <<"PURIFIER_PP_FILTER_TIME", LittleWord(f, 12)>>,
               <<"PURIFIER_RESET", 0>> >>
       [] At(f, 2) = 5 -> IF SubSeq(f, 5, 8) = Zeros(4) THEN << <<"PURIFIER_RESET", 1>> >> ELSE << <<"0", 0>> >>
       [] OTHER -> NoObjs
=============================================================================
