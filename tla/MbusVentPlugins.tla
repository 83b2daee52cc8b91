-------------------------- MODULE MbusVentPlugins ---------------------------
(***************************************************************************)
(* Ventilation plugins: src/plugin/compile/Mbus_Vent_*.c and                *)
(* Modbus_Ventilation_*.c.  u.full says that the configuration gives the    *)
(* unit both a switch and a speed, which some of them insist on.            *)
(***************************************************************************)
EXTENDS PluginFrames, TLC

(* --------------------------------- Broan -------------------------------- *)
\* The static MBusVentLocalPoint: one for all units of the plugin.
BroanBlank == [switch |-> 0, speed |-> 0]

\* build: both registers are written at once, the one that is not commanded
\* from the static values.
Broan_build(c, u, o) ==
  LET Both(sw, sp) == <<u.dev, 16>> \o W(256) \o W(2) \o <<4>> \o W(sw) \o W(sp) \o Zeros(2)
  IN CASE ~u.full              -> NoFrame
       [] o = Poll             -> <<u.dev, 3>> \o W(256) \o W(2) \o Zeros(2)
       [] o.dpid = 39          -> Both(o.v, c.speed)
       [] o.dpid \in {28, 101} -> Both(1, o.v)
       [] OTHER                -> <<u.dev, 16>> \o Zeros(11)

\* The static values take the command when the frame is built.
Broan_sent(c, u, o) ==
  CASE ~u.full              -> c
    [] o.dpid = 39          -> [c EXCEPT !.switch = o.v]
    [] o.dpid \in {28, 101} -> [switch |-> 1, speed |-> o.v]
    [] OTHER                -> c

Broan_find(u, buf) ==
  IF Len(buf) < 7 \/ ~u.full THEN NoFrame ELSE FindFrame(buf, << <<u.dev, 3>>, <<u.dev, 16>> >>, 7)

\* parse: the speed of a unit that is off is neither kept nor reported.
Broan_received(c, pos) ==
  CASE At(pos, 1) # 3   -> c
    [] At(pos, 4) > 0   -> [switch |-> At(pos, 4), speed |-> At(pos, 6)]
    [] OTHER            -> [c EXCEPT !.switch = At(pos, 4)]

\* c is the static state after the frame: an acknowledged write reports it.
Broan_objs(c, pos) ==
  CASE At(pos, 1) = 3 /\ At(pos, 4) > 0 ->
           << <<"VENT_SWITCH", At(pos, 4)>>, <<"VENT_SPEED", At(pos, 6)>> >>
    [] At(pos, 1) = 3 -> << <<"VENT_SWITCH", At(pos, 4)>> >>
    [] WordAt(pos, 2) = 256 /\ At(pos, 5) = 2 ->
           << <<"VENT_SWITCH", c.switch>>, <<"VENT_SPEED", c.speed>> >>
    [] OTHER -> NoObjs

(* ------------------------------ Broan DTouch ---------------------------- *)
\* build: registers 1 (switch), 3 (speed) and 2 (mode).
DTouch_build(u, o) ==
  LET Write(reg, val) == <<u.dev, 6, 0, reg, 0, val>> \o Zeros(2)
  IN CASE ~u.full       -> NoFrame
       [] o = Poll      -> <<u.dev, 3, 0, 1, 0, 31>> \o Zeros(2)
       [] o.dpid = 39   -> Write(1, o.v)
       [] o.dpid = 28   -> Write(3, Lookup(0 :> 1 @@ 1 :> 3, o.v))
       [] o.dpid = 101  -> Write(2, Lookup(0 :> 1 @@ 1 :> 3, o.v))
       [] OTHER         -> <<u.dev, 6>> \o Zeros(6)

\* parse: only polls are used; the second register is taken for the speed and
\* the third for the mode, and the local points are numbers of the cloud.
DTouch_parse(u, buf) ==
  LET pos == FindFrame(buf, << <<u.dev, 3>>, <<u.dev, 6>> >>, 14)
  IN IF Len(buf) < 8 \/ ~u.full \/ pos = NoFrame THEN NoObjs
     ELSE IF At(pos, 1) # 3 THEN NoObjs
     ELSE << <<"39", IF At(pos, 4) = 1 THEN 1 ELSE 0>>,
             <<"28", IF At(pos, 6) = 3 THEN 1 ELSE 0>>,
             <<"101", IF At(pos, 8) = 3 THEN 1 ELSE 0>> >>

(* ---------------------- Broan ERDH and ERDH45_500C ---------------------- *)
\* A mask of the bits to change and the bits
ERDH_build(u, o) ==
  LET Write(mask, bits, humi) == <<u.dev, 17, 0, 0, 0, 4, mask, bits, humi, 0>> \o Zeros(2)
  IN CASE ~u.full       -> NoFrame
       [] o = Poll      -> <<u.dev, 16>> \o Zeros(6)
       [] o.dpid = 8    -> Write(2, 0, o.v)
       [] o.dpid = 22   -> Write(4, IF o.v = 1 THEN 4 ELSE 0, 0)
       [] o.dpid = 28   -> Write(8, IF o.v > 0 THEN 8 ELSE 0, 0)
       [] o.dpid = 39   -> Write(5, IF o.v = 1 THEN 5 ELSE 0, 0)
       [] o.dpid = 101  -> Write(16, Lookup(1 :> 16, o.v), 0)
       [] OTHER         -> Write(0, 0, 0)

ERDHBlank == [switch |-> 0, speed |-> 0, mode |-> 0]

ERDH_find(u, buf) ==
  LET read == FindFrame(buf, << <<u.dev, 16>> >>, 14)
  IN IF Len(buf) < 8 \/ ~u.full THEN NoFrame
     ELSE IF read # NoFrame THEN read ELSE FindFrame(buf, << <<u.dev, 17>> >>, 7)

\* parse of ERDH: the branches are taken the wrong way round.  What is decoded
\* is the answer to a write; the answer to a poll reports the static values.
ERDH_received(c, pos) ==
  IF At(pos, 1) = 16 THEN c
  ELSE [switch |-> At(pos, 6) % 2, speed |-> (At(pos, 6) \div 4) % 2, mode |-> (At(pos, 6) \div 8) % 2]
ERDH_objs(c) == << <<"VENT_SWITCH", c.switch>>, <<"VENT_SPEED", c.speed>>, <<"VENT_MODE", c.mode>> >>

\* build of ERDH45_500C is the same, and parse takes only the answer to a poll.
ERDH45_build(u, o) == ERDH_build(u, o)
ERDH45_parse(u, buf) ==
  LET pos == FindFrame(buf, << <<u.dev, 16>>, <<u.dev, 17>> >>, 14)
  IN IF Len(buf) < 15 \/ ~u.full \/ pos = NoFrame THEN NoObjs
     ELSE IF At(pos, 1) # 16 THEN NoObjs
     ELSE << <<"VENT_SWITCH", At(pos, 6) % 2>>, <<"VENT_SPEED", (At(pos, 6) \div 4) % 2>>,
             <<"VENT_HUMI", At(pos, 8)>>, <<"VENT_ENV_HUMI", At(pos, 9)>>,
             <<"VENT_VALVE", (At(pos, 6) \div 2) % 2>>, <<"VENT_MODE", (At(pos, 6) \div 8) % 2>> >>

(* ------------------------------- Broan noah ----------------------------- *)
\* build: on is speed one; a speed switches on.
Noah_build(u, o) ==
  LET Frame(write, on, level) == <<170, 90, u.dev, write, on, level>> \o Zeros(5)
  IN CASE ~u.full              -> NoFrame
       [] o = Poll             -> Frame(0, 0, 0)
       [] o.dpid = 39          -> Frame(1, o.v, o.v)
       [] o.dpid \in {28, 101} -> Frame(1, 1, Lookup(1 :> 1 @@ 2 :> 3 @@ 3 :> 5, o.v))
       [] OTHER                -> Frame(1, 0, 0)

\* parse: the address of the unit is not looked at.
Noah_parse(u, buf) ==
  LET pos == FindFrame(buf, << <<170, 165>> >>, 22)
      level == At(pos, 6)
  IN IF Len(buf) < 23 \/ ~u.full \/ pos = NoFrame THEN NoObjs
     ELSE << <<"VENT_SWITCH", IF level = 0 THEN 0 ELSE 1>>,
             <<"VENT_SPEED", IF level <= 2 THEN 1 ELSE IF level = 3 THEN 2 ELSE 3>> >>

(* ---------------------------- Daikin DTA116A621 ------------------------- *)
DkVentReg == 2000
DkVentBlank == [switch |-> 0, speed |-> 0, dir |-> 0]

\* (fault) What is not commanded is written as zero or on.
FaultDaikinVent_build(c, u, g, o) ==
  IF o = Poll THEN <<u.dev, 4>> \o W(DkVentReg + 6 * u.reg) \o W(1) \o Zeros(2)
  ELSE <<u.dev, 6>> \o W(DkVentReg + 3 * u.reg)
         \o <<IF o.dpid = 28 THEN Lookup(0 :> 16 @@ 1 :> 80, o.v) ELSE 0, IF o.dpid = 39 THEN o.v ELSE 1>> \o Zeros(2)
\* build: switch, speed and direction in one register, from the master's cache.
DaikinVent_build(c, u, g, o) ==
  LET Write(hi, lo) == <<u.dev, 6>> \o W(DkVentReg + 3 * u.reg) \o <<hi % 256, lo>> \o Zeros(2)
  IN CASE o = Poll    -> <<u.dev, 4>> \o W(DkVentReg + 6 * u.reg) \o W(1) \o Zeros(2)
       [] o.dpid = 39 -> Write(c[g].speed * 16 + c[g].dir, o.v)
       [] o.dpid = 28 -> Write(Lookup(0 :> 16 @@ 1 :> 80, o.v) + c[g].dir, c[g].switch)
       [] OTHER       -> <<u.dev, 6>> \o Zeros(6)

DaikinVent_find(u, buf) ==
  IF Len(buf) < 7 THEN NoFrame ELSE FindFrame(buf, << <<u.dev, 4>>, <<u.dev, 6>> >>, 7)

\* parse: the speed is rounded to the two the cloud knows, also in the cache.
DkRound(s) == IF s <= 3 THEN 1 ELSE 5
DaikinVent_received(c, u, pos) ==
  LET w == WordAt(pos, 2) - DkVentReg
  IN CASE At(pos, 1) = 4 -> [c EXCEPT ![u.reg] = [switch |-> At(pos, 4) % 2, dir |-> At(pos, 3) % 16,
                                                  speed |-> DkRound((At(pos, 3) \div 16) % 8)]]
       [] w % 3 = 0 -> [c EXCEPT ![w \div 3].switch = At(pos, 5) % 2,
                                 ![w \div 3].speed = DkRound((At(pos, 4) \div 16) % 8)]
       [] OTHER -> c
DaikinVent_objs(c, u, pos) ==
  LET w == WordAt(pos, 2) - DkVentReg
      d == IF At(pos, 1) = 4 THEN c[u.reg] ELSE c[w \div 3]
      Both == << <<"VENT_SWITCH", d.switch>>, <<"VENT_SPEED", IF d.speed = 1 THEN 0 ELSE 1>> >>
  IN IF At(pos, 1) = 4 \/ w % 3 = 0 THEN Both ELSE NoObjs

(* ---------------------------------- Dpurat ------------------------------ *)
\* build: switch and speed are written at 1 and 2 and read at 11 and 12.
Dpurat_build(u, o) ==
  LET Write(reg) == <<u.dev, 6>> \o W(reg) \o W(o.v) \o Zeros(2)
  IN CASE o = Poll     -> <<u.dev, 3>> \o W(11) \o W(3) \o Zeros(2)
       [] o.dpid = 39  -> Write(1)
       [] o.dpid = 101 -> Write(2)
       [] OTHER        -> <<u.dev, 6>> \o Zeros(6)

Dpurat_parse(u, buf) ==
  LET pos == FindFrame(buf, << <<u.dev, 3>>, <<u.dev, 6>> >>, 7)
  IN CASE Len(buf) < 7 \/ pos = NoFrame -> NoObjs
       [] At(pos, 1) = 3     -> << <<"VENT_SWITCH", At(pos, 4)>>, <<"VENT_SPEED", At(pos, 6)>> >>
       [] WordAt(pos, 2) = 1 -> << <<"VENT_SWITCH", At(pos, 5)>> >>
       [] WordAt(pos, 2) = 2 -> << <<"VENT_SPEED", At(pos, 5)>> >>
       [] OTHER              -> NoObjs

(* ------------------------------ TuoLi TLCAA301R ------------------------- *)
\* build: ten bytes, not Modbus; a speed switches on.
TuoLi_build(u, o) ==
  CASE o = Poll     -> <<u.dev, 3>> \o Zeros(8)
    [] o.dpid = 39  -> <<u.dev, 16, o.v, 0>> \o Zeros(6)
    [] o.dpid = 101 -> <<u.dev, 16, 1, o.v>> \o Zeros(6)
    [] OTHER        -> <<u.dev, 16>> \o Zeros(8)

TuoLi_parse(u, buf) ==
  LET pos == FindFrame(buf, << <<u.dev, 3>>, <<u.dev, 16>> >>, 14)
  IN IF Len(buf) < 14 \/ pos = NoFrame THEN NoObjs
     ELSE << <<"VENT_SWITCH", At(pos, 2)>>, <<"VENT_SPEED", At(pos, 3)>> >>

(* ------------------------- BROAN (own serial protocol) ------------------ *)
\* build: a switch command is also a speed command, on is speed one.
BROAN_build(u, o) ==
  LET Frame(v, kind) == <<170, u.dev, 2, IF v > 0 THEN 1 ELSE 0, v, v, kind, 0, 245>>
  IN CASE o = Poll              -> Frame(0, 165)
       [] o.dpid \in {28, 39}   -> Frame(o.v, 90)
       [] OTHER                 -> NoFrame

\* (fault) The address is not compared.
FaultBROAN_check(u, b) == At(b.f, 0) = 170 /\ b.f[Len(b.f)] = 245 /\ At(b.f, 2) = 2 /\ b.ok
\* checkPackage: head, foot, address, host and sum.
BROAN_check(u, b) ==
  At(b.f, 0) = 170 /\ b.f[Len(b.f)] = 245 /\ At(b.f, 1) = u.dev /\ At(b.f, 2) = 2 /\ b.ok

\* parse: the room temperature is negated.
BROAN_parse(u, b) ==
  IF ~BROAN_check(u, b) THEN NoObjs
  ELSE << <<"VENT_SPEED", At(b.f, 4)>>, <<"VENT_SWITCH", At(b.f, 3)>>,
          <<"VENT_ENV_TEMP", 0 - (At(b.f, 6) % 128)>> >>
=============================================================================
