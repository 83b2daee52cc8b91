--------------------------- MODULE MbusAcdPlugins ---------------------------
(***************************************************************************)
(* Air-conditioner plugins: src/plugin/compile/Mbus_Acd_*.c.  u is the unit *)
(* [dev, reg] (devId, regAddr), g the register of the group's master, c the *)
(* plugin's static cache: a function of the register.                       *)
(***************************************************************************)
EXTENDS PluginFrames, TLC

(* ------------------------------- ZhongHong ------------------------------ *)
ZhMode == 0 :> 1 @@ 1 :> 8 @@ 2 :> 2 @@ 3 :> 4
ZhSpeed == 0 :> 0 @@ 1 :> 4 @@ 2 :> 2 @@ 3 :> 1

\* build: gateway, command, value, one unit, its address, sum.
ZhongHong_build(u, o) ==
  LET Cmd(code, val) == <<u.dev, code, val, 1>> \o W(u.reg) \o Zeros(1)
  IN CASE o = Poll     -> Cmd(80, 1)
       [] o.dpid = 1   -> Cmd(49, o.v)
       [] o.dpid = 2   -> Cmd(50, o.v)
       [] o.dpid = 4   -> Cmd(51, Lookup(ZhMode, o.v))
       [] o.dpid = 5   -> Cmd(52, Lookup(ZhSpeed, o.v))
       [] OTHER        -> <<u.dev>> \o Zeros(6)

ZhModeBack == 1 :> 0 @@ 2 :> 2 @@ 4 :> 3 @@ 8 :> 1
ZhSpeedBack == 4 :> 1 @@ 2 :> 2 @@ 1 :> 3 @@ 0 :> 0

\* The answer to a poll: the whole state of the unit.
ZhongHong_status(pos) ==
  << <<"ACD_SWITCH", At(pos, 6)>>, <<"ACD_TEMP", At(pos, 7)>>,
     <<"ACD_MODE", Lookup(ZhModeBack, At(pos, 8))>>,
     <<"ACD_SPEED", Lookup(ZhSpeedBack, At(pos, 9))>>,
     <<"ACD_ENV_TEMP", At(pos, 10) * 10>> >>

\* The echo of a write: the table of the speed is another one than in the
\* answer to a poll, low and high change places.
ZhSpeedEcho == 4 :> 3 @@ 2 :> 2 @@ 1 :> 1 @@ 0 :> 0
ZhongHong_echo(pos) ==
  CASE At(pos, 1) = 49 -> << <<"ACD_SWITCH", At(pos, 2)>> >>
    [] At(pos, 1) = 50 -> << <<"ACD_TEMP", At(pos, 2)>> >>
    [] At(pos, 1) = 51 -> << <<"ACD_MODE", Lookup(ZhModeBack, At(pos, 2))>> >>
    [] At(pos, 1) = 52 -> << <<"ACD_SPEED", Lookup(ZhSpeedEcho, At(pos, 2))>> >>
    [] OTHER -> NoObjs

\* parse: the write commands are looked for before the poll.
ZhongHong_parse(u, buf) ==
  LET pos == FindFrame(buf, [k \in 1..5 |-> <<u.dev, <<49, 52, 50, 51, 80>>[k]>>], 7)
  IN IF Len(buf) < 7 \/ pos = NoFrame THEN NoObjs
     ELSE IF At(pos, 1) = 80 THEN ZhongHong_status(pos) ELSE ZhongHong_echo(pos)

(* ---------------------------- Daikin DTA116A621 ------------------------- *)
DaikinReg == 2000
DkMode == 1 :> 2 @@ 3 :> 7 @@ 4 :> 0 @@ 2 :> 1 @@ 0 :> 3
DkModeBack == 0 :> 4 @@ 1 :> 2 @@ 2 :> 1 @@ 7 :> 3 @@ 3 :> 0

\* The cache of one unit before anything was received from it.
DaikinBlank == [switch |-> 0, speed |-> 0, dir |-> 0, mode |-> 0, out |-> 0, auth |-> 0,
                temp |-> 0, env |-> 0]

\* May the unit be asked for cold (out 2) or hot (out 1)?  It has the right
\* to choose, or the outdoor unit already runs that way.
MayChoose(d, out) == d.auth = 2 \/ d.out = out

\* build: switch and speed share a register, with the direction of the
\* wind; what is not commanded comes from the cache of the group's master.
DaikinAcd_build(c, u, g, o) ==
  LET d == c[u.reg]  m == c[g]
      Write(k, hi, lo) == <<u.dev, 6>> \o W(DaikinReg + 3 * u.reg + k) \o <<hi, lo>> \o Zeros(2)
  IN CASE o = Poll   -> <<u.dev, 4>> \o W(DaikinReg + 6 * u.reg) \o W(5) \o Zeros(2)
       [] o.dpid = 1 -> Write(0, (m.speed % 16) * 16 + (m.dir % 16), o.v + 96)
       [] o.dpid = 2 -> Write(2, Hi(o.v * 10), Lo(o.v * 10))
       [] o.dpid = 4 -> IF \/ o.v = 1 /\ ~MayChoose(d, 2)
                           \/ o.v = 2 /\ ~MayChoose(d, 1)
                        THEN NoFrame
                        ELSE Write(1, LookupOr(1 :> 2 @@ 4 :> 0 @@ 2 :> 1 @@ 3 :> d.out @@ 0 :> d.out, o.v),
                                   Lookup(DkMode, o.v))
       [] o.dpid = 5 -> Write(0, ((o.v * 16) % 256) + m.dir, 97)
       [] OTHER      -> <<u.dev, 6>> \o Zeros(6)

\* A speed command marks the master as switched on before any answer.
DaikinAcd_sent(c, g, o) == IF o.dpid = 5 THEN [c EXCEPT ![g].switch = 1] ELSE c

\* parse: the answer to a poll fills the cache of the unit that asked, the
\* echo of a write the cache of the unit the register belongs to.
DaikinAcd_received(c, u, pos) ==
  LET w == WordAt(pos, 2) - DaikinReg
  IN IF At(pos, 1) = 4
     THEN [c EXCEPT ![u.reg] = [switch |-> At(pos, 4) % 2, dir |-> At(pos, 3) % 16,
              speed |-> (At(pos, 3) \div 16) % 8, mode |-> At(pos, 6) % 16,
              out |-> At(pos, 5) % 4, auth |-> (At(pos, 5) \div 64) % 4,
              temp |-> WordAt(pos, 7), env |-> WordAt(pos, 11)]]
     ELSE CASE w % 3 = 0 -> [c EXCEPT ![w \div 3].switch = At(pos, 5) % 2,
                                      ![w \div 3].speed = (At(pos, 4) \div 16) % 8]
            [] w % 3 = 1 -> [c EXCEPT ![w \div 3].mode = At(pos, 5) % 16, ![w \div 3].out = At(pos, 4) % 4]
            [] OTHER     -> [c EXCEPT ![w \div 3].temp = WordAt(pos, 4)]

\* The objects reported: read back from the cache that was just filled.
DaikinAcd_objs(c, u, pos) ==
  LET w == WordAt(pos, 2) - DaikinReg
      d == IF At(pos, 1) = 4 THEN c[u.reg] ELSE c[w \div 3]
      Mode == Lookup(DkModeBack, d.mode)
  IN CASE At(pos, 1) = 4 -> << <<"ACD_SWITCH", d.switch>>, <<"ACD_TEMP", d.temp \div 10>>,
              <<"ACD_MODE", Mode>>, <<"ACD_SPEED", d.speed>>, <<"ACD_ENV_TEMP", d.env \div 10>> >>
       [] w % 3 = 0 -> << <<"ACD_SWITCH", d.switch>>, <<"ACD_SPEED", d.speed>> >>
       [] w % 3 = 1 -> << <<"ACD_MODE", Mode>> >>
       [] OTHER     -> << <<"ACD_TEMP", d.temp \div 10>> >>

\* The frame parse() works on, or none.
DaikinAcd_find(u, buf) ==
  IF Len(buf) < 8 THEN NoFrame ELSE FindFrame(buf, << <<u.dev, 4>>, <<u.dev, 6>> >>, 8)

(* ------------------------------- TG A21MC ------------------------------- *)
TgReg == 100
TgBlank == <<0, 0>>
TgMode == 1 :> 2 @@ 3 :> 4 @@ 4 :> 8 @@ 2 :> 16 @@ 0 :> 32
TgSpeed == 1 :> 32 @@ 3 :> 128 @@ 2 :> 64 @@ 0 :> 256

\* build: one register holds everything, two bytes of the master's cache with
\* the commanded bits replaced; every sum is cut to eight bits, so the switch,
\* shifted by fourteen, is never in the byte.
TG_build(c, u, g, o) ==
  LET b0 == c[g][1]  b1 == c[g][2]
      Write(x, y) == <<u.dev, 6>> \o W(TgReg + 2 * u.reg) \o <<x % 256, y % 256>> \o Zeros(2)
  IN CASE o = Poll   -> <<u.dev, 3>> \o W(TgReg + 2 * u.reg) \o W(1) \o Zeros(2)
       [] o.dpid = 1 -> Write(b0 % 64, b1)
       [] o.dpid = 2 -> Write(b0, (b1 \div 32) * 32 + o.v + 15)
       [] o.dpid = 4 -> Write((b0 \div 64) * 64 + (b0 % 2) + Lookup(TgMode, o.v), b1)
       [] o.dpid = 5 -> Write(b0 - (b0 % 2), (b1 % 32) + Lookup(TgSpeed, o.v))
       [] OTHER      -> Write(b0, b1)

\* parse: the two data bytes of a poll go to the cache, those of an echo do
\* not.
TG_received(c, u, pos) ==
  IF At(pos, 1) = 3 THEN [c EXCEPT ![u.reg] = <<At(pos, 3), At(pos, 4)>>] ELSE c

TgModeBack == 4 :> 4 @@ 8 :> 2 @@ 1 :> 1 @@ 2 :> 3 @@ 16 :> 0
TgSpeedBack == 8 :> 0 @@ 1 :> 1 @@ 2 :> 2 @@ 3 :> 4
TG_objs(pos) ==
  LET b0 == IF At(pos, 1) = 3 THEN At(pos, 3) ELSE At(pos, 4)
      b1 == IF At(pos, 1) = 3 THEN At(pos, 4) ELSE At(pos, 5)
  IN << <<"ACD_SWITCH", 0>>, <<"ACD_TEMP", (b1 % 32) - 15>>,
        <<"ACD_MODE", LookupOr(TgModeBack, (b0 % 64) \div 2)>>,
        <<"ACD_SPEED", LookupOr(TgSpeedBack, (b0 % 2) * 16 + b1 \div 32)>> >>

\* The frame parse() works on: eight bytes at least, also of a poll's answer.
TG_find(u, buf) ==
  IF Len(buf) < 8 THEN NoFrame ELSE FindFrame(buf, << <<u.dev, 3>>, <<u.dev, 6>> >>, 8)
=============================================================================
