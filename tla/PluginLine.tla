----------------------------- MODULE PluginLine -----------------------------
(***************************************************************************)
(* One line with the units of one plugin (src/plugin/compile): the gateway  *)
(* builds a frame, the device executes it and answers, the gateway parses   *)
(* what it reads and reports the objects.  One exchange has the line at a   *)
(* time (SerialBus); a request or an answer may be lost, and an answer may  *)
(* come after the session gave up.  Opening the port flushes what has       *)
(* arrived by then, but not an answer that is still to come: that one is    *)
(* read by the next session.                                                *)
(***************************************************************************)
EXTENDS PluginDevices

CONSTANTS Plugins,        \* the plugins, one of which the line is used with
          Unit, SameDev, OtherDev,  \* units: [dev, reg, full]
          Commands(_, _), \* the commands [dpid, v] given to a unit of a plugin
          RoomTemps,      \* room temperatures in degrees
          MaxCommands     \* bound: commands in a behaviour (polls are not counted)

ASSUME UnitsDiffer == SameDev.dev = Unit.dev /\ SameDev.reg # Unit.reg /\ OtherDev.dev # Unit.dev

VARIABLES plug,    \* the plugin
          units,   \* its units on the line
          cache,   \* the static data of the plugin
          dev,     \* the state of each device
          told,    \* the cloud values each unit was told and executed
          ses,     \* the exchange that has the line: [u, o], or Idle
          req,     \* the frame on its way to the device
          count,   \* the commands so far
          line,    \* the answers sent that nobody has read yet
          rep      \* what was reported last, and from which answers

vars == <<plug, units, cache, dev, told, ses, req, line, rep, count>>

Idle == [u |-> Unit, o |-> [dpid |-> -1, v |-> 0]]
NoReq == << >>
NoRep == [u |-> Unit, objs |-> NoObjs, from |-> << >>]

\* Another session may be started while an answer is still unread.
MaxUnread == 2

(* ------------------------------ The devices ----------------------------- *)
\* A Modbus device is a bank of words; registers nobody wrote are zero.
Word(d, r) == Lookup(d, r)
RoomTemp == 235
DkAuth == 2

\* Some devices are read at other registers than they are written at.
ReadReg(p, u, d, fn, r) ==
  LET n == r - 2000
  IN CASE p \in {"DaikinAcd", "DaikinVent"} /\ fn = 4 ->
            CASE n % 6 = 4 -> RoomTemp
              [] n % 6 = 1 -> Word(d, 2000 + 3 * (n \div 6) + 1) + DkAuth * 64 * 256
              [] OTHER     -> Word(d, 2000 + 3 * (n \div 6) + (n % 6))
       [] p = "Dpurat" -> Word(d, r - 10)
       [] p = "Panel"  -> Word(d, r - 3)
       [] p = "SPTC" /\ fn = 4 -> Word(d, r - 47)
       [] OTHER        -> Word(d, r)

WordsFrom(p, u, d, fn, r, n) ==
  [i \in 1..(2 * n) |-> LET w == ReadReg(p, u, d, fn, r + (i - 1) \div 2)
                        IN IF i % 2 = 1 THEN Hi(w) ELSE Lo(w)]

BankExec(d, f) ==
  CASE At(f, 1) = 6  -> (WordAt(f, 2) :> WordAt(f, 4)) @@ d
    [] At(f, 1) = 5  -> (WordAt(f, 2) :> At(f, 4)) @@ d
    [] At(f, 1) = 16 -> (WordAt(f, 2) :> WordAt(f, 7)) @@ (WordAt(f, 2) + 1 :> WordAt(f, 9)) @@ d
    [] OTHER         -> d
BankAnswer(p, u, d, f) ==
  CASE At(f, 1) \in {5, 6} -> f
    [] At(f, 1) = 16 -> SubSeq(f, 1, 6) \o Zeros(2)
    [] At(f, 1) = 1  -> <<At(f, 0), 1, 1, Word(d, 0)>> \o Zeros(2)
    [] OTHER         -> <<At(f, 0), At(f, 1), 2 * At(f, 5)>>
                          \o WordsFrom(p, u, d, At(f, 1), WordAt(f, 2), At(f, 5)) \o Zeros(2)

\* ERDH: the mask has a bit for the humidity, the status byte has not.
ErdhExec(d, f) ==
  LET mask == At(f, 6)
      Bit(x, k) == (x \div 2^k) % 2
      Take(k, old) == IF Bit(mask, k) = 1 THEN Bit(At(f, 7), k) ELSE old
  IN IF At(f, 1) # 17 THEN d
     ELSE [sw |-> Take(0, d.sw), valve |-> Take(2, d.valve), speed |-> Take(3, d.speed),
           mode |-> Take(4, d.mode), humi |-> IF Bit(mask, 1) = 1 THEN At(f, 8) ELSE d.humi]

\* Every other device, as its plugin's frames show it.
InitialState(p, regs) ==
  CASE p = "ZhongHong" -> [r \in regs |-> [sw |-> 0, temp |-> 26, mode |-> 1, speed |-> 0]]
    [] p \in {"ERDH", "ERDH45"} -> [sw |-> 0, valve |-> 0, speed |-> 0, mode |-> 0, humi |-> 50]
    [] p \in {"noah", "AOK", "BinThen", "Changming", "HeChuang", "Dooya"} -> 0
    [] p \in {"TuoLi", "BROAN"} -> [sw |-> 0, speed |-> 0]
    [] OTHER -> [x \in {} |-> 0]

ZhField == 49 :> "sw" @@ 50 :> "temp" @@ 51 :> "mode" @@ 52 :> "speed"
Exec(p, d, f) ==
  CASE p = "ZhongHong" ->
         IF At(f, 1) = 80 THEN d ELSE [d EXCEPT ![WordAt(f, 4)][ZhField[At(f, 1)]] = At(f, 2)]
    [] p \in {"ERDH", "ERDH45"} -> ErdhExec(d, f)
    [] p = "noah"  -> IF At(f, 3) = 0 THEN d ELSE IF At(f, 4) = 0 THEN 0 ELSE At(f, 5)
    [] p = "AOK"   -> IF At(f, 4) # 10 THEN d ELSE Known(221 :> 0 @@ 238 :> 100, At(f, 5), d)
    [] p = "BinThen" -> IF BinThen_unpack(f).type = 2562 THEN BinThen_unpack(f).action ELSE d
    [] p \in {"Changming", "HeChuang"} ->
         IF At(f, 3) = 3 THEN Known(1 :> 100 @@ 2 :> 0, At(f, 4), d) ELSE d
    [] p = "Dooya" -> IF At(f, 3) = 3 THEN At(f, 4) ELSE d
    [] p = "TuoLi" -> IF At(f, 1) = 16 THEN [sw |-> At(f, 2), speed |-> At(f, 3)] ELSE d
    [] p = "BROAN" -> IF At(f, 6) = 90 THEN [sw |-> At(f, 3), speed |-> At(f, 4)] ELSE d
    [] p = "Purifier" -> d
    [] p \in KnxPluginNames -> IF f[1] = "READ" THEN d ELSE (f[1] :> f[2]) @@ d
    [] OTHER -> BankExec(d, f)

Answer(p, u, d, f) ==
  CASE p = "ZhongHong" ->
         IF At(f, 1) # 80 THEN f
         ELSE LET r == d[WordAt(f, 4)]
              IN SubSeq(f, 1, 6) \o <<r.sw, r.temp, r.mode, r.speed, 24, 0, 0>>
    [] p \in {"ERDH", "ERDH45"} ->
         IF At(f, 1) = 17 THEN SubSeq(f, 1, 6) \o Zeros(2)
         ELSE <<u.dev, 16, 0, 0, 0, 8, d.sw + 2 * d.valve + 4 * d.speed + 8 * d.mode, 0, d.humi, 55>> \o Zeros(5)
    [] p = "noah"  -> <<170, 165, u.dev, 0, 0, 0, d>> \o Zeros(16)
    [] p = "AOK"   -> <<216, u.dev, 128, 0, 204, 0, d>> \o Zeros(3)
    [] p = "BinThen" -> BinThen_package(u, 2561, d)
    [] p \in {"Changming", "HeChuang"} ->
         IF At(f, 3) = 3 THEN f ELSE SubSeq(f, 1, 5) \o <<d>> \o Zeros(2)
    [] p = "Dooya" -> IF At(f, 3) = 3 THEN f \o Zeros(1) ELSE SubSeq(f, 1, 5) \o <<d>> \o Zeros(2)
    [] p = "TuoLi" -> <<u.dev, 3, d.sw, d.speed>> \o Zeros(10)
    [] p = "BROAN" -> <<170, u.dev, 2, d.sw, d.speed, 0, 24, 0, 245>>
    [] p = "Purifier" -> IF At(f, 3) = 4 THEN <<170, u.dev, 26, 4>> \o Zeros(22) ELSE <<170, u.dev, 9, 5>> \o Zeros(5)
    [] p \in KnxPluginNames -> IF f[1] = "READ" THEN <<f[2], Word(d, f[2])>> ELSE f
    [] OTHER -> BankAnswer(p, u, d, f)

\* What parse() of the plugin shows of a device that is polled now.
PollFrame(p, c, u) ==
  IF p \in KnxPluginNames THEN <<"READ", KnxPollPoint(p)>> ELSE Build(p, c, u, Poll)
Shown(p, c, u, b) == Range(Objs(p, Received(p, c, u, b), u, b))
PollView(p, c, u, d) == Shown(p, c, u, [f |-> Answer(p, u, d, PollFrame(p, c, u)), ok |-> TRUE])
\* What such a poll showed of the device in state d and no longer shows in state e.
Changed(p, c, u, d, e) ==
  LET view == [x \in {d, e} |-> PollView(p, c, u, x)] IN view[d] \ view[e]

(* ------------------------------ The exchange ---------------------------- *)
RegsOf == {Unit.reg, SameDev.reg, OtherDev.reg}
DevsOf == {Unit.dev, OtherDev.dev}
UnitsOf(p) ==
  IF p \in KnxPluginNames THEN {{Unit}}
  ELSE {{Unit, OtherDev}} \cup (IF p \in GatewayPlugins THEN {{Unit, SameDev}} ELSE {})

Init ==
  /\ plug \in Plugins
  /\ units \in UnitsOf(plug)
  /\ cache = CacheOf(plug, RegsOf)
  /\ dev = [a \in DevsOf |-> InitialState(plug, RegsOf)]
  /\ told = [u \in units |-> [x \in {} |-> 0]]
  /\ ses = Idle
  /\ req = NoReq
  /\ line = << >>
  /\ rep = NoRep
  /\ count = 0

\* The static data shows the device as a poll would.
Fresh(u) ==
  plug # "AQI" /\ cache = Received(plug, cache, u,
                                  [f |-> Answer(plug, u, dev[u.dev], Build(plug, cache, u, Poll)), ok |-> TRUE])

\* ModbusDevWrite and the heartbeat: open (which flushes the answers that have
\* arrived), build, send, start to receive.  A frame the plugin refuses to
\* build ends the exchange at once.
Send(u, o) ==
  /\ ses = Idle /\ req = NoReq
  /\ o = Poll \/ count < MaxCommands
  /\ count' = IF o = Poll THEN count ELSE count + 1
  /\ \E f \in {Build(plug, cache, u, o)} \ {NoFrame} :
        req' = <<[u |-> u, o |-> o, f |-> f, fresh |-> Fresh(u)]>>
  /\ cache' = Sent(plug, cache, u, o)
  /\ ses' = [u |-> u, o |-> o]
  /\ rep' = NoRep
  /\ line' \in {line, << >>}
  /\ UNCHANGED <<plug, units, dev, told>>

\* What the unit has been told once it executed o: a curtain that was stopped
\* is somewhere, and whatever else the frame changed is not what it was told.
ToldAfter(u, o, d) ==
  LET pt == PointOf(plug, o.dpid)
      moved == {x[1] : x \in Changed(plug, cache, u, dev[u.dev], d)}
      kept == {q \in DOMAIN told[u] : q \notin moved}
      known == IF plug \in CurtainPlugins /\ o.v = 1 THEN kept \ {pt} ELSE kept \cup {pt}
  IN IF o = Poll THEN told[u] ELSE [q \in known |-> IF q = pt THEN o.v ELSE told[u][q]]

\* The device executes the request; its answer is lost or goes to the line.
Execute(lost) ==
  /\ req # NoReq
  /\ lost \/ Len(line) < MaxUnread
  /\ LET r == req[1]
     IN /\ dev' = [dev EXCEPT ![r.u.dev] = Exec(plug, @, r.f)]
        /\ told' = [told EXCEPT ![r.u] = ToldAfter(r.u, r.o, dev'[r.u.dev])]
        /\ line' = IF lost THEN line
                   ELSE Append(line, [u |-> r.u, o |-> r.o, f |-> Answer(plug, r.u, dev'[r.u.dev], r.f),
                                      truth |-> told'[r.u], late |-> ses = Idle])
  /\ req' = NoReq
  /\ UNCHANGED <<plug, units, cache, ses, rep, count>>

LoseRequest ==
  /\ req # NoReq
  /\ req' = NoReq
  /\ UNCHANGED <<plug, units, cache, dev, told, ses, line, rep, count>>

\* The receiver of the session reads everything there is and parses it.
Concat(answers) == IF Len(answers) = 1 THEN answers[1].f ELSE answers[1].f \o answers[2].f
Report(u, answers) ==
  LET b == [f |-> Concat(answers), ok |-> Len(answers) = 1]
  IN /\ cache' = Received(plug, cache, u, b)
     /\ rep' = [u |-> u, objs |-> Objs(plug, cache', u, b), from |-> answers]
Receive ==
  /\ ses # Idle /\ line # << >>
  /\ Report(ses.u, line)
  /\ line' = << >>
  /\ ses' = Idle
  /\ UNCHANGED <<plug, units, dev, told, req, count>>

\* Nothing came in time; it may still come later.
Timeout ==
  /\ ses # Idle
  /\ ses' = Idle
  /\ line' = [i \in DOMAIN line |-> [line[i] EXCEPT !.late = TRUE]]
  /\ UNCHANGED <<plug, units, cache, dev, told, req, rep, count>>

\* What devices send on their own: the air sensor its measurements, a KNX
\* device the room temperature t.
Push(u, t) ==
  /\ ses = Idle /\ line = << >>
  /\ LET pt == CASE plug \in KnxAcdPlugins -> "ACD_ENV_TEMP" [] plug \in KnxHeatPlugins -> "HEAT_ENV_TEMP"
                 [] plug = "KnxStecVent" -> "VENT_ENV_TEMP" [] OTHER -> "HEAT_TEMP"
         f == IF plug = "AQI" THEN <<u.dev, 66>> \o Zeros(9) \o W(t + 25) \o Zeros(12)
              ELSE <<pt, ConvetTemp2Uint16(100 * t)>>
     IN /\ plug \in KnxAcdPlugins \cup KnxHeatPlugins \cup {"KnxStecVent", "AQI"}
        /\ Report(u, <<[u |-> u, o |-> Poll, f |-> f, truth |-> (pt :> t), late |-> FALSE]>>)
  /\ UNCHANGED <<plug, units, dev, told, ses, req, line, count>>

Next ==
  \/ \E u \in units : \/ \E o \in {Poll} \cup Commands(plug, u) : Send(u, o)
                      \/ \E t \in RoomTemps : Push(u, t)
  \/ \E lost \in BOOLEAN : Execute(lost)
  \/ LoseRequest
  \/ Receive
  \/ Timeout

Spec == Init /\ [][Next]_vars

(* ------------------------------- Properties ----------------------------- *)
\* The points a plugin does not tell the truth about.
DefectivePoints(p) ==
  CASE p = "ZhongHong" -> {"ACD_SPEED"}
    [] p = "TG"        -> {"ACD_SWITCH", "ACD_TEMP", "ACD_MODE", "ACD_SPEED"}
    [] p = "ERDH"      -> {"VENT_SWITCH", "VENT_SPEED", "VENT_MODE"}
    [] p = "Dooya"     -> {"CURTAIN_SWITCH"}
    [] OTHER           -> {}

\* ConvetUint162Temp does not extend the sign: no KNX plugin reports a
\* temperature below zero, although their headers give ranges from -20 or -10.
SignLost(p, v) == p \in KnxPluginNames /\ v < 0

\* These take the acknowledgement of a write for one of the last command built,
\* whichever it belongs to.
TrustAnyAck == {"Broan"}

\* What is reported from the answer of the session's own unit is what that
\* unit was told: build() and parse() of every plugin, with its tables, its
\* registers and its static data, undo each other, but for the points and the
\* negative temperatures named above.
TrueReports ==
  (Len(rep.from) = 1 /\ rep.from[1].u = rep.u /\ ~(plug \in TrustAnyAck /\ rep.from[1].late)) =>
     \A i \in DOMAIN rep.objs :
        LET pt == rep.objs[i][1]  truth == rep.from[1].truth
        IN pt \in DOMAIN truth \ DefectivePoints(plug) /\ ~SignLost(plug, truth[pt]) =>
             rep.objs[i][2] = truth[pt]

\* The plugins that look for no address in an answer.
Deaf == {"noah", "BinThen"}
\* An answer that comes late, read in the session of a unit with another
\* address, is not reported as that unit's.
ForeignIgnored ==
  \A i \in DOMAIN rep.from :
     (rep.from[i].u.dev # rep.u.dev /\ Len(rep.from) = 1 /\ plug \notin Deaf) => rep.objs = NoObjs

\* The points a command also sets, by the device's protocol.
SetsToo(p, pt) ==
  CASE p \in {"Broan", "noah", "TuoLi", "BROAN"} -> {"VENT_SWITCH", "VENT_SPEED"}
    [] p \in {"ERDH", "ERDH45"} /\ pt = "VENT_SWITCH" -> {"VENT_VALVE"}
    [] p = "DaikinAcd" /\ pt = "ACD_SPEED" -> {"ACD_SWITCH"}
    [] OTHER -> {}

\* A poll of TG is never understood, one of DTouch only under numbers that are
\* no local points.
Unreadable == {"TG", "DTouch"}

(* A command that reaches a unit leaves its other points as they were, when *)
(* the plugin's picture of the unit was right: several points share one     *)
(* register, and what is not commanded is written from that picture.        *)
OthersKept ==
  [][\A u \in units :
       (req # NoReq /\ req' = NoReq /\ dev' # dev /\ req[1].u = u /\ req[1].o # Poll /\ req[1].fresh /\ plug \notin Unreadable) =>
          LET pt == PointOf(plug, req[1].o.dpid)
          IN \A x \in Changed(plug, cache, u, dev[u.dev], dev'[u.dev]) : x[1] \in {pt} \cup SetsToo(plug, pt)]_vars
=============================================================================
