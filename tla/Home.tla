-------------------------------- MODULE Home --------------------------------
(***************************************************************************)
(* The gateway in a home, after main() has started its threads: the        *)
(* callbacks of the cloud library that bind, unbind and watch sub-devices, *)
(* the two threads that report positions, the key and the digital inputs.  *)
(*                                                                         *)
(* The cloud library (Tuya) is external: it keeps the set of bound devices *)
(* on disk, answers a bind later with a callback, calls one callback at a  *)
(* time, and its traversal returns every bound device once, also one that  *)
(* is bound or unbound meanwhile.  It takes no report of a device that is  *)
(* not bound, and may refuse to unbind or to watch one.  The key and the   *)
(* inputs share no state with the callbacks but `online' and the mode      *)
(* file, so a behaviour exercises either the callbacks or the key and the  *)
(* inputs (`awake').                                                       *)
(***************************************************************************)
EXTENDS Boot

CONSTANTS
  PosMax,     \* queue_create_limited(10) for pPosQueue
  BindMax,    \* queue_create_limited(200) for pBindPosQueue
  LongPress,  \* 250 key events
  Clicks,     \* 5 short presses
  RetryNum,   \* 3 scans
  Trigger     \* eLevel of the input

ASSUME HomeAssumption ==
  /\ {PosMax, BindMax, LongPress, Clicks, RetryNum} \subseteq Nat \ {0} /\ Trigger \in {0, 1}

VARIABLES
  awake,      \* "cloud" or "inputs"
  online,     \* g_bActive and g_bOnline
  bound,      \* the devices the library has bound (kept over a restart)
  pending,    \* binds it has not answered yet
  hb,         \* the devices it watches (hb_cfg)
  cb,         \* the callback that runs: "idle", "removing" or "resetting"
  dev_if,     \* the device it has in hand, or NULL
  iter,       \* the devices its traversal has not returned yet
  posq,       \* notes in pPosQueue
  bindq,      \* pBindPosQueue
  walk,       \* ReportPosThread: whether it walks, and the devices visited
  known,      \* the bound devices whose position the cloud has
  refused,    \* the bound devices whose note or report was refused while online
  press, release, \* key_scan
  mode,       \* the file of the engineering mode exists (kept over a restart)
  rebooting,  \* the system has been told to reboot
  input, stable, \* the level last read, and how many scans it has been the same
  cnt, status,   \* retryCnt and status of the input
  shown, blind   \* what the cloud shows of it; a change it was not told of

cloudVars == <<bound, pending, hb, cb, dev_if, iter, bindq, walk, known, refused>>
keyVars == <<press, release, rebooting>>
diVars == <<input, stable, cnt, status, shown, blind>>
runVars == <<awake, online, posq, mode, cloudVars, keyVars, diVars>>
homeVars == <<bootVars, runVars>>

NoWalk == [on |-> FALSE, seen |-> {}]
NoStatus == "unknown"

MbusOf(d) == {e.key : e \in {x \in Range(d.mbus) : x.master /\ ~x.member}}
KnxOf(d) == {e.key : e \in {x \in Range(d.knx) : x.master}}
\* The devices Knx_DevBind, Modbus_DevBind and DIO_DevBind bind
Bindable == KnxOf(doc) \cup MbusOf(doc) \cup Range(doc.di)
\* The devices each of the Unbind functions unbinds
UnbindsOf(type) ==
  CASE type = "knx"  -> {e.key : e \in Range(doc.knx)}
    [] type = "mbus" -> {e.key : e \in {x \in Range(doc.mbus) : x.master}}
    [] type = "dio"  -> Range(doc.di)

HomeInit ==
  /\ BootInit
  /\ awake = "none" /\ online = FALSE /\ bound = {} /\ pending = {} /\ hb = {}
  /\ cb = "idle" /\ dev_if = NoKey /\ iter = {}
  /\ posq = 0 /\ bindq = << >> /\ walk = NoWalk /\ known = {} /\ refused = {}
  /\ press = 0 /\ release = 0 /\ mode = FALSE /\ rebooting = FALSE
  /\ input = 1 - Trigger /\ stable = 0 /\ cnt = 0 /\ status = NoStatus
  /\ shown = NoStatus /\ blind = FALSE

\* hb_cfg for devs; a device for which it fails is only logged.
Watch(devs) == \E failed \in SUBSET devs : hb' = hb \cup (devs \ failed)

\* main registers the callbacks and runs its threads; misc_heartbeat_cfg has
\* every bound device watched, whether its configuration asks for that or not.
Start(a) ==
  /\ stage = "start" /\ stage' = "run"
  /\ awake \in {"none", a} /\ awake' = a
  /\ Watch(bound)
  /\ UNCHANGED <<at, doc, grp, link, chain, pIf, opened, online, posq, mode, bound, pending, cb,
                 dev_if, iter, bindq, walk, known, refused, keyVars, diVars>>

-----------------------------------------------------------------------------
(* Callbacks of the cloud library *)

Callback == stage = "run" /\ awake = "cloud" /\ cb = "idle"
UnchangedButCloud == UNCHANGED <<bootVars, awake, mode, keyVars, diVars>>

\* queue_put(pPosQueue): a full queue refuses
PutPos == posq' = IF posq < PosMax THEN posq + 1 ELSE posq

\* (fault) the positions are only asked for when the gateway is registered
OnlineUnnoted(on) == stage = "run" /\ cb = "idle" /\ on # online /\ online' = on /\ UNCHANGED <<posq, cloudVars>>
                     /\ UnchangedButCloud

_gw_online_status_changed_cb(on) ==
  /\ stage = "run" /\ cb = "idle" /\ on # online
  /\ online' = on
  /\ IF on THEN PutPos ELSE UNCHANGED posq
  /\ UNCHANGED cloudVars /\ UnchangedButCloud

\* App: add devices.  A bind that fails is logged.  Inputs already bound are
\* watched anew.
_misc_dev_add_cb(fail) ==
  /\ Callback
  /\ pending' = pending \cup (Bindable \ (bound \cup fail))
  /\ Watch(Range(doc.di) \cap bound)
  /\ UNCHANGED <<online, posq, bound, cb, dev_if, iter, bindq, walk, known, refused>> /\ UnchangedButCloud

\* The library could not bind: only logged.
BindFails(d) ==
  /\ Callback /\ d \in pending /\ pending' = pending \ {d}
  /\ UNCHANGED <<online, posq, bound, hb, cb, dev_if, iter, bindq, walk, known, refused>> /\ UnchangedButCloud

\* The KNX device exists and is configured without online check.  (The same
\* question about a Modbus device is asked with its key and finds none.)
Unwatched(d) ==
  \/ \E e \in Range(doc.knx) : e.key = FindKnx(d) /\ ~e.check
  \/ \E e \in Range(doc.mbus) : e.key = FindMbus(d) /\ ~e.check

\* The library has bound d.
_misc_dev_bind_ifm_cb(d) ==
  /\ Callback /\ d \in pending /\ pending' = pending \ {d} /\ bound' = bound \cup {d}
  /\ IF Len(bindq) < BindMax
       THEN bindq' = Append(bindq, d) /\ UNCHANGED refused
       ELSE refused' = refused \cup {d} /\ UNCHANGED bindq
  /\ Watch(IF Unwatched(d) THEN {} ELSE {d})
  /\ UNCHANGED <<online, posq, cb, dev_if, iter, walk, known>> /\ UnchangedButCloud

Forget(gone) ==
  /\ bound' = bound \ gone /\ hb' = hb \ gone /\ known' = known \ gone /\ refused' = refused \ gone

\* App: remove d.  The Unbind function of its protocol unbinds every device of
\* its list that is bound; those that fail are logged.
_misc_dev_del_cb(d, fail) ==
  /\ Callback /\ d \in bound
  /\ Forget((UnbindsOf(d.type) \cap bound) \ fail)
  /\ UNCHANGED <<online, posq, pending, cb, dev_if, iter, bindq, walk>> /\ UnchangedButCloud

\* The gateway is registered: positions are reported.
GatewayRegistered ==
  /\ Callback /\ PutPos
  /\ UNCHANGED <<online, cloudVars>> /\ UnchangedButCloud

\* Both walk over the bound devices with the library's traversal.
Traverse(left) ==
  IF left = {} THEN dev_if' = NoKey /\ iter' = {}
               ELSE \E d \in left : dev_if' = d /\ iter' = left \ {d}

\* The gateway was removed (_gw_active_status_changed_cb) or is reset
\* (_gw_reset_cb).
GatewayGone(how) ==
  /\ stage = "run" /\ cb = "idle" /\ cb' = how
  /\ Traverse(bound)
  /\ UNCHANGED <<online, posq, bound, pending, hb, bindq, walk, known, refused>> /\ UnchangedButCloud

\* (fault) the walk goes on to the next device after a refusal
UnbindSkips(ok) ==
  /\ stage = "run" /\ cb # "idle" /\ dev_if # NoKey
  /\ IF ok THEN Forget({dev_if}) ELSE UNCHANGED <<bound, hb, known, refused>>
  /\ Traverse(iter)
  /\ UNCHANGED <<online, posq, pending, cb, bindq, walk>> /\ UnchangedButCloud

\* One turn of the loop: a device that was not unbound stays in hand.
UnbindNext(ok) ==
  /\ stage = "run" /\ cb # "idle" /\ dev_if # NoKey
  /\ IF ok THEN Forget({dev_if}) /\ Traverse(iter)
           ELSE UNCHANGED <<bound, hb, known, refused, dev_if, iter>>
  /\ UNCHANGED <<online, posq, pending, cb, bindq, walk>> /\ UnchangedButCloud

\* The traversal has returned NULL; a reset also leaves the engineering mode.
UnbindEnds ==
  /\ stage = "run" /\ cb # "idle" /\ dev_if = NoKey /\ cb' = "idle"
  /\ mode' = (mode /\ cb # "resetting")
  /\ UNCHANGED <<online, posq, bound, pending, hb, dev_if, iter, bindq, walk, known, refused>>
  /\ UNCHANGED <<bootVars, awake, keyVars, diVars>>

-----------------------------------------------------------------------------
(* Threads that report positions *)

\* The position of d is reported.  The threads do not ask whether d is still
\* bound: the library takes no report of a device that is not, and may refuse
\* others.
Report(d, ok) ==
  IF online /\ ok /\ d \in bound
    THEN known' = known \cup {d} /\ refused' = refused \ {d}
    ELSE UNCHANGED known /\ refused' = IF online /\ d \in bound THEN refused \cup {d} ELSE refused

\* A note has come: the thread walks.  (What it says of the modes of a smart panel
\* along with the position is left out.)
ReportPosThread ==
  /\ stage = "run" /\ ~walk.on /\ posq > 0 /\ awake = "cloud"
  /\ posq' = posq - 1 /\ walk' = [on |-> TRUE, seen |-> {}]
  /\ UNCHANGED <<online, bound, pending, hb, cb, dev_if, iter, bindq, known, refused>> /\ UnchangedButCloud

ReportPosNext(d, ok) ==
  /\ stage = "run" /\ walk.on /\ d \in bound \ walk.seen
  /\ walk' = [walk EXCEPT !.seen = @ \cup {d}] /\ Report(d, ok)
  /\ UNCHANGED <<online, posq, bound, pending, hb, cb, dev_if, iter, bindq>> /\ UnchangedButCloud

ReportPosEnd ==
  /\ stage = "run" /\ walk.on /\ bound \subseteq walk.seen
  /\ walk' = NoWalk
  /\ UNCHANGED <<online, posq, bound, pending, hb, cb, dev_if, iter, bindq, known, refused>> /\ UnchangedButCloud

ReportBindPosThread(ok) ==
  /\ stage = "run" /\ bindq # << >>
  /\ bindq' = Tail(bindq) /\ Report(Head(bindq), ok)
  /\ UNCHANGED <<online, posq, bound, pending, hb, cb, dev_if, iter, walk>> /\ UnchangedButCloud

-----------------------------------------------------------------------------
(* The key *)

Thread == stage = "run" /\ awake = "inputs" /\ ~rebooting
UnchangedButKey == UNCHANGED <<bootVars, awake, online, posq, cloudVars, diVars>>

\* A press, or a repetition while the key is held
KeyHeld ==
  /\ Thread
  /\ press' = IF press > LongPress THEN press ELSE press + 1
  /\ UNCHANGED <<release, mode, rebooting>> /\ UnchangedButKey

\* The key is released after a long press: tuya_user_iot_reset_gw
KeyReleasedLong ==
  /\ Thread /\ press > LongPress /\ press' = 0
  /\ UNCHANGED <<release, mode, rebooting>> /\ UnchangedButKey

\* open(O_CREAT | O_EXCL): the file afterwards, and the result
EngineeringMode(m) == <<TRUE, IF m THEN 1 ELSE 0>>
BusinessMode(m) == FALSE

\* After a short press: the fifth one since the start switches the mode and
\* reboots.  release goes on counting, to no effect.
KeyReleased ==
  /\ Thread /\ press \in 1..LongPress /\ press' = 0
  /\ release' = IF release > Clicks THEN release ELSE release + 1
  /\ IF release + 1 = Clicks
       THEN /\ mode' = IF EngineeringMode(mode)[2] = 0 THEN TRUE ELSE BusinessMode(mode)
            /\ rebooting' = TRUE
       ELSE UNCHANGED <<mode, rebooting>>
  /\ UnchangedButKey

\* The system reboots, or loses power at any moment.  The parsers and the
\* association compute the same again.
Restart ==
  /\ stage = "run" /\ stage' = "start"
  /\ online' = FALSE /\ pending' = {} /\ hb' = {}
  /\ cb' = "idle" /\ dev_if' = NoKey /\ iter' = {}
  /\ posq' = 0 /\ bindq' = << >> /\ walk' = NoWalk
  /\ press' = 0 /\ release' = 0 /\ rebooting' = FALSE
  /\ cnt' = 0 /\ status' = NoStatus /\ blind' = FALSE /\ stable' = 0
  /\ UNCHANGED <<at, doc, grp, link, chain, pIf, opened, awake, mode, bound, known, refused, input, shown>>

-----------------------------------------------------------------------------
(* The digital inputs *)

Low == "low"
High == "high"
LevelOf(v) == IF v = Trigger THEN Low ELSE High

\* (fault) the counter runs one scan further
ScanLate(v, c) ==
  IF v = Trigger
    THEN IF c < RetryNum THEN <<RetryNum, NoStatus>> ELSE IF c <= 2 * RetryNum THEN <<c + 1, NoStatus>> ELSE <<c, Low>>
    ELSE IF c > RetryNum THEN <<RetryNum, NoStatus>> ELSE IF c # 0 THEN <<c - 1, NoStatus>> ELSE <<c, High>>

\* (fault) a level settles one scan early
ScanEarly(v, c) ==
  IF v = Trigger
    THEN IF c < RetryNum THEN <<RetryNum, NoStatus>> ELSE IF c < (2 * RetryNum) - 1 THEN <<c + 1, NoStatus>> ELSE <<c, Low>>
    ELSE IF c > RetryNum THEN <<RetryNum, NoStatus>> ELSE IF c # 0 THEN <<c - 1, NoStatus>> ELSE <<c, High>>

\* retryCnt after a reading, and the level that has settled, if one has
Scan(v, c) ==
  IF v = Trigger
    THEN IF c < RetryNum THEN <<RetryNum, NoStatus>> ELSE IF c < 2 * RetryNum THEN <<c + 1, NoStatus>> ELSE <<c, Low>>
    ELSE IF c > RetryNum THEN <<RetryNum, NoStatus>> ELSE IF c # 0 THEN <<c - 1, NoStatus>> ELSE <<c, High>>

\* One round of di_scan that reads v: a level that has settled anew is recorded,
\* and reported when the gateway is active; ok says whether the report succeeds.
di_scan(v, ok) ==
  /\ Thread
  /\ input' = v /\ stable' = IF v # input THEN 1 ELSE IF stable > RetryNum + 2 THEN stable ELSE stable + 1
  /\ cnt' = Scan(v, cnt)[1]
  /\ LET level == Scan(v, cnt)[2] IN
       IF level = NoStatus \/ level = status
         THEN UNCHANGED <<status, shown, blind>>
         ELSE /\ status' = level
              /\ IF online /\ ok THEN shown' = level /\ blind' = FALSE
                                 ELSE UNCHANGED shown /\ blind' = TRUE
  /\ UNCHANGED <<bootVars, awake, online, posq, mode, cloudVars, keyVars>>

HomeNext ==
  \/ BootNext /\ UNCHANGED runVars
  \/ \E a \in {"cloud", "inputs"} : Start(a)
  \/ \E on \in BOOLEAN : _gw_online_status_changed_cb(on)
  \/ \E fail \in SUBSET Bindable : _misc_dev_add_cb(fail)
  \/ \E d \in pending : BindFails(d) \/ _misc_dev_bind_ifm_cb(d)
  \/ \E d \in bound : \E fail \in SUBSET bound : _misc_dev_del_cb(d, fail)
  \/ GatewayRegistered
  \/ \E how \in {"removing", "resetting"} : GatewayGone(how)
  \/ \E ok \in BOOLEAN : UnbindNext(ok)
  \/ UnbindEnds
  \/ ReportPosThread
  \/ \E d \in bound, ok \in BOOLEAN : ReportPosNext(d, ok)
  \/ ReportPosEnd
  \/ \E ok \in BOOLEAN : ReportBindPosThread(ok)
  \/ KeyHeld
  \/ KeyReleasedLong
  \/ KeyReleased
  \/ Restart
  \/ \E v \in {0, 1}, ok \in BOOLEAN : di_scan(v, ok)

-----------------------------------------------------------------------------
(* Properties *)

\* When both threads have nothing left to do and the gateway is online, the
\* cloud has the position of every bound device, but for those it was refused
\* while online: binds, restarts and losses of the connection in any order,
\* reports that fell into an outage, and a queue that refuses notes included.
PositionsKnown ==
  (stage = "run" /\ online /\ posq = 0 /\ bindq = << >> /\ ~walk.on /\ awake = "cloud")
     => bound \subseteq known \cup refused

\* main.c on _gw_active_status_changed_cb: the gateway was deleted, so all
\* sub-devices must be unbound.  The callback, and the one of a reset, returns
\* only when none is bound, however often the library refused some of them; the
\* gateway may restart before.
RemovalClears == [][(cb # "idle" /\ cb' = "idle" /\ stage' = "run") => bound' = {}]_homeVars

\* An input that has kept its level for two scans more than retryNum is
\* recorded with that level, and the cloud shows it, unless the change fell into
\* a time without connection or its report failed: it is not repeated.
InputShown ==
  stable >= RetryNum + 2 => status = LevelOf(input) /\ (shown = status \/ blind)

\* A recorded level changes only after more than retryNum equal readings in a
\* row: a shorter disturbance of a contact is not reported.
GlitchIgnored == [][(status' # status /\ status # NoStatus /\ stage' = stage) => stable' > RetryNum]_homeVars
=============================================================================
