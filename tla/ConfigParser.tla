---------------------------- MODULE ConfigParser ----------------------------
(***************************************************************************)
(* A section of the configuration is parsed: cell by cell, element by      *)
(* element, into a list of devices.  The rules of the elements are those   *)
(* of ConfigMbus and ConfigKnx, one table per parser of parseXML.c.        *)
(*                                                                         *)
(* The document is the section with every element the parser knows, in the *)
(* order in which the parser names them, written twice, where at most one  *)
(* element of one cell differs: it is missing, it stands first, or it has  *)
(* one of the forms of ConfigRules.  Memory allocations succeed.           *)
(***************************************************************************)
EXTENDS ConfigMbus, ConfigKnx, FiniteSets

CONSTANTS Sections,  \* the sections that are parsed
          Items      \* bound: the cells of an Item

Parsers == MbusSections @@ KnxSections

ASSUME SectionsAssumption == Sections \subseteq DOMAIN Parsers /\ Items \in Nat \ {0}

VARIABLES
  sec,   \* the section
  dv,    \* how the document differs from the complete one
  cell,  \* the cell that is parsed
  pos,   \* the next element of the cell
  item,  \* the cells of the Item that are listed
  s,     \* the device under construction: memory, channels, program
  list   \* the devices listed

vars == <<sec, dv, cell, pos, item, s, list>>

K == Parsers[sec]
Cells == IF sec \in {"Gateway", "GatewayElement", "Zigbee", "KNX"} THEN 1 ELSE 2
Templated(k) == k.keys # <<>>

-----------------------------------------------------------------------------
(* Documents *)

Plain == [cell |-> 0, item |-> 0, el |-> "", kid |-> "", how |-> "ok"]
Forms(r) == {"missing", "first"} \cup (IF IsGroup(r) THEN {"empty"} ELSE DOMAIN r.on)

ElementDeviations(rules, c, i) ==
  {[cell |-> c, item |-> i, el |-> r.el, kid |-> "", how |-> h] : r \in ToSet(rules), h \in UNION {Forms(q) : q \in ToSet(rules)}}
KidDeviations(r, c) ==
  {[cell |-> c, item |-> 0, el |-> r.el, kid |-> k.el, how |-> h] :
     k \in ToSet(r.kids), h \in UNION {Forms(q) : q \in ToSet(r.kids)}}

Rule(rules, e) == CHOOSE r \in ToSet(rules) : r.el = e
\* every form of every element, child and key of cells 1..n
Deviations(k, n) ==
  {d \in UNION {ElementDeviations(k.elements, c, 0) : c \in 1..n} : d.how \in Forms(Rule(k.elements, d.el))}
  \cup
  {d \in UNION {KidDeviations(r, c) : r \in {q \in ToSet(k.elements) : IsGroup(q)}, c \in 1..n} :
     d.how \in Forms(Rule(Rule(k.elements, d.el).kids, d.kid))}
  \cup
  {d \in UNION {ElementDeviations(k.keys, c, i) : c \in 1..n, i \in 1..Items} : d.how \in Forms(Rule(k.keys, d.el))}

Arrange(rules, e, how) ==
  LET others == SelectSeq(rules, LAMBDA r : r.el # e)
  IN CASE how = "missing" -> others
       [] how = "first" /\ \E r \in ToSet(rules) : r.el = e -> <<Rule(rules, e)>> \o others
       [] OTHER -> rules

HowOf(c, i, e, kid) ==
  IF dv = [Plain EXCEPT !.cell = c, !.item = i, !.el = e, !.kid = kid, !.how = dv.how]
     /\ dv.how \notin {"missing", "first"} THEN dv.how ELSE "ok"

Elements(c) ==
  IF dv.cell = c /\ dv.item = 0 /\ dv.kid = "" THEN Arrange(K.elements, dv.el, dv.how) ELSE K.elements
Kids(c, r) ==
  CASE HowOf(c, 0, r.el, "") = "empty" -> <<>>
    [] dv.cell = c /\ dv.item = 0 /\ dv.el = r.el /\ dv.kid # "" -> Arrange(r.kids, dv.kid, dv.how)
    [] OTHER -> r.kids
Keys(c, i) == IF dv.cell = c /\ dv.item = i THEN Arrange(K.keys, dv.el, dv.how) ELSE K.keys

-----------------------------------------------------------------------------
Init ==
  /\ sec \in Sections /\ dv \in {Plain} \cup Deviations(K, Cells)
  /\ cell = 1 /\ pos = 1 /\ item = 0 /\ s = Fresh /\ list = <<>>

From(c, i, e) == [cell |-> c, item |-> i, at |-> <<e>>]

\* One turn of the loop over the children of the cell.  A loop that spins
\* does not move on.
ReadElement ==
  /\ s.st = "run" /\ pos <= Len(Elements(cell))
  /\ LET r == Elements(cell)[pos]
         kids == Kids(cell, r)
         how == [k \in {kids[i].el : i \in DOMAIN kids} |-> HowOf(cell, 0, r.el, k)]
     IN s' = IF IsGroup(r) THEN ReadGroup(r, kids, how, From(cell, 0, r.el), s)
             ELSE ReadLeaf(r, HowOf(cell, 0, r.el, ""), <<>>, From(cell, 0, r.el), s)
  /\ pos' = IF s'.st = "run" THEN pos + 1 ELSE pos
  /\ UNCHANGED <<sec, dv, cell, item, list>>

\* (fault) the local variables outlive the cell in every section
NextDeviceCarries(t) ==
  [Fresh EXCEPT !.mem = [p \in DOMAIN t.mem \cap Locals |-> t.mem[p]], !.st = t.st]

\* The memory of the next cell: empty, but for local variables that outlive
\* the cell
NextDevice(t) ==
  IF t.st = "run" /\ K.carry
  THEN [Fresh EXCEPT !.mem = [p \in DOMAIN t.mem \cap Locals |-> t.mem[p]]]
  ELSE [Fresh EXCEPT !.st = t.st]

Listed(i, t, type) == [cell |-> cell, item |-> i, type |-> type, sum |-> t.sum, mem |-> Device(t.mem)]

\* The end of a cell that describes one device
EndCell ==
  /\ s.st = "run" /\ pos > Len(Elements(cell)) /\ ~Templated(K)
  /\ LET t == FinishKeys(K.foreign, s)
         u == IF cell = Cells /\ t.st = "run" THEN "done" ELSE t.st
     IN /\ list' = IF t.st = "run" THEN Append(list, Listed(0, t, K.type)) ELSE list
        /\ s' = [NextDevice(t) EXCEPT !.st = u]
  /\ cell' = cell + 1 /\ pos' = 1
  /\ UNCHANGED <<sec, dv, item>>

\* A copy of the template for a cell of its Item: the base, the points that
\* are copied, then the keys, of which PrimaryKey gives the type.
Copy(t) == [p \in {q \in DOMAIN t.mem : Len(q) = 1 \/ q[1] \in K.copies} |-> t.mem[p]]
ReadKeys(c, i, t) ==
  LET read(u, r) == ReadLeaf(r, HowOf(c, i, r.el, ""), <<>>, From(c, i, r.el), u)
  IN FinishKeys("typed", FoldLeft(read, [t EXCEPT !.mem = Copy(t)], Keys(c, i)))

ListCopy ==
  /\ s.st = "run" /\ pos > Len(Elements(cell)) /\ Templated(K)
  /\ <<"Item">> \in DOMAIN s.mem /\ item < Items
  /\ LET t == ReadKeys(cell, item + 1, s)
         type == IF <<"PrimaryKey">> \in DOMAIN t.mem THEN K.keyType ELSE K.type
     IN \/ t.st = "run" /\ list' = Append(list, Listed(item + 1, t, type)) /\ item' = item + 1 /\ UNCHANGED s
        \/ t.st # "run" /\ s' = [s EXCEPT !.st = t.st] /\ UNCHANGED <<list, item>>
  /\ UNCHANGED <<sec, dv, cell, pos>>

\* The end of a cell with an Item: the template is freed
EndTemplate ==
  /\ s.st = "run" /\ pos > Len(Elements(cell)) /\ Templated(K)
  /\ <<"Item">> \in DOMAIN s.mem => item = Items
  /\ s' = [Fresh EXCEPT !.st = IF cell = Cells THEN "done" ELSE "run"]
  /\ cell' = cell + 1 /\ pos' = 1 /\ item' = 0
  /\ UNCHANGED <<sec, dv, list>>

\* The parser has returned, the program has ended, or it turns in a loop that
\* does not move on.
Ended == s.st # "run" /\ UNCHANGED vars

Next == ReadElement \/ EndCell \/ ListCopy \/ EndTemplate \/ Ended

Spec == Init /\ [][Next]_vars
-----------------------------------------------------------------------------
(* Properties *)

\* Devices do not change once listed: they are looked at when the parser ends,
\* in whatever way.
Devices == IF s.st = "run" THEN {} ELSE ToSet(list)

DecidedTwice == {"attri", "feature", "brightFeature"}
Own(d, v) == v.cell = d.cell /\ v.item \in {0, d.item}

\* What the parsers are known to get wrong.  Panels, dimmers, inputs and
\* outputs keep the keys of the cell before in local variables, so a cell
\* without PrimaryKey gets that of its neighbour; the fault point of the
\* gateway is written over its reset point (parseXML.c:222).
Inherits(d, p) == K.carry /\ p = <<"PrimaryKey">> /\ dv.cell = d.cell /\ dv.el = "PrimaryKey"
Overwritten(p) == sec = "Gateway" /\ p = <<"reset">>
\* The copies of a template leave these points out (parseXML.c:950-965, 1463-1480).
Lost(r) == \/ sec = "MbusVent" /\ r.el \in {"Humi", "Mode", "Valve", "EnvHumi"}
           \/ sec = "MbusHeat" /\ r.el = "Fault"

\* A device holds only what its own cell (and its own cell of the Item) says,
\* each value in the field of its element, in whatever order the elements
\* stand and whatever the cell before said.  A field that is garbage belongs
\* to a cell with an element that is wrong or missing.
OnlyItsOwn ==
  \A d \in Devices : \A p \in DOMAIN d.mem :
    LET v == d.mem[p] IN
      \/ v = Junk /\ dv.cell = d.cell
      \/ Own(d, v) /\ (Last(p) = Last(v.at) \/ Last(p) \in DecidedTwice)
      \/ Inherits(d, p) \/ Overwritten(p)

\* Everything a cell says well is in its device: each element and each point
\* with all its addresses, and the foreign key once its type is known (or,
\* for KNX, once the device is a master).
NothingLost ==
  \A d \in Devices :
    /\ \A r \in ToSet(Elements(d.cell)) :
         IF IsGroup(r)
         THEN (dv.cell = d.cell /\ dv.el = r.el /\ dv.how # "first") \/ Lost(r) \/ r.slot # "no"
              \/ \A f \in Fields(r) : <<r.el, f>> \in DOMAIN d.mem
         ELSE HowOf(d.cell, 0, r.el, "") # "ok" \/ r.el = "Item" \/ r.el = "fault"
              \/ \A f \in r.sets \ {"room", "given", "wanted"} : <<f>> \in DOMAIN d.mem
    /\ dv \in {Plain, [dv EXCEPT !.how = "first"]} =>
         /\ \A r \in ToSet(K.keys) : r.el \in {"ForeignKey"} \/ <<r.el>> \in DOMAIN d.mem
         /\ \A r \in ToSet(K.elements) \cup ToSet(K.keys) :
              r.el \in {"PrimaryKey", "ForeignKey"} => <<r.el>> \in DOMAIN d.mem

\* No two points of a Modbus device have the same local point: a plug-in's
\* answer is reported to one data point of the cloud only.
PointsDistinct ==
  \A d \in Devices :
    \A q, r \in {g \in ToSet(K.elements) : IsGroup(g) /\ <<g.el, "DataPoint">> \in DOMAIN d.mem} :
      q.local = r.local /\ q.local # "" => q = r

\* A key of a panel or dimmer has the addresses of one channel, the keys stand
\* in the order of the channels, and the number of keys, which makes the type
\* of the device, is the number of channels with an address.
ChannelsUnmixed ==
  \A d \in Devices :
    LET from(n) == {d.mem[p].at[1] : p \in {q \in Written(d.mem) : Len(q) = 3 /\ q[2] = n}}
        order == SelectSeq(Elements(d.cell), LAMBDA r : IsGroup(r) /\ r.slot # "no")
        filled == SelectSeq(order, LAMBDA r : HowOf(d.cell, 0, r.el, "") # "empty")
        hollow == Len(filled) < Len(order) /\ K # ParseKnxPanelCfg
    IN \/ hollow
       \/ d.sum = Len(filled) /\ \A n \in 1..d.sum : from(n) = {filled[n].el}

\* The device lists say what the document says: parseXML.c fills them by hand,
\* element by element, copy by copy and channel by channel, into memory that is
\* reused, copied or grown on the way.
DevicesFaithful == OnlyItsOwn /\ NothingLost /\ PointsDistinct /\ ChannelsUnmixed

\* The crashes a document of well written elements can cause: the log lines
\* behind a point of a ventilation or a floor heating that read another point
\* (parseXML.c:1319, 1346, 1373, 1400, 1427, 1860), or the point itself
\* though it has no DataPoint, and the foreign key a cell inherits
\* (5254, 5523, 6024, 6431, 6589).
Fragile ==
  \/ /\ sec = "MbusVent"
     /\ \/ dv.how = "first" /\ dv.el \in {"Humi", "Mode", "Valve", "EnvHumi", "Fault"}
        \/ dv.how = "missing" /\ dv.el = "Speed"
  \/ sec = "MbusHeat" /\ <<dv.how, dv.el>> \in {<<"first", "Fault">>, <<"missing", "EnvTemp">>}
  \/ sec \in DOMAIN MbusSections /\ dv.kid # "" /\ dv.how = "missing"
  \/ K.carry /\ dv.how = "missing" /\ dv.el = "ForeignKey" /\ dv.cell = 2

\* A document of well written elements is loaded whatever their order, and
\* also when one is missing: each cell becomes a device (each cell of the
\* Item, where there is one).  Every step moves on, so the parser ends.
LegalDocumentsLoad ==
  s.st # "run" /\ dv.how \in {"ok", "first", "missing"} /\ ~Fragile =>
    /\ s.st = "done"
    /\ Len(list) = IF Templated(K)
                   THEN Items * (IF dv.el = "Item" /\ dv.how = "missing" THEN Cells - 1 ELSE Cells)
                   ELSE Cells
=============================================================================
