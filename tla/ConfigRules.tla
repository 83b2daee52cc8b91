---------------------------- MODULE ConfigRules ----------------------------
(***************************************************************************)
(* How the parsers of parseXML.c read one element of a cell.  Each of them *)
(* walks the children of a cell with one branch per element name; a branch *)
(* is a rule here.  What an element contains is abstracted to its form:    *)
(*                                                                         *)
(*   ok      text the branch accepts                                       *)
(*   empty   <X/>: XML_GET_CONTENT dereferences the missing child          *)
(*   nested  another element instead of text: XML_GET_CONTENT is NULL      *)
(*   huge    a number beyond long: strtol sets errno                       *)
(*   bad     text the branch refuses (a serial parameter, a group address, *)
(*           a data point or a type it does not know)                      *)
(*                                                                         *)
(* and a rule gives the outcome for each form but ok:                      *)
(*                                                                         *)
(*   skip    the element is passed over   garble  stored, though wrong     *)
(*   exit    exit (EXIT_FAILURE)          crash   NULL is dereferenced     *)
(*   spin    continue before pNode = pNode->next: the loop never moves on  *)
(*                                                                         *)
(* The memory of a device is a function from fields (paths of names) to    *)
(* the element that was stored there.                                      *)
(***************************************************************************)
EXTENDS Naturals, Sequences, SequencesExt, TLC

Junk == [cell |-> 0, item |-> 0, at |-> <<>>]

Leaf(e, fields, forms) == [el |-> e, sets |-> fields, on |-> forms]
Text(e, nested) == Leaf(e, {e}, [empty |-> "crash", nested |-> nested])
Num(e, nested, huge) == Leaf(e, {e}, [empty |-> "crash", nested |-> nested, huge |-> huge])
\* a text that is checked, a number that is checked
Checked(e, nested, bad) == Leaf(e, {e}, [empty |-> "crash", nested |-> nested, bad |-> bad])
Serial(e) == Leaf(e, {e}, [empty |-> "crash", nested |-> "skip", huge |-> "exit", bad |-> "exit"])
\* an option that only one letter switches
Letter(e) == Checked(e, "skip", "skip")
\* an XML attribute has no content that could be empty or nested
Attribute(e, huge) == Leaf(e, {e}, IF huge = "none" THEN <<>> ELSE [huge |-> huge])

\* ProductID makes the device a master (bMaster) and, on the KNX side, an
\* actuator, which DeviceAttr also decides: the later of the two wins.
ProductID(fields) == Leaf("ProductID", {"ProductID"} \cup fields, [empty |-> "crash", nested |-> "skip"])
DeviceAttr == Leaf("DeviceAttr", {"attri"}, [empty |-> "crash", nested |-> "skip", bad |-> "skip"])

\* ForeignKey is remembered in a local variable (wanted) and gets room in the
\* device; it is written there after the last element.
ForeignKey(nested) == Leaf("ForeignKey", {"room", "wanted"}, [empty |-> "crash", nested |-> nested])
ForeignType(nested) == Checked("ForeignType", nested, "skip")
\* PrimaryKey, where it is remembered too
GivenKey == Leaf("PrimaryKey", {"given"}, [empty |-> "crash", nested |-> "spin"])
Locals == {<<"given">>, <<"wanted">>}

Group(e, kids, needs) ==
  [el |-> e, kids |-> kids, needs |-> needs, logs |-> "", local |-> "", bare |-> "run", slot |-> "no"]

\* A point of a Modbus device: its object is made for the DataPoint, and the
\* log line behind the loop reads the object of the point "logs".
PointLogging(e, local, nested, logs) ==
  [Group(e, <<Num("DataPoint", nested, "exit")>>, {}) EXCEPT !.local = local, !.logs = logs]
Point(e, local, nested) == PointLogging(e, local, nested, e)

GroupAddress(e) == Checked(e, "skip", "exit")
DataPoint == Leaf("DataPoint", {"DataPoint"},
                  [empty |-> "crash", nested |-> "skip", huge |-> "exit", bad |-> "skip"])
\* Addresses of a KNX device that live only with a data point in 1..199
Pair(e) == Group(e, <<GroupAddress("Ctrl"), GroupAddress("Status"), DataPoint>>, {"DataPoint"})
Sensor(e, address) == Group(e, <<GroupAddress(address), DataPoint>>, {"DataPoint"})

\* A channel of a panel or a dimmer gets a place at the end of the device
Channel(e, kids, counted) == [Group(e, kids, {}) EXCEPT !.slot = counted]

-----------------------------------------------------------------------------
(* s: the memory of the device (mem), its channels (sum), the program (st) *)

Fresh == [mem |-> <<>>, sum |-> 0, st |-> "run"]
Written(mem) == {p \in DOMAIN mem : mem[p] # Junk}

ReadLeaf(r, how, at, v, s) ==
  LET o == IF how = "ok" THEN "store" ELSE r.on[how]
      put(x) == [s EXCEPT !.mem = [p \in {Append(at, f) : f \in r.sets} |-> x] @@ @]
  IN CASE s.st # "run" \/ o = "skip" -> s
       [] o = "store"  -> put(v)
       [] o = "garble" -> put(Junk)
       [] OTHER -> [s EXCEPT !.st = o]

IsGroup(r) == "kids" \in DOMAIN r
Fields(r) == UNION {k.sets : k \in ToSet(r.kids)}

\* What follows the loop over the children of a group
EndGroup(r, at, kids, s) ==
  LET mine    == {Append(at, f) : f \in Fields(r)}
      dropped == r.needs # {} /\
                 (\/ \E f \in r.needs : Append(at, f) \notin DOMAIN s.mem
                  \/ \E p \in mine \cap DOMAIN s.mem : s.mem[p] = Junk)
  IN CASE s.st # "run" -> s
       [] dropped -> [s EXCEPT !.mem = [p \in DOMAIN @ \ mine |-> @[p]]]
       [] r.logs # "" /\ <<r.logs, "DataPoint">> \notin DOMAIN s.mem -> [s EXCEPT !.st = "crash"]
       [] r.slot = "always" \/ (r.slot = "if filled" /\ kids # <<>>) -> [s EXCEPT !.sum = @ + 1]
       [] OTHER -> s

\* how: the form of each child, by name;  from: the element the values come from.
\* realloc leaves the memory of a new channel as it finds it.
ReadGroup(r, kids, how, from, s) ==
  LET at    == IF r.slot = "no" THEN <<r.el>> ELSE <<"channel", s.sum + 1>>
      grown == IF r.slot = "no" THEN s
               ELSE [s EXCEPT !.mem = [p \in {Append(at, f) : f \in Fields(r)} |-> Junk] @@ @]
      read(t, k) == ReadLeaf(k, how[k.el], at, [from EXCEPT !.at = Append(@, k.el)], t)
  IN IF kids = <<>> /\ r.bare # "run" THEN [s EXCEPT !.st = r.bare]
     ELSE EndGroup(r, at, kids, FoldLeft(read, grown, kids))

-----------------------------------------------------------------------------
(* The end of a cell: the keys that were only remembered are written.      *)

\* foreign: the condition under which pForeignKey is written: the type is
\* known ("typed"), or the device is a master ("master")
FinishKeys(foreign, s) ==
  LET m == s.mem
      given == IF <<"given">> \in DOMAIN m THEN (<<"PrimaryKey">> :> m[<<"given">>]) @@ m ELSE m
      due == /\ <<"wanted">> \in DOMAIN m
             /\ \/ foreign = "typed" /\ <<"ForeignType">> \in DOMAIN m
                \/ foreign = "master" /\ <<"ProductID">> \in DOMAIN m
  IN CASE s.st # "run" -> s
       [] due /\ <<"room">> \notin DOMAIN m -> [s EXCEPT !.st = "crash"]
       [] due -> [s EXCEPT !.mem = (<<"ForeignKey">> :> m[<<"wanted">>]) @@ given]
       [] OTHER -> [s EXCEPT !.mem = given]

\* The device that is listed, without the local variables of the parser
Device(mem) == [p \in DOMAIN mem \ (Locals \cup {<<"room">>, <<"Item">>}) |-> mem[p]]
=============================================================================
