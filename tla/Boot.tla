-------------------------------- MODULE Boot --------------------------------
(***************************************************************************)
(* What main() does between the parsers and the threads: it reads the      *)
(* groups, links a Modbus device and a KNX device that name each other     *)
(* (associateKnxDev, associateModbusDev), chains the members of a group to *)
(* their owner (ModbusDevGroup) and loads the plugins.  Each of these      *)
(* functions walks one list from its front, one node per turn of its loop. *)
(*                                                                         *)
(* A device's key is the text "<12 characters of MAC><type><number>"; its  *)
(* devId is the number read from the thirteenth character on.  The Modbus  *)
(* list is searched by devId: ModbusDevIdMatch reads four bytes at the     *)
(* address it is given.  The functions of this module hand it the key, so  *)
(* it reads four characters of the MAC.                                    *)
(***************************************************************************)
EXTENDS Naturals, Sequences, FiniteSets, FiniteSetsExt, SequencesExt

CONSTANTS
  Documents,  \* the configurations considered: see DocumentsAssumption
  MacWord,    \* the first four characters of the MAC as an integer
  NoKey       \* NULL

VARIABLES
  stage,      \* where main() is: the function it has called
  at,         \* the node of its list that comes next
  doc,        \* the lists the parsers filled
  grp,        \* pGroupList: owner and ppForeignKey of each group
  link,       \* pvForeignKey of every device
  chain,      \* pNext of every Modbus device
  pIf,        \* pIf of every device: NULL or the library it points into
  opened      \* how often each library is open

bootVars == <<stage, at, doc, grp, link, chain, pIf, opened>>

Entries(d) == Range(d.knx) \cup Range(d.mbus) \cup Range(d.z3)
AllKeys(d) == {e.key : e \in Entries(d)}
Libraries == {e.plugin : e \in UNION {Entries(d) : d \in Documents}}
TypeDigit(type) == CASE type = "z3" -> 1 [] type = "mbus" -> 2 [] type = "knx" -> 3 [] type = "dio" -> 5
DevId(key) == (TypeDigit(key.type) * 10) + key.num

\* The keys of a list differ and have the type of the list
KeysDiffer(list, type) ==
  \A i \in DOMAIN list : /\ list[i].key.type = type
                          /\ \A j \in DOMAIN list : list[i].key = list[j].key => i = j

\* Keys differ, the characters of a MAC are hexadecimal digits (so MacWord is at
\* least 16#30303030 and no devId), and a group names Modbus devices of the list
\* and says one member more than it has.
ASSUME DocumentsAssumption ==
  \A d \in Documents :
     /\ d.knx \in Seq(Range(d.knx)) /\ d.mbus \in Seq(Range(d.mbus)) /\ d.z3 \in Seq(Range(d.z3))
     /\ KeysDiffer(d.knx, "knx") /\ KeysDiffer(d.mbus, "mbus") /\ KeysDiffer(d.z3, "z3")
     /\ \A i \in DOMAIN d.di : d.di[i].type = "dio"
     /\ \A k \in AllKeys(d) : DevId(k) # MacWord
     /\ NoKey \notin AllKeys(d) \cup Range(d.di)
     /\ \A i \in DOMAIN d.groups :
          /\ d.groups[i].sum = Len(d.groups[i].members) + 1
          /\ {d.groups[i].owner} \cup Range(d.groups[i].members) \subseteq {e.key : e \in Range(d.mbus)}

\* The four bytes at the start of a key
FirstWord(key) == MacWord
ModbusDevIdMatch(e, word) == DevId(e.key) = word
KnxDevIdMatch(e, key) == e.key = key

\* The match method of a list is set before each search (listSetMatchMethod).
Matches(method, e, what) ==
  IF method = "ModbusDevIdMatch" THEN ModbusDevIdMatch(e, what) ELSE KnxDevIdMatch(e, what)
\* The first node of a list that matches
listSearchKey(list, method, what) ==
  LET hits == {i \in DOMAIN list : Matches(method, list[i], what)}
  IN IF hits = {} THEN NoKey ELSE list[Min(hits)].key
FindMbus(key) == listSearchKey(doc.mbus, "ModbusDevIdMatch", FirstWord(key))
FindKnx(key) == listSearchKey(doc.knx, "KnxDevIdMatch", key)

\* The lists are empty until a document has been parsed.
NoDocument == [knx |-> << >>, mbus |-> << >>, z3 |-> << >>, di |-> << >>, groups |-> << >>]
BootInit ==
  /\ stage = "parse" /\ at = 1 /\ doc = NoDocument /\ grp = << >>
  /\ link = << >> /\ chain = << >>
  /\ pIf = << >> /\ opened = [p \in Libraries |-> 0]

\* One cell of /Device/Group: ppForeignKey has member_sum places, the last one
\* NULL, and is filled from the front.
GroupCell(g) ==
  [owner |-> g.owner,
   cells |-> [i \in 1..g.sum |-> IF i <= Len(g.members) THEN g.members[i] ELSE NoKey]]

\* The parsers have filled the lists; ParseGroupCfg is the last.
ParseGroupCfg ==
  /\ stage = "parse" /\ stage' = "associateKnxDev" /\ UNCHANGED at
  /\ doc' \in Documents
  /\ grp' = [i \in DOMAIN doc'.groups |-> GroupCell(doc'.groups[i])]
  /\ link' = [k \in AllKeys(doc') |-> NoKey] /\ chain' = link'
  /\ pIf' = link' /\ UNCHANGED opened

-----------------------------------------------------------------------------
(* The functions main() calls, in their order, and the list each one walks *)
Calls == <<"associateKnxDev", "associateModbusDev", "ModbusDevGroup", "LoadZ3Plugin", "LoadModbusPlugin", "LoadKnxPlugin", "start">>
Walked(f) ==
  CASE f \in {"associateKnxDev", "LoadKnxPlugin"} -> doc.knx
    [] f \in {"associateModbusDev", "LoadModbusPlugin"} -> doc.mbus
    [] f = "LoadZ3Plugin" -> doc.z3
    [] OTHER -> grp

\* listNext returns a node
Turn(f) == stage = f /\ at <= Len(Walked(f)) /\ UNCHANGED <<stage, doc, grp>>
\* listNext returns NULL: the function returns and main() calls the next one.
Return ==
  /\ \E i \in 1..(Len(Calls) - 1) : stage = Calls[i] /\ stage' = Calls[i + 1]
  /\ at > Len(Walked(stage)) /\ at' = 1
  /\ UNCHANGED <<doc, grp, link, chain, pIf, opened>>

\* Both directions of one link
LinkPair(a, b) == link' = [link EXCEPT ![a] = b, ![b] = a]

\* Every KNX ventilation that is a master looks for the Modbus device it names.
associateKnxDev ==
  /\ Turn("associateKnxDev") /\ at' = at + 1
  /\ LET e == doc.knx[at] IN
       IF e.master /\ e.vent /\ e.fk # NoKey /\ FindMbus(e.fk) # NoKey
         THEN LinkPair(e.key, FindMbus(e.fk)) ELSE UNCHANGED link
  /\ UNCHANGED <<chain, pIf, opened>>

\* (fault) the KNX device is not told of its partner
associateModbusDevOneWay ==
  /\ Turn("associateModbusDev") /\ at' = at + 1
  /\ LET e == doc.mbus[at] IN
       IF e.master /\ e.fk # NoKey /\ FindKnx(e.fk) # NoKey
         THEN link' = [link EXCEPT ![e.key] = FindKnx(e.fk)] ELSE UNCHANGED link
  /\ UNCHANGED <<chain, pIf, opened>>

\* Every Modbus master that names a foreign key looks for the KNX device.
associateModbusDev ==
  /\ Turn("associateModbusDev") /\ at' = at + 1
  /\ LET e == doc.mbus[at] IN
       IF e.master /\ e.fk # NoKey /\ FindKnx(e.fk) # NoKey
         THEN LinkPair(e.key, FindKnx(e.fk)) ELSE UNCHANGED link
  /\ UNCHANGED <<chain, pIf, opened>>

\* Where a chain that starts at k ends
EndOf(c, k) ==
  LET Go[n \in 0..Len(doc.mbus)] == IF n = 0 THEN k ELSE IF c[Go[n - 1]] = NoKey THEN Go[n - 1] ELSE c[Go[n - 1]]
  IN Go[Len(doc.mbus)]

\* The members of one group, up to the NULL, hung one behind the other on the
\* owner's chain.  (The loop would stay at a member that is not found; they all
\* are on the list.)
HangMembers(c, g) ==
  LET Step(d, m) == IF m = NoKey THEN d ELSE [d EXCEPT ![EndOf(d, FindMbus(g.owner))] = FindMbus(m)]
  IN FoldLeft(Step, c, g.cells)

\* The first group whose owner is not found ends the walk.
ModbusDevGroup ==
  /\ Turn("ModbusDevGroup")
  /\ IF FindMbus(grp[at].owner) = NoKey
       THEN at' = Len(grp) + 1 /\ UNCHANGED chain
       ELSE at' = at + 1 /\ chain' = HangMembers(chain, grp[at])
  /\ UNCHANGED <<link, pIf, opened>>

-----------------------------------------------------------------------------
(* Plugins.  A library has no file ("absent"), or a name without a dot
   ("undotted"), or no symbol of its own name ("misnamed"), or lacks one of the
   functions ("incomplete"), or it is good. *)
Unusable == {"absent", "undotted", "misnamed"}
Opened(e) == opened' = [opened EXCEPT ![e.plugin] = @ + 1]
Pointed(e) == pIf' = [pIf EXCEPT ![e.key] = e.plugin]

\* One device: dlopen, dlsym, and dlclose where the symbol is not found.  No
\* symbol is looked for where the name has no dot, and the library stays open.
Dlopen(e) ==
  CASE e.plugin \in {"absent", "misnamed"} -> UNCHANGED <<pIf, opened>>
    [] e.plugin = "undotted" -> Opened(e) /\ UNCHANGED pIf
    [] OTHER -> Opened(e) /\ Pointed(e)
\* It is also closed where a function is missing, and then pIf is not taken back.
DlopenChecked(e) == IF e.plugin = "incomplete" THEN Pointed(e) /\ UNCHANGED opened ELSE Dlopen(e)

LoadZ3Plugin ==
  /\ Turn("LoadZ3Plugin") /\ at' = at + 1
  /\ Dlopen(doc.z3[at])
  /\ UNCHANGED <<link, chain>>

\* (fault) the library is closed as soon as its symbol is found
LoadModbusPluginCloses ==
  /\ Turn("LoadModbusPlugin") /\ at' = at + 1
  /\ IF doc.mbus[at].plugin \in Unusable THEN UNCHANGED pIf ELSE Pointed(doc.mbus[at])
  /\ UNCHANGED <<link, chain, opened>>

LoadModbusPlugin ==
  /\ Turn("LoadModbusPlugin") /\ at' = at + 1
  /\ DlopenChecked(doc.mbus[at])
  /\ UNCHANGED <<link, chain>>

LoadKnxPlugin ==
  /\ Turn("LoadKnxPlugin") /\ at' = at + 1
  /\ DlopenChecked(doc.knx[at])
  /\ UNCHANGED <<link, chain>>

BootNext ==
  \/ associateKnxDev \/ associateModbusDev \/ ModbusDevGroup
  \/ LoadZ3Plugin \/ LoadModbusPlugin \/ LoadKnxPlugin
  \/ Return

\* The devices ModbusDevWrite sends a command for k to, where every port opens
\* and every frame can be built: k, then pNext until it is NULL.
Served(k) ==
  LET Walk[n \in 0..Len(doc.mbus)] ==
        IF n = 0 THEN {k} ELSE Walk[n - 1] \cup {chain[m] : m \in Walk[n - 1] \ {NoKey}}
  IN Walk[Len(doc.mbus)] \ {NoKey}

-----------------------------------------------------------------------------
(* Properties *)

Masters == {e \in Range(doc.mbus) : e.master}
Associated == stage \notin {"parse", "associateKnxDev", "associateModbusDev"}

\* A Modbus master whose foreign key names a KNX device knows that device and
\* is known to it: what the synchronisation of both relies on when it follows
\* pvForeignKey from either side.  Two masters that name one KNX device leave
\* it with the later one.
LinksMutual ==
  Associated => \A e \in Masters :
     LET k == FindKnx(e.fk) IN
       (e.fk # NoKey /\ k # NoKey) =>
          /\ link[e.key] = k
          /\ (\A o \in Masters : o.fk = e.fk => o = e) => link[k] = e.key

\* When main() starts its threads, a device whose plugin is good calls into a
\* library that is open, whatever became of the plugins of the devices around it,
\* and one without a usable plugin has no interface.  In between is the plugin
\* that lacks a function: LoadModbusPlugin and LoadKnxPlugin close the library and
\* keep the pointer, so the device points into a library that is closed, unless a
\* Zigbee device (whose functions are not looked at) holds it open.
InterfacesLive ==
  stage \in {"start", "run"} => \A e \in Entries(doc) :
     /\ e.plugin \notin Unusable \cup {"incomplete"} => pIf[e.key] = e.plugin /\ opened[e.plugin] > 0
     /\ e.plugin \in Unusable => pIf[e.key] = NoKey
     /\ e.plugin = "incomplete" =>
          /\ pIf[e.key] = e.plugin
          /\ opened[e.plugin] > 0 <=> \E z \in Range(doc.z3) : z.plugin = e.plugin

\* ObjectModel.xml lists the members of an air conditioner group, and
\* ModbusDevWrite sends a command on to the chain of the device: every member
\* is reached from the owner.
GroupsReached ==
  Associated /\ stage # "ModbusDevGroup" => \A i \in DOMAIN doc.groups :
     Range(doc.groups[i].members) \subseteq Served(doc.groups[i].owner)
=============================================================================
