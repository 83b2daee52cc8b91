-------------------------------- MODULE MCMain --------------------------------
(* Every section of the configuration, and homes with one device of each      *)
(* protocol, linked or not, with or without a group, whose plugins load or    *)
(* not.                                                                       *)
EXTENDS Main

AllSections == DOMAIN Parsers

Knx(n) == [type |-> "knx", num |-> n]
Mbus(n) == [type |-> "mbus", num |-> n]
Z3(n) == [type |-> "z3", num |-> n]
Dio(n) == [type |-> "dio", num |-> n]

KnxEntry(n, master, vent, fk, check, plugin) ==
  [key |-> Knx(n), master |-> master, vent |-> vent, fk |-> fk, check |-> check, plugin |-> plugin]
MbusEntry(n, master, member, fk, plugin) ==
  [key |-> Mbus(n), master |-> master, member |-> member, fk |-> fk, check |-> FALSE, plugin |-> plugin]
Z3Entry(n, plugin) == [key |-> Z3(n), plugin |-> plugin]

\* A Modbus ventilation with a KNX panel, an unwatched KNX device, an input
Panel == [knx |-> <<KnxEntry(1, FALSE, TRUE, NoKey, TRUE, "misnamed"), KnxEntry(2, TRUE, FALSE, NoKey, FALSE, "knx")>>,
          mbus |-> <<MbusEntry(1, TRUE, FALSE, Knx(1), "mbus")>>,
          z3 |-> <<Z3Entry(1, "undotted"), Z3Entry(2, "z3")>>, di |-> <<Dio(1)>>, groups |-> <<>>]
\* A KNX ventilation that names a Modbus one; two masters that name one panel
Crossed == [knx |-> <<KnxEntry(1, TRUE, TRUE, Mbus(2), TRUE, "incomplete")>>,
            mbus |-> <<MbusEntry(1, TRUE, FALSE, Knx(1), "absent"), MbusEntry(2, FALSE, FALSE, NoKey, "mbus"),
                       MbusEntry(3, TRUE, TRUE, Knx(1), "mbus")>>, z3 |-> <<>>, di |-> <<>>, groups |-> <<>>]
\* A group of air conditioners as in ObjectModel.xml
Group3 == [knx |-> <<>>,
           mbus |-> <<MbusEntry(1, TRUE, FALSE, NoKey, "mbus"), MbusEntry(2, TRUE, TRUE, NoKey, "mbus"),
                      MbusEntry(3, TRUE, TRUE, NoKey, "incomplete")>>, z3 |-> <<Z3Entry(1, "incomplete")>>, di |-> <<>>,
           groups |-> <<[owner |-> Mbus(1), members |-> <<Mbus(2), Mbus(3)>>, sum |-> 3]>>]
Homes == {Panel, Crossed, Group3}
=============================================================================
