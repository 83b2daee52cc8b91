-------------------------------- MODULE Main --------------------------------
(***************************************************************************)
(* main(): first a section of the configuration is parsed (ConfigParser),  *)
(* then the devices are associated (Boot) and the gateway runs (Home).     *)
(* The parsers read the document one section after the other and share     *)
(* nothing, so one section stands for all; the lists they leave are taken  *)
(* from Documents, and what the parser kept in memory is gone.             *)
(***************************************************************************)
EXTENDS ConfigParser, Home

mainVars == <<vars, homeVars>>

MainInit == Init /\ HomeInit

Parse == stage = "parse" /\ Next /\ UNCHANGED homeVars

\* The parsers have returned: main goes on with the lists.
Parsed ==
  /\ s.st = "done" /\ dv = Plain
  /\ sec' = (CHOOSE x \in Sections : TRUE) /\ dv' = Plain /\ cell' = 1 /\ pos' = 1 /\ item' = 0 /\ s' = Fresh /\ list' = <<>>

MainNext ==
  \/ Parse
  \/ Parsed /\ ParseGroupCfg /\ UNCHANGED runVars
  \/ UNCHANGED vars /\ stage # "parse" /\ HomeNext

MainSpec == MainInit /\ [][MainNext]_mainVars
=============================================================================
