SPECIFICATION FairSpec
CONSTANTS
  switch = switch mode = mode panel = panel
  Groups = {switch, mode, panel}
  Table <- MCTable
  Expire <- MCExpire
  QueueMax = 2
  MaxTelegrams = 2
  NoData = NoData
INVARIANTS InOrderOnce
PROPERTIES QuietBeforeReport LastIsReported
