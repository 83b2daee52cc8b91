SPECIFICATION MainSpec
CONSTANTS
  Sections <- AllSections
  Items = 2
  Documents <- Homes
  MacWord = 808464432
  NoKey = NoKey
  PosMax = 1
  BindMax = 1
  LongPress = 3
  Clicks = 5
  RetryNum = 3
  Trigger = 0
INVARIANTS DevicesFaithful LegalDocumentsLoad LinksMutual InterfacesLive PositionsKnown InputShown
PROPERTIES RemovalClears GlitchIgnored
