SPECIFICATION ObjSpec
CONSTANTS
  Classes <- AllClasses
  OneWay <- MCOneWay
  HalfRead <- MCHalfRead
INVARIANTS
  RelayKeepsAll
  NothingMadeUp
  SecondReadReplaces
  ReadsFrontPart
CHECK_DEADLOCK FALSE
