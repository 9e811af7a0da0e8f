\* The user may stop: the tab rests signed out, or its bound of events is used up.
SPECIFICATION Spec
CONSTANTS
  Pages <- AllPages
  MaxEvents = 2
  MaxActs = 1
  MaxAsked = 2
  MaxOnWire = 5
INVARIANTS TypeOK RestShowsOwn
PROPERTIES PolledCatchUp
CHECK_DEADLOCK FALSE
