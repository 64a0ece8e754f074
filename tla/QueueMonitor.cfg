SPECIFICATION FairSpec
CONSTANTS
  RequestedCapacity = 2
  Producers = {"p1", "p2"}
  Consumers = {"c1", "c2", "c3"}
  EndStatuses = {"Io", "Again"}
  MaxItems = 4
INVARIANTS IInv ItemHasTaker PlaceHasFiller
PROPERTIES CarriesStream ItemsAreTaken PlacesAreFilled EndedCallsReturn
CHECK_DEADLOCK FALSE
