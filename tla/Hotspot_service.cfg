\* The environment acts MaxInputs times; afterwards the service may come to rest.
CHECK_DEADLOCK FALSE
SPECIFICATION Spec
CONSTANTS
  Macs = {a, b}
  Handlers = {g, h}
  MaxAge = 2
  Faults = {"nft", "timeout", "store", "crash", "reboot"}
  MaxInputs = 4
INVARIANTS
  RequestAloneSettles
  NoErrorMeansEnforced
  JournalIsConsistent
PROPERTIES
  SavedSessionEnds
