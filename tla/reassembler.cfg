CONSTANTS
  SeqMod = 5
  Window = 2
  Payloads = {p1}
  Absent = Absent
  DeliverMayThrow = TRUE
  MaxLog = 6
SPECIFICATION Spec
INVARIANTS
  CallbacksTile
  NothingStranded
  ResourcesBounded
  AcceptedInOrder
