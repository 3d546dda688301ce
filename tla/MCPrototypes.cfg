CONSTANTS
  Emits <- MCEmits
  Words <- MCWords
  Selects <- MCSelects
  OutputBox <- MCOutputBox
  Queries <- MCQueries
  Camel <- MCCamel
  Capital <- MCCapital
  MetadataKeys = {"MetadataKeyPredicate", "MetadataKeySelector"}

SPECIFICATION Spec

INVARIANTS
  BuildsQueryBox
  OutputIsSelected

CHECK_DEADLOCK FALSE
