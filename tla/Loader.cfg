\* Every executable, every access: the demand-paged program against the image of its headers.
SPECIFICATION FairSpec
CONSTANTS
  PageSize = 4
  Files <- MCFiles
  Probes = {3, 4, 8, 9, 10, 11, 12, 13, 15, 16}
  Stored = {77}
INVARIANTS TypeOK OneFaultPerPage TableAgrees
PROPERTIES ImplementsImage StoresSurvive AccessEnds
CHECK_DEADLOCK FALSE
