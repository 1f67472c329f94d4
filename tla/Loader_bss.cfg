\* A page that is all .bss and lies behind the end of the file.
SPECIFICATION Spec
CONSTANTS
  PageSize = 4
  Files <- StrippedOnly
  Probes = {9, 10, 11, 12, 13}
  Stored = {77}
INVARIANT BssPagesLoad
CHECK_DEADLOCK FALSE
