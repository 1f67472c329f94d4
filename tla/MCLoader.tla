-------------------------------- MODULE MCLoader --------------------------------
\* Executables of the checker's kind, with pages of 4 bytes.
EXTENDS Loader

Ph(type, vaddr, offset, filesz, memsz, flags) ==
  [type |-> type, vaddr |-> vaddr, offset |-> offset, filesz |-> filesz, memsz |-> memsz,
   flags |-> flags]
Text == Ph("LOAD", 4, 0, 3, 3, {"r", "x"})
Note == Ph("NOTE", 5, 1, 1, 1, {"r"})
\* .data begins within its page and ends in the middle of it, .bss fills the next page in part.
Data == Ph("LOAD", 9, 5, 2, 5, {"r", "w"})
Exe(phdrs, length, writable) ==
  [well_formed |-> TRUE, writable |-> writable, length |-> length, entry |-> 5, phdrs |-> phdrs]

DataBss == Exe(<<Note, Text, Data>>, 9, TRUE)
\* The same without anything behind .data in the file.
Stripped == Exe(<<Note, Text, Data>>, 7, TRUE)
MCFiles ==
  {DataBss, Stripped,
   Exe(<<Note, Text, Data>>, 9, FALSE),
   Exe(<<Text, Ph("LOAD", 8, 0, 0, 8, {"r", "w"})>>, 3, TRUE),        \* bss.c: .bss alone
   Exe(<<Text, Ph("LOAD", 9, 5, 2, 5, {"r"})>>, 9, TRUE),             \* .bss that is read only
   Exe(<<Note>>, 3, TRUE),                                            \* nothing to load
   [DataBss EXCEPT !.well_formed = FALSE]}
StrippedOnly == {Stripped}
===============================================================================
