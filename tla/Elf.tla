---------------------------------- MODULE Elf ----------------------------------
\* ELF executables as far as a loader is concerned: program headers, the bytes of the file, and the
\* image they describe.
EXTENDS Integers, Sequences, FiniteSets

CONSTANTS
  PageSize,   \* bytes of a page
  Files,      \* the executables that may be given to so_execute
  Probes,     \* the addresses a program uses
  Stored      \* the values it stores

Perm == {"r", "w", "x"}
Header == [type : {"LOAD", "NOTE"}, vaddr : Nat, offset : Nat, filesz : Nat, memsz : Nat,
           flags : SUBSET Perm]
\* length is the size of the file; writable says whether the user may open it for writing;
\* well_formed, whether its ELF header passes the parser's checks.
File == [well_formed : BOOLEAN, writable : BOOLEAN, length : Nat, entry : Nat,
         phdrs : Seq(Header)]

\* ALIGN_DOWN; the number of an address' page; what mmap rounds a length up to.
AlignDown(a) == a - (a % PageSize)
Page(a) == a \div PageSize

Loads(f) == {k \in DOMAIN f.phdrs : f.phdrs[k].type = "LOAD"}
Bytes(h) == h.vaddr..(h.vaddr + h.memsz - 1)
PagesOf(h) == Page(h.vaddr)..Page(h.vaddr + h.memsz - 1)

\* What the linker sees to: addresses and offsets are congruent, the file holds the whole file part
\* of a segment, and no two segments share a page.
Linked(f) ==
  \A k \in Loads(f) :
    LET h == f.phdrs[k]
    IN  /\ h.memsz > 0 /\ h.filesz <= h.memsz
        /\ h.offset % PageSize = h.vaddr % PageSize
        /\ h.offset + h.filesz <= f.length
        /\ \A j \in Loads(f) \ {k} : PagesOf(h) \cap PagesOf(f.phdrs[j]) = {}

ASSUME ElfAssumption ==
  /\ PageSize \in Nat \ {0}
  /\ Probes \subseteq Nat /\ Stored \subseteq Nat
  /\ Files \subseteq File
  /\ \A f \in Files : Linked(f)

\* Byte o of a file has the value o + 1, so that every byte differs from the others and from 0; the
\* rest of the file's last page reads as 0.
FileByte(f, o) == IF o < f.length THEN o + 1 ELSE 0

\* The image of a file: its bytes up to p_filesz, zeros up to p_memsz.
ImageAddrs(f) == UNION {Bytes(f.phdrs[k]) : k \in Loads(f)}
ImageByte(f, a) ==
  LET h == f.phdrs[CHOOSE k \in Loads(f) : a \in Bytes(f.phdrs[k])]
  IN  IF a < h.vaddr + h.filesz THEN FileByte(f, h.offset + (a - h.vaddr)) ELSE 0

\* An x86 page that can be used at all can be read.
Allows(flags, kind) == IF kind = "r" THEN flags # {} ELSE kind \in flags

NoAccess == [kind |-> "none", addr |-> 0, value |-> 0]
NoBase == -1    \* the address 0xffffffff
Access == [kind : Perm, addr : Nat \cup {NoBase}, value : Nat]
EFAULT == -1    \* what a refused system call returns
===============================================================================
