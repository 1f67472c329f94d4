------------------------------- MODULE ElfImage -------------------------------
\* What executing a file promises, without a word about how its pages get into memory: the program
\* finds the image its program headers describe. The loader is shown to implement it.
EXTENDS Elf

VARIABLES
  file,      \* the executable
  image,     \* what the program's memory holds
  access,    \* the memory access in execution
  got,       \* what the last read or system call saw
  touched,   \* the pages the program has used
  life       \* "loading", "running", "ended" or "killed"

imageVars == <<file, image, access, got, touched, life>>

\* The two things a loader of this kind asks for: a writable segment needs a file that may be
\* opened for writing, and a page with bytes beyond the file part a writable segment and an offset
\* within the file.
Loadable(f, h, a) ==
  LET pageEnd == AlignDown(a) + PageSize
  IN  /\ "w" \in h.flags => f.writable
      /\ h.filesz < h.memsz /\ pageEnd > h.vaddr + h.filesz =>
           "w" \in h.flags /\ h.offset + (AlignDown(a) - h.vaddr) < f.length

\* An access to a segment's bytes that its flags allow: it has to be carried out.
Legal(f, x) == \E k \in Loads(f) : LET h == f.phdrs[k]
                                   IN  /\ x.addr \in Bytes(h) /\ Allows(h.flags, x.kind)
                                       /\ Loadable(f, h, x.addr)

\* An access somewhere in a segment's pages that its flags allow: it may be carried out.
Tolerated(f, x) == \E k \in Loads(f) : LET h == f.phdrs[k]
                                       IN  /\ Page(x.addr) \in PagesOf(h)
                                           /\ Allows(h.flags, x.kind)

Init == /\ file \in Files
        /\ image = [a \in ImageAddrs(file) |-> ImageByte(file, a)]
        /\ access = NoAccess /\ got = 0 /\ touched = {} /\ life = "loading"

Start == /\ life = "loading" /\ life' = IF file.well_formed THEN "running" ELSE "ended"
         /\ UNCHANGED <<file, image, access, got, touched>>

Issue == /\ life = "running" /\ access = NoAccess
         /\ access' \in Access
         /\ UNCHANGED <<file, image, got, touched, life>>

\* The page of the access comes into use.
Touch == /\ life = "running" /\ access # NoAccess
         /\ touched' = touched \cup {Page(access.addr)}
         /\ UNCHANGED <<file, image, access, got, life>>

\* A read sees the image, a store changes it. Beside a segment's bytes anything may be read.
Perform ==
  /\ life = "running" /\ access # NoAccess
  /\ Page(access.addr) \in touched /\ Tolerated(file, access)
  /\ IF access.kind = "w"
       THEN /\ image' = [a \in ImageAddrs(file) |->
                           IF a = access.addr THEN access.value ELSE image[a]]
            /\ UNCHANGED got
       ELSE /\ IF access.addr \in ImageAddrs(file) THEN got' = image[access.addr] ELSE got' \in Nat
            /\ UNCHANGED image
  /\ access' = NoAccess
  /\ UNCHANGED <<file, touched, life>>

\* The kernel reads the program's memory for a system call. It does not bring pages in.
SystemCall ==
  /\ life = "running" /\ access = NoAccess
  /\ \E a \in ImageAddrs(file) : got' = IF Page(a) \in touched THEN image[a] ELSE EFAULT
  /\ UNCHANGED <<file, image, access, touched, life>>

Kill == /\ life = "running" /\ access # NoAccess /\ ~Legal(file, access)
        /\ life' = "killed"
        /\ UNCHANGED <<file, image, access, got, touched>>

Exit == /\ life = "running" /\ access = NoAccess /\ life' = "ended"
        /\ UNCHANGED <<file, image, access, got, touched>>

Next == Start \/ Issue \/ Touch \/ Perform \/ SystemCall \/ Kill \/ Exit
Spec == Init /\ [][Next]_imageVars
===============================================================================
