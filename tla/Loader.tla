-------------------------------- MODULE Loader --------------------------------
\* The on-demand loader: exec_parser.c turns the program headers into segments, loader.c starts the
\* program with none of its pages in memory and maps a page when an access to it faults. All of it
\* is one thread, so a run of the signal handler is one step; between two of them lie the program's
\* accesses and what the handler and the kernel remember of its pages.
\* The process is the checker's, which counts the faults before it calls the loader's handler.
EXTENDS Elf

VARIABLES
  file,           \* the executable at `path`
  pc,             \* where the process is
  exec,           \* the result of so_parse_exec
  mapped_pages,   \* the <<i, page_no>> whose entry is 1 (all entries start as 0)
  sigsegv,        \* the disposition of SIGSEGV: "default" or "handler"
  handling,       \* the handler runs for the access in execution
  present,        \* the kernel's view: the pages with a mapping,
  prot,           \*   their permissions
  mem,            \*   and their bytes
  access,         \* the memory access in execution, or NoAccess
  got,            \* what the last read or system call saw
  no_page_faults  \* the checker's count of faults without a mapping

kernel == <<present, prot, mem>>
vars == <<file, pc, exec, mapped_pages, sigsegv, handling, kernel, access, got, no_page_faults>>

Null == [segments |-> << >>, base_addr |-> NoBase, entry |-> NoBase]   \* exec == NULL

PageBytes(p) == (p * PageSize)..(p * PageSize + PageSize - 1)
AllPages(f) == UNION {PagesOf(f.phdrs[k]) : k \in Loads(f)}
AllBytes(f) == UNION {PageBytes(p) : p \in AllPages(f)}

\* The parser: each PT_LOAD header becomes a segment that begins on a page boundary. (Segments keep
\* the number of their header.)
Segment(h) ==
  LET diff == h.vaddr - AlignDown(h.vaddr)
  IN  [vaddr |-> AlignDown(h.vaddr), offset |-> h.offset - diff, perm |-> h.flags,
       file_size |-> h.filesz + diff, mem_size |-> h.memsz + diff]

BaseAddr(f) ==
  LET starts == {AlignDown(f.phdrs[k].vaddr) : k \in Loads(f)}
  IN  IF starts = {} THEN NoBase ELSE CHOOSE a \in starts : \A b \in starts : a <= b

Parsed(f) == [segments |-> [k \in Loads(f) |-> Segment(f.phdrs[k])],
              base_addr |-> BaseAddr(f), entry |-> f.entry]

Init ==
  /\ file \in Files
  /\ pc = "init" /\ exec = Null /\ mapped_pages = {}
  /\ sigsegv = "default" /\ handling = FALSE
  /\ present = {} /\ prot = [p \in AllPages(file) |-> {}] /\ mem = [a \in AllBytes(file) |-> 0]
  /\ access = NoAccess /\ got = 0 /\ no_page_faults = 0

so_init_loader ==
  /\ pc = "init"
  /\ sigsegv' = "handler" /\ pc' = "load"
  /\ UNCHANGED <<file, exec, mapped_pages, handling, kernel, access, got, no_page_faults>>

so_execute ==
  /\ pc = "load"
  /\ IF file.well_formed THEN exec' = Parsed(file) /\ pc' = "auxv"
                         ELSE pc' = "returned" /\ UNCHANGED exec
  /\ UNCHANGED <<file, mapped_pages, sigsegv, handling, kernel, access, got, no_page_faults>>

\* The process begins the next access: fix_auxv reads the ELF header at base_addr, the jump fetches
\* from the entry point, and then the program does as it likes.
Issue(x) == /\ access = NoAccess /\ access' = x
            /\ UNCHANGED <<file, exec, mapped_pages, sigsegv, handling, kernel, got,
                           no_page_faults>>
fix_auxv == /\ pc = "auxv" /\ pc' = "jump"
            /\ Issue([kind |-> "r", addr |-> exec.base_addr, value |-> 0])
JumpToEntry == /\ pc = "jump" /\ pc' = "program"
               /\ Issue([kind |-> "x", addr |-> exec.entry, value |-> 0])
ProgramAccess == /\ pc = "program" /\ UNCHANGED pc
                 /\ \/ \E a \in Probes, k \in {"r", "x"} :
                         Issue([kind |-> k, addr |-> a, value |-> 0])
                    \/ \E a \in Probes, v \in Stored :
                         Issue([kind |-> "w", addr |-> a, value |-> v])

\* The kernel and the processor.
Running == pc \in {"jump", "program"} /\ access # NoAccess
Accessible(x) == Page(x.addr) \in present /\ Allows(prot[Page(x.addr)], x.kind)

Execute ==
  /\ Running /\ ~handling /\ Accessible(access)
  /\ IF access.kind = "w" THEN mem' = [mem EXCEPT ![access.addr] = access.value] /\ UNCHANGED got
                          ELSE got' = mem[access.addr] /\ UNCHANGED mem
  /\ access' = NoAccess
  /\ UNCHANGED <<file, pc, exec, mapped_pages, sigsegv, handling, present, prot, no_page_faults>>

\* The fault reaches the checker's handler, which counts it and goes on to the loader's; with the
\* default action in place it ends the process.
PageFault ==
  /\ Running /\ ~handling /\ ~Accessible(access)
  /\ IF sigsegv = "handler"
       THEN /\ handling' = TRUE /\ UNCHANGED pc
            /\ no_page_faults' = no_page_faults
                                   + IF Page(access.addr) \in present THEN 0 ELSE 1
       ELSE pc' = "killed" /\ UNCHANGED <<handling, no_page_faults>>
  /\ UNCHANGED <<file, exec, mapped_pages, sigsegv, kernel, access, got>>

\* The handler: the first segment with the address decides.
Covers(s, a) == s.vaddr <= a /\ a < s.vaddr + s.mem_size
FirstSegment(i, a) ==
  /\ Covers(exec.segments[i], a)
  /\ \A j \in DOMAIN exec.segments : j < i => ~Covers(exec.segments[j], a)
PageNoBug(s, a) == (a - s.vaddr) \div PageSize + 1
PageNo(s, a) == (a - s.vaddr) \div PageSize
PageAddr(s, n) == s.vaddr + n * PageSize
FreshBug(i, n) == TRUE
Fresh(i, n) == <<i, n>> \notin mapped_pages

\* open: a segment with PERM_W needs the file for writing; its failure makes mmap fail.
Opened(s) == "w" \in s.perm => file.writable
ZeroedBug(s, n) == {a \in PageAddr(s, n)..(PageAddr(s, n) + PageSize - 1) :
                      s.vaddr + s.file_size <= PageAddr(s, n) /\ a < s.vaddr + s.mem_size}
\* zero_start up to zero_end.
Zeroed(s, n) == {a \in PageAddr(s, n)..(PageAddr(s, n) + PageSize - 1) :
                   s.vaddr + s.file_size <= a /\ a < s.vaddr + s.mem_size}
\* memset faults on a page that is not there, is not writable or lies behind the end of the file.
MemsetFaults(s, n) ==
  /\ Zeroed(s, n) # {}
  /\ ~Opened(s) \/ "w" \notin s.perm \/ s.offset + n * PageSize >= file.length
MappedBug(s, n) ==
  LET start == PageAddr(s, n)
  IN  /\ present' = present \cup ({Page(start), Page(start) + 1} \cap AllPages(file))
      /\ prot' = [prot EXCEPT ![Page(start)] = s.perm, ![Page(start) + 1] = s.perm]
      /\ mem' = [a \in DOMAIN mem |->
                   IF a \notin start..(start + 2 * PageSize - 1) THEN mem[a]
                   ELSE FileByte(file, s.offset + n * PageSize + (a - start))]
Mapped(s, n) ==
  LET start == PageAddr(s, n)
  IN  /\ present' = present \cup {Page(start)}
      /\ prot' = [prot EXCEPT ![Page(start)] = s.perm]
      /\ mem' = [a \in DOMAIN mem |->
                   IF a \notin start..(start + PageSize - 1) THEN mem[a]
                   ELSE IF a \in Zeroed(s, n) THEN 0
                   ELSE FileByte(file, s.offset + n * PageSize + (a - start))]

\* handler, with the page not mapped yet. A fault inside the handler ends the process: SIGSEGV is
\* blocked, and nothing handles SIGBUS.
MapPage(i, n) ==
  LET s == exec.segments[i]
  IN  /\ handling /\ FirstSegment(i, access.addr) /\ n = PageNo(s, access.addr)
      /\ Fresh(i, n)
      /\ mapped_pages' = mapped_pages \cup {<<i, n>>}
      /\ IF MemsetFaults(s, n) THEN pc' = "killed" ELSE UNCHANGED pc
      /\ IF ~MemsetFaults(s, n) /\ Opened(s) THEN Mapped(s, n) ELSE UNCHANGED kernel
      /\ handling' = FALSE
      /\ UNCHANGED <<file, exec, sigsegv, access, got, no_page_faults>>
Load == \E i \in DOMAIN exec.segments :
          MapPage(i, PageNo(exec.segments[i], access.addr))

GiveUpBug ==
  /\ handling
  /\ \A i \in DOMAIN exec.segments :
       FirstSegment(i, access.addr) => ~Fresh(i, PageNo(exec.segments[i], access.addr))
  /\ handling' = FALSE
  /\ UNCHANGED <<file, pc, exec, mapped_pages, sigsegv, kernel, access, got, no_page_faults>>
\* handler, with no segment for the address or its page mapped: the default action, which the
\* repeated access then meets.
GiveUp ==
  /\ handling
  /\ \A i \in DOMAIN exec.segments :
       FirstSegment(i, access.addr) => ~Fresh(i, PageNo(exec.segments[i], access.addr))
  /\ sigsegv' = "default" /\ handling' = FALSE
  /\ UNCHANGED <<file, pc, exec, mapped_pages, kernel, access, got, no_page_faults>>

\* A system call that reads the program's memory: the kernel raises no signal for a page that is
\* not there, it returns EFAULT.
SystemCall(a) ==
  /\ pc = "program" /\ access = NoAccess
  /\ got' = IF Page(a) \in present THEN mem[a] ELSE EFAULT
  /\ UNCHANGED <<file, pc, exec, mapped_pages, sigsegv, handling, kernel, access,
                 no_page_faults>>

Exit == /\ pc = "program" /\ access = NoAccess /\ pc' = "exited"
        /\ UNCHANGED <<file, exec, mapped_pages, sigsegv, handling, kernel, access, got,
                       no_page_faults>>

Machine == Execute \/ PageFault \/ Load \/ GiveUp
Next == \/ so_init_loader \/ so_execute \/ fix_auxv \/ JumpToEntry \/ ProgramAccess
        \/ Execute \/ PageFault \/ Load \/ GiveUp
        \/ \E a \in Probes \cap ImageAddrs(file) : SystemCall(a)
        \/ Exit
Spec == Init /\ [][Next]_vars
\* The processor goes on with the access in execution, and with the handler it has entered.
FairSpec == Spec /\ WF_vars(Machine)
-------------------------------------------------------------------------------
TypeOK ==
  /\ file \in Files
  /\ pc \in {"init", "load", "auxv", "jump", "program", "killed", "returned", "exited"}
  /\ exec \in {Null, Parsed(file)}
  /\ mapped_pages \subseteq
       UNION {{i} \X (0..((exec.segments[i].mem_size - 1) \div PageSize)) :
                i \in DOMAIN exec.segments}
  /\ sigsegv \in {"default", "handler"} /\ handling \in BOOLEAN
  /\ present \subseteq AllPages(file)
  /\ prot \in [AllPages(file) -> SUBSET Perm]
  /\ mem \in [AllBytes(file) -> Nat]
  /\ access \in Access \cup {NoAccess}
  /\ got \in Nat \cup {EFAULT}
  /\ no_page_faults \in Nat

\* The image the program sees: a page that is not there yet counts as what the file says it holds.
View == [a \in ImageAddrs(file) |-> IF Page(a) \in present THEN mem[a] ELSE ImageByte(file, a)]
Life == CASE pc \in {"init", "load"} -> "loading"
          [] pc \in {"returned", "exited"} -> "ended"
          [] pc = "killed" -> "killed"
          [] OTHER -> "running"
Image == INSTANCE ElfImage WITH image <- View, touched <- present, life <- Life

\* Demand paging is invisible: every read sees what the headers say or the program last stored
\* there, stores to other bytes of the page included; an access the headers allow is carried out and
\* never kills, an access they forbid is never carried out; a system call sees the same image,
\* except on a page the program has not used (exec_parser.c and loader.c together).
ImplementsImage == Image!Spec

\* A page is loaded at most once: nothing but a store by the program changes a byte of a page that
\* is there, the handler's mmap and memset included (loader.c:52-79).
StoresSurvive ==
  [][\A a \in DOMAIN mem :
       Page(a) \in present /\ mem'[a] # mem[a] => access.kind = "w" /\ access.addr = a]_vars

\* Between two accesses, every page in memory has cost exactly one fault without a mapping, which is
\* what run_test.sh counts: no page ahead of its use, none with a second fault.
OneFaultPerPage == access = NoAccess => no_page_faults = Cardinality(present)

\* The handler's table and the kernel agree on what is loaded, with the segment's permissions: no
\* entry is 1 for a page that is missing unless its mapping failed, and no page is missing from the
\* table (loader.c:56).
TableAgrees ==
  \A i \in DOMAIN exec.segments : \A n \in 0..((exec.segments[i].mem_size - 1) \div PageSize) :
    LET s == exec.segments[i]
        p == Page(PageAddr(s, n))
    IN  /\ p \in present => <<i, n>> \in mapped_pages /\ prot[p] = s.perm
        /\ <<i, n>> \in mapped_pages /\ pc # "killed" => p \in present \/ ~Opened(s)

\* An access does not fault for ever: it is carried out, or it ends the process. A handler that
\* returned without a change would make it fault again and again (loader.c:83-91).
AccessEnds == access # NoAccess ~> access = NoAccess \/ pc = "killed"

\* A page that is entirely .bss reads as zeros like any other (loader.c:60-67): no access to a
\* segment's bytes that its flags allow ends the process.
BssPagesLoad ==
  pc = "killed" =>
    ~\E k \in Loads(file) : /\ access.addr \in Bytes(file.phdrs[k])
                            /\ Allows(file.phdrs[k].flags, access.kind)
===============================================================================
