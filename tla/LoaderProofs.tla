------------------------------ MODULE LoaderProofs ------------------------------
(***************************************************************************)
(* The loader for every executable, page size, address and program: what   *)
(* its handler knows of the pages is true, every fault loads one page at   *)
(* most once, and the paged program sees the image of ElfImage.            *)
(***************************************************************************)
EXTENDS Loader, TLAPS, FiniteSetTheorems, WellFoundedInduction

\* Division by the page size: every address lies in its page, and in no other.
LEMMA PageOf ==
  ASSUME NEW a \in Int
  PROVE  /\ Page(a) \in Int
         /\ Page(a) * PageSize <= a /\ a < Page(a) * PageSize + PageSize
         /\ AlignDown(a) = Page(a) * PageSize
         /\ a \in Nat => Page(a) \in Nat
BY ElfAssumption DEF Page, AlignDown

\* No address lies in two pages.
LEMMA PageUnique ==
  ASSUME NEW a \in Int, NEW q \in Int, q * PageSize <= a, a < q * PageSize + PageSize
  PROVE  Page(a) = q
<1> DEFINE d == Page(a)
<1>1. d \in Int /\ d * PageSize <= a /\ a < d * PageSize + PageSize
  BY PageOf
<1> HIDE DEF d
<1>2. CASE d >= q + 1
  <2>1. d * PageSize >= (q + 1) * PageSize
    BY <1>1, <1>2, ElfAssumption
  <2>2. (q + 1) * PageSize = q * PageSize + PageSize
    BY ElfAssumption
  <2>3. QED BY <2>1, <2>2, <1>1, ElfAssumption
<1>3. CASE q >= d + 1
  <2>1. q * PageSize >= (d + 1) * PageSize
    BY <1>1, <1>3, ElfAssumption
  <2>2. (d + 1) * PageSize = d * PageSize + PageSize
    BY <1>1, ElfAssumption
  <2>3. QED BY <2>1, <2>2, <1>1, ElfAssumption
<1>4. QED BY <1>1, <1>2, <1>3 DEF d

\* Pages are ordered like their addresses.
LEMMA PageMonotone ==
  ASSUME NEW a \in Int, NEW b \in Int, a <= b
  PROVE  Page(a) <= Page(b)
<1> DEFINE d == Page(a)
           e == Page(b)
<1>1. /\ d \in Int /\ d * PageSize <= a /\ a < d * PageSize + PageSize
      /\ e \in Int /\ e * PageSize <= b /\ b < e * PageSize + PageSize
  BY PageOf
<1> HIDE DEF d, e
<1>2. CASE d >= e + 1
  <2>1. d * PageSize >= (e + 1) * PageSize
    BY <1>1, <1>2, ElfAssumption
  <2>2. (e + 1) * PageSize = e * PageSize + PageSize
    BY <1>1, ElfAssumption
  <2>3. QED BY <2>1, <2>2, <1>1, ElfAssumption
<1>3. QED BY <1>1, <1>2 DEF d, e

\* The smallest of some naturals.
LEMMA LeastNatural ==
  ASSUME NEW T, T \subseteq Nat, T # {}
  PROVE  \E a \in T : \A b \in T : a <= b
<1> DEFINE R == {r \in Nat \X Nat : r[1] < r[2]}
<1>1. IsWellFoundedOn(R, Nat)
  BY NatLessThanWellFounded DEF OpToRel
<1>2. \E a \in T : \A b \in T : <<b, a>> \notin R
  <2> HIDE DEF R
  <2> QED BY <1>1, WFMin
<1>3. ASSUME NEW a \in T, NEW b \in T, <<b, a>> \notin R
      PROVE  a <= b
  <2>1. <<b, a>> \in Nat \X Nat /\ ~(<<b, a>>[1] < <<b, a>>[2])
    BY <1>3
  <2>2. QED BY <2>1
<1>4. QED BY <1>2, <1>3
-------------------------------------------------------------------------------
\* What the linker grants of a segment's header.
LEMMA HeaderFacts ==
  ASSUME NEW f \in Files, NEW k \in Loads(f)
  PROVE  LET h == f.phdrs[k]
         IN  /\ h.vaddr \in Nat /\ h.offset \in Nat /\ h.filesz \in Nat /\ h.memsz \in Nat
             /\ h.flags \in SUBSET Perm
             /\ f.length \in Nat
             /\ h.memsz > 0 /\ h.filesz <= h.memsz
             /\ h.offset % PageSize = h.vaddr % PageSize
<1>1. f \in File /\ Linked(f)
  BY ElfAssumption
<1>2. k \in DOMAIN f.phdrs /\ f.phdrs \in Seq(Header) /\ f.length \in Nat
  BY <1>1 DEF File, Loads
<1>3. f.phdrs[k] \in Header
  BY <1>2
<1>4. QED BY <1>1, <1>2, <1>3 DEF Header, Linked

\* The segment the parser makes of a header: its start is a page boundary, its other bounds are
\* the header's.
LEMMA SegmentFacts ==
  ASSUME NEW f \in Files, NEW k \in Loads(f)
  PROVE  LET h == f.phdrs[k]
             s == Segment(h)
             q == Page(h.vaddr)
         IN  /\ q \in Nat /\ s.vaddr = q * PageSize /\ s.vaddr \in Nat
             /\ s.vaddr <= h.vaddr /\ h.vaddr < s.vaddr + PageSize
             /\ s.offset \in Nat /\ s.file_size \in Nat /\ s.mem_size \in Nat
             /\ s.offset - s.vaddr = h.offset - h.vaddr
             /\ s.vaddr + s.file_size = h.vaddr + h.filesz
             /\ s.vaddr + s.mem_size = h.vaddr + h.memsz
             /\ s.perm = h.flags /\ s.mem_size > 0
<1> DEFINE h == f.phdrs[k]
           s == Segment(h)
           q == Page(h.vaddr)
<1>1. /\ h.vaddr \in Nat /\ h.offset \in Nat /\ h.filesz \in Nat /\ h.memsz \in Nat
      /\ h.memsz > 0 /\ h.offset % PageSize = h.vaddr % PageSize
  BY HeaderFacts
<1>2. /\ q \in Nat /\ AlignDown(h.vaddr) = q * PageSize
      /\ q * PageSize <= h.vaddr /\ h.vaddr < q * PageSize + PageSize
  BY <1>1, PageOf
<1>3. q * PageSize \in Nat
  BY <1>2, ElfAssumption
<1>4. h.vaddr - AlignDown(h.vaddr) = h.vaddr % PageSize /\ h.vaddr % PageSize <= h.offset
      /\ h.vaddr % PageSize \in Nat
  <2>1. h.offset % PageSize <= h.offset
    BY <1>1, ElfAssumption
  <2>2. h.vaddr % PageSize \in Nat
    BY <1>1, ElfAssumption
  <2>3. QED BY <1>1, <2>1, <2>2 DEF AlignDown
<1>5. /\ s.vaddr = AlignDown(h.vaddr) /\ s.perm = h.flags
      /\ s.offset = h.offset - (h.vaddr - AlignDown(h.vaddr))
      /\ s.file_size = h.filesz + (h.vaddr - AlignDown(h.vaddr))
      /\ s.mem_size = h.memsz + (h.vaddr - AlignDown(h.vaddr))
  BY DEF Segment
<1> HIDE DEF h, s, q
<1>6. QED BY <1>1, <1>2, <1>3, <1>4, <1>5 DEF h, s, q

\* Page n of a segment: where it begins, and which page of the address space it is.
LEMMA SegmentPage ==
  ASSUME NEW f \in Files, NEW k \in Loads(f), NEW n \in Nat
  PROVE  LET h == f.phdrs[k]
             s == Segment(h)
             q == Page(h.vaddr)
         IN  /\ PageAddr(s, n) = (q + n) * PageSize
             /\ PageAddr(s, n) \in Nat
             /\ Page(PageAddr(s, n)) = q + n
             /\ (s.mem_size - 1) \div PageSize = Page(h.vaddr + h.memsz - 1) - q
             /\ Page(PageAddr(s, n)) \in PagesOf(h) <=> n \in 0..((s.mem_size - 1) \div PageSize)
<1> DEFINE h == f.phdrs[k]
           s == Segment(h)
           q == Page(h.vaddr)
           m == (s.mem_size - 1) \div PageSize
           e == Page(h.vaddr + h.memsz - 1)
<1>1. /\ q \in Nat /\ s.vaddr = q * PageSize /\ s.vaddr \in Nat
      /\ s.mem_size \in Nat /\ s.mem_size > 0
      /\ s.vaddr + s.mem_size = h.vaddr + h.memsz
      /\ h.vaddr \in Nat /\ h.memsz \in Nat
  BY SegmentFacts, HeaderFacts
<1>2. PageSize \in Nat /\ PageSize > 0
  BY ElfAssumption
<1>3. PageAddr(s, n) = s.vaddr + n * PageSize
  BY DEF PageAddr
<1>4. (q + n) * PageSize = q * PageSize + n * PageSize
  BY <1>1, <1>2
<1>5. n * PageSize \in Nat
  BY <1>2
<1>6. PageAddr(s, n) \in Nat /\ PageAddr(s, n) = (q + n) * PageSize
  BY <1>1, <1>3, <1>4, <1>5
<1>7. Page(PageAddr(s, n)) = q + n
  BY <1>1, <1>2, <1>6, PageUnique
<1>8. m \in Nat /\ m * PageSize <= s.mem_size - 1 /\ s.mem_size - 1 < m * PageSize + PageSize
  BY <1>1, <1>2
<1>9. e = q + m
  <2>1. (q + m) * PageSize = q * PageSize + m * PageSize /\ m * PageSize \in Nat
    BY <1>1, <1>2, <1>8
  <2>2. h.vaddr + h.memsz - 1 \in Int
    BY <1>1
  <2>3. q + m \in Int
    BY <1>1, <1>8
  <2>4. /\ (q + m) * PageSize <= h.vaddr + h.memsz - 1
        /\ h.vaddr + h.memsz - 1 < (q + m) * PageSize + PageSize
    <3> HIDE DEF h, s, q, m
    <3> QED BY <1>1, <1>2, <1>8, <2>1
  <2>5. QED BY <2>2, <2>3, <2>4, PageUnique
<1>10. (q + n \in q..e) <=> n \in 0..m
  <2> HIDE DEF q, m, e
  <2> QED BY <1>1, <1>8, <1>9
<1>11. m = e - q
  <2> HIDE DEF q, m, e
  <2> QED BY <1>1, <1>8, <1>9
<1>12. PagesOf(h) = q..e
  BY DEF PagesOf
<1>13. QED BY <1>6, <1>7, <1>10, <1>11, <1>12

\* An address a segment covers lies in its page PageNo, which is the address' own page.
LEMMA CoveredPage ==
  ASSUME NEW f \in Files, NEW k \in Loads(f), NEW a \in Int,
         Covers(Segment(f.phdrs[k]), a)
  PROVE  LET h == f.phdrs[k]
             s == Segment(h)
         IN  /\ PageNo(s, a) \in 0..((s.mem_size - 1) \div PageSize)
             /\ PageAddr(s, PageNo(s, a)) = AlignDown(a)
             /\ Page(PageAddr(s, PageNo(s, a))) = Page(a)
             /\ Page(a) \in PagesOf(h)
<1> DEFINE h == f.phdrs[k]
           s == Segment(h)
           q == Page(h.vaddr)
           n == PageNo(s, a)
<1>1. /\ q \in Nat /\ s.vaddr = q * PageSize /\ s.vaddr \in Nat
      /\ s.mem_size \in Nat /\ s.mem_size > 0
      /\ s.vaddr + s.mem_size = h.vaddr + h.memsz
  BY SegmentFacts
<1>2. s.vaddr <= a /\ a < s.vaddr + s.mem_size
  BY DEF Covers
<1>3. n = (a - s.vaddr) \div PageSize
  BY DEF PageNo
<1>4. PageSize \in Nat /\ PageSize > 0
  BY ElfAssumption
<1>5. a - s.vaddr \in Nat /\ a - s.vaddr <= s.mem_size - 1
  <2> HIDE DEF s, n
  <2> QED BY <1>1, <1>2
<1>6. /\ n \in Nat /\ n * PageSize <= a - s.vaddr /\ a - s.vaddr < n * PageSize + PageSize
  <2> HIDE DEF s, n
  <2> QED BY <1>3, <1>4, <1>5
<1>7. n \in 0..((s.mem_size - 1) \div PageSize)
  <2>1. Page(a - s.vaddr) <= Page(s.mem_size - 1)
    <3>1. a - s.vaddr \in Int /\ s.mem_size - 1 \in Int
      BY <1>5, <1>1
    <3>2. QED BY <3>1, <1>5, PageMonotone
  <2>2. Page(a - s.vaddr) = n /\ Page(s.mem_size - 1) = (s.mem_size - 1) \div PageSize
    BY <1>3 DEF Page
  <2>3. (s.mem_size - 1) \div PageSize \in Int
    <3> HIDE DEF s
    <3> QED BY <1>1, <1>4
  <2> HIDE DEF s, n
  <2>4. QED BY <1>6, <2>1, <2>2, <2>3
<1>8. /\ PageAddr(s, n) = (q + n) * PageSize /\ PageAddr(s, n) \in Nat
      /\ Page(PageAddr(s, n)) = q + n
      /\ Page(PageAddr(s, n)) \in PagesOf(h)
  BY <1>6, <1>7, SegmentPage
<1>9. PageAddr(s, n) <= a /\ a < PageAddr(s, n) + PageSize
  <2>1. PageAddr(s, n) = s.vaddr + n * PageSize
    BY DEF PageAddr
  <2>2. n * PageSize \in Nat
    BY <1>4, <1>6
  <2> HIDE DEF s, n
  <2>3. QED BY <1>1, <1>4, <1>6, <2>1, <2>2
<1>10. Page(a) = q + n
  <2>1. q + n \in Int
    BY <1>1, <1>6
  <2>2. (q + n) * PageSize <= a /\ a < (q + n) * PageSize + PageSize
    BY <1>8, <1>9
  <2>3. QED BY <2>1, <2>2, PageUnique
<1>11. AlignDown(a) = (q + n) * PageSize
  BY <1>10, PageOf
<1>12. QED BY <1>7, <1>8, <1>10, <1>11

\* No two segments share a page.
LEMMA SegmentsApart ==
  ASSUME NEW f \in Files, NEW k \in Loads(f), NEW j \in Loads(f),
         NEW p \in PagesOf(f.phdrs[k]), p \in PagesOf(f.phdrs[j])
  PROVE  k = j
<1>1. Linked(f)
  BY ElfAssumption
<1>2. QED BY <1>1 DEF Linked

\* The bytes of a segment are covered by it.
LEMMA BytesCovered ==
  ASSUME NEW f \in Files, NEW k \in Loads(f), NEW a \in Bytes(f.phdrs[k])
  PROVE  /\ a \in Nat /\ Covers(Segment(f.phdrs[k]), a)
<1> DEFINE h == f.phdrs[k]
           s == Segment(h)
<1>1. /\ s.vaddr \in Nat /\ s.mem_size \in Nat /\ s.vaddr <= h.vaddr
      /\ s.vaddr + s.mem_size = h.vaddr + h.memsz
      /\ h.vaddr \in Nat /\ h.memsz \in Nat
  BY SegmentFacts, HeaderFacts
<1>2. a \in h.vaddr..(h.vaddr + h.memsz - 1)
  BY DEF Bytes
<1> HIDE DEF h, s
<1>3. a \in Nat /\ Covers(s, a)
  BY <1>1, <1>2 DEF Covers
<1>4. QED BY <1>3 DEF h, s
-------------------------------------------------------------------------------
\* Where the process can be, and what it then has. The handler only runs for an access that cannot
\* be carried out.
Stage ==
  /\ pc \in {"init", "load", "returned"} => exec = Null /\ present = {} /\ mapped_pages = {}
  /\ pc \in {"auxv", "jump", "program", "killed", "exited"} => exec = Parsed(file)
  /\ pc \in {"init", "load", "auxv", "returned", "exited"} => access = NoAccess
  /\ pc \in {"load", "auxv"} => sigsegv = "handler"
  /\ handling => Running /\ sigsegv = "handler" /\ ~Accessible(access)

\* The segments of the two values exec may have.
LEMMA Segments ==
  /\ DOMAIN Null.segments = {}
  /\ \A f : /\ DOMAIN Parsed(f).segments = Loads(f)
            /\ \A k \in Loads(f) : Parsed(f).segments[k] = Segment(f.phdrs[k])
            /\ Parsed(f).base_addr = BaseAddr(f) /\ Parsed(f).entry = f.entry
<1>1. DOMAIN Null.segments = {}
  BY DEF Null
<1>2. ASSUME NEW f
      PROVE  /\ DOMAIN Parsed(f).segments = Loads(f)
             /\ \A k \in Loads(f) : Parsed(f).segments[k] = Segment(f.phdrs[k])
             /\ Parsed(f).base_addr = BaseAddr(f) /\ Parsed(f).entry = f.entry
  BY DEF Parsed
<1>3. QED BY <1>1, <1>2

\* The pages and addresses of the kernel's tables.
LEMMA Tables ==
  ASSUME NEW f \in Files, NEW k \in Loads(f), NEW p \in PagesOf(f.phdrs[k])
  PROVE  /\ p \in AllPages(f) /\ p \in Nat /\ PageBytes(p) \subseteq AllBytes(f)
         /\ \A a \in Int : Page(a) = p => a \in AllBytes(f)
         /\ \A a \in AllBytes(f) : a \in Nat /\ Page(a) \in AllPages(f)
         /\ \E n \in 0..((Segment(f.phdrs[k]).mem_size - 1) \div PageSize) :
              p = Page(PageAddr(Segment(f.phdrs[k]), n))
<1>1. ASSUME NEW j \in Loads(f), NEW r \in PagesOf(f.phdrs[j])
      PROVE  r \in AllPages(f) /\ r \in Nat /\ r >= Page(f.phdrs[j].vaddr)
  <2>1. r \in Page(f.phdrs[j].vaddr)..Page(f.phdrs[j].vaddr + f.phdrs[j].memsz - 1)
    BY DEF PagesOf
  <2>2. Page(f.phdrs[j].vaddr) \in Nat
    BY SegmentFacts
  <2>3. QED BY <2>1, <2>2 DEF AllPages
<1>2. p \in AllPages(f) /\ PageBytes(p) \subseteq AllBytes(f)
  BY <1>1 DEF AllBytes
<1>3. ASSUME NEW a \in Int, Page(a) = p PROVE a \in AllBytes(f)
  <2>1. p * PageSize \in Int
    BY <1>1, ElfAssumption
  <2>2. a \in PageBytes(p)
    BY <1>3, <2>1, PageOf, ElfAssumption DEF PageBytes
  <2>3. QED BY <1>2, <2>2
<1>4. ASSUME NEW a \in AllBytes(f) PROVE a \in Nat /\ Page(a) \in AllPages(f)
  <2>1. PICK j \in Loads(f) : \E r \in PagesOf(f.phdrs[j]) : a \in PageBytes(r)
    BY DEF AllBytes, AllPages
  <2> PICK r \in PagesOf(f.phdrs[j]) : a \in PageBytes(r)
    BY <2>1
  <2>2. r \in AllPages(f) /\ r \in Nat
    BY <1>1
  <2>3. r * PageSize \in Nat
    BY <2>2, ElfAssumption
  <2>4. a \in Nat /\ r * PageSize <= a /\ a < r * PageSize + PageSize
    BY <2>3, ElfAssumption DEF PageBytes
  <2>5. Page(a) = r
    BY <2>2, <2>4, PageUnique
  <2>6. QED BY <2>2, <2>4, <2>5
<1>5. \E n \in 0..((Segment(f.phdrs[k]).mem_size - 1) \div PageSize) :
        p = Page(PageAddr(Segment(f.phdrs[k]), n))
  <2> DEFINE q == Page(f.phdrs[k].vaddr)
             n == p - q
  <2>1. q \in Nat /\ p \in Nat /\ p >= q
    BY <1>1, SegmentFacts
  <2>2. n \in Nat /\ q + n = p
    <3> HIDE DEF q
    <3> QED BY <2>1
  <2>3. /\ Page(PageAddr(Segment(f.phdrs[k]), n)) = p
        /\ p \in PagesOf(f.phdrs[k]) <=> n \in 0..((Segment(f.phdrs[k]).mem_size - 1) \div PageSize)
    BY <2>2, SegmentPage
  <2>4. QED BY <2>3
<1>6. QED BY <1>1, <1>2, <1>3, <1>4, <1>5

\* The addresses the process starts with.
LEMMA StartAddresses ==
  ASSUME NEW f \in Files
  PROVE  BaseAddr(f) \in Nat \cup {NoBase} /\ f.entry \in Nat
<1> DEFINE starts == {AlignDown(f.phdrs[k].vaddr) : k \in Loads(f)}
<1>1. f.entry \in Nat
  BY ElfAssumption DEF File
<1>2. starts \subseteq Nat
  <2>1. ASSUME NEW k \in Loads(f) PROVE AlignDown(f.phdrs[k].vaddr) \in Nat
    <3>1. Segment(f.phdrs[k]).vaddr \in Nat
      BY SegmentFacts
    <3>2. QED BY <3>1 DEF Segment
  <2>2. QED BY <2>1
<1>3. CASE starts # {}
  <2>1. \E a \in starts : \A b \in starts : a <= b
    <3> HIDE DEF starts
    <3> QED BY <1>2, <1>3, LeastNatural
  <2>2. BaseAddr(f) = CHOOSE a \in starts : \A b \in starts : a <= b
    BY <1>3 DEF BaseAddr
  <2> HIDE DEF starts
  <2>3. QED BY <1>1, <1>2, <2>1, <2>2
<1>4. CASE starts = {}
  BY <1>1, <1>4 DEF BaseAddr
<1>5. QED BY <1>3, <1>4
-------------------------------------------------------------------------------
\* What the handler finds when it loads page n of segment i: the page of the access, which is one
\* of the segment's and not there yet.
Found(i, n) ==
  LET h == file.phdrs[i]
      s == Segment(h)
      p == Page(access.addr)
  IN  /\ exec = Parsed(file) /\ file \in Files /\ i \in Loads(file) /\ exec.segments[i] = s
      /\ access.addr \in Int /\ Covers(s, access.addr)
      /\ n \in Nat /\ n \in 0..((s.mem_size - 1) \div PageSize)
      /\ PageAddr(s, n) = AlignDown(access.addr) /\ PageAddr(s, n) = p * PageSize
      /\ Page(PageAddr(s, n)) = p /\ p \in PagesOf(h)
      /\ p \in AllPages(file) /\ p \in Nat
      /\ <<i, n>> \notin mapped_pages /\ p \notin present

\* The page the handler is about to load: its header, its place, and that it is not there yet.
LEMMA Loading ==
  ASSUME TypeOK, Stage, TableAgrees, NEW i \in DOMAIN exec.segments, NEW n, MapPage(i, n)
  PROVE  Found(i, n)
<1> DEFINE h == file.phdrs[i]
           s == Segment(h)
           p == Page(access.addr)
<1>1. exec = Parsed(file) /\ file \in Files /\ pc \in {"jump", "program"}
  BY DEF TypeOK, Stage, MapPage, Running
<1>2. i \in Loads(file) /\ exec.segments[i] = s
  BY <1>1, Segments
<1>3. access.addr \in Int
  BY DEF TypeOK, Access, NoAccess, NoBase
<1>4. Covers(s, access.addr) /\ n = PageNo(s, access.addr) /\ <<i, n>> \notin mapped_pages
  BY <1>2 DEF MapPage, FirstSegment, Fresh
<1>5. /\ n \in 0..((s.mem_size - 1) \div PageSize)
      /\ PageAddr(s, n) = AlignDown(access.addr)
      /\ Page(PageAddr(s, n)) = p /\ p \in PagesOf(h)
  BY <1>1, <1>2, <1>3, <1>4, CoveredPage
<1>6. PageAddr(s, n) = p * PageSize
  BY <1>3, <1>5, PageOf
<1>7. p \in AllPages(file) /\ p \in Nat
  BY <1>1, <1>2, <1>5, Tables
<1>8. p \notin present
  BY <1>2, <1>4, <1>5 DEF TableAgrees
<1>9. n \in Nat
  <2>1. s.mem_size \in Nat
    BY <1>1, <1>2, SegmentFacts
  <2>2. (s.mem_size - 1) \div PageSize \in Int
    BY <2>1, ElfAssumption
  <2>3. QED BY <1>5, <2>2
<1>10. QED BY <1>1, <1>2, <1>3, <1>4, <1>5, <1>6, <1>7, <1>8, <1>9 DEF Found

\* The bytes the handler puts into the page.
PageLoaded(i) ==
  LET h == file.phdrs[i]
      p == Page(access.addr)
  IN  /\ present' = present \cup {p} /\ prot' = [prot EXCEPT ![p] = h.flags]
      /\ mem' \in [AllBytes(file) -> Nat]
      /\ \A a \in AllBytes(file) : Page(a) # p => mem'[a] = mem[a]
      /\ \A a \in AllBytes(file) :
           Page(a) = p => mem'[a] = IF h.vaddr + h.filesz <= a /\ a < h.vaddr + h.memsz
                                    THEN 0 ELSE FileByte(file, h.offset + (a - h.vaddr))

\* The bytes of the page the handler loads: the file's, then zeros.
LEMMA LoadedBytes ==
  ASSUME TypeOK, NEW i, NEW n, Found(i, n), Mapped(exec.segments[i], n)
  PROVE  PageLoaded(i)
<1> DEFINE h == file.phdrs[i]
           s == Segment(h)
           p == Page(access.addr)
           start == PageAddr(s, n)
<1>1. /\ exec.segments[i] = s /\ i \in Loads(file) /\ file \in Files
      /\ p \in Nat /\ start = p * PageSize /\ Page(start) = p
      /\ n \in Nat
  BY DEF Found
<1>2. /\ s.offset \in Nat /\ s.vaddr \in Nat /\ s.offset - s.vaddr = h.offset - h.vaddr
      /\ s.vaddr + s.file_size = h.vaddr + h.filesz /\ s.vaddr + s.mem_size = h.vaddr + h.memsz
      /\ h.vaddr \in Nat /\ h.offset \in Nat /\ h.filesz \in Nat /\ h.memsz \in Nat
      /\ s.perm = h.flags /\ file.length \in Nat /\ h.flags \in SUBSET Perm
  BY <1>1, SegmentFacts, HeaderFacts
<1>3. DOMAIN mem = AllBytes(file) /\ mem \in [AllBytes(file) -> Nat]
  BY DEF TypeOK
<1>4. \A a \in AllBytes(file) : a \in start..(start + PageSize - 1) <=> Page(a) = p
  <2>1. SUFFICES ASSUME NEW a \in AllBytes(file)
                 PROVE  a \in start..(start + PageSize - 1) <=> Page(a) = p
    OBVIOUS
  <2>2. a \in Nat
    <3>1. PICK k \in Loads(file) : \E r \in PagesOf(file.phdrs[k]) : a \in PageBytes(r)
      BY DEF AllBytes, AllPages
    <3>2. QED BY <1>1, <3>1, Tables
  <2>3. start \in Nat
    BY <1>1, ElfAssumption
  <2>4. CASE Page(a) = p
    BY <1>1, <2>2, <2>3, <2>4, PageOf, ElfAssumption
  <2>5. CASE a \in start..(start + PageSize - 1)
    <3>1. p * PageSize <= a /\ a < p * PageSize + PageSize
      BY <1>1, <2>2, <2>3, <2>5, ElfAssumption
    <3>2. QED BY <1>1, <2>2, <2>5, <3>1, PageUnique
  <2>6. QED BY <2>4, <2>5
<1>5. n * PageSize \in Nat /\ start = s.vaddr + n * PageSize
  BY <1>1, ElfAssumption DEF PageAddr
<1>6. ASSUME NEW a \in AllBytes(file), Page(a) = p
      PROVE  /\ mem'[a] = IF h.vaddr + h.filesz <= a /\ a < h.vaddr + h.memsz
                          THEN 0 ELSE FileByte(file, h.offset + (a - h.vaddr))
             /\ mem'[a] \in Nat
  <2>1. a \in start..(start + PageSize - 1) /\ a \in Nat /\ a >= start
    BY <1>1, <1>4, <1>5, <1>6, <1>2, ElfAssumption
  <2>2. mem'[a] = IF a \in Zeroed(s, n) THEN 0
                  ELSE FileByte(file, s.offset + n * PageSize + (a - start))
    BY <1>1, <1>3, <2>1 DEF Mapped
  <2>3. a \in Zeroed(s, n) <=> h.vaddr + h.filesz <= a /\ a < h.vaddr + h.memsz
    BY <1>2, <2>1 DEF Zeroed
  <2>4. s.offset + n * PageSize + (a - start) = h.offset + (a - h.vaddr)
    <3> HIDE DEF s, h, start
    <3> QED BY <1>2, <1>5, <2>1
  <2>5. s.offset + n * PageSize + (a - start) \in Nat
    <3> HIDE DEF s, h, start
    <3> QED BY <1>2, <1>5, <2>1
  <2>6. \A x \in Nat : FileByte(file, x) \in Nat
    BY <1>2 DEF FileByte
  <2>7. mem'[a] \in Nat
    BY <2>2, <2>5, <2>6
  <2>8. QED BY <2>2, <2>3, <2>4, <2>7
<1>7. ASSUME NEW a \in AllBytes(file), Page(a) # p
      PROVE  mem'[a] = mem[a]
  BY <1>1, <1>3, <1>4, <1>7 DEF Mapped
<1>8. mem' \in [AllBytes(file) -> Nat]
  <2>1. DOMAIN mem' = AllBytes(file) /\ mem' = [a \in DOMAIN mem' |-> mem'[a]]
    BY <1>3 DEF Mapped
  <2>2. \A a \in AllBytes(file) : mem'[a] \in Nat
    BY <1>3, <1>6, <1>7
  <2>3. QED BY <2>1, <2>2
<1>9. present' = present \cup {p} /\ prot' = [prot EXCEPT ![p] = h.flags]
  BY <1>1, <1>2 DEF Mapped
<1>10. QED BY <1>6, <1>7, <1>8, <1>9 DEF PageLoaded
-------------------------------------------------------------------------------
\* The process starts well typed, with nothing loaded.
LEMMA InitTypeOK == Init => TypeOK /\ Stage
<1> SUFFICES ASSUME Init PROVE TypeOK /\ Stage
  OBVIOUS
<1>1. DOMAIN Null.segments = {}
  BY Segments
<1>2. TypeOK
  BY <1>1 DEF Init, TypeOK, NoAccess
<1>3. Stage
  BY DEF Init, Stage
<1>4. QED BY <1>2, <1>3

\* Every step keeps the types.
LEMMA StepTypeOK ==
  ASSUME TypeOK, Stage, TableAgrees, [Next]_vars
  PROVE  TypeOK'
<1> USE DEF TypeOK, vars, kernel
<1>1. CASE so_init_loader
  BY <1>1 DEF so_init_loader
<1>2. CASE so_execute
  BY <1>2 DEF so_execute, Stage
<1>3. CASE fix_auxv
  <2>1. exec.base_addr \in Nat \cup {NoBase}
    BY <1>3, Segments, StartAddresses DEF fix_auxv, Stage
  <2>2. access' \in Access
    BY <1>3, <2>1 DEF fix_auxv, Issue, Access, Perm
  <2>3. QED BY <1>3, <2>2 DEF fix_auxv, Issue
<1>4. CASE JumpToEntry
  <2>1. exec.entry \in Nat
    BY <1>4, Segments, StartAddresses DEF JumpToEntry, Stage
  <2>2. access' \in Access
    BY <1>4, <2>1 DEF JumpToEntry, Issue, Access, Perm
  <2>3. QED BY <1>4, <2>2 DEF JumpToEntry, Issue
<1>5. CASE ProgramAccess
  <2>1. access' \in Access
    BY <1>5, ElfAssumption DEF ProgramAccess, Issue, Access, Perm
  <2>2. QED BY <1>5, <2>1 DEF ProgramAccess, Issue
<1>6. CASE Execute
  <2>1. access \in Access /\ Page(access.addr) \in present
    BY <1>6 DEF Execute, Running, Accessible
  <2>2. access.value \in Nat /\ access.addr \in Int
    BY <2>1 DEF Access, NoBase
  <2>3. PICK k \in Loads(file) : Page(access.addr) \in PagesOf(file.phdrs[k])
    BY <2>1 DEF AllPages
  <2>4. access.addr \in AllBytes(file)
    BY <2>2, <2>3, Tables
  <2>5. QED BY <1>6, <2>2, <2>4 DEF Execute
<1>7. CASE PageFault
  <2>1. /\ UNCHANGED <<file, exec, mapped_pages, sigsegv, kernel, access, got>>
        /\ pc' \in {pc, "killed"} /\ handling' \in {handling, TRUE}
        /\ no_page_faults' \in {no_page_faults, no_page_faults + 0, no_page_faults + 1}
    <3> HIDE DEF TypeOK
    <3> QED BY <1>7 DEF PageFault
  <2>2. no_page_faults' \in Nat
    BY <2>1
  <2>3. QED BY <2>1, <2>2
<1>8. CASE Load
  <2>1. PICK i \in DOMAIN exec.segments : MapPage(i, PageNo(exec.segments[i], access.addr))
    BY <1>8 DEF Load
  <2> DEFINE n == PageNo(exec.segments[i], access.addr)
  <2>2. Found(i, n)
    BY <2>1, Loading, Zenon
  <2>3. /\ mapped_pages' = mapped_pages \cup {<<i, n>>}
        /\ pc' = "killed" \/ pc' = pc
        /\ handling' = FALSE
        /\ UNCHANGED <<file, exec, sigsegv, access, got, no_page_faults>>
        /\ Mapped(exec.segments[i], n) \/ UNCHANGED kernel
    BY <2>1 DEF MapPage
  <2>4. present' \subseteq AllPages(file) /\ prot' \in [AllPages(file) -> SUBSET Perm]
        /\ mem' \in [AllBytes(file) -> Nat]
    <3>1. CASE UNCHANGED kernel
      BY <3>1
    <3>2. CASE Mapped(exec.segments[i], n)
      <4>1. PageLoaded(i)
        BY <2>2, <3>2, LoadedBytes, Zenon
      <4>2. file.phdrs[i].flags \in SUBSET Perm
        BY <2>2, HeaderFacts DEF Found
      <4>3. Page(access.addr) \in AllPages(file)
        BY <2>2 DEF Found
      <4>4. QED BY <4>1, <4>2, <4>3 DEF PageLoaded
    <3>3. QED BY <2>3, <3>1, <3>2
  <2>5. <<i, n>> \in UNION {{j} \X (0..((exec.segments[j].mem_size - 1) \div PageSize)) :
                              j \in DOMAIN exec.segments}
    <3>1. n \in 0..((exec.segments[i].mem_size - 1) \div PageSize)
      BY <2>2 DEF Found
    <3> HIDE DEF n
    <3>2. QED BY <3>1
  <2>6. mapped_pages' \subseteq UNION {{j} \X (0..((exec.segments[j].mem_size - 1) \div PageSize)) :
                                         j \in DOMAIN exec.segments}
    <3> HIDE DEF n
    <3> QED BY <2>3, <2>5
  <2>7. QED
    <3>1. /\ exec' = exec /\ file' = file /\ pc' \in {"killed", pc} /\ handling' = FALSE
          /\ sigsegv' = sigsegv /\ access' = access /\ got' = got
          /\ no_page_faults' = no_page_faults
      BY <2>3
    <3> HIDE DEF n
    <3>2. QED BY <2>4, <2>6, <3>1
<1>9. CASE GiveUp
  BY <1>9 DEF GiveUp
<1>10. ASSUME NEW a \in Probes \cap ImageAddrs(file), SystemCall(a)
       PROVE  TypeOK'
  <2>1. Page(a) \in present => mem[a] \in Nat
    <3> SUFFICES ASSUME Page(a) \in present PROVE mem[a] \in Nat
      OBVIOUS
    <3>1. PICK k \in Loads(file) : Page(a) \in PagesOf(file.phdrs[k])
      BY DEF AllPages
    <3>2. a \in Int
      <4> HIDE DEF TypeOK
      <4> QED BY ElfAssumption
    <3>3. a \in AllBytes(file)
      BY <3>1, <3>2, Tables
    <3>4. QED BY <3>3
  <2>2. QED BY <1>10, <2>1 DEF SystemCall
<1>11. CASE Exit
  BY <1>11 DEF Exit
<1>12. CASE UNCHANGED vars
  BY <1>12
<1>13. QED
  BY <1>1, <1>2, <1>3, <1>4, <1>5, <1>6, <1>7, <1>8, <1>9, <1>10, <1>11, <1>12 DEF Next

\* Every step keeps to the stages.
LEMMA StepStage ==
  ASSUME TypeOK, Stage, [Next]_vars
  PROVE  Stage'
<1> USE DEF Stage, vars, kernel, Running, Accessible
<1>1. CASE so_init_loader
  BY <1>1 DEF so_init_loader
<1>2. CASE so_execute
  BY <1>2 DEF so_execute
<1>3. CASE fix_auxv
  BY <1>3 DEF fix_auxv, Issue
<1>4. CASE JumpToEntry
  BY <1>4 DEF JumpToEntry, Issue
<1>5. CASE ProgramAccess
  BY <1>5 DEF ProgramAccess, Issue
<1>6. CASE Execute
  BY <1>6 DEF Execute
<1>7. CASE PageFault
  BY <1>7 DEF PageFault
<1>8. CASE Load
  BY <1>8 DEF Load, MapPage
<1>9. CASE GiveUp
  BY <1>9 DEF GiveUp
<1>10. CASE \E a \in Probes \cap ImageAddrs(file) : SystemCall(a)
  BY <1>10 DEF SystemCall
<1>11. CASE Exit
  BY <1>11 DEF Exit
<1>12. CASE UNCHANGED vars
  BY <1>12
<1>13. QED
  BY <1>1, <1>2, <1>3, <1>4, <1>5, <1>6, <1>7, <1>8, <1>9, <1>10, <1>11, <1>12 DEF Next

\* No step makes the handler's table wrong.
LEMMA StepTable ==
  ASSUME TypeOK, Stage, TableAgrees, [Next]_vars
  PROVE  TableAgrees'
<1> USE DEF vars, kernel
<1>1. CASE /\ UNCHANGED <<file, exec, mapped_pages, present, prot>>
           /\ pc = "killed" => pc' = "killed"
  BY <1>1 DEF TableAgrees, Opened
<1>2. CASE so_execute
  BY <1>2, Segments DEF so_execute, TableAgrees, Stage
<1>3. CASE Load
  <2>1. PICK i \in DOMAIN exec.segments : MapPage(i, PageNo(exec.segments[i], access.addr))
    BY <1>3 DEF Load
  <2> DEFINE n == PageNo(exec.segments[i], access.addr)
             p == Page(access.addr)
  <2>2. Found(i, n)
    BY <2>1, Loading, Zenon
  <2>3. /\ mapped_pages' = mapped_pages \cup {<<i, n>>}
        /\ UNCHANGED <<file, exec>>
        /\ \/ Mapped(exec.segments[i], n) /\ pc' = pc
           \/ UNCHANGED kernel /\ (pc' = "killed" \/ (~Opened(exec.segments[i]) /\ pc' = pc))
    BY <2>1 DEF MapPage
  <2>4. \/ present' = present \cup {p} /\ prot' = [prot EXCEPT ![p] = exec.segments[i].perm]
        \/ UNCHANGED <<present, prot>>
    <3>1. CASE Mapped(exec.segments[i], n)
      <4>1. PageLoaded(i)
        BY <2>2, <3>1, LoadedBytes, Zenon
      <4>2. exec.segments[i].perm = file.phdrs[i].flags
        BY <2>2, SegmentFacts DEF Found
      <4>3. QED BY <4>1, <4>2 DEF PageLoaded
    <3>2. QED BY <2>3, <3>1
  <2>5. p \in AllPages(file) /\ prot \in [AllPages(file) -> SUBSET Perm]
    BY <2>2 DEF Found, TypeOK
  <2>6. SUFFICES ASSUME NEW j \in DOMAIN exec.segments,
                        NEW m \in 0..((exec.segments[j].mem_size - 1) \div PageSize)
                 PROVE  LET s == exec.segments[j]
                            r == Page(PageAddr(s, m))
                        IN  /\ r \in present' => <<j, m>> \in mapped_pages' /\ prot'[r] = s.perm
                            /\ <<j, m>> \in mapped_pages' /\ pc' # "killed" =>
                                 r \in present' \/ ~Opened(s)
    BY <2>3 DEF TableAgrees, Opened
  <2> DEFINE s == exec.segments[j]
             r == Page(PageAddr(s, m))
  <2>7. /\ r \in present => <<j, m>> \in mapped_pages /\ prot[r] = s.perm
        /\ <<j, m>> \in mapped_pages /\ pc # "killed" => r \in present \/ ~Opened(s)
    BY DEF TableAgrees
  <2>8. CASE j = i /\ m = n
    <3>1. r = p /\ p \notin present
      BY <2>2, <2>8 DEF Found
    <3>2. CASE present' = present \cup {p} /\ prot' = [prot EXCEPT ![p] = exec.segments[i].perm]
      BY <2>3, <2>5, <2>8, <3>1, <3>2
    <3>3. CASE UNCHANGED <<present, prot>>
      <4>1. ~Mapped(exec.segments[i], n)
        <5>1. SUFFICES ASSUME Mapped(exec.segments[i], n) PROVE FALSE
          OBVIOUS
        <5>2. PageLoaded(i)
          BY <2>2, <5>1, LoadedBytes, Zenon
        <5>3. QED BY <3>1, <3>3, <5>2 DEF PageLoaded
      <4>2. QED BY <2>3, <2>8, <3>1, <3>3, <4>1
    <3>4. QED BY <2>4, <3>2, <3>3
  <2>9. CASE ~(j = i /\ m = n)
    <3>1. r # p
      <4>1. /\ exec = Parsed(file) /\ file \in Files /\ i \in Loads(file) /\ n \in Nat
            /\ Page(PageAddr(exec.segments[i], n)) = p /\ p \in PagesOf(file.phdrs[i])
        BY <2>2 DEF Found
      <4>2. /\ j \in Loads(file) /\ s = Segment(file.phdrs[j])
            /\ exec.segments[i] = Segment(file.phdrs[i])
        BY <4>1, Segments
      <4>3. m \in Nat
        <5>1. s.mem_size \in Nat
          BY <4>1, <4>2, SegmentFacts
        <5>2. (s.mem_size - 1) \div PageSize \in Int
          BY <5>1, ElfAssumption
        <5> HIDE DEF s
        <5>3. QED BY <5>2
      <4>4. /\ r = Page(file.phdrs[j].vaddr) + m
            /\ r \in PagesOf(file.phdrs[j])
            /\ Page(file.phdrs[j].vaddr) \in Nat
        BY <4>1, <4>2, <4>3, SegmentPage, SegmentFacts
      <4>5. p = Page(file.phdrs[i].vaddr) + n
        BY <4>1, <4>2, SegmentPage
      <4>6. CASE j = i
        <5> HIDE DEF r, p, n
        <5>1. QED BY <2>9, <4>1, <4>3, <4>4, <4>5, <4>6
      <4>7. CASE j # i
        BY <4>1, <4>2, <4>4, <4>7, SegmentsApart
      <4>8. QED BY <4>6, <4>7
    <3>2. (r \in present' <=> r \in present) /\ (r \in present => prot'[r] = prot[r])
      BY <2>4, <2>5, <3>1 DEF TypeOK
    <3>3. <<j, m>> \in mapped_pages' <=> <<j, m>> \in mapped_pages
      BY <2>3, <2>9
    <3>4. pc = "killed" => pc' = "killed"
      BY <2>3
    <3>5. /\ r \in present' => <<j, m>> \in mapped_pages' /\ prot'[r] = s.perm
          /\ <<j, m>> \in mapped_pages' /\ pc' # "killed" => r \in present' \/ ~Opened(s)
      <4> HIDE DEF r, s
      <4> QED BY <2>7, <3>2, <3>3, <3>4
    <3>6. QED BY <3>5, Zenon
  <2>10. QED BY <2>8, <2>9
<1>4. QED
  <2>1. ASSUME [Next]_vars, ~so_execute, ~Load
        PROVE  /\ UNCHANGED <<file, exec, mapped_pages, present, prot>>
               /\ pc = "killed" => pc' = "killed"
    BY <2>1 DEF Next, so_init_loader, fix_auxv, JumpToEntry, ProgramAccess, Issue, Execute,
                PageFault,
                Running, GiveUp, SystemCall, Exit
  <2>2. QED BY <1>1, <1>2, <1>3, <2>1
-------------------------------------------------------------------------------
\* The abstract specification speaks of the same executables, pages and images.
LEMMA SameElf ==
  /\ Image!NoAccess = NoAccess /\ Image!Access = Access /\ Image!EFAULT = EFAULT
  /\ \A a : Image!AlignDown(a) = AlignDown(a) /\ Image!Page(a) = Page(a)
  /\ \A h : Image!Bytes(h) = Bytes(h) /\ Image!PagesOf(h) = PagesOf(h)
  /\ \A m, kind : Image!Allows(m, kind) = Allows(m, kind)
  /\ \A f : Image!Loads(f) = Loads(f)
<1> USE DEF Image!NoAccess, NoAccess, Image!Access, Access, Image!EFAULT, EFAULT,
            Image!AlignDown, AlignDown, Image!Page, Page, Image!Bytes, Bytes,
            Image!PagesOf, PagesOf, Image!Allows, Allows, Image!Loads, Loads,
            Image!NoBase, NoBase, Image!Perm, Perm
<1> QED OBVIOUS

\* So do the bytes of an image.
LEMMA SameImage ==
  \A f : /\ Image!ImageAddrs(f) = ImageAddrs(f)
         /\ \A a : Image!ImageByte(f, a) = ImageByte(f, a)
BY DEF Image!ImageAddrs, ImageAddrs, Image!ImageByte, ImageByte, Image!FileByte, FileByte,
       Image!Bytes, Bytes, Image!Loads, Loads

\* With the default action in place, the access in execution is one that has to kill.
Doomed ==
  sigsegv = "default" /\ pc \in {"auxv", "jump", "program"} =>
    Running /\ ~handling /\ ~Accessible(access) /\ ~Image!Legal(file, access)

\* A legal access has one segment, and the handler finds it.
LEMMA LegalSegment ==
  ASSUME NEW f \in Files, NEW x, Image!Legal(f, x)
  PROVE  \E k \in Loads(f) :
           LET h == f.phdrs[k]
           IN  /\ x.addr \in Bytes(h) /\ x.addr \in Nat /\ Page(x.addr) \in PagesOf(h)
               /\ Allows(h.flags, x.kind) /\ Image!Loadable(f, h, x.addr)
               /\ Covers(Segment(h), x.addr)
               /\ \A j \in Loads(f) : Covers(Segment(f.phdrs[j]), x.addr) => j = k
<1>1. PICK k \in Loads(f) : /\ x.addr \in Bytes(f.phdrs[k])
                            /\ Allows(f.phdrs[k].flags, x.kind)
                            /\ Image!Loadable(f, f.phdrs[k], x.addr)
  BY SameElf DEF Image!Legal
<1>2. x.addr \in Nat /\ Covers(Segment(f.phdrs[k]), x.addr)
  BY <1>1, BytesCovered
<1>3. \A j \in Loads(f) :
        Covers(Segment(f.phdrs[j]), x.addr) => Page(x.addr) \in PagesOf(f.phdrs[j])
  BY <1>2, CoveredPage
<1>4. \A j \in Loads(f) : Covers(Segment(f.phdrs[j]), x.addr) => j = k
  BY <1>2, <1>3, SegmentsApart
<1>5. QED BY <1>1, <1>2, <1>3, <1>4

\* The handler gives up on accesses only that need not be carried out.
LEMMA GivesUpRightly ==
  ASSUME TypeOK, Stage, TableAgrees, GiveUp
  PROVE  ~Image!Legal(file, access)
<1>1. SUFFICES ASSUME Image!Legal(file, access) PROVE FALSE
  OBVIOUS
<1>2. /\ handling /\ exec = Parsed(file) /\ file \in Files /\ pc # "killed"
      /\ ~Accessible(access)
  BY DEF GiveUp, Stage, Running, TypeOK
<1>3. PICK k \in Loads(file) :
        LET h == file.phdrs[k]
        IN  /\ access.addr \in Bytes(h) /\ access.addr \in Nat /\ Page(access.addr) \in PagesOf(h)
            /\ Allows(h.flags, access.kind) /\ Image!Loadable(file, h, access.addr)
            /\ Covers(Segment(h), access.addr)
            /\ \A j \in Loads(file) : Covers(Segment(file.phdrs[j]), access.addr) => j = k
  BY <1>1, <1>2, LegalSegment
<1> DEFINE s == Segment(file.phdrs[k])
           n == PageNo(s, access.addr)
<1>4. /\ k \in DOMAIN exec.segments /\ exec.segments[k] = s
      /\ \A j \in DOMAIN exec.segments : j # k => ~Covers(exec.segments[j], access.addr)
  BY <1>2, <1>3, Segments
<1>5. FirstSegment(k, access.addr)
  <2>1. k \in Nat /\ \A j \in DOMAIN exec.segments : j \in Nat
    <3>1. file.phdrs \in Seq(Header)
      BY <1>2, ElfAssumption DEF File
    <3>2. DOMAIN exec.segments \subseteq Nat
      BY <1>2, <3>1, Segments DEF Loads
    <3>3. QED BY <1>4, <3>2
  <2>2. QED BY <1>3, <1>4, <2>1 DEF FirstSegment
<1>6. <<k, n>> \in mapped_pages
  BY <1>4, <1>5 DEF GiveUp, Fresh
<1>7. n \in 0..((s.mem_size - 1) \div PageSize) /\ Page(PageAddr(s, n)) = Page(access.addr)
  BY <1>2, <1>3, CoveredPage
<1>8. /\ Page(access.addr) \in present => prot[Page(access.addr)] = s.perm
      /\ Page(access.addr) \in present \/ ~Opened(s)
  BY <1>2, <1>4, <1>6, <1>7 DEF TableAgrees
<1>9. Opened(s) /\ s.perm = file.phdrs[k].flags
  BY <1>2, <1>3, SegmentFacts DEF Opened, Image!Loadable
<1>10. QED BY <1>2, <1>3, <1>8, <1>9 DEF Accessible

\* The handler faults on accesses only that need not be carried out.
LEMMA MemsetFaultsRightly ==
  ASSUME TypeOK, NEW i, NEW n, Found(i, n), MemsetFaults(exec.segments[i], n)
  PROVE  ~Image!Legal(file, access)
<1>1. SUFFICES ASSUME Image!Legal(file, access) PROVE FALSE
  OBVIOUS
<1>2. PICK k \in Loads(file) :
        LET h == file.phdrs[k]
        IN  /\ access.addr \in Nat
            /\ Image!Loadable(file, h, access.addr)
            /\ \A j \in Loads(file) : Covers(Segment(file.phdrs[j]), access.addr) => j = k
  BY <1>1, LegalSegment DEF TypeOK
<1> DEFINE h == file.phdrs[i]
           s == Segment(h)
           start == PageAddr(s, n)
<1>3. /\ i \in Loads(file) /\ file \in Files /\ exec.segments[i] = s /\ n \in Nat
      /\ Covers(s, access.addr) /\ start = AlignDown(access.addr)
      /\ start = Page(access.addr) * PageSize
  BY DEF Found
<1>4. k = i
  BY <1>2, <1>3
<1>5. /\ s.offset \in Nat /\ s.vaddr \in Nat /\ s.offset - s.vaddr = h.offset - h.vaddr
      /\ s.vaddr + s.file_size = h.vaddr + h.filesz /\ s.vaddr + s.mem_size = h.vaddr + h.memsz
      /\ h.vaddr \in Nat /\ h.offset \in Nat /\ h.filesz \in Nat /\ h.memsz \in Nat
      /\ s.perm = h.flags /\ file.length \in Nat /\ s.file_size \in Nat /\ s.mem_size \in Nat
  BY <1>3, SegmentFacts, HeaderFacts
<1>6. n * PageSize \in Nat /\ start = s.vaddr + n * PageSize
  BY <1>3, ElfAssumption DEF PageAddr
<1>7. PICK a \in start..(start + PageSize - 1) :
        s.vaddr + s.file_size <= a /\ a < s.vaddr + s.mem_size
  BY <1>3 DEF MemsetFaults, Zeroed
<1>8. h.filesz < h.memsz /\ start + PageSize > h.vaddr + h.filesz
  <2> HIDE DEF h, s, start
  <2> QED BY <1>5, <1>6, <1>7, ElfAssumption
<1>9. "w" \in h.flags => file.writable
  BY <1>2, <1>4 DEF Image!Loadable
<1>10. "w" \in h.flags /\ h.offset + (start - h.vaddr) < file.length
  BY <1>2, <1>3, <1>4, <1>8, SameElf DEF Image!Loadable
<1>11. Opened(s) /\ "w" \in s.perm
  BY <1>5, <1>9, <1>10 DEF Opened
<1>12. s.offset + n * PageSize < file.length
  <2> HIDE DEF h, s, start
  <2> QED BY <1>5, <1>6, <1>10
<1>13. ~(s.offset + n * PageSize >= file.length)
  <2> HIDE DEF h, s, start
  <2> QED BY <1>5, <1>6, <1>12
<1>14. QED BY <1>3, <1>11, <1>13 DEF MemsetFaults

\* The default action is back only for an access that has to kill.
LEMMA StepDoomed ==
  ASSUME TypeOK, Stage, TableAgrees, Doomed, [Next]_vars
  PROVE  Doomed'
<1> USE DEF vars, kernel, Stage, Doomed, Running
<1>1. CASE GiveUp
  <2>1. ~Image!Legal(file, access)
    BY <1>1, GivesUpRightly
  <2>2. Running /\ ~Accessible(access)
    BY <1>1 DEF GiveUp
  <2>3. UNCHANGED <<file, pc, access, present, prot>> /\ ~handling'
    BY <1>1 DEF GiveUp
  <2>4. QED BY <2>1, <2>2, <2>3 DEF Accessible
<1>2. CASE UNCHANGED vars
  BY <1>2 DEF Accessible
<1>3. CASE Execute
  BY <1>3 DEF Execute
<1>4. CASE Load
  BY <1>4 DEF Load, MapPage
<1>5. CASE PageFault
  <2>1. CASE sigsegv = "handler"
    BY <1>5, <2>1 DEF PageFault
  <2>2. CASE sigsegv # "handler"
    BY <1>5, <2>2 DEF PageFault
  <2>3. QED BY <2>1, <2>2
<1>6. CASE so_init_loader \/ so_execute \/ fix_auxv \/ JumpToEntry \/ ProgramAccess \/ Exit
           \/ \E a \in Probes \cap ImageAddrs(file) : SystemCall(a)
  BY <1>6 DEF so_init_loader, so_execute, fix_auxv, JumpToEntry, ProgramAccess, Issue, Exit,
              SystemCall
<1>7. QED
  BY <1>1, <1>2, <1>3, <1>4, <1>5, <1>6 DEF Next
-------------------------------------------------------------------------------
\* The image on a page of a segment: the file's bytes, then zeros.
LEMMA ImagePage ==
  ASSUME NEW f \in Files, NEW a \in ImageAddrs(f)
  PROVE  /\ a \in AllBytes(f) /\ a \in Nat
         /\ \A k \in Loads(f) :
              Page(a) \in PagesOf(f.phdrs[k]) =>
                LET h == f.phdrs[k]
                IN  /\ h.vaddr <= a /\ a < h.vaddr + h.memsz
                    /\ ImageByte(f, a) = IF a < h.vaddr + h.filesz
                                         THEN FileByte(f, h.offset + (a - h.vaddr)) ELSE 0
<1> DEFINE c == CHOOSE k \in Loads(f) : a \in Bytes(f.phdrs[k])
<1>1. c \in Loads(f) /\ a \in Bytes(f.phdrs[c])
  <2>1. \E k \in Loads(f) : a \in Bytes(f.phdrs[k])
    BY DEF ImageAddrs
  <2>2. QED BY <2>1
<1>2. ImageByte(f, a) = IF a < f.phdrs[c].vaddr + f.phdrs[c].filesz
                        THEN FileByte(f, f.phdrs[c].offset + (a - f.phdrs[c].vaddr)) ELSE 0
  BY DEF ImageByte
<1> HIDE DEF c
<1>3. a \in Nat /\ Covers(Segment(f.phdrs[c]), a)
  BY <1>1, BytesCovered
<1>4. Page(a) \in PagesOf(f.phdrs[c])
  BY <1>1, <1>3, CoveredPage
<1>5. a \in AllBytes(f)
  <2>1. a \in Int /\ c \in Loads(f)
    BY <1>1, <1>3
  <2>2. QED BY <2>1, <1>4, Tables, Zenon
<1>6. \A k \in Loads(f) : Page(a) \in PagesOf(f.phdrs[k]) => k = c
  BY <1>1, <1>4, SegmentsApart
<1>7. f.phdrs[c].vaddr <= a /\ a < f.phdrs[c].vaddr + f.phdrs[c].memsz
  <2>1. f.phdrs[c].vaddr \in Nat /\ f.phdrs[c].memsz \in Nat
    BY <1>1, HeaderFacts
  <2>2. QED BY <1>1, <2>1 DEF Bytes
<1>8. QED BY <1>2, <1>3, <1>5, <1>6, <1>7

\* A page that gets loaded already looked like that: the view does not change.
LEMMA ViewKept ==
  ASSUME TypeOK, NEW i, NEW n, Found(i, n), PageLoaded(i), file' = file
  PROVE  View' = View
<1> DEFINE h == file.phdrs[i]
           p == Page(access.addr)
<1>1. /\ file \in Files /\ i \in Loads(file) /\ p \in PagesOf(h) /\ p \notin present
  BY DEF Found
<1>2. ASSUME NEW a \in ImageAddrs(file)
      PROVE  (IF Page(a) \in present' THEN mem'[a] ELSE ImageByte(file, a))
               = IF Page(a) \in present THEN mem[a] ELSE ImageByte(file, a)
  <2>1. a \in AllBytes(file) /\ a \in Nat
    BY <1>1, ImagePage
  <2>2. CASE Page(a) # p
    <3>1. mem'[a] = mem[a] /\ (Page(a) \in present' <=> Page(a) \in present)
      BY <2>1, <2>2 DEF PageLoaded
    <3>2. QED BY <3>1
  <2>3. CASE Page(a) = p
    <3>1. /\ h.vaddr <= a /\ a < h.vaddr + h.memsz
          /\ ImageByte(file, a) = IF a < h.vaddr + h.filesz
                                  THEN FileByte(file, h.offset + (a - h.vaddr)) ELSE 0
      BY <1>1, <2>3, ImagePage
    <3>2. /\ Page(a) \in present'
          /\ mem'[a] = IF h.vaddr + h.filesz <= a /\ a < h.vaddr + h.memsz
                       THEN 0 ELSE FileByte(file, h.offset + (a - h.vaddr))
      BY <2>1, <2>3 DEF PageLoaded
    <3>3. h.vaddr \in Nat /\ h.filesz \in Nat
      BY <1>1, HeaderFacts
    <3> HIDE DEF h, p
    <3>4. mem'[a] = ImageByte(file, a)
      BY <2>1, <3>1, <3>2, <3>3
    <3>5. QED BY <1>1, <2>3, <3>2, <3>4
  <2>4. QED BY <2>2, <2>3
<1>3. QED BY <1>2, Zenon DEF View

\* The initial states of the loader are those of the abstract specification.
LEMMA InitMaps == Init => Image!Init
<1> SUFFICES ASSUME Init PROVE Image!Init
  OBVIOUS
<1>1. View = [a \in ImageAddrs(file) |-> ImageByte(file, a)]
  BY DEF Init, View
<1>2. View = [a \in Image!ImageAddrs(file) |-> Image!ImageByte(file, a)]
  BY <1>1, SameImage
<1>3. Life = "loading"
  BY DEF Init, Life
<1>4. QED
  BY <1>2, <1>3, SameElf DEF Init, Image!Init

\* Every step is one of the abstract specification, or none.
LEMMA StepMaps ==
  ASSUME TypeOK, Stage, TableAgrees, Doomed, TypeOK', [Next]_vars
  PROVE  [Image!Next]_Image!imageVars
<1> USE DEF vars, kernel, Image!imageVars
<1>1. ASSUME UNCHANGED <<file, present, mem>>
      PROVE  View' = View
  BY <1>1 DEF View
<1>2. CASE so_init_loader
  BY <1>1, <1>2 DEF so_init_loader, Life
<1>3. CASE so_execute
  <2>1. View' = View
    BY <1>1, <1>3 DEF so_execute
  <2>2. Image!Start
    BY <1>3, <2>1 DEF so_execute, Life, Image!Start
  <2>3. QED BY <2>2 DEF Image!Next
<1>4. CASE fix_auxv \/ JumpToEntry \/ ProgramAccess
  <2>1. View' = View
    BY <1>1, <1>4 DEF fix_auxv, JumpToEntry, ProgramAccess, Issue
  <2>2. access' \in Access /\ access = NoAccess
        /\ UNCHANGED <<file, got, present>> /\ Life = "running" /\ Life' = "running"
    <3>1. access' # NoAccess
      BY <1>4 DEF fix_auxv, JumpToEntry, ProgramAccess, Issue, NoAccess
    <3>2. QED
      BY <1>4, <3>1 DEF fix_auxv, JumpToEntry, ProgramAccess, Issue, TypeOK, Life
  <2>3. Image!Issue
    BY <2>1, <2>2, SameElf DEF Image!Issue
  <2>4. QED BY <2>3 DEF Image!Next
<1>5. CASE Execute
  <2>1. /\ access \in Access /\ access # NoAccess /\ Page(access.addr) \in present
        /\ Allows(prot[Page(access.addr)], access.kind)
        /\ Life = "running" /\ Life' = "running"
        /\ UNCHANGED <<file, present>> /\ access' = NoAccess
        /\ exec = Parsed(file) /\ file \in Files
    BY <1>5 DEF Execute, Running, Accessible, TypeOK, Life, Stage
  <2>2. access.addr \in Int
    BY <2>1 DEF Access, NoBase
  <2>3. PICK k \in Loads(file) : Page(access.addr) \in PagesOf(file.phdrs[k])
    BY <2>1 DEF AllPages, TypeOK
  <2>4. access.addr \in AllBytes(file)
    BY <2>1, <2>2, <2>3, Tables
  <2>5. Image!Tolerated(file, access)
    <3>1. PICK n \in 0..((Segment(file.phdrs[k]).mem_size - 1) \div PageSize) :
            Page(access.addr) = Page(PageAddr(Segment(file.phdrs[k]), n))
      BY <2>1, <2>3, Tables
    <3>2. k \in DOMAIN exec.segments /\ exec.segments[k] = Segment(file.phdrs[k])
      BY <2>1, Segments
    <3>3. prot[Page(access.addr)] = Segment(file.phdrs[k]).perm
      <4>1. n \in 0..((exec.segments[k].mem_size - 1) \div PageSize)
        BY <3>2
      <4>2. Page(PageAddr(exec.segments[k], n)) \in present =>
              prot[Page(PageAddr(exec.segments[k], n))] = exec.segments[k].perm
        BY <3>2, <4>1 DEF TableAgrees
      <4>3. QED BY <2>1, <3>1, <3>2, <4>2
    <3>4. Segment(file.phdrs[k]).perm = file.phdrs[k].flags
      BY <2>1, SegmentFacts
    <3>5. QED BY <2>1, <2>3, <3>3, <3>4, SameElf DEF Image!Tolerated
  <2>6. CASE access.kind = "w"
    <3>1. mem' = [mem EXCEPT ![access.addr] = access.value] /\ got' = got
      BY <1>5, <2>6 DEF Execute
    <3>2. ASSUME NEW a \in ImageAddrs(file)
          PROVE  (IF Page(a) \in present' THEN mem'[a] ELSE ImageByte(file, a))
                   = IF a = access.addr THEN access.value ELSE View[a]
      <4>1. a \in AllBytes(file)
        BY <2>1, ImagePage
      <4>2. View[a] = IF Page(a) \in present THEN mem[a] ELSE ImageByte(file, a)
        BY DEF View
      <4>3. QED BY <2>1, <3>1, <4>1, <4>2 DEF TypeOK
    <3>3. View' = [a \in ImageAddrs(file) |-> IF a = access.addr THEN access.value ELSE View[a]]
      BY <2>1, <3>2 DEF View
    <3>4. QED
      BY <2>1, <2>5, <2>6, <3>1, <3>3, SameElf, SameImage DEF Image!Perform, Image!Next
  <2>7. CASE access.kind # "w"
    <3>1. mem' = mem /\ got' = mem[access.addr]
      BY <1>5, <2>7 DEF Execute
    <3>2. View' = View
      BY <1>1, <2>1, <3>1
    <3>3. got' \in Nat
      BY <2>4, <3>1 DEF TypeOK
    <3>4. access.addr \in ImageAddrs(file) => got' = View[access.addr]
      BY <2>1, <3>1 DEF View
    <3>5. QED
      BY <2>1, <2>5, <2>7, <3>2, <3>3, <3>4, SameElf, SameImage DEF Image!Perform, Image!Next
  <2>8. QED BY <2>6, <2>7
<1>6. CASE PageFault
  <2>1. View' = View
    BY <1>1, <1>6 DEF PageFault
  <2>2. CASE sigsegv = "handler"
    BY <1>6, <2>1, <2>2 DEF PageFault, Life
  <2>3. CASE sigsegv # "handler"
    <3>1. ~Image!Legal(file, access)
      BY <1>6, <2>3 DEF PageFault, Doomed, Running, TypeOK
    <3>2. Image!Kill
      BY <1>6, <2>1, <2>3, <3>1, SameElf DEF PageFault, Running, Life, Image!Kill
    <3>3. QED BY <3>2 DEF Image!Next
  <2>4. QED BY <2>2, <2>3
<1>7. CASE Load
  <2>1. PICK i \in DOMAIN exec.segments : MapPage(i, PageNo(exec.segments[i], access.addr))
    BY <1>7 DEF Load
  <2> DEFINE n == PageNo(exec.segments[i], access.addr)
  <2>2. Found(i, n)
    BY <2>1, Loading, Zenon
  <2>3. /\ UNCHANGED <<file, access, got>> /\ handling
        /\ \/ Mapped(exec.segments[i], n) /\ pc' = pc
           \/ UNCHANGED kernel /\ pc' = pc
           \/ UNCHANGED kernel /\ pc' = "killed" /\ MemsetFaults(exec.segments[i], n)
    BY <2>1 DEF MapPage
  <2>4. pc \in {"jump", "program"} /\ access # NoAccess /\ Life = "running"
    BY <2>3 DEF Stage, Running, Life
  <2>5. CASE Mapped(exec.segments[i], n) /\ pc' = pc
    <3>1. PageLoaded(i)
      BY <2>2, <2>5, LoadedBytes, Zenon
    <3>2. View' = View
      BY <2>2, <2>3, <3>1, ViewKept, Zenon
    <3>3. Life' = Life
      BY <2>5 DEF Life
    <3>4. present' = present \cup {Page(access.addr)}
      BY <3>1 DEF PageLoaded
    <3>5. Image!Touch
      BY <2>3, <2>4, <3>2, <3>3, <3>4, SameElf DEF Image!Touch
    <3>6. QED BY <3>5 DEF Image!Next
  <2>6. CASE UNCHANGED kernel /\ pc' = pc
    BY <1>1, <2>3, <2>6 DEF Life
  <2>7. CASE UNCHANGED kernel /\ pc' = "killed" /\ MemsetFaults(exec.segments[i], n)
    <3>1. ~Image!Legal(file, access)
      BY <2>2, <2>7, MemsetFaultsRightly, Zenon
    <3>2. View' = View /\ Life' = "killed"
      BY <1>1, <2>3, <2>7 DEF Life
    <3>3. Image!Kill
      BY <2>3, <2>4, <2>7, <3>1, <3>2, SameElf DEF Image!Kill
    <3>4. QED BY <3>3 DEF Image!Next
  <2>8. QED BY <2>3, <2>5, <2>6, <2>7
<1>8. CASE GiveUp
  BY <1>1, <1>8 DEF GiveUp, Life
<1>9. ASSUME NEW a \in Probes \cap ImageAddrs(file), SystemCall(a)
      PROVE  [Image!Next]_Image!imageVars
  <2>1. View' = View /\ Life' = Life /\ Life = "running"
    BY <1>1, <1>9 DEF SystemCall, Life
  <2>2. Page(a) \in present => mem[a] = View[a]
    BY DEF View
  <2>3. Image!SystemCall
    BY <1>9, <2>1, <2>2, SameElf, SameImage DEF SystemCall, Image!SystemCall
  <2>4. QED BY <2>3 DEF Image!Next
<1>10. CASE Exit
  <2>1. View' = View /\ Life' = "ended" /\ Life = "running"
    BY <1>1, <1>10 DEF Exit, Life
  <2>2. Image!Exit
    BY <1>10, <2>1, SameElf DEF Exit, Image!Exit
  <2>3. QED BY <2>2 DEF Image!Next
<1>11. CASE UNCHANGED vars
  BY <1>1, <1>11 DEF Life
<1>12. QED
  BY <1>2, <1>3, <1>4, <1>5, <1>6, <1>7, <1>8, <1>9, <1>10, <1>11 DEF Next
-------------------------------------------------------------------------------
\* What is true of every reachable state.
Sound == TypeOK /\ Stage /\ TableAgrees /\ Doomed

\* The invariant is inductive.
LEMMA Soundness == Spec => []Sound
<1>1. Init => Sound
  <2> SUFFICES ASSUME Init PROVE Sound
    OBVIOUS
  <2>1. TypeOK /\ Stage
    BY InitTypeOK
  <2>2. TableAgrees
    BY Segments DEF Init, TableAgrees
  <2>3. Doomed
    BY DEF Init, Doomed
  <2>4. QED BY <2>1, <2>2, <2>3 DEF Sound
<1>2. Sound /\ [Next]_vars => Sound'
  BY StepTypeOK, StepStage, StepTable, StepDoomed DEF Sound
<1>3. QED BY <1>1, <1>2, PTL DEF Spec

\* Every variable of the loader and of the process has its type, whatever the executable and
\* whatever the program does (exec_parser.c, loader.c).
THEOREM LoaderTyped == Spec => []TypeOK
<1>1. Sound => TypeOK
  BY DEF Sound
<1>2. QED BY <1>1, Soundness, PTL

\* mapped_pages tells the truth: a page of a segment whose entry is 1 is there, with the segment's
\* permissions, unless its mapping failed, and no other page is (loader.c:56).
THEOREM TableIsTrue == Spec => []TableAgrees
<1>1. Sound => TableAgrees
  BY DEF Sound
<1>2. QED BY <1>1, Soundness, PTL

\* The handler never overwrites a page that is there: only a store changes a byte of it
\* (loader.c:37, 52, 78).
THEOREM StoresAreKept == Spec => StoresSurvive
<1> DEFINE Kept == \A a \in DOMAIN mem :
                     Page(a) \in present /\ mem'[a] # mem[a] =>
                       access.kind = "w" /\ access.addr = a
<1>1. Sound /\ [Next]_vars => [Kept]_vars
  <2> SUFFICES ASSUME Sound, [Next]_vars, vars' # vars PROVE Kept
    OBVIOUS
  <2> SUFFICES ASSUME NEW a \in DOMAIN mem, Page(a) \in present, mem'[a] # mem[a]
               PROVE  access.kind = "w" /\ access.addr = a
    OBVIOUS
  <2>1. TypeOK /\ Stage /\ TableAgrees
    BY DEF Sound
  <2>2. CASE Execute
    BY <2>1, <2>2 DEF Execute, TypeOK
  <2>3. CASE Load
    <3>1. PICK i \in DOMAIN exec.segments : MapPage(i, PageNo(exec.segments[i], access.addr))
      BY <2>3 DEF Load
    <3> DEFINE n == PageNo(exec.segments[i], access.addr)
    <3>2. Found(i, n)
      BY <2>1, <3>1, Loading, Zenon
    <3>3. Mapped(exec.segments[i], n)
      BY <3>1 DEF MapPage, kernel
    <3>4. PageLoaded(i)
      BY <2>1, <3>2, <3>3, LoadedBytes, Zenon
    <3>5. Page(access.addr) \notin present /\ DOMAIN mem = AllBytes(file)
      BY <2>1, <3>2 DEF Found, TypeOK
    <3>6. QED BY <3>4, <3>5 DEF PageLoaded
  <2>4. CASE ~Execute /\ ~Load
    BY <2>4 DEF Next, vars, kernel, so_init_loader, so_execute, fix_auxv, JumpToEntry,
                ProgramAccess, Issue, PageFault, GiveUp, SystemCall, Exit
  <2>5. QED BY <2>2, <2>3, <2>4
<1>2. Spec => [][Sound /\ [Next]_vars]_vars
  BY Soundness, PTL DEF Spec
<1>3. QED BY <1>1, <1>2, PTL DEF StoresSurvive

\* Demand paging is invisible: for every executable a linker may produce and every program, what
\* the process reads, stores, is killed for and ends with is what ElfImage says, although the pages
\* come one by one (exec_parser.c, loader.c).
THEOREM PagingIsInvisible == Spec => ImplementsImage
<1>1. Sound /\ Sound' /\ [Next]_vars => [Image!Next]_Image!imageVars
  BY StepMaps DEF Sound
<1>2. QED
  BY InitMaps, Soundness, <1>1, PTL DEF Spec, ImplementsImage, Image!Spec
-------------------------------------------------------------------------------
\* The page of the access is missing and the handler will not load it (again).
Stuck ==
  /\ access # NoAccess /\ Page(access.addr) \notin present
  /\ \A i \in DOMAIN exec.segments :
       FirstSegment(i, access.addr) => ~Fresh(i, PageNo(exec.segments[i], access.addr))

\* The count of faults is one ahead while the handler works on one, and is only wrong for good when
\* the process cannot go on.
Counted ==
  /\ IsFiniteSet(present)
  /\ \/ Stuck
     \/ no_page_faults = Cardinality(present)
                           + IF handling /\ Page(access.addr) \notin present THEN 1 ELSE 0

\* Every step counts right.
LEMMA StepCounted ==
  ASSUME TypeOK, Stage, TableAgrees, Counted, [Next]_vars
  PROVE  Counted'
<1> USE DEF vars, kernel
<1>0. Cardinality(present) \in Nat
  BY FS_CardinalityType DEF Counted
<1>1. CASE Execute
  <2>1. ~Stuck /\ ~handling /\ ~handling' /\ UNCHANGED <<present, no_page_faults>>
    BY <1>1 DEF Execute, Accessible, Stuck, Stage
  <2>2. QED BY <2>1 DEF Counted
<1>2. CASE fix_auxv \/ JumpToEntry \/ ProgramAccess
  <2>1. /\ access = NoAccess /\ ~handling /\ handling' = handling
        /\ UNCHANGED <<present, no_page_faults>>
    BY <1>2 DEF fix_auxv, JumpToEntry, ProgramAccess, Issue, Stage, Running
  <2>2. QED BY <2>1 DEF Counted, Stuck
<1>3. CASE PageFault
  <2>1. UNCHANGED <<file, exec, mapped_pages, access, present>> /\ ~handling
    BY <1>3 DEF PageFault
  <2>2. CASE Stuck
    BY <2>1, <2>2 DEF Counted, Stuck, FirstSegment, Fresh
  <2>3. CASE ~Stuck /\ sigsegv = "handler"
    <3>1. no_page_faults = Cardinality(present)
      BY <1>0, <2>1, <2>3 DEF Counted
    <3>2. handling' /\ no_page_faults' = no_page_faults
                         + IF Page(access.addr) \in present THEN 0 ELSE 1
      BY <1>3, <2>3 DEF PageFault
    <3>3. QED BY <1>0, <2>1, <3>1, <3>2 DEF Counted
  <2>4. CASE ~Stuck /\ sigsegv # "handler"
    <3>1. UNCHANGED <<handling, no_page_faults>>
      BY <1>3, <2>4 DEF PageFault
    <3>2. QED BY <2>1, <2>4, <3>1 DEF Counted
  <2>5. QED BY <2>2, <2>3, <2>4
<1>4. CASE Load
  <2>1. PICK i \in DOMAIN exec.segments : MapPage(i, PageNo(exec.segments[i], access.addr))
    BY <1>4 DEF Load
  <2> DEFINE n == PageNo(exec.segments[i], access.addr)
             p == Page(access.addr)
  <2>2. Found(i, n)
    BY <2>1, Loading, Zenon
  <2>3. /\ mapped_pages' = mapped_pages \cup {<<i, n>>} /\ FirstSegment(i, access.addr)
        /\ Fresh(i, n)
        /\ UNCHANGED <<file, exec, access, no_page_faults>> /\ handling /\ ~handling'
        /\ Mapped(exec.segments[i], n) \/ UNCHANGED kernel
    BY <2>1 DEF MapPage
  <2>4. p \notin present /\ exec = Parsed(file) /\ file \in Files
    BY <2>2 DEF Found
  <2>5. no_page_faults = Cardinality(present) + 1
    BY <2>3, <2>4 DEF Counted, Stuck
  <2>6. CASE Mapped(exec.segments[i], n)
    <3>1. present' = present \cup {p}
      <4>1. PageLoaded(i)
        BY <2>2, <2>6, LoadedBytes, Zenon
      <4>2. QED BY <4>1 DEF PageLoaded
    <3>2. IsFiniteSet(present') /\ Cardinality(present') = Cardinality(present) + 1
      BY <2>4, <3>1, FS_AddElement DEF Counted
    <3>3. QED BY <1>0, <2>3, <2>5, <3>2 DEF Counted
  <2>7. CASE UNCHANGED kernel
    <3>1. access # NoAccess
      BY <2>3 DEF Stage, Running
    <3>2. ASSUME NEW j \in DOMAIN exec.segments, FirstSegment(j, access.addr) PROVE j = i
      <4>1. DOMAIN exec.segments \subseteq Nat
        <5>1. file.phdrs \in Seq(Header)
          BY <2>4, ElfAssumption DEF File
        <5>2. QED BY <2>4, <5>1, Segments DEF Loads
      <4>2. i \in Nat /\ j \in Nat
        BY <4>1
      <4>3. ~(j < i) /\ ~(i < j)
        BY <2>3, <3>2 DEF FirstSegment
      <4>4. QED BY <4>2, <4>3
    <3>3. Stuck'
      <4> SUFFICES ASSUME NEW j \in DOMAIN exec.segments, FirstSegment(j, access.addr)
                   PROVE  <<j, PageNo(exec.segments[j], access.addr)>> \in mapped_pages'
        BY <2>3, <2>4, <2>7, <3>1 DEF Stuck, FirstSegment, Fresh
      <4>1. j = i
        BY <3>2
      <4>2. QED BY <2>3, <4>1
    <3>4. QED BY <2>7, <3>3 DEF Counted
  <2>8. QED BY <2>3, <2>6, <2>7
<1>5. CASE GiveUp
  <2>1. UNCHANGED <<file, exec, mapped_pages, access, present, no_page_faults>>
        /\ handling /\ ~handling'
    BY <1>5 DEF GiveUp
  <2>2. CASE Page(access.addr) \in present
    BY <1>0, <2>1, <2>2 DEF Counted, Stuck
  <2>3. CASE Page(access.addr) \notin present
    <3>1. Stuck
      BY <1>5, <2>1, <2>3 DEF GiveUp, Stuck, Stage, Running
    <3>2. Stuck'
      BY <2>1, <3>1 DEF Stuck, FirstSegment, Fresh
    <3>3. QED BY <2>1, <3>2 DEF Counted
  <2>4. QED BY <2>2, <2>3
<1>6. CASE so_execute
  <2>1. ~Stuck /\ UNCHANGED <<handling, present, no_page_faults, access>>
    BY <1>6 DEF so_execute, Stage, Stuck
  <2>2. QED BY <2>1 DEF Counted
<1>7. ASSUME UNCHANGED <<exec, mapped_pages, handling, present, access, no_page_faults>>
      PROVE  Counted'
  BY <1>7 DEF Counted, Stuck, FirstSegment, Fresh
<1>8. QED
  BY <1>1, <1>2, <1>3, <1>4, <1>5, <1>6, <1>7 DEF Next, so_init_loader, SystemCall, Exit

\* Every page in memory has cost one fault without a mapping, no more and no less, whenever the
\* process is between two accesses (loader.c:37, 56; run_test.c).
THEOREM OneFaultEach == Spec => []OneFaultPerPage
<1>1. Init => Counted
  BY FS_EmptySet DEF Init, Counted
<1>2. Sound /\ Counted /\ [Next]_vars => Counted'
  BY StepCounted DEF Sound
<1>3. Sound /\ Counted => OneFaultPerPage
  <2> SUFFICES ASSUME Sound, Counted, access = NoAccess
               PROVE  no_page_faults = Cardinality(present)
    BY DEF OneFaultPerPage
  <2>1. ~handling /\ ~Stuck
    BY DEF Sound, Stage, Running, Stuck
  <2>2. Cardinality(present) \in Nat
    BY FS_CardinalityType DEF Counted
  <2>3. QED BY <2>1, <2>2 DEF Counted
<1>4. QED BY <1>1, <1>2, <1>3, Soundness, PTL DEF Spec
===============================================================================
