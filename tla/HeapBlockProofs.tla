-------------------------- MODULE HeapBlockProofs --------------------------
(***************************************************************************)
(* The page allocator of pmm.c, and the steps heap.c composes a call of:    *)
(* arithmetic on sizes and alignment, the block list (split, coalesce, a     *)
(* fresh run of pages), and what each of them does to the bytes of memory,   *)
(* for every page size, alignment, header size and free list.                *)
(***************************************************************************)
EXTENDS Heap, BasicLemmas

USE ZenonT(60)

\* No page is twice on a list.
Distinct(l) == \A i, j \in 1..Len(l) : i # j => l[i] # l[j]

PageList == Seq(Nat \ {0})

\* A list given by its entries is a list of that length.
LEMMA EntriesMakeList ==
  ASSUME NEW n \in Nat, NEW f \in [1..n -> Nat \ {0}]
  PROVE  f \in PageList /\ Len(f) = n
<1>1. f \in Seq(Nat \ {0})
  BY SMTT(60)
<1>2. DOMAIN f = 1..n /\ DOMAIN f = 1..Len(f) /\ Len(f) \in Nat
  BY <1>1, LenIs
<1> QED
  BY <1>1, <1>2, SMTT(60) DEF PageList

\* pmm_alloc's search stops at a place from which the block can be taken.
LEMMA FirstRunIsRun ==
  ASSUME NEW l \in PageList, NEW count \in Nat, HasRun(l, count)
  PROVE  FirstRun(l, count) \in 1..Len(l) /\ IsRun(l, FirstRun(l, count), count)
<1> DEFINE T == {i \in 1..Len(l) : IsRun(l, i, count)}
<1>1. Len(l) \in Nat
  BY LenIs DEF PageList
<1>2. T \in SUBSET Nat /\ T # {}
  BY <1>1, SMTT(60) DEF HasRun
<1>3. PICK m \in T : \A n \in T : m <= n
  BY <1>2, LeastNat
<1>4. \A k \in 1..(m - 1) : ~IsRun(l, k, count)
  <2> TAKE k \in 1..(m - 1)
  <2>1. k \in 1..Len(l) /\ k < m
    BY <1>1, <1>3, SMTT(60)
  <2> QED
    BY <1>3, <2>1, SMTT(60)
<1>5. \E i \in 1..Len(l) : IsRun(l, i, count) /\ \A k \in 1..(i - 1) : ~IsRun(l, k, count)
  BY <1>3, <1>4
<1> QED
  BY <1>5 DEF FirstRun

\* Along a run the pages descend one by one.
LEMMA RunDescends ==
  ASSUME NEW l \in PageList, NEW i \in 1..Len(l), NEW count \in Nat, IsRun(l, i, count)
  PROVE  \A k \in 0..(count - 1) : l[i + k] = l[i] - k
<1> DEFINE T == {k \in 0..(count - 1) : l[i + k] # l[i] - k}
<1>1. /\ Len(l) \in Nat /\ i \in Nat
      /\ i + count - 1 <= Len(l)
      /\ \A j \in 1..Len(l) : l[j] \in Nat
  BY LenIs, SMTT(60) DEF PageList, IsRun
<1>2. SUFFICES ASSUME T # {} PROVE FALSE
  OBVIOUS
<1>3. PICK m \in T : \A n \in T : m <= n
  <2>1. T \in SUBSET Nat
    BY SMTT(60)
  <2> QED
    BY <1>2, <2>1, LeastNat
<1>4. m # 0
  BY <1>1, <1>3, SMTT(60)
<1>5. m - 1 \in 0..(count - 1) /\ m - 1 \notin T
  BY <1>3, <1>4, SMTT(60)
<1>6. l[i + (m - 1)] = l[i] - (m - 1)
  BY <1>5
<1>7. l[(i + (m - 1)) + 1] = l[i + (m - 1)] - 1
  <2>1. i + (m - 1) \in i..(i + count - 2)
    BY <1>1, <1>3, <1>4, SMTT(60)
  <2> QED
    BY <2>1 DEF IsRun
<1>8. (i + (m - 1)) + 1 = i + m /\ l[i] \in Nat /\ m \in Nat
  BY <1>1, <1>3, SMTT(60)
<1> QED
  BY <1>3, <1>6, <1>7, <1>8, SMTT(60)

\* The block handed out is the stretch of the list that starts at the first
\* run, and its page is never the failure value.
LEMMA AllocTakesRun ==
  ASSUME NEW l \in PageList, NEW count \in Nat, HasRun(l, count)
  PROVE  LET i == FirstRun(l, count)
             page == pmm_alloc(l, count)
         IN  /\ page \in Nat \ {0}
             /\ Run(page, count) = {l[j] : j \in i..(i + count - 1)}
<1> DEFINE i == FirstRun(l, count)
           page == pmm_alloc(l, count)
<1>1. i \in 1..Len(l) /\ IsRun(l, i, count)
  BY FirstRunIsRun
<1>2. \A k \in 0..(count - 1) : l[i + k] = l[i] - k
  BY <1>1, RunDescends
<1>3. /\ Len(l) \in Nat /\ i \in Nat /\ count > 0
      /\ i + count - 1 \in 1..Len(l)
      /\ \A j \in 1..Len(l) : l[j] \in Nat \ {0}
  <2>1. Len(l) \in Nat /\ \A j \in 1..Len(l) : l[j] \in Nat \ {0}
    BY LenIs DEF PageList
  <2>2. count > 0 /\ i + count - 1 <= Len(l)
    BY <1>1 DEF IsRun
  <2> QED
    BY <1>1, <2>1, <2>2, SMTT(60)
<1>4. page = l[i] - (count - 1)
  BY DEF pmm_alloc
<1> HIDE DEF i, page
<1>5. page = l[i + (count - 1)] /\ i + (count - 1) = i + count - 1
  BY <1>2, <1>3, <1>4, SMTT(60)
<1>6. page \in Nat \ {0}
  BY <1>3, <1>5
<1>7. l[i] \in Nat
  BY <1>1, <1>3
<1>8. ASSUME NEW p \in Run(page, count)
      PROVE  p \in {l[j] : j \in i..(i + count - 1)}
  <2>1. p \in Nat /\ page <= p /\ p <= page + count - 1
    BY <1>6, SMTT(60) DEF Run
  <2>2. l[i] - p \in 0..(count - 1)
    BY <1>3, <1>4, <1>6, <1>7, <2>1, SMTT(60)
  <2>3. l[i + (l[i] - p)] = l[i] - (l[i] - p)
    BY <1>2, <2>2
  <2>4. l[i] - (l[i] - p) = p /\ i + (l[i] - p) \in i..(i + count - 1)
    BY <1>3, <1>6, <1>7, <2>1, <2>2, SMTT(60)
  <2> QED
    BY <2>3, <2>4
<1>9. ASSUME NEW j \in i..(i + count - 1)
      PROVE  l[j] \in Run(page, count)
  <2>1. j - i \in 0..(count - 1) /\ i + (j - i) = j
    BY <1>3, SMTT(60)
  <2>2. l[j] = l[i] - (j - i)
    BY <1>2, <2>1
  <2> QED
    BY <1>3, <1>4, <1>6, <1>7, <2>1, <2>2, SMTT(60) DEF Run
<1>10. Run(page, count) = {l[j] : j \in i..(i + count - 1)}
  BY <1>8, <1>9
<1> QED
  BY <1>6, <1>10 DEF i, page

\* Splicing a stretch out of the list removes its pages and no other.
LEMMA CutRemoves ==
  ASSUME NEW l \in PageList, Distinct(l), NEW i \in 1..Len(l), NEW count \in Nat,
         count > 0, i + count - 1 <= Len(l)
  PROVE  LET out == {l[j] : j \in i..(i + count - 1)}
         IN  /\ Cut(l, i, count) \in PageList
             /\ Distinct(Cut(l, i, count))
             /\ Pages(Cut(l, i, count)) = Pages(l) \ out
             /\ out \subseteq Pages(l)
<1> DEFINE c == Cut(l, i, count)
           n == Len(l) - count
           at(j) == IF j < i THEN j ELSE j + count
           out == {l[j] : j \in i..(i + count - 1)}
<1>1. Len(l) \in Nat /\ i \in Nat /\ \A j \in 1..Len(l) : l[j] \in Nat \ {0}
  BY LenIs, SMTT(60) DEF PageList
<1>2. n \in Nat /\ \A j \in 1..n : at(j) \in 1..Len(l) /\ at(j) \notin i..(i + count - 1)
  BY <1>1, SMTT(60)
<1>3. c = [j \in 1..n |-> l[at(j)]]
  BY DEF Cut
<1>4. \A j \in 1..n : c[j] = l[at(j)]
  BY <1>3
<1>5. c \in PageList /\ Len(c) = n
  <2>1. \A j \in 1..n : l[at(j)] \in Nat \ {0}
    BY <1>1, <1>2
  <2>2. c \in [1..n -> Nat \ {0}]
    BY <1>3, <2>1
  <2> QED
    BY <1>2, <2>2, EntriesMakeList
<1>6. Distinct(c)
  <2> SUFFICES ASSUME NEW j \in 1..n, NEW k \in 1..n, j # k
               PROVE  c[j] # c[k]
    BY <1>5 DEF Distinct
  <2>1. at(j) # at(k)
    BY <1>1, SMTT(60)
  <2> QED
    BY <1>2, <1>4, <2>1, SMTT(60) DEF Distinct
<1>7. out \subseteq Pages(l)
  BY <1>1, SMTT(60) DEF Pages
<1>8. ASSUME NEW p \in Pages(c) PROVE p \in Pages(l) \ out
  <2>1. PICK j \in 1..n : p = l[at(j)]
    BY <1>4, <1>5 DEF Pages
  <2>2. p \in Pages(l)
    BY <1>2, <2>1 DEF Pages
  <2>3. ASSUME NEW k \in i..(i + count - 1), p = l[k] PROVE FALSE
    <3>1. k \in 1..Len(l) /\ k # at(j)
      BY <1>1, <1>2, SMTT(60)
    <3> QED
      BY <1>2, <2>1, <2>3, <3>1 DEF Distinct
  <2> QED
    BY <2>2, <2>3
<1>9. ASSUME NEW p \in Pages(l) \ out PROVE p \in Pages(c)
  <2>1. PICK k \in 1..Len(l) : p = l[k]
    BY DEF Pages
  <2>2. k \notin i..(i + count - 1)
    BY <2>1
  <2> DEFINE j == IF k < i THEN k ELSE k - count
  <2>3. j \in 1..n /\ at(j) = k
    BY <1>1, <2>2, SMTT(60)
  <2>4. p = c[j]
    BY <1>4, <2>1, <2>3
  <2> HIDE DEF j
  <2> QED
    BY <1>5, <2>3, <2>4, SMTT(60) DEF Pages
<1>10. Pages(c) = Pages(l) \ out
  BY <1>8, <1>9
<1> QED
  BY <1>5, <1>6, <1>7, <1>10

\* pmm_free puts the pages of a block on the list, each once.
LEMMA FreeAdds ==
  ASSUME NEW l \in PageList, Distinct(l), NEW page \in Nat \ {0}, NEW count \in Nat,
         Run(page, count) \cap Pages(l) = {}
  PROVE  /\ pmm_free(l, page, count) \in PageList
         /\ Distinct(pmm_free(l, page, count))
         /\ Pages(pmm_free(l, page, count)) = Pages(l) \cup Run(page, count)
<1> DEFINE f == pmm_free(l, page, count)
           n == count + Len(l)
<1>1. Len(l) \in Nat /\ n \in Nat /\ \A j \in 1..Len(l) : l[j] \in Nat \ {0}
  BY LenIs, SMTT(60) DEF PageList
<1>2. f = [j \in 1..n |-> IF j <= count THEN page + count - j ELSE l[j - count]]
  BY DEF pmm_free
<1>3. /\ \A j \in 1..n : j <= count => f[j] = page + count - j /\ f[j] \in Run(page, count)
      /\ \A j \in 1..n : j > count => f[j] = l[j - count] /\ j - count \in 1..Len(l)
  <2>1. ASSUME NEW j \in 1..n, j <= count
        PROVE  f[j] = page + count - j /\ f[j] \in Run(page, count)
    <3>1. f[j] = page + count - j
      BY <1>2, <2>1
    <3>2. page + count - j \in page..(page + count - 1)
      BY <1>1, <2>1, SMTT(60)
    <3> QED
      BY <3>1, <3>2 DEF Run
  <2>2. ASSUME NEW j \in 1..n, j > count
        PROVE  f[j] = l[j - count] /\ j - count \in 1..Len(l)
    <3>1. ~(j <= count) /\ j - count \in 1..Len(l)
      BY <1>1, <2>2, SMTT(60)
    <3> QED
      BY <1>2, <3>1
  <2> QED
    BY <2>1, <2>2
<1>4. \A j \in 1..n : j <= count \/ j > count
  BY <1>1, SMTT(60)
<1> HIDE DEF f
<1>5. f \in PageList /\ Len(f) = n
  <2>1. \A j \in 1..n : f[j] \in Nat \ {0}
    <3> TAKE j \in 1..n
    <3>1. CASE j <= count
      BY <1>1, <1>3, <3>1, SMTT(60) DEF Run
    <3>2. CASE j > count
      BY <1>1, <1>3, <3>2
    <3> QED
      BY <1>4, <3>1, <3>2
  <2>2. f \in [1..n -> Nat \ {0}]
    BY <1>2, <2>1
  <2> QED
    BY <1>1, <2>2, EntriesMakeList
<1>6. \A j \in 1..n : j > count => f[j] \in Pages(l)
  BY <1>3, SMTT(60) DEF Pages
<1>7. Distinct(f)
  <2> SUFFICES ASSUME NEW j \in 1..n, NEW k \in 1..n, j # k
               PROVE  f[j] # f[k]
    BY <1>5 DEF Distinct
  <2>1. CASE j <= count /\ k <= count
    <3>1. f[j] = page + count - j /\ f[k] = page + count - k
      BY <1>3, <2>1
    <3> QED
      BY <1>1, <3>1, SMTT(60)
  <2>2. CASE j > count /\ k > count
    <3>1. j - count # k - count
      BY <1>1, SMTT(60)
    <3> QED
      BY <1>3, <2>2, <3>1 DEF Distinct
  <2>3. CASE j <= count /\ k > count
    BY <1>3, <1>6, <2>3
  <2>4. CASE j > count /\ k <= count
    BY <1>3, <1>6, <2>4
  <2> QED
    BY <1>4, <2>1, <2>2, <2>3, <2>4
<1>8. ASSUME NEW p \in Pages(f) PROVE p \in Pages(l) \cup Run(page, count)
  <2>1. PICK j \in 1..n : p = f[j]
    BY <1>5 DEF Pages
  <2> QED
    BY <1>3, <1>4, <1>6, <2>1
<1>9. ASSUME NEW p \in Pages(l) PROVE p \in Pages(f)
  <2>1. PICK k \in 1..Len(l) : p = l[k]
    BY DEF Pages
  <2>2. k + count \in 1..n /\ k + count > count /\ (k + count) - count = k
    BY <1>1, SMTT(60)
  <2> QED
    BY <1>3, <1>5, <2>1, <2>2 DEF Pages
<1>10. ASSUME NEW p \in Run(page, count) PROVE p \in Pages(f)
  <2> DEFINE j == page + count - p
  <2>1. p \in Nat /\ j \in 1..n /\ j <= count /\ page + count - j = p
    BY <1>1, SMTT(60) DEF Run
  <2> HIDE DEF j
  <2> QED
    BY <1>3, <1>5, <2>1 DEF Pages
<1> QED
  BY <1>5, <1>7, <1>8, <1>9, <1>10 DEF f

\* The invariant that carries the proof: PagesConserved, of a list of pages.
PmmInv ==
  /\ free_list \in PageList
  /\ held \subseteq Nat \ {0}
  /\ PagesConserved

\* pmm_alloc moves the pages of a block from the list to its caller.
LEMMA AllocKeepsPages ==
  ASSUME PmmInv, NEW count \in Nat, Alloc(count)
  PROVE  PmmInv'
<1> DEFINE l == free_list
           page == pmm_alloc(l, count)
           i == FirstRun(l, count)
           out == {l[j] : j \in i..(i + count - 1)}
<1>1. CASE HasRun(l, count)
  <2>1. page \in Nat \ {0} /\ Run(page, count) = out
    BY <1>1, AllocTakesRun DEF PmmInv
  <2>2. i \in 1..Len(l) /\ count > 0 /\ i + count - 1 <= Len(l)
    BY <1>1, FirstRunIsRun DEF PmmInv, IsRun
  <2>3. free_list' = Cut(l, i, count) /\ held' = held \cup out
    BY <1>1, <2>1 DEF Alloc, AfterAlloc
  <2>4. Distinct(l)
    BY DEF PmmInv, PagesConserved, Distinct
  <2>5. /\ free_list' \in PageList /\ Distinct(free_list')
        /\ Pages(free_list') = Pages(l) \ out
        /\ out \subseteq Pages(l)
    BY <2>2, <2>3, <2>4, CutRemoves DEF PmmInv
  <2>6. out \subseteq Nat \ {0}
    BY <2>1, SMTT(60) DEF Run
  <2>7. /\ Pages(l) \cap held = {} /\ Pages(l) \cup held = UsablePages
        /\ held \subseteq Nat \ {0}
    BY DEF PmmInv, PagesConserved
  <2> HIDE DEF out, l
  <2>8. /\ Pages(free_list') \cap held' = {}
        /\ Pages(free_list') \cup held' = UsablePages
        /\ held' \subseteq Nat \ {0}
    BY <2>3, <2>5, <2>6, <2>7
  <2> QED
    BY <2>5, <2>8 DEF PmmInv, PagesConserved, Distinct
<1>2. CASE ~HasRun(l, count)
  <2>1. free_list' = free_list /\ held' = held
    BY <1>2 DEF Alloc, AfterAlloc, pmm_alloc
  <2> QED
    BY <2>1 DEF PmmInv, PagesConserved
<1> QED
  BY <1>1, <1>2

\* pmm_free moves the pages of a block from its caller to the list.
LEMMA FreeKeepsPages ==
  ASSUME PmmInv, NEW count \in Nat, NEW page \in held, Free(page, count)
  PROVE  PmmInv'
<1>1. /\ page \in Nat \ {0} /\ Run(page, count) \subseteq held
      /\ Pages(free_list) \cap held = {} /\ Pages(free_list) \cup held = UsablePages
      /\ held \subseteq Nat \ {0} /\ Distinct(free_list) /\ free_list \in PageList
  BY DEF PmmInv, PagesConserved, Free, Distinct
<1>2. free_list' = pmm_free(free_list, page, count) /\ held' = held \ Run(page, count)
  BY DEF Free
<1>3. Run(page, count) \cap Pages(free_list) = {}
  BY <1>1
<1>4. /\ free_list' \in PageList /\ Distinct(free_list')
      /\ Pages(free_list') = Pages(free_list) \cup Run(page, count)
  BY <1>1, <1>2, <1>3, FreeAdds
<1>5. /\ Pages(free_list') \cap held' = {}
      /\ Pages(free_list') \cup held' = UsablePages
      /\ held' \subseteq Nat \ {0}
  BY <1>1, <1>2, <1>3, <1>4
<1> QED
  BY <1>4, <1>5 DEF PmmInv, PagesConserved, Distinct

\* Every page the boot loader gave is on the free list once or with one
\* caller, whatever is allocated and freed in whatever order: pmm_alloc
\* hands no page out twice and pmm_free loses none.
THEOREM PagesAreConserved == PmmSpec => []PagesConserved
<1>1. PmmInit => PmmInv
  BY MemmapAssumption DEF PmmInit, PmmInv, PagesConserved, PageList, UsablePages
<1>2. PmmInv /\ [PmmNext]_pmm_vars => PmmInv'
  <2> SUFFICES ASSUME PmmInv, [PmmNext]_pmm_vars PROVE PmmInv'
    OBVIOUS
  <2>1. ASSUME NEW count \in 0..MaxRun, Alloc(count) PROVE PmmInv'
    <3>1. count \in Nat
      BY MaxRunAssumption, SMTT(60)
    <3> QED
      BY <2>1, <3>1, AllocKeepsPages
  <2>2. ASSUME NEW count \in 0..MaxRun, NEW page \in held, Free(page, count) PROVE PmmInv'
    <3>1. count \in Nat
      BY MaxRunAssumption, SMTT(60)
    <3> QED
      BY <2>2, <3>1, FreeKeepsPages
  <2>3. CASE UNCHANGED pmm_vars
    BY <2>3 DEF pmm_vars, PmmInv, PagesConserved
  <2> QED
    BY <2>1, <2>2, <2>3 DEF PmmNext
<1>3. PmmInv => PagesConserved
  BY DEF PmmInv
<1> QED
  BY <1>1, <1>2, <1>3, PTL DEF PmmSpec


-----------------------------------------------------------------------------
(***************************************************************************)
(* The heap.                                                                *)
(***************************************************************************)

Aligned(n) == n % HEAP_ALIGNMENT = 0

\* Remainders, of the kinds the heap computes.
LEMMA RemainderIs ==
  ASSUME NEW m \in Nat \ {0}, NEW n \in Nat
  PROVE  /\ n % m \in 0..(m - 1) /\ n \div m \in Nat /\ n = m * (n \div m) + (n % m)
         /\ n < m => n % m = n
BY SMTT(60)

\* A multiple leaves no remainder.
LEMMA MultipleIs ==
  ASSUME NEW m \in Nat \ {0}, NEW k \in Nat
  PROVE  (m * k) % m = 0 /\ (m * k) \div m = k
BY SMTT(60)

\* Sums and differences of aligned numbers are aligned.
LEMMA AlignedSum ==
  ASSUME NEW m \in Nat \ {0}, NEW a \in Nat, NEW b \in Nat, a % m = 0, b % m = 0
  PROVE  (a + b) % m = 0 /\ (a >= b => (a - b) % m = 0)
<1> DEFINE p == a \div m
           q == b \div m
<1>1. p \in Nat /\ q \in Nat /\ a = m * p /\ b = m * q
  BY RemainderIs, SMTT(60)
<1> HIDE DEF p, q
<1>2. a + b = m * (p + q)
  BY <1>1, SMTT(60)
<1>3. (m * (p + q)) % m = 0
  BY <1>1, MultipleIs, SMTT(60)
<1>4. a >= b => p - q \in Nat /\ a - b = m * (p - q)
  BY <1>1, SMTT(60)
<1>5. p - q \in Nat => (m * (p - q)) % m = 0
  BY MultipleIs
<1> QED
  BY <1>2, <1>3, <1>4, <1>5

\* Cutting the remainder off leaves a multiple.
LEMMA CutOff ==
  ASSUME NEW m \in Nat \ {0}, NEW n \in Nat
  PROVE  /\ n - (n % m) \in Nat /\ (n - (n % m)) % m = 0
         /\ n - (n % m) <= n /\ n - (m - 1) <= n - (n % m)
<1>1. n % m \in 0..(m - 1) /\ n \div m \in Nat /\ n = m * (n \div m) + (n % m)
  BY RemainderIs
<1>2. n - (n % m) = m * (n \div m)
  BY <1>1, SMTT(60)
<1>3. (m * (n \div m)) % m = 0
  BY <1>1, MultipleIs
<1>4. m * (n \div m) \in Nat
  BY <1>1, SMTT(60)
<1> QED
  BY <1>1, <1>2, <1>3, <1>4, SMTT(60)


\* The header is padded to the alignment, holds the struct and fits a page.
LEMMA HeaderIs ==
  /\ HEAP_HEADER_SIZE \in Nat /\ SIZEOF_BLOCK <= HEAP_HEADER_SIZE
  /\ Aligned(HEAP_HEADER_SIZE) /\ HEAP_HEADER_SIZE <= PAGE_SIZE
  /\ SIZEOF_BLOCK \in Nat \ {0} /\ PAGE_SIZE \in Nat \ {0} /\ HEAP_ALIGNMENT \in Nat \ {0}
  /\ SIZE_MAX \in Nat /\ HHDM_OFFSET \in Nat
<1> DEFINE n == SIZEOF_BLOCK + HEAP_ALIGNMENT - 1
<1>1. /\ {PAGE_SIZE, HEAP_ALIGNMENT, SIZEOF_BLOCK} \subseteq Nat \ {0}
      /\ {SIZE_MAX, HHDM_OFFSET} \subseteq Nat
      /\ SIZEOF_BLOCK + HEAP_ALIGNMENT <= PAGE_SIZE
      /\ 2 * PAGE_SIZE + HEAP_ALIGNMENT <= SIZE_MAX
  BY HeapAssumption
<1>2. n \in Nat /\ n < SIZE_MAX + 1 /\ SIZE_MAX + 1 \in Nat \ {0}
  BY <1>1, SMTT(60)
<1>3. Wrap(n) = n
  BY <1>2, RemainderIs DEF Wrap
<1>4. HEAP_HEADER_SIZE = n - (n % HEAP_ALIGNMENT)
  BY <1>3 DEF HEAP_HEADER_SIZE, HEAP_ALIGN_UP
<1> HIDE DEF n
<1>5. /\ HEAP_HEADER_SIZE \in Nat /\ HEAP_HEADER_SIZE % HEAP_ALIGNMENT = 0
      /\ HEAP_HEADER_SIZE <= n /\ n - (HEAP_ALIGNMENT - 1) <= HEAP_HEADER_SIZE
  BY <1>1, <1>2, <1>4, CutOff
<1> QED
  BY <1>1, <1>5, SMTT(60) DEF n, Aligned

\* The same sums and differences, of the heap's alignment.
LEMMA AlignedAdds ==
  ASSUME NEW a \in Nat, NEW b \in Nat, Aligned(a), Aligned(b)
  PROVE  /\ a + b \in Nat /\ Aligned(a + b)
         /\ a >= b => a - b \in Nat /\ Aligned(a - b)
<1>1. HEAP_ALIGNMENT \in Nat \ {0}
  BY HeaderIs
<1>2. (a + b) % HEAP_ALIGNMENT = 0 /\ (a >= b => (a - b) % HEAP_ALIGNMENT = 0)
  BY <1>1, AlignedSum DEF Aligned
<1> QED
  BY <1>2, SMTT(60) DEF Aligned

\* Pages keep the alignment, and so does the direct map.
LEMMA PagesAligned ==
  ASSUME NEW n \in Nat
  PROVE  /\ n * PAGE_SIZE \in Nat /\ Aligned(n * PAGE_SIZE)
         /\ pmm_phys_to_virt(n) \in Nat /\ Aligned(pmm_phys_to_virt(n))
<1> DEFINE q == PAGE_SIZE \div HEAP_ALIGNMENT
<1>1. PAGE_SIZE % HEAP_ALIGNMENT = 0 /\ HHDM_OFFSET % HEAP_ALIGNMENT = 0
  BY HeapAssumption
<1>2. PAGE_SIZE \in Nat \ {0} /\ HEAP_ALIGNMENT \in Nat \ {0} /\ HHDM_OFFSET \in Nat
  BY HeaderIs
<1>3. q \in Nat /\ PAGE_SIZE = HEAP_ALIGNMENT * q + (PAGE_SIZE % HEAP_ALIGNMENT)
  BY <1>2, RemainderIs
<1> HIDE DEF q
<1>4. PAGE_SIZE = HEAP_ALIGNMENT * q
  BY <1>1, <1>2, <1>3, SMTT(60)
<1>5. n * PAGE_SIZE = HEAP_ALIGNMENT * (n * q) /\ n * q \in Nat /\ n * PAGE_SIZE \in Nat
  BY <1>2, <1>3, <1>4, SMTT(60)
<1>6. Aligned(n * PAGE_SIZE)
  BY <1>2, <1>5, MultipleIs DEF Aligned
<1>7. Aligned(HHDM_OFFSET)
  BY <1>1 DEF Aligned
<1>8. n * PAGE_SIZE + HHDM_OFFSET \in Nat /\ Aligned(n * PAGE_SIZE + HHDM_OFFSET)
  BY <1>2, <1>5, <1>6, <1>7, AlignedAdds
<1> QED
  BY <1>5, <1>6, <1>8 DEF pmm_phys_to_virt

\* Rounding up a size that does not wrap.
LEMMA AlignUpIs ==
  ASSUME NEW size \in Nat, size + (HEAP_ALIGNMENT - 1) <= SIZE_MAX
  PROVE  /\ HEAP_ALIGN_UP(size) \in Nat /\ Aligned(HEAP_ALIGN_UP(size))
         /\ size <= HEAP_ALIGN_UP(size) /\ HEAP_ALIGN_UP(size) <= size + (HEAP_ALIGNMENT - 1)
<1> DEFINE n == size + HEAP_ALIGNMENT - 1
<1>1. HEAP_ALIGNMENT \in Nat \ {0} /\ SIZE_MAX \in Nat
  BY HeaderIs
<1>2. n \in Nat /\ n < SIZE_MAX + 1 /\ SIZE_MAX + 1 \in Nat \ {0}
  BY <1>1, SMTT(60)
<1>3. Wrap(n) = n
  BY <1>2, RemainderIs DEF Wrap
<1>4. HEAP_ALIGN_UP(size) = n - (n % HEAP_ALIGNMENT)
  BY <1>3 DEF HEAP_ALIGN_UP
<1> HIDE DEF n
<1>5. /\ n - (n % HEAP_ALIGNMENT) \in Nat /\ (n - (n % HEAP_ALIGNMENT)) % HEAP_ALIGNMENT = 0
      /\ n - (n % HEAP_ALIGNMENT) <= n
      /\ n - (HEAP_ALIGNMENT - 1) <= n - (n % HEAP_ALIGNMENT)
  BY <1>1, <1>2, CutOff
<1> QED
  BY <1>1, <1>4, <1>5, SMTT(60) DEF n, Aligned

\* A new block is large enough for the size it is made for, and not larger
\* than size_t.
LEMMA PagesForIs ==
  ASSUME NEW size \in Nat, HEAP_HEADER_SIZE + size + PAGE_SIZE - 1 <= SIZE_MAX
  PROVE  /\ PagesFor(size) \in Nat \ {0}
         /\ HEAP_HEADER_SIZE + size <= PagesFor(size) * PAGE_SIZE
<1> DEFINE n == HEAP_HEADER_SIZE + size + PAGE_SIZE - 1
           k == n \div PAGE_SIZE
<1>1. /\ HEAP_HEADER_SIZE \in Nat /\ PAGE_SIZE \in Nat \ {0} /\ SIZE_MAX \in Nat
      /\ SIZEOF_BLOCK <= HEAP_HEADER_SIZE /\ SIZEOF_BLOCK \in Nat \ {0}
  BY HeaderIs
<1>2. n \in Nat /\ n < SIZE_MAX + 1 /\ SIZE_MAX + 1 \in Nat \ {0}
  BY <1>1, SMTT(60)
<1>3. Wrap(n) = n
  BY <1>2, RemainderIs DEF Wrap
<1>4. PagesFor(size) = k
  BY <1>3 DEF PagesFor
<1>5. k \in Nat /\ n = PAGE_SIZE * k + (n % PAGE_SIZE) /\ n % PAGE_SIZE \in 0..(PAGE_SIZE - 1)
  BY <1>1, <1>2, RemainderIs
<1>6. PAGE_SIZE * k = k * PAGE_SIZE /\ PAGE_SIZE * k \in Nat
  BY <1>1, <1>5, SMTT(60)
<1>7. HEAP_HEADER_SIZE + size <= k * PAGE_SIZE
  <2> DEFINE rem == n % PAGE_SIZE
             whole == PAGE_SIZE * k
  <2>1. n = whole + rem /\ rem \in 0..(PAGE_SIZE - 1) /\ whole \in Nat
    BY <1>5, <1>6
  <2> HIDE DEF rem, whole, k
  <2>2. HEAP_HEADER_SIZE + size <= whole
    BY <1>1, <2>1, SMTT(60)
  <2> QED
    BY <1>6, <2>2 DEF whole
<1> HIDE DEF k, n
<1>8. k # 0
  BY <1>1, <1>7, SMTT(60)
<1> QED
  BY <1>4, <1>5, <1>7, <1>8

-----------------------------------------------------------------------------
Block == [addr : Nat, size : Nat, is_free : BOOLEAN]

\* The bytes of a block, header included, and blocks that share none.
Span(b) == b.addr..(BlockEnd(b) - 1)

Apart(b, c) == BlockEnd(b) <= c.addr \/ BlockEnd(c) <= b.addr

\* Aligned blocks that do not overlap, and the bytes they take.
BlocksOK(B) ==
  /\ B \subseteq Block
  /\ \A b, c \in B : b # c => Apart(b, c)
  /\ \A b \in B : Aligned(b.addr) /\ Aligned(b.size)

Cover(B) == UNION {Span(b) : b \in B}

\* A list that holds a block once.
List(bs) == bs \in Seq(Block) /\ Distinct(bs)

\* A function on the places up to n is a list of length n.
LEMMA FunctionIsList ==
  ASSUME NEW S, NEW n \in Nat, NEW f \in [1..n -> S]
  PROVE  f \in Seq(S) /\ Len(f) = n
<1>1. f \in Seq(S)
  BY SMTT(60)
<1>2. DOMAIN f = 1..n /\ DOMAIN f = 1..Len(f) /\ Len(f) \in Nat
  BY <1>1, LenIs
<1> QED
  BY <1>1, <1>2, SMTT(60)

\* A block by its fields.
LEMMA BlockIs ==
  ASSUME NEW b \in Block
  PROVE  /\ b.addr \in Nat /\ b.size \in Nat /\ b.is_free \in BOOLEAN
         /\ b = [addr |-> b.addr, size |-> b.size, is_free |-> b.is_free]
         /\ BlockEnd(b) = b.addr + HEAP_HEADER_SIZE + b.size
         /\ BlockEnd(b) \in Nat /\ b.addr < BlockEnd(b)
<1>1. /\ b.addr \in Nat /\ b.size \in Nat /\ b.is_free \in BOOLEAN
      /\ b = [addr |-> b.addr, size |-> b.size, is_free |-> b.is_free]
  BY DEF Block
<1>2. BlockEnd(b) = b.addr + HEAP_HEADER_SIZE + b.size
  BY DEF BlockEnd
<1>3. HEAP_HEADER_SIZE \in Nat \ {0}
  BY HeaderIs, SMTT(60)
<1> QED
  BY <1>1, <1>2, <1>3, SMTT(60)

\* A block with another size.
LEMMA ResizedIs ==
  \A b \in Block, k \in Nat :
    /\ [b EXCEPT !.size = k] \in Block /\ [b EXCEPT !.size = k].addr = b.addr
    /\ [b EXCEPT !.size = k].is_free = b.is_free /\ [b EXCEPT !.size = k].size = k
BY DEF Block

\* A block handed out or handed back.
LEMMA FlaggedIs ==
  \A b \in Block, f \in BOOLEAN :
    /\ [b EXCEPT !.is_free = f] \in Block /\ [b EXCEPT !.is_free = f].addr = b.addr
    /\ [b EXCEPT !.is_free = f].is_free = f /\ [b EXCEPT !.is_free = f].size = b.size
BY DEF Block

\* The list after a block took in the next one.
LEMMA AbsorbIs ==
  ASSUME NEW bs \in Seq(Block), NEW i \in 1..Len(bs), i < Len(bs)
  PROVE  LET c == Absorb(bs, i)
         IN  /\ c \in Seq(Block) /\ Len(c) = Len(bs) - 1 /\ i \in 1..Len(c)
             /\ \A j \in 1..Len(c) : j < i => c[j] = bs[j]
             /\ \A j \in 1..Len(c) : j > i => c[j] = bs[j + 1]
             /\ c[i].addr = bs[i].addr /\ c[i].is_free = bs[i].is_free
             /\ c[i].size = bs[i].size + HEAP_HEADER_SIZE + bs[i + 1].size
<1> DEFINE c == Absorb(bs, i)
           n == Len(bs) - 1
           b == [bs[i] EXCEPT !.size = @ + HEAP_HEADER_SIZE + bs[i + 1].size]
<1>1. Len(bs) \in Nat /\ n \in Nat /\ i \in 1..n /\ \A j \in 1..Len(bs) : bs[j] \in Block
  BY LenIs, SMTT(60)
<1>2. i + 1 \in 1..Len(bs) /\ HEAP_HEADER_SIZE \in Nat
  BY <1>1, HeaderIs, SMTT(60)
<1>3. /\ b \in Block /\ b.addr = bs[i].addr /\ b.is_free = bs[i].is_free
      /\ b.size = bs[i].size + HEAP_HEADER_SIZE + bs[i + 1].size
  <2>1. bs[i] \in Block /\ bs[i].size \in Nat /\ bs[i + 1].size \in Nat
    BY <1>1, <1>2, BlockIs
  <2> DEFINE k == bs[i].size + HEAP_HEADER_SIZE + bs[i + 1].size
  <2>2. \A x, y, z \in Nat : x + y + z \in Nat
    BY SMTT(60)
  <2>3. k \in Nat
    BY <1>2, <2>1, <2>2
  <2>4. b = [bs[i] EXCEPT !.size = k]
    OBVIOUS
  <2> HIDE DEF k, b
  <2>5. b \in Block /\ b.addr = bs[i].addr /\ b.is_free = bs[i].is_free /\ b.size = k
    BY <2>1, <2>3, <2>4, ResizedIs
  <2> QED
    BY <2>5 DEF k
<1>4. c = [j \in 1..n |-> IF j < i THEN bs[j] ELSE IF j = i THEN b ELSE bs[j + 1]]
  BY DEF Absorb
<1> HIDE DEF b, c
<1>5. \A j \in 1..n : j \in 1..Len(bs) /\ j + 1 \in 1..Len(bs) /\ (j > i => ~(j < i) /\ j # i)
  BY <1>1, SMTT(60)
<1>6. ~(i < i)
  BY <1>1, SMTT(60)
<1>7. c \in [1..n -> Block]
  BY <1>1, <1>3, <1>4, <1>5
<1>8. c \in Seq(Block) /\ Len(c) = n
  BY <1>1, <1>7, FunctionIsList
<1>9. c[i] = b
  BY <1>1, <1>4, <1>6
<1> QED
  BY <1>1, <1>3, <1>4, <1>5, <1>8, <1>9 DEF c

\* The list after a block was put into it.
LEMMA InsertIs ==
  ASSUME NEW bs \in Seq(Block), NEW i \in 1..(Len(bs) + 1), NEW b \in Block
  PROVE  LET c == Insert(bs, i, b)
         IN  /\ c \in Seq(Block) /\ Len(c) = Len(bs) + 1
             /\ \A j \in 1..Len(c) : j < i => c[j] = bs[j]
             /\ \A j \in 1..Len(c) : j > i => c[j] = bs[j - 1]
             /\ c[i] = b
<1> DEFINE c == Insert(bs, i, b)
           n == Len(bs) + 1
<1>1. Len(bs) \in Nat /\ n \in Nat /\ i \in 1..n /\ \A j \in 1..Len(bs) : bs[j] \in Block
  BY LenIs, SMTT(60)
<1>2. c = [j \in 1..n |-> IF j < i THEN bs[j] ELSE IF j = i THEN b ELSE bs[j - 1]]
  BY DEF Insert
<1>3. \A j \in 1..n : /\ j < i => j \in 1..Len(bs)
                      /\ j > i => j - 1 \in 1..Len(bs) /\ ~(j < i) /\ j # i
                      /\ j < i \/ j = i \/ j > i
  BY <1>1, SMTT(60)
<1> HIDE DEF c
<1>4. c \in [1..n -> Block]
  BY <1>1, <1>2, <1>3
<1>5. c \in Seq(Block) /\ Len(c) = n
  BY <1>1, <1>4, FunctionIsList
<1>6. ~(i < i)
  BY <1>1, SMTT(60)
<1> QED
  BY <1>1, <1>2, <1>3, <1>5, <1>6 DEF c


\* What a block spans after it took in its neighbour, and who is apart from it.
LEMMA JoinedIs ==
  ASSUME NEW b \in Block, NEW c \in Block, NEW d \in Block, BlockEnd(b) = c.addr,
         d.addr = b.addr, d.size = b.size + HEAP_HEADER_SIZE + c.size
  PROVE  /\ BlockEnd(d) = BlockEnd(c)
         /\ Span(d) = Span(b) \cup Span(c)
         /\ \A x \in Block : Apart(b, x) /\ Apart(c, x) => Apart(d, x) /\ Apart(x, d)
<1>1. /\ b.addr \in Nat /\ b.size \in Nat /\ BlockEnd(b) = b.addr + HEAP_HEADER_SIZE + b.size
      /\ c.addr \in Nat /\ c.size \in Nat /\ BlockEnd(c) = c.addr + HEAP_HEADER_SIZE + c.size
      /\ BlockEnd(d) = d.addr + HEAP_HEADER_SIZE + d.size
      /\ b.addr < BlockEnd(b) /\ c.addr < BlockEnd(c) /\ BlockEnd(b) \in Nat /\ BlockEnd(c) \in Nat
  BY BlockIs
<1>2. HEAP_HEADER_SIZE \in Nat
  BY HeaderIs
<1>3. \A h, ba, bz, ca, cz, dz \in Int :
        ba + h + bz = ca /\ dz = bz + h + cz => ba + h + dz = ca + h + cz
  BY SMTT(60)
<1>4. BlockEnd(d) = BlockEnd(c)
  <2>1. d.size \in Nat /\ d.addr = b.addr
    BY BlockIs
  <2>2. b.addr + HEAP_HEADER_SIZE + d.size = c.addr + HEAP_HEADER_SIZE + c.size
    BY <1>1, <1>2, <1>3, <2>1, SMTT(60)
  <2> QED
    BY <1>1, <2>1, <2>2
<1>5. Span(d) = Span(b) \cup Span(c)
  <2>1. \A p, q, r \in Nat : p < q /\ q < r => p..(r - 1) = (p..(q - 1)) \cup (q..(r - 1))
    BY SMTT(60)
  <2> QED
    BY <1>1, <1>4, <2>1, SMTT(60) DEF Span
<1>6. ASSUME NEW x \in Block, Apart(b, x), Apart(c, x)
      PROVE  Apart(d, x) /\ Apart(x, d)
  <2>1. x.addr \in Nat /\ BlockEnd(x) \in Nat /\ x.addr < BlockEnd(x)
    BY BlockIs
  <2>2. \A p, q, r, s, t \in Nat :
          p < q /\ q < r /\ s < t /\ (q <= s \/ t <= p) /\ (r <= s \/ t <= q) => r <= s \/ t <= p
    BY SMTT(60)
  <2> QED
    BY <1>1, <1>4, <1>6, <2>1, <2>2 DEF Apart
<1> QED
  BY <1>4, <1>5, <1>6


\* The blocks of a list after one took in the next.
LEMMA AbsorbList ==
  ASSUME NEW bs, List(bs), NEW i \in 1..Len(bs), i < Len(bs),
         Absorb(bs, i)[i] \notin Pages(bs) \ {bs[i], bs[i + 1]}
  PROVE  /\ List(Absorb(bs, i))
         /\ Pages(Absorb(bs, i)) = (Pages(bs) \ {bs[i], bs[i + 1]}) \cup {Absorb(bs, i)[i]}
<1> DEFINE c == Absorb(bs, i)
           n == Len(c)
           at(j) == IF j < i THEN j ELSE j + 1
<1>1. bs \in Seq(Block) /\ Len(bs) \in Nat /\ i + 1 \in 1..Len(bs) /\ i # i + 1
  BY LenIs, SMTT(60) DEF List
<1>2. /\ c \in Seq(Block) /\ n = Len(bs) - 1 /\ i \in 1..n
      /\ \A j \in 1..n : j < i => c[j] = bs[j]
      /\ \A j \in 1..n : j > i => c[j] = bs[j + 1]
  BY <1>1, AbsorbIs
<1> HIDE DEF c
<1>3. \A j \in 1..n : j # i => at(j) \in 1..Len(bs) /\ at(j) # i /\ at(j) # i + 1
  BY <1>1, <1>2, SMTT(60)
<1>4. \A j, k \in 1..n : j # i /\ k # i /\ j # k => at(j) # at(k)
  BY <1>1, <1>2, SMTT(60)
<1>5. \A j \in 1..n : j # i => c[j] = bs[at(j)]
  <2> SUFFICES ASSUME NEW j \in 1..n, j # i
               PROVE  c[j] = bs[at(j)]
    OBVIOUS
  <2>1. (j < i => at(j) = j) /\ (j > i => at(j) = j + 1) /\ (j < i \/ j > i)
    BY <1>2, SMTT(60)
  <2> QED
    BY <1>2, <2>1
<1>6. \A k \in 1..Len(bs) : k # i /\ k # i + 1 => \E j \in 1..n : j # i /\ at(j) = k
  <2> SUFFICES ASSUME NEW k \in 1..Len(bs), k # i, k # i + 1
               PROVE  \E j \in 1..n : j # i /\ at(j) = k
    OBVIOUS
  <2>1. CASE k < i
    <3>1. k \in 1..n /\ k # i /\ at(k) = k
      BY <1>1, <1>2, <2>1, SMTT(60)
    <3> QED
      BY <3>1
  <2>2. CASE k > i + 1
    <3>1. k - 1 \in 1..n /\ k - 1 # i /\ at(k - 1) = k
      BY <1>1, <1>2, <2>2, SMTT(60)
    <3> QED
      BY <3>1
  <2> QED
    BY <1>1, <2>1, <2>2, SMTT(60)
<1> HIDE DEF at, n
<1>7. \A j \in 1..n : j # i => c[j] \in Pages(bs) \ {bs[i], bs[i + 1]}
  BY <1>1, <1>3, <1>5 DEF Pages, List, Distinct
<1>8. Distinct(c)
  <2> SUFFICES ASSUME NEW j \in 1..n, NEW k \in 1..n, j # k
               PROVE  c[j] # c[k]
    BY DEF Distinct, n
  <2>1. CASE j = i \/ k = i
    BY <1>7, <2>1, SMTT(60) DEF c
  <2>2. CASE j # i /\ k # i
    BY <1>3, <1>4, <1>5, <2>2 DEF List, Distinct
  <2> QED
    BY <2>1, <2>2
<1>9. Pages(c) = (Pages(bs) \ {bs[i], bs[i + 1]}) \cup {c[i]}
  <2>1. ASSUME NEW b \in Pages(bs) \ {bs[i], bs[i + 1]} PROVE b \in Pages(c)
    <3>1. PICK k \in 1..Len(bs) : b = bs[k]
      BY DEF Pages
    <3>2. k # i /\ k # i + 1
      BY <2>1, <3>1
    <3>3. PICK j \in 1..n : j # i /\ at(j) = k
      BY <1>6, <3>2
    <3> QED
      BY <1>5, <3>1, <3>3 DEF Pages, n
  <2>2. Pages(c) = {c[j] : j \in 1..n}
    BY DEF Pages, n
  <2> QED
    BY <1>2, <1>7, <2>1, <2>2, SMTT(60)
<1> QED
  BY <1>2, <1>8, <1>9 DEF c, List

\* The blocks of a list after one was put into it.
LEMMA InsertList ==
  ASSUME NEW bs, List(bs), NEW i \in 1..(Len(bs) + 1), NEW b \in Block, b \notin Pages(bs)
  PROVE  List(Insert(bs, i, b)) /\ Pages(Insert(bs, i, b)) = Pages(bs) \cup {b}
<1> DEFINE c == Insert(bs, i, b)
           n == Len(c)
           at(j) == IF j < i THEN j ELSE j - 1
<1>1. bs \in Seq(Block) /\ Len(bs) \in Nat
  BY LenIs DEF List
<1>2. /\ c \in Seq(Block) /\ n = Len(bs) + 1 /\ i \in 1..n /\ c[i] = b
      /\ \A j \in 1..n : j < i => c[j] = bs[j]
      /\ \A j \in 1..n : j > i => c[j] = bs[j - 1]
  BY <1>1, InsertIs, SMTT(60)
<1> HIDE DEF c
<1>3. \A j \in 1..n : j # i => at(j) \in 1..Len(bs)
  BY <1>1, <1>2, SMTT(60)
<1>4. \A j, k \in 1..n : j # i /\ k # i /\ j # k => at(j) # at(k)
  BY <1>1, <1>2, SMTT(60)
<1>5. \A j \in 1..n : j # i => c[j] = bs[at(j)]
  <2> SUFFICES ASSUME NEW j \in 1..n, j # i
               PROVE  c[j] = bs[at(j)]
    OBVIOUS
  <2>1. (j < i => at(j) = j) /\ (j > i => at(j) = j - 1) /\ (j < i \/ j > i)
    BY <1>2, SMTT(60)
  <2> QED
    BY <1>2, <2>1
<1>6. \A k \in 1..Len(bs) : \E j \in 1..n : j # i /\ at(j) = k
  <2> SUFFICES ASSUME NEW k \in 1..Len(bs)
               PROVE  \E j \in 1..n : j # i /\ at(j) = k
    OBVIOUS
  <2>1. CASE k < i
    <3>1. k \in 1..n /\ k # i /\ at(k) = k
      BY <1>1, <1>2, <2>1, SMTT(60)
    <3> QED
      BY <3>1
  <2>2. CASE k >= i
    <3>1. k + 1 \in 1..n /\ k + 1 # i /\ at(k + 1) = k
      BY <1>1, <1>2, <2>2, SMTT(60)
    <3> QED
      BY <3>1
  <2> QED
    BY <1>1, <2>1, <2>2, SMTT(60)
<1> HIDE DEF at, n
<1>7. \A j \in 1..n : j # i => c[j] \in Pages(bs)
  BY <1>3, <1>5 DEF Pages
<1>8. Distinct(c)
  <2> SUFFICES ASSUME NEW j \in 1..n, NEW k \in 1..n, j # k
               PROVE  c[j] # c[k]
    BY DEF Distinct, n
  <2>1. CASE j = i \/ k = i
    BY <1>2, <1>7, <2>1
  <2>2. CASE j # i /\ k # i
    BY <1>3, <1>4, <1>5, <2>2 DEF List, Distinct
  <2> QED
    BY <2>1, <2>2
<1>9. Pages(c) = Pages(bs) \cup {b}
  <2>1. ASSUME NEW e \in Pages(bs) PROVE e \in Pages(c)
    <3>1. PICK k \in 1..Len(bs) : e = bs[k]
      BY DEF Pages
    <3>2. PICK j \in 1..n : j # i /\ at(j) = k
      BY <1>6
    <3> QED
      BY <1>5, <3>1, <3>2 DEF Pages, n
  <2>2. Pages(c) = {c[j] : j \in 1..n}
    BY DEF Pages, n
  <2> QED
    BY <1>2, <1>7, <2>1, <2>2, SMTT(60)
<1> QED
  BY <1>2, <1>8, <1>9 DEF c, List

\* The blocks of a list after one was changed in place.
Put(bs, i, b) == [bs EXCEPT ![i] = b]

\* It is the list it was, with the one block exchanged.
LEMMA UpdateList ==
  ASSUME NEW bs, List(bs), NEW i \in 1..Len(bs), NEW b \in Block, b \notin Pages(bs) \ {bs[i]}
  PROVE  /\ List(Put(bs, i, b)) /\ Len(Put(bs, i, b)) = Len(bs) /\ Put(bs, i, b)[i] = b
         /\ Pages(Put(bs, i, b)) = (Pages(bs) \ {bs[i]}) \cup {b}
<1> DEFINE c == Put(bs, i, b)
<1>1. /\ bs \in Seq(Block) /\ Len(bs) \in Nat /\ DOMAIN bs = 1..Len(bs)
      /\ bs \in [1..Len(bs) -> Block]
  BY LenIs DEF List
<1>2. /\ c \in [1..Len(bs) -> Block]
      /\ c[i] = b /\ \A j \in 1..Len(bs) : j # i => c[j] = bs[j]
  BY <1>1 DEF Put
<1> HIDE DEF c
<1>3. c \in Seq(Block) /\ Len(c) = Len(bs)
  BY <1>1, <1>2, FunctionIsList
<1>4. \A j \in 1..Len(bs) : j # i => c[j] \in Pages(bs) \ {bs[i]}
  BY <1>2 DEF Pages, List, Distinct
<1>5. Distinct(c)
  <2> SUFFICES ASSUME NEW j \in 1..Len(bs), NEW k \in 1..Len(bs), j # k
               PROVE  c[j] # c[k]
    BY <1>3 DEF Distinct
  <2>1. CASE j = i \/ k = i
    BY <1>2, <1>4, <2>1, SMTT(60)
  <2>2. CASE j # i /\ k # i
    BY <1>2, <2>2 DEF List, Distinct
  <2> QED
    BY <2>1, <2>2
<1>6. Pages(c) = (Pages(bs) \ {bs[i]}) \cup {b}
  <2>1. Pages(c) = {c[j] : j \in 1..Len(bs)} /\ Pages(bs) = {bs[j] : j \in 1..Len(bs)}
    BY <1>3 DEF Pages
  <2>2. \A e \in Pages(bs) \ {bs[i]} : e \in Pages(c)
    BY <1>2, <2>1
  <2> QED
    BY <1>2, <1>4, <2>1, <2>2
<1> QED
  BY <1>2, <1>3, <1>5, <1>6 DEF List, c


-----------------------------------------------------------------------------
PageBytes(P) == UNION {Bytes(pmm_phys_to_virt(p), PAGE_SIZE) : p \in P}

\* Block b is with the caller who was granted w, and has room for it.
Holds(b, w) ==
  ~b.is_free /\ w.ptr = b.addr + HEAP_HEADER_SIZE /\ w.size \in Nat /\ w.size <= b.size

Held(B, W) == \A w \in W : \E b \in B : Holds(b, w)

\* The blocks B in use are those of the grants W, one each.
GrantsOK(B, W) ==
  /\ Held(B, W)
  /\ \A b \in B : ~b.is_free => \E w \in W : w.ptr = b.addr + HEAP_HEADER_SIZE
  /\ \A v, w \in W : v.ptr = w.ptr => v = w

\* Headers, grants and the other user's pages hold what was stored in them.
MemOK(m, B, W, stk) ==
  /\ DOMAIN m = PageBytes(UsablePages)
  /\ \A b \in B : \A a \in Bytes(b.addr, SIZEOF_BLOCK) : m[a] = "hdr"
  /\ \A w \in W : \A a \in Bytes(w.ptr, w.size) : m[a] = w.val
  /\ \A p \in stk : \A a \in Bytes(pmm_phys_to_virt(p), PAGE_SIZE) : m[a] = "page"

\* The blocks tile the pages that are neither free nor the other user's.
PoolOK(l, B, stk) ==
  /\ l \in PageList /\ Distinct(l)
  /\ Pages(l) \cup stk \subseteq UsablePages /\ Pages(l) \cap stk = {}
  /\ Cover(B) = PageBytes(UsablePages \ (Pages(l) \cup stk))

HeapOK(l, B, m, W, stk) ==
  BlocksOK(B) /\ GrantsOK(B, W) /\ MemOK(m, B, W, stk) /\ PoolOK(l, B, stk)

\* The direct map keeps pages apart.
LEMMA PagesApart ==
  ASSUME NEW p \in Nat, NEW q \in Nat, p # q
  PROVE  Bytes(pmm_phys_to_virt(p), PAGE_SIZE) \cap Bytes(pmm_phys_to_virt(q), PAGE_SIZE) = {}
<1>1. PAGE_SIZE \in Nat \ {0} /\ HHDM_OFFSET \in Nat
  BY HeaderIs
<1>2. ASSUME NEW x \in Nat, NEW y \in Nat, x < y
      PROVE  x * PAGE_SIZE + PAGE_SIZE <= y * PAGE_SIZE /\ x * PAGE_SIZE \in Nat /\ y * PAGE_SIZE \in Nat
  <2>1. PICK k \in Nat : y = x + 1 + k
    <3>1. y - x - 1 \in Nat /\ y = x + 1 + (y - x - 1)
      BY <1>2, SMTT(60)
    <3> QED
      BY <3>1
  <2>2. y * PAGE_SIZE = x * PAGE_SIZE + PAGE_SIZE + k * PAGE_SIZE
    BY <1>1, <2>1, SMTT(60)
  <2>3. x * PAGE_SIZE \in Nat /\ k * PAGE_SIZE \in Nat /\ y * PAGE_SIZE \in Nat
    BY <1>1, SMTT(60)
  <2> QED
    BY <1>1, <2>2, <2>3, SMTT(60)
<1>3. ASSUME NEW x \in Nat, NEW y \in Nat, x < y
      PROVE  Bytes(pmm_phys_to_virt(x), PAGE_SIZE) \cap Bytes(pmm_phys_to_virt(y), PAGE_SIZE) = {}
  <2> DEFINE u == x * PAGE_SIZE
             v == y * PAGE_SIZE
  <2>1. u \in Nat /\ v \in Nat /\ u + PAGE_SIZE <= v
    BY <1>2, <1>3
  <2> HIDE DEF u, v
  <2>2. (u + HHDM_OFFSET)..(u + HHDM_OFFSET + PAGE_SIZE - 1)
          \cap (v + HHDM_OFFSET)..(v + HHDM_OFFSET + PAGE_SIZE - 1) = {}
    BY <1>1, <2>1, SMTT(60)
  <2> QED
    BY <2>2 DEF u, v, Bytes, pmm_phys_to_virt
<1>4. p < q \/ q < p
  BY SMTT(60)
<1> QED
  BY <1>3, <1>4

\* Pages that are apart share no bytes.
LEMMA PageBytesApart ==
  ASSUME NEW P \in SUBSET Nat, NEW Q \in SUBSET Nat, P \cap Q = {}
  PROVE  PageBytes(P) \cap PageBytes(Q) = {}
<1>1. \A p \in P, q \in Q : p \in Nat /\ q \in Nat /\ p # q
  OBVIOUS
<1>2. \A p \in P, q \in Q :
        Bytes(pmm_phys_to_virt(p), PAGE_SIZE) \cap Bytes(pmm_phys_to_virt(q), PAGE_SIZE) = {}
  BY <1>1, PagesApart
<1> QED
  BY <1>2, SMTT(60) DEF PageBytes

\* Usable pages are pages.
LEMMA UsableAreNat == UsablePages \subseteq Nat \ {0}
<1>1. Usable \in Seq(Nat \ {0})
  BY MemmapAssumption
<1>2. \A i \in 1..Len(Usable) : Usable[i] \in Nat \ {0}
  BY <1>1, LenIs
<1> QED
  BY <1>2 DEF UsablePages, Pages

\* The heap's bytes are memory, and not the other user's nor free.
LEMMA CoverIs ==
  ASSUME NEW l, NEW B, NEW stk, PoolOK(l, B, stk)
  PROVE  /\ Cover(B) \subseteq PageBytes(UsablePages)
         /\ PageBytes(stk) \subseteq PageBytes(UsablePages)
         /\ Cover(B) \cap PageBytes(stk) = {}
         /\ Cover(B) \cap PageBytes(Pages(l)) = {}
<1> DEFINE share == UsablePages \ (Pages(l) \cup stk)
<1>1. /\ UsablePages \in SUBSET Nat /\ share \in SUBSET Nat /\ stk \in SUBSET Nat
      /\ Pages(l) \in SUBSET Nat
      /\ share \subseteq UsablePages /\ share \cap stk = {} /\ share \cap Pages(l) = {}
      /\ stk \subseteq UsablePages /\ Cover(B) = PageBytes(share)
  BY UsableAreNat DEF PoolOK
<1> HIDE DEF share
<1>2. PageBytes(share) \cap PageBytes(stk) = {} /\ PageBytes(share) \cap PageBytes(Pages(l)) = {}
  BY <1>1, PageBytesApart
<1>3. /\ PageBytes(share) \subseteq PageBytes(UsablePages)
      /\ PageBytes(stk) \subseteq PageBytes(UsablePages)
  BY <1>1 DEF PageBytes
<1> QED
  BY <1>1, <1>2, <1>3

\* The parts of a block.
LEMMA PartsOf ==
  ASSUME NEW b \in Block
  PROVE  /\ Bytes(b.addr, SIZEOF_BLOCK) \subseteq Span(b)
         /\ \A a \in Bytes(b.addr, SIZEOF_BLOCK) : a < b.addr + HEAP_HEADER_SIZE
         /\ \A w : Holds(b, w) =>
              /\ Bytes(w.ptr, w.size) \subseteq Span(b)
              /\ w.ptr \in Nat /\ w.size \in Nat
              /\ \A a \in Bytes(w.ptr, w.size) : a < w.ptr + w.size
<1>1. /\ b.addr \in Nat /\ b.size \in Nat /\ BlockEnd(b) = b.addr + HEAP_HEADER_SIZE + b.size
      /\ HEAP_HEADER_SIZE \in Nat /\ SIZEOF_BLOCK <= HEAP_HEADER_SIZE /\ SIZEOF_BLOCK \in Nat
  BY BlockIs, HeaderIs
<1>2. \A a \in Bytes(b.addr, SIZEOF_BLOCK) : a < b.addr + HEAP_HEADER_SIZE /\ a \in Span(b)
  BY <1>1, SMTT(60) DEF Bytes, Span
<1>3. ASSUME NEW w, Holds(b, w)
      PROVE  /\ Bytes(w.ptr, w.size) \subseteq Span(b)
             /\ w.ptr \in Nat /\ w.size \in Nat
             /\ \A a \in Bytes(w.ptr, w.size) : a < w.ptr + w.size
  <2>1. w.ptr = b.addr + HEAP_HEADER_SIZE /\ w.size \in Nat /\ w.size <= b.size
    BY <1>3 DEF Holds
  <2>2. w.ptr \in Nat /\ w.ptr >= b.addr /\ w.ptr + w.size <= BlockEnd(b)
    BY <1>1, <2>1, SMTT(60)
  <2>3. BlockEnd(b) \in Nat
    BY BlockIs
  <2> QED
    BY <1>1, <2>1, <2>2, <2>3, SMTT(60) DEF Bytes, Span
<1> QED
  BY <1>2, <1>3

\* Blocks that are apart share no byte and no address.
LEMMA SpansApart ==
  ASSUME NEW B, BlocksOK(B), NEW b \in B, NEW c \in B
  PROVE  /\ b # c => Span(b) \cap Span(c) = {}
         /\ b.addr = c.addr => b = c
         /\ Span(b) \subseteq Cover(B) /\ b.addr \in Span(b)
<1>1. /\ b.addr \in Nat /\ c.addr \in Nat /\ BlockEnd(b) \in Nat /\ BlockEnd(c) \in Nat
      /\ b.addr < BlockEnd(b) /\ c.addr < BlockEnd(c)
  BY BlockIs DEF BlocksOK
<1>2. b # c => BlockEnd(b) <= c.addr \/ BlockEnd(c) <= b.addr
  BY DEF BlocksOK, Apart
<1> QED
  BY <1>1, <1>2, SMTT(60) DEF Span, Cover


\* Whatever is stored in a block behind its grant, nobody's bytes change.
LEMMA WriteSpare ==
  ASSUME NEW l, NEW B, NEW m, NEW W, NEW stk, NEW m2, NEW b \in B, NEW lo \in Nat,
         BlocksOK(B), Held(B, W), MemOK(m, B, W, stk), PoolOK(l, B, stk),
         b.addr + HEAP_HEADER_SIZE <= lo,
         \A w \in W : w.ptr = b.addr + HEAP_HEADER_SIZE => w.ptr + w.size <= lo,
         DOMAIN m2 = DOMAIN m,
         \A a \in DOMAIN m : a \notin lo..(BlockEnd(b) - 1) => m2[a] = m[a]
  PROVE  MemOK(m2, B, W, stk)
<1>1. /\ b \in Block /\ b.addr \in Nat /\ BlockEnd(b) \in Nat /\ HEAP_HEADER_SIZE \in Nat
      /\ B \subseteq Block
  BY BlockIs, HeaderIs DEF BlocksOK
<1>2. \A a \in lo..(BlockEnd(b) - 1) : a \in Span(b) /\ lo <= a
  BY <1>1, SMTT(60) DEF Span
<1>3. /\ DOMAIN m = PageBytes(UsablePages) /\ Cover(B) \subseteq DOMAIN m
      /\ PageBytes(stk) \subseteq DOMAIN m /\ Span(b) \cap PageBytes(stk) = {}
      /\ \A c \in B : Span(c) \subseteq DOMAIN m
  <2>1. DOMAIN m = PageBytes(UsablePages)
    BY DEF MemOK
  <2>2. /\ Cover(B) \subseteq PageBytes(UsablePages)
        /\ PageBytes(stk) \subseteq PageBytes(UsablePages)
        /\ Cover(B) \cap PageBytes(stk) = {}
    BY CoverIs
  <2>3. \A c \in B : Span(c) \subseteq Cover(B)
    BY SpansApart
  <2> QED
    BY <2>1, <2>2, <2>3
<1>4. ASSUME NEW c \in B, NEW a \in Bytes(c.addr, SIZEOF_BLOCK)
      PROVE  m2[a] = "hdr"
  <2>1. a \in Span(c) /\ a < c.addr + HEAP_HEADER_SIZE /\ m[a] = "hdr" /\ a \in Int
    BY <1>1, <1>4, PartsOf, SMTT(60) DEF MemOK, Bytes
  <2>2. a \notin lo..(BlockEnd(b) - 1)
    <3>1. CASE c = b
      BY <1>1, <1>2, <2>1, <3>1, SMTT(60)
    <3>2. CASE c # b
      BY <1>2, <2>1, <3>2, SpansApart
    <3> QED
      BY <3>1, <3>2
  <2> QED
    BY <1>3, <2>1, <2>2
<1>5. ASSUME NEW w \in W, NEW a \in Bytes(w.ptr, w.size)
      PROVE  m2[a] = w.val
  <2>1. PICK c \in B : Holds(c, w)
    BY DEF Held
  <2>2. /\ a \in Span(c) /\ a < w.ptr + w.size /\ m[a] = w.val /\ w.ptr \in Nat /\ w.size \in Nat
        /\ w.ptr = c.addr + HEAP_HEADER_SIZE
    BY <1>1, <1>5, <2>1, PartsOf DEF MemOK, Holds
  <2>3. a \notin lo..(BlockEnd(b) - 1)
    <3>1. CASE c = b
      <4>1. w.ptr + w.size <= lo /\ a \in Nat
        BY <1>1, <2>2, <3>1, SMTT(60) DEF Span
      <4> QED
        BY <1>2, <2>2, <4>1, SMTT(60)
    <3>2. CASE c # b
      BY <1>2, <2>2, <3>2, SpansApart
    <3> QED
      BY <3>1, <3>2
  <2> QED
    BY <1>3, <2>2, <2>3
<1>6. ASSUME NEW p \in stk, NEW a \in Bytes(pmm_phys_to_virt(p), PAGE_SIZE)
      PROVE  m2[a] = "page"
  <2>1. a \in PageBytes(stk) /\ m[a] = "page"
    BY DEF PageBytes, MemOK
  <2> QED
    BY <1>2, <1>3, <2>1
<1> QED
  BY <1>3, <1>4, <1>5, <1>6 DEF MemOK

\* A write changes what it writes.
LEMMA FillIs ==
  ASSUME NEW m, NEW addr, NEW count, NEW val
  PROVE  /\ DOMAIN Fill(m, addr, count, val) = DOMAIN m
         /\ \A a \in DOMAIN m : Fill(m, addr, count, val)[a]
                                 = IF a \in Bytes(addr, count) THEN val ELSE m[a]
BY DEF Fill

\* A block that takes in its free neighbour disturbs nobody.
LEMMA JoinKeeps ==
  ASSUME NEW l, NEW B, NEW m, NEW W, NEW stk, HeapOK(l, B, m, W, stk),
         NEW b \in B, NEW c \in B, NEW d \in Block, b # c, c.is_free, BlockEnd(b) = c.addr,
         d.addr = b.addr, d.is_free = b.is_free, d.size = b.size + HEAP_HEADER_SIZE + c.size
  PROVE  HeapOK(l, (B \ {b, c}) \cup {d}, m, W, stk) /\ d \notin B \ {b, c}
<1> DEFINE D == (B \ {b, c}) \cup {d}
<1>1. /\ b \in Block /\ c \in Block /\ B \subseteq Block /\ BlocksOK(B) /\ GrantsOK(B, W)
      /\ MemOK(m, B, W, stk) /\ PoolOK(l, B, stk)
  BY DEF HeapOK, BlocksOK
<1>2. /\ Span(d) = Span(b) \cup Span(c)
      /\ \A x \in Block : Apart(b, x) /\ Apart(c, x) => Apart(d, x) /\ Apart(x, d)
  BY <1>1, JoinedIs
<1>3. ASSUME NEW x \in B \ {b, c}
      PROVE  Apart(d, x) /\ Apart(x, d) /\ x # d
  <2>1. Apart(b, x) /\ Apart(c, x) /\ x \in Block
    BY <1>1 DEF BlocksOK
  <2>2. x.addr # b.addr
    BY <1>1, SpansApart
  <2> QED
    BY <1>2, <2>1, <2>2
<1>4. Aligned(d.addr) /\ Aligned(d.size)
  <2>1. /\ b.size \in Nat /\ c.size \in Nat /\ Aligned(b.size) /\ Aligned(c.size) /\ Aligned(b.addr)
    BY <1>1, BlockIs DEF BlocksOK
  <2>2. HEAP_HEADER_SIZE \in Nat /\ Aligned(HEAP_HEADER_SIZE) /\ HEAP_ALIGNMENT \in Nat \ {0}
    BY HeaderIs
  <2>3. b.size + HEAP_HEADER_SIZE \in Nat /\ Aligned(b.size + HEAP_HEADER_SIZE)
    BY <2>1, <2>2, AlignedAdds
  <2>4. Aligned(b.size + HEAP_HEADER_SIZE + c.size)
    BY <2>1, <2>3, AlignedAdds
  <2> QED
    BY <2>1, <2>4
<1>5. BlocksOK(D)
  <2>1. \A x, y \in D : x # y => Apart(x, y)
    BY <1>1, <1>3 DEF BlocksOK
  <2> QED
    BY <1>1, <1>4, <2>1 DEF BlocksOK
<1>6. Cover(D) = Cover(B)
  BY <1>2 DEF Cover
<1>7. b.size <= d.size /\ b.size \in Nat /\ d.size \in Nat
  <2>1. b.size \in Nat /\ c.size \in Nat /\ HEAP_HEADER_SIZE \in Nat
    BY <1>1, BlockIs, HeaderIs
  <2> QED
    BY <2>1, SMTT(60)
<1>8. \A w : Holds(b, w) => Holds(d, w)
  BY <1>7, SMTT(60) DEF Holds
<1>9. GrantsOK(D, W)
  <2>1. Held(D, W)
    <3> SUFFICES ASSUME NEW w \in W PROVE \E x \in D : Holds(x, w)
      BY DEF Held
    <3>1. PICK x \in B : Holds(x, w)
      BY <1>1 DEF GrantsOK, Held
    <3>2. x # c
      BY <3>1 DEF Holds
    <3> QED
      BY <1>8, <3>1, <3>2
  <2>2. \A x \in D : ~x.is_free => \E w \in W : w.ptr = x.addr + HEAP_HEADER_SIZE
    BY <1>1 DEF GrantsOK
  <2> QED
    BY <1>1, <2>1, <2>2 DEF GrantsOK
<1>10. MemOK(m, D, W, stk)
  <2>1. \A x \in D : \A a \in Bytes(x.addr, SIZEOF_BLOCK) : m[a] = "hdr"
    BY <1>1 DEF MemOK
  <2> QED
    BY <1>1, <2>1 DEF MemOK
<1>11. PoolOK(l, D, stk)
  BY <1>1, <1>6 DEF PoolOK
<1> QED
  BY <1>3, <1>5, <1>9, <1>10, <1>11 DEF HeapOK


\* What every round of the loop keeps, heap_block_coalesce keeps.
LEMMA CoalesceRuns ==
  ASSUME NEW S, NEW bs \in S, NEW i, Len(bs) \in Nat, \A x \in S : CoalesceRound(x, i) \in S
  PROVE  heap_block_coalesce(bs, i) \in S
<1> DEFINE n == Len(bs)
           rhs(h, k) == IF k = 0 THEN bs ELSE CoalesceRound(h[k - 1], i)
           round == [x \in S |-> CoalesceRound(x, i)]
           g == [k \in 1..n |-> round]
           after == CHOOSE h : h = [k \in 0..n |-> rhs(h, k)]
<1>1. n \in Nat
  OBVIOUS
<1>2. round \in [S -> S] /\ \A x \in S : round[x] = CoalesceRound(x, i)
  OBVIOUS
<1> HIDE DEF round
<1>3. g \in [1..n -> [S -> S]] /\ \A k \in 1..n : g[k] = round
  BY <1>2
<1> HIDE DEF g, n
<1>4. PICK f : RunsIn(f, S, bs, n, g)
  BY <1>1, <1>3, LoopRuns
<1>5. f \in [0..n -> S] /\ f[0] = bs /\ \A k \in 1..n : f[k] = g[k][f[k - 1]]
  BY <1>4 DEF RunsIn
<1>6. \A k \in 0..n : k # 0 => k \in 1..n /\ k - 1 \in 0..n
  BY <1>1, SMTT(60)
<1>7. f = [k \in 0..n |-> rhs(f, k)]
  <2>1. \A k \in 0..n : f[k] = rhs(f, k)
    BY <1>2, <1>3, <1>5, <1>6
  <2> QED
    BY <1>5, <2>1
<1>8. after = [k \in 0..n |-> rhs(after, k)]
  BY <1>7
<1>9. heap_block_coalesce(bs, i) = after[n]
  BY DEF heap_block_coalesce, n
<1> HIDE DEF after
<1>10. \A k \in 0..n : after[k] = rhs(after, k)
  BY <1>8
<1> DEFINE T == {k \in 0..n : after[k] \in S}
<1>11. 0 \in T
  <2>1. 0 \in 0..n
    BY <1>1, SMTT(60)
  <2> QED
    BY <1>10, <2>1
<1>12. \A k \in 1..n : k - 1 \in T => k \in T
  <2>1. \A k \in 1..n : k \in 0..n /\ k # 0
    BY <1>1, SMTT(60)
  <2> QED
    BY <1>10, <2>1
<1> HIDE DEF T
<1>13. \A k \in 0..n : k \in T
  BY <1>1, <1>11, <1>12, InductionUpTo
<1>14. n \in 0..n
  BY <1>1, SMTT(60)
<1> QED
  BY <1>9, <1>13, <1>14 DEF T

\* d is the block b, perhaps larger.
Grown(b, d) == d.addr = b.addr /\ d.is_free = b.is_free /\ b.size <= d.size

\* Coalescing disturbs nobody, whatever the list's order; the block keeps its
\* place and those before it are as they were.
LEMMA CoalesceKeeps ==
  ASSUME NEW l, NEW bs, NEW m, NEW W, NEW stk, List(bs), HeapOK(l, Pages(bs), m, W, stk),
         NEW i \in 1..Len(bs)
  PROVE  LET c == heap_block_coalesce(bs, i)
         IN  /\ List(c) /\ HeapOK(l, Pages(c), m, W, stk) /\ i \in 1..Len(c)
             /\ Grown(bs[i], c[i]) /\ \A j \in 1..(i - 1) : c[j] = bs[j]
<1> DEFINE good(c) == /\ List(c) /\ HeapOK(l, Pages(c), m, W, stk) /\ i \in 1..Len(c)
                      /\ Grown(bs[i], c[i]) /\ \A j \in 1..(i - 1) : c[j] = bs[j]
           S == {c \in Seq(Block) : good(c)}
<1>1. bs \in Seq(Block) /\ Len(bs) \in Nat /\ bs[i] \in Block
  BY LenIs DEF List
<1>2. bs \in S
  <2>1. bs[i].size \in Nat
    BY <1>1, BlockIs
  <2> QED
    BY <1>1, <2>1, SMTT(60) DEF Grown
<1>3. ASSUME NEW x \in S PROVE CoalesceRound(x, i) \in S
  <2> DEFINE c == Absorb(x, i)
  <2>1. good(x)
    OBVIOUS
  <2>2. SUFFICES ASSUME i < Len(x), x[i + 1].is_free, BlockEnd(x[i]) = x[i + 1].addr
                 PROVE  c \in S
    BY DEF CoalesceRound
  <2>3. /\ x \in Seq(Block) /\ Len(x) \in Nat /\ i \in 1..Len(x) /\ i + 1 \in 1..Len(x) /\ i # i + 1
        /\ x[i] \in Block /\ x[i + 1] \in Block
    BY <2>1, <2>2, LenIs, SMTT(60) DEF List
  <2>4. /\ c \in Seq(Block) /\ Len(c) = Len(x) - 1 /\ i \in 1..Len(c)
        /\ \A j \in 1..Len(c) : j < i => c[j] = x[j]
        /\ c[i].addr = x[i].addr /\ c[i].is_free = x[i].is_free
        /\ c[i].size = x[i].size + HEAP_HEADER_SIZE + x[i + 1].size
    BY <2>2, <2>3, AbsorbIs
  <2> HIDE DEF c
  <2>5. c[i] \in Block /\ c[i].size \in Nat /\ x[i].size \in Nat /\ x[i + 1].size \in Nat
    <3>1. c[i] \in Block
      BY <2>4, LenIs
    <3> QED
      BY <2>3, <3>1, BlockIs
  <2>6. x[i] # x[i + 1] /\ x[i] \in Pages(x) /\ x[i + 1] \in Pages(x)
    BY <2>1, <2>3 DEF List, Distinct, Pages
  <2>7. /\ HeapOK(l, (Pages(x) \ {x[i], x[i + 1]}) \cup {c[i]}, m, W, stk)
        /\ c[i] \notin Pages(x) \ {x[i], x[i + 1]}
    <3> DEFINE b == x[i]
               e == x[i + 1]
               d == c[i]
    <3>1. /\ HeapOK(l, Pages(x), m, W, stk) /\ b \in Pages(x) /\ e \in Pages(x) /\ d \in Block
          /\ b # e /\ e.is_free /\ BlockEnd(b) = e.addr /\ d.addr = b.addr
          /\ d.is_free = b.is_free /\ d.size = b.size + HEAP_HEADER_SIZE + e.size
      BY <2>1, <2>2, <2>4, <2>5, <2>6
    <3> HIDE DEF b, e, d
    <3>2. HeapOK(l, (Pages(x) \ {b, e}) \cup {d}, m, W, stk) /\ d \notin Pages(x) \ {b, e}
      BY <3>1, JoinKeeps
    <3> QED
      BY <3>2 DEF b, e, d
  <2>8. List(c) /\ Pages(c) = (Pages(x) \ {x[i], x[i + 1]}) \cup {c[i]}
    BY <2>1, <2>2, <2>3, <2>7, AbsorbList DEF c
  <2>9. Grown(bs[i], c[i])
    <3>1. x[i].size <= c[i].size
      <4>1. \A h, p, q, r \in Nat : r = p + h + q => p <= r
        BY SMTT(60)
      <4> QED
        BY <2>4, <2>5, <4>1, HeaderIs
    <3>2. bs[i].size <= x[i].size /\ bs[i].size \in Nat
      BY <1>1, <2>1, BlockIs DEF Grown
    <3> QED
      BY <2>1, <2>4, <2>5, <3>1, <3>2, SMTT(60) DEF Grown
  <2>10. \A j \in 1..(i - 1) : c[j] = bs[j]
    <3>1. \A j \in 1..(i - 1) : j \in 1..Len(c) /\ j < i
      BY <2>3, <2>4, SMTT(60)
    <3> QED
      BY <2>1, <2>4, <3>1
  <2> QED
    BY <2>4, <2>7, <2>8, <2>9, <2>10
<1> HIDE DEF S
<1>4. heap_block_coalesce(bs, i) \in S
  BY <1>1, <1>2, <1>3, CoalesceRuns
<1> QED
  BY <1>4 DEF S


\* d and the free block e are the two parts of b.
CutsInto(b, d, e) ==
  /\ d.addr = b.addr /\ d.is_free = b.is_free /\ Aligned(d.size)
  /\ e.addr = BlockEnd(d) /\ e.is_free
  /\ b.size = d.size + HEAP_HEADER_SIZE + e.size

\* The grant of b, if there is one, is of no more than n bytes.
Within(W, b, n) == \A w \in W : w.ptr = b.addr + HEAP_HEADER_SIZE => w.size <= n

Recut(B, b, d, e) == (B \ {b}) \cup {d, e}

\* Cutting a free block off the end of a block, behind its grant, disturbs
\* nobody.
LEMMA CutKeeps ==
  ASSUME NEW l, NEW B, NEW m, NEW W, NEW stk, HeapOK(l, B, m, W, stk),
         NEW b \in B, NEW d \in Block, NEW e \in Block, CutsInto(b, d, e),
         Within(W, b, d.size)
  PROVE  /\ HeapOK(l, Recut(B, b, d, e), WriteHeader(m, e.addr), W, stk)
         /\ d \notin B \ {b} /\ e \notin (B \ {b}) \cup {d}
<1> DEFINE D == (B \ {b}) \cup {d, e}
           m2 == WriteHeader(m, e.addr)
<1>1. /\ b \in Block /\ B \subseteq Block /\ BlocksOK(B) /\ GrantsOK(B, W) /\ Held(B, W)
      /\ MemOK(m, B, W, stk) /\ PoolOK(l, B, stk)
  BY DEF HeapOK, BlocksOK, GrantsOK
<1> USE DEF CutsInto
<1>2. /\ b.addr \in Nat /\ d.addr \in Nat /\ e.addr \in Nat
      /\ b.size \in Nat /\ d.size \in Nat /\ e.size \in Nat
      /\ BlockEnd(b) \in Nat /\ BlockEnd(d) \in Nat /\ BlockEnd(e) \in Nat
      /\ b.addr < BlockEnd(b) /\ d.addr < BlockEnd(d) /\ e.addr < BlockEnd(e)
      /\ BlockEnd(d) = d.addr + HEAP_HEADER_SIZE + d.size
      /\ BlockEnd(e) = e.addr + HEAP_HEADER_SIZE + e.size
  BY <1>1, BlockIs
<1>3. /\ HEAP_HEADER_SIZE \in Nat /\ Aligned(HEAP_HEADER_SIZE) /\ HEAP_ALIGNMENT \in Nat \ {0}
      /\ SIZEOF_BLOCK \in Nat /\ SIZEOF_BLOCK <= HEAP_HEADER_SIZE
  BY HeaderIs
<1>4. BlockEnd(b) = BlockEnd(e) /\ Span(b) = Span(d) \cup Span(e)
  BY <1>1, JoinedIs
<1>5. ASSUME NEW x \in B \ {b}
      PROVE  Apart(d, x) /\ Apart(x, d) /\ Apart(e, x) /\ Apart(x, e) /\ x # d /\ x # e
  <2>1. Apart(b, x) /\ x \in Block /\ x.addr \in Nat /\ BlockEnd(x) \in Nat /\ x.addr < BlockEnd(x)
    BY <1>1, BlockIs DEF BlocksOK
  <2> QED
    BY <1>2, <1>4, <2>1, SMTT(60) DEF Apart
<1>6. Apart(d, e) /\ Apart(e, d) /\ d # e
  BY <1>2, SMTT(60) DEF Apart
<1>7. /\ Aligned(d.addr) /\ Aligned(e.addr) /\ Aligned(e.size)
  <2>1. Aligned(b.addr) /\ Aligned(b.size) /\ Aligned(d.size)
    BY <1>1 DEF BlocksOK
  <2>2. d.addr + HEAP_HEADER_SIZE \in Nat /\ d.size + HEAP_HEADER_SIZE \in Nat
    BY <1>2, <1>3, SMTT(60)
  <2>3. Aligned(d.addr + HEAP_HEADER_SIZE) /\ Aligned(d.size + HEAP_HEADER_SIZE)
    BY <1>2, <1>3, <2>1, AlignedAdds
  <2>4. Aligned(d.addr + HEAP_HEADER_SIZE + d.size)
    BY <1>2, <2>1, <2>2, <2>3, AlignedAdds
  <2>5. b.size >= d.size + HEAP_HEADER_SIZE /\ e.size = b.size - (d.size + HEAP_HEADER_SIZE)
    BY <1>2, <1>3, SMTT(60)
  <2>6. Aligned(b.size - (d.size + HEAP_HEADER_SIZE))
    BY <1>2, <2>1, <2>2, <2>3, <2>5, AlignedAdds
  <2> QED
    BY <1>2, <2>1, <2>4, <2>5, <2>6
<1>8. BlocksOK(D)
  <2>1. \A x, y \in D : x # y => Apart(x, y)
    BY <1>1, <1>5, <1>6 DEF BlocksOK
  <2>2. \A x \in D : Aligned(x.addr) /\ Aligned(x.size)
    BY <1>1, <1>7 DEF BlocksOK
  <2> QED
    BY <1>1, <2>1, <2>2 DEF BlocksOK
<1>9. PoolOK(l, D, stk)
  <2>1. Cover(D) = Cover(B)
    BY <1>4 DEF Cover
  <2> QED
    BY <1>1, <2>1 DEF PoolOK
<1>10. GrantsOK(D, W)
  <2>1. Held(D, W)
    <3> SUFFICES ASSUME NEW w \in W PROVE \E x \in D : Holds(x, w)
      BY DEF Held
    <3>1. PICK x \in B : Holds(x, w)
      BY <1>1 DEF Held
    <3>2. x = b => Holds(d, w)
      BY <3>1 DEF Holds, Within
    <3> QED
      BY <3>1, <3>2
  <2>2. \A x \in D : ~x.is_free => \E w \in W : w.ptr = x.addr + HEAP_HEADER_SIZE
    BY <1>1 DEF GrantsOK
  <2> QED
    BY <1>1, <2>1, <2>2 DEF GrantsOK
<1>11. MemOK(m2, B, W, stk)
  <2>1. e.addr = b.addr + HEAP_HEADER_SIZE + d.size
    BY <1>2
  <2>2. b.addr + HEAP_HEADER_SIZE <= e.addr
    BY <1>2, <1>3, <2>1, SMTT(60)
  <2>3. ASSUME NEW w \in W, w.ptr = b.addr + HEAP_HEADER_SIZE
        PROVE  w.ptr + w.size <= e.addr
    <3>1. w.size \in Nat /\ w.size <= d.size
      BY <1>1, <2>3 DEF Held, Holds, Within
    <3> QED
      BY <1>2, <1>3, <2>1, <2>3, <3>1, SMTT(60)
  <2>4. Bytes(e.addr, SIZEOF_BLOCK) \subseteq e.addr..(BlockEnd(b) - 1)
    BY <1>2, <1>3, <1>4, SMTT(60) DEF Bytes
  <2>5. /\ DOMAIN m2 = DOMAIN m
        /\ \A a \in DOMAIN m : a \notin e.addr..(BlockEnd(b) - 1) => m2[a] = m[a]
    BY <2>4, FillIs, SMTT(60) DEF WriteHeader
  <2> HIDE DEF m2
  <2> QED
    BY <1>1, <1>2, <2>2, <2>3, <2>5, WriteSpare
<1>12. \A a \in Bytes(e.addr, SIZEOF_BLOCK) : m2[a] = "hdr"
  <2>1. Bytes(e.addr, SIZEOF_BLOCK) \subseteq Span(e) /\ Span(e) \subseteq Span(b)
    BY <1>4, PartsOf
  <2>2. Span(b) \subseteq Cover(B) /\ Cover(B) \subseteq PageBytes(UsablePages)
    BY <1>1, CoverIs, SpansApart
  <2>3. DOMAIN m = PageBytes(UsablePages)
    BY <1>1 DEF MemOK
  <2> QED
    BY <2>1, <2>2, <2>3, FillIs, SMTT(60) DEF WriteHeader
<1> HIDE DEF m2
<1>13. MemOK(m2, D, W, stk)
  <2>1. \A x \in D : \A a \in Bytes(x.addr, SIZEOF_BLOCK) : m2[a] = "hdr"
    BY <1>11, <1>12 DEF MemOK
  <2> QED
    BY <1>11, <2>1 DEF MemOK
<1> QED
  BY <1>5, <1>6, <1>8, <1>9, <1>10, <1>13 DEF HeapOK, m2, Recut

\* Splitting, with the coalescing at its end.
LEMMA SplitKeeps ==
  ASSUME NEW l, NEW bs, NEW m, NEW W, NEW stk, List(bs), HeapOK(l, Pages(bs), m, W, stk),
         NEW i \in 1..Len(bs), NEW size \in Nat, Aligned(size), size <= bs[i].size,
         Within(W, bs[i], size)
  PROVE  LET c == heap_block_split(bs, i, size)
         IN  /\ List(c) /\ HeapOK(l, Pages(c), SplitMem(m, bs[i], size), W, stk)
             /\ i \in 1..Len(c) /\ c[i].addr = bs[i].addr /\ c[i].is_free = bs[i].is_free
             /\ size <= c[i].size
<1> DEFINE b == bs[i]
           d == [b EXCEPT !.size = size]
           e == Remainder(b, size)
           u == [bs EXCEPT ![i].size = size]
           v == Insert(u, i + 1, e)
           B == Pages(bs)
<1>1. SUFFICES ASSUME CanSplit(b, size)
               PROVE  LET c == heap_block_coalesce(v, i + 1)
                      IN  /\ List(c) /\ HeapOK(l, Pages(c), WriteHeader(m, e.addr), W, stk)
                          /\ i \in 1..Len(c) /\ c[i].addr = b.addr /\ c[i].is_free = b.is_free
                          /\ size <= c[i].size
  BY DEF heap_block_split, SplitMem
<1>2. bs \in Seq(Block) /\ Len(bs) \in Nat /\ b \in Block /\ b \in B /\ DOMAIN bs = 1..Len(bs)
  BY LenIs DEF List, Pages
<1>3. b.addr \in Nat /\ b.size \in Nat /\ HEAP_HEADER_SIZE \in Nat /\ HEAP_ALIGNMENT \in Nat
  BY <1>2, BlockIs, HeaderIs
<1>4. b.size >= size + HEAP_HEADER_SIZE + HEAP_ALIGNMENT
  BY <1>1 DEF CanSplit
<1> HIDE DEF b, B
<1>5. d \in Block /\ d.addr = b.addr /\ d.is_free = b.is_free /\ d.size = size
  BY <1>2, ResizedIs
<1>6. /\ e \in Block /\ e.addr = b.addr + HEAP_HEADER_SIZE + size /\ e.is_free
      /\ e.size = b.size - HEAP_HEADER_SIZE - size
  <2>1. \A p, q, r, h, al \in Nat :
          p + h + r \in Nat /\ (q >= r + h + al => q - h - r \in Nat)
    BY SMTT(60)
  <2>2. b.addr + HEAP_HEADER_SIZE + size \in Nat /\ b.size - HEAP_HEADER_SIZE - size \in Nat
    BY <1>3, <1>4, <2>1
  <2> QED
    BY <2>2 DEF Block, Remainder
<1>7. u = Put(bs, i, d)
  BY <1>2 DEF b, Put
<1> HIDE DEF d, e, u
<1>8. b.size = d.size + HEAP_HEADER_SIZE + e.size /\ e.addr = BlockEnd(d)
  <2>1. BlockEnd(d) = d.addr + HEAP_HEADER_SIZE + d.size
    BY <1>5, BlockIs
  <2>2. \A p, q, r, s \in Int : s = p - q - r => p = r + q + s
    BY SMTT(60)
  <2>3. e.size \in Nat
    BY <1>6, BlockIs
  <2> QED
    BY <1>3, <1>5, <1>6, <2>1, <2>2, <2>3, SMTT(60)
<1>9. /\ HeapOK(l, Recut(B, b, d, e), WriteHeader(m, e.addr), W, stk)
      /\ d \notin B \ {b} /\ e \notin (B \ {b}) \cup {d}
  <2>1. HeapOK(l, B, m, W, stk)
    BY DEF B
  <2>2. Within(W, b, d.size)
    BY <1>5 DEF b
  <2>3. CutsInto(b, d, e)
    BY <1>5, <1>6, <1>8 DEF CutsInto
  <2>4. b \in B /\ d \in Block /\ e \in Block
    BY <1>2, <1>5, <1>6
  <2> QED
    BY <2>1, <2>2, <2>3, <2>4, CutKeeps, SMTT(60)
<1>10. /\ List(u) /\ Len(u) = Len(bs) /\ u[i] = d /\ Pages(u) = (B \ {b}) \cup {d}
  <2>1. d \in Block /\ d \notin Pages(bs) \ {bs[i]}
    BY <1>5, <1>9 DEF b, B
  <2>2. List(u) /\ Len(u) = Len(bs) /\ u[i] = d /\ Pages(u) = (Pages(bs) \ {bs[i]}) \cup {d}
    BY <1>7, <2>1, UpdateList, SMTT(60)
  <2> QED
    BY <2>2 DEF b, B
<1>11. i + 1 \in 1..(Len(u) + 1) /\ u \in Seq(Block) /\ Len(u) \in Nat
  BY <1>2, <1>10, SMTT(60) DEF List
<1>12. List(v) /\ Pages(v) = Recut(B, b, d, e)
  <2>1. List(u) /\ i + 1 \in 1..(Len(u) + 1) /\ e \in Block /\ e \notin Pages(u)
    BY <1>6, <1>9, <1>10, <1>11
  <2>2. List(v) /\ Pages(v) = Pages(u) \cup {e}
    BY <2>1, InsertList
  <2> QED
    BY <1>10, <2>2 DEF Recut
<1>13. v[i] = d /\ i + 1 \in 1..Len(v)
  <2>1. /\ Len(v) = Len(u) + 1
        /\ \A j \in 1..Len(v) : j < i + 1 => v[j] = u[j]
    <3> DEFINE k == i + 1
    <3>1. k \in 1..(Len(u) + 1)
      BY <1>11
    <3> HIDE DEF k
    <3>2. LET x == Insert(u, k, e)
          IN  Len(x) = Len(u) + 1 /\ \A j \in 1..Len(x) : j < k => x[j] = u[j]
      BY <1>6, <1>11, <3>1, InsertIs, SMTT(60)
    <3> QED
      BY <3>2 DEF k
  <2>2. i \in 1..Len(v) /\ i < i + 1 /\ i + 1 \in 1..Len(v)
    BY <1>10, <1>11, <2>1, SMTT(60)
  <2> QED
    BY <1>10, <2>1, <2>2
<1> DEFINE c == heap_block_coalesce(v, i + 1)
<1> HIDE DEF v
<1>14. /\ List(c) /\ HeapOK(l, Pages(c), WriteHeader(m, e.addr), W, stk) /\ i + 1 \in 1..Len(c)
       /\ \A j \in 1..((i + 1) - 1) : c[j] = v[j]
  <2> DEFINE k == i + 1
             m2 == WriteHeader(m, e.addr)
  <2>1. List(v) /\ HeapOK(l, Pages(v), m2, W, stk) /\ k \in 1..Len(v)
    BY <1>9, <1>12, <1>13
  <2> HIDE DEF k, m2
  <2>2. LET x == heap_block_coalesce(v, k)
        IN  /\ List(x) /\ HeapOK(l, Pages(x), m2, W, stk) /\ k \in 1..Len(x)
            /\ Grown(v[k], x[k]) /\ \A j \in 1..(k - 1) : x[j] = v[j]
    BY <2>1, CoalesceKeeps
  <2> QED
    BY <2>2 DEF k, m2
<1> HIDE DEF c
<1>15. i \in 1..Len(c) /\ c[i] = d
  <2>1. i \in 1..((i + 1) - 1) /\ i \in 1..Len(c)
    BY <1>14, SMTT(60)
  <2> QED
    BY <1>13, <1>14, <2>1
<1> QED
  BY <1>5, <1>14, <1>15, SMTT(60) DEF c


-----------------------------------------------------------------------------
Swap(B, b, d) == (B \ {b}) \cup {d}

\* Changing only a block's flag moves nothing.
LEMMA FlagMoves ==
  ASSUME NEW B, BlocksOK(B), NEW b \in B, NEW d \in Block, d.addr = b.addr, d.size = b.size
  PROVE  BlocksOK(Swap(B, b, d)) /\ Cover(Swap(B, b, d)) = Cover(B) /\ d \notin B \ {b}
<1>1. b \in Block /\ B \subseteq Block
  BY DEF BlocksOK
<1>2. BlockEnd(d) = BlockEnd(b)
  BY <1>1, BlockIs
<1>3. Span(d) = Span(b) /\ \A x : Apart(b, x) => Apart(d, x) /\ Apart(x, d)
  BY <1>2 DEF Span, Apart
<1>4. \A x \in B \ {b} : Apart(b, x) /\ x # d
  BY SpansApart DEF BlocksOK
<1>5. \A x, y \in Swap(B, b, d) : x # y => Apart(x, y)
  BY <1>3, <1>4 DEF BlocksOK, Swap
<1>6. \A x \in Swap(B, b, d) : x \in Block /\ Aligned(x.addr) /\ Aligned(x.size)
  BY <1>1 DEF BlocksOK, Swap
<1>7. Cover(Swap(B, b, d)) = Cover(B)
  BY <1>3 DEF Cover, Swap
<1> QED
  BY <1>4, <1>5, <1>6, <1>7 DEF BlocksOK

\* d is the block b marked as used, or as free.
MarksUsed(b, d) == d \in Block /\ d.addr = b.addr /\ d.size = b.size /\ ~d.is_free
MarksFree(b, d) == d \in Block /\ d.addr = b.addr /\ d.size = b.size /\ d.is_free

\* What a caller was granted.
Grant(ptr, size, val) == [ptr |-> ptr, size |-> size, val |-> val]

\* ptr is nobody's.
Fresh(W, ptr) == \A w \in W : w.ptr # ptr

\* The grants with one more of no bytes, for whatever value.
Granted(l, B, m, W, ptr, stk) == \A v : HeapOK(l, B, m, W \cup {Grant(ptr, 0, v)}, stk)

\* A free block is handed out: its caller is the only one with that pointer.
LEMMA TakeMark ==
  ASSUME NEW l, NEW B, NEW m, NEW W, NEW stk, HeapOK(l, B, m, W, stk), NEW b \in B, b.is_free,
         NEW d, MarksUsed(b, d), NEW ptr, ptr = b.addr + HEAP_HEADER_SIZE
  PROVE  d \notin B \ {b} /\ Fresh(W, ptr) /\ Granted(l, Swap(B, b, d), m, W, ptr, stk)
<1> DEFINE D == Swap(B, b, d)
<1>1. /\ b \in Block /\ B \subseteq Block /\ BlocksOK(B) /\ GrantsOK(B, W) /\ Held(B, W)
      /\ MemOK(m, B, W, stk) /\ PoolOK(l, B, stk)
  BY DEF HeapOK, BlocksOK, GrantsOK
<1> USE DEF MarksUsed, MarksFree
<1>2. BlocksOK(D) /\ Cover(D) = Cover(B) /\ d \notin B \ {b}
  BY <1>1, FlagMoves
<1>3. \A w \in W : \E c \in B \ {b} : Holds(c, w)
  BY <1>1 DEF Held, Holds
<1>4. HEAP_HEADER_SIZE \in Nat /\ \A c \in B : c.addr \in Nat
  BY <1>1, HeaderIs, BlockIs
<1>5. \A w \in W : w.ptr # ptr
  <2> SUFFICES ASSUME NEW w \in W PROVE w.ptr # ptr
    OBVIOUS
  <2>1. PICK c \in B \ {b} : Holds(c, w)
    BY <1>3
  <2>2. c.addr # b.addr
    BY <1>1, SpansApart
  <2> QED
    BY <1>4, <2>1, <2>2, SMTT(60) DEF Holds
<1>6. ASSUME NEW v PROVE HeapOK(l, D, m, W \cup {Grant(ptr, 0, v)}, stk)
  <2> DEFINE g == Grant(ptr, 0, v)
  <2>1. g.ptr = ptr /\ g.size = 0 /\ g.val = v
    BY DEF Grant
  <2> HIDE DEF g
  <2>2. Holds(d, g)
    <3>1. d.size \in Nat
      BY BlockIs
    <3> QED
      BY <2>1, <3>1, SMTT(60) DEF Holds
  <2>3. Held(D, W \cup {g})
    BY <1>3, <2>2 DEF Held, Swap
  <2>4. GrantsOK(D, W \cup {g})
    <3>1. \A x \in D : ~x.is_free => \E w \in W \cup {g} : w.ptr = x.addr + HEAP_HEADER_SIZE
      BY <1>1, <2>1 DEF GrantsOK, Swap
    <3>2. \A v1, w1 \in W \cup {g} : v1.ptr = w1.ptr => v1 = w1
      BY <1>1, <1>5, <2>1 DEF GrantsOK
    <3> QED
      BY <2>3, <3>1, <3>2 DEF GrantsOK
  <2>5. Bytes(g.ptr, g.size) = {}
    BY <1>4, <2>1, SMTT(60) DEF Bytes
  <2>6. MemOK(m, D, W \cup {g}, stk)
    <3>1. \A x \in D : \A a \in Bytes(x.addr, SIZEOF_BLOCK) : m[a] = "hdr"
      BY <1>1 DEF MemOK, Swap
    <3> QED
      BY <1>1, <2>5, <3>1 DEF MemOK
  <2>7. PoolOK(l, D, stk)
    BY <1>1, <1>2 DEF PoolOK
  <2> QED
    BY <1>2, <2>4, <2>6, <2>7 DEF HeapOK, g
<1> QED
  BY <1>2, <1>5, <1>6 DEF Fresh, Granted

\* A block is handed back, and its grant ends.
LEMMA FreeMark ==
  ASSUME NEW l, NEW B, NEW m, NEW W, NEW stk, HeapOK(l, B, m, W, stk), NEW b \in B,
         NEW d, MarksFree(b, d), NEW w \in W, w.ptr = b.addr + HEAP_HEADER_SIZE
  PROVE  d \notin B \ {b} /\ HeapOK(l, Swap(B, b, d), m, W \ {w}, stk)
<1> DEFINE D == Swap(B, b, d)
           V == W \ {w}
<1>1. /\ b \in Block /\ B \subseteq Block /\ BlocksOK(B) /\ GrantsOK(B, W) /\ Held(B, W)
      /\ MemOK(m, B, W, stk) /\ PoolOK(l, B, stk)
  BY DEF HeapOK, BlocksOK, GrantsOK
<1> USE DEF MarksUsed, MarksFree
<1>2. BlocksOK(D) /\ Cover(D) = Cover(B) /\ d \notin B \ {b}
  BY <1>1, FlagMoves
<1>3. \A x \in V : x \in W /\ x.ptr # w.ptr
  BY <1>1 DEF GrantsOK
<1>4. GrantsOK(D, V)
  <2>1. Held(D, V)
    <3> SUFFICES ASSUME NEW x \in V PROVE \E c \in D : Holds(c, x)
      BY DEF Held
    <3>1. PICK c \in B : Holds(c, x)
      BY <1>1 DEF Held
    <3>2. c # b
      BY <1>3, <3>1 DEF Holds
    <3> QED
      BY <3>1, <3>2 DEF Swap
  <2>2. ASSUME NEW x \in D, ~x.is_free PROVE \E y \in V : y.ptr = x.addr + HEAP_HEADER_SIZE
    <3>1. x \in B /\ x # b
      BY <2>2 DEF Swap
    <3>2. x.addr # b.addr /\ x.addr \in Nat /\ b.addr \in Nat /\ HEAP_HEADER_SIZE \in Nat
      BY <1>1, <3>1, SpansApart, BlockIs, HeaderIs
    <3>3. PICK y \in W : y.ptr = x.addr + HEAP_HEADER_SIZE
      BY <1>1, <2>2, <3>1 DEF GrantsOK
    <3>4. y # w
      BY <3>2, <3>3, SMTT(60)
    <3> QED
      BY <3>3, <3>4
  <2> QED
    BY <1>1, <2>1, <2>2 DEF GrantsOK
<1>5. MemOK(m, D, V, stk)
  <2>1. \A x \in D : \A a \in Bytes(x.addr, SIZEOF_BLOCK) : m[a] = "hdr"
    BY <1>1 DEF MemOK, Swap
  <2> QED
    BY <1>1, <2>1 DEF MemOK
<1>6. PoolOK(l, D, stk)
  BY <1>1, <1>2 DEF PoolOK
<1> QED
  BY <1>2, <1>4, <1>5, <1>6 DEF HeapOK


-----------------------------------------------------------------------------
\* Multiplying keeps the order.
LEMMA TimesKeepsOrder ==
  ASSUME NEW x \in Nat, NEW y \in Nat, NEW n \in Nat
  PROVE  /\ x * n \in Nat /\ y * n \in Nat /\ (x + y) * n = x * n + y * n
         /\ x <= y => x * n <= y * n
         /\ x * n < y * n => x < y
<1>1. \A p, q \in Nat : p * n \in Nat /\ (p + q) * n = p * n + q * n
  BY SMTT(60)
<1>2. ASSUME NEW p \in Nat, NEW q \in Nat, p <= q PROVE p * n <= q * n
  <2>1. PICK d \in Nat : q = p + d
    <3>1. q - p \in Nat /\ q = p + (q - p)
      BY <1>2, SMTT(60)
    <3> QED
      BY <3>1
  <2>2. q * n = p * n + d * n /\ p * n \in Nat /\ d * n \in Nat
    BY <1>1, <2>1
  <2> QED
    BY <2>2, SMTT(60)
<1>3. x * n < y * n => x < y
  <2>1. y <= x => y * n <= x * n
    BY <1>2
  <2>2. x < y \/ y <= x
    BY SMTT(60)
  <2>3. x * n \in Nat /\ y * n \in Nat
    BY <1>1
  <2> QED
    BY <2>1, <2>2, <2>3, SMTT(60)
<1> QED
  BY <1>1, <1>2, <1>3

\* The pages of a run lie side by side.
LEMMA RunBytes ==
  ASSUME NEW page \in Nat, NEW k \in Nat
  PROVE  PageBytes(Run(page, k))
           = pmm_phys_to_virt(page)..(pmm_phys_to_virt(page) + k * PAGE_SIZE - 1)
<1> DEFINE base == pmm_phys_to_virt(page)
<1>1. PAGE_SIZE \in Nat \ {0} /\ HHDM_OFFSET \in Nat
  BY HeaderIs
<1>2. base \in Nat /\ \A j \in Nat : /\ pmm_phys_to_virt(page + j) = base + j * PAGE_SIZE
                                     /\ j * PAGE_SIZE \in Nat
  <2>1. page * PAGE_SIZE \in Nat
    BY <1>1, SMTT(60)
  <2>2. ASSUME NEW j \in Nat
        PROVE  (page + j) * PAGE_SIZE = page * PAGE_SIZE + j * PAGE_SIZE /\ j * PAGE_SIZE \in Nat
    BY <1>1, TimesKeepsOrder, SMTT(60)
  <2>3. \A x, y, z \in Nat : (x + y) + z = (x + z) + y
    BY SMTT(60)
  <2> QED
    BY <1>1, <2>1, <2>2, <2>3, SMTT(60) DEF pmm_phys_to_virt
<1> HIDE DEF base
<1>3. ASSUME NEW p \in Run(page, k), NEW a \in Bytes(pmm_phys_to_virt(p), PAGE_SIZE)
      PROVE  a \in base..(base + k * PAGE_SIZE - 1)
  <2>1. PICK j \in Nat : p = page + j /\ j + 1 <= k
    <3>1. p - page \in Nat /\ p = page + (p - page) /\ (p - page) + 1 <= k
      BY SMTT(60) DEF Run
    <3> QED
      BY <3>1
  <2>2. a \in (base + j * PAGE_SIZE)..(base + j * PAGE_SIZE + PAGE_SIZE - 1)
    BY <1>2, <1>3, <2>1 DEF Bytes
  <2>3. j * PAGE_SIZE + PAGE_SIZE <= k * PAGE_SIZE
    <3>1. (j + 1) * PAGE_SIZE <= k * PAGE_SIZE
      BY <1>1, <2>1, TimesKeepsOrder, SMTT(60)
    <3>2. (j + 1) * PAGE_SIZE = j * PAGE_SIZE + PAGE_SIZE
      BY <1>1, SMTT(60)
    <3> QED
      BY <3>1, <3>2
  <2>4. j * PAGE_SIZE \in Nat /\ k * PAGE_SIZE \in Nat
    BY <1>2
  <2> QED
    BY <1>1, <1>2, <2>2, <2>3, <2>4, SMTT(60)
<1>4. ASSUME NEW a \in base..(base + k * PAGE_SIZE - 1)
      PROVE  \E p \in Run(page, k) : a \in Bytes(pmm_phys_to_virt(p), PAGE_SIZE)
  <2> DEFINE n == a - base
             j == n \div PAGE_SIZE
  <2>1. k * PAGE_SIZE \in Nat
    BY <1>2
  <2>2. n \in Nat /\ n < k * PAGE_SIZE /\ a = base + n
    BY <1>2, <2>1, SMTT(60)
  <2> HIDE DEF n
  <2>3. j \in Nat /\ n = PAGE_SIZE * j + (n % PAGE_SIZE) /\ n % PAGE_SIZE \in 0..(PAGE_SIZE - 1)
    BY <1>1, <2>2, RemainderIs
  <2> DEFINE rem == n % PAGE_SIZE
  <2> HIDE DEF j, rem
  <2>4. j * PAGE_SIZE \in Nat /\ n = j * PAGE_SIZE + rem /\ rem \in 0..(PAGE_SIZE - 1)
    <3>1. PAGE_SIZE * j = j * PAGE_SIZE
      BY <1>1, <2>3, SMTT(60)
    <3> QED
      BY <1>2, <2>3, <3>1 DEF rem
  <2>5. j < k
    <3>1. j * PAGE_SIZE < k * PAGE_SIZE
      BY <1>1, <2>1, <2>2, <2>4, SMTT(60)
    <3> QED
      BY <1>1, <2>3, <3>1, TimesKeepsOrder
  <2>6. page + j \in Run(page, k)
    BY <2>3, <2>5, SMTT(60) DEF Run
  <2>7. a \in Bytes(base + j * PAGE_SIZE, PAGE_SIZE)
    BY <1>1, <1>2, <2>2, <2>4, SMTT(60) DEF Bytes
  <2>8. pmm_phys_to_virt(page + j) = base + j * PAGE_SIZE
    BY <1>2, <2>3
  <2> QED
    BY <2>6, <2>7, <2>8
<1> QED
  BY <1>3, <1>4 DEF PageBytes, base

\* A run leaves the free list.
LEMMA AllocMoves ==
  ASSUME NEW l \in PageList, Distinct(l), NEW k \in Nat, HasRun(l, k)
  PROVE  /\ AfterAlloc(l, k) \in PageList /\ Distinct(AfterAlloc(l, k))
         /\ Pages(AfterAlloc(l, k)) = Pages(l) \ Run(pmm_alloc(l, k), k)
         /\ Run(pmm_alloc(l, k), k) \subseteq Pages(l)
         /\ pmm_alloc(l, k) \in Nat \ {0} /\ k > 0
<1> DEFINE i == FirstRun(l, k)
<1>1. /\ pmm_alloc(l, k) \in Nat \ {0}
      /\ Run(pmm_alloc(l, k), k) = {l[j] : j \in i..(i + k - 1)}
  BY AllocTakesRun
<1>2. i \in 1..Len(l) /\ k > 0 /\ i + k - 1 <= Len(l)
  BY FirstRunIsRun DEF IsRun
<1>3. AfterAlloc(l, k) = Cut(l, i, k)
  BY DEF AfterAlloc
<1> HIDE DEF i
<1>4. LET out == {l[j] : j \in i..(i + k - 1)}
      IN  /\ Cut(l, i, k) \in PageList /\ Distinct(Cut(l, i, k))
          /\ Pages(Cut(l, i, k)) = Pages(l) \ out /\ out \subseteq Pages(l)
  BY <1>2, CutRemoves
<1> QED
  BY <1>1, <1>2, <1>3, <1>4


\* A block of fresh pages: it is apart from all others, and nobody's bytes are
\* in it.
LEMMA FreshKeeps ==
  ASSUME NEW l, NEW B, NEW m, NEW W, NEW stk, HeapOK(l, B, m, W, stk), NEW k \in Nat,
         HasRun(l, k)
  PROVE  LET page == pmm_alloc(l, k)
             b == NewBlock(page, k)
         IN  /\ b \in Block /\ b \notin B /\ b.is_free /\ b.addr = pmm_phys_to_virt(page)
             /\ b.size = k * PAGE_SIZE - HEAP_HEADER_SIZE
             /\ HeapOK(AfterAlloc(l, k), B \cup {b}, WriteHeader(m, pmm_phys_to_virt(page)), W, stk)
<1> DEFINE page == pmm_alloc(l, k)
           b == NewBlock(page, k)
           l2 == AfterAlloc(l, k)
           m2 == WriteHeader(m, pmm_phys_to_virt(page))
           D == B \cup {b}
           run == Run(page, k)
<1>1. /\ B \subseteq Block /\ BlocksOK(B) /\ GrantsOK(B, W) /\ Held(B, W)
      /\ MemOK(m, B, W, stk) /\ PoolOK(l, B, stk) /\ l \in PageList /\ Distinct(l)
      /\ DOMAIN m = PageBytes(UsablePages)
  BY DEF HeapOK, BlocksOK, GrantsOK, PoolOK, MemOK
<1>2. /\ l2 \in PageList /\ Distinct(l2) /\ Pages(l2) = Pages(l) \ run /\ run \subseteq Pages(l)
      /\ page \in Nat \ {0} /\ k > 0
  BY <1>1, AllocMoves
<1> HIDE DEF page, l2
<1>3. /\ HEAP_HEADER_SIZE \in Nat \ {0} /\ HEAP_HEADER_SIZE <= PAGE_SIZE /\ Aligned(HEAP_HEADER_SIZE)
      /\ PAGE_SIZE \in Nat \ {0} /\ HEAP_ALIGNMENT \in Nat \ {0} /\ HHDM_OFFSET \in Nat
      /\ SIZEOF_BLOCK \in Nat /\ SIZEOF_BLOCK <= HEAP_HEADER_SIZE
  BY HeaderIs, SMTT(60)
<1> DEFINE at == pmm_phys_to_virt(page)
           room == k * PAGE_SIZE
<1>4. at \in Nat /\ Aligned(at) /\ room \in Nat /\ Aligned(room)
  BY <1>2, PagesAligned
<1>5. room >= PAGE_SIZE
  <2>1. 1 * PAGE_SIZE <= k * PAGE_SIZE
    BY <1>2, <1>3, TimesKeepsOrder, SMTT(60)
  <2> QED
    BY <1>3, <2>1, SMTT(60)
<1>6. PageBytes(run) = at..(at + room - 1)
  BY <1>2, RunBytes
<1> HIDE DEF at, room, run
<1>7. room - HEAP_HEADER_SIZE \in Nat /\ Aligned(room - HEAP_HEADER_SIZE)
  <2>1. room >= HEAP_HEADER_SIZE
    BY <1>3, <1>4, <1>5, SMTT(60)
  <2> QED
    BY <1>3, <1>4, <2>1, AlignedAdds
<1>8. b \in Block /\ b.addr = at /\ b.size = room - HEAP_HEADER_SIZE /\ b.is_free
  BY <1>4, <1>7 DEF NewBlock, Block, at, room
<1> HIDE DEF b
<1>9. BlockEnd(b) = at + room /\ Span(b) = PageBytes(run)
  <2>1. BlockEnd(b) = b.addr + HEAP_HEADER_SIZE + b.size
    BY <1>8, BlockIs
  <2>2. BlockEnd(b) = at + room
    <3>1. \A x, h, r \in Int : x + h + (r - h) = x + r
      BY SMTT(60)
    <3> QED
      BY <1>3, <1>4, <1>8, <2>1, <3>1, SMTT(60)
  <2>3. Span(b) = at..(at + room - 1)
    <3>1. b.addr = at
      BY <1>8
    <3> QED
      BY <1>4, <2>2, <3>1, SMTT(60) DEF Span
  <2> QED
    BY <1>6, <2>2, <2>3
<1>10. /\ Pages(l) \subseteq UsablePages /\ stk \subseteq UsablePages /\ Pages(l) \cap stk = {}
       /\ Cover(B) = PageBytes(UsablePages \ (Pages(l) \cup stk)) /\ UsablePages \subseteq Nat
  BY <1>1, UsableAreNat DEF PoolOK
<1>11. Cover(B) \cap Span(b) = {}
  <2>1. Cover(B) \cap PageBytes(Pages(l)) = {}
    BY <1>1, CoverIs
  <2>2. PageBytes(run) \subseteq PageBytes(Pages(l))
    BY <1>2 DEF PageBytes, run
  <2> QED
    BY <1>9, <2>1, <2>2
<1>12. ASSUME NEW x \in B PROVE Apart(b, x) /\ Apart(x, b) /\ x # b
  <2>1. Span(x) \subseteq Cover(B) /\ x.addr \in Span(x) /\ x \in Block
    BY <1>1, SpansApart
  <2>2. /\ x.addr \in Nat /\ b.addr \in Nat /\ BlockEnd(x) \in Nat /\ BlockEnd(b) \in Nat
        /\ x.addr < BlockEnd(x) /\ b.addr < BlockEnd(b)
    BY <1>8, <2>1, BlockIs
  <2>3. x.addr \notin Span(b) /\ b.addr \notin Span(x)
    BY <1>11, <2>1, <2>2, SMTT(60) DEF Span
  <2>4. BlockEnd(b) <= x.addr \/ BlockEnd(x) <= b.addr
    BY <2>2, <2>3, SMTT(60) DEF Span
  <2>5. x # b
    BY <2>1, <2>3
  <2> QED
    BY <2>4, <2>5 DEF Apart
<1>13. BlocksOK(D)
  <2>1. \A x, y \in D : x # y => Apart(x, y)
    BY <1>1, <1>12 DEF BlocksOK
  <2> QED
    BY <1>1, <1>4, <1>7, <1>8, <2>1 DEF BlocksOK
<1>14. PoolOK(l2, D, stk)
  <2>1. Cover(D) = Cover(B) \cup PageBytes(run)
    BY <1>9 DEF Cover
  <2>2. UsablePages \ (Pages(l2) \cup stk) = (UsablePages \ (Pages(l) \cup stk)) \cup run
    BY <1>2, <1>10 DEF run
  <2>3. Cover(D) = PageBytes(UsablePages \ (Pages(l2) \cup stk))
    <3> DEFINE share == UsablePages \ (Pages(l) \cup stk)
    <3>1. PageBytes(share \cup run) = PageBytes(share) \cup PageBytes(run)
      BY DEF PageBytes
    <3>2. Cover(D) = PageBytes(share) \cup PageBytes(run)
      BY <1>10, <2>1
    <3> QED
      BY <2>2, <3>1, <3>2
  <2> QED
    BY <1>2, <1>10, <2>3 DEF PoolOK, run
<1>15. GrantsOK(D, W)
  BY <1>1, <1>8 DEF GrantsOK, Held
<1>16. MemOK(m2, D, W, stk)
  <2>1. Bytes(at, SIZEOF_BLOCK) \subseteq Span(b)
    BY <1>8, PartsOf
  <2>2. /\ DOMAIN m2 = DOMAIN m
        /\ \A a \in DOMAIN m : a \in Bytes(at, SIZEOF_BLOCK) => m2[a] = "hdr"
        /\ \A a \in DOMAIN m : a \notin Span(b) => m2[a] = m[a]
    BY <2>1, FillIs, SMTT(60) DEF WriteHeader, at
  <2> HIDE DEF m2
  <2>3. Span(b) \subseteq DOMAIN m
    BY <1>1, <1>2, <1>9, <1>10 DEF PageBytes, run
  <2>4. \A a \in Cover(B) \cup PageBytes(stk) : a \in DOMAIN m /\ a \notin Span(b)
    <3>1. Cover(B) \subseteq DOMAIN m /\ PageBytes(stk) \subseteq DOMAIN m
      BY <1>1, CoverIs
    <3>2. PageBytes(stk) \cap PageBytes(run) = {}
      <4>1. stk \in SUBSET Nat /\ run \in SUBSET Nat /\ stk \cap run = {}
        BY <1>2, <1>10 DEF run
      <4> QED
        BY <4>1, PageBytesApart
    <3> QED
      BY <1>9, <1>11, <3>1, <3>2
  <2>5. \A x \in D : \A a \in Bytes(x.addr, SIZEOF_BLOCK) : m2[a] = "hdr"
    <3>1. \A x \in B : \A a \in Bytes(x.addr, SIZEOF_BLOCK) : a \in Cover(B)
      BY <1>1, PartsOf, SpansApart
    <3> QED
      BY <1>1, <1>8, <2>1, <2>2, <2>3, <2>4, <3>1 DEF MemOK
  <2>6. \A w \in W : \A a \in Bytes(w.ptr, w.size) : m2[a] = w.val
    <3>1. ASSUME NEW w \in W, NEW a \in Bytes(w.ptr, w.size) PROVE a \in Cover(B)
      BY <1>1, <3>1, PartsOf, SpansApart DEF Held
    <3> QED
      BY <1>1, <2>2, <2>4, <3>1 DEF MemOK
  <2>7. \A p \in stk : \A a \in Bytes(pmm_phys_to_virt(p), PAGE_SIZE) : m2[a] = "page"
    <3>1. \A p \in stk : \A a \in Bytes(pmm_phys_to_virt(p), PAGE_SIZE) : a \in PageBytes(stk)
      BY DEF PageBytes
    <3> QED
      BY <1>1, <2>2, <2>4, <3>1 DEF MemOK
  <2> QED
    BY <1>1, <2>2, <2>5, <2>6, <2>7 DEF MemOK
<1> QED
  <2>1. b \notin B
    BY <1>12
  <2>2. HeapOK(l2, D, m2, W, stk)
    BY <1>13, <1>14, <1>15, <1>16 DEF HeapOK
  <2> QED
    BY <1>8, <2>1, <2>2 DEF b, at, room, l2, page


\* m2 is m but for bytes from lo to hi.
Rewrites(m, m2, lo, hi) ==
  DOMAIN m2 = DOMAIN m /\ \A a \in DOMAIN m : a \notin lo..hi => m2[a] = m[a]

\* Storing in one's own block: a grant becomes one of the first n bytes of the
\* block, all v.
LEMMA Regrant ==
  ASSUME NEW l, NEW B, NEW m, NEW W, NEW stk, HeapOK(l, B, m, W, stk), NEW w \in W, NEW b \in B,
         w.ptr = b.addr + HEAP_HEADER_SIZE, NEW n \in Nat, n <= b.size, NEW v, NEW m2,
         Rewrites(m, m2, w.ptr, BlockEnd(b) - 1), \A a \in Bytes(w.ptr, n) : m2[a] = v
  PROVE  HeapOK(l, B, m2, (W \ {w}) \cup {Grant(w.ptr, n, v)}, stk)
<1> DEFINE U == W \ {w}
           g == Grant(w.ptr, n, v)
<1>1. /\ b \in Block /\ B \subseteq Block /\ BlocksOK(B) /\ GrantsOK(B, W) /\ Held(B, W)
      /\ MemOK(m, B, W, stk) /\ PoolOK(l, B, stk)
  BY DEF HeapOK, BlocksOK, GrantsOK
<1>2. b.addr \in Nat /\ HEAP_HEADER_SIZE \in Nat /\ w.ptr \in Nat
  BY <1>1, BlockIs, HeaderIs, SMTT(60)
<1>3. \A x \in U : x \in W /\ x.ptr # w.ptr
  BY <1>1 DEF GrantsOK
<1>4. g.ptr = w.ptr /\ g.size = n /\ g.val = v
  BY DEF Grant
<1> HIDE DEF g, U
<1>5. Held(B, U)
  BY <1>1, <1>3 DEF Held
<1>6. ~b.is_free
  <2>1. PICK c \in B : Holds(c, w)
    BY <1>1 DEF Held
  <2>2. c.addr = b.addr
    <3>1. c.addr \in Nat /\ c.addr + HEAP_HEADER_SIZE = b.addr + HEAP_HEADER_SIZE
      BY <1>1, <2>1, BlockIs DEF Holds
    <3> QED
      BY <1>2, <3>1, SMTT(60)
  <2> QED
    BY <1>1, <2>1, <2>2, SpansApart DEF Holds
<1>7. Holds(b, g)
  BY <1>4, <1>6 DEF Holds
<1>8. GrantsOK(B, U \cup {g})
  <2>1. Held(B, U \cup {g})
    BY <1>5, <1>7 DEF Held
  <2>2. ASSUME NEW x \in B, ~x.is_free
        PROVE  \E y \in U \cup {g} : y.ptr = x.addr + HEAP_HEADER_SIZE
    <3>1. PICK y \in W : y.ptr = x.addr + HEAP_HEADER_SIZE
      BY <1>1, <2>2 DEF GrantsOK
    <3> QED
      BY <1>4, <3>1 DEF U
  <2>3. \A x, y \in U \cup {g} : x.ptr = y.ptr => x = y
    BY <1>1, <1>3, <1>4 DEF GrantsOK
  <2> QED
    BY <2>1, <2>2, <2>3 DEF GrantsOK
<1>9. MemOK(m2, B, U, stk)
  <2>1. MemOK(m, B, U, stk)
    BY <1>1, <1>3 DEF MemOK
  <2>2. \A x \in U : x.ptr = b.addr + HEAP_HEADER_SIZE => x.ptr + x.size <= w.ptr
    BY <1>3
  <2>3. b.addr + HEAP_HEADER_SIZE <= w.ptr
    BY <1>2, SMTT(60)
  <2> QED
    BY <1>1, <1>2, <1>5, <2>1, <2>2, <2>3, WriteSpare DEF Rewrites
<1>10. MemOK(m2, B, U \cup {g}, stk)
  BY <1>4, <1>9 DEF MemOK
<1> QED
  BY <1>1, <1>8, <1>10 DEF HeapOK, U, g

\* Headers and grants lie in the heap.
LEMMA InsideCover ==
  ASSUME NEW B, NEW W, BlocksOK(B), Held(B, W)
  PROVE  /\ \A b \in B : Bytes(b.addr, SIZEOF_BLOCK) \subseteq Cover(B)
         /\ \A w \in W : Bytes(w.ptr, w.size) \subseteq Cover(B)
<1>1. \A b \in B : b \in Block /\ Span(b) \subseteq Cover(B)
  BY SpansApart DEF BlocksOK
<1>2. \A b \in B : Bytes(b.addr, SIZEOF_BLOCK) \subseteq Cover(B)
  BY <1>1, PartsOf
<1>3. ASSUME NEW w \in W PROVE Bytes(w.ptr, w.size) \subseteq Cover(B)
  <2>1. PICK b \in B : Holds(b, w)
    BY DEF Held
  <2> QED
    BY <1>1, <2>1, PartsOf
<1> QED
  BY <1>2, <1>3

\* What nobody reads may change.
LEMMA Forget ==
  ASSUME NEW l, NEW B, NEW m, NEW W, NEW stk, HeapOK(l, B, m, W, stk), NEW m2, NEW kept,
         DOMAIN m2 = DOMAIN m, \A a \in DOMAIN m : a \in kept => m2[a] = m[a],
         \A b \in B : Bytes(b.addr, SIZEOF_BLOCK) \subseteq kept,
         \A w \in W : Bytes(w.ptr, w.size) \subseteq kept, PageBytes(stk) \subseteq kept
  PROVE  HeapOK(l, B, m2, W, stk)
<1>1. /\ BlocksOK(B) /\ GrantsOK(B, W) /\ Held(B, W) /\ MemOK(m, B, W, stk) /\ PoolOK(l, B, stk)
      /\ DOMAIN m = PageBytes(UsablePages)
  BY DEF HeapOK, GrantsOK, MemOK
<1>2. /\ \A b \in B : Bytes(b.addr, SIZEOF_BLOCK) \subseteq DOMAIN m
      /\ \A w \in W : Bytes(w.ptr, w.size) \subseteq DOMAIN m
      /\ PageBytes(stk) \subseteq DOMAIN m
  <2>1. Cover(B) \subseteq DOMAIN m /\ PageBytes(stk) \subseteq DOMAIN m
    BY <1>1, CoverIs
  <2> QED
    BY <1>1, <2>1, InsideCover
<1>3. \A p \in stk : \A a \in Bytes(pmm_phys_to_virt(p), PAGE_SIZE) : a \in PageBytes(stk)
  BY DEF PageBytes
<1>4. MemOK(m2, B, W, stk)
  <2>1. \A b \in B : \A a \in Bytes(b.addr, SIZEOF_BLOCK) : m2[a] = "hdr"
    BY <1>1, <1>2 DEF MemOK
  <2>2. \A w \in W : \A a \in Bytes(w.ptr, w.size) : m2[a] = w.val
    BY <1>1, <1>2 DEF MemOK
  <2>3. \A p \in stk : \A a \in Bytes(pmm_phys_to_virt(p), PAGE_SIZE) : m2[a] = "page"
    BY <1>1, <1>2, <1>3 DEF MemOK
  <2> QED
    BY <1>1, <2>1, <2>2, <2>3 DEF MemOK
<1> QED
  BY <1>1, <1>4 DEF HeapOK

\* The other user takes pages and fills them: the heap notices nothing.
LEMMA UserTakes ==
  ASSUME NEW l, NEW B, NEW m, NEW W, NEW stk, HeapOK(l, B, m, W, stk), NEW k \in Nat, HasRun(l, k)
  PROVE  LET page == pmm_alloc(l, k)
         IN  HeapOK(AfterAlloc(l, k), B, Fill(m, pmm_phys_to_virt(page), k * PAGE_SIZE, "page"),
                    W, stk \cup Run(page, k))
<1> DEFINE page == pmm_alloc(l, k)
           run == Run(page, k)
           l2 == AfterAlloc(l, k)
           m2 == Fill(m, pmm_phys_to_virt(page), k * PAGE_SIZE, "page")
           stk2 == stk \cup run
<1>1. /\ BlocksOK(B) /\ GrantsOK(B, W) /\ Held(B, W) /\ MemOK(m, B, W, stk) /\ PoolOK(l, B, stk)
      /\ DOMAIN m = PageBytes(UsablePages) /\ l \in PageList /\ Distinct(l)
  BY DEF HeapOK, GrantsOK, MemOK, PoolOK
<1>2. /\ l2 \in PageList /\ Distinct(l2) /\ Pages(l2) = Pages(l) \ run /\ run \subseteq Pages(l)
      /\ page \in Nat
  BY <1>1, AllocMoves
<1>3. /\ Pages(l) \subseteq UsablePages /\ stk \subseteq UsablePages /\ Pages(l) \cap stk = {}
      /\ Cover(B) = PageBytes(UsablePages \ (Pages(l) \cup stk)) /\ UsablePages \subseteq Nat
  BY <1>1, UsableAreNat DEF PoolOK
<1>4. PageBytes(run) = Bytes(pmm_phys_to_virt(page), k * PAGE_SIZE)
  BY <1>2, RunBytes DEF Bytes
<1> HIDE DEF page, run, l2
<1>5. PoolOK(l2, B, stk2)
  <2>1. UsablePages \ (Pages(l2) \cup stk2) = UsablePages \ (Pages(l) \cup stk)
    BY <1>2
  <2>2. Pages(l2) \cup stk2 \subseteq UsablePages /\ Pages(l2) \cap stk2 = {}
    BY <1>2, <1>3
  <2>3. Cover(B) = PageBytes(UsablePages \ (Pages(l2) \cup stk2))
    BY <1>3, <2>1
  <2> QED
    BY <1>2, <2>2, <2>3 DEF PoolOK
<1>6. /\ DOMAIN m2 = DOMAIN m
      /\ \A a \in DOMAIN m : m2[a] = IF a \in PageBytes(run) THEN "page" ELSE m[a]
  BY <1>4, FillIs, SMTT(60)
<1> HIDE DEF m2
<1>7. /\ Cover(B) \subseteq DOMAIN m /\ PageBytes(stk) \subseteq DOMAIN m
      /\ PageBytes(run) \subseteq DOMAIN m
  <2>1. PageBytes(run) \subseteq PageBytes(UsablePages)
    BY <1>2, <1>3 DEF PageBytes
  <2> QED
    BY <1>1, <2>1, CoverIs
<1>8. Cover(B) \cap PageBytes(run) = {} /\ PageBytes(stk) \cap PageBytes(run) = {}
  <2>1. stk \in SUBSET Nat /\ run \in SUBSET Nat /\ stk \cap run = {}
    BY <1>2, <1>3
  <2>2. PageBytes(run) \subseteq PageBytes(Pages(l))
    BY <1>2 DEF PageBytes
  <2>3. Cover(B) \cap PageBytes(Pages(l)) = {}
    BY <1>1, CoverIs
  <2> QED
    BY <2>1, <2>2, <2>3, PageBytesApart
<1>9. MemOK(m2, B, W, stk2)
  <2>1. \A a \in Cover(B) \cup PageBytes(stk) : m2[a] = m[a]
    BY <1>6, <1>7, <1>8
  <2>2. \A a \in PageBytes(run) : m2[a] = "page"
    BY <1>6, <1>7
  <2>3. \A b \in B : \A a \in Bytes(b.addr, SIZEOF_BLOCK) : m2[a] = "hdr"
    BY <1>1, <2>1, InsideCover DEF MemOK
  <2>4. \A w \in W : \A a \in Bytes(w.ptr, w.size) : m2[a] = w.val
    BY <1>1, <2>1, InsideCover DEF MemOK
  <2>5. \A p \in stk : \A a \in Bytes(pmm_phys_to_virt(p), PAGE_SIZE) : m2[a] = "page"
    BY <1>1, <2>1 DEF MemOK, PageBytes
  <2>6. \A p \in run : \A a \in Bytes(pmm_phys_to_virt(p), PAGE_SIZE) : m2[a] = "page"
    BY <2>2 DEF PageBytes
  <2> QED
    BY <1>1, <1>6, <2>3, <2>4, <2>5, <2>6 DEF MemOK
<1> QED
  BY <1>1, <1>5, <1>9 DEF HeapOK, l2, m2, run, page

\* The other user returns pages.
LEMMA UserReturns ==
  ASSUME NEW l, NEW B, NEW m, NEW W, NEW stk, HeapOK(l, B, m, W, stk), NEW k \in Nat,
         NEW page \in stk, Run(page, k) \subseteq stk
  PROVE  HeapOK(pmm_free(l, page, k), B, m, W, stk \ Run(page, k))
<1> DEFINE run == Run(page, k)
           l2 == pmm_free(l, page, k)
           stk2 == stk \ run
<1>1. /\ BlocksOK(B) /\ GrantsOK(B, W) /\ MemOK(m, B, W, stk) /\ PoolOK(l, B, stk)
      /\ l \in PageList /\ Distinct(l)
  BY DEF HeapOK, PoolOK
<1>2. /\ Pages(l) \cup stk \subseteq UsablePages /\ Pages(l) \cap stk = {}
      /\ Cover(B) = PageBytes(UsablePages \ (Pages(l) \cup stk)) /\ page \in Nat \ {0}
  BY <1>1, UsableAreNat DEF PoolOK
<1>3. run \cap Pages(l) = {}
  BY <1>2
<1>4. l2 \in PageList /\ Distinct(l2) /\ Pages(l2) = Pages(l) \cup run
  BY <1>1, <1>2, <1>3, FreeAdds
<1> HIDE DEF l2, run
<1>5. PoolOK(l2, B, stk2)
  <2>1. Pages(l2) \cup stk2 = Pages(l) \cup stk /\ Pages(l2) \cap stk2 = {}
    BY <1>2, <1>4 DEF run
  <2> QED
    BY <1>2, <1>4, <2>1 DEF PoolOK
<1>6. MemOK(m, B, W, stk2)
  BY <1>1 DEF MemOK
<1> QED
  BY <1>1, <1>5, <1>6 DEF HeapOK, l2, run


=============================================================================
