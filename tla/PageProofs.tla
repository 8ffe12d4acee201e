------------------------------ MODULE PageProofs ------------------------------
(***************************************************************************)
(* Proofs about Page: for every size of a page and every list of requests. *)
(*                                                                         *)
(* As long as the list is right, it is laid out well (IInv).  An allocation *)
(* in a gap and that of an empty array make a wrong entry (gc.cpp:776-797); *)
(* what is then still true, of the objects and not of the list (Settled),  *)
(* lasts until something is put where that list says.                      *)
(***************************************************************************)
EXTENDS Page, SequenceTheorems, WellFoundedInduction, TLAPS

Entries == [offset : Bytes, size : 1 .. PageSize]
Regions == [at : 0 .. PageSize, size : 0 .. PageSize]

BytesOf(o) == Requests[o].size * Requests[o].count
Suits(o, at) == at % Requests[o].alignment = 0

\* Entry i is on its way to another place; 0 means that none is.
Spot(list, i, to, k) == IF k = i THEN to ELSE list[k].offset

Ordered(list) ==
    /\ list \in Seq(Entries)
    /\ \A k \in DOMAIN list : list[k].offset + list[k].size <= PageSize
    /\ \A j, k \in DOMAIN list : j < k => list[j].offset + list[j].size <= list[k].offset

\* The place entry i goes to is behind the entries before it, and before its own.
Ahead(list, i, to) ==
    i # 0 => /\ i \in DOMAIN list /\ to \in Nat /\ to < list[i].offset
             /\ \A j \in DOMAIN list : j < i => list[j].offset + list[j].size <= to

\* An entry is the region of the object that the lookup has in its spot.
EntryOf(list, table, regions, i, to, k, o) ==
    /\ o \in Objects /\ table[Spot(list, i, to, k)] = o
    /\ regions[o] = [at |-> list[k].offset, size |-> list[k].size]
    /\ Suits(o, list[k].offset) /\ Suits(o, Spot(list, i, to, k))
    /\ list[k].size = BytesOf(o)

Laid(list, table, regions, i, to) ==
    /\ Ordered(list) /\ Ahead(list, i, to)
    /\ table \in [Addresses -> Objects \cup {None}]
    /\ regions \in [Objects -> Regions]
    /\ \A k \in DOMAIN list : \E o \in Objects : EntryOf(list, table, regions, i, to, k, o)
    /\ \A a \in Addresses : table[a] # None => \E k \in DOMAIN list : a = Spot(list, i, to, k)

\* What ContentsIntact says of the entries.
Filled(list, table, i, to, memory, progress) ==
    \A k \in DOMAIN list : \A o \in Objects :
       table[Spot(list, i, to, k)] = o /\ progress[o] = "done" =>
          \A j \in 0 .. list[k].size - 1 : memory[list[k].offset + j] = <<o, j>>

Locals == [req : Objects \cup {None}, tries : 0 .. 2, compact : BOOLEAN,
           i : Nat \ {0}, last : 0 .. PageSize,
           moving : Objects \cup {None}, to : 0 .. PageSize]

\* TypeOK, apart from what Laid says.
LocalTypes ==
    /\ mem \in [Bytes -> (Objects \cup {None}) \X (0 .. PageSize)]
    /\ construction \in [Objects -> {"none", "done", "failed"}]
    /\ pinned \subseteq owned /\ owned \subseteq Objects
    /\ asked \in 0 .. Len(Requests)
    /\ pc \in {Idle, "try", "id", "collect", "defragment", "relocate"}
    /\ job \in Locals

\* The entry of the object that is being relocated.
Relocating == IF pc = "relocate" THEN job.i ELSE 0

\* Who has been asked for, and who is still to get a place.
Served ==
    /\ owned \subseteq Registered
    /\ Registered \subseteq 1 .. asked
    /\ job.req # None => job.req = asked /\ asked \notin Registered
    /\ pc = "try" => job.req # None
    /\ \A o \in Objects : construction[o] # "none" => o \in 1 .. asked /\ o # job.req

\* How far a defragmentation has come.
Scanned ==
    /\ pc \in {"defragment", "relocate"} =>
          job.i \in 1 .. Len(allocations) + 1 /\ job.last = EndBefore(job.i)
    /\ pc = "relocate" =>
          /\ job.i \in DOMAIN allocations
          /\ job.moving = lookup[job.to] /\ job.moving \notin pinned
          /\ handle[job.moving].at - job.to >= Requests[job.moving].size

\* The inductive invariant.
IInv ==
    /\ LocalTypes
    /\ Laid(allocations, lookup, handle, Relocating, job.to)
    /\ Filled(allocations, lookup, Relocating, job.to, mem, construction)
    /\ Served /\ Scanned /\ fault = {}

-------------------------------------------------------------------------------
(* Multiples and alignment *)

LEMMA Division ==
    ASSUME NEW x \in Int, NEW n \in Nat \ {0}
    PROVE  \E q \in Int : x = n * q + (x % n)
<1>1. x \div n \in Int /\ x = n * (x \div n) + (x % n)
  OBVIOUS
<1>2. PICK q \in Int : q = x \div n
  BY <1>1
<1> QED
  BY <1>1, <1>2

LEMMA MultipleDivides ==
    ASSUME NEW q \in Int, NEW n \in Nat \ {0}
    PROVE  (n * q) % n = 0
OBVIOUS

LEMMA CorrectionFills ==
    ASSUME NEW a \in Nat, NEW n \in Nat \ {0}
    PROVE  /\ Correction(a, n) \in 0 .. n - 1
           /\ \E q \in Int : a + Correction(a, n) = n * q
<1>1. PICK x \in Int : x = -a
  OBVIOUS
<1>2. Correction(a, n) = x % n /\ x % n \in 0 .. n - 1
  BY <1>1 DEF Correction
<1>3. PICK q \in Int : x = n * q + (x % n)
  BY Division
<1>4. PICK p \in Int : p = -q
  OBVIOUS
<1>5. n * q \in Int /\ n * p = -(n * q)
  BY <1>4
<1>6. a + (x % n) = n * p
  <2>1. PICK r \in Int : r = x % n
    BY <1>2
  <2>2. x = n * q + r
    BY <1>3, <2>1
  <2>3. a + r = n * p
    BY <1>1, <1>5, <2>2
  <2> QED
    BY <2>1, <2>3
<1> QED
  BY <1>2, <1>6

\* The corrected address is aligned, and the first one that is.
LEMMA CorrectionAligns ==
    ASSUME NEW a \in Nat, NEW n \in Nat \ {0}
    PROVE  (a + Correction(a, n)) % n = 0
BY CorrectionFills, MultipleDivides

LEMMA CorrectionIsLeast ==
    ASSUME NEW a \in Nat, NEW b \in Nat, NEW n \in Nat \ {0}, b % n = 0, a <= b
    PROVE  a + Correction(a, n) <= b
<1>1. PICK p \in Int : a + Correction(a, n) = n * p
  BY CorrectionFills
<1>2. PICK m \in Int : b = n * m + (b % n)
  <2>1. b \in Int
    OBVIOUS
  <2> QED
    BY <2>1, Division
<1>3. n * m \in Int /\ n * p \in Int /\ b = n * m
  BY <1>2
<1>4. CASE p <= m
  <2>1. n * p <= n * m
    BY <1>4
  <2> QED
    BY <2>1, <1>3, <1>1
<1>5. CASE m + 1 <= p
  <2>1. n * (m + 1) <= n * p
    BY <1>5
  <2>2. n * (m + 1) = n * m + n
    OBVIOUS
  <2>3. Correction(a, n) \in 0 .. n - 1
    BY CorrectionFills
  <2> QED
    BY <2>1, <2>2, <2>3, <1>3, <1>1
<1> QED
  BY <1>4, <1>5

LEMMA NoWrapAround ==
    ASSUME NEW a \in Nat, NEW b \in Nat, b <= a, a < AddressSpace
    PROVE  Minus(a, b) = a - b
<1>1. AddressSpace \in Nat \ {0}
  BY PageAssumption
<1>2. a - b \in Nat /\ a - b < AddressSpace
  BY <1>1
<1> QED
  BY <1>1, <1>2 DEF Minus

-------------------------------------------------------------------------------
(* Requests and entries *)

LEMMA RequestTypes ==
    ASSUME NEW o \in Objects
    PROVE  /\ o \in Nat \ {0} /\ o <= Len(Requests) /\ o # None
           /\ Requests[o].size \in Nat \ {0} /\ Requests[o].alignment \in Nat \ {0}
           /\ Requests[o].count \in Nat /\ BytesOf(o) \in Nat
           /\ Requests[o].count # 0 => BytesOf(o) \in Nat \ {0}
<1>1. Objects = 1 .. Len(Requests) /\ Len(Requests) \in Nat
  BY PageAssumption, LenProperties DEF Objects
<1>2. Requests[o] \in [size : Nat \ {0}, alignment : Nat \ {0}, count : Nat,
                       movable : BOOLEAN, throws : BOOLEAN]
  BY <1>1, PageAssumption, ElementOfSeq
<1>3. /\ Requests[o].size \in Nat \ {0} /\ Requests[o].alignment \in Nat \ {0}
      /\ Requests[o].count \in Nat
  BY <1>2
<1>4. BytesOf(o) \in Nat
  BY <1>3 DEF BytesOf
<1>5. ASSUME Requests[o].count # 0 PROVE BytesOf(o) # 0
  BY <1>3, <1>5 DEF BytesOf
<1> QED
  BY <1>1, <1>3, <1>4, <1>5 DEF None

LEMMA EntryTypes ==
    ASSUME NEW list, Ordered(list), NEW k \in DOMAIN list
    PROVE  /\ Len(list) \in Nat /\ DOMAIN list = 1 .. Len(list) /\ k \in Nat \ {0}
           /\ list[k] \in Entries
           /\ list[k] = [offset |-> list[k].offset, size |-> list[k].size]
           /\ list[k].offset \in Nat /\ list[k].offset < PageSize
           /\ list[k].size \in Nat \ {0} /\ list[k].offset + list[k].size <= PageSize
           /\ PageSize \in Nat \ {0}
<1>1. list \in Seq(Entries)
  BY DEF Ordered
<1>2. Len(list) \in Nat /\ DOMAIN list = 1 .. Len(list) /\ list[k] \in Entries
  BY <1>1, LenProperties, ElementOfSeq
<1>3. PageSize \in Nat \ {0}
  BY PageAssumption
<1> QED
  BY <1>2, <1>3 DEF Ordered, Entries, Bytes

\* Where things are is told apart by their spots.
LEMMA SpotsDiffer ==
    ASSUME NEW list, NEW i, NEW to, Ordered(list), Ahead(list, i, to),
           NEW k \in DOMAIN list
    PROVE  /\ Spot(list, i, to, k) \in Addresses
           /\ \A j \in DOMAIN list : j # k =>
                 list[j].offset # list[k].offset /\ Spot(list, i, to, j) # Spot(list, i, to, k)
<1>1. /\ \A j \in DOMAIN list : /\ j \in Nat /\ list[j].offset \in Nat /\ list[j].offset < PageSize
                                /\ list[j].size \in Nat \ {0}
      /\ PageSize \in Nat
  BY EntryTypes
<1>2. \A j, m \in DOMAIN list : j < m => list[j].offset + list[j].size <= list[m].offset
  BY DEF Ordered
<1>3. i # 0 => /\ i \in DOMAIN list /\ to \in Nat /\ to < list[i].offset
               /\ \A j \in DOMAIN list : j < i => list[j].offset + list[j].size <= to
  BY DEF Ahead
<1>4. k # 0
  BY EntryTypes
<1>5. Spot(list, i, to, k) \in Addresses
  BY <1>1, <1>3, <1>4 DEF Spot, Addresses
<1>6. ASSUME NEW j \in DOMAIN list, j # k
      PROVE  list[j].offset # list[k].offset /\ Spot(list, i, to, j) # Spot(list, i, to, k)
  <2>1. j # 0
    BY EntryTypes
  <2>2. CASE j < k
    BY <1>1, <1>2, <1>3, <1>4, <2>1, <2>2 DEF Spot
  <2>3. CASE k < j
    BY <1>1, <1>2, <1>3, <1>4, <2>1, <2>3 DEF Spot
  <2> QED
    BY <1>1, <1>6, <2>2, <2>3
<1> QED
  BY <1>5, <1>6

\* An object has one entry.
LEMMA OwnersDiffer ==
    ASSUME NEW list, NEW table, NEW regions, NEW i, NEW to,
           Laid(list, table, regions, i, to),
           NEW j \in DOMAIN list, NEW k \in DOMAIN list, NEW o,
           table[Spot(list, i, to, j)] = o, table[Spot(list, i, to, k)] = o
    PROVE  j = k
<1>1. /\ EntryOf(list, table, regions, i, to, j, o)
      /\ EntryOf(list, table, regions, i, to, k, o)
  BY DEF Laid, EntryOf
<1>2. list[j].offset = list[k].offset
  BY <1>1 DEF EntryOf
<1> QED
  BY <1>2, SpotsDiffer DEF Laid

-------------------------------------------------------------------------------
(* What the operations of a page make of a list that is laid out well      *)

\* A region behind all entries.
Behind(list, at) == \A k \in DOMAIN list : list[k].offset + list[k].size <= at

Put(table, at, o) == [table EXCEPT ![at] = o]

LEMMA AppendOrdered ==
    ASSUME NEW list, Ordered(list), NEW e \in Entries, Behind(list, e.offset),
           e.offset + e.size <= PageSize
    PROVE  Ordered(Append(list, e))
<1> DEFINE new == Append(list, e)
<1>1. list \in Seq(Entries)
  BY DEF Ordered
<1>2. /\ Len(list) \in Nat /\ DOMAIN list = 1 .. Len(list)
      /\ new \in Seq(Entries) /\ Len(new) = Len(list) + 1
      /\ \A k \in 1 .. Len(list) : new[k] = list[k]
      /\ new[Len(list) + 1] = e
  BY <1>1, LenProperties, AppendProperties
<1>3. DOMAIN new = 1 .. Len(list) + 1
  BY <1>2, LenProperties
<1> HIDE DEF new
<1>4. \A k \in DOMAIN new : new[k].offset + new[k].size <= PageSize
  <2> SUFFICES ASSUME NEW k \in DOMAIN new PROVE new[k].offset + new[k].size <= PageSize
    OBVIOUS
  <2>1. CASE k \in DOMAIN list
    BY <2>1, <1>2 DEF Ordered
  <2>2. CASE k = Len(list) + 1
    BY <2>2, <1>2
  <2> QED
    BY <1>2, <1>3, <2>1, <2>2
<1>5. \A j, k \in DOMAIN new : j < k => new[j].offset + new[j].size <= new[k].offset
  <2> SUFFICES ASSUME NEW j \in DOMAIN new, NEW k \in DOMAIN new, j < k
               PROVE  new[j].offset + new[j].size <= new[k].offset
    OBVIOUS
  <2>1. j \in DOMAIN list
    BY <1>2, <1>3
  <2>2. CASE k \in DOMAIN list
    BY <2>1, <2>2, <1>2 DEF Ordered
  <2>3. CASE k = Len(list) + 1
    BY <2>1, <2>3, <1>2 DEF Behind
  <2> QED
    BY <1>2, <1>3, <2>2, <2>3
<1>6. new \in Seq(Entries)
  BY <1>2 DEF new
<1> QED
  BY <1>4, <1>5, <1>6 DEF Ordered, new

\* page::TryAllocate at the end of the page, and RegisterObject.
LEMMA AppendLaid ==
    ASSUME NEW list, NEW table, NEW regions, Laid(list, table, regions, 0, 0),
           NEW at \in Nat, NEW size \in Nat \ {0}, NEW o \in Objects,
           Behind(list, at), at + size <= PageSize,
           \A a \in Addresses : table[a] # o,
           Suits(o, at), size = BytesOf(o)
    PROVE  /\ table[at] = None
           /\ Laid(Append(list, [offset |-> at, size |-> size]), Put(table, at, o),
                   Put(regions, o, [at |-> at, size |-> size]), 0, 0)
<1>1. Ordered(list)
  BY DEF Laid
<1> DEFINE e == [offset |-> at, size |-> size]
           new == Append(list, e)
           r == [at |-> at, size |-> size]
<1>2. PageSize \in Nat \ {0}
  BY PageAssumption
<1>3. e \in Entries /\ r \in Regions /\ at \in Addresses
  BY <1>2 DEF Entries, Bytes, Regions, Addresses
<1>4. Ordered(new)
  BY <1>1, <1>3, AppendOrdered
<1>5. /\ Len(list) \in Nat /\ DOMAIN list = 1 .. Len(list)
      /\ \A k \in DOMAIN list : new[k] = list[k] /\ k # Len(list) + 1
      /\ new[Len(list) + 1] = e /\ DOMAIN new = DOMAIN list \cup {Len(list) + 1}
  <2>1. list \in Seq(Entries)
    BY <1>1 DEF Ordered
  <2>2. /\ new \in Seq(Entries) /\ Len(new) = Len(list) + 1
        /\ \A k \in 1 .. Len(list) : new[k] = list[k]
        /\ new[Len(list) + 1] = e
    BY <2>1, <1>3, AppendProperties
  <2>3. Len(list) \in Nat /\ DOMAIN list = 1 .. Len(list) /\ DOMAIN new = 1 .. Len(list) + 1
    BY <2>1, <2>2, LenProperties
  <2> QED
    BY <2>2, <2>3
<1> HIDE DEF e, new, r
<1>6. \A k \in DOMAIN list : Spot(list, 0, 0, k) \in Addresses /\ list[k].offset \in Addresses
                             /\ list[k].offset # at /\ Spot(list, 0, 0, k) = list[k].offset
  <2> SUFFICES ASSUME NEW k \in DOMAIN list
               PROVE  Spot(list, 0, 0, k) \in Addresses /\ list[k].offset \in Addresses
                      /\ list[k].offset # at /\ Spot(list, 0, 0, k) = list[k].offset
    OBVIOUS
  <2>1. k # 0 /\ list[k].offset \in Nat /\ list[k].size \in Nat \ {0}
    BY <1>1, EntryTypes
  <2>2. Spot(list, 0, 0, k) \in Addresses
    BY <1>1, SpotsDiffer DEF Laid
  <2> QED
    BY <2>1, <2>2 DEF Spot, Behind
<1>7. table \in [Addresses -> Objects \cup {None}] /\ regions \in [Objects -> Regions]
  BY DEF Laid
<1>8. table[at] = None
  <2>1. ASSUME table[at] # None PROVE FALSE
    <3>1. PICK k \in DOMAIN list : at = Spot(list, 0, 0, k)
      BY <2>1, <1>3 DEF Laid
    <3> QED
      BY <3>1, <1>6
  <2> QED
    BY <2>1
<1>9. /\ Put(table, at, o) \in [Addresses -> Objects \cup {None}]
      /\ Put(table, at, o)[at] = o
      /\ \A a \in Addresses : a # at => Put(table, at, o)[a] = table[a]
  BY <1>3, <1>7 DEF Put
<1>10. /\ Put(regions, o, r) \in [Objects -> Regions]
       /\ Put(regions, o, r)[o] = r
       /\ \A x \in Objects : x # o => Put(regions, o, r)[x] = regions[x]
  BY <1>3, <1>7 DEF Put
<1>11. Len(list) + 1 # 0
  BY <1>5
<1>12. \A k \in DOMAIN new : k # 0 /\ Spot(new, 0, 0, k) = new[k].offset
  <2>1. \A k \in DOMAIN list : k # 0
    BY <1>5
  <2> QED
    BY <2>1, <1>5, <1>11 DEF Spot
<1>13. ASSUME NEW k \in DOMAIN new
       PROVE  \E x \in Objects : EntryOf(new, Put(table, at, o), Put(regions, o, r), 0, 0, k, x)
  <2>1. CASE k \in DOMAIN list
    <3>1. PICK x \in Objects : EntryOf(list, table, regions, 0, 0, k, x)
      BY <2>1 DEF Laid
    <3>2. x # o
      BY <2>1, <3>1, <1>6 DEF EntryOf
    <3>3. new[k] = list[k] /\ Spot(new, 0, 0, k) = list[k].offset /\ Spot(list, 0, 0, k) = list[k].offset
      BY <2>1, <1>5, <1>6, <1>12
    <3>4. Put(table, at, o)[list[k].offset] = table[list[k].offset]
      BY <2>1, <1>6, <1>9
    <3>5. Put(regions, o, r)[x] = regions[x]
      BY <3>2, <1>10
    <3>6. EntryOf(new, Put(table, at, o), Put(regions, o, r), 0, 0, k, x)
      BY <3>1, <3>3, <3>4, <3>5 DEF EntryOf
    <3> QED
      BY <3>6
  <2>2. CASE k = Len(list) + 1
    <3>1. new[k].offset = at /\ new[k].size = size /\ Spot(new, 0, 0, k) = at
      BY <2>2, <1>5, <1>12 DEF e
    <3>2. EntryOf(new, Put(table, at, o), Put(regions, o, r), 0, 0, k, o)
      BY <3>1, <1>9, <1>10 DEF EntryOf, r
    <3> QED
      BY <3>2
  <2> QED
    BY <1>5, <2>1, <2>2
<1>14. ASSUME NEW a \in Addresses, Put(table, at, o)[a] # None
       PROVE  \E k \in DOMAIN new : a = Spot(new, 0, 0, k)
  <2>1. CASE a = at
    <3>1. Len(list) + 1 \in DOMAIN new /\ Spot(new, 0, 0, Len(list) + 1) = at
      BY <1>5, <1>12 DEF e
    <3> QED
      BY <2>1, <3>1
  <2>2. CASE a # at
    <3>1. table[a] # None
      BY <2>2, <1>9, <1>14
    <3>2. PICK k \in DOMAIN list : a = Spot(list, 0, 0, k)
      BY <3>1 DEF Laid
    <3>3. k \in DOMAIN new /\ Spot(new, 0, 0, k) = a
      BY <3>2, <1>5, <1>6, <1>12
    <3> QED
      BY <3>3
  <2> QED
    BY <2>1, <2>2
<1>15. Ahead(new, 0, 0)
  BY DEF Ahead
<1>16. Laid(new, Put(table, at, o), Put(regions, o, r), 0, 0)
  BY <1>4, <1>9, <1>10, <1>13, <1>14, <1>15 DEF Laid
<1> QED
  BY <1>8, <1>16 DEF new, e, r

\* RemoveFirst finds the entry it is asked to remove.
LEMMA Segment ==
    ASSUME NEW list, NEW m \in Int, NEW n \in Int, \A j \in m .. n : list[j] \in Entries,
           NEW c, c = SubSeq(list, m, n)
    PROVE  /\ c \in Seq(Entries) /\ Len(c) = IF m <= n THEN n - m + 1 ELSE 0
           /\ \A j \in 1 .. n - m + 1 : c[j] = list[m + j - 1]
BY SubSeqProperties

LEMMA WithoutEntry ==
    ASSUME NEW list, Ordered(list), NEW k \in DOMAIN list, NEW region,
           region = [at |-> list[k].offset, size |-> list[k].size]
    PROVE  /\ Without(list, region) \in Seq(Entries)
           /\ Len(Without(list, region)) = Len(list) - 1
           /\ \A j \in 1 .. Len(list) - 1 :
                 Without(list, region)[j] = IF j < k THEN list[j] ELSE list[j + 1]
<1>1. list \in Seq(Entries)
  BY DEF Ordered
<1>2. Len(list) \in Nat /\ DOMAIN list = 1 .. Len(list)
      /\ \A j \in DOMAIN list : list[j] \in Entries
  BY <1>1, LenProperties, ElementOfSeq
<1>3. PICK e : e = [offset |-> region.at, size |-> region.size] /\ e = list[k]
  BY EntryTypes
<1>4. \A j \in DOMAIN list : list[j] = list[k] => j = k
  <2>1. Ahead(list, 0, 0)
    BY DEF Ahead
  <2> QED
    BY <2>1, SpotsDiffer
<1>5. SelectInSeq(list, LAMBDA v : v = e) = k
  <2>1. {j \in 1 .. Len(list) : list[j] = e} = {k}
    BY <1>2, <1>3, <1>4
  <2>2. Min({k}) = k
    <3>1. \A x \in {k} : k <= x
      BY <1>2
    <3>2. \A x \in {k} : x = k
      OBVIOUS
    <3> QED
      BY <3>1, <3>2 DEF Min
  <2> QED
    BY <2>1, <2>2 DEF SelectInSeq
<1>6. Without(list, region) = RemoveAt(list, k)
  <2>1. \E j \in 1 .. Len(list) : list[j] = e
    BY <1>2, <1>3
  <2>2. RemoveFirst(list, e) = RemoveAt(list, k)
    BY <1>5, <2>1 DEF RemoveFirst
  <2> QED
    BY <1>3, <2>2 DEF Without
<1>a. PICK a : a = SubSeq(list, 1, k - 1)
  OBVIOUS
<1>b. PICK b : b = SubSeq(list, k + 1, Len(list))
  OBVIOUS
<1>7. /\ a \in Seq(Entries) /\ Len(a) = k - 1 /\ \A j \in 1 .. k - 1 : a[j] = list[j]
  <2>1. \A j \in 1 .. k - 1 : list[j] \in Entries
    BY <1>2
  <2>2. PICK first \in Int, end \in Int :
           first = 1 /\ end = k - 1 /\ a = SubSeq(list, first, end)
    BY <1>2, <1>a
  <2>3. /\ a \in Seq(Entries) /\ Len(a) = IF first <= end THEN end - first + 1 ELSE 0
        /\ \A j \in 1 .. end - first + 1 : a[j] = list[first + j - 1]
    BY <2>1, <2>2, Segment
  <2>4. \A j \in 1 .. k - 1 : j \in 1 .. end - first + 1 /\ first + j - 1 = j
    BY <1>2, <2>2
  <2> QED
    BY <1>2, <2>2, <2>3, <2>4
<1>8. /\ b \in Seq(Entries) /\ Len(b) = Len(list) - k
      /\ \A j \in 1 .. Len(list) - k : b[j] = list[k + j]
  <2>1. PICK first : first = k + 1
    OBVIOUS
  <2>2. PICK end : end = Len(list)
    OBVIOUS
  <2>3. first \in Int /\ end \in Int /\ \A j \in first .. end : list[j] \in Entries
    BY <1>2, <2>1, <2>2
  <2>4. b = SubSeq(list, first, end)
    BY <1>b, <2>1, <2>2
  <2>5. /\ b \in Seq(Entries) /\ Len(b) = IF first <= end THEN end - first + 1 ELSE 0
        /\ \A j \in 1 .. end - first + 1 : b[j] = list[first + j - 1]
    BY <2>3, <2>4, Segment
  <2>6. Len(list) - k \in Nat /\ end - first + 1 = Len(list) - k
    BY <1>2, <2>1, <2>2
  <2>7. \A j \in 1 .. Len(list) - k : first + j - 1 = k + j
    BY <1>2, <2>1
  <2>8. first <= end => end - first + 1 = Len(list) - k
    BY <2>6
  <2>9. ~(first <= end) => Len(list) - k = 0
    BY <1>2, <2>1, <2>2
  <2> QED
    BY <2>5, <2>6, <2>7, <2>8, <2>9
<1>9. /\ a \o b \in Seq(Entries) /\ Len(a \o b) = Len(a) + Len(b)
      /\ \A j \in 1 .. Len(a) + Len(b) : (a \o b)[j] = IF j <= Len(a) THEN a[j] ELSE b[j - Len(a)]
  BY <1>7, <1>8, ConcatProperties
<1>10. RemoveAt(list, k) = a \o b
  BY <1>a, <1>b DEF RemoveAt
<1>11. \A j \in 1 .. Len(list) - 1 : (a \o b)[j] = IF j < k THEN list[j] ELSE list[j + 1]
  <2> SUFFICES ASSUME NEW j \in 1 .. Len(list) - 1
               PROVE  (a \o b)[j] = IF j < k THEN list[j] ELSE list[j + 1]
    OBVIOUS
  <2>1. j \in 1 .. Len(a) + Len(b)
    BY <1>2, <1>7, <1>8
  <2>2. CASE j < k
    BY <1>2, <1>7, <1>9, <2>1, <2>2
  <2>3. CASE k <= j
    <3>1. j - (k - 1) \in 1 .. Len(list) - k /\ k + (j - (k - 1)) = j + 1 /\ ~(j <= k - 1)
      BY <1>2, <2>3
    <3>2. (a \o b)[j] = b[j - (k - 1)]
      BY <3>1, <1>7, <1>9, <2>1
    <3> QED
      BY <1>2, <1>8, <2>3, <3>1, <3>2
  <2>4. j \in Nat /\ k \in Nat
    BY <1>2
  <2>5. j < k \/ k <= j
    BY <2>4
  <2> QED
    BY <2>2, <2>3, <2>5
<1>12. Len(a \o b) = Len(list) - 1
  BY <1>2, <1>7, <1>8, <1>9
<1>13. Without(list, region) = a \o b
  BY <1>6, <1>10
<1> QED
  BY <1>9, <1>11, <1>12, <1>13

\* DestroyObject: the entry and what the lookup has for it are gone.
LEMMA RemoveLaid ==
    ASSUME NEW list, NEW table, NEW regions, Laid(list, table, regions, 0, 0),
           NEW k \in DOMAIN list, NEW region,
           region = [at |-> list[k].offset, size |-> list[k].size]
    PROVE  Laid(Without(list, region), Put(table, list[k].offset, None), regions, 0, 0)
<1> DEFINE new == Without(list, region)
           old(j) == IF j < k THEN j ELSE j + 1
<1>1. Ordered(list) /\ Ahead(list, 0, 0)
  BY DEF Laid
<1>2. /\ new \in Seq(Entries) /\ Len(new) = Len(list) - 1
      /\ \A j \in 1 .. Len(list) - 1 : new[j] = IF j < k THEN list[j] ELSE list[j + 1]
  BY <1>1, WithoutEntry
<1>3. Len(list) \in Nat /\ DOMAIN list = 1 .. Len(list) /\ k \in Nat \ {0} /\ k <= Len(list)
  BY <1>1, EntryTypes
<1>4. DOMAIN new = 1 .. Len(list) - 1
  BY <1>2, LenProperties
<1> HIDE DEF new
<1>5. \A j \in DOMAIN new : /\ new[j] = list[old(j)] /\ old(j) \in DOMAIN list /\ old(j) # k
                            /\ j # 0 /\ old(j) # 0
  BY <1>2, <1>3, <1>4
<1>6. \A j, m \in DOMAIN new : j < m => old(j) < old(m)
  BY <1>3, <1>4
<1>7. \A m \in DOMAIN list : m # k => \E j \in DOMAIN new : old(j) = m
  <2> SUFFICES ASSUME NEW m \in DOMAIN list, m # k PROVE \E j \in DOMAIN new : old(j) = m
    OBVIOUS
  <2>1. CASE m < k
    <3>1. m \in DOMAIN new
      BY <1>3, <1>4, <2>1
    <3> QED
      BY <2>1, <3>1
  <2>2. CASE k < m
    <3>1. m - 1 \in DOMAIN new /\ ~(m - 1 < k) /\ (m - 1) + 1 = m
      BY <1>3, <1>4, <2>2
    <3> QED
      BY <3>1
  <2> QED
    BY <1>3, <2>1, <2>2
<1> HIDE DEF old
<1>8. Ordered(new)
  <2>1. \A j \in DOMAIN new : new[j].offset + new[j].size <= PageSize
    BY <1>1, <1>5 DEF Ordered
  <2>2. \A j, m \in DOMAIN new : j < m => new[j].offset + new[j].size <= new[m].offset
    BY <1>1, <1>5, <1>6 DEF Ordered
  <2>3. new \in Seq(Entries)
    BY <1>2 DEF new
  <2> QED
    BY <2>1, <2>2, <2>3 DEF Ordered
<1>9. \A m \in DOMAIN list : /\ Spot(list, 0, 0, m) = list[m].offset
                             /\ list[m].offset \in Addresses
                             /\ m # k => list[m].offset # list[k].offset
  <2> SUFFICES ASSUME NEW m \in DOMAIN list
               PROVE  /\ Spot(list, 0, 0, m) = list[m].offset
                      /\ list[m].offset \in Addresses
                      /\ m # k => list[m].offset # list[k].offset
    OBVIOUS
  <2>1. m # 0
    BY <1>3
  <2>2. Spot(list, 0, 0, m) = list[m].offset
    BY <2>1 DEF Spot
  <2>3. Spot(list, 0, 0, m) \in Addresses
    BY <1>1, SpotsDiffer
  <2>4. m # k => list[m].offset # list[k].offset
    BY <1>1, SpotsDiffer
  <2> QED
    BY <2>2, <2>3, <2>4
<1>10. table \in [Addresses -> Objects \cup {None}] /\ regions \in [Objects -> Regions]
  BY DEF Laid
<1> DEFINE bare == Put(table, list[k].offset, None)
<1>11. /\ bare \in [Addresses -> Objects \cup {None}]
       /\ bare[list[k].offset] = None
       /\ \A a \in Addresses : a # list[k].offset => bare[a] = table[a]
  BY <1>9, <1>10 DEF Put
<1> HIDE DEF bare
<1>12. \A j \in DOMAIN new : Spot(new, 0, 0, j) = list[old(j)].offset
  BY <1>5 DEF Spot
<1>13. ASSUME NEW j \in DOMAIN new
       PROVE  \E o \in Objects : EntryOf(new, bare, regions, 0, 0, j, o)
  <2>1. old(j) \in DOMAIN list /\ old(j) # k /\ new[j] = list[old(j)]
    BY <1>5
  <2>2. PICK o \in Objects : EntryOf(list, table, regions, 0, 0, old(j), o)
    BY <2>1 DEF Laid
  <2>3. bare[list[old(j)].offset] = table[list[old(j)].offset]
    BY <2>1, <1>9, <1>11
  <2>4. Spot(list, 0, 0, old(j)) = list[old(j)].offset
    BY <2>1, <1>9
  <2>5. EntryOf(new, bare, regions, 0, 0, j, o)
    BY <2>1, <2>2, <2>3, <2>4, <1>12 DEF EntryOf
  <2> QED
    BY <2>5
<1>14. ASSUME NEW a \in Addresses, bare[a] # None
       PROVE  \E j \in DOMAIN new : a = Spot(new, 0, 0, j)
  <2>1. a # list[k].offset /\ table[a] # None
    BY <1>11, <1>14
  <2>2. PICK m \in DOMAIN list : a = Spot(list, 0, 0, m)
    BY <2>1 DEF Laid
  <2>3. m # k /\ a = list[m].offset
    BY <1>9, <2>1, <2>2
  <2>4. PICK j \in DOMAIN new : old(j) = m
    BY <1>7, <2>3
  <2> QED
    BY <1>12, <2>3, <2>4
<1>15. Ahead(new, 0, 0)
  BY DEF Ahead
<1> QED
  BY <1>8, <1>10, <1>11, <1>13, <1>14, <1>15 DEF Laid, new, bare

\* DefragmentOnPage: the lookup has the entry's next place.
LEMMA BeginLaid ==
    ASSUME NEW list, NEW table, NEW regions, Laid(list, table, regions, 0, 0),
           NEW i \in DOMAIN list, NEW to, Ahead(list, i, to), NEW o \in Objects,
           table[list[i].offset] = o, Suits(o, to)
    PROVE  Laid(list, Put(Put(table, list[i].offset, None), to, o), regions, i, to)
<1> DEFINE new == Put(Put(table, list[i].offset, None), to, o)
<1>1. Ordered(list) /\ Ahead(list, 0, 0)
  BY DEF Laid
<1>2. i # 0
  BY <1>1, EntryTypes
<1>3. \A k \in DOMAIN list : Spot(list, 0, 0, k) = list[k].offset /\ list[k].offset \in Addresses
  <2> SUFFICES ASSUME NEW k \in DOMAIN list
               PROVE  Spot(list, 0, 0, k) = list[k].offset /\ list[k].offset \in Addresses
    OBVIOUS
  <2>1. k # 0
    BY <1>1, EntryTypes
  <2>2. Spot(list, 0, 0, k) \in Addresses
    BY <1>1, SpotsDiffer
  <2> QED
    BY <2>1, <2>2 DEF Spot
<1>4. \A k \in DOMAIN list : /\ Spot(list, i, to, k) \in Addresses
                             /\ k = i => Spot(list, i, to, k) = to
                             /\ k # i => /\ Spot(list, i, to, k) = list[k].offset
                                         /\ list[k].offset # to /\ list[k].offset # list[i].offset
  <2> SUFFICES ASSUME NEW k \in DOMAIN list
               PROVE  /\ Spot(list, i, to, k) \in Addresses
                      /\ k = i => Spot(list, i, to, k) = to
                      /\ k # i => /\ Spot(list, i, to, k) = list[k].offset
                                  /\ list[k].offset # to /\ list[k].offset # list[i].offset
    OBVIOUS
  <2>1. Spot(list, i, to, k) \in Addresses
    BY <1>1, SpotsDiffer
  <2>2. k # i => list[k].offset # list[i].offset
    BY <1>1, SpotsDiffer
  <2>3. k # i => Spot(list, i, to, k) # Spot(list, i, to, i)
    BY <1>1, SpotsDiffer
  <2> QED
    BY <2>1, <2>2, <2>3 DEF Spot
<1>5. table \in [Addresses -> Objects \cup {None}] /\ regions \in [Objects -> Regions]
  BY DEF Laid
<1>6. /\ to \in Addresses /\ to # list[i].offset /\ list[i].offset \in Addresses
  <2>1. to \in Nat /\ to < list[i].offset
    BY <1>2 DEF Ahead
  <2>2. to \in Addresses
    BY <1>4
  <2>3. list[i].offset \in Nat
    BY <1>1, EntryTypes
  <2> QED
    BY <1>3, <2>1, <2>2, <2>3
<1>7. /\ new \in [Addresses -> Objects \cup {None}]
      /\ new[to] = o /\ new[list[i].offset] = None
      /\ \A a \in Addresses : a # to /\ a # list[i].offset => new[a] = table[a]
  BY <1>5, <1>6 DEF Put
<1> HIDE DEF new
<1>8. ASSUME NEW k \in DOMAIN list
      PROVE  \E x \in Objects : EntryOf(list, new, regions, i, to, k, x)
  <2>1. PICK x \in Objects : EntryOf(list, table, regions, 0, 0, k, x)
    BY DEF Laid
  <2>2. Spot(list, 0, 0, k) = list[k].offset
    BY <1>3
  <2>3. CASE k = i
    <3>1. x = o
      BY <2>1, <2>2, <2>3 DEF EntryOf
    <3>2. Spot(list, i, to, k) = to
      BY <1>4, <2>3
    <3>3. EntryOf(list, new, regions, i, to, k, x)
      BY <2>1, <3>1, <3>2, <1>7 DEF EntryOf
    <3> QED
      BY <3>3
  <2>4. CASE k # i
    <3>1. Spot(list, i, to, k) = list[k].offset /\ new[list[k].offset] = table[list[k].offset]
      BY <2>4, <1>3, <1>4, <1>7
    <3>2. EntryOf(list, new, regions, i, to, k, x)
      BY <2>1, <2>2, <3>1 DEF EntryOf
    <3> QED
      BY <3>2
  <2> QED
    BY <2>3, <2>4
<1>9. ASSUME NEW a \in Addresses, new[a] # None
      PROVE  \E k \in DOMAIN list : a = Spot(list, i, to, k)
  <2>1. CASE a = to
    BY <2>1, <1>4
  <2>2. CASE a # to
    <3>1. a # list[i].offset /\ table[a] # None
      BY <2>2, <1>7, <1>9
    <3>2. PICK k \in DOMAIN list : a = Spot(list, 0, 0, k)
      BY <3>1 DEF Laid
    <3>3. k # i /\ a = list[k].offset
      BY <1>3, <3>1, <3>2
    <3> QED
      BY <3>3, <1>4
  <2> QED
    BY <2>1, <2>2
<1> QED
  BY <1>1, <1>5, <1>7, <1>8, <1>9 DEF Laid, new

Moved(list, i, to) == [list EXCEPT ![i].offset = to]

LEMMA MovedEntry ==
    ASSUME NEW list, Ordered(list), NEW i \in DOMAIN list, NEW to, Ahead(list, i, to)
    PROVE  /\ Ordered(Moved(list, i, to)) /\ DOMAIN Moved(list, i, to) = DOMAIN list
           /\ Len(Moved(list, i, to)) = Len(list)
           /\ Moved(list, i, to)[i] = [offset |-> to, size |-> list[i].size]
           /\ \A k \in DOMAIN list : k # i => Moved(list, i, to)[k] = list[k]
<1> DEFINE e == [offset |-> to, size |-> list[i].size]
           new == Moved(list, i, to)
<1>1. list \in Seq(Entries) /\ DOMAIN list = 1 .. Len(list) /\ i # 0
  BY EntryTypes DEF Ordered
<1>2. to \in Nat /\ to < list[i].offset
  BY <1>1 DEF Ahead
<1>3. e \in Entries
  BY <1>2, EntryTypes DEF Entries, Bytes
<1>4. new = [list EXCEPT ![i] = e]
  <2>1. [list[i] EXCEPT !.offset = to] = e
    BY EntryTypes
  <2>2. new = [list EXCEPT ![i] = [list[i] EXCEPT !.offset = to]]
    BY DEF Moved
  <2> QED
    BY <2>1, <2>2
<1> HIDE DEF e, new
<1>5. /\ new \in Seq(Entries) /\ Len(new) = Len(list)
      /\ \A k \in 1 .. Len(list) : new[k] = IF k = i THEN e ELSE list[k]
  BY <1>1, <1>3, <1>4, ExceptSeq
<1>6. DOMAIN new = DOMAIN list
  BY <1>1, <1>5, LenProperties
<1>7. /\ new[i] = e /\ e.offset = to /\ e.size = list[i].size
      /\ \A k \in DOMAIN list : k # i => new[k] = list[k]
  BY <1>1, <1>5 DEF e
<1>8. \A k \in DOMAIN list : /\ k \in Nat /\ list[k].offset \in Nat /\ list[k].size \in Nat
                             /\ list[k].offset + list[k].size <= PageSize /\ PageSize \in Nat
  BY EntryTypes
<1>9. \A k \in DOMAIN new : new[k].offset + new[k].size <= PageSize
  BY <1>2, <1>6, <1>7, <1>8
<1>10. ASSUME NEW j \in DOMAIN new, NEW k \in DOMAIN new, j < k
       PROVE  new[j].offset + new[j].size <= new[k].offset
  <2>1. list[j].offset + list[j].size <= list[k].offset
    BY <1>6, <1>10 DEF Ordered
  <2>2. CASE k = i
    <3>1. list[j].offset + list[j].size <= to /\ j # i
      BY <1>1, <1>6, <1>8, <1>10, <2>2 DEF Ahead
    <3> QED
      BY <3>1, <1>6, <1>7, <2>2
  <2>3. CASE k # i /\ j = i
    BY <2>1, <2>3, <1>2, <1>6, <1>7, <1>8
  <2>4. CASE k # i /\ j # i
    BY <2>1, <2>4, <1>6, <1>7
  <2> QED
    BY <2>2, <2>3, <2>4
<1> QED
  BY <1>5, <1>6, <1>7, <1>9, <1>10 DEF Ordered, new, e

\* RelocateObject: entry and handle have the new place as well.
LEMMA EndLaid ==
    ASSUME NEW list, NEW table, NEW regions, NEW i \in DOMAIN list, NEW to,
           Laid(list, table, regions, i, to), NEW o, o = table[to]
    PROVE  Laid(Moved(list, i, to), table,
                Put(regions, o, [at |-> to, size |-> list[i].size]), 0, 0)
<1> DEFINE r == [at |-> to, size |-> list[i].size]
           new == Moved(list, i, to)
           placed == Put(regions, o, r)
<1>1. Ordered(list) /\ Ahead(list, i, to) /\ regions \in [Objects -> Regions]
      /\ table \in [Addresses -> Objects \cup {None}]
  BY DEF Laid
<1>2. /\ Ordered(new) /\ DOMAIN new = DOMAIN list
      /\ new[i].offset = to /\ new[i].size = list[i].size
      /\ \A k \in DOMAIN list : k # i => new[k] = list[k]
  <2>1. Ordered(new)
    BY <1>1, MovedEntry
  <2>2. DOMAIN new = DOMAIN list
    BY <1>1, MovedEntry
  <2>3. \A k \in DOMAIN list : k # i => new[k] = list[k]
    BY DEF Moved
  <2>4. new[i] = [offset |-> to, size |-> list[i].size]
    BY <1>1, MovedEntry
  <2> QED
    BY <2>1, <2>2, <2>3, <2>4
<1>3. \A k \in DOMAIN list : Spot(new, 0, 0, k) = Spot(list, i, to, k)
                             /\ Spot(new, 0, 0, k) = new[k].offset
  <2>1. \A k \in DOMAIN list : k # 0
    BY <1>1, EntryTypes
  <2> QED
    BY <1>2, <2>1 DEF Spot
<1>4. EntryOf(list, table, regions, i, to, i, o)
  BY DEF Laid, EntryOf, Spot
<1>5. r \in Regions
  <2>1. i # 0 /\ list[i].offset \in Nat /\ list[i].offset < PageSize /\ PageSize \in Nat
        /\ list[i].size \in Nat /\ list[i].offset + list[i].size <= PageSize
    BY <1>1, EntryTypes
  <2>2. to \in Nat /\ to < list[i].offset
    BY <1>1, <2>1 DEF Ahead
  <2> QED
    BY <2>1, <2>2 DEF Regions
<1>6. /\ placed \in [Objects -> Regions] /\ placed[o] = r
      /\ \A x \in Objects : x # o => placed[x] = regions[x]
  BY <1>1, <1>4, <1>5 DEF Put, EntryOf
<1>7. r.at = to /\ r.size = list[i].size
  OBVIOUS
<1> HIDE DEF placed, new, r
<1>8. ASSUME NEW k \in DOMAIN new
      PROVE  \E x \in Objects : EntryOf(new, table, placed, 0, 0, k, x)
  <2>1. PICK x \in Objects : EntryOf(list, table, regions, i, to, k, x)
    BY <1>2 DEF Laid
  <2>2. CASE k = i
    <3>1. x = o
      BY <2>1, <2>2, <1>4 DEF EntryOf
    <3>2. Spot(list, i, to, k) = to
      BY <2>2 DEF Spot
    <3>3. Spot(new, 0, 0, k) = to /\ new[k].offset = to /\ new[k].size = list[k].size
      BY <2>2, <3>2, <1>2, <1>3
    <3>4. placed[x] = [at |-> new[k].offset, size |-> new[k].size]
      BY <2>2, <3>1, <3>3, <1>6 DEF r
    <3>5. EntryOf(new, table, placed, 0, 0, k, x)
      BY <2>1, <3>2, <3>3, <3>4 DEF EntryOf
    <3> QED
      BY <3>5
  <2>3. CASE k # i
    <3>1. x # o
      <4>1. table[Spot(list, i, to, k)] = x /\ table[Spot(list, i, to, i)] = o
        BY <2>1, <1>4 DEF EntryOf
      <4> QED
        BY <4>1, <1>2, <2>3, OwnersDiffer
    <3>2. new[k] = list[k] /\ Spot(new, 0, 0, k) = Spot(list, i, to, k) /\ placed[x] = regions[x]
      BY <2>3, <3>1, <1>2, <1>3, <1>6
    <3>3. EntryOf(new, table, placed, 0, 0, k, x)
      BY <2>1, <3>2 DEF EntryOf
    <3> QED
      BY <3>3
  <2> QED
    BY <2>2, <2>3
<1>9. \A a \in Addresses : table[a] # None => \E k \in DOMAIN new : a = Spot(new, 0, 0, k)
  BY <1>2, <1>3 DEF Laid
<1>10. Ahead(new, 0, 0)
  BY DEF Ahead
<1> QED
  BY <1>1, <1>2, <1>6, <1>8, <1>9, <1>10 DEF Laid, new, placed, r

-------------------------------------------------------------------------------
(* What the invariant says of the properties *)

LEMMA EndBeforeBounds ==
    ASSUME Ordered(allocations), NEW k \in 1 .. Len(allocations) + 1
    PROVE  /\ EndBefore(k) \in 0 .. PageSize
           /\ \A j \in DOMAIN allocations :
                 /\ j < k => allocations[j].offset + allocations[j].size <= EndBefore(k)
                 /\ k <= j => EndBefore(k) <= allocations[j].offset
<1>1. PageSize \in Nat \ {0}
  BY PageAssumption
<1>2. /\ Len(allocations) \in Nat /\ DOMAIN allocations = 1 .. Len(allocations)
  BY LenProperties DEF Ordered
<1>3. \A j \in DOMAIN allocations :
         /\ j \in Nat /\ allocations[j].offset \in Nat /\ allocations[j].size \in Nat
         /\ allocations[j].offset + allocations[j].size <= PageSize
  BY EntryTypes
<1>4. \A i, j \in DOMAIN allocations :
         i < j => allocations[i].offset + allocations[i].size <= allocations[j].offset
  BY DEF Ordered
<1>5. CASE k = 1
  <2>1. EndBefore(k) = 0 /\ \A j \in DOMAIN allocations : ~(j < k)
    BY <1>2, <1>5 DEF EndBefore
  <2> QED
    BY <1>1, <1>3, <2>1
<1>6. CASE k # 1
  <2>1. /\ k - 1 \in DOMAIN allocations
        /\ EndBefore(k) = allocations[k - 1].offset + allocations[k - 1].size
    BY <1>2, <1>6 DEF EndBefore
  <2>2. EndBefore(k) \in 0 .. PageSize
    BY <1>1, <1>3, <2>1
  <2>3. ASSUME NEW j \in DOMAIN allocations, j < k
        PROVE  allocations[j].offset + allocations[j].size <= EndBefore(k)
    <3>1. CASE j = k - 1
      BY <2>1, <2>2, <3>1
    <3>2. CASE j < k - 1
      <4>1. allocations[j].offset + allocations[j].size <= allocations[k - 1].offset
        BY <1>4, <2>1, <3>2
      <4> QED
        BY <4>1, <1>3, <2>1
    <3> QED
      BY <1>2, <2>3, <3>1, <3>2
  <2>4. ASSUME NEW j \in DOMAIN allocations, k <= j
        PROVE  EndBefore(k) <= allocations[j].offset
    BY <1>2, <1>4, <2>1, <2>4
  <2> QED
    BY <2>2, <2>3, <2>4
<1> QED
  BY <1>5, <1>6

LEMMA RegisteredEntry ==
    ASSUME Laid(allocations, lookup, handle, Relocating, job.to), NEW o \in Registered
    PROVE  /\ o \in Objects /\ o # None
           /\ \E k \in DOMAIN allocations :
                 EntryOf(allocations, lookup, handle, Relocating, job.to, k, o)
<1>1. o \in Objects /\ o # None
  BY RequestTypes DEF Registered
<1>2. PICK a \in Addresses : lookup[a] = o
  BY DEF Registered
<1>3. PICK k \in DOMAIN allocations : a = Spot(allocations, Relocating, job.to, k)
  BY <1>1, <1>2 DEF Laid
<1>4. EntryOf(allocations, lookup, handle, Relocating, job.to, k, o)
  BY <1>2, <1>3 DEF Laid, EntryOf
<1> QED
  BY <1>1, <1>4

LEMMA EntryRegistered ==
    ASSUME Laid(allocations, lookup, handle, Relocating, job.to), NEW k \in DOMAIN allocations
    PROVE  \E o \in Registered :
              EntryOf(allocations, lookup, handle, Relocating, job.to, k, o)
<1>1. PICK o \in Objects : EntryOf(allocations, lookup, handle, Relocating, job.to, k, o)
  BY DEF Laid
<1>2. Spot(allocations, Relocating, job.to, k) \in Addresses
  BY SpotsDiffer DEF Laid
<1>3. o \in Registered
  BY <1>1, <1>2 DEF EntryOf, Registered
<1> QED
  BY <1>1, <1>3

LEMMA InvMatches ==
    ASSUME IInv
    PROVE  EntriesMatchHandles
<1>1. Laid(allocations, lookup, handle, Relocating, job.to) /\ Ordered(allocations)
  BY DEF IInv, Laid
<1>2. \A k \in DOMAIN allocations :
         /\ EndBefore(k) <= allocations[k].offset
         /\ allocations[k].offset + allocations[k].size <= PageSize
  <2> SUFFICES ASSUME NEW k \in DOMAIN allocations
               PROVE  /\ EndBefore(k) <= allocations[k].offset
                      /\ allocations[k].offset + allocations[k].size <= PageSize
    OBVIOUS
  <2>1. k \in 1 .. Len(allocations) + 1 /\ k <= k
    BY <1>1, EntryTypes
  <2> QED
    BY <2>1, <1>1, EndBeforeBounds DEF Ordered
<1>3. {[at |-> allocations[k].offset, size |-> allocations[k].size] : k \in DOMAIN allocations}
         = {handle[o] : o \in Registered}
  <2>1. ASSUME NEW k \in DOMAIN allocations
        PROVE  [at |-> allocations[k].offset, size |-> allocations[k].size]
                 \in {handle[o] : o \in Registered}
    <3>1. PICK o \in Registered : EntryOf(allocations, lookup, handle, Relocating, job.to, k, o)
      BY <1>1, EntryRegistered
    <3> QED
      BY <3>1 DEF EntryOf
  <2>2. ASSUME NEW o \in Registered
        PROVE  handle[o] \in {[at |-> allocations[k].offset, size |-> allocations[k].size] :
                                 k \in DOMAIN allocations}
    <3>1. PICK k \in DOMAIN allocations :
             EntryOf(allocations, lookup, handle, Relocating, job.to, k, o)
      BY <1>1, RegisteredEntry
    <3> QED
      BY <3>1 DEF EntryOf
  <2> QED
    BY <2>1, <2>2
<1>4. ASSUME NEW o \in Registered
      PROVE  /\ o # job.moving => lookup[handle[o].at] = o
             /\ handle[o].at % Requests[o].alignment = 0
  <2>1. PICK k \in DOMAIN allocations :
           EntryOf(allocations, lookup, handle, Relocating, job.to, k, o)
    BY <1>1, RegisteredEntry
  <2>2. handle[o].at = allocations[k].offset
    BY <2>1 DEF EntryOf
  <2>3. handle[o].at % Requests[o].alignment = 0
    BY <2>1, <2>2 DEF EntryOf, Suits
  <2>4. ASSUME o # job.moving PROVE lookup[handle[o].at] = o
    <3>1. k # Relocating
      <4>1. ASSUME k = Relocating PROVE FALSE
        <5>1. k # 0
          BY <1>1, EntryTypes
        <5>2. pc = "relocate"
          BY <4>1, <5>1 DEF Relocating
        <5>3. lookup[job.to] = o
          BY <2>1, <4>1 DEF EntryOf, Spot
        <5> QED
          BY <2>4, <5>2, <5>3 DEF IInv, Scanned
      <4> QED
        BY <4>1
    <3>2. Spot(allocations, Relocating, job.to, k) = allocations[k].offset
      BY <3>1 DEF Spot
    <3> QED
      BY <2>1, <2>2, <3>2 DEF EntryOf
  <2> QED
    BY <2>3, <2>4
<1> QED
  BY <1>2, <1>3, <1>4 DEF EntriesMatchHandles

LEMMA InvIntact ==
    ASSUME IInv
    PROVE  ContentsIntact
<1> SUFFICES ASSUME NEW o \in Registered, HasContents(o), NEW j \in 0 .. handle[o].size - 1
             PROVE  mem[handle[o].at + j] = <<o, j>>
  BY DEF ContentsIntact
<1>1. PICK k \in DOMAIN allocations :
         EntryOf(allocations, lookup, handle, Relocating, job.to, k, o)
  BY RegisteredEntry DEF IInv
<1>2. handle[o].at = allocations[k].offset /\ handle[o].size = allocations[k].size
  BY <1>1 DEF EntryOf
<1>3. o \in Objects
  BY <1>1 DEF EntryOf
<1> QED
  BY <1>1, <1>2, <1>3 DEF IInv, Filled, HasContents, EntryOf

\* The address of a byte of a pinned object is the lookup's only for that object,
\* and in the region of no other, unless it is the first byte.
LEMMA InvFinds ==
    ASSUME IInv
    PROVE  FieldsFindOwner
<1> SUFFICES ASSUME NEW o \in pinned, NEW j \in 0 .. handle[o].size - 1
             PROVE  Owners(handle[o].at + j) = {o}
  BY DEF FieldsFindOwner
<1>1. Laid(allocations, lookup, handle, Relocating, job.to) /\ Ordered(allocations)
      /\ Ahead(allocations, Relocating, job.to)
  BY DEF IInv, Laid
<1>2. o \in Registered
  BY DEF IInv, LocalTypes, Served
<1>3. PICK k \in DOMAIN allocations :
         EntryOf(allocations, lookup, handle, Relocating, job.to, k, o)
  BY <1>1, <1>2, RegisteredEntry
<1>4. /\ handle[o].at = allocations[k].offset /\ handle[o].size = allocations[k].size
      /\ o \in Objects /\ o # None
  BY <1>3, <1>1, <1>2, RegisteredEntry DEF EntryOf
<1>5. \A m \in DOMAIN allocations :
         /\ m \in Nat \ {0} /\ allocations[m].offset \in Nat /\ allocations[m].size \in Nat \ {0}
         /\ allocations[m].offset + allocations[m].size <= PageSize /\ PageSize \in Nat
  BY <1>1, EntryTypes
<1>6. k # Relocating
  <2>1. ASSUME k = Relocating PROVE FALSE
    <3>1. pc = "relocate"
      BY <2>1, <1>5 DEF Relocating
    <3>2. lookup[job.to] = o
      BY <1>3, <2>1 DEF EntryOf, Spot
    <3> QED
      BY <3>1, <3>2 DEF IInv, Scanned
  <2> QED
    BY <2>1
<1> DEFINE a == handle[o].at + j
<1>7. /\ a \in Nat /\ allocations[k].offset <= a
      /\ a < allocations[k].offset + allocations[k].size
      /\ a = allocations[k].offset + j /\ j \in Nat
  BY <1>4, <1>5
<1>8. a \in Addresses
  BY <1>5, <1>7 DEF Addresses
<1> HIDE DEF a
<1>9. ASSUME NEW m \in DOMAIN allocations, m # k
      PROVE  Spot(allocations, Relocating, job.to, m) # a
  <2>1. m < k => allocations[m].offset + allocations[m].size <= allocations[k].offset
    BY <1>1 DEF Ordered
  <2>2. k < m => allocations[k].offset + allocations[k].size <= allocations[m].offset
    BY <1>1 DEF Ordered
  <2>3. CASE m # Relocating
    <3>1. Spot(allocations, Relocating, job.to, m) = allocations[m].offset
      BY <2>3 DEF Spot
    <3> QED
      BY <1>5, <1>7, <1>9, <2>1, <2>2, <3>1
  <2>4. CASE m = Relocating
    <3>1. /\ Spot(allocations, Relocating, job.to, m) = job.to /\ m # 0
      BY <2>4, <1>5 DEF Spot
    <3>2. /\ job.to \in Nat /\ job.to < allocations[m].offset
          /\ k < m => allocations[k].offset + allocations[k].size <= job.to
      BY <1>1, <2>4, <3>1 DEF Ahead
    <3> QED
      BY <1>5, <1>7, <1>9, <2>1, <3>1, <3>2
  <2> QED
    BY <2>3, <2>4
<1>10. Spot(allocations, Relocating, job.to, k) = allocations[k].offset
  BY <1>6 DEF Spot
<1>11. CASE lookup[a] # None
  <2>1. PICK m \in DOMAIN allocations : a = Spot(allocations, Relocating, job.to, m)
    BY <1>1, <1>8, <1>11 DEF Laid
  <2>2. m = k
    BY <1>9, <2>1
  <2>3. lookup[a] = o
    BY <1>3, <2>1, <2>2 DEF EntryOf
  <2> QED
    BY <1>11, <2>3 DEF Owners, a
<1>12. CASE lookup[a] = None
  <2>1. allocations[k].offset < a
    <3>1. lookup[allocations[k].offset] = o
      BY <1>3, <1>10 DEF EntryOf
    <3>2. a # allocations[k].offset
      BY <1>4, <1>12, <3>1
    <3> QED
      BY <3>2, <1>5, <1>7
  <2>2. o \in OwningObjects(a)
    BY <1>2, <1>4, <1>5, <1>7 DEF OwningObjects
  <2>3. ASSUME NEW x \in OwningObjects(a)
        PROVE  x = o
    <3>1. x \in Registered /\ handle[x].at <= a /\ a <= handle[x].at + handle[x].size
      BY <2>3 DEF OwningObjects
    <3>2. PICK m \in DOMAIN allocations :
             EntryOf(allocations, lookup, handle, Relocating, job.to, m, x)
      BY <1>1, <3>1, RegisteredEntry
    <3>3. handle[x].at = allocations[m].offset /\ handle[x].size = allocations[m].size
      BY <3>2 DEF EntryOf
    <3>4. m < k => allocations[m].offset + allocations[m].size <= allocations[k].offset
      BY <1>1 DEF Ordered
    <3>5. k < m => allocations[k].offset + allocations[k].size <= allocations[m].offset
      BY <1>1 DEF Ordered
    <3>6. m = k
      BY <1>5, <1>7, <2>1, <3>1, <3>3, <3>4, <3>5
    <3> QED
      BY <3>2, <3>6, <1>3 DEF EntryOf
  <2> QED
    BY <1>12, <2>2, <2>3 DEF Owners, a
<1> QED
  BY <1>11, <1>12 DEF a

-------------------------------------------------------------------------------
(* Moving the elements of an object one after the other *)

\* The library's well-founded order on the naturals, as a set of pairs.
Below == {p \in Nat \X Nat : p[1] < p[2]}

LEMMA LeastNumber ==
    ASSUME NEW S \in SUBSET Nat, S # {}
    PROVE  \E x \in S : \A y \in S : x <= y
<1>1. OpToRel(<, Nat) = Below
  BY DEF OpToRel, Below
<1>2. IsWellFoundedOn(Below, Nat)
  BY <1>1, NatLessThanWellFounded
<1>3. PICK x \in S : \A y \in S : <<y, x>> \notin Below
  BY <1>2, WFMin
<1>4. \A y \in S : ~(y < x)
  BY <1>3 DEF Below
<1>5. x \in Nat /\ \A y \in S : y \in Nat
  OBVIOUS
<1> QED
  BY <1>3, <1>4, <1>5

\* A set of numbers with 0 and the successor of each member has all of them.
LEMMA AllNumbers ==
    ASSUME NEW S, 0 \in S, \A k \in Nat : k \in S => k + 1 \in S
    PROVE  Nat \subseteq S
<1> SUFFICES ASSUME Nat \ S # {} PROVE FALSE
  OBVIOUS
<1>1. PICK x \in Nat \ S : \A y \in Nat \ S : x <= y
  BY LeastNumber
<1>2. x # 0
  OBVIOUS
<1>3. x - 1 \in Nat /\ ~(x <= x - 1) /\ (x - 1) + 1 = x
  BY <1>2
<1>4. x - 1 \in S
  BY <1>1, <1>3
<1> QED
  BY <1>3, <1>4

\* The memory after each element, of n.
NextMemory(f, k, m, source, target, size) ==
    IF k = 0 THEN m
    ELSE MoveElement(f[k - 1], source + (k - 1) * size, target + (k - 1) * size, size)

Steps(m, source, target, size, n) ==
    CHOOSE f : f = [k \in 0 .. n |-> NextMemory(f, k, m, source, target, size)]

LEMMA StepsExist ==
    ASSUME NEW m, NEW source, NEW target, NEW size, NEW n \in Nat
    PROVE  Steps(m, source, target, size, n) =
             [k \in 0 .. n |-> NextMemory(Steps(m, source, target, size, n), k, m, source, target, size)]
<1> DEFINE good == {p \in Nat : \E f : f = [k \in 0 .. p |-> NextMemory(f, k, m, source, target, size)]}
<1>1. 0 \in good
  <2> DEFINE f == [k \in 0 .. 0 |-> m]
  <2>1. f = [k \in 0 .. 0 |-> NextMemory(f, k, m, source, target, size)]
    <3>1. \A k \in 0 .. 0 : NextMemory(f, k, m, source, target, size) = m
      BY DEF NextMemory
    <3> QED
      BY <3>1
  <2> QED
    BY <2>1
<1>2. ASSUME NEW p \in Nat, p \in good PROVE p + 1 \in good
  <2>1. PICK f : f = [k \in 0 .. p |-> NextMemory(f, k, m, source, target, size)]
    BY <1>2
  <2> DEFINE last == MoveElement(f[p], source + p * size, target + p * size, size)
             g == [k \in 0 .. p + 1 |-> IF k = p + 1 THEN last ELSE f[k]]
  <2>2. \A k \in 0 .. p : g[k] = f[k]
    OBVIOUS
  <2>3. g[p + 1] = last
    OBVIOUS
  <2>4. \A k \in 0 .. p : f[k] = NextMemory(f, k, m, source, target, size)
    BY <2>1
  <2> HIDE DEF g
  <2>5. ASSUME NEW k \in 0 .. p + 1
        PROVE  g[k] = NextMemory(g, k, m, source, target, size)
    <3>1. CASE k = p + 1
      <4>1. k # 0 /\ k - 1 = p /\ g[p] = f[p]
        BY <2>2, <3>1
      <4> QED
        BY <2>3, <3>1, <4>1 DEF NextMemory
    <3>2. CASE k \in 0 .. p /\ k # 0
      <4>1. g[k] = f[k] /\ g[k - 1] = f[k - 1]
        BY <2>2, <3>2
      <4> QED
        BY <2>4, <3>2, <4>1 DEF NextMemory
    <3>3. CASE k = 0
      BY <2>2, <2>4, <3>3 DEF NextMemory
    <3> QED
      BY <3>1, <3>2, <3>3
  <2>6. g = [k \in 0 .. p + 1 |-> g[k]]
    BY DEF g
  <2>7. g = [k \in 0 .. p + 1 |-> NextMemory(g, k, m, source, target, size)]
    BY <2>5, <2>6
  <2> QED
    BY <2>7
<1> HIDE DEF good
<1>3. n \in good
  BY <1>1, <1>2, AllNumbers
<1>4. \E f : f = [k \in 0 .. n |-> NextMemory(f, k, m, source, target, size)]
  BY <1>3 DEF good
<1> QED
  BY <1>4 DEF Steps

\* A region of a size has been copied, and nothing outside of it and of its copy
\* has changed.
Carried(old, new, source, target, size) ==
    /\ \A j \in 0 .. size - 1 : new[target + j] = old[source + j]
    /\ \A b \in Bytes : b \notin target .. target + size - 1 /\ b \notin source .. source + size - 1
          => new[b] = old[b]

\* Elements move down by at least one element, so that none is written over
\* before it has moved.
LEMMA StepsMove ==
    ASSUME NEW m, NEW source \in Nat, NEW target \in Nat, NEW size \in Nat \ {0}, NEW n \in Nat,
           source - target >= size, NEW total \in Nat, total = n * size,
           source + total <= PageSize, NEW T, m \in [Bytes -> T], Scrap \in T
    PROVE  /\ Steps(m, source, target, size, n)[n] \in [Bytes -> T]
           /\ Carried(m, Steps(m, source, target, size, n)[n], source, target, total)
<1> DEFINE f == Steps(m, source, target, size, n)
<1>1. \A k \in 0 .. n : f[k] = NextMemory(f, k, m, source, target, size)
  BY StepsExist
<1>2. PageSize \in Nat \ {0}
  BY PageAssumption
<1> HIDE DEF f
<1> DEFINE after(k) ==
             /\ f[k] \in [Bytes -> T]
             /\ \A b \in Bytes : b \in target .. target + k * size - 1 => f[k][b] = m[source + (b - target)]
             /\ \A b \in Bytes : b \notin target .. target + k * size - 1 /\ b \notin source .. source + k * size - 1
                   => f[k][b] = m[b]
           good == {k \in Nat : k <= n => after(k)}
<1>3. 0 \in good
  <2>1. f[0] = m
    BY <1>1 DEF NextMemory
  <2>2. 0 * size = 0
    OBVIOUS
  <2> QED
    BY <2>1, <2>2
<1>4. ASSUME NEW k \in Nat, k \in good PROVE k + 1 \in good
  <2> SUFFICES ASSUME k + 1 <= n PROVE after(k + 1)
    OBVIOUS
  <2>1. after(k)
    <3>1. k <= n
      OBVIOUS
    <3> QED
      BY <3>1, <1>4
  <2>2. PICK x \in Nat : x = k * size
    OBVIOUS
  <2>3. (k + 1) * size = x + size
    BY <2>2
  <2>4. x + size <= total
    <3>1. (k + 1) * size <= n * size
      OBVIOUS
    <3> QED
      BY <2>3, <3>1
  <2>5. f[k + 1] = MoveElement(f[k], source + x, target + x, size)
    <3>1. k + 1 \in 0 .. n /\ k + 1 # 0 /\ (k + 1) - 1 = k
      OBVIOUS
    <3> QED
      BY <1>1, <2>2, <3>1 DEF NextMemory
  <2>6. \A b \in Bytes : f[k + 1][b] =
           IF b \in source + x .. source + x + size - 1 THEN Scrap
           ELSE IF b \in target + x .. target + x + size - 1 THEN f[k][source + x + (b - (target + x))]
           ELSE f[k][b]
    BY <2>5 DEF MoveElement, Within
  <2>7. f[k + 1] \in [Bytes -> T]
    <3>1. ASSUME NEW b \in Bytes PROVE f[k + 1][b] \in T
      <4>1. f[k] \in [Bytes -> T]
        BY <2>1
      <4>2. CASE b \in target + x .. target + x + size - 1
        <5>1. PICK c : c = source + x + (b - (target + x))
          OBVIOUS
        <5>2. c \in Nat /\ c < source + x + size
          BY <4>2, <5>1
        <5>3. PageSize \in Int /\ source + x + size <= source + total
          BY <1>2, <2>4
        <5>4. c < PageSize
          BY <5>2, <5>3
        <5>5. c \in Bytes
          BY <1>2, <5>2, <5>4 DEF Bytes
        <5> QED
          BY <2>6, <4>1, <5>1, <5>5
      <4> QED
        BY <2>6, <4>1, <4>2
    <3>2. f[k + 1] = [b \in Bytes |-> f[k + 1][b]]
      BY <2>5 DEF MoveElement
    <3> QED
      BY <3>1, <3>2
  <2>8. /\ \A b \in Bytes : b \in target .. target + x - 1 => f[k][b] = m[source + (b - target)]
        /\ \A b \in Bytes : b \notin target .. target + x - 1 /\ b \notin source .. source + x - 1
              => f[k][b] = m[b]
    BY <2>1, <2>2
  <2> HIDE DEF after, good
  <2>9. ASSUME NEW b \in Bytes, b \in target .. target + (x + size) - 1
        PROVE  f[k + 1][b] = m[source + (b - target)]
    <3>1. b \in Nat /\ b \notin source + x .. source + x + size - 1
      BY <2>9 DEF Bytes
    <3>2. CASE b \in target .. target + x - 1
      <4>1. b \notin target + x .. target + x + size - 1
        BY <3>1, <3>2
      <4> QED
        BY <2>6, <2>8, <3>1, <3>2, <4>1
    <3>3. CASE b \in target + x .. target + x + size - 1
      <4>1. PICK c \in Bytes : c = source + (b - target) /\ source + x <= c /\ c < source + x + size
        <5>1. /\ source + (b - target) \in Nat /\ source + x <= source + (b - target)
              /\ source + (b - target) < source + x + size
          BY <3>1, <3>3
        <5>2. PICK c : c = source + (b - target)
          OBVIOUS
        <5>3. PageSize \in Int /\ source + x + size <= source + total
          BY <1>2, <2>4
        <5>4. c < PageSize
          BY <5>1, <5>2, <5>3
        <5>5. c \in Bytes
          BY <1>2, <5>1, <5>2, <5>4 DEF Bytes
        <5> QED
          BY <5>1, <5>2, <5>5
      <4>2. source + x + (b - (target + x)) = c
        BY <3>1, <4>1
      <4>3. f[k + 1][b] = f[k][c]
        BY <2>6, <3>1, <3>3, <4>2
      <4>4. c \notin target .. target + x - 1 /\ c \notin source .. source + x - 1
        BY <4>1
      <4> QED
        BY <2>8, <4>1, <4>3, <4>4
    <3> QED
      BY <2>9, <3>2, <3>3
  <2>10. ASSUME NEW b \in Bytes, b \notin target .. target + (x + size) - 1,
                b \notin source .. source + (x + size) - 1
         PROVE  f[k + 1][b] = m[b]
    <3>1. b \in Nat
      BY DEF Bytes
    <3>2. /\ b \notin source + x .. source + x + size - 1 /\ b \notin target + x .. target + x + size - 1
          /\ b \notin target .. target + x - 1 /\ b \notin source .. source + x - 1
      BY <2>10, <3>1
    <3> QED
      BY <2>6, <2>8, <3>2
  <2> QED
    BY <2>3, <2>7, <2>9, <2>10 DEF after
<1> HIDE DEF after, good
<1>5. n \in good
  BY <1>3, <1>4, AllNumbers
<1>6. after(n)
  BY <1>5 DEF good
<1>7. \A j \in 0 .. total - 1 : f[n][target + j] = m[source + j]
  <2> SUFFICES ASSUME NEW j \in 0 .. total - 1 PROVE f[n][target + j] = m[source + j]
    OBVIOUS
  <2>1. PICK b \in Bytes : b = target + j /\ b \in target .. target + total - 1 /\ source + (b - target) = source + j
    BY <1>2 DEF Bytes
  <2> QED
    BY <1>6, <2>1 DEF after
<1>8. Carried(m, f[n], source, target, total)
  BY <1>6, <1>7 DEF after, Carried
<1> QED
  BY <1>6, <1>8 DEF after, f

LEMMA MoveObjectIsSteps ==
    ASSUME NEW o, NEW to
    PROVE  LET n == handle[o].size \div Requests[o].size
           IN  MoveObject(o, to) = Steps(mem, handle[o].at, to, Requests[o].size, n)[n]
BY DEF MoveObject, Steps, NextMemory

-------------------------------------------------------------------------------
(* Steps: what they have in common *)

\* Nothing is being relocated.
AtRest ==
    /\ Laid(allocations, lookup, handle, 0, 0)
    /\ Filled(allocations, lookup, 0, 0, mem, construction)

LEMMA SpotAtRest ==
    ASSUME NEW list, Ordered(list), NEW to, NEW k \in DOMAIN list
    PROVE  Spot(list, 0, to, k) = list[k].offset
<1>1. k # 0
  BY EntryTypes
<1> QED
  BY <1>1 DEF Spot

LEMMA TargetDoesNotMatter ==
    ASSUME NEW list, NEW table, NEW regions, NEW memory, NEW progress, NEW t, NEW u,
           Ordered(list)
    PROVE  /\ Laid(list, table, regions, 0, t) => Laid(list, table, regions, 0, u)
           /\ Laid(list, table, regions, 0, t) /\ Filled(list, table, 0, t, memory, progress)
                => Filled(list, table, 0, u, memory, progress)
<1>1. \A k \in DOMAIN list : Spot(list, 0, t, k) = Spot(list, 0, u, k)
  BY SpotAtRest
<1>2. ASSUME Laid(list, table, regions, 0, t) PROVE Laid(list, table, regions, 0, u)
  <2>1. \A k \in DOMAIN list : \A o \in Objects :
           EntryOf(list, table, regions, 0, t, k, o) => EntryOf(list, table, regions, 0, u, k, o)
    BY <1>1 DEF EntryOf
  <2>2. \A k \in DOMAIN list : \E o \in Objects : EntryOf(list, table, regions, 0, u, k, o)
    BY <1>2, <2>1 DEF Laid
  <2>3. \A a \in Addresses : table[a] # None => \E k \in DOMAIN list : a = Spot(list, 0, u, k)
    BY <1>1, <1>2 DEF Laid
  <2>4. Ahead(list, 0, u)
    BY DEF Ahead
  <2> QED
    BY <1>2, <2>2, <2>3, <2>4 DEF Laid
<1>3. ASSUME Filled(list, table, 0, t, memory, progress)
      PROVE  Filled(list, table, 0, u, memory, progress)
  BY <1>1, <1>3 DEF Filled
<1> QED
  BY <1>2, <1>3

LEMMA RestsUnlessRelocating ==
    ASSUME IInv, pc # "relocate"
    PROVE  AtRest /\ Ordered(allocations)
<1>1. Relocating = 0
  BY DEF Relocating
<1>2. Laid(allocations, lookup, handle, 0, job.to) /\ Ordered(allocations)
      /\ Filled(allocations, lookup, 0, job.to, mem, construction)
  BY <1>1 DEF IInv, Laid
<1> QED
  BY <1>2, TargetDoesNotMatter DEF AtRest

LEMMA RestIsLaid ==
    ASSUME AtRest, pc # "relocate"
    PROVE  /\ Laid(allocations, lookup, handle, Relocating, job.to)
           /\ Filled(allocations, lookup, Relocating, job.to, mem, construction)
<1>1. Relocating = 0 /\ Ordered(allocations)
  BY DEF Relocating, AtRest, Laid
<1> QED
  BY <1>1, TargetDoesNotMatter DEF AtRest

\* At rest, entry k is the region of the object that the lookup has in its place.
LEMMA EntryAtRest ==
    ASSUME AtRest, NEW k \in DOMAIN allocations
    PROVE  LET o == lookup[allocations[k].offset]
           IN  /\ o \in Objects /\ o # None
               /\ handle[o] = [at |-> allocations[k].offset, size |-> allocations[k].size]
               /\ handle[o].at = allocations[k].offset /\ handle[o].size = allocations[k].size
               /\ Suits(o, handle[o].at) /\ handle[o].size = BytesOf(o)
               /\ allocations[k].offset \in Addresses
<1>1. Ordered(allocations) /\ Laid(allocations, lookup, handle, 0, 0)
      /\ Ahead(allocations, 0, 0)
  BY DEF AtRest, Laid
<1>2. PICK o \in Objects : EntryOf(allocations, lookup, handle, 0, 0, k, o)
  BY <1>1 DEF Laid
<1>3. Spot(allocations, 0, 0, k) = allocations[k].offset
      /\ Spot(allocations, 0, 0, k) \in Addresses
  BY <1>1, SpotAtRest, SpotsDiffer
<1>4. lookup[allocations[k].offset] = o /\ o # None
  BY <1>2, <1>3, RequestTypes DEF EntryOf
<1>5. handle[o] = [at |-> allocations[k].offset, size |-> allocations[k].size]
      /\ Suits(o, allocations[k].offset) /\ allocations[k].size = BytesOf(o)
  BY <1>2 DEF EntryOf
<1>6. handle[o].at = allocations[k].offset /\ handle[o].size = allocations[k].size
  BY <1>5
<1> QED
  BY <1>2, <1>3, <1>4, <1>5, <1>6

NoJobFields ==
    /\ NoJob.req = None /\ NoJob.tries = 0 /\ NoJob.compact = FALSE /\ NoJob.i = 1
    /\ NoJob.last = 0 /\ NoJob.moving = None /\ NoJob.to = 0

LEMMA NoJobTyped ==
    /\ NoJobFields
    /\ NoJob \in Locals
<1>1. PageSize \in Nat \ {0}
  BY PageAssumption
<1> QED
  BY <1>1 DEF NoJob, NoJobFields, None, Locals

\* What defragmentation does to its locals.
LEMMA PassTyped ==
    ASSUME job \in Locals, NEW end \in 0 .. PageSize
    PROVE  /\ Pass(end) \in Locals /\ Pass(end).req = job.req
           /\ Pass(end).i = job.i + 1 /\ Pass(end).last = end
<1>1. 0 \in 0 .. PageSize /\ job.i + 1 \in Nat \ {0}
  BY PageAssumption DEF Locals
<1>2. Pass(end) \in Locals
  BY <1>1 DEF Locals, Pass
<1> QED
  BY <1>2 DEF Locals, Pass

TakeUp(j, o, target) == [j EXCEPT !.moving = o, !.to = target]

LEMMA TakeUpTyped ==
    ASSUME NEW j \in Locals, NEW o \in Objects, NEW target \in 0 .. PageSize
    PROVE  /\ TakeUp(j, o, target) \in Locals
           /\ TakeUp(j, o, target).req = j.req /\ TakeUp(j, o, target).i = j.i
           /\ TakeUp(j, o, target).last = j.last
           /\ TakeUp(j, o, target).moving = o /\ TakeUp(j, o, target).to = target
<1>1. TakeUp(j, o, target) \in Locals
  BY DEF Locals, TakeUp
<1> QED
  BY <1>1 DEF Locals, TakeUp

LEMMA InitInv == Init => IInv
<1> SUFFICES ASSUME Init PROVE IInv
  OBVIOUS
<1>1. allocations = << >> /\ DOMAIN allocations = {}
  BY DEF Init
<1>2. PageSize \in Nat \ {0}
  BY PageAssumption
<1>3. allocations \in Seq(Entries) /\ Len(allocations) = 0
  BY <1>1, EmptySeq
<1>4. Ordered(allocations)
  BY <1>1, <1>3 DEF Ordered
<1>5. \A a \in Addresses : lookup[a] = None
  BY DEF Init
<1>6. lookup \in [Addresses -> Objects \cup {None}] /\ handle \in [Objects -> Regions]
  BY <1>2 DEF Init, Regions, Nowhere
<1>7. AtRest
  BY <1>1, <1>4, <1>5, <1>6 DEF AtRest, Laid, Filled, Ahead
<1>8. pc = Idle /\ job = NoJob /\ asked = 0
  BY DEF Init
<1>9. LocalTypes
  <2>1. mem \in [Bytes -> (Objects \cup {None}) \X (0 .. PageSize)]
    BY <1>2 DEF Init, Scrap
  <2>2. asked \in 0 .. Len(Requests)
    BY <1>8, PageAssumption, LenProperties
  <2> QED
    BY <1>8, <2>1, <2>2, NoJobTyped DEF Init, LocalTypes, Idle
<1>10. Registered = {}
  BY <1>5, RequestTypes DEF Registered
<1>11. Served
  BY <1>8, <1>10, NoJobTyped DEF Served, Init, NoJobFields, Idle
<1>12. Scanned /\ fault = {}
  BY <1>8 DEF Scanned, Init, Idle
<1>13. pc # "relocate"
  BY <1>8 DEF Idle
<1> QED
  BY <1>7, <1>9, <1>11, <1>12, <1>13, RestIsLaid DEF IInv

LEMMA RestsNext ==
    ASSUME AtRest', pc' # "relocate"
    PROVE  /\ Laid(allocations, lookup, handle, Relocating, job.to)'
           /\ Filled(allocations, lookup, Relocating, job.to, mem, construction)'
<1>1. Relocating' = 0 /\ Ordered(allocations')
  BY DEF Relocating, AtRest, Laid
<1>2. Laid(allocations', lookup', handle', 0, 0)
      /\ Filled(allocations', lookup', 0, 0, mem', construction')
  BY DEF AtRest
<1> QED
  BY <1>1, <1>2, TargetDoesNotMatter

\* A step that leaves the heap alone and does not relocate.
LEMMA HeapUntouched ==
    ASSUME IInv, pc # "relocate", pc' # "relocate", UNCHANGED <<heapVars, construction>>
    PROVE  /\ Laid(allocations, lookup, handle, Relocating, job.to)'
           /\ Filled(allocations, lookup, Relocating, job.to, mem, construction)'
           /\ Registered' = Registered
<1>1. UNCHANGED <<allocations, handle, lookup, mem, construction>>
  BY DEF heapVars
<1>2. AtRest'
  BY <1>1, RestsUnlessRelocating DEF AtRest
<1>3. Registered' = Registered
  BY <1>1 DEF Registered
<1> QED
  BY <1>2, <1>3, RestsNext

LEMMA NextPosition ==
    ASSUME Ordered(allocations), NEW k \in DOMAIN allocations
    PROVE  /\ k + 1 \in 1 .. Len(allocations) + 1 /\ k \in 1 .. Len(allocations) + 1
           /\ EndBefore(k + 1) = allocations[k].offset + allocations[k].size
<1>1. k \in Nat \ {0} /\ Len(allocations) \in Nat /\ k <= Len(allocations)
  BY EntryTypes
<1>2. k + 1 # 1 /\ (k + 1) - 1 = k
  BY <1>1
<1> QED
  BY <1>1, <1>2 DEF EndBefore

LEMMA AllocateInv == IInv /\ Allocate => IInv'
<1> SUFFICES ASSUME IInv, Allocate PROVE IInv'
  OBVIOUS
<1>1. pc = "idle" /\ asked < Len(Requests) /\ asked' = asked + 1
      /\ pc' = "try" /\ job' = [NoJob EXCEPT !.req = asked + 1]
      /\ UNCHANGED <<heapVars, construction, owned, pinned, fault>>
  BY DEF Allocate, Start, Idle
<1>2. /\ Laid(allocations, lookup, handle, Relocating, job.to)'
      /\ Filled(allocations, lookup, Relocating, job.to, mem, construction)'
      /\ Registered' = Registered
  BY <1>1, HeapUntouched
<1>3. asked \in Nat /\ Len(Requests) \in Nat /\ Objects = 1 .. Len(Requests)
  BY PageAssumption, LenProperties DEF IInv, LocalTypes, Objects
<1>4. asked + 1 \in Objects
  BY <1>1, <1>3
<1>5. /\ job'.req = asked + 1 /\ job'.to = 0
      /\ job' \in Locals
  BY <1>1, <1>4, NoJobTyped DEF NoJob, Locals
<1>6. LocalTypes'
  BY <1>1, <1>3, <1>5 DEF IInv, LocalTypes, heapVars
<1>7. Registered \subseteq 1 .. asked /\ owned \subseteq Registered
  BY DEF IInv, Served
<1>8. Served'
  <2>1. owned' \subseteq Registered'
    BY <1>1, <1>2, <1>7
  <2>2. Registered' \subseteq 1 .. asked' /\ asked' \notin Registered'
    BY <1>1, <1>2, <1>3, <1>7
  <2>3. job'.req = asked' /\ job'.req # None
    BY <1>1, <1>3, <1>5 DEF None
  <2>4. \A o \in Objects : construction[o] # "none" => o \in 1 .. asked' /\ o # job'.req
    <3>1. \A o \in Objects : construction[o] # "none" => o \in 1 .. asked
      BY DEF IInv, Served
    <3> QED
      BY <3>1, <1>1, <1>3, <1>5
  <2> QED
    BY <1>1, <2>1, <2>2, <2>3, <2>4 DEF Served
<1>9. Scanned' /\ fault' = {}
  BY <1>1 DEF Scanned, IInv
<1> QED
  BY <1>2, <1>6, <1>8, <1>9 DEF IInv

\* Steps of a collection or a defragmentation that only change the locals.
LEMMA LocalsInv ==
    ASSUME IInv, pc # "relocate", UNCHANGED <<heapVars, construction, owned, pinned, asked, fault>>,
           pc' \in {"idle", "try", "id", "collect", "defragment"},
           job' \in Locals,
           job'.req \in {None, job.req}, pc' = "try" => job'.req # None,
           pc' = "defragment" =>
              job'.i \in 1 .. Len(allocations) + 1 /\ job'.last = EndBefore(job'.i)
    PROVE  IInv'
<1>1. UNCHANGED <<allocations, handle, lookup, mem, construction, owned, pinned, asked, fault>>
  BY DEF heapVars
<1>2. /\ Laid(allocations, lookup, handle, Relocating, job.to)'
      /\ Filled(allocations, lookup, Relocating, job.to, mem, construction)'
      /\ Registered' = Registered
  BY HeapUntouched
<1>3. LocalTypes'
  BY <1>1 DEF IInv, LocalTypes, Idle
<1>4. Served'
  <2>1. \A o \in Objects : construction[o] # "none" => o \in 1 .. asked /\ o # job'.req
    <3>1. \A o \in Objects : o # None
      BY RequestTypes
    <3> QED
      BY <3>1 DEF IInv, Served
  <2> QED
    BY <1>1, <1>2, <2>1 DEF IInv, Served
<1>5. \A k : EndBefore(k)' = EndBefore(k)
  BY <1>1 DEF EndBefore
<1>6. Scanned'
  BY <1>1, <1>5 DEF Scanned
<1>7. fault' = {}
  BY <1>1 DEF IInv
<1> QED
  BY <1>2, <1>3, <1>4, <1>6, <1>7 DEF IInv

LEMMA CollectInv == \A defragment \in BOOLEAN : IInv /\ Collect(defragment) => IInv'
<1> SUFFICES ASSUME NEW defragment \in BOOLEAN, IInv, Collect(defragment) PROVE IInv'
  OBVIOUS
<1>1. pc = "idle" /\ pc' = "id" /\ job' = [NoJob EXCEPT !.compact = defragment]
      /\ UNCHANGED <<heapVars, construction, owned, pinned, asked, fault>>
  BY DEF Collect, Start, Idle, restVars
<1>2. job'.req = None /\ job' \in Locals
  BY <1>1, NoJobTyped DEF NoJob, Locals
<1> QED
  BY <1>1, <1>2, LocalsInv

LEMMA TakeIdInv == IInv /\ TakeId => IInv'
<1> SUFFICES ASSUME IInv, TakeId PROVE IInv'
  OBVIOUS
<1>1. pc = "id" /\ pc' = "collect" /\ job' = job
      /\ UNCHANGED <<heapVars, construction, owned, pinned, asked, fault>>
  BY DEF TakeId
<1> QED
  BY <1>1, LocalsInv DEF IInv, LocalTypes

LEMMA TryThrowsInv == IInv /\ TryThrows => IInv'
<1> SUFFICES ASSUME IInv, TryThrows PROVE IInv'
  OBVIOUS
<1>1. pc = "try" /\ pc' = "idle" /\ job' = NoJob
      /\ UNCHANGED <<heapVars, construction, owned, pinned, asked, fault>>
  BY DEF TryThrows, Start, Idle, restVars
<1> QED
  BY <1>1, NoJobTyped, LocalsInv DEF NoJobFields

LEMMA CollectAliveInv == IInv /\ CollectAlive => IInv'
<1> SUFFICES ASSUME IInv, CollectAlive PROVE IInv'
  OBVIOUS
<1>1. pc = "collect" /\ pc' = "collect" /\ job' = [job EXCEPT !.i = job.i + 1]
      /\ UNCHANGED <<heapVars, construction, owned, pinned, asked, fault>>
  BY DEF CollectAlive, restVars
<1>2. job'.req = job.req /\ job' \in Locals
  BY <1>1 DEF IInv, LocalTypes, Locals
<1> QED
  BY <1>1, <1>2, LocalsInv

\* A scan begins in front of the first entry.
LEMMA ScanBegins ==
    /\ EndBefore(1) = 0
    /\ Ordered(allocations) => 1 \in 1 .. Len(allocations) + 1
<1>1. EndBefore(1) = 0
  BY DEF EndBefore
<1>2. Ordered(allocations) => Len(allocations) \in Nat
  BY LenProperties DEF Ordered
<1> QED
  BY <1>1, <1>2

LEMMA CollectEndInv == IInv /\ CollectEnd => IInv'
<1> SUFFICES ASSUME IInv, CollectEnd PROVE IInv'
  OBVIOUS
<1>1. pc = "collect" /\ UNCHANGED <<heapVars, construction, owned, pinned, asked, fault>>
  BY DEF CollectEnd, restVars
<1>2. \/ job.req # None /\ pc' = "try" /\ job' = job
      \/ pc' \in {"defragment", "idle"} /\ job' = NoJob
  BY DEF CollectEnd, Start, Idle
<1>3. job \in Locals
  BY DEF IInv, LocalTypes
<1>4. CASE job.req # None /\ pc' = "try" /\ job' = job
  BY <1>1, <1>3, <1>4, LocalsInv
<1>5. CASE pc' \in {"defragment", "idle"} /\ job' = NoJob
  <2>1. Ordered(allocations)
    BY DEF IInv, Laid
  <2>2. job'.i \in 1 .. Len(allocations) + 1 /\ job'.last = EndBefore(job'.i) /\ job'.req = None
    BY <1>5, <2>1, ScanBegins, NoJobTyped DEF NoJobFields
  <2> QED
    BY <1>1, <1>5, <2>2, NoJobTyped, LocalsInv
<1> QED
  BY <1>2, <1>4, <1>5

LEMMA DefragmentEndInv == IInv /\ DefragmentEnd => IInv'
<1> SUFFICES ASSUME IInv, DefragmentEnd PROVE IInv'
  OBVIOUS
<1>1. pc = "defragment" /\ UNCHANGED <<heapVars, construction, owned, pinned, asked, fault>>
  BY DEF DefragmentEnd, restVars
<1>2. \/ job.req # None /\ pc' = "try" /\ job' = job
      \/ pc' = "idle" /\ job' = NoJob
  BY DEF DefragmentEnd, Start, Idle
<1>3. job \in Locals
  BY DEF IInv, LocalTypes
<1>4. CASE job.req # None /\ pc' = "try" /\ job' = job
  BY <1>1, <1>3, <1>4, LocalsInv
<1>5. CASE pc' = "idle" /\ job' = NoJob
  BY <1>1, <1>5, NoJobTyped, LocalsInv DEF NoJobFields
<1> QED
  BY <1>2, <1>4, <1>5

\* The entry that a scan looks at.
LEMMA ScanEntry ==
    ASSUME IInv, pc # "relocate", ~AtEnd
    PROVE  /\ job.i \in DOMAIN allocations /\ Ordered(allocations) /\ AtRest
           /\ Entry = allocations[job.i]
<1>1. Ordered(allocations) /\ AtRest
  BY RestsUnlessRelocating
<1>2. Len(allocations) \in Nat /\ DOMAIN allocations = 1 .. Len(allocations)
  BY <1>1, LenProperties DEF Ordered
<1>3. job.i \in Nat \ {0}
  BY DEF IInv, LocalTypes, Locals
<1> QED
  BY <1>1, <1>2, <1>3 DEF AtEnd, Entry

LEMMA CollectDeadInv == IInv /\ CollectDead => IInv'
<1> SUFFICES ASSUME IInv, CollectDead PROVE IInv'
  OBVIOUS
<1>1. pc = "collect" /\ ~AtEnd /\ lookup[Entry.offset] \notin owned
      /\ UNCHANGED <<handle, mem, restVars>>
  BY DEF CollectDead
<1>2. /\ job.i \in DOMAIN allocations /\ Ordered(allocations) /\ AtRest
      /\ Entry = allocations[job.i]
  BY <1>1, ScanEntry
<1>3. PICK o : o = lookup[Entry.offset]
  OBVIOUS
<1>4. PICK k \in DOMAIN allocations : k = job.i
  BY <1>2
<1>5. /\ o \in Objects /\ o # None
      /\ handle[o] = [at |-> allocations[k].offset, size |-> allocations[k].size]
      /\ handle[o].at = allocations[k].offset /\ handle[o].size = allocations[k].size
      /\ allocations[k].offset \in Addresses /\ o = lookup[allocations[k].offset]
  BY <1>2, <1>3, <1>4, EntryAtRest
<1>6. ~(handle[o].at + handle[o].size > PageSize)
  <2>1. allocations[k].offset + allocations[k].size <= PageSize /\ allocations[k].offset \in Nat
        /\ allocations[k].size \in Nat /\ PageSize \in Nat
    BY <1>2, EntryTypes
  <2> QED
    BY <1>5, <2>1
<1>7. /\ lookup' = [lookup EXCEPT ![handle[o].at] = None]
      /\ allocations' = Without(allocations, handle[o])
      /\ UNCHANGED <<pc, job, fault>>
  BY <1>3, <1>5, <1>6 DEF CollectDead
<1>8. lookup' = Put(lookup, allocations[k].offset, None)
  BY <1>5, <1>7 DEF Put
<1>9. Laid(allocations, lookup, handle, 0, 0)
  BY <1>2 DEF AtRest
<1>10. Laid(allocations', lookup', handle', 0, 0)
  <2>1. Laid(Without(allocations, handle[o]), Put(lookup, allocations[k].offset, None), handle, 0, 0)
    BY <1>5, <1>9, RemoveLaid
  <2> QED
    BY <2>1, <1>1, <1>7, <1>8
<1>11. /\ lookup \in [Addresses -> Objects \cup {None}]
       /\ lookup' \in [Addresses -> Objects \cup {None}]
       /\ lookup'[allocations[k].offset] = None
       /\ \A a \in Addresses : a # allocations[k].offset => lookup'[a] = lookup[a]
  <2>1. lookup \in [Addresses -> Objects \cup {None}]
    BY <1>9 DEF Laid
  <2> QED
    BY <2>1, <1>5, <1>8 DEF Put
<1>12. Filled(allocations', lookup', 0, 0, mem', construction')
  <2>1. mem' = mem /\ construction' = construction
    BY <1>1 DEF restVars
  <2>2. \A j \in DOMAIN allocations' : \E m \in DOMAIN allocations :
           allocations'[j] = allocations[m] /\ m # k
    <3>1. /\ allocations' \in Seq(Entries) /\ Len(allocations') = Len(allocations) - 1
          /\ \A j \in 1 .. Len(allocations) - 1 :
                allocations'[j] = IF j < k THEN allocations[j] ELSE allocations[j + 1]
      BY <1>2, <1>5, <1>7, WithoutEntry
    <3>2. /\ DOMAIN allocations = 1 .. Len(allocations) /\ Len(allocations) \in Nat /\ k \in Nat
          /\ DOMAIN allocations' = 1 .. Len(allocations) - 1
      BY <1>2, <3>1, EntryTypes, LenProperties
    <3> SUFFICES ASSUME NEW j \in DOMAIN allocations'
                 PROVE  \E m \in DOMAIN allocations : allocations'[j] = allocations[m] /\ m # k
      OBVIOUS
    <3>3. CASE j < k
      <4>1. allocations'[j] = allocations[j] /\ j \in DOMAIN allocations /\ j # k
        BY <3>1, <3>2, <3>3
      <4> QED
        BY <4>1
    <3>4. CASE ~(j < k)
      <4>1. allocations'[j] = allocations[j + 1] /\ j + 1 \in DOMAIN allocations /\ j + 1 # k
        BY <3>1, <3>2, <3>4
      <4> QED
        BY <4>1
    <3> QED
      BY <3>3, <3>4
  <2> SUFFICES ASSUME NEW j \in DOMAIN allocations', NEW x \in Objects,
                      lookup'[Spot(allocations', 0, 0, j)] = x, construction[x] = "done",
                      NEW b \in 0 .. allocations'[j].size - 1
               PROVE  mem[allocations'[j].offset + b] = <<x, b>>
    BY <2>1 DEF Filled
  <2>3. PICK m \in DOMAIN allocations : allocations'[j] = allocations[m] /\ m # k
    BY <2>2
  <2>4. Spot(allocations', 0, 0, j) = allocations[m].offset
        /\ Spot(allocations, 0, 0, m) = allocations[m].offset
    BY <1>2, <1>10, <2>3, SpotAtRest DEF Laid
  <2>5. allocations[m].offset # allocations[k].offset /\ allocations[m].offset \in Addresses
    <3>1. Ahead(allocations, 0, 0)
      BY DEF Ahead
    <3> QED
      BY <1>2, <2>3, <3>1, <2>4, SpotsDiffer
  <2>6. lookup[Spot(allocations, 0, 0, m)] = x
    BY <2>4, <2>5, <1>11
  <2>7. Filled(allocations, lookup, 0, 0, mem, construction)
    BY <1>2 DEF AtRest
  <2> QED
    BY <2>3, <2>6, <2>7 DEF Filled
<1>13. AtRest' /\ pc' # "relocate"
  BY <1>1, <1>7, <1>10, <1>12 DEF AtRest
<1>14. LocalTypes'
  BY <1>1, <1>7 DEF IInv, LocalTypes, restVars
<1>15. Served'
  <2>1. Registered' \subseteq Registered
    <3> SUFFICES ASSUME NEW x \in Registered' PROVE x \in Registered
      OBVIOUS
    <3>1. x \in Objects /\ \E a \in Addresses : lookup'[a] = x
      BY DEF Registered
    <3>2. x # None
      BY <3>1, RequestTypes
    <3>3. \E a \in Addresses : lookup[a] = x
      BY <3>1, <3>2, <1>11
    <3> QED
      BY <3>1, <3>3 DEF Registered
  <2>2. owned \subseteq Registered'
    <3> SUFFICES ASSUME NEW x \in owned PROVE x \in Registered'
      OBVIOUS
    <3>1. x \in Objects /\ x # o
      BY <1>1, <1>3 DEF IInv, LocalTypes
    <3>2. PICK a \in Addresses : lookup[a] = x
      BY DEF IInv, Served, Registered
    <3>3. lookup'[a] = x
      BY <3>1, <3>2, <1>5, <1>11
    <3> QED
      BY <3>1, <3>3 DEF Registered
  <2> QED
    BY <1>1, <1>7, <2>1, <2>2 DEF IInv, Served, restVars
<1>16. Scanned' /\ fault' = {}
  BY <1>1, <1>7 DEF Scanned, IInv
<1> QED
  BY <1>13, <1>14, <1>15, <1>16, RestsNext DEF IInv

\* TryAllocate when no gap will do: at the end of the page, or not at all.
LEMMA TryAtEnd ==
    ASSUME Ordered(allocations), NEW o \in Objects,
           \A k \in DOMAIN allocations : ~FitsBefore(k, BytesOf(o), Requests[o].alignment)
    PROVE  LET result == TryAllocate(BytesOf(o), Requests[o].alignment)
               end == EndBefore(Len(allocations) + 1)
               at == end + Correction(end, Requests[o].alignment)
           IN  \/ /\ result = [list |-> allocations, region |-> Nowhere]
               \/ /\ result = [list |-> Append(allocations, [offset |-> at, size |-> BytesOf(o)]),
                               region |-> [at |-> at, size |-> BytesOf(o)]]
                  /\ at \in Nat /\ Behind(allocations, at) /\ at + BytesOf(o) <= PageSize
                  /\ Suits(o, at)
<1> DEFINE n == Len(allocations)
           end == EndBefore(n + 1)
           alignment == Requests[o].alignment
           size == BytesOf(o)
           at == end + Correction(end, alignment)
<1>1. n \in Nat /\ DOMAIN allocations = 1 .. n
  BY LenProperties DEF Ordered
<1>2. {k \in 1 .. n : FitsBefore(k, size, alignment)} = {}
  BY <1>1
<1>3. TryAllocate(size, alignment) =
        IF FitsAtEnd(size, alignment)
          THEN [list   |-> Append(allocations, [offset |-> at, size |-> size]),
                region |-> [at |-> at, size |-> size]]
        ELSE [list |-> allocations, region |-> Nowhere]
  BY <1>2 DEF TryAllocate
<1>4. n + 1 \in 1 .. n + 1 /\ n + 1 \in Nat
  BY <1>1
<1>5. end \in 0 .. PageSize /\ \A j \in DOMAIN allocations :
         allocations[j].offset + allocations[j].size <= end
  <2>1. \A j \in DOMAIN allocations : j < n + 1
    BY <1>1
  <2> QED
    BY <1>4, <2>1, EndBeforeBounds
<1>6. alignment \in Nat \ {0} /\ PageSize \in Nat /\ AddressSpace \in Nat
      /\ AddressSpace > 2 * PageSize /\ size \in Nat
  BY RequestTypes, PageAssumption
<1>7. Correction(end, alignment) \in Nat
  <2>1. PICK e \in Nat : e = end
    BY <1>5, <1>6
  <2>2. PICK n1 \in Nat \ {0} : n1 = alignment
    BY <1>6
  <2>3. Correction(e, n1) \in Nat
    BY CorrectionFills
  <2> QED
    BY <2>1, <2>2, <2>3
<1>8. ASSUME FitsAtEnd(size, alignment)
      PROVE  /\ at \in Nat /\ Behind(allocations, at) /\ at + size <= PageSize
             /\ Suits(o, at)
  <2>1. Minus(PageSize, end) = PageSize - end
    <3>1. end \in Nat /\ end <= PageSize /\ PageSize < AddressSpace
      BY <1>5, <1>6
    <3> HIDE DEF end
    <3> QED
      BY <1>6, <3>1, NoWrapAround
  <2>2. PageSize - end >= size + Correction(end, alignment)
    BY <1>8, <2>1 DEF FitsAtEnd
  <2>3. at \in Nat /\ at + size <= PageSize /\ end <= at
    BY <2>2, <1>5, <1>6, <1>7
  <2>4. Behind(allocations, at)
    <3>1. \A j \in DOMAIN allocations : allocations[j].offset + allocations[j].size \in Nat
      BY EntryTypes
    <3> QED
      BY <1>5, <2>3, <3>1 DEF Behind
  <2>5. Suits(o, at)
    BY <1>5, <1>6, CorrectionAligns DEF Suits
  <2> QED
    BY <2>3, <2>4, <2>5
<1> QED
  BY <1>3, <1>8

\* There is no room: the next attempt is made after a collection, then after a
\* defragmentation, and then on another page.
LEMMA TryAgainInv ==
    ASSUME IInv, Try, Result = [list |-> allocations, region |-> Nowhere]
    PROVE  IInv'
<1>1. /\ pc = "try" /\ UNCHANGED <<construction, pinned, asked>>
      /\ allocations' = allocations /\ UNCHANGED listing
      /\ \/ /\ job.tries = 0 /\ pc' = "id"
            /\ job' = [NoJob EXCEPT !.req = job.req, !.tries = 1]
         \/ /\ job.tries = 1 /\ pc' = "defragment"
            /\ job' = [NoJob EXCEPT !.req = job.req, !.tries = 2]
         \/ job.tries = 2 /\ pc' = "idle" /\ job' = NoJob
      /\ UNCHANGED <<handle, lookup, mem, owned, fault>>
  <2>1. Result.list = allocations /\ Result.region.size = 0
    BY DEF Nowhere
  <2>2. NotAllocated /\ pc = "try" /\ UNCHANGED <<construction, pinned, asked>>
    BY <2>1 DEF Try, Allocated
  <2>3. job.tries \in 0 .. 2
    BY DEF IInv, LocalTypes, Locals
  <2>4. CASE job.tries = 0
    BY <2>1, <2>2, <2>4 DEF NotAllocated, Start
  <2>5. CASE job.tries = 1
    BY <2>1, <2>2, <2>5 DEF NotAllocated, Start
  <2>6. CASE job.tries = 2
    BY <2>1, <2>2, <2>6 DEF NotAllocated, Start, Idle
  <2> QED
    BY <2>3, <2>4, <2>5, <2>6
<1>2. UNCHANGED <<heapVars, construction, owned, pinned, asked, fault>>
  BY <1>1 DEF heapVars
<1>3. job.req \in Objects \cup {None} /\ job.req # None /\ job.tries \in 0 .. 2
  BY <1>1 DEF IInv, LocalTypes, Locals, Served
<1>4. CASE job.tries = 2
  BY <1>1, <1>2, <1>4, LocalsInv, NoJobTyped DEF NoJobFields
<1>5. CASE job.tries # 2
  <2>1. job.tries \in {0, 1}
    BY <1>3, <1>5
  <2>2. pc' \in {"id", "defragment"}
        /\ job' = [NoJob EXCEPT !.req = job.req, !.tries = job.tries + 1]
    <3>1. CASE job.tries = 0
      BY <1>1, <3>1
    <3>2. CASE job.tries = 1
      BY <1>1, <3>2
    <3> QED
      BY <2>1, <3>1, <3>2
  <2>3. /\ job' \in Locals
        /\ job'.req = job.req /\ job'.i = 1 /\ job'.last = 0
    <3>1. job.tries + 1 \in 0 .. 2
      BY <2>1
    <3>2. PageSize \in Nat
      BY PageAssumption
    <3>3. job' = [req |-> job.req, tries |-> job.tries + 1, compact |-> FALSE, i |-> 1,
                  last |-> 0, moving |-> None, to |-> 0]
      BY <2>2 DEF NoJob
    <3> QED
      BY <1>3, <3>1, <3>2, <3>3 DEF Locals
  <2>4. 1 \in 1 .. Len(allocations) + 1 /\ EndBefore(1) = 0
    BY ScanBegins DEF IInv, Laid
  <2> QED
    BY <1>1, <1>2, <2>2, <2>3, <2>4, LocalsInv
<1> QED
  BY <1>4, <1>5

\* An entry that is put at the end can be taken away again.
LEMMA WithoutAppended ==
    ASSUME NEW list, Ordered(list), NEW e \in Entries, Behind(list, e.offset),
           e.offset + e.size <= PageSize, NEW region, region = [at |-> e.offset, size |-> e.size]
    PROVE  Without(Append(list, e), region) = list
<1>1. PICK new : new = Append(list, e)
  OBVIOUS
<1>2. Ordered(new)
  BY <1>1, AppendOrdered
<1>3. list \in Seq(Entries) /\ new \in Seq(Entries)
  BY <1>2 DEF Ordered
<1>4. PICK n \in Nat : n = Len(list) /\ DOMAIN list = 1 .. n
  BY <1>3, LenProperties
<1>5. Len(new) = n + 1 /\ DOMAIN new = 1 .. n + 1 /\ new[n + 1] = e
      /\ \A j \in 1 .. n : new[j] = list[j]
  BY <1>1, <1>3, <1>4, AppendProperties, LenProperties
<1>6. PICK k : k = n + 1 /\ k \in DOMAIN new /\ region = [at |-> new[k].offset, size |-> new[k].size]
  BY <1>4, <1>5
<1>7. PICK back : back = Without(new, region)
  OBVIOUS
<1>8. /\ back \in Seq(Entries) /\ Len(back) = n
      /\ \A j \in 1 .. n : back[j] = IF j < k THEN new[j] ELSE new[j + 1]
  <2>1. Len(new) - 1 = n
    BY <1>4, <1>5
  <2> QED
    BY <1>2, <1>6, <1>7, <2>1, WithoutEntry
<1>9. \A j \in 1 .. n : back[j] = list[j]
  BY <1>4, <1>5, <1>6, <1>8
<1> QED
  BY <1>1, <1>3, <1>4, <1>7, <1>8, <1>9, SeqEqual

\* Zeroing a region behind all entries.
LEMMA ZeroedBehind ==
    ASSUME Ordered(allocations), NEW region, region.at \in Nat, Behind(allocations, region.at),
           mem \in [Bytes -> (Objects \cup {None}) \X (0 .. PageSize)]
    PROVE  /\ Zeroed(region) \in [Bytes -> (Objects \cup {None}) \X (0 .. PageSize)]
           /\ \A k \in DOMAIN allocations : \A j \in 0 .. allocations[k].size - 1 :
                 Zeroed(region)[allocations[k].offset + j] = mem[allocations[k].offset + j]
<1>1. PageSize \in Nat \ {0} /\ Scrap \in (Objects \cup {None}) \X (0 .. PageSize)
  BY PageAssumption DEF Scrap
<1>2. ASSUME NEW k \in DOMAIN allocations, NEW j \in 0 .. allocations[k].size - 1
      PROVE  Zeroed(region)[allocations[k].offset + j] = mem[allocations[k].offset + j]
  <2>1. PICK b \in Nat, n \in Nat : /\ b = allocations[k].offset /\ n = allocations[k].size
                                    /\ b + n <= PageSize /\ b + n <= region.at
    BY EntryTypes DEF Behind
  <2>2. b + j \in Bytes /\ b + j < region.at
    BY <1>1, <2>1 DEF Bytes
  <2>3. ~Within(b + j, region)
    BY <2>2 DEF Within, Bytes
  <2> QED
    BY <2>1, <2>2, <2>3 DEF Zeroed
<1> QED
  BY <1>1, <1>2 DEF Zeroed

\* An allocation at the end of the page: the object is registered, or an exception
\* gives the place back.
LEMMA TryAppendInv ==
    ASSUME IInv, Try, NEW o, o = job.req, NEW at \in Nat, NEW size \in Nat \ {0},
           size = BytesOf(o),
           Result = [list |-> Append(allocations, [offset |-> at, size |-> size]),
                     region |-> [at |-> at, size |-> size]],
           Behind(allocations, at), at + size <= PageSize, Suits(o, at)
    PROVE  IInv'
<1>1. pc = "try" /\ UNCHANGED <<construction, pinned, asked>>
  BY DEF Try
<1>2. o \in Objects /\ o = asked /\ asked \notin Registered
  BY <1>1 DEF IInv, LocalTypes, Locals, Served
<1>3. AtRest /\ Ordered(allocations)
  BY <1>1, RestsUnlessRelocating
<1>4. Laid(allocations, lookup, handle, 0, 0)
  BY <1>3 DEF AtRest
<1>5. o # None /\ \A a \in Addresses : lookup[a] # o
  BY <1>2, RequestTypes DEF Registered
<1>6. PICK region : region = [at |-> at, size |-> size]
  OBVIOUS
<1>7. region.at = at /\ region.size = size /\ size \in Nat \ {0}
  BY <1>2, <1>6
<1>8. /\ lookup[at] = None
      /\ Laid(Append(allocations, [offset |-> at, size |-> size]), Put(lookup, at, o),
              Put(handle, o, region), 0, 0)
  BY <1>2, <1>4, <1>5, <1>6, <1>7, AppendLaid
<1>9. PageSize \in Nat \ {0} /\ at \in Addresses /\ Len(allocations) \in Nat
  BY <1>3, <1>7, PageAssumption, LenProperties DEF Addresses, Ordered
<1>10. \/ /\ allocations' = Append(allocations, [offset |-> at, size |-> size])
         /\ RegisterObject(o, region)
       \/ /\ allocations' = allocations /\ mem' \in {mem, Zeroed(region)}
          /\ UNCHANGED <<handle, lookup, owned, fault>>
  <2>1. /\ Result.region = region /\ Result.region.size # 0
        /\ Result.list = Append(allocations, [offset |-> at, size |-> size])
    BY <1>6, <1>7
  <2>2. \/ allocations' = Result.list /\ RegisterObject(o, Result.region)
        \/ allocations' = Without(Result.list, Result.region) /\ RegistrationThrows(Result.region)
    BY <2>1 DEF Try, Allocated, NotAllocated
  <2>3. Without(Append(allocations, [offset |-> at, size |-> size]), region) = allocations
    <3>1. PICK e : e = [offset |-> at, size |-> size]
      OBVIOUS
    <3>2. e \in Entries /\ e.offset = at /\ e.size = size
      BY <3>1, <1>9 DEF Entries, Bytes
    <3> QED
      BY <3>1, <3>2, <1>3, <1>6, WithoutAppended
  <2>4. RegistrationThrows(region) =>
           mem' \in {mem, Zeroed(region)} /\ UNCHANGED <<handle, lookup, owned, fault>>
    BY <1>7, <1>8 DEF RegistrationThrows
  <2> QED
    BY <2>1, <2>2, <2>3, <2>4
<1>11. pc' = "idle" /\ job' = NoJob
  <2>1. Result.region.size # 0
    BY <1>6, <1>7
  <2> QED
    BY <2>1 DEF Try, Allocated, NotAllocated, Start, Idle
<1>12. /\ Zeroed(region) \in [Bytes -> (Objects \cup {None}) \X (0 .. PageSize)]
       /\ \A k \in DOMAIN allocations : \A j \in 0 .. allocations[k].size - 1 :
             Zeroed(region)[allocations[k].offset + j] = mem[allocations[k].offset + j]
  <2>1. /\ mem \in [Bytes -> (Objects \cup {None}) \X (0 .. PageSize)]
        /\ region.at \in Nat /\ Behind(allocations, region.at)
    BY <1>7 DEF IInv, LocalTypes
  <2> QED
    BY <1>3, <2>1, ZeroedBehind
<1>13. CASE /\ allocations' = allocations /\ mem' \in {mem, Zeroed(region)}
            /\ UNCHANGED <<handle, lookup, owned, fault>>
  <2>1. mem \in [Bytes -> (Objects \cup {None}) \X (0 .. PageSize)]
    BY DEF IInv, LocalTypes
  <2>2. /\ mem' \in [Bytes -> (Objects \cup {None}) \X (0 .. PageSize)]
        /\ \A k \in DOMAIN allocations : \A j \in 0 .. allocations[k].size - 1 :
              mem'[allocations[k].offset + j] = mem[allocations[k].offset + j]
    BY <2>1, <1>12, <1>13
  <2>3. Filled(allocations', lookup', 0, 0, mem', construction')
    <3> SUFFICES ASSUME NEW k \in DOMAIN allocations, NEW x \in Objects,
                        lookup[Spot(allocations, 0, 0, k)] = x, construction[x] = "done",
                        NEW j \in 0 .. allocations[k].size - 1
                 PROVE  mem'[allocations[k].offset + j] = <<x, j>>
      BY <1>1, <1>13 DEF Filled
    <3>1. mem[allocations[k].offset + j] = <<x, j>>
      BY <1>3 DEF AtRest, Filled
    <3> QED
      BY <2>2, <3>1
  <2>4. AtRest' /\ pc' # "relocate"
    BY <1>3, <1>11, <1>13, <2>3 DEF AtRest
  <2>5. LocalTypes'
    BY <1>1, <1>11, <1>13, <2>2, NoJobTyped DEF IInv, LocalTypes, Idle
  <2>6. Registered' = Registered
    BY <1>13 DEF Registered
  <2>7. Served'
    <3>1. \A x \in Objects : x # None
      BY RequestTypes
    <3> QED
      BY <1>1, <1>11, <1>13, <2>6, <3>1, NoJobTyped DEF IInv, Served, NoJobFields
  <2>8. Scanned' /\ fault' = {}
    BY <1>11, <1>13 DEF Scanned, IInv
  <2> QED
    BY <2>4, <2>5, <2>7, <2>8, RestsNext DEF IInv
<1>14. CASE /\ allocations' = Append(allocations, [offset |-> at, size |-> size])
            /\ RegisterObject(o, region)
  <2>1. /\ mem' = Zeroed(region)
        /\ handle' = Put(handle, o, region) /\ lookup' = Put(lookup, at, o)
        /\ owned' = owned \cup {o} /\ fault' = fault
    BY <1>7, <1>14 DEF RegisterObject, Put
  <2>2. pc' = "idle" /\ job' = NoJob
    BY <1>11
  <2>3. /\ lookup \in [Addresses -> Objects \cup {None}]
         /\ lookup'[at] = o /\ \A a \in Addresses : a # at => lookup'[a] = lookup[a]
    <3>1. lookup \in [Addresses -> Objects \cup {None}]
      BY <1>4 DEF Laid
    <3> QED
      BY <2>1, <1>9, <3>1 DEF Put
  <2>4. Laid(allocations', lookup', handle', 0, 0)
    BY <1>8, <1>14, <2>1
  <2>5. Filled(allocations', lookup', 0, 0, mem', construction')
    <3>1. /\ Len(allocations') = Len(allocations) + 1
          /\ DOMAIN allocations = 1 .. Len(allocations)
          /\ DOMAIN allocations' = 1 .. Len(allocations) + 1
          /\ \A k \in DOMAIN allocations : allocations'[k] = allocations[k]
          /\ allocations'[Len(allocations) + 1] = [offset |-> at, size |-> size]
      <4>1. allocations \in Seq(Entries) /\ [offset |-> at, size |-> size] \in Entries
        BY <1>3, <1>7, <1>9 DEF Ordered, Entries, Bytes
      <4>2. /\ allocations' \in Seq(Entries) /\ Len(allocations') = Len(allocations) + 1
            /\ \A k \in 1 .. Len(allocations) : allocations'[k] = allocations[k]
            /\ allocations'[Len(allocations) + 1] = [offset |-> at, size |-> size]
        BY <1>14, <4>1, AppendProperties
      <4> QED
        BY <4>1, <4>2, LenProperties
    <3> SUFFICES ASSUME NEW k \in DOMAIN allocations', NEW x \in Objects,
                        lookup'[Spot(allocations', 0, 0, k)] = x, construction[x] = "done",
                        NEW j \in 0 .. allocations'[k].size - 1
                 PROVE  mem'[allocations'[k].offset + j] = <<x, j>>
      BY <1>1 DEF Filled
    <3>2. Spot(allocations', 0, 0, k) = allocations'[k].offset
      BY <2>4, SpotAtRest DEF Laid
    <3>3. CASE k = Len(allocations) + 1
      <4>1. x = o
        BY <3>1, <3>2, <3>3, <2>3
      <4>2. construction[o] = "none"
        BY <1>2 DEF IInv, Served
      <4> QED
        BY <4>1, <4>2
    <3>4. CASE k \in DOMAIN allocations
      <4>1. /\ allocations[k].offset \in Nat /\ allocations[k].size \in Nat
            /\ allocations[k].offset + allocations[k].size <= PageSize
            /\ allocations[k].offset + allocations[k].size <= at
            /\ allocations[k].size # 0
        BY <1>3, <3>4, EntryTypes DEF Behind
      <4>2. allocations'[k] = allocations[k]
        BY <3>1, <3>4
      <4>3. mem'[allocations[k].offset + j] = mem[allocations[k].offset + j]
        BY <1>12, <2>1, <3>4, <4>2
      <4>4. allocations[k].offset \in Addresses /\ allocations[k].offset # at
        <5>1. at \in Nat /\ PageSize \in Nat
          BY <1>9 DEF Addresses
        <5>2. allocations[k].offset \in 0 .. 2 * PageSize
          BY <4>1, <5>1
        <5> QED
          BY <4>1, <5>1, <5>2 DEF Addresses
      <4>5. Spot(allocations, 0, 0, k) = allocations[k].offset
        BY <1>3, <3>4, SpotAtRest
      <4>6. lookup[Spot(allocations, 0, 0, k)] = x
        BY <2>3, <3>2, <4>2, <4>4, <4>5
      <4>7. Filled(allocations, lookup, 0, 0, mem, construction)
        BY <1>3 DEF AtRest
      <4>8. mem[allocations[k].offset + j] = <<x, j>>
        BY <3>4, <4>2, <4>6, <4>7 DEF Filled
      <4> QED
        BY <4>2, <4>3, <4>8
    <3> QED
      BY <1>9, <3>1, <3>3, <3>4
  <2>6. AtRest' /\ pc' # "relocate"
    BY <2>2, <2>4, <2>5 DEF AtRest
  <2>7. LocalTypes'
    <3>1. mem' \in [Bytes -> (Objects \cup {None}) \X (0 .. PageSize)]
      BY <1>12, <2>1
    <3>2. pinned' \subseteq owned' /\ owned' \subseteq Objects
      BY <1>1, <1>2, <2>1 DEF IInv, LocalTypes
    <3>3. pc' \in {Idle, "try", "id", "collect", "defragment", "relocate"}
      BY <2>2 DEF Idle
    <3> QED
      BY <1>1, <2>2, <3>1, <3>2, <3>3, NoJobTyped DEF IInv, LocalTypes
  <2>8. Served'
    <3>1. Registered' = Registered \cup {o}
      <4>1. ASSUME NEW x \in Registered' PROVE x \in Registered \cup {o}
        <5>1. x \in Objects /\ \E a \in Addresses : lookup'[a] = x
          BY DEF Registered
        <5> QED
          BY <5>1, <2>3 DEF Registered
      <4>2. ASSUME NEW x \in Registered PROVE x \in Registered'
        <5>1. x \in Objects /\ x # None
          BY RequestTypes DEF Registered
        <5>2. PICK a \in Addresses : lookup[a] = x
          BY DEF Registered
        <5>3. a # at
          BY <1>8, <5>1, <5>2
        <5>4. lookup'[a] = x
          BY <2>3, <5>2, <5>3
        <5> QED
          BY <5>1, <5>4 DEF Registered
      <4>3. o \in Registered'
        BY <1>2, <1>9, <2>3 DEF Registered
      <4> QED
        BY <4>1, <4>2, <4>3
    <3>2. owned' \subseteq Registered'
      BY <2>1, <3>1 DEF IInv, Served
    <3>3. Registered' \subseteq 1 .. asked'
      <4>1. asked \in 1 .. asked
        BY <1>2, RequestTypes
      <4> QED
        BY <1>1, <1>2, <3>1, <4>1 DEF IInv, Served
    <3>4. job'.req = None
      BY <2>2, NoJobTyped DEF NoJobFields
    <3>5. \A x \in Objects : x # None
      BY RequestTypes
    <3>6. \A x \in Objects : construction'[x] # "none" => x \in 1 .. asked' /\ x # job'.req
      BY <1>1, <3>4, <3>5 DEF IInv, Served
    <3> QED
      BY <2>2, <3>2, <3>3, <3>4, <3>6 DEF Served
  <2>9. Scanned' /\ fault' = {}
    BY <2>1, <2>2 DEF Scanned, IInv
  <2> QED
    BY <2>6, <2>7, <2>8, <2>9, RestsNext DEF IInv
<1> QED
  BY <1>10, <1>13, <1>14

\* Where a defragmentation puts an object that it moves.
LEMMA TargetIsAhead ==
    ASSUME IInv, pc = "defragment", ~AtEnd, NEW o, o = lookup[Entry.offset], WorthMoving(o)
    PROVE  /\ Target(o) \in Nat /\ Ahead(allocations, job.i, Target(o)) /\ Suits(o, Target(o))
           /\ Target(o) <= PageSize
           /\ handle[o].at - Target(o) >= Requests[o].size
<1>1. /\ job.i \in DOMAIN allocations /\ Ordered(allocations) /\ AtRest
      /\ Entry = allocations[job.i]
  BY ScanEntry
<1>2. PICK k \in DOMAIN allocations : k = job.i
  BY <1>1
<1>3. /\ o \in Objects /\ handle[o].at = allocations[k].offset /\ Suits(o, handle[o].at)
  BY <1>1, <1>2, EntryAtRest
<1>4. k \in 1 .. Len(allocations) + 1
  BY <1>1, NextPosition
<1>5. PICK last \in Nat : last = job.last /\ last = EndBefore(k)
  BY <1>1, <1>2, <1>4, EndBeforeBounds DEF IInv, Scanned
<1>6. /\ last <= allocations[k].offset
      /\ \A j \in DOMAIN allocations : j < k => allocations[j].offset + allocations[j].size <= last
  <2>1. k <= k
    BY <1>4
  <2> QED
    BY <1>1, <1>4, <1>5, <2>1, EndBeforeBounds
<1>7. /\ Requests[o].alignment \in Nat \ {0} /\ Requests[o].size \in Nat \ {0}
  BY <1>3, RequestTypes
<1>8. /\ allocations[k].offset \in Nat /\ allocations[k].offset < PageSize /\ PageSize \in Nat \ {0}
      /\ AddressSpace \in Nat /\ AddressSpace > 2 * PageSize
  BY <1>1, EntryTypes, PageAssumption
<1>9. PICK to : to = Target(o) /\ to = last + Correction(last, Requests[o].alignment)
  BY <1>5 DEF Target
<1>10. Correction(last, Requests[o].alignment) \in Nat
  <2>1. PICK n \in Nat \ {0} : n = Requests[o].alignment
    BY <1>7
  <2>2. Correction(last, n) \in 0 .. n - 1
    BY CorrectionFills
  <2> QED
    BY <2>1, <2>2
<1>11. to \in Nat /\ last <= to
  BY <1>9, <1>10
<1>12. to <= handle[o].at
  BY <1>3, <1>6, <1>7, <1>8, <1>9, CorrectionIsLeast DEF Suits
<1>13. handle[o].at - to >= Requests[o].size
  <2>1. handle[o].at \in Nat /\ handle[o].at < AddressSpace
    BY <1>3, <1>8
  <2>2. Minus(handle[o].at, to) = handle[o].at - to
    BY <1>11, <1>12, <2>1, NoWrapAround
  <2> QED
    BY <1>9, <2>2 DEF WorthMoving
<1>14. to < handle[o].at /\ to <= PageSize
  BY <1>3, <1>7, <1>8, <1>11, <1>13
<1>15. Ahead(allocations, k, to)
  <2>1. \A j \in DOMAIN allocations : allocations[j].offset + allocations[j].size \in Nat
    BY <1>1, EntryTypes
  <2> QED
    BY <1>3, <1>6, <1>11, <1>14, <2>1 DEF Ahead
<1>16. Suits(o, to)
  BY <1>7, <1>9, CorrectionAligns DEF Suits
<1> QED
  BY <1>2, <1>9, <1>11, <1>13, <1>14, <1>15, <1>16

LEMMA TargetIsFree ==
    ASSUME Laid(allocations, lookup, handle, 0, 0), NEW i \in DOMAIN allocations, NEW target,
           Ahead(allocations, i, target)
    PROVE  /\ target \in Addresses /\ target # allocations[i].offset /\ lookup[target] = None
           /\ lookup \in [Addresses -> Objects \cup {None}]
<1>1. Ordered(allocations) /\ i # 0 /\ Spot(allocations, i, target, i) = target
  BY EntryTypes DEF Laid, Spot
<1>2. target \in Addresses
  BY <1>1, SpotsDiffer
<1>3. target \in Nat /\ target < allocations[i].offset /\ allocations[i].offset \in Nat
  BY <1>1, EntryTypes DEF Ahead
<1>4. ASSUME NEW k \in DOMAIN allocations PROVE target # Spot(allocations, 0, 0, k)
  <2>1. Spot(allocations, 0, 0, k) = allocations[k].offset
    BY <1>1, SpotAtRest
  <2>2. k # i => Spot(allocations, i, target, k) # Spot(allocations, i, target, i)
                 /\ Spot(allocations, i, target, k) = allocations[k].offset
    BY <1>1, SpotsDiffer DEF Spot
  <2> QED
    BY <1>1, <1>3, <2>1, <2>2
<1> QED
  BY <1>2, <1>3, <1>4 DEF Laid

LEMMA DefragmentInv == IInv /\ Defragment => IInv'
<1> SUFFICES ASSUME IInv, Defragment PROVE IInv'
  OBVIOUS
<1>1. pc = "defragment" /\ ~AtEnd /\ UNCHANGED <<allocations, handle, mem, restVars>>
  BY DEF Defragment
<1>2. /\ job.i \in DOMAIN allocations /\ Ordered(allocations) /\ AtRest
      /\ Entry = allocations[job.i]
  BY <1>1, ScanEntry
<1>3. PICK o : o = lookup[Entry.offset]
  OBVIOUS
<1>4. PICK i \in DOMAIN allocations : i = job.i
  BY <1>2
<1>5. /\ o \in Objects /\ o # None /\ handle[o].at = allocations[i].offset
      /\ allocations[i].offset \in Addresses /\ o = lookup[allocations[i].offset]
  BY <1>2, <1>3, <1>4, EntryAtRest
<1>6. \/ /\ MayMove(o) /\ EnterPlace(o, Target(o))
         /\ Start("relocate", [job EXCEPT !.moving = o, !.to = Target(o)])
         /\ UNCHANGED fault
      \/ job' = Pass(Entry.offset + Entry.size) /\ UNCHANGED <<lookup, listing, pc, fault>>
  BY <1>3, <1>5 DEF Defragment
<1>7. job \in Locals
  BY DEF IInv, LocalTypes
<1>8. CASE job' = Pass(Entry.offset + Entry.size) /\ UNCHANGED <<lookup, listing, pc, fault>>
  <2>1. PICK end : end = allocations[i].offset + allocations[i].size
    OBVIOUS
  <2>2. end \in 0 .. PageSize
    BY <1>2, <2>1, EntryTypes
  <2>3. job' = Pass(end)
    BY <1>2, <1>4, <1>8, <2>1
  <2>4. /\ job'.req = job.req /\ job'.i = i + 1 /\ job'.last = end
        /\ job' \in Locals
    BY <1>4, <1>7, <2>2, <2>3, PassTyped
  <2>5. i + 1 \in 1 .. Len(allocations) + 1 /\ EndBefore(i + 1) = end
    BY <1>2, <2>1, NextPosition
  <2>6. UNCHANGED <<heapVars, construction, owned, pinned, asked, fault>> /\ pc' = "defragment"
    BY <1>1, <1>8 DEF heapVars, restVars
  <2> QED
    BY <1>1, <2>4, <2>5, <2>6, LocalsInv
<1>9. CASE /\ MayMove(o) /\ EnterPlace(o, Target(o))
           /\ Start("relocate", [job EXCEPT !.moving = o, !.to = Target(o)])
           /\ UNCHANGED fault
  <2>1. PICK target : target = Target(o)
    OBVIOUS
  <2>2. /\ target \in Nat /\ Ahead(allocations, i, target) /\ Suits(o, target) /\ target <= PageSize
        /\ handle[o].at - target >= Requests[o].size /\ o \notin pinned
    BY <1>1, <1>3, <1>4, <1>9, <2>1, TargetIsAhead DEF MayMove
  <2>3. /\ pc' = "relocate" /\ fault' = fault
        /\ job' = TakeUp(job, o, target)
        /\ lookup' = Put(Put(lookup, allocations[i].offset, None), target, o)
    <3>1. Laid(allocations, lookup, handle, 0, 0)
      BY <1>2 DEF AtRest
    <3>2. /\ target \in Addresses /\ target # allocations[i].offset /\ lookup[target] = None
          /\ lookup \in [Addresses -> Objects \cup {None}]
      BY <2>2, <3>1, TargetIsFree
    <3>3. lookup' = [lookup EXCEPT ![allocations[i].offset] = None,
                                   ![target] = IF @ = None THEN o ELSE @]
      BY <1>5, <1>9, <2>1 DEF EnterPlace
    <3>4. lookup' = Put(Put(lookup, allocations[i].offset, None), target, o)
      BY <1>5, <3>2, <3>3 DEF Put
    <3> QED
      BY <1>9, <2>1, <3>4 DEF Start, TakeUp
  <2>4. /\ job'.moving = o /\ job'.to = target /\ job'.i = i /\ job'.last = job.last
        /\ job'.req = job.req
        /\ job' \in Locals
    <3>1. target \in 0 .. PageSize
      BY <2>2, PageAssumption
    <3> QED
      BY <1>4, <1>5, <1>7, <2>3, <3>1, TakeUpTyped
  <2>5. /\ UNCHANGED <<allocations, handle, mem, construction, owned, pinned, asked>>
    BY <1>1 DEF restVars
  <2>6. Relocating' = i
    BY <2>3, <2>4 DEF Relocating
  <2>7. Laid(allocations, lookup, handle, 0, 0)
    BY <1>2 DEF AtRest
  <2>8. Laid(allocations', lookup', handle', i, target)
    <3>1. Laid(allocations, Put(Put(lookup, allocations[i].offset, None), target, o), handle, i, target)
      BY <1>5, <2>2, <2>7, BeginLaid
    <3> QED
      BY <2>3, <2>5, <3>1
  <2>9. /\ target \in Addresses /\ target # allocations[i].offset
        /\ \A k \in DOMAIN allocations :
              /\ Spot(allocations, 0, 0, k) = allocations[k].offset
              /\ allocations[k].offset \in Addresses
              /\ k = i => Spot(allocations, i, target, k) = target
              /\ k # i => /\ Spot(allocations, i, target, k) = allocations[k].offset
                          /\ allocations[k].offset # target /\ allocations[k].offset # allocations[i].offset
    <3>1. Ahead(allocations, 0, 0) /\ i # 0
      BY <1>2, EntryTypes DEF Ahead
    <3>2. Spot(allocations, i, target, i) = target
      BY DEF Spot
    <3>3. target \in Addresses
      BY <1>2, <2>2, <3>2, SpotsDiffer
    <3>4. target # allocations[i].offset
      <4>1. target < allocations[i].offset /\ allocations[i].offset \in Nat
        BY <1>2, <2>2, <3>1, EntryTypes DEF Ahead
      <4> QED
        BY <2>2, <4>1
    <3>5. ASSUME NEW k \in DOMAIN allocations
          PROVE  /\ Spot(allocations, 0, 0, k) = allocations[k].offset
                 /\ allocations[k].offset \in Addresses
                 /\ k = i => Spot(allocations, i, target, k) = target
                 /\ k # i => /\ Spot(allocations, i, target, k) = allocations[k].offset
                             /\ allocations[k].offset # target
                             /\ allocations[k].offset # allocations[i].offset
      <4>1. Spot(allocations, 0, 0, k) = allocations[k].offset
        BY <1>2, SpotAtRest
      <4>2. Spot(allocations, 0, 0, k) \in Addresses
        BY <1>2, <3>1, SpotsDiffer
      <4>3. k # i => Spot(allocations, i, target, k) # Spot(allocations, i, target, i)
                     /\ allocations[k].offset # allocations[i].offset
        BY <1>2, <2>2, SpotsDiffer
      <4>4. k # i => Spot(allocations, i, target, k) = allocations[k].offset
        BY DEF Spot
      <4> QED
        BY <3>2, <4>1, <4>2, <4>3, <4>4
    <3> QED
      BY <3>3, <3>4, <3>5
  <2>10. /\ lookup \in [Addresses -> Objects \cup {None}]
         /\ lookup'[target] = o /\ lookup'[allocations[i].offset] = None
         /\ \A a \in Addresses : a # target /\ a # allocations[i].offset => lookup'[a] = lookup[a]
    <3>1. lookup \in [Addresses -> Objects \cup {None}]
      BY <2>7 DEF Laid
    <3> QED
      BY <1>5, <2>3, <2>9, <3>1 DEF Put
  <2>11. Filled(allocations', lookup', i, target, mem', construction')
    <3> SUFFICES ASSUME NEW k \in DOMAIN allocations, NEW x \in Objects,
                        lookup'[Spot(allocations, i, target, k)] = x, construction[x] = "done",
                        NEW j \in 0 .. allocations[k].size - 1
                 PROVE  mem[allocations[k].offset + j] = <<x, j>>
      BY <2>5 DEF Filled
    <3>1. lookup[Spot(allocations, 0, 0, k)] = x
      <4>1. CASE k = i
        BY <1>5, <2>9, <2>10, <4>1
      <4>2. CASE k # i
        BY <2>9, <2>10, <4>2
      <4> QED
        BY <4>1, <4>2
    <3>2. Filled(allocations, lookup, 0, 0, mem, construction)
      BY <1>2 DEF AtRest
    <3> QED
      BY <3>1, <3>2 DEF Filled
  <2>12. LocalTypes'
    BY <2>3, <2>4, <2>5 DEF IInv, LocalTypes
  <2>13. Registered' = Registered
    <3>1. ASSUME NEW x \in Registered' PROVE x \in Registered
      <4>1. x \in Objects /\ x # None
        BY RequestTypes DEF Registered
      <4>2. PICK a \in Addresses : lookup'[a] = x
        BY DEF Registered
      <4>3. CASE a = target
        BY <1>5, <2>10, <4>2, <4>3 DEF Registered
      <4>4. CASE a # target
        <5>1. a # allocations[i].offset
          BY <2>10, <4>1, <4>2
        <5> QED
          BY <2>10, <4>1, <4>2, <4>4, <5>1 DEF Registered
      <4> QED
        BY <4>3, <4>4
    <3>2. lookup[target] = None
      BY <2>2, <2>7, TargetIsFree
    <3>3. ASSUME NEW x \in Registered PROVE x \in Registered'
      <4>1. x \in Objects /\ x # None
        BY RequestTypes DEF Registered
      <4>2. PICK a \in Addresses : lookup[a] = x
        BY DEF Registered
      <4>3. CASE a = allocations[i].offset
        BY <1>5, <2>9, <2>10, <4>2, <4>3 DEF Registered
      <4>4. CASE a # allocations[i].offset
        <5>1. a # target
          BY <3>2, <4>1, <4>2
        <5> QED
          BY <2>10, <4>1, <4>2, <4>4, <5>1 DEF Registered
      <4> QED
        BY <4>3, <4>4
    <3> QED
      BY <3>1, <3>3
  <2>14. Served'
    BY <2>3, <2>4, <2>5, <2>13 DEF IInv, Served
  <2>15. Scanned'
    <3>1. EndBefore(i)' = EndBefore(i)
      BY <2>5 DEF EndBefore
    <3>2. i \in 1 .. Len(allocations) + 1
      BY <1>2, NextPosition
    <3>3. job.last = EndBefore(i)
      BY <1>1, <1>4 DEF IInv, Scanned
    <3> QED
      BY <2>2, <2>3, <2>4, <2>5, <2>10, <3>1, <3>2, <3>3 DEF Scanned
  <2>16. fault' = {}
    BY <2>3 DEF IInv
  <2> QED
    BY <2>4, <2>6, <2>8, <2>11, <2>12, <2>14, <2>15, <2>16 DEF IInv
<1> QED
  BY <1>6, <1>8, <1>9

\* RelocateObject takes the contents along.
LEMMA ContentsMove ==
    ASSUME IInv, pc = "relocate", NEW T, mem \in [Bytes -> T], Scrap \in T
    PROVE  LET o == job.moving
               new == MoveObject(o, job.to)
               from == handle[o].at
               size == handle[o].size
           IN  new \in [Bytes -> T] /\ Carried(mem, new, from, job.to, size)
<1>1. /\ Laid(allocations, lookup, handle, job.i, job.to) /\ Ordered(allocations)
      /\ Ahead(allocations, job.i, job.to)
  BY DEF IInv, Relocating, Laid
<1>2. PICK k \in DOMAIN allocations : k = job.i
  BY DEF IInv, Scanned
<1>3. PICK o : o = job.moving
  OBVIOUS
<1>4. EntryOf(allocations, lookup, handle, job.i, job.to, k, o)
  BY <1>1, <1>2, <1>3 DEF Laid, EntryOf, Spot, IInv, Scanned
<1>5. /\ o \in Objects /\ handle[o].at = allocations[k].offset
      /\ handle[o].size = allocations[k].size /\ handle[o].size = BytesOf(o)
  BY <1>4 DEF EntryOf
<1>6. PICK target \in Nat : target = job.to
  BY <1>1, <1>2, EntryTypes DEF Ahead
<1>7. PICK from : from = handle[o].at
  OBVIOUS
<1>8. PICK total : total = handle[o].size
  OBVIOUS
<1>9. PICK size : size = Requests[o].size
  OBVIOUS
<1>10. PICK n : n = Requests[o].count
  OBVIOUS
<1>11. /\ from \in Nat /\ total \in Nat /\ from + total <= PageSize
       /\ size \in Nat \ {0} /\ n \in Nat /\ total = size * n
  <2>1. from \in Nat /\ total \in Nat /\ from + total <= PageSize
    <3>1. from = allocations[k].offset /\ total = allocations[k].size
      BY <1>5, <1>7, <1>8
    <3>2. /\ allocations[k].offset \in Nat /\ allocations[k].size \in Nat
          /\ allocations[k].offset + allocations[k].size <= PageSize
      BY <1>1, EntryTypes
    <3> QED
      BY <3>1, <3>2
  <2>2. size \in Nat \ {0} /\ n \in Nat
    BY <1>5, <1>9, <1>10, RequestTypes
  <2>3. total = size * n
    BY <1>5, <1>8, <1>9, <1>10 DEF BytesOf
  <2> QED
    BY <2>1, <2>2, <2>3
<1>12. total \div size = n /\ total = n * size
  BY <1>11
<1>13. from - target >= size
  BY <1>3, <1>6, <1>7, <1>9 DEF IInv, Scanned
<1>14. MoveObject(o, target) = Steps(mem, from, target, size, n)[n]
  BY <1>7, <1>8, <1>9, <1>12, MoveObjectIsSteps
<1>15. PICK new : new = MoveObject(o, target)
  OBVIOUS
<1>16. new \in [Bytes -> T] /\ Carried(mem, new, from, target, total)
  <2>1. from \in Nat
    BY <1>11
  <2>2. size \in Nat \ {0}
    BY <1>11
  <2>3. n \in Nat
    BY <1>11
  <2>4. total \in Nat /\ from + total <= PageSize
    BY <1>11
  <2>5. total = n * size
    BY <1>12
  <2>6. /\ Steps(mem, from, target, size, n)[n] \in [Bytes -> T]
        /\ Carried(mem, Steps(mem, from, target, size, n)[n], from, target, total)
    BY <1>13, <2>1, <2>2, <2>3, <2>4, <2>5, StepsMove, SMTT(60)
  <2> QED
    BY <1>14, <1>15, <2>6
<1> QED
  BY <1>3, <1>6, <1>7, <1>8, <1>15, <1>16

LEMMA RelocateInv == IInv /\ RelocateObject => IInv'
<1> SUFFICES ASSUME IInv, RelocateObject PROVE IInv'
  OBVIOUS
<1>1. /\ pc = "relocate" /\ UNCHANGED <<lookup, construction, owned, pinned, asked, fault>>
      /\ mem' = IF HasContents(job.moving) THEN MoveObject(job.moving, job.to) ELSE mem
      /\ handle' = [handle EXCEPT ![job.moving] = [at |-> job.to, size |-> Entry.size]]
      /\ allocations' = [allocations EXCEPT ![job.i].offset = job.to]
      /\ pc' = "defragment" /\ job' = Pass(job.to + Entry.size)
  BY DEF RelocateObject, Start, restVars
<1>2. /\ Laid(allocations, lookup, handle, job.i, job.to) /\ Ordered(allocations)
      /\ Ahead(allocations, job.i, job.to)
      /\ Filled(allocations, lookup, job.i, job.to, mem, construction)
  BY <1>1 DEF IInv, Relocating, Laid
<1>3. PICK i \in DOMAIN allocations : i = job.i
  BY <1>1 DEF IInv, Scanned
<1>4. PICK o : o = job.moving /\ o = lookup[job.to]
  BY <1>1 DEF IInv, Scanned
<1>5. PICK target : target = job.to
  OBVIOUS
<1>6. EntryOf(allocations, lookup, handle, i, target, i, o)
  BY <1>2, <1>3, <1>4, <1>5 DEF Laid, EntryOf, Spot
<1>7. /\ o \in Objects /\ handle[o].at = allocations[i].offset
      /\ handle[o].size = allocations[i].size
  BY <1>6 DEF EntryOf
<1>8. /\ i # 0 /\ i \in Nat /\ allocations[i].offset \in Nat /\ allocations[i].size \in Nat \ {0}
      /\ allocations[i].offset + allocations[i].size <= PageSize /\ PageSize \in Nat \ {0}
  BY <1>2, EntryTypes
<1>9. /\ target \in Nat /\ target < allocations[i].offset
      /\ \A j \in DOMAIN allocations : j < i => allocations[j].offset + allocations[j].size <= target
  BY <1>2, <1>3, <1>5, <1>8 DEF Ahead
<1>10. allocations' = Moved(allocations, i, target)
  BY <1>1, <1>3, <1>5 DEF Moved
<1>11. handle' = Put(handle, o, [at |-> target, size |-> allocations[i].size])
  BY <1>1, <1>3, <1>4, <1>5 DEF Put, Entry
<1>12. Laid(allocations', lookup', handle', 0, 0)
  <2>1. Laid(Moved(allocations, i, target), lookup,
             Put(handle, o, [at |-> target, size |-> allocations[i].size]), 0, 0)
    BY <1>2, <1>3, <1>4, <1>5, EndLaid
  <2> QED
    BY <1>1, <1>10, <1>11, <2>1
<1>13. /\ DOMAIN allocations' = DOMAIN allocations /\ Len(allocations') = Len(allocations)
       /\ allocations'[i] = [offset |-> target, size |-> allocations[i].size]
       /\ Ahead(allocations, i, target)
  <2>1. Ahead(allocations, i, target)
    BY <1>2, <1>3, <1>5
  <2> QED
    BY <1>2, <1>10, <2>1, MovedEntry
<1>14. \A k \in DOMAIN allocations : k # i => allocations'[k] = allocations[k]
  BY <1>10 DEF Moved
<1>15. /\ mem \in [Bytes -> (Objects \cup {None}) \X (0 .. PageSize)]
       /\ Scrap \in (Objects \cup {None}) \X (0 .. PageSize)
  BY <1>8 DEF IInv, LocalTypes, Scrap
<1>16. PICK total : total = allocations[i].size
  OBVIOUS
<1>17. /\ MoveObject(o, target) \in [Bytes -> (Objects \cup {None}) \X (0 .. PageSize)]
       /\ \A j \in 0 .. total - 1 :
             MoveObject(o, target)[target + j] = mem[allocations[i].offset + j]
       /\ \A b \in Bytes : b \notin target .. target + total - 1
             /\ b \notin allocations[i].offset .. allocations[i].offset + total - 1
             => MoveObject(o, target)[b] = mem[b]
  BY <1>1, <1>4, <1>5, <1>7, <1>15, <1>16, ContentsMove DEF Carried
<1>18. mem' \in [Bytes -> (Objects \cup {None}) \X (0 .. PageSize)]
       /\ mem' = IF construction[o] = "done" THEN MoveObject(o, target) ELSE mem
  BY <1>1, <1>4, <1>5, <1>15, <1>17 DEF HasContents
<1>19. \A k \in DOMAIN allocations : Spot(allocations', 0, 0, k) = Spot(allocations, i, target, k)
  <2>1. \A k \in DOMAIN allocations : k # 0
    BY <1>2, EntryTypes
  <2> QED
    BY <1>13, <1>14, <2>1 DEF Spot
<1>20. Filled(allocations', lookup', 0, 0, mem', construction')
  <2> SUFFICES ASSUME NEW k \in DOMAIN allocations, NEW x \in Objects,
                      lookup[Spot(allocations, i, target, k)] = x, construction[x] = "done",
                      NEW j \in 0 .. allocations'[k].size - 1
               PROVE  mem'[allocations'[k].offset + j] = <<x, j>>
    <3>1. lookup' = lookup /\ construction' = construction /\ DOMAIN allocations' = DOMAIN allocations
      BY <1>1, <1>13
    <3> QED
      BY <1>19, <3>1 DEF Filled
  <2>1. allocations'[k].size = allocations[k].size
    BY <1>13, <1>14
  <2>2. mem[allocations[k].offset + j] = <<x, j>>
    BY <1>2, <1>3, <1>5, <2>1 DEF Filled
  <2>3. CASE k = i
    <3>1. x = o
      BY <1>6, <2>3 DEF EntryOf
    <3>2. mem' = MoveObject(o, target) /\ j \in 0 .. total - 1
      BY <1>16, <1>18, <2>1, <2>3, <3>1
    <3>3. mem'[target + j] = mem[allocations[i].offset + j]
      BY <1>17, <3>2
    <3> QED
      BY <1>13, <2>2, <2>3, <3>3
  <2>4. CASE k # i
    <3>1. /\ allocations'[k] = allocations[k] /\ k \in Nat
          /\ allocations[k].offset \in Nat /\ allocations[k].size \in Nat
          /\ allocations[k].offset + allocations[k].size <= PageSize
      BY <1>2, <1>14, <2>4, EntryTypes
    <3>2. PICK b \in Bytes : b = allocations[k].offset + j /\ allocations[k].offset <= b
                             /\ b < allocations[k].offset + allocations[k].size
      <4>1. PICK c : c = allocations[k].offset + j
        OBVIOUS
      <4>2. c \in Nat /\ allocations[k].offset <= c /\ c < allocations[k].offset + allocations[k].size
        BY <3>1, <4>1, <2>1
      <4>3. c \in Bytes
        BY <1>8, <3>1, <4>2 DEF Bytes
      <4> QED
        BY <4>1, <4>2, <4>3
    <3>3. b \notin target .. target + total - 1
          /\ b \notin allocations[i].offset .. allocations[i].offset + total - 1
      <4>1. b \in Nat
        BY DEF Bytes
      <4>2. CASE k < i
        <5>1. /\ allocations[k].offset + allocations[k].size <= target
              /\ allocations[k].offset + allocations[k].size <= allocations[i].offset
          BY <1>2, <1>9, <4>2 DEF Ordered
        <5> QED
          BY <1>8, <1>9, <3>1, <3>2, <4>1, <5>1
      <4>3. CASE i < k
        <5>1. allocations[i].offset + allocations[i].size <= allocations[k].offset
          BY <1>2, <4>3 DEF Ordered
        <5> QED
          BY <1>8, <1>9, <1>16, <3>1, <3>2, <4>1, <5>1
      <4> QED
        BY <1>8, <3>1, <2>4, <4>2, <4>3
    <3>4. mem'[b] = mem[b]
      BY <1>17, <1>18, <3>3
    <3> QED
      BY <2>2, <3>1, <3>2, <3>4
  <2> QED
    BY <2>3, <2>4
<1>21. AtRest' /\ pc' # "relocate"
  BY <1>1, <1>12, <1>20 DEF AtRest
<1>22. PICK end : end = target + total
  OBVIOUS
<1>23. /\ job' = Pass(end) /\ end \in 0 .. PageSize
  BY <1>1, <1>3, <1>5, <1>8, <1>9, <1>16, <1>22 DEF Entry
<1>24. /\ job' \in Locals /\ job'.req = job.req /\ job'.i = i + 1 /\ job'.last = end
  BY <1>3, <1>23, PassTyped DEF IInv, LocalTypes
<1>25. LocalTypes'
  BY <1>1, <1>18, <1>24 DEF IInv, LocalTypes
<1>26. Served'
  <2>1. Registered' = Registered
    BY <1>1 DEF Registered
  <2> QED
    BY <1>1, <1>24, <2>1 DEF IInv, Served
<1>27. Scanned'
  <2>1. i + 1 \in 1 .. Len(allocations') + 1
    BY <1>2, <1>13, NextPosition
  <2>2. i + 1 # 1 /\ (i + 1) - 1 = i
    BY <1>8
  <2>3. EndBefore(i + 1)' = end
    BY <1>13, <1>16, <1>22, <2>2 DEF EndBefore
  <2> QED
    BY <1>1, <1>24, <2>1, <2>3 DEF Scanned
<1>28. fault' = {}
  BY <1>1 DEF IInv
<1> QED
  BY <1>21, <1>25, <1>26, <1>27, <1>28, RestsNext DEF IInv

\* What the program does between the steps of the page's holder.
LEMMA ProgramInv ==
    ASSUME IInv, UNCHANGED <<allocations, handle, lookup, asked, pc, job, fault>>,
           LocalTypes', Filled(allocations, lookup, Relocating, job.to, mem', construction'),
           owned' \subseteq owned,
           \A o \in Objects : construction'[o] # construction[o] => o \in pinned,
           pc = "relocate" => job.moving \notin pinned'
    PROVE  IInv'
<1>1. Relocating' = Relocating /\ Registered' = Registered
  BY DEF Relocating, Registered
<1>2. /\ Laid(allocations, lookup, handle, Relocating, job.to)'
      /\ Filled(allocations, lookup, Relocating, job.to, mem, construction)'
  BY <1>1 DEF IInv
<1>3. Served'
  <2>1. ASSUME NEW o \in Objects, construction'[o] # "none"
        PROVE  o \in 1 .. asked /\ o # job.req
    <3>1. CASE o \in pinned
      <4>1. o \in Registered
        BY <3>1 DEF IInv, LocalTypes, Served
      <4> QED
        BY <4>1, RequestTypes DEF IInv, Served
    <3>2. CASE o \notin pinned
      BY <2>1, <3>2 DEF IInv, Served
    <3> QED
      BY <3>1, <3>2
  <2> QED
    BY <1>1, <2>1 DEF IInv, Served
<1>4. \A k : EndBefore(k)' = EndBefore(k)
  BY DEF EndBefore
<1>5. Scanned'
  BY <1>4 DEF IInv, Scanned
<1>6. fault' = {}
  BY DEF IInv
<1> QED
  BY <1>2, <1>3, <1>5, <1>6 DEF IInv

LEMMA PinInv == \A o \in Objects : IInv /\ (Pin(o) \/ Unpin(o) \/ DropObject(o)) => IInv'
<1> SUFFICES ASSUME NEW o \in Objects, IInv, Pin(o) \/ Unpin(o) \/ DropObject(o) PROVE IInv'
  OBVIOUS
<1>1. /\ UNCHANGED <<allocations, handle, lookup, mem, construction, asked, pc, job, fault>>
      /\ \/ o \in owned \ pinned /\ o # job.moving /\ pinned' = pinned \cup {o} /\ owned' = owned
         \/ pinned' = pinned \ {o} /\ owned' = owned
         \/ o \in owned \ pinned /\ owned' = owned \ {o} /\ pinned' = pinned
  BY DEF Pin, Unpin, DropObject, heapVars
<1>2. LocalTypes'
  BY <1>1 DEF IInv, LocalTypes
<1>3. Filled(allocations, lookup, Relocating, job.to, mem', construction')
  BY <1>1 DEF IInv
<1>4. pc = "relocate" => job.moving \notin pinned'
  BY <1>1 DEF IInv, Scanned
<1>5. owned' \subseteq owned
  BY <1>1
<1> QED
  BY <1>1, <1>2, <1>3, <1>4, <1>5, ProgramInv

LEMMA FailedInv == \A o \in Objects : IInv /\ SetInitializationFailed(o) => IInv'
<1> SUFFICES ASSUME NEW o \in Objects, IInv, SetInitializationFailed(o) PROVE IInv'
  OBVIOUS
<1>1. /\ UNCHANGED <<allocations, handle, lookup, mem, owned, pinned, asked, pc, job, fault>>
      /\ o \in pinned /\ construction' = [construction EXCEPT ![o] = "failed"]
  BY DEF SetInitializationFailed, heapVars
<1>2. construction \in [Objects -> {"none", "done", "failed"}]
  BY DEF IInv, LocalTypes
<1>3. \A x \in Objects : construction'[x] = IF x = o THEN "failed" ELSE construction[x]
  BY <1>1, <1>2
<1>4. LocalTypes'
  BY <1>1, <1>2 DEF IInv, LocalTypes
<1>5. Filled(allocations, lookup, Relocating, job.to, mem', construction')
  <2>1. \A x \in Objects : construction'[x] = "done" => construction[x] = "done"
    BY <1>3
  <2> QED
    BY <1>1, <2>1 DEF IInv, Filled
<1>6. \A x \in Objects : construction'[x] # construction[x] => x \in pinned
  BY <1>1, <1>3
<1>7. pc = "relocate" => job.moving \notin pinned'
  BY <1>1 DEF IInv, Scanned
<1> QED
  BY <1>1, <1>4, <1>5, <1>6, <1>7, ProgramInv

LEMMA InitializeInv == \A o \in Objects : IInv /\ Initialize(o) => IInv'
<1> SUFFICES ASSUME NEW o \in Objects, IInv, Initialize(o) PROVE IInv'
  OBVIOUS
<1>1. /\ UNCHANGED <<allocations, handle, lookup, owned, pinned, asked, pc, job, fault>>
      /\ o \in pinned /\ construction' = [construction EXCEPT ![o] = "done"]
      /\ mem' = [b \in Bytes |-> IF Within(b, handle[o]) THEN <<o, b - handle[o].at>> ELSE mem[b]]
  BY DEF Initialize
<1>2. /\ construction \in [Objects -> {"none", "done", "failed"}]
      /\ mem \in [Bytes -> (Objects \cup {None}) \X (0 .. PageSize)]
  BY DEF IInv, LocalTypes
<1>3. \A x \in Objects : construction'[x] = IF x = o THEN "done" ELSE construction[x]
  BY <1>1, <1>2
<1>4. Laid(allocations, lookup, handle, Relocating, job.to) /\ Ordered(allocations)
  BY DEF IInv, Laid
<1>5. o \in Registered
  BY <1>1 DEF IInv, LocalTypes, Served
<1>6. PICK k \in DOMAIN allocations :
         EntryOf(allocations, lookup, handle, Relocating, job.to, k, o)
  BY <1>4, <1>5, RegisteredEntry
<1>7. /\ handle[o].at = allocations[k].offset /\ handle[o].size = allocations[k].size
      /\ allocations[k].offset \in Nat /\ allocations[k].size \in Nat /\ PageSize \in Nat
      /\ allocations[k].offset + allocations[k].size <= PageSize /\ k \in Nat
  BY <1>4, <1>6, EntryTypes DEF EntryOf
<1>8. mem' \in [Bytes -> (Objects \cup {None}) \X (0 .. PageSize)]
  <2> SUFFICES ASSUME NEW b \in Bytes, Within(b, handle[o])
               PROVE  <<o, b - handle[o].at>> \in (Objects \cup {None}) \X (0 .. PageSize)
    BY <1>1, <1>2
  <2>1. b - handle[o].at \in 0 .. PageSize
    BY <1>7 DEF Within, Bytes
  <2> QED
    BY <2>1
<1>9. LocalTypes'
  BY <1>1, <1>2, <1>8 DEF IInv, LocalTypes
<1>10. Filled(allocations, lookup, Relocating, job.to, mem', construction')
  <2> SUFFICES ASSUME NEW m \in DOMAIN allocations, NEW x \in Objects,
                      lookup[Spot(allocations, Relocating, job.to, m)] = x,
                      construction'[x] = "done",
                      NEW j \in 0 .. allocations[m].size - 1
               PROVE  mem'[allocations[m].offset + j] = <<x, j>>
    BY DEF Filled
  <2>1. /\ m \in Nat /\ allocations[m].offset \in Nat /\ allocations[m].size \in Nat
        /\ allocations[m].offset + allocations[m].size <= PageSize
    BY <1>4, EntryTypes
  <2>2. PICK b : b = allocations[m].offset + j
    OBVIOUS
  <2>3. /\ b \in Nat /\ allocations[m].offset <= b /\ j = b - allocations[m].offset
        /\ b < allocations[m].offset + allocations[m].size
    BY <2>1, <2>2
  <2>4. b \in Bytes
    BY <1>7, <2>1, <2>3 DEF Bytes
  <2>5. CASE m = k
    <3>1. x = o
      BY <1>6, <2>5 DEF EntryOf
    <3>2. Within(b, handle[o])
      BY <1>7, <2>3, <2>5 DEF Within
    <3>3. mem'[b] = <<o, b - handle[o].at>>
      BY <1>1, <2>4, <3>2
    <3> QED
      BY <1>7, <2>2, <2>3, <2>5, <3>1, <3>3
  <2>6. CASE m # k
    <3>1. x # o
      <4>1. lookup[Spot(allocations, Relocating, job.to, k)] = o
        BY <1>6 DEF EntryOf
      <4> QED
        BY <1>4, <2>6, <4>1, OwnersDiffer
    <3>2. construction[x] = "done"
      BY <1>3, <3>1
    <3>3. mem[b] = <<x, j>>
      BY <2>2, <3>2 DEF IInv, Filled
    <3>4. ~Within(b, handle[o])
      <4>1. CASE m < k
        <5>1. allocations[m].offset + allocations[m].size <= allocations[k].offset
          BY <1>4, <4>1 DEF Ordered
        <5> QED
          BY <1>7, <2>1, <2>3, <5>1 DEF Within
      <4>2. CASE k < m
        <5>1. allocations[k].offset + allocations[k].size <= allocations[m].offset
          BY <1>4, <4>2 DEF Ordered
        <5> QED
          BY <1>7, <2>1, <2>3, <5>1 DEF Within
      <4>3. m < k \/ k < m
        <5>1. k \in Nat
          BY <1>4, EntryTypes
        <5> QED
          BY <2>1, <2>6, <5>1
      <4> QED
        BY <4>1, <4>2, <4>3
    <3>5. mem'[b] = mem[b]
      BY <1>1, <2>4, <3>4
    <3> QED
      BY <2>2, <3>3, <3>5
  <2> QED
    BY <2>5, <2>6
<1>11. \A x \in Objects : construction'[x] # construction[x] => x \in pinned
  BY <1>1, <1>3
<1>12. pc = "relocate" => job.moving \notin pinned'
  BY <1>1 DEF IInv, Scanned
<1>13. owned' \subseteq owned
  BY <1>1
<1> QED
  BY <1>1, <1>9, <1>10, <1>11, <1>12, <1>13, ProgramInv

LEMMA StutterInv == IInv /\ UNCHANGED vars => IInv'
<1> SUFFICES ASSUME IInv, UNCHANGED vars PROVE IInv'
  OBVIOUS
<1>1. UNCHANGED <<allocations, handle, lookup, mem, construction, owned, pinned, asked,
                  pc, job, fault>>
  BY DEF vars, heapVars, restVars
<1>2. LocalTypes'
  BY <1>1 DEF IInv, LocalTypes
<1>3. Filled(allocations, lookup, Relocating, job.to, mem', construction')
  BY <1>1 DEF IInv
<1>4. pc = "relocate" => job.moving \notin pinned'
  BY <1>1 DEF IInv, Scanned
<1> QED
  BY <1>1, <1>2, <1>3, <1>4, ProgramInv

LEMMA OthersInv ==
    IInv /\ [Next]_vars /\ ~Try => IInv'
<1> SUFFICES ASSUME IInv, [Next]_vars, ~Try PROVE IInv'
  OBVIOUS
<1>1. CASE TryThrows
  BY <1>1, TryThrowsInv
<1>2. CASE TakeId
  BY <1>2, TakeIdInv
<1>3. CASE CollectAlive
  BY <1>3, CollectAliveInv
<1>4. CASE CollectDead
  BY <1>4, CollectDeadInv
<1>5. CASE CollectEnd
  BY <1>5, CollectEndInv
<1>6. CASE Defragment
  BY <1>6, DefragmentInv
<1>7. CASE RelocateObject
  BY <1>7, RelocateInv
<1>8. CASE DefragmentEnd
  BY <1>8, DefragmentEndInv
<1>9. CASE Allocate
  BY <1>9, AllocateInv
<1>10. ASSUME NEW defragment \in BOOLEAN, Collect(defragment) PROVE IInv'
  BY <1>10, CollectInv
<1>11. ASSUME NEW o \in Objects, Pin(o) \/ Unpin(o) \/ DropObject(o) PROVE IInv'
  BY <1>11, PinInv
<1>12. ASSUME NEW o \in Objects, Initialize(o) PROVE IInv'
  BY <1>12, InitializeInv
<1>13. ASSUME NEW o \in Objects, SetInitializationFailed(o) PROVE IInv'
  BY <1>13, FailedInv
<1>14. CASE UNCHANGED vars
  BY <1>14, StutterInv
<1> QED
  BY <1>1, <1>2, <1>3, <1>4, <1>5, <1>6, <1>7, <1>8, <1>9, <1>10, <1>11, <1>12, <1>13, <1>14
     DEF Next, Work

-------------------------------------------------------------------------------
(* The objects of a page whose list is wrong *)

LooseEntries == [offset : Addresses, size : Nat]
LooseLocals == [req : Objects \cup {None}, tries : 0 .. 2, compact : BOOLEAN,
                i : Nat \ {0}, last : Nat, moving : Objects \cup {None}, to : Nat]

\* What the lookup has at an address is an object in a region of the page that begins
\* there and that is apart from the others.
Housed(table, regions) ==
    /\ table \in [Addresses -> Objects \cup {None}]
    /\ regions \in [Objects -> Regions]
    /\ \A a \in Addresses : table[a] # None =>
          /\ regions[table[a]].at = a /\ regions[table[a]].size # 0
          /\ a + regions[table[a]].size <= PageSize
    /\ \A a, b \in Addresses : table[a] # None /\ table[b] # None /\ a < b =>
          a + regions[table[a]].size <= b

Kept(table, regions, memory, progress) ==
    \A a \in Addresses : table[a] # None /\ progress[table[a]] = "done" =>
       \A j \in 0 .. regions[table[a]].size - 1 : memory[a + j] = <<table[a], j>>

LooseTypes ==
    /\ allocations \in Seq(LooseEntries)
    /\ mem \in [Bytes -> (Objects \cup {None}) \X (0 .. PageSize)]
    /\ construction \in [Objects -> {"none", "done", "failed"}]
    /\ pinned \subseteq owned /\ owned \subseteq Objects
    /\ asked \in 0 .. Len(Requests)
    /\ pc \in {"idle", "try", "id", "collect", "defragment"}
    /\ job \in LooseLocals

\* What the list says does not matter.
Settled ==
    /\ LooseTypes
    /\ Housed(lookup, handle) /\ Kept(lookup, handle, mem, construction)
    /\ Served /\ fault \subseteq {"unregistered/invalid allocation"}

LEMMA HousedTypes ==
    ASSUME NEW table, NEW regions, Housed(table, regions), NEW a \in Addresses, table[a] # None
    PROVE  /\ a \in Nat /\ PageSize \in Nat \ {0} /\ table[a] \in Objects
           /\ regions[table[a]].at = a
           /\ regions[table[a]].size \in Nat \ {0}
           /\ a + regions[table[a]].size <= PageSize
           /\ \A b \in Addresses : table[b] # None /\ b # a =>
                 \/ a + regions[table[a]].size <= b
                 \/ b + regions[table[b]].size <= a
<1>1. PageSize \in Nat \ {0} /\ a \in Nat /\ \A b \in Addresses : b \in Nat
  BY PageAssumption DEF Addresses
<1>2. table[a] \in Objects
  BY DEF Housed
<1>3. regions[table[a]] \in Regions
  BY <1>2 DEF Housed
<1>4. regions[table[a]].size \in Nat \ {0}
  BY <1>1, <1>3 DEF Housed, Regions
<1>5. ASSUME NEW b \in Addresses, table[b] # None, b # a
      PROVE  a + regions[table[a]].size <= b \/ b + regions[table[b]].size <= a
  <2>1. a < b \/ b < a
    BY <1>1, <1>5
  <2> QED
    BY <1>5, <2>1 DEF Housed
<1> QED
  BY <1>1, <1>2, <1>4, <1>5 DEF Housed

LEMMA RegisteredAt ==
    ASSUME NEW o \in Registered
    PROVE  o \in Objects /\ o # None /\ \E a \in Addresses : lookup[a] = o
BY RequestTypes DEF Registered

\* A list that is right says where the objects are.
LEMMA HousedEntry ==
    ASSUME IInv, pc # "relocate", NEW a \in Addresses, lookup[a] # None
    PROVE  \E k \in DOMAIN allocations :
              /\ a = allocations[k].offset /\ Spot(allocations, 0, 0, k) = a
              /\ handle[lookup[a]].at = a /\ handle[lookup[a]].size = allocations[k].size
              /\ lookup[a] \in Objects
<1>1. AtRest /\ Ordered(allocations)
  BY RestsUnlessRelocating
<1>2. PICK k \in DOMAIN allocations : a = Spot(allocations, 0, 0, k)
  BY <1>1 DEF AtRest, Laid
<1>3. a = allocations[k].offset
  BY <1>1, <1>2, SpotAtRest
<1> QED
  BY <1>1, <1>2, <1>3, EntryAtRest

LEMMA RestSettles ==
    ASSUME IInv, pc # "relocate"
    PROVE  Settled
<1>1. AtRest /\ Ordered(allocations)
  BY RestsUnlessRelocating
<1>2. lookup \in [Addresses -> Objects \cup {None}] /\ handle \in [Objects -> Regions]
  BY <1>1 DEF AtRest, Laid
<1>3. ASSUME NEW a \in Addresses, lookup[a] # None
      PROVE  \E k \in DOMAIN allocations :
                /\ a = allocations[k].offset /\ Spot(allocations, 0, 0, k) = a
                /\ handle[lookup[a]].at = a /\ handle[lookup[a]].size = allocations[k].size
                /\ lookup[a] \in Objects
  BY <1>3, HousedEntry
<1>4. Housed(lookup, handle)
  <2>1. ASSUME NEW a \in Addresses, lookup[a] # None
        PROVE  /\ handle[lookup[a]].at = a /\ handle[lookup[a]].size # 0
               /\ a + handle[lookup[a]].size <= PageSize
    <3>1. PICK k \in DOMAIN allocations :
             /\ a = allocations[k].offset
             /\ handle[lookup[a]].at = a /\ handle[lookup[a]].size = allocations[k].size
      BY <1>3, <2>1
    <3>2. allocations[k].size \in Nat \ {0} /\ allocations[k].offset + allocations[k].size <= PageSize
      BY <1>1, EntryTypes
    <3> QED
      BY <3>1, <3>2
  <2>2. ASSUME NEW a \in Addresses, NEW b \in Addresses, lookup[a] # None, lookup[b] # None, a < b
        PROVE  a + handle[lookup[a]].size <= b
    <3>1. PICK k \in DOMAIN allocations :
             a = allocations[k].offset /\ handle[lookup[a]].size = allocations[k].size
      BY <1>3, <2>2
    <3>2. PICK m \in DOMAIN allocations : b = allocations[m].offset
      BY <1>3, <2>2
    <3>3. /\ k \in Nat /\ m \in Nat /\ a \in Nat /\ b \in Nat /\ allocations[m].size \in Nat
          /\ allocations[k].size \in Nat
      BY <1>1, <3>1, <3>2, EntryTypes
    <3>4. ~(m < k) /\ m # k
      <4>1. ASSUME m < k PROVE FALSE
        <5>1. allocations[m].offset + allocations[m].size <= allocations[k].offset
          BY <1>1, <4>1 DEF Ordered
        <5> QED
          BY <2>2, <3>1, <3>2, <3>3, <5>1
      <4> QED
        BY <2>2, <3>1, <3>2, <3>3, <4>1
    <3>5. allocations[k].offset + allocations[k].size <= allocations[m].offset
      BY <1>1, <3>3, <3>4 DEF Ordered
    <3> QED
      BY <3>1, <3>2, <3>5
  <2> QED
    BY <1>2, <2>1, <2>2 DEF Housed
<1>5. Kept(lookup, handle, mem, construction)
  <2> SUFFICES ASSUME NEW a \in Addresses, lookup[a] # None, construction[lookup[a]] = "done",
                      NEW j \in 0 .. handle[lookup[a]].size - 1
               PROVE  mem[a + j] = <<lookup[a], j>>
    BY DEF Kept
  <2>1. PICK k \in DOMAIN allocations :
           /\ a = allocations[k].offset /\ Spot(allocations, 0, 0, k) = a
           /\ handle[lookup[a]].size = allocations[k].size /\ lookup[a] \in Objects
    BY <1>3
  <2>2. PICK o \in Objects : o = lookup[a]
    BY <2>1
  <2>3. lookup[Spot(allocations, 0, 0, k)] = o /\ construction[o] = "done"
        /\ j \in 0 .. allocations[k].size - 1
    BY <2>1, <2>2
  <2>4. mem[allocations[k].offset + j] = <<o, j>>
    BY <1>1, <2>3 DEF AtRest, Filled
  <2> QED
    BY <2>1, <2>2, <2>4
<1>6. LooseTypes
  <2>1. PageSize \in Nat \ {0}
    BY PageAssumption
  <2>2. Entries \subseteq LooseEntries /\ Locals \subseteq LooseLocals
    BY <2>1 DEF Entries, LooseEntries, Locals, LooseLocals, Bytes, Addresses
  <2>3. allocations \in Seq(LooseEntries)
    <3>1. allocations \in Seq(Entries)
      BY <1>1 DEF Ordered
    <3> QED
      BY <2>2, <3>1, SeqDef
  <2> QED
    BY <2>2, <2>3 DEF IInv, LocalTypes, LooseTypes, Idle
<1> QED
  BY <1>4, <1>5, <1>6 DEF IInv, Settled

\* Steps that leave the objects alone.
LEMMA SettledLocals ==
    ASSUME Settled,
           UNCHANGED <<handle, lookup, mem, construction, owned, pinned, asked>>,
           allocations' \in Seq(LooseEntries),
           pc' \in {"idle", "try", "id", "collect", "defragment"}, job' \in LooseLocals,
           job'.req \in {None, job.req}, pc' = "try" => job'.req # None,
           fault' \subseteq fault \cup {"unregistered/invalid allocation"}
    PROVE  Settled'
<1>1. Registered' = Registered
  BY DEF Registered
<1>2. LooseTypes'
  BY DEF Settled, LooseTypes
<1>3. Housed(lookup', handle') /\ Kept(lookup', handle', mem', construction')
  BY DEF Settled
<1>4. Served'
  <2>1. \A o \in Objects : o # None
    BY RequestTypes
  <2> QED
    BY <1>1, <2>1 DEF Settled, Served
<1>5. fault' \subseteq {"unregistered/invalid allocation"}
  BY DEF Settled
<1> QED
  BY <1>2, <1>3, <1>4, <1>5 DEF Settled

LEMMA LooseNoJob ==
    /\ NoJob \in LooseLocals
    /\ job \in LooseLocals => job.i \in Nat \ {0} /\ job.tries \in 0 .. 2
<1>1. NoJob \in LooseLocals
  BY DEF NoJob, None, LooseLocals
<1> QED
  BY <1>1 DEF LooseLocals

\* The entry of a list that a scan looks at.
LEMMA LooseEntry ==
    ASSUME Settled, ~AtEnd
    PROVE  /\ Entry \in LooseEntries /\ Entry.offset \in Addresses /\ Entry.size \in Nat
           /\ Entry.offset \in Nat /\ lookup[Entry.offset] \in Objects \cup {None}
<1>1. allocations \in Seq(LooseEntries) /\ job.i \in Nat \ {0}
  BY DEF Settled, LooseTypes, LooseLocals
<1>2. job.i \in 1 .. Len(allocations)
  BY <1>1, LenProperties DEF AtEnd
<1>3. Entry \in LooseEntries
  BY <1>1, <1>2, ElementOfSeq DEF Entry
<1>4. Entry.offset \in Addresses /\ Entry.size \in Nat
  BY <1>3 DEF LooseEntries
<1>5. Entry.offset \in Nat
  BY <1>4, PageAssumption DEF Addresses
<1> QED
  BY <1>3, <1>4, <1>5 DEF Settled, Housed

\* Attempts that do not find a place, as long as the list stays what it is.
LEMMA SettledAgain ==
    ASSUME Settled, pc = "try", allocations' \in Seq(LooseEntries), NotAllocated,
           UNCHANGED <<construction, pinned, asked>>
    PROVE  Settled'
<1>1. job \in LooseLocals /\ job.req # None /\ job.req \in Objects \cup {None}
  BY DEF Settled, LooseTypes, LooseLocals, Served
<1>2. job.tries \in 0 .. 2
  BY <1>1, LooseNoJob
<1>3. UNCHANGED <<handle, lookup, mem, construction, owned, pinned, asked, fault>>
  BY DEF NotAllocated
<1>4. CASE job.tries = 0
  <2>1. pc' = "id" /\ job' = [NoJob EXCEPT !.req = job.req, !.tries = 1]
    BY <1>4 DEF NotAllocated, Start
  <2>2. job' = [req |-> job.req, tries |-> 1, compact |-> FALSE, i |-> 1, last |-> 0,
                moving |-> None, to |-> 0]
    BY <2>1 DEF NoJob
  <2>3. job' \in LooseLocals /\ job'.req = job.req
    BY <1>1, <2>2 DEF LooseLocals
  <2> QED
    BY <1>3, <2>1, <2>3, SettledLocals
<1>5. CASE job.tries = 1
  <2>1. pc' = "defragment" /\ job' = [NoJob EXCEPT !.req = job.req, !.tries = 2]
    BY <1>5 DEF NotAllocated, Start
  <2>2. job' = [req |-> job.req, tries |-> 2, compact |-> FALSE, i |-> 1, last |-> 0,
                moving |-> None, to |-> 0]
    BY <2>1 DEF NoJob
  <2>3. job' \in LooseLocals /\ job'.req = job.req
    BY <1>1, <2>2 DEF LooseLocals
  <2> QED
    BY <1>3, <2>1, <2>3, SettledLocals
<1>6. CASE job.tries = 2
  <2>1. pc' = "idle" /\ job' = NoJob /\ job'.req = None
    BY <1>6, NoJobTyped DEF NotAllocated, Start, Idle, NoJobFields
  <2> QED
    BY <1>3, <2>1, LooseNoJob, SettledLocals
<1> QED
  BY <1>2, <1>4, <1>5, <1>6

\* The entry that is looked for is not there, or is there and goes.
LEMMA WithoutTyped ==
    ASSUME NEW S, NEW list \in Seq(S), NEW region
    PROVE  Without(list, region) \in Seq(S)
<1>1. PICK e : e = [offset |-> region.at, size |-> region.size]
  OBVIOUS
<1>2. Len(list) \in Nat /\ \A j \in 1 .. Len(list) : list[j] \in S
  BY LenProperties, ElementOfSeq
<1>3. CASE ~\E j \in 1 .. Len(list) : list[j] = e
  BY <1>1, <1>3 DEF Without, RemoveFirst
<1>4. CASE \E j \in 1 .. Len(list) : list[j] = e
  <2>1. PICK i : i = SelectInSeq(list, LAMBDA v : v = e)
    OBVIOUS
  <2>2. i \in 1 .. Len(list)
    <3> DEFINE places == {j \in 1 .. Len(list) : list[j] = e}
    <3>1. places \in SUBSET Nat /\ places # {}
      BY <1>2, <1>4
    <3>2. \E x \in places : \A y \in places : x <= y
      BY <3>1, LeastNumber
    <3>3. i = Min(places)
      <4>1. places # {}
        BY <3>1
      <4> QED
        BY <2>1, <4>1 DEF SelectInSeq
    <3>4. Min(places) \in places
      BY <3>2 DEF Min
    <3> QED
      BY <3>3, <3>4
  <2>3. Without(list, region) = SubSeq(list, 1, i - 1) \o SubSeq(list, i + 1, Len(list))
    <3>1. RemoveFirst(list, e) = RemoveAt(list, i)
      BY <1>4, <2>1 DEF RemoveFirst
    <3> QED
      BY <1>1, <3>1 DEF Without, RemoveAt
  <2>4. SubSeq(list, 1, i - 1) \in Seq(S)
    BY <1>2, <2>2, SubSeqProperties
  <2>5. SubSeq(list, i + 1, Len(list)) \in Seq(S)
    BY <1>2, <2>2, SubSeqProperties
  <2> QED
    BY <2>3, <2>4, <2>5, ConcatProperties
<1> QED
  BY <1>3, <1>4

LEMMA SettledCollectDead == Settled /\ CollectDead => Settled'
<1> SUFFICES ASSUME Settled, CollectDead PROVE Settled'
  OBVIOUS
<1>1. /\ pc = "collect" /\ ~AtEnd /\ lookup[Entry.offset] \notin owned
      /\ UNCHANGED <<handle, mem, construction, owned, pinned, asked>>
  BY DEF CollectDead, restVars
<1>2. PICK a : a = Entry.offset /\ a \in Addresses
  BY <1>1, LooseEntry
<1>3. PICK o : o = lookup[a] /\ o \in Objects \cup {None} /\ o \notin owned
  BY <1>1, <1>2, LooseEntry
<1>4. allocations \in Seq(LooseEntries)
  BY DEF Settled, LooseTypes
<1>5. CASE o = None
  <2>1. /\ UNCHANGED <<allocations, lookup>> /\ pc' = "idle" /\ job' = NoJob
        /\ fault' = fault \cup {"unregistered/invalid allocation"}
    BY <1>2, <1>3, <1>5 DEF CollectDead, Abort, Start, Idle
  <2>2. job'.req = None
    BY <2>1, NoJobTyped DEF NoJobFields
  <2> QED
    BY <1>1, <1>4, <2>1, <2>2, LooseNoJob, SettledLocals
<1>6. CASE o # None
  <2>1. /\ handle[o].at = a /\ ~(handle[o].at + handle[o].size > PageSize)
    <3>1. Housed(lookup, handle)
      BY DEF Settled
    <3>2. /\ a \in Nat /\ PageSize \in Nat /\ handle[o].at = a /\ handle[o].size \in Nat
          /\ a + handle[o].size <= PageSize
      BY <1>2, <1>3, <1>6, <3>1, HousedTypes
    <3> QED
      BY <3>2
  <2>2. /\ lookup' = [lookup EXCEPT ![a] = None] /\ UNCHANGED <<pc, job, fault>>
        /\ allocations' = Without(allocations, handle[o])
    BY <1>2, <1>3, <1>6, <2>1 DEF CollectDead
  <2>3. allocations' \in Seq(LooseEntries)
    BY <1>4, <2>2, WithoutTyped
  <2>4. lookup \in [Addresses -> Objects \cup {None}]
    BY DEF Settled, Housed
  <2>5. \A b \in Addresses : lookup'[b] = IF b = a THEN None ELSE lookup[b]
    BY <1>2, <2>2, <2>4
  <2>6. lookup' \in [Addresses -> Objects \cup {None}]
    BY <2>2, <2>4
  <2>7. Housed(lookup', handle')
    BY <1>1, <2>5, <2>6 DEF Settled, Housed
  <2>8. Kept(lookup', handle', mem', construction')
    BY <1>1, <2>5 DEF Settled, Kept
  <2>9. LooseTypes'
    BY <1>1, <2>2, <2>3 DEF Settled, LooseTypes
  <2>10. Served'
    <3>1. Registered' \subseteq Registered
      <4> SUFFICES ASSUME NEW x \in Registered' PROVE x \in Registered
        OBVIOUS
      <4>1. x \in Objects /\ \E b \in Addresses : lookup'[b] = x
        BY DEF Registered
      <4>2. x # None
        BY <4>1, RequestTypes
      <4> QED
        BY <2>5, <4>1, <4>2 DEF Registered
    <3>2. owned \subseteq Registered'
      <4> SUFFICES ASSUME NEW x \in owned PROVE x \in Registered'
        OBVIOUS
      <4>1. x \in Registered /\ x # o
        BY <1>3 DEF Settled, Served
      <4>2. PICK b \in Addresses : lookup[b] = x
        BY <4>1 DEF Registered
      <4>3. lookup'[b] = x
        BY <1>3, <2>5, <4>1, <4>2
      <4> QED
        BY <4>1, <4>3 DEF Registered
    <3> QED
      BY <1>1, <2>2, <3>1, <3>2 DEF Settled, Served
  <2> QED
    BY <2>2, <2>7, <2>8, <2>9, <2>10 DEF Settled
<1> QED
  BY <1>5, <1>6

LEMMA SettledAllocate == Settled /\ Allocate => Settled'
<1> SUFFICES ASSUME Settled, Allocate PROVE Settled'
  OBVIOUS
<1>1. /\ pc' = "try" /\ asked < Len(Requests) /\ asked' = asked + 1
      /\ job' = [NoJob EXCEPT !.req = asked + 1]
      /\ UNCHANGED <<allocations, handle, lookup, mem, construction, owned, pinned, fault>>
  BY DEF Allocate, Start, heapVars
<1>2. Len(Requests) \in Nat /\ Objects = 1 .. Len(Requests) /\ asked \in Nat
  <2>1. asked \in 0 .. Len(Requests)
    BY DEF Settled, LooseTypes
  <2>2. Len(Requests) \in Nat /\ Objects = 1 .. Len(Requests)
    BY PageAssumption, LenProperties DEF Objects
  <2> QED
    BY <2>1, <2>2
<1>3. asked + 1 \in Objects
  BY <1>1, <1>2
<1>4. job' = [req |-> asked + 1, tries |-> 0, compact |-> FALSE, i |-> 1, last |-> 0,
              moving |-> None, to |-> 0]
  BY <1>1 DEF NoJob
<1>5. job' \in LooseLocals /\ job'.req = asked + 1
  BY <1>3, <1>4 DEF LooseLocals
<1>6. Registered' = Registered
  BY <1>1 DEF Registered
<1>7. LooseTypes'
  <2>1. asked' \in 0 .. Len(Requests)
    BY <1>1, <1>2
  <2> QED
    BY <1>1, <1>5, <2>1 DEF Settled, LooseTypes
<1>8. Served'
  <2>1. owned \subseteq Registered /\ Registered \subseteq 1 .. asked
    BY DEF Settled, Served
  <2>2. Registered' \subseteq 1 .. asked' /\ asked' \notin Registered'
    BY <1>1, <1>2, <1>6, <2>1
  <2>3. \A o \in Objects : construction[o] # "none" => o \in 1 .. asked' /\ o # asked + 1
    <3>1. \A o \in Objects : construction[o] # "none" => o \in 1 .. asked
      BY DEF Settled, Served
    <3> QED
      BY <1>1, <1>2, <3>1
  <2>4. job'.req # None
    BY <1>2, <1>5 DEF None
  <2> QED
    BY <1>1, <1>5, <1>6, <2>1, <2>2, <2>3, <2>4 DEF Served
<1> QED
  BY <1>1, <1>7, <1>8 DEF Settled

\* The other steps of a collection and a defragmentation that move nothing.
LEMMA SettledScans ==
    ASSUME Settled, NEW defragment \in BOOLEAN,
           \/ Collect(defragment) \/ TryThrows \/ TakeId \/ CollectAlive \/ CollectEnd
           \/ DefragmentEnd
    PROVE  Settled'
<1>1. /\ allocations \in Seq(LooseEntries) /\ job \in LooseLocals
      /\ pc \in {"idle", "try", "id", "collect", "defragment"}
  BY DEF Settled, LooseTypes
<1>2. NoJob \in LooseLocals /\ NoJob.req = None
  BY LooseNoJob, NoJobTyped DEF NoJobFields
<1>3. UNCHANGED <<allocations, handle, lookup, mem, construction, owned, pinned, asked, fault>>
  BY DEF Collect, TryThrows, TakeId, CollectAlive, CollectEnd, DefragmentEnd, heapVars, restVars
<1>4. \/ pc' = "id" /\ job' = [NoJob EXCEPT !.compact = defragment]
      \/ pc' \in {"idle", "defragment"} /\ job' = NoJob
      \/ pc' = "collect" /\ job' = job
      \/ pc' = "collect" /\ job' = [job EXCEPT !.i = @ + 1]
      \/ job.req # None /\ pc' = "try" /\ job' = job
  <2>1. CASE Collect(defragment)
    BY <2>1 DEF Collect, Start
  <2>2. CASE TryThrows
    BY <2>2 DEF TryThrows, Start, Idle
  <2>3. CASE TakeId
    BY <2>3 DEF TakeId
  <2>4. CASE CollectAlive
    BY <2>4 DEF CollectAlive
  <2>5. CASE CollectEnd
    BY <2>5 DEF CollectEnd, Start, Idle
  <2>6. CASE DefragmentEnd
    BY <2>6 DEF DefragmentEnd, Start, Idle
  <2> QED
    BY <2>1, <2>2, <2>3, <2>4, <2>5, <2>6
<1>5. job' \in LooseLocals /\ job'.req \in {None, job.req} /\ (pc' = "try" => job'.req # None)
      /\ pc' \in {"idle", "try", "id", "collect", "defragment"}
  <2>1. CASE pc' = "id" /\ job' = [NoJob EXCEPT !.compact = defragment]
    BY <1>2, <2>1 DEF LooseLocals
  <2>2. CASE pc' \in {"idle", "defragment"} /\ job' = NoJob
    BY <1>2, <2>2
  <2>3. CASE pc' = "collect" /\ job' = [job EXCEPT !.i = @ + 1]
    BY <1>1, <2>3 DEF LooseLocals
  <2>4. CASE pc' = "collect" /\ job' = job
    BY <1>1, <2>4
  <2>5. CASE job.req # None /\ pc' = "try" /\ job' = job
    BY <1>1, <2>5
  <2> QED
    BY <1>4, <2>1, <2>2, <2>3, <2>4, <2>5
<1> QED
  BY <1>1, <1>3, <1>5, SettledLocals

\* Defragmentation, as long as it moves nothing.
LEMMA SettledDefragment ==
    ASSUME Settled, Defragment, listing = "wrong", listing' = "wrong"
    PROVE  Settled'
<1>1. /\ pc = "defragment" /\ ~AtEnd
      /\ UNCHANGED <<allocations, handle, mem, construction, owned, pinned, asked>>
  BY DEF Defragment, restVars
<1>2. allocations \in Seq(LooseEntries) /\ job \in LooseLocals
  BY DEF Settled, LooseTypes
<1>3. PICK o : o = lookup[Entry.offset]
  OBVIOUS
<1>4. \/ /\ pc' = "idle" /\ job' = NoJob /\ UNCHANGED lookup
         /\ fault' = fault \cup {"unregistered/invalid allocation"}
      \/ job' = Pass(Entry.offset + Entry.size) /\ UNCHANGED <<lookup, pc, fault>>
  <2>1. CASE o = None
    BY <1>3, <2>1 DEF Defragment, Abort, Start, Idle
  <2>2. CASE o # None /\ MayMove(o)
    <3>1. Follow(FALSE)
      BY <1>3, <2>2 DEF Defragment
    <3> QED
      BY <3>1 DEF Follow
  <2>3. CASE o # None /\ ~MayMove(o)
    BY <1>3, <2>3 DEF Defragment
  <2> QED
    BY <2>1, <2>2, <2>3
<1>5. CASE /\ pc' = "idle" /\ job' = NoJob /\ UNCHANGED lookup
           /\ fault' = fault \cup {"unregistered/invalid allocation"}
  BY <1>1, <1>2, <1>5, LooseNoJob, NoJobTyped, SettledLocals DEF NoJobFields
<1>6. CASE job' = Pass(Entry.offset + Entry.size) /\ UNCHANGED <<lookup, pc, fault>>
  <2>1. PICK end \in Nat : end = Entry.offset + Entry.size
    BY <1>1, LooseEntry
  <2>2. job' = [job EXCEPT !.i = @ + 1, !.last = end, !.moving = None, !.to = 0]
    BY <1>6, <2>1 DEF Pass
  <2>3. job.i + 1 \in Nat \ {0} /\ 0 \in Nat /\ None \in Objects \cup {None}
    BY <1>2, LooseNoJob
  <2>4. job' \in LooseLocals
    BY <1>2, <2>2, <2>3 DEF LooseLocals
  <2>5. job'.req = job.req
    BY <1>2, <2>2 DEF LooseLocals
  <2> QED
    BY <1>1, <1>2, <1>6, <2>4, <2>5, SettledLocals
<1> QED
  BY <1>4, <1>5, <1>6

\* What the program does to its objects.
LEMMA SettledProgram ==
    ASSUME Settled, UNCHANGED <<allocations, handle, lookup, asked, pc, job, fault>>,
           LooseTypes', Kept(lookup, handle, mem', construction'), owned' \subseteq owned,
           \A o \in Objects : construction'[o] # construction[o] => o \in pinned
    PROVE  Settled'
<1>1. Registered' = Registered
  BY DEF Registered
<1>2. Served'
  <2>1. ASSUME NEW o \in Objects, construction'[o] # "none"
        PROVE  o \in 1 .. asked /\ o # job.req
    <3>1. CASE o \in pinned
      <4>1. o \in Registered
        BY <3>1 DEF Settled, LooseTypes, Served
      <4> QED
        BY <4>1, RequestTypes DEF Settled, Served
    <3>2. CASE o \notin pinned
      BY <2>1, <3>2 DEF Settled, Served
    <3> QED
      BY <3>1, <3>2
  <2> QED
    BY <1>1, <2>1 DEF Settled, Served
<1> QED
  BY <1>2 DEF Settled

LEMMA SettledPins ==
    ASSUME NEW o \in Objects, Settled,
           Pin(o) \/ Unpin(o) \/ DropObject(o) \/ SetInitializationFailed(o)
    PROVE  Settled'
<1>1. /\ UNCHANGED <<allocations, handle, lookup, mem, asked, pc, job, fault>>
      /\ \/ /\ o \in owned \ pinned /\ pinned' = pinned \cup {o} /\ owned' = owned
            /\ UNCHANGED construction
         \/ pinned' = pinned \ {o} /\ owned' = owned /\ UNCHANGED construction
         \/ /\ o \in owned \ pinned /\ owned' = owned \ {o} /\ pinned' = pinned
            /\ UNCHANGED construction
         \/ /\ o \in pinned /\ construction' = [construction EXCEPT ![o] = "failed"]
            /\ UNCHANGED <<owned, pinned>>
  BY DEF Pin, Unpin, DropObject, SetInitializationFailed, heapVars
<1>2. construction \in [Objects -> {"none", "done", "failed"}]
  BY DEF Settled, LooseTypes
<1>3. /\ construction' \in [Objects -> {"none", "done", "failed"}]
      /\ \A x \in Objects : construction'[x] = "done" => construction[x] = "done"
      /\ \A x \in Objects : construction'[x] # construction[x] => x \in pinned
  BY <1>1, <1>2
<1>4. LooseTypes' /\ owned' \subseteq owned
  BY <1>1, <1>3 DEF Settled, LooseTypes
<1>5. Kept(lookup, handle, mem', construction')
  <2>1. \A a \in Addresses : lookup[a] # None => lookup[a] \in Objects
    BY HousedTypes DEF Settled
  <2> QED
    BY <1>1, <1>3, <2>1 DEF Settled, Kept
<1> QED
  BY <1>1, <1>3, <1>4, <1>5, SettledProgram

LEMMA SettledInitialize ==
    ASSUME NEW o \in Objects, Settled, Initialize(o)
    PROVE  Settled'
<1>1. /\ UNCHANGED <<allocations, handle, lookup, owned, pinned, asked, pc, job, fault>>
      /\ o \in pinned /\ construction' = [construction EXCEPT ![o] = "done"]
      /\ mem' = [b \in Bytes |-> IF Within(b, handle[o]) THEN <<o, b - handle[o].at>> ELSE mem[b]]
  BY DEF Initialize
<1>2. /\ construction \in [Objects -> {"none", "done", "failed"}]
      /\ mem \in [Bytes -> (Objects \cup {None}) \X (0 .. PageSize)]
      /\ Housed(lookup, handle) /\ Kept(lookup, handle, mem, construction)
  BY DEF Settled, LooseTypes
<1>3. \A x \in Objects : construction'[x] = IF x = o THEN "done" ELSE construction[x]
  BY <1>1, <1>2
<1>4. o \in Registered
  BY <1>1 DEF Settled, LooseTypes, Served
<1>5. PICK c \in Addresses : lookup[c] = o /\ lookup[c] # None
  BY <1>4, RegisteredAt
<1>6. PICK n \in Nat \ {0} :
         /\ n = handle[o].size /\ c = handle[o].at /\ c \in Nat /\ PageSize \in Nat
         /\ c + n <= PageSize
         /\ \A a \in Addresses : lookup[a] # None /\ a # c =>
               c + n <= a \/ a + handle[lookup[a]].size <= c
  BY <1>2, <1>5, HousedTypes
<1>7. \A b \in Bytes : Within(b, handle[o]) <=> c <= b /\ b < c + n
  BY <1>6 DEF Within, Bytes
<1>8. LooseTypes'
  <2>1. mem' \in [Bytes -> (Objects \cup {None}) \X (0 .. PageSize)]
    <3> SUFFICES ASSUME NEW b \in Bytes, Within(b, handle[o])
                 PROVE  <<o, b - handle[o].at>> \in (Objects \cup {None}) \X (0 .. PageSize)
      BY <1>1, <1>2
    <3>1. b - c \in 0 .. PageSize
      BY <1>6, <1>7 DEF Bytes
    <3> QED
      BY <1>6, <3>1
  <2>2. construction' \in [Objects -> {"none", "done", "failed"}]
    BY <1>1, <1>2
  <2> QED
    BY <1>1, <2>1, <2>2 DEF Settled, LooseTypes
<1>9. Kept(lookup, handle, mem', construction')
  <2> SUFFICES ASSUME NEW a \in Addresses, lookup[a] # None, construction'[lookup[a]] = "done",
                      NEW j \in 0 .. handle[lookup[a]].size - 1
               PROVE  mem'[a + j] = <<lookup[a], j>>
    BY DEF Kept
  <2>1. PICK m \in Nat : /\ m = handle[lookup[a]].size /\ a \in Nat /\ a + m <= PageSize
                         /\ lookup[a] \in Objects /\ handle[lookup[a]].at = a
    BY <1>2, HousedTypes
  <2>2. PICK b : b = a + j
    OBVIOUS
  <2>3. b \in Bytes /\ a <= b /\ b < a + m /\ j = b - a /\ b \in Nat
    BY <1>6, <2>1, <2>2 DEF Bytes
  <2>4. CASE a = c
    <3>1. Within(b, handle[o])
      BY <1>5, <1>6, <1>7, <2>1, <2>3, <2>4
    <3>2. mem'[b] = <<o, b - handle[o].at>>
      BY <1>1, <2>3, <3>1
    <3> QED
      BY <1>5, <1>6, <2>2, <2>3, <2>4, <3>2
  <2>5. CASE a # c
    <3>1. lookup[a] # o
      BY <1>6, <2>1, <2>5
    <3>2. mem[b] = <<lookup[a], j>>
      BY <1>2, <1>3, <2>1, <2>2, <3>1 DEF Kept
    <3>3. c + n <= a \/ a + m <= c
      BY <1>6, <2>1, <2>5
    <3>4. ~Within(b, handle[o])
      BY <1>6, <1>7, <2>1, <2>3, <3>3
    <3> QED
      BY <1>1, <2>2, <2>3, <3>2, <3>4
  <2> QED
    BY <2>4, <2>5
<1>10. \A x \in Objects : construction'[x] # construction[x] => x \in pinned
  BY <1>1, <1>3
<1> QED
  BY <1>1, <1>8, <1>9, <1>10, SettledProgram

-------------------------------------------------------------------------------
(* Where a wrong entry comes from *)

\* A region that is apart from every object.
Apart(region) ==
    \A a \in Addresses : lookup[a] # None =>
       a + handle[lookup[a]].size <= region.at \/ region.at + region.size <= a

LEMMA ZeroedApart ==
    ASSUME Settled, NEW region \in Regions, Apart(region)
    PROVE  /\ Zeroed(region) \in [Bytes -> (Objects \cup {None}) \X (0 .. PageSize)]
           /\ Kept(lookup, handle, Zeroed(region), construction)
<1>1. PageSize \in Nat \ {0} /\ Scrap \in (Objects \cup {None}) \X (0 .. PageSize)
  BY PageAssumption DEF Scrap
<1>2. mem \in [Bytes -> (Objects \cup {None}) \X (0 .. PageSize)] /\ Housed(lookup, handle)
      /\ Kept(lookup, handle, mem, construction)
  BY DEF Settled, LooseTypes
<1>3. Zeroed(region) \in [Bytes -> (Objects \cup {None}) \X (0 .. PageSize)]
  BY <1>1, <1>2 DEF Zeroed
<1>4. ASSUME NEW a \in Addresses, lookup[a] # None, construction[lookup[a]] = "done",
             NEW j \in 0 .. handle[lookup[a]].size - 1
      PROVE  Zeroed(region)[a + j] = <<lookup[a], j>>
  <2>1. PICK m \in Nat : m = handle[lookup[a]].size /\ a \in Nat /\ a + m <= PageSize
    BY <1>2, <1>4, HousedTypes
  <2>2. PICK b : b = a + j
    OBVIOUS
  <2>3. b \in Bytes /\ b \in Nat /\ a <= b /\ b < a + m
    BY <1>1, <2>1, <2>2 DEF Bytes
  <2>4. a + m <= region.at \/ region.at + region.size <= a
    BY <1>4, <2>1 DEF Apart
  <2>5. region.at \in Nat /\ region.size \in Nat
    BY <1>1 DEF Regions
  <2>6. ~Within(b, region)
    BY <2>1, <2>3, <2>4, <2>5 DEF Within
  <2>7. mem[b] = <<lookup[a], j>>
    BY <1>2, <1>4, <2>2 DEF Kept
  <2> QED
    BY <2>2, <2>3, <2>6, <2>7 DEF Zeroed
<1> QED
  BY <1>3, <1>4 DEF Kept

\* An object is registered there, or an exception gives the region back.
LEMMA PlaceSettles ==
    ASSUME Settled, pc = "try", NEW region \in Regions, region.size # 0,
           region.at + region.size <= PageSize, Apart(region),
           RegisterObject(job.req, region) \/ RegistrationThrows(region),
           allocations' \in Seq(LooseEntries), UNCHANGED <<construction, pinned, asked>>,
           pc' = "idle", job' = NoJob
    PROVE  Settled'
<1>1. PICK o : o = job.req
  OBVIOUS
<1>2. o \in Objects /\ o # None /\ o = asked /\ o \notin Registered /\ construction[o] = "none"
  BY <1>1 DEF Settled, LooseTypes, LooseLocals, Served
<1>3. PICK at \in Nat, size \in Nat \ {0} :
         at = region.at /\ size = region.size /\ at + size <= PageSize /\ PageSize \in Nat
         /\ at \in Addresses
  BY PageAssumption DEF Regions, Addresses
<1>4. Housed(lookup, handle) /\ lookup \in [Addresses -> Objects \cup {None}]
      /\ handle \in [Objects -> Regions]
  BY DEF Settled, Housed
<1>5. \A a \in Addresses : lookup[a] # None =>
         /\ a # at /\ a \in Nat /\ handle[lookup[a]].size \in Nat \ {0}
         /\ a + handle[lookup[a]].size <= at \/ at + size <= a
         /\ lookup[a] \in Objects /\ lookup[a] # o
  <2> SUFFICES ASSUME NEW a \in Addresses, lookup[a] # None
               PROVE  /\ a # at /\ a \in Nat /\ handle[lookup[a]].size \in Nat \ {0}
                      /\ a + handle[lookup[a]].size <= at \/ at + size <= a
                      /\ lookup[a] \in Objects /\ lookup[a] # o
    OBVIOUS
  <2>1. a \in Nat /\ handle[lookup[a]].size \in Nat \ {0} /\ lookup[a] \in Objects
    BY <1>4, HousedTypes
  <2>2. a + handle[lookup[a]].size <= at \/ at + size <= a
    BY <1>3 DEF Apart
  <2>3. lookup[a] # o
    BY <1>2, <2>1 DEF Registered
  <2> QED
    BY <1>3, <2>1, <2>2, <2>3
<1>6. lookup[at] = None
  BY <1>3, <1>5
<1>7. /\ Zeroed(region) \in [Bytes -> (Objects \cup {None}) \X (0 .. PageSize)]
      /\ Kept(lookup, handle, Zeroed(region), construction)
  BY ZeroedApart
<1>8. NoJob.req = None /\ \A x \in Objects : x # None
  BY NoJobTyped, RequestTypes DEF NoJobFields
<1>9. CASE RegistrationThrows(region)
  <2>1. mem' \in {mem, Zeroed(region)} /\ UNCHANGED <<handle, lookup, owned, fault>>
    BY <1>3, <1>6, <1>9 DEF RegistrationThrows
  <2>2. Registered' = Registered
    BY <2>1 DEF Registered
  <2>3. LooseTypes'
    BY <1>7, <2>1, LooseNoJob DEF Settled, LooseTypes
  <2>4. Kept(lookup', handle', mem', construction')
    BY <1>7, <2>1 DEF Settled
  <2>5. Served'
    BY <1>8, <2>1, <2>2 DEF Settled, Served
  <2> QED
    BY <1>4, <2>1, <2>3, <2>4, <2>5 DEF Settled
<1>10. CASE RegisterObject(o, region)
  <2>1. /\ mem' = Zeroed(region) /\ UNCHANGED fault
        /\ handle' = [handle EXCEPT ![o] = region] /\ lookup' = [lookup EXCEPT ![at] = o]
        /\ owned' = owned \cup {o}
    BY <1>3, <1>10 DEF RegisterObject
  <2>2. /\ \A a \in Addresses : lookup'[a] = IF a = at THEN o ELSE lookup[a]
        /\ \A x \in Objects : handle'[x] = IF x = o THEN region ELSE handle[x]
        /\ lookup' \in [Addresses -> Objects \cup {None}] /\ handle' \in [Objects -> Regions]
    BY <1>2, <1>3, <1>4, <2>1
  <2>3. \A a \in Addresses : lookup'[a] # None =>
           \/ a = at /\ lookup'[a] = o /\ handle'[lookup'[a]] = region
           \/ /\ a # at /\ lookup'[a] = lookup[a] /\ lookup[a] # None
              /\ handle'[lookup'[a]] = handle[lookup[a]] /\ lookup[a] # o
    BY <1>2, <1>5, <2>2
  <2>4. Housed(lookup', handle')
    <3>1. ASSUME NEW a \in Addresses, lookup'[a] # None
          PROVE  /\ handle'[lookup'[a]].at = a /\ handle'[lookup'[a]].size # 0
                 /\ a + handle'[lookup'[a]].size <= PageSize
      BY <1>3, <1>4, <2>3, <3>1 DEF Housed
    <3>2. ASSUME NEW a \in Addresses, NEW b \in Addresses,
                 lookup'[a] # None, lookup'[b] # None, a < b
          PROVE  a + handle'[lookup'[a]].size <= b
      <4>1. CASE a = at /\ b # at
        <5>1. lookup[b] # None /\ handle'[lookup'[a]] = region
          BY <2>3, <3>2, <4>1
        <5>2. b \in Nat /\ handle[lookup[b]].size \in Nat
              /\ (b + handle[lookup[b]].size <= at \/ at + size <= b)
          BY <1>5, <5>1
        <5> QED
          BY <1>3, <3>2, <4>1, <5>1, <5>2
      <4>2. CASE a # at /\ b = at
        <5>1. lookup[a] # None /\ handle'[lookup'[a]] = handle[lookup[a]]
          BY <2>3, <3>2, <4>2
        <5>2. a \in Nat /\ (a + handle[lookup[a]].size <= at \/ at + size <= a)
          BY <1>5, <5>1
        <5> QED
          BY <1>3, <3>2, <4>2, <5>1, <5>2
      <4>3. CASE a # at /\ b # at
        BY <1>4, <2>3, <3>2, <4>3 DEF Housed
      <4> QED
        BY <1>3, <3>2, <4>1, <4>2, <4>3
    <3> QED
      BY <2>2, <3>1, <3>2 DEF Housed
  <2>5. Kept(lookup', handle', mem', construction')
    <3> SUFFICES ASSUME NEW a \in Addresses, lookup'[a] # None, construction[lookup'[a]] = "done",
                        NEW j \in 0 .. handle'[lookup'[a]].size - 1
                 PROVE  mem'[a + j] = <<lookup'[a], j>>
      BY DEF Kept
    <3>1. /\ lookup'[a] = lookup[a] /\ lookup[a] # None
          /\ handle'[lookup'[a]] = handle[lookup[a]]
      BY <1>2, <2>3
    <3> QED
      BY <1>7, <2>1, <3>1 DEF Kept
  <2>6. LooseTypes'
    BY <1>2, <1>7, <2>1, LooseNoJob DEF Settled, LooseTypes
  <2>7. Served'
    <3>1. Registered' \subseteq Registered \cup {o}
      BY <2>2 DEF Registered
    <3>2. Registered \cup {o} \subseteq Registered'
      <4>1. o \in Registered'
        BY <1>2, <1>3, <2>2 DEF Registered
      <4>2. ASSUME NEW x \in Registered PROVE x \in Registered'
        <5>1. x \in Objects /\ x # None /\ \E a \in Addresses : lookup[a] = x
          BY RegisteredAt
        <5>2. PICK a \in Addresses : lookup[a] = x /\ a # at
          BY <1>6, <5>1
        <5> QED
          BY <2>2, <5>1, <5>2 DEF Registered
      <4> QED
        BY <4>1, <4>2
    <3>3. o \in 1 .. asked
      BY <1>2, RequestTypes
    <3> QED
      BY <1>8, <2>1, <3>1, <3>2, <3>3 DEF Settled, Served
  <2> QED
    BY <2>1, <2>4, <2>5, <2>6, <2>7 DEF Settled
<1> QED
  BY <1>1, <1>9, <1>10

LEMMA Inserted ==
    ASSUME NEW S, NEW list \in Seq(S), NEW k \in 1 .. Len(list), NEW e \in S
    PROVE  /\ InsertAt(list, k, e) \in Seq(S)
           /\ InsertAt(list, k, e) # list 
<1>1. Len(list) \in Nat /\ \A j \in 1 .. Len(list) : list[j] \in S
  BY LenProperties, ElementOfSeq
<1>2. PICK a : a = SubSeq(list, 1, k - 1)
  OBVIOUS
<1>3. PICK b : b = SubSeq(list, k, Len(list))
  OBVIOUS
<1>4. a \in Seq(S) /\ Len(a) = k - 1
  <2>1. PICK m \in Nat : m = k - 1 /\ m <= Len(list)
    BY <1>1
  <2>2. a = SubSeq(list, 1, m) /\ \A j \in 1 .. m : list[j] \in S
    BY <1>1, <1>2, <2>1
  <2>3. a \in Seq(S) /\ Len(a) = IF 1 <= m THEN m - 1 + 1 ELSE 0
    BY <2>2, SubSeqProperties
  <2> QED
    BY <2>1, <2>3
<1>5. b \in Seq(S) /\ Len(b) = Len(list) - k + 1
  <2>1. PICK n \in Nat : n = Len(list) /\ k <= n
    BY <1>1
  <2>2. b = SubSeq(list, k, n) /\ \A j \in k .. n : list[j] \in S
    BY <1>1, <1>3, <2>1
  <2>3. b \in Seq(S) /\ Len(b) = IF k <= n THEN n - k + 1 ELSE 0
    BY <2>2, SubSeqProperties
  <2> QED
    BY <2>1, <2>3
<1>6. <<e>> \in Seq(S) /\ Len(<<e>>) = 1
  OBVIOUS
<1>7. a \o <<e>> \in Seq(S) /\ Len(a \o <<e>>) = k
  BY <1>4, <1>6, ConcatProperties
<1>8. (a \o <<e>>) \o b \in Seq(S) /\ Len((a \o <<e>>) \o b) = Len(list) + 1
  <2>1. (a \o <<e>>) \o b \in Seq(S) /\ Len((a \o <<e>>) \o b) = Len(a \o <<e>>) + Len(b)
    BY <1>5, <1>7, ConcatProperties
  <2>2. PICK n \in Nat, i \in Nat : n = Len(list) /\ i = k
    BY <1>1
  <2>3. Len((a \o <<e>>) \o b) = i + (n - i + 1)
    BY <1>5, <1>7, <2>1, <2>2
  <2>4. i + (n - i + 1) = n + 1
    OBVIOUS
  <2> QED
    BY <2>1, <2>2, <2>3, <2>4
<1>9. InsertAt(list, k, e) = (a \o <<e>>) \o b
  BY <1>2, <1>3 DEF InsertAt
<1> QED
  BY <1>1, <1>8, <1>9

\* The first gap that is wide enough: the region lies in it, though its entry does not.
LEMMA TryInGap ==
    ASSUME Ordered(allocations), NEW o \in Objects, NEW g \in DOMAIN allocations,
           FitsBefore(g, BytesOf(o), Requests[o].alignment)
    PROVE  LET result == TryAllocate(BytesOf(o), Requests[o].alignment)
           IN  /\ result.list \in Seq(LooseEntries) /\ result.list # allocations
               /\ result.region \in Regions /\ result.region.size = BytesOf(o)
               /\ result.region.at + BytesOf(o) <= PageSize
               /\ \A m \in DOMAIN allocations :
                     \/ allocations[m].offset + allocations[m].size <= result.region.at
                     \/ result.region.at + BytesOf(o) <= allocations[m].offset
<1>1. PICK n \in Nat : n = Len(allocations) /\ DOMAIN allocations = 1 .. n
  BY LenProperties DEF Ordered
<1>2. PICK size \in Nat, alignment \in Nat \ {0} :
         size = BytesOf(o) /\ alignment = Requests[o].alignment
  BY RequestTypes
<1>3. PICK gaps : gaps = {k \in 1 .. n : FitsBefore(k, size, alignment)}
  OBVIOUS
<1>4. PICK k \in 1 .. n : k = Min(gaps) /\ FitsBefore(k, size, alignment)
  <2>1. gaps \in SUBSET Nat /\ gaps # {}
    BY <1>1, <1>2, <1>3
  <2>2. \E x \in gaps : \A y \in gaps : x <= y
    BY <2>1, LeastNumber
  <2>3. Min(gaps) \in gaps
    BY <2>2 DEF Min
  <2> QED
    BY <1>3, <2>3
<1>5. PICK end \in Nat :
         /\ end = EndBefore(k) /\ end <= allocations[k].offset
         /\ \A j \in DOMAIN allocations : j < k => allocations[j].offset + allocations[j].size <= end
  <2>1. k \in 1 .. Len(allocations) + 1 /\ k \in DOMAIN allocations /\ k <= k
    BY <1>1
  <2>2. EndBefore(k) \in Nat
    BY <2>1, EndBeforeBounds, PageAssumption
  <2> QED
    BY <2>1, <2>2, EndBeforeBounds
<1>6. PICK place \in Nat, extent \in Nat :
         /\ place = allocations[k].offset /\ extent = allocations[k].size
         /\ place + extent <= PageSize /\ PageSize \in Nat /\ place < AddressSpace
  <2>1. PageSize \in Nat /\ AddressSpace \in Nat /\ AddressSpace > 2 * PageSize
    BY PageAssumption
  <2>2. k \in DOMAIN allocations
    BY <1>1
  <2>3. /\ allocations[k].offset \in Nat /\ allocations[k].offset < PageSize
        /\ allocations[k].size \in Nat /\ allocations[k].offset + allocations[k].size <= PageSize
    BY <2>2, EntryTypes
  <2> QED
    BY <2>1, <2>3
<1>7. PICK padding \in Nat : padding = Correction(end, alignment)
  BY CorrectionFills
<1>8. end + padding + size <= place
  <2>1. Minus(place, end) = place - end
    BY <1>5, <1>6, NoWrapAround
  <2>2. place - end >= size + padding
    BY <1>4, <1>5, <1>6, <1>7, <2>1 DEF FitsBefore
  <2> QED
    BY <2>2
<1>9. PICK e : e = [offset |-> place + extent + padding, size |-> size]
  OBVIOUS
<1>10. PICK region : region = [at |-> end + padding, size |-> size]
  OBVIOUS
<1>11. TryAllocate(size, alignment) = [list |-> InsertAt(allocations, k, e), region |-> region]
  <2>1. gaps # {}
    BY <1>1, <1>2, <1>3
  <2> QED
    BY <1>1, <1>3, <1>4, <1>5, <1>6, <1>7, <1>9, <1>10, <2>1 DEF TryAllocate
<1>12. InsertAt(allocations, k, e) \in Seq(LooseEntries)
       /\ InsertAt(allocations, k, e) # allocations
  <2>1. Entries \subseteq LooseEntries
    BY <1>6 DEF Entries, LooseEntries, Bytes, Addresses
  <2>2. allocations \in Seq(LooseEntries)
    <3>1. allocations \in Seq(Entries)
      BY DEF Ordered
    <3> QED
      BY <2>1, <3>1, SeqDef
  <2>3. e \in LooseEntries
    BY <1>5, <1>6, <1>8, <1>9 DEF LooseEntries, Addresses
  <2> QED
    BY <1>1, <2>2, <2>3, Inserted
<1>13. region \in Regions /\ region.size = size /\ region.at + size <= PageSize
       /\ region.at = end + padding
  BY <1>6, <1>8, <1>10 DEF Regions
<1>14. ASSUME NEW m \in DOMAIN allocations
       PROVE  \/ allocations[m].offset + allocations[m].size <= region.at
              \/ region.at + size <= allocations[m].offset
  <2>1. PICK b \in Nat, c \in Nat, i \in Nat :
           b = allocations[m].offset /\ c = allocations[m].size /\ i = m
    BY EntryTypes
  <2>2. CASE i < k
    <3>1. b + c <= end
      BY <1>5, <2>1, <2>2
    <3> QED
      BY <1>13, <2>1, <3>1
  <2>3. CASE k < i
    <3>1. place + extent <= b
      BY <1>1, <1>6, <2>1, <2>3 DEF Ordered
    <3> QED
      BY <1>8, <1>13, <2>1, <3>1
  <2>4. CASE i = k
    BY <1>6, <1>8, <1>13, <2>1, <2>4
  <2> QED
    BY <2>2, <2>3, <2>4
<1> QED
  BY <1>2, <1>11, <1>12, <1>13, <1>14

\* A wrong entry makes the list wrong, and nothing else.
LEMMA TrySettles ==
    ASSUME IInv, Try, WrongEntry, Result.list # allocations
    PROVE  Settled'
<1>1. pc = "try" /\ UNCHANGED <<construction, pinned, asked>>
  BY DEF Try
<1>2. Settled /\ Ordered(allocations)
  BY <1>1, RestSettles, RestsUnlessRelocating
<1>3. PICK o \in Objects : o = job.req
  BY <1>1 DEF IInv, LocalTypes, Locals, Served
<1>4. Result = TryAllocate(BytesOf(o), Requests[o].alignment)
  BY <1>3 DEF Result, BytesOf
<1>5. BytesOf(o) \in Nat /\ PageSize \in Nat \ {0}
  BY RequestTypes, PageAssumption
<1>6. CASE \E k \in DOMAIN allocations : FitsBefore(k, BytesOf(o), Requests[o].alignment)
  <2>1. PICK region : region = Result.region
    OBVIOUS
  <2>2. /\ Result.list \in Seq(LooseEntries)
        /\ region \in Regions /\ region.size = BytesOf(o)
        /\ region.at + region.size <= PageSize
        /\ \A m \in DOMAIN allocations :
              \/ allocations[m].offset + allocations[m].size <= region.at
              \/ region.at + region.size <= allocations[m].offset
    BY <1>2, <1>4, <1>6, <2>1, TryInGap
  <2>3. Apart(region)
    <3> SUFFICES ASSUME NEW a \in Addresses, lookup[a] # None
                 PROVE  a + handle[lookup[a]].size <= region.at \/ region.at + region.size <= a
      BY DEF Apart
    <3>1. PICK k \in DOMAIN allocations :
             a = allocations[k].offset /\ handle[lookup[a]].size = allocations[k].size
      BY <1>1, HousedEntry
    <3> QED
      BY <2>2, <3>1
  <2>4. CASE region.size = 0
    <3>1. NotAllocated /\ allocations' = Result.list
      BY <2>1, <2>4 DEF Try, Allocated, NotAllocated
    <3> QED
      BY <1>1, <1>2, <2>2, <3>1, SettledAgain
  <2>5. CASE region.size # 0
    <3>1. /\ RegisterObject(o, region) \/ RegistrationThrows(region)
          /\ allocations' \in {Result.list, Without(Result.list, region)}
          /\ pc' = "idle" /\ job' = NoJob
      BY <1>3, <2>1, <2>5 DEF Try, Allocated, NotAllocated, Start, Idle
    <3>2. allocations' \in Seq(LooseEntries)
      BY <2>2, <3>1, WithoutTyped
    <3> QED
      BY <1>1, <1>2, <1>3, <2>2, <2>3, <2>5, <3>1, <3>2, PlaceSettles
  <2> QED
    BY <2>4, <2>5
<1>7. CASE ~\E k \in DOMAIN allocations : FitsBefore(k, BytesOf(o), Requests[o].alignment)
  <2>1. BytesOf(o) = 0
    <3>1. Requests[o].count = 0
      BY <1>3, <1>7 DEF WrongEntry, BytesOf
    <3> QED
      BY <3>1, RequestTypes DEF BytesOf
  <2>2. PICK at \in Nat :
           /\ Result = [list |-> Append(allocations, [offset |-> at, size |-> BytesOf(o)]),
                        region |-> [at |-> at, size |-> BytesOf(o)]]
           /\ at + BytesOf(o) <= PageSize
    <3>1. \/ Result = [list |-> allocations, region |-> Nowhere]
          \/ \E at \in Nat :
                /\ Result = [list |-> Append(allocations, [offset |-> at, size |-> BytesOf(o)]),
                             region |-> [at |-> at, size |-> BytesOf(o)]]
                /\ at + BytesOf(o) <= PageSize
      BY <1>2, <1>4, <1>7, TryAtEnd
    <3> QED
      BY <3>1
  <2>3. Result.region.size = 0 /\ Result.list = Append(allocations, [offset |-> at, size |-> BytesOf(o)])
    BY <2>1, <2>2
  <2>4. NotAllocated /\ allocations' = Result.list
    BY <2>3 DEF Try, Allocated, NotAllocated
  <2>5. Result.list \in Seq(LooseEntries)
    <3>1. allocations \in Seq(LooseEntries)
      BY <1>2 DEF Settled, LooseTypes
    <3>2. [offset |-> at, size |-> BytesOf(o)] \in LooseEntries
      BY <1>5, <2>1, <2>2 DEF LooseEntries, Addresses
    <3> QED
      BY <2>3, <3>1, <3>2, AppendProperties
  <2> QED
    BY <1>1, <1>2, <2>4, <2>5, SettledAgain
<1> QED
  BY <1>6, <1>7

\* A list that stays the same means that there is no place.
LEMMA NoPlace ==
    ASSUME IInv, pc = "try", Result.list = allocations
    PROVE  Result = [list |-> allocations, region |-> Nowhere]
<1>1. PICK o \in Objects : o = job.req
  BY DEF IInv, LocalTypes, Locals, Served
<1>2. Result = TryAllocate(BytesOf(o), Requests[o].alignment)
  BY <1>1 DEF Result, BytesOf
<1>3. Ordered(allocations)
  BY DEF IInv, Laid
<1>4. \A k \in DOMAIN allocations : ~FitsBefore(k, BytesOf(o), Requests[o].alignment)
  BY <1>2, <1>3, TryInGap
<1>5. Len(allocations) \in Nat /\ \A e : Len(Append(allocations, e)) = Len(allocations) + 1
  BY <1>3, LenProperties DEF Ordered
<1>6. \A e : Append(allocations, e) # allocations
  BY <1>5
<1>7. \/ Result = [list |-> allocations, region |-> Nowhere]
      \/ \E e, region : Result = [list |-> Append(allocations, e), region |-> region]
  BY <1>2, <1>3, <1>4, TryAtEnd
<1> QED
  BY <1>6, <1>7

\* A place without bytes is that of a wrong entry.
LEMMA NoBytes ==
    ASSUME IInv, pc = "try", Result.list # allocations, Result.region.size = 0
    PROVE  WrongEntry
<1> SUFFICES ASSUME ~WrongEntry PROVE FALSE
  OBVIOUS
<1>1. PICK o \in Objects : o = job.req
  BY DEF IInv, LocalTypes, Locals, Served
<1>2. Result = TryAllocate(BytesOf(o), Requests[o].alignment)
  BY <1>1 DEF Result, BytesOf
<1>3. Ordered(allocations)
  BY DEF IInv, Laid
<1>4. /\ \A k \in DOMAIN allocations : ~FitsBefore(k, BytesOf(o), Requests[o].alignment)
      /\ BytesOf(o) \in Nat \ {0}
  BY <1>1, RequestTypes DEF WrongEntry, BytesOf
<1>5. \/ Result = [list |-> allocations, region |-> Nowhere]
      \/ \E list, at : Result = [list |-> list, region |-> [at |-> at, size |-> BytesOf(o)]]
  BY <1>2, <1>3, <1>4, TryAtEnd
<1> QED
  BY <1>4, <1>5

\* Without a wrong entry the list stays right.
LEMMA TryInv ==
    ASSUME IInv, Try, ~WrongEntry \/ Result.list = allocations
    PROVE  IInv'
<1>1. pc = "try"
  BY DEF Try
<1>2. PICK o \in Objects : o = job.req
  BY <1>1 DEF IInv, LocalTypes, Locals, Served
<1>3. Result = TryAllocate(BytesOf(o), Requests[o].alignment)
  BY <1>2 DEF Result, BytesOf
<1>4. Ordered(allocations)
  BY DEF IInv, Laid
<1>5. CASE Result.list = allocations
  BY <1>1, <1>5, NoPlace, TryAgainInv
<1>6. CASE ~WrongEntry
  <2>1. /\ \A k \in DOMAIN allocations : ~FitsBefore(k, BytesOf(o), Requests[o].alignment)
        /\ BytesOf(o) \in Nat \ {0}
    BY <1>2, <1>6, RequestTypes DEF WrongEntry, BytesOf
  <2>2. \/ Result = [list |-> allocations, region |-> Nowhere]
        \/ \E at \in Nat :
              /\ Result = [list |-> Append(allocations, [offset |-> at, size |-> BytesOf(o)]),
                           region |-> [at |-> at, size |-> BytesOf(o)]]
              /\ Behind(allocations, at) /\ at + BytesOf(o) <= PageSize /\ Suits(o, at)
    BY <1>3, <1>4, <2>1, TryAtEnd
  <2> QED
    BY <1>2, <2>1, <2>2, TryAgainInv, TryAppendInv
<1> QED
  BY <1>5, <1>6

\* As long as nothing is put where the wrong list says.
LEMMA SettledNext ==
    ASSUME Settled, [Next]_vars, listing = "wrong", listing' = "wrong"
    PROVE  Settled'
<1>1. pc # "relocate"
  BY DEF Settled, LooseTypes
<1>2. CASE Try
  <2>1. pc = "try" /\ UNCHANGED <<construction, pinned, asked>>
    BY <1>2 DEF Try
  <2>2. NotAllocated
    BY <1>2 DEF Try, Allocated, Follow
  <2>3. allocations' = allocations
    BY <2>2 DEF NotAllocated, Follow
  <2>4. allocations' \in Seq(LooseEntries)
    BY <2>3 DEF Settled, LooseTypes
  <2> QED
    BY <2>1, <2>2, <2>4, SettledAgain
<1>3. CASE TryThrows \/ TakeId \/ CollectAlive \/ CollectEnd \/ DefragmentEnd
  BY <1>3, SettledScans
<1>4. CASE CollectDead
  BY <1>4, SettledCollectDead
<1>5. CASE Defragment
  BY <1>5, SettledDefragment
<1>6. CASE RelocateObject
  BY <1>1, <1>6 DEF RelocateObject
<1>7. CASE Allocate
  BY <1>7, SettledAllocate
<1>8. ASSUME NEW defragment \in BOOLEAN, Collect(defragment) PROVE Settled'
  BY <1>8, SettledScans
<1>9. ASSUME NEW o \in Objects,
             Pin(o) \/ Unpin(o) \/ DropObject(o) \/ SetInitializationFailed(o)
      PROVE  Settled'
  BY <1>9, SettledPins
<1>10. ASSUME NEW o \in Objects, Initialize(o) PROVE Settled'
  BY <1>10, SettledInitialize
<1>11. CASE UNCHANGED vars
  <2>1. UNCHANGED <<allocations, handle, lookup, mem, construction, owned, pinned, asked,
                    pc, job, fault>>
    BY <1>11 DEF vars, heapVars, restVars
  <2>2. LooseTypes'
    BY <2>1 DEF Settled, LooseTypes
  <2> QED
    BY <2>1, <2>2, SettledProgram DEF Settled
<1> QED
  BY <1>2, <1>3, <1>4, <1>5, <1>6, <1>7, <1>8, <1>9, <1>10, <1>11 DEF Next, Work

LEMMA TryNext ==
    ASSUME IInv, Try, listing = "right"
    PROVE  \/ listing' = "right" /\ IInv'
           \/ listing' = "wrong" /\ Settled'
<1>1. pc = "try"
  BY DEF Try
<1>2. CASE Allocated
  <2>1. Result.list # allocations
    BY <1>1, <1>2, NoPlace DEF Allocated, Nowhere
  <2>2. listing' = IF WrongEntry THEN "wrong" ELSE "right"
    BY <1>2 DEF Allocated, Follow
  <2> QED
    BY <2>1, <2>2, TryInv, TrySettles
<1>3. CASE NotAllocated /\ Result.list = allocations
  <2>1. listing' = "right"
    BY <1>3 DEF NotAllocated
  <2> QED
    BY <1>3, <2>1, TryInv
<1>4. CASE NotAllocated /\ Result.list # allocations
  <2>1. listing' = "wrong" /\ Result.region.size = 0
    BY <1>4 DEF NotAllocated, Follow
  <2> QED
    BY <1>1, <1>4, <2>1, NoBytes, TrySettles
<1> QED
  BY <1>2, <1>3, <1>4 DEF Try

\* A wrong list does not become right again.
LEMMA ListingNext ==
    ASSUME [Next]_vars
    PROVE  /\ listing = "right" /\ ~Try => listing' = "right"
           /\ listing = "wrong" => listing' \in {"wrong", "followed"}
           /\ listing = "followed" => listing' = "followed"
<1>1. CASE Try
  <2>1. listing' = listing \/ \E wrong \in {WrongEntry, TRUE} : Follow(wrong)
    BY <1>1 DEF Try, Allocated, NotAllocated
  <2> QED
    BY <1>1, <2>1 DEF Follow
<1>2. CASE Defragment
  <2>1. listing' = listing \/ Follow(FALSE)
    BY <1>2 DEF Defragment
  <2> QED
    BY <2>1 DEF Follow
<1>3. ASSUME NEW o \in Objects,
             Pin(o) \/ Unpin(o) \/ DropObject(o) \/ Initialize(o) \/ SetInitializationFailed(o)
      PROVE  listing' = listing
  BY <1>3 DEF Pin, Unpin, DropObject, Initialize, SetInitializationFailed, heapVars
<1>4. ASSUME NEW defragment \in BOOLEAN, Collect(defragment)
      PROVE  listing' = listing
  BY <1>4 DEF Collect, heapVars
<1>5. CASE \/ TryThrows \/ TakeId \/ CollectAlive \/ CollectDead \/ CollectEnd
           \/ RelocateObject \/ DefragmentEnd \/ Allocate \/ UNCHANGED vars
  <2>1. listing' = listing
    BY <1>5 DEF TryThrows, TakeId, CollectAlive, CollectDead, CollectEnd, RelocateObject,
                DefragmentEnd, Allocate, vars, heapVars
  <2> QED
    BY <2>1
<1> QED
  BY <1>1, <1>2, <1>3, <1>4, <1>5 DEF Next, Work

\* The inductive invariant.
Inv ==
    /\ listing \in {"right", "wrong", "followed"}
    /\ listing = "right" => IInv
    /\ listing = "wrong" => Settled

LEMMA NextInv == Inv /\ [Next]_vars => Inv'
<1> SUFFICES ASSUME Inv, [Next]_vars PROVE Inv'
  OBVIOUS
<1>1. CASE listing = "right"
  <2>1. IInv
    BY <1>1 DEF Inv
  <2>2. CASE Try
    BY <1>1, <2>1, <2>2, TryNext DEF Inv
  <2>3. CASE ~Try
    BY <1>1, <2>1, <2>3, ListingNext, OthersInv DEF Inv
  <2> QED
    BY <2>2, <2>3
<1>2. CASE listing = "wrong"
  BY <1>2, ListingNext, SettledNext DEF Inv
<1>3. CASE listing = "followed"
  BY <1>3, ListingNext DEF Inv
<1> QED
  BY <1>1, <1>2, <1>3 DEF Inv

LEMMA InvariantHolds == Spec => []Inv
<1>1. Init => Inv
  BY InitInv DEF Init, Inv
<1> QED
  BY <1>1, NextInv, PTL DEF Spec


-------------------------------------------------------------------------------
(* The theorems *)

\* What the properties say while the list is wrong.
LEMMA SettledIntact ==
    ASSUME Settled
    PROVE  ContentsIntact
<1> SUFFICES ASSUME NEW o \in Registered, HasContents(o), NEW j \in 0 .. handle[o].size - 1
             PROVE  mem[handle[o].at + j] = <<o, j>>
  BY DEF ContentsIntact
<1>1. PICK a \in Addresses : lookup[a] = o /\ lookup[a] # None
  BY RegisteredAt
<1>2. handle[o].at = a /\ construction[o] = "done"
  <2>1. Housed(lookup, handle)
    BY DEF Settled
  <2> QED
    BY <1>1, <2>1, HousedTypes DEF HasContents
<1>3. \A i \in 0 .. handle[o].size - 1 : mem[a + i] = <<o, i>>
  <2>1. Kept(lookup, handle, mem, construction)
    BY DEF Settled
  <2> QED
    BY <1>1, <1>2, <2>1 DEF Kept
<1> QED
  BY <1>2, <1>3

LEMMA SettledFinds ==
    ASSUME Settled
    PROVE  FieldsFindOwner
<1> SUFFICES ASSUME NEW o \in pinned, NEW j \in 0 .. handle[o].size - 1
             PROVE  Owners(handle[o].at + j) = {o}
  BY DEF FieldsFindOwner
<1>1. o \in Registered /\ Housed(lookup, handle)
  BY DEF Settled, LooseTypes, Served
<1>2. PICK c \in Addresses : lookup[c] = o /\ lookup[c] # None /\ o \in Objects
  BY <1>1, RegisteredAt
<1>3. PICK n \in Nat \ {0} :
         /\ n = handle[o].size /\ c = handle[o].at /\ c \in Nat /\ PageSize \in Nat
         /\ c + n <= PageSize
         /\ \A b \in Addresses : lookup[b] # None /\ b # c =>
               c + n <= b \/ b + handle[lookup[b]].size <= c
  BY <1>1, <1>2, HousedTypes
<1>4. PICK a \in Nat : a = handle[o].at + j /\ c <= a /\ a < c + n
  BY <1>3
<1>5. a \in Addresses
  BY <1>3, <1>4 DEF Addresses
<1>6. CASE lookup[a] # None
  <2>1. a = c
    <3>1. handle[lookup[a]].size \in Nat
      BY <1>1, <1>5, <1>6, HousedTypes
    <3> QED
      BY <1>3, <1>4, <1>5, <1>6, <3>1
  <2> QED
    BY <1>2, <1>4, <1>6, <2>1 DEF Owners
<1>7. CASE lookup[a] = None
  <2>1. o \in OwningObjects(a)
    BY <1>1, <1>3, <1>4 DEF OwningObjects
  <2>2. ASSUME NEW x \in OwningObjects(a) PROVE x = o
    <3>1. x \in Registered /\ handle[x].at <= a /\ a <= handle[x].at + handle[x].size
      BY <2>2 DEF OwningObjects
    <3>2. PICK b \in Addresses : lookup[b] = x /\ lookup[b] # None
      BY <3>1, RegisteredAt
    <3>3. b \in Nat /\ handle[x].at = b /\ handle[x].size \in Nat
      BY <1>1, <3>2, HousedTypes
    <3>4. a # c
      BY <1>2, <1>7
    <3>5. b = c
      BY <1>3, <1>4, <3>1, <3>2, <3>3, <3>4
    <3> QED
      BY <1>2, <3>2, <3>5
  <2> QED
    BY <1>4, <1>7, <2>1, <2>2 DEF Owners
<1> QED
  BY <1>6, <1>7

\* Only an allocation in a gap, or of an empty array, makes the list wrong: through
\* everything else that is allocated at the end of the page, given back, collected
\* and moved, its entries stay in order and apart and are, like the lookup, the
\* regions of the handles (gc.cpp:75-128, 228-334, 767-801).
THEOREM ListLookupAndHandlesAgree == Spec => []RightListMatches
<1>1. Inv => RightListMatches
  BY InvMatches DEF Inv, RightListMatches
<1> QED
  BY <1>1, InvariantHolds, PTL

\* An object keeps its contents, byte by byte, when it is moved in parts to a place that
\* overlaps the one it had, when others are, and when one is put in a gap and makes
\* the list wrong, until something is put where that list says (gc.cpp:252-334, 767-790).
THEOREM ContentsSurviveMoves == Spec => []ContentsIntact
<1>1. Inv => ContentsIntact
  BY InvIntact, SettledIntact DEF Inv, Trusted, ContentsIntact
<1> QED
  BY <1>1, InvariantHolds, PTL

\* An object with a handle is not taken off the page, also by a collection that comes
\* upon a wrong entry, until something is put where it says (gc.cpp:447-486, 516-559).
THEOREM OwnersKeepTheirObjects == Spec => []OwnedAreRegistered
<1>1. Inv => OwnedAreRegistered
  BY DEF Inv, IInv, Settled, Served, OwnedAreRegistered, Trusted
<1> QED
  BY <1>1, InvariantHolds, PTL

\* A field of a pinned object finds the object it is part of, between the two steps of
\* another one's relocation (gc.cpp:309-332, 1266-1275) and next to an object in a
\* gap, until something is put where a wrong list says.
THEOREM FieldsFindTheirObject == Spec => []FieldsFindOwner
<1>1. Inv => FieldsFindOwner
  BY InvFinds, SettledFinds DEF Inv, Trusted, FieldsFindOwner
<1> QED
  BY <1>1, InvariantHolds, PTL

\* None of the assertions of allocation, collection and defragmentation fails, except the
\* one for an entry that is no object's, and that one not while the list is right.
THEOREM NoAssertionFails == Spec => []AssertionsHold
<1>1. Inv => AssertionsHold
  BY DEF Inv, IInv, Settled, AssertionsHold, Trusted
<1> QED
  BY <1>1, InvariantHolds, PTL


-------------------------------------------------------------------------------
(* Pins, whatever is allocated where *)

\* An object whose place is still to be found has no handle yet, and none that
\* is being relocated is pinned.
PinInvariant ==
    /\ pinned \subseteq owned /\ owned \subseteq Objects /\ owned \subseteq 1 .. asked
    /\ asked \in Nat
    /\ DOMAIN handle = Objects
    /\ job.req # None => job.req = asked /\ asked \in Objects /\ asked \notin owned
    /\ pc = "try" => job.req # None
    /\ pc = "relocate" => job.moving \notin pinned

LEMMA PinsInit == Init => PinInvariant
<1> SUFFICES ASSUME Init PROVE PinInvariant
  OBVIOUS
<1>1. pc = "idle" /\ job.req = None /\ asked = 0 /\ owned = {} /\ pinned = {}
      /\ DOMAIN handle = Objects
  BY DEF Init, Idle, NoJob
<1> QED
  BY <1>1 DEF PinInvariant

\* Steps that change neither the handles nor what the program has.
LEMMA PinsOfScans ==
    ASSUME PinInvariant, UNCHANGED <<handle, owned, pinned, asked>>,
           job'.req \in {None, job.req},
           pc' = "try" => job'.req # None,
           pc' = "relocate" => job'.moving \notin pinned
    PROVE  PinInvariant' /\ \A o \in pinned : handle'[o] = handle[o]
BY DEF PinInvariant

LEMMA PinsOfPass ==
    ASSUME PinInvariant, NEW end, job' = Pass(end)
    PROVE  job'.req = job.req
BY DEF PinInvariant, Pass, NoJob

LEMMA PinsNext ==
    PinInvariant /\ [Next]_vars => PinInvariant' /\ \A o \in pinned : handle'[o] = handle[o]
<1> SUFFICES ASSUME PinInvariant, [Next]_vars
             PROVE  PinInvariant' /\ \A o \in pinned : handle'[o] = handle[o]
  OBVIOUS
<1> USE DEF Idle
<1>1. NoJob.req = None
  BY DEF NoJob
<1>2. CASE Try
  <2>1. pc = "try" /\ UNCHANGED <<pinned, asked>>
    BY <1>2 DEF Try
  <2>2. PICK o : o = job.req /\ o \in Objects /\ o = asked /\ o \notin owned
    BY <2>1 DEF PinInvariant
  <2>3. CASE UNCHANGED <<handle, owned>> /\ pc' # "try" /\ pc' # "relocate"
             /\ job'.req \in {None, o}
    BY <2>1, <2>2, <2>3, PinsOfScans
  <2>4. CASE /\ pc' = "idle" /\ job' = NoJob /\ owned' = owned \cup {o}
             /\ \E region : handle' = [handle EXCEPT ![o] = region]
    <3>1. \A x \in pinned : handle'[x] = handle[x]
      BY <2>2, <2>4 DEF PinInvariant
    <3>2. DOMAIN handle' = Objects
      BY <2>4 DEF PinInvariant
    <3>3. owned' \subseteq 1 .. asked'
      BY <2>1, <2>2, <2>4, RequestTypes DEF PinInvariant
    <3> QED
      BY <1>1, <2>1, <2>2, <2>4, <3>1, <3>2, <3>3 DEF PinInvariant
  <2>5. \/ UNCHANGED <<handle, owned>> /\ pc' # "try" /\ pc' # "relocate"
           /\ job'.req \in {None, o}
        \/ /\ pc' = "idle" /\ job' = NoJob /\ owned' = owned \cup {o}
           /\ \E region : handle' = [handle EXCEPT ![o] = region]
    <3>1. CASE NotAllocated
      <4>1. /\ UNCHANGED <<handle, owned>>
            /\ \/ pc' = "id" /\ job' = [NoJob EXCEPT !.req = o, !.tries = 1]
               \/ pc' = "defragment" /\ job' = [NoJob EXCEPT !.req = o, !.tries = 2]
               \/ pc' = "idle" /\ job' = NoJob
        BY <2>2, <3>1 DEF NotAllocated, Start
      <4>2. /\ [NoJob EXCEPT !.req = o, !.tries = 1].req = o
            /\ [NoJob EXCEPT !.req = o, !.tries = 2].req = o
        BY DEF NoJob
      <4> QED
        BY <1>1, <4>1, <4>2
    <3>2. CASE Allocated
      <4>1. pc' = "idle" /\ job' = NoJob
        BY <3>2 DEF Allocated, Start
      <4>2. RegisterObject(o, Result.region) \/ RegistrationThrows(Result.region)
        BY <2>2, <3>2 DEF Allocated
      <4>3. \/ UNCHANGED <<handle, owned>>
            \/ owned' = owned \cup {o} /\ handle' = [handle EXCEPT ![o] = Result.region]
        BY <4>2 DEF RegisterObject, RegistrationThrows
      <4> QED
        BY <1>1, <4>1, <4>3
    <3> QED
      BY <1>2, <3>1, <3>2 DEF Try
  <2> QED
    BY <2>3, <2>4, <2>5
<1>3. CASE Allocate
  <2>1. /\ pc = "idle" /\ pc' = "try" /\ job' = [NoJob EXCEPT !.req = asked + 1]
        /\ asked < Len(Requests) /\ asked' = asked + 1
        /\ UNCHANGED <<handle, owned, pinned>>
    BY <1>3 DEF Allocate, Start, heapVars
  <2>2. job'.req = asked + 1
    BY <2>1 DEF NoJob
  <2>3. Len(Requests) \in Nat /\ Objects = 1 .. Len(Requests)
    BY PageAssumption, LenProperties DEF Objects
  <2>4. asked + 1 \in Objects /\ asked + 1 \notin owned /\ owned \subseteq 1 .. asked + 1
        /\ asked + 1 \in Nat /\ asked + 1 # None
    BY <2>1, <2>3 DEF PinInvariant, None
  <2> QED
    BY <2>1, <2>2, <2>4 DEF PinInvariant
<1>4. ASSUME NEW defragment \in BOOLEAN, Collect(defragment)
      PROVE  PinInvariant' /\ \A o \in pinned : handle'[o] = handle[o]
  <2>1. /\ pc' = "id" /\ job' = [NoJob EXCEPT !.compact = defragment]
        /\ UNCHANGED <<handle, owned, pinned, asked>>
    BY <1>4 DEF Collect, Start, heapVars, restVars
  <2>2. job'.req = None
    BY <2>1 DEF NoJob
  <2> QED
    BY <2>1, <2>2, PinsOfScans
<1>5. CASE CollectAlive
  <2>1. /\ pc = "collect" /\ pc' = "collect" /\ job'.req = job.req
        /\ UNCHANGED <<handle, owned, pinned, asked>>
    BY <1>5 DEF CollectAlive, heapVars, restVars
  <2> QED
    BY <2>1, PinsOfScans
<1>6. CASE CollectDead
  <2>1. /\ pc = "collect" /\ pc' \in {"collect", "idle"} /\ job' \in {job, NoJob}
        /\ UNCHANGED <<handle, owned, pinned, asked>>
    BY <1>6 DEF CollectDead, Abort, Start, restVars
  <2> QED
    BY <1>1, <2>1, PinsOfScans
<1>7. CASE CollectEnd
  <2>1. /\ UNCHANGED <<handle, owned, pinned, asked>>
        /\ \/ job.req # None /\ pc' = "try" /\ job' = job
           \/ pc' \in {"defragment", "idle"} /\ job' = NoJob
    BY <1>7 DEF CollectEnd, Start, heapVars, restVars
  <2> QED
    BY <1>1, <2>1, PinsOfScans
<1>8. CASE Defragment
  <2>1. UNCHANGED <<handle, owned, pinned, asked>>
    BY <1>8 DEF Defragment, restVars
  <2>2. PICK o : o = lookup[Entry.offset]
    OBVIOUS
  <2>3. \/ pc' = "idle" /\ job' = NoJob
        \/ /\ o \notin pinned /\ pc' = "relocate"
           /\ job' = [job EXCEPT !.moving = o, !.to = Target(o)]
        \/ /\ pc' = "defragment" /\ job' = Pass(Entry.offset + Entry.size)
    <3>1. CASE o = None
      BY <1>8, <2>2, <3>1 DEF Defragment, Abort, Start
    <3>2. CASE o # None /\ MayMove(o)
      BY <1>8, <2>2, <3>2 DEF Defragment, Start, MayMove
    <3>3. CASE o # None /\ ~MayMove(o)
      BY <1>8, <2>2, <3>3 DEF Defragment
    <3> QED
      BY <3>1, <3>2, <3>3
  <2>4. CASE pc' = "idle" /\ job' = NoJob
    BY <1>1, <2>1, <2>4, PinsOfScans
  <2>5. CASE /\ o \notin pinned /\ pc' = "relocate"
             /\ job' = [job EXCEPT !.moving = o, !.to = Target(o)]
    <3>1. job'.req = job.req /\ job'.moving = o
      BY <2>5 DEF PinInvariant, NoJob
    <3> QED
      BY <2>1, <2>5, <3>1, PinsOfScans
  <2>6. CASE pc' = "defragment" /\ job' = Pass(Entry.offset + Entry.size)
    <3>1. job'.req = job.req
      BY <2>6, PinsOfPass
    <3> QED
      BY <2>1, <2>6, <3>1, PinsOfScans
  <2> QED
    BY <2>3, <2>4, <2>5, <2>6
<1>9. CASE RelocateObject
  <2>1. /\ pc = "relocate" /\ pc' = "defragment" /\ job' = Pass(job.to + Entry.size)
        /\ handle' = [handle EXCEPT ![job.moving] = [at |-> job.to, size |-> Entry.size]]
        /\ UNCHANGED <<owned, pinned, asked>>
    BY <1>9 DEF RelocateObject, Start, restVars
  <2>2. job'.req = job.req
    BY <2>1, PinsOfPass
  <2>3. job.moving \notin pinned /\ pinned \subseteq DOMAIN handle
    BY <2>1 DEF PinInvariant
  <2>4. \A o \in pinned : handle'[o] = handle[o]
    BY <2>1, <2>3
  <2>5. DOMAIN handle' = DOMAIN handle
    BY <2>1
  <2> QED
    BY <2>1, <2>2, <2>4, <2>5 DEF PinInvariant
<1>10. CASE DefragmentEnd
  <2>1. /\ UNCHANGED <<handle, owned, pinned, asked>>
        /\ \/ job.req # None /\ pc' = "try" /\ job' = job
           \/ pc' = "idle" /\ job' = NoJob
    BY <1>10 DEF DefragmentEnd, Start, heapVars, restVars
  <2> QED
    BY <1>1, <2>1, PinsOfScans
<1>11. ASSUME NEW o \in Objects,
              Pin(o) \/ Unpin(o) \/ DropObject(o)
                \/ Initialize(o) \/ SetInitializationFailed(o)
       PROVE  PinInvariant' /\ \A x \in pinned : handle'[x] = handle[x]
  <2>1. UNCHANGED <<handle, asked, pc, job>>
    BY <1>11 DEF Pin, Unpin, DropObject, Initialize, SetInitializationFailed, heapVars
  <2>2. \/ UNCHANGED owned /\ pinned' = pinned \cup {o} /\ o \in owned /\ o # job.moving
        \/ UNCHANGED owned /\ pinned' = pinned \ {o}
        \/ UNCHANGED pinned /\ owned' = owned \ {o} /\ o \notin pinned
        \/ UNCHANGED <<owned, pinned>>
    BY <1>11 DEF Pin, Unpin, DropObject, Initialize, SetInitializationFailed
  <2> QED
    BY <2>1, <2>2 DEF PinInvariant
<1>12. CASE TryThrows \/ TakeId
  <2>1. /\ UNCHANGED <<handle, owned, pinned, asked>>
        /\ \/ pc' = "idle" /\ job' = NoJob
           \/ pc' = "collect" /\ job' = job
    BY <1>12 DEF TryThrows, TakeId, Start, heapVars, restVars
  <2> QED
    BY <1>1, <2>1, PinsOfScans
<1>13. CASE UNCHANGED vars
  <2>1. UNCHANGED <<handle, owned, pinned, asked, pc, job>>
    BY <1>13 DEF vars, heapVars, restVars
  <2> QED
    BY <2>1 DEF PinInvariant
<1> QED
  BY <1>2, <1>3, <1>4, <1>5, <1>6, <1>7, <1>8, <1>9, <1>10, <1>11, <1>12, <1>13 DEF Next, Work

\* A pinned object stays where it is, whatever is allocated, collected and moved
\* around it (RelocateObject has asked for the object's lock and a pin has it,
\* gc.cpp:312-317).  Nothing is assumed of the requests: this holds even when two
\* allocations have come to overlap.
THEOREM PinnedObjectsStay == Spec => PinnedStay
<1> USE DEF PinnedStay
<1>1. PinInvariant /\ [Next]_vars => PinInvariant'
  BY PinsNext
<1>2. PinInvariant /\ [Next]_vars => [\A o \in pinned : handle'[o] = handle[o]]_vars
  BY PinsNext
<1> QED
  BY PinsInit, <1>1, <1>2, PTL DEF Spec

===============================================================================
