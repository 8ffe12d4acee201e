-------------------------- MODULE SlotContainerProofs --------------------------
(***************************************************************************)
(* Proofs about SlotContainer for every number of slots in a node and of   *)
(* nodes.                                                                  *)
(***************************************************************************)
EXTENDS SlotContainer, WellFoundedInduction, TLAPS

\* The places whose bit is set are those of nodes, and the callers' are among them.
OwnedIsTaken == \A p \in owned : IsTaken(p[1], p[2])

\* The inductive invariant.
IInv == TypeOK /\ LifetimesBalance /\ NodesAreListed /\ OwnedIsTaken

-------------------------------------------------------------------------------

\* The library's well-founded order on the naturals, as a set of pairs.
Below == {p \in Nat \X Nat : p[1] < p[2]}

LEMMA LeastNumber ==
    ASSUME NEW S \in SUBSET Nat, S # {}
    PROVE  \E x \in S : \A y \in S : x <= y
<1>1. OpToRel(<, Nat) = Below
  BY DEF OpToRel, Below
<1>2. IsWellFoundedOn(Below, Nat)
  BY <1>1, NatLessThanWellFounded
<1>3. PICK x \in S : \A y \in S : <<y, x>> \notin Below
  BY <1>2, WFMin
<1>4. \A y \in S : ~(y < x)
  BY <1>3 DEF Below
<1>5. x \in Nat /\ \A y \in S : y \in Nat
  OBVIOUS
<1>6. \A y \in S : x <= y
  BY <1>4, <1>5
<1> QED
  BY <1>3, <1>6

\* Max of a set of numbers with a bound is in the set: the least bound is.
LEMMA MaxOfBounded ==
    ASSUME NEW S \in SUBSET Nat, S # {}, NEW n \in Nat, \A y \in S : y <= n
    PROVE  Max(S) \in S /\ \A y \in S : y <= Max(S)
<1> DEFINE bounds == {b \in Nat : \A y \in S : y <= b}
<1>1. PICK b \in bounds : \A c \in bounds : b <= c
  <2>1. bounds \in SUBSET Nat /\ bounds # {}
    OBVIOUS
  <2> HIDE DEF bounds
  <2> QED
    BY <2>1, LeastNumber
<1>2. b \in S
  <2> SUFFICES ASSUME b \notin S PROVE FALSE
    OBVIOUS
  <2>1. \A y \in S : y \in Nat /\ y <= b /\ y # b
    OBVIOUS
  <2>2. b \in Nat
    OBVIOUS
  <2>3. \A y \in S : y < b
    BY <2>1, <2>2
  <2>4. \A y \in S : y <= b - 1
    BY <2>1, <2>2, <2>3
  <2>5. b - 1 \in Nat
    <3>1. PICK y \in S : y \in Nat /\ y < b
      BY <2>1, <2>3
    <3> QED
      BY <2>2, <3>1
  <2>6. b <= b - 1
    BY <1>1, <2>4, <2>5
  <2> QED
    BY <2>2, <2>6
<1>3. \E x \in S : \A y \in S : x >= y
  BY <1>2
<1>4. Max(S) \in S /\ \A y \in S : Max(S) >= y
  BY <1>3 DEF Max
<1> QED
  BY <1>4

\* The slot that NextFreeSlot names is free.
LEMMA NextFreeSlotIsFree ==
    ASSUME NEW flags \in SUBSET Slots
    PROVE  NextFreeSlot(flags) \in Nat /\ NextFreeSlot(flags) \notin flags
<1>1. CASE flags = {}
  BY <1>1 DEF NextFreeSlot
<1>2. CASE flags # {}
  <2>1. flags \in SUBSET Nat /\ \A y \in flags : y <= Capacity
    BY SlotAssumption DEF Slots
  <2>2. Max(flags) \in flags /\ \A y \in flags : y <= Max(flags)
    BY <1>2, <2>1, SlotAssumption, MaxOfBounded
  <2>3. NextFreeSlot(flags) = Max(flags) + 1 /\ Max(flags) \in Nat
    BY <1>2, <2>1, <2>2 DEF NextFreeSlot
  <2>4. Max(flags) + 1 \notin flags
    <3> SUFFICES ASSUME Max(flags) + 1 \in flags PROVE FALSE
      OBVIOUS
    <3>1. Max(flags) + 1 <= Max(flags)
      BY <2>2
    <3> QED
      BY <2>3, <3>1
  <2> QED
    BY <2>3, <2>4
<1> QED
  BY <1>1, <1>2

LEMMA ChosenNodeHasRoom ==
    ASSUME TypeOK, NodesWithRoom # {}
    PROVE  Max(NodesWithRoom) \in DOMAIN taken
<1>1. NodesWithRoom \in SUBSET Nat /\ \A y \in NodesWithRoom : y <= Len(taken)
  BY DEF TypeOK, NodesWithRoom
<1>2. Len(taken) \in Nat
  BY DEF TypeOK
<1>3. Max(NodesWithRoom) \in NodesWithRoom
  BY <1>1, <1>2, MaxOfBounded
<1> QED
  BY <1>3 DEF NodesWithRoom

-------------------------------------------------------------------------------

LEMMA InitEstablishes == Init => IInv
<1> SUFFICES ASSUME Init PROVE IInv
  OBVIOUS
<1>1. TypeOK
  <2>1. taken \in Seq(SUBSET Slots) /\ Len(taken) <= MaxNodes
    BY SlotAssumption DEF Init
  <2>2. live \in [Places -> Int]
    BY DEF Init
  <2>3. allocated \in 0 .. MaxNodes
    BY SlotAssumption DEF Init
  <2>4. growing \in BOOLEAN
    BY Zenon DEF Init
  <2> QED
    BY <2>1, <2>2, <2>3, <2>4 DEF Init, TypeOK
<1>2. LifetimesBalance
  <2> SUFFICES ASSUME NEW n \in 1 .. MaxNodes, NEW s \in Slots
               PROVE  live[<<n, s>>] = 0 /\ ~IsTaken(n, s)
    BY DEF LifetimesBalance
  <2>1. <<n, s>> \in Places
    BY DEF Places
  <2> QED
    BY <2>1 DEF Init, IsTaken
<1> QED
  BY <1>1, <1>2 DEF Init, IInv, NodesAreListed, OwnedIsTaken

\* A slot that was free is taken and its element constructed.
LEMMA HandOutKeeps ==
    ASSUME IInv, NEW n \in 1 .. MaxNodes, NEW s \in Slots, ~IsTaken(n, s), HandOut(n, s),
           taken' \in Seq(SUBSET Slots), Len(taken') <= MaxNodes,
           IsTaken(n, s)',
           \A p \in Places \ {<<n, s>>} : IsTaken(p[1], p[2])' <=> IsTaken(p[1], p[2]),
           allocated' = allocated, growing' \in BOOLEAN, misused' = misused, NodesAreListed'
    PROVE  IInv'
<1>1. <<n, s>> \in Places
  BY DEF Places
<1>2. live[<<n, s>>] \in Int /\ (<<n, s>> \notin misused => live[<<n, s>>] = 0)
  BY <1>1 DEF IInv, TypeOK, LifetimesBalance
<1>3. TypeOK'
  <2>1. live' \in [Places -> Int]
    BY <1>1, <1>2 DEF IInv, TypeOK, HandOut
  <2>2. owned' \subseteq Places
    BY <1>1 DEF IInv, TypeOK, HandOut
  <2>3. answer' \in {"none", "slot", "bad_alloc", "out_of_range"}
    BY DEF HandOut
  <2> QED
    BY <2>1, <2>2, <2>3 DEF IInv, TypeOK
<1>4. LifetimesBalance'
  <2> SUFFICES ASSUME NEW m \in 1 .. MaxNodes, NEW r \in Slots
               PROVE  <<m, r>> \notin misused =>
                        live'[<<m, r>>] = IF IsTaken(m, r)' THEN 1 ELSE 0
    BY DEF LifetimesBalance
  <2>1. <<m, r>> \in Places
    BY DEF Places
  <2>2. CASE m = n /\ r = s
    BY <1>1, <1>2, <2>2 DEF HandOut, IInv, TypeOK
  <2>3. CASE ~(m = n /\ r = s)
    <3>1. <<m, r>> # <<n, s>> /\ live'[<<m, r>>] = live[<<m, r>>]
      BY <2>1, <2>3 DEF HandOut, IInv, TypeOK
    <3>2. IsTaken(m, r)' <=> IsTaken(m, r)
      BY <2>1, <3>1
    <3> QED
      BY <3>1, <3>2 DEF IInv, LifetimesBalance
  <2> QED
    BY <2>2, <2>3
<1>5. OwnedIsTaken'
  <2> SUFFICES ASSUME NEW p \in owned' PROVE IsTaken(p[1], p[2])'
    BY DEF OwnedIsTaken
  <2>1. CASE p = <<n, s>>
    BY <2>1
  <2>2. CASE p # <<n, s>>
    BY <2>2 DEF HandOut, IInv, TypeOK, OwnedIsTaken
  <2> QED
    BY <2>1, <2>2
<1> QED
  BY <1>3, <1>4, <1>5 DEF IInv

LEMMA GetKeeps == IInv /\ GetNextWritable => IInv'
<1> SUFFICES ASSUME IInv, GetNextWritable PROVE IInv'
  OBVIOUS
<1>n. PICK n : n = Max(NodesWithRoom)
  OBVIOUS
<1>s. PICK s : s = NextFreeSlot(taken[n])
  OBVIOUS
<1>1. n \in DOMAIN taken /\ n \in 1 .. MaxNodes /\ taken[n] \in SUBSET Slots
  BY <1>n, ChosenNodeHasRoom, SlotAssumption DEF GetNextWritable, IInv, TypeOK
<1>2. s \notin taken[n]
  BY <1>1, <1>s, NextFreeSlotIsFree
<1>3. CASE s \in Slots
  <2>1. /\ taken' = [taken EXCEPT ![n] = @ \cup {s}] /\ HandOut(n, s)
        /\ UNCHANGED <<allocated, growing, misused>>
    BY <1>3, <1>n, <1>s DEF GetNextWritable
  <2>2. taken' \in Seq(SUBSET Slots) /\ Len(taken') = Len(taken) /\ DOMAIN taken' = DOMAIN taken
    BY <1>1, <1>3, <2>1 DEF IInv, TypeOK
  <2>3. IsTaken(n, s)' /\ ~IsTaken(n, s)
    <3>1. taken'[n] = taken[n] \cup {s}
      BY <1>1, <2>1 DEF IInv, TypeOK
    <3> QED
      BY <1>1, <1>2, <2>2, <3>1 DEF IsTaken
  <2>4. \A m, r : <<m, r>> # <<n, s>> => (IsTaken(m, r)' <=> IsTaken(m, r))
    BY <1>1, <2>1, <2>2 DEF IsTaken, IInv, TypeOK
  <2>5. \A p \in Places \ {<<n, s>>} : IsTaken(p[1], p[2])' <=> IsTaken(p[1], p[2])
    BY <2>4 DEF Places
  <2>6. NodesAreListed'
    BY <2>1, <2>2 DEF IInv, NodesAreListed
  <2>7. Len(taken') <= MaxNodes /\ growing' \in BOOLEAN
    BY <2>1, <2>2 DEF IInv, TypeOK
  <2> QED
    BY <1>1, <1>3, <2>1, <2>2, <2>3, <2>5, <2>6, <2>7, HandOutKeeps
<1>4. CASE s \notin Slots
  BY <1>4, <1>n, <1>s DEF GetNextWritable, IInv, TypeOK, LifetimesBalance, NodesAreListed, OwnedIsTaken, IsTaken
<1> QED
  BY <1>3, <1>4

LEMMA PushBackKeeps == IInv /\ PushBack => IInv'
<1> SUFFICES ASSUME IInv, PushBack PROVE IInv'
  OBVIOUS
<1>n. PICK n : n = Len(taken) + 1
  OBVIOUS
<1>1. n \in 1 .. MaxNodes /\ n \notin DOMAIN taken
  BY <1>n, SlotAssumption DEF PushBack, IInv, TypeOK, NodesAreListed
<1>2. NextFreeSlot({}) = 0 /\ 0 \in Slots
  BY SlotAssumption DEF NextFreeSlot, Slots
<1>3. taken' = Append(taken, {0}) /\ HandOut(n, 0) /\ growing' = FALSE
      /\ UNCHANGED <<allocated, misused>>
  BY <1>2, <1>n DEF PushBack
<1>4. /\ taken' \in Seq(SUBSET Slots) /\ Len(taken') = n /\ taken'[n] = {0} /\ n \in DOMAIN taken'
      /\ \A m \in DOMAIN taken : m \in DOMAIN taken' /\ taken'[m] = taken[m]
      /\ \A m \in DOMAIN taken' : m = n \/ m \in DOMAIN taken
  BY <1>2, <1>3, <1>n DEF IInv, TypeOK
<1>5. ~IsTaken(n, 0) /\ IsTaken(n, 0)'
  BY <1>1, <1>4 DEF IsTaken
<1>6. \A m, r : <<m, r>> # <<n, 0>> => (IsTaken(m, r)' <=> IsTaken(m, r))
  <2> SUFFICES ASSUME NEW m, NEW r, <<m, r>> # <<n, 0>>
               PROVE  IsTaken(m, r)' <=> IsTaken(m, r)
    OBVIOUS
  <2>1. CASE m = n
    BY <1>1, <1>4, <2>1 DEF IsTaken
  <2>2. CASE m # n
    BY <1>4, <2>2 DEF IsTaken
  <2> QED
    BY <2>1, <2>2
<1>7. \A p \in Places \ {<<n, 0>>} : IsTaken(p[1], p[2])' <=> IsTaken(p[1], p[2])
  BY <1>6 DEF Places
<1>8. NodesAreListed'
  BY <1>3, <1>4, <1>n DEF IInv, TypeOK, NodesAreListed, PushBack
<1> QED
  <2>1. Len(taken') <= MaxNodes
    BY <1>1, <1>4
  <2>2. growing' \in BOOLEAN
    BY <1>3, Zenon
  <2> QED
    BY <1>1, <1>2, <1>3, <1>4, <1>5, <1>7, <1>8, <2>1, <2>2, HandOutKeeps

LEMMA AllocateKeeps == IInv /\ (AllocateNode \/ PushBackFails) => IInv'
<1> SUFFICES ASSUME IInv, AllocateNode \/ PushBackFails PROVE IInv'
  OBVIOUS
<1>0. Len(taken) \in Nat /\ allocated \in Nat /\ MaxNodes \in Nat /\ allocated <= MaxNodes
      /\ allocated = Len(taken) + (IF growing THEN 1 ELSE 0)
  BY SlotAssumption DEF IInv, TypeOK, NodesAreListed
<1>a. UNCHANGED <<taken, live, owned, misused>> /\ growing' \in BOOLEAN
      /\ answer' \in {"none", "slot", "bad_alloc", "out_of_range"}
  BY Zenon DEF AllocateNode, PushBackFails, IInv, TypeOK
<1>b. allocated' \in 0 .. MaxNodes
  BY <1>0 DEF AllocateNode, PushBackFails
<1>c. NodesAreListed'
  BY <1>0 DEF AllocateNode, PushBackFails, NodesAreListed
<1>1. TypeOK' /\ NodesAreListed'
  BY <1>a, <1>b, <1>c DEF IInv, TypeOK
<1> QED
  BY <1>1 DEF AllocateNode, PushBackFails, IInv, LifetimesBalance, OwnedIsTaken, IsTaken

\* RemoveAt destroys the element of one taken slot.
LEMMA RemoveAtKeeps ==
    ASSUME IInv, NEW n \in 1 .. MaxNodes, NEW s \in Slots, RemoveAt(n, s)
    PROVE  IInv'
<1>1. n \in DOMAIN taken /\ s \in taken[n] /\ <<n, s>> \in Places
      /\ live[<<n, s>>] \in Int /\ (<<n, s>> \notin misused => live[<<n, s>>] = 1)
  BY DEF RemoveAt, Places, IInv, TypeOK, LifetimesBalance, IsTaken
<1>2. taken' \in Seq(SUBSET Slots) /\ Len(taken') = Len(taken) /\ DOMAIN taken' = DOMAIN taken
  BY DEF RemoveAt, IInv, TypeOK
<1>3. TypeOK' /\ NodesAreListed'
  BY <1>1, <1>2 DEF RemoveAt, IInv, TypeOK, NodesAreListed
<1>4. ~IsTaken(n, s)' /\ \A m, r : <<m, r>> # <<n, s>> => (IsTaken(m, r)' <=> IsTaken(m, r))
  BY <1>1, <1>2 DEF RemoveAt, IsTaken, IInv, TypeOK
<1>5. LifetimesBalance'
  <2> SUFFICES ASSUME NEW m \in 1 .. MaxNodes, NEW r \in Slots
               PROVE  <<m, r>> \notin misused' =>
                        live'[<<m, r>>] = IF IsTaken(m, r)' THEN 1 ELSE 0
    BY DEF LifetimesBalance
  <2>0. misused' = misused
    BY DEF RemoveAt
  <2>1. CASE m = n /\ r = s
    BY <2>0, <1>1, <1>4, <2>1 DEF RemoveAt, IInv, TypeOK
  <2>2. CASE <<m, r>> # <<n, s>>
    <3>1. live'[<<m, r>>] = live[<<m, r>>]
      BY <2>2 DEF RemoveAt, IInv, TypeOK, Places
    <3> QED
      BY <2>0, <3>1, <1>4, <2>2 DEF IInv, LifetimesBalance
  <2> QED
    BY <2>1, <2>2
<1>6. OwnedIsTaken'
  <2> SUFFICES ASSUME NEW p \in owned' PROVE IsTaken(p[1], p[2])'
    BY DEF OwnedIsTaken
  <2>1. p \in owned /\ p # <<n, s>> /\ p = <<p[1], p[2]>>
    BY DEF RemoveAt, IInv, TypeOK, Places
  <2> QED
    BY <1>4, <2>1 DEF IInv, OwnedIsTaken
<1> QED
  BY <1>3, <1>5, <1>6 DEF IInv

\* Remove changes nothing but the caller's claim to an element that exists, and
\* nothing but its own place when there is none.
LEMMA RemoveKeeps ==
    ASSUME IInv, NEW n \in 1 .. MaxNodes, NEW s \in Slots, Remove(n, s)
    PROVE  IInv'
<1>1. CASE RemoveTaken(n, s)
  <2>1. UNCHANGED <<taken, live, allocated, growing, misused, answer>> /\ owned' \subseteq owned
    BY <1>1 DEF RemoveTaken
  <2> QED
    BY <2>1 DEF IInv, TypeOK, LifetimesBalance, NodesAreListed, OwnedIsTaken, IsTaken
<1>2. CASE RemoveFree(n, s)
  <2>1. <<n, s>> \in Places /\ live[<<n, s>>] - 1 \in Int
    BY DEF IInv, TypeOK, Places
  <2>2. /\ UNCHANGED <<taken, allocated, growing, owned, answer>>
        /\ misused' = misused \cup {<<n, s>>}
        /\ live' = [live EXCEPT ![<<n, s>>] = @ - 1]
    BY <1>2 DEF RemoveFree
  <2>3. TypeOK'
    BY <2>1, <2>2 DEF IInv, TypeOK
  <2>4. LifetimesBalance'
    <3> SUFFICES ASSUME NEW m \in 1 .. MaxNodes, NEW r \in Slots, <<m, r>> \notin misused'
                 PROVE  live'[<<m, r>>] = IF IsTaken(m, r)' THEN 1 ELSE 0
      BY DEF LifetimesBalance
    <3>1. <<m, r>> \in Places /\ <<m, r>> # <<n, s>> /\ <<m, r>> \notin misused
      BY <2>2 DEF Places
    <3>2. live'[<<m, r>>] = live[<<m, r>>]
      BY <2>2, <3>1 DEF IInv, TypeOK
    <3> QED
      BY <2>2, <3>1, <3>2 DEF IInv, LifetimesBalance, IsTaken
  <2> QED
    BY <2>2, <2>3, <2>4 DEF IInv, NodesAreListed, OwnedIsTaken, IsTaken
<1> QED
  BY <1>1, <1>2 DEF Remove

LEMMA DestructKeeps == IInv /\ Destruct => IInv'
<1> SUFFICES ASSUME IInv, Destruct PROVE IInv'
  OBVIOUS
<1>1. taken' = <<>> /\ owned' = {} /\ growing = FALSE /\ growing' = FALSE /\ answer' = "none"
      /\ allocated = Len(taken) /\ allocated' = 0
  BY DEF Destruct, IInv, TypeOK, NodesAreListed
<1>2. misused' = misused
      /\ \A n \in 1 .. MaxNodes, s \in Slots : <<n, s>> \notin misused => live'[<<n, s>>] = 0
  <2>0. misused' = misused
    BY DEF Destruct
  <2> SUFFICES ASSUME NEW n \in 1 .. MaxNodes, NEW s \in Slots, <<n, s>> \notin misused
               PROVE  live'[<<n, s>>] = 0
    BY <2>0
  <2>1. <<n, s>> \in Places
    BY DEF Places
  <2>2. live'[<<n, s>>] = live[<<n, s>>] - (IF n \in DOMAIN taken /\ s \in taken[n] THEN 1 ELSE 0)
    BY <2>1 DEF Destruct
  <2> QED
    BY <2>2 DEF IInv, LifetimesBalance, IsTaken
<1>3. live' \in [Places -> Int]
  <2>1. \A p \in Places : live[p] \in Int
    BY DEF IInv, TypeOK
  <2> QED
    BY <2>1 DEF Destruct
<1>4. TypeOK'
  <2>1. taken' \in Seq(SUBSET Slots) /\ Len(taken') <= MaxNodes
    BY <1>1, SlotAssumption
  <2>2. allocated' \in 0 .. MaxNodes /\ owned' \subseteq Places
    BY <1>1, SlotAssumption
  <2>3. growing' \in BOOLEAN /\ answer' \in {"none", "slot", "bad_alloc", "out_of_range"}
    BY <1>1, Zenon
  <2>4. misused' \subseteq Places
    BY <1>2 DEF IInv, TypeOK
  <2> QED
    BY <1>1, <1>3, <2>1, <2>2, <2>3, <2>4 DEF TypeOK
<1>5. LifetimesBalance'
  <2>1. DOMAIN taken' = {}
    BY <1>1
  <2> QED
    BY <1>2, <2>1 DEF LifetimesBalance, IsTaken
<1> QED
  BY <1>1, <1>4, <1>5 DEF IInv, NodesAreListed, OwnedIsTaken

LEMMA StepKeeps == IInv /\ [Next]_vars => IInv'
<1>1. IInv /\ UNCHANGED vars => IInv'
  BY DEF vars, IInv, TypeOK, LifetimesBalance, NodesAreListed, OwnedIsTaken, IsTaken
<1> QED
  BY <1>1, GetKeeps, PushBackKeeps, AllocateKeeps, RemoveAtKeeps, RemoveKeeps, DestructKeeps
     DEF Next

LEMMA InvariantHolds == Spec => []IInv
  BY InitEstablishes, StepKeeps, PTL DEF Spec

\* The bits are exactly the elements that exist: an element is constructed where there
\* is none and destroyed once (gc-util.h:528-640), except in a place from which a caller
\* has removed an element that was not there, and there only.
THEOREM ElementsAreTheirBits == Spec => []LifetimesBalance
  BY InvariantHolds, PTL DEF IInv

\* A caller's element exists until its caller gives it up (gc-util.h:559-627), except in
\* the same places.
THEOREM OwnedElementsExist == Spec => []OwnedStaysConstructed
<1>1. IInv => OwnedStaysConstructed
  <2> SUFFICES ASSUME IInv, NEW p \in owned \ misused PROVE live[p] = 1
    BY DEF OwnedStaysConstructed
  <2>1. p = <<p[1], p[2]>> /\ p \notin misused /\ p[1] \in 1 .. MaxNodes /\ p[2] \in Slots /\ IsTaken(p[1], p[2])
    BY DEF IInv, TypeOK, Places, OwnedIsTaken
  <2> QED
    BY <2>1 DEF IInv, LifetimesBalance
<1> QED
  BY <1>1, InvariantHolds, PTL

\* Every node that the resource handed out is in the list or about to enter it, after
\* a failed call too (gc-util.h:560-600).
THEOREM NoNodeLeaks == Spec => []NodesAreListed
  BY InvariantHolds, PTL DEF IInv

===============================================================================
