--------------------------- MODULE TypeRegistryProofs ---------------------------
(***************************************************************************)
(* Proofs about TypeRegistry for every set of threads and types and every  *)
(* width of the lock's counter word.  Only what an index leads to asks for *)
(* something more: that type_index can number all the types.               *)
(***************************************************************************)
EXTENDS TypeRegistry, FiniteSetTheorems, TLAPS

\* The threads with an access to typesLock, read or write.
Inside == {t \in Threads : pc[t] \in {"find", "upgrade", "register", "return", "point"}}

\* The lock word is exact: it counts the threads inside, or one of them is alone
\* there with the write access it upgraded to.
WordCountsInside ==
    /\ IsFiniteSet(Inside)
    /\ \/ /\ word = Cardinality(Inside) /\ word <= WriteMask
          /\ \A t \in Threads : pc[t] # "register"
       \/ /\ word = WriteHeld
          /\ \E t \in Threads : Inside = {t} /\ pc[t] \in {"register", "return"}

\* A thread in a call knows the type it works for.
CallersWant ==
    \A t \in Threads :
       pc[t] \in {"lock", "find", "upgrade", "register", "return"} => want[t] \in Types

\* The inductive invariant of the table and its lock.
IInv == TypeOK /\ WordCountsInside /\ CallersWant /\ TypesAreDistinct

\* What type_index has to be wide enough for: an index for each of the types.
EnoughIndices == IsFiniteSet(Types) /\ Cardinality(Types) <= MaxIndex + 1

\* The index a thread is about to be given leads to its type as well.
FoundIndexNames ==
    \A t \in Threads :
       pc[t] = "return" /\ got[t] # None =>
          got[t] + 1 \in DOMAIN types /\ types[got[t] + 1] = want[t]

-------------------------------------------------------------------------------

\* A thread that is not inside joins the others.
LEMMA Join ==
    ASSUME IInv, NEW t \in Threads, t \notin Inside, Inside' = Inside \cup {t}
    PROVE  IsFiniteSet(Inside') /\ Cardinality(Inside') = Cardinality(Inside) + 1
  BY FS_AddElement DEF IInv, WordCountsInside

\* Readable in terms of the count.
LEMMA ReadableWord ==
    ASSUME IInv, Readable(word)
    PROVE  word \in Nat /\ word < WriteMask /\ word = Cardinality(Inside)
  BY WriteMaskAssumption
     DEF IInv, TypeOK, WordCountsInside, Readable, ClearWriteBit, Words, WriteHeld

\* A word of one means: this reader and no other.
LEMMA OneReader ==
    ASSUME IInv, NEW t \in Threads, t \in Inside, word = 1
    PROVE  Inside = {t}
<1>1. Cardinality(Inside) = 1
  BY WriteMaskAssumption DEF IInv, WordCountsInside, WriteHeld
<1> QED
  BY <1>1, FS_Singleton DEF IInv, WordCountsInside

\* What the release of an access makes of the word.
LEMMA ReleaseKeepsCount ==
    ASSUME IInv, NEW t \in Threads, t \in Inside, pc[t] # "register",
           word' = Released(word), Inside' = Inside \ {t},
           \A u \in Threads \ {t} : pc'[u] = pc[u], pc'[t] # "register"
    PROVE  WordCountsInside'
<1>1. IsFiniteSet(Inside) /\ IsFiniteSet(Inside') /\ Cardinality(Inside') = Cardinality(Inside) - 1
      /\ Cardinality(Inside) \in Nat
  BY FS_RemoveElement, FS_CardinalityType DEF IInv, WordCountsInside
<1>2. CASE word = WriteHeld
  <2>1. Cardinality(Inside) = 1 /\ Inside = {t}
    <3>1. Inside = {t}
      <4>1. CASE word = Cardinality(Inside) /\ word <= WriteMask
        BY <1>2, <4>1, WriteMaskAssumption DEF WriteHeld
      <4> QED
        BY <4>1 DEF IInv, WordCountsInside
    <3> QED
      BY <3>1, FS_Singleton
  <2>2. \A u \in Threads : pc'[u] # "register"
    BY <2>1 DEF Inside
  <2> QED
    BY <1>1, <1>2, <2>1, <2>2, WriteMaskAssumption DEF WordCountsInside, Released, Free
<1>3. CASE word # WriteHeld
  <2>1. word = Cardinality(Inside) /\ word <= WriteMask /\ \A u \in Threads : pc[u] # "register"
    BY <1>3 DEF IInv, WordCountsInside
  <2>2. Cardinality(Inside) # 0
    BY <1>1, FS_EmptySet
  <2> QED
    BY <1>1, <1>3, <2>1, <2>2, WriteMaskAssumption DEF WordCountsInside, Released
<1> QED
  BY <1>2, <1>3

\* With no type in the table twice, First is the one position of a type.
LEMMA FirstPosition ==
    ASSUME TypesAreDistinct, types \in Seq(Types), NEW type, Positions(type) # {}
    PROVE  First(type) \in DOMAIN types /\ types[First(type)] = type /\ First(type) \in 1 .. Len(types)
<1>1. PICK i \in Positions(type) : TRUE
  OBVIOUS
<1>2. \A j \in Positions(type) : i <= j
  BY <1>1 DEF Positions, TypesAreDistinct
<1>3. First(type) \in Positions(type)
  BY <1>1, <1>2 DEF First
<1> QED
  BY <1>3 DEF Positions

-------------------------------------------------------------------------------

LEMMA InitEstablishes == Init => IInv
<1> SUFFICES ASSUME Init PROVE IInv
  OBVIOUS
<1>1. TypeOK
  BY WriteMaskAssumption DEF Init, TypeOK, Words, Free, Labels, Idle
<1>2. Inside = {}
  BY DEF Init, Inside, Idle
<1>3. WordCountsInside
  BY <1>2, FS_EmptySet, WriteMaskAssumption DEF Init, WordCountsInside, Free, Idle
<1>4. CallersWant
  BY DEF Init, CallersWant, Idle
<1>5. TypesAreDistinct
  BY DEF Init, TypesAreDistinct
<1> QED
  BY <1>1, <1>3, <1>4, <1>5 DEF IInv

\* A step that moves only t, neither into nor out of the lock.
LEMMA MoveKeepsCount ==
    ASSUME IInv, NEW t \in Threads, NEW label, Goto(t, label), UNCHANGED word,
           label # "register", pc[t] # "register" \/ label = "return",
           t \in Inside <=> label \in {"find", "upgrade", "return", "point"},
           pc[t] = "return" => label = "return"
    PROVE  WordCountsInside'
<1>1. pc'[t] = label /\ \A u \in Threads \ {t} : pc'[u] = pc[u]
  BY DEF Goto, IInv, TypeOK
<1>2. Inside' = Inside
  BY <1>1 DEF Inside
<1>3. CASE word = WriteHeld /\ \E u \in Threads : Inside = {u} /\ pc[u] \in {"register", "return"}
  BY <1>1, <1>2, <1>3 DEF WordCountsInside, IInv, Inside
<1>4. CASE word = Cardinality(Inside) /\ word <= WriteMask /\ \A u \in Threads : pc[u] # "register"
  BY <1>1, <1>2, <1>4 DEF WordCountsInside, IInv
<1> QED
  BY <1>3, <1>4 DEF IInv, WordCountsInside

LEMMA CallKeeps ==
    ASSUME IInv, NEW t \in Threads, NEW type \in Types, GetOrRegisterType(t, type)
    PROVE  IInv'
<1>1. TypeOK'
  BY DEF IInv, TypeOK, GetOrRegisterType, Goto, Labels
<1>2. WordCountsInside'
  BY MoveKeepsCount DEF GetOrRegisterType, Inside, Idle
<1>3. CallersWant'
  BY DEF IInv, TypeOK, CallersWant, GetOrRegisterType, Goto
<1>4. TypesAreDistinct'
  BY DEF IInv, TypesAreDistinct, GetOrRegisterType
<1> QED
  BY <1>1, <1>2, <1>3, <1>4 DEF IInv

\* Lock and UseType add a read access.
LEMMA AcquireKeeps ==
    ASSUME IInv, NEW t \in Threads, Lock(t) \/ UseType(t)
    PROVE  IInv'
<1>1. word \in Nat /\ word < WriteMask /\ word = Cardinality(Inside)
  BY ReadableWord DEF Lock, UseType
<1>2. TypeOK'
  BY <1>1, WriteMaskAssumption DEF IInv, TypeOK, Lock, UseType, Goto, Labels, Words
<1>3. t \notin Inside /\ Inside' = Inside \cup {t}
  BY DEF IInv, TypeOK, Inside, Lock, UseType, Goto, Idle
<1>4. \A u \in Threads : pc[u] # "register"
  BY <1>1, WriteMaskAssumption DEF IInv, WordCountsInside, WriteHeld
<1>5. WordCountsInside'
  <2>1. \A u \in Threads : pc'[u] # "register"
    BY <1>4 DEF IInv, TypeOK, Lock, UseType, Goto
  <2>2. word' = word + 1
    BY DEF Lock, UseType
  <2> QED
    BY <1>1, <1>3, <2>1, <2>2, Join, WriteMaskAssumption DEF WordCountsInside
<1>6. CallersWant'
  BY DEF IInv, TypeOK, CallersWant, Lock, UseType, Goto
<1>7. TypesAreDistinct'
  BY DEF IInv, TypesAreDistinct, Lock, UseType
<1> QED
  BY <1>2, <1>5, <1>6, <1>7 DEF IInv

\* An index in the width of type_index is an index.
LEMMA TruncatedType ==
    ASSUME NEW n \in Nat
    PROVE  Truncated(n) \in Nat
  BY RegistryAssumption DEF Truncated

LEMMA ReturnFoundType ==
    ASSUME IInv, NEW t \in Threads, Positions(want[t]) # {}, ReturnFound(t)
    PROVE  \E index \in Nat \cup {None} : Return(t, index)
<1>1. First(want[t]) - 1 \in Nat
  BY FirstPosition DEF IInv, TypeOK
<1> QED
  BY <1>1, TruncatedType DEF ReturnFound, Throw

LEMMA FindKeeps ==
    ASSUME IInv, NEW t \in Threads, Find(t)
    PROVE  IInv'
<1>1. CASE Positions(want[t]) = {}
  <2>1. TypeOK'
    BY <1>1 DEF IInv, TypeOK, Find, Goto, Labels
  <2>2. WordCountsInside'
    BY <1>1, MoveKeepsCount DEF Find, Inside
  <2>3. CallersWant'
    BY <1>1 DEF IInv, TypeOK, CallersWant, Find, Goto
  <2> QED
    BY <2>1, <2>2, <2>3 DEF IInv, TypesAreDistinct, Find
<1>2. CASE Positions(want[t]) # {}
  <2>1. PICK index \in Nat \cup {None} : Return(t, index)
    BY <1>2, ReturnFoundType DEF Find
  <2>2. TypeOK'
    BY <2>1 DEF IInv, TypeOK, Find, Return, Goto, Labels
  <2>3. WordCountsInside'
    BY <2>1, MoveKeepsCount DEF Find, Return, Inside
  <2>4. CallersWant'
    BY <2>1 DEF IInv, TypeOK, CallersWant, Find, Return, Goto
  <2> QED
    BY <2>2, <2>3, <2>4 DEF IInv, TypesAreDistinct, Find
<1> QED
  BY <1>1, <1>2

LEMMA UpgradeKeeps ==
    ASSUME IInv, NEW t \in Threads, Upgrade(t)
    PROVE  IInv'
<1>1. TypeOK'
  BY WriteMaskAssumption DEF IInv, TypeOK, Upgrade, Goto, Labels, Words, WriteHeld
<1>2. Inside = {t} /\ Inside' = Inside
  <2>1. t \in Inside
    BY DEF Upgrade, Inside
  <2> QED
    BY <2>1, OneReader DEF Upgrade, Inside, Goto, IInv, TypeOK
<1>3. WordCountsInside'
  BY <1>2, FS_Singleton DEF WordCountsInside, Upgrade, Goto, IInv, TypeOK
<1>4. CallersWant'
  BY DEF IInv, TypeOK, CallersWant, Upgrade, Goto
<1> QED
  BY <1>1, <1>3, <1>4 DEF IInv, TypesAreDistinct, Upgrade

\* A table whose buffer is full gets room for one more.
LEMMA EmplaceKeepsTypes ==
    ASSUME TypeOK, NEW type \in Types, Emplace(type)
    PROVE  /\ types' \in Seq(Types) /\ capacity' \in Nat /\ buffer' \in Nat
           /\ Len(types') <= capacity'
           /\ Len(types') = Len(types) + 1 /\ types'[Len(types) + 1] = type
           /\ \A i \in DOMAIN types : i \in DOMAIN types' /\ types'[i] = types[i]
  BY DEF TypeOK, Emplace

LEMMA RegisterKeeps ==
    ASSUME IInv, NEW t \in Threads, Register(t)
    PROVE  IInv'
<1>1. PICK index \in Nat \cup {None} : Return(t, index)
  <2>1. Truncated(Len(types)) \in Nat
    BY TruncatedType DEF IInv, TypeOK
  <2>2. CASE Positions(want[t]) # {}
    BY <2>2, ReturnFoundType DEF Register
  <2>3. CASE Positions(want[t]) = {}
    BY <2>1, <2>3 DEF Register, Throw
  <2> QED
    BY <2>2, <2>3
<1>2. want[t] \in Types
  BY DEF IInv, CallersWant, Register
<1>3. WordCountsInside'
  BY <1>1, MoveKeepsCount DEF Register, Return, Inside
<1>4. CallersWant'
  BY <1>1 DEF IInv, TypeOK, CallersWant, Register, Return, Goto
<1>5. CASE Positions(want[t]) = {} /\ Emplace(want[t])
  <2>1. TypeOK'
    BY <1>1, <1>2, <1>5, EmplaceKeepsTypes DEF IInv, TypeOK, Register, Return, Goto, Labels
  <2>2. TypesAreDistinct'
    <3>1. \A i \in DOMAIN types : types[i] # want[t]
      BY <1>5 DEF Positions
    <3>2. DOMAIN types = 1 .. Len(types) /\ DOMAIN types' = 1 .. (Len(types) + 1)
          /\ Len(types) \in Nat
      BY <1>2, <1>5, EmplaceKeepsTypes DEF IInv, TypeOK
    <3>3. \A i \in 1 .. Len(types) : types'[i] = types[i] /\ types[i] # want[t]
      BY <1>2, <1>5, <3>1, <3>2, EmplaceKeepsTypes DEF IInv
    <3>4. types'[Len(types) + 1] = want[t]
      BY <1>2, <1>5, EmplaceKeepsTypes DEF IInv
    <3> QED
      BY <3>2, <3>3, <3>4 DEF IInv, TypesAreDistinct
  <2> QED
    BY <2>1, <2>2, <1>3, <1>4 DEF IInv
<1>6. CASE UNCHANGED <<types, capacity, buffer>>
  <2>1. TypeOK'
    BY <1>1, <1>6 DEF IInv, TypeOK, Register, Return, Goto, Labels
  <2> QED
    BY <2>1, <1>3, <1>4, <1>6 DEF IInv, TypesAreDistinct
<1> QED
  BY <1>5, <1>6 DEF Register

LEMMA ReleasedType ==
    ASSUME NEW w \in Words
    PROVE  Released(w) \in Words
  BY WriteMaskAssumption DEF Words, Released, Free

LEMMA AnswerKeeps ==
    ASSUME IInv, NEW t \in Threads, Answer(t)
    PROVE  IInv'
<1>1. want[t] \in Types /\ got[t] \in Nat \cup {None}
  BY DEF IInv, TypeOK, CallersWant, Answer
<1>2. TypeOK'
  <2>1. answer' \in [Threads -> [type : Types, index : Nat] \cup {None}]
    BY <1>1 DEF IInv, TypeOK, Answer
  <2> QED
    BY <2>1, ReleasedType DEF IInv, TypeOK, Answer, Goto, Labels, Idle
<1>3. WordCountsInside'
  <2>1. t \in Inside /\ Inside' = Inside \ {t} /\ pc'[t] = Idle
        /\ \A u \in Threads \ {t} : pc'[u] = pc[u]
    BY DEF Answer, Goto, Inside, IInv, TypeOK, Idle
  <2> QED
    BY <2>1, ReleaseKeepsCount DEF Answer, Idle
<1>4. CallersWant'
  BY DEF IInv, TypeOK, CallersWant, Answer, Goto, Idle
<1> QED
  BY <1>2, <1>3, <1>4 DEF IInv, TypesAreDistinct, Answer

LEMMA PointKeeps ==
    ASSUME IInv, NEW t \in Threads, PointAtType(t)
    PROVE  IInv'
<1>1. TypeOK'
  BY ReleasedType DEF IInv, TypeOK, PointAtType, Goto, Labels
<1>2. WordCountsInside'
  <2>1. t \in Inside /\ Inside' = Inside \ {t} /\ pc'[t] = "use"
        /\ \A u \in Threads \ {t} : pc'[u] = pc[u]
    BY DEF PointAtType, Goto, Inside, IInv, TypeOK
  <2> QED
    BY <2>1, ReleaseKeepsCount DEF PointAtType
<1>3. CallersWant'
  BY DEF IInv, TypeOK, CallersWant, PointAtType, Goto
<1> QED
  BY <1>1, <1>2, <1>3 DEF IInv, TypesAreDistinct, PointAtType

LEMMA FinishKeeps ==
    ASSUME IInv, NEW t \in Threads, FinishUse(t)
    PROVE  IInv'
<1>1. TypeOK'
  BY DEF IInv, TypeOK, FinishUse, Goto, Labels, Idle
<1>2. WordCountsInside'
  BY MoveKeepsCount DEF FinishUse, Inside, Idle
<1>3. CallersWant'
  BY DEF IInv, TypeOK, CallersWant, FinishUse, Goto, Idle
<1> QED
  BY <1>1, <1>2, <1>3 DEF IInv, TypesAreDistinct, FinishUse

LEMMA StepKeeps == IInv /\ [Next]_vars => IInv'
<1> SUFFICES ASSUME IInv, [Next]_vars PROVE IInv'
  OBVIOUS
<1>1. CASE UNCHANGED vars
  <2>1. Inside' = Inside
    BY <1>1 DEF vars, Inside
  <2> QED
    BY <1>1, <2>1 DEF vars, IInv, TypeOK, WordCountsInside, CallersWant, TypesAreDistinct
<1>2. ASSUME NEW t \in Threads, NEW type \in Types, GetOrRegisterType(t, type)
      PROVE  IInv'
  BY <1>2, CallKeeps
<1>3. ASSUME NEW t \in Threads, Step(t) \/ UseType(t)
      PROVE  IInv'
  BY <1>3, AcquireKeeps, FindKeeps, UpgradeKeeps, RegisterKeeps, AnswerKeeps, PointKeeps,
     FinishKeeps DEF Step
<1> QED
  BY <1>1, <1>2, <1>3 DEF Next

LEMMA InvariantHolds == Spec => []IInv
  BY InitEstablishes, StepKeeps, PTL DEF Spec

\* The types of the table, its lock and the locals (gc-internal.h:325-326).
THEOREM TypesHold == Spec => []TypeOK
  BY InvariantHolds, PTL DEF IInv

\* No type gets two entries, however many threads register it at the same time
\* (gc.cpp:841-842).
THEOREM NoTypeTwice == Spec => []TypesAreDistinct
  BY InvariantHolds, PTL DEF IInv

\* The table is only changed by a thread that nobody else looks on (gc.cpp:834-849).
THEOREM RegistersAlone == Spec => []NobodyLooksOn
<1>1. IInv => NobodyLooksOn
  BY WriteMaskAssumption DEF IInv, WordCountsInside, NobodyLooksOn, Inside
<1> QED
  BY <1>1, InvariantHolds, PTL

-------------------------------------------------------------------------------

\* Two threads at least where the word counts two or more.
LEMMA TwoInside ==
    ASSUME IInv, word # 1, word # WriteHeld, NEW t \in Inside
    PROVE  \E u \in Inside : u # t
<1>1. Inside # {t}
  <2>1. Cardinality(Inside) # 1
    BY DEF IInv, WordCountsInside
  <2> QED
    BY <2>1, FS_Singleton
<1> QED
  BY <1>1

\* Where everybody who is in a call waits, two upgrades wait for each other: the lock
\* and the table themselves never stop a thread (gc.cpp:834-849).
THEOREM OnlyUpgradesBlock == Spec => []OnlyUpgradesCollide
<1>1. ASSUME IInv, NEW w \in Threads, Waiting(w), \A t \in Threads : pc[t] = Idle \/ Waiting(t)
      PROVE  \E t, u \in Threads : t # u /\ pc[t] = "upgrade" /\ pc[u] = "upgrade"
  <2>1. \A t \in Inside : t \in Threads /\ pc[t] = "upgrade" /\ word # 1
    BY <1>1 DEF Waiting, Inside, Idle
  <2>2. word # WriteHeld
    <3>1. \A t \in Inside : pc[t] \notin {"register", "return"}
      BY <2>1
    <3> QED
      BY <1>1, <3>1, WriteMaskAssumption DEF IInv, WordCountsInside, WriteHeld
  <2>3. Inside # {} /\ word # 1
    <3>1. CASE pc[w] = "upgrade"
      BY <1>1, <3>1 DEF Inside, Waiting
    <3>2. CASE pc[w] = "lock" /\ ~Readable(word)
      <4>1. word >= WriteMask
        BY <3>2, <1>1, WriteMaskAssumption DEF Readable, ClearWriteBit, IInv, TypeOK, Words
      <4>2. Cardinality(Inside) # 0 /\ word # 1
        BY <4>1, <2>2, <1>1, WriteMaskAssumption DEF IInv, WordCountsInside
      <4> QED
        BY <4>2, FS_EmptySet
    <3> QED
      BY <1>1, <3>1, <3>2 DEF Waiting
  <2> QED
    BY <1>1, <2>1, <2>2, <2>3, TwoInside
<1>2. IInv => OnlyUpgradesCollide
  BY <1>1 DEF OnlyUpgradesCollide
<1> QED
  BY <1>2, InvariantHolds, PTL

-------------------------------------------------------------------------------

\* A table without repetitions that misses a type is shorter than there are types.
LEMMA TableIsShort ==
    ASSUME IInv, EnoughIndices, NEW type \in Types, Positions(type) = {}
    PROVE  Len(types) <= MaxIndex
<1> DEFINE n == Len(types)
           others == Types \ {type}
<1>1. n \in Nat /\ types \in [1 .. n -> Types] /\ \A i \in 1 .. n : types[i] # type
  BY DEF IInv, TypeOK, Positions
<1>2. types \in Injection(1 .. n, others)
  BY <1>1 DEF IInv, TypeOK, TypesAreDistinct, Injection, IsInjective
<1>3. IsFiniteSet(others) /\ Cardinality(others) = Cardinality(Types) - 1
      /\ Cardinality(Types) \in Nat
  BY FS_RemoveElement, FS_CardinalityType DEF EnoughIndices
<1>4. Cardinality(1 .. n) <= Cardinality(others)
  BY <1>2, <1>3, FS_Injection
<1>5. Cardinality(1 .. n) = n
  BY <1>1, FS_Interval
<1> QED
  BY <1>1, <1>3, <1>4, <1>5, RegistryAssumption DEF EnoughIndices

\* An index that fits is not changed by the conversion.
LEMMA TruncatedFits ==
    ASSUME NEW n \in 0 .. MaxIndex
    PROVE  Truncated(n) = n
  BY RegistryAssumption DEF Truncated

\* ReturnFound answers with None or with the position of the type.
LEMMA ReturnFoundNames ==
    ASSUME IInv, NEW t \in Threads, Positions(want[t]) # {}, ReturnFound(t)
    PROVE  \/ Return(t, None)
           \/ /\ Return(t, First(want[t]) - 1)
              /\ First(want[t]) \in DOMAIN types /\ types[First(want[t])] = want[t]
              /\ First(want[t]) \in Nat
<1>1. First(want[t]) \in DOMAIN types /\ types[First(want[t])] = want[t]
      /\ First(want[t]) \in 1 .. Len(types) /\ Len(types) \in Nat
  BY FirstPosition DEF IInv, TypeOK
<1>2. CASE First(want[t]) - 1 > MaxIndex
  BY <1>2 DEF ReturnFound, Throw
<1>3. CASE First(want[t]) - 1 <= MaxIndex
  <2>1. Truncated(First(want[t]) - 1) = First(want[t]) - 1
    BY <1>1, <1>3, RegistryAssumption, TruncatedFits
  <2> QED
    BY <1>1, <1>3, <2>1, RegistryAssumption DEF ReturnFound
<1> QED
  BY <1>1, <1>2, <1>3, RegistryAssumption

LEMMA IndicesAfterReturn ==
    ASSUME IInv, FoundIndexNames, IndexNamesType, NEW t \in Threads, NEW index, Return(t, index),
           UNCHANGED <<want, answer>>, \A i \in DOMAIN types : i \in DOMAIN types' /\ types'[i] = types[i],
           index # None => index + 1 \in DOMAIN types' /\ types'[index + 1] = want[t]
    PROVE  FoundIndexNames' /\ IndexNamesType'
  BY DEF IInv, TypeOK, FoundIndexNames, IndexNamesType, Return, Goto

LEMMA IndicesAfterMove ==
    ASSUME IInv, FoundIndexNames, IndexNamesType, NEW t \in Threads, NEW label, Goto(t, label),
           label # "return", UNCHANGED <<types, answer>>,
           \A u \in Threads \ {t} : want'[u] = want[u] /\ got'[u] = got[u]
    PROVE  FoundIndexNames' /\ IndexNamesType'
  BY DEF IInv, TypeOK, FoundIndexNames, IndexNamesType, Goto

LEMMA RegisterNames ==
    ASSUME IInv, EnoughIndices, FoundIndexNames, IndexNamesType, NEW t \in Threads, Register(t)
    PROVE  FoundIndexNames' /\ IndexNamesType'
<1>1. want[t] \in Types
  BY DEF IInv, CallersWant, Register
<1>2. CASE Positions(want[t]) # {}
  <2>1. ReturnFound(t) /\ UNCHANGED <<types, want, answer>>
    BY <1>2 DEF Register
  <2> QED
    BY <1>2, <2>1, ReturnFoundNames, IndicesAfterReturn
<1>3. CASE Positions(want[t]) = {}
  <2>1. Len(types) <= MaxIndex /\ Len(types) \in Nat
    BY <1>1, <1>3, TableIsShort DEF IInv, TypeOK
  <2>2. Emplace(want[t]) /\ Return(t, Len(types)) /\ UNCHANGED <<want, answer>>
    BY <1>3, <2>1, RegistryAssumption, TruncatedFits DEF Register
  <2>3. /\ \A i \in DOMAIN types : i \in DOMAIN types' /\ types'[i] = types[i]
        /\ Len(types) + 1 \in DOMAIN types' /\ types'[Len(types) + 1] = want[t]
    BY <1>1, <2>1, <2>2, EmplaceKeepsTypes DEF IInv
  <2> QED
    BY <2>2, <2>3, IndicesAfterReturn
<1> QED
  BY <1>2, <1>3

LEMMA AnswerNames ==
    ASSUME IInv, FoundIndexNames, IndexNamesType, NEW t \in Threads, Answer(t)
    PROVE  FoundIndexNames' /\ IndexNamesType'
<1>1. FoundIndexNames'
  BY DEF IInv, TypeOK, FoundIndexNames, Answer, Goto, Idle
<1>2. IndexNamesType'
  <2> SUFFICES ASSUME NEW u \in Threads, answer'[u] # None
               PROVE  /\ answer'[u].index + 1 \in DOMAIN types
                      /\ types[answer'[u].index + 1] = answer'[u].type
    BY DEF IndexNamesType, Answer
  <2>1. CASE u = t
    BY <2>1 DEF Answer, IInv, TypeOK, FoundIndexNames
  <2>2. CASE u # t
    BY <2>2 DEF Answer, IInv, TypeOK, IndexNamesType
  <2> QED
    BY <2>1, <2>2
<1> QED
  BY <1>1, <1>2

LEMMA NamesKept ==
    IInv /\ EnoughIndices /\ FoundIndexNames /\ IndexNamesType /\ [Next]_vars
       => FoundIndexNames' /\ IndexNamesType'
<1> SUFFICES ASSUME IInv, EnoughIndices, FoundIndexNames, IndexNamesType, [Next]_vars
             PROVE  FoundIndexNames' /\ IndexNamesType'
  OBVIOUS
<1>1. CASE UNCHANGED vars
  BY <1>1 DEF vars, FoundIndexNames, IndexNamesType
<1>2. ASSUME NEW t \in Threads, NEW type \in Types, GetOrRegisterType(t, type)
      PROVE  FoundIndexNames' /\ IndexNamesType'
  BY <1>2, IndicesAfterMove DEF GetOrRegisterType, IInv, TypeOK
<1>3. ASSUME NEW t \in Threads, Find(t)
      PROVE  FoundIndexNames' /\ IndexNamesType'
  <2>1. CASE Positions(want[t]) = {}
    BY <1>3, <2>1, IndicesAfterMove DEF Find
  <2>2. CASE Positions(want[t]) # {}
    BY <1>3, <2>2, ReturnFoundNames, IndicesAfterReturn DEF Find
  <2> QED
    BY <2>1, <2>2
<1>4. ASSUME NEW t \in Threads, Lock(t) \/ Upgrade(t) \/ UseType(t) \/ PointAtType(t) \/ FinishUse(t)
      PROVE  FoundIndexNames' /\ IndexNamesType'
  <2>1. \E label \in Labels \ {"return"} : Goto(t, label)
    BY <1>4 DEF Lock, Upgrade, UseType, PointAtType, FinishUse, Labels, Idle
  <2>2. UNCHANGED <<types, answer>> /\ \A u \in Threads \ {t} : want'[u] = want[u] /\ got'[u] = got[u]
    BY <1>4 DEF Lock, Upgrade, UseType, PointAtType, FinishUse, IInv, TypeOK
  <2> QED
    BY <2>1, <2>2, IndicesAfterMove
<1> QED
  BY <1>1, <1>2, <1>3, <1>4, RegisterNames, AnswerNames DEF Next, Step

\* With an index for every type, the index a thread has been given leads to its type
\* for good (gc-internal.h:139, 491-493).
THEOREM IndicesNameTypes == EnoughIndices => (Spec => []IndexNamesType)
<1>1. Init => FoundIndexNames /\ IndexNamesType
  BY DEF Init, FoundIndexNames, IndexNamesType, Idle
<1>2. ASSUME EnoughIndices
      PROVE  Spec => []IndexNamesType
  <2>1. IInv /\ FoundIndexNames /\ IndexNamesType /\ [Next]_vars
           => FoundIndexNames' /\ IndexNamesType'
    BY <1>2, NamesKept
  <2> QED
    BY <1>1, <2>1, InvariantHolds, PTL DEF Spec
<1> QED
  BY <1>2

===============================================================================
