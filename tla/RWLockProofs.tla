----------------------------- MODULE RWLockProofs -----------------------------
(***************************************************************************)
(* Proofs about RWLock for every set of threads and accesses and every     *)
(* width of the counter word.                                              *)
(***************************************************************************)
EXTENDS RWLock, FiniteSetTheorems, TLAPS

\* What the locals of a running operation say about the access it works for.
Acquiring == {"readLoad", "readCas", "tryReadLoad", "tryReadCas", "writeCas", "tryWriteCas"}
Upgrading == {"upgradeCas", "tryUpgradeCas"}

LocalsOf(t) ==
    /\ pc[t] = Idle => acc[t] = NoAccess
    /\ pc[t] # Idle => acc[t] \in Accesses /\ Owner[acc[t]] = t
    /\ pc[t] \in Acquiring => held[acc[t]] = "none"
    /\ pc[t] \in {"readCas", "tryReadCas"} => val[t] < WriteMask
    /\ pc[t] \in Upgrading => held[acc[t]] \in {"read", "write"}
    /\ pc[t] = "downgradeCas" => held[acc[t]] = "write"
    /\ pc[t] = "releaseCas" => held[acc[t]] # "none"
    /\ pc[t] = "releaseLoop" => held[acc[t]] = "read"

\* The inductive invariant.  Its core is WordCountsAccesses; LocalsOf is what
\* makes a CAS that succeeds mean what the code takes it to mean.
IInv == /\ TypeOK
        /\ \A t \in Threads : LocalsOf(t)
        /\ WordCountsAccesses
        /\ ThreadLocalSetIsExact

-------------------------------------------------------------------------------

LEMMA FiniteReaders == TypeOK => IsFiniteSet(Readers) /\ Cardinality(Readers) \in Nat
  BY AccessAssumption, FS_Subset, FS_CardinalityType DEF Readers

\* Changing one access moves just that access in or out of the two groups.
LEMMA OneAccessChanges ==
    ASSUME TypeOK, NEW a \in Accesses, NEW m \in {"none", "read", "write"},
           held' = [held EXCEPT ![a] = m]
    PROVE  /\ Readers' = IF m = "read" THEN Readers \cup {a} ELSE Readers \ {a}
           /\ Writers' = IF m = "write" THEN Writers \cup {a} ELSE Writers \ {a}
           /\ held' \in [Accesses -> {"none", "read", "write"}]
           /\ held'[a] = m
           /\ \A b \in Accesses \ {a} : held'[b] = held[b]
  BY DEF TypeOK, Readers, Writers

LEMMA ReaderJoins ==
    ASSUME TypeOK, NEW a \in Accesses, held[a] # "read"
    PROVE  Cardinality(Readers \cup {a}) = Cardinality(Readers) + 1
  BY FiniteReaders, FS_AddElement DEF Readers

LEMMA ReaderLeaves ==
    ASSUME TypeOK, NEW a \in Accesses, held[a] = "read"
    PROVE  /\ Cardinality(Readers \ {a}) = Cardinality(Readers) - 1
           /\ Cardinality(Readers) > 0
<1>1. a \in Readers
  BY DEF Readers
<1>2. Cardinality(Readers \ {a}) = Cardinality(Readers) - 1
  BY <1>1, FiniteReaders, FS_RemoveElement
<1>3. Cardinality(Readers) # 0
  BY <1>1, FiniteReaders, FS_EmptySet
<1> QED
  BY <1>2, <1>3, FiniteReaders

\* The four words a lock can show, told apart by who holds what.
LEMMA WordTellsMode ==
    ASSUME TypeOK, WordCountsAccesses
    PROVE  /\ word = Free => Readers = {} /\ Writers = {}
           /\ word = WriteHeld <=> Writers # {}
           /\ word = WriteHeld => Readers = {}
           /\ word < WriteHeld => Writers = {} /\ word = Cardinality(Readers)
           /\ word <= WriteHeld
<1>1. WriteMask \in Nat /\ WriteMask > 1 /\ word \in Nat
  BY WriteMaskAssumption DEF TypeOK, Words
<1>2. IsFiniteSet(Readers) /\ (Cardinality(Readers) = 0 <=> Readers = {})
  BY FiniteReaders, FS_EmptySet
<1> QED
  BY <1>1, <1>2 DEF WordCountsAccesses, Free, WriteHeld

\* A return that leaves every other thread alone keeps the locals in order.
LEMMA LocalsAfterReturn ==
    ASSUME IInv, NEW t \in Threads, pc[t] # Idle,
           NEW m \in {"none", "read", "write"}, Return(t, m)
    PROVE  \A u \in Threads : LocalsOf(u)'
<1> SUFFICES ASSUME NEW u \in Threads PROVE LocalsOf(u)'
  OBVIOUS
<1>1. acc[t] \in Accesses /\ Owner[acc[t]] = t
  BY DEF IInv, LocalsOf
<1>2. CASE u = t
  BY <1>2 DEF Return, Goto, LocalsOf, Idle, Acquiring, Upgrading, IInv, TypeOK
<1>3. CASE u # t
  <2>1. pc'[u] = pc[u] /\ acc'[u] = acc[u] /\ val'[u] = val[u]
    BY <1>3 DEF Return, Goto, IInv, TypeOK
  <2>2. pc[u] # Idle => acc[u] \in Accesses /\ Owner[acc[u]] = u /\ acc[u] # acc[t]
    BY <1>1, <1>3 DEF IInv, LocalsOf
  <2>3. pc[u] # Idle => held'[acc[u]] = held[acc[u]]
    BY <2>2 DEF Return, IInv, TypeOK
  <2>4. LocalsOf(u)
    BY DEF IInv
  <2> QED
    BY <2>1, <2>2, <2>3, <2>4 DEF LocalsOf, Idle, Acquiring, Upgrading
<1> QED
  BY <1>2, <1>3

\* The same for a step that moves only t, inside its operation.
LEMMA LocalsAfterMove ==
    ASSUME IInv, NEW t \in Threads, NEW label, Goto(t, label), UNCHANGED held,
           \A u \in Threads \ {t} : acc'[u] = acc[u] /\ val'[u] = val[u],
           LocalsOf(t)'
    PROVE  \A u \in Threads : LocalsOf(u)'
<1> SUFFICES ASSUME NEW u \in Threads \ {t} PROVE LocalsOf(u)'
  OBVIOUS
<1>1. pc'[u] = pc[u] /\ acc'[u] = acc[u] /\ val'[u] = val[u]
  BY DEF Goto, IInv, TypeOK
<1>2. LocalsOf(u)
  BY DEF IInv
<1> QED
  BY <1>1, <1>2 DEF LocalsOf

-------------------------------------------------------------------------------

LEMMA InitEstablishes == Init => IInv
<1> SUFFICES ASSUME Init PROVE IInv
  OBVIOUS
<1>1. TypeOK
  BY WriteMaskAssumption DEF Init, TypeOK, Words, PCs, Free, Idle
<1>2. \A t \in Threads : LocalsOf(t)
  BY DEF Init, LocalsOf, Idle, Acquiring, Upgrading
<1>3. Readers = {} /\ Writers = {}
  BY DEF Init, Readers, Writers
<1>4. WordCountsAccesses
  BY <1>3, FS_EmptySet, WriteMaskAssumption DEF Init, WordCountsAccesses, Free
<1>5. ThreadLocalSetIsExact
  BY <1>3 DEF Init, ThreadLocalSetIsExact
<1> QED
  BY <1>1, <1>2, <1>4, <1>5 DEF IInv

\* A step that leaves the word, the thread-local sets and the accesses alone
\* only has to keep the types and the locals.
LEMMA NothingShared ==
    ASSUME IInv, UNCHANGED <<word, rwSet, held>>, TypeOK',
           \A u \in Threads : LocalsOf(u)'
    PROVE  IInv'
  BY DEF IInv, WordCountsAccesses, ThreadLocalSetIsExact, Readers, Writers

LEMMA CallKeeps ==
    ASSUME IInv, NEW t \in Threads, CallSome(t)
    PROVE  IInv'
<1>1. PICK a \in Accesses, label \in PCs \ {Idle} :
          /\ Call(t, a, label)
          /\ label \in Acquiring => held[a] = "none"
          /\ label \notin {"readCas", "tryReadCas", "releaseLoop"}
          /\ label \in Upgrading => held[a] \in {"read", "write"}
          /\ label = "downgradeCas" => held[a] = "write"
          /\ label = "releaseCas" => held[a] # "none"
  BY DEF CallSome, CallAcquire, CallUpgrade, CallDownGrade, CallRelease,
         PCs, Idle, Acquiring, Upgrading
<1>2. TypeOK'
  BY <1>1 DEF IInv, TypeOK, Call, Goto
<1>3. LocalsOf(t)'
  BY <1>1 DEF LocalsOf, Call, Goto, IInv, TypeOK
<1>4. \A u \in Threads : LocalsOf(u)'
  BY <1>1, <1>3, LocalsAfterMove DEF Call, IInv, TypeOK
<1> QED
  BY <1>1, <1>2, <1>4, NothingShared DEF Call

\* ReadLoad and the failing CASes: only the local v and the label move.
LEMMA LoadKeeps ==
    ASSUME IInv, NEW t \in Threads, ReadLoad(t) \/ ReadRetry(t) \/ ReleaseLoad(t)
    PROVE  IInv'
<1>1. ClearWriteBit(word) \in Words /\ ClearWriteBit(word) < WriteMask
  BY WriteMaskAssumption DEF IInv, TypeOK, Words, ClearWriteBit
<1>2. TypeOK'
  BY <1>1 DEF IInv, TypeOK, ReadLoad, ReadRetry, ReleaseLoad, Goto, PCs
<1>3. pc[t] = "releaseCas" /\ word # WriteHeld => held[acc[t]] = "read"
  <2> SUFFICES ASSUME pc[t] = "releaseCas", word # WriteHeld PROVE held[acc[t]] = "read"
    OBVIOUS
  <2>1. Writers = {}
    BY WordTellsMode DEF IInv
  <2>2. acc[t] \in Accesses /\ held[acc[t]] # "none" /\ acc[t] \notin Writers
    BY <2>1 DEF IInv, LocalsOf, Idle
  <2> QED
    BY <2>2 DEF IInv, TypeOK, Writers
<1>4. LocalsOf(t)'
  <2>1. CASE ReadLoad(t)
    BY <2>1, <1>1 DEF ReadLoad, LocalsOf, Goto, IInv, TypeOK, Idle, Acquiring, Upgrading
  <2>2. CASE ReadRetry(t)
    BY <2>2, <1>1 DEF ReadRetry, LocalsOf, Goto, IInv, TypeOK, Idle, Acquiring, Upgrading
  <2>3. CASE ReleaseLoad(t)
    BY <2>3, <1>3 DEF ReleaseLoad, LocalsOf, Goto, IInv, TypeOK, Idle, Acquiring, Upgrading
  <2> QED
    BY <2>1, <2>2, <2>3
<1>5. \E label \in PCs : Goto(t, label)
  BY DEF ReadLoad, ReadRetry, ReleaseLoad, Goto, PCs, IInv, TypeOK
<1>6. /\ UNCHANGED <<word, rwSet, held>>
      /\ \A u \in Threads \ {t} : acc'[u] = acc[u] /\ val'[u] = val[u]
  BY DEF ReadLoad, ReadRetry, ReleaseLoad, IInv, TypeOK
<1>7. \A u \in Threads : LocalsOf(u)'
  BY <1>4, <1>5, <1>6, LocalsAfterMove
<1> QED
  BY <1>2, <1>6, <1>7, NothingShared

\* What every returning step has in common.
LEMMA ReturnKeepsTypes ==
    ASSUME IInv, NEW t \in Threads, pc[t] # Idle,
           NEW m \in {"none", "read", "write"}, Return(t, m),
           word' \in Words, rwSet' \subseteq Threads
    PROVE  TypeOK'
<1>1. acc[t] \in Accesses /\ 0 \in Words
  BY WriteMaskAssumption DEF IInv, LocalsOf, Words
<1> QED
  BY <1>1 DEF IInv, TypeOK, Return, Goto, PCs, Idle

LEMMA ReturnWithoutChange ==
    ASSUME IInv, NEW t \in Threads, pc[t] # Idle, Return(t, held[acc[t]]),
           UNCHANGED <<word, rwSet>>
    PROVE  IInv'
<1>1. acc[t] \in Accesses /\ held[acc[t]] \in {"none", "read", "write"}
  BY DEF IInv, LocalsOf, TypeOK
<1>2. UNCHANGED held
  BY <1>1 DEF Return, IInv, TypeOK
<1>3. TypeOK' /\ \A u \in Threads : LocalsOf(u)'
  BY <1>1, ReturnKeepsTypes, LocalsAfterReturn DEF IInv, TypeOK
<1> QED
  BY <1>2, <1>3, NothingShared

LEMMA AccessBecomesReader ==
    ASSUME IInv, NEW t \in Threads, pc[t] # Idle, held[acc[t]] = "none",
           Return(t, "read"), word < WriteMask, word' = word + 1, UNCHANGED rwSet
    PROVE  IInv'
<1>1. acc[t] \in Accesses /\ word \in Nat
  BY DEF IInv, LocalsOf, TypeOK, Words
<1>2. Writers = {} /\ word = Cardinality(Readers)
  BY <1>1, WordTellsMode, WriteMaskAssumption DEF IInv, WriteHeld
<1>3. Readers' = Readers \cup {acc[t]} /\ Writers' = {}
  BY <1>1, <1>2, OneAccessChanges DEF Return, IInv
<1>4. Cardinality(Readers') = Cardinality(Readers) + 1
  BY <1>1, <1>3, ReaderJoins DEF IInv
<1>5. WordCountsAccesses'
  BY <1>1, <1>2, <1>3, <1>4, WriteMaskAssumption DEF WordCountsAccesses
<1>6. ThreadLocalSetIsExact'
  BY <1>2, <1>3 DEF ThreadLocalSetIsExact, IInv
<1>7. word' \in Words /\ rwSet' \subseteq Threads
  BY <1>1, WriteMaskAssumption DEF Words, IInv, TypeOK
<1> QED
  BY <1>5, <1>6, <1>7, ReturnKeepsTypes, LocalsAfterReturn DEF IInv

LEMMA AccessBecomesWriter ==
    ASSUME IInv, NEW t \in Threads, pc[t] # Idle,
           \/ word = Free /\ held[acc[t]] = "none"
           \/ word = 1 /\ held[acc[t]] = "read",
           Return(t, "write"), word' = WriteHeld, rwSet' = rwSet \cup {t}
    PROVE  IInv'
<1>1. acc[t] \in Accesses /\ Owner[acc[t]] = t
  BY DEF IInv, LocalsOf
<1>2. Writers = {} /\ Readers \subseteq {acc[t]}
  <2>1. CASE word = Free
    BY <2>1, WordTellsMode DEF IInv
  <2>2. CASE word = 1 /\ held[acc[t]] = "read"
    <3>1. Writers = {} /\ Cardinality(Readers) = 1
      BY <2>2, WordTellsMode, WriteMaskAssumption DEF IInv, WriteHeld
    <3>2. Cardinality(Readers \ {acc[t]}) = 0
      BY <1>1, <2>2, <3>1, ReaderLeaves DEF IInv
    <3>3. Readers \ {acc[t]} = {}
      BY <3>2, FiniteReaders, FS_Subset, FS_EmptySet DEF IInv
    <3> QED
      BY <3>1, <3>3
  <2> QED
    BY <2>1, <2>2
<1>3. Readers' = {} /\ Writers' = {acc[t]}
  BY <1>1, <1>2, OneAccessChanges DEF Return, IInv
<1>4. WordCountsAccesses'
  BY <1>1, <1>3 DEF WordCountsAccesses
<1>5. ThreadLocalSetIsExact'
  BY <1>1, <1>2, <1>3 DEF ThreadLocalSetIsExact, IInv
<1>6. word' \in Words /\ rwSet' \subseteq Threads
  BY WriteMaskAssumption DEF Words, WriteHeld, IInv, TypeOK
<1> QED
  BY <1>4, <1>5, <1>6, ReturnKeepsTypes, LocalsAfterReturn DEF IInv

LEMMA ReaderGivesUp ==
    ASSUME IInv, NEW t \in Threads, pc[t] # Idle, held[acc[t]] = "read",
           Return(t, "none"), word' = word - 1, rwSet' = rwSet \ {t}
    PROVE  IInv'
<1>1. acc[t] \in Accesses /\ word \in Nat /\ acc[t] \in Readers
  BY DEF IInv, LocalsOf, TypeOK, Words, Readers
<1>2. Writers = {} /\ word = Cardinality(Readers) /\ word <= WriteMask
  BY <1>1 DEF IInv, WordCountsAccesses
<1>3. Readers' = Readers \ {acc[t]} /\ Writers' = {}
  BY <1>1, <1>2, OneAccessChanges DEF Return, IInv
<1>4. Cardinality(Readers') = Cardinality(Readers) - 1 /\ Cardinality(Readers) > 0
  BY <1>1, <1>3, ReaderLeaves DEF IInv
<1>5. WordCountsAccesses'
  BY <1>1, <1>2, <1>3, <1>4, WriteMaskAssumption DEF WordCountsAccesses
<1>6. ThreadLocalSetIsExact'
  BY <1>2, <1>3 DEF ThreadLocalSetIsExact, IInv
<1>7. word' \in Words /\ rwSet' \subseteq Threads
  BY <1>1, <1>2, <1>4, WriteMaskAssumption DEF Words, IInv, TypeOK
<1> QED
  BY <1>5, <1>6, <1>7, ReturnKeepsTypes, LocalsAfterReturn DEF IInv

LEMMA WriterGivesUp ==
    ASSUME IInv, NEW t \in Threads, pc[t] # Idle, held[acc[t]] = "write",
           NEW m \in {"none", "read"}, Return(t, m),
           word' = (IF m = "read" THEN 1 ELSE Free), rwSet' = rwSet \ {t}
    PROVE  IInv'
<1>1. acc[t] \in Accesses /\ Owner[acc[t]] = t /\ acc[t] \in Writers
  BY DEF IInv, LocalsOf, Writers
<1>2. Readers = {} /\ Writers = {acc[t]}
  BY <1>1 DEF IInv, WordCountsAccesses
<1>3. /\ Readers' = IF m = "read" THEN {acc[t]} ELSE {}
      /\ Writers' = {}
  BY <1>1, <1>2, OneAccessChanges DEF Return, IInv
<1>4. WordCountsAccesses'
  <2>1. Cardinality({}) = 0 /\ Cardinality({acc[t]}) = 1
    BY FS_EmptySet, FS_Singleton
  <2>2. CASE m = "read"
    BY <1>3, <2>1, <2>2, WriteMaskAssumption DEF WordCountsAccesses
  <2>3. CASE m = "none"
    BY <1>3, <2>1, <2>3, WriteMaskAssumption DEF WordCountsAccesses, Free
  <2> QED
    BY <2>2, <2>3
<1>5. ThreadLocalSetIsExact'
  BY <1>1, <1>2, <1>3 DEF ThreadLocalSetIsExact, IInv
<1>6. word' \in Words /\ rwSet' \subseteq Threads
  BY WriteMaskAssumption DEF Words, Free, IInv, TypeOK
<1> QED
  BY <1>4, <1>5, <1>6, ReturnKeepsTypes, LocalsAfterReturn DEF IInv

\* The invariant is inductive: one step per group of actions.
LEMMA StepKeeps == IInv /\ [Next]_vars => IInv'
<1> SUFFICES ASSUME IInv, [Next]_vars PROVE IInv'
  OBVIOUS
<1>1. CASE UNCHANGED vars
  BY <1>1 DEF IInv, vars, TypeOK, LocalsOf, WordCountsAccesses, ThreadLocalSetIsExact,
              Readers, Writers
<1>2. ASSUME NEW t \in Threads, CallSome(t) PROVE IInv'
  BY <1>2, CallKeeps
<1>3. ASSUME NEW t \in Threads, Step(t) PROVE IInv'
  <2>0. word \in Nat /\ WriteMask \in Nat /\ WriteMask > 1
    BY WriteMaskAssumption DEF IInv, TypeOK, Words
  <2>1. CASE ReadLoad(t) \/ ReadRetry(t) \/ ReleaseLoad(t)
    BY <2>1, LoadKeeps
  <2>2. CASE ReadGranted(t)
    BY <2>2, AccessBecomesReader DEF ReadGranted, IInv, LocalsOf, Idle, Acquiring
  <2>3. CASE ReadRefused(t)
    BY <2>3, ReturnWithoutChange DEF ReadRefused, IInv, LocalsOf, Idle, Acquiring
  <2>4. CASE WriteGranted(t)
    BY <2>4, AccessBecomesWriter DEF WriteGranted, IInv, LocalsOf, Idle, Acquiring
  <2>5. CASE WriteRefused(t)
    BY <2>5, ReturnWithoutChange DEF WriteRefused, IInv, LocalsOf, Idle, Acquiring
  <2>6. CASE UpgradeGranted(t)
    <3>1. Writers = {}
      BY <2>0, <2>6, WordTellsMode DEF UpgradeGranted, IInv, WriteHeld
    <3>2. acc[t] \in Accesses /\ held[acc[t]] \in {"read", "write"} /\ pc[t] # Idle
      BY <2>6 DEF UpgradeGranted, IInv, LocalsOf, Upgrading, Idle
    <3>3. held[acc[t]] = "read"
      BY <3>1, <3>2 DEF Writers
    <3> QED
      BY <2>6, <3>2, <3>3, AccessBecomesWriter DEF UpgradeGranted
  <2>7. CASE UpgradeAlreadyHeld(t)
    <3>1. Readers = {}
      BY <2>7, WordTellsMode DEF UpgradeAlreadyHeld, IInv
    <3>2. acc[t] \in Accesses /\ held[acc[t]] \in {"read", "write"} /\ pc[t] # Idle
      BY <2>7 DEF UpgradeAlreadyHeld, IInv, LocalsOf, Upgrading, Idle
    <3>3. held[acc[t]] = "write"
      BY <3>1, <3>2 DEF Readers
    <3> QED
      BY <2>7, <3>2, <3>3, ReturnWithoutChange DEF UpgradeAlreadyHeld
  <2>8. CASE UpgradeRefused(t)
    BY <2>8, ReturnWithoutChange DEF UpgradeRefused, Idle
  <2>9. CASE DownGrade(t)
    <3>1. pc[t] # Idle /\ held[acc[t]] = "write"
      BY <2>9 DEF DownGrade, IInv, LocalsOf, Idle
    <3>2. CASE word = WriteHeld
      BY <2>9, <3>1, <3>2, WriterGivesUp DEF DownGrade
    <3>3. CASE word # WriteHeld
      BY <2>9, <3>1, <3>3, ReturnWithoutChange DEF DownGrade
    <3> QED
      BY <3>2, <3>3
  <2>10. CASE ReleaseWrite(t)
    <3>1. Readers = {}
      BY <2>10, WordTellsMode DEF ReleaseWrite, IInv
    <3>2. acc[t] \in Accesses /\ held[acc[t]] # "none" /\ pc[t] # Idle
      BY <2>10 DEF ReleaseWrite, IInv, LocalsOf, Idle
    <3>3. held[acc[t]] = "write"
      BY <3>1, <3>2 DEF Readers, IInv, TypeOK
    <3> QED
      BY <2>10, <3>2, <3>3, WriterGivesUp DEF ReleaseWrite
  <2>11. CASE ReleaseRead(t)
    <3>1. acc[t] \in Accesses /\ held[acc[t]] = "read" /\ pc[t] # Idle
      BY <2>11 DEF ReleaseRead, IInv, LocalsOf, Idle
    <3>2. acc[t] \in Readers /\ word = Cardinality(Readers)
      BY <3>1 DEF Readers, IInv, WordCountsAccesses
    <3>3. word > 0
      BY <3>1, <3>2, ReaderLeaves DEF IInv
    <3>4. word' = word - 1
      BY <2>0, <2>11, <3>3 DEF ReleaseRead
    <3> QED
      BY <2>11, <3>1, <3>4, ReaderGivesUp DEF ReleaseRead
  <2> QED
    BY <1>3, <2>1, <2>2, <2>3, <2>4, <2>5, <2>6, <2>7, <2>8, <2>9, <2>10, <2>11 DEF Step
<1> QED
  BY <1>1, <1>2, <1>3 DEF Next

THEOREM Inductive == Spec => []IInv
<1>1. Init => IInv
  BY InitEstablishes
<1>2. IInv /\ [Next]_vars => IInv'
  BY StepKeeps
<1> QED
  BY <1>1, <1>2, PTL DEF Spec

-------------------------------------------------------------------------------

\* For any threads, accesses and word width: the locals, the thread-local sets
\* and the word stay in their types; in particular no Release underflows and no
\* read overflows into the write bit (gc-util.h:337-355, 260-290).
THEOREM TypesHold == Spec => []TypeOK
<1>1. IInv => TypeOK
  BY DEF IInv
<1> QED
  BY <1>1, Inductive, PTL

\* For any threads, accesses and word width: the word counts the accesses, up
\* to and including the boundary max_read_access_count (gc-util.h:228-365).
THEOREM WordIsExact == Spec => []WordCountsAccesses
<1>1. IInv => WordCountsAccesses
  BY DEF IInv
<1> QED
  BY <1>1, Inductive, PTL

\* For any threads, accesses and word width: write access excludes every other
\* access (README.md:42-43, gc-util.h:228-365).
THEOREM MutualExclusion == Spec => []Exclusion
<1>1. IInv => Exclusion
  <2> SUFFICES ASSUME IInv, NEW a \in Writers, NEW b \in Accesses \ {a}
               PROVE  held[b] = "none"
    BY DEF Exclusion
  <2>1. Readers = {} /\ Writers = {a}
    BY DEF IInv, WordCountsAccesses
  <2>2. b \notin Readers /\ b \notin Writers
    BY <2>1
  <2> QED
    BY <2>2 DEF IInv, TypeOK, Readers, Writers
<1> QED
  BY <1>1, Inductive, PTL

\* For any threads, accesses and word width: DoesThisThreadHaveRWAccess is true
\* for exactly the thread that has the write access (gc-util.h:237-239).
THEOREM ThreadLocalSetsAreExact == Spec => []ThreadLocalSetIsExact
<1>1. IInv => ThreadLocalSetIsExact
  BY DEF IInv
<1> QED
  BY <1>1, Inductive, PTL

-------------------------------------------------------------------------------

\* The abstract module counts with its own instance of FiniteSets.
LEMMA SameCardinality == ASSUME NEW S PROVE Promise!Cardinality(S) = Cardinality(S)
  BY Zenon DEF Cardinality, Promise!Cardinality

\* A step that grants, converts or drops an access is the abstract step of that
\* name; every other step does not change held at all.
LEMMA StepRefines == IInv /\ [Next]_vars => [Promise!AbsNext]_held
<1> SUFFICES ASSUME IInv, [Next]_vars, held' # held PROVE Promise!AbsNext
  OBVIOUS
<1>1. PICK t \in Threads : Step(t)
  BY DEF vars, Next, CallSome, CallAcquire, CallUpgrade, CallDownGrade, CallRelease, Call
<1>2. word \in Nat /\ WriteMask \in Nat /\ WriteMask > 1
  BY WriteMaskAssumption DEF IInv, TypeOK, Words
<1> DEFINE a == acc[t]
<1>3. pc[t] # Idle
  BY <1>1 DEF Step, ReadLoad, ReadGranted, ReadRetry, ReadRefused, WriteGranted, WriteRefused,
              UpgradeGranted, UpgradeAlreadyHeld, UpgradeRefused, DownGrade, ReleaseWrite,
              ReleaseLoad, ReleaseRead, Idle
<1>4. a \in Accesses /\ held[a] \in {"none", "read", "write"}
  BY <1>3 DEF IInv, LocalsOf, TypeOK
<1>5. Promise!HolderOf("read") = Readers
  BY DEF Promise!HolderOf, Readers
<1>6. held = [held EXCEPT ![a] = held[a]]
  BY <1>4 DEF IInv, TypeOK
<1>7. CASE ReadGranted(t)
  <2>1. held[a] = "none" /\ word < WriteMask /\ word = val[t] /\ held' = [held EXCEPT ![a] = "read"]
    BY <1>7 DEF ReadGranted, Return, IInv, LocalsOf, Idle, Acquiring
  <2>2. Writers = {} /\ Cardinality(Readers) < WriteMask
    BY <1>2, <2>1, WordTellsMode DEF IInv, WriteHeld
  <2>3. Promise!OthersHold(a, {"none", "read"})
    BY <2>2 DEF Promise!OthersHold, Writers, IInv, TypeOK
  <2>4. Promise!GrantRead(a)
    BY <1>5, <2>1, <2>2, <2>3, SameCardinality DEF Promise!GrantRead
  <2> QED
    BY <1>4, <2>4 DEF Promise!AbsNext
<1>8. CASE WriteGranted(t)
  <2>1. held[a] = "none" /\ held' = [held EXCEPT ![a] = "write"]
    BY <1>8 DEF WriteGranted, Return, IInv, LocalsOf, Idle, Acquiring
  <2>2. Writers = {} /\ Readers = {}
    BY <1>8, WordTellsMode DEF IInv, WriteGranted
  <2>3. Promise!GrantWrite(a)
    BY <2>1, <2>2 DEF Promise!GrantWrite, Promise!OthersHold, Writers, Readers, IInv, TypeOK
  <2> QED
    BY <1>4, <2>3 DEF Promise!AbsNext
<1>9. CASE UpgradeGranted(t)
  <2>1. held[a] # "none" /\ word = 1 /\ held' = [held EXCEPT ![a] = "write"]
    BY <1>9 DEF UpgradeGranted, Return, IInv, LocalsOf, Idle, Upgrading
  <2>2. Writers = {} /\ Cardinality(Readers) = 1
    BY <1>2, <2>1, WordTellsMode DEF IInv, WriteHeld
  <2>3. held[a] = "read"
    BY <1>4, <2>1, <2>2 DEF Writers
  <2>4. Cardinality(Readers \ {a}) = 0
    BY <1>4, <2>2, <2>3, ReaderLeaves DEF IInv
  <2>5. Readers \ {a} = {}
    BY <2>4, FiniteReaders, FS_Subset, FS_EmptySet DEF IInv
  <2>6. Promise!Promote(a)
    BY <2>1, <2>2, <2>3, <2>5 DEF Promise!Promote, Promise!OthersHold, Writers, Readers, IInv, TypeOK
  <2> QED
    BY <1>4, <2>6 DEF Promise!AbsNext
<1>10. CASE UpgradeAlreadyHeld(t)
  <2>1. Readers = {}
    BY <1>10, WordTellsMode DEF UpgradeAlreadyHeld, IInv
  <2>2. held[a] = "write"
    BY <1>4, <1>10, <2>1 DEF UpgradeAlreadyHeld, IInv, LocalsOf, Upgrading, Idle, Readers
  <2> QED
    BY <1>6, <1>10, <2>2 DEF UpgradeAlreadyHeld, Return
<1>11. CASE DownGrade(t)
  <2>1. held[a] = "write"
    BY <1>11 DEF DownGrade, IInv, LocalsOf, Idle
  <2>2. held' = [held EXCEPT ![a] = "read"]
    BY <1>6, <1>11 DEF DownGrade, Return
  <2>3. Promise!Demote(a)
    BY <2>1, <2>2 DEF Promise!Demote
  <2> QED
    BY <1>4, <2>3 DEF Promise!AbsNext
<1>12. CASE ReleaseWrite(t) \/ ReleaseRead(t)
  <2>1. held[a] # "none" /\ held' = [held EXCEPT ![a] = "none"]
    BY <1>12 DEF ReleaseWrite, ReleaseRead, Return, IInv, LocalsOf, Idle
  <2>2. Promise!GiveUp(a)
    BY <2>1 DEF Promise!GiveUp
  <2> QED
    BY <1>4, <2>2 DEF Promise!AbsNext
<1>13. CASE ReadRefused(t) \/ WriteRefused(t) \/ UpgradeRefused(t)
  <2>1. held' = [held EXCEPT ![a] = held[a]]
    BY <1>13 DEF ReadRefused, WriteRefused, UpgradeRefused, Return, IInv, LocalsOf, Idle, Acquiring
  <2> QED
    BY <1>6, <2>1
<1>14. CASE ReadLoad(t) \/ ReadRetry(t) \/ ReleaseLoad(t)
  BY <1>14 DEF ReadLoad, ReadRetry, ReleaseLoad
<1> QED
  BY <1>1, <1>7, <1>8, <1>9, <1>10, <1>11, <1>12, <1>13, <1>14 DEF Step

\* For any threads, accesses and word width: the compare-and-swap lock implements
\* the abstract shared-read/exclusive-write lock (AbstractRWLock).
THEOREM Refinement == Spec => ImplementsPromise
<1>1. Init => Promise!AbsInit
  BY DEF Init, Promise!AbsInit
<1>2. IInv /\ [Next]_vars => [Promise!AbsNext]_held
  BY StepRefines
<1> QED
  BY <1>1, <1>2, Inductive, PTL DEF Spec, ImplementsPromise, Promise!AbsSpec

===============================================================================
