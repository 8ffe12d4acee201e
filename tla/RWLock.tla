-------------------------------- MODULE RWLock --------------------------------
(***************************************************************************)
(* gc::rw_lock (include/gca/gc-util.h:228-365) at the granularity of its   *)
(* atomic operations, used by scoped_rw_lock-style clients (368-423).      *)
(*                                                                         *)
(* An access is anything that owns at most one acquisition: a              *)
(* scoped_rw_lock, a pin, a bracketed Acquire/Release pair.  Each access   *)
(* belongs to one thread, a thread may own several (nested pins of one     *)
(* object), and a thread runs one lock operation at a time.  Between two   *)
(* atomic operations of one thread every other thread may run.             *)
(***************************************************************************)
EXTENDS LockWord, FiniteSets

CONSTANTS Threads,
          Accesses,
          Owner,       \* the thread each access belongs to
          NoAccess     \* what a thread outside every lock operation works for

ASSUME AccessAssumption == /\ IsFiniteSet(Accesses)
                           /\ Owner \in [Accesses -> Threads]
                           /\ NoAccess \notin Accesses

VARIABLES
    word,    \* m_Lock
    rwSet,   \* the threads whose thread-local set of written locks has this lock
    pc,      \* where each thread is inside a lock operation
    acc,     \* the access that operation works for
    val,     \* the local v of that operation
    held     \* what each access owns

vars == <<word, rwSet, pc, acc, val, held>>

Idle == "idle"

PCs == {Idle, "readLoad", "readCas", "tryReadLoad", "tryReadCas", "writeCas", "tryWriteCas",
        "upgradeCas", "tryUpgradeCas", "downgradeCas", "releaseCas", "releaseLoop"}

Init == /\ word = Free
        /\ rwSet = {}
        /\ pc = [t \in Threads |-> Idle]
        /\ acc = [t \in Threads |-> NoAccess]
        /\ val = [t \in Threads |-> 0]
        /\ held = [a \in Accesses |-> "none"]

Goto(t, label) == pc' = [pc EXCEPT ![t] = label]

\* Thread t calls the operation that starts at label for one of its accesses.
Call(t, a, label) ==
    /\ pc[t] = Idle
    /\ Owner[a] = t
    /\ Goto(t, label)
    /\ acc' = [acc EXCEPT ![t] = a]
    /\ UNCHANGED <<word, rwSet, val, held>>

\* The operation of t returns: its locals are gone and its access owns mode.
Return(t, mode) ==
    /\ Goto(t, Idle)
    /\ held' = [held EXCEPT ![acc[t]] = mode]
    /\ acc' = [acc EXCEPT ![t] = NoAccess]
    /\ val' = [val EXCEPT ![t] = 0]

\* An access that owns nothing asks for read or write access, waiting or trying.
CallAcquire(t, a) ==
    /\ held[a] = "none"
    /\ \E label \in {"readLoad", "tryReadLoad", "writeCas", "tryWriteCas"} : Call(t, a, label)

\* Upgrade and TryUpgrade; on a write access they find nothing to do.
CallUpgrade(t, a) ==
    /\ held[a] \in {"read", "write"}
    /\ \E label \in {"upgradeCas", "tryUpgradeCas"} : Call(t, a, label)

CallDownGrade(t, a) == held[a] = "write" /\ Call(t, a, "downgradeCas")

CallRelease(t, a) == held[a] # "none" /\ Call(t, a, "releaseCas")

\* v = ClearWriteBit(m_Lock.load())
ReadLoad(t) ==
    /\ pc[t] \in {"readLoad", "tryReadLoad"}
    /\ val' = [val EXCEPT ![t] = ClearWriteBit(word)]
    /\ Goto(t, IF pc[t] = "readLoad" THEN "readCas" ELSE "tryReadCas")
    /\ UNCHANGED <<word, rwSet, acc, held>>

\* The CAS of AcquireRead and of both TryAcquireReads, when it succeeds.
ReadGranted(t) ==
    /\ pc[t] \in {"readCas", "tryReadCas"}
    /\ word = val[t]
    /\ word' = val[t] + 1
    /\ Return(t, "read")
    /\ UNCHANGED rwSet

\* The CAS fails, loads the actual word, and the loop clears its write bit.
\* (A spurious failure of the weak CAS leaves v as it is: a stuttering step.)
ReadRetry(t) ==
    /\ pc[t] \in {"readCas", "tryReadCas"}
    /\ word # val[t]
    /\ val' = [val EXCEPT ![t] = ClearWriteBit(word)]
    /\ UNCHANGED <<word, rwSet, pc, acc, held>>

\* TryAcquireRead() after one strong CAS, TryAcquireRead(n) after its last
\* weak one, which may fail spuriously.
ReadRefused(t) ==
    /\ pc[t] = "tryReadCas"
    /\ Return(t, "none")
    /\ UNCHANGED <<word, rwSet>>

\* Mutant: takes a word that is full of readers for a free one.
WriteGrantedWhenFull(t) ==
    /\ pc[t] \in {"writeCas", "tryWriteCas"}
    /\ ClearWriteBit(word) = Free
    /\ word' = WriteHeld
    /\ rwSet' = rwSet \cup {t}
    /\ Return(t, "write")

\* TryAcquireWrite's strong CAS from 0; AcquireWrite and TryAcquireWrite(n) repeat it.
WriteGranted(t) ==
    /\ pc[t] \in {"writeCas", "tryWriteCas"}
    /\ word = Free
    /\ word' = WriteHeld
    /\ rwSet' = rwSet \cup {t}
    /\ Return(t, "write")

WriteRefused(t) ==
    /\ pc[t] = "tryWriteCas"
    /\ word # Free
    /\ Return(t, "none")
    /\ UNCHANGED <<word, rwSet>>

\* Mutant: upgrades whatever the number of readers.
UpgradeGrantedOverReaders(t) ==
    /\ pc[t] \in {"upgradeCas", "tryUpgradeCas"}
    /\ word \in 1 .. WriteMask
    /\ word' = WriteHeld
    /\ rwSet' = rwSet \cup {t}
    /\ Return(t, "write")

\* TryUpgrade and Upgrade: the CAS from exactly one reader.
UpgradeGranted(t) ==
    /\ pc[t] \in {"upgradeCas", "tryUpgradeCas"}
    /\ word = 1
    /\ word' = WriteHeld
    /\ rwSet' = rwSet \cup {t}
    /\ Return(t, "write")

\* The word already reads as written: both report success and record nothing.
UpgradeAlreadyHeld(t) ==
    /\ pc[t] \in {"upgradeCas", "tryUpgradeCas"}
    /\ word = WriteHeld
    /\ Return(t, "write")
    /\ UNCHANGED <<word, rwSet>>

UpgradeRefused(t) ==
    /\ pc[t] = "tryUpgradeCas"
    /\ word \notin {1, WriteHeld}
    /\ Return(t, held[acc[t]])
    /\ UNCHANGED <<word, rwSet>>

\* Mutant: the thread-local set keeps the lock.
DownGradeRemembering(t) ==
    /\ pc[t] = "downgradeCas"
    /\ IF word = WriteHeld
         THEN word' = 1 /\ Return(t, "read")
         ELSE Return(t, held[acc[t]]) /\ UNCHANGED word
    /\ UNCHANGED rwSet

DownGrade(t) ==
    /\ pc[t] = "downgradeCas"
    /\ IF word = WriteHeld
         THEN /\ word' = 1
              /\ rwSet' = rwSet \ {t}
              /\ Return(t, "read")
         ELSE /\ Return(t, held[acc[t]])
              /\ UNCHANGED <<word, rwSet>>

\* Release, case 1: the strong CAS from the written word.
ReleaseWrite(t) ==
    /\ pc[t] = "releaseCas"
    /\ word = WriteHeld
    /\ word' = Free
    /\ rwSet' = rwSet \ {t}
    /\ Return(t, "none")

\* Mutant: v keeps the word that was there before.
ReleaseLoadStale(t) ==
    /\ \/ pc[t] = "releaseCas" /\ word # WriteHeld /\ val' = [val EXCEPT ![t] = word]
       \/ pc[t] = "releaseLoop" /\ word # val[t] /\ UNCHANGED val
    /\ Goto(t, "releaseLoop")
    /\ UNCHANGED <<word, rwSet, acc, held>>

\* That CAS fails, or the loop's CAS does: v becomes the word that was there.
ReleaseLoad(t) ==
    /\ \/ pc[t] = "releaseCas" /\ word # WriteHeld
       \/ pc[t] = "releaseLoop" /\ word # val[t]
    /\ val' = [val EXCEPT ![t] = word]
    /\ Goto(t, "releaseLoop")
    /\ UNCHANGED <<word, rwSet, acc, held>>

\* Mutant: a plain store instead of a CAS.
ReleaseReadBlindly(t) ==
    /\ pc[t] = "releaseLoop"
    /\ word' = IF val[t] # 0 THEN val[t] - 1 ELSE val[t]
    /\ rwSet' = rwSet \ {t}
    /\ Return(t, "none")

\* Cases 2 to 4: decrement, but never below zero.
ReleaseRead(t) ==
    /\ pc[t] = "releaseLoop"
    /\ word = val[t]
    /\ word' = IF val[t] # 0 THEN val[t] - 1 ELSE val[t]
    /\ rwSet' = rwSet \ {t}
    /\ Return(t, "none")

\* The steps inside an operation, and the calls a client decides to make.
Step(t) == \/ ReadLoad(t) \/ ReadGranted(t) \/ ReadRetry(t) \/ ReadRefused(t)
           \/ WriteGranted(t) \/ WriteRefused(t)
           \/ UpgradeGranted(t) \/ UpgradeAlreadyHeld(t) \/ UpgradeRefused(t)
           \/ DownGrade(t)
           \/ ReleaseWrite(t) \/ ReleaseLoad(t) \/ ReleaseRead(t)

CallSome(t) == \E a \in Accesses : \/ CallAcquire(t, a) \/ CallUpgrade(t, a)
                                   \/ CallDownGrade(t, a) \/ CallRelease(t, a)

Next == \E t \in Threads : Step(t) \/ CallSome(t)

\* Threads are preempted but always scheduled again; nobody has to start a call.
Fairness == \A t \in Threads : WF_vars(Step(t))

Spec == Init /\ [][Next]_vars

FairSpec == Spec /\ Fairness

-------------------------------------------------------------------------------

Readers == {a \in Accesses : held[a] = "read"}
Writers == {a \in Accesses : held[a] = "write"}

\* Types of the word, the thread-local sets and the locals of every operation.
TypeOK ==
    /\ word \in Words
    /\ rwSet \subseteq Threads
    /\ pc \in [Threads -> PCs]
    /\ acc \in [Threads -> Accesses \cup {NoAccess}]
    /\ val \in [Threads -> Words]
    /\ held \in [Accesses -> {"none", "read", "write"}]

\* README "shared read/exclusive write access": an access that writes is the
\* only access there is (rw_lock as a whole, gc-util.h:228-365).
Exclusion == \A a \in Writers : \A b \in Accesses \ {a} : held[b] = "none"

\* The word counts the accesses exactly, also at the boundary where the count
\* runs into the write bit: no access is lost and none is invented
\* (gc-util.h:250-365, the four cases listed in Release).
WordCountsAccesses ==
    \/ Writers = {} /\ word = Cardinality(Readers) /\ word <= WriteMask
    \/ Readers = {} /\ word = WriteHeld /\ \E a \in Accesses : Writers = {a}

\* DoesThisThreadHaveRWAccess (gc-util.h:246-248) answers for the thread that asks
\* whether it, and not somebody else, has the write access.
ThreadLocalSetIsExact == rwSet = {Owner[a] : a \in Writers}

\* Progress that does not depend on luck: once a thread is the only one that
\* uses the lock, and its other accesses own nothing, its operation returns.
\* (Under interference a spin loop may lose forever; nothing promises more.)
AloneFor(t) == \A u \in Threads \ {t} : pc[u] = Idle
NothingElseHeldBy(t) == \A a \in Accesses : a # acc[t] => held[a] = "none"
ObstructionFree ==
    \A t \in Threads :
        <>[](AloneFor(t) /\ NothingElseHeldBy(t)) => []<>(pc[t] = Idle)

\* What the lock promises, with the readers bounded by max_read_access_count.
Promise == INSTANCE AbstractRWLock WITH MaxReaders <- WriteMask
ImplementsPromise == Promise!AbsSpec

===============================================================================
