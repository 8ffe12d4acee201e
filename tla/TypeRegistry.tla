----------------------------- MODULE TypeRegistry -----------------------------
(***************************************************************************)
(* The table of object types (types and typesLock,                         *)
(* include/gca/gc-internal.h:325-326): GetOrRegisterType (gc.cpp:830-859), *)
(* which every allocation calls, and the use that destruction and          *)
(* defragmentation make of an entry (gc.cpp:242-258, 526-547).             *)
(*                                                                         *)
(* Each step is one operation on typesLock, an access under that lock, or  *)
(* the use of a pointer into the table after the lock has been released.   *)
(***************************************************************************)
EXTENDS LockWord, Sequences, FiniteSets

CONSTANTS
    Threads,
    Types,
    MaxIndex,   \* the largest value of type_index
    Readers,    \* the threads that destroy or move objects
    None        \* no type, no index

ASSUME RegistryAssumption == MaxIndex \in Nat /\ Readers \subseteq Threads /\ None \notin Nat \cup Types

VARIABLES
    types,      \* the table, a std::vector
    capacity,   \* how many entries its buffer holds
    buffer,     \* the number of the buffer it is in
    word,       \* typesLock
    pc,
    want,       \* the type a thread asks for
    got,        \* the index it has found for it
    answer      \* the last index a thread was given, and for which type

vars == <<types, capacity, buffer, word, pc, want, got, answer>>

Idle == "idle"

Init ==
    /\ types = <<>> /\ capacity = 0 /\ buffer = 0
    /\ word = Free
    /\ pc = [t \in Threads |-> Idle]
    /\ want = [t \in Threads |-> None]
    /\ got = [t \in Threads |-> 0]
    /\ answer = [t \in Threads |-> None]

Goto(t, label) == pc' = [pc EXCEPT ![t] = label]

\* Mutant: looks at the newest entry only.
PositionsLast(type) == {i \in {Len(types)} \cap DOMAIN types : types[i] = type}

\* std::ranges::find: the first entry of the table for a type.
Positions(type) == {i \in DOMAIN types : types[i] = type}
First(type) == CHOOSE i \in Positions(type) : \A j \in Positions(type) : i <= j

\* An index in the width of type_index.
Truncated(index) == index % (MaxIndex + 1)

\* emplace_back moves the table to a buffer of twice the size when it is full.
Emplace(type) ==
    /\ types' = Append(types, type)
    /\ IF Len(types) = capacity
         THEN /\ capacity' = IF capacity = 0 THEN 1 ELSE 2 * capacity
              /\ buffer' = buffer + 1
         ELSE UNCHANGED <<capacity, buffer>>

-------------------------------------------------------------------------------
(* GetOrRegisterType *)

GetOrRegisterType(t, type) ==
    /\ pc[t] = Idle
    /\ want' = [want EXCEPT ![t] = type]
    /\ Goto(t, "lock")
    /\ UNCHANGED <<types, capacity, buffer, word, got, answer>>

Lock(t) ==
    /\ pc[t] = "lock"
    /\ Readable(word)
    /\ word' = word + 1
    /\ Goto(t, "find")
    /\ UNCHANGED <<types, capacity, buffer, want, got, answer>>

Return(t, index) ==
    /\ got' = [got EXCEPT ![t] = index]
    /\ Goto(t, "return")

\* An exception leaves the function, which releases the lock all the same.
Throw(t) == Return(t, None)

\* The index of an entry that is there: checked before it is truncated.
ReturnFound(t) ==
    LET index == First(want[t]) - 1
    IN  IF index > MaxIndex THEN Throw(t) ELSE Return(t, Truncated(index))

Find(t) ==
    /\ pc[t] = "find"
    /\ IF Positions(want[t]) = {} THEN Goto(t, "upgrade") /\ UNCHANGED got ELSE ReturnFound(t)
    /\ UNCHANGED <<types, capacity, buffer, word, want, answer>>

\* Mutant: does not wait for the other readers.
UpgradeAtOnce(t) ==
    /\ pc[t] = "upgrade"
    /\ word' = WriteHeld
    /\ Goto(t, "register")
    /\ UNCHANGED <<types, capacity, buffer, want, got, answer>>

\* lock.Upgrade(), which waits until this read access is the only one.
Upgrade(t) ==
    /\ pc[t] = "upgrade"
    /\ word = 1
    /\ word' = WriteHeld
    /\ Goto(t, "register")
    /\ UNCHANGED <<types, capacity, buffer, want, got, answer>>

\* Mutant: the index behind the new entry.
RegisterBehind(t) ==
    /\ pc[t] = "register"
    /\ IF Positions(want[t]) # {} THEN ReturnFound(t) /\ UNCHANGED <<types, capacity, buffer>>
       ELSE Emplace(want[t]) /\ Return(t, Truncated(Len(types) + 1))
    /\ UNCHANGED <<word, want, answer>>

\* Look again, and enter the type unless the table is too long.
Register(t) ==
    /\ pc[t] = "register"
    /\ IF Positions(want[t]) # {}
         THEN ReturnFound(t) /\ UNCHANGED <<types, capacity, buffer>>
       ELSE IF Len(types) > MaxIndex + 1
         THEN Throw(t) /\ UNCHANGED <<types, capacity, buffer>>
       ELSE Emplace(want[t]) /\ Return(t, Truncated(Len(types)))
    /\ UNCHANGED <<word, want, answer>>

\* Mutant: the lock is kept when the answer was there already.
AnswerKeepingRead(t) ==
    /\ pc[t] = "return"
    /\ word' = IF word = WriteHeld THEN Free ELSE word
    /\ answer' = [answer EXCEPT ![t] = IF got[t] = None THEN None
                                       ELSE [type |-> want[t], index |-> got[t]]]
    /\ want' = [want EXCEPT ![t] = None]
    /\ got' = [got EXCEPT ![t] = 0]
    /\ Goto(t, Idle)
    /\ UNCHANGED <<types, capacity, buffer>>

\* The scoped lock is released and the caller has its answer.
Answer(t) ==
    /\ pc[t] = "return"
    /\ word' = Released(word)
    /\ answer' = [answer EXCEPT ![t] = IF got[t] = None THEN None
                                       ELSE [type |-> want[t], index |-> got[t]]]
    /\ want' = [want EXCEPT ![t] = None]
    /\ got' = [got EXCEPT ![t] = 0]
    /\ Goto(t, Idle)
    /\ UNCHANGED <<types, capacity, buffer>>

-------------------------------------------------------------------------------
(* type = &types[handle->objectType]; the lock only covers taking the pointer *)

UseType(t) ==
    /\ pc[t] = Idle /\ t \in Readers
    /\ answer[t] # None
    /\ Readable(word)
    /\ word' = word + 1
    /\ Goto(t, "point")
    /\ UNCHANGED <<types, capacity, buffer, want, got, answer>>

PointAtType(t) ==
    /\ pc[t] = "point"
    /\ got' = [got EXCEPT ![t] = buffer]
    /\ word' = Released(word)
    /\ Goto(t, "use")
    /\ UNCHANGED <<types, capacity, buffer, want, answer>>

\* type->size, type->getField, type->move and type->destructor through the pointer.
FinishUse(t) ==
    /\ pc[t] = "use"
    /\ got' = [got EXCEPT ![t] = 0]
    /\ Goto(t, Idle)
    /\ UNCHANGED <<types, capacity, buffer, word, want, answer>>

Step(t) == \/ Lock(t) \/ Find(t) \/ Upgrade(t) \/ Register(t) \/ Answer(t)
           \/ PointAtType(t) \/ FinishUse(t)

Next == \E t \in Threads : \/ Step(t)
                           \/ \E type \in Types : GetOrRegisterType(t, type)
                           \/ UseType(t)

Spec == Init /\ [][Next]_vars

\* Threads are preempted but always scheduled again; nobody has to start a call.
FairSpec == Spec /\ \A t \in Threads : WF_vars(Step(t))

-------------------------------------------------------------------------------

Labels == {Idle, "lock", "find", "upgrade", "register", "return", "point", "use"}

\* Types of the table, its lock and the locals.
TypeOK ==
    /\ types \in Seq(Types) /\ capacity \in Nat /\ Len(types) <= capacity /\ buffer \in Nat
    /\ word \in Words
    /\ pc \in [Threads -> Labels]
    /\ want \in [Threads -> Types \cup {None}]
    /\ got \in [Threads -> Nat \cup {None}]
    /\ answer \in [Threads -> [type : Types, index : Nat] \cup {None}]

\* No type is entered twice, whoever tries at the same time (gc.cpp:841-842).
TypesAreDistinct == \A i, j \in DOMAIN types : types[i] = types[j] => i = j

\* The index a thread was given leads to its type for good: objects keep it
\* instead of the type (gc-internal.h:139, 491-493).
IndexNamesType ==
    \A t \in Threads :
       answer[t] # None =>
          /\ answer[t].index + 1 \in DOMAIN types
          /\ types[answer[t].index + 1] = answer[t].type

\* The thread that changes the table is the only one that looks at it
\* (typesLock, gc.cpp:834-849).
NobodyLooksOn ==
    \A t \in Threads :
       pc[t] = "register" =>
          \A u \in Threads \ {t} : pc[u] \notin {"find", "upgrade", "register", "return", "point"}

\* Whenever nobody who is in a call can go on, two threads are waiting to be the only
\* reader: a collision of upgrades is the only way to get stuck (gc.cpp:834-849).
Waiting(t) ==
    \/ pc[t] = "lock" /\ ~Readable(word)
    \/ pc[t] = "upgrade" /\ word # 1

OnlyUpgradesCollide ==
    /\ \E t \in Threads : Waiting(t)
    /\ \A t \in Threads : pc[t] = Idle \/ Waiting(t)
    => \E t, u \in Threads : t # u /\ pc[t] = "upgrade" /\ pc[u] = "upgrade"

\* README.md:7 "across multiple threads safely": a pointer to a type that is still
\* going to be used points into the table's buffer.
PointersAreValid == \A t \in Threads : pc[t] = "use" => got[t] = buffer

\* gc.cpp:841 "multiple threads might have tried to add the same type": whoever
\* asks for a type gets an answer.
RegistrationReturns == \A t \in Threads : pc[t] = "find" ~> pc[t] = Idle

===============================================================================
