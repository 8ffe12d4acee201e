--------------------------------- MODULE Page ---------------------------------
(***************************************************************************)
(* One page of the heap, byte by byte: its allocation list (page,          *)
(* include/gca/gc-internal.h:42-107), where Allocate looks for room,       *)
(* collects, defragments and tries again (gc.cpp:75-120), and what that    *)
(* does to the allocation-to-handle lookup and to the objects' contents.   *)
(*                                                                         *)
(* The page's mutex is held by whoever allocates, collects or defragments, *)
(* so those operations come one after the other.  The program goes on      *)
(* pinning, initializing and dropping objects in the middle of them.       *)
(* Objects have no fields here: an object without a handle is garbage, and *)
(* module GC is about how the collector finds that out.                    *)
(***************************************************************************)
EXTENDS Integers, SequencesExt

CONSTANTS
    PageSize,      \* config::page_size, and the alignment of page memory
    AddressSpace,  \* where uintptr_t wraps around
    MaxIds,        \* config::gc_max_collection_thread_count
    Requests       \* what the program allocates one after the other, as records
                   \* [size, alignment, count, movable, throws]

Bytes == 0 .. PageSize - 1
Addresses == 0 .. 2 * PageSize
Objects == DOMAIN Requests
None == 0

ASSUME PageAssumption ==
    /\ PageSize \in Nat \ {0} /\ AddressSpace \in Nat /\ AddressSpace > 2 * PageSize
    /\ MaxIds \in Nat
    /\ Requests \in Seq([size : Nat \ {0}, alignment : Nat \ {0}, count : Nat,
                        movable : BOOLEAN, throws : BOOLEAN])

VARIABLES
    allocations,  \* page::allocations
    handle,       \* objectAllocation of each object's handle
    lookup,       \* allocationToHandleLookup: the object registered at an address
    mem,          \* the byte of which object each byte of the page holds
    construction, \* how far the initialization of each object has come
    owned,        \* objects whose rootHandleCount is not 0
    pinned,       \* objects whose lock is held by a pin
    asked,        \* how many requests have been made
    gcCount,      \* the collector ids that have been handed out
    pc,           \* what the holder of the page's mutex is doing
    job,          \* its locals
    fault,        \* the GCA_ASSERTs that have failed
    listing       \* history: "right" until allocations has an entry that is no object's,
                  \* "wrong" then, "followed" once something was put where such a list says

heapVars == <<allocations, handle, lookup, mem, listing>>
restVars == <<construction, owned, pinned, asked, gcCount>>
vars == <<heapVars, restVars, pc, job, fault>>

Idle == "idle"
NoJob == [req |-> None, tries |-> 0, compact |-> FALSE, i |-> 1, last |-> 0,
          moving |-> None, to |-> 0]
Nowhere == [at |-> 0, size |-> 0]
Scrap == <<None, 0>>

Init ==
    /\ allocations = <<>>
    /\ handle = [o \in Objects |-> Nowhere]
    /\ lookup = [a \in Addresses |-> None]
    /\ mem = [b \in Bytes |-> Scrap]
    /\ construction = [o \in Objects |-> "none"]
    /\ owned = {} /\ pinned = {}
    /\ asked = 0 /\ gcCount = 0
    /\ pc = Idle /\ job = NoJob
    /\ fault = {} /\ listing = "right"

-------------------------------------------------------------------------------
(* page::TryAllocate and page::RemoveAllocation *)

\* GetAlignmentCorrection; the page itself is aligned to anything.
Correction(address, alignment) == (-address) % alignment

\* Subtraction of uintptr_t.
Minus(a, b) == (a - b) % AddressSpace

\* lastAllocationEnd when the scan has come to position k.
EndBefore(k) == IF k = 1 THEN 0 ELSE allocations[k - 1].offset + allocations[k - 1].size

FitsBefore(k, size, alignment) ==
    Minus(allocations[k].offset, EndBefore(k)) >= size + Correction(EndBefore(k), alignment)

FitsAtEnd(size, alignment) ==
    LET end == EndBefore(Len(allocations) + 1)
    IN  Minus(PageSize, end) >= size + Correction(end, alignment)

\* The new allocation list and the region that is returned: the first gap that is
\* wide enough, or else the end of the page.  For a gap, the entry records where
\* the allocation behind the gap ends, not where the gap begins.
TryAllocate(size, alignment) ==
    LET n == Len(allocations)
        gaps == {k \in 1 .. n : FitsBefore(k, size, alignment)}
        place(k) == EndBefore(k) + Correction(EndBefore(k), alignment)
    IN  IF gaps # {}
          THEN LET k == Min(gaps)
                   next == allocations[k]
                   padding == Correction(EndBefore(k), alignment)
               IN  [list   |-> InsertAt(allocations, k,
                                 [offset |-> next.offset + next.size + padding, size |-> size]),
                    region |-> [at |-> place(k), size |-> size]]
        ELSE IF FitsAtEnd(size, alignment)
          THEN [list   |-> Append(allocations, [offset |-> place(n + 1), size |-> size]),
                region |-> [at |-> place(n + 1), size |-> size]]
        ELSE [list |-> allocations, region |-> Nowhere]

\* RemoveAllocation: the entry with this place and this size, if there is one.
Without(list, region) == RemoveFirst(list, [offset |-> region.at, size |-> region.size])

-------------------------------------------------------------------------------
(* gc_impl::Allocate on this page, and gc::Collect *)

Start(label, locals) == pc' = label /\ job' = locals

Allocate ==
    /\ pc = Idle
    /\ asked < Len(Requests)
    /\ asked' = asked + 1
    /\ Start("try", [NoJob EXCEPT !.req = asked + 1])
    /\ UNCHANGED <<heapVars, construction, owned, pinned, gcCount, fault>>

Collect(defragment) ==
    /\ pc = Idle
    /\ Start("id", [NoJob EXCEPT !.compact = defragment])
    /\ UNCHANGED <<heapVars, restVars, fault>>

Within(b, region) == b \in region.at .. region.at + region.size - 1

Zeroed(region) == [b \in Bytes |-> IF Within(b, region) THEN Scrap ELSE mem[b]]

\* RegisterObject: zeroes the region and enters it in the lookup.
RegisterObject(o, region) ==
    /\ lookup[region.at] = None
    /\ mem' = Zeroed(region)
    /\ handle' = [handle EXCEPT ![o] = region]
    /\ lookup' = [lookup EXCEPT ![region.at] = o]
    /\ owned' = owned \cup {o}
    /\ UNCHANGED fault

\* It throws when there is no memory for the handle, and must not find an object in
\* the lookup; before it, GetOrRegisterType may throw, too.
RegistrationThrows(region) ==
    /\ \/ mem' \in {mem, Zeroed(region)} /\ UNCHANGED fault
       \/ /\ lookup[region.at] # None
          /\ mem' = Zeroed(region)
          /\ fault' = fault \cup {"dead handle remained in lookup"}
    /\ UNCHANGED <<handle, lookup, owned>>

\* Something is put where the list says, with a right or a wrong entry.
Follow(wrong) ==
    listing' = IF listing # "right" THEN "followed" ELSE IF wrong THEN "wrong" ELSE "right"

\* The region that is asked for, or none.
Result ==
    LET r == Requests[job.req]
    IN  TryAllocate(r.size * r.count, r.alignment)

\* The entry of an allocation in a gap is not where the object is, and that of an
\* array without elements, which counts as no region, is no object's.
WrongEntry ==
    LET r == Requests[job.req]
    IN  r.count = 0 \/ \E k \in DOMAIN allocations : FitsBefore(k, r.size * r.count, r.alignment)

\* There is a region: the object gets it, or the exception gives it back.
Allocated ==
    /\ Result.region.size # 0
    /\ Start(Idle, NoJob)
    /\ Follow(WrongEntry)
    /\ \/ allocations' = Result.list /\ RegisterObject(job.req, Result.region)
       \/ allocations' = Without(Result.list, Result.region) /\ RegistrationThrows(Result.region)

\* There is none: collect, then defragment, then go on to another page.
NotAllocated ==
    /\ Result.region.size = 0
    /\ allocations' = Result.list
    /\ IF Result.list = allocations THEN UNCHANGED listing ELSE Follow(TRUE)
    /\ CASE job.tries = 0 -> Start("id", [NoJob EXCEPT !.req = job.req, !.tries = 1])
         [] job.tries = 1 -> Start("defragment", [NoJob EXCEPT !.req = job.req, !.tries = 2])
         [] OTHER -> Start(Idle, NoJob)
    /\ UNCHANGED <<handle, lookup, mem, owned, fault>>

Try ==
    /\ pc = "try"
    /\ Allocated \/ NotAllocated
    /\ UNCHANGED <<construction, pinned, asked, gcCount>>

\* There is no memory for the entry.
TryThrows ==
    /\ pc = "try"
    /\ Result.list # allocations
    /\ Start(Idle, NoJob)
    /\ UNCHANGED <<heapVars, restVars, fault>>

\* A failed assertion throws out of the operation and releases the page.
Abort(message) == fault' = fault \cup {message} /\ Start(Idle, NoJob)

AtEnd == job.i > Len(allocations)
Entry == allocations[job.i]

-------------------------------------------------------------------------------
(* CollectOnPage: entries whose object has no handle are destroyed *)

\* while ((id = gcCount++) >= max): no collection gives its id back, so that who finds
\* none left waits for ever, with the page's mutex.
TakeId ==
    /\ pc = "id" /\ gcCount < MaxIds
    /\ gcCount' = gcCount + 1 /\ pc' = "collect"
    /\ UNCHANGED <<heapVars, construction, owned, pinned, asked, job, fault>>

\* Mutant: the scan stays where it is.
CollectAgain ==
    /\ pc = "collect" /\ ~AtEnd
    /\ lookup[Entry.offset] \in owned
    /\ UNCHANGED vars

CollectAlive ==
    /\ pc = "collect" /\ ~AtEnd
    /\ lookup[Entry.offset] \in owned
    /\ job' = [job EXCEPT !.i = @ + 1]
    /\ UNCHANGED <<heapVars, restVars, pc, fault>>

\* Mutant: takes an object that is not pinned for dead.
CollectUnpinned ==
    /\ pc = "collect" /\ ~AtEnd
    /\ LET o == lookup[Entry.offset]
       IN  /\ o \notin pinned \cup {None}
           /\ lookup' = [lookup EXCEPT ![handle[o].at] = None]
           /\ allocations' = Without(allocations, handle[o])
    /\ UNCHANGED <<handle, mem, listing, restVars, pc, job, fault>>

\* DestroyObject; the scan looks at the same position again.
CollectDead ==
    /\ pc = "collect" /\ ~AtEnd
    /\ lookup[Entry.offset] \notin owned
    /\ LET o == lookup[Entry.offset]
       IN  IF o = None THEN /\ Abort("unregistered/invalid allocation")
                            /\ UNCHANGED <<allocations, lookup>>
           ELSE IF handle[o].at + handle[o].size > PageSize
             THEN Abort("object goes across page") /\ UNCHANGED <<allocations, lookup>>
           ELSE /\ lookup' = [lookup EXCEPT ![handle[o].at] = None]
                /\ allocations' = Without(allocations, handle[o])
                /\ UNCHANGED <<pc, job, fault>>
    /\ UNCHANGED <<handle, mem, listing, restVars>>

CollectEnd ==
    /\ pc = "collect" /\ AtEnd
    /\ CASE job.req # None -> Start("try", job)
         [] job.req = None /\ job.compact -> Start("defragment", NoJob)
         [] OTHER -> Start(Idle, NoJob)
    /\ UNCHANGED <<heapVars, restVars, fault>>

-------------------------------------------------------------------------------
(* DefragmentOnPage and RelocateObject *)

\* The move constructor: one element goes to another place and leaves scrap.
MoveElement(m, from, to, size) ==
    [b \in Bytes |-> IF Within(b, [at |-> from, size |-> size]) THEN Scrap
                     ELSE IF Within(b, [at |-> to, size |-> size]) THEN m[from + (b - to)]
                     ELSE m[b]]

\* The elements of an object, each moved on its own and in their order.
MoveObject(o, to) ==
    LET size == Requests[o].size
        moved[k \in 0 .. handle[o].size \div size] ==
          IF k = 0 THEN mem
          ELSE MoveElement(moved[k - 1], handle[o].at + (k - 1) * size, to + (k - 1) * size, size)
    IN  moved[handle[o].size \div size]

\* The first address behind the previous allocation that suits object o.
Target(o) == job.last + Correction(job.last, Requests[o].alignment)

\* Mutant: any gap will do.
WorthMovingAnyGap(o) == Requests[o].movable /\ Minus(handle[o].at, Target(o)) > 0

\* The gap is compared with the size of one element, whatever the count.
WorthMoving(o) ==
    Requests[o].movable /\ Minus(handle[o].at, Target(o)) >= Requests[o].size

\* Mutant: does not ask for the lock of the object.
MayMoveAnything(o) == WorthMoving(o)

\* TryAcquireWrite for a moment: an object that somebody has pinned stays.
MayMove(o) == WorthMoving(o) /\ o \notin pinned

Pass(end) == [job EXCEPT !.i = @ + 1, !.last = end, !.moving = None, !.to = 0]

\* Mutant: the lookup keeps the old place.
EnterNothing(o, to) == UNCHANGED lookup

\* The lookup has the object's new place before the object is there; what is
\* registered at that place, if anything, stays.
EnterPlace(o, to) ==
    lookup' = [lookup EXCEPT ![handle[o].at] = None, ![to] = IF @ = None THEN o ELSE @]

Defragment ==
    /\ pc = "defragment" /\ ~AtEnd
    /\ LET o == lookup[Entry.offset]
       IN  CASE o = None -> /\ Abort("unregistered/invalid allocation")
                            /\ UNCHANGED <<lookup, listing>>
             [] o # None /\ MayMove(o) ->
                  /\ EnterPlace(o, Target(o))
                  /\ Start("relocate", [job EXCEPT !.moving = o, !.to = Target(o)])
                  /\ Follow(FALSE)
                  /\ UNCHANGED fault
             [] OTHER -> /\ job' = Pass(Entry.offset + Entry.size)
                         /\ UNCHANGED <<lookup, listing, pc, fault>>
    /\ UNCHANGED <<allocations, handle, mem, restVars>>

\* Neither the uninitialized nor the initialization_failed flag is set.
HasContents(o) == construction[o] = "done"

\* Mutant: the entry of the page keeps the old place.
RelocateForgettingEntry ==
    /\ pc = "relocate"
    /\ mem' = IF HasContents(job.moving) THEN MoveObject(job.moving, job.to) ELSE mem
    /\ handle' = [handle EXCEPT ![job.moving] = [at |-> job.to, size |-> Entry.size]]
    /\ Start("defragment", Pass(job.to + Entry.size))
    /\ UNCHANGED <<allocations, lookup, listing, restVars, fault>>

\* The rest of RelocateObject, with the object's lock.  Until it is done, the handle
\* says where the object was.
RelocateObject ==
    /\ pc = "relocate"
    /\ mem' = IF HasContents(job.moving) THEN MoveObject(job.moving, job.to) ELSE mem
    /\ handle' = [handle EXCEPT ![job.moving] = [at |-> job.to, size |-> Entry.size]]
    /\ allocations' = [allocations EXCEPT ![job.i].offset = job.to]
    /\ Start("defragment", Pass(job.to + Entry.size))
    /\ UNCHANGED <<lookup, listing, restVars, fault>>

DefragmentEnd ==
    /\ pc = "defragment" /\ AtEnd
    /\ IF job.req # None THEN Start("try", job) ELSE Start(Idle, NoJob)
    /\ UNCHANGED <<heapVars, restVars, fault>>

-------------------------------------------------------------------------------
(* What the program does meanwhile *)

\* The object's lock is what relocation has acquired.
Pin(o) ==
    /\ o \in owned \ pinned /\ o # job.moving
    /\ pinned' = pinned \cup {o}
    /\ UNCHANGED <<heapVars, construction, owned, asked, gcCount, pc, job, fault>>

\* Initialize: under a read-write pin, and once.
Initialize(o) ==
    /\ o \in pinned /\ construction[o] = "none"
    /\ construction' = [construction EXCEPT ![o] = "done"]
    /\ mem' = [b \in Bytes |-> IF Within(b, handle[o]) THEN <<o, b - handle[o].at>> ELSE mem[b]]
    /\ UNCHANGED <<allocations, handle, lookup, listing, owned, pinned, asked, gcCount, pc, job, fault>>

\* The constructor throws; there is no second attempt.
SetInitializationFailed(o) ==
    /\ o \in pinned /\ construction[o] = "none" /\ Requests[o].throws
    /\ construction' = [construction EXCEPT ![o] = "failed"]
    /\ UNCHANGED <<heapVars, owned, pinned, asked, gcCount, pc, job, fault>>

Unpin(o) ==
    /\ o \in pinned
    /\ pinned' = pinned \ {o}
    /\ UNCHANGED <<heapVars, construction, owned, asked, gcCount, pc, job, fault>>

\* The last root handle is gone.
DropObject(o) ==
    /\ o \in owned \ pinned /\ o # job.moving
    /\ owned' = owned \ {o}
    /\ UNCHANGED <<heapVars, construction, pinned, asked, gcCount, pc, job, fault>>

Work == Try \/ TryThrows \/ TakeId \/ CollectAlive \/ CollectDead \/ CollectEnd
        \/ Defragment \/ RelocateObject \/ DefragmentEnd

Next ==
    \/ Work
    \/ Allocate
    \/ \E defragment \in BOOLEAN : Collect(defragment)
    \/ \E o \in Objects : \/ Pin(o) \/ Unpin(o) \/ DropObject(o)
                           \/ Initialize(o) \/ SetInitializationFailed(o)

Spec == Init /\ [][Next]_vars

\* Whoever has the page's mutex keeps being scheduled.
FairSpec == Spec /\ WF_vars(Work)

-------------------------------------------------------------------------------

Registered == {o \in Objects : \E a \in Addresses : lookup[a] = o}

\* GetOwningObject: whatever handle it comes upon first, of those whose region has
\* the address, the end of the region included.
OwningObjects(a) == {o \in Registered : handle[o].at <= a /\ a <= handle[o].at + handle[o].size}

\* Mutant: goes through the regions without asking the lookup.
OwnersByRegion(a) == OwningObjects(a)

\* LookupObjectOrGetOwningObject, for the address of a field.
Owners(a) == IF lookup[a] # None THEN {lookup[a]} ELSE OwningObjects(a)

\* Locals fit their types.
TypeOK ==
    /\ allocations \in Seq([offset : Nat, size : Nat])
    /\ handle \in [Objects -> [at : Nat, size : Nat]]
    /\ lookup \in [Addresses -> Objects \cup {None}]
    /\ mem \in [Bytes -> (Objects \cup {None}) \X (0 .. PageSize)]
    /\ construction \in [Objects -> {"none", "done", "failed"}]
    /\ pinned \subseteq owned /\ owned \subseteq Objects
    /\ asked \in 0 .. Len(Requests) /\ gcCount \in 0 .. MaxIds
    /\ pc \in {Idle, "try", "id", "collect", "defragment", "relocate"}
    /\ job \in [req : Objects \cup {None}, tries : 0 .. 2, compact : BOOLEAN,
                i : Nat \ {0}, last : Nat, moving : Objects \cup {None}, to : Nat]
    /\ listing \in {"right", "wrong", "followed"}

\* The page's entries are in order, apart from each other and within the page,
\* and are exactly the regions of the registered objects, each where its type may
\* be and where the lookup has it (gc-internal.h:85-101: what TryAllocate returns
\* is a reserved part of the page, and can be found again to free it).
EntriesMatchHandles ==
    /\ \A k \in DOMAIN allocations :
          /\ EndBefore(k) <= allocations[k].offset
          /\ allocations[k].offset + allocations[k].size <= PageSize
    /\ {[at |-> allocations[k].offset, size |-> allocations[k].size] : k \in DOMAIN allocations}
         = {handle[o] : o \in Registered}
    /\ \A o \in Registered : /\ o # job.moving => lookup[handle[o].at] = o
                             /\ handle[o].at % Requests[o].alignment = 0

\* Only an allocation in a gap, or of an empty array, makes a list wrong that matches
\* the handles: nothing else that is allocated, given back, collected or moved does.
RightListMatches == listing = "right" => EntriesMatchHandles

Trusted == listing # "followed"

\* An object that has been initialized and is registered has its contents, byte by
\* byte, wherever defragmentation has put it and whatever was allocated, moved
\* or freed around it (gc.cpp:258-268, 319-330), also in a gap, until something is
\* put where a wrong list says.
ContentsIntact == Trusted =>
    \A o \in Registered : HasContents(o) =>
       \A j \in 0 .. handle[o].size - 1 : mem[handle[o].at + j] = <<o, j>>

\* No object moves while a pin gives the program a pointer into it (README.md:42:
\* a pin "Prevents the collector from relocating" its object).
PinnedStay == [][\A o \in pinned : handle'[o] = handle[o]]_vars

\* The program's objects stay registered (CollectOnPage, DestroyObject), also in
\* collections that come upon a wrong entry, until something is put where it says.
OwnedAreRegistered == Trusted => owned \subseteq Registered

\* No GCA_ASSERT of allocation, collection or defragmentation fails, but the one that
\* a scan meets at a wrong entry (gc.cpp:708).
AssertionsHold ==
    /\ listing = "right" => fault = {}
    /\ Trusted => fault \subseteq {"unregistered/invalid allocation"}

\* A field finds the object it is part of, wherever other objects are put and
\* although the place a handle records is written after the lookup lock has been
\* released (gc.cpp:309-332, 1266-1275), until something is put where a wrong list
\* says.
FieldsFindOwner == Trusted =>
    \A o \in pinned : \A j \in 0 .. handle[o].size - 1 : Owners(handle[o].at + j) = {o}

\* There is no collector id left for a collection of this page.
WaitsForId == pc = "id" /\ gcCount = MaxIds

\* An allocation is answered, by this page, by another one or by an exception, however
\* much is pinned and dropped meanwhile, unless there is no id for its collection.
AllocationAnswered == pc = "try" ~> pc = Idle \/ WaitsForId

===============================================================================
