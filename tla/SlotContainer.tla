---------------------------- MODULE SlotContainer ----------------------------
(***************************************************************************)
(* ptr_safe_container (include/gca/gc-util.h:477-646), which stores the    *)
(* handles of all objects: elements never move, because they live in the   *)
(* slots of nodes that are allocated one by one and freed only with the    *)
(* container.  A node's bits say which slots are taken.  Its callers hold  *)
(* the lookup lock (gc.cpp:503, 624, 721): its operations do not overlap.  *)
(***************************************************************************)
EXTENDS Integers, Sequences, FiniteSetsExt

CONSTANTS
    Capacity,  \* node::capacity: 64 in the code
    MaxNodes,  \* bound: nodes the resource has room for
    Misuses    \* bound: how often callers remove what is not in a place

ASSUME SlotAssumption ==
    Capacity \in Nat \ {0} /\ MaxNodes \in Nat \ {0} /\ Misuses \in Nat

VARIABLES
    taken,      \* takenFlags of every node of nodes: the slots whose bit is 1
    allocated,  \* nodes that the resource has handed out and not got back
    growing,    \* a new node is allocated but not in nodes yet
    live,       \* per place: constructions minus destructions of its element
    owned,      \* the places whose element the callers still hold
    misused,    \* history: the places whose slot was free when Remove was called
    answer      \* how the last call for a slot ended

vars == <<taken, allocated, growing, live, owned, misused, answer>>

Slots == 0 .. Capacity - 1

Places == (1 .. MaxNodes) \X Slots

Init ==
    /\ taken = <<>>
    /\ allocated = 0
    /\ growing = FALSE
    /\ live = [p \in Places |-> 0]
    /\ owned = {}
    /\ misused = {}
    /\ answer = "none"

HasFreeSlot(flags) == flags # Slots

\* Mutant: the number of the bits, as if they had no gap.
NextFreeSlotCounting(flags) == Cardinality(flags)

\* 64 - countl_zero: the slot after the highest that is taken.
NextFreeSlot(flags) == IF flags = {} THEN 0 ELSE Max(flags) + 1

NodesWithRoom == {n \in DOMAIN taken : HasFreeSlot(taken[n])}

\* The caller gets slot s of node n and constructs its element there.
HandOut(n, s) ==
    /\ live' = [live EXCEPT ![<<n, s>>] = @ + 1]
    /\ owned' = owned \cup {<<n, s>>}
    /\ answer' = "slot"

\* The last node with room serves the call; SetSlotIsFree throws for a slot that
\* does not exist.
GetNextWritable ==
    /\ ~growing /\ NodesWithRoom # {}
    /\ LET n == Max(NodesWithRoom)
           s == NextFreeSlot(taken[n])
       IN  IF s \in Slots
             THEN taken' = [taken EXCEPT ![n] = @ \cup {s}] /\ HandOut(n, s)
             ELSE answer' = "out_of_range" /\ UNCHANGED <<taken, live, owned>>
    /\ UNCHANGED <<allocated, growing, misused>>

\* No node has room: a new one is allocated, unless the resource is exhausted.
AllocateNode ==
    /\ ~growing /\ NodesWithRoom = {}
    /\ \/ /\ allocated < MaxNodes
          /\ allocated' = allocated + 1
          /\ growing' = TRUE
          /\ UNCHANGED answer
       \/ /\ answer' = "bad_alloc"
          /\ UNCHANGED <<allocated, growing>>
    /\ UNCHANGED <<taken, live, owned, misused>>

PushBack ==
    /\ growing
    /\ taken' = Append(taken, {NextFreeSlot({})})
    /\ HandOut(Len(taken) + 1, NextFreeSlot({}))
    /\ growing' = FALSE
    /\ UNCHANGED <<allocated, misused>>

\* Mutant: the node is not given back.
PushBackFailsLeaking ==
    /\ growing
    /\ growing' = FALSE
    /\ answer' = "bad_alloc"
    /\ UNCHANGED <<taken, allocated, live, owned, misused>>

\* push_back throws: DestroyNode, then the exception goes on.
PushBackFails ==
    /\ growing
    /\ growing' = FALSE
    /\ allocated' = allocated - 1
    /\ answer' = "bad_alloc"
    /\ UNCHANGED <<taken, live, owned, misused>>

\* Mutant: the element is destroyed and its slot stays taken.
RemoveAtKeepingBit(n, s) ==
    /\ ~growing /\ n \in DOMAIN taken /\ s \in taken[n]
    /\ live' = [live EXCEPT ![<<n, s>>] = @ - 1]
    /\ owned' = owned \ {<<n, s>>}
    /\ UNCHANGED <<taken, allocated, growing, misused, answer>>

\* A free slot is left alone: that changes nothing and is no step.
RemoveAt(n, s) ==
    /\ ~growing /\ n \in DOMAIN taken /\ s \in taken[n]
    /\ live' = [live EXCEPT ![<<n, s>>] = @ - 1]
    /\ taken' = [taken EXCEPT ![n] = @ \ {s}]
    /\ owned' = owned \ {<<n, s>>}
    /\ UNCHANGED <<allocated, growing, misused, answer>>

\* The caller gives up its element: the code returns when the slot is taken
\* (gc-util.h:631).
RemoveTaken(n, s) ==
    /\ ~growing /\ n \in DOMAIN taken /\ s \in taken[n]
    /\ owned' = owned \ {<<n, s>>}
    /\ UNCHANGED <<taken, allocated, growing, live, misused, answer>>

\* The slot is free: the element that is not there is destroyed and the slot freed
\* once more.
RemoveFree(n, s) ==
    /\ ~growing /\ n \in DOMAIN taken /\ s \notin taken[n]
    /\ live[<<n, s>>] > -Misuses
    /\ live' = [live EXCEPT ![<<n, s>>] = @ - 1]
    /\ misused' = misused \cup {<<n, s>>}
    /\ UNCHANGED <<taken, allocated, growing, owned, answer>>

Remove(n, s) == RemoveTaken(n, s) \/ RemoveFree(n, s)

\* The destructor destroys what is taken and frees every node; the next container
\* starts empty.
Destruct ==
    /\ ~growing
    /\ live' = [p \in Places |->
                  live[p] - (IF p[1] \in DOMAIN taken /\ p[2] \in taken[p[1]] THEN 1 ELSE 0)]
    /\ taken' = <<>>
    /\ allocated' = allocated - Len(taken)
    /\ owned' = {}
    /\ answer' = "none"
    /\ UNCHANGED <<growing, misused>>

Next ==
    \/ GetNextWritable \/ AllocateNode \/ PushBack \/ PushBackFails
    \/ \E n \in 1 .. MaxNodes, s \in Slots : RemoveAt(n, s) \/ Remove(n, s)
    \/ Destruct

Spec == Init /\ [][Next]_vars

-------------------------------------------------------------------------------

\* Types: a node's bits are those of its slots.
TypeOK ==
    /\ taken \in Seq(SUBSET Slots) /\ Len(taken) <= MaxNodes
    /\ allocated \in 0 .. MaxNodes
    /\ growing \in BOOLEAN
    /\ live \in [Places -> Int]
    /\ owned \subseteq Places /\ misused \subseteq Places
    /\ answer \in {"none", "slot", "bad_alloc", "out_of_range"}

IsTaken(n, s) == n \in DOMAIN taken /\ s \in taken[n]

\* An element is constructed in a slot that holds none and destroyed once, by
\* RemoveAt or with the container: the bits are exactly the elements that exist
\* (test object_destructor_gets_called_only_once).  A place whose element a caller
\* removes when there is none is excepted, for good; no other place suffers from it.
LifetimesBalance ==
    \A n \in 1 .. MaxNodes, s \in Slots :
       <<n, s>> \notin misused => live[<<n, s>>] = IF IsTaken(n, s) THEN 1 ELSE 0

\* The element of a caller that has not removed it exists, and no later call was
\* given its slot: the pointers the container hands out stay good, but for the places
\* where somebody has removed what was not there.
OwnedStaysConstructed == \A p \in owned \ misused : live[p] = 1

\* A call that fails for want of memory leaves no node behind (test
\* strong_exception_guarantee_for_allocator_failure).
NodesAreListed == allocated = Len(taken) + (IF growing THEN 1 ELSE 0)

\* A call for a slot fails only for want of memory (tests/gc-test.cpp:1157 and 1199:
\* it "shouldn't throw" while a node is not full).
RoomIsUsed == answer # "out_of_range"

\* An element that was removed is destroyed: none outlives its caller's call of
\* Remove (gc-internal.h:194 calls its handle invalid from then on).
RemovedIsDestroyed == \A p \in Places : live[p] = 1 => p \in owned

===============================================================================
