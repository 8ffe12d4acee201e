---------------------------- MODULE AbstractRWLock ----------------------------
(***************************************************************************)
(* What gc::rw_lock promises its users: a set of accesses, each of which   *)
(* holds nothing, a shared read or the exclusive write access.  RWLock     *)
(* implements it with a single machine word and compare-and-swap.          *)
(***************************************************************************)
EXTENDS Naturals, FiniteSets

CONSTANTS Accesses,    \* the objects that can own an access (pins, scoped locks)
          MaxReaders   \* max_read_access_count

VARIABLE held

Modes == {"none", "read", "write"}

HolderOf(mode) == {a \in Accesses : held[a] = mode}

OthersHold(a, modes) == \A b \in Accesses \ {a} : held[b] \in modes

AbsInit == held = [a \in Accesses |-> "none"]

GrantRead(a) ==
    /\ held[a] = "none"
    /\ OthersHold(a, {"none", "read"})
    /\ Cardinality(HolderOf("read")) < MaxReaders
    /\ held' = [held EXCEPT ![a] = "read"]

GrantWrite(a) ==
    /\ held[a] = "none"
    /\ OthersHold(a, {"none"})
    /\ held' = [held EXCEPT ![a] = "write"]

\* Read to write: only for the one and only access there is.
Promote(a) ==
    /\ held[a] = "read"
    /\ OthersHold(a, {"none"})
    /\ held' = [held EXCEPT ![a] = "write"]

Demote(a) ==
    /\ held[a] = "write"
    /\ held' = [held EXCEPT ![a] = "read"]

GiveUp(a) ==
    /\ held[a] # "none"
    /\ held' = [held EXCEPT ![a] = "none"]

AbsNext == \E a \in Accesses : \/ GrantRead(a) \/ GrantWrite(a)
                               \/ Promote(a) \/ Demote(a) \/ GiveUp(a)

AbsSpec == AbsInit /\ [][AbsNext]_held

===============================================================================
