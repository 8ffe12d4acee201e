----------------------------- MODULE AtomicBitSet -----------------------------
(***************************************************************************)
(* atomic_bit_set (include/gca/gc-util.h:85-225), the flags and the mark   *)
(* bits of an object: single bits of one atomic word are set and cleared   *)
(* by a load and a compare-and-swap loop, and the caller learns whether it *)
(* was its call that changed the bit (TryAcquireInitializeRight,           *)
(* gc.cpp:1320, relies on that).  The word is the set of its 1 bits.       *)
(***************************************************************************)
EXTENDS Integers, FiniteSets

CONSTANTS
    Threads,
    Bits,
    NoBit,
    MaxBalance  \* how far the reports about a bit may run ahead of each other

ASSUME BitSetAssumption == IsFiniteSet(Threads) /\ NoBit \notin Bits /\ MaxBalance \in Nat

VARIABLES
    word,    \* m_Flags
    pc,
    bit,     \* the bit an operation is about
    value,   \* what the bit is to become
    v,       \* the word it has loaded
    changed, \* what it is going to return
    balance  \* per bit: calls that have returned "set" minus calls that have returned "cleared"

vars == <<word, pc, bit, value, v, changed, balance>>

Idle == "idle"

Init ==
    /\ word = {}
    /\ pc = [t \in Threads |-> Idle]
    /\ bit = [t \in Threads |-> NoBit]
    /\ value = [t \in Threads |-> FALSE]
    /\ v = [t \in Threads |-> {}]
    /\ changed = [t \in Threads |-> FALSE]
    /\ balance = [b \in Bits |-> 0]

Goto(t, label) == pc' = [pc EXCEPT ![t] = label]

\* v | mask or v & mask, for the mask of the operation of t.
Masked(t) == IF value[t] THEN v[t] \cup {bit[t]} ELSE v[t] \ {bit[t]}

SetBit(t, b, on) ==
    /\ pc[t] = Idle
    /\ bit' = [bit EXCEPT ![t] = b]
    /\ value' = [value EXCEPT ![t] = on]
    /\ Goto(t, "load")
    /\ UNCHANGED <<word, v, changed, balance>>

Load(t) ==
    /\ pc[t] = "load"
    /\ v' = [v EXCEPT ![t] = word]
    /\ Goto(t, "test")
    /\ UNCHANGED <<word, bit, value, changed, balance>>

\* A word that already is as it should be ends the loop, with false.
Test(t) ==
    /\ pc[t] = "test"
    /\ changed' = [changed EXCEPT ![t] = FALSE]
    /\ Goto(t, IF Masked(t) = v[t] THEN "return" ELSE "swap")
    /\ UNCHANGED <<word, bit, value, v, balance>>

\* Mutant: a store that does not compare.
SwapBlindly(t) ==
    /\ pc[t] = "swap"
    /\ word' = Masked(t)
    /\ changed' = [changed EXCEPT ![t] = TRUE]
    /\ Goto(t, "return")
    /\ UNCHANGED <<bit, value, v, balance>>

\* compare_exchange_weak; when it fails it loads the word that is there.  (A
\* spurious failure loads the same word again: Test and Swap repeat.)
Swap(t) ==
    /\ pc[t] = "swap"
    /\ IF word = v[t]
         THEN /\ word' = Masked(t)
              /\ changed' = [changed EXCEPT ![t] = TRUE]
              /\ Goto(t, "return")
              /\ UNCHANGED v
         ELSE /\ v' = [v EXCEPT ![t] = word]
              /\ Goto(t, "test")
              /\ UNCHANGED <<word, changed>>
    /\ UNCHANGED <<bit, value, balance>>

\* How a report changes the balance of its bit.
Worth(t) == IF ~changed[t] THEN 0 ELSE IF value[t] THEN 1 ELSE -1

Return(t) ==
    /\ pc[t] = "return"
    /\ balance[bit[t]] + Worth(t) \in -MaxBalance .. MaxBalance
    /\ balance' = [balance EXCEPT ![bit[t]] = @ + Worth(t)]
    /\ bit' = [bit EXCEPT ![t] = NoBit]
    /\ value' = [value EXCEPT ![t] = FALSE]
    /\ v' = [v EXCEPT ![t] = {}]
    /\ changed' = [changed EXCEPT ![t] = FALSE]
    /\ Goto(t, Idle)
    /\ UNCHANGED word

Next ==
    \E t \in Threads :
       \/ \E b \in Bits, on \in BOOLEAN : SetBit(t, b, on)
       \/ Load(t) \/ Test(t) \/ Swap(t) \/ Return(t)

Spec == Init /\ [][Next]_vars

-------------------------------------------------------------------------------

\* Types of the word and of the locals; an operation is about a bit while it runs.
TypeOK ==
    /\ word \subseteq Bits
    /\ pc \in [Threads -> {Idle, "load", "test", "swap", "return"}]
    /\ bit \in [Threads -> Bits \cup {NoBit}]
    /\ \A t \in Threads : pc[t] = Idle <=> bit[t] = NoBit
    /\ value \in [Threads -> BOOLEAN]
    /\ v \in [Threads -> SUBSET Bits]
    /\ changed \in [Threads -> BOOLEAN]
    /\ balance \in [Bits -> Int]

\* The calls that have set, or cleared, bit b but have not returned yet.
Unreported(b) == {t \in Threads : pc[t] = "return" /\ changed[t] /\ bit[t] = b}
Setters(b) == {t \in Unreported(b) : value[t]}
Clearers(b) == {t \in Unreported(b) : ~value[t]}

\* Every change of a bit is reported to exactly one caller and nothing else is: the
\* reports about a bit, made and still to be made, add up to its value.  So two
\* threads never both win TryAcquireInitializeRight, and an operation on one
\* flag never undoes another (gc-util.h:141-165).
ReportsAddUp ==
    \A b \in Bits :
       balance[b] + Cardinality(Setters(b)) - Cardinality(Clearers(b))
         = IF b \in word THEN 1 ELSE 0

===============================================================================
