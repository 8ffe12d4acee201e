-------------------------- MODULE AtomicBitSetProofs --------------------------
(***************************************************************************)
(* Proofs about AtomicBitSet for every finite set of threads and every set *)
(* of bits.                                                                *)
(***************************************************************************)
EXTENDS AtomicBitSet, FiniteSetTheorems, TLAPS

\* A thread is about to swap only when that changes the word it has loaded: what
\* makes "changed" true of a swap that succeeds.
SwapsChange == \A t \in Threads : pc[t] = "swap" => Masked(t) # v[t]

IInv == TypeOK /\ SwapsChange /\ ReportsAddUp

-------------------------------------------------------------------------------

LEMMA PendingCounts ==
    ASSUME NEW b
    PROVE  /\ IsFiniteSet(Setters(b)) /\ Cardinality(Setters(b)) \in Nat
           /\ IsFiniteSet(Clearers(b)) /\ Cardinality(Clearers(b)) \in Nat
  BY BitSetAssumption, FS_Subset, FS_CardinalityType DEF Unreported, Setters, Clearers

\* A step that keeps the word, the balances and the pending reports keeps their sum.
LEMMA NothingReported ==
    ASSUME ReportsAddUp, UNCHANGED <<word, balance>>,
           \A b \in Bits : Setters(b)' = Setters(b) /\ Clearers(b)' = Clearers(b)
    PROVE  ReportsAddUp'
  BY DEF ReportsAddUp

\* One bit changes by d, as do its balance and its pending reports together; the
\* others stay as they are.
LEMMA OneBitAddsUp ==
    ASSUME ReportsAddUp, balance \in [Bits -> Int], NEW c \in Bits,
           balance' \in [Bits -> Int],
           \A b \in Bits \ {c} :
              /\ balance'[b] = balance[b]
              /\ Setters(b)' = Setters(b)
              /\ Clearers(b)' = Clearers(b)
              /\ b \in word' <=> b \in word,
           balance'[c] + Cardinality(Setters(c)') - Cardinality(Clearers(c)')
             = IF c \in word' THEN 1 ELSE 0
    PROVE  ReportsAddUp'
<1> SUFFICES ASSUME NEW b \in Bits
             PROVE  balance'[b] + Cardinality(Setters(b)') - Cardinality(Clearers(b)')
                      = IF b \in word' THEN 1 ELSE 0
  BY DEF ReportsAddUp
<1>1. CASE b = c
  BY <1>1
<1>2. CASE b # c
  <2>1. /\ Cardinality(Setters(b)') = Cardinality(Setters(b))
        /\ Cardinality(Clearers(b)') = Cardinality(Clearers(b))
        /\ balance'[b] = balance[b]
        /\ b \in word' <=> b \in word
    BY <1>2
  <2>2. balance[b] + Cardinality(Setters(b)) - Cardinality(Clearers(b))
          = IF b \in word THEN 1 ELSE 0
    BY DEF ReportsAddUp
  <2> QED
    BY <2>1, <2>2
<1> QED
  BY <1>1, <1>2

-------------------------------------------------------------------------------

LEMMA TypeStep == TypeOK /\ [Next]_vars => TypeOK'
<1> SUFFICES ASSUME TypeOK, [Next]_vars PROVE TypeOK'
  OBVIOUS
<1> USE BitSetAssumption DEF TypeOK, Idle, Goto
<1>1. ASSUME NEW t \in Threads, NEW b \in Bits, NEW on \in BOOLEAN, SetBit(t, b, on)
      PROVE  TypeOK'
  BY <1>1 DEF SetBit
<1>2. ASSUME NEW t \in Threads, Load(t) PROVE TypeOK'
  BY <1>2 DEF Load
<1>3. ASSUME NEW t \in Threads, Test(t) PROVE TypeOK'
  BY <1>3 DEF Test
<1>4. ASSUME NEW t \in Threads, Swap(t) PROVE TypeOK'
  <2>1. bit[t] \in Bits
    BY <1>4 DEF Swap
  <2>2. Masked(t) \subseteq Bits
    BY <2>1 DEF Masked
  <2>3. CASE word = v[t]
    BY <1>4, <2>2, <2>3 DEF Swap
  <2>4. CASE word # v[t]
    BY <1>4, <2>4 DEF Swap
  <2> QED
    BY <2>3, <2>4
<1>5. ASSUME NEW t \in Threads, Return(t) PROVE TypeOK'
  <2>1. bit[t] \in Bits /\ Worth(t) \in Int
    BY <1>5 DEF Return, Worth
  <2>2. balance' \in [Bits -> Int]
    BY <1>5, <2>1 DEF Return
  <2> QED
    BY <1>5, <2>2 DEF Return
<1>6. CASE UNCHANGED vars
  BY <1>6 DEF vars
<1> QED
  BY <1>1, <1>2, <1>3, <1>4, <1>5, <1>6 DEF Next

LEMMA SwapsChangeStep == TypeOK /\ SwapsChange /\ [Next]_vars => SwapsChange'
<1> SUFFICES ASSUME TypeOK, SwapsChange, [Next]_vars PROVE SwapsChange'
  OBVIOUS
<1>1. ASSUME NEW t \in Threads, NEW b \in Bits, NEW on \in BOOLEAN, SetBit(t, b, on)
      PROVE  SwapsChange'
  BY <1>1 DEF SetBit, TypeOK, SwapsChange, Masked, Idle, Goto
<1>2. ASSUME NEW t \in Threads, Load(t) PROVE SwapsChange'
  BY <1>2 DEF Load, TypeOK, SwapsChange, Masked, Goto
<1>3. ASSUME NEW t \in Threads, Test(t) PROVE SwapsChange'
  BY <1>3 DEF Test, TypeOK, SwapsChange, Masked, Goto
<1>4. ASSUME NEW t \in Threads, Swap(t) PROVE SwapsChange'
  BY <1>4 DEF Swap, TypeOK, SwapsChange, Masked, Goto
<1>5. ASSUME NEW t \in Threads, Return(t) PROVE SwapsChange'
  BY <1>5 DEF Return, TypeOK, SwapsChange, Masked, Idle, Goto
<1>6. CASE UNCHANGED vars
  BY <1>6 DEF vars, SwapsChange, Masked
<1> QED
  BY <1>1, <1>2, <1>3, <1>4, <1>5, <1>6 DEF Next

\* The swap flips its bit and owes one report; no other bit changes.
LEMMA SwapAddsUp ==
    ASSUME IInv, NEW t \in Threads, Swap(t)
    PROVE  ReportsAddUp'
<1> USE DEF IInv, TypeOK, Idle, Goto
<1>1. CASE word # v[t]
  <2>1. \A b \in Bits : Setters(b)' = Setters(b) /\ Clearers(b)' = Clearers(b)
    BY <1>1 DEF Swap, Unreported, Setters, Clearers
  <2> QED
    BY <1>1, <2>1, NothingReported DEF Swap
<1>2. CASE word = v[t]
  <2>0. PICK c \in Bits : c = bit[t]
    BY DEF Swap
  <2>1. c \in Bits /\ t \notin Setters(c) /\ t \notin Clearers(c)
    BY <2>0 DEF Swap, Unreported, Setters, Clearers
  <2>2. /\ c \in word' <=> value[t]
        /\ c \in word <=> ~value[t]
        /\ \A b \in Bits \ {c} : b \in word' <=> b \in word
    BY <1>2, <2>0 DEF Swap, Masked, SwapsChange
  <2>3. /\ Setters(c)' = IF value[t] THEN Setters(c) \cup {t} ELSE Setters(c)
        /\ Clearers(c)' = IF value[t] THEN Clearers(c) ELSE Clearers(c) \cup {t}
        /\ \A b \in Bits \ {c} : Setters(b)' = Setters(b) /\ Clearers(b)' = Clearers(b)
    BY <1>2, <2>0 DEF Swap, Unreported, Setters, Clearers
  <2>4. /\ Cardinality(Setters(c) \cup {t}) = Cardinality(Setters(c)) + 1
        /\ Cardinality(Clearers(c) \cup {t}) = Cardinality(Clearers(c)) + 1
    BY <2>1, PendingCounts, FS_AddElement
  <2>5. balance[c] + Cardinality(Setters(c)) - Cardinality(Clearers(c))
          = IF c \in word THEN 1 ELSE 0
    BY <2>1 DEF ReportsAddUp
  <2>6. balance[c] \in Int /\ Cardinality(Setters(c)) \in Nat /\ Cardinality(Clearers(c)) \in Nat
    BY <2>1, PendingCounts
  <2>7. balance' = balance
    BY DEF Swap
  <2>8. balance[c] + Cardinality(Setters(c)') - Cardinality(Clearers(c)')
          = IF c \in word' THEN 1 ELSE 0
    <3>1. CASE value[t]
      <4>1. Cardinality(Setters(c)') = Cardinality(Setters(c)) + 1
        BY <2>3, <2>4, <3>1
      <4>2. Cardinality(Clearers(c)') = Cardinality(Clearers(c))
        BY <2>3, <3>1
      <4> QED
        BY <2>2, <2>5, <2>6, <3>1, <4>1, <4>2
    <3>2. CASE ~value[t]
      <4>1. Cardinality(Setters(c)') = Cardinality(Setters(c))
        BY <2>3, <3>2
      <4>2. Cardinality(Clearers(c)') = Cardinality(Clearers(c)) + 1
        BY <2>3, <2>4, <3>2
      <4> QED
        BY <2>2, <2>5, <2>6, <3>2, <4>1, <4>2
    <3> QED
      BY <3>1, <3>2
  <2> QED
    BY <2>1, <2>2, <2>3, <2>7, <2>8, OneBitAddsUp
<1> QED
  BY <1>1, <1>2

\* A return moves its report, if it has one to make, into the balance.
LEMMA ReturnAddsUp ==
    ASSUME IInv, NEW t \in Threads, Return(t)
    PROVE  ReportsAddUp'
<1> USE DEF IInv, TypeOK, Idle, Goto
<1>0. PICK c \in Bits : c = bit[t]
  BY DEF Return
<1>1. word' = word
  BY DEF Return
<1>2. Worth(t) \in Int /\ balance' = [balance EXCEPT ![c] = @ + Worth(t)]
  BY <1>0 DEF Return, Worth
<1>3. /\ balance' \in [Bits -> Int]
      /\ balance'[c] = balance[c] + Worth(t)
      /\ \A b \in Bits \ {c} : balance'[b] = balance[b]
  BY <1>1, <1>2
<1>4. \A b \in Bits \ {c} : Setters(b)' = Setters(b) /\ Clearers(b)' = Clearers(b)
  BY <1>0 DEF Return, Unreported, Setters, Clearers
<1>5. balance[c] + Cardinality(Setters(c)) - Cardinality(Clearers(c))
        = IF c \in word THEN 1 ELSE 0
  BY <1>1 DEF ReportsAddUp
<1>6. balance[c] \in Int /\ Cardinality(Setters(c)) \in Nat /\ Cardinality(Clearers(c)) \in Nat
  BY <1>1, PendingCounts
<1>7. balance'[c] + Cardinality(Setters(c)') - Cardinality(Clearers(c)')
        = IF c \in word' THEN 1 ELSE 0
  <2>1. CASE ~changed[t]
    <3>1. Setters(c)' = Setters(c) /\ Clearers(c)' = Clearers(c) /\ Worth(t) = 0
      BY <1>0, <2>1 DEF Return, Unreported, Setters, Clearers, Worth
    <3> QED
      BY <1>1, <1>3, <1>5, <1>6, <3>1
  <2>2. CASE changed[t] /\ value[t]
    <3>1. /\ t \in Setters(c)
          /\ Setters(c)' = Setters(c) \ {t}
          /\ Clearers(c)' = Clearers(c)
          /\ Worth(t) = 1
      BY <1>0, <2>2 DEF Return, Unreported, Setters, Clearers, Worth
    <3>2. Cardinality(Setters(c)') = Cardinality(Setters(c)) - 1
      BY <3>1, PendingCounts, FS_RemoveElement
    <3> QED
      BY <1>1, <1>3, <1>5, <1>6, <3>1, <3>2
  <2>3. CASE changed[t] /\ ~value[t]
    <3>1. /\ t \in Clearers(c)
          /\ Clearers(c)' = Clearers(c) \ {t}
          /\ Setters(c)' = Setters(c)
          /\ Worth(t) = -1
      BY <1>0, <2>3 DEF Return, Unreported, Setters, Clearers, Worth
    <3>2. Cardinality(Clearers(c)') = Cardinality(Clearers(c)) - 1
      BY <3>1, PendingCounts, FS_RemoveElement
    <3> QED
      BY <1>1, <1>3, <1>5, <1>6, <3>1, <3>2
  <2> QED
    BY <2>1, <2>2, <2>3
<1> QED
  BY <1>1, <1>3, <1>4, <1>7, OneBitAddsUp

LEMMA InitHolds == Init => IInv
<1> SUFFICES ASSUME Init PROVE IInv
  OBVIOUS
<1>1. TypeOK /\ SwapsChange
  BY BitSetAssumption DEF Init, TypeOK, SwapsChange, Idle
<1>2. \A b \in Bits : Setters(b) = {} /\ Clearers(b) = {}
  BY DEF Init, Unreported, Setters, Clearers, Idle
<1>3. ReportsAddUp
  BY <1>2, FS_EmptySet DEF Init, ReportsAddUp
<1> QED
  BY <1>1, <1>3 DEF IInv

LEMMA StepHolds == IInv /\ [Next]_vars => IInv'
<1> SUFFICES ASSUME IInv, [Next]_vars PROVE IInv'
  OBVIOUS
<1>0. TypeOK' /\ SwapsChange'
  BY TypeStep, SwapsChangeStep DEF IInv
<1> SUFFICES ReportsAddUp'
  BY <1>0 DEF IInv
<1> USE DEF IInv, TypeOK, Idle, Goto
<1>1. ASSUME NEW t \in Threads, NEW b \in Bits, NEW on \in BOOLEAN, SetBit(t, b, on)
      PROVE  ReportsAddUp'
  <2>1. \A c \in Bits : Setters(c)' = Setters(c) /\ Clearers(c)' = Clearers(c)
    BY <1>1 DEF SetBit, Unreported, Setters, Clearers
  <2> QED
    BY <1>1, <2>1, NothingReported DEF SetBit
<1>2. ASSUME NEW t \in Threads, Load(t) PROVE ReportsAddUp'
  <2>1. \A c \in Bits : Setters(c)' = Setters(c) /\ Clearers(c)' = Clearers(c)
    BY <1>2 DEF Load, Unreported, Setters, Clearers
  <2> QED
    BY <1>2, <2>1, NothingReported DEF Load
<1>3. ASSUME NEW t \in Threads, Test(t) PROVE ReportsAddUp'
  <2>1. \A c \in Bits : Setters(c)' = Setters(c) /\ Clearers(c)' = Clearers(c)
    BY <1>3 DEF Test, Unreported, Setters, Clearers
  <2> QED
    BY <1>3, <2>1, NothingReported DEF Test
<1>4. ASSUME NEW t \in Threads, Swap(t) PROVE ReportsAddUp'
  BY <1>4, SwapAddsUp
<1>5. ASSUME NEW t \in Threads, Return(t) PROVE ReportsAddUp'
  BY <1>5, ReturnAddsUp
<1>6. CASE UNCHANGED vars
  BY <1>6 DEF vars, ReportsAddUp, Unreported, Setters, Clearers
<1> QED
  BY <1>1, <1>2, <1>3, <1>4, <1>5, <1>6 DEF Next

-------------------------------------------------------------------------------

\* The word and the locals keep their types, and a thread's call is about a bit
\* exactly while it runs, whatever the threads do.
THEOREM TypesHold == Spec => []TypeOK
<1>1. IInv => TypeOK
  BY DEF IInv
<1> QED
  BY InitHolds, StepHolds, <1>1, PTL DEF Spec

\* Whatever the number of threads and bits: each change of a bit is reported to
\* exactly one of the callers, and no caller is told of a change that did not
\* happen (atomic_bit_set::ClearMask and EnableMask).
THEOREM EveryChangeReportedOnce == Spec => []ReportsAddUp
<1>1. IInv => ReportsAddUp
  BY DEF IInv
<1> QED
  BY InitHolds, StepHolds, <1>1, PTL DEF Spec

===============================================================================
