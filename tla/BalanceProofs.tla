--------------------------- MODULE BalanceProofs ----------------------------
(***************************************************************************)
(* Proofs about balances that several requests draw on: the buckets of     *)
(* the savings, the debts between the user and other people, and the       *)
(* receipts that entitlements are settled from.                            *)
(***************************************************************************)
EXTENDS EarmarkedSavings, PersonSettlements, IncomeSettlements, Sums, SequenceTheorems

-----------------------------------------------------------------------------
(***************************************************************************)
(* EarmarkedSavings, for any buckets, goals and transfers. The module      *)
(* states the earmarked money as the sum over transfers in and out of the  *)
(* buckets; the invariant adds that it is the sum of what the buckets      *)
(* hold, so a transfer between buckets leaves it and one from the          *)
(* unallocated money is covered by what is left on the account. The        *)
(* priority order is a sequence: InsertAt and the removal of a goal keep   *)
(* it free of repetitions and change its elements by that goal. A goal     *)
(* that is not active holds nothing, which is what a transfer's guard and  *)
(* the end of a goal rely on.                                              *)
(***************************************************************************)

\* Only a stored transfer or reversal moves money, it moves it between places
\* there are, and an inactive goal has none of it.
TransfersStored ==
    /\ \A c \in Caller : moved[c] # NoTransfer => reply[c] = "stored" /\ asked[c].op \in {"transfer", "reverse"}
    /\ \A c \in Caller : asked[c] = Nothing => reply[c] = NoReply
    /\ \A c \in Transferred : /\ moved[c].reverses # NoReply => moved[c].reverses \in Transferred
                             /\ moved[c].from # moved[c].to
InactiveEmpty == \A g \in Goal : goals[g].status # "ACTIVE" => BucketBalance(g) = 0

\* The money that is earmarked is what the buckets hold.
InBuckets == SumFunctionOnSet([b \in Bucket |-> BucketBalance(b)], Bucket)

SavingsInv == SavingsTypeOK /\ TransfersStored /\ InactiveEmpty /\ Earmarked = InBuckets /\ SavingsInStep

-----------------------------------------------------------------------------
(* The priority order.                                                     *)

LEMMA InsertAtElements ==
    ASSUME NEW S, NEW s \in Seq(S), NEW e \in S, NEW p \in 1..(Len(s) + 1)
    PROVE  /\ InsertAt(s, p, e) \in Seq(S)
           /\ Len(InsertAt(s, p, e)) = Len(s) + 1
           /\ \A i \in 1..(Len(s) + 1) : InsertAt(s, p, e)[i] = IF i < p THEN s[i]
                                                                ELSE IF i = p THEN e ELSE s[i - 1]
<1> DEFINE left == SubSeq(s, 1, p - 1)
           right == SubSeq(s, p, Len(s))
           first == left \o <<e>>
<1>1. Len(s) \in Nat /\ p \in Nat /\ p >= 1 /\ p <= Len(s) + 1 /\ \A i \in 1..Len(s) : s[i] \in S
  BY LenProperties, ElementOfSeq
<1>2. /\ left \in Seq(S) /\ Len(left) = p - 1
      /\ \A i \in 1..(p - 1) : left[i] = s[i]
  <2>1. /\ p - 1 \in Int /\ 1 \in Int /\ \A i \in 1..(p - 1) : s[i] \in S
        /\ \A i \in 1..(p - 1) : i \in 1..((p - 1) - 1 + 1) /\ 1 + i - 1 = i
    BY <1>1
  <2> QED
    BY <1>1, <2>1, SubSeqProperties
<1>3. /\ right \in Seq(S) /\ Len(right) = Len(s) - p + 1
      /\ \A i \in 1..(Len(s) - p + 1) : right[i] = s[p + i - 1]
  <2>1. \A i \in p..Len(s) : s[i] \in S
    BY <1>1
  <2> QED
    BY <1>1, <2>1, SubSeqProperties
<1>4. <<e>> \in Seq(S) /\ Len(<<e>>) = 1 /\ <<e>>[1] = e
  OBVIOUS
<1> HIDE DEF left, right
<1>5. /\ first \in Seq(S) /\ Len(first) = p
      /\ \A i \in 1..p : first[i] = IF i < p THEN s[i] ELSE e
  <2>1. /\ first \in Seq(S) /\ Len(first) = p - 1 + 1
        /\ \A i \in 1..(p - 1 + 1) : first[i] = IF i <= p - 1 THEN left[i] ELSE <<e>>[i - (p - 1)]
    BY <1>2, <1>4, ConcatProperties
  <2> QED
    BY <1>1, <1>2, <1>4, <2>1
<1>6. InsertAt(s, p, e) = first \o right
  BY DEF InsertAt, left, right
<1> HIDE DEF first
<1> DEFINE both == first \o right
<1>7. /\ both \in Seq(S) /\ Len(both) = Len(s) + 1
      /\ \A i \in 1..(Len(s) + 1) : both[i] = IF i <= p THEN first[i] ELSE right[i - p]
  <2>1. /\ both \in Seq(S) /\ Len(both) = Len(first) + Len(right)
        /\ \A i \in 1..(Len(first) + Len(right)) : both[i] = IF i <= Len(first) THEN first[i] ELSE right[i - Len(first)]
    BY <1>3, <1>5, ConcatProperties
  <2>2. Len(first) + Len(right) = Len(s) + 1
    BY <1>1, <1>3, <1>5
  <2> QED
    BY <1>5, <2>1, <2>2
<1> HIDE DEF both
<1>8. ASSUME NEW i \in 1..(Len(s) + 1)
      PROVE  both[i] = IF i < p THEN s[i] ELSE IF i = p THEN e ELSE s[i - 1]
  <2>1. CASE i <= p
    <3>1. both[i] = first[i]
      BY <1>7, <2>1
    <3> QED
      BY <1>1, <1>5, <2>1, <3>1
  <2>2. CASE i > p
    <3>1. both[i] = right[i - p]
      BY <1>1, <1>7, <2>2
    <3>2. i - p \in 1..(Len(s) - p + 1) /\ p + (i - p) - 1 = i - 1 /\ ~(i < p) /\ i # p
      BY <1>1, <2>2
    <3>3. right[i - p] = s[p + (i - p) - 1]
      BY <1>3, <3>2
    <3> QED
      BY <3>1, <3>2, <3>3
  <2> QED
    BY <1>1, <2>1, <2>2
<1> QED
  BY <1>6, <1>7, <1>8 DEF both

LEMMA RemoveAtElements ==
    ASSUME NEW S, NEW s \in Seq(S), NEW p \in 1..Len(s)
    PROVE  /\ RemoveAt(s, p) \in Seq(S)
           /\ Len(RemoveAt(s, p)) = Len(s) - 1
           /\ \A i \in 1..(Len(s) - 1) : RemoveAt(s, p)[i] = IF i < p THEN s[i] ELSE s[i + 1]
<1> DEFINE left == SubSeq(s, 1, p - 1)
           right == SubSeq(s, p + 1, Len(s))
<1>1. Len(s) \in Nat /\ p \in Nat /\ p >= 1 /\ p <= Len(s) /\ \A i \in 1..Len(s) : s[i] \in S
  BY LenProperties, ElementOfSeq
<1>2. /\ left \in Seq(S) /\ Len(left) = p - 1
      /\ \A i \in 1..(p - 1) : left[i] = s[i]
  <2>1. /\ p - 1 \in Int /\ 1 \in Int /\ \A i \in 1..(p - 1) : s[i] \in S
        /\ \A i \in 1..(p - 1) : i \in 1..((p - 1) - 1 + 1) /\ 1 + i - 1 = i
    BY <1>1
  <2> QED
    BY <1>1, <2>1, SubSeqProperties
<1>3. /\ right \in Seq(S) /\ Len(right) = Len(s) - p
      /\ \A i \in 1..(Len(s) - p) : right[i] = s[i + p]
  <2>1. p + 1 \in Int /\ \A i \in (p + 1)..Len(s) : s[i] \in S
    BY <1>1
  <2>2. /\ right \in Seq(S) /\ Len(right) = IF p + 1 <= Len(s) THEN Len(s) - (p + 1) + 1 ELSE 0
        /\ \A i \in 1..(Len(s) - (p + 1) + 1) : right[i] = s[p + 1 + i - 1]
    BY <1>1, <2>1, SubSeqProperties
  <2>3. \A i \in 1..(Len(s) - p) : i \in 1..(Len(s) - (p + 1) + 1) /\ p + 1 + i - 1 = i + p
    BY <1>1
  <2> QED
    BY <1>1, <2>2, <2>3
<1>4. RemoveAt(s, p) = left \o right
  BY DEF RemoveAt
<1> HIDE DEF left, right
<1> DEFINE both == left \o right
<1>5. /\ both \in Seq(S) /\ Len(both) = Len(s) - 1
      /\ \A i \in 1..(Len(s) - 1) : both[i] = IF i < p THEN left[i] ELSE right[i - (p - 1)]
  <2>1. /\ both \in Seq(S) /\ Len(both) = Len(left) + Len(right)
        /\ \A i \in 1..(Len(left) + Len(right)) : both[i] = IF i <= Len(left) THEN left[i] ELSE right[i - Len(left)]
    BY <1>2, <1>3, ConcatProperties
  <2>2. Len(left) + Len(right) = Len(s) - 1 /\ \A i \in 1..(Len(s) - 1) : i <= p - 1 <=> i < p
    BY <1>1, <1>2, <1>3
  <2> QED
    BY <1>2, <2>1, <2>2
<1> HIDE DEF both
<1>6. ASSUME NEW i \in 1..(Len(s) - 1)
      PROVE  both[i] = IF i < p THEN s[i] ELSE s[i + 1]
  <2>1. CASE i < p
    <3>1. both[i] = left[i]
      BY <1>5, <2>1
    <3> QED
      BY <1>1, <1>2, <2>1, <3>1
  <2>2. CASE i >= p
    <3>1. i - (p - 1) \in 1..(Len(s) - p) /\ i - (p - 1) + p = i + 1 /\ ~(i < p)
      BY <1>1, <2>2
    <3>2. both[i] = right[i - (p - 1)]
      BY <1>5, <3>1
    <3>3. right[i - (p - 1)] = s[i - (p - 1) + p]
      BY <1>3, <3>1
    <3> QED
      BY <3>1, <3>2, <3>3
  <2> QED
    BY <1>1, <2>1, <2>2
<1> QED
  BY <1>4, <1>5, <1>6 DEF both

\* A new element takes its place in a sequence without duplicates, and one that
\* leaves leaves no other.
LEMMA InsertKeepsOrder ==
    ASSUME NEW S, NEW s \in Seq(S), IsInjective(s), NEW e \in S, e \notin ToSet(s), NEW p \in 1..(Len(s) + 1)
    PROVE  /\ InsertAt(s, p, e) \in Seq(S) /\ IsInjective(InsertAt(s, p, e))
           /\ ToSet(InsertAt(s, p, e)) = ToSet(s) \cup {e}
<1> DEFINE t == InsertAt(s, p, e)
           n == Len(s)
<1>1. n \in Nat /\ DOMAIN s = 1..n /\ p \in 1..(n + 1) /\ p \in Nat /\ \A i \in 1..n : s[i] # e
  BY LenProperties DEF ToSet
<1>2. t \in Seq(S) /\ DOMAIN t = 1..(n + 1)
  BY InsertAtElements, LenProperties
<1> HIDE DEF t
<1>3. \A i \in 1..(n + 1) : t[i] = IF i < p THEN s[i] ELSE IF i = p THEN e ELSE s[i - 1]
  <2>1. \A i \in 1..(Len(s) + 1) : InsertAt(s, p, e)[i] = IF i < p THEN s[i]
                                                        ELSE IF i = p THEN e ELSE s[i - 1]
    BY ONLY InsertAtElements, s \in Seq(S), e \in S, p \in 1..(Len(s) + 1)
  <2> QED
    BY <2>1 DEF t
<1> HIDE DEF n
<1>4. IsInjective(t)
  <2>1. ASSUME NEW i \in 1..(n + 1), NEW j \in 1..(n + 1), i < j, t[i] = t[j]
        PROVE  FALSE
    <3>1. \A k, l \in 1..n : k # l => s[k] # s[l]
      BY <1>1 DEF IsInjective
    <3>2. CASE j < p
      <4>1. t[i] = s[i] /\ t[j] = s[j] /\ i \in 1..n /\ j \in 1..n /\ i # j
        BY <1>1, <1>3, <2>1, <3>2
      <4> QED
        BY <2>1, <3>1, <4>1
    <3>3. CASE j = p
      <4>1. t[i] = s[i] /\ t[j] = e /\ i \in 1..n
        BY <1>1, <1>3, <2>1, <3>3
      <4> QED
        BY <1>1, <2>1, <4>1
    <3>4. CASE j > p /\ i < p
      <4>1. t[i] = s[i] /\ t[j] = s[j - 1] /\ i \in 1..n /\ j - 1 \in 1..n /\ i # j - 1
        BY <1>1, <1>3, <2>1, <3>4
      <4> QED
        BY <2>1, <3>1, <4>1
    <3>5. CASE j > p /\ i = p
      <4>1. t[i] = e /\ t[j] = s[j - 1] /\ j - 1 \in 1..n
        BY <1>1, <1>3, <2>1, <3>5
      <4> QED
        BY <1>1, <2>1, <4>1
    <3>6. CASE j > p /\ i > p
      <4>1. t[i] = s[i - 1] /\ t[j] = s[j - 1] /\ i - 1 \in 1..n /\ j - 1 \in 1..n /\ i - 1 # j - 1
        BY <1>1, <1>3, <2>1, <3>6
      <4> QED
        BY <2>1, <3>1, <4>1
    <3> QED
      BY <1>1, <2>1, <3>2, <3>3, <3>4, <3>5, <3>6
  <2>2. \A i, j \in 1..(n + 1) : i < j \/ j < i \/ i = j
    BY <1>1
  <2> QED
    BY <1>2, <2>1, <2>2 DEF IsInjective
<1>5. ToSet(t) = ToSet(s) \cup {e}
  <2>1. \A i \in 1..(n + 1) : t[i] \in ToSet(s) \cup {e}
    <3> SUFFICES ASSUME NEW i \in 1..(n + 1) PROVE t[i] \in ToSet(s) \cup {e}
      OBVIOUS
    <3>1. i < p => i \in 1..n
      BY <1>1
    <3>2. ~(i < p) /\ i # p => i - 1 \in 1..n
      BY <1>1
    <3> QED
      BY <1>1, <1>3, <3>1, <3>2 DEF ToSet
  <2>2. \A i \in 1..n : \E j \in 1..(n + 1) : t[j] = s[i]
    <3> SUFFICES ASSUME NEW i \in 1..n PROVE \E j \in 1..(n + 1) : t[j] = s[i]
      OBVIOUS
    <3>1. CASE i < p
      <4>1. i \in 1..(n + 1)
        BY <1>1
      <4>2. t[i] = s[i]
        BY <1>3, <3>1, <4>1
      <4> QED
        BY <4>1, <4>2
    <3>2. CASE i >= p
      <4>1. i + 1 \in 1..(n + 1) /\ ~(i + 1 < p) /\ i + 1 # p /\ (i + 1) - 1 = i
        BY <1>1, <3>2
      <4>2. t[i + 1] = s[(i + 1) - 1]
        BY <1>3, <4>1
      <4> QED
        BY <4>1, <4>2
    <3> QED
      BY <1>1, <3>1, <3>2
  <2>3. p \in 1..(n + 1) /\ t[p] = e
    BY <1>1, <1>3
  <2>4. ToSet(t) = {t[i] : i \in 1..(n + 1)} /\ ToSet(s) = {s[i] : i \in 1..n}
    BY <1>1, <1>2 DEF ToSet
  <2>5. ToSet(t) \subseteq ToSet(s) \cup {e}
    BY <2>1, <2>4
  <2>6. ToSet(s) \subseteq ToSet(t) /\ e \in ToSet(t)
    BY <2>2, <2>3, <2>4
  <2> QED
    BY <2>5, <2>6
<1> QED
  BY <1>2, <1>4, <1>5 DEF t

LEMMA WithoutKeepsOrder ==
    ASSUME NEW S, NEW s \in Seq(S), IsInjective(s), NEW e \in ToSet(s)
    PROVE  Without(s, e) \in Seq(S) /\ IsInjective(Without(s, e)) /\ ToSet(Without(s, e)) = ToSet(s) \ {e}
<1> DEFINE p == CHOOSE i \in DOMAIN s : s[i] = e
           n == Len(s)
           t == RemoveAt(s, p)
<1>1. n \in Nat /\ DOMAIN s = 1..n
  BY LenProperties
<1>2. p \in DOMAIN s /\ s[p] = e
  BY DEF ToSet
<1> HIDE DEF p
<1>3. p \in 1..n /\ p \in Nat
  BY <1>1, <1>2
<1>4. t \in Seq(S) /\ DOMAIN t = 1..(n - 1)
  BY <1>3, RemoveAtElements, LenProperties
<1>5. \A i \in 1..(n - 1) : t[i] = IF i < p THEN s[i] ELSE s[i + 1]
  BY <1>3, RemoveAtElements
<1>6. Without(s, e) = t
  BY DEF Without, p
<1> HIDE DEF t, n
<1>7. \A k, l \in 1..n : k # l => s[k] # s[l]
  BY <1>1 DEF IsInjective
<1> DEFINE from(i) == IF i < p THEN i ELSE i + 1
<1>8. \A i \in 1..(n - 1) : from(i) \in 1..n /\ from(i) # p /\ t[i] = s[from(i)]
  BY <1>1, <1>3, <1>5
<1>9. IsInjective(t)
  <2>1. \A i, j \in 1..(n - 1) : i # j => from(i) # from(j)
    BY <1>1, <1>3
  <2> HIDE DEF from
  <2> QED
    BY <1>4, <1>7, <1>8, <2>1 DEF IsInjective
<1>10. \A k \in 1..n : k # p => \E i \in 1..(n - 1) : from(i) = k
  <2> SUFFICES ASSUME NEW k \in 1..n, k # p PROVE \E i \in 1..(n - 1) : from(i) = k
    OBVIOUS
  <2>1. CASE k < p
    <3>1. k \in 1..(n - 1) /\ from(k) = k
      BY <1>1, <1>3, <2>1
    <3> QED
      BY <3>1
  <2>2. CASE k > p
    <3>1. k - 1 \in 1..(n - 1) /\ from(k - 1) = k
      BY <1>1, <1>3, <2>2
    <3> QED
      BY <3>1
  <2> QED
    BY <1>1, <1>3, <2>1, <2>2
<1> HIDE DEF from
<1>11. ToSet(t) = {t[i] : i \in 1..(n - 1)} /\ ToSet(s) = {s[i] : i \in 1..n}
  BY <1>1, <1>4 DEF ToSet
<1>12. ToSet(t) \subseteq ToSet(s) \ {e}
  BY <1>2, <1>3, <1>7, <1>8, <1>11
<1>13. ToSet(s) \ {e} \subseteq ToSet(t)
  BY <1>2, <1>8, <1>10, <1>11
<1> QED
  BY <1>4, <1>6, <1>9, <1>12, <1>13

\* A sequence as long as it has elements has no duplicates.
LEMMA AsLongAsItsElements ==
    ASSUME NEW S, NEW s \in Seq(S), Len(s) = Cardinality(ToSet(s))
    PROVE  IsInjective(s)
<1>1. Len(s) \in Nat /\ DOMAIN s = 1..Len(s)
  BY LenProperties
<1>2. s \in [1..Len(s) -> ToSet(s)]
  <2>1. s \in [1..Len(s) -> S]
    BY LenProperties
  <2>2. s = [i \in 1..Len(s) |-> s[i]]
    BY <2>1
  <2>3. \A i \in 1..Len(s) : s[i] \in ToSet(s)
    BY <1>1 DEF ToSet
  <2> QED
    BY <2>2, <2>3
<1>3. s \in Surjection(1..Len(s), ToSet(s))
  BY <1>1, <1>2 DEF Surjection, ToSet
<1>4. IsFiniteSet(1..Len(s)) /\ Cardinality(1..Len(s)) = Len(s)
  BY <1>1, FS_Interval
<1>5. s \in Injection(1..Len(s), ToSet(s))
  BY <1>3, <1>4, FS_SurjSameCardinalityImpliesInj
<1> QED
  BY <1>1, <1>5 DEF Injection, IsInjective

-----------------------------------------------------------------------------
(* The money in the buckets.                                               *)

Move == [from : Bucket \cup {Free}, to : Bucket \cup {Free}, amount : Nat, reverses : Caller \cup {NoReply}]
Arrives(m, b) == (IF m.to = b THEN m.amount ELSE 0) - (IF m.from = b THEN m.amount ELSE 0)
Earmarks(m) == IF m.from = Free THEN m.amount ELSE IF m.to = Free THEN -m.amount ELSE 0

LEMMA SumsTyped ==
    ASSUME SavingsTypeOK
    PROVE  Earmarked \in Int /\ \A b : BucketBalance(b) \in Int
<1>0. IsFiniteSet(Caller)
  BY SavingsAssumption
<1>1. \A c \in Caller : moved[c] \in Move
  BY DEF SavingsTypeOK, Move
<1>2. Earmarked \in Int
  <2> DEFINE f == [c \in Caller |-> IF moved[c].from = Free THEN moved[c].amount
                                    ELSE IF moved[c].to = Free THEN -moved[c].amount ELSE 0]
  <2>1. \A c \in Caller : f[c] \in Int
    BY <1>1 DEF Move
  <2>2. Earmarked = SumFunctionOnSet(f, Caller)
    BY DEF Earmarked, Sum
  <2> HIDE DEF f
  <2> QED
    BY <1>0, <2>1, <2>2, SumTakes
<1>3. ASSUME NEW b
      PROVE  BucketBalance(b) \in Int
  <2> DEFINE f == [c \in Caller |-> (IF moved[c].to = b THEN moved[c].amount ELSE 0)
                                    - (IF moved[c].from = b THEN moved[c].amount ELSE 0)]
  <2>1. \A c \in Caller : f[c] \in Int
    BY <1>1 DEF Move
  <2>2. BucketBalance(b) = SumFunctionOnSet(f, Caller)
    BY DEF BucketBalance, Sum
  <2> HIDE DEF f
  <2> QED
    BY <1>0, <2>1, <2>2, SumTakes
<1> QED
  BY <1>2, <1>3

\* A transfer changes the sums by what it moves.
LEMMA MoneyMoves ==
    ASSUME SavingsTypeOK, NEW c \in Caller, moved[c] = NoTransfer, NEW m \in Move,
           moved' = [moved EXCEPT ![c] = m]
    PROVE  /\ Earmarked' = Earmarked + Earmarks(m)
           /\ \A b : BucketBalance(b)' = BucketBalance(b) + Arrives(m, b)
<1>0. IsFiniteSet(Caller)
  BY SavingsAssumption
<1>1. /\ \A d \in Caller : moved[d] \in Move
      /\ moved'[c] = m /\ \A d \in Caller \ {c} : moved'[d] = moved[d]
  BY DEF SavingsTypeOK, Move
<1>2. m.amount \in Nat /\ moved[c].amount = 0
  BY DEF Move, NoTransfer
<1>3. Earmarked' = Earmarked + Earmarks(m)
  <2> DEFINE f == [d \in Caller |-> IF moved[d].from = Free THEN moved[d].amount
                                    ELSE IF moved[d].to = Free THEN -moved[d].amount ELSE 0]
             g == [d \in Caller |-> IF moved'[d].from = Free THEN moved'[d].amount
                                    ELSE IF moved'[d].to = Free THEN -moved'[d].amount ELSE 0]
  <2>1. f[c] = 0 /\ g[c] = Earmarks(m) /\ Earmarks(m) \in Int
    BY <1>1, <1>2 DEF Earmarks
  <2>2. \A d \in Caller \ {c} : f[d] \in Int /\ g[d] = f[d]
    BY <1>1 DEF Move
  <2>3. Earmarked = SumFunctionOnSet(f, Caller) /\ Earmarked' = SumFunctionOnSet(g, Caller)
    BY DEF Earmarked, Sum
  <2> HIDE DEF f, g
  <2>4. f[c] \in Int /\ g[c] \in Int
    BY <2>1
  <2>5. SumFunctionOnSet(g, Caller) = SumFunctionOnSet(f, Caller) + (g[c] - f[c])
    BY <1>0, <2>2, <2>4, SumChanges
  <2> QED
    BY <2>1, <2>3, <2>5
<1>4. ASSUME NEW b
      PROVE  BucketBalance(b)' = BucketBalance(b) + Arrives(m, b)
  <2> DEFINE f == [d \in Caller |-> (IF moved[d].to = b THEN moved[d].amount ELSE 0)
                                    - (IF moved[d].from = b THEN moved[d].amount ELSE 0)]
             g == [d \in Caller |-> (IF moved'[d].to = b THEN moved'[d].amount ELSE 0)
                                    - (IF moved'[d].from = b THEN moved'[d].amount ELSE 0)]
  <2>1. f[c] = 0 /\ g[c] = Arrives(m, b) /\ Arrives(m, b) \in Int
    BY <1>1, <1>2 DEF Arrives
  <2>2. \A d \in Caller \ {c} : f[d] \in Int /\ g[d] = f[d]
    BY <1>1 DEF Move
  <2>3. BucketBalance(b) = SumFunctionOnSet(f, Caller) /\ BucketBalance(b)' = SumFunctionOnSet(g, Caller)
    BY DEF BucketBalance, Sum
  <2> HIDE DEF f, g
  <2>4. f[c] \in Int /\ g[c] \in Int
    BY <2>1
  <2>5. SumFunctionOnSet(g, Caller) = SumFunctionOnSet(f, Caller) + (g[c] - f[c])
    BY <1>0, <2>2, <2>4, SumChanges
  <2> QED
    BY <2>1, <2>3, <2>5
<1> QED
  BY <1>3, <1>4

LEMMA BucketsHoldEarmarked ==
    ASSUME SavingsTypeOK, Earmarked = InBuckets, NEW c \in Caller, moved[c] = NoTransfer, NEW m \in Move,
           m.from # m.to, moved' = [moved EXCEPT ![c] = m]
    PROVE  Earmarked' = InBuckets'
<1> DEFINE f == [b \in Bucket |-> BucketBalance(b)]
           h == [b \in Bucket |-> f[b] + (IF b = m.to THEN m.amount ELSE 0)]
           g == [b \in Bucket |-> BucketBalance(b)']
<1>1. /\ IsFiniteSet(Bucket) /\ Free \notin Bucket /\ m.amount \in Nat
      /\ m.to \in Bucket \cup {Free} /\ m.from \in Bucket \cup {Free}
  BY SavingsAssumption, FS_AddElement DEF Bucket, Move
<1>2. \A b \in Bucket : f[b] \in Int /\ h[b] = f[b] + (IF b = m.to THEN m.amount ELSE 0)
  BY SumsTyped
<1>3. \A b \in Bucket : h[b] \in Int /\ g[b] = h[b] + (IF b = m.from THEN -m.amount ELSE 0)
  <2>1. \A b \in Bucket : g[b] = f[b] + Arrives(m, b)
    BY MoneyMoves
  <2> HIDE DEF f, g, h
  <2> QED
    BY <1>1, <1>2, <2>1 DEF Arrives
<1>4. Earmarked = SumFunctionOnSet(f, Bucket) /\ InBuckets' = SumFunctionOnSet(g, Bucket)
  BY DEF InBuckets
<1>5. Earmarked' = Earmarked + Earmarks(m) /\ Earmarked \in Int
  BY MoneyMoves, SumsTyped
<1> HIDE DEF f, g, h
<1>6. SumFunctionOnSet(h, Bucket) = SumFunctionOnSet(f, Bucket) + (IF m.to \in Bucket THEN m.amount ELSE 0)
  <2> DEFINE n == m.amount
             at == m.to
  <2>1. IsFiniteSet(Bucket) /\ n \in Int
    BY <1>1
  <2>2. \A b \in Bucket : f[b] \in Int /\ h[b] = f[b] + (IF b = at THEN n ELSE 0)
    BY <1>2
  <2> HIDE DEF n, at
  <2>3. SumFunctionOnSet(h, Bucket) = SumFunctionOnSet(f, Bucket) + (IF at \in Bucket THEN n ELSE 0)
    BY ONLY <2>1, <2>2, SumShifts
  <2> QED
    BY <2>3 DEF n, at
<1>7. SumFunctionOnSet(g, Bucket) = SumFunctionOnSet(h, Bucket) + (IF m.from \in Bucket THEN -m.amount ELSE 0)
  <2> DEFINE n == -m.amount
             at == m.from
  <2>1. IsFiniteSet(Bucket) /\ n \in Int
    BY <1>1
  <2>2. \A b \in Bucket : h[b] \in Int /\ g[b] = h[b] + (IF b = at THEN n ELSE 0)
    BY <1>3
  <2> HIDE DEF n, at
  <2>3. SumFunctionOnSet(g, Bucket) = SumFunctionOnSet(h, Bucket) + (IF at \in Bucket THEN n ELSE 0)
    BY ONLY <2>1, <2>2, SumShifts
  <2> QED
    BY <2>3 DEF n, at
<1>8. Earmarks(m) = (IF m.to \in Bucket THEN m.amount ELSE 0) + (IF m.from \in Bucket THEN -m.amount ELSE 0)
  BY <1>1 DEF Earmarks
<1> QED
  BY <1>1, <1>4, <1>5, <1>6, <1>7, <1>8

LEMMA EarmarkedNatural ==
    ASSUME SavingsInv
    PROVE  Earmarked \in Nat
<1> DEFINE f == [b \in Bucket |-> BucketBalance(b)]
<1>1. \A b \in Bucket : f[b] \in Nat
  BY SumsTyped DEF SavingsInv, SavingsInStep, Solvent
<1>2. Earmarked = SumFunctionOnSet(f, Bucket) /\ IsFiniteSet(Bucket)
  BY SavingsAssumption, FS_AddElement DEF Bucket, SavingsInv, InBuckets
<1> HIDE DEF f
<1> QED
  BY <1>1, <1>2, SumNatural

-----------------------------------------------------------------------------
(* Steps.                                                                  *)

LEMMA AskTyped ==
    ASSUME SavingsTypeOK, NEW c \in Caller, asked[c].op # "none"
    PROVE  asked[c] \in MayAsk[c] /\ asked[c] # Nothing
BY DEF SavingsTypeOK, Nothing

LEMMA SumsStay ==
    ASSUME UNCHANGED moved
    PROVE  /\ Earmarked' = Earmarked /\ InBuckets' = InBuckets /\ Transferred' = Transferred
           /\ \A b : BucketBalance(b)' = BucketBalance(b)
BY DEF Earmarked, BucketBalance, Sum, Transferred, InBuckets

\* What an answer does to the requests.
LEMMA AnswerKeepsTypes ==
    ASSUME SavingsInv, NEW c \in Caller, NEW what \in {"stored", "replayed", "conflict", "refused"},
           reply[c] = NoReply, asked[c].op # "none", Respond(c, what), UNCHANGED asked
    PROVE  /\ reply' \in [Caller -> {"stored", "replayed", "conflict", "refused", NoReply}]
           /\ reply'[c] = what /\ \A d \in Caller \ {c} : reply'[d] = reply[d]
           /\ DOMAIN asked' = Caller /\ \A d \in Caller : asked'[d] \in MayAsk[d] \cup {Nothing}
           /\ \A d \in Caller : asked'[d] = Nothing => reply'[d] = NoReply
           /\ moved[c] = NoTransfer /\ c \notin Transferred
           /\ \A d \in Caller : moved[d] # NoTransfer => /\ reply'[d] = "stored"
                                                         /\ asked'[d].op \in {"transfer", "reverse"}
<1>1. asked[c] # Nothing
  BY AskTyped DEF SavingsInv
<1>2. /\ reply' \in [Caller -> {"stored", "replayed", "conflict", "refused", NoReply}]
      /\ reply'[c] = what /\ \A d \in Caller \ {c} : reply'[d] = reply[d]
  BY DEF SavingsInv, SavingsTypeOK, Respond
<1>3. "stored" # NoReply
  BY SavingsAssumption
<1> QED
  BY <1>1, <1>2, <1>3 DEF SavingsInv, SavingsTypeOK, TransfersStored, Transferred, NoTransfer

\* Money that stays where it is.
LEMMA TransfersStay ==
    ASSUME SavingsInv, UNCHANGED <<moved, asked>>
    PROVE  /\ TransferredOncePerKey' /\ UndoneAtMostOnce'
           /\ \A d \in Transferred' : /\ moved'[d].reverses # NoReply => moved'[d].reverses \in Transferred'
                                     /\ moved'[d].from # moved'[d].to
BY SumsStay DEF SavingsInv, SavingsInStep, TransferredOncePerKey, UndoneAtMostOnce, TransfersStored

LEMMA LookKeeps ==
    ASSUME SavingsInv, NEW c \in Caller, NEW q \in MayAsk[c], Look(c, q)
    PROVE  SavingsInv'
<1>1. /\ asked'[c] = q /\ \A d \in Caller \ {c} : asked'[d] = asked[d]
      /\ DOMAIN asked' = Caller /\ \A d \in Caller : asked'[d] \in MayAsk[d] \cup {Nothing}
  BY DEF SavingsInv, SavingsTypeOK, Look
<1>2. /\ reply' \in [Caller -> {"stored", "replayed", "conflict", "refused", NoReply}]
      /\ \A d \in Caller \ {c} : reply'[d] = reply[d]
  BY DEF SavingsInv, SavingsTypeOK, Look, Replay
<1>3. moved[c] = NoTransfer /\ q # Nothing
  <2>1. q.op # "none"
    BY SavingsAssumption
  <2> QED
    BY <2>1, SavingsAssumption DEF SavingsInv, TransfersStored, Look, Nothing
<1>4. c \notin Transferred
  BY <1>3 DEF Transferred, NoTransfer
<1>5. UNCHANGED <<balance, moved, goals, priority>>
  BY DEF Look
<1>6. SavingsTypeOK'
  BY <1>1, <1>2, <1>5 DEF SavingsInv, SavingsTypeOK
<1>7. TransfersStored'
  BY <1>1, <1>2, <1>3, <1>5, SumsStay DEF SavingsInv, TransfersStored
<1>8. TransferredOncePerKey' /\ UndoneAtMostOnce'
  BY <1>1, <1>4, <1>5, SumsStay DEF SavingsInv, SavingsInStep, TransferredOncePerKey, UndoneAtMostOnce, Transferred
<1>9. InactiveEmpty' /\ Solvent' /\ GoalsWithinPlan' /\ PriorityListsActive' /\ Earmarked' = InBuckets'
  BY <1>5, SumsStay DEF SavingsInv, SavingsInStep, InactiveEmpty, Solvent, GoalsWithinPlan, PriorityListsActive, ActiveGoals
<1> QED
  BY <1>6, <1>7, <1>8, <1>9 DEF SavingsInv, SavingsInStep

\* An answer alone, or a revision of goals and priorities with it: money stays.
LEMMA RevisionKeeps ==
    ASSUME SavingsInv, NEW c \in Caller, NEW what \in {"stored", "replayed", "conflict", "refused"},
           reply[c] = NoReply, asked[c].op # "none", Respond(c, what), UNCHANGED <<balance, moved, asked>>,
           goals' \in [Goal -> [status : GoalStatus, no : Nat, cap : Cap]], priority' \in Seq(Goal),
           \A g \in Goal : /\ goals'[g].status # "ACTIVE" => BucketBalance(g) = 0
                           /\ goals'[g].cap > 0 => BucketBalance(g) <= goals'[g].cap,
           PriorityListsActive'
    PROVE  SavingsInv'
<1>1. SavingsTypeOK'
  BY AnswerKeepsTypes DEF SavingsInv, SavingsTypeOK
<1>2. TransfersStored'
  BY AnswerKeepsTypes, TransfersStay DEF TransfersStored
<1>3. InactiveEmpty' /\ Solvent' /\ GoalsWithinPlan' /\ Earmarked' = InBuckets'
  <2>1. \A g \in Goal : goals'[g].status \in {"COMPLETED", "CANCELLED"} => goals'[g].status # "ACTIVE"
    OBVIOUS
  <2> QED
    BY <2>1, SumsStay DEF SavingsInv, SavingsInStep, InactiveEmpty, Solvent, GoalsWithinPlan
<1> QED
  BY <1>1, <1>2, <1>3, TransfersStay DEF SavingsInv, SavingsInStep

LEMMA AnswerKeeps ==
    ASSUME SavingsInv, NEW c \in Caller, NEW what \in {"stored", "replayed", "conflict", "refused"},
           reply[c] = NoReply, asked[c].op # "none", Respond(c, what),
           UNCHANGED <<balance, moved, asked, goals, priority>>
    PROVE  SavingsInv'
<1>1. /\ goals' \in [Goal -> [status : GoalStatus, no : Nat, cap : Cap]] /\ priority' \in Seq(Goal)
      /\ PriorityListsActive'
      /\ \A g \in Goal : /\ goals'[g].status # "ACTIVE" => BucketBalance(g) = 0
                         /\ goals'[g].cap > 0 => BucketBalance(g) <= goals'[g].cap
  BY DEF SavingsInv, SavingsTypeOK, SavingsInStep, InactiveEmpty, GoalsWithinPlan, PriorityListsActive, ActiveGoals
<1> QED
  BY <1>1, RevisionKeeps

LEMMA TransferKeeps ==
    ASSUME SavingsInv, NEW c \in Caller, NEW m \in Move, m.from # m.to, reply[c] = NoReply,
           asked[c].op \in {"transfer", "reverse"}, Executable(m), Earlier(asked[c]) = {},
           m.reverses # NoReply => Reversible(m.reverses),
           Respond(c, "stored"), moved' = [moved EXCEPT ![c] = m], UNCHANGED <<balance, goals, priority, asked>>
    PROVE  SavingsInv'
<1>1. /\ reply' \in [Caller -> {"stored", "replayed", "conflict", "refused", NoReply}]
      /\ reply'[c] = "stored" /\ \A d \in Caller \ {c} : reply'[d] = reply[d]
      /\ \A d \in Caller : asked'[d] = Nothing => reply'[d] = NoReply
      /\ moved[c] = NoTransfer /\ c \notin Transferred
      /\ DOMAIN asked' = Caller /\ \A d \in Caller : asked'[d] \in MayAsk[d] \cup {Nothing}
  BY AnswerKeepsTypes
<1>2. /\ moved' \in [Caller -> Move] /\ moved'[c] = m /\ \A d \in Caller \ {c} : moved'[d] = moved[d]
  BY DEF SavingsInv, SavingsTypeOK, Move
<1>3. /\ Earmarked' = Earmarked + Earmarks(m)
      /\ \A b : BucketBalance(b)' = BucketBalance(b) + Arrives(m, b)
  BY <1>1, MoneyMoves DEF SavingsInv
<1>4. /\ Earmarked \in Int /\ \A b : BucketBalance(b) \in Int
      /\ m.amount \in Nat /\ balance \in Nat
      /\ m.from \in Bucket \cup {Free} /\ m.to \in Bucket \cup {Free} /\ Free \notin Bucket
  BY SumsTyped, SavingsAssumption DEF SavingsInv, SavingsTypeOK, Move
<1>5. Transferred' \subseteq Transferred \cup {c} /\ Transferred \subseteq Transferred'
  BY <1>1, <1>2 DEF Transferred
<1>6. SavingsTypeOK'
  BY <1>1, <1>2 DEF SavingsInv, SavingsTypeOK, Move
<1>7. TransfersStored'
  <2>1. \A d \in Caller : moved'[d] # NoTransfer => reply'[d] = "stored" /\ asked'[d].op \in {"transfer", "reverse"}
    BY <1>1, <1>2 DEF SavingsInv, TransfersStored
  <2>2. \A d \in Transferred' : /\ moved'[d].reverses # NoReply => moved'[d].reverses \in Transferred'
                               /\ moved'[d].from # moved'[d].to
    BY <1>2, <1>5 DEF SavingsInv, TransfersStored, Reversible, Transferred
  <2> QED
    BY <1>1, <2>1, <2>2 DEF TransfersStored
<1>8. Solvent'
  <2>1. Earmarked + Earmarks(m) <= balance
    BY <1>4 DEF SavingsInv, SavingsInStep, Solvent, Executable, Afforded, Earmarks
  <2>2. \A b \in Bucket : BucketBalance(b) + Arrives(m, b) >= 0
    BY <1>4 DEF SavingsInv, SavingsInStep, Solvent, Executable, Covered, Arrives
  <2> QED
    BY <1>3, <2>1, <2>2 DEF Solvent
<1>9. InactiveEmpty' /\ GoalsWithinPlan'
  <2>1. ASSUME NEW g \in Goal
        PROVE  /\ goals[g].status # "ACTIVE" => BucketBalance(g) + Arrives(m, g) = 0
               /\ goals[g].cap > 0 => BucketBalance(g) + Arrives(m, g) <= goals[g].cap
    <3>1. g \in Bucket /\ g # Free /\ goals[g].cap \in Nat
      BY <1>4 DEF Bucket, SavingsInv, SavingsTypeOK, Cap
    <3>2. /\ goals[g].status # "ACTIVE" => BucketBalance(g) = 0
          /\ goals[g].cap > 0 => BucketBalance(g) <= goals[g].cap
      BY DEF SavingsInv, SavingsInStep, InactiveEmpty, GoalsWithinPlan
    <3>3. CASE m.to = g
      <4>1. goals[g].status = "ACTIVE" /\ (goals[g].cap > 0 => BucketBalance(g) + m.amount <= goals[g].cap)
        BY <3>3 DEF Executable, Accepting
      <4> QED
        BY <1>4, <3>1, <3>3, <4>1 DEF Arrives
    <3>4. CASE m.to # g /\ m.from = g
      <4>1. BucketBalance(g) >= m.amount
        BY <3>1, <3>4 DEF Executable, Covered
      <4> QED
        BY <1>4, <3>1, <3>2, <3>4, <4>1 DEF Arrives
    <3>5. CASE m.to # g /\ m.from # g
      BY <1>4, <3>1, <3>2, <3>5 DEF Arrives
    <3> QED
      BY <3>3, <3>4, <3>5
  <2>2. \A g \in Goal : goals[g].status \in {"COMPLETED", "CANCELLED"} => goals[g].status # "ACTIVE"
    OBVIOUS
  <2> QED
    BY <1>3, <2>1, <2>2 DEF InactiveEmpty, GoalsWithinPlan
<1>10. PriorityListsActive'
  BY DEF SavingsInv, SavingsInStep, PriorityListsActive, ActiveGoals
<1>11. TransferredOncePerKey'
  <2>1. \A d \in Transferred : asked[d].key # asked[c].key
    BY <1>1 DEF SavingsInv, TransfersStored, Transferred, Earlier, Table, NoTransfer
  <2> QED
    BY <1>5, <2>1 DEF SavingsInv, SavingsInStep, TransferredOncePerKey
<1>12. UndoneAtMostOnce'
  <2>1. \A d \in Transferred : moved[d].reverses # NoReply => moved[d].reverses \in Transferred
    BY DEF SavingsInv, TransfersStored
  <2>2. \A d \in Transferred : moved[d].reverses # c
    BY <1>1, <2>1, SavingsAssumption
  <2>3. ASSUME NEW d \in Transferred', moved'[d].reverses # NoReply
        PROVE  /\ moved'[moved'[d].reverses].reverses = NoReply
               /\ \A x \in Transferred' : moved'[x].reverses = moved'[d].reverses => x = d
    <3>1. CASE d = c
      <4>1. Reversible(m.reverses) /\ moved'[d].reverses = m.reverses
        BY <1>2, <2>3, <3>1
      <4>2. m.reverses \in Caller \ {c}
        BY <1>1, <4>1 DEF Reversible, Transferred
      <4> QED
        BY <1>2, <1>5, <3>1, <4>1, <4>2 DEF Reversible, Transferred
    <3>2. CASE d # c
      <4>1. d \in Transferred /\ d \in Caller /\ moved'[d] = moved[d]
        BY <1>2, <1>5, <2>3, <3>2 DEF Transferred
      <4>2. moved[d].reverses \in Transferred /\ moved[d].reverses # c
        BY <2>1, <2>2, <2>3, <4>1
      <4>3. moved'[moved[d].reverses] = moved[moved[d].reverses]
        BY <1>2, <4>2 DEF Transferred
      <4>4. m.reverses # moved[d].reverses
        BY <2>3, <4>1 DEF Reversible
      <4>5. \A x \in Transferred : /\ moved[x].reverses = moved[d].reverses => x = d
                                   /\ moved[moved[d].reverses].reverses = NoReply
        BY <2>3, <4>1 DEF SavingsInv, SavingsInStep, UndoneAtMostOnce
      <4>6. \A x \in Transferred' : x = c \/ (x \in Transferred /\ moved'[x] = moved[x])
        BY <1>2, <1>5 DEF Transferred
      <4> QED
        BY <1>2, <4>1, <4>2, <4>3, <4>4, <4>5, <4>6
    <3> QED
      BY <3>1, <3>2
  <2> QED
    BY <2>3 DEF UndoneAtMostOnce
<1>13. Earmarked' = InBuckets'
  BY <1>1, BucketsHoldEarmarked DEF SavingsInv
<1> QED
  BY <1>6, <1>7, <1>8, <1>9, <1>10, <1>11, <1>12, <1>13 DEF SavingsInv, SavingsInStep

LEMMA StoreKeeps ==
    ASSUME SavingsInv, NEW c \in Caller, NEW m \in Move, m.from # m.to, reply[c] = NoReply,
           asked[c].op \in {"transfer", "reverse"}, m.reverses # NoReply => Reversible(m.reverses), Store(c, m)
    PROVE  SavingsInv'
<1>1. asked[c].op # "none" /\ Replay(asked[c]) \in {"stored", "replayed", "conflict", "refused"}
  BY DEF Replay
<1>2. CASE ~Executable(m)
  BY <1>1, <1>2, AnswerKeeps DEF Store
<1>3. CASE Executable(m) /\ Earlier(asked[c]) # {}
  BY <1>1, <1>3, AnswerKeeps DEF Store
<1>4. CASE Executable(m) /\ Earlier(asked[c]) = {}
  BY <1>4, TransferKeeps DEF Store
<1> QED
  BY <1>2, <1>3, <1>4

LEMMA MovesKeep ==
    ASSUME SavingsInv, NEW c \in Caller, Transfer(c) \/ ReverseTransfer(c)
    PROVE  SavingsInv'
<1>1. CASE Transfer(c)
  <2> DEFINE m == [from |-> asked[c].from, to |-> asked[c].to, amount |-> asked[c].amount, reverses |-> NoReply]
  <2>1. asked[c].op = "transfer" /\ reply[c] = NoReply /\ Store(c, m)
    BY <1>1 DEF Transfer, Asks
  <2>2. asked[c] \in MayAsk[c]
    BY <2>1, AskTyped DEF SavingsInv
  <2>3. m \in Move /\ m.from # m.to /\ m.reverses = NoReply
    BY <2>1, <2>2, SavingsAssumption DEF Move
  <2> HIDE DEF m
  <2> QED
    BY <2>1, <2>3, StoreKeeps
<1>2. CASE ReverseTransfer(c)
  <2> DEFINE t == asked[c].target
             m == [from |-> moved[t].to, to |-> moved[t].from, amount |-> moved[t].amount, reverses |-> t]
  <2>1. asked[c].op = "reverse" /\ reply[c] = NoReply
    BY <1>2 DEF ReverseTransfer, Asks
  <2>2. CASE Reversible(t)
    <3>1. Store(c, m) /\ m.reverses = t
      BY <1>2, <2>2 DEF ReverseTransfer
    <3>2. m \in Move /\ m.from # m.to
      BY <2>2 DEF SavingsInv, SavingsTypeOK, TransfersStored, Move, Reversible, Transferred
    <3> HIDE DEF m
    <3> QED
      BY <2>1, <2>2, <3>1, <3>2, StoreKeeps
  <2>3. CASE ~Reversible(t)
    <3>1. Respond(c, "refused") /\ UNCHANGED <<balance, moved, goals, priority, asked>>
      BY <1>2, <2>3 DEF ReverseTransfer
    <3> QED
      BY <2>1, <3>1, AnswerKeeps
  <2> QED
    BY <2>2, <2>3
<1> QED
  BY <1>1, <1>2

\* A handler that finds its key or refuses changes nothing but the answer.
LEMMA HandledOtherwise ==
    ASSUME SavingsInv, NEW c \in Caller, reply[c] = NoReply, asked[c].op # "none",
           Respond(c, Replay(asked[c])) \/ Respond(c, "refused"), UNCHANGED <<goals, priority, balance, moved, asked>>
    PROVE  SavingsInv'
<1>1. Replay(asked[c]) \in {"stored", "replayed", "conflict", "refused"}
  BY DEF Replay
<1> QED
  BY <1>1, AnswerKeeps

\* What a revision does to the goals.
LEMMA Revised ==
    ASSUME SavingsInv, NEW g \in Goal, NEW status \in GoalStatus, NEW cap \in Cap, Revise(g, status, cap)
    PROVE  /\ goals' \in [Goal -> [status : GoalStatus, no : Nat, cap : Cap]]
           /\ goals'[g].status = status /\ goals'[g].cap = cap /\ \A h \in Goal \ {g} : goals'[h] = goals[h]
           /\ ActiveGoals' = IF status = "ACTIVE" THEN ActiveGoals \cup {g} ELSE ActiveGoals \ {g}
<1>1. /\ goals' \in [Goal -> [status : GoalStatus, no : Nat, cap : Cap]]
      /\ goals'[g].status = status /\ goals'[g].cap = cap /\ \A h \in Goal \ {g} : goals'[h] = goals[h]
  BY DEF SavingsInv, SavingsTypeOK, Revise
<1> QED
  BY <1>1 DEF ActiveGoals

LEMMA CreateKeeps ==
    ASSUME SavingsInv, NEW c \in Caller, CreateGoal(c)
    PROVE  SavingsInv'
<1> DEFINE g == asked[c].goal
<1>1. asked[c].op = "create" /\ reply[c] = NoReply /\ UNCHANGED <<balance, moved, asked>>
  BY DEF CreateGoal, Handle, Asks
<1>2. CASE ~(/\ Earlier(asked[c]) = {}
             /\ asked[c].position <= Len(priority) + 1 /\ goals[g].status = "none")
  BY <1>1, <1>2, HandledOtherwise DEF CreateGoal, Handle
<1>3. CASE /\ Earlier(asked[c]) = {}
           /\ asked[c].position <= Len(priority) + 1 /\ goals[g].status = "none"
  <2>1. /\ Respond(c, "stored") /\ Revise(g, "ACTIVE", asked[c].cap)
        /\ priority' = InsertAt(priority, asked[c].position, g)
    BY <1>3 DEF CreateGoal, Handle
  <2>2. g \in Goal /\ asked[c].cap \in Cap /\ asked[c].position \in Nat \ {0}
    BY <1>1, AskTyped, SavingsAssumption DEF SavingsInv
  <2>3. "ACTIVE" \in GoalStatus
    BY DEF GoalStatus
  <2> HIDE DEF g
  <2>4. /\ goals' \in [Goal -> [status : GoalStatus, no : Nat, cap : Cap]]
        /\ goals'[g].status = "ACTIVE" /\ goals'[g].cap = asked[c].cap /\ \A h \in Goal \ {g} : goals'[h] = goals[h]
        /\ ActiveGoals' = ActiveGoals \cup {g}
    BY <2>1, <2>2, <2>3, Revised
  <2>5. priority' \in Seq(Goal) /\ PriorityListsActive'
    <3>1. priority \in Seq(Goal) /\ IsInjective(priority) /\ ToSet(priority) = ActiveGoals /\ g \notin ToSet(priority)
      BY <1>3 DEF SavingsInv, SavingsTypeOK, SavingsInStep, PriorityListsActive, ActiveGoals
    <3>2. asked[c].position \in 1..(Len(priority) + 1)
      BY <1>3, <2>2, <3>1, LenProperties
    <3> QED
      BY <2>1, <2>2, <2>4, <3>1, <3>2, InsertKeepsOrder DEF PriorityListsActive
  <2>6. \A h \in Goal : /\ goals'[h].status # "ACTIVE" => BucketBalance(h) = 0
                        /\ goals'[h].cap > 0 => BucketBalance(h) <= goals'[h].cap
    <3>1. BucketBalance(g) = 0
      BY <1>3, <2>2 DEF SavingsInv, InactiveEmpty
    <3>2. asked[c].cap > 0 => 0 <= asked[c].cap
      BY <2>2 DEF Cap
    <3> QED
      BY <2>4, <3>1, <3>2 DEF SavingsInv, SavingsInStep, InactiveEmpty, GoalsWithinPlan
  <2> QED
    BY <1>1, <2>1, <2>4, <2>5, <2>6, RevisionKeeps
<1> QED
  BY <1>2, <1>3

LEMMA UpdateKeeps ==
    ASSUME SavingsInv, NEW c \in Caller, UpdateGoal(c)
    PROVE  SavingsInv'
<1> DEFINE g == asked[c].goal
<1>1. asked[c].op = "update" /\ reply[c] = NoReply /\ UNCHANGED <<balance, moved, asked>>
  BY DEF UpdateGoal, Handle, Asks
<1>2. CASE ~(Earlier(asked[c]) = {} /\ Latest(c) /\ WithinCap(g, asked[c].cap))
  BY <1>1, <1>2, HandledOtherwise DEF UpdateGoal, Handle
<1>3. CASE Earlier(asked[c]) = {} /\ Latest(c) /\ WithinCap(g, asked[c].cap)
  <2>1. Respond(c, "stored") /\ Revise(g, "ACTIVE", asked[c].cap) /\ UNCHANGED priority /\ goals[g].status = "ACTIVE"
    BY <1>3 DEF UpdateGoal, Handle, Latest
  <2>2. g \in Goal /\ asked[c].cap \in Cap /\ "ACTIVE" \in GoalStatus
    BY <1>1, AskTyped, SavingsAssumption DEF SavingsInv, GoalStatus
  <2> HIDE DEF g
  <2>3. /\ goals' \in [Goal -> [status : GoalStatus, no : Nat, cap : Cap]]
        /\ goals'[g].status = "ACTIVE" /\ goals'[g].cap = asked[c].cap /\ \A h \in Goal \ {g} : goals'[h] = goals[h]
        /\ ActiveGoals' = ActiveGoals \cup {g}
    BY <2>1, <2>2, Revised
  <2>4. ActiveGoals' = ActiveGoals
    BY <2>1, <2>2, <2>3 DEF ActiveGoals
  <2>5. priority' \in Seq(Goal) /\ PriorityListsActive'
    BY <2>1, <2>4 DEF SavingsInv, SavingsTypeOK, SavingsInStep, PriorityListsActive
  <2>6. \A h \in Goal : /\ goals'[h].status # "ACTIVE" => BucketBalance(h) = 0
                        /\ goals'[h].cap > 0 => BucketBalance(h) <= goals'[h].cap
    BY <1>3, <2>3 DEF WithinCap, SavingsInv, SavingsInStep, InactiveEmpty, GoalsWithinPlan
  <2> QED
    BY <1>1, <2>1, <2>3, <2>5, <2>6, RevisionKeeps
<1> QED
  BY <1>2, <1>3

LEMMA FinishKeeps ==
    ASSUME SavingsInv, NEW c \in Caller, FinishGoal(c)
    PROVE  SavingsInv'
<1> DEFINE g == asked[c].goal
<1>1. asked[c].op = "finish" /\ reply[c] = NoReply /\ UNCHANGED <<balance, moved, asked>>
  BY DEF FinishGoal, Handle, Asks
<1>2. CASE ~(Earlier(asked[c]) = {} /\ Latest(c) /\ Emptied(g))
  BY <1>1, <1>2, HandledOtherwise DEF FinishGoal, Handle
<1>3. CASE Earlier(asked[c]) = {} /\ Latest(c) /\ Emptied(g)
  <2>1. /\ Respond(c, "stored") /\ Revise(g, asked[c].status, goals[g].cap) /\ priority' = Without(priority, g)
        /\ goals[g].status = "ACTIVE" /\ BucketBalance(g) = 0
    BY <1>3 DEF FinishGoal, Handle, Latest, Emptied
  <2>2. g \in Goal /\ asked[c].status \in {"COMPLETED", "CANCELLED"}
    BY <1>1, AskTyped, SavingsAssumption DEF SavingsInv
  <2>3. goals[g].cap \in Cap /\ asked[c].status \in GoalStatus /\ asked[c].status # "ACTIVE"
    BY <2>2 DEF SavingsInv, SavingsTypeOK, GoalStatus
  <2> HIDE DEF g
  <2>4. /\ goals' \in [Goal -> [status : GoalStatus, no : Nat, cap : Cap]]
        /\ goals'[g].cap = goals[g].cap /\ \A h \in Goal \ {g} : goals'[h] = goals[h]
        /\ ActiveGoals' = ActiveGoals \ {g}
    BY <2>1, <2>2, <2>3, Revised
  <2>5. priority' \in Seq(Goal) /\ PriorityListsActive'
    <3>1. priority \in Seq(Goal) /\ IsInjective(priority) /\ ToSet(priority) = ActiveGoals /\ g \in ToSet(priority)
      BY <2>1, <2>2 DEF SavingsInv, SavingsTypeOK, SavingsInStep, PriorityListsActive, ActiveGoals
    <3> QED
      BY <2>1, <2>4, <3>1, WithoutKeepsOrder DEF PriorityListsActive
  <2>6. \A h \in Goal : /\ goals'[h].status # "ACTIVE" => BucketBalance(h) = 0
                        /\ goals'[h].cap > 0 => BucketBalance(h) <= goals'[h].cap
    BY <2>1, <2>4 DEF SavingsInv, SavingsInStep, InactiveEmpty, GoalsWithinPlan
  <2> QED
    BY <1>1, <2>1, <2>4, <2>5, <2>6, RevisionKeeps
<1> QED
  BY <1>2, <1>3

LEMMA ReorderKeeps ==
    ASSUME SavingsInv, NEW c \in Caller, ReorderGoals(c)
    PROVE  SavingsInv'
<1>1. asked[c].op = "reorder" /\ reply[c] = NoReply /\ UNCHANGED <<balance, moved, asked>>
  BY DEF ReorderGoals, Handle, Asks
<1>2. CASE ~(Earlier(asked[c]) = {} /\ Reorders(asked[c].order))
  BY <1>1, <1>2, HandledOtherwise DEF ReorderGoals, Handle
<1>3. CASE Earlier(asked[c]) = {} /\ Reorders(asked[c].order)
  <2>1. /\ Respond(c, "stored") /\ priority' = asked[c].order /\ UNCHANGED goals
        /\ ToSet(asked[c].order) = ActiveGoals /\ Len(asked[c].order) = Cardinality(ActiveGoals)
    BY <1>3 DEF ReorderGoals, Handle, Reorders
  <2>2. asked[c].order \in Seq(Goal)
    BY <1>1, AskTyped, SavingsAssumption DEF SavingsInv
  <2>3. IsInjective(asked[c].order)
    BY <2>1, <2>2, AsLongAsItsElements
  <2>4. priority' \in Seq(Goal) /\ PriorityListsActive'
    BY <2>1, <2>2, <2>3 DEF PriorityListsActive, ActiveGoals
  <2>5. /\ goals' \in [Goal -> [status : GoalStatus, no : Nat, cap : Cap]]
        /\ \A h \in Goal : /\ goals'[h].status # "ACTIVE" => BucketBalance(h) = 0
                           /\ goals'[h].cap > 0 => BucketBalance(h) <= goals'[h].cap
    BY <2>1 DEF SavingsInv, SavingsTypeOK, SavingsInStep, InactiveEmpty, GoalsWithinPlan
  <2> QED
    BY <1>1, <2>1, <2>4, <2>5, RevisionKeeps
<1> QED
  BY <1>2, <1>3

LEMMA PostKeeps ==
    ASSUME SavingsInv, NEW amount \in JournalAmount, PostOnMidas(amount)
    PROVE  SavingsInv'
<1>1. UNCHANGED <<moved, goals, priority, asked, reply>> /\ balance' = balance + amount
  BY DEF PostOnMidas
<1>2. balance' \in 0..MaxBalance /\ Earmarked <= balance'
  <2>1. Earmarked \in Nat /\ amount \in Int /\ MaxBalance \in Nat
    BY EarmarkedNatural, SavingsAssumption
  <2>2. balance \in Int /\ balance + amount <= MaxBalance /\ balance + amount >= Earmarked
    BY SavingsAssumption DEF PostOnMidas, Solvable, SavingsInv, SavingsTypeOK
  <2> QED
    BY <1>1, <2>1, <2>2
<1>3. SavingsTypeOK' /\ Solvent'
  BY <1>1, <1>2, SumsStay DEF SavingsInv, SavingsTypeOK, SavingsInStep, Solvent
<1>4. TransfersStored' /\ InactiveEmpty' /\ Earmarked' = InBuckets' /\ GoalsWithinPlan' /\ PriorityListsActive'
  BY <1>1, SumsStay DEF SavingsInv, TransfersStored, SavingsInStep, InactiveEmpty, GoalsWithinPlan,
                        PriorityListsActive, ActiveGoals
<1> QED
  BY <1>1, <1>3, <1>4, TransfersStay DEF SavingsInv, SavingsInStep

-----------------------------------------------------------------------------
(* The theorems.                                                           *)

LEMMA SavingsStarts == SavingsInit => SavingsInv
<1> SUFFICES ASSUME SavingsInit PROVE SavingsInv
  OBVIOUS
<1>1. /\ balance = MaxBalance /\ moved = [c \in Caller |-> NoTransfer] /\ priority = Existing
      /\ asked = [c \in Caller |-> Nothing] /\ reply = [c \in Caller |-> NoReply]
      /\ goals = [g \in Goal |-> IF g \in ToSet(Existing) THEN [status |-> "ACTIVE", no |-> 1, cap |-> 0]
                                 ELSE [status |-> "none", no |-> 0, cap |-> 0]]
  BY DEF SavingsInit
<1>2. SavingsTypeOK
  BY <1>1, SavingsAssumption DEF SavingsTypeOK, NoTransfer, GoalStatus, Cap
<1>3. Earmarked = 0
  <2> DEFINE f == [c \in Caller |-> IF moved[c].from = Free THEN moved[c].amount
                                    ELSE IF moved[c].to = Free THEN -moved[c].amount ELSE 0]
  <2>1. (\A c \in Caller : f[c] = 0) /\ IsFiniteSet(Caller)
    BY <1>1, SavingsAssumption DEF NoTransfer
  <2>2. Earmarked = SumFunctionOnSet(f, Caller)
    BY DEF Earmarked, Sum
  <2> HIDE DEF f
  <2> QED
    BY <2>1, <2>2, SumZero
<1>4. ASSUME NEW b
      PROVE  BucketBalance(b) = 0
  <2> DEFINE f == [c \in Caller |-> (IF moved[c].to = b THEN moved[c].amount ELSE 0)
                                    - (IF moved[c].from = b THEN moved[c].amount ELSE 0)]
  <2>1. (\A c \in Caller : f[c] = 0) /\ IsFiniteSet(Caller)
    BY <1>1, SavingsAssumption DEF NoTransfer
  <2>2. BucketBalance(b) = SumFunctionOnSet(f, Caller)
    BY DEF BucketBalance, Sum
  <2> HIDE DEF f
  <2> QED
    BY <2>1, <2>2, SumZero
<1>5. InBuckets = 0
  <2> DEFINE f == [b \in Bucket |-> BucketBalance(b)]
  <2>1. (\A b \in Bucket : f[b] = 0) /\ IsFiniteSet(Bucket)
    BY <1>4, SavingsAssumption, FS_AddElement DEF Bucket
  <2>2. InBuckets = SumFunctionOnSet(f, Bucket)
    BY DEF InBuckets
  <2> HIDE DEF f
  <2> QED
    BY <2>1, <2>2, SumZero
<1>6. Transferred = {}
  BY <1>1 DEF Transferred, NoTransfer
<1>7. TransfersStored /\ InactiveEmpty /\ UndoneAtMostOnce /\ TransferredOncePerKey
  BY <1>1, <1>4, <1>6 DEF TransfersStored, InactiveEmpty, UndoneAtMostOnce, TransferredOncePerKey
<1>8. Solvent /\ GoalsWithinPlan
  BY <1>1, <1>3, <1>4, SavingsAssumption DEF Solvent, GoalsWithinPlan
<1>9. PriorityListsActive
  <2>1. ToSet(Existing) \subseteq Goal
    BY SavingsAssumption, ElementOfSeq, LenProperties DEF ToSet
  <2>2. ActiveGoals = ToSet(Existing)
    BY <1>1, <2>1 DEF ActiveGoals
  <2> QED
    BY <1>1, <2>2, SavingsAssumption DEF PriorityListsActive
<1> QED
  BY <1>2, <1>3, <1>5, <1>7, <1>8, <1>9 DEF SavingsInv, SavingsInStep

LEMMA SavingsKept == SavingsInv /\ [SavingsNext]_savingsVars => SavingsInv'
<1> SUFFICES ASSUME SavingsInv, [SavingsNext]_savingsVars PROVE SavingsInv'
  OBVIOUS
<1>1. ASSUME NEW c \in Caller, NEW q \in MayAsk[c], Look(c, q)
      PROVE  SavingsInv'
  BY <1>1, LookKeeps
<1>2. ASSUME NEW c \in Caller, Transfer(c) \/ ReverseTransfer(c)
      PROVE  SavingsInv'
  BY <1>2, MovesKeep
<1>3. ASSUME NEW c \in Caller, CreateGoal(c) \/ UpdateGoal(c) \/ FinishGoal(c) \/ ReorderGoals(c)
      PROVE  SavingsInv'
  BY <1>3, CreateKeeps, UpdateKeeps, FinishKeeps, ReorderKeeps
<1>4. ASSUME NEW amount \in JournalAmount, PostOnMidas(amount)
      PROVE  SavingsInv'
  BY <1>4, PostKeeps
<1>5. CASE UNCHANGED savingsVars
  BY <1>5, SumsStay, TransfersStay DEF savingsVars, SavingsInv, SavingsInStep, SavingsTypeOK, TransfersStored, InactiveEmpty,
                                    Solvent, GoalsWithinPlan, PriorityListsActive, ActiveGoals
<1> QED
  BY <1>1, <1>2, <1>3, <1>4, <1>5 DEF SavingsNext

\* Whatever the user's clients send, in whatever order, and whatever the
\* journal posts: buckets, goals, their order and the account stay in step.
THEOREM SavingsKeepInStep == SavingsSpec => []SavingsInStep
<1>1. SavingsInv => SavingsInStep
  BY DEF SavingsInv
<1> QED
  BY SavingsStarts, SavingsKept, <1>1, PTL DEF SavingsSpec

\* The types: the balance of the ledger account stays within its bound and
\* does not go below zero, and the priority order is a sequence of goals.
THEOREM SavingsTypeCorrect == SavingsSpec => []SavingsTypeOK
<1>1. SavingsInv => SavingsTypeOK
  BY DEF SavingsInv
<1> QED
  BY SavingsStarts, SavingsKept, <1>1, PTL DEF SavingsSpec

-----------------------------------------------------------------------------
(***************************************************************************)
(* PersonSettlements, for any obligations and payments. What an            *)
(* obligation has had settled is a sum over the requests, of which a step  *)
(* changes one summand. A settlement of all receivables pays them in       *)
(* their order: the cash left for the one at a place is the sum minus      *)
(* what those before it are owed, and by induction along that order        *)
(* (IntervalInduction) what is taken up to a place is the smaller of the   *)
(* cash and what is owed up to it (TakenUpTo). Hence the whole sum is      *)
(* stored (CollectedWhole), and what is left beyond the last one is        *)
(* booked as excess only when nothing stays owed (ExcessIsLast).           *)
(***************************************************************************)

\* Only a stored request has settlements.
SettlementsStored ==
    \A c \in Party : /\ verdict[c] # "stored" => settlement[c] = [o \in Obligation |-> NoSettlement]
                     /\ petition[c] = NoPetition => verdict[c] = NoOne

PeopleInv == PeopleTypeOK /\ SettlementsStored /\ DebtsAddUp

-----------------------------------------------------------------------------
(* Obligations and the sums over them.                                     *)

LEMMA ObligationsFinite == IsFiniteSet(Obligation) /\ IsFiniteSet(ToSet(Receivables)) /\ IsFiniteSet(Party)
<1> DEFINE n == Len(Receivables)
<1>1. Receivables \in Seq(ToSet(Receivables)) /\ n \in Nat /\ DOMAIN Receivables = 1..n
  BY SettlementAssumption, LenProperties
<1>2. Receivables \in [1..n -> ToSet(Receivables)]
  BY <1>1, LenProperties
<1>3. Receivables \in Surjection(1..n, ToSet(Receivables))
  BY <1>1, <1>2 DEF Surjection, ToSet
<1>4. IsFiniteSet(1..n)
  BY <1>1, FS_Interval
<1>5. IsFiniteSet(ToSet(Receivables))
  BY <1>3, <1>4, FS_Surjection
<1> QED
  BY <1>5, SettlementAssumption, FS_Union DEF Obligation

LEMMA ObligationTyped ==
    ASSUME PeopleTypeOK, NEW o \in Obligation
    PROVE  /\ obligation[o].no \in Nat /\ obligation[o].amount \in Nat /\ obligation[o].void \in BOOLEAN
           /\ \A c \in Party : /\ settlement[c][o].applied \in Nat /\ settlement[c][o].excess \in Nat
                               /\ settlement[c][o].via \in {"cash", "midas"} /\ settlement[c][o].live \in BOOLEAN
BY DEF PeopleTypeOK

LEMMA AppliedTyped ==
    ASSUME PeopleTypeOK, NEW o \in Obligation
    PROVE  Applied(o) \in Nat
<1> DEFINE f == [c \in Party |-> IF settlement[c][o].live THEN settlement[c][o].applied ELSE 0]
<1>1. IsFiniteSet(Party) /\ \A c \in Party : f[c] \in Nat
  BY ObligationsFinite, ObligationTyped
<1>2. Applied(o) = SumFunctionOnSet(f, Party)
  BY DEF Applied
<1> HIDE DEF f
<1> QED
  BY <1>1, <1>2, SumNatural

\* What is still owed is never negative, and a sum of it bounds each of its
\* parts.
LEMMA OwedTyped ==
    ASSUME PeopleTypeOK, NeverOversettled
    PROVE  \A o \in Obligation : /\ StillOwed(o) \in Nat
                                 /\ StillOwed(o) = (IF Open(o) THEN obligation[o].amount ELSE 0) - Applied(o)
<1> SUFFICES ASSUME NEW o \in Obligation
             PROVE  /\ StillOwed(o) \in Nat
                    /\ StillOwed(o) = (IF Open(o) THEN obligation[o].amount ELSE 0) - Applied(o)
  OBVIOUS
<1>1. Applied(o) \in Nat /\ obligation[o].amount \in Nat
  BY AppliedTyped, ObligationTyped
<1> QED
  BY <1>1 DEF NeverOversettled, StillOwed

LEMMA OwedSums ==
    ASSUME PeopleTypeOK, NeverOversettled, NEW S \in SUBSET Obligation
    PROVE  /\ IsFiniteSet(S) /\ SumOver(S) \in Nat
           /\ \A o \in S : StillOwed(o) <= SumOver(S) /\ SumOver(S) = StillOwed(o) + SumOver(S \ {o})
           /\ \A T \in SUBSET S : SumOver(T) <= SumOver(S) /\ SumOver(T) \in Nat
<1> DEFINE owed == [o \in Obligation |-> StillOwed(o)]
<1>1. \A o \in Obligation : owed[o] \in Nat /\ owed[o] = StillOwed(o)
  BY OwedTyped
<1>2. \A T \in SUBSET Obligation : IsFiniteSet(T)
  BY ObligationsFinite, FS_Subset
<1>3. \A T \in SUBSET Obligation : SumOver(T) = SumFunctionOnSet(owed, T)
  BY DEF SumOver
<1> HIDE DEF owed
<1>4. ASSUME NEW T \in SUBSET Obligation
      PROVE  /\ SumFunctionOnSet(owed, T) \in Nat
             /\ \A o \in T : owed[o] <= SumFunctionOnSet(owed, T)
             /\ \A o \in T : SumFunctionOnSet(owed, T) = owed[o] + SumFunctionOnSet(owed, T \ {o})
  <2>1. IsFiniteSet(T) /\ \A o \in T : owed[o] \in Nat /\ owed[o] \in Int
    BY <1>1, <1>2
  <2> QED
    BY <2>1, SumNatural, SumTakes
<1>5. ASSUME NEW T \in SUBSET S
      PROVE  SumFunctionOnSet(owed, T) <= SumFunctionOnSet(owed, S)
  <2>1. IsFiniteSet(S) /\ \A o \in S : owed[o] \in Int
    BY <1>1, <1>2
  <2>2. SumFunctionOnSet(owed, S) = SumFunctionOnSet(owed, T) + SumFunctionOnSet(owed, S \ T)
    BY <2>1, SumSplits
  <2>3. SumFunctionOnSet(owed, S \ T) \in Nat /\ SumFunctionOnSet(owed, T) \in Nat
    BY <1>4
  <2> QED
    BY <2>2, <2>3
<1>6. \A o \in S : S \ {o} \in SUBSET Obligation
  OBVIOUS
<1> QED
  BY <1>1, <1>2, <1>3, <1>4, <1>5, <1>6

\* The settlements of one request change, and with them what is applied.
LEMMA AppliedChanges ==
    ASSUME PeopleTypeOK, NEW c \in Party, \A d \in Party \ {c} : settlement'[d] = settlement[d],
           NEW o \in Obligation, settlement'[c][o].applied \in Nat
    PROVE  Applied(o)' = Applied(o) - (IF settlement[c][o].live THEN settlement[c][o].applied ELSE 0)
                                    + (IF settlement'[c][o].live THEN settlement'[c][o].applied ELSE 0)
<1> DEFINE f == [d \in Party |-> IF settlement[d][o].live THEN settlement[d][o].applied ELSE 0]
           g == [d \in Party |-> IF settlement'[d][o].live THEN settlement'[d][o].applied ELSE 0]
           old == IF settlement[c][o].live THEN settlement[c][o].applied ELSE 0
           new == IF settlement'[c][o].live THEN settlement'[c][o].applied ELSE 0
<1>1. f[c] = old /\ g[c] = new
  OBVIOUS
<1>2. old \in Nat /\ new \in Nat
  BY ObligationTyped
<1>3. \A d \in Party \ {c} : f[d] \in Int /\ g[d] = f[d]
  BY ObligationTyped
<1>4. Applied(o) = SumFunctionOnSet(f, Party) /\ Applied(o)' = SumFunctionOnSet(g, Party)
  BY DEF Applied
<1>5. IsFiniteSet(Party)
  BY ObligationsFinite
<1> HIDE DEF f, g, old, new
<1>6. f[c] \in Int
  BY <1>1, <1>2
<1>7. g[c] \in Int
  BY <1>1, <1>2
<1>8. SumFunctionOnSet(g, Party) = SumFunctionOnSet(f, Party) + (g[c] - f[c])
  BY ONLY <1>3, <1>5, <1>6, <1>7, SumChanges
<1>9. Applied(o) \in Nat
  BY AppliedTyped
<1>10. Applied(o)' = Applied(o) - old + new
  BY <1>1, <1>2, <1>4, <1>8, <1>9
<1> QED
  BY <1>10 DEF old, new

-----------------------------------------------------------------------------
(* How a settlement of all receivables distributes the cash.               *)

Takes(o, cash) == IF o \in Unpaid /\ CashLeft(o, cash) > 0 THEN CashFor(o, cash) ELSE 0
UpTo(k) == {o \in Unpaid : Place(o) <= k}

LEMMA Places ==
    /\ \A o \in ToSet(Receivables) : Place(o) \in 1..Len(Receivables)
    /\ \A o, p \in ToSet(Receivables) : Place(o) = Place(p) => o = p
    /\ Len(Receivables) \in Nat /\ ToSet(Receivables) \in SUBSET Obligation
<1>1. Receivables \in Seq(ToSet(Receivables))
  BY SettlementAssumption
<1>2. Len(Receivables) \in Nat /\ DOMAIN Receivables = 1..Len(Receivables)
  BY <1>1, LenProperties
<1>3. \A o \in ToSet(Receivables) : Place(o) \in DOMAIN Receivables /\ Receivables[Place(o)] = o
  BY DEF Place, ToSet
<1> QED
  BY <1>2, <1>3 DEF Obligation

\* Of the receivables that are still owed one comes last.
LEMMA OneIsLast ==
    ASSUME Unpaid # {}
    PROVE  \E o \in Unpaid : IsLast(o)
<1> DEFINE n == Len(Receivables)
           G == {k \in 0..n : UpTo(k) = {} \/ \E o \in UpTo(k) : \A p \in UpTo(k) : Place(p) <= Place(o)}
<1>1. n \in Nat /\ \A o \in Unpaid : Place(o) \in 1..n
  BY Places DEF Unpaid
<1>2. 0 \in G
  BY <1>1 DEF UpTo
<1>3. ASSUME NEW k \in 0..(n - 1), k \in G
      PROVE  k + 1 \in G
  <2>1. k \in Nat /\ k + 1 \in 0..n /\ \A o \in Unpaid : Place(o) <= k + 1 <=> Place(o) <= k \/ Place(o) = k + 1
    BY <1>1
  <2>2. CASE \E o \in Unpaid : Place(o) = k + 1
    BY <2>1, <2>2 DEF UpTo
  <2>3. CASE ~\E o \in Unpaid : Place(o) = k + 1
    BY <1>3, <2>1, <2>3 DEF UpTo
  <2> QED
    BY <2>2, <2>3
<1> HIDE DEF G
<1>4. n \in G
  <2>1. \A k \in 0..n : k \in G
    BY <1>1, <1>2, <1>3, IntervalInduction
  <2> QED
    BY <1>1, <2>1
<1>5. UpTo(n) = Unpaid
  BY <1>1 DEF UpTo
<1> QED
  BY <1>4, <1>5 DEF G, IsLast

\* Up to any place the receivables have taken what they are owed, or all the
\* cash there is; the last of them takes what is left.
LEMMA TakenUpTo ==
    ASSUME PeopleTypeOK, NeverOversettled, NEW cash \in Nat
    PROVE  \A k \in 0..Len(Receivables) :
             SumFunctionOnSet([o \in Obligation |-> Takes(o, cash)], UpTo(k))
               = IF \E o \in UpTo(k) : IsLast(o) THEN cash ELSE SmallerOf(cash, SumOver(UpTo(k)))
<1> DEFINE n == Len(Receivables)
           take == [o \in Obligation |-> Takes(o, cash)]
           taken(k) == SumFunctionOnSet(take, UpTo(k))
           G == {k \in 0..n : taken(k) = IF \E o \in UpTo(k) : IsLast(o) THEN cash ELSE SmallerOf(cash, SumOver(UpTo(k)))}
<1>1. /\ n \in Nat /\ Unpaid \in SUBSET Obligation
      /\ \A o \in Unpaid : Place(o) \in 1..n /\ StillOwed(o) \in Nat /\ StillOwed(o) > 0
      /\ \A o, p \in Unpaid : Place(o) = Place(p) => o = p
  BY Places, OwedTyped DEF Unpaid
<1>2. \A T \in SUBSET Obligation : IsFiniteSet(T) /\ SumOver(T) \in Nat
  BY OwedSums
<1>3. \A o \in Unpaid : Ahead(o) \in SUBSET Obligation /\ CashLeft(o, cash) = cash - SumOver(Ahead(o))
  BY <1>1 DEF Ahead, CashLeft
<1>4. \A o \in Obligation : take[o] = Takes(o, cash)
  OBVIOUS
<1>5. \A o \in Obligation : take[o] \in Int
  <2> SUFFICES ASSUME NEW o \in Obligation, o \in Unpaid PROVE Takes(o, cash) \in Int
    BY DEF Takes
  <2>1. SumOver(Ahead(o)) \in Nat /\ StillOwed(o) \in Nat
    BY <1>1, <1>2, <1>3
  <2>2. CashLeft(o, cash) \in Int
    BY <1>3, <2>1
  <2> QED
    BY <2>1, <2>2 DEF Takes, CashFor, SmallerOf
<1> HIDE DEF take
<1>6. \A k \in 0..n : UpTo(k) \in SUBSET Obligation /\ IsFiniteSet(UpTo(k)) /\ SumOver(UpTo(k)) \in Nat
  BY <1>1, <1>2 DEF UpTo
<1>7. 0 \in G
  <2>1. UpTo(0) = {}
    BY <1>1 DEF UpTo
  <2>2. taken(0) = 0 /\ SumOver(UpTo(0)) = 0
    BY <2>1, SumEmpty DEF SumOver
  <2> QED
    BY <1>1, <2>1, <2>2 DEF SmallerOf
<1>8. ASSUME NEW k \in 0..(n - 1), k \in G
      PROVE  k + 1 \in G
  <2>1. /\ k \in Nat /\ k + 1 \in 0..n /\ k \in 0..n
        /\ \A o \in Unpaid : Place(o) <= k + 1 <=> Place(o) <= k \/ Place(o) = k + 1
    BY <1>1
  <2>2. CASE ~\E o \in Unpaid : Place(o) = k + 1
    <3>1. UpTo(k + 1) = UpTo(k)
      BY <2>1, <2>2 DEF UpTo
    <3> QED
      BY <1>8, <2>1, <3>1
  <2>3. ASSUME NEW o \in Unpaid, Place(o) = k + 1
        PROVE  k + 1 \in G
    <3> DEFINE owed == SumOver(UpTo(k))
    <3>1. UpTo(k + 1) = UpTo(k) \cup {o} /\ o \notin UpTo(k) /\ Ahead(o) = UpTo(k)
      <4>1. \A p \in Unpaid : Place(p) < Place(o) <=> Place(p) <= k
        BY <1>1, <2>1, <2>3
      <4> QED
        BY <1>1, <2>1, <2>3, <4>1 DEF UpTo, Ahead
    <3>2. \A p \in UpTo(k) : ~IsLast(p)
      <4>1. \A p \in UpTo(k) : Place(p) \in 1..n /\ Place(p) <= k
        BY <1>1 DEF UpTo
      <4> QED
        BY <2>1, <2>3, <4>1 DEF IsLast
    <3>3. taken(k) = SmallerOf(cash, owed)
      BY <1>8, <3>2
    <3>4. taken(k + 1) = take[o] + taken(k)
      <4>1. IsFiniteSet(UpTo(k + 1)) /\ \A p \in UpTo(k + 1) : take[p] \in Int
        BY <1>5, <1>6, <2>1
      <4>2. UpTo(k + 1) \ {o} = UpTo(k) /\ o \in UpTo(k + 1)
        BY <3>1
      <4> QED
        BY <4>1, <4>2, SumTakes
    <3>5. SumOver(UpTo(k + 1)) = StillOwed(o) + owed
      <4>1. UpTo(k + 1) \ {o} = UpTo(k) /\ o \in UpTo(k + 1) /\ UpTo(k + 1) \in SUBSET Obligation
        BY <1>6, <2>1, <3>1
      <4> QED
        BY <4>1, OwedSums
    <3>6. /\ take[o] = IF cash - owed > 0 THEN (IF IsLast(o) THEN cash - owed ELSE SmallerOf(cash - owed, StillOwed(o)))
                       ELSE 0
          /\ owed \in Nat /\ StillOwed(o) \in Nat
      BY <1>1, <1>3, <1>4, <1>6, <2>1, <2>3, <3>1 DEF Takes, CashFor
    <3>7. (\E p \in UpTo(k + 1) : IsLast(p)) <=> IsLast(o)
      BY <3>1, <3>2
    <3> HIDE DEF owed, taken
    <3>8. taken(k + 1) = IF IsLast(o) THEN cash ELSE SmallerOf(cash, StillOwed(o) + owed)
      BY <3>3, <3>4, <3>6 DEF SmallerOf
    <3> QED
      BY <2>1, <3>5, <3>7, <3>8 DEF taken
  <2> QED
    BY <2>2, <2>3
<1> HIDE DEF G
<1>9. \A k \in 0..n : k \in G
  BY <1>1, <1>7, <1>8, IntervalInduction
<1> QED
  BY <1>9 DEF G, take

\* The whole sum is taken, and each receivable takes a part of it.
LEMMA AllIsTaken ==
    ASSUME PeopleTypeOK, NeverOversettled, NEW cash \in Nat, Unpaid # {}
    PROVE  /\ SumFunctionOnSet([o \in Obligation |-> Takes(o, cash)], Obligation) = cash
           /\ \A o \in Obligation : Takes(o, cash) \in Nat
<1> DEFINE n == Len(Receivables)
           take == [o \in Obligation |-> Takes(o, cash)]
<1>1. \A o \in Obligation : Takes(o, cash) \in Nat
  <2> SUFFICES ASSUME NEW o \in Obligation, o \in Unpaid, CashLeft(o, cash) > 0 PROVE CashFor(o, cash) \in Nat
    BY DEF Takes
  <2>1. Ahead(o) \in SUBSET Obligation /\ StillOwed(o) \in Nat
    BY Places, OwedTyped DEF Ahead, Unpaid
  <2>2. SumOver(Ahead(o)) \in Nat
    BY <2>1, OwedSums
  <2>3. CashLeft(o, cash) \in Nat
    BY <2>2 DEF CashLeft
  <2> QED
    BY <2>1, <2>3 DEF CashFor, SmallerOf
<1>2. n \in Nat /\ UpTo(n) = Unpaid /\ Unpaid \in SUBSET Obligation
  BY Places DEF UpTo, Unpaid
<1>3. SumFunctionOnSet(take, Unpaid) = cash
  <2>1. SumFunctionOnSet(take, UpTo(n)) = IF \E o \in UpTo(n) : IsLast(o) THEN cash
                                          ELSE SmallerOf(cash, SumOver(UpTo(n)))
    BY <1>2, TakenUpTo
  <2> QED
    BY <1>2, <2>1, OneIsLast
<1>4. \A o \in Obligation : take[o] \in Int
  BY <1>1
<1>5. \A o \in Obligation \ Unpaid : take[o] = 0
  BY DEF Takes
<1> HIDE DEF take
<1>6. SumFunctionOnSet(take, Obligation) = SumFunctionOnSet(take, Unpaid) + SumFunctionOnSet(take, Obligation \ Unpaid)
  BY <1>2, <1>4, ObligationsFinite, SumSplits
<1>7. SumFunctionOnSet(take, Obligation \ Unpaid) = 0
  <2>1. IsFiniteSet(Obligation \ Unpaid)
    BY ObligationsFinite, FS_Subset
  <2> QED
    BY <1>5, <2>1, SumZero
<1> QED
  BY <1>1, <1>3, <1>6, <1>7 DEF take

-----------------------------------------------------------------------------
(* Steps.                                                                  *)

Paid(c) == SumFunctionOnSet([o \in Obligation |-> settlement[c][o].applied + settlement[c][o].excess], Obligation)
KeysApart(c, d) == \/ petition[c].key # petition[d].key
                   \/ TableOf(petition[c]) # TableOf(petition[d])
CollectsWhole == \A c \in Party : petition[c].op = "collect" => Paid(c) = IF verdict[c] = "stored" THEN petition[c].cash ELSE 0
StoredApart == \A c, d \in Party : c # d /\ verdict[c] = "stored" /\ verdict[d] = "stored" => KeysApart(c, d)

LEMMA CollectedParts == CollectedWhole <=> CollectsWhole /\ StoredApart
BY DEF CollectedWhole, CollectsWhole, StoredApart, KeysApart, Paid

LEMMA NothingPaid ==
    ASSUME NEW c \in Party, settlement[c] = [o \in Obligation |-> NoSettlement]
    PROVE  Paid(c) = 0
<1> DEFINE f == [o \in Obligation |-> settlement[c][o].applied + settlement[c][o].excess]
<1>1. IsFiniteSet(Obligation) /\ \A o \in Obligation : f[o] = 0
  BY ObligationsFinite DEF NoSettlement
<1>2. Paid(c) = SumFunctionOnSet(f, Obligation)
  BY DEF Paid
<1> HIDE DEF f
<1> QED
  BY <1>1, <1>2, SumZero

LEMMA MoneyStays ==
    ASSUME UNCHANGED <<obligation, settlement>>
    PROVE  /\ \A o : Applied(o)' = Applied(o) /\ StillOwed(o)' = StillOwed(o)
           /\ \A c : Paid(c)' = Paid(c)
           /\ NeverOversettled' = NeverOversettled
BY DEF Applied, StillOwed, Paid, NeverOversettled, Open

\* Nothing is stored: a lookup, a lock, an abort, a replay or a refusal.
LEMMA UnsettledKeeps ==
    ASSUME PeopleInv, UNCHANGED settledVars, {userRow', personRow'} \subseteq Party \cup {NoOne},
           DOMAIN petition' = Party, \A c \in Party : petition'[c] \in Petitions[c] \cup {NoPetition},
           verdict' \in [Party -> Verdict \cup {NoOne}],
           \A c \in Party : /\ verdict'[c] = "stored" <=> verdict[c] = "stored"
                            /\ petition'[c] = NoPetition => verdict'[c] = NoOne
                            /\ petition[c] # NoPetition => petition'[c] = petition[c]
    PROVE  PeopleInv'
<1>1. PeopleTypeOK'
  BY DEF PeopleInv, PeopleTypeOK, settledVars
<1>2. SettlementsStored'
  BY DEF PeopleInv, SettlementsStored, settledVars
<1>3. NoOne # "stored"
  BY SettlementAssumption DEF Verdict
<1>4. \A c \in Party : verdict[c] = "stored" => petition'[c] = petition[c]
  BY <1>3 DEF PeopleInv, SettlementsStored
<1>5. CollectsWhole'
  <2> SUFFICES ASSUME NEW c \in Party, petition'[c].op = "collect"
               PROVE  Paid(c)' = IF verdict'[c] = "stored" THEN petition'[c].cash ELSE 0
    BY DEF CollectsWhole
  <2>1. CASE verdict[c] = "stored"
    BY <1>4, <2>1, CollectedParts, MoneyStays DEF PeopleInv, DebtsAddUp, CollectsWhole, settledVars
  <2>2. CASE verdict[c] # "stored"
    BY <2>2, NothingPaid, MoneyStays DEF PeopleInv, SettlementsStored, settledVars
  <2> QED
    BY <2>1, <2>2
<1>6. StoredApart'
  BY <1>4, CollectedParts DEF PeopleInv, DebtsAddUp, StoredApart, KeysApart, TableOf
<1>7. CollectedWhole'
  BY <1>5, <1>6 DEF CollectedWhole, CollectsWhole, StoredApart, KeysApart, Paid
<1>8. NeverOversettled' /\ ArchivedIsSquare'
  BY MoneyStays DEF PeopleInv, DebtsAddUp, ArchivedIsSquare, settledVars
<1> QED
  BY <1>1, <1>2, <1>7, <1>8 DEF PeopleInv, DebtsAddUp

LEMMA SubmitKeeps ==
    ASSUME PeopleInv, NEW c \in Party, NEW q \in Petitions[c], Submit(c, q)
    PROVE  PeopleInv'
<1>1. verdict[c] = NoOne /\ NoOne \notin Verdict /\ "stored" \in Verdict
  BY SettlementAssumption DEF PeopleInv, SettlementsStored, Submit, Verdict
<1>2. /\ petition' = [petition EXCEPT ![c] = q] /\ UNCHANGED <<settledVars, userRow, personRow>>
      /\ \E v \in {"replayed", "conflict", NoOne} : verdict' = [verdict EXCEPT ![c] = v]
  BY DEF Submit, Repeated
<1>3. q # NoPetition
  BY SettlementAssumption DEF NoPetition
<1>4. /\ DOMAIN petition' = Party /\ \A d \in Party : petition'[d] \in Petitions[d] \cup {NoPetition}
      /\ petition'[c] = q /\ \A d \in Party \ {c} : petition'[d] = petition[d]
  BY <1>2 DEF PeopleInv, PeopleTypeOK
<1>5. /\ verdict' \in [Party -> Verdict \cup {NoOne}] /\ verdict'[c] # "stored"
      /\ \A d \in Party \ {c} : verdict'[d] = verdict[d]
  BY <1>1, <1>2 DEF PeopleInv, PeopleTypeOK, Verdict
<1>6. petition[c] = NoPetition
  BY DEF Submit
<1>7. {userRow', personRow'} \subseteq Party \cup {NoOne} /\ UNCHANGED settledVars
  BY <1>2 DEF PeopleInv, PeopleTypeOK
<1> QED
  BY <1>1, <1>3, <1>4, <1>5, <1>6, <1>7, UnsettledKeeps DEF PeopleInv, SettlementsStored

LEMMA LocksKeep ==
    ASSUME PeopleInv, NEW c \in Party, LockUser(c) \/ LockPerson(c) \/ AbortVictim(c)
    PROVE  PeopleInv'
<1>1. /\ {userRow', personRow'} \subseteq Party \cup {NoOne} /\ UNCHANGED <<settledVars, petition>>
      /\ petition[c] # NoPetition /\ verdict[c] = NoOne
      /\ UNCHANGED verdict \/ verdict' = [verdict EXCEPT ![c] = "aborted"]
  BY DEF PeopleInv, PeopleTypeOK, LockUser, LockPerson, AbortVictim, Release, Running
<1>2. NoOne # "stored"
  BY SettlementAssumption DEF Verdict
<1>3. /\ verdict' \in [Party -> Verdict \cup {NoOne}]
      /\ \A d \in Party : (verdict'[d] = "stored" <=> verdict[d] = "stored") /\ (d # c => verdict'[d] = verdict[d])
  BY <1>1, <1>2 DEF PeopleInv, PeopleTypeOK, Verdict
<1>4. DOMAIN petition' = Party /\ \A d \in Party : petition'[d] \in Petitions[d] \cup {NoPetition}
  BY <1>1 DEF PeopleInv, PeopleTypeOK
<1> QED
  BY <1>1, <1>3, <1>4, UnsettledKeeps DEF PeopleInv, SettlementsStored

\* A transaction that stores something, or does not get that far.
Concludes(c, v) ==
    /\ Running(c) /\ verdict' = [verdict EXCEPT ![c] = v] /\ UNCHANGED petition
    /\ {userRow', personRow'} \subseteq Party \cup {NoOne}
Stores(c) == Concludes(c, "stored") /\ Same(petition[c]) = {} /\ person = "ACTIVE"

LEMMA DeclinedKeeps ==
    ASSUME PeopleInv, NEW c \in Party, NEW v \in {"replayed", "conflict", "refused"}, Concludes(c, v), UNCHANGED settledVars
    PROVE  PeopleInv'
<1>1. NoOne # "stored" /\ verdict[c] = NoOne /\ petition[c] # NoPetition
  BY SettlementAssumption DEF Verdict, Concludes, Running
<1>2. /\ verdict' \in [Party -> Verdict \cup {NoOne}]
      /\ \A d \in Party : (verdict'[d] = "stored" <=> verdict[d] = "stored") /\ (d # c => verdict'[d] = verdict[d])
  BY <1>1 DEF PeopleInv, PeopleTypeOK, Verdict, Concludes
<1>3. /\ {userRow', personRow'} \subseteq Party \cup {NoOne} /\ UNCHANGED petition
      /\ DOMAIN petition' = Party /\ \A d \in Party : petition'[d] \in Petitions[d] \cup {NoPetition}
  BY DEF PeopleInv, PeopleTypeOK, Concludes
<1> QED
  BY <1>1, <1>2, <1>3, UnsettledKeeps DEF PeopleInv, SettlementsStored

LEMMA StoresKeeps ==
    ASSUME PeopleInv, NEW c \in Party, Stores(c)
    PROVE  /\ verdict' \in [Party -> Verdict \cup {NoOne}] /\ {userRow', personRow'} \subseteq Party \cup {NoOne}
           /\ DOMAIN petition' = Party /\ \A d \in Party : petition'[d] \in Petitions[d] \cup {NoPetition}
           /\ UNCHANGED petition /\ petition[c] # NoPetition
           /\ verdict'[c] = "stored" /\ \A d \in Party \ {c} : verdict'[d] = verdict[d]
           /\ \A d \in Party : petition'[d] = NoPetition => verdict'[d] = NoOne
           /\ settlement[c] = [o \in Obligation |-> NoSettlement] /\ verdict[c] # "stored"
           /\ person = "ACTIVE"
           /\ StoredApart'
<1>1. NoOne # "stored" /\ verdict[c] = NoOne /\ petition[c] # NoPetition /\ person = "ACTIVE"
  BY SettlementAssumption DEF Verdict, Stores, Concludes, Running
<1>2. /\ verdict' \in [Party -> Verdict \cup {NoOne}] /\ verdict'[c] = "stored"
      /\ \A d \in Party \ {c} : verdict'[d] = verdict[d]
  BY DEF PeopleInv, PeopleTypeOK, Verdict, Stores, Concludes
<1>3. /\ {userRow', personRow'} \subseteq Party \cup {NoOne} /\ UNCHANGED petition
      /\ DOMAIN petition' = Party /\ \A d \in Party : petition'[d] \in Petitions[d] \cup {NoPetition}
  BY DEF PeopleInv, PeopleTypeOK, Stores, Concludes
<1>4. \A d \in Party : verdict[d] = "stored" => KeysApart(c, d) /\ KeysApart(d, c)
  BY DEF Stores, Same, KeysApart
<1>5. \A a, b \in Party : KeysApart(a, b)' <=> KeysApart(a, b)
  BY <1>3 DEF KeysApart, TableOf
<1>6. StoredApart'
  BY <1>2, <1>4, <1>5, CollectedParts DEF PeopleInv, DebtsAddUp, StoredApart
<1> QED
  BY <1>1, <1>2, <1>3, <1>6 DEF PeopleInv, SettlementsStored

\* A transaction that stores something keeps the books when it keeps every
\* obligation within its amount and stores the whole sum it collects.
LEMMA StoredBooks ==
    ASSUME PeopleInv, NEW c \in Party, Stores(c), NeverOversettled', ArchivedIsSquare',
           person' \in {"ACTIVE", "ARCHIVED"}, spare' \in Nat,
           obligation' \in [Obligation -> [no : Nat, amount : Nat, void : BOOLEAN]],
           settlement' \in [Party -> [Obligation -> [applied : Nat, excess : Nat, via : {"cash", "midas"},
                                                     live : BOOLEAN]]],
           \A d \in Party \ {c} : /\ Paid(d)' = Paid(d)
                                  /\ verdict[d] # "stored" => settlement'[d] = settlement[d],
           petition[c].op = "collect" => Paid(c)' = petition[c].cash
    PROVE  PeopleInv'
<1>1. PeopleTypeOK'
  BY StoresKeeps DEF PeopleTypeOK
<1>2. SettlementsStored'
  BY StoresKeeps DEF PeopleInv, SettlementsStored
<1>3. CollectsWhole'
  BY StoresKeeps, CollectedParts DEF PeopleInv, DebtsAddUp, CollectsWhole
<1>4. CollectedWhole'
  BY <1>3, StoresKeeps DEF CollectedWhole, CollectsWhole, StoredApart, KeysApart, Paid
<1> QED
  BY <1>1, <1>2, <1>4 DEF PeopleInv, DebtsAddUp

\* An obligation is written down anew, within what is settled of it.
LEMMA OweKeeps ==
    ASSUME PeopleInv, NEW c \in Party, Stores(c), petition[c].op # "collect",
           NEW o \in Obligation, NEW amount \in Nat, NEW void \in BOOLEAN, Owe(o, amount, void),
           Applied(o) <= IF void THEN 0 ELSE amount
    PROVE  PeopleInv'
<1>1. /\ obligation' \in [Obligation -> [no : Nat, amount : Nat, void : BOOLEAN]]
      /\ \A p \in Obligation \ {o} : obligation'[p] = obligation[p]
      /\ obligation'[o].no > 0 /\ obligation'[o].amount = amount /\ obligation'[o].void = void
  BY DEF PeopleInv, PeopleTypeOK, Owe
<1>2. UNCHANGED <<person, settlement, spare>>
  BY DEF Owe
<1>3. \A p : Applied(p)' = Applied(p) /\ Paid(p)' = Paid(p)
  BY <1>2 DEF Applied, Paid
<1>4. NeverOversettled'
  BY <1>1, <1>3 DEF PeopleInv, DebtsAddUp, NeverOversettled, Open
<1>5. ArchivedIsSquare'
  BY <1>2, StoresKeeps DEF ArchivedIsSquare
<1> QED
  BY <1>1, <1>2, <1>3, <1>4, <1>5, StoredBooks DEF PeopleInv, PeopleTypeOK

LEMMA ObligationsKeep ==
    ASSUME PeopleInv, NEW c \in Party, RecordObligation(c) \/ UpdateObligation(c) \/ VoidObligation(c)
    PROVE  PeopleInv'
<1> DEFINE q == petition[c]
           o == q.obligation
<1>1. /\ q \in Petitions[c] /\ q.op \in {"record", "update", "void"} /\ o \in Obligation
      /\ q.op \in {"record", "update"} => q.amount \in Nat
  BY SettlementAssumption
     DEF PeopleInv, PeopleTypeOK, RecordObligation, UpdateObligation, VoidObligation, Conclude, Running
<1>2. {userRow', personRow'} \subseteq Party \cup {NoOne}
  BY DEF PeopleInv, PeopleTypeOK, RecordObligation, UpdateObligation, VoidObligation, Conclude, Release
<1>3. Applied(o) \in Nat /\ obligation[o].amount \in Nat /\ Applied(o) <= IF Open(o) THEN obligation[o].amount ELSE 0
  BY <1>1, AppliedTyped, ObligationTyped DEF PeopleInv, DebtsAddUp, NeverOversettled
<1>4. CASE RecordObligation(c)
  <2>1. \/ \E v \in {"replayed", "conflict", "refused"} : Concludes(c, v) /\ UNCHANGED settledVars
        \/ Stores(c) /\ q.op = "record" /\ obligation[o].no = 0 /\ Owe(o, q.amount, FALSE)
    BY <1>2, <1>4 DEF RecordObligation, Conclude, Concludes, Stores, Repeated, PeopleInv, PeopleTypeOK, Running
  <2>2. ASSUME Stores(c), q.op = "record", obligation[o].no = 0, Owe(o, q.amount, FALSE)
        PROVE  PeopleInv'
    <3>1. q.amount \in Nat /\ petition[c].op # "collect" /\ FALSE \in BOOLEAN
      BY <1>1, <2>2
    <3>2. Applied(o) <= q.amount
      <4>1. ~Open(o)
        BY <2>2 DEF Open
      <4> QED
        BY <1>3, <3>1, <4>1
    <3> HIDE DEF q, o
    <3> QED
      BY <1>1, <2>2, <3>1, <3>2, OweKeeps
  <2> QED
    BY <2>1, <2>2, DeclinedKeeps
<1>5. CASE UpdateObligation(c)
  <2>1. \/ \E v \in {"replayed", "conflict", "refused"} : Concludes(c, v) /\ UNCHANGED settledVars
        \/ Stores(c) /\ q.op = "update" /\ q.amount >= Applied(o) /\ Owe(o, q.amount, FALSE)
    BY <1>2, <1>5 DEF UpdateObligation, Conclude, Concludes, Stores, Repeated, PeopleInv, PeopleTypeOK, Running
  <2> HIDE DEF q, o
  <2> QED
    BY <1>1, <1>3, <2>1, DeclinedKeeps, OweKeeps DEF q
<1>6. CASE VoidObligation(c)
  <2>1. \/ \E v \in {"replayed", "conflict", "refused"} : Concludes(c, v) /\ UNCHANGED settledVars
        \/ Stores(c) /\ q.op = "void" /\ Applied(o) = 0 /\ Owe(o, obligation[o].amount, TRUE)
    BY <1>2, <1>6 DEF VoidObligation, Conclude, Concludes, Stores, Repeated, PeopleInv, PeopleTypeOK, Running
  <2>2. ASSUME Stores(c), q.op = "void", Applied(o) = 0, Owe(o, obligation[o].amount, TRUE)
        PROVE  PeopleInv'
    <3>1. petition[c].op # "collect" /\ TRUE \in BOOLEAN /\ Applied(o) <= 0
      BY <2>2
    <3> HIDE DEF q, o
    <3> QED
      BY <1>1, <1>3, <2>2, <3>1, OweKeeps
  <2> QED
    BY <2>1, <2>2, DeclinedKeeps
<1> QED
  BY <1>4, <1>5, <1>6

\* Who is archived owes nothing, and nothing is owed.
LEMMA ArchiveKeeps ==
    ASSUME PeopleInv, NEW c \in Party, ArchivePerson(c)
    PROVE  PeopleInv'
<1>1. {userRow', personRow'} \subseteq Party \cup {NoOne}
  BY DEF PeopleInv, PeopleTypeOK, ArchivePerson, Conclude, Release
<1>2. \/ \E v \in {"replayed", "conflict", "refused"} : Concludes(c, v) /\ UNCHANGED settledVars
      \/ /\ Stores(c) /\ petition[c].op = "archive"
         /\ SumOver(ToSet(Receivables)) = 0 /\ SumOver(Payables) = 0
         /\ person' = "ARCHIVED" /\ UNCHANGED <<obligation, settlement, spare>>
  BY <1>1 DEF ArchivePerson, Conclude, Concludes, Stores, Repeated, PeopleInv, PeopleTypeOK, Running
<1>3. ASSUME Stores(c), petition[c].op = "archive", SumOver(ToSet(Receivables)) = 0, SumOver(Payables) = 0,
             person' = "ARCHIVED", UNCHANGED <<obligation, settlement, spare>>
      PROVE  PeopleInv'
  <2>1. PeopleTypeOK /\ NeverOversettled
    BY DEF PeopleInv, DebtsAddUp
  <2>2. ToSet(Receivables) \in SUBSET Obligation /\ Payables \in SUBSET Obligation
    BY DEF Obligation
  <2>3. \A o \in ToSet(Receivables) : StillOwed(o) <= 0
    BY <1>3, <2>1, <2>2, OwedSums
  <2>4. \A o \in Payables : StillOwed(o) <= 0
    BY <1>3, <2>1, <2>2, OwedSums
  <2>5. \A o \in Obligation : StillOwed(o) = 0
    BY <2>1, <2>2, <2>3, <2>4, OwedTyped DEF Obligation
  <2>6. ArchivedIsSquare' /\ NeverOversettled'
    BY <1>3, <2>1, <2>5, MoneyStays DEF ArchivedIsSquare
  <2>7. \A d : Paid(d)' = Paid(d)
    BY <1>3, MoneyStays
  <2>8. petition[c].op # "collect"
    BY <1>3
  <2> QED
    BY <1>3, <2>6, <2>7, <2>8, StoredBooks DEF PeopleInv, PeopleTypeOK
<1> QED
  BY <1>2, <1>3, DeclinedKeeps

\* One settlement more, within what is still owed; what a person pays beyond
\* that is excess.
LEMMA SettleKeeps ==
    ASSUME PeopleInv, NEW c \in Party, SettleOne(c)
    PROVE  PeopleInv'
<1> DEFINE q == petition[c]
           o == q.obligation
           change == IF q.via = "cash" THEN 0 ELSE IF o \in Payables THEN -q.cash ELSE q.cash
           s == Settlement(o, q.cash, q.via)
<1>1. /\ {userRow', personRow'} \subseteq Party \cup {NoOne}
      /\ q \in Petitions[c] /\ q.op = "settle"
  BY DEF PeopleInv, PeopleTypeOK, SettleOne, Conclude, Running, Release
<1>2. o \in Obligation /\ q.cash \in Nat /\ q.via \in {"cash", "midas"}
  BY <1>1, SettlementAssumption
<1>3. \/ \E v \in {"replayed", "conflict", "refused"} : Concludes(c, v) /\ UNCHANGED settledVars
      \/ /\ Stores(c) /\ StillOwed(o) > 0 /\ spare + change >= 0
         /\ settlement' = [settlement EXCEPT ![c][o] = s]
         /\ spare' = spare + change /\ UNCHANGED <<person, obligation>>
  BY <1>1 DEF SettleOne, Conclude, Concludes, Stores, Repeated, PeopleInv, PeopleTypeOK, Running
<1>4. ASSUME Stores(c), StillOwed(o) > 0, spare + change >= 0,
             settlement' = [settlement EXCEPT ![c][o] = s],
             spare' = spare + change, UNCHANGED <<person, obligation>>
      PROVE  PeopleInv'
  <2>1. PeopleTypeOK /\ NeverOversettled
    BY DEF PeopleInv, DebtsAddUp
  <2>2. StillOwed(o) \in Nat /\ StillOwed(o) = (IF Open(o) THEN obligation[o].amount ELSE 0) - Applied(o)
    BY <1>2, <2>1, OwedTyped
  <2>3. /\ s.applied \in Nat /\ s.excess \in Nat /\ s.live = TRUE /\ s.applied <= StillOwed(o)
        /\ s \in [applied : Nat, excess : Nat, via : {"cash", "midas"}, live : BOOLEAN]
    BY <1>2, <2>2 DEF Settlement, SmallerOf
  <2>4. spare' \in Nat
    <3>1. change \in Int /\ spare \in Nat
      BY <1>2, <2>1 DEF PeopleTypeOK
    <3> HIDE DEF change
    <3> QED
      BY <1>4, <3>1
  <2> HIDE DEF q, s, change, o
  <2>5. /\ settlement' \in [Party -> [Obligation -> [applied : Nat, excess : Nat, via : {"cash", "midas"},
                                                     live : BOOLEAN]]]
        /\ settlement'[c][o] = s /\ \A d \in Party \ {c} : settlement'[d] = settlement[d]
        /\ \A p \in Obligation \ {o} : settlement'[c][p] = settlement[c][p]
    BY <1>2, <1>4, <2>1, <2>3 DEF PeopleTypeOK
  <2>6. settlement[c] = [p \in Obligation |-> NoSettlement]
    BY <1>4, StoresKeeps
  <2>7. ASSUME NEW p \in Obligation
        PROVE  Applied(p)' = Applied(p) + IF p = o THEN s.applied ELSE 0
    <3>1. settlement'[c][p].applied \in Nat
      BY <2>5
    <3>2. Applied(p)' = Applied(p) - (IF settlement[c][p].live THEN settlement[c][p].applied ELSE 0)
                                   + (IF settlement'[c][p].live THEN settlement'[c][p].applied ELSE 0)
      BY <2>1, <2>5, <3>1, AppliedChanges
    <3>3. settlement[c][p].live = FALSE /\ Applied(p) \in Nat
      BY <2>1, <2>6, AppliedTyped DEF NoSettlement
    <3>4. p # o => settlement'[c][p].live = FALSE
      BY <2>5, <3>3
    <3> QED
      BY <2>3, <2>5, <3>2, <3>3, <3>4
  <2>8. NeverOversettled'
    <3> SUFFICES ASSUME NEW p \in Obligation
                 PROVE  Applied(p)' <= IF Open(p) THEN obligation[p].amount ELSE 0
      BY <1>4 DEF NeverOversettled, Open
    <3>1. Applied(p) <= IF Open(p) THEN obligation[p].amount ELSE 0
      BY <2>1 DEF NeverOversettled
    <3>2. Applied(p) \in Nat /\ obligation[p].amount \in Nat
      BY <2>1, AppliedTyped, ObligationTyped
    <3>3. CASE p = o
      <4>1. Applied(p)' = Applied(p) + s.applied
        BY <2>7, <3>3
      <4> QED
        BY <2>2, <2>3, <3>2, <3>3, <4>1
    <3>4. CASE p # o
      <4>1. Applied(p)' = Applied(p) + 0
        BY <2>7, <3>4
      <4> QED
        BY <3>1, <3>2, <4>1
    <3> QED
      BY <3>3, <3>4
  <2>9. ArchivedIsSquare'
    BY <1>4, StoresKeeps DEF ArchivedIsSquare
  <2>10. \A d \in Party \ {c} : Paid(d)' = Paid(d)
    BY <2>5 DEF Paid
  <2>11. petition[c].op # "collect" /\ person' \in {"ACTIVE", "ARCHIVED"} /\ obligation' = obligation
    BY <1>1, <1>4, <2>1 DEF PeopleTypeOK, q
  <2> QED
    BY <1>4, <2>1, <2>4, <2>5, <2>8, <2>9, <2>10, <2>11, StoredBooks DEF PeopleTypeOK
<1> HIDE DEF q, o, s, change
<1> QED
  BY <1>3, <1>4, DeclinedKeeps

\* A settlement is undone: less is applied, and every request still stored
\* the sum it was given.
LEMMA UnsettleKeeps ==
    ASSUME PeopleInv, NEW c \in Party, Unsettle(c)
    PROVE  PeopleInv'
<1> DEFINE o == petition[c].obligation
           d == petition[c].target
           s == settlement[d][o]
           change == IF s.via = "cash" THEN 0
                     ELSE IF o \in Payables THEN s.applied ELSE -(s.applied + s.excess)
<1>1. /\ {userRow', personRow'} \subseteq Party \cup {NoOne}
      /\ petition[c] \in Petitions[c] /\ petition[c].op = "unsettle"
  BY DEF PeopleInv, PeopleTypeOK, Unsettle, Conclude, Running, Release
<1>2. o \in Obligation /\ d \in Party
  BY <1>1, SettlementAssumption
<1>3. \/ \E v \in {"replayed", "conflict", "refused"} : Concludes(c, v) /\ UNCHANGED settledVars
      \/ /\ Stores(c) /\ s.live /\ spare + change >= 0
         /\ settlement' = [settlement EXCEPT ![d][o].live = FALSE]
         /\ spare' = spare + change /\ UNCHANGED <<person, obligation>>
  BY <1>1 DEF Unsettle, Conclude, Concludes, Stores, Repeated, PeopleInv, PeopleTypeOK, Running
<1>4. ASSUME Stores(c), s.live, spare + change >= 0,
             settlement' = [settlement EXCEPT ![d][o].live = FALSE],
             spare' = spare + change, UNCHANGED <<person, obligation>>
      PROVE  PeopleInv'
  <2>1. PeopleTypeOK /\ NeverOversettled
    BY DEF PeopleInv, DebtsAddUp
  <2>2. s \in [applied : Nat, excess : Nat, via : {"cash", "midas"}, live : BOOLEAN] /\ spare \in Nat
    BY <1>2, <2>1 DEF PeopleTypeOK
  <2>3. spare' \in Nat
    <3>1. change \in Int
      BY <2>2
    <3> HIDE DEF change
    <3> QED
      BY <1>4, <2>2, <3>1
  <2> HIDE DEF change, s, o, d
  <2>4. /\ settlement' \in [Party -> [Obligation -> [applied : Nat, excess : Nat, via : {"cash", "midas"},
                                                     live : BOOLEAN]]]
        /\ \A e \in Party \ {d} : settlement'[e] = settlement[e]
        /\ \A p \in Obligation : /\ settlement'[d][p].applied = settlement[d][p].applied
                                 /\ settlement'[d][p].excess = settlement[d][p].excess
                                 /\ settlement'[d][p].live => settlement[d][p].live
    <3> DEFINE r == [settlement[d][o] EXCEPT !.live = FALSE]
    <3>1. /\ settlement[d][o] \in [applied : Nat, excess : Nat, via : {"cash", "midas"}, live : BOOLEAN]
          /\ settlement \in [Party -> [Obligation -> [applied : Nat, excess : Nat, via : {"cash", "midas"},
                                                      live : BOOLEAN]]]
      BY <1>2, <2>1 DEF PeopleTypeOK
    <3>2. /\ r \in [applied : Nat, excess : Nat, via : {"cash", "midas"}, live : BOOLEAN] /\ r.live = FALSE
          /\ r.applied = settlement[d][o].applied /\ r.excess = settlement[d][o].excess
      BY <3>1
    <3>3. settlement' = [settlement EXCEPT ![d] = [settlement[d] EXCEPT ![o] = r]]
      BY <1>4
    <3> HIDE DEF r
    <3> QED
      BY <1>2, <3>1, <3>2, <3>3
  <2>5. verdict[d] = "stored"
    BY <1>2, <1>4 DEF PeopleInv, SettlementsStored, NoSettlement, s
  <2>6. ASSUME NEW p \in Obligation
        PROVE  Applied(p)' <= Applied(p) /\ Applied(p)' \in Int
    <3>1. /\ settlement[d][p].applied \in Nat /\ settlement'[d][p].applied = settlement[d][p].applied
          /\ settlement'[d][p].applied \in Nat
      BY <1>2, <2>1, <2>4, ObligationTyped
    <3>2. Applied(p)' = Applied(p) - (IF settlement[d][p].live THEN settlement[d][p].applied ELSE 0)
                                   + (IF settlement'[d][p].live THEN settlement'[d][p].applied ELSE 0)
      BY <1>2, <2>1, <2>4, <3>1, AppliedChanges
    <3>3. Applied(p) \in Nat
      BY <2>1, AppliedTyped
    <3>4. settlement'[d][p].live => settlement[d][p].live
      BY <2>4
    <3> QED
      BY <3>1, <3>2, <3>3, <3>4
  <2>7. NeverOversettled'
    <3> SUFFICES ASSUME NEW p \in Obligation
                 PROVE  Applied(p)' <= IF Open(p) THEN obligation[p].amount ELSE 0
      BY <1>4 DEF NeverOversettled, Open
    <3>1. Applied(p) <= IF Open(p) THEN obligation[p].amount ELSE 0
      BY <2>1 DEF NeverOversettled
    <3>2. Applied(p) \in Nat /\ obligation[p].amount \in Nat
      BY <2>1, AppliedTyped, ObligationTyped
    <3> QED
      BY <2>6, <3>1, <3>2
  <2>8. ArchivedIsSquare'
    BY <1>4, StoresKeeps DEF ArchivedIsSquare
  <2>9. \A e \in Party : Paid(e)' = Paid(e)
    <3> SUFFICES ASSUME NEW e \in Party PROVE Paid(e)' = Paid(e)
      OBVIOUS
    <3>1. \A p \in Obligation : /\ settlement'[e][p].applied = settlement[e][p].applied
                                /\ settlement'[e][p].excess = settlement[e][p].excess
      BY <2>4
    <3> QED
      BY <3>1 DEF Paid
  <2>10. \A e \in Party : verdict[e] # "stored" => settlement'[e] = settlement[e]
    BY <2>4, <2>5
  <2>11. petition[c].op # "collect" /\ person' \in {"ACTIVE", "ARCHIVED"} /\ obligation' = obligation
    BY <1>1, <1>4, <2>1 DEF PeopleTypeOK
  <2> QED
    BY <1>4, <2>1, <2>3, <2>4, <2>7, <2>8, <2>9, <2>10, <2>11, StoredBooks DEF PeopleTypeOK
<1> HIDE DEF o, d, s, change
<1> QED
  BY <1>3, <1>4, DeclinedKeeps

\* The sum a person pays is stored whole, over the receivables it reaches.
LEMMA CollectKeeps ==
    ASSUME PeopleInv, NEW c \in Party, SettleReceivables(c)
    PROVE  PeopleInv'
<1> DEFINE q == petition[c]
           paid == {o \in Unpaid : CashLeft(o, q.cash) > 0}
           new == [o \in Obligation |-> IF o \in paid THEN Settlement(o, CashFor(o, q.cash), q.via)
                                        ELSE settlement[c][o]]
           change == IF q.via = "cash" THEN 0 ELSE SmallerOf(q.cash, SumOver(ToSet(Receivables)))
<1>1. /\ {userRow', personRow'} \subseteq Party \cup {NoOne}
      /\ q \in Petitions[c] /\ q.op = "collect"
  BY DEF PeopleInv, PeopleTypeOK, SettleReceivables, Conclude, Running, Release
<1>2. q.cash \in Nat /\ q.via \in {"cash", "midas"}
  BY <1>1, SettlementAssumption
<1>3. \/ \E v \in {"replayed", "conflict", "refused"} : Concludes(c, v) /\ UNCHANGED settledVars
      \/ /\ Stores(c) /\ Unpaid # {}
         /\ settlement' = [settlement EXCEPT ![c] = new]
         /\ spare' = spare + change /\ UNCHANGED <<person, obligation>>
  BY <1>1 DEF SettleReceivables, Conclude, Concludes, Stores, Repeated, PeopleInv, PeopleTypeOK, Running
<1>4. ASSUME Stores(c), Unpaid # {},
             settlement' = [settlement EXCEPT ![c] = new],
             spare' = spare + change, UNCHANGED <<person, obligation>>
      PROVE  PeopleInv'
  <2>1. PeopleTypeOK /\ NeverOversettled
    BY DEF PeopleInv, DebtsAddUp
  <2>2. spare' \in Nat
    <3>1. SumOver(ToSet(Receivables)) \in Nat /\ spare \in Nat
      BY <2>1, Places, OwedSums DEF PeopleTypeOK
    <3> QED
      BY <1>2, <1>4, <3>1 DEF SmallerOf
  <2>3. settlement[c] = [p \in Obligation |-> NoSettlement]
    BY <1>4, StoresKeeps
  <2>4. /\ SumFunctionOnSet([o \in Obligation |-> Takes(o, q.cash)], Obligation) = q.cash
        /\ \A o \in Obligation : Takes(o, q.cash) \in Nat
    BY <1>2, <1>4, <2>1, AllIsTaken
  <2>5. \A o \in paid : CashFor(o, q.cash) = Takes(o, q.cash)
    BY DEF Takes
  <2>6. \A o \in Obligation \ paid : Takes(o, q.cash) = 0
    BY DEF Takes
  <2>7. \A o \in Obligation : /\ StillOwed(o) \in Nat
                              /\ StillOwed(o) = (IF Open(o) THEN obligation[o].amount ELSE 0) - Applied(o)
    BY <2>1, OwedTyped
  <2>8. paid \in SUBSET Obligation
    BY Places DEF Unpaid
  <2>9. ASSUME NEW o \in Obligation
        PROVE  /\ new[o].applied \in Nat /\ new[o].applied <= StillOwed(o)
               /\ new[o].applied + new[o].excess = Takes(o, q.cash)
               /\ new[o] \in [applied : Nat, excess : Nat, via : {"cash", "midas"}, live : BOOLEAN]
    <3>1. CASE o \in paid
      BY <1>2, <2>4, <2>5, <2>7, <2>8, <3>1 DEF Settlement, SmallerOf
    <3>2. CASE o \notin paid
      BY <2>3, <2>6, <2>7, <3>2 DEF NoSettlement
    <3> QED
      BY <3>1, <3>2
  <2>10. new \in [Obligation -> [applied : Nat, excess : Nat, via : {"cash", "midas"}, live : BOOLEAN]]
    <3>1. new = [o \in Obligation |-> new[o]]
      OBVIOUS
    <3> HIDE DEF new
    <3> QED
      BY <2>9, <3>1
  <2> HIDE DEF q, paid, new, change
  <2>11. /\ settlement' \in [Party -> [Obligation -> [applied : Nat, excess : Nat, via : {"cash", "midas"},
                                                     live : BOOLEAN]]]
         /\ settlement'[c] = new /\ \A d \in Party \ {c} : settlement'[d] = settlement[d]
    BY <1>4, <2>1, <2>10 DEF PeopleTypeOK
  <2>12. NeverOversettled'
    <3> SUFFICES ASSUME NEW p \in Obligation
                 PROVE  Applied(p)' <= IF Open(p) THEN obligation[p].amount ELSE 0
      BY <1>4 DEF NeverOversettled, Open
    <3>1. Applied(p)' = Applied(p) - (IF settlement[c][p].live THEN settlement[c][p].applied ELSE 0)
                                   + (IF settlement'[c][p].live THEN settlement'[c][p].applied ELSE 0)
      BY <2>1, <2>9, <2>11, AppliedChanges
    <3>2. settlement[c][p].live = FALSE
      BY <2>3 DEF NoSettlement
    <3>3. Applied(p) \in Nat /\ obligation[p].amount \in Nat
      BY <2>1, AppliedTyped, ObligationTyped
    <3>4. settlement'[c][p].applied \in Nat /\ settlement'[c][p].applied <= StillOwed(p)
      BY <2>9, <2>11
    <3> QED
      BY <2>7, <3>1, <3>2, <3>3, <3>4
  <2>13. ArchivedIsSquare'
    BY <1>4, StoresKeeps DEF ArchivedIsSquare
  <2>14. \A d \in Party \ {c} : Paid(d)' = Paid(d)
    BY <2>11 DEF Paid
  <2>15. Paid(c)' = petition[c].cash
    <3>1. Paid(c)' = SumFunctionOnSet([o \in Obligation |-> settlement'[c][o].applied + settlement'[c][o].excess],
                                      Obligation)
      BY DEF Paid
    <3>2. [o \in Obligation |-> settlement'[c][o].applied + settlement'[c][o].excess]
            = [o \in Obligation |-> Takes(o, q.cash)]
      BY <2>9, <2>11
    <3>3. Paid(c)' = q.cash
      BY <2>4, <3>1, <3>2
    <3> QED
      BY <3>3 DEF q
  <2>16. person' \in {"ACTIVE", "ARCHIVED"} /\ obligation' = obligation
    BY <1>4, <2>1 DEF PeopleTypeOK
  <2>17. \A d \in Party \ {c} : verdict[d] # "stored" => settlement'[d] = settlement[d]
    BY <2>11
  <2> QED
    BY <1>4, <2>1, <2>2, <2>11, <2>12, <2>13, <2>14, <2>15, <2>16, <2>17, StoredBooks DEF PeopleTypeOK
<1> HIDE DEF q, paid, new, change
<1> QED
  BY <1>3, <1>4, DeclinedKeeps

-----------------------------------------------------------------------------
(* The theorems.                                                           *)

LEMMA PeopleInvInit == PeopleInit => PeopleInv
<1> SUFFICES ASSUME PeopleInit PROVE PeopleInv
  OBVIOUS
<1>1. PeopleTypeOK
  BY DEF PeopleInit, PeopleTypeOK, NoSettlement
<1>2. SettlementsStored
  BY DEF PeopleInit, SettlementsStored
<1>3. NoOne # "stored" /\ \A c \in Party : verdict[c] = NoOne
  BY SettlementAssumption DEF PeopleInit, Verdict
<1>4. NeverOversettled
  <2> SUFFICES ASSUME NEW o \in Obligation PROVE Applied(o) <= IF Open(o) THEN obligation[o].amount ELSE 0
    BY DEF NeverOversettled
  <2> DEFINE f == [c \in Party |-> IF settlement[c][o].live THEN settlement[c][o].applied ELSE 0]
  <2>1. IsFiniteSet(Party) /\ \A c \in Party : f[c] = 0
    BY ObligationsFinite DEF PeopleInit, NoSettlement
  <2>2. Applied(o) = SumFunctionOnSet(f, Party)
    BY DEF Applied
  <2> HIDE DEF f
  <2>3. Applied(o) = 0
    BY <2>1, <2>2, SumZero
  <2> QED
    BY <2>3 DEF PeopleInit
<1>5. CollectsWhole
  <2>1. \A c \in Party : Paid(c) = 0
    BY NothingPaid DEF PeopleInit
  <2> QED
    BY <1>3, <2>1 DEF CollectsWhole
<1>6. StoredApart
  BY <1>3 DEF StoredApart
<1>7. ArchivedIsSquare
  BY DEF PeopleInit, ArchivedIsSquare
<1> QED
  BY <1>1, <1>2, <1>4, <1>5, <1>6, <1>7, CollectedParts DEF PeopleInv, DebtsAddUp

LEMMA PeopleInvNext == PeopleInv /\ [PeopleNext]_peopleVars => PeopleInv'
<1> SUFFICES ASSUME PeopleInv, [PeopleNext]_peopleVars PROVE PeopleInv'
  OBVIOUS
<1>1. ASSUME NEW c \in Party, PartyStep(c)
      PROVE  PeopleInv'
  BY <1>1, LocksKeep, ObligationsKeep, ArchiveKeeps, SettleKeeps, UnsettleKeeps, CollectKeeps DEF PartyStep
<1>2. ASSUME NEW c \in Party, NEW q \in Petitions[c], Submit(c, q)
      PROVE  PeopleInv'
  BY <1>2, SubmitKeeps
<1>3. CASE UNCHANGED peopleVars
  <2>1. /\ UNCHANGED settledVars /\ {userRow', personRow'} \subseteq Party \cup {NoOne}
        /\ DOMAIN petition' = Party /\ \A c \in Party : petition'[c] \in Petitions[c] \cup {NoPetition}
        /\ verdict' \in [Party -> Verdict \cup {NoOne}] /\ UNCHANGED <<petition, verdict>>
    BY <1>3 DEF PeopleInv, PeopleTypeOK, peopleVars, settledVars
  <2> QED
    BY <2>1, UnsettledKeeps DEF PeopleInv, SettlementsStored
<1> QED
  BY <1>1, <1>2, <1>3 DEF PeopleNext

\* The books of a person add up, for any clients, obligations and requests:
\* nothing is settled beyond what is owed, a sum paid for everything is
\* stored whole and once, and who is archived owes and is owed nothing
\* (settlements.ts, obligations.ts and the archiving of src/people).
THEOREM DebtsStayAddedUp == PeopleSpec => []DebtsAddUp
<1>1. PeopleInit => PeopleInv
  BY PeopleInvInit
<1>2. PeopleInv /\ [PeopleNext]_peopleVars => PeopleInv'
  BY PeopleInvNext
<1>3. PeopleInv => DebtsAddUp
  BY DEF PeopleInv
<1> QED
  BY <1>1, <1>2, <1>3, PTL DEF PeopleSpec

\* Every row and every answer keeps its type, the money outside the buckets
\* of the Midas account stays a natural number.
THEOREM PeopleTypeCorrect == PeopleSpec => []PeopleTypeOK
<1>1. PeopleInv => PeopleTypeOK
  BY DEF PeopleInv
<1> QED
  BY <1>1, PeopleInvInit, PeopleInvNext, PTL DEF PeopleSpec

-----------------------------------------------------------------------------
(* Excess only comes last.                                                 *)

OnlyLast ==
    \A c \in Party : \A o \in Obligation :
       settlement'[c][o].excess > settlement[c][o].excess
       => \A p \in ToSet(Receivables) : (p = o \/ petition[c].op = "collect") => StillOwed(p)' = 0

\* What a request newly applies in full to an obligation pays it off.
LEMMA PaidOff ==
    ASSUME PeopleInv, NEW c \in Party, NEW o \in Obligation, UNCHANGED obligation,
           settlement[c] = [p \in Obligation |-> NoSettlement],
           \A d \in Party \ {c} : settlement'[d] = settlement[d],
           settlement'[c][o].applied = StillOwed(o), settlement'[c][o].live \/ StillOwed(o) = 0
    PROVE  StillOwed(o)' = 0
<1>1. /\ StillOwed(o) \in Nat
      /\ StillOwed(o) = (IF Open(o) THEN obligation[o].amount ELSE 0) - Applied(o)
  BY OwedTyped DEF PeopleInv, DebtsAddUp
<1>2. settlement[c][o].live = FALSE
  BY DEF NoSettlement
<1>3. Applied(o) \in Nat /\ obligation[o].amount \in Nat
  BY AppliedTyped, ObligationTyped DEF PeopleInv
<1>4. Applied(o)' = Applied(o) - (IF settlement[c][o].live THEN settlement[c][o].applied ELSE 0)
                               + (IF settlement'[c][o].live THEN settlement'[c][o].applied ELSE 0)
  <2>1. PeopleTypeOK /\ settlement'[c][o].applied \in Nat /\ \A d \in Party \ {c} : settlement'[d] = settlement[d]
    BY <1>1 DEF PeopleInv
  <2> QED
    BY <2>1, AppliedChanges
<1>5. Applied(o)' = Applied(o) + StillOwed(o)
  <2> DEFINE old == IF settlement[c][o].live THEN settlement[c][o].applied ELSE 0
             new == IF settlement'[c][o].live THEN settlement'[c][o].applied ELSE 0
  <2>1. old = 0 /\ new = StillOwed(o) /\ Applied(o)' = Applied(o) - old + new
    <3>1. CASE settlement'[c][o].live
      BY <1>2, <1>4, <3>1
    <3>2. CASE ~settlement'[c][o].live
      BY <1>2, <1>4, <3>2
    <3> QED
      BY <3>1, <3>2
  <2> HIDE DEF old, new
  <2> QED
    BY <1>1, <1>3, <2>1
<1>6. StillOwed(o)' = IF Open(o) THEN obligation[o].amount - Applied(o)' ELSE 0
  BY DEF StillOwed, Open
<1> QED
  BY <1>1, <1>3, <1>5, <1>6

\* Cash that reaches the last receivable with an excess has paid off all
\* receivables before it.
LEMMA AllPaidOff ==
    ASSUME PeopleTypeOK, NeverOversettled, NEW cash \in Nat,
           NEW o \in Unpaid, CashLeft(o, cash) > 0, CashFor(o, cash) > StillOwed(o)
    PROVE  \A p \in Unpaid : CashLeft(p, cash) > 0 /\ SmallerOf(CashFor(p, cash), StillOwed(p)) = StillOwed(p)
<1>1. \A p \in Unpaid : /\ p \in Obligation /\ Ahead(p) \in SUBSET Obligation /\ p \notin Ahead(p)
                        /\ StillOwed(p) \in Nat /\ StillOwed(p) > 0 /\ SumOver(Ahead(p)) \in Nat
                        /\ Place(p) \in Nat
                        /\ CashLeft(p, cash) = cash - SumOver(Ahead(p))
  <2>1. \A p \in Unpaid : /\ p \in Obligation /\ Ahead(p) \in SUBSET Obligation /\ Place(p) \in Nat
    BY Places DEF Unpaid, Ahead
  <2>2. \A p \in Unpaid : p \notin Ahead(p)
    BY <2>1 DEF Ahead
  <2>3. \A p \in Unpaid : StillOwed(p) \in Nat /\ StillOwed(p) > 0
    BY <2>1, OwedTyped DEF Unpaid
  <2>4. \A p \in Unpaid : SumOver(Ahead(p)) \in Nat
    BY <2>1, OwedSums
  <2> QED
    BY <2>1, <2>2, <2>3, <2>4 DEF CashLeft
<1>2. IsLast(o) /\ CashLeft(o, cash) > StillOwed(o)
  BY <1>1 DEF CashFor, SmallerOf
<1> SUFFICES ASSUME NEW p \in Unpaid
             PROVE  CashLeft(p, cash) > 0 /\ SmallerOf(CashFor(p, cash), StillOwed(p)) = StillOwed(p)
  OBVIOUS
<1>3. CASE p = o
  BY <1>1, <1>2, <1>3 DEF CashFor, SmallerOf
<1>4. CASE p # o
  <2>1. Place(p) < Place(o)
    <3>1. p \in ToSet(Receivables) /\ o \in ToSet(Receivables) /\ Place(p) <= Place(o)
      BY <1>2 DEF IsLast, Unpaid
    <3>2. Place(p) # Place(o)
      BY <1>4, <3>1, Places
    <3>3. Place(p) \in Nat /\ Place(o) \in Nat
      BY <1>1
    <3> QED
      BY <3>1, <3>2, <3>3
  <2>2. Ahead(p) \cup {p} \in SUBSET Ahead(o)
    <3>1. /\ \A x \in Unpaid : Place(x) \in Nat
          /\ Place(p) < Place(o) /\ p \in Unpaid /\ o \in Unpaid
      BY <1>1, <2>1
    <3>2. \A x \in Unpaid : Place(x) < Place(p) => Place(x) < Place(o)
      BY <3>1
    <3> QED
      BY <3>1, <3>2 DEF Ahead
  <2>3. SumOver(Ahead(p) \cup {p}) <= SumOver(Ahead(o))
    BY <1>1, <2>2, OwedSums
  <2>4. SumOver(Ahead(p) \cup {p}) = StillOwed(p) + SumOver(Ahead(p))
    <3>1. (Ahead(p) \cup {p}) \ {p} = Ahead(p) /\ p \in Ahead(p) \cup {p} /\ Ahead(p) \cup {p} \in SUBSET Obligation
      BY <1>1
    <3> QED
      BY <3>1, OwedSums
  <2>5. CashLeft(p, cash) > StillOwed(p)
    BY <1>1, <1>2, <2>3, <2>4
  <2> QED
    BY <1>1, <2>5 DEF CashFor, SmallerOf
<1> QED
  BY <1>3, <1>4

LEMMA ExcessOfOne ==
    ASSUME PeopleInv, NEW c \in Party, SettleOne(c)
    PROVE  OnlyLast
<1> DEFINE q == petition[c]
           o == q.obligation
           s == Settlement(o, q.cash, q.via)
<1>1. q \in Petitions[c] /\ q.op = "settle"
  BY DEF PeopleInv, PeopleTypeOK, SettleOne, Conclude, Running
<1>2. o \in Obligation /\ q.cash \in Nat /\ {userRow', personRow'} \subseteq Party \cup {NoOne}
  BY <1>1, SettlementAssumption DEF PeopleInv, PeopleTypeOK, SettleOne, Conclude, Release
<1>3. \/ UNCHANGED settledVars
      \/ Stores(c) /\ settlement' = [settlement EXCEPT ![c][o] = s] /\ UNCHANGED obligation
  BY <1>1, <1>2 DEF SettleOne, Conclude, Concludes, Stores, Repeated, PeopleInv, PeopleTypeOK, Running
<1>4. CASE UNCHANGED settledVars
  BY <1>4, ObligationTyped DEF OnlyLast, settledVars, PeopleInv
<1>5. ASSUME Stores(c), settlement' = [settlement EXCEPT ![c][o] = s], UNCHANGED obligation
      PROVE  OnlyLast
  <2>1. StillOwed(o) \in Nat
    BY <1>2, OwedTyped DEF PeopleInv, DebtsAddUp
  <2>2. s.live = TRUE /\ s.excess \in Nat /\ (s.excess > 0 => s.applied = StillOwed(o))
    BY <1>2, <2>1 DEF Settlement, SmallerOf
  <2> HIDE DEF q, o, s
  <2>3. /\ settlement'[c][o] = s /\ \A d \in Party \ {c} : settlement'[d] = settlement[d]
        /\ \A p \in Obligation \ {o} : settlement'[c][p] = settlement[c][p]
    BY <1>2, <1>5 DEF PeopleInv, PeopleTypeOK
  <2>4. settlement[c] = [p \in Obligation |-> NoSettlement]
    BY <1>5, StoresKeeps
  <2> SUFFICES ASSUME NEW d \in Party, NEW p \in Obligation, settlement'[d][p].excess > settlement[d][p].excess,
                      NEW r \in ToSet(Receivables), r = p \/ petition[d].op = "collect"
               PROVE  StillOwed(r)' = 0
    BY DEF OnlyLast
  <2>5. settlement[d][p].excess \in Nat
    BY ObligationTyped DEF PeopleInv
  <2>6. d = c /\ p = o
    BY <2>3, <2>5
  <2>7. s.excess > 0
    BY <2>2, <2>3, <2>5, <2>6
  <2>8. r = p
    BY <1>1, <2>6 DEF q
  <2>9. settlement'[c][p].applied = StillOwed(p) /\ settlement'[c][p].live
    BY <2>2, <2>3, <2>6, <2>7
  <2>10. StillOwed(p)' = 0
    BY <1>5, <2>3, <2>4, <2>9, PaidOff
  <2> QED
    BY <2>8, <2>10
<1> HIDE DEF q, o, s
<1> QED
  BY <1>3, <1>4, <1>5

LEMMA ExcessOfAll ==
    ASSUME PeopleInv, NEW c \in Party, SettleReceivables(c)
    PROVE  OnlyLast
<1> DEFINE q == petition[c]
           paid == {o \in Unpaid : CashLeft(o, q.cash) > 0}
           new == [o \in Obligation |-> IF o \in paid THEN Settlement(o, CashFor(o, q.cash), q.via)
                                        ELSE settlement[c][o]]
<1>1. q \in Petitions[c] /\ q.op = "collect"
  BY DEF PeopleInv, PeopleTypeOK, SettleReceivables, Conclude, Running
<1>2. q.cash \in Nat /\ {userRow', personRow'} \subseteq Party \cup {NoOne}
  BY <1>1, SettlementAssumption DEF PeopleInv, PeopleTypeOK, SettleReceivables, Conclude, Release
<1>3. \/ UNCHANGED settledVars
      \/ Stores(c) /\ settlement' = [settlement EXCEPT ![c] = new] /\ UNCHANGED obligation
  BY <1>1, <1>2 DEF SettleReceivables, Conclude, Concludes, Stores, Repeated, PeopleInv, PeopleTypeOK, Running
<1>4. CASE UNCHANGED settledVars
  BY <1>4, ObligationTyped DEF OnlyLast, settledVars, PeopleInv
<1>5. ASSUME Stores(c), settlement' = [settlement EXCEPT ![c] = new], UNCHANGED obligation
      PROVE  OnlyLast
  <2>1. PeopleTypeOK /\ NeverOversettled /\ \A o \in Obligation : StillOwed(o) \in Nat
    BY OwedTyped DEF PeopleInv, DebtsAddUp
  <2>2. settlement[c] = [p \in Obligation |-> NoSettlement]
    BY <1>5, StoresKeeps
  <2>3. ToSet(Receivables) \in SUBSET Obligation
    BY Places
  <2>4. settlement'[c] = new /\ \A d \in Party \ {c} : settlement'[d] = settlement[d]
    BY <1>5, <2>1 DEF PeopleTypeOK
  <2> SUFFICES ASSUME NEW d \in Party, NEW o \in Obligation, settlement'[d][o].excess > settlement[d][o].excess,
                      NEW p \in ToSet(Receivables)
               PROVE  StillOwed(p)' = 0
    BY DEF OnlyLast
  <2>5. settlement[d][o].excess \in Nat
    BY <2>1, ObligationTyped
  <2>6. d = c /\ settlement[c][o].excess = 0
    BY <2>2, <2>4, <2>5 DEF NoSettlement
  <2>7. o \in paid /\ CashFor(o, q.cash) > StillOwed(o)
    <3>1. o \in paid
      BY <2>4, <2>5, <2>6
    <3>2. new[o].excess > 0 /\ new[o] = Settlement(o, CashFor(o, q.cash), q.via)
      BY <2>4, <2>6, <3>1
    <3>3. CashFor(o, q.cash) \in Nat
      <4>1. Takes(o, q.cash) \in Nat
        BY <1>2, <2>1, <3>1, AllIsTaken
      <4> QED
        BY <3>1, <4>1 DEF Takes
    <3> QED
      BY <2>1, <3>1, <3>2, <3>3 DEF Settlement, SmallerOf
  <2>8. \A r \in Unpaid : r \in paid /\ SmallerOf(CashFor(r, q.cash), StillOwed(r)) = StillOwed(r)
    BY <1>2, <2>1, <2>7, AllPaidOff
  <2>9. p \in Obligation
    BY <2>3
  <2>10. settlement'[c][p].applied = StillOwed(p) /\ (settlement'[c][p].live \/ StillOwed(p) = 0)
    <3>1. CASE p \in Unpaid
      <4>1. settlement'[c][p] = Settlement(p, CashFor(p, q.cash), q.via)
        BY <2>4, <2>8, <2>9, <3>1
      <4> QED
        BY <2>8, <3>1, <4>1 DEF Settlement
    <3>2. CASE p \notin Unpaid
      <4>1. StillOwed(p) = 0
        BY <2>1, <2>9, <3>2 DEF Unpaid
      <4>2. settlement'[c][p] = NoSettlement
        BY <2>2, <2>4, <2>9, <3>2
      <4> QED
        BY <4>1, <4>2 DEF NoSettlement
    <3> QED
      BY <3>1, <3>2
  <2> HIDE DEF new, paid, q
  <2> QED
    BY <1>5, <2>2, <2>4, <2>9, <2>10, PaidOff
<1> HIDE DEF q, paid, new
<1> QED
  BY <1>3, <1>4, <1>5

LEMMA ExcessOfNext == PeopleInv /\ [PeopleNext]_peopleVars => OnlyLast
<1> SUFFICES ASSUME PeopleInv, [PeopleNext]_peopleVars PROVE OnlyLast
  OBVIOUS
<1>1. ASSUME \A c \in Party, o \in Obligation : settlement'[c][o].excess = settlement[c][o].excess
      PROVE  OnlyLast
  BY <1>1, ObligationTyped DEF OnlyLast, PeopleInv
<1>2. ASSUME NEW c \in Party, LockUser(c) \/ LockPerson(c) \/ AbortVictim(c) \/ \E q \in Petitions[c] : Submit(c, q)
      PROVE  OnlyLast
  BY <1>1, <1>2 DEF LockUser, LockPerson, AbortVictim, Submit, settledVars
<1>3. ASSUME NEW c \in Party, RecordObligation(c) \/ UpdateObligation(c) \/ VoidObligation(c) \/ ArchivePerson(c)
      PROVE  OnlyLast
  <2>1. UNCHANGED settlement
    BY <1>3 DEF RecordObligation, UpdateObligation, VoidObligation, ArchivePerson, Conclude, Owe, settledVars
  <2> QED
    BY <1>1, <2>1
<1>4. ASSUME NEW c \in Party, Unsettle(c)
      PROVE  OnlyLast
  <2> DEFINE o == petition[c].obligation
             d == petition[c].target
  <2>1. UNCHANGED settlement \/ settlement' = [settlement EXCEPT ![d][o].live = FALSE]
    BY <1>4 DEF Unsettle, Conclude, settledVars
  <2>2. \A e \in Party, p \in Obligation : settlement'[e][p].excess = settlement[e][p].excess
    <3> DEFINE r == [settlement[d][o] EXCEPT !.live = FALSE]
    <3>1. /\ d \in Party /\ o \in Obligation
          /\ settlement \in [Party -> [Obligation -> [applied : Nat, excess : Nat, via : {"cash", "midas"},
                                                      live : BOOLEAN]]]
      BY <1>4, SettlementAssumption DEF Unsettle, Conclude, Running, PeopleInv, PeopleTypeOK
    <3>2. r.excess = settlement[d][o].excess
      BY <3>1
    <3>3. UNCHANGED settlement \/ settlement' = [settlement EXCEPT ![d] = [settlement[d] EXCEPT ![o] = r]]
      BY <2>1
    <3> HIDE DEF r, d, o
    <3>4. CASE settlement' = [settlement EXCEPT ![d] = [settlement[d] EXCEPT ![o] = r]]
      <4>1. \A e \in Party \ {d} : settlement'[e] = settlement[e]
        BY <3>1, <3>4
      <4>2. /\ \A p \in Obligation \ {o} : settlement'[d][p] = settlement[d][p]
            /\ settlement'[d][o] = r
        BY <3>1, <3>4
      <4> QED
        BY <3>2, <4>1, <4>2
    <3> QED
      BY <3>3, <3>4
  <2> QED
    BY <1>1, <2>2
<1>5. CASE UNCHANGED peopleVars
  BY <1>1, <1>5 DEF peopleVars
<1> QED
  BY <1>2, <1>3, <1>4, <1>5, ExcessOfOne, ExcessOfAll DEF PeopleNext, PartyStep

\* What a person pays counts as the user's income only once the receivable is
\* settled in full, and in a settlement of all receivables only once every
\* one of them is: each earlier receivable has taken what it was owed
\* (settlePersonReceivables of settlements.ts).
THEOREM ExcessComesLast == PeopleSpec => ExcessIsLast
<1>1. PeopleInv /\ [PeopleNext]_peopleVars => [OnlyLast]_peopleVars
  BY ExcessOfNext
<1> QED
  BY <1>1, PeopleInvInit, PeopleInvNext, PTL DEF PeopleSpec, ExcessIsLast, OnlyLast

-----------------------------------------------------------------------------
(***************************************************************************)
(* IncomeSettlements, for any claims. A stored request made one revision   *)
(* of the chain it asked to extend, which was as long then as the request  *)
(* said (Chained); hence no two made the same one, and a receipt whose     *)
(* revisions start with a request was recorded by it, so that it is not    *)
(* recorded again. The sums over settlements change at one receipt         *)
(* (SettlementGives).                                                      *)
(***************************************************************************)

-----------------------------------------------------------------------------
(* Income: the invariant.                                                  *)

\* How many revisions the chain has that a request writes to.
LengthOf(q) ==
    CASE q.op \in {"settle", "resettle"} -> shares[q.receipt].no
      [] q.op \in {"receive", "correct", "void receipt"} -> receipts[q.receipt].no
      [] OTHER -> entitlements[q.entitlement].no

IncomeRows ==
    /\ IncomeTypeOK
    /\ claim = [c \in Claimant |-> claim[c]]
    /\ \A c \in Entries : claim[c] \in Claims[c]
IncomeKeys == \A c, d \in Entries : c # d => claim[c].key # claim[d].key
\* What is stored made a revision of its chain, and no two made the same.
Chained == \A c \in Entries : BuildsOn(claim[c]) \in Nat /\ BuildsOn(claim[c]) < LengthOf(claim[c])
ChainedOnce ==
    \A c, d \in Entries : c # d /\ ChainOf(claim[c]) = ChainOf(claim[d])
                          => BuildsOn(claim[c]) # BuildsOn(claim[d])
\* A receipt that was not there at first was recorded.
Recorded ==
    \A r \in Receipt : receipts[r].no > 0 /\ Received[r] = 0
       => \E c \in Entries : claim[c].op = "receive" /\ claim[c].receipt = r

IncomeChains == IncomeKeys /\ Chained /\ ChainedOnce /\ Recorded
IncomeSums == ReceiptsCover /\ EntitlementsCap
IncomeInv == IncomeRows /\ IncomeChains /\ IncomeSums

-----------------------------------------------------------------------------
(* Income: the sums.                                                       *)

LEMMA GivenIsSum == \A f : SumOf(f) = SumFunctionOnSet(f, DOMAIN f)
  BY DEF SumOf, MapThenSumSet, SumFunctionOnSet, FoldFunctionOnSet

LEMMA GivenTyped ==
  ASSUME IncomeTypeOK
  PROVE  /\ \A r \in Receipt : GivenOf(r) \in Nat /\ GivenOf(r) = SumFunctionOnSet(shares[r].given, Entitlement)
         /\ \A e \in Entitlement : GivenTo(e, Receipt) \in Nat
<1>1. ASSUME NEW r \in Receipt
      PROVE  GivenOf(r) \in Nat /\ GivenOf(r) = SumFunctionOnSet(shares[r].given, Entitlement)
  <2>1. shares[r].given \in [Entitlement -> Nat]
    BY DEF IncomeTypeOK
  <2>2. GivenOf(r) = SumFunctionOnSet(shares[r].given, Entitlement)
    BY <2>1, GivenIsSum DEF GivenOf
  <2>3. \A e \in Entitlement : shares[r].given[e] \in Nat
    BY <2>1
  <2> QED
    BY <2>2, <2>3, ClaimAssumption, SumNatural
<1>2. ASSUME NEW e \in Entitlement
      PROVE  GivenTo(e, Receipt) \in Nat
  <2> DEFINE part == [r \in Receipt |-> shares[r].given[e]]
  <2>1. \A r \in Receipt : part[r] \in Nat
    BY DEF IncomeTypeOK
  <2>2. GivenTo(e, Receipt) = SumFunctionOnSet(part, Receipt)
    BY GivenIsSum DEF GivenTo
  <2> HIDE DEF part
  <2> QED
    BY <2>1, <2>2, ClaimAssumption, SumNatural
<1> QED
  BY <1>1, <1>2

LEMMA SettlementGives ==
  ASSUME IncomeTypeOK, NEW r \in Receipt, NEW n \in Nat, NEW given \in [Entitlement -> Nat],
         shares' = [shares EXCEPT ![r] = [no |-> n, given |-> given]]
  PROVE  /\ GivenOf(r)' = SumOf(given)
         /\ \A x \in Receipt : x # r => GivenOf(x)' = GivenOf(x)
         /\ \A e \in Entitlement :
               /\ GivenTo(e, Receipt)' = GivenTo(e, Receipt \ {r}) + given[e]
               /\ GivenTo(e, Receipt \ {r}) \in Nat
               /\ GivenTo(e, Receipt \ {r}) <= GivenTo(e, Receipt)
<1>1. shares'[r].given = given /\ \A x \in Receipt : x # r => shares'[x] = shares[x]
  BY DEF IncomeTypeOK
<1>2. GivenOf(r)' = SumOf(given) /\ \A x \in Receipt : x # r => GivenOf(x)' = GivenOf(x)
  BY <1>1 DEF GivenOf
<1>3. ASSUME NEW e \in Entitlement
      PROVE  /\ GivenTo(e, Receipt)' = GivenTo(e, Receipt \ {r}) + given[e]
             /\ GivenTo(e, Receipt \ {r}) \in Nat
             /\ GivenTo(e, Receipt \ {r}) <= GivenTo(e, Receipt)
  <2> DEFINE before == [x \in Receipt |-> shares[x].given[e]]
             after  == [x \in Receipt |-> shares'[x].given[e]]
             others == [x \in Receipt \ {r} |-> shares[x].given[e]]
  <2>1. \A x \in Receipt : before[x] \in Nat
    BY DEF IncomeTypeOK
  <2>2. after[r] = given[e] /\ given[e] \in Nat /\ \A x \in Receipt \ {r} : after[x] = before[x] /\ others[x] = before[x]
    BY <1>1
  <2>3. /\ GivenTo(e, Receipt) = SumFunctionOnSet(before, Receipt)
        /\ GivenTo(e, Receipt)' = SumFunctionOnSet(after, Receipt)
        /\ GivenTo(e, Receipt \ {r}) = SumFunctionOnSet(others, Receipt \ {r})
    BY GivenIsSum DEF GivenTo
  <2> HIDE DEF before, after, others
  <2>4. IsFiniteSet(Receipt) /\ IsFiniteSet(Receipt \ {r})
    BY ClaimAssumption, FS_Subset
  <2>5. SumFunctionOnSet(before, Receipt) = before[r] + SumFunctionOnSet(before, Receipt \ {r})
    BY <2>1, <2>4, SumTakes
  <2>6. SumFunctionOnSet(after, Receipt) = after[r] + SumFunctionOnSet(after, Receipt \ {r})
    <3>1. \A x \in Receipt : after[x] \in Int
      BY <2>1, <2>2
    <3> QED
      BY <3>1, <2>4, SumTakes
  <2>7. SumFunctionOnSet(after, Receipt \ {r}) = SumFunctionOnSet(others, Receipt \ {r})
    BY <2>1, <2>2, <2>4, SumSame
  <2>8. SumFunctionOnSet(before, Receipt \ {r}) = SumFunctionOnSet(others, Receipt \ {r})
    BY <2>1, <2>2, <2>4, SumSame
  <2>9. SumFunctionOnSet(others, Receipt \ {r}) \in Nat
    BY <2>1, <2>2, <2>4, SumNatural
  <2> QED
    BY <2>1, <2>2, <2>3, <2>5, <2>6, <2>7, <2>8, <2>9
<1> QED
  BY <1>2, <1>3

LEMMA SameSums ==
  ASSUME UNCHANGED shares
  PROVE  /\ \A r : GivenOf(r)' = GivenOf(r)
         /\ \A e, among : GivenTo(e, among)' = GivenTo(e, among)
  BY DEF GivenOf, GivenTo

-----------------------------------------------------------------------------
(* Income: the requests.                                                   *)

\* A request is answered without effect.
Dismissed(c) ==
    /\ decided[c] = Undetermined
    /\ \E answer \in {"replayed", "conflict", "refused"} : decided' = [decided EXCEPT ![c] = answer]
    /\ UNCHANGED <<attributionVars, claim, glimpse, archivedSources>>
\* Or it is stored, as the next revision of its chain.
Settled(c) ==
    /\ decided[c] = Undetermined
    /\ decided' = [decided EXCEPT ![c] = "stored"]
    /\ Keyed(claim[c]) = {}
    /\ claim[c] \in Claims[c]
    /\ UNCHANGED <<claim, glimpse, archivedSources>>
Extends(c) ==
    /\ BuildsOn(claim[c]) = LengthOf(claim[c]) /\ LengthOf(claim[c]) \in Nat
    /\ LengthOf(claim[c])' = LengthOf(claim[c]) + 1
    /\ \A d \in Claimant : d # c /\ claim[d] \in Claims[d] => LengthOf(claim[d])' \in {LengthOf(claim[d]), LengthOf(claim[d]) + 1}

LEMMA LengthTyped ==
  ASSUME IncomeTypeOK, NEW c \in Claimant, NEW q \in Claims[c]
  PROVE  LengthOf(q) \in Nat
  BY ClaimAssumption DEF IncomeTypeOK, LengthOf, OfReceipts, OfMonths, Revision

\* The chain of a request is that of a settlement, a receipt or an entitlement.
LEMMA ChainKinds ==
  ASSUME NEW c \in Claimant, NEW q \in Claims[c]
  PROVE  \/ /\ q.op \in {"settle", "resettle"} /\ q.receipt \in Receipt
            /\ LengthOf(q) = shares[q.receipt].no /\ LengthOf(q)' = shares'[q.receipt].no
         \/ /\ q.op \in {"receive", "correct", "void receipt"} /\ q.receipt \in Receipt
            /\ LengthOf(q) = receipts[q.receipt].no /\ LengthOf(q)' = receipts'[q.receipt].no
         \/ /\ q.op \in OfMonths /\ q.entitlement \in Entitlement
            /\ LengthOf(q) = entitlements[q.entitlement].no
            /\ LengthOf(q)' = entitlements'[q.entitlement].no
<1>1. \/ /\ q.op \in {"settle", "resettle"}
         /\ q.receipt \in Receipt
      \/ /\ q.op \in {"receive", "correct", "void receipt"}
         /\ q.receipt \in Receipt
      \/ /\ q.op \in OfMonths
         /\ q.entitlement \in Entitlement
  BY ClaimAssumption DEF OfReceipts
<1> QED
  BY <1>1 DEF LengthOf, OfMonths

LEMMA DismissedKeeps ==
  ASSUME IncomeInv, NEW c \in Claimant, Dismissed(c)
  PROVE  IncomeInv'
<1>1. Entries' = Entries /\ IncomeTypeOK'
  <2>1. decided' \in [Claimant -> {"stored", "replayed", "conflict", "refused", Undetermined}]
    BY DEF Dismissed, IncomeInv, IncomeRows, IncomeTypeOK
  <2>2. Entries' = Entries
    BY ClaimAssumption DEF Dismissed, Entries, IncomeInv, IncomeRows, IncomeTypeOK
  <2> QED
    BY <2>1, <2>2 DEF Dismissed, IncomeInv, IncomeRows, IncomeTypeOK, attributionVars
<1>2. IncomeRows'
  BY <1>1 DEF IncomeInv, IncomeRows, Dismissed
<1>3. IncomeSums'
  <2>1. UNCHANGED <<receipts, entitlements, shares>>
    BY DEF Dismissed, attributionVars
  <2> QED
    BY <2>1, SameSums DEF IncomeInv, IncomeSums, ReceiptsCover, EntitlementsCap
<1>4. IncomeChains'
  <2>1. UNCHANGED <<receipts, entitlements, shares, claim>>
    BY DEF Dismissed, attributionVars
  <2>2. \A q : LengthOf(q)' = LengthOf(q)
    BY <2>1 DEF LengthOf
  <2> QED
    BY <1>1, <2>1, <2>2 DEF IncomeInv, IncomeChains, IncomeKeys, Chained, ChainedOnce, Recorded
<1> QED
  BY <1>2, <1>3, <1>4 DEF IncomeInv

LEMMA SameChain ==
  ASSUME NEW q, NEW s, ChainOf(q) = ChainOf(s)
  PROVE  LengthOf(q) = LengthOf(s)
  BY DEF ChainOf, LengthOf

LEMMA StoredChains ==
  ASSUME IncomeInv, NEW c \in Claimant, Settled(c), Extends(c)
  PROVE  /\ IncomeKeys' /\ Chained' /\ ChainedOnce'
         /\ Entries' = Entries \cup {c} /\ c \notin Entries
         /\ decided' \in [Claimant -> {"stored", "replayed", "conflict", "refused", Undetermined}]
<1>1. /\ Entries' = Entries \cup {c} /\ c \notin Entries
      /\ decided' \in [Claimant -> {"stored", "replayed", "conflict", "refused", Undetermined}]
  BY ClaimAssumption DEF Settled, Entries, IncomeInv, IncomeRows, IncomeTypeOK
<1>2. claim' = claim /\ \A d \in Entries : claim[d] \in Claims[d] /\ d \in Claimant
  BY DEF Settled, IncomeInv, IncomeRows, Entries
<1>3. IncomeKeys'
  BY <1>1, <1>2 DEF IncomeInv, IncomeChains, IncomeKeys, Settled, Keyed
<1>4. ASSUME NEW d \in Entries
      PROVE  /\ BuildsOn(claim[d]) \in Nat /\ BuildsOn(claim[d]) < LengthOf(claim[d])
             /\ LengthOf(claim[d]) \in Nat
             /\ LengthOf(claim[d])' \in {LengthOf(claim[d]), LengthOf(claim[d]) + 1}
  <2>1. d \in Claimant /\ claim[d] \in Claims[d] /\ d # c
    BY <1>1, <1>2
  <2>2. LengthOf(claim[d]) \in Nat
    BY <2>1, LengthTyped DEF IncomeInv, IncomeRows
  <2> QED
    BY <2>1, <2>2 DEF IncomeInv, IncomeChains, Chained, Extends
<1>5. Chained'
  <2> SUFFICES ASSUME NEW d \in Entries'
               PROVE  BuildsOn(claim[d])' \in Nat /\ BuildsOn(claim[d])' < LengthOf(claim[d])'
    BY DEF Chained
  <2>1. BuildsOn(claim[d])' = BuildsOn(claim[d])
    BY <1>2 DEF BuildsOn
  <2>2. CASE d = c
    BY <2>1, <2>2 DEF Extends
  <2>3. CASE d \in Entries
    BY <1>4, <2>1, <2>3
  <2> QED
    BY <1>1, <2>2, <2>3
<1>6. ChainedOnce'
  <2>1. ASSUME NEW d \in Entries
        PROVE  ChainOf(claim[d]) = ChainOf(claim[c]) => BuildsOn(claim[d]) # BuildsOn(claim[c])
    BY <1>4, SameChain DEF Extends
  <2>2. \A d : BuildsOn(claim[d])' = BuildsOn(claim[d]) /\ ChainOf(claim[d])' = ChainOf(claim[d])
    BY <1>2 DEF BuildsOn, ChainOf
  <2> QED
    BY <1>1, <2>1, <2>2 DEF IncomeInv, IncomeChains, ChainedOnce
<1> QED
  BY <1>1, <1>3, <1>5, <1>6

LEMMA StoredKeeps ==
  ASSUME IncomeInv, NEW c \in Claimant, Settled(c), Extends(c),
         receipts' \in [Receipt -> Revision], entitlements' \in [Entitlement -> Revision],
         shares' \in [Receipt -> [no : Nat, given : [Entitlement -> Nat]]],
         \A r \in Receipt : receipts'[r].no > 0 /\ receipts[r].no = 0
            => claim[c].op = "receive" /\ claim[c].receipt = r
  PROVE  IncomeRows' /\ IncomeChains'
<1>1. /\ IncomeKeys' /\ Chained' /\ ChainedOnce'
      /\ Entries' = Entries \cup {c}
      /\ decided' \in [Claimant -> {"stored", "replayed", "conflict", "refused", Undetermined}]
  BY StoredChains
<1>2. IncomeTypeOK' /\ claim' = claim
  BY <1>1 DEF IncomeInv, IncomeRows, IncomeTypeOK, Settled
<1>3. IncomeRows'
  BY <1>1, <1>2 DEF IncomeInv, IncomeRows, Settled
<1>4. Recorded'
  <2> SUFFICES ASSUME NEW r \in Receipt, receipts'[r].no > 0, Received[r] = 0
               PROVE  \E d \in Entries' : claim'[d].op = "receive" /\ claim'[d].receipt = r
    BY DEF Recorded
  <2>1. CASE receipts[r].no = 0
    BY <1>1, <1>2, <2>1
  <2>2. CASE receipts[r].no > 0
    BY <1>1, <1>2, <2>2 DEF IncomeInv, IncomeChains, Recorded
  <2>3. receipts[r].no \in Nat
    BY DEF IncomeInv, IncomeRows, IncomeTypeOK, Revision
  <2> QED
    BY <2>1, <2>2, <2>3
<1> QED
  BY <1>1, <1>3, <1>4 DEF IncomeChains

\* A settlement, a receipt or an entitlement gets its next revision.
LEMMA SettlementExtends ==
  ASSUME IncomeInv, NEW c \in Claimant, Settled(c), claim[c].op \in {"settle", "resettle"},
         BuildsOn(claim[c]) = shares[claim[c].receipt].no,
         shares' = [shares EXCEPT ![claim[c].receipt] = [no |-> shares[claim[c].receipt].no + 1,
                                                         given |-> claim[c].given]],
         UNCHANGED <<receipts, entitlements>>
  PROVE  IncomeRows' /\ IncomeChains'
<1>1. claim[c].receipt \in Receipt /\ claim[c].given \in [Entitlement -> Nat] /\ claim' = claim
  BY ClaimAssumption DEF Settled, OfMonths
<1>2. shares' \in [Receipt -> [no : Nat, given : [Entitlement -> Nat]]]
  BY <1>1 DEF IncomeInv, IncomeRows, IncomeTypeOK
<1>3. \A r \in Receipt : /\ shares[r].no \in Nat
                         /\ shares'[r].no = IF r = claim[c].receipt THEN shares[r].no + 1 ELSE shares[r].no
  BY <1>1 DEF IncomeInv, IncomeRows, IncomeTypeOK
<1>4. Extends(c)
  <2>1. /\ LengthOf(claim[c]) = shares[claim[c].receipt].no
        /\ LengthOf(claim[c])' = shares'[claim[c].receipt].no
    BY <1>1 DEF LengthOf
  <2>2. ASSUME NEW d \in Claimant, claim[d] \in Claims[d]
        PROVE  LengthOf(claim[d])' \in {LengthOf(claim[d]), LengthOf(claim[d]) + 1}
    <3>1. ASSUME NEW q \in Claims[d]
          PROVE  LengthOf(q)' \in {LengthOf(q), LengthOf(q) + 1}
      <4>1. CASE q.op \in {"settle", "resettle"} /\ q.receipt \in Receipt
        <5>1. LengthOf(q) = shares[q.receipt].no /\ LengthOf(q)' = shares'[q.receipt].no
          BY <4>1 DEF LengthOf
        <5>2. shares'[q.receipt].no \in {shares[q.receipt].no, shares[q.receipt].no + 1}
          BY <1>3, <4>1
        <5> QED
          BY <5>1, <5>2
      <4>2. CASE q.op \notin {"settle", "resettle"}
        BY <4>2 DEF LengthOf
      <4>3. q.op \in {"settle", "resettle"} => q.receipt \in Receipt
        BY ChainKinds DEF OfMonths
      <4> QED
        BY <4>1, <4>2, <4>3
    <3>2. ASSUME NEW q, q = claim[d], q = claim'[d]
          PROVE  LengthOf(claim[d])' = LengthOf(q)' /\ LengthOf(claim[d]) = LengthOf(q)
      BY <3>2 DEF LengthOf
    <3> QED
      BY <1>1, <2>2, <3>1, <3>2
  <2> QED
    BY <1>1, <1>3, <2>1, <2>2 DEF Extends
<1>5. /\ receipts \in [Receipt -> Revision] /\ entitlements \in [Entitlement -> Revision]
      /\ shares \in [Receipt -> [no : Nat, given : [Entitlement -> Nat]]]
  BY DEF IncomeInv, IncomeRows, IncomeTypeOK
<1> QED
  BY <1>2, <1>4, <1>5, StoredKeeps

\* Only a new receipt gets its first revision.
LEMMA OnlyTheRevised ==
  ASSUME NEW at \in Receipt, NEW op, op = "receive" \/ receipts[at].no # 0,
         \A r \in Receipt : /\ receipts[r].no \in Nat
                            /\ receipts'[r].no = IF r = at THEN receipts[r].no + 1 ELSE receipts[r].no
  PROVE  \A r \in Receipt : receipts'[r].no > 0 /\ receipts[r].no = 0 => op = "receive" /\ at = r
  OBVIOUS

LEMMA ReceiptExtends ==
  ASSUME IncomeInv, NEW c \in Claimant, Settled(c), claim[c].op \in {"receive", "correct", "void receipt"},
         NEW row \in Revision, row.no = receipts[claim[c].receipt].no + 1,
         BuildsOn(claim[c]) = receipts[claim[c].receipt].no,
         claim[c].op = "receive" \/ receipts[claim[c].receipt].no # 0,
         receipts' = [receipts EXCEPT ![claim[c].receipt] = row],
         UNCHANGED <<entitlements, shares>>
  PROVE  IncomeRows' /\ IncomeChains'
<1>1. claim[c].receipt \in Receipt /\ claim' = claim
  BY ClaimAssumption DEF Settled, OfMonths
<1>2. receipts' \in [Receipt -> Revision]
  BY <1>1 DEF IncomeInv, IncomeRows, IncomeTypeOK
<1>3. \A r \in Receipt : /\ receipts[r].no \in Nat
                         /\ receipts'[r].no = IF r = claim[c].receipt THEN receipts[r].no + 1 ELSE receipts[r].no
  BY <1>1 DEF IncomeInv, IncomeRows, IncomeTypeOK, Revision
<1>4. Extends(c)
  <2>1. /\ LengthOf(claim[c]) = receipts[claim[c].receipt].no
        /\ LengthOf(claim[c])' = receipts'[claim[c].receipt].no
    BY <1>1 DEF LengthOf
  <2>2. ASSUME NEW d \in Claimant, claim[d] \in Claims[d]
        PROVE  LengthOf(claim[d])' \in {LengthOf(claim[d]), LengthOf(claim[d]) + 1}
    <3>1. ASSUME NEW q \in Claims[d]
          PROVE  LengthOf(q)' \in {LengthOf(q), LengthOf(q) + 1}
      <4>1. CASE q.op \in {"receive", "correct", "void receipt"} /\ q.receipt \in Receipt
        <5>1. LengthOf(q) = receipts[q.receipt].no /\ LengthOf(q)' = receipts'[q.receipt].no
          BY <4>1 DEF LengthOf
        <5>2. receipts'[q.receipt].no \in {receipts[q.receipt].no, receipts[q.receipt].no + 1}
          BY <1>3, <4>1
        <5> QED
          BY <5>1, <5>2
      <4>2. CASE q.op \notin {"receive", "correct", "void receipt"}
        BY <4>2 DEF LengthOf
      <4>3. q.op \in {"receive", "correct", "void receipt"} => q.receipt \in Receipt
        BY ChainKinds DEF OfMonths
      <4> QED
        BY <4>1, <4>2, <4>3
    <3>2. ASSUME NEW q, q = claim[d], q = claim'[d]
          PROVE  LengthOf(claim[d])' = LengthOf(q)' /\ LengthOf(claim[d]) = LengthOf(q)
      BY <3>2 DEF LengthOf
    <3> QED
      BY <1>1, <2>2, <3>1, <3>2
  <2> QED
    BY <1>1, <1>3, <2>1, <2>2 DEF Extends
<1>5. /\ receipts \in [Receipt -> Revision] /\ entitlements \in [Entitlement -> Revision]
      /\ shares \in [Receipt -> [no : Nat, given : [Entitlement -> Nat]]]
  BY DEF IncomeInv, IncomeRows, IncomeTypeOK
<1>6. \A r \in Receipt : receipts'[r].no > 0 /\ receipts[r].no = 0 => claim[c].op = "receive" /\ claim[c].receipt = r
  BY <1>1, <1>3, OnlyTheRevised
<1> QED
  BY <1>2, <1>4, <1>5, <1>6, StoredKeeps

LEMMA EntitlementExtends ==
  ASSUME IncomeInv, NEW c \in Claimant, Settled(c), claim[c].op \in OfMonths,
         NEW row \in Revision, row.no = entitlements[claim[c].entitlement].no + 1,
         BuildsOn(claim[c]) = entitlements[claim[c].entitlement].no,
         entitlements' = [entitlements EXCEPT ![claim[c].entitlement] = row],
         UNCHANGED <<receipts, shares>>
  PROVE  IncomeRows' /\ IncomeChains'
<1>1. claim[c].entitlement \in Entitlement /\ claim' = claim
  BY ClaimAssumption DEF Settled, OfMonths, OfReceipts
<1>2. entitlements' \in [Entitlement -> Revision]
  BY <1>1 DEF IncomeInv, IncomeRows, IncomeTypeOK
<1>3. \A e \in Entitlement :
        /\ entitlements[e].no \in Nat
        /\ entitlements'[e].no = IF e = claim[c].entitlement THEN entitlements[e].no + 1 ELSE entitlements[e].no
  BY <1>1 DEF IncomeInv, IncomeRows, IncomeTypeOK, Revision
<1>4. Extends(c)
  <2>1. /\ LengthOf(claim[c]) = entitlements[claim[c].entitlement].no
        /\ LengthOf(claim[c])' = entitlements'[claim[c].entitlement].no
    BY <1>1 DEF LengthOf, OfMonths
  <2>2. ASSUME NEW d \in Claimant, claim[d] \in Claims[d]
        PROVE  LengthOf(claim[d])' \in {LengthOf(claim[d]), LengthOf(claim[d]) + 1}
    <3>1. ASSUME NEW q \in Claims[d]
          PROVE  LengthOf(q)' \in {LengthOf(q), LengthOf(q) + 1}
      <4>1. CASE q.op \in OfMonths /\ q.entitlement \in Entitlement
        <5>1. LengthOf(q) = entitlements[q.entitlement].no /\ LengthOf(q)' = entitlements'[q.entitlement].no
          BY <4>1 DEF LengthOf, OfMonths
        <5>2. entitlements'[q.entitlement].no \in {entitlements[q.entitlement].no, entitlements[q.entitlement].no + 1}
          BY <1>3, <4>1
        <5> QED
          BY <5>1, <5>2
      <4>2. CASE q.op \in {"settle", "resettle", "receive", "correct", "void receipt"}
        BY <4>2 DEF LengthOf
      <4>3. \/ q.op \in OfMonths /\ q.entitlement \in Entitlement
            \/ q.op \in {"settle", "resettle", "receive", "correct", "void receipt"}
        BY ChainKinds
      <4> QED
        BY <4>1, <4>2, <4>3
    <3>2. ASSUME NEW q, q = claim[d], q = claim'[d]
          PROVE  LengthOf(claim[d])' = LengthOf(q)' /\ LengthOf(claim[d]) = LengthOf(q)
      BY <3>2 DEF LengthOf
    <3> QED
      BY <1>1, <2>2, <3>1, <3>2
  <2> QED
    BY <1>1, <1>3, <2>1, <2>2 DEF Extends
<1>5. /\ receipts \in [Receipt -> Revision] /\ entitlements \in [Entitlement -> Revision]
      /\ shares \in [Receipt -> [no : Nat, given : [Entitlement -> Nat]]]
  BY DEF IncomeInv, IncomeRows, IncomeTypeOK
<1> QED
  BY <1>2, <1>4, <1>5, StoredKeeps

-----------------------------------------------------------------------------
(* Income: the actions.                                                    *)

LEMMA Claimed ==
  ASSUME IncomeInv, NEW c \in Claimant, claim[c].op \in OfReceipts \cup OfMonths
  PROVE  claim[c] \in Claims[c]
<1>1. claim[c] \in Claims[c] \cup {NoClaim}
  BY DEF IncomeInv, IncomeRows, IncomeTypeOK
<1>2. NoClaim.op \notin OfReceipts \cup OfMonths
  BY DEF NoClaim, OfReceipts, OfMonths
<1> QED
  BY <1>1, <1>2

LEMMA SettleKeepsSums ==
  ASSUME IncomeInv, NEW r \in Receipt, NEW given \in [Entitlement -> Nat], NEW n \in Nat,
         Attributable(r, given),
         shares' = [shares EXCEPT ![r] = [no |-> n, given |-> given]],
         UNCHANGED <<receipts, entitlements>>
  PROVE  IncomeSums'
<1>1. IncomeTypeOK /\ ReceiptsCover /\ EntitlementsCap
  BY DEF IncomeInv, IncomeRows, IncomeSums
<1>2. ReceiptsCover'
  <2> SUFFICES ASSUME NEW x \in Receipt PROVE GivenOf(x)' <= Worth(receipts[x])
    BY DEF ReceiptsCover, Worth, Stands
  <2>1. CASE x = r
    BY <1>1, <2>1, SettlementGives DEF Attributable, Worth
  <2>2. CASE x # r
    BY <1>1, <2>2, SettlementGives DEF ReceiptsCover
  <2> QED
    BY <2>1, <2>2
<1>3. EntitlementsCap'
  <2> SUFFICES ASSUME NEW e \in Entitlement PROVE GivenTo(e, Receipt)' <= Worth(entitlements[e])
    BY DEF EntitlementsCap, Worth, Stands
  <2>1. /\ GivenTo(e, Receipt)' = GivenTo(e, Receipt \ {r}) + given[e]
        /\ GivenTo(e, Receipt \ {r}) \in Nat
        /\ GivenTo(e, Receipt \ {r}) <= GivenTo(e, Receipt)
    BY <1>1, SettlementGives
  <2>2. CASE given[e] > 0
    BY <2>1, <2>2 DEF Attributable, Worth
  <2>3. CASE given[e] = 0
    <3>1. GivenTo(e, Receipt) \in Nat /\ GivenTo(e, Receipt) <= Worth(entitlements[e])
      BY <1>1, GivenTyped DEF EntitlementsCap
    <3>2. Worth(entitlements[e]) \in Nat
      BY <1>1 DEF IncomeTypeOK, Worth, Stands, Revision
    <3> QED
      BY <2>1, <2>3, <3>1, <3>2
  <2>4. given[e] \in Nat
    OBVIOUS
  <2> QED
    BY <2>2, <2>3, <2>4
<1> QED
  BY <1>2, <1>3 DEF IncomeSums

LEMMA SettlementKeeps ==
  ASSUME IncomeInv, NEW c \in Claimant, CreateSettlement(c) \/ ReviseSettlement(c)
  PROVE  IncomeInv'
<1> DEFINE q == claim[c] r == q.receipt
<1>1. q \in Claims[c] /\ q.op \in {"settle", "resettle"}
  BY Claimed DEF CreateSettlement, ReviseSettlement, OfReceipts
<1>2. r \in Receipt /\ q.given \in [Entitlement -> Nat] /\ shares[r].no \in Nat
  BY <1>1, ClaimAssumption DEF IncomeInv, IncomeRows, IncomeTypeOK, OfMonths
<1>3. \/ Dismissed(c)
      \/ /\ Settled(c) /\ Attributable(r, q.given) /\ BuildsOn(q) = shares[r].no
         /\ shares' = [shares EXCEPT ![r] = [no |-> shares[r].no + 1, given |-> q.given]]
         /\ UNCHANGED <<receipts, entitlements>>
  <2>1. CASE CreateSettlement(c)
    <3>1. \/ Dismissed(c)
          \/ /\ Settled(c) /\ Attributable(r, q.given) /\ shares[r].no = 0
             /\ shares' = [shares EXCEPT ![r] = [no |-> 1, given |-> q.given]]
             /\ UNCHANGED <<receipts, entitlements>>
      BY <1>1, <2>1 DEF CreateSettlement, Answering, Dismissed, Settled, Remembered
    <3>2. BuildsOn(q) = 0
      BY <2>1 DEF CreateSettlement, BuildsOn, Creating
    <3>3. shares[r].no = 0 => shares[r].no + 1 = 1
      OBVIOUS
    <3> QED
      BY <3>1, <3>2, <3>3
  <2>2. CASE ReviseSettlement(c)
    BY <1>1, <1>2, <2>2 DEF ReviseSettlement, Answering, Dismissed, Settled, Remembered, BuildsOn, Creating
  <2> QED
    BY <2>1, <2>2
<1>4. CASE ~Dismissed(c)
  <2>1. IncomeSums'
    <3>1. shares[r].no + 1 \in Nat
      BY <1>2
    <3> QED
      BY <1>2, <1>3, <1>4, <3>1, SettleKeepsSums
  <2>2. IncomeRows' /\ IncomeChains'
    BY <1>1, <1>3, <1>4, SettlementExtends
  <2> QED
    BY <2>1, <2>2 DEF IncomeInv
<1> QED
  BY <1>4, DismissedKeeps

LEMMA RecordKeeps ==
  ASSUME IncomeInv, NEW c \in Claimant, RecordReceipt(c)
  PROVE  IncomeInv'
<1> DEFINE q == claim[c] r == q.receipt
<1>1. q \in Claims[c] /\ q.op = "receive"
  BY Claimed DEF RecordReceipt, OfReceipts
<1>2. r \in Receipt /\ q.amount \in Nat \ {0} /\ receipts[r] \in Revision
  BY <1>1, ClaimAssumption DEF IncomeInv, IncomeRows, IncomeTypeOK, OfMonths
<1>3. \/ Dismissed(c)
      \/ /\ Settled(c)
         /\ receipts' = [receipts EXCEPT ![r] = First(q.amount)]
         /\ UNCHANGED <<entitlements, shares>>
  BY <1>1 DEF RecordReceipt, Answering, Dismissed, Settled, Remembered
<1>4. CASE ~Dismissed(c)
  <2>1. receipts[r].no = 0
    <3> SUFFICES ASSUME receipts[r].no > 0 PROVE FALSE
      BY <1>2 DEF Revision
    <3>1. PICK d \in Entries : claim[d].op = "receive" /\ claim[d].receipt = r
      BY <1>1, <1>2, ClaimAssumption DEF IncomeInv, IncomeChains, Recorded
    <3>2. claim[d].key = q.key
      BY <1>1, <3>1, ClaimAssumption DEF IncomeInv, IncomeRows, Entries
    <3> QED
      BY <1>3, <1>4, <3>2 DEF Settled, Keyed
  <2>2. First(q.amount) \in Revision /\ First(q.amount).no = 1
    BY <1>2 DEF First, Revision
  <2>3. BuildsOn(q) = 0
    BY <1>1 DEF BuildsOn, Creating
  <2>4. IncomeRows' /\ IncomeChains'
    <3>1. First(q.amount).no = receipts[r].no + 1 /\ BuildsOn(q) = receipts[r].no
      BY <2>1, <2>2, <2>3
    <3> QED
      BY <1>1, <1>3, <1>4, <2>2, <3>1, ReceiptExtends
  <2>5. IncomeSums'
    <3>1. \A x \in Receipt : x # r => receipts'[x] = receipts[x]
      BY <1>2, <1>3, <1>4 DEF IncomeInv, IncomeRows, IncomeTypeOK
    <3>2. receipts'[r] = First(q.amount)
      BY <1>2, <1>3, <1>4 DEF IncomeInv, IncomeRows, IncomeTypeOK
    <3>3. GivenOf(r) \in Nat /\ GivenOf(r) <= 0
      BY <1>2, <2>1, GivenTyped DEF IncomeInv, IncomeRows, IncomeSums, ReceiptsCover, Worth, Stands
    <3>4. Worth(receipts'[r]) \in Nat
      BY <1>2, <3>2 DEF First, Worth, Stands
    <3> QED
      BY <1>3, <1>4, <3>1, <3>3, <3>4, SameSums DEF IncomeInv, IncomeSums, ReceiptsCover, EntitlementsCap, Worth, Stands
  <2> QED
    BY <2>4, <2>5 DEF IncomeInv
<1> QED
  BY <1>4, DismissedKeeps

\* A correction and a voiding leave what the receipt gives covered.
LEMMA CorrectKeeps ==
  ASSUME IncomeInv, NEW c \in Claimant, ReviseReceipt(c) \/ VoidReceipt(c)
  PROVE  IncomeInv'
<1> DEFINE q == claim[c] r == q.receipt
<1>1. q \in Claims[c] /\ q.op \in {"correct", "void receipt"}
  BY Claimed DEF ReviseReceipt, VoidReceipt, OfReceipts
<1>2. r \in Receipt /\ receipts[r] \in Revision /\ q.expected \in Nat \ {0}
  BY <1>1, ClaimAssumption DEF IncomeInv, IncomeRows, IncomeTypeOK, OfMonths, Creating
<1>3. \/ Dismissed(c)
      \/ /\ Settled(c) /\ receipts[r].no = q.expected
         /\ UNCHANGED <<entitlements, shares>>
         /\ \E row \in Revision :
               /\ row.no = receipts[r].no + 1 /\ GivenOf(r) <= Worth(row)
               /\ receipts' = [receipts EXCEPT ![r] = row]
  <2>1. CASE ReviseReceipt(c)
    <3> DEFINE row == Amended(receipts[r], q.amount)
    <3>1. q.amount \in Nat
      BY <1>1, <2>1, ClaimAssumption DEF ReviseReceipt
    <3>2. row \in Revision /\ row.no = receipts[r].no + 1 /\ row.amount = q.amount /\ row.void = receipts[r].void
      BY <1>2, <3>1 DEF Amended, Revision
    <3>3. AtLatest(receipts[r], q.expected) /\ q.amount >= GivenOf(r) => GivenOf(r) <= Worth(row)
      BY <1>2, <3>1, <3>2, GivenTyped DEF AtLatest, Worth, Stands, Revision, IncomeInv, IncomeRows
    <3> HIDE DEF row
    <3>4. \/ Dismissed(c)
          \/ /\ Settled(c) /\ AtLatest(receipts[r], q.expected) /\ q.amount >= GivenOf(r)
             /\ receipts' = [receipts EXCEPT ![r] = row] /\ UNCHANGED <<entitlements, shares>>
      BY <1>1, <2>1 DEF ReviseReceipt, Answering, Dismissed, Settled, Remembered, row
    <3> QED
      BY <3>2, <3>3, <3>4 DEF AtLatest
  <2>2. CASE VoidReceipt(c)
    <3> DEFINE row == Voided(receipts[r])
    <3>1. row \in Revision /\ row.no = receipts[r].no + 1 /\ row.void
      BY <1>2 DEF Voided, Revision
    <3>2. GivenOf(r) = 0 => GivenOf(r) <= Worth(row)
      BY <3>1 DEF Worth, Stands
    <3> HIDE DEF row
    <3>3. \/ Dismissed(c)
          \/ /\ Settled(c) /\ AtLatest(receipts[r], q.expected) /\ GivenOf(r) = 0
             /\ receipts' = [receipts EXCEPT ![r] = row] /\ UNCHANGED <<entitlements, shares>>
      BY <1>1, <2>2 DEF VoidReceipt, Answering, Dismissed, Settled, Remembered, row
    <3> QED
      BY <3>1, <3>2, <3>3 DEF AtLatest
  <2> QED
    BY <2>1, <2>2
<1>4. CASE ~Dismissed(c)
  <2>1. PICK row \in Revision :
          /\ row.no = receipts[r].no + 1 /\ GivenOf(r) <= Worth(row)
          /\ receipts' = [receipts EXCEPT ![r] = row]
    BY <1>3, <1>4
  <2>2. BuildsOn(q) = receipts[r].no /\ receipts[r].no # 0
    <3>1. receipts[r].no = q.expected
      BY <1>3, <1>4
    <3>2. BuildsOn(q) = q.expected
      BY <1>1 DEF BuildsOn, Creating
    <3> QED
      BY <1>2, <3>1, <3>2
  <2>3. IncomeRows' /\ IncomeChains'
    BY <1>1, <1>3, <1>4, <2>1, <2>2, ReceiptExtends
  <2>4. receipts'[r] = row /\ \A x \in Receipt : x # r => receipts'[x] = receipts[x]
    BY <1>2, <2>1 DEF IncomeInv, IncomeRows, IncomeTypeOK
  <2>5. IncomeSums'
    BY <1>3, <1>4, <2>1, <2>4, SameSums DEF IncomeInv, IncomeSums, ReceiptsCover, EntitlementsCap, Worth, Stands
  <2> QED
    BY <2>3, <2>5 DEF IncomeInv
<1> QED
  BY <1>4, DismissedKeeps

LEMMA EntitleKeeps ==
  ASSUME IncomeInv, NEW c \in Claimant, CreateEntitlement(c) \/ ReviseEntitlement(c) \/ VoidEntitlement(c)
  PROVE  IncomeInv'
<1> DEFINE q == claim[c] e == q.entitlement
<1>1. q \in Claims[c] /\ q.op \in OfMonths
  BY Claimed DEF CreateEntitlement, ReviseEntitlement, VoidEntitlement, OfMonths
<1>2. e \in Entitlement /\ entitlements[e] \in Revision /\ GivenTo(e, Receipt) \in Nat
  BY <1>1, ClaimAssumption, GivenTyped DEF IncomeInv, IncomeRows, IncomeTypeOK, OfMonths, OfReceipts
<1>3. \/ Dismissed(c)
      \/ /\ Settled(c) /\ BuildsOn(q) = entitlements[e].no
         /\ UNCHANGED <<receipts, shares>>
         /\ \E row \in Revision :
               /\ row.no = entitlements[e].no + 1 /\ GivenTo(e, Receipt) <= Worth(row)
               /\ entitlements' = [entitlements EXCEPT ![e] = row]
  <2>1. CASE CreateEntitlement(c)
    <3> DEFINE row == First(q.amount)
    <3>1. q.op = "entitle" /\ q.amount \in Nat \ {0} /\ BuildsOn(q) = 0
      BY <1>1, <2>1, ClaimAssumption DEF CreateEntitlement, BuildsOn, Creating
    <3>2. row \in Revision /\ row.no = 1 /\ Worth(row) \in Nat
      BY <3>1 DEF First, Revision, Worth, Stands
    <3>3. entitlements[e].no = 0 => GivenTo(e, Receipt) <= Worth(row)
      BY <1>2, <3>2 DEF IncomeInv, IncomeSums, EntitlementsCap, Worth, Stands
    <3> HIDE DEF row
    <3>4. \/ Dismissed(c)
          \/ /\ Settled(c) /\ entitlements[e].no = 0
             /\ entitlements' = [entitlements EXCEPT ![e] = row] /\ UNCHANGED <<receipts, shares>>
      BY <1>1, <2>1 DEF CreateEntitlement, Answering, Dismissed, Settled, Remembered, row
    <3> QED
      BY <3>1, <3>2, <3>3, <3>4
  <2>2. CASE ReviseEntitlement(c)
    <3> DEFINE row == Amended(entitlements[e], q.amount)
    <3>1. q.op = "adjust" /\ q.amount \in Nat /\ q.expected \in Nat \ {0} /\ BuildsOn(q) = q.expected
      BY <1>1, <2>2, ClaimAssumption DEF ReviseEntitlement, BuildsOn, Creating
    <3>2. row \in Revision /\ row.no = entitlements[e].no + 1 /\ row.amount = q.amount
          /\ row.void = entitlements[e].void
      BY <1>2, <3>1 DEF Amended, Revision
    <3>3. AtLatest(entitlements[e], q.expected) /\ q.amount >= GivenTo(e, Receipt)
            => GivenTo(e, Receipt) <= Worth(row)
      BY <1>2, <3>1, <3>2 DEF AtLatest, Worth, Stands, Revision
    <3> HIDE DEF row
    <3>4. \/ Dismissed(c)
          \/ /\ Settled(c) /\ AtLatest(entitlements[e], q.expected) /\ q.amount >= GivenTo(e, Receipt)
             /\ entitlements' = [entitlements EXCEPT ![e] = row] /\ UNCHANGED <<receipts, shares>>
      BY <1>1, <2>2 DEF ReviseEntitlement, Answering, Dismissed, Settled, Remembered, row
    <3> QED
      BY <3>1, <3>2, <3>3, <3>4 DEF AtLatest
  <2>3. CASE VoidEntitlement(c)
    <3> DEFINE row == Voided(entitlements[e])
    <3>1. q.op = "void entitlement" /\ BuildsOn(q) = q.expected
      BY <2>3 DEF VoidEntitlement, BuildsOn, Creating
    <3>2. row \in Revision /\ row.no = entitlements[e].no + 1 /\ row.void
      BY <1>2 DEF Voided, Revision
    <3>3. GivenTo(e, Receipt) = 0 => GivenTo(e, Receipt) <= Worth(row)
      BY <3>2 DEF Worth, Stands
    <3> HIDE DEF row
    <3>4. \/ Dismissed(c)
          \/ /\ Settled(c) /\ AtLatest(entitlements[e], q.expected) /\ GivenTo(e, Receipt) = 0
             /\ entitlements' = [entitlements EXCEPT ![e] = row] /\ UNCHANGED <<receipts, shares>>
      BY <1>1, <2>3 DEF VoidEntitlement, Answering, Dismissed, Settled, Remembered, row
    <3> QED
      BY <3>1, <3>2, <3>3, <3>4 DEF AtLatest
  <2> QED
    BY <2>1, <2>2, <2>3
<1>4. CASE ~Dismissed(c)
  <2>1. PICK row \in Revision :
          /\ row.no = entitlements[e].no + 1 /\ GivenTo(e, Receipt) <= Worth(row)
          /\ entitlements' = [entitlements EXCEPT ![e] = row]
    BY <1>3, <1>4
  <2>2. IncomeRows' /\ IncomeChains'
    BY <1>1, <1>3, <1>4, <2>1, EntitlementExtends
  <2>3. entitlements'[e] = row /\ \A x \in Entitlement : x # e => entitlements'[x] = entitlements[x]
    BY <1>2, <2>1 DEF IncomeInv, IncomeRows, IncomeTypeOK
  <2>4. IncomeSums'
    BY <1>3, <1>4, <2>1, <2>3, SameSums DEF IncomeInv, IncomeSums, ReceiptsCover, EntitlementsCap, Worth, Stands
  <2> QED
    BY <2>2, <2>4 DEF IncomeInv
<1> QED
  BY <1>4, DismissedKeeps

LEMMA ApproachKeeps ==
  ASSUME IncomeInv, NEW c \in Claimant, NEW q \in Claims[c], Approach(c, q)
  PROVE  IncomeInv'
<1>1. claim[c] = NoClaim /\ claim' = [claim EXCEPT ![c] = q] /\ UNCHANGED <<receipts, entitlements, shares, archivedSources>>
  BY DEF Approach, attributionVars
<1>2. /\ glimpse' \in [Claimant -> [found : BOOLEAN, archived : BOOLEAN]]
      /\ \E answer \in {"replayed", "conflict", "refused", Undetermined} : decided' = [decided EXCEPT ![c] = answer]
  <2> DEFINE saw == CASE q.op = "entitle" -> [found |-> entitlements[q.entitlement].no > 0,
                                             archived |-> SourceOf[q.entitlement] \in archivedSources]
                      [] q.op = "receive" -> [found |-> FALSE, archived |-> SourceOf[q.receipt] \in archivedSources]
                      [] OTHER            -> Unseen
             answer == IF FoundEarly(q) # {} THEN Remembered(q)
                       ELSE IF q.op = "resettle" /\ q.expected > shares[q.receipt].no THEN "refused"
                       ELSE Undetermined
  <2>1. glimpse' = [glimpse EXCEPT ![c] = saw] /\ decided' = [decided EXCEPT ![c] = answer]
    BY DEF Approach
  <2>2. answer \in {"replayed", "conflict", "refused", Undetermined}
    BY DEF Remembered
  <2>3. saw \in [found : BOOLEAN, archived : BOOLEAN]
    <3>1. CASE q.op = "entitle"
      BY <3>1
    <3>2. CASE q.op = "receive"
      BY <3>2
    <3>3. CASE q.op \notin {"entitle", "receive"}
      BY <3>3 DEF Unseen
    <3> QED
      BY <3>1, <3>2, <3>3
  <2> HIDE DEF saw, answer
  <2> QED
    BY <2>1, <2>2, <2>3 DEF IncomeInv, IncomeRows, IncomeTypeOK
<1>3. c \notin Entries /\ Entries' = Entries
  <2>1. c \notin Entries
    <3>1. NoClaim.op \notin OfReceipts \cup OfMonths
      BY DEF NoClaim, OfReceipts, OfMonths
    <3>2. NoClaim \notin Claims[c]
      BY <3>1, ClaimAssumption
    <3> QED
      BY <1>1, <3>2 DEF IncomeInv, IncomeRows
  <2> QED
    BY <1>2, <2>1, ClaimAssumption DEF Entries, IncomeInv, IncomeRows, IncomeTypeOK
<1>4. \A d \in Claimant : claim'[d] = IF d = c THEN q ELSE claim[d]
  BY <1>1 DEF IncomeInv, IncomeRows
<1>5. IncomeRows'
  <2>1. claim' = [d \in Claimant |-> claim'[d]]
    BY <1>1 DEF IncomeInv, IncomeRows
  <2>2. IncomeTypeOK'
    BY <1>1, <1>2, <1>4 DEF IncomeInv, IncomeRows, IncomeTypeOK
  <2> QED
    BY <1>3, <1>4, <2>1, <2>2 DEF IncomeInv, IncomeRows, Entries
<1>6. IncomeSums'
  BY <1>1, SameSums DEF IncomeInv, IncomeSums, ReceiptsCover, EntitlementsCap
<1>7. IncomeChains'
  <2>1. \A x : LengthOf(x)' = LengthOf(x)
    BY <1>1 DEF LengthOf
  <2>2. \A d \in Entries : claim'[d] = claim[d]
    BY <1>3, <1>4 DEF Entries
  <2> QED
    BY <1>1, <1>3, <2>1, <2>2 DEF IncomeInv, IncomeChains, IncomeKeys, Chained, ChainedOnce, Recorded
<1> QED
  BY <1>5, <1>6, <1>7 DEF IncomeInv

LEMMA UntouchedIncome ==
  ASSUME IncomeInv, UNCHANGED <<attributionVars, claim, glimpse, decided>>, archivedSources' \subseteq IncomeSource
  PROVE  IncomeInv'
<1>1. UNCHANGED <<receipts, entitlements, shares, claim, glimpse, decided>> /\ Entries' = Entries
  BY DEF attributionVars, Entries
<1>2. IncomeRows'
  BY <1>1 DEF IncomeInv, IncomeRows, IncomeTypeOK
<1>3. IncomeSums'
  BY <1>1, SameSums DEF IncomeInv, IncomeSums, ReceiptsCover, EntitlementsCap
<1>4. IncomeChains'
  <2>1. \A q : LengthOf(q)' = LengthOf(q)
    BY <1>1 DEF LengthOf
  <2> QED
    BY <1>1, <2>1 DEF IncomeInv, IncomeChains, IncomeKeys, Chained, ChainedOnce, Recorded
<1> QED
  BY <1>2, <1>3, <1>4 DEF IncomeInv

LEMMA InitIncome == IncomeInit => IncomeInv
<1> SUFFICES ASSUME IncomeInit PROVE IncomeInv
  OBVIOUS
<1>1. IncomeTypeOK
  BY ClaimAssumption DEF IncomeInit, IncomeTypeOK, First, Revision, NoShares, Unseen
<1>2. Entries = {}
  BY ClaimAssumption DEF IncomeInit, Entries
<1>3. IncomeRows /\ IncomeChains
  <2>1. \A r \in Receipt : Received[r] = 0 => receipts[r].no = 0
    BY DEF IncomeInit, First
  <2> QED
    BY <1>1, <1>2, <2>1 DEF IncomeInit, IncomeRows, IncomeChains, IncomeKeys, Chained, ChainedOnce, Recorded
<1>4. ASSUME NEW r \in Receipt PROVE GivenOf(r) = 0
  <2>1. GivenOf(r) = SumFunctionOnSet(shares[r].given, Entitlement)
    BY <1>1, GivenTyped
  <2>2. \A e \in Entitlement : shares[r].given[e] = 0
    BY DEF IncomeInit, NoShares
  <2> QED
    BY <2>1, <2>2, ClaimAssumption, SumZero
<1>5. ASSUME NEW e \in Entitlement PROVE GivenTo(e, Receipt) = 0
  <2> DEFINE part == [r \in Receipt |-> shares[r].given[e]]
  <2>1. \A r \in Receipt : part[r] = 0
    BY DEF IncomeInit, NoShares
  <2>2. GivenTo(e, Receipt) = SumFunctionOnSet(part, Receipt)
    BY GivenIsSum DEF GivenTo
  <2> HIDE DEF part
  <2> QED
    BY <2>1, <2>2, ClaimAssumption, SumZero
<1>6. IncomeSums
  <2>1. (\A r \in Receipt : Worth(receipts[r]) >= 0) /\ (\A e \in Entitlement : Worth(entitlements[e]) >= 0)
    BY <1>1 DEF IncomeTypeOK, Worth, Stands, Revision
  <2> QED
    BY <1>4, <1>5, <2>1 DEF IncomeSums, ReceiptsCover, EntitlementsCap
<1> QED
  BY <1>3, <1>6 DEF IncomeInv

LEMMA NextIncome == IncomeInv /\ [IncomeNext]_incomeVars => IncomeInv'
<1> SUFFICES ASSUME IncomeInv, [IncomeNext]_incomeVars PROVE IncomeInv'
  OBVIOUS
<1>1. archivedSources \subseteq IncomeSource
  BY DEF IncomeInv, IncomeRows, IncomeTypeOK
<1>2. ASSUME NEW s \in IncomeSource, ArchiveSource(s) PROVE IncomeInv'
  BY <1>1, <1>2, UntouchedIncome DEF ArchiveSource
<1>3. CASE UNCHANGED incomeVars
  BY <1>1, <1>3, UntouchedIncome DEF incomeVars, attributionVars
<1> QED
  BY <1>2, <1>3, ApproachKeeps, SettlementKeeps, RecordKeeps, CorrectKeeps, EntitleKeeps DEF IncomeNext

LEMMA IncomeInvariant == IncomeSpec => []IncomeInv
  BY InitIncome, NextIncome, PTL DEF IncomeSpec

\* The types: amounts and revision numbers stay natural numbers, and a
\* request that is under way is one the claimant may make.
THEOREM IncomeTypeCorrect == IncomeSpec => []IncomeTypeOK
<1>1. IncomeInv => IncomeTypeOK
  BY DEF IncomeInv, IncomeRows
<1> QED
  BY <1>1, IncomeInvariant, PTL

\* No receipt gives more than it brought, no entitlement is paid beyond what
\* is owed, and no revision or key is stored twice: whichever corrections,
\* settlements and voidings of the same rows run between a request's reading
\* and its locks.
THEOREM IncomeStaysInStep == IncomeSpec => []IncomeInStep
<1>1. IncomeInv => AttributedOnce
  BY DEF IncomeInv, IncomeChains, IncomeKeys, ChainedOnce, AttributedOnce
<1>2. IncomeInv => IncomeInStep
  BY <1>1 DEF IncomeInv, IncomeSums, IncomeInStep
<1> QED
  BY <1>2, IncomeInvariant, PTL
=============================================================================
