---------------------------- MODULE CloseProofs -----------------------------
(***************************************************************************)
(* Proofs about MonthClose, for any sessions, closers, accounts and        *)
(* months: the month close that runs statement by statement among the      *)
(* postings of the journal.                                                *)
(*                                                                         *)
(* CloseInv follows the money. What a close applies of an adjustment is    *)
(* what its surplus absorbs, never more than is still owed (WithinOwed),   *)
(* and what all closes offer for routing, what they applied and what is    *)
(* owed balance (Balanced): three sums over closes and adjustments, of     *)
(* which a step changes one summand.                                       *)
(*                                                                         *)
(* SeparateInv is why a close may read in several statements. A close      *)
(* past its anchor is the only one of its month; past its locks it holds   *)
(* every budgeted account FOR UPDATE, so that no entry on these is         *)
(* posted, and what it read stays what the ledger says until it commits.   *)
(* This needs the accounts it locks to be there from the start: if one is  *)
(* provisioned only after the close resolved its accounts, entries on it   *)
(* are not held up, which is what the run month_close_unprovisioned        *)
(* shows. The theorems that rest on SeparateInv assume so.                 *)
(*                                                                         *)
(* Last, the close is shown to be the single step of module                *)
(* JournalPosting that closes a month: all steps but the commit leave      *)
(* that module's variables as they are, and at the commit the entries      *)
(* counted by then are those the ledger has.                               *)
(***************************************************************************)
EXTENDS MonthClose, JournalPostingProofs, Sums

Between(x, y) ==
    \/ 0 <= x /\ x <= y
    \/ y <= x /\ x <= 0

-----------------------------------------------------------------------------
(* What a close absorbs.                                                   *)

\* The loop over the adjustments is defined, step by step.
LEMMA AbsorbedSteps ==
  ASSUME NEW surplus, NEW q, Len(q) \in Nat
  PROVE  /\ Absorbed(surplus, q)[0]
              = [capacity |-> Capacity(surplus, ToSet(q)), applied |-> [t \in Session |-> 0]]
         /\ \A k \in 1..Len(q) : Absorbed(surplus, q)[k] = Absorb(Absorbed(surplus, q)[k - 1], q[k])
<1> DEFINE n == Len(q)
           base == [capacity |-> Capacity(surplus, ToSet(q)), applied |-> [t \in Session |-> 0]]
           Steps(h, k) == h = [i \in 0..k |-> IF i = 0 THEN base ELSE Absorb(h[i - 1], q[i])]
           G == {k \in 0..n : \E h : Steps(h, k)}
<1>1. 0 \in G
  <2>1. Steps([i \in 0..0 |-> base], 0)
    OBVIOUS
  <2>2. 0 \in 0..n
    OBVIOUS
  <2> HIDE DEF Steps
  <2> QED
    BY <2>1, <2>2
<1>2. ASSUME NEW k \in 0..(n - 1), k \in G
      PROVE  k + 1 \in G
  <2>1. PICK h : Steps(h, k)
    BY <1>2
  <2> DEFINE next == [i \in 0..(k + 1) |-> IF i = k + 1 THEN Absorb(h[k], q[k + 1]) ELSE h[i]]
  <2>2. Steps(next, k + 1)
    <3>1. \A i \in 0..(k + 1) : next[i] = IF i = 0 THEN base ELSE Absorb(next[i - 1], q[i])
      <4> SUFFICES ASSUME NEW i \in 0..(k + 1) PROVE next[i] = IF i = 0 THEN base ELSE Absorb(next[i - 1], q[i])
        OBVIOUS
      <4>1. CASE i = k + 1
        <5>1. i # 0 /\ i - 1 = k /\ k \in 0..(k + 1) /\ k # k + 1
          BY <4>1
        <5>2. next[i - 1] = h[k] /\ next[i] = Absorb(h[k], q[k + 1])
          BY <4>1, <5>1
        <5> QED
          BY <4>1, <5>1, <5>2
      <4>2. CASE i # k + 1
        <5>1. i \in 0..k /\ next[i] = h[i]
          BY <4>2
        <5>2. h[i] = IF i = 0 THEN base ELSE Absorb(h[i - 1], q[i])
          BY <2>1, <5>1
        <5>3. i # 0 => i - 1 \in 0..(k + 1) /\ i - 1 # k + 1
          BY <5>1
        <5>4. i # 0 => next[i - 1] = h[i - 1]
          BY <5>3
        <5> HIDE DEF next
        <5> QED
          BY <5>1, <5>2, <5>4
      <4> QED
        BY <4>1, <4>2
    <3> QED
      BY <3>1
  <2>3. k + 1 \in 0..n
    OBVIOUS
  <2> HIDE DEF next, Steps
  <2> QED
    BY <2>2, <2>3
<1> HIDE DEF G
<1>3. \A k \in 0..n : k \in G
  BY <1>1, <1>2, IntervalInduction
<1>4. \E h : Steps(h, n)
  BY <1>3 DEF G
<1>5. Absorbed(surplus, q) = CHOOSE h : Steps(h, n)
  BY DEF Absorbed
<1>6. Steps(Absorbed(surplus, q), n)
  BY <1>4, <1>5
<1> DEFINE h == Absorbed(surplus, q)
<1>7. h = [i \in 0..n |-> IF i = 0 THEN base ELSE Absorb(h[i - 1], q[i])]
  BY <1>6
<1> HIDE DEF h, base
<1>8. h[0] = base /\ \A k \in 1..n : h[k] = Absorb(h[k - 1], q[k])
  <2>1. 0 \in 0..n /\ \A k \in 1..n : k \in 0..n /\ k # 0
    OBVIOUS
  <2> QED
    BY <1>7, <2>1
<1> QED
  BY <1>8 DEF h, base

LEMMA FirstPlaces ==
  ASSUME NEW S \in SUBSET Session, NEW q \in OldestFirst(S)
  PROVE  /\ Len(q) \in Nat /\ q \in [1..Len(q) -> S] /\ ToSet(q) = S
         /\ \A i, j \in 1..Len(q) : i # j => q[i] # q[j]
<1>1. IsFiniteSet(S) /\ Cardinality(S) \in Nat
  BY CloseAssumption, FS_Subset, FS_CardinalityType
<1>2. q \in [1..Cardinality(S) -> S] /\ Len(q) = Cardinality(S)
  BY <1>1 DEF OldestFirst
<1>3. \A i, j \in 1..Len(q) : i # j => q[i] # q[j]
  BY <1>2 DEF OldestFirst
<1>4. q \in Injection(1..Len(q), S)
  BY <1>2, <1>3 DEF Injection, IsInjective
<1>5. Cardinality(1..Len(q)) = Cardinality(S) /\ IsFiniteSet(1..Len(q))
  BY <1>1, <1>2, FS_Interval
<1>6. q \in Surjection(1..Len(q), S)
  BY <1>1, <1>4, <1>5, FS_Injection
<1>7. ToSet(q) = S
  BY <1>2, <1>6 DEF Surjection, ToSet
<1> QED
  BY <1>1, <1>2, <1>3, <1>7

\* Each adjustment is absorbed towards what remains of it, and in all as much
\* as leaves the surplus that can be routed.
LEMMA AbsorbsWithin ==
  ASSUME NEW surplus \in Nat, NEW S \in SUBSET Session, \A t \in S : Remaining(t) \in Int,
         NEW q \in OldestFirst(S)
  PROVE  /\ Applications(surplus, q) \in [Session -> Int]
         /\ \A t \in Session : IF t \in S THEN Between(Applications(surplus, q)[t], Remaining(t))
                               ELSE Applications(surplus, q)[t] = 0
         /\ surplus + SumFunctionOnSet(Applications(surplus, q), Session) = Clamp(surplus + RemainingTotal(S))
         /\ RemainingTotal(S) \in Int
<1> DEFINE n == Len(q)
           st == Absorbed(surplus, q)
           First(k) == {q[i] : i \in 1..k}
           left(k) == [t \in Session |-> IF t \in First(k) THEN Remaining(t) ELSE 0]
           credit(k) == [t \in Session |-> IF t \in First(k) THEN Clamp(Remaining(t)) ELSE 0]
           L(k) == SumFunctionOnSet(left(k), Session)
           C(k) == SumFunctionOnSet(credit(k), Session)
           cap == Capacity(surplus, S)
           G == {k \in 0..n : /\ st[k].capacity \in Nat /\ st[k].applied \in [Session -> Int]
                              /\ \A t \in Session : IF t \in First(k) THEN Between(st[k].applied[t], Remaining(t))
                                                    ELSE st[k].applied[t] = 0
                              /\ st[k].capacity = Clamp(cap - (C(k) - L(k)))
                              /\ SumFunctionOnSet(st[k].applied, Session) = C(k) - cap + st[k].capacity}
<1>1. /\ n \in Nat /\ q \in [1..n -> S] /\ ToSet(q) = S
      /\ \A i, j \in 1..n : i # j => q[i] # q[j]
  BY FirstPlaces
<1>2. IsFiniteSet(Session)
  BY CloseAssumption
<1>3. \A k \in 0..n : First(k) \in SUBSET S
  BY <1>1
<1>4. First(0) = {} /\ First(n) = S
  BY <1>1 DEF ToSet
<1>5. \A k \in 0..(n - 1) : /\ First(k + 1) = First(k) \cup {q[k + 1]} /\ q[k + 1] \notin First(k)
                            /\ q[k + 1] \in S /\ k + 1 \in 1..n /\ k + 1 - 1 = k /\ k \in 0..n /\ k + 1 \in 0..n
  BY <1>1
<1>6. \A k \in 0..n, t \in Session :
         /\ left(k)[t] = (IF t \in First(k) THEN Remaining(t) ELSE 0) /\ left(k)[t] \in Int
         /\ credit(k)[t] = (IF t \in First(k) THEN Clamp(Remaining(t)) ELSE 0) /\ credit(k)[t] \in Int
         /\ credit(k)[t] \in Nat
  BY <1>3 DEF Clamp
<1>7. /\ st[0] = [capacity |-> cap, applied |-> [t \in Session |-> 0]]
      /\ \A k \in 1..n : st[k] = Absorb(st[k - 1], q[k])
  BY <1>1, AbsorbedSteps
<1>8. cap = surplus + C(n) /\ L(n) = RemainingTotal(S)
  BY <1>4 DEF Capacity, RemainingTotal, Total
<1> HIDE DEF left, credit, First, cap, st
<1>9. \A k \in 0..n : L(k) \in Int /\ C(k) \in Nat /\ C(k) \in Int
  BY <1>2, <1>6, SumTakes, SumNatural
<1>10. cap \in Nat
  BY <1>1, <1>8, <1>9
<1>11. 0 \in G
  <2>1. \A t \in Session : left(0)[t] = 0 /\ credit(0)[t] = 0
    BY <1>1, <1>4, <1>6
  <2>2. L(0) = 0 /\ C(0) = 0
    BY <1>2, <2>1, SumZero
  <2> DEFINE z == [t \in Session |-> 0]
  <2>3. z \in [Session -> Int] /\ \A t \in Session : z[t] = 0
    OBVIOUS
  <2> HIDE DEF z
  <2>4. SumFunctionOnSet(z, Session) = 0
    BY <1>2, <2>3, SumZero
  <2>5. st[0].capacity = cap /\ st[0].applied = z
    BY <1>7 DEF z
  <2>6. cap = Clamp(cap - (0 - 0)) /\ 0 = 0 - cap + cap
    BY <1>10 DEF Clamp
  <2>7. 0 \in 0..n
    BY <1>1
  <2> HIDE DEF L, C
  <2> QED
    BY <1>4, <1>10, <2>2, <2>3, <2>4, <2>5, <2>6, <2>7
<1>12. ASSUME NEW k \in 0..(n - 1), k \in G
       PROVE  k + 1 \in G
  <2> DEFINE t == q[k + 1]
             r == Remaining(t)
             old == st[k]
             part == IF r > 0 THEN r ELSE -Lesser(old.capacity, -r)
  <2>1. /\ First(k + 1) = First(k) \cup {t} /\ t \notin First(k) /\ t \in S /\ t \in Session
        /\ k + 1 \in 1..n /\ k + 1 - 1 = k /\ k \in 0..n /\ k + 1 \in 0..n /\ r \in Int
    BY <1>5
  <2>2. /\ old.capacity \in Nat /\ old.applied \in [Session -> Int]
        /\ old.capacity = Clamp(cap - (C(k) - L(k)))
        /\ SumFunctionOnSet(old.applied, Session) = C(k) - cap + old.capacity
        /\ \A u \in Session : IF u \in First(k) THEN Between(old.applied[u], Remaining(u)) ELSE old.applied[u] = 0
    BY <1>12
  <2>3. st[k + 1] = [capacity |-> IF r > 0 THEN old.capacity ELSE old.capacity + part,
                     applied |-> [old.applied EXCEPT ![t] = part]]
    BY <1>7, <2>1 DEF Absorb
  <2>4. /\ part \in Int /\ Between(part, r)
        /\ (IF r > 0 THEN old.capacity ELSE old.capacity + part) \in Nat
    <3> DEFINE room == old.capacity
    <3>1. room \in Nat /\ r \in Int /\ room = old.capacity
      BY <2>1, <2>2
    <3> HIDE DEF old, room, r
    <3>2. CASE r > 0
      <4>1. part = r
        BY <3>2
      <4> HIDE DEF part
      <4>2. Between(part, r)
        BY <3>1, <3>2, <4>1 DEF Between
      <4> QED
        BY <3>1, <3>2, <4>1, <4>2
    <3>3. CASE ~(r > 0)
      <4>1. part = -Lesser(room, -r)
        BY <3>3 DEF room
      <4>2. Lesser(room, -r) \in Nat /\ Lesser(room, -r) <= room /\ Lesser(room, -r) <= -r
        BY <3>1, <3>3 DEF Lesser
      <4> HIDE DEF part
      <4>3. part \in Int /\ part <= 0 /\ r <= part /\ room + part \in Nat
        BY <3>1, <4>1, <4>2
      <4> QED
        BY <3>3, <3>1, <4>3 DEF Between
    <3> QED
      BY <3>2, <3>3
  <2> HIDE DEF part, old, r, t
  <2>5. L(k + 1) = L(k) + r
    <3>1. \A u \in Session : left(k)[u] \in Int /\ left(k + 1)[u] = left(k)[u] + (IF u = t THEN r ELSE 0)
      <4>1. t \notin First(k) /\ First(k + 1) = First(k) \cup {t} /\ r = Remaining(t)
        BY <2>1 DEF r
      <4> QED
        BY <1>6, <2>1, <4>1
    <3>2. IsFiniteSet(Session) /\ r \in Int
      BY <1>2, <2>1
    <3>3. L(k + 1) = L(k) + (IF t \in Session THEN r ELSE 0)
      BY ONLY <3>1, <3>2, SumShifts
    <3> QED
      BY <2>1, <3>3
  <2>6. C(k + 1) = C(k) + Clamp(r)
    <3> DEFINE gain == Clamp(r)
    <3>1. IsFiniteSet(Session) /\ gain \in Int
      BY <1>2, <2>1 DEF Clamp
    <3>2. \A u \in Session : credit(k)[u] \in Int /\ credit(k + 1)[u] = credit(k)[u] + (IF u = t THEN gain ELSE 0)
      <4>1. t \notin First(k) /\ First(k + 1) = First(k) \cup {t} /\ gain = Clamp(Remaining(t))
        BY <2>1 DEF r
      <4> HIDE DEF gain
      <4> QED
        BY <1>6, <2>1, <3>1, <4>1
    <3> HIDE DEF gain
    <3> DEFINE before == credit(k)
               after == credit(k + 1)
    <3>4. \A u \in Session : before[u] \in Int /\ after[u] \in Int /\ (u # t => after[u] = before[u])
      BY <2>1, <3>1, <3>2
    <3>5. t \in Session /\ before[t] \in Int /\ after[t] = before[t] + gain
      BY <2>1, <3>2
    <3> HIDE DEF before, after
    <3>6. \E rest \in Int : /\ SumFunctionOnSet(after, Session) = after[t] + rest
                          /\ SumFunctionOnSet(before, Session) = before[t] + rest
      <4>1. DifferAt(Session, before, after, t)
        BY <2>1, <3>4 DEF DifferAt
      <4> QED
        BY <3>1, <4>1, SumRest
    <3>7. SumFunctionOnSet(after, Session) = SumFunctionOnSet(before, Session) + gain
      BY <3>1, <3>5, <3>6
    <3> QED
      BY <3>7 DEF before, after, gain
  <2>7. SumFunctionOnSet(st[k + 1].applied, Session) = SumFunctionOnSet(old.applied, Session) + part
    <3> DEFINE before == old.applied
               after == st[k + 1].applied
    <3>1. IsFiniteSet(Session) /\ part \in Int
      BY <1>2, <2>4
    <3>2. \A u \in Session : before[u] \in Int /\ after[u] = before[u] + (IF u = t THEN part ELSE 0)
      <4>1. before[t] = 0 /\ before \in [Session -> Int] /\ after = [before EXCEPT ![t] = part]
        BY <2>1, <2>2, <2>3
      <4> HIDE DEF before, after
      <4> QED
        BY <2>1, <3>1, <4>1
    <3> HIDE DEF before, after
    <3>3. \A u \in Session : before[u] \in Int /\ after[u] \in Int /\ (u # t => after[u] = before[u])
      BY <2>1, <3>1, <3>2
    <3>4. t \in Session /\ before[t] \in Int /\ after[t] = before[t] + part
      BY <2>1, <3>2
    <3>5. \E rest \in Int : /\ SumFunctionOnSet(after, Session) = after[t] + rest
                          /\ SumFunctionOnSet(before, Session) = before[t] + rest
      <4>1. DifferAt(Session, before, after, t)
        BY <2>1, <3>3 DEF DifferAt
      <4> QED
        BY <3>1, <4>1, SumRest
    <3>6. SumFunctionOnSet(after, Session) = SumFunctionOnSet(before, Session) + part
      BY <3>1, <3>4, <3>5
    <3> QED
      BY <3>6 DEF before, after
  <2>8. st[k + 1].applied \in [Session -> Int] /\ st[k + 1].capacity \in Nat
    BY <2>1, <2>2, <2>3, <2>4
  <2>9. \A u \in Session : IF u \in First(k + 1) THEN Between(st[k + 1].applied[u], Remaining(u))
                           ELSE st[k + 1].applied[u] = 0
    BY <2>1, <2>2, <2>3, <2>4 DEF r
  <2>10. L(k) \in Int /\ C(k) \in Nat /\ cap \in Nat
    BY <1>9, <1>10, <2>1
  <2> DEFINE new == st[k + 1].capacity
  <2>11. new = IF r > 0 THEN old.capacity ELSE old.capacity + part
    BY <2>3
  <2> HIDE DEF L, C, new
  <2>12. CASE r > 0
    <3>1. part = r /\ Clamp(r) = r
      BY <2>1, <2>12 DEF part, Clamp
    <3>2. new = Clamp(cap - (C(k + 1) - L(k + 1)))
      <4>1. C(k + 1) - L(k + 1) = C(k) - L(k)
        BY <2>1, <2>5, <2>6, <2>10, <3>1
      <4> QED
        BY <2>2, <2>11, <2>12, <4>1
    <3>3. SumFunctionOnSet(old.applied, Session) + part = C(k + 1) - cap + new
      BY <2>1, <2>2, <2>6, <2>10, <2>11, <2>12, <3>1
    <3> QED
      BY <2>1, <2>7, <2>8, <2>9, <3>2, <3>3 DEF new
  <2>13. CASE ~(r > 0)
    <3>1. Clamp(r) = 0 /\ part = -Lesser(old.capacity, -r)
      BY <2>1, <2>13 DEF part, Clamp
    <3>2. C(k + 1) = C(k)
      BY <2>6, <2>10, <3>1
    <3>3. new = Clamp(cap - (C(k + 1) - L(k + 1)))
      <4> DEFINE x == cap - (C(k) - L(k))
                 room == old.capacity
      <4>1. cap - (C(k + 1) - L(k + 1)) = x + r /\ x \in Int
        BY <2>1, <2>5, <2>10, <3>2
      <4>2. room = Clamp(x) /\ new = room + part /\ part = -Lesser(room, -r)
        BY <2>2, <2>11, <2>13, <3>1
      <4> HIDE DEF x, room
      <4>3. new = Clamp(x + r)
        <5>1. CASE x < 0
          <6>1. room = 0
            BY <4>1, <4>2, <5>1 DEF Clamp
          <6>2. Lesser(room, -r) = 0
            BY <2>1, <2>13, <6>1 DEF Lesser
          <6>3. x + r < 0
            BY <2>1, <2>13, <4>1, <5>1
          <6> QED
            BY <4>2, <6>1, <6>2, <6>3 DEF Clamp
        <5>2. CASE ~(x < 0)
          <6>1. room = x
            BY <4>2, <5>2 DEF Clamp
          <6>2. CASE x < -r
            <7>1. part = -x /\ x + r < 0
              BY <2>1, <4>1, <4>2, <6>1, <6>2 DEF Lesser
            <7> QED
              BY <4>1, <4>2, <6>1, <7>1 DEF Clamp
          <6>3. CASE ~(x < -r)
            <7>1. part = r /\ ~(x + r < 0)
              BY <2>1, <4>1, <4>2, <6>1, <6>3 DEF Lesser
            <7> QED
              BY <4>1, <4>2, <6>1, <7>1 DEF Clamp
          <6> QED
            BY <6>2, <6>3
        <5> QED
          BY <5>1, <5>2
      <4> QED
        BY <4>1, <4>3
    <3>4. SumFunctionOnSet(old.applied, Session) + part = C(k + 1) - cap + new
      BY <2>2, <2>4, <2>10, <2>11, <2>13, <3>2
    <3> QED
      BY <2>1, <2>7, <2>8, <2>9, <3>3, <3>4 DEF new
  <2> QED
    BY <2>12, <2>13
<1> HIDE DEF G
<1>13. n \in G
  <2>1. \A k \in 0..n : k \in G
    BY <1>1, <1>11, <1>12, IntervalInduction
  <2> QED
    BY <1>1, <2>1
<1> DEFINE a == Applications(surplus, q)
<1>14. a = st[n].applied
  BY DEF Applications, st
<1>15. /\ a \in [Session -> Int]
       /\ \A t \in Session : IF t \in S THEN Between(a[t], Remaining(t)) ELSE a[t] = 0
       /\ SumFunctionOnSet(a, Session) = C(n) - cap + Clamp(cap - (C(n) - L(n)))
  BY <1>4, <1>13, <1>14 DEF G
<1>16. L(n) \in Int /\ C(n) \in Nat
  BY <1>1, <1>9
<1> HIDE DEF a, L, C
<1>17. surplus + SumFunctionOnSet(a, Session) = Clamp(surplus + RemainingTotal(S)) /\ RemainingTotal(S) \in Int
  BY <1>8, <1>15, <1>16 DEF Clamp
<1> QED
  BY <1>15, <1>17 DEF a
-----------------------------------------------------------------------------
(* What the sessions leave alone.                                          *)

\* A session writes its own rows only, and none of them once it has ended.
Same(t) == pc'[t] = pc[t] /\ entry'[t] = entry[t] /\ adjusted'[t] = adjusted[t]
Writes(s) == pc[s] \notin Finished /\ \A t \in Session : t # s => Same(t)

LEMMA RollbackWrites ==
  ASSUME RowTypes, NEW s \in Session, pc[s] \notin Finished, NEW why, Rollback(s, why)
  PROVE  Writes(s)
  BY DEF RowTypes, Rollback, Goto, Writes, Same

LEMMA StepWrites ==
  ASSUME RowTypes, NEW s \in Session, Step(s)
  PROVE  Writes(s)
<1> DEFINE Moves == \E label : Goto(s, label) /\ entry' = entry /\ adjusted' = adjusted
           Ends == \E why : Rollback(s, why)
<1>1. pc[s] \notin Finished
  BY DEF Step, Provision, EarlyLookup, ReadAccounts, LockOriginal, CheckReversed, InsertDraft, LateLookup,
         InsertLines, Transition, CloseCheck, Commit, Archive, Finished
<1>2. Moves \/ Ends => Writes(s)
  BY <1>1, RollbackWrites DEF RowTypes, Goto, Writes, Same
<1>3. \A t : AnswerFrom(s, t) => Moves \/ Ends
  BY DEF AnswerFrom
<1>4. Provision(s) \/ ReadAccounts(s) \/ LockOriginal(s) \/ CheckReversed(s) \/ Commit(s) \/ Archive(s)
        => Moves \/ Ends
  BY DEF Provision, ReadAccounts, LockOriginal, CheckReversed, Commit, Archive
<1>5. EarlyLookup(s) \/ LateLookup(s) => Moves \/ Ends
  <2> HIDE DEF Ends
  <2> QED
    BY <1>3 DEF EarlyLookup, LateLookup
<1>6. InsertLines(s) \/ Transition(s) => Moves \/ Ends
  BY DEF InsertLines, Transition
<1>7. InsertDraft(s) => Moves \/ Ends \/ Writes(s)
  BY <1>1 DEF InsertDraft, RowTypes, Goto, Writes, Same
<1>8. CloseCheck(s) => Writes(s)
  BY <1>1 DEF CloseCheck, RowTypes, Goto, Writes, Same
<1> HIDE DEF Moves, Ends
<1> QED
  BY <1>2, <1>4, <1>5, <1>6, <1>7, <1>8 DEF Step

\* A victim among sessions and closers waits, hence has not ended.
LEMMA VictimWaits ==
  ASSUME NEW s \in Session, Circular(s)
  PROVE  pc[s] \notin {"idle", "committed", "aborted"}
<1>1. WaitingAny(s) = Waiting(s)
  BY CloseAssumption DEF WaitingAny
<1>2. Waiting(s) # {}
  BY <1>1 DEF Circular, InCircle
<1> QED
  BY <1>2 DEF Waiting

LEMMA PostingWrites ==
  ASSUME RowTypes, Posting \/ \E s \in Session : VictimPosting(s), NEW t \in Posted
  PROVE  Same(t) /\ t \in Posted'
<1>1. t \in Session /\ pc[t] = "committed" /\ entry[t] # None
  BY DEF Posted
<1>2. \A s \in Session : Writes(s) => Same(t)
  BY <1>1 DEF Writes, Finished
<1>3. \E s \in Session : Writes(s)
  <2>1. ASSUME NEW s \in Session, NEW r \in Request, Begin(s, r) PROVE Writes(s)
    BY <2>1 DEF Begin, RowTypes, Goto, Writes, Same, Finished
  <2>2. ASSUME NEW s \in Session, Crash(s) PROVE Writes(s)
    BY <2>2, RollbackWrites DEF Crash, Active
  <2>3. ASSUME NEW s \in Session, DeadlockVictim(s) PROVE Writes(s)
    <3>1. Waiting(s) # {} /\ Rollback(s, "rolledBack")
      BY <2>3 DEF DeadlockVictim, InCircle
    <3>2. pc[s] \notin Finished
      BY <3>1 DEF Waiting, Finished
    <3> QED
      BY <3>1, <3>2, RollbackWrites
  <2>4. ASSUME NEW s \in Session, VictimPosting(s) PROVE Writes(s)
    BY <2>4, VictimWaits, RollbackWrites DEF VictimPosting, Finished
  <2> QED
    BY <2>1, <2>2, <2>3, <2>4, StepWrites DEF Posting
<1>4. Same(t)
  BY <1>2, <1>3
<1> QED
  BY <1>1, <1>4 DEF Same, Posted

LEMMA PostingJournal ==
  ASSUME JournalInv, Posting \/ \E s \in Session : VictimPosting(s)
  PROVE  JournalInv'
<1>1. CASE Posting
  BY <1>1, NextJournal DEF Next
<1>2. ASSUME NEW s \in Session, VictimPosting(s) PROVE JournalInv'
  BY <1>2, VictimWaits, RollbackJournal DEF VictimPosting, Error
<1> QED
  BY <1>1, <1>2

-----------------------------------------------------------------------------
(* The rows of the closers.                                                *)

CloseRows ==
    /\ wanted \in [Closer -> Confirmation \cup {None}]
    /\ stage \in [Closer -> Stage]
    /\ roles \in [Closer -> SUBSET Budgeted]
    /\ figures \in [Closer -> Figures \cup {None}]
    /\ absorbed \in [Closer -> [Session -> Int]]
CloserLocks == locks \subseteq [session : Session \cup Closer, account : Account, mode : LockMode]

\* A closer past its first statement has a request, and figures once it
\* computed them.
Figured == {"adjustments", "settle", "commit", "done"}
Underway ==
    \A c \in Closer : /\ stage[c] # "idle" => wanted[c] # None
                      /\ stage[c] \in Figured => figures[c] # None
LEMMA Finite ==
  /\ IsFiniteSet(Session) /\ IsFiniteSet(Closer)
  /\ \A A \in SUBSET Account : IsFiniteSet(A)
  /\ \A D \in SUBSET Closer : IsFiniteSet(D)
  BY CloseAssumption, FS_Subset

LEMMA DeltaIsInt ==
  ASSUME NEW e \in Entry
  PROVE  ExpenseDelta(e.lines) \in Int
<1>1. e.lines \in [Account -> Int]
  BY DEF Entry, Lines
<1>2. Expense \subseteq Account /\ IsFiniteSet(Expense)
  BY AccountAssumption, Finite
<1>3. \A a \in Expense : e.lines[a] \in Int
  BY <1>1, <1>2
<1>4. SumFunctionOnSet(e.lines, Expense) \in Int
  BY <1>2, <1>3, SumTakes
<1>5. ExpenseDelta(e.lines) = SumFunctionOnSet(e.lines, Expense)
  BY DEF ExpenseDelta, SumFunctionOnSet
<1> QED
  BY <1>4, <1>5

LEMMA PostedRow ==
  ASSUME JournalInv, NEW t \in Posted
  PROVE  entry[t].lines \in [Account -> Int] /\ entry[t].month \in Month /\ Owed(t) \in Int
<1>1. entry[t] \in Entry
  BY DEF JournalInv, RowTypes, Posted
<1> QED
  BY <1>1, DeltaIsInt DEF Entry, Lines, Owed

LEMMA AppliedIsInt ==
  ASSUME CloseRows, NEW t \in Session
  PROVE  AppliedTo(t) \in Int
<1> DEFINE a == [c \in Closer |-> absorbed[c][t]]
<1>1. Done \in SUBSET Closer /\ \A c \in Done : a[c] \in Int
  BY DEF CloseRows, Done
<1> HIDE DEF a
<1>2. IsFiniteSet(Done)
  BY <1>1, Finite
<1> QED
  BY <1>1, <1>2, SumTakes DEF AppliedTo, Total, a

LEMMA RemainingIsInt ==
  ASSUME JournalInv, CloseRows, NEW t \in Posted
  PROVE  Remaining(t) \in Int
  BY PostedRow, AppliedIsInt DEF Remaining, Posted

LEMMA TotalIsInt ==
  ASSUME JournalInv, CloseRows, NEW S \in SUBSET Posted
  PROVE  RemainingTotal(S) \in Int
<1> DEFINE r == [t \in Session |-> IF t \in S THEN Remaining(t) ELSE 0]
<1>1. \A t \in Session : r[t] \in Int
  BY RemainingIsInt
<1> HIDE DEF r
<1> QED
  BY <1>1, Finite, SumTakes DEF RemainingTotal, Total, r

LEMMA NetIsAmounts ==
  ASSUME JournalInv, NEW m, NEW A
  PROVE  NetExpense(m, A) \in Amounts
<1> SUFFICES ASSUME NEW a \in Budgeted
             PROVE  NetExpense(m, A)[a] \in Int
  BY DEF Amounts, NetExpense
<1> DEFINE part == [t \in Session |-> IF t \in Dated(m) THEN entry[t].lines[a] ELSE 0]
<1>1. \A t \in Session : part[t] \in Int
  <2>1. a \in Account
    BY AccountAssumption
  <2>2. \A t \in Dated(m) : entry[t].lines[a] \in Int
    BY <2>1, PostedRow DEF Dated
  <2> QED
    BY <2>2
<1>2. NetExpense(m, A)[a] = IF a \in A THEN SumFunctionOnSet(part, Session) ELSE 0
  BY DEF NetExpense, Total
<1> HIDE DEF part
<1>3. SumFunctionOnSet(part, Session) \in Int
  BY <1>1, Finite, SumTakes
<1> QED
  BY <1>2, <1>3

LEMMA SurplusIsNat ==
  ASSUME NEW net \in Amounts
  PROVE  Surplus(net) \in Nat
<1> DEFINE u == [a \in Budgeted |-> Unused(Ceiling[a], net[a])]
<1>1. \A a \in Budgeted \ Unclassified : u[a] \in Nat
  <2> SUFFICES ASSUME NEW a \in Budgeted PROVE Unused(Ceiling[a], net[a]) \in Nat
    OBVIOUS
  <2>1. Ceiling[a] \in Nat /\ net[a] \in Int
    BY CloseAssumption DEF Amounts
  <2> QED
    BY <2>1 DEF Unused, Clamp
<1>2. IsFiniteSet(Budgeted \ Unclassified)
  BY AccountAssumption, Finite
<1> HIDE DEF u
<1> QED
  BY <1>1, <1>2, SumNatural DEF Surplus, Total, u

-----------------------------------------------------------------------------
(* The steps of a closer.                                                  *)

\* It moves on among the statements before its figures, is refused, computes
\* its figures, confirms them, settles or commits.
Moves(c) ==
    /\ stage[c] \notin {"idle"} \cup Figured
    /\ \E label \in Stage \ ({"idle"} \cup Figured) : Turn(c, label)
    /\ roles' \in [Closer -> SUBSET Budgeted]
    /\ UNCHANGED <<journal, table, wanted, figures, absorbed>>
Refuses(c) == stage[c] \notin {"idle"} \cup Ended /\ Refuse(c)
Computes(c) ==
    LET net == NetExpense(wanted[c].month, roles[c]) IN
    /\ stage[c] = "figures"
    /\ figures' = [figures EXCEPT ![c] =
          [net |-> net, snapshot |-> Countable(wanted[c].month), prior |-> {},
           priorTotal |-> 0, surplus |-> Surplus(net), routable |-> 0]]
    /\ Turn(c, "adjustments")
    /\ UNCHANGED <<journal, table, wanted, roles, absorbed>>
Confirms(c) ==
    LET prior == Unapplied(wanted[c].month)
        total == RemainingTotal(prior)
    IN  /\ stage[c] = "adjustments"
        /\ LocksAdjustment(c) = {}
        /\ figures' = [figures EXCEPT ![c].prior = prior,
                                      ![c].priorTotal = total,
                                      ![c].routable = Clamp(figures[c].surplus + total)]
        /\ Turn(c, "settle")
        /\ UNCHANGED <<journal, table, wanted, roles, absorbed>>
Settles(c) ==
    /\ stage[c] = "settle"
    /\ \E q \in OldestFirst(figures[c].prior) :
          absorbed' = [absorbed EXCEPT ![c] = Applications(figures[c].surplus, q)]
    /\ Turn(c, "commit")
    /\ UNCHANGED <<journal, table, wanted, roles, figures>>
Begins(c) == \E m \in Month, k \in CloseKey : BeginClose(c, m, k)
CloserSteps(c) ==
    Begins(c) \/ Moves(c) \/ Refuses(c) \/ Computes(c) \/ Confirms(c) \/ Settles(c) \/ CommitClose(c)

LEMMA CloserTakes ==
  ASSUME CloseRows, NEW c \in Closer, CloseStep(c) \/ CrashClose(c) \/ Victim(c)
  PROVE  CloserSteps(c)
<1>1. CASE CrashClose(c)
  BY <1>1 DEF CrashClose, CloserSteps, Refuses
<1>2. CASE Victim(c)
  <2>1. WaitingAny(c) = WaitingClose(c) /\ WaitingAny(c) # {} /\ Refuse(c)
    BY <1>2 DEF Victim, Circular, InCircle, WaitingAny
  <2>2. stage[c] \notin {"idle"} \cup Ended
    BY <2>1 DEF WaitingClose, Ended
  <2> QED
    BY <2>1, <2>2 DEF CloserSteps, Refuses
<1>3. ASSUME NEW d, stage[c] \in {"lookup", "anchor"}, TryReplay(c, d)
      PROVE  Moves(c) \/ Refuses(c)
  <2>1. CASE Leave(c, "replayed")
    BY <1>3, <2>1 DEF Leave, Moves, Figured, Stage, CloseRows
  <2>2. CASE Refuse(c)
    BY <1>3, <2>2 DEF Refuses, Ended
  <2> QED
    BY <1>3, <2>1, <2>2 DEF TryReplay
<1>4. CASE LookupClose(c)
  <2>1. CASE \E d \in KeyUsed(c) : TryReplay(c, d)
    BY <1>3, <1>4, <2>1 DEF LookupClose, CloserSteps
  <2>2. CASE ~\E d \in KeyUsed(c) : TryReplay(c, d)
    <3>1. Moves(c)
      BY <1>4, <2>2 DEF LookupClose, Moves, Figured, Stage, CloseRows
    <3> QED
      BY <3>1 DEF CloserSteps
  <2> QED
    BY <2>1, <2>2
<1>5. CASE InsertAnchor(c)
  <2>1. CASE \E d \in KeyUsed(c) : TryReplay(c, d)
    BY <1>3, <1>5, <2>1 DEF InsertAnchor, CloserSteps
  <2>2. CASE Refuse(c)
    BY <1>5, <2>2 DEF InsertAnchor, CloserSteps, Refuses, Ended
  <2>3. CASE (~\E d \in KeyUsed(c) : TryReplay(c, d)) /\ ~Refuse(c)
    <3>1. Moves(c)
      BY <1>5, <2>3 DEF InsertAnchor, Moves, Figured, Stage, CloseRows
    <3> QED
      BY <3>1 DEF CloserSteps
  <2> QED
    BY <2>1, <2>2, <2>3
<1>6. CASE ResolveRoles(c)
  <2>1. Moves(c)
    BY <1>6 DEF ResolveRoles, Moves, Figured, Stage, CloseRows
  <2> QED
    BY <2>1 DEF CloserSteps
<1>7. CASE LockAccounts(c)
  <2>1. stage[c] = "lock" /\ UNCHANGED <<journal, table, wanted, roles, figures, absorbed>>
    BY <1>7 DEF LockAccounts, closing
  <2>2. stage' = stage \/ Turn(c, "figures")
    BY <1>7 DEF LockAccounts, closing
  <2>3. stage' = stage => Turn(c, "lock")
    BY <2>1 DEF Turn, CloseRows
  <2>4. Moves(c)
    BY <2>1, <2>2, <2>3 DEF Moves, Figured, Stage, CloseRows
  <2> QED
    BY <2>4 DEF CloserSteps
<1>8. CASE ReadExpenses(c)
  <2>1. CASE Refuse(c)
    BY <1>8, <2>1 DEF ReadExpenses, CloserSteps, Refuses, Ended
  <2>2. CASE ~Refuse(c)
    <3>1. Computes(c)
      BY <1>8, <2>2 DEF ReadExpenses, Computes
    <3> QED
      BY <3>1 DEF CloserSteps
  <2> QED
    BY <2>1, <2>2
<1>9. CASE ReadAdjustments(c)
  <2>1. CASE Refuse(c)
    BY <1>9, <2>1 DEF ReadAdjustments, CloserSteps, Refuses, Ended
  <2>2. CASE ~Refuse(c)
    <3>1. Confirms(c)
      BY <1>9, <2>2 DEF ReadAdjustments, Confirms
    <3> QED
      BY <3>1 DEF CloserSteps
  <2> QED
    BY <2>1, <2>2
<1>10. CASE Settle(c)
  <2>1. CASE Refuse(c)
    BY <1>10, <2>1 DEF Settle, CloserSteps, Refuses, Ended
  <2>2. CASE ~Refuse(c)
    <3>1. Settles(c)
      BY <1>10, <2>2 DEF Settle, Settles
    <3> QED
      BY <3>1 DEF CloserSteps
  <2> QED
    BY <2>1, <2>2
<1>11. CASE CommitClose(c)
  BY <1>11 DEF CloserSteps
<1> QED
  BY <1>1, <1>2, <1>4, <1>5, <1>6, <1>7, <1>8, <1>9, <1>10, <1>11 DEF CloseStep
\* Every step of a closer leaves the journal's rows alone.
LEMMA CloserJournal ==
  ASSUME JournalInv, CloseRows, Underway, NEW c \in Closer, CloserSteps(c)
  PROVE  JournalInv' /\ UNCHANGED journal /\ Posted' = Posted
<1>1. UNCHANGED journal
  BY DEF CloserSteps, Begins, BeginClose, Moves, Refuses, Refuse, Computes, Confirms, Settles, CommitClose
<1>2. CASE CommitClose(c)
  <2>1. wanted[c].month \in Month /\ figures[c].snapshot \in SUBSET Session
    <3>1. wanted[c] # None /\ figures[c] # None
      BY <1>2 DEF CommitClose, Underway, Figured
    <3>2. wanted[c] \in Confirmation /\ figures[c] \in Figures
      BY <3>1 DEF CloseRows
    <3> QED
      BY <3>2 DEF Figures, Confirmation
  <2>2. RowTypes'
    BY <1>1, <1>2, <2>1 DEF CommitClose, JournalInv, RowTypes, journal
  <2> QED
    BY <1>1, <2>2, SameRowsJournal DEF journal, Posted
<1>3. CASE ~CommitClose(c)
  <2>1. UNCHANGED table
    BY <1>3 DEF CloserSteps, Begins, BeginClose, Moves, Refuses, Refuse, Computes, Confirms, Settles
  <2>2. RowTypes'
    BY <1>1, <2>1 DEF JournalInv, RowTypes, journal, table
  <2> QED
    BY <1>1, <2>2, SameRowsJournal DEF journal, Posted
<1> QED
  BY <1>2, <1>3

\* The record that a confirmation stores.
Confirmed(f, prior, total) ==
    [net |-> f.net, snapshot |-> f.snapshot, prior |-> prior, priorTotal |-> total,
     surplus |-> f.surplus, routable |-> Clamp(f.surplus + total)]

LEMMA ConfirmsStores ==
  ASSUME JournalInv, CloseRows, Underway, NEW c \in Closer, Confirms(c)
  PROVE  LET prior == Unapplied(wanted[c].month)
             total == RemainingTotal(prior)
         IN  /\ figures' = [figures EXCEPT ![c] = Confirmed(figures[c], prior, total)]
             /\ prior \in SUBSET Posted /\ total \in Int
             /\ figures[c] \in Figures
             /\ Confirmed(figures[c], prior, total) \in Figures
<1> DEFINE prior == Unapplied(wanted[c].month)
           total == RemainingTotal(prior)
<1>1. figures[c] \in Figures
  BY DEF Confirms, CloseRows, Underway, Figured
<1>2. prior \in SUBSET Posted
  BY DEF Unapplied
<1>3. total \in Int
  BY <1>2, TotalIsInt
<1>4. figures' = [figures EXCEPT ![c].prior = prior, ![c].priorTotal = total,
                                 ![c].routable = Clamp(figures[c].surplus + total)]
  BY DEF Confirms
<1> HIDE DEF prior, total
<1>5. figures' = [figures EXCEPT ![c] = Confirmed(figures[c], prior, total)]
  <2> DEFINE f == figures[c]
             amount == Clamp(figures[c].surplus + total)
  <2>1. [f EXCEPT !.prior = prior, !.priorTotal = total, !.routable = amount] = Confirmed(f, prior, total)
    <3> SUFFICES ASSUME NEW g \in Figures, NEW x
                 PROVE  [g EXCEPT !.prior = prior, !.priorTotal = total, !.routable = x]
                          = [net |-> g.net, snapshot |-> g.snapshot, prior |-> prior, priorTotal |-> total,
                             surplus |-> g.surplus, routable |-> x]
      BY <1>1 DEF Confirmed
    <3>1. PICK n \in Amounts, w \in SUBSET Session, b \in SUBSET Session, y \in Int, z \in Nat, v \in Nat :
             g = [net |-> n, snapshot |-> w, prior |-> b, priorTotal |-> y, surplus |-> z, routable |-> v]
      BY DEF Figures
    <3> DEFINE g1 == [g EXCEPT !.prior = prior]
               g2 == [g1 EXCEPT !.priorTotal = total]
               g3 == [g2 EXCEPT !.routable = x]
    <3>2. [g EXCEPT !.prior = prior, !.priorTotal = total, !.routable = x] = g3
      OBVIOUS
    <3>3. g1 = [net |-> n, snapshot |-> w, prior |-> prior, priorTotal |-> y, surplus |-> z, routable |-> v]
      BY <3>1
    <3> HIDE DEF g1
    <3>4. g2 = [net |-> n, snapshot |-> w, prior |-> prior, priorTotal |-> total, surplus |-> z, routable |-> v]
      BY <3>3
    <3> HIDE DEF g2
    <3>5. g3 = [net |-> n, snapshot |-> w, prior |-> prior, priorTotal |-> total, surplus |-> z, routable |-> x]
      BY <3>4
    <3> HIDE DEF g3
    <3> QED
      BY <3>1, <3>2, <3>5
  <2>2. figures' = [figures EXCEPT ![c] = [f EXCEPT !.prior = prior, !.priorTotal = total, !.routable = amount]]
    BY <1>4 DEF CloseRows
  <2> QED
    BY <2>1, <2>2
<1>6. Posted \subseteq Session
  BY DEF Posted
<1>7. Confirmed(figures[c], prior, total) \in Figures
  <2>1. figures[c].surplus + total \in Int
    BY <1>1, <1>3 DEF Figures
  <2>2. Clamp(figures[c].surplus + total) \in Nat
    BY <2>1 DEF Clamp
  <2> QED
    BY <1>1, <1>2, <1>3, <1>6, <2>2 DEF Confirmed, Figures
<1> QED
  BY <1>1, <1>2, <1>3, <1>5, <1>7 DEF prior, total

\* The rows a settling closer stores, by the lemma on what a close absorbs.
LEMMA SettlesStores ==
  ASSUME JournalInv, CloseRows, Underway, NEW c \in Closer, Settles(c), figures[c].prior \subseteq Posted
  PROVE  LET f == figures[c]
             a == absorbed'[c]
         IN  /\ f \in Figures
             /\ absorbed' = [absorbed EXCEPT ![c] = a]
             /\ a \in [Session -> Int]
             /\ \A t \in Session : IF t \in f.prior THEN Between(a[t], Remaining(t)) ELSE a[t] = 0
             /\ f.surplus + SumFunctionOnSet(a, Session) = Clamp(f.surplus + RemainingTotal(f.prior))
<1>1. figures[c] \in Figures
  BY DEF Settles, CloseRows, Underway, Figured
<1>2. PICK q \in OldestFirst(figures[c].prior) :
         absorbed' = [absorbed EXCEPT ![c] = Applications(figures[c].surplus, q)]
  BY DEF Settles
<1>3. absorbed'[c] = Applications(figures[c].surplus, q)
  BY <1>2 DEF CloseRows
<1>4. figures[c].surplus \in Nat /\ figures[c].prior \in SUBSET Session
  BY <1>1 DEF Figures
<1>5. \A t \in figures[c].prior : Remaining(t) \in Int
  BY RemainingIsInt
<1> QED
  <2> DEFINE u == figures[c].surplus
             S == figures[c].prior
             a == Applications(u, q)
  <2>1. u \in Nat /\ S \in SUBSET Session /\ q \in OldestFirst(S) /\ \A t \in S : Remaining(t) \in Int
    BY <1>4, <1>5
  <2> HIDE DEF u, S, a
  <2>2. /\ a \in [Session -> Int]
        /\ \A t \in Session : IF t \in S THEN Between(a[t], Remaining(t)) ELSE a[t] = 0
        /\ u + SumFunctionOnSet(a, Session) = Clamp(u + RemainingTotal(S))
    BY <2>1, AbsorbsWithin DEF a
  <2>3. absorbed'[c] = a /\ absorbed' = [absorbed EXCEPT ![c] = a]
    BY <1>2, <1>3 DEF a, u
  <2> QED
    BY <1>1, <2>2, <2>3 DEF u, S

LEMMA CloserRows ==
  ASSUME JournalInv, CloseRows, Underway, NEW c \in Closer, CloserSteps(c),
         stage[c] = "settle" => figures[c].prior \subseteq Posted
  PROVE  CloseRows' /\ Underway'
<1>1. CASE Begins(c)
  <2>1. PICK m \in Month, k \in CloseKey : BeginClose(c, m, k)
    BY <1>1 DEF Begins
  <2>2. ProposalOf(m) \in Proposal
    <3>1. Unapplied(m) \in SUBSET Posted
      BY DEF Unapplied
    <3> QED
      BY <3>1, NetIsAmounts, TotalIsInt DEF ProposalOf, Proposal
  <2>3. \A d \in Closer : wanted[d] # None => wanted[d].proposal \in Proposal
    BY DEF CloseRows, Confirmation
  <2>4. PICK p \in {ProposalOf(m)} \cup {wanted[d].proposal : d \in {e \in Closer : wanted[e] # None}} :
           wanted' = [wanted EXCEPT ![c] = [month |-> m, key |-> k, proposal |-> p]]
    BY <2>1 DEF BeginClose
  <2> DEFINE new == [month |-> m, key |-> k, proposal |-> p]
  <2>5. p \in Proposal
    BY <2>2, <2>3
  <2>6. new \in Confirmation /\ new # None
    BY <2>5, NoRowAssumption DEF Confirmation
  <2>7. wanted' = [wanted EXCEPT ![c] = new]
    BY <2>4
  <2> HIDE DEF new
  <2> QED
    BY <2>1, <2>6, <2>7 DEF BeginClose, CloseRows, Underway, Turn, Stage, Figured
<1>2. CASE Moves(c)
  BY ZenonT(30), <1>2 DEF Moves, CloseRows, Underway, Turn, Stage, Figured
<1>3. CASE Refuses(c)
  BY <1>3 DEF Refuses, Refuse, CloseRows, Underway, Turn, Stage, Figured, Ended
<1>4. CASE Computes(c)
  <2> DEFINE net == NetExpense(wanted[c].month, roles[c])
             new == [net |-> net, snapshot |-> Countable(wanted[c].month), prior |-> {},
                     priorTotal |-> 0, surplus |-> Surplus(net), routable |-> 0]
  <2>1. net \in Amounts /\ Surplus(net) \in Nat
    BY NetIsAmounts, SurplusIsNat
  <2>2. Countable(wanted[c].month) \in SUBSET Session
    BY DEF Countable, Posted
  <2>3. new \in Figures
    BY <2>1, <2>2 DEF Figures
  <2>4. figures' = [figures EXCEPT ![c] = new] /\ stage[c] = "figures" /\ Turn(c, "adjustments")
        /\ UNCHANGED <<wanted, roles, absorbed>>
    BY <1>4 DEF Computes
  <2> HIDE DEF new
  <2>5. new # None
    BY <2>3, NoRowAssumption
  <2> QED
    BY <2>3, <2>4, <2>5 DEF CloseRows, Underway, Turn, Stage, Figured
<1>5. CASE Confirms(c)
  <2>1. PICK new \in Figures : figures' = [figures EXCEPT ![c] = new]
    BY <1>5, ConfirmsStores
  <2>2. new # None
    BY NoRowAssumption
  <2>3. stage[c] = "adjustments" /\ Turn(c, "settle") /\ UNCHANGED <<wanted, roles, absorbed>>
    BY <1>5 DEF Confirms
  <2> QED
    BY <2>1, <2>2, <2>3 DEF CloseRows, Underway, Turn, Stage, Figured
<1>6. CASE Settles(c)
  <2>1. PICK a \in [Session -> Int] : absorbed' = [absorbed EXCEPT ![c] = a]
    BY <1>6, SettlesStores DEF Settles
  <2> QED
    BY <1>6, <2>1 DEF Settles, CloseRows, Underway, Turn, Stage, Figured
<1>7. CASE CommitClose(c)
  BY <1>7 DEF CommitClose, CloseRows, Underway, Turn, Stage, Figured
<1> QED
  BY <1>1, <1>2, <1>3, <1>4, <1>5, <1>6, <1>7 DEF CloserSteps
-----------------------------------------------------------------------------
(* Where the money of the closes is.                                       *)

Adjustments == {t \in Posted : adjusted[t]}
Holding == {"settle", "commit"}

\* A closer absorbs nothing before it settles; the adjustments it holds are
\* entries that stay, and it offers what they leave of its surplus; what it is
\* about to apply adds up to that; what it applied belongs to adjustments.
Ledgered(c) ==
    /\ stage[c] \notin {"commit", "done"} => \A t \in Session : absorbed[c][t] = 0
    /\ stage[c] \in Holding =>
          /\ figures[c].prior \subseteq Adjustments
          /\ figures[c].routable = Clamp(figures[c].surplus + RemainingTotal(figures[c].prior))
    /\ stage[c] = "commit" =>
          /\ \A t \in Session : IF t \in figures[c].prior THEN Between(absorbed[c][t], Remaining(t))
                                ELSE absorbed[c][t] = 0
          /\ figures[c].surplus + SumFunctionOnSet(absorbed[c], Session) = figures[c].routable
    /\ stage[c] = "done" => \A t \in Session : absorbed[c][t] # 0 => t \in Adjustments
EachLedgered == \A c \in Closer : Ledgered(c)

\* No two closers hold the same adjustment.
Apart == \A c, d \in Closer :
            c # d /\ stage[c] \in Holding /\ stage[d] \in Holding => figures[c].prior \cap figures[d].prior = {}

\* What the closes offered is what they earned and what they applied.
Routed == SumFunctionOnSet([c \in Closer |-> IF c \in Done THEN figures[c].routable ELSE 0], Closer)
Earned == SumFunctionOnSet([c \in Closer |-> IF c \in Done THEN figures[c].surplus ELSE 0], Closer)
AppliedInAll == SumFunctionOnSet([t \in Session |-> AppliedTo(t)], Session)
Balanced == Routed = Earned + AppliedInAll

WithinOwed == \A t \in Adjustments : Between(AppliedTo(t), Owed(t))

MoneyInv == EachLedgered /\ Apart /\ Balanced /\ WithinOwed
CloseInv == JournalInv /\ CloseRows /\ Underway /\ MoneyInv

\* An entry that is no adjustment has had nothing applied to it.
LEMMA NothingApplied ==
  ASSUME EachLedgered, NEW t \in Session, t \notin Adjustments
  PROVE  AppliedTo(t) = 0
<1> DEFINE a == [c \in Closer |-> absorbed[c][t]]
<1>1. \A c \in Done : a[c] = 0
  BY DEF EachLedgered, Ledgered, Done
<1>2. IsFiniteSet(Done)
  BY Finite DEF Done
<1> HIDE DEF a
<1> QED
  BY <1>1, <1>2, SumZero DEF AppliedTo, Total, a

\* What is left of the same adjustments adds up to the same.
LEMMA SameTotal ==
  ASSUME NEW S \in SUBSET Session, \A t \in S : Remaining(t)' = Remaining(t)
  PROVE  RemainingTotal(S)' = RemainingTotal(S)
<1> DEFINE f == [t \in Session |-> IF t \in S THEN Remaining(t) ELSE 0]
           g == [t \in Session |-> IF t \in S THEN Remaining(t)' ELSE 0]
<1>1. f = g
  OBVIOUS
<1>2. RemainingTotal(S) = SumFunctionOnSet(f, Session) /\ RemainingTotal(S)' = SumFunctionOnSet(g, Session)
  BY DEF RemainingTotal, Total
<1> QED
  BY <1>1, <1>2

\* A closer that does not step keeps its part, while what is left of the
\* adjustments it holds does not change.
LEMMA OthersLedgered ==
  ASSUME CloseRows, Underway, NEW d \in Closer, Ledgered(d),
         stage'[d] = stage[d], figures'[d] = figures[d], absorbed'[d] = absorbed[d],
         Adjustments \subseteq Adjustments',
         stage[d] \in Holding => \A t \in figures[d].prior : Remaining(t)' = Remaining(t)
  PROVE  Ledgered(d)'
<1>1. stage[d] \in Holding => RemainingTotal(figures[d].prior)' = RemainingTotal(figures[d].prior)
  <2> SUFFICES ASSUME stage[d] \in Holding
               PROVE  RemainingTotal(figures[d].prior)' = RemainingTotal(figures[d].prior)
    OBVIOUS
  <2> DEFINE S == figures[d].prior
  <2>1. S \in SUBSET Session
    BY DEF CloseRows, Underway, Figured, Holding, Figures
  <2>2. S' = S
    OBVIOUS
  <2>3. \A t \in S : Remaining(t)' = Remaining(t)
    OBVIOUS
  <2>4. \A T \in SUBSET Session : (\A t \in T : Remaining(t)' = Remaining(t)) => RemainingTotal(T)' = RemainingTotal(T)
    BY SameTotal
  <2> QED
    BY <2>1, <2>2, <2>3, <2>4
<1> QED
  BY <1>1 DEF Ledgered, Holding
\* While the closes that are done and what they stored stay, so does what was
\* applied.
LEMMA DoneStays ==
  ASSUME CloseRows, Done' = Done,
         \A c \in Done : absorbed'[c] = absorbed[c] /\ figures'[c] = figures[c]
  PROVE  /\ \A t \in Session : AppliedTo(t)' = AppliedTo(t)
         /\ Balanced => Balanced'
<1>1. \A t \in Session : AppliedTo(t)' = AppliedTo(t)
  <2> SUFFICES ASSUME NEW t \in Session PROVE AppliedTo(t)' = AppliedTo(t)
    OBVIOUS
  <2> DEFINE old == [c \in Closer |-> absorbed[c][t]]
             new == [c \in Closer |-> absorbed'[c][t]]
  <2>1. Done \subseteq Closer /\ IsFiniteSet(Done)
    BY Finite DEF Done
  <2>2. \A c \in Done : old[c] = new[c] /\ old[c] \in Int
    BY <2>1 DEF CloseRows
  <2>3. AppliedTo(t) = SumFunctionOnSet(old, Done) /\ AppliedTo(t)' = SumFunctionOnSet(new, Done)
    BY DEF AppliedTo, Total
  <2> HIDE DEF old, new
  <2>4. SumFunctionOnSet(old, Done) = SumFunctionOnSet(new, Done)
    BY <2>1, <2>2, SumSame
  <2> QED
    BY <2>3, <2>4
<1>2. AppliedInAll' = AppliedInAll
  <2>1. [t \in Session |-> AppliedTo(t)]' = [t \in Session |-> AppliedTo(t)]
    BY <1>1
  <2> QED
    BY <2>1 DEF AppliedInAll
<1>3. Routed' = Routed /\ Earned' = Earned
  <2>1. [c \in Closer |-> IF c \in Done THEN figures[c].routable ELSE 0]'
          = [c \in Closer |-> IF c \in Done THEN figures[c].routable ELSE 0]
    OBVIOUS
  <2>2. [c \in Closer |-> IF c \in Done THEN figures[c].surplus ELSE 0]'
          = [c \in Closer |-> IF c \in Done THEN figures[c].surplus ELSE 0]
    OBVIOUS
  <2> QED
    BY <2>1, <2>2 DEF Routed, Earned
<1> QED
  BY <1>1, <1>2, <1>3 DEF Balanced

\* A posting, a reversal or a rollback moves no money of the closes: what it
\* adds to the adjustments has had nothing applied to it.
LEMMA PostingMoney ==
  ASSUME CloseInv, JournalInv', Posting \/ \E s \in Session : VictimPosting(s), UNCHANGED closing
  PROVE  MoneyInv'
<1>1. CloseRows /\ Underway /\ JournalInv /\ EachLedgered /\ RowTypes
  BY DEF CloseInv, MoneyInv, JournalInv
<1>2. \A t \in Posted : Same(t) /\ t \in Posted'
  BY <1>1, PostingWrites
<1>3. Adjustments \subseteq Adjustments'
  BY <1>2 DEF Adjustments, Same
<1>4. Done' = Done /\ \A c \in Closer : stage'[c] = stage[c] /\ absorbed'[c] = absorbed[c] /\ figures'[c] = figures[c]
  BY DEF closing, Done
<1>5. /\ \A t \in Session : AppliedTo(t)' = AppliedTo(t)
      /\ Balanced => Balanced'
  BY <1>1, <1>4, DoneStays DEF Done
<1>6. \A t \in Adjustments : Owed(t)' = Owed(t) /\ Remaining(t)' = Remaining(t) /\ t \in Session
  <2> SUFFICES ASSUME NEW t \in Adjustments PROVE Owed(t)' = Owed(t) /\ Remaining(t)' = Remaining(t) /\ t \in Session
    OBVIOUS
  <2>1. entry'[t] = entry[t] /\ t \in Session
    BY <1>2 DEF Adjustments, Same, Posted
  <2> QED
    BY <1>5, <2>1 DEF Owed, Remaining
<1>7. EachLedgered'
  <2> SUFFICES ASSUME NEW c \in Closer PROVE Ledgered(c)'
    BY DEF EachLedgered
  <2>1. Ledgered(c) /\ (stage[c] \in Holding => figures[c].prior \subseteq Adjustments)
    BY <1>1 DEF EachLedgered, Ledgered
  <2> QED
    BY <1>1, <1>3, <1>4, <1>6, <2>1, OthersLedgered
<1>8. Apart'
  BY <1>4 DEF CloseInv, MoneyInv, Apart
<1>9. WithinOwed'
  <2> SUFFICES ASSUME NEW t \in Adjustments' PROVE Between(AppliedTo(t), Owed(t))'
    BY DEF WithinOwed
  <2>1. CASE t \in Adjustments
    <3>1. Between(AppliedTo(t), Owed(t))
      BY <2>1 DEF CloseInv, MoneyInv, WithinOwed
    <3> QED
      BY <1>5, <1>6, <2>1, <3>1 DEF Between
  <2>2. CASE t \notin Adjustments
    <3>1. t \in Session
      BY DEF Adjustments, Posted
    <3>2. AppliedTo(t)' = 0
      BY <1>1, <1>5, <2>2, <3>1, NothingApplied
    <3>3. entry'[t] \in Entry
      BY DEF Adjustments, Posted, JournalInv, RowTypes
    <3>4. Owed(t)' \in Int
      BY <3>3, DeltaIsInt DEF Owed
    <3> QED
      BY <3>2, <3>4 DEF Between
  <2> QED
    BY <2>1, <2>2
<1> QED
  BY <1>5, <1>7, <1>8, <1>9 DEF CloseInv, MoneyInv
\* What a step of one closer leaves to the others.
LEMMA OthersStay ==
  ASSUME CloseRows, NEW c \in Closer, CloserSteps(c), NEW d \in Closer, d # c
  PROVE  stage'[d] = stage[d] /\ figures'[d] = figures[d] /\ absorbed'[d] = absorbed[d]
<1>1. stage'[d] = stage[d]
  BY DEF CloserSteps, Begins, BeginClose, Moves, Refuses, Refuse, Computes, Confirms, Settles, CommitClose,
         Turn, CloseRows
<1>2. figures'[d] = figures[d]
  BY DEF CloserSteps, Begins, BeginClose, Moves, Refuses, Refuse, Computes, Confirms, Settles, CommitClose, CloseRows
<1>3. absorbed'[d] = absorbed[d]
  BY DEF CloserSteps, Begins, BeginClose, Moves, Refuses, Refuse, Computes, Confirms, Settles, CommitClose, CloseRows
<1> QED
  BY <1>1, <1>2, <1>3

LEMMA SameAdjustments ==
  ASSUME UNCHANGED journal, Posted' = Posted
  PROVE  Adjustments' = Adjustments /\ \A t \in Session : Owed(t)' = Owed(t)
<1>1. adjusted' = adjusted /\ entry' = entry
  BY DEF journal
<1> QED
  BY <1>1 DEF Adjustments, Owed

\* A step that neither completes a close nor undoes one moves no money.
LEMMA QuietMoney ==
  ASSUME CloseInv, NEW c \in Closer, UNCHANGED journal, Posted' = Posted,
         \A d \in Closer : d # c => stage'[d] = stage[d] /\ figures'[d] = figures[d] /\ absorbed'[d] = absorbed[d],
         stage[c] # "done", stage'[c] # "done",
         (\A t \in Session : Remaining(t)' = Remaining(t)) => Ledgered(c)',
         Apart'
  PROVE  MoneyInv'
<1>1. CloseRows /\ Underway /\ EachLedgered /\ Balanced /\ WithinOwed
  BY DEF CloseInv, MoneyInv
<1>2. Done' = Done /\ \A d \in Done : d \in Closer /\ d # c
  BY DEF Done
<1>3. (\A t \in Session : AppliedTo(t)' = AppliedTo(t)) /\ Balanced'
  BY <1>1, <1>2, DoneStays
<1>4. Adjustments' = Adjustments /\ \A t \in Session : Owed(t)' = Owed(t)
  BY SameAdjustments
<1>5. \A t \in Session : Remaining(t)' = Remaining(t)
  BY <1>3, <1>4 DEF Remaining
<1>6. WithinOwed'
  BY <1>1, <1>3, <1>4 DEF WithinOwed, Between, Adjustments, Posted
<1>7. EachLedgered'
  <2> SUFFICES ASSUME NEW d \in Closer PROVE Ledgered(d)'
    BY DEF EachLedgered
  <2>1. CASE d = c
    BY <1>5, <2>1
  <2>2. CASE d # c
    <3>1. Ledgered(d) /\ (stage[d] \in Holding => figures[d].prior \subseteq Session)
      BY <1>1 DEF EachLedgered, Ledgered, Adjustments, Posted
    <3>2. stage[d] \in Holding => \A t \in figures[d].prior : Remaining(t)' = Remaining(t)
      BY <1>5, <3>1
    <3> QED
      BY <1>1, <1>4, <2>2, <3>1, <3>2, OthersLedgered
  <2> QED
    BY <2>1, <2>2
<1> QED
  BY <1>3, <1>6, <1>7 DEF MoneyInv

\* Before it settles, and once it is refused, a closer holds nothing.
LEMMA FreeMoney ==
  ASSUME CloseInv, NEW c \in Closer, CloserSteps(c), Begins(c) \/ Moves(c) \/ Refuses(c) \/ Computes(c)
  PROVE  MoneyInv'
<1>1. CloseRows /\ Underway /\ EachLedgered /\ JournalInv /\ Apart
  BY DEF CloseInv, MoneyInv
<1>2. UNCHANGED journal /\ Posted' = Posted
  BY <1>1, CloserJournal
<1>3. \A d \in Closer : d # c => stage'[d] = stage[d] /\ figures'[d] = figures[d] /\ absorbed'[d] = absorbed[d]
  BY <1>1, OthersStay
<1>4. stage[c] # "done" /\ stage'[c] \notin {"done"} \cup Holding
  BY <1>1 DEF Begins, BeginClose, Moves, Refuses, Refuse, Computes, Turn, CloseRows, Figured, Holding, Ended
<1>5. \A t \in Session : absorbed'[c][t] = 0
  <2>1. CASE Refuses(c)
    BY <1>1, <2>1 DEF Refuses, Refuse, CloseRows
  <2>2. CASE ~Refuses(c)
    <3>1. absorbed' = absorbed /\ stage[c] \notin {"commit", "done"}
      BY <2>2 DEF Begins, BeginClose, Moves, Computes, Figured
    <3> QED
      BY <1>1, <3>1 DEF EachLedgered, Ledgered
  <2> QED
    BY <2>1, <2>2
<1>6. Ledgered(c)'
  BY <1>4, <1>5 DEF Ledgered, Holding
<1>7. Apart'
  BY <1>1, <1>3, <1>4 DEF Apart
<1> QED
  BY <1>2, <1>3, <1>4, <1>6, <1>7, QuietMoney

LEMMA ConfirmsMoney ==
  ASSUME CloseInv, NEW c \in Closer, CloserSteps(c), Confirms(c)
  PROVE  MoneyInv'
<1>1. CloseRows /\ Underway /\ EachLedgered /\ JournalInv /\ Apart
  BY DEF CloseInv, MoneyInv
<1>2. UNCHANGED journal /\ Posted' = Posted
  BY <1>1, CloserJournal
<1>3. \A d \in Closer : d # c => stage'[d] = stage[d] /\ figures'[d] = figures[d] /\ absorbed'[d] = absorbed[d]
  BY <1>1, OthersStay
<1> DEFINE prior == Unapplied(wanted[c].month)
           total == RemainingTotal(prior)
<1>4. stage[c] = "adjustments" /\ stage'[c] = "settle" /\ absorbed' = absorbed /\ LocksAdjustment(c) = {}
  BY <1>1 DEF Confirms, Turn, CloseRows
<1>5. /\ figures'[c].prior = prior /\ figures'[c].surplus = figures[c].surplus
      /\ figures'[c].routable = Clamp(figures[c].surplus + total)
  <2>1. figures'[c] = Confirmed(figures[c], prior, total)
    BY <1>1, ConfirmsStores DEF CloseRows
  <2> QED
    BY <2>1 DEF Confirmed
<1>6. prior \subseteq Adjustments /\ prior \in SUBSET Session
  BY DEF Unapplied, Adjustments, Posted
<1>7. Apart'
  <2>1. \A d \in Closer : d # c /\ stage[d] \in Holding => figures[d].prior \cap prior = {}
    BY <1>4 DEF LocksAdjustment, Holding
  <2> HIDE DEF prior, total
  <2>2. \A d \in Closer : d # c /\ stage'[d] \in Holding => figures'[d].prior \cap figures'[c].prior = {}
    BY <1>3, <1>5, <2>1
  <2> QED
    BY <1>1, <1>3, <2>2 DEF Apart
<1>8. ASSUME \A t \in Session : Remaining(t)' = Remaining(t) PROVE Ledgered(c)'
  <2> HIDE DEF prior
  <2>1. \A T \in SUBSET Session : RemainingTotal(T)' = RemainingTotal(T)
    BY <1>8, SameTotal
  <2>2. RemainingTotal(figures[c].prior)' = total
    BY <1>5, <1>6, <2>1
  <2>3. Adjustments' = Adjustments
    BY <1>2, SameAdjustments
  <2>4. \A t \in Session : absorbed'[c][t] = 0
    BY <1>1, <1>4 DEF EachLedgered, Ledgered
  <2> HIDE DEF total
  <2> QED
    BY <1>4, <1>5, <1>6, <2>2, <2>3, <2>4 DEF Ledgered, Holding
<1> QED
  BY <1>2, <1>3, <1>4, <1>7, <1>8, QuietMoney

LEMMA SettlesMoney ==
  ASSUME CloseInv, NEW c \in Closer, CloserSteps(c), Settles(c)
  PROVE  MoneyInv'
<1>1. CloseRows /\ Underway /\ EachLedgered /\ JournalInv /\ Apart
  BY DEF CloseInv, MoneyInv
<1>2. UNCHANGED journal /\ Posted' = Posted
  BY <1>1, CloserJournal
<1>3. \A d \in Closer : d # c => stage'[d] = stage[d] /\ figures'[d] = figures[d] /\ absorbed'[d] = absorbed[d]
  BY <1>1, OthersStay
<1>4. stage[c] = "settle" /\ stage'[c] = "commit" /\ figures' = figures
  BY <1>1 DEF Settles, Turn, CloseRows
<1>5. /\ figures[c].prior \subseteq Adjustments
      /\ figures[c].routable = Clamp(figures[c].surplus + RemainingTotal(figures[c].prior))
  BY <1>1, <1>4 DEF EachLedgered, Ledgered, Holding
<1>6. /\ \A t \in Session : IF t \in figures[c].prior THEN Between(absorbed'[c][t], Remaining(t))
                            ELSE absorbed'[c][t] = 0
      /\ figures[c].surplus + SumFunctionOnSet(absorbed'[c], Session) = figures[c].routable
  BY <1>1, <1>5, SettlesStores DEF Adjustments
<1>7. Apart'
  BY <1>1, <1>3, <1>4 DEF Apart, Holding
<1>8. ASSUME \A t \in Session : Remaining(t)' = Remaining(t) PROVE Ledgered(c)'
  <2>1. \A T \in SUBSET Session : RemainingTotal(T)' = RemainingTotal(T)
    BY <1>8, SameTotal
  <2>2. figures[c].prior \in SUBSET Session
    BY <1>5 DEF Adjustments, Posted
  <2>3. RemainingTotal(figures[c].prior)' = RemainingTotal(figures[c].prior)
    BY <1>4, <2>1, <2>2
  <2>4. Adjustments' = Adjustments
    BY <1>2, SameAdjustments
  <2> QED
    BY <1>4, <1>5, <1>6, <1>8, <2>3, <2>4 DEF Ledgered, Holding
<1> QED
  BY <1>2, <1>3, <1>4, <1>7, <1>8, QuietMoney
\* One more close that is done adds one amount to a sum over those done.
LEMMA OneMore ==
  ASSUME NEW f, NEW g, NEW c \in Closer, NEW x \in Int, f[c] = 0, g[c] = x,
         \A d \in Closer : f[d] \in Int, \A d \in Closer \ {c} : g[d] = f[d]
  PROVE  /\ SumFunctionOnSet(g, Closer) = SumFunctionOnSet(f, Closer) + x
         /\ SumFunctionOnSet(f, Closer) \in Int
<1>1. DifferAt(Closer, f, g, c)
  BY DEF DifferAt
<1>2. IsFiniteSet(Closer)
  BY Finite
<1>3. PICK r \in Int : SumFunctionOnSet(g, Closer) = g[c] + r /\ SumFunctionOnSet(f, Closer) = f[c] + r
  BY <1>1, <1>2, SumRest
<1> QED
  BY <1>3

LEMMA CommitMoney ==
  ASSUME CloseInv, NEW c \in Closer, CloserSteps(c), CommitClose(c)
  PROVE  MoneyInv'
<1>1. CloseRows /\ Underway /\ EachLedgered /\ JournalInv /\ Apart /\ Balanced /\ WithinOwed
  BY DEF CloseInv, MoneyInv
<1>2. UNCHANGED journal /\ Posted' = Posted
  BY <1>1, CloserJournal
<1>3. \A d \in Closer : d # c => stage'[d] = stage[d] /\ figures'[d] = figures[d] /\ absorbed'[d] = absorbed[d]
  BY <1>1, OthersStay
<1>4. stage[c] = "commit" /\ stage'[c] = "done" /\ figures' = figures /\ absorbed' = absorbed
  BY <1>1 DEF CommitClose, Turn, CloseRows
<1>5. Adjustments' = Adjustments /\ \A t \in Session : Owed(t)' = Owed(t)
  BY <1>2, SameAdjustments
<1>6. Done' = Done \cup {c} /\ c \notin Done /\ Done \subseteq Closer /\ IsFiniteSet(Done)
  BY <1>3, <1>4, Finite DEF Done
<1>7. /\ figures[c].prior \subseteq Adjustments
      /\ \A t \in Session : IF t \in figures[c].prior THEN Between(absorbed[c][t], Remaining(t))
                            ELSE absorbed[c][t] = 0
      /\ figures[c].surplus + SumFunctionOnSet(absorbed[c], Session) = figures[c].routable
  BY <1>1, <1>4 DEF EachLedgered, Ledgered, Holding
<1>8. figures[c] \in Figures /\ figures[c].surplus \in Int /\ figures[c].routable \in Int
  BY <1>1, <1>4 DEF CloseRows, Underway, Figured, Figures
<1>9. absorbed[c] \in [Session -> Int]
  BY <1>1 DEF CloseRows
<1>10. \A t \in Session : /\ AppliedTo(t) \in Int
                          /\ AppliedTo(t)' = AppliedTo(t) + absorbed[c][t]
  <2> SUFFICES ASSUME NEW t \in Session
               PROVE  AppliedTo(t) \in Int /\ AppliedTo(t)' = AppliedTo(t) + absorbed[c][t]
    OBVIOUS
  <2> DEFINE a == [d \in Closer |-> absorbed[d][t]]
  <2>1. \A d \in Closer : a[d] \in Int
    BY <1>1 DEF CloseRows
  <2>2. a[c] = absorbed[c][t]
    OBVIOUS
  <2>3. AppliedTo(t) = SumFunctionOnSet(a, Done) /\ AppliedTo(t)' = SumFunctionOnSet(a, Done \cup {c})
    BY <1>4, <1>6 DEF AppliedTo, Total
  <2> HIDE DEF a
  <2>4. \A y \in Done : a[y] \in Int /\ a[y] = a[y]
    BY <1>6, <2>1
  <2>5. SumFunctionOnSet(a, Done \cup {c}) = SumFunctionOnSet(a, Done) + a[c]
    BY <1>6, <2>1, <2>4, SumAdds
  <2> QED
    BY <1>1, <2>2, <2>3, <2>5, AppliedIsInt
<1>11. \A t \in Adjustments : t \in Session /\ Owed(t) \in Int /\ Remaining(t) \in Int
                              /\ Remaining(t) = Owed(t) - AppliedTo(t)
  BY <1>1, PostedRow, RemainingIsInt DEF Adjustments, Posted, Remaining
<1>12. WithinOwed'
  <2> SUFFICES ASSUME NEW t \in Adjustments PROVE Between(AppliedTo(t)', Owed(t)')
    BY <1>5 DEF WithinOwed, Between
  <2> DEFINE x == AppliedTo(t)
             y == Owed(t)
             part == absorbed[c][t]
  <2>1. /\ t \in Session /\ x \in Int /\ y \in Int /\ part \in Int
        /\ AppliedTo(t)' = x + part /\ Owed(t)' = y /\ Remaining(t) = y - x
    BY <1>5, <1>9, <1>10, <1>11
  <2>2. Between(x, y) /\ (Between(part, y - x) \/ part = 0)
    BY <1>1, <1>7, <2>1 DEF WithinOwed
  <2> HIDE DEF x, y, part
  <2>3. Between(x + part, y)
    BY <2>1, <2>2 DEF Between
  <2> QED
    BY <2>1, <2>3
<1>13. Apart'
  BY <1>1, <1>3, <1>4 DEF Apart, Holding
<1>14. EachLedgered'
  <2> SUFFICES ASSUME NEW d \in Closer PROVE Ledgered(d)'
    BY DEF EachLedgered
  <2>1. CASE d = c
    <3>1. \A t \in Session : absorbed'[c][t] # 0 => t \in Adjustments'
      BY <1>4, <1>5, <1>7
    <3> QED
      BY <1>4, <2>1, <3>1 DEF Ledgered, Holding
  <2>2. CASE d # c
    <3>1. Ledgered(d)
      BY <1>1 DEF EachLedgered
    <3>2. ASSUME stage[d] \in Holding, NEW t \in figures[d].prior PROVE Remaining(t)' = Remaining(t)
      <4>1. figures[d].prior \subseteq Adjustments /\ figures[d].prior \cap figures[c].prior = {}
        BY <1>1, <1>4, <2>2, <3>1, <3>2 DEF Ledgered, Apart, Holding
      <4>2. t \in Session /\ absorbed[c][t] = 0
        BY <1>7, <1>11, <3>2, <4>1
      <4>3. AppliedTo(t)' = AppliedTo(t)
        BY <1>10, <4>2
      <4> QED
        BY <1>5, <4>2, <4>3 DEF Remaining
    <3> QED
      BY <1>1, <1>3, <1>5, <2>2, <3>1, <3>2, OthersLedgered
  <2> QED
    BY <2>1, <2>2
<1>15. Balanced'
  <2> DEFINE routed == [d \in Closer |-> IF d \in Done THEN figures[d].routable ELSE 0]
             routedThen == [d \in Closer |-> IF d \in Done \cup {c} THEN figures[d].routable ELSE 0]
             earned == [d \in Closer |-> IF d \in Done THEN figures[d].surplus ELSE 0]
             earnedThen == [d \in Closer |-> IF d \in Done \cup {c} THEN figures[d].surplus ELSE 0]
             put == [t \in Session |-> AppliedTo(t)]
             putThen == [t \in Session |-> AppliedTo(t)']
  <2>1. \A d \in Done : figures[d].routable \in Int /\ figures[d].surplus \in Int
    BY <1>1 DEF CloseRows, Underway, Figured, Figures, Done
  <2>2. /\ \A d \in Closer : routed[d] \in Int /\ earned[d] \in Int
        /\ \A d \in Closer \ {c} : routedThen[d] = routed[d] /\ earnedThen[d] = earned[d]
        /\ routed[c] = 0 /\ earned[c] = 0
        /\ routedThen[c] = figures[c].routable /\ earnedThen[c] = figures[c].surplus
    BY <1>6, <2>1
  <2>3. \A t \in Session : put[t] \in Int /\ absorbed[c][t] \in Int /\ putThen[t] = put[t] + absorbed[c][t]
    BY <1>9, <1>10
  <2>4. /\ Routed = SumFunctionOnSet(routed, Closer) /\ Routed' = SumFunctionOnSet(routedThen, Closer)
        /\ Earned = SumFunctionOnSet(earned, Closer) /\ Earned' = SumFunctionOnSet(earnedThen, Closer)
    BY <1>4, <1>6 DEF Routed, Earned
  <2>5. AppliedInAll = SumFunctionOnSet(put, Session) /\ AppliedInAll' = SumFunctionOnSet(putThen, Session)
    BY DEF AppliedInAll
  <2> HIDE DEF routed, routedThen, earned, earnedThen, put, putThen
  <2>6. Routed' = Routed + figures[c].routable /\ Routed \in Int
    BY <1>8, <2>2, <2>4, OneMore
  <2>7. Earned' = Earned + figures[c].surplus /\ Earned \in Int
    BY <1>8, <2>2, <2>4, OneMore
  <2>8. AppliedInAll' = AppliedInAll + SumFunctionOnSet(absorbed[c], Session)
    BY <2>3, <2>5, Finite, SumOfTwo
  <2>9. AppliedInAll \in Int /\ SumFunctionOnSet(absorbed[c], Session) \in Int
    BY <2>3, <2>5, Finite, SumTakes
  <2> DEFINE sum == SumFunctionOnSet(absorbed[c], Session)
  <2>10. Routed = Earned + AppliedInAll /\ figures[c].surplus + sum = figures[c].routable
    BY <1>1, <1>7 DEF Balanced
  <2> HIDE DEF sum
  <2>11. Routed' = Earned' + AppliedInAll'
    BY <1>8, <2>6, <2>7, <2>8, <2>9, <2>10 DEF sum
  <2> QED
    BY <2>11 DEF Balanced
<1> QED
  BY <1>12, <1>13, <1>14, <1>15 DEF MoneyInv
-----------------------------------------------------------------------------
(* The invariant.                                                          *)

LEMMA InitClose == CloseInit => CloseInv
<1> SUFFICES ASSUME CloseInit PROVE CloseInv
  OBVIOUS
<1>1. JournalInv /\ Posted = {}
  BY InitJournal DEF CloseInit, Init, Posted
<1>2. CloseRows /\ Underway
  BY DEF CloseInit, CloseRows, Underway, Stage, Figured
<1>3. Done = {} /\ Adjustments = {}
  BY <1>1 DEF CloseInit, Done, Adjustments
<1>4. EachLedgered /\ Apart /\ WithinOwed
  BY <1>3 DEF CloseInit, EachLedgered, Ledgered, Apart, WithinOwed, Holding
<1>5. Balanced
  <2>1. \A t \in Session : AppliedTo(t) = 0
    BY <1>3, <1>4, NothingApplied
  <2> DEFINE put == [t \in Session |-> AppliedTo(t)]
             routed == [d \in Closer |-> IF d \in Done THEN figures[d].routable ELSE 0]
             earned == [d \in Closer |-> IF d \in Done THEN figures[d].surplus ELSE 0]
  <2>2. (\A t \in Session : put[t] = 0) /\ (\A d \in Closer : routed[d] = 0 /\ earned[d] = 0)
    BY <1>3, <2>1
  <2>3. Routed = SumFunctionOnSet(routed, Closer) /\ Earned = SumFunctionOnSet(earned, Closer)
        /\ AppliedInAll = SumFunctionOnSet(put, Session)
    BY DEF Routed, Earned, AppliedInAll
  <2> HIDE DEF put, routed, earned
  <2>4. SumFunctionOnSet(routed, Closer) = 0 /\ SumFunctionOnSet(earned, Closer) = 0
    BY <2>2, Finite, SumZero
  <2>5. SumFunctionOnSet(put, Session) = 0
    BY <2>2, Finite, SumZero
  <2> QED
    BY <2>3, <2>4, <2>5 DEF Balanced
<1> QED
  BY <1>1, <1>2, <1>4, <1>5 DEF CloseInv, MoneyInv

LEMMA StillMoney ==
  ASSUME CloseInv, UNCHANGED journal, UNCHANGED closing, Posted' = Posted
  PROVE  MoneyInv'
<1>1. CloseRows /\ Underway /\ EachLedgered /\ Balanced /\ WithinOwed
  BY DEF CloseInv, MoneyInv
<1>2. Done' = Done /\ \A c \in Closer : stage'[c] = stage[c] /\ absorbed'[c] = absorbed[c] /\ figures'[c] = figures[c]
  BY DEF closing, Done
<1>3. (\A t \in Session : AppliedTo(t)' = AppliedTo(t)) /\ Balanced'
  BY <1>1, <1>2, DoneStays DEF Done
<1>4. Adjustments' = Adjustments /\ \A t \in Session : Owed(t)' = Owed(t)
  BY SameAdjustments
<1>5. WithinOwed'
  BY <1>1, <1>3, <1>4 DEF WithinOwed, Between, Adjustments, Posted
<1>6. EachLedgered'
  <2> SUFFICES ASSUME NEW c \in Closer PROVE Ledgered(c)'
    BY DEF EachLedgered
  <2>1. Ledgered(c) /\ (stage[c] \in Holding => figures[c].prior \subseteq Session)
    BY <1>1 DEF EachLedgered, Ledgered, Adjustments, Posted
  <2>2. stage[c] \in Holding => \A t \in figures[c].prior : Remaining(t)' = Remaining(t)
    BY <1>3, <1>4, <2>1 DEF Remaining
  <2> QED
    BY <1>1, <1>2, <1>4, <2>1, <2>2, OthersLedgered
<1>7. Apart'
  BY <1>2 DEF CloseInv, MoneyInv, Apart
<1> QED
  BY <1>3, <1>5, <1>6, <1>7 DEF MoneyInv

LEMMA CloserKeeps ==
  ASSUME CloseInv, NEW c \in Closer, CloserSteps(c)
  PROVE  CloseInv'
<1>1. JournalInv /\ CloseRows /\ Underway /\ EachLedgered
  BY DEF CloseInv, MoneyInv
<1>2. stage[c] = "settle" => figures[c].prior \subseteq Posted
  BY <1>1 DEF EachLedgered, Ledgered, Holding, Adjustments
<1>3. MoneyInv'
  BY FreeMoney, ConfirmsMoney, SettlesMoney, CommitMoney DEF CloserSteps
<1> QED
  BY <1>1, <1>2, <1>3, CloserJournal, CloserRows DEF CloseInv

LEMMA NextClose == CloseInv /\ [CloseNext]_allVars => CloseInv'
<1> SUFFICES ASSUME CloseInv, [CloseNext]_allVars PROVE CloseInv'
  OBVIOUS
<1>1. JournalInv /\ CloseRows /\ Underway
  BY DEF CloseInv
<1>2. ASSUME NEW c \in Closer, Begins(c) \/ CloseStep(c) \/ CrashClose(c) \/ Victim(c)
      PROVE  CloseInv'
  <2>1. CloserSteps(c)
    BY <1>1, <1>2, CloserTakes DEF CloserSteps
  <2> QED
    BY <2>1, CloserKeeps
<1>3. CASE (Posting \/ \E s \in Session : VictimPosting(s)) /\ UNCHANGED closing
  <2>1. JournalInv'
    BY <1>1, <1>3, PostingJournal
  <2>2. CloseRows' /\ Underway'
    BY <1>1, <1>3 DEF closing, CloseRows, Underway
  <2> QED
    BY <1>3, <2>1, <2>2, PostingMoney DEF CloseInv
<1>4. CASE UNCHANGED allVars
  <2>1. RowTypes' /\ UNCHANGED <<request, pc, answer, entry, adjusted>>
    BY <1>1, <1>4 DEF allVars, vars, table, JournalInv, RowTypes
  <2>2. JournalInv'
    BY <1>1, <2>1, SameRowsJournal
  <2>3. UNCHANGED closing
    BY <1>4 DEF allVars, closing
  <2>4. UNCHANGED journal
    BY <1>4 DEF allVars, vars, journal
  <2>5. Posted' = Posted
    BY <2>1 DEF Posted
  <2>6. CloseRows' /\ Underway'
    BY <1>1, <2>3 DEF closing, CloseRows, Underway
  <2>7. MoneyInv'
    BY <2>1, <2>3, <2>4, <2>5, StillMoney
  <2> QED
    BY <2>2, <2>6, <2>7 DEF CloseInv
<1>5. Closing => \E c \in Closer : Begins(c) \/ CloseStep(c) \/ CrashClose(c) \/ Victim(c)
  BY DEF Closing, Begins
<1> QED
  BY <1>2, <1>3, <1>4, <1>5 DEF CloseNext

LEMMA CloseInvariant == CloseSpec => []CloseInv
  BY InitClose, NextClose, PTL DEF CloseSpec

\* A close applies no more of an adjustment than it still owes, in its sign:
\* whatever postings, reversals and other closes run between the close's
\* reading of the adjustments and its commit.
THEOREM AppliesWithinOwed == CloseSpec => []AppliedWithinOwed
<1>1. CloseInv => AppliedWithinOwed
  BY DEF CloseInv, MoneyInv, WithinOwed, Between, Adjustments, AppliedWithinOwed
<1> QED
  BY <1>1, CloseInvariant, PTL

\* What the closes offered for routing and what is left of the adjustments is
\* what the closes earned and what the adjustments owe, whatever runs between
\* the statements of a close.
THEOREM ClosesConserveMoney == CloseSpec => []MoneyConserved
<1>1. CloseInv => MoneyConserved
  <2> SUFFICES ASSUME CloseInv PROVE MoneyConserved
    OBVIOUS
  <2>1. JournalInv /\ CloseRows /\ EachLedgered /\ Balanced
    BY DEF CloseInv, MoneyInv
  <2> DEFINE left == [t \in Session |-> IF t \in Adjustments THEN Remaining(t) ELSE 0]
             owed == [t \in Session |-> IF t \in Adjustments THEN Owed(t) ELSE 0]
             put == [t \in Session |-> AppliedTo(t)]
  <2>2. \A t \in Session : left[t] \in Int /\ put[t] \in Int /\ owed[t] = left[t] + put[t]
    <3> SUFFICES ASSUME NEW t \in Session
                 PROVE  left[t] \in Int /\ put[t] \in Int /\ owed[t] = left[t] + put[t]
      OBVIOUS
    <3>1. AppliedTo(t) \in Int
      BY <2>1, AppliedIsInt
    <3>2. CASE t \in Adjustments
      <4>1. Owed(t) \in Int /\ Remaining(t) \in Int /\ Remaining(t) = Owed(t) - AppliedTo(t)
        BY <2>1, <3>2, PostedRow, RemainingIsInt DEF Adjustments, Remaining
      <4> QED
        BY <3>1, <3>2, <4>1
    <3>3. CASE t \notin Adjustments
      <4>1. AppliedTo(t) = 0
        BY <2>1, <3>3, NothingApplied
      <4> QED
        BY <3>3, <4>1
    <3> QED
      BY <3>2, <3>3
  <2>3. /\ RemainingTotal(Adjustments) = SumFunctionOnSet(left, Session)
        /\ AppliedInAll = SumFunctionOnSet(put, Session)
    BY DEF RemainingTotal, Total, AppliedInAll
  <2> DEFINE debt == SumFunctionOnSet(owed, Session)
  <2>4. MoneyConserved <=> Routed + RemainingTotal(Adjustments) = Earned + debt
    BY DEF MoneyConserved, Routed, Earned, Total, Adjustments
  <2> HIDE DEF left, owed, put
  <2>5. debt = RemainingTotal(Adjustments) + AppliedInAll
    BY <2>2, <2>3, Finite, SumOfTwo
  <2>6. RemainingTotal(Adjustments) \in Int /\ AppliedInAll \in Int
    BY <2>2, <2>3, Finite, SumTakes
  <2> HIDE DEF debt
  <2>7. Earned \in Int
    <3> DEFINE earned == [d \in Closer |-> IF d \in Done THEN figures[d].surplus ELSE 0]
    <3>1. \A d \in Closer : earned[d] \in Int
      BY DEF CloseInv, CloseRows, Underway, Figured, Figures, Done
    <3> HIDE DEF earned
    <3> QED
      BY <3>1, Finite, SumTakes DEF Earned, earned
  <2>8. Routed + RemainingTotal(Adjustments) = Earned + debt
    BY <2>1, <2>5, <2>6, <2>7 DEF Balanced
  <2> QED
    BY <2>4, <2>8
<1> QED
  BY <1>1, CloseInvariant, PTL

-----------------------------------------------------------------------------
(* Locks on the accounts, of sessions and closers.                         *)

\* How the locks change in a step of x: not, all of x released, or one more
\* that nobody else's lock conflicts with.
Grants(x, a, mode) == Grantable(locks, x, a, mode) /\ Lock(x, a, mode)
LocksOnly(x) ==
    \/ locks' = locks
    \/ locks' = Released(x)
    \/ \E a \in Account, mode \in LockMode : Grants(x, a, mode)

Exclusive == \A k, l \in locks : k.account = l.account /\ k.mode = "ForUpdate" => k.session = l.session

LEMMA KeepsExclusive ==
  ASSUME Exclusive, NEW x, LocksOnly(x)
  PROVE  Exclusive' /\ \A y, mode : y # x => Held(y, mode)' = Held(y, mode)
<1>1. CASE locks' = locks
  BY <1>1 DEF Exclusive, Held
<1>2. CASE locks' = Released(x)
  BY <1>2 DEF Exclusive, Released, Held
<1>3. ASSUME NEW a \in Account, NEW mode \in LockMode, Grants(x, a, mode)
      PROVE  Exclusive' /\ \A y, kind : y # x => Held(y, kind)' = Held(y, kind)
  <2>1. /\ locks' = locks \cup {[session |-> x, account |-> a, mode |-> mode]}
        /\ \A l \in locks : l.account = a /\ l.session # x => ~Conflicts(l.mode, mode)
    BY <1>3 DEF Grants, Grantable, Holders, Lock
  <2>2. Exclusive'
    BY <2>1 DEF Exclusive, Conflicts
  <2>3. \A y, kind : y # x => Held(y, kind)' = Held(y, kind)
    BY <2>1 DEF Held
  <2> QED
    BY <2>2, <2>3
<1> QED
  BY <1>1, <1>2, <1>3 DEF LocksOnly

LEMMA StepLocks ==
  ASSUME NEW s \in Session, Step(s)
  PROVE  LocksOnly(s)
<1>1. \A why : Rollback(s, why) => LocksOnly(s)
  BY DEF Rollback, LocksOnly
<1>2. \A t : AnswerFrom(s, t) => LocksOnly(s)
  BY <1>1 DEF AnswerFrom, LocksOnly
<1>3. CASE InsertLines(s)
  <2>1. PICK a \in Unshared(s) : Grants(s, a, "KeyShare")
    BY <1>3 DEF InsertLines, Grants
  <2> QED
    BY <2>1 DEF Unshared, Touched, LockMode, LocksOnly
<1>4. CASE Transition(s)
  <2>1. PICK a \in Lowest(Unlocked(s)) : Rollback(s, "archived") \/ Grants(s, a, "ForUpdate")
    BY <1>4 DEF Transition, Grants
  <2> QED
    BY <1>1, <2>1 DEF Lowest, Unlocked, Touched, LockMode, LocksOnly
<1>5. CASE Provision(s) \/ ReadAccounts(s) \/ LockOriginal(s) \/ CheckReversed(s)
  BY <1>1, <1>5 DEF Provision, ReadAccounts, LockOriginal, CheckReversed, LocksOnly
<1>6. CASE EarlyLookup(s) \/ LateLookup(s) \/ InsertDraft(s)
  <2>1. LocksOnly(s) \/ locks' = locks
    BY <1>1, <1>2, <1>6 DEF EarlyLookup, LateLookup, InsertDraft
  <2> QED
    BY <2>1 DEF LocksOnly
<1>7. CASE CloseCheck(s) \/ Commit(s)
  BY <1>7 DEF CloseCheck, Commit, LocksOnly
<1>8. CASE Archive(s)
  BY <1>1, <1>8 DEF Archive, LocksOnly
<1> QED
  BY <1>3, <1>4, <1>5, <1>6, <1>7, <1>8 DEF Step

LEMMA PostingLocks ==
  ASSUME Posting \/ \E s \in Session : VictimPosting(s)
  PROVE  \E s \in Session : LocksOnly(s)
<1>1. \A s, why : Rollback(s, why) => LocksOnly(s)
  BY DEF Rollback, LocksOnly
<1>2. \A s, r : Begin(s, r) => LocksOnly(s)
  BY DEF Begin, LocksOnly
<1> QED
  BY <1>1, <1>2, StepLocks DEF Posting, Crash, DeadlockVictim, VictimPosting

\* A closer releases its locks when it ends, and takes one row after another.
LocksNext(c) ==
    /\ stage[c] = "lock"
    /\ \E a \in ToLock(c) : a \in Account /\ Grants(c, a, "ForUpdate")
    /\ UNCHANGED <<journal, table, closing>>
CloserLocking(c) == locks' = locks \/ locks' = Released(c) \/ LocksNext(c)

LEMMA CloserLocksOnly ==
  ASSUME CloseRows, NEW c \in Closer, Begins(c) \/ CloseStep(c) \/ CrashClose(c) \/ Victim(c)
  PROVE  CloserLocking(c) /\ LocksOnly(c)
<1>1. Refuse(c) => locks' = Released(c)
  BY DEF Refuse
<1>2. \A d : TryReplay(c, d) => locks' = Released(c)
  BY DEF TryReplay, Leave, Refuse
<1>3. Begins(c) \/ CrashClose(c) \/ Victim(c) \/ ResolveRoles(c) \/ Settle(c) \/ CommitClose(c)
        => locks' = locks \/ locks' = Released(c)
  BY <1>1 DEF Begins, BeginClose, CrashClose, Victim, ResolveRoles, Settle, CommitClose
<1>4. LookupClose(c) \/ InsertAnchor(c) => locks' = locks \/ locks' = Released(c)
  BY <1>1, <1>2 DEF LookupClose, InsertAnchor
<1>5. ReadExpenses(c) \/ ReadAdjustments(c) => locks' = locks \/ locks' = Released(c)
  BY <1>1 DEF ReadExpenses, ReadAdjustments
<1>6. LockAccounts(c) => locks' = locks \/ LocksNext(c)
  <2>1. roles[c] \cup MidasAccount \subseteq Account
    BY AccountAssumption, CloseAssumption DEF CloseRows
  <2> QED
    BY <2>1 DEF LockAccounts, LocksNext, Grants, Lowest, ToLock, Required
<1>7. CloserLocking(c)
  BY <1>3, <1>4, <1>5, <1>6 DEF CloseStep, CloserLocking
<1> QED
  BY <1>7 DEF CloserLocking, LocksNext, LocksOnly, LockMode

\* The locks the sessions hold serve the sessions as before.
LEMMA CloserLeavesLocks ==
  ASSUME LockInv, NEW c \in Closer, LocksOnly(c), UNCHANGED <<pc, entry, archived>>
  PROVE  LockInv'
<1>1. \A s \in Session : s # c
  BY CloseAssumption
<1>2. \A s \in Session : \A mode : Held(s, mode)' = Held(s, mode)
  BY <1>1 DEF LocksOnly, Grants, Lock, Released, Held
<1>3. \A l \in locks' : l.session \in Session => l \in locks
  BY <1>1 DEF LocksOnly, Grants, Lock, Released
<1> QED
  BY <1>2, <1>3 DEF LockInv, Touched

LEMMA PostingLockInv ==
  ASSUME JournalInv, LockInv, Posting \/ \E s \in Session : VictimPosting(s)
  PROVE  LockInv'
<1>1. CASE Posting
  BY <1>1, NextLocks DEF Next
<1>2. ASSUME NEW s \in Session, VictimPosting(s) PROVE LockInv'
  BY <1>2, RollbackLocks DEF VictimPosting, Error
<1> QED
  BY <1>1, <1>2

-----------------------------------------------------------------------------
(* What keeps a close apart from the postings and from other closes.       *)

Anchoring == {"resolve", "lock", "figures", "adjustments", "settle", "commit"}
Owning == {"figures", "adjustments", "settle", "commit"}
Reading == {"adjustments", "settle", "commit"}

\* The anchor is of a month that is not closed, and of no other close's month.
Anchors(c) ==
    /\ wanted[c].month \notin closed
    /\ \A d \in Closer : d # c /\ stage[d] \in Anchoring => wanted[d].month # wanted[c].month
\* The figures are still what the ledger says.
Current(c) ==
    /\ figures[c].snapshot = Countable(wanted[c].month)
    /\ figures[c].net = NetExpense(wanted[c].month, Budgeted)
Separate(c) ==
    /\ stage[c] \in Anchoring => Anchors(c)
    /\ stage[c] \in {"lock"} \cup Owning => roles[c] = Budgeted
    /\ stage[c] \in Owning => Budgeted \subseteq Held(c, "ForUpdate")
    /\ stage[c] \in Reading => Current(c)
    /\ stage[c] \in Holding => wanted[c].proposal.net = figures[c].net
SeparateInv ==
    /\ LockInv
    /\ Exclusive
    /\ Budgeted \subseteq provisioned
    /\ \A c \in Closer : Separate(c)

\* No entry on the accounts of a close is posted while it reads them.
LEMMA NothingPosted ==
  ASSUME JournalInv, CloseRows, SeparateInv, Posting \/ \E s \in Session : VictimPosting(s),
         NEW c \in Closer, stage[c] \in Owning, NEW t \in Posted', t \notin Posted
  PROVE  Touched(entry[t].lines) \cap Budgeted = {} /\ entry'[t] = entry[t]
<1>1. t \in Session
  BY DEF Posted
<1>2. CASE Posting
  <2>1. Commit(t) /\ pc[t] = "commit" /\ entry'[t] = entry[t] /\ entry[t] # None
    <3>1. pc[t] = "commit" /\ Commit(t)
      BY <1>1, <1>2, PostedGrows DEF Next
    <3> QED
      BY <3>1 DEF Commit, Posted
  <2>2. Touched(entry[t].lines) \subseteq Held(t, "ForUpdate")
    BY <1>1, <2>1 DEF SeparateInv, LockInv
  <2>3. Budgeted \subseteq Held(c, "ForUpdate") /\ c # t
    BY <1>1, CloseAssumption DEF SeparateInv, Separate
  <2>4. Held(t, "ForUpdate") \cap Held(c, "ForUpdate") = {}
    BY <2>3 DEF SeparateInv, Exclusive, Held
  <2> QED
    BY <2>1, <2>2, <2>3, <2>4
<1>3. ASSUME NEW s \in Session, VictimPosting(s) PROVE FALSE
  <2>1. Unposted(t) /\ ~Unposted(t)'
    BY <1>1 DEF Posted, Unposted
  <2> QED
    BY <1>1, <1>3, <2>1, RollbackPosts DEF VictimPosting
<1> QED
  BY <1>2, <1>3

LEMMA PostingSeparate ==
  ASSUME JournalInv, CloseRows, SeparateInv, Posting \/ \E s \in Session : VictimPosting(s), UNCHANGED closing
  PROVE  SeparateInv'
<1>1. RowTypes /\ LockInv'
  BY PostingLockInv DEF JournalInv, SeparateInv
<1>2. PICK s \in Session : LocksOnly(s)
  BY PostingLocks
<1>3. Exclusive' /\ \A c \in Closer : Held(c, "ForUpdate")' = Held(c, "ForUpdate")
  <2>1. \A c \in Closer : c # s
    BY CloseAssumption
  <2> QED
    BY <1>2, <2>1, KeepsExclusive DEF SeparateInv
<1>4. closed' = closed /\ provisioned \subseteq provisioned'
  <2>1. \A x, why : Rollback(x, why) => UNCHANGED table
    BY DEF Rollback
  <2>2. \A x, y : AnswerFrom(x, y) => UNCHANGED table
    BY <2>1 DEF AnswerFrom
  <2>3. \A x \in Session : Commit(x) \/ Archive(x) => closed' = closed /\ provisioned \subseteq provisioned'
    BY <2>1 DEF Commit, Archive, table
  <2>4. \A x \in Session : Step(x) /\ ~Commit(x) /\ ~Archive(x) => UNCHANGED table
    BY <2>1, <2>2 DEF Step, Provision, EarlyLookup, ReadAccounts, LockOriginal, CheckReversed, InsertDraft, LateLookup,
                      InsertLines, Transition, CloseCheck
  <2>5. \A x, r : Begin(x, r) => UNCHANGED table
    BY DEF Begin
  <2>6. UNCHANGED table => closed' = closed /\ provisioned' = provisioned
    BY DEF table
  <2> QED
    BY <2>1, <2>3, <2>4, <2>5, <2>6 DEF Posting, Crash, DeadlockVictim, VictimPosting
<1>5. \A t \in Posted : Same(t) /\ t \in Posted'
  BY <1>1, PostingWrites
<1>6. UNCHANGED <<wanted, stage, roles, figures>>
  BY DEF closing
<1>7. ASSUME NEW c \in Closer PROVE Separate(c)'
  <2>1. Separate(c)
    BY DEF SeparateInv
  <2>2. stage[c] \in Anchoring => Anchors(c)'
    BY <1>4, <1>6, <2>1 DEF Separate, Anchors
  <2>3. ASSUME stage[c] \in Reading PROVE Current(c)'
    <3> DEFINE m == wanted[c].month
    <3>1. \A t \in Posted' : t \notin Posted => Touched(entry[t].lines) \cap Budgeted = {} /\ entry'[t] = entry[t]
      BY <2>3, NothingPosted DEF Reading, Owning
    <3>2. \A t \in Posted : entry'[t] = entry[t] /\ t \in Posted'
      BY <1>5 DEF Same
    <3>3. Countable(m)' = Countable(m)
      <4>1. m' = m
        BY <1>6
      <4>2. \A t : t \in Countable(m)' <=> t \in Countable(m)
        BY <3>1, <3>2, <4>1 DEF Countable, Touched
      <4> HIDE DEF m
      <4> QED
        BY <4>2 DEF Countable
    <3>4. NetExpense(m, Budgeted)' = NetExpense(m, Budgeted)
      <4> DEFINE part(a) == [t \in Session |-> IF t \in Dated(m) THEN entry[t].lines[a] ELSE 0]
                 then(a) == [t \in Session |-> IF t \in Dated(m)' THEN entry'[t].lines[a] ELSE 0]
      <4>1. ASSUME NEW a \in Budgeted PROVE part(a) = then(a)
        <5>1. a \in Account
          BY AccountAssumption
        <5>2. ASSUME NEW t \in Session
              PROVE  (IF t \in Dated(m) THEN entry[t].lines[a] ELSE 0)
                       = (IF t \in Dated(m)' THEN entry'[t].lines[a] ELSE 0)
          <6>1. CASE t \in Posted
            BY <1>6, <3>2, <6>1 DEF Dated
          <6>2. CASE t \notin Posted /\ t \in Posted'
            <7>1. entry[t].lines[a] = 0 /\ entry'[t] = entry[t]
              BY <3>1, <5>1, <6>2 DEF Touched
            <7> QED
              BY <6>2, <7>1 DEF Dated
          <6>3. CASE t \notin Posted /\ t \notin Posted'
            BY <6>3 DEF Dated
          <6> QED
            BY <6>1, <6>2, <6>3
        <5> QED
          BY <5>2
      <4>2. NetExpense(m, Budgeted) = [a \in Budgeted |-> SumFunctionOnSet(part(a), Session)]
        BY DEF NetExpense, Total
      <4>3. NetExpense(m, Budgeted)' = [a \in Budgeted |-> SumFunctionOnSet(then(a), Session)]
        BY DEF NetExpense, Total
      <4> HIDE DEF part, then
      <4> QED
        BY <4>1, <4>2, <4>3
    <3> QED
      BY <1>6, <2>1, <2>3, <3>3, <3>4 DEF Separate, Current
  <2> QED
    BY <1>3, <1>6, <2>1, <2>2, <2>3 DEF Separate
<1> QED
  BY <1>1, <1>3, <1>4, <1>7 DEF SeparateInv

\* A closer writes its own rows only.
Rest(c) ==
    \A d \in Closer : d # c => /\ wanted'[d] = wanted[d]
                               /\ stage'[d] = stage[d]
                               /\ roles'[d] = roles[d]
                               /\ figures'[d] = figures[d]
Turns(c) == Begins(c) \/ CloseStep(c) \/ CrashClose(c) \/ Victim(c)

LEMMA CloserRest ==
  ASSUME CloseRows, NEW c \in Closer, Turns(c)
  PROVE  Rest(c) /\ UNCHANGED <<journal, provisioned, archived>>
<1>1. CloserSteps(c)
  BY CloserTakes DEF Turns, CloserSteps
<1>2. UNCHANGED <<journal, provisioned, archived>>
  BY <1>1 DEF CloserSteps, Begins, BeginClose, Moves, Refuses, Refuse, Computes, Confirms, Settles, CommitClose, table
<1>3. \A d \in Closer : d # c => wanted'[d] = wanted[d] /\ stage'[d] = stage[d] /\ figures'[d] = figures[d]
  BY <1>1 DEF CloserSteps, Begins, BeginClose, Moves, Refuses, Refuse, Computes, Confirms, Settles, CommitClose, Turn, CloseRows
<1>4. UNCHANGED roles \/ ResolveRoles(c) \/ Refuse(c)
  <2>1. \A d : TryReplay(c, d) => UNCHANGED roles \/ Refuse(c)
    BY DEF TryReplay, Leave
  <2>2. LookupClose(c) \/ InsertAnchor(c) => UNCHANGED roles \/ Refuse(c)
    BY <2>1 DEF LookupClose, InsertAnchor
  <2>3. Begins(c) \/ LockAccounts(c) \/ ReadExpenses(c) \/ ReadAdjustments(c) \/ Settle(c) \/ CommitClose(c)
          => UNCHANGED roles \/ Refuse(c)
    BY DEF Begins, BeginClose, LockAccounts, closing, ReadExpenses, ReadAdjustments, Settle, CommitClose
  <2> QED
    BY <2>2, <2>3 DEF Turns, CloseStep, CrashClose, Victim
<1>5. \A d \in Closer : d # c => roles'[d] = roles[d]
  BY <1>4 DEF ResolveRoles, Refuse, CloseRows
<1> QED
  BY <1>2, <1>3, <1>5 DEF Rest

LEMMA StaysCurrent ==
  ASSUME UNCHANGED journal, NEW d \in Closer, Current(d), wanted'[d] = wanted[d], figures'[d] = figures[d]
  PROVE  Current(d)'
<1>1. Posted' = Posted /\ entry' = entry
  BY DEF Posted, journal
<1>2. Countable(wanted[d].month)' = Countable(wanted[d].month)
  BY <1>1 DEF Countable
<1>3. NetExpense(wanted[d].month, Budgeted)' = NetExpense(wanted[d].month, Budgeted)
  BY <1>1 DEF NetExpense, Dated
<1> QED
  BY <1>2, <1>3 DEF Current

LEMMA OthersSeparate ==
  ASSUME CloseRows, SeparateInv, NEW c \in Closer, Turns(c), NEW d \in Closer, d # c,
         stage[d] \in Anchoring => Anchors(d)'
  PROVE  Separate(d)'
<1>1. UNCHANGED journal /\ LocksOnly(c)
  BY CloserRest, CloserLocksOnly DEF Turns
<1>2. wanted'[d] = wanted[d] /\ stage'[d] = stage[d] /\ roles'[d] = roles[d] /\ figures'[d] = figures[d]
  BY CloserRest DEF Rest
<1>3. Held(d, "ForUpdate")' = Held(d, "ForUpdate")
  BY <1>1, KeepsExclusive DEF SeparateInv
<1>4. Separate(d)
  BY DEF SeparateInv
<1>5. stage[d] \in Reading => Current(d)'
  BY <1>1, <1>2, <1>4, StaysCurrent DEF Separate
<1> QED
  BY <1>2, <1>3, <1>4, <1>5 DEF Separate

\* What a step does to the closer that takes it.
Leaves(c) == stage'[c] \notin Anchoring /\ closed' = closed
Enters(c) ==
    /\ stage'[c] = "resolve" /\ Anchored(c) = {} /\ wanted[c].month \notin closed
    /\ UNCHANGED <<closed, wanted>>
Resolves(c) ==
    /\ stage[c] = "resolve" /\ stage'[c] = "lock"
    /\ roles'[c] = Budgeted \cap provisioned
    /\ UNCHANGED <<closed, wanted>>
Locks(c) ==
    /\ stage[c] = "lock" /\ UNCHANGED <<closed, wanted>> /\ roles'[c] = roles[c]
    /\ \/ stage'[c] = "lock"
       \/ stage'[c] = "figures" /\ locks' = locks /\ Required(c) \subseteq Held(c, "ForUpdate")
Reads(c) == Computes(c) /\ locks' = locks
Agrees(c) == Confirms(c) /\ locks' = locks /\ wanted[c].proposal.net = figures[c].net
Absorbs(c) == Settles(c) /\ locks' = locks

LEMMA CloserGoes ==
  ASSUME CloseRows, NEW c \in Closer, Turns(c)
  PROVE  \/ Leaves(c) \/ Enters(c) \/ Resolves(c) \/ Locks(c) \/ Reads(c)
         \/ Agrees(c) \/ Absorbs(c) \/ CommitClose(c)
<1>1. Refuse(c) => Leaves(c)
  BY DEF Refuse, Turn, CloseRows, Leaves, Anchoring, table
<1>2. \A d : TryReplay(c, d) => Leaves(c)
  BY <1>1 DEF TryReplay, Leave, Turn, CloseRows, Leaves, Anchoring, table
<1>3. Begins(c) => Leaves(c)
  BY DEF Begins, BeginClose, Turn, CloseRows, Leaves, Anchoring, table
<1>4. LookupClose(c) => Leaves(c)
  BY <1>2 DEF LookupClose, Turn, CloseRows, Leaves, Anchoring, table
<1>5. InsertAnchor(c) => Leaves(c) \/ Enters(c)
  BY <1>1, <1>2 DEF InsertAnchor, Turn, CloseRows, Enters, table
<1>6. ResolveRoles(c) => Resolves(c)
  BY DEF ResolveRoles, Turn, CloseRows, Resolves, table
<1>7. LockAccounts(c) => Locks(c)
  BY DEF LockAccounts, Turn, CloseRows, Locks, table, closing, ToLock
<1>8. ReadExpenses(c) => Leaves(c) \/ Reads(c)
  BY <1>1 DEF ReadExpenses, Reads, Computes
<1>9. ReadAdjustments(c) => Leaves(c) \/ Agrees(c)
  BY <1>1 DEF ReadAdjustments, Agrees, Confirms
<1>10. Settle(c) => Leaves(c) \/ Absorbs(c)
  BY <1>1 DEF Settle, Absorbs, Settles
<1> QED
  BY <1>1, <1>3, <1>4, <1>5, <1>6, <1>7, <1>8, <1>9, <1>10 DEF Turns, CloseStep, CrashClose, Victim

LEMMA OthersAnchors ==
  ASSUME CloseRows, Underway, SeparateInv, NEW c \in Closer, Turns(c),
         NEW d \in Closer, d # c, stage[d] \in Anchoring
  PROVE  Anchors(d)'
<1>1. Rest(c) /\ Anchors(d)
  BY CloserRest DEF SeparateInv, Separate
<1>2. CASE closed' = closed /\ stage'[c] \notin Anchoring
  BY <1>1, <1>2 DEF Anchors, Rest
<1>3. CASE closed' = closed /\ wanted' = wanted /\ stage[c] \in Anchoring
  BY <1>1, <1>3 DEF Anchors, Rest
<1>4. CASE Enters(c)
  <2>1. wanted[d].month # wanted[c].month
    BY <1>4 DEF Enters, Anchored, Underway, Anchoring, Ended
  <2> QED
    BY <1>1, <1>4, <2>1 DEF Anchors, Rest, Enters
<1>5. CASE CommitClose(c)
  <2>1. wanted[d].month # wanted[c].month
    BY <1>1, <1>5 DEF Anchors, CommitClose, Anchoring
  <2>2. closed' = closed \cup {wanted[c].month} /\ wanted' = wanted
    BY <1>5 DEF CommitClose
  <2>3. stage'[c] \notin Anchoring
    BY <1>5 DEF CommitClose, Turn, CloseRows, Anchoring
  <2> QED
    BY <1>1, <2>1, <2>2, <2>3 DEF Anchors, Rest
<1>6. Reads(c) \/ Agrees(c) \/ Absorbs(c) => closed' = closed /\ wanted' = wanted /\ stage[c] \in Anchoring
  BY DEF Reads, Agrees, Absorbs, Computes, Confirms, Settles, table, Anchoring
<1>7. Resolves(c) \/ Locks(c) => closed' = closed /\ wanted' = wanted /\ stage[c] \in Anchoring
  BY DEF Resolves, Locks, Anchoring
<1>8. Leaves(c) => closed' = closed /\ stage'[c] \notin Anchoring
  BY DEF Leaves
<1> QED
  BY <1>2, <1>3, <1>4, <1>5, <1>6, <1>7, <1>8, CloserGoes

LEMMA OwnSeparate ==
  ASSUME CloseRows, Underway, SeparateInv, NEW c \in Closer, Turns(c)
  PROVE  Separate(c)'
<1>1. Separate(c) /\ Rest(c) /\ UNCHANGED journal /\ Budgeted \subseteq provisioned
  BY CloserRest DEF SeparateInv
<1>2. UNCHANGED <<closed, wanted>> /\ stage[c] \in Anchoring => Anchors(c)'
  BY <1>1 DEF Separate, Anchors, Rest
<1>3. CASE Leaves(c) \/ CommitClose(c)
  <2>1. stage'[c] \notin Anchoring
    BY <1>3 DEF Leaves, CommitClose, Turn, CloseRows, Anchoring
  <2> QED
    BY <2>1 DEF Separate, Anchoring, Owning, Reading, Holding
<1>4. CASE Enters(c)
  <2>1. Anchors(c)'
    BY <1>1, <1>4 DEF Enters, Anchors, Rest, Anchored, Underway, Anchoring, Ended
  <2> QED
    BY <1>4, <2>1 DEF Enters, Separate, Anchoring, Owning, Reading, Holding
<1>5. CASE Resolves(c)
  <2>1. Anchors(c)' /\ roles'[c] = Budgeted
    BY <1>1, <1>2, <1>5 DEF Resolves, Anchoring
  <2> QED
    BY <1>5, <2>1 DEF Resolves, Separate, Anchoring, Owning, Reading, Holding
<1>6. CASE Locks(c)
  <2>1. Anchors(c)' /\ roles'[c] = Budgeted
    BY <1>1, <1>2, <1>6 DEF Locks, Anchoring, Separate
  <2>2. stage'[c] = "figures" => Budgeted \subseteq Held(c, "ForUpdate")'
    BY <1>1, <1>6 DEF Locks, Separate, Required, Held
  <2> QED
    BY <1>6, <2>1, <2>2 DEF Locks, Separate, Anchoring, Owning, Reading, Holding
<1>7. CASE Reads(c)
  <2>1. /\ stage[c] = "figures" /\ stage'[c] = "adjustments" /\ UNCHANGED <<closed, wanted, locks>>
        /\ roles' = roles
        /\ figures'[c].snapshot = Countable(wanted[c].month)
        /\ figures'[c].net = NetExpense(wanted[c].month, roles[c])
    BY <1>7 DEF Reads, Computes, Turn, CloseRows, table
  <2>2. Anchors(c)' /\ roles[c] = Budgeted /\ Budgeted \subseteq Held(c, "ForUpdate")
    BY <1>1, <1>2, <2>1 DEF Anchoring, Owning, Separate
  <2>3. Current(c)'
    <3>1. Posted' = Posted /\ entry' = entry
      BY <1>1 DEF Posted, journal
    <3>2. Countable(wanted[c].month)' = Countable(wanted[c].month)
      BY <2>1, <3>1 DEF Countable
    <3>3. NetExpense(wanted[c].month, Budgeted)' = NetExpense(wanted[c].month, Budgeted)
      BY <2>1, <3>1 DEF NetExpense, Dated
    <3> QED
      BY <2>1, <2>2, <3>2, <3>3 DEF Current
  <2>4. Held(c, "ForUpdate")' = Held(c, "ForUpdate")
    BY <2>1 DEF Held
  <2> QED
    BY <2>1, <2>2, <2>3, <2>4 DEF Separate, Anchoring, Owning, Reading, Holding
<1>8. CASE Agrees(c)
  <2>1. /\ stage[c] = "adjustments" /\ stage'[c] = "settle" /\ UNCHANGED <<closed, wanted, locks>>
        /\ roles' = roles /\ wanted[c].proposal.net = figures[c].net
    BY <1>8 DEF Agrees, Confirms, Turn, CloseRows, table
  <2>2. Anchors(c)' /\ roles[c] = Budgeted /\ Budgeted \subseteq Held(c, "ForUpdate") /\ Current(c)
    BY <1>1, <1>2, <2>1 DEF Anchoring, Owning, Reading, Separate
  <2>3. figures'[c].net = figures[c].net /\ figures'[c].snapshot = figures[c].snapshot
    <3>1. figures[c] \in Figures
      BY <2>1 DEF CloseRows, Underway, Figured
    <3> QED
      BY <1>8, <3>1 DEF Agrees, Confirms, CloseRows, Figures
  <2>4. Current(c)'
    <3>1. Posted' = Posted /\ entry' = entry
      BY <1>1 DEF Posted, journal
    <3>2. Countable(wanted[c].month)' = Countable(wanted[c].month)
      BY <2>1, <3>1 DEF Countable
    <3>3. NetExpense(wanted[c].month, Budgeted)' = NetExpense(wanted[c].month, Budgeted)
      BY <2>1, <3>1 DEF NetExpense, Dated
    <3> QED
      BY <2>1, <2>2, <2>3, <3>2, <3>3 DEF Current
  <2>5. Held(c, "ForUpdate")' = Held(c, "ForUpdate")
    BY <2>1 DEF Held
  <2> QED
    BY <2>1, <2>2, <2>3, <2>4, <2>5 DEF Separate, Anchoring, Owning, Reading, Holding
<1>9. CASE Absorbs(c)
  <2>1. /\ stage[c] = "settle" /\ stage'[c] = "commit"
        /\ UNCHANGED <<closed, wanted, locks, roles, figures>>
    BY <1>9 DEF Absorbs, Settles, Turn, CloseRows, table
  <2>2. Anchors(c)' /\ Current(c)'
    BY <1>1, <1>2, <2>1, StaysCurrent DEF Anchoring, Reading, Separate
  <2>3. Held(c, "ForUpdate")' = Held(c, "ForUpdate")
    BY <2>1 DEF Held
  <2> QED
    BY <1>1, <2>1, <2>2, <2>3 DEF Separate, Anchoring, Owning, Reading, Holding
<1> QED
  BY <1>3, <1>4, <1>5, <1>6, <1>7, <1>8, <1>9, CloserGoes

LEMMA CloserSeparate ==
  ASSUME CloseRows, Underway, SeparateInv, NEW c \in Closer, Turns(c)
  PROVE  SeparateInv'
<1>1. UNCHANGED <<journal, provisioned, archived>> /\ LocksOnly(c)
  BY CloserRest, CloserLocksOnly DEF Turns
<1>2. LockInv'
  BY <1>1, CloserLeavesLocks DEF SeparateInv, journal
<1>3. Exclusive'
  BY <1>1, KeepsExclusive DEF SeparateInv
<1>4. \A d \in Closer : Separate(d)'
  BY OwnSeparate, OthersSeparate, OthersAnchors
<1> QED
  BY <1>1, <1>2, <1>3, <1>4 DEF SeparateInv

\* The accounts a close reads exist from the start, as every user's do once
\* the user has posted for the first time.
LEMMA InitSeparate == ASSUME Budgeted \subseteq FirstAccounts, CloseInit PROVE SeparateInv
<1>1. LockInv
  BY InitLocks DEF CloseInit
<1>2. Exclusive /\ Budgeted \subseteq provisioned
  BY DEF CloseInit, Init, Exclusive
<1>3. \A c \in Closer : Separate(c)
  BY DEF CloseInit, Separate, Anchoring, Owning, Reading, Holding
<1> QED
  BY <1>1, <1>2, <1>3 DEF SeparateInv

LEMMA StillSeparate ==
  ASSUME SeparateInv, UNCHANGED allVars
  PROVE  SeparateInv'
<1>1. UNCHANGED <<journal, closing, locks, provisioned, archived, closed>>
  BY DEF allVars, vars, journal, table
<1>2. \A y, mode : Held(y, mode)' = Held(y, mode)
  BY <1>1 DEF Held
<1>3. LockInv' /\ Exclusive'
  BY <1>1, <1>2 DEF SeparateInv, LockInv, Exclusive, Touched, journal
<1>4. \A c \in Closer : Separate(c)'
  <2> SUFFICES ASSUME NEW c \in Closer PROVE Separate(c)'
    OBVIOUS
  <2>1. Separate(c) /\ UNCHANGED <<wanted, stage, roles, figures>>
    BY <1>1 DEF SeparateInv, closing
  <2>2. stage[c] \in Anchoring => Anchors(c)'
    BY <1>1, <2>1 DEF Separate, Anchors
  <2>3. stage[c] \in Reading => Current(c)'
    BY <1>1, <2>1, StaysCurrent DEF Separate
  <2> QED
    BY <1>2, <2>1, <2>2, <2>3 DEF Separate
<1> QED
  BY <1>1, <1>3, <1>4 DEF SeparateInv

LEMMA NextSeparate ==
  ASSUME CloseInv, SeparateInv, [CloseNext]_allVars
  PROVE  SeparateInv'
<1>1. JournalInv /\ CloseRows /\ Underway
  BY DEF CloseInv
<1>2. Closing => \E c \in Closer : Turns(c)
  BY DEF Closing, Begins, Turns
<1>3. CASE Closing
  BY <1>1, <1>2, <1>3, CloserSeparate
<1>4. CASE (Posting \/ \E s \in Session : VictimPosting(s)) /\ UNCHANGED closing
  BY <1>1, <1>4, PostingSeparate
<1> QED
  BY <1>3, <1>4, StillSeparate DEF CloseNext

LEMMA SeparateInvariant == ASSUME Budgeted \subseteq FirstAccounts PROVE CloseSpec => [](CloseInv /\ SeparateInv)
<1>1. CloseInit => CloseInv /\ SeparateInv
  BY InitClose, InitSeparate
<1>2. CloseInv /\ SeparateInv /\ [CloseNext]_allVars => (CloseInv /\ SeparateInv)'
  BY NextClose, NextSeparate
<1> QED
  BY <1>1, <1>2, PTL DEF CloseSpec

\* The expenses the user confirmed in the preview are the ones the ledger
\* shows when the close commits, although postings commit between any two of
\* the close's statements.
THEOREM ConfirmedStillHolds == ASSUME Budgeted \subseteq FirstAccounts PROVE CloseSpec => ConfirmedFiguresHold
<1> DEFINE Holds == \A c \in Closer : stage[c] = "commit" /\ stage'[c] = "done"
                       => wanted[c].proposal.net = NetExpense(wanted[c].month, Budgeted)
<1>1. SeparateInv => Holds
  BY DEF SeparateInv, Separate, Reading, Holding, Current
<1>2. [][Holds]_allVars <=> ConfirmedFiguresHold
  BY DEF ConfirmedFiguresHold
<1> HIDE DEF Holds
<1>3. CloseInv /\ SeparateInv /\ [CloseNext]_allVars => [Holds]_allVars
  BY <1>1
<1> QED
  BY <1>2, <1>3, SeparateInvariant, PTL DEF CloseSpec

-----------------------------------------------------------------------------
(* The locks and the types.                                                *)

LEMMA LocksTyped ==
  ASSUME CloserLocks, NEW x \in Session \cup Closer, LocksOnly(x)
  PROVE  CloserLocks'
<1>1. CASE locks' = locks \/ locks' = Released(x)
  BY <1>1 DEF CloserLocks, Released
<1>2. ASSUME NEW a \in Account, NEW mode \in LockMode, Lock(x, a, mode)
      PROVE  CloserLocks'
  BY <1>2 DEF CloserLocks, Lock
<1> QED
  BY <1>1, <1>2 DEF LocksOnly, Grants

\* The closers' rows and the locks of closers and sessions have their types.
THEOREM CloseTypes == CloseSpec => []CloseTypeOK
<1>1. CloseInit => CloserLocks
  BY DEF CloseInit, Init, CloserLocks
<1>2. CloseInv /\ CloserLocks /\ [CloseNext]_allVars => CloserLocks'
  <2> SUFFICES ASSUME CloseInv, CloserLocks, [CloseNext]_allVars PROVE CloserLocks'
    OBVIOUS
  <2>1. CASE Closing
    <3>1. PICK c \in Closer : Turns(c)
      BY <2>1 DEF Closing, Begins, Turns
    <3>2. LocksOnly(c)
      BY <3>1, CloserLocksOnly DEF CloseInv, Turns
    <3> QED
      BY <3>2, LocksTyped
  <2>2. CASE Posting \/ \E s \in Session : VictimPosting(s)
    <3>1. PICK s \in Session : LocksOnly(s)
      BY <2>2, PostingLocks
    <3> QED
      BY <3>1, LocksTyped
  <2>3. CASE UNCHANGED allVars
    BY <2>3 DEF allVars, vars, CloserLocks
  <2> QED
    BY <2>1, <2>2, <2>3 DEF CloseNext
<1>3. CloseInv /\ CloserLocks => CloseTypeOK
  BY DEF CloseInv, CloseRows, CloserLocks, CloseTypeOK
<1> QED
  BY <1>1, <1>2, <1>3, CloseInvariant, PTL DEF CloseSpec

-----------------------------------------------------------------------------
(* The close, statement by statement, implements the atomic close of module *)
(* JournalPosting: the sessions' steps are that module's own, seen without  *)
(* the closers' locks, and of a close only the commit is a step.            *)

Seen == {l \in locks : l.session \in Session}

\* What the sessions' statements read is the same.
LEMMA SameReads ==
  /\ Atomic!Posted = Posted /\ Atomic!Missing = Missing
  /\ \A s : Atomic!SameKey(s) = SameKey(s) /\ Atomic!SameReversal(s) = SameReversal(s)
  /\ \A t : Atomic!OriginalLockedBy(t) = OriginalLockedBy(t)
  /\ \A s : Atomic!Draft(s) = Draft(s) /\ Atomic!Visible(s) = Visible(s) /\ Atomic!Active(s) = Active(s)
  /\ \A s, t : Atomic!SameContent(s, t) = SameContent(s, t)
  /\ \A lines : Atomic!Touched(lines) = Touched(lines)
  /\ \A m : Atomic!Countable(m) = Countable(m)
<1>1. Atomic!Posted = Posted /\ Atomic!Missing = Missing
  BY DEF Atomic!Posted, Posted, Atomic!Missing, Missing
<1>2. \A lines : Atomic!Touched(lines) = Touched(lines)
  BY DEF Atomic!Touched, Touched
<1>3. \A m : Atomic!Countable(m) = Countable(m)
  BY <1>1, <1>2 DEF Atomic!Countable, Countable
<1>4. \A s : Atomic!SameKey(s) = SameKey(s) /\ Atomic!SameReversal(s) = SameReversal(s)
  BY DEF Atomic!SameKey, SameKey, Atomic!SameReversal, SameReversal
<1>5. \A s : Atomic!Visible(s) = Visible(s) /\ Atomic!Active(s) = Active(s)
  BY DEF Atomic!Visible, Visible, Atomic!Active, Active, Atomic!Finished, Finished
<1>6. \A t : Atomic!OriginalLockedBy(t) = OriginalLockedBy(t)
  BY <1>5 DEF Atomic!OriginalLockedBy, OriginalLockedBy
<1>7. \A s : Atomic!Draft(s) = Draft(s)
  BY DEF Atomic!Draft, Draft, Atomic!FingerprintOf, FingerprintOf, Atomic!Negated, Negated
<1>8. \A s, t : Atomic!SameContent(s, t) = SameContent(s, t)
  BY DEF Atomic!SameContent, SameContent, Atomic!FingerprintOf, FingerprintOf
<1> QED
  BY <1>1, <1>2, <1>3, <1>4, <1>5, <1>6, <1>7, <1>8

LEMMA SameOwed ==
  ASSUME NEW s
  PROVE  Atomic!OwesAdjustment(s) = OwesAdjustment(s)
<1>1. ASSUME NEW lines PROVE Atomic!ExpenseDelta(lines) = ExpenseDelta(lines)
  BY DEF ExpenseDelta, Atomic!ExpenseDelta, FoldFunctionOnSet, Atomic!FoldFunctionOnSet,
         MapThenFoldSet, Atomic!MapThenFoldSet
<1> QED
  BY <1>1 DEF Atomic!OwesAdjustment, OwesAdjustment

\* So are the locks a session holds, takes and releases.
LEMMA SameLocks ==
  ASSUME NEW s \in Session
  PROVE  /\ \A mode : Atomic!Held(s, mode) = Held(s, mode)
         /\ Atomic!Unshared(s) = Unshared(s) /\ Atomic!Unlocked(s) = Unlocked(s)
         /\ \A a, mode : Grantable(locks, s, a, mode) => Atomic!Grantable(Seen, s, a, mode)
         /\ \A a, mode : Lock(s, a, mode) => Atomic!Lock(s, a, mode)
         /\ UNCHANGED locks => UNCHANGED Seen
<1>1. \A mode : Atomic!Held(s, mode) = Held(s, mode)
  BY DEF Atomic!Held, Held
<1>2. Atomic!Unshared(s) = Unshared(s) /\ Atomic!Unlocked(s) = Unlocked(s)
  BY <1>1, SameReads DEF Atomic!Unshared, Unshared, Atomic!Unlocked, Unlocked
<1>3. \A a, mode : Grantable(locks, s, a, mode) => Atomic!Grantable(Seen, s, a, mode)
  BY DEF Grantable, Atomic!Grantable, Holders, Atomic!Holders, Conflicts, Atomic!Conflicts, Seen
<1>4. \A a, mode : Lock(s, a, mode) => Atomic!Lock(s, a, mode)
  BY DEF Lock, Atomic!Lock
<1> QED
  BY <1>1, <1>2, <1>3, <1>4 DEF Seen

LEMMA RollbackRefines ==
  ASSUME NEW s \in Session, NEW why, Rollback(s, why)
  PROVE  Atomic!Rollback(s, why)
  BY DEF Rollback, Atomic!Rollback, Goto, Atomic!Goto, table, Atomic!table, Released, Atomic!Released

LEMMA AnswerRefines ==
  ASSUME NEW s \in Session, NEW t, AnswerFrom(s, t)
  PROVE  Atomic!AnswerFrom(s, t)
  BY RollbackRefines, SameReads
     DEF AnswerFrom, Atomic!AnswerFrom, Goto, Atomic!Goto, table, Atomic!table

LEMMA BeginRefines ==
  ASSUME NEW s \in Session, NEW r, Begin(s, r)
  PROVE  Atomic!Begin(s, r)
  BY DEF Begin, Atomic!Begin, Goto, Atomic!Goto, table, Atomic!table

LEMMA StepRefines ==
  ASSUME NEW s \in Session, Step(s)
  PROVE  Atomic!Step(s)
<1>1. CASE Provision(s)
  BY <1>1, SameReads DEF Provision, Atomic!Provision, Goto, Atomic!Goto, table, Atomic!table, Atomic!Step
<1>2. CASE EarlyLookup(s)
  <2>1. Atomic!EarlyLookup(s)
    BY <1>2, SameReads, AnswerRefines
       DEF EarlyLookup, Atomic!EarlyLookup, Goto, Atomic!Goto, table, Atomic!table
  <2> QED
    BY <2>1 DEF Atomic!Step
<1>3. CASE ReadAccounts(s)
  <2>1. Atomic!ReadAccounts(s)
    BY <1>3, SameReads, RollbackRefines
       DEF ReadAccounts, Atomic!ReadAccounts, Goto, Atomic!Goto, table, Atomic!table
  <2> QED
    BY <2>1 DEF Atomic!Step
<1>4. CASE LockOriginal(s)
  <2>1. Atomic!LockOriginal(s)
    BY <1>4, SameReads, RollbackRefines
       DEF LockOriginal, Atomic!LockOriginal, Goto, Atomic!Goto, table, Atomic!table
  <2> QED
    BY <2>1 DEF Atomic!Step
<1>5. CASE CheckReversed(s)
  <2>1. Atomic!CheckReversed(s)
    BY <1>5, SameReads, RollbackRefines
       DEF CheckReversed, Atomic!CheckReversed, Goto, Atomic!Goto, table, Atomic!table
  <2> QED
    BY <2>1 DEF Atomic!Step
<1>6. CASE InsertDraft(s)
  <2>1. Atomic!InsertDraft(s)
    BY <1>6, SameReads, RollbackRefines
       DEF InsertDraft, Atomic!InsertDraft, Goto, Atomic!Goto, table, Atomic!table
  <2> QED
    BY <2>1 DEF Atomic!Step
<1>7. CASE LateLookup(s)
  <2>1. Atomic!LateLookup(s)
    BY <1>7, SameReads, AnswerRefines DEF LateLookup, Atomic!LateLookup
  <2> QED
    BY <2>1 DEF Atomic!Step
<1>8. CASE InsertLines(s)
  <2>1. PICK a \in Unshared(s) : /\ Grantable(locks, s, a, "KeyShare")
                                 /\ Lock(s, a, "KeyShare")
                                 /\ Goto(s, IF Unshared(s) = {a} THEN "transition" ELSE "lines")
    BY <1>8 DEF InsertLines
  <2>2. a \in Atomic!Unshared(s) /\ Atomic!Grantable(Seen, s, a, "KeyShare") /\ Atomic!Lock(s, a, "KeyShare")
    BY <2>1, SameLocks
  <2>3. Atomic!Goto(s, IF Atomic!Unshared(s) = {a} THEN "transition" ELSE "lines")
    BY <2>1, SameLocks DEF Goto, Atomic!Goto
  <2>4. Atomic!InsertLines(s)
    BY <1>8, <2>2, <2>3 DEF InsertLines, Atomic!InsertLines, table, Atomic!table, Seen
  <2> QED
    BY <2>4 DEF Atomic!Step
<1>9. CASE Transition(s)
  <2>1. PICK a \in Lowest(Unlocked(s)) :
          /\ Grantable(locks, s, a, "ForUpdate")
          /\ \/ ~MayPostTo(s, a) /\ Rollback(s, "archived")
             \/ /\ MayPostTo(s, a)
                /\ Lock(s, a, "ForUpdate")
                /\ Goto(s, IF Unlocked(s) = {a} THEN "closeCheck" ELSE "transition")
                /\ UNCHANGED <<request, answer, entry, adjusted, created, table>>
    BY <1>9 DEF Transition
  <2>2. a \in Atomic!Lowest(Atomic!Unlocked(s)) /\ Atomic!Grantable(Seen, s, a, "ForUpdate")
    BY <2>1, SameLocks DEF Lowest, Atomic!Lowest
  <2>3. Atomic!MayPostTo(s, a) = MayPostTo(s, a)
    BY DEF Atomic!MayPostTo, MayPostTo
  <2>4. \/ ~Atomic!MayPostTo(s, a) /\ Atomic!Rollback(s, "archived")
        \/ /\ Atomic!MayPostTo(s, a)
           /\ Atomic!Lock(s, a, "ForUpdate")
           /\ Atomic!Goto(s, IF Atomic!Unlocked(s) = {a} THEN "closeCheck" ELSE "transition")
           /\ UNCHANGED <<request, answer, entry, adjusted, created, Atomic!table>>
    BY <2>1, <2>3, SameLocks, RollbackRefines DEF Goto, Atomic!Goto, table, Atomic!table
  <2>5. Atomic!Transition(s)
    BY <1>9, <2>2, <2>4 DEF Transition, Atomic!Transition, Seen
  <2> QED
    BY <2>5 DEF Atomic!Step
<1>10. CASE CloseCheck(s)
  BY <1>10, SameOwed DEF CloseCheck, Atomic!CloseCheck, Goto, Atomic!Goto, table, Atomic!table, Atomic!Step
<1>11. CASE Commit(s)
  BY <1>11 DEF Commit, Atomic!Commit, Goto, Atomic!Goto, Released, Atomic!Released, Atomic!Step
<1>12. CASE Archive(s)
  <2>1. Atomic!Archive(s)
    BY <1>12, SameLocks, RollbackRefines DEF Archive, Atomic!Archive, Goto, Atomic!Goto, Seen
  <2> QED
    BY <2>1 DEF Atomic!Step
<1> QED
  BY <1>1, <1>2, <1>3, <1>4, <1>5, <1>6, <1>7, <1>8, <1>9, <1>10, <1>11, <1>12 DEF Step

\* A victim, among sessions and closers, is a session that loses its
\* connection.
LEMMA PostingRefines ==
  ASSUME JournalInv, Posting \/ \E s \in Session : VictimPosting(s)
  PROVE  Atomic!Posting
<1>1. ASSUME NEW s \in Session, Active(s), Rollback(s, "rolledBack")
      PROVE  Atomic!Posting
  BY <1>1, RollbackRefines, SameReads DEF Atomic!Posting, Atomic!Crash
<1>2. ASSUME NEW s \in Session, NEW r \in Request, Begin(s, r)
      PROVE  Atomic!Posting
  <2>1. Atomic!Request = Request
    BY Zenon DEF Request, Atomic!Request
  <2> QED
    BY <1>2, <2>1, BeginRefines DEF Atomic!Posting
<1>3. ASSUME NEW s \in Session, Step(s)
      PROVE  Atomic!Posting
  BY <1>3, StepRefines DEF Atomic!Posting
<1>4. ASSUME NEW s \in Session, VictimPosting(s)
      PROVE  Atomic!Posting
  <2>1. Active(s)
    BY <1>4, VictimWaits DEF VictimPosting, JournalInv, Served, Fits, Active, Finished
  <2> QED
    BY <1>1, <1>4, <2>1 DEF VictimPosting
<1>5. ASSUME NEW s \in Session, DeadlockVictim(s)
      PROVE  Atomic!Posting
  <2>1. Active(s)
    BY <1>5, VictimIsActive DEF JournalInv, Served, Fits, Active, Finished
  <2> QED
    BY <1>1, <1>5, <2>1, VictimIsActive
<1> QED
  BY <1>1, <1>2, <1>3, <1>4, <1>5 DEF Posting, Crash

LEMMA CloserRefines ==
  ASSUME CloseInv, SeparateInv, NEW c \in Closer, Turns(c)
  PROVE  (\E m \in Month : Atomic!CloseMonth(m)) \/ UNCHANGED Atomic!vars
<1>1. CloseRows /\ Underway /\ UNCHANGED <<journal, provisioned, archived>> /\ CloserLocking(c)
  BY CloserRest, CloserLocksOnly DEF CloseInv, Turns
<1>2. UNCHANGED Seen
  <2>1. c \notin Session
    BY CloseAssumption
  <2> QED
    BY <1>1, <2>1 DEF CloserLocking, LocksNext, Grants, Lock, Released, Seen
<1>3. CASE CommitClose(c)
  <2> DEFINE m == wanted[c].month
  <2>1. m \in Month /\ m \notin closed /\ figures[c].snapshot = Countable(m)
    BY <1>1, <1>3 DEF CommitClose, CloseRows, Underway, Confirmation, SeparateInv, Separate, Anchoring, Reading,
                      Anchors, Current
  <2>2. \A l \in Seen : l.account \notin Budgeted
    <3> SUFFICES ASSUME NEW l \in Seen, l.account \in Budgeted PROVE FALSE
      OBVIOUS
    <3>1. [session |-> c, account |-> l.account, mode |-> "ForUpdate"] \in locks
      BY <1>3 DEF CommitClose, SeparateInv, Separate, Owning, Held
    <3>2. l.session = c
      BY <3>1 DEF Seen, SeparateInv, Exclusive
    <3> QED
      BY <3>2, CloseAssumption DEF Seen
  <2>3. closed' = closed \cup {m} /\ counted' = [counted EXCEPT ![m] = Countable(m)]
    BY <1>3, <2>1 DEF CommitClose
  <2> HIDE DEF m
  <2>4. Atomic!CloseMonth(m)
    BY <1>1, <1>2, <2>1, <2>2, <2>3, SameReads DEF Atomic!CloseMonth, Seen, journal
  <2> QED
    BY <2>1, <2>4
<1>4. CASE ~CommitClose(c)
  <2>1. UNCHANGED table
    BY <1>1, <1>4, CloserTakes
       DEF Turns, CloserSteps, Begins, BeginClose, Moves, Refuses, Refuse, Computes, Confirms, Settles
  <2> QED
    BY <1>1, <1>2, <2>1 DEF Atomic!vars, Atomic!table, table, journal, Seen
<1> QED
  BY <1>3, <1>4

\* The close, run statement by statement among postings and other closes,
\* is the single step of module JournalPosting that counts the entries
\* committed so far: a month is closed once, at a moment when no posting
\* holds a lock on the accounts it reads, and with the entries posted then.
THEOREM CloseIsAtomic == ASSUME Budgeted \subseteq FirstAccounts PROVE CloseSpec => ClosesAtomically
<1>1. CloseInit => Atomic!Init
  BY DEF CloseInit, Init, Atomic!Init
<1>2. CloseInv /\ SeparateInv /\ [CloseNext]_allVars => [Atomic!Next]_(Atomic!vars)
  <2> SUFFICES ASSUME CloseInv, SeparateInv, [CloseNext]_allVars
               PROVE  Atomic!Next \/ UNCHANGED Atomic!vars
    OBVIOUS
  <2>1. CASE Closing
    <3>1. PICK c \in Closer : Turns(c)
      BY <2>1 DEF Closing, Begins, Turns
    <3> QED
      BY <3>1, CloserRefines DEF Atomic!Next
  <2>2. CASE Posting \/ \E s \in Session : VictimPosting(s)
    BY <2>2, PostingRefines DEF CloseInv, Atomic!Next
  <2>3. CASE UNCHANGED allVars
    BY <2>3 DEF allVars, vars, table, Atomic!vars, Atomic!table
  <2> QED
    BY <2>1, <2>2, <2>3 DEF CloseNext
<1> QED
  BY <1>1, <1>2, SeparateInvariant, PTL DEF CloseSpec, ClosesAtomically, Atomic!Spec
=============================================================================
