----------------------- MODULE MCCanonicalTransactions -----------------------
(***************************************************************************)
(* Instances of CanonicalTransactions for TLC: payloads of an amount and a *)
(* date, a create with or without its date, and updates of one field.      *)
(***************************************************************************)
EXTENDS CanonicalTransactions, TLC

CONSTANTS s1, s2, s3, k1, k2, k3, k4, x
MCPayload(a, d) == [amount |-> a, date |-> d]
MCDated == {MCPayload(1, 1)}
MCUndated == {MCPayload(1, None)}
MCPatch == {MCPayload(2, None), MCPayload(None, 2)}
MCSourceOf == [k \in Key |-> IF k \in {k3, k4} THEN x ELSE None]
MCNoSource == [k \in Key |-> None]

\* Sessions differ in nothing but their names, and so do k1 and k2, k3 and k4:
\* they are taken in one order.  (The properties under fairness rule a
\* symmetry set out.)
Started(s) == request[s] # None
Used(k) == \E s \in Session : Started(s) /\ request[s].key = k
InOrder ==
    /\ Started(s3) => Started(s2)
    /\ Started(s2) => Started(s1)
    /\ Used(k2) => Used(k1)
    /\ Used(k4) => Used(k3)
OrderedNext ==
    \E s \in Session :
        \/ \E r \in Request : BeginCreate(s, r) /\ InOrder'
        \/ \E r \in Request : BeginEdit(s, r) /\ InOrder'
        \/ Step(s)
        \/ Crash(s)
OrderedSpec == Init /\ [][OrderedNext]_vars /\ \A s \in Session : WF_vars(Step(s))
SymmetricKeys == Permutations(Session) \cup Permutations(Key)
=============================================================================
