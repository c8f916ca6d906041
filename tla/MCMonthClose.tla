---------------------------- MODULE MCMonthClose ----------------------------
(***************************************************************************)
(* Instances of MonthClose for TLC.  Account 1 is the ledger account of    *)
(* the Midas account, 2 the mandatory-expense role account.                *)
(***************************************************************************)
EXTENDS MonthClose, TLC

Spend(m, amount) == [month |-> m, lines |-> (1 :> -amount) @@ (2 :> amount)]
MCPayload == {Spend(1, 3)}
MCCeiling == [a \in Budgeted |-> 4]
Symmetric == Permutations(Session) \cup Permutations(Closer) \cup Permutations(Key) \cup Permutations(CloseKey)
=============================================================================
