--------------------------- MODULE MCJournalPosting --------------------------
(***************************************************************************)
(* Instances of JournalPosting for TLC.  Account 1 is the user's cash      *)
(* account, 2 the mandatory-expense role account.                          *)
(***************************************************************************)
EXTENDS JournalPosting, TLC

Spend(m, amount) == [month |-> m, lines |-> (1 :> -amount) @@ (2 :> amount)]
MCPayload == {Spend(m, n) : m \in Month, n \in 1..2}
MCOnePayload == {Spend(m, 1) : m \in Month}
SessionSymmetry == Permutations(Session) \cup Permutations(Key)
=============================================================================
