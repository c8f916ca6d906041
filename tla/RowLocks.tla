------------------------------ MODULE RowLocks ------------------------------
(***************************************************************************)
(* PostgreSQL's row locks, as far as the code in src/ relies on them: the  *)
(* foreign key from journal_lines to ledger_accounts takes FOR KEY SHARE,  *)
(* an UPDATE of a column outside every key takes FOR NO KEY UPDATE, and    *)
(* SELECT ... FOR UPDATE takes FOR UPDATE.  A transaction never conflicts  *)
(* with itself and keeps its locks until it commits or rolls back.         *)
(* External: this is the database, not a file of the repository.           *)
(***************************************************************************)

LockMode == {"KeyShare", "NoKeyUpdate", "ForUpdate"}

Conflicts(a, b) ==
    \/ "ForUpdate" \in {a, b}
    \/ a = "NoKeyUpdate" /\ b = "NoKeyUpdate"

\* locks is a set of [session, account, mode]: the holders whose lock keeps
\* session s from taking a lock of the given mode on account a.
Holders(locks, s, a, mode) ==
    {l.session : l \in {k \in locks : /\ k.account = a
                                      /\ k.session # s
                                      /\ Conflicts(k.mode, mode)}}

Grantable(locks, s, a, mode) == Holders(locks, s, a, mode) = {}
=============================================================================
