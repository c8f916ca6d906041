------------------------- MODULE TransactionRegister -------------------------
(***************************************************************************)
(* What src/transactions promises to the rest of the program: a register   *)
(* of financial transactions that are created, revised and voided in one   *)
(* step each, and a ledger that always carries exactly the effect of each  *)
(* transaction's current content, and nothing once it is void.             *)
(***************************************************************************)
EXTENDS Integers

CONSTANTS
    Transaction,     \* transaction ids
    Content,         \* what a transaction may say (amount, date, ...)
    None             \* no value

VARIABLES
    current,         \* the number and content of each transaction's last revision
    effect           \* how many times each content counts in the ledger

registerVars == <<current, effect>>

Once(c) == [d \in Content |-> IF d = c THEN 1 ELSE 0]
Nothing == [d \in Content |-> 0]

RegisterInit ==
    /\ current = [t \in Transaction |-> None]
    /\ effect = [t \in Transaction |-> Nothing]

Create(t, c) ==
    /\ current[t] = None
    /\ current' = [current EXCEPT ![t] = [no |-> 1, content |-> c, void |-> FALSE]]
    /\ effect' = [effect EXCEPT ![t] = Once(c)]

Revise(t, c) ==
    /\ current[t] # None /\ ~current[t].void
    /\ current' = [current EXCEPT ![t] = [no |-> @.no + 1, content |-> c, void |-> FALSE]]
    /\ effect' = [effect EXCEPT ![t] = Once(c)]

Void(t) ==
    /\ current[t] # None /\ ~current[t].void
    /\ current' = [current EXCEPT ![t] = [no |-> @.no + 1, content |-> @.content, void |-> TRUE]]
    /\ effect' = [effect EXCEPT ![t] = Nothing]

RegisterNext ==
    \E t \in Transaction : Void(t) \/ \E c \in Content : Create(t, c) \/ Revise(t, c)

RegisterSpec == RegisterInit /\ [][RegisterNext]_registerVars
=============================================================================
