----------------------------- MODULE MCAccounts -----------------------------
(* One account that exists and three requests, of any kind. *)
EXTENDS Accounts, TLC

CONSTANTS r1, r2, r3, old, e1, e2, p1, p2

Setup(database, secret) == [database |-> database, secret |-> secret]

Setups == {Setup(TRUE, TRUE), Setup(TRUE, FALSE), Setup(FALSE, TRUE)}

Symmetry ==
    {r @@ e @@ p : r \in Permutations(Requests), e \in Permutations(Emails), p \in Permutations(Passwords)}
=============================================================================
