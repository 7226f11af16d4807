------------------------------ MODULE MCAccounts ------------------------------
(***************************************************************************)
(* An instance of Accounts: three ids, two requests at a time.             *)
(***************************************************************************)
EXTENDS Accounts, TLC

CONSTANTS u1, u2, u3, m1, v1, v2, t1, t2, d1, d2, r1, r2

MCUsers == {u1, u2, u3}
MCMails == {m1}
MCVKUsers == {v1, v2}
MCTokens == {t1, t2}
MCDevices == {d1, d2}
MCRequests == {r1, r2}

Symmetry == Permutations(MCUsers) \cup Permutations(MCVKUsers) \cup Permutations(MCTokens)
            \cup Permutations(MCDevices) \cup Permutations(MCRequests)

\* Bounds: an instance is about pushes, with two accounts, or about refresh tokens
\* that expire or lose their rows, or about VK logins of three accounts.
Pushing == fcm # "none" \/ \E u \in Users : devices[u] # {}
Issued == {t \in Tokens : token[t] # None}
Worn == {t \in Issued : token[t].old} \cup {r \in AuthRequests : req[r].op \in {"refresh", "password"}}
        \cup {u \in Users : users[u] # None /\ users[u].pw = "new"}
Instance ==
    /\ Pushing => Cardinality(Issued) <= 1 /\ Cardinality(used) <= 2 /\ Worn = {}
    /\ Worn # {} => Cardinality(used) <= 2 /\ Cardinality(Worn) <= 1
=============================================================================
