------------------------ MODULE MCCheckTransactions ------------------------
(* One client whose calls and transactions are repeated, and one that tries *)
(* once; two checks, which are alike.                                       *)
EXTENDS CheckTransactions, TLC
CONSTANTS c1, c2
MCAttempts == (c1 :> 2) @@ (c2 :> 1)
MCCopies == (c1 :> 2) @@ (c2 :> 1)
Alike == Permutations(Nodes)
=============================================================================
