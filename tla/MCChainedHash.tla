--------------------------- MODULE MCChainedHash ----------------------------
EXTENDS ChainedHash, TLC

CONSTANTS k1, k2, k3, t1, t2

\* In two buckets k1 and k3 meet, in one all keys.
Codes == k1 :> 4 @@ k2 :> 7 @@ k3 :> 6
MCCode == [k \in Keys |-> Codes[k]]

\* One table as in hash-count, a global one and that of a file as in hash-sorted.
MCUses ==
  {[tables |-> {t1}, keys |-> {k1, k2, k3}, sizes |-> {1, 2}],
   [tables |-> {t1, t2}, keys |-> {k1, k2}, sizes |-> {2}]}

\* Free cells are alike: malloc may return any.
Renamings == Permutations(Nodes)
=============================================================================
