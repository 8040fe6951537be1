---------------------------- MODULE MCFlashClaim ----------------------------
(* Instances of FlashClaim for TLC.                                        *)
EXTENDS FlashClaim, TLC

\* Every implementation is a version of its own.
OwnVersion == [i \in Implementation |-> i]

\* Payments of every kind, two to a claim.
TwoPayments == {<<"none", "each">>} \cup {<<p, "all">> : p \in Prize}

CONSTANTS t1, t2, c

\* One NFT in each pool.
OneOfEach == {<<LendPool, t1, c>>, <<StakeManager, t2, c>>}

\* Prizes, implementations, receivers, and the NFTs with their pools.
OtherPool == (t1 :> t2) @@ (t2 :> t1) @@ (LendPool :> StakeManager) @@ (StakeManager :> LendPool)
Alike == Permutations(Prize) \cup Permutations(Implementation) \cup Permutations(Receiver) \cup {OtherPool}
=============================================================================
