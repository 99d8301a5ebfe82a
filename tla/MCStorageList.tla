----------------------------- MODULE MCStorageList -----------------------------
(* Instances of the storage for TLC.                                        *)
EXTENDS StorageList, TLC

CONSTANTS n1, n2, n3, rising, even, up, apart

\* Two nodes of equal length among three.
ThreeLengths == (n1 :> 1) @@ (n2 :> 1) @@ (n3 :> 2)

\* Searchers for pairs that rise and pairs of one length; a swapper that sorts,
\* and one that exchanges whatever differs.
SortAndShuffle == (rising :> "asc") @@ (even :> "equal")
                    @@ (up :> "asc") @@ (apart :> "not_equal")

=============================================================================
