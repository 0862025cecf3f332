--------------------------- MODULE MC_HeaderRelay ---------------------------
(* A block tree with three branches: b1-b2 and b1-c2-c3 share b1, and    *)
(* d1-d2-d3-d4 forks at the genesis block.  A reorg from the b branch to  *)
(* the c branch keeps b1; one to the d branch keeps only the genesis.     *)
EXTENDS HeaderRelay, TLC

CONSTANTS g, b1, b2, b3, b4, b5, c2, c3, c4, c5, c6, d1, d2, d3, d4, none

MCBlocks == {g, b1, b2, c2, c3, d1, d2, d3, d4}

MCParent ==
    (b1 :> g) @@ (b2 :> b1) @@ (c2 :> b1) @@ (c3 :> c2)
    @@ (d1 :> g) @@ (d2 :> d1) @@ (d3 :> d2) @@ (d4 :> d3)

MCHeight ==
    (g :> 0) @@ (b1 :> 1) @@ (b2 :> 2) @@ (c2 :> 2) @@ (c3 :> 3)
    @@ (d1 :> 1) @@ (d2 :> 2) @@ (d3 :> 3) @@ (d4 :> 4)

(* A longer tree whose fork fits in a batch of 3: b1-...-b5, and c4-c5-c6 *)
(* forking at b3.  A gap from the genesis block to b5 takes two batches.  *)
LongBlocks == {g, b1, b2, b3, b4, b5, c4, c5, c6}

LongParent ==
    (b1 :> g) @@ (b2 :> b1) @@ (b3 :> b2) @@ (b4 :> b3) @@ (b5 :> b4)
    @@ (c4 :> b3) @@ (c5 :> c4) @@ (c6 :> c5)

LongHeight ==
    (g :> 0) @@ (b1 :> 1) @@ (b2 :> 2) @@ (b3 :> 3) @@ (b4 :> 4) @@ (b5 :> 5)
    @@ (c4 :> 4) @@ (c5 :> 5) @@ (c6 :> 6)

(* The ancestor sets of a tree, computed by walking previous_block_hash.   *)
RECURSIVE AncestorsIn(_, _)
AncestorsIn(P, y) == IF y = g THEN {g} ELSE {y} \cup AncestorsIn(P, P[y])

MCAncestors == [y \in MCBlocks |-> AncestorsIn(MCParent, y)]

LongAncestors == [y \in LongBlocks |-> AncestorsIn(LongParent, y)]
=============================================================================
