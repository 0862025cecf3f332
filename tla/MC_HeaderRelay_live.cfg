\* Reorgs, other relayers and an RPC error on a tree whose fork fits in a
\* batch: common_ancestor's result and the convergence of the relay.
\* The header task stops for good once it has panicked.
CONSTANTS
    g = g  b1 = b1  b2 = b2  b3 = b3  b4 = b4  b5 = b5
    c2 = c2  c3 = c3  c4 = c4  c5 = c5  c6 = c6
    d1 = d1  d2 = d2  d3 = d3  d4 = d4  none = none
    Blocks <- LongBlocks
    Genesis <- g
    Parent <- LongParent
    Height <- LongHeight
    Ancestors <- LongAncestors
    None <- none
    BatchSize = 3
    NodeReorgs = TRUE
    OtherRelayers = TRUE
    MaxRpcErrors = 1
SPECIFICATION LiveSpec
INVARIANT HeaderTypeOK StartIsCommonAncestor
PROPERTY Converges
CHECK_DEADLOCK FALSE
