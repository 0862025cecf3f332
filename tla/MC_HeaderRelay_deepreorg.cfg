\* Batches of 2 and a fork 4 deep: a reorg deeper than HEADER_BATCH_SIZE.
CONSTANTS
    g = g  b1 = b1  b2 = b2  b3 = b3  b4 = b4  b5 = b5
    c2 = c2  c3 = c3  c4 = c4  c5 = c5  c6 = c6
    d1 = d1  d2 = d2  d3 = d3  d4 = d4  none = none
    Blocks <- MCBlocks
    Genesis <- g
    Parent <- MCParent
    Height <- MCHeight
    Ancestors <- MCAncestors
    None <- none
    BatchSize = 2
    NodeReorgs = TRUE
    OtherRelayers = TRUE
    MaxRpcErrors = 0
SPECIFICATION LiveSpec
PROPERTY Converges
CHECK_DEADLOCK FALSE
