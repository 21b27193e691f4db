CONSTANTS
    p = p  q = q  i1 = i1  i2 = i2  i3 = i3  i4 = i4
    Producer <- TwoProducers
    Item <- FourItems
    Node <- ThreeNodes
    Null = Null
    Nothing = Nothing
SPECIFICATION FairSpec
CHECK_DEADLOCK FALSE
INVARIANTS NoDangling
PROPERTIES Fifo Delivered
