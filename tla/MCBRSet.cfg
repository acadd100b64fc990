SPECIFICATION Spec
CONSTANTS
    s1 = s1
    s2 = s2
    ia = ia
    ia2 = ia2
    ib = ib
    ic = ic
    NULL = NULL
    SetName <- MCSetName
    Item <- MCItem
    KeyOf <- MCKeyOf
    HashOf <- MCHashOf
    TableSizes <- MCTableSizes
    Capacity <- MCCapacity
INVARIANTS
    TypeOK
    ProbesEnd
    IterationComplete
PROPERTY ImplementsSet
