SPECIFICATION Spec
CONSTANTS
    MaxInflight = 5
    Index = {1, 2, 3}
INVARIANT RingInv
PROPERTY RingIsAQueue
