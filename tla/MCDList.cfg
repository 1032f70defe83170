\* Three jobs on the five lists.
CONSTANTS
    j1 = j1
    j2 = j2
    j3 = j3
    Job <- JobsThree
    NULL = NULL
SPECIFICATION Spec
SYMMETRY Symmetry
INVARIANTS
    TypeOK
    LinksInverse
    CountsExact
    AssertsHold
    RingInv
PROPERTIES
    ImplementsJobLists
