\* With and without the ramdisk, which leaves room for two headers in front of it
\* and for a few blocks behind it; cuts that leave room for another header and cuts that do not.
SPECIFICATION HeapSpec
CONSTANTS
    H = 3
    Size = 20
    Count = {1, 3}
    Module <- Ramdisks
INVARIANTS
    ChainSound
    ModuleKept
PROPERTY
    GoodUnlessAstray
