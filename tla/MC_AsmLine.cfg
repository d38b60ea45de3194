\* Three workers and three items, of which one can wait.
CONSTANTS
    Items = {i1, i2, i3}
    NoItem = NoItem
    asl_size = 3
    WaitSize = 1
SPECIFICATION FairSpec
INVARIANTS TypeOK NothingLost
PROPERTIES ImplementsPipeline ItemsFinish
