SPECIFICATION Spec
CONSTANTS
    Ids = {1, 2}
    Queues <- MCQueues
    MaxInserts = 4
    MaxRewrites = 3
INVARIANTS
    IndexOfThisFile
