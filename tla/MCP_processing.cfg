CONSTANTS
    Messages = {1, 2, 3}
    Times = {0, 1, 2}
    MaxChanges = 2
SPECIFICATION FairSpec
INVARIANTS TypeOK OneAtATime NothingLostOrTwice WaitingIsServed
PROPERTIES KeepsOrder EventuallyProcessed
