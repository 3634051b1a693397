SPECIFICATION FairSpec
CONSTANTS
    Publisher = {p1, p2, p3}
    PublisherSlots = 2
    MaxGeneration = 5
INVARIANTS
    SlotAccounting
    ProducerMatchesGeneration
    NoStaleUse
PROPERTIES
    RetiredQueuesOnlyLoseProducers
    PublishersFollowPolicy
