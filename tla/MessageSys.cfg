\* Two messages of any kind, each cut into up to three pieces, the tag into two.
CONSTANTS
    Msgs = {m1, m2}
    Parts = 3
    TagParts = 2
    Null = Null
SPECIFICATION FairSpec
INVARIANTS
    DeliveryInv
    SenderDiesAfterSending
PROPERTIES
    CompletedIsDelivered
    QueueMoves
    SentIsDelivered
    ServerSideGoes
CHECK_DEADLOCK FALSE
