SPECIFICATION FairSpec
CONSTANTS
    Palettes <- PassPalettes
    Consumers = 2
    MaxSent = 4
INVARIANTS TypeOK NothingOvertakes NoConsumerIsLost PaintedAsSent
PROPERTIES StreamGoesForward AllIsPainted
CHECK_DEADLOCK FALSE
