SPECIFICATION MCSpec
CONSTANTS
    a = a
    b = b
    c = c
    Node <- MCNode
    Link <- MCLink
    MAX_RX_HIST_CNT = 1
    ttl = 3
    MaxSeq = 2
    MaxRestarts = 1
INVARIANTS TypeOK DeliveredOnce KnownWasDelivered
PROPERTIES FloodsEnd
CHECK_DEADLOCK FALSE
