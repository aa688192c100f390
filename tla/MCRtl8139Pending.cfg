\* What the comment at rtl8139.status says of its upper bits.
SPECIFICATION RtlSpec
CONSTANTS
    RingSize = 1
    MaxSend = 1
INVARIANT
    TxopPending
