\* Six packets, so that tx_reg_num wraps around and goes on; four received
\* ones, so that packets arrive at every point of the handling of another.
SPECIFICATION RtlFairSpec
CONSTANTS
    RingSize = 4
    MaxSend = 6
INVARIANTS
    RtlTypeOK
    NoGap
    CompletionExpected
PROPERTIES
    ImplementsTxQueue
    AcceptedLeaves
