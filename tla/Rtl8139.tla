------------------------------ MODULE Rtl8139 ------------------------------
(***************************************************************************)
(* The RTL8139 network driver (src/dev/pci/net/rtl8139.c) and its card.    *)
(*                                                                         *)
(* The kernel sends while it boots, with interrupts off, and afterwards    *)
(* only from inside the interrupt handler, while it handles a packet. The  *)
(* card works on during the handler, so the handler is split where what    *)
(* the card does in between makes a difference: after it has read isr,     *)
(* after it has acknowledged a packet, and after it has handled it.        *)
(***************************************************************************)
EXTENDS Integers, FiniteSets, Sequences

CONSTANTS
    RingSize,   \* how many packets the card puts in the receive ring: capr is
                \* never moved, so it stops when it has been round once
    MaxSend     \* bound: how many packets the kernel sends

ASSUME RtlAssumption == RingSize \in Nat /\ MaxSend \in Nat

VARIABLES
    used,       \* the lower 4 bits of rtl8139.status: buffers in use
    txop,       \* RTL8139_STATUS_TXOP
    txReg,      \* rtl8139.tx_reg_num
    txbuf,      \* rtl8139_txbuf: the number of the packet in each buffer
    accepted,   \* how many packets rtl8139_tx has accepted
    cbrPrev,    \* rtl8139.cbr_prev, in packets
    phase,      \* where the kernel is
    status,     \* the isr that the handler has read
    isr,        \* the card's interrupt status register
    cbr,        \* the card's write position in the receive ring, in packets
    tsd,        \* the buffers that the card has been told to send
    wire,       \* the packets that the card has sent
    halted      \* a panic has stopped the kernel, and where

driverVars == <<used, txop, txReg, txbuf, accepted>>
recvVars   == <<cbrPrev, phase, status>>
cardVars   == <<isr, cbr, tsd, wire>>
rtlVars    == <<driverVars, recvVars, cardVars, halted>>

Buffer == 0..3
Isr    == {"ROK", "RER", "TOK", "TER"}
Phase  == {"boot", "idle", "entered", "acked", "handled"}

\* Mutant: the register number does not wrap around.
After_NoWrap(i) == i + 1

After(i) == (i + 1) % 4

Before(i) == (i + 3) % 4

Running == halted = "no"

Panic(where) ==
    /\ halted' = where
    /\ UNCHANGED <<driverVars, recvVars, cardVars>>

-----------------------------------------------------------------------------
(***************************************************************************)
(* Sending.                                                                *)
(***************************************************************************)

\* Mutant: the lowest free buffer is taken.
AllocTxbuf_Lowest == CHOOSE i \in Buffer \ used : \A j \in Buffer \ used : i <= j

\* rtl8139_alloc_txbuf: the first free buffer from tx_reg_num on.
AllocTxbuf ==
    LET d == CHOOSE d \in Buffer :
                /\ (txReg + d) % 4 \notin used
                /\ \A e \in 0..d - 1 : (txReg + e) % 4 \in used
    IN  (txReg + d) % 4

\* rtl8139_tx_sched, while nothing is being sent: the card gets the buffer.
TxSched ==
    /\ tsd' = tsd \cup {txReg}
    /\ txReg' = After(txReg)
    /\ txop' = TRUE

\* rtl8139_tx: the packet is copied into a free buffer, and given to the card
\* if it is this buffer's turn and nothing is being sent. (With all buffers in
\* use it returns -1 and changes nothing.)
Tx ==
    LET i == AllocTxbuf
    IN  /\ accepted < MaxSend /\ used # Buffer
        /\ accepted' = accepted + 1
        /\ used' = used \cup {i}
        /\ txbuf' = [txbuf EXCEPT ![i] = accepted']
        /\ IF txReg = i /\ ~txop THEN TxSched ELSE UNCHANGED <<tsd, txReg, txop>>

\* net_post_config asks for the addresses of the gateways before irq_enable.
BootSend ==
    /\ Running /\ phase = "boot"
    /\ Tx
    /\ UNCHANGED <<recvVars, isr, cbr, wire, halted>>

IrqEnable ==
    /\ Running /\ phase = "boot"
    /\ phase' = "idle"
    /\ UNCHANGED <<driverVars, cbrPrev, status, cardVars, halted>>

-----------------------------------------------------------------------------
(***************************************************************************)
(* The interrupt handler. isr |= bit writes back every bit that is set,    *)
(* and a bit is cleared by writing it: each of the acknowledgements clears *)
(* the whole register.                                                     *)
(***************************************************************************)

IrqEnter ==
    /\ Running /\ phase = "idle" /\ isr # {}
    /\ phase' = "entered"
    /\ status' = isr
    /\ UNCHANGED <<driverVars, cbrPrev, cardVars, halted>>

Entered == Running /\ phase = "entered"

RecvOk ==
    /\ Entered /\ "ROK" \in status
    /\ isr' = {}
    /\ phase' = "acked"
    /\ UNCHANGED <<driverVars, cbrPrev, status, cbr, tsd, wire, halted>>

\* Mutant: the buffer behind the one that was sent is freed.
Done_Wrong == txReg

\* The buffer whose transmission is complete.
Done == Before(txReg)

\* Mutant: the packets that wait are not looked at.
TransmitOk_Alone ==
    /\ Entered /\ "ROK" \notin status /\ "TOK" \in status
    /\ \/ Done \notin used /\ Panic("tok")
       \/ /\ Done \in used
          /\ used' = used \ {Done}
          /\ isr' = {}
          /\ phase' = "idle"
          /\ txop' = FALSE
          /\ UNCHANGED <<tsd, txReg, txbuf, accepted, cbrPrev, status, cbr, wire, halted>>

\* A transmission is complete: its buffer is free, and the next one is sent.
TransmitOk ==
    /\ Entered /\ "ROK" \notin status /\ "TOK" \in status
    /\ \/ Done \notin used /\ Panic("tok")
       \/ /\ Done \in used
          /\ used' = used \ {Done}
          /\ isr' = {}
          /\ phase' = "idle"
          /\ IF txReg \in used' THEN TxSched ELSE txop' = FALSE /\ UNCHANGED <<tsd, txReg>>
          /\ UNCHANGED <<txbuf, accepted, cbrPrev, status, cbr, wire, halted>>

RecvErr ==
    /\ Entered /\ status \cap {"ROK", "TOK"} = {} /\ "RER" \in status
    /\ isr' = {}
    /\ phase' = "idle"
    /\ UNCHANGED <<driverVars, cbrPrev, status, cbr, tsd, wire, halted>>

\* What is left, a failed transmission, is an unhandled interrupt.
Unhandled ==
    /\ Entered /\ status \cap {"ROK", "TOK", "RER"} = {}
    /\ Panic("irq")

\* rtl8139_recv hands over what lies between cbr_prev and cbr as one packet.
GotPacket == cbr > cbrPrev

\* The handling of a packet may send one.
Handle ==
    /\ Running /\ phase = "acked"
    /\ phase' = "handled"
    /\ (GotPacket /\ Tx) \/ UNCHANGED <<driverVars, tsd>>
    /\ UNCHANGED <<cbrPrev, status, isr, cbr, wire, halted>>

\* Who sends asserts that the packet is accepted, and that it knows what to
\* do with one that has arrived.
CallerPanics ==
    /\ Running
    /\ phase = "boot" \/ (phase = "acked" /\ GotPacket)
    /\ Panic("caller")

\* rtl8139_recv ends: whatever has arrived by now counts as handled.
RecvDone ==
    /\ Running /\ phase = "handled"
    /\ cbrPrev' = cbr
    /\ phase' = "idle"
    /\ UNCHANGED <<driverVars, status, cardVars, halted>>

-----------------------------------------------------------------------------
(***************************************************************************)
(* The card.                                                               *)
(***************************************************************************)

\* It sends a buffer, or gives it up.
Transmit(i, bit) ==
    /\ Running /\ i \in tsd
    /\ tsd' = tsd \ {i}
    /\ isr' = isr \cup {bit}
    /\ wire' = IF bit = "TOK" THEN Append(wire, txbuf[i]) ELSE wire
    /\ UNCHANGED <<driverVars, recvVars, cbr, halted>>

CardSends == \E i \in Buffer, bit \in {"TOK", "TER"} : Transmit(i, bit)

\* A packet arrives whole, or damaged.
CardReceives ==
    /\ Running
    /\ \/ cbr < RingSize /\ cbr' = cbr + 1 /\ isr' = isr \cup {"ROK"}
       \/ RingSize > 0 /\ isr' = isr \cup {"RER"} /\ UNCHANGED cbr
    /\ UNCHANGED <<driverVars, recvVars, tsd, wire, halted>>

-----------------------------------------------------------------------------
\* rtl8139_init.
RtlInit ==
    /\ used = {}
    /\ txop = FALSE
    /\ txReg = 0
    /\ txbuf = [i \in Buffer |-> 0]
    /\ accepted = 0
    /\ cbrPrev = 0
    /\ phase = "boot"
    /\ status = {}
    /\ isr = {}
    /\ cbr = 0
    /\ tsd = {}
    /\ wire = <<>>
    /\ halted = "no"

\* The parts of the handler after it has read isr.
Branch == RecvOk \/ TransmitOk \/ RecvErr \/ Unhandled

\* The kernel has nothing more to do than to wait for interrupts.
Waits ==
    /\ (phase = "idle" /\ isr = {}) \/ ~Running
    /\ UNCHANGED rtlVars

RtlNext ==
    \/ BootSend \/ IrqEnable
    \/ IrqEnter \/ Branch \/ Handle \/ RecvDone \/ CallerPanics
    \/ CardSends \/ CardReceives
    \/ Waits

RtlSpec == RtlInit /\ [][RtlNext]_rtlVars

\* The kernel gets on with what it does, interrupts are delivered, and the
\* card sends what it is given.
RtlFairness ==
    /\ WF_rtlVars(IrqEnable) /\ WF_rtlVars(IrqEnter) /\ WF_rtlVars(Branch)
    /\ WF_rtlVars(Handle) /\ WF_rtlVars(RecvDone)
    /\ WF_rtlVars(CardSends)

RtlFairSpec == RtlSpec /\ RtlFairness

-----------------------------------------------------------------------------
\* Every variable keeps its type.
RtlTypeOK ==
    /\ used \subseteq Buffer
    /\ txop \in BOOLEAN
    /\ txReg \in Buffer
    /\ accepted \in 0..MaxSend
    /\ txbuf \in [Buffer -> 0..MaxSend]
    /\ cbr \in 0..RingSize
    /\ cbrPrev \in 0..RingSize
    /\ phase \in Phase
    /\ status \subseteq Isr
    /\ isr \subseteq Isr
    /\ tsd \subseteq Buffer
    /\ wire \in Seq(1..MaxSend)
    /\ halted \in {"no", "tok", "irq", "caller"}

\* The buffers in use, counted from the one whose transmission is not yet
\* acknowledged, follow each other without a gap: packets cannot overtake one
\* another at the next wrap of tx_reg_num.
First == IF txop THEN Before(txReg) ELSE txReg
NoGap == used = {(First + k) % 4 : k \in 0..Cardinality(used) - 1}

\* The card is only ever told to send the buffer that the driver believes it
\* is sending, and no other transmission is under way.
OneTransmission == tsd # {} => txop /\ tsd = {Before(txReg)} /\ tsd \subseteq used

\* The assertion of the handler: a completed transmission was one of ours, and
\* each is acknowledged at most once.
CompletionExpected ==
    /\ halted # "tok"
    /\ "TOK" \in isr => txop /\ tsd = {} /\ Before(txReg) \in used

\* The comment at rtl8139.status: the bit says that an operation is scheduled,
\* so one is either at the card or still to be acknowledged.
TxopPending ==
    txop => \/ tsd # {}
            \/ isr \cap {"TOK", "TER"} # {}
            \/ phase = "entered" /\ status \cap {"TOK", "TER"} # {}
            \/ ~Running

\* What a completion that was acknowledged unseen leaves behind.
Stalled == Running /\ txop /\ tsd = {} /\ isr \cap {"TOK", "TER"} = {} /\ phase # "entered"

\* Only such a loss keeps a packet from being sent: else all that is accepted
\* leaves, whatever arrives meanwhile.
AcceptedLeaves ==
    \A p \in 1..MaxSend :
        accepted >= p ~> ((\E k \in DOMAIN wire : wire[k] = p) \/ Stalled \/ ~Running)

\* The driver implements TxQueue: the packets that are accepted and not yet
\* sent, in the order of their buffers.
waitingOf ==
    LET sent  == IF txop /\ tsd = {} THEN 1 ELSE 0
    IN  [k \in 1..Cardinality(used) - sent |-> txbuf[(First + sent + k - 1) % 4]]

Queue == INSTANCE TxQueue WITH Capacity <- Cardinality(Buffer), queue <- waitingOf

ImplementsTxQueue == Queue!Spec
=============================================================================
