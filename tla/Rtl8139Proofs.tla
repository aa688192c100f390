--------------------------- MODULE Rtl8139Proofs ---------------------------
(***************************************************************************)
(* Theorems about Rtl8139 for every length of the ring and every number of *)
(* packets: the handler's assertion holds, the card is never told to send  *)
(* twice at a time, and packets keep their order in the buffers.           *)
(***************************************************************************)
EXTENDS Rtl8139, FiniteSetTheorems, SequenceTheorems, TLAPS

\* What NoGap says of each buffer by itself.
Gapless == \A j \in Buffer : j \in used <=> (j + 4 - First) % 4 < Cardinality(used)

\* A buffer in use holds a packet that was accepted.
PacketsNumbered == \A i \in used : txbuf[i] \in 1..MaxSend

\* While a transmission is under way its buffer stays in use.
SendingUsed == txop => Before(txReg) \in used

\* A completion that the handler has read and not yet acted on is as good as
\* one that isr still shows.
SeenExpected == phase = "entered" /\ "TOK" \in status => txop /\ tsd = {}
IsrExpected == "TOK" \in isr => txop /\ tsd = {}

RtlInv ==
    /\ RtlTypeOK /\ PacketsNumbered
    /\ SendingUsed /\ OneTransmission /\ SeenExpected /\ IsrExpected
    /\ halted # "tok"
    /\ Gapless

-----------------------------------------------------------------------------
\* There are four buffers.
LEMMA BufferSize == IsFiniteSet(Buffer) /\ Cardinality(Buffer) = 4
<1>1. 0 \in Int /\ 3 \in Int
    OBVIOUS
<1>2. IsFiniteSet(0..3) /\ Cardinality(0..3) = IF 0 > 3 THEN 0 ELSE 3 - 0 + 1
    BY <1>1, FS_Interval, Zenon
<1> QED
    BY <1>2 DEF Buffer

\* A set of buffers is finite, and of a size between none and all.
LEMMA UsedFinite ==
    ASSUME used \subseteq Buffer
    PROVE  /\ IsFiniteSet(used)
           /\ Cardinality(used) \in 0..4
           /\ used # Buffer => Cardinality(used) < 4
<1>1. IsFiniteSet(Buffer) /\ Cardinality(Buffer) = 4
    BY BufferSize
<1>2. IsFiniteSet(used) /\ Cardinality(used) <= 4 /\ (Cardinality(used) = 4 => used = Buffer)
    BY <1>1, FS_Subset
<1>3. Cardinality(used) \in Nat
    BY <1>2, FS_CardinalityType
<1> QED
    BY <1>2, <1>3

\* The two ways of saying that there is no gap agree.
LEMMA GaplessIsNoGap ==
    ASSUME RtlTypeOK
    PROVE  Gapless => NoGap
<1> DEFINE n == Cardinality(used)
           f == First
<1>1. n \in 0..4 /\ used \subseteq Buffer
    BY UsedFinite DEF RtlTypeOK
<1>2. f \in 0..3
    BY DEF RtlTypeOK, First, Before, Buffer
<1>3. Gapless <=> \A j \in Buffer : j \in used <=> (j + 4 - f) % 4 < n
    BY DEF Gapless
<1> HIDE DEF n, f
<1>4. ASSUME NEW j \in 0..3, (j + 4 - f) % 4 < n
      PROVE  \E k \in 0..n - 1 : j = (f + k) % 4
    <2> DEFINE k == (j + 4 - f) % 4
    <2>1. k \in 0..n - 1 /\ j = (f + k) % 4
        BY <1>1, <1>2, <1>4
    <2> HIDE DEF k
    <2> QED
        BY <2>1
<1>5. ASSUME NEW k \in 0..n - 1
      PROVE  (f + k) % 4 \in 0..3 /\ (((f + k) % 4) + 4 - f) % 4 < n
    BY <1>1, <1>2
<1>6. SUFFICES ASSUME Gapless PROVE used = {(f + k) % 4 : k \in 0..n - 1}
    BY DEF NoGap, n, f
<1> QED
    BY <1>1, <1>3, <1>4, <1>5, <1>6 DEF Buffer

\* rtl8139_alloc_txbuf finds the buffer behind the last one in use.
LEMMA AllocIsNext ==
    ASSUME RtlTypeOK, SendingUsed, Gapless, used # Buffer
    PROVE  /\ AllocTxbuf = (First + Cardinality(used)) % 4
           /\ AllocTxbuf \in Buffer \ used
<1> DEFINE n == Cardinality(used)
           f == First
<1>1. n \in 0..3 /\ used \subseteq Buffer
    BY UsedFinite DEF RtlTypeOK
<1>2. f \in 0..3 /\ txReg \in 0..3 /\ f = (IF txop THEN (txReg + 3) % 4 ELSE txReg)
    BY DEF RtlTypeOK, First, Before, Buffer
<1>3. \A j \in 0..3 : j \in used <=> (j + 4 - f) % 4 < n
    BY DEF Gapless, Buffer
<1>4. txop => n > 0
    BY <1>1, <1>2, <1>3 DEF SendingUsed, Before
<1> DEFINE d0 == IF txop THEN n - 1 ELSE n
           P(d) == /\ (txReg + d) % 4 \notin used
                   /\ \A e \in 0..d - 1 : (txReg + e) % 4 \in used
<1> HIDE DEF n, f
<1>5. d0 \in 0..3 /\ P(d0)
    BY <1>1, <1>2, <1>3, <1>4
<1>6. \A d \in Buffer : P(d) => d = d0
    BY <1>1, <1>2, <1>3, <1>4 DEF Buffer
<1>7. AllocTxbuf = (txReg + d0) % 4
    <2> DEFINE d1 == CHOOSE d \in Buffer : P(d)
    <2>1. d1 \in Buffer /\ P(d1)
        BY <1>5 DEF Buffer
    <2>2. d1 = d0
        BY <2>1, <1>6
    <2> QED
        BY <2>2 DEF AllocTxbuf
<1>8. (txReg + d0) % 4 = (f + n) % 4 /\ (txReg + d0) % 4 \in 0..3
    BY <1>1, <1>2, <1>4
<1> QED
    BY <1>5, <1>7, <1>8 DEF n, f, Buffer

-----------------------------------------------------------------------------
\* Whoever hands the driver a packet leaves the invariant as it was.
LEMMA TxInv ==
    ASSUME RtlInv, Tx,
           isr' = isr, wire' = wire, cbr' = cbr, cbrPrev' = cbrPrev,
           status' = status, halted' = halted,
           phase' \in Phase, phase' # "entered"
    PROVE  RtlInv'
<1> DEFINE n == Cardinality(used)
           f == First
           i == AllocTxbuf
<1>1. n \in 0..3 /\ IsFiniteSet(used) /\ used \subseteq Buffer
    BY UsedFinite DEF RtlInv, RtlTypeOK, Tx
<1>2. i = (f + n) % 4 /\ i \in Buffer \ used
    BY AllocIsNext DEF RtlInv, Tx
<1>3. f \in 0..3 /\ txReg \in 0..3 /\ txop \in BOOLEAN /\ f = (IF txop THEN (txReg + 3) % 4 ELSE txReg)
    BY DEF RtlInv, RtlTypeOK, First, Before, Buffer
<1>4. \A j \in 0..3 : j \in used <=> (j + 4 - f) % 4 < n
    BY DEF RtlInv, Gapless, Buffer
<1>5. /\ used' = used \cup {i} /\ txbuf' = [txbuf EXCEPT ![i] = accepted + 1]
      /\ accepted' = accepted + 1 /\ accepted < MaxSend
      /\ \/ txReg = i /\ ~txop /\ tsd' = tsd \cup {txReg} /\ txReg' = (txReg + 1) % 4 /\ txop' = TRUE
         \/ ~(txReg = i /\ ~txop) /\ tsd' = tsd /\ txReg' = txReg /\ txop' = txop
    BY DEF Tx, TxSched, After
<1>6. Cardinality(used') = n + 1
    <2>1. i \notin used
        BY <1>2
    <2>2. Cardinality(used \cup {i}) = n + 1
        BY <1>1, <2>1, FS_AddElement
    <2> QED
        BY <2>2, <1>5
<1>7. First' = f /\ txReg' \in 0..3 /\ txop' \in BOOLEAN
    <2>1. First' = IF txop' THEN (txReg' + 3) % 4 ELSE txReg'
        BY DEF First, Before
    <2>2. (((txReg + 1) % 4) + 3) % 4 = txReg /\ (txReg + 1) % 4 \in 0..3
        BY <1>3
    <2> HIDE DEF n, f, i
    <2>3. CASE txReg = i /\ ~txop
        BY <1>3, <1>5, <2>1, <2>2, <2>3
    <2>4. CASE ~(txReg = i /\ ~txop)
        BY <1>3, <1>5, <2>1, <2>4
    <2> QED
        BY <2>3, <2>4
<1> HIDE DEF n, f, i
<1>8. RtlTypeOK'
    <2>1. accepted + 1 \in 1..MaxSend
        BY <1>5, RtlAssumption DEF RtlInv, RtlTypeOK
    <2>2. used' \subseteq Buffer /\ txop' \in BOOLEAN /\ txReg' \in Buffer /\ tsd' \subseteq Buffer
        BY <1>2, <1>3, <1>5, <1>7 DEF RtlInv, RtlTypeOK, Buffer
    <2>3. txbuf' \in [Buffer -> 0..MaxSend] /\ accepted' \in 0..MaxSend
        BY <1>2, <1>5, <2>1 DEF RtlInv, RtlTypeOK
    <2> QED
        BY <2>2, <2>3 DEF RtlInv, RtlTypeOK
<1>9. PacketsNumbered'
    BY <1>2, <1>5, RtlAssumption DEF RtlInv, RtlTypeOK, PacketsNumbered
<1>10. SendingUsed' /\ OneTransmission'
    <2>1. CASE txReg = i /\ ~txop
        <3>1. tsd = {}
            BY <2>1 DEF RtlInv, OneTransmission
        <3>2. Before(txReg') = txReg
            BY <1>3, <1>5, <2>1 DEF Before
        <3> QED
            BY <1>5, <2>1, <3>1, <3>2 DEF SendingUsed, OneTransmission, Before
    <2>2. CASE ~(txReg = i /\ ~txop)
        BY <1>5, <2>2 DEF RtlInv, SendingUsed, OneTransmission, Before
    <2> QED
        BY <2>1, <2>2
<1>11. SeenExpected' /\ IsrExpected'
    BY <1>5 DEF RtlInv, SeenExpected, IsrExpected
<1>12. Gapless'
    <2>1. \A j \in 0..3 : j = i <=> (j + 4 - f) % 4 = n
        BY <1>1, <1>2, <1>3
    <2>2. \A j \in 0..3 : j \in used' <=> (j + 4 - f) % 4 < n + 1
        BY <1>1, <1>3, <1>4, <1>5, <2>1
    <2> QED
        BY <1>6, <1>7, <2>2 DEF Gapless, Buffer
<1> QED
    BY <1>8, <1>9, <1>10, <1>11, <1>12 DEF RtlInv

\* The end of a transmission frees its buffer, which is the first in use, and
\* sends the next one, if there is one.
LEMMA TransmitOkInv ==
    ASSUME RtlInv, TransmitOk
    PROVE  RtlInv'
<1> DEFINE n == Cardinality(used)
           f == First
<1>1. n \in 0..4 /\ IsFiniteSet(used) /\ used \subseteq Buffer
    BY UsedFinite DEF RtlInv, RtlTypeOK
<1>2. txop /\ tsd = {} /\ Done \in used
    BY DEF RtlInv, SeenExpected, SendingUsed, TransmitOk, Entered, Done
<1>3. f \in 0..3 /\ txReg \in 0..3 /\ f = (txReg + 3) % 4 /\ Done = f
    BY <1>2 DEF RtlInv, RtlTypeOK, First, Before, Buffer, Done
<1>4. \A j \in 0..3 : j \in used <=> (j + 4 - f) % 4 < n
    BY DEF RtlInv, Gapless, Buffer
<1>5. /\ used' = used \ {f} /\ isr' = {} /\ phase' = "idle"
      /\ \/ /\ txReg \in used'
            /\ tsd' = tsd \cup {txReg} /\ txReg' = (txReg + 1) % 4 /\ txop' = TRUE
         \/ txReg \notin used' /\ tsd' = tsd /\ txReg' = txReg /\ txop' = FALSE
      /\ UNCHANGED <<txbuf, accepted, cbrPrev, status, cbr, wire, halted>>
    BY <1>2, <1>3 DEF TransmitOk, TxSched, After
<1>6. Cardinality(used') = n - 1
    <2>1. f \in used
        BY <1>2, <1>3
    <2>2. Cardinality(used \ {f}) = n - 1
        BY <1>1, <2>1, FS_RemoveElement
    <2> QED
        BY <2>2, <1>5
<1>7. First' = txReg /\ txReg' \in 0..3 /\ txop' \in BOOLEAN
    <2>1. First' = IF txop' THEN (txReg' + 3) % 4 ELSE txReg'
        BY DEF First, Before
    <2>2. (((txReg + 1) % 4) + 3) % 4 = txReg /\ (txReg + 1) % 4 \in 0..3
        BY <1>3
    <2> QED
        BY <1>3, <1>5, <2>1, <2>2
<1> HIDE DEF n, f
<1>8. RtlTypeOK'
    BY <1>2, <1>3, <1>5, <1>7 DEF RtlInv, RtlTypeOK, Buffer, Phase
<1>9. PacketsNumbered'
    BY <1>5 DEF RtlInv, PacketsNumbered
<1>10. SendingUsed' /\ OneTransmission'
    BY <1>2, <1>3, <1>5 DEF SendingUsed, OneTransmission, Before
<1>11. SeenExpected' /\ IsrExpected' /\ halted' # "tok"
    BY <1>5 DEF RtlInv, SeenExpected, IsrExpected
<1>12. Gapless'
    <2>1. \A j \in 0..3 : j \in used' <=> (j + 4 - txReg) % 4 < n - 1
        BY <1>1, <1>3, <1>4, <1>5
    <2> QED
        BY <1>6, <1>7, <2>1 DEF Gapless, Buffer
<1> QED
    BY <1>8, <1>9, <1>10, <1>11, <1>12 DEF RtlInv

-----------------------------------------------------------------------------
\* The actions that leave the buffers alone.
LEMMA KernelInv ==
    ASSUME RtlInv,
           IrqEnable \/ IrqEnter \/ RecvOk \/ RecvErr \/ Unhandled \/ RecvDone \/ CallerPanics
    PROVE  RtlInv'
<1>1. UNCHANGED <<used, txop, txReg, txbuf, accepted, tsd, cbr, wire>>
    BY DEF IrqEnable, IrqEnter, RecvOk, RecvErr, Unhandled, RecvDone, CallerPanics, Panic,
           driverVars, cardVars, recvVars
<1>2. PacketsNumbered' /\ SendingUsed' /\ OneTransmission'
    BY <1>1 DEF RtlInv, PacketsNumbered, SendingUsed, OneTransmission, Before
<1>3. Gapless'
    <2>1. First' = First
        BY <1>1 DEF First, Before
    <2> QED
        BY <1>1, <2>1 DEF RtlInv, Gapless
<1>4. RtlTypeOK' /\ halted' # "tok"
    BY <1>1 DEF RtlInv, RtlTypeOK, IrqEnable, IrqEnter, RecvOk, RecvErr, Unhandled, RecvDone,
           CallerPanics, Panic, Running, Entered, recvVars, cardVars, Phase, Isr
<1>5. SeenExpected' /\ IsrExpected'
    BY <1>1 DEF RtlInv, SeenExpected, IsrExpected, IrqEnable, IrqEnter, RecvOk, RecvErr,
           Unhandled, RecvDone, CallerPanics, Panic, Entered, recvVars, cardVars
<1> QED
    BY <1>2, <1>3, <1>4, <1>5 DEF RtlInv

\* The card acknowledges only what it was told to send.
LEMMA CardInv ==
    ASSUME RtlInv, CardSends \/ CardReceives
    PROVE  RtlInv'
<1>1. UNCHANGED <<driverVars, recvVars, halted>>
    BY DEF CardSends, CardReceives, Transmit
<1>2. PacketsNumbered' /\ SendingUsed' /\ halted' # "tok"
    BY <1>1 DEF RtlInv, PacketsNumbered, SendingUsed, Before, driverVars
<1>3. Gapless'
    <2>1. First' = First
        BY <1>1 DEF First, Before, driverVars
    <2> QED
        BY <1>1, <2>1 DEF RtlInv, Gapless, driverVars
<1>4. CASE CardSends
    <2>1. PICK i \in Buffer, bit \in {"TOK", "TER"} : Transmit(i, bit)
        BY <1>4 DEF CardSends
    <2>2. txop /\ tsd = {i} /\ i \in used
        BY <2>1 DEF RtlInv, OneTransmission, Transmit
    <2>3. tsd' = {} /\ isr' = isr \cup {bit} /\ cbr' = cbr
        BY <2>1, <2>2 DEF Transmit
    <2>4. wire' \in Seq(1..MaxSend)
        <3>1. txbuf[i] \in 1..MaxSend
            BY <2>2 DEF RtlInv, PacketsNumbered
        <3>2. wire \in Seq(1..MaxSend)
            BY DEF RtlInv, RtlTypeOK
        <3>3. wire' = wire \/ wire' = Append(wire, txbuf[i])
            BY <2>1 DEF Transmit
        <3> DEFINE S == 1..MaxSend
                   p == txbuf[i]
        <3>4. p \in S /\ wire \in Seq(S) /\ (wire' = wire \/ wire' = Append(wire, p))
            BY <3>1, <3>2, <3>3
        <3> HIDE DEF S, p
        <3>5. wire' \in Seq(S)
            BY <3>4
        <3> QED
            BY <3>5 DEF S
    <2>5. RtlTypeOK'
        BY <1>1, <2>3, <2>4 DEF RtlInv, RtlTypeOK, Isr, driverVars, recvVars
    <2>6. OneTransmission' /\ SeenExpected' /\ IsrExpected'
        BY <1>1, <2>2, <2>3 DEF OneTransmission, SeenExpected, IsrExpected, driverVars
    <2> QED
        BY <1>2, <1>3, <2>5, <2>6 DEF RtlInv
<1>5. CASE CardReceives
    <2>1. /\ tsd' = tsd /\ wire' = wire
          /\ isr' = isr \cup {"ROK"} \/ isr' = isr \cup {"RER"}
          /\ cbr' \in 0..RingSize
        BY <1>5, RtlAssumption DEF CardReceives, RtlInv, RtlTypeOK
    <2>2. RtlTypeOK'
        BY <1>1, <2>1 DEF RtlInv, RtlTypeOK, Isr, driverVars, recvVars
    <2>3. OneTransmission' /\ SeenExpected' /\ IsrExpected'
        BY <1>1, <2>1 DEF RtlInv, OneTransmission, SeenExpected, IsrExpected, Before,
               driverVars, recvVars
    <2> QED
        BY <1>2, <1>3, <2>2, <2>3 DEF RtlInv
<1> QED
    BY <1>4, <1>5

\* Nothing is in use when the driver has started the card.
LEMMA RtlInitInv == RtlInit => RtlInv
<1> SUFFICES ASSUME RtlInit PROVE RtlInv
    OBVIOUS
<1>1. RtlTypeOK
    BY RtlAssumption DEF RtlInit, RtlTypeOK, Buffer, Phase, Isr
<1>2. Gapless
    <2>1. Cardinality(used) = 0
        BY FS_EmptySet DEF RtlInit
    <2>2. First = 0
        BY DEF RtlInit, First
    <2> QED
        BY <2>1, <2>2 DEF RtlInit, Gapless, Buffer
<1> QED
    BY <1>1, <1>2 DEF RtlInit, RtlInv, PacketsNumbered, SendingUsed, OneTransmission,
        SeenExpected, IsrExpected

\* Every step of the driver and the card, and every stutter, keeps the invariant.
LEMMA RtlNextInv == RtlInv /\ [RtlNext]_rtlVars => RtlInv'
<1> SUFFICES ASSUME RtlInv, [RtlNext]_rtlVars PROVE RtlInv'
    OBVIOUS
<1>1. CASE BootSend
    BY <1>1, TxInv DEF BootSend, recvVars, Phase
<1>2. CASE Handle /\ ~UNCHANGED <<driverVars, tsd>>
    BY <1>2, TxInv DEF Handle, Phase
<1>3. CASE Handle /\ UNCHANGED <<driverVars, tsd>>
    <2>1. /\ UNCHANGED <<used, txop, txReg, txbuf, accepted, tsd, cbr, wire, cbrPrev, status, isr, halted>>
          /\ phase' = "handled"
        BY <1>3 DEF Handle, driverVars
    <2>2. First' = First
        BY <2>1 DEF First, Before
    <2> QED
        BY <2>1, <2>2 DEF RtlInv, RtlTypeOK, PacketsNumbered, SendingUsed, OneTransmission,
            SeenExpected, IsrExpected, Gapless, Before, Phase
<1>4. CASE TransmitOk
    BY <1>4, TransmitOkInv
<1>5. CASE IrqEnable \/ IrqEnter \/ RecvOk \/ RecvErr \/ Unhandled \/ RecvDone \/ CallerPanics
    BY <1>5, KernelInv
<1>6. CASE CardSends \/ CardReceives
    BY <1>6, CardInv
<1>7. CASE UNCHANGED rtlVars
    <2>1. UNCHANGED <<used, txop, txReg, txbuf, accepted, tsd, cbr, wire, cbrPrev, status, isr, halted, phase>>
        BY <1>7 DEF rtlVars, driverVars, recvVars, cardVars
    <2>2. First' = First
        BY <2>1 DEF First, Before
    <2> QED
        BY <2>1, <2>2 DEF RtlInv, RtlTypeOK, PacketsNumbered, SendingUsed, OneTransmission,
            SeenExpected, IsrExpected, Gapless, Before
<1> QED
    BY <1>1, <1>2, <1>3, <1>4, <1>5, <1>6, <1>7 DEF RtlNext, Branch, Waits

-----------------------------------------------------------------------------
\* The invariant holds always: it is what the other theorems rest on.
THEOREM RtlInvariant == RtlSpec => []RtlInv
<1> QED
    BY RtlInitInv, RtlNextInv, PTL DEF RtlSpec

\* Every variable keeps its type: tx_reg_num never leaves the four buffers and
\* only packets that were accepted are sent.
THEOREM RtlTypeCorrect == RtlSpec => []RtlTypeOK
<1>1. RtlInv => RtlTypeOK
    BY DEF RtlInv
<1> QED
    BY <1>1, RtlInvariant, PTL

\* The buffers in use follow each other from the one that is being sent, so
\* that taking them in turn sends packets in the order of their acceptance.
THEOREM BuffersInOrder == RtlSpec => []NoGap
<1>1. RtlInv => NoGap
    BY GaplessIsNoGap DEF RtlInv
<1> QED
    BY <1>1, RtlInvariant, PTL

\* The card is never told to send while it sends.
THEOREM SendsOneAtATime == RtlSpec => []OneTransmission
<1>1. RtlInv => OneTransmission
    BY DEF RtlInv
<1> QED
    BY <1>1, RtlInvariant, PTL

\* rtl8139_irq_handler never finds a completed transmission that is not its own.
THEOREM HandlerAssertionHolds == RtlSpec => []CompletionExpected
<1>1. RtlInv => CompletionExpected
    BY DEF RtlInv, CompletionExpected, IsrExpected, SendingUsed
<1> QED
    BY <1>1, RtlInvariant, PTL

-----------------------------------------------------------------------------
\* Sequences as functions on 1..m.
LEMMA AppendIs ==
    ASSUME NEW S, NEW m \in Nat, NEW s \in [1..m -> S], NEW e \in S
    PROVE  /\ Len(s) = m
           /\ Append(s, e) = [k \in 1..m + 1 |-> IF k = m + 1 THEN e ELSE s[k]]
<1> DEFINE t == [k \in 1..m + 1 |-> IF k = m + 1 THEN e ELSE s[k]]
           a == Append(s, e)
<1>1. s \in Seq(S) /\ Len(s) = m
    OBVIOUS
<1>2. /\ a \in Seq(S) /\ Len(a) = m + 1
      /\ \A k \in 1..m : a[k] = s[k]
      /\ a[m + 1] = e
    BY <1>1, AppendProperties
<1>3. t \in [1..m + 1 -> S]
    OBVIOUS
<1>4. t \in Seq(S) /\ Len(t) = m + 1
    <2> HIDE DEF t
    <2> QED
        BY <1>3
<1>5. \A k \in 1..m + 1 : a[k] = t[k]
    BY <1>2
<1>6. a = t
    <2> HIDE DEF a, t
    <2> QED
        BY <1>2, <1>4, <1>5, SeqEqual
<1> QED
    BY <1>1, <1>6

\* What is left of a sequence without its head.
LEMMA TailIs ==
    ASSUME NEW S, NEW m \in Nat \ {0}, NEW s \in [1..m -> S]
    PROVE  /\ s # <<>> /\ Head(s) = s[1]
           /\ Tail(s) = [k \in 1..m - 1 |-> s[k + 1]]
<1> DEFINE t == [k \in 1..m - 1 |-> s[k + 1]]
           a == Tail(s)
<1>1. s \in Seq(S) /\ Len(s) = m
    OBVIOUS
<1>2. s # <<>>
    BY <1>1
<1>3. a \in Seq(S) /\ Len(a) = m - 1 /\ \A k \in 1..m - 1 : a[k] = s[k + 1]
    BY <1>1, <1>2, HeadTailProperties
<1>4. t \in [1..m - 1 -> S] /\ m - 1 \in Nat
    OBVIOUS
<1>5. t \in Seq(S) /\ Len(t) = m - 1
    <2> HIDE DEF t
    <2> QED
        BY <1>4
<1>6. a = t
    <2>1. \A k \in 1..m - 1 : a[k] = t[k]
        BY <1>3
    <2> HIDE DEF a, t
    <2> QED
        BY <1>3, <1>5, <2>1, SeqEqual
<1> QED
    BY <1>1, <1>2, <1>6

\* The first buffer in use does not wait once the card has sent it, until the
\* handler frees it.
Sent == IF txop /\ tsd = {} THEN 1 ELSE 0

\* The waiting packets, in terms of Sent, before and after a step.
LEMMA WaitingIs ==
    /\ waitingOf = [k \in 1..Cardinality(used) - Sent |-> txbuf[(First + Sent + k - 1) % 4]]
    /\ waitingOf' = [k \in 1..Cardinality(used') - Sent' |-> txbuf'[(First' + Sent' + k - 1) % 4]]
BY DEF waitingOf, Sent

\* At most four packets wait.
LEMMA WaitingType ==
    ASSUME RtlInv
    PROVE  /\ Cardinality(used) - Sent \in 0..4
           /\ waitingOf \in [1..Cardinality(used) - Sent -> 0..MaxSend]
<1>1. Cardinality(used) \in 0..4
    BY UsedFinite DEF RtlInv, RtlTypeOK
<1>2. First \in 0..3
    BY DEF RtlInv, RtlTypeOK, First, Before, Buffer
<1>3. txop => Cardinality(used) > 0
    <2>1. ASSUME txop PROVE Before(txReg) \in used /\ Before(txReg) = First /\ Before(txReg) \in Buffer
        BY <2>1 DEF RtlInv, RtlTypeOK, SendingUsed, First, Before, Buffer
    <2> QED
        BY <1>1, <1>2, <2>1 DEF RtlInv, Gapless, Buffer
<1>4. Cardinality(used) - Sent \in 0..4 /\ Sent \in 0..1
    BY <1>1, <1>3 DEF Sent
<1>5. \A k \in 1..Cardinality(used) - Sent : (First + Sent + k - 1) % 4 \in Buffer
    BY <1>1, <1>2, <1>4 DEF Buffer
<1> QED
    BY <1>4, <1>5, WaitingIs DEF RtlInv, RtlTypeOK

\* A packet that is accepted joins the end of the queue.
LEMMA TxAccepts ==
    ASSUME RtlInv, Tx, wire' = wire
    PROVE  Queue!Accept
<1> DEFINE n == Cardinality(used)
           f == First
           i == AllocTxbuf
<1>1. n \in 0..3 /\ IsFiniteSet(used) /\ used \subseteq Buffer
    BY UsedFinite DEF RtlInv, RtlTypeOK, Tx
<1>2. i = (f + n) % 4 /\ i \in Buffer \ used
    BY AllocIsNext DEF RtlInv, Tx
<1>3. f \in 0..3 /\ txReg \in 0..3 /\ txop \in BOOLEAN
    BY DEF RtlInv, RtlTypeOK, First, Before, Buffer
<1>4. /\ used' = used \cup {i} /\ txbuf' = [txbuf EXCEPT ![i] = accepted + 1]
      /\ accepted' = accepted + 1 /\ accepted < MaxSend
      /\ \/ txReg = i /\ ~txop /\ tsd' = tsd \cup {txReg} /\ txReg' = (txReg + 1) % 4 /\ txop' = TRUE
         \/ tsd' = tsd /\ txReg' = txReg /\ txop' = txop
    BY DEF Tx, TxSched, After
<1>5. Cardinality(used') = n + 1
    <2>1. i \notin used
        BY <1>2
    <2>2. Cardinality(used \cup {i}) = n + 1
        BY <1>1, <2>1, FS_AddElement
    <2> QED
        BY <2>2, <1>4
<1>6. First' = f /\ Sent' = Sent
    <2>1. First' = (IF txop' THEN (txReg' + 3) % 4 ELSE txReg') /\ f = IF txop THEN (txReg + 3) % 4 ELSE txReg
        BY DEF First, Before
    <2>2. (((txReg + 1) % 4) + 3) % 4 = txReg
        BY <1>3
    <2>3. CASE tsd' = tsd /\ txReg' = txReg /\ txop' = txop
        BY <2>1, <2>3 DEF Sent
    <2>4. CASE txReg = i /\ ~txop /\ tsd' = tsd \cup {txReg} /\ txReg' = (txReg + 1) % 4 /\ txop' = TRUE
        BY <2>1, <2>2, <2>4 DEF Sent
    <2> QED
        BY <1>4, <2>3, <2>4
<1> DEFINE m == n - Sent
<1>7. m \in 0..3 /\ Sent \in 0..1 /\ waitingOf \in [1..m -> 0..MaxSend]
    BY <1>1, WaitingType DEF Sent
<1>8. /\ waitingOf = [k \in 1..m |-> txbuf[(f + Sent + k - 1) % 4]]
      /\ waitingOf' = [k \in 1..m + 1 |-> txbuf'[(f + Sent + k - 1) % 4]]
    <2>1. Cardinality(used') - Sent' = m + 1
        BY <1>1, <1>5, <1>6, <1>7
    <2> QED
        BY <1>6, <2>1, WaitingIs
<1>9. txbuf \in [0..3 -> 0..MaxSend] /\ accepted + 1 \in 0..MaxSend
    BY <1>4, RtlAssumption DEF RtlInv, RtlTypeOK, Buffer
<1> HIDE DEF n, f, i
<1>10. /\ \A k \in 1..m : (f + Sent + k - 1) % 4 \in 0..3 \ {i}
       /\ (f + Sent + (m + 1) - 1) % 4 = i /\ i \in 0..3
    BY <1>1, <1>2, <1>3, <1>7 DEF Buffer
<1>11. waitingOf' = [k \in 1..m + 1 |-> IF k = m + 1 THEN accepted + 1 ELSE waitingOf[k]]
    <2>1. \A k \in 1..m : txbuf'[(f + Sent + k - 1) % 4] = waitingOf[k]
        BY <1>4, <1>8, <1>9, <1>10
    <2>2. txbuf'[(f + Sent + (m + 1) - 1) % 4] = accepted + 1
        BY <1>4, <1>9, <1>10
    <2> HIDE DEF m
    <2> QED
        BY <1>7, <1>8, <2>1, <2>2
<1> HIDE DEF m
<1>12. waitingOf' = Append(waitingOf, accepted + 1) /\ Len(waitingOf) = m
    BY <1>7, <1>9, <1>11, AppendIs
<1>13. Cardinality(Buffer) = 4
    BY BufferSize
<1> QED
    BY <1>4, <1>7, <1>12, <1>13 DEF Queue!Accept

\* The end of a transmission is none of the queue's business: the packet has
\* left when the card sent it.
LEMMA TransmitOkStutters ==
    ASSUME RtlInv, TransmitOk
    PROVE  UNCHANGED <<accepted, waitingOf, wire>>
<1> DEFINE n == Cardinality(used)
           f == First
<1>1. n \in 0..4 /\ IsFiniteSet(used) /\ used \subseteq Buffer
    BY UsedFinite DEF RtlInv, RtlTypeOK
<1>2. txop /\ tsd = {} /\ Done \in used
    BY DEF RtlInv, SeenExpected, SendingUsed, TransmitOk, Entered, Done
<1>3. f \in 0..3 /\ txReg \in 0..3 /\ f = (txReg + 3) % 4 /\ Done = f
    BY <1>2 DEF RtlInv, RtlTypeOK, First, Before, Buffer, Done
<1>4. \A j \in 0..3 : j \in used <=> (j + 4 - f) % 4 < n
    BY DEF RtlInv, Gapless, Buffer
<1>5. /\ used' = used \ {f}
      /\ \/ /\ txReg \in used'
            /\ tsd' = tsd \cup {txReg} /\ txReg' = (txReg + 1) % 4 /\ txop' = TRUE
         \/ txReg \notin used' /\ tsd' = tsd /\ txReg' = txReg /\ txop' = FALSE
      /\ UNCHANGED <<txbuf, accepted, wire>>
    BY <1>2, <1>3 DEF TransmitOk, TxSched, After
<1>6. Cardinality(used') = n - 1
    <2>1. f \in used
        BY <1>2, <1>3
    <2>2. Cardinality(used \ {f}) = n - 1
        BY <1>1, <2>1, FS_RemoveElement
    <2> QED
        BY <2>2, <1>5
<1>7. First' = txReg /\ Sent' = 0 /\ Sent = 1
    <2>1. First' = IF txop' THEN (txReg' + 3) % 4 ELSE txReg'
        BY DEF First, Before
    <2>2. (((txReg + 1) % 4) + 3) % 4 = txReg
        BY <1>3
    <2> QED
        BY <1>2, <1>5, <2>1, <2>2 DEF Sent
<1>8. /\ waitingOf = [k \in 1..n - 1 |-> txbuf[(f + 1 + k - 1) % 4]]
      /\ waitingOf' = [k \in 1..n - 1 |-> txbuf[(txReg + k - 1) % 4]]
    <2>1. n - 1 - 0 = n - 1
        BY <1>1
    <2>2. \A k \in 1..n - 1 : txReg + 0 + k - 1 = txReg + k - 1
        BY <1>1, <1>3
    <2> QED
        BY <1>5, <1>6, <1>7, <2>1, <2>2, WaitingIs
<1> HIDE DEF n, f
<1>9. \A k \in 1..n - 1 : (f + 1 + k - 1) % 4 = (txReg + k - 1) % 4
    BY <1>1, <1>3
<1> QED
    BY <1>5, <1>8, <1>9

\* What the card sends, or gives up, is the packet at the head of the queue.
LEMMA CardSendsLeaves ==
    ASSUME RtlInv, CardSends
    PROVE  \E sent \in BOOLEAN : Queue!Leave(sent)
<1> DEFINE n == Cardinality(used)
           f == First
<1>1. PICK i \in Buffer, bit \in {"TOK", "TER"} : Transmit(i, bit)
    BY DEF CardSends
<1>2. txop /\ tsd = {i} /\ i \in used /\ i = f
    BY <1>1 DEF RtlInv, OneTransmission, Transmit, First
<1>3. tsd' = {} /\ UNCHANGED <<used, txop, txReg, txbuf, accepted>>
    BY <1>1, <1>2 DEF Transmit, driverVars
<1>4. First' = f /\ Sent = 0 /\ Sent' = 1
    BY <1>2, <1>3 DEF First, Before, Sent
<1>5. n \in 1..4 /\ f \in 0..3
    <2>1. n \in 0..4
        BY UsedFinite DEF RtlInv, RtlTypeOK
    <2>2. f \in 0..3
        BY <1>2 DEF Buffer
    <2>3. (i + 4 - f) % 4 < n
        BY <1>2 DEF RtlInv, Gapless
    <2>4. (i + 4 - f) % 4 = 0
        BY <1>2, <2>2
    <2> HIDE DEF n, f
    <2> QED
        BY <2>1, <2>2, <2>3, <2>4
<1>6. waitingOf \in [1..n -> 0..MaxSend]
    <2>1. n - 0 = n
        BY <1>5
    <2> QED
        BY <1>4, <2>1, WaitingType
<1>7. /\ waitingOf = [k \in 1..n |-> txbuf[(f + k - 1) % 4]]
      /\ waitingOf' = [k \in 1..n - 1 |-> txbuf[(f + 1 + k - 1) % 4]]
    <2>1. n - 0 = n /\ \A k \in 1..n : f + 0 + k - 1 = f + k - 1
        BY <1>5
    <2> QED
        BY <1>3, <1>4, <2>1, WaitingIs
<1> HIDE DEF n, f
<1>8. waitingOf' = [k \in 1..n - 1 |-> waitingOf[k + 1]] /\ waitingOf[1] = txbuf[i]
    <2>1. \A k \in 1..n - 1 : k + 1 \in 1..n /\ f + 1 + k - 1 = f + (k + 1) - 1
        BY <1>5
    <2>2. 1 \in 1..n /\ (f + 1 - 1) % 4 = i
        BY <1>2, <1>5
    <2> QED
        BY <1>7, <2>1, <2>2
<1>9. waitingOf # <<>> /\ Head(waitingOf) = txbuf[i] /\ Tail(waitingOf) = waitingOf'
    <2> DEFINE w == waitingOf
    <2>1. n \in Nat \ {0} /\ w \in [1..n -> 0..MaxSend]
        BY <1>5, <1>6
    <2> HIDE DEF w
    <2>2. w # <<>> /\ Head(w) = w[1] /\ Tail(w) = [k \in 1..n - 1 |-> w[k + 1]]
        BY <2>1, TailIs
    <2> QED
        BY <1>8, <2>2 DEF w
<1>10. wire' = IF bit = "TOK" THEN Append(wire, txbuf[i]) ELSE wire
    BY <1>1 DEF Transmit
<1>11. Queue!Leave(bit = "TOK")
    BY <1>3, <1>9, <1>10 DEF Queue!Leave
<1> QED
    BY <1>11

\* Every step of the driver and the card is a step of the queue, or none.
LEMMA StepQueues ==
    ASSUME RtlInv, [RtlNext]_rtlVars
    PROVE  [Queue!Next]_<<accepted, waitingOf, wire>>
<1>1. CASE BootSend
    BY <1>1, TxAccepts DEF BootSend, Queue!Next
<1>2. CASE Handle /\ ~UNCHANGED <<driverVars, tsd>>
    BY <1>2, TxAccepts DEF Handle, Queue!Next
<1>3. CASE TransmitOk
    BY <1>3, TransmitOkStutters
<1>4. CASE CardSends
    BY <1>4, CardSendsLeaves DEF Queue!Next
<1>5. CASE UNCHANGED <<driverVars, tsd, wire>>
    <2>1. First' = First /\ Sent' = Sent
        BY <1>5 DEF First, Before, Sent, driverVars
    <2> QED
        BY <1>5, <2>1, WaitingIs DEF driverVars
<1>6. ASSUME \/ IrqEnable \/ IrqEnter \/ RecvOk \/ RecvErr \/ Unhandled \/ RecvDone
             \/ CallerPanics \/ CardReceives \/ Waits \/ UNCHANGED rtlVars
             \/ Handle /\ UNCHANGED <<driverVars, tsd>>
      PROVE  UNCHANGED <<driverVars, tsd, wire>>
    BY <1>6 DEF IrqEnable, IrqEnter, RecvOk, RecvErr, Unhandled, RecvDone, CallerPanics,
        CardReceives, Waits, Handle, Panic, rtlVars, cardVars
<1> QED
    BY <1>1, <1>2, <1>3, <1>4, <1>5, <1>6 DEF RtlNext, Branch

\* The driver and its card are a queue of four: packets leave in the order in
\* which rtl8139_tx accepted them, each at most once.
THEOREM DriverQueues == RtlSpec => ImplementsTxQueue
<1>1. RtlInit => Queue!Init
    <2> SUFFICES ASSUME RtlInit PROVE Queue!Init
        OBVIOUS
    <2>1. Cardinality(used) = 0 /\ Sent = 0
        BY FS_EmptySet DEF RtlInit, Sent
    <2>2. waitingOf = <<>>
        BY <2>1, WaitingIs
    <2> QED
        BY <2>2 DEF RtlInit, Queue!Init
<1>2. RtlInv /\ [RtlNext]_rtlVars => [Queue!Next]_<<accepted, waitingOf, wire>>
    BY StepQueues
<1> QED
    BY <1>1, <1>2, RtlInvariant, PTL DEF RtlSpec, ImplementsTxQueue, Queue!Spec, Queue!queueVars
=============================================================================
