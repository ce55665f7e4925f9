----------------------------- MODULE TimerProofs -----------------------------
(***************************************************************************)
(* Theorems about delayed streams: their tx_lists are in departure order,  *)
(* and as long as timerfd_settime accepts every departure time, what goes  *)
(* wrong with a stream's timer goes wrong only once the timer has outlived *)
(* the packet it was set for.                                              *)
(***************************************************************************)
EXTENDS EmulatorProofs

-----------------------------------------------------------------------------
(* Departure order                                                         *)

\* Packet a leaves before b, or in the same microsecond and was received before.
Before(a, b, leave, f) ==
    \/ TimevalLess(leave[a], leave[b])
    \/ ~TimevalLess(leave[b], leave[a]) /\ f[a] < f[b]

InOrder(list, leave, f) ==
    \A m, n \in 1..Len(list) : m < n => Before(list[m], list[n], leave, f)

\* slib_insert_and_sort keeps the order when the new packet was received last.
LEMMA InsertInOrder ==
  ASSUME NEW list \in Seq(Buffers), NEW b \in Buffers, NEW leave \in [Buffers -> Timespec],
         NEW f \in [Buffers -> Nat], InOrder(list, leave, f),
         \A x \in ToSet(list) : f[x] < f[b]
  PROVE  InOrder(slib_insert_and_sort(list, b, leave), leave, f)
<1> DEFINE new == slib_insert_and_sort(list, b, leave)
<1>1. PICK i \in 1..(Len(list) + 1) :
        /\ new = InsertAt(list, i, b)
        /\ \A j \in 1..(i - 1) : ~TimevalLess(leave[b], leave[list[j]])
        /\ i <= Len(list) => TimevalLess(leave[b], leave[list[i]])
  BY InsertPosition
<1>2. /\ Len(list) \in Nat /\ Len(new) = Len(list) + 1
      /\ \A j \in 1..(Len(list) + 1) :
           new[j] = IF j < i THEN list[j] ELSE IF j = i THEN b ELSE list[j - 1]
  <2>1. /\ Len(InsertAt(list, i, b)) = Len(list) + 1
        /\ \A j \in 1..(Len(list) + 1) :
             InsertAt(list, i, b)[j] =
               IF j < i THEN list[j] ELSE IF j = i THEN b ELSE list[j - 1]
    BY InsertAtProperties
  <2> HIDE DEF new
  <2> QED  BY <1>1, <2>1, LenProperties
<1>3. \A j \in 1..Len(list) :
        list[j] \in Buffers /\ leave[list[j]] \in Timespec /\ f[list[j]] < f[b]
  BY <1>2, ElementOfSeq DEF ToSet
<1>4. leave[b] \in Timespec
  OBVIOUS
<1> HIDE DEF new
<1>5. \A j \in 1..Len(list) : j < i => Before(list[j], b, leave, f)
  BY <1>1, <1>2, <1>3 DEF Before
<1>6. ASSUME NEW j \in 1..Len(list), i <= j PROVE Before(b, list[j], leave, f)
  <2>1. i \in 1..Len(list) /\ TimevalLess(leave[b], leave[list[i]])
    BY <1>1, <1>2, <1>6
  <2>2. CASE i = j
    BY <2>1, <2>2 DEF Before
  <2>3. CASE i # j
    <3>1. ~TimevalLess(leave[list[j]], leave[list[i]])
      <4>1. Before(list[i], list[j], leave, f)
        BY <1>2, <1>6, <2>1, <2>3 DEF InOrder
      <4> QED  BY <1>3, <2>1, <4>1, TimevalOrder DEF Before
    <3>2. TimevalLess(leave[b], leave[list[j]])
      BY <1>3, <1>4, <2>1, <3>1, TimevalOrder
    <3> QED  BY <3>2 DEF Before
  <2> QED  BY <2>2, <2>3
<1>7. InOrder(new, leave, f)
  <2> SUFFICES ASSUME NEW m \in 1..Len(new), NEW n \in 1..Len(new), m < n
               PROVE  Before(new[m], new[n], leave, f)
    BY DEF InOrder
  <2>1. CASE n < i
    <3>1. m \in 1..Len(list) /\ n \in 1..Len(list) /\ new[m] = list[m] /\ new[n] = list[n]
      BY <1>2, <2>1
    <3> QED  BY <3>1 DEF InOrder
  <2>2. CASE n = i
    <3>1. m \in 1..Len(list) /\ m < i /\ new[m] = list[m] /\ new[n] = b
      BY <1>2, <2>2
    <3> QED  BY <1>5, <3>1
  <2>3. CASE m < i /\ n > i
    <3>1. /\ m \in 1..Len(list) /\ n - 1 \in 1..Len(list) /\ m < n - 1
          /\ new[m] = list[m] /\ new[n] = list[n - 1]
      BY <1>2, <2>3
    <3> QED  BY <3>1 DEF InOrder
  <2>4. CASE m = i
    <3>1. n - 1 \in 1..Len(list) /\ i <= n - 1 /\ new[m] = b /\ new[n] = list[n - 1]
      BY <1>2, <2>4
    <3> QED  BY <1>6, <3>1
  <2>5. CASE m > i
    <3>1. /\ m - 1 \in 1..Len(list) /\ n - 1 \in 1..Len(list) /\ m - 1 < n - 1
          /\ new[m] = list[m - 1] /\ new[n] = list[n - 1]
      BY <1>2, <2>5
    <3> QED  BY <3>1 DEF InOrder
  <2> QED  BY <1>2, <2>1, <2>2, <2>3, <2>4, <2>5
<1> QED  BY <1>7 DEF new

\* Nothing queued leaves before the first packet.
LEMMA HeadFirst ==
  ASSUME NEW list \in Seq(Buffers), NEW leave \in [Buffers -> Timespec],
         NEW f, InOrder(list, leave, f), NEW x \in ToSet(list)
  PROVE  /\ list # << >> /\ Head(list) \in ToSet(list)
         /\ ~TimevalLess(leave[x], leave[Head(list)])
<1>1. PICK n \in 1..Len(list) : x = list[n]
  BY LenProperties DEF ToSet
<1>2. Len(list) \in Nat
  BY LenProperties
<1>3. list # << >> /\ Head(list) = list[1] /\ 1 \in 1..Len(list)
  BY <1>1, <1>2, HeadTailProperties, EmptySeq
<1>4. leave[list[1]] \in Timespec /\ leave[list[n]] \in Timespec
  BY <1>1, <1>3, ElementOfSeq
<1>5. ~TimevalLess(leave[list[n]], leave[list[1]])
  <2>1. CASE n = 1
    BY <1>4, <2>1, TimevalOrder
  <2>2. CASE n # 1
    <3>1. Before(list[1], list[n], leave, f)
      BY <1>1, <1>2, <1>3, <2>2 DEF InOrder
    <3> QED  BY <1>4, <3>1, TimevalOrder DEF Before
  <2> QED  BY <2>1, <2>2
<1>6. Head(list) \in ToSet(list)
  BY <1>3, LenProperties DEF ToSet
<1> QED  BY <1>1, <1>3, <1>5, <1>6

\* The first packet taken off the list.
LEMMA TailInOrder ==
  ASSUME NEW list \in Seq(Buffers), NEW leave, NEW f, list # << >>, InOrder(list, leave, f)
  PROVE  InOrder(Tail(list), leave, f)
<1> DEFINE rest == Tail(list)
<1>1. /\ Len(list) \in Nat \ {0} /\ Len(rest) = Len(list) - 1
      /\ \A i \in 1..(Len(list) - 1) : rest[i] = list[i + 1]
  BY HeadTailProperties, LenProperties, EmptySeq
<1> HIDE DEF rest
<1>2. InOrder(rest, leave, f)
  <2> SUFFICES ASSUME NEW m \in 1..(Len(list) - 1), NEW n \in 1..(Len(list) - 1), m < n
               PROVE  Before(rest[m], rest[n], leave, f)
    BY <1>1 DEF InOrder
  <2>1. m + 1 \in 1..Len(list) /\ n + 1 \in 1..Len(list) /\ m + 1 < n + 1
    BY <1>1
  <2> QED  BY <1>1, <2>1 DEF InOrder
<1> QED  BY <1>2 DEF rest

\* The order concerns only what the packets in the list hold.
LEMMA SameOrder ==
  ASSUME NEW list \in Seq(Buffers), NEW leave, NEW f, NEW leave2, NEW f2,
         InOrder(list, leave, f),
         \A x \in ToSet(list) : leave2[x] = leave[x] /\ f2[x] = f[x]
  PROVE  InOrder(list, leave2, f2)
<1>1. \A n \in 1..Len(list) : list[n] \in ToSet(list)
  BY LenProperties DEF ToSet
<1> QED  BY <1>1 DEF InOrder, Before

-----------------------------------------------------------------------------
(* What a step does to a delayed stream                                    *)

\* What packets hold, typed, whatever the program died of.
LEMMA HeapTypes ==
  ASSUME HeapType, ListType
  PROVE  /\ LeaveOf \in [Buffers -> Timespec] /\ FrameOf \in [Buffers -> Nat]
         /\ \A b \in Buffers : LeaveOf[b] = pkt[b].leave /\ FrameOf[b] = pkt[b].frame
         /\ \A s \in Streams : /\ tx_list[s] \in Seq(Buffers)
                               /\ ToSet(tx_list[s]) \subseteq Buffers
<1>1. \A b \in Buffers : pkt[b] \in Packet
  BY DEF HeapType
<1>2. \A s \in Streams : tx_list[s] \in Seq(Buffers)
  BY DEF ListType
<1>3. \A s \in Streams : ToSet(tx_list[s]) \subseteq Buffers
  BY <1>2, ElementOfSeq, LenProperties DEF ToSet
<1> QED  BY <1>1, <1>2, <1>3 DEF LeaveOf, FrameOf, Packet

\* The same while it runs.
LEMMA PacketTypes ==
  ASSUME TypeOK
  PROVE  /\ LeaveOf \in [Buffers -> Timespec] /\ FrameOf \in [Buffers -> Nat]
         /\ \A b \in Buffers : LeaveOf[b] = pkt[b].leave /\ FrameOf[b] = pkt[b].frame
         /\ \A s \in Streams : /\ tx_list[s] \in Seq(Buffers)
                               /\ ToSet(tx_list[s]) \subseteq Buffers
  BY HeapTypes DEF TypeOK

\* Only p_emu_PrThread changes a packet, the one in its hands; the allocator's
\* callers fill packets that were free.
LEMMA PacketsKept ==
  ASSUME TypeOK, [Next]_vars, NEW b \in live, b \notin InHand[2]
  PROVE  pkt'[b] = pkt[b]
<1>1. b \in Buffers
  BY DEF TypeOK, HeapType
<1>2. ASSUME NEW a \in Buffers \ live, NEW c, pkt' = [pkt EXCEPT ![a] = c]
      PROVE  pkt'[b] = pkt[b]
  BY <1>1, <1>2 DEF TypeOK, HeapType
<1>3. CASE RxNext
  BY <1>2, <1>3
  DEF RxNext, RxAllocFails, RxNothing, RxFrame, RxAdd, RxAddFails, RxPost, heapVars,
      p_emu_packet_init
<1>4. CASE PrNext
  <2>1. ASSUME NEW d \in DelayOffsets, PrInsertDelayed(d) PROVE pkt'[b] = pkt[b]
    <3>1. pr.pc = "process" /\ pr.b \in Buffers
      BY <2>1 DEF PrInsertDelayed, TypeOK, PrType
    <3>2. b # pr.b
      BY <3>1, PlacesAre DEF HandFacts
    <3> QED  BY <1>1, <2>1, <3>1, <3>2 DEF PrInsertDelayed, TypeOK, HeapType
  <2>2. ASSUME \/ PrWait \/ PrCount \/ PrTake \/ PrDiscard \/ PrInsertFails \/ PrInsert
               \/ PrPost \/ PrShow \/ PrArm \/ PrArmFaults
        PROVE  pkt' = pkt
    BY <2>2
    DEF PrWait, PrCount, PrTake, PrDiscard, PrInsertFails, PrGiveUp, PrInsert, PrPost,
        PrShow, PrArm, PrArmFaults, heapVars
  <2> QED  BY <1>4, <2>1, <2>2 DEF PrNext
<1>5. CASE TxNext
  BY <1>5 DEF TxNext, TxWait, TxSkip, TxTake, TxSend, TxExhausted, heapVars
<1>6. CASE TxdNext
  BY <1>6 DEF TxdNext, TxdRead, TxdNothing, TxdTake, TxdSend, TxdShow, TxdArm, heapVars
<1>7. CASE Tick \/ UNCHANGED vars
  BY <1>7 DEF Tick, vars, heapVars
<1> QED  BY <1>3, <1>4, <1>5, <1>6, <1>7 DEF Next, Halted

\* A queued packet, and the one p_emu_TxThread_Delayed sends, stay what they are.
LEMMA QueuedKept ==
  ASSUME NEW R, EmulatorInvOf(R), [Next]_vars
  PROVE  /\ \A s \in Streams : \A b \in ToSet(tx_list[s]) : pkt'[b] = pkt[b]
         /\ txd.pc = "send" => pkt'[txd.b] = pkt[txd.b]
<1> USE DEF EmulatorInvOf
<1>1. /\ Ownership
      /\ live = HeldBuffers \union QueuedBuffers \union leaked \union R
  BY OwnershipMeans
<1>2. ASSUME NEW s \in Streams, NEW b \in ToSet(tx_list[s]) PROVE pkt'[b] = pkt[b]
  <2>1. << "tx", s >> \in Places /\ ListOf("tx", s) = tx_list[s]
    BY DEF Places, ListOf
  <2>2. ToSet(ListOf("tx", s)) \subseteq live \ HeldBuffers
    BY <1>1, <2>1 DEF Ownership
  <2>3. b \in live /\ b \notin InHand[2]
    BY <2>1, <2>2 DEF HeldBuffers
  <2> QED  BY <2>3, PacketsKept
<1>3. ASSUME txd.pc = "send" PROVE pkt'[txd.b] = pkt[txd.b]
  <2>1. txd.b \in InHand[4] /\ 4 \in 1..4 /\ 2 \in 1..4 /\ 2 # 4
    BY <1>3, PlacesAre DEF HandFacts
  <2>2. txd.b \notin InHand[2] /\ txd.b \in live
    BY <2>1, HandApart DEF Owned
  <2> QED  BY <2>2, PacketsKept
<1> QED  BY <1>2, <1>3

\* The tx_list of a delayed stream loses its first packet or gains one at its
\* place, or is left alone.
LEMMA DelayedList ==
  ASSUME TypeOK, TxdInv, [Next]_vars, NEW s \in Delayed
  PROVE  \/ tx_list'[s] = tx_list[s]
         \/ /\ TxdTake /\ txd.i = s /\ tx_list[s] # << >>
            /\ tx_list'[s] = Tail(tx_list[s])
         \/ /\ \E d \in DelayOffsets : PrInsertDelayed(d)
            /\ pr.i = s /\ tx_list'[s] = slib_insert_and_sort(tx_list[s], pr.b, LeaveOf')
<1> DEFINE Goal == \/ tx_list'[s] = tx_list[s]
                   \/ /\ TxdTake /\ txd.i = s /\ tx_list[s] # << >>
                      /\ tx_list'[s] = Tail(tx_list[s])
                   \/ /\ \E d \in DelayOffsets : PrInsertDelayed(d)
                      /\ pr.i = s
                      /\ tx_list'[s] = slib_insert_and_sort(tx_list[s], pr.b, LeaveOf')
<1>1. s \in Streams /\ tx_list \in [Streams -> Seq(Buffers)]
  BY CoreAssumption DEF TypeOK, ListType
<1>2. CASE RxNext
  BY <1>2
  DEF RxNext, RxAllocFails, RxNothing, RxFrame, RxAdd, RxAddFails, RxPost
<1>3. CASE PrNext
  <2>1. ASSUME NEW d \in DelayOffsets, PrInsertDelayed(d) PROVE Goal
    <3>1. tx_list'[s] = IF s = pr.i THEN slib_insert_and_sort(tx_list[s], pr.b, LeaveOf')
                        ELSE tx_list[s]
      BY <1>1, <2>1 DEF PrInsertDelayed
    <3> QED  BY <2>1, <3>1
  <2>2. CASE PrInsert
    BY <1>1, <2>2 DEF PrInsert
  <2>3. ASSUME \/ PrWait \/ PrCount \/ PrTake \/ PrDiscard \/ PrInsertFails
               \/ PrPost \/ PrShow \/ PrArm \/ PrArmFaults
        PROVE  Goal
    BY <2>3
    DEF PrWait, PrCount, PrTake, PrDiscard, PrInsertFails, PrGiveUp, PrPost,
        PrShow, PrArm, PrArmFaults
  <2> QED  BY <1>3, <2>1, <2>2, <2>3 DEF PrNext
<1>4. CASE TxNext
  <2>1. CASE TxTake
    BY <1>1, <2>1 DEF TxTake
  <2> QED  BY <1>4, <2>1 DEF TxNext, TxWait, TxSkip, TxSend, TxExhausted
<1>5. CASE TxdNext
  <2>1. CASE TxdTake
    BY <1>1, <2>1 DEF TxdTake
  <2> QED  BY <1>5, <2>1 DEF TxdNext, TxdRead, TxdNothing, TxdSend, TxdShow, TxdArm
<1>6. CASE Tick \/ UNCHANGED vars
  BY <1>6 DEF Tick, vars
<1> QED  BY <1>2, <1>3, <1>4, <1>5, <1>6 DEF Next, Halted

\* The packets of a delayed stream are queued in departure order.
SortedInv == \A s \in Delayed : InOrder(tx_list[s], LeaveOf, FrameOf)

\* Every step keeps that order.
LEMMA SortedStep ==
  ASSUME NEW R, EmulatorInvOf(R), SortedInv, [Next]_vars
  PROVE  SortedInv'
<1> USE DEF EmulatorInvOf
<1> SUFFICES ASSUME NEW s \in Delayed
             PROVE  InOrder(tx_list'[s], LeaveOf', FrameOf')
  BY DEF SortedInv
<1>1. /\ s \in Streams /\ InOrder(tx_list[s], LeaveOf, FrameOf)
      /\ tx_list[s] \in Seq(Buffers) /\ ToSet(tx_list[s]) \subseteq Buffers
  BY CoreAssumption, PacketTypes DEF SortedInv
<1>2. TypeOK'
  BY NextType
<1>3. /\ LeaveOf' \in [Buffers -> Timespec] /\ FrameOf' \in [Buffers -> Nat]
      /\ \A b \in Buffers : LeaveOf'[b] = pkt'[b].leave /\ FrameOf'[b] = pkt'[b].frame
  <2>1. \A b \in Buffers : pkt'[b] \in Packet
    BY <1>2 DEF TypeOK, HeapType
  <2> QED  BY <2>1 DEF LeaveOf, FrameOf, Packet
<1>4. \A b \in ToSet(tx_list[s]) : LeaveOf'[b] = LeaveOf[b] /\ FrameOf'[b] = FrameOf[b]
  <2>1. \A b \in ToSet(tx_list[s]) : b \in Buffers /\ pkt'[b] = pkt[b]
    BY <1>1, QueuedKept
  <2> QED  BY <1>3, <2>1, PacketTypes
<1>5. InOrder(tx_list[s], LeaveOf', FrameOf')
  BY <1>1, <1>4, SameOrder
<1>6. CASE tx_list[s] # << >> /\ tx_list'[s] = Tail(tx_list[s])
  BY <1>1, <1>5, <1>6, TailInOrder
<1>7. ASSUME NEW d \in DelayOffsets, PrInsertDelayed(d), pr.i = s,
             tx_list'[s] = slib_insert_and_sort(tx_list[s], pr.b, LeaveOf')
      PROVE  InOrder(tx_list'[s], LeaveOf', FrameOf')
  <2>1. pr.pc = "process" /\ pr.b \in Buffers
    BY <1>7 DEF PrInsertDelayed, TypeOK, PrType
  <2>2. FrameOf' = FrameOf
    <3>1. pkt' = [pkt EXCEPT ![pr.b].leave = p_emu_delay_calculate(pkt[pr.b].arrival, d)]
      BY <1>7 DEF PrInsertDelayed
    <3>2. \A b \in Buffers : pkt'[b].frame = pkt[b].frame
      BY <2>1, <3>1 DEF TypeOK, HeapType, Packet
    <3> QED  BY <3>2 DEF FrameOf
  <2>3. \A x \in ToSet(tx_list[s]) : FrameOf[x] < FrameOf[pr.b]
    <3>1. Stages(s)[2] = ToSet(tx_list[s]) /\ Stages(s)[3] = {pr.b}
      BY <1>7, <2>1 DEF Stages
    <3> QED  BY <1>1, <3>1 DEF FifoInv, FifoOf, Ordered
  <2> QED  BY <1>1, <1>3, <1>5, <1>7, <2>1, <2>2, <2>3, InsertInOrder
<1> QED  BY <1>5, <1>6, <1>7, DelayedList

\* What the run checks.
LEMMA SortedMeans ==
  ASSUME HeapType, ListType
  PROVE  SortedInv => TxListSorted
<1> SUFFICES ASSUME SortedInv, NEW s \in Delayed,
                    NEW m \in 1..Len(tx_list[s]), NEW n \in 1..Len(tx_list[s]), m < n
             PROVE  LET p == pkt[tx_list[s][m]]
                        q == pkt[tx_list[s][n]]
                    IN  \/ TimevalLess(p.leave, q.leave)
                        \/ ~TimevalLess(q.leave, p.leave) /\ p.frame < q.frame
  BY DEF TxListSorted
<1>1. s \in Streams /\ tx_list[s] \in Seq(Buffers)
  BY CoreAssumption DEF ListType
<1>2. tx_list[s][m] \in Buffers /\ tx_list[s][n] \in Buffers
  BY <1>1, ElementOfSeq
<1>3. Before(tx_list[s][m], tx_list[s][n], LeaveOf, FrameOf)
  BY DEF SortedInv, InOrder
<1> QED  BY <1>2, <1>3, HeapTypes DEF Before

\* The lists are empty at the start.
LEMMA SortedInit == Init => SortedInv
<1> SUFFICES ASSUME Init, NEW s \in Delayed PROVE InOrder(tx_list[s], LeaveOf, FrameOf)
  BY DEF SortedInv
<1>1. tx_list[s] = << >>
  BY CoreAssumption DEF Init
<1>2. Len(tx_list[s]) = 0
  BY <1>1
<1> QED  BY <1>2 DEF InOrder

\* The invariant of EmulatorProofs and the order of the delayed lists.
SortingInv == EmulatorInv /\ SortedInv

\* Together they are inductive.
LEMMA SortingAlways == Spec => []SortingInv
<1>1. Init => SortingInv
  BY EmulatorInit, SortedInit DEF SortingInv
<1>2. SortingInv /\ [Next]_vars => SortingInv'
  BY EmulatorStep, SortedStep DEF SortingInv, EmulatorInv
<1> QED  BY <1>1, <1>2, PTL DEF Spec

\* Whatever the delays, the interleaving of the processing and the transmit
\* thread, and the carries and truncations of the time arithmetic: the tx_list of
\* a delayed stream is in departure order, ties in the order of arrival.
THEOREM DelayedListsSorted == Spec => []TxListSorted
<1>1. SortingInv => TxListSorted
  BY SortedMeans DEF SortingInv, EmulatorInv, EmulatorInvOf, TypeOK
<1> QED  BY <1>1, SortingAlways, PTL

-----------------------------------------------------------------------------
(* The clock                                                               *)

\* Quotients are ordered as products are.
LEMMA Multiples ==
  ASSUME NEW N \in Nat \ {0}, NEW p \in Nat, NEW q \in Nat, p < q
  PROVE  N * p \in Nat /\ N * q \in Nat /\ N * p + N <= N * q
<1>1. q - (p + 1) \in Nat /\ q = (q - (p + 1)) + (p + 1)
  OBVIOUS
<1>2. PICK d \in Nat : q = d + p + 1
  BY <1>1
<1>3. N * q = N * d + N * p + N
  BY <1>2
<1> DEFINE x == N * d
           y == N * p
<1>4. x \in Nat /\ y \in Nat
  OBVIOUS
<1>5. N * q = x + y + N
  BY <1>3
<1> HIDE DEF x, y
<1>6. N * q \in Nat /\ y + N <= N * q
  BY <1>4, <1>5
<1> QED  BY <1>4, <1>6 DEF y

\* Division with a remainder.
LEMMA Remainder ==
  ASSUME NEW N \in Nat \ {0}, NEW n \in Nat
  PROVE  /\ n \div N \in Nat /\ n % N \in 0..(N - 1)
         /\ n = N * (n \div N) + (n % N)
         /\ \A q \in Nat : \A r \in 0..(N - 1) : n = N * q + r => n \div N = q /\ n % N = r
<1>1. n \div N \in Nat /\ n % N \in 0..(N - 1) /\ n = N * (n \div N) + (n % N)
  OBVIOUS
<1>2. ASSUME NEW q \in Nat, NEW r \in 0..(N - 1), n = N * q + r
      PROVE  n \div N = q /\ n % N = r
  <2>1. PICK p \in Nat, m \in 0..(N - 1) : p = n \div N /\ m = n % N /\ n = N * p + m
    BY <1>1
  <2>2. ~(p < q)
    <3> SUFFICES ASSUME p < q PROVE FALSE
      OBVIOUS
    <3>1. N * p \in Nat /\ N * q \in Nat /\ N * p + N <= N * q
      BY Multiples
    <3> DEFINE x == N * p
               y == N * q
    <3>2. x \in Nat /\ y \in Nat /\ x + N <= y /\ y + r = x + m
      BY <1>2, <2>1, <3>1
    <3> HIDE DEF x, y
    <3> QED  BY <3>2
  <2>3. ~(q < p)
    <3> SUFFICES ASSUME q < p PROVE FALSE
      OBVIOUS
    <3>1. N * p \in Nat /\ N * q \in Nat /\ N * q + N <= N * p
      BY Multiples
    <3> DEFINE x == N * p
               y == N * q
    <3>2. x \in Nat /\ y \in Nat /\ y + N <= x /\ y + r = x + m
      BY <1>2, <2>1, <3>1
    <3> HIDE DEF x, y
    <3> QED  BY <3>2
  <2>4. p = q
    BY <2>2, <2>3
  <2>5. N * q \in Nat
    BY <2>4
  <2>6. m = r
    BY <1>2, <2>1, <2>4, <2>5
  <2> QED  BY <2>1, <2>4, <2>6
<1> QED  BY <1>1, <1>2

\* Truncation to microseconds keeps the order.
LEMMA UsecOrder ==
  ASSUME NEW i \in Nat, NEW j \in Nat, i <= j
  PROVE  ~(Usec(j) < Usec(i))
<1> DEFINE U == NsPerUs
<1>1. U \in Nat \ {0}
  BY TimeUnits
<1>2. Usec(i) = i \div U /\ Usec(j) = j \div U
  BY DEF Usec
<1> HIDE DEF U
<1>3. PICK a \in Nat, c \in 0..(U - 1) : a = i \div U /\ c = i % U /\ i = U * a + c
  BY <1>1, Remainder
<1>4. PICK b \in Nat, d \in 0..(U - 1) : b = j \div U /\ d = j % U /\ j = U * b + d
  BY <1>1, Remainder
<1>5. ~(b < a)
  <2> SUFFICES ASSUME b < a PROVE FALSE
    OBVIOUS
  <2>1. U * a \in Nat /\ U * b \in Nat /\ U * b + U <= U * a
    BY <1>1, Multiples
  <2> DEFINE x == U * a
             y == U * b
  <2>2. x \in Nat /\ y \in Nat /\ y + U <= x /\ x + c <= y + d
    BY <1>3, <1>4, <2>1
  <2> HIDE DEF x, y
  <2> QED  BY <1>1, <2>2
<1> QED  BY <1>2, <1>3, <1>4, <1>5

\* The clock never goes back, to the microsecond.
LEMMA ClockOrder ==
  ASSUME NEW m \in Nat, NEW n \in Nat, m <= n
  PROVE  ~TimevalLess(clock_gettime(n), clock_gettime(m))
<1> DEFINE N == NsPerSec
<1>1. N \in Nat \ {0}
  BY TimeUnits
<1> HIDE DEF N
<1>2. PICK p \in Nat, i \in 0..(N - 1) : p = m \div N /\ i = m % N /\ m = N * p + i
  BY <1>1, Remainder
<1>3. PICK q \in Nat, j \in 0..(N - 1) : q = n \div N /\ j = n % N /\ n = N * q + j
  BY <1>1, Remainder
<1>4. clock_gettime(m) = [sec |-> p, nsec |-> i] /\ clock_gettime(n) = [sec |-> q, nsec |-> j]
  BY <1>2, <1>3 DEF clock_gettime, N
<1>5. ~(q < p)
  <2> SUFFICES ASSUME q < p PROVE FALSE
    OBVIOUS
  <2>1. N * p \in Nat /\ N * q \in Nat /\ N * q + N <= N * p
    BY <1>1, Multiples
  <2> DEFINE x == N * p
             y == N * q
  <2>2. x \in Nat /\ y \in Nat /\ y + N <= x /\ x + i <= y + j
    BY <1>2, <1>3, <2>1
  <2> HIDE DEF x, y
  <2> QED  BY <1>1, <2>2
<1>6. p = q => i <= j
  <2>1. N * p \in Nat
    BY <1>1
  <2> QED  BY <1>1, <1>2, <1>3, <2>1
<1>7. i <= j => ~(Usec(j) < Usec(i))
  BY <1>1, UsecOrder
<1> QED  BY <1>4, <1>5, <1>6, <1>7 DEF TimevalLess

\* A time that timerfd_settime accepts is the clock's reading at its instant.
LEMMA ClockReads ==
  ASSUME NEW t \in Timespec, SettimeAccepts(t)
  PROVE  /\ Instant(t) \in Nat
         /\ clock_gettime(Instant(t)) = t
         /\ Instant(t) = 0 => t = Zero
<1>1. /\ NsPerSec \in Nat \ {0} /\ t.sec \in Nat /\ t.nsec \in 0..(NsPerSec - 1)
      /\ t = [sec |-> t.sec, nsec |-> t.nsec]
  BY TimeUnits DEF SettimeAccepts, Timespec
<1>2. Instant(t) = NsPerSec * t.sec + t.nsec
  BY <1>1 DEF Instant
<1>3. Instant(t) \in Nat
  BY InstantType
<1>4. Instant(t) \div NsPerSec = t.sec /\ Instant(t) % NsPerSec = t.nsec
  BY <1>1, <1>2, <1>3, Remainder
<1>5. ASSUME Instant(t) = 0 PROVE t = Zero
  <2>1. 0 = NsPerSec * 0 + 0 /\ 0 \in 0..(NsPerSec - 1)
    BY <1>1
  <2>2. t.sec = 0 /\ t.nsec = 0
    BY <1>1, <1>4, <1>5, <2>1, Remainder
  <2> QED  BY <1>1, <2>2 DEF Zero
<1> QED  BY <1>1, <1>3, <1>4, <1>5 DEF clock_gettime

-----------------------------------------------------------------------------
(* Timers                                                                  *)

\* timerfd_settime refuses the departure time of no queued packet, and none is
\* the time that disarms.  A time is refused when p_emu_delay_calculate leaves
\* tv_nsec negative or at NsPerSec, and the timer then stays as it was.
DeparturesAccepted ==
    \A s \in Delayed : \A b \in ToSet(tx_list[s]) :
      SettimeAccepts(pkt[b].leave) /\ pkt[b].leave # Zero

\* The first packet of s has reached its departure time at instant t.
Due(s, t) ==
    /\ tx_list[s] # << >>
    /\ ~TimevalLess(clock_gettime(t), LeaveOf[Head(tx_list[s])])

\* p_emu_TxThread_Delayed has consumed an expiration of s and has yet to decide
\* about the next.
Working(s) == txd.pc # "read" /\ txd.i = s

\* p_emu_PrThread has yet to arm the timer of s.
PrArming(s) == pr.pc \in {"show", "arm"} /\ pr.i = s

\* A packet shown to a thread by slib_show_first is where the thread thinks.
ShownInv(s) ==
    /\ txd.pc = "arm" /\ txd.i = s => txd.b \in ToSet(tx_list[s])
    /\ pr.pc = "arm" /\ pr.i = s /\ pr.b \in ToSet(tx_list[s]) => pr.b = Head(tx_list[s])

\* A timer that runs is not early for the first packet, and neither is the
\* thread that acts on its expiration.
TimerRight(s) ==
    /\ Covered(s)
    /\ timer[s] # 0 /\ ~Working(s) => Due(s, timer[s])
    /\ txd.pc = "take" /\ txd.i = s => Due(s, now)
    /\ txd.pc = "send" /\ txd.i = s =>
         ~TimevalLess(clock_gettime(now), LeaveOf[txd.b])

TimerInv == \A s \in Delayed : ShownInv(s) /\ (s \notin outlived => TimerRight(s))

\* What has been reached stays so.
LEMMA ReachedStays ==
  ASSUME NEW m \in Nat, NEW n \in Nat, m <= n, NEW t \in Timespec,
         ~TimevalLess(clock_gettime(m), t)
  PROVE  ~TimevalLess(clock_gettime(n), t)
<1>1. clock_gettime(m) \in Timespec /\ clock_gettime(n) \in Timespec
  BY ClockType
<1>2. ~TimevalLess(clock_gettime(n), clock_gettime(m))
  BY ClockOrder
<1> QED  BY <1>1, <1>2, TimevalOrder

\* The types after a step.
LEMMA TypesThen ==
  ASSUME TypeOK, [Next]_vars
  PROVE  /\ TypeOK'
         /\ LeaveOf' \in [Buffers -> Timespec] /\ FrameOf' \in [Buffers -> Nat]
         /\ \A b \in Buffers : LeaveOf'[b] = pkt'[b].leave /\ FrameOf'[b] = pkt'[b].frame
         /\ \A s \in Streams : tx_list'[s] \in Seq(Buffers)
<1>1. TypeOK'
  BY NextType
<1>2. \A b \in Buffers : pkt'[b] \in Packet
  BY <1>1 DEF TypeOK, HeapType
<1>3. \A s \in Streams : tx_list'[s] \in Seq(Buffers)
  BY <1>1 DEF TypeOK, ListType
<1> QED  BY <1>1, <1>2, <1>3 DEF LeaveOf, FrameOf, Packet

\* The first packet stays due when others join it: one that passes it leaves
\* even earlier.
LEMMA DueKept ==
  ASSUME NEW R, EmulatorInvOf(R), SortedInv, [Next]_vars, NEW s \in Delayed,
         NEW t \in Nat, Due(s, t), ~(TxdTake /\ txd.i = s)
  PROVE  /\ tx_list'[s] # << >>
         /\ ~TimevalLess(clock_gettime(t), LeaveOf'[Head(tx_list'[s])])
<1> USE DEF EmulatorInvOf
<1> DEFINE h == Head(tx_list[s])
<1>1. /\ s \in Streams /\ tx_list[s] \in Seq(Buffers) /\ tx_list[s] # << >>
      /\ ~TimevalLess(clock_gettime(t), LeaveOf[h])
  BY CoreAssumption DEF Due, TypeOK, ListType
<1>2. h \in ToSet(tx_list[s]) /\ h \in Buffers
  <2>1. Len(tx_list[s]) \in Nat \ {0} /\ h = tx_list[s][1]
    BY <1>1, HeadTailProperties, LenProperties, EmptySeq
  <2> QED  BY <1>1, <2>1, HeadTailProperties, LenProperties DEF ToSet
<1>3. LeaveOf'[h] = LeaveOf[h] /\ LeaveOf'[h] \in Timespec
  BY <1>1, <1>2, QueuedKept, PacketTypes, TypesThen
<1>4. CASE tx_list'[s] = tx_list[s]
  BY <1>1, <1>3, <1>4
<1>5. ASSUME NEW d \in DelayOffsets, PrInsertDelayed(d), pr.i = s,
             tx_list'[s] = slib_insert_and_sort(tx_list[s], pr.b, LeaveOf')
      PROVE  /\ tx_list'[s] # << >>
             /\ ~TimevalLess(clock_gettime(t), LeaveOf'[Head(tx_list'[s])])
  <2>1. pr.b \in Buffers
    BY <1>5 DEF PrInsertDelayed, TypeOK, PrType
  <2>2. h \in ToSet(tx_list'[s])
    BY <1>1, <1>2, <1>5, <2>1, InsertPlaces
  <2>3. tx_list'[s] \in Seq(Buffers) /\ LeaveOf' \in [Buffers -> Timespec]
    BY <1>1, TypesThen
  <2>4. InOrder(tx_list'[s], LeaveOf', FrameOf')
    BY SortedStep DEF SortedInv
  <2>5. /\ tx_list'[s] # << >> /\ Head(tx_list'[s]) \in ToSet(tx_list'[s])
        /\ ~TimevalLess(LeaveOf'[h], LeaveOf'[Head(tx_list'[s])])
    BY <2>2, <2>3, <2>4, HeadFirst
  <2>6. LeaveOf'[Head(tx_list'[s])] \in Timespec
    BY <2>3, <2>5, HeadTailProperties
  <2>7. clock_gettime(t) \in Timespec
    BY ClockType
  <2> QED  BY <1>1, <1>3, <2>5, <2>6, <2>7, TimevalOrder
<1> QED  BY <1>4, <1>5, DelayedList

\* A step that does not act on the timer of s.
LEMMA TimerQuiet ==
  ASSUME NEW R, EmulatorInvOf(R), SortedInv, [Next]_vars, NEW s \in Delayed,
         TimerRight(s), tx_list[s] # << >> => ~(TxdTake /\ txd.i = s),
         timer'[s] = timer[s], now <= now',
         UNCHANGED txd \/ (~Working(s) /\ ~Working(s)'),
         PrArming(s) => PrArming(s)',
         tx_list[s] = << >> => tx_list'[s] = << >> \/ PrArming(s)'
  PROVE  TimerRight(s)'
<1> USE DEF EmulatorInvOf
<1>1. now \in Nat /\ now' \in Nat /\ timer[s] \in Nat /\ s \in Streams
  BY TypesThen, CoreAssumption DEF TypeOK, TimerType
<1>2. Working(s)' => UNCHANGED txd /\ Working(s)
  BY DEF Working
<1>3. Covered(s)'
  <2>1. Arming(s) <=> PrArming(s) \/ Working(s)
    BY DEF Arming, PrArming, Working, TypeOK, TxdType
  <2>2. PrArming(s)' \/ Working(s)' => Arming(s)'
    BY TypesThen DEF Arming, PrArming, Working, TypeOK, TxdType
  <2>3. Working(s) => Working(s)'
    BY DEF Working
  <2> QED  BY <2>1, <2>2, <2>3 DEF TimerRight, Covered
<1>4. timer'[s] # 0 /\ ~Working(s)' => Due(s, timer[s])'
  <2> SUFFICES ASSUME timer'[s] # 0, ~Working(s)' PROVE Due(s, timer[s])'
    OBVIOUS
  <2>1. ~Working(s)
    BY DEF Working
  <2>2. Due(s, timer[s])
    BY <2>1 DEF TimerRight
  <2>3. PICK t \in Nat : t = timer[s]
    BY <1>1
  <2>4. /\ tx_list'[s] # << >>
        /\ ~TimevalLess(clock_gettime(t), LeaveOf'[Head(tx_list'[s])])
    <3>1. Due(s, t) /\ ~(TxdTake /\ txd.i = s)
      BY <2>2, <2>3 DEF Due
    <3> QED  BY <3>1, DueKept
  <2> QED  BY <2>3, <2>4 DEF Due
<1>5. ASSUME txd'.pc = "take", txd'.i = s PROVE Due(s, now)'
  <2>1. UNCHANGED txd
    BY <1>2, <1>5 DEF Working
  <2>2. PICK t \in Nat : t = now
    BY <1>1
  <2>3. Due(s, t)
    BY <1>5, <2>1, <2>2 DEF TimerRight
  <2>4. /\ tx_list'[s] # << >>
        /\ ~TimevalLess(clock_gettime(t), LeaveOf'[Head(tx_list'[s])])
    <3>1. Due(s, t) /\ ~(TxdTake /\ txd.i = s)
      BY <2>3 DEF Due
    <3> QED  BY <3>1, DueKept
  <2>5. LeaveOf'[Head(tx_list'[s])] \in Timespec
    BY <1>1, <2>4, TypesThen, HeadTailProperties
  <2>6. ~TimevalLess(clock_gettime(now'), LeaveOf'[Head(tx_list'[s])])
    BY <1>1, <2>2, <2>4, <2>5, ReachedStays
  <2> QED  BY <2>4, <2>6 DEF Due
<1>6. ASSUME txd'.pc = "send", txd'.i = s
      PROVE  ~TimevalLess(clock_gettime(now), LeaveOf[txd.b])'
  <2>1. UNCHANGED txd
    BY <1>2, <1>6 DEF Working
  <2>2. ~TimevalLess(clock_gettime(now), LeaveOf[txd.b]) /\ txd.b \in Buffers
    BY <1>6, <2>1 DEF TimerRight, TypeOK, TxdType
  <2>3. LeaveOf'[txd.b] = LeaveOf[txd.b] /\ LeaveOf[txd.b] \in Timespec
    BY <1>6, <2>1, <2>2, QueuedKept, PacketTypes, TypesThen
  <2> QED  BY <1>1, <2>1, <2>2, <2>3, ReachedStays
<1> QED  BY <1>3, <1>4, <1>5, <1>6 DEF TimerRight

\* Which thread moves.
LEMMA WhoMoves ==
  ASSUME [Next]_vars
  PROVE  /\ txd' = txd \/ TxdNext
         /\ pr' = pr \/ PrNext
         /\ timer' = timer \/ PrNext \/ TxdNext
         /\ outlived' = outlived \/ PrArm \/ TxdShow
         /\ early' = early \/ \E r \in SendResults : TxdSend(r)
<1>1. CASE RxNext
  BY <1>1 DEF RxNext, RxAllocFails, RxNothing, RxFrame, RxAdd, RxAddFails, RxPost, history
<1>2. CASE PrNext
  BY <1>2
  DEF PrNext, PrWait, PrCount, PrTake, PrDiscard, PrInsertFails, PrGiveUp, PrInsert, PrPost,
      PrInsertDelayed, PrShow, PrArm, PrArmFaults, threadVars, history
<1>3. CASE TxNext
  BY <1>3 DEF TxNext, TxWait, TxSkip, TxTake, TxSend, TxExhausted, threadVars, history
<1>4. CASE TxdNext
  BY <1>4 DEF TxdNext, TxdRead, TxdNothing, TxdTake, TxdSend, TxdShow, TxdArm, history
<1>5. CASE Tick \/ UNCHANGED vars
  BY <1>5 DEF Tick, vars, threadVars, history
<1> QED  BY <1>1, <1>2, <1>3, <1>4, <1>5 DEF Next, Halted

\* Time only passes.
LEMMA ClockSteps ==
  ASSUME TypeOK, [Next]_vars
  PROVE  now \in Nat /\ now' \in Nat /\ now <= now' /\ (now' = now \/ Tick)
<1>1. now \in Nat /\ now' \in Nat
  BY TypesThen DEF TypeOK, TimerType
<1>2. Tick \/ now' = now
  BY DEF Next, Halted, vars, RxNext, RxAllocFails, RxNothing, RxFrame, RxAdd, RxAddFails,
         RxPost, PrNext, PrWait, PrCount, PrTake, PrDiscard, PrInsertFails, PrGiveUp,
         PrInsert, PrPost, PrInsertDelayed, PrShow, PrArm, PrArmFaults,
         TxNext, TxWait, TxSkip, TxTake, TxSend, TxExhausted,
         TxdNext, TxdRead, TxdNothing, TxdTake, TxdSend, TxdShow, TxdArm
<1> QED  BY <1>1, <1>2 DEF Tick

\* The packets shown stay where they are, or are gone.
LEMMA ShownStep ==
  ASSUME NEW R, EmulatorInvOf(R), [Next]_vars, NEW s \in Delayed, ShownInv(s)
  PROVE  ShownInv(s)'
<1> USE DEF EmulatorInvOf
<1>1. /\ s \in Streams /\ tx_list[s] \in Seq(Buffers) /\ NoTwice(tx_list[s])
  BY CoreAssumption, ListTwice DEF TypeOK, ListType
<1>2. tx_list[s] # << >> =>
        /\ Head(tx_list[s]) \in ToSet(tx_list[s])
        /\ ToSet(Tail(tx_list[s])) = ToSet(tx_list[s]) \ {Head(tx_list[s])}
  BY <1>1, TailPlaces
<1>3. ASSUME txd'.pc = "arm", txd'.i = s PROVE txd'.b \in ToSet(tx_list'[s])
  <2>1. CASE txd' = txd
    <3>1. txd.b \in ToSet(tx_list[s])
      BY <1>3, <2>1 DEF ShownInv
    <3>2. CASE tx_list'[s] = tx_list[s]
      BY <2>1, <3>1, <3>2
    <3>3. ASSUME NEW d \in DelayOffsets, PrInsertDelayed(d),
                 tx_list'[s] = slib_insert_and_sort(tx_list[s], pr.b, LeaveOf')
          PROVE  txd.b \in ToSet(tx_list'[s])
      <4>1. pr.b \in Buffers
        BY <3>3 DEF PrInsertDelayed, TypeOK, PrType
      <4>2. ToSet(tx_list'[s]) = ToSet(tx_list[s]) \union {pr.b}
        BY <1>1, <3>3, <4>1, InsertPlaces
      <4> QED  BY <3>1, <4>2
    <3>4. ~(TxdTake /\ tx_list[s] # << >> /\ txd.i = s)
      BY <1>3, <2>1 DEF TxdTake
    <3> QED  BY <2>1, <3>2, <3>3, <3>4, DelayedList
  <2>2. CASE TxdShow
    <3>1. /\ txd.pc = "show" /\ txd.i = s /\ UNCHANGED tx_list
          /\ tx_list[s] # << >> /\ txd'.b = Head(tx_list[s])
      <4>1. TxdAdvance => txd'.pc = "read"
        BY DEF TxdAdvance
      <4>2. tx_list[txd.i] # << >> /\ txd' = [txd EXCEPT !.pc = "arm", !.b = Head(tx_list[txd.i])]
        BY <1>3, <2>2, <4>1 DEF TxdShow
      <4> QED  BY <1>3, <2>2, <4>2 DEF TxdShow, TypeOK, TxdType
    <3> QED  BY <1>2, <3>1
  <2>3. TxdNext => TxdShow \/ txd' = txd
    <3>1. TxdAdvance => txd'.pc # "arm"
      BY DEF TxdAdvance
    <3>2. TxdRead => txd'.pc # "arm"
      BY DEF TxdRead, TypeOK, TxdType
    <3>3. TxdTake => txd'.pc # "arm" \/ txd' = txd
      BY DEF TxdTake, TypeOK, TxdType
    <3>4. ASSUME NEW r \in SendResults, TxdSend(r) PROVE txd'.pc # "arm"
      BY <3>4 DEF TxdSend, TypeOK, TxdType
    <3> QED  BY <1>3, <3>1, <3>2, <3>3, <3>4 DEF TxdNext, TxdNothing, TxdArm
  <2> QED  BY <2>1, <2>2, <2>3, WhoMoves
<1>4. ASSUME pr'.pc = "arm", pr'.i = s, pr'.b \in ToSet(tx_list'[s])
      PROVE  pr'.b = Head(tx_list'[s])
  <2>1. CASE pr' = pr
    <3>1. pr.pc = "arm" /\ ~(\E d \in DelayOffsets : PrInsertDelayed(d))
      BY <1>4, <2>1 DEF PrInsertDelayed
    <3>2. CASE tx_list'[s] = tx_list[s]
      BY <1>4, <2>1, <3>2 DEF ShownInv
    <3>3. CASE tx_list[s] # << >> /\ tx_list'[s] = Tail(tx_list[s])
      BY <1>2, <1>4, <2>1, <3>3 DEF ShownInv
    <3> QED  BY <3>1, <3>2, <3>3, DelayedList
  <2>2. CASE PrShow
    <3>1. pr.pc = "show" /\ pr.i = s /\ UNCHANGED tx_list /\ pr'.b = Head(tx_list[s])
      BY <1>4, <2>2 DEF PrShow, TypeOK, PrType
    <3> QED  BY <3>1
  <2>3. PrNext => PrShow \/ pr' = pr
    <3>1. PrAdvance => pr'.pc # "arm"
      BY DEF PrAdvance, PrWaiting, TypeOK, PrType
    <3>2. PrWait => pr'.pc # "arm"
      BY DEF PrWait
    <3>3. PrCount => pr'.pc # "arm"
      BY <3>1 DEF PrCount, TypeOK, PrType
    <3>4. PrTake => pr'.pc # "arm" \/ pr' = pr
      BY DEF PrTake, TypeOK, PrType
    <3>5. PrInsert => pr'.pc # "arm"
      BY DEF PrInsert, TypeOK, PrType
    <3>6. ASSUME NEW d \in DelayOffsets, PrInsertDelayed(d) PROVE pr'.pc # "arm"
      BY <3>6 DEF PrInsertDelayed, TypeOK, PrType
    <3> QED  BY <1>4, <3>1, <3>2, <3>3, <3>4, <3>5, <3>6
             DEF PrNext, PrDiscard, PrInsertFails, PrGiveUp, PrPost, PrArm, PrArmFaults,
                 threadVars
  <2> QED  BY <2>1, <2>2, <2>3, WhoMoves
<1> QED  BY <1>3, <1>4 DEF ShownInv

\* The timer armed for a queued packet whose departure time is accepted.
LEMMA TimerArmed ==
  ASSUME NEW R, EmulatorInvOf(R), SortedInv, DeparturesAccepted, [Next]_vars,
         NEW s \in Delayed, NEW b \in ToSet(tx_list[s]),
         p_emu_timer_start(s, pkt[b].leave), UNCHANGED << tx_list, pkt >>
  PROVE  timer'[s] # 0 /\ Due(s, timer[s])'
<1> USE DEF EmulatorInvOf
<1>1. /\ s \in Streams /\ tx_list[s] \in Seq(Buffers) /\ b \in Buffers
      /\ LeaveOf \in [Buffers -> Timespec] /\ LeaveOf' = LeaveOf /\ LeaveOf[b] = pkt[b].leave
  BY CoreAssumption, PacketTypes DEF LeaveOf
<1> DEFINE t == pkt[b].leave
<1>2. t \in Timespec /\ SettimeAccepts(t) /\ t # Zero
  BY <1>1 DEF DeparturesAccepted
<1> HIDE DEF t
<1>3. Instant(t) \in Nat /\ Instant(t) # 0 /\ clock_gettime(Instant(t)) = t
  BY <1>2, ClockReads
<1>4. timer'[s] = Instant(t)
  BY <1>1, <1>2 DEF p_emu_timer_start, TypeOK, TimerType, t
<1>5. /\ tx_list[s] # << >>
      /\ ~TimevalLess(LeaveOf[b], LeaveOf[Head(tx_list[s])])
  BY <1>1, HeadFirst DEF SortedInv
<1> QED  BY <1>1, <1>3, <1>4, <1>5 DEF Due, t

\* A step of p_emu_PrThread.
LEMMA TimerByPr ==
  ASSUME NEW R, EmulatorInvOf(R), SortedInv, DeparturesAccepted, PrNext, NEW s \in Delayed,
         s \notin outlived', ShownInv(s), TimerRight(s)
  PROVE  TimerRight(s)'
<1> USE DEF EmulatorInvOf
<1>1. /\ [Next]_vars /\ s \in Streams /\ timer \in [Streams -> Nat]
      /\ now <= now' /\ pr.i \in Streams
  BY CoreAssumption, ClockSteps DEF Next, TypeOK, TimerType, PrType
<1>2. UNCHANGED txd /\ (tx_list[s] # << >> => ~(TxdTake /\ txd.i = s))
  <2>1. UNCHANGED txd
    BY DEF PrNext, PrWait, PrCount, PrTake, PrDiscard, PrInsertFails, PrGiveUp, PrInsert,
           PrPost, PrInsertDelayed, PrShow, PrArm, PrArmFaults, threadVars
  <2>2. TxdTake /\ txd.i = s /\ tx_list[s] # << >> => txd.pc = "take" /\ txd'.pc = "send"
    BY DEF TxdTake, TypeOK, TxdType
  <2> QED  BY <2>1, <2>2
<1>3. CASE PrArm /\ pr.i = s
  <2>1. Contains(tx_list[s], pr.b) /\ pr.pc = "arm"
    BY <1>3 DEF PrArm, ShownIsGone
  <2>2. pr.b \in ToSet(tx_list[s])
    BY <1>1, <2>1, LenProperties DEF Contains, ToSet, TypeOK, ListType
  <2>3. /\ p_emu_timer_start(s, pkt[pr.b].leave)
        /\ UNCHANGED << tx_list, pkt, txd, now >>
    BY <1>3 DEF PrArm, heapVars
  <2>4. timer'[s] # 0 /\ Due(s, timer[s])'
    BY <1>1, <2>2, <2>3, TimerArmed
  <2> QED  BY <2>3, <2>4 DEF TimerRight, Covered, Due, Working, LeaveOf
<1>4. CASE ~(PrArm /\ pr.i = s)
  <2>1. timer'[s] = timer[s]
    BY <1>1, <1>4
    DEF PrNext, PrWait, PrCount, PrTake, PrDiscard, PrInsertFails, PrGiveUp, PrInsert,
        PrPost, PrInsertDelayed, PrShow, PrArm, PrArmFaults, p_emu_timer_start
  <2>2. PrArming(s) => PrArming(s)'
    <3> SUFFICES ASSUME PrArming(s) PROVE PrArming(s)'
      OBVIOUS
    <3>1. PrShow \/ PrArmFaults
      BY <1>4
      DEF PrArming, PrNext, PrWait, PrCount, PrTake, PrDiscard, PrInsertFails, PrInsert,
          PrPost, PrInsertDelayed, PrArm
    <3> QED  BY <3>1 DEF PrArming, PrShow, PrArmFaults, threadVars, TypeOK, PrType
  <2>3. tx_list[s] = << >> => tx_list'[s] = << >> \/ PrArming(s)'
    <3>1. ASSUME NEW d \in DelayOffsets, PrInsertDelayed(d), pr.i = s PROVE PrArming(s)'
      BY <3>1 DEF PrArming, PrInsertDelayed, TypeOK, PrType
    <3> QED  BY <1>1, <1>2, <3>1, DelayedList
  <2> QED  BY <1>1, <1>2, <2>1, <2>2, <2>3, TimerQuiet
<1> QED  BY <1>3, <1>4

\* A step of p_emu_TxThread_Delayed.
LEMMA TimerByTxd ==
  ASSUME NEW R, EmulatorInvOf(R), SortedInv, DeparturesAccepted, TxdNext, NEW s \in Delayed,
         s \notin outlived', ShownInv(s), TimerRight(s)
  PROVE  TimerRight(s)'
<1> USE DEF EmulatorInvOf
<1>1. /\ [Next]_vars /\ s \in Streams /\ timer \in [Streams -> Nat]
      /\ txd.i \in Streams /\ now \in Nat
      /\ UNCHANGED << pr, now, pkt >>
  <2>1. UNCHANGED << pr, now, pkt >>
    BY DEF TxdNext, TxdRead, TxdNothing, TxdTake, TxdSend, TxdShow, TxdArm, heapVars
  <2> QED  BY <2>1, CoreAssumption DEF Next, TypeOK, TimerType, TxdType
<1>2. LeaveOf' = LeaveOf
  BY <1>1 DEF LeaveOf
<1>3. ASSUME Working(s)', UNCHANGED << tx_list, now >>, txd'.pc \in {"show", "arm"}
      PROVE  TimerRight(s)'
  BY <1>3 DEF TimerRight, Covered, Arming, Working
<1>4. CASE txd.i # s \/ TxdNothing
  <2>1. ~Working(s) /\ ~Working(s)'
    <3>1. CASE TxdNothing
      BY <3>1 DEF TxdNothing, TxdAdvance, Working
    <3>2. CASE txd.i # s
      <4>1. TxdAdvance => ~Working(s)'
        BY DEF TxdAdvance, Working
      <4>2. \/ TxdAdvance \/ txd' = txd \/ txd'.i = txd.i
        BY DEF TxdNext, TxdRead, TxdNothing, TxdTake, TxdSend, TxdShow, TxdArm,
               TypeOK, TxdType
      <4> QED  BY <3>2, <4>1, <4>2 DEF Working
    <3> QED  BY <1>4, <3>1, <3>2
  <2>2. timer'[s] = timer[s] /\ tx_list'[s] = tx_list[s]
    BY <1>1, <1>4
    DEF TxdNext, TxdRead, TxdNothing, TxdTake, TxdSend, TxdShow, TxdArm,
        p_emu_timer_start, TypeOK, ListType
  <2>3. tx_list[s] # << >> => ~(TxdTake /\ txd.i = s)
    BY <1>4 DEF TxdTake, TxdNothing
  <2>4. PrArming(s) => PrArming(s)'
    BY <1>1 DEF PrArming
  <2> QED  BY <1>1, <2>1, <2>2, <2>3, <2>4, TimerQuiet
<1>5. CASE TxdRead /\ txd.i = s
  <2>1. /\ txd.pc = "read" /\ txd'.pc = "take" /\ txd'.i = s /\ timer'[s] = 0
        /\ tx_list' = tx_list /\ timer[s] # 0 /\ timer[s] \in Nat /\ timer[s] <= now
    BY <1>1, <1>5 DEF TxdRead, Expired, TypeOK, TxdType
  <2>2. Due(s, timer[s])
    BY <2>1 DEF TimerRight, Working
  <2>3. tx_list[s] # << >> /\ LeaveOf[Head(tx_list[s])] \in Timespec
    BY <1>1, <2>2, PacketTypes, HeadTailProperties DEF Due
  <2>4. Due(s, now)'
    BY <1>1, <1>2, <2>1, <2>2, <2>3, ReachedStays DEF Due
  <2> QED  BY <2>1, <2>4 DEF TimerRight, Covered, Arming
<1>6. CASE TxdTake /\ txd.i = s
  <2>1. Due(s, now) /\ tx_list[s] # << >>
    BY <1>6 DEF TimerRight, Due, TxdTake
  <2>2. txd'.pc = "send" /\ txd'.i = s /\ txd'.b = Head(tx_list[s])
    BY <1>6, <2>1 DEF TxdTake, TypeOK, TxdType
  <2> QED  BY <1>1, <1>2, <2>1, <2>2 DEF TimerRight, Covered, Arming, Working, Due
<1>7. ASSUME NEW r \in SendResults, TxdSend(r), txd.i = s PROVE TimerRight(s)'
  <2>1. UNCHANGED tx_list /\ txd'.pc = "show" /\ txd'.i = s
    BY <1>7 DEF TxdSend, TypeOK, TxdType
  <2> QED  BY <1>1, <1>3, <2>1 DEF Working
<1>8. CASE TxdShow /\ txd.i = s
  <2>1. CASE tx_list[s] # << >>
    <3>1. UNCHANGED tx_list /\ txd'.pc = "arm" /\ txd'.i = s
      BY <1>8, <2>1 DEF TxdShow, TypeOK, TxdType
    <3> QED  BY <1>1, <1>3, <3>1 DEF Working
  <2>2. CASE tx_list[s] = << >>
    <3>1. txd'.pc = "read" /\ UNCHANGED << tx_list, timer >> /\ timer[s] = 0
      BY <1>8, <2>2 DEF TxdShow, TxdAdvance
    <3> QED  BY <2>2, <3>1 DEF TimerRight, Covered
  <2> QED  BY <2>1, <2>2
<1>9. CASE TxdArm /\ txd.i = s
  <2>1. /\ txd.b \in ToSet(tx_list[s]) /\ txd'.pc = "read"
        /\ p_emu_timer_start(s, pkt[txd.b].leave) /\ UNCHANGED << tx_list, pkt >>
    BY <1>1, <1>9 DEF TxdArm, TxdAdvance, ShownInv
  <2>2. timer'[s] # 0 /\ Due(s, timer[s])'
    BY <1>1, <2>1, TimerArmed
  <2> QED  BY <2>1, <2>2 DEF TimerRight, Covered
<1> QED  BY <1>4, <1>5, <1>6, <1>7, <1>8, <1>9 DEF TxdNext

\* Every step keeps the timers right, unless it lets one outlive its packet.
LEMMA TimerStep ==
  ASSUME NEW R, EmulatorInvOf(R), SortedInv, DeparturesAccepted, TimerInv, [Next]_vars
  PROVE  TimerInv' /\ outlived \subseteq outlived'
<1> USE DEF EmulatorInvOf
<1>1. outlived \subseteq outlived'
  BY WhoMoves DEF PrArm, TxdShow
<1>2. ASSUME NEW s \in Delayed PROVE ShownInv(s)'
  BY ShownStep DEF TimerInv
<1>3. ASSUME NEW s \in Delayed, s \notin outlived' PROVE TimerRight(s)'
  <2>1. ShownInv(s) /\ TimerRight(s)
    BY <1>1, <1>3 DEF TimerInv
  <2>2. CASE PrNext
    BY <1>3, <2>1, <2>2, TimerByPr
  <2>3. CASE TxdNext
    BY <1>3, <2>1, <2>3, TimerByTxd
  <2>4. CASE RxNext \/ TxNext \/ Tick \/ UNCHANGED vars
    <3>1. UNCHANGED << pr, txd, timer >>
      BY <2>4
      DEF RxNext, RxAllocFails, RxNothing, RxFrame, RxAdd, RxAddFails, RxPost,
          TxNext, TxWait, TxSkip, TxTake, TxSend, TxExhausted, Tick, vars, threadVars
    <3>2. tx_list'[s] = tx_list[s]
      <4>1. s \in Streams
        BY CoreAssumption
      <4> QED
        BY <2>4, <4>1
        DEF RxNext, RxAllocFails, RxNothing, RxFrame, RxAdd, RxAddFails, RxPost,
            TxNext, TxWait, TxSkip, TxTake, TxSend, TxExhausted, Tick, vars,
            TypeOK, ListType
    <3>3. tx_list[s] # << >> => ~(TxdTake /\ txd.i = s)
      BY <3>1 DEF TxdTake, TypeOK, TxdType
    <3>4. PrArming(s) => PrArming(s)'
      BY <3>1 DEF PrArming
    <3> QED  BY <2>1, <3>1, <3>2, <3>3, <3>4, ClockSteps, TimerQuiet
  <2> QED  BY <2>2, <2>3, <2>4 DEF Next, Halted
<1> QED  BY <1>1, <1>2, <1>3 DEF TimerInv

\* Frames that left early did so on streams whose timer had outlived its packet.
EarlyInv == \A f \in early : f \in 1..Len(origin) /\ origin[f] \in outlived

\* Every step keeps it so.
LEMMA EarlyStep ==
  ASSUME NEW R, EmulatorInvOf(R), SortedInv, DeparturesAccepted, OriginInv, TimerInv,
         EarlyInv, [Next]_vars
  PROVE  EarlyInv'
<1> USE DEF EmulatorInvOf
<1>1. /\ \A f \in 1..Len(origin) : f \in 1..Len(origin') /\ origin'[f] = origin[f]
      /\ outlived \subseteq outlived'
  BY OriginStep, TimerStep
<1>2. CASE early' = early
  BY <1>1, <1>2 DEF EarlyInv
<1>3. ASSUME NEW r \in SendResults, TxdSend(r) PROVE EarlyInv'
  <2> DEFINE p == pkt[txd.b]
  <2>1. /\ txd.pc = "send" /\ txd.i \in Delayed /\ txd.i \in Streams /\ txd.b \in Buffers
        /\ LeaveOf[txd.b] = p.leave
    BY <1>3 DEF TxdSend, TxdInv, TypeOK, TxdType, LeaveOf
  <2>2. \/ early' = early
        \/ early' = early \union {p.frame} /\ TimevalLess(clock_gettime(now), p.leave)
    BY <1>3 DEF TxdSend
  <2>3. PICK s \in Streams : s = txd.i
    BY <2>1
  <2>4. p.frame \in 1..Len(origin) /\ origin[p.frame] = s
    <3>1. txd.b \in PacketsOf(s)
      BY <2>1, <2>3 DEF PacketsOf
    <3> QED  BY <3>1 DEF OriginInv, Waits
  <2>5. TimevalLess(clock_gettime(now), p.leave) => s \in outlived
    BY <2>1, <2>3 DEF TimerInv, TimerRight
  <2> QED  BY <1>1, <2>2, <2>4, <2>5 DEF EarlyInv
<1> QED  BY <1>2, <1>3, WhoMoves

\* Why the process died, when a step of p_emu_TxThread_Delayed ended it.
LEMMA TimerAbortStep ==
  ASSUME NEW R, EmulatorInvOf(R), SortedInv, DeparturesAccepted, TimerInv,
         TimerAbortOnlyIfOutlived, [Next]_vars
  PROVE  TimerAbortOnlyIfOutlived'
<1> USE DEF EmulatorInvOf
<1>1. outlived \subseteq outlived'
  BY TimerStep
<1>2. ASSUME aborted' # "tx_list_empty_on_timer" PROVE TimerAbortOnlyIfOutlived'
  BY <1>2 DEF TimerAbortOnlyIfOutlived, ExpirationHasPacket
<1>3. ASSUME Running, aborted' = aborted PROVE TimerAbortOnlyIfOutlived'
  BY <1>2, <1>3 DEF Running
<1>4. CASE TxdTake /\ tx_list[txd.i] = << >>
  <2>1. txd.pc = "take" /\ txd.i \in Delayed /\ txd' = txd
    BY <1>4 DEF TxdTake, TxdInv
  <2>2. txd.i \in outlived
    BY <1>4, <2>1 DEF TimerInv, TimerRight, Due
  <2> QED  BY <1>1, <2>1, <2>2 DEF TimerAbortOnlyIfOutlived
<1>5. CASE TxdNext
  BY <1>3, <1>4, <1>5
  DEF TxdNext, TxdRead, TxdNothing, TxdTake, TxdSend, TxdShow, TxdArm
<1>6. CASE RxNext
  <2>1. Running /\ aborted' = aborted
    BY <1>6 DEF RxNext, RxAllocFails, RxNothing, RxFrame, RxAdd, RxAddFails, RxPost
  <2> QED  BY <1>3, <2>1
<1>7. CASE PrNext
  <2>1. Running /\ (aborted' = aborted \/ aborted' # "tx_list_empty_on_timer")
    BY <1>7
    DEF PrNext, PrWait, PrCount, PrTake, PrDiscard, PrInsertFails, PrGiveUp, PrInsert,
        PrPost, PrInsertDelayed, PrShow, PrArm, PrArmFaults, Abort
  <2> QED  BY <1>2, <1>3, <2>1
<1>8. CASE TxNext
  <2>1. Running /\ (aborted' = aborted \/ aborted' # "tx_list_empty_on_timer")
    BY <1>8 DEF TxNext, TxWait, TxSkip, TxTake, TxSend, TxExhausted, Abort
  <2> QED  BY <1>2, <1>3, <2>1
<1>9. CASE Tick
  BY <1>3, <1>9 DEF Tick
<1>10. CASE Halted \/ UNCHANGED vars
  BY <1>10 DEF Halted, vars, TimerAbortOnlyIfOutlived, ExpirationHasPacket
<1> QED  BY <1>5, <1>6, <1>7, <1>8, <1>9, <1>10 DEF Next

\* The inductive invariant of the delayed streams.
DelayedInv ==
    SortingInv /\ OriginInv /\ TimerInv /\ EarlyInv /\ TimerAbortOnlyIfOutlived

\* It holds at the start, with no timer armed and nothing received.
LEMMA DelayedInit == Init => DelayedInv
<1> SUFFICES ASSUME Init PROVE DelayedInv
  OBVIOUS
<1>1. SortingInv
  BY EmulatorInit, SortedInit DEF SortingInv
<1>2. /\ rx.pc = "recv" /\ pr.pc = "wait" /\ tx.pc = "wait" /\ txd.pc = "read"
      /\ \A s \in Streams : rx_list[s] = << >> /\ tx_list[s] = << >> /\ timer[s] = 0
      /\ early = {} /\ aborted = "none"
  BY DEF Init, RxInit, PrInit, TxInit, TxdInit, RxStart, PrWaiting, TxWaiting, TxdStart
<1>3. OriginInv
  <2>1. ToSet(<< >>) = {}
    BY DEF ToSet
  <2>2. \A s \in Streams : PacketsOf(s) = {}
    BY <1>2, <2>1 DEF PacketsOf
  <2> QED  BY <2>2 DEF OriginInv, Waits
<1>4. TimerInv
  BY <1>2, CoreAssumption DEF TimerInv, ShownInv, TimerRight, Covered
<1> QED
  BY <1>1, <1>2, <1>3, <1>4
  DEF DelayedInv, EarlyInv, TimerAbortOnlyIfOutlived, ExpirationHasPacket

\* A step keeps it when the departure times queued before the step are accepted.
LEMMA DelayedStep == DelayedInv /\ DeparturesAccepted /\ [Next]_vars => DelayedInv'
  BY EmulatorStep, SortedStep, OriginStep, TimerStep, EarlyStep, TimerAbortStep
  DEF DelayedInv, SortingInv, EmulatorInv

\* So it holds in every behaviour in which no departure time is refused.
LEMMA DelayedAlways == Spec /\ []DeparturesAccepted => []DelayedInv
  BY DelayedInit, DelayedStep, PTL DEF Spec

\* Unless a timer has outlived the packet it was set for, a delayed stream with
\* queued packets has its timer running or a thread about to arm it: the test for
\* a next packet, its result read after the list may have changed, and the read of
\* a packet that may be gone never leave packets behind by themselves.
THEOREM TimersCover == Spec /\ []DeparturesAccepted => []TimerCoveredUnlessOutlived
<1>1. DelayedInv => TimerCoveredUnlessOutlived
  BY DEF DelayedInv, TimerInv, TimerRight, TimerCoveredUnlessOutlived
<1> QED  BY <1>1, DelayedAlways, PTL

\* Nor does a frame leave before its departure time for another reason.
THEOREM NothingEarly == Spec /\ []DeparturesAccepted => []EarlyOnlyIfOutlived
<1>1. DelayedInv => EarlyOnlyIfOutlived
  BY DEF DelayedInv, EarlyInv, EarlyOnlyIfOutlived
<1> QED  BY <1>1, DelayedAlways, PTL

\* The assertion of p_emu_tx_delayed_packet, which finds a packet in the list of the
\* stream whose timer has expired, fails only on a stream whose own timer has
\* outlived the packet it was set for.
THEOREM TimersFindPackets == Spec /\ []DeparturesAccepted => []TimerAbortOnlyIfOutlived
<1>1. DelayedInv => TimerAbortOnlyIfOutlived
  BY DEF DelayedInv
<1> QED  BY <1>1, DelayedAlways, PTL

-----------------------------------------------------------------------------
(* When no departure time is refused                                       *)

\* Whenever a packet arrives and whatever its delay, p_emu_delay_calculate gives
\* a time that timerfd_settime accepts and that arms the timer.
NoneRefused ==
    \A n \in 0..(MaxTime + 1), d \in DelayOffsets :
      LET leave == p_emu_delay_calculate(n, d)
      IN  SettimeAccepts(leave) /\ leave # Zero

\* Packets have arrived by now.  (The clock starts at 1, and Tick takes it to
\* MaxTime.)
ArrivedInv ==
    now \in 0..(MaxTime + 1) /\ \A b \in Buffers : pkt[b].arrival \in 0..(MaxTime + 1)

\* Only RxFrame stamps a packet, with the current time.
LEMMA ArrivedStep ==
  ASSUME TypeOK, ArrivedInv, [Next]_vars
  PROVE  ArrivedInv'
<1>1. \A b \in Buffers : pkt[b] \in Packet
  BY DEF TypeOK, HeapType
<1>2. ASSUME NEW a \in Buffers, NEW c, c.arrival \in 0..(MaxTime + 1),
             pkt' = [pkt EXCEPT ![a] = c], now' = now
      PROVE  ArrivedInv'
  BY <1>2 DEF ArrivedInv, TypeOK, HeapType
<1>3. CASE RxNext
  <2>1. CASE RxNothing
    <3>1. PICK b \in Buffers : pkt' = [pkt EXCEPT ![b] = BlankPacket] /\ now' = now
      BY <2>1 DEF RxNothing, p_emu_packet_init
    <3>2. BlankPacket.arrival \in 0..(MaxTime + 1)
      BY CoreAssumption DEF BlankPacket
    <3> QED  BY <1>2, <3>1, <3>2
  <2>2. CASE RxFrame
    <3> DEFINE stamped == [frame |-> Len(origin) + 1, arrival |-> now, leave |-> Zero]
    <3>1. PICK b \in Buffers : pkt' = [pkt EXCEPT ![b] = stamped] /\ now' = now
      BY <2>2 DEF RxFrame, p_emu_packet_init
    <3>2. stamped.arrival \in 0..(MaxTime + 1)
      BY DEF ArrivedInv
    <3> HIDE DEF stamped
    <3> QED  BY <1>2, <3>1, <3>2
  <2>3. CASE RxAllocFails \/ RxAdd \/ RxAddFails \/ RxPost
    <3>1. pkt' = pkt /\ now' = now
      BY <2>3 DEF RxAllocFails, RxAdd, RxAddFails, RxPost, heapVars
    <3> QED  BY <3>1 DEF ArrivedInv
  <2> QED  BY <1>3, <2>1, <2>2, <2>3 DEF RxNext
<1>4. CASE PrNext
  <2>1. ASSUME NEW d \in DelayOffsets, PrInsertDelayed(d) PROVE ArrivedInv'
    <3> DEFINE leave == p_emu_delay_calculate(pkt[pr.b].arrival, d)
    <3>1. pr.b \in Buffers /\ pkt' = [pkt EXCEPT ![pr.b].leave = leave] /\ now' = now
      BY <2>1 DEF PrInsertDelayed, TypeOK, PrType
    <3> HIDE DEF leave
    <3>2. \A b \in Buffers : pkt'[b].arrival = pkt[b].arrival
      BY <1>1, <3>1 DEF TypeOK, HeapType, Packet
    <3> QED  BY <3>1, <3>2 DEF ArrivedInv
  <2>2. ASSUME \/ PrWait \/ PrCount \/ PrTake \/ PrDiscard \/ PrInsertFails \/ PrInsert
               \/ PrPost \/ PrShow \/ PrArm \/ PrArmFaults
        PROVE  ArrivedInv'
    <3>1. pkt' = pkt /\ now' = now
      BY <2>2
      DEF PrWait, PrCount, PrTake, PrDiscard, PrInsertFails, PrGiveUp, PrInsert, PrPost,
          PrShow, PrArm, PrArmFaults, heapVars
    <3> QED  BY <3>1 DEF ArrivedInv
  <2> QED  BY <1>4, <2>1, <2>2 DEF PrNext
<1>5. CASE TxNext \/ TxdNext \/ UNCHANGED vars
  <2>1. pkt' = pkt /\ now' = now
    BY <1>5
    DEF TxNext, TxWait, TxSkip, TxTake, TxSend, TxExhausted, TxdNext, TxdRead, TxdNothing,
        TxdTake, TxdSend, TxdShow, TxdArm, heapVars, vars
  <2> QED  BY <2>1 DEF ArrivedInv
<1>6. CASE Tick
  <2>1. pkt' = pkt /\ now' = now + 1 /\ now < MaxTime
    BY <1>6 DEF Tick, heapVars
  <2>2. now' \in 0..(MaxTime + 1)
    BY <2>1, CoreAssumption DEF ArrivedInv
  <2> QED  BY <2>1, <2>2 DEF ArrivedInv
<1>7. CASE UNCHANGED pkt /\ UNCHANGED now
  BY <1>7 DEF ArrivedInv
<1> QED  BY <1>3, <1>4, <1>5, <1>6, <1>7 DEF Next, Halted, vars

\* A packet is queued with the departure time just computed for it, which stays.
LEMMA AcceptedStep ==
  ASSUME NoneRefused, SortingInv, ArrivedInv, DeparturesAccepted, [Next]_vars
  PROVE  DeparturesAccepted'
<1>1. EmulatorInvOf({}) /\ TypeOK /\ TxdInv
  BY DEF SortingInv, EmulatorInv, EmulatorInvOf
<1> SUFFICES ASSUME NEW s \in Delayed, NEW b \in ToSet(tx_list'[s])
             PROVE  SettimeAccepts(pkt'[b].leave) /\ pkt'[b].leave # Zero
  BY DEF DeparturesAccepted
<1>2. s \in Streams /\ tx_list[s] \in Seq(Buffers)
  BY <1>1, CoreAssumption, PacketTypes
<1>3. CASE b \in ToSet(tx_list[s])
  <2>1. pkt'[b] = pkt[b]
    BY <1>1, <1>2, <1>3, QueuedKept
  <2> QED  BY <1>3, <2>1 DEF DeparturesAccepted
<1>4. CASE b \notin ToSet(tx_list[s])
  <2>1. ~(tx_list'[s] = tx_list[s])
    BY <1>4
  <2>2. ~(tx_list[s] # << >> /\ tx_list'[s] = Tail(tx_list[s]))
    <3>1. ASSUME tx_list[s] # << >> PROVE ToSet(Tail(tx_list[s])) \subseteq ToSet(tx_list[s])
      <4> DEFINE list == tx_list[s]
      <4>1. /\ Len(list) \in Nat /\ Len(Tail(list)) = Len(list) - 1
            /\ DOMAIN Tail(list) = 1..(Len(list) - 1) /\ DOMAIN list = 1..Len(list)
            /\ \A i \in 1..(Len(list) - 1) : Tail(list)[i] = list[i + 1]
        BY <1>2, <3>1, HeadTailProperties, LenProperties
      <4> HIDE DEF list
      <4> QED  BY <4>1 DEF ToSet, list
    <3> QED  BY <1>4, <3>1
  <2>3. PICK d \in DelayOffsets :
          /\ PrInsertDelayed(d) /\ pr.i = s
          /\ tx_list'[s] = slib_insert_and_sort(tx_list[s], pr.b, LeaveOf')
    BY <1>1, <2>1, <2>2, DelayedList
  <2>4. pr.b \in Buffers
    BY <1>1, <2>3 DEF PrInsertDelayed, TypeOK, PrType
  <2>5. b = pr.b
    <3> DEFINE leave == LeaveOf'
    <3> HIDE DEF leave
    <3>1. ToSet(slib_insert_and_sort(tx_list[s], pr.b, leave)) = ToSet(tx_list[s]) \union {pr.b}
      BY <1>2, <2>4, InsertPlaces
    <3> QED  BY <1>4, <2>3, <3>1 DEF leave
  <2>6. pkt'[b].leave = p_emu_delay_calculate(pkt[pr.b].arrival, d)
    <3>1. pkt[pr.b] \in Packet /\ pr.b \in DOMAIN pkt
      BY <1>1, <2>4 DEF TypeOK, HeapType
    <3> QED  BY <2>3, <2>5, <3>1 DEF PrInsertDelayed, Packet
  <2> QED  BY <2>4, <2>6 DEF NoneRefused, ArrivedInv
<1> QED  BY <1>3, <1>4

\* The hypothesis of the theorems on the timers follows from one on the constants: if no
\* arrival and delay give a time that timerfd_settime refuses, none that is queued is refused.
THEOREM NoneRefusedSuffices ==
  ASSUME NoneRefused
  PROVE  Spec => []DeparturesAccepted
<1> DEFINE Inv == SortingInv /\ ArrivedInv /\ DeparturesAccepted
<1>1. Init => Inv
  <2> SUFFICES ASSUME Init PROVE Inv
    OBVIOUS
  <2>1. SortingInv
    BY EmulatorInit, SortedInit DEF SortingInv
  <2>2. ArrivedInv
    <3>1. now = 1 /\ pkt = [b \in Buffers |-> BlankPacket]
      BY DEF Init
    <3>2. BlankPacket.arrival = 0
      BY DEF BlankPacket
    <3>3. \A b \in Buffers : pkt[b].arrival = 0
      BY <3>1, <3>2
    <3>4. 0 \in 0..(MaxTime + 1) /\ 1 \in 0..(MaxTime + 1)
      BY CoreAssumption
    <3> QED  BY <3>1, <3>3, <3>4 DEF ArrivedInv
  <2>3. DeparturesAccepted
    <3>1. ToSet(<< >>) = {}
      BY DEF ToSet
    <3> QED  BY <3>1, CoreAssumption DEF Init, DeparturesAccepted
  <2> QED  BY <2>1, <2>2, <2>3
<1>2. Inv /\ [Next]_vars => Inv'
  <2>1. SortingInv => TypeOK
    BY DEF SortingInv, EmulatorInv, EmulatorInvOf
  <2> QED  BY <2>1, EmulatorStep, SortedStep, ArrivedStep, AcceptedStep DEF SortingInv, EmulatorInv
<1> QED  BY <1>1, <1>2, PTL DEF Spec

\* Delays of whole seconds, the simplest a settings file can ask for, are such.
LEMMA WholeSecondsAccepted ==
  ASSUME \A d \in DelayOffsets : d.sec > 0 /\ d.nsec = 0
  PROVE  NoneRefused
<1> SUFFICES ASSUME NEW n \in 0..(MaxTime + 1), NEW d \in DelayOffsets
             PROVE  /\ SettimeAccepts(p_emu_delay_calculate(n, d))
                    /\ p_emu_delay_calculate(n, d) # Zero
  BY DEF NoneRefused
<1> DEFINE leave == p_emu_delay_calculate(n, d)
           q == n \div NsPerSec
           r == n % NsPerSec
<1>1. NsPerSec \in Nat \ {0} /\ n \in Nat
  BY TimeUnits, CoreAssumption
<1>2. q \in Nat /\ r \in 0..(NsPerSec - 1)
  BY <1>1
<1>3. d.sec \in Int /\ d.sec > 0 /\ d.nsec = 0
  BY CoreAssumption DEF Timespec
<1>4. leave = Normalise([sec |-> q + d.sec, nsec |-> r + d.nsec])
  BY DEF p_emu_delay_calculate, clock_gettime
<1> HIDE DEF leave, q, r
<1>5. leave.sec = q + d.sec /\ leave.nsec = r
  <2>1. r + d.nsec = r /\ ~(r > NsPerSec)
    BY <1>1, <1>2, <1>3
  <2>2. Carries(r) = 0
    BY <2>1 DEF Carries
  <2> QED  BY <1>1, <1>2, <1>3, <1>4, <2>1, <2>2 DEF Normalise
<1>6. SettimeAccepts(leave)
  BY <1>2, <1>3, <1>5 DEF SettimeAccepts
<1>7. leave # Zero
  BY <1>2, <1>3, <1>5 DEF Zero
<1> QED  BY <1>6, <1>7 DEF leave

\* So with static delays of whole seconds no packet leaves before its time, waits
\* without a timer or is missed by an expiration, on any stream whose timer has not
\* outlived its packet, however packets arrive and the two threads interleave.
THEOREM WholeSecondsKept ==
  ASSUME \A d \in DelayOffsets : d.sec > 0 /\ d.nsec = 0
  PROVE  Spec => [](/\ TimerCoveredUnlessOutlived
                    /\ EarlyOnlyIfOutlived
                    /\ TimerAbortOnlyIfOutlived)
<1>1. Spec => []DeparturesAccepted
  BY WholeSecondsAccepted, NoneRefusedSuffices
<1> QED  BY <1>1, TimersCover, NothingEarly, TimersFindPackets, PTL

=============================================================================
