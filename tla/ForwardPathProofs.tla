-------------------------- MODULE ForwardPathProofs --------------------------
(***************************************************************************)
(* The types of the forward path, for every number of streams, every set   *)
(* of packet buffers, both builds, every bound and all values of NsPerSec  *)
(* and NsPerUs; and, before them, facts about the time arithmetic: that    *)
(* comparing truncated departure times is a strict weak order, and what    *)
(* slib_insert_and_sort does to a list.                                    *)
(***************************************************************************)
EXTENDS ForwardPath, SequenceTheorems, WellFoundedInduction, FiniteSetTheorems, TLAPS

-----------------------------------------------------------------------------
(* Time                                                                    *)

\* A non-empty set of naturals has a least element.
LEMMA LeastElement ==
  ASSUME NEW T \in SUBSET Nat, T # {}
  PROVE  \E x \in T : \A y \in T : x <= y
<1> DEFINE R == OpToRel(<, Nat)
<1>1. IsWellFoundedOn(R, Nat)
  BY NatLessThanWellFounded
<1>2. PICK x \in T : \A y \in T : ~(<< y, x >> \in R)
  <2> HIDE DEF R
  <2> QED  BY <1>1, WFMin
<1>3. \A y \in T : ~(y < x)
  BY <1>2 DEF OpToRel
<1> QED  BY <1>3

\* clock_gettime returns a timespec whose nsec is in range.
LEMMA ClockType ==
  ASSUME NEW n \in Nat
  PROVE  /\ clock_gettime(n) \in Timespec
         /\ clock_gettime(n).nsec \in 0..(NsPerSec - 1)
  BY TimeUnits DEF clock_gettime, Timespec

\* p_emu_delay_calculate returns a timespec.
LEMMA DelayType ==
  ASSUME NEW n \in Nat, NEW d \in Timespec
  PROVE  p_emu_delay_calculate(n, d) \in Timespec
<1> DEFINE t == [sec |-> clock_gettime(n).sec + d.sec, nsec |-> clock_gettime(n).nsec + d.nsec]
<1>1. t \in Timespec
  BY ClockType DEF Timespec
<1>2. Carries(t.nsec) \in Int
  BY <1>1, TimeUnits DEF Carries, Timespec
<1> HIDE DEF t
<1>3. Normalise(t) \in Timespec
  BY <1>1, <1>2, TimeUnits DEF Normalise, Timespec
<1> QED  BY <1>3 DEF p_emu_delay_calculate, t

\* A time that timerfd_settime accepts stands for a natural number.
LEMMA InstantType ==
  ASSUME NEW t \in Timespec, SettimeAccepts(t)
  PROVE  Instant(t) \in Nat
<1>1. t.sec \in Nat /\ t.nsec \in Nat
  BY TimeUnits DEF SettimeAccepts, Timespec
<1>2. t.sec * NsPerSec \in Nat
  BY <1>1, TimeUnits
<1> QED  BY <1>1, <1>2 DEF Instant

-----------------------------------------------------------------------------
(* The order on departure times                                            *)

\* Truncation to microseconds returns an integer.
LEMMA UsecType ==
  ASSUME NEW n \in Int
  PROVE  Usec(n) \in Int
  BY TimeUnits DEF Usec

\* timercmp on truncated times is a strict weak order: irreflexive, transitive,
\* and so is its complement.
LEMMA TimevalOrder ==
  ASSUME NEW a \in Timespec, NEW b \in Timespec, NEW c \in Timespec
  PROVE  /\ ~TimevalLess(a, a)
         /\ TimevalLess(a, b) /\ TimevalLess(b, c) => TimevalLess(a, c)
         /\ ~TimevalLess(b, a) /\ ~TimevalLess(c, b) => ~TimevalLess(c, a)
         /\ TimevalLess(a, b) => ~TimevalLess(b, a)
<1>1. /\ Usec(a.nsec) \in Int /\ Usec(b.nsec) \in Int /\ Usec(c.nsec) \in Int
      /\ a.sec \in Int /\ b.sec \in Int /\ c.sec \in Int
  BY UsecType DEF Timespec
<1> QED  BY <1>1 DEF TimevalLess

-----------------------------------------------------------------------------
(* slib_insert_and_sort                                                    *)

\* InsertAt puts e at position i and moves what was there and behind it.
LEMMA InsertAtProperties ==
  ASSUME NEW S, NEW list \in Seq(S), NEW i \in 1..(Len(list) + 1), NEW e \in S
  PROVE  /\ InsertAt(list, i, e) \in Seq(S)
         /\ Len(InsertAt(list, i, e)) = Len(list) + 1
         /\ \A j \in 1..(Len(list) + 1) :
              InsertAt(list, i, e)[j] =
                IF j < i THEN list[j] ELSE IF j = i THEN e ELSE list[j - 1]
<1> DEFINE front == SubSeq(list, 1, i - 1)
           back == SubSeq(list, i, Len(list))
<1>0. Len(list) \in Nat /\ i \in Nat /\ i >= 1 /\ i <= Len(list) + 1
  BY LenProperties
<1>1. \A k \in 1..(i - 1) : list[k] \in S
  BY <1>0, ElementOfSeq
<1>2. \A k \in i..Len(list) : list[k] \in S
  BY <1>0, ElementOfSeq
<1>3. /\ front \in Seq(S)
      /\ Len(front) = i - 1
      /\ \A k \in 1..(i - 1) : front[k] = list[k]
  BY <1>0, <1>1, SubSeqProperties
<1>4. /\ back \in Seq(S)
      /\ Len(back) = Len(list) - i + 1
      /\ \A k \in 1..(Len(list) - i + 1) : back[k] = list[i + k - 1]
  BY <1>0, <1>2, SubSeqProperties
<1> HIDE DEF front, back
<1>5. /\ << e >> \in Seq(S)
      /\ Len(<< e >>) = 1
      /\ << e >>[1] = e
  OBVIOUS
<1>6. /\ front \o << e >> \in Seq(S)
      /\ Len(front \o << e >>) = i
      /\ \A k \in 1..i : (front \o << e >>)[k] = IF k < i THEN list[k] ELSE e
  BY <1>0, <1>3, <1>5, ConcatProperties
<1>7. /\ (front \o << e >>) \o back \in Seq(S)
      /\ Len((front \o << e >>) \o back) = Len(list) + 1
      /\ \A k \in 1..(Len(list) + 1) :
           ((front \o << e >>) \o back)[k] =
             IF k <= i THEN (front \o << e >>)[k] ELSE back[k - i]
  BY <1>0, <1>4, <1>6, ConcatProperties
<1>8. InsertAt(list, i, e) = (front \o << e >>) \o back
  BY DEF InsertAt, front, back
<1> QED  BY <1>0, <1>4, <1>6, <1>7, <1>8

\* slib_insert_and_sort puts the packet behind every packet that does not leave
\* later and in front of the first one that does.
LEMMA InsertPosition ==
  ASSUME NEW S, NEW list \in Seq(S), NEW b \in S, NEW leave
  PROVE  \E i \in 1..(Len(list) + 1) :
           /\ slib_insert_and_sort(list, b, leave) = InsertAt(list, i, b)
           /\ \A j \in 1..(i - 1) : ~TimevalLess(leave[b], leave[list[j]])
           /\ i <= Len(list) => TimevalLess(leave[b], leave[list[i]])
<1> DEFINE less(k) == TimevalLess(leave[b], leave[list[k]])
           answer(k) == pack_emu_sort_insert(leave[b], leave[list[k]], k < Len(list))
           Stops(k) == /\ answer(k) # "INSERT_NO"
                       /\ \A j \in 1..(k - 1) : answer(j) = "INSERT_NO"
           stop == CHOOSE k \in 1..Len(list) : Stops(k)
<1>0. Len(list) \in Nat
  BY LenProperties
<1>1. \A k \in 1..Len(list) :
        answer(k) = IF less(k) THEN "INSERT_BEFORE"
                    ELSE IF k < Len(list) THEN "INSERT_NO" ELSE "INSERT_AFTER"
  BY DEF pack_emu_sort_insert
<1>2. CASE list = << >>
  <2>1. slib_insert_and_sort(list, b, leave) = << b >>
    BY <1>2 DEF slib_insert_and_sort
  <2>2. Len(list) = 0
    BY <1>2
  <2>3. InsertAt(list, 1, b) = << b >>
    <3>1. /\ SubSeq(list, 1, 1 - 1) = << >>
          /\ SubSeq(list, 1, Len(list)) = << >>
      BY <2>2, SubSeqEmpty
    <3>2. << b >> \in Seq(S)
      OBVIOUS
    <3> QED  BY <3>1, <3>2, ConcatEmptySeq DEF InsertAt
  <2> QED  BY <2>1, <2>2, <2>3
<1>3. CASE list # << >>
  <2>1. Len(list) >= 1
    BY <1>0, <1>3, EmptySeq
  <2>2. stop \in 1..Len(list) /\ Stops(stop)
    <3> DEFINE T == {k \in 1..Len(list) : answer(k) # "INSERT_NO"}
    <3> HIDE DEF answer
    <3>1. Len(list) \in T
      BY <1>0, <1>1, <2>1
    <3>2. PICK k \in T : \A j \in T : k <= j
      <4> HIDE DEF T
      <4>1. T \subseteq Nat
        BY <1>0 DEF T
      <4> QED  BY <3>1, <4>1, LeastElement
    <3>3. k \in 1..Len(list) /\ Stops(k)
      BY <1>0, <3>2
    <3> QED  BY <3>3
  <2>3. slib_insert_and_sort(list, b, leave) =
          IF answer(stop) = "INSERT_BEFORE" THEN InsertAt(list, stop, b)
          ELSE InsertAt(list, stop + 1, b)
    BY <1>3 DEF slib_insert_and_sort
  <2> HIDE DEF stop, answer, less
  <2>4. \A j \in 1..(stop - 1) : ~less(j)
    BY <1>0, <1>1, <2>2
  <2>5. CASE less(stop)
    <3>1. slib_insert_and_sort(list, b, leave) = InsertAt(list, stop, b)
      BY <1>1, <2>2, <2>3, <2>5
    <3> QED  BY <1>0, <2>2, <2>4, <2>5, <3>1 DEF less
  <2>6. CASE ~less(stop)
    <3>1. stop = Len(list)
      BY <1>0, <1>1, <2>2, <2>6
    <3>2. slib_insert_and_sort(list, b, leave) = InsertAt(list, stop + 1, b)
      BY <1>1, <2>2, <2>3, <2>6
    <3>3. \A j \in 1..((stop + 1) - 1) : ~less(j)
      BY <1>0, <2>2, <2>4, <2>6
    <3> QED  BY <1>0, <2>2, <3>1, <3>2, <3>3 DEF less
  <2> QED  BY <2>5, <2>6
<1> QED  BY <1>2, <1>3

\* So it keeps the list a sequence of packets and makes it one longer.
LEMMA InsertType ==
  ASSUME NEW S, NEW list \in Seq(S), NEW b \in S, NEW leave
  PROVE  /\ slib_insert_and_sort(list, b, leave) \in Seq(S)
         /\ Len(slib_insert_and_sort(list, b, leave)) = Len(list) + 1
<1>1. PICK i \in 1..(Len(list) + 1) :
        slib_insert_and_sort(list, b, leave) = InsertAt(list, i, b)
  BY InsertPosition
<1> QED  BY <1>1, InsertAtProperties

-----------------------------------------------------------------------------
(* Types                                                                   *)

\* The types of the values a variable starts with or is reset to.
LEMMA ConstantTypes ==
  /\ NumStreams \in Nat \ {0}
  /\ 1 \in Streams /\ NumStreams \in Streams
  /\ \A s \in Streams : s \in Nat /\ 1 <= s /\ s <= NumStreams
  /\ \A s \in Streams : s # NumStreams => s + 1 \in Streams
  /\ BlankPacket \in Packet
  /\ Zero \in Timespec
  /\ NoBuffer \in AnyBuffer /\ Buffers \subseteq AnyBuffer
  /\ \A s \in Streams : Token(s) \in Tokens
  BY CoreAssumption
  DEF Streams, BlankPacket, Packet, Timespec, Zero, AnyBuffer, Token, Tokens

\* The state p_emu_start leaves behind has the right types.
LEMMA InitType == Init => TypeOK
<1> SUFFICES ASSUME Init PROVE TypeOK
  OBVIOUS
<1>1. HeapType /\ ListType /\ SignalType /\ TimerType /\ HistoryType
  BY ConstantTypes, EmptySeq
  DEF Init, HeapType, ListType, SignalType, TimerType, HistoryType
<1>2. RxType /\ PrType /\ TxType /\ TxdType
  BY ConstantTypes
  DEF Init, RxInit, PrInit, TxInit, TxdInit, RxStart, PrWaiting, TxWaiting, TxdStart,
      RxType, PrType, TxType, TxdType
<1> QED  BY <1>1, <1>2 DEF TypeOK, Init

\* The types of the variables an action leaves alone.
LEMMA StutterType == TypeOK /\ UNCHANGED vars => TypeOK'
  BY DEF TypeOK, vars, HeapType, ListType, SignalType, TimerType, RxType, PrType,
         TxType, TxdType, HistoryType

-----------------------------------------------------------------------------
(* p_emu_RxThread                                                          *)

\* Every action of p_emu_RxThread keeps the types.
LEMMA RxTypeStep == TypeOK /\ RxNext => TypeOK'
<1> SUFFICES ASSUME TypeOK, RxNext PROVE TypeOK'
  OBVIOUS
<1> USE ConstantTypes
<1>1. UNCHANGED << tx_list, tx_sig, timer, now, aborted, pr, tx, txd,
                   out, early, outlived >>
  BY DEF RxNext, RxAllocFails, RxNothing, RxFrame, RxAdd, RxAddFails, RxPost, history
<1>2. RxType'
  <2>1. CASE RxAdvance
    BY <2>1 DEF TypeOK, RxType, RxAdvance
  <2>2. CASE RxFrame
    BY <2>2 DEF RxFrame, TypeOK, RxType, p_emu_packet_init
  <2>3. CASE RxAdd
    BY <2>3 DEF RxAdd, TypeOK, RxType
  <2> QED  BY <2>1, <2>2, <2>3 DEF RxNext, RxAllocFails, RxNothing, RxAddFails, RxPost
<1>3. HeapType'
  <2>1. CASE UNCHANGED heapVars
    BY <2>1 DEF TypeOK, HeapType, heapVars
  <2>2. CASE RxNothing
    BY <2>2 DEF RxNothing, TypeOK, HeapType, p_emu_packet_init
  <2>3. CASE RxFrame
    <3>1. [frame |-> Len(origin) + 1, arrival |-> now, leave |-> Zero] \in Packet
      BY LenProperties DEF TypeOK, HistoryType, TimerType, Packet
    <3> QED  BY <2>3, <3>1 DEF RxFrame, TypeOK, HeapType, p_emu_packet_init
  <2>4. CASE RxAddFails
    BY <2>4 DEF RxAddFails, TypeOK, HeapType, p_emu_packet_discard
  <2> QED  BY <2>1, <2>2, <2>3, <2>4 DEF RxNext, RxAllocFails, RxAdd, RxPost
<1>4. (rx_list \in [Streams -> Seq(Buffers)])'
  <2>1. CASE UNCHANGED rx_list
    BY <2>1 DEF TypeOK, ListType
  <2>2. CASE RxAdd
    BY <2>2, AppendProperties DEF RxAdd, TypeOK, ListType, RxType
  <2> QED  BY <2>1, <2>2 DEF RxNext, RxAllocFails, RxNothing, RxFrame, RxAddFails, RxPost
<1>5. (rx_sig \in Seq(Tokens))'
  <2>1. CASE UNCHANGED rx_sig
    BY <2>1 DEF TypeOK, SignalType
  <2>2. CASE RxPost
    BY <2>2, AppendProperties DEF RxPost, Post, TypeOK, SignalType, RxType
  <2> QED  BY <2>1, <2>2 DEF RxNext, RxAllocFails, RxNothing, RxFrame, RxAddFails, RxAdd
<1>6. (origin \in Seq(Streams) /\ dropped \subseteq Nat /\ leaked \subseteq Buffers)'
  <2>1. CASE UNCHANGED history
    BY <2>1 DEF TypeOK, HistoryType, history
  <2>2. CASE RxFrame
    BY <2>2, AppendProperties DEF RxFrame, TypeOK, HistoryType, RxType
  <2>3. CASE RxAddFails
    BY <2>3 DEF RxAddFails, TypeOK, HistoryType, HeapType, RxType, Packet
  <2>4. CASE RxNothing
    BY <2>4 DEF RxNothing, TypeOK, HistoryType
  <2> QED  BY <2>1, <2>2, <2>3, <2>4 DEF RxNext, RxAllocFails, RxAdd, RxPost
<1> QED
  BY <1>1, <1>2, <1>3, <1>4, <1>5, <1>6
  DEF TypeOK, ListType, SignalType, TimerType, PrType, TxType, TxdType, HistoryType

-----------------------------------------------------------------------------
(* p_emu_PrThread                                                          *)

\* Where the processing thread goes after a stream, and after a signal.
LEMMA PrMoves ==
  ASSUME TypeOK
  PROVE  /\ PrAdvance => PrType'
         /\ \A t \in Tokens : /\ FirstVisited(t) \in Streams
                              /\ LastVisited(t) \in Streams
                              /\ FirstVisited(t) <= LastVisited(t)
<1>1. PrAdvance => PrType'
  <2> SUFFICES ASSUME PrAdvance PROVE PrType'
    OBVIOUS
  <2>1. CASE pr.i = pr.last
    BY <2>1, ConstantTypes DEF PrAdvance, PrWaiting, PrType
  <2>2. CASE pr.i # pr.last
    <3>1. pr.i + 1 \in Streams /\ pr.i + 1 <= pr.last
      BY <2>2, CoreAssumption DEF TypeOK, PrType, Streams
    <3> QED  BY <2>2, <3>1, ConstantTypes DEF PrAdvance, TypeOK, PrType
  <2> QED  BY <2>1, <2>2
<1>2. \A t \in Tokens : /\ FirstVisited(t) \in Streams
                        /\ LastVisited(t) \in Streams
                        /\ FirstVisited(t) <= LastVisited(t)
  BY ConstantTypes DEF Tokens, FirstVisited, LastVisited
<1> QED  BY <1>1, <1>2

\* Setting a timer keeps it a natural number.
LEMMA TimerSet ==
  ASSUME TypeOK, NEW s \in Streams, NEW b \in Buffers,
         p_emu_timer_start(s, pkt[b].leave)
  PROVE  (timer \in [Streams -> Nat])'
<1>1. pkt[b].leave \in Timespec
  BY DEF TypeOK, HeapType, Packet
<1> QED  BY <1>1, InstantType DEF p_emu_timer_start, TypeOK, TimerType

\* So does every action of p_emu_PrThread.
LEMMA PrTypeStep == TypeOK /\ PrNext => TypeOK'
<1> SUFFICES ASSUME TypeOK, PrNext PROVE TypeOK'
  OBVIOUS
<1> USE ConstantTypes
<1>1. UNCHANGED << now, rx, tx, txd, origin, out, early, leaked >>
  BY DEF PrNext, PrWait, PrCount, PrTake, PrDiscard, PrGiveUp, PrInsertFails,
         PrInsert, PrPost, PrInsertDelayed, PrShow, PrArm, PrArmFaults, history,
         threadVars
<1>2. PrType'
  <2>1. CASE UNCHANGED pr
    BY <2>1 DEF TypeOK, PrType
  <2>2. CASE PrAdvance
    BY <2>2, PrMoves
  <2>3. CASE PrWait
    <3>1. Head(rx_sig) \in Tokens
      BY <2>3, HeadTailProperties DEF PrWait, TypeOK, SignalType
    <3> QED  BY <2>3, <3>1, PrMoves DEF PrWait, PrType
  <2>4. CASE PrCount
    BY <2>2, <2>4 DEF PrCount, TypeOK, PrType
  <2>5. CASE PrTake
    <3>1. rx_list[pr.i] # << >> => Head(rx_list[pr.i]) \in Buffers
      BY HeadTailProperties DEF TypeOK, PrType, ListType
    <3> QED  BY <2>1, <2>5, <3>1 DEF PrTake, TypeOK, PrType
  <2>6. CASE PrShow
    <3>1. tx_list[pr.i] # << >> => Head(tx_list[pr.i]) \in Buffers
      BY HeadTailProperties DEF TypeOK, PrType, ListType
    <3> QED  BY <2>1, <2>6, <3>1 DEF PrShow, TypeOK, PrType
  <2>7. CASE PrInsert
    BY <2>7 DEF PrInsert, TypeOK, PrType
  <2>8. CASE \E d \in DelayOffsets : PrInsertDelayed(d)
    BY <2>8 DEF PrInsertDelayed, TypeOK, PrType
  <2> QED
    BY <2>1, <2>2, <2>3, <2>4, <2>5, <2>6, <2>7, <2>8
    DEF PrNext, PrDiscard, PrInsertFails, PrGiveUp, PrPost, PrArm, PrArmFaults, threadVars
<1>3. HeapType'
  <2>1. CASE UNCHANGED heapVars
    BY <2>1 DEF TypeOK, HeapType, heapVars
  <2>2. CASE PrGiveUp
    BY <2>2 DEF PrGiveUp, TypeOK, HeapType, p_emu_packet_discard
  <2>3. ASSUME NEW d \in DelayOffsets, PrInsertDelayed(d) PROVE HeapType'
    <3>1. pr.b \in Buffers /\ pkt[pr.b] \in Packet
      BY <2>3 DEF PrInsertDelayed, TypeOK, HeapType, PrType
    <3>2. p_emu_delay_calculate(pkt[pr.b].arrival, d) \in Timespec
      BY <3>1, DelayType, CoreAssumption DEF Packet
    <3> QED  BY <2>3, <3>1, <3>2 DEF PrInsertDelayed, TypeOK, HeapType, Packet
  <2> QED
    BY <2>1, <2>2, <2>3
    DEF PrNext, PrWait, PrCount, PrTake, PrDiscard, PrInsertFails, PrInsert, PrPost,
        PrShow, PrArm, PrArmFaults
<1>4. ListType'
  <2>1. CASE UNCHANGED << rx_list, tx_list >>
    BY <2>1 DEF TypeOK, ListType
  <2>2. CASE PrTake
    <3>1. rx_list[pr.i] # << >> => Tail(rx_list[pr.i]) \in Seq(Buffers)
      BY HeadTailProperties DEF TypeOK, PrType, ListType
    <3> QED  BY <2>1, <2>2, <3>1 DEF PrTake, TypeOK, ListType
  <2>3. CASE PrInsert
    BY <2>3, AppendProperties DEF PrInsert, TypeOK, ListType, PrType
  <2>4. ASSUME NEW d \in DelayOffsets, PrInsertDelayed(d) PROVE ListType'
    <3>1. slib_insert_and_sort(tx_list[pr.i], pr.b, LeaveOf') \in Seq(Buffers)
      BY <2>4, InsertType DEF PrInsertDelayed, TypeOK, ListType, PrType
    <3> QED  BY <2>4, <3>1 DEF PrInsertDelayed, TypeOK, ListType
  <2> QED
    BY <2>1, <2>2, <2>3, <2>4
    DEF PrNext, PrWait, PrCount, PrDiscard, PrInsertFails, PrGiveUp, PrPost, PrShow,
        PrArm, PrArmFaults
<1>5. SignalType'
  <2>1. CASE UNCHANGED << rx_sig, tx_sig >>
    BY <2>1 DEF TypeOK, SignalType
  <2>2. CASE PrWait
    BY <2>2, HeadTailProperties DEF PrWait, TypeOK, SignalType
  <2>3. CASE PrPost
    BY <2>3, AppendProperties DEF PrPost, Post, TypeOK, SignalType, PrType
  <2> QED
    BY <2>1, <2>2, <2>3
    DEF PrNext, PrCount, PrTake, PrDiscard, PrInsertFails, PrGiveUp, PrInsert,
        PrInsertDelayed, PrShow, PrArm, PrArmFaults
<1>6. (timer \in [Streams -> Nat])'
  <2>1. CASE UNCHANGED timer
    BY <2>1 DEF TypeOK, TimerType
  <2>2. CASE PrArm
    BY <2>2, TimerSet DEF PrArm, TypeOK, PrType
  <2> QED
    BY <2>1, <2>2
    DEF PrNext, PrWait, PrCount, PrTake, PrDiscard, PrInsertFails, PrGiveUp, PrInsert,
        PrPost, PrInsertDelayed, PrShow, PrArmFaults
<1>7. (dropped \subseteq Nat /\ outlived \subseteq Streams)'
  <2>1. CASE UNCHANGED history
    BY <2>1 DEF TypeOK, HistoryType, history
  <2>2. CASE PrGiveUp /\ pr.pc = "process"
    BY <2>2 DEF PrGiveUp, TypeOK, HistoryType, HeapType, PrType, Packet
  <2>3. CASE PrArm
    BY <2>3 DEF PrArm, TypeOK, HistoryType, PrType
  <2> QED
    BY <2>1, <2>2, <2>3
    DEF PrNext, PrWait, PrCount, PrTake, PrDiscard, PrInsertFails, PrInsert, PrPost,
        PrInsertDelayed, PrShow, PrArmFaults
<1>8. (aborted \in AbortReasons \union {"none"})'
  BY DEF TypeOK, AbortReasons, Abort, PrNext, PrWait, PrCount, PrTake, PrDiscard,
         PrGiveUp, PrInsertFails, PrInsert, PrPost, PrInsertDelayed, PrShow, PrArm,
         PrArmFaults
<1> QED
  BY <1>1, <1>2, <1>3, <1>4, <1>5, <1>6, <1>7, <1>8
  DEF TypeOK, TimerType, RxType, TxType, TxdType, HistoryType

-----------------------------------------------------------------------------
(* p_emu_TxThread                                                          *)

\* Where the transmit thread goes after a stream.
LEMMA TxMoves == TypeOK /\ TxAdvance => TxType'
<1> SUFFICES ASSUME TypeOK, TxAdvance PROVE TxType'
  OBVIOUS
<1>1. CASE tx.i = tx.last
  BY <1>1, ConstantTypes DEF TxAdvance, TxWaiting, TxType
<1>2. CASE tx.i # tx.last
  <2>1. tx.i + 1 \in Streams /\ tx.i + 1 <= tx.last
    BY <1>2, CoreAssumption DEF TypeOK, TxType, Streams
  <2> QED  BY <1>2, <2>1, ConstantTypes DEF TxAdvance, TypeOK, TxType
<1> QED  BY <1>1, <1>2

\* So does every action of p_emu_TxThread.
LEMMA TxTypeStep == TypeOK /\ TxNext => TypeOK'
<1> SUFFICES ASSUME TypeOK, TxNext PROVE TypeOK'
  OBVIOUS
<1> USE ConstantTypes
<1>1. UNCHANGED << pkt, rx_list, rx_sig, timer, now, rx, pr, txd, origin, early,
                   outlived, leaked >>
  BY DEF TxNext, TxWait, TxSkip, TxTake, TxSend, TxExhausted, heapVars, history,
         threadVars
<1>2. TxType'
  <2>1. CASE UNCHANGED tx
    BY <2>1 DEF TypeOK, TxType
  <2>2. CASE TxAdvance
    BY <2>2, TxMoves
  <2>3. CASE TxWait
    <3>1. Head(tx_sig) \in Tokens
      BY <2>3, HeadTailProperties DEF TxWait, TypeOK, SignalType
    <3> QED  BY <2>3, <3>1, PrMoves DEF TxWait, TxType
  <2>4. CASE TxTake
    <3>1. tx_list[tx.i] # << >> => Head(tx_list[tx.i]) \in Buffers
      BY HeadTailProperties DEF TypeOK, TxType, ListType
    <3> QED  BY <2>1, <2>4, <3>1 DEF TxTake, TypeOK, TxType
  <2> QED
    BY <2>1, <2>2, <2>3, <2>4 DEF TxNext, TxSkip, TxSend, TxExhausted, threadVars
<1>3. (live \subseteq Buffers)'
  BY DEF TypeOK, HeapType, TxNext, TxWait, TxSkip, TxTake, TxSend, TxExhausted,
         p_emu_packet_discard, heapVars
<1>4. (tx_list \in [Streams -> Seq(Buffers)])'
  <2>1. CASE UNCHANGED tx_list
    BY <2>1 DEF TypeOK, ListType
  <2>2. CASE TxTake
    <3>1. tx_list[tx.i] # << >> => Tail(tx_list[tx.i]) \in Seq(Buffers)
      BY HeadTailProperties DEF TypeOK, TxType, ListType
    <3> QED  BY <2>1, <2>2, <3>1 DEF TxTake, TypeOK, ListType
  <2> QED  BY <2>1, <2>2 DEF TxNext, TxWait, TxSkip, TxSend, TxExhausted
<1>5. (tx_sig \in Seq(Tokens))'
  <2>1. CASE UNCHANGED tx_sig
    BY <2>1 DEF TypeOK, SignalType
  <2>2. CASE TxWait
    BY <2>2, HeadTailProperties DEF TxWait, TypeOK, SignalType
  <2> QED  BY <2>1, <2>2 DEF TxNext, TxTake, TxSkip, TxSend, TxExhausted
<1>6. (out \in [Streams -> Seq(Nat)] /\ dropped \subseteq Nat)'
  <2>1. CASE UNCHANGED history
    BY <2>1 DEF TypeOK, HistoryType, history
  <2>2. ASSUME NEW r \in SendResults, TxSend(r)
        PROVE  (out \in [Streams -> Seq(Nat)] /\ dropped \subseteq Nat)'
    <3>1. pkt[tx.b].frame \in Nat /\ tx.i \in Streams
      BY <2>2 DEF TxSend, TypeOK, TxType, HeapType, Packet
    <3>2. Append(out[tx.i], pkt[tx.b].frame) \in Seq(Nat)
      BY <3>1, AppendProperties DEF TypeOK, HistoryType
    <3> QED  BY <2>2, <3>1, <3>2 DEF TxSend, TypeOK, HistoryType
  <2> QED  BY <2>1, <2>2 DEF TxNext, TxWait, TxSkip, TxTake, TxExhausted
<1>7. (aborted \in AbortReasons \union {"none"})'
  BY DEF TypeOK, AbortReasons, Abort, TxNext, TxWait, TxSkip, TxTake, TxSend, TxExhausted
<1> QED
  BY <1>1, <1>2, <1>3, <1>4, <1>5, <1>6, <1>7
  DEF TypeOK, HeapType, ListType, SignalType, TimerType, RxType, PrType, TxdType,
      HistoryType

-----------------------------------------------------------------------------
(* p_emu_TxThread_Delayed                                                  *)

\* So does every action of p_emu_TxThread_Delayed.
LEMMA TxdTypeStep == TypeOK /\ TxdNext => TypeOK'
<1> SUFFICES ASSUME TypeOK, TxdNext PROVE TypeOK'
  OBVIOUS
<1> USE ConstantTypes
<1>1. UNCHANGED << pkt, rx_list, rx_sig, tx_sig, now, rx, pr, tx, origin, leaked >>
  BY DEF TxdNext, TxdRead, TxdNothing, TxdTake, TxdSend, TxdShow, TxdArm, heapVars,
         history
<1>2. TxdType'
  <2>1. CASE UNCHANGED txd
    BY <2>1 DEF TypeOK, TxdType
  <2>2. CASE TxdAdvance
    BY <2>2 DEF TxdAdvance, TypeOK, TxdType
  <2>3. CASE TxdRead
    BY <2>3 DEF TxdRead, TypeOK, TxdType
  <2>4. tx_list[txd.i] # << >> => Head(tx_list[txd.i]) \in Buffers
    BY HeadTailProperties DEF TypeOK, TxdType, ListType
  <2>5. CASE TxdTake
    BY <2>1, <2>4, <2>5 DEF TxdTake, TypeOK, TxdType
  <2>6. CASE \E r \in SendResults : TxdSend(r)
    BY <2>6 DEF TxdSend, TypeOK, TxdType
  <2>7. CASE TxdShow
    BY <2>2, <2>4, <2>7 DEF TxdShow, TypeOK, TxdType
  <2> QED
    BY <2>2, <2>3, <2>5, <2>6, <2>7 DEF TxdNext, TxdNothing, TxdArm
<1>3. (live \subseteq Buffers)'
  BY DEF TypeOK, HeapType, TxdNext, TxdRead, TxdNothing, TxdTake, TxdSend, TxdShow,
         TxdArm, p_emu_packet_discard, heapVars
<1>4. (tx_list \in [Streams -> Seq(Buffers)])'
  <2>1. CASE UNCHANGED tx_list
    BY <2>1 DEF TypeOK, ListType
  <2>2. CASE TxdTake
    <3>1. tx_list[txd.i] # << >> => Tail(tx_list[txd.i]) \in Seq(Buffers)
      BY HeadTailProperties DEF TypeOK, TxdType, ListType
    <3> QED  BY <2>1, <2>2, <3>1 DEF TxdTake, TypeOK, ListType
  <2> QED  BY <2>1, <2>2 DEF TxdNext, TxdRead, TxdNothing, TxdSend, TxdShow, TxdArm
<1>5. (timer \in [Streams -> Nat])'
  <2>1. CASE UNCHANGED timer
    BY <2>1 DEF TypeOK, TimerType
  <2>2. CASE TxdRead
    BY <2>2 DEF TxdRead, TypeOK, TimerType
  <2>3. CASE TxdArm
    BY <2>3, TimerSet DEF TxdArm, TypeOK, TxdType
  <2> QED  BY <2>1, <2>2, <2>3 DEF TxdNext, TxdNothing, TxdTake, TxdSend, TxdShow
<1>6. (/\ out \in [Streams -> Seq(Nat)] /\ dropped \subseteq Nat
       /\ early \subseteq Nat /\ outlived \subseteq Streams)'
  <2> USE DEF TypeOK, HistoryType
  <2>1. CASE UNCHANGED history
    BY <2>1 DEF history
  <2>2. ASSUME NEW r \in SendResults, TxdSend(r)
        PROVE  (/\ out \in [Streams -> Seq(Nat)] /\ dropped \subseteq Nat
                /\ early \subseteq Nat /\ outlived \subseteq Streams)'
    <3>1. pkt[txd.b].frame \in Nat /\ txd.i \in Streams
      BY <2>2 DEF TxdSend, TxdType, HeapType, Packet
    <3>2. Append(out[txd.i], pkt[txd.b].frame) \in Seq(Nat)
      BY <3>1, AppendProperties
    <3>3. CASE r = "sent"
      BY <2>2, <3>1, <3>2, <3>3 DEF TxdSend
    <3>4. CASE r # "sent"
      BY <2>2, <3>1, <3>4 DEF TxdSend
    <3> QED  BY <3>3, <3>4
  <2>3. CASE TxdShow
    BY <2>3 DEF TxdShow, TxdType
  <2> QED  BY <2>1, <2>2, <2>3 DEF TxdNext, TxdRead, TxdNothing, TxdTake, TxdArm
<1>7. (aborted \in AbortReasons \union {"none"})'
  BY DEF TypeOK, AbortReasons, Abort, TxdNext, TxdRead, TxdNothing, TxdTake, TxdSend,
         TxdShow, TxdArm
<1> QED
  BY <1>1, <1>2, <1>3, <1>4, <1>5, <1>6, <1>7
  DEF TypeOK, HeapType, ListType, SignalType, TimerType, RxType, PrType, TxType,
      HistoryType

-----------------------------------------------------------------------------
(* The theorem                                                             *)

\* So does the clock.
LEMMA TickType == TypeOK /\ Tick => TypeOK'
<1> SUFFICES ASSUME TypeOK, Tick PROVE TypeOK'
  OBVIOUS
<1>1. now' \in Nat
  BY DEF Tick, TypeOK, TimerType
<1>2. UNCHANGED << live, pkt, rx_list, tx_list, rx_sig, tx_sig, timer, aborted,
                   rx, pr, tx, txd, origin, out, dropped, early, outlived,
                   leaked >>
  BY DEF Tick, heapVars, threadVars, history
<1> QED
  BY <1>1, <1>2
  DEF TypeOK, HeapType, ListType, SignalType, TimerType, RxType, PrType, TxType,
      TxdType, HistoryType

\* Whatever happens next, the types stay.
LEMMA NextType == TypeOK /\ [Next]_vars => TypeOK'
  BY RxTypeStep, PrTypeStep, TxTypeStep, TxdTypeStep, TickType, StutterType
  DEF Next, Halted

\* Every variable keeps its type: in particular every list holds packets, no
\* thread works on a packet it does not have, and no timer is set to a time that
\* timerfd_settime would have refused.
THEOREM TypeCorrect == Spec => []TypeOK
<1> QED  BY InitType, NextType, PTL DEF Spec

=============================================================================
