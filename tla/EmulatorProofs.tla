--------------------------- MODULE EmulatorProofs ---------------------------
(***************************************************************************)
(* The threads implement Emulator: every step of one of them accepts a     *)
(* frame, sends or gives up one that waits, or changes nothing that        *)
(* Emulator speaks of.  So what Emulator promises holds of the threads:    *)
(* each frame leaves once, on its own stream and in its turn.              *)
(*                                                                         *)
(* On a stream without delay a frame passes five stages, each of them      *)
(* behind the one before it: the receive thread's hands, rx_list, the      *)
(* processing thread's hands, tx_list, the transmit thread's hands.        *)
(***************************************************************************)
EXTENDS OwnershipProofs

-----------------------------------------------------------------------------
(* Order                                                                   *)

\* f is lower on A[i] than on A[j], for i before j.
Ordered(A, f) ==
    \A i, j \in 1..5 : i < j => \A x \in A[i], y \in A[j] : f[x] < f[y]

Increasing(list, f) == \A m, n \in 1..Len(list) : m < n => f[list[m]] < f[list[n]]

\* A lowest member of a stage goes on to the stage in front.
LEMMA StageMoves ==
  ASSUME NEW A, NEW B, NEW f, NEW k \in 1..4, NEW x \in A[k + 1],
         Ordered(A, f),
         \A y \in A[k + 1] \ {x} : f[x] < f[y],
         B[k] = A[k] \union {x}, B[k + 1] = A[k + 1] \ {x},
         \A i \in 1..5 : i # k /\ i # k + 1 => B[i] = A[i]
  PROVE  Ordered(B, f)
<1> SUFFICES ASSUME NEW i \in 1..5, NEW j \in 1..5, i < j, NEW u \in B[i], NEW v \in B[j]
             PROVE  f[u] < f[v]
  BY DEF Ordered
<1>1. k + 1 \in 1..5 /\ k \in 1..5
  OBVIOUS
<1>2. u \in A[i] \/ (i = k /\ u = x)
  BY <1>1
<1>3. (v \in A[j] /\ (j = k + 1 => v # x)) \/ (j = k /\ v = x)
  BY <1>1
<1>4. CASE u \in A[i] /\ v \in A[j]
  BY <1>4 DEF Ordered
<1>5. CASE i = k /\ u = x
  <2>1. v \in A[j] /\ (j = k + 1 => v # x)
    BY <1>3, <1>5
  <2>2. CASE j = k + 1
    BY <1>5, <2>1, <2>2
  <2>3. CASE j # k + 1
    <3>1. k + 1 < j
      BY <1>5, <2>3
    <3> QED  BY <1>1, <1>5, <2>1, <3>1 DEF Ordered
  <2> QED  BY <2>2, <2>3
<1>6. CASE j = k /\ v = x /\ u \in A[i]
  <2>1. i < k + 1
    BY <1>6
  <2> QED  BY <1>1, <1>6, <2>1 DEF Ordered
<1> QED  BY <1>2, <1>3, <1>4, <1>5, <1>6

\* Stages that have lost some of their members.
LEMMA StageLeaves ==
  ASSUME NEW A, NEW B, NEW f, Ordered(A, f), \A i \in 1..5 : B[i] \subseteq A[i]
  PROVE  Ordered(B, f)
  BY DEF Ordered

\* A list that a higher member is appended to, or that loses its first.
LEMMA IncreasingAppend ==
  ASSUME NEW S, NEW list \in Seq(S), NEW b \in S, NEW f, Increasing(list, f),
         \A x \in ToSet(list) : f[x] < f[b]
  PROVE  Increasing(Append(list, b), f)
<1> DEFINE new == Append(list, b)
<1>1. /\ Len(list) \in Nat /\ DOMAIN list = 1..Len(list)
      /\ Len(new) = Len(list) + 1
      /\ \A i \in 1..Len(list) : new[i] = list[i]
      /\ new[Len(list) + 1] = b
  BY AppendProperties, LenProperties
<1> HIDE DEF new
<1>2. \A i \in 1..Len(list) : f[list[i]] < f[b]
  BY <1>1 DEF ToSet
<1>3. Increasing(new, f)
  <2> SUFFICES ASSUME NEW m \in 1..Len(new), NEW n \in 1..Len(new), m < n
               PROVE  f[new[m]] < f[new[n]]
    BY DEF Increasing
  <2>1. m \in 1..Len(list)
    BY <1>1
  <2>2. CASE n = Len(list) + 1
    BY <1>1, <1>2, <2>1, <2>2
  <2>3. CASE n # Len(list) + 1
    <3>1. n \in 1..Len(list)
      BY <1>1, <2>3
    <3> QED  BY <1>1, <2>1, <3>1 DEF Increasing
  <2> QED  BY <2>2, <2>3
<1> QED  BY <1>3 DEF new

\* The first of an increasing list is below all the others.
LEMMA IncreasingTail ==
  ASSUME NEW S, NEW list \in Seq(S), NEW f, list # << >>, Increasing(list, f)
  PROVE  /\ Increasing(Tail(list), f)
         /\ \A x \in ToSet(list) \ {Head(list)} : f[Head(list)] < f[x]
<1> DEFINE rest == Tail(list)
<1>1. /\ Len(list) \in Nat \ {0} /\ DOMAIN list = 1..Len(list)
      /\ Len(rest) = Len(list) - 1
      /\ \A i \in 1..(Len(list) - 1) : rest[i] = list[i + 1]
      /\ Head(list) = list[1]
  BY HeadTailProperties, LenProperties, EmptySeq
<1> HIDE DEF rest
<1>2. Increasing(rest, f)
  <2> SUFFICES ASSUME NEW m \in 1..(Len(list) - 1), NEW n \in 1..(Len(list) - 1), m < n
               PROVE  f[rest[m]] < f[rest[n]]
    BY <1>1 DEF Increasing
  <2>1. m + 1 \in 1..Len(list) /\ n + 1 \in 1..Len(list) /\ m + 1 < n + 1
    BY <1>1
  <2> QED  BY <1>1, <2>1 DEF Increasing
<1>3. ASSUME NEW i \in 1..Len(list), list[i] # Head(list) PROVE f[Head(list)] < f[list[i]]
  <2>1. 1 < i /\ 1 \in 1..Len(list)
    BY <1>1, <1>3
  <2> QED  BY <1>1, <2>1 DEF Increasing
<1> QED  BY <1>1, <1>2, <1>3 DEF rest, ToSet

-----------------------------------------------------------------------------
(* The invariant                                                           *)

FrameOf == [b \in Buffers |-> pkt[b].frame]

\* The packets of stream s, from the ones about to be sent to the one received
\* last.
Stages(s) ==
    << IF tx.pc = "send" /\ tx.i = s THEN {tx.b} ELSE {},
       ToSet(tx_list[s]),
       IF pr.pc = "process" /\ pr.i = s THEN {pr.b} ELSE {},
       ToSet(rx_list[s]),
       IF rx.pc = "add" /\ rx.i = s THEN {rx.b} ELSE {} >>

\* The buffers of the four threads' packets, when R are somebody else's.
Owned(R) == live \ (leaked \union R)

\* Packets hold different frames, all of them accepted.
FrameInv(R) ==
    /\ \A b \in Owned(R) : FrameOf[b] \in 1..Len(origin)
    /\ \A a, b \in Owned(R) : FrameOf[a] = FrameOf[b] => a = b

\* p_emu_TxThread_Delayed works on delayed streams only.
TxdInv == txd.pc # "read" => txd.i \in Delayed

\* Frames do not overtake each other, except in the tx_list of a delayed stream.
FifoOf(s) ==
    /\ Ordered(Stages(s), FrameOf)
    /\ Increasing(rx_list[s], FrameOf)
    /\ s \notin Delayed => Increasing(tx_list[s], FrameOf)

FifoInv == \A s \in Streams : FifoOf(s)

EmulatorInvOf(R) == TypeOK /\ OwnershipInvOf(R) /\ FrameInv(R) /\ TxdInv /\ FifoInv

EmulatorInv == EmulatorInvOf({})

\* A packet in a thread's hands is nowhere else.
LEMMA HandApart ==
  ASSUME NEW R, OwnershipInvOf(R), NEW k \in 1..4, NEW b \in InHand[k]
  PROVE  /\ b \in Owned(R)
         /\ \A j \in 1..4 : j # k => b \notin InHand[j]
         /\ \A s \in Streams : b \notin ToSet(rx_list[s]) /\ b \notin ToSet(tx_list[s])
<1>1. /\ Ownership
      /\ live = HeldBuffers \union QueuedBuffers \union leaked \union R
      /\ leaked \intersect (HeldBuffers \union QueuedBuffers) = {}
      /\ R \intersect (HeldBuffers \union QueuedBuffers \union leaked) = {}
  BY OwnershipMeans
<1>2. b \in HeldBuffers
  BY DEF HeldBuffers
<1>3. ASSUME NEW s \in Streams
      PROVE  b \notin ToSet(rx_list[s]) /\ b \notin ToSet(tx_list[s])
  <2>1. /\ << "rx", s >> \in Places /\ << "tx", s >> \in Places
    BY DEF Places
  <2>2. ToSet(ListOf("rx", s)) \subseteq live \ HeldBuffers
    BY <1>1, <2>1 DEF Ownership
  <2>3. ToSet(ListOf("tx", s)) \subseteq live \ HeldBuffers
    BY <1>1, <2>1 DEF Ownership
  <2> QED  BY <1>2, <2>2, <2>3 DEF ListOf
<1> QED  BY <1>1, <1>2, <1>3 DEF Ownership, Owned

\* The packets of a stream are its stages' and the one p_emu_TxThread_Delayed sends.
LEMMA StagesAre ==
  ASSUME NEW s \in Streams
  PROVE  LET TxdHand == IF txd.pc = "send" /\ txd.i = s THEN {txd.b} ELSE {}
         IN  PacketsOf(s) = Stages(s)[1] \union Stages(s)[2] \union Stages(s)[3]
                              \union Stages(s)[4] \union Stages(s)[5] \union TxdHand
  BY DEF PacketsOf, Stages

\* They are all allocated.
LEMMA PacketsInside ==
  ASSUME NEW R, OwnershipInvOf(R), NEW s \in Streams
  PROVE  PacketsOf(s) \subseteq Owned(R)
<1>1. /\ live = HeldBuffers \union QueuedBuffers \union leaked \union R
      /\ leaked \intersect (HeldBuffers \union QueuedBuffers) = {}
      /\ R \intersect (HeldBuffers \union QueuedBuffers \union leaked) = {}
  BY OwnershipMeans
<1>2. ToSet(rx_list[s]) \union ToSet(tx_list[s]) \subseteq QueuedBuffers
  <2>1. /\ << "rx", s >> \in Places /\ << "tx", s >> \in Places
    BY DEF Places
  <2>2. ToSet(ListOf("rx", s)) \subseteq QueuedBuffers
    BY <2>1 DEF QueuedBuffers
  <2>3. ToSet(ListOf("tx", s)) \subseteq QueuedBuffers
    BY <2>1 DEF QueuedBuffers
  <2> QED  BY <2>2, <2>3 DEF ListOf
<1>3. /\ rx.pc = "add" => rx.b \in HeldBuffers
      /\ pr.pc = "process" => pr.b \in HeldBuffers
      /\ tx.pc = "send" => tx.b \in HeldBuffers
      /\ txd.pc = "send" => txd.b \in HeldBuffers
  BY PlacesAre DEF HandFacts, HeldBuffers
<1> QED  BY <1>1, <1>2, <1>3 DEF PacketsOf, Owned

-----------------------------------------------------------------------------
(* How a step looks from outside                                           *)

\* The frames of each stream that wait, as Emulator sees them.
Waits == [s \in Streams |-> {pkt[b].frame : b \in PacketsOf(s)}]

\* Emulator's state, and its steps when the waiting frames are known.
LEMMA AbstractSteps ==
  /\ UNCHANGED << Waits, origin, out, dropped >> => UNCHANGED Abstract!vars
  /\ \A s \in Streams :
       /\ Len(origin') = Len(origin) + 1
       /\ Waits' = [Waits EXCEPT ![s] = @ \union {Len(origin) + 1}]
       /\ UNCHANGED << out, dropped >>
       => Abstract!Next
  /\ \A s \in Streams : \A f \in Waits[s] :
       /\ Waits' = [Waits EXCEPT ![s] = @ \ {f}]
       /\ UNCHANGED origin
       /\ \/ dropped' = dropped \union {f} /\ UNCHANGED out
          \/ /\ out' = [out EXCEPT ![s] = Append(@, f)] /\ UNCHANGED dropped
             /\ s \in Streams \ Delayed => \A g \in Waits[s] : f <= g
       => Abstract!Next
<1>1. UNCHANGED << Waits, origin, out, dropped >> => UNCHANGED Abstract!vars
  BY DEF Abstract!vars, Waits
<1>2. ASSUME NEW s \in Streams, Len(origin') = Len(origin) + 1,
             Waits' = [Waits EXCEPT ![s] = @ \union {Len(origin) + 1}],
             UNCHANGED << out, dropped >>
      PROVE  Abstract!Next
  <2>1. Abstract!Accept(s)
    BY <1>2 DEF Abstract!Accept, Waits
  <2> QED  BY <2>1 DEF Abstract!Next
<1>3. ASSUME NEW s \in Streams, NEW f \in Waits[s],
             Waits' = [Waits EXCEPT ![s] = @ \ {f}], UNCHANGED origin,
             \/ dropped' = dropped \union {f} /\ UNCHANGED out
             \/ /\ out' = [out EXCEPT ![s] = Append(@, f)] /\ UNCHANGED dropped
                /\ s \in Streams \ Delayed => \A g \in Waits[s] : f <= g
      PROVE  Abstract!Next
  <2>1. Abstract!Drop(s, f) \/ Abstract!Send(s, f)
    BY <1>3 DEF Abstract!Drop, Abstract!Send, Waits
  <2> QED  BY <1>3, <2>1 DEF Abstract!Next, Waits
<1> QED  BY <1>1, <1>2, <1>3

\* A step that moves packets within their streams.
LEMMA WaitsStay ==
  ASSUME \A s \in Streams : PacketsOf(s)' = PacketsOf(s),
         \A s \in Streams : \A b \in PacketsOf(s) : pkt'[b].frame = pkt[b].frame
  PROVE  Waits' = Waits
  BY DEF Waits

\* A step that takes packet b from stream t.
LEMMA WaitsLeave ==
  ASSUME NEW R, TypeOK, OwnershipInvOf(R), FrameInv(R), NEW t \in Streams, NEW b \in PacketsOf(t),
         pkt' = pkt, PacketsOf(t)' = PacketsOf(t) \ {b},
         \A s \in Streams : s # t => PacketsOf(s)' = PacketsOf(s)
  PROVE  /\ Waits' = [Waits EXCEPT ![t] = @ \ {pkt[b].frame}]
         /\ pkt[b].frame \in Waits[t]
<1>1. \A x \in PacketsOf(t) : x \in Buffers /\ (pkt[x].frame = pkt[b].frame => x = b)
  BY PacketsInside DEF FrameInv, FrameOf, Owned, TypeOK, HeapType
<1>2. {pkt[x].frame : x \in PacketsOf(t) \ {b}} =
        {pkt[x].frame : x \in PacketsOf(t)} \ {pkt[b].frame}
  BY <1>1
<1>3. {pkt'[x].frame : x \in PacketsOf(t)'} = Waits[t] \ {pkt[b].frame}
  BY <1>2 DEF Waits
<1>4. ASSUME NEW s \in Streams, s # t
      PROVE  {pkt'[x].frame : x \in PacketsOf(s)'} = Waits[s]
  BY <1>4 DEF Waits
<1>5. Waits' = [s \in Streams |-> {pkt'[x].frame : x \in PacketsOf(s)'}]
  BY DEF Waits
<1>6. Waits' = [s \in Streams |-> IF s = t THEN Waits[t] \ {pkt[b].frame} ELSE Waits[s]]
  BY <1>3, <1>4, <1>5
<1>7. Waits = [s \in Streams |-> Waits[s]] /\ pkt[b].frame \in Waits[t]
  BY DEF Waits
<1> QED  BY <1>6, <1>7

-----------------------------------------------------------------------------
(* Steps that keep the invariant                                           *)

\* Frames are kept apart by a step that accepts none.
LEMMA FramesKept ==
  ASSUME NEW R, FrameInv(R), UNCHANGED origin, Owned(R)' \subseteq Owned(R),
         \A b \in Owned(R) : FrameOf'[b] = FrameOf[b]
  PROVE  FrameInv(R)'
  BY DEF FrameInv

\* The lists of stream s hold packets of s.
LEMMA ListsInside ==
  ASSUME TypeOK, NEW s \in Streams
  PROVE  /\ \A i \in 1..5 : Stages(s)[i] \subseteq PacketsOf(s)
         /\ \A m \in 1..Len(rx_list[s]) : rx_list[s][m] \in PacketsOf(s)
         /\ \A m \in 1..Len(tx_list[s]) : tx_list[s][m] \in PacketsOf(s)
<1>1. ToSet(rx_list[s]) \subseteq PacketsOf(s) /\ ToSet(tx_list[s]) \subseteq PacketsOf(s)
  BY DEF PacketsOf
<1> QED  BY <1>1, StagesAre, LenProperties DEF ToSet, TypeOK, ListType

\* Frames are kept in order by a step that queues none.
LEMMA FifoKept ==
  ASSUME TypeOK, NEW s \in Streams, FifoOf(s),
         \A b \in PacketsOf(s) : FrameOf'[b] = FrameOf[b],
         \A i \in 1..5 : Stages(s)'[i] \subseteq Stages(s)[i],
         UNCHANGED rx_list[s], s \notin Delayed => UNCHANGED tx_list[s]
  PROVE  FifoOf(s)'
<1>1. Ordered(Stages(s)', FrameOf)
  BY StageLeaves DEF FifoOf
<1>2. Ordered(Stages(s)', FrameOf')
  BY <1>1, ListsInside DEF Ordered
<1>3. /\ Increasing(rx_list[s], FrameOf)'
      /\ s \notin Delayed => Increasing(tx_list[s], FrameOf)'
  BY ListsInside DEF FifoOf, Increasing
<1> QED  BY <1>2, <1>3 DEF FifoOf

-----------------------------------------------------------------------------
(* p_emu_RxThread                                                          *)

\* A buffer that is not allocated may be filled.
LEMMA FreshFrame ==
  ASSUME NEW R, EmulatorInvOf(R), NEW b \in Buffers \ live, NEW c,
         pkt' = [pkt EXCEPT ![b] = c]
  PROVE  /\ \A x \in live : pkt'[x].frame = pkt[x].frame /\ FrameOf'[x] = FrameOf[x]
         /\ \A s \in Streams : \A x \in PacketsOf(s) : pkt'[x].frame = pkt[x].frame
         /\ FrameOf'[b] = c.frame
<1>1. \A x \in Buffers : pkt'[x] = IF x = b THEN c ELSE pkt[x]
  BY DEF EmulatorInvOf, TypeOK, HeapType
<1>2. live \subseteq Buffers
  BY DEF EmulatorInvOf, TypeOK, HeapType
<1>3. \A s \in Streams : PacketsOf(s) \subseteq live
  BY PacketsInside DEF EmulatorInvOf, Owned
<1> QED  BY <1>1, <1>2, <1>3 DEF FrameOf

\* A frame received on a stream: Accept.
LEMMA RxFrameEmulates ==
  ASSUME NEW R, EmulatorInvOf(R), RxFrame
  PROVE  FrameInv(R)' /\ FifoInv' /\ Abstract!Next
<1> DEFINE k == Len(origin) + 1
           c == [frame |-> k, arrival |-> now, leave |-> Zero]
<1>1. PICK b \in Buffers \ live :
        /\ live' = live \union {b}
        /\ pkt' = [pkt EXCEPT ![b] = c]
        /\ rx' = [rx EXCEPT !.pc = "add", !.b = b]
  BY DEF RxFrame, p_emu_packet_init
<1>2. /\ rx.pc = "recv" /\ rx.i \in Streams
      /\ origin' = Append(origin, rx.i) /\ origin \in Seq(Streams)
      /\ UNCHANGED << rx_list, tx_list, pr, tx, txd, out, dropped, leaked >>
  BY DEF RxFrame, EmulatorInvOf, TypeOK, RxType, HistoryType
<1>3. Len(origin) \in Nat /\ Len(origin') = k
  BY <1>2, AppendProperties, LenProperties
<1>4. rx'.pc = "add" /\ rx'.i = rx.i /\ rx'.b = b
  BY <1>1, <1>2 DEF EmulatorInvOf, TypeOK, RxType
<1>5. /\ \A x \in live : pkt'[x].frame = pkt[x].frame /\ FrameOf'[x] = FrameOf[x]
      /\ \A s \in Streams : \A x \in PacketsOf(s) : pkt'[x].frame = pkt[x].frame
      /\ FrameOf'[b] = k /\ pkt'[b].frame = k
  <2>1. c.frame = k
    OBVIOUS
  <2> HIDE DEF c, k
  <2>2. /\ \A x \in live : pkt'[x].frame = pkt[x].frame /\ FrameOf'[x] = FrameOf[x]
        /\ \A s \in Streams : \A x \in PacketsOf(s) : pkt'[x].frame = pkt[x].frame
        /\ FrameOf'[b] = k
    BY <1>1, <2>1, FreshFrame
  <2> QED  BY <2>2 DEF FrameOf
<1>6. FrameInv(R)'
  <2>1. \A x \in Owned(R) : FrameOf[x] \in 1..Len(origin)
    BY DEF EmulatorInvOf, FrameInv
  <2>2. \A x \in Owned(R)' : x = b \/ x \in Owned(R)
    BY <1>1, <1>2 DEF Owned
  <2> QED  BY <1>3, <1>5, <2>1, <2>2 DEF EmulatorInvOf, FrameInv, Owned
<1>7. \A s \in Streams : PacketsOf(s)' = IF s = rx.i THEN PacketsOf(s) \union {b}
                                         ELSE PacketsOf(s)
  BY <1>2, <1>4 DEF PacketsOf
<1>8. Abstract!Next
  <2>1. PICK t \in Streams : t = rx.i
    BY <1>2
  <2>2. PacketsOf(t)' = PacketsOf(t) \union {b}
    BY <1>7, <2>1
  <2> HIDE DEF k
  <2>3. {pkt'[x].frame : x \in PacketsOf(t)'} = Waits[t] \union {k}
    BY <1>5, <2>2 DEF Waits
  <2>4. ASSUME NEW s \in Streams, s # t
        PROVE  {pkt'[x].frame : x \in PacketsOf(s)'} = Waits[s]
    BY <1>5, <1>7, <2>1, <2>4 DEF Waits
  <2>5. Waits' = [s \in Streams |-> {pkt'[x].frame : x \in PacketsOf(s)'}]
    BY DEF Waits
  <2>6. Waits' = [s \in Streams |-> IF s = t THEN Waits[t] \union {k} ELSE Waits[s]]
    BY <2>3, <2>4, <2>5
  <2>7. Waits = [s \in Streams |-> Waits[s]]
    BY DEF Waits
  <2>8. Waits' = [Waits EXCEPT ![t] = @ \union {k}]
    BY <2>6, <2>7
  <2> QED  BY <1>2, <1>3, <2>8, AbstractSteps DEF k
<1>9. ASSUME NEW s \in Streams PROVE FifoOf(s)'
  <2>1. FifoOf(s) /\ PacketsOf(s) \subseteq Owned(R)
    BY PacketsInside DEF EmulatorInvOf, FifoInv
  <2>2. \A x \in PacketsOf(s) : FrameOf'[x] = FrameOf[x] /\ FrameOf[x] < k
    BY <1>3, <1>5, <2>1 DEF EmulatorInvOf, FrameInv, Owned
  <2>3. \A i \in 1..5 : Stages(s)[i] \subseteq PacketsOf(s)
    BY StagesAre
  <2>4. /\ \A i \in 1..4 : Stages(s)'[i] = Stages(s)[i]
        /\ Stages(s)[5] = {} /\ Stages(s)'[5] \subseteq {b}
    BY <1>2, <1>4 DEF Stages
  <2>5. Ordered(Stages(s)', FrameOf')
    <3> SUFFICES ASSUME NEW i \in 1..5, NEW j \in 1..5, i < j,
                        NEW x \in Stages(s)'[i], NEW y \in Stages(s)'[j]
                 PROVE  FrameOf'[x] < FrameOf'[y]
      BY DEF Ordered
    <3>1. i \in 1..4 /\ x \in Stages(s)[i] /\ x \in PacketsOf(s)
      BY <2>3, <2>4
    <3>2. CASE j = 5
      BY <1>5, <2>2, <2>4, <3>1, <3>2
    <3>3. CASE j # 5
      <4>1. j \in 1..4 /\ y \in Stages(s)[j] /\ y \in PacketsOf(s)
        BY <2>3, <2>4, <3>3
      <4> QED  BY <2>1, <2>2, <3>1, <4>1 DEF FifoOf, Ordered
    <3> QED  BY <3>2, <3>3
  <2>6. /\ Increasing(rx_list[s], FrameOf)'
        /\ s \notin Delayed => Increasing(tx_list[s], FrameOf)'
    <3>1. /\ \A m \in 1..Len(rx_list[s]) : rx_list[s][m] \in PacketsOf(s)
          /\ \A m \in 1..Len(tx_list[s]) : tx_list[s][m] \in PacketsOf(s)
      BY ListsInside DEF EmulatorInvOf
    <3>2. /\ Increasing(rx_list[s], FrameOf)
          /\ s \notin Delayed => Increasing(tx_list[s], FrameOf)
      BY <2>1 DEF FifoOf
    <3>3. Increasing(rx_list[s], FrameOf)'
      BY <1>2, <2>2, <3>1, <3>2 DEF Increasing
    <3>4. s \notin Delayed => Increasing(tx_list[s], FrameOf)'
      BY <1>2, <2>2, <3>1, <3>2 DEF Increasing
    <3> QED  BY <3>3, <3>4
  <2> QED  BY <2>5, <2>6 DEF FifoOf
<1> QED  BY <1>6, <1>8, <1>9 DEF FifoInv

\* The step as Emulator sees it, and the invariant after it.
Emulates(R) == FrameInv(R)' /\ TxdInv' /\ FifoInv' /\ [Abstract!Next]_(Abstract!vars)

\* A packet queued by the receive thread keeps its place in the order.
LEMMA RxAddFifo ==
  ASSUME NEW R, EmulatorInvOf(R), RxAdd, NEW s \in Streams
  PROVE  FifoOf(s)'
<1>1. /\ FifoOf(s) /\ FrameOf' = FrameOf /\ rx.b \in Buffers
      /\ UNCHANGED << tx_list, tx, pr >> /\ rx.pc = "add" /\ rx'.pc = "post"
      /\ rx_list[s] \in Seq(Buffers)
      /\ rx_list'[s] = IF s = rx.i THEN Append(rx_list[s], rx.b) ELSE rx_list[s]
  BY DEF EmulatorInvOf, FifoInv, RxAdd, FrameOf, heapVars, TypeOK, RxType, ListType
<1>2. CASE s # rx.i
  BY <1>1, <1>2, FifoKept DEF Stages, EmulatorInvOf
<1>3. CASE s = rx.i
  <2>1. /\ Stages(s)[5] = {rx.b} /\ Stages(s)'[5] = {} /\ Stages(s)[4] = ToSet(rx_list[s])
        /\ Stages(s)'[4] = ToSet(Append(rx_list[s], rx.b))
        /\ \A i \in 1..3 : Stages(s)'[i] = Stages(s)[i]
    BY <1>1, <1>3 DEF Stages
  <2>2. Stages(s)'[4] = Stages(s)[4] \union {rx.b}
    BY <1>1, <2>1, AppendPlaces
  <2>3. Ordered(Stages(s)', FrameOf)
    <3>1. /\ 4 \in 1..4 /\ rx.b \in Stages(s)[4 + 1] /\ Ordered(Stages(s), FrameOf)
          /\ \A y \in Stages(s)[4 + 1] \ {rx.b} : FrameOf[rx.b] < FrameOf[y]
          /\ Stages(s)'[4 + 1] = Stages(s)[4 + 1] \ {rx.b}
          /\ \A i \in 1..5 : i # 4 /\ i # 4 + 1 => Stages(s)'[i] = Stages(s)[i]
      BY <1>1, <2>1 DEF FifoOf
    <3> QED  BY <2>2, <3>1, StageMoves
  <2>4. \A x \in ToSet(rx_list[s]) : FrameOf[x] < FrameOf[rx.b]
    BY <1>1, <2>1 DEF FifoOf, Ordered
  <2>5. Increasing(Append(rx_list[s], rx.b), FrameOf)
    BY <1>1, <2>4, IncreasingAppend DEF FifoOf
  <2> QED  BY <1>1, <1>3, <2>3, <2>5 DEF FifoOf
<1> QED  BY <1>2, <1>3

\* Every step of p_emu_RxThread.
LEMMA RxEmulates ==
  ASSUME NEW R, EmulatorInvOf(R), RxNext
  PROVE  Emulates(R)
<1> USE DEF EmulatorInvOf
<1>1. TxdInv'
  BY DEF TxdInv, RxNext, RxAllocFails, RxNothing, RxFrame, RxAdd, RxAddFails, RxPost
<1>2. CASE RxFrame
  BY <1>1, <1>2, RxFrameEmulates DEF Emulates
<1>3. CASE RxAllocFails \/ RxPost
  <2>1. /\ UNCHANGED << live, pkt, rx_list, tx_list, pr, tx, txd, origin, out, dropped,
                        leaked >>
        /\ rx.pc # "add" /\ rx'.pc # "add"
    BY <1>3 DEF RxAllocFails, RxPost, RxAdvance, heapVars, history
  <2>2. /\ FrameOf' = FrameOf
        /\ \A s \in Streams : Stages(s)' = Stages(s) /\ PacketsOf(s)' = PacketsOf(s)
    BY <2>1 DEF FrameOf, Stages, PacketsOf
  <2>3. FrameInv(R)' /\ FifoInv'
    BY <2>1, <2>2, FramesKept, FifoKept DEF FifoInv, Owned
  <2> QED  BY <1>1, <2>1, <2>2, <2>3, WaitsStay, AbstractSteps DEF Emulates
<1>4. CASE RxNothing
  <2>1. PICK b \in Buffers \ live :
          /\ live' = live \union {b} /\ leaked' = leaked \union {b}
          /\ pkt' = [pkt EXCEPT ![b] = BlankPacket]
    BY <1>4 DEF RxNothing, p_emu_packet_init
  <2>2. /\ UNCHANGED << rx_list, tx_list, pr, tx, txd, origin, out, dropped >>
        /\ rx.pc # "add" /\ rx'.pc # "add"
    BY <1>4 DEF RxNothing, RxAdvance
  <2>3. /\ \A x \in live : FrameOf'[x] = FrameOf[x]
        /\ \A s \in Streams : \A x \in PacketsOf(s) : pkt'[x].frame = pkt[x].frame
    BY <2>1, FreshFrame
  <2>4. \A s \in Streams : Stages(s)' = Stages(s) /\ PacketsOf(s)' = PacketsOf(s)
    BY <2>2 DEF Stages, PacketsOf
  <2>5. FrameInv(R)'
    BY <2>1, <2>2, <2>3, FramesKept DEF Owned
  <2>6. FifoInv'
    BY <2>2, <2>3, <2>4, PacketsInside, FifoKept DEF FifoInv, Owned
  <2> QED  BY <1>1, <2>2, <2>3, <2>4, <2>5, <2>6, WaitsStay, AbstractSteps DEF Emulates
<1>5. CASE RxAdd
  <2>1. /\ UNCHANGED << live, pkt, tx_list, pr, tx, txd, origin, out, dropped, leaked >>
        /\ rx.pc = "add" /\ rx'.pc = "post" /\ rx.b \in Buffers
        /\ \A s \in Streams :
             /\ rx_list[s] \in Seq(Buffers)
             /\ rx_list'[s] = IF s = rx.i THEN Append(rx_list[s], rx.b) ELSE rx_list[s]
    BY <1>5 DEF RxAdd, heapVars, history, TypeOK, RxType, ListType
  <2>2. \A s \in Streams : PacketsOf(s)' = PacketsOf(s)
    <3> SUFFICES ASSUME NEW s \in Streams PROVE PacketsOf(s)' = PacketsOf(s)
      OBVIOUS
    <3>1. ToSet(rx_list'[s]) = IF s = rx.i THEN ToSet(rx_list[s]) \union {rx.b}
                               ELSE ToSet(rx_list[s])
      <4>1. ToSet(Append(rx_list[s], rx.b)) = ToSet(rx_list[s]) \union {rx.b}
        BY <2>1, AppendPlaces
      <4> QED  BY <2>1, <4>1
    <3> QED  BY <2>1, <3>1 DEF PacketsOf
  <2>3. FrameInv(R)'
    BY <2>1, FramesKept DEF FrameOf, Owned
  <2>4. FifoInv'
    BY <1>5, RxAddFifo DEF FifoInv
  <2> QED  BY <1>1, <2>1, <2>2, <2>3, <2>4, WaitsStay, AbstractSteps DEF Emulates
<1>6. CASE RxAddFails
  <2>1. /\ UNCHANGED << pkt, rx_list, tx_list, pr, tx, txd, origin, out, leaked >>
        /\ rx.pc = "add" /\ rx'.pc = "recv" /\ live' = live \ {rx.b}
        /\ dropped' = dropped \union {pkt[rx.b].frame}
    BY <1>6 DEF RxAddFails, RxAdvance, p_emu_packet_discard
  <2>2. PICK t \in Streams : t = rx.i
    BY DEF TypeOK, RxType
  <2>3. PICK b : b = rx.b
    OBVIOUS
  <2>4. /\ 1 \in 1..4 /\ b \in InHand[1] /\ 2 \in 1..4 /\ 3 \in 1..4 /\ 4 \in 1..4
        /\ \A s \in Streams : b \notin ToSet(rx_list[s]) /\ b \notin ToSet(tx_list[s])
        /\ b \notin InHand[2] /\ b \notin InHand[3] /\ b \notin InHand[4]
    BY <2>1, <2>3, HandApart, PlacesAre DEF HandFacts
  <2>5. /\ b \in PacketsOf(t) /\ PacketsOf(t)' = PacketsOf(t) \ {b}
        /\ \A s \in Streams : s # t => PacketsOf(s)' = PacketsOf(s)
    BY <2>1, <2>2, <2>3, <2>4, PlacesAre DEF HandFacts, PacketsOf
  <2>6. \A s \in Streams : \A i \in 1..5 : Stages(s)'[i] \subseteq Stages(s)[i]
    BY <2>1 DEF Stages
  <2>7. FrameInv(R)' /\ FifoInv'
    BY <2>1, <2>6, FramesKept, FifoKept DEF FifoInv, FrameOf, Owned
  <2>8. Abstract!Next
    BY <2>1, <2>3, <2>5, WaitsLeave, AbstractSteps
  <2> QED  BY <1>1, <2>7, <2>8 DEF Emulates
<1> QED  BY <1>2, <1>3, <1>4, <1>5, <1>6 DEF RxNext

-----------------------------------------------------------------------------
(* p_emu_PrThread                                                          *)

\* A step that moves no packet.
LEMMA QuietEmulates ==
  ASSUME NEW R, EmulatorInvOf(R), TxdInv',
         UNCHANGED << live, pkt, rx_list, tx_list, origin, out, dropped, leaked >>,
         \A s \in Streams : Stages(s)' = Stages(s) /\ PacketsOf(s)' = PacketsOf(s)
  PROVE  Emulates(R)
<1>1. FrameInv(R)' /\ FifoInv'
  BY FramesKept, FifoKept DEF FifoInv, FrameOf, EmulatorInvOf, Owned
<1> QED  BY <1>1, WaitsStay, AbstractSteps DEF Emulates

\* A step that frees packet b of stream t, sent or given up.
LEMMA LeavingEmulates ==
  ASSUME NEW R, EmulatorInvOf(R), TxdInv', NEW t \in Streams, NEW b \in PacketsOf(t),
         UNCHANGED << pkt, rx_list, tx_list, origin, leaked >>, live' = live \ {b},
         PacketsOf(t)' = PacketsOf(t) \ {b},
         \A s \in Streams : s # t => PacketsOf(s)' = PacketsOf(s),
         \A s \in Streams : \A i \in 1..5 : Stages(s)'[i] \subseteq Stages(s)[i],
         \/ dropped' = dropped \union {pkt[b].frame} /\ UNCHANGED out
         \/ /\ out' = [out EXCEPT ![t] = Append(@, pkt[b].frame)] /\ UNCHANGED dropped
            /\ t \in Streams \ Delayed => \A g \in Waits[t] : pkt[b].frame <= g
  PROVE  Emulates(R)
<1>1. FrameInv(R)' /\ FifoInv'
  BY FramesKept, FifoKept DEF FifoInv, FrameOf, EmulatorInvOf, Owned
<1>2. /\ Waits' = [Waits EXCEPT ![t] = @ \ {pkt[b].frame}]
      /\ pkt[b].frame \in Waits[t]
  BY WaitsLeave DEF EmulatorInvOf
<1>3. Abstract!Next
  BY <1>2, AbstractSteps
<1> QED  BY <1>1, <1>3 DEF Emulates

\* What a thread has in its hands is in no other place of its stream.
LEMMA PacketLeaves ==
  ASSUME NEW R, OwnershipInvOf(R), NEW k \in 1..4, NEW b, InHand[k] = {b}, InHand'[k] = {},
         \A j \in 1..4 : j # k => InHand'[j] = InHand[j],
         NEW t \in Streams, t = << rx, pr, tx, txd >>[k].i,
         \A j \in 1..4 : j # k => UNCHANGED << rx, pr, tx, txd >>[j],
         UNCHANGED << rx_list, tx_list >>
  PROVE  /\ b \in PacketsOf(t)
         /\ PacketsOf(t)' = PacketsOf(t) \ {b}
         /\ \A s \in Streams : s # t => PacketsOf(s)' = PacketsOf(s)
         /\ \A s \in Streams : \A i \in 1..5 : Stages(s)'[i] \subseteq Stages(s)[i]
<1>1. /\ 1 \in 1..4 /\ 2 \in 1..4 /\ 3 \in 1..4 /\ 4 \in 1..4
      /\ << rx, pr, tx, txd >>[1] = rx /\ << rx, pr, tx, txd >>[2] = pr
      /\ << rx, pr, tx, txd >>[3] = tx /\ << rx, pr, tx, txd >>[4] = txd
  OBVIOUS
<1>2. /\ \A s \in Streams : b \notin ToSet(rx_list[s]) /\ b \notin ToSet(tx_list[s])
      /\ \A j \in 1..4 : j # k => b \notin InHand[j]
  BY HandApart
<1>3. CASE k = 1
  BY <1>1, <1>2, <1>3, PlacesAre DEF HandFacts, PacketsOf, Stages
<1>4. CASE k = 2
  BY <1>1, <1>2, <1>4, PlacesAre DEF HandFacts, PacketsOf, Stages
<1>5. CASE k = 3
  BY <1>1, <1>2, <1>5, PlacesAre DEF HandFacts, PacketsOf, Stages
<1>6. CASE k = 4
  BY <1>1, <1>2, <1>6, PlacesAre DEF HandFacts, PacketsOf, Stages
<1> QED  BY <1>3, <1>4, <1>5, <1>6

\* The packet p_emu_process_received takes is the oldest in rx_list.
LEMMA PrTakeFifo ==
  ASSUME NEW R, EmulatorInvOf(R), PrTake, NEW s \in Streams, rx_list[pr.i] # << >>
  PROVE  FifoOf(s)'
<1>1. /\ FifoOf(s) /\ FrameOf' = FrameOf /\ pr.i \in Streams
      /\ UNCHANGED << tx_list, tx, rx >>
      /\ pr.pc = "take" /\ pr'.pc = "process" /\ pr'.i = pr.i /\ pr'.b = Head(rx_list[pr.i])
      /\ rx_list[s] \in Seq(Buffers)
      /\ rx_list'[s] = IF s = pr.i THEN Tail(rx_list[s]) ELSE rx_list[s]
  BY DEF EmulatorInvOf, FifoInv, PrTake, FrameOf, heapVars, TypeOK, PrType, ListType
<1>2. CASE s # pr.i
  BY <1>1, <1>2, FifoKept DEF Stages, EmulatorInvOf
<1>3. CASE s = pr.i
  <2> DEFINE list == rx_list[s]
  <2>1. /\ Head(list) \in ToSet(list) /\ ToSet(Tail(list)) = ToSet(list) \ {Head(list)}
    BY <1>1, <1>3, ListTwice, TailPlaces DEF EmulatorInvOf
  <2>2. /\ Increasing(Tail(list), FrameOf)
        /\ \A x \in ToSet(list) \ {Head(list)} : FrameOf[Head(list)] < FrameOf[x]
    BY <1>1, <1>3, IncreasingTail DEF FifoOf
  <2>3. /\ Stages(s)[4] = ToSet(list) /\ Stages(s)'[4] = ToSet(Tail(list))
        /\ Stages(s)[3] = {} /\ Stages(s)'[3] = {Head(list)}
        /\ \A i \in 1..5 : i # 3 /\ i # 4 => Stages(s)'[i] = Stages(s)[i]
    BY <1>1, <1>3 DEF Stages
  <2>4. Ordered(Stages(s)', FrameOf)
    <3>1. /\ 3 \in 1..4 /\ Head(list) \in Stages(s)[3 + 1] /\ Ordered(Stages(s), FrameOf)
          /\ \A y \in Stages(s)[3 + 1] \ {Head(list)} : FrameOf[Head(list)] < FrameOf[y]
          /\ Stages(s)'[3] = Stages(s)[3] \union {Head(list)}
          /\ Stages(s)'[3 + 1] = Stages(s)[3 + 1] \ {Head(list)}
          /\ \A i \in 1..5 : i # 3 /\ i # 3 + 1 => Stages(s)'[i] = Stages(s)[i]
      BY <1>1, <2>1, <2>2, <2>3 DEF FifoOf
    <3> HIDE DEF list
    <3> QED  BY <3>1, StageMoves
  <2> QED  BY <1>1, <1>3, <2>2, <2>4 DEF FifoOf
<1> QED  BY <1>2, <1>3

\* It joins tx_list, behind nothing that was received after it.
LEMMA PrInsertFifo ==
  ASSUME NEW R, EmulatorInvOf(R), PrInsert \/ \E d \in DelayOffsets : PrInsertDelayed(d),
         FrameOf' = FrameOf, NEW s \in Streams,
         s # pr.i => UNCHANGED tx_list[s],
         s = pr.i => ToSet(tx_list'[s]) = ToSet(tx_list[s]) \union {pr.b}
  PROVE  FifoOf(s)'
<1>1. /\ FifoOf(s) /\ pr.b \in Buffers /\ pr.i \in Streams
      /\ UNCHANGED << rx_list, tx, rx >>
      /\ pr.pc = "process" /\ pr'.pc # "process"
      /\ tx_list[s] \in Seq(Buffers)
  BY DEF EmulatorInvOf, FifoInv, PrInsert, PrInsertDelayed, TypeOK, PrType, ListType
<1>2. CASE s # pr.i
  BY <1>1, <1>2, FifoKept DEF Stages, EmulatorInvOf
<1>3. CASE s = pr.i
  <2>1. /\ Stages(s)[3] = {pr.b} /\ Stages(s)'[3] = {} /\ Stages(s)[2] = ToSet(tx_list[s])
        /\ Stages(s)'[2] = ToSet(tx_list'[s])
        /\ \A i \in 1..5 : i # 2 /\ i # 3 => Stages(s)'[i] = Stages(s)[i]
    BY <1>1, <1>3 DEF Stages
  <2>2. Stages(s)'[2] = Stages(s)[2] \union {pr.b}
    BY <1>3, <2>1
  <2>3. Ordered(Stages(s)', FrameOf)
    <3>1. /\ 2 \in 1..4 /\ pr.b \in Stages(s)[2 + 1] /\ Ordered(Stages(s), FrameOf)
          /\ \A y \in Stages(s)[2 + 1] \ {pr.b} : FrameOf[pr.b] < FrameOf[y]
          /\ Stages(s)'[2 + 1] = Stages(s)[2 + 1] \ {pr.b}
          /\ \A i \in 1..5 : i # 2 /\ i # 2 + 1 => Stages(s)'[i] = Stages(s)[i]
      BY <1>1, <2>1 DEF FifoOf
    <3> QED  BY <2>2, <3>1, StageMoves
  <2>4. \A x \in ToSet(tx_list[s]) : FrameOf[x] < FrameOf[pr.b]
    BY <1>1, <2>1 DEF FifoOf, Ordered
  <2>5. ASSUME s \notin Delayed PROVE Increasing(tx_list'[s], FrameOf)
    <3>1. tx_list'[s] = Append(tx_list[s], pr.b)
      BY <1>3, <2>5 DEF PrInsert, PrInsertDelayed, EmulatorInvOf, TypeOK, ListType
    <3> QED  BY <1>1, <2>4, <2>5, <3>1, IncreasingAppend DEF FifoOf
  <2> QED  BY <1>1, <1>3, <2>3, <2>5 DEF FifoOf
<1> QED  BY <1>2, <1>3

\* Every step of p_emu_PrThread.
LEMMA PrEmulates ==
  ASSUME NEW R, EmulatorInvOf(R), PrNext
  PROVE  Emulates(R)
<1> USE DEF EmulatorInvOf
<1>1. UNCHANGED << rx, tx, txd, origin, out, leaked >>
  BY DEF PrNext, PrWait, PrCount, PrTake, PrDiscard, PrGiveUp, PrInsertFails, PrInsert,
         PrPost, PrInsertDelayed, PrShow, PrArm, PrArmFaults, history, threadVars
<1>2. TxdInv'
  BY <1>1 DEF TxdInv
<1>3. CASE /\ UNCHANGED << live, pkt, rx_list, tx_list, dropped >>
           /\ \/ pr.pc # "process" /\ pr'.pc # "process"
              \/ UNCHANGED pr
  <2>1. \A s \in Streams : Stages(s)' = Stages(s) /\ PacketsOf(s)' = PacketsOf(s)
    BY <1>1, <1>3 DEF Stages, PacketsOf
  <2> QED  BY <1>1, <1>2, <1>3, <2>1, QuietEmulates
<1>4. ASSUME PrWait \/ PrCount \/ PrShow \/ PrArm \/ PrPost PROVE Emulates(R)
  <2>1. UNCHANGED << live, pkt, rx_list, tx_list, dropped >> /\ pr.pc # "process"
    BY <1>4 DEF PrWait, PrCount, PrShow, PrArm, PrPost, heapVars, history
  <2>2. pr'.pc # "process" \/ UNCHANGED pr
    <3>1. PrAdvance => pr'.pc # "process"
      BY DEF PrAdvance, PrWaiting, TypeOK, PrType
    <3>2. PrWait => pr'.pc # "process"
      BY DEF PrWait
    <3>3. PrCount => pr'.pc # "process"
      BY <3>1 DEF PrCount, TypeOK, PrType
    <3>4. PrShow => pr'.pc # "process" \/ UNCHANGED pr
      BY DEF PrShow, TypeOK, PrType
    <3> QED  BY <1>4, <3>1, <3>2, <3>3, <3>4 DEF PrArm, PrPost
  <2> QED  BY <1>3, <2>1, <2>2
<1>5. ASSUME PrArmFaults \/ (PrTake /\ rx_list[pr.i] = << >>) PROVE Emulates(R)
  BY <1>3, <1>5 DEF PrArmFaults, PrTake, heapVars, threadVars, history
<1>6. CASE PrTake /\ rx_list[pr.i] # << >>
  <2>1. /\ UNCHANGED << live, pkt, tx_list, dropped >> /\ pr.i \in Streams
        /\ pr.pc = "take" /\ pr'.pc = "process" /\ pr'.i = pr.i
        /\ pr'.b = Head(rx_list[pr.i])
        /\ \A s \in Streams :
             /\ rx_list[s] \in Seq(Buffers)
             /\ rx_list'[s] = IF s = pr.i THEN Tail(rx_list[s]) ELSE rx_list[s]
    BY <1>6 DEF PrTake, heapVars, history, TypeOK, PrType, ListType
  <2>2. ASSUME NEW s \in Streams PROVE PacketsOf(s)' = PacketsOf(s)
    <3>1. CASE s # pr.i
      BY <1>1, <2>1, <3>1 DEF PacketsOf
    <3>2. CASE s = pr.i
      <4>1. ToSet(rx_list[s]) = ToSet(rx_list'[s]) \union {pr'.b}
        BY <1>6, <2>1, <3>2, ListTwice, TailPlaces
      <4> QED  BY <1>1, <2>1, <3>2, <4>1 DEF PacketsOf
    <3> QED  BY <3>1, <3>2
  <2>3. FrameInv(R)' /\ FifoInv'
    BY <1>1, <1>6, <2>1, FramesKept, PrTakeFifo DEF FifoInv, FrameOf, Owned
  <2> QED  BY <1>1, <1>2, <2>1, <2>2, <2>3, WaitsStay, AbstractSteps DEF Emulates
<1>7. CASE PrGiveUp /\ pr.pc = "process"
  <2>1. /\ UNCHANGED << pkt, rx_list, tx_list >> /\ live' = live \ {pr.b}
        /\ dropped' = dropped \union {pkt[pr.b].frame}
        /\ pr'.pc # "process" /\ pr.i \in Streams
    BY <1>7
    DEF PrGiveUp, PrAdvance, PrWaiting, p_emu_packet_discard, TypeOK, PrType
  <2>2. PICK t \in Streams, b \in {pr.b} : t = pr.i
    BY <2>1
  <2>3. /\ InHand[2] = {b} /\ InHand'[2] = {} /\ 2 \in 1..4
        /\ \A j \in 1..4 : j # 2 => InHand'[j] = InHand[j]
        /\ t = << rx, pr, tx, txd >>[2].i
        /\ \A j \in 1..4 : j # 2 => UNCHANGED << rx, pr, tx, txd >>[j]
    BY <1>1, <1>7, <2>1, <2>2, PlacesAre DEF HandFacts
  <2>4. /\ b \in PacketsOf(t)
        /\ PacketsOf(t)' = PacketsOf(t) \ {b}
        /\ \A s \in Streams : s # t => PacketsOf(s)' = PacketsOf(s)
        /\ \A s \in Streams : \A i \in 1..5 : Stages(s)'[i] \subseteq Stages(s)[i]
    <3>1. OwnershipInvOf(R) /\ UNCHANGED << rx_list, tx_list >>
      BY <2>1
    <3> QED  BY <2>3, <3>1, PacketLeaves
  <2> QED  BY <1>1, <1>2, <2>1, <2>2, <2>4, LeavingEmulates
<1>8. ASSUME PrInsert \/ \E d \in DelayOffsets : PrInsertDelayed(d) PROVE Emulates(R)
  <2>1. /\ UNCHANGED << live, rx_list, dropped >> /\ pr.i \in Streams /\ pr.b \in Buffers
        /\ pr.pc = "process" /\ pr'.pc # "process"
        /\ \A s \in Streams : tx_list[s] \in Seq(Buffers)
    BY <1>8 DEF PrInsert, PrInsertDelayed, heapVars, history, TypeOK, PrType, ListType
  <2>2. \A b \in Buffers : pkt'[b].frame = pkt[b].frame
    <3>1. ASSUME NEW d \in DelayOffsets, PrInsertDelayed(d), NEW b \in Buffers
          PROVE  pkt'[b].frame = pkt[b].frame
      <4>1. pkt[b] \in Packet /\ pkt \in [Buffers -> Packet]
        BY DEF TypeOK, HeapType
      <4>2. pkt' = [pkt EXCEPT ![pr.b].leave = p_emu_delay_calculate(pkt[pr.b].arrival, d)]
        BY <3>1 DEF PrInsertDelayed
      <4> QED  BY <4>1, <4>2 DEF Packet
    <3> QED  BY <1>8, <3>1 DEF PrInsert, heapVars
  <2>3. FrameOf' = FrameOf
    BY <2>2 DEF FrameOf
  <2>4. \A s \in Streams : /\ s # pr.i => tx_list'[s] = tx_list[s]
                           /\ s = pr.i => ToSet(tx_list'[s]) = ToSet(tx_list[s]) \union {pr.b}
    <3>1. CASE PrInsert
      BY <2>1, <3>1, AppendPlaces DEF PrInsert, TypeOK, ListType
    <3>2. ASSUME NEW d \in DelayOffsets, PrInsertDelayed(d)
          PROVE  \A s \in Streams :
                   /\ s # pr.i => tx_list'[s] = tx_list[s]
                   /\ s = pr.i => ToSet(tx_list'[s]) = ToSet(tx_list[s]) \union {pr.b}
      <4> DEFINE leave == LeaveOf'
      <4>1. \A s \in Streams :
              tx_list'[s] = IF s = pr.i THEN slib_insert_and_sort(tx_list[s], pr.b, leave)
                            ELSE tx_list[s]
        BY <2>1, <3>2 DEF PrInsertDelayed, TypeOK, ListType
      <4> HIDE DEF leave
      <4> QED  BY <2>1, <4>1, InsertPlaces
    <3> QED  BY <1>8, <3>1, <3>2
  <2>5. ASSUME NEW s \in Streams PROVE PacketsOf(s)' = PacketsOf(s)
    BY <1>1, <2>1, <2>4 DEF PacketsOf
  <2>6. \A s \in Streams : PacketsOf(s) \subseteq Buffers
    BY PacketsInside DEF TypeOK, HeapType, Owned
  <2>7. FrameInv(R)' /\ FifoInv'
    BY <1>1, <1>8, <2>1, <2>3, <2>4, FramesKept, PrInsertFifo DEF FifoInv, Owned
  <2> QED
    BY <1>1, <1>2, <2>1, <2>2, <2>5, <2>6, <2>7, WaitsStay, AbstractSteps DEF Emulates
<1> QED
  BY <1>4, <1>5, <1>6, <1>7, <1>8 DEF PrNext, PrDiscard, PrInsertFails

-----------------------------------------------------------------------------
(* p_emu_TxThread                                                          *)

\* The packet p_emu_tx_non_delayed_packet takes is the oldest of its stream.
LEMMA TxTakeFifo ==
  ASSUME NEW R, EmulatorInvOf(R), TxTake, NEW s \in Streams, tx_list[tx.i] # << >>
  PROVE  FifoOf(s)'
<1>1. /\ FifoOf(s) /\ FrameOf' = FrameOf /\ tx.i \in Streams
      /\ UNCHANGED << rx_list, pr, rx >>
      /\ tx.pc = "take" /\ tx'.pc = "send" /\ tx'.i = tx.i /\ tx'.b = Head(tx_list[tx.i])
      /\ tx_list[s] \in Seq(Buffers)
      /\ tx_list'[s] = IF s = tx.i THEN Tail(tx_list[s]) ELSE tx_list[s]
      /\ tx.i \notin Delayed
  BY DEF EmulatorInvOf, FifoInv, TxTake, FrameOf, heapVars, TypeOK, TxType, ListType
<1>2. CASE s # tx.i
  BY <1>1, <1>2, FifoKept DEF Stages, EmulatorInvOf
<1>3. CASE s = tx.i
  <2> DEFINE list == tx_list[s]
  <2>1. /\ Head(list) \in ToSet(list) /\ ToSet(Tail(list)) = ToSet(list) \ {Head(list)}
    BY <1>1, <1>3, ListTwice, TailPlaces DEF EmulatorInvOf
  <2>2. /\ Increasing(Tail(list), FrameOf)
        /\ \A x \in ToSet(list) \ {Head(list)} : FrameOf[Head(list)] < FrameOf[x]
    BY <1>1, <1>3, IncreasingTail DEF FifoOf
  <2>3. /\ Stages(s)[2] = ToSet(list) /\ Stages(s)'[2] = ToSet(Tail(list))
        /\ Stages(s)[1] = {} /\ Stages(s)'[1] = {Head(list)}
        /\ \A i \in 1..5 : i # 1 /\ i # 2 => Stages(s)'[i] = Stages(s)[i]
    BY <1>1, <1>3 DEF Stages
  <2>4. Ordered(Stages(s)', FrameOf)
    <3>1. /\ 1 \in 1..4 /\ Head(list) \in Stages(s)[1 + 1] /\ Ordered(Stages(s), FrameOf)
          /\ \A y \in Stages(s)[1 + 1] \ {Head(list)} : FrameOf[Head(list)] < FrameOf[y]
          /\ Stages(s)'[1] = Stages(s)[1] \union {Head(list)}
          /\ Stages(s)'[1 + 1] = Stages(s)[1 + 1] \ {Head(list)}
          /\ \A i \in 1..5 : i # 1 /\ i # 1 + 1 => Stages(s)'[i] = Stages(s)[i]
      BY <1>1, <2>1, <2>2, <2>3 DEF FifoOf
    <3> HIDE DEF list
    <3> QED  BY <3>1, StageMoves
  <2> QED  BY <1>1, <1>3, <2>2, <2>4 DEF FifoOf
<1> QED  BY <1>2, <1>3

\* The packet in the thread's hands is the oldest of all.
LEMMA TxOldest ==
  ASSUME NEW R, EmulatorInvOf(R), tx.pc = "send", tx.i \in Streams \ Delayed
  PROVE  \A g \in Waits[tx.i] : pkt[tx.b].frame <= g
<1> USE DEF EmulatorInvOf
<1>1. PICK t \in Streams \ Delayed : t = tx.i
  OBVIOUS
<1>2. SUFFICES ASSUME NEW x \in PacketsOf(t) PROVE pkt[tx.b].frame <= pkt[x].frame
  BY <1>1 DEF Waits
<1>3. txd.pc = "send" => txd.i # t
  BY <1>1 DEF TxdInv
<1>4. Stages(t)[1] = {tx.b}
  BY <1>1 DEF Stages
<1>5. x = tx.b \/ \E i \in 2..5 : x \in Stages(t)[i]
  BY <1>3, <1>4, StagesAre
<1>6. ASSUME NEW i \in 2..5, x \in Stages(t)[i] PROVE FrameOf[tx.b] < FrameOf[x]
  BY <1>1, <1>4, <1>6 DEF FifoInv, FifoOf, Ordered
<1>7. tx.b \in Buffers /\ x \in Buffers
  BY PacketsInside DEF TypeOK, HeapType, TxType, Owned
<1>8. pkt[tx.b].frame \in Nat /\ pkt[x].frame \in Nat
  BY <1>7 DEF TypeOK, HeapType, Packet
<1> QED  BY <1>5, <1>6, <1>7, <1>8 DEF FrameOf

\* Every step of p_emu_TxThread.
LEMMA TxEmulates ==
  ASSUME NEW R, EmulatorInvOf(R), TxNext
  PROVE  Emulates(R)
<1> USE DEF EmulatorInvOf
<1>1. UNCHANGED << rx, pr, txd, rx_list, origin, leaked, pkt >>
  BY DEF TxNext, TxWait, TxSkip, TxTake, TxSend, TxExhausted, history, threadVars, heapVars
<1>2. TxdInv'
  BY <1>1 DEF TxdInv
<1>3. CASE /\ UNCHANGED << live, tx_list, out, dropped >>
           /\ \/ tx.pc # "send" /\ tx'.pc # "send"
              \/ UNCHANGED tx
  <2>1. \A s \in Streams : Stages(s)' = Stages(s) /\ PacketsOf(s)' = PacketsOf(s)
    BY <1>1, <1>3 DEF Stages, PacketsOf
  <2> QED  BY <1>1, <1>2, <1>3, <2>1, QuietEmulates
<1>4. ASSUME TxWait \/ TxSkip \/ (TxTake /\ tx_list[tx.i] = << >>) PROVE Emulates(R)
  <2>1. UNCHANGED << live, tx_list, out, dropped >> /\ tx.pc # "send"
    BY <1>4 DEF TxWait, TxSkip, TxTake, heapVars, history
  <2>2. tx'.pc # "send" \/ UNCHANGED tx
    <3>1. TxAdvance => tx'.pc # "send"
      BY DEF TxAdvance, TxWaiting, TypeOK, TxType
    <3>2. TxWait => tx'.pc # "send"
      BY DEF TxWait
    <3> QED  BY <1>4, <3>1, <3>2 DEF TxSkip, TxTake
  <2> QED  BY <1>3, <2>1, <2>2
<1>5. ASSUME NEW r \in SendResults, TxExhausted(r) PROVE Emulates(R)
  BY <1>3, <1>5 DEF TxExhausted, heapVars, threadVars, history
<1>6. CASE TxTake /\ tx_list[tx.i] # << >>
  <2>1. /\ UNCHANGED << live, out, dropped >> /\ tx.i \in Streams
        /\ tx.pc = "take" /\ tx'.pc = "send" /\ tx'.i = tx.i
        /\ tx'.b = Head(tx_list[tx.i])
        /\ \A s \in Streams :
             /\ tx_list[s] \in Seq(Buffers)
             /\ tx_list'[s] = IF s = tx.i THEN Tail(tx_list[s]) ELSE tx_list[s]
    BY <1>6 DEF TxTake, heapVars, history, TypeOK, TxType, ListType
  <2>2. ASSUME NEW s \in Streams PROVE PacketsOf(s)' = PacketsOf(s)
    <3>1. CASE s # tx.i
      BY <1>1, <2>1, <3>1 DEF PacketsOf
    <3>2. CASE s = tx.i
      <4>1. ToSet(tx_list[s]) = ToSet(tx_list'[s]) \union {tx'.b}
        BY <1>6, <2>1, <3>2, ListTwice, TailPlaces
      <4> QED  BY <1>1, <2>1, <3>2, <4>1 DEF PacketsOf
    <3> QED  BY <3>1, <3>2
  <2>3. FrameInv(R)' /\ FifoInv'
    BY <1>1, <1>6, <2>1, FramesKept, TxTakeFifo DEF FifoInv, FrameOf, Owned
  <2> QED  BY <1>1, <1>2, <2>1, <2>2, <2>3, WaitsStay, AbstractSteps DEF Emulates
<1>7. ASSUME NEW r \in SendResults, TxSend(r) PROVE Emulates(R)
  <2>1. /\ UNCHANGED tx_list /\ live' = live \ {tx.b}
        /\ tx.pc = "send" /\ tx'.pc # "send" /\ tx.i \in Streams
    BY <1>7 DEF TxSend, TxAdvance, TxWaiting, p_emu_packet_discard, TypeOK, TxType
  <2>2. PICK t \in Streams, b \in {tx.b} : t = tx.i
    BY <2>1
  <2>3. /\ InHand[3] = {b} /\ InHand'[3] = {} /\ 3 \in 1..4
        /\ \A j \in 1..4 : j # 3 => InHand'[j] = InHand[j]
        /\ t = << rx, pr, tx, txd >>[3].i
        /\ \A j \in 1..4 : j # 3 => UNCHANGED << rx, pr, tx, txd >>[j]
    BY <1>1, <2>1, <2>2, PlacesAre DEF HandFacts
  <2>4. /\ b \in PacketsOf(t)
        /\ PacketsOf(t)' = PacketsOf(t) \ {b}
        /\ \A s \in Streams : s # t => PacketsOf(s)' = PacketsOf(s)
        /\ \A s \in Streams : \A i \in 1..5 : Stages(s)'[i] \subseteq Stages(s)[i]
    BY <1>1, <2>1, <2>3, PacketLeaves
  <2>5. \/ dropped' = dropped \union {pkt[b].frame} /\ UNCHANGED out
        \/ out' = [out EXCEPT ![t] = Append(@, pkt[b].frame)] /\ UNCHANGED dropped
    BY <1>7, <2>2 DEF TxSend
  <2>6. t \in Streams \ Delayed => \A g \in Waits[t] : pkt[b].frame <= g
    BY <2>1, <2>2, TxOldest
  <2> QED  BY <1>1, <1>2, <2>1, <2>2, <2>4, <2>5, <2>6, LeavingEmulates
<1> QED  BY <1>4, <1>5, <1>6, <1>7 DEF TxNext

-----------------------------------------------------------------------------
(* p_emu_TxThread_Delayed                                                  *)

\* Every step of p_emu_TxThread_Delayed.
LEMMA TxdEmulates ==
  ASSUME NEW R, EmulatorInvOf(R), TxdNext
  PROVE  Emulates(R)
<1> USE DEF EmulatorInvOf
<1>1. UNCHANGED << rx, pr, tx, rx_list, origin, leaked, pkt >>
  BY DEF TxdNext, TxdRead, TxdNothing, TxdTake, TxdSend, TxdShow, TxdArm, history, heapVars
<1>2. TxdInv'
  <2>1. CASE UNCHANGED txd
    BY <2>1 DEF TxdInv
  <2>2. CASE TxdAdvance
    BY <2>2 DEF TxdAdvance, TxdInv
  <2>3. CASE TxdRead
    BY <2>3 DEF TxdRead, TxdInv, TypeOK, TxdType
  <2>4. CASE TxdTake
    BY <2>1, <2>4 DEF TxdTake, TxdInv, TypeOK, TxdType
  <2>5. CASE TxdShow
    BY <2>2, <2>5 DEF TxdShow, TxdInv, TypeOK, TxdType
  <2>6. ASSUME NEW r \in SendResults, TxdSend(r) PROVE TxdInv'
    BY <2>6 DEF TxdSend, TxdInv, TypeOK, TxdType
  <2> QED  BY <2>2, <2>3, <2>4, <2>5, <2>6 DEF TxdNext, TxdNothing, TxdArm
<1>3. CASE /\ UNCHANGED << live, tx_list, out, dropped >>
           /\ \/ txd.pc # "send" /\ txd'.pc # "send"
              \/ UNCHANGED txd
  <2>1. \A s \in Streams : Stages(s)' = Stages(s) /\ PacketsOf(s)' = PacketsOf(s)
    BY <1>1, <1>3 DEF Stages, PacketsOf
  <2> QED  BY <1>1, <1>2, <1>3, <2>1, QuietEmulates
<1>4. ASSUME \/ TxdRead \/ TxdNothing \/ TxdShow \/ TxdArm
             \/ TxdTake /\ tx_list[txd.i] = << >>
      PROVE  Emulates(R)
  <2>1. UNCHANGED << live, tx_list, out, dropped >> /\ txd.pc # "send"
    BY <1>4 DEF TxdRead, TxdNothing, TxdShow, TxdArm, TxdTake, heapVars, history
  <2>2. txd'.pc # "send" \/ UNCHANGED txd
    <3>1. TxdAdvance => txd'.pc # "send"
      BY DEF TxdAdvance
    <3>2. TxdRead => txd'.pc # "send"
      BY DEF TxdRead, TypeOK, TxdType
    <3>3. TxdShow => txd'.pc # "send"
      BY <3>1 DEF TxdShow, TypeOK, TxdType
    <3> QED  BY <1>4, <3>1, <3>2, <3>3 DEF TxdNothing, TxdArm, TxdTake
  <2> QED  BY <1>3, <2>1, <2>2
<1>5. CASE TxdTake /\ tx_list[txd.i] # << >>
  <2>1. /\ UNCHANGED << live, out, dropped >> /\ txd.i \in Streams /\ txd.i \in Delayed
        /\ txd.pc = "take" /\ txd'.pc = "send" /\ txd'.i = txd.i
        /\ txd'.b = Head(tx_list[txd.i])
        /\ \A s \in Streams :
             /\ tx_list[s] \in Seq(Buffers)
             /\ tx_list'[s] = IF s = txd.i THEN Tail(tx_list[s]) ELSE tx_list[s]
    BY <1>5 DEF TxdTake, TxdInv, heapVars, history, TypeOK, TxdType, ListType
  <2>2. ASSUME NEW s \in Streams PROVE PacketsOf(s)' = PacketsOf(s)
    <3>1. CASE s # txd.i
      BY <1>1, <2>1, <3>1 DEF PacketsOf
    <3>2. CASE s = txd.i
      <4>1. ToSet(tx_list[s]) = ToSet(tx_list'[s]) \union {txd'.b}
        BY <1>5, <2>1, <3>2, ListTwice, TailPlaces
      <4> QED  BY <1>1, <2>1, <3>2, <4>1 DEF PacketsOf
    <3> QED  BY <3>1, <3>2
  <2>3. ASSUME NEW s \in Streams
        PROVE  /\ \A i \in 1..5 : Stages(s)'[i] \subseteq Stages(s)[i]
               /\ s \notin Delayed => UNCHANGED tx_list[s]
    <3>1. ToSet(tx_list'[s]) \subseteq ToSet(tx_list[s])
      BY <1>5, <2>1, ListTwice, TailPlaces
    <3> QED  BY <1>1, <2>1, <3>1 DEF Stages
  <2>4. FrameInv(R)' /\ FifoInv'
    BY <1>1, <2>1, <2>3, FramesKept, FifoKept DEF FifoInv, FrameOf, Owned
  <2> QED  BY <1>1, <1>2, <2>1, <2>2, <2>4, WaitsStay, AbstractSteps DEF Emulates
<1>6. ASSUME NEW r \in SendResults, TxdSend(r) PROVE Emulates(R)
  <2>1. /\ UNCHANGED tx_list /\ live' = live \ {txd.b}
        /\ txd.pc = "send" /\ txd'.pc # "send" /\ txd.i \in Streams
    BY <1>6 DEF TxdSend, p_emu_packet_discard, TypeOK, TxdType
  <2>2. PICK t \in Streams, b \in {txd.b} : t = txd.i
    BY <2>1
  <2>3. /\ InHand[4] = {b} /\ InHand'[4] = {} /\ 4 \in 1..4
        /\ \A j \in 1..4 : j # 4 => InHand'[j] = InHand[j]
        /\ t = << rx, pr, tx, txd >>[4].i
        /\ \A j \in 1..4 : j # 4 => UNCHANGED << rx, pr, tx, txd >>[j]
    BY <1>1, <2>1, <2>2, PlacesAre DEF HandFacts
  <2>4. /\ b \in PacketsOf(t)
        /\ PacketsOf(t)' = PacketsOf(t) \ {b}
        /\ \A s \in Streams : s # t => PacketsOf(s)' = PacketsOf(s)
        /\ \A s \in Streams : \A i \in 1..5 : Stages(s)'[i] \subseteq Stages(s)[i]
    BY <1>1, <2>1, <2>3, PacketLeaves
  <2>5. \/ dropped' = dropped \union {pkt[b].frame} /\ UNCHANGED out
        \/ out' = [out EXCEPT ![t] = Append(@, pkt[b].frame)] /\ UNCHANGED dropped
    BY <1>6, <2>2 DEF TxdSend
  <2>6. t \in Delayed
    BY <2>1, <2>2 DEF TxdInv
  <2> QED  BY <1>1, <1>2, <2>1, <2>2, <2>4, <2>5, <2>6, LeavingEmulates
<1> QED  BY <1>4, <1>5, <1>6 DEF TxdNext

-----------------------------------------------------------------------------
(* The theorem                                                             *)

\* The emulator starts with nothing accepted.
LEMMA EmulatorInit == Init => EmulatorInv /\ Abstract!Init
<1> SUFFICES ASSUME Init PROVE EmulatorInv /\ Abstract!Init
  OBVIOUS
<1>1. TypeOK /\ OwnershipInvOf({})
  BY InitType, OwnershipInit DEF OwnershipInv
<1>2. /\ rx.pc = "recv" /\ pr.pc = "wait" /\ tx.pc = "wait" /\ txd.pc = "read"
      /\ \A s \in Streams : rx_list[s] = << >> /\ tx_list[s] = << >>
      /\ live = {} /\ origin = << >>
  BY DEF Init, RxInit, PrInit, TxInit, TxdInit, RxStart, PrWaiting, TxWaiting, TxdStart
<1>3. ToSet(<< >>) = {} /\ Len(<< >>) = 0
  BY DEF ToSet
<1>4. FrameInv({}) /\ TxdInv
  BY <1>2 DEF FrameInv, Owned, TxdInv
<1>5. FifoInv
  <2> SUFFICES ASSUME NEW s \in Streams PROVE FifoOf(s)
    BY DEF FifoInv
  <2>1. \A i \in 1..5 : Stages(s)[i] = {}
    BY <1>2, <1>3 DEF Stages
  <2> QED  BY <1>2, <1>3, <2>1 DEF FifoOf, Ordered, Increasing
<1>6. Abstract!Init
  <2>1. \A s \in Streams : PacketsOf(s) = {}
    BY <1>2, <1>3 DEF PacketsOf
  <2> QED  BY <1>2, <1>3, <2>1 DEF Abstract!Init, Init
<1> QED  BY <1>1, <1>4, <1>5, <1>6 DEF EmulatorInv, EmulatorInvOf

\* Every step keeps the invariant and is a step of Emulator or none.
LEMMA EmulatorStep ==
  ASSUME NEW R, EmulatorInvOf(R), [Next]_vars
  PROVE  EmulatorInvOf(R)' /\ [Abstract!Next]_(Abstract!vars)
<1>1. TypeOK' /\ OwnershipInvOf(R)'
  BY NextType, OwnershipStep DEF EmulatorInvOf
<1>2. CASE Tick \/ UNCHANGED vars
  <2>1. UNCHANGED << live, pkt, rx_list, tx_list, rx, pr, tx, txd, origin, out, dropped,
                     leaked >>
    BY <1>2 DEF Tick, vars, heapVars, threadVars, history
  <2>2. /\ TxdInv'
        /\ \A s \in Streams : Stages(s)' = Stages(s) /\ PacketsOf(s)' = PacketsOf(s)
    BY <2>1 DEF EmulatorInvOf, TxdInv, Stages, PacketsOf
  <2>3. Emulates(R)
    BY <2>1, <2>2, QuietEmulates
  <2> QED  BY <1>1, <2>3 DEF Emulates, EmulatorInvOf
<1> QED
  BY <1>1, <1>2, RxEmulates, PrEmulates, TxEmulates, TxdEmulates
  DEF Next, Halted, Emulates, EmulatorInvOf

\* Before the process runs the reverse path, nothing is anybody else's.
LEMMA EmulatorNext ==
  EmulatorInv /\ [Next]_vars => EmulatorInv' /\ [Abstract!Next]_(Abstract!vars)
  BY EmulatorStep DEF EmulatorInv

\* Whatever the schedule, the number of streams and buffers, the delays, and the
\* failures of sockets and lists: each frame accepted on a stream leaves once, on
\* that stream or into the set of frames given up, and a stream without delay
\* keeps its frames in order.
THEOREM ThreadsImplementEmulator == Spec => ImplementsEmulator
<1>1. Spec => Abstract!Init /\ [][Abstract!Next]_(Abstract!vars)
  BY EmulatorInit, EmulatorNext, PTL DEF Spec
<1> QED  BY <1>1, PTL DEF ImplementsEmulator, Abstract!Spec

-----------------------------------------------------------------------------
(* What Emulator's promise comes to                                        *)

SentIn(list) == {list[k] : k \in DOMAIN list}

\* LeavesOnce and InOrder of Emulator, for n frames accepted, the frames w[s] that
\* wait in stream s, those sent o[s], and those given up d: the forward path and
\* the reverse path each have such a state.
PromiseOf(F, n, w, o, d) ==
    /\ n \in Nat /\ DOMAIN w = Streams
    /\ o \in [Streams -> Seq(Int)]
    /\ d \union UNION {w[s] \union SentIn(o[s]) : s \in Streams} = 1..n
    /\ \A s \in Streams :
         /\ w[s] \intersect SentIn(o[s]) = {}
         /\ d \intersect (w[s] \union SentIn(o[s])) = {}
         /\ \A k, m \in DOMAIN o[s] : o[s][k] = o[s][m] => k = m
    /\ \A s, t \in Streams :
         s # t => (w[s] \union SentIn(o[s])) \intersect (w[t] \union SentIn(o[t])) = {}
    /\ \A s \in F :
         /\ \A k, m \in DOMAIN o[s] : k < m => o[s][k] < o[s][m]
         /\ \A f \in SentIn(o[s]), g \in w[s] : f < g

\* Nothing has been accepted.
LEMMA PromiseAtFirst ==
  ASSUME NEW F \in SUBSET Streams
  PROVE  PromiseOf(F, 0, [s \in Streams |-> {}], [s \in Streams |-> << >>], {})
<1> DEFINE w == [s \in Streams |-> {}]
           o == [s \in Streams |-> << >>]
<1>1. << >> \in Seq(Int) /\ DOMAIN << >> = {} /\ SentIn(<< >>) = {}
  BY EmptySeq DEF SentIn
<1>2. o \in [Streams -> Seq(Int)] /\ \A s \in Streams : w[s] = {} /\ o[s] = << >>
  BY <1>1
<1>3. UNION {w[s] \union SentIn(o[s]) : s \in Streams} = {}
  BY <1>1, <1>2
<1>4. 1..0 = {} /\ DOMAIN w = Streams
  OBVIOUS
<1> HIDE DEF w, o
<1>5. PromiseOf(F, 0, w, o, {})
  BY <1>1, <1>2, <1>3, <1>4 DEF PromiseOf
<1> QED  BY <1>5 DEF w, o

\* A frame accepted is a new one, and the youngest.
LEMMA PromiseAccept ==
  ASSUME NEW F \in SUBSET Streams, NEW n, NEW w, NEW o, NEW d, PromiseOf(F, n, w, o, d),
         NEW s \in Streams
  PROVE  PromiseOf(F, n + 1, [w EXCEPT ![s] = @ \union {n + 1}], o, d)
<1> DEFINE w2 == [w EXCEPT ![s] = @ \union {n + 1}]
<1>1. /\ n \in Nat /\ DOMAIN w = Streams /\ DOMAIN w2 = Streams
      /\ \A t \in Streams : w2[t] = IF t = s THEN w[t] \union {n + 1} ELSE w[t]
  BY DEF PromiseOf
<1>2. d \subseteq 1..n /\ \A t \in Streams : w[t] \union SentIn(o[t]) \subseteq 1..n
  BY DEF PromiseOf
<1>3. n + 1 \notin 1..n /\ 1..(n + 1) = (1..n) \union {n + 1} /\ n + 1 \in Nat
  BY <1>1
<1> HIDE DEF w2
<1>4. d \union UNION {w2[t] \union SentIn(o[t]) : t \in Streams} = 1..(n + 1)
  <2> DEFINE before == UNION {w[t] \union SentIn(o[t]) : t \in Streams}
             after == UNION {w2[t] \union SentIn(o[t]) : t \in Streams}
  <2>1. d \union before = 1..n
    BY DEF PromiseOf
  <2>2. PICK k : k = n + 1
    OBVIOUS
  <2>3. \A t \in Streams : w2[t] = IF t = s THEN w[t] \union {k} ELSE w[t]
    BY <1>1, <2>2
  <2>4. ASSUME NEW x
        PROVE  /\ x \in before <=> \E t \in Streams : x \in w[t] \/ x \in SentIn(o[t])
               /\ x \in after <=> \E t \in Streams : x \in w2[t] \/ x \in SentIn(o[t])
    OBVIOUS
  <2> HIDE DEF before, after
  <2>5. \A x : x \in after <=> x \in before \/ x = k
    <3> SUFFICES ASSUME NEW x PROVE x \in after <=> x \in before \/ x = k
      OBVIOUS
    <3>1. x \in before => x \in after
      BY <2>3, <2>4
    <3>2. k \in after
      BY <2>3, <2>4
    <3>3. x \in after => x \in before \/ x = k
      BY <2>3, <2>4
    <3> QED  BY <3>1, <3>2, <3>3
  <2>6. after = before \union {k}
    BY <2>5
  <2>7. d \union after = 1..(n + 1)
    BY <1>3, <2>1, <2>2, <2>6
  <2> QED  BY <2>7 DEF after
<1>5. ASSUME NEW t \in Streams
      PROVE  /\ w2[t] \intersect SentIn(o[t]) = {}
             /\ d \intersect (w2[t] \union SentIn(o[t])) = {}
  <2>1. w[t] \intersect SentIn(o[t]) = {} /\ d \intersect (w[t] \union SentIn(o[t])) = {}
    BY DEF PromiseOf
  <2> QED  BY <1>1, <1>2, <1>3, <2>1
<1>6. ASSUME NEW t \in Streams, NEW u \in Streams, t # u
      PROVE  (w2[t] \union SentIn(o[t])) \intersect (w2[u] \union SentIn(o[u])) = {}
  <2>1. (w[t] \union SentIn(o[t])) \intersect (w[u] \union SentIn(o[u])) = {}
    BY <1>6 DEF PromiseOf
  <2> QED  BY <1>1, <1>2, <1>3, <1>6, <2>1
<1>7. ASSUME NEW t \in F, NEW f \in SentIn(o[t]), NEW g \in w2[t] PROVE f < g
  <2>1. t \in Streams /\ f \in 1..n
    BY <1>2
  <2>2. CASE g \in w[t]
    BY <2>2 DEF PromiseOf
  <2>3. CASE g = n + 1
    BY <1>1, <2>1, <2>3
  <2> QED  BY <1>1, <2>1, <2>2, <2>3
<1>8. PromiseOf(F, n + 1, w2, o, d)
  BY <1>1, <1>3, <1>4, <1>5, <1>6, <1>7 DEF PromiseOf
<1> QED  BY <1>8 DEF w2

\* Frames given up go from those that wait to those that do not return.
LEMMA PromiseGiveUp ==
  ASSUME NEW F \in SUBSET Streams, NEW n, NEW w, NEW o, NEW d, PromiseOf(F, n, w, o, d),
         NEW w2, DOMAIN w2 = Streams, \A s \in Streams : w2[s] \subseteq w[s],
         NEW d2, d2 = d \union UNION {w[s] \ w2[s] : s \in Streams}
  PROVE  PromiseOf(F, n, w2, o, d2)
<1>1. d2 \union UNION {w2[s] \union SentIn(o[s]) : s \in Streams} = 1..n
  <2>1. d2 \union UNION {w2[s] \union SentIn(o[s]) : s \in Streams}
          = d \union UNION {w[s] \union SentIn(o[s]) : s \in Streams}
    OBVIOUS
  <2> QED  BY <2>1 DEF PromiseOf
<1>2. ASSUME NEW s \in Streams
      PROVE  /\ w2[s] \intersect SentIn(o[s]) = {}
             /\ d2 \intersect (w2[s] \union SentIn(o[s])) = {}
  <2>1. ASSUME NEW f \in w2[s] \union SentIn(o[s]), NEW t \in Streams, f \in w[t] \ w2[t]
        PROVE  FALSE
    <3>1. CASE t = s
      BY <2>1, <3>1 DEF PromiseOf
    <3>2. CASE t # s
      BY <2>1, <3>2 DEF PromiseOf
    <3> QED  BY <3>1, <3>2
  <2>2. w[s] \intersect SentIn(o[s]) = {} /\ d \intersect (w[s] \union SentIn(o[s])) = {}
    BY DEF PromiseOf
  <2> QED  BY <2>1, <2>2
<1>3. ASSUME NEW t \in Streams, NEW u \in Streams, t # u
      PROVE  (w2[t] \union SentIn(o[t])) \intersect (w2[u] \union SentIn(o[u])) = {}
  <2>1. (w[t] \union SentIn(o[t])) \intersect (w[u] \union SentIn(o[u])) = {}
    BY <1>3 DEF PromiseOf
  <2> QED  BY <2>1
<1> QED  BY <1>1, <1>2, <1>3 DEF PromiseOf

\* A frame sent is the last on its stream.
LEMMA PromiseSend ==
  ASSUME NEW F \in SUBSET Streams, NEW n, NEW w, NEW o, NEW d, PromiseOf(F, n, w, o, d),
         NEW s \in Streams, NEW f \in w[s], s \in F => \A g \in w[s] : f <= g
  PROVE  PromiseOf(F, n, [w EXCEPT ![s] = @ \ {f}], [o EXCEPT ![s] = Append(@, f)], d)
<1> DEFINE w2 == [w EXCEPT ![s] = @ \ {f}]
           o2 == [o EXCEPT ![s] = Append(@, f)]
           l == Len(o[s])
<1>0. f \in Int
  <2>1. f \in UNION {w[t] \union SentIn(o[t]) : t \in Streams}
    OBVIOUS
  <2>2. f \in 1..n
    BY <2>1 DEF PromiseOf
  <2> QED  BY <2>2
<1>1. /\ DOMAIN w2 = Streams /\ DOMAIN o2 = Streams /\ n \in Nat
      /\ \A t \in Streams : w2[t] = IF t = s THEN w[t] \ {f} ELSE w[t]
      /\ \A t \in Streams : o2[t] = IF t = s THEN Append(o[t], f) ELSE o[t]
      /\ \A t \in Streams : o[t] \in Seq(Int)
  BY DEF PromiseOf
<1>2. /\ l \in Nat /\ DOMAIN o[s] = 1..l
      /\ Append(o[s], f) \in Seq(Int) /\ DOMAIN Append(o[s], f) = 1..(l + 1)
      /\ \A k \in 1..l : Append(o[s], f)[k] = o[s][k]
      /\ Append(o[s], f)[l + 1] = f
  BY <1>0, <1>1, AppendProperties, LenProperties
<1>3. 1..(l + 1) = (1..l) \union {l + 1} /\ l + 1 \notin 1..l
  BY <1>2
<1>4. SentIn(Append(o[s], f)) = SentIn(o[s]) \union {f}
  BY <1>2, <1>3 DEF SentIn
<1> HIDE DEF w2, o2, l
<1>5. /\ o2 \in [Streams -> Seq(Int)]
      /\ \A t \in Streams : w2[t] \union SentIn(o2[t]) = w[t] \union SentIn(o[t])
      /\ \A t \in Streams : SentIn(o2[t]) = IF t = s THEN SentIn(o[t]) \union {f}
                                            ELSE SentIn(o[t])
  <2>1. \A t \in Streams : o2[t] \in Seq(Int)
    BY <1>1, <1>2
  <2>2. o2 \in [Streams -> Seq(Int)]
    BY <1>1, <2>1 DEF o2
  <2> QED  BY <1>1, <1>4, <2>2
<1>6. UNION {w2[t] \union SentIn(o2[t]) : t \in Streams}
        = UNION {w[t] \union SentIn(o[t]) : t \in Streams}
  BY <1>5
<1>7. ASSUME NEW t \in Streams
      PROVE  /\ w2[t] \intersect SentIn(o2[t]) = {}
             /\ d \intersect (w2[t] \union SentIn(o2[t])) = {}
  BY <1>1, <1>5 DEF PromiseOf
<1>8. ASSUME NEW t \in Streams, NEW k \in DOMAIN o2[t], NEW m \in DOMAIN o2[t],
             o2[t][k] = o2[t][m]
      PROVE  k = m
  <2>1. CASE t # s
    BY <1>1, <1>8, <2>1 DEF PromiseOf
  <2>2. CASE t = s
    <3>1. f \notin SentIn(o[s])
      BY DEF PromiseOf
    <3>2. \A j \in 1..l : o[s][j] # f
      BY <1>2, <3>1 DEF SentIn
    <3>3. \A i, j \in 1..l : o[s][i] = o[s][j] => i = j
      BY <1>2 DEF PromiseOf
    <3>4. o2[t] = Append(o[s], f) /\ k \in 1..(l + 1) /\ m \in 1..(l + 1)
      BY <1>1, <1>2, <2>2
    <3> QED  BY <1>2, <1>3, <1>8, <3>2, <3>3, <3>4
  <2> QED  BY <2>1, <2>2
<1>9. ASSUME NEW t \in F
      PROVE  /\ \A k, m \in DOMAIN o2[t] : k < m => o2[t][k] < o2[t][m]
             /\ \A e \in SentIn(o2[t]), g \in w2[t] : e < g
  <2>0. /\ t \in Streams
        /\ \A k, m \in DOMAIN o[t] : k < m => o[t][k] < o[t][m]
        /\ \A e \in SentIn(o[t]), g \in w[t] : e < g
    BY DEF PromiseOf
  <2>1. CASE t # s
    BY <1>1, <2>0, <2>1
  <2>2. CASE t = s
    <3>1. \A g \in w[s] : g \in Int /\ f <= g
      BY <2>2 DEF PromiseOf
    <3>2. \A g \in w2[s] : f < g
      BY <1>1, <3>1
    <3>3. \A k \in 1..l : o[s][k] < f
      BY <1>2, <2>0, <2>2 DEF SentIn
    <3>4. ASSUME NEW k \in 1..(l + 1), NEW m \in 1..(l + 1), k < m
          PROVE  Append(o[s], f)[k] < Append(o[s], f)[m]
      <4>1. k \in 1..l
        BY <1>2, <3>4
      <4>2. CASE m \in 1..l
        BY <1>2, <2>0, <2>2, <3>4, <4>1, <4>2
      <4>3. CASE m = l + 1
        BY <1>2, <3>3, <4>1, <4>3
      <4> QED  BY <1>3, <4>2, <4>3
    <3>5. o2[t] = Append(o[s], f) /\ DOMAIN o2[t] = 1..(l + 1)
      BY <1>1, <1>2, <2>2
    <3> QED  BY <1>1, <1>5, <2>0, <2>2, <3>2, <3>4, <3>5
  <2> QED  BY <2>1, <2>2
<1>10. ASSUME NEW t \in Streams, NEW u \in Streams, t # u
       PROVE  (w2[t] \union SentIn(o2[t])) \intersect (w2[u] \union SentIn(o2[u])) = {}
  BY <1>5, <1>10 DEF PromiseOf
<1>11. PromiseOf(F, n, w2, o2, d)
  BY <1>1, <1>5, <1>6, <1>7, <1>8, <1>9, <1>10 DEF PromiseOf
<1> QED  BY <1>11 DEF w2, o2

\* One frame given up.
LEMMA PromiseDrop ==
  ASSUME NEW F \in SUBSET Streams, NEW n, NEW w, NEW o, NEW d, PromiseOf(F, n, w, o, d),
         NEW s \in Streams, NEW f \in w[s]
  PROVE  PromiseOf(F, n, [w EXCEPT ![s] = @ \ {f}], o, d \union {f})
<1> DEFINE w2 == [w EXCEPT ![s] = @ \ {f}]
<1>1. /\ DOMAIN w = Streams /\ DOMAIN w2 = Streams
      /\ \A t \in Streams : w2[t] = IF t = s THEN w[t] \ {f} ELSE w[t]
  BY DEF PromiseOf
<1> HIDE DEF w2
<1>2. UNION {w[t] \ w2[t] : t \in Streams} = {f}
  BY <1>1
<1>3. PromiseOf(F, n, w2, o, d \union {f})
  BY <1>1, <1>2, PromiseGiveUp
<1> QED  BY <1>3 DEF w2

\* All frames given up.
LEMMA PromiseDie ==
  ASSUME NEW F \in SUBSET Streams, NEW n, NEW w, NEW o, NEW d, PromiseOf(F, n, w, o, d),
         NEW w2, w2 = [s \in Streams |-> {}],
         NEW d2, d2 = d \union UNION {w[s] : s \in Streams}
  PROVE  PromiseOf(F, n, w2, o, d2)
<1>1. DOMAIN w2 = Streams /\ \A s \in Streams : w2[s] = {}
  OBVIOUS
<1>2. UNION {w[s] \ w2[s] : s \in Streams} = UNION {w[s] : s \in Streams}
  BY <1>1
<1> QED  BY <1>1, <1>2, PromiseGiveUp

\* The promise about the forward path.
PromiseInv == PromiseOf(Streams \ Delayed, Len(origin), Waits, out, dropped)

\* It is what Emulator says.
LEMMA PromiseMeans == PromiseInv => Abstract!LeavesOnce /\ Abstract!InOrder
  BY DEF PromiseInv, PromiseOf, SentIn, Waits, Abstract!LeavesOnce, Abstract!InOrder,
         Abstract!Sent

LEMMA PromiseInit == Abstract!Init => PromiseInv
<1> SUFFICES ASSUME Abstract!Init PROVE PromiseInv
  OBVIOUS
<1>1. /\ Len(origin) = 0 /\ Waits = [s \in Streams |-> {}] /\ dropped = {}
      /\ out = [s \in Streams |-> << >>]
  BY DEF Abstract!Init, Waits
<1> QED  BY <1>1, PromiseAtFirst DEF PromiseInv

\* Every step of Emulator keeps it.
LEMMA PromiseNext == PromiseInv /\ [Abstract!Next]_(Abstract!vars) => PromiseInv'
<1> SUFFICES ASSUME PromiseInv, [Abstract!Next]_(Abstract!vars) PROVE PromiseInv'
  OBVIOUS
<1> DEFINE F == Streams \ Delayed
<1>1. F \in SUBSET Streams
  OBVIOUS
<1>2. CASE UNCHANGED Abstract!vars
  BY <1>2 DEF Abstract!vars, Waits, PromiseInv
<1>3. ASSUME NEW s \in Streams, Abstract!Accept(s) PROVE PromiseInv'
  <2>1. /\ Len(origin') = Len(origin) + 1 /\ out' = out /\ dropped' = dropped
        /\ Waits' = [Waits EXCEPT ![s] = @ \union {Len(origin) + 1}]
    BY <1>3 DEF Abstract!Accept, Waits
  <2>2. PromiseOf(F, Len(origin) + 1, [Waits EXCEPT ![s] = @ \union {Len(origin) + 1}],
                  out, dropped)
    BY <1>1, PromiseAccept DEF PromiseInv
  <2> QED  BY <2>1, <2>2 DEF PromiseInv
<1>4. ASSUME NEW s \in Streams, NEW f, f \in Waits[s], Abstract!Send(s, f)
      PROVE  PromiseInv'
  <2>1. /\ Len(origin') = Len(origin) /\ dropped' = dropped
        /\ Waits' = [Waits EXCEPT ![s] = @ \ {f}]
        /\ out' = [out EXCEPT ![s] = Append(@, f)]
        /\ s \in F => \A g \in Waits[s] : f <= g
    BY <1>4 DEF Abstract!Send, Waits
  <2>2. PromiseOf(F, Len(origin), [Waits EXCEPT ![s] = @ \ {f}],
                  [out EXCEPT ![s] = Append(@, f)], dropped)
    BY <1>1, <1>4, <2>1, PromiseSend DEF PromiseInv
  <2> QED  BY <2>1, <2>2 DEF PromiseInv
<1>5. ASSUME NEW s \in Streams, NEW f, f \in Waits[s], Abstract!Drop(s, f)
      PROVE  PromiseInv'
  <2>1. /\ Len(origin') = Len(origin) /\ out' = out /\ dropped' = dropped \union {f}
        /\ Waits' = [Waits EXCEPT ![s] = @ \ {f}]
    BY <1>5 DEF Abstract!Drop, Waits
  <2>2. PromiseOf(F, Len(origin), [Waits EXCEPT ![s] = @ \ {f}], out, dropped \union {f})
    BY <1>1, <1>5, PromiseDrop DEF PromiseInv
  <2> QED  BY <2>1, <2>2 DEF PromiseInv
<1>6. CASE Abstract!Die
  <2>1. /\ Len(origin') = Len(origin) /\ out' = out
        /\ dropped' = dropped \union UNION {Waits[s] : s \in Streams}
        /\ Waits' = [s \in Streams |-> {}]
    BY <1>6 DEF Abstract!Die, Waits
  <2>2. PromiseOf(F, Len(origin), Waits', out, dropped')
    <3>1. PromiseOf(F, Len(origin), Waits, out, dropped)
      BY DEF PromiseInv
    <3> QED  BY <1>1, <2>1, <3>1, PromiseDie
  <2> QED  BY <2>1, <2>2 DEF PromiseInv
<1>7. \/ UNCHANGED Abstract!vars
      \/ \E s \in Streams : Abstract!Accept(s)
      \/ \E s \in Streams : \E f \in Waits[s] : Abstract!Send(s, f) \/ Abstract!Drop(s, f)
      \/ Abstract!Die
  BY DEF Abstract!Next, Waits
<1> QED  BY <1>2, <1>3, <1>4, <1>5, <1>6, <1>7

\* At any moment every frame received waits, was sent or was given up, one of the
\* three and once, on one stream; streams without delay have sent their frames in
\* the order they came, and none that waits came before one that was sent.
THEOREM FramesLeaveOnce == Spec => [](Abstract!LeavesOnce /\ Abstract!InOrder)
<1>1. EmulatorInv /\ [Next]_vars => EmulatorInv' /\ [Abstract!Next]_(Abstract!vars)
  BY EmulatorNext
<1>2. Spec => []PromiseInv
  BY <1>1, EmulatorInit, PromiseInit, PromiseNext, PTL DEF Spec
<1> QED  BY <1>2, PromiseMeans, PTL

-----------------------------------------------------------------------------
(* Where a packet came from                                                *)

\* The frames that wait in a stream were received on it.
OriginInv == \A s \in Streams : \A f \in Waits[s] : f \in 1..Len(origin) /\ origin[f] = s

\* Only RxFrame records a reception.
LEMMA OriginGrows ==
  ASSUME [Next]_vars
  PROVE  RxFrame \/ origin' = origin
<1>1. CASE RxNext
  BY <1>1
  DEF RxNext, RxAllocFails, RxNothing, RxAdd, RxAddFails, RxPost, history
<1>2. CASE PrNext
  BY <1>2
  DEF PrNext, PrWait, PrCount, PrTake, PrDiscard, PrInsertFails, PrGiveUp, PrInsert, PrPost,
      PrInsertDelayed, PrShow, PrArm, PrArmFaults, history
<1>3. CASE TxNext
  BY <1>3 DEF TxNext, TxWait, TxSkip, TxTake, TxSend, TxExhausted, history
<1>4. CASE TxdNext
  BY <1>4 DEF TxdNext, TxdRead, TxdNothing, TxdTake, TxdSend, TxdShow, TxdArm, history
<1>5. CASE Tick \/ UNCHANGED vars
  BY <1>5 DEF Tick, vars, history
<1> QED  BY <1>1, <1>2, <1>3, <1>4, <1>5 DEF Next, Halted

\* What a step of Emulator can do to the frames that wait.
LEMMA WaitsStep ==
  ASSUME [Abstract!Next]_(Abstract!vars)
  PROVE  \/ /\ Len(origin') = Len(origin)
            /\ \A s \in Streams : Waits'[s] \subseteq Waits[s]
         \/ /\ Len(origin') = Len(origin) + 1
            /\ \E t \in Streams : Waits' = [Waits EXCEPT ![t] = @ \union {Len(origin) + 1}]
<1>1. CASE UNCHANGED Abstract!vars
  BY <1>1 DEF Abstract!vars, Waits
<1>2. ASSUME NEW t \in Streams, Abstract!Accept(t)
      PROVE  /\ Len(origin') = Len(origin) + 1
             /\ Waits' = [Waits EXCEPT ![t] = @ \union {Len(origin) + 1}]
  BY <1>2 DEF Abstract!Accept, Waits
<1>3. ASSUME NEW t \in Streams, NEW f, Abstract!Send(t, f) \/ Abstract!Drop(t, f)
      PROVE  /\ Len(origin') = Len(origin)
             /\ \A s \in Streams : Waits'[s] \subseteq Waits[s]
  <2>1. Len(origin') = Len(origin) /\ Waits' = [Waits EXCEPT ![t] = @ \ {f}]
    BY <1>3 DEF Abstract!Send, Abstract!Drop, Waits
  <2>2. DOMAIN Waits = Streams
    BY DEF Waits
  <2> QED  BY <2>1, <2>2
<1>4. ASSUME Abstract!Die
      PROVE  /\ Len(origin') = Len(origin)
             /\ \A s \in Streams : Waits'[s] \subseteq Waits[s]
  <2>1. Len(origin') = Len(origin) /\ Waits' = [s \in Streams |-> {}]
    BY <1>4 DEF Abstract!Die, Waits
  <2> QED  BY <2>1
<1> QED  BY <1>1, <1>2, <1>3, <1>4 DEF Abstract!Next

\* A frame keeps the stream it was received on.
LEMMA OriginStep ==
  ASSUME NEW R, EmulatorInvOf(R), OriginInv, [Next]_vars
  PROVE  OriginInv' /\ \A f \in 1..Len(origin) : f \in 1..Len(origin') /\ origin'[f] = origin[f]
<1> USE DEF EmulatorInvOf
<1>1. [Abstract!Next]_(Abstract!vars)
  BY EmulatorStep
<1>2. origin \in Seq(Streams) /\ Len(origin) \in Nat /\ rx.i \in Streams
  BY LenProperties DEF TypeOK, HistoryType, RxType
<1>3. CASE origin' = origin
  <2>1. \A s \in Streams : Waits'[s] \subseteq Waits[s]
    BY <1>1, <1>2, <1>3, WaitsStep
  <2> QED  BY <1>3, <2>1 DEF OriginInv
<1>4. CASE RxFrame
  <2> DEFINE k == Len(origin) + 1
  <2>1. /\ origin' = Append(origin, rx.i)
        /\ Len(origin') = k /\ \A f \in 1..Len(origin) : origin'[f] = origin[f]
        /\ origin'[k] = rx.i
    BY <1>2, <1>4, AppendProperties DEF RxFrame
  <2>2. PICK t \in Streams : Waits' = [Waits EXCEPT ![t] = @ \union {k}]
    BY <1>1, <1>2, <2>1, WaitsStep
  <2>3. k \in Waits'[rx.i]
    <3>1. PICK b \in Buffers :
            /\ rx' = [rx EXCEPT !.pc = "add", !.b = b]
            /\ pkt' = [pkt EXCEPT ![b] = [frame |-> k, arrival |-> now, leave |-> Zero]]
      BY <1>4 DEF RxFrame, p_emu_packet_init
    <3>2. rx'.pc = "add" /\ rx'.i = rx.i /\ rx'.b = b
      BY <3>1 DEF TypeOK, RxType
    <3>3. pkt'[b].frame = k
      BY <3>1 DEF TypeOK, HeapType
    <3>4. PICK s \in Streams : s = rx.i
      BY <1>2
    <3>5. b \in PacketsOf(s)'
      BY <3>2, <3>4 DEF PacketsOf
    <3> QED  BY <3>3, <3>4, <3>5 DEF Waits
  <2>4. DOMAIN Waits = Streams
    BY DEF Waits
  <2>5. t = rx.i
    <3> SUFFICES ASSUME t # rx.i PROVE FALSE
      OBVIOUS
    <3>1. k \in Waits[rx.i]
      BY <1>2, <2>2, <2>3, <2>4
    <3> QED  BY <1>2, <3>1 DEF OriginInv
  <2>6. ASSUME NEW s \in Streams, NEW f \in Waits'[s]
        PROVE  f \in 1..Len(origin') /\ origin'[f] = s
    <3>1. CASE f \in Waits[s]
      BY <1>2, <2>1, <3>1 DEF OriginInv
    <3>2. CASE f \notin Waits[s]
      <4>1. s = t /\ f = k
        BY <2>2, <2>4, <2>6, <3>2
      <4> QED  BY <1>2, <2>1, <2>5, <4>1
    <3> QED  BY <3>1, <3>2
  <2> QED  BY <1>2, <2>1, <2>6 DEF OriginInv
<1> QED  BY <1>3, <1>4, OriginGrows

\* Frames have been sent only on the stream they were received on.
SentInv == \A s \in Streams : \A f \in SentIn(out[s]) : f \in 1..Len(origin) /\ origin[f] = s

\* What a step of Emulator sends was waiting on that stream.
LEMMA SentStep ==
  ASSUME PromiseInv, OriginInv, SentInv, [Abstract!Next]_(Abstract!vars),
         \A f \in 1..Len(origin) : f \in 1..Len(origin') /\ origin'[f] = origin[f]
  PROVE  SentInv'
<1>1. \A s \in Streams : out[s] \in Seq(Int) /\ \A f \in Waits[s] : f \in Int
  BY DEF PromiseInv, PromiseOf, OriginInv
<1>2. DOMAIN out = Streams
  BY DEF PromiseInv, PromiseOf
<1>3. \/ out' = out
      \/ \E s \in Streams : \E f \in Waits[s] : out' = [out EXCEPT ![s] = Append(@, f)]
  BY DEF Abstract!Next, Abstract!vars, Abstract!Accept, Abstract!Send, Abstract!Drop,
         Abstract!Die, Waits
<1>4. ASSUME NEW t \in Streams, NEW f \in SentIn(out'[t])
      PROVE  f \in SentIn(out[t]) \/ f \in Waits[t]
  <2>1. CASE out' = out
    BY <1>4, <2>1
  <2>2. ASSUME NEW s \in Streams, NEW g \in Waits[s], out' = [out EXCEPT ![s] = Append(@, g)]
        PROVE  f \in SentIn(out[t]) \/ f \in Waits[t]
    <3>1. CASE t # s
      BY <1>2, <1>4, <2>2, <3>1
    <3>2. CASE t = s
      <4>1. out'[t] = Append(out[t], g) /\ g \in Waits[t] /\ g \in Int
        BY <1>1, <1>2, <2>2, <3>2
      <4>2. /\ Len(out[t]) \in Nat /\ DOMAIN out[t] = 1..Len(out[t])
            /\ DOMAIN out'[t] = 1..(Len(out[t]) + 1)
            /\ \A k \in 1..Len(out[t]) : out'[t][k] = out[t][k]
            /\ out'[t][Len(out[t]) + 1] = g
        BY <1>1, <4>1, AppendProperties, LenProperties
      <4>3. PICK k \in 1..(Len(out[t]) + 1) : f = out'[t][k]
        BY <1>4, <4>2 DEF SentIn
      <4>4. CASE k \in 1..Len(out[t])
        BY <4>2, <4>3, <4>4 DEF SentIn
      <4>5. CASE k = Len(out[t]) + 1
        BY <4>1, <4>2, <4>3, <4>5
      <4> QED  BY <4>2, <4>4, <4>5
    <3> QED  BY <3>1, <3>2
  <2> QED  BY <1>3, <2>1, <2>2
<1>5. ASSUME NEW t \in Streams, NEW f \in SentIn(out'[t])
      PROVE  f \in 1..Len(origin') /\ origin'[f] = t
  BY <1>4, <1>5 DEF OriginInv, SentInv
<1> QED  BY <1>5 DEF SentInv

\* Nothing waits and nothing was sent.
LEMMA OriginInit == Abstract!Init => OriginInv /\ SentInv
<1> SUFFICES ASSUME Abstract!Init PROVE OriginInv /\ SentInv
  OBVIOUS
<1>1. Waits = [s \in Streams |-> {}] /\ out = [s \in Streams |-> << >>]
  BY DEF Abstract!Init, Waits
<1>2. SentIn(<< >>) = {}
  BY DEF SentIn
<1> QED  BY <1>1, <1>2 DEF OriginInv, SentInv

\* A frame is only ever sent on the output of the stream on whose input it was
\* received, whichever thread, list or buffer it went through.
THEOREM FramesStayOnStream ==
  Spec => [](\A s \in Streams : \A f \in Abstract!Sent(s) : origin[f] = s)
<1> DEFINE Inv == EmulatorInv /\ PromiseInv /\ OriginInv /\ SentInv
<1>1. Init => Inv
  BY EmulatorInit, PromiseInit, OriginInit
<1>2. Inv /\ [Next]_vars => Inv'
  <2> SUFFICES ASSUME Inv, [Next]_vars PROVE Inv'
    OBVIOUS
  <2>1. EmulatorInv' /\ [Abstract!Next]_(Abstract!vars)
    BY EmulatorNext
  <2>2. PromiseInv'
    BY <2>1, PromiseNext
  <2>3. OriginInv' /\ \A f \in 1..Len(origin) : f \in 1..Len(origin') /\ origin'[f] = origin[f]
    BY OriginStep DEF EmulatorInv
  <2>4. SentInv'
    BY <2>1, <2>3, SentStep
  <2> QED  BY <2>1, <2>2, <2>3, <2>4
<1>3. Inv => \A s \in Streams : \A f \in Abstract!Sent(s) : origin[f] = s
  BY DEF SentInv, SentIn, Abstract!Sent
<1> QED  BY <1>1, <1>2, <1>3, PTL DEF Spec

=============================================================================
