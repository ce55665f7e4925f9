---------------------------- MODULE SignalProofs ----------------------------
(***************************************************************************)
(* Theorems about the signals between the threads: the assertion of        *)
(* p_emu_process_received on an empty rx_list can never fail, and the one  *)
(* of p_emu_tx_non_delayed_packet on an empty tx_list cannot fail as long  *)
(* as the signal tells the thread which stream it is for.                  *)
(***************************************************************************)
EXTENDS ForwardPathProofs

-----------------------------------------------------------------------------
(* p_emu_process_received finds its packet                                 *)

\* The processing thread is the only one that takes packets off an rx_list, so
\* what slib_get_list_cont saw is still there when slib_return_first is called.
RxTakeInv ==
    /\ pr.pc = "take" => rx_list[pr.i] # << >>
    /\ RxListNeverEmptyAtTake

\* No packet has been counted at the start.
LEMMA RxTakeInit == Init => RxTakeInv
  BY DEF Init, PrInit, PrWaiting, RxTakeInv, RxListNeverEmptyAtTake

\* Every other thread only adds to rx_list and leaves pr alone.
LEMMA RxTakeOthers ==
  ASSUME TypeOK, RxTakeInv, RxNext \/ TxNext \/ TxdNext \/ Tick \/ UNCHANGED vars
  PROVE  RxTakeInv'
<1>1. UNCHANGED pr
  BY DEF RxNext, RxAllocFails, RxNothing, RxFrame, RxAdd, RxAddFails, RxPost, TxNext,
         TxWait, TxSkip, TxTake, TxSend, TxExhausted, TxdNext, TxdRead, TxdNothing,
         TxdTake, TxdSend, TxdShow, TxdArm, Tick, threadVars, vars
<1>2. RxListNeverEmptyAtTake'
  BY DEF RxTakeInv, RxListNeverEmptyAtTake, Abort,
         RxNext, RxAllocFails, RxNothing, RxFrame, RxAdd, RxAddFails, RxPost, TxNext,
         TxWait, TxSkip, TxTake, TxSend, TxExhausted, TxdNext, TxdRead, TxdNothing,
         TxdTake, TxdSend, TxdShow, TxdArm, Tick, vars
<1>3. \A s \in Streams : rx_list[s] # << >> => rx_list'[s] # << >>
  <2>1. CASE UNCHANGED rx_list
    BY <2>1
  <2>2. CASE RxAdd
    <3>1. Append(rx_list[rx.i], rx.b) # << >>
      <4>1. rx_list[rx.i] \in Seq(Buffers) /\ rx.b \in Buffers
        BY <2>2 DEF RxAdd, TypeOK, ListType, RxType
      <4> QED  BY <4>1, AppendProperties
    <3>2. rx_list' = [rx_list EXCEPT ![rx.i] = Append(rx_list[rx.i], rx.b)]
      BY <2>2 DEF RxAdd
    <3>3. rx_list \in [Streams -> Seq(Buffers)]
      BY DEF TypeOK, ListType
    <3> QED  BY <3>1, <3>2, <3>3
  <2> QED
    BY <2>1, <2>2
    DEF RxNext, RxAllocFails, RxNothing, RxFrame, RxAddFails, RxPost, TxNext, TxWait,
        TxSkip, TxTake, TxSend, TxExhausted, TxdNext, TxdRead, TxdNothing, TxdTake,
        TxdSend, TxdShow, TxdArm, Tick, vars
<1> QED  BY <1>1, <1>2, <1>3 DEF RxTakeInv, TypeOK, PrType

\* p_emu_PrThread itself takes a packet only after it counted one.
LEMMA RxTakePr ==
  ASSUME TypeOK, RxTakeInv, PrNext
  PROVE  RxTakeInv'
<1> USE DEF RxTakeInv, RxListNeverEmptyAtTake
<1> USE DEF TypeOK, PrType
<1>1. CASE PrAdvance /\ UNCHANGED aborted
  BY <1>1 DEF PrAdvance, PrWaiting, TypeOK, PrType
<1>2. CASE PrCount
  <2>1. CASE rx_list[pr.i] = << >>
    BY <1>1, <1>2, <2>1 DEF PrCount
  <2>2. CASE rx_list[pr.i] # << >>
    <3>1. pr' = [pr EXCEPT !.pc = "take"] /\ UNCHANGED << rx_list, aborted >>
      BY <1>2, <2>2 DEF PrCount
    <3>2. pr'.i = pr.i
      BY <3>1
    <3> QED  BY <2>2, <3>1, <3>2
  <2> QED  BY <2>1, <2>2
<1>3. CASE PrTake
  BY <1>3 DEF PrTake, TypeOK, PrType
<1>4. CASE PrArmFaults
  BY <1>4 DEF PrArmFaults, Abort, threadVars
<1>5. CASE PrWait
  BY <1>5 DEF PrWait
<1>6. CASE PrInsert
  BY <1>6 DEF PrInsert
<1>7. CASE PrShow
  BY <1>7 DEF PrShow, Abort
<1>8. CASE \E d \in DelayOffsets : PrInsertDelayed(d)
  BY <1>8 DEF PrInsertDelayed
<1> QED
  BY <1>1, <1>2, <1>3, <1>4, <1>5, <1>6, <1>7, <1>8 DEF PrNext, PrDiscard, PrInsertFails, PrGiveUp, PrPost, PrArm

\* "Since we are waiting for rx signal each time, this case should never
\* happen": p_emu_process_received never finds an rx_list empty that it has just
\* counted packets in.
THEOREM RxListNeverEmpty == Spec => []RxListNeverEmptyAtTake
<1>1. TypeOK /\ RxTakeInv /\ [Next]_vars => RxTakeInv'
  BY RxTakeOthers, RxTakePr DEF Next, Halted
<1>2. RxTakeInv => RxListNeverEmptyAtTake
  BY DEF RxTakeInv
<1> QED  BY <1>1, <1>2, RxTakeInit, TypeCorrect, PTL DEF Spec

-----------------------------------------------------------------------------
(* Counting signals                                                        *)

\* A signal is waiting a natural number of times.
LEMMA WaitingType ==
  ASSUME NEW sig \in Seq(Tokens), NEW s \in Streams
  PROVE  /\ Waiting(sig, s) \in Nat
         /\ IsFiniteSet({k \in 1..Len(sig) : sig[k] = s})
<1>1. Len(sig) \in Nat
  BY LenProperties
<1>2. IsFiniteSet(1..Len(sig))
  BY <1>1, FS_Interval
<1>3. IsFiniteSet({k \in 1..Len(sig) : sig[k] = s})
  BY <1>2, FS_Subset
<1> QED  BY <1>1, <1>3, FS_CardinalityType DEF Waiting

\* Posting a signal for t adds one to what waits for s when signals do not name
\* their stream or t is s.
LEMMA WaitingPost ==
  ASSUME NEW sig \in Seq(Tokens), NEW s \in Streams, NEW t \in Streams
  PROVE  Waiting(Post(sig, t), s) = Waiting(sig, s) + One(UseSems \/ t = s)
<1>1. /\ Len(sig) \in Nat
      /\ Len(Post(sig, t)) = Len(sig) + 1
      /\ \A k \in 1..Len(sig) : Post(sig, t)[k] = sig[k]
      /\ Post(sig, t)[Len(sig) + 1] = Token(t)
  BY ConstantTypes, LenProperties, AppendProperties DEF Post
<1>2. CASE UseSems
  BY <1>1, <1>2 DEF Waiting, One
<1>3. CASE ~UseSems
  <2> DEFINE before == {k \in 1..Len(sig) : sig[k] = s}
             after == {k \in 1..Len(Post(sig, t)) : Post(sig, t)[k] = s}
  <2>1. IsFiniteSet(before) /\ Cardinality(before) \in Nat
    BY WaitingType, FS_CardinalityType
  <2>2. Len(sig) + 1 \notin before
    BY <1>1
  <2>3. after = IF t = s THEN before \union {Len(sig) + 1} ELSE before
    BY <1>1, <1>3 DEF Token
  <2>4. Cardinality(after) = Cardinality(before) + (IF t = s THEN 1 ELSE 0)
    <3> HIDE DEF before, after
    <3>1. Cardinality(before \union {Len(sig) + 1}) = Cardinality(before) + 1
      BY <2>1, <2>2, FS_AddElement
    <3> QED  BY <2>1, <2>3, <3>1
  <2> QED  BY <1>3, <2>4 DEF Waiting, One
<1> QED  BY <1>2, <1>3

\* Receiving the first signal takes one away in the same cases.
LEMMA WaitingReceive ==
  ASSUME NEW sig \in Seq(Tokens), sig # << >>, NEW s \in Streams
  PROVE  Waiting(Tail(sig), s) = Waiting(sig, s) - One(UseSems \/ Head(sig) = s)
<1>1. /\ Len(sig) \in Nat \ {0}
      /\ Len(Tail(sig)) = Len(sig) - 1
      /\ Tail(sig) \in Seq(Tokens)
      /\ \A k \in 1..Len(Tail(sig)) : Tail(sig)[k] = sig[k + 1]
      /\ Head(sig) = sig[1]
  BY EmptySeq, HeadTailProperties
<1>2. CASE UseSems
  BY <1>1, <1>2 DEF Waiting, One
<1>3. CASE ~UseSems
  <2> DEFINE before == {k \in 1..Len(sig) : sig[k] = s}
             after == {k \in 1..Len(Tail(sig)) : Tail(sig)[k] = s}
             shift == [k \in after |-> k + 1]
  <2>1. IsFiniteSet(before) /\ IsFiniteSet(after)
    BY <1>1, WaitingType
  <2>2. ExistsBijection(after, before \ {1})
    <3>1. shift \in [after -> before \ {1}]
      BY <1>1
    <3>2. \A j, k \in after : shift[j] = shift[k] => j = k
      BY <1>1
    <3>3. \A k \in before \ {1} : k - 1 \in after /\ shift[k - 1] = k
      BY <1>1
    <3> HIDE DEF before, after, shift
    <3>4. shift \in Bijection(after, before \ {1})
      BY <3>1, <3>2, <3>3 DEF Bijection, Injection, Surjection, IsInjective
    <3> QED  BY <3>4 DEF ExistsBijection
  <2>3. 1 \in before <=> Head(sig) = s
    BY <1>1
  <2>4. Cardinality(after) = Cardinality(before) - (IF Head(sig) = s THEN 1 ELSE 0)
    <3> HIDE DEF before, after, shift
    <3>1. Cardinality(before) \in Nat
      BY <2>1, FS_CardinalityType
    <3> QED  BY <2>1, <2>2, <2>3, <3>1, FS_RemoveElement, FS_Bijection
  <2> QED  BY <1>3, <2>4 DEF Waiting, One
<1> QED  BY <1>2, <1>3

-----------------------------------------------------------------------------
(* p_emu_tx_non_delayed_packet finds its packet                            *)

\* A signal reaches the packet it was sent for: it names its stream, or there is
\* only one stream it can be for.
SignalsAreSpecific == OneUndelayedStream \/ ~UseSems

\* Which streams each thread is working on: the processing thread signals
\* undelayed streams only, p_emu_TxThread holds packets of those only and
\* p_emu_TxThread_Delayed of the others only; a message names the one stream
\* that is to be visited.
TxShape ==
    /\ pr.pc = "post" => pr.i \notin Delayed
    /\ tx.pc = "send" => tx.i \notin Delayed
    /\ txd.pc # "read" => txd.i \in Delayed
    /\ ~UseSems => tx.i = tx.last

\* The emulator starts with every thread at its first statement.
LEMMA TxShapeInit == Init => TxShape
  BY DEF Init, PrInit, PrWaiting, TxInit, TxWaiting, TxdInit, TxdStart, TxShape

\* Every step keeps the shape of the threads on the way to and from tx_list.
LEMMA TxShapeStep == TypeOK /\ TxShape /\ [Next]_vars => TxShape'
<1> SUFFICES ASSUME TypeOK, TxShape, [Next]_vars PROVE TxShape'
  OBVIOUS
<1>1. (pr.pc = "post" => pr.i \notin Delayed)'
  <2> USE DEF TypeOK, PrType, TxShape
  <2>1. CASE UNCHANGED pr
    BY <2>1
  <2>2. CASE PrAdvance
    BY <2>2 DEF PrAdvance, PrWaiting
  <2>3. CASE PrWait
    BY <2>3 DEF PrWait
  <2>4. CASE PrCount
    BY <2>2, <2>4 DEF PrCount
  <2>5. CASE PrTake
    BY <2>1, <2>5 DEF PrTake
  <2>6. CASE PrInsert
    BY <2>6 DEF PrInsert
  <2>7. CASE \E d \in DelayOffsets : PrInsertDelayed(d)
    BY <2>7 DEF PrInsertDelayed
  <2>8. CASE PrShow
    BY <2>1, <2>8 DEF PrShow
  <2> QED
    BY <2>1, <2>2, <2>3, <2>4, <2>5, <2>6, <2>7, <2>8
    DEF Next, PrNext, PrDiscard, PrInsertFails, PrGiveUp, PrPost, PrArm, PrArmFaults,
        RxNext, RxAllocFails, RxNothing, RxFrame, RxAdd, RxAddFails, RxPost, TxNext,
        TxWait, TxSkip, TxTake, TxSend, TxExhausted, TxdNext, TxdRead, TxdNothing,
        TxdTake, TxdSend, TxdShow, TxdArm, Tick, Halted, vars, threadVars
<1>2. /\ (tx.pc = "send" => tx.i \notin Delayed)'
      /\ (~UseSems => tx.i = tx.last)'
  <2> USE DEF TypeOK, TxType, TxShape
  <2>1. CASE UNCHANGED tx
    BY <2>1
  <2>2. CASE TxAdvance
    BY <2>2 DEF TxAdvance, TxWaiting
  <2>3. CASE TxWait
    BY <2>3 DEF TxWait, FirstVisited, LastVisited
  <2>4. CASE TxTake
    BY <2>1, <2>4 DEF TxTake
  <2> QED
    BY <2>1, <2>2, <2>3, <2>4
    DEF Next, PrNext, PrWait, PrCount, PrTake, PrDiscard, PrInsertFails, PrGiveUp,
        PrInsert, PrPost, PrInsertDelayed, PrShow, PrArm, PrArmFaults,
        RxNext, RxAllocFails, RxNothing, RxFrame, RxAdd, RxAddFails, RxPost, TxNext,
        TxSkip, TxSend, TxExhausted, TxdNext, TxdRead, TxdNothing, TxdTake, TxdSend,
        TxdShow, TxdArm, Tick, Halted, vars, threadVars
<1>3. (txd.pc # "read" => txd.i \in Delayed)'
  <2> USE DEF TypeOK, TxdType, TxShape
  <2>1. CASE UNCHANGED txd
    BY <2>1
  <2>2. CASE TxdAdvance
    BY <2>2 DEF TxdAdvance
  <2>3. CASE TxdRead
    BY <2>3 DEF TxdRead
  <2>4. CASE TxdTake
    BY <2>1, <2>4 DEF TxdTake
  <2>5. CASE \E r \in SendResults : TxdSend(r)
    BY <2>5 DEF TxdSend
  <2>6. CASE TxdShow
    BY <2>2, <2>6 DEF TxdShow
  <2> QED
    BY <2>1, <2>2, <2>3, <2>4, <2>5, <2>6
    DEF Next, PrNext, PrWait, PrCount, PrTake, PrDiscard, PrInsertFails, PrGiveUp,
        PrInsert, PrPost, PrInsertDelayed, PrShow, PrArm, PrArmFaults,
        RxNext, RxAllocFails, RxNothing, RxFrame, RxAdd, RxAddFails, RxPost, TxNext,
        TxWait, TxSkip, TxTake, TxSend, TxExhausted, TxdNext, TxdNothing, TxdArm,
        Tick, Halted, vars, threadVars
<1> QED  BY <1>1, <1>2, <1>3 DEF TxShape

\* At the start there is neither a packet nor a signal.
LEMMA TxSignalledInit == Init => TxSignalled
<1> SUFFICES ASSUME Init, NEW s \in Streams \ Delayed PROVE SignalPerPacket(s)
  BY DEF TxSignalled
<1>1. Len(tx_list[s]) = 0
  BY EmptySeq DEF Init
<1>2. Waiting(tx_sig, s) = 0
  <2>1. tx_sig = << >> /\ Len(tx_sig) = 0
    BY EmptySeq DEF Init
  <2>2. {k \in 1..Len(tx_sig) : tx_sig[k] = s} = {}
    BY <2>1
  <2> QED  BY <2>1, <2>2, FS_EmptySet DEF Waiting
<1> QED
  BY <1>1, <1>2
  DEF SignalPerPacket, One, Init, PrInit, PrWaiting, TxInit, TxWaiting

\* A thread at "take" finds a packet in the list of its stream.
LEMMA TxTakeFinds ==
  ASSUME TypeOK, TxSignalled, SignalsAreSpecific,
         tx.pc = "take", tx.i \notin Delayed
  PROVE  tx_list[tx.i] # << >>
<1>1. tx.i \in Streams \ Delayed /\ tx.i \in Nat /\ tx.last \in Nat /\ tx.i <= tx.last
  BY ConstantTypes DEF TypeOK, TxType
<1>2. SignalPerPacket(tx.i)
  BY <1>1 DEF TxSignalled, SignalsAreSpecific
<1>3. Waiting(tx_sig, tx.i) \in Nat
  BY <1>1, WaitingType DEF TypeOK, SignalType
<1>4. Len(tx_list[tx.i]) >= 1
  <2>1. One(tx.pc = "take" /\ tx.i <= tx.i /\ tx.i <= tx.last) = 1
    BY <1>1 DEF One
  <2>2. One(pr.pc = "post" /\ pr.i = tx.i) \in {0, 1}
    BY DEF One
  <2> QED  BY <1>2, <1>3, <2>1, <2>2 DEF SignalPerPacket
<1> QED  BY <1>4, EmptySeq

\* The steps that change neither the packets and signals of s nor who is about
\* to send or use one.
LEMMA SignalPerPacketKept ==
  ASSUME NEW s, SignalPerPacket(s), UNCHANGED << tx_sig, tx >>,
         tx_list'[s] = tx_list[s],
         (pr'.pc = "post" /\ pr'.i = s) <=> (pr.pc = "post" /\ pr.i = s)
  PROVE  SignalPerPacket(s)'
  BY DEF SignalPerPacket, Waiting, One

\* p_emu_PrThread sends one tx signal for every packet it adds to tx_list.
LEMMA TxSignalledByPr ==
  ASSUME TypeOK, TxShape, SignalsAreSpecific, PrNext,
         NEW s \in Streams \ Delayed, SignalPerPacket(s)
  PROVE  SignalPerPacket(s)'
<1>1. /\ Len(tx_list[s]) \in Nat /\ Waiting(tx_sig, s) \in Nat
      /\ tx_list[s] \in Seq(Buffers)
  BY LenProperties, WaitingType DEF TypeOK, ListType, SignalType
<1>2. CASE PrInsert
  <2>1. pr.i \in Streams /\ pr.b \in Buffers /\ pr.pc = "process"
    BY <1>2 DEF PrInsert, TypeOK, PrType
  <2>2. pr'.pc = "post" /\ pr'.i = pr.i
    BY <1>2 DEF PrInsert, TypeOK, PrType
  <2>3. CASE pr.i = s
    <3>1. tx_list'[s] = Append(tx_list[s], pr.b)
      BY <1>2, <2>3 DEF PrInsert, TypeOK, ListType
    <3>2. Len(tx_list'[s]) = Len(tx_list[s]) + 1
      BY <1>1, <2>1, <3>1, AppendProperties
    <3>3. UNCHANGED << tx_sig, tx >>
      BY <1>2 DEF PrInsert
    <3> QED
      BY <1>1, <2>1, <2>2, <2>3, <3>2, <3>3 DEF SignalPerPacket, Waiting, One
  <2>4. CASE pr.i # s
    <3>1. tx_list'[s] = tx_list[s] /\ UNCHANGED << tx_sig, tx >>
      BY <1>2, <2>4 DEF PrInsert, TypeOK, ListType
    <3> QED  BY <2>1, <2>2, <2>4, <3>1, SignalPerPacketKept
  <2> QED  BY <2>3, <2>4
<1>3. CASE PrPost
  <2>1. pr.i \in Streams \ Delayed /\ pr.pc = "post"
    BY <1>3 DEF PrPost, TypeOK, PrType, TxShape
  <2>2. pr'.pc # "post"
    BY <1>3 DEF PrPost, PrAdvance, PrWaiting, TypeOK, PrType
  <2>3. UseSems \/ pr.i = s <=> pr.i = s
    BY <2>1 DEF SignalsAreSpecific, OneUndelayedStream
  <2>4. Waiting(tx_sig', s) = Waiting(tx_sig, s) + One(UseSems \/ pr.i = s)
    BY <1>3, <2>1, WaitingPost DEF PrPost, TypeOK, SignalType
  <2>5. UNCHANGED << tx_list, tx >>
    BY <1>3 DEF PrPost
  <2> QED  BY <1>1, <2>1, <2>2, <2>3, <2>4, <2>5 DEF SignalPerPacket, One
<1>4. CASE \E d \in DelayOffsets : PrInsertDelayed(d)
  <2>1. /\ pr.i \in Delayed /\ pr.pc = "process" /\ pr'.pc = "show"
        /\ UNCHANGED << tx_sig, tx >>
    BY <1>4 DEF PrInsertDelayed, TypeOK, PrType
  <2>2. tx_list'[s] = tx_list[s]
    BY <1>4 DEF PrInsertDelayed, TypeOK, ListType
  <2> QED  BY <2>1, <2>2, SignalPerPacketKept
<1>5. CASE \/ PrWait \/ PrCount \/ PrTake \/ PrShow \/ PrArm \/ PrArmFaults
           \/ PrGiveUp /\ pr.pc = "process"
  <2>1. UNCHANGED << tx_list, tx_sig, tx >>
    BY <1>5 DEF PrWait, PrCount, PrTake, PrGiveUp, PrShow, PrArm, PrArmFaults, threadVars
  <2>2. pr.pc # "post"
    BY <1>5 DEF PrWait, PrCount, PrTake, PrShow, PrArm, PrArmFaults
  <2>3. pr'.pc # "post"
    <3> USE DEF TypeOK, PrType
    <3>1. CASE PrAdvance
      BY <3>1 DEF PrAdvance, PrWaiting
    <3>2. CASE UNCHANGED pr
      BY <2>2, <3>2
    <3>3. CASE PrWait
      BY <3>3 DEF PrWait
    <3>4. CASE PrCount
      BY <3>1, <3>4 DEF PrCount
    <3>5. CASE PrTake
      BY <3>2, <3>5 DEF PrTake
    <3>6. CASE PrShow
      BY <3>2, <3>6 DEF PrShow
    <3> QED
      BY <1>5, <3>1, <3>2, <3>3, <3>4, <3>5, <3>6
      DEF PrGiveUp, PrArm, PrArmFaults, threadVars
  <2> QED  BY <2>1, <2>2, <2>3, SignalPerPacketKept
<1> QED
  BY <1>2, <1>3, <1>4, <1>5 DEF PrNext, PrDiscard, PrInsertFails

\* p_emu_TxThread takes one packet of the stream for every signal it receives.
LEMMA TxSignalledByTx ==
  ASSUME TypeOK, TxShape, TxSignalled, SignalsAreSpecific, TxNext,
         NEW s \in Streams \ Delayed, SignalPerPacket(s)
  PROVE  SignalPerPacket(s)'
<1> DEFINE Visits == tx.pc = "take" /\ tx.i <= s /\ s <= tx.last
<1>1. /\ Len(tx_list[s]) \in Nat /\ Waiting(tx_sig, s) \in Nat
      /\ tx_list[s] \in Seq(Buffers)
      /\ s \in Nat /\ s <= NumStreams /\ 1 <= s
      /\ tx.i \in Nat /\ tx.last \in Nat /\ tx.i <= tx.last
  BY ConstantTypes, LenProperties, WaitingType
  DEF TypeOK, ListType, SignalType, TxType
<1>2. UNCHANGED pr
  BY DEF TxNext, TxWait, TxSkip, TxTake, TxSend, TxExhausted, threadVars
\* Moving on from a stream other than s, at "take", or from a packet sent.
<1>3. ASSUME TxAdvance, tx.pc = "take" => tx.i # s,
             tx.pc = "send" => tx.i = s \/ ~UseSems, tx.pc # "wait"
      PROVE  Visits' <=> Visits
  <2>1. CASE tx.i = tx.last
    BY <1>1, <1>3, <2>1 DEF TxAdvance, TxWaiting
  <2>2. CASE tx.i # tx.last
    <3>1. tx'.pc = "take" /\ tx'.i = tx.i + 1 /\ tx'.last = tx.last
      BY <1>3, <2>2 DEF TxAdvance, TypeOK, TxType
    <3>2. UseSems
      BY <2>2 DEF TxShape
    <3>3. tx.pc \in {"take", "send"}
      BY <1>3 DEF TypeOK, TxType
    <3> QED  BY <1>1, <1>3, <3>1, <3>2, <3>3
  <2> QED  BY <2>1, <2>2
<1>4. CASE TxWait
  <2>1. /\ tx.pc = "wait" /\ tx_sig # << >> /\ tx_sig' = Tail(tx_sig)
        /\ UNCHANGED tx_list
        /\ tx'.pc = "take"
        /\ tx'.i = FirstVisited(Head(tx_sig)) /\ tx'.last = LastVisited(Head(tx_sig))
    BY <1>4 DEF TxWait
  <2>2. Head(tx_sig) \in Tokens
    BY <2>1, HeadTailProperties DEF TypeOK, SignalType
  <2>3. Visits' <=> UseSems \/ Head(tx_sig) = s
    <3>1. CASE UseSems
      BY <1>1, <2>1, <3>1 DEF FirstVisited, LastVisited
    <3>2. CASE ~UseSems
      <4>1. Head(tx_sig) \in Nat
        BY <2>2, <3>2, ConstantTypes DEF Tokens
      <4>2. tx'.i = Head(tx_sig) /\ tx'.last = Head(tx_sig)
        BY <2>1, <3>2 DEF FirstVisited, LastVisited
      <4> QED  BY <1>1, <2>1, <3>2, <4>1, <4>2
    <3> QED  BY <3>1, <3>2
  <2>4. Waiting(tx_sig', s) = Waiting(tx_sig, s) - One(UseSems \/ Head(tx_sig) = s)
    BY <2>1, WaitingReceive DEF TypeOK, SignalType
  <2> QED  BY <1>1, <1>2, <2>1, <2>3, <2>4 DEF SignalPerPacket, One
<1>5. CASE TxSkip
  <2>1. /\ tx.pc = "take" /\ tx.i # s /\ TxAdvance
        /\ UNCHANGED << tx_list, tx_sig >>
    BY <1>5 DEF TxSkip
  <2> QED  BY <1>2, <1>3, <2>1 DEF SignalPerPacket, One
<1>6. CASE TxTake
  <2>1. /\ tx_list[tx.i] # << >> /\ tx.pc = "take" /\ tx.i \in Streams \ Delayed
    BY <1>6, TxTakeFinds DEF TxTake, TypeOK, TxType
  <2>2. /\ tx' = [tx EXCEPT !.pc = "send", !.b = Head(tx_list[tx.i])]
        /\ tx_list' = [tx_list EXCEPT ![tx.i] = Tail(tx_list[tx.i])]
        /\ UNCHANGED tx_sig
    BY <1>6, <2>1 DEF TxTake
  <2>3. ~Visits'
    BY <2>2 DEF TypeOK, TxType
  <2>4. CASE tx.i = s
    <3>1. Len(tx_list'[s]) = Len(tx_list[s]) - 1
      BY <1>1, <2>1, <2>2, <2>4, HeadTailProperties DEF TypeOK, ListType
    <3> QED  BY <1>1, <1>2, <2>1, <2>2, <2>3, <2>4, <3>1 DEF SignalPerPacket, One
  <2>5. CASE tx.i # s
    <3>1. ~UseSems
      BY <2>1, <2>5 DEF SignalsAreSpecific, OneUndelayedStream
    <3>2. ~Visits
      BY <1>1, <2>5, <3>1 DEF TxShape
    <3>3. tx_list'[s] = tx_list[s]
      BY <2>2, <2>5 DEF TypeOK, ListType
    <3> QED  BY <1>2, <2>2, <2>3, <3>2, <3>3 DEF SignalPerPacket, One
  <2> QED  BY <2>4, <2>5
<1>7. CASE \E r \in SendResults : TxSend(r)
  <2>1. tx.pc = "send" /\ TxAdvance /\ UNCHANGED << tx_list, tx_sig >>
    BY <1>7 DEF TxSend
  <2>2. tx.i = s \/ ~UseSems
    BY <2>1 DEF TxShape, TypeOK, TxType, SignalsAreSpecific, OneUndelayedStream
  <2> QED  BY <1>2, <1>3, <2>1, <2>2 DEF SignalPerPacket, One
<1>8. CASE \E r \in SendResults : TxExhausted(r)
  BY <1>8, SignalPerPacketKept DEF TxExhausted, threadVars
<1> QED  BY <1>4, <1>5, <1>6, <1>7, <1>8 DEF TxNext

\* The other threads leave the undelayed tx_lists and the tx signals alone.
LEMMA TxSignalledByOthers ==
  ASSUME TypeOK, TxShape, RxNext \/ TxdNext \/ Tick \/ UNCHANGED vars,
         NEW s \in Streams \ Delayed, SignalPerPacket(s)
  PROVE  SignalPerPacket(s)'
<1>1. UNCHANGED << tx_sig, tx, pr >>
  BY DEF RxNext, RxAllocFails, RxNothing, RxFrame, RxAdd, RxAddFails, RxPost, TxdNext,
         TxdRead, TxdNothing, TxdTake, TxdSend, TxdShow, TxdArm, Tick, threadVars, vars
<1>2. CASE UNCHANGED tx_list
  BY <1>1, <1>2, SignalPerPacketKept
<1>3. CASE TxdTake
  <2>1. tx_list'[s] = tx_list[s]
    <3>1. txd.i \in Delayed
      BY <1>3 DEF TxdTake, TxShape
    <3> QED  BY <1>3, <3>1 DEF TxdTake, TypeOK, ListType
  <2> QED  BY <1>1, <2>1, SignalPerPacketKept
<1> QED
  BY <1>2, <1>3
  DEF RxNext, RxAllocFails, RxNothing, RxFrame, RxAdd, RxAddFails, RxPost, TxdNext,
      TxdRead, TxdNothing, TxdSend, TxdShow, TxdArm, Tick, vars

\* Whatever happens next, packets and tx signals stay equal in number.
LEMMA TxSignalledStep ==
  TypeOK /\ TxShape /\ TxSignalled /\ [Next]_vars => TxSignalled'
<1> SUFFICES ASSUME TypeOK, TxShape, TxSignalled, [Next]_vars, SignalsAreSpecific,
                    NEW s \in Streams \ Delayed
             PROVE  SignalPerPacket(s)'
  BY DEF TxSignalled, SignalsAreSpecific, OneUndelayedStream
<1>1. SignalPerPacket(s)
  BY DEF TxSignalled, SignalsAreSpecific
<1> QED
  BY <1>1, TxSignalledByPr, TxSignalledByTx, TxSignalledByOthers DEF Next, Halted

\* Every packet in the tx_list of an undelayed stream has one signal of its own,
\* waiting, about to be posted, or received by the thread that will take it.
THEOREM EveryPacketSignalled == Spec => []TxSignalled
<1> QED
  BY TypeCorrect, TxShapeInit, TxShapeStep, TxSignalledInit, TxSignalledStep, PTL
  DEF Spec

\* A thread that takes from an undelayed tx_list never meets the assertion.
LEMMA TxListStep ==
  TypeOK /\ TxSignalled /\ TxListNeverEmptyAtTake /\ [Next]_vars
    => TxListNeverEmptyAtTake'
<1> SUFFICES ASSUME TypeOK, TxSignalled, TxListNeverEmptyAtTake, [Next]_vars,
                    SignalsAreSpecific
             PROVE  aborted' # "tx_list_empty"
  BY DEF TxListNeverEmptyAtTake, SignalsAreSpecific, OneUndelayedStream
<1>1. aborted # "tx_list_empty"
  BY DEF TxListNeverEmptyAtTake, SignalsAreSpecific
<1>2. CASE TxTake
  BY <1>1, <1>2, TxTakeFinds DEF TxTake
<1> QED
  BY <1>1, <1>2
  DEF Abort, Next, PrNext, PrWait, PrCount, PrTake, PrDiscard, PrInsertFails, PrGiveUp,
      PrInsert, PrPost, PrInsertDelayed, PrShow, PrArm, PrArmFaults, RxNext,
      RxAllocFails, RxNothing, RxFrame, RxAdd, RxAddFails, RxPost, TxNext, TxWait,
      TxSkip, TxSend, TxExhausted, TxdNext, TxdRead, TxdNothing, TxdTake, TxdSend,
      TxdShow, TxdArm, Tick, Halted, vars

\* "this stream has no packets ready for tx": the assertion on it cannot fail
\* while at most one stream is without delay, nor with message queues.
THEOREM TxListNeverEmpty == Spec => []TxListNeverEmptyAtTake
<1>1. Init => TxListNeverEmptyAtTake
  BY DEF Init, TxListNeverEmptyAtTake
<1> QED  BY <1>1, TxListStep, TypeCorrect, EveryPacketSignalled, PTL DEF Spec

-----------------------------------------------------------------------------
(* Every received packet is signalled                                      *)

\* The packets of all lists together are finitely many.
LEMMA QueuedFinite ==
  ASSUME NEW list \in [Streams -> Seq(Buffers)]
  PROVE  IsFiniteSet(Queued(list)) /\ Cardinality(Queued(list)) \in Nat
<1> DEFINE part == [s \in Streams |-> {s} \X (1..Len(list[s]))]
           parts == {{s} \X (1..Len(list[s])) : s \in Streams}
<1>1. IsFiniteSet(Streams)
  BY ConstantTypes, FS_Interval DEF Streams
<1>2. IsFiniteSet(parts)
  <2>1. part \in Surjection(Streams, parts)
    BY DEF Surjection
  <2> HIDE DEF part, parts
  <2> QED  BY <1>1, <2>1, FS_Surjection
<1>3. ASSUME NEW T \in parts PROVE IsFiniteSet(T)
  <2>1. PICK s \in Streams : T = {s} \X (1..Len(list[s]))
    BY <1>3
  <2>2. Len(list[s]) \in Nat
    BY LenProperties
  <2>3. IsFiniteSet(1..Len(list[s]))
    BY <2>2, FS_Interval
  <2>4. IsFiniteSet({s})
    BY FS_Singleton
  <2> QED  BY <2>1, <2>3, <2>4, FS_Product
<1>4. IsFiniteSet(UNION parts)
  <2> HIDE DEF parts
  <2> QED  BY <1>2, <1>3, FS_UNION
<1> QED  BY <1>4, FS_CardinalityType DEF Queued

\* Adding a packet to one list makes one more in all.
LEMMA QueuedGrows ==
  ASSUME NEW old \in [Streams -> Seq(Buffers)], NEW new \in [Streams -> Seq(Buffers)],
         NEW t \in Streams, Len(new[t]) = Len(old[t]) + 1,
         \A s \in Streams : s # t => new[s] = old[s]
  PROVE  Cardinality(Queued(new)) = Cardinality(Queued(old)) + 1
<1>1. \A s \in Streams : Len(old[s]) \in Nat /\ Len(new[s]) \in Nat
  BY LenProperties
<1>2. \A x : x \in Queued(old) <=>
               \E s \in Streams : \E k \in 1..Len(old[s]) : x = << s, k >>
  BY DEF Queued
<1>3. \A x : x \in Queued(new) <=>
               \E s \in Streams : \E k \in 1..Len(new[s]) : x = << s, k >>
  BY DEF Queued
<1>4. Queued(new) = Queued(old) \union {<< t, Len(old[t]) + 1 >>}
  <2>1. ASSUME NEW x \in Queued(new) PROVE x \in Queued(old) \/ x = << t, Len(old[t]) + 1 >>
    <3>0. PICK s \in Streams : \E k \in 1..Len(new[s]) : x = << s, k >>
      BY <1>3, <2>1
    <3>1. PICK k \in 1..Len(new[s]) : x = << s, k >>
      BY <3>0
    <3>2. k \in 1..Len(old[s]) \/ (s = t /\ k = Len(old[t]) + 1)
      BY <1>1
    <3> QED  BY <1>2, <3>1, <3>2
  <2>2. << t, Len(old[t]) + 1 >> \in Queued(new)
    <3>1. Len(old[t]) + 1 \in 1..Len(new[t])
      BY <1>1
    <3> QED  BY <1>3, <3>1
  <2>3. ASSUME NEW x \in Queued(old) PROVE x \in Queued(new)
    <3>0. PICK s \in Streams : \E k \in 1..Len(old[s]) : x = << s, k >>
      BY <1>2, <2>3
    <3>1. PICK k \in 1..Len(old[s]) : x = << s, k >>
      BY <3>0
    <3>2. k \in 1..Len(new[s])
      BY <1>1
    <3> QED  BY <1>3, <3>1, <3>2
  <2> QED  BY <2>1, <2>2, <2>3
<1>5. << t, Len(old[t]) + 1 >> \notin Queued(old)
  <2> SUFFICES ASSUME NEW s \in Streams, NEW k \in 1..Len(old[s]),
                      << t, Len(old[t]) + 1 >> = << s, k >>
               PROVE  FALSE
    BY <1>2
  <2> QED  BY <1>1
<1> QED  BY <1>4, <1>5, QueuedFinite, FS_AddElement

\* There are none when every list is empty.
LEMMA QueuedNone ==
  ASSUME NEW list \in [Streams -> Seq(Buffers)], \A s \in Streams : list[s] = << >>
  PROVE  Cardinality(Queued(list)) = 0
<1>1. \A s \in Streams : 1..Len(list[s]) = {}
  BY EmptySeq
<1>2. Queued(list) = {}
  BY <1>1 DEF Queued
<1> QED  BY <1>2, FS_EmptySet

\* A message names the one stream that p_emu_PrThread is to visit.
RxShape == ~UseSems => pr.i = pr.last

\* The two halves of RxSignalled.
PrMayTake == pr.pc \in {"scan", "take"} /\ \E s \in pr.i..pr.last : rx_list[s] # << >>

RxCounted ==
    Cardinality(Queued(rx_list)) <= Len(rx_sig) + One(rx.pc = "post") + One(PrMayTake)

RxNamed(s) ==
    Len(rx_list[s]) = Waiting(rx_sig, s) + One(rx.pc = "post" /\ rx.i = s)
                      + One(pr.pc \in {"scan", "take"} /\ pr.i = s)

RxSignalInv ==
    /\ RxShape
    /\ UseSems => RxCounted
    /\ ~UseSems => \A s \in Streams : RxNamed(s)

\* Together they are RxSignalled.
LEMMA RxSignalMeans == RxSignalInv => RxSignalled
  BY DEF RxSignalInv, RxSignalled, RxCounted, RxNamed, PrMayTake

\* At the start there is neither a packet nor a signal.
LEMMA RxSignalInit == Init => RxSignalInv
<1> SUFFICES ASSUME Init PROVE RxSignalInv
  OBVIOUS
<1>1. TypeOK
  BY InitType
<1>2. /\ rx_sig = << >> /\ rx.pc = "recv" /\ pr = PrWaiting
      /\ \A s \in Streams : rx_list[s] = << >>
  BY DEF Init, RxInit, RxStart, PrInit
<1>3. Cardinality(Queued(rx_list)) = 0
  BY <1>1, <1>2, QueuedNone DEF TypeOK, ListType
<1>4. Len(<< >>) = 0 /\ \A s \in Streams : Cardinality({k \in 1..Len(<< >>) : << >>[k] = s}) = 0
  <2>1. \A s \in Streams : {k \in 1..Len(<< >>) : << >>[k] = s} = {}
    BY EmptySeq
  <2> QED  BY <2>1, EmptySeq, FS_EmptySet
<1>5. RxShape /\ pr.pc = "wait"
  BY <1>2 DEF RxShape, PrWaiting
<1>6. RxCounted
  BY <1>2, <1>3, <1>4, <1>5 DEF RxCounted, One, PrMayTake
<1>7. ASSUME ~UseSems, NEW s \in Streams PROVE RxNamed(s)
  BY <1>2, <1>4, <1>5, <1>7 DEF RxNamed, Waiting, One
<1> QED  BY <1>5, <1>6, <1>7 DEF RxSignalInv

\* The steps that touch neither rx_list and its signals nor who is about to
\* send or use one.
LEMMA RxSignalKept ==
  ASSUME RxSignalInv, UNCHANGED << rx_list, rx_sig, pr >>,
         rx'.pc = "post" <=> rx.pc = "post", rx.pc = "post" => rx'.i = rx.i
  PROVE  RxSignalInv'
<1>1. RxShape' /\ (UseSems => RxCounted')
  BY DEF RxSignalInv, RxShape, RxCounted, PrMayTake, One
<1>2. ASSUME ~UseSems, NEW s \in Streams PROVE RxNamed(s)'
  BY <1>2 DEF RxSignalInv, RxNamed, Waiting, One
<1> QED  BY <1>1, <1>2 DEF RxSignalInv

\* p_emu_RxThread sends one signal for every packet it queues.
LEMMA RxSignalByRx ==
  ASSUME TypeOK, RxSignalInv, RxNext
  PROVE  RxSignalInv'
<1>0. UNCHANGED pr /\ RxShape'
  BY DEF RxNext, RxAllocFails, RxNothing, RxFrame, RxAdd, RxAddFails, RxPost,
         RxSignalInv, RxShape
<1>1. CASE RxAllocFails \/ RxNothing \/ RxFrame \/ RxAddFails
  <2>1. UNCHANGED << rx_list, rx_sig, pr >> /\ rx.pc # "post"
    BY <1>1 DEF RxAllocFails, RxNothing, RxFrame, RxAddFails
  <2>2. rx'.pc # "post"
    <3>1. CASE RxAllocFails \/ RxNothing \/ RxAddFails
      BY <3>1 DEF RxAllocFails, RxNothing, RxAddFails, RxAdvance
    <3>2. CASE RxFrame
      <4>1. PICK b \in Buffers : rx' = [rx EXCEPT !.pc = "add", !.b = b]
        BY <3>2 DEF RxFrame
      <4> QED  BY <4>1 DEF TypeOK, RxType
    <3> QED  BY <1>1, <3>1, <3>2
  <2> QED  BY <2>1, <2>2, RxSignalKept
<1>2. CASE RxAdd
  <2>1. /\ rx.pc = "add" /\ rx'.pc = "post" /\ rx'.i = rx.i /\ rx.i \in Streams
        /\ rx.b \in Buffers /\ UNCHANGED << rx_sig, pr >>
        /\ rx_list' = [rx_list EXCEPT ![rx.i] = Append(rx_list[rx.i], rx.b)]
        /\ rx_list \in [Streams -> Seq(Buffers)]
    BY <1>2 DEF RxAdd, TypeOK, RxType, ListType
  <2>2. /\ \A s \in Streams : rx_list[s] \in Seq(Buffers) /\ Len(rx_list[s]) \in Nat
        /\ Append(rx_list[rx.i], rx.b) \in Seq(Buffers)
        /\ Append(rx_list[rx.i], rx.b) # << >>
        /\ Len(Append(rx_list[rx.i], rx.b)) = Len(rx_list[rx.i]) + 1
    <3>1. \A s \in Streams : rx_list[s] \in Seq(Buffers) /\ Len(rx_list[s]) \in Nat
      BY <2>1, LenProperties
    <3>2. rx_list[rx.i] \in Seq(Buffers)
      BY <2>1, <3>1
    <3> QED  BY <2>1, <3>1, <3>2, AppendProperties
  <2>3. /\ rx_list' \in [Streams -> Seq(Buffers)]
        /\ Len(rx_list'[rx.i]) = Len(rx_list[rx.i]) + 1
        /\ rx_list'[rx.i] # << >>
        /\ \A s \in Streams : s # rx.i => rx_list'[s] = rx_list[s]
    BY <2>1, <2>2
  <2>4. ASSUME UseSems PROVE RxCounted'
    <3>1. Cardinality(Queued(rx_list')) = Cardinality(Queued(rx_list)) + 1
      BY <2>1, <2>3, QueuedGrows
    <3>2. Cardinality(Queued(rx_list)) \in Nat /\ Len(rx_sig) \in Nat
      BY <2>1, QueuedFinite, LenProperties DEF TypeOK, SignalType
    <3>3. PrMayTake => PrMayTake'
      <4>1. pr.i..pr.last \subseteq Streams
        BY ConstantTypes DEF TypeOK, PrType, Streams
      <4>2. \A s \in Streams : rx_list[s] # << >> => rx_list'[s] # << >>
        BY <2>3
      <4> QED  BY <2>1, <4>1, <4>2 DEF PrMayTake
    <3>4. RxCounted
      BY <2>4 DEF RxSignalInv
    <3> QED  BY <2>1, <3>1, <3>2, <3>3, <3>4 DEF RxCounted, One
  <2>5. ASSUME ~UseSems, NEW s \in Streams PROVE RxNamed(s)'
    <3>1. RxNamed(s) /\ Waiting(rx_sig, s) \in Nat
      BY <2>5, WaitingType DEF RxSignalInv, TypeOK, SignalType
    <3>2. Waiting(rx_sig, s)' = Waiting(rx_sig, s)
      BY <2>1 DEF Waiting
    <3> QED  BY <2>1, <2>2, <2>3, <3>1, <3>2 DEF RxNamed, One
  <2> QED  BY <1>0, <2>4, <2>5 DEF RxSignalInv
<1>3. CASE RxPost
  <2>1. /\ rx.pc = "post" /\ rx'.pc = "recv" /\ rx.i \in Streams
        /\ UNCHANGED << rx_list, pr >> /\ rx_sig' = Post(rx_sig, rx.i)
        /\ rx_sig \in Seq(Tokens)
    BY <1>3 DEF RxPost, RxAdvance, TypeOK, RxType, SignalType
  <2>2. ASSUME UseSems PROVE RxCounted'
    <3>1. Len(rx_sig') = Len(rx_sig) + 1 /\ Len(rx_sig) \in Nat
      BY <2>1, ConstantTypes, AppendProperties, LenProperties DEF Post
    <3>2. RxCounted /\ Cardinality(Queued(rx_list)) \in Nat
      BY <2>2, QueuedFinite DEF RxSignalInv, TypeOK, ListType
    <3>3. PrMayTake' <=> PrMayTake
      BY <2>1 DEF PrMayTake
    <3> QED  BY <2>1, <3>1, <3>2, <3>3 DEF RxCounted, One
  <2>3. ASSUME ~UseSems, NEW s \in Streams PROVE RxNamed(s)'
    <3>1. RxNamed(s) /\ Waiting(rx_sig, s) \in Nat /\ Len(rx_list[s]) \in Nat
      BY <2>3, WaitingType, LenProperties DEF RxSignalInv, TypeOK, SignalType, ListType
    <3>2. Waiting(rx_sig', s) = Waiting(rx_sig, s) + One(UseSems \/ rx.i = s)
      BY <2>1, WaitingPost
    <3> QED  BY <2>1, <2>3, <3>1, <3>2 DEF RxNamed, One
  <2> QED  BY <1>0, <2>2, <2>3 DEF RxSignalInv
<1> QED  BY <1>1, <1>2, <1>3 DEF RxNext

\* Leaving a stream that is empty, or one whose packet has been taken.
LEMMA RxSignalAdvance ==
  ASSUME TypeOK, RxSignalInv, PrAdvance, UNCHANGED << rx_list, rx_sig, rx >>,
         pr.pc \in {"scan", "take"} => UseSems /\ rx_list[pr.i] = << >>
  PROVE  RxSignalInv'
<1>1. /\ pr.i \in Nat /\ pr.last \in Nat /\ pr.i <= pr.last
  BY ConstantTypes DEF TypeOK, PrType
<1>2. CASE pr.i = pr.last
  <2>1. pr'.pc = "wait" /\ RxShape'
    BY <1>2 DEF PrAdvance, PrWaiting, RxShape
  <2>2. ~PrMayTake
    BY <1>1, <1>2 DEF PrMayTake
  <2>3. ASSUME UseSems PROVE RxCounted'
    BY <2>1, <2>2, <2>3 DEF RxCounted, PrMayTake, One, RxSignalInv
  <2>4. ASSUME ~UseSems, NEW s \in Streams PROVE RxNamed(s)'
    BY <2>1, <2>4 DEF RxNamed, RxSignalInv, Waiting, One
  <2> QED  BY <2>1, <2>3, <2>4 DEF RxSignalInv
<1>3. CASE pr.i # pr.last
  <2>1. /\ pr'.pc = "scan" /\ pr'.i = pr.i + 1 /\ pr'.last = pr.last
    BY <1>3 DEF PrAdvance, TypeOK, PrType
  <2>2. UseSems
    BY <1>3 DEF RxSignalInv, RxShape
  <2>3. PrMayTake => PrMayTake'
    BY <1>1, <2>1 DEF PrMayTake
  <2>4. Cardinality(Queued(rx_list)) \in Nat /\ Len(rx_sig) \in Nat
    BY QueuedFinite, LenProperties DEF TypeOK, ListType, SignalType
  <2>5. RxCounted
    BY <2>2 DEF RxSignalInv
  <2>6. RxCounted'
    <3>1. UNCHANGED << rx_list, rx_sig, rx >>
      OBVIOUS
    <3>2. One(PrMayTake) <= One(PrMayTake')
      BY <2>3 DEF One
    <3>3. /\ One(PrMayTake) \in {0, 1} /\ One(PrMayTake') \in {0, 1}
          /\ One(rx.pc = "post") \in {0, 1}
      BY DEF One
    <3> QED  BY <2>4, <2>5, <3>1, <3>2, <3>3 DEF RxCounted
  <2> QED  BY <2>2, <2>6 DEF RxSignalInv, RxShape
<1> QED  BY <1>2, <1>3

\* A woken p_emu_PrThread is about to meet a packet, if there is one.
LEMMA RxSignalWait ==
  ASSUME TypeOK, RxSignalInv, PrWait
  PROVE  RxSignalInv'
<1>1. /\ pr.pc = "wait" /\ rx_sig # << >> /\ rx_sig' = Tail(rx_sig)
      /\ UNCHANGED << rx_list, rx >> /\ pr'.pc = "scan"
      /\ pr'.i = FirstVisited(Head(rx_sig)) /\ pr'.last = LastVisited(Head(rx_sig))
      /\ rx_sig \in Seq(Tokens)
  BY DEF PrWait, TypeOK, SignalType
<1>2. /\ Head(rx_sig) \in Tokens
      /\ Len(rx_sig) \in Nat \ {0} /\ Len(Tail(rx_sig)) = Len(rx_sig) - 1
  BY <1>1, HeadTailProperties, EmptySeq, LenProperties
<1>3. ASSUME UseSems PROVE RxCounted'
  <2>1. RxCounted /\ Cardinality(Queued(rx_list)) \in Nat
    BY <1>3, QueuedFinite DEF RxSignalInv, TypeOK, ListType
  <2>2. pr'.i..pr'.last = Streams
    BY <1>1, <1>3 DEF FirstVisited, LastVisited, Streams
  <2>3. CASE PrMayTake'
    <3>1. Len(rx_sig') = Len(rx_sig) - 1 /\ Len(rx_sig) \in Nat
      BY <1>1, <1>2
    <3>2. One(PrMayTake) = 0 /\ One(PrMayTake') = 1
      BY <1>1, <2>3 DEF One, PrMayTake
    <3>3. One(rx.pc = "post") \in {0, 1}
      BY DEF One
    <3> QED  BY <1>1, <2>1, <3>1, <3>2, <3>3 DEF RxCounted
  <2>4. CASE ~PrMayTake'
    <3>1. Cardinality(Queued(rx_list)) = 0
      BY <1>1, <2>2, <2>4, QueuedNone DEF PrMayTake, TypeOK, ListType
    <3>2. Len(rx_sig') \in Nat /\ rx_list' = rx_list
      BY <1>1, <1>2
    <3>3. One(rx'.pc = "post") \in {0, 1} /\ One(PrMayTake') \in {0, 1}
      BY DEF One
    <3> QED  BY <3>1, <3>2, <3>3 DEF RxCounted
  <2> QED  BY <2>3, <2>4
<1>4. ASSUME ~UseSems, NEW s \in Streams PROVE RxNamed(s)'
  <2>1. RxNamed(s) /\ Waiting(rx_sig, s) \in Nat /\ Len(rx_list[s]) \in Nat
    BY <1>4, WaitingType, LenProperties DEF RxSignalInv, TypeOK, SignalType, ListType
  <2>2. Waiting(rx_sig', s) = Waiting(rx_sig, s) - One(UseSems \/ Head(rx_sig) = s)
    BY <1>1, WaitingReceive
  <2>3. pr'.i = Head(rx_sig)
    BY <1>1, <1>4 DEF FirstVisited
  <2> QED  BY <1>1, <1>4, <2>1, <2>2, <2>3 DEF RxNamed, One
<1>5. RxShape'
  BY <1>1 DEF RxShape, FirstVisited, LastVisited
<1> QED  BY <1>3, <1>4, <1>5 DEF RxSignalInv

\* It takes one packet for the signal it received.
LEMMA RxSignalTake ==
  ASSUME TypeOK, RxSignalInv, PrTake
  PROVE  RxSignalInv'
<1>1. CASE rx_list[pr.i] = << >>
  <2>1. UNCHANGED << rx_list, rx_sig, pr, rx >>
    BY <1>1 DEF PrTake
  <2> QED  BY <2>1, RxSignalKept
<1>2. CASE rx_list[pr.i] # << >>
  <2>1. /\ pr.pc = "take" /\ pr'.pc = "process" /\ pr'.i = pr.i /\ pr'.last = pr.last
        /\ pr.i \in Streams /\ UNCHANGED << rx_sig, rx >>
        /\ rx_list' = [rx_list EXCEPT ![pr.i] = Tail(rx_list[pr.i])]
        /\ rx_list \in [Streams -> Seq(Buffers)]
    BY <1>2 DEF PrTake, TypeOK, PrType, ListType
  <2>2. /\ \A s \in Streams : rx_list[s] \in Seq(Buffers) /\ Len(rx_list[s]) \in Nat
        /\ Tail(rx_list[pr.i]) \in Seq(Buffers)
        /\ Len(rx_list[pr.i]) = Len(Tail(rx_list[pr.i])) + 1
        /\ Len(Tail(rx_list[pr.i])) \in Nat
    BY <1>2, <2>1, HeadTailProperties, LenProperties, EmptySeq
  <2>3. /\ rx_list' \in [Streams -> Seq(Buffers)]
        /\ Len(rx_list[pr.i]) = Len(rx_list'[pr.i]) + 1
        /\ \A s \in Streams : s # pr.i => rx_list[s] = rx_list'[s]
    BY <2>1, <2>2
  <2>4. ASSUME UseSems PROVE RxCounted'
    <3>1. Cardinality(Queued(rx_list)) = Cardinality(Queued(rx_list')) + 1
      BY <2>1, <2>3, QueuedGrows
    <3>2. /\ Cardinality(Queued(rx_list)) \in Nat /\ Cardinality(Queued(rx_list')) \in Nat
          /\ Len(rx_sig) \in Nat
      BY <2>1, <2>3, QueuedFinite, LenProperties DEF TypeOK, SignalType
    <3>3. RxCounted
      BY <2>4 DEF RxSignalInv
    <3>4. /\ One(PrMayTake) \in {0, 1} /\ One(PrMayTake') = 0
          /\ One(rx.pc = "post") \in {0, 1} /\ rx' = rx /\ rx_sig' = rx_sig
      BY <2>1 DEF One, PrMayTake
    <3> QED  BY <3>1, <3>2, <3>3, <3>4 DEF RxCounted
  <2>5. ASSUME ~UseSems, NEW s \in Streams PROVE RxNamed(s)'
    <3>1. RxNamed(s) /\ Waiting(rx_sig, s) \in Nat
      BY <2>5, WaitingType DEF RxSignalInv, TypeOK, SignalType
    <3>2. Waiting(rx_sig, s)' = Waiting(rx_sig, s)
      BY <2>1 DEF Waiting
    <3> QED  BY <2>1, <2>2, <2>3, <3>1, <3>2 DEF RxNamed, One
  <2> QED  BY <2>1, <2>4, <2>5 DEF RxSignalInv, RxShape
<1> QED  BY <1>1, <1>2

\* With messages the stream named has a packet.
LEMMA RxNamedFinds ==
  ASSUME TypeOK, RxSignalInv, ~UseSems, pr.pc = "scan"
  PROVE  rx_list[pr.i] # << >>
<1>1. PICK s \in Streams : s = pr.i
  BY DEF TypeOK, PrType
<1>2. RxNamed(s) /\ Waiting(rx_sig, s) \in Nat
  BY WaitingType DEF RxSignalInv, TypeOK, SignalType
<1>3. Len(rx_list[s]) # 0
  BY <1>1, <1>2 DEF RxNamed, One
<1> QED  BY <1>1, <1>3, EmptySeq

\* No step of p_emu_PrThread leaves a packet behind without a signal.
LEMMA RxSignalByPr ==
  ASSUME TypeOK, RxSignalInv, PrNext
  PROVE  RxSignalInv'
<1>1. CASE PrWait
  BY <1>1, RxSignalWait
<1>2. CASE PrTake
  BY <1>2, RxSignalTake
<1>3. CASE PrCount /\ rx_list[pr.i] = << >>
  <2>1. pr.pc = "scan" /\ PrAdvance /\ UNCHANGED << rx_list, rx_sig, rx >>
    BY <1>3 DEF PrCount
  <2>2. UseSems
    BY <1>3, <2>1, RxNamedFinds
  <2> QED  BY <1>3, <2>1, <2>2, RxSignalAdvance
<1>4. CASE PrCount /\ rx_list[pr.i] # << >>
  <2>1. /\ pr.pc = "scan" /\ pr'.pc = "take" /\ pr'.i = pr.i /\ pr'.last = pr.last
        /\ UNCHANGED << rx_list, rx_sig, rx >>
    BY <1>4 DEF PrCount, TypeOK, PrType
  <2> QED
    BY <2>1
    DEF RxSignalInv, RxShape, RxCounted, RxNamed, PrMayTake, Waiting, One
<1>5. CASE PrDiscard \/ PrInsertFails \/ PrPost \/ PrArm
  <2>1. /\ PrAdvance /\ pr.pc \notin {"scan", "take"}
        /\ UNCHANGED << rx_list, rx_sig, rx >>
    BY <1>5 DEF PrDiscard, PrInsertFails, PrPost, PrArm, PrGiveUp
  <2> QED  BY <2>1, RxSignalAdvance
<1>6. CASE PrInsert \/ PrShow \/ PrArmFaults \/ \E d \in DelayOffsets : PrInsertDelayed(d)
  <2>1. /\ pr.pc \notin {"scan", "take"} /\ pr'.pc \notin {"scan", "take"}
        /\ pr'.i = pr.i /\ pr'.last = pr.last
        /\ UNCHANGED << rx_list, rx_sig, rx >>
    BY <1>6 DEF PrInsert, PrShow, PrArmFaults, PrInsertDelayed, threadVars, TypeOK, PrType
  <2> QED
    BY <2>1
    DEF RxSignalInv, RxShape, RxCounted, RxNamed, PrMayTake, Waiting, One
<1> QED  BY <1>1, <1>2, <1>3, <1>4, <1>5, <1>6 DEF PrNext

\* The other threads have nothing to do with received packets.
LEMMA RxSignalStep == TypeOK /\ RxSignalInv /\ [Next]_vars => RxSignalInv'
<1> SUFFICES ASSUME TypeOK, RxSignalInv, TxNext \/ TxdNext \/ Tick \/ UNCHANGED vars
             PROVE  RxSignalInv'
  BY RxSignalByRx, RxSignalByPr DEF Next, Halted
<1>1. UNCHANGED << rx_list, rx_sig, pr, rx >>
  BY DEF TxNext, TxWait, TxSkip, TxTake, TxSend, TxExhausted, TxdNext, TxdRead,
         TxdNothing, TxdTake, TxdSend, TxdShow, TxdArm, Tick, threadVars, vars
<1> QED  BY <1>1, RxSignalKept

\* No lost wakeup between p_emu_RxThread and p_emu_PrThread, in either build:
\* each received packet has a signal that waits, is about to be sent, or was
\* received by a pass that will still meet a packet.
THEOREM EveryReceivedPacketSignalled == Spec => []RxSignalled
<1> QED
  BY TypeCorrect, RxSignalInit, RxSignalStep, RxSignalMeans, PTL DEF Spec

=============================================================================
