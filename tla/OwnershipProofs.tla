--------------------------- MODULE OwnershipProofs ---------------------------
(***************************************************************************)
(* Theorems about the packet buffers: at every moment each allocated       *)
(* buffer is in one place and one only, a list, a thread's hands or among  *)
(* the ones p_emu_rx_packet has lost.                                      *)
(*                                                                         *)
(* The places partition the heap, and an action of a thread takes a buffer *)
(* from the allocator to a place, from one place to another, or back.      *)
(***************************************************************************)
EXTENDS ForwardPathProofs

-----------------------------------------------------------------------------
(* Lists of packets                                                        *)

\* No packet is in the list twice.
NoTwice(list) == \A m, n \in 1..Len(list) : m # n => list[m] # list[n]

\* A packet at the end of a list.
LEMMA AppendPlaces ==
  ASSUME NEW S, NEW list \in Seq(S), NEW b \in S
  PROVE  /\ ToSet(Append(list, b)) = ToSet(list) \union {b}
         /\ NoTwice(list) /\ b \notin ToSet(list) => NoTwice(Append(list, b))
<1> DEFINE new == Append(list, b)
<1>1. /\ Len(list) \in Nat /\ DOMAIN list = 1..Len(list)
      /\ Len(new) = Len(list) + 1 /\ DOMAIN new = 1..(Len(list) + 1)
      /\ \A i \in 1..Len(list) : new[i] = list[i]
      /\ new[Len(list) + 1] = b
  BY AppendProperties, LenProperties
<1> HIDE DEF new
<1>2. ToSet(new) = ToSet(list) \union {b}
  <2>1. \A x \in ToSet(new) : x \in ToSet(list) \union {b}
    BY <1>1 DEF ToSet
  <2>2. \A x \in ToSet(list) : x \in ToSet(new)
    BY <1>1 DEF ToSet
  <2>3. b \in ToSet(new)
    BY <1>1 DEF ToSet
  <2> QED  BY <2>1, <2>2, <2>3
<1>3. NoTwice(list) /\ b \notin ToSet(list) => NoTwice(new)
  BY <1>1 DEF NoTwice, ToSet
<1> QED  BY <1>2, <1>3 DEF new

\* The first packet taken off a list.
LEMMA TailPlaces ==
  ASSUME NEW S, NEW list \in Seq(S), list # << >>, NoTwice(list)
  PROVE  /\ Head(list) \in ToSet(list)
         /\ ToSet(Tail(list)) = ToSet(list) \ {Head(list)}
         /\ NoTwice(Tail(list))
<1> DEFINE rest == Tail(list)
<1>1. /\ Len(list) \in Nat \ {0} /\ DOMAIN list = 1..Len(list)
      /\ Len(rest) = Len(list) - 1 /\ DOMAIN rest = 1..(Len(list) - 1)
      /\ \A i \in 1..(Len(list) - 1) : rest[i] = list[i + 1]
      /\ Head(list) = list[1]
  BY HeadTailProperties, LenProperties, EmptySeq
<1> HIDE DEF rest
<1>2. Head(list) \in ToSet(list)
  BY <1>1 DEF ToSet
<1>3. \A x \in ToSet(rest) : x \in ToSet(list) /\ x # Head(list)
  <2> SUFFICES ASSUME NEW i \in 1..(Len(list) - 1)
               PROVE  rest[i] \in ToSet(list) /\ rest[i] # Head(list)
    BY <1>1 DEF ToSet
  <2>1. i + 1 \in 1..Len(list) /\ i + 1 # 1 /\ 1 \in 1..Len(list)
    BY <1>1
  <2> QED  BY <1>1, <2>1 DEF NoTwice, ToSet
<1>4. \A x \in ToSet(list) : x # Head(list) => x \in ToSet(rest)
  <2> SUFFICES ASSUME NEW i \in 1..Len(list), list[i] # Head(list)
               PROVE  list[i] \in ToSet(rest)
    BY <1>1 DEF ToSet
  <2>1. i - 1 \in 1..(Len(list) - 1) /\ (i - 1) + 1 = i
    BY <1>1
  <2> QED  BY <1>1, <2>1 DEF ToSet
<1>5. NoTwice(rest)
  <2> SUFFICES ASSUME NEW m \in 1..(Len(list) - 1), NEW n \in 1..(Len(list) - 1), m # n
               PROVE  rest[m] # rest[n]
    BY <1>1 DEF NoTwice
  <2>1. m + 1 \in 1..Len(list) /\ n + 1 \in 1..Len(list) /\ m + 1 # n + 1
    BY <1>1
  <2> QED  BY <1>1, <2>1 DEF NoTwice
<1> QED  BY <1>2, <1>3, <1>4, <1>5 DEF rest

\* A packet put at its place in departure order.
LEMMA InsertPlaces ==
  ASSUME NEW S, NEW list \in Seq(S), NEW b \in S, NEW leave
  PROVE  LET new == slib_insert_and_sort(list, b, leave)
         IN  /\ ToSet(new) = ToSet(list) \union {b}
             /\ NoTwice(list) /\ b \notin ToSet(list) => NoTwice(new)
<1> DEFINE new == slib_insert_and_sort(list, b, leave)
<1>1. PICK i \in 1..(Len(list) + 1) : new = InsertAt(list, i, b)
  BY InsertPosition
<1>2. /\ Len(list) \in Nat /\ DOMAIN list = 1..Len(list)
      /\ Len(new) = Len(list) + 1 /\ DOMAIN new = 1..(Len(list) + 1)
      /\ \A j \in 1..(Len(list) + 1) :
           new[j] = IF j < i THEN list[j] ELSE IF j = i THEN b ELSE list[j - 1]
  BY <1>1, InsertAtProperties, LenProperties
<1> HIDE DEF new
<1>3. \A x \in ToSet(new) : x \in ToSet(list) \union {b}
  <2> SUFFICES ASSUME NEW j \in 1..(Len(list) + 1)
               PROVE  new[j] \in ToSet(list) \union {b}
    BY <1>2 DEF ToSet
  <2>1. CASE j < i
    BY <1>2, <2>1 DEF ToSet
  <2>2. CASE j = i
    BY <1>2, <2>2
  <2>3. CASE j > i
    <3>1. j - 1 \in 1..Len(list)
      BY <1>2, <2>3
    <3> QED  BY <1>2, <2>3, <3>1 DEF ToSet
  <2> QED  BY <1>2, <2>1, <2>2, <2>3
<1>4. \A x \in ToSet(list) : x \in ToSet(new)
  <2> SUFFICES ASSUME NEW j \in 1..Len(list) PROVE list[j] \in ToSet(new)
    BY <1>2 DEF ToSet
  <2>1. CASE j < i
    <3>1. j \in 1..(Len(list) + 1) /\ new[j] = list[j]
      BY <1>2, <2>1
    <3> QED  BY <1>2, <3>1 DEF ToSet
  <2>2. CASE j >= i
    <3>1. j + 1 \in 1..(Len(list) + 1) /\ ~(j + 1 < i) /\ j + 1 # i /\ (j + 1) - 1 = j
      BY <1>2, <2>2
    <3>2. new[j + 1] = list[j]
      BY <1>2, <3>1
    <3> QED  BY <1>2, <3>1, <3>2 DEF ToSet
  <2> QED  BY <1>2, <2>1, <2>2
<1>5. b \in ToSet(new)
  BY <1>2 DEF ToSet
<1>6. NoTwice(list) /\ b \notin ToSet(list) => NoTwice(new)
  <2> SUFFICES ASSUME NoTwice(list), b \notin ToSet(list),
                      NEW m \in 1..(Len(list) + 1), NEW n \in 1..(Len(list) + 1), m < n
               PROVE  new[m] # new[n]
    BY <1>2 DEF NoTwice
  <2>1. \A j \in 1..Len(list) : list[j] # b
    BY <1>2 DEF ToSet
  <2>2. CASE n < i
    BY <1>2, <2>2 DEF NoTwice
  <2>3. CASE n = i
    BY <1>2, <2>1, <2>3
  <2>4. CASE m < i /\ n > i
    <3>1. n - 1 \in 1..Len(list) /\ m \in 1..Len(list) /\ m # n - 1
      BY <1>2, <2>4
    <3> QED  BY <1>2, <2>4, <3>1 DEF NoTwice
  <2>5. CASE m = i
    <3>1. n - 1 \in 1..Len(list)
      BY <1>2, <2>5
    <3> QED  BY <1>2, <2>1, <2>5, <3>1
  <2>6. CASE m > i
    <3>1. n - 1 \in 1..Len(list) /\ m - 1 \in 1..Len(list) /\ m - 1 # n - 1
      BY <1>2, <2>6
    <3> QED  BY <1>2, <2>6, <3>1 DEF NoTwice
  <2> QED  BY <1>2, <2>2, <2>3, <2>4, <2>5, <2>6
<1> QED  BY <1>3, <1>4, <1>5, <1>6 DEF new

-----------------------------------------------------------------------------
(* Partitions                                                              *)

\* The sets P[k] are disjoint and L is their union.
IsPartition(P, L) ==
    /\ \A j, k \in DOMAIN P : j # k => P[j] \intersect P[k] = {}
    /\ \A x : x \in L <=> \E k \in DOMAIN P : x \in P[k]

\* A member moved from one set to another leaves a partition.
LEMMA PartitionMove ==
  ASSUME NEW P, NEW L, IsPartition(P, L),
         NEW j \in DOMAIN P, NEW k \in DOMAIN P, j # k, NEW b \in P[j]
  PROVE  IsPartition([P EXCEPT ![j] = @ \ {b}, ![k] = @ \union {b}], L)
<1> DEFINE Q == [P EXCEPT ![j] = @ \ {b}, ![k] = @ \union {b}]
<1>1. /\ DOMAIN Q = DOMAIN P
      /\ \A i \in DOMAIN P : Q[i] = IF i = j THEN P[i] \ {b}
                                    ELSE IF i = k THEN P[i] \union {b} ELSE P[i]
  OBVIOUS
<1> HIDE DEF Q
<1>2. \A i \in DOMAIN P : i # j => b \notin P[i]
  BY DEF IsPartition
<1>3. \A i, h \in DOMAIN Q : i # h => Q[i] \intersect Q[h] = {}
  BY <1>1, <1>2 DEF IsPartition
<1>4. \A x : x \in L <=> \E i \in DOMAIN Q : x \in Q[i]
  BY <1>1, <1>2 DEF IsPartition
<1>5. IsPartition(Q, L)
  BY <1>3, <1>4 DEF IsPartition
<1> QED  BY <1>5 DEF Q

\* So does a new member.
LEMMA PartitionAdd ==
  ASSUME NEW P, NEW L, IsPartition(P, L), NEW k \in DOMAIN P, NEW b, b \notin L
  PROVE  IsPartition([P EXCEPT ![k] = @ \union {b}], L \union {b})
<1> DEFINE Q == [P EXCEPT ![k] = @ \union {b}]
<1>1. /\ DOMAIN Q = DOMAIN P
      /\ \A i \in DOMAIN P : Q[i] = IF i = k THEN P[i] \union {b} ELSE P[i]
  OBVIOUS
<1> HIDE DEF Q
<1>2. \A i \in DOMAIN P : b \notin P[i]
  BY DEF IsPartition
<1>3. \A i, h \in DOMAIN Q : i # h => Q[i] \intersect Q[h] = {}
  BY <1>1, <1>2 DEF IsPartition
<1>4. \A x : x \in L \union {b} <=> \E i \in DOMAIN Q : x \in Q[i]
  BY <1>1, <1>2 DEF IsPartition
<1>5. IsPartition(Q, L \union {b})
  BY <1>3, <1>4 DEF IsPartition
<1> QED  BY <1>5 DEF Q

\* And one that leaves.
LEMMA PartitionRemove ==
  ASSUME NEW P, NEW L, IsPartition(P, L), NEW j \in DOMAIN P, NEW b \in P[j]
  PROVE  IsPartition([P EXCEPT ![j] = @ \ {b}], L \ {b})
<1> DEFINE Q == [P EXCEPT ![j] = @ \ {b}]
<1>1. /\ DOMAIN Q = DOMAIN P
      /\ \A i \in DOMAIN P : Q[i] = IF i = j THEN P[i] \ {b} ELSE P[i]
  OBVIOUS
<1> HIDE DEF Q
<1>2. \A i \in DOMAIN P : i # j => b \notin P[i]
  BY DEF IsPartition
<1>3. \A i, h \in DOMAIN Q : i # h => Q[i] \intersect Q[h] = {}
  BY <1>1, <1>2 DEF IsPartition
<1>4. \A x : x \in L \ {b} <=> \E i \in DOMAIN Q : x \in Q[i]
  BY <1>1, <1>2 DEF IsPartition
<1>5. IsPartition(Q, L \ {b})
  BY <1>3, <1>4 DEF IsPartition
<1> QED  BY <1>5 DEF Q

-----------------------------------------------------------------------------
(* The places of the buffers                                               *)

\* A list of a stream, the hands of a thread, or the buffers lost.
AllPlaces == Places \union ({"hand"} \X (1..4)) \union {<< "lost", 0 >>}

Content(place) ==
    CASE place[1] = "rx" -> ToSet(rx_list[place[2]])
      [] place[1] = "tx" -> ToSet(tx_list[place[2]])
      [] place[1] = "hand" -> InHand[place[2]]
      [] place[1] = "lost" -> leaked

Contents == [place \in AllPlaces |-> Content(place)]

\* The inductive invariant: the places partition the heap, except for the buffers
\* in R, which belong to somebody else.
HeapParts(R) == R \subseteq live /\ IsPartition(Contents, live \ R)

OwnershipInvOf(R) ==
    /\ HeapParts(R)
    /\ \A p \in Places : NoTwice(ListOf(p[1], p[2]))

\* What each place holds, and what each thread has in its hands.
PlaceFacts ==
  /\ DOMAIN Contents = AllPlaces
  /\ << "lost", 0 >> \in AllPlaces /\ Contents[<< "lost", 0 >>] = leaked
  /\ \A k \in 1..4 : /\ << "hand", k >> \in AllPlaces
                     /\ Contents[<< "hand", k >>] = InHand[k]
  /\ \A s \in Streams :
       /\ << "rx", s >> \in AllPlaces /\ Contents[<< "rx", s >>] = ToSet(rx_list[s])
       /\ << "tx", s >> \in AllPlaces /\ Contents[<< "tx", s >>] = ToSet(tx_list[s])
  /\ \A p \in AllPlaces : \/ p = << "lost", 0 >>
                          \/ \E k \in 1..4 : p = << "hand", k >>
                          \/ \E s \in Streams : p = << "rx", s >> \/ p = << "tx", s >>

HandFacts ==
  /\ InHand[1] = IF rx.pc = "add" THEN {rx.b} ELSE {}
  /\ InHand[2] = IF pr.pc = "process" THEN {pr.b} ELSE {}
  /\ InHand[3] = IF tx.pc = "send" THEN {tx.b} ELSE {}
  /\ InHand[4] = IF txd.pc = "send" THEN {txd.b} ELSE {}

\* They hold before a step and after it.
LEMMA PlacesAre == PlaceFacts /\ PlaceFacts' /\ HandFacts /\ HandFacts'
<1>1. PlaceFacts
  BY DEF PlaceFacts, Contents, AllPlaces, Content, Places
<1>2. PlaceFacts'
  BY DEF PlaceFacts, Contents, AllPlaces, Content, Places
<1>3. HandFacts /\ HandFacts'
  BY DEF HandFacts, InHand
<1> QED  BY <1>1, <1>2, <1>3

\* The kinds of place, one by one.
LEMMA PlaceCases ==
  ASSUME NEW p \in AllPlaces
  PROVE  \/ p = << "lost", 0 >> /\ Contents[p] = leaked /\ Contents'[p] = leaked'
         \/ \E k \in 1..4 : /\ p = << "hand", k >>
                            /\ Contents[p] = InHand[k] /\ Contents'[p] = InHand'[k]
         \/ \E s \in Streams :
              /\ p = << "rx", s >>
              /\ Contents[p] = ToSet(rx_list[s]) /\ Contents'[p] = ToSet(rx_list'[s])
         \/ \E s \in Streams :
              /\ p = << "tx", s >>
              /\ Contents[p] = ToSet(tx_list[s]) /\ Contents'[p] = ToSet(tx_list'[s])
<1>1. CASE p = << "lost", 0 >>
  BY <1>1, PlacesAre DEF PlaceFacts
<1>2. ASSUME NEW k \in 1..4, p = << "hand", k >>
      PROVE  Contents[p] = InHand[k] /\ Contents'[p] = InHand'[k]
  BY <1>2, PlacesAre DEF PlaceFacts
<1>3. ASSUME NEW s \in Streams, p = << "rx", s >>
      PROVE  Contents[p] = ToSet(rx_list[s]) /\ Contents'[p] = ToSet(rx_list'[s])
  <2>1. Contents[<< "rx", s >>] = ToSet(rx_list[s])
    BY PlacesAre DEF PlaceFacts
  <2>2. Contents'[<< "rx", s >>] = ToSet(rx_list'[s])
    BY PlacesAre DEF PlaceFacts
  <2> QED  BY <1>3, <2>1, <2>2
<1>4. ASSUME NEW s \in Streams, p = << "tx", s >>
      PROVE  Contents[p] = ToSet(tx_list[s]) /\ Contents'[p] = ToSet(tx_list'[s])
  <2>1. Contents[<< "tx", s >>] = ToSet(tx_list[s])
    BY PlacesAre DEF PlaceFacts
  <2>2. Contents'[<< "tx", s >>] = ToSet(tx_list'[s])
    BY PlacesAre DEF PlaceFacts
  <2> QED  BY <1>4, <2>1, <2>2
<1>5. \/ p = << "lost", 0 >>
      \/ \E k \in 1..4 : p = << "hand", k >>
      \/ \E s \in Streams : p = << "rx", s >> \/ p = << "tx", s >>
  BY PlacesAre DEF PlaceFacts
<1> QED  BY <1>1, <1>2, <1>3, <1>4, <1>5

\* A step that moves a buffer.
LEMMA BufferMoves ==
  ASSUME NEW R, OwnershipInvOf(R), live' = live,
         NEW j \in AllPlaces, NEW k \in AllPlaces, j # k, NEW b \in Contents[j],
         Contents'[j] = Contents[j] \ {b}, Contents'[k] = Contents[k] \union {b},
         \A i \in AllPlaces : i # j /\ i # k => Contents'[i] = Contents[i]
  PROVE  HeapParts(R)'
<1>1. Contents' = [Contents EXCEPT ![j] = @ \ {b}, ![k] = @ \union {b}]
  BY DEF Contents
<1>2. IsPartition([Contents EXCEPT ![j] = @ \ {b}, ![k] = @ \union {b}], live \ R)
  BY PlacesAre, PartitionMove DEF OwnershipInvOf, HeapParts, PlaceFacts
<1> QED  BY <1>1, <1>2 DEF HeapParts, OwnershipInvOf, IsPartition

\* A step that allocates one.
LEMMA BufferAdded ==
  ASSUME NEW R, OwnershipInvOf(R), NEW k \in AllPlaces, NEW b, b \notin live,
         live' = live \union {b}, Contents'[k] = Contents[k] \union {b},
         \A i \in AllPlaces : i # k => Contents'[i] = Contents[i]
  PROVE  HeapParts(R)'
<1>1. Contents' = [Contents EXCEPT ![k] = @ \union {b}]
  BY DEF Contents
<1>2. R \subseteq live' /\ live' \ R = (live \ R) \union {b} /\ b \notin live \ R
  BY DEF OwnershipInvOf, HeapParts
<1>3. IsPartition([Contents EXCEPT ![k] = @ \union {b}], (live \ R) \union {b})
  BY <1>2, PlacesAre, PartitionAdd DEF OwnershipInvOf, HeapParts, PlaceFacts
<1> QED  BY <1>1, <1>2, <1>3 DEF HeapParts, IsPartition

\* A step that frees one.
LEMMA BufferRemoved ==
  ASSUME NEW R, OwnershipInvOf(R), NEW j \in AllPlaces, NEW b \in Contents[j],
         live' = live \ {b}, Contents'[j] = Contents[j] \ {b},
         \A i \in AllPlaces : i # j => Contents'[i] = Contents[i]
  PROVE  HeapParts(R)'
<1>1. Contents' = [Contents EXCEPT ![j] = @ \ {b}]
  BY DEF Contents
<1>2. R \subseteq live' /\ live' \ R = (live \ R) \ {b}
  BY PlacesAre DEF OwnershipInvOf, HeapParts, IsPartition, PlaceFacts
<1>3. IsPartition([Contents EXCEPT ![j] = @ \ {b}], (live \ R) \ {b})
  BY PlacesAre, PartitionRemove DEF OwnershipInvOf, HeapParts, PlaceFacts
<1> QED  BY <1>1, <1>2, <1>3 DEF HeapParts, IsPartition

\* A step that does none of these.
LEMMA BuffersStay ==
  ASSUME NEW R, OwnershipInvOf(R), UNCHANGED << live, rx_list, tx_list, leaked >>, InHand' = InHand
  PROVE  OwnershipInvOf(R)'
<1>1. Contents' = Contents
  BY DEF Contents, Content
<1> QED  BY <1>1 DEF OwnershipInvOf, HeapParts, IsPartition, ListOf

\* No list holds a packet twice as long as the lists do not change.
LEMMA ListsStay ==
  ASSUME NEW R, OwnershipInvOf(R), UNCHANGED << rx_list, tx_list >>
  PROVE  (\A p \in Places : NoTwice(ListOf(p[1], p[2])))'
  BY DEF OwnershipInvOf, ListOf

\* No list holds a packet twice.
LEMMA ListTwice ==
  ASSUME NEW R, OwnershipInvOf(R), NEW s \in Streams
  PROVE  NoTwice(rx_list[s]) /\ NoTwice(tx_list[s])
<1>1. /\ << "rx", s >> \in Places /\ << "rx", s >>[1] = "rx" /\ << "rx", s >>[2] = s
      /\ << "tx", s >> \in Places /\ << "tx", s >>[1] = "tx" /\ << "tx", s >>[2] = s
  BY DEF Places
<1>2. NoTwice(ListOf("rx", s)) /\ NoTwice(ListOf("tx", s))
  BY <1>1 DEF OwnershipInvOf
<1> QED  BY <1>2 DEF ListOf

\* A list of one stream changes, and no packet is in the new one twice.
LEMMA ListChanges ==
  ASSUME NEW R, TypeOK, OwnershipInvOf(R), NEW s \in Streams, NEW new, NoTwice(new),
         \/ rx_list' = [rx_list EXCEPT ![s] = new] /\ tx_list' = tx_list
         \/ tx_list' = [tx_list EXCEPT ![s] = new] /\ rx_list' = rx_list
  PROVE  (\A p \in Places : NoTwice(ListOf(p[1], p[2])))'
<1> SUFFICES ASSUME NEW kind \in {"rx", "tx"}, NEW t \in Streams
             PROVE  NoTwice(ListOf(kind, t)')
  BY DEF Places, ListOf
<1>1. NoTwice(ListOf(kind, t))
  <2>1. << kind, t >> \in Places
    BY DEF Places
  <2>2. NoTwice(ListOf(<< kind, t >>[1], << kind, t >>[2]))
    BY <2>1 DEF OwnershipInvOf
  <2> QED  BY <2>2
<1>2. ListOf(kind, t)' = ListOf(kind, t) \/ ListOf(kind, t)' = new
  BY DEF ListOf, TypeOK, ListType
<1> QED  BY <1>1, <1>2

\* A thread gets a new buffer.
LEMMA HandAllocates ==
  ASSUME NEW R, OwnershipInvOf(R), NEW k \in 1..4, NEW b, b \notin live, live' = live \union {b},
         InHand[k] = {}, InHand'[k] = {b},
         \A j \in 1..4 : j # k => InHand'[j] = InHand[j],
         UNCHANGED << rx_list, tx_list, leaked >>
  PROVE  OwnershipInvOf(R)'
<1> DEFINE here == << "hand", k >>
<1>1. here \in AllPlaces /\ Contents'[here] = Contents[here] \union {b}
  BY PlacesAre DEF PlaceFacts
<1>2. ASSUME NEW p \in AllPlaces, p # here PROVE Contents'[p] = Contents[p]
  BY <1>2, PlaceCases
<1> HIDE DEF here
<1>3. HeapParts(R)'
  BY <1>1, <1>2, BufferAdded
<1> QED  BY <1>3, ListsStay DEF OwnershipInvOf

\* A thread frees the buffer it has.
LEMMA HandFrees ==
  ASSUME NEW R, OwnershipInvOf(R), NEW k \in 1..4, NEW b, live' = live \ {b},
         InHand[k] = {b}, InHand'[k] = {},
         \A j \in 1..4 : j # k => InHand'[j] = InHand[j],
         UNCHANGED << rx_list, tx_list, leaked >>
  PROVE  OwnershipInvOf(R)'
<1> DEFINE here == << "hand", k >>
<1>1. here \in AllPlaces /\ b \in Contents[here] /\ Contents'[here] = Contents[here] \ {b}
  BY PlacesAre DEF PlaceFacts
<1>2. ASSUME NEW p \in AllPlaces, p # here PROVE Contents'[p] = Contents[p]
  BY <1>2, PlaceCases
<1> HIDE DEF here
<1>3. HeapParts(R)'
  BY <1>1, <1>2, BufferRemoved
<1> QED  BY <1>3, ListsStay DEF OwnershipInvOf

\* The lists after list "kind" of stream s has become new.
ListSet(kind, s, new) ==
    /\ rx_list' = IF kind = "rx" THEN [rx_list EXCEPT ![s] = new] ELSE rx_list
    /\ tx_list' = IF kind = "tx" THEN [tx_list EXCEPT ![s] = new] ELSE tx_list

\* What the lists then hold.
LEMMA ListSetPlaces ==
  ASSUME TypeOK, NEW kind \in {"rx", "tx"}, NEW s \in Streams, NEW new,
         ListSet(kind, s, new), UNCHANGED leaked
  PROVE  /\ << kind, s >> \in AllPlaces
         /\ Contents[<< kind, s >>] = ToSet(ListOf(kind, s))
         /\ Contents'[<< kind, s >>] = ToSet(new)
         /\ \A p \in AllPlaces : p # << kind, s >> =>
              \/ Contents'[p] = Contents[p]
              \/ \E k \in 1..4 : p = << "hand", k >>
<1>1. /\ << kind, s >> \in AllPlaces
      /\ Contents[<< kind, s >>] = ToSet(ListOf(kind, s))
  BY PlacesAre DEF PlaceFacts, ListOf
<1>2. Contents'[<< kind, s >>] = ToSet(new)
  <2>1. CASE kind = "rx"
    <3>1. rx_list'[s] = new
      BY <2>1 DEF ListSet, TypeOK, ListType
    <3> QED  BY <2>1, <3>1, PlacesAre DEF PlaceFacts
  <2>2. CASE kind = "tx"
    <3>1. tx_list'[s] = new
      BY <2>2 DEF ListSet, TypeOK, ListType
    <3> QED  BY <2>2, <3>1, PlacesAre DEF PlaceFacts
  <2> QED  BY <2>1, <2>2
<1>3. ASSUME NEW t \in Streams
      PROVE  /\ << kind, s >> # << "rx", t >> => rx_list'[t] = rx_list[t]
             /\ << kind, s >> # << "tx", t >> => tx_list'[t] = tx_list[t]
  BY DEF ListSet, TypeOK, ListType
<1>4. ASSUME NEW p \in AllPlaces, p # << kind, s >>
      PROVE  Contents'[p] = Contents[p] \/ \E k \in 1..4 : p = << "hand", k >>
  BY <1>3, <1>4, PlaceCases
<1> QED  BY <1>1, <1>2, <1>4

\* After such a change no list holds a packet twice, if the new one does not.
LEMMA ListSetTwice ==
  ASSUME NEW R, TypeOK, OwnershipInvOf(R), NEW kind \in {"rx", "tx"}, NEW s \in Streams, NEW new,
         ListSet(kind, s, new), NoTwice(new)
  PROVE  (\A p \in Places : NoTwice(ListOf(p[1], p[2])))'
  BY ListChanges, ListsStay DEF ListSet

\* A thread puts the packet it has into a list.
LEMMA HandQueues ==
  ASSUME NEW R, TypeOK, OwnershipInvOf(R), NEW k \in 1..4, NEW b, NEW kind \in {"rx", "tx"},
         NEW s \in Streams, NEW new, ListSet(kind, s, new),
         ToSet(new) = ToSet(ListOf(kind, s)) \union {b}, 
         b \notin ToSet(ListOf(kind, s)) => NoTwice(new),
         InHand[k] = {b}, InHand'[k] = {},
         \A j \in 1..4 : j # k => InHand'[j] = InHand[j],
         UNCHANGED << live, leaked >>
  PROVE  OwnershipInvOf(R)'
<1> DEFINE here == << "hand", k >>
           there == << kind, s >>
<1>1. /\ here \in AllPlaces /\ there \in AllPlaces /\ here # there
      /\ Contents[here] = {b} /\ Contents'[here] = {}
  BY PlacesAre, ListSetPlaces DEF PlaceFacts
<1>2. Contents'[there] = Contents[there] \union {b} /\ Contents[there] = ToSet(ListOf(kind, s))
  BY ListSetPlaces
<1>3. ASSUME NEW p \in AllPlaces, p # here, p # there PROVE Contents'[p] = Contents[p]
  <2>1. Contents'[p] = Contents[p] \/ \E j \in 1..4 : p = << "hand", j >>
    BY <1>3, ListSetPlaces
  <2>2. ASSUME NEW j \in 1..4, p = << "hand", j >> PROVE Contents'[p] = Contents[p]
    BY <1>3, <2>2, PlacesAre DEF PlaceFacts
  <2> QED  BY <2>1, <2>2
<1> HIDE DEF here, there
<1>4. HeapParts(R)'
  BY <1>1, <1>2, <1>3, BufferMoves
<1>5. b \notin Contents[there]
  BY <1>1, PlacesAre DEF PlaceFacts, OwnershipInvOf, HeapParts, IsPartition
<1> QED  BY <1>2, <1>4, <1>5, ListSetTwice DEF OwnershipInvOf

\* A thread takes the first packet off a list.
LEMMA HandUnqueues ==
  ASSUME NEW R, TypeOK, OwnershipInvOf(R), NEW k \in 1..4, NEW kind \in {"rx", "tx"},
         NEW s \in Streams, ListOf(kind, s) # << >>,
         ListSet(kind, s, Tail(ListOf(kind, s))),
         InHand[k] = {}, InHand'[k] = {Head(ListOf(kind, s))},
         \A j \in 1..4 : j # k => InHand'[j] = InHand[j],
         UNCHANGED << live, leaked >>
  PROVE  OwnershipInvOf(R)'
<1> DEFINE here == << "hand", k >>
           there == << kind, s >>
           list == ListOf(kind, s)
           b == Head(list)
<1>0. there \in Places /\ there[1] = kind /\ there[2] = s
  BY DEF Places
<1>1. /\ b \in ToSet(list) /\ ToSet(Tail(list)) = ToSet(list) \ {b}
      /\ NoTwice(Tail(list))
  <2>1. list \in Seq(Buffers)
    BY DEF TypeOK, ListType, ListOf
  <2>2. NoTwice(list)
    BY <1>0 DEF OwnershipInvOf
  <2> QED  BY <2>1, <2>2, TailPlaces
<1>2. /\ here \in AllPlaces /\ there \in AllPlaces /\ here # there
      /\ Contents[here] = {} /\ Contents'[here] = {b}
  BY PlacesAre, ListSetPlaces DEF PlaceFacts
<1>3. Contents'[there] = Contents[there] \ {b} /\ b \in Contents[there]
  BY <1>1, ListSetPlaces
<1>4. ASSUME NEW p \in AllPlaces, p # here, p # there PROVE Contents'[p] = Contents[p]
  <2>1. Contents'[p] = Contents[p] \/ \E j \in 1..4 : p = << "hand", j >>
    BY <1>4, ListSetPlaces
  <2>2. ASSUME NEW j \in 1..4, p = << "hand", j >> PROVE Contents'[p] = Contents[p]
    BY <1>4, <2>2, PlacesAre DEF PlaceFacts
  <2> QED  BY <2>1, <2>2
<1>5. (\A p \in Places : NoTwice(ListOf(p[1], p[2])))'
  BY <1>1, ListSetTwice
<1> HIDE DEF here, there, b
<1>6. HeapParts(R)'
  BY <1>2, <1>3, <1>4, BufferMoves
<1> QED  BY <1>5, <1>6 DEF OwnershipInvOf

-----------------------------------------------------------------------------
(* The threads                                                             *)

\* p_emu_RxThread fills a buffer, queues it, or gives it back; one that nothing
\* was received into it loses.
LEMMA RxOwnership ==
  ASSUME NEW R, TypeOK, OwnershipInvOf(R), RxNext
  PROVE  OwnershipInvOf(R)'
<1>1. UNCHANGED << tx_list, pr, tx, txd >>
  BY DEF RxNext, RxAllocFails, RxNothing, RxFrame, RxAdd, RxAddFails, RxPost
<1>2. InHand[1] = (IF rx.pc = "add" THEN {rx.b} ELSE {})
      /\ InHand'[1] = (IF rx'.pc = "add" THEN {rx'.b} ELSE {})
      /\ \A j \in 1..4 : j # 1 => InHand'[j] = InHand[j]
  BY <1>1, PlacesAre DEF HandFacts
<1>3. CASE RxAllocFails \/ RxPost
  <2>1. InHand' = InHand
    BY <1>1, <1>3 DEF RxAllocFails, RxPost, RxAdvance, InHand
  <2> QED  BY <1>1, <1>3, <2>1, BuffersStay
           DEF RxAllocFails, RxPost, heapVars, history
<1>4. CASE RxNothing
  <2> DEFINE lost == << "lost", 0 >>
  <2>1. PICK b \in Buffers : b \notin live /\ live' = live \union {b} /\ leaked' = leaked \union {b}
    BY <1>4 DEF RxNothing, p_emu_packet_init
  <2>2. InHand' = InHand
    BY <1>1, <1>4 DEF RxNothing, RxAdvance, InHand
  <2>3. lost \in AllPlaces /\ Contents'[lost] = Contents[lost] \union {b}
    BY <2>1, PlacesAre DEF PlaceFacts
  <2>4. ASSUME NEW p \in AllPlaces, p # lost PROVE Contents'[p] = Contents[p]
    BY <1>1, <1>4, <2>2, <2>4, PlaceCases DEF RxNothing
  <2> HIDE DEF lost
  <2>5. HeapParts(R)'
    BY <2>1, <2>3, <2>4, BufferAdded
  <2> QED  BY <1>1, <1>4, <2>5, ListsStay DEF RxNothing, OwnershipInvOf
<1>5. CASE RxFrame
  <2>1. PICK b \in Buffers :
          /\ b \notin live /\ live' = live \union {b}
          /\ rx' = [rx EXCEPT !.pc = "add", !.b = b]
    BY <1>5 DEF RxFrame, p_emu_packet_init
  <2>2. InHand[1] = {} /\ InHand'[1] = {b}
    BY <1>2, <1>5, <2>1 DEF RxFrame, TypeOK, RxType
  <2> QED  BY <1>1, <1>2, <1>5, <2>1, <2>2, HandAllocates DEF RxFrame
<1>6. CASE RxAdd
  <2> DEFINE list == rx_list[rx.i]
             new == Append(list, rx.b)
  <2>1. InHand[1] = {rx.b} /\ InHand'[1] = {} /\ rx.b \in Buffers /\ rx.i \in Streams
    BY <1>2, <1>6 DEF RxAdd, TypeOK, RxType
  <2>2. ListSet("rx", rx.i, new) /\ UNCHANGED << live, leaked >>
    BY <1>1, <1>6 DEF RxAdd, ListSet, heapVars, history
  <2>3. NoTwice(list) /\ list \in Seq(Buffers) /\ list = ListOf("rx", rx.i)
    BY <2>1, ListTwice DEF TypeOK, ListType, ListOf
  <2>4. /\ ToSet(new) = ToSet(ListOf("rx", rx.i)) \union {rx.b}
        /\ rx.b \notin ToSet(ListOf("rx", rx.i)) => NoTwice(new)
    BY <2>1, <2>3, AppendPlaces
  <2>5. /\ \A j \in 1..4 : j # 1 => InHand'[j] = InHand[j]
        /\ "rx" \in {"rx", "tx"} /\ 1 \in 1..4
    BY <1>2
  <2> HIDE DEF list, new
  <2> QED  BY <2>1, <2>2, <2>4, <2>5, HandQueues
<1>7. CASE RxAddFails
  <2>1. InHand[1] = {rx.b} /\ InHand'[1] = {} /\ live' = live \ {rx.b}
    BY <1>2, <1>7 DEF RxAddFails, RxAdvance, p_emu_packet_discard
  <2> QED  BY <1>1, <1>2, <1>7, <2>1, HandFrees DEF RxAddFails
<1> QED  BY <1>3, <1>4, <1>5, <1>6, <1>7 DEF RxNext

\* p_emu_PrThread takes a packet off rx_list and frees it or puts it in tx_list.
LEMMA PrOwnership ==
  ASSUME NEW R, TypeOK, OwnershipInvOf(R), PrNext
  PROVE  OwnershipInvOf(R)'
<1>1. UNCHANGED << leaked, rx, tx, txd >>
  BY DEF PrNext, PrWait, PrCount, PrTake, PrDiscard, PrGiveUp, PrInsertFails, PrInsert,
         PrPost, PrInsertDelayed, PrShow, PrArm, PrArmFaults, history, threadVars
<1>2. /\ InHand[2] = (IF pr.pc = "process" THEN {pr.b} ELSE {})
      /\ InHand'[2] = (IF pr'.pc = "process" THEN {pr'.b} ELSE {})
  BY PlacesAre DEF HandFacts
<1>3. /\ \A j \in 1..4 : j # 2 => InHand'[j] = InHand[j]
      /\ "rx" \in {"rx", "tx"} /\ "tx" \in {"rx", "tx"} /\ 2 \in 1..4
  BY <1>1, PlacesAre DEF HandFacts
<1>4. CASE /\ UNCHANGED << live, rx_list, tx_list >>
           /\ pr.pc # "process" /\ pr'.pc # "process"
  <2>1. InHand' = InHand
    BY <1>1, <1>4 DEF InHand
  <2> QED  BY <1>1, <1>4, <2>1, BuffersStay
<1>5. CASE UNCHANGED << live, rx_list, tx_list, pr >>
  <2>1. InHand' = InHand
    BY <1>1, <1>5 DEF InHand
  <2> QED  BY <1>1, <1>5, <2>1, BuffersStay
<1>6. CASE PrTake /\ rx_list[pr.i] # << >>
  <2>1. /\ pr.i \in Streams /\ ListOf("rx", pr.i) = rx_list[pr.i]
        /\ InHand[2] = {} /\ InHand'[2] = {Head(rx_list[pr.i])}
    BY <1>2, <1>6 DEF PrTake, TypeOK, PrType, ListOf
  <2>2. ListSet("rx", pr.i, Tail(ListOf("rx", pr.i))) /\ UNCHANGED << live, leaked >>
    BY <1>1, <1>6, <2>1 DEF PrTake, ListSet, heapVars, TypeOK, ListType
  <2> QED  BY <1>3, <1>6, <2>1, <2>2, HandUnqueues
<1>7. CASE PrGiveUp /\ pr.pc = "process"
  <2>1. InHand[2] = {pr.b} /\ InHand'[2] = {} /\ live' = live \ {pr.b}
    BY <1>2, <1>7 DEF PrGiveUp, PrAdvance, PrWaiting, p_emu_packet_discard, TypeOK, PrType
  <2> QED  BY <1>1, <1>3, <1>7, <2>1, HandFrees DEF PrGiveUp
<1>8. ASSUME PrInsert \/ \E d \in DelayOffsets : PrInsertDelayed(d)
      PROVE  OwnershipInvOf(R)'
  <2>1. /\ pr.b \in Buffers /\ pr.i \in Streams /\ tx_list[pr.i] \in Seq(Buffers)
        /\ ListOf("tx", pr.i) = tx_list[pr.i]
        /\ InHand[2] = {pr.b} /\ InHand'[2] = {} /\ UNCHANGED << live, leaked >>
    BY <1>1, <1>2, <1>8
    DEF PrInsert, PrInsertDelayed, TypeOK, PrType, ListType, ListOf, heapVars
  <2>2. NoTwice(tx_list[pr.i])
    BY <2>1, ListTwice
  <2>3. PICK new : /\ ListSet("tx", pr.i, new)
                   /\ \/ new = Append(tx_list[pr.i], pr.b)
                      \/ new = slib_insert_and_sort(tx_list[pr.i], pr.b, LeaveOf')
    BY <1>8, <2>1 DEF PrInsert, PrInsertDelayed, ListSet, TypeOK, ListType
  <2>4. /\ ToSet(new) = ToSet(ListOf("tx", pr.i)) \union {pr.b}
        /\ pr.b \notin ToSet(ListOf("tx", pr.i)) => NoTwice(new)
    <3>1. CASE new = Append(tx_list[pr.i], pr.b)
      BY <2>1, <2>2, <3>1, AppendPlaces
    <3>2. CASE new = slib_insert_and_sort(tx_list[pr.i], pr.b, LeaveOf')
      <4> DEFINE leave == LeaveOf'
      <4>1. new = slib_insert_and_sort(tx_list[pr.i], pr.b, leave)
        BY <3>2
      <4> HIDE DEF leave
      <4> QED  BY <2>1, <2>2, <4>1, InsertPlaces
    <3> QED  BY <2>3, <3>1, <3>2
  <2> QED  BY <1>3, <2>1, <2>3, <2>4, HandQueues
<1>9. ASSUME PrWait \/ PrCount \/ PrShow \/ PrArm \/ PrPost
      PROVE  OwnershipInvOf(R)'
  <2>1. UNCHANGED << live, rx_list, tx_list >>
    BY <1>9 DEF PrWait, PrCount, PrShow, PrArm, PrPost, heapVars
  <2>2. pr.pc # "process"
    BY <1>9 DEF PrWait, PrCount, PrShow, PrArm, PrPost
  <2>3. pr'.pc # "process" \/ UNCHANGED pr
    <3>1. PrAdvance => pr'.pc # "process"
      BY DEF PrAdvance, PrWaiting, TypeOK, PrType
    <3>2. PrWait => pr'.pc # "process"
      BY DEF PrWait
    <3>3. PrCount => pr'.pc # "process"
      BY <3>1 DEF PrCount, TypeOK, PrType
    <3>4. PrShow => pr'.pc # "process" \/ UNCHANGED pr
      BY DEF PrShow, TypeOK, PrType
    <3> QED  BY <1>9, <3>1, <3>2, <3>3, <3>4 DEF PrArm, PrPost
  <2> QED  BY <1>4, <1>5, <2>1, <2>2, <2>3
<1>10. ASSUME PrArmFaults \/ (PrTake /\ rx_list[pr.i] = << >>) PROVE OwnershipInvOf(R)'
  BY <1>5, <1>10 DEF PrArmFaults, PrTake, heapVars, threadVars
<1> QED
  BY <1>6, <1>7, <1>8, <1>9, <1>10 DEF PrNext, PrDiscard, PrInsertFails

\* p_emu_TxThread takes a packet off tx_list and frees it.
LEMMA TxOwnership ==
  ASSUME NEW R, TypeOK, OwnershipInvOf(R), TxNext
  PROVE  OwnershipInvOf(R)'
<1>1. UNCHANGED << leaked, rx, pr, txd, rx_list >>
  BY DEF TxNext, TxWait, TxSkip, TxTake, TxSend, TxExhausted, history, threadVars
<1>2. /\ InHand[3] = (IF tx.pc = "send" THEN {tx.b} ELSE {})
      /\ InHand'[3] = (IF tx'.pc = "send" THEN {tx'.b} ELSE {})
  BY PlacesAre DEF HandFacts
<1>3. /\ \A j \in 1..4 : j # 3 => InHand'[j] = InHand[j]
      /\ "tx" \in {"rx", "tx"} /\ 3 \in 1..4
  BY <1>1, PlacesAre DEF HandFacts
<1>4. CASE /\ UNCHANGED << live, tx_list >>
           /\ \/ tx.pc # "send" /\ tx'.pc # "send"
              \/ UNCHANGED tx
  <2>1. InHand' = InHand
    BY <1>1, <1>4 DEF InHand
  <2> QED  BY <1>1, <1>4, <2>1, BuffersStay
<1>5. CASE TxTake /\ tx_list[tx.i] # << >>
  <2>1. /\ tx.i \in Streams /\ ListOf("tx", tx.i) = tx_list[tx.i]
        /\ InHand[3] = {} /\ InHand'[3] = {Head(tx_list[tx.i])}
    BY <1>2, <1>5 DEF TxTake, TypeOK, TxType, ListOf
  <2>2. ListSet("tx", tx.i, Tail(ListOf("tx", tx.i))) /\ UNCHANGED << live, leaked >>
    BY <1>1, <1>5, <2>1 DEF TxTake, ListSet, heapVars, TypeOK, ListType
  <2> QED  BY <1>3, <1>5, <2>1, <2>2, HandUnqueues
<1>6. ASSUME NEW r \in SendResults, TxSend(r) PROVE OwnershipInvOf(R)'
  <2>1. InHand[3] = {tx.b} /\ InHand'[3] = {} /\ live' = live \ {tx.b}
    BY <1>2, <1>6 DEF TxSend, TxAdvance, TxWaiting, p_emu_packet_discard, TypeOK, TxType
  <2> QED  BY <1>1, <1>3, <1>6, <2>1, HandFrees DEF TxSend
<1>7. ASSUME TxWait \/ TxSkip \/ (TxTake /\ tx_list[tx.i] = << >>) PROVE OwnershipInvOf(R)'
  <2>1. UNCHANGED << live, tx_list >> /\ tx.pc # "send"
    BY <1>7 DEF TxWait, TxSkip, TxTake, heapVars
  <2>2. tx'.pc # "send" \/ UNCHANGED tx
    <3>1. TxAdvance => tx'.pc # "send"
      BY DEF TxAdvance, TxWaiting, TypeOK, TxType
    <3>2. TxWait => tx'.pc # "send"
      BY DEF TxWait
    <3> QED  BY <1>7, <3>1, <3>2 DEF TxSkip, TxTake
  <2> QED  BY <1>4, <2>1, <2>2
<1>8. ASSUME NEW r \in SendResults, TxExhausted(r) PROVE OwnershipInvOf(R)'
  BY <1>4, <1>8 DEF TxExhausted, heapVars, threadVars
<1> QED  BY <1>5, <1>6, <1>7, <1>8 DEF TxNext

\* So does p_emu_TxThread_Delayed.
LEMMA TxdOwnership ==
  ASSUME NEW R, TypeOK, OwnershipInvOf(R), TxdNext
  PROVE  OwnershipInvOf(R)'
<1>1. UNCHANGED << leaked, rx, pr, tx, rx_list >>
  BY DEF TxdNext, TxdRead, TxdNothing, TxdTake, TxdSend, TxdShow, TxdArm, history
<1>2. /\ InHand[4] = (IF txd.pc = "send" THEN {txd.b} ELSE {})
      /\ InHand'[4] = (IF txd'.pc = "send" THEN {txd'.b} ELSE {})
  BY PlacesAre DEF HandFacts
<1>3. /\ \A j \in 1..4 : j # 4 => InHand'[j] = InHand[j]
      /\ "tx" \in {"rx", "tx"} /\ 4 \in 1..4
  BY <1>1, PlacesAre DEF HandFacts
<1>4. CASE /\ UNCHANGED << live, tx_list >>
           /\ \/ txd.pc # "send" /\ txd'.pc # "send"
              \/ UNCHANGED txd
  <2>1. InHand' = InHand
    BY <1>1, <1>4 DEF InHand
  <2> QED  BY <1>1, <1>4, <2>1, BuffersStay
<1>5. CASE TxdTake /\ tx_list[txd.i] # << >>
  <2>1. /\ txd.i \in Streams /\ ListOf("tx", txd.i) = tx_list[txd.i]
        /\ InHand[4] = {} /\ InHand'[4] = {Head(tx_list[txd.i])}
    BY <1>2, <1>5 DEF TxdTake, TypeOK, TxdType, ListOf
  <2>2. ListSet("tx", txd.i, Tail(ListOf("tx", txd.i))) /\ UNCHANGED << live, leaked >>
    BY <1>1, <1>5, <2>1 DEF TxdTake, ListSet, heapVars, TypeOK, ListType
  <2> QED  BY <1>3, <1>5, <2>1, <2>2, HandUnqueues
<1>6. ASSUME NEW r \in SendResults, TxdSend(r) PROVE OwnershipInvOf(R)'
  <2>1. InHand[4] = {txd.b} /\ InHand'[4] = {} /\ live' = live \ {txd.b}
    BY <1>2, <1>6 DEF TxdSend, p_emu_packet_discard, TypeOK, TxdType
  <2> QED  BY <1>1, <1>3, <1>6, <2>1, HandFrees DEF TxdSend
<1>7. ASSUME \/ TxdRead \/ TxdNothing \/ TxdShow \/ TxdArm
             \/ TxdTake /\ tx_list[txd.i] = << >>
      PROVE  OwnershipInvOf(R)'
  <2>1. UNCHANGED << live, tx_list >> /\ txd.pc # "send"
    BY <1>7 DEF TxdRead, TxdNothing, TxdShow, TxdArm, TxdTake, heapVars
  <2>2. txd'.pc # "send" \/ UNCHANGED txd
    <3>1. TxdAdvance => txd'.pc # "send"
      BY DEF TxdAdvance
    <3>2. TxdRead => txd'.pc # "send"
      BY DEF TxdRead, TypeOK, TxdType
    <3>3. TxdShow => txd'.pc # "send"
      BY <3>1 DEF TxdShow, TypeOK, TxdType
    <3> QED  BY <1>7, <3>1, <3>2, <3>3 DEF TxdNothing, TxdArm, TxdTake
  <2> QED  BY <1>4, <2>1, <2>2
<1> QED  BY <1>5, <1>6, <1>7 DEF TxdNext

-----------------------------------------------------------------------------
(* The theorems                                                            *)

\* On the forward path alone nobody else has a buffer.
OwnershipInv == OwnershipInvOf({})

\* Nothing is allocated at the start.
LEMMA OwnershipInit == Init => OwnershipInv
<1> SUFFICES ASSUME Init PROVE OwnershipInv
  OBVIOUS
<1>1. \A p \in AllPlaces : Contents[p] = {}
  <2>1. \A s \in Streams : rx_list[s] = << >> /\ tx_list[s] = << >>
    BY DEF Init
  <2>2. ToSet(<< >>) = {}
    BY DEF ToSet
  <2>3. \A k \in 1..4 : InHand[k] = {}
    BY PlacesAre DEF HandFacts, Init, RxInit, PrInit, TxInit, TxdInit, RxStart,
       PrWaiting, TxWaiting, TxdStart
  <2> QED  BY <2>1, <2>2, <2>3, PlaceCases DEF Init
<1>2. IsPartition(Contents, live \ {})
  BY <1>1 DEF IsPartition, Init, Contents
<1>3. \A p \in Places : ListOf(p[1], p[2]) = << >>
  BY DEF Places, ListOf, Init
<1> QED  BY <1>2, <1>3 DEF OwnershipInv, OwnershipInvOf, HeapParts, NoTwice

\* No step of the forward path takes a buffer from its owner.
LEMMA OwnershipStep ==
  ASSUME NEW R, TypeOK, OwnershipInvOf(R), [Next]_vars
  PROVE  OwnershipInvOf(R)'
<1>1. CASE Tick \/ UNCHANGED vars
  <2>1. UNCHANGED << live, rx_list, tx_list, leaked, rx, pr, tx, txd >>
    BY <1>1 DEF Tick, vars, heapVars, threadVars, history
  <2>2. InHand' = InHand
    BY <2>1 DEF InHand
  <2> QED  BY <2>1, <2>2, BuffersStay
<1> QED
  BY <1>1, RxOwnership, PrOwnership, TxOwnership, TxdOwnership DEF Next, Halted

\* What the invariant says of the buffers.
LEMMA OwnershipMeans ==
  ASSUME NEW R, OwnershipInvOf(R)
  PROVE  /\ Ownership
         /\ live = HeldBuffers \union QueuedBuffers \union leaked \union R
         /\ leaked \intersect (HeldBuffers \union QueuedBuffers) = {}
         /\ R \intersect (HeldBuffers \union QueuedBuffers \union leaked) = {}
<1> USE PlacesAre DEF PlaceFacts
<1>1. \A j, k \in 1..4 : j # k => InHand[j] \intersect InHand[k] = {}
  <2> SUFFICES ASSUME NEW j \in 1..4, NEW k \in 1..4, j # k
               PROVE  InHand[j] \intersect InHand[k] = {}
    OBVIOUS
  <2>1. << "hand", j >> # << "hand", k >>
    OBVIOUS
  <2> QED  BY <2>1 DEF OwnershipInvOf, HeapParts, IsPartition
<1>2. \A p \in Places : p \in AllPlaces /\ Contents[p] = ToSet(ListOf(p[1], p[2]))
  <2> SUFFICES ASSUME NEW kind \in {"rx", "tx"}, NEW s \in Streams
               PROVE  /\ << kind, s >> \in AllPlaces
                      /\ Contents[<< kind, s >>] = ToSet(ListOf(kind, s))
    BY DEF Places
  <2> QED  BY DEF ListOf
<1>3. \A p \in Places : \A k \in 1..4 : InHand[k] \intersect Contents[p] = {}
  <2> SUFFICES ASSUME NEW p \in Places, NEW k \in 1..4
               PROVE  InHand[k] \intersect Contents[p] = {}
    OBVIOUS
  <2>1. << "hand", k >> # p
    BY DEF Places
  <2> QED  BY <1>2, <2>1 DEF OwnershipInvOf, HeapParts, IsPartition
<1>4. \A p, q \in Places : p # q => Contents[p] \intersect Contents[q] = {}
  BY <1>2 DEF OwnershipInvOf, HeapParts, IsPartition
<1>5. \A p \in AllPlaces : Contents[p] \subseteq live
  BY DEF OwnershipInvOf, HeapParts, IsPartition
<1>6. Ownership
  <2>1. HeldBuffers \subseteq live
    BY <1>5 DEF HeldBuffers
  <2>2. ASSUME NEW p \in Places
        PROVE  LET list == ListOf(p[1], p[2])
               IN  /\ ToSet(list) \subseteq live \ HeldBuffers
                   /\ \A m, n \in 1..Len(list) : m # n => list[m] # list[n]
                   /\ \A q \in Places \ {p} :
                        ToSet(list) \intersect ToSet(ListOf(q[1], q[2])) = {}
    BY <1>2, <1>3, <1>4, <1>5 DEF OwnershipInvOf, NoTwice, HeldBuffers
  <2> QED  BY <1>1, <2>1, <2>2 DEF Ownership
<1>7. \A p \in AllPlaces : Contents[p] \intersect R = {}
  BY DEF OwnershipInvOf, HeapParts, IsPartition
<1>8. \A x \in live \ R : x \in HeldBuffers \union QueuedBuffers \union leaked
  <2> SUFFICES ASSUME NEW x \in live \ R
               PROVE  x \in HeldBuffers \union QueuedBuffers \union leaked
    OBVIOUS
  <2>1. PICK p \in AllPlaces : x \in Contents[p]
    BY DEF OwnershipInvOf, HeapParts, IsPartition
  <2>2. CASE p \in Places
    BY <1>2, <2>1, <2>2 DEF QueuedBuffers
  <2>3. CASE p \notin Places
    BY <2>1, <2>3 DEF AllPlaces, HeldBuffers
  <2> QED  BY <2>2, <2>3
<1>9. /\ HeldBuffers \union QueuedBuffers \union leaked \subseteq live
      /\ R \intersect (HeldBuffers \union QueuedBuffers \union leaked) = {}
      /\ R \subseteq live
  BY <1>2, <1>5, <1>7 DEF HeldBuffers, QueuedBuffers, OwnershipInvOf, HeapParts
<1>10. leaked \intersect HeldBuffers = {}
  <2>1. \A k \in 1..4 : << "hand", k >> # << "lost", 0 >>
    OBVIOUS
  <2> QED  BY <2>1 DEF OwnershipInvOf, HeapParts, IsPartition, HeldBuffers
<1>11. leaked \intersect QueuedBuffers = {}
  <2>1. \A p \in Places : p # << "lost", 0 >>
    BY DEF Places
  <2> QED  BY <1>2, <2>1 DEF OwnershipInvOf, HeapParts, IsPartition, QueuedBuffers
<1> QED  BY <1>6, <1>8, <1>9, <1>10, <1>11

\* The invariant holds of the forward path.
LEMMA OwnershipAlways == Spec => []OwnershipInv
<1>1. TypeOK /\ OwnershipInv /\ [Next]_vars => OwnershipInv'
  BY OwnershipStep DEF OwnershipInv
<1> QED  BY <1>1, OwnershipInit, InitType, NextType, PTL DEF Spec

\* What it says of the buffers there.
LEMMA OwnershipInvMeans == OwnershipInv => Ownership /\ BuffersAccounted
<1> SUFFICES ASSUME OwnershipInvOf({}) PROVE Ownership /\ BuffersAccounted
  BY DEF OwnershipInv
<1> QED  BY OwnershipMeans DEF BuffersAccounted

\* No packet is freed while it is queued, freed twice or queued twice, in whatever
\* order the four threads run.
THEOREM PacketsOwned == Spec => []Ownership
  BY OwnershipAlways, OwnershipInvMeans, PTL

\* The only buffers lost are the ones p_emu_rx_packet loses when there was nothing
\* to receive: no error path leaks another.
THEOREM OnlyEmptyReceivesLeak == Spec => []BuffersAccounted
  BY OwnershipAlways, OwnershipInvMeans, PTL

=============================================================================
