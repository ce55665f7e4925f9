---------------------------- MODULE FilterProofs ----------------------------
(***************************************************************************)
(* What the MAC filter of a stream keeps, for addresses of any length and  *)
(* any sequence of address lines.                                          *)
(***************************************************************************)
EXTENDS Filter, FiniteSetTheorems, TLAPS

\* The masked comparison is zero exactly when there is memory for it and the bytes
\* the mask selects within the length agree.
LEMMA CompareZero ==
  ASSUME NEW a, NEW b, NEW mask, NEW len \in Nat, NEW memory \in BOOLEAN
  PROVE  p_emu_frame_compare(a, b, mask, len, memory) = 0 <=>
           len # 0 /\ memory /\ \A i \in Positions : i < len /\ mask[i] # 0 => a[i] = b[i]
<1> DEFINE D == {i \in Positions : i < len /\ mask[i] # 0 /\ a[i] # b[i]}
<1>1. IsFiniteSet(Positions)
  BY FS_Interval, AddressAssumption DEF Positions
<1>2. IsFiniteSet(D)
  BY <1>1, FS_Subset
<1>3. Cardinality(D) = 0 <=> D = {}
  BY <1>2, FS_EmptySet
<1>4. p_emu_frame_compare(a, b, mask, len, memory)
        = IF len = 0 \/ ~memory THEN Invalid ELSE Cardinality(D)
  BY DEF p_emu_frame_compare
<1>5. Invalid # 0
  BY AddressAssumption DEF Invalid
<1>6. D = {} <=> \A i \in Positions : i < len /\ mask[i] # 0 => a[i] = b[i]
  OBVIOUS
<1> QED
  BY <1>3, <1>4, <1>5, <1>6

\* Two frames agree on the positions behind the destination when they have the
\* same source address.
LEMMA SourceAgrees ==
  ASSUME NEW a \in Frames, NEW b \in Frames
  PROVE  Source(a) = Source(b) <=> \A i \in Positions : i >= AddrLen => a[i] = b[i]
<1>1. ASSUME Source(a) = Source(b), NEW i \in Positions, i >= AddrLen
      PROVE  a[i] = b[i]
  <2> DEFINE j == i - AddrLen
  <2>1. j \in 0..(AddrLen - 1) /\ AddrLen + j = i
    BY <1>1, AddressAssumption DEF Positions
  <2>2. Source(a)[j] = a[AddrLen + j] /\ Source(b)[j] = b[AddrLen + j]
    BY <2>1 DEF Source, AddressAt
  <2> QED
    BY <1>1, <2>1, <2>2
<1>2. ASSUME \A i \in Positions : i >= AddrLen => a[i] = b[i]
      PROVE  Source(a) = Source(b)
  <2>1. ASSUME NEW i \in 0..(AddrLen - 1) PROVE a[AddrLen + i] = b[AddrLen + i]
    <3>1. AddrLen + i \in Positions /\ AddrLen + i >= AddrLen
      BY AddressAssumption DEF Positions
    <3> QED
      BY <1>2, <3>1
  <2> QED
    BY <2>1 DEF Source, AddressAt
<1> QED
  BY <1>1, <1>2

\* Writing an address at the source position makes it the source address.
LEMMA OverwriteSource ==
  ASSUME NEW payload \in Frames, NEW addr \in Addresses
  PROVE  /\ Overwrite(payload, AddrLen, addr) \in Frames
         /\ Source(Overwrite(payload, AddrLen, addr)) = addr
<1> DEFINE p == Overwrite(payload, AddrLen, addr)
<1>1. ASSUME NEW i \in Positions PROVE p[i] \in Bytes
  <2>1. CASE i >= AddrLen
    <3>1. i \in AddrLen..(AddrLen + AddrLen - 1) /\ i - AddrLen \in 0..(AddrLen - 1)
      BY <2>1, AddressAssumption DEF Positions
    <3> QED
      BY <3>1 DEF Overwrite, Addresses
  <2>2. CASE ~(i >= AddrLen)
    <3>1. i \notin AddrLen..(AddrLen + AddrLen - 1)
      BY <2>2, AddressAssumption DEF Positions
    <3> QED
      BY <3>1 DEF Overwrite, Frames
  <2> QED
    BY <2>1, <2>2
<1>2. p \in Frames
  BY <1>1 DEF Frames, Overwrite
<1>3. ASSUME NEW i \in 0..(AddrLen - 1) PROVE p[AddrLen + i] = addr[i]
  <2> DEFINE k == AddrLen + i
  <2>1. k \in Positions /\ k \in AddrLen..(AddrLen + AddrLen - 1) /\ k - AddrLen = i
    BY AddressAssumption DEF Positions
  <2>2. p[k] = addr[k - AddrLen]
    BY <2>1 DEF Overwrite
  <2> QED
    BY <2>1, <2>2
<1>4. Source(p) = addr
  BY <1>3 DEF Source, AddressAt, Addresses
<1> QED
  BY <1>2, <1>4

\* The mask a line leaves: set on the source address only.
LEMMA OverwriteMask ==
  ASSUME NEW mask \in [Positions -> 0..255],
         \A i \in Positions : i < AddrLen => mask[i] = 0
  PROVE  /\ Overwrite(mask, AddrLen, Ones) \in [Positions -> 0..255]
         /\ \A i \in Positions :
              Overwrite(mask, AddrLen, Ones)[i] = IF i >= AddrLen THEN 255 ELSE 0
<1> DEFINE m == Overwrite(mask, AddrLen, Ones)
<1>1. ASSUME NEW i \in Positions PROVE m[i] = IF i >= AddrLen THEN 255 ELSE 0
  <2>1. CASE i >= AddrLen
    <3>1. i \in AddrLen..(AddrLen + AddrLen - 1) /\ i - AddrLen \in 0..(AddrLen - 1)
      BY <2>1, AddressAssumption DEF Positions
    <3> QED
      BY <2>1, <3>1 DEF Overwrite, Ones
  <2>2. CASE ~(i >= AddrLen)
    <3>1. i \notin AddrLen..(AddrLen + AddrLen - 1) /\ i < AddrLen
      BY <2>2, AddressAssumption DEF Positions
    <3> QED
      BY <2>2, <3>1 DEF Overwrite
  <2> QED
    BY <2>1, <2>2
<1>2. m \in [Positions -> 0..255]
  BY <1>1 DEF Overwrite
<1> QED
  BY <1>1, <1>2

-----------------------------------------------------------------------------
\* What the lines read so far have made of the filter: its length says whether
\* the comparison reaches the source address, if there are not so many lines that
\* it has wrapped around, and the source address of the key is that of the last
\* line.
FilterInv ==
    /\ TypeOK
    /\ filter.enabled = (lines # << >>)
    /\ lines = << >> => filter.length = 0
    /\ lines # << >> /\ ~Reaches => filter.length = AddrLen
    /\ Counted => filter.length <= AddrLen * (Len(lines) + 1)
    /\ Counted /\ Reaches => filter.length >= 2 * AddrLen
    /\ lines # << >> => Source(filter.key) = Last(lines).addr

\* A new stream has no filter.
LEMMA FilterInit == Init => FilterInv
<1> SUFFICES ASSUME Init PROVE FilterInv
  OBVIOUS
<1>1. 0 \in Positions /\ NoFilter.key \in Frames
  <2>1. 0 \in Positions /\ 0 \in Bytes
    BY AddressAssumption DEF Positions
  <2> QED  BY <2>1 DEF NoFilter, Frames
<1>2. TypeOK
  <2>1. 0 \in 0..(LengthRange - 1)
    BY AddressAssumption
  <2> QED  BY <1>1, <2>1 DEF Init, NoFilter, TypeOK, Frames
<1>3. ~Reaches /\ filter.length <= AddrLen * (Len(lines) + 1)
  BY AddressAssumption DEF Init, Reaches, NoFilter
<1> QED
  BY <1>2, <1>3 DEF Init, NoFilter, FilterInv

\* How a line changes the list of lines.
LEMMA LineRead ==
  ASSUME FilterInv, NEW line \in Line, lines' = Append(lines, line)
  PROVE  /\ lines' \in Seq(Line) /\ lines' # << >>
         /\ Last(lines)' = line
         /\ Reaches' <=> lines # << >> \/ line.kind = "dst"
         /\ Len(lines') = Len(lines) + 1 /\ Len(lines) \in Nat
<1> USE DEF FilterInv, TypeOK
<1>1. /\ lines' \in Seq(Line) /\ Len(lines') = Len(lines) + 1
      /\ lines'[Len(lines) + 1] = line
      /\ \A k \in 1..Len(lines) : lines'[k] = lines[k]
  OBVIOUS
<1>2. lines # << >> <=> Len(lines) >= 1
  OBVIOUS
<1>3. Reaches' <=> lines # << >> \/ line.kind = "dst"
  <2>1. Len(lines) \in Nat
    OBVIOUS
  <2>2. CASE lines # << >>
    BY <1>1, <1>2, <2>1, <2>2 DEF Reaches
  <2>3. CASE lines = << >>
    BY <1>1, <2>3 DEF Reaches
  <2> QED
    BY <2>2, <2>3
<1> QED
  BY <1>1, <1>3 DEF Last

\* A src_mac line.
LEMMA SrcStep ==
  ASSUME FilterInv, NEW addr \in Addresses, ReadSrcMac(addr)
  PROVE  FilterInv'
<1> DEFINE line == [kind |-> "src", addr |-> addr]
<1>1. line \in Line /\ line.kind # "dst" /\ line.addr = addr
  BY DEF Line
<1>2. /\ lines' \in Seq(Line) /\ lines' # << >> /\ Last(lines)' = line
      /\ Reaches' <=> lines # << >>
  BY <1>1, LineRead DEF ReadSrcMac
<1> DEFINE n   == Len(lines)
           sum == filter.length + AddrLen
           new == sum % LengthRange
<1>3. /\ Overwrite(filter.key, AddrLen, addr) \in Frames
      /\ Source(Overwrite(filter.key, AddrLen, addr)) = addr
  BY OverwriteSource DEF FilterInv, TypeOK
<1>4. /\ Overwrite(filter.mask, AddrLen, Ones) \in [Positions -> 0..255]
      /\ \A i \in Positions : Overwrite(filter.mask, AddrLen, Ones)[i]
                                = IF i >= AddrLen THEN 255 ELSE 0
  <2>1. \A i \in Positions : i < AddrLen => filter.mask[i] = 0
    BY AddressAssumption DEF FilterInv, TypeOK, Positions
  <2> QED
    BY <2>1, OverwriteMask DEF FilterInv, TypeOK
<1>5. filter' = [enabled |-> TRUE, length |-> new,
                 key |-> Overwrite(filter.key, AddrLen, addr),
                 mask |-> Overwrite(filter.mask, AddrLen, Ones)]
  BY DEF ReadSrcMac, import_src_mac
<1>6. n \in Nat /\ Len(lines') = n + 1
  BY <1>1, LineRead DEF ReadSrcMac
<1>7. /\ filter.length \in Nat /\ AddrLen \in Nat \ {0} /\ LengthRange \in Nat
      /\ 2 * AddrLen < LengthRange
  BY AddressAssumption DEF FilterInv, TypeOK
<1>8. new \in 0..(LengthRange - 1) /\ (sum < LengthRange => new = sum)
  BY <1>7
<1>9. TypeOK'
  BY <1>2, <1>3, <1>4, <1>5, <1>8 DEF TypeOK
<1>10. lines = << >> => new = AddrLen
  BY <1>7, <1>8 DEF FilterInv
<1>11. ASSUME Counted'
       PROVE  /\ new <= AddrLen * (n + 2)
              /\ lines # << >> => new >= 2 * AddrLen
  <2> DEFINE x == AddrLen * (n + 1)
  <2>1. x \in Nat /\ AddrLen * (n + 2) = x + AddrLen
    BY <1>6, <1>7
  <2>2. x + AddrLen < LengthRange
    BY <1>6, <1>7, <1>11, <2>1 DEF Counted
  <2>3. x < LengthRange
    BY <1>7, <2>1, <2>2
  <2>4. Counted
    BY <2>3 DEF Counted
  <2> HIDE DEF x
  <2>5. filter.length <= x
    BY <2>4 DEF FilterInv, x
  <2>6. new = sum
    BY <1>7, <1>8, <2>1, <2>2, <2>5
  <2>7. lines # << >> => filter.length >= AddrLen
    BY <1>7, <2>4 DEF FilterInv
  <2> QED  BY <1>7, <2>1, <2>5, <2>6, <2>7
<1>12. Reaches' <=> lines # << >>
  BY <1>2
<1>13. filter'.length = new /\ AddrLen * (Len(lines') + 1) = AddrLen * (n + 2)
  BY <1>5, <1>6
<1>14. Counted' => filter'.length <= AddrLen * (Len(lines') + 1)
  BY <1>11, <1>13
<1>15. Counted' /\ Reaches' => filter'.length >= 2 * AddrLen
  BY <1>11, <1>12, <1>13
<1> HIDE DEF new
<1> QED
  BY <1>1, <1>2, <1>3, <1>5, <1>9, <1>10, <1>12, <1>13, <1>14, <1>15 DEF FilterInv

\* A dst_mac line.
LEMMA DstStep ==
  ASSUME FilterInv, NEW addr \in Addresses, ReadDstMac(addr)
  PROVE  FilterInv'
<1> DEFINE line == [kind |-> "dst", addr |-> addr]
<1>1. line \in Line /\ line.kind = "dst" /\ line.addr = addr
  BY DEF Line
<1>2. lines' \in Seq(Line) /\ lines' # << >> /\ Last(lines)' = line /\ Reaches'
  BY <1>1, LineRead DEF ReadDstMac
<1>3. /\ Overwrite(filter.key, AddrLen, addr) \in Frames
      /\ Source(Overwrite(filter.key, AddrLen, addr)) = addr
  BY OverwriteSource DEF FilterInv, TypeOK
<1>4. /\ Overwrite(filter.mask, AddrLen, Ones) \in [Positions -> 0..255]
      /\ \A i \in Positions : Overwrite(filter.mask, AddrLen, Ones)[i]
                                = IF i >= AddrLen THEN 255 ELSE 0
  <2>1. \A i \in Positions : i < AddrLen => filter.mask[i] = 0
    BY AddressAssumption DEF FilterInv, TypeOK, Positions
  <2> QED
    BY <2>1, OverwriteMask DEF FilterInv, TypeOK
<1>5. filter' = [enabled |-> TRUE, length |-> 2 * AddrLen,
                 key |-> Overwrite(filter.key, AddrLen, addr),
                 mask |-> Overwrite(filter.mask, AddrLen, Ones)]
  BY DEF ReadDstMac, import_dst_mac
<1>6. 2 * AddrLen \in 0..(LengthRange - 1) /\ 2 * AddrLen >= 2 * AddrLen
  BY AddressAssumption
<1>7. TypeOK'
  BY <1>2, <1>3, <1>4, <1>5, <1>6 DEF TypeOK
<1>8. 2 * AddrLen <= AddrLen * (Len(lines') + 1)
  <2>1. Len(lines') = Len(lines) + 1 /\ Len(lines) \in Nat
    BY <1>1, LineRead DEF ReadDstMac
  <2>2. AddrLen * (Len(lines) + 2) = 2 * AddrLen + AddrLen * Len(lines)
    BY <2>1, AddressAssumption
  <2>3. AddrLen * Len(lines) \in Nat
    BY <2>1, AddressAssumption
  <2>4. AddrLen * (Len(lines') + 1) = 2 * AddrLen + AddrLen * Len(lines)
    BY <2>1, <2>2
  <2> QED  BY <2>3, <2>4, AddressAssumption
<1> QED
  BY <1>1, <1>2, <1>3, <1>5, <1>6, <1>7, <1>8 DEF FilterInv

\* Whatever line is read next.
LEMMA FilterStep == FilterInv /\ [Next]_vars => FilterInv'
<1> SUFFICES ASSUME FilterInv, [Next]_vars PROVE FilterInv'
  OBVIOUS
<1>1. CASE Next
  BY <1>1, SrcStep, DstStep DEF Next
<1>2. CASE UNCHANGED vars
  BY <1>2 DEF vars, FilterInv, TypeOK, Reaches, Counted
<1> QED
  BY <1>1, <1>2

\* The verdict such a filter gives.
LEMMA FilterVerdict == FilterInv => LastLineSelectsSource
<1> SUFFICES ASSUME FilterInv, Counted, NEW frame \in Frames, NEW memory \in BOOLEAN
             PROVE  Keeps(frame, memory) <=>
                      (lines # << >> =>
                         memory /\ (Reaches => Source(frame) = Last(lines).addr))
  BY DEF LastLineSelectsSource
<1> USE DEF FilterInv, TypeOK
<1>1. CASE lines = << >>
  BY <1>1 DEF Keeps
<1>2. CASE lines # << >>
  <2>1. /\ filter.length \in Nat /\ filter.length # 0 /\ AddrLen \in Nat
        /\ ~Reaches => filter.length = AddrLen
    BY <1>2, AddressAssumption
  <2>2. Keeps(frame, memory) <=> memory /\ \A i \in Positions :
          i < filter.length /\ filter.mask[i] # 0 => frame[i] = filter.key[i]
    BY <1>2, <2>1, CompareZero DEF Keeps
  <2>3. \A i \in Positions : filter.mask[i] # 0 <=> i >= AddrLen
    BY <1>2
  <2>4. Keeps(frame, memory) <=> memory /\ \A i \in Positions :
          i < filter.length /\ i >= AddrLen => frame[i] = filter.key[i]
    BY <2>2, <2>3
  <2>5. CASE ~Reaches
    BY <1>2, <2>1, <2>4, <2>5 DEF Positions
  <2>6. CASE Reaches
    <3>1. \A i \in Positions : i < filter.length
      BY <2>1, <2>6 DEF Positions
    <3>2. Keeps(frame, memory) <=> memory /\ Source(frame) = Source(filter.key)
      BY <2>4, <3>1, SourceAgrees
    <3> QED
      BY <1>2, <2>6, <3>2
  <2> QED
    BY <2>5, <2>6
<1> QED
  BY <1>1, <1>2

\* The types of the filter's key, mask and length.
THEOREM FilterTypeCorrect == Spec => []TypeOK
<1>1. FilterInv => TypeOK
  BY DEF FilterInv
<1> QED
  BY <1>1, FilterInit, FilterStep, PTL DEF Spec

\* Whatever address lines a stream has, as long as 16 bits can count them, it keeps
\* exactly the frames from the address of the last one for which there is memory,
\* or every such frame if it has a single src_mac, or every frame if it has none.
THEOREM FilterKeeps == Spec => []LastLineSelectsSource
<1> QED
  BY FilterInit, FilterStep, FilterVerdict, PTL DEF Spec

=============================================================================
