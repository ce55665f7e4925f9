---------------------------- MODULE ConfigProofs ----------------------------
(***************************************************************************)
(* What the configuration files make of the streams, for any files and any *)
(* number of them.                                                         *)
(***************************************************************************)
EXTENDS ConfigImport, SequenceTheorems, WellFoundedInduction, FiniteSetTheorems, TLAPS

-----------------------------------------------------------------------------
(* Least and greatest members, the search by name                          *)

\* A non-empty set of naturals has a least element.
LEMMA LeastElement ==
  ASSUME NEW T \in SUBSET Nat, T # {}
  PROVE  \E x \in T : \A y \in T : x <= y
<1> DEFINE R == OpToRel(<, Nat)
<1>1. IsWellFoundedOn(R, Nat)
  BY NatLessThanWellFounded
<1>2. PICK x \in T : \A y \in T : ~(<< y, x >> \in R)
  <2> HIDE DEF R
  <2> QED  BY <1>1, WFMin
<1>3. \A y \in T : ~(y < x)
  BY <1>2 DEF OpToRel
<1> QED  BY <1>3

\* The least member of a set.
LEMMA MinIs ==
  ASSUME NEW T \in SUBSET Nat, NEW x \in T, \A y \in T : x <= y
  PROVE  Min(T) = x
<1>1. \A z \in T : (\A y \in T : z <= y) => z = x
  OBVIOUS
<1> QED  BY <1>1 DEF Min

\* And the greatest.
LEMMA MaxIs ==
  ASSUME NEW T \in SUBSET Nat, NEW x \in T, \A y \in T : y <= x
  PROVE  Max(T) = x
<1>1. \A z \in T : (\A y \in T : z >= y) => z = x
  OBVIOUS
<1> QED  BY <1>1 DEF Max

\* A non-empty set of places in a sequence has a last one.
LEMMA MaxExists ==
  ASSUME NEW n \in Nat, NEW T \in SUBSET (1..n), T # {}
  PROVE  Max(T) \in T /\ \A y \in T : y <= Max(T)
<1> DEFINE U == {n - x : x \in T}
<1>1. U \in SUBSET Nat /\ U # {}
  <2>1. PICK x \in T : TRUE
    OBVIOUS
  <2>2. n - x \in U
    BY <2>1
  <2> QED  BY <2>2
<1>2. PICK u \in U : \A v \in U : u <= v
  <2> HIDE DEF U
  <2> QED  BY <1>1, LeastElement
<1>3. PICK x \in T : u = n - x
  OBVIOUS
<1>4. \A y \in T : y <= x
  <2> SUFFICES ASSUME NEW y \in T PROVE y <= x
    OBVIOUS
  <2>1. u <= n - y
    BY <1>2
  <2> QED  BY <1>3, <2>1
<1>5. T \in SUBSET Nat
  OBVIOUS
<1> QED  BY <1>4, <1>5, MaxIs

\* Visit, with the list of streams as a parameter.
FirstNamed(ss, name) == SelectInSeq(ss, LAMBDA st : IsPrefix(st.name, name))

\* The stream found matches and none before it does; zero is returned if none matches.
LEMMA FirstNamedFacts ==
  ASSUME NEW ss, Len(ss) \in Nat, NEW name
  PROVE  LET k == FirstNamed(ss, name)
         IN  /\ k \in 0..Len(ss)
             /\ k = 0 => \A j \in 1..Len(ss) : ~IsPrefix(ss[j].name, name)
             /\ k # 0 => /\ IsPrefix(ss[k].name, name)
                         /\ \A j \in 1..Len(ss) : j < k => ~IsPrefix(ss[j].name, name)
<1> DEFINE T == {i \in 1..Len(ss) : IsPrefix(ss[i].name, name)}
<1>1. FirstNamed(ss, name) = IF T # {} THEN Min(T) ELSE 0
  BY DEF FirstNamed, SelectInSeq
<1>2. CASE T = {}
  BY <1>1, <1>2
<1>3. CASE T # {}
  <2>1. T \in SUBSET Nat
    OBVIOUS
  <2>2. PICK x \in T : \A y \in T : x <= y
    <3> HIDE DEF T
    <3> QED  BY <1>3, <2>1, LeastElement
  <2>3. Min(T) = x
    <3> HIDE DEF T
    <3> QED  BY <2>1, <2>2, MinIs
  <2>4. FirstNamed(ss, name) = x
    BY <1>1, <1>3, <2>3
  <2>5. x \in 1..Len(ss) /\ IsPrefix(ss[x].name, name)
    BY <2>2
  <2>6. \A j \in 1..Len(ss) : j < x => ~IsPrefix(ss[j].name, name)
    <3> SUFFICES ASSUME NEW j \in 1..Len(ss), j < x, IsPrefix(ss[j].name, name)
                 PROVE  FALSE
      OBVIOUS
    <3>1. j \in T
      OBVIOUS
    <3> QED  BY <2>2, <2>5, <3>1
  <2> HIDE DEF T
  <2> QED  BY <2>4, <2>5, <2>6
<1> QED  BY <1>2, <1>3

\* A stream that is the first to match is the one found.
LEMMA FirstNamedIs ==
  ASSUME NEW ss, Len(ss) \in Nat, NEW name, NEW k \in 1..Len(ss),
         IsPrefix(ss[k].name, name),
         \A j \in 1..Len(ss) : j < k => ~IsPrefix(ss[j].name, name)
  PROVE  FirstNamed(ss, name) = k
<1> DEFINE T == {i \in 1..Len(ss) : IsPrefix(ss[i].name, name)}
<1>1. FirstNamed(ss, name) = IF T # {} THEN Min(T) ELSE 0
  BY DEF FirstNamed, SelectInSeq
<1>2. k \in T /\ T \in SUBSET Nat /\ \A y \in T : k <= y
  OBVIOUS
<1> HIDE DEF T
<1> QED  BY <1>1, <1>2, MinIs

-----------------------------------------------------------------------------
(* Names                                                                   *)

IsName(name) == name \in Seq(ToSet(name))

\* The empty name, which a stream that could not be made has, begins every name
\* and begins with no other.
LEMMA EmptyName ==
  ASSUME NEW name, IsName(name)
  PROVE  /\ IsPrefix(<< >>, name)
         /\ IsPrefix(name, << >>) => name = << >>
<1> DEFINE S == ToSet(name)
<1>1. name \in Seq(S)
  BY DEF IsName
<1> HIDE DEF S
<1>2. Len(<< >>) = 0 /\ Len(name) \in Nat
  BY <1>1
<1>3. SubSeq(<< >>, 1, 0) = SubSeq(name, 1, 0)
  BY <1>1 DEF SubSeq
<1>4. Len(name) = 0 => name = << >>
  BY <1>1
<1> QED  BY <1>2, <1>3, <1>4 DEF IsPrefix

\* The search sees nothing of a stream but its name.
LEMMA SameNames ==
  ASSUME NEW ss, NEW tt, Len(ss) \in Nat, Len(tt) = Len(ss),
         \A k \in 1..Len(ss) : tt[k].name = ss[k].name,
         NEW name
  PROVE  FirstNamed(tt, name) = FirstNamed(ss, name)
<1>1. {i \in 1..Len(tt) : IsPrefix(tt[i].name, name)}
        = {i \in 1..Len(ss) : IsPrefix(ss[i].name, name)}
  OBVIOUS
<1> QED  BY <1>1 DEF FirstNamed, SelectInSeq

\* A stream put behind the others is found by the names that none of them matches.
LEMMA OneMoreStream ==
  ASSUME NEW S, NEW ss \in Seq(S), NEW st, NEW name
  PROVE  /\ FirstNamed(ss, name) # 0 =>
              FirstNamed(Append(ss, st), name) = FirstNamed(ss, name)
         /\ FirstNamed(ss, name) = 0 /\ IsPrefix(st.name, name) =>
              FirstNamed(Append(ss, st), name) = Len(ss) + 1
<1> DEFINE tt == Append(ss, st)
<1>1. /\ Len(tt) = Len(ss) + 1 /\ Len(ss) \in Nat
      /\ \A j \in 1..Len(ss) : tt[j] = ss[j]
      /\ tt[Len(ss) + 1] = st
  OBVIOUS
<1> HIDE DEF tt
<1>2. Len(tt) \in Nat
  BY <1>1
<1>3. ASSUME FirstNamed(ss, name) # 0
      PROVE  FirstNamed(tt, name) = FirstNamed(ss, name)
  <2> DEFINE k == FirstNamed(ss, name)
  <2>1. /\ k \in 1..Len(ss) /\ IsPrefix(ss[k].name, name)
        /\ \A j \in 1..Len(ss) : j < k => ~IsPrefix(ss[j].name, name)
    BY <1>1, <1>3, FirstNamedFacts
  <2> HIDE DEF k
  <2>2. /\ k \in 1..Len(tt) /\ IsPrefix(tt[k].name, name)
        /\ \A j \in 1..Len(tt) : j < k => ~IsPrefix(tt[j].name, name)
    BY <1>1, <2>1
  <2> QED  BY <1>2, <2>2, FirstNamedIs DEF k
<1>4. ASSUME FirstNamed(ss, name) = 0, IsPrefix(st.name, name)
      PROVE  FirstNamed(tt, name) = Len(ss) + 1
  <2>1. \A j \in 1..Len(ss) : ~IsPrefix(ss[j].name, name)
    BY <1>1, <1>4, FirstNamedFacts
  <2>2. /\ Len(ss) + 1 \in 1..Len(tt) /\ IsPrefix(tt[Len(ss) + 1].name, name)
        /\ \A j \in 1..Len(tt) : j < Len(ss) + 1 => ~IsPrefix(tt[j].name, name)
    BY <1>1, <1>4, <2>1
  <2> QED  BY <1>2, <2>2, FirstNamedIs
<1> QED  BY <1>3, <1>4 DEF tt

-----------------------------------------------------------------------------
(* The stream a line is about                                              *)

\* The places up to i where the stream may change.
Marks(rr, i) == {j \in 1..i : rr[j].cmd \in {"Stream", "file"}}

\* The stream the import gives line i to: the one it finds for the last of them.
SubjectIn(ss, rr, i) ==
    LET j == IF Marks(rr, i) # {} THEN Max(Marks(rr, i)) ELSE 0
    IN  IF j = 0 \/ rr[j].cmd = "file" THEN 0 ELSE FirstNamed(ss, rr[j].name)

\* A line is about the stream that the last Stream= line up to it names.
LEMMA LastMark ==
  ASSUME NEW rr, NEW i \in Nat, NEW j \in Marks(rr, i), \A k \in Marks(rr, i) : k <= j
  PROVE  \A ss : SubjectIn(ss, rr, i) = IF rr[j].cmd = "file" THEN 0
                                        ELSE FirstNamed(ss, rr[j].name)
<1>1. Marks(rr, i) \in SUBSET Nat /\ j # 0
  BY DEF Marks
<1>2. Max(Marks(rr, i)) = j
  BY <1>1, MaxIs
<1> QED  BY <1>1, <1>2 DEF SubjectIn

\* A line with no Stream= line before it is about none.
LEMMA NoMark ==
  ASSUME NEW rr, NEW i, Marks(rr, i) = {}
  PROVE  \A ss : SubjectIn(ss, rr, i) = 0
BY DEF SubjectIn

\* The stream a line is about is the one that some Stream= line names, if any.
LEMMA SubjectMark ==
  ASSUME NEW rr, NEW i \in Nat
  PROVE  \/ \A ss : SubjectIn(ss, rr, i) = 0
         \/ \E j \in 1..i : /\ rr[j].cmd \in {"Stream", "file"}
                            /\ \A ss : SubjectIn(ss, rr, i) =
                                 IF rr[j].cmd = "file" THEN 0 ELSE FirstNamed(ss, rr[j].name)
<1>1. CASE Marks(rr, i) = {}
  BY <1>1, NoMark
<1>2. CASE Marks(rr, i) # {}
  <2> DEFINE j == Max(Marks(rr, i))
  <2>1. Marks(rr, i) \in SUBSET (1..i)
    BY DEF Marks
  <2>2. j \in Marks(rr, i) /\ \A k \in Marks(rr, i) : k <= j
    BY <1>2, <2>1, MaxExists
  <2> HIDE DEF j
  <2>3. \A ss : SubjectIn(ss, rr, i) = IF rr[j].cmd = "file" THEN 0
                                       ELSE FirstNamed(ss, rr[j].name)
    BY <2>2, LastMark
  <2> QED  BY <2>2, <2>3 DEF Marks
<1> QED  BY <1>1, <1>2

\* Reading a line changes nothing for those before it.
LEMMA EarlierLines ==
  ASSUME NEW S, NEW rr \in Seq(S), NEW x, NEW i \in 1..Len(rr)
  PROVE  \A ss : SubjectIn(ss, Append(rr, x), i) = SubjectIn(ss, rr, i)
<1> DEFINE qq == Append(rr, x)
<1>1. \A j \in 1..i : qq[j] = rr[j]
  OBVIOUS
<1> HIDE DEF qq
<1>2. Marks(qq, i) = Marks(rr, i)
  BY <1>1 DEF Marks
<1>3. CASE Marks(rr, i) = {}
  BY <1>2, <1>3, NoMark DEF qq
<1>4. CASE Marks(rr, i) # {}
  <2> DEFINE j == Max(Marks(rr, i))
  <2>1. Marks(rr, i) \in SUBSET (1..i) /\ i \in Nat
    BY DEF Marks
  <2>2. j \in Marks(rr, i) /\ \A k \in Marks(rr, i) : k <= j
    BY <1>4, <2>1, MaxExists
  <2> HIDE DEF j
  <2>3. qq[j] = rr[j]
    BY <1>1, <2>1, <2>2
  <2>4. \A ss : SubjectIn(ss, rr, i) = IF rr[j].cmd = "file" THEN 0
                                       ELSE FirstNamed(ss, rr[j].name)
    BY <2>1, <2>2, LastMark
  <2>5. \A ss : SubjectIn(ss, qq, i) = IF qq[j].cmd = "file" THEN 0
                                       ELSE FirstNamed(ss, qq[j].name)
    BY <1>2, <2>1, <2>2, LastMark
  <2> QED  BY <2>3, <2>4, <2>5 DEF qq
<1> QED  BY <1>3, <1>4

\* A Stream= line is about the stream it names; the lines after it are about the
\* same one.
LEMMA NewLine ==
  ASSUME NEW S, NEW rr \in Seq(S), NEW x
  PROVE  LET qq == Append(rr, x)
         IN  /\ x.cmd \in {"Stream", "file"} =>
                  \A ss : SubjectIn(ss, qq, Len(rr) + 1) =
                            IF x.cmd = "file" THEN 0 ELSE FirstNamed(ss, x.name)
             /\ x.cmd \notin {"Stream", "file"} =>
                  \A ss : SubjectIn(ss, qq, Len(rr) + 1) = SubjectIn(ss, rr, Len(rr))
<1> DEFINE n == Len(rr)
           qq == Append(rr, x)
<1>1. n \in Nat /\ (\A j \in 1..n : qq[j] = rr[j]) /\ qq[n + 1] = x
  OBVIOUS
<1> HIDE DEF qq, n
<1>2. ASSUME x.cmd \in {"Stream", "file"}
      PROVE  \A ss : SubjectIn(ss, qq, n + 1) = IF x.cmd = "file" THEN 0
                                                ELSE FirstNamed(ss, x.name)
  <2>1. n + 1 \in Marks(qq, n + 1) /\ \A k \in Marks(qq, n + 1) : k <= n + 1
    BY <1>1, <1>2 DEF Marks
  <2>2. n + 1 \in Nat
    BY <1>1
  <2> QED  BY <1>1, <2>1, <2>2, LastMark
<1>3. ASSUME x.cmd \notin {"Stream", "file"}
      PROVE  \A ss : SubjectIn(ss, qq, n + 1) = SubjectIn(ss, rr, n)
  <2>1. Marks(qq, n + 1) = Marks(rr, n)
    BY <1>1, <1>3 DEF Marks
  <2>2. CASE Marks(rr, n) = {}
    BY <2>1, <2>2, NoMark
  <2>3. CASE Marks(rr, n) # {}
    <3> DEFINE j == Max(Marks(rr, n))
    <3>1. Marks(rr, n) \in SUBSET (1..n) /\ n + 1 \in Nat
      BY <1>1 DEF Marks
    <3>2. j \in Marks(rr, n) /\ \A k \in Marks(rr, n) : k <= j
      BY <1>1, <2>3, <3>1, MaxExists
    <3> HIDE DEF j
    <3>3. qq[j] = rr[j]
      BY <1>1, <3>1, <3>2
    <3>4. \A ss : SubjectIn(ss, rr, n) = IF rr[j].cmd = "file" THEN 0
                                         ELSE FirstNamed(ss, rr[j].name)
      BY <1>1, <3>2, LastMark
    <3>5. \A ss : SubjectIn(ss, qq, n + 1) = IF qq[j].cmd = "file" THEN 0
                                             ELSE FirstNamed(ss, qq[j].name)
      BY <2>1, <3>1, <3>2, LastMark
    <3> QED  BY <3>3, <3>4, <3>5
  <2> QED  BY <2>2, <2>3
<1> QED  BY <1>2, <1>3 DEF qq, n

-----------------------------------------------------------------------------
(* The callbacks                                                           *)

IsDelay(d) ==
    /\ DOMAIN d.set = DOMAIN Fields
    /\ \A kind \in DOMAIN Fields : DOMAIN d.set[kind] = Fields[kind]

IsBuffer(buf, m) == buf = [j \in 1..m |-> buf[j]]

IsStream(st) ==
    /\ DOMAIN st = {"state", "name", "filter", "loss", "delay", "config"}
    /\ IsName(st.name)
    /\ st.state \in {"ok", "null", "dangling"}
    /\ IsDelay(st.delay)
    /\ IsBuffer(st.config, ConfigLen)

\* The delays that have an import callback, and their settings.
LEMMA Kinds ==
  /\ DOMAIN Fields = {"static", "uniform", "gaussian", "exponential", "pareto"}
  /\ Fields["static"] = {"sec", "nsec"} /\ Fields["uniform"] = {"min", "max"}
  BY DEF Fields

\* A delay line keeps the parameters of every kind of delay.
LEMMA DelayShape ==
  ASSUME NEW d, IsDelay(d), NEW kind \in DOMAIN Fields, NEW args
  PROVE  IsDelay(import_delay(d, kind, args))
<1> DEFINE new == SetFields(d.set[kind], args)
           value == IF kind = "static" THEN Normalise(new) ELSE new
           e == import_delay(d, kind, args)
<1>1. e.set = [d.set EXCEPT ![kind] = value]
  BY DEF import_delay
<1>2. DOMAIN new = Fields[kind]
  BY DEF SetFields, IsDelay
<1>3. DOMAIN value = Fields[kind]
  <2>1. CASE kind = "static"
    <3>1. DOMAIN Normalise(new) = {"sec", "nsec"}
      BY DEF Normalise
    <3> QED  BY <2>1, <3>1, Kinds
  <2>2. CASE kind # "static"
    BY <1>2, <2>2
  <2> QED  BY <2>1, <2>2
<1> HIDE DEF value, e
<1>4. DOMAIN e.set = DOMAIN Fields
  BY <1>1 DEF IsDelay
<1>5. ASSUME NEW k \in DOMAIN Fields
      PROVE  DOMAIN e.set[k] = Fields[k]
  <2>1. CASE k = kind
    BY <1>1, <1>3, <2>1 DEF IsDelay
  <2>2. CASE k # kind
    BY <1>1, <2>2 DEF IsDelay
  <2> QED  BY <2>1, <2>2
<1> QED  BY <1>4, <1>5 DEF IsDelay, e

\* A setting changes nothing but what its command is about; least of all the name.
LEMMA ImportKeeps ==
  ASSUME NEW st, IsStream(st), NEW l \in Lines, l.cmd # "Stream"
  PROVE  LET new == Import(st, l)
         IN  /\ IsStream(new)
             /\ new.name = st.name /\ new.state = st.state
             /\ new.loss = IF l.cmd = "loss_per" THEN l.percentage ELSE st.loss
             /\ new.delay = IF l.cmd = "delay" THEN import_delay(st.delay, l.kind, l.args)
                            ELSE st.delay
             /\ new.config = IF l.cmd \in Ifaces
                             THEN import_iface(st.config, StartOf(l.cmd), l.iface)
                             ELSE st.config
<1> DEFINE new == Import(st, l)
<1>0. l.cmd \in {"src_mac", "dst_mac", "in_iface", "out_iface", "loss_per", "delay", "unknown"}
  BY ConfigAssumption
<1>1. CASE l.cmd = "src_mac"
  <2>1. new = [st EXCEPT !.filter = import_src_mac(st.filter, l.addr)]
    BY <1>1 DEF Import, Ifaces
  <2> HIDE DEF new
  <2> QED  BY <1>1, <2>1 DEF IsStream, Ifaces, new
<1>2. CASE l.cmd = "dst_mac"
  <2>1. new = [st EXCEPT !.filter = import_dst_mac(st.filter, l.addr)]
    BY <1>2 DEF Import, Ifaces
  <2> QED  BY <1>2, <2>1 DEF IsStream, Ifaces
<1>3. CASE l.cmd \in Ifaces
  <2>1. new = [st EXCEPT !.config = import_iface(st.config, StartOf(l.cmd), l.iface)]
    BY <1>3 DEF Import, Ifaces
  <2>2. IsBuffer(import_iface(st.config, StartOf(l.cmd), l.iface), ConfigLen)
    BY DEF import_iface, IsBuffer
  <2>3. l.cmd \notin {"loss_per", "delay"}
    BY <1>3 DEF Ifaces
  <2> QED  BY <1>3, <2>1, <2>2, <2>3 DEF IsStream
<1>4. CASE l.cmd = "loss_per"
  <2>1. new = [st EXCEPT !.loss = l.percentage]
    BY <1>4 DEF Import, Ifaces
  <2> QED  BY <1>4, <2>1 DEF IsStream, Ifaces
<1>5. CASE l.cmd = "delay"
  <2>1. new = [st EXCEPT !.delay = import_delay(st.delay, l.kind, l.args)]
    BY <1>5 DEF Import, Ifaces
  <2>2. IsDelay(import_delay(st.delay, l.kind, l.args))
    BY <1>5, ConfigAssumption, Kinds, DelayShape DEF IsStream
  <2> QED  BY <1>5, <2>1, <2>2 DEF IsStream, Ifaces
<1>6. CASE l.cmd = "unknown"
  BY <1>6 DEF Import, Ifaces
<1> QED  BY <1>0, <1>1, <1>2, <1>3, <1>4, <1>5, <1>6 DEF Ifaces

-----------------------------------------------------------------------------
(* The lines about a stream                                                *)

AboutIn(ss, rr, k, cmds) == {i \in 1..Len(rr) : rr[i].cmd \in cmds /\ SubjectIn(ss, rr, i) = k}

IsLast(T, i) == i \in T /\ \A j \in T : j <= i

\* The loss of stream k is that of the last line about it.
LossFits(ss, rr, k) ==
    LET about == AboutIn(ss, rr, k, {"loss_per"})
    IN  /\ about = {} => ss[k].loss = 0
        /\ \A i : IsLast(about, i) => ss[k].loss = rr[i].percentage

\* A static delay of zero.
Unset == NoDelay.set["static"]

\* The delay of stream k is what the last line about it made of some other one; the
\* static delay is zero until a static_delay line sets it.
DelayFits(ss, rr, k) ==
    LET about == AboutIn(ss, rr, k, {"delay"})
    IN  /\ (\A j \in about : rr[j].kind # "static") => ss[k].delay.set["static"] = Unset
        /\ \A i : IsLast(about, i) =>
             \E old : /\ IsDelay(old)
                      /\ ss[k].delay = import_delay(old, rr[i].kind, rr[i].args)
                      /\ (\A j \in about : j # i => rr[j].kind # "static")
                         => old.set["static"] = Unset

\* The bytes the line of an interface writes, and what it writes to each.
Touches(l, c) == c \in Letters(l) \/ c = StartOf(l.cmd) + Len(l.iface) + 2

WrittenAt(l, c) == IF c \in Letters(l) THEN l.iface[c - StartOf(l.cmd)] ELSE Nul

\* The interfaces of stream k: no line about it has overrun, a byte is what the last
\* line to write it has written, and one that is no terminator is a letter of some
\* line or of a descriptor.
IfaceFits(ss, rr, k) ==
    LET about == AboutIn(ss, rr, k, Ifaces)
        buf   == ss[k].config
    IN  /\ \A i \in about : ~Overruns(rr[i])
        /\ \A c \in 1..ConfigLen :
             buf[c] # Nul => c \in Descriptors \/ \E i \in about : c \in Letters(rr[i])
        /\ \A i \in about, c \in 1..ConfigLen :
             Touches(rr[i], c) /\ (\A j \in about : j > i => ~Touches(rr[j], c))
             => buf[c] = WrittenAt(rr[i], c)

Fits(ss, rr, k) == LossFits(ss, rr, k) /\ DelayFits(ss, rr, k) /\ IfaceFits(ss, rr, k)

\* What a line adds to the lines about a stream, when the streams of the earlier
\* lines stay the same.
LEMMA AboutGrows ==
  ASSUME NEW S, NEW rr \in Seq(S), NEW x, NEW ss, NEW tt, NEW cmds, NEW k,
         "Stream" \notin cmds, "file" \notin cmds,
         \A i \in 1..Len(rr) : SubjectIn(tt, rr, i) = SubjectIn(ss, rr, i)
  PROVE  LET qq == Append(rr, x)
         IN  /\ x.cmd \in cmds /\ SubjectIn(tt, rr, Len(rr)) = k =>
                  AboutIn(tt, qq, k, cmds) = AboutIn(ss, rr, k, cmds) \union {Len(rr) + 1}
             /\ ~(x.cmd \in cmds /\ SubjectIn(tt, rr, Len(rr)) = k) =>
                  AboutIn(tt, qq, k, cmds) = AboutIn(ss, rr, k, cmds)
<1> DEFINE n == Len(rr)
           qq == Append(rr, x)
<1>1. /\ n \in Nat /\ Len(qq) = n + 1 /\ 1..(n + 1) = (1..n) \union {n + 1}
      /\ (\A i \in 1..n : qq[i] = rr[i]) /\ qq[n + 1] = x
  OBVIOUS
<1>2. \A i \in 1..n : SubjectIn(tt, qq, i) = SubjectIn(ss, rr, i)
  BY EarlierLines
<1>3. x.cmd \in cmds => SubjectIn(tt, qq, n + 1) = SubjectIn(tt, rr, n)
  BY NewLine
<1> HIDE DEF n, qq
<1>4. AboutIn(tt, qq, k, cmds) =
        AboutIn(ss, rr, k, cmds) \union
          {i \in {n + 1} : x.cmd \in cmds /\ SubjectIn(tt, rr, n) = k}
  BY <1>1, <1>2, <1>3 DEF AboutIn, n
<1> QED  BY <1>4 DEF qq, n

\* A line about something else leaves the settings of a stream fitting.
LEMMA FitsKept ==
  ASSUME NEW S, NEW rr \in Seq(S), NEW x, NEW ss, NEW tt, NEW k,
         \A i \in 1..Len(rr) : SubjectIn(tt, rr, i) = SubjectIn(ss, rr, i)
  PROVE  /\ /\ LossFits(ss, rr, k) /\ tt[k].loss = ss[k].loss
            /\ x.cmd # "loss_per" \/ SubjectIn(tt, rr, Len(rr)) # k
            => LossFits(tt, Append(rr, x), k)
         /\ /\ DelayFits(ss, rr, k) /\ tt[k].delay = ss[k].delay
            /\ x.cmd # "delay" \/ SubjectIn(tt, rr, Len(rr)) # k
            => DelayFits(tt, Append(rr, x), k)
         /\ /\ IfaceFits(ss, rr, k) /\ tt[k].config = ss[k].config
            /\ x.cmd \notin Ifaces \/ SubjectIn(tt, rr, Len(rr)) # k
            => IfaceFits(tt, Append(rr, x), k)
<1> DEFINE qq == Append(rr, x)
<1>1. \A i \in 1..Len(rr) : qq[i] = rr[i]
  OBVIOUS
<1> HIDE DEF qq
<1>2. ASSUME LossFits(ss, rr, k), tt[k].loss = ss[k].loss,
             x.cmd # "loss_per" \/ SubjectIn(tt, rr, Len(rr)) # k
      PROVE  LossFits(tt, qq, k)
  <2>1. AboutIn(tt, qq, k, {"loss_per"}) = AboutIn(ss, rr, k, {"loss_per"})
    BY <1>2, AboutGrows DEF qq
  <2>2. \A i : IsLast(AboutIn(ss, rr, k, {"loss_per"}), i) => qq[i] = rr[i]
    BY <1>1 DEF IsLast, AboutIn
  <2> QED  BY <1>2, <2>1, <2>2 DEF LossFits
<1>3. ASSUME DelayFits(ss, rr, k), tt[k].delay = ss[k].delay,
             x.cmd # "delay" \/ SubjectIn(tt, rr, Len(rr)) # k
      PROVE  DelayFits(tt, qq, k)
  <2> DEFINE about == AboutIn(ss, rr, k, {"delay"})
  <2>1. AboutIn(tt, qq, k, {"delay"}) = about
    BY <1>3, AboutGrows DEF qq
  <2>2. \A i \in about : qq[i] = rr[i]
    BY <1>1 DEF AboutIn
  <2>3. (\A j \in about : qq[j].kind # "static") => ss[k].delay.set["static"] = Unset
    BY <1>3, <2>2 DEF DelayFits
  <2>4. ASSUME NEW i, IsLast(about, i)
        PROVE  \E old : /\ IsDelay(old)
                        /\ ss[k].delay = import_delay(old, qq[i].kind, qq[i].args)
                        /\ (\A j \in about : j # i => qq[j].kind # "static")
                           => old.set["static"] = Unset
    <3>1. PICK old : /\ IsDelay(old)
                     /\ ss[k].delay = import_delay(old, rr[i].kind, rr[i].args)
                     /\ (\A j \in about : j # i => rr[j].kind # "static")
                        => old.set["static"] = Unset
      BY <1>3, <2>4 DEF DelayFits
    <3>2. qq[i] = rr[i]
      BY <2>2, <2>4 DEF IsLast
    <3> HIDE DEF about
    <3> QED  BY <2>2, <3>1, <3>2
  <2> HIDE DEF about
  <2> QED  BY <1>3, <2>1, <2>3, <2>4 DEF DelayFits
<1>4. ASSUME IfaceFits(ss, rr, k), tt[k].config = ss[k].config,
             x.cmd \notin Ifaces \/ SubjectIn(tt, rr, Len(rr)) # k
      PROVE  IfaceFits(tt, qq, k)
  <2> DEFINE about == AboutIn(ss, rr, k, Ifaces)
  <2>1. AboutIn(tt, qq, k, Ifaces) = about
    <3>1. "Stream" \notin Ifaces /\ "file" \notin Ifaces
      BY DEF Ifaces
    <3> QED  BY <1>4, <3>1, AboutGrows DEF qq
  <2>2. \A i \in about : qq[i] = rr[i]
    BY <1>1 DEF AboutIn
  <2>3. /\ \A i \in about : ~Overruns(rr[i])
        /\ \A c \in 1..ConfigLen :
             tt[k].config[c] # Nul =>
               c \in Descriptors \/ \E i \in about : c \in Letters(rr[i])
        /\ \A i \in about, c \in 1..ConfigLen :
             Touches(rr[i], c) /\ (\A j \in about : j > i => ~Touches(rr[j], c))
             => tt[k].config[c] = WrittenAt(rr[i], c)
    BY <1>4 DEF IfaceFits
  <2> HIDE DEF about
  <2>4. ASSUME NEW i \in about, NEW c \in 1..ConfigLen,
               Touches(qq[i], c), \A j \in about : j > i => ~Touches(qq[j], c)
        PROVE  tt[k].config[c] = WrittenAt(qq[i], c)
    <3>1. Touches(rr[i], c) /\ \A j \in about : j > i => ~Touches(rr[j], c)
      BY <2>2, <2>4
    <3> QED  BY <2>2, <2>3, <3>1
  <2>5. /\ \A i \in about : ~Overruns(qq[i])
        /\ \A c \in 1..ConfigLen :
             tt[k].config[c] # Nul =>
               c \in Descriptors \/ \E i \in about : c \in Letters(qq[i])
    BY <2>2, <2>3
  <2> QED  BY <2>1, <2>4, <2>5 DEF IfaceFits
<1> QED  BY <1>2, <1>3, <1>4 DEF qq

\* The setting a line asks for fits as soon as it is made.
LEMMA FitsSet ==
  ASSUME NEW S, NEW rr \in Seq(S), NEW x, NEW ss, NEW tt, NEW k,
         \A i \in 1..Len(rr) : SubjectIn(tt, rr, i) = SubjectIn(ss, rr, i),
         SubjectIn(tt, rr, Len(rr)) = k
  PROVE  /\ x.cmd = "loss_per" /\ tt[k].loss = x.percentage
            => LossFits(tt, Append(rr, x), k)
         /\ /\ x.cmd = "delay" /\ IsDelay(ss[k].delay) /\ x.kind \in DOMAIN Fields
            /\ DelayFits(ss, rr, k)
            /\ tt[k].delay = import_delay(ss[k].delay, x.kind, x.args)
            => DelayFits(tt, Append(rr, x), k)
         /\ /\ x.cmd \in Ifaces /\ ~Overruns(x) /\ IfaceFits(ss, rr, k)
            /\ tt[k].config = import_iface(ss[k].config, StartOf(x.cmd), x.iface)
            => IfaceFits(tt, Append(rr, x), k)
<1> DEFINE qq == Append(rr, x)
           n == Len(rr)
<1>1. n \in Nat /\ qq[n + 1] = x
  OBVIOUS
<1>2. \A cmds : /\ "Stream" \notin cmds /\ "file" \notin cmds /\ x.cmd \in cmds
                => \A i : IsLast(AboutIn(tt, qq, k, cmds), i) => i = n + 1
  <2> SUFFICES ASSUME NEW cmds, "Stream" \notin cmds, "file" \notin cmds, x.cmd \in cmds,
                      NEW i, IsLast(AboutIn(tt, qq, k, cmds), i)
               PROVE  i = n + 1
    OBVIOUS
  <2>1. AboutIn(tt, qq, k, cmds) = AboutIn(ss, rr, k, cmds) \union {n + 1}
    BY AboutGrows
  <2>2. AboutIn(ss, rr, k, cmds) \subseteq 1..n
    BY DEF AboutIn
  <2> HIDE DEF n
  <2> QED  BY <1>1, <2>1, <2>2 DEF IsLast
<1>3. \A cmds : /\ "Stream" \notin cmds /\ "file" \notin cmds /\ x.cmd \in cmds
                => n + 1 \in AboutIn(tt, qq, k, cmds)
  <2> SUFFICES ASSUME NEW cmds, "Stream" \notin cmds, "file" \notin cmds, x.cmd \in cmds
               PROVE  n + 1 \in AboutIn(tt, qq, k, cmds)
    OBVIOUS
  <2>1. AboutIn(tt, qq, k, cmds) = AboutIn(ss, rr, k, cmds) \union {n + 1}
    BY AboutGrows
  <2> HIDE DEF n, qq
  <2> QED  BY <2>1
<1> HIDE DEF qq, n
<1>4. ASSUME x.cmd = "loss_per", tt[k].loss = x.percentage
      PROVE  LossFits(tt, qq, k)
  <2>1. n + 1 \in AboutIn(tt, qq, k, {"loss_per"})
    BY <1>3, <1>4
  <2>2. \A i : IsLast(AboutIn(tt, qq, k, {"loss_per"}), i) => i = n + 1
    BY <1>2, <1>4
  <2> QED  BY <1>1, <1>4, <2>1, <2>2 DEF LossFits
<1>5. ASSUME x.cmd = "delay", IsDelay(ss[k].delay), x.kind \in DOMAIN Fields,
             DelayFits(ss, rr, k),
             tt[k].delay = import_delay(ss[k].delay, x.kind, x.args)
      PROVE  DelayFits(tt, qq, k)
  <2> DEFINE earlier == AboutIn(ss, rr, k, {"delay"})
             about   == AboutIn(tt, qq, k, {"delay"})
  <2>1. \A i : IsLast(about, i) => i = n + 1
    BY <1>2, <1>5
  <2>2. about = earlier \union {n + 1}
    <3>1. x.cmd \in {"delay"} /\ "Stream" \notin {"delay"} /\ "file" \notin {"delay"}
      BY <1>5
    <3> QED  BY <3>1, AboutGrows DEF n, qq
  <2>3. \A i \in earlier : qq[i] = rr[i] /\ i # n + 1
    BY <1>1 DEF AboutIn, n, qq
  <2>4. (\A j \in earlier : rr[j].kind # "static") => ss[k].delay.set["static"] = Unset
    BY <1>5 DEF DelayFits
  <2> HIDE DEF earlier, about
  <2>5. (\A j \in about : j # n + 1 => qq[j].kind # "static")
        => ss[k].delay.set["static"] = Unset
    BY <2>2, <2>3, <2>4
  <2>6. (\A j \in about : qq[j].kind # "static") => tt[k].delay.set["static"] = Unset
    <3> SUFFICES ASSUME \A j \in about : qq[j].kind # "static"
                 PROVE  tt[k].delay.set["static"] = Unset
      OBVIOUS
    <3>1. x.kind # "static" /\ ss[k].delay.set["static"] = Unset
      BY <1>1, <2>2, <2>5
    <3>2. tt[k].delay.set["static"] = ss[k].delay.set["static"]
      BY <1>5, <3>1, Kinds DEF import_delay, IsDelay
    <3> QED  BY <3>1, <3>2
  <2> QED  BY <1>1, <1>5, <2>1, <2>5, <2>6 DEF DelayFits, about
<1>6. ASSUME x.cmd \in Ifaces, ~Overruns(x), IfaceFits(ss, rr, k),
             tt[k].config = import_iface(ss[k].config, StartOf(x.cmd), x.iface)
      PROVE  IfaceFits(tt, qq, k)
  <2> DEFINE old     == ss[k].config
             buf     == tt[k].config
             earlier == AboutIn(ss, rr, k, Ifaces)
             about   == AboutIn(tt, qq, k, Ifaces)
  <2>1. \A c \in 1..ConfigLen :
          buf[c] = IF Touches(x, c) THEN WrittenAt(x, c) ELSE old[c]
    BY <1>6 DEF import_iface, Touches, WrittenAt, Letters
  <2>2. about = earlier \union {n + 1}
    <3>1. "Stream" \notin Ifaces /\ "file" \notin Ifaces
      BY DEF Ifaces
    <3> QED  BY <1>6, <3>1, AboutGrows DEF n, qq
  <2>3. \A i \in earlier : qq[i] = rr[i] /\ n + 1 > i
    BY DEF AboutIn, n, qq
  <2>4. /\ \A i \in earlier : ~Overruns(rr[i])
        /\ \A c \in 1..ConfigLen :
             old[c] # Nul => c \in Descriptors \/ \E i \in earlier : c \in Letters(rr[i])
        /\ \A i \in earlier, c \in 1..ConfigLen :
             Touches(rr[i], c) /\ (\A j \in earlier : j > i => ~Touches(rr[j], c))
             => old[c] = WrittenAt(rr[i], c)
    BY <1>6 DEF IfaceFits
  <2> HIDE DEF about, earlier, buf, old
  <2>5. \A i \in about : ~Overruns(qq[i])
    BY <1>1, <1>6, <2>2, <2>3, <2>4
  <2>6. ASSUME NEW c \in 1..ConfigLen, buf[c] # Nul
        PROVE  c \in Descriptors \/ \E i \in about : c \in Letters(qq[i])
    <3>1. CASE c \in Letters(x)
      BY <1>1, <2>2, <3>1
    <3>2. CASE c \notin Letters(x)
      <4>1. old[c] # Nul
        BY <2>1, <2>6, <3>2 DEF WrittenAt
      <4> QED  BY <2>2, <2>3, <2>4, <4>1
    <3> QED  BY <3>1, <3>2
  <2>7. ASSUME NEW i \in about, NEW c \in 1..ConfigLen,
               Touches(qq[i], c), \A j \in about : j > i => ~Touches(qq[j], c)
        PROVE  buf[c] = WrittenAt(qq[i], c)
    <3>1. CASE i = n + 1
      BY <1>1, <2>1, <2>7, <3>1
    <3>2. CASE i \in earlier
      <4>1. ~Touches(x, c)
        BY <1>1, <2>2, <2>3, <2>7, <3>2
      <4>2. Touches(rr[i], c) /\ \A j \in earlier : j > i => ~Touches(rr[j], c)
        BY <2>2, <2>3, <2>7, <3>2
      <4>3. old[c] = WrittenAt(rr[i], c)
        BY <2>4, <3>2, <4>2
      <4> QED  BY <2>1, <2>3, <3>2, <4>1, <4>3
    <3> QED  BY <2>2, <3>1, <3>2
  <2> QED  BY <2>5, <2>6, <2>7 DEF IfaceFits, about, buf
<1> QED  BY <1>4, <1>5, <1>6 DEF qq

\* Renamed streams apart, every line stays about the same stream.
LEMMA SubjectSameNames ==
  ASSUME NEW ss, NEW tt, Len(ss) \in Nat, Len(tt) = Len(ss),
         \A k \in 1..Len(ss) : tt[k].name = ss[k].name,
         NEW rr, NEW i \in Nat
  PROVE  SubjectIn(tt, rr, i) = SubjectIn(ss, rr, i)
<1>1. \A name : FirstNamed(tt, name) = FirstNamed(ss, name)
  BY SameNames
<1>2. CASE \A qq : SubjectIn(qq, rr, i) = 0
  BY <1>2
<1>3. ASSUME NEW j \in 1..i,
             \A qq : SubjectIn(qq, rr, i) =
                       IF rr[j].cmd = "file" THEN 0 ELSE FirstNamed(qq, rr[j].name)
      PROVE  SubjectIn(tt, rr, i) = SubjectIn(ss, rr, i)
  BY <1>1, <1>3
<1> QED  BY <1>2, <1>3, SubjectMark

\* The Stream= lines read so far have found or made a stream.
Named(ss, rr) == \A i \in 1..Len(rr) : rr[i].cmd = "Stream" => FirstNamed(ss, rr[i].name) # 0

\* A stream put in the list is the subject of no line read so far.
LEMMA SubjectOneMore ==
  ASSUME NEW S, NEW ss \in Seq(S), NEW st, NEW R, NEW rr \in Seq(R), Named(ss, rr),
         NEW i \in 1..Len(rr)
  PROVE  SubjectIn(Append(ss, st), rr, i) = SubjectIn(ss, rr, i)
<1>1. CASE \A qq : SubjectIn(qq, rr, i) = 0
  BY <1>1
<1>2. ASSUME NEW j \in 1..i, rr[j].cmd \in {"Stream", "file"},
             \A qq : SubjectIn(qq, rr, i) =
                       IF rr[j].cmd = "file" THEN 0 ELSE FirstNamed(qq, rr[j].name)
      PROVE  SubjectIn(Append(ss, st), rr, i) = SubjectIn(ss, rr, i)
  <2>1. j \in 1..Len(rr)
    OBVIOUS
  <2>2. rr[j].cmd = "Stream" =>
          FirstNamed(Append(ss, st), rr[j].name) = FirstNamed(ss, rr[j].name)
    BY <2>1, OneMoreStream DEF Named
  <2> QED  BY <1>2, <2>2
<1> QED  BY <1>1, <1>2, SubjectMark

\* Lines are about streams of the list.
LEMMA SubjectRange ==
  ASSUME NEW ss, Len(ss) \in Nat, NEW rr, NEW i \in Nat
  PROVE  SubjectIn(ss, rr, i) \in 0..Len(ss)
<1>1. \A name : FirstNamed(ss, name) \in 0..Len(ss)
  BY FirstNamedFacts
<1>2. 0 \in 0..Len(ss)
  OBVIOUS
<1> QED  BY <1>1, <1>2, SubjectMark

-----------------------------------------------------------------------------
(* The invariant                                                           *)

\* What the streams and the lines carried out say of each other.
Consistent(ss, rr) ==
    /\ \E S : ss \in Seq(S)
    /\ rr \in Seq(Lines \union {[cmd |-> "file"]})
    /\ \A k \in 1..Len(ss) : /\ IsStream(ss[k])
                             /\ ss[k].state # "ok" => ss[k].name = << >> /\ k = Len(ss)
    /\ \A j, k \in 1..Len(ss) : j < k => ~IsPrefix(ss[j].name, ss[k].name)
    /\ Named(ss, rr)
    /\ \A k \in 1..Len(ss) : Fits(ss, rr, k)

\* The start of a file, a stream named again.
LEMMA SameStreams ==
  ASSUME NEW ss, NEW rr, Consistent(ss, rr),
         NEW x \in Lines \union {[cmd |-> "file"]},
         \/ x.cmd = "file"
         \/ x.cmd = "Stream" /\ FirstNamed(ss, x.name) # 0
  PROVE  Consistent(ss, Append(rr, x))
<1> DEFINE E == Lines \union {[cmd |-> "file"]}
           qq == Append(rr, x)
<1>1. rr \in Seq(E)
  BY DEF Consistent
<1> HIDE DEF E
<1>2. /\ qq \in Seq(E) /\ Len(qq) = Len(rr) + 1 /\ Len(rr) \in Nat
      /\ (\A i \in 1..Len(rr) : qq[i] = rr[i]) /\ qq[Len(rr) + 1] = x
  BY <1>1 DEF E
<1>3. Named(ss, qq)
  <2> SUFFICES ASSUME NEW i \in 1..Len(qq), qq[i].cmd = "Stream"
               PROVE  FirstNamed(ss, qq[i].name) # 0
    BY DEF Named
  <2>1. CASE i \in 1..Len(rr)
    BY <1>2, <2>1 DEF Consistent, Named
  <2>2. CASE i = Len(rr) + 1
    BY <1>2, <2>2
  <2> QED  BY <1>2, <2>1, <2>2
<1>4. ASSUME NEW k \in 1..Len(ss)
      PROVE  Fits(ss, qq, k)
  <2>1. x.cmd \notin {"loss_per", "delay"} /\ x.cmd \notin Ifaces
    BY DEF Ifaces
  <2>2. Fits(ss, rr, k)
    BY DEF Consistent
  <2> QED  BY <1>1, <2>1, <2>2, FitsKept DEF Fits
<1> QED  BY <1>2, <1>3, <1>4 DEF Consistent, E

\* A stream that is not in the list yet is put behind the others, which are all
\* whole: one that is not would have been found, and the new one hides none.
LEMMA AddedStream ==
  ASSUME NEW ss, NEW rr, Consistent(ss, rr),
         NEW x \in Lines, x.cmd = "Stream", FirstNamed(ss, x.name) = 0,
         NEW result \in {"ok", "null", "dangling"}
  PROVE  LET tt == Append(ss, p_emu_StreamInit(x.name, result))
         IN  /\ Consistent(tt, Append(rr, x))
             /\ FirstNamed(tt, x.name) = Len(ss) + 1
             /\ tt[Len(ss) + 1].state = result
<1> DEFINE E == Lines \union {[cmd |-> "file"]}
           qq == Append(rr, x)
           st == p_emu_StreamInit(x.name, result)
           tt == Append(ss, st)
<1>1. PICK S : ss \in Seq(S)
  BY DEF Consistent
<1>2. rr \in Seq(E)
  BY DEF Consistent
<1>3. /\ st.state = result /\ st.loss = 0 /\ st.delay.set["static"] = Unset
      /\ \A c \in 1..ConfigLen : c \notin Descriptors => st.config[c] = Nul
      /\ st.name = IF result = "ok" THEN x.name ELSE << >>
  BY DEF p_emu_StreamInit, BlankStream, NoIfaces, Unset
<1>4. IsName(x.name) /\ IsName(<< >>)
  BY ConfigAssumption DEF IsName
<1>5. IsStream(st)
  <2>1. IsDelay(NoDelay)
    BY DEF IsDelay, NoDelay
  <2>2. st = [BlankStream(st.name) EXCEPT !.state = result]
    BY <1>3 DEF p_emu_StreamInit, BlankStream
  <2>3. IsName(st.name)
    BY <1>3, <1>4
  <2> HIDE DEF st
  <2>4. IsBuffer(NoIfaces, ConfigLen)
    BY DEF IsBuffer, NoIfaces
  <2> QED  BY <1>3, <2>1, <2>2, <2>3, <2>4 DEF IsStream, BlankStream
<1>6. IsPrefix(st.name, x.name)
  <2>1. CASE result = "ok"
    <3> DEFINE T == ToSet(x.name)
    <3>1. x.name \in Seq(T)
      BY <1>4 DEF IsName
    <3> HIDE DEF T
    <3>2. Len(x.name) \in Nat
      BY <3>1
    <3> QED  BY <1>3, <2>1, <3>2 DEF IsPrefix
  <2>2. CASE result # "ok"
    BY <1>3, <1>4, <2>2, EmptyName
  <2> QED  BY <2>1, <2>2
<1> HIDE DEF st, E
<1>7. /\ Len(ss) \in Nat /\ Len(tt) = Len(ss) + 1
      /\ (\A k \in 1..Len(ss) : tt[k] = ss[k]) /\ tt[Len(ss) + 1] = st
      /\ tt \in Seq(S \union {st})
  BY <1>1
<1>8. /\ qq \in Seq(E) /\ Len(qq) = Len(rr) + 1 /\ Len(rr) \in Nat
      /\ (\A i \in 1..Len(rr) : qq[i] = rr[i]) /\ qq[Len(rr) + 1] = x
  BY <1>2 DEF E
<1>9. FirstNamed(tt, x.name) = Len(ss) + 1
  BY <1>1, <1>6, OneMoreStream
<1>10. \A k \in 1..Len(ss) : ~IsPrefix(ss[k].name, x.name)
  BY <1>7, FirstNamedFacts
<1>11. \A k \in 1..Len(ss) : ss[k].state = "ok" /\ ss[k].name # << >> /\ IsStream(ss[k])
  BY <1>4, <1>10, EmptyName DEF Consistent
<1>12. \A k \in 1..Len(ss) : ~IsPrefix(ss[k].name, st.name)
  <2>1. CASE result = "ok"
    BY <1>3, <1>10, <2>1
  <2>2. CASE result # "ok"
    BY <1>3, <1>11, <2>2, EmptyName DEF IsStream
  <2> QED  BY <2>1, <2>2
<1>13. ASSUME NEW k \in 1..Len(tt)
       PROVE  IsStream(tt[k]) /\ (tt[k].state # "ok" => tt[k].name = << >> /\ k = Len(tt))
  <2>1. CASE k \in 1..Len(ss)
    BY <1>7, <1>11, <2>1
  <2>2. CASE k = Len(ss) + 1
    BY <1>3, <1>5, <1>7, <2>2
  <2> HIDE DEF tt
  <2> QED  BY <1>7, <2>1, <2>2
<1>14. ASSUME NEW j \in 1..Len(tt), NEW k \in 1..Len(tt), j < k
       PROVE  ~IsPrefix(tt[j].name, tt[k].name)
  <2> HIDE DEF tt
  <2>1. j \in 1..Len(ss)
    BY <1>7, <1>14
  <2>2. CASE k \in 1..Len(ss)
    BY <1>7, <1>14, <2>1, <2>2 DEF Consistent
  <2>3. CASE k = Len(ss) + 1
    BY <1>7, <1>12, <2>1, <2>3
  <2> QED  BY <1>7, <2>2, <2>3
<1>15. Named(tt, qq)
  <2> SUFFICES ASSUME NEW i \in 1..Len(qq), qq[i].cmd = "Stream"
               PROVE  FirstNamed(tt, qq[i].name) # 0
    BY DEF Named
  <2>1. CASE i \in 1..Len(rr)
    <3>1. FirstNamed(ss, qq[i].name) # 0
      BY <1>8, <2>1 DEF Consistent, Named
    <3> QED  BY <1>1, <3>1, OneMoreStream
  <2>2. CASE i = Len(rr) + 1
    BY <1>7, <1>8, <1>9, <2>2
  <2> QED  BY <1>8, <2>1, <2>2
<1>16. \A i \in 1..Len(rr) : SubjectIn(tt, rr, i) = SubjectIn(ss, rr, i)
  BY <1>1, <1>2, SubjectOneMore DEF Consistent
<1>17. ASSUME NEW k \in 1..Len(ss)
       PROVE  Fits(tt, qq, k)
  <2>1. Fits(ss, rr, k)
    BY DEF Consistent
  <2>2. x.cmd \notin {"loss_per", "delay"} /\ x.cmd \notin Ifaces
    BY DEF Ifaces
  <2>3. /\ tt[k].loss = ss[k].loss /\ tt[k].delay = ss[k].delay
        /\ tt[k].config = ss[k].config
    BY <1>7
  <2> HIDE DEF tt
  <2> QED  BY <1>2, <1>16, <2>1, <2>2, <2>3, FitsKept DEF Fits
<1>18. \A cmds : "Stream" \notin cmds => AboutIn(tt, qq, Len(ss) + 1, cmds) = {}
  <2> SUFFICES ASSUME NEW cmds, "Stream" \notin cmds, NEW i \in 1..Len(qq),
                      qq[i].cmd \in cmds, SubjectIn(tt, qq, i) = Len(ss) + 1
               PROVE  FALSE
    BY DEF AboutIn
  <2>1. i \in 1..Len(rr)
    BY <1>8
  <2>2. SubjectIn(tt, qq, i) = SubjectIn(tt, rr, i)
    BY <1>2, <2>1, EarlierLines
  <2>3. SubjectIn(ss, rr, i) \in 0..Len(ss)
    BY <1>7, <2>1, SubjectRange
  <2> HIDE DEF tt, qq
  <2>4. SubjectIn(ss, rr, i) = Len(ss) + 1
    BY <1>16, <2>1, <2>2
  <2> QED  BY <1>7, <2>3, <2>4
<1>19. Fits(tt, qq, Len(ss) + 1)
  <2> DEFINE n == Len(ss) + 1
  <2>1. /\ AboutIn(tt, qq, n, {"loss_per"}) = {} /\ AboutIn(tt, qq, n, {"delay"}) = {}
        /\ AboutIn(tt, qq, n, Ifaces) = {}
    BY <1>18 DEF Ifaces
  <2>2. /\ tt[n].loss = 0 /\ tt[n].delay.set["static"] = Unset
        /\ \A c \in 1..ConfigLen : c \notin Descriptors => tt[n].config[c] = Nul
    BY <1>3, <1>7
  <2> HIDE DEF tt, qq, n
  <2>3. Fits(tt, qq, n)
    BY <2>1, <2>2 DEF Fits, LossFits, DelayFits, IfaceFits, IsLast
  <2> QED  BY <2>3 DEF n
<1>20. Consistent(tt, qq)
  <2> HIDE DEF tt, qq
  <2>1. \A k \in 1..Len(tt) : Fits(tt, qq, k)
    BY <1>7, <1>17, <1>19
  <2> QED  BY <1>7, <1>8, <1>13, <1>14, <1>15, <2>1 DEF Consistent, E
<1> QED  BY <1>3, <1>7, <1>9, <1>20 DEF st

\* A setting goes to the stream the line is about.
LEMMA SettingMade ==
  ASSUME NEW ss, NEW rr, Consistent(ss, rr),
         NEW x \in Lines, x.cmd # "Stream", ~Overruns(x),
         NEW c \in 1..Len(ss), rr # << >>, SubjectIn(ss, rr, Len(rr)) = c
  PROVE  LET tt == [ss EXCEPT ![c] = Import(ss[c], x)]
         IN  /\ Consistent(tt, Append(rr, x))
             /\ SubjectIn(tt, Append(rr, x), Len(rr) + 1) = c
             /\ Len(tt) = Len(ss) /\ tt[c].state = ss[c].state
<1> DEFINE E == Lines \union {[cmd |-> "file"]}
           qq == Append(rr, x)
           new == Import(ss[c], x)
           tt == [ss EXCEPT ![c] = new]
<1>1. PICK S : ss \in Seq(S)
  BY DEF Consistent
<1>2. rr \in Seq(E)
  BY DEF Consistent
<1>3. /\ IsStream(new)
      /\ new.name = ss[c].name /\ new.state = ss[c].state
      /\ new.loss = IF x.cmd = "loss_per" THEN x.percentage ELSE ss[c].loss
      /\ new.delay = IF x.cmd = "delay" THEN import_delay(ss[c].delay, x.kind, x.args)
                     ELSE ss[c].delay
      /\ new.config = IF x.cmd \in Ifaces
                      THEN import_iface(ss[c].config, StartOf(x.cmd), x.iface)
                      ELSE ss[c].config
  BY ImportKeeps DEF Consistent
<1> HIDE DEF new, E
<1>4. /\ Len(ss) \in Nat /\ Len(tt) = Len(ss)
      /\ tt[c] = new /\ \A k \in 1..Len(ss) : k # c => tt[k] = ss[k]
  BY <1>1
<1>5. tt \in Seq(S \union {new})
  <2>1. DOMAIN tt = 1..Len(ss) /\ \A k \in 1..Len(ss) : tt[k] \in S \union {new}
    BY <1>1
  <2>2. tt = [k \in 1..Len(ss) |-> tt[k]]
    BY <1>1
  <2> HIDE DEF tt
  <2> QED  BY <1>4, <2>1, <2>2
<1> HIDE DEF tt
<1>6. /\ qq \in Seq(E) /\ Len(qq) = Len(rr) + 1 /\ Len(rr) \in Nat \ {0}
      /\ (\A i \in 1..Len(rr) : qq[i] = rr[i]) /\ qq[Len(rr) + 1] = x
  BY <1>2 DEF E
<1>7. x.cmd # "file"
  BY ConfigAssumption
<1>8. \A k \in 1..Len(ss) : tt[k].name = ss[k].name
  BY <1>3, <1>4
<1>9. \A i \in 1..Len(rr) : SubjectIn(tt, rr, i) = SubjectIn(ss, rr, i)
  BY <1>4, <1>8, SubjectSameNames
<1>10. SubjectIn(tt, rr, Len(rr)) = c
  BY <1>6, <1>9
<1>11. SubjectIn(tt, qq, Len(rr) + 1) = c
  BY <1>2, <1>7, <1>10, NewLine
<1>12. Named(tt, qq)
  <2>1. \A name : FirstNamed(tt, name) = FirstNamed(ss, name)
    BY <1>4, <1>8, SameNames
  <2> HIDE DEF qq
  <2> QED  BY <1>6, <2>1 DEF Named, Consistent
<1>13. ASSUME NEW k \in 1..Len(tt)
       PROVE  IsStream(tt[k]) /\ (tt[k].state # "ok" => tt[k].name = << >> /\ k = Len(tt))
  BY <1>3, <1>4 DEF Consistent
<1>14. ASSUME NEW j \in 1..Len(tt), NEW k \in 1..Len(tt), j < k
       PROVE  ~IsPrefix(tt[j].name, tt[k].name)
  BY <1>4, <1>8, <1>14 DEF Consistent
<1>15. ASSUME NEW k \in 1..Len(ss)
       PROVE  Fits(tt, qq, k)
  <2>1. LossFits(ss, rr, k) /\ DelayFits(ss, rr, k) /\ IfaceFits(ss, rr, k)
    BY DEF Consistent, Fits
  <2>2. CASE k # c
    <3>1. /\ tt[k].loss = ss[k].loss /\ tt[k].delay = ss[k].delay
          /\ tt[k].config = ss[k].config
      BY <1>4, <2>2
    <3> QED  BY <1>2, <1>9, <1>10, <2>1, <2>2, <3>1, FitsKept DEF Fits
  <2>3. CASE k = c
    <3>1. /\ tt[k].loss = IF x.cmd = "loss_per" THEN x.percentage ELSE ss[k].loss
          /\ tt[k].delay = IF x.cmd = "delay" THEN import_delay(ss[k].delay, x.kind, x.args)
                           ELSE ss[k].delay
          /\ tt[k].config = IF x.cmd \in Ifaces
                            THEN import_iface(ss[k].config, StartOf(x.cmd), x.iface)
                            ELSE ss[k].config
      BY <1>3, <1>4, <2>3
    <3>2. IsDelay(ss[k].delay)
      BY DEF Consistent, IsStream
    <3>3. SubjectIn(tt, rr, Len(rr)) = k
      BY <1>10, <2>3
    <3>4. LossFits(tt, qq, k)
      <4>1. CASE x.cmd = "loss_per"
        BY <1>2, <1>9, <3>1, <3>3, <4>1, FitsSet
      <4>2. CASE x.cmd # "loss_per"
        BY <1>2, <1>9, <2>1, <3>1, <4>2, FitsKept
      <4> QED  BY <4>1, <4>2
    <3>5. DelayFits(tt, qq, k)
      <4>1. CASE x.cmd = "delay"
        <5>1. x.kind \in DOMAIN Fields
          BY <4>1, ConfigAssumption, Kinds
        <5> QED  BY <1>2, <1>9, <2>1, <3>1, <3>2, <3>3, <4>1, <5>1, FitsSet
      <4>2. CASE x.cmd # "delay"
        BY <1>2, <1>9, <2>1, <3>1, <4>2, FitsKept
      <4> QED  BY <4>1, <4>2
    <3>6. IfaceFits(tt, qq, k)
      <4>1. CASE x.cmd \in Ifaces
        BY <1>2, <1>9, <2>1, <3>1, <3>3, <4>1, FitsSet
      <4>2. CASE x.cmd \notin Ifaces
        BY <1>2, <1>9, <2>1, <3>1, <4>2, FitsKept
      <4> QED  BY <4>1, <4>2
    <3> QED  BY <3>4, <3>5, <3>6 DEF Fits
  <2> QED  BY <2>2, <2>3
<1>16. Consistent(tt, qq)
  <2> HIDE DEF qq
  <2> QED  BY <1>4, <1>5, <1>6, <1>12, <1>13, <1>14, <1>15 DEF Consistent, E
<1> QED  BY <1>3, <1>4, <1>11, <1>16 DEF tt, new

\* The inductive invariant: besides, the current stream is the one the last line is
\* about.
ConfigInv ==
    /\ main \in {"options", "import", "daemon", "over", "fault"}
    /\ files \in 0..MaxFiles
    /\ Consistent(streams, read)
    /\ current \in 0..Len(streams)
    /\ current # 0 => streams[current].state # "null"
    /\ main = "import" /\ current # 0 =>
         read # << >> /\ SubjectIn(streams, read, Len(read)) = current

\* Nothing is read at first.
LEMMA ConfigInvInit == ConfigInit => ConfigInv
<1> SUFFICES ASSUME ConfigInit PROVE ConfigInv
  OBVIOUS
<1>1. /\ streams = << >> /\ read = << >> /\ main = "options" /\ files = 0 /\ current = 0
      /\ Len(<< >>) = 0 /\ 1..0 = {} /\ \A S : << >> \in Seq(S)
  BY DEF ConfigInit
<1>2. Consistent(streams, read)
  BY <1>1 DEF Consistent, Named
<1> QED  BY <1>1, <1>2, ConfigAssumption DEF ConfigInv

\* Naming a stream again keeps it.
LEMMA StreamFoundKeeps ==
  ASSUME ConfigInv, NEW l \in Lines, StreamFound(l)
  PROVE  ConfigInv'
<1> DEFINE k == FirstNamed(streams, l.name)
<1>1. /\ l.cmd = "Stream" /\ k # 0 /\ streams[k].state # "null" /\ current' = k
      /\ streams' = streams /\ read' = Append(read, l) /\ main' = main /\ files' = files
  BY DEF StreamFound, Reading, Visit, FirstNamed
<1>2. Consistent(streams, read)
  BY DEF ConfigInv
<1>3. PICK S : streams \in Seq(S)
  BY <1>2 DEF Consistent
<1>4. k \in 0..Len(streams)
  BY <1>3, FirstNamedFacts
<1>5. Consistent(streams', read')
  BY <1>1, <1>2, SameStreams
<1>6. /\ Len(read') = Len(read) + 1 /\ read' # << >>
      /\ SubjectIn(streams, read', Len(read) + 1) = k
  <2> DEFINE E == Lines \union {[cmd |-> "file"]}
  <2>1. read \in Seq(E)
    BY <1>2 DEF Consistent
  <2> HIDE DEF E
  <2>2. l.cmd # "file"
    BY <1>1
  <2> QED  BY <1>1, <2>1, <2>2, NewLine
<1> QED  BY <1>1, <1>4, <1>5, <1>6 DEF ConfigInv

\* It is kept when a stream is added to the list.
LEMMA StreamNewKeeps ==
  ASSUME ConfigInv, NEW l \in Lines, NEW result \in StreamInits, StreamNew(l, result)
  PROVE  ConfigInv'
<1> DEFINE tt == Append(streams, p_emu_StreamInit(l.name, result))
<1>1. /\ l.cmd = "Stream" /\ FirstNamed(streams, l.name) = 0
      /\ current' = IF result = "null" THEN 0 ELSE Len(streams) + 1
      /\ streams' = tt /\ read' = Append(read, l) /\ main' = main /\ files' = files
  BY DEF StreamNew, Reading, Visit, FirstNamed
<1>2. Consistent(streams, read) /\ result \in {"ok", "null", "dangling"}
  BY DEF ConfigInv, StreamInits
<1>3. PICK S : streams \in Seq(S)
  BY <1>2 DEF Consistent
<1>4. Len(tt) = Len(streams) + 1 /\ Len(streams) \in Nat
  BY <1>3
<1>5. /\ Consistent(tt, read')
      /\ FirstNamed(tt, l.name) = Len(streams) + 1
      /\ tt[Len(streams) + 1].state = result
  BY <1>1, <1>2, AddedStream
<1>6. /\ Len(read') = Len(read) + 1 /\ read' # << >>
      /\ SubjectIn(tt, read', Len(read) + 1) = Len(streams) + 1
  <2> DEFINE E == Lines \union {[cmd |-> "file"]}
  <2>1. read \in Seq(E)
    BY <1>2 DEF Consistent
  <2> HIDE DEF E, tt
  <2>2. l.cmd # "file"
    BY <1>1
  <2> QED  BY <1>1, <1>5, <2>1, <2>2, NewLine
<1> HIDE DEF tt
<1> QED  BY <1>1, <1>4, <1>5, <1>6 DEF ConfigInv

\* It is kept when a setting is imported.
LEMMA SettingKeeps ==
  ASSUME ConfigInv, NEW l \in Lines, Setting(l)
  PROVE  ConfigInv'
<1> DEFINE tt == [streams EXCEPT ![current] = Import(streams[current], l)]
<1>1. /\ main = "import" /\ l.cmd # "Stream" /\ ~Overruns(l)
      /\ current # 0 /\ current' = current
      /\ streams' = tt /\ read' = Append(read, l) /\ main' = main /\ files' = files
  BY DEF Setting, Reading
<1>2. /\ Consistent(streams, read) /\ current \in 1..Len(streams)
      /\ read # << >> /\ SubjectIn(streams, read, Len(read)) = current
  BY <1>1 DEF ConfigInv
<1>3. /\ Consistent(tt, read')
      /\ SubjectIn(tt, read', Len(read) + 1) = current
      /\ Len(tt) = Len(streams) /\ tt[current].state = streams[current].state
  <2>1. /\ Consistent(tt, Append(read, l))
        /\ SubjectIn(tt, Append(read, l), Len(read) + 1) = current
        /\ Len(tt) = Len(streams) /\ tt[current].state = streams[current].state
    <3>1. l.cmd # "Stream" /\ ~Overruns(l)
      BY <1>1
    <3> QED  BY <1>2, <3>1, SettingMade
  <2> QED  BY <1>1, <2>1
<1>4. Len(read') = Len(read) + 1 /\ read' # << >>
  <2> DEFINE E == Lines \union {[cmd |-> "file"]}
  <2>1. read \in Seq(E)
    BY <1>2 DEF Consistent
  <2> HIDE DEF E
  <2> QED  BY <1>1, <2>1
<1> HIDE DEF tt
<1> QED  BY <1>1, <1>3, <1>4 DEF ConfigInv

\* It is kept when the next file is opened.
LEMMA OpenFileKeeps ==
  ASSUME ConfigInv, OpenFile
  PROVE  ConfigInv'
<1>1. /\ main' = "import" /\ current' = 0 /\ files < MaxFiles /\ files' = files + 1
      /\ read' = Append(read, [cmd |-> "file"]) /\ streams' = streams
  BY DEF OpenFile
<1>2. Consistent(streams, read') /\ files' \in 0..MaxFiles
  BY <1>1, SameStreams, ConfigAssumption DEF ConfigInv
<1>3. 0 \in 0..Len(streams)
  BY DEF ConfigInv
<1> QED  BY <1>1, <1>2, <1>3 DEF ConfigInv

\* The other steps leave streams and read alone, and none of them goes on reading.
LEMMA OthersKeep ==
  ASSUME ConfigInv,
         streams' = streams, read' = read, current' = current,
         main' = main \/ main' \in {"options", "daemon", "over", "fault"},
         files' \in 0..MaxFiles
  PROVE  ConfigInv'
BY DEF ConfigInv

\* Every step of the import keeps the invariant.
LEMMA ConfigInvStep == ConfigInv /\ [ConfigNext]_configVars => ConfigInv'
<1> SUFFICES ASSUME ConfigInv, [ConfigNext]_configVars PROVE ConfigInv'
  OBVIOUS
<1>0. files' = files => files' \in 0..MaxFiles
  BY DEF ConfigInv
<1>1. CASE OpenFile
  BY <1>1, OpenFileKeeps
<1>2. CASE OpenFails
  <2>1. /\ main' = main /\ files' = files + 1 /\ files < MaxFiles
        /\ streams' = streams /\ read' = read /\ current' = current
    BY <1>2 DEF OpenFails
  <2>2. files' \in 0..MaxFiles
    BY <2>1, ConfigAssumption DEF ConfigInv
  <2> QED  BY <2>1, <2>2, OthersKeep
<1>3. CASE EndOfFile
  <2>1. /\ main' \in {"daemon", "over", "fault"} /\ files' = files
        /\ streams' = streams /\ read' = read /\ current' = current
    BY <1>3 DEF EndOfFile
  <2> QED  BY <1>0, <2>1, OthersKeep
<1>4. CASE OptionsEnd
  <2>1. /\ main' \in {"daemon", "over", "fault"} /\ files' = files
        /\ streams' = streams /\ read' = read /\ current' = current
    BY <1>4 DEF OptionsEnd
  <2> QED  BY <1>0, <2>1, OthersKeep
<1>5. CASE Fault
  <2>1. /\ main' \in {"daemon", "over", "fault"} /\ files' = files
        /\ streams' = streams /\ read' = read /\ current' = current
    BY <1>5 DEF Fault
  <2> QED  BY <1>0, <2>1, OthersKeep
<1>6. ASSUME NEW l \in Lines, StreamFound(l)
      PROVE  ConfigInv'
  BY <1>6, StreamFoundKeeps
<1>7. ASSUME NEW l \in Lines, StreamRefused(l) \/ NoStream(l)
      PROVE  ConfigInv'
  <2>1. /\ main' = "options" /\ files' = files
        /\ streams' = streams /\ read' = read /\ current' = current
    BY <1>7 DEF StreamRefused, NoStream, ImportFails
  <2> QED  BY <1>0, <2>1, OthersKeep
<1>8. ASSUME NEW l \in Lines, Setting(l)
      PROVE  ConfigInv'
  BY <1>8, SettingKeeps
<1>9. ASSUME NEW l \in Lines, NEW result \in StreamInits, StreamNew(l, result)
      PROVE  ConfigInv'
  BY <1>9, StreamNewKeeps
<1>10. CASE UNCHANGED configVars
  <2>1. /\ main' = main /\ files' = files
        /\ streams' = streams /\ read' = read /\ current' = current
    BY <1>10 DEF configVars
  <2> QED  BY <1>0, <2>1, OthersKeep
<1> QED  BY <1>1, <1>2, <1>3, <1>4, <1>5, <1>6, <1>7, <1>8, <1>9, <1>10 DEF ConfigNext

-----------------------------------------------------------------------------
(* The theorems                                                            *)

\* The configuration's type correctness, the files having any lines.
THEOREM ConfigTypeHolds == ConfigSpec => []ConfigType
<1>1. ConfigInv => ConfigType
  <2> SUFFICES ASSUME ConfigInv PROVE ConfigType
    OBVIOUS
  <2>1. PICK S : streams \in Seq(S)
    BY DEF ConfigInv, Consistent
  <2>2. DOMAIN streams = 1..Len(streams)
    BY <2>1
  <2>3. \A buf : IsBuffer(buf, ConfigLen) => DOMAIN buf = 1..ConfigLen
    BY DEF IsBuffer
  <2> QED  BY <2>2, <2>3 DEF ConfigInv, Consistent, IsStream, IsDelay, ConfigType
<1> QED  BY <1>1, ConfigInvInit, ConfigInvStep, PTL DEF ConfigSpec

\* No stream is hidden by one before it: slib_find_in_list stops at the first stream
\* whose name the new one begins with, so such a name never gets a stream.
THEOREM NamesPrefixFreeHolds == ConfigSpec => []NamesPrefixFree
<1>1. ConfigInv => NamesPrefixFree
  <2> SUFFICES ASSUME ConfigInv PROVE NamesPrefixFree
    OBVIOUS
  <2>1. PICK S : streams \in Seq(S)
    BY DEF ConfigInv, Consistent
  <2>2. DOMAIN streams = 1..Len(streams)
    BY <2>1
  <2> QED  BY <2>2 DEF ConfigInv, Consistent, NamesPrefixFree
<1> QED  BY <1>1, ConfigInvInit, ConfigInvStep, PTL DEF ConfigSpec

\* A stream that p_emu_StreamInit could not make is the last one: it has an empty
\* name, which the search takes for any name after it.
THEOREM BrokenStreamIsLastHolds == ConfigSpec => []BrokenStreamIsLast
<1>1. ConfigInv => BrokenStreamIsLast
  <2> SUFFICES ASSUME ConfigInv PROVE BrokenStreamIsLast
    OBVIOUS
  <2>1. PICK S : streams \in Seq(S)
    BY DEF ConfigInv, Consistent
  <2>2. DOMAIN streams = 1..Len(streams)
    BY <2>1
  <2> QED  BY <2>2 DEF ConfigInv, Consistent, BrokenStreamIsLast
<1> QED  BY <1>1, ConfigInvInit, ConfigInvStep, PTL DEF ConfigSpec

-----------------------------------------------------------------------------
(* The lines the author means                                              *)

\* A name begins with itself.
LEMMA WholeName ==
  ASSUME NEW name, IsName(name)
  PROVE  IsPrefix(name, name)
<1> DEFINE T == ToSet(name)
<1>1. name \in Seq(T)
  BY DEF IsName
<1> HIDE DEF T
<1>2. Len(name) \in Nat
  BY <1>1
<1> QED  BY <1>2 DEF IsPrefix

\* The place of the mark of a line, and the stream of the name it has.
LEMMA MarkIs ==
  ASSUME ConfigInv, NEW i \in DOMAIN read
  PROVE  /\ Mark(i) = IF Marks(read, i) # {} THEN Max(Marks(read, i)) ELSE 0
         /\ Mark(i) # 0 => /\ Mark(i) \in DOMAIN read
                           /\ read[Mark(i)].cmd \in {"Stream", "file"}
         /\ SubjectIn(streams, read, i) =
              IF Mark(i) = 0 \/ read[Mark(i)].cmd = "file" THEN 0
              ELSE FirstNamed(streams, read[Mark(i)].name)
<1>1. Mark(i) = IF Marks(read, i) # {} THEN Max(Marks(read, i)) ELSE 0
  BY DEF Mark, Marks, SelectLastInSubSeq
<1>2. DOMAIN read = 1..Len(read) /\ Len(read) \in Nat
  <2> DEFINE E == Lines \union {[cmd |-> "file"]}
  <2>1. read \in Seq(E)
    BY DEF ConfigInv, Consistent
  <2> HIDE DEF E
  <2> QED  BY <2>1
<1>3. ASSUME Mark(i) # 0
      PROVE  Mark(i) \in DOMAIN read /\ read[Mark(i)].cmd \in {"Stream", "file"}
  <2>1. i \in Nat /\ Marks(read, i) \in SUBSET (1..i) /\ Marks(read, i) # {}
    BY <1>1, <1>2, <1>3 DEF Marks
  <2>2. Mark(i) \in Marks(read, i)
    BY <1>1, <2>1, MaxExists
  <2> QED  BY <1>2, <2>2 DEF Marks
<1> QED  BY <1>1, <1>3 DEF SubjectIn

\* The import gives a line to a stream whose name no other name in the files begins
\* with exactly when the author means that stream.
LEMMA AboutIsGiven ==
  ASSUME ConfigInv, NEW k \in Distinct, NEW cmds
  PROVE  /\ k \in 1..Len(streams)
         /\ About(streams[k].name, cmds) = AboutIn(streams, read, k, cmds)
<1>1. PICK S : streams \in Seq(S)
  BY DEF ConfigInv, Consistent
<1>2. /\ k \in 1..Len(streams) /\ Len(streams) \in Nat
      /\ \A i \in DOMAIN read :
           read[i].cmd = "Stream" /\ IsPrefix(streams[k].name, read[i].name)
           => read[i].name = streams[k].name
  BY <1>1 DEF Distinct
<1>3. DOMAIN read = 1..Len(read)
  BY DEF ConfigInv, Consistent
<1>4. FirstNamed(streams, streams[k].name) = k
  <2>1. IsPrefix(streams[k].name, streams[k].name)
    BY <1>2, WholeName DEF ConfigInv, Consistent, IsStream
  <2>2. \A j \in 1..Len(streams) : j < k => ~IsPrefix(streams[j].name, streams[k].name)
    BY <1>2 DEF ConfigInv, Consistent
  <2> QED  BY <1>2, <2>1, <2>2, FirstNamedIs
<1>5. ASSUME NEW i \in DOMAIN read
      PROVE  /\ Mark(i) # 0
             /\ read[Mark(i)].cmd = "Stream" /\ read[Mark(i)].name = streams[k].name
             <=> SubjectIn(streams, read, i) = k
  <2>1. k # 0
    BY <1>2
  <2>2. ASSUME SubjectIn(streams, read, i) = k
        PROVE  /\ Mark(i) # 0
               /\ read[Mark(i)].cmd = "Stream" /\ read[Mark(i)].name = streams[k].name
    <3>1. /\ Mark(i) # 0 /\ Mark(i) \in DOMAIN read /\ read[Mark(i)].cmd = "Stream"
          /\ FirstNamed(streams, read[Mark(i)].name) = k
      BY <2>1, <2>2, MarkIs
    <3>2. IsPrefix(streams[k].name, read[Mark(i)].name)
      BY <1>2, <2>1, <3>1, FirstNamedFacts
    <3> QED  BY <1>2, <3>1, <3>2
  <2> QED  BY <1>4, <2>2, MarkIs
<1> QED  BY <1>2, <1>3, <1>5 DEF About, AboutIn

\* The last of the lines about a stream is the one that LossFits and DelayFits speak of.
LEMMA LastOfAbout ==
  ASSUME ConfigInv, NEW k \in Distinct, NEW cmds, "Stream" \notin cmds, "file" \notin cmds,
         About(streams[k].name, cmds) # {}
  PROVE  LET about == About(streams[k].name, cmds)
         IN  /\ IsLast(about, Max(about)) /\ Max(about) \in about
             /\ \A i \in about : i \in Nat /\ read[i].cmd \in cmds /\ read[i] \in Lines
<1> DEFINE E == Lines \union {[cmd |-> "file"]}
           about == About(streams[k].name, cmds)
<1>1. read \in Seq(E)
  BY DEF ConfigInv, Consistent
<1> HIDE DEF E
<1>2. DOMAIN read = 1..Len(read) /\ Len(read) \in Nat
  BY <1>1
<1>3. about \in SUBSET (1..Len(read)) /\ \A i \in about : read[i].cmd \in cmds
  BY <1>2 DEF About
<1>4. IsLast(about, Max(about)) /\ Max(about) \in about
  BY <1>2, <1>3, MaxExists DEF IsLast
<1>5. ASSUME NEW i \in about
      PROVE  read[i] \in Lines
  <2>1. read[i] \in E /\ read[i].cmd # "file"
    BY <1>1, <1>3, <1>5
  <2> QED  BY <2>1 DEF E
<1> QED  BY <1>3, <1>4, <1>5

-----------------------------------------------------------------------------
(* Rounding                                                                *)

\* The floating-point number nearest to a quotient is one.
LEMMA RoundFacts ==
  ASSUME NEW F \in SUBSET Nat, F # {}, NEW a \in Nat, NEW b \in Nat
  PROVE  /\ Round(F, a, b) \in F
         /\ \A g \in F : Distance(b * Round(F, a, b), a) <= Distance(b * g, a)
<1> DEFINE D == {Distance(b * g, a) : g \in F}
<1>1. \A g \in F : Distance(b * g, a) \in Nat
  BY DEF Distance
<1>2. D \in SUBSET Nat /\ D # {}
  BY <1>1
<1> HIDE DEF D
<1>3. PICK d \in D : \A e \in D : d <= e
  BY <1>2, LeastElement
<1>4. PICK f \in F : d = Distance(b * f, a)
  BY DEF D
<1>5. \A g \in F : Distance(b * f, a) <= Distance(b * g, a)
  BY <1>3, <1>4 DEF D
<1> QED  BY <1>5 DEF Round

\* One on either side of the quotient bounds it, so one that is the quotient is it.
LEMMA RoundBounds ==
  ASSUME NEW F \in SUBSET Nat, NEW a \in Nat, NEW b \in Nat \ {0}, NEW f \in F
  PROVE  /\ Round(F, a, b) \in F
         /\ a <= b * f => Round(F, a, b) <= f
         /\ b * f <= a => f <= Round(F, a, b)
         /\ b * f = a => Round(F, a, b) = f
<1> DEFINE r == Round(F, a, b)
<1>1. r \in F /\ Distance(b * r, a) <= Distance(b * f, a)
  BY RoundFacts
<1> HIDE DEF r
<1> DEFINE x == b * r
           y == b * f
<1>2. x \in Nat /\ y \in Nat /\ r \in Nat /\ f \in Nat
  BY <1>1
<1>3. r > f => x > y
  <2> SUFFICES ASSUME r > f PROVE x > y
    OBVIOUS
  <2>1. b * (r - f) \in Nat \ {0} /\ b * r = b * f + b * (r - f)
    BY <1>2
  <2> QED  BY <1>2, <2>1
<1>4. r < f => x < y
  <2> SUFFICES ASSUME r < f PROVE x < y
    OBVIOUS
  <2>1. b * (f - r) \in Nat \ {0} /\ b * f = b * r + b * (f - r)
    BY <1>2
  <2> QED  BY <1>2, <2>1
<1> HIDE DEF x, y
<1>5. /\ a <= y => r <= f
      /\ y <= a => f <= r
  BY <1>1, <1>2, <1>3, <1>4 DEF Distance, x, y
<1>6. y = a => r = f
  BY <1>2, <1>5
<1> QED  BY <1>1, <1>5, <1>6 DEF r, y

\* The threshold for p percent lies less than one draw from p percent of the draws;
\* at zero and at 100 percent it is exact.
LEMMA ThresholdIs ==
  ASSUME NEW p \in Percentages
  PROVE  LET U == FloatUnit
             x == p * (LossAccuracy \div 100)
             t == LossThreshold[p]
         IN  /\ x \in Nat /\ x <= LossAccuracy /\ t \in Nat
             /\ (x - 1) * U < t /\ t < (x + 1) * U
             /\ p \in {0, 100} => t = x * U
<1> DEFINE U == FloatUnit
           A == LossAccuracy
           P == FloatPrecision
           h == A \div 100
           x == p * h
           q == LossQuotient(p)
           m == q * A
           t == LossThreshold[p]
           e == p * U
<1>1. /\ U \in Nat \ {0} /\ A \in Nat \ {0} /\ P \in Nat /\ P > 3 * A /\ p \in 0..100
      /\ Floats \in SUBSET Nat /\ \A i \in 0..A : i * U \in Floats
  BY DrawAssumption
<1>2. h \in Nat /\ A = 100 * h
  <2>1. A % 100 = 0
    BY DrawAssumption
  <2> HIDE DEF A
  <2> QED  BY <1>1, <2>1
<1>3. x \in Nat /\ x <= A
  <2>1. (100 - p) * h \in Nat /\ p * h \in Nat /\ 100 * h = p * h + (100 - p) * h
    BY <1>1, <1>2
  <2> QED  BY <1>2, <2>1
<1>4. e \in Nat /\ Floats # {} /\ 0 \in Floats /\ U \in Floats /\ A * U \in Floats
  <2>1. 0 * U = 0 /\ 1 * U = U /\ 0 \in 0..A /\ 1 \in 0..A /\ A \in 0..A
    BY <1>1
  <2>2. 0 * U \in Floats /\ 1 * U \in Floats /\ A * U \in Floats
    BY <1>1, <2>1
  <2> QED  BY <1>1, <2>1, <2>2
<1>5. t = Round(Floats, m, 1)
  BY DEF LossThreshold
<1>6. q \in Floats
  BY <1>1, <1>4, RoundFacts DEF LossQuotient
<1>7. q \in Nat /\ m \in Nat
  <2> HIDE DEF q
  <2>1. q \in Nat
    BY <1>1, <1>6
  <2> QED  BY <1>1, <2>1
<1>8. t \in Nat
  <2> HIDE DEF m, t
  <2>1. t \in Floats
    BY <1>1, <1>4, <1>5, <1>7, RoundFacts
  <2> QED  BY <1>1, <2>1
<1>9. P * Distance(100 * q, e) <= e /\ P * Distance(t, m) <= m
  BY <1>5, DrawAssumption
<1> HIDE DEF t, q, h, A, U, P
<1> DEFINE w == x * U
<1>10. w \in Nat /\ w <= A * U /\ w = h * e
  <2>1. (A - x) * U \in Nat /\ A * U = x * U + (A - x) * U
    BY <1>1, <1>3
  <2>2. x * U = h * (p * U)
    BY <1>1, <1>2
  <2>3. w \in Nat
    BY <1>1, <1>3
  <2> QED  BY <2>1, <2>2, <2>3
<1>11. P * Distance(m, w) <= w
  <2> DEFINE d == Distance(100 * q, e)
  <2>1. d \in Nat
    BY <1>4, <1>7 DEF Distance
  <2>2. m = h * (100 * q)
    BY <1>2, <1>7
  <2>3. Distance(m, w) = h * d
    <3>1. CASE 100 * q < e
      <4>1. h * (e - 100 * q) = h * e - h * (100 * q) /\ h * (e - 100 * q) \in Nat
        BY <1>2, <1>4, <1>7, <3>1
      <4>2. d = e - 100 * q
        BY <3>1 DEF Distance
      <4> HIDE DEF w, m, d, e
      <4>3. w - m = h * d /\ h * d \in Nat
        BY <1>10, <2>2, <4>1, <4>2
      <4>4. m \in Int /\ w \in Int
        BY <1>7, <1>10
      <4> QED  BY <4>3, <4>4 DEF Distance
    <3>2. CASE ~(100 * q < e)
      <4>1. h * (100 * q - e) = h * (100 * q) - h * e /\ h * (100 * q - e) \in Nat
        BY <1>2, <1>4, <1>7, <3>2
      <4>2. d = 100 * q - e
        BY <3>2 DEF Distance
      <4> HIDE DEF w, m, d, e
      <4>3. m - w = h * d /\ h * d \in Nat
        BY <1>10, <2>2, <4>1, <4>2
      <4>4. m \in Int /\ w \in Int
        BY <1>7, <1>10
      <4> QED  BY <4>3, <4>4 DEF Distance
    <3> QED  BY <3>1, <3>2
  <2>4. P * d <= e
    BY <1>9
  <2> HIDE DEF d, e, m, w
  <2>5. h * (e - P * d) \in Nat /\ h * (e - P * d) = h * e - P * (h * d)
    BY <1>1, <1>2, <1>4, <2>1, <2>4
  <2>6. h * e \in Int /\ P * (h * d) \in Int
    BY <1>1, <1>2, <1>4, <2>1
  <2> QED  BY <1>10, <2>3, <2>5, <2>6
<1> DEFINE u == Distance(m, w)
           v == Distance(t, m)
<1>12. u \in Nat /\ v \in Nat
  BY <1>7, <1>8, <1>10 DEF Distance
<1>13. u + v < U
  <2>1. u <= w
    <3> SUFFICES ASSUME u > w PROVE FALSE
      BY <1>10, <1>12
    <3>1. (P - 1) * u \in Nat /\ P * u = u + (P - 1) * u
      BY <1>1, <1>12
    <3> HIDE DEF u, w
    <3> QED  BY <1>10, <1>11, <1>12, <3>1 DEF u
  <2>2. m <= w + u
    BY <1>7, <1>10 DEF Distance
  <2> HIDE DEF u, v, m, w
  <2>3. P * u <= w /\ P * v <= m
    BY <1>9, <1>11 DEF u, v
  <2>4. P * u + P * v <= 3 * w
    <3>1. P * u \in Int /\ P * v \in Int
      BY <1>1, <1>12
    <3> QED  BY <1>7, <1>10, <1>12, <2>1, <2>2, <2>3, <3>1
  <2>5. 3 * w <= 3 * (A * U) /\ A * U \in Nat
    BY <1>1, <1>10
  <2>6. (P - 3 * A) * U \in Nat \ {0} /\ P * U = 3 * (A * U) + (P - 3 * A) * U
    BY <1>1
  <2>7. P * (u + v) = P * u + P * v /\ P * (u + v) \in Nat /\ P * U \in Nat
    BY <1>1, <1>12
  <2>8. P * (u + v) < P * U
    BY <1>10, <2>4, <2>5, <2>6, <2>7
  <2> SUFFICES ASSUME U <= u + v PROVE FALSE
    BY <1>1, <1>12
  <2>9. P * (u + v - U) \in Nat /\ P * (u + v) = P * U + P * (u + v - U)
    BY <1>1, <1>12
  <2> QED  BY <2>7, <2>8, <2>9
<1>14. w - U < t /\ t < w + U
  <2> HIDE DEF m, w
  <2> QED  BY <1>1, <1>7, <1>8, <1>10, <1>12, <1>13 DEF Distance
<1>15. (x - 1) * U = w - U /\ (x + 1) * U = w + U
  BY <1>1, <1>3
<1>16. ASSUME p \in {0, 100}
       PROVE  t = w
  <2>1. CASE p = 0
    <3>1. e = 0 /\ w = 0
      BY <1>1, <1>2, <2>1
    <3>2. q = 0
      BY <1>1, <1>4, <3>1, RoundBounds DEF LossQuotient, q, U
    <3>3. m = 0
      BY <1>1, <3>2
    <3> HIDE DEF w, m
    <3> QED  BY <1>1, <1>4, <1>5, <3>1, <3>3, RoundBounds
  <2>2. CASE p = 100
    <3>1. e = 100 * U /\ w = A * U
      BY <1>1, <1>2, <2>2
    <3>2. q = U
      <4>1. q = Round(Floats, e, 100)
        BY DEF LossQuotient, q, U
      <4> HIDE DEF e, q, w
      <4> QED  BY <1>1, <1>4, <3>1, <4>1, RoundBounds
    <3>3. m = A * U /\ 1 * (A * U) = m
      BY <1>1, <3>2
    <3> HIDE DEF w, m
    <3> QED  BY <1>1, <1>4, <1>5, <1>7, <3>1, <3>3, RoundBounds
  <2> QED  BY <1>16, <2>1, <2>2
<1> HIDE DEF x
<1> QED  BY <1>3, <1>8, <1>14, <1>15, <1>16 DEF x, t, h, A, U

\* How many of the draws lose a packet.
LEMMA LostDraws ==
  ASSUME NEW p \in Percentages
  PROVE  Cardinality({d \in LossDraws : p_emu_loss_check(p, d)})
           - p * (LossAccuracy \div 100) \in IF p \in {0, 100} THEN {0} ELSE {0, 1}
<1> DEFINE U == FloatUnit
           A == LossAccuracy
           x == p * (A \div 100)
           t == LossThreshold[p]
           L == {d \in LossDraws : p_emu_loss_check(p, d)}
<1>1. U \in Nat \ {0} /\ A \in Nat \ {0} /\ p \in 0..100 /\ A % 100 = 0
  BY DrawAssumption
<1>2. /\ x \in Nat /\ x <= A /\ t \in Nat
      /\ (x - 1) * U < t /\ t < (x + 1) * U
      /\ p \in {0, 100} => t = x * U
  BY ThresholdIs
<1>3. p # 100 => x < A
  <2> DEFINE h == A \div 100
  <2>1. h \in Nat \ {0} /\ A = 100 * h
    <3> HIDE DEF A
    <3> QED  BY <1>1
  <2> HIDE DEF h
  <2> SUFFICES ASSUME p # 100 PROVE p * h < 100 * h
    BY <2>1 DEF h
  <2>2. (100 - p) * h \in Nat \ {0} /\ 100 * h = p * h + (100 - p) * h
    BY <1>1, <2>1
  <2> QED  BY <1>1, <2>1, <2>2
<1>4. L = {d \in 0..A : d * U < t}
  BY DEF LossDraws, p_emu_loss_check
<1> HIDE DEF t, x, U, A, L
<1>5. \A d \in 0..A : /\ d <= x - 1 => d * U < t
                      /\ d * U < t => d <= x
  <2> SUFFICES ASSUME NEW d \in 0..A
               PROVE  (d <= x - 1 => d * U < t) /\ (d * U < t => d <= x)
    OBVIOUS
  <2>1. ASSUME d <= x - 1
        PROVE  d * U < t
    <3>1. (x - 1 - d) * U \in Nat /\ (x - 1) * U = d * U + (x - 1 - d) * U
      BY <1>1, <1>2, <2>1
    <3>2. d * U \in Nat /\ (x - 1) * U \in Int
      BY <1>1, <1>2
    <3> QED  BY <1>2, <3>1, <3>2
  <2>2. ASSUME d >= x + 1
        PROVE  ~(d * U < t)
    <3>1. (d - (x + 1)) * U \in Nat /\ d * U = (x + 1) * U + (d - (x + 1)) * U
      BY <1>1, <1>2, <2>2
    <3>2. d * U \in Nat /\ (x + 1) * U \in Int
      BY <1>1, <1>2
    <3> QED  BY <1>2, <3>1, <3>2
  <2> QED  BY <1>2, <2>1, <2>2
<1>6. CASE x * U < t
  <2>1. p \notin {0, 100}
    BY <1>1, <1>2, <1>6
  <2>2. x < A
    BY <1>3, <2>1
  <2>3. L = 0..x
    BY <1>1, <1>2, <1>4, <1>5, <1>6, <2>2
  <2>4. Cardinality(0..x) = x + 1
    <3>1. Cardinality(0..x) = IF 0 > x THEN 0 ELSE x - 0 + 1
      BY <1>2, FS_Interval
    <3> QED  BY <1>2, <3>1
  <2>5. Cardinality(L) - x = 1
    BY <1>2, <2>3, <2>4
  <2> QED  BY <2>1, <2>5 DEF L, x, A
<1>7. CASE ~(x * U < t)
  <2>1. L = 0..(x - 1)
    BY <1>1, <1>2, <1>4, <1>5, <1>7
  <2>2. Cardinality(0..(x - 1)) = x
    <3>1. Cardinality(0..(x - 1)) = IF 0 > x - 1 THEN 0 ELSE (x - 1) - 0 + 1
      BY <1>2, FS_Interval
    <3> QED  BY <1>2, <3>1
  <2>3. Cardinality(L) - x = 0
    BY <1>2, <2>1, <2>2
  <2> QED  BY <2>3 DEF L, x, A
<1> QED  BY <1>6, <1>7

\* The share of packets a stream loses is the one its last loss_per line asks for, to
\* the one draw that the rounding may add, whatever the files say of other streams
\* and however often the stream is named.
THEOREM LossAsWrittenHolds == ConfigSpec => []LossAsWritten
<1>1. ConfigInv => LossAsWritten
  <2> SUFFICES ASSUME ConfigInv, NEW k \in Distinct
               PROVE  LET p    == IF About(streams[k].name, {"loss_per"}) = {} THEN 0
                                  ELSE LastAbout(streams[k].name, {"loss_per"}).percentage
                          lost == Cardinality({d \in LossDraws :
                                                 p_emu_loss_check(streams[k].loss, d)})
                      IN  lost - p * (LossAccuracy \div 100)
                            \in IF p \in {0, 100} THEN {0} ELSE {0, 1}
    BY DEF LossAsWritten
  <2> DEFINE about == About(streams[k].name, {"loss_per"})
             p     == IF about = {} THEN 0
                      ELSE LastAbout(streams[k].name, {"loss_per"}).percentage
  <2>1. k \in 1..Len(streams) /\ about = AboutIn(streams, read, k, {"loss_per"})
    BY AboutIsGiven
  <2>2. LossFits(streams, read, k)
    BY <2>1 DEF ConfigInv, Consistent, Fits
  <2>3. streams[k].loss = p /\ p \in Percentages
    <3>1. CASE about = {}
      BY <2>1, <2>2, <3>1, DrawAssumption DEF LossFits
    <3>2. CASE about # {}
      <4>1. /\ IsLast(about, Max(about)) /\ read[Max(about)].cmd = "loss_per"
            /\ read[Max(about)] \in Lines
        <5>1. "Stream" \notin {"loss_per"} /\ "file" \notin {"loss_per"}
          OBVIOUS
        <5> QED  BY <3>2, <5>1, LastOfAbout
      <4>2. streams[k].loss = read[Max(about)].percentage
        BY <2>1, <2>2, <4>1 DEF LossFits
      <4>3. read[Max(about)].percentage \in Percentages
        BY <4>1, ConfigAssumption
      <4> QED  BY <3>2, <4>2, <4>3 DEF LastAbout
    <3> QED  BY <3>1, <3>2
  <2> HIDE DEF p
  <2>4. Cardinality({d \in LossDraws : p_emu_loss_check(p, d)})
          - p * (LossAccuracy \div 100) \in IF p \in {0, 100} THEN {0} ELSE {0, 1}
    BY <2>3, LostDraws
  <2> QED  BY <2>3, <2>4 DEF p
<1> QED  BY <1>1, ConfigInvInit, ConfigInvStep, PTL DEF ConfigSpec

-----------------------------------------------------------------------------
(* Interfaces                                                              *)

\* A name in a buffer ends at the first terminator.
LEMMA NameEnds ==
  ASSUME NEW m \in Nat, NEW buf, IsBuffer(buf, m),
         NEW k \in 1..m, buf[k] = Nul,
         \A j \in 1..m : j < k => buf[j] # Nul
  PROVE  /\ Len(NameIn(buf)) = k - 1
         /\ \A j \in 1..(k - 1) : NameIn(buf)[j] = buf[j]
         /\ \E S : NameIn(buf) \in Seq(S)
<1> DEFINE S == {buf[j] : j \in 1..m}
           T == {i \in 1..Len(buf) : buf[i] = Nul}
           e == IF T # {} THEN Min(T) ELSE 0
<1>1. buf \in Seq(S) /\ Len(buf) = m
  <2>1. buf = [j \in 1..m |-> buf[j]] /\ \A j \in 1..m : buf[j] \in S
    BY DEF IsBuffer
  <2> HIDE DEF S
  <2> QED  BY <2>1
<1>2. NameIn(buf) = IF e = 0 THEN buf ELSE SubSeq(buf, 1, e - 1)
  BY DEF NameIn, SelectInSeq
<1>3. k \in T /\ T \in SUBSET Nat /\ \A j \in T : k <= j
  BY <1>1
<1> HIDE DEF T
<1>4. e = k /\ k # 0
  BY <1>3, MinIs
<1> HIDE DEF e, S
<1>5. NameIn(buf) = SubSeq(buf, 1, k - 1)
  BY <1>2, <1>4
<1>6. /\ Len(NameIn(buf)) = k - 1
      /\ \A j \in 1..(k - 1) : NameIn(buf)[j] = buf[j]
      /\ NameIn(buf) \in Seq(S)
  BY <1>1, <1>5
<1> QED  BY <1>6

\* The bytes of a line that has not overrun are bytes of config, and its name has no
\* terminator.
LEMMA IfaceLine ==
  ASSUME NEW l \in Lines, l.cmd \in Ifaces
  PROVE  /\ Len(l.iface) \in Nat /\ l.iface \in Seq(ToSet(l.iface))
         /\ \A j \in 1..Len(l.iface) : l.iface[j] # Nul
         /\ StartOf(l.cmd) \in Nat /\ StartOf(l.cmd) <= ConfigLen /\ ConfigLen \in Nat
         /\ \A c \in Int : Touches(l, c) => c \in Cells(l)
         /\ ~Overruns(l) => StartOf(l.cmd) + Len(l.iface) + 2 <= ConfigLen
<1> DEFINE w == l.iface
           T == ToSet(w)
           n == Len(w)
           s == StartOf(l.cmd)
<1>1. w \in Seq(T) /\ Nul \notin T
  BY ConfigAssumption DEF Ifaces
<1>2. n \in Nat /\ \A j \in 1..n : w[j] # Nul
  <2> HIDE DEF T, w
  <2> QED  BY <1>1
<1>3. s \in Nat /\ s <= ConfigLen /\ ConfigLen \in Nat
  BY ConfigAssumption DEF StartOf, ConfigLen, Ifaces
<1> HIDE DEF n, s, w, T
<1>4. \A c \in Int : Touches(l, c) => c \in Cells(l)
  BY <1>2, <1>3 DEF Touches, Cells, Letters, n, s, w
<1>5. ~Overruns(l) => s + n + 2 <= ConfigLen
  <2> SUFFICES ASSUME ~Overruns(l) PROVE s + n + 2 <= ConfigLen
    OBVIOUS
  <2>1. Cells(l) \subseteq 1..ConfigLen
    BY DEF Overruns
  <2>2. s + n + 2 \in Cells(l)
    BY <1>2, <1>3 DEF Cells, n, s, w
  <2> QED  BY <1>3, <2>1, <2>2
<1> QED  BY <1>1, <1>2, <1>3, <1>4, <1>5 DEF n, s, w, T

\* The interface a stream is opened on is the one its last line for that direction
\* names, whatever its length, unless a later line of the other direction wrote over
\* the name; since the terminator goes one place too far, one byte may follow: a
\* letter that some line has left there, or a byte of a descriptor.
THEOREM InterfaceAsWrittenHolds == ConfigSpec => []InterfaceAsWritten
<1>1. ConfigInv => InterfaceAsWritten
  <2> SUFFICES ASSUME ConfigInv, NEW k \in Distinct, NEW cmd \in Ifaces,
                      About(streams[k].name, {cmd}) # {},
                      \A i \in About(streams[k].name, Ifaces) :
                        i > Max(About(streams[k].name, {cmd}))
                        => Cells(read[i]) \cap Cells(LastAbout(streams[k].name, {cmd})) = {}
               PROVE  LET last  == LastAbout(streams[k].name, {cmd})
                          next  == StartOf(cmd) + Len(last.iface) + 1
                          shown == NameIn(SubSeq(streams[k].config, StartOf(cmd) + 1, ConfigLen))
                      IN  /\ IsPrefix(last.iface, shown)
                          /\ \/ Len(shown) = Len(last.iface)
                             \/ /\ Len(shown) = Len(last.iface) + 1
                                /\ \/ next \in Descriptors
                                   \/ \E i \in About(streams[k].name, Ifaces) :
                                        next \in Letters(read[i])
    BY DEF InterfaceAsWritten
  <2> DEFINE about  == About(streams[k].name, {cmd})
             ifaces == About(streams[k].name, Ifaces)
             i      == Max(about)
             last   == LastAbout(streams[k].name, {cmd})
             w      == last.iface
             n      == Len(w)
             s      == StartOf(cmd)
             config == streams[k].config
             m      == ConfigLen - s
             buf    == SubSeq(config, s + 1, ConfigLen)
             shown  == NameIn(buf)
  <2>1. /\ "Stream" \notin {cmd} /\ "file" \notin {cmd}
        /\ "Stream" \notin Ifaces /\ "file" \notin Ifaces
    BY DEF Ifaces
  <2>2. last = read[i] /\ last \in Lines /\ last.cmd = cmd /\ i \in about /\ i \in Nat
    <3>1. about # {} /\ last = read[i]
      BY DEF LastAbout
    <3>2. i \in about /\ \A j \in about : j \in Nat /\ read[j].cmd \in {cmd} /\ read[j] \in Lines
      <4> HIDE DEF i
      <4> QED  BY <2>1, LastOfAbout DEF i
    <3> HIDE DEF about, i, last
    <3> QED  BY <3>1, <3>2
  <2>3. i \in ifaces /\ \A j \in ifaces : j \in Nat /\ read[j] \in Lines /\ read[j].cmd \in Ifaces
    <3>1. i \in ifaces /\ ifaces # {}
      BY <2>2 DEF About
    <3> HIDE DEF i
    <3> QED  BY <2>1, <3>1, LastOfAbout
  <2>4. k \in 1..Len(streams) /\ ifaces = AboutIn(streams, read, k, Ifaces)
    BY AboutIsGiven
  <2>5. IfaceFits(streams, read, k) 
    BY <2>4 DEF ConfigInv, Consistent, Fits
  <2>6. /\ ~Overruns(last)
        /\ \A c \in 1..ConfigLen :
             config[c] # Nul => c \in Descriptors \/ \E j \in ifaces : c \in Letters(read[j])
        /\ \A c \in 1..ConfigLen :
             Touches(last, c) /\ (\A j \in ifaces : j > i => ~Touches(read[j], c))
             => config[c] = WrittenAt(last, c)
    BY <2>2, <2>3, <2>4, <2>5 DEF IfaceFits
  <2>7. \A j \in ifaces : j > i => Cells(read[j]) \cap Cells(last) = {}
    OBVIOUS
  <2> HIDE DEF i, last, about, ifaces, config
  <2>8. /\ n \in Nat /\ w \in Seq(ToSet(w)) /\ \A j \in 1..n : w[j] # Nul
        /\ s \in Nat /\ ConfigLen \in Nat /\ s + n + 2 <= ConfigLen
        /\ \A c \in Int : Touches(last, c) => c \in Cells(last)
    BY <2>2, <2>6, IfaceLine
  <2>9. \A c \in 1..ConfigLen : Touches(last, c) => config[c] = WrittenAt(last, c)
    <3> SUFFICES ASSUME NEW c \in 1..ConfigLen, Touches(last, c)
                 PROVE  config[c] = WrittenAt(last, c)
      OBVIOUS
    <3>1. c \in Int /\ c \in Cells(last)
      BY <2>8
    <3>2. ASSUME NEW j \in ifaces, j > i, Touches(read[j], c)
          PROVE  FALSE
      <4>1. c \in Cells(read[j])
        BY <2>3, <3>1, <3>2, IfaceLine
      <4> QED  BY <2>7, <3>1, <3>2, <4>1
    <3> QED  BY <2>6, <3>2
  <2> HIDE DEF s, n, w
  <2>10. IsBuffer(buf, m) /\ m \in Nat /\ \A j \in 1..m : buf[j] = config[s + j]
    <3>1. m \in Nat
      BY <2>8
    <3> DEFINE C == {config[c] : c \in 1..ConfigLen}
    <3>2. \A c \in 1..ConfigLen : config[c] \in C
      OBVIOUS
    <3>3. /\ s + 1 \in Int /\ ConfigLen \in Int /\ s + 1 <= ConfigLen
          /\ \A c \in (s + 1)..ConfigLen : c \in 1..ConfigLen
      BY <2>8
    <3> HIDE DEF C
    <3>4. /\ buf \in Seq(C) /\ Len(buf) = ConfigLen - (s + 1) + 1
          /\ \A j \in 1..(ConfigLen - (s + 1) + 1) : buf[j] = config[(s + 1) + j - 1]
      BY <3>2, <3>3, SubSeqProperties
    <3>5. m = ConfigLen - (s + 1) + 1 /\ \A j \in 1..m : (s + 1) + j - 1 = s + j
      BY <2>8
    <3> HIDE DEF buf, m
    <3> QED  BY <3>1, <3>4, <3>5 DEF IsBuffer
  <2> HIDE DEF buf
  <2> DEFINE letters == Letters(last)
  <2>11. letters = s + 1 .. s + n /\ StartOf(last.cmd) = s /\ Len(last.iface) = n
    BY <2>2 DEF Letters, s, n, w
  <2> HIDE DEF letters
  <2>12. /\ n + 2 <= m
         /\ \A j \in 1..n : buf[j] = w[j]
         /\ buf[n + 2] = Nul
    <3>1. n + 2 <= m
      BY <2>8
    <3>2. ASSUME NEW j \in 1..n
          PROVE  buf[j] = w[j]
      <4>1. /\ j \in 1..m /\ s + j \in 1..ConfigLen /\ s + j \in letters
            /\ (s + j) - s = j
        BY <2>8, <2>11, <3>1
      <4>2. config[s + j] = w[j]
        BY <2>9, <2>11, <4>1 DEF Touches, WrittenAt, letters, w
      <4> QED  BY <2>10, <4>1, <4>2
    <3>3. buf[n + 2] = Nul
      <4>1. /\ n + 2 \in 1..m /\ s + (n + 2) \in 1..ConfigLen /\ s + (n + 2) \notin letters
            /\ s + (n + 2) = s + n + 2
        BY <2>8, <2>11, <3>1
      <4>2. config[s + (n + 2)] = Nul
        BY <2>9, <2>11, <4>1 DEF Touches, WrittenAt, letters
      <4> QED  BY <2>10, <4>1, <4>2
    <3> QED  BY <3>1, <3>2, <3>3
  <2>13. PICK e \in {n + 1, n + 2} :
           /\ buf[e] = Nul
           /\ \A j \in 1..m : j < e => buf[j] # Nul
           /\ e = n + 2 => buf[n + 1] # Nul
    <3>1. CASE buf[n + 1] = Nul
      BY <2>8, <2>12, <3>1
    <3>2. CASE buf[n + 1] # Nul
      BY <2>8, <2>12, <3>2
    <3> QED  BY <3>1, <3>2
  <2>14. e \in 1..m
    BY <2>8, <2>12
  <2>15. /\ Len(shown) = e - 1 /\ \A j \in 1..(e - 1) : shown[j] = buf[j]
         /\ \E S : shown \in Seq(S)
    <3>1. buf[e] = Nul /\ \A j \in 1..m : j < e => buf[j] # Nul
      BY <2>13
    <3> HIDE DEF m
    <3> QED  BY <2>10, <2>14, <3>1, NameEnds
  <2>16. IsPrefix(w, shown)
    <3> DEFINE U == ToSet(w)
    <3>0. PICK V : shown \in Seq(V)
      BY <2>15
    <3>1. w \in Seq(U) /\ shown \in Seq(V) /\ Len(w) = n
      BY <2>8, <3>0 DEF n
    <3>2. n <= Len(shown) /\ \A j \in 1..n : w[j] = shown[j]
      BY <2>8, <2>12, <2>13, <2>15
    <3> HIDE DEF U, shown
    <3>3. SubSeq(w, 1, n) = SubSeq(shown, 1, n)
      BY <2>8, <3>1, <3>2 DEF SubSeq
    <3> QED  BY <3>1, <3>2, <3>3 DEF IsPrefix
  <2>17. \/ Len(shown) = n
         \/ /\ Len(shown) = n + 1
            /\ s + n + 1 \in Descriptors \/ \E j \in ifaces : s + n + 1 \in Letters(read[j])
    <3> HIDE DEF shown
    <3>1. CASE e = n + 1
      BY <2>8, <2>15, <3>1
    <3>2. CASE e = n + 2
      <4>1. /\ n + 1 \in 1..m /\ s + (n + 1) = s + n + 1 /\ s + n + 1 \in 1..ConfigLen
            /\ buf[n + 1] # Nul /\ Len(shown) = n + 1
        BY <2>8, <2>12, <2>13, <2>15, <3>2
      <4>2. config[s + n + 1] # Nul
        BY <2>10, <4>1
      <4> QED  BY <2>6, <4>1, <4>2
    <3> QED  BY <3>1, <3>2
  <2> QED  BY <2>16, <2>17 DEF n, s, w, buf, config, ifaces, last
<1> QED  BY <1>1, ConfigInvInit, ConfigInvStep, PTL DEF ConfigSpec

-----------------------------------------------------------------------------
(* Delays                                                                  *)

\* getInteger finds what the line gives the parameter, unless another one is taken
\* for it.
LEMMA IntegerWritten ==
  ASSUME NEW args \in Seq([param : STRING, value : Int]), NEW param, param # "sec"
  PROVE  /\ Written(args, param) \in Int
         /\ \/ getInteger(args, param) = Written(args, param)
            \/ getInteger(args, param) = -1 /\ Written(args, param) = 0
<1> DEFINE T == {i \in 1..Len(args) : args[i].param = param}
           U == {i \in 1..Len(args) : args[i].param \in FoundAs(param)}
           k == IF T # {} THEN Min(T) ELSE 0
           m == IF U # {} THEN Min(U) ELSE 0
<1>1. /\ Written(args, param) = IF k = 0 THEN 0 ELSE args[k].value
      /\ getInteger(args, param) = IF m = 0 THEN -1 ELSE args[m].value
  BY DEF Written, getInteger, SelectInSeq
<1>2. T = U
  BY DEF FoundAs
<1>3. ASSUME T # {}
      PROVE  args[Min(T)].value \in Int
  <2>1. T \in SUBSET (1..Len(args)) /\ T \in SUBSET Nat
    OBVIOUS
  <2> HIDE DEF T
  <2>2. PICK x \in T : \A y \in T : x <= y
    BY <1>3, <2>1, LeastElement
  <2>3. Min(T) = x
    BY <2>1, <2>2, MinIs
  <2> DEFINE V == [param : STRING, value : Int]
  <2>4. args \in Seq(V)
    OBVIOUS
  <2> HIDE DEF V
  <2>5. args[x] \in V
    BY <2>1, <2>2, <2>4
  <2> QED  BY <2>3, <2>5 DEF V
<1> HIDE DEF T, U
<1>4. k = m
  BY <1>2
<1>5. CASE k = 0
  BY <1>1, <1>4, <1>5
<1>6. CASE k # 0
  <2>1. T # {} /\ k = Min(T)
    BY <1>6
  <2> QED  BY <1>1, <1>3, <1>4, <1>6, <2>1
<1> QED  BY <1>5, <1>6

\* The first argument of a line is found by its name.
LEMMA FirstArgument ==
  ASSUME NEW args \in Seq([param : STRING, value : Int]), args # << >>
  PROVE  LET param == args[1].param
         IN  /\ getInteger(args, param) = args[1].value
             /\ Written(args, param) = args[1].value
             /\ args[1].value \in Int
<1> DEFINE param == args[1].param
           T == {i \in 1..Len(args) : args[i].param = param}
           U == {i \in 1..Len(args) : args[i].param \in FoundAs(param)}
           k == IF T # {} THEN Min(T) ELSE 0
           m == IF U # {} THEN Min(U) ELSE 0
           V == [param : STRING, value : Int]
<1>1. /\ Written(args, param) = IF k = 0 THEN 0 ELSE args[k].value
      /\ getInteger(args, param) = IF m = 0 THEN -1 ELSE args[m].value
  BY DEF Written, getInteger, SelectInSeq
<1>2. param \in FoundAs(param)
  BY DEF FoundAs
<1>3. args \in Seq(V)
  OBVIOUS
<1>4. 1 \in 1..Len(args) /\ args[1] \in V
  <2> HIDE DEF V
  <2> QED  BY <1>3
<1>5. /\ 1 \in T /\ T \in SUBSET Nat /\ \A j \in T : 1 <= j
      /\ 1 \in U /\ U \in SUBSET Nat /\ \A j \in U : 1 <= j
  BY <1>2, <1>4
<1> HIDE DEF T, U
<1>6. k = 1 /\ m = 1
  BY <1>5, MinIs
<1> HIDE DEF k, m
<1> QED  BY <1>1, <1>4, <1>6

\* The delay of a stream is made by the last line about it, and of no static delay if
\* there is no earlier static_delay line.
LEMMA DelayOfStream ==
  ASSUME ConfigInv, NEW k \in Distinct, About(streams[k].name, {"delay"}) # {}
  PROVE  LET about == About(streams[k].name, {"delay"})
             last  == LastAbout(streams[k].name, {"delay"})
         IN  /\ last \in Lines /\ last.cmd = "delay"
             /\ \E old : /\ IsDelay(old)
                         /\ streams[k].delay = import_delay(old, last.kind, last.args)
                         /\ (\A j \in about : j # Max(about) => read[j].kind # "static")
                            => old.set["static"] = Unset
<1> DEFINE about == About(streams[k].name, {"delay"})
           i == Max(about)
<1>1. k \in 1..Len(streams) /\ about = AboutIn(streams, read, k, {"delay"})
  BY AboutIsGiven
<1>2. DelayFits(streams, read, k)
  BY <1>1 DEF ConfigInv, Consistent, Fits
<1>3. IsLast(about, i) /\ read[i] \in Lines /\ read[i].cmd = "delay"
  <2>1. "Stream" \notin {"delay"} /\ "file" \notin {"delay"}
    OBVIOUS
  <2> HIDE DEF i
  <2> QED  BY <2>1, LastOfAbout DEF i
<1>4. \E old : /\ IsDelay(old) /\ streams[k].delay = import_delay(old, read[i].kind, read[i].args)
               /\ (\A j \in about : j # i => read[j].kind # "static")
                  => old.set["static"] = Unset
  BY <1>1, <1>2, <1>3 DEF DelayFits
<1> QED  BY <1>3, <1>4 DEF LastAbout

\* The delay uniform makes of a draw keeps to the bounds but for one more, which the
\* highest draw gives; the lowest gives the lower bound.
LEMMA UniformBounds ==
  ASSUME NEW p, p.min \in Nat \ {0}, p.max \in Nat, p.min <= p.max, p.max < DoubleExact,
         NEW draw \in 0..RandMax
  PROVE  /\ uniform(p, draw) \in p.min..(p.max + 1)
         /\ draw = 0 => uniform(p, draw) = p.min
         /\ draw = RandMax => uniform(p, draw) = p.max + 1
<1> DEFINE U == FloatUnit
           R == RandMax
           D == Doubles
           w == p.max - p.min + 1
           low == p.min * U
           high == (p.max + 1) * U
           a == draw * U
           scaled == Round(D, a, R)
           b == w * scaled
           share == Round(D, b, 1)
           c == share + low
           v == Round(D, c, 1)
<1>1. /\ U \in Nat \ {0} /\ R \in Nat \ {0} /\ D \in SUBSET Nat
      /\ \A i \in 0..DoubleExact : i * U \in D
      /\ DoubleExact \in Nat
  BY DrawAssumption
<1>2. w \in 1..DoubleExact /\ w \in Nat /\ p.min \in 0..DoubleExact /\ p.max + 1 \in 0..DoubleExact
  BY <1>1
<1>3. 0 \in D /\ U \in D /\ w * U \in D /\ low \in D /\ high \in D
  <2>1. 0 * U = 0 /\ 1 * U = U /\ 0 \in 0..DoubleExact /\ 1 \in 0..DoubleExact
    BY <1>1, <1>2
  <2>2. w \in 0..DoubleExact
    BY <1>2
  <2> HIDE DEF w
  <2>3. 0 * U \in D /\ 1 * U \in D /\ w * U \in D
    BY <1>1, <2>1, <2>2
  <2> QED  BY <1>1, <1>2, <2>1, <2>3
<1>4. high = low + w * U /\ low \in Nat /\ high \in Nat /\ w * U \in Nat
  BY <1>1, <1>2
<1>5. uniform(p, draw) = v \div U
  BY DEF uniform
<1>6. /\ a \in Nat /\ a <= R * U
      /\ draw = 0 => a = 0
      /\ draw = R => a = R * U
  <2>1. (R - draw) * U \in Nat /\ R * U = draw * U + (R - draw) * U /\ draw * U \in Nat
    BY <1>1
  <2> QED  BY <1>1, <2>1
<1> HIDE DEF w, a, low, high
<1>7. /\ scaled \in Nat /\ scaled <= U
      /\ draw = 0 => scaled = 0
      /\ draw = R => scaled = U
  <2> HIDE DEF scaled, U, R, D
  <2>1. /\ scaled \in D
        /\ R * 0 <= a => 0 <= scaled
        /\ a <= R * U => scaled <= U
        /\ R * 0 = a => scaled = 0
        /\ R * U = a => scaled = U
    BY <1>1, <1>3, <1>6, RoundBounds DEF scaled
  <2> QED  BY <1>1, <1>6, <2>1
<1> HIDE DEF scaled
<1>8. /\ b \in Nat /\ b <= w * U
      /\ draw = 0 => b = 0
      /\ draw = R => b = w * U
  <2>1. w * (U - scaled) \in Nat /\ w * U = w * scaled + w * (U - scaled) /\ w * scaled \in Nat
    BY <1>1, <1>2, <1>7
  <2>2. w * 0 = 0
    BY <1>2
  <2> QED  BY <1>4, <1>7, <2>1, <2>2
<1> HIDE DEF b
<1>9. /\ share \in Nat /\ share <= w * U
      /\ draw = 0 => share = 0
      /\ draw = R => share = w * U
  <2> DEFINE z == w * U
  <2> HIDE DEF share, U, R, D, z
  <2>1. z \in D /\ z \in Nat /\ 1 * z = z /\ 1 * 0 = 0
    BY <1>3, <1>4 DEF z
  <2>2. /\ share \in D
        /\ b <= 1 * z => share <= z
        /\ 1 * 0 = b => share = 0
        /\ 1 * z = b => share = z
    BY <1>1, <1>3, <1>8, <2>1, RoundBounds DEF share
  <2>3. b <= z /\ (draw = 0 => b = 0) /\ (draw = R => b = z)
    BY <1>8 DEF z
  <2> QED  BY <1>1, <2>1, <2>2, <2>3 DEF z
<1> HIDE DEF share
<1>10. /\ c \in Nat /\ low <= c /\ c <= high
       /\ draw = 0 => c = low
       /\ draw = R => c = high
  <2> HIDE DEF U, R
  <2> QED  BY <1>4, <1>9
<1> HIDE DEF c
<1>11. /\ v \in Nat /\ low <= v /\ v <= high
       /\ draw = 0 => v = low
       /\ draw = R => v = high
  <2> HIDE DEF v, U, R, D
  <2>1. 1 * low = low /\ 1 * high = high
    BY <1>4
  <2>2. /\ v \in D
        /\ 1 * low <= c => low <= v
        /\ c <= 1 * high => v <= high
        /\ 1 * low = c => v = low
        /\ 1 * high = c => v = high
    BY <1>1, <1>3, <1>10, RoundBounds DEF v
  <2> QED  BY <1>1, <1>10, <2>1, <2>2
<1> HIDE DEF v
<1> DEFINE q == v \div U
<1>12. q \in Nat /\ U * q <= v /\ v < U * q + U
  <2> HIDE DEF U
  <2> QED  BY <1>1, <1>11
<1> HIDE DEF q
<1>13. \A i \in Nat : /\ i * U <= v => i <= q
                      /\ v <= i * U => q <= i
  <2> SUFFICES ASSUME NEW i \in Nat
               PROVE  (i * U <= v => i <= q) /\ (v <= i * U => q <= i)
    OBVIOUS
  <2> HIDE DEF U
  <2>1. ASSUME q + 1 <= i
        PROVE  v < i * U
    <3>1. (i - q - 1) * U \in Nat /\ i * U = U * q + U + (i - q - 1) * U /\ U * q \in Nat
      BY <1>1, <1>12, <2>1
    <3> QED  BY <1>1, <1>11, <1>12, <3>1
  <2>2. ASSUME i + 1 <= q
        PROVE  i * U < v
    <3>1. (q - i - 1) * U \in Nat /\ U * q = i * U + U + (q - i - 1) * U /\ i * U \in Nat
      BY <1>1, <1>12, <2>2
    <3> QED  BY <1>1, <1>11, <1>12, <3>1
  <2>3. i * U \in Nat
    BY <1>1
  <2> QED  BY <1>11, <1>12, <2>1, <2>2, <2>3
<1>14. p.min <= q /\ q <= p.max + 1
  BY <1>2, <1>11, <1>13 DEF low, high
<1>15. draw = 0 => q <= p.min
  BY <1>2, <1>11, <1>13 DEF low
<1>16. draw = R => p.max + 1 <= q
  BY <1>2, <1>11, <1>13 DEF high
<1> QED  BY <1>5, <1>12, <1>14, <1>15, <1>16 DEF q

\* The delays of a stream lie between the bounds its last uniform_delay line gives,
\* but for one microsecond more, which the highest draw always takes; and no other
\* kind of delay that the stream had before leaves a trace.
THEOREM UniformDelayAsWrittenHolds == ConfigSpec => []UniformDelayAsWritten
<1>1. ConfigInv => UniformDelayAsWritten
  <2> SUFFICES ASSUME ConfigInv, NEW k \in Distinct, About(streams[k].name, {"delay"}) # {}
               PROVE  LET last == LastAbout(streams[k].name, {"delay"})
                          min  == Written(last.args, "min")
                          max  == Written(last.args, "max")
                      IN  last.kind = "uniform" /\ 0 < min /\ min <= max /\ max < DoubleExact
                          => \A draw \in 0..RandMax :
                               LET delay == uniform(streams[k].delay.set.uniform, draw)
                               IN  /\ delay \in min..(max + 1)
                                   /\ draw = 0 => delay = min
                                   /\ draw = RandMax => delay = max + 1
    BY DEF UniformDelayAsWritten
  <2> DEFINE last == LastAbout(streams[k].name, {"delay"})
             min  == Written(last.args, "min")
             max  == Written(last.args, "max")
             set  == streams[k].delay.set["uniform"]
  <2> SUFFICES ASSUME last.kind = "uniform", 0 < min, min <= max, max < DoubleExact,
                      NEW draw \in 0..RandMax
               PROVE  LET delay == uniform(set, draw)
                      IN  /\ delay \in min..(max + 1)
                          /\ draw = 0 => delay = min
                          /\ draw = RandMax => delay = max + 1
    OBVIOUS
  <2>1. /\ last \in Lines /\ last.cmd = "delay"
        /\ \E old : IsDelay(old) /\ streams[k].delay = import_delay(old, last.kind, last.args)
    BY DelayOfStream
  <2>2. PICK old : /\ IsDelay(old)
                   /\ streams[k].delay = import_delay(old, last.kind, last.args)
    BY <2>1
  <2> HIDE DEF last
  <2>3. last.args \in Seq([param : STRING, value : Int])
    BY <2>1, ConfigAssumption
  <2>4. set = SetFields(old.set["uniform"], last.args)
    BY <2>2, Kinds DEF import_delay, IsDelay
  <2>5. /\ min \in Nat \ {0} /\ max \in Nat
        /\ getInteger(last.args, "min") = min /\ getInteger(last.args, "max") = max
    <3>1. /\ min \in Int /\ max \in Int
          /\ getInteger(last.args, "min") = min \/ min = 0
          /\ getInteger(last.args, "max") = max \/ max = 0
      BY <2>3, IntegerWritten
    <3> HIDE DEF min, max
    <3> QED  BY <3>1
  <2> HIDE DEF min, max, set
  <2>6. set["min"] = min /\ set["max"] = max
    <3>1. DOMAIN old.set["uniform"] = {"min", "max"}
      BY <2>2, Kinds DEF IsDelay
    <3>2. Takes("min", min) /\ Takes("max", max)
      BY <2>5 DEF Takes
    <3> QED  BY <2>4, <2>5, <3>1, <3>2 DEF SetFields
  <2> QED  BY <2>5, <2>6, UniformBounds
<1> QED  BY <1>1, ConfigInvInit, ConfigInvStep, PTL DEF ConfigSpec

\* Moving whole seconds changes no instant, and leaves nsec at most NsPerSec.
LEMMA NormaliseFacts ==
  ASSUME NEW s \in Nat, NEW n \in Nat
  PROVE  LET t == Normalise([sec |-> s, nsec |-> n])
         IN  /\ t.sec \in Nat /\ t.nsec \in 0..NsPerSec
             /\ t.sec * NsPerSec + t.nsec = s * NsPerSec + n
<1> DEFINE N == NsPerSec
           c == IF n > N THEN (n - 1) \div N ELSE 0
           t == Normalise([sec |-> s, nsec |-> n])
<1>1. N \in Nat \ {0}
  BY TimeUnits
<1>2. t.sec = s + c /\ t.nsec = n - c * N
  BY DEF Normalise, Carries
<1>3. c \in Nat /\ c * N \in Nat /\ n - c * N \in 0..N
  <2>1. CASE n > N
    <3> DEFINE q == (n - 1) \div N
    <3> HIDE DEF N
    <3>1. n - 1 \in Nat
      BY <1>1, <2>1
    <3>2. q \in Nat /\ N * q <= n - 1 /\ n - 1 < N * q + N
      BY <1>1, <3>1
    <3>3. c = q
      BY <2>1
    <3> HIDE DEF q, c
    <3> DEFINE p == N * q
    <3>4. p \in Nat /\ c * N = p /\ c \in Nat
      BY <1>1, <3>2, <3>3
    <3>5. p <= n - 1 /\ n - 1 < p + N
      BY <3>2
    <3> HIDE DEF p
    <3>6. n - p \in 0..N
      BY <1>1, <3>4, <3>5
    <3> QED  BY <3>4, <3>6
  <2>2. CASE ~(n > N)
    BY <1>1, <2>2
  <2> QED  BY <2>1, <2>2
<1> HIDE DEF c, N, t
<1>4. t.sec * N = s * N + c * N
  BY <1>1, <1>2, <1>3
<1>5. s * N \in Nat
  BY <1>1
<1>6. t.sec * N + t.nsec = s * N + n
  BY <1>2, <1>3, <1>4, <1>5
<1> QED  BY <1>2, <1>3, <1>6 DEF t, N

\* A static delay is added to the time of arrival to the nanosecond.
LEMMA StaticInstant ==
  ASSUME NEW s \in Nat, NEW ns \in Nat, NEW n \in Nat
  PROVE  LET set == Normalise([sec |-> s, nsec |-> ns])
         IN  Instant(p_emu_delay_calculate(n, set)) = n + s * NsPerSec + ns
<1> DEFINE set     == Normalise([sec |-> s, nsec |-> ns])
           arrival == clock_gettime(n)
           sec     == arrival.sec + set.sec
           nsec    == arrival.nsec + set.nsec
           leave   == p_emu_delay_calculate(n, set)
<1>1. /\ set.sec \in Nat /\ set.nsec \in 0..NsPerSec
      /\ set.sec * NsPerSec + set.nsec = s * NsPerSec + ns
  BY NormaliseFacts
<1> HIDE DEF set
<1>2. /\ arrival.sec \in Nat /\ arrival.nsec \in Nat
      /\ arrival.sec * NsPerSec + arrival.nsec = n
  BY TimeUnits DEF clock_gettime
<1> HIDE DEF arrival
<1>3. leave = Normalise([sec |-> sec, nsec |-> nsec])
  BY DEF p_emu_delay_calculate, arrival
<1>4. sec \in Nat /\ nsec \in Nat
  BY <1>1, <1>2, TimeUnits
<1>5. sec * NsPerSec + nsec = n + s * NsPerSec + ns
  <2> DEFINE x == arrival.sec * NsPerSec
             y == set.sec * NsPerSec
             z == s * NsPerSec
  <2>1. sec * NsPerSec = x + y
    BY <1>1, <1>2, TimeUnits
  <2>2. x \in Int /\ y \in Int /\ z \in Int
    BY <1>1, <1>2, TimeUnits
  <2>3. arrival.nsec \in Int /\ set.nsec \in Int
    BY <1>1, <1>2, TimeUnits
  <2>4. nsec = arrival.nsec + set.nsec
    OBVIOUS
  <2>5. x + arrival.nsec = n /\ y + set.nsec = z + ns
    BY <1>1, <1>2
  <2> HIDE DEF sec, nsec, x, y, z
  <2>6. (x + y) + (arrival.nsec + set.nsec) = n + z + ns
    BY <2>2, <2>3, <2>5
  <2>7. sec * NsPerSec + nsec = n + z + ns
    BY <2>1, <2>4, <2>6
  <2> QED  BY <2>7 DEF z
<1> HIDE DEF sec, nsec, leave
<1>6. /\ leave.sec \in Nat /\ leave.nsec \in 0..NsPerSec
      /\ leave.sec * NsPerSec + leave.nsec = sec * NsPerSec + nsec
  BY <1>3, <1>4, NormaliseFacts
<1>7. Instant(leave) = n + s * NsPerSec + ns
  BY <1>5, <1>6 DEF Instant
<1> QED  BY <1>7 DEF leave, set

\* Packets of a stream leave as late after their arrival as its last static_delay
\* line says, to the nanosecond; a value of zero, or none, leaves what an earlier such
\* line has set.
THEOREM StaticDelayAsWrittenHolds == ConfigSpec => []StaticDelayAsWritten
<1>1. ConfigInv => StaticDelayAsWritten
  <2> SUFFICES ASSUME ConfigInv, NEW k \in Distinct, About(streams[k].name, {"delay"}) # {}
               PROVE  LET about == About(streams[k].name, {"delay"})
                          last  == LastAbout(streams[k].name, {"delay"})
                          sec   == Written(last.args, "sec")
                          nsec  == Written(last.args, "nsec")
                      IN  /\ last.kind = "static" /\ last.args # << >>
                          /\ last.args[1].param = "sec" /\ sec >= 0 /\ nsec >= 0
                          /\ \/ sec > 0 /\ nsec > 0
                             \/ \A i \in about : i # Max(about) => read[i].kind # "static"
                          => \A n \in 0..(2 * NsPerSec) :
                               Instant(p_emu_delay_calculate(n, streams[k].delay.set.static))
                                 = n + sec * NsPerSec + nsec
    BY DEF StaticDelayAsWritten
  <2> DEFINE about == About(streams[k].name, {"delay"})
             last  == LastAbout(streams[k].name, {"delay"})
             args  == last.args
             s     == Written(args, "sec")
             ns    == Written(args, "nsec")
             only  == \A i \in about : i # Max(about) => read[i].kind # "static"
             set   == streams[k].delay.set["static"]
  <2> SUFFICES ASSUME last.kind = "static", args # << >>, args[1].param = "sec",
                      s >= 0, ns >= 0, (s > 0 /\ ns > 0) \/ only,
                      NEW n \in 0..(2 * NsPerSec)
               PROVE  Instant(p_emu_delay_calculate(n, set)) = n + s * NsPerSec + ns
    OBVIOUS
  <2>1. /\ last \in Lines /\ last.cmd = "delay"
        /\ \E old : /\ IsDelay(old) /\ streams[k].delay = import_delay(old, last.kind, last.args)
                    /\ only => old.set["static"] = Unset
    BY DelayOfStream
  <2>2. PICK old : /\ IsDelay(old) /\ streams[k].delay = import_delay(old, last.kind, last.args)
                   /\ only => old.set["static"] = Unset
    BY <2>1
  <2> HIDE DEF last, only
  <2>3. args \in Seq([param : STRING, value : Int])
    BY <2>1, ConfigAssumption
  <2>4. getInteger(args, "sec") = s /\ s \in Int
    BY <2>3, FirstArgument
  <2>5. /\ s \in Nat /\ ns \in Nat
        /\ \/ getInteger(args, "nsec") = ns
           \/ getInteger(args, "nsec") = -1 /\ ns = 0
    <3>1. /\ ns \in Int
          /\ \/ getInteger(args, "nsec") = ns
             \/ getInteger(args, "nsec") = -1 /\ ns = 0
      <4> HIDE DEF args
      <4>1. "nsec" # "sec"
        OBVIOUS
      <4> QED  BY <2>3, <4>1, IntegerWritten
    <3> HIDE DEF args, s, ns
    <3> QED  BY <2>4, <3>1
  <2> DEFINE new == SetFields(old.set["static"], args)
  <2>6. set = Normalise(new)
    BY <2>2, Kinds DEF import_delay, IsDelay
  <2>7. new.sec = s /\ new.nsec = ns
    <3>1. DOMAIN old.set["static"] = {"sec", "nsec"}
      BY <2>2, Kinds DEF IsDelay
    <3>2. only => old.set["static"].sec = 0 /\ old.set["static"].nsec = 0
      <4>1. Unset.sec = 0 /\ Unset.nsec = 0
        BY Kinds DEF Unset, NoDelay
      <4> QED  BY <2>2, <4>1
    <3> HIDE DEF args, s, ns
    <3>3. /\ new.sec = IF s > 0 THEN s ELSE old.set["static"].sec
          /\ new.nsec = IF getInteger(args, "nsec") > 0 THEN getInteger(args, "nsec")
                        ELSE old.set["static"].nsec
      BY <2>4, <3>1 DEF SetFields, Takes
    <3> HIDE DEF new
    <3>4. CASE s > 0 /\ ns > 0
      BY <2>5, <3>3, <3>4
    <3>5. CASE only
      BY <2>5, <3>2, <3>3, <3>5
    <3> QED  BY <3>4, <3>5
  <2> HIDE DEF args, s, ns, set, new
  <2>8. set = Normalise([sec |-> s, nsec |-> ns])
    BY <2>6, <2>7 DEF Normalise
  <2>9. n \in Nat
    BY TimeUnits
  <2> QED  BY <2>5, <2>8, <2>9, StaticInstant
<1> QED  BY <1>1, ConfigInvInit, ConfigInvStep, PTL DEF ConfigSpec

-----------------------------------------------------------------------------
(* The filter of the first stream is the one of module Filter              *)

\* The places of a set up to its n-th; the address lines at the places of A.
Upto(A, n) == {i \in A : Cardinality({j \in A : j < i}) < n}

AddressLine(l) == [kind |-> IF l.cmd = "src_mac" THEN "src" ELSE "dst", addr |-> l.addr]

LinesOf(rr, A) == [n \in 1..Cardinality(A) |-> AddressLine(rr[Max(Upto(A, n))])]

Addressing == {"src_mac", "dst_mac"}

AddressesOf(ss, rr) == LinesOf(rr, AboutIn(ss, rr, 1, Addressing))

\* The first stream is found by the names that begin with its own.
LEMMA FirstIsFound ==
  ASSUME NEW S, NEW ss \in Seq(S), NEW name
  PROVE  FirstNamed(ss, name) = 1 <=> ss # << >> /\ IsPrefix(ss[1].name, name)
<1>1. Len(ss) \in Nat
  OBVIOUS
<1>2. CASE ss = << >>
  <2>1. Len(ss) = 0
    BY <1>2
  <2>2. FirstNamed(ss, name) \in 0..0
    BY <2>1, FirstNamedFacts
  <2> QED  BY <1>2, <2>2
<1>3. CASE ss # << >>
  <2>1. 1 \in 1..Len(ss) /\ \A j \in 1..Len(ss) : ~(j < 1)
    BY <1>3
  <2>2. FirstNamed(ss, name) = 1 => IsPrefix(ss[1].name, name)
    <3> DEFINE k == FirstNamed(ss, name)
    <3>1. k # 0 => IsPrefix(ss[k].name, name)
      BY <1>1, FirstNamedFacts
    <3> HIDE DEF k
    <3> SUFFICES k = 1 => IsPrefix(ss[1].name, name)
      BY DEF k
    <3> QED  BY <3>1
  <2>3. IsPrefix(ss[1].name, name) => FirstNamed(ss, name) = 1
    BY <1>1, <2>1, FirstNamedIs
  <2> QED  BY <1>3, <2>2, <2>3
<1> QED  BY <1>2, <1>3

\* The address lines depend on the list and the lines alone.
LEMMA AddressLinesIs == ConfigInv => AddressLines = AddressesOf(streams, read)
<1> SUFFICES ASSUME ConfigInv PROVE AddressLines = AddressesOf(streams, read)
  OBVIOUS
<1>1. DOMAIN read = 1..Len(read)
  BY DEF ConfigInv, Consistent
<1>2. PICK S : streams \in Seq(S)
  BY DEF ConfigInv, Consistent
<1> DEFINE about == {i \in DOMAIN read :
                      /\ read[i].cmd \in {"src_mac", "dst_mac"} /\ streams # << >>
                      /\ Mark(i) # 0 /\ read[Mark(i)].cmd = "Stream"
                      /\ IsPrefix(streams[1].name, read[Mark(i)].name)}
<1>3. ASSUME NEW i \in DOMAIN read
      PROVE  /\ streams # << >> /\ Mark(i) # 0 /\ read[Mark(i)].cmd = "Stream"
             /\ IsPrefix(streams[1].name, read[Mark(i)].name)
             <=> SubjectIn(streams, read, i) = 1
  <2>1. Mark(i) # 0 => read[Mark(i)].cmd \in {"Stream", "file"}
    BY MarkIs
  <2>2. SubjectIn(streams, read, i) =
          IF Mark(i) = 0 \/ read[Mark(i)].cmd = "file" THEN 0
          ELSE FirstNamed(streams, read[Mark(i)].name)
    BY MarkIs
  <2>3. FirstNamed(streams, read[Mark(i)].name) = 1
        <=> streams # << >> /\ IsPrefix(streams[1].name, read[Mark(i)].name)
    BY <1>2, FirstIsFound
  <2> QED  BY <2>1, <2>2, <2>3
<1>4. about = AboutIn(streams, read, 1, Addressing)
  BY <1>1, <1>3 DEF AboutIn, Addressing
<1>5. AddressLines = LinesOf(read, about)
  BY DEF AddressLines, LinesOf, Upto, AddressLine
<1> QED  BY <1>4, <1>5 DEF AddressesOf

\* The same after a step.
LEMMA AddressLinesIsThen == (ConfigInv => AddressLines = AddressesOf(streams, read))'
  BY AddressLinesIs, PTL

\* The n-th place of a set is one of its places.
LEMMA PlaceInSet ==
  ASSUME NEW m \in Nat, NEW A \in SUBSET (1..m), NEW n \in 1..Cardinality(A)
  PROVE  Max(Upto(A, n)) \in A
<1>1. IsFiniteSet(1..m)
  BY FS_Interval
<1>2. IsFiniteSet(A)
  BY <1>1, FS_Subset
<1>3. A # {}
  BY <1>2, FS_EmptySet
<1>4. A \in SUBSET Nat
  OBVIOUS
<1>5. PICK x \in A : \A y \in A : x <= y
  BY <1>3, <1>4, LeastElement
<1>6. {j \in A : j < x} = {}
  <2>1. \A j \in A : ~(j < x)
    BY <1>4, <1>5
  <2> QED  BY <2>1
<1>7. x \in Upto(A, n)
  <2>1. Cardinality({j \in A : j < x}) = 0
    BY <1>6, FS_EmptySet
  <2> QED  BY <2>1 DEF Upto
<1>8. Upto(A, n) \in SUBSET A
  BY DEF Upto
<1>9. Upto(A, n) \in SUBSET (1..m) /\ Upto(A, n) # {}
  BY <1>7, <1>8
<1>10. Max(Upto(A, n)) \in Upto(A, n)
  BY <1>9, MaxExists
<1> QED  BY <1>8, <1>10

\* A place behind the others comes last and moves none of them.
LEMMA UptoGrows ==
  ASSUME NEW m \in Nat, NEW A \in SUBSET (1..m)
  PROVE  LET B == A \union {m + 1}
             c == Cardinality(A)
         IN  /\ c \in Nat /\ Cardinality(B) = c + 1
             /\ \A n \in 1..c : Upto(B, n) = Upto(A, n)
             /\ Max(Upto(B, c + 1)) = m + 1
<1> DEFINE B == A \union {m + 1}
           c == Cardinality(A)
<1>1. IsFiniteSet(1..m)
  BY FS_Interval
<1>2. IsFiniteSet(A)
  BY <1>1, FS_Subset
<1>3. c \in Nat
  BY <1>2, FS_CardinalityType
<1>4. Cardinality(B) = c + 1
  <2>1. m + 1 \notin A
    OBVIOUS
  <2> QED  BY <1>2, <2>1, FS_AddElement
<1>5. {j \in B : j < m + 1} = A
  <2>1. (\A j \in A : j < m + 1) /\ ~(m + 1 < m + 1)
    OBVIOUS
  <2> QED  BY <2>1
<1>6. \A i \in A : {j \in B : j < i} = {j \in A : j < i}
  OBVIOUS
<1>7. ASSUME NEW n \in 1..c
      PROVE  Upto(B, n) = Upto(A, n)
  <2>1. ~(Cardinality({j \in B : j < m + 1}) < n)
    BY <1>3, <1>5
  <2>2. \A i \in A : Cardinality({j \in B : j < i}) = Cardinality({j \in A : j < i})
    BY <1>6
  <2> QED  BY <2>1, <2>2 DEF Upto
<1>8. Max(Upto(B, c + 1)) = m + 1
  <2>1. Cardinality({j \in B : j < m + 1}) < c + 1
    BY <1>3, <1>5
  <2>2. m + 1 \in B /\ B \in SUBSET Nat /\ \A y \in B : y <= m + 1
    OBVIOUS
  <2> HIDE DEF B
  <2>3. m + 1 \in Upto(B, c + 1) /\ Upto(B, c + 1) \in SUBSET B
    BY <2>1, <2>2 DEF Upto
  <2>4. Upto(B, c + 1) \in SUBSET Nat /\ \A y \in Upto(B, c + 1) : y <= m + 1
    BY <2>2, <2>3
  <2> QED  BY <2>3, <2>4, MaxIs
<1> QED  BY <1>3, <1>4, <1>7, <1>8

\* A line that is not one of them leaves the address lines as they were.
LEMMA LinesSame ==
  ASSUME NEW S, NEW rr \in Seq(S), NEW x, NEW A \in SUBSET (1..Len(rr))
  PROVE  LinesOf(Append(rr, x), A) = LinesOf(rr, A)
<1> DEFINE qq == Append(rr, x)
<1>1. \A i \in 1..Len(rr) : qq[i] = rr[i]
  OBVIOUS
<1>2. Len(rr) \in Nat
  OBVIOUS
<1> HIDE DEF qq
<1>3. \A n \in 1..Cardinality(A) : qq[Max(Upto(A, n))] = rr[Max(Upto(A, n))]
  BY <1>1, <1>2, PlaceInSet
<1> QED  BY <1>3 DEF LinesOf, qq

\* One that is comes behind them.
LEMMA LinesGrow ==
  ASSUME NEW S, NEW rr \in Seq(S), NEW x, NEW A \in SUBSET (1..Len(rr))
  PROVE  LinesOf(Append(rr, x), A \union {Len(rr) + 1})
           = Append(LinesOf(rr, A), AddressLine(x))
<1> DEFINE qq == Append(rr, x)
           m  == Len(rr)
           B  == A \union {m + 1}
           c  == Cardinality(A)
<1>1. m \in Nat /\ (\A i \in 1..m : qq[i] = rr[i]) /\ qq[m + 1] = x
  OBVIOUS
<1>2. /\ c \in Nat /\ Cardinality(B) = c + 1
      /\ \A n \in 1..c : Upto(B, n) = Upto(A, n)
      /\ Max(Upto(B, c + 1)) = m + 1
  BY <1>1, UptoGrows
<1>3. \A n \in 1..c : Max(Upto(A, n)) \in A
  BY <1>1, PlaceInSet
<1> HIDE DEF qq, m, B, c
<1>4. \A n \in 1..c : qq[Max(Upto(B, n))] = rr[Max(Upto(A, n))]
  BY <1>1, <1>2, <1>3 DEF m
<1>5. qq[Max(Upto(B, c + 1))] = x
  BY <1>1, <1>2
<1> DEFINE old == LinesOf(rr, A)
           f(n) == AddressLine(rr[Max(Upto(A, n))])
           g(n) == AddressLine(qq[Max(Upto(B, n))])
           T    == {f(n) : n \in 1..c}
<1>6. old = [n \in 1..c |-> f(n)] /\ old \in Seq(T) /\ Len(old) = c
  <2>1. old = [n \in 1..c |-> f(n)]
    BY DEF LinesOf, c
  <2> HIDE DEF old, f
  <2> QED  BY <1>2, <2>1
<1>7. LinesOf(qq, B) = [n \in 1..(c + 1) |-> g(n)]
  BY <1>2 DEF LinesOf
<1>8. (\A n \in 1..c : g(n) = f(n)) /\ g(c + 1) = AddressLine(x)
  BY <1>4, <1>5
<1> HIDE DEF old, f, g
<1>9. Append(old, AddressLine(x))
        = [n \in 1..(c + 1) |-> IF n = c + 1 THEN AddressLine(x) ELSE old[n]]
  <2> DEFINE U == T \union {AddressLine(x)}
             s == Append(old, AddressLine(x))
  <2>1. old \in Seq(U) /\ AddressLine(x) \in U
    BY <1>6
  <2> HIDE DEF U, T
  <2>2. Len(s) = c + 1 /\ s \in Seq(U)
    BY <1>6, <2>1, AppendProperties
  <2>3. (\A n \in 1..c : s[n] = old[n]) /\ s[c + 1] = AddressLine(x)
    BY <1>6, <2>1, AppendProperties
  <2> HIDE DEF s
  <2>4. s = [n \in 1..(c + 1) |-> s[n]]
    BY <2>2
  <2>5. \A n \in 1..(c + 1) : s[n] = IF n = c + 1 THEN AddressLine(x) ELSE old[n]
    BY <1>2, <2>3
  <2> QED  BY <2>4, <2>5 DEF s
<1>10. \A n \in 1..(c + 1) : g(n) = IF n = c + 1 THEN AddressLine(x) ELSE old[n]
  BY <1>2, <1>6, <1>8
<1> QED  BY <1>7, <1>9, <1>10 DEF old, qq, m, B

\* The filter of the first stream.
FilterOf(ss) == IF ss = << >> THEN NoFilter ELSE ss[1].filter

\* A setting changes the filter as its address line says.
LEMMA ImportFilter ==
  ASSUME NEW st, IsStream(st), NEW l \in Lines, l.cmd # "Stream"
  PROVE  Import(st, l).filter = IF l.cmd = "src_mac" THEN import_src_mac(st.filter, l.addr)
                                ELSE IF l.cmd = "dst_mac" THEN import_dst_mac(st.filter, l.addr)
                                ELSE st.filter
<1> DEFINE new == Import(st, l)
<1>0. l.cmd \in {"src_mac", "dst_mac", "in_iface", "out_iface", "loss_per", "delay", "unknown"}
  BY ConfigAssumption
<1>1. CASE l.cmd = "src_mac"
  <2>1. new = [st EXCEPT !.filter = import_src_mac(st.filter, l.addr)]
    BY <1>1 DEF Import, Ifaces
  <2> HIDE DEF new
  <2> QED  BY <1>1, <2>1 DEF IsStream, new
<1>2. CASE l.cmd = "dst_mac"
  <2>1. new = [st EXCEPT !.filter = import_dst_mac(st.filter, l.addr)]
    BY <1>2 DEF Import, Ifaces
  <2> HIDE DEF new
  <2> QED  BY <1>2, <2>1 DEF IsStream, new
<1>3. CASE l.cmd \in Ifaces
  BY <1>3 DEF Import, IsStream, Ifaces
<1>4. CASE l.cmd = "loss_per"
  BY <1>4 DEF Import, IsStream, Ifaces
<1>5. CASE l.cmd = "delay"
  BY <1>5 DEF Import, IsStream, Ifaces
<1>6. CASE l.cmd = "unknown"
  BY <1>6 DEF Import, Ifaces
<1> QED  BY <1>0, <1>1, <1>2, <1>3, <1>4, <1>5, <1>6 DEF Ifaces

\* A line that is no address line about the first stream leaves its filter and its
\* address lines alone.
LEMMA FirstKept ==
  ASSUME NEW S, NEW rr \in Seq(S), NEW x, NEW ss, NEW tt,
         \A i \in 1..Len(rr) : SubjectIn(tt, rr, i) = SubjectIn(ss, rr, i),
         x.cmd \notin Addressing \/ SubjectIn(tt, rr, Len(rr)) # 1
  PROVE  AddressesOf(tt, Append(rr, x)) = AddressesOf(ss, rr)
<1>1. AboutIn(tt, Append(rr, x), 1, Addressing) = AboutIn(ss, rr, 1, Addressing)
  <2>1. "Stream" \notin Addressing /\ "file" \notin Addressing
    BY DEF Addressing
  <2> QED  BY <2>1, AboutGrows
<1>2. AboutIn(ss, rr, 1, Addressing) \in SUBSET (1..Len(rr))
  BY DEF AboutIn
<1> QED  BY <1>1, <1>2, LinesSame DEF AddressesOf

\* An address line about it is read as module Filter reads it.
LEMMA FirstReads ==
  ASSUME ConfigInv, NEW l \in Lines, Setting(l), current = 1, l.cmd \in Addressing
  PROVE  /\ Cardinality(AboutIn(streams, read, 1, Addressing)) < MaxLines
         /\ AddressesOf(streams', read')
              = Append(AddressesOf(streams, read), AddressLine(l))
         /\ FilterOf(streams') = Import(streams[1], l).filter
         /\ streams # << >>
<1> DEFINE E == Lines \union {[cmd |-> "file"]}
           A == AboutIn(streams, read, 1, Addressing)
           new == Import(streams[1], l)
<1>1. /\ main = "import" /\ l.cmd # "Stream"
      /\ Cardinality({i \in DOMAIN read : read[i].cmd # "file"}) < MaxLines
      /\ streams' = [streams EXCEPT ![1] = new] /\ read' = Append(read, l)
  BY DEF Setting, Reading
<1>2. /\ Consistent(streams, read) /\ 1 \in 1..Len(streams)
      /\ read # << >> /\ SubjectIn(streams, read, Len(read)) = 1
  BY <1>1 DEF ConfigInv
<1>3. PICK S : streams \in Seq(S)
  BY <1>2 DEF Consistent
<1>4. read \in Seq(E)
  BY <1>2 DEF Consistent
<1> HIDE DEF E
<1>5. Len(read) \in Nat \ {0} /\ DOMAIN read = 1..Len(read)
  BY <1>2, <1>4
<1>6. Cardinality(A) < MaxLines
  <2> DEFINE C == {i \in DOMAIN read : read[i].cmd # "file"}
  <2>1. IsFiniteSet(1..Len(read))
    BY <1>5, FS_Interval
  <2>2. IsFiniteSet(C)
    <3>1. C \subseteq 1..Len(read)
      BY <1>5
    <3> QED  BY <2>1, <3>1, FS_Subset
  <2>3. A \subseteq C
    BY <1>5 DEF AboutIn, Addressing
  <2> HIDE DEF A, C
  <2>4. Cardinality(A) \in Nat /\ Cardinality(C) \in Nat /\ Cardinality(A) <= Cardinality(C)
    BY <2>2, <2>3, FS_Subset, FS_CardinalityType
  <2>5. Cardinality(C) < MaxLines
    BY <1>1 DEF C
  <2> QED  BY <2>4, <2>5, ConfigAssumption
<1>7. /\ Len(streams) \in Nat /\ Len(streams') = Len(streams) /\ streams # << >>
      /\ streams'[1] = new /\ \A k \in 1..Len(streams) : k # 1 => streams'[k] = streams[k]
      /\ streams' # << >>
  <2> HIDE DEF new
  <2> QED  BY <1>1, <1>2, <1>3
<1>8. IsStream(streams[1]) /\ new.name = streams[1].name
  <2>1. IsStream(streams[1])
    BY <1>2 DEF Consistent
  <2> QED  BY <1>1, <2>1, ImportKeeps
<1>9. \A k \in 1..Len(streams) : streams'[k].name = streams[k].name
  BY <1>7, <1>8
<1>10. \A i \in 1..Len(read) : SubjectIn(streams', read, i) = SubjectIn(streams, read, i)
  BY <1>7, <1>9, SubjectSameNames
<1>11. AboutIn(streams', read', 1, Addressing) = A \union {Len(read) + 1}
  <2>1. "Stream" \notin Addressing /\ "file" \notin Addressing
    BY DEF Addressing
  <2>2. SubjectIn(streams', read, Len(read)) = 1
    BY <1>2, <1>5, <1>10
  <2>3. l.cmd \in Addressing
    OBVIOUS
  <2> HIDE DEF new
  <2>4. AboutIn(streams', Append(read, l), 1, Addressing) = A \union {Len(read) + 1}
    BY <1>4, <1>10, <2>1, <2>2, <2>3, AboutGrows
  <2> QED  BY <1>1, <2>4
<1>12. AddressesOf(streams', read') = Append(AddressesOf(streams, read), AddressLine(l))
  <2>1. A \in SUBSET (1..Len(read))
    BY DEF AboutIn
  <2> QED  BY <1>1, <1>4, <1>11, <2>1, LinesGrow DEF AddressesOf
<1> QED  BY <1>6, <1>7, <1>12 DEF FilterOf

\* What a step of the import does to the filter of the first stream and its
\* address lines: a line of module Filter, or nothing.
LEMMA FirstStep ==
  ASSUME ConfigInv, [ConfigNext]_configVars
  PROVE  \/ /\ FilterOf(streams') = FilterOf(streams)
            /\ AddressesOf(streams', read') = AddressesOf(streams, read)
         \/ \E l \in Lines :
              /\ l.cmd \in Addressing
              /\ Len(AddressesOf(streams, read)) < MaxLines
              /\ AddressesOf(streams', read')
                   = Append(AddressesOf(streams, read), AddressLine(l))
              /\ FilterOf(streams') = IF l.cmd = "src_mac"
                                      THEN import_src_mac(FilterOf(streams), l.addr)
                                      ELSE import_dst_mac(FilterOf(streams), l.addr)
<1> DEFINE E == Lines \union {[cmd |-> "file"]}
           Same == /\ FilterOf(streams') = FilterOf(streams)
                   /\ AddressesOf(streams', read') = AddressesOf(streams, read)
<1>1. Consistent(streams, read)
  BY DEF ConfigInv
<1>2. PICK S : streams \in Seq(S)
  BY <1>1 DEF Consistent
<1>3. read \in Seq(E)
  BY <1>1 DEF Consistent
<1> HIDE DEF E
<1>4. ASSUME NEW x, streams' = streams, read' = Append(read, x), x.cmd \in {"file", "Stream"}
      PROVE  Same
  <2>1. x.cmd \notin Addressing
    BY <1>4 DEF Addressing
  <2> QED  BY <1>3, <1>4, <2>1, FirstKept
<1>5. ASSUME streams' = streams, read' = read
      PROVE  Same
  BY <1>5
<1>6. ASSUME NEW l \in Lines, NEW result \in StreamInits, StreamNew(l, result)
      PROVE  Same
  <2> DEFINE st == p_emu_StreamInit(l.name, result)
  <2>1. streams' = Append(streams, st) /\ read' = Append(read, l) /\ l.cmd = "Stream"
    BY <1>6 DEF StreamNew, Reading
  <2>2. st.filter = NoFilter
    BY DEF p_emu_StreamInit, BlankStream
  <2> HIDE DEF st
  <2>3. \A i \in 1..Len(read) : SubjectIn(streams', read, i) = SubjectIn(streams, read, i)
    BY <1>1, <1>2, <1>3, <2>1, SubjectOneMore DEF Consistent
  <2>4. l.cmd \notin Addressing
    BY <2>1 DEF Addressing
  <2>5. AddressesOf(streams', read') = AddressesOf(streams, read)
    BY <1>3, <2>1, <2>3, <2>4, FirstKept
  <2>6. FilterOf(streams') = FilterOf(streams)
    <3>1. CASE streams = << >>
      <4>1. streams' # << >> /\ streams'[1] = st
        BY <2>1, <3>1
      <4> QED  BY <2>2, <3>1, <4>1 DEF FilterOf
    <3>2. CASE streams # << >>
      <4>1. streams' # << >> /\ streams'[1] = streams[1]
        BY <1>2, <2>1, <3>2
      <4> QED  BY <3>2, <4>1 DEF FilterOf
    <3> QED  BY <3>1, <3>2
  <2> QED  BY <2>5, <2>6
<1>7. ASSUME NEW l \in Lines, Setting(l), ~(current = 1 /\ l.cmd \in Addressing)
      PROVE  Same
  <2> DEFINE new == Import(streams[current], l)
  <2>1. /\ main = "import" /\ l.cmd # "Stream" /\ current # 0
        /\ streams' = [streams EXCEPT ![current] = new] /\ read' = Append(read, l)
    BY <1>7 DEF Setting, Reading
  <2>2. /\ current \in 1..Len(streams)
        /\ read # << >> /\ SubjectIn(streams, read, Len(read)) = current
    BY <2>1 DEF ConfigInv
  <2>3. IsStream(streams[current])
    BY <1>1, <2>2 DEF Consistent
  <2>4. /\ new.name = streams[current].name
        /\ l.cmd \notin Addressing => new.filter = streams[current].filter
    BY <2>1, <2>3, ImportKeeps, ImportFilter DEF Addressing
  <2> HIDE DEF new
  <2>5. /\ Len(streams) \in Nat /\ Len(streams') = Len(streams)
        /\ streams # << >> /\ streams' # << >>
        /\ \A k \in 1..Len(streams) : streams'[k] = IF k = current THEN new ELSE streams[k]
    BY <1>2, <2>1, <2>2
  <2>6. \A k \in 1..Len(streams) : streams'[k].name = streams[k].name
    BY <2>4, <2>5
  <2>7. \A i \in 1..Len(read) : SubjectIn(streams', read, i) = SubjectIn(streams, read, i)
    BY <2>5, <2>6, SubjectSameNames
  <2>8. l.cmd \notin Addressing \/ SubjectIn(streams', read, Len(read)) # 1
    <3>1. Len(read) \in 1..Len(read)
      BY <1>3, <2>2
    <3> QED  BY <1>7, <2>2, <2>7, <3>1
  <2>9. AddressesOf(streams', read') = AddressesOf(streams, read)
    BY <1>3, <2>1, <2>7, <2>8, FirstKept
  <2>10. streams'[1].filter = streams[1].filter
    <3>1. 1 \in 1..Len(streams)
      BY <2>2
    <3> QED  BY <1>7, <2>4, <2>5, <3>1
  <2> QED  BY <2>5, <2>9, <2>10 DEF FilterOf
<1>8. ASSUME NEW l \in Lines, Setting(l), current = 1, l.cmd \in Addressing
      PROVE  \E x \in Lines :
              /\ x.cmd \in Addressing
              /\ Len(AddressesOf(streams, read)) < MaxLines
              /\ AddressesOf(streams', read')
                   = Append(AddressesOf(streams, read), AddressLine(x))
              /\ FilterOf(streams') = IF x.cmd = "src_mac"
                                      THEN import_src_mac(FilterOf(streams), x.addr)
                                      ELSE import_dst_mac(FilterOf(streams), x.addr)
  <2> DEFINE A == AboutIn(streams, read, 1, Addressing)
  <2>1. /\ Cardinality(A) < MaxLines
        /\ AddressesOf(streams', read')
             = Append(AddressesOf(streams, read), AddressLine(l))
        /\ FilterOf(streams') = Import(streams[1], l).filter
        /\ streams # << >>
    BY <1>8, FirstReads
  <2>2. IsStream(streams[1]) /\ l.cmd # "Stream"
    <3>1. 1 \in 1..Len(streams)
      BY <1>2, <2>1
    <3> QED  BY <1>1, <1>8, <3>1 DEF Consistent, Addressing
  <2>3. Len(AddressesOf(streams, read)) = Cardinality(A)
    <3>1. Len(read) \in Nat /\ A \in SUBSET (1..Len(read))
      BY <1>3 DEF AboutIn
    <3> HIDE DEF A
    <3>2. Cardinality(A) \in Nat
      BY <3>1, UptoGrows
    <3>3. AddressesOf(streams, read)
            = [n \in 1..Cardinality(A) |-> AddressLine(read[Max(Upto(A, n))])]
      BY DEF AddressesOf, LinesOf, A
    <3> QED  BY <3>2, <3>3
  <2>4. FilterOf(streams') = IF l.cmd = "src_mac"
                             THEN import_src_mac(FilterOf(streams), l.addr)
                             ELSE import_dst_mac(FilterOf(streams), l.addr)
    BY <1>8, <2>1, <2>2, ImportFilter DEF FilterOf, Addressing
  <2> QED  BY <1>8, <2>1, <2>3, <2>4
<1>9. CASE OpenFile
  BY <1>4, <1>9 DEF OpenFile
<1>10. CASE OpenFails \/ EndOfFile \/ OptionsEnd \/ Fault \/ UNCHANGED configVars
  <2>1. streams' = streams /\ read' = read
    BY <1>10 DEF OpenFails, EndOfFile, OptionsEnd, Fault, configVars
  <2> QED  BY <1>5, <2>1
<1>11. ASSUME NEW l \in Lines, StreamFound(l)
       PROVE  Same
  BY <1>4, <1>11 DEF StreamFound
<1>12. ASSUME NEW l \in Lines, StreamRefused(l) \/ NoStream(l)
       PROVE  Same
  <2>1. streams' = streams /\ read' = read
    BY <1>12 DEF StreamRefused, NoStream, ImportFails
  <2> QED  BY <1>5, <2>1
<1> HIDE DEF Same
<1>13. CASE Same
  BY <1>13 DEF Same
<1> QED  BY <1>6, <1>7, <1>8, <1>9, <1>10, <1>11, <1>12, <1>13 DEF ConfigNext

\* The configuration implements the filter of its first stream: what FilterProofs
\* shows of module Filter is true of the filter the daemon starts with.
THEOREM ConfigImplementsFilter == ConfigSpec => ImplementsFilter
<1>1. ConfigInv => First!vars = << FilterOf(streams), AddressesOf(streams, read) >>
  BY AddressLinesIs DEF First!vars, FilterOf
<1>2. ConfigInit => First!Init
  <2> SUFFICES ASSUME ConfigInit PROVE First!Init
    OBVIOUS
  <2>1. streams = << >> /\ read = << >>
    BY DEF ConfigInit
  <2>2. AddressLines = AddressesOf(streams, read)
    BY ConfigInvInit, AddressLinesIs
  <2>3. AboutIn(streams, read, 1, Addressing) = {}
    BY <2>1 DEF AboutIn
  <2>4. AddressesOf(streams, read) = << >>
    <3>1. Cardinality({}) = 0 /\ 1..0 = {}
      BY FS_EmptySet
    <3>2. AddressesOf(streams, read)
            = [n \in 1..Cardinality({}) |-> AddressLine(read[Max(Upto({}, n))])]
      BY <2>3 DEF AddressesOf, LinesOf
    <3> QED  BY <3>1, <3>2
  <2>5. NoFilter = First!NoFilter
    BY DEF NoFilter, First!NoFilter, Positions, First!Positions
  <2> QED  BY <2>1, <2>2, <2>4, <2>5 DEF First!Init
<1>3. ConfigInv /\ ConfigInv' /\ [ConfigNext]_configVars => [First!Next]_First!vars
  <2> SUFFICES ASSUME ConfigInv, ConfigInv', [ConfigNext]_configVars
               PROVE  [First!Next]_First!vars
    OBVIOUS
  <2>1. /\ AddressLines = AddressesOf(streams, read)
        /\ AddressLines' = AddressesOf(streams', read')
    BY AddressLinesIs, AddressLinesIsThen
  <2>2. CASE /\ FilterOf(streams') = FilterOf(streams)
             /\ AddressesOf(streams', read') = AddressesOf(streams, read)
    BY <2>1, <2>2 DEF First!vars, FilterOf
  <2>3. ASSUME NEW l \in Lines, l.cmd \in Addressing,
               Len(AddressesOf(streams, read)) < MaxLines,
               AddressesOf(streams', read')
                 = Append(AddressesOf(streams, read), AddressLine(l)),
               FilterOf(streams') = IF l.cmd = "src_mac"
                                    THEN import_src_mac(FilterOf(streams), l.addr)
                                    ELSE import_dst_mac(FilterOf(streams), l.addr)
        PROVE  First!Next
    <3>1. l.addr \in First!Addresses
      BY <2>3, ConfigAssumption DEF Addressing, Addresses, First!Addresses
    <3>2. CASE l.cmd = "src_mac"
      <4>1. First!ReadSrcMac(l.addr)
        BY <2>1, <2>3, <3>2
           DEF First!ReadSrcMac, First!import_src_mac, import_src_mac, First!Overwrite,
               Overwrite, First!Ones, Ones, First!Positions, Positions, AddressLine, FilterOf
      <4> QED  BY <3>1, <4>1 DEF First!Next
    <3>3. CASE l.cmd = "dst_mac"
      <4>1. First!ReadDstMac(l.addr)
        BY <2>1, <2>3, <3>3
           DEF First!ReadDstMac, First!import_dst_mac, import_dst_mac, First!Overwrite,
               Overwrite, First!Ones, Ones, First!Positions, Positions, AddressLine, FilterOf
      <4> QED  BY <3>1, <4>1 DEF First!Next
    <3> QED  BY <2>3, <3>2, <3>3 DEF Addressing
  <2> QED  BY <2>2, <2>3, FirstStep
<1> QED  BY <1>2, <1>3, ConfigInvInit, ConfigInvStep, PTL
         DEF ConfigSpec, ImplementsFilter, First!Spec

\* The proofs about module Filter, for that filter.
Proved == INSTANCE FilterProofs
          WITH filter <- IF streams = << >> THEN NoFilter ELSE streams[1].filter,
               lines <- AddressLines

\* However the address lines of the first stream are spread over the files, and
\* whatever lines of other streams are between them, it keeps exactly the frames from
\* the address of the last one, or every frame if it has none or a single src_mac,
\* unless there is no memory to compare them.
THEOREM FirstStreamSelectsSource == ConfigSpec => []FirstSelectsSource
<1>1. First!Init => Proved!FilterInv
  <2>1. First!Init => Proved!Init
    BY DEF First!Init, Proved!Init, First!NoFilter, Proved!NoFilter, First!Positions,
           Proved!Positions
  <2> QED  BY <2>1, Proved!FilterInit, AddressAssumption
<1>2. Proved!FilterInv /\ [First!Next]_First!vars => Proved!FilterInv'
  <2>1. ASSUME NEW addr PROVE First!ReadSrcMac(addr) => Proved!ReadSrcMac(addr)
    BY DEF First!ReadSrcMac, Proved!ReadSrcMac, First!import_src_mac, Proved!import_src_mac,
           First!Overwrite, Proved!Overwrite, First!Ones, Proved!Ones, First!Positions,
           Proved!Positions
  <2>2. ASSUME NEW addr PROVE First!ReadDstMac(addr) => Proved!ReadDstMac(addr)
    BY DEF First!ReadDstMac, Proved!ReadDstMac, First!import_dst_mac, Proved!import_dst_mac,
           First!Overwrite, Proved!Overwrite, First!Ones, Proved!Ones, First!Positions,
           Proved!Positions
  <2>3. First!Next => Proved!Next
    BY <2>1, <2>2 DEF First!Next, Proved!Next, First!Addresses, Proved!Addresses
  <2>4. First!vars = Proved!vars /\ First!vars' = Proved!vars'
    BY DEF First!vars, Proved!vars
  <2> QED  BY <2>3, <2>4, Proved!FilterStep, AddressAssumption
<1>3. Proved!FilterInv => FirstSelectsSource
  <2>1. First!Frames = Proved!Frames
    BY DEF First!Frames, Proved!Frames, First!Positions, Proved!Positions
  <2>2. ASSUME NEW frame PROVE First!Source(frame) = Proved!Source(frame)
    BY DEF First!Source, Proved!Source, First!AddressAt, Proved!AddressAt
  <2>3. ASSUME NEW frame, NEW memory
        PROVE  First!Keeps(frame, memory) <=> Proved!Keeps(frame, memory)
    <3>1. \A f, k, m, n, r : First!p_emu_frame_compare(f, k, m, n, r)
                              = Proved!p_emu_frame_compare(f, k, m, n, r)
      BY DEF First!p_emu_frame_compare, Proved!p_emu_frame_compare, First!Invalid,
             Proved!Invalid, First!Positions, Proved!Positions, First!Cardinality,
             Proved!Cardinality
    <3> QED  BY <3>1 DEF First!Keeps, Proved!Keeps
  <2>4. (First!Reaches <=> Proved!Reaches) /\ (First!Counted <=> Proved!Counted)
    BY DEF First!Reaches, Proved!Reaches, First!Counted, Proved!Counted
  <2>5. First!LastLineSelectsSource <=> Proved!LastLineSelectsSource
    BY <2>1, <2>2, <2>3, <2>4 DEF First!LastLineSelectsSource,
       Proved!LastLineSelectsSource, First!Last, Proved!Last
  <2> QED  BY <2>5, Proved!FilterVerdict, AddressAssumption DEF FirstSelectsSource
<1> QED  BY <1>1, <1>2, <1>3, ConfigImplementsFilter, PTL DEF ImplementsFilter, First!Spec

=============================================================================

