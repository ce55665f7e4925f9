----------------------------- MODULE ConfigImport -----------------------------
(***************************************************************************)
(* The options of main and p_emu_import_settings.  Each -f option reads a  *)
(* file of settings line by line into one list of streams; the first file  *)
(* read without an error starts the emulator.  A Stream= line chooses the  *)
(* stream the following lines are about: one already in the list whose     *)
(* name the line begins with, or a new one.                                *)
(*                                                                         *)
(* A line is a record with the command and its argument; a line with a     *)
(* misspelt command, or with one that has a callback and no entry in       *)
(* p_emu_import_table (poisson, pareto_ii), is "unknown".  newline says    *)
(* whether the line of an interface ends in one: the last of a file may    *)
(* not.                                                                    *)
(***************************************************************************)
EXTENDS MacFilter, Draws, PEmuTime

CONSTANTS
  Lines,         \* the lines a file may have
  IfaceLen,      \* P_EMU_IFACE_NAME_LEN + 1: the bytes of rx_iface and of tx_iface
  IfaceGap,      \* the bytes after each: padding, and two of a descriptor
  InitMayFail,   \* whether p_emu_StreamInit and the list may fail
  MaxLines,      \* bound: lines carried out
  MaxFiles       \* bound: -f options

\* The terminator of a name in a buffer.
Nul == "nul"

ASSUME ConfigAssumption ==
  /\ IfaceLen \in Nat \ {0} /\ IfaceGap \in Nat /\ IfaceGap >= 2
  /\ InitMayFail \in BOOLEAN
  /\ MaxLines \in Nat /\ MaxFiles \in Nat
  /\ \A l \in Lines :
       /\ l.cmd \in {"Stream", "src_mac", "dst_mac", "in_iface", "out_iface", "loss_per",
                     "delay", "unknown"}
       /\ l.cmd = "Stream" => l.name \in Seq(ToSet(l.name))
       /\ l.cmd \in {"src_mac", "dst_mac"} => l.addr \in Addresses
       /\ l.cmd \in {"in_iface", "out_iface"} =>
            /\ l.iface \in Seq(ToSet(l.iface)) /\ Nul \notin ToSet(l.iface)
            /\ l.newline \in BOOLEAN
       /\ l.cmd = "loss_per" => l.percentage \in Percentages
       /\ l.cmd = "delay" =>
            /\ l.kind \in {"static", "uniform", "gaussian", "exponential", "pareto"}
            /\ l.args \in Seq([param : STRING, value : Int])

VARIABLES
  main,      \* where main is
  streams,   \* StreamsList
  current,   \* p_emu_import_settings' Stream: its place in the list, 0 for NULL
  files,     \* -f options met
  read       \* history: the lines carried out, and a mark at the start of a file

configVars == << main, streams, current, files, read >>

-----------------------------------------------------------------------------
(* Streams                                                                 *)

\* The settings of each delay that has an import callback.
Fields == [static |-> {"sec", "nsec"}, uniform |-> {"min", "max"},
           gaussian |-> {"mean", "stddev", "shift"},
           exponential |-> {"lamda", "factor", "shift"},
           pareto |-> {"shape", "scale", "factor", "shift"}]

NoDelay == [kind |-> "none",
            set |-> [k \in DOMAIN Fields |-> [f \in Fields[k] |-> 0]]]

\* The bytes of stream->config: rx_iface, its gap, tx_iface and the gap after it.
\* A descriptor is in the last two bytes of its gap, and is -1 until a socket is
\* made.
ConfigLen == 2 * (IfaceLen + IfaceGap)

Descriptors == {IfaceLen + IfaceGap - 1, IfaceLen + IfaceGap, ConfigLen - 1, ConfigLen}

NoIfaces == [i \in 1..ConfigLen |-> IF i \in Descriptors THEN "fd" ELSE Nul]

\* What memset leaves in a new stream, its descriptors and its name.
BlankStream(name) ==
    [state |-> "ok", name |-> name, filter |-> NoFilter, loss |-> 0, delay |-> NoDelay,
     config |-> NoIfaces]

\* The ways p_emu_StreamInit may end: when malloc or timerfd_create fails it
\* returns NULL, when a list cannot be made it clears the stream, frees it and
\* returns it all the same.
StreamInits == IF InitMayFail THEN {"ok", "null", "dangling"} ELSE {"ok"}

p_emu_StreamInit(name, result) ==
    IF result = "ok" THEN BlankStream(name)
    ELSE [BlankStream(<< >>) EXCEPT !.state = result]

\* The name compared as a whole.
Visit_Exact(name) == SelectInSeq(streams, LAMBDA st : st.name = name)

\* NULL entries passed over.
Visit_SkipsNull(name) ==
    SelectInSeq(streams, LAMBDA st : st.state # "null" /\ IsPrefix(st.name, name))

\* slib_find_in_list with p_emu_CheckStreamName, which compares as many
\* characters as the stream's name has: the first stream it matches or cannot
\* look at because it is NULL, 0 if there is none.  A stream that was cleared
\* has a name of length zero, which matches every name.
Visit(name) == SelectInSeq(streams, LAMBDA st : IsPrefix(st.name, name))

-----------------------------------------------------------------------------
(* The import callbacks                                                    *)

\* strstr: "sec=" is found in "nsec=", too.
FoundAs(param) == IF param = "sec" THEN {"sec", "nsec"} ELSE {param}

\* getInteger and getFloat: the first value of that parameter on the line, -1 if
\* there is none.
getInteger(args, param) ==
    LET k == SelectInSeq(args, LAMBDA a : a.param \in FoundAs(param))
    IN  IF k = 0 THEN -1 ELSE args[k].value

\* An integer is taken if it is positive, a float unless it is -1.
Takes(param, value) ==
    IF param \in {"lamda", "shape", "scale"} THEN value # -1 ELSE value > 0

\* The settings of a delay after a line with these arguments.  One that is zero
\* or absent leaves the setting as it was.
SetFields(set, args) ==
    [f \in DOMAIN set |->
       LET v == getInteger(args, f) IN IF Takes(f, v) THEN v ELSE set[f]]

\* Every value added to what was there.
import_delay_Adds(delay, kind, args) ==
    [kind |-> kind,
     set |-> [delay.set EXCEPT ![kind] =
                [f \in DOMAIN @ |-> LET v == getInteger(args, f)
                                    IN  IF Takes(f, v) THEN @[f] + v ELSE @[f]]]]

\* Every line's values written to the settings of the static delay.
import_delay_OneStruct(delay, kind, args) ==
    [kind |-> kind, set |-> [delay.set EXCEPT !["static"] = SetFields(delay.set[kind], args)]]

\* import_static_delay and its like.  The static one moves whole seconds from
\* nsec to sec.
import_delay(delay, kind, args) ==
    LET new == SetFields(delay.set[kind], args)
    IN  [kind |-> kind,
         set |-> [delay.set EXCEPT ![kind] =
                    IF kind = "static" THEN Normalise(new) ELSE new]]

Ifaces == {"in_iface", "out_iface"}

\* The bytes of config before the buffer that a command writes to.
StartOf(cmd) == IF cmd = "in_iface" THEN 0 ELSE IfaceLen + IfaceGap

\* The bytes a line writes letters to, and all that it writes to or skips.
Letters(l) == StartOf(l.cmd) + 1 .. StartOf(l.cmd) + Len(l.iface)
Cells(l) == StartOf(l.cmd) + 1 .. StartOf(l.cmd) + Len(l.iface) + 2

\* Nothing checks the length of a name.  One that is longer than its buffer goes on
\* over what follows in config; this one leaves config, as does every line without
\* a newline: the copy then ends with the buffer of getline.
Overruns(l) == l.cmd \in Ifaces /\ (~l.newline \/ ~(Cells(l) \subseteq 1..ConfigLen))

\* No terminator.
import_iface_Open(config, start, new) ==
    [i \in 1..ConfigLen |-> IF i \in start + 1 .. start + Len(new) THEN new[i - start]
                            ELSE config[i]]

\* import_input_iface and import_output_iface, unless they overrun: the terminator
\* goes one place after its own, and what was in between stays.
import_iface(config, start, new) ==
    [i \in 1..ConfigLen |-> IF i \in start + 1 .. start + Len(new) THEN new[i - start]
                            ELSE IF i = start + Len(new) + 2 THEN Nul ELSE config[i]]

\* A line is carried out by the callback of its command.
Import(st, l) ==
    CASE l.cmd = "src_mac"   -> [st EXCEPT !.filter = import_src_mac(@, l.addr)]
      [] l.cmd = "dst_mac"   -> [st EXCEPT !.filter = import_dst_mac(@, l.addr)]
      [] l.cmd \in Ifaces    -> [st EXCEPT !.config = import_iface(@, StartOf(l.cmd), l.iface)]
      [] l.cmd = "loss_per"  -> [st EXCEPT !.loss = l.percentage]
      [] l.cmd = "delay"     -> [st EXCEPT !.delay = import_delay(@, l.kind, l.args)]
      [] l.cmd = "unknown"   -> st

-----------------------------------------------------------------------------
(* The file                                                                *)

ConfigInit ==
    /\ main = "options"
    /\ streams = << >> /\ current = 0
    /\ files = 0
    /\ read = << >>

\* -f and fopen: the streams of an earlier file are still in the list.
OpenFile ==
    /\ main = "options" /\ files < MaxFiles
    /\ main' = "import" /\ current' = 0
    /\ files' = files + 1
    /\ read' = Append(read, [cmd |-> "file"])
    /\ UNCHANGED streams

\* fopen fails: p_emu_usage, and on with the options.
OpenFails ==
    /\ main = "options" /\ files < MaxFiles
    /\ files' = files + 1
    /\ UNCHANGED << main, streams, current, read >>

Reading(l) ==
    /\ main = "import" /\ l \in Lines
    /\ Cardinality({i \in DOMAIN read : read[i].cmd # "file"}) < MaxLines

\* The stream cleared when it is named again.
StreamFound_Clears(l) ==
    /\ Reading(l) /\ l.cmd = "Stream"
    /\ LET k == Visit(l.name)
       IN  /\ k # 0 /\ streams[k].state # "null"
           /\ current' = k
           /\ streams' = [streams EXCEPT ![k].filter = NoFilter]
    /\ read' = Append(read, l)
    /\ UNCHANGED << main, files >>

\* "Stream exists, just update it"
StreamFound(l) ==
    /\ Reading(l) /\ l.cmd = "Stream"
    /\ LET k == Visit(l.name)
       IN  /\ k # 0 /\ streams[k].state # "null"
           /\ current' = k
    /\ read' = Append(read, l)
    /\ UNCHANGED << main, streams, files >>

\* A new stream, or what p_emu_StreamInit returned for one, is put in the list.
StreamNew(l, result) ==
    /\ Reading(l) /\ l.cmd = "Stream" /\ Visit(l.name) = 0
    /\ streams' = Append(streams, p_emu_StreamInit(l.name, result))
    /\ current' = IF result = "null" THEN 0 ELSE Len(streams) + 1
    /\ read' = Append(read, l)
    /\ UNCHANGED << main, files >>

\* return -1: p_emu_usage, and on with the options.
ImportFails ==
    /\ main' = "options"
    /\ UNCHANGED << streams, current, files, read >>

\* slib_list_add_last fails.
StreamRefused(l) ==
    /\ Reading(l) /\ l.cmd = "Stream" /\ Visit(l.name) = 0 /\ InitMayFail
    /\ ImportFails

\* "Stream ptr NULL, terminating!!!"
NoStream(l) ==
    /\ Reading(l) /\ l.cmd # "Stream" /\ current = 0
    /\ ImportFails

Setting(l) ==
    /\ Reading(l) /\ l.cmd # "Stream" /\ current # 0 /\ ~Overruns(l)
    /\ streams' = [streams EXCEPT ![current] = Import(@, l)]
    /\ read' = Append(read, l)
    /\ UNCHANGED << main, current, files >>

\* The end of the file: return 0, and main goes to RunDeamon.
EndOfFile ==
    /\ main = "import"
    /\ main' = "daemon"
    /\ UNCHANGED << streams, current, files, read >>

\* No option left: main returns.
OptionsEnd ==
    /\ main = "options"
    /\ main' = "over"
    /\ UNCHANGED << streams, current, files, read >>

\* A NULL stream is looked at, by the search or by p_emu_create_interfaces, or a
\* freed one, which may also go well; or the name of an interface is written over
\* what comes after config.  What the program does then is not followed.
Fault ==
    /\ \/ \E l \in Lines :
            /\ Reading(l)
            /\ LET k == IF l.cmd = "Stream" THEN Visit(l.name) ELSE current
               IN  k # 0 /\ streams[k].state # "ok"
       \/ current # 0 /\ \E l \in Lines : Reading(l) /\ Overruns(l)
       \/ main = "daemon" /\ \E k \in DOMAIN streams : streams[k].state # "ok"
    /\ main' = "fault"
    /\ UNCHANGED << streams, current, files, read >>

ConfigNext ==
    \/ OpenFile \/ OpenFails \/ EndOfFile \/ OptionsEnd \/ Fault
    \/ \E l \in Lines :
         \/ StreamFound(l) \/ StreamRefused(l) \/ NoStream(l) \/ Setting(l)
         \/ \E result \in StreamInits : StreamNew(l, result)

ConfigSpec == ConfigInit /\ [][ConfigNext]_configVars

-----------------------------------------------------------------------------
(* The file as its author sees it                                          *)

\* The last Stream= line up to line i, or the start of the file if that is later.
Mark(i) == SelectLastInSubSeq(read, 1, i, LAMBDA l : l.cmd \in {"Stream", "file"})

\* The lines with one of these commands that come after a Stream= line of that very
\* name, and the last of them.
About(name, cmds) ==
    {i \in DOMAIN read : /\ read[i].cmd \in cmds /\ Mark(i) # 0
                         /\ read[Mark(i)].cmd = "Stream" /\ read[Mark(i)].name = name}

LastAbout(name, cmds) == read[Max(About(name, cmds))]

\* The value a line gives a parameter, zero if none.
Written(args, param) ==
    LET k == SelectInSeq(args, LAMBDA a : a.param = param)
    IN  IF k = 0 THEN 0 ELSE args[k].value

\* The streams whose name is not the beginning of another one in the files: the
\* import would take that other for this one.
Distinct ==
    {k \in DOMAIN streams :
       /\ streams[k].state = "ok"
       /\ \A i \in DOMAIN read :
            read[i].cmd = "Stream" /\ IsPrefix(streams[k].name, read[i].name)
            => read[i].name = streams[k].name}

-----------------------------------------------------------------------------
(* Properties                                                              *)

ConfigType ==
    /\ main \in {"options", "import", "daemon", "over", "fault"}
    /\ current \in 0..Len(streams)
    /\ files \in 0..MaxFiles
    /\ \A k \in DOMAIN streams :
         /\ streams[k].state \in {"ok", "null", "dangling"}
         /\ \A kind \in DOMAIN Fields : DOMAIN streams[k].delay.set[kind] = Fields[kind]
         /\ DOMAIN streams[k].config = 1..ConfigLen
    /\ current # 0 => streams[current].state # "null"

\* No stream hides a later one: a name that begins with an earlier stream's name
\* never gets a stream of its own, whichever file it is in.
NamesPrefixFree ==
    \A j, k \in DOMAIN streams : j < k => ~IsPrefix(streams[j].name, streams[k].name)

\* A stream that p_emu_StreamInit could not make is the last one in the list: the
\* search faults on it if it is NULL and takes it for any other if it was freed.
BrokenStreamIsLast ==
    \A k \in DOMAIN streams : streams[k].state # "ok" => k = Len(streams)

\* The last static_delay line of a stream is the delay its packets get, to the
\* nanosecond and whenever they arrive, if sec comes first on it (as in the
\* README's test.txt): earlier lines, the whole seconds they moved and other kinds
\* of delay leave no trace.  A value of zero, or none, asks for none, but only when
\* no earlier static_delay line has left one.
StaticDelayAsWritten ==
    \A k \in Distinct :
      LET about == About(streams[k].name, {"delay"})
          last  == LastAbout(streams[k].name, {"delay"})
          sec   == Written(last.args, "sec")
          nsec  == Written(last.args, "nsec")
      IN  /\ about # {} /\ last.kind = "static"
          /\ last.args # << >> /\ last.args[1].param = "sec" /\ sec >= 0 /\ nsec >= 0
          /\ \/ sec > 0 /\ nsec > 0
             \/ \A i \in about : i # Max(about) => read[i].kind # "static"
          => \A n \in 0..(2 * NsPerSec) :
               Instant(p_emu_delay_calculate(n, streams[k].delay.set.static))
                 = n + sec * NsPerSec + nsec

\* The last uniform_delay line of a stream bounds its packets' delays, if it has
\* both ends, but for one microsecond more: the highest draw always takes it, and
\* the rounding may make others do so.
UniformDelayAsWritten ==
    \A k \in Distinct :
      LET last == LastAbout(streams[k].name, {"delay"})
          min  == Written(last.args, "min")
          max  == Written(last.args, "max")
      IN  /\ About(streams[k].name, {"delay"}) # {} /\ last.kind = "uniform"
          /\ 0 < min /\ min <= max /\ max < DoubleExact
          => \A draw \in 0..RandMax :
               LET delay == uniform(streams[k].delay.set.uniform, draw)
               IN  /\ delay \in min..(max + 1)
                   /\ draw = 0 => delay = min
                   /\ draw = RandMax => delay = max + 1

\* The last loss_per line of a stream decides the share of its packets that are
\* lost: p percent of LOSS_ACCURACY draws out of LOSS_ACCURACY + 1, or by the
\* rounding one draw more, never fewer.  At 100 percent there is always one draw
\* that keeps a packet, and at zero, or without such a line, none is lost.
LossAsWritten ==
    \A k \in Distinct :
      LET p    == IF About(streams[k].name, {"loss_per"}) = {} THEN 0
                  ELSE LastAbout(streams[k].name, {"loss_per"}).percentage
          lost == Cardinality({d \in LossDraws : p_emu_loss_check(streams[k].loss, d)})
      IN  lost - p * (LossAccuracy \div 100) \in IF p \in {0, 100} THEN {0} ELSE {0, 1}

\* The interface name the string in buf stands for.
NameIn(buf) ==
    LET k == SelectInSeq(buf, LAMBDA c : c = Nul)
    IN  IF k = 0 THEN buf ELSE SubSeq(buf, 1, k - 1)

\* The last in_iface line of a stream names its input interface, and the last
\* out_iface line its output, however long the names, unless a later line of the
\* stream (of the other kind) writes over it: an input name that has more letters
\* than its buffer does.  One byte may follow the name: a letter of some line, or
\* of a descriptor that the name ends before.
InterfaceAsWritten ==
    \A k \in Distinct, cmd \in Ifaces :
      LET about == About(streams[k].name, {cmd})
          last  == LastAbout(streams[k].name, {cmd})
          next  == StartOf(cmd) + Len(last.iface) + 1
          shown == NameIn(SubSeq(streams[k].config, StartOf(cmd) + 1, ConfigLen))
          ifaces == About(streams[k].name, Ifaces)
      IN  /\ about # {}
          /\ \A i \in ifaces : i > Max(about) => Cells(read[i]) \cap Cells(last) = {}
          => /\ IsPrefix(last.iface, shown)
             /\ \/ Len(shown) = Len(last.iface)
                \/ /\ Len(shown) = Len(last.iface) + 1
                   /\ next \in Descriptors \/ \E i \in ifaces : next \in Letters(read[i])

\* The lines about the addresses of the first stream, in order: those after a
\* Stream= line whose name begins with its name.
AddressLines ==
    LET about == {i \in DOMAIN read :
                    /\ read[i].cmd \in {"src_mac", "dst_mac"} /\ streams # << >>
                    /\ Mark(i) # 0 /\ read[Mark(i)].cmd = "Stream"
                    /\ IsPrefix(streams[1].name, read[Mark(i)].name)}
        Nth(n) == read[Max({i \in about : Cardinality({j \in about : j < i}) < n})]
    IN  [n \in 1..Cardinality(about) |->
           [kind |-> IF Nth(n).cmd = "src_mac" THEN "src" ELSE "dst", addr |-> Nth(n).addr]]

First == INSTANCE Filter
         WITH filter <- IF streams = << >> THEN NoFilter ELSE streams[1].filter,
              lines <- AddressLines

\* The filter of a stream is the one module Filter builds from the stream's own
\* address lines, wherever in the files they are: what is shown there holds of
\* it.  (Stated for the first stream.)
ImplementsFilter == First!Spec

\* What the first stream keeps in the end: the frames from the address of the last
\* of its address lines, as module Filter says.
FirstSelectsSource == First!LastLineSelectsSource

=============================================================================
