----------------------------- MODULE ForwardPath -----------------------------
(***************************************************************************)
(* The forward path of the emulator: the four threads p_emu_start creates  *)
(* for it, running concurrently on the state of PEmuCore, and the clock.   *)
(***************************************************************************)
EXTENDS RxThread, PrThread, TxThread, TxDelayedThread

Init ==
    /\ live = {}
    /\ pkt = [b \in Buffers |-> BlankPacket]
    /\ rx_list = [s \in Streams |-> << >>]
    /\ tx_list = [s \in Streams |-> << >>]
    /\ rx_sig = << >>
    /\ tx_sig = << >>
    /\ timer = [s \in Streams |-> 0]
    /\ now = 1
    /\ aborted = "none"
    /\ RxInit /\ PrInit /\ TxInit /\ TxdInit
    /\ origin = << >>
    /\ out = [s \in Streams |-> << >>]
    /\ dropped = {}
    /\ early = {}
    /\ outlived = {}
    /\ leaked = {}

\* Time passes.
Tick ==
    /\ Running /\ now < MaxTime
    /\ now' = now + 1
    /\ UNCHANGED << heapVars, rx_list, tx_list, rx_sig, tx_sig, timer, aborted,
                    threadVars, history >>

\* A dead process takes no further step.
Halted == ~Running /\ UNCHANGED vars

Next == RxNext \/ PrNext \/ TxNext \/ TxdNext \/ Tick \/ Halted

Spec == Init /\ [][Next]_vars

\* Every thread that can run is eventually scheduled, and time passes.
Fairness ==
    /\ WF_vars(RxNext) /\ WF_vars(PrNext) /\ WF_vars(TxNext)
    /\ WF_vars(TxdNext) /\ WF_vars(Tick)

FairSpec == Spec /\ Fairness

-----------------------------------------------------------------------------
(* Types                                                                   *)

AbortReasons == {"rx_list_empty", "tx_list_empty_after_insert", "tx_list_empty",
                 "tx_list_empty_on_timer", "tx_retries", "use_after_free"}

AnyBuffer == Buffers \union {NoBuffer}

HeapType ==
    /\ live \subseteq Buffers
    /\ pkt \in [Buffers -> Packet]

ListType ==
    /\ rx_list \in [Streams -> Seq(Buffers)]
    /\ tx_list \in [Streams -> Seq(Buffers)]

Tokens == IF UseSems THEN {0} ELSE Streams

SignalType == rx_sig \in Seq(Tokens) /\ tx_sig \in Seq(Tokens)

TimerType == timer \in [Streams -> Nat] /\ now \in Nat

RxType ==
    /\ rx \in [pc : {"recv", "add", "post"}, i : Streams, b : AnyBuffer]
    /\ rx.pc = "add" => rx.b \in Buffers

PrType ==
    /\ pr \in [pc : {"wait", "scan", "take", "process", "show", "arm", "post"},
               i : Streams, last : Streams, b : AnyBuffer]
    /\ pr.pc \in {"process", "arm"} => pr.b \in Buffers
    /\ pr.i <= pr.last

TxType ==
    /\ tx \in [pc : {"wait", "take", "send"}, i : Streams, last : Streams,
               b : AnyBuffer]
    /\ tx.pc = "send" => tx.b \in Buffers
    /\ tx.i <= tx.last

TxdType ==
    /\ txd \in [pc : {"read", "take", "send", "show", "arm"}, i : Streams,
                b : AnyBuffer]
    /\ txd.pc \in {"send", "arm"} => txd.b \in Buffers

HistoryType ==
    /\ origin \in Seq(Streams)
    /\ out \in [Streams -> Seq(Nat)]
    /\ dropped \subseteq Nat
    /\ early \subseteq Nat
    /\ outlived \subseteq Streams
    /\ leaked \subseteq Buffers

\* The type of every variable, and for each program counter whether the thread
\* has a packet in hand.
TypeOK ==
    /\ HeapType /\ ListType /\ SignalType /\ TimerType
    /\ aborted \in AbortReasons \union {"none"}
    /\ RxType /\ PrType /\ TxType /\ TxdType
    /\ HistoryType

-----------------------------------------------------------------------------
(* Packets                                                                 *)

\* The packets each thread is responsible for.  At "arm" a thread only looks
\* at a packet that is still in a list, or was.
InHand ==
    LET Held(thread, pcs) == IF thread.pc \in pcs THEN {thread.b} ELSE {}
    IN  << Held(rx, {"add"}), Held(pr, {"process"}), Held(tx, {"send"}),
           Held(txd, {"send"}) >>

HeldBuffers == UNION {InHand[k] : k \in 1..4}

ListOf(kind, s) == IF kind = "rx" THEN rx_list[s] ELSE tx_list[s]

Places == {"rx", "tx"} \X Streams

\* Every buffer in a list or in a thread's hands is allocated and is there only
\* once: no packet is freed while queued, freed twice or queued twice, whatever
\* the order in which the threads take and discard packets.
Ownership ==
    /\ HeldBuffers \subseteq live
    /\ \A j, k \in 1..4 : j # k => InHand[j] \intersect InHand[k] = {}
    /\ \A p \in Places :
         LET list == ListOf(p[1], p[2])
         IN  /\ ToSet(list) \subseteq live \ HeldBuffers
             /\ \A m, n \in 1..Len(list) : m # n => list[m] # list[n]
             /\ \A q \in Places \ {p} :
                  ToSet(list) \intersect ToSet(ListOf(q[1], q[2])) = {}

QueuedBuffers == UNION {ToSet(ListOf(p[1], p[2])) : p \in Places}

\* Every allocated buffer is in a list, in a thread's hands or lost by a recvfrom
\* that found nothing (p_emu_rx_packet): that is the only leak, and no error
\* path adds to it.
BuffersAccounted ==
    /\ live = HeldBuffers \union QueuedBuffers \union leaked
    /\ leaked \intersect (HeldBuffers \union QueuedBuffers) = {}

\* Frames waiting inside the emulator.
InTransit == {pkt[b].frame : b \in HeldBuffers \union QueuedBuffers}

-----------------------------------------------------------------------------
(* The promise                                                             *)

\* The packets of stream s: the one a thread holds while it works on s, and
\* those in its lists.
PacketsOf(s) ==
    LET Held(thread, pcs) ==
          IF thread.pc \in pcs /\ thread.i = s THEN {thread.b} ELSE {}
    IN  Held(rx, {"add"}) \union Held(pr, {"process"}) \union Held(tx, {"send"})
          \union Held(txd, {"send"}) \union ToSet(rx_list[s]) \union ToSet(tx_list[s])

Abstract == INSTANCE Emulator
            WITH Fifo <- Streams \ Delayed,
                 accepted <- Len(origin),
                 waiting <- [s \in Streams |-> {pkt[b].frame : b \in PacketsOf(s)}]

\* The threads together do what Emulator says: a step of one of them accepts a
\* frame, sends or gives up one that waits, or changes nothing an observer of
\* the frames could see.
ImplementsEmulator == Abstract!Spec

-----------------------------------------------------------------------------
(* Signals                                                                 *)

Queued(list) == UNION {{s} \X (1..Len(list[s])) : s \in Streams}

One(P) == IF P THEN 1 ELSE 0

\* The signals that wait in sig for stream s.
Waiting(sig, s) ==
    IF UseSems THEN Len(sig) ELSE Cardinality({k \in 1..Len(sig) : sig[k] = s})

\* No lost wakeup between p_emu_RxThread and p_emu_PrThread: every queued
\* packet has a signal of its own waiting, about to be sent by the rx thread, or
\* received by a pass of the processing thread that will still meet a packet.
RxSignalled ==
    IF UseSems
    THEN Cardinality(Queued(rx_list)) <=
           Len(rx_sig) + One(rx.pc = "post")
           + One(pr.pc \in {"scan", "take"} /\ \E s \in pr.i..pr.last : rx_list[s] # << >>)
    ELSE \A s \in Streams :
           Len(rx_list[s]) =
             Waiting(rx_sig, s) + One(rx.pc = "post" /\ rx.i = s)
             + One(pr.pc \in {"scan", "take"} /\ pr.i = s)

\* assert(pack_node) in p_emu_process_received: "this case should never happen".
RxListNeverEmptyAtTake == aborted # "rx_list_empty"

\* A stream without delay, when it is the only one or when messages name their
\* stream, has one tx signal for every packet in its tx_list.
SignalPerPacket(s) ==
    Len(tx_list[s]) =
      Waiting(tx_sig, s) + One(pr.pc = "post" /\ pr.i = s)
      + One(tx.pc = "take" /\ tx.i <= s /\ s <= tx.last)

OneUndelayedStream == \A s, t \in Streams \ Delayed : s = t

TxSignalled ==
    OneUndelayedStream \/ ~UseSems => \A s \in Streams \ Delayed : SignalPerPacket(s)

\* The assertion of p_emu_tx_non_delayed_packet ("this stream has no packets
\* ready for tx") holds when at most one stream is without delay, and in the
\* message queue build for any number of them.
TxListNeverEmptyAtTake ==
    OneUndelayedStream \/ ~UseSems => aborted # "tx_list_empty"

\* The assertion itself, for any configuration.
SignalMeetsPacket == aborted # "tx_list_empty"

\* assert(pack_node) in p_emu_process_received: the packet just inserted, or one
\* that leaves before it, is still in tx_list.
InsertedPacketShown == aborted # "tx_list_empty_after_insert"

-----------------------------------------------------------------------------
(* Timers                                                                  *)

\* A delayed stream's tx_list is in departure order, to the microsecond, and
\* packets that leave in the same microsecond are in arrival order.
TxListSorted ==
    \A s \in Delayed : \A m, n \in 1..Len(tx_list[s]) :
      m < n => LET p == pkt[tx_list[s][m]]
                   q == pkt[tx_list[s][n]]
               IN  \/ TimevalLess(p.leave, q.leave)
                   \/ ~TimevalLess(q.leave, p.leave) /\ p.frame < q.frame

\* The processing thread has a packet in s and has yet to arm the timer, or the
\* transmit thread has consumed an expiration and has yet to look for the next.
Arming(s) ==
    \/ pr.pc \in {"show", "arm"} /\ pr.i = s
    \/ txd.pc \in {"take", "send", "show", "arm"} /\ txd.i = s

\* A delayed stream with queued packets has a timer running, or a thread on its
\* way to arm it.
Covered(s) == tx_list[s] # << >> => timer[s] # 0 \/ Arming(s)

\* "If no first node exists, stop timer otherwise update" (p_emu_tx.c).
TimerCovered == \A s \in Delayed : Covered(s)

\* The same for every stream whose timer has never outlived its packet.
TimerCoveredUnlessOutlived == \A s \in Delayed \ outlived : Covered(s)

\* No packet leaves before its departure time ("Time packet supposed to leave",
\* p_emu_core.h) on those streams: a timer that outlives its packet is the only
\* cause of an early departure.
EarlyOnlyIfOutlived == \A f \in early : origin[f] \in outlived

\* p_emu_tx_delayed_packet finds no packet: its assert(0).
ExpirationHasPacket == aborted # "tx_list_empty_on_timer"

\* It finds none only on a stream whose timer has outlived its packet.
TimerAbortOnlyIfOutlived == ~ExpirationHasPacket => txd.i \in outlived

\* "Make sure that nsec is less than 10^9" (p_emu_pr.c): it is, in every packet that
\* waits for its departure.  timerfd_settime refuses another one, and the packet has
\* no timer.
DepartureBelowSecond ==
    \A s \in Delayed : \A b \in ToSet(tx_list[s]) : pkt[b].leave.nsec < NsPerSec

-----------------------------------------------------------------------------
(* Progress                                                                *)

Settled(f) == f \in dropped \/ \E s \in Streams : f \in ToSet(out[s])

\* Frame f was received on one of these streams.
ReceivedOn(f, streams) == f \in 1..Len(origin) /\ origin[f] \in streams

\* Every frame received without delay is eventually sent or given up.
UndelayedFramesSettle ==
    \A f \in 1..MaxFrames :
      ReceivedOn(f, Streams \ Delayed) ~> Settled(f) \/ ~Running

\* So is every frame of a delayed stream, unless a timer of that stream has
\* outlived the packet it was set for.
DelayedFramesSettle ==
    \A f \in 1..MaxFrames :
      ReceivedOn(f, Delayed) ~> Settled(f) \/ ~Running \/ ReceivedOn(f, outlived)

=============================================================================
