------------------------------ MODULE PEmuCore ------------------------------
(***************************************************************************)
(* The state the emulator's threads share and the operations they share it *)
(* through: packet buffers (p_emu_packet_init, p_emu_packet_discard), the  *)
(* rx_list and tx_list of each stream, the two signals between the threads *)
(* (semaphores, or POSIX message queues when P_EMU_USE_SEMS is not         *)
(* defined) and the timerfd of each stream.                                *)
(*                                                                         *)
(* The list library (libs/llib, a submodule) is external.  The code calls  *)
(* it from several threads and takes no lock of its own, so each call is   *)
(* taken to be atomic.                                                     *)
(***************************************************************************)
EXTENDS PEmuTime, FiniteSets

CONSTANTS
  NumStreams,      \* streams of the configuration, numbered in list order
  Buffers,         \* the packet buffers the allocator can hand out
  NoBuffer,        \* the NULL packet pointer
  Delayed,         \* streams with DELAY_IS_ENABLED
  Selective,       \* streams with FILTERING_IS_ENABLED or LOSS_IS_ENABLED
  DelayOffsets,    \* what a delayed stream may add to an arrival time
  UseSems,         \* TRUE for the build with -DP_EMU_USE_SEMS (the Makefile's)
  MqMaxMsg,        \* capacity of a message queue (10 in the code)
  SendResults,     \* the ways the sendto loop may end: a subset of SendOutcomes
  ListOpsMayFail,  \* whether slib may refuse to insert a node
  MaxFrames,       \* bound: frames the network delivers
  LastArrival,     \* bound: no frame arrives after this instant
  MaxTime          \* bound: the clock stops here

Streams == 1..NumStreams

\* All bytes accepted; an error other than EAGAIN; MAX_TX_RETRIES times EAGAIN.
SendOutcomes == {"sent", "refused", "exhausted"}

ASSUME CoreAssumption ==
  /\ NumStreams \in Nat \ {0}
  /\ NoBuffer \notin Buffers
  /\ Delayed \subseteq Streams
  /\ Selective \subseteq Streams
  /\ DelayOffsets \subseteq Timespec
  /\ UseSems \in BOOLEAN
  /\ MqMaxMsg \in Nat \ {0}
  /\ SendResults \subseteq SendOutcomes
  /\ ListOpsMayFail \in BOOLEAN
  /\ MaxFrames \in Nat
  /\ LastArrival \in Nat
  /\ MaxTime \in Nat

VARIABLES
  live,       \* buffers that are allocated
  pkt,        \* contents of every buffer, a freed one included
  rx_list,    \* per stream: received packets
  tx_list,    \* per stream: packets ready for transmission
  rx_sig,     \* __p_emu_rx_sem or p_emu_rx_msg_q
  tx_sig,     \* __p_emu_tx_sem or p_emu_tx_msg_q
  timer,      \* per stream: the instant its timerfd is armed for, 0 if disarmed
  now,        \* CLOCK_REALTIME, in nanoseconds
  aborted,    \* why the process died, "none" while it runs
  rx,         \* locals of p_emu_RxThread
  pr,         \* locals of p_emu_PrThread
  tx,         \* locals of p_emu_TxThread
  txd,        \* locals of p_emu_TxThread_Delayed
  origin,     \* history: the stream each frame was received on
  out,        \* history, per stream: the frames sent, in order
  dropped,    \* history: frames given up deliberately
  early,      \* history: frames sent before their departure time
  outlived,   \* history: streams whose timer ran on for a packet already taken
  leaked      \* history: allocated buffers that no pointer leads to any more

heapVars == << live, pkt >>
threadVars == << rx, pr, tx, txd >>
history == << origin, out, dropped, early, outlived, leaked >>
vars == << live, pkt, rx_list, tx_list, rx_sig, tx_sig, timer, now, aborted,
           rx, pr, tx, txd, origin, out, dropped, early, outlived, leaked >>

Running == aborted = "none"

\* assert(0), or a memory fault: every thread of the process stops.
Abort(why) == aborted' = why

-----------------------------------------------------------------------------
(* Packets.  "frame" stands for the payload.                               *)

Packet == [frame : Nat, arrival : Nat, leave : Timespec]

\* What memset leaves in a new packet.
BlankPacket == [frame |-> 0, arrival |-> 0, leave |-> Zero]

\* p_emu_packet_init: malloc returns some free buffer, here with contents c.
p_emu_packet_init(b, c) ==
    /\ b \in Buffers \ live
    /\ live' = live \union {b}
    /\ pkt' = [pkt EXCEPT ![b] = c]

\* The buffer is freed; what it holds stays until it is handed out again.
p_emu_packet_discard(b) == live' = live \ {b}

LeaveOf == [b \in Buffers |-> pkt[b].leave]

-----------------------------------------------------------------------------
(* Signals.  A semaphore only counts: its value is the length of the       *)
(* sequence.  A queued message is a pointer to the stream concerned, and   *)
(* mq_send blocks while MqMaxMsg messages are waiting.                     *)

Token(s) == IF UseSems THEN 0 ELSE s

CanPost(sig) == UseSems \/ Len(sig) < MqMaxMsg

Post(sig, s) == Append(sig, Token(s))

\* The streams a woken thread visits: all of them (slib_func_exec) after
\* sem_wait, the one named by the message after mq_receive.
FirstVisited(token) == IF UseSems THEN 1 ELSE token
LastVisited(token) == IF UseSems THEN NumStreams ELSE token

-----------------------------------------------------------------------------
(* Timers.  A one-shot absolute timer: it can be read once when its        *)
(* instant has passed.  An it_value of zero disarms it, EINVAL leaves it   *)
(* alone.                                                                  *)

\* Any time accepted.
p_emu_timer_start_Unchecked(s, t) == timer' = [timer EXCEPT ![s] = Instant(t)]

\* A time that has passed set as a remaining time of zero, which disarms.
p_emu_timer_start_Relative(s, t) ==
    timer' = [timer EXCEPT ![s] = IF Instant(t) <= now THEN 0 ELSE Instant(t)]

p_emu_timer_start(s, t) ==
    timer' = [timer EXCEPT ![s] = IF SettimeAccepts(t) THEN Instant(t) ELSE @]

Expired(s) == timer[s] # 0 /\ timer[s] <= now

=============================================================================
