# A TLA+ model of the packet emulator

`p_emu` bridges pairs of network interfaces and degrades the traffic on the way:
for every *stream* of its configuration it receives Ethernet frames on an input
interface, drops some (a MAC filter, a loss percentage), delays the others by a
fixed or a random time, and sends them on the output interface.  Frames in the
other direction are passed on at once.

The program is a pipeline of threads that hand packet buffers to each other by
pointer, through two lists per stream, two signals and one timer per stream.
There is no lock in `src/src/`.  This project models that pipeline step by step,
together with the reverse path that shares its heap, the startup and restart of
the process around both, and the import of the configuration before them.  It
model-checks all of it with TLC and proves the main properties with TLAPS, among
them that the threads implement a specification that knows of no threads.

## 1. The system

| part | source | state | operations |
|---|---|---|---|
| packets | `p_emu_core.c` 336-359, `p_emu_core.h` 189-195 | heap buffers with arrival and departure time | `p_emu_packet_init`, `p_emu_packet_discard` |
| signals | `p_emu_core.c` 361-515 | two semaphores, or two POSIX message queues | post and wait, on the rx and on the tx side |
| receive thread | `p_emu_rx.c` | program counter | `p_emu_rx_packet` on each stream after `select` |
| processing thread | `p_emu_pr.c` 315-484 | program counter | `p_emu_process_received` |
| departure times | `p_emu_pr.c` 106-285 | none | `p_emu_delay_calculate`, `pack_emu_sort_insert` |
| stream timers | `p_emu_pr.c` 287-313, `p_emu_help.c` 639 | one timerfd per stream | `p_emu_timer_start`, `read` |
| transmit thread, no delay | `p_emu_tx.c` 215-340 | program counter | `p_emu_tx_non_delayed_packet` |
| transmit thread, delay | `p_emu_tx.c` 12-211 | program counter | `p_emu_tx_timers`, `p_emu_tx_delayed_packet` |
| reverse path | `p_emu_reverse.c` | program counter | `p_emu_rx_reverse_packet` |
| startup | `main.c`, `p_emu_core.c` 212-334 | the threads created | `p_emu_start`, `p_emu_stop` |
| interfaces | `p_emu_core.c` 33-210 | two sockets per stream | `_p_emu_create_socket`, `p_emu_create_interfaces` |
| configuration | `p_emu_help.c` 91-760 | the list of streams | `p_emu_import_settings` and its table of import functions |
| MAC filter | `p_emu_pr.c` 24-82, `p_emu_help.c` 272-352 | key, mask and length per stream | `import_src_mac`, `import_dst_mac`, `p_emu_filter_packet` |
| loss | `p_emu_pr.c` 87-103 | `rand` | `p_emu_loss_check` |
| delay distributions | `p_emu_math.c` | `rand` | `uniform`, `rand_normal`, `exponential`, ... |

The list library (`libs/llib`) is a git submodule whose directory is empty.

### How the parts interact

    network -> RxThread -- rx_list --> PrThread -- tx_list --> TxThread ---------> network
                  \______ rx signal ____/  \ \___ tx signal ___/                  (no delay)
                                            \
                                             \-- tx_list, timer --> TxThread_Delayed -> network
                                                                      \__ timer __/

* The receive thread appends a packet to the stream's `rx_list` and posts the rx
  signal.
* The processing thread waits for the signal and processes one packet: it
  discards it, or appends it to `tx_list` and posts the tx signal, or (delayed
  stream) computes its departure time, inserts it in departure order, looks at
  the first packet of the list and arms the timer for it.
* The transmit thread waits for the tx signal and sends one packet.
* The delayed transmit thread waits for a timer, sends one packet and arms the
  timer for the next.
* The reverse thread receives a frame on the output interface, sends it on the
  input interface and frees its buffer.  It shares the heap with the others.
* `main` reads the configuration, opens the sockets and creates the threads one
  after the other; each runs from its creation on.

With semaphores (the Makefile's `-DP_EMU_USE_SEMS`) a signal does not say which
stream it is for, so the woken thread visits every stream.  Without the flag the
signal is a message that holds the pointer of the stream; the queue has room for
ten, a sender blocks when it is full, and the queue outlives the process.

### What is hard about it

* *Two threads and one timer.*  Arming is "look at the first packet, read its
  departure time, set the timer", done by two threads without a lock, and the
  packet looked at can be sent and freed in between.
* *Anonymous signals.*  The number of signals and of packets must agree per
  stream, and nothing in the code counts them; two assertions depend on it.
* *Ownership by pointer.*  A buffer passes through four threads and is freed at
  seven places; a fifth thread allocates from the same heap.
* *Time arithmetic.*  Carries, negative random delays, truncation to
  microseconds, and the times `timerfd_settime` refuses.
* *Partial failure.*  A list operation that fails after the packet has been
  taken off another list; a `sendto` that keeps failing; a thread that cannot be
  created after others were; an import that fails half way.
* *Restart.*  The message queues keep the stream pointers of a dead process.
* *A configuration read as a program.*  Each line changes what earlier lines
  left, streams are looked up by prefix, two files may fill one list.

The full list, line by line, is `hazards` in `PROJECT.json`.

### What makes each part correct

* packets: no buffer is freed while queued, freed twice or in two places
  (`Ownership`); none is lost but those of empty receives (`BuffersAccounted`);
  each received frame is in transit, sent once or deliberately given up
  (`ImplementsEmulator`).
* signals: no packet without a wakeup and no wakeup that finds a list empty
  where the code asserts it is not (`RxSignalled`, `TxSignalled`,
  `RxListNeverEmptyAtTake`, `TxListNeverEmptyAtTake`).
* order: arrival order without delay (`ImplementsEmulator`), departure order with
  it (`TxListSorted`).
* timers: queued packets have a timer running, no packet leaves early, no
  expiration finds nothing (`TimerCoveredUnlessOutlived`, `EarlyOnlyIfOutlived`,
  `TimerAbortOnlyIfOutlived`).
* progress: every received frame is sent or dropped (`UndelayedFramesSettle`,
  `DelayedFramesSettle`).
* reverse path: a frame received is sent back once, in order, or given up
  (`ImplementsReverse`); its buffer is nobody else's (`BufferHasOneOwner`) and is
  freed whatever happens (`ReverseLeaksNothing`).
* startup and restart: no thread runs before the sockets are open
  (`ThreadsHaveSockets`), the process does not end by itself with frames inside
  (`ExitLosesNothing`), messages left by a dead process neither hide a packet
  (`NoPacketForgotten`) nor are confused with those of the new one without a
  trace (`TxAbortOnlyIfStrayed`).
* configuration: each stream can be reached by its name (`NamesPrefixFree`,
  `BrokenStreamIsLast`), and what it does is what the last line of each kind says
  (`StaticDelayAsWritten`, `UniformDelayAsWritten`, `LossAsWritten`,
  `InterfaceAsWritten`, `ImplementsFilter`).
* filter: a stream keeps the frames that match the addresses of its
  configuration (`FirstSelectsSource`, `DstMacSelectsDestination`).

## 2. The modules

| module | models |
|---|---|
| `Emulator` | the abstract specification: a stream accepts frames, each of which leaves once, sent or given up, in order if the stream has no delay |
| `PEmuTime` | departure times: `p_emu_delay_calculate`, the truncated comparison, the sorted insertion, what `timerfd_settime` accepts |
| `PEmuCore` | constants, shared state, and the operations on it: buffers, signals, timers |
| `RxThread`, `PrThread`, `TxThread`, `TxDelayedThread` | one thread each; every action is one access of that thread to state another thread can change |
| `ForwardPath` | the four threads and the clock: `Init`, `Next`, `Spec`, `FairSpec`, the properties, and the refinement of `Emulator` |
| `ReversePath` | the reverse thread, and its own refinement of `Emulator` |
| `Daemon` | the process: `main` from the privilege test on, sockets, signals, thread creation, joins, death, restart, around both paths |
| `MacFilter` | the operators of the filter: the two address callbacks, the masked comparison |
| `Filter` | the address lines of one stream, the key and mask they build, and the verdict on a frame |
| `Draws` | what a random draw becomes: `p_emu_loss_check`, `uniform`, with the rounding of `float` and `double` |
| `ConfigImport` | the `-f` options of `main`, the search for a stream, its creation, and every import callback |
| `MCForwardPath`, `MCDaemon`, `MCConfig`, `MCFilter` | values of the constants for TLC |
| `ForwardPathProofs` | lemmas on the operators of `PEmuTime`; type correctness of the forward path |
| `OwnershipProofs` | who has which buffer |
| `EmulatorProofs` | the forward path implements `Emulator`, and what that comes to |
| `SignalProofs` | the signals of the two undelayed hand-overs |
| `TimerProofs` | the order of delayed packets, and their timers |
| `FilterProofs` | what the filter keeps |
| `ConfigProofs` | what the configuration files leave in the list of streams; the import implements `Filter` |
| `DaemonProofs` | the process: startup, the heap both paths share, both refinements, stale messages, and what the modules above prove of the threads alone |

`ForwardPath` extends the thread modules, which extend `PEmuCore`, which extends
`PEmuTime`.  `Daemon` extends `ForwardPath` and `ReversePath`, so the steps of the
five threads are taken over as they are, and adds that a thread runs only once it
has been created.  `ConfigImport` extends `MacFilter`, `Draws` and `PEmuTime` and
instantiates `Filter`, which it implements for the lines of one stream.  The
configuration is read before any thread exists; `PrThread` needs no more of it
than that a stream in `Selective` may drop any packet (`MayDiscard`).

The floating-point numbers of `Draws` are two sets given as constants, each number
written as a multiple of `1/FloatUnit`.  An operation takes the number nearest to the
exact result (`Round`), and both computations round after every operation, as the code
does.  Nothing is assumed of which of two equally near numbers is taken.

Operators whose names end in a deviation (`OpenFds_Overwrites`,
`Visit_SkipsNull`) are plausible slips of the definition that follows them, kept
so that each property can be seen to fail on one; nothing else uses them.

### State

Of the forward path:

* `live` is the set of allocated buffers, `leaked` those of them nobody has a
  pointer to any more, `pkt` what every buffer holds, a freed one included: a read
  of a freed packet finds what it last held or, if the buffer has been handed out
  again, what its new owner wrote (a zero departure time, from the `memset`).
  `PrArmFaults` is the third outcome, a fault.
* `rx_list`, `tx_list`: a sequence of buffers per stream.
* `rx_sig`, `tx_sig`: a sequence of tokens.  A semaphore's value is the length
  of its sequence; a message is the number of its stream.
* `timer[s]`: the instant the timer is armed for, 0 when it is disarmed or its
  expiration has been read.
* `now`: `CLOCK_REALTIME` in nanoseconds, advanced by `Tick`.
* `rx`, `pr`, `tx`, `txd`: the program counter (`pc`), the stream (`i`), for the
  woken threads the last stream of the pass (`last`), and the packet (`b`).
* `aborted`: what ended the process (an assertion, a fault, a signal, `main`
  returning); no thread moves afterwards.
* `origin`, `out`, `dropped`, `early`, `outlived` record what happened and guard
  nothing.  `outlived` holds the streams whose timer ran on after the packet it
  was set for had been taken: `p_emu_PrThread` armed it for a packet already
  gone, or `p_emu_TxThread_Delayed` found no next packet and left it running.

Of the process around it: `rev` is the reverse thread (with histories
`rev_origin`, `rev_out`, `rev_dropped`); `main` is the place of the initial
thread and whether it has met an error, `threads` and `sockets` what it has made
so far; `stale` counts the messages of a dead process at the head of each queue,
`strayed` records that one was taken for a message of this process, `restarts`
counts lives.

Of the configuration: `streams` is `StreamsList`, `current` the stream the next
line is about, `main` and `files` where the loop over the options is, and `read`
records the lines carried out.

### What the actions fold

* `select` chooses no state: a pass that it starts early finds sockets and
  timers with nothing to read, and the actions `RxNothing`, `TxdNothing` and
  `RevNothing` are exactly that.  A ten second timeout starts the same pass.
* The `sendto` loop is one step with an outcome: all bytes accepted, another
  error, or thirty times EAGAIN.  The loop touches nothing but the packet its
  thread owns.
* `RxFrame` is `p_emu_packet_init`, `recvfrom` and `clock_gettime`: all on a
  buffer no other thread knows.  In `PrInsertDelayed` the departure time is
  written and the packet inserted: the packet belongs to the thread until then.
* When `recvfrom` returns nothing the buffer is lost (`p_emu_rx.c` 85-87).
  `RxNothing` keeps that leak, so in every run the heap runs out sooner or
  later and `RxAllocFails` takes over.
* Frames are numbered in the order they are received.  The delay drawn for a
  packet is any member of `DelayOffsets`.  Filter and loss may take any packet
  of a stream in `Selective`.
* `OpenFds` is `_p_emu_open_fds` of one stream, with the three results it can
  leave: no socket, the first, both.
* `Restart` is a new process: memory, sockets, semaphores and timers are fresh,
  the message queues are not.  A stale message faults, or its pointer happens to
  be a stream of the new process and is acted on.  The frames of the dead process
  count as dropped.
* A line of a settings file is one step: the callback runs to its end before the
  next line is read.  A line is a record of the command and its arguments, with
  characters only in the names of streams and interfaces, where prefixes and
  terminators matter.
* `config` of a stream is `struct p_emu_stream_config` byte by byte, because nothing
  bounds the copy of an interface's name: a name longer than its buffer goes on over
  the descriptor and the next buffer, and over what comes after the structure.
  `import_iface` is the copy as long as it stays inside; when it does not, or the line
  has no newline and the copy goes on to the end of `getline`'s buffer, the step is
  `Fault` (`Overruns`).

### Assumptions about code outside the repository

Each call of the list library is atomic.  The code calls it from two threads on
the same list without a lock, so if the library has none either, more can go
wrong than is shown here.  `slib_insert_and_sort` asks `pack_emu_sort_insert` about one node after the
other, from the first, until the answer is not `INSERT_NO`.  A timerfd is
one-shot, absolute, disarmed by a zero time, and refuses `tv_nsec` outside
`0..10^9-1`.  `slib_find_in_list` returns the first node its callback matches.
`pthread_join` on the uninitialised id of a thread that was never created returns
with an error, faults, or does not return.

In `Filter` an action is one address line of the configuration file, handed by
the table in `p_emu_help.c` 128-141 to `import_src_mac` or `import_dst_mac`.  `filter`
is the stream's key, mask and length of comparison; `Keeps` is the verdict of
`p_emu_filter_packet`.  The comparison runs over the bytes of the two addresses,
since key and mask are zero behind them.  The lengths are counted in 16 bits
(`LengthRange`), so they wrap, and `memory` says whether the `malloc` of
`p_emu_frame_compare` succeeds: without memory a frame is discarded.

## 3. The runs

The runs of the forward path use `MCForwardPath`.  Deadlock is checked in all of
them (a process that has aborted stutters).  It is not checked in `MCDaemon`,
where `main` may wait for ever for a thread while nothing else is left to do, nor
in `MCConfig` and `MCFilterDestination`: a configuration file ends.

| run | instance | shows |
|---|---|---|
| `MCDelayed` | one delayed stream, 3 frames, delays of 1 and 3 ticks, `sendto` may fail | `Ownership`, `BuffersAccounted`, `TimerCoveredUnlessOutlived`, `EarlyOnlyIfOutlived`, `TimerAbortOnlyIfOutlived`, `ImplementsEmulator` |
| `MCLive` | an undelayed and a delayed stream, 2 frames, every failure the code handles, fairness | `TxSignalled`, `BuffersAccounted`, `UndelayedFramesSettle`, `DelayedFramesSettle`, `ImplementsEmulator` |
| `MCMixed` | an undelayed and a delayed stream, 3 frames; a second has 3 ns, delays of -2 ns, 1 s 2 ns, 7 ns | `TypeOK`, `TxListSorted`, `RxSignalled`, `RxListNeverEmptyAtTake`, `TxListNeverEmptyAtTake` |
| `MCQueues` | message queues with room for one message, two undelayed streams, one of which drops packets, 3 frames, fairness | `RxSignalled`, `TxSignalled`, `TxListNeverEmptyAtTake`, `UndelayedFramesSettle`, `ImplementsEmulator` |
| `MCDaemon` | the process twice, message queues with room for one message, an undelayed and a delayed stream, 2 frames forward and 1 back, sockets and threads that cannot be made | `DaemonType`, `ThreadsHaveSockets`, `ExitLosesNothing`, `BufferHasOneOwner`, `ReverseLeaksNothing`, `NoPacketForgotten`, `TxAbortOnlyIfStrayed`, `ImplementsEmulator`, `ImplementsReverse` |
| `MCConfig` | every sequence of up to four lines (of 17), in one file or two, streams that cannot be made, a name longer than its buffer, a line without newline | `ConfigType`, `NamesPrefixFree`, `BrokenStreamIsLast`, `StaticDelayAsWritten`, `UniformDelayAsWritten`, `LossAsWritten`, `InterfaceAsWritten`, `FirstSelectsSource`, `ImplementsFilter` |

Six runs end in a violation, each of a sentence the source itself states:

| run | property | what happens |
|---|---|---|
| `MCTwoUndelayed` | `SignalMeetsPacket` | Semaphores, two undelayed streams, one frame: the woken transmit thread visits both streams and aborts on the one that has no packet ("this stream has no packets ready for tx"). |
| `MCShownGone` | `InsertedPacketShown` | While the processing thread is between insertion and `slib_show_first`, the other thread sends an earlier packet, arms the timer for the new one and sends it too: `assert(pack_node)`. |
| `MCExpiration` | `ExpirationHasPacket` | "If no first node exists, stop timer": nothing stops it.  Armed for a packet just sent, it expires on an empty list: `assert(0)`. |
| `MCUncovered` | `TimerCovered` | The packet shown is sent, freed and handed out again before its departure time is read: zero, which disarms the timer while packets wait. |
| `MCWholeSecond` | `DepartureBelowSecond` | "Make sure that nsec is less than 10^9": the loop stops at 10^9 itself.  A packet due on a whole second waits with a time `timerfd_settime` refuses, and without a timer. |
| `MCFilterDestination` | `DstMacSelectsDestination` | The header puts `filter_dst_mac` at `payload[0]`; `import_dst_mac` writes key and mask at `payload[6]`, so `dst_mac=X` keeps the frames sent *by* X. |

What the passing runs say about behaviour one might not expect:

* The races of the timers never harm the frames.  `ImplementsEmulator` and
  `Ownership` hold in the runs in which the timer assertions fail: whichever packet
  an expiration meets is sent once.  What goes wrong is the time it leaves, or
  the process.
* A process that cannot create a thread does not say so unless it is the first
  thread: `p_emu_start` joins the threads that run, and waits (`ExitLosesNothing`).
* After a restart with message queues, stale messages can make the transmit
  thread abort on an empty list, but they hide no packet.
* A stream whose name begins with the name of an earlier one cannot be declared:
  its line selects the earlier stream.  That keeps the search unambiguous
  (`NamesPrefixFree`).
* A settings file that fails leaves its streams behind for the next `-f` option.
* With 100 percent loss one draw in `LOSS_ACCURACY` + 1 keeps the packet.  At other
  percentages the draws lost are that percentage of `LOSS_ACCURACY`, or one more: the
  threshold is computed in `float`, and at 30 percent it comes out above 30000
  (`LossAsWritten`).
* The highest draw of `uniform` gives `max + 1`, and so do some below it whose quotient
  rounds up; none gives more, or less than `min` (`UniformDelayAsWritten`).
* An interface name that fits its buffer may be followed by one byte, of an earlier and
  longer name or of the descriptor behind the buffer; one that does not fit is still
  read back in full, unless the output's name is written over it afterwards.  This is
  as far as `InterfaceAsWritten` goes.  A name that leaves `config` writes over the filter and
  what follows it; `Fault` is the only thing the model says of that.
* The keyword of an address line does not matter, the last line wins, and a single
  `src_mac=` line filters nothing, because it sets the length of the comparison to 6
  and the mask behind that (`FirstSelectsSource`).  After some ten thousand lines the
  length wraps; the property speaks of fewer (`Counted`).

The properties on what a file says are stated from its author's side: a line is about
the stream *named* by the last `Stream=` line before it (`About`), with no reference to the search
of the code.  They leave out streams whose name begins another name of the files
(`Distinct`), because the import gives that other's lines to them.  A static delay has two
more limits, both in the comment on `StaticDelayAsWritten`: `sec` comes first on the
line (searching for `sec=` finds `nsec=` too), and a zero or absent value asks for none
only if no earlier static line has left one.  The run has such lines; nothing in the
repository says what they should mean.

Beside the whole second that `MCWholeSecond` shows, a negative random delay may leave
`nsec` negative.  In both cases `p_emu_timer_start` fails and the timer keeps its old
setting; `MCMixed` contains those steps.

### The refinements

`Emulator` has four variables.  `ForwardPath` implements it with

| `Emulator` | `ForwardPath` |
|---|---|
| `accepted` | the number of frames received, `Len(origin)` |
| `waiting[s]` | the frames of the packets in the lists of `s` and in the hands of a thread working on `s` |
| `out`, `dropped` | the histories of the same name |
| `Fifo` | the streams without delay |

A receive that returns a frame is `Accept`, a `sendto` that succeeds is `Send`, a
discard is `Drop`; all other steps stutter.  In `Daemon` the death of the process,
at its restart, is `Die`.  `ReversePath` implements the same module with at most
one frame waiting.  `ConfigImport` implements `Filter`, which sees of a whole
configuration only the address lines of one stream.

### Why the bounds are enough

Three frames are one being sent, one being inserted and one waiting, so every
pair of the pipeline's threads meets over a non-empty list; the shortest
counterexamples above need one to three.  Three buffers let a freed one be handed
out again while another thread still looks at it; with fewer frames than
`MaxFrames` in flight the leak of `RxNothing` covers an exhausted heap.  Delays of
1 and 3 ticks make a later frame overtake an earlier one, arrive in the same
microsecond (two ticks) or in the next, and `MaxTime` lets the last timer
expire.  The queue bound of 1 (10 in the code) makes both senders block.
Buffers are interchangeable, and symmetry over them is used in the runs without
liveness.

`MCDaemon` composes what the other runs examine in more depth: two buffers make
the two directions compete for the heap, one reverse frame meets every step of
the forward path, two streams are what it takes for an error to be hidden by a
later success, and one restart leaves stale messages in both queues.  More than
one restart would start from the same kinds of queue contents.

Four lines let a second file come back to a stream of the first and overwrite
what that set, or a stream be named again between two of its settings; the two names are
`a` and `ab`, so that in one order the second is hidden and in the other both exist.  The
theorems on the configuration hold for any number of lines; three or four suffice to break
each property by one of the deviations in the module.  The units are small (a
second of 4 ns, 100 loss steps, 8 values of `rand`), so that carries and roundings
occur; the theorems hold for any units.  The set for `float` has binary numbers of ten
digits, which at 61 percent lose one draw too many, and the set for `double` numbers of
three, with which the two highest draws give `max + 1`.  Buffers of four bytes with two
between them let a name of six letters reach into the other buffer and stay inside.
Addresses have one byte and lengths fewer than four values, so the length wraps within
a run.

### Fairness

`FairSpec` has weak fairness of each thread's next-state action and of the
clock.  The threads are ordinary pthreads in endless loops; a blocked `sem_wait`,
`mq_send` or `mq_receive` is a disabled action and asks for nothing, and
`select` always returns after at most ten seconds.  No action inside a thread is
given fairness of its own: that a frame arrives, that `sendto` succeeds or that
the filter keeps a packet is never assumed.

`DelayedFramesSettle` excuses streams whose timer has outlived its packet: after
the race of `MCUncovered` a packet may wait for ever, if no other one arrives.

## 4. What is proved

For all values of the constants that satisfy the named assumptions of the modules
(any number of streams and buffers, either build, any delays, any lines):

**Types.**  `ForwardPathProofs!TypeCorrect`: `Spec => []TypeOK`.  `TypeOK` is inductive.
Besides the types it says at which program counters a thread holds a packet.  Its
step for the sorted insertion rests on `InsertPosition`: the
position `slib_insert_and_sort` stops at exists, because the comparison of
truncated times is total, and is within the list.  The step for the timers uses
`InstantType`: a time that `timerfd_settime` accepts is a natural number.

**Ownership.**  `OwnershipProofs!PacketsOwned`: `Spec => []Ownership`, and
`OnlyEmptyReceivesLeak`: `Spec => []BuffersAccounted`.  Neither is inductive alone:
that a buffer is in one place says nothing of the heap, and that all buffers are
accounted for says nothing of how often.  `OwnershipInv` joins them: the places
(each list, each thread's hands, the lost buffers) *partition* the set of
allocated buffers, and no list holds a buffer twice.  Three lemmas say how a
partition changes when an element is added, moved or removed; every action of the
threads is one of the three, or leaves all places alone.

**Refinement.**  `EmulatorProofs!ThreadsImplementEmulator`: `Spec => ImplementsEmulator`.
`EmulatorInv` adds to types and ownership that packets hold different frames
(`FrameInv`) and that frames on a stream without delay do not overtake each other
(`FifoInv`): its packets form five *stages*, from the transmit thread's hands through
`tx_list`, the processing thread's hands and `rx_list` to the receive thread's hands,
and every frame of an earlier stage is older than every frame of a later one.  A
step moves one packet to the neighbouring stage, so order is kept; the packet sent
is in the first stage, hence the oldest.  The timers do not appear in the
argument, which is why their races cannot break it.

**What the refinement comes to.**  `Emulator` states its promise once more as two
invariants: `LeavesOnce` (every accepted frame waits, has been sent or has been given
up, only one of the three, on one stream, once) and `InOrder`.  They follow from its
steps: `PromiseOf` is their conjunction for any four values, and one lemma for each
kind of step says that it is kept, so the same lemmas serve both directions.
`EmulatorProofs!FramesLeaveOnce` states them of the threads and `FramesStayOnStream`
adds that a frame leaves on the stream it was received on, from `OriginInv`: what
waits in a stream was received there.

**Signals.**

* `SignalProofs!RxListNeverEmpty`: `Spec => []RxListNeverEmptyAtTake`, the
  assertion in `p_emu_process_received`.  The inductive invariant is
  `RxTakeInv`: at "take" the list is not empty.  It holds since no thread but
  the processing thread takes from an `rx_list`.
* `SignalProofs!EveryPacketSignalled`: `Spec => []TxSignalled`.  In the
  configurations of `SignalsAreSpecific` (at most one undelayed stream, or message
  queues) the number of packets in an undelayed `tx_list` equals the number of
  signals waiting for it, about to be posted, or received by a transmit pass
  that has not come to the stream.  `TxSignalled` is inductive relative to
  `TypeOK` and `TxShape`, which says which streams each thread works on: the
  processing thread posts for undelayed streams only, a message names the one
  stream a pass visits.
* `SignalProofs!TxListNeverEmpty`: `Spec => []TxListNeverEmptyAtTake`, the
  assertion of `p_emu_tx_non_delayed_packet` in those configurations.  It
  follows from `TxSignalled`: a transmit thread at "take" counts for one packet
  of its stream.  `MCTwoUndelayed` shows that the restriction is needed.
* `SignalProofs!EveryReceivedPacketSignalled`: `Spec => []RxSignalled`.  With message
  queues it is the same count per stream.  A semaphore is for no stream in
  particular, so packets of all streams are counted together (`RxCounted`), and a
  pass in progress stands for one signal only as long as one of the streams it has
  yet to visit holds a packet (`PrMayTake`): a pass that ends without finding one was
  woken by a signal that was to spare.

**Order of delayed packets.**  `TimerProofs!DelayedListsSorted`: `Spec => []TxListSorted`.
`SortedInv` is inductive together with `EmulatorInv`.  `InsertInOrder` says that
`slib_insert_and_sort` keeps the order whatever the times compare to; that ties stay
in arrival order needs the stages of `FifoInv`, for the packet inserted is younger
than all in the list.  The rest is that nobody writes the departure time of a queued
packet, which ownership gives, although a thread reads one that may be freed.

**Timers.**  `TimerProofs!TimersCover`, `NothingEarly` and `TimersFindPackets` state the
three timer properties, each for the stream it is about, under one hypothesis, `[]DeparturesAccepted`: of the packets
queued, `timerfd_settime` refuses no departure time, and none is zero.  A
departure time is refused when `p_emu_delay_calculate` leaves `tv_nsec` negative or at
one second, and then the timer stays as it was, so without the hypothesis packets
can wait without a timer.  `NoneRefusedSuffices` reduces it to `NoneRefused`, a
condition on the constants only (arrival times up to the bound of the clock, delays,
length of a second), which those of `MCDelayed` and `MCLive` satisfy and those of
`MCMixed` do not; `WholeSecondsKept` shows that delays of whole seconds meet it, and
needs no hypothesis.  The invariant is
`DelayedInv`: as long as its timer has not outlived its packet, a running timer is set
for no earlier than the first packet of its stream is due, up to a microsecond
(`TimerRight`); a packet shown to a thread is where the thread thinks, or gone
(`ShownInv`); frames are recorded under the stream they came from (`OriginInv`).
That a packet due stays so when one is inserted before it is `DueKept`: the newcomer
is due earlier still.

**Startup.**  `DaemonProofs!SocketsBeforeThreads` and `NoExitWithFrames`, for any
number of streams, failures and restarts.  `DaemonInv` follows `main` through its
stages: while it opens sockets there is no thread and, unless it remembers an
error, every stream it has passed has both; a start that has begun has the
receive thread; the first join waits for that one, so `main` gets past it only if
there is no thread at all, and without threads the forward path is `Idle`.
`DaemonTypeCorrect` adds with `ThreadInv` that a thread not yet created has not moved.

**The process.**  Both directions and every life of the process:

* `BuffersHaveOneOwner`, `ReverseNeverLeaks`.  The invariants of ownership and refinement
  take a set `R` of buffers that are somebody else's; for the threads alone it is
  empty, here it is the buffer in the reverse thread's hands.  `SharedInv` is
  those invariants for that `R`.  A step of the forward path leaves `R` alone
  because it touches only what it owns or what is free, and `RevHeap` says the same
  of the reverse path.
* `ProcessImplementsEmulator`, `ReverseImplementsEmulator`.  A restart maps to `Die`.  For
  the reverse path the frame in hand is the one received last (`RevFrameInv`), and no
  step of the forward path, not even through the pointer of a freed packet, writes
  the buffer it is in.
* `ProcessFramesLeaveOnce`, `ProcessFramesStayOnStream`, `ReverseFramesLeaveOnce`: what these
  come to, as above.
* `NothingForgotten`, `AbortsOnlyIfStrayed`.  `MessageInv` counts the messages behind the
  stale ones.  An account per stream (`RxOwed`, `TxOwed`) cannot fall below the packets of
  that stream, since a stale message taken for one of this process only makes a thread look
  early; as long as none strayed the account of the tx side is exact.
* `ProcessSemaphoresCount`: with semaphores the accounts of the forward path hold in
  the process, since `main` sets them to zero before there is a thread.
* `ProcessListsSorted`, `ProcessTimersCover`, `ProcessRxListNeverEmpty`: what `TimerProofs` and
  `SignalProofs` say holds in the process.  `NothingEarly` is not among them: `early`
  records the frames of all lives and `outlived` only those of this one.

**Configuration.**  `ConfigProofs` proves `ConfigType`, `NamesPrefixFree`,
`BrokenStreamIsLast`, `LossAsWritten`, `UniformDelayAsWritten`, `StaticDelayAsWritten`
and `InterfaceAsWritten` for any lines, any number of lines and files, and any units.  The
last four speak of the list of streams *and* of the lines read, so the invariant
`Consistent(streams, read)` relates the two: names are prefix-free, every name
comes from a line, a broken stream is last, and what a stream holds is what the
last line about it says.  The difficulty is "about": which stream the import gives a line to
depends on looking names up in the list, which grows.  Prefix-freeness is what
keeps old answers valid (`SubjectSameNames`, `SubjectOneMore`); `ConfigInv` adds
that the current stream is the one the last line is about.  `AboutIsGiven` then shows that
for a name that begins no other the import gives the stream exactly the lines its
author means.

The rest is arithmetic.  `RoundBounds` is all that is used of rounding: a number on
one side of the exact result bounds the rounded one, so what is exact stays exact.  For
the draws of `uniform` that is enough (`UniformBounds`), with nothing known of the
precision.  For the loss `DrawAssumption` adds that each of the two roundings errs by at most
one part in `FloatPrecision`, which is more than three times `LOSS_ACCURACY` (2^24 and
10^5 in the code): the threshold lies less than one draw from the exact one
(`ThresholdIs`), and `LostDraws` counts the draws below it.  `NormaliseFacts` and
`StaticInstant` follow the carry of nanoseconds.  `IfaceFits` follows the bytes of `config`:
each is what the last line that wrote there wrote, or was there from the start, and the
terminator of a name is one place behind its own.

`ConfigImplementsFilter`: `ConfigSpec => ImplementsFilter`.  A line is a step of `Filter`
when it is an address line about the first stream and a stutter otherwise; that
the address lines of the stream grow by one or not at all (`LinesGrow`) rests on
prefix-freeness again.  `FirstStreamSelectsSource` (`FirstSelectsSource`) then takes `FilterKeeps` over to the
first stream of any configuration, by instantiating `FilterProofs`.

**Filter.**  `FilterProofs!FilterKeeps`: `Spec => []LastLineSelectsSource` of `Filter`,
for addresses of any length.  The inductive invariant `FilterInv` relates the
lines read to the filter: the length is that of one address until `Reaches` holds
and at least two from then on, as long as the lines can be counted in 16 bits, the mask
covers the source address once a line was read, and the key's source address is the
last line's.  `CompareZero` turns the
count of differing bytes into a statement about bytes, `SourceAgrees` into one
about addresses.  `FilterTypeCorrect` is the same invariant's typing part.

Only model-checked: liveness (`UndelayedFramesSettle`, `DelayedFramesSettle`), which is
outside what TLAPS proves, and the timer properties for delays some of which
`timerfd_settime` refuses.

## 5. What is not modelled

* The delay distributions other than `uniform` (`rand_normal`, `exponential`, `pareto`
  and their like): logarithms and roots of floating point numbers.  The forward
  path is checked for arbitrary delays, negative ones included.  Loss percentages that
  are not whole are left out, and so are uniform delays of 2^53 and more.
* What the process does after an interface name has been copied beyond `config`, or after
  a broken stream was looked at: the actions `Fault` end the model's run there.
* Posts and waits that return an error although their semaphore or queue exists
  (`p_emu_rx.c` 79-83, `p_emu_pr.c` 421-426 and 467-471): a semaphore with more than
  `SEM_VALUE_MAX` signals, a queue closed under the process, which nothing does, or a wait
  interrupted by a signal handler, of which the program installs none.  That a queue
  cannot be opened is modelled (`InitSignalsFails`).
* The system calls inside `_p_emu_create_socket`: a sequence that shares no state
  with the rest and is a success or a failure of `OpenFds`.  What the kernel queues
  on a packet socket between `socket` and `bind` is not modelled.
* A clock set back by the administrator: `now` only grows.
* `rx_list_max_size` and `tx_list_max_size` are set and never consulted; there is no
  limit to model.
* Functions nobody calls: `p_emu_StreamDestroy`, `import_poisson`, `import_pareto_ii`,
  `getChar`; `p_emu_stop` is empty.
* Malformed lines within a known command (their numbers are read with `atoi` and
  `atof`, which take a malformed one for zero); a misspelt command is the line "unknown".
* Logging, the usage text and the Matlab scripts.

## 6. Plan

Everything planned for the model is done: the forward path, the filter, the
abstract emulator with both refinements, the reverse path, startup and restart,
loss and uniform draws, the configuration.

Of the properties the runs check every safety property, action property and
refinement is stated by a theorem; liveness is not.  What could still be proved, in
order of weight:

1. That no departure time is refused for delays of less than a second without a
   carry to exactly one second, which would widen `WholeSecondsKept`.
2. `NothingEarly` for the process, with an `outlived` that is not forgotten at a restart.
3. `ConfigImplementsFilter` for every stream of the list, not the first alone.
4. That the frames the reverse path sends back leave on the stream they came in on,
   as `ProcessFramesStayOnStream` says of the forward path.
