------------------------------- MODULE Daemon -------------------------------
(***************************************************************************)
(* The process from RunDeamon in main on: it opens two sockets per stream, *)
(* starts the five threads one after the other, and then waits for them,   *)
(* while the threads that exist already forward frames.  It may die at any *)
(* time, by an assertion, a fault or a signal, and be started again.  The  *)
(* message queues have names and survive it, with whatever was in them.    *)
(***************************************************************************)
EXTENDS ForwardPath, ReversePath

CONSTANTS
  FdsMayFail,      \* whether a socket may fail to open
  CreateMayFail,   \* whether pthread_create may fail
  MaxRestarts      \* bound: times the process is started again

ASSUME DaemonAssumption ==
  FdsMayFail \in BOOLEAN /\ CreateMayFail \in BOOLEAN /\ MaxRestarts \in Nat

VARIABLES
  main,      \* the initial thread: main, p_emu_create_interfaces, p_emu_start
  threads,   \* the threads created
  sockets,   \* per stream: which of its two sockets are open
  stale,     \* messages at the head of each queue that a dead process sent
  strayed,   \* history: this process took a stale tx message for its own
  restarts   \* times the process has been started again

daemonVars == << main, threads, sockets, stale, strayed, restarts >>
allVars == << vars, revVars, daemonVars >>

\* What main leaves alone while it starts the threads.
workVars == << heapVars, rx_list, tx_list, timer, now, threadVars, history, revVars >>

\* The steps of p_emu_start in their order: the signals, then the threads.
StartSteps == << "signals", "rx", "pr", "tx", "txd", "rev" >>

\* The joins at the label "clean".
JoinOrder == << "rx", "pr", "tx", "txd", "rev" >>

Fresh == [pc |-> "open", i |-> 1, error |-> FALSE]

DaemonInit ==
    /\ Init /\ RevInit
    /\ main = Fresh
    /\ threads = {}
    /\ sockets = [s \in Streams |-> {}]
    /\ stale = [rx |-> 0, tx |-> 0]
    /\ strayed = FALSE
    /\ restarts = 0

-----------------------------------------------------------------------------
(* main                                                                    *)

\* return 0 from main ends the process and every thread in it.
Exit == aborted' = "exited"

\* geteuid() # 0
NotRoot ==
    /\ Running /\ main.pc = "open" /\ main.i = 1
    /\ Exit
    /\ UNCHANGED << workVars, rx_sig, tx_sig, daemonVars >>

\* What _p_emu_open_fds can leave open: it opens the rx socket first and gives up
\* at the first one that fails.
Opened == IF FdsMayFail THEN {{}, {"rx"}, {"rx", "tx"}} ELSE {{"rx", "tx"}}

\* *error written for every stream, so a later success hides a failure.
OpenFds_Overwrites(open) ==
    /\ Running /\ main.pc = "open"
    /\ sockets' = [sockets EXCEPT ![main.i] = open]
    /\ LET error == open # {"rx", "tx"}
       IN  IF main.i < NumStreams
           THEN /\ main' = [main EXCEPT !.i = @ + 1, !.error = error]
                /\ UNCHANGED aborted
           ELSE IF error THEN Exit /\ UNCHANGED main
           ELSE main' = [Fresh EXCEPT !.pc = "start"] /\ UNCHANGED aborted
    /\ UNCHANGED << workVars, rx_sig, tx_sig, threads, stale, strayed, restarts >>

\* _p_emu_open_fds of one stream, and after the last one the test on the error
\* of p_emu_create_interfaces.  An error of one stream does not keep the others
\* from being opened, and none of their successes clears it.
OpenFds(open) ==
    /\ Running /\ main.pc = "open"
    /\ sockets' = [sockets EXCEPT ![main.i] = open]
    /\ LET error == main.error \/ open # {"rx", "tx"}
       IN  IF main.i < NumStreams
           THEN /\ main' = [main EXCEPT !.i = @ + 1, !.error = error]
                /\ UNCHANGED aborted
           ELSE IF error THEN Exit /\ UNCHANGED main
           ELSE main' = [Fresh EXCEPT !.pc = "start"] /\ UNCHANGED aborted
    /\ UNCHANGED << workVars, rx_sig, tx_sig, threads, stale, strayed, restarts >>

StartAdvance ==
    main' = IF main.i < Len(StartSteps) THEN [main EXCEPT !.i = @ + 1]
            ELSE [Fresh EXCEPT !.pc = "join"]

\* p_emu_init_rx_path and p_emu_init_tx_path set the semaphores to zero; mq_open
\* without O_EXCL opens a queue that exists as it is.
InitSignals ==
    /\ Running /\ main.pc = "start" /\ StartSteps[main.i] = "signals"
    /\ rx_sig' = IF UseSems THEN << >> ELSE rx_sig
    /\ tx_sig' = IF UseSems THEN << >> ELSE tx_sig
    /\ StartAdvance
    /\ UNCHANGED << workVars, aborted, threads, sockets, stale, strayed, restarts >>

\* mq_open fails: assert(0).
InitSignalsFails ==
    /\ Running /\ main.pc = "start" /\ StartSteps[main.i] = "signals" /\ ~UseSems
    /\ Abort("no_queue")
    /\ UNCHANGED << workVars, rx_sig, tx_sig, daemonVars >>

\* pthread_create: the thread may run from now on, before the next one exists.
CreateThread ==
    /\ Running /\ main.pc = "start" /\ StartSteps[main.i] # "signals"
    /\ threads' = threads \union {StartSteps[main.i]}
    /\ StartAdvance
    /\ UNCHANGED << workVars, rx_sig, tx_sig, aborted, sockets, stale, strayed, restarts >>

\* pthread_create fails: goto clean.
CreateFails ==
    /\ Running /\ main.pc = "start" /\ StartSteps[main.i] # "signals" /\ CreateMayFail
    /\ main' = [pc |-> "join", i |-> 1, error |-> TRUE]
    /\ UNCHANGED << workVars, rx_sig, tx_sig, aborted, threads, sockets, stale, strayed,
                    restarts >>

\* Every join returns at once, as if the threads were detached.
JoinReturns_Always == TRUE

\* The threads never return, so joining one that exists takes for ever.  The id
\* of one that was never created is uninitialised: the join may fail at once,
\* fault, or take for ever, too (no step).
JoinReturns == JoinOrder[main.i] \notin threads

Join ==
    /\ Running /\ main.pc = "join"
    /\ JoinReturns
    /\ IF main.i < Len(JoinOrder)
       THEN main' = [main EXCEPT !.i = @ + 1] /\ UNCHANGED aborted
       ELSE IF main.error THEN Exit /\ UNCHANGED main   \* "Starting Core failed!"
       ELSE main' = [Fresh EXCEPT !.pc = "sleep"] /\ UNCHANGED aborted
    /\ UNCHANGED << workVars, rx_sig, tx_sig, threads, sockets, stale, strayed, restarts >>

JoinFaults ==
    /\ Running /\ main.pc = "join"
    /\ JoinOrder[main.i] \notin threads
    /\ Abort("join_fault")
    /\ UNCHANGED << workVars, rx_sig, tx_sig, daemonVars >>

MainNext ==
    \/ NotRoot \/ (\E open \in Opened : OpenFds(open))
    \/ InitSignals \/ InitSignalsFails \/ CreateThread \/ CreateFails \/ Join \/ JoinFaults

-----------------------------------------------------------------------------
(* The threads                                                             *)

\* A stale message holds the address a stream had in the dead process.  In the
\* new one that address is unmapped or holds something else, which faults sooner
\* or later, or it is the same stream's again.  The latter looks like a message
\* of this process.
PrTakesStale ==
    /\ PrWait
    /\ stale.rx > 0 /\ stale' = [stale EXCEPT !.rx = @ - 1]
    /\ UNCHANGED << revVars, main, threads, sockets, strayed, restarts >>

TxTakesStale ==
    /\ TxWait
    /\ stale.tx > 0 /\ stale' = [stale EXCEPT !.tx = @ - 1]
    /\ strayed' = TRUE
    /\ UNCHANGED << revVars, main, threads, sockets, restarts >>

StaleFaults ==
    /\ Running
    /\ \/ /\ "pr" \in threads /\ pr.pc = "wait" /\ stale.rx > 0
          /\ rx_sig' = Tail(rx_sig) /\ stale' = [stale EXCEPT !.rx = @ - 1]
          /\ UNCHANGED tx_sig
       \/ /\ "tx" \in threads /\ tx.pc = "wait" /\ stale.tx > 0
          /\ tx_sig' = Tail(tx_sig) /\ stale' = [stale EXCEPT !.tx = @ - 1]
          /\ UNCHANGED rx_sig
    /\ Abort("stale_pointer")
    /\ UNCHANGED << workVars, main, threads, sockets, strayed, restarts >>

PrStep ==
    /\ "pr" \in threads
    /\ \/ PrTakesStale
       \/ PrNext /\ (pr.pc = "wait" => stale.rx = 0) /\ UNCHANGED << revVars, daemonVars >>

TxStep ==
    /\ "tx" \in threads
    /\ \/ TxTakesStale
       \/ TxNext /\ (tx.pc = "wait" => stale.tx = 0) /\ UNCHANGED << revVars, daemonVars >>

RxStep == "rx" \in threads /\ RxNext /\ UNCHANGED << revVars, daemonVars >>
TxdStep == "txd" \in threads /\ TxdNext /\ UNCHANGED << revVars, daemonVars >>
RevStep == "rev" \in threads /\ RevNext /\ UNCHANGED daemonVars

-----------------------------------------------------------------------------
(* Death and restart                                                       *)

\* A signal ends the process.
Kill ==
    /\ Running /\ restarts < MaxRestarts
    /\ Abort("killed")
    /\ UNCHANGED << workVars, rx_sig, tx_sig, daemonVars >>

\* Somebody runs the program again.  Memory, sockets, semaphores and timers are
\* new, the message queues are not; the frames of the old process are lost.
Restart ==
    /\ ~Running /\ restarts < MaxRestarts
    /\ restarts' = restarts + 1
    /\ live' = {} /\ leaked' = {}
    /\ pkt' = [b \in Buffers |-> BlankPacket]
    /\ rx_list' = [s \in Streams |-> << >>]
    /\ tx_list' = [s \in Streams |-> << >>]
    /\ timer' = [s \in Streams |-> 0]
    /\ rx_sig' = IF UseSems THEN << >> ELSE rx_sig
    /\ tx_sig' = IF UseSems THEN << >> ELSE tx_sig
    /\ stale' = [rx |-> Len(rx_sig'), tx |-> Len(tx_sig')]
    /\ rx' = RxStart /\ pr' = PrWaiting /\ tx' = TxWaiting /\ txd' = TxdStart
    /\ rev' = RevStart
    /\ aborted' = "none"
    /\ main' = Fresh
    /\ threads' = {}
    /\ sockets' = [s \in Streams |-> {}]
    /\ strayed' = FALSE
    /\ outlived' = {}
    /\ dropped' = dropped \union InTransit
    /\ rev_dropped' = IF rev.pc = "send" THEN rev_dropped \union {pkt[rev.b].frame}
                      ELSE rev_dropped
    /\ UNCHANGED << now, origin, out, early, rev_origin, rev_out >>

DaemonTick == Tick /\ UNCHANGED << revVars, daemonVars >>

Over == ~Running /\ restarts = MaxRestarts /\ UNCHANGED allVars

DaemonNext ==
    \/ MainNext
    \/ RxStep \/ PrStep \/ TxStep \/ TxdStep \/ RevStep \/ StaleFaults
    \/ DaemonTick \/ Kill \/ Restart \/ Over

DaemonSpec == DaemonInit /\ [][DaemonNext]_allVars

-----------------------------------------------------------------------------
(* Properties                                                              *)

ThreadNames == {JoinOrder[k] : k \in DOMAIN JoinOrder}

\* The types of this module's variables; a thread that does not exist has not
\* moved.
DaemonType ==
    /\ main \in [pc : {"open", "start", "join", "sleep"}, i : Nat, error : BOOLEAN]
    /\ threads \subseteq ThreadNames
    /\ sockets \in [Streams -> SUBSET {"rx", "tx"}]
    /\ stale.rx \in 0..Len(rx_sig) /\ stale.tx \in 0..Len(tx_sig)
    /\ strayed \in BOOLEAN
    /\ restarts \in 0..MaxRestarts
    /\ RevType
    /\ "rx" \notin threads => rx.pc = "recv" /\ rx.i = 1
    /\ "pr" \notin threads => pr = PrWaiting
    /\ "tx" \notin threads => tx = TxWaiting

\* No thread runs unless every stream has both sockets: the error of one stream
\* is not hidden by the success of the ones opened after it ("All streams have
\* their settings and pakcet emulator is ready to start", main.c).
ThreadsHaveSockets == threads # {} => \A s \in Streams : sockets[s] = {"rx", "tx"}

\* When the process ends by itself no frame is inside: p_emu_start does not come
\* back while a thread it created runs.  So a failure to create any thread but
\* the first is not reported either, and the threads before it go on alone.
ExitLosesNothing == aborted = "exited" => threads = {} /\ InTransit = {}

\* The packets of the forward path and of the reverse path never share a buffer.
BufferHasOneOwner ==
    /\ Ownership
    /\ RevHeld \subseteq live
    /\ RevHeld \intersect (HeldBuffers \union QueuedBuffers \union leaked) = {}

\* The reverse path leaks nothing, unlike p_emu_rx_packet.
ReverseLeaksNothing ==
    live = HeldBuffers \union QueuedBuffers \union leaked \union RevHeld

\* The messages of this process that wait for stream s behind the stale ones.
FreshFor(sig, old, s) == Cardinality({k \in (old + 1)..Len(sig) : sig[k] = s})

\* In the message queue build no packet is left without a wakeup, whatever stale
\* messages made the threads do: each packet has a message of its own process,
\* sent, about to be sent or received.
NoPacketForgotten ==
    ~UseSems => \A s \in Streams :
      /\ Len(rx_list[s]) <=
           FreshFor(rx_sig, stale.rx, s) + One(rx.pc = "post" /\ rx.i = s)
           + One(pr.pc \in {"scan", "take"} /\ pr.i = s)
      /\ s \notin Delayed =>
           Len(tx_list[s]) <=
             FreshFor(tx_sig, stale.tx, s) + One(pr.pc = "post" /\ pr.i = s)
             + One(tx.pc = "take" /\ tx.i = s)

\* The assertion of p_emu_tx_non_delayed_packet fails in that build only in a
\* process that acted on a message a dead one left behind.
TxAbortOnlyIfStrayed == ~UseSems /\ aborted = "tx_list_empty" => strayed

=============================================================================
