---------------------------- MODULE DaemonProofs ----------------------------
(***************************************************************************)
(* The whole process, for any number of streams, buffers and frames,       *)
(* either kind of signal, any failures and any restarts:                   *)
(*   - the threads run with every socket open and the process does not     *)
(*     end by itself while one of them runs;                               *)
(*   - the reverse path takes its buffer from the heap of the forward      *)
(*     path, and the ownership of packets holds for both together;         *)
(*   - each path implements an emulator of its own;                        *)
(*   - with message queues every packet of this process has a message,     *)
(*     whatever messages an earlier one left in the queues;                *)
(*   - what the other modules prove of the threads alone, the order of     *)
(*     queued packets and the timers among it, holds in the process.       *)
(***************************************************************************)
EXTENDS Daemon, TimerProofs, SignalProofs

Both == {"rx", "tx"}

\* No frame is in the process.
Idle ==
    /\ rx.pc = "recv" /\ pr.pc = "wait" /\ tx.pc = "wait" /\ txd.pc = "read"
    /\ \A s \in Streams : rx_list[s] = << >> /\ tx_list[s] = << >>

OpenInv ==
    main.pc = "open" =>
      /\ threads = {}
      /\ main.i \in Streams
      /\ ~main.error => \A s \in 1..(main.i - 1) : sockets[s] = Both

StartInv ==
    main.pc = "start" =>
      /\ main.i \in 1..6
      /\ main.i <= 2 => threads = {}
      /\ main.i > 2 => "rx" \in threads

\* The receive thread is created first, so it is the one a failed start waits for.
JoinInv ==
    /\ main.pc = "join" => main.i \in 1..5 /\ (main.i > 1 => threads = {})
    /\ main.pc = "sleep" => threads = {}
    /\ main.pc \in {"join", "sleep"} /\ threads # {} => "rx" \in threads

DaemonInv ==
    /\ main \in [pc : {"open", "start", "join", "sleep"}, i : Nat, error : BOOLEAN]
    /\ sockets \in [Streams -> SUBSET Both]
    /\ OpenInv /\ StartInv /\ JoinInv
    /\ main.pc # "open" => \A s \in Streams : sockets[s] = Both
    /\ threads = {} => Idle
    /\ aborted = "exited" => threads = {}

\* There is a stream.
LEMMA StreamNumbers == NumStreams \in Nat \ {0} /\ Streams = 1..NumStreams
  BY CoreAssumption DEF Streams

\* The signals are made first, then the threads; the receive thread is waited for first.
LEMMA StepNames ==
  /\ Len(StartSteps) = 6 /\ StartSteps[1] = "signals" /\ StartSteps[2] = "rx"
  /\ \A i \in 2..6 : StartSteps[i] # "signals"
  /\ Len(JoinOrder) = 5 /\ JoinOrder[1] = "rx"
  BY DEF StartSteps, JoinOrder

\* No frame is in the process when it starts.
LEMMA StartIdle ==
  ASSUME rx' = RxStart, pr' = PrWaiting, tx' = TxWaiting, txd' = TxdStart,
         rx_list' = [s \in Streams |-> << >>], tx_list' = [s \in Streams |-> << >>]
  PROVE  Idle'
BY DEF Idle, RxStart, PrWaiting, TxWaiting, TxdStart

\* The invariant of startup holds when the process starts.
LEMMA DaemonInvInit == DaemonInit => DaemonInv
<1> SUFFICES ASSUME DaemonInit PROVE DaemonInv
  OBVIOUS
<1>1. Idle
  BY DEF DaemonInit, Init, RxInit, PrInit, TxInit, TxdInit, RxStart, PrWaiting, TxWaiting,
         TxdStart, Idle
<1>2. /\ main = Fresh /\ threads = {} /\ aborted = "none"
      /\ sockets = [s \in Streams |-> {}]
  BY DEF DaemonInit, Init
<1>3. 1 \in Streams /\ 1..(1 - 1) = {}
  BY StreamNumbers
<1> QED  BY <1>1, <1>2, <1>3 DEF DaemonInv, OpenInv, StartInv, JoinInv, Fresh, Both

-----------------------------------------------------------------------------
(* The steps of the threads                                                *)

\* A step of a thread that exists: it is not the one that ends the process.
ThreadStep ==
    \/ RxStep \/ PrStep \/ TxStep \/ TxdStep \/ RevStep \/ StaleFaults

\* The receive thread never stops the process.
LEMMA RxRuns == Running /\ RxNext => aborted' = "none"
  BY DEF RxNext, RxAllocFails, RxNothing, RxFrame, RxAdd, RxAddFails, RxPost, Running

\* The processing thread may abort, and does not end the process as main does.
LEMMA PrRuns == Running /\ PrNext => aborted' # "exited"
<1> SUFFICES ASSUME Running, PrNext PROVE aborted' # "exited"
  OBVIOUS
<1>1. CASE PrWait \/ PrCount \/ PrDiscard \/ PrInsertFails \/ PrInsert \/ PrPost \/ PrArm
  BY <1>1 DEF PrWait, PrCount, PrDiscard, PrInsertFails, PrInsert, PrPost, PrArm, PrGiveUp,
              Running
<1>2. CASE \E d \in DelayOffsets : PrInsertDelayed(d)
  BY <1>2 DEF PrInsertDelayed, Running
<1>3. CASE PrTake \/ PrShow \/ PrArmFaults
  BY <1>3 DEF PrTake, PrShow, PrArmFaults, Abort, Running
<1> QED  BY <1>1, <1>2, <1>3 DEF PrNext

\* Nor does the transmit thread.
LEMMA TxRuns == Running /\ TxNext => aborted' # "exited"
  BY DEF TxNext, TxWait, TxSkip, TxTake, TxSend, TxExhausted, Abort, Running

\* Nor does the thread of the delayed streams.
LEMMA TxdRuns == Running /\ TxdNext => aborted' # "exited"
  BY DEF TxdNext, TxdRead, TxdNothing, TxdTake, TxdShow, TxdArm, TxdSend, Abort, Running

\* Nor does the reverse path.
LEMMA RevRuns == Running /\ RevNext => aborted' # "exited"
  BY DEF RevNext, RevAllocFails, RevNothing, RevReceive, RevDiscard, RevSend, forwardVars,
         Running

\* A thread step needs a thread and changes nothing of startup.
LEMMA ThreadsRun ==
  ASSUME ThreadStep
  PROVE  /\ threads # {} /\ aborted' # "exited"
         /\ main' = main /\ threads' = threads /\ sockets' = sockets
<1>1. CASE RxStep
  <2>1. Running
    BY <1>1 DEF RxStep, RxNext, RxAllocFails, RxNothing, RxFrame, RxAdd, RxAddFails, RxPost
  <2> QED  BY <1>1, <2>1, RxRuns DEF RxStep, daemonVars
<1>2. CASE PrStep
  <2>1. Running
    BY <1>2 DEF PrStep, PrTakesStale, PrNext, PrWait, PrCount, PrTake, PrDiscard, PrInsertFails,
                PrInsert, PrPost, PrInsertDelayed, PrShow, PrArm, PrArmFaults
  <2>2. PrNext
    BY <1>2 DEF PrStep, PrTakesStale, PrNext
  <2> QED  BY <1>2, <2>1, <2>2, PrRuns DEF PrStep, PrTakesStale, daemonVars
<1>3. CASE TxStep
  <2>1. Running
    BY <1>3 DEF TxStep, TxTakesStale, TxNext, TxWait, TxSkip, TxTake, TxSend, TxExhausted
  <2>2. TxNext
    BY <1>3 DEF TxStep, TxTakesStale, TxNext
  <2> QED  BY <1>3, <2>1, <2>2, TxRuns DEF TxStep, TxTakesStale, daemonVars
<1>4. CASE TxdStep
  <2>1. Running
    BY <1>4 DEF TxdStep, TxdNext, TxdRead, TxdNothing, TxdTake, TxdShow, TxdArm, TxdSend
  <2> QED  BY <1>4, <2>1, TxdRuns DEF TxdStep, daemonVars
<1>5. CASE RevStep
  <2>1. Running
    BY <1>5 DEF RevStep, RevNext, RevAllocFails, RevNothing, RevReceive, RevDiscard, RevSend
  <2> QED  BY <1>5, <2>1, RevRuns DEF RevStep, daemonVars
<1>6. CASE StaleFaults
  BY <1>6 DEF StaleFaults, Abort
<1> QED  BY <1>1, <1>2, <1>3, <1>4, <1>5, <1>6 DEF ThreadStep

\* A step of a thread keeps the invariant of startup.
LEMMA ThreadStepKeeps ==
  ASSUME DaemonInv, ThreadStep
  PROVE  DaemonInv'
BY ThreadsRun DEF DaemonInv, OpenInv, StartInv, JoinInv

-----------------------------------------------------------------------------
(* The steps of main                                                       *)

\* What main leaves alone keeps an idle process idle.
LEMMA StaysIdle == UNCHANGED workVars /\ Idle => Idle'
  BY DEF workVars, threadVars, Idle

\* Opening the sockets of a stream keeps it.
LEMMA OpenFdsKeeps ==
  ASSUME DaemonInv, NEW open \in Opened, OpenFds(open)
  PROVE  DaemonInv'
<1>1. /\ main.pc = "open" /\ threads = {} /\ threads' = {} /\ Idle /\ main.i \in Streams
      /\ ~main.error => \A s \in 1..(main.i - 1) : sockets[s] = Both
  BY DEF OpenFds, DaemonInv, OpenInv
<1>2. /\ sockets' = [sockets EXCEPT ![main.i] = open]
      /\ open \in SUBSET Both /\ sockets \in [Streams -> SUBSET Both]
      /\ main \in [pc : {"open", "start", "join", "sleep"}, i : Nat, error : BOOLEAN]
  BY DEF OpenFds, DaemonInv, Opened, Both
<1>3. Idle'
  BY <1>1, StaysIdle DEF OpenFds
<1>4. sockets' \in [Streams -> SUBSET Both]
  BY <1>1, <1>2
<1>5. ASSUME ~(main.error \/ open # Both)
      PROVE  \A s \in 1..main.i : sockets'[s] = Both
  BY <1>1, <1>2, <1>5, StreamNumbers
<1>6. CASE main.i < NumStreams
  <2>1. main' = [main EXCEPT !.i = @ + 1, !.error = main.error \/ open # Both]
    BY <1>6 DEF OpenFds, Both
  <2> DEFINE failed == main.error \/ open # Both
  <2>2. /\ main'.pc = "open" /\ main'.i = main.i + 1
        /\ main'.error = failed
        /\ main' \in [pc : {"open", "start", "join", "sleep"}, i : Nat, error : BOOLEAN]
    <3>1. failed \in BOOLEAN
      BY <1>2
    <3>2. main' = [main EXCEPT !.i = @ + 1, !.error = failed]
      BY <2>1
    <3>3. main = [pc |-> main.pc, i |-> main.i, error |-> main.error] /\ main.i \in Nat
      BY <1>2
    <3> HIDE DEF failed
    <3>4. main' = [pc |-> "open", i |-> main.i + 1, error |-> failed]
      BY <1>1, <3>2, <3>3
    <3> QED  BY <3>1, <3>3, <3>4
  <2>3. main'.i \in Streams /\ main'.i - 1 = main.i
    BY <1>1, <1>6, <2>2, StreamNumbers
  <2>4. OpenInv'
    BY <1>1, <1>5, <2>2, <2>3 DEF OpenInv
  <2> QED  BY <1>1, <1>3, <1>4, <2>2, <2>4 DEF DaemonInv, StartInv, JoinInv
<1>7. CASE ~(main.i < NumStreams) /\ (main.error \/ open # Both)
  <2>1. main' = main
    BY <1>7 DEF OpenFds, Both
  <2>2. OpenInv'
    <3>1. main.error => OpenInv'
      BY <1>1, <2>1 DEF OpenInv
    <3>2. \A s \in 1..(main.i - 1) : sockets'[s] = sockets[s]
      BY <1>1, <1>2, StreamNumbers
    <3> QED  BY <1>1, <2>1, <3>1, <3>2 DEF OpenInv
  <2> QED  BY <1>1, <1>2, <1>3, <1>4, <2>1, <2>2 DEF DaemonInv, StartInv, JoinInv
<1>8. CASE ~(main.i < NumStreams) /\ ~(main.error \/ open # Both)
  <2>1. main' = [Fresh EXCEPT !.pc = "start"] /\ main.i = NumStreams
    BY <1>1, <1>8, StreamNumbers DEF OpenFds, Both
  <2>2. \A s \in Streams : sockets'[s] = Both
    BY <1>5, <1>8, <2>1, StreamNumbers
  <2>3. /\ main'.pc = "start" /\ main'.i = 1
        /\ main' \in [pc : {"open", "start", "join", "sleep"}, i : Nat, error : BOOLEAN]
    BY <2>1 DEF Fresh
  <2> QED  BY <1>1, <1>3, <1>4, <2>2, <2>3 DEF DaemonInv, OpenInv, StartInv, JoinInv
<1> QED  BY <1>6, <1>7, <1>8

\* Where main is after a step of the start.
LEMMA StartAdvances ==
  ASSUME DaemonInv, main.pc = "start", StartAdvance
  PROVE  /\ main' \in [pc : {"open", "start", "join", "sleep"}, i : Nat, error : BOOLEAN]
         /\ \/ main.i < 6 /\ main'.pc = "start" /\ main'.i = main.i + 1
            \/ main.i = 6 /\ main'.pc = "join" /\ main'.i = 1
<1>1. /\ main \in [pc : {"open", "start", "join", "sleep"}, i : Nat, error : BOOLEAN]
      /\ main.i \in 1..6
  BY DEF DaemonInv, StartInv
<1>2. CASE main.i < 6
  <2>1. main' = [main EXCEPT !.i = @ + 1]
    BY <1>2, StepNames DEF StartAdvance
  <2> QED  BY <1>1, <1>2, <2>1
<1>3. CASE main.i = 6
  <2>1. main' = [Fresh EXCEPT !.pc = "join"]
    BY <1>3, StepNames DEF StartAdvance
  <2> QED  BY <1>3, <2>1 DEF Fresh
<1> QED  BY <1>1, <1>2, <1>3

\* Making the signals keeps it.
LEMMA InitSignalsKeeps ==
  ASSUME DaemonInv, InitSignals
  PROVE  DaemonInv'
<1>1. /\ main.pc = "start" /\ main.i \in 1..6 /\ main.i = 1 /\ threads = {}
      /\ threads' = threads /\ sockets' = sockets /\ aborted' = aborted
  BY StepNames DEF InitSignals, DaemonInv, StartInv
<1>2. main'.pc = "start" /\ main'.i = 2
      /\ main' \in [pc : {"open", "start", "join", "sleep"}, i : Nat, error : BOOLEAN]
  BY <1>1, StartAdvances DEF InitSignals
<1>3. Idle'
  BY <1>1, StaysIdle DEF InitSignals, DaemonInv
<1> QED  BY <1>1, <1>2, <1>3 DEF DaemonInv, OpenInv, StartInv, JoinInv

\* Creating a thread keeps it.
LEMMA CreateThreadKeeps ==
  ASSUME DaemonInv, CreateThread
  PROVE  DaemonInv'
<1>1. /\ main.pc = "start" /\ main.i \in 2..6
      /\ threads' = threads \union {StartSteps[main.i]}
      /\ sockets' = sockets /\ aborted' = aborted /\ aborted = "none"
  BY StepNames DEF CreateThread, DaemonInv, StartInv, Running
<1>2. "rx" \in threads'
  BY <1>1, StepNames DEF DaemonInv, StartInv
<1>3. /\ main' \in [pc : {"open", "start", "join", "sleep"}, i : Nat, error : BOOLEAN]
      /\ \/ main'.pc = "start" /\ main'.i \in 3..6
         \/ main'.pc = "join" /\ main'.i = 1
  BY <1>1, StartAdvances DEF CreateThread
<1> QED  BY <1>1, <1>2, <1>3 DEF DaemonInv, OpenInv, StartInv, JoinInv

\* Failing to create one keeps it.
LEMMA CreateFailsKeeps ==
  ASSUME DaemonInv, CreateFails
  PROVE  DaemonInv'
<1>1. /\ main.pc = "start" /\ main' = [pc |-> "join", i |-> 1, error |-> TRUE]
      /\ threads' = threads /\ sockets' = sockets /\ aborted' = aborted
  BY DEF CreateFails
<1>2. threads # {} => "rx" \in threads
  BY <1>1 DEF DaemonInv, StartInv
<1>3. threads = {} => Idle'
  BY StaysIdle DEF CreateFails, DaemonInv
<1> QED  BY <1>1, <1>2, <1>3 DEF DaemonInv, OpenInv, StartInv, JoinInv

\* The first join waits for the receive thread for ever, so the later ones are
\* reached only when there is no thread at all.
LEMMA JoinKeeps ==
  ASSUME DaemonInv, Join
  PROVE  DaemonInv'
<1>1. /\ main.pc = "join" /\ main.i \in 1..5
      /\ main \in [pc : {"open", "start", "join", "sleep"}, i : Nat, error : BOOLEAN]
      /\ threads' = threads /\ sockets' = sockets /\ JoinOrder[main.i] \notin threads
  BY DEF Join, JoinReturns, DaemonInv, JoinInv
<1>2. threads = {}
  BY <1>1, StepNames DEF DaemonInv, JoinInv
<1>3. Idle'
  BY <1>2, StaysIdle DEF Join, DaemonInv
<1>4. /\ main' \in [pc : {"open", "start", "join", "sleep"}, i : Nat, error : BOOLEAN]
      /\ main'.pc \in {"join", "sleep"} /\ (main'.pc = "join" => main'.i \in 1..5)
  <2>1. CASE main.i < 5
    <3>1. main' = [main EXCEPT !.i = @ + 1]
      BY <2>1, StepNames DEF Join
    <3> QED  BY <1>1, <2>1, <3>1
  <2>2. CASE ~(main.i < 5)
    <3>1. main' = main \/ main' = [Fresh EXCEPT !.pc = "sleep"]
      BY <2>2, StepNames DEF Join
    <3>2. CASE main' = main
      BY <1>1, <3>2
    <3>3. CASE main' = [Fresh EXCEPT !.pc = "sleep"]
      BY <3>3 DEF Fresh
    <3> QED  BY <3>1, <3>2, <3>3
  <2> QED  BY <2>1, <2>2
<1> QED  BY <1>1, <1>2, <1>3, <1>4 DEF DaemonInv, OpenInv, StartInv, JoinInv

\* main, the threads and the sockets as they were, and the process not ended by
\* main unless there is no thread.
LEMMA OthersKeep ==
  ASSUME DaemonInv, main' = main, threads' = threads, sockets' = sockets, Idle => Idle',
         aborted' = "exited" => threads = {}
  PROVE  DaemonInv'
BY DEF DaemonInv, OpenInv, StartInv, JoinInv

\* Starting the process again keeps it.
LEMMA RestartKeeps ==
  ASSUME Restart
  PROVE  DaemonInv'
<1>1. Idle'
  BY StartIdle DEF Restart
<1>2. /\ main' = Fresh /\ threads' = {} /\ aborted' = "none"
      /\ sockets' = [s \in Streams |-> {}]
  BY DEF Restart
<1>3. 1 \in Streams /\ 1..(1 - 1) = {}
  BY StreamNumbers
<1> QED  BY <1>1, <1>2, <1>3 DEF DaemonInv, OpenInv, StartInv, JoinInv, Fresh, Both

\* Every step of the process keeps the invariant of startup.
LEMMA DaemonInvStep == DaemonInv /\ [DaemonNext]_allVars => DaemonInv'
<1> SUFFICES ASSUME DaemonInv, [DaemonNext]_allVars PROVE DaemonInv'
  OBVIOUS
<1>1. CASE NotRoot
  <2>1. /\ main' = main /\ threads' = threads /\ sockets' = sockets /\ UNCHANGED workVars
        /\ main.pc = "open"
    BY <1>1 DEF NotRoot, daemonVars
  <2>2. threads = {}
    BY <2>1 DEF DaemonInv, OpenInv
  <2> QED  BY <2>1, <2>2, StaysIdle, OthersKeep
<1>2. ASSUME NEW open \in Opened, OpenFds(open)
      PROVE  DaemonInv'
  BY <1>2, OpenFdsKeeps
<1>3. CASE InitSignals
  BY <1>3, InitSignalsKeeps
<1>4. CASE CreateThread
  BY <1>4, CreateThreadKeeps
<1>5. CASE CreateFails
  BY <1>5, CreateFailsKeeps
<1>6. CASE Join
  BY <1>6, JoinKeeps
<1>7. CASE JoinFaults \/ InitSignalsFails
  <2>1. /\ main' = main /\ threads' = threads /\ sockets' = sockets /\ UNCHANGED workVars
        /\ aborted' # "exited"
    BY <1>7 DEF JoinFaults, InitSignalsFails, daemonVars, Abort
  <2> QED  BY <2>1, StaysIdle, OthersKeep
<1>8. CASE ThreadStep
  BY <1>8, ThreadStepKeeps
<1>9. CASE DaemonTick
  <2>1. /\ main' = main /\ threads' = threads /\ sockets' = sockets /\ aborted' = aborted
        /\ rx_list' = rx_list /\ tx_list' = tx_list
        /\ rx' = rx /\ pr' = pr /\ tx' = tx /\ txd' = txd
    BY <1>9 DEF DaemonTick, Tick, daemonVars, threadVars
  <2> QED  BY <2>1 DEF DaemonInv, OpenInv, StartInv, JoinInv, Idle
<1>10. CASE Kill
  <2>1. /\ main' = main /\ threads' = threads /\ sockets' = sockets /\ UNCHANGED workVars
        /\ aborted' # "exited"
    BY <1>10 DEF Kill, daemonVars, Abort
  <2> QED  BY <2>1, StaysIdle, OthersKeep
<1>11. CASE Restart
  BY <1>11, RestartKeeps
<1>12. CASE Over \/ UNCHANGED allVars
  <2>1. /\ main' = main /\ threads' = threads /\ sockets' = sockets /\ aborted' = aborted
        /\ rx_list' = rx_list /\ tx_list' = tx_list
        /\ rx' = rx /\ pr' = pr /\ tx' = tx /\ txd' = txd
    BY <1>12 DEF Over, allVars, vars, daemonVars
  <2> QED  BY <2>1 DEF DaemonInv, OpenInv, StartInv, JoinInv, Idle
<1> QED  BY <1>1, <1>2, <1>3, <1>4, <1>5, <1>6, <1>7, <1>8, <1>9, <1>10, <1>11, <1>12
         DEF DaemonNext, MainNext, ThreadStep

-----------------------------------------------------------------------------
(* The theorems                                                            *)

\* p_emu_start is not reached, and no thread runs, unless both sockets of every
\* stream are open, in whatever order they failed or opened.
THEOREM SocketsBeforeThreads == DaemonSpec => []ThreadsHaveSockets
<1>1. DaemonInv => ThreadsHaveSockets
  BY DEF DaemonInv, OpenInv, ThreadsHaveSockets, Both
<1> QED  BY <1>1, DaemonInvInit, DaemonInvStep, PTL DEF DaemonSpec

\* When main returns no thread was created and no frame was received: the joins of
\* p_emu_start hold it back after every failure but that of the first pthread_create.
THEOREM NoExitWithFrames == DaemonSpec => []ExitLosesNothing
<1>1. DaemonInv => ExitLosesNothing
  <2> SUFFICES ASSUME DaemonInv, aborted = "exited"
               PROVE  threads = {} /\ InTransit = {}
    BY DEF ExitLosesNothing
  <2>1. threads = {} /\ Idle
    BY DEF DaemonInv
  <2>2. HeldBuffers = {}
    <3>1. InHand = << {}, {}, {}, {} >>
      BY <2>1 DEF InHand, Idle
    <3>2. \A k \in 1..4 : InHand[k] = {}
      BY <3>1
    <3> QED  BY <3>2 DEF HeldBuffers
  <2>3. QueuedBuffers = {}
    <3>1. \A p \in Places : ListOf(p[1], p[2]) = << >>
      BY <2>1 DEF Places, ListOf, Idle
    <3>2. ToSet(<< >>) = {}
      BY DEF ToSet
    <3> QED  BY <3>1, <3>2 DEF QueuedBuffers
  <2> QED  BY <2>1, <2>2, <2>3 DEF InTransit
<1> QED  BY <1>1, DaemonInvInit, DaemonInvStep, PTL DEF DaemonSpec

-----------------------------------------------------------------------------
(* The heap the forward path and the reverse path share                    *)

\* The types of the forward path's variables, whatever the process died of.
CoreType ==
    /\ HeapType /\ ListType /\ SignalType /\ TimerType
    /\ RxType /\ PrType /\ TxType /\ TxdType
    /\ HistoryType

\* What holds of the packets of both directions: to the forward path the buffer
\* of the reverse path is somebody else's.
SharedInv ==
    /\ CoreType /\ RevType
    /\ OwnershipInvOf(RevHeld) /\ FrameInv(RevHeld) /\ TxdInv /\ FifoInv

\* While the process runs, the type invariant is that of its threads.
LEMMA RunningTypes == Running => (TypeOK <=> CoreType)
  BY DEF Running, TypeOK, CoreType

\* A step of the forward path.
LEMMA SharedByForward ==
  ASSUME SharedInv, Running, [Next]_vars, UNCHANGED revVars
  PROVE  SharedInv' /\ [Abstract!Next]_(Abstract!vars)
<1> PICK R : R = RevHeld
  OBVIOUS
<1>1. EmulatorInvOf(R)
  BY RunningTypes DEF SharedInv, EmulatorInvOf
<1>2. EmulatorInvOf(R)' /\ [Abstract!Next]_(Abstract!vars)
  BY <1>1, EmulatorStep
<1>3. RevHeld' = R /\ RevType'
  BY DEF revVars, RevHeld, SharedInv, RevType
<1>4. CoreType'
  BY <1>2 DEF EmulatorInvOf, TypeOK, CoreType
<1>5. OwnershipInvOf(RevHeld)' /\ FrameInv(RevHeld)'
  BY <1>2, <1>3 DEF EmulatorInvOf, OwnershipInvOf, HeapParts, FrameInv, Owned
<1> QED  BY <1>2, <1>3, <1>4, <1>5 DEF SharedInv, EmulatorInvOf

\* What a step of the reverse path does to the heap: nothing to the forward path's
\* part of it.
LEMMA RevHeap ==
  ASSUME SharedInv, RevNext
  PROVE  /\ Running /\ UNCHANGED forwardVars
         /\ RevHeld' \subseteq live' /\ live' \ RevHeld' = live \ RevHeld
         /\ \A b \in live \ RevHeld : pkt'[b] = pkt[b]
         /\ HeapType'
<1>1. /\ RevHeld \subseteq live /\ live \subseteq Buffers /\ pkt \in [Buffers -> Packet]
      /\ rev.pc # "recv" => rev.b \in Buffers
  BY DEF SharedInv, OwnershipInvOf, HeapParts, CoreType, HeapType, RevType
<1>2. CASE RevAllocFails
  BY <1>1, <1>2 DEF RevAllocFails, RevAdvance, RevHeld, heapVars, HeapType
<1>3. ASSUME RevNothing \/ RevReceive
      PROVE  /\ Running /\ UNCHANGED forwardVars
             /\ RevHeld' \subseteq live' /\ live' \ RevHeld' = live \ RevHeld
             /\ \A b \in live \ RevHeld : pkt'[b] = pkt[b]
             /\ HeapType'
  <2>1. /\ BlankPacket \in Packet
        /\ [BlankPacket EXCEPT !.frame = RevFrame(Len(rev_origin) + 1)] \in Packet
    <3>1. RevFrame(Len(rev_origin) + 1) \in Nat
      BY CoreAssumption, LenProperties DEF RevFrame, SharedInv, RevType
    <3> QED  BY <3>1, ConstantTypes DEF BlankPacket, Packet
  <2>2. PICK b \in Buffers, c \in Packet :
           p_emu_packet_init(b, c) /\ RevHeld' = {b} /\ RevHeld = {}
    BY <1>1, <1>3, <2>1 DEF RevNothing, RevReceive, RevHeld, SharedInv, RevType
  <2>3. /\ b \notin live /\ live' = live \union {b}
        /\ pkt' \in [Buffers -> Packet] /\ \A x \in live : pkt'[x] = pkt[x]
    BY <1>1, <2>2 DEF p_emu_packet_init
  <2>4. Running /\ UNCHANGED forwardVars
    BY <1>3 DEF RevNothing, RevReceive
  <2> QED  BY <1>1, <2>2, <2>3, <2>4 DEF HeapType
<1>4. ASSUME NEW r \in SendResults, RevSend(r)
      PROVE  /\ Running /\ UNCHANGED forwardVars
             /\ RevHeld' \subseteq live' /\ live' \ RevHeld' = live \ RevHeld
             /\ \A b \in live \ RevHeld : pkt'[b] = pkt[b]
             /\ HeapType'
  <2>1. RevHeld' = RevHeld
    BY <1>4 DEF RevSend, RevHeld, SharedInv, RevType
  <2> QED  BY <1>1, <1>4, <2>1 DEF RevSend, heapVars, HeapType
<1>5. CASE RevDiscard
  BY <1>1, <1>5 DEF RevDiscard, p_emu_packet_discard, RevAdvance, RevHeld, HeapType
<1> QED  BY <1>2, <1>3, <1>4, <1>5 DEF RevNext

\* The reverse path's variables keep their types.
LEMMA RevTypeStep ==
  ASSUME SharedInv, RevNext
  PROVE  RevType'
<1>1. RevType /\ HeapType
  BY DEF SharedInv, CoreType
<1>2. RevAdvance => rev' \in [pc : {"recv", "send", "discard"}, i : Streams,
                              b : Buffers \union {NoBuffer}] /\ rev'.pc = "recv"
  <2> DEFINE next == IF rev.i = NumStreams THEN 1 ELSE rev.i + 1
  <2>1. next \in Streams
    BY <1>1, ConstantTypes DEF RevType
  <2> HIDE DEF next
  <2> QED  BY <2>1 DEF RevAdvance, next
<1>3. CASE RevAllocFails \/ RevDiscard
  BY <1>1, <1>2, <1>3 DEF RevAllocFails, RevDiscard, RevType, revHistory
<1>4. CASE RevNothing
  BY <1>1, <1>4 DEF RevNothing, RevType, revHistory
<1>5. CASE RevReceive
  <2>1. rev_origin' \in Seq(Streams)
    BY <1>1, <1>5, AppendProperties DEF RevReceive, RevType
  <2> QED  BY <1>1, <1>5, <2>1 DEF RevReceive, RevType
<1>6. ASSUME NEW r \in SendResults, RevSend(r)
      PROVE  RevType'
  <2>1. pkt[rev.b].frame \in Nat /\ rev.i \in Streams /\ rev.b \in Buffers
    BY <1>1, <1>6 DEF RevSend, RevType, HeapType, Packet
  <2>2. rev_out' \in [Streams -> Seq(Nat)] /\ rev_dropped' \subseteq Nat
    <3> DEFINE f == pkt[rev.b].frame
    <3>1. rev_out[rev.i] \in Seq(Nat) /\ Append(rev_out[rev.i], f) \in Seq(Nat)
      BY <1>1, <2>1, AppendProperties DEF RevType
    <3>2. rev_out' = [rev_out EXCEPT ![rev.i] = Append(rev_out[rev.i], f)] \/ UNCHANGED rev_out
      BY <1>6 DEF RevSend
    <3>3. rev_dropped' = rev_dropped \union {f} \/ UNCHANGED rev_dropped
      BY <1>6 DEF RevSend
    <3> HIDE DEF f
    <3>4. rev_out' \in [Streams -> Seq(Nat)]
      BY <1>1, <2>1, <3>1, <3>2 DEF RevType
    <3>5. rev_dropped' \subseteq Nat
      BY <1>1, <2>1, <3>3 DEF RevType, f
    <3> QED  BY <3>4, <3>5
  <2> QED  BY <1>1, <1>6, <2>1, <2>2 DEF RevSend, RevType
<1> QED  BY <1>3, <1>4, <1>5, <1>6 DEF RevNext

\* A step of the reverse path: the forward path does not notice it.
LEMMA SharedByReverse ==
  ASSUME SharedInv, RevNext
  PROVE  SharedInv' /\ UNCHANGED Abstract!vars
<1>1. /\ Running /\ UNCHANGED forwardVars
      /\ RevHeld' \subseteq live' /\ live' \ RevHeld' = live \ RevHeld
      /\ \A b \in live \ RevHeld : pkt'[b] = pkt[b]
      /\ HeapType' /\ RevType'
  BY RevHeap, RevTypeStep
<1>2. UNCHANGED << rx_list, tx_list, rx_sig, tx_sig, timer, now, aborted, rx, pr, tx, txd,
                   origin, out, dropped, early, outlived, leaked >>
  BY <1>1 DEF forwardVars, threadVars, history
<1>3. CoreType'
  BY <1>1, <1>2 DEF SharedInv, CoreType, ListType, SignalType, TimerType, RxType, PrType,
                    TxType, TxdType, HistoryType
<1>4. OwnershipInvOf(RevHeld)'
  <2>1. Contents' = Contents /\ ListOf("rx", 1)' = ListOf("rx", 1)
    BY <1>2 DEF Contents, Content, InHand, ListOf
  <2>2. (\A p \in Places : NoTwice(ListOf(p[1], p[2])))'
    BY <1>2 DEF SharedInv, OwnershipInvOf, ListOf
  <2> QED  BY <1>1, <2>1, <2>2 DEF SharedInv, OwnershipInvOf, HeapParts
<1>5. /\ Owned(RevHeld)' = Owned(RevHeld) /\ Owned(RevHeld) \subseteq live \ RevHeld
      /\ live \subseteq Buffers
      /\ \A b \in Owned(RevHeld) : FrameOf'[b] = FrameOf[b] /\ pkt'[b].frame = pkt[b].frame
  BY <1>1, <1>2 DEF Owned, FrameOf, SharedInv, CoreType, HeapType
<1>6. FrameInv(RevHeld)'
  BY <1>2, <1>5 DEF SharedInv, FrameInv
<1>7. ASSUME NEW s \in Streams
      PROVE  /\ PacketsOf(s)' = PacketsOf(s) /\ Stages(s)' = Stages(s)
             /\ \A b \in PacketsOf(s) : FrameOf'[b] = FrameOf[b] /\ pkt'[b].frame = pkt[b].frame
  <2> PICK R : R = RevHeld
    OBVIOUS
  <2>1. PacketsOf(s) \subseteq Owned(RevHeld)
    BY PacketsInside DEF SharedInv
  <2> QED  BY <1>2, <1>5, <2>1 DEF PacketsOf, Stages
<1>8. FifoInv'
  <2> SUFFICES ASSUME NEW s \in Streams PROVE FifoOf(s)'
    BY DEF FifoInv
  <2>1. TypeOK /\ FifoOf(s)
    BY <1>1, RunningTypes DEF SharedInv, FifoInv
  <2>2. \A i \in 1..5 : Stages(s)'[i] \subseteq Stages(s)[i]
    BY <1>7
  <2> QED  BY <1>2, <1>7, <2>1, <2>2, FifoKept
<1>9. UNCHANGED Abstract!vars
  <2>1. Waits' = Waits
    BY <1>7, WaitsStay
  <2> QED  BY <1>2, <2>1, AbstractSteps
<1> QED
  BY <1>1, <1>2, <1>3, <1>4, <1>6, <1>8, <1>9 DEF SharedInv, TxdInv

-----------------------------------------------------------------------------
(* Messages that survive the process                                       *)

\* The stale messages are among those in the queue; a semaphore has none.
StaleInv ==
    /\ stale \in [rx : Nat, tx : Nat]
    /\ stale.rx <= Len(rx_sig) /\ stale.tx <= Len(tx_sig)
    /\ UseSems => stale.rx = 0 /\ stale.tx = 0

\* What the threads do to a signal: send one at the end, or take the first.
LEMMA SignalMoves ==
  ASSUME CoreType, Running, Next
  PROVE  /\ \/ rx_sig' = rx_sig
            \/ \E s \in Streams : rx_sig' = Post(rx_sig, s)
            \/ PrWait /\ rx_sig # << >> /\ rx_sig' = Tail(rx_sig)
         /\ \/ tx_sig' = tx_sig
            \/ \E s \in Streams : tx_sig' = Post(tx_sig, s)
            \/ TxWait /\ tx_sig # << >> /\ tx_sig' = Tail(tx_sig)
<1>1. rx.i \in Streams /\ pr.i \in Streams
  BY DEF CoreType, RxType, PrType
<1>2. CASE RxNext
  BY <1>1, <1>2 DEF RxNext, RxAllocFails, RxNothing, RxFrame, RxAdd, RxAddFails, RxPost
<1>3. CASE PrNext
  <2>1. tx_sig' = tx_sig \/ tx_sig' = Post(tx_sig, pr.i)
    BY <1>3 DEF PrNext, PrWait, PrCount, PrTake, PrDiscard, PrGiveUp, PrInsertFails,
                PrInsert, PrPost, PrInsertDelayed, PrShow, PrArm, PrArmFaults
  <2>2. rx_sig' = rx_sig \/ (PrWait /\ rx_sig # << >> /\ rx_sig' = Tail(rx_sig))
    BY <1>3 DEF PrNext, PrWait, PrCount, PrTake, PrDiscard, PrGiveUp, PrInsertFails,
                PrInsert, PrPost, PrInsertDelayed, PrShow, PrArm, PrArmFaults
  <2> QED  BY <1>1, <2>1, <2>2
<1>4. CASE TxNext
  BY <1>4 DEF TxNext, TxWait, TxSkip, TxTake, TxSend, TxExhausted
<1>5. CASE TxdNext \/ Tick
  BY <1>5 DEF TxdNext, TxdRead, TxdNothing, TxdTake, TxdSend, TxdShow, TxdArm, Tick
<1> QED  BY <1>2, <1>3, <1>4, <1>5 DEF Next, Halted

\* The length of a signal after such a step.
LEMMA SignalLengths ==
  ASSUME NEW sig \in Seq(Tokens)
  PROVE  /\ Len(sig) \in Nat
         /\ \A s \in Streams : /\ Post(sig, s) \in Seq(Tokens)
                               /\ Len(Post(sig, s)) = Len(sig) + 1
         /\ sig # << >> => Tail(sig) \in Seq(Tokens) /\ Len(Tail(sig)) = Len(sig) - 1
  BY ConstantTypes, AppendProperties, HeadTailProperties, LenProperties, EmptySeq DEF Post

\* Which steps are the forward path's.
LEMMA ThreadSteps ==
  ASSUME RxStep \/ PrStep \/ TxStep \/ TxdStep \/ DaemonTick
  PROVE  /\ Running /\ Next
         /\ UNCHANGED << revVars, main, threads, sockets, restarts >>
<1>1. CASE RxStep
  BY <1>1 DEF RxStep, Next, daemonVars, RxNext, RxAllocFails, RxNothing, RxFrame, RxAdd,
              RxAddFails, RxPost
<1>2. CASE PrStep
  BY <1>2 DEF PrStep, PrTakesStale, Next, daemonVars, PrNext, PrWait, PrCount, PrTake,
              PrDiscard, PrInsertFails, PrInsert, PrPost, PrInsertDelayed, PrShow, PrArm,
              PrArmFaults
<1>3. CASE TxStep
  BY <1>3 DEF TxStep, TxTakesStale, Next, daemonVars, TxNext, TxWait, TxSkip, TxTake,
              TxSend, TxExhausted
<1>4. CASE TxdStep
  BY <1>4 DEF TxdStep, Next, daemonVars, TxdNext, TxdRead, TxdNothing, TxdTake, TxdShow,
              TxdArm, TxdSend
<1>5. CASE DaemonTick
  BY <1>5 DEF DaemonTick, Tick, Next, daemonVars
<1> QED  BY <1>1, <1>2, <1>3, <1>4, <1>5

\* Stale messages are received one by one before any other.
LEMMA StaleByThreads ==
  ASSUME CoreType, StaleInv, RxStep \/ PrStep \/ TxStep \/ TxdStep \/ DaemonTick
  PROVE  StaleInv'
<1>1. /\ rx_sig \in Seq(Tokens) /\ tx_sig \in Seq(Tokens)
      /\ stale \in [rx : Nat, tx : Nat]
      /\ stale.rx <= Len(rx_sig) /\ stale.tx <= Len(tx_sig)
  BY DEF CoreType, SignalType, StaleInv
<1>2. /\ \/ rx_sig' = rx_sig
         \/ \E s \in Streams : rx_sig' = Post(rx_sig, s)
         \/ PrWait /\ rx_sig # << >> /\ rx_sig' = Tail(rx_sig)
      /\ \/ tx_sig' = tx_sig
         \/ \E s \in Streams : tx_sig' = Post(tx_sig, s)
         \/ TxWait /\ tx_sig # << >> /\ tx_sig' = Tail(tx_sig)
  BY ThreadSteps, SignalMoves
<1>3. CASE PrTakesStale
  <2>1. rx_sig # << >> /\ rx_sig' = Tail(rx_sig) /\ tx_sig' = tx_sig
    BY <1>3 DEF PrTakesStale, PrWait
  <2>2. /\ stale.rx > 0 /\ stale' = [stale EXCEPT !.rx = @ - 1]
    BY <1>3 DEF PrTakesStale
  <2>3. /\ stale' \in [rx : Nat, tx : Nat]
        /\ stale'.rx = stale.rx - 1 /\ stale'.tx = stale.tx
    BY <1>1, <2>2
  <2> QED  BY <1>1, <2>1, <2>2, <2>3, SignalLengths DEF StaleInv
<1>4. CASE TxTakesStale
  <2>1. tx_sig # << >> /\ tx_sig' = Tail(tx_sig) /\ rx_sig' = rx_sig
    BY <1>4 DEF TxTakesStale, TxWait
  <2>2. /\ stale.tx > 0 /\ stale' = [stale EXCEPT !.tx = @ - 1]
    BY <1>4 DEF TxTakesStale
  <2>3. /\ stale' \in [rx : Nat, tx : Nat]
        /\ stale'.tx = stale.tx - 1 /\ stale'.rx = stale.rx
    BY <1>1, <2>2
  <2> QED  BY <1>1, <2>1, <2>2, <2>3, SignalLengths DEF StaleInv
<1>5. CASE stale' = stale
  <2>1. CASE ~PrTakesStale /\ ~TxTakesStale
    <3>1. rx_sig' = rx_sig \/ (\E t \in Streams : rx_sig' = Post(rx_sig, t)) \/
          (stale.rx = 0 /\ rx_sig # << >> /\ rx_sig' = Tail(rx_sig))
      <4>1. CASE PrStep
        BY <1>2, <2>1, <4>1 DEF PrStep, PrWait
      <4>2. CASE RxStep \/ TxStep \/ TxdStep \/ DaemonTick
        <5>1. PrWait => pr' # pr
          BY DEF PrWait
        <5>2. pr' = pr
          BY <2>1, <4>2
          DEF RxStep, TxStep, TxdStep, DaemonTick, RxNext, RxAllocFails, RxNothing, RxFrame,
              RxAdd, RxAddFails, RxPost, TxNext, TxWait, TxSkip, TxTake, TxSend, TxExhausted,
              TxdNext, TxdRead, TxdNothing, TxdTake, TxdShow, TxdArm, TxdSend, Tick,
              threadVars
        <5> QED  BY <1>2, <5>1, <5>2
      <4> QED  BY <4>1, <4>2
    <3>2. tx_sig' = tx_sig \/ (\E t \in Streams : tx_sig' = Post(tx_sig, t)) \/
          (stale.tx = 0 /\ tx_sig # << >> /\ tx_sig' = Tail(tx_sig))
      <4>1. CASE TxStep
        BY <1>2, <2>1, <4>1 DEF TxStep, TxWait
      <4>2. CASE RxStep \/ PrStep \/ TxdStep \/ DaemonTick
        <5>1. TxWait => tx' # tx
          BY DEF TxWait
        <5>2. tx' = tx
          BY <2>1, <4>2
          DEF RxStep, PrStep, TxdStep, DaemonTick, RxNext, RxAllocFails, RxNothing, RxFrame,
              RxAdd, RxAddFails, RxPost, PrNext, PrWait, PrCount, PrTake, PrDiscard,
              PrGiveUp, PrInsertFails, PrInsert, PrPost, PrInsertDelayed, PrShow, PrArm,
              PrArmFaults, TxdNext, TxdRead, TxdNothing, TxdTake, TxdShow, TxdArm, TxdSend,
              Tick, threadVars
        <5> QED  BY <1>2, <5>1, <5>2
      <4> QED  BY <4>1, <4>2
    <3>3. Len(rx_sig') >= stale.rx
      BY <1>1, <3>1, SignalLengths
    <3>4. Len(tx_sig') >= stale.tx
      BY <1>1, <3>2, SignalLengths
    <3> QED  BY <1>1, <1>5, <3>3, <3>4, SignalLengths DEF StaleInv
  <2> QED  BY <1>3, <1>4, <2>1
<1> QED
  BY <1>3, <1>4, <1>5 DEF RxStep, PrStep, TxStep, TxdStep, DaemonTick, daemonVars

\* The other steps leave the messages alone, or take the stale one they die of.
LEMMA StaleByOthers ==
  ASSUME CoreType, StaleInv,
         MainNext \/ RevStep \/ StaleFaults \/ Kill \/ Over \/ UNCHANGED allVars
  PROVE  StaleInv' /\ SignalType'
<1>1. /\ rx_sig \in Seq(Tokens) /\ tx_sig \in Seq(Tokens)
      /\ stale \in [rx : Nat, tx : Nat]
      /\ stale.rx <= Len(rx_sig) /\ stale.tx <= Len(tx_sig)
  BY DEF CoreType, SignalType, StaleInv
<1>2. CASE UNCHANGED << rx_sig, tx_sig, stale >>
  BY <1>2 DEF CoreType, StaleInv, SignalType
<1>3. CASE InitSignals
  <2>1. << >> \in Seq(Tokens) /\ Len(<< >>) = 0
    BY EmptySeq
  <2>2. /\ stale' = stale
        /\ rx_sig' = (IF UseSems THEN << >> ELSE rx_sig)
        /\ tx_sig' = (IF UseSems THEN << >> ELSE tx_sig)
    BY <1>3 DEF InitSignals
  <2> QED  BY <1>1, <2>1, <2>2 DEF StaleInv, SignalType
<1>4. CASE StaleFaults
  <2>1. /\ Len(rx_sig) \in Nat /\ Len(tx_sig) \in Nat
        /\ Len(rx_sig) > 0 => rx_sig # << >>
        /\ Len(tx_sig) > 0 => tx_sig # << >>
    BY <1>1, LenProperties, EmptySeq
  <2>2. CASE /\ stale.rx > 0 /\ rx_sig' = Tail(rx_sig) /\ tx_sig' = tx_sig
             /\ stale' = [stale EXCEPT !.rx = @ - 1]
    <3>1. /\ stale' \in [rx : Nat, tx : Nat]
          /\ stale'.rx = stale.rx - 1 /\ stale'.tx = stale.tx
      BY <1>1, <2>2
    <3> QED  BY <1>1, <2>1, <2>2, <3>1, SignalLengths DEF StaleInv, SignalType
  <2>3. CASE /\ stale.tx > 0 /\ tx_sig' = Tail(tx_sig) /\ rx_sig' = rx_sig
             /\ stale' = [stale EXCEPT !.tx = @ - 1]
    <3>1. /\ stale' \in [rx : Nat, tx : Nat]
          /\ stale'.tx = stale.tx - 1 /\ stale'.rx = stale.rx
      BY <1>1, <2>3
    <3> QED  BY <1>1, <2>1, <2>3, <3>1, SignalLengths DEF StaleInv, SignalType
  <2> QED  BY <1>4, <2>2, <2>3 DEF StaleFaults
<1> QED
  <2>1. NotRoot \/ CreateThread \/ CreateFails \/ Join \/ JoinFaults
        \/ InitSignalsFails \/ Kill
          => UNCHANGED << rx_sig, tx_sig, stale >>
    BY DEF NotRoot, CreateThread, CreateFails, Join, JoinFaults, InitSignalsFails, Kill,
           daemonVars
  <2>2. \A open \in Opened : OpenFds(open) => UNCHANGED << rx_sig, tx_sig, stale >>
    BY DEF OpenFds
  <2>3. RevStep \/ Over \/ UNCHANGED allVars => UNCHANGED << rx_sig, tx_sig, stale >>
    BY DEF RevStep, RevNext, RevAllocFails, RevNothing, RevReceive, RevSend, RevDiscard,
           forwardVars, Over, allVars, vars, daemonVars
  <2> QED  BY <1>2, <1>3, <1>4, <2>1, <2>2, <2>3 DEF MainNext

\* What waits in a queue when the process starts again is stale.
LEMMA StaleByRestart ==
  ASSUME CoreType, Restart
  PROVE  StaleInv' /\ SignalType'
<1>1. /\ rx_sig' \in Seq(Tokens) /\ tx_sig' \in Seq(Tokens)
      /\ UseSems => rx_sig' = << >> /\ tx_sig' = << >>
      /\ stale' = [rx |-> Len(rx_sig'), tx |-> Len(tx_sig')]
  BY EmptySeq DEF Restart, CoreType, SignalType
<1>2. Len(rx_sig') \in Nat /\ Len(tx_sig') \in Nat
  BY <1>1, LenProperties
<1> QED  BY <1>1, <1>2, EmptySeq DEF StaleInv, SignalType

-----------------------------------------------------------------------------
(* Every step of the process                                               *)

\* The work of the threads left alone.
LEMMA SharedKept ==
  ASSUME SharedInv, UNCHANGED workVars, SignalType'
  PROVE  SharedInv' /\ UNCHANGED Abstract!vars
<1>1. UNCHANGED << live, pkt, rx_list, tx_list, timer, now, rx, pr, tx, txd, origin, out,
                   dropped, early, outlived, leaked, rev, rev_origin, rev_out, rev_dropped >>
  BY DEF workVars, heapVars, threadVars, history, revVars
<1>2. CoreType' /\ RevType'
  <2>1. CoreType /\ RevType
    BY DEF SharedInv
  <2>2. HeapType' /\ ListType' /\ TimerType'
    BY <1>1, <2>1 DEF CoreType, HeapType, ListType, TimerType
  <2>3. RxType' /\ PrType' /\ TxType' /\ TxdType'
    BY <1>1, <2>1 DEF CoreType, RxType, PrType, TxType, TxdType
  <2>4. HistoryType' /\ RevType'
    BY <1>1, <2>1 DEF CoreType, HistoryType, RevType
  <2> QED  BY <2>2, <2>3, <2>4 DEF CoreType
<1>3. Contents' = Contents /\ RevHeld' = RevHeld
  BY <1>1 DEF Contents, Content, InHand, RevHeld
<1>4. OwnershipInvOf(RevHeld)'
  BY <1>1, <1>3 DEF SharedInv, OwnershipInvOf, HeapParts, ListOf
<1>5. FrameInv(RevHeld)' /\ TxdInv'
  BY <1>1, <1>3 DEF SharedInv, FrameInv, Owned, FrameOf, TxdInv
<1>6. FifoInv' /\ Waits' = Waits
  BY <1>1 DEF SharedInv, FifoInv, FifoOf, Stages, FrameOf, Waits, PacketsOf
<1>7. UNCHANGED Abstract!vars
  BY <1>1, <1>6, AbstractSteps
<1> QED  BY <1>2, <1>4, <1>5, <1>6, <1>7 DEF SharedInv

\* A process that is empty after a step.
LEMMA EmptyProcess ==
  ASSUME rx'.pc = "recv", pr'.pc = "wait", tx'.pc = "wait", txd'.pc = "read",
         rev'.pc = "recv", live' = {}, leaked' = {},
         rx_list' = [s \in Streams |-> << >>], tx_list' = [s \in Streams |-> << >>]
  PROVE  /\ OwnershipInvOf(RevHeld)' /\ FrameInv(RevHeld)' /\ TxdInv' /\ FifoInv'
         /\ \A s \in Streams : PacketsOf(s)' = {}
<1>1. ToSet(<< >>) = {} /\ Len(<< >>) = 0
  BY DEF ToSet
<1>2. RevHeld' = {} /\ \A k \in 1..4 : InHand'[k] = {}
  BY DEF RevHeld, InHand
<1>3. \A p \in AllPlaces : Contents'[p] = {}
  BY <1>1, <1>2, PlaceCases
<1>4. OwnershipInvOf(RevHeld)'
  <2>1. IsPartition(Contents, live \ RevHeld)'
    BY <1>2, <1>3 DEF IsPartition, Contents
  <2>2. (\A p \in Places : ListOf(p[1], p[2]) = << >>)'
    BY DEF Places, ListOf
  <2> QED  BY <1>2, <2>1, <2>2 DEF OwnershipInvOf, HeapParts, NoTwice
<1>5. FrameInv(RevHeld)' /\ TxdInv'
  BY DEF FrameInv, Owned, TxdInv
<1>6. FifoInv'
  <2> SUFFICES ASSUME NEW s \in Streams PROVE FifoOf(s)'
    BY DEF FifoInv
  <2>1. \A i \in 1..5 : Stages(s)'[i] = {}
    BY <1>1 DEF Stages
  <2> QED  BY <1>1, <2>1 DEF FifoOf, Ordered, Increasing
<1>7. \A s \in Streams : PacketsOf(s)' = {}
  BY <1>1 DEF PacketsOf
<1> QED  BY <1>4, <1>5, <1>6, <1>7

\* The frames in transit are those that wait on some stream.
LEMMA InTransitWaits ==
  ASSUME CoreType, HeldBuffers \union QueuedBuffers \subseteq Buffers
  PROVE  InTransit = UNION {Waits[s] : s \in Streams} /\ InTransit \subseteq Nat
<1>1. \A s \in Streams : PacketsOf(s) \subseteq HeldBuffers \union QueuedBuffers
  <2> SUFFICES ASSUME NEW s \in Streams, NEW b \in PacketsOf(s)
               PROVE  b \in HeldBuffers \union QueuedBuffers
    OBVIOUS
  <2>1. /\ << "rx", s >> \in Places /\ ToSet(ListOf("rx", s)) = ToSet(rx_list[s])
        /\ << "tx", s >> \in Places /\ ToSet(ListOf("tx", s)) = ToSet(tx_list[s])
    BY DEF Places, ListOf
  <2>2. ToSet(rx_list[s]) \union ToSet(tx_list[s]) \subseteq QueuedBuffers
    <3>1. ToSet(ListOf("rx", s)) \subseteq QueuedBuffers
      BY <2>1 DEF QueuedBuffers
    <3>2. ToSet(ListOf("tx", s)) \subseteq QueuedBuffers
      BY <2>1 DEF QueuedBuffers
    <3> QED  BY <2>1, <3>1, <3>2
  <2> QED  BY <2>2, PlacesAre DEF PacketsOf, HandFacts, HeldBuffers
<1>2. \A b \in HeldBuffers \union QueuedBuffers : \E s \in Streams : b \in PacketsOf(s)
  <2>1. ASSUME NEW b \in HeldBuffers
        PROVE  \E s \in Streams : b \in PacketsOf(s)
    <3>1. rx.i \in Streams /\ pr.i \in Streams /\ tx.i \in Streams /\ txd.i \in Streams
      BY DEF CoreType, RxType, PrType, TxType, TxdType
    <3>2. PICK k \in 1..4 : b \in InHand[k]
      BY DEF HeldBuffers
    <3>3. CASE k = 1
      BY <3>1, <3>2, <3>3, PlacesAre DEF HandFacts, PacketsOf
    <3>4. CASE k = 2
      BY <3>1, <3>2, <3>4, PlacesAre DEF HandFacts, PacketsOf
    <3>5. CASE k = 3
      BY <3>1, <3>2, <3>5, PlacesAre DEF HandFacts, PacketsOf
    <3>6. CASE k = 4
      BY <3>1, <3>2, <3>6, PlacesAre DEF HandFacts, PacketsOf
    <3> QED  BY <3>3, <3>4, <3>5, <3>6
  <2>2. ASSUME NEW b \in QueuedBuffers
        PROVE  \E s \in Streams : b \in PacketsOf(s)
    <3>1. PICK p \in Places : b \in ToSet(ListOf(p[1], p[2]))
      BY DEF QueuedBuffers
    <3> QED  BY <3>1 DEF Places, ListOf, PacketsOf
  <2> QED  BY <2>1, <2>2
<1>3. InTransit = UNION {Waits[s] : s \in Streams}
  BY <1>1, <1>2 DEF InTransit, Waits
<1>4. InTransit \subseteq Nat
  BY DEF InTransit, CoreType, HeapType, Packet
<1> QED  BY <1>3, <1>4

\* A new process: to an observer of the frames the old one has given up what it had.
LEMMA SharedByRestart ==
  ASSUME SharedInv, Restart
  PROVE  SharedInv' /\ Abstract!Next
<1>1. /\ rx' = RxStart /\ pr' = PrWaiting /\ tx' = TxWaiting /\ txd' = TxdStart
      /\ rev' = RevStart /\ live' = {} /\ leaked' = {} /\ outlived' = {}
      /\ pkt' = [b \in Buffers |-> BlankPacket]
      /\ rx_list' = [s \in Streams |-> << >>] /\ tx_list' = [s \in Streams |-> << >>]
      /\ timer' = [s \in Streams |-> 0]
      /\ dropped' = dropped \union InTransit
      /\ UNCHANGED << now, origin, out, early, rev_origin, rev_out >>
  BY DEF Restart
<1>2. /\ OwnershipInvOf(RevHeld)' /\ FrameInv(RevHeld)' /\ TxdInv' /\ FifoInv'
      /\ \A s \in Streams : PacketsOf(s)' = {}
  <2>1. rx'.pc = "recv" /\ pr'.pc = "wait" /\ tx'.pc = "wait" /\ txd'.pc = "read"
        /\ rev'.pc = "recv"
    BY <1>1 DEF RxStart, PrWaiting, TxWaiting, TxdStart, RevStart
  <2> QED  BY <1>1, <2>1, EmptyProcess
<1>3. /\ InTransit = UNION {Waits[s] : s \in Streams} /\ InTransit \subseteq Nat
      /\ \A b \in Buffers : pkt[b].frame \in Nat
  <2>1. HeldBuffers \union QueuedBuffers \subseteq Buffers
    <3> PICK R : R = RevHeld
      OBVIOUS
    <3>1. live = HeldBuffers \union QueuedBuffers \union leaked \union RevHeld
      BY OwnershipMeans DEF SharedInv
    <3> QED  BY <3>1 DEF SharedInv, CoreType, HeapType
  <2> QED  BY <2>1, InTransitWaits DEF SharedInv, CoreType, HeapType, Packet
<1>4. CoreType'
  <2>1. HeapType' /\ ListType' /\ TimerType' /\ SignalType'
    BY <1>1, ConstantTypes, EmptySeq, StaleByRestart
    DEF SharedInv, CoreType, HeapType, ListType, TimerType
  <2>2. RxType' /\ PrType' /\ TxType' /\ TxdType'
    BY <1>1, ConstantTypes
    DEF RxType, PrType, TxType, TxdType, RxStart, PrWaiting, TxWaiting, TxdStart
  <2>3. HistoryType'
    BY <1>1, <1>3 DEF SharedInv, CoreType, HistoryType
  <2> QED  BY <2>1, <2>2, <2>3 DEF CoreType
<1>5. RevType'
  <2>1. rev_dropped' \subseteq Nat
    BY <1>3 DEF Restart, SharedInv, RevType
  <2> QED  BY <1>1, <2>1, ConstantTypes DEF SharedInv, RevType, RevStart
<1>6. Abstract!Next
  <2>1. Waits' = [s \in Streams |-> {}]
    BY <1>2 DEF Waits
  <2>2. Abstract!Die
    BY <1>1, <1>3, <2>1 DEF Abstract!Die, Waits
  <2> QED  BY <2>2 DEF Abstract!Next
<1> QED  BY <1>2, <1>4, <1>5, <1>6 DEF SharedInv

\* Every step of the process is one of these.
LEMMA DaemonKinds ==
  ASSUME [DaemonNext]_allVars
  PROVE  \/ RxStep \/ PrStep \/ TxStep \/ TxdStep \/ DaemonTick
         \/ RevStep \/ Restart
         \/ /\ MainNext \/ StaleFaults \/ Kill \/ Over \/ UNCHANGED allVars
            /\ UNCHANGED workVars
<1>1. NotRoot \/ InitSignals \/ CreateThread \/ CreateFails \/ Join \/ JoinFaults
      \/ InitSignalsFails
        => UNCHANGED workVars
  BY DEF NotRoot, InitSignals, CreateThread, CreateFails, Join, JoinFaults, InitSignalsFails
<1>2. \A open \in Opened : OpenFds(open) => UNCHANGED workVars
  BY DEF OpenFds
<1>3. StaleFaults \/ Kill => UNCHANGED workVars
  BY DEF StaleFaults, Kill
<1>4. Over \/ UNCHANGED allVars => UNCHANGED workVars
  BY DEF Over, allVars, vars, workVars, heapVars, threadVars, history
<1> QED  BY <1>1, <1>2, <1>3, <1>4 DEF DaemonNext, MainNext

\* Nothing is allocated, and nothing is stale, when the program is first run.
LEMMA SharedInit == DaemonInit => SharedInv /\ StaleInv /\ Abstract!Init
<1> SUFFICES ASSUME DaemonInit PROVE SharedInv /\ StaleInv /\ Abstract!Init
  OBVIOUS
<1>1. EmulatorInvOf({}) /\ Abstract!Init
  BY EmulatorInit DEF DaemonInit, EmulatorInv
<1>2. RevHeld = {} /\ RevType
  BY ConstantTypes, EmptySeq DEF DaemonInit, RevInit, RevStart, RevHeld, RevType
<1>3. StaleInv
  BY EmptySeq DEF DaemonInit, Init, StaleInv
<1> QED  BY <1>1, <1>2, <1>3 DEF EmulatorInvOf, SharedInv, CoreType, TypeOK

\* Every step of the process, its death and its restart included, keeps the
\* invariant and is a step of Emulator or none.
LEMMA SharedStep ==
  SharedInv /\ StaleInv /\ [DaemonNext]_allVars
    => SharedInv' /\ StaleInv' /\ [Abstract!Next]_(Abstract!vars)
<1> SUFFICES ASSUME SharedInv, StaleInv, [DaemonNext]_allVars
             PROVE  SharedInv' /\ StaleInv' /\ [Abstract!Next]_(Abstract!vars)
  OBVIOUS
<1>1. CoreType
  BY DEF SharedInv
<1>2. CASE RxStep \/ PrStep \/ TxStep \/ TxdStep \/ DaemonTick
  BY <1>1, <1>2, ThreadSteps, SharedByForward, StaleByThreads
<1>3. CASE RevStep
  BY <1>1, <1>3, SharedByReverse, StaleByOthers DEF RevStep
<1>4. CASE Restart
  BY <1>1, <1>4, SharedByRestart, StaleByRestart
<1>5. CASE /\ MainNext \/ StaleFaults \/ Kill \/ Over \/ UNCHANGED allVars
           /\ UNCHANGED workVars
  BY <1>1, <1>5, SharedKept, StaleByOthers
<1> QED  BY <1>2, <1>3, <1>4, <1>5, DaemonKinds

\* What the two paths share, and what the stale pointers may be, always holds.
LEMMA SharedAlways == DaemonSpec => []SharedInv /\ []StaleInv
  BY SharedInit, SharedStep, PTL DEF DaemonSpec

\* What the invariant says of the buffers.
LEMMA SharedMeans == SharedInv => BufferHasOneOwner /\ ReverseLeaksNothing
<1> SUFFICES ASSUME SharedInv PROVE BufferHasOneOwner /\ ReverseLeaksNothing
  OBVIOUS
<1> PICK R : R = RevHeld
  OBVIOUS
<1>1. OwnershipInvOf(R)
  BY DEF SharedInv
<1> QED
  BY <1>1, OwnershipMeans DEF BufferHasOneOwner, ReverseLeaksNothing, OwnershipInvOf, HeapParts

-----------------------------------------------------------------------------
(* Types                                                                   *)

\* The counters of the process, and threads that do not exist yet.
ThreadInv ==
    /\ threads \subseteq ThreadNames
    /\ strayed \in BOOLEAN
    /\ restarts \in 0..MaxRestarts
    /\ "rx" \notin threads => rx.pc = "recv" /\ rx.i = 1
    /\ "pr" \notin threads => pr = PrWaiting
    /\ "tx" \notin threads => tx = TxWaiting

\* A thread is moved by its own steps only.
LEMMA ThreadsApart ==
  /\ RxStep \/ TxdStep \/ DaemonTick \/ RevStep => pr' = pr /\ tx' = tx
  /\ PrStep => rx' = rx /\ tx' = tx
  /\ TxStep => rx' = rx /\ pr' = pr
  /\ TxdStep \/ DaemonTick \/ RevStep => rx' = rx
<1>1. RxStep => pr' = pr /\ tx' = tx
  BY DEF RxStep, RxNext, RxAllocFails, RxNothing, RxFrame, RxAdd, RxAddFails, RxPost
<1>2. PrStep => rx' = rx /\ tx' = tx
  BY DEF PrStep, PrTakesStale, PrNext, PrWait, PrCount, PrTake, PrDiscard, PrGiveUp,
         PrInsertFails, PrInsert, PrPost, PrInsertDelayed, PrShow, PrArm, PrArmFaults,
         threadVars
<1>3. TxStep => rx' = rx /\ pr' = pr
  BY DEF TxStep, TxTakesStale, TxNext, TxWait, TxSkip, TxTake, TxSend, TxExhausted,
         threadVars
<1>4. TxdStep => rx' = rx /\ pr' = pr /\ tx' = tx
  BY DEF TxdStep, TxdNext, TxdRead, TxdNothing, TxdTake, TxdSend, TxdShow, TxdArm
<1>5. DaemonTick => rx' = rx /\ pr' = pr /\ tx' = tx
  BY DEF DaemonTick, Tick, threadVars
<1>6. RevStep => rx' = rx /\ pr' = pr /\ tx' = tx
  BY DEF RevStep, RevNext, RevAllocFails, RevNothing, RevReceive, RevSend, RevDiscard,
         forwardVars, threadVars
<1> QED  BY <1>1, <1>2, <1>3, <1>4, <1>5, <1>6

\* The threads p_emu_start creates, by name.
LEMMA NamesOfThreads ==
  /\ ThreadNames = {"rx", "pr", "tx", "txd", "rev"}
  /\ \A i \in 2..6 : StartSteps[i] \in ThreadNames
<1>1. DOMAIN JoinOrder = 1..5
  BY DEF JoinOrder
<1>2. ThreadNames = {"rx", "pr", "tx", "txd", "rev"}
  BY <1>1 DEF ThreadNames, JoinOrder
<1> QED  BY <1>2 DEF StartSteps

\* No thread runs when the process starts.
LEMMA ThreadInvInit == DaemonInit => ThreadInv
<1> SUFFICES ASSUME DaemonInit PROVE ThreadInv
  OBVIOUS
<1>1. rx = RxStart /\ pr = PrWaiting /\ tx = TxWaiting
  BY DEF DaemonInit, Init, RxInit, PrInit, TxInit
<1>2. threads = {} /\ strayed = FALSE /\ restarts = 0 /\ 0 \in 0..MaxRestarts
  BY DaemonAssumption DEF DaemonInit
<1> QED  BY <1>1, <1>2 DEF ThreadInv, RxStart

\* Every step of the process keeps what is known of its threads.
LEMMA ThreadInvStep == DaemonInv /\ ThreadInv /\ [DaemonNext]_allVars => ThreadInv'
<1> SUFFICES ASSUME DaemonInv, ThreadInv, [DaemonNext]_allVars PROVE ThreadInv'
  OBVIOUS
<1>1. CASE RxStep \/ PrStep \/ TxStep \/ TxdStep \/ DaemonTick
  <2>1. UNCHANGED << threads, restarts >>
    BY <1>1, ThreadSteps
  <2>2. strayed' \in BOOLEAN
    BY <1>1 DEF ThreadInv, RxStep, PrStep, PrTakesStale, TxStep, TxTakesStale, TxdStep,
                DaemonTick, daemonVars
  <2>3. /\ RxStep => "rx" \in threads
        /\ PrStep => "pr" \in threads
        /\ TxStep => "tx" \in threads
    BY DEF RxStep, PrStep, TxStep
  <2> QED  BY <1>1, <2>1, <2>2, <2>3, ThreadsApart DEF ThreadInv
<1>2. CASE RevStep
  BY <1>2, ThreadsApart DEF ThreadInv, RevStep, daemonVars
<1>3. CASE Restart
  <2>1. restarts + 1 \in 0..MaxRestarts
    BY <1>3, DaemonAssumption DEF Restart, ThreadInv
  <2> QED  BY <1>3, <2>1 DEF Restart, ThreadInv, RxStart
<1>4. CASE /\ MainNext \/ StaleFaults \/ Kill \/ Over \/ UNCHANGED allVars
           /\ UNCHANGED workVars
  <2>1. rx' = rx /\ pr' = pr /\ tx' = tx
    BY <1>4 DEF workVars, threadVars
  <2>2. threads \subseteq threads' /\ threads' \subseteq ThreadNames
    <3>1. CASE CreateThread
      <4>1. main.i \in 2..6
        BY <3>1, StepNames DEF CreateThread, DaemonInv, StartInv
      <4> QED  BY <3>1, <4>1, NamesOfThreads DEF CreateThread, ThreadInv
    <3>2. CASE threads' = threads
      BY <3>2 DEF ThreadInv
    <3>3. NotRoot \/ InitSignals \/ CreateFails \/ Join \/ JoinFaults
          \/ InitSignalsFails \/ StaleFaults \/ Kill
            => threads' = threads
      BY DEF NotRoot, InitSignals, CreateFails, Join, JoinFaults, InitSignalsFails,
             StaleFaults, Kill,
             daemonVars
    <3>4. (\E open \in Opened : OpenFds(open)) \/ Over \/ UNCHANGED allVars
            => threads' = threads
      BY DEF OpenFds, Over, allVars, daemonVars
    <3> QED  BY <1>4, <3>1, <3>2, <3>3, <3>4 DEF MainNext
  <2>3. UNCHANGED << strayed, restarts >>
    <3>1. NotRoot \/ InitSignals \/ CreateThread \/ CreateFails \/ Join \/ JoinFaults
          \/ InitSignalsFails
          \/ StaleFaults \/ Kill => UNCHANGED << strayed, restarts >>
      BY DEF NotRoot, InitSignals, CreateThread, CreateFails, Join, JoinFaults,
             InitSignalsFails, StaleFaults,
             Kill, daemonVars
    <3>2. (\E open \in Opened : OpenFds(open)) \/ Over \/ UNCHANGED allVars
            => UNCHANGED << strayed, restarts >>
      BY DEF OpenFds, Over, allVars, daemonVars
    <3> QED  BY <1>4, <3>1, <3>2 DEF MainNext
  <2> QED  BY <2>1, <2>2, <2>3 DEF ThreadInv
<1> QED  BY <1>1, <1>2, <1>3, <1>4, DaemonKinds

-----------------------------------------------------------------------------
(* The theorems about both directions                                      *)

\* Every variable of the process keeps its type, through deaths and restarts: no
\* more messages are stale than wait, and no thread has moved before it exists.
THEOREM DaemonTypeCorrect == DaemonSpec => []DaemonType
<1>1. DaemonInv /\ ThreadInv /\ SharedInv /\ StaleInv => DaemonType
  <2> SUFFICES ASSUME DaemonInv, ThreadInv, SharedInv, StaleInv PROVE DaemonType
    OBVIOUS
  <2>1. Len(rx_sig) \in Nat /\ Len(tx_sig) \in Nat
    BY LenProperties DEF SharedInv, CoreType, SignalType
  <2> QED  BY <2>1 DEF DaemonInv, ThreadInv, SharedInv, StaleInv, DaemonType, Both
<1> QED
  BY <1>1, SharedAlways, ThreadInvInit, ThreadInvStep, DaemonInvInit, DaemonInvStep, PTL
  DEF DaemonSpec

\* The two directions never work on the same buffer, though they share the heap.
THEOREM BuffersHaveOneOwner == DaemonSpec => []BufferHasOneOwner
  BY SharedAlways, SharedMeans, PTL

\* What p_emu_rx_reverse_packet allocates it frees, whatever recvfrom and sendto
\* return: nothing in the heap is lost but what p_emu_rx_packet loses.
THEOREM ReverseNeverLeaks == DaemonSpec => []ReverseLeaksNothing
  BY SharedAlways, SharedMeans, PTL

\* Emulator's promise for the forward path holds of the whole process: while main
\* creates the threads, beside the reverse path, whatever stale messages wake the
\* threads, and when it dies and is started again.
THEOREM ProcessImplementsEmulator == DaemonSpec => ImplementsEmulator
<1>1. DaemonSpec => Abstract!Init /\ [][Abstract!Next]_(Abstract!vars)
  BY SharedInit, SharedStep, PTL DEF DaemonSpec
<1> QED  BY <1>1, PTL DEF ImplementsEmulator, Abstract!Spec

-----------------------------------------------------------------------------
(* The way back                                                            *)

\* The frame in hand is the one received last.
RevFrameInv == rev.pc = "send" => pkt[rev.b].frame = MaxFrames + Len(rev_origin)

\* The frames of the way back as Emulator numbers them.
Numbered(list) == [k \in DOMAIN list |-> list[k] - MaxFrames]

BackWaits ==
    [s \in Streams |-> IF rev.pc = "send" /\ rev.i = s THEN {pkt[rev.b].frame - MaxFrames}
                       ELSE {}]
BackOut == [s \in Streams |-> Numbered(rev_out[s])]
BackDropped == {f - MaxFrames : f \in rev_dropped}

\* One more frame sent back.
LEMMA NumberedAppend ==
  ASSUME NEW list \in Seq(Nat), NEW f \in Nat
  PROVE  Numbered(Append(list, f)) = Append(Numbered(list), f - MaxFrames)
<1> DEFINE longer == Append(list, f)
<1>1. /\ Len(list) \in Nat /\ DOMAIN list = 1..Len(list)
      /\ DOMAIN longer = 1..(Len(list) + 1)
      /\ \A i \in 1..Len(list) : longer[i] = list[i]
      /\ longer[Len(list) + 1] = f
  BY AppendProperties, LenProperties
<1>2. Numbered(list) \in Seq(Int) /\ Len(Numbered(list)) = Len(list)
  <2>1. Numbered(list) \in [1..Len(list) -> Int]
    BY <1>1, CoreAssumption, ElementOfSeq DEF Numbered
  <2> QED  BY <1>1, <2>1, SeqDef, LenProperties
<1>3. f - MaxFrames \in Int
  BY CoreAssumption
<1> PICK q : q = Numbered(list)
  OBVIOUS
<1> PICK n : n = f - MaxFrames
  OBVIOUS
<1> DEFINE more == Append(q, n)
<1>4. /\ DOMAIN more = 1..(Len(list) + 1)
      /\ more \in Seq(Int)
      /\ \A i \in 1..Len(list) : more[i] = q[i]
      /\ more[Len(list) + 1] = n
  <2>1. q \in Seq(Int) /\ n \in Int /\ Len(q) = Len(list)
    BY <1>2, <1>3
  <2> QED  BY <1>1, <2>1, AppendProperties, LenProperties
<1>5. \A i \in 1..(Len(list) + 1) : more[i] = longer[i] - MaxFrames
  <2>1. more[Len(list) + 1] = longer[Len(list) + 1] - MaxFrames
    BY <1>1, <1>4
  <2>2. \A i \in 1..Len(list) : more[i] = longer[i] - MaxFrames
    BY <1>1, <1>4 DEF Numbered
  <2>3. \A i \in 1..(Len(list) + 1) : i = Len(list) + 1 \/ i \in 1..Len(list)
    BY <1>1
  <2> QED  BY <2>1, <2>2, <2>3
<1>6. more = [i \in DOMAIN more |-> more[i]]
  BY <1>4
<1> HIDE DEF longer, more
<1>7. Numbered(longer) = more
  BY <1>1, <1>4, <1>5, <1>6 DEF Numbered
<1> QED  BY <1>7 DEF longer, more

\* Emulator's steps on the way back.
LEMMA BackwardSteps ==
  /\ UNCHANGED << BackWaits, rev_origin, BackOut, BackDropped >> => UNCHANGED Backward!vars
  /\ \A s \in Streams :
       /\ Len(rev_origin') = Len(rev_origin) + 1
       /\ BackWaits' = [BackWaits EXCEPT ![s] = @ \union {Len(rev_origin) + 1}]
       /\ UNCHANGED << BackOut, BackDropped >>
       => Backward!Next
  /\ \A s \in Streams : \A f \in BackWaits[s] :
       /\ BackWaits' = [BackWaits EXCEPT ![s] = @ \ {f}]
       /\ UNCHANGED rev_origin
       /\ \/ BackDropped' = BackDropped \union {f} /\ UNCHANGED BackOut
          \/ /\ BackOut' = [BackOut EXCEPT ![s] = Append(@, f)] /\ UNCHANGED BackDropped
             /\ \A g \in BackWaits[s] : f <= g
       => Backward!Next
  /\ /\ BackDropped' = BackDropped \union UNION {BackWaits[s] : s \in Streams}
     /\ BackWaits' = [s \in Streams |-> {}]
     /\ UNCHANGED << rev_origin, BackOut >>
     => Backward!Next
<1> USE DEF BackWaits, BackOut, BackDropped, Numbered
<1>1. UNCHANGED << BackWaits, rev_origin, BackOut, BackDropped >> => UNCHANGED Backward!vars
  BY DEF Backward!vars
<1>2. ASSUME NEW s \in Streams, Len(rev_origin') = Len(rev_origin) + 1,
             BackWaits' = [BackWaits EXCEPT ![s] = @ \union {Len(rev_origin) + 1}],
             UNCHANGED << BackOut, BackDropped >>
      PROVE  Backward!Next
  <2>1. Backward!Accept(s)
    BY <1>2 DEF Backward!Accept
  <2> QED  BY <2>1 DEF Backward!Next
<1>3. ASSUME NEW s \in Streams, NEW f \in BackWaits[s],
             BackWaits' = [BackWaits EXCEPT ![s] = @ \ {f}], UNCHANGED rev_origin,
             \/ BackDropped' = BackDropped \union {f} /\ UNCHANGED BackOut
             \/ /\ BackOut' = [BackOut EXCEPT ![s] = Append(@, f)] /\ UNCHANGED BackDropped
                /\ \A g \in BackWaits[s] : f <= g
      PROVE  Backward!Next
  <2>1. Backward!Drop(s, f) \/ Backward!Send(s, f)
    BY <1>3 DEF Backward!Drop, Backward!Send
  <2> QED  BY <1>3, <2>1 DEF Backward!Next
<1>4. ASSUME BackDropped' = BackDropped \union UNION {BackWaits[s] : s \in Streams},
             BackWaits' = [s \in Streams |-> {}],
             UNCHANGED << rev_origin, BackOut >>
      PROVE  Backward!Next
  <2>1. Backward!Die
    BY <1>4 DEF Backward!Die
  <2> QED  BY <2>1 DEF Backward!Next
<1> QED  BY <1>1, <1>2, <1>3, <1>4

\* No step of the forward path changes the frame in an allocated buffer.
LEMMA FramesStay ==
  ASSUME CoreType, Running, Next
  PROVE  \A b \in live : pkt'[b].frame = pkt[b].frame
<1>1. pkt \in [Buffers -> Packet] /\ live \subseteq Buffers
  BY DEF CoreType, HeapType
<1>2. CASE RxNothing \/ RxFrame
  <2>1. \E b \in Buffers \ live : \E c : pkt' = [pkt EXCEPT ![b] = c]
    BY <1>2 DEF RxNothing, RxFrame, p_emu_packet_init
  <2> QED  BY <1>1, <2>1
<1>3. ASSUME NEW d \in DelayOffsets, PrInsertDelayed(d)
      PROVE  \A b \in live : pkt'[b].frame = pkt[b].frame
  <2>1. \E t : pkt' = [pkt EXCEPT ![pr.b].leave = t]
    BY <1>3 DEF PrInsertDelayed
  <2> QED  BY <1>1, <2>1 DEF Packet
<1>4. CASE pkt' = pkt
  BY <1>4
<1>5. RxNext => RxNothing \/ RxFrame \/ pkt' = pkt
  BY DEF RxNext, RxAllocFails, RxAdd, RxAddFails, RxPost, heapVars
<1>6. PrNext => (\E d \in DelayOffsets : PrInsertDelayed(d)) \/ pkt' = pkt
  BY DEF PrNext, PrWait, PrCount, PrTake, PrDiscard, PrGiveUp, PrInsertFails, PrInsert,
         PrPost, PrShow, PrArm, PrArmFaults, heapVars
<1>7. TxNext \/ TxdNext \/ Tick => pkt' = pkt
  BY DEF TxNext, TxWait, TxSkip, TxTake, TxSend, TxExhausted, TxdNext, TxdRead, TxdNothing,
         TxdTake, TxdSend, TxdShow, TxdArm, Tick, heapVars
<1> QED  BY <1>2, <1>3, <1>4, <1>5, <1>6, <1>7 DEF Next, Halted

\* The steps of everybody else are none of the way back.
LEMMA BackwardQuiet ==
  ASSUME SharedInv, RevFrameInv, UNCHANGED revVars,
         \A b \in live : pkt'[b].frame = pkt[b].frame
  PROVE  RevFrameInv' /\ UNCHANGED Backward!vars
<1>1. UNCHANGED << rev, rev_origin, rev_out, rev_dropped >>
  BY DEF revVars
<1>2. rev.pc = "send" => pkt'[rev.b].frame = pkt[rev.b].frame
  BY DEF SharedInv, OwnershipInvOf, HeapParts, RevHeld
<1>3. RevFrameInv'
  BY <1>1, <1>2 DEF RevFrameInv
<1>4. UNCHANGED << BackWaits, BackOut, BackDropped >>
  BY <1>1, <1>2 DEF BackWaits, BackOut, BackDropped
<1> QED  BY <1>1, <1>3, <1>4, BackwardSteps

\* Each step of the reverse path is one of Emulator's, or none.
LEMMA BackwardByReverse ==
  ASSUME SharedInv, RevFrameInv, RevNext
  PROVE  RevFrameInv' /\ [Backward!Next]_(Backward!vars)
<1>1. /\ RevType /\ HeapType
      /\ Len(rev_origin) \in Nat /\ MaxFrames \in Nat
  BY CoreAssumption, LenProperties DEF SharedInv, CoreType, RevType
<1>2. CASE RevAllocFails \/ RevNothing \/ RevDiscard
  <2>1. /\ rev.pc # "send" /\ rev'.pc # "send"
        /\ UNCHANGED << rev_origin, rev_out, rev_dropped >>
    <3>1. CASE RevNothing
      <4>1. \E b \in Buffers : rev' = [rev EXCEPT !.pc = "discard", !.b = b]
        BY <3>1 DEF RevNothing
      <4>2. rev'.pc = "discard"
        BY <1>1, <4>1 DEF RevType
      <4> QED  BY <3>1, <4>2 DEF RevNothing, revHistory
    <3>2. CASE RevAllocFails \/ RevDiscard
      BY <3>2 DEF RevAllocFails, RevDiscard, RevAdvance, revHistory
    <3> QED  BY <1>2, <3>1, <3>2
  <2>2. UNCHANGED << BackWaits, BackOut, BackDropped >>
    BY <2>1 DEF BackWaits, BackOut, BackDropped
  <2> QED  BY <2>1, <2>2, BackwardSteps DEF RevFrameInv
<1>3. CASE RevReceive
  <2>1. PICK b \in Buffers :
          /\ p_emu_packet_init(b, [BlankPacket EXCEPT
                                     !.frame = RevFrame(Len(rev_origin) + 1)])
          /\ rev' = [rev EXCEPT !.pc = "send", !.b = b]
    BY <1>3 DEF RevReceive
  <2>2. /\ rev'.pc = "send" /\ rev'.b = b /\ rev'.i = rev.i /\ rev.i \in Streams
        /\ rev.pc = "recv"
        /\ pkt'[b].frame = MaxFrames + (Len(rev_origin) + 1)
    BY <1>1, <1>3, <2>1
    DEF RevReceive, RevType, p_emu_packet_init, HeapType, BlankPacket, RevFrame
  <2>3. Len(rev_origin') = Len(rev_origin) + 1
    BY <1>1, <1>3, <2>2, AppendProperties DEF RevReceive, RevType
  <2>4. (MaxFrames + (Len(rev_origin) + 1)) - MaxFrames = Len(rev_origin) + 1
    BY <1>1
  <2>5. BackWaits' = [BackWaits EXCEPT ![rev.i] = @ \union {Len(rev_origin) + 1}]
    BY <2>2, <2>4 DEF BackWaits
  <2>6. UNCHANGED << BackOut, BackDropped >>
    BY <1>3 DEF RevReceive, BackOut, BackDropped
  <2> QED  BY <2>2, <2>3, <2>5, <2>6, BackwardSteps DEF RevFrameInv
<1>4. ASSUME NEW r \in SendResults, RevSend(r)
      PROVE  RevFrameInv' /\ [Backward!Next]_(Backward!vars)
  <2> DEFINE f == pkt[rev.b].frame
             n == f - MaxFrames
  <2>1. /\ rev.pc = "send" /\ rev'.pc = "discard" /\ rev.i \in Streams /\ rev.b \in Buffers
        /\ f \in Nat /\ rev_origin' = rev_origin
    BY <1>1, <1>4 DEF RevSend, RevType, HeapType, Packet
  <2>2. BackWaits[rev.i] = {n} /\ BackWaits' = [BackWaits EXCEPT ![rev.i] = @ \ {n}]
    BY <2>1 DEF BackWaits
  <2>3. n \in Int /\ \A g \in BackWaits[rev.i] : n <= g
    BY <1>1, <2>1, <2>2
  <2>4. CASE r = "sent"
    <3>1. rev_out' = [rev_out EXCEPT ![rev.i] = Append(@, f)] /\ rev_dropped' = rev_dropped
      BY <1>4, <2>4 DEF RevSend
    <3>2. BackOut' = [BackOut EXCEPT ![rev.i] = Append(@, n)]
      <4>1. Numbered(Append(rev_out[rev.i], f)) = Append(Numbered(rev_out[rev.i]), n)
        BY <1>1, <2>1, NumberedAppend DEF RevType
      <4> HIDE DEF f, n
      <4>2. \A s \in Streams : rev_out'[s] = IF s = rev.i THEN Append(rev_out[rev.i], f)
                                             ELSE rev_out[s]
        BY <1>1, <2>1, <3>1 DEF RevType
      <4> QED  BY <2>1, <4>1, <4>2 DEF BackOut
    <3>3. BackDropped' = BackDropped
      BY <3>1 DEF BackDropped
    <3> HIDE DEF f, n
    <3> QED  BY <2>1, <2>2, <2>3, <3>2, <3>3, BackwardSteps DEF RevFrameInv
  <2>5. CASE r # "sent"
    <3>1. rev_dropped' = rev_dropped \union {f} /\ rev_out' = rev_out
      BY <1>4, <2>5 DEF RevSend
    <3>2. BackDropped' = BackDropped \union {n} /\ BackOut' = BackOut
      BY <3>1 DEF BackDropped, BackOut
    <3> HIDE DEF f, n
    <3> QED  BY <2>1, <2>2, <3>2, BackwardSteps DEF RevFrameInv
  <2> QED  BY <2>4, <2>5
<1> QED  BY <1>2, <1>3, <1>4 DEF RevNext

\* A restart gives up the frame in hand.
LEMMA BackwardByRestart ==
  ASSUME SharedInv, Restart
  PROVE  RevFrameInv' /\ Backward!Next
<1>1. rev'.pc = "recv" /\ UNCHANGED << rev_origin, rev_out >>
  BY DEF Restart, RevStart
<1>2. rev_dropped' = (IF rev.pc = "send" THEN rev_dropped \union {pkt[rev.b].frame}
                      ELSE rev_dropped)
  BY DEF Restart
<1>3. BackWaits' = [s \in Streams |-> {}] /\ BackOut' = BackOut
  BY <1>1 DEF BackWaits, BackOut
<1>4. BackDropped' = BackDropped \union UNION {BackWaits[s] : s \in Streams}
  <2>1. rev.i \in Streams
    BY DEF SharedInv, RevType
  <2>2. CASE rev.pc = "send"
    <3>1. UNION {BackWaits[s] : s \in Streams} = {pkt[rev.b].frame - MaxFrames}
      BY <2>1, <2>2 DEF BackWaits
    <3> QED  BY <1>2, <2>2, <3>1 DEF BackDropped
  <2>3. CASE rev.pc # "send"
    <3>1. UNION {BackWaits[s] : s \in Streams} = {}
      BY <2>3 DEF BackWaits
    <3> QED  BY <1>2, <2>3, <3>1 DEF BackDropped
  <2> QED  BY <2>2, <2>3
<1> QED  BY <1>1, <1>3, <1>4, BackwardSteps DEF RevFrameInv

\* The reverse path starts as an emulator with nothing in it.
LEMMA BackwardInit == DaemonInit => RevFrameInv /\ Backward!Init
<1> SUFFICES ASSUME DaemonInit PROVE RevFrameInv /\ Backward!Init
  OBVIOUS
<1>1. /\ rev = RevStart /\ rev_origin = << >> /\ rev_dropped = {}
      /\ rev_out = [s \in Streams |-> << >>]
  BY DEF DaemonInit, RevInit
<1>2. \A s \in Streams : [k \in DOMAIN rev_out[s] |-> rev_out[s][k] - MaxFrames] = << >>
  BY <1>1
<1> QED  BY <1>1, <1>2, EmptySeq DEF RevFrameInv, Backward!Init, RevStart

\* Every step of the process is one of the emulator of the reverse path, or none.
LEMMA BackwardStep ==
  SharedInv /\ RevFrameInv /\ [DaemonNext]_allVars
    => RevFrameInv' /\ [Backward!Next]_(Backward!vars)
<1> SUFFICES ASSUME SharedInv, RevFrameInv, [DaemonNext]_allVars
             PROVE  RevFrameInv' /\ [Backward!Next]_(Backward!vars)
  OBVIOUS
<1>1. CASE RxStep \/ PrStep \/ TxStep \/ TxdStep \/ DaemonTick
  <2>1. \A b \in live : pkt'[b].frame = pkt[b].frame
    BY <1>1, ThreadSteps, FramesStay DEF SharedInv
  <2> QED  BY <1>1, <2>1, ThreadSteps, BackwardQuiet
<1>2. CASE RevStep
  BY <1>2, BackwardByReverse DEF RevStep
<1>3. CASE Restart
  BY <1>3, BackwardByRestart
<1>4. CASE UNCHANGED workVars
  BY <1>4, BackwardQuiet DEF workVars, heapVars
<1> QED  BY <1>1, <1>2, <1>3, <1>4, DaemonKinds

\* Emulator's promise holds of the way back, too, for streams without delay: no
\* step of the forward path, and in particular none that reads a freed packet,
\* changes what the reverse path has in its buffer.
THEOREM ReverseImplementsEmulator == DaemonSpec => ImplementsReverse
<1>1. DaemonSpec => Backward!Init /\ [][Backward!Next]_(Backward!vars)
  BY SharedAlways, BackwardInit, BackwardStep, PTL DEF DaemonSpec
<1> QED  BY <1>1, PTL DEF ImplementsReverse, Backward!Spec

-----------------------------------------------------------------------------
(* Messages behind the stale ones                                          *)

\* They are counted by a natural number.
LEMMA FreshType ==
  ASSUME NEW sig \in Seq(Tokens), NEW old \in Nat, NEW s
  PROVE  /\ FreshFor(sig, old, s) \in Nat
         /\ IsFiniteSet({k \in (old + 1)..Len(sig) : sig[k] = s})
<1>1. Len(sig) \in Nat
  BY LenProperties
<1>2. IsFiniteSet((old + 1)..Len(sig))
  BY <1>1, FS_Interval
<1>3. IsFiniteSet({k \in (old + 1)..Len(sig) : sig[k] = s})
  BY <1>2, FS_Subset
<1> QED  BY <1>3, FS_CardinalityType DEF FreshFor

\* A new message is one of them.
LEMMA FreshPost ==
  ASSUME ~UseSems, NEW sig \in Seq(Tokens), NEW old \in Nat, old <= Len(sig),
         NEW t \in Streams, NEW s
  PROVE  FreshFor(Post(sig, t), old, s) = FreshFor(sig, old, s) + One(t = s)
<1>1. /\ Len(sig) \in Nat
      /\ Len(Post(sig, t)) = Len(sig) + 1
      /\ \A k \in 1..Len(sig) : Post(sig, t)[k] = sig[k]
      /\ Post(sig, t)[Len(sig) + 1] = t
  BY ConstantTypes, LenProperties, AppendProperties DEF Post, Token
<1> DEFINE before == {k \in (old + 1)..Len(sig) : sig[k] = s}
           after == {k \in (old + 1)..Len(Post(sig, t)) : Post(sig, t)[k] = s}
<1>2. IsFiniteSet(before) /\ Cardinality(before) \in Nat
  BY FreshType, FS_CardinalityType
<1>3. Len(sig) + 1 \notin before
  BY <1>1
<1>4. after = IF t = s THEN before \union {Len(sig) + 1} ELSE before
  BY <1>1
<1>5. Cardinality(after) = Cardinality(before) + (IF t = s THEN 1 ELSE 0)
  <2> HIDE DEF before, after
  <2>1. Cardinality(before \union {Len(sig) + 1}) = Cardinality(before) + 1
    BY <1>2, <1>3, FS_AddElement
  <2> QED  BY <1>2, <1>4, <2>1
<1> QED  BY <1>5 DEF FreshFor, One

\* The first message received when it is stale leaves them all.
LEMMA FreshStale ==
  ASSUME NEW sig \in Seq(Tokens), sig # << >>, NEW old \in Nat, old > 0, NEW s
  PROVE  FreshFor(Tail(sig), old - 1, s) = FreshFor(sig, old, s)
<1>1. /\ Len(sig) \in Nat \ {0}
      /\ Len(Tail(sig)) = Len(sig) - 1
      /\ Tail(sig) \in Seq(Tokens)
      /\ \A k \in 1..Len(Tail(sig)) : Tail(sig)[k] = sig[k + 1]
  BY EmptySeq, HeadTailProperties
<1> DEFINE before == {k \in (old + 1)..Len(sig) : sig[k] = s}
           after == {k \in ((old - 1) + 1)..Len(Tail(sig)) : Tail(sig)[k] = s}
           shift == [k \in after |-> k + 1]
<1>2. IsFiniteSet(before) /\ IsFiniteSet(after)
  <2>1. old - 1 \in Nat
    OBVIOUS
  <2> QED  BY <1>1, <2>1, FreshType
<1>3. ExistsBijection(after, before)
  <2>1. shift \in [after -> before]
    BY <1>1
  <2>2. \A j, k \in after : shift[j] = shift[k] => j = k
    BY <1>1
  <2>3. \A k \in before : k - 1 \in after /\ shift[k - 1] = k
    BY <1>1
  <2> HIDE DEF before, after, shift
  <2>4. shift \in Bijection(after, before)
    BY <2>1, <2>2, <2>3 DEF Bijection, Injection, Surjection, IsInjective
  <2> QED  BY <2>4 DEF ExistsBijection
<1>4. Cardinality(after) = Cardinality(before)
  <2> HIDE DEF before, after, shift
  <2> QED  BY <1>2, <1>3, FS_Bijection
<1> QED  BY <1>4 DEF FreshFor

\* When none is stale, the first one received is taken away.
LEMMA FreshReceive ==
  ASSUME ~UseSems, NEW sig \in Seq(Tokens), sig # << >>, NEW s \in Streams
  PROVE  FreshFor(Tail(sig), 0, s) = FreshFor(sig, 0, s) - One(Head(sig) = s)
<1>1. FreshFor(sig, 0, s) = Waiting(sig, s) /\ FreshFor(Tail(sig), 0, s) = Waiting(Tail(sig), s)
  <2>1. 0 + 1 = 1
    OBVIOUS
  <2> QED  BY <2>1 DEF FreshFor, Waiting
<1>2. Waiting(Tail(sig), s) = Waiting(sig, s) - One(Head(sig) = s)
  BY WaitingReceive DEF One
<1> QED  BY <1>1, <1>2

\* Every message in the queue of a dead process is stale.
LEMMA FreshNone ==
  ASSUME NEW sig \in Seq(Tokens), NEW s
  PROVE  FreshFor(sig, Len(sig), s) = 0
<1>1. (Len(sig) + 1)..Len(sig) = {}
  BY LenProperties
<1>2. {k \in (Len(sig) + 1)..Len(sig) : sig[k] = s} = {}
  BY <1>1
<1> QED  BY <1>2, FS_EmptySet DEF FreshFor

\* In the message queue build a thread visits one stream for each message.
OneVisit == TxShape /\ RxShape

\* No thread visits a stream at first.
LEMMA OneVisitInit == Init => OneVisit
  BY TxShapeInit DEF OneVisit, RxShape, Init, PrInit, PrWaiting

\* Every step of the forward path keeps the visits of its threads to one stream.
LEMMA OneVisitNext ==
  ASSUME TypeOK, OneVisit, Next
  PROVE  OneVisit'
<1>1. TxShape'
  BY TxShapeStep DEF OneVisit
<1>2. RxShape'
  <2> USE DEF TypeOK, PrType, OneVisit, RxShape
  <2>1. CASE UNCHANGED pr
    BY <2>1
  <2>2. CASE PrAdvance
    BY <2>2 DEF PrAdvance, PrWaiting
  <2>3. CASE PrWait
    BY <2>3 DEF PrWait, FirstVisited, LastVisited
  <2>4. CASE PrCount
    BY <2>2, <2>4 DEF PrCount
  <2>5. CASE PrTake
    BY <2>1, <2>5 DEF PrTake
  <2>6. CASE PrInsert
    BY <2>6 DEF PrInsert
  <2>7. CASE \E d \in DelayOffsets : PrInsertDelayed(d)
    BY <2>7 DEF PrInsertDelayed
  <2>8. CASE PrShow
    BY <2>1, <2>8 DEF PrShow
  <2> QED
    BY <2>1, <2>2, <2>3, <2>4, <2>5, <2>6, <2>7, <2>8
    DEF Next, PrNext, PrDiscard, PrInsertFails, PrGiveUp, PrPost, PrArm, PrArmFaults,
        RxNext, RxAllocFails, RxNothing, RxFrame, RxAdd, RxAddFails, RxPost, TxNext,
        TxWait, TxSkip, TxTake, TxSend, TxExhausted, TxdNext, TxdRead, TxdNothing,
        TxdTake, TxdSend, TxdShow, TxdArm, Tick, Halted, vars, threadVars
<1> QED  BY <1>1, <1>2 DEF OneVisit

-----------------------------------------------------------------------------
(* No packet without a message of its own process                          *)

\* The packets of stream s that the processing thread will look for, and those
\* p_emu_TxThread will.
RxOwed(s) ==
    FreshFor(rx_sig, stale.rx, s) + One(rx.pc = "post" /\ rx.i = s)
      + One(pr.pc \in {"scan", "take"} /\ pr.i = s)

TxOwed(s) ==
    FreshFor(tx_sig, stale.tx, s) + One(pr.pc = "post" /\ pr.i = s)
      + One(tx.pc = "take" /\ tx.i = s)

\* All the terms are numbers, before a step and after it.
LEMMA OwedType ==
  ASSUME CoreType, StaleInv, NEW s \in Streams
  PROVE  /\ FreshFor(rx_sig, stale.rx, s) \in Nat /\ FreshFor(tx_sig, stale.tx, s) \in Nat
         /\ rx_list[s] \in Seq(Buffers) /\ Len(rx_list[s]) \in Nat
         /\ tx_list[s] \in Seq(Buffers) /\ Len(tx_list[s]) \in Nat
         /\ RxOwed(s) \in Nat /\ TxOwed(s) \in Nat
<1>1. FreshFor(rx_sig, stale.rx, s) \in Nat /\ FreshFor(tx_sig, stale.tx, s) \in Nat
  BY FreshType DEF CoreType, SignalType, StaleInv
<1>2. /\ rx_list[s] \in Seq(Buffers) /\ Len(rx_list[s]) \in Nat
      /\ tx_list[s] \in Seq(Buffers) /\ Len(tx_list[s]) \in Nat
  BY LenProperties DEF CoreType, ListType
<1> QED  BY <1>1, <1>2 DEF RxOwed, TxOwed, One

\* The receive thread owes a message for what it puts in rx_list.
LEMMA RxOwedByRx ==
  ASSUME ~UseSems, CoreType, StaleInv, RxStep, NEW s \in Streams, Len(rx_list[s]) <= RxOwed(s)
  PROVE  Len(rx_list'[s]) <= RxOwed(s)'
<1>1. RxNext /\ stale' = stale /\ pr' = pr /\ rx.i \in Streams
  BY ThreadsApart DEF RxStep, daemonVars, CoreType, RxType
<1>2. CASE RxAllocFails \/ RxNothing \/ RxFrame \/ RxAddFails
  <2>1. /\ rx_list' = rx_list /\ rx_sig' = rx_sig /\ rx.pc # "post"
    BY <1>2 DEF RxAllocFails, RxNothing, RxFrame, RxAddFails
  <2>2. rx'.pc # "post"
    <3>1. CASE RxFrame
      <4>1. \E b \in Buffers : rx' = [rx EXCEPT !.pc = "add", !.b = b]
        BY <3>1 DEF RxFrame
      <4> QED  BY <4>1 DEF CoreType, RxType
    <3>2. CASE RxAdvance
      BY <3>2 DEF RxAdvance
    <3> QED  BY <1>2, <3>1, <3>2 DEF RxAllocFails, RxNothing, RxAddFails
  <2> QED  BY <1>1, <2>1, <2>2 DEF RxOwed, One
<1>3. CASE RxAdd
  <2>1. /\ rx.pc = "add" /\ rx.b \in Buffers /\ rx_sig' = rx_sig
        /\ rx'.pc = "post" /\ rx'.i = rx.i
        /\ rx_list' = [rx_list EXCEPT ![rx.i] = Append(@, rx.b)]
    BY <1>3 DEF RxAdd, CoreType, RxType
  <2>2. Len(rx_list'[s]) = Len(rx_list[s]) + One(rx.i = s)
    <3>1. CASE rx.i = s
      <4>1. rx_list'[s] = Append(rx_list[s], rx.b)
        BY <2>1, <3>1 DEF CoreType, ListType
      <4> QED  BY <2>1, <3>1, <4>1, OwedType, AppendProperties DEF One
    <3>2. CASE rx.i # s
      <4>1. rx_list'[s] = rx_list[s]
        BY <2>1, <3>2 DEF CoreType, ListType
      <4> QED  BY <3>2, <4>1, OwedType DEF One
    <3> QED  BY <3>1, <3>2
  <2> QED  BY <1>1, <2>1, <2>2, OwedType DEF RxOwed, One
<1>4. CASE RxPost
  <2>1. /\ rx.pc = "post" /\ rx_sig' = Post(rx_sig, rx.i) /\ rx'.pc = "recv"
        /\ rx_list' = rx_list
    BY <1>4 DEF RxPost, RxAdvance
  <2>2. FreshFor(rx_sig', stale'.rx, s) = FreshFor(rx_sig, stale.rx, s) + One(rx.i = s)
    BY <1>1, <2>1, FreshPost DEF CoreType, SignalType, StaleInv
  <2> QED  BY <1>1, <2>1, <2>2, OwedType DEF RxOwed, One
<1> QED  BY <1>1, <1>2, <1>3, <1>4 DEF RxNext

\* How the processing thread moves on: in this build it goes back to the queue.
LEMMA PrGoesBack ==
  ASSUME ~UseSems, OneVisit, PrAdvance
  PROVE  pr' = PrWaiting
  BY DEF OneVisit, RxShape, PrAdvance

\* The transmit thread goes back to wait once the stream it looks at is done.
LEMMA TxGoesBack ==
  ASSUME ~UseSems, OneVisit, TxAdvance
  PROVE  tx' = TxWaiting
  BY DEF OneVisit, TxShape, TxAdvance

\* The processing thread takes a packet for each message of this process, and may
\* take another for a stale one.
LEMMA RxOwedByPr ==
  ASSUME ~UseSems, CoreType, StaleInv, OneVisit, PrStep, NEW s \in Streams,
         Len(rx_list[s]) <= RxOwed(s)
  PROVE  Len(rx_list'[s]) <= RxOwed(s)'
<1>1. rx' = rx /\ pr.i \in Streams
  BY ThreadsApart DEF CoreType, PrType
<1>2. CASE PrWait
  <2>1. /\ pr.pc = "wait" /\ rx_sig # << >> /\ rx_sig' = Tail(rx_sig) /\ rx_list' = rx_list
        /\ pr'.pc = "scan" /\ pr'.i = Head(rx_sig)
    BY <1>2 DEF PrWait, FirstVisited
  <2>2. CASE PrTakesStale
    <3>1. stale.rx > 0 /\ stale'.rx = stale.rx - 1 /\ stale.rx \in Nat
      BY <2>2 DEF PrTakesStale, StaleInv
    <3>2. FreshFor(rx_sig', stale'.rx, s) = FreshFor(rx_sig, stale.rx, s)
      BY <2>1, <3>1, FreshStale DEF CoreType, SignalType
    <3> QED  BY <1>1, <2>1, <3>2, OwedType DEF RxOwed, One
  <2>3. CASE ~PrTakesStale
    <3>1. stale.rx = 0 /\ stale' = stale
      BY <2>1, <2>3 DEF PrStep, daemonVars
    <3>2. FreshFor(rx_sig', 0, s) = FreshFor(rx_sig, 0, s) - One(Head(rx_sig) = s)
      BY <2>1, FreshReceive DEF CoreType, SignalType
    <3> QED  BY <1>1, <2>1, <3>1, <3>2, OwedType DEF RxOwed, One
  <2> QED  BY <2>2, <2>3
<1>3. CASE ~PrWait
  <2>1. PrNext /\ stale' = stale
    BY <1>3 DEF PrStep, PrTakesStale, daemonVars
  <2>2. rx_sig' = rx_sig
    BY <1>3, <2>1 DEF PrNext, PrCount, PrTake, PrDiscard, PrGiveUp, PrInsertFails, PrInsert,
                      PrPost, PrInsertDelayed, PrShow, PrArm, PrArmFaults
  <2>3. CASE PrCount
    <3>1. pr.pc = "scan" /\ rx_list' = rx_list
      BY <2>3 DEF PrCount
    <3>2. CASE rx_list[pr.i] = << >>
      <4>1. pr' = PrWaiting
        BY <2>3, <3>2, PrGoesBack DEF PrCount
      <4>2. pr.i = s => Len(rx_list[s]) = 0
        BY <3>2, EmptySeq
      <4> QED  BY <1>1, <2>1, <2>2, <3>1, <4>1, <4>2, OwedType DEF RxOwed, One, PrWaiting
    <3>3. CASE rx_list[pr.i] # << >>
      <4>1. pr'.pc = "take" /\ pr'.i = pr.i
        BY <2>3, <3>3 DEF PrCount, CoreType, PrType
      <4> QED  BY <1>1, <2>1, <2>2, <3>1, <4>1 DEF RxOwed, One
    <3> QED  BY <3>2, <3>3
  <2>4. CASE PrTake
    <3>1. CASE rx_list[pr.i] = << >>
      <4>1. pr' = pr /\ rx_list' = rx_list
        BY <2>4, <3>1 DEF PrTake
      <4> QED  BY <1>1, <2>1, <2>2, <4>1 DEF RxOwed
    <3>2. CASE rx_list[pr.i] # << >>
      <4>1. /\ pr.pc = "take" /\ pr'.pc = "process"
            /\ rx_list' = [rx_list EXCEPT ![pr.i] = Tail(@)]
        BY <2>4, <3>2 DEF PrTake, CoreType, PrType
      <4>2. Len(rx_list'[s]) = Len(rx_list[s]) - One(pr.i = s)
        <5>1. CASE pr.i = s
          <6>1. rx_list'[s] = Tail(rx_list[s])
            BY <4>1, <5>1 DEF CoreType, ListType
          <6> QED  BY <3>2, <5>1, <6>1, OwedType, HeadTailProperties DEF One
        <5>2. CASE pr.i # s
          <6>1. rx_list'[s] = rx_list[s]
            BY <4>1, <5>2 DEF CoreType, ListType
          <6> QED  BY <5>2, <6>1, OwedType DEF One
        <5> QED  BY <5>1, <5>2
      <4>3. FreshFor(rx_sig', stale'.rx, s) = FreshFor(rx_sig, stale.rx, s)
        BY <2>1, <2>2
      <4>4. RxOwed(s)' = RxOwed(s) - One(pr.i = s)
        BY <1>1, <4>1, <4>3, OwedType DEF RxOwed, One
      <4>5. One(pr.i = s) \in Nat
        BY DEF One
      <4> QED  BY <4>2, <4>4, <4>5, OwedType
    <3> QED  BY <3>1, <3>2
  <2>5. CASE \/ PrDiscard \/ PrInsertFails \/ PrInsert \/ PrPost \/ PrShow \/ PrArm
             \/ PrArmFaults \/ \E d \in DelayOffsets : PrInsertDelayed(d)
    <3>1. rx_list' = rx_list /\ pr.pc \notin {"scan", "take"}
      BY <2>5 DEF PrDiscard, PrInsertFails, PrGiveUp, PrInsert, PrPost, PrInsertDelayed,
                  PrShow, PrArm, PrArmFaults
    <3>2. pr'.pc \notin {"scan", "take"}
      <4>1. PrAdvance => pr'.pc = "wait"
        BY PrGoesBack DEF PrWaiting
      <4>2. PrInsert => pr'.pc = "post"
        BY DEF PrInsert, CoreType, PrType
      <4>3. (\E d \in DelayOffsets : PrInsertDelayed(d)) => pr'.pc = "show"
        BY DEF PrInsertDelayed, CoreType, PrType
      <4>4. PrShow => pr'.pc \notin {"scan", "take"}
        BY <3>1 DEF PrShow, CoreType, PrType
      <4>5. PrArmFaults => pr' = pr
        BY DEF PrArmFaults, threadVars
      <4> QED
        BY <2>5, <3>1, <4>1, <4>2, <4>3, <4>4, <4>5
        DEF PrDiscard, PrInsertFails, PrGiveUp, PrPost, PrArm
    <3> QED  BY <1>1, <2>1, <2>2, <3>1, <3>2, OwedType DEF RxOwed, One
  <2> QED  BY <1>3, <2>1, <2>3, <2>4, <2>5 DEF PrNext
<1> QED  BY <1>2, <1>3

\* The processing thread sends a message for each packet it puts in tx_list.
LEMMA TxOwedByPr ==
  ASSUME ~UseSems, CoreType, StaleInv, OneVisit, PrStep, NEW s \in Streams \ Delayed
  PROVE  TxOwed(s)' - Len(tx_list'[s]) = TxOwed(s) - Len(tx_list[s])
<1>1. PrNext /\ tx' = tx /\ pr.i \in Streams /\ stale'.tx = stale.tx
  BY ThreadsApart DEF PrStep, PrTakesStale, PrNext, daemonVars, CoreType, PrType, StaleInv
<1>2. CASE PrInsert
  <2>1. /\ pr.pc = "process" /\ pr.b \in Buffers /\ tx_sig' = tx_sig
        /\ pr'.pc = "post" /\ pr'.i = pr.i
        /\ tx_list' = [tx_list EXCEPT ![pr.i] = Append(@, pr.b)]
    BY <1>2 DEF PrInsert, CoreType, PrType
  <2>2. Len(tx_list'[s]) = Len(tx_list[s]) + One(pr.i = s)
    <3>1. CASE pr.i = s
      <4>1. tx_list'[s] = Append(tx_list[s], pr.b)
        BY <2>1, <3>1 DEF CoreType, ListType
      <4> QED  BY <2>1, <3>1, <4>1, OwedType, AppendProperties DEF One
    <3>2. CASE pr.i # s
      <4>1. tx_list'[s] = tx_list[s]
        BY <2>1, <3>2 DEF CoreType, ListType
      <4> QED  BY <3>2, <4>1, OwedType DEF One
    <3> QED  BY <3>1, <3>2
  <2>3. FreshFor(tx_sig', stale'.tx, s) = FreshFor(tx_sig, stale.tx, s)
    BY <1>1, <2>1
  <2>4. TxOwed(s)' = TxOwed(s) + One(pr.i = s)
    BY <1>1, <2>1, <2>3, OwedType DEF TxOwed, One
  <2>5. One(pr.i = s) \in Nat
    BY DEF One
  <2> QED  BY <2>2, <2>4, <2>5, OwedType
<1>3. CASE PrPost
  <2>1. /\ pr.pc = "post" /\ tx_sig' = Post(tx_sig, pr.i) /\ tx_list' = tx_list
        /\ pr' = PrWaiting
    BY <1>3, PrGoesBack DEF PrPost
  <2>2. FreshFor(tx_sig', stale'.tx, s) = FreshFor(tx_sig, stale.tx, s) + One(pr.i = s)
    BY <1>1, <2>1, FreshPost DEF CoreType, SignalType, StaleInv
  <2>3. TxOwed(s)' = TxOwed(s)
    BY <1>1, <2>1, <2>2, OwedType DEF TxOwed, One, PrWaiting
  <2> QED  BY <2>1, <2>3
<1>4. CASE tx_sig' = tx_sig /\ tx_list'[s] = tx_list[s] /\ pr.pc # "post" /\ pr'.pc # "post"
  BY <1>1, <1>4 DEF TxOwed
<1>5. CASE \/ PrWait \/ PrCount \/ PrTake \/ PrDiscard \/ PrInsertFails \/ PrShow \/ PrArm
           \/ PrArmFaults
  <2>1. tx_sig' = tx_sig /\ tx_list' = tx_list /\ pr.pc # "post"
    BY <1>5 DEF PrWait, PrCount, PrTake, PrDiscard, PrInsertFails, PrGiveUp, PrShow, PrArm,
                PrArmFaults
  <2>2. pr'.pc # "post"
    <3>1. PrAdvance => pr'.pc = "wait"
      BY PrGoesBack DEF PrWaiting
    <3>2. PrWait => pr'.pc = "scan"
      BY DEF PrWait
    <3>3. PrCount => pr'.pc # "post"
      BY <3>1 DEF PrCount, CoreType, PrType
    <3>4. PrTake => pr'.pc # "post"
      BY <2>1 DEF PrTake, CoreType, PrType
    <3>5. PrShow => pr'.pc # "post"
      BY <2>1 DEF PrShow, CoreType, PrType
    <3>6. PrArmFaults => pr' = pr
      BY DEF PrArmFaults, threadVars
    <3> QED
      BY <1>5, <2>1, <3>1, <3>2, <3>3, <3>4, <3>5, <3>6
      DEF PrDiscard, PrInsertFails, PrGiveUp, PrArm
  <2> QED  BY <1>4, <2>1, <2>2
<1>6. ASSUME NEW d \in DelayOffsets, PrInsertDelayed(d)
      PROVE  TxOwed(s)' - Len(tx_list'[s]) = TxOwed(s) - Len(tx_list[s])
  <2>1. /\ tx_sig' = tx_sig /\ pr.pc # "post" /\ pr'.pc # "post" /\ pr.i # s
        /\ tx_list'[s] = tx_list[s]
    BY <1>6 DEF PrInsertDelayed, CoreType, ListType, PrType
  <2> QED  BY <1>4, <2>1
<1> QED  BY <1>1, <1>2, <1>3, <1>5, <1>6 DEF PrNext

\* p_emu_TxThread takes one for each message of this process; a stale message makes
\* it look for one more.
LEMMA TxOwedByTx ==
  ASSUME ~UseSems, CoreType, StaleInv, OneVisit, TxStep, NEW s \in Streams \ Delayed
  PROVE  \/ TxOwed(s)' - Len(tx_list'[s]) = TxOwed(s) - Len(tx_list[s])
         \/ strayed' /\ TxOwed(s)' >= TxOwed(s) /\ tx_list' = tx_list
<1>1. pr' = pr /\ tx.i \in Streams
  BY ThreadsApart DEF CoreType, TxType
<1>2. CASE TxWait
  <2>1. /\ tx.pc = "wait" /\ tx_sig # << >> /\ tx_sig' = Tail(tx_sig) /\ tx_list' = tx_list
        /\ tx'.pc = "take" /\ tx'.i = Head(tx_sig)
    BY <1>2 DEF TxWait, FirstVisited
  <2>2. CASE TxTakesStale
    <3>1. stale.tx > 0 /\ stale'.tx = stale.tx - 1 /\ stale.tx \in Nat /\ strayed'
      BY <2>2 DEF TxTakesStale, StaleInv
    <3>2. FreshFor(tx_sig', stale'.tx, s) = FreshFor(tx_sig, stale.tx, s)
      BY <2>1, <3>1, FreshStale DEF CoreType, SignalType
    <3>3. TxOwed(s)' >= TxOwed(s)
      BY <1>1, <2>1, <3>2, OwedType DEF TxOwed, One
    <3> QED  BY <2>1, <3>1, <3>3
  <2>3. CASE ~TxTakesStale
    <3>1. stale.tx = 0 /\ stale' = stale
      BY <2>1, <2>3 DEF TxStep, daemonVars
    <3>2. FreshFor(tx_sig', 0, s) = FreshFor(tx_sig, 0, s) - One(Head(tx_sig) = s)
      BY <2>1, FreshReceive DEF CoreType, SignalType
    <3>3. TxOwed(s)' = TxOwed(s)
      BY <1>1, <2>1, <3>1, <3>2, OwedType DEF TxOwed, One
    <3> QED  BY <2>1, <3>3
  <2> QED  BY <2>2, <2>3
<1>3. CASE ~TxWait
  <2>1. TxNext /\ stale' = stale
    BY <1>3 DEF TxStep, TxTakesStale, daemonVars
  <2>2. tx_sig' = tx_sig
    BY <1>3, <2>1 DEF TxNext, TxSkip, TxTake, TxSend, TxExhausted
  <2>3. FreshFor(tx_sig', stale'.tx, s) = FreshFor(tx_sig, stale.tx, s)
    BY <2>1, <2>2
  <2>4. ASSUME tx_list' = tx_list, ~(tx.pc = "take" /\ tx.i = s),
               ~(tx'.pc = "take" /\ tx'.i = s)
        PROVE  TxOwed(s)' - Len(tx_list'[s]) = TxOwed(s) - Len(tx_list[s])
    BY <1>1, <2>3, <2>4 DEF TxOwed
  <2>5. ASSUME tx_list' = tx_list, tx' = tx
        PROVE  TxOwed(s)' - Len(tx_list'[s]) = TxOwed(s) - Len(tx_list[s])
    BY <1>1, <2>3, <2>5 DEF TxOwed
  <2>6. CASE TxSkip
    <3>1. tx_list' = tx_list /\ tx' = TxWaiting /\ tx.i # s
      BY <2>6, TxGoesBack DEF TxSkip
    <3> QED  BY <2>4, <3>1 DEF TxWaiting
  <2>7. CASE TxTake
    <3>1. CASE tx_list[tx.i] = << >>
      BY <2>5, <2>7, <3>1 DEF TxTake
    <3>2. CASE tx_list[tx.i] # << >>
      <4>1. /\ tx.pc = "take" /\ tx'.pc = "send"
            /\ tx_list' = [tx_list EXCEPT ![tx.i] = Tail(@)]
        BY <2>7, <3>2 DEF TxTake, CoreType, TxType
      <4>2. Len(tx_list'[s]) = Len(tx_list[s]) - One(tx.i = s)
        <5>1. CASE tx.i = s
          <6>1. tx_list'[s] = Tail(tx_list[s])
            BY <4>1, <5>1 DEF CoreType, ListType
          <6> QED  BY <3>2, <5>1, <6>1, OwedType, HeadTailProperties DEF One
        <5>2. CASE tx.i # s
          <6>1. tx_list'[s] = tx_list[s]
            BY <4>1, <5>2 DEF CoreType, ListType
          <6> QED  BY <5>2, <6>1, OwedType DEF One
        <5> QED  BY <5>1, <5>2
      <4>3. TxOwed(s)' = TxOwed(s) - One(tx.i = s)
        BY <1>1, <2>3, <4>1, OwedType DEF TxOwed, One
      <4>4. One(tx.i = s) \in Nat
        BY DEF One
      <4> QED  BY <4>2, <4>3, <4>4, OwedType
    <3> QED  BY <3>1, <3>2
  <2>8. ASSUME NEW r \in SendResults, TxSend(r)
        PROVE  TxOwed(s)' - Len(tx_list'[s]) = TxOwed(s) - Len(tx_list[s])
    <3>1. tx_list' = tx_list /\ tx' = TxWaiting /\ tx.pc = "send"
      BY <2>8, TxGoesBack DEF TxSend
    <3> QED  BY <2>4, <3>1 DEF TxWaiting
  <2>9. ASSUME NEW r \in SendResults, TxExhausted(r)
        PROVE  TxOwed(s)' - Len(tx_list'[s]) = TxOwed(s) - Len(tx_list[s])
    BY <2>5, <2>9 DEF TxExhausted, threadVars
  <2> QED  BY <1>3, <2>1, <2>6, <2>7, <2>8, <2>9 DEF TxNext
<1> QED  BY <1>2, <1>3

\* Everybody else leaves the messages, those who owe them and the lists alone.
LEMMA OwedByOthers ==
  ASSUME ~UseSems, CoreType, StaleInv, OneVisit, NEW s \in Streams,
         \/ TxdStep \/ DaemonTick \/ RevStep
         \/ /\ MainNext \/ StaleFaults \/ Kill \/ Over \/ UNCHANGED allVars
            /\ UNCHANGED workVars
  PROVE  /\ rx_list'[s] = rx_list[s] /\ RxOwed(s)' = RxOwed(s)
         /\ s \notin Delayed => tx_list'[s] = tx_list[s] /\ TxOwed(s)' = TxOwed(s)
         /\ strayed' = strayed
<1>1. CASE TxdStep
  <2>1. UNCHANGED << rx_list, rx_sig, tx_sig, rx, pr, tx, stale, strayed >>
    BY <1>1 DEF TxdStep, TxdNext, TxdRead, TxdNothing, TxdTake, TxdSend, TxdShow, TxdArm,
                daemonVars
  <2>2. s \notin Delayed => tx_list'[s] = tx_list[s]
    <3>1. CASE TxdTake
      <4>1. txd.i \in Delayed
        BY <3>1 DEF TxdTake, OneVisit, TxShape
      <4>2. tx_list' = tx_list \/ tx_list' = [tx_list EXCEPT ![txd.i] = Tail(@)]
        BY <3>1 DEF TxdTake
      <4> QED  BY <4>1, <4>2 DEF CoreType, ListType
    <3>2. CASE tx_list' = tx_list
      BY <3>2
    <3> QED
      BY <1>1, <3>1, <3>2 DEF TxdStep, TxdNext, TxdRead, TxdNothing, TxdSend, TxdShow, TxdArm
  <2> QED  BY <2>1, <2>2 DEF RxOwed, TxOwed
<1>2. CASE UNCHANGED << rx_list, tx_list, rx_sig, tx_sig, rx, pr, tx, stale, strayed >>
  BY <1>2 DEF RxOwed, TxOwed
<1>3. CASE StaleFaults /\ UNCHANGED workVars
  <2>1. UNCHANGED << rx_list, tx_list, rx, pr, tx, strayed >>
    BY <1>3 DEF StaleFaults, workVars, threadVars
  <2>2. /\ rx_sig \in Seq(Tokens) /\ stale.rx \in Nat /\ stale.rx <= Len(rx_sig)
        /\ tx_sig \in Seq(Tokens) /\ stale.tx \in Nat /\ stale.tx <= Len(tx_sig)
        /\ stale \in [rx : Nat, tx : Nat]
    BY DEF CoreType, SignalType, StaleInv
  <2>3. /\ stale.rx > 0 => rx_sig # << >>
        /\ stale.tx > 0 => tx_sig # << >>
    BY <2>2, EmptySeq
  <2>4. CASE /\ stale.rx > 0 /\ rx_sig' = Tail(rx_sig) /\ tx_sig' = tx_sig
             /\ stale' = [stale EXCEPT !.rx = @ - 1]
    <3>1. stale'.rx = stale.rx - 1 /\ stale'.tx = stale.tx
      BY <2>2, <2>4
    <3>2. FreshFor(rx_sig', stale'.rx, s) = FreshFor(rx_sig, stale.rx, s)
      BY <2>2, <2>3, <2>4, <3>1, FreshStale
    <3> QED  BY <2>1, <2>4, <3>1, <3>2 DEF RxOwed, TxOwed
  <2>5. CASE /\ stale.tx > 0 /\ tx_sig' = Tail(tx_sig) /\ rx_sig' = rx_sig
             /\ stale' = [stale EXCEPT !.tx = @ - 1]
    <3>1. stale'.tx = stale.tx - 1 /\ stale'.rx = stale.rx
      BY <2>2, <2>5
    <3>2. FreshFor(tx_sig', stale'.tx, s) = FreshFor(tx_sig, stale.tx, s)
      BY <2>2, <2>3, <2>5, <3>1, FreshStale
    <3> QED  BY <2>1, <2>5, <3>1, <3>2 DEF RxOwed, TxOwed
  <2> QED  BY <1>3, <2>4, <2>5 DEF StaleFaults
<1>4. DaemonTick \/ RevStep
        => UNCHANGED << rx_list, tx_list, rx_sig, tx_sig, rx, pr, tx, stale, strayed >>
  BY DEF DaemonTick, Tick, RevStep, RevNext, RevAllocFails, RevNothing, RevReceive, RevSend,
         RevDiscard, forwardVars, threadVars, daemonVars
<1>5. ASSUME MainNext \/ Kill \/ Over \/ UNCHANGED allVars, UNCHANGED workVars
      PROVE  UNCHANGED << rx_list, tx_list, rx_sig, tx_sig, rx, pr, tx, stale, strayed >>
  <2>1. UNCHANGED << rx_list, tx_list, rx, pr, tx >>
    BY <1>5 DEF workVars, threadVars
  <2>2. NotRoot \/ CreateThread \/ CreateFails \/ Join \/ JoinFaults
        \/ InitSignalsFails \/ InitSignals \/ Kill
          => UNCHANGED << rx_sig, tx_sig, stale, strayed >>
    BY DEF NotRoot, CreateThread, CreateFails, Join, JoinFaults, InitSignalsFails,
           InitSignals, Kill,
           daemonVars
  <2>3. (\E open \in Opened : OpenFds(open)) \/ Over \/ UNCHANGED allVars
          => UNCHANGED << rx_sig, tx_sig, stale, strayed >>
    BY DEF OpenFds, Over, allVars, vars, daemonVars
  <2> QED  BY <1>5, <2>1, <2>2, <2>3 DEF MainNext
<1> QED  BY <1>1, <1>2, <1>3, <1>4, <1>5

\* The inductive invariant of the message queue build: no packet without a message,
\* and on tx_list no message without a packet either unless a stale one was taken.
MessageInv ==
    ~UseSems => /\ \A s \in Streams : Len(rx_list[s]) <= RxOwed(s)
                /\ \A s \in Streams \ Delayed :
                     /\ Len(tx_list[s]) <= TxOwed(s)
                     /\ ~strayed => Len(tx_list[s]) = TxOwed(s)

\* No message is owed when the process starts.
LEMMA MessageInit == DaemonInit => MessageInv
<1> SUFFICES ASSUME DaemonInit, NEW s \in Streams
             PROVE  /\ Len(rx_list[s]) <= RxOwed(s) /\ Len(tx_list[s]) = TxOwed(s)
                    /\ Len(tx_list[s]) <= TxOwed(s)
  BY DEF MessageInv
<1>1. /\ rx_list[s] = << >> /\ tx_list[s] = << >> /\ rx_sig = << >> /\ tx_sig = << >>
      /\ rx.pc = "recv" /\ pr.pc = "wait" /\ tx.pc = "wait"
      /\ stale.rx = 0 /\ stale.tx = 0
  BY DEF DaemonInit, Init, RxInit, PrInit, TxInit, RxStart, PrWaiting, TxWaiting
<1>2. << >> \in Seq(Tokens) /\ Len(<< >>) = 0
  BY EmptySeq
<1>3. FreshFor(<< >>, 0, s) = 0
  BY <1>2, FreshNone
<1> QED  BY <1>1, <1>2, <1>3 DEF RxOwed, TxOwed, One

\* A new process has no packet, and takes every message in the queues for stale.
LEMMA MessageByRestart ==
  ASSUME CoreType, Restart
  PROVE  MessageInv' /\ OneVisit'
<1>1. /\ rx' = RxStart /\ pr' = PrWaiting /\ tx' = TxWaiting /\ txd' = TxdStart
      /\ rx_list' = [s \in Streams |-> << >>] /\ tx_list' = [s \in Streams |-> << >>]
      /\ stale' = [rx |-> Len(rx_sig'), tx |-> Len(tx_sig')]
  BY DEF Restart
<1>2. OneVisit'
  BY <1>1 DEF OneVisit, TxShape, RxShape, PrWaiting, TxWaiting, TxdStart
<1>3. ASSUME NEW s \in Streams
      PROVE  Len(rx_list'[s]) = RxOwed(s)' /\ Len(tx_list'[s]) = TxOwed(s)'
             /\ Len(rx_list'[s]) = 0 /\ Len(tx_list'[s]) = 0
  <2>1. rx_sig' \in Seq(Tokens) /\ tx_sig' \in Seq(Tokens)
    BY StaleByRestart DEF SignalType
  <2>2. FreshFor(rx_sig', stale'.rx, s) = 0 /\ FreshFor(tx_sig', stale'.tx, s) = 0
    BY <1>1, <2>1, FreshNone
  <2>3. rx'.pc = "recv" /\ pr'.pc = "wait" /\ tx'.pc = "wait"
    BY <1>1 DEF RxStart, PrWaiting, TxWaiting
  <2> QED  BY <1>1, <2>2, <2>3, EmptySeq DEF RxOwed, TxOwed, One
<1> QED  BY <1>2, <1>3 DEF MessageInv

\* What the steps of main and the reverse path leave as it is.
LEMMA OneVisitKept ==
  ASSUME OneVisit, UNCHANGED << pr, tx, txd >>
  PROVE  OneVisit'
  BY DEF OneVisit, TxShape, RxShape

\* Every step of the process keeps the visits of its threads to one stream.
LEMMA OneVisitStep ==
  ASSUME CoreType, OneVisit, [DaemonNext]_allVars
  PROVE  OneVisit' \/ Restart
<1>1. CASE RxStep \/ PrStep \/ TxStep \/ TxdStep \/ DaemonTick
  BY <1>1, ThreadSteps, RunningTypes, OneVisitNext
<1>2. CASE RevStep
  BY <1>2, OneVisitKept DEF RevStep, RevNext, RevAllocFails, RevNothing, RevReceive, RevSend,
                            RevDiscard, forwardVars, threadVars
<1>3. CASE UNCHANGED workVars
  BY <1>3, OneVisitKept DEF workVars, threadVars
<1> QED  BY <1>1, <1>2, <1>3, DaemonKinds

\* Every step of the process keeps the counts of messages and packets equal.
LEMMA MessageStep ==
  SharedInv /\ StaleInv /\ OneVisit /\ MessageInv /\ [DaemonNext]_allVars
    => OneVisit' /\ MessageInv'
<1> SUFFICES ASSUME SharedInv, StaleInv, OneVisit, MessageInv, [DaemonNext]_allVars
             PROVE  OneVisit' /\ MessageInv'
  OBVIOUS
<1>1. CoreType /\ CoreType' /\ StaleInv'
  BY SharedStep DEF SharedInv
<1>2. CASE Restart
  BY <1>1, <1>2, MessageByRestart
<1>3. CASE ~Restart
  <2>1. OneVisit'
    BY <1>1, <1>3, OneVisitStep
  <2>2. ASSUME ~UseSems, NEW s \in Streams
        PROVE  Len(rx_list'[s]) <= RxOwed(s)'
    <3>1. Len(rx_list[s]) <= RxOwed(s)
      BY <2>2 DEF MessageInv
    <3>2. CASE RxStep
      BY <1>1, <2>2, <3>1, <3>2, RxOwedByRx
    <3>3. CASE PrStep
      BY <1>1, <2>2, <3>1, <3>3, RxOwedByPr
    <3>4. CASE TxStep
      <4>1. UNCHANGED << rx_list, rx_sig, rx, pr >> /\ stale'.rx = stale.rx
        BY <3>4 DEF TxStep, TxTakesStale, TxNext, TxWait, TxSkip, TxTake, TxSend, TxExhausted,
                    threadVars, daemonVars, StaleInv
      <4> QED  BY <3>1, <4>1 DEF RxOwed
    <3> QED
      BY <1>1, <1>3, <2>2, <3>1, <3>2, <3>3, <3>4, DaemonKinds, OwedByOthers
  <2>3. ASSUME ~UseSems, NEW s \in Streams \ Delayed
        PROVE  /\ Len(tx_list'[s]) <= TxOwed(s)'
               /\ ~strayed' => Len(tx_list'[s]) = TxOwed(s)'
    <3>1. Len(tx_list[s]) <= TxOwed(s) /\ (~strayed => Len(tx_list[s]) = TxOwed(s))
      BY <2>3 DEF MessageInv
    <3>2. /\ Len(tx_list[s]) \in Nat /\ TxOwed(s) \in Nat
      BY <1>1, OwedType
    <3>3. Len(tx_list'[s]) \in Nat /\ TxOwed(s)' \in Nat
      <4>1. tx_list'[s] \in Seq(Buffers)
        BY <1>1 DEF CoreType, ListType
      <4>2. FreshFor(tx_sig', stale'.tx, s) \in Nat
        BY <1>1, FreshType DEF CoreType, SignalType, StaleInv
      <4> QED  BY <4>1, <4>2, LenProperties DEF TxOwed, One
    <3>4. CASE PrStep
      <4>1. TxOwed(s)' - Len(tx_list'[s]) = TxOwed(s) - Len(tx_list[s])
        BY <1>1, <2>3, <3>4, TxOwedByPr
      <4>2. strayed' = strayed
        BY <3>4 DEF PrStep, PrTakesStale, daemonVars
      <4> QED  BY <3>1, <3>2, <3>3, <4>1, <4>2
    <3>5. CASE TxStep
      <4>1. \/ TxOwed(s)' - Len(tx_list'[s]) = TxOwed(s) - Len(tx_list[s])
            \/ strayed' /\ TxOwed(s)' >= TxOwed(s) /\ tx_list' = tx_list
        BY <1>1, <2>3, <3>5, TxOwedByTx
      <4>2. strayed' = strayed \/ strayed'
        BY <3>5 DEF TxStep, TxTakesStale, daemonVars
      <4> QED  BY <3>1, <3>2, <3>3, <4>1, <4>2
    <3>6. CASE RxStep
      <4>1. UNCHANGED << tx_list, tx_sig, pr, tx, stale, strayed >>
        BY <3>6 DEF RxStep, RxNext, RxAllocFails, RxNothing, RxFrame, RxAdd, RxAddFails,
                    RxPost, daemonVars
      <4> QED  BY <3>1, <4>1 DEF TxOwed
    <3> QED
      BY <1>1, <1>3, <2>3, <3>1, <3>4, <3>5, <3>6, DaemonKinds, OwedByOthers
  <2> QED  BY <2>1, <2>2, <2>3 DEF MessageInv
<1> QED  BY <1>2, <1>3

\* With message queues the counts are always equal.
LEMMA MessageAlways == DaemonSpec => []MessageInv /\ []OneVisit
<1>1. DaemonInit => MessageInv /\ OneVisit
  BY MessageInit, OneVisitInit DEF DaemonInit
<1> QED  BY <1>1, MessageStep, SharedAlways, PTL DEF DaemonSpec

\* In the message queue build no stale message makes a thread forget a packet:
\* each one has a message of its own process, sent, about to be sent or received.
THEOREM NothingForgotten == DaemonSpec => []NoPacketForgotten
<1>1. MessageInv => NoPacketForgotten
  BY DEF MessageInv, RxOwed, TxOwed, NoPacketForgotten
<1> QED  BY <1>1, MessageAlways, PTL

\* The assertion of p_emu_tx_non_delayed_packet, step by step.
LEMMA StrayedStep ==
  SharedInv /\ StaleInv /\ MessageInv /\ TxAbortOnlyIfStrayed /\ [DaemonNext]_allVars
    => TxAbortOnlyIfStrayed'
<1> SUFFICES ASSUME SharedInv, StaleInv, MessageInv, TxAbortOnlyIfStrayed,
                    [DaemonNext]_allVars, ~UseSems, aborted' = "tx_list_empty", ~strayed'
             PROVE  FALSE
  BY DEF TxAbortOnlyIfStrayed
<1>1. CASE TxStep
  <2>1. ~strayed
    BY <1>1 DEF TxStep, TxTakesStale, daemonVars
  <2>2. Running
    BY <1>1, ThreadSteps
  <2>3. TxTake /\ tx_list[tx.i] = << >>
    BY <1>1, <2>2
    DEF TxStep, TxTakesStale, TxNext, TxWait, TxSkip, TxTake, TxSend, TxExhausted, Abort,
        Running
  <2>4. tx.i \in Streams \ Delayed /\ tx.pc = "take"
    BY <2>3 DEF TxTake, SharedInv, CoreType, TxType
  <2>5. Len(tx_list[tx.i]) = TxOwed(tx.i) /\ Len(tx_list[tx.i]) = 0
    BY <2>1, <2>3, <2>4, EmptySeq DEF MessageInv
  <2>6. FreshFor(tx_sig, stale.tx, tx.i) \in Nat
    BY <2>4, OwedType DEF SharedInv
  <2> QED  BY <2>4, <2>5, <2>6 DEF TxOwed, One
<1>2. CASE aborted' = aborted
  <2>1. strayed
    BY <1>2 DEF TxAbortOnlyIfStrayed
  <2>2. Running \/ aborted = aborted
    OBVIOUS
  <2>3. ~Restart
    BY DEF Restart
  <2>4. strayed' = strayed
    <3>1. RxStep \/ PrStep \/ TxdStep \/ DaemonTick \/ RevStep \/ Kill => strayed' = strayed
      BY DEF RxStep, PrStep, PrTakesStale, TxdStep, DaemonTick, RevStep, Kill, daemonVars
    <3>2. NotRoot \/ InitSignals \/ CreateThread \/ CreateFails \/ Join \/ JoinFaults
          \/ InitSignalsFails
          \/ StaleFaults => strayed' = strayed
      BY DEF NotRoot, InitSignals, CreateThread, CreateFails, Join, JoinFaults,
             InitSignalsFails, StaleFaults,
             daemonVars
    <3>3. (\E open \in Opened : OpenFds(open)) \/ Over \/ UNCHANGED allVars
            => strayed' = strayed
      BY DEF OpenFds, Over, allVars, daemonVars
    <3> QED  BY <1>1, <2>3, <3>1, <3>2, <3>3 DEF DaemonNext, MainNext
  <2> QED  BY <2>1, <2>4
<1>3. CASE RxStep \/ PrStep \/ TxdStep \/ DaemonTick \/ RevStep
  <2>1. RxStep \/ DaemonTick \/ RevStep => aborted' = aborted
    BY DEF RxStep, RxNext, RxAllocFails, RxNothing, RxFrame, RxAdd, RxAddFails, RxPost,
           DaemonTick, Tick, RevStep, RevNext, RevAllocFails, RevNothing, RevReceive, RevSend,
           RevDiscard, forwardVars
  <2>2. PrStep => aborted' = aborted \/ aborted' # "tx_list_empty"
    BY DEF PrStep, PrTakesStale, PrNext, PrWait, PrCount, PrTake, PrDiscard, PrGiveUp,
           PrInsertFails, PrInsert, PrPost, PrInsertDelayed, PrShow, PrArm, PrArmFaults, Abort
  <2>3. TxdStep => aborted' = aborted \/ aborted' # "tx_list_empty"
    BY DEF TxdStep, TxdNext, TxdRead, TxdNothing, TxdTake, TxdSend, TxdShow, TxdArm, Abort
  <2> QED  BY <1>2, <1>3, <2>1, <2>2, <2>3
<1>4. CASE MainNext \/ StaleFaults \/ Kill \/ Restart \/ Over \/ UNCHANGED allVars
  <2>1. aborted' = aborted \/ aborted' # "tx_list_empty"
    <3>1. NotRoot \/ JoinFaults \/ InitSignalsFails \/ StaleFaults \/ Kill \/ Restart
          => aborted' # "tx_list_empty"
      BY DEF NotRoot, Exit, JoinFaults, InitSignalsFails, StaleFaults, Kill, Restart, Abort
    <3>2. InitSignals \/ CreateThread \/ CreateFails \/ Over \/ UNCHANGED allVars
            => aborted' = aborted
      BY DEF InitSignals, CreateThread, CreateFails, Over, allVars, vars, workVars
    <3>3. Join \/ (\E open \in Opened : OpenFds(open))
            => aborted' = aborted \/ aborted' # "tx_list_empty"
      BY DEF Join, OpenFds, Exit
    <3> QED  BY <1>4, <3>1, <3>2, <3>3 DEF MainNext
  <2> QED  BY <1>2, <2>1
<1> QED  BY <1>1, <1>3, <1>4 DEF DaemonNext

\* In that build the assertion can fail only in a process that took a message of a
\* dead one for its own.
THEOREM AbortsOnlyIfStrayed == DaemonSpec => []TxAbortOnlyIfStrayed
<1>1. DaemonInit => TxAbortOnlyIfStrayed
  BY DEF DaemonInit, Init, TxAbortOnlyIfStrayed
<1> QED  BY <1>1, StrayedStep, SharedAlways, MessageAlways, PTL DEF DaemonSpec

-----------------------------------------------------------------------------
(* What the promise of Emulator comes to, in every life of the process     *)

\* Restart leaves the frames received and sent as they are recorded.
LEMMA OriginKept ==
  ASSUME OriginInv, [Abstract!Next]_(Abstract!vars), origin' = origin, Len(origin) \in Nat
  PROVE  OriginInv'
<1>1. \A s \in Streams : Waits'[s] \subseteq Waits[s]
  BY WaitsStep
<1> QED  BY <1>1 DEF OriginInv

\* Only the forward path receives frames.
LEMMA OriginByDaemon ==
  ASSUME SharedInv, StaleInv, OriginInv, [DaemonNext]_allVars
  PROVE  OriginInv' /\ \A f \in 1..Len(origin) : f \in 1..Len(origin') /\ origin'[f] = origin[f]
<1>1. CASE RxStep \/ PrStep \/ TxStep \/ TxdStep \/ DaemonTick
  <2>1. Running /\ [Next]_vars
    BY <1>1, ThreadSteps
  <2>2. PICK R : R = RevHeld
    OBVIOUS
  <2>3. EmulatorInvOf(R)
    BY <2>1, <2>2, RunningTypes DEF SharedInv, EmulatorInvOf
  <2> QED  BY <2>1, <2>3, OriginStep
<1>2. ASSUME UNCHANGED origin
      PROVE  OriginInv' /\ \A f \in 1..Len(origin) :
                              f \in 1..Len(origin') /\ origin'[f] = origin[f]
  <2>1. Len(origin) \in Nat
    BY LenProperties DEF SharedInv, CoreType, HistoryType
  <2> QED  BY <1>2, <2>1, OriginKept, SharedStep
<1>3. RevStep => UNCHANGED origin
  BY DEF RevStep, RevNext, RevAllocFails, RevNothing, RevReceive, RevSend, RevDiscard,
         forwardVars, history
<1>4. Restart \/ UNCHANGED workVars => UNCHANGED origin
  BY DEF Restart, workVars, history
<1> QED  BY <1>1, <1>2, <1>3, <1>4, DaemonKinds

PromiseKeptInv == SharedInv /\ StaleInv /\ PromiseInv /\ OriginInv /\ SentInv

\* It holds through every life of the process.
LEMMA PromiseAlways == DaemonSpec => []PromiseKeptInv
<1>1. DaemonInit => PromiseKeptInv
  BY SharedInit, PromiseInit, OriginInit DEF PromiseKeptInv
<1>2. PromiseKeptInv /\ [DaemonNext]_allVars => PromiseKeptInv'
  <2> SUFFICES ASSUME PromiseKeptInv, [DaemonNext]_allVars PROVE PromiseKeptInv'
    OBVIOUS
  <2>1. SharedInv' /\ StaleInv' /\ [Abstract!Next]_(Abstract!vars)
    BY SharedStep DEF PromiseKeptInv
  <2>2. PromiseInv'
    BY <2>1, PromiseNext DEF PromiseKeptInv
  <2>3. OriginInv' /\ \A f \in 1..Len(origin) : f \in 1..Len(origin') /\ origin'[f] = origin[f]
    BY OriginByDaemon DEF PromiseKeptInv
  <2>4. SentInv'
    BY <2>1, <2>3, SentStep DEF PromiseKeptInv
  <2> QED  BY <2>1, <2>2, <2>3, <2>4 DEF PromiseKeptInv
<1> QED  BY <1>1, <1>2, PTL DEF DaemonSpec

\* Through all deaths and restarts every frame ever received is in one place, left
\* once or was given up, and an undelayed stream never sends a frame behind a
\* later one: what a new process sends is younger than all an old one sent.
THEOREM ProcessFramesLeaveOnce == DaemonSpec => [](Abstract!LeavesOnce /\ Abstract!InOrder)
<1>1. PromiseKeptInv => Abstract!LeavesOnce /\ Abstract!InOrder
  BY PromiseMeans DEF PromiseKeptInv
<1> QED  BY <1>1, PromiseAlways, PTL

\* And no process sends a frame on a stream that did not receive it.
THEOREM ProcessFramesStayOnStream ==
  DaemonSpec => [](\A s \in Streams : \A f \in Abstract!Sent(s) : origin[f] = s)
<1>1. PromiseKeptInv => \A s \in Streams : \A f \in Abstract!Sent(s) : origin[f] = s
  BY DEF PromiseKeptInv, SentInv, SentIn, Abstract!Sent
<1> QED  BY <1>1, PromiseAlways, PTL

\* The promise about the way back.
BackPromise == PromiseOf(Streams, Len(rev_origin), BackWaits, BackOut, BackDropped)

\* It is what Emulator says of it.
LEMMA BackPromiseMeans == BackPromise => Backward!LeavesOnce /\ Backward!InOrder
  BY DEF BackPromise, PromiseOf, SentIn, BackWaits, BackOut, BackDropped, Numbered,
         Backward!LeavesOnce, Backward!InOrder, Backward!Sent

LEMMA BackPromiseInit == Backward!Init => BackPromise
<1> SUFFICES ASSUME Backward!Init PROVE BackPromise
  OBVIOUS
<1>1. /\ Len(rev_origin) = 0 /\ BackWaits = [s \in Streams |-> {}] /\ BackDropped = {}
      /\ BackOut = [s \in Streams |-> << >>]
  BY DEF Backward!Init, BackWaits, BackOut, BackDropped, Numbered
<1> QED  BY <1>1, PromiseAtFirst DEF BackPromise

\* Every step of the way back keeps it.
LEMMA BackPromiseNext == BackPromise /\ [Backward!Next]_(Backward!vars) => BackPromise'
<1> SUFFICES ASSUME BackPromise, [Backward!Next]_(Backward!vars) PROVE BackPromise'
  OBVIOUS
<1> DEFINE F == Streams
           n == Len(rev_origin)
<1>1. F \in SUBSET Streams
  OBVIOUS
<1>2. CASE UNCHANGED Backward!vars
  BY <1>2 DEF Backward!vars, BackWaits, BackOut, BackDropped, Numbered, BackPromise
<1>3. ASSUME NEW s \in Streams, Backward!Accept(s) PROVE BackPromise'
  <2>1. /\ Len(rev_origin') = n + 1 /\ BackOut' = BackOut /\ BackDropped' = BackDropped
        /\ BackWaits' = [BackWaits EXCEPT ![s] = @ \union {n + 1}]
    BY <1>3 DEF Backward!Accept, BackWaits, BackOut, BackDropped, Numbered
  <2>2. PromiseOf(F, n + 1, [BackWaits EXCEPT ![s] = @ \union {n + 1}], BackOut, BackDropped)
    BY <1>1, PromiseAccept DEF BackPromise
  <2> QED  BY <2>1, <2>2 DEF BackPromise
<1>4. ASSUME NEW s \in Streams, NEW f, f \in BackWaits[s], Backward!Send(s, f)
      PROVE  BackPromise'
  <2>1. /\ Len(rev_origin') = n /\ BackDropped' = BackDropped
        /\ BackWaits' = [BackWaits EXCEPT ![s] = @ \ {f}]
        /\ BackOut' = [BackOut EXCEPT ![s] = Append(@, f)]
        /\ \A g \in BackWaits[s] : f <= g
    BY <1>4 DEF Backward!Send, BackWaits, BackOut, BackDropped, Numbered
  <2>2. PromiseOf(F, n, [BackWaits EXCEPT ![s] = @ \ {f}],
                  [BackOut EXCEPT ![s] = Append(@, f)], BackDropped)
    BY <1>1, <1>4, <2>1, PromiseSend DEF BackPromise
  <2> QED  BY <2>1, <2>2 DEF BackPromise
<1>5. ASSUME NEW s \in Streams, NEW f, f \in BackWaits[s], Backward!Drop(s, f)
      PROVE  BackPromise'
  <2>1. /\ Len(rev_origin') = n /\ BackOut' = BackOut
        /\ BackDropped' = BackDropped \union {f}
        /\ BackWaits' = [BackWaits EXCEPT ![s] = @ \ {f}]
    BY <1>5 DEF Backward!Drop, BackWaits, BackOut, BackDropped, Numbered
  <2>2. PromiseOf(F, n, [BackWaits EXCEPT ![s] = @ \ {f}], BackOut, BackDropped \union {f})
    BY <1>1, <1>5, PromiseDrop DEF BackPromise
  <2> QED  BY <2>1, <2>2 DEF BackPromise
<1>6. CASE Backward!Die
  <2>1. /\ Len(rev_origin') = n /\ BackOut' = BackOut
        /\ BackDropped' = BackDropped \union UNION {BackWaits[s] : s \in Streams}
        /\ BackWaits' = [s \in Streams |-> {}]
    BY <1>6 DEF Backward!Die, BackWaits, BackOut, BackDropped, Numbered
  <2>2. PromiseOf(F, n, BackWaits', BackOut, BackDropped')
    <3>1. PromiseOf(F, n, BackWaits, BackOut, BackDropped)
      BY DEF BackPromise
    <3> QED  BY <1>1, <2>1, <3>1, PromiseDie
  <2> QED  BY <2>1, <2>2 DEF BackPromise
<1>7. \/ UNCHANGED Backward!vars
      \/ \E s \in Streams : Backward!Accept(s)
      \/ \E s \in Streams : \E f \in BackWaits[s] : Backward!Send(s, f) \/ Backward!Drop(s, f)
      \/ Backward!Die
  BY DEF Backward!Next, BackWaits
<1> QED  BY <1>2, <1>3, <1>4, <1>5, <1>6, <1>7

\* Every frame received on an output interface has been sent back once, or given
\* up, or is in the reverse thread's hands, and none passed an earlier one.
THEOREM ReverseFramesLeaveOnce ==
  DaemonSpec => [](Backward!LeavesOnce /\ Backward!InOrder)
<1>1. DaemonInit => RevFrameInv /\ BackPromise
  BY BackwardInit, BackPromiseInit
<1>2. SharedInv /\ RevFrameInv /\ BackPromise /\ [DaemonNext]_allVars
        => RevFrameInv' /\ BackPromise'
  BY BackwardStep, BackPromiseNext
<1>3. DaemonSpec => []BackPromise
  BY <1>1, <1>2, SharedAlways, PTL DEF DaemonSpec
<1> QED  BY <1>3, BackPromiseMeans, PTL

-----------------------------------------------------------------------------
(* Order and timers of the delayed streams, in every life of the process   *)

\* A step that touches neither the delayed streams nor the packets in them.
LEMMA DelayedQuiet ==
  ASSUME CoreType, TxdInv, UNCHANGED << tx_list, timer, now, pr, txd, outlived >>,
         \A b \in Buffers :
           (\E s \in Streams : b \in PacketsOf(s))
             => LeaveOf'[b] = LeaveOf[b] /\ FrameOf'[b] = FrameOf[b]
  PROVE  (SortedInv => SortedInv') /\ (TimerInv => TimerInv')
<1>1. ASSUME NEW s \in Delayed
      PROVE  /\ s \in Streams /\ tx_list[s] \in Seq(Buffers)
             /\ \A b \in ToSet(tx_list[s]) : LeaveOf'[b] = LeaveOf[b] /\ FrameOf'[b] = FrameOf[b]
  <2>1. s \in Streams /\ tx_list[s] \in Seq(Buffers)
    BY CoreAssumption DEF CoreType, ListType
  <2>2. ToSet(tx_list[s]) \subseteq Buffers /\ ToSet(tx_list[s]) \subseteq PacketsOf(s)
    BY <2>1, ElementOfSeq DEF ToSet, PacketsOf
  <2> QED  BY <2>1, <2>2
<1>2. SortedInv => SortedInv'
  BY <1>1, SameOrder DEF SortedInv
<1>3. ASSUME NEW s \in Delayed, ShownInv(s) PROVE ShownInv(s)'
  BY <1>3 DEF ShownInv
<1>4. ASSUME NEW s \in Delayed, TimerRight(s) PROVE TimerRight(s)'
  <2>1. ASSUME NEW n, Due(s, n) PROVE Due(s, n)'
    <3>1. tx_list[s] # << >> /\ Head(tx_list[s]) \in ToSet(tx_list[s])
      <4>1. tx_list[s] # << >> /\ Len(tx_list[s]) \in Nat \ {0} /\ Head(tx_list[s]) = tx_list[s][1]
        BY <1>1, <2>1, HeadTailProperties, LenProperties, EmptySeq DEF Due
      <4> QED  BY <1>1, <4>1, LenProperties DEF ToSet
    <3> QED  BY <1>1, <2>1, <3>1 DEF Due
  <2>2. ASSUME txd.pc = "send", txd.i = s PROVE LeaveOf'[txd.b] = LeaveOf[txd.b]
    <3>1. txd.b \in Buffers /\ txd.b \in PacketsOf(s)
      BY <1>1, <2>2 DEF CoreType, TxdType, PacketsOf
    <3> QED  BY <1>1, <3>1
  <2>3. Covered(s)'
    BY <1>4 DEF TimerRight, Covered, Arming
  <2>4. timer'[s] # 0 /\ ~Working(s)' => Due(s, timer[s])'
    BY <1>4, <2>1 DEF TimerRight, Working, Due
  <2>5. txd'.pc = "take" /\ txd'.i = s => Due(s, now)'
    BY <1>4, <2>1 DEF TimerRight, Due
  <2> QED  BY <1>4, <2>2, <2>3, <2>4, <2>5 DEF TimerRight
<1> QED  BY <1>2, <1>3, <1>4 DEF TimerInv

\* The other steps of the process do not; a new one has no packets.
LEMMA DelayedByDaemon ==
  ASSUME SharedInv, StaleInv, SortedInv, [DaemonNext]_allVars
  PROVE  SortedInv' /\ (DeparturesAccepted /\ TimerInv => TimerInv')
<1>1. CASE RxStep \/ PrStep \/ TxStep \/ TxdStep \/ DaemonTick
  <2>1. Running /\ [Next]_vars
    BY <1>1, ThreadSteps
  <2>2. PICK R : R = RevHeld
    OBVIOUS
  <2>3. EmulatorInvOf(R)
    BY <2>1, <2>2, RunningTypes DEF SharedInv, EmulatorInvOf
  <2> QED  BY <2>1, <2>3, SortedStep, TimerStep
<1>2. CASE RevStep
  <2>1. /\ UNCHANGED forwardVars
        /\ \A b \in live \ RevHeld : pkt'[b] = pkt[b]
    BY <1>2, RevHeap DEF RevStep
  <2>2. Owned(RevHeld) \subseteq live \ RevHeld
    BY DEF Owned, SharedInv
  <2>3. ASSUME NEW b \in Buffers, NEW s \in Streams, b \in PacketsOf(s)
        PROVE  LeaveOf'[b] = LeaveOf[b] /\ FrameOf'[b] = FrameOf[b]
    <3>1. PICK R : R = RevHeld
      OBVIOUS
    <3>2. b \in live \ RevHeld
      BY <2>2, <2>3, PacketsInside DEF SharedInv
    <3> QED  BY <2>1, <3>2 DEF LeaveOf, FrameOf
  <2>4. UNCHANGED << tx_list, timer, now, pr, txd, outlived >>
    BY <2>1 DEF forwardVars, threadVars, history
  <2> QED  BY <2>3, <2>4, DelayedQuiet DEF SharedInv
<1>3. CASE Restart
  <2>1. /\ tx_list' = [s \in Streams |-> << >>] /\ timer' = [s \in Streams |-> 0]
        /\ pr'.pc = "wait" /\ txd'.pc = "read"
    BY <1>3 DEF Restart, PrWaiting, TxdStart
  <2>2. \A s \in Delayed : tx_list'[s] = << >> /\ timer'[s] = 0 /\ Len(tx_list'[s]) = 0
    BY <2>1, CoreAssumption
  <2>3. SortedInv'
    BY <2>2 DEF SortedInv, InOrder
  <2>4. TimerInv'
    BY <2>1, <2>2 DEF TimerInv, ShownInv, TimerRight, Covered
  <2> QED  BY <2>3, <2>4
<1>4. CASE UNCHANGED workVars
  <2>1. UNCHANGED << tx_list, timer, now, pr, txd, outlived, pkt >>
    BY <1>4 DEF workVars, heapVars, threadVars, history
  <2>2. LeaveOf' = LeaveOf /\ FrameOf' = FrameOf
    BY <2>1 DEF LeaveOf, FrameOf
  <2> QED  BY <2>1, <2>2, DelayedQuiet DEF SharedInv
<1> QED  BY <1>1, <1>2, <1>3, <1>4, DaemonKinds

\* The order of delayed packets holds in the process as it does without it: a
\* buffer of the reverse path written by recvfrom is never one that is queued.
THEOREM ProcessListsSorted == DaemonSpec => []TxListSorted
<1>1. DaemonInit => SortedInv
  BY SortedInit DEF DaemonInit
<1>2. SharedInv /\ StaleInv /\ SortedInv /\ [DaemonNext]_allVars => SortedInv'
  BY DelayedByDaemon
<1>3. SharedInv /\ SortedInv => TxListSorted
  <2> SUFFICES ASSUME SharedInv, SortedInv PROVE TxListSorted
    OBVIOUS
  <2> QED  BY SortedMeans DEF SharedInv, CoreType
<1> QED  BY <1>1, <1>2, <1>3, SharedAlways, PTL DEF DaemonSpec

\* And so, under the hypothesis of TimersCover, does what is said there: a new
\* process does not inherit packets without the timers to send them.
THEOREM ProcessTimersCover ==
  DaemonSpec /\ []DeparturesAccepted => []TimerCoveredUnlessOutlived
<1>1. DaemonInit => SortedInv /\ TimerInv
  BY DelayedInit DEF DaemonInit, DelayedInv, SortingInv
<1>2. SharedInv /\ StaleInv /\ SortedInv /\ TimerInv /\ DeparturesAccepted
        /\ [DaemonNext]_allVars => SortedInv' /\ TimerInv'
  BY DelayedByDaemon
<1>3. TimerInv => TimerCoveredUnlessOutlived
  BY DEF TimerInv, TimerRight, TimerCoveredUnlessOutlived
<1> QED  BY <1>1, <1>2, <1>3, SharedAlways, PTL DEF DaemonSpec

-----------------------------------------------------------------------------
(* rx_list in the process                                                  *)

\* A stale message makes p_emu_PrThread look into a list early, but it counts the
\* packets first, like after any other.
LEMMA RxTakeByDaemon ==
  ASSUME SharedInv, RxTakeInv, [DaemonNext]_allVars
  PROVE  RxTakeInv'
<1>1. CASE RxStep \/ PrStep \/ TxStep \/ TxdStep \/ DaemonTick
  <2>1. TypeOK /\ Next
    BY <1>1, ThreadSteps, RunningTypes DEF SharedInv
  <2> QED  BY <2>1, RxTakeOthers, RxTakePr DEF Next, Halted
<1>2. CASE RevStep
  <2>1. UNCHANGED << pr, rx_list, aborted >>
    BY <1>2, RevHeap DEF RevStep, forwardVars, threadVars
  <2> QED  BY <2>1 DEF RxTakeInv, RxListNeverEmptyAtTake
<1>3. CASE Restart
  BY <1>3 DEF Restart, PrWaiting, RxTakeInv, RxListNeverEmptyAtTake
<1>4. CASE /\ MainNext \/ StaleFaults \/ Kill \/ Over \/ UNCHANGED allVars
           /\ UNCHANGED workVars
  <2>1. UNCHANGED << pr, rx_list >>
    BY <1>4 DEF workVars, threadVars
  <2>2. aborted' = aborted \/ aborted' # "rx_list_empty"
    <3>1. NotRoot \/ JoinFaults \/ InitSignalsFails \/ StaleFaults \/ Kill
          => aborted' # "rx_list_empty"
      BY DEF NotRoot, Exit, JoinFaults, InitSignalsFails, StaleFaults, Kill, Abort
    <3>2. InitSignals \/ CreateThread \/ CreateFails \/ Over \/ UNCHANGED allVars
            => aborted' = aborted
      BY DEF InitSignals, CreateThread, CreateFails, Over, allVars, vars, workVars
    <3>3. Join \/ (\E open \in Opened : OpenFds(open))
            => aborted' = aborted \/ aborted' # "rx_list_empty"
      BY DEF Join, OpenFds, Exit
    <3> QED  BY <1>4, <3>1, <3>2, <3>3 DEF MainNext
  <2> QED  BY <2>1, <2>2 DEF RxTakeInv, RxListNeverEmptyAtTake
<1> QED  BY <1>1, <1>2, <1>3, <1>4, DaemonKinds

\* The assertion of p_emu_process_received never fails in the process either, not
\* even when the messages of a dead one wake the processing thread.
THEOREM ProcessRxListNeverEmpty == DaemonSpec => []RxListNeverEmptyAtTake
<1>1. DaemonInit => RxTakeInv
  BY RxTakeInit DEF DaemonInit
<1>2. RxTakeInv => RxListNeverEmptyAtTake
  BY DEF RxTakeInv
<1> QED  BY <1>1, <1>2, RxTakeByDaemon, SharedAlways, PTL DEF DaemonSpec

-----------------------------------------------------------------------------
(* Semaphores in the process                                               *)

\* Without packets no signal is missing.
LEMMA SignalsAtFirst ==
  ASSUME UseSems, rx_sig' = << >>, tx_sig' = << >>,
         rx'.pc = "recv", pr'.pc = "wait", tx'.pc = "wait", txd'.pc = "read",
         \A s \in Streams : rx_list'[s] = << >> /\ tx_list'[s] = << >>,
         rx_list' \in [Streams -> Seq(Buffers)]
  PROVE  RxSignalInv' /\ TxShape' /\ TxSignalled'
<1>1. Cardinality(Queued(rx_list')) = 0 /\ Len(<< >>) = 0
  BY QueuedNone, EmptySeq
<1>2. RxSignalInv'
  BY <1>1 DEF RxSignalInv, RxShape, RxCounted, PrMayTake, One
<1>3. TxShape'
  BY DEF TxShape
<1>4. \A s \in Streams : SignalPerPacket(s)'
  BY <1>1 DEF SignalPerPacket, Waiting, One
<1> QED  BY <1>2, <1>3, <1>4 DEF TxSignalled

\* The signals of a process are made before its threads, and die with it.
SemInv == SharedInv /\ StaleInv /\ DaemonInv /\ RxSignalInv /\ TxShape /\ TxSignalled

\* Every step of the process keeps the account of signals and packets.
LEMMA SemStep ==
  ASSUME UseSems, SemInv, [DaemonNext]_allVars
  PROVE  SemInv'
<1> USE DEF SemInv
<1>1. SharedInv' /\ StaleInv' /\ DaemonInv'
  BY SharedStep, DaemonInvStep
<1>2. rx_list' \in [Streams -> Seq(Buffers)]
  BY <1>1 DEF SharedInv, CoreType, ListType
<1>3. CASE RxStep \/ PrStep \/ TxStep \/ TxdStep \/ DaemonTick
  <2>1. TypeOK /\ [Next]_vars
    BY <1>3, ThreadSteps, RunningTypes DEF SharedInv
  <2> QED  BY <1>1, <2>1, RxSignalStep, TxShapeStep, TxSignalledStep
<1>4. ASSUME UNCHANGED << rx_list, tx_list, rx_sig, tx_sig, rx, pr, tx, txd >> PROVE SemInv'
  <2>1. RxSignalInv'
    BY <1>4, RxSignalKept
  <2>2. TxShape' /\ TxSignalled'
    BY <1>4 DEF TxShape, TxSignalled, SignalPerPacket, Waiting
  <2> QED  BY <1>1, <2>1, <2>2
<1>5. CASE RevStep
  BY <1>4, <1>5, RevHeap DEF RevStep, forwardVars, threadVars
<1>6. CASE Restart
  <2>1. /\ rx_sig' = << >> /\ tx_sig' = << >>
        /\ rx'.pc = "recv" /\ pr'.pc = "wait" /\ tx'.pc = "wait" /\ txd'.pc = "read"
        /\ \A s \in Streams : rx_list'[s] = << >> /\ tx_list'[s] = << >>
    BY <1>6 DEF Restart, RxStart, PrWaiting, TxWaiting, TxdStart
  <2> QED  BY <1>1, <1>2, <2>1, SignalsAtFirst
<1>7. CASE InitSignals
  <2>1. threads = {}
    <3>1. main.pc = "start" /\ StartSteps[main.i] = "signals"
      BY <1>7 DEF InitSignals
    <3>2. main.i \in 1..6 /\ (main.i <= 2 => threads = {})
      BY <3>1 DEF DaemonInv, StartInv
    <3>3. ~(main.i \in 2..6)
      BY <3>1, StepNames
    <3> QED  BY <3>2, <3>3
  <2>2. Idle
    BY <2>1 DEF DaemonInv
  <2>3. rx_sig' = << >> /\ tx_sig' = << >> /\ UNCHANGED << rx, pr, tx, txd, rx_list, tx_list >>
    BY <1>7 DEF InitSignals, workVars, threadVars
  <2> QED  BY <1>1, <1>2, <2>2, <2>3, SignalsAtFirst DEF Idle
<1>8. CASE /\ MainNext \/ StaleFaults \/ Kill \/ Over \/ UNCHANGED allVars
           /\ UNCHANGED workVars
  <2>1. CASE ~InitSignals
    <3>1. NotRoot \/ CreateThread \/ CreateFails \/ Join \/ JoinFaults \/ InitSignalsFails
            => UNCHANGED << rx_sig, tx_sig >>
      BY DEF NotRoot, CreateThread, CreateFails, Join, JoinFaults, InitSignalsFails
    <3>2. (\E open \in Opened : OpenFds(open)) => UNCHANGED << rx_sig, tx_sig >>
      BY DEF OpenFds
    <3>3. ~StaleFaults /\ (Kill => UNCHANGED << rx_sig, tx_sig >>)
      BY DEF StaleInv, StaleFaults, Kill
    <3>4. Over \/ UNCHANGED allVars => UNCHANGED << rx_sig, tx_sig >>
      BY DEF Over, allVars, vars
    <3>5. UNCHANGED << rx_sig, tx_sig >>
      BY <1>8, <2>1, <3>1, <3>2, <3>3, <3>4 DEF MainNext
    <3> QED  BY <1>4, <1>8, <3>5 DEF workVars, threadVars
  <2> QED  BY <1>7, <2>1
<1> QED  BY <1>3, <1>5, <1>6, <1>8, DaemonKinds

\* In the semaphore build every packet of the process is signalled, as it is
\* without startup and restarts: the semaphores are set to zero before a thread
\* can post one, and nothing of them outlives the packets they stand for.
THEOREM ProcessSemaphoresCount ==
  ASSUME UseSems
  PROVE  DaemonSpec => [](RxSignalled /\ TxSignalled)
<1>1. DaemonInit => SemInv
  BY SharedInit, DaemonInvInit, RxSignalInit, TxShapeInit, TxSignalledInit
  DEF DaemonInit, SemInv
<1>2. SemInv /\ [DaemonNext]_allVars => SemInv'
  BY SemStep
<1>3. SemInv => RxSignalled /\ TxSignalled
  BY RxSignalMeans DEF SemInv
<1> QED  BY <1>1, <1>2, <1>3, PTL DEF DaemonSpec

=============================================================================
