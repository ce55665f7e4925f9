------------------------------ MODULE Emulator ------------------------------
(***************************************************************************)
(* What the emulator promises for the frames it forwards, with no threads, *)
(* buffers, signals or timers: a stream accepts frames, and each of them   *)
(* leaves once, sent on that stream or given up.  A stream without delay   *)
(* sends its frames in the order it accepted them.                         *)
(***************************************************************************)
EXTENDS Naturals, Sequences

CONSTANTS
  Streams,    \* the streams of the configuration
  Fifo        \* those without delay

VARIABLES
  accepted,   \* number of frames accepted: they are called 1, 2, ...
  waiting,    \* per stream: frames accepted that have not left
  out,        \* per stream: frames sent, in order
  dropped     \* frames given up

vars == << accepted, waiting, out, dropped >>

Init ==
    /\ accepted = 0
    /\ waiting = [s \in Streams |-> {}]
    /\ out = [s \in Streams |-> << >>]
    /\ dropped = {}

Accept(s) ==
    /\ accepted' = accepted + 1
    /\ waiting' = [waiting EXCEPT ![s] = @ \union {accepted + 1}]
    /\ UNCHANGED << out, dropped >>

\* The frame that has waited longest, or on a delayed stream any one.
Send(s, f) ==
    /\ f \in waiting[s]
    /\ s \in Fifo => \A g \in waiting[s] : f <= g
    /\ waiting' = [waiting EXCEPT ![s] = @ \ {f}]
    /\ out' = [out EXCEPT ![s] = Append(@, f)]
    /\ UNCHANGED << accepted, dropped >>

Drop(s, f) ==
    /\ f \in waiting[s]
    /\ waiting' = [waiting EXCEPT ![s] = @ \ {f}]
    /\ dropped' = dropped \union {f}
    /\ UNCHANGED << accepted, out >>

\* The process dies: whatever waits is lost, and said to be.
Die ==
    /\ dropped' = dropped \union UNION {waiting[s] : s \in Streams}
    /\ waiting' = [s \in Streams |-> {}]
    /\ UNCHANGED << accepted, out >>

Next ==
    \/ \E s \in Streams :
         Accept(s) \/ \E f \in waiting[s] : Send(s, f) \/ Drop(s, f)
    \/ Die

Spec == Init /\ [][Next]_vars

-----------------------------------------------------------------------------
(* The promise                                                             *)

\* The frames that have left on stream s.
Sent(s) == {out[s][k] : k \in DOMAIN out[s]}

\* Every frame accepted waits, has been sent or has been given up, and only one
\* of the three, on one stream and once.
LeavesOnce ==
    /\ dropped \union UNION {waiting[s] \union Sent(s) : s \in Streams} = 1..accepted
    /\ \A s \in Streams :
         /\ waiting[s] \intersect Sent(s) = {}
         /\ dropped \intersect (waiting[s] \union Sent(s)) = {}
         /\ \A k, m \in DOMAIN out[s] : out[s][k] = out[s][m] => k = m
    /\ \A s, t \in Streams :
         s # t => (waiting[s] \union Sent(s)) \intersect (waiting[t] \union Sent(t)) = {}

\* A stream without delay neither reorders nor lets a frame be overtaken.
InOrder ==
    \A s \in Fifo :
      /\ \A k, m \in DOMAIN out[s] : k < m => out[s][k] < out[s][m]
      /\ \A f \in Sent(s), g \in waiting[s] : f < g

=============================================================================
