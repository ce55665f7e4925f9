----------------------------- MODULE ReversePath -----------------------------
(***************************************************************************)
(* p_emu_ReversePathThread: wait in select for the streams' output sockets *)
(* (or the ten second timeout), then call p_emu_rx_reverse_packet on every *)
(* stream.  That function takes a buffer, receives a frame into it from    *)
(* the output interface, sends the frame at once on the input interface    *)
(* and frees the buffer.  It shares the heap with the forward path and     *)
(* nothing else.                                                           *)
(***************************************************************************)
EXTENDS PEmuCore

CONSTANT MaxRevFrames   \* bound: frames the network delivers in this direction

ASSUME ReverseAssumption == MaxRevFrames \in Nat

VARIABLES
  rev,          \* locals of p_emu_ReversePathThread
  rev_origin,   \* history: the stream each frame was received on
  rev_out,      \* history, per stream: the frames sent back, in order
  rev_dropped   \* history: frames given up

revHistory == << rev_origin, rev_out, rev_dropped >>
revVars == << rev, rev_origin, rev_out, rev_dropped >>

\* What this thread never touches.
forwardVars == << rx_list, tx_list, rx_sig, tx_sig, timer, now, aborted,
                  threadVars, history >>

\* The payload of the k-th frame; the forward path's are 1..MaxFrames.
RevFrame(k) == MaxFrames + k

RevStart == [pc |-> "recv", i |-> 1, b |-> NoBuffer]

RevInit ==
    /\ rev = RevStart
    /\ rev_origin = << >>
    /\ rev_out = [s \in Streams |-> << >>]
    /\ rev_dropped = {}

\* The stream after the last one.
RevAdvance_OneMore ==
    rev' = [pc |-> "recv", b |-> NoBuffer,
            i |-> IF rev.i > NumStreams THEN 1 ELSE rev.i + 1]

RevAdvance ==
    rev' = [pc |-> "recv", b |-> NoBuffer,
            i |-> IF rev.i = NumStreams THEN 1 ELSE rev.i + 1]

\* malloc fails: the frame stays in the socket.
RevAllocFails ==
    /\ Running /\ rev.pc = "recv"
    /\ Buffers \subseteq live
    /\ RevAdvance
    /\ UNCHANGED << heapVars, forwardVars, revHistory >>

\* recvfrom has nothing: the buffer is freed in the next step.
RevNothing ==
    /\ Running /\ rev.pc = "recv"
    /\ \E b \in Buffers : /\ p_emu_packet_init(b, BlankPacket)
                          /\ rev' = [rev EXCEPT !.pc = "discard", !.b = b]
    /\ UNCHANGED << forwardVars, revHistory >>

\* recvfrom returns a frame.
RevReceive ==
    /\ Running /\ rev.pc = "recv"
    /\ Len(rev_origin) < MaxRevFrames
    /\ rev_origin' = Append(rev_origin, rev.i)
    /\ \E b \in Buffers :
        /\ p_emu_packet_init(b, [BlankPacket EXCEPT !.frame = RevFrame(Len(rev_origin) + 1)])
        /\ rev' = [rev EXCEPT !.pc = "send", !.b = b]
    /\ UNCHANGED << forwardVars, rev_out, rev_dropped >>

\* A frame counted as sent when sendto refused it, and kept for another attempt.
RevSend_Again(result) ==
    /\ Running /\ rev.pc = "send"
    /\ rev_out' = [rev_out EXCEPT ![rev.i] = Append(@, pkt[rev.b].frame)]
    /\ rev' = IF result = "refused" THEN rev ELSE [rev EXCEPT !.pc = "discard"]
    /\ UNCHANGED << heapVars, forwardVars, rev_origin, rev_dropped >>

\* The sendto loop: whichever way it ends, the packet is discarded next.
RevSend(result) ==
    /\ Running /\ rev.pc = "send"
    /\ IF result = "sent"
       THEN /\ rev_out' = [rev_out EXCEPT ![rev.i] = Append(@, pkt[rev.b].frame)]
            /\ UNCHANGED rev_dropped
       ELSE rev_dropped' = rev_dropped \union {pkt[rev.b].frame} /\ UNCHANGED rev_out
    /\ rev' = [rev EXCEPT !.pc = "discard"]
    /\ UNCHANGED << heapVars, forwardVars, rev_origin >>

\* The discard forgotten when nothing was received, as in p_emu_rx_packet.
RevDiscard_OnlyFrames ==
    /\ Running /\ rev.pc = "discard"
    /\ IF pkt[rev.b] = BlankPacket THEN UNCHANGED live ELSE p_emu_packet_discard(rev.b)
    /\ RevAdvance
    /\ UNCHANGED << pkt, forwardVars, revHistory >>

\* p_emu_packet_discard
RevDiscard ==
    /\ Running /\ rev.pc = "discard"
    /\ p_emu_packet_discard(rev.b)
    /\ RevAdvance
    /\ UNCHANGED << pkt, forwardVars, revHistory >>

RevNext ==
    \/ RevAllocFails \/ RevNothing \/ RevReceive \/ RevDiscard
    \/ \E r \in SendResults : RevSend(r)

-----------------------------------------------------------------------------

RevType ==
    /\ rev \in [pc : {"recv", "send", "discard"}, i : Streams,
                b : Buffers \union {NoBuffer}]
    /\ rev.pc # "recv" => rev.b \in Buffers
    /\ rev_origin \in Seq(Streams)
    /\ rev_out \in [Streams -> Seq(Nat)]
    /\ rev_dropped \subseteq Nat

\* The buffer the thread has allocated.
RevHeld == IF rev.pc = "recv" THEN {} ELSE {rev.b}

Backward == INSTANCE Emulator
            WITH Fifo <- Streams,
                 accepted <- Len(rev_origin),
                 waiting <- [s \in Streams |->
                              IF rev.pc = "send" /\ rev.i = s
                              THEN {pkt[rev.b].frame - MaxFrames} ELSE {}],
                 out <- [s \in Streams |-> [k \in DOMAIN rev_out[s] |->
                                             rev_out[s][k] - MaxFrames]],
                 dropped <- {f - MaxFrames : f \in rev_dropped}

\* The way back keeps the promise of Emulator for a stream without delay, though
\* its packets lie in the heap that four other threads allocate from, free to
\* and, in one race, read after the free: every frame is sent back once, in
\* order, or given up.
ImplementsReverse == Backward!Spec

=============================================================================
