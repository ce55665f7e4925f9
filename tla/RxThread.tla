------------------------------ MODULE RxThread ------------------------------
(***************************************************************************)
(* p_emu_RxThread: wait in select for the streams' input sockets (or the   *)
(* ten second timeout), then call p_emu_rx_packet on every stream.  The    *)
(* sockets are non-blocking, so a stream whose socket had nothing to read  *)
(* costs one recvfrom that fails.  select itself changes no shared state   *)
(* and always returns: the next pass starts from the first stream again.   *)
(***************************************************************************)
EXTENDS PEmuCore

RxAdvance ==
    rx' = [pc |-> "recv", b |-> NoBuffer,
           i |-> IF rx.i = NumStreams THEN 1 ELSE rx.i + 1]

RxStart == [pc |-> "recv", i |-> 1, b |-> NoBuffer]

RxInit == rx = RxStart

\* malloc fails: p_emu_rx_packet returns and the frame stays in the socket.
RxAllocFails ==
    /\ Running /\ rx.pc = "recv"
    /\ Buffers \subseteq live
    /\ RxAdvance
    /\ UNCHANGED << heapVars, rx_list, tx_list, rx_sig, tx_sig, timer, now, aborted,
                    pr, tx, txd, history >>

\* recvfrom has nothing: the function returns without freeing its buffer.
RxNothing ==
    /\ Running /\ rx.pc = "recv"
    /\ \E b \in Buffers : p_emu_packet_init(b, BlankPacket) /\ leaked' = leaked \union {b}
    /\ RxAdvance
    /\ UNCHANGED << rx_list, tx_list, rx_sig, tx_sig, timer, now, aborted,
                    pr, tx, txd, origin, out, dropped, early, outlived >>

\* recvfrom returns a frame, stamped with its arrival time.
RxFrame ==
    /\ Running /\ rx.pc = "recv"
    /\ Len(origin) < MaxFrames /\ now <= LastArrival
    /\ origin' = Append(origin, rx.i)
    /\ \E b \in Buffers :
        /\ p_emu_packet_init(b, [frame |-> Len(origin) + 1, arrival |-> now,
                                 leave |-> Zero])
        /\ rx' = [rx EXCEPT !.pc = "add", !.b = b]
    /\ UNCHANGED << rx_list, tx_list, rx_sig, tx_sig, timer, now, aborted,
                    pr, tx, txd, out, dropped, early, outlived, leaked >>

\* slib_list_add_last_node
RxAdd ==
    /\ Running /\ rx.pc = "add"
    /\ rx_list' = [rx_list EXCEPT ![rx.i] = Append(@, rx.b)]
    /\ rx' = [rx EXCEPT !.pc = "post", !.b = NoBuffer]
    /\ UNCHANGED << heapVars, tx_list, rx_sig, tx_sig, timer, now, aborted,
                    pr, tx, txd, history >>

\* The packet not discarded when the list refuses it.
RxAddFails_NoDiscard ==
    /\ Running /\ rx.pc = "add" /\ ListOpsMayFail
    /\ dropped' = dropped \union {pkt[rx.b].frame}
    /\ RxAdvance
    /\ UNCHANGED << heapVars, rx_list, tx_list, rx_sig, tx_sig, timer, now, aborted,
                    pr, tx, txd, origin, out, early, outlived, leaked >>

\* slib_list_add_last_node fails: the packet is discarded, no signal is sent.
RxAddFails ==
    /\ Running /\ rx.pc = "add" /\ ListOpsMayFail
    /\ p_emu_packet_discard(rx.b)
    /\ dropped' = dropped \union {pkt[rx.b].frame}
    /\ RxAdvance
    /\ UNCHANGED << pkt, rx_list, tx_list, rx_sig, tx_sig, timer, now, aborted,
                    pr, tx, txd, origin, out, early, outlived, leaked >>

\* The signal only when the list was empty before.
RxPost_OnlyFirst ==
    /\ Running /\ rx.pc = "post" /\ CanPost(rx_sig)
    /\ rx_sig' = IF Len(rx_list[rx.i]) > 1 THEN rx_sig ELSE Post(rx_sig, rx.i)
    /\ RxAdvance
    /\ UNCHANGED << heapVars, rx_list, tx_list, tx_sig, timer, now, aborted,
                    pr, tx, txd, history >>

\* p_emu_post_rx_signal, or p_emu_rx_msg_queue_send
RxPost ==
    /\ Running /\ rx.pc = "post" /\ CanPost(rx_sig)
    /\ rx_sig' = Post(rx_sig, rx.i)
    /\ RxAdvance
    /\ UNCHANGED << heapVars, rx_list, tx_list, tx_sig, timer, now, aborted,
                    pr, tx, txd, history >>

RxNext == RxAllocFails \/ RxNothing \/ RxFrame \/ RxAdd \/ RxAddFails \/ RxPost

=============================================================================
