------------------------------ MODULE PrThread ------------------------------
(***************************************************************************)
(* p_emu_PrThread: wait for an rx signal, then run p_emu_process_received  *)
(* on the streams the signal concerns.  That function takes one packet     *)
(* from rx_list, discards it or moves it to tx_list, and either arms the   *)
(* stream's timer (delayed streams) or posts a tx signal (the others).     *)
(* One action per access to state another thread can change.               *)
(***************************************************************************)
EXTENDS PEmuCore

PrWaiting == [pc |-> "wait", i |-> 1, last |-> 1, b |-> NoBuffer]

PrInit == pr = PrWaiting

\* Return from p_emu_process_received: next stream, or back to the signal.
PrAdvance ==
    pr' = IF pr.i = pr.last THEN PrWaiting
          ELSE [pr EXCEPT !.pc = "scan", !.i = @ + 1, !.b = NoBuffer]

\* p_emu_wait_rx_signal, or p_emu_rx_msg_queue_wait
PrWait ==
    /\ Running /\ pr.pc = "wait" /\ rx_sig # << >>
    /\ rx_sig' = Tail(rx_sig)
    /\ pr' = [pc |-> "scan", i |-> FirstVisited(Head(rx_sig)),
              last |-> LastVisited(Head(rx_sig)), b |-> NoBuffer]
    /\ UNCHANGED << heapVars, rx_list, tx_list, tx_sig, timer, now, aborted,
                    rx, tx, txd, history >>

\* The emptiness test taken on the wrong list.
PrCount_WrongList ==
    /\ Running /\ pr.pc = "scan"
    /\ IF rx_list[pr.i] = << >> /\ tx_list[pr.i] = << >> THEN PrAdvance
       ELSE pr' = [pr EXCEPT !.pc = "take"]
    /\ UNCHANGED << heapVars, rx_list, tx_list, rx_sig, tx_sig, timer, now, aborted,
                    rx, tx, txd, history >>

\* slib_get_list_cont: nothing to do for an empty list.
PrCount ==
    /\ Running /\ pr.pc = "scan"
    /\ IF rx_list[pr.i] = << >> THEN PrAdvance
       ELSE pr' = [pr EXCEPT !.pc = "take"]
    /\ UNCHANGED << heapVars, rx_list, tx_list, rx_sig, tx_sig, timer, now, aborted,
                    rx, tx, txd, history >>

\* The packet left in the list: slib_show_first for slib_return_first.
PrTake_Show ==
    /\ Running /\ pr.pc = "take" /\ rx_list[pr.i] # << >>
    /\ pr' = [pr EXCEPT !.pc = "process", !.b = Head(rx_list[pr.i])]
    /\ UNCHANGED << heapVars, rx_list, tx_list, rx_sig, tx_sig, timer, now, aborted,
                    rx, tx, txd, history >>

\* slib_return_first and assert(pack_node)
PrTake ==
    /\ Running /\ pr.pc = "take"
    /\ IF rx_list[pr.i] = << >>
       THEN Abort("rx_list_empty") /\ UNCHANGED << rx_list, pr >>
       ELSE /\ pr' = [pr EXCEPT !.pc = "process", !.b = Head(rx_list[pr.i])]
            /\ rx_list' = [rx_list EXCEPT ![pr.i] = Tail(@)]
            /\ UNCHANGED aborted
    /\ UNCHANGED << heapVars, tx_list, rx_sig, tx_sig, timer, now,
                    rx, tx, txd, history >>

\* The packet is given up: p_emu_packet_discard and return.
PrGiveUp ==
    /\ p_emu_packet_discard(pr.b)
    /\ dropped' = dropped \union {pkt[pr.b].frame}
    /\ PrAdvance
    /\ UNCHANGED << pkt, rx_list, tx_list, rx_sig, tx_sig, timer, now, aborted,
                    rx, tx, txd, origin, out, early, outlived, leaked >>

\* A packet given up, and the tx signal sent all the same.
PrGiveUpAndPost ==
    /\ p_emu_packet_discard(pr.b)
    /\ dropped' = dropped \union {pkt[pr.b].frame}
    /\ pr' = [pr EXCEPT !.pc = "post", !.b = NoBuffer]
    /\ UNCHANGED << pkt, rx_list, tx_list, rx_sig, tx_sig, timer, now, aborted,
                    rx, tx, txd, origin, out, early, outlived, leaked >>

\* p_emu_filter_packet and p_emu_loss_check of a stream that filters or loses
\* packets: the filter may mismatch, or the loss draw take, any one of them.
MayDiscard(s) == s \in Selective

\* A discarded packet signalled like a queued one.
PrDiscard_StillPosts ==
    /\ Running /\ pr.pc = "process" /\ MayDiscard(pr.i)
    /\ PrGiveUpAndPost

\* The stream's filter does not match the packet, or the loss draw takes it.
PrDiscard ==
    /\ Running /\ pr.pc = "process" /\ MayDiscard(pr.i)
    /\ PrGiveUp

\* A packet tx_list refused signalled like a queued one.
PrInsertFails_StillPosts ==
    /\ Running /\ pr.pc = "process" /\ ListOpsMayFail
    /\ PrGiveUpAndPost

\* slib_insert_and_sort or slib_list_add_last_node fails.
PrInsertFails ==
    /\ Running /\ pr.pc = "process" /\ ListOpsMayFail
    /\ PrGiveUp

\* Delayed stream: the packet gets its departure time and its place.
PrInsertDelayed(d) ==
    /\ Running /\ pr.pc = "process" /\ pr.i \in Delayed
    /\ pkt' = [pkt EXCEPT ![pr.b].leave = p_emu_delay_calculate(pkt[pr.b].arrival, d)]
    /\ tx_list' = [tx_list EXCEPT ![pr.i] = slib_insert_and_sort(@, pr.b, LeaveOf')]
    /\ pr' = [pr EXCEPT !.pc = "show", !.b = NoBuffer]
    /\ UNCHANGED << live, rx_list, rx_sig, tx_sig, timer, now, aborted,
                    rx, tx, txd, history >>

\* slib_show_first and assert(pack_node): the packet to arm the timer for.  It
\* stays in the list, where p_emu_TxThread_Delayed may take it at any time.
PrShow ==
    /\ Running /\ pr.pc = "show"
    /\ IF tx_list[pr.i] = << >>
       THEN Abort("tx_list_empty_after_insert") /\ UNCHANGED pr
       ELSE /\ pr' = [pr EXCEPT !.pc = "arm", !.b = Head(tx_list[pr.i])]
            /\ UNCHANGED aborted
    /\ UNCHANGED << heapVars, rx_list, tx_list, rx_sig, tx_sig, timer, now,
                    rx, tx, txd, history >>

\* The packet shown has been taken off the list since.
ShownIsGone == pr.pc = "arm" /\ ~Contains(tx_list[pr.i], pr.b)

\* The tx signal sent for a delayed packet, too.
PrArm_Posts ==
    /\ Running /\ pr.pc = "arm"
    /\ p_emu_timer_start(pr.i, pkt[pr.b].leave)
    /\ pr' = [pr EXCEPT !.pc = "post", !.b = NoBuffer]
    /\ UNCHANGED << heapVars, rx_list, tx_list, rx_sig, tx_sig, now, aborted,
                    rx, tx, txd, history >>

\* p_emu_timer_start(stream, pack) reads pack->leave.  When the other thread has
\* taken and freed the packet the read finds what the buffer last held, or what
\* it holds if it has been handed out again (no departure time as yet: zero).
PrArm ==
    /\ Running /\ pr.pc = "arm"
    /\ p_emu_timer_start(pr.i, pkt[pr.b].leave)
    /\ outlived' = IF ShownIsGone THEN outlived \union {pr.i} ELSE outlived
    /\ PrAdvance
    /\ UNCHANGED << heapVars, rx_list, tx_list, rx_sig, tx_sig, now, aborted,
                    rx, tx, txd, origin, out, dropped, early, leaked >>

\* The same read when the freed memory has been returned to the system.
PrArmFaults ==
    /\ Running /\ pr.pc = "arm" /\ pr.b \notin live
    /\ Abort("use_after_free")
    /\ UNCHANGED << heapVars, rx_list, tx_list, rx_sig, tx_sig, timer, now,
                    threadVars, history >>

\* The packet put in front of the queue.
PrInsert_Front ==
    /\ Running /\ pr.pc = "process" /\ pr.i \notin Delayed
    /\ tx_list' = [tx_list EXCEPT ![pr.i] = << pr.b >> \o @]
    /\ pr' = [pr EXCEPT !.pc = "post", !.b = NoBuffer]
    /\ UNCHANGED << heapVars, rx_list, rx_sig, tx_sig, timer, now, aborted,
                    rx, tx, txd, history >>

\* Other streams: the packet goes to the end of tx_list.
PrInsert ==
    /\ Running /\ pr.pc = "process" /\ pr.i \notin Delayed
    /\ tx_list' = [tx_list EXCEPT ![pr.i] = Append(@, pr.b)]
    /\ pr' = [pr EXCEPT !.pc = "post", !.b = NoBuffer]
    /\ UNCHANGED << heapVars, rx_list, rx_sig, tx_sig, timer, now, aborted,
                    rx, tx, txd, history >>

\* p_emu_post_tx_signal, or p_emu_tx_msg_queue_send
PrPost ==
    /\ Running /\ pr.pc = "post" /\ CanPost(tx_sig)
    /\ tx_sig' = Post(tx_sig, pr.i)
    /\ PrAdvance
    /\ UNCHANGED << heapVars, rx_list, tx_list, rx_sig, timer, now, aborted,
                    rx, tx, txd, history >>

PrNext ==
    \/ PrWait \/ PrCount \/ PrTake
    \/ PrDiscard \/ PrInsertFails \/ PrInsert \/ PrPost
    \/ \E d \in DelayOffsets : PrInsertDelayed(d)
    \/ PrShow \/ PrArm \/ PrArmFaults

=============================================================================
