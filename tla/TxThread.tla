------------------------------ MODULE TxThread ------------------------------
(***************************************************************************)
(* p_emu_TxThread: wait for a tx signal, then run                          *)
(* p_emu_tx_non_delayed_packet on the streams the signal concerns.  It     *)
(* takes the first packet of tx_list, which it asserts to exist, sends it  *)
(* and discards it.                                                        *)
(***************************************************************************)
EXTENDS PEmuCore

TxWaiting == [pc |-> "wait", i |-> 1, last |-> 1, b |-> NoBuffer]

TxInit == tx = TxWaiting

TxAdvance ==
    tx' = IF tx.i = tx.last THEN TxWaiting
          ELSE [tx EXCEPT !.pc = "take", !.i = @ + 1, !.b = NoBuffer]

\* p_emu_wait_tx_signal, or p_emu_tx_msg_queue_wait
TxWait ==
    /\ Running /\ tx.pc = "wait" /\ tx_sig # << >>
    /\ tx_sig' = Tail(tx_sig)
    /\ tx' = [pc |-> "take", i |-> FirstVisited(Head(tx_sig)),
              last |-> LastVisited(Head(tx_sig)), b |-> NoBuffer]
    /\ UNCHANGED << heapVars, rx_list, tx_list, rx_sig, timer, now, aborted,
                    rx, pr, txd, history >>

\* A delayed stream is left to p_emu_TxThread_Delayed.
TxSkip ==
    /\ Running /\ tx.pc = "take" /\ tx.i \in Delayed
    /\ TxAdvance
    /\ UNCHANGED << heapVars, rx_list, tx_list, rx_sig, tx_sig, timer, now, aborted,
                    rx, pr, txd, history >>

\* slib_return_first and assert(0) when there is nothing.
TxTake ==
    /\ Running /\ tx.pc = "take" /\ tx.i \notin Delayed
    /\ IF tx_list[tx.i] = << >>
       THEN Abort("tx_list_empty") /\ UNCHANGED << tx_list, tx >>
       ELSE /\ tx' = [tx EXCEPT !.pc = "send", !.b = Head(tx_list[tx.i])]
            /\ tx_list' = [tx_list EXCEPT ![tx.i] = Tail(@)]
            /\ UNCHANGED aborted
    /\ UNCHANGED << heapVars, rx_list, rx_sig, tx_sig, timer, now,
                    rx, pr, txd, history >>

\* The packet put back for another attempt when sendto refuses it.
TxSend_Requeue(result) ==
    /\ Running /\ tx.pc = "send" /\ result \in {"sent", "refused"}
    /\ IF result = "sent"
       THEN /\ out' = [out EXCEPT ![tx.i] = Append(@, pkt[tx.b].frame)]
            /\ p_emu_packet_discard(tx.b)
            /\ UNCHANGED tx_list
       ELSE /\ tx_list' = [tx_list EXCEPT ![tx.i] = Append(@, tx.b)]
            /\ UNCHANGED << out, live >>
    /\ TxAdvance
    /\ UNCHANGED << pkt, rx_list, rx_sig, tx_sig, timer, now, aborted,
                    rx, pr, txd, origin, dropped, early, outlived, leaked >>

\* The sendto loop, then p_emu_packet_discard whether it succeeded or not.
TxSend(result) ==
    /\ Running /\ tx.pc = "send" /\ result \in {"sent", "refused"}
    /\ IF result = "sent"
       THEN out' = [out EXCEPT ![tx.i] = Append(@, pkt[tx.b].frame)] /\ UNCHANGED dropped
       ELSE dropped' = dropped \union {pkt[tx.b].frame} /\ UNCHANGED out
    /\ p_emu_packet_discard(tx.b)
    /\ TxAdvance
    /\ UNCHANGED << pkt, rx_list, tx_list, rx_sig, tx_sig, timer, now, aborted,
                    rx, pr, txd, origin, early, outlived, leaked >>

\* MAX_TX_RETRIES attempts ended in EAGAIN: assert(0).
TxExhausted(result) ==
    /\ Running /\ tx.pc = "send" /\ result = "exhausted"
    /\ Abort("tx_retries")
    /\ UNCHANGED << heapVars, rx_list, tx_list, rx_sig, tx_sig, timer, now,
                    threadVars, history >>

TxNext ==
    \/ TxWait \/ TxSkip \/ TxTake
    \/ \E r \in SendResults : TxSend(r) \/ TxExhausted(r)

=============================================================================
