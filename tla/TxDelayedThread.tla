--------------------------- MODULE TxDelayedThread ---------------------------
(***************************************************************************)
(* p_emu_TxThread_Delayed: wait in select for a stream's timerfd (or the   *)
(* ten second timeout), then call p_emu_tx_timers on every stream.  A      *)
(* stream whose timer has expired sends the first packet of its tx_list    *)
(* and arms the timer again for the next one.  A select that returns early *)
(* finds no timer to read, so select is not a step of its own.             *)
(***************************************************************************)
EXTENDS PEmuCore

TxdStart == [pc |-> "read", i |-> 1, b |-> NoBuffer]

TxdInit == txd = TxdStart

TxdAdvance ==
    txd' = [pc |-> "read", b |-> NoBuffer,
            i |-> IF txd.i = NumStreams THEN 1 ELSE txd.i + 1]

\* The result of read not tested: an unexpired timer counts, too.
TxdRead_Unchecked ==
    /\ Running /\ txd.pc = "read"
    /\ txd.i \in Delayed
    /\ timer' = [timer EXCEPT ![txd.i] = IF Expired(txd.i) THEN 0 ELSE @]
    /\ txd' = [txd EXCEPT !.pc = "take"]
    /\ UNCHANGED << heapVars, rx_list, tx_list, rx_sig, tx_sig, now, aborted,
                    rx, pr, tx, history >>

\* read(tx_timer) returns the expiration, which it consumes.
TxdRead ==
    /\ Running /\ txd.pc = "read"
    /\ txd.i \in Delayed /\ Expired(txd.i)
    /\ timer' = [timer EXCEPT ![txd.i] = 0]
    /\ txd' = [txd EXCEPT !.pc = "take"]
    /\ UNCHANGED << heapVars, rx_list, tx_list, rx_sig, tx_sig, now, aborted,
                    rx, pr, tx, history >>

\* No delay on this stream, or read fails with EAGAIN: next stream.
TxdNothing ==
    /\ Running /\ txd.pc = "read"
    /\ ~(txd.i \in Delayed /\ Expired(txd.i))
    /\ TxdAdvance
    /\ UNCHANGED << heapVars, rx_list, tx_list, rx_sig, tx_sig, timer, now, aborted,
                    rx, pr, tx, history >>

\* The packet left in the list: slib_show_first for slib_return_first.
TxdTake_Show ==
    /\ Running /\ txd.pc = "take" /\ tx_list[txd.i] # << >>
    /\ txd' = [txd EXCEPT !.pc = "send", !.b = Head(tx_list[txd.i])]
    /\ UNCHANGED << heapVars, rx_list, tx_list, rx_sig, tx_sig, timer, now, aborted,
                    rx, pr, tx, history >>

\* slib_return_first and assert(0) when there is nothing.
TxdTake ==
    /\ Running /\ txd.pc = "take"
    /\ IF tx_list[txd.i] = << >>
       THEN Abort("tx_list_empty_on_timer") /\ UNCHANGED << tx_list, txd >>
       ELSE /\ txd' = [txd EXCEPT !.pc = "send", !.b = Head(tx_list[txd.i])]
            /\ tx_list' = [tx_list EXCEPT ![txd.i] = Tail(@)]
            /\ UNCHANGED aborted
    /\ UNCHANGED << heapVars, rx_list, rx_sig, tx_sig, timer, now,
                    rx, pr, tx, history >>

\* The packet discarded only when it was sent.
TxdSend_KeepsRefused(result) ==
    /\ Running /\ txd.pc = "send"
    /\ LET p == pkt[txd.b]
       IN  IF result = "sent"
           THEN /\ out' = [out EXCEPT ![txd.i] = Append(@, p.frame)]
                /\ early' = IF TimevalLess(clock_gettime(now), p.leave)
                            THEN early \union {p.frame} ELSE early
                /\ p_emu_packet_discard(txd.b)
                /\ UNCHANGED dropped
           ELSE /\ dropped' = dropped \union {p.frame}
                /\ UNCHANGED << out, early, live >>
    /\ txd' = [txd EXCEPT !.pc = "show", !.b = NoBuffer]
    /\ UNCHANGED << pkt, rx_list, tx_list, rx_sig, tx_sig, timer, now, aborted,
                    rx, pr, tx, origin, outlived, leaked >>

\* The sendto loop, then p_emu_packet_discard however the loop ended: here
\* running out of retries is only logged.
TxdSend(result) ==
    /\ Running /\ txd.pc = "send"
    /\ LET p == pkt[txd.b]
       IN  IF result = "sent"
           THEN /\ out' = [out EXCEPT ![txd.i] = Append(@, p.frame)]
                /\ early' = IF TimevalLess(clock_gettime(now), p.leave)
                            THEN early \union {p.frame} ELSE early
                /\ UNCHANGED dropped
           ELSE /\ dropped' = dropped \union {p.frame}
                /\ UNCHANGED << out, early >>
    /\ p_emu_packet_discard(txd.b)
    /\ txd' = [txd EXCEPT !.pc = "show", !.b = NoBuffer]
    /\ UNCHANGED << pkt, rx_list, tx_list, rx_sig, tx_sig, timer, now, aborted,
                    rx, pr, tx, origin, outlived, leaked >>

\* The timer left alone after a transmission.
TxdShow_NoRearm ==
    /\ Running /\ txd.pc = "show"
    /\ TxdAdvance
    /\ UNCHANGED << heapVars, rx_list, tx_list, rx_sig, tx_sig, timer, now, aborted,
                    rx, pr, tx, history >>

\* slib_show_first: the next packet, if there is one.  If there is none the
\* timer is left alone, though p_emu_PrThread may just have set it for the
\* packet that was sent.
TxdShow ==
    /\ Running /\ txd.pc = "show"
    /\ IF tx_list[txd.i] = << >>
       THEN /\ TxdAdvance
            /\ outlived' = IF timer[txd.i] # 0 THEN outlived \union {txd.i} ELSE outlived
       ELSE /\ txd' = [txd EXCEPT !.pc = "arm", !.b = Head(tx_list[txd.i])]
            /\ UNCHANGED outlived
    /\ UNCHANGED << heapVars, rx_list, tx_list, rx_sig, tx_sig, timer, now, aborted,
                    rx, pr, tx, origin, out, dropped, early, leaked >>

\* p_emu_timer_start.  Only this thread takes packets off a delayed stream's
\* tx_list, so the one it was shown is still there.
TxdArm ==
    /\ Running /\ txd.pc = "arm"
    /\ p_emu_timer_start(txd.i, pkt[txd.b].leave)
    /\ TxdAdvance
    /\ UNCHANGED << heapVars, rx_list, tx_list, rx_sig, tx_sig, now, aborted,
                    rx, pr, tx, history >>

TxdNext ==
    \/ TxdRead \/ TxdNothing \/ TxdTake \/ TxdShow \/ TxdArm
    \/ \E r \in SendResults : TxdSend(r)

=============================================================================
