------------------------------ MODULE PEmuTime ------------------------------
(***************************************************************************)
(* The time arithmetic of the emulator: how a packet's departure time is   *)
(* computed (p_emu_delay_calculate), how two departure times are compared  *)
(* (timercmp on values truncated to microseconds) and where that puts a    *)
(* packet in a stream's tx_list (pack_emu_sort_insert as it is called by   *)
(* slib_insert_and_sort).                                                  *)
(*                                                                         *)
(* A struct timespec is a record [sec, nsec].  A second has NsPerSec       *)
(* nanoseconds and a microsecond NsPerUs of them: 10^9 and 1000 in the     *)
(* code, small numbers in the runs, so that carries and truncations        *)
(* happen within a few ticks.                                              *)
(***************************************************************************)
EXTENDS Integers, Sequences, SequencesExt

CONSTANTS NsPerSec, NsPerUs

ASSUME TimeUnits == NsPerSec \in Nat \ {0} /\ NsPerUs \in Nat \ {0}

Timespec == [sec : Int, nsec : Int]

Zero == [sec |-> 0, nsec |-> 0]

\* The instant, in nanoseconds, a timespec stands for.
Instant(t) == t.sec * NsPerSec + t.nsec

\* What clock_gettime returns at instant n: nsec is always below NsPerSec.
clock_gettime(n) == [sec |-> n \div NsPerSec, nsec |-> n % NsPerSec]

-----------------------------------------------------------------------------
(* p_emu_delay_calculate                                                   *)

\* Whole seconds the loop "while(nsec > 1000000000)" moves into sec.
Carries(nsec) == IF nsec > NsPerSec THEN (nsec - 1) \div NsPerSec ELSE 0

\* The result of that loop: nsec may still be NsPerSec itself, and a negative
\* nsec is left as it is.
Normalise(t) ==
    [sec  |-> t.sec + Carries(t.nsec),
     nsec |-> t.nsec - Carries(t.nsec) * NsPerSec]

\* The departure time of a packet that arrived at instant n and that is given
\* the delay d.  The static delay has both fields; every random distribution
\* adds to tv_nsec alone (d.sec = 0).
p_emu_delay_calculate(n, d) ==
    LET arrival == clock_gettime(n)
    IN  Normalise([sec |-> arrival.sec + d.sec, nsec |-> arrival.nsec + d.nsec])

-----------------------------------------------------------------------------
(* pack_emu_sort_insert                                                    *)

\* tv_nsec / 1000 of TIMESPEC_TO_TIMEVAL: C division truncates toward zero.
Usec(nsec) == IF nsec >= 0 THEN nsec \div NsPerUs ELSE -((-nsec) \div NsPerUs)

\* timercmp(a, b, <) on the truncated values.
TimevalLess(a, b) ==
    \/ a.sec < b.sec
    \/ a.sec = b.sec /\ Usec(a.nsec) < Usec(b.nsec)

\* Ties inserted in front of the packets they tie with.
pack_emu_sort_insert_TieBefore(new, curr, nextExists) ==
    IF ~TimevalLess(curr, new) THEN "INSERT_BEFORE"
    ELSE IF nextExists THEN "INSERT_NO" ELSE "INSERT_AFTER"

\* Where the packet leaving at "new" goes with respect to the queued one
\* leaving at "curr".  The two INSERT_BEFORE branches of the code differ only
\* in whether a previous node exists, and the final assert(0) has no input.
pack_emu_sort_insert(new, curr, nextExists) ==
    IF TimevalLess(new, curr) THEN "INSERT_BEFORE"
    ELSE IF nextExists THEN "INSERT_NO" ELSE "INSERT_AFTER"

\* slib_insert_and_sort calls the function on one node after the other, from
\* the first, until it says BEFORE or AFTER.  leave[b] is the departure time
\* of packet b.
slib_insert_and_sort(list, b, leave) ==
    LET answer(k) == pack_emu_sort_insert(leave[b], leave[list[k]], k < Len(list))
        stop == CHOOSE k \in 1..Len(list) :
                    /\ answer(k) # "INSERT_NO"
                    /\ \A j \in 1..(k - 1) : answer(j) = "INSERT_NO"
    IN  IF list = << >> THEN << b >>
        ELSE IF answer(stop) = "INSERT_BEFORE" THEN InsertAt(list, stop, b)
        ELSE InsertAt(list, stop + 1, b)

-----------------------------------------------------------------------------
(* p_emu_timer_start                                                       *)

\* The times timerfd_settime accepts; any other one is EINVAL.
SettimeAccepts(t) == t.sec >= 0 /\ t.nsec \in 0..(NsPerSec - 1)

=============================================================================
