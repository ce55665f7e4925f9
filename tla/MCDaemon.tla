------------------------------ MODULE MCDaemon ------------------------------
(* Values for the constants of Daemon in its run. *)
EXTENDS Daemon, TLC

\* A delay of one tick.
Short == {[sec |-> 0, nsec |-> 1]}

BufferSymmetry == Permutations(Buffers)

=============================================================================
