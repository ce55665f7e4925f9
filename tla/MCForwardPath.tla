---------------------------- MODULE MCForwardPath ----------------------------
(* Values for the constants of ForwardPath in the runs. *)
EXTENDS ForwardPath, TLC

\* Delays of one and of three ticks; all times within the first second.
ShortAndLong == {[sec |-> 0, nsec |-> 1], [sec |-> 0, nsec |-> 3]}

\* A single delay of one tick.
Short == {[sec |-> 0, nsec |-> 1]}

\* Delays at the edges of the arithmetic when a second has three nanoseconds: a
\* negative one, one that ends on a whole second, one that carries twice.
Edges == {[sec |-> 0, nsec |-> -2], [sec |-> 1, nsec |-> 2], [sec |-> 0, nsec |-> 7]}

NoDelay == {}

AllSendResults == SendOutcomes

BufferSymmetry == Permutations(Buffers)

=============================================================================
