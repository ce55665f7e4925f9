------------------------------- MODULE Filter -------------------------------
(***************************************************************************)
(* The MAC filter of one stream: address lines are read in any order and   *)
(* number (import_dst_mac, import_src_mac), and p_emu_filter_packet        *)
(* compares every received frame with the key and the mask they leave.     *)
(***************************************************************************)
EXTENDS MacFilter, Sequences, SequencesExt

CONSTANT MaxLines    \* bound: address lines of the stream

VARIABLES
  filter,     \* stream->filter
  lines       \* history: the address lines read

vars == << filter, lines >>

\* Whether p_emu_filter_packet returns P_EMU_KEEP_PACKET; memory says whether malloc
\* finds room for the comparison.
Keeps(frame, memory) ==
    filter.enabled =>
      p_emu_frame_compare(frame, filter.key, filter.mask, filter.length, memory) = 0

Init == filter = NoFilter /\ lines = << >>

ReadSrcMac(addr) ==
    /\ Len(lines) < MaxLines
    /\ filter' = import_src_mac(filter, addr)
    /\ lines' = Append(lines, [kind |-> "src", addr |-> addr])

ReadDstMac(addr) ==
    /\ Len(lines) < MaxLines
    /\ filter' = import_dst_mac(filter, addr)
    /\ lines' = Append(lines, [kind |-> "dst", addr |-> addr])

Next == \E addr \in Addresses : ReadSrcMac(addr) \/ ReadDstMac(addr)

Spec == Init /\ [][Next]_vars

-----------------------------------------------------------------------------
(* Properties                                                              *)

Line == [kind : {"src", "dst"}, addr : Addresses]

\* The key and the mask hold bytes; the mask is set for the source address once
\* a line has been read, and never elsewhere.
TypeOK ==
    /\ filter \in [enabled : BOOLEAN, length : 0..(LengthRange - 1), key : Frames,
                   mask : [Positions -> 0..255]]
    /\ lines \in Seq(Line)
    /\ \A i \in Positions : filter.mask[i] = IF lines # << >> /\ i >= AddrLen THEN 255 ELSE 0

\* The length compared reaches the source address: after a dst_mac line, or two
\* lines of any kind.  A lone src_mac line leaves it at AddrLen.
Reaches == (\E k \in 1..Len(lines) : lines[k].kind = "dst") \/ Len(lines) >= 2

\* As many lines as a length of 16 bits can count addresses for.
Counted == AddrLen * (Len(lines) + 1) < LengthRange

\* What the filter does in the end: once the comparison reaches it the stream
\* keeps exactly the frames whose source address is that of the last line read,
\* whichever keyword the line had; until then it keeps every frame.  A frame for
\* which there is no memory is discarded, unless there is no line at all.
LastLineSelectsSource ==
    Counted =>
      \A frame \in Frames, memory \in BOOLEAN :
        Keeps(frame, memory) <=>
          (lines # << >> => memory /\ (Reaches => Source(frame) = Last(lines).addr))

\* filter_dst_mac is payload[0] (p_emu_core.h): after a dst_mac line the stream
\* keeps only frames for that destination.
DstMacSelectsDestination ==
    lines # << >> /\ Last(lines).kind = "dst" =>
      \A frame \in Frames : Keeps(frame, TRUE) => Destination(frame) = Last(lines).addr

=============================================================================
