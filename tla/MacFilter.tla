------------------------------ MODULE MacFilter ------------------------------
(***************************************************************************)
(* The operators of a stream's MAC filter: what the src_mac= and dst_mac=  *)
(* lines of the configuration file do to its key and mask (import_src_mac, *)
(* import_dst_mac), and the masked comparison of a frame with them.  The   *)
(* lines are well formed.                                                  *)
(*                                                                         *)
(* A payload is a function on the positions of the Ethernet header that    *)
(* hold addresses: the destination first, then the source, AddrLen bytes   *)
(* each (6 in the code).  The rest of the key and of the mask is zero.     *)
(***************************************************************************)
EXTENDS Naturals, FiniteSets

CONSTANTS
  AddrLen,      \* P_EMU_ETHER_ADDR_LEN
  Bytes,        \* the values a byte of an address takes
  LengthRange   \* 2^16: the lengths of key and mask are of type uint16_t

ASSUME AddressAssumption ==
  /\ AddrLen \in Nat \ {0}
  /\ LengthRange \in Nat /\ 2 * AddrLen < LengthRange
  /\ Bytes \subseteq 0..255 /\ 0 \in Bytes

Positions == 0..(2 * AddrLen - 1)
Addresses == [0..(AddrLen - 1) -> Bytes]
Frames == [Positions -> Bytes]

\* The address a payload holds at a position.
AddressAt(payload, start) == [i \in 0..(AddrLen - 1) |-> payload[start + i]]
Destination(frame) == AddressAt(frame, 0)
Source(frame) == AddressAt(frame, AddrLen)

-----------------------------------------------------------------------------
(* The comparison                                                          *)

\* (uint32_t)-1: more than any number of bytes.
Invalid == 2 * AddrLen + 1

\* The bytes that differ where the mask has bits (a mask byte is 0x00 or 0xFF);
\* Invalid when there is nothing to compare, or no memory to do it in.
p_emu_frame_compare(input, data, mask, len, memory) ==
    IF len = 0 \/ ~memory THEN Invalid
    ELSE Cardinality({i \in Positions : i < len /\ mask[i] # 0 /\ input[i] # data[i]})

-----------------------------------------------------------------------------
(* The import                                                              *)

Overwrite(payload, start, new) ==
    [i \in Positions |->
       IF i \in start..(start + AddrLen - 1) THEN new[i - start] ELSE payload[i]]

Ones == [i \in 0..(AddrLen - 1) |-> 255]

\* What memset leaves in a new stream.
NoFilter == [enabled |-> FALSE, length |-> 0, key |-> [i \in Positions |-> 0],
             mask |-> [i \in Positions |-> 0]]

\* The mask forgotten.
import_src_mac_NoMask(f, addr) ==
    [f EXCEPT !.enabled = TRUE, !.length = (@ + AddrLen) % LengthRange,
              !.key = Overwrite(@, AddrLen, addr)]

\* import_src_mac adds to the length, import_dst_mac sets it.
import_src_mac(f, addr) ==
    [enabled |-> TRUE, length |-> (f.length + AddrLen) % LengthRange,
     key |-> Overwrite(f.key, AddrLen, addr), mask |-> Overwrite(f.mask, AddrLen, Ones)]

import_dst_mac(f, addr) ==
    [enabled |-> TRUE, length |-> 2 * AddrLen,
     key |-> Overwrite(f.key, AddrLen, addr), mask |-> Overwrite(f.mask, AddrLen, Ones)]

=============================================================================
