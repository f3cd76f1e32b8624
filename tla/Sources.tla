------------------------------ MODULE Sources ------------------------------
(***************************************************************************)
(* Which clients a source covers: the two kinds of source of               *)
(* cmd/helper/helper.go, nets (10.0.0.0/8) and masks                       *)
(* (10.0.0.1/255.0.0.255), over addresses of any width.                    *)
(*                                                                         *)
(* An address is its bits, the first the most significant.  One of version *)
(* 4 is held as one of version 6: zeros, then ones (Marker), then its own  *)
(* bits (Low).                                                             *)
(***************************************************************************)
EXTENDS Naturals

CONSTANTS Width,      \* bits of an address
          TopWidth,   \* zeros of an address of version 4
          MarkerWidth \* ones after them

ASSUME SourcesAssumption ==
  /\ Width \in Nat /\ TopWidth \in Nat /\ MarkerWidth \in Nat
  /\ TopWidth + MarkerWidth < Width

Bit == 1 .. Width
Top == 1 .. TopWidth
Marker == TopWidth + 1 .. TopWidth + MarkerWidth
Low == TopWidth + MarkerWidth + 1 .. Width

Bits == [Bit -> {0, 1}]
IsV4(a) == (\A i \in Top : a[i] = 0) /\ (\A i \in Marker : a[i] = 1)

\* net.ParseIP of a text of version 4 with these bits, an address or a mask.
V4(low) ==
  [i \in Bit |-> IF i \in Top THEN 0 ELSE IF i \in Marker THEN 1 ELSE low[i]]

-----------------------------------------------------------------------------
\* The bits ParseCIDR's mask has: the length is counted from an address's own first.
Masked(addr, len) ==
  {i \in Bit : IF IsV4(addr) THEN i \in Low /\ i <= TopWidth + MarkerWidth + len
                             ELSE i <= len}

\* A client of the other version is in no net.
NetContains(source, a) ==
  /\ IsV4(a) = IsV4(source.addr)
  /\ \A i \in Masked(source.addr, source.len) : a[i] = source.addr[i]

And(x, y) == IF x = 1 /\ y = 1 THEN 1 ELSE 0

\* sourceMask: compares all the bits, whatever the versions.
MaskContains(source, a) == \A i \in Bit : source.host[i] = And(a[i], source.mask[i])

SourceContains(source, a) ==
  IF source.kind = "net" THEN NetContains(source, a) ELSE MaskContains(source, a)

PrefixLen(source) == IF source.kind = "net" THEN source.len ELSE 0

\* A mask in dotted form whose ones come first, and the host's bits among them.
Contiguous(len) == V4([i \in Bit |-> IF i <= TopWidth + MarkerWidth + len THEN 1 ELSE 0])
Under(host, mask) == \A i \in Bit : host[i] = 1 => mask[i] = 1
=============================================================================
