--------------------------- MODULE SourcesProofs ---------------------------
(***************************************************************************)
(* What the two kinds of source cover, for addresses of any width.         *)
(***************************************************************************)
EXTENDS Sources, TLAPS

\* A mask whose host has a bit the mask lacks, such as 10.0.0.1/255.0.0.0, covers
\* no client at all (sourceMask.Contains compares with the host's unmasked bits):
\* what is granted to it is granted to nobody.
THEOREM StrayBits ==
  ASSUME NEW host \in Bits, NEW mask \in Bits, NEW a \in Bits, ~Under(host, mask)
  PROVE  ~MaskContains([kind |-> "mask", host |-> host, mask |-> mask], a)
<1>1. PICK i \in Bit : host[i] = 1 /\ mask[i] # 1
  BY DEF Under
<1> QED
  BY <1>1 DEF MaskContains, And

\* A host without stray bits is covered by its own mask.
THEOREM HostCovered ==
  ASSUME NEW host \in Bits, NEW mask \in Bits, Under(host, mask)
  PROVE  MaskContains([kind |-> "mask", host |-> host, mask |-> mask], host)
<1> SUFFICES ASSUME NEW i \in Bit PROVE host[i] = And(host[i], mask[i])
  BY DEF MaskContains
<1>1. host[i] \in {0, 1} /\ (host[i] = 1 => mask[i] = 1)
  BY DEF Bits, Under
<1> QED
  BY <1>1 DEF And

LEMMA Parts ==
  /\ \A i \in Bit : i \in Top \/ i \in Marker \/ i \in Low
  /\ \A i \in Top : i \notin Marker /\ i \notin Low
  /\ \A i \in Marker : i \notin Low
  /\ Top \subseteq Bit /\ Marker \subseteq Bit /\ Low \subseteq Bit
BY SourcesAssumption DEF Bit, Top, Marker, Low

\* For clients of version 4, a mask written with its ones first covers the clients of
\* the net of that length: 10.0.0.0/255.0.0.0 is 10.0.0.0/8.
THEOREM MaskIsNet ==
  ASSUME NEW host \in Bits, IsV4(host), NEW len \in Nat, Under(host, Contiguous(len)),
         NEW a \in Bits, IsV4(a)
  PROVE  SourceContains([kind |-> "mask", host |-> host, mask |-> Contiguous(len)], a)
           <=> SourceContains([kind |-> "net", addr |-> host, len |-> len], a)
<1> DEFINE mask == Contiguous(len)
<1> DEFINE inLen(i) == i <= TopWidth + MarkerWidth + len
<1>1. \A i \in Bit : mask[i] = IF i \in Top THEN 0 ELSE IF i \in Marker THEN 1
                               ELSE IF inLen(i) THEN 1 ELSE 0
  BY DEF Contiguous, V4
<1>2. \A i \in Bit : /\ host[i] \in {0, 1} /\ a[i] \in {0, 1}
                     /\ host[i] = 1 => mask[i] = 1
  BY DEF Bits, Under
<1>3. Masked(host, len) = {i \in Low : inLen(i)}
  BY Parts DEF Masked
<1>4. SourceContains([kind |-> "net", addr |-> host, len |-> len], a)
        <=> \A i \in Low : inLen(i) => a[i] = host[i]
  <2>1. NetContains([kind |-> "net", addr |-> host, len |-> len], a)
          <=> \A i \in Masked(host, len) : a[i] = host[i]
    BY DEF NetContains
  <2> QED
    BY <1>3, <2>1 DEF SourceContains
<1>5. SourceContains([kind |-> "mask", host |-> host, mask |-> mask], a)
        <=> \A i \in Bit : host[i] = And(a[i], mask[i])
  BY DEF SourceContains, MaskContains
<1>6. \A i \in Top \cup Marker : host[i] = And(a[i], mask[i])
  <2> SUFFICES ASSUME NEW i \in Top \cup Marker PROVE host[i] = And(a[i], mask[i])
    OBVIOUS
  <2>1. CASE i \in Top
    <3>1. host[i] = 0 /\ a[i] = 0
      BY <2>1 DEF IsV4
    <3> QED
      BY <3>1 DEF And
  <2>2. CASE i \in Marker
    <3>1. host[i] = 1 /\ a[i] = 1 /\ mask[i] = 1
      BY <1>1, <2>2, Parts DEF IsV4
    <3> QED
      BY <3>1 DEF And
  <2> QED
    BY <2>1, <2>2
<1>7. \A i \in Low : (host[i] = And(a[i], mask[i])) <=> (inLen(i) => a[i] = host[i])
  <2> SUFFICES ASSUME NEW i \in Low
               PROVE  (host[i] = And(a[i], mask[i])) <=> (inLen(i) => a[i] = host[i])
    OBVIOUS
  <2>1. i \in Bit /\ mask[i] = IF inLen(i) THEN 1 ELSE 0
    BY <1>1, Parts
  <2>2. CASE inLen(i)
    BY <1>2, <2>1, <2>2 DEF And
  <2>3. CASE ~inLen(i)
    <3>1. mask[i] = 0 /\ host[i] = 0
      BY <1>2, <2>1, <2>3
    <3> QED
      BY <3>1, <2>3 DEF And
  <2> QED
    BY <2>2, <2>3
<1> QED
  BY <1>4, <1>5, <1>6, <1>7, Parts

\* A mask of version 4 looks at nothing before an address's marker: a client of
\* version 6 that has the marker's ones is covered like the client of version 4
\* with its last bits.  No net does that.
THEOREM MaskIgnoresTop ==
  ASSUME NEW low \in Bits, NEW mask \in Bits, NEW a \in Bits, NEW b \in Bits,
         \A i \in Marker \cup Low : a[i] = b[i]
  PROVE  LET source == [kind |-> "mask", host |-> V4(low), mask |-> V4(mask)]
         IN  SourceContains(source, a) <=> SourceContains(source, b)
<1> DEFINE source == [kind |-> "mask", host |-> V4(low), mask |-> V4(mask)]
<1>1. \A i \in Bit : And(a[i], source.mask[i]) = And(b[i], source.mask[i])
  <2> SUFFICES ASSUME NEW i \in Bit
               PROVE  And(a[i], source.mask[i]) = And(b[i], source.mask[i])
    OBVIOUS
  <2>1. CASE i \in Top
    <3>1. source.mask[i] = 0
      BY <2>1 DEF V4
    <3> QED
      BY <3>1 DEF And
  <2>2. CASE i \notin Top
    BY <2>2, Parts
  <2> QED
    BY <2>1, <2>2
<1> QED
  BY <1>1 DEF SourceContains, MaskContains
=============================================================================
