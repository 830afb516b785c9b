----------------------------- MODULE AddressSpace -----------------------------
(***************************************************************************)
(* What callers of NtAllocateVirtualMemory are promised: the regions they  *)
(* have reserved lie in the user's part of the address space, do not       *)
(* overlap, and stay, as nothing frees them in this version.               *)
(***************************************************************************)
EXTENDS Integers

CONSTANTS Lowest, Highest \* what regions may be in

VARIABLE regions \* what is reserved, [start, size]

Pages(region) == region.start..(region.start + region.size - 1)

Init == regions = {}

\* A call that succeeds reserves one region; any other changes nothing.
Reserve(region) ==
    /\ Pages(region) # {} /\ Pages(region) \subseteq Lowest..Highest
    /\ \A r \in regions : Pages(r) \intersect Pages(region) = {}
    /\ regions' = regions \union {region}

Next == \E region \in regions' \ regions : Reserve(region)

Spec == Init /\ [][Next]_regions
=============================================================================
