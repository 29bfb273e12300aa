--------------------------- MODULE MCAddressSpace ---------------------------
(***************************************************************************)
(* Seven addresses, two-byte words of two-valued bytes.  The candidate      *)
(* regions can touch, overlap and enclose one another, and differ in what   *)
(* they permit.                                                             *)
(***************************************************************************)
EXTENDS AddressSpace

Memory(s, e, p) == [start |-> s, end |-> e, perms |-> p, device |-> FALSE]

MCWidth == {1, 2}
MCRegions ==
    { Memory(0, 2, Kinds), Memory(2, 5, {"execute", "read"}),
      Memory(1, 3, {"read", "write"}), Memory(5, 6, Kinds), Memory(5, 7, Kinds),
      [start |-> 3, end |-> 5, perms |-> {"read", "write"}, device |-> TRUE] }
MCWatchable == {1}
MCMasks == {{1, 3}}
MCGuards == {{3}}
=============================================================================
