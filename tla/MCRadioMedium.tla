---------------------------- MODULE MCRadioMedium ----------------------------
(***************************************************************************)
(* TLC instance of RadioMedium: an emulated chip and one host-side peer,    *)
(* two protocols that share the spectrum bin 2.  At the chip the peer's     *)
(* Wi-Fi frame (8 dB) captures over its long 802.15.4 frame (6 dB), both    *)
(* collide with the chip's own transmission (10 dB), and the less sensitive *)
(* of the two Wi-Fi settings hears neither.                                 *)
(***************************************************************************)
EXTENDS RadioMedium

CONSTANTS chip, peer, wifi, ieee802154

MCEmission ==
    {[source |-> chip, protocol |-> ieee802154, spectrum |-> {2}, power |-> 10,
      airtime |-> 1, emulated |-> TRUE],
     [source |-> peer, protocol |-> wifi, spectrum |-> {1, 2}, power |-> 12,
      airtime |-> 2, emulated |-> FALSE],
     [source |-> peer, protocol |-> ieee802154, spectrum |-> {2}, power |-> 10,
      airtime |-> 3, emulated |-> FALSE]}

MCReceivers ==
    {[node |-> chip, protocol |-> ieee802154, spectrum |-> {2}, sensitivity |-> 5],
     [node |-> chip, protocol |-> wifi, spectrum |-> {1}, sensitivity |-> 5],
     [node |-> chip, protocol |-> wifi, spectrum |-> {1}, sensitivity |-> 9]}

\* A node hears itself without loss.
MCPathLoss == [pair \in SUBSET {chip, peer} |-> IF Cardinality(pair) = 1 THEN 0 ELSE 4]

MCLost == {<<1, chip>>}
=============================================================================
