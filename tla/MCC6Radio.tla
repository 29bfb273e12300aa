------------------------------ MODULE MCC6Radio ------------------------------
(***************************************************************************)
(* The radio service on a small instance: three protocols, frames of one or *)
(* two ticks, an 802.15.4 priority above and one below the Bluetooth one.   *)
(***************************************************************************)
EXTENDS C6Radio

MCProtocol == {wifi, ble, ieee802154}
MCPriority == 0..15
MCAirtime == {1, 2}
MCMacPriority == {8, 10}
=============================================================================
