----------------------------- MODULE MCC6Station -----------------------------
(***************************************************************************)
(* A beacon, an oversized frame and two frames that a peer repeats.         *)
(***************************************************************************)
EXTENDS C6Station

MCInjected == {Answer("foreign", "beacon"), Answer("foreign", "long"),
               Answer("open", "pong"), Answer("wpa2", "m1")}
=============================================================================
