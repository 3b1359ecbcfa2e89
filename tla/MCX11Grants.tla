----------------------------- MODULE MCX11Grants -----------------------------
(* Two machines whose users map to the same host uid. *)
EXTENDS X11Grants

CONSTANTS m1, m2, u1

MCUid == (m1 :> u1) @@ (m2 :> u1)
MCMaxInstance == (m1 :> 2) @@ (m2 :> 1)
=============================================================================
