---------------------------- MODULE MCImageStore ----------------------------
(* Two workspaces and two images, the stock one and another, which both      *)
(* come to want: enough for two launches that want one image, for one that   *)
(* changes its image, and for an image that no pointer names any more.       *)
EXTENDS ImageStore, TLC

CONSTANTS w1, w2, stock, packages

MCConfigured == w1 :> {stock, packages} @@ w2 :> {packages}
=============================================================================
