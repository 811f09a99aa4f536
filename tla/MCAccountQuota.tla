--------------------------- MODULE MCAccountQuota ---------------------------
(***************************************************************************)
(* One account of each product, and its card in the window.                *)
(***************************************************************************)
EXTENDS QuotaOnCards

AllProducts == {"codex", "cursor", "antigravity"}
Headers == {NoHeader, 9}
=============================================================================
