---------------------------- MODULE MCHttpClient ----------------------------
(* Small instances of HttpClient: one proxy port, also tried as SOCKS. *)
EXTENDS HttpClient, TLC

CONSTANTS r1, r2, h1, h2, http, socks

MCFound == <<http>>
MCSocks == (http :> socks) @@ (socks :> None)
MCSymmetry == Permutations({h1, h2}) \cup Permutations({r1, r2})
=============================================================================
