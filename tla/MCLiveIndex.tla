---------------------------- MODULE MCLiveIndex -----------------------------
(* Two streams with one key each: k1 expires after a tick, k2 never does and *)
(* holds its segment back.  k1 is the key that is deleted and read.          *)
EXTENDS LiveIndex, TLC

CONSTANTS k1, k2

MCMaxAge == (k1 :> 1) @@ (k2 :> 0)
MCWrites == [key : Keys, del : {FALSE}] \cup [key : {k1}, del : {TRUE}]

\* Bound: nobody reads once a file could not be removed, as that changes
\* nothing a reader looks at.
ReadsFirst == orphans = {} \/ rpc = "idle"
=============================================================================
