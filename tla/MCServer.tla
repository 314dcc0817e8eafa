------------------------------ MODULE MCServer ------------------------------
(* One key.  Where its role can change there is one administrator's request, *)
(* beside a native client, one that connects twice, or a tab.  Where it has  *)
(* one role only, a client meets two requests, or two tabs of a browser one. *)
EXTENDS Server, TLC

CONSTANTS c1, c2, s1, s2, a1, a2

Alone     == {{c1, a1} \cup Roles, {c2, a1} \cup Roles, {s1, a1} \cup Roles}
Together  == {{c1, a1, a2, FirstRole}, {s1, s2, a1, FirstRole}}
Companies == Alone \cup Together
OneTab    == {{s1, a1, FirstRole}}
Attempts  == [x \in {c1, c2, s1, s2} |-> IF x = c2 THEN 2 ELSE 1]
=============================================================================
