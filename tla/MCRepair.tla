----------------------------- MODULE MCRepair -------------------------------
(* Small damaged data directories: one or two normal segments of up to     *)
(* three frames with every combination of damage, and a compacted segment  *)
(* whose frames are not in sequence order.                                 *)
EXTENDS Repair

CONSTANTS k1, k2

\* Segments 1 and 2 hold the frames <<seq, key>> below, each damaged or not.
Damaged(frames) ==
  { [i \in DOMAIN frames |-> [kind |-> d[i], seq |-> frames[i][1], key |-> frames[i][2]]] :
      d \in { d \in [DOMAIN frames -> Kinds] :
               \A i \in DOMAIN frames :
                 d[i] # IF i = Len(frames) THEN "cut" ELSE "stub" } }

MCKeys == {k1, k2}

Sound(seq, key) == [kind |-> "good", seq |-> seq, key |-> key]

\* Segments 1 and 2.  The older one is damaged in every way; the newer one is
\* empty, or a valid frame in it follows a corrupt one, with or without
\* another corrupt frame behind it.
Older == Damaged(<< <<1, k1>>, <<2, k2>>, <<3, k1>> >>)
Bad(seq, key) == [Sound(seq, key) EXCEPT !.kind = "bad"]
Newer == { <<>>, <<Bad(4, k2), Sound(5, k1)>>,
           <<Bad(4, k2), Sound(5, k1), Bad(6, k2)>> }

\* With a damaged newer segment the older one is read to its end.
OftenRead == { s \in Older : s[1].kind = "good" /\ s[2].kind # "cut" }

\* A compacted segment, not in sequence order, beside a newer normal one.
Compacted == { s \in Damaged(<< <<1, k1>>, <<3, k2>>, <<2, k1>> >>) :
                 s[2].kind # "cut" }

\* The last normal id is taken, and frames are stranded in its segment.
Full == [s \in {CompactionBase - 1} |-> <<Bad(1, k1), Sound(2, k2)>>]

MCLayouts ==
  { <<a, <<>> >> : a \in Older }
    \cup { <<a, b>> : a \in OftenRead, b \in Newer }
    \cup { [s \in {1, CompactionBase} |->
              IF s = 1 THEN <<Sound(4, k2)>> ELSE c] : c \in Compacted }
    \cup {Full}
=============================================================================
