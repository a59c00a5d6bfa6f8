------------------------------ MODULE MCDelivery ------------------------------
EXTENDS Delivery, TLC

CONSTANTS t1, t2, a1, a2, e1, e2, high

MCAuthor == t1 :> a1 @@ t2 :> a2

MCEffort == e1 :> high @@ e2 :> Unset

(* Two messages; nothing or one message. *)
MCReplies == t1 :> {<<Line(9, 0, 0), Line(4, 0, 0)>>} @@ t2 :> {<<Line(0, 0, 0)>>, <<Line(4, 0, 0)>>}

(* Blank, short and long lines, and fences that can and cannot be kept. *)
MCLines == {Line(0, 0, 0), Line(4, 0, 0), Line(12, 0, 0), Line(3, 3, 0), Line(4, 3, 1),
            Line(4, 4, 0), Line(9, 3, 6)}

MCTexts == UNION {[1..n -> MCLines] : n \in 1..3}
=============================================================================
