----------------------------- MODULE MCMioObjIO ------------------------------
(* Vectors for TLC, for an object of three pages of three bytes.           *)
EXTENDS MioObjIO

CONSTANTS OpA, OpB

R(off, len) == [off |-> off, len |-> len]

(* Every range of the first seven bytes, two of all pages, an empty one.   *)
OneRange == {v \in {R(off, len) : off \in 0..6, len \in 1..7} : v.off + v.len <= 7}
            \cup {R(0, 9), R(1, 8), R(1, 0)}

(* Ranges at, before and behind the boundaries of pages.                   *)
SecondRange == {R(0, 1), R(1, 2), R(3, 3), R(5, 2), R(6, 1), R(1, 0)}

(* One call is given any one range, alone or with a second one before or   *)
(* behind it; the other call a few vectors that meet them in every way.    *)
MCVectors ==
    (OpA :> ({<<v>> : v \in OneRange} \cup {<<v, w>> : v \in OneRange, w \in SecondRange}))
    @@ (OpB :> {<<R(1, 1)>>, <<R(2, 3)>>, <<R(4, 2), R(3, 1)>>})
==============================================================================
