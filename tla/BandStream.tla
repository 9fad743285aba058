----------------------------- MODULE BandStream -----------------------------
(***************************************************************************)
(* What the consumer of a decoded tile is promised, whoever produces its   *)
(* bands and on whichever thread: the bands of the picture arrive in       *)
(* order, each exactly once and each with the right samples, and the       *)
(* decode succeeds only after the last of them.  An error is final, and    *)
(* nothing is promised about what arrives once it has been decided, since  *)
(* the caller then discards everything.                                    *)
(***************************************************************************)
EXTENDS Naturals, Sequences

VARIABLES
    picture,    \* the bands of the decoded tile, from top to bottom
    shown,      \* the bands that have arrived
    result      \* "none" until the decode has succeeded or failed

vars == <<picture, shown, result>>

Init ==
    /\ shown = << >>
    /\ result = "none"

Show ==
    /\ result = "none"
    /\ Len(shown) < Len(picture)
    /\ shown' = Append(shown, picture[Len(shown) + 1])
    /\ UNCHANGED <<picture, result>>

Finish ==
    /\ result = "none"
    /\ shown = picture
    /\ result' = "done"
    /\ UNCHANGED <<picture, shown>>

Fail ==
    /\ result = "none"
    /\ result' = "error"
    /\ UNCHANGED <<picture, shown>>

\* What arrives after an error is discarded.
Discard ==
    /\ result = "error"
    /\ UNCHANGED <<picture, result>>

Next == Show \/ Finish \/ Fail \/ Discard

Spec == Init /\ [][Next]_vars
=============================================================================
