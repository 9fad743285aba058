---------------------------- MODULE MCSliceBytes ----------------------------
(***************************************************************************)
(* Slices of up to six bytes, with every placement of zeroes and threes,   *)
(* read two or three bytes at a time.                                      *)
(***************************************************************************)
EXTENDS SliceBytes

\* All zeroes and threes of four bytes or less, and 0 0 3 at each place of a
\* longer slice, twice in one.
MCPayloads ==
    UNION {[1 .. n -> {0, 3}] : n \in 0 .. 4}
    \cup {<<0, 0, 3, 9, 0>>, <<9, 0, 0, 3, 9>>, <<0, 0, 3, 0, 0, 3>>,
          <<9, 9, 0, 0, 3, 9>>}

Sei == Nal(39, <<9>>)
MCBefore == {<< >>, Sei}
MCAfter == {<< >>, Nal(Idr, <<9>>), <<9, 2 * Idr, 1>>}
MCCuts == {0, 6}
=============================================================================
