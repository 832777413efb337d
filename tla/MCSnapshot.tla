----------------------------- MODULE MCSnapshot -----------------------------
(* Small instances of Snapshot for TLC. *)
EXTENDS Snapshot

\* Inside a page; the end of a page; a whole page; from the middle of a page
\* over a whole one into a third that lies past the image.
MCWriteRanges == {<<1, 2>>, <<4, 6>>, <<0, 3>>, <<2, 7>>}
MCReadRanges  == {<<1, 4>>}
=============================================================================
