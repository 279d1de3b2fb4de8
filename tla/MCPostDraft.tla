---------------------------- MODULE MCPostDraft ----------------------------
(***************************************************************************)
(* Small instances of PostDraft: photos of one album, the first of them    *)
(* with a caption, and a text.                                             *)
(***************************************************************************)
EXTENDS PostDraft, TLC

CONSTANTS photo1, photo2, text1, album1

MCAlbumOf == [m \in Messages |-> IF m = text1 THEN None ELSE album1]
MCCaptioned == {photo1} \intersect Messages
\* The deals differ in nothing, nor do the taps.
MCSymmetry == Permutations(Deals) \union Permutations(Taps)
=============================================================================
