--------------------------- MODULE MCFileHelpers ---------------------------
(* Small instances of FileHelpers.  Of the contents as strings, the first   *)
(* is empty, atob throws at the length of the second and at the comma of    *)
(* the fourth, and decodes the three digits of the third.                   *)
EXTENDS FileHelpers

SmallContents == {<<>>, <<7>>, <<200>>, <<65, 255>>}

\* One that is saved and one at which atob throws.
FewContents == {<<>>, <<7>>}
=============================================================================
