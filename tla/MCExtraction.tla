---------------------------- MODULE MCExtraction ----------------------------
(***************************************************************************)
(* Extraction for TLC.  One link is another way to write u1.  The page has *)
(* a small image, twice in a text and once alone, and a favicon that is    *)
(* converted; one of the images in the text has the page itself as another *)
(* source.                                                                 *)
(***************************************************************************)
EXTENDS Extraction

CONSTANTS u1, alias, word, alone, mark, icon, smile, photo

MCLinks == URLs \cup {alias}
MCSetURL == [l \in MCLinks |-> IF l = alias THEN u1 ELSE l]

MCSources ==
    [n \in Nodes |-> CASE n \in {word, alone} -> {smile}
                       [] n = mark -> {smile, Page}
                       [] n = icon -> {photo}]
=============================================================================
