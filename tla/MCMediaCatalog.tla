--------------------------- MODULE MCMediaCatalog ---------------------------
(* A folder with two files, a playlist with a stream, and a file that is a *)
(* source of its own.                                                      *)
EXTENDS MediaCatalog

CONSTANTS F, a, b, P, e, x

MCIdMin  == -16
MCParent == [n \in Node |-> IF n \in {F, P, x} THEN Top ELSE IF n = e THEN P ELSE F]
MCKind ==
  [n \in Node |-> CASE n = F -> "folder" [] n = P -> "playlist" [] n = e -> "stream" [] OTHER -> "file"]
=============================================================================
