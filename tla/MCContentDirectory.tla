------------------------- MODULE MCContentDirectory -------------------------
(* A folder with a file that comes and goes: a search for everything below *)
(* the root finds both, more than the cache has room for as soon as the    *)
(* file is there, and one below the folder finds the file or nothing.      *)
EXTENDS ContentDirectory

CONSTANTS f, x, all

MCIdMin   == -16
MCParent  == [n \in Node |-> IF n = f THEN Top ELSE f]
MCKind    == [n \in Node |-> IF n = f THEN "folder" ELSE "file"]
MCMatches == [q \in Criteria |-> Node]
=============================================================================
