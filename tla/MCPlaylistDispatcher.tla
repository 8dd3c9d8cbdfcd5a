------------------------ MODULE MCPlaylistDispatcher ------------------------
(* A playlist source that names two playlists, and a folder with a         *)
(* playlist that names itself.                                             *)
EXTENDS PlaylistDispatcher

CONSTANTS S, T, P, Q, R

MCRoots  == [s \in Source |-> IF s = S THEN {P} ELSE {Q}]
MCNested == [p \in Playlist |-> IF p = P THEN {Q, R} ELSE IF p = Q THEN {Q} ELSE {}]

(* 1 + floor(19 ln n / ln 200) for n > 1 *)
MCConcurrency ==
  [n \in 0 .. ReferenceCount |->
     CASE n <= 1 -> 1 [] n = 2 -> 3 [] n = 3 -> 4 [] n = 4 -> 5 [] OTHER -> 6]
=============================================================================
