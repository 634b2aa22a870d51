--------------------------- MODULE MCDownloadQueue ---------------------------
(* Four blocks through a cache of two, the pivot in the middle, one            *)
(* empty body and one empty receipt list.                                      *)
EXTENDS DownloadQueue

CONSTANTS p1, p2

MCEmpty == {<<"body", 2>>, <<"receipt", 1>>}
==============================================================================
