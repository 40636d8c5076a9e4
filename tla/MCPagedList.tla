----------------------------- MODULE MCPagedList -----------------------------
(* PagedList for TLC; a .cfg has no negative numbers.                        *)
EXTENDS PagedList

MCPages == {-1, 0, 1, 2, 6}
=============================================================================
