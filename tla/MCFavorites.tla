---------------------------- MODULE MCFavorites ----------------------------
(* An instance of Favorites for TLC: two additions and two removals of two *)
(* accounts, some of them made on another phone or hit by errors.          *)
EXTENDS Favorites

CONSTANTS a1, a2, r1, r2, ann, bob
=============================================================================
