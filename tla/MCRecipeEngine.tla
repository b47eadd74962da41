----------------------------- MODULE MCRecipeEngine -----------------------------
(***************************************************************************)
(* Small recipes: three greenlets, a handful of steps.                      *)
(***************************************************************************)
EXTENDS RecipeEngine

MCNames == {<<"a">>}

(* The second is the one the engine gives to another "a". *)
MCLikeDedup == {<<"a">>, <<"a", 2>>}
===============================================================================
