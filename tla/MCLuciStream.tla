---------------------------- MODULE MCLuciStream ----------------------------
(* Two steps that may share a prefix, one of them below the other's "u".     *)
EXTENDS LuciStream

MCTokens == {"", "a", "u", "build.proto"}
MCSpaces == {<<"a">>, <<"a", "u">>}
MCLogNames == {[name |-> "build.proto", numbers |-> <<>>]}
=============================================================================
