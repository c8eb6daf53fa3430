-------------------------- MODULE MCAuthorizedKeys --------------------------
(* AuthorizedKeys for TLC: sound, partly ignored, broken and oversized files, *)
(* on file systems of each kind.                                              *)
EXTENDS AuthorizedKeys

MCKeys == {"k1", "k2"}
MCTexts ==
    {<<"k1">>, <<"k2">>, <<"options", "k1">>, <<"garbage">>,
     <<"comment", "comment", "comment", "k1">>}
MCFileSystems == [fine : BOOLEAN, keeps : BOOLEAN]
=============================================================================
