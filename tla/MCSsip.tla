------------------------------- MODULE MCSsip -------------------------------
(* Two descriptors, a language that brings its module and one that does not. *)
EXTENDS SsipSession

MCLanguages == {<<"de">>, <<"de", "AT">>}

MCDefaultModule == [language \in {<<"de">>} |-> "second"]
=============================================================================
