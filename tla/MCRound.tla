------------------------------ MODULE MCRound ------------------------------
(* Small corpora for the device round. *)
EXTENDS Round

\* Every run over the whole corpus, and one over all but the first app.
MCLists == {App, App \ {1}}

WholeCorpus == {App}
=============================================================================
