------------------------------ MODULE MCRanking ------------------------------
(* Texts of up to two tokens, the empty text among them; queries with a     *)
(* repeated term and without any; an embedding that knows one of the terms  *)
(* only, so that similarities tie.                                          *)
EXTENDS Ranking

CONSTANT MaxTokens      \* bound: the length of a text

MCDocs == 1..4
MCTerms == {"a", "b"}
MCTexts == {text \in [MCTerms -> 0..MaxTokens] : Length(text) <= MaxTokens}
MCQueries == {<< >>, <<"a">>, <<"b", "a", "b">>}
MCEmbed == [text \in MCTexts |-> text["b"] - 1]
MCEmbedQuery == [query \in MCQueries |-> IF query = <<"a">> THEN 0 - 1 ELSE 1]

=============================================================================
