----------------------------- MODULE MCTokenizer -----------------------------
EXTENDS Tokenizer, SequencesExt

Joined(fragments, n) == {FlattenSeq(s) : s \in SeqOf(fragments, n)}
Around(left, middles, rights) == {left \o m \o r : m \in middles, r \in rights}

Unit == <<"{", "%", "t", "%", "}">>

\* every repetition of delimiters
Delimiters == SeqOf({"{", "%", "}", "-"}, 6) \cup SeqOf({"{", "%", "}", "t"}, 5)

\* the inside of a liquid tag, with blocks, and what follows the tag
Liquid == Around(<<"nl", "{", "%", "l">>,
                 SeqOf({"l", "b", "e", "t", "nl"}, 5) \cup SeqOf({"t", "r", "#", " ", "nl"}, 4),
                 {<<"%", "}">>, <<"nl", "-", "%", "}", "nl">> \o Unit})

\* the inside of a raw tag
Raw == Around(<<"{", "%", "r", "%", "}">>,
              Joined({<<"{", "%">>, <<"%", "}">>, <<"{", "{">>, <<"}">>, <<"-">>, <<"e">>, <<" ">>, <<"t">>}, 4),
              {<< >>, <<"{", "%", "e", "-", "%", "}", " ", "t">>})

\* text between tags of all kinds
Mixed == Joined({<<" ">>, <<"t">>, Unit, <<"{", "%", "-", "b", "-", "%", "}">>,
                 <<"{", "%", "e", "-", "%", "}">>, <<"{", "{", "-", "t", "}", "}">>,
                 <<"{", "{", "t", "-", "}", "}">>, <<"{", "%", "-", "r", "%", "}">>}, 4)

MCSources == Delimiters \cup Liquid \cup Raw \cup Mixed
=============================================================================
