---------------------------- MODULE MCClassifier ----------------------------
(***************************************************************************)
(* Classifier for TLC: a corpus of eight lines, of which one goes to the   *)
(* test part; three words, of which one is not ASCII; a taxonomy with and  *)
(* without an empty line; files of the word2vec tool of up to three words. *)
(***************************************************************************)
EXTENDS Classifier

a == <<"L">>
b == <<"L", "L">>
zh == <<"H1", "H2">>
bad == <<"H1">>

Line(name, parts, doc) == [name |-> name, parts |-> parts, doc |-> doc]

MCMisspelt == <<"Aa">>
MCCorrected == <<"A">>
MCNA == <<"#N/A">>
MCLongNames == {<<"Long">>}
MCShortDocs == {"d8"}

\* Aa, A, B--x, C, #N/A, a line of three fields, a name of more than 20
\* characters, and B with a content of fewer than 4 (d8)
MCSource == <<Line(<<"Aa">>, 2, "d4"), Line(<<"A">>, 2, "d1"), Line(<<"B", "x">>, 2, "d2"),
              Line(<<"C">>, 2, "d3"), Line(<<"#N/A">>, 2, "d5"), Line(<<"", "x">>, 3, "d6"),
              Line(<<"Long">>, 2, "d7"), Line(<<"B">>, 2, "d8")>>

Row(id, name, level) == [id |-> id, name |-> name, level |-> level, fields |-> 4]

Good == <<Row(1, <<"A">>, 1), Row(2, <<"B">>, 1), Row(3, <<"x">>, 2), Row(22, <<"C">>, 1)>>

MCTaxonomies == {Good, Append(Good, [id |-> 0, name |-> <<>>, level |-> 0, fields |-> 0])}

\* d4 is made of stop words only
MCSegmented == [d1 |-> <<a, zh>>, d2 |-> <<zh, zh>>, d3 |-> <<b>>, d4 |-> <<>>,
                d5 |-> <<a>>, d6 |-> <<a>>, d7 |-> <<a>>, d8 |-> <<b>>]

MCDictOrder == <<a, b, zh>>

\* vectors: plain, with a byte that is a space, and one that is no number
v == <<"L", "L", "L", "L">>
vs == <<"L", "L", "SP", "L">>
va == <<"L", "SP", "L", "L">>
vn == <<"L", "L", "H2", "H1">>

MCNaNs == {vn}

\* what the word2vec tool writes for these words and vectors
Body(words) ==
    FlattenSeq([k \in DOMAIN words |-> words[k][1] \o <<"SP">> \o words[k][2] \o <<"NL">>])

File(n, body) == [vocab_size |-> n, vector_size |-> 1, body |-> body]

\* Whole files: one without a fault; one with a vector that is no number;
\* two with a word that does not decode, the bytes of whose vector are
\* taken for a part of the next word, or for the word a.  Files cut short:
\* after the first word, and inside the only vector.
MCWord2VecFiles ==
    {File(3, Body(<< <<a, v>>, <<zh, v>>, <<b, vs>> >>)),
     File(2, Body(<< <<a, vn>>, <<b, v>> >>)),
     File(3, Body(<< <<bad, v>>, <<a, v>>, <<b, vs>> >>)),
     File(2, Body(<< <<bad, va>>, <<b, v>> >>)),
     File(2, Body(<< <<a, v>> >>)),
     File(1, <<"L", "SP", "L", "L">>)}

=============================================================================
