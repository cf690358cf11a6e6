------------------------------- MODULE Corpus -------------------------------
(***************************************************************************)
(* classifier/sh/shuffle.py and classifier/dl_classifier/                  *)
(* corpus_preprocess.py: the files from which the classifier learns.       *)
(* shuffle.py splits a labelled corpus into a training and a test part;    *)
(* corpus_preprocess.py writes the labels and the contents of each part to *)
(* files of their own, and, once text_segmenter_main has cut the contents  *)
(* into words, turns the words into indexes and pickles the data set.      *)
(*                                                                         *)
(* The scripts are run by hand, one at a time, each to its end: a script   *)
(* is one action.  The repository has no step that names the two files of  *)
(* shuffle.py train.all.new and test.all.new; the model takes them for     *)
(* these.  A line of the corpus is [name, parts, doc]: the category as the *)
(* sequence of its level names ('a--b' is <<a, b>>), the number of fields  *)
(* a tab separates, and the content.  A word is the sequence of its bytes. *)
(***************************************************************************)
EXTENDS Integers, Sequences, SequencesExt, FiniteSets, FiniteSetsExt, Functions

CONSTANTS
    Source,       \* the labelled corpus: a sequence of lines
    Taxonomies,   \* what ./taxonomy can hold: sequences of [id, name, level, fields]
    Misspelt,     \* the category the corpus spells wrongly
    Corrected,    \* and its right spelling
    NA,           \* the category #N/A
    LongNames,    \* the categories of more than 20 characters
    ShortDocs,    \* the contents of fewer than 4 characters without their QQ group
    Segmented,    \* content |-> the words text_segmenter_main cuts it into
    DictOrder,    \* the words in the order a dict of them is read
    vocab_size,   \* 50000
    MaxShuffles,  \* bound: the times the corpus is split anew
    NoFile        \* there is no such file

Parts == {"train", "test"}

VARIABLES
    taxonomy,     \* ./taxonomy
    corpus,       \* ./train.all.new and ./test.all.new
    label,        \* <corpus>.label
    content,      \* <corpus>.content
    content_out,  \* <corpus>.content.out
    dataset,      \* ./corpus_dataset_with_vocab.pkl
    outdated,     \* history: the data set is made of contents an earlier split left
    shuffles,     \* the splits made
    last          \* the script that ran last, and how it ended

files == <<taxonomy, corpus, label, content, content_out, dataset, outdated, shuffles>>

corpus_vars == <<files, last>>

\* the lines of data at the indexes idx, in their order
lines_at(data, idx) ==
    LET order == SelectSeq([i \in DOMAIN data |-> i], LAMBDA i : i \in idx) IN
    [k \in DOMAIN order |-> data[order[k]]]

\* shuffle, for a sample eval_lines
shuffle(data, eval_lines) ==
    [test |-> lines_at(data, eval_lines),
     train |-> lines_at(data, DOMAIN data \ eval_lines)]

\* shuffle.py: without -i or -o the help is printed; else a fifth of the
\* lines, taken at random, goes to the test part and the rest to the other
shuffle_main ==
    /\ shuffles < MaxShuffles
    /\ shuffles' = shuffles + 1
    /\ \E given \in BOOLEAN :
         IF ~given
         THEN /\ last' = [script |-> "shuffle", exit |-> "usage"]
              /\ UNCHANGED corpus
         ELSE /\ \E eval_lines \in kSubset(Len(Source) \div 5, DOMAIN Source) :
                    corpus' = shuffle(Source, eval_lines)
              /\ last' = [script |-> "shuffle", exit |-> "ok"]
    /\ UNCHANGED <<taxonomy, label, content, content_out, dataset, outdated>>

\* load_taxonomy: the identifiers of the categories of level 1
load_taxonomy(rows) ==
    FoldLeft(LAMBDA mapping, row : IF row.level = 1
                                   THEN (row.name :> row.id) @@ mapping
                                   ELSE mapping,
             <<>>, rows)

\* split_label_content, the category of a line: the spelling is mended in a
\* whole name only, and the name is cut where its second level starts
category(l) ==
    LET name == IF l.name = Misspelt THEN Corrected ELSE l.name IN
    IF Len(name) > 1 /\ name[1] # "" THEN <<name[1]>> ELSE name

\* split_label_content, the lines that are written
labelled(label_mapping, l) ==
    /\ category(l) # NA /\ l.parts = 2 /\ category(l) \notin LongNames
    /\ category(l) \in DOMAIN label_mapping /\ label_mapping[category(l)] # -1
    /\ l.doc \notin ShortDocs

label_of(label_mapping, l) ==
    IF category(l) \in DOMAIN label_mapping THEN label_mapping[category(l)] ELSE -1

\* split_label_content: the two files it writes
split_label_content(lines, label_mapping) ==
    LET kept == SelectSeq(lines, LAMBDA l : labelled(label_mapping, l)) IN
    [label |-> [k \in DOMAIN kept |-> label_of(label_mapping, kept[k])],
     content |-> [k \in DOMAIN kept |-> kept[k].doc]]

\* Tokenizer.fit_on_texts and word_index, sorted as in lines 147 and 148:
\* the words by their number of occurrences, the most frequent first
occurrences(texts, w) ==
    FoldLeft(LAMBDA n, text : n + Len(SelectSeq(text, LAMBDA v : v = w)), 0, texts)

word_index(texts) ==
    LET seen == SelectSeq(DictOrder, LAMBDA w : occurrences(texts, w) > 0)
        before(i, j) == \/ occurrences(texts, seen[i]) > occurrences(texts, seen[j])
                        \/ occurrences(texts, seen[i]) = occurrences(texts, seen[j]) /\ i < j
        order == SetToSortSeq(DOMAIN seen, before)
    IN  [k \in DOMAIN order |-> seen[order[k]]]

\* the index of a word of vocab
index(vocab, w) == CHOOSE i \in DOMAIN vocab : vocab[i] = w

\* (mutant) the index nb_words is kept
texts_to_sequences_to_nb_words(texts, vocab) ==
    [k \in DOMAIN texts |->
        LET known == SelectSeq(texts[k], LAMBDA w : /\ w \in Range(vocab)
                                                    /\ index(vocab, w) <= vocab_size)
        IN  [j \in DOMAIN known |-> index(vocab, known[j])]]

\* Tokenizer.texts_to_sequences: the indexes below nb_words of the words
\* the training part has
texts_to_sequences(texts, vocab) ==
    [k \in DOMAIN texts |->
        LET known == SelectSeq(texts[k], LAMBDA w : /\ w \in Range(vocab)
                                                    /\ index(vocab, w) < vocab_size)
        IN  [j \in DOMAIN known |-> index(vocab, known[j])]]

\* lines 138 to 145
id_mapping(y) == CASE y = 21 -> 17 [] y = 22 -> 0 [] OTHER -> y

\* (mutant) the label of the k-th example kept is the k-th label
examples_counted(seqs, labels) ==
    LET kept == {i \in DOMAIN seqs : seqs[i] # <<>>} IN
    [X |-> lines_at(seqs, kept),
     y |-> [k \in 1..Cardinality(kept) |-> id_mapping(labels[k])]]

\* lines 115 to 131: the examples with a word of the vocabulary
examples(seqs, labels) ==
    LET kept == {i \in DOMAIN seqs : seqs[i] # <<>>} IN
    [X |-> lines_at(seqs, kept),
     y |-> [k \in DOMAIN lines_at(labels, kept) |-> id_mapping(lines_at(labels, kept)[k])]]

\* get_corpus_dataset, from the files as they are: what is pickled
get_corpus_dataset(labels, texts) ==
    LET vocab == word_index(texts["train"])
        train == examples(texts_to_sequences(texts["train"], vocab), labels["train"])
        test  == examples(texts_to_sequences(texts["test"], vocab), labels["test"])
    IN  [train_X |-> train.X, train_y |-> train.y,
         test_X |-> test.X, test_y |-> test.y, vocab |-> vocab]

\* train_corpus_label[i] of line 120 or 129 for an example past the labels
ShortOfLabels(labels, texts) ==
    \E part \in Parts : \E i \in DOMAIN texts[part] :
        /\ i > Len(labels[part])
        /\ texts_to_sequences(texts[part], word_index(texts["train"]))[i] # <<>>

\* text_segmenter_main on the contents of one part, as the comment of
\* lines 166 to 173 asks for: a line of words for every line of content
text_segmenter_main(part) ==
    /\ content[part] # NoFile
    /\ content_out' = [content_out EXCEPT
                         ![part] = [k \in DOMAIN content[part] |-> Segmented[content[part][k]]]]
    /\ last' = [script |-> "text_segmenter", exit |-> "ok"]
    /\ UNCHANGED <<taxonomy, corpus, label, content, dataset, outdated, shuffles>>

\* corpus_preprocess.py: a row of the taxonomy short of a field, or a
\* corpus that is not there, ends it before anything is written; the labels
\* and the contents are written anew; the data set is made of the labels
\* just written and of the segmented contents that are there
corpus_preprocess ==
    LET label_mapping == load_taxonomy(taxonomy)
        split == [part \in Parts |-> split_label_content(corpus[part], label_mapping)]
        labels == [part \in Parts |-> split[part].label]
        ends(exit) == last' = [script |-> "corpus_preprocess", exit |-> exit]
    IN  IF \E k \in DOMAIN taxonomy : taxonomy[k].fields < 4
        THEN ends("IndexError")
             /\ UNCHANGED <<taxonomy, corpus, label, content, content_out, dataset,
                            outdated, shuffles>>
        ELSE IF corpus = NoFile
        THEN ends("IOError")
             /\ UNCHANGED <<taxonomy, corpus, label, content, content_out, dataset,
                            outdated, shuffles>>
        ELSE /\ label' = labels
             /\ content' = [part \in Parts |-> split[part].content]
             /\ UNCHANGED <<taxonomy, corpus, content_out, shuffles>>
             /\ IF \E part \in Parts : content_out[part] = NoFile
                THEN ends("IOError") /\ UNCHANGED <<dataset, outdated>>
                ELSE IF ShortOfLabels(labels, content_out)
                THEN ends("IndexError") /\ UNCHANGED <<dataset, outdated>>
                ELSE /\ dataset' = get_corpus_dataset(labels, content_out)
                     /\ outdated' = \E part \in Parts :
                            content_out[part] #
                                [k \in DOMAIN content'[part] |-> Segmented[content'[part][k]]]
                     /\ ends("ok")

CorpusInit ==
    /\ taxonomy \in Taxonomies
    /\ corpus = NoFile
    /\ label = [part \in Parts |-> NoFile]
    /\ content = [part \in Parts |-> NoFile]
    /\ content_out = [part \in Parts |-> NoFile]
    /\ dataset = NoFile
    /\ outdated = FALSE
    /\ shuffles = 0
    /\ last = [script |-> "none", exit |-> "ok"]

CorpusNext ==
    \/ shuffle_main
    \/ corpus_preprocess
    \/ \E part \in Parts : text_segmenter_main(part)

-----------------------------------------------------------------------------
(* Properties                                                               *)

\* the example a line of the corpus stands for, with the vocabulary of the
\* data set: its label, and the indexes of its words
example_of(l) ==
    [y |-> id_mapping(label_of(load_taxonomy(taxonomy), l)),
     X |-> texts_to_sequences(<<Segmented[l.doc]>>, dataset.vocab)[1]]

\* "Note the labels and content are seperated.  One line per example."
\* (get_corpus_dataset): every example of the data set has the label of
\* the line of the corpus its words come from, unless the corpus was split
\* anew after text_segmenter_main ran, when corpus_preprocess.py reads the
\* labels of the new split beside the words of the old one.
LabelsBelongToContentsUnlessResplit ==
    (dataset # NoFile /\ ~outdated) =>
        \A part \in Parts :
            LET X == IF part = "train" THEN dataset.train_X ELSE dataset.test_X
                y == IF part = "train" THEN dataset.train_y ELSE dataset.test_y
            IN  /\ Len(X) = Len(y)
                /\ \A i \in DOMAIN X :
                     \E l \in Range(Source) : example_of(l) = [y |-> y[i], X |-> X[i]]

\* The same without the exception: what get_corpus_dataset takes for
\* granted, and what fails when shuffle.py runs between text_segmenter_main
\* and corpus_preprocess.py.
LabelsBelongToContents ==
    dataset # NoFile =>
        \A i \in DOMAIN dataset.train_X :
            \E l \in Range(Source) :
                example_of(l) = [y |-> dataset.train_y[i], X |-> dataset.train_X[i]]

=============================================================================
