----------------------------- MODULE Classifier -----------------------------
(***************************************************************************)
(* classifier/dl_classifier/baseline_cnn_1d.py, cnn_1d_multiconv_w2v.py    *)
(* and classifier_eval.py: the two scripts that train a network on the     *)
(* pickled data set, the second one with the pickled vectors as the        *)
(* weights of its embedding, and the scores they print.                    *)
(*                                                                         *)
(* Of Keras the model keeps what decides whether training starts and on    *)
(* what: pad_sequences, to_categorical, the shape an Embedding asks of its *)
(* weights.  What the network learns is left open: the class it predicts   *)
(* for an example of the test part is any class.  A score is [num, den],   *)
(* and no number when den is 0.                                            *)
(***************************************************************************)
EXTENDS VocabVec

CONSTANTS
    maxlen,          \* the words of a document that are kept (150)
    max_features,    \* the rows of the embedding (50000)
    embedding_dims   \* the size of a row of cnn_1d_multiconv_w2v.py (100)

VARIABLES
    trained          \* what the script that trained last has trained on, and its scores

vars == <<corpus_vars, vv_vars, trained>>

NotTrained == [script |-> "none"]

\* sequence.pad_sequences with the padding and the truncating of Keras,
\* 'pre': the last maxlen indexes, with zeros in front
pad_sequences(X) ==
    [k \in DOMAIN X |->
        [j \in 1..maxlen |-> IF j + Len(X[k]) > maxlen
                             THEN X[k][j + Len(X[k]) - maxlen]
                             ELSE 0]]

Ratio(num, den) == [num |-> IF den = 0 THEN 0 ELSE num, den |-> den]

\* the examples in both sets
both(A, B) == Cardinality(A \cap B)

\* (mutant) the scores are taken over all classes
positive_from_zero(num, num_classes) == SumFunctionOnSet(num, 0..(num_classes - 1))

\* sum(num[1:]): over the classes from 1 on
positive(num, num_classes) == SumFunctionOnSet(num, 1..(num_classes - 1))

\* classifier_eval.eval, on the classes of the examples and the classes
\* predicted for them: the examples of every class, and the scores
eval(y_true, y_pred, num_classes) ==
    LET of_class(y, c) == {i \in DOMAIN y : y[i] = c}
        num_examples == [c \in 0..(num_classes - 1) |-> Cardinality(of_class(y_true, c))]
        num_pred_examples == [c \in 0..(num_classes - 1) |-> Cardinality(of_class(y_pred, c))]
        num_match_examples ==
            [c \in 0..(num_classes - 1) |-> both(of_class(y_true, c), of_class(y_pred, c))]
        match == positive(num_match_examples, num_classes)
        predicted == positive(num_pred_examples, num_classes)
        labelled_so == positive(num_examples, num_classes)
    IN  [F_score |-> IF match = 0 THEN Ratio(0, 0) ELSE Ratio(2 * match, predicted + labelled_so),
         Precision |-> Ratio(match, predicted),
         Recall |-> Ratio(match, labelled_so),
         Accuracy |-> Ratio(SumFunction(num_match_examples), SumFunction(num_pred_examples))]

\* lines 201 to 207 of cnn_1d_multiconv_w2v.py: a class without an example
\* has the weight [num, 0], which numpy prints as inf
class_weight(y_train, nb_classes) ==
    [c \in 0..(nb_classes - 1) |->
        [num |-> Len(y_train), den |-> Cardinality({i \in DOMAIN y_train : y_train[i] = c})]]

\* Embedding(max_features, embedding_dims, weights=[w2v_word_vec]): the
\* matrix has a row 0 and a row for every word
fits(weights) ==
    Len(weights) + 1 = max_features /\ word2vec.vector_size = embedding_dims

\* one of the two scripts, from the files it loads to the scores
cnn(script, w2v) ==
    LET ends(exit) == last' = [script |-> script, exit |-> exit]
        nb_classes == Max(Range(dataset.train_y)) + 1
    IN  /\ vv_pc = "idle"
        /\ IF dataset = NoFile \/ (w2v /\ vec = NoFile)
           THEN ends("IOError") /\ UNCHANGED trained
           ELSE IF dataset.train_y = <<>>
           THEN ends("ValueError") /\ UNCHANGED trained
           ELSE IF \E y \in Range(dataset.test_y) : y >= nb_classes
           THEN ends("IndexError") /\ UNCHANGED trained
           ELSE IF w2v /\ ~fits(vec)
           THEN ends("Exception") /\ UNCHANGED trained
           ELSE \E predictions \in [DOMAIN dataset.test_y -> 0..(nb_classes - 1)] :
                  /\ trained' = [script |-> script,
                                 X_train |-> pad_sequences(dataset.train_X),
                                 X_test |-> pad_sequences(dataset.test_X),
                                 y_test |-> dataset.test_y,
                                 embedding |-> IF w2v THEN vec ELSE <<>>,
                                 class_weight |-> IF w2v
                                                  THEN class_weight(dataset.train_y, nb_classes)
                                                  ELSE <<>>,
                                 predictions |-> predictions,
                                 result |-> eval(dataset.test_y, predictions, nb_classes)]
                  /\ ends("ok")
        /\ UNCHANGED <<files, vv_vars>>

baseline_cnn_1d == cnn("baseline_cnn_1d", FALSE)

cnn_1d_multiconv_w2v == cnn("cnn_1d_multiconv_w2v", TRUE)

\* The scripts are run one at a time, in any order and any number of times.
Init == CorpusInit /\ VvInit /\ trained = NotTrained

\* a script of Corpus, while get_corpus_vocab_vec.py is not running
Prepare(script) == vv_pc = "idle" /\ script /\ UNCHANGED <<vv_vars, trained>>

\* a step of get_corpus_vocab_vec.py
Loads(step) == step /\ UNCHANGED trained

Load == Loads(VvNext)

Next ==
    \/ Prepare(shuffle_main) \/ Prepare(corpus_preprocess)
    \/ \E part \in Parts : Prepare(text_segmenter_main(part))
    \/ Loads(vv_open) \/ Loads(vv_word) \/ Loads(vv_dump)
    \/ baseline_cnn_1d \/ cnn_1d_multiconv_w2v

Spec == Init /\ [][Next]_vars

\* A script that has started runs on.
FairSpec == Spec /\ WF_vars(Load)

-----------------------------------------------------------------------------
(* Properties                                                               *)

TypeOK ==
    /\ shuffles \in 0..MaxShuffles
    /\ vv_pc \in {"idle", "loop", "spin"}
    /\ line_no \in 0..word2vec.vocab_size
    /\ decode_error_cnt \in 0..line_no
    /\ DOMAIN corpus_vocab_vec = DOMAIN vocabulary
    /\ vv_pc = "idle" => fid = <<>> /\ vocabulary = <<>>
    /\ dataset # NoFile =>
         /\ Len(dataset.train_X) = Len(dataset.train_y)
         /\ Len(dataset.test_X) = Len(dataset.test_y)
         /\ <<>> \notin Range(dataset.train_X) \cup Range(dataset.test_X)
    /\ vec # NoFile => DOMAIN vec = DOMAIN loaded.vocabulary
    /\ trained.script \in {"none", "baseline_cnn_1d", "cnn_1d_multiconv_w2v"}

\* Embedding(max_features, ...) of both scripts is read at the indexes of the
\* documents, and the scripts check none of them: whatever a script trains
\* on is maxlen indexes long and has no index from max_features on.  The
\* indexes come from corpus_preprocess.py, which keeps those below its own
\* vocab_size; the two numbers are written down in different scripts.
IndexesAreRowsOfTheEmbedding ==
    trained.script # "none" =>
        \A x \in Range(trained.X_train) \cup Range(trained.X_test) :
            Len(x) = maxlen /\ \A j \in DOMAIN x : x[j] \in 0..(max_features - 1)

\* classifier_eval.eval, "assuming class 0 as the negative class": the
\* precision is the share of the examples predicted in a class from 1 on
\* that are of the class predicted, the recall the share of the examples of
\* a class from 1 on that are predicted in their class, the accuracy the
\* share of all examples predicted in their class.
ScoresLeaveOutTheNegativeClass ==
    trained.script # "none" =>
        LET y == trained.y_test
            p == trained.predictions
            hit == {i \in DOMAIN y : p[i] = y[i]}
        IN  /\ trained.result.Precision =
                   Ratio(Cardinality({i \in hit : p[i] # 0}),
                         Cardinality({i \in DOMAIN y : p[i] # 0}))
            /\ trained.result.Recall =
                   Ratio(Cardinality({i \in hit : y[i] # 0}),
                         Cardinality({i \in DOMAIN y : y[i] # 0}))
            /\ trained.result.Accuracy = Ratio(Cardinality(hit), Len(y))

=============================================================================
