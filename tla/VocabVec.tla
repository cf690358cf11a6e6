------------------------------ MODULE VocabVec ------------------------------
(***************************************************************************)
(* classifier/dl_classifier/get_corpus_vocab_vec.py: the vectors of the    *)
(* words of the data set, read from a file of the word2vec tool and        *)
(* pickled as a matrix with a row for every word of the vocabulary.        *)
(*                                                                         *)
(* The file is [vocab_size, vector_size, body]: the two numbers of its     *)
(* first line, and the bytes after it, where every word is followed by a   *)
(* space, the bytes of its vector and a newline.  A byte is Space,         *)
(* Newline, Lead or Cont (the two bytes of a character that is not ASCII)  *)
(* or any other value, an ASCII letter.  One turn of the loop over the     *)
(* words is one action.  A word of the vocabulary is a str, a word of the  *)
(* file is decoded to unicode: in Python 2 the two are equal, and have the *)
(* same hash, only when all their bytes are ASCII.                         *)
(***************************************************************************)
EXTENDS Corpus

CONSTANTS
    Space, Newline, Lead, Cont,  \* bytes
    FloatBytes,                  \* the bytes of a 32-bit float (4)
    NaNs,                        \* the vectors with an element that is no number
    Zero,                        \* a row of zeros
    Word2VecFiles                \* what the file of the word2vec tool can be

VARIABLES
    word2vec,           \* the file of the word2vec tool
    vv_pc,              \* idle, loop, spin
    fid,                \* the bytes of the file not yet read
    line_no,
    vocabulary,         \* the words asked for
    corpus_vocab_vec,   \* the matrix: rows 1 to len(vocabulary); row 0 stays zero
    decode_error_cnt,
    vec,                \* ./corpus_vocab_vec.pkl
    loaded              \* history: the vocabulary vec was made for, and the
                        \* decode errors of that run

vv_vars == <<word2vec, vv_pc, fid, line_no, vocabulary, corpus_vocab_vec,
             decode_error_cnt, vec, loaded>>

parser == <<fid, line_no, vocabulary, corpus_vocab_vec, decode_error_cnt>>

\* lines 29 and 30: the words whose indexes the training part uses
required(data) ==
    LET max_feature == Max(UNION {Range(x) : x \in Range(data.train_X)}) IN
    SubSeq(data.vocab, 1, Min({max_feature, Len(data.vocab)}))

\* bytes.decode('utf-8') raises for a Lead without its Cont, and for a Cont
\* without its Lead
decodes(bytes) ==
    \A i \in DOMAIN bytes :
        /\ bytes[i] = Lead => i < Len(bytes) /\ bytes[i + 1] = Cont
        /\ bytes[i] = Cont => i > 1 /\ bytes[i - 1] = Lead

\* vocabulary_id.get(word, -1) for the unicode word of these bytes
get(words, word) ==
    IF word \in Range(words) /\ {Lead, Cont} \cap Range(word) = {}
    THEN index(words, word)
    ELSE -1

\* (mutant) the newline that ends a vector is taken for the first byte of
\* the word after it
word_with_newlines(bytes) == bytes

\* line 65: "ignore newlines in front of words"
word_of(bytes) == SelectSeq(bytes, LAMBDA ch : ch # Newline)

\* lines 26 to 55: the data set and the first line of the file are read
vv_open ==
    /\ vv_pc = "idle"
    /\ IF dataset = NoFile
       THEN /\ last' = [script |-> "get_corpus_vocab_vec", exit |-> "IOError"]
            /\ UNCHANGED <<vv_pc, parser>>
       ELSE IF dataset.train_X = <<>>
       THEN /\ last' = [script |-> "get_corpus_vocab_vec", exit |-> "ValueError"]
            /\ UNCHANGED <<vv_pc, parser>>
       ELSE /\ vocabulary' = required(dataset)
            /\ fid' = word2vec.body
            /\ corpus_vocab_vec' = [idx \in DOMAIN vocabulary' |-> Zero]
            /\ line_no' = 0
            /\ decode_error_cnt' = 0
            /\ vv_pc' = "loop"
            /\ last' = [script |-> "get_corpus_vocab_vec", exit |-> "running"]
    /\ UNCHANGED <<files, word2vec, vec, loaded>>

\* the parser as the script leaves it when it ends
closed ==
    /\ vv_pc' = "idle"
    /\ fid' = <<>> /\ line_no' = 0 /\ vocabulary' = <<>> /\ corpus_vocab_vec' = <<>>
    /\ decode_error_cnt' = 0

\* (mutant) the loop takes one turn more than the file has words
turns_left_and_one(n) == line_no <= n

\* line 56
turns_left(n) == line_no < n

\* lines 56 to 77, one word of the file: its bytes up to the next space,
\* then its vector.  The loop of line 61 has no end when the file has no
\* space left: fid.read(1) is '' from then on.
vv_word ==
    /\ vv_pc = "loop" /\ turns_left(word2vec.vocab_size)
    /\ LET binary_len == FloatBytes * word2vec.vector_size
           space == SelectInSeq(fid, LAMBDA ch : ch = Space)
           word == word_of(SubSeq(fid, 1, space - 1))
           rest == SubSeq(fid, space + 1, Len(fid))
           weights == SubSeq(rest, 1, Min({binary_len, Len(rest)}))
           idx == get(vocabulary, word)
       IN  IF space = 0
           THEN vv_pc' = "spin" /\ UNCHANGED <<parser, last>>
           ELSE IF ~decodes(word)
           THEN /\ decode_error_cnt' = decode_error_cnt + 1
                /\ fid' = rest
                /\ line_no' = line_no + 1
                /\ UNCHANGED <<vv_pc, vocabulary, corpus_vocab_vec, last>>
           ELSE IF Len(weights) % FloatBytes # 0 \/ (idx # -1 /\ Len(weights) # binary_len)
           THEN /\ closed
                /\ last' = [script |-> "get_corpus_vocab_vec", exit |-> "ValueError"]
           ELSE /\ fid' = SubSeq(rest, Len(weights) + 1, Len(rest))
                /\ corpus_vocab_vec' = IF idx = -1 THEN corpus_vocab_vec
                                       ELSE [corpus_vocab_vec EXCEPT ![idx] = weights]
                /\ line_no' = line_no + 1
                /\ UNCHANGED <<vv_pc, vocabulary, decode_error_cnt, last>>
    /\ UNCHANGED <<files, word2vec, vec, loaded>>

\* lines 79 to 98: the rows that are no numbers are set to zero, and the
\* matrix is pickled
vv_dump ==
    /\ vv_pc = "loop" /\ ~turns_left(word2vec.vocab_size)
    /\ vec' = [idx \in DOMAIN corpus_vocab_vec |->
                 IF corpus_vocab_vec[idx] \in NaNs THEN Zero ELSE corpus_vocab_vec[idx]]
    /\ loaded' = [vocabulary |-> vocabulary, decode_errors |-> decode_error_cnt]
    /\ closed
    /\ last' = [script |-> "get_corpus_vocab_vec", exit |-> "ok"]
    /\ UNCHANGED <<files, word2vec>>

VvInit ==
    /\ word2vec \in Word2VecFiles
    /\ vv_pc = "idle"
    /\ fid = <<>> /\ line_no = 0 /\ vocabulary = <<>> /\ corpus_vocab_vec = <<>>
    /\ decode_error_cnt = 0
    /\ vec = NoFile
    /\ loaded = [vocabulary |-> <<>>, decode_errors |-> 0]

VvNext == vv_open \/ vv_word \/ vv_dump

-----------------------------------------------------------------------------
(* Properties                                                               *)

\* the words of the file and their vectors, as the word2vec tool wrote
\* them: the body is cut at the end of every vector
RECURSIVE entries(_, _)
entries(body, binary_len) ==
    LET space == SelectInSeq(body, LAMBDA ch : ch = Space) IN
    IF space = 0 \/ Len(body) < space + binary_len + 1 THEN <<>>
    ELSE <<[word |-> SubSeq(body, 1, space - 1),
            weights |-> SubSeq(body, space + 1, space + binary_len)]>>
         \o entries(SubSeq(body, space + binary_len + 2, Len(body)), binary_len)

\* the vector the file has for a word, Zero when it has none or one that
\* is no number
vector_of(word) ==
    LET found == SelectSeq(entries(word2vec.body, FloatBytes * word2vec.vector_size),
                           LAMBDA e : e.word = word) IN
    IF found = <<>> \/ Last(found).weights \in NaNs THEN Zero ELSE Last(found).weights

IsAscii(word) == {Lead, Cont} \cap Range(word) = {}

\* "get the vectors of required words": the row of a word of ASCII letters
\* that the data set asks for is the vector the file has for it, and zero
\* when the file has none or one that is no number, wherever in the file
\* the word stands -- unless a word of the file did not decode (lines 69 to
\* 71 leave its vector unread, and the bytes of the vector are taken for
\* the next word), and unless the data set was made anew since, with other
\* words.  Nothing is said of a word that is not ASCII: line 74 looks the
\* unicode word up among the str keys of vocabulary_id and never finds it.
AsciiRowsAreTheVectorsUnlessDecodeErrorOrRebuilt ==
    (/\ vec # NoFile /\ loaded.decode_errors = 0
     /\ dataset # NoFile /\ dataset.train_X # <<>>
     /\ loaded.vocabulary = required(dataset)) =>
        \A idx \in DOMAIN vec :
            LET word == required(dataset)[idx] IN
            IsAscii(word) => vec[idx] = vector_of(word)

\* The same as the header of the script and the scripts that train
\* promise it: no exception for a decode error, for a data set made anew,
\* or for the words that are not ASCII.
RowsAreTheVectors ==
    (vec # NoFile /\ dataset # NoFile /\ dataset.train_X # <<>>) =>
        /\ DOMAIN vec = DOMAIN required(dataset)
        /\ \A idx \in DOMAIN vec : vec[idx] = vector_of(required(dataset)[idx])

\* the file holds as many words, each with its vector, as its first line says
Complete ==
    Len(entries(word2vec.body, FloatBytes * word2vec.vector_size)) = word2vec.vocab_size

\* The script comes to an end, with the matrix pickled or with an
\* exception, whatever the file holds and however many of its words fail
\* to decode, unless the file is cut short: the loop of line 61 leaves only
\* at a space, and a turn of the loop of line 56 passes the space after one
\* word of the file at most, so that a file with all its words has a space
\* left for every turn.
LoadEndsUnlessCutShort ==
    (vv_pc = "loop" /\ Complete) ~> (vv_pc = "idle")

=============================================================================
