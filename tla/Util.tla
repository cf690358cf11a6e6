-------------------------------- MODULE Util --------------------------------
(***************************************************************************)
(* tools/common/util.py, hanziTable.py and hanChar.py: the helpers of the  *)
(* scripts that keep the dictionary of the word segmenter.  util.py reads  *)
(* the two tables of simplified and traditional characters when it is      *)
(* imported; hanChar.py reads the first of them anew in every call.        *)
(*                                                                         *)
(* A table is the sequence of its lines, a line is Comment or the sequence *)
(* of its fields: a simplified character and its traditional forms.  A     *)
(* word is the sequence of its characters.  Relation, sopen and the other  *)
(* modules these files import are not in the repository: a Relation is the *)
(* set of the pairs added to it, and its two maps are read off the pairs.  *)
(***************************************************************************)
EXTENDS Integers, Sequences, SequencesExt, FiniteSets, FiniteSetsExt, Functions

CONSTANTS
    Comment,        \* a line that begins with '#'
    NoTable,        \* the file is not there
    CognateTables,  \* [full, gb]: chs_cht_cognates and gb2312_chs_cht_cognates
    Words,          \* the words a caller converts
    Counters,       \* the dictionaries a caller shrinks: word |-> frequency
    Portions,       \* the portions asked for, [num, den]
    Deltas,         \* the frequencies asked for
    MaxShrinks      \* bound: the calls of shrink_counter

VARIABLES
    tables,         \* the two files
    ut_pc,          \* import, ready, IOError, IndexError
    chs_map_dic,    \* _chs_map_dic; _cht_set is its domain
    chsgb_map_dic,  \* _chsgb_map_dic; _chtgb_set is its domain
    counter,        \* the dictionary of the caller
    asked,          \* history: the last call of shrink_counter
    shrinks,
    entry           \* the word a caller converted last, and what it got

ut_vars == <<tables, ut_pc, chs_map_dic, chsgb_map_dic, counter, asked, shrinks, entry>>

\* hanziTable.getRelation: the pairs of a table without an empty line
getRelation(table) ==
    UNION {{<<flds[1], flds[k]>> : k \in 2..Len(flds)} : flds \in Range(table) \ {Comment}}

\* flds[0] of a line without a field
raises(table) == <<>> \in Range(table)

forwardMap(relation) ==
    [chs \in {p[1] : p \in relation} |-> {p[2] : p \in {q \in relation : q[1] = chs}}]

reverseMap(relation) ==
    [cht \in {p[2] : p \in relation} |-> {p[1] : p \in {q \in relation : q[2] = cht}}]

getCognateRelation == getRelation(tables.full)

getGB2312CognateRelation == getRelation(tables.gb)

\* "import util", lines 17 to 31: the two tables are read, the first first
import_util ==
    /\ ut_pc = "import"
    /\ IF NoTable \in {tables.full, tables.gb} \/ raises(tables.full) \/ raises(tables.gb)
       THEN /\ ut_pc' = IF tables.full = NoTable \/ (~raises(tables.full) /\ tables.gb = NoTable)
                        THEN "IOError" ELSE "IndexError"
            /\ UNCHANGED <<chs_map_dic, chsgb_map_dic>>
       ELSE /\ ut_pc' = "ready"
            /\ chs_map_dic' = reverseMap(getCognateRelation)
            /\ chsgb_map_dic' = reverseMap(getGB2312CognateRelation)
    /\ UNCHANGED <<tables, counter, asked, shrinks, entry>>

has_cht(word) == Range(word) \cap DOMAIN chs_map_dic # {}

has_gbcht(word) == Range(word) \cap DOMAIN chsgb_map_dic # {}

\* (mutant) the characters of GB2312 are converted whatever conv_gbcht is
cht2chs_all(word, conv_gbcht) ==
    FlattenSeq([k \in DOMAIN word |->
        IF word[k] \in DOMAIN chs_map_dic THEN SetToSeq(chs_map_dic[word[k]])
        ELSE <<word[k]>>])

\* util.cht2chs: ''.join(list(...)) puts all the simplified forms of a
\* character in its place, in the order of the set
cht2chs(word, conv_gbcht) ==
    FlattenSeq([k \in DOMAIN word |->
        IF /\ word[k] \in DOMAIN chs_map_dic
           /\ (conv_gbcht \/ word[k] \notin DOMAIN chsgb_map_dic)
        THEN SetToSeq(chs_map_dic[word[k]])
        ELSE <<word[k]>>])

\* a caller converts a word
convert(word, conv_gbcht) ==
    /\ ut_pc = "ready"
    /\ entry' = [word |-> word, conv_gbcht |-> conv_gbcht, chs |-> cht2chs(word, conv_gbcht)]
    /\ UNCHANGED <<tables, ut_pc, chs_map_dic, chsgb_map_dic, counter, asked, shrinks>>

commList(firstList, secondList) == firstList \cap secondList

\* prodList: of an empty list and another it is the other, not the empty product
prodList(firstList, secondList) ==
    IF firstList = <<>> THEN secondList
    ELSE IF secondList = <<>> THEN firstList
    ELSE FlattenSeq([i \in DOMAIN firstList |->
                        [j \in DOMAIN secondList |-> firstList[i] \o secondList[j]]])

\* hanChar.chs2cht and hanChar.cht2chs, on the table as it is when called
han_chs2cht(chsSet) ==
    LET chtMapDic == forwardMap(getCognateRelation) IN
    UNION {chtMapDic[chs] : chs \in commList(DOMAIN chtMapDic, chsSet)}

han_cht2chs(chtSet) ==
    LET chsMapDic == reverseMap(getCognateRelation) IN
    UNION {chsMapDic[cht] : cht \in commList(DOMAIN chsMapDic, chtSet)}

\* int(old_size * portion)
new_size(old_size, portion) == (old_size * portion.num) \div portion.den

\* counter.pop(word)
pop(c, word) == Restrict(c, DOMAIN c \ {word})

\* lines 204 to 206: the loop over a copy of the items pops those below delta
popped_below(c, delta) ==
    FoldSet(LAMBDA word, d : IF c[word] < delta THEN pop(d, word) ELSE d, c, DOMAIN c)

\* lines 210 and 211: the items, the most frequent first; the sort keeps
\* items of one frequency in the order of the dict, which is any
sorted_items(c) ==
    {items \in SetToSeqs(DOMAIN c) :
        \A i, j \in DOMAIN items : i < j => c[items[i]] >= c[items[j]]}

\* (mutant) range(new_size + 1, len(counter))
range_from_next(n, len) == (n + 2)..len

\* range(new_size, len(counter)), as indexes from 1
range(n, len) == (n + 1)..len

\* lines 212 to 214: the items at the indexes of the range are popped
popped_from(c, items, n) ==
    FoldSet(LAMBDA i, d : pop(d, items[i]), c, range(n, Len(items)))

\* shrink_counter with freq_key the identity, on the counter of the caller
shrink_counter(portion, delta) ==
    /\ ut_pc = "ready" /\ shrinks < MaxShrinks
    /\ LET n == new_size(Cardinality(DOMAIN counter), portion)
           above == popped_below(counter, delta)
       IN  IF Cardinality(DOMAIN above) > n
           THEN \E items \in sorted_items(above) : counter' = popped_from(above, items, n)
           ELSE counter' = above
    /\ asked' = [counter |-> counter, portion |-> portion, delta |-> delta]
    /\ shrinks' = shrinks + 1
    /\ UNCHANGED <<tables, ut_pc, chs_map_dic, chsgb_map_dic, entry>>

UtInit ==
    /\ tables \in CognateTables
    /\ counter \in Counters
    /\ ut_pc = "import"
    /\ chs_map_dic = <<>> /\ chsgb_map_dic = <<>>
    /\ asked = [counter |-> counter, portion |-> [num |-> 1, den |-> 1], delta |-> 0]
    /\ shrinks = 0
    /\ entry = [word |-> <<>>, conv_gbcht |-> FALSE, chs |-> <<>>]

UtNext ==
    \/ import_util
    \/ \E word \in Words, conv_gbcht \in BOOLEAN : convert(word, conv_gbcht)
    \/ \E portion \in Portions, delta \in Deltas : shrink_counter(portion, delta)

-----------------------------------------------------------------------------
(* Properties                                                               *)

UtTypeOK ==
    /\ ut_pc \in {"import", "ready", "IOError", "IndexError"}
    /\ shrinks \in 0..MaxShrinks
    /\ DOMAIN chsgb_map_dic \cup DOMAIN chs_map_dic # {} => ut_pc = "ready"
    /\ DOMAIN counter \subseteq DOMAIN asked.counter

\* shrink_counter, "the size after the cut is at most the size before it
\* times portion; the items of a frequency below delta go; of the rest,
\* sorted by frequency, the top N stay" (the docstring, against the loops
\* of lines 204 to 214, which pop by index from a sorted copy): after a
\* call the dictionary holds no more items than the portion allows and
\* none below delta, it has let go of no item it had room for, and no item
\* it let go for want of room is more frequent than one it kept.
ShrunkToTheMostFrequent ==
    LET old == asked.counter
        room == new_size(Cardinality(DOMAIN old), asked.portion)
        above == {w \in DOMAIN old : old[w] >= asked.delta}
    IN  /\ counter = Restrict(old, DOMAIN counter)
        /\ DOMAIN counter \subseteq above
        /\ Cardinality(DOMAIN counter) = Min({room, Cardinality(above)})
        /\ \A w \in DOMAIN counter, u \in above \ DOMAIN counter : old[w] >= old[u]

\* the simplified forms the table has for a character
simplified(ch) ==
    {flds[1] : flds \in {l \in Range(tables.full) \ {Comment} : ch \in Range(Tail(l))}}

gb_traditional == UNION {Range(Tail(l)) : l \in Range(tables.gb) \ {Comment}}

\* util.cht2chs, "convert a traditional entry to a simplified one", with
\* hanChar.cht2chs: a word of characters that have one simplified form at
\* most is converted character by character, each traditional character to
\* its simplified form, the traditional characters of GB2312 only when
\* conv_gbcht is set; and with conv_gbcht set the word is made of the
\* characters hanChar.cht2chs gives for its characters and of those of its
\* characters the table has no simplified form for.
SimplifiedCharByCharUnlessAmbiguous ==
    LET word == entry.word
        stays(ch) == simplified(ch) = {} \/ (~entry.conv_gbcht /\ ch \in gb_traditional)
    IN  /\ (\A ch \in Range(word) : Cardinality(simplified(ch)) <= 1) =>
               entry.chs = [k \in DOMAIN word |-> IF stays(word[k]) THEN word[k]
                                                  ELSE CHOOSE chs \in simplified(word[k]) : TRUE]
        /\ entry.conv_gbcht =>
               Range(entry.chs) = han_cht2chs(Range(word))
                                     \cup {ch \in Range(word) : simplified(ch) = {}}

\* The same without the exception: a character for every character.
SimplifiedCharByChar == Len(entry.chs) = Len(entry.word)

=============================================================================
