------------------------------- MODULE Parser -------------------------------
(***************************************************************************)
(* A message of the phone on its way through communication.c: `parse' cuts *)
(* it into words, check_input_word_exist looks the words up in the table   *)
(* m_def_input, and communication_run walks over them and takes their      *)
(* attributes.  A message is a sequence of characters, already in lower    *)
(* case; a position in it is a pointer of the code.  One step is one turn  *)
(* of a loop, which is cut in two where a word ends and the next begins.   *)
(***************************************************************************)
EXTENDS Integers, Sequences

CONSTANTS
    Messages,   \* messages the phone may write
    NAttribute, \* m_def_input: from a name to the attributes it must have
    MaxWord,    \* MAX_WORD: words in the array of a c_msg_t
    SkipWidth,  \* 2^8: skip_separator counts in a uint8_t
    TestDown, SetParam, Continue, Modify  \* names the walk tells apart

TYPE_NULL == 0
TYPE_CMD == 1
TYPE_PARAM == 2
TYPE_ATTRIBUTE == 4
Types == {TYPE_NULL, TYPE_CMD, TYPE_PARAM, TYPE_ATTRIBUTE}

Names == DOMAIN NAttribute

ASSUME MessageAssumption == Messages \subseteq Seq(STRING)
\* No name in m_def_input is empty, and test_speed_down takes no attribute.
ASSUME TableAssumption ==
    /\ <<>> \notin Names
    /\ \A n \in Names : NAttribute[n] \in Nat
    /\ {TestDown, SetParam, Continue, Modify} \subseteq Names
    /\ NAttribute[TestDown] = 0

\* The byte behind the array of words is the number of words.  With 16 of
\* them it is no type of a word; were MAX_WORD 4, it would be.
ASSUME MaxWordAssumption == MaxWord \in Nat \ {0} /\ MaxWord # TYPE_ATTRIBUTE

ASSUME SkipAssumption == SkipWidth \in Nat \ {0}

VARIABLES
    msg,
    pc,       \* "frame", "parse", "skip", "check", "run" or "done"
    i,        \* the cursor of `parse'
    nWord,
    word,     \* the words begun so far
    opened,   \* word_current is not NULL
    oldType,  \* old_type
    k,        \* the word check_input_word_exist or communication_run looks at
    result

vars == <<msg, pc, i, nWord, word, opened, oldType, k, result>>

\* The message and its words do not change while they are walked over.
text == <<msg, i, nWord, opened, oldType>>

End == Len(msg)
Separator(p) == p <= End /\ msg[p] = " "

Results == {"none", "not_framed", "len_word", "number_word", "open_word",
            "close_word", "no_cmd", "refused", "run"}

Init ==
    /\ msg \in Messages
    /\ pc = "frame" /\ i = 0 /\ nWord = 0 /\ word = <<>>
    /\ opened = FALSE /\ oldType = TYPE_NULL /\ k = 0 /\ result = "none"

Return(r) == pc' = "done" /\ result' = r

-----------------------------------------------------------------------------
(* parse.                                                                  *)

Framed == End > 0 /\ msg[1] = "s" /\ msg[End] = "e"

\* Anything else is dummy data or an error, see DispatchDummyData of SpeedTest.
Frame ==
    /\ pc = "frame"
    /\ IF Framed
       THEN pc' = "parse" /\ i' = 2 /\ UNCHANGED result
       ELSE Return("not_framed") /\ UNCHANGED i
    /\ UNCHANGED <<msg, nWord, word, opened, oldType, k>>

InLoop == pc = "parse" /\ i # End

\* The separators from the cursor on are n.
Gap(n) == (\A p \in i .. i + n - 1 : Separator(p)) /\ ~Separator(i + n)

\* skip_separator returns their number as far as it fits a byte: one element.
Skip == {n % SkipWidth : n \in {m \in 0 .. End : Gap(m)}}

\* A character of the open word.
WordGoesOn ==
    /\ InLoop /\ 0 \in Skip /\ opened
    /\ i' = i + 1
    /\ UNCHANGED <<msg, pc, nWord, word, opened, oldType, k, result>>

\* A character without a separator before it.
NoWordOpen ==
    /\ InLoop /\ 0 \in Skip /\ ~opened
    /\ Return("open_word")
    /\ UNCHANGED <<text, word, k>>

\* The length of the last word, which a separator at the cursor ends.
LengthHere == i - word[nWord].start

Closed ==
    IF oldType = TYPE_NULL THEN word
    ELSE [word EXCEPT ![nWord].length = LengthHere]

\* Faulty variant: the cursor is moved once more, as the loop's head does.
CloseWordPast ==
    /\ InLoop
    /\ oldType # TYPE_NULL => LengthHere # 0
    /\ \E skip \in Skip \ {0} : i' = i + skip + 1
    /\ pc' = "skip" /\ opened' = FALSE /\ word' = Closed
    /\ UNCHANGED <<msg, nWord, oldType, k, result>>

\* The first separator behind a word closes it; the first of all closes none.
CloseWord ==
    /\ InLoop
    /\ oldType # TYPE_NULL => LengthHere # 0
    /\ \E skip \in Skip \ {0} : i' = i + skip
    /\ pc' = "skip" /\ opened' = FALSE /\ word' = Closed
    /\ UNCHANGED <<msg, nWord, oldType, k, result>>

\* A parameter that is a '-' and nothing else.
CloseEmptyWord ==
    /\ InLoop /\ oldType # TYPE_NULL /\ LengthHere = 0
    /\ Skip # {0}
    /\ Return("len_word")
    /\ UNCHANGED <<text, word, k>>

GetType ==
    IF oldType = TYPE_NULL THEN TYPE_CMD
    ELSE IF msg[i] = "-" THEN TYPE_PARAM ELSE TYPE_ATTRIBUTE

\* Zeroed by memset; zero is also the name TEST_SPEED_DOWN.
NewWord ==
    [type |-> GetType, start |-> IF GetType = TYPE_PARAM THEN i + 1 ELSE i,
     length |-> 0, name |-> TestDown]

AtWord == pc = "skip" /\ i # End

\* Faulty variant: one word too many is let into the array.
OpenWordLate ==
    /\ AtWord /\ nWord <= MaxWord
    /\ nWord' = nWord + 1
    /\ word' = Append(word, NewWord)
    /\ opened' = TRUE /\ oldType' = GetType
    /\ pc' = "parse" /\ i' = i + 1
    /\ UNCHANGED <<msg, k, result>>

OpenWord ==
    /\ AtWord /\ nWord < MaxWord
    /\ nWord' = nWord + 1
    /\ word' = Append(word, NewWord)
    /\ opened' = TRUE /\ oldType' = GetType
    /\ pc' = "parse" /\ i' = i + 1
    /\ UNCHANGED <<msg, k, result>>

TooManyWords ==
    /\ AtWord /\ nWord >= MaxWord
    /\ nWord' = nWord + 1
    /\ Return("number_word")
    /\ UNCHANGED <<msg, i, word, opened, oldType, k>>

\* The loop is left: at its head, or behind the last separators.
AtEnd == i = End /\ pc \in {"parse", "skip"}

WordLeftOpen ==
    /\ AtEnd /\ opened
    /\ Return("close_word")
    /\ UNCHANGED <<text, word, k>>

NoCommand ==
    /\ AtEnd /\ ~opened /\ nWord = 0
    /\ Return("no_cmd")
    /\ UNCHANGED <<text, word, k>>

Parsed ==
    /\ AtEnd /\ ~opened /\ nWord # 0
    /\ pc' = "check" /\ k' = 1
    /\ UNCHANGED <<text, word, result>>

-----------------------------------------------------------------------------
(* check_input_word_exist and check_argument_number.                       *)

WordText(w) == SubSeq(msg, w.start, w.start + w.length - 1)

\* Faulty variant: whatever is behind the last word passes for an attribute.
TypeAtBehind(n) == IF n <= Len(word) THEN word[n].type ELSE TYPE_ATTRIBUTE

\* What is found as the type of the n-th word, which may be the one behind
\* the last: still zero, or behind the array.
TypeAt(n) ==
    IF n <= Len(word) THEN word[n].type
    ELSE IF n <= MaxWord THEN TYPE_NULL ELSE nWord

Argument(n) == TypeAt(k + n) = TYPE_ATTRIBUTE
EnoughWords(n) == (k - 1) + n <= nWord

Known == WordText(word[k]) \in Names
Count == NAttribute[WordText(word[k])]

WordOk ==
    /\ word[k].type \in {TYPE_CMD, TYPE_PARAM}
    /\ Known
    /\ EnoughWords(Count) /\ \A n \in 1 .. Count : Argument(n)

\* Faulty variants: the loop does not move on behind a word without attributes;
\* the types of the attributes are not looked at.
CheckWordAgain ==
    /\ pc = "check" /\ k <= nWord
    /\ IF WordOk
       THEN /\ word' = [word EXCEPT ![k].name = WordText(word[k])]
            /\ k' = k + Count
            /\ UNCHANGED <<pc, result>>
       ELSE Return("refused") /\ UNCHANGED <<word, k>>
    /\ UNCHANGED text

CheckWordCounted ==
    /\ pc = "check" /\ k <= nWord
    /\ IF word[k].type \in {TYPE_CMD, TYPE_PARAM} /\ Known /\ EnoughWords(Count)
       THEN /\ word' = [word EXCEPT ![k].name = WordText(word[k])]
            /\ k' = k + 1 + Count
            /\ UNCHANGED <<pc, result>>
       ELSE Return("refused") /\ UNCHANGED <<word, k>>
    /\ UNCHANGED text

CheckWord ==
    /\ pc = "check" /\ k <= nWord
    /\ IF WordOk
       THEN /\ word' = [word EXCEPT ![k].name = WordText(word[k])]
            /\ k' = k + 1 + Count
            /\ UNCHANGED <<pc, result>>
       ELSE Return("refused") /\ UNCHANGED <<word, k>>
    /\ UNCHANGED text

Checked ==
    /\ pc = "check" /\ k > nWord
    /\ pc' = "run" /\ k' = 1 /\ result' = "run"
    /\ UNCHANGED <<text, word>>

-----------------------------------------------------------------------------
(* communication_run, as far as it walks over the words.                   *)

\* Attributes taken at the k-th word, if the word has its effect.
Takes ==
    IF word[1].name = TestDown /\ word[k].name = Continue THEN NAttribute[Continue]
    ELSE IF word[1].name = SetParam /\ word[k].name = Modify THEN NAttribute[Modify]
    ELSE 0

\* The word has no effect, or one without attributes.
RunWord ==
    /\ pc = "run" /\ k <= nWord
    /\ word[1].name = SetParam => Takes = 0
    /\ k' = k + 1
    /\ UNCHANGED <<text, pc, word, result>>

RunWithAttributes ==
    /\ pc = "run" /\ k <= nWord /\ Takes # 0
    /\ k' = k + 1 + Takes
    /\ UNCHANGED <<text, pc, word, result>>

\* The walk ends, by a return or behind the last word.
RunEnds ==
    /\ pc = "run"
    /\ pc' = "done"
    /\ UNCHANGED <<text, word, k, result>>

-----------------------------------------------------------------------------
Parse ==
    \/ Frame \/ WordGoesOn \/ NoWordOpen \/ CloseWord \/ CloseEmptyWord
    \/ OpenWord \/ TooManyWords \/ WordLeftOpen \/ NoCommand \/ Parsed

Next == Parse \/ CheckWord \/ Checked \/ RunWord \/ RunWithAttributes \/ RunEnds

Spec == Init /\ [][Next]_vars

\* A handler runs to its end.
FairSpec == Spec /\ WF_vars(Next)

-----------------------------------------------------------------------------
(* Properties.                                                             *)

TypeOK ==
    /\ msg \in Seq(STRING)
    /\ pc \in {"frame", "parse", "skip", "check", "run", "done"}
    /\ i \in Nat /\ nWord \in 0 .. MaxWord + 1 /\ k \in Nat
    /\ word \in Seq([type : Types, start : Nat, length : Nat, name : Names])
    /\ opened \in BOOLEAN /\ oldType \in Types /\ result \in Results

\* The loop compares its cursor with the end by `!=' and moves it in two
\* places: it must not step over the end, nor follow word_current while that
\* is NULL.
CursorInMessage ==
    /\ pc \in {"parse", "skip"} => i \in 1 .. End
    /\ pc = "parse" /\ oldType # TYPE_NULL => opened

\* The words are those begun, they fit the array, and each lies within the
\* message, its terminating '\0' before the end.
WordsInArray ==
    /\ Len(word) <= MaxWord
    /\ nWord = Len(word) \/ result = "number_word"
    /\ \A n \in 1 .. Len(word) :
        word[n].start \in 1 .. End /\ word[n].start + word[n].length <= End

\* communication_run takes attributes without looking whether there are any:
\* the ones it takes are words of the message, and attributes.  The bound of
\* check_input_word_exist admits one word more; its type saves it.
AttributesFilled ==
    pc = "run" /\ k <= nWord =>
        \A n \in 1 .. Takes : k + n <= nWord /\ word[k + n].type = TYPE_ATTRIBUTE

\* A bound on the steps a message still takes.
StepsLeft ==
    CASE pc = "frame" -> 2 * End + 2 * MaxWord + 3
      [] pc = "parse" -> 2 * (End - i) + 1 + 2 * MaxWord + 3
      [] pc = "skip"  -> 2 * (End - i) + 2 * MaxWord + 3
      [] pc = "check" -> MaxWord + 1 + (nWord + 2 - k)
      [] pc = "run"   -> nWord + 2 - k
      [] pc = "done"  -> 0

\* Every step brings the end nearer: whatever the phone writes, the three loops
\* together take no more turns than twice its characters and the array's words.
StepsRunOut == [][StepsLeft' \in 0 .. StepsLeft - 1]_vars

\* Every message is dealt with.
Ends == <>(pc = "done")
=============================================================================
