---------------------------- MODULE Parser_proofs ----------------------------
(***************************************************************************)
(* The parser, for every message, table of names and size of the array.    *)
(* Memory safety: its cursor stays in the message, its words in the array, *)
(* and the attributes communication_run takes are there.  Its meaning: it  *)
(* accepts the sentences of Grammar and nothing else, because the words it *)
(* has cut are those of the message left of the cursor, and the words it   *)
(* has looked up are whole phrases.                                        *)
(***************************************************************************)
EXTENDS Grammar, SequenceTheorems, FiniteSetTheorems, TLAPS

Word == [type : Types, start : Nat, length : Nat, name : Names]

\* Every name given to a word so far is followed by its attributes.
Complete ==
    \A n \in 1 .. Len(word) : \A a \in 1 .. NAttribute[word[n].name] :
        n + a <= Len(word) /\ word[n + a].type = TYPE_ATTRIBUTE

\* What the steps of `parse' leave to each other.
ParseInv ==
    /\ pc = "frame" => oldType = TYPE_NULL
    /\ pc \in {"parse", "skip"} => Framed /\ i \in 1 .. End
    /\ pc \in {"parse", "skip"} /\ oldType # TYPE_NULL => nWord # 0
    /\ pc = "parse" /\ oldType # TYPE_NULL => opened /\ word[nWord].start <= i
    /\ pc # "done" => nWord = Len(word)
    /\ pc \in {"check", "run"} => k # 0

\* TypeOK without its Boolean.
TypeRest ==
    /\ msg \in Seq(STRING)
    /\ pc \in {"frame", "parse", "skip", "check", "run", "done"}
    /\ i \in Nat /\ nWord \in 0 .. MaxWord + 1 /\ k \in Nat
    /\ word \in Seq(Word)
    /\ oldType \in Types /\ result \in Results

Inv == TypeOK /\ ParseInv /\ WordsInArray /\ Complete

\* The types, the Boolean apart.
LEMMA TypeParts == TypeOK <=> TypeRest /\ opened \in BOOLEAN
  BY DEF TypeOK, TypeRest, Word

-----------------------------------------------------------------------------
(* Sequences of words.                                                     *)

\* A word is begun behind the others.
LEMMA AppendFacts ==
    ASSUME NEW s \in Seq(Word), NEW e \in Word
    PROVE  /\ Append(s, e) \in Seq(Word) /\ Len(Append(s, e)) = Len(s) + 1
           /\ Len(s) \in Nat
           /\ \A n \in 1 .. Len(s) : Append(s, e)[n] = s[n]
           /\ Append(s, e)[Len(s) + 1] = e
  BY AppendProperties, LenProperties

WithLength(s, n, x) == [s EXCEPT ![n].length = x]
WithName(s, n, x) == [s EXCEPT ![n].name = x]

\* The length of a word is set; everything else stays.
LEMMA LengthFacts ==
    ASSUME NEW s \in Seq(Word), NEW n \in 1 .. Len(s), NEW x \in Nat
    PROVE  LET t == WithLength(s, n, x) IN
           /\ t \in Seq(Word) /\ Len(t) = Len(s)
           /\ \A m \in 1 .. Len(s) :
                /\ t[m].type = s[m].type /\ t[m].start = s[m].start
                /\ t[m].name = s[m].name
                /\ t[m].length = IF m = n THEN x ELSE s[m].length
  <1> DEFINE t == WithLength(s, n, x)
  <1>1. s[n] \in Word
    BY ElementOfSeq
  <1>2. t = [s EXCEPT ![n] = [s[n] EXCEPT !.length = x]]
    BY DEF WithLength
  <1>3. [s[n] EXCEPT !.length = x] \in Word
    BY <1>1 DEF Word
  <1>4. t \in Seq(Word) /\ Len(t) = Len(s)
    BY <1>2, <1>3, ExceptSeq
  <1>5. \A m \in 1 .. Len(s) : s[m] \in Word
    BY ElementOfSeq
  <1>6. \A m \in 1 .. Len(s) : t[m] = IF m = n THEN [s[n] EXCEPT !.length = x] ELSE s[m]
    BY <1>2, <1>3, ExceptSeq
  <1> QED  BY <1>1, <1>4, <1>5, <1>6 DEF Word

\* The name of a word is set; everything else stays.
LEMMA NameFacts ==
    ASSUME NEW s \in Seq(Word), NEW n \in 1 .. Len(s), NEW x \in Names
    PROVE  LET t == WithName(s, n, x) IN
           /\ t \in Seq(Word) /\ Len(t) = Len(s)
           /\ \A m \in 1 .. Len(s) :
                /\ t[m].type = s[m].type /\ t[m].start = s[m].start
                /\ t[m].length = s[m].length
                /\ t[m].name = IF m = n THEN x ELSE s[m].name
  <1> DEFINE t == WithName(s, n, x)
  <1>1. s[n] \in Word
    BY ElementOfSeq
  <1>2. t = [s EXCEPT ![n] = [s[n] EXCEPT !.name = x]]
    BY DEF WithName
  <1>3. [s[n] EXCEPT !.name = x] \in Word
    BY <1>1 DEF Word
  <1>4. t \in Seq(Word) /\ Len(t) = Len(s)
    BY <1>2, <1>3, ExceptSeq
  <1>5. \A m \in 1 .. Len(s) : s[m] \in Word
    BY ElementOfSeq
  <1>6. \A m \in 1 .. Len(s) : t[m] = IF m = n THEN [s[n] EXCEPT !.name = x] ELSE s[m]
    BY <1>2, <1>3, ExceptSeq
  <1> QED  BY <1>1, <1>4, <1>5, <1>6 DEF Word

-----------------------------------------------------------------------------
(* The initial state.                                                      *)

\* There are no words yet.
LEMMA InitInv == Init => Inv
  <1> SUFFICES ASSUME Init PROVE Inv
    OBVIOUS
  <1>1. msg \in Seq(STRING)
    BY MessageAssumption DEF Init
  <1>2. word \in Seq(Word) /\ Len(word) = 0
    BY DEF Init
  <1>3. TypeRest
    BY <1>1, <1>2, MaxWordAssumption
    DEF Init, TypeRest, Types, Results, TYPE_NULL
  <1>3a. opened \in BOOLEAN
    BY DEF Init
  <1>4. ParseInv
    BY <1>2 DEF Init, ParseInv
  <1>5. WordsInArray
    BY <1>2, MaxWordAssumption DEF Init, WordsInArray
  <1>6. Complete
    BY <1>2 DEF Complete
  <1> QED  BY <1>3, <1>3a, <1>4, <1>5, <1>6, TypeParts DEF Inv

-----------------------------------------------------------------------------
(* The steps.                                                              *)

\* A return: the words stay as they are.
LEMMA LeavingInv ==
    ASSUME Inv, pc # "done", pc' = "done", result' \in Results,
           UNCHANGED <<msg, i, word, opened, oldType, k>>,
           \/ nWord' = nWord
           \/ nWord' = nWord + 1 /\ nWord <= MaxWord /\ result' = "number_word"
    PROVE  Inv'
  <1> USE DEF Inv
  <1>1. TypeRest'
    BY TypeParts, MaxWordAssumption DEF TypeRest
  <1>2. opened' \in BOOLEAN
    BY TypeParts
  <1>3. ParseInv'
    BY DEF ParseInv
  <1>4. WordsInArray'
    BY DEF WordsInArray, ParseInv, End
  <1>5. Complete'
    BY DEF Complete
  <1>6. TypeOK'
    BY <1>1, <1>2, TypeParts DEF TypeOK, TypeRest, Word
  <1> QED  BY <1>3, <1>4, <1>5, <1>6

\* A step that leaves the words alone and goes on to the state q.
LEMMA MovingInv ==
    ASSUME Inv, pc # "done", pc' \in {"parse", "skip", "check", "run"},
           i' \in Nat, k' \in Nat, result' \in Results,
           UNCHANGED <<msg, word, nWord, opened, oldType>>,
           ParseInv'
    PROVE  Inv'
  <1> USE DEF Inv
  <1>1. TypeRest'
    BY TypeParts, MaxWordAssumption DEF TypeRest
  <1>2. opened' \in BOOLEAN
    BY TypeParts
  <1>4. WordsInArray'
    BY DEF WordsInArray, ParseInv, End
  <1>5. Complete'
    BY DEF Complete
  <1>6. TypeOK'
    BY <1>1, <1>2, TypeParts DEF TypeOK, TypeRest, Word
  <1> QED  BY <1>4, <1>5, <1>6

\* The cursor is put behind the first character.
LEMMA FrameInv == Inv /\ Frame => Inv'
  <1> SUFFICES ASSUME Inv, Frame PROVE Inv'
    OBVIOUS
  <1>0. UNCHANGED <<msg, nWord, word, opened, oldType, k>> /\ pc = "frame"
    BY DEF Frame
  <1>1. CASE Framed
    <2>1. pc' = "parse" /\ i' = 2 /\ result' = result
      BY <1>1 DEF Frame
    <2>2. oldType = TYPE_NULL /\ End \in Nat \ {0, 1} /\ nWord = Len(word)
      BY <1>0, <1>1, TypeParts, LenProperties DEF Inv, ParseInv, Framed, TypeRest, End
    <2>3. ParseInv'
      BY <1>0, <1>1, <2>1, <2>2 DEF ParseInv, Framed, End
    <2> QED  BY <1>0, <2>1, <2>3, MovingInv, TypeParts DEF Inv, TypeRest
  <1>2. CASE ~Framed
    <2>1. pc' = "done" /\ i' = i /\ result' \in Results
      BY <1>2 DEF Frame, Return, Results
    <2> QED  BY <1>0, <2>1, LeavingInv
  <1> QED  BY <1>1, <1>2

\* The cursor moves within a word.
LEMMA CursorInv == Inv /\ WordGoesOn => Inv'
  <1> SUFFICES ASSUME Inv, WordGoesOn PROVE Inv'
    OBVIOUS
  <1>1. /\ UNCHANGED <<msg, pc, nWord, word, opened, oldType, k, result>>
        /\ i' = i + 1 /\ pc = "parse"
    BY DEF WordGoesOn, InLoop
  <1>2. Framed /\ i \in 1 .. End /\ End \in Nat
    BY <1>1, TypeParts, LenProperties DEF Inv, ParseInv, TypeRest, End
  <1>3. i # End
    BY DEF WordGoesOn, InLoop
  <1>4. pc = "parse" /\ oldType # TYPE_NULL => word[nWord].start <= i + 1
    <2>1. SUFFICES ASSUME pc = "parse", oldType # TYPE_NULL PROVE word[nWord].start <= i + 1
      OBVIOUS
    <2>2. nWord \in 1 .. Len(word) /\ word \in Seq(Word)
      BY <2>1, TypeParts, LenProperties DEF Inv, ParseInv, TypeRest
    <2>3. word[nWord].start \in Nat
      <3>1. word[nWord] \in Word
        BY <2>2, ElementOfSeq
      <3> QED  BY <3>1 DEF Word
    <2> QED  BY <1>2, <2>1, <2>3 DEF Inv, ParseInv
  <1>5. ParseInv'
    BY <1>1, <1>2, <1>3, <1>4 DEF Inv, ParseInv, Framed, End
  <1> QED  BY <1>1, <1>2, <1>5, MovingInv, TypeParts DEF Inv, TypeRest

\* The cursor is moved over separators only, and the last character, which
\* frames the message, is none.
LEMMA SkipInMessage ==
    ASSUME Framed, i \in 1 .. End, End \in Nat, NEW skip \in Skip
    PROVE  skip \in Nat /\ i + skip \in 1 .. End
  <1>1. PICK n \in 0 .. End : Gap(n) /\ skip = n % SkipWidth
    BY DEF Skip
  <1>2. ~Separator(End)
    BY DEF Separator, Framed
  <1>3. ~(End \in i .. i + n - 1)
    BY <1>1, <1>2 DEF Gap
  <1>4. i + n <= End
    BY <1>1, <1>3
  <1>5. SkipWidth \in Nat \ {0} /\ n \in Nat
    BY <1>1, SkipAssumption
  <1>6. n % SkipWidth \in Nat /\ n % SkipWidth <= n
    <2>1. n < SkipWidth => n % SkipWidth = n
      BY <1>5
    <2>2. n % SkipWidth \in 0 .. SkipWidth - 1
      BY <1>5
    <2> QED  BY <1>5, <2>1, <2>2
  <1> QED  BY <1>1, <1>4, <1>6

\* A separator behind a word sets its length.
LEMMA CloseInv == Inv /\ CloseWord => Inv'
  <1> SUFFICES ASSUME Inv, CloseWord PROVE Inv'
    OBVIOUS
  <1>1. /\ UNCHANGED <<msg, nWord, oldType, k, result>>
        /\ pc = "parse" /\ pc' = "skip" /\ opened' = FALSE /\ word' = Closed
    BY DEF CloseWord, InLoop
  <1>2. Framed /\ i \in 1 .. End /\ nWord = Len(word) /\ word \in Seq(Word) /\ End \in Nat
    BY <1>1, TypeParts, LenProperties DEF Inv, ParseInv, TypeRest, End
  <1>2a. i' \in 1 .. End
    <2>1. PICK skip \in Skip : i' = i + skip
      BY DEF CloseWord
    <2> QED  BY <1>2, <2>1, SkipInMessage
  <1>3. CASE oldType = TYPE_NULL
    <2>1. word' = word
      BY <1>1, <1>3 DEF Closed
    <2>2. TypeRest'
      BY <1>1, <1>2a, <2>1, TypeParts DEF Inv, TypeRest
    <2>3. opened' \in BOOLEAN
      BY <1>1
    <2>4. ParseInv' /\ WordsInArray' /\ Complete'
      BY <1>1, <1>2, <1>2a, <1>3, <2>1 DEF Inv, ParseInv, WordsInArray, Complete, Framed, End
    <2>5. TypeOK'
      BY <2>2, <2>3 DEF TypeOK, TypeRest, Word
    <2> QED  BY <2>4, <2>5 DEF Inv
  <1>4. CASE oldType # TYPE_NULL
    <2>1. word' = WithLength(word, nWord, LengthHere)
      BY <1>1, <1>4 DEF Closed, WithLength
    <2>2. nWord \in 1 .. Len(word) /\ word[nWord].start <= i
      BY <1>1, <1>2, <1>4, LenProperties DEF Inv, ParseInv
    <2>3. word[nWord].start \in Nat
      <3>1. word[nWord] \in Word
        BY <1>2, <2>2, ElementOfSeq
      <3> QED  BY <3>1 DEF Word
    <2>4. LengthHere \in Nat /\ word[nWord].start + LengthHere = i
      BY <1>2, <2>2, <2>3 DEF LengthHere
    <2>5. /\ word' \in Seq(Word) /\ Len(word') = Len(word)
          /\ \A m \in 1 .. Len(word) :
                /\ word'[m].type = word[m].type /\ word'[m].start = word[m].start
                /\ word'[m].name = word[m].name
                /\ word'[m].length = IF m = nWord THEN LengthHere ELSE word[m].length
      <3> DEFINE t == WithLength(word, nWord, LengthHere)
      <3>1. /\ t \in Seq(Word) /\ Len(t) = Len(word)
            /\ \A m \in 1 .. Len(word) :
                  /\ t[m].type = word[m].type /\ t[m].start = word[m].start
                  /\ t[m].name = word[m].name
                  /\ t[m].length = IF m = nWord THEN LengthHere ELSE word[m].length
        BY <1>2, <2>2, <2>4, LengthFacts
      <3>2. word' = t
        BY <2>1
      <3> HIDE DEF t
      <3> QED  BY <3>1, <3>2
    <2>6. TypeRest'
      BY <1>1, <1>2a, <2>5, TypeParts DEF Inv, TypeRest
    <2>7. opened' \in BOOLEAN
      BY <1>1
    <2>8. ParseInv'
      BY <1>1, <1>2, <1>2a, <2>2, <2>5 DEF Inv, ParseInv, Framed, End
    <2>9. WordsInArray'
      BY <1>1, <1>2, <2>4, <2>5 DEF Inv, WordsInArray, End
    <2>10. Complete'
      BY <2>5 DEF Inv, Complete
    <2>11. TypeOK'
      BY <2>6, <2>7 DEF TypeOK, TypeRest, Word
    <2> QED  BY <2>8, <2>9, <2>10, <2>11 DEF Inv
  <1> QED  BY <1>3, <1>4

\* A new word has room in the array and begins within the message.
LEMMA OpenInv == Inv /\ OpenWord => Inv'
  <1> SUFFICES ASSUME Inv, OpenWord PROVE Inv'
    OBVIOUS
  <1>1. /\ UNCHANGED <<msg, k, result>>
        /\ pc = "skip" /\ pc' = "parse" /\ opened' = TRUE
        /\ nWord < MaxWord /\ nWord' = nWord + 1 /\ i' = i + 1 /\ i # End
        /\ oldType' = GetType /\ word' = Append(word, NewWord)
    BY DEF OpenWord, AtWord
  <1>2. Framed /\ i \in 1 .. End /\ nWord = Len(word) /\ word \in Seq(Word) /\ End \in Nat
    BY <1>1, TypeParts, LenProperties DEF Inv, ParseInv, TypeRest, End
  <1>3. GetType \in Types /\ GetType # TYPE_NULL
    BY DEF GetType, Types, TYPE_NULL, TYPE_CMD, TYPE_PARAM, TYPE_ATTRIBUTE
  <1>4. /\ NewWord \in Word /\ NewWord.start \in {i, i + 1} /\ NewWord.length = 0
        /\ NewWord.name = TestDown
    BY <1>2, <1>3, TableAssumption DEF NewWord, Word
  <1>5. /\ word' \in Seq(Word) /\ Len(word') = nWord + 1 /\ nWord \in Nat
        /\ \A n \in 1 .. nWord : word'[n] = word[n]
        /\ word'[nWord + 1] = NewWord
    BY <1>1, <1>2, <1>4, AppendFacts
  <1>6. TypeRest'
    BY <1>1, <1>2, <1>3, <1>5, TypeParts, MaxWordAssumption DEF Inv, TypeRest
  <1>7. opened' \in BOOLEAN
    BY <1>1
  <1>8. ParseInv'
    <2>1. i' \in 1 .. End' /\ Framed'
      BY <1>1, <1>2 DEF Framed, End
    <2>2. word'[nWord'].start <= i'
      BY <1>1, <1>2, <1>4, <1>5
    <2>3. nWord' # 0 /\ nWord' = Len(word') /\ opened'
      BY <1>1, <1>5
    <2> QED  BY <1>1, <2>1, <2>2, <2>3 DEF ParseInv
  <1>9. WordsInArray'
    <2>1. Len(word') <= MaxWord /\ nWord' = Len(word')
      BY <1>1, <1>5, MaxWordAssumption
    <2>2. ASSUME NEW n \in 1 .. Len(word')
          PROVE  word'[n].start \in 1 .. End' /\ word'[n].start + word'[n].length <= End'
      <3>1. CASE n = nWord + 1
        BY <1>1, <1>2, <1>4, <1>5, <3>1 DEF End
      <3>2. CASE n \in 1 .. nWord
        BY <1>1, <1>2, <1>5, <3>2 DEF Inv, WordsInArray, End
      <3> QED  BY <1>5, <2>2, <3>1, <3>2
    <2> QED  BY <2>1, <2>2 DEF WordsInArray
  <1>10. Complete'
    <2>1. SUFFICES ASSUME NEW n \in 1 .. Len(word'), NEW a \in 1 .. NAttribute[word'[n].name]
                   PROVE  n + a <= Len(word') /\ word'[n + a].type = TYPE_ATTRIBUTE
      BY DEF Complete
    <2>2. n # nWord + 1
      BY <1>4, <1>5, <2>1, TableAssumption
    <2>3. n \in 1 .. nWord /\ word'[n] = word[n]
      BY <1>5, <2>1, <2>2
    <2>4. n + a <= nWord /\ word[n + a].type = TYPE_ATTRIBUTE
      BY <1>2, <2>1, <2>3 DEF Inv, Complete
    <2>5. NAttribute[word[n].name] \in Nat
      <3>1. word[n] \in Word
        BY <1>2, <2>3, ElementOfSeq
      <3> QED  BY <3>1, TableAssumption DEF Word
    <2>6. n + a \in 1 .. nWord
      BY <1>5, <2>1, <2>3, <2>4, <2>5
    <2> QED  BY <1>5, <2>4, <2>6
  <1>11. TypeOK'
    BY <1>6, <1>7 DEF TypeOK, TypeRest, Word
  <1> QED  BY <1>8, <1>9, <1>10, <1>11 DEF Inv

\* What check_argument_number finds behind the last word is no attribute, so the
\* attributes it counts are words.
LEMMA ArgumentsAreWords ==
    ASSUME Inv, pc = "check", k \in 1 .. nWord, WordOk
    PROVE  /\ WordText(word[k]) \in Names /\ Count \in Nat
           /\ \A a \in 1 .. Count : k + a <= nWord /\ word[k + a].type = TYPE_ATTRIBUTE
  <1>1. nWord = Len(word) /\ nWord \in Nat /\ k \in Nat /\ nWord <= MaxWord
    BY MaxWordAssumption, TypeParts DEF Inv, ParseInv, TypeRest, WordsInArray
  <1>2. WordText(word[k]) \in Names /\ Count \in Nat
    BY TableAssumption DEF WordOk, Known, Count
  <1>3. ASSUME NEW a \in 1 .. Count
        PROVE  k + a <= nWord /\ word[k + a].type = TYPE_ATTRIBUTE
    <2>1. TypeAt(k + a) = TYPE_ATTRIBUTE /\ k + a <= nWord + 1
      <3>1. EnoughWords(Count) /\ Argument(a)
        BY <1>3, Zenon DEF WordOk
      <3>2. k + a <= nWord + 1
        BY <1>1, <1>2, <1>3, <3>1 DEF EnoughWords
      <3> QED  BY <3>1, <3>2 DEF Argument
    <2>2. k + a <= nWord
      <3>1. SUFFICES ASSUME k + a = nWord + 1 PROVE FALSE
        BY <1>1, <1>2, <1>3, <2>1
      <3>2. TypeAt(k + a) = TYPE_NULL \/ (TypeAt(k + a) = nWord /\ nWord = MaxWord)
        BY <1>1, <3>1, MaxWordAssumption DEF TypeAt
      <3> QED  BY <2>1, <3>2, MaxWordAssumption DEF TYPE_NULL, TYPE_ATTRIBUTE
    <2> QED  BY <1>1, <1>2, <1>3, <2>1, <2>2 DEF TypeAt
  <1> QED  BY <1>2, <1>3

\* A name is given to a word that is followed by its attributes.
LEMMA CheckInv == Inv /\ CheckWord => Inv'
  <1> SUFFICES ASSUME Inv, CheckWord PROVE Inv'
    OBVIOUS
  <1>1. UNCHANGED text /\ pc = "check" /\ k <= nWord
    BY DEF CheckWord
  <1>2. nWord = Len(word) /\ word \in Seq(Word) /\ nWord \in Nat /\ k \in 1 .. nWord
    BY <1>1, TypeParts, MaxWordAssumption DEF Inv, ParseInv, TypeRest
  <1>3. CASE ~WordOk
    <2>1. pc' = "done" /\ result' \in Results /\ UNCHANGED <<word, k>>
      BY <1>3 DEF CheckWord, Return, Results
    <2> QED  BY <1>1, <2>1, LeavingInv DEF text
  <1>4. CASE WordOk
    <2> DEFINE name == WordText(word[k])
               t == WithName(word, k, name)
    <2>1. name \in Names /\ Count = NAttribute[name] /\ Count \in Nat
          /\ \A a \in 1 .. Count : k + a <= nWord /\ word[k + a].type = TYPE_ATTRIBUTE
      BY <1>1, <1>2, <1>4, ArgumentsAreWords DEF Count
    <2>2. word' = t /\ k' = k + 1 + Count /\ UNCHANGED <<pc, result>>
      BY <1>4 DEF CheckWord, WithName
    <2> HIDE DEF name
    <2>3. /\ t \in Seq(Word) /\ Len(t) = Len(word)
          /\ \A m \in 1 .. Len(word) :
                /\ t[m].type = word[m].type /\ t[m].start = word[m].start
                /\ t[m].length = word[m].length
                /\ t[m].name = IF m = k THEN name ELSE word[m].name
      BY <1>2, <2>1, NameFacts
    <2> HIDE DEF t
    <2>4. TypeRest'
      BY <1>1, <1>2, <2>1, <2>2, <2>3, TypeParts DEF Inv, TypeRest, text
    <2>5. opened' \in BOOLEAN
      BY <1>1, TypeParts DEF Inv, text
    <2>6. ParseInv'
      BY <1>1, <1>2, <2>1, <2>2, <2>3 DEF Inv, ParseInv, text
    <2>7. WordsInArray'
      BY <1>1, <1>2, <2>2, <2>3 DEF Inv, WordsInArray, End, text
    <2>8. Complete'
      <3>1. SUFFICES ASSUME NEW n \in 1 .. Len(word'), NEW a \in 1 .. NAttribute[word'[n].name]
                     PROVE  n + a <= Len(word') /\ word'[n + a].type = TYPE_ATTRIBUTE
        BY DEF Complete
      <3>2. n + a <= nWord /\ word[n + a].type = TYPE_ATTRIBUTE
        <4>1. CASE n = k
          BY <1>2, <2>1, <2>2, <2>3, <3>1, <4>1
        <4>2. CASE n # k
          BY <1>2, <2>2, <2>3, <3>1, <4>2 DEF Inv, Complete
        <4> QED  BY <4>1, <4>2
      <3>3. NAttribute[word'[n].name] \in Nat
        <4>1. word'[n] \in Word
          BY <2>2, <2>3, <3>1, ElementOfSeq
        <4> QED  BY <4>1, TableAssumption DEF Word
      <3>4. n + a \in 1 .. nWord
        BY <1>2, <2>2, <2>3, <3>1, <3>2, <3>3
      <3> QED  BY <1>2, <2>2, <2>3, <3>2, <3>4
    <2>9. TypeOK'
      BY <2>4, <2>5 DEF TypeOK, TypeRest, Word
    <2> QED  BY <2>6, <2>7, <2>8, <2>9 DEF Inv
  <1> QED  BY <1>3, <1>4

\* The walks begin, go on to a later word, or end.
LEMMA WalkInv == Inv /\ (Parsed \/ Checked \/ RunWord \/ RunWithAttributes \/ RunEnds) => Inv'
  <1> SUFFICES ASSUME Inv, Parsed \/ Checked \/ RunWord \/ RunWithAttributes \/ RunEnds
               PROVE  Inv'
    OBVIOUS
  <1>1. UNCHANGED text /\ word' = word /\ pc # "done" /\ i \in Nat /\ k \in Nat
        /\ result \in Results
    BY TypeParts DEF Inv, TypeRest, Parsed, AtEnd, Checked, RunWord, RunWithAttributes, RunEnds
  <1>2. CASE Parsed
    <2>1. pc' = "check" /\ k' = 1 /\ result' = result
      BY <1>2 DEF Parsed
    <2>2. ParseInv'
      BY <1>1, <2>1 DEF Inv, ParseInv, text
    <2> QED  BY <1>1, <2>1, <2>2, MovingInv DEF text
  <1>3. CASE Checked
    <2>1. pc' = "run" /\ k' = 1 /\ result' \in Results
      BY <1>3 DEF Checked, Results
    <2>2. ParseInv'
      BY <1>1, <2>1 DEF Inv, ParseInv, text
    <2> QED  BY <1>1, <2>1, <2>2, MovingInv DEF text
  <1>4. CASE RunWord \/ RunWithAttributes
    <2>1. pc = "run" /\ pc' = "run" /\ result' = result
      BY <1>4 DEF RunWord, RunWithAttributes
    <2>2. Takes \in Nat
      BY TableAssumption DEF Takes
    <2>3. k' \in Nat /\ k' # 0
      BY <1>1, <1>4, <2>2 DEF RunWord, RunWithAttributes
    <2>4. ParseInv'
      BY <1>1, <2>1, <2>3 DEF Inv, ParseInv, text
    <2> QED  BY <1>1, <2>1, <2>3, <2>4, MovingInv DEF text
  <1>5. CASE RunEnds
    <2>1. pc' = "done" /\ UNCHANGED <<k, result>>
      BY <1>5 DEF RunEnds
    <2> QED  BY <1>1, <2>1, LeavingInv DEF text
  <1> QED  BY <1>2, <1>3, <1>4, <1>5

\* The errors of `parse'.
LEMMA ErrorInv ==
    Inv /\ (NoWordOpen \/ CloseEmptyWord \/ TooManyWords \/ WordLeftOpen \/ NoCommand) => Inv'
  <1> SUFFICES ASSUME Inv,
                      NoWordOpen \/ CloseEmptyWord \/ TooManyWords \/ WordLeftOpen \/ NoCommand
               PROVE  Inv'
    OBVIOUS
  <1>1. /\ pc # "done" /\ pc' = "done" /\ result' \in Results
        /\ UNCHANGED <<msg, i, word, opened, oldType, k>>
    BY DEF NoWordOpen, CloseEmptyWord, TooManyWords, WordLeftOpen, NoCommand, Return,
           InLoop, AtWord, AtEnd, Results, text
  <1>2. nWord <= MaxWord
    BY <1>1 DEF Inv, ParseInv, WordsInArray
  <1>3. nWord' = nWord \/ (nWord' = nWord + 1 /\ result' = "number_word")
    BY DEF NoWordOpen, CloseEmptyWord, TooManyWords, WordLeftOpen, NoCommand, Return, text
  <1> QED  BY <1>1, <1>2, <1>3, LeavingInv

-----------------------------------------------------------------------------

\* Every step keeps the words in the array and in the message.
LEMMA StepInv == Inv /\ [Next]_vars => Inv'
  <1> SUFFICES ASSUME Inv, [Next]_vars PROVE Inv'
    OBVIOUS
  <1>1. CASE UNCHANGED vars
    <2>1. TypeOK' /\ ParseInv'
      BY <1>1 DEF Inv, vars, TypeOK, ParseInv, Framed, End
    <2>2. WordsInArray' /\ Complete'
      BY <1>1 DEF Inv, vars, WordsInArray, Complete, End
    <2> QED  BY <2>1, <2>2 DEF Inv
  <1>2. CASE Next
    BY <1>2, FrameInv, CursorInv, CloseInv, OpenInv, CheckInv, WalkInv, ErrorInv, Zenon
    DEF Next, Parse
  <1> QED  BY <1>1, <1>2

\* Every variable keeps its type.
THEOREM TypeCorrect == Spec => []TypeOK
  <1>1. Inv => TypeOK
    BY DEF Inv
  <1> QED  BY InitInv, StepInv, <1>1, PTL DEF Spec

\* Whatever the phone writes, the words found fit the array and lie in the
\* message.
THEOREM WordsSafe == Spec => []WordsInArray
  <1>1. Inv => WordsInArray
    BY DEF Inv
  <1> QED  BY InitInv, StepInv, <1>1, PTL DEF Spec

\* The cursor never leaves the message and word_current is not used while NULL.
THEOREM CursorSafe == Spec => []CursorInMessage
  <1>1. Inv => CursorInMessage
    BY DEF Inv, ParseInv, CursorInMessage
  <1> QED  BY InitInv, StepInv, <1>1, PTL DEF Spec

\* The attributes communication_run takes unchecked are attributes of the
\* message, whatever the table asks for and however many words the array holds.
THEOREM AttributesSafe == Spec => []AttributesFilled
  <1>1. ASSUME Inv PROVE AttributesFilled
    <2>1. SUFFICES ASSUME pc = "run", k <= nWord, NEW n \in 1 .. Takes
                   PROVE  k + n <= nWord /\ word[k + n].type = TYPE_ATTRIBUTE
      BY DEF AttributesFilled
    <2>2. k \in 1 .. Len(word) /\ nWord = Len(word)
      BY <1>1, <2>1, TypeParts, MaxWordAssumption DEF Inv, ParseInv, TypeRest
    <2>3. Takes = NAttribute[word[k].name] \/ Takes = 0
      BY DEF Takes
    <2>4. n \in 1 .. NAttribute[word[k].name]
      BY <2>1, <2>3
    <2> QED  BY <1>1, <2>2, <2>4 DEF Inv, Complete
  <1> QED  BY InitInv, StepInv, <1>1, PTL DEF Spec

-----------------------------------------------------------------------------
(* The number of steps.                                                    *)

\* The walks over the words stop behind the last one.
WalkInWords == pc \in {"check", "run"} => k \in 1 .. nWord + 1

\* Each step of the walks takes a word, and all it takes are there.
LEMMA StepWalks == Inv /\ WalkInWords /\ [Next]_vars => WalkInWords'
  <1> SUFFICES ASSUME Inv, WalkInWords, [Next]_vars PROVE WalkInWords'
    OBVIOUS
  <1>0. nWord \in Nat /\ k \in Nat /\ (pc # "done" => nWord = Len(word))
    BY TypeParts, MaxWordAssumption DEF Inv, ParseInv, TypeRest
  <1>1. CASE Parsed \/ Checked
    BY <1>0, <1>1 DEF Parsed, Checked, WalkInWords, text
  <1>2. CASE CheckWord
    <2>1. UNCHANGED text /\ pc = "check" /\ k \in 1 .. nWord
      BY <1>0, <1>2 DEF CheckWord, WalkInWords
    <2>2. CASE ~WordOk
      BY <1>2, <2>2 DEF CheckWord, Return, WalkInWords
    <2>3. CASE WordOk
      <3>1. k' = k + 1 + Count
        BY <1>2, <2>3 DEF CheckWord
      <3>2. Count \in Nat /\ \A a \in 1 .. Count : k + a <= nWord
        BY <2>1, <2>3, ArgumentsAreWords
      <3>3. k + Count <= nWord
        <4>1. Count = 0 \/ Count \in 1 .. Count
          BY <3>2
        <4> QED  BY <2>1, <3>2, <4>1
      <3>4. k' \in 1 .. nWord + 1
        BY <1>0, <3>1, <3>2, <3>3
      <3> QED  BY <2>1, <3>4 DEF WalkInWords, text
    <2> QED  BY <2>2, <2>3
  <1>3. CASE RunWord
    BY <1>0, <1>3 DEF RunWord, WalkInWords, text
  <1>4. CASE RunWithAttributes
    <2>1. pc = "run" /\ k \in 1 .. nWord /\ k' = k + 1 + Takes /\ nWord' = nWord
      BY <1>0, <1>4 DEF RunWithAttributes, WalkInWords, text
    <2>2. Takes \in Nat /\ (Takes = NAttribute[word[k].name] \/ Takes = 0)
      BY TableAssumption DEF Takes
    <2>3. k + Takes <= nWord
      <3>1. CASE Takes = 0
        BY <2>1, <3>1
      <3>2. CASE Takes # 0
        <4>1. Takes \in 1 .. NAttribute[word[k].name] /\ k \in 1 .. Len(word)
          BY <1>0, <2>1, <2>2, <3>2
        <4> QED  BY <1>0, <2>1, <4>1 DEF Inv, Complete
      <3> QED  BY <3>1, <3>2
    <2> QED  BY <1>0, <2>1, <2>2, <2>3 DEF WalkInWords
  <1>5. CASE UNCHANGED vars
    BY <1>5 DEF WalkInWords, vars
  <1>6. CASE ~(Parsed \/ Checked \/ CheckWord \/ RunWord \/ RunWithAttributes) /\ Next
    <2>1. pc' \notin {"check", "run"}
      BY <1>6 DEF Next, Parse, Frame, WordGoesOn, NoWordOpen, CloseWord, CloseEmptyWord,
                  OpenWord, TooManyWords, WordLeftOpen, NoCommand, RunEnds, Return,
                  InLoop, AtWord
    <2> QED  BY <2>1 DEF WalkInWords
  <1> QED  BY <1>1, <1>2, <1>3, <1>4, <1>5, <1>6

\* The bound is a bound.
LEMMA StepsFacts ==
    ASSUME Inv, WalkInWords
    PROVE  /\ End \in Nat /\ MaxWord \in Nat /\ i \in Nat /\ nWord \in Nat /\ k \in Nat
           /\ StepsLeft \in Nat
           /\ pc # "done" => StepsLeft > 0
           /\ pc # "done" => nWord <= MaxWord
  <1>1. /\ End \in Nat /\ MaxWord \in Nat /\ i \in Nat /\ nWord \in Nat /\ k \in Nat
        /\ pc \in {"frame", "parse", "skip", "check", "run", "done"}
    BY TypeParts, LenProperties, MaxWordAssumption DEF Inv, TypeRest, End
  <1>2. pc # "done" => nWord <= MaxWord
    BY DEF Inv, ParseInv, WordsInArray
  <1>3. pc \in {"parse", "skip"} => i <= End
    BY <1>1 DEF Inv, ParseInv
  <1>4. pc \in {"check", "run"} => k <= nWord + 1
    BY <1>1 DEF WalkInWords
  <1>5. CASE pc \in {"frame", "parse", "skip"}
    BY <1>1, <1>2, <1>3, <1>5 DEF StepsLeft
  <1>6. CASE pc \in {"check", "run", "done"}
    BY <1>1, <1>2, <1>4, <1>6 DEF StepsLeft
  <1> QED  BY <1>1, <1>2, <1>5, <1>6

LEMMA StepsShrink == Inv /\ WalkInWords /\ Next => StepsLeft' \in 0 .. StepsLeft - 1
  <1> SUFFICES ASSUME Inv, WalkInWords, Next PROVE StepsLeft' \in 0 .. StepsLeft - 1
    OBVIOUS
  <1>1. Inv' /\ WalkInWords'
    BY StepInv, StepWalks
  <1>2. /\ End \in Nat /\ MaxWord \in Nat /\ i \in Nat /\ nWord \in Nat /\ k \in Nat
        /\ StepsLeft \in Nat
        /\ pc # "done" => StepsLeft > 0
        /\ pc # "done" => nWord <= MaxWord
    BY StepsFacts
  <1>3. StepsLeft' \in Nat /\ i' \in Nat /\ k' \in Nat
    <2>1. Inv' => TypeRest'
      BY TypeParts DEF Inv, TypeOK, TypeRest, Word
    <2>2. i' \in Nat /\ k' \in Nat
      BY <1>1, <2>1 DEF TypeRest
    <2>3. End' \in Nat /\ nWord' \in Nat
      BY <1>1, <2>1, LenProperties, MaxWordAssumption DEF TypeRest, End
    <2>4. /\ pc' \in {"frame", "parse", "skip", "check", "run", "done"}
          /\ pc' # "done" => nWord' <= MaxWord
          /\ pc' \in {"parse", "skip"} => i' \in 1 .. End'
          /\ pc' \in {"check", "run"} => k' \in 1 .. nWord' + 1
      <3>1. pc' \in {"frame", "parse", "skip", "check", "run", "done"}
        BY <1>1, <2>1 DEF TypeRest
      <3>2. pc' # "done" => nWord' <= MaxWord
        BY <1>1 DEF Inv, ParseInv, WordsInArray
      <3>3. pc' \in {"parse", "skip"} => i' \in 1 .. End'
        BY <1>1 DEF Inv, ParseInv
      <3>4. pc' \in {"check", "run"} => k' \in 1 .. nWord' + 1
        BY <1>1 DEF WalkInWords
      <3> QED  BY <3>1, <3>2, <3>3, <3>4, Zenon
    <2>5. CASE pc' \in {"frame", "parse", "skip"}
      BY <1>2, <2>2, <2>3, <2>4, <2>5 DEF StepsLeft
    <2>6. CASE pc' \in {"check", "run", "done"}
      BY <1>2, <2>2, <2>3, <2>4, <2>6 DEF StepsLeft
    <2> QED  BY <2>2, <2>4, <2>5, <2>6
  <1>4. SUFFICES StepsLeft' < StepsLeft
    BY <1>2, <1>3
  <1>5. CASE pc' = "done"
    <2>1. pc # "done"
      BY DEF Next, Parse, Frame, WordGoesOn, NoWordOpen, CloseWord, CloseEmptyWord, OpenWord,
             TooManyWords, WordLeftOpen, NoCommand, Parsed, CheckWord, Checked, RunWord,
             RunWithAttributes, RunEnds, InLoop, AtWord, AtEnd
    <2>2. StepsLeft' = 0
      BY <1>5 DEF StepsLeft
    <2> QED  BY <1>2, <2>1, <2>2
  <1>6. CASE pc' # "done"
    <2>0. msg' = msg /\ End' = End
      BY DEF Next, Parse, Frame, WordGoesOn, NoWordOpen, CloseWord, CloseEmptyWord, OpenWord,
             TooManyWords, WordLeftOpen, NoCommand, Parsed, CheckWord, Checked, RunWord,
             RunWithAttributes, RunEnds, text, End
    <2>1. CASE Frame
      <3>1. pc = "frame" /\ pc' = "parse" /\ i' = 2
        BY <1>6, <2>1 DEF Frame, Return
      <3> QED  BY <1>2, <2>0, <3>1 DEF StepsLeft
    <2>2. CASE WordGoesOn
      <3>1. pc = "parse" /\ pc' = "parse" /\ i' = i + 1
        BY <2>2 DEF WordGoesOn, InLoop
      <3> QED  BY <1>2, <2>0, <3>1 DEF StepsLeft
    <2>3. CASE CloseWord
      <3>1. pc = "parse" /\ pc' = "skip"
        BY <2>3 DEF CloseWord, InLoop
      <3>2. Framed /\ i \in 1 .. End
        BY <3>1 DEF Inv, ParseInv
      <3>3. PICK skip \in Skip : skip # 0 /\ i' = i + skip
        BY <2>3 DEF CloseWord
      <3>4. skip \in Nat
        BY <1>2, <3>2, SkipInMessage
      <3> QED  BY <1>2, <2>0, <3>1, <3>3, <3>4 DEF StepsLeft
    <2>4. CASE OpenWord
      <3>1. pc = "skip" /\ pc' = "parse" /\ i' = i + 1
        BY <2>4 DEF OpenWord, AtWord
      <3> QED  BY <1>2, <2>0, <3>1 DEF StepsLeft
    <2>5. CASE Parsed
      <3>1. pc \in {"parse", "skip"} /\ i = End /\ pc' = "check" /\ k' = 1 /\ nWord' = nWord
        BY <2>5 DEF Parsed, AtEnd, text
      <3> QED  BY <1>2, <2>0, <3>1 DEF StepsLeft
    <2>6. CASE CheckWord
      <3>1. pc = "check" /\ pc' = "check" /\ k' = k + 1 + Count /\ nWord' = nWord /\ WordOk
            /\ k \in 1 .. nWord
        BY <1>2, <1>6, <2>6 DEF CheckWord, Return, text, WalkInWords
      <3>2. Count \in Nat
        BY <3>1, ArgumentsAreWords
      <3> QED  BY <1>2, <2>0, <3>1, <3>2 DEF StepsLeft
    <2>7. CASE Checked
      <3>1. pc = "check" /\ pc' = "run" /\ k' = 1 /\ k = nWord + 1 /\ nWord' = nWord
        BY <1>2, <2>7 DEF Checked, text, WalkInWords
      <3> QED  BY <1>2, <2>0, <3>1 DEF StepsLeft
    <2>8. CASE RunWord \/ RunWithAttributes
      <3>1. Takes \in Nat
        BY TableAssumption DEF Takes
      <3>2. pc = "run" /\ pc' = "run" /\ nWord' = nWord /\ k' > k
        BY <1>2, <2>8, <3>1 DEF RunWord, RunWithAttributes, text
      <3> QED  BY <1>2, <1>3, <2>0, <3>2 DEF StepsLeft
    <2> QED
      BY <1>6, <2>1, <2>2, <2>3, <2>4, <2>5, <2>6, <2>7, <2>8, Zenon
      DEF Next, Parse, NoWordOpen, CloseEmptyWord, TooManyWords, WordLeftOpen, NoCommand,
          RunEnds, Return
  <1> QED  BY <1>5, <1>6

\* For all messages, tables and array sizes every step brings the end nearer.
THEOREM StepsCorrect == Spec => StepsRunOut
  <1>1. Init => Inv /\ WalkInWords
    <2>1. Init => WalkInWords
      BY DEF Init, WalkInWords
    <2> QED  BY InitInv, <2>1
  <1>2. Inv /\ WalkInWords /\ [Next]_vars => (Inv /\ WalkInWords)'
    <2>1. Inv /\ WalkInWords /\ [Next]_vars => Inv' /\ WalkInWords'
      BY StepInv, StepWalks
    <2> QED  BY <2>1
  <1>3. Inv /\ WalkInWords /\ [Next]_vars => [StepsLeft' \in 0 .. StepsLeft - 1]_vars
    BY StepsShrink
  <1> QED  BY <1>1, <1>2, <1>3, PTL DEF Spec, StepsRunOut

-----------------------------------------------------------------------------
(* The words of a message and their number.                                *)

Blank(m, q) == m[q] = " "

\* A pair is its two parts.
LEMMA PairParts ==
    ASSUME NEW A, NEW B, NEW s \in A \X B
    PROVE  s = <<s[1], s[2]>> /\ s[1] \in A /\ s[2] \in B
  OBVIOUS

\* A word begins behind the frame and ends before it, without a separator.
LEMMA SpanFacts ==
    ASSUME NEW m, Len(m) \in Nat, NEW s \in Spans(m)
    PROVE  /\ s = <<s[1], s[2]>> /\ s[1] \in Nat /\ s[2] \in Nat
           /\ 2 <= s[1] /\ s[1] <= s[2] /\ s[2] < Len(m)
           /\ Blank(m, s[1] - 1) /\ Blank(m, s[2] + 1) /\ ~Blank(m, s[1])
           /\ \A p \in s[1] .. s[2] : ~Blank(m, p)
  <1> DEFINE places == 2 .. Len(m) - 1
  <1>1. /\ s \in places \X places /\ s[1] <= s[2]
        /\ Blank(m, s[1] - 1) /\ Blank(m, s[2] + 1)
        /\ \A p \in s[1] .. s[2] : ~Blank(m, p)
    BY Zenon DEF Spans, Blank
  <1>2. \A x \in places : x \in Nat /\ 2 <= x /\ x < Len(m)
    OBVIOUS
  <1> HIDE DEF places
  <1>3. s = <<s[1], s[2]>> /\ s[1] \in places /\ s[2] \in places
    BY <1>1, PairParts, Zenon
  <1>4. s[1] \in s[1] .. s[2]
    BY <1>1, <1>2, <1>3
  <1> QED  BY <1>1, <1>2, <1>3, <1>4

\* Two words begin at two places.
LEMMA SpansDiffer ==
    ASSUME NEW m, Len(m) \in Nat, NEW s \in Spans(m), NEW t \in Spans(m), s[1] = t[1]
    PROVE  s = t
  <1>1. ASSUME NEW a \in Spans(m), NEW b \in Spans(m), a[1] = b[1] PROVE ~(a[2] < b[2])
    <2>1. SUFFICES ASSUME a[2] < b[2] PROVE FALSE
      OBVIOUS
    <2>2. a[1] \in Nat /\ a[2] \in Nat /\ b[1] \in Nat /\ b[2] \in Nat /\ a[1] <= a[2]
      BY SpanFacts
    <2>3. a[2] + 1 \in b[1] .. b[2]
      BY <1>1, <2>1, <2>2
    <2>4. Blank(m, a[2] + 1) /\ \A p \in b[1] .. b[2] : ~Blank(m, p)
      BY SpanFacts
    <2> QED  BY <2>3, <2>4
  <1>2. /\ s[2] \in Nat /\ t[2] \in Nat /\ s = <<s[1], s[2]>> /\ t = <<t[1], t[2]>>
    BY SpanFacts
  <1>3. ~(s[2] < t[2]) /\ ~(t[2] < s[2])
    BY <1>1
  <1>4. s[2] = t[2]
    BY <1>2, <1>3
  <1> QED  BY <1>2, <1>4

\* The words of a message can be counted.
LEMMA SpansFinite ==
    ASSUME NEW m, Len(m) \in Nat
    PROVE  IsFiniteSet(Spans(m)) /\ Cardinality(Spans(m)) \in Nat
  <1> DEFINE places == 2 .. Len(m) - 1
  <1>1. IsFiniteSet(places)
    BY FS_Interval
  <1>2. Spans(m) \in SUBSET (places \X places)
    BY DEF Spans
  <1> HIDE DEF places
  <1>3. IsFiniteSet(places \X places)
    BY <1>1, FS_Product
  <1>4. IsFiniteSet(Spans(m))
    BY <1>2, <1>3, FS_Subset
  <1> QED  BY <1>4, FS_CardinalityType

\* The words up to s.
UpTo(m, s) == {t \in Spans(m) : t[1] <= s[1]}

\* The n-th word is the one that n words, itself included, are up to.
LEMMA SpanIsUnique ==
    ASSUME NEW m, Len(m) \in Nat, NEW s \in Spans(m)
    PROVE  Span(m, Cardinality(UpTo(m, s))) = s
  <1>1. ASSUME NEW a \in Spans(m), NEW b \in Spans(m), a[1] < b[1]
        PROVE  Cardinality(UpTo(m, a)) # Cardinality(UpTo(m, b))
    <2>0. \A t \in Spans(m) : t[1] \in Nat
      BY SpanFacts
    <2>1. UpTo(m, a) \in SUBSET UpTo(m, b)
      BY <1>1, <2>0 DEF UpTo
    <2>2. b \in UpTo(m, b) /\ b \notin UpTo(m, a)
      BY <1>1, <2>0 DEF UpTo
    <2>3. IsFiniteSet(UpTo(m, b))
      BY SpansFinite, FS_Subset DEF UpTo
    <2> QED  BY <2>1, <2>2, <2>3, FS_Subset
  <1>2. ASSUME NEW t \in Spans(m), Cardinality(UpTo(m, t)) = Cardinality(UpTo(m, s))
        PROVE  t = s
    <2>1. ~(t[1] < s[1]) /\ ~(s[1] < t[1])
      BY <1>1, <1>2
    <2>2. t[1] \in Nat /\ s[1] \in Nat
      BY SpanFacts
    <2>3. t[1] = s[1]
      BY <2>1, <2>2
    <2> QED  BY <2>3, SpansDiffer
  <1> DEFINE n == Cardinality(UpTo(m, s))
             P(t) == Cardinality({u \in Spans(m) : u[1] <= t[1]}) = n
  <1>3. Span(m, n) = CHOOSE t \in Spans(m) : P(t)
    BY DEF Span
  <1>4. P(s) /\ \A t \in Spans(m) : P(t) => t = s
    BY <1>2 DEF UpTo
  <1> HIDE DEF n, P
  <1>5. (CHOOSE t \in Spans(m) : P(t)) = s
    BY <1>4
  <1> QED  BY <1>3, <1>5 DEF n

\* n things in a row are n.
LEMMA CountInOrder ==
    ASSUME NEW S, NEW n \in Nat, NEW f \in [1 .. n -> S],
           \A x \in S : \E j \in 1 .. n : f[j] = x,
           \A j, l \in 1 .. n : j < l => f[j] # f[l]
    PROVE  Cardinality(S) = n
  <1>1. \A j, l \in 1 .. n : f[j] = f[l] => j = l
    OBVIOUS
  <1>2. f \in Injection(1 .. n, S) /\ f \in Surjection(1 .. n, S)
    BY <1>1 DEF Injection, Surjection, IsInjective
  <1>3. ExistsBijection(1 .. n, S)
    BY <1>2, Zenon DEF ExistsBijection, Bijection
  <1> QED  BY <1>3, FS_CountingElements

-----------------------------------------------------------------------------
(* The words that were cut.                                                *)

\* Where a word begins in the message, its '-' included, and the stretch it is.
Begin(w) == IF w.type = TYPE_PARAM THEN w.start - 1 ELSE w.start
Cut(w) == <<Begin(w), w.start + w.length - 1>>

\* The first n words of ws are the words of m that begin left of p, in order.
FirstWords(m, ws, n, p) ==
    /\ \A j \in 1 .. n : Cut(ws[j]) \in Spans(m) /\ Begin(ws[j]) < p
    /\ \A s \in Spans(m) : s[1] < p => \E j \in 1 .. n : s = Cut(ws[j])
    /\ \A j, l \in 1 .. n : j < l => Begin(ws[j]) < Begin(ws[l])

\* Their types are those get_type gives.
Typed(m, ws, n) ==
    \A j \in 1 .. n :
        ws[j].type = IF j = 1 THEN TYPE_CMD
                     ELSE IF m[Begin(ws[j])] = "-" THEN TYPE_PARAM ELSE TYPE_ATTRIBUTE

\* The beginning of a word is the first place of its stretch.
LEMMA BeginFacts ==
    ASSUME NEW ws \in Seq(Word), NEW j \in 1 .. Len(ws)
    PROVE  Begin(ws[j]) \in Int /\ Cut(ws[j])[1] = Begin(ws[j])
  <1>1. ws[j] \in Word
    BY ElementOfSeq
  <1> QED  BY <1>1 DEF Begin, Cut, Word

\* The words up to some place are as many as were cut up to there.
LEMMA CutsUpTo ==
    ASSUME NEW m, Len(m) \in Nat, NEW ws \in Seq(Word), NEW n \in 0 .. Len(ws),
           NEW p \in Int, FirstWords(m, ws, n, p),
           NEW S \in SUBSET Spans(m), NEW l \in 0 .. n,
           \A j \in 1 .. n : Cut(ws[j]) \in S <=> j <= l,
           \A s \in S : s[1] < p
    PROVE  Cardinality(S) = l
  <1> DEFINE f == [j \in 1 .. l |-> Cut(ws[j])]
  <1>0. Len(ws) \in Nat /\ l \in Nat /\ n \in Nat
    BY LenProperties
  <1>1. \A j \in 1 .. l : j \in 1 .. n /\ j \in 1 .. Len(ws) /\ j <= l
    BY <1>0
  <1>2. f \in [1 .. l -> S]
    BY <1>1
  <1>3. ASSUME NEW s \in S PROVE \E j \in 1 .. l : f[j] = s
    <2>1. PICK j \in 1 .. n : s = Cut(ws[j])
      BY Zenon DEF FirstWords
    <2>2. j <= l
      BY <2>1
    <2>3. j \in 1 .. l
      BY <1>0, <2>2
    <2> QED  BY <2>1, <2>3
  <1>4. ASSUME NEW j \in 1 .. l, NEW h \in 1 .. l, j < h PROVE f[j] # f[h]
    <2>1. Begin(ws[j]) < Begin(ws[h])
      BY <1>1, <1>4 DEF FirstWords
    <2>2. /\ Begin(ws[j]) \in Int /\ f[j][1] = Begin(ws[j])
          /\ Begin(ws[h]) \in Int /\ f[h][1] = Begin(ws[h])
      BY <1>1, BeginFacts
    <2>3. Begin(ws[j]) # Begin(ws[h])
      BY <2>1, <2>2
    <2> HIDE DEF f
    <2> QED  BY <2>2, <2>3
  <1> HIDE DEF f
  <1> QED  BY <1>0, <1>2, <1>3, <1>4, CountInOrder

\* The n-th word that was cut is the n-th word.
LEMMA CutIsSpan ==
    ASSUME NEW m, Len(m) \in Nat, NEW ws \in Seq(Word), NEW n \in 0 .. Len(ws),
           NEW p \in Int, FirstWords(m, ws, n, p), NEW l \in 1 .. n
    PROVE  Span(m, l) = Cut(ws[l])
  <1>0. /\ Len(ws) \in Nat /\ n \in Nat /\ l \in 0 .. n /\ l \in Nat
        /\ \A j \in 1 .. n : j \in 1 .. Len(ws)
    BY LenProperties
  <1> DEFINE s == Cut(ws[l])
             S == UpTo(m, s)
  <1>1. \A j \in 1 .. n : Begin(ws[j]) \in Int /\ Cut(ws[j])[1] = Begin(ws[j])
    BY <1>0, BeginFacts
  <1>2. \A j \in 1 .. n : Cut(ws[j]) \in Spans(m) /\ Begin(ws[j]) < p
    BY Zenon DEF FirstWords
  <1>3. ASSUME NEW j \in 1 .. n PROVE Cut(ws[j]) \in S <=> j <= l
    <2>1. Cut(ws[j]) \in S <=> Begin(ws[j]) <= Begin(ws[l])
      BY <1>1, <1>2, Zenon DEF UpTo
    <2>2. (j < l => Begin(ws[j]) < Begin(ws[l])) /\ (l < j => Begin(ws[l]) < Begin(ws[j]))
      BY DEF FirstWords
    <2>3. j = l => Begin(ws[j]) = Begin(ws[l])
      OBVIOUS
    <2>4. Begin(ws[j]) \in Int /\ Begin(ws[l]) \in Int /\ j \in Nat
      BY <1>0, <1>1
    <2>5. Begin(ws[j]) <= Begin(ws[l]) <=> j <= l
      BY <1>0, <2>2, <2>3, <2>4
    <2> QED  BY <2>1, <2>5
  <1>4. ASSUME NEW t \in S PROVE t[1] < p
    <2>1. t[1] <= Begin(ws[l]) /\ t \in Spans(m)
      BY <1>1 DEF UpTo
    <2>2. Begin(ws[l]) < p /\ Begin(ws[l]) \in Int
      BY <1>1, <1>2
    <2>3. t[1] \in Nat
      BY <2>1, SpanFacts
    <2> QED  BY <2>1, <2>2, <2>3
  <1>5. S \in SUBSET Spans(m)
    BY DEF UpTo
  <1> HIDE DEF S
  <1>6. Cardinality(S) = l
    BY <1>0, <1>3, <1>4, <1>5, CutsUpTo
  <1> QED  BY <1>2, <1>6, SpanIsUnique DEF S

\* As many words as were cut are in the message, and one more if one is behind.
LEMMA CutsAndMore ==
    ASSUME NEW m, Len(m) \in Nat, NEW ws \in Seq(Word), NEW n \in 0 .. Len(ws),
           NEW p \in Int, FirstWords(m, ws, n, p)
    PROVE  /\ n <= Cardinality(Spans(m))
           /\ n = Cardinality(Spans(m)) <=> \A s \in Spans(m) : s[1] < p
  <1> DEFINE S == {s \in Spans(m) : s[1] < p}
  <1>0. Len(ws) \in Nat /\ n \in Nat /\ n \in 0 .. n /\ \A j \in 1 .. n : j \in 1 .. Len(ws)
    BY LenProperties
  <1>1. \A j \in 1 .. n : Begin(ws[j]) \in Int /\ Cut(ws[j])[1] = Begin(ws[j])
    BY <1>0, BeginFacts
  <1>2. \A j \in 1 .. n : Cut(ws[j]) \in Spans(m) /\ Begin(ws[j]) < p
    BY Zenon DEF FirstWords
  <1>3. \A j \in 1 .. n : Cut(ws[j]) \in S <=> j <= n
    BY <1>0, <1>1, <1>2
  <1>4. S \in SUBSET Spans(m) /\ \A s \in S : s[1] < p
    OBVIOUS
  <1>5. S = Spans(m) <=> \A s \in Spans(m) : s[1] < p
    OBVIOUS
  <1> HIDE DEF S
  <1>6. Cardinality(S) = n
    BY <1>0, <1>3, <1>4, CutsUpTo
  <1>7. /\ Cardinality(S) <= Cardinality(Spans(m))
        /\ Cardinality(Spans(m)) = Cardinality(S) => Spans(m) = S
    BY <1>4, SpansFinite, FS_Subset
  <1> QED  BY <1>5, <1>6, <1>7

\* What begins a phrase, and the name looked up there.
LEMMA HeadOfCut ==
    ASSUME NEW m, Len(m) \in Nat, NEW ws \in Seq(Word), NEW n \in 0 .. Len(ws),
           NEW p \in Int, FirstWords(m, ws, n, p), Typed(m, ws, n), NEW l \in 1 .. n
    PROVE  /\ IsHead(m, l) <=> ws[l].type \in {TYPE_CMD, TYPE_PARAM}
           /\ IsHead(m, l) =>
                HeadName(m, l) = SubSeq(m, ws[l].start, ws[l].start + ws[l].length - 1)
  <1>1. Span(m, l) = <<Begin(ws[l]), ws[l].start + ws[l].length - 1>>
    BY CutIsSpan, Zenon DEF Cut
  <1>2. ws[l].type = IF l = 1 THEN TYPE_CMD
                     ELSE IF m[Begin(ws[l])] = "-" THEN TYPE_PARAM ELSE TYPE_ATTRIBUTE
    BY Zenon DEF Typed
  <1>3. ws[l] \in Word
    BY ElementOfSeq, LenProperties
  <1>4. IsHead(m, l) <=> l = 1 \/ m[Begin(ws[l])] = "-"
    BY <1>1 DEF IsHead
  <1>5. l = 1 => Begin(ws[l]) = ws[l].start
    BY <1>2 DEF Begin, TYPE_CMD, TYPE_PARAM
  <1>6. l # 1 /\ IsHead(m, l) => Begin(ws[l]) + 1 = ws[l].start
    BY <1>2, <1>3, <1>4 DEF Begin, Word
  <1>7. IsHead(m, l) =>
          HeadName(m, l) = SubSeq(m, ws[l].start, ws[l].start + ws[l].length - 1)
    <2> DEFINE e == ws[l].start + ws[l].length - 1
    <2>0. Span(m, l)[1] = Begin(ws[l]) /\ Span(m, l)[2] = e
      BY <1>1
    <2> HIDE DEF e
    <2>1. HeadName(m, l) = SubSeq(m, IF l = 1 THEN Begin(ws[l]) ELSE Begin(ws[l]) + 1, e)
      BY <2>0, Zenon DEF HeadName
    <2>2. IsHead(m, l) => (IF l = 1 THEN Begin(ws[l]) ELSE Begin(ws[l]) + 1) = ws[l].start
      BY <1>5, <1>6
    <2>3. IsHead(m, l) => HeadName(m, l) = SubSeq(m, ws[l].start, e)
      BY <2>1, <2>2, Zenon
    <2> QED  BY <2>3 DEF e
  <1>8. IsHead(m, l) <=> ws[l].type \in {TYPE_CMD, TYPE_PARAM}
    BY <1>2, <1>4 DEF TYPE_CMD, TYPE_PARAM, TYPE_ATTRIBUTE
  <1> QED  BY <1>7, <1>8

\* A set of natural numbers has a least one.
LEMMA LeastOfSet ==
    ASSUME NEW T \in SUBSET Nat, T # {}
    PROVE  \E x \in T : \A y \in T : x <= y
  <1>1. IsWellFoundedOn(OpToRel(<, Nat), Nat)
    BY NatLessThanWellFounded
  <1>2. \E x \in T : \A y \in T : <<y, x>> \notin OpToRel(<, Nat)
    BY <1>1, WFMin, Zenon
  <1>3. \A x, y \in Nat : y < x => <<y, x>> \in OpToRel(<, Nat)
    BY Zenon DEF OpToRel
  <1>4. \E x \in T : \A y \in T : ~(y < x)
    BY <1>2, <1>3, Zenon
  <1> QED  BY <1>4

\* A character behind a separator.
Starts(m, b) == Blank(m, b - 1) /\ ~Blank(m, b)

\* It begins a word, if a separator comes at all.
LEMMA WordBegins ==
    ASSUME NEW m, NEW last \in Nat, last = Len(m) - 1, NEW b \in 2 .. last,
           Starts(m, b), Blank(m, last)
    PROVE  \E s \in Spans(m) : s[1] = b
  <1> DEFINE T == {q \in b .. last : Blank(m, q)}
  <1>1. T \in SUBSET Nat /\ last \in T
    OBVIOUS
  <1>2. PICK e \in T : \A q \in T : e <= q
    BY <1>1, LeastOfSet
  <1>3. e \in b .. last /\ Blank(m, e) /\ e # b
    BY <1>2 DEF Starts
  <1>4. e \in Nat /\ b <= e - 1 /\ e - 1 \in 2 .. last /\ (e - 1) + 1 = e
    BY <1>3
  <1>5. \A q \in b .. e - 1 : q \in b .. last /\ ~(e <= q)
    BY <1>3
  <1>6. \A q \in b .. e - 1 : ~Blank(m, q)
    BY <1>2, <1>5
  <1> HIDE DEF T
  <1>7. <<b, e - 1>> \in Spans(m)
    <2> DEFINE s == <<b, e - 1>>
    <2>1. s[1] = b /\ s[2] = e - 1 /\ s \in (2 .. last) \X (2 .. last)
      BY <1>4
    <2> HIDE DEF s
    <2>2. s[1] <= s[2] /\ Blank(m, s[1] - 1) /\ Blank(m, s[2] + 1)
      BY <1>3, <1>4, <2>1, Zenon DEF Starts
    <2>3. \A q \in s[1] .. s[2] : ~Blank(m, q)
      BY <1>6, <2>1
    <2> QED  BY <2>1, <2>2, <2>3, Zenon DEF Spans, Blank, s
  <1> QED  BY <1>7

\* FirstWords says nothing but where the words are.
LEMMA SameWords ==
    ASSUME NEW m, NEW vs, NEW ws, NEW n, NEW p, FirstWords(m, vs, n, p),
           \A j \in 1 .. n : Cut(ws[j]) = Cut(vs[j]) /\ Begin(ws[j]) = Begin(vs[j])
    PROVE  FirstWords(m, ws, n, p)
  <1>1. \A j \in 1 .. n : Cut(ws[j]) \in Spans(m) /\ Begin(ws[j]) < p
    BY Zenon DEF FirstWords
  <1>2. \A s \in Spans(m) : s[1] < p => \E j \in 1 .. n : s = Cut(ws[j])
    BY Zenon DEF FirstWords
  <1>3. \A j, l \in 1 .. n : j < l => Begin(ws[j]) < Begin(ws[l])
    BY Zenon DEF FirstWords
  <1> QED  BY <1>1, <1>2, <1>3, Zenon DEF FirstWords

\* A separator behind a word makes it the next one, and behind separators no word
\* begins.
LEMMA OneWordMore ==
    ASSUME NEW m, Len(m) \in Nat, NEW ws \in Seq(Word), NEW n \in 1 .. Len(ws),
           NEW b \in Int, NEW h \in Int, NEW p \in Int,
           b = Begin(ws[n]), Cut(ws[n]) = <<b, h - 1>>,
           3 <= b, b < h, h < Len(m), h < p,
           FirstWords(m, ws, n - 1, b), Blank(m, b - 1),
           \A q \in b .. h - 1 : ~Blank(m, q),
           \A q \in h .. p - 1 : Blank(m, q)
    PROVE  FirstWords(m, ws, n, p)
  <1>0. /\ n \in Nat /\ Len(ws) \in Nat
        /\ \A j \in 1 .. n : j = n \/ j \in 1 .. n - 1
        /\ \A j \in 1 .. n - 1 : j \in 1 .. n /\ j \in 1 .. Len(ws)
        /\ n \in 1 .. n
    BY LenProperties
  <1>1. Cut(ws[n]) \in Spans(m)
    <2> DEFINE last == Len(m) - 1
               s == <<b, h - 1>>
    <2>1. s[1] = b /\ s[2] = h - 1 /\ s \in (2 .. last) \X (2 .. last)
      OBVIOUS
    <2>2. Blank(m, h) /\ (h - 1) + 1 = h /\ b <= h - 1
      OBVIOUS
    <2>3. Cut(ws[n]) = s
      OBVIOUS
    <2> HIDE DEF last, s
    <2>4. s[1] <= s[2] /\ Blank(m, s[1] - 1) /\ Blank(m, s[2] + 1)
      BY <2>1, <2>2, Zenon
    <2>5. \A q \in s[1] .. s[2] : ~Blank(m, q)
      BY <2>1, Zenon
    <2> QED  BY <2>1, <2>3, <2>4, <2>5, Zenon DEF Spans, Blank, last
  <1>2. \A j \in 1 .. n - 1 : Cut(ws[j]) \in Spans(m) /\ Begin(ws[j]) < b
    BY Zenon DEF FirstWords
  <1>3. \A j \in 1 .. n : Begin(ws[j]) \in Int
    BY <1>0, BeginFacts
  <1>4. ASSUME NEW j \in 1 .. n PROVE Cut(ws[j]) \in Spans(m) /\ Begin(ws[j]) < p
    BY <1>0, <1>1, <1>2, <1>3
  <1>5. ASSUME NEW s \in Spans(m), s[1] < p PROVE \E j \in 1 .. n : s = Cut(ws[j])
    <2>1. s[1] \in Nat /\ Blank(m, s[1] - 1) /\ ~Blank(m, s[1])
      BY SpanFacts
    <2>2. CASE s[1] < b
      BY <1>0, <2>2, Zenon DEF FirstWords
    <2>3. CASE s[1] = b
      <3>1. Cut(ws[n])[1] = b
        OBVIOUS
      <3>2. s = Cut(ws[n])
        BY <1>1, <2>3, <3>1, SpansDiffer
      <3> QED  BY <1>0, <3>2
    <2>4. CASE b < s[1] /\ s[1] < h
      <3>1. s[1] - 1 \in b .. h - 1
        BY <2>1, <2>4
      <3> QED  BY <2>1, <3>1
    <2>5. CASE h <= s[1]
      <3>1. s[1] \in h .. p - 1
        BY <1>5, <2>1, <2>5
      <3> QED  BY <2>1, <3>1
    <2> QED  BY <2>1, <2>2, <2>3, <2>4, <2>5
  <1>6. ASSUME NEW j \in 1 .. n, NEW l \in 1 .. n, j < l PROVE Begin(ws[j]) < Begin(ws[l])
    <2>1. j \in 1 .. n - 1
      BY <1>0, <1>6
    <2>2. CASE l = n
      BY <1>2, <2>1, <2>2
    <2>3. CASE l \in 1 .. n - 1
      BY <1>6, <2>1, <2>3 DEF FirstWords
    <2> QED  BY <1>0, <2>2, <2>3
  <1> QED  BY <1>4, <1>5, <1>6, Zenon DEF FirstWords

-----------------------------------------------------------------------------
(* What the parser has made of the message so far.                         *)

\* The word that begins with w is read as far as p.
OpenAt(m, w, p) ==
    /\ Begin(w) \in 3 .. p - 1 /\ w.length = 0 /\ Blank(m, Begin(w) - 1)
    /\ \A q \in Begin(w) .. p - 1 : ~Blank(m, q)

\* `parse' is at its loop's head: in a word, or before the first of all.
Reading ==
    IF opened
    THEN /\ oldType # TYPE_NULL /\ nWord # 0 /\ Blank(msg, 2)
         /\ Typed(msg, word, nWord)
         /\ OpenAt(msg, word[nWord], i)
         /\ FirstWords(msg, word, nWord - 1, Begin(word[nWord]))
    ELSE oldType = TYPE_NULL /\ nWord = 0 /\ i = 2

\* `parse' is behind separators.
Between ==
    /\ ~opened /\ (oldType = TYPE_NULL <=> nWord = 0)
    /\ Blank(msg, 2) /\ i \in 3 .. Len(msg) /\ Starts(msg, i)
    /\ Typed(msg, word, nWord) /\ FirstWords(msg, word, nWord, i)

\* The words found are the words of a framed message.
Cutting(m, ws, n) ==
    /\ Len(m) > 2 /\ m[1] = "s" /\ m[Len(m)] = "e"
    /\ Blank(m, 2) /\ Blank(m, Len(m) - 1)
    /\ n \in 1 .. MaxWord
    /\ Typed(m, ws, n) /\ FirstWords(m, ws, n, Len(m))

\* The last word of the phrase that the l-th word begins.
PhraseEnd(m, l) == l + NAttribute[HeadName(m, l)]

\* The words left of the p-th are phrases.
PhraseLeftOf(m, l, p) ==
    /\ HeadName(m, l) \in Names /\ PhraseEnd(m, l) < p
    /\ \A j \in l + 1 .. PhraseEnd(m, l) : ~IsHead(m, j)
    /\ PhraseEnd(m, l) + 1 < p => IsHead(m, PhraseEnd(m, l) + 1)

Phrases(m, n, p) ==
    /\ p \in 1 .. n + 1
    /\ \A l \in 1 .. p - 1 : IsHead(m, l) => PhraseLeftOf(m, l, p)
    /\ p # 1 => \E l \in 1 .. p - 1 : IsHead(m, l) /\ PhraseEnd(m, l) = p - 1

Understood ==
    /\ pc = "frame" => ~opened /\ nWord = 0 /\ oldType = TYPE_NULL
    /\ pc \notin {"run", "done"} => result = "none"
    /\ pc = "parse" => Reading
    /\ pc = "skip" => Between
    /\ pc = "check" => Cutting(msg, word, nWord) /\ Phrases(msg, nWord, k)
    /\ pc = "run" => result = "run" /\ Sentence(msg)
    /\ pc = "done" => (result = "run" <=> Sentence(msg))

GInv == Countable(msg) => Understood

\* An error ends the message where it cannot become a sentence.
LEMMA RefusedWell ==
    ASSUME msg' = msg, pc' = "done", result' # "run", ~Sentence(msg)
    PROVE  Understood'
  <1>1. ~Sentence(msg')
    BY Zenon
  <1> QED  BY <1>1, Zenon DEF Understood

-----------------------------------------------------------------------------
(* Separators.                                                             *)

\* Where `parse' stands in a framed message.
LEMMA PlaceFacts ==
    ASSUME Inv, pc \in {"parse", "skip"}
    PROVE  /\ Len(msg) \in Nat /\ End = Len(msg) /\ i \in 1 .. Len(msg) /\ Framed
           /\ nWord = Len(word) /\ word \in Seq(Word) /\ nWord \in Nat
  <1>1. msg \in Seq(STRING) /\ word \in Seq(Word)
    BY TypeParts DEF Inv, TypeRest
  <1>2. Len(msg) \in Nat /\ Len(word) \in Nat
    BY <1>1, LenProperties
  <1> QED  BY <1>1, <1>2 DEF Inv, ParseInv, End

\* skip_separator counts all separators that fit its byte.
LEMMA SkipFacts ==
    ASSUME Inv, InLoop, Countable(msg), NEW skip \in Skip
    PROVE  /\ skip \in Nat /\ i + skip \in 1 .. Len(msg)
           /\ \A q \in i .. i + skip - 1 : Blank(msg, q)
           /\ ~Blank(msg, i + skip)
  <1>0. End = Len(msg) /\ End \in Nat /\ i \in 1 .. End /\ Framed
    BY PlaceFacts DEF InLoop
  <1>1. PICK n \in 0 .. End : Gap(n) /\ skip = n % SkipWidth
    BY DEF Skip
  <1>2. ~Separator(End)
    BY <1>0 DEF Separator, Framed
  <1>3. ~(End \in i .. i + n - 1)
    BY <1>1, <1>2 DEF Gap
  <1>4. i + n <= End /\ n \in Nat
    BY <1>0, <1>1, <1>3
  <1>5. \A q \in i .. i + n - 1 : Blank(msg, q)
    BY <1>1 DEF Gap, Separator, Blank
  <1>6. ~Blank(msg, i + n)
    BY <1>1, <1>4 DEF Gap, Separator, Blank
  <1>7. n < SkipWidth
    <2>0. SkipWidth \in Nat \ {0}
      BY SkipAssumption
    <2>1. SUFFICES ASSUME SkipWidth <= n PROVE FALSE
      BY <1>4, <2>0
    <2>2. i + SkipWidth - 1 <= Len(msg) /\ i \in 1 .. Len(msg)
      BY <1>0, <1>4, <2>0, <2>1
    <2>3. PICK q \in i .. i + SkipWidth - 1 : ~Blank(msg, q)
      BY <2>2, Zenon DEF Countable, Blank
    <2>4. q \in i .. i + n - 1
      BY <1>0, <1>4, <2>0, <2>1
    <2> QED  BY <1>5, <2>3, <2>4
  <1>8. skip = n
    BY <1>1, <1>4, <1>7, SkipAssumption
  <1> QED  BY <1>0, <1>4, <1>5, <1>6, <1>8

\* Without a separator at the cursor it counts none.
LEMMA NothingToSkip ==
    ASSUME Inv, InLoop, ~Blank(msg, i)
    PROVE  Skip = {0}
  <1>0. End = Len(msg) /\ End \in Nat /\ i \in 1 .. End
    BY PlaceFacts DEF InLoop
  <1>1. ~Separator(i)
    BY DEF Separator, Blank
  <1>2. \A n \in 0 .. End : Gap(n) <=> n = 0
    <2>1. ASSUME NEW n \in 0 .. End, n # 0 PROVE ~Gap(n)
      <3>1. i \in i .. i + n - 1
        BY <1>0, <2>1
      <3> QED  BY <1>1, <3>1 DEF Gap
    <2>2. Gap(0)
      <3>1. i + 0 = i /\ ~(\E p \in i .. i + 0 - 1 : TRUE)
        BY <1>0
      <3> QED  BY <1>1, <3>1 DEF Gap
    <2> QED  BY <2>1, <2>2
  <1>3. {m \in 0 .. End : Gap(m)} = {0}
    BY <1>0, <1>2
  <1>4. 0 % SkipWidth = 0
    BY SkipAssumption
  <1> QED  BY <1>3, <1>4 DEF Skip

-----------------------------------------------------------------------------
(* The steps of `parse'.                                                   *)

\* A message without its frame is no sentence; with it, nothing is read yet.
LEMMA FrameUnderstood ==
    ASSUME Inv, Countable(msg), Understood, Frame PROVE Understood'
  <1>1. /\ UNCHANGED <<msg, nWord, word, opened, oldType, k>> /\ pc = "frame"
        /\ ~opened /\ nWord = 0 /\ oldType = TYPE_NULL /\ result = "none"
    BY DEF Frame, Understood
  <1>2. CASE Framed
    <2>1. pc' = "parse" /\ i' = 2 /\ result' = result
      BY <1>2 DEF Frame
    <2>2. Reading'
      BY <1>1, <2>1 DEF Reading
    <2> QED  BY <1>1, <2>1, <2>2 DEF Understood
  <1>3. CASE ~Framed
    <2>1. pc' = "done" /\ result' # "run"
      BY <1>3 DEF Frame, Return
    <2>2. ~Sentence(msg)
      <3>1. SUFFICES ASSUME Sentence(msg) PROVE FALSE
        OBVIOUS
      <3>2. Len(msg) > 2 /\ msg[1] = "s" /\ msg[Len(msg)] = "e"
        BY <3>1, Zenon DEF Sentence
      <3>3. Len(msg) \in Nat
        BY TypeParts, LenProperties DEF Inv, TypeRest
      <3> QED  BY <1>3, <3>2, <3>3 DEF Framed, End
    <2> QED  BY <1>1, <2>1, <2>2, RefusedWell
  <1> QED  BY <1>2, <1>3

\* A word grows by a character that is no separator.
LEMMA ReadOn ==
    ASSUME Inv, Countable(msg), Understood, WordGoesOn PROVE Understood'
  <1>1. /\ UNCHANGED <<msg, pc, nWord, word, opened, oldType, k, result>>
        /\ i' = i + 1 /\ pc = "parse" /\ opened /\ InLoop /\ 0 \in Skip
    BY DEF WordGoesOn, InLoop
  <1>2. i \in Nat /\ ~Blank(msg, i)
    <2>1. i \in Nat /\ i + 0 = i
      BY <1>1, PlaceFacts
    <2> QED  BY <1>1, <2>1, SkipFacts
  <1>3. /\ oldType # TYPE_NULL /\ nWord # 0 /\ Blank(msg, 2)
        /\ Typed(msg, word, nWord) /\ OpenAt(msg, word[nWord], i)
        /\ FirstWords(msg, word, nWord - 1, Begin(word[nWord]))
    BY <1>1, Zenon DEF Understood, Reading
  <1>4. OpenAt(msg, word[nWord], i + 1)
    <2> DEFINE b == Begin(word[nWord])
    <2>1. /\ b \in 3 .. i - 1 /\ word[nWord].length = 0 /\ Blank(msg, b - 1)
          /\ \A q \in b .. i - 1 : ~Blank(msg, q)
      BY <1>3, Zenon DEF OpenAt
    <2> HIDE DEF b
    <2>2. b \in 3 .. (i + 1) - 1
      BY <1>2, <2>1
    <2>3. \A q \in b .. (i + 1) - 1 : q = i \/ q \in b .. i - 1
      BY <1>2, <2>1
    <2>4. \A q \in b .. (i + 1) - 1 : ~Blank(msg, q)
      BY <1>2, <2>1, <2>3
    <2> QED  BY <2>1, <2>2, <2>4, Zenon DEF OpenAt, b
  <1>5. Reading'
    BY <1>1, <1>3, <1>4, Zenon DEF Reading
  <1> QED  BY <1>1, <1>5 DEF Understood

\* A sentence has a separator behind its 's'.
LEMMA NoWordIsRight ==
    ASSUME Inv, Countable(msg), Understood, NoWordOpen PROVE Understood'
  <1>1. /\ msg' = msg /\ pc' = "done" /\ result' # "run"
        /\ pc = "parse" /\ ~opened /\ InLoop /\ 0 \in Skip
    BY DEF NoWordOpen, Return, InLoop, text
  <1>2. i = 2
    BY <1>1 DEF Understood, Reading
  <1>3. ~Blank(msg, 2)
    <2>1. i + 0 = 2
      BY <1>2
    <2> QED  BY <1>1, <2>1, SkipFacts
  <1>4. ~Sentence(msg)
    BY <1>3, Zenon DEF Sentence, Blank
  <1> QED  BY <1>1, <1>4, RefusedWell

\* The separators before the first word.
LEMMA FirstGap ==
    ASSUME Inv, Countable(msg), Understood, CloseWord, oldType = TYPE_NULL
    PROVE  Understood'
  <1>1. /\ UNCHANGED <<msg, nWord, oldType, k, result>> /\ word' = word
        /\ pc = "parse" /\ pc' = "skip" /\ opened' = FALSE /\ InLoop /\ result = "none"
    BY DEF CloseWord, InLoop, Closed, Understood
  <1>2. PICK skip \in Skip : skip # 0 /\ i' = i + skip
    BY DEF CloseWord
  <1>3. nWord = 0 /\ i = 2
    BY <1>1 DEF Understood, Reading
  <1>4. /\ skip \in Nat /\ 2 + skip <= Len(msg) /\ ~Blank(msg, 2 + skip)
        /\ \A q \in 2 .. 2 + skip - 1 : Blank(msg, q)
        /\ Len(msg) \in Nat
    <2>1. /\ skip \in Nat /\ i + skip \in 1 .. Len(msg) /\ ~Blank(msg, i + skip)
          /\ \A q \in i .. i + skip - 1 : Blank(msg, q)
      BY <1>1, <1>2, SkipFacts
    <2> QED  BY <1>1, <1>3, <2>1, PlaceFacts
  <1> DEFINE p == 2 + skip
  <1>5. /\ p \in 3 .. Len(msg) /\ 2 \in 2 .. p - 1 /\ p - 1 \in 2 .. p - 1 /\ p = i'
        /\ p \in Nat
    BY <1>2, <1>3, <1>4
  <1> HIDE DEF p
  <1>6. Blank(msg, 2) /\ Starts(msg, p)
    BY <1>4, <1>5 DEF Starts, p
  <1>7. FirstWords(msg, word, 0, p)
    <2>1. ASSUME NEW s \in Spans(msg), s[1] < p PROVE FALSE
      <3>1. s[1] \in Nat /\ 2 <= s[1] /\ ~Blank(msg, s[1])
        BY <1>4, SpanFacts
      <3>2. s[1] \in 2 .. p - 1
        BY <1>5, <2>1, <3>1
      <3> QED  BY <1>4, <3>1, <3>2 DEF p
    <2>2. \A j \in 1 .. 0 : FALSE
      OBVIOUS
    <2> QED  BY <2>1, <2>2 DEF FirstWords
  <1>8. Typed(msg, word, 0)
    <2>1. \A j \in 1 .. 0 : FALSE
      OBVIOUS
    <2> QED  BY <2>1, Zenon DEF Typed
  <1>9. Between'
    <2>1. i' \in 3 .. Len(msg') /\ msg' = msg /\ word' = word /\ nWord' = 0
          /\ oldType' = TYPE_NULL /\ ~opened' /\ i' = p
      BY <1>1, <1>3, <1>5
    <2> QED  BY <1>6, <1>7, <1>8, <2>1, Zenon DEF Between
  <1> QED  BY <1>1, <1>9 DEF Understood

\* Closing a word moves neither its beginning nor its type.
LEMMA ClosedWords ==
    ASSUME Inv, Understood, pc = "parse", oldType # TYPE_NULL
    PROVE  LET ws == WithLength(word, nWord, LengthHere)
               b == Begin(word[nWord])
           IN /\ nWord \in 1 .. Len(word) /\ ws \in Seq(Word) /\ Len(ws) = Len(word)
              /\ opened /\ Blank(msg, 2) /\ LengthHere \in Nat
              /\ b \in 3 .. i - 1 /\ Blank(msg, b - 1) /\ \A q \in b .. i - 1 : ~Blank(msg, q)
              /\ Typed(msg, word, nWord) /\ Typed(msg, ws, nWord)
              /\ FirstWords(msg, word, nWord - 1, b) /\ FirstWords(msg, ws, nWord - 1, b)
              /\ Begin(ws[nWord]) = b /\ Cut(ws[nWord]) = <<b, i - 1>>
              /\ word[nWord].length = 0
  <1> DEFINE ws == WithLength(word, nWord, LengthHere)
             b == Begin(word[nWord])
  <1>1. nWord \in 1 .. Len(word) /\ word \in Seq(Word) /\ nWord = Len(word) /\ i \in Nat
    BY PlaceFacts DEF Inv, ParseInv
  <1>2. word[nWord].start \in Nat /\ word[nWord].start <= i
    <2>1. word[nWord] \in Word
      BY <1>1, ElementOfSeq
    <2> QED  BY <2>1 DEF Word, Inv, ParseInv
  <1>3. LengthHere \in Nat /\ word[nWord].start + LengthHere = i
    BY <1>1, <1>2 DEF LengthHere
  <1>4. /\ opened /\ Blank(msg, 2) /\ Typed(msg, word, nWord)
        /\ OpenAt(msg, word[nWord], i) /\ FirstWords(msg, word, nWord - 1, b)
    BY DEF Understood, Reading
  <1>5. /\ ws \in Seq(Word) /\ Len(ws) = Len(word)
        /\ \A m \in 1 .. Len(word) :
              /\ ws[m].type = word[m].type /\ ws[m].start = word[m].start
              /\ ws[m].length = IF m = nWord THEN LengthHere ELSE word[m].length
    BY <1>1, <1>3, LengthFacts
  <1> HIDE DEF ws
  <1>6. \A m \in 1 .. Len(word) : Begin(ws[m]) = Begin(word[m])
    BY <1>5, Zenon DEF Begin
  <1>7. /\ \A m \in 1 .. nWord : m \in 1 .. Len(word)
        /\ \A m \in 1 .. nWord - 1 : m \in 1 .. Len(word) /\ m # nWord
        /\ nWord \in Nat
    BY <1>1
  <1>8. \A m \in 1 .. nWord - 1 : Cut(ws[m]) = Cut(word[m])
    BY <1>5, <1>6, <1>7, Zenon DEF Cut
  <1>9. FirstWords(msg, ws, nWord - 1, b)
    BY <1>4, <1>6, <1>7, <1>8, SameWords
  <1>10. Typed(msg, ws, nWord)
    BY <1>4, <1>5, <1>6, <1>7, Zenon DEF Typed
  <1>11. Cut(ws[nWord]) = <<b, i - 1>>
    <2>1. Begin(ws[nWord]) = b
      BY <1>1, <1>6
    <2>2. ws[nWord].start + ws[nWord].length - 1 = i - 1
      BY <1>1, <1>2, <1>3, <1>5
    <2> QED  BY <2>1, <2>2, Zenon DEF Cut
  <1>12. /\ b \in 3 .. i - 1 /\ Blank(msg, b - 1) /\ \A q \in b .. i - 1 : ~Blank(msg, q)
         /\ word[nWord].length = 0
    BY <1>4, Zenon DEF OpenAt
  <1>13. Begin(ws[nWord]) = b
    BY <1>1, <1>6
  <1> HIDE DEF b
  <1> QED  BY <1>1, <1>3, <1>4, <1>5, <1>9, <1>10, <1>11, <1>12, <1>13 DEF ws, b

\* The separators behind a word.
LEMMA NextGap ==
    ASSUME Inv, Countable(msg), Understood, CloseWord, oldType # TYPE_NULL
    PROVE  Understood'
  <1> DEFINE ws == WithLength(word, nWord, LengthHere)
             b == Begin(word[nWord])
  <1>1. /\ UNCHANGED <<msg, nWord, oldType, k, result>> /\ word' = ws
        /\ pc = "parse" /\ pc' = "skip" /\ opened' = FALSE /\ InLoop /\ result = "none"
    BY DEF CloseWord, InLoop, Closed, Understood, WithLength
  <1>2. PICK skip \in Skip : skip # 0 /\ i' = i + skip
    BY DEF CloseWord
  <1>3. /\ nWord \in 1 .. Len(ws) /\ ws \in Seq(Word)
        /\ Blank(msg, 2)
        /\ b \in 3 .. i - 1 /\ Blank(msg, b - 1) /\ \A q \in b .. i - 1 : ~Blank(msg, q)
        /\ Typed(msg, ws, nWord) /\ FirstWords(msg, ws, nWord - 1, b)
        /\ Begin(ws[nWord]) = b /\ Cut(ws[nWord]) = <<b, i - 1>>
    BY <1>1, ClosedWords
  <1>4. /\ skip \in Nat /\ i + skip <= Len(msg) /\ ~Blank(msg, i + skip)
        /\ \A q \in i .. i + skip - 1 : Blank(msg, q)
        /\ Len(msg) \in Nat /\ i \in Nat
    <2>1. /\ skip \in Nat /\ i + skip \in 1 .. Len(msg) /\ ~Blank(msg, i + skip)
          /\ \A q \in i .. i + skip - 1 : Blank(msg, q)
      BY <1>1, <1>2, SkipFacts
    <2> QED  BY <1>1, <2>1, PlaceFacts
  <1> HIDE DEF ws, b
  <1> DEFINE p == i + skip
  <1>5. /\ p \in Int /\ i < p /\ i < Len(msg) /\ p \in 3 .. Len(msg) /\ p - 1 \in i .. p - 1
        /\ b \in Int /\ 3 <= b /\ b < i
    BY <1>2, <1>3, <1>4
  <1>6. ~Blank(msg, p) /\ \A q \in i .. p - 1 : Blank(msg, q)
    BY <1>4
  <1> HIDE DEF p
  <1>7. FirstWords(msg, ws, nWord, p)
    BY <1>3, <1>4, <1>5, <1>6, OneWordMore
  <1>8. Starts(msg, p)
    BY <1>5, <1>6 DEF Starts
  <1>9. Between'
    <2>1. /\ i' = p /\ i' \in 3 .. Len(msg') /\ msg' = msg /\ word' = ws /\ nWord' = nWord
          /\ oldType' # TYPE_NULL /\ nWord' # 0 /\ ~opened'
      BY <1>1, <1>2, <1>3, <1>5 DEF p
    <2> QED  BY <1>3, <1>7, <1>8, <2>1, Zenon DEF Between
  <1> QED  BY <1>1, <1>9 DEF Understood

\* What a '-' alone would stand for is no name.
LEMMA EmptyIsRight ==
    ASSUME Inv, Countable(msg), Understood, CloseEmptyWord PROVE Understood'
  <1> DEFINE b == Begin(word[nWord])
  <1>1. /\ msg' = msg /\ pc' = "done" /\ result' # "run" /\ pc = "parse" /\ InLoop
        /\ oldType # TYPE_NULL /\ LengthHere = 0 /\ Skip # {0}
    BY DEF CloseEmptyWord, Return, InLoop, text
  <1>2. Blank(msg, i)
    BY <1>1, NothingToSkip
  <1>3. /\ nWord \in 1 .. Len(word) /\ b \in 3 .. i - 1 /\ Blank(msg, b - 1)
        /\ \A q \in b .. i - 1 : ~Blank(msg, q)
        /\ Typed(msg, word, nWord) /\ FirstWords(msg, word, nWord - 1, b)
        /\ word[nWord].length = 0
    BY <1>1, ClosedWords
  <1>4. /\ word \in Seq(Word) /\ Len(msg) \in Nat /\ i \in Nat /\ i < Len(msg)
        /\ Len(word) \in Nat
    BY <1>1, PlaceFacts DEF InLoop
  <1>5. word[nWord] \in Word
    BY <1>3, <1>4, ElementOfSeq
  <1>6. word[nWord].start = i
    BY <1>1, <1>4, <1>5 DEF LengthHere, Word
  <1>7. word[nWord].type = TYPE_PARAM /\ b = i - 1
    BY <1>3, <1>4, <1>6 DEF Begin
  <1>8. Cut(word[nWord]) = <<b, i - 1>>
    <2>1. word[nWord].start + word[nWord].length - 1 = i - 1
      BY <1>3, <1>4, <1>6
    <2> QED  BY <2>1, Zenon DEF Cut
  <1> HIDE DEF b
  <1>9. FirstWords(msg, word, nWord, i + 1)
    <2>1. \A q \in i .. (i + 1) - 1 : q = i
      BY <1>4
    <2>2. \A q \in i .. (i + 1) - 1 : Blank(msg, q)
      BY <1>2, <2>1
    <2>3. b \in Int /\ i + 1 \in Int /\ i \in Int /\ 3 <= b /\ b < i /\ i < i + 1
      BY <1>3, <1>4
    <2> QED  BY <1>3, <1>4, <1>8, <2>2, <2>3, OneWordMore DEF b
  <1>10. nWord \in 0 .. Len(word) /\ nWord \in 1 .. nWord /\ i + 1 \in Int
    BY <1>3, <1>4
  <1>11. /\ IsHead(msg, nWord)
         /\ HeadName(msg, nWord) = SubSeq(msg, i, i + 0 - 1)
    BY <1>3, <1>4, <1>6, <1>7, <1>9, <1>10, HeadOfCut
  <1>12. HeadName(msg, nWord) = <<>>
    BY <1>4, <1>11, TypeParts, SubSeqEmpty DEF Inv, TypeRest
  <1>13. nWord \in 1 .. Cardinality(Spans(msg))
    <2>1. nWord <= Cardinality(Spans(msg))
      BY <1>4, <1>9, <1>10, CutsAndMore
    <2> QED  BY <1>3, <1>4, <2>1, SpansFinite
  <1>14. ~Sentence(msg)
    <2>1. SUFFICES ASSUME Sentence(msg) PROVE FALSE
      OBVIOUS
    <2>2. Phrase(msg, nWord)
      BY <1>11, <1>13, <2>1, Zenon DEF Sentence
    <2>3. <<>> \in Names
      BY <1>12, <2>2, Zenon DEF Phrase
    <2> QED  BY <2>3, TableAssumption
  <1> QED  BY <1>1, <1>14, RefusedWell

\* A new word begins at the cursor, and its type is that of its place.
LEMMA NextWord ==
    ASSUME Inv, Understood, OpenWord PROVE Understood'
  <1> DEFINE n == nWord + 1
  <1>1. /\ UNCHANGED <<msg, k, result>> /\ pc = "skip" /\ pc' = "parse" /\ opened' = TRUE
        /\ nWord' = n /\ i' = i + 1 /\ oldType' = GetType
        /\ word' = Append(word, NewWord) /\ result = "none"
    BY DEF OpenWord, AtWord, Understood
  <1>2. /\ oldType = TYPE_NULL <=> nWord = 0
        /\ Blank(msg, 2) /\ i \in 3 .. Len(msg) /\ Starts(msg, i)
        /\ Typed(msg, word, nWord) /\ FirstWords(msg, word, nWord, i)
    BY <1>1 DEF Understood, Between
  <1>3. Len(msg) \in Nat /\ nWord = Len(word) /\ word \in Seq(Word) /\ nWord \in Nat /\ i \in Nat
    BY <1>1, PlaceFacts
  <1>4. GetType \in Types /\ GetType # TYPE_NULL
    BY DEF GetType, Types, TYPE_NULL, TYPE_CMD, TYPE_PARAM, TYPE_ATTRIBUTE
  <1>5. NewWord \in Word
    BY <1>3, <1>4, TableAssumption DEF NewWord, Word
  <1>6. word'[n] = NewWord /\ \A j \in 1 .. nWord : word'[j] = word[j]
    BY <1>1, <1>3, <1>5, AppendFacts
  <1>7. Begin(word'[n]) = i /\ word'[n].length = 0 /\ word'[n].type = GetType
    BY <1>3, <1>6 DEF NewWord, Begin
  <1>8. \A j \in 1 .. nWord :
            /\ Begin(word'[j]) = Begin(word[j]) /\ Cut(word'[j]) = Cut(word[j])
            /\ word'[j].type = word[j].type
    BY <1>6, Zenon
  <1>9. n \in Nat /\ n # 0 /\ n - 1 = nWord /\ \A j \in 1 .. n : j = n \/ j \in 1 .. nWord
    BY <1>3
  <1>10. Typed(msg, word', n)
    <2>1. ASSUME NEW j \in 1 .. nWord
          PROVE  word'[j].type = IF j = 1 THEN TYPE_CMD
                                 ELSE IF msg[Begin(word'[j])] = "-" THEN TYPE_PARAM
                                 ELSE TYPE_ATTRIBUTE
      BY <1>2, <1>8, Zenon DEF Typed
    <2>2. word'[n].type = IF n = 1 THEN TYPE_CMD
                          ELSE IF msg[Begin(word'[n])] = "-" THEN TYPE_PARAM
                          ELSE TYPE_ATTRIBUTE
      <3>1. oldType = TYPE_NULL <=> n = 1
        BY <1>2, <1>3
      <3> QED  BY <1>7, <3>1, Zenon DEF GetType
    <2> HIDE DEF n
    <2> QED  BY <1>9, <2>1, <2>2, Zenon DEF Typed
  <1>11. FirstWords(msg, word', nWord, i)
    BY <1>2, <1>8, SameWords
  <1> HIDE DEF n
  <1>12. OpenAt(msg, word'[n], i + 1)
    <2>1. i \in 3 .. (i + 1) - 1 /\ \A q \in i .. (i + 1) - 1 : q = i
      BY <1>2, <1>3
    <2>2. Blank(msg, i - 1) /\ ~Blank(msg, i)
      BY <1>2, Zenon DEF Starts
    <2>3. \A q \in i .. (i + 1) - 1 : ~Blank(msg, q)
      BY <2>1, <2>2
    <2> QED  BY <1>7, <2>1, <2>2, <2>3, Zenon DEF OpenAt
  <1>13. Reading'
    BY <1>1, <1>2, <1>4, <1>7, <1>9, <1>10, <1>11, <1>12, Zenon DEF Reading
  <1> QED  BY <1>1, <1>13 DEF Understood

\* The array is full, and one more word is in the message.
LEMMA TooManyIsRight ==
    ASSUME Inv, Understood, TooManyWords PROVE Understood'
  <1>1. /\ msg' = msg /\ pc' = "done" /\ result' # "run"
        /\ pc = "skip" /\ i # End /\ nWord >= MaxWord
    BY DEF TooManyWords, AtWord, Return
  <1>2. /\ i \in 3 .. Len(msg) /\ Starts(msg, i) /\ FirstWords(msg, word, nWord, i)
    BY <1>1 DEF Understood, Between
  <1>3. /\ Len(msg) \in Nat /\ nWord = Len(word) /\ word \in Seq(Word) /\ nWord \in Nat
        /\ i \in Nat /\ i < Len(msg)
    BY <1>1, PlaceFacts
  <1> DEFINE count == Cardinality(Spans(msg))
  <1>4. ASSUME Sentence(msg) PROVE FALSE
    <2>1. Blank(msg, Len(msg) - 1) /\ count \in 1 .. MaxWord
      BY <1>4, Zenon DEF Sentence, Blank
    <2>2. Len(msg) - 1 \in Nat /\ i \in 2 .. Len(msg) - 1
      BY <1>2, <1>3
    <2>3. PICK s \in Spans(msg) : s[1] = i
      BY <1>2, <2>1, <2>2, WordBegins
    <2>4. ~(s[1] < i)
      BY <1>3, <2>3
    <2>5. nWord \in 0 .. Len(word) /\ i \in Int
      BY <1>3
    <2>6. nWord <= count /\ nWord # count
      BY <1>2, <1>3, <2>4, <2>5, CutsAndMore
    <2>7. count \in Nat
      BY <1>3, SpansFinite
    <2> HIDE DEF count
    <2> QED  BY <1>1, <1>3, <2>1, <2>6, <2>7, MaxWordAssumption
  <1> QED  BY <1>1, <1>4, RefusedWell

\* A word that reaches the frame.
LEMMA LeftOpenIsRight ==
    ASSUME Inv, Understood, WordLeftOpen PROVE Understood'
  <1> DEFINE b == Begin(word[nWord])
  <1>1. /\ msg' = msg /\ pc' = "done" /\ result' # "run"
        /\ pc \in {"parse", "skip"} /\ i = End /\ opened
    BY DEF WordLeftOpen, AtEnd, Return, text
  <1>2. OpenAt(msg, word[nWord], i)
    BY <1>1 DEF Understood, Reading, Between
  <1>3. b \in 3 .. i - 1 /\ \A q \in b .. i - 1 : ~Blank(msg, q)
    BY <1>2, Zenon DEF OpenAt
  <1>4. i = Len(msg) /\ Len(msg) \in Nat
    BY <1>1, PlaceFacts
  <1> HIDE DEF b
  <1>5. ~Blank(msg, Len(msg) - 1)
    <2>1. Len(msg) - 1 \in b .. i - 1
      BY <1>3, <1>4
    <2> QED  BY <1>3, <2>1
  <1>6. ~Sentence(msg)
    BY <1>5, Zenon DEF Sentence, Blank
  <1> QED  BY <1>1, <1>6, RefusedWell

\* The words are all left of the frame.
LEMMA AllWords ==
    ASSUME NEW m, Len(m) \in Nat, NEW ws \in Seq(Word), NEW n \in 0 .. Len(ws),
           FirstWords(m, ws, n, Len(m))
    PROVE  Cardinality(Spans(m)) = n
  <1>1. \A s \in Spans(m) : s[1] < Len(m)
    <2>1. ASSUME NEW s \in Spans(m) PROVE s[1] < Len(m)
      <3>1. s[1] \in Nat /\ s[2] \in Nat /\ s[1] <= s[2] /\ s[2] < Len(m)
        BY SpanFacts
      <3> QED  BY <3>1
    <2> QED  BY <2>1
  <1> QED  BY <1>1, CutsAndMore

\* A sentence has a command.
LEMMA NoCommandIsRight ==
    ASSUME Inv, Understood, NoCommand PROVE Understood'
  <1>1. /\ msg' = msg /\ pc' = "done" /\ result' # "run"
        /\ pc \in {"parse", "skip"} /\ i = End /\ ~opened /\ nWord = 0
    BY DEF NoCommand, AtEnd, Return, text
  <1>2. /\ i = Len(msg) /\ Len(msg) \in Nat /\ word \in Seq(Word) /\ Len(word) \in Nat
    BY <1>1, PlaceFacts
  <1>3. CASE pc = "parse"
    <2>1. Len(msg) = 2
      BY <1>1, <1>2, <1>3 DEF Understood, Reading
    <2>2. ~Sentence(msg)
      BY <2>1 DEF Sentence
    <2> QED  BY <1>1, <2>2, RefusedWell
  <1>4. CASE pc = "skip"
    <2>1. FirstWords(msg, word, 0, Len(msg))
      BY <1>1, <1>2, <1>4 DEF Understood, Between
    <2>2. Cardinality(Spans(msg)) = 0
      BY <1>2, <2>1, AllWords
    <2>3. ~Sentence(msg)
      <3>1. ~(Cardinality(Spans(msg)) \in 1 .. MaxWord)
        BY <2>2
      <3> QED  BY <3>1, Zenon DEF Sentence
    <2> QED  BY <1>1, <2>3, RefusedWell
  <1> QED  BY <1>1, <1>3, <1>4

\* At the end every word of the message is cut.
LEMMA ParsedRight ==
    ASSUME Inv, Understood, Parsed PROVE Understood'
  <1>1. /\ UNCHANGED <<msg, nWord, word, result>> /\ pc' = "check" /\ k' = 1
        /\ pc \in {"parse", "skip"} /\ i = End /\ ~opened /\ nWord # 0
    BY DEF Parsed, AtEnd, text
  <1>2. pc = "skip"
    BY <1>1 DEF Understood, Reading
  <1>3. /\ i = Len(msg) /\ Len(msg) \in Nat /\ nWord \in Nat /\ nWord = Len(word) /\ Framed
        /\ End = Len(msg)
    BY <1>1, PlaceFacts
  <1>4. /\ Blank(msg, 2) /\ i \in 3 .. Len(msg) /\ Blank(msg, i - 1)
        /\ Typed(msg, word, nWord) /\ FirstWords(msg, word, nWord, i)
    BY <1>2, Zenon DEF Understood, Between, Starts
  <1>5. nWord \in 1 .. MaxWord
    BY <1>1, <1>3, MaxWordAssumption DEF Inv, WordsInArray
  <1>6. msg[1] = "s" /\ msg[Len(msg)] = "e"
    BY <1>3, Zenon DEF Framed
  <1>7. Len(msg) > 2
    BY <1>3, <1>4
  <1>8. Cutting(msg, word, nWord)
    BY <1>3, <1>4, <1>5, <1>6, <1>7, Zenon DEF Cutting
  <1>9. Phrases(msg, nWord, 1)
    <2>1. 1 \in 1 .. nWord + 1 /\ \A l \in 1 .. 1 - 1 : FALSE
      BY <1>3
    <2> QED  BY <2>1, Zenon DEF Phrases
  <1>10. (Cutting(msg, word, nWord) /\ Phrases(msg, nWord, k))'
    BY <1>1, <1>8, <1>9, Zenon
  <1>11. result = "none"
    BY <1>2 DEF Understood
  <1> QED  BY <1>1, <1>10, <1>11 DEF Understood

-----------------------------------------------------------------------------
(* The steps of check_input_word_exist.                                    *)

\* What is known of the words while they are looked up.
LEMMA CheckFacts ==
    ASSUME Inv, Understood, pc = "check"
    PROVE  /\ Len(msg) \in Nat /\ word \in Seq(Word) /\ nWord = Len(word)
           /\ nWord \in 1 .. MaxWord /\ nWord \in Nat /\ Cardinality(Spans(msg)) = nWord
           /\ Cutting(msg, word, nWord) /\ Phrases(msg, nWord, k) /\ k \in 1 .. nWord + 1
           /\ \A l \in 1 .. nWord :
                /\ IsHead(msg, l) <=> word[l].type \in {TYPE_CMD, TYPE_PARAM}
                /\ ~IsHead(msg, l) <=> word[l].type = TYPE_ATTRIBUTE
                /\ IsHead(msg, l) => HeadName(msg, l) = WordText(word[l])
  <1>1. Cutting(msg, word, nWord) /\ Phrases(msg, nWord, k)
    BY DEF Understood
  <1>2. /\ Len(msg) \in Nat /\ word \in Seq(Word) /\ nWord = Len(word) /\ nWord \in Nat
    BY TypeParts, LenProperties, MaxWordAssumption DEF Inv, ParseInv, TypeRest
  <1>3. nWord \in 1 .. MaxWord /\ Typed(msg, word, nWord) /\ FirstWords(msg, word, nWord, Len(msg))
    BY <1>1, Zenon DEF Cutting
  <1>4. nWord \in 0 .. Len(word) /\ Len(msg) \in Int
    BY <1>2
  <1>5. Cardinality(Spans(msg)) = nWord
    BY <1>2, <1>3, <1>4, AllWords
  <1>6. k \in 1 .. nWord + 1
    BY <1>1, Zenon DEF Phrases
  <1>7. ASSUME NEW l \in 1 .. nWord
        PROVE  /\ IsHead(msg, l) <=> word[l].type \in {TYPE_CMD, TYPE_PARAM}
               /\ ~IsHead(msg, l) <=> word[l].type = TYPE_ATTRIBUTE
               /\ IsHead(msg, l) => HeadName(msg, l) = WordText(word[l])
    <2>1. /\ IsHead(msg, l) <=> word[l].type \in {TYPE_CMD, TYPE_PARAM}
          /\ IsHead(msg, l) => HeadName(msg, l) = WordText(word[l])
      BY <1>2, <1>3, <1>4, HeadOfCut DEF WordText
    <2>2. word[l].type \in {TYPE_CMD, TYPE_PARAM, TYPE_ATTRIBUTE}
      BY <1>3, Zenon DEF Typed
    <2>3. TYPE_ATTRIBUTE \notin {TYPE_CMD, TYPE_PARAM}
      BY DEF TYPE_CMD, TYPE_PARAM, TYPE_ATTRIBUTE
    <2> QED  BY <2>1, <2>2, <2>3, Zenon
  <1> QED  BY <1>1, <1>2, <1>3, <1>5, <1>6, <1>7

\* The word the walk comes to begins a phrase, if the message is a sentence.
LEMMA WalkAtHead ==
    ASSUME Inv, Understood, pc = "check", k <= nWord, Sentence(msg)
    PROVE  IsHead(msg, k) /\ Phrase(msg, k)
  <1>1. /\ nWord \in Nat /\ Cardinality(Spans(msg)) = nWord
        /\ Phrases(msg, nWord, k) /\ k \in 1 .. nWord
    BY CheckFacts
  <1>2. \A l \in 1 .. nWord : IsHead(msg, l) => Phrase(msg, l)
    BY <1>1, Zenon DEF Sentence
  <1>3. IsHead(msg, k)
    <2>1. CASE k = 1
      BY <2>1, Zenon DEF IsHead
    <2>2. CASE k # 1
      <3>1. PICK l \in 1 .. k - 1 : IsHead(msg, l) /\ PhraseEnd(msg, l) = k - 1
        BY <1>1, <2>2, Zenon DEF Phrases
      <3>2. l \in 1 .. nWord
        BY <1>1
      <3>3. PhraseEnd(msg, l) < nWord => IsHead(msg, PhraseEnd(msg, l) + 1)
        BY <1>1, <1>2, <3>1, <3>2, Zenon DEF Phrase, PhraseEnd
      <3>4. k - 1 < nWord /\ (k - 1) + 1 = k
        BY <1>1
      <3> QED  BY <3>1, <3>3, <3>4, Zenon
    <2> QED  BY <2>1, <2>2
  <1> QED  BY <1>1, <1>2, <1>3

\* What is refused is no phrase.
LEMMA RefusalIsRight ==
    ASSUME Inv, Understood, CheckWord, ~WordOk PROVE Understood'
  <1>1. msg' = msg /\ pc' = "done" /\ result' # "run" /\ pc = "check" /\ k <= nWord
    BY DEF CheckWord, Return, text
  <1>2. /\ nWord = Len(word) /\ nWord \in Nat /\ Cardinality(Spans(msg)) = nWord
        /\ k \in 1 .. nWord
        /\ \A l \in 1 .. nWord :
              /\ IsHead(msg, l) <=> word[l].type \in {TYPE_CMD, TYPE_PARAM}
              /\ ~IsHead(msg, l) <=> word[l].type = TYPE_ATTRIBUTE
              /\ IsHead(msg, l) => HeadName(msg, l) = WordText(word[l])
    BY <1>1, CheckFacts
  <1>3. ASSUME Sentence(msg) PROVE FALSE
    <2>1. IsHead(msg, k) /\ Phrase(msg, k)
      BY <1>1, <1>3, WalkAtHead
    <2>2. HeadName(msg, k) = WordText(word[k]) /\ word[k].type \in {TYPE_CMD, TYPE_PARAM}
      BY <1>2, <2>1, Zenon
    <2>3. /\ Known /\ k + Count <= nWord
          /\ \A j \in k + 1 .. k + Count : ~IsHead(msg, j)
      BY <1>2, <2>1, <2>2, Zenon DEF Phrase, Known, Count
    <2>4. Count \in Nat
      BY <2>3, TableAssumption DEF Known, Count
    <2>5. EnoughWords(Count)
      BY <1>2, <2>3, <2>4 DEF EnoughWords
    <2>6. ASSUME NEW a \in 1 .. Count PROVE Argument(a)
      <3>1. k + a \in 1 .. nWord /\ k + a \in k + 1 .. k + Count /\ k + a <= Len(word)
        BY <1>2, <2>3, <2>4
      <3>2. word[k + a].type = TYPE_ATTRIBUTE
        BY <1>2, <2>3, <3>1, Zenon
      <3> QED  BY <3>1, <3>2, Zenon DEF Argument, TypeAt
    <2> QED  BY <2>2, <2>3, <2>5, <2>6, Zenon DEF WordOk
  <1> QED  BY <1>1, <1>3, RefusedWell

\* A word is looked up, found, and followed by its attributes: one phrase more.
LEMMA OnePhraseMore ==
    ASSUME NEW m, NEW n \in Nat, NEW p \in 1 .. n, Phrases(m, n, p),
           NEW c \in Nat, p + c <= n, IsHead(m, p), HeadName(m, p) \in Names,
           c = NAttribute[HeadName(m, p)],
           \A j \in p + 1 .. p + c : ~IsHead(m, j)
    PROVE  Phrases(m, n, p + 1 + c)
  <1> DEFINE q == p + 1 + c
  <1>1. q \in 1 .. n + 1 /\ p \in 1 .. q - 1 /\ q - 1 = p + c /\ q \in Nat /\ p < q
    OBVIOUS
  <1>2. PhraseEnd(m, p) = q - 1
    BY <1>1 DEF PhraseEnd
  <1> HIDE DEF q
  <1>3. \A l \in 1 .. p - 1 : IsHead(m, l) => PhraseLeftOf(m, l, p)
    BY Zenon DEF Phrases
  <1>4. ASSUME NEW l \in 1 .. q - 1, IsHead(m, l) PROVE PhraseLeftOf(m, l, q)
    <2>1. CASE l \in 1 .. p - 1
      <3>1. /\ HeadName(m, l) \in Names /\ PhraseEnd(m, l) < p
            /\ \A j \in l + 1 .. PhraseEnd(m, l) : ~IsHead(m, j)
            /\ PhraseEnd(m, l) + 1 < p => IsHead(m, PhraseEnd(m, l) + 1)
        BY <1>3, <1>4, <2>1, Zenon DEF PhraseLeftOf
      <3>2. PhraseEnd(m, l) \in Nat
        <4>1. NAttribute[HeadName(m, l)] \in Nat
          BY <3>1, TableAssumption
        <4> QED  BY <2>1, <4>1 DEF PhraseEnd
      <3>3. PhraseEnd(m, l) < q /\ (PhraseEnd(m, l) + 1 < p \/ PhraseEnd(m, l) + 1 = p)
        BY <1>1, <3>1, <3>2
      <3>4. IsHead(m, PhraseEnd(m, l) + 1)
        BY <3>1, <3>3, Zenon
      <3> QED  BY <3>1, <3>3, <3>4, Zenon DEF PhraseLeftOf
    <2>2. CASE l = p
      <3>1. q - 1 < q /\ ~((q - 1) + 1 < q)
        BY <1>1
      <3>2. \A j \in p + 1 .. q - 1 : ~IsHead(m, j)
        BY <1>1
      <3> QED  BY <1>2, <2>2, <3>1, <3>2, Zenon DEF PhraseLeftOf
    <2>3. CASE l \in p + 1 .. p + c
      BY <1>4, <2>3
    <2>4. l \in 1 .. p - 1 \/ l = p \/ l \in p + 1 .. p + c
      BY <1>1
    <2> QED  BY <2>1, <2>2, <2>3, <2>4
  <1>5. Phrases(m, n, q)
    BY <1>1, <1>2, <1>4, Zenon DEF Phrases
  <1> QED  BY <1>5 DEF q

\* What is accepted is a phrase, and the next word begins another.
LEMMA AcceptedIsPhrase ==
    ASSUME Inv, Understood, CheckWord, WordOk PROVE Understood'
  <1> DEFINE t == WithName(word, k, WordText(word[k]))
  <1>1. /\ UNCHANGED <<msg, nWord, pc, result>> /\ pc = "check" /\ k <= nWord
        /\ word' = t /\ k' = k + 1 + Count /\ result = "none"
    BY DEF CheckWord, text, WithName, Understood
  <1>2. /\ word \in Seq(Word) /\ nWord = Len(word) /\ nWord \in Nat /\ k \in 1 .. nWord
        /\ Cutting(msg, word, nWord) /\ Phrases(msg, nWord, k)
        /\ \A l \in 1 .. nWord :
              /\ IsHead(msg, l) <=> word[l].type \in {TYPE_CMD, TYPE_PARAM}
              /\ ~IsHead(msg, l) <=> word[l].type = TYPE_ATTRIBUTE
              /\ IsHead(msg, l) => HeadName(msg, l) = WordText(word[l])
    BY <1>1, CheckFacts
  <1>3. /\ WordText(word[k]) \in Names /\ Count \in Nat
        /\ \A a \in 1 .. Count : k + a <= nWord /\ word[k + a].type = TYPE_ATTRIBUTE
    BY <1>1, <1>2, ArgumentsAreWords
  <1>4. \A l \in 1 .. nWord :
            t[l].type = word[l].type /\ t[l].start = word[l].start /\ t[l].length = word[l].length
    BY <1>2, <1>3, NameFacts
  <1> HIDE DEF t
  <1>5. \A l \in 1 .. nWord : Begin(t[l]) = Begin(word[l]) /\ Cut(t[l]) = Cut(word[l])
    BY <1>4, Zenon DEF Begin, Cut
  <1>6. Cutting(msg, t, nWord)
    <2>1. /\ Len(msg) > 2 /\ msg[1] = "s" /\ msg[Len(msg)] = "e"
          /\ Blank(msg, 2) /\ Blank(msg, Len(msg) - 1) /\ nWord \in 1 .. MaxWord
          /\ Typed(msg, word, nWord) /\ FirstWords(msg, word, nWord, Len(msg))
      BY <1>2, Zenon DEF Cutting
    <2>2. FirstWords(msg, t, nWord, Len(msg))
      BY <1>5, <2>1, SameWords
    <2>3. Typed(msg, t, nWord)
      BY <1>4, <1>5, <2>1, Zenon DEF Typed
    <2> QED  BY <2>1, <2>2, <2>3, Zenon DEF Cutting
  <1>7. Phrases(msg, nWord, k + 1 + Count)
    <2>1. IsHead(msg, k) /\ HeadName(msg, k) = WordText(word[k])
      BY <1>2, Zenon DEF WordOk
    <2>2. Count = NAttribute[HeadName(msg, k)]
      BY <2>1, Zenon DEF Count
    <2>3. k + Count <= nWord
      <3>1. CASE Count = 0
        BY <1>2, <3>1
      <3>2. CASE Count # 0
        <4>1. Count \in 1 .. Count
          BY <1>3, <3>2
        <4> QED  BY <1>3, <4>1
      <3> QED  BY <3>1, <3>2
    <2>4. ASSUME NEW j \in k + 1 .. k + Count PROVE ~IsHead(msg, j)
      <3>1. j - k \in 1 .. Count /\ k + (j - k) = j /\ j \in 1 .. nWord
        BY <1>2, <1>3, <2>3
      <3>2. word[j].type = TYPE_ATTRIBUTE
        BY <1>3, <3>1
      <3> QED  BY <1>2, <3>1, <3>2
    <2> QED  BY <1>2, <1>3, <2>1, <2>2, <2>3, <2>4, OnePhraseMore
  <1>8. (Cutting(msg, word, nWord) /\ Phrases(msg, nWord, k))'
    BY <1>1, <1>6, <1>7, Zenon
  <1> QED  BY <1>1, <1>8 DEF Understood

\* Every word is looked at: the message is a sentence.
LEMMA CheckedIsSentence ==
    ASSUME Inv, Understood, Checked PROVE Understood'
  <1>1. msg' = msg /\ pc' = "run" /\ result' = "run" /\ pc = "check" /\ k > nWord
    BY DEF Checked, text
  <1>2. /\ nWord \in Nat /\ Cardinality(Spans(msg)) = nWord /\ k \in 1 .. nWord + 1
        /\ nWord \in 1 .. MaxWord
        /\ Cutting(msg, word, nWord) /\ Phrases(msg, nWord, k)
    BY <1>1, CheckFacts
  <1>3. k = nWord + 1 /\ k - 1 = nWord
    BY <1>1, <1>2
  <1>4. ASSUME NEW l \in 1 .. nWord, IsHead(msg, l) PROVE Phrase(msg, l)
    <2>1. PhraseLeftOf(msg, l, nWord + 1)
      BY <1>2, <1>3, <1>4, Zenon DEF Phrases
    <2>2. /\ HeadName(msg, l) \in Names /\ PhraseEnd(msg, l) < nWord + 1
          /\ \A j \in l + 1 .. PhraseEnd(msg, l) : ~IsHead(msg, j)
          /\ PhraseEnd(msg, l) + 1 < nWord + 1 => IsHead(msg, PhraseEnd(msg, l) + 1)
      BY <2>1, Zenon DEF PhraseLeftOf
    <2>3. PhraseEnd(msg, l) \in Nat
      <3>1. NAttribute[HeadName(msg, l)] \in Nat
        BY <2>2, TableAssumption
      <3> QED  BY <3>1 DEF PhraseEnd
    <2>4. /\ PhraseEnd(msg, l) <= nWord
          /\ PhraseEnd(msg, l) < nWord => PhraseEnd(msg, l) + 1 < nWord + 1
      BY <1>2, <2>2, <2>3
    <2>5. PhraseEnd(msg, l) < nWord => IsHead(msg, PhraseEnd(msg, l) + 1)
      BY <2>2, <2>4, Zenon
    <2> QED  BY <1>2, <2>2, <2>4, <2>5, Zenon DEF Phrase, PhraseEnd
  <1>5. /\ Len(msg) > 2 /\ msg[1] = "s" /\ msg[Len(msg)] = "e"
        /\ msg[2] = " " /\ msg[Len(msg) - 1] = " "
    BY <1>2, Zenon DEF Cutting, Blank
  <1>6. Sentence(msg)
    BY <1>2, <1>4, <1>5, Zenon DEF Sentence
  <1>7. Sentence(msg')
    BY <1>1, <1>6, Zenon
  <1> QED  BY <1>1, <1>7, Zenon DEF Understood

\* communication_run does not change its mind.
LEMMA RunUnderstood ==
    ASSUME Understood, RunWord \/ RunWithAttributes \/ RunEnds PROVE Understood'
  <1>1. msg' = msg /\ result' = result /\ pc = "run" /\ pc' \in {"run", "done"}
    BY DEF RunWord, RunWithAttributes, RunEnds, text
  <1>2. result = "run" /\ Sentence(msg)
    BY <1>1 DEF Understood
  <1>3. result' = "run" /\ Sentence(msg')
    BY <1>1, <1>2, Zenon
  <1> QED  BY <1>1, <1>3 DEF Understood

-----------------------------------------------------------------------------

\* Nothing is read before the message came.
LEMMA InitUnderstood == Init => GInv
  BY DEF Init, GInv, Understood

\* Every step of the parser keeps what it knows of the message.
LEMMA StepUnderstood == Inv /\ GInv /\ [Next]_vars => GInv'
  <1> SUFFICES ASSUME Inv, GInv, [Next]_vars PROVE GInv'
    OBVIOUS
  <1>1. CASE UNCHANGED vars
    <2>1. GInv' <=> GInv
      BY <1>1 DEF vars, GInv, Understood, Reading, Between
    <2> QED  BY <2>1
  <1>2. CASE Next
    <2>1. msg' = msg
      BY <1>2 DEF Next, Parse, Frame, WordGoesOn, NoWordOpen, CloseWord, CloseEmptyWord,
                  OpenWord, TooManyWords, WordLeftOpen, NoCommand, Parsed, CheckWord,
                  Checked, RunWord, RunWithAttributes, RunEnds, text
    <2>2. SUFFICES ASSUME Countable(msg) PROVE Understood'
      BY <2>1, Zenon DEF GInv
    <2>3. Understood
      BY <2>2, Zenon DEF GInv
    <2>4. CASE Parse
      BY <2>2, <2>3, <2>4, FrameUnderstood, ReadOn, NoWordIsRight, FirstGap, NextGap,
         EmptyIsRight, NextWord, TooManyIsRight, LeftOpenIsRight, NoCommandIsRight,
         ParsedRight, Zenon
      DEF Parse
    <2>5. CASE CheckWord
      BY <2>3, <2>5, RefusalIsRight, AcceptedIsPhrase
    <2>6. CASE Checked
      BY <2>3, <2>6, CheckedIsSentence
    <2>7. CASE RunWord \/ RunWithAttributes \/ RunEnds
      BY <2>3, <2>7, RunUnderstood
    <2> QED  BY <1>2, <2>4, <2>5, <2>6, <2>7, Zenon DEF Next
  <1> QED  BY <1>1, <1>2

\* Whatever the phone writes, a message has its effect exactly if it is a
\* sentence.
THEOREM GrammarCorrect == Spec => []AcceptsGrammar
  <1>1. Init => Inv /\ GInv
    BY InitInv, InitUnderstood
  <1>2. Inv /\ GInv /\ [Next]_vars => Inv' /\ GInv'
    BY StepInv, StepUnderstood
  <1>3. GInv => AcceptsGrammar
    BY Zenon DEF GInv, Understood, AcceptsGrammar
  <1> QED  BY <1>1, <1>2, <1>3, PTL DEF Spec
=============================================================================
