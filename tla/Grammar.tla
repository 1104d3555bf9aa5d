------------------------------- MODULE Grammar -------------------------------
(***************************************************************************)
(* The commands as communication.h lays them out, said of a whole message  *)
(* and without reading it from left to right: "s <name> -<name> <attribute>*)
(* ... e", every word between separators, every name of the table followed *)
(* by just its attributes.  The reference Parser is compared with.         *)
(***************************************************************************)
EXTENDS Parser, FiniteSets

\* The words of m as pairs of their first and last position.
Spans(m) ==
    {s \in (2 .. Len(m) - 1) \X (2 .. Len(m) - 1) :
        /\ s[1] <= s[2] /\ m[s[1] - 1] = " " /\ m[s[2] + 1] = " "
        /\ \A p \in s[1] .. s[2] : m[p] # " "}

\* The n-th word of m from the left.
Span(m, n) ==
    CHOOSE s \in Spans(m) : Cardinality({t \in Spans(m) : t[1] <= s[1]}) = n

\* The command's name, and each word that starts with '-', begins a phrase.
IsHead(m, n) == n = 1 \/ m[Span(m, n)[1]] = "-"

HeadName(m, n) ==
    LET s == Span(m, n)
    IN SubSeq(m, IF n = 1 THEN s[1] ELSE s[1] + 1, s[2])

\* A phrase is a name of the table and as many attributes as it must have.
Phrase(m, n) ==
    /\ HeadName(m, n) \in Names
    /\ LET last == n + NAttribute[HeadName(m, n)]
           count == Cardinality(Spans(m))
       IN /\ last <= count
          /\ \A j \in n + 1 .. last : ~IsHead(m, j)
          /\ last < count => IsHead(m, last + 1)

Sentence(m) ==
    /\ Len(m) > 2 /\ m[1] = "s" /\ m[Len(m)] = "e"
    /\ m[2] = " " /\ m[Len(m) - 1] = " "
    /\ Cardinality(Spans(m)) \in 1 .. MaxWord
    /\ \A n \in 1 .. Cardinality(Spans(m)) : IsHead(m, n) => Phrase(m, n)

\* No stretch of separators is longer than skip_separator can count.
Countable(m) ==
    \A p \in 1 .. Len(m) : p + SkipWidth - 1 <= Len(m) =>
        \E q \in p .. p + SkipWidth - 1 : m[q] # " "

\* A message has its effect exactly if it is a sentence.
AcceptsGrammar == pc = "done" /\ Countable(msg) => (result = "run" <=> Sentence(msg))

\* "Si la fonction renvoie true on est assure d'avoir la bonne synthaxe d'une
\* commande": whatever check_input_word_exist accepts is a sentence.
AcceptedIsSentence == result = "run" => Sentence(msg)
=============================================================================
