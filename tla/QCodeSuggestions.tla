-------------------------- MODULE QCodeSuggestions --------------------------
(***************************************************************************)
(* suggest_q_codes: the Q-codes proposed for a narrative.  The keyword     *)
(* tier reads at most one code off the text, by the first phrase of each   *)
(* of two ordered tables that occurs in it as a substring; the lexical and *)
(* the semantic tier give every rule of the catalog a score, of which only *)
(* the range is kept here.  Ranks and similarities are in tenths.          *)
(***************************************************************************)
EXTENDS Naturals, Sequences, FiniteSets

CONSTANTS
  Words,        \* words of narratives
  Within,       \* the phrases of the tables each word contains
  MaxWords,
  Catalog,      \* the codes of the active rules: <<subject, condition>>
  Lexical,      \* lexical scores: words and phrases shared with a rule
  Semantic,     \* similarities above the threshold, and 0
  limit

VARIABLES text, lexical, semantic, results
vars == <<text, lexical, semantic, results>>

-----------------------------------------------------------------------------
\* LOCATION_SUBJECT_RULES and CONDITION_RULES, a phrase of each kind.
Locations == << <<"strip", "MW">>, <<"thr", "MT">>, <<"twy", "MX">>, <<"rwy", "MR">> >>
Conditions_WorkFirst == << <<"wip", "HW">>, <<"clsd", "LC">>, <<"unserviceable", "AS">>,
                           <<"serviceable", "AK">>, <<"caution", "OB">> >>
Conditions == << <<"clsd", "LC">>, <<"unserviceable", "AS">>, <<"serviceable", "AK">>,
                 <<"wip", "HW">>, <<"caution", "OB">> >>
Beside == [MR |-> "MW", MX |-> "MN"]

Phrases == {Locations[i][1] : i \in DOMAIN Locations} \cup {Conditions[i][1] : i \in DOMAIN Conditions}

SuggestionsAssumption ==
  /\ \A w \in Words \cap Phrases : w \in Within[w]
  /\ IsFiniteSet(Catalog)
  /\ 0 \in Lexical /\ Lexical \subseteq 0..11
  /\ 0 \in Semantic /\ Semantic \subseteq {0} \cup 4..10
  /\ limit \in Nat \ {0}

Occurs(phrase, t) == \E w \in t : phrase \in Within[w]

\* The codes of the first entry that occurs: one or none.
FirstOf(table, t) ==
  {table[i][2] : i \in {j \in DOMAIN table :
    Occurs(table[j][1], t) /\ \A k \in 1..(j - 1) : ~ Occurs(table[k][1], t)}}

Adjacent(t) == Occurs("near", t)

Location(t) == {IF Adjacent(t) /\ s \in DOMAIN Beside THEN Beside[s] ELSE s :
                s \in FirstOf(Locations, t)}

Least(a, b) == IF a < b THEN a ELSE b
Most(a, b) == IF a < b THEN b ELSE a

Hit(s, c, n) == [code |-> <<s, c>>, confidence |-> n]

\* Subject and condition; a subject alone, taken for work; a condition alone.
Certainty_Uncapped(t, c) ==
  (IF Adjacent(t) THEN 80 ELSE 88) + (IF Occurs("caution", t) /\ c \in {"HW", "OB"} THEN 4 ELSE 0)
Certainty(t, c) ==
  LET base == IF Adjacent(t) THEN 80 ELSE 88
  IN  IF Occurs("caution", t) /\ c \in {"HW", "OB"} THEN Least(90, base + 4) ELSE base

\* A narrative under four characters is not read.
TooShort(t) == \E w \in {"rwy", "twy", "wip"} : t \subseteq {w}

score_narrative(t) ==
  LET L == Location(t)
      C == FirstOf(Conditions, t)
  IN  IF TooShort(t) THEN {}
      ELSE IF C = {} THEN {Hit(s, "HW", 48) : s \in L}
      ELSE IF L = {} THEN {Hit("FA", c, 42) : c \in C}
      ELSE {Hit(s, c, Certainty(t, c)) : s \in L, c \in C}

keyword_hits(t) == {h \in score_narrative(t) : h.code \in Catalog}

\* n * 75 / d to the nearest integer, a half to the even one.
Of75(n, d) == LET q == (n * 75) \div d
                  r == 2 * ((n * 75) % d)
              IN  IF r > d \/ (r = d /\ q % 2 = 1) THEN q + 1 ELSE q

\* Rank and confidence of a code the keyword tier did not find.
Blend_Uncapped(lex, sem) ==
  IF lex > 0
  THEN [rank |-> 10 * lex + 2 * sem, confidence |->
        Of75(lex, 4) + (IF sem > 5 THEN sem \div 2 ELSE 0)]
  ELSE [rank |-> 2 * sem, confidence |-> Least(65, Most(35, Of75(sem, 10)))]
Blend(lex, sem) ==
  IF lex > 0
  THEN [rank |-> 10 * lex + 2 * sem, confidence |->
        LET base == Least(75, Of75(lex, 4))
        IN  IF sem > 5 THEN Least(78, base + sem \div 2) ELSE base]
  ELSE [rank |-> 2 * sem, confidence |-> Least(65, Most(35, Of75(sem, 10)))]

Candidate_Blended(q, hits, lex, sem) ==
  IF \E h \in hits : h.code = q
  THEN LET h == CHOOSE k \in hits : k.code = q
       IN  [rank |-> h.confidence \div 10 + 2 * lex, confidence |-> h.confidence]
  ELSE Blend(lex, sem)
Candidate(q, hits, lex, sem) ==
  IF \E h \in hits : h.code = q
  THEN LET h == CHOOSE k \in hits : k.code = q
       IN  [rank |-> h.confidence + 2 * lex, confidence |-> h.confidence]
  ELSE Blend(lex, sem)

\* Sorted by rank; codes of equal rank come in the order of a set of strings,
\* which differs from process to process.
Sorted(S, rank) ==
  {r \in [1..Cardinality(S) -> S] :
     /\ \A i, j \in DOMAIN r : i < j => r[i] # r[j] /\ rank[r[i]] >= rank[r[j]]}

suggest_q_codes(t, lex, sem) ==
  LET hits == keyword_hits(t)
      found == {q \in Catalog : lex[q] > 0 \/ sem[q] > 0 \/ \E h \in hits : h.code = q}
      of == [q \in found |-> Candidate(q, hits, lex[q], sem[q])]
  IN  {[i \in 1..Least(limit, Len(r)) |-> [code |-> r[i], confidence |-> of[r[i]].confidence]] :
         r \in Sorted(found, [q \in found |-> of[q].rank])}

-----------------------------------------------------------------------------
NoHits == [q \in Catalog |-> 0]

Narratives == {t \in SUBSET Words : Cardinality(t) <= MaxWords}
InitWith(narratives) ==
  /\ text \in narratives
  /\ lexical = NoHits /\ semantic = NoHits
  /\ results = <<>>
Init == InitWith(Narratives)

\* One request for suggestions; an empty narrative has none.
Suggest ==
  /\ text # {} /\ results = <<>>
  /\ lexical' \in [Catalog -> Lexical]
  /\ semantic' \in [Catalog -> Semantic]
  /\ results' \in suggest_q_codes(text, lexical', semantic')
  /\ UNCHANGED text

Next == Suggest

Spec == Init /\ [][Next]_vars

-----------------------------------------------------------------------------
Confidences == {results[i].confidence : i \in DOMAIN results}
Full == {h \in keyword_hits(text) : h.confidence >= 80}
Answered == results # <<>>

TypeOK ==
  /\ text \subseteq Words
  /\ lexical \in [Catalog -> Lexical] /\ semantic \in [Catalog -> Semantic]
  /\ results \in UNION {[1..n -> [code : Catalog, confidence : 1..100]] : n \in 0..limit}

\* "Confidence is always capped at 90%" (qcode_suggestions).
ConfidenceCapped == \A n \in Confidences : n <= 90

\* "Cap lexical-only confidence below keyword tier": what is proposed without
\* a subject and a condition of the tables is never as sure as what has both,
\* whatever number of words a rule shares with the text.
TiersAreApart == \A i \in DOMAIN results :
  results[i].confidence >= 80 => \E h \in Full : h.code = results[i].code

\* A code read off the text as subject and condition is proposed first,
\* unless another rule shares more than five words with the text.
FullHitFirst == \A h \in Full :
  Answered /\ (\A q \in Catalog : lexical[q] <= 5) => results[1].code = h.code

\* "Primary operational status ... takes precedence over background reasons",
\* and a status is not read out of its opposite, of which it is a part.
StatusIsPrimary == \A h \in score_narrative(text) :
  /\ "clsd" \in text => h.code[2] = "LC"
  /\ "unserviceable" \in text => h.code[2] \notin {"AK", "HW", "OB"}

\* "rank_boost 8-9 beats max lexical (4) + semantic (4)" (narrative.py).
KeywordTierFirst == \A h \in keyword_hits(text) : Answered => results[1].code = h.code

\* "candidates from explicit token matching" (keyword_rules.py): a subject is
\* a word of the text, or one beside it.
SubjectsAreTokens == Answered => \A s \in FirstOf(Locations, text) :
  \E i \in DOMAIN Locations : Locations[i][2] = s /\ Locations[i][1] \in text
=============================================================================
