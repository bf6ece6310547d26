------------------------------- MODULE Evaluators -------------------------------
(***************************************************************************)
(* Evaluator and build_comparison_payload: the scores of one predicted     *)
(* item against what was expected, field by field, with the attributes of  *)
(* creators scored both as one pile and author by author.                  *)
(*                                                                         *)
(* Scores are fractions [num, den].  The title stands for all fields that  *)
(* are compared as text, and a creator has at most one affiliation.        *)
(***************************************************************************)
EXTENDS CreatorAlignment, FiniteSetsExt

CONSTANTS
    Items,          \* records of the single fields, title and doi, each [exp, pred]
    Nil             \* a value that is absent

ASSUME EvaluatorsAssumption ==
    /\ \A c \in Creators :
          c = [name |-> c.name, orcid |-> c.orcid, affiliation |-> c.affiliation]
    /\ \A i \in Items :
          i = [title |-> [exp |-> i.title.exp, pred |-> i.title.pred],
               doi |-> [exp |-> i.doi.exp, pred |-> i.doi.pred]]

VARIABLES
    item,           \* the single fields of this item
    payload         \* what build_comparison_payload returned, Nil until then

vars == <<aligning, item, payload>>

DiagnosticOnly == {"creators_orcid", "creators_affiliation"}

-----------------------------------------------------------------------------

Zero == [num |-> 0, den |-> 1]
Perfect(score) == score.num = score.den

Field(score, present) == [score |-> score, matched |-> Perfect(score), gt_present |-> present]

\* Nothing was expected: right when nothing was predicted.
Absent(predicted) == Field([num |-> IF predicted THEN 0 ELSE 1, den |-> 1], FALSE)

\* 2PR / (P + R), of fractions.
Harmonic(P, R) ==
    IF P.num = 0 \/ R.num = 0 THEN Zero
    ELSE [num |-> 2 * P.num * R.num, den |-> P.num * R.den + R.num * P.den]

\* How much of a predicted value p an expected value e credits, in hundredths:
\* identifiers are equal or not, affiliations and texts at least half alike.
Similarity(attr, p, e) ==
    CASE attr = "name" -> Ratio[p][e]
      [] attr \in {"orcid", "doi"} -> IF p = e THEN One ELSE 0
      [] OTHER -> IF p = e THEN One ELSE IF p = Nil THEN 0 ELSE One \div 2

\* The values of an attribute, as indices of the creators that have one.
Having(creators, attr) == {i \in DOMAIN creators : creators[i][attr] # Nil}

Part(sum, over) == [num |-> sum, den |-> One * over]

\* The sum of worths in hundredths: the hundredths of every value, counted.
Hundredths(worth) == UNION {{x} \X (1..worth[x]) : x \in DOMAIN worth}
Sum(worth) == Cardinality(Hundredths(worth))

\* sym_score: each value is worth its best counterpart, whoever has that.
SymScore(attr) ==
    LET E == Having(exp, attr)
        P == Having(pred, attr)
        s(p, e) == Similarity(attr, pred[p][attr], exp[e][attr])
        bestOfPred == [p \in P |-> Max({s(p, e) : e \in E} \cup {0})]
        bestOfExp == [e \in E |-> Max({s(p, e) : p \in P} \cup {0})]
    IN  IF E = {} THEN Absent(P # {})
        ELSE IF P = {} THEN Field(Zero, TRUE)
        ELSE Field(Harmonic(Part(Sum(bestOfPred), Cardinality(P)),
                            Part(Sum(bestOfExp), Cardinality(E))), TRUE)

\* Mutant of Pairs: authors are compared by their places in the lists.
PairsByPlace(M) == {[e |-> i, p |-> i] : i \in DOMAIN exp \cap DOMAIN pred}

Pairs(M) == {[e |-> m.e, p |-> m.p] : m \in M}

\* Mutant of IndexedScore: an ORCID given to one more author costs nothing.
IndexedScoreOfRecall(attr) ==
    LET E == Having(exp, attr)
        both == {m \in Pairs(matches) : m.e \in E /\ m.p \in Having(pred, attr)}
        worth == [m \in both |-> Similarity(attr, pred[m.p][attr], exp[m.e][attr])]
    IN  IF E = {} THEN Absent(Having(pred, attr) # {})
        ELSE Field(Part(Sum(worth), Cardinality(E)), TRUE)

\* indexed_score: each value is worth what it has in common with that of the
\* creator it is aligned with, nothing if there is none.
IndexedScore(attr) ==
    LET E == Having(exp, attr)
        P == Having(pred, attr)
        both == {m \in Pairs(matches) : m.e \in E /\ m.p \in P}
        worth == [m \in both |-> Similarity(attr, pred[m.p][attr], exp[m.e][attr])]
        sum == Sum(worth)
    IN  IF E = {} THEN Absent(P # {})
        ELSE IF P = {} THEN Field(Zero, TRUE)
        ELSE Field(Harmonic(Part(sum, Cardinality(P)), Part(sum, Cardinality(E))), TRUE)

\* _text_eval and doi_eval.
SingleEval(f) ==
    LET v == item[f]
    IN  IF v.exp = Nil THEN Absent(v.pred # Nil)
        ELSE Field(Part(Similarity(f, v.pred, v.exp), 1), TRUE)

\* Evaluator.evaluate.
Comparison ==
    [title |-> SingleEval("title"),
     doi |-> SingleEval("doi"),
     creators_name |-> SymScore("name"),
     creators_orcid |-> SymScore("orcid"),
     creators_affiliation |-> SymScore("affiliation"),
     creators_affiliation_indexed |-> IndexedScore("affiliation"),
     creators_orcid_indexed |-> IndexedScore("orcid")]

\* Mutant of Headline: every field counts.
HeadlineWithDiagnostics(fields) == DOMAIN fields

Headline(fields) == DOMAIN fields \ DiagnosticOnly

\* The average is kept as the scores it is taken over.
Payload(fields) ==
    LET headline == Headline(fields)
        gt == {f \in headline : fields[f].gt_present}
        scored == IF gt # {} THEN gt ELSE headline
    IN  [averaged |-> [f \in scored |-> fields[f].score],
         mismatch_count |-> Cardinality({f \in gt : ~fields[f].matched}),
         spurious_count |-> Cardinality({f \in headline \ gt : ~Perfect(fields[f].score)}),
         fields |-> fields]

Init ==
    /\ InitAlignment
    /\ item \in Items
    /\ payload = Nil

Align == NextCandidate /\ UNCHANGED <<item, payload>>

Evaluate ==
    /\ Aligned
    /\ payload = Nil
    /\ payload' = Payload(Comparison)
    /\ UNCHANGED <<aligning, item>>

Next == Align \/ Evaluate \/ (payload # Nil /\ UNCHANGED vars)

Spec == Init /\ [][Next]_vars

-----------------------------------------------------------------------------

(***************************************************************************)
(* A prediction that says exactly what is expected scores 1 everywhere,    *)
(* also with authors of one name whose ORCIDs or affiliations differ.      *)
(***************************************************************************)
RepetitionIsPerfect ==
    payload # Nil /\ exp = pred /\ (\A f \in DOMAIN item : item[f].exp = item[f].pred)
        => \A f \in DOMAIN payload.fields : payload.fields[f].matched

(***************************************************************************)
(* "Swapped ORCIDs receive no per-author credit": when no expected author  *)
(* has its ORCID under a name close to its own, nothing is earned, however *)
(* many of the ORCIDs occur elsewhere in the prediction.                   *)
(***************************************************************************)
NoCreditForOthersOrcids ==
    payload # Nil /\ Having(exp, "orcid") # {}
    /\ (\A c \in Candidates : exp[c.e].orcid = Nil \/ exp[c.e].orcid # pred[c.p].orcid)
        => payload.fields.creators_orcid_indexed.score = Zero

(***************************************************************************)
(* "Absent GT cannot improve accuracy and fabricated values are counted":  *)
(* the average is over the fields that have a ground truth, if any has,    *)
(* and spurious_count is the number of fields that were made up, each of   *)
(* them once although creators are scored in two ways.                     *)
(***************************************************************************)
FabricationsCounted ==
    LET expected == {f \in DOMAIN item : item[f].exp # Nil}
                    \cup {a \in {"name", "orcid", "affiliation"} : Having(exp, a) # {}}
        predicted == {f \in DOMAIN item : item[f].pred # Nil}
                    \cup {a \in {"name", "orcid", "affiliation"} : Having(pred, a) # {}}
    IN  payload # Nil =>
            /\ payload.spurious_count = Cardinality(predicted \ expected)
            /\ expected # {} => Cardinality(DOMAIN payload.averaged) = Cardinality(expected)

(***************************************************************************)
(* A report without mismatches and without spurious fields is the truth:   *)
(* everything expected was predicted of the right author and nothing else, *)
(* as long as every author has a name, and no two of a list the same one.  *)
(***************************************************************************)
CleanReportIsTrue ==
    LET distinct(list) == \A i, j \in DOMAIN list :
            list[i].name # Nil /\ (list[i].name = list[j].name => i = j)
    IN  payload # Nil /\ distinct(exp) /\ distinct(pred)
        /\ payload.mismatch_count = 0 /\ payload.spurious_count = 0
        => /\ \A f \in DOMAIN item : item[f].exp = item[f].pred
           /\ {exp[i] : i \in DOMAIN exp} = {pred[i] : i \in DOMAIN pred}

(***************************************************************************)
(* "Missing expected authors reduce the creator score."                    *)
(***************************************************************************)
MissingAuthorCosts ==
    payload # Nil /\ Len(pred) < Len(exp)
        => ~Perfect(payload.fields.creators_name.score)

=============================================================================
