---------------------------- MODULE CreatorAlignment ----------------------------
(***************************************************************************)
(* align_creators: which predicted creator stands for which expected one,  *)
(* decided greedily from the best pair of names downwards.                 *)
(***************************************************************************)
EXTENDS Integers, Sequences, FiniteSets

CONSTANTS
    Creators,       \* creators of a paper, each with a normalized name
    Names,          \* those names, as norm_name gives them
    Ratio,          \* SequenceMatcher.ratio in hundredths, of two names; it
                    \* need not be symmetric
    Threshold,      \* 80 in the code
    MaxCreators     \* bound: creators on either side

One == 100          \* ratio 1.0

ASSUME AlignmentAssumption ==
    /\ \A c \in Creators : c.name \in Names
    /\ Ratio \in [Names -> [Names -> 0..One]]
    /\ \A m, n \in Names : Ratio[m][n] = One <=> m = n
    /\ Threshold \in 0..One
    /\ MaxCreators \in Nat

VARIABLES
    exp,            \* exp_creators
    pred,           \* pred_creators
    left,           \* candidates the loop has not come to
    used_expected,
    used_predicted,
    matches         \* the pairs taken, with their scores

aligning == <<exp, pred, left, used_expected, used_predicted, matches>>

-----------------------------------------------------------------------------

Candidates ==
    {c \in [score : Threshold..One, e : DOMAIN exp, p : DOMAIN pred] :
        c.score = Ratio[exp[c.e].name][pred[c.p].name]}

\* Mutants of Above: the tie is broken the other way for the prediction; the
\* best prediction of the first author comes first.
AboveCrossed(c, d) ==
    \/ c.score > d.score
    \/ c.score = d.score /\ (c.e > d.e \/ (c.e = d.e /\ c.p < d.p))
AboveByAuthor(c, d) ==
    \/ c.e < d.e
    \/ c.e = d.e /\ (c.score > d.score \/ (c.score = d.score /\ c.p > d.p))

\* The order of sorted(candidates, reverse=True), tuples of score and indices.
Above(c, d) ==
    \/ c.score > d.score
    \/ c.score = d.score /\ (c.e > d.e \/ (c.e = d.e /\ c.p > d.p))

Lists == UNION {[1..n -> Creators] : n \in 0..MaxCreators}

InitAlignment ==
    /\ exp \in Lists
    /\ pred \in Lists
    /\ left = Candidates
    /\ used_expected = {}
    /\ used_predicted = {}
    /\ matches = {}

Free(c) == c.e \notin used_expected /\ c.p \notin used_predicted

Take(c) ==
    IF Free(c)
    THEN /\ used_expected' = used_expected \cup {c.e}
         /\ used_predicted' = used_predicted \cup {c.p}
         /\ matches' = matches \cup {c}
    ELSE UNCHANGED <<used_expected, used_predicted, matches>>

\* One round of the loop: the highest candidate that is left.
NextCandidate ==
    \E c \in left :
        /\ \A d \in left \ {c} : Above(c, d)
        /\ left' = left \ {c}
        /\ Take(c)
        /\ UNCHANGED <<exp, pred>>

Aligned == left = {}

NextAlignment == NextCandidate \/ (Aligned /\ UNCHANGED aligning)

SpecAlignment == InitAlignment /\ [][NextAlignment]_aligning

-----------------------------------------------------------------------------

Pairing(M) ==
    \A m, n \in M : m.e = n.e \/ m.p = n.p => m = n

\* Nobody in M could do better with c.
Stable(M) ==
    \A c \in Candidates : \E m \in M :
        (m.e = c.e \/ m.p = c.p) /\ m.score >= c.score

TypeOK ==
    /\ exp \in Lists /\ pred \in Lists
    /\ left \subseteq Candidates /\ matches \subseteq Candidates
    /\ used_expected = {m.e : m \in matches}
    /\ used_predicted = {m.p : m \in matches}

(***************************************************************************)
(* No expected author is credited with two predictions, and no prediction  *)
(* with two authors, however many namesakes there are.                     *)
(***************************************************************************)
OneToOne == Pairing(matches)

(***************************************************************************)
(* In the end no expected author and prediction with close names are both  *)
(* worse off than with each other: nobody is left out or given a worse     *)
(* match for a candidate the loop passed over.                             *)
(***************************************************************************)
NoBlockingPair == Aligned => Stable(matches)

(***************************************************************************)
(* Unless equally close names compete for somebody, the alignment does not *)
(* depend on the order of either list: it is the only pairing without a    *)
(* blocking pair.                                                          *)
(***************************************************************************)
OrderIrrelevant ==
    Aligned /\ (\A c, d \in Candidates :
                  c.score = d.score /\ (c.e = d.e \/ c.p = d.p) => c = d)
        => \A M \in SUBSET Candidates : Pairing(M) /\ Stable(M) => M = matches

(***************************************************************************)
(* A prediction that repeats the expected list is aligned author by        *)
(* author, also where two authors share a name and only their order tells  *)
(* them apart (the ties of the sort).                                      *)
(***************************************************************************)
NamesakesInOrder ==
    Aligned /\ exp = pred => matches = {c \in Candidates : c.e = c.p}

(***************************************************************************)
(* Greed costs at most half: no pairing of close names is more than twice  *)
(* as large.                                                               *)
(***************************************************************************)
HalfOfBest ==
    Aligned => \A M \in SUBSET Candidates :
        Pairing(M) => Cardinality(M) <= 2 * Cardinality(matches)

=============================================================================
