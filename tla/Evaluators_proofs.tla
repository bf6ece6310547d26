---------------------------- MODULE Evaluators_proofs ----------------------------
(***************************************************************************)
(* Proofs about the alignment of creators and the scores, for lists of any *)
(* length, any similarity and any threshold.                               *)
(***************************************************************************)
EXTENDS Evaluators, FiniteSetTheorems, WellFoundedInduction, TLAPS

\* What the loop has come to.
Processed == Candidates \ left

\* It works downwards.
Downwards == \A c \in Processed, d \in left : Above(c, d)

\* Whom it passed over is provided for.
ProvidedFor ==
    \A c \in Processed : \E m \in matches :
        (m.e = c.e \/ m.p = c.p) /\ m.score >= c.score

LoopInv ==
    /\ TypeOK
    /\ matches \subseteq Processed
    /\ IsFiniteSet(matches)
    /\ Downwards
    /\ OneToOne
    /\ ProvidedFor

-----------------------------------------------------------------------------

\* Positions are numbers.
LEMMA PositionType ==
    ASSUME NEW list \in Lists
    PROVE  DOMAIN list \subseteq Int /\ \A i \in DOMAIN list : list[i] \in Creators
<1>1. PICK n \in 0..MaxCreators : list \in [1..n -> Creators]
  BY DEF Lists
<1>2. DOMAIN list = 1..n
  BY <1>1
<1>3. 1..n \subseteq Int
  BY AlignmentAssumption
<1>4. QED BY <1>1, <1>2, <1>3

\* A candidate is a score and two positions.
LEMMA CandidateType ==
    ASSUME exp \in Lists, pred \in Lists
    PROVE  \A c \in Candidates :
              /\ c.score \in Int /\ c.e \in Int /\ c.p \in Int
              /\ c.score <= One
              /\ c.e \in DOMAIN exp /\ c.p \in DOMAIN pred
              /\ c = [score |-> c.score, e |-> c.e, p |-> c.p]
              /\ c.score = Ratio[exp[c.e].name][pred[c.p].name]
<1> SUFFICES ASSUME NEW c \in Candidates
             PROVE  /\ c.score \in Int /\ c.e \in Int /\ c.p \in Int
                    /\ c.score <= One
                    /\ c.e \in DOMAIN exp /\ c.p \in DOMAIN pred
                    /\ c = [score |-> c.score, e |-> c.e, p |-> c.p]
                    /\ c.score = Ratio[exp[c.e].name][pred[c.p].name]
  OBVIOUS
<1>1. /\ c \in [score : Threshold..One, e : DOMAIN exp, p : DOMAIN pred]
      /\ c.score = Ratio[exp[c.e].name][pred[c.p].name]
  BY DEF Candidates
<1>2. c.score \in Threshold..One /\ c.e \in DOMAIN exp /\ c.p \in DOMAIN pred
  BY <1>1
<1>3. c.score \in Int /\ c.score <= One
  BY <1>2, AlignmentAssumption DEF One
<1>4. c.e \in Int /\ c.p \in Int
  BY <1>2, PositionType
<1>5. c = [score |-> c.score, e |-> c.e, p |-> c.p]
  BY <1>1
<1>6. QED BY <1>1, <1>2, <1>3, <1>4, <1>5

\* The order of the sort is strict.
LEMMA AboveAsymmetric ==
    ASSUME exp \in Lists, pred \in Lists
    PROVE  \A c, d \in Candidates : Above(c, d) => ~Above(d, c)
<1> SUFFICES ASSUME NEW c \in Candidates, NEW d \in Candidates
             PROVE  Above(c, d) => ~Above(d, c)
  OBVIOUS
<1>1. /\ c.score \in Int /\ c.e \in Int /\ c.p \in Int
      /\ d.score \in Int /\ d.e \in Int /\ d.p \in Int
  BY CandidateType
<1>2. QED BY <1>1 DEF Above

LEMMA InvInit == InitAlignment => LoopInv
<1> SUFFICES ASSUME InitAlignment PROVE LoopInv
  OBVIOUS
<1>1. TypeOK
  BY DEF InitAlignment, TypeOK
<1>2. QED
  BY <1>1, FS_EmptySet DEF InitAlignment, LoopInv, Processed, Downwards, OneToOne, Pairing, ProvidedFor

(***************************************************************************)
(* A round takes the highest candidate c.  If c is free it joins the       *)
(* matches and provides for itself; otherwise a match that was processed   *)
(* before it, and so is not below it, holds one of its places.             *)
(***************************************************************************)
LEMMA InvNext == LoopInv /\ [NextAlignment]_aligning => LoopInv'
<1> SUFFICES ASSUME LoopInv, [NextAlignment]_aligning PROVE LoopInv'
  OBVIOUS
<1> USE DEF LoopInv
<1>1. CASE NextCandidate
  <2>1. PICK c \in left :
           /\ \A d \in left \ {c} : Above(c, d)
           /\ left' = left \ {c}
           /\ Take(c)
           /\ UNCHANGED <<exp, pred>>
    BY <1>1 DEF NextCandidate
  <2>2. exp \in Lists /\ pred \in Lists /\ left \subseteq Candidates /\ c \in Candidates
    BY DEF TypeOK
  <2>3. Candidates' = Candidates
    BY <2>1 DEF Candidates
  <2>4. Processed' = Processed \cup {c}
    BY <2>1, <2>2, <2>3 DEF Processed
  <2>5. Downwards'
    BY <2>1, <2>4 DEF Downwards, Above
  <2>6. CASE Free(c)
    <3>1. /\ used_expected' = used_expected \cup {c.e}
          /\ used_predicted' = used_predicted \cup {c.p}
          /\ matches' = matches \cup {c}
      BY <2>1, <2>6 DEF Take
    <3>2. TypeOK'
      BY <2>1, <2>2, <2>3, <3>1 DEF TypeOK, Lists
    <3>3. OneToOne'
      BY <2>6, <3>1 DEF OneToOne, Pairing, TypeOK, Free
    <3>4. ProvidedFor'
      BY <2>2, <2>4, <3>1, CandidateType DEF ProvidedFor
    <3>5. IsFiniteSet(matches')
      BY <3>1, FS_AddElement
    <3>6. QED BY <2>4, <2>5, <3>1, <3>2, <3>3, <3>4, <3>5
  <2>7. CASE ~Free(c)
    <3>1. UNCHANGED <<used_expected, used_predicted, matches>>
      BY <2>1, <2>7 DEF Take
    <3>2. TypeOK'
      BY <2>1, <2>2, <2>3, <3>1 DEF TypeOK, Lists
    <3>3. PICK m \in matches : m.e = c.e \/ m.p = c.p
      BY <2>7 DEF Free, TypeOK
    <3>4. Above(m, c) /\ m \in Candidates
      BY <3>3 DEF Downwards, Processed
    <3>5. m.score >= c.score
      BY <2>2, <3>4, CandidateType DEF Above
    <3>6. ProvidedFor'
      BY <2>4, <3>1, <3>3, <3>5 DEF ProvidedFor
    <3>7. QED BY <2>4, <2>5, <3>1, <3>2, <3>6 DEF OneToOne, Pairing
  <2>8. QED BY <2>6, <2>7
<1>2. CASE UNCHANGED aligning
  <2>1. TypeOK'
    BY <1>2 DEF aligning, TypeOK, Candidates, Lists
  <2>2. Candidates' = Candidates
    BY <1>2 DEF aligning, Candidates
  <2>3. QED
    BY <1>2, <2>1, <2>2 DEF aligning, Processed, Downwards, Above, OneToOne, Pairing, ProvidedFor
<1>3. QED BY <1>1, <1>2 DEF NextAlignment

\* The loop's invariant: it works downwards, pairs each creator at most once,
\* and provides for everybody it has passed over.
THEOREM LoopInvariant == SpecAlignment => []LoopInv
<1>1. InitAlignment => LoopInv  BY InvInit
<1>2. LoopInv /\ [NextAlignment]_aligning => LoopInv'  BY InvNext
<1>3. QED BY <1>1, <1>2, PTL DEF SpecAlignment

\* The used sets are those of the matches, and every match is a candidate.
THEOREM TypeCorrect == SpecAlignment => []TypeOK
<1>1. LoopInv => TypeOK  BY DEF LoopInv
<1>2. QED BY <1>1, LoopInvariant, PTL

\* No author is matched twice, on either side.
THEOREM MatchedOnce == SpecAlignment => []OneToOne
<1>1. LoopInv => OneToOne  BY DEF LoopInv
<1>2. QED BY <1>1, LoopInvariant, PTL

\* In the end nobody is left out or worse off for a candidate it passed over.
THEOREM AlignmentStable == SpecAlignment => []NoBlockingPair
<1>1. LoopInv => NoBlockingPair
  BY DEF LoopInv, NoBlockingPair, Aligned, Stable, ProvidedFor, Processed
<1>2. QED BY <1>1, LoopInvariant, PTL

-----------------------------------------------------------------------------
(***************************************************************************)
(* A repeated list.  Every author is a perfect candidate for itself, and a *)
(* candidate of two different positions comes after one of those: it is    *)
(* less perfect, or a tie that the sort puts below the later position.     *)
(***************************************************************************)

Itself(i) == [score |-> One, e |-> i, p |-> i]

Diagonal == exp = pred => matches = {c \in Processed : c.e = c.p}

LEMMA ItselfIsCandidate ==
    ASSUME exp \in Lists, exp = pred, NEW i \in DOMAIN exp
    PROVE  Itself(i) \in Candidates
<1>1. exp[i].name \in Names
  BY AlignmentAssumption DEF Lists
<1>2. Ratio[exp[i].name][exp[i].name] = One
  BY <1>1, AlignmentAssumption
<1>3. One \in Threshold..One
  BY AlignmentAssumption DEF One
<1>4. QED BY <1>2, <1>3 DEF Itself, Candidates

LEMMA ItselfIsAbove ==
    ASSUME exp \in Lists, exp = pred, NEW c \in Candidates, c.e # c.p
    PROVE  Above(Itself(c.e), c) \/ Above(Itself(c.p), c)
<1>1. c.score \in Int /\ c.score <= One
  BY AlignmentAssumption DEF Candidates, One
<1>2. c.e \in Int /\ c.p \in Int
  BY CandidateType
<1>3. CASE c.e > c.p
  BY <1>1, <1>2, <1>3 DEF Above, Itself, One
<1>4. CASE c.p > c.e
  BY <1>1, <1>2, <1>4 DEF Above, Itself, One
<1>5. QED BY <1>2, <1>3, <1>4

LEMMA DiagonalNext ==
    ASSUME LoopInv, Diagonal, [NextAlignment]_aligning
    PROVE  Diagonal'
<1> USE DEF LoopInv
<1> SUFFICES ASSUME (exp = pred)' PROVE matches' = {c \in Processed' : c.e = c.p}
  BY DEF Diagonal
<1>1. CASE NextCandidate
  <2>1. PICK c \in left :
           /\ \A d \in left \ {c} : Above(c, d)
           /\ left' = left \ {c}
           /\ Take(c)
           /\ UNCHANGED <<exp, pred>>
    BY <1>1 DEF NextCandidate
  <2>2. exp \in Lists /\ pred \in Lists /\ exp = pred
        /\ left \subseteq Candidates /\ c \in Candidates
    BY <2>1 DEF TypeOK
  <2>3. matches = {d \in Processed : d.e = d.p}
    BY <2>2 DEF Diagonal
  <2>4. Processed' = Processed \cup {c}
    BY <2>1, <2>2 DEF Processed, Candidates
  <2>5. CASE c.e = c.p
    <3>1. \A m \in matches : m.e # c.e /\ m.p # c.p
      <4> SUFFICES ASSUME NEW m \in matches, m.e = c.e \/ m.p = c.p PROVE FALSE
        OBVIOUS
      <4>1. m \in Candidates /\ m \notin left /\ m.e = m.p
        BY <2>3 DEF Processed
      <4>2. m.e = c.e /\ m.p = c.p
        BY <2>5, <4>1
      <4>3. m = c
        BY <2>2, <4>1, <4>2, CandidateType
      <4>4. QED BY <4>1, <4>3
    <3>2. Free(c)
      BY <3>1 DEF Free, TypeOK
    <3>3. matches' = matches \cup {c}
      BY <2>1, <3>2 DEF Take
    <3>4. QED BY <2>3, <2>4, <2>5, <3>3
  <2>6. CASE c.e # c.p
    <3>1. PICK i \in {c.e, c.p} : Above(Itself(i), c)
      BY <2>2, <2>6, ItselfIsAbove
    <3>2. i \in DOMAIN exp
      BY <2>2, CandidateType
    <3>3. Itself(i) \in Candidates
      BY <2>2, <3>2, ItselfIsCandidate
    <3>4. Itself(i) \notin left
      <4>1. ~Above(c, Itself(i))
        BY <2>2, <3>1, <3>3, AboveAsymmetric
      <4>2. Itself(i) # c
        BY <2>6 DEF Itself
      <4>3. QED BY <2>1, <4>1, <4>2
    <3>5. Itself(i) \in matches
      BY <2>3, <3>3, <3>4 DEF Processed, Itself
    <3>6. ~Free(c)
      BY <3>1, <3>5 DEF Free, TypeOK, Itself
    <3>7. matches' = matches
      BY <2>1, <3>6 DEF Take
    <3>8. QED BY <2>3, <2>4, <2>6, <3>7
  <2>7. QED BY <2>5, <2>6
<1>2. CASE UNCHANGED aligning
  BY <1>2 DEF aligning, Diagonal, Processed, Candidates
<1>3. QED BY <1>1, <1>2 DEF NextAlignment

\* A repeated list is aligned author by author, namesakes included.
THEOREM RepetitionAligned == SpecAlignment => []NamesakesInOrder
<1>1. InitAlignment => Diagonal
  BY DEF InitAlignment, Diagonal, Processed
<1>2. LoopInv /\ Diagonal /\ [NextAlignment]_aligning => Diagonal'
  BY DiagonalNext
<1>3. LoopInv /\ Diagonal => NamesakesInOrder
  BY DEF Diagonal, NamesakesInOrder, Aligned, Processed
<1>4. QED BY <1>1, <1>2, <1>3, LoopInvariant, PTL DEF SpecAlignment

-----------------------------------------------------------------------------
(***************************************************************************)
(* Another pairing M without a blocking pair, when no competing candidates *)
(* tie.  On what the loop has come to, it agrees with the matches: were a  *)
(* free candidate c not in M, M would hold a better one in one of its      *)
(* places, which the loop came to before c and took.                       *)
(***************************************************************************)

NoTies == \A c, d \in Candidates : c.score = d.score /\ (c.e = d.e \/ c.p = d.p) => c = d

Agrees(M) == \A c \in Processed : c \in matches <=> c \in M

Agreement ==
    NoTies => \A M \in SUBSET Candidates : Pairing(M) /\ Stable(M) => Agrees(M)

LEMMA AgreementNext ==
    ASSUME LoopInv, Agreement, [NextAlignment]_aligning
    PROVE  Agreement'
<1> USE DEF LoopInv
<1>1. CASE NextCandidate
  <2>1. PICK c \in left :
           /\ \A d \in left \ {c} : Above(c, d)
           /\ left' = left \ {c}
           /\ Take(c)
           /\ UNCHANGED <<exp, pred>>
    BY <1>1 DEF NextCandidate
  <2>2. exp \in Lists /\ pred \in Lists /\ left \subseteq Candidates /\ c \in Candidates
    BY DEF TypeOK
  <2>3. Candidates' = Candidates
    BY <2>1 DEF Candidates
  <2>4. Processed' = Processed \cup {c}
    BY <2>1, <2>2, <2>3 DEF Processed
  <2>5. SUFFICES ASSUME NoTies, NEW M \in SUBSET Candidates, Pairing(M), Stable(M)
                 PROVE  Agrees(M)'
    BY <2>3 DEF Agreement, NoTies, Stable, Pairing
  <2>6. Agrees(M)
    BY <2>5 DEF Agreement
  <2>7. CASE Free(c)
    <3>1. matches' = matches \cup {c}
      BY <2>1, <2>7 DEF Take
    <3>2. c \in M
      <4>1. PICK m \in M : (m.e = c.e \/ m.p = c.p) /\ m.score >= c.score
        BY <2>2, <2>5 DEF Stable
      <4> SUFFICES ASSUME m # c PROVE FALSE
        BY <4>1
      <4>2. m \in Candidates
        OBVIOUS
      <4>3. m.score # c.score
        BY <2>2, <2>5, <4>1, <4>2 DEF NoTies
      <4>4. Above(m, c)
        BY <2>2, <4>1, <4>2, <4>3, CandidateType DEF Above
      <4>5. m \notin left
        BY <2>1, <2>2, <4>2, <4>4, AboveAsymmetric
      <4>6. m \in matches
        BY <2>6, <4>2, <4>5 DEF Agrees, Processed
      <4>7. QED BY <2>7, <4>1, <4>6 DEF Free, TypeOK
    <3>3. QED BY <2>4, <2>6, <3>1, <3>2 DEF Agrees, Processed
  <2>8. CASE ~Free(c)
    <3>1. matches' = matches
      BY <2>1, <2>8 DEF Take
    <3>2. PICK m \in matches : m.e = c.e \/ m.p = c.p
      BY <2>8 DEF Free, TypeOK
    <3>3. m \in M /\ m # c
      BY <2>6, <3>2 DEF Agrees, Processed
    <3>4. c \notin M
      BY <2>5, <3>2, <3>3 DEF Pairing
    <3>5. c \notin matches
      BY DEF Processed
    <3>6. QED BY <2>4, <2>6, <3>1, <3>4, <3>5 DEF Agrees
  <2>9. QED BY <2>7, <2>8
<1>2. CASE UNCHANGED aligning
  <2>1. Candidates' = Candidates /\ Processed' = Processed
    BY <1>2 DEF aligning, Candidates, Processed
  <2>2. QED
    BY <1>2, <2>1 DEF aligning, Agreement, NoTies, Stable, Pairing, Agrees
<1>3. QED BY <1>1, <1>2 DEF NextAlignment

\* Unless equally close names compete, the order of the lists does not matter.
THEOREM OnlyStableAlignment == SpecAlignment => []OrderIrrelevant
<1>1. InitAlignment => Agreement
  BY DEF InitAlignment, Agreement, Agrees, Processed
<1>2. LoopInv /\ Agreement /\ [NextAlignment]_aligning => Agreement'
  BY AgreementNext
<1>3. LoopInv /\ Agreement => OrderIrrelevant
  BY DEF LoopInv, Agreement, Agrees, OrderIrrelevant, Aligned, NoTies, Processed
<1>4. QED BY <1>1, <1>2, <1>3, LoopInvariant, PTL DEF SpecAlignment

-----------------------------------------------------------------------------
(***************************************************************************)
(* Every candidate of another pairing M has a match in its first or in its *)
(* second place; a match and a place belong to one candidate of M only.    *)
(***************************************************************************)

\* In the end no pairing of close names is more than twice as large.
THEOREM GreedHalvesAtMost == SpecAlignment => []HalfOfBest
<1>1. LoopInv => HalfOfBest
  <2> SUFFICES ASSUME LoopInv, Aligned, NEW M \in SUBSET Candidates, Pairing(M)
               PROVE  Cardinality(M) <= 2 * Cardinality(matches)
    BY DEF HalfOfBest
  <2> DEFINE InPlace(c, m, k) == (k = 1 /\ m.e = c.e) \/ (k = 2 /\ m.p = c.p)
             g == [c \in M |-> CHOOSE x \in matches \X {1, 2} : InPlace(c, x[1], x[2])]
  <2>1. \A c \in M : g[c] \in matches \X {1, 2} /\ InPlace(c, g[c][1], g[c][2])
    <3> SUFFICES ASSUME NEW c \in M
                 PROVE  \E x \in matches \X {1, 2} : InPlace(c, x[1], x[2])
      OBVIOUS
    <3>1. PICK m \in matches : m.e = c.e \/ m.p = c.p
      BY DEF LoopInv, ProvidedFor, Processed, Aligned
    <3>2. CASE m.e = c.e
      <4>1. <<m, 1>> \in matches \X {1, 2} /\ InPlace(c, <<m, 1>>[1], <<m, 1>>[2])
        BY <3>2
      <4>2. QED BY <4>1
    <3>3. CASE m.p = c.p
      <4>1. <<m, 2>> \in matches \X {1, 2} /\ InPlace(c, <<m, 2>>[1], <<m, 2>>[2])
        BY <3>3
      <4>2. QED BY <4>1
    <3>4. QED BY <3>1, <3>2, <3>3
  <2>2. \A c, d \in M : g[c] = g[d] => c = d
    <3> SUFFICES ASSUME NEW c \in M, NEW d \in M, g[c] = g[d] PROVE c = d
      OBVIOUS
    <3>1. InPlace(c, g[c][1], g[c][2]) /\ InPlace(d, g[c][1], g[c][2])
      BY <2>1
    <3>2. c.e = d.e \/ c.p = d.p
      BY <3>1
    <3>3. QED BY <3>2 DEF Pairing
  <2>3. g \in Injection(M, matches \X {1, 2})
    <3>1. g \in [M -> matches \X {1, 2}]
      BY <2>1
    <3>2. QED BY <2>2, <3>1 DEF Injection, IsInjective
  <2>4. IsFiniteSet({1, 2}) /\ Cardinality({1, 2}) = 2
    <3>1. IsFiniteSet({1}) /\ Cardinality({1}) = 1
      BY FS_Singleton
    <3>2. IsFiniteSet({1} \cup {2}) /\ Cardinality({1} \cup {2}) = 1 + 1
      BY <3>1, FS_AddElement
    <3>3. {1} \cup {2} = {1, 2}
      OBVIOUS
    <3>4. QED BY <3>2, <3>3
  <2>5. IsFiniteSet(matches)
    BY DEF LoopInv
  <2>6. /\ IsFiniteSet(matches \X {1, 2})
        /\ Cardinality(matches \X {1, 2}) = Cardinality(matches) * 2
    BY <2>4, <2>5, FS_Product
  <2>7. Cardinality(M) <= Cardinality(matches \X {1, 2})
    BY <2>3, <2>6, FS_Injection
  <2>8. Cardinality(matches) \in Nat
    BY <2>5, FS_CardinalityType
  <2>9. QED BY <2>6, <2>7, <2>8
<1>2. QED BY <1>1, LoopInvariant, PTL

-----------------------------------------------------------------------------
(***************************************************************************)
(* The evaluator.  What it returns is the comparison of the two lists as   *)
(* the loop aligned them, and stays that.                                  *)
(***************************************************************************)

EvalInv ==
    /\ LoopInv
    /\ Diagonal
    /\ Agreement
    /\ item \in Items
    /\ payload # Nil => Aligned /\ payload = Payload(Comparison)

\* The comparison depends on the two lists, the matches and the single fields.
LEMMA ComparisonStays ==
    ASSUME UNCHANGED <<exp, pred, matches, item>>
    PROVE  Payload(Comparison)' = Payload(Comparison)
<1>1. Comparison' = Comparison
  BY DEF Comparison, SingleEval, SymScore, IndexedScore, Pairs
<1>2. QED BY <1>1

LEMMA EvalInit == Init => EvalInv
<1> SUFFICES ASSUME Init PROVE EvalInv
  OBVIOUS
<1>1. LoopInv
  BY InvInit DEF Init
<1>2. Diagonal /\ Agreement
  BY DEF Init, InitAlignment, Diagonal, Agreement, Agrees, Processed
<1>3. QED BY <1>1, <1>2 DEF Init, EvalInv

LEMMA EvalNext == EvalInv /\ [Next]_vars => EvalInv'
<1> SUFFICES ASSUME EvalInv, [Next]_vars PROVE EvalInv'
  OBVIOUS
<1> USE DEF EvalInv
<1>1. [NextAlignment]_aligning /\ item' = item
  BY DEF Next, vars, Align, Evaluate, NextAlignment
<1>2. LoopInv' /\ Diagonal' /\ Agreement'
  BY <1>1, InvNext, DiagonalNext, AgreementNext
<1>3. (payload # Nil => Aligned /\ payload = Payload(Comparison))'
  <2>1. CASE Align
    BY <2>1 DEF Align, NextCandidate, Aligned
  <2>2. CASE Evaluate
    <3>1. UNCHANGED <<exp, pred, matches, item>> /\ left' = left
      BY <2>2 DEF Evaluate, aligning
    <3>2. Payload(Comparison)' = Payload(Comparison)
      BY <3>1, ComparisonStays
    <3>3. QED BY <2>2, <3>1, <3>2 DEF Evaluate, Aligned
  <2>3. CASE UNCHANGED vars
    <3>1. UNCHANGED <<exp, pred, matches, item>> /\ left' = left /\ payload' = payload
      BY <2>3 DEF vars, aligning
    <3>2. Payload(Comparison)' = Payload(Comparison)
      BY <3>1, ComparisonStays
    <3>3. QED BY <3>1, <3>2 DEF Aligned
  <2>4. QED BY <2>1, <2>2, <2>3 DEF Next
<1>4. QED BY <1>1, <1>2, <1>3

\* The evaluator's invariant: a report is about lists that are fully aligned.
THEOREM EvalInvariant == Spec => []EvalInv
<1>1. Init => EvalInv  BY EvalInit
<1>2. EvalInv /\ [Next]_vars => EvalInv'  BY EvalNext
<1>3. QED BY <1>1, <1>2, PTL DEF Spec

\* Unless equally close names compete, the order of the lists that are compared
\* does not matter.
THEOREM EvaluatedInAnyOrder == Spec => []OrderIrrelevant
<1>1. EvalInv => OrderIrrelevant
  BY DEF EvalInv, LoopInv, Agreement, Agrees, OrderIrrelevant, Aligned, NoTies, Processed
<1>2. QED BY <1>1, EvalInvariant, PTL

-----------------------------------------------------------------------------
(***************************************************************************)
(* What was made up.  Every headline field is about one attribute of the   *)
(* record; it has a ground truth when that attribute was expected, and     *)
(* without one it is perfect when the attribute was not predicted either.  *)
(***************************************************************************)

About ==
    [f \in {"title", "doi", "creators_name", "creators_orcid_indexed", "creators_affiliation_indexed"} |->
        IF f = "creators_name" THEN "name"
        ELSE IF f = "creators_orcid_indexed" THEN "orcid"
        ELSE IF f = "creators_affiliation_indexed" THEN "affiliation"
        ELSE f]

Expected == {f \in DOMAIN item : item[f].exp # Nil}
            \cup {a \in {"name", "orcid", "affiliation"} : Having(exp, a) # {}}
Predicted == {f \in DOMAIN item : item[f].pred # Nil}
             \cup {a \in {"name", "orcid", "affiliation"} : Having(pred, a) # {}}

LEMMA AboutOneAttribute ==
    /\ About \in [DOMAIN About -> {"title", "doi", "name", "orcid", "affiliation"}]
    /\ \A f, g \in DOMAIN About : About[f] = About[g] => f = g
    /\ \A a \in {"title", "doi", "name", "orcid", "affiliation"} :
          \E f \in DOMAIN About : About[f] = a
    /\ IsFiniteSet(DOMAIN About)
<1>1. DOMAIN About = {"title", "doi", "creators_name", "creators_orcid_indexed", "creators_affiliation_indexed"}
  BY DEF About
<1>2. /\ About["title"] = "title" /\ About["doi"] = "doi" /\ About["creators_name"] = "name"
      /\ About["creators_orcid_indexed"] = "orcid"
      /\ About["creators_affiliation_indexed"] = "affiliation"
  BY DEF About
<1>3. IsFiniteSet(DOMAIN About)
  <2>1. IsFiniteSet({"title"})
    BY FS_Singleton
  <2>2. IsFiniteSet({"title"} \cup {"doi"})
    BY <2>1, FS_AddElement
  <2>3. IsFiniteSet(({"title"} \cup {"doi"}) \cup {"creators_name"})
    BY <2>2, FS_AddElement
  <2>4. IsFiniteSet((({"title"} \cup {"doi"}) \cup {"creators_name"}) \cup {"creators_orcid_indexed"})
    BY <2>3, FS_AddElement
  <2>5. IsFiniteSet(((({"title"} \cup {"doi"}) \cup {"creators_name"}) \cup {"creators_orcid_indexed"})
                    \cup {"creators_affiliation_indexed"})
    BY <2>4, FS_AddElement
  <2>6. DOMAIN About = ((({"title"} \cup {"doi"}) \cup {"creators_name"}) \cup {"creators_orcid_indexed"})
                       \cup {"creators_affiliation_indexed"}
    BY <1>1
  <2>7. QED BY <2>5, <2>6
<1>4. About \in [DOMAIN About -> {"title", "doi", "name", "orcid", "affiliation"}]
  BY DEF About
<1>5. QED BY <1>1, <1>2, <1>3, <1>4

\* Sets of headline fields are as large as the sets of what they are about.
LEMMA AsManyAttributes ==
    ASSUME NEW F \in SUBSET DOMAIN About,
           NEW A \in SUBSET {"title", "doi", "name", "orcid", "affiliation"},
           \A f \in DOMAIN About : f \in F <=> About[f] \in A
    PROVE  Cardinality(F) = Cardinality(A)
<1> DEFINE g == [f \in F |-> About[f]]
<1>1. g \in [F -> A]
  BY AboutOneAttribute
<1>2. \A a \in A : \E f \in F : g[f] = a
  BY AboutOneAttribute
<1>3. \A f, h \in F : g[f] = g[h] => f = h
  BY AboutOneAttribute
<1>4. IsFiniteSet(F)
  BY AboutOneAttribute, FS_Subset
<1> HIDE DEF g
<1>5. g \in Surjection(F, A)
  BY <1>1, <1>2 DEF Surjection
<1>6. g \in Injection(F, A)
  BY <1>1, <1>3 DEF Injection, IsInjective
<1>7. QED BY <1>4, <1>5, <1>6, FS_Surjection

LEMMA SingleFields ==
    ASSUME item \in Items
    PROVE  DOMAIN item = {"title", "doi"}
BY EvaluatorsAssumption

LEMMA FieldsAbout ==
    ASSUME item \in Items, NEW f \in DOMAIN About
    PROVE  /\ Comparison[f].gt_present <=> About[f] \in Expected
           /\ ~Comparison[f].gt_present =>
                 (~Perfect(Comparison[f].score) <=> About[f] \in Predicted)
<1> DEFINE Right(r, expected, predicted) ==
        /\ r.gt_present <=> expected
        /\ ~r.gt_present => (~Perfect(r.score) <=> predicted)
<1>1. \A p \in BOOLEAN : Right(Absent(p), FALSE, p)
  BY DEF Absent, Field, Perfect
<1>2. \A s : Right(Field(s, TRUE), TRUE, TRUE) /\ Right(Field(s, TRUE), TRUE, FALSE)
  BY DEF Field
<1>3. \A a \in {"title", "doi"} : Right(SingleEval(a), item[a].exp # Nil, item[a].pred # Nil)
  BY <1>1, <1>2 DEF SingleEval
<1>4. \A a \in {"name", "orcid", "affiliation"} :
         Right(SymScore(a), Having(exp, a) # {}, Having(pred, a) # {})
  BY <1>1, <1>2 DEF SymScore
<1>5. \A a \in {"name", "orcid", "affiliation"} :
         Right(IndexedScore(a), Having(exp, a) # {}, Having(pred, a) # {})
  BY <1>1, <1>2 DEF IndexedScore
<1>6. f \in {"title", "doi", "creators_name", "creators_orcid_indexed", "creators_affiliation_indexed"}
  BY DEF About
<1>7. DOMAIN item = {"title", "doi"}
  BY SingleFields
<1> HIDE DEF Right
<1>8. Right(Comparison[f], About[f] \in Expected, About[f] \in Predicted)
  <2>1. CASE f \in {"title", "doi"}
    <3>1. About[f] = f /\ Comparison[f] = SingleEval(f)
      BY <2>1 DEF About, Comparison
    <3>2. /\ f \in Expected <=> item[f].exp # Nil
          /\ f \in Predicted <=> item[f].pred # Nil
      BY <2>1, <1>7 DEF Expected, Predicted
    <3>3. QED BY <1>3, <2>1, <3>1, <3>2 DEF Right
  <2>2. CASE f \notin {"title", "doi"}
    <3>1. /\ About[f] \in {"name", "orcid", "affiliation"}
          /\ Comparison[f] = SymScore(About[f]) \/ Comparison[f] = IndexedScore(About[f])
      BY <1>6, <2>2 DEF About, Comparison
    <3>2. /\ About[f] \in Expected <=> Having(exp, About[f]) # {}
          /\ About[f] \in Predicted <=> Having(pred, About[f]) # {}
      BY <1>7, <3>1 DEF Expected, Predicted
    <3>3. QED BY <1>4, <1>5, <3>1, <3>2 DEF Right
  <2>3. QED BY <2>1, <2>2
<1>9. QED BY <1>8 DEF Right

LEMMA HeadlineFields == Headline(Comparison) = DOMAIN About
BY DEF Headline, Comparison, DiagnosticOnly, About

\* What is made up is counted once, and the average is over what was expected.
THEOREM FabricationsAlwaysCounted == Spec => []FabricationsCounted
<1>1. EvalInv => FabricationsCounted
  <2> SUFFICES ASSUME EvalInv, payload # Nil
               PROVE  /\ payload.spurious_count = Cardinality(Predicted \ Expected)
                      /\ Expected # {} =>
                            Cardinality(DOMAIN payload.averaged) = Cardinality(Expected)
    BY DEF FabricationsCounted, Expected, Predicted
  <2> DEFINE gt == {f \in DOMAIN About : Comparison[f].gt_present}
             spurious == {f \in DOMAIN About \ gt : ~Perfect(Comparison[f].score)}
             scored == IF gt # {} THEN gt ELSE DOMAIN About
  <2>1. item \in Items /\ payload = Payload(Comparison)
    BY DEF EvalInv
  <2>2. /\ payload.spurious_count = Cardinality(spurious)
        /\ DOMAIN payload.averaged = scored
    BY <2>1, HeadlineFields DEF Payload
  <2>3. \A f \in DOMAIN About :
           /\ f \in gt <=> About[f] \in Expected
           /\ f \in spurious <=> About[f] \in Predicted \ Expected
    BY <2>1, FieldsAbout
  <2>4. Expected \in SUBSET {"title", "doi", "name", "orcid", "affiliation"}
        /\ Predicted \in SUBSET {"title", "doi", "name", "orcid", "affiliation"}
    BY <2>1, SingleFields DEF Expected, Predicted
  <2>5. gt \in SUBSET DOMAIN About /\ spurious \in SUBSET DOMAIN About
    OBVIOUS
  <2> HIDE DEF gt, spurious
  <2>6. Cardinality(gt) = Cardinality(Expected)
    BY <2>3, <2>4, <2>5, AsManyAttributes
  <2>7. Cardinality(spurious) = Cardinality(Predicted \ Expected)
    BY <2>3, <2>4, <2>5, AsManyAttributes
  <2>8. Expected # {} => gt # {}
    BY <2>3, <2>4, AboutOneAttribute
  <2>9. QED BY <2>2, <2>6, <2>7, <2>8
<1>2. QED BY <1>1, EvalInvariant, PTL

-----------------------------------------------------------------------------
(***************************************************************************)
(* Sums and means of worths.                                               *)
(***************************************************************************)

LEMMA HundredthOf ==
    ASSUME NEW f, NEW x, NEW k
    PROVE  <<x, k>> \in Hundredths(f) <=> x \in DOMAIN f /\ k \in 1..f[x]
BY DEF Hundredths

\* A sum is at most a full worth of each, and that only if each is a full one.
LEMMA SumBounded ==
    ASSUME NEW S, IsFiniteSet(S), NEW f \in [S -> 0..One]
    PROVE  /\ Sum(f) \in Nat
           /\ Sum(f) <= One * Cardinality(S)
           /\ Sum(f) = One * Cardinality(S) <=> \A x \in S : f[x] = One
<1>1. One \in Int /\ 1 \in Int /\ One = 100
  BY DEF One
<1>2. IsFiniteSet(1..One) /\ Cardinality(1..One) = One
  <2>1. IsFiniteSet(1..One) /\ Cardinality(1..One) = IF 1 > One THEN 0 ELSE One - 1 + 1
    BY <1>1, FS_Interval, Zenon
  <2>2. QED BY <1>1, <2>1
<1>3. Cardinality(S) \in Nat
  BY FS_CardinalityType
<1>4. /\ IsFiniteSet(S \X (1..One))
      /\ Cardinality(S \X (1..One)) = Cardinality(S) * Cardinality(1..One)
  BY <1>2, FS_Product
<1>5. Cardinality(S \X (1..One)) = One * Cardinality(S)
  BY <1>1, <1>2, <1>3, <1>4
<1>6. Hundredths(f) \in SUBSET (S \X (1..One))
  <2>1. \A x \in S : 1..f[x] \subseteq 1..One
    BY <1>1
  <2>2. DOMAIN f = S
    OBVIOUS
  <2>3. QED BY <2>1, <2>2 DEF Hundredths
<1>7. /\ Cardinality(Hundredths(f)) <= Cardinality(S \X (1..One))
      /\ IsFiniteSet(Hundredths(f))
      /\ Cardinality(S \X (1..One)) = Cardinality(Hundredths(f)) => S \X (1..One) = Hundredths(f)
  BY <1>4, <1>6, FS_Subset
<1>8. Cardinality(Hundredths(f)) \in Nat
  BY <1>7, FS_CardinalityType
<1>9. ASSUME S \X (1..One) = Hundredths(f), NEW x \in S PROVE f[x] = One
  <2>1. <<x, One>> \in S \X (1..One)
    BY <1>1
  <2>2. One \in 1..f[x]
    BY <1>9, <2>1, HundredthOf
  <2>3. QED BY <1>1, <2>2
<1>10. ASSUME \A x \in S : f[x] = One PROVE S \X (1..One) = Hundredths(f)
  <2>1. \A x \in S : {x} \X (1..f[x]) = {x} \X (1..One)
    BY <1>10
  <2>2. DOMAIN f = S
    OBVIOUS
  <2>3. Hundredths(f) = UNION {{x} \X (1..One) : x \in S}
    BY <2>1, <2>2, Zenon DEF Hundredths
  <2>4. QED BY <2>3
<1>11. QED BY <1>5, <1>7, <1>8, <1>9, <1>10 DEF Sum

LEMMA SumOfNothing ==
    ASSUME NEW f, \A x \in DOMAIN f : f[x] = 0
    PROVE  Sum(f) = 0
<1>1. \A x \in DOMAIN f : 1..f[x] = {}
  <2>1. 1..0 = {}
    OBVIOUS
  <2>2. QED BY <2>1
<1>2. Hundredths(f) = {}
  BY <1>1 DEF Hundredths
<1>3. QED BY <1>2, FS_EmptySet DEF Sum

\* A mean of means is perfect only if both are.
LEMMA HarmonicPerfect ==
    ASSUME NEW p \in Nat, NEW r \in Nat, NEW m \in Nat \ {0}, NEW n \in Nat \ {0},
           p <= One * m, r <= One * n
    PROVE  Perfect(Harmonic(Part(p, m), Part(r, n))) <=> p = One * m /\ r = One * n
<1> DEFINE M == One * m
           N == One * n
<1>1. M \in Nat \ {0} /\ N \in Nat \ {0} /\ p <= M /\ r <= N
  BY DEF One
<1> HIDE DEF M, N
<1>2. Harmonic(Part(p, m), Part(r, n)) =
         IF p = 0 \/ r = 0 THEN Zero ELSE [num |-> 2 * p * r, den |-> p * N + r * M]
  BY DEF Harmonic, Part, M, N
<1>3. CASE p = 0 \/ r = 0
  <2>1. ~Perfect(Harmonic(Part(p, m), Part(r, n)))
    BY <1>2, <1>3 DEF Perfect, Zero
  <2>2. p # M \/ r # N
    BY <1>1, <1>3
  <2>3. QED BY <2>1, <2>2 DEF M, N
<1>4. CASE p # 0 /\ r # 0
  <2>1. Perfect(Harmonic(Part(p, m), Part(r, n))) <=> 2 * p * r = p * N + r * M
    BY <1>2, <1>4 DEF Perfect
  <2>2. p * N \in Nat /\ r * M \in Nat /\ p * r \in Nat /\ r * p = p * r
        /\ 2 * p * r = p * r + p * r
    BY <1>1
  <2>3. p * r <= p * N /\ r * p <= r * M
    BY <1>1
  <2>4. p * r = p * N => r = N
    BY <1>1, <1>4
  <2>5. r * p = r * M => p = M
    BY <1>1, <1>4
  <2>6. 2 * p * r = p * N + r * M <=> p = M /\ r = N
    BY <2>2, <2>3, <2>4, <2>5
  <2>7. QED BY <2>1, <2>6 DEF M, N
<1>5. QED BY <1>3, <1>4

\* The authors that have an attribute are some of the positions of the list.
LEMMA HavingFinite ==
    ASSUME NEW list \in Lists, NEW a
    PROVE  /\ Having(list, a) \subseteq DOMAIN list
           /\ IsFiniteSet(DOMAIN list)
           /\ IsFiniteSet(Having(list, a))
           /\ Having(list, a) # {} => Cardinality(Having(list, a)) \in Nat \ {0}
<1>1. PICK n \in 0..MaxCreators : list \in [1..n -> Creators]
  BY DEF Lists
<1>2. n \in Int /\ 1 \in Int
  BY <1>1, AlignmentAssumption
<1>3. IsFiniteSet(1..n)
  BY <1>2, FS_Interval
<1>4. IsFiniteSet(DOMAIN list)
  BY <1>1, <1>3
<1>5. Having(list, a) \in SUBSET DOMAIN list
  BY DEF Having
<1>6. IsFiniteSet(Having(list, a))
  BY <1>4, <1>5, FS_Subset
<1>7. Cardinality(Having(list, a)) \in Nat
  BY <1>6, FS_CardinalityType
<1>8. QED BY <1>4, <1>5, <1>6, <1>7, FS_EmptySet

-----------------------------------------------------------------------------

\* Swapped ORCIDs receive no credit author by author.
THEOREM NeverCreditForOthersOrcids == Spec => []NoCreditForOthersOrcids
<1>1. EvalInv => NoCreditForOthersOrcids
  <2> SUFFICES ASSUME EvalInv, payload # Nil, Having(exp, "orcid") # {},
                      \A c \in Candidates : exp[c.e].orcid = Nil \/ exp[c.e].orcid # pred[c.p].orcid
               PROVE  payload.fields.creators_orcid_indexed.score = Zero
    BY DEF NoCreditForOthersOrcids
  <2> DEFINE both == {m \in Pairs(matches) : m.e \in Having(exp, "orcid") /\ m.p \in Having(pred, "orcid")}
             worth == [m \in both |-> Similarity("orcid", pred[m.p]["orcid"], exp[m.e]["orcid"])]
  <2>1. payload.fields.creators_orcid_indexed = IndexedScore("orcid")
    BY DEF EvalInv, Payload, Comparison
  <2>2. \A m \in both : worth[m] = 0
    <3> SUFFICES ASSUME NEW m \in both PROVE worth[m] = 0
      OBVIOUS
    <3>1. PICK c \in matches : m = [e |-> c.e, p |-> c.p]
      BY DEF Pairs
    <3>2. c \in Candidates
      BY <3>1 DEF EvalInv, LoopInv, TypeOK
    <3>3. exp[m.e]["orcid"] # Nil
      BY DEF Having
    <3>4. pred[m.p]["orcid"] # exp[m.e]["orcid"]
      BY <3>1, <3>2, <3>3
    <3>5. QED BY <3>4 DEF Similarity
  <2>3. DOMAIN worth = both
    OBVIOUS
  <2> HIDE DEF worth
  <2>4. Sum(worth) = 0
    BY <2>2, <2>3, SumOfNothing
  <2>5. \A n : Harmonic(Part(0, n), Part(0, Cardinality(Having(exp, "orcid")))) = Zero
    BY DEF Harmonic, Part
  <2>6. IndexedScore("orcid").score = Zero
    BY <2>4, <2>5 DEF IndexedScore, Field, worth
  <2>7. QED BY <2>1, <2>6
<1>2. QED BY <1>1, EvalInvariant, PTL

-----------------------------------------------------------------------------
(***************************************************************************)
(* Which scores are perfect: of a pile, when both sides hold the same      *)
(* values; author by author, when each value is that of the match.         *)
(***************************************************************************)

Attributes == {"name", "orcid", "affiliation"}

LEMMA SimilarityOfCreators ==
    ASSUME NEW a \in Attributes, NEW c \in Creators, NEW d \in Creators
    PROVE  /\ Similarity(a, c[a], d[a]) \in 0..One
           /\ Similarity(a, c[a], d[a]) = One <=> c[a] = d[a]
<1>1. One = 100 /\ One \div 2 = 50
  BY DEF One
<1>2. CASE a = "name"
  <2>1. c.name \in Names /\ d.name \in Names
    BY AlignmentAssumption
  <2>2. Similarity(a, c[a], d[a]) = Ratio[c.name][d.name]
    BY <1>2 DEF Similarity
  <2>3. QED BY <1>2, <2>1, <2>2, AlignmentAssumption
<1>3. CASE a = "orcid"
  BY <1>1, <1>3 DEF Similarity
<1>4. CASE a = "affiliation"
  BY <1>1, <1>4 DEF Similarity
<1>5. QED BY <1>2, <1>3, <1>4 DEF Attributes

\* The greatest of some worths is one of them.
LEMMA MaxOfWorths ==
    ASSUME NEW S \in SUBSET (0..One), 0 \in S
    PROVE  Max(S) \in S /\ \A y \in S : Max(S) >= y
<1> SUFFICES \E x \in S : \A y \in S : x >= y
  BY DEF Max
<1> DEFINE T == {U \in SUBSET (0..One) : \E k \in 0..One : U = 0..k /\ S \subseteq U}
<1>1. One \in Int /\ 0 \in Int /\ One = 100
  BY DEF One
<1>2. IsFiniteSet(0..One)
  BY <1>1, FS_Interval, Zenon
<1>3. FiniteSubsetsOf(0..One) = SUBSET (0..One)
  BY <1>2, FS_FiniteSubsetsOfFinite
<1>4. 0..One \in T
  <2>1. One \in 0..One /\ S \subseteq 0..One
    BY <1>1
  <2>2. QED BY <2>1
<1>5. T \subseteq FiniteSubsetsOf(0..One) /\ T # {}
  BY <1>3, <1>4
<1>6. IsWellFoundedOn(StrictSubsetOrdering(0..One), FiniteSubsetsOf(0..One))
  BY FS_StrictSubsetOrderingWellFounded
<1> HIDE DEF T
<1>7. PICK U \in T : \A V \in T : <<V, U>> \notin StrictSubsetOrdering(0..One)
  BY <1>5, <1>6, WFMin
<1>8. PICK k \in 0..One : U = 0..k /\ S \subseteq U
  BY <1>7 DEF T
<1>9. k \in S
  <2> SUFFICES ASSUME k \notin S PROVE FALSE
    OBVIOUS
  <2>1. k - 1 \in 0..One /\ k \in 0..k /\ k \notin 0..(k - 1) /\ 0..(k - 1) \subseteq 0..k
        /\ 0..k \subseteq 0..One
    BY <1>1
  <2>2. S \subseteq 0..(k - 1)
    BY <1>8
  <2>3. 0..(k - 1) \in T
    BY <2>1, <2>2 DEF T
  <2>4. <<0..(k - 1), U>> \in StrictSubsetOrdering(0..One)
    BY <1>8, <2>1 DEF StrictSubsetOrdering
  <2>5. QED BY <1>7, <2>3, <2>4
<1>10. QED BY <1>8, <1>9

BestOfPred(a) ==
    [p \in Having(pred, a) |->
        Max({Similarity(a, pred[p][a], exp[e][a]) : e \in Having(exp, a)} \cup {0})]
BestOfExp(a) ==
    [e \in Having(exp, a) |->
        Max({Similarity(a, pred[p][a], exp[e][a]) : p \in Having(pred, a)} \cup {0})]

LEMMA BestAreWorths ==
    ASSUME exp \in Lists, pred \in Lists, NEW a \in Attributes
    PROVE  /\ BestOfPred(a) \in [Having(pred, a) -> 0..One]
           /\ BestOfExp(a) \in [Having(exp, a) -> 0..One]
           /\ \A p \in Having(pred, a) :
                 BestOfPred(a)[p] = One <=> \E e \in Having(exp, a) : pred[p][a] = exp[e][a]
           /\ \A e \in Having(exp, a) :
                 BestOfExp(a)[e] = One <=> \E p \in Having(pred, a) : pred[p][a] = exp[e][a]
<1> DEFINE E == Having(exp, a)
           P == Having(pred, a)
           s(p, e) == Similarity(a, pred[p][a], exp[e][a])
<1>1. \A p \in P, e \in E : s(p, e) \in 0..One /\ (s(p, e) = One <=> pred[p][a] = exp[e][a])
  <2> SUFFICES ASSUME NEW p \in P, NEW e \in E
               PROVE  s(p, e) \in 0..One /\ (s(p, e) = One <=> pred[p][a] = exp[e][a])
    OBVIOUS
  <2>1. pred[p] \in Creators /\ exp[e] \in Creators
    BY PositionType DEF Having
  <2>2. QED BY <2>1, SimilarityOfCreators
<1>2. 0 \in 0..One /\ One # 0 /\ One = 100
  BY DEF One
<1> HIDE DEF s, E, P
<1>3. ASSUME NEW p \in P
      PROVE  /\ Max({s(p, e) : e \in E} \cup {0}) \in 0..One
             /\ Max({s(p, e) : e \in E} \cup {0}) = One <=> \E e \in E : pred[p][a] = exp[e][a]
  <2> DEFINE S == {s(p, e) : e \in E} \cup {0}
  <2>1. S \in SUBSET (0..One) /\ 0 \in S
    BY <1>1, <1>2, <1>3
  <2>2. One \in S <=> \E e \in E : pred[p][a] = exp[e][a]
    BY <1>1, <1>2, <1>3
  <2> HIDE DEF S
  <2>3. Max(S) \in S /\ \A y \in S : Max(S) >= y
    BY <2>1, MaxOfWorths
  <2>4. Max(S) = One <=> One \in S
    <3>1. Max(S) \in 0..One
      BY <2>1, <2>3
    <3>2. One \in S => Max(S) >= One
      BY <2>3
    <3>3. QED BY <1>2, <2>3, <3>1, <3>2
  <2>5. QED BY <2>1, <2>2, <2>3, <2>4 DEF S
<1>4. ASSUME NEW e \in E
      PROVE  /\ Max({s(p, e) : p \in P} \cup {0}) \in 0..One
             /\ Max({s(p, e) : p \in P} \cup {0}) = One <=> \E p \in P : pred[p][a] = exp[e][a]
  <2> DEFINE S == {s(p, e) : p \in P} \cup {0}
  <2>1. S \in SUBSET (0..One) /\ 0 \in S
    BY <1>1, <1>2, <1>4
  <2>2. One \in S <=> \E p \in P : pred[p][a] = exp[e][a]
    BY <1>1, <1>2, <1>4
  <2> HIDE DEF S
  <2>3. Max(S) \in S /\ \A y \in S : Max(S) >= y
    BY <2>1, MaxOfWorths
  <2>4. Max(S) = One <=> One \in S
    <3>1. Max(S) \in 0..One
      BY <2>1, <2>3
    <3>2. One \in S => Max(S) >= One
      BY <2>3
    <3>3. QED BY <1>2, <2>3, <3>1, <3>2
  <2>5. QED BY <2>1, <2>2, <2>3, <2>4 DEF S
<1>5. /\ BestOfPred(a) = [p \in P |-> Max({s(p, e) : e \in E} \cup {0})]
      /\ BestOfExp(a) = [e \in E |-> Max({s(p, e) : p \in P} \cup {0})]
  BY DEF BestOfPred, BestOfExp, s, E, P
<1>6. QED BY <1>3, <1>4, <1>5 DEF E, P

\* A pile is perfect when the same values were predicted as expected.
LEMMA SymPerfect ==
    ASSUME exp \in Lists, pred \in Lists, NEW a \in Attributes
    PROVE  Perfect(SymScore(a).score) <=>
              /\ \A p \in Having(pred, a) : \E e \in Having(exp, a) : pred[p][a] = exp[e][a]
              /\ \A e \in Having(exp, a) : \E p \in Having(pred, a) : pred[p][a] = exp[e][a]
<1> DEFINE E == Having(exp, a)
           P == Having(pred, a)
<1>1. CASE E = {}
  BY <1>1 DEF SymScore, Absent, Field, Perfect
<1>2. CASE E # {} /\ P = {}
  <2>1. SymScore(a).score = Zero
    BY <1>2 DEF SymScore, Field
  <2>2. QED BY <1>2, <2>1 DEF Perfect, Zero
<1>3. CASE E # {} /\ P # {}
  <2>1. SymScore(a).score = Harmonic(Part(Sum(BestOfPred(a)), Cardinality(P)),
                                     Part(Sum(BestOfExp(a)), Cardinality(E)))
    BY <1>3 DEF SymScore, Field, BestOfPred, BestOfExp
  <2>2. /\ IsFiniteSet(P) /\ Cardinality(P) \in Nat \ {0}
        /\ IsFiniteSet(E) /\ Cardinality(E) \in Nat \ {0}
    BY <1>3, HavingFinite
  <2>3. /\ BestOfPred(a) \in [P -> 0..One]
        /\ BestOfExp(a) \in [E -> 0..One]
    BY BestAreWorths
  <2>4. /\ Sum(BestOfPred(a)) \in Nat
        /\ Sum(BestOfPred(a)) <= One * Cardinality(P)
        /\ Sum(BestOfPred(a)) = One * Cardinality(P) <=> \A p \in P : BestOfPred(a)[p] = One
    BY <2>2, <2>3, SumBounded
  <2>5. /\ Sum(BestOfExp(a)) \in Nat
        /\ Sum(BestOfExp(a)) <= One * Cardinality(E)
        /\ Sum(BestOfExp(a)) = One * Cardinality(E) <=> \A e \in E : BestOfExp(a)[e] = One
    BY <2>2, <2>3, SumBounded
  <2>6. Perfect(SymScore(a).score) <=>
           /\ \A p \in P : BestOfPred(a)[p] = One
           /\ \A e \in E : BestOfExp(a)[e] = One
    BY <2>1, <2>2, <2>4, <2>5, HarmonicPerfect
  <2>7. QED BY <2>6, BestAreWorths
<1>4. QED BY <1>1, <1>2, <1>3

Both(a) == {m \in Pairs(matches) : m.e \in Having(exp, a) /\ m.p \in Having(pred, a)}
Worth(a) == [m \in Both(a) |-> Similarity(a, pred[m.p][a], exp[m.e][a])]

\* The two authors of a match both have the attribute, with the same value.
SameAsMatch(a, m) ==
    m.e \in Having(exp, a) /\ m.p \in Having(pred, a) /\ pred[m.p][a] = exp[m.e][a]

\* Every author with the attribute is in a pair once at most.
LEMMA BothPaired ==
    ASSUME exp \in Lists, pred \in Lists, matches \subseteq Candidates, OneToOne, NEW a
    PROVE  /\ IsFiniteSet(Both(a))
           /\ [m \in Both(a) |-> m.e] \in Injection(Both(a), Having(exp, a))
           /\ [m \in Both(a) |-> m.p] \in Injection(Both(a), Having(pred, a))
<1>1. \A m, n \in Both(a) : m.e = n.e \/ m.p = n.p => m = n
  BY DEF Both, Pairs, OneToOne, Pairing
<1>2. [m \in Both(a) |-> m.e] \in [Both(a) -> Having(exp, a)]
  BY DEF Both
<1>3. [m \in Both(a) |-> m.p] \in [Both(a) -> Having(pred, a)]
  BY DEF Both
<1>4. [m \in Both(a) |-> m.e] \in Injection(Both(a), Having(exp, a))
  BY <1>1, <1>2 DEF Injection, IsInjective
<1>5. [m \in Both(a) |-> m.p] \in Injection(Both(a), Having(pred, a))
  BY <1>1, <1>3 DEF Injection, IsInjective
<1>6. IsFiniteSet(Having(exp, a))
  BY HavingFinite
<1>7. IsFiniteSet(Both(a))
  BY <1>4, <1>6, FS_Injection
<1>8. QED BY <1>4, <1>5, <1>7

LEMMA WorthOfPairs ==
    ASSUME exp \in Lists, pred \in Lists, NEW a \in Attributes
    PROVE  /\ Worth(a) \in [Both(a) -> 0..One]
           /\ \A m \in Both(a) : Worth(a)[m] = One <=> pred[m.p][a] = exp[m.e][a]
<1>1. ASSUME NEW m \in Both(a)
      PROVE  /\ Similarity(a, pred[m.p][a], exp[m.e][a]) \in 0..One
             /\ Similarity(a, pred[m.p][a], exp[m.e][a]) = One <=> pred[m.p][a] = exp[m.e][a]
  <2>1. pred[m.p] \in Creators /\ exp[m.e] \in Creators
    BY PositionType DEF Both, Having
  <2>2. QED BY <2>1, SimilarityOfCreators
<1>2. QED BY <1>1 DEF Worth

\* Author by author, the score is perfect when everyone with the attribute has
\* the same value as the author it is matched with.
LEMMA IndexedPerfect ==
    ASSUME exp \in Lists, pred \in Lists, matches \subseteq Candidates, OneToOne,
           NEW a \in Attributes
    PROVE  Perfect(IndexedScore(a).score) <=>
              /\ \A e \in Having(exp, a) : \E m \in matches : m.e = e /\ SameAsMatch(a, m)
              /\ \A p \in Having(pred, a) : \E m \in matches : m.p = p /\ SameAsMatch(a, m)
<1> DEFINE E == Having(exp, a)
           P == Having(pred, a)
           Same == /\ \A e \in E : \E m \in matches : m.e = e /\ SameAsMatch(a, m)
                   /\ \A p \in P : \E m \in matches : m.p = p /\ SameAsMatch(a, m)
<1>1. CASE E = {}
  <2>1. Same <=> P = {}
    BY <1>1 DEF SameAsMatch
  <2>2. QED BY <1>1, <2>1 DEF IndexedScore, Absent, Field, Perfect
<1>2. CASE E # {} /\ P = {}
  <2>1. IndexedScore(a).score = Zero
    BY <1>2 DEF IndexedScore, Field
  <2>2. ~Same
    BY <1>2 DEF SameAsMatch
  <2>3. QED BY <2>1, <2>2 DEF Perfect, Zero
<1>3. CASE E # {} /\ P # {}
  <2>1. IndexedScore(a).score = Harmonic(Part(Sum(Worth(a)), Cardinality(P)),
                                         Part(Sum(Worth(a)), Cardinality(E)))
    BY <1>3 DEF IndexedScore, Field, Worth, Both
  <2>2. /\ IsFiniteSet(P) /\ Cardinality(P) \in Nat \ {0}
        /\ IsFiniteSet(E) /\ Cardinality(E) \in Nat \ {0}
    BY <1>3, HavingFinite
  <2>3. /\ IsFiniteSet(Both(a))
        /\ [m \in Both(a) |-> m.e] \in Injection(Both(a), E)
        /\ [m \in Both(a) |-> m.p] \in Injection(Both(a), P)
    BY BothPaired
  <2>4. /\ Cardinality(Both(a)) <= Cardinality(E)
        /\ Cardinality(Both(a)) = Cardinality(E)
              <=> [m \in Both(a) |-> m.e] \in Surjection(Both(a), E)
    BY <2>2, <2>3, FS_Injection
  <2>5. /\ Cardinality(Both(a)) <= Cardinality(P)
        /\ Cardinality(Both(a)) = Cardinality(P)
              <=> [m \in Both(a) |-> m.p] \in Surjection(Both(a), P)
    BY <2>2, <2>3, FS_Injection
  <2>6. Cardinality(Both(a)) \in Nat
    BY <2>3, FS_CardinalityType
  <2>7. Worth(a) \in [Both(a) -> 0..One]
    BY WorthOfPairs
  <2>8. /\ Sum(Worth(a)) \in Nat
        /\ Sum(Worth(a)) <= One * Cardinality(Both(a))
        /\ Sum(Worth(a)) = One * Cardinality(Both(a)) <=> \A m \in Both(a) : Worth(a)[m] = One
    BY <2>3, <2>7, SumBounded
  <2>9. /\ Sum(Worth(a)) <= One * Cardinality(P)
        /\ Sum(Worth(a)) <= One * Cardinality(E)
        /\ (Sum(Worth(a)) = One * Cardinality(P) /\ Sum(Worth(a)) = One * Cardinality(E)) <=>
              /\ Sum(Worth(a)) = One * Cardinality(Both(a))
              /\ Cardinality(Both(a)) = Cardinality(E)
              /\ Cardinality(Both(a)) = Cardinality(P)
    BY <2>2, <2>4, <2>5, <2>6, <2>8 DEF One
  <2>10. Perfect(IndexedScore(a).score) <=>
            Sum(Worth(a)) = One * Cardinality(P) /\ Sum(Worth(a)) = One * Cardinality(E)
    BY <2>1, <2>2, <2>8, <2>9, HarmonicPerfect
  <2>11. Perfect(IndexedScore(a).score) <=>
            /\ \A m \in Both(a) : pred[m.p][a] = exp[m.e][a]
            /\ [m \in Both(a) |-> m.e] \in Surjection(Both(a), E)
            /\ [m \in Both(a) |-> m.p] \in Surjection(Both(a), P)
    BY <2>4, <2>5, <2>8, <2>9, <2>10, WorthOfPairs
  <2>12. /\ [m \in Both(a) |-> m.e] \in Surjection(Both(a), E)
               <=> \A e \in E : \E m \in Both(a) : m.e = e
         /\ [m \in Both(a) |-> m.p] \in Surjection(Both(a), P)
               <=> \A p \in P : \E m \in Both(a) : m.p = p
    BY <2>3 DEF Surjection, Injection
  <2>13. \A m \in Both(a) : \E c \in matches : m = [e |-> c.e, p |-> c.p]
    BY DEF Both, Pairs
  <2>14. \A c \in matches : c.e \in E /\ c.p \in P => [e |-> c.e, p |-> c.p] \in Both(a)
    BY DEF Both, Pairs
  <2>15. ASSUME \A m \in Both(a) : pred[m.p][a] = exp[m.e][a],
                \A e \in E : \E m \in Both(a) : m.e = e,
                \A p \in P : \E m \in Both(a) : m.p = p
         PROVE  Same
    <3>1. \A m \in Both(a) : \E c \in matches : c.e = m.e /\ c.p = m.p /\ SameAsMatch(a, c)
      BY <2>13, <2>15 DEF SameAsMatch, Both
    <3>2. QED BY <2>15, <3>1
  <2>16. ASSUME Same
         PROVE  /\ \A m \in Both(a) : pred[m.p][a] = exp[m.e][a]
                /\ \A e \in E : \E m \in Both(a) : m.e = e
                /\ \A p \in P : \E m \in Both(a) : m.p = p
    <3>1. ASSUME NEW m \in Both(a) PROVE pred[m.p][a] = exp[m.e][a]
      <4>1. PICK c \in matches : m = [e |-> c.e, p |-> c.p]
        BY <2>13
      <4>2. PICK d \in matches : d.e = c.e /\ SameAsMatch(a, d)
        BY <2>16, <4>1 DEF Both
      <4>3. d = c
        BY <4>2 DEF OneToOne, Pairing
      <4>4. QED BY <4>1, <4>2, <4>3 DEF SameAsMatch
    <3>2. \A c \in matches : SameAsMatch(a, c) => [e |-> c.e, p |-> c.p] \in Both(a)
      BY <2>14 DEF SameAsMatch
    <3>3. QED BY <2>16, <3>1, <3>2
  <2>17. QED BY <2>11, <2>12, <2>15, <2>16
<1>4. QED BY <1>1, <1>2, <1>3

LEMMA SinglePerfect ==
    ASSUME item \in Items, NEW f \in {"title", "doi"}
    PROVE  Perfect(SingleEval(f).score) <=> item[f].exp = item[f].pred
<1>1. One = 100 /\ One \div 2 = 50 /\ One * 1 = 100
  BY DEF One
<1>2. \A v, w : Similarity(f, v, w) = One <=> v = w
  BY <1>1 DEF Similarity
<1>3. QED
  BY <1>1, <1>2 DEF SingleEval, Absent, Field, Part, Perfect

\* A field matches when its score is perfect.
LEMMA MatchedWhenPerfect ==
    \A f \in DOMAIN Comparison : Comparison[f].matched <=> Perfect(Comparison[f].score)
<1>1. \A s, g : Field(s, g).matched <=> Perfect(Field(s, g).score)
  BY DEF Field, Perfect
<1>2. \A a \in {"title", "doi"} : SingleEval(a).matched <=> Perfect(SingleEval(a).score)
  BY <1>1 DEF SingleEval, Absent
<1>3. \A a \in Attributes : /\ SymScore(a).matched <=> Perfect(SymScore(a).score)
                            /\ IndexedScore(a).matched <=> Perfect(IndexedScore(a).score)
  BY <1>1 DEF SymScore, IndexedScore, Absent
<1>4. QED BY <1>2, <1>3 DEF Comparison, Attributes

-----------------------------------------------------------------------------

\* A prediction that repeats what is expected is right in every field.
THEOREM RepetitionAlwaysPerfect == Spec => []RepetitionIsPerfect
<1>1. EvalInv => RepetitionIsPerfect
  <2> SUFFICES ASSUME EvalInv, payload # Nil, exp = pred,
                      \A f \in DOMAIN item : item[f].exp = item[f].pred
               PROVE  \A f \in DOMAIN payload.fields : payload.fields[f].matched
    BY DEF RepetitionIsPerfect
  <2>1. /\ exp \in Lists /\ pred \in Lists /\ item \in Items
        /\ matches \subseteq Candidates /\ OneToOne
    BY DEF EvalInv, LoopInv, TypeOK
  <2>2. payload.fields = Comparison
    BY DEF EvalInv, Payload
  <2>3. \A f \in {"title", "doi"} : Perfect(SingleEval(f).score)
    BY <2>1, SingleFields, SinglePerfect
  <2>4. \A a \in Attributes : Perfect(SymScore(a).score)
    BY <2>1, SymPerfect
  <2>5. ASSUME NEW a \in Attributes PROVE Perfect(IndexedScore(a).score)
    <3>1. \A i \in Having(exp, a) : Itself(i) \in Candidates
      BY <2>1, ItselfIsCandidate DEF Having
    <3>2. Candidates = Processed
      BY DEF EvalInv, Aligned, Processed
    <3>3. \A i \in Having(exp, a) : Itself(i) \in matches /\ SameAsMatch(a, Itself(i))
                                    /\ Itself(i).e = i /\ Itself(i).p = i
      BY <3>1, <3>2 DEF EvalInv, Diagonal, Itself, SameAsMatch
    <3>4. QED BY <2>1, <3>3, IndexedPerfect
  <2>6. \A f \in DOMAIN Comparison : Perfect(Comparison[f].score)
    BY <2>3, <2>4, <2>5 DEF Comparison, Attributes
  <2>7. QED BY <2>2, <2>6, MatchedWhenPerfect
<1>2. QED BY <1>1, EvalInvariant, PTL

-----------------------------------------------------------------------------
(***************************************************************************)
(* A report without mismatches or spurious fields.  Every headline field   *)
(* is perfect, so the same names occur on both sides; as the alignment is  *)
(* stable, the authors of a name are matched, and their ORCIDs and         *)
(* affiliations are the same.                                              *)
(***************************************************************************)

Distinct(list) ==
    \A i, j \in DOMAIN list : list[i].name # Nil /\ (list[i].name = list[j].name => i = j)

LEMMA CleanIsPerfect ==
    ASSUME EvalInv, payload # Nil, payload.mismatch_count = 0, payload.spurious_count = 0
    PROVE  \A f \in DOMAIN About : Perfect(Comparison[f].score)
<1> DEFINE gt == {f \in DOMAIN About : Comparison[f].gt_present}
           mismatched == {f \in gt : ~Comparison[f].matched}
           spurious == {f \in DOMAIN About \ gt : ~Perfect(Comparison[f].score)}
<1>1. payload.mismatch_count = Cardinality(mismatched)
      /\ payload.spurious_count = Cardinality(spurious)
  BY HeadlineFields DEF EvalInv, Payload
<1>2. mismatched \in SUBSET DOMAIN About /\ spurious \in SUBSET DOMAIN About
  OBVIOUS
<1>3. IsFiniteSet(mismatched) /\ IsFiniteSet(spurious)
  BY <1>2, AboutOneAttribute, FS_Subset
<1>4. mismatched = {} /\ spurious = {}
  BY <1>1, <1>3, FS_EmptySet
<1>5. DOMAIN About \subseteq DOMAIN Comparison
  BY DEF About, Comparison
<1>6. QED BY <1>4, <1>5, MatchedWhenPerfect

\* Authors of one name are matched with each other.
LEMMA NamesakesMatched ==
    ASSUME EvalInv, Aligned, Distinct(exp), Distinct(pred),
           NEW i \in DOMAIN exp, NEW j \in DOMAIN pred, exp[i].name = pred[j].name
    PROVE  \E m \in matches : m.e = i /\ m.p = j
<1> DEFINE c == [score |-> One, e |-> i, p |-> j]
<1>1. exp \in Lists /\ pred \in Lists /\ matches \subseteq Candidates
  BY DEF EvalInv, LoopInv, TypeOK
<1>2. \A k \in DOMAIN exp, l \in DOMAIN pred :
         /\ Ratio[exp[k].name][pred[l].name] \in 0..One
         /\ Ratio[exp[k].name][pred[l].name] = One <=> exp[k].name = pred[l].name
  <2>1. /\ \A k \in DOMAIN exp : exp[k].name \in Names
        /\ \A l \in DOMAIN pred : pred[l].name \in Names
    BY <1>1, PositionType, AlignmentAssumption
  <2>2. QED BY <2>1, AlignmentAssumption
<1>3. c \in Candidates
  <2>1. One \in Threshold..One
    BY AlignmentAssumption DEF One
  <2>2. c.score = Ratio[exp[c.e].name][pred[c.p].name]
    BY <1>2
  <2>3. QED BY <2>1, <2>2 DEF Candidates
<1>4. c \in Processed
  BY <1>3 DEF Processed, Aligned
<1>5. PICK m \in matches : (m.e = c.e \/ m.p = c.p) /\ m.score >= c.score
  BY <1>4 DEF EvalInv, LoopInv, ProvidedFor
<1>6. /\ m.e \in DOMAIN exp /\ m.p \in DOMAIN pred /\ m.score \in Int /\ m.score <= One
      /\ m.score = Ratio[exp[m.e].name][pred[m.p].name]
  BY <1>1, CandidateType
<1>7. m.score = One
  BY <1>5, <1>6 DEF One
<1>8. exp[m.e].name = pred[m.p].name
  BY <1>2, <1>6, <1>7
<1>9. m.e = i /\ m.p = j
  BY <1>5, <1>6, <1>8 DEF Distinct
<1>10. QED BY <1>9

\* What is perfect author by author is the same for the authors of a match.
LEMMA SameOfMatched ==
    ASSUME EvalInv, NEW m \in matches, NEW a \in Attributes, Perfect(IndexedScore(a).score)
    PROVE  exp[m.e][a] = pred[m.p][a]
<1>1. /\ exp \in Lists /\ pred \in Lists /\ matches \subseteq Candidates /\ OneToOne
      /\ m.e \in DOMAIN exp /\ m.p \in DOMAIN pred
  BY CandidateType DEF EvalInv, LoopInv, TypeOK
<1>2. /\ \A e \in Having(exp, a) : \E n \in matches : n.e = e /\ SameAsMatch(a, n)
      /\ \A p \in Having(pred, a) : \E n \in matches : n.p = p /\ SameAsMatch(a, n)
  BY <1>1, IndexedPerfect
<1>3. ASSUME NEW n \in matches, SameAsMatch(a, n), n.e = m.e \/ n.p = m.p
      PROVE  exp[m.e][a] = pred[m.p][a]
  <2>1. n = m
    BY <1>1, <1>3 DEF OneToOne, Pairing
  <2>2. QED BY <1>3, <2>1 DEF SameAsMatch
<1>4. CASE m.e \in Having(exp, a)
  BY <1>2, <1>3, <1>4
<1>5. CASE m.p \in Having(pred, a)
  BY <1>2, <1>3, <1>5
<1>6. CASE m.e \notin Having(exp, a) /\ m.p \notin Having(pred, a)
  BY <1>1, <1>6 DEF Having
<1>7. QED BY <1>4, <1>5, <1>6

\* A clean report is the truth.
THEOREM CleanReportAlwaysTrue == Spec => []CleanReportIsTrue
<1>1. EvalInv => CleanReportIsTrue
  <2> SUFFICES ASSUME EvalInv, payload # Nil, Distinct(exp), Distinct(pred),
                      payload.mismatch_count = 0, payload.spurious_count = 0
               PROVE  /\ \A f \in DOMAIN item : item[f].exp = item[f].pred
                      /\ {exp[i] : i \in DOMAIN exp} = {pred[i] : i \in DOMAIN pred}
    BY DEF CleanReportIsTrue, Distinct
  <2>1. exp \in Lists /\ pred \in Lists /\ item \in Items /\ Aligned
    BY DEF EvalInv, LoopInv, TypeOK
  <2>2. \A f \in DOMAIN About : Perfect(Comparison[f].score)
    BY CleanIsPerfect
  <2>3. /\ Perfect(SingleEval("title").score) /\ Perfect(SingleEval("doi").score)
        /\ Perfect(SymScore("name").score)
        /\ Perfect(IndexedScore("orcid").score) /\ Perfect(IndexedScore("affiliation").score)
    <3>1. /\ "title" \in DOMAIN About /\ "doi" \in DOMAIN About /\ "creators_name" \in DOMAIN About
          /\ "creators_orcid_indexed" \in DOMAIN About
          /\ "creators_affiliation_indexed" \in DOMAIN About
      BY DEF About
    <3>2. /\ Comparison["title"] = SingleEval("title") /\ Comparison["doi"] = SingleEval("doi")
          /\ Comparison["creators_name"] = SymScore("name")
          /\ Comparison["creators_orcid_indexed"] = IndexedScore("orcid")
          /\ Comparison["creators_affiliation_indexed"] = IndexedScore("affiliation")
      BY DEF Comparison
    <3>3. QED BY <2>2, <3>1, <3>2
  <2>4. \A f \in DOMAIN item : item[f].exp = item[f].pred
    BY <2>1, <2>3, SingleFields, SinglePerfect
  <2>5. /\ Having(exp, "name") = DOMAIN exp /\ Having(pred, "name") = DOMAIN pred
    BY DEF Having, Distinct
  <2>6. /\ \A j \in DOMAIN pred : \E i \in DOMAIN exp : pred[j].name = exp[i].name
        /\ \A i \in DOMAIN exp : \E j \in DOMAIN pred : pred[j].name = exp[i].name
    BY <2>1, <2>3, <2>5, SymPerfect DEF Attributes
  <2>7. ASSUME NEW i \in DOMAIN exp, NEW j \in DOMAIN pred, exp[i].name = pred[j].name
        PROVE  exp[i] = pred[j]
    <3>1. PICK m \in matches : m.e = i /\ m.p = j
      BY <2>1, <2>7, NamesakesMatched
    <3>2. exp[i].orcid = pred[j].orcid /\ exp[i].affiliation = pred[j].affiliation
      BY <2>3, <3>1, SameOfMatched DEF Attributes
    <3>3. exp[i] \in Creators /\ pred[j] \in Creators
      BY <2>1, PositionType
    <3>4. QED BY <2>7, <3>2, <3>3, EvaluatorsAssumption
  <2>8. QED BY <2>4, <2>6, <2>7
<1>2. QED BY <1>1, EvalInvariant, PTL

=============================================================================
