------------------------------ MODULE MCEvaluators ------------------------------
(* Two close names, one of them shared at times, two ORCIDs to swap, and items *)
(* with fields that are right, wrong, missing, made up and absent.             *)
EXTENDS Evaluators

CONSTANTS Doe, Dow, Roe, o1, o2, CERN, v1, v2

MCNames == {Doe, Dow, Roe}
MCRatio == [m \in MCNames |-> [n \in MCNames |->
    IF m = n THEN 100 ELSE IF m = Doe /\ n = Dow THEN 85 ELSE 60]]

Creator(n, o, a) == [name |-> n, orcid |-> o, affiliation |-> a]
MCCreators ==
    {Creator(n, o, Nil) : n \in {Doe, Dow}, o \in {o1, o2, Nil}}
    \cup {Creator(Doe, o, CERN) : o \in {o1, Nil}} \cup {Creator(Roe, o1, Nil), Creator(Roe, Nil, CERN)}

Single(e, p) == [exp |-> e, pred |-> p]
MCItems ==
    {[title |-> t, doi |-> d] :
        t \in {Single(v1, v1), Single(v1, v2), Single(Nil, v1), Single(Nil, Nil)},
        d \in {Single(v1, v1), Single(v1, Nil), Single(Nil, v1), Single(Nil, Nil)}}

=============================================================================
