-------------------------- MODULE MCSuggestionResolver --------------------------
(* Parallel lists of different lengths with gaps, for two funders whose awards *)
(* share a number and are found by the same titles.  An award is found by a    *)
(* number that it has, by one that it has not, or by none.  One text makes no  *)
(* request.                                                                    *)
EXTENDS SuggestionResolver, SequencesExt

CONSTANTS NIH, EC, ror1, ror2, n1, n2, t1, t2, x1, x2, x3, Doe, Roe, o1, o2,
          CERN, MIT, mit, cc0, ctl

MCFunderRorIds == NIH :> ror1 @@ EC :> ror2

MCLower == MIT :> mit @@ mit :> mit @@ cc0 :> cc0 @@ ctl :> ctl

MCCatalogue ==
    {[id |-> x1, number |-> n1, title |-> t1, funder |-> ror1,
      foundByNumber |-> {n1}, foundBy |-> {t1}, acronymIn |-> {t1}],
     [id |-> x2, number |-> n1, title |-> t2, funder |-> ror2,
      foundByNumber |-> {n1, n2}, foundBy |-> {t1, t2}, acronymIn |-> {}],
     [id |-> x3, number |-> n2, title |-> t2, funder |-> ror1,
      foundByNumber |-> {}, foundBy |-> {t1, t2}, acronymIn |-> {}]}

Nothing ==
    [texts |-> {}, creators |-> <<>>, creator_orcids |-> <<>>, creator_affiliations |-> <<>>,
     license |-> <<>>, funding_titles |-> <<>>, funding_numbers |-> <<>>, funding_funders |-> <<>>]

MCFunding ==
    {[Nothing EXCEPT !.funding_titles = t, !.funding_numbers = n, !.funding_funders = f] :
        t \in BoundedSeq({t1, t2, None}, 2), n \in BoundedSeq({n1, n2, None}, 2),
        f \in BoundedSeq({NIH, EC, None}, 2)}

MCCreators ==
    {[Nothing EXCEPT !.creators = c, !.creator_orcids = o, !.creator_affiliations = a,
                     !.texts = {"title", "doi"}, !.license = l] :
        c \in BoundedSeq({Doe, Roe, None}, 2), o \in BoundedSeq({o1, o2, Invalid, None}, 2),
        a \in BoundedSeq({CERN, None}, 2), l \in {<<>>, <<MIT, cc0>>}}

MCUnsendable ==
    {[Nothing EXCEPT !.license = l, !.funding_numbers = n, !.funding_titles = t] :
        l \in {<<mit>>, <<mit, ctl>>}, n \in {<<>>, <<ctl>>}, t \in {<<t1>>, <<t1, ctl>>}}

MCMetadata == MCFunding \cup MCCreators \cup MCUnsendable
MCLicenses == {[Nothing EXCEPT !.license = l] : l \in {<<mit>>, <<mit, cc0>>, <<cc0, mit>>}}
MCOneNumber == {[Nothing EXCEPT !.funding_numbers = <<n>>, !.funding_funders = f] :
                  n \in {n1, n2}, f \in {<<>>, <<NIH>>, <<EC>>}}

=============================================================================
