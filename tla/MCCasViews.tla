------------------------------ MODULE MCCasViews ------------------------------
(* Two names besides that of the initial view.  The annotator has the two    *)
(* the other way round, which leaves them symmetric.                         *)
EXTENDS CasViews, TLC

CONSTANTS initial, a, b, t1, t2, application, annotator

MCTexts == {t1, t2}
MCNames == {initial, a, b}
MCSofaId == [c \in {application, annotator} |->
    IF c = application THEN [n \in MCNames |-> n]
    ELSE [n \in MCNames |-> CASE n = a -> b [] n = b -> a [] OTHER -> n]]
MCSymmetry == Permutations(MCTexts) \cup Permutations({a, b})
=============================================================================
