---------------------------- MODULE LinkSelectors ----------------------------
(***************************************************************************)
(* Labels and the selectors that link by them.  Both are functions from    *)
(* label keys to values, empty where the blueprint has none.               *)
(***************************************************************************)

NoLabels == <<>>
OneLabel(key, value) == [k \in {key} |-> value]

\* A selector selects what carries any one of its labels.
Selects(selector, labels) ==
    \E key \in DOMAIN selector \cap DOMAIN labels : selector[key] = labels[key]

\* The labels a link was made on.
MatchedLabels(selector, labels) ==
    [key \in {k \in DOMAIN selector \cap DOMAIN labels :
                selector[k] = labels[k]} |-> selector[key]]

\* One more label, assigned last: what the author wrote under its key is gone.
LabelsWith(labels, key, value) ==
    [k \in DOMAIN labels \cup {key} |-> IF k = key THEN value ELSE labels[k]]

\* The labels of both, those of the second where they differ.
LabelsAnd(labels, more) ==
    [k \in DOMAIN labels \cup DOMAIN more |->
        IF k \in DOMAIN more THEN more[k] ELSE labels[k]]
=============================================================================
