------------------------------ MODULE MCPageData ------------------------------
(* One page of each kind of loader: pages that differ only in their name   *)
(* have the same behaviours.                                               *)
EXTENDS PageData, TLC

Kind(p) == [p EXCEPT !.page = "any"]
OneOfEachKind == {CHOOSE p \in Loaders : Kind(p) = k : k \in {Kind(p) : p \in Loaders}}
=============================================================================
