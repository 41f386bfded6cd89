------------------------------ MODULE MCPanelAuth ------------------------------
(* Two requests at a time over two session identities. Requests and        *)
(* sessions are interchangeable.                                           *)
EXTENDS PanelAuth, TLC
Interchangeable == Permutations(Reqs) \cup Permutations(Sids)
=============================================================================
