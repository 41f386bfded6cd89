------------------------------ MODULE MCPanelShell ------------------------------
(* Every operation of every page is represented by one with the same page, *)
(* dialogs, gate and steps, and runs against the user, the session and the *)
(* shell's own dialogs; the operations of a set in Encounters also meet    *)
(* each other.  The user leaves a page for the dashboard and comes back,   *)
(* so a handler can outlive the page it was started from.                  *)
EXTENDS PanelShell, TLC

Kind(o) == IF o.gate = "key" THEN o ELSE [o EXCEPT !.name = "any"]
Kinds == {Kind(o) : o \in Operations}
OneOfEachKind == {CHOOSE o \in Operations : Kind(o) = k : k \in Kinds}
Named(page, names) == {o \in OneOfEachKind : o.page = page /\ o.name \in names}

(* The meetings: on a page whose every button is disabled while one works, *)
(* on one where a second upload replaces the first, and between operations *)
(* that ask and then show a result that is shown only once.                *)
Encounters == {Named("host", {"dns", "delete swap"}), Named("files", {"upload zip"}),
               Named("settings", {"new codes"})}
ASSUME EncountersMeant == Cardinality(UNION Encounters) = 4

(* The release attachment panel by itself.                                 *)
ReleaseUpload == Named("github", {"assets", "upload asset"})
Nothing == {}

FromEveryPage == ({"dashboard"} \X Pages) \cup (Pages \X {"dashboard"})
Interchangeable == Permutations(Slots)
=============================================================================
