------------------------------ MODULE PanelShell ------------------------------
(***************************************************************************)
(* The browser shell of LukePanel (web/assets/app.js, App and the request  *)
(* layer under it) running the operations of PanelPages.                   *)
(*                                                                         *)
(* The page is single threaded, but every handler is suspended at each     *)
(* await, so handlers, timers and the user interleave there.  All of them  *)
(* share one dialog slot (modal), one pending question (confirmResolve),   *)
(* one pending second-factor promise (elevationPromise), and per page one  *)
(* working flag.  An action here is one run to completion: from the event  *)
(* that wakes a handler to its next await.                                 *)
(*                                                                         *)
(* ui holds what the browser keeps; live and elevated are the server's     *)
(* view of the session the browser's cookie names (PanelAuth models the    *)
(* server side in full).                                                   *)
(***************************************************************************)
EXTENDS PanelPages, FiniteSets

CONSTANTS
    Slots,      \* bound: handlers that are in progress at one time
    NoSlot,     \* no handler
    Ops,        \* the operations of the instance
    Crowds,     \* bound: the sets of operations that may be in progress together
    Links       \* bound: the page changes the user makes

ASSUME ShellAssumption ==
    /\ NoSlot \notin Slots
    /\ Ops \subseteq Operations /\ UNION Crowds \subseteq Ops
    /\ Links \subseteq Pages \X Pages

Awaits == {"confirm", "read", "sread", "plain", "secure", "upload", "load"}
Writes == {"plain", "secure", "upload"}
Secured == {"secure", "sread", "upload"}      \* secureApi and uploadApi
ShellCalls == {"busy", "success", "close", "drop", "open"}

(* What the shell relies on in the operations: an operation asks first or  *)
(* not at all, works before its first request, reports success after its   *)
(* last write, opens dialogs of its own page only, and a dialog it closes  *)
(* is closed before it opens the next.                                     *)
ASSUME StepsAssumption ==
    \A o \in Operations :
        /\ o.name # "none"
        /\ o.steps \in Seq(Awaits \cup ShellCalls) \ {<<>>}
        /\ o.opens \notin {"page", "confirm"} /\ o.from # "confirm"
        /\ \A p \in Operations : o.opens = p.from => o.page = p.page
        /\ \A i, j \in DOMAIN o.steps :
            /\ o.steps[i] = "confirm" => i = 1
            /\ i < j =>
                /\ o.steps[j] = "busy" => o.steps[i] \notin Awaits \ {"confirm"}
                /\ o.steps[i] = "success" => o.steps[j] \notin Writes
                /\ o.steps[i] = "open" => o.steps[j] \notin {"close", "drop"}

VARIABLES ui, live, elevated
vars == <<ui, live, elevated>>
-----------------------------------------------------------------------------
NoOp == [name |-> "none", page |-> "none", from |-> "none", gate |-> "none",
         steps |-> <<>>, opens |-> "none", caught |-> TRUE]

(* A handler.  page and form say whether the page and the dialog it was    *)
(* started from are still mounted.  hits, twice, yes and notice are        *)
(* history: the steps the server carried out, whether it did one of them   *)
(* again, whether the user agreed, and the last toast of the handler.      *)
Handler(op, page) ==
    [op |-> op, pc |-> 0, st |-> "running", reply |-> "none", cred |-> "none",
     retried |-> FALSE, aborted |-> FALSE, page |-> page, form |-> op.from # "page",
     yes |-> FALSE, hits |-> {}, twice |-> FALSE, notice |-> "none"]
Idle == [Handler(NoOp, FALSE) EXCEPT !.st = "done", !.form = FALSE]

Running(r) == r.st # "done"

(* A handler that has ended is remembered for one step.                    *)
now == [ui EXCEPT !.runs = [s \in Slots |-> IF Running(ui.runs[s]) THEN ui.runs[s] ELSE Idle]]
Step(r) == r.op.steps[r.pc]
NextAwait(op, i) ==
    CHOOSE j \in i + 1 .. Len(op.steps) + 1 :
        /\ j > Len(op.steps) \/ op.steps[j] \in Awaits
        /\ \A k \in i + 1 .. j - 1 : op.steps[k] \notin Awaits
Calls(op, i) == {op.steps[k] : k \in i + 1 .. NextAwait(op, i) - 1}
SetWorking(r) == \E k \in DOMAIN r.op.steps : k < r.pc /\ r.op.steps[k] = "busy"
Uploads(op) == \E k \in DOMAIN op.steps : op.steps[k] = "upload"
Waiting(u) == {s \in Slots : u.runs[s].st = "elevate"}

NoModal == [dlg |-> "none", for |-> NoSlot, home |-> FALSE, sent |-> "none"]
Dialog(d, home) == [NoModal EXCEPT !.dlg = d, !.home = home]
ConfirmDialog(s) == [NoModal EXCEPT !.dlg = "confirm", !.for = s]
-----------------------------------------------------------------------------
(* The shell's functions, each on the whole browser state u.               *)

(* controller.abort() on the transfer of handler r: a request under way    *)
(* rejects with AbortError, which the handler reports as information.      *)
(* Between two requests only the signal remembers it.                      *)
Abort(r) ==
    IF r.st \in {"sent", "replied"} /\ Step(r) = "upload"
    THEN [r EXCEPT !.st = "done", !.aborted = TRUE, !.notice = "info"]
    ELSE [r EXCEPT !.aborted = TRUE]

Aborted(u, T) ==
    [u EXCEPT !.runs = [t \in Slots |-> IF t \in T THEN Abort(u.runs[t]) ELSE u.runs[t]],
              !.working = IF \E t \in T : /\ Abort(u.runs[t]).st = "done"
                                          /\ SetWorking(u.runs[t]) /\ u.runs[t].page
                          THEN "none" ELSE @]

(* The old dialog content unmounts; ReleaseAssetsPanel's effect cleanup    *)
(* aborts its transfer.                                                    *)
Unmount(r) ==
    LET q == [r EXCEPT !.form = FALSE]
    IN  IF r.form /\ Running(r) /\ r.op.from = "assets" THEN Abort(q) ELSE q

(* setModal(m).  An elevation request whose form goes away stays in flight.*)
Shown(u, m) ==
    [u EXCEPT !.modal = m,
              !.stray = IF u.modal.sent # "none" THEN u.modal.sent ELSE @,
              !.runs = [s \in Slots |-> Unmount(u.runs[s])]]

(* confirmResolve.current(false): the handler returns.                     *)
Declined(u) ==
    IF u.asked = NoSlot THEN u
    ELSE [u EXCEPT !.runs[u.asked].st = "done", !.asked = NoSlot]

closeModal(u) == Shown(Declined(u), NoModal)

confirmAction(u, s) ==
    Shown([Declined(u) EXCEPT !.asked = s, !.runs[s].st = "confirm", !.runs[s].pc = 1],
          ConfirmDialog(s))

(* Mutant: one working flag for all visits of a page.                      *)
FailedAnyVisit(u, S) ==
    [u EXCEPT
        !.runs = [s \in Slots |->
            IF s \notin S THEN u.runs[s]
            ELSE [u.runs[s] EXCEPT !.st = "done", !.notice = "error"]],
        !.working = IF \E s \in S : SetWorking(u.runs[s]) THEN "none" ELSE @]

(* Mutant: a refused second factor is taken for a silent cancel.           *)
FailedQuietly(u, S) ==
    [u EXCEPT
        !.runs = [s \in Slots |->
            IF s \notin S THEN u.runs[s]
            ELSE [u.runs[s] EXCEPT !.st = "done",
                                   !.notice = IF u.runs[s].st = "elevate" THEN @ ELSE "error"]],
        !.working = IF \E s \in S : SetWorking(u.runs[s]) /\ u.runs[s].page
                    THEN "none" ELSE @]

(* Handlers of S leave through catch and finally.                          *)
Failed(u, S) ==
    [u EXCEPT
        !.runs = [s \in Slots |->
            IF s \notin S THEN u.runs[s]
            ELSE [u.runs[s] EXCEPT !.st = "done",
                                   !.notice = IF u.runs[s].op.caught THEN "error" ELSE @]],
        !.working = IF \E s \in S : SetWorking(u.runs[s]) /\ u.runs[s].page
                    THEN "none" ELSE @]

(* Mutant: the promise is dropped without rejecting it.                    *)
DropElevation(u) == [u EXCEPT !.pending = FALSE]

rejectElevation(u) ==
    IF u.pending THEN [Failed(u, Waiting(u)) EXCEPT !.pending = FALSE] ELSE u

(* Identity, dialog and page go; the question in confirmResolve stays.     *)
resetAuth(u) ==
    LET v == Shown(rejectElevation(u), NoModal)
    IN  [v EXCEPT !.identity = FALSE, !.kdf = FALSE, !.working = "none",
                  !.runs = [s \in Slots |-> [v.runs[s] EXCEPT !.page = FALSE]]]

(* The request leaves with the cookie and CSRF token of this moment.       *)
Send(u, s, retry) ==
    [u EXCEPT !.runs[s].st = "sent", !.runs[s].reply = "none", !.runs[s].retried = retry,
              !.runs[s].cred = IF ~live THEN "dead" ELSE IF u.identity THEN "live" ELSE "bare"]

(* Handler s runs from the await at pc to the next one, or to its end.     *)
Resume(u, s) ==
    LET r == u.runs[s]
        j == NextAwait(r.op, r.pc)
        calls == Calls(r.op, r.pc)
        a == IF "close" \in calls THEN closeModal(u)
             ELSE IF "drop" \in calls THEN Shown(u, NoModal) ELSE u
        b == IF "open" \in calls THEN Shown(a, Dialog(r.op.opens, r.page)) ELSE a
        c == [b EXCEPT !.runs[s].pc = j,
                       !.runs[s].notice = IF "success" \in calls THEN "success" ELSE @,
                       !.working = IF "busy" \in calls /\ r.page THEN r.op.name ELSE @]
    IN  IF j <= Len(r.op.steps) THEN Send(c, s, FALSE)
        ELSE [c EXCEPT !.runs[s].st = "done",
                       !.working = IF SetWorking(c.runs[s]) /\ r.page THEN "none" ELSE @]

(* elevationHandler: the first caller opens the dialog, later ones join.   *)
elevationHandler(u, s) ==
    LET v == [u EXCEPT !.runs[s].st = "elevate"]
    IN  IF u.pending THEN v
        ELSE Shown([v EXCEPT !.pending = TRUE], Dialog("elevate", FALSE))

(* elevationResolve: everyone who waits retries once.  A retried upload    *)
(* whose signal is already aborted calls xhr.abort() before send, which    *)
(* fires no event: its promise is never settled.                           *)
resolveElevation(u) ==
    IF ~u.pending THEN u
    ELSE [u EXCEPT !.pending = FALSE,
                   !.runs = [s \in Slots |->
                       IF s \notin Waiting(u) THEN u.runs[s]
                       ELSE IF u.runs[s].aborted /\ Step(u.runs[s]) = "upload"
                            THEN [u.runs[s] EXCEPT !.st = "dead"]
                            ELSE Send(u, s, TRUE).runs[s]]]

(* The page component of the old route unmounts.                           *)
LeavePage(u, p) ==
    [u EXCEPT !.route = p, !.working = "none", !.modal.home = FALSE,
              !.runs = [s \in Slots |-> [u.runs[s] EXCEPT !.page = FALSE]]]

(* What becomes of requests under way when the session they were sent      *)
(* with ends, or is replaced by a new login and lives on without a cookie. *)
Recredit(u, c) ==
    LET f(x) == IF x \in {"live", "bare"} THEN c ELSE x
    IN  [u EXCEPT !.stray = f(@), !.modal.sent = f(@),
                  !.runs = [s \in Slots |-> [u.runs[s] EXCEPT !.cred = f(@)]]]
-----------------------------------------------------------------------------
Init ==
    /\ live \in BOOLEAN
    /\ elevated = FALSE
    /\ \E p \in {l[1] : l \in Links} :
        ui = [identity |-> live, route |-> p, modal |-> NoModal, asked |-> NoSlot,
              pending |-> FALSE, working |-> "none", kdf |-> FALSE,
              stray |-> "none", runs |-> [s \in Slots |-> Idle]]

(* LoginPage.submit or passkey succeeds; applyIdentity.                    *)
Login(old) ==
    /\ ~ui.identity
    /\ ui' = [(IF live THEN Recredit(now, "left") ELSE now) EXCEPT !.identity = TRUE, !.kdf = old]
    /\ live' = TRUE
    /\ elevated' = FALSE

(* The same component instance: the page, or the dialog, op starts from.   *)
Sibling(op, r) == r.op.from = op.from /\ (IF op.from = "page" THEN r.page ELSE r.form)

(* The buttons within reach: those of the page when no dialog covers it,   *)
(* else those of the dialog.                                               *)
PageOps == [p \in Pages |-> {o \in Ops : o.from = "page" /\ o.page = p}]
DialogOps == [d \in {o.from : o \in Operations} |-> {o \in Ops : o.from = d}]
Offered ==
    IF ui.modal.dlg = "none" THEN PageOps[ui.route]
    ELSE IF ui.modal.dlg \in DOMAIN DialogOps THEN DialogOps[ui.modal.dlg] ELSE {}

Enabled(op) ==
    /\ op.gate = "page" => ui.working = "none"
    /\ op.gate = "key" => ui.working # op.name
    /\ op.gate = "own" => \A s \in Slots :
           ~(Running(ui.runs[s]) /\ ui.runs[s].op = op /\ Sibling(op, ui.runs[s]))

(* A click or submit.  A new upload aborts the one its component still has *)
(* running; that one's catch and finally run after the new one has begun.  *)
Launch(s, op) ==
    /\ ui.identity
    /\ ~Running(ui.runs[s])
    /\ \A t \in Slots : Running(ui.runs[t]) => \E c \in Crowds : {op, ui.runs[t].op} \subseteq c
    /\ Enabled(op)
    /\ LET home == IF op.from = "page" THEN TRUE ELSE ui.modal.home
           u == [now EXCEPT !.runs[s] = Handler(op, home)]
           T == {t \in Slots \ {s} : /\ Uploads(op) /\ Uploads(ui.runs[t].op)
                                     /\ Running(ui.runs[t]) /\ Sibling(op, ui.runs[t])}
       IN  ui' = IF op.steps[1] = "confirm" THEN confirmAction(u, s)
                 ELSE Aborted(Resume(u, s), T)
    /\ UNCHANGED <<live, elevated>>

(* TransferProgress: the cancel button of an upload, gone once the server  *)
(* has the whole file (phase "processing").                                *)
CancelTransfer(s) ==
    /\ ui.runs[s].st = "sent" /\ Step(ui.runs[s]) = "upload"
    /\ Sibling(ui.runs[s].op, ui.runs[s])
    /\ ui.runs[s].op.from = "page" => ui.modal.dlg = "none"
    /\ ui' = Aborted(now, {s})
    /\ UNCHANGED <<live, elevated>>

(* Mutant: the handler ignores what its question returned.                 *)
AnswerIgnored(yes) ==
    /\ ui.modal.dlg = "confirm"
    /\ LET s == ui.asked
           u == [Shown(now, NoModal) EXCEPT !.asked = NoSlot]
       IN  ui' = IF s = NoSlot THEN u
                 ELSE Resume([u EXCEPT !.runs[s].yes = (yes /\ ui.modal.for = s)], s)
    /\ UNCHANGED <<live, elevated>>

(* The two buttons of the confirm dialog.                                  *)
AnswerConfirm(yes) ==
    /\ ui.modal.dlg = "confirm"
    /\ LET s == ui.asked
           u == [Shown(now, NoModal) EXCEPT !.asked = NoSlot]
       IN  ui' = IF s = NoSlot THEN u
                 ELSE IF ~yes THEN Shown(Declined(now), NoModal)
                 ELSE Resume([u EXCEPT !.runs[s].yes = (ui.modal.for = s)], s)
    /\ UNCHANGED <<live, elevated>>

(* The cancel button of a form, and the "later" button of the KDF prompt.  *)
CancelForm ==
    /\ ui.modal.dlg \notin {"none", "confirm", "elevate"}
    /\ ui' = IF ui.modal.dlg = "kdf" THEN Shown(now, NoModal) ELSE closeModal(now)
    /\ UNCHANGED <<live, elevated>>

(* Escape, the backdrop or the cross.                                      *)
CloseModal ==
    /\ ui.modal.dlg # "none"
    /\ ui' = closeModal(rejectElevation(now))
    /\ UNCHANGED <<live, elevated>>

CancelElevation ==
    /\ ui.modal.dlg = "elevate"
    /\ ui' = rejectElevation(Shown(now, NoModal))
    /\ UNCHANGED <<live, elevated>>

(* The elevation form is submitted; its button stays disabled until the    *)
(* answer.  Bound: one earlier submission may still be in flight.          *)
SubmitElevation ==
    /\ ui.modal.dlg = "elevate" /\ ui.modal.sent = "none" /\ ui.stray = "none"
    /\ ui' = [now EXCEPT !.modal.sent = IF live THEN "live" ELSE "dead"]
    /\ UNCHANGED <<live, elevated>>

(* The answer, of the form on screen or of one that is gone.  Success      *)
(* closes whatever dialog is open and resolves whoever waits now.          *)
ElevationAnswer(own, ok) ==
    LET cred == IF own THEN ui.modal.sent ELSE ui.stray
        u == IF own THEN [now EXCEPT !.modal.sent = "none"] ELSE [now EXCEPT !.stray = "none"]
    IN  /\ cred # "none"
        /\ ok => cred # "dead"
        /\ ui' = IF ok THEN resolveElevation(Shown(u, NoModal))
                 ELSE IF cred = "dead" THEN resetAuth(u) ELSE u
        /\ elevated' = (elevated \/ (ok /\ cred = "live"))
        /\ UNCHANGED live

(* The server handles a request: a dead session is refused, a write        *)
(* without CSRF token fails, a secured endpoint wants an elevated session; *)
(* otherwise it succeeds, or fails before or after it has taken effect     *)
(* (an error of the command, an answer that is lost).                      *)
Answers(r) ==
    LET hit == IF Step(r) \in Writes THEN {r.pc} ELSE {}
        lost == IF Step(r) = "load" THEN {} ELSE {<<"failed", {}>>}
        done == {<<"ok", hit>>} \cup {<<"failed", hit>> : x \in lost}
    IN  lost \cup
        (IF r.cred = "dead" THEN {<<"unauth", {}>>}
         ELSE IF r.cred = "left" THEN {<<"unauth", {}>>, <<"forbidden", {}>>} \cup done
         ELSE IF r.cred = "bare" /\ Step(r) \in Writes THEN {}
         ELSE IF Step(r) \in Secured /\ ~elevated THEN {<<"forbidden", {}>>}
         ELSE done)

Serve(s) ==
    LET r == ui.runs[s]
    IN  /\ r.st = "sent"
        /\ \E a \in Answers(r) :
              ui' = [now EXCEPT !.runs[s] =
                        [r EXCEPT !.st = "replied", !.reply = a[1], !.cred = "none",
                                  !.hits = @ \cup a[2],
                                  !.twice = @ \/ a[2] \cap r.hits # {}]]
        /\ UNCHANGED <<live, elevated>>

(* Mutant: secureApi asks and retries after any failure.                   *)
DeliverRetriesAll(s) ==
    LET r == ui.runs[s]
        h == [now EXCEPT !.runs[s].st = "running"]
        u == IF r.reply = "unauth" THEN resetAuth(h) ELSE h
    IN  /\ r.st = "replied"
        /\ ui' = IF r.reply = "ok" \/ Step(r) = "load" THEN Resume(u, s)
                 ELSE IF r.reply # "unauth" /\ ~r.retried THEN elevationHandler(u, s)
                 ELSE Failed(u, {s})
        /\ UNCHANGED <<live, elevated>>

(* api, secureApi, uploadApi: 401 resets the browser's session, 403 asks   *)
(* for the second factor once, anything else rejects the await.  A reload  *)
(* shows its own error and returns.                                        *)
Deliver(s) ==
    LET r == ui.runs[s]
        h == [now EXCEPT !.runs[s].st = "running"]
        u == IF r.reply = "unauth" THEN resetAuth(h) ELSE h
    IN  /\ r.st = "replied"
        /\ ui' = IF r.reply = "ok" \/ Step(r) = "load" THEN Resume(u, s)
                 ELSE IF r.reply = "forbidden" /\ ~r.retried THEN elevationHandler(u, s)
                 ELSE Failed(u, {s})
        /\ UNCHANGED <<live, elevated>>

(* Sidebar (no dialog in front of it) or the browser's back button.        *)
Navigate(p) ==
    /\ ui.identity
    /\ <<ui.route, p>> \in Links
    /\ ui' = LeavePage(now, p)
    /\ UNCHANGED <<live, elevated>>

(* The timer of the KDF effect, 250 ms after the login.                    *)
KdfPrompt ==
    /\ ui.kdf
    /\ ui' = [Shown(now, Dialog("kdf", FALSE)) EXCEPT !.kdf = FALSE]
    /\ UNCHANGED <<live, elevated>>

(* The answer to the logout request, or its failure, which is ignored.     *)
LoggedOut ==
    /\ ui.identity
    /\ ui' = LeavePage(resetAuth(now), "dashboard")
    /\ UNCHANGED <<live, elevated>>

(* Mutant: the elevation outlives its session.                             *)
SessionEndsElevated ==
    /\ live
    /\ ui' = Recredit(now, "dead")
    /\ live' = FALSE
    /\ UNCHANGED elevated

(* Server side: the session is logged out, revoked or times out.           *)
SessionEnds ==
    /\ live
    /\ ui' = Recredit(now, "dead")
    /\ live' = FALSE
    /\ elevated' = FALSE

ElevationEnds ==
    /\ elevated
    /\ elevated' = FALSE
    /\ ui' = now
    /\ UNCHANGED live

Next ==
    \/ \E old \in BOOLEAN : Login(old)
    \/ \E s \in Slots, op \in Offered : Launch(s, op)
    \/ \E s \in Slots : CancelTransfer(s) \/ Serve(s) \/ Deliver(s)
    \/ \E yes \in BOOLEAN : AnswerConfirm(yes)
    \/ CancelForm \/ CloseModal \/ CancelElevation \/ SubmitElevation
    \/ \E own, ok \in BOOLEAN : ElevationAnswer(own, ok)
    \/ \E p \in Pages : Navigate(p)
    \/ KdfPrompt \/ LoggedOut \/ SessionEnds \/ ElevationEnds

Spec == Init /\ [][Next]_vars
-----------------------------------------------------------------------------
WorkingFlags == {"none"} \cup {o.name : o \in Ops}

(* Between actions every handler is at an await or over, the dialog and the*)
(* question name handlers there are, and only a live session is elevated.  *)
TypeOK ==
    /\ live \in BOOLEAN /\ elevated \in BOOLEAN
    /\ elevated => live
    /\ ui.route \in Pages
    /\ ui.asked \in Slots \cup {NoSlot}
    /\ ui.working \in WorkingFlags
    /\ \A s \in Slots : LET r == ui.runs[s] IN
          /\ r.st \in {"sent", "replied", "confirm", "elevate", "dead", "done"}
          /\ r.pc \in 0 .. Len(r.op.steps) + 1
          /\ Running(r) => r.pc \in DOMAIN r.op.steps /\ Step(r) \in Awaits

Asks(r) == "confirm" \in {r.op.steps[i] : i \in DOMAIN r.op.steps}

(* Cancelling is visible and writes nothing: the server carries out a      *)
(* write of an operation that asks only if the user pressed the confirm    *)
(* button of the dialog that asked about this very operation, whatever     *)
(* else opened, closed or replaced that dialog meanwhile (confirmAction,   *)
(* closeModal).                                                            *)
WriteOnlyConfirmed ==
    \A s \in Slots : LET r == ui.runs[s] IN
        Asks(r) /\ r.hits # {} => r.yes

SuccessAfterServer ==
    \A s \in Slots : LET r == ui.runs[s] IN
        r.notice = "success" =>
            \A i \in DOMAIN r.op.steps : r.op.steps[i] \in Writes => i \in r.hits

WriteOnce == \A s \in Slots : ~ui.runs[s].twice

(* Asking for the second factor and sending the request again is safe: the *)
(* server never carries the same write out twice, and the success toast    *)
(* comes after it carried out every write of the operation, the retried    *)
(* ones included (secureApi, uploadApi).                                   *)
RetriesSafe == SuccessAfterServer /\ WriteOnce

(* Whoever waits for the second factor waits on the promise the shell still*)
(* holds, so an answer or a refusal reaches all of them, whichever session *)
(* end, dialog or retry came between (elevationPromise, resetAuth).        *)
WaitersHeld == Waiting(ui) # {} => ui.pending

GatedPages ==
    {p \in Pages \ {"dashboard"} : \A o \in Operations :
        o.page = p /\ "busy" \in {o.steps[i] : i \in DOMAIN o.steps}
            => o.gate = "page" /\ o.from = "page"}

(* On a page all of whose operations are disabled by its working flag, at  *)
(* most one of them runs in the mounted page, through questions, second    *)
(* factor, page changes and logins (busy: working, the finally blocks).    *)
OneAtATime ==
    ui.route \in GatedPages =>
        Cardinality({s \in Slots : LET r == ui.runs[s] IN
            Running(r) /\ SetWorking(r) /\ r.page /\ r.op.page = ui.route}) <= 1

Declining(r) == Asks(r) /\ ~r.yes
Finished(r) == r.pc > Len(r.op.steps)

(* An operation that stops early was declined or says why, unless its      *)
(* handler has no catch: the editor's save, the restore of the diff dialog *)
(* and the cancel of a device login (Failed, Abort).                       *)
OutcomeShown ==
    \A s \in Slots : LET r == ui.runs[s] IN
        ~Running(r) /\ r.op.caught /\ r.op # NoOp =>
            Finished(r) \/ Declining(r) \/ r.notice \in {"error", "info"}

(* No operation is lost in silence: every one that stops early and was not *)
(* declined by the user has shown an error, and none is left suspended     *)
(* with nothing that could wake it.                                        *)
NoSilentEnd ==
    \A s \in Slots : LET r == ui.runs[s] IN
        /\ r.st # "dead"
        /\ ~Running(r) /\ r.op # NoOp =>
              Finished(r) \/ Declining(r) \/ r.notice \in {"error", "info"}
=============================================================================
