--------------------------- MODULE PanelShell_proofs ---------------------------
(***************************************************************************)
(* Proofs about PanelShell for any number of handlers in progress, any     *)
(* operations among those of PanelPages and any page changes: what the     *)
(* browser's handlers do to each other through the one dialog, the one     *)
(* question, the one second-factor promise and the page's working flag.    *)
(***************************************************************************)
EXTENDS PanelShell, FiniteSetTheorems, WellFoundedInduction, TLAPS

Creds == {"none", "live", "dead", "bare", "left"}
Handlers ==
    [op : Ops \cup {NoOp}, pc : Nat,
     st : {"running", "sent", "replied", "confirm", "elevate", "dead", "done"},
     reply : {"none", "ok", "failed", "unauth", "forbidden"}, cred : Creds,
     retried : BOOLEAN, aborted : BOOLEAN, page : BOOLEAN, form : BOOLEAN, yes : BOOLEAN,
     hits : SUBSET Nat, twice : BOOLEAN, notice : {"none", "success", "error", "info"}]
Dialogs == {"none", "confirm", "elevate", "kdf"} \cup {o.opens : o \in Operations}
Modals == [dlg : Dialogs, for : Slots \cup {NoSlot}, home : BOOLEAN, sent : Creds]
Browsers ==
    [identity : BOOLEAN, route : Pages, modal : Modals, asked : Slots \cup {NoSlot},
     pending : BOOLEAN, working : {"none"} \cup {o.name : o \in Ops}, kdf : BOOLEAN, stray : Creds,
     runs : [Slots -> Handlers]]

(* Every write among the steps before the i-th has been carried out.       *)
WrittenBefore(r, i) ==
    \A k \in DOMAIN r.op.steps : k < i /\ r.op.steps[k] \in Writes => k \in r.hits
WrittenAll(r) == \A k \in DOMAIN r.op.steps : r.op.steps[k] \in Writes => k \in r.hits

(* Between two actions, and inside one while it is "running", a handler    *)
(* stands at an await or before its first step (Placed); it has not left   *)
(* the question without a yes (Agreed); its hits are those of the steps    *)
(* behind it and of an answer that is not retried (Hit); its success toast *)
(* came last (Told); and it has not ended in silence (Spoken).             *)
Placed(r) ==
    /\ r.pc \in 0 .. Len(r.op.steps) + 1
    /\ r.st = "confirm" => r.pc \in DOMAIN r.op.steps /\ Step(r) = "confirm"
    /\ r.st \in {"sent", "replied", "elevate", "dead"} \/ (r.st = "running" /\ r.pc # 0) =>
          r.pc \in DOMAIN r.op.steps /\ Step(r) \in Awaits \ {"confirm"}
Agreed(r) ==
    /\ Asks(r) /\ ~r.yes => r.hits = {} /\ (r.st \in {"confirm", "done"} \/ r.pc = 0)
    /\ r.st = "confirm" => Asks(r) /\ r.hits = {} /\ r.pc = 1
Hit(r) ==
    /\ ~r.twice /\ r.hits \subseteq 0 .. r.pc
    /\ WrittenBefore(r, r.pc)
    /\ r.pc \in r.hits =>
          r.st = "done" \/ (r.st \in {"replied", "running"} /\ r.reply \in {"ok", "failed"})
    /\ r.st \in {"replied", "running"} /\ r.reply = "ok" => WrittenBefore(r, r.pc + 1)
Told(r) == r.notice = "success" => WrittenAll(r)
Spoken(r) ==
    ~Running(r) /\ r.op.caught /\ r.op # NoOp =>
        Finished(r) \/ Declining(r) \/ r.notice \in {"error", "info"}
HandlerInv(r) == Placed(r) /\ Agreed(r) /\ Hit(r) /\ Told(r) /\ Spoken(r)

(* A handler that holds its page's working flag.                           *)
Holds(r) == Running(r) /\ SetWorking(r) /\ r.page
Works(op) == \E k \in DOMAIN op.steps : op.steps[k] = "busy"

(* The question names a handler that waits for it, and so does its dialog. *)
Questioned(u) ==
    u.asked # NoSlot =>
        /\ u.runs[u.asked].st = "confirm" /\ ~u.runs[u.asked].yes
        /\ u.modal.dlg = "confirm" => u.modal.for = u.asked
Promised(u) == \A s \in Slots : u.runs[s].st = "elevate" => u.pending

(* What is mounted belongs to the route.                                   *)
Mounted(u) ==
    /\ \A s \in Slots : LET r == u.runs[s] IN Running(r) /\ r.page => r.op.page = u.route
    /\ u.modal.home => \A o \in Operations : o.from = u.modal.dlg => o.page = u.route

(* On a gated page one handler at most holds the working flag, the flag is *)
(* set while one does, and none does while a handler that is going to set  *)
(* it shows its question.                                                  *)
Gated(u) ==
    u.route \in GatedPages =>
        /\ \A s \in Slots : Holds(u.runs[s]) => u.working # "none"
        /\ \A s, t \in Slots : Holds(u.runs[s]) /\ Holds(u.runs[t]) => s = t
        /\ u.modal.dlg = "confirm" /\ u.asked # NoSlot
              /\ u.runs[u.asked].page /\ Works(u.runs[u.asked].op)
           => \A t \in Slots : ~Holds(u.runs[t])

BrowserInv(u) ==
    /\ u \in Browsers
    /\ \A s \in Slots : HandlerInv(u.runs[s])
    /\ Questioned(u) /\ Promised(u) /\ Mounted(u) /\ Gated(u)

(* No credential of a session that ended is taken for the live one's.      *)
Sent(u) == {u.stray, u.modal.sent}
Current(u, l) == "live" \in Sent(u) => l

ShellInv ==
    /\ BrowserInv(ui) /\ \A s \in Slots : ui.runs[s].st # "running"
    /\ live \in BOOLEAN /\ elevated \in BOOLEAN
    /\ Current(ui, live) /\ (elevated => live)
-----------------------------------------------------------------------------
(* A set of naturals that is not empty has a smallest member.              *)
LEMMA Smallest ==
  ASSUME NEW S \in SUBSET Nat, S # {}
  PROVE  \E m \in S : \A n \in S : m <= n
<1> DEFINE R == OpToRel(<, Nat)
<1>1. PICK m \in S : \A n \in S : ~(<<n, m>> \in R)
  <2>1. IsWellFoundedOn(R, Nat)
    BY NatLessThanWellFounded
  <2> HIDE DEF R
  <2> QED BY <2>1, WFMin
<1>2. \A n \in S : ~(n < m)
  BY <1>1 DEF OpToRel
<1> HIDE DEF R
<1> QED BY <1>2

(* The steps of any handler, that of no operation included.                *)
LEMMA StepsFacts ==
  ASSUME NEW op \in Ops \cup {NoOp}
  PROVE  /\ op.steps \in Seq(Awaits \cup ShellCalls) /\ Len(op.steps) \in Nat
         /\ DOMAIN op.steps = 1 .. Len(op.steps)
         /\ \A i, j \in DOMAIN op.steps :
               /\ op.steps[i] = "confirm" => i = 1
               /\ i < j =>
                   /\ op.steps[j] = "busy" => op.steps[i] \notin Awaits \ {"confirm"}
                   /\ op.steps[i] = "success" => op.steps[j] \notin Writes
<1>1. CASE op \in Ops
  BY <1>1, StepsAssumption, ShellAssumption
<1>2. CASE op = NoOp
  BY <1>2 DEF NoOp
<1> QED BY <1>1, <1>2

(* NextAwait finds the next await, or the end: nothing in between waits.   *)
LEMMA NextAwaitFacts ==
  ASSUME NEW op \in Ops \cup {NoOp}, NEW i \in 0 .. Len(op.steps)
  PROVE  LET j == NextAwait(op, i)
         IN  /\ j \in i + 1 .. Len(op.steps) + 1
             /\ j > Len(op.steps) \/ (j \in DOMAIN op.steps /\ op.steps[j] \in Awaits)
             /\ \A k \in i + 1 .. j - 1 : k \in DOMAIN op.steps /\ op.steps[k] \notin Awaits
<1> DEFINE n == Len(op.steps)
           W == {j \in i + 1 .. n + 1 : j > n \/ op.steps[j] \in Awaits}
<1>1. n \in Nat /\ DOMAIN op.steps = 1 .. n
  BY StepsFacts
<1>2. n + 1 \in W /\ W \in SUBSET Nat
  BY <1>1
<1>3. PICK m \in W : \A k \in W : m <= k
  BY <1>2, Smallest
<1>4. /\ m \in i + 1 .. n + 1
      /\ m > n \/ op.steps[m] \in Awaits
      /\ \A k \in i + 1 .. m - 1 : op.steps[k] \notin Awaits
  BY <1>1, <1>3
<1>5. LET j == NextAwait(op, i)
      IN  /\ j \in i + 1 .. n + 1
          /\ j > n \/ op.steps[j] \in Awaits
          /\ \A k \in i + 1 .. j - 1 : op.steps[k] \notin Awaits
  BY <1>4, Zenon DEF NextAwait
<1> QED BY <1>1, <1>5

(* Nothing starts with the handler of no operation.                        *)
LEMMA IdleFacts ==
  /\ Idle \in Handlers /\ HandlerInv(Idle) /\ Idle.st = "done"
  /\ Idle.page = FALSE /\ Idle.op = NoOp
<1>1. /\ Idle.op = NoOp /\ Idle.pc = 0 /\ Idle.st = "done" /\ Idle.page = FALSE
      /\ Idle.hits = {} /\ Idle.twice = FALSE /\ Idle.notice = "none" /\ Idle.yes = FALSE
  BY DEF Idle, Handler
<1>2. NoOp.steps = <<>> /\ DOMAIN NoOp.steps = {} /\ Len(NoOp.steps) = 0
  BY DEF NoOp
<1>3. HandlerInv(Idle)
  BY <1>1, <1>2 DEF HandlerInv, Placed, Agreed, Hit, Told, Spoken, WrittenBefore,
     WrittenAll, Running, Asks
<1>4. Idle \in Handlers
  BY DEF Idle, Handler, Handlers, NoOp, Creds
<1> QED BY <1>1, <1>3, <1>4

-----------------------------------------------------------------------------
(* What the shell's functions leave alone of a handler: r becomes q, which *)
(* goes on where r was, perhaps off its page, or has ended saying why.     *)
Same(r, q) ==
    /\ q \in Handlers
    /\ q.op = r.op /\ q.pc = r.pc /\ q.reply = r.reply /\ q.yes = r.yes /\ q.hits = r.hits
    /\ q.twice = r.twice /\ (q.page => r.page)
Ended(r, q) ==
    /\ Running(r) /\ q.st = "done" /\ Spoken(q)
    /\ q.notice \in {r.notice, "error", "info"}
Tame(r, q) == Same(r, q) /\ ((q.st = r.st /\ q.notice = r.notice) \/ Ended(r, q))

(* Such a step keeps what a handler's invariant says.                      *)
LEMMA TameKeeps ==
  ASSUME NEW r \in Handlers, NEW q, HandlerInv(r), Tame(r, q)
  PROVE  HandlerInv(q) /\ (Holds(q) => Holds(r)) /\ (Running(q) => Running(r))
<1>1. Placed(q)
  BY DEF HandlerInv, Tame, Same, Ended, Placed, Step
<1>2. Agreed(q)
  BY DEF HandlerInv, Tame, Same, Ended, Agreed, Asks
<1>3. Hit(q)
  BY DEF HandlerInv, Tame, Same, Ended, Hit, WrittenBefore
<1>4. Told(q)
  BY DEF HandlerInv, Tame, Same, Ended, Told, WrittenAll
<1>5. Spoken(q)
  BY DEF HandlerInv, Tame, Same, Ended, Spoken, Running, Finished, Declining, Asks
<1>6. (Holds(q) => Holds(r)) /\ (Running(q) => Running(r))
  BY DEF Tame, Same, Ended, Holds, Running, SetWorking
<1> QED BY <1>1, <1>2, <1>3, <1>4, <1>5, <1>6 DEF HandlerInv

(* Two such steps are one.                                                 *)
LEMMA TameTrans ==
  ASSUME NEW r, NEW q, NEW p, Tame(r, q), Tame(q, p)
  PROVE  Tame(r, p)
<1>1. Same(r, p)
  BY DEF Tame, Same
<1>2. CASE p.st = q.st /\ p.notice = q.notice
  <2>1. Ended(r, q) => Ended(r, p)
    BY <1>1, <1>2 DEF Tame, Same, Ended, Spoken, Running, Finished, Declining, Asks
  <2> QED BY <1>1, <1>2, <2>1 DEF Tame
<1>3. CASE Ended(q, p)
  <2>1. q.st = r.st /\ q.notice = r.notice
    BY <1>3 DEF Tame, Ended, Running
  <2> QED BY <1>1, <1>3, <2>1 DEF Tame, Ended, Running
<1> QED BY <1>2, <1>3 DEF Tame

(* An aborted transfer ends with a notice, a handler elsewhere remembers.  *)
LEMMA AbortFacts ==
  ASSUME NEW r \in Handlers
  PROVE  /\ Tame(r, Abort(r)) /\ Abort(r).page = r.page
         /\ Abort(r).st = r.st \/ r.st \in {"sent", "replied"}
<1>1. Abort(r) \in Handlers
  BY DEF Abort, Handlers
<1> QED BY <1>1 DEF Abort, Handlers, Tame, Same, Ended, Running, Spoken

(* A dialog's content goes away; only a transfer of it may end.            *)
LEMMA UnmountFacts ==
  ASSUME NEW r \in Handlers
  PROVE  /\ Tame(r, Unmount(r)) /\ Unmount(r).page = r.page
         /\ Unmount(r).st = r.st \/ r.st \in {"sent", "replied"}
<1> DEFINE q == [r EXCEPT !.form = FALSE]
<1>1. q \in Handlers /\ q.op = r.op /\ q.pc = r.pc /\ q.reply = r.reply /\ q.yes = r.yes
      /\ q.hits = r.hits /\ q.twice = r.twice /\ q.page = r.page /\ q.st = r.st
      /\ q.notice = r.notice
  BY DEF Handlers
<1>2. Unmount(r) = IF r.form /\ Running(r) /\ r.op.from = "assets" THEN Abort(q) ELSE q
  BY DEF Unmount
<1> HIDE DEF q
<1>3. Tame(r, q)
  BY <1>1 DEF Tame, Same
<1>4. CASE r.form /\ Running(r) /\ r.op.from = "assets"
  <2>1. Running(q)
    BY <1>1, <1>4 DEF Running
  <2>2. Tame(q, Abort(q)) /\ Abort(q).page = q.page
        /\ (Abort(q).st = q.st \/ q.st \in {"sent", "replied"})
    BY <1>1, <2>1, AbortFacts
  <2> QED BY <1>1, <1>2, <1>4, <2>2 DEF Tame, Same, Ended, Running
<1> QED BY <1>1, <1>2, <1>3, <1>4

-----------------------------------------------------------------------------
(* What those functions leave alone of the browser: u becomes v.           *)
Proper(m, route) == m.home => \A o \in Operations : o.from = m.dlg => o.page = route
Silent(u) == \A s \in Slots : ~Holds(u.runs[s])
After(u, v) ==
    /\ v \in Browsers /\ v.route = u.route
    /\ \A s \in Slots : Tame(u.runs[s], v.runs[s])
    /\ v.asked \in {u.asked, NoSlot}
    /\ v.asked # NoSlot => v.runs[v.asked].st = u.runs[v.asked].st
    /\ v.modal.dlg = "confirm" => u.modal.dlg = "confirm" /\ v.modal.for = u.modal.for
    /\ Proper(v.modal, u.route)
    /\ Promised(v)
    /\ v.working = u.working \/ (u.route \in GatedPages => Silent(v))
    /\ Sent(v) \subseteq Sent(u) \cup {"none"}

(* What holds of the browser survives such a step.                         *)
LEMMA AfterKeeps ==
  ASSUME NEW u, NEW v, BrowserInv(u), After(u, v)
  PROVE  BrowserInv(v)
<1>1. u \in Browsers /\ v \in Browsers /\ v.route = u.route
  BY DEF BrowserInv, After
<1>2. \A s \in Slots : u.runs[s] \in Handlers /\ v.runs[s] \in Handlers
  BY <1>1 DEF Browsers
<1>3. \A s \in Slots : /\ HandlerInv(v.runs[s])
                       /\ Holds(v.runs[s]) => Holds(u.runs[s])
                       /\ Running(v.runs[s]) => Running(u.runs[s])
  BY <1>2, TameKeeps DEF BrowserInv, After
<1>4. Questioned(v)
  BY <1>1 DEF BrowserInv, After, Questioned, Browsers, Tame, Same
<1>5. Promised(v)
  BY DEF After
<1>6. Mounted(v)
  <2>1. \A s \in Slots : Running(v.runs[s]) /\ v.runs[s].page => v.runs[s].op.page = v.route
    BY <1>1, <1>3 DEF BrowserInv, Mounted, After, Tame, Same
  <2> QED BY <1>1, <2>1 DEF After, Mounted, Proper
<1>7. Gated(v)
  <2> SUFFICES ASSUME u.route \in GatedPages
               PROVE  /\ \A s \in Slots : Holds(v.runs[s]) => v.working # "none"
                      /\ \A s, t \in Slots : Holds(v.runs[s]) /\ Holds(v.runs[t]) => s = t
                      /\ v.modal.dlg = "confirm" /\ v.asked # NoSlot
                            /\ v.runs[v.asked].page /\ Works(v.runs[v.asked].op)
                         => \A t \in Slots : ~Holds(v.runs[t])
    BY <1>1 DEF Gated
  <2>1. /\ \A s \in Slots : Holds(u.runs[s]) => u.working # "none"
        /\ \A s, t \in Slots : Holds(u.runs[s]) /\ Holds(u.runs[t]) => s = t
        /\ u.modal.dlg = "confirm" /\ u.asked # NoSlot
              /\ u.runs[u.asked].page /\ Works(u.runs[u.asked].op)
           => \A t \in Slots : ~Holds(u.runs[t])
    BY DEF BrowserInv, Gated
  <2>2. \A s \in Slots : Holds(v.runs[s]) => v.working # "none"
    BY <1>3, <2>1 DEF After, Silent
  <2>3. \A s, t \in Slots : Holds(v.runs[s]) /\ Holds(v.runs[t]) => s = t
    BY <1>3, <2>1
  <2>4. ASSUME v.modal.dlg = "confirm", v.asked # NoSlot, v.runs[v.asked].page,
               Works(v.runs[v.asked].op)
        PROVE  \A t \in Slots : ~Holds(v.runs[t])
    <3>1. v.asked = u.asked /\ v.asked \in Slots /\ u.modal.dlg = "confirm"
      BY <1>1, <2>4 DEF After, Browsers
    <3>2. u.runs[u.asked].page /\ Works(u.runs[u.asked].op)
      BY <2>4, <3>1 DEF After, Tame, Same
    <3> QED BY <1>3, <2>1, <2>4, <3>1, <3>2
  <2> QED BY <2>2, <2>3, <2>4
<1> QED BY <1>1, <1>3, <1>4, <1>5, <1>6, <1>7 DEF BrowserInv

(* setModal(m): handlers stay, but for transfers of a form that goes away. *)
LEMMA ShownFacts ==
  ASSUME NEW u \in Browsers, NEW m \in Modals
  PROVE  LET v == Shown(u, m)
         IN  /\ v \in Browsers /\ v.modal = m /\ v.stray \in Sent(u)
             /\ v.identity = u.identity /\ v.route = u.route /\ v.asked = u.asked
             /\ v.pending = u.pending /\ v.working = u.working /\ v.kdf = u.kdf
             /\ \A s \in Slots : /\ v.runs[s] = Unmount(u.runs[s])
                                 /\ Tame(u.runs[s], v.runs[s])
                                 /\ v.runs[s].page = u.runs[s].page
                                 /\ v.runs[s].st = u.runs[s].st
                                    \/ u.runs[s].st \in {"sent", "replied"}
<1> DEFINE v == Shown(u, m)
           f == [s \in Slots |-> Unmount(u.runs[s])]
           c == IF u.modal.sent # "none" THEN u.modal.sent ELSE u.stray
<1>1. \A s \in Slots : u.runs[s] \in Handlers
  BY DEF Browsers
<1>2. \A s \in Slots : /\ Tame(u.runs[s], f[s]) /\ f[s].page = u.runs[s].page
                       /\ f[s].st = u.runs[s].st \/ u.runs[s].st \in {"sent", "replied"}
  BY <1>1, UnmountFacts
<1>3. f \in [Slots -> Handlers]
  BY <1>2 DEF Tame, Same
<1>4. c \in Creds /\ c \in Sent(u)
  BY DEF Browsers, Modals, Sent
<1>5. v = [u EXCEPT !.modal = m, !.stray = c, !.runs = f]
  BY DEF Shown
<1>6. \A s \in Slots : f[s] = Unmount(u.runs[s])
  OBVIOUS
<1> HIDE DEF f, c
<1>7. /\ v \in Browsers /\ v.modal = m /\ v.stray = c /\ v.runs = f
      /\ v.identity = u.identity /\ v.route = u.route /\ v.asked = u.asked
      /\ v.pending = u.pending /\ v.working = u.working /\ v.kdf = u.kdf
  BY <1>3, <1>4, <1>5 DEF Browsers
<1> HIDE DEF v
<1> QED BY <1>2, <1>4, <1>6, <1>7 DEF v

(* Showing a dialog that asks nothing is such a step.                      *)
LEMMA ShownAfter ==
  ASSUME NEW u, BrowserInv(u), NEW m \in Modals, m.sent = "none", m.dlg # "confirm",
         Proper(m, u.route)
  PROVE  After(u, Shown(u, m)) /\ BrowserInv(Shown(u, m))
<1> DEFINE v == Shown(u, m)
<1>1. u \in Browsers /\ Promised(u) /\ Questioned(u)
  BY DEF BrowserInv
<1>2. /\ v \in Browsers /\ v.modal = m /\ v.stray \in Sent(u)
      /\ v.route = u.route /\ v.asked = u.asked
      /\ v.pending = u.pending /\ v.working = u.working
      /\ \A s \in Slots : /\ Tame(u.runs[s], v.runs[s])
                          /\ v.runs[s].st = u.runs[s].st \/ u.runs[s].st \in {"sent", "replied"}
  BY <1>1, ShownFacts
<1> HIDE DEF v
<1>3. Promised(v)
  BY <1>1, <1>2 DEF Promised, Tame, Ended
<1>4. v.asked # NoSlot => v.runs[v.asked].st = u.runs[v.asked].st
  BY <1>1, <1>2 DEF Questioned, Browsers
<1>5. Sent(v) \subseteq Sent(u) \cup {"none"}
  BY <1>2 DEF Sent
<1>6. After(u, v)
  BY <1>2, <1>3, <1>4, <1>5 DEF After
<1> QED BY <1>6, AfterKeeps DEF v

-----------------------------------------------------------------------------
(* Handler s stands where it stood.                                        *)
Stays(u, v, s) ==
    LET r == u.runs[s]
        q == v.runs[s]
    IN  /\ q \in Handlers
        /\ q.op = r.op /\ q.pc = r.pc /\ q.reply = r.reply /\ q.yes = r.yes /\ q.hits = r.hits
        /\ q.twice = r.twice /\ q.st = r.st /\ q.notice = r.notice

(* A handler whose page has gone is the same handler, without its page.    *)
Unchanged(r, q) ==
    /\ q.op = r.op /\ q.pc = r.pc /\ q.reply = r.reply /\ q.yes = r.yes /\ q.hits = r.hits
    /\ q.twice = r.twice /\ q.st = r.st /\ q.notice = r.notice
LEMMA AwayHandler ==
  ASSUME NEW r \in Handlers
  PROVE  LET q == [r EXCEPT !.page = FALSE]
         IN  q \in Handlers /\ ~q.page /\ Unchanged(r, q)
<1> DEFINE q == [r EXCEPT !.page = FALSE]
<1>1. q \in Handlers
  BY DEF Handlers
<1>2. ~q.page
  BY DEF Handlers
<1>3. q.op = r.op /\ q.pc = r.pc /\ q.reply = r.reply /\ q.yes = r.yes
  BY DEF Handlers
<1>4. q.hits = r.hits /\ q.twice = r.twice /\ q.st = r.st /\ q.notice = r.notice
  BY DEF Handlers
<1> QED BY <1>1, <1>2, <1>3, <1>4 DEF Unchanged

(* A handler whose state is the same has not moved.                        *)
LEMMA TameStays ==
  ASSUME NEW u, NEW v, NEW s, Tame(u.runs[s], v.runs[s]), v.runs[s].st = u.runs[s].st
  PROVE  Stays(u, v, s)
  BY DEF Tame, Same, Ended, Running, Stays

(* A handler that has ended is forgotten; the others are as they were.     *)
LEMMA NowFacts ==
  ASSUME BrowserInv(ui)
  PROVE  /\ BrowserInv(now) /\ Sent(now) = Sent(ui)
         /\ now.identity = ui.identity /\ now.route = ui.route /\ now.modal = ui.modal
         /\ now.asked = ui.asked /\ now.pending = ui.pending /\ now.working = ui.working
         /\ now.kdf = ui.kdf /\ now.stray = ui.stray
         /\ \A s \in Slots : now.runs[s] = IF Running(ui.runs[s]) THEN ui.runs[s] ELSE Idle
<1> DEFINE f == [s \in Slots |-> IF Running(ui.runs[s]) THEN ui.runs[s] ELSE Idle]
<1>1. ui \in Browsers /\ \A s \in Slots : ui.runs[s] \in Handlers /\ HandlerInv(ui.runs[s])
  BY DEF BrowserInv, Browsers
<1>2. f \in [Slots -> Handlers] /\ \A s \in Slots : HandlerInv(f[s])
  BY <1>1, IdleFacts
<1>3. \A s \in Slots : f[s] = IF Running(ui.runs[s]) THEN ui.runs[s] ELSE Idle
  OBVIOUS
<1>4. now = [ui EXCEPT !.runs = f]
  BY DEF now
<1> HIDE DEF f
<1>5. /\ now \in Browsers /\ now.runs = f
      /\ now.identity = ui.identity /\ now.route = ui.route /\ now.modal = ui.modal
      /\ now.asked = ui.asked /\ now.pending = ui.pending /\ now.working = ui.working
      /\ now.kdf = ui.kdf /\ now.stray = ui.stray
  BY <1>1, <1>2, <1>4 DEF Browsers
<1>6. \A s \in Slots : /\ Running(now.runs[s]) <=> Running(ui.runs[s])
                       /\ Running(ui.runs[s]) => now.runs[s] = ui.runs[s]
                       /\ Holds(now.runs[s]) <=> Holds(ui.runs[s])
  BY <1>3, <1>5, IdleFacts DEF Running, Holds
<1>7. Questioned(now)
  BY <1>1, <1>3, <1>5 DEF BrowserInv, Questioned, Browsers, Running
<1>8. Promised(now)
  BY <1>3, <1>5, IdleFacts DEF BrowserInv, Promised
<1>9. Mounted(now)
  BY <1>5, <1>6 DEF BrowserInv, Mounted
<1>10. Gated(now)
  <2>1. now.asked # NoSlot => now.runs[now.asked] = ui.runs[ui.asked]
    BY <1>1, <1>3, <1>5 DEF BrowserInv, Questioned, Browsers, Running
  <2> QED BY <1>5, <1>6, <2>1 DEF BrowserInv, Gated
<1>11. \A s \in Slots : HandlerInv(now.runs[s])
  BY <1>2, <1>5
<1>12. Sent(now) = Sent(ui)
  BY <1>5 DEF Sent
<1> QED BY <1>3, <1>5, <1>7, <1>8, <1>9, <1>10, <1>11, <1>12 DEF BrowserInv

(* The question is answered with no: its handler returns.                  *)
LEMMA DeclinedFacts ==
  ASSUME NEW u, BrowserInv(u)
  PROVE  LET v == Declined(u)
         IN  /\ BrowserInv(v) /\ After(u, v)
             /\ v.asked = NoSlot /\ v.modal = u.modal /\ v.route = u.route
             /\ v.working = u.working /\ v.identity = u.identity
             /\ \A s \in Slots \ {u.asked} : v.runs[s] = u.runs[s]
<1> DEFINE v == Declined(u)
           a == u.asked
           r == u.runs[a]
           q == [r EXCEPT !.st = "done"]
<1>1. u \in Browsers /\ Promised(u) /\ Mounted(u) /\ Questioned(u)
      /\ \A s \in Slots : u.runs[s] \in Handlers /\ HandlerInv(u.runs[s]) /\ Tame(u.runs[s], u.runs[s])
  BY DEF BrowserInv, Browsers, Tame, Same
<1>2. CASE a = NoSlot
  <2>1. v = u
    BY <1>2 DEF Declined
  <2>2. After(u, u)
    BY <1>1, <1>2 DEF After, Mounted, Proper
  <2> QED BY <1>2, <2>1, <2>2
<1>3. CASE a # NoSlot
  <2>1. a \in Slots /\ r.st = "confirm"
    BY <1>1, <1>3 DEF Browsers, Questioned
  <2>2. /\ v \in Browsers /\ v.asked = NoSlot /\ v.modal = u.modal /\ v.route = u.route
        /\ v.working = u.working /\ v.identity = u.identity /\ v.stray = u.stray
        /\ v.pending = u.pending
        /\ v.runs[a] = q
        /\ \A s \in Slots \ {a} : v.runs[s] = u.runs[s]
    <3> DEFINE f == [u.runs EXCEPT ![a] = q]
    <3>1. q \in Handlers
      BY <1>1, <2>1 DEF Handlers
    <3>2. v = [u EXCEPT !.runs = f, !.asked = NoSlot]
      BY <1>3 DEF Declined
    <3> HIDE DEF q
    <3>3. /\ f \in [Slots -> Handlers] /\ f[a] = q
          /\ \A s \in Slots \ {a} : f[s] = u.runs[s]
      BY <1>1, <2>1, <3>1 DEF Browsers
    <3> HIDE DEF f, v
    <3>4. /\ v \in Browsers /\ v.asked = NoSlot /\ v.modal = u.modal /\ v.route = u.route
          /\ v.working = u.working /\ v.identity = u.identity /\ v.stray = u.stray
          /\ v.pending = u.pending /\ v.runs = f
      BY <1>1, <3>2, <3>3 DEF Browsers
    <3> QED BY <3>3, <3>4
  <2>3. Tame(r, q)
    <3>1. /\ q \in Handlers /\ q.st = "done" /\ q.op = r.op /\ q.pc = r.pc /\ q.reply = r.reply
          /\ q.yes = r.yes /\ q.hits = r.hits /\ q.twice = r.twice /\ q.page = r.page
          /\ q.notice = r.notice
      BY <1>1, <2>1 DEF Handlers
    <3>2. Asks(r) /\ ~r.yes
      BY <1>1, <1>3, <2>1 DEF HandlerInv, Agreed, Questioned
    <3> HIDE DEF q
    <3>3. Spoken(q)
      BY <3>1, <3>2 DEF Spoken, Declining, Asks
    <3> QED BY <2>1, <3>1, <3>3 DEF Tame, Same, Ended, Running
  <2> HIDE DEF v, q
  <2>4. Promised(v)
    BY <1>1, <2>1, <2>2, <2>3 DEF Promised, Tame, Ended
  <2>5. \A s \in Slots : Tame(u.runs[s], v.runs[s])
    BY <1>1, <2>2, <2>3
  <2>6. After(u, v)
    BY <1>1, <2>2, <2>4, <2>5 DEF After, Mounted, Proper, Sent
  <2> QED BY <2>2, <2>6, AfterKeeps DEF v
<1> QED BY <1>2, <1>3

(* Whoever does not wait for an answer or a question stays through both.   *)
LEMMA ShownStays ==
  ASSUME NEW u, BrowserInv(u), NEW m \in Modals, m.sent = "none", m.dlg # "confirm",
         Proper(m, u.route), NEW s \in Slots, u.runs[s].st \notin {"sent", "replied"}
  PROVE  Stays(u, Shown(u, m), s) /\ Shown(u, m).runs[s].page = u.runs[s].page
  BY ShownFacts, TameStays DEF BrowserInv

(* No dialog at all is proper on every page.                               *)
LEMMA NoModalProper == NoModal \in Modals /\ NoModal.sent = "none" /\ NoModal.dlg # "confirm"
                       /\ \A p : Proper(NoModal, p)
<1>1. NoModal \in Modals
  BY DEF NoModal, Modals, Dialogs, Creds
<1>2. NoModal.sent = "none" /\ NoModal.dlg # "confirm" /\ NoModal.home = FALSE
  BY DEF NoModal
<1> QED BY <1>1, <1>2 DEF Proper

(* closeModal: the question is declined, no dialog is left.                *)
LEMMA CloseModalFacts ==
  ASSUME NEW u, BrowserInv(u)
  PROVE  LET v == closeModal(u)
         IN  /\ BrowserInv(v) /\ v.route = u.route /\ v.asked = NoSlot /\ v.working = u.working
             /\ v.modal = NoModal /\ v.identity = u.identity
             /\ Sent(v) \subseteq Sent(u) \cup {"none"}
             /\ \A s \in Slots : Holds(v.runs[s]) => Holds(u.runs[s])
             /\ \A s \in Slots : Tame(u.runs[s], v.runs[s])
             /\ \A s \in Slots \ {u.asked} : u.runs[s].st \notin {"sent", "replied"} =>
                   Stays(u, v, s) /\ v.runs[s].page = u.runs[s].page
<1> DEFINE d == Declined(u)
           v == Shown(d, NoModal)
<1>1. /\ BrowserInv(d) /\ After(u, d) /\ d.asked = NoSlot /\ d.route = u.route
      /\ d.working = u.working /\ d.identity = u.identity
      /\ \A s \in Slots \ {u.asked} : d.runs[s] = u.runs[s]
  BY DeclinedFacts
<1> HIDE DEF d
<1>2. BrowserInv(v) /\ After(d, v)
  BY <1>1, ShownAfter, NoModalProper
<1>3. /\ v.modal = NoModal /\ v.route = d.route /\ v.asked = d.asked /\ v.working = d.working
      /\ v.identity = d.identity
  BY <1>1, ShownFacts, NoModalProper DEF BrowserInv
<1>4. \A s \in Slots \ {u.asked} : u.runs[s].st \notin {"sent", "replied"} =>
          Stays(u, v, s) /\ v.runs[s].page = u.runs[s].page
  <2>1. ASSUME NEW s \in Slots \ {u.asked}, u.runs[s].st \notin {"sent", "replied"}
        PROVE  Stays(d, v, s) /\ v.runs[s].page = d.runs[s].page /\ d.runs[s] = u.runs[s]
    BY <1>1, <2>1, ShownStays, NoModalProper
  <2> QED BY <2>1 DEF Stays
<1> HIDE DEF v
<1>5. \A s \in Slots : /\ u.runs[s] \in Handlers /\ HandlerInv(u.runs[s])
                       /\ d.runs[s] \in Handlers /\ HandlerInv(d.runs[s])
  BY <1>1 DEF BrowserInv, Browsers
<1>6. \A s \in Slots : Holds(v.runs[s]) => Holds(u.runs[s])
  BY <1>1, <1>2, <1>5, TameKeeps DEF After
<1>7. \A s \in Slots : Tame(u.runs[s], v.runs[s])
  BY <1>1, <1>2, TameTrans DEF After
<1>8. Sent(v) \subseteq Sent(u) \cup {"none"}
  BY <1>1, <1>2 DEF After
<1> QED BY <1>1, <1>2, <1>3, <1>4, <1>6, <1>7, <1>8 DEF closeModal, v, d

-----------------------------------------------------------------------------
(* The holder of a gated page's flag is the only one, so nobody holds it   *)
(* once it has ended.                                                      *)
LEMMA LastHolder ==
  ASSUME NEW u, BrowserInv(u), u.route \in GatedPages, NEW s \in Slots,
         Running(u.runs[s]), SetWorking(u.runs[s]), u.runs[s].page,
         NEW v, \A t \in Slots : Holds(v.runs[t]) => Holds(u.runs[t]), ~Holds(v.runs[s])
  PROVE  Silent(v)
  BY DEF BrowserInv, Gated, Holds, Silent

(* controller.abort() of the transfers T.                                  *)
LEMMA AbortedKeeps ==
  ASSUME NEW u, BrowserInv(u), NEW T \in SUBSET Slots,
         \A t \in T : u.route \in GatedPages /\ SetWorking(u.runs[t]) /\ u.runs[t].page
                        /\ ~Running(u.runs[t]) => Silent(u)
  PROVE  LET v == Aborted(u, T)
         IN  /\ BrowserInv(v) /\ Sent(v) = Sent(u)
             /\ \A s \in Slots : u.runs[s].st # "running" => v.runs[s].st # "running"
             /\ \A s \in Slots \ T : v.runs[s] = u.runs[s]
<1> DEFINE v == Aborted(u, T)
           f == [t \in Slots |-> IF t \in T THEN Abort(u.runs[t]) ELSE u.runs[t]]
           stop == \E t \in T : /\ Abort(u.runs[t]).st = "done"
                                /\ SetWorking(u.runs[t]) /\ u.runs[t].page
           w == IF stop THEN "none" ELSE u.working
<1>1. /\ u \in Browsers /\ Promised(u) /\ Questioned(u) /\ Mounted(u)
      /\ \A s \in Slots : u.runs[s] \in Handlers /\ HandlerInv(u.runs[s])
  BY DEF BrowserInv, Browsers
<1>2. \A t \in Slots : /\ Tame(u.runs[t], f[t])
                       /\ f[t].st = u.runs[t].st \/ u.runs[t].st \in {"sent", "replied"}
                       /\ t \in T => f[t] = Abort(u.runs[t])
                       /\ t \notin T => f[t] = u.runs[t]
  <2>1. \A t \in Slots : Tame(u.runs[t], u.runs[t])
    BY <1>1 DEF Tame, Same
  <2> QED BY <1>1, <2>1, AbortFacts
<1>3. f \in [Slots -> Handlers]
  BY <1>2 DEF Tame, Same
<1>4. v = [u EXCEPT !.runs = f, !.working = w]
  BY DEF Aborted
<1>5. \A t \in Slots : (Holds(f[t]) => Holds(u.runs[t])) /\ (Running(f[t]) => Running(u.runs[t]))
  BY <1>1, <1>2, TameKeeps
<1>6. w \in {"none"} \cup {o.name : o \in Ops}
  BY <1>1 DEF Browsers
<1> HIDE DEF f
<1>7. v \in Browsers /\ v.runs = f /\ v.working = w /\ v.route = u.route /\ v.modal = u.modal
      /\ v.asked = u.asked /\ v.pending = u.pending /\ v.stray = u.stray
  <2> HIDE DEF w, v
  <2> QED BY <1>1, <1>3, <1>4, <1>6 DEF Browsers
<1>8. v.working = u.working \/ (u.route \in GatedPages => Silent(v))
  <2>1. CASE ~stop
    BY <1>7, <2>1
  <2>2. ASSUME NEW t \in T, Abort(u.runs[t]).st = "done", SetWorking(u.runs[t]), u.runs[t].page,
               u.route \in GatedPages
        PROVE  Silent(v)
    <3>1. ~Holds(f[t])
      BY <1>2, <2>2 DEF Holds, Running
    <3> HIDE DEF v
    <3>2. CASE Running(u.runs[t])
      BY <1>5, <1>7, <2>2, <3>1, <3>2, LastHolder
    <3>3. CASE ~Running(u.runs[t])
      BY <1>5, <1>7, <2>2, <3>3 DEF Silent
    <3> QED BY <3>2, <3>3
  <2> QED BY <2>1, <2>2
<1> HIDE DEF v, w, stop
<1>9. After(u, v)
  <2>1. Promised(v)
    BY <1>1, <1>2, <1>7 DEF Promised, Tame, Ended
  <2>2. v.asked # NoSlot => v.runs[v.asked].st = u.runs[v.asked].st
    BY <1>1, <1>2, <1>7 DEF Questioned, Browsers
  <2> QED BY <1>1, <1>2, <1>7, <1>8, <2>1, <2>2 DEF After, Sent, Mounted, Proper
<1>10. \A s \in Slots : u.runs[s].st # "running" => v.runs[s].st # "running"
  BY <1>2, <1>7 DEF Tame, Ended
<1> QED BY <1>2, <1>7, <1>9, <1>10, AfterKeeps DEF v, Sent

(* Handlers of S leave through catch and finally.                          *)
LEMMA FailedFacts ==
  ASSUME NEW u, u \in Browsers, Questioned(u), Promised(u), Mounted(u), Gated(u),
         \A s \in Slots : HandlerInv(u.runs[s]),
         NEW S \in SUBSET Slots, \A s \in S : u.runs[s].st \in {"running", "elevate"}
  PROVE  LET v == Failed(u, S)
         IN  /\ BrowserInv(v) /\ After(u, v) /\ Sent(v) = Sent(u)
             /\ v.modal = u.modal /\ v.identity = u.identity
             /\ \A s \in S : v.runs[s].st = "done"
             /\ \A s \in Slots \ S : v.runs[s] = u.runs[s]
<1> DEFINE v == Failed(u, S)
           e(r) == [r EXCEPT !.st = "done", !.notice = IF r.op.caught THEN "error" ELSE @]
           f == [s \in Slots |-> IF s \notin S THEN u.runs[s] ELSE e(u.runs[s])]
           stop == \E s \in S : SetWorking(u.runs[s]) /\ u.runs[s].page
           w == IF stop THEN "none" ELSE u.working
<1>1. /\ BrowserInv(u)
      /\ \A s \in Slots : u.runs[s] \in Handlers /\ HandlerInv(u.runs[s])
  BY DEF BrowserInv, Browsers
<1>2. \A s \in Slots : /\ Tame(u.runs[s], f[s])
                       /\ s \notin S => f[s] = u.runs[s]
                       /\ s \in S => f[s].st = "done"
  <2>1. ASSUME NEW r \in Handlers, Running(r)
        PROVE  Tame(r, e(r)) /\ e(r).st = "done"
    <3>1. /\ e(r) \in Handlers
          /\ e(r).op = r.op /\ e(r).pc = r.pc /\ e(r).reply = r.reply /\ e(r).yes = r.yes
          /\ e(r).hits = r.hits /\ e(r).twice = r.twice /\ e(r).page = r.page /\ e(r).st = "done"
          /\ e(r).notice = IF r.op.caught THEN "error" ELSE r.notice
      BY DEF Handlers
    <3> HIDE DEF e
    <3> QED BY <2>1, <3>1 DEF Tame, Same, Ended, Spoken
  <2>2. \A t \in Slots : Tame(u.runs[t], u.runs[t])
    BY <1>1 DEF Tame, Same
  <2>3. \A s \in S : Running(u.runs[s])
    BY DEF Running
  <2> HIDE DEF e
  <2> QED BY <1>1, <2>1, <2>2, <2>3
<1>3. f \in [Slots -> Handlers]
  <2> HIDE DEF e
  <2> QED BY <1>2 DEF Tame, Same
<1>4. v = [u EXCEPT !.runs = f, !.working = w]
  BY DEF Failed
<1> HIDE DEF e
<1>5. \A t \in Slots : (Holds(f[t]) => Holds(u.runs[t])) /\ (Running(f[t]) => Running(u.runs[t]))
  <2> HIDE DEF f
  <2> QED BY <1>1, <1>2, TameKeeps
<1>6. w \in {"none"} \cup {o.name : o \in Ops}
  BY <1>1 DEF Browsers
<1> HIDE DEF f
<1>7. v \in Browsers /\ v.runs = f /\ v.working = w /\ v.route = u.route /\ v.modal = u.modal
      /\ v.asked = u.asked /\ v.pending = u.pending /\ v.stray = u.stray /\ v.identity = u.identity
  <2> HIDE DEF w, v
  <2> QED BY <1>1, <1>3, <1>4, <1>6 DEF Browsers
<1>8. v.working = u.working \/ (u.route \in GatedPages => Silent(v))
  <2>1. CASE ~stop
    BY <1>7, <2>1
  <2>2. ASSUME NEW s \in S, SetWorking(u.runs[s]), u.runs[s].page, u.route \in GatedPages
        PROVE  Silent(v)
    <3>1. ~Holds(f[s]) /\ Running(u.runs[s])
      BY <1>2 DEF Holds, Running
    <3> HIDE DEF v
    <3> QED BY <1>1, <1>5, <1>7, <2>2, <3>1, LastHolder
  <2> QED BY <2>1, <2>2
<1> HIDE DEF v, w, stop
<1>9. After(u, v)
  <2>1. Promised(v)
    BY <1>2, <1>7 DEF Promised
  <2>2. v.asked # NoSlot => v.runs[v.asked].st = u.runs[v.asked].st
    BY <1>2, <1>7 DEF Questioned, Browsers
  <2> QED BY <1>2, <1>7, <1>8, <2>1, <2>2 DEF After, Sent, Mounted, Proper
<1> QED BY <1>1, <1>2, <1>7, <1>9, AfterKeeps DEF v, Sent

-----------------------------------------------------------------------------
(* The promise of the second factor is rejected: nobody waits any more.    *)
LEMMA RejectFacts ==
  ASSUME NEW u, BrowserInv(u)
  PROVE  LET v == rejectElevation(u)
         IN  /\ BrowserInv(v) /\ Sent(v) = Sent(u) /\ v.route = u.route /\ v.modal = u.modal
             /\ \A s \in Slots : Tame(u.runs[s], v.runs[s]) /\ v.runs[s].st # "elevate"
             /\ \A s \in Slots : u.runs[s].st # "elevate" => v.runs[s] = u.runs[s]
<1> DEFINE v == rejectElevation(u)
           x == Failed(u, Waiting(u))
<1>1. /\ u \in Browsers /\ Questioned(u) /\ Promised(u) /\ Mounted(u) /\ Gated(u)
      /\ \A s \in Slots : HandlerInv(u.runs[s]) /\ u.runs[s] \in Handlers
  BY DEF BrowserInv, Browsers
<1>2. CASE ~u.pending
  <2>1. v = u
    BY <1>2 DEF rejectElevation
  <2>2. \A s \in Slots : Tame(u.runs[s], u.runs[s]) /\ u.runs[s].st # "elevate"
    BY <1>1, <1>2 DEF Tame, Same, Promised
  <2> QED BY <2>1, <2>2
<1>3. CASE u.pending
  <2>1. v = [x EXCEPT !.pending = FALSE]
    BY <1>3 DEF rejectElevation
  <2>2. /\ BrowserInv(x) /\ After(u, x) /\ Sent(x) = Sent(u) /\ x.modal = u.modal
        /\ \A s \in Waiting(u) : x.runs[s].st = "done"
        /\ \A s \in Slots \ Waiting(u) : x.runs[s] = u.runs[s]
    <3>1. Waiting(u) \in SUBSET Slots /\ \A s \in Waiting(u) : u.runs[s].st \in {"running", "elevate"}
      BY DEF Waiting
    <3> QED BY <1>1, <3>1, FailedFacts
  <2> HIDE DEF x
  <2>3. \A s \in Slots : /\ x.runs[s].st # "elevate"
                         /\ u.runs[s].st # "elevate" => x.runs[s] = u.runs[s]
                         /\ Tame(u.runs[s], x.runs[s])
    BY <2>2 DEF Waiting, After
  <2>4. /\ v \in Browsers /\ v.runs = x.runs /\ v.modal = x.modal /\ v.route = x.route
        /\ v.asked = x.asked /\ v.working = x.working /\ v.stray = x.stray
    BY <2>1, <2>2 DEF BrowserInv, Browsers
  <2> HIDE DEF v
  <2>5. BrowserInv(v)
    BY <2>2, <2>3, <2>4 DEF BrowserInv, Questioned, Promised, Mounted, Gated
  <2> QED BY <2>2, <2>3, <2>4, <2>5 DEF v, Sent, After
<1> QED BY <1>2, <1>3

(* The identity and the page go; the handlers learn it at their next await.*)
LEMMA ResetFacts ==
  ASSUME NEW u, BrowserInv(u)
  PROVE  LET v == resetAuth(u)
         IN  /\ BrowserInv(v) /\ Sent(v) \subseteq Sent(u) \cup {"none"}
             /\ v.route = u.route /\ v.modal = NoModal
             /\ \A s \in Slots : Tame(u.runs[s], v.runs[s]) /\ ~v.runs[s].page
             /\ \A s \in Slots : u.runs[s].st \notin {"elevate", "sent", "replied"} =>
                   Stays(u, v, s)
<1> DEFINE x == rejectElevation(u)
           y == Shown(x, NoModal)
           v == resetAuth(u)
           f == [s \in Slots |-> [y.runs[s] EXCEPT !.page = FALSE]]
<1>1. /\ BrowserInv(x) /\ Sent(x) = Sent(u) /\ x.route = u.route
      /\ \A s \in Slots : Tame(u.runs[s], x.runs[s]) /\ x.runs[s].st # "elevate"
      /\ \A s \in Slots : u.runs[s].st # "elevate" => x.runs[s] = u.runs[s]
  BY RejectFacts
<1> HIDE DEF x
<1>2. BrowserInv(y) /\ After(x, y)
  BY <1>1, ShownAfter, NoModalProper
<1>3. y.modal = NoModal /\ \A s \in Slots : Tame(x.runs[s], y.runs[s])
      /\ (y.runs[s].st = x.runs[s].st \/ x.runs[s].st \in {"sent", "replied"})
  BY <1>1, ShownFacts, NoModalProper DEF BrowserInv
<1>4. v = [y EXCEPT !.identity = FALSE, !.kdf = FALSE, !.working = "none", !.runs = f]
  BY DEF resetAuth, x
<1> HIDE DEF y
<1>5. y \in Browsers /\ \A s \in Slots : y.runs[s] \in Handlers /\ HandlerInv(y.runs[s])
  BY <1>2 DEF BrowserInv, Browsers
<1>6. \A s \in Slots : /\ f[s] \in Handlers /\ Stays(y, [runs |-> f], s) /\ ~f[s].page
                       /\ Tame(y.runs[s], f[s])
  <2>1. ASSUME NEW s \in Slots
        PROVE  /\ f[s] \in Handlers /\ ~f[s].page
               /\ Stays(y, [runs |-> f], s) /\ Tame(y.runs[s], f[s])
    <3> DEFINE q == f[s]
    <3>1. q = [y.runs[s] EXCEPT !.page = FALSE]
      OBVIOUS
    <3> HIDE DEF f
    <3>2. y.runs[s] \in Handlers
      BY <1>5
    <3> HIDE DEF q
    <3>3. q \in Handlers /\ ~q.page /\ Unchanged(y.runs[s], q)
      BY <3>1, <3>2, AwayHandler
    <3>4. Stays(y, [runs |-> f], s) /\ Tame(y.runs[s], q)
      BY <3>3 DEF q, Unchanged, Stays, Tame, Same
    <3> QED BY <3>3, <3>4 DEF q
  <2> QED BY <2>1
<1>7. f \in [Slots -> Handlers]
  BY <1>6
<1> HIDE DEF f
<1>8. /\ v \in Browsers /\ v.runs = f /\ v.modal = y.modal /\ v.route = y.route
      /\ v.asked = y.asked /\ v.pending = y.pending /\ v.stray = y.stray
  BY <1>4, <1>5, <1>7 DEF Browsers
<1> HIDE DEF v
<1>9. After(y, v)
  <2>1. Silent(v)
    BY <1>6, <1>8 DEF Silent, Holds
  <2>2. Promised(v)
    BY <1>2, <1>6, <1>8 DEF BrowserInv, Promised, Stays
  <2>3. v.asked # NoSlot => v.runs[v.asked].st = y.runs[v.asked].st
    BY <1>5, <1>6, <1>8 DEF Browsers, Stays
  <2> QED BY <1>3, <1>6, <1>8, <2>1, <2>2, <2>3, NoModalProper DEF After, Sent
<1>10. BrowserInv(v)
  BY <1>2, <1>9, AfterKeeps
<1>11. Sent(v) \subseteq Sent(u) \cup {"none"} /\ v.route = u.route
  BY <1>1, <1>2, <1>9 DEF After
<1>12. \A s \in Slots : Tame(u.runs[s], v.runs[s]) /\ ~v.runs[s].page
  <2>1. \A s \in Slots : Tame(u.runs[s], y.runs[s])
    BY <1>1, <1>3, TameTrans
  <2> QED BY <1>6, <1>8, <1>9, <2>1, TameTrans DEF After
<1>13. ASSUME NEW s \in Slots, u.runs[s].st \notin {"elevate", "sent", "replied"}
       PROVE  Stays(u, v, s)
  <2>1. x.runs[s] = u.runs[s] /\ y.runs[s].st = x.runs[s].st
    BY <1>1, <1>3, <1>13
  <2>2. v.runs[s].st = u.runs[s].st
    BY <1>6, <1>8, <2>1 DEF Stays
  <2> QED BY <1>12, <2>2, TameStays
<1> QED BY <1>3, <1>8, <1>10, <1>11, <1>12, <1>13 DEF v

(* The page of the old route unmounts.                                     *)
LEMMA LeaveFacts ==
  ASSUME NEW u, BrowserInv(u), NEW p \in Pages
  PROVE  LET v == LeavePage(u, p)
         IN  /\ BrowserInv(v) /\ Sent(v) = Sent(u)
             /\ \A s \in Slots : Stays(u, v, s)
<1> DEFINE v == LeavePage(u, p)
           f == [s \in Slots |-> [u.runs[s] EXCEPT !.page = FALSE]]
           m == [u.modal EXCEPT !.home = FALSE]
<1>1. /\ u \in Browsers /\ \A s \in Slots : u.runs[s] \in Handlers /\ HandlerInv(u.runs[s])
  BY DEF BrowserInv, Browsers
<1>2. \A s \in Slots : /\ f[s] \in Handlers /\ ~f[s].page
                       /\ Stays(u, [runs |-> f], s) /\ Tame(u.runs[s], f[s])
  <2>1. ASSUME NEW s \in Slots
        PROVE  /\ f[s] \in Handlers /\ ~f[s].page
               /\ Stays(u, [runs |-> f], s) /\ Tame(u.runs[s], f[s])
    <3> DEFINE q == f[s]
    <3>1. q = [u.runs[s] EXCEPT !.page = FALSE]
      OBVIOUS
    <3> HIDE DEF f
    <3>2. u.runs[s] \in Handlers
      BY <1>1
    <3> HIDE DEF q
    <3>3. q \in Handlers /\ ~q.page /\ Unchanged(u.runs[s], q)
      BY <3>1, <3>2, AwayHandler
    <3>4. Stays(u, [runs |-> f], s) /\ Tame(u.runs[s], q)
      BY <3>3 DEF q, Unchanged, Stays, Tame, Same
    <3> QED BY <3>3, <3>4 DEF q
  <2> QED BY <2>1
<1>3. m \in Modals /\ m.dlg = u.modal.dlg /\ m.for = u.modal.for /\ ~m.home /\ m.sent = u.modal.sent
  BY <1>1 DEF Browsers, Modals
<1>4. v = [u EXCEPT !.route = p, !.working = "none", !.modal = m, !.runs = f]
  BY DEF LeavePage
<1>5. f \in [Slots -> Handlers]
  BY <1>2
<1> HIDE DEF f, m, v
<1>6. /\ v \in Browsers /\ v.runs = f /\ v.modal = m /\ v.route = p /\ v.asked = u.asked
      /\ v.pending = u.pending /\ v.stray = u.stray
  BY <1>1, <1>3, <1>4, <1>5 DEF Browsers
<1>7. \A s \in Slots : HandlerInv(v.runs[s]) /\ ~Holds(v.runs[s])
  BY <1>1, <1>2, <1>6, TameKeeps DEF Holds
<1>8. Questioned(v)
  BY <1>1, <1>2, <1>3, <1>6 DEF BrowserInv, Questioned, Browsers, Stays
<1>9. Promised(v) /\ Mounted(v) /\ Gated(v)
  BY <1>2, <1>3, <1>6, <1>7 DEF BrowserInv, Promised, Mounted, Gated, Stays
<1>10. \A s \in Slots : Stays(u, v, s)
  BY <1>2, <1>6 DEF Stays
<1> QED BY <1>3, <1>6, <1>7, <1>8, <1>9, <1>10 DEF BrowserInv, Sent, v

(* Requests under way lose their session.                                  *)
LEMMA RecreditFacts ==
  ASSUME NEW u, BrowserInv(u), NEW c \in {"left", "dead"}
  PROVE  LET v == Recredit(u, c)
         IN  /\ BrowserInv(v) /\ "live" \notin Sent(v)
             /\ v.identity = u.identity
             /\ \A s \in Slots : Stays(u, v, s)
<1> DEFINE v == Recredit(u, c)
           g(x) == IF x \in {"live", "bare"} THEN c ELSE x
           f == [s \in Slots |-> [u.runs[s] EXCEPT !.cred = g(@)]]
           m == [u.modal EXCEPT !.sent = g(@)]
           k == g(u.stray)
<1>1. /\ u \in Browsers /\ Mounted(u)
      /\ \A s \in Slots : u.runs[s] \in Handlers /\ HandlerInv(u.runs[s])
  BY DEF BrowserInv, Browsers
<1>2. \A x \in Creds : g(x) \in Creds /\ g(x) # "live"
  BY DEF Creds
<1> HIDE DEF g
<1>3. \A s \in Slots : /\ f[s] \in Handlers /\ f[s].page = u.runs[s].page
                       /\ Stays(u, [runs |-> f], s) /\ Tame(u.runs[s], f[s])
  BY <1>1, <1>2 DEF Handlers, Stays, Tame, Same
<1>4. m \in Modals /\ m.dlg = u.modal.dlg /\ m.for = u.modal.for /\ m.home = u.modal.home
      /\ m.sent # "live"
  BY <1>1, <1>2 DEF Browsers, Modals
<1>5. f \in [Slots -> Handlers] /\ k \in Creds /\ k # "live"
  BY <1>1, <1>2, <1>3 DEF Browsers
<1>6. v = [u EXCEPT !.stray = k, !.modal = m, !.runs = f]
  BY DEF Recredit, g
<1> HIDE DEF f, m, v, k
<1>7. /\ v \in Browsers /\ v.runs = f /\ v.modal = m /\ v.route = u.route /\ v.asked = u.asked
      /\ v.pending = u.pending /\ v.stray = k /\ v.working = u.working /\ v.identity = u.identity
  BY <1>1, <1>4, <1>5, <1>6 DEF Browsers
<1>8. \A s \in Slots : HandlerInv(v.runs[s]) /\ (Holds(v.runs[s]) <=> Holds(u.runs[s]))
  <2>1. \A s \in Slots : HandlerInv(v.runs[s])
    BY <1>1, <1>3, <1>7, TameKeeps
  <2>2. \A s \in Slots : Holds(v.runs[s]) <=> Holds(u.runs[s])
    BY <1>3, <1>7 DEF Holds, Stays, Running, SetWorking
  <2> QED BY <2>1, <2>2
<1>9. Questioned(v)
  BY <1>1, <1>3, <1>4, <1>7 DEF BrowserInv, Questioned, Browsers, Stays
<1>10. Promised(v) /\ Mounted(v)
  BY <1>3, <1>4, <1>7 DEF BrowserInv, Promised, Mounted, Stays, Running
<1>11. Gated(v)
  BY <1>1, <1>3, <1>4, <1>7, <1>8 DEF BrowserInv, Gated, Stays, Browsers
<1>12. \A s \in Slots : Stays(u, v, s)
  BY <1>3, <1>7 DEF Stays
<1> QED BY <1>4, <1>5, <1>7, <1>8, <1>9, <1>10, <1>11, <1>12 DEF BrowserInv, Sent, v

-----------------------------------------------------------------------------
(* Handler s moves on, and may take or give back the working flag.         *)
Put(u, v, s) ==
    /\ v \in Browsers
    /\ v.identity = u.identity /\ v.route = u.route /\ v.modal = u.modal
    /\ v.asked = u.asked /\ v.pending = u.pending /\ v.stray = u.stray
    /\ \A t \in Slots \ {s} : v.runs[t] = u.runs[t]

(* What it must keep to on a gated page: leave the flag alone, give back   *)
(* its own, or take it when nobody holds it and nobody is asked.           *)
FlagKept(u, v, s) ==
    u.route \in GatedPages =>
        \/ v.working = u.working /\ (Holds(v.runs[s]) => Holds(u.runs[s]))
        \/ Holds(u.runs[s]) /\ ~Holds(v.runs[s])
        \/ /\ Silent(u)
           /\ Holds(v.runs[s]) =>
                 v.working # "none" /\ (u.asked = NoSlot \/ u.modal.dlg # "confirm")

(* One handler moved on and kept to the rules: all is well.                *)
LEMMA PutKeeps ==
  ASSUME NEW u, BrowserInv(u), NEW s \in Slots, u.asked # s, NEW v, Put(u, v, s),
         HandlerInv(v.runs[s]), FlagKept(u, v, s),
         Running(v.runs[s]) /\ v.runs[s].page => v.runs[s].op.page = u.route,
         v.runs[s].st = "elevate" => u.pending
  PROVE  BrowserInv(v) /\ Sent(v) = Sent(u)
<1>1. \A t \in Slots : HandlerInv(v.runs[t])
  BY DEF BrowserInv, Put
<1>2. Questioned(v) /\ (u.asked # NoSlot => v.runs[u.asked] = u.runs[u.asked])
  BY DEF BrowserInv, Put, Questioned, Browsers
<1>3. Promised(v) /\ Mounted(v)
  BY DEF BrowserInv, Put, Promised, Mounted
<1>4. Gated(v)
  <2> SUFFICES ASSUME u.route \in GatedPages
               PROVE  /\ \A t \in Slots : Holds(v.runs[t]) => v.working # "none"
                      /\ \A t, w \in Slots : Holds(v.runs[t]) /\ Holds(v.runs[w]) => t = w
                      /\ u.modal.dlg = "confirm" /\ u.asked # NoSlot
                            /\ u.runs[u.asked].page /\ Works(u.runs[u.asked].op)
                         => \A t \in Slots : ~Holds(v.runs[t])
    BY <1>2 DEF Put, Gated
  <2>1. /\ \A t \in Slots : Holds(u.runs[t]) => u.working # "none"
        /\ \A t, w \in Slots : Holds(u.runs[t]) /\ Holds(u.runs[w]) => t = w
        /\ u.modal.dlg = "confirm" /\ u.asked # NoSlot
              /\ u.runs[u.asked].page /\ Works(u.runs[u.asked].op)
           => \A t \in Slots : ~Holds(u.runs[t])
    BY DEF BrowserInv, Gated
  <2>2. \A t \in Slots \ {s} : v.runs[t] = u.runs[t]
    BY DEF Put
  <2>3. CASE v.working = u.working /\ (Holds(v.runs[s]) => Holds(u.runs[s]))
    BY <2>1, <2>2, <2>3
  <2>4. CASE Holds(u.runs[s]) /\ ~Holds(v.runs[s])
    BY <2>1, <2>2, <2>4
  <2>5. CASE Silent(u) /\ (Holds(v.runs[s]) =>
                 v.working # "none" /\ (u.asked = NoSlot \/ u.modal.dlg # "confirm"))
    BY <2>2, <2>5 DEF Silent
  <2> QED BY <2>3, <2>4, <2>5 DEF FlagKept
<1> QED BY <1>1, <1>2, <1>3, <1>4 DEF BrowserInv, Put, Sent

(* A request leaves.                                                       *)
LEMMA SendFacts ==
  ASSUME NEW u \in Browsers, NEW s \in Slots, NEW retry \in BOOLEAN
  PROVE  LET v == Send(u, s, retry)
             r == u.runs[s]
             q == v.runs[s]
         IN  /\ Put(u, v, s) /\ v.working = u.working /\ v.kdf = u.kdf
             /\ q.st = "sent" /\ q.reply = "none"
             /\ q.op = r.op /\ q.pc = r.pc /\ q.yes = r.yes /\ q.hits = r.hits
             /\ q.twice = r.twice /\ q.notice = r.notice /\ q.page = r.page
<1> DEFINE v == Send(u, s, retry)
           r == u.runs[s]
           k == IF ~live THEN "dead" ELSE IF u.identity THEN "live" ELSE "bare"
           q == [r EXCEPT !.st = "sent", !.reply = "none", !.retried = retry, !.cred = k]
           f == [u.runs EXCEPT ![s] = q]
<1>1. r \in Handlers /\ k \in Creds
  BY DEF Browsers, Creds
<1>2. /\ q \in Handlers
      /\ q.st = "sent" /\ q.reply = "none"
      /\ q.op = r.op /\ q.pc = r.pc /\ q.yes = r.yes /\ q.hits = r.hits
      /\ q.twice = r.twice /\ q.notice = r.notice /\ q.page = r.page
  <2> HIDE DEF k, r
  <2>1. q \in Handlers
    BY <1>1 DEF Handlers
  <2>2. q.st = "sent" /\ q.reply = "none"
    BY <1>1 DEF Handlers
  <2>3. q.op = r.op /\ q.pc = r.pc /\ q.yes = r.yes /\ q.hits = r.hits
    BY <1>1 DEF Handlers
  <2>4. q.twice = r.twice /\ q.notice = r.notice /\ q.page = r.page
    BY <1>1 DEF Handlers
  <2> QED BY <2>1, <2>2, <2>3, <2>4
<1>3. v = [u EXCEPT !.runs = f]
  BY DEF Send, Browsers, Handlers
<1> HIDE DEF q
<1>4. /\ f \in [Slots -> Handlers] /\ f[s] = q
      /\ \A t \in Slots \ {s} : f[t] = u.runs[t]
  BY <1>2 DEF Browsers
<1> HIDE DEF f, v
<1>5. /\ v \in Browsers /\ v.runs = f /\ v.identity = u.identity /\ v.route = u.route
      /\ v.modal = u.modal /\ v.asked = u.asked /\ v.pending = u.pending /\ v.stray = u.stray
      /\ v.working = u.working /\ v.kdf = u.kdf
  BY <1>3, <1>4 DEF Browsers
<1> QED BY <1>2, <1>4, <1>5 DEF Put, v

-----------------------------------------------------------------------------
(* The dialogs that come and go while handler s runs on.                   *)
Passed(u, b, s) ==
    /\ BrowserInv(b) /\ b.route = u.route /\ b.working = u.working
    /\ b.asked \in {u.asked, NoSlot}
    /\ b.modal.dlg = "confirm" => u.modal.dlg = "confirm"
    /\ Sent(b) \subseteq Sent(u) \cup {"none"}
    /\ Stays(u, b, s) /\ b.runs[s].page = u.runs[s].page
    /\ Silent(u) => Silent(b)
    /\ \A t \in Slots : Tame(u.runs[t], b.runs[t])

(* Two such passages are one.                                              *)
LEMMA PassedTrans ==
  ASSUME NEW u, NEW a, NEW b, NEW s, Passed(u, a, s), Passed(a, b, s)
  PROVE  Passed(u, b, s)
<1>1. Stays(u, b, s) /\ b.runs[s].page = u.runs[s].page
  BY DEF Passed, Stays
<1>2. \A t \in Slots : Tame(u.runs[t], b.runs[t])
  BY TameTrans DEF Passed
<1> QED BY <1>1, <1>2 DEF Passed

(* Nothing came and went.                                                  *)
LEMMA PassedSelf ==
  ASSUME NEW u, BrowserInv(u), NEW s \in Slots
  PROVE  Passed(u, u, s)
<1>1. \A t \in Slots : Tame(u.runs[t], u.runs[t])
  BY DEF Tame, Same, BrowserInv, Browsers
<1> QED BY <1>1 DEF Passed, Stays, BrowserInv, Browsers

(* A dialog that asks nothing was shown.                                   *)
LEMMA ShownPassed ==
  ASSUME NEW u, BrowserInv(u), NEW m \in Modals, m.sent = "none", m.dlg # "confirm",
         Proper(m, u.route), NEW s \in Slots, u.runs[s].st \notin {"sent", "replied"}
  PROVE  Passed(u, Shown(u, m), s)
<1> DEFINE v == Shown(u, m)
<1>1. After(u, v) /\ BrowserInv(v)
  BY ShownAfter
<1>2. Stays(u, v, s) /\ v.runs[s].page = u.runs[s].page
  BY ShownStays
<1>3. v.modal = m /\ v.working = u.working /\ v.route = u.route /\ v.asked = u.asked
  BY ShownFacts DEF BrowserInv
<1> HIDE DEF v
<1>4. \A t \in Slots : Holds(v.runs[t]) => Holds(u.runs[t])
  <2>1. \A t \in Slots : u.runs[t] \in Handlers /\ HandlerInv(u.runs[t])
    BY DEF BrowserInv, Browsers
  <2> QED BY <1>1, <2>1, TameKeeps DEF After, Tame, Ended
<1>5. Silent(u) => Silent(v)
  BY <1>4 DEF Silent
<1> QED BY <1>1, <1>2, <1>3, <1>4, <1>5 DEF Passed, After, v

(* The dialog and its question were closed.                                *)
LEMMA ClosePassed ==
  ASSUME NEW u, BrowserInv(u), NEW s \in Slots, s # u.asked,
         u.runs[s].st \notin {"sent", "replied"}
  PROVE  Passed(u, closeModal(u), s)
<1> DEFINE v == closeModal(u)
<1>1. /\ BrowserInv(v) /\ v.route = u.route /\ v.asked = NoSlot /\ v.working = u.working
      /\ v.modal = NoModal
      /\ Sent(v) \subseteq Sent(u) \cup {"none"}
      /\ \A t \in Slots : Holds(v.runs[t]) => Holds(u.runs[t])
      /\ \A t \in Slots : Tame(u.runs[t], v.runs[t])
      /\ Stays(u, v, s) /\ v.runs[s].page = u.runs[s].page
  BY CloseModalFacts
<1> HIDE DEF v
<1>2. Silent(u) => Silent(v)
  BY <1>1 DEF Silent
<1> QED BY <1>1, <1>2, NoModalProper DEF Passed, v

(* An operation opens dialogs of its own page.                             *)
LEMMA DialogProper ==
  ASSUME NEW u, BrowserInv(u), NEW s \in Slots, u.runs[s].op \in Ops, Running(u.runs[s])
  PROVE  LET m == Dialog(u.runs[s].op.opens, u.runs[s].page)
         IN  m \in Modals /\ m.sent = "none" /\ m.dlg # "confirm" /\ Proper(m, u.route)
<1> DEFINE r == u.runs[s]
           m == Dialog(r.op.opens, r.page)
<1>1. r.op \in Operations /\ r.page \in BOOLEAN
  BY ShellAssumption DEF BrowserInv, Browsers, Handlers
<1>2. r.op.opens \in Dialogs /\ r.op.opens # "confirm"
  BY <1>1, StepsAssumption DEF Dialogs
<1>3. m \in Modals /\ m.dlg = r.op.opens /\ m.home = r.page /\ m.sent = "none"
  <2> HIDE DEF r
  <2>1. NoModal \in Modals /\ NoModal.sent = "none"
    BY NoModalProper
  <2> QED BY <1>1, <1>2, <2>1 DEF Dialog, Modals
<1>4. r.page => r.op.page = u.route
  BY DEF BrowserInv, Mounted
<1>5. Proper(m, u.route)
  <2> HIDE DEF m, r
  <2> QED BY <1>1, <1>3, <1>4, StepsAssumption DEF Proper
<1> QED BY <1>2, <1>3, <1>5

-----------------------------------------------------------------------------
(* Handler s runs from its await to the next one, or to its end.           *)
LEMMA ResumeKeeps ==
  ASSUME NEW u, BrowserInv(u), NEW s \in Slots, s # u.asked,
         u.runs[s].op \in Ops, u.runs[s].st \in {"running", "confirm"},
         WrittenBefore(u.runs[s], u.runs[s].pc + 1),
         Asks(u.runs[s]) => u.runs[s].yes /\ u.runs[s].pc # 0,
         u.route \in GatedPages /\ Works(u.runs[s].op) /\ u.runs[s].page
             /\ ~SetWorking(u.runs[s])
           => Silent(u) /\ (u.asked = NoSlot \/ u.modal.dlg # "confirm")
  PROVE  LET v == Resume(u, s)
         IN  /\ BrowserInv(v) /\ Sent(v) \subseteq Sent(u) \cup {"none"}
             /\ v.runs[s].st \in {"sent", "done"} /\ v.runs[s].op = u.runs[s].op
             /\ v.runs[s].page = u.runs[s].page /\ v.route = u.route
             /\ \A t \in Slots \ {s} : Tame(u.runs[t], v.runs[t])
<1> DEFINE r == u.runs[s]
           j == NextAwait(r.op, r.pc)
           calls == Calls(r.op, r.pc)
           a == IF "close" \in calls THEN closeModal(u)
                ELSE IF "drop" \in calls THEN Shown(u, NoModal) ELSE u
           b == IF "open" \in calls THEN Shown(a, Dialog(r.op.opens, r.page)) ELSE a
           note == IF "success" \in calls THEN "success" ELSE b.runs[s].notice
           w == IF "busy" \in calls /\ r.page THEN r.op.name ELSE b.working
           c == [b EXCEPT !.runs[s].pc = j, !.runs[s].notice = note, !.working = w]
           v == Resume(u, s)
<1>1. /\ r \in Handlers /\ HandlerInv(r) /\ Running(r)
      /\ r.op \in Operations /\ r.op \in Ops \cup {NoOp}
  BY ShellAssumption DEF BrowserInv, Browsers, Running
<1>2. /\ Len(r.op.steps) \in Nat /\ DOMAIN r.op.steps = 1 .. Len(r.op.steps)
      /\ \A i, k \in DOMAIN r.op.steps :
            /\ r.op.steps[i] = "confirm" => i = 1
            /\ i < k =>
                /\ r.op.steps[k] = "busy" => r.op.steps[i] \notin Awaits \ {"confirm"}
                /\ r.op.steps[i] = "success" => r.op.steps[k] \notin Writes
  BY <1>1, StepsFacts
<1>3. r.pc \in 0 .. Len(r.op.steps)
  BY <1>1, <1>2 DEF HandlerInv, Placed
<1>4. /\ j \in r.pc + 1 .. Len(r.op.steps) + 1
      /\ j > Len(r.op.steps) \/ (j \in DOMAIN r.op.steps /\ r.op.steps[j] \in Awaits)
      /\ \A k \in r.pc + 1 .. j - 1 : k \in DOMAIN r.op.steps /\ r.op.steps[k] \notin Awaits
  BY <1>1, <1>3, NextAwaitFacts
<1>5. Passed(u, a, s)
  BY ClosePassed, ShownPassed, PassedSelf, NoModalProper
<1>6. Passed(u, b, s)
  <2>1. BrowserInv(a) /\ a.route = u.route /\ a.runs[s].st = r.st
        /\ a.runs[s].op = r.op /\ a.runs[s].page = r.page
    BY <1>5 DEF Passed, Stays
  <2> HIDE DEF a
  <2>2. LET m == Dialog(r.op.opens, r.page)
        IN  m \in Modals /\ m.sent = "none" /\ m.dlg # "confirm" /\ Proper(m, a.route)
    <3>1. a.runs[s].op \in Ops /\ Running(a.runs[s])
      BY <1>1, <2>1 DEF Running
    <3> QED BY <2>1, <3>1, DialogProper
  <2>3. "open" \in calls => Passed(a, b, s)
    <3>1. a.runs[s].st \notin {"sent", "replied"}
      BY <2>1
    <3> QED BY <2>1, <2>2, <3>1, ShownPassed
  <2>4. CASE "open" \in calls
    BY <1>5, <2>3, <2>4, PassedTrans
  <2>5. CASE "open" \notin calls
    BY <1>5, <2>5
  <2> QED BY <2>4, <2>5
<1>7. v = IF j <= Len(r.op.steps) THEN Send(c, s, FALSE)
          ELSE [c EXCEPT !.runs[s].st = "done",
                         !.working = IF SetWorking(c.runs[s]) /\ r.page THEN "none" ELSE @]
  BY DEF Resume
<1> HIDE DEF a, b
<1>8. BrowserInv(b) /\ b \in Browsers /\ b.runs[s] \in Handlers /\ b.runs[s].st = r.st
      /\ b.runs[s].op = r.op /\ b.runs[s].pc = r.pc /\ b.runs[s].yes = r.yes
      /\ b.runs[s].hits = r.hits /\ b.runs[s].twice = r.twice /\ b.runs[s].page = r.page
      /\ b.runs[s].notice = r.notice /\ b.route = u.route /\ b.asked # s
  <2>1. s # NoSlot
    BY ShellAssumption
  <2> QED BY <1>6, <2>1 DEF Passed, Stays, BrowserInv
<1>9. w \in {"none"} \cup {o.name : o \in Ops} /\ note \in {"none", "success", "error", "info"}
      /\ j \in Nat
  BY <1>1, <1>3, <1>4, <1>8 DEF Browsers, Handlers
<1>10. calls = {r.op.steps[k] : k \in r.pc + 1 .. j - 1}
  BY DEF Calls
<1> HIDE DEF j, calls, note, w, v
<1>11. /\ Put(b, c, s) /\ c.working = w
       /\ c.runs[s] \in Handlers
       /\ c.runs[s].st = r.st /\ c.runs[s].op = r.op /\ c.runs[s].pc = j
       /\ c.runs[s].yes = r.yes /\ c.runs[s].hits = r.hits /\ c.runs[s].twice = r.twice
       /\ c.runs[s].page = r.page /\ c.runs[s].notice = note
  <2> DEFINE q == [b.runs[s] EXCEPT !.pc = j, !.notice = note]
             f == [b.runs EXCEPT ![s] = q]
  <2>1. /\ q \in Handlers /\ q.st = r.st /\ q.op = r.op /\ q.pc = j /\ q.yes = r.yes
        /\ q.hits = r.hits /\ q.twice = r.twice /\ q.page = r.page /\ q.notice = note
    BY <1>8, <1>9 DEF Handlers
  <2>2. c = [b EXCEPT !.runs = f, !.working = w]
    BY <1>8 DEF Browsers, Handlers
  <2> HIDE DEF q
  <2>3. f \in [Slots -> Handlers] /\ f[s] = q /\ \A t \in Slots \ {s} : f[t] = b.runs[t]
    BY <1>8, <2>1 DEF Browsers
  <2> HIDE DEF f, c
  <2>4. /\ c \in Browsers /\ c.runs = f /\ c.working = w /\ c.identity = b.identity
        /\ c.route = b.route /\ c.modal = b.modal /\ c.asked = b.asked
        /\ c.pending = b.pending /\ c.stray = b.stray
    BY <1>8, <1>9, <2>2, <2>3 DEF Browsers
  <2> QED BY <2>1, <2>3, <2>4 DEF Put
<1> HIDE DEF c
<1>12. ASSUME NEW q \in Handlers, q.op = r.op, q.pc = j, q.yes = r.yes, q.hits = r.hits,
              q.twice = r.twice, q.notice = note,
              \/ q.st = "sent" /\ q.reply = "none" /\ j <= Len(r.op.steps)
              \/ q.st = "done" /\ j > Len(r.op.steps)
       PROVE  HandlerInv(q)
  <2>1. Asks(r) <=> Asks(q)
    BY <1>12 DEF Asks
  <2>2. Placed(q)
    <3>1. j <= Len(r.op.steps) => r.op.steps[j] # "confirm"
      <4>1. r.op.steps[j] = "confirm" /\ j <= Len(r.op.steps) => j = 1 /\ Asks(r) /\ r.pc = 0
        BY <1>2, <1>3, <1>4 DEF Asks
      <4> QED BY <4>1
    <3> QED BY <1>2, <1>3, <1>4, <1>12, <3>1 DEF Placed, Step
  <2>3. Agreed(q)
    BY <1>12, <2>1 DEF Agreed
  <2>4. WrittenBefore(q, j)
    <3>1. ASSUME NEW k \in DOMAIN r.op.steps, k < j, r.op.steps[k] \in Writes
          PROVE  k < r.pc + 1
      BY <1>2, <1>3, <1>4, <3>1 DEF Writes, Awaits
    <3>2. ASSUME NEW k \in DOMAIN r.op.steps, k < r.pc + 1, r.op.steps[k] \in Writes
          PROVE  k \in r.hits
      BY <3>2 DEF WrittenBefore
    <3> QED BY <1>12, <3>1, <3>2 DEF WrittenBefore
  <2>5. Hit(q)
    <3>1. r.hits \subseteq 0 .. r.pc /\ ~r.twice
      BY <1>1 DEF HandlerInv, Hit
    <3> QED BY <1>3, <1>4, <1>12, <2>4, <3>1 DEF Hit
  <2>6. Told(q)
    <3>1. CASE "success" \in calls
      <4>1. PICK k \in r.pc + 1 .. j - 1 : r.op.steps[k] = "success"
        BY <1>10, <3>1
      <4>2. \A i \in DOMAIN r.op.steps : r.op.steps[i] \in Writes => i < j
        BY <1>2, <1>3, <1>4, <4>1
      <4> QED BY <1>12, <2>4, <4>2 DEF Told, WrittenAll, WrittenBefore
    <3>2. CASE "success" \notin calls
      BY <1>1, <1>8, <1>12, <3>2 DEF note, HandlerInv, Told, WrittenAll
    <3> QED BY <3>1, <3>2
  <2>7. Spoken(q)
    BY <1>12 DEF Spoken, Finished, Running
  <2> QED BY <2>2, <2>3, <2>5, <2>6, <2>7 DEF HandlerInv
<1>13. Running(r) /\ r.page => r.op.page = b.route
  BY <1>8 DEF BrowserInv, Mounted
<1>14. "busy" \in calls => Works(r.op) /\ ~SetWorking(r)
  <2>1. ASSUME NEW k \in r.pc + 1 .. j - 1, r.op.steps[k] = "busy"
        PROVE  Works(r.op) /\ ~SetWorking(r)
    <3>1. k \in DOMAIN r.op.steps /\ r.pc < k
      BY <1>2, <1>3, <1>4
    <3>2. CASE r.pc = 0
      BY <1>2, <2>1, <3>1, <3>2 DEF Works, SetWorking
    <3>3. CASE r.pc # 0 /\ r.st = "running"
      BY <1>1, <1>2, <2>1, <3>1, <3>3 DEF HandlerInv, Placed, Step
    <3>4. CASE r.st = "confirm"
      BY <1>1, <1>2, <2>1, <3>1, <3>4 DEF HandlerInv, Agreed, Works, SetWorking
    <3> QED BY <3>2, <3>3, <3>4
  <2> QED BY <1>10, <2>1
<1>15. u.route \in GatedPages /\ r.page /\ "busy" \in calls
         => Silent(b) /\ (b.asked = NoSlot \/ b.modal.dlg # "confirm")
  BY <1>6, <1>14 DEF Passed
<1>16. SetWorking(r) /\ r.page => Holds(b.runs[s])
  BY <1>1, <1>8 DEF Holds, SetWorking, Running
<1>17. \A q : q.op = r.op /\ q.pc = j /\ SetWorking(q) => SetWorking(r) \/ "busy" \in calls
  <2>1. ASSUME NEW k \in DOMAIN r.op.steps, k < j, r.op.steps[k] = "busy"
        PROVE  SetWorking(r) \/ "busy" \in calls
    <3>1. CASE k < r.pc
      BY <3>1, <2>1 DEF SetWorking
    <3>2. CASE k = r.pc
      <4>1. r.op.steps[r.pc] \in Awaits
        BY <1>1, <1>2, <2>1, <3>2 DEF HandlerInv, Placed, Step, Awaits
      <4> QED BY <2>1, <3>2, <4>1 DEF Awaits
    <3>3. CASE k > r.pc
      BY <1>2, <1>3, <1>4, <1>10, <2>1, <3>3
    <3> QED BY <1>2, <1>3, <3>1, <3>2, <3>3
  <2> QED BY <2>1 DEF SetWorking
<1>18. r.op.name # "none"
  BY <1>1, StepsAssumption
<1>19. \A t \in Slots : Tame(u.runs[t], b.runs[t])
  BY <1>6 DEF Passed
<1>20. CASE j <= Len(r.op.steps)
  <2>1. v = Send(c, s, FALSE)
    BY <1>7, <1>20
  <2>2. /\ Put(c, v, s) /\ v.working = w /\ v.runs[s].st = "sent" /\ v.runs[s].reply = "none"
        /\ v.runs[s].op = r.op /\ v.runs[s].pc = j /\ v.runs[s].yes = r.yes
        /\ v.runs[s].hits = r.hits /\ v.runs[s].twice = r.twice /\ v.runs[s].notice = note
        /\ v.runs[s].page = r.page
    <3> DEFINE x == Send(c, s, FALSE)
    <3>1. c \in Browsers
      BY <1>11 DEF Put
    <3>2. /\ Put(c, x, s) /\ x.working = c.working
          /\ x.runs[s].st = "sent" /\ x.runs[s].reply = "none"
          /\ x.runs[s].op = c.runs[s].op /\ x.runs[s].pc = c.runs[s].pc
          /\ x.runs[s].yes = c.runs[s].yes /\ x.runs[s].hits = c.runs[s].hits
          /\ x.runs[s].twice = c.runs[s].twice /\ x.runs[s].notice = c.runs[s].notice
          /\ x.runs[s].page = c.runs[s].page
      BY <3>1, SendFacts
    <3>3. v = x
      BY <2>1
    <3> HIDE DEF x
    <3> QED BY <1>11, <3>2, <3>3
  <2>3. Put(b, v, s) /\ v.runs[s] \in Handlers
    BY <1>11, <2>2 DEF Put, Browsers
  <2>4. HandlerInv(v.runs[s])
    <3> DEFINE q == v.runs[s]
    <3>1. /\ q \in Handlers /\ q.op = r.op /\ q.pc = j /\ q.yes = r.yes /\ q.hits = r.hits
          /\ q.twice = r.twice /\ q.notice = note
          /\ q.st = "sent" /\ q.reply = "none" /\ j <= Len(r.op.steps)
      BY <1>20, <2>2, <2>3
    <3> HIDE DEF q
    <3>2. HandlerInv(q)
      BY <1>12, <3>1
    <3> QED BY <3>2 DEF q
  <2>5. FlagKept(b, v, s)
    <3>1. CASE "busy" \in calls /\ r.page
      BY <1>8, <1>15, <1>18, <2>2, <3>1 DEF FlagKept, w
    <3>2. CASE ~("busy" \in calls /\ r.page)
      <4>1. w = b.working
        BY <3>2 DEF w
      <4>2. Holds(v.runs[s]) => Holds(b.runs[s])
        BY <1>16, <1>17, <2>2, <3>2 DEF Holds
      <4> QED BY <2>2, <4>1, <4>2 DEF FlagKept
    <3> QED BY <3>1, <3>2
  <2>6. BrowserInv(v) /\ Sent(v) = Sent(b)
    BY <1>1, <1>8, <1>13, <2>2, <2>3, <2>4, <2>5, PutKeeps
  <2>7. \A t \in Slots \ {s} : Tame(u.runs[t], v.runs[t])
    BY <1>19, <2>3 DEF Put
  <2> QED BY <1>6, <2>2, <2>3, <2>6, <2>7 DEF Passed, Put, v
<1>21. CASE j > Len(r.op.steps)
  <2> DEFINE w2 == IF SetWorking(c.runs[s]) /\ r.page THEN "none" ELSE w
             q == [c.runs[s] EXCEPT !.st = "done"]
             f == [c.runs EXCEPT ![s] = q]
  <2>1. ~(j <= Len(r.op.steps)) /\ c \in Browsers
    BY <1>2, <1>9, <1>11, <1>21 DEF Put
  <2>2. v = [c EXCEPT !.runs = f, !.working = w2]
    BY <1>7, <1>11, <2>1 DEF Browsers, Handlers
  <2>3. /\ q \in Handlers /\ q.st = "done" /\ q.op = r.op /\ q.pc = j /\ q.yes = r.yes
        /\ q.hits = r.hits /\ q.twice = r.twice /\ q.notice = note /\ q.page = r.page
    BY <1>11 DEF Handlers
  <2>4. w2 \in {"none"} \cup {o.name : o \in Ops}
    BY <1>9
  <2> HIDE DEF q, w2
  <2>5. f \in [Slots -> Handlers] /\ f[s] = q /\ \A t \in Slots \ {s} : f[t] = c.runs[t]
    BY <2>1, <2>3 DEF Browsers
  <2> HIDE DEF f
  <2>6. /\ v \in Browsers /\ v.runs = f /\ v.working = w2 /\ v.identity = c.identity
        /\ v.route = c.route /\ v.modal = c.modal /\ v.asked = c.asked
        /\ v.pending = c.pending /\ v.stray = c.stray
    BY <2>1, <2>2, <2>4, <2>5 DEF Browsers
  <2>7. Put(b, v, s)
    BY <1>11, <2>5, <2>6 DEF Put
  <2>8. HandlerInv(v.runs[s]) /\ v.runs[s].st = "done" /\ ~Holds(v.runs[s])
    BY <1>12, <1>21, <2>3, <2>5, <2>6 DEF Holds, Running
  <2>9. FlagKept(b, v, s)
    <3>1. CASE "busy" \in calls /\ r.page
      BY <1>8, <1>15, <2>8, <3>1 DEF FlagKept
    <3>2. CASE SetWorking(r) /\ r.page
      BY <1>16, <2>8, <3>2 DEF FlagKept
    <3>3. CASE ~("busy" \in calls /\ r.page) /\ ~(SetWorking(r) /\ r.page)
      <4>1. ~(SetWorking(c.runs[s]) /\ r.page)
        BY <1>11, <1>17, <3>3
      <4>2. v.working = b.working
        BY <2>6, <3>3, <4>1 DEF w, w2
      <4> QED BY <2>8, <4>2 DEF FlagKept
    <3> QED BY <3>1, <3>2, <3>3
  <2>10. BrowserInv(v) /\ Sent(v) = Sent(b)
    BY <1>8, <2>7, <2>8, <2>9, PutKeeps DEF Running
  <2>11. \A t \in Slots \ {s} : Tame(u.runs[t], v.runs[t])
    BY <1>19, <2>7 DEF Put
  <2>12. v.runs[s].op = r.op /\ v.runs[s].page = r.page
    BY <2>3, <2>5, <2>6
  <2> QED BY <1>6, <2>7, <2>8, <2>10, <2>11, <2>12 DEF Passed, Put, v
<1> QED BY <1>2, <1>9, <1>20, <1>21

-----------------------------------------------------------------------------
(* A handler at its start is in order.                                     *)
LEMMA FreshFacts ==
  ASSUME NEW op \in Ops, NEW home \in BOOLEAN
  PROVE  LET r == Handler(op, home)
         IN  /\ r \in Handlers /\ HandlerInv(r) /\ ~SetWorking(r)
             /\ r.op = op /\ r.pc = 0 /\ r.st = "running" /\ r.page = home /\ ~r.yes
             /\ WrittenBefore(r, 1)
<1> DEFINE r == Handler(op, home)
<1>1. /\ r \in Handlers
      /\ r.op = op /\ r.pc = 0 /\ r.st = "running" /\ r.page = home /\ r.yes = FALSE
      /\ r.hits = {} /\ r.twice = FALSE /\ r.notice = "none" /\ r.reply = "none"
  BY DEF Handler, Handlers, Creds
<1> HIDE DEF r
<1>2. op \in Ops \cup {NoOp}
  OBVIOUS
<1>3. Len(op.steps) \in Nat /\ DOMAIN op.steps = 1 .. Len(op.steps)
  BY <1>2, StepsFacts
<1>4. WrittenBefore(r, 0) /\ WrittenBefore(r, 1) /\ ~SetWorking(r)
  BY <1>1, <1>3 DEF WrittenBefore, SetWorking
<1>5. HandlerInv(r)
  BY <1>1, <1>3, <1>4 DEF HandlerInv, Placed, Agreed, Hit, Told, Spoken, Running
<1> QED BY <1>1, <1>4, <1>5 DEF r

(* One that starts leaves the browser as it was.                           *)
LEMMA StartKeeps ==
  ASSUME BrowserInv(ui), NEW s \in Slots, ~Running(ui.runs[s]), NEW op \in Ops,
         NEW home \in BOOLEAN, home => op.page = ui.route
  PROVE  LET u == [now EXCEPT !.runs[s] = Handler(op, home)]
         IN  /\ BrowserInv(u) /\ Sent(u) = Sent(ui) /\ s # u.asked
             /\ u.runs[s] = Handler(op, home) /\ u.modal = ui.modal /\ u.route = ui.route
             /\ u.asked = ui.asked
             /\ \A t \in Slots \ {s} : u.runs[t] = now.runs[t]
             /\ Silent(ui) => Silent(u)
<1> DEFINE u == [now EXCEPT !.runs[s] = Handler(op, home)]
           r == Handler(op, home)
           f == [now.runs EXCEPT ![s] = r]
<1>1. /\ BrowserInv(now) /\ Sent(now) = Sent(ui) /\ now.route = ui.route
      /\ now.modal = ui.modal /\ now.asked = ui.asked
      /\ \A t \in Slots : now.runs[t] = IF Running(ui.runs[t]) THEN ui.runs[t] ELSE Idle
  BY NowFacts
<1>2. now \in Browsers
  BY <1>1 DEF BrowserInv
<1>3. /\ r \in Handlers /\ HandlerInv(r) /\ ~SetWorking(r)
      /\ r.op = op /\ r.st = "running" /\ r.page = home
  BY FreshFacts
<1>4. u = [now EXCEPT !.runs = f]
  BY <1>2 DEF Browsers
<1> HIDE DEF r
<1>5. f \in [Slots -> Handlers] /\ f[s] = r /\ \A t \in Slots \ {s} : f[t] = now.runs[t]
  BY <1>2, <1>3 DEF Browsers
<1> HIDE DEF f, u
<1>6. Put(now, u, s) /\ u.runs[s] = r /\ u.working = now.working
  BY <1>2, <1>4, <1>5 DEF Browsers, Put
<1>7. s # now.asked
  BY <1>1, ShellAssumption DEF BrowserInv, Questioned, Running
<1>8. ~Holds(u.runs[s])
  BY <1>3, <1>6 DEF Holds
<1>9. BrowserInv(u) /\ Sent(u) = Sent(now)
  BY <1>1, <1>3, <1>6, <1>7, <1>8, PutKeeps DEF FlagKept
<1>10. Silent(ui) => Silent(u)
  BY <1>1, <1>6, <1>8, IdleFacts DEF Silent, Holds, Running, Put
<1> QED BY <1>1, <1>6, <1>7, <1>9, <1>10 DEF Put, u, r

(* confirmAction: the question of before is declined, s asks its own.      *)
LEMMA ConfirmKeeps ==
  ASSUME NEW u, BrowserInv(u), u.modal.dlg # "confirm", NEW s \in Slots, s # u.asked,
         u.runs[s].op \in Ops, u.runs[s].pc = 0, u.runs[s].st = "running",
         u.runs[s].op.steps[1] = "confirm", ~u.runs[s].yes,
         u.route \in GatedPages /\ u.runs[s].page /\ Works(u.runs[s].op) => Silent(u)
  PROVE  LET v == confirmAction(u, s)
         IN  /\ BrowserInv(v) /\ Sent(v) \subseteq Sent(u) \cup {"none"}
             /\ v.runs[s].st = "confirm"
             /\ \A t \in Slots \ {s} : v.runs[t].st = "running" => u.runs[t].st = "running"
<1> DEFINE r == u.runs[s]
           d == Declined(u)
           q == [d.runs[s] EXCEPT !.st = "confirm", !.pc = 1]
           f == [d.runs EXCEPT ![s] = q]
           w == [d EXCEPT !.asked = s, !.runs = f]
           m == ConfirmDialog(s)
           v == Shown(w, m)
<1>1. /\ BrowserInv(d) /\ After(u, d) /\ d.asked = NoSlot /\ d.modal = u.modal
      /\ d.route = u.route /\ d.runs[s] = r
  BY DeclinedFacts
<1>2. confirmAction(u, s) = v
  <2> HIDE DEF d
  <2>1. [d EXCEPT !.asked = s, !.runs[s].st = "confirm", !.runs[s].pc = 1] = w
    BY <1>1 DEF BrowserInv, Browsers, Handlers
  <2> QED BY <2>1 DEF confirmAction, d
<1> HIDE DEF d
<1>3. /\ d \in Browsers /\ r \in Handlers /\ HandlerInv(r) /\ Asks(r)
      /\ DOMAIN r.op.steps = 1 .. Len(r.op.steps) /\ Len(r.op.steps) \in Nat
      /\ Len(r.op.steps) # 0
  <2>1. r.op \in Operations /\ r.op \in Ops \cup {NoOp}
    BY ShellAssumption
  <2>2. r.op.steps \in Seq(Awaits \cup ShellCalls) /\ r.op.steps # <<>>
    BY <2>1, StepsAssumption
  <2>3. Len(r.op.steps) \in Nat /\ DOMAIN r.op.steps = 1 .. Len(r.op.steps)
    BY <2>1, StepsFacts
  <2>4. Len(r.op.steps) # 0
    BY <2>2
  <2> QED BY <1>1, <2>3, <2>4 DEF BrowserInv, Browsers, Asks
<1>4. /\ q \in Handlers /\ q.st = "confirm" /\ q.pc = 1 /\ q.op = r.op /\ q.yes = r.yes
      /\ q.hits = r.hits /\ q.twice = r.twice /\ q.notice = r.notice /\ q.page = r.page
  BY <1>1, <1>3 DEF Handlers
<1> HIDE DEF q
<1>5. HandlerInv(q) /\ ~SetWorking(q)
  <2>1. r.hits = {}
    BY <1>3 DEF HandlerInv, Agreed
  <2>2. Placed(q)
    BY <1>3, <1>4 DEF Placed, Step
  <2>3. Agreed(q)
    BY <1>3, <1>4, <2>1 DEF Agreed, Asks
  <2>4. WrittenBefore(q, 1)
    BY <1>3, <1>4 DEF WrittenBefore
  <2>5. Hit(q)
    BY <1>3, <1>4, <2>1, <2>4 DEF Hit, HandlerInv
  <2>6. Told(q) /\ Spoken(q) /\ ~SetWorking(q)
    BY <1>3, <1>4 DEF HandlerInv, Told, WrittenAll, Spoken, Running, SetWorking
  <2> QED BY <2>2, <2>3, <2>5, <2>6 DEF HandlerInv
<1>6. f \in [Slots -> Handlers] /\ f[s] = q /\ \A t \in Slots \ {s} : f[t] = d.runs[t]
  BY <1>3, <1>4 DEF Browsers
<1> HIDE DEF f
<1>7. /\ w \in Browsers /\ w.runs = f /\ w.asked = s /\ w.modal = u.modal /\ w.route = u.route
      /\ w.working = d.working /\ w.pending = d.pending /\ w.stray = d.stray
  BY <1>1, <1>3, <1>6 DEF Browsers
<1>8. m \in Modals /\ m.dlg = "confirm" /\ m.for = s /\ ~m.home /\ m.sent = "none"
  BY DEF ConfirmDialog, NoModal, Modals, Dialogs, Creds
<1> HIDE DEF w, m
<1>9. /\ v \in Browsers /\ v.modal = m /\ v.stray \in Sent(w) /\ v.route = u.route
      /\ v.asked = s /\ v.pending = d.pending /\ v.working = d.working
      /\ \A t \in Slots : /\ Tame(f[t], v.runs[t])
                          /\ v.runs[t].page = f[t].page
                          /\ v.runs[t].st = f[t].st \/ f[t].st \in {"sent", "replied"}
  BY <1>7, <1>8, ShownFacts
<1> HIDE DEF v
<1>10. \A t \in Slots : f[t] \in Handlers /\ HandlerInv(f[t]) /\ (Holds(f[t]) => Holds(d.runs[t]))
  BY <1>1, <1>5, <1>6 DEF BrowserInv, Holds
<1>11. \A t \in Slots : /\ HandlerInv(v.runs[t])
                        /\ Holds(v.runs[t]) => Holds(d.runs[t])
                        /\ Running(v.runs[t]) => Running(f[t])
  BY <1>9, <1>10, TameKeeps
<1>12. v.runs[s].st = "confirm" /\ ~v.runs[s].yes /\ v.runs[s].page = r.page /\ v.runs[s].op = r.op
  BY <1>4, <1>6, <1>9 DEF Tame, Same
<1>13. Questioned(v)
  BY <1>8, <1>9, <1>12 DEF Questioned
<1>14. Promised(v)
  BY <1>1, <1>4, <1>6, <1>9 DEF BrowserInv, Promised, Tame, Ended
<1>15. Mounted(v)
  <2>1. \A t \in Slots : Running(f[t]) /\ f[t].page => f[t].op.page = u.route
    <3>1. r.page => r.op.page = u.route
      BY DEF BrowserInv, Mounted, Running
    <3> QED BY <1>1, <1>4, <1>6, <3>1 DEF BrowserInv, Mounted
  <2>2. \A t \in Slots : Running(v.runs[t]) /\ v.runs[t].page => v.runs[t].op.page = u.route
    BY <1>9, <1>11, <2>1 DEF Tame, Same
  <2> QED BY <1>8, <1>9, <2>2 DEF Mounted
<1>16. Gated(v)
  <2>1. \A t \in Slots : Holds(d.runs[t]) => Holds(u.runs[t])
    <3>1. \A t \in Slots : u.runs[t] \in Handlers /\ HandlerInv(u.runs[t])
      BY DEF BrowserInv, Browsers
    <3> QED BY <1>1, <3>1, TameKeeps DEF After
  <2>2. u.route \in GatedPages /\ r.page /\ Works(r.op) => \A t \in Slots : ~Holds(v.runs[t])
    BY <1>11, <2>1 DEF Silent
  <2> QED BY <1>1, <1>9, <1>11, <1>12, <2>2 DEF Gated, BrowserInv
<1>17. Sent(v) \subseteq Sent(u) \cup {"none"}
  BY <1>1, <1>7, <1>8, <1>9 DEF After, Sent
<1>18. \A t \in Slots \ {s} : v.runs[t].st = "running" => u.runs[t].st = "running"
  BY <1>1, <1>6, <1>9 DEF After, Tame, Ended
<1> QED BY <1>2, <1>9, <1>11, <1>12, <1>13, <1>14, <1>15, <1>16, <1>17, <1>18 DEF BrowserInv, v

-----------------------------------------------------------------------------
(* A refused request waits for the second factor with the others.          *)
LEMMA ElevateKeeps ==
  ASSUME NEW u, BrowserInv(u), NEW s \in Slots, s # u.asked, u.runs[s].op \in Ops,
         u.runs[s].st = "running", u.runs[s].pc # 0, u.runs[s].reply = "forbidden"
  PROVE  LET v == elevationHandler(u, s)
         IN  /\ BrowserInv(v) /\ Sent(v) \subseteq Sent(u) \cup {"none"}
             /\ \A t \in Slots : v.runs[t].st = "running" => u.runs[t].st = "running" /\ t # s
<1> DEFINE r == u.runs[s]
           q == [r EXCEPT !.st = "elevate"]
           f == [u.runs EXCEPT ![s] = q]
           p == [u EXCEPT !.pending = TRUE]
           m == Dialog("elevate", FALSE)
<1>1. u \in Browsers /\ r \in Handlers /\ HandlerInv(r) /\ Running(r)
  BY DEF BrowserInv, Browsers, Running
<1>2. /\ q \in Handlers /\ q.st = "elevate" /\ q.pc = r.pc /\ q.op = r.op /\ q.yes = r.yes
      /\ q.hits = r.hits /\ q.twice = r.twice /\ q.notice = r.notice /\ q.page = r.page
      /\ q.reply = r.reply
  BY <1>1 DEF Handlers
<1>3. elevationHandler(u, s) =
        IF u.pending THEN [u EXCEPT !.runs = f] ELSE Shown([p EXCEPT !.runs = f], m)
  <2>1. [u EXCEPT !.runs[s].st = "elevate"] = [u EXCEPT !.runs = f]
    BY <1>1 DEF Browsers, Handlers
  <2>2. [[u EXCEPT !.runs = f] EXCEPT !.pending = TRUE] = [p EXCEPT !.runs = f]
    BY <1>1 DEF Browsers
  <2> HIDE DEF f, p, m
  <2> QED BY <2>1, <2>2 DEF elevationHandler, m
<1> HIDE DEF q
<1>4. HandlerInv(q) /\ (Holds(q) => Holds(r))
  <2>1. Placed(q)
    BY <1>1, <1>2 DEF HandlerInv, Placed, Step
  <2>2. Agreed(q)
    BY <1>1, <1>2 DEF HandlerInv, Agreed, Asks
  <2>3. Hit(q)
    BY <1>1, <1>2 DEF HandlerInv, Hit, WrittenBefore
  <2>4. Told(q) /\ Spoken(q)
    BY <1>1, <1>2 DEF HandlerInv, Told, WrittenAll, Spoken, Running
  <2>5. Holds(q) => Holds(r)
    BY <1>1, <1>2 DEF Holds, SetWorking
  <2> QED BY <2>1, <2>2, <2>3, <2>4, <2>5 DEF HandlerInv
<1>5. f \in [Slots -> Handlers] /\ f[s] = q /\ \A t \in Slots \ {s} : f[t] = u.runs[t]
  BY <1>1, <1>2 DEF Browsers
<1> HIDE DEF f
<1>6. ASSUME NEW b, BrowserInv(b), b.runs = u.runs, b.pending, b.asked = u.asked,
             b.modal = u.modal, b.stray = u.stray, b.route = u.route, b.working = u.working
      PROVE  LET w == [b EXCEPT !.runs = f]
             IN  BrowserInv(w) /\ Sent(w) = Sent(u) /\ w.runs = f /\ w.route = u.route
  <2> DEFINE w == [b EXCEPT !.runs = f]
  <2>1. /\ Put(b, w, s) /\ w.runs = f /\ w.working = b.working
    BY <1>5, <1>6 DEF Put, BrowserInv, Browsers
  <2> HIDE DEF w
  <2>2. r.page => r.op.page = b.route
    BY <1>1, <1>6 DEF BrowserInv, Mounted
  <2>3. BrowserInv(w) /\ Sent(w) = Sent(b)
    BY <1>1, <1>2, <1>4, <1>5, <1>6, <2>1, <2>2, PutKeeps DEF FlagKept
  <2> QED BY <1>6, <2>1, <2>3 DEF Sent, Put, w
<1>7. \A t \in Slots : f[t].st = "running" => u.runs[t].st = "running" /\ t # s
  BY <1>2, <1>5
<1>8. CASE u.pending
  <2>1. elevationHandler(u, s) = [u EXCEPT !.runs = f]
    BY <1>3, <1>8
  <2> QED BY <1>6, <1>7, <1>8, <2>1
<1>9. CASE ~u.pending
  <2> DEFINE w == [p EXCEPT !.runs = f]
             v == Shown(w, m)
  <2>1. /\ p \in Browsers /\ p.runs = u.runs /\ p.pending /\ p.asked = u.asked
        /\ p.modal = u.modal /\ p.stray = u.stray /\ p.route = u.route /\ p.working = u.working
    BY <1>1 DEF Browsers
  <2> HIDE DEF p
  <2>2. BrowserInv(p)
    BY <2>1 DEF BrowserInv, Questioned, Promised, Mounted, Gated
  <2>3. BrowserInv(w) /\ Sent(w) = Sent(u) /\ w.runs = f /\ w.route = u.route
    BY <1>6, <2>1, <2>2
  <2>4. m \in Modals /\ m.sent = "none" /\ m.dlg # "confirm" /\ Proper(m, w.route)
    BY DEF Dialog, NoModal, Modals, Dialogs, Creds, Proper
  <2> HIDE DEF w, m
  <2>5. After(w, v) /\ BrowserInv(v)
    BY <2>3, <2>4, ShownAfter
  <2> HIDE DEF v
  <2>6. \A t \in Slots : v.runs[t].st = "running" => f[t].st = "running"
    BY <2>3, <2>5 DEF After, Tame, Ended
  <2>7. elevationHandler(u, s) = v
    BY <1>3, <1>9 DEF v, w
  <2> QED BY <1>7, <2>3, <2>5, <2>6, <2>7 DEF After
<1> QED BY <1>8, <1>9

(* The second factor is proved: whoever waits sends its request again.     *)
LEMMA ResolveKeeps ==
  ASSUME NEW u, BrowserInv(u)
  PROVE  LET v == resolveElevation(u)
         IN  /\ BrowserInv(v) /\ Sent(v) = Sent(u)
             /\ \A t \in Slots : v.runs[t].st = "running" => u.runs[t].st = "running"
<1> DEFINE v == resolveElevation(u)
           e(s) == IF s \notin Waiting(u) THEN u.runs[s]
                   ELSE IF u.runs[s].aborted /\ Step(u.runs[s]) = "upload"
                        THEN [u.runs[s] EXCEPT !.st = "dead"]
                        ELSE Send(u, s, TRUE).runs[s]
           f == [s \in Slots |-> e(s)]
<1>1. u \in Browsers /\ \A s \in Slots : u.runs[s] \in Handlers /\ HandlerInv(u.runs[s])
  BY DEF BrowserInv, Browsers
<1>2. CASE ~u.pending
  BY <1>2 DEF resolveElevation
<1>3. CASE u.pending
  <2>1. v = [u EXCEPT !.pending = FALSE, !.runs = f]
    BY <1>3 DEF resolveElevation
  <2>2. ASSUME NEW s \in Slots
        PROVE  LET r == u.runs[s]
               IN  \/ e(s) = r /\ r.st # "elevate"
                   \/ /\ r.st = "elevate" /\ e(s) \in Handlers
                      /\ e(s).st \in {"sent", "dead"}
                      /\ e(s).op = r.op /\ e(s).pc = r.pc /\ e(s).yes = r.yes
                      /\ e(s).hits = r.hits /\ e(s).twice = r.twice
                      /\ e(s).notice = r.notice /\ e(s).page = r.page
    <3> DEFINE r == u.runs[s]
               d == [r EXCEPT !.st = "dead"]
               q == Send(u, s, TRUE).runs[s]
    <3>1. /\ d \in Handlers /\ d.st = "dead"
          /\ d.op = r.op /\ d.pc = r.pc /\ d.yes = r.yes /\ d.hits = r.hits
          /\ d.twice = r.twice /\ d.notice = r.notice /\ d.page = r.page
      BY <1>1 DEF Handlers
    <3>2. /\ q \in Handlers /\ q.st = "sent"
          /\ q.op = r.op /\ q.pc = r.pc /\ q.yes = r.yes /\ q.hits = r.hits
          /\ q.twice = r.twice /\ q.notice = r.notice /\ q.page = r.page
      <4> DEFINE x == Send(u, s, TRUE)
      <4>1. Put(u, x, s) /\ x.runs[s].st = "sent"
            /\ x.runs[s].op = r.op /\ x.runs[s].pc = r.pc /\ x.runs[s].yes = r.yes
            /\ x.runs[s].hits = r.hits /\ x.runs[s].twice = r.twice
            /\ x.runs[s].notice = r.notice /\ x.runs[s].page = r.page
        BY <1>1, SendFacts
      <4> HIDE DEF x
      <4>2. x.runs[s] \in Handlers
        BY <4>1 DEF Put, Browsers
      <4> QED BY <4>1, <4>2 DEF x
    <3>3. /\ s \notin Waiting(u) => e(s) = r
          /\ s \in Waiting(u) => e(s) = d \/ e(s) = q
      <4> HIDE DEF d, q
      <4> QED BY DEF d, q
    <3>4. s \in Waiting(u) <=> r.st = "elevate"
      BY DEF Waiting
    <3> HIDE DEF d, q, e
    <3> QED BY <3>1, <3>2, <3>3, <3>4
  <2>3. \A s \in Slots : f[s] = e(s)
    OBVIOUS
  <2> HIDE DEF e
  <2>4. f \in [Slots -> Handlers]
    BY <1>1, <2>2
  <2> HIDE DEF f
  <2>5. /\ v \in Browsers /\ v.runs = f /\ v.modal = u.modal /\ v.route = u.route
        /\ v.asked = u.asked /\ v.working = u.working /\ v.stray = u.stray
    BY <1>1, <2>1, <2>4 DEF Browsers
  <2> HIDE DEF v
  <2>6. ASSUME NEW s \in Slots
        PROVE  /\ HandlerInv(f[s]) /\ f[s].st # "elevate"
               /\ Holds(f[s]) <=> Holds(u.runs[s])
               /\ Running(f[s]) <=> Running(u.runs[s])
               /\ f[s].page = u.runs[s].page /\ f[s].op = u.runs[s].op
               /\ f[s].st = "running" => u.runs[s].st = "running"
               /\ u.runs[s].st = "confirm" => f[s] = u.runs[s]
    <3> DEFINE r == u.runs[s]
               q == f[s]
    <3>1. CASE q = r /\ r.st # "elevate"
      BY <1>1, <3>1
    <3>2. CASE /\ r.st = "elevate" /\ q \in Handlers /\ q.st \in {"sent", "dead"}
               /\ q.op = r.op /\ q.pc = r.pc /\ q.yes = r.yes /\ q.hits = r.hits
               /\ q.twice = r.twice /\ q.notice = r.notice /\ q.page = r.page
      <4>1. HandlerInv(r) /\ r \in Handlers
        BY <1>1
      <4> HIDE DEF q, r
      <4>2. Placed(q)
        BY <4>1, <3>2 DEF HandlerInv, Placed, Step
      <4>3. Agreed(q)
        BY <4>1, <3>2 DEF HandlerInv, Agreed, Asks
      <4>4. Hit(q)
        BY <4>1, <3>2 DEF HandlerInv, Hit, WrittenBefore
      <4>5. Told(q) /\ Spoken(q)
        BY <4>1, <3>2 DEF HandlerInv, Told, WrittenAll, Spoken, Running
      <4>6. HandlerInv(q)
        BY <4>2, <4>3, <4>4, <4>5 DEF HandlerInv
      <4>7. Holds(q) <=> Holds(r)
        BY <3>2 DEF Holds, Running, SetWorking
      <4> QED BY <3>2, <4>6, <4>7 DEF Running, q, r
    <3> QED BY <2>2, <2>3, <3>1, <3>2
  <2>7. Questioned(v)
    BY <1>1, <2>5, <2>6 DEF BrowserInv, Questioned, Browsers
  <2>8. Promised(v) /\ Mounted(v)
    BY <2>5, <2>6 DEF BrowserInv, Promised, Mounted
  <2>9. Gated(v)
    BY <1>1, <2>5, <2>6 DEF BrowserInv, Gated, Browsers
  <2> QED BY <2>5, <2>6, <2>7, <2>8, <2>9 DEF BrowserInv, Sent, v
<1> QED BY <1>2, <1>3

-----------------------------------------------------------------------------
(* No handler is in the middle of an action.                               *)
Settled(u) == \A s \in Slots : u.runs[s].st # "running"

(* Where every action begins.                                              *)
LEMMA Begins ==
  ASSUME ShellInv
  PROVE  /\ BrowserInv(ui) /\ BrowserInv(now) /\ Settled(ui) /\ Settled(now)
         /\ Sent(now) = Sent(ui) /\ now \in Browsers
         /\ now.identity = ui.identity /\ now.route = ui.route /\ now.modal = ui.modal
         /\ now.asked = ui.asked /\ now.pending = ui.pending /\ now.working = ui.working
         /\ now.kdf = ui.kdf /\ now.stray = ui.stray
         /\ \A s \in Slots : now.runs[s] = IF Running(ui.runs[s]) THEN ui.runs[s] ELSE Idle
         /\ \A s \in Slots : Running(ui.runs[s]) =>
               /\ s \in Slots /\ now.runs[s] = ui.runs[s] /\ ui.runs[s] \in Handlers
               /\ ui.runs[s].op \in Ops
<1>1. BrowserInv(ui) /\ Settled(ui)
  BY DEF ShellInv, Settled
<1>2. /\ BrowserInv(now) /\ Sent(now) = Sent(ui)
      /\ now.identity = ui.identity /\ now.route = ui.route /\ now.modal = ui.modal
      /\ now.asked = ui.asked /\ now.pending = ui.pending /\ now.working = ui.working
      /\ now.kdf = ui.kdf /\ now.stray = ui.stray
      /\ \A s \in Slots : now.runs[s] = IF Running(ui.runs[s]) THEN ui.runs[s] ELSE Idle
  BY <1>1, NowFacts
<1>3. Settled(now) /\ now \in Browsers
  BY <1>1, <1>2, IdleFacts DEF Settled, BrowserInv
<1>4. ASSUME NEW s \in Slots, Running(ui.runs[s])
      PROVE  ui.runs[s] \in Handlers /\ ui.runs[s].op \in Ops
  <2>1. ui.runs[s] \in Handlers /\ HandlerInv(ui.runs[s]) /\ ui.runs[s].op \in Ops \cup {NoOp}
    BY <1>1 DEF BrowserInv, Browsers, Handlers
  <2>2. ui.runs[s].op # NoOp
    <3>1. ASSUME ui.runs[s].op = NoOp PROVE FALSE
      <4>1. DOMAIN ui.runs[s].op.steps = {} /\ ~Asks(ui.runs[s])
        BY <3>1 DEF NoOp, Asks
      <4>2. ui.runs[s].st \in {"sent", "replied", "confirm", "elevate", "dead"}
        BY <1>1, <1>4, <2>1 DEF Settled, Running, Handlers
      <4> QED BY <2>1, <4>1, <4>2 DEF HandlerInv, Placed
    <3> QED BY <3>1
  <2> QED BY <2>1, <2>2
<1> QED BY <1>1, <1>2, <1>3, <1>4

(* What an action has to arrive at.                                        *)
LEMMA Arrives ==
  ASSUME ShellInv, BrowserInv(ui'), Settled(ui'), live' \in BOOLEAN, elevated' \in BOOLEAN,
         Current(ui', live'), elevated' => live'
  PROVE  ShellInv'
  BY DEF ShellInv, Settled

(* The same, when the session is as it was.                                *)
LEMMA ArrivesSame ==
  ASSUME ShellInv, BrowserInv(ui'), Settled(ui'), Sent(ui') \subseteq Sent(ui) \cup {"none"},
         UNCHANGED <<live, elevated>>
  PROVE  ShellInv'
<1>1. /\ live' \in BOOLEAN /\ elevated' \in BOOLEAN /\ (elevated' => live')
      /\ Current(ui', live')
  BY DEF ShellInv, Current
<1> QED BY <1>1, Arrives

(* Such steps leave no handler in the middle of an action.                 *)
LEMMA TameSettled ==
  ASSUME NEW u, NEW v, Settled(u), \A s \in Slots : Tame(u.runs[s], v.runs[s])
  PROVE  Settled(v)
  BY DEF Settled, Tame, Ended

(* Who is signed in and what was sent make no difference to the rest.      *)
LEMMA AlikeKeeps ==
  ASSUME NEW u, BrowserInv(u), NEW v \in Browsers, v.runs = u.runs, v.route = u.route,
         v.asked = u.asked, v.pending = u.pending, v.working = u.working,
         v.modal.dlg = u.modal.dlg, v.modal.for = u.modal.for, v.modal.home = u.modal.home
  PROVE  BrowserInv(v)
  BY DEF BrowserInv, Questioned, Promised, Mounted, Gated

(* The page has just been loaded: nothing runs.                            *)
LEMMA InitHolds == Init => ShellInv
<1> SUFFICES ASSUME Init PROVE ShellInv
  OBVIOUS
<1> DEFINE f == [s \in Slots |-> Idle]
<1>1. PICK p \in {l[1] : l \in Links} :
        ui = [identity |-> live, route |-> p, modal |-> NoModal, asked |-> NoSlot,
              pending |-> FALSE, working |-> "none", kdf |-> FALSE,
              stray |-> "none", runs |-> f]
  BY DEF Init
<1>2. p \in Pages
  BY ShellAssumption
<1>3. f \in [Slots -> Handlers] /\ \A s \in Slots : f[s] = Idle
  BY IdleFacts
<1> HIDE DEF f
<1>4. NoModal \in Modals /\ NoModal.sent = "none" /\ NoModal.home = FALSE /\ NoModal.dlg = "none"
  BY NoModalProper DEF NoModal
<1>5. live \in BOOLEAN /\ elevated = FALSE
  BY DEF Init
<1>6. /\ ui \in Browsers /\ ui.runs = f /\ ui.modal = NoModal /\ ui.asked = NoSlot
      /\ ui.stray = "none" /\ ui.route = p
  BY <1>1, <1>2, <1>3, <1>4, <1>5 DEF Browsers, Creds
<1>7. \A s \in Slots : HandlerInv(ui.runs[s]) /\ ui.runs[s].st = "done"
                       /\ ~Holds(ui.runs[s]) /\ ~Running(ui.runs[s])
  BY <1>3, <1>6, IdleFacts DEF Holds, Running
<1>8. Questioned(ui) /\ Promised(ui) /\ Mounted(ui) /\ Gated(ui)
  BY <1>4, <1>6, <1>7 DEF Questioned, Promised, Mounted, Gated
<1>9. Current(ui, live)
  BY <1>4, <1>6 DEF Current, Sent
<1> QED BY <1>5, <1>6, <1>7, <1>8, <1>9 DEF ShellInv, BrowserInv

-----------------------------------------------------------------------------
(* The session's own actions.                                              *)
LEMMA LoginKeeps == ASSUME ShellInv, NEW old \in BOOLEAN, Login(old) PROVE ShellInv'
<1> DEFINE u == IF live THEN Recredit(now, "left") ELSE now
<1>1. BrowserInv(now) /\ Settled(now)
  BY Begins
<1>2. BrowserInv(u) /\ Settled(u)
  BY <1>1, RecreditFacts DEF Settled, Stays
<1>3. ui' = [u EXCEPT !.identity = TRUE, !.kdf = old] /\ live' = TRUE /\ elevated' = FALSE
  BY DEF Login
<1> HIDE DEF u
<1>4. /\ ui' \in Browsers /\ ui'.runs = u.runs /\ ui'.route = u.route /\ ui'.asked = u.asked
      /\ ui'.pending = u.pending /\ ui'.working = u.working /\ ui'.modal = u.modal
  BY <1>2, <1>3 DEF BrowserInv, Browsers
<1>5. BrowserInv(ui') /\ Settled(ui')
  BY <1>2, <1>4, AlikeKeeps DEF Settled
<1> QED BY <1>3, <1>5, Arrives DEF Current

(* The session ends: nothing under way may pass for a live one.            *)
LEMMA SessionEndsKeeps == ASSUME ShellInv, SessionEnds PROVE ShellInv'
<1>1. ui' = Recredit(now, "dead") /\ live' = FALSE /\ elevated' = FALSE
  BY DEF SessionEnds
<1>2. BrowserInv(now) /\ Settled(now)
  BY Begins
<1>3. BrowserInv(ui') /\ Settled(ui') /\ "live" \notin Sent(ui')
  BY <1>1, <1>2, RecreditFacts DEF Settled, Stays
<1> QED BY <1>1, <1>3, Arrives DEF Current

(* The server forgets the second factor.                                   *)
LEMMA ElevationEndsKeeps == ASSUME ShellInv, ElevationEnds PROVE ShellInv'
<1>1. ui' = now /\ live' = live /\ elevated' = FALSE
  BY DEF ElevationEnds
<1>2. BrowserInv(ui') /\ Settled(ui') /\ Sent(ui') = Sent(ui)
  BY <1>1, Begins
<1>3. Current(ui', live') /\ live' \in BOOLEAN
  BY <1>1, <1>2 DEF ShellInv, Current
<1> QED BY <1>1, <1>2, <1>3, Arrives

(* Another page: nobody is left on the old one.                            *)
LEMMA NavigateKeeps == ASSUME ShellInv, NEW p \in Pages, Navigate(p) PROVE ShellInv'
<1>1. ui' = LeavePage(now, p) /\ UNCHANGED <<live, elevated>>
  BY DEF Navigate
<1>2. BrowserInv(now) /\ Settled(now) /\ Sent(now) = Sent(ui)
  BY Begins
<1>3. BrowserInv(ui') /\ Settled(ui') /\ Sent(ui') = Sent(ui)
  BY <1>1, <1>2, LeaveFacts DEF Settled, Stays
<1> QED BY <1>1, <1>3, ArrivesSame

(* The logout resets the browser and goes to the dashboard.                *)
LEMMA LoggedOutKeeps == ASSUME ShellInv, LoggedOut PROVE ShellInv'
<1> DEFINE u == resetAuth(now)
<1>1. ui' = LeavePage(u, "dashboard") /\ UNCHANGED <<live, elevated>>
  BY DEF LoggedOut
<1>2. BrowserInv(now) /\ Settled(now) /\ Sent(now) = Sent(ui)
  BY Begins
<1>3. BrowserInv(u) /\ Settled(u) /\ Sent(u) \subseteq Sent(ui) \cup {"none"}
  BY <1>2, ResetFacts, TameSettled
<1> HIDE DEF u
<1>4. "dashboard" \in Pages
  BY DEF Pages
<1>5. BrowserInv(ui') /\ Settled(ui') /\ Sent(ui') = Sent(u)
  BY <1>1, <1>3, <1>4, LeaveFacts DEF Settled, Stays
<1> QED BY <1>1, <1>3, <1>5, ArrivesSame

-----------------------------------------------------------------------------
(* The dialogs' buttons that start nothing.                                *)
LEMMA KdfPromptKeeps == ASSUME ShellInv, KdfPrompt PROVE ShellInv'
<1> DEFINE m == Dialog("kdf", FALSE)
           u == Shown(now, m)
<1>1. ui' = [u EXCEPT !.kdf = FALSE] /\ UNCHANGED <<live, elevated>>
  BY DEF KdfPrompt
<1>2. BrowserInv(now) /\ Settled(now) /\ Sent(now) = Sent(ui)
  BY Begins
<1>3. m \in Modals /\ m.sent = "none" /\ m.dlg # "confirm" /\ Proper(m, now.route)
  BY DEF Dialog, NoModal, Modals, Dialogs, Creds, Proper
<1> HIDE DEF m
<1>4. BrowserInv(u) /\ After(now, u)
  BY <1>2, <1>3, ShownAfter
<1> HIDE DEF u
<1>5. Settled(u) /\ Sent(u) \subseteq Sent(ui) \cup {"none"}
  BY <1>2, <1>4, TameSettled DEF After
<1>6. /\ ui' \in Browsers /\ ui'.runs = u.runs /\ ui'.route = u.route /\ ui'.asked = u.asked
      /\ ui'.pending = u.pending /\ ui'.working = u.working /\ ui'.modal = u.modal
      /\ ui'.stray = u.stray
  BY <1>1, <1>4 DEF BrowserInv, Browsers
<1>7. BrowserInv(ui') /\ Settled(ui') /\ Sent(ui') = Sent(u)
  BY <1>4, <1>5, <1>6, AlikeKeeps DEF Settled, Sent
<1> QED BY <1>1, <1>5, <1>7, ArrivesSame

(* closeModal between two actions.                                         *)
LEMMA CloseSettled ==
  ASSUME NEW u, BrowserInv(u), Settled(u)
  PROVE  LET v == closeModal(u)
         IN  BrowserInv(v) /\ Settled(v) /\ Sent(v) \subseteq Sent(u) \cup {"none"}
  BY CloseModalFacts DEF Settled, Tame, Ended

(* The dialog is taken away between two actions.                           *)
LEMMA ShownSettled ==
  ASSUME NEW u, BrowserInv(u), Settled(u)
  PROVE  LET v == Shown(u, NoModal)
         IN  BrowserInv(v) /\ Settled(v) /\ Sent(v) \subseteq Sent(u) \cup {"none"}
<1>1. After(u, Shown(u, NoModal)) /\ BrowserInv(Shown(u, NoModal))
  BY ShownAfter, NoModalProper
<1> QED BY <1>1, TameSettled DEF After

(* A form or the prompt is put off.                                        *)
LEMMA CancelFormKeeps == ASSUME ShellInv, CancelForm PROVE ShellInv'
<1>1. BrowserInv(now) /\ Settled(now) /\ Sent(now) = Sent(ui)
  BY Begins
<1>2. (ui' = Shown(now, NoModal) \/ ui' = closeModal(now)) /\ UNCHANGED <<live, elevated>>
  BY DEF CancelForm
<1>3. BrowserInv(ui') /\ Settled(ui') /\ Sent(ui') \subseteq Sent(ui) \cup {"none"}
  BY <1>1, <1>2, CloseSettled, ShownSettled
<1> QED BY <1>2, <1>3, ArrivesSame

(* Escape: the second factor is refused and the question declined.         *)
LEMMA CloseModalKeeps == ASSUME ShellInv, CloseModal PROVE ShellInv'
<1> DEFINE u == rejectElevation(now)
<1>1. BrowserInv(now) /\ Settled(now) /\ Sent(now) = Sent(ui)
  BY Begins
<1>2. BrowserInv(u) /\ Settled(u) /\ Sent(u) = Sent(ui)
  BY <1>1, RejectFacts, TameSettled
<1>3. ui' = closeModal(u) /\ UNCHANGED <<live, elevated>>
  BY DEF CloseModal
<1> HIDE DEF u
<1>4. BrowserInv(ui') /\ Settled(ui') /\ Sent(ui') \subseteq Sent(ui) \cup {"none"}
  BY <1>2, <1>3, CloseSettled
<1> QED BY <1>3, <1>4, ArrivesSame

(* The second factor is refused.                                           *)
LEMMA CancelElevationKeeps == ASSUME ShellInv, CancelElevation PROVE ShellInv'
<1> DEFINE u == Shown(now, NoModal)
<1>1. BrowserInv(now) /\ Settled(now) /\ Sent(now) = Sent(ui)
  BY Begins
<1>2. BrowserInv(u) /\ Settled(u) /\ Sent(u) \subseteq Sent(ui) \cup {"none"}
  BY <1>1, ShownSettled
<1>3. ui' = rejectElevation(u) /\ UNCHANGED <<live, elevated>>
  BY DEF CancelElevation
<1> HIDE DEF u
<1>4. BrowserInv(ui') /\ Settled(ui') /\ Sent(ui') \subseteq Sent(ui) \cup {"none"}
  BY <1>2, <1>3, RejectFacts, TameSettled
<1> QED BY <1>3, <1>4, ArrivesSame

(* The second factor leaves with the session of this moment.               *)
LEMMA SubmitElevationKeeps == ASSUME ShellInv, SubmitElevation PROVE ShellInv'
<1> DEFINE c == IF live THEN "live" ELSE "dead"
           m == [now.modal EXCEPT !.sent = c]
<1>1. /\ BrowserInv(now) /\ Settled(now) /\ Sent(now) = Sent(ui) /\ now \in Browsers
      /\ now.stray = ui.stray
  BY Begins
<1>2. UNCHANGED <<live, elevated>>
  BY DEF SubmitElevation
<1>3. ui' = [now EXCEPT !.modal = m]
  BY <1>1 DEF SubmitElevation, Browsers, Modals
<1>4. /\ m \in Modals /\ m.dlg = now.modal.dlg /\ m.for = now.modal.for
      /\ m.home = now.modal.home /\ m.sent = c
  BY <1>1 DEF Browsers, Modals, Creds
<1> HIDE DEF m
<1>5. /\ ui' \in Browsers /\ ui'.runs = now.runs /\ ui'.route = now.route
      /\ ui'.asked = now.asked /\ ui'.pending = now.pending /\ ui'.working = now.working
      /\ ui'.modal = m /\ ui'.stray = now.stray
  BY <1>1, <1>3, <1>4 DEF Browsers
<1>6. BrowserInv(ui') /\ Settled(ui')
  BY <1>1, <1>4, <1>5, AlikeKeeps DEF Settled
<1>7. Current(ui', live')
  BY <1>1, <1>2, <1>4, <1>5 DEF ShellInv, Current, Sent
<1>8. live' \in BOOLEAN /\ elevated' \in BOOLEAN /\ (elevated' => live')
  BY <1>2 DEF ShellInv
<1> QED BY <1>6, <1>7, <1>8, Arrives

(* A success is that of the session now alive: no other credential of the  *)
(* elevation form could have come back with one.                           *)
LEMMA ElevationAnswerKeeps ==
  ASSUME ShellInv, NEW own \in BOOLEAN, NEW ok \in BOOLEAN, ElevationAnswer(own, ok)
  PROVE  ShellInv'
<1> DEFINE cred == IF own THEN ui.modal.sent ELSE ui.stray
           m == [now.modal EXCEPT !.sent = "none"]
           u == IF own THEN [now EXCEPT !.modal = m] ELSE [now EXCEPT !.stray = "none"]
           w == Shown(u, NoModal)
<1>1. /\ BrowserInv(now) /\ Settled(now) /\ Sent(now) = Sent(ui) /\ now \in Browsers
      /\ now.stray = ui.stray /\ now.modal = ui.modal
  BY Begins
<1>2. [now EXCEPT !.modal.sent = "none"] = [now EXCEPT !.modal = m]
  BY <1>1 DEF Browsers, Modals
<1>3. /\ live' = live /\ elevated' = (elevated \/ (ok /\ cred = "live"))
      /\ ui' = IF ok THEN resolveElevation(w)
               ELSE IF cred = "dead" THEN resetAuth(u) ELSE u
  BY <1>2 DEF ElevationAnswer
<1>4. /\ m \in Modals /\ m.dlg = now.modal.dlg /\ m.for = now.modal.for
      /\ m.home = now.modal.home /\ m.sent = "none"
  BY <1>1 DEF Browsers, Modals, Creds
<1> HIDE DEF m
<1>5. /\ u \in Browsers /\ u.runs = now.runs /\ u.route = now.route
      /\ u.asked = now.asked /\ u.pending = now.pending /\ u.working = now.working
      /\ u.modal \in {m, now.modal} /\ u.stray \in {now.stray, "none"}
  BY <1>1, <1>4 DEF Browsers, Creds
<1> HIDE DEF u
<1>6. BrowserInv(u) /\ Settled(u) /\ Sent(u) \subseteq Sent(ui) \cup {"none"}
  <2>1. BrowserInv(u)
    BY <1>1, <1>4, <1>5, AlikeKeeps
  <2> QED BY <1>1, <1>4, <1>5, <2>1 DEF Settled, Sent
<1>7. BrowserInv(w) /\ Settled(w) /\ Sent(w) \subseteq Sent(ui) \cup {"none"}
  BY <1>6, ShownSettled
<1> HIDE DEF w
<1>8. BrowserInv(ui') /\ Settled(ui') /\ Sent(ui') \subseteq Sent(ui) \cup {"none"}
  <2>1. CASE ok
    BY <1>3, <1>7, <2>1, ResolveKeeps DEF Settled
  <2>2. CASE ~ok /\ cred = "dead"
    <3>1. ui' = resetAuth(u)
      BY <1>3, <2>2
    <3> QED BY <1>6, <3>1, ResetFacts, TameSettled
  <2>3. CASE ~ok /\ cred # "dead"
    BY <1>3, <1>6, <2>3
  <2> QED BY <2>1, <2>2, <2>3
<1>9. cred \in Sent(ui) /\ (cred = "live" => live)
  BY DEF ShellInv, Current, Sent
<1> HIDE DEF cred
<1>10. /\ Current(ui', live') /\ live' \in BOOLEAN /\ elevated' \in BOOLEAN
       /\ (elevated' => live')
  BY <1>3, <1>8, <1>9 DEF ShellInv, Current
<1> QED BY <1>8, <1>10, Arrives

(* A transfer is cancelled by its button.                                  *)
LEMMA CancelTransferKeeps == ASSUME ShellInv, NEW s \in Slots, CancelTransfer(s) PROVE ShellInv'
<1>1. ui.runs[s].st = "sent" /\ ui' = Aborted(now, {s}) /\ UNCHANGED <<live, elevated>>
  BY DEF CancelTransfer
<1>2. /\ BrowserInv(now) /\ Settled(now) /\ Sent(now) = Sent(ui) /\ Running(now.runs[s])
  BY <1>1, Begins DEF Running
<1>3. BrowserInv(ui') /\ Settled(ui') /\ Sent(ui') = Sent(ui)
  BY <1>1, <1>2, AbortedKeeps DEF Settled
<1> QED BY <1>1, <1>3, ArrivesSame

-----------------------------------------------------------------------------
(* The server's answer to r says what it carried out.                      *)
LEMMA AnswersFacts ==
  ASSUME NEW r, NEW a \in Answers(r)
  PROVE  /\ a[1] \in {"ok", "failed", "unauth", "forbidden"}
         /\ a[2] \subseteq {r.pc}
         /\ a[2] # {} => Step(r) \in Writes /\ a[1] \in {"ok", "failed"}
         /\ a[1] = "ok" /\ Step(r) \in Writes => r.pc \in a[2]
<1> DEFINE hit == IF Step(r) \in Writes THEN {r.pc} ELSE {}
<1>1. a \in {<<"ok", hit>>, <<"failed", hit>>, <<"failed", {}>>, <<"unauth", {}>>,
             <<"forbidden", {}>>}
  BY Zenon DEF Answers
<1>2. CASE a = <<"ok", hit>>
  BY <1>2
<1>3. CASE a = <<"failed", hit>>
  BY <1>3
<1>4. CASE a \in {<<"failed", {}>>, <<"unauth", {}>>, <<"forbidden", {}>>}
  BY <1>4
<1> QED BY <1>1, <1>2, <1>3, <1>4

(* The server answers; the handler has not seen it yet.                    *)
LEMMA ServeKeeps == ASSUME ShellInv, NEW s \in Slots, Serve(s) PROVE ShellInv'
<1> DEFINE r == ui.runs[s]
<1>1. r.st = "sent" /\ UNCHANGED <<live, elevated>>
  BY DEF Serve
<1>2. PICK a \in Answers(r) :
          ui' = [now EXCEPT !.runs[s] =
                    [r EXCEPT !.st = "replied", !.reply = a[1], !.cred = "none",
                              !.hits = @ \cup a[2], !.twice = @ \/ a[2] \cap r.hits # {}]]
  BY DEF Serve
<1>3. /\ BrowserInv(now) /\ Settled(now) /\ Sent(now) = Sent(ui) /\ now \in Browsers
      /\ now.runs[s] = r /\ r \in Handlers /\ now.working = ui.working
  BY <1>1, Begins DEF Running
<1>4. /\ a[1] \in {"ok", "failed", "unauth", "forbidden"}
      /\ a[2] \subseteq {r.pc}
      /\ a[2] # {} => Step(r) \in Writes /\ a[1] \in {"ok", "failed"}
      /\ a[1] = "ok" /\ Step(r) \in Writes => r.pc \in a[2]
  BY AnswersFacts
<1>5. PICK x \in {"ok", "failed", "unauth", "forbidden"}, h \in SUBSET Nat, b \in BOOLEAN :
         /\ x = a[1] /\ h = r.hits \cup a[2]
         /\ b = (r.twice \/ a[2] \cap r.hits # {})
         /\ a[2] \cap r.hits = {} /\ ~r.twice => ~b
  BY <1>3, <1>4 DEF Handlers
<1> DEFINE q == [r EXCEPT !.st = "replied", !.reply = x, !.cred = "none",
                          !.hits = h, !.twice = b]
           f == [now.runs EXCEPT ![s] = q]
<1>6. ui' = [now EXCEPT !.runs = f]
  <2>1. q = [r EXCEPT !.st = "replied", !.reply = a[1], !.cred = "none",
                      !.hits = @ \cup a[2], !.twice = @ \/ a[2] \cap r.hits # {}]
    BY <1>3, <1>5 DEF Handlers
  <2>2. ui' = [now EXCEPT !.runs[s] = q]
    BY <1>2, <2>1
  <2> HIDE DEF q
  <2> QED BY <1>3, <2>2 DEF Browsers
<1>7. /\ q \in Handlers
      /\ q.st = "replied" /\ q.op = r.op /\ q.pc = r.pc /\ q.yes = r.yes
      /\ q.notice = r.notice /\ q.page = r.page /\ q.reply = a[1]
      /\ q.hits = h /\ q.twice = b
  <2>1. r \in Handlers
    BY <1>3
  <2> HIDE DEF r
  <2>2. /\ q \in Handlers
        /\ q.st = "replied" /\ q.op = r.op /\ q.pc = r.pc /\ q.yes = r.yes
        /\ q.notice = r.notice /\ q.page = r.page /\ q.reply = x
        /\ q.hits = h /\ q.twice = b
    BY <2>1 DEF Handlers, Creds
  <2> QED BY <1>5, <2>2
<1> HIDE DEF q
<1>8. f \in [Slots -> Handlers] /\ f[s] = q /\ \A t \in Slots \ {s} : f[t] = now.runs[t]
  BY <1>3, <1>7 DEF Browsers
<1> HIDE DEF f
<1>9. Put(now, ui', s) /\ ui'.runs = f /\ ui'.working = now.working
  BY <1>3, <1>6, <1>8 DEF Browsers, Put
<1>10. HandlerInv(r)
  BY <1>3 DEF BrowserInv
<1>11. HandlerInv(q)
  <2>1. Placed(q)
    BY <1>1, <1>7, <1>10 DEF HandlerInv, Placed, Step
  <2>2. Agreed(q)
    <3>1. r.op \in Ops \cup {NoOp}
      BY <1>3 DEF Handlers
    <3>2. DOMAIN r.op.steps = 1 .. Len(r.op.steps)
      BY <3>1, StepsFacts
    <3>3. r.pc # 0
      BY <1>1, <1>10, <3>2 DEF HandlerInv, Placed
    <3> QED BY <1>1, <1>7, <1>10, <3>3 DEF HandlerInv, Agreed, Asks
  <2>3. r.pc \notin r.hits /\ ~r.twice /\ r.hits \subseteq 0 .. r.pc /\ r.pc \in Nat
        /\ WrittenBefore(r, r.pc)
    BY <1>1, <1>3, <1>10 DEF HandlerInv, Hit, Handlers
  <2>4. ~q.twice /\ q.hits \subseteq 0 .. q.pc
    BY <1>4, <1>5, <1>7, <2>3
  <2>5. WrittenBefore(q, q.pc)
    BY <1>5, <1>7, <2>3 DEF WrittenBefore
  <2>6. q.pc \in q.hits => q.reply \in {"ok", "failed"}
    BY <1>4, <1>5, <1>7, <2>3
  <2>7. q.reply = "ok" => WrittenBefore(q, q.pc + 1)
    <3> SUFFICES ASSUME q.reply = "ok", NEW k \in DOMAIN q.op.steps, k < q.pc + 1,
                        q.op.steps[k] \in Writes
                 PROVE  k \in q.hits
      BY DEF WrittenBefore
    <3>1. k \in Nat
      <4>1. r.op \in Ops \cup {NoOp}
        BY <1>3 DEF Handlers
      <4>2. DOMAIN r.op.steps = 1 .. Len(r.op.steps) /\ Len(r.op.steps) \in Nat
        BY <4>1, StepsFacts
      <4> QED BY <1>7, <4>2
    <3>2. CASE k < q.pc
      BY <2>5, <3>2 DEF WrittenBefore
    <3>3. CASE k = q.pc
      BY <1>4, <1>5, <1>7, <3>3 DEF Step
    <3> QED BY <1>7, <2>3, <3>1, <3>2, <3>3
  <2>8. Hit(q)
    BY <1>7, <2>4, <2>5, <2>6, <2>7 DEF Hit
  <2>9. Told(q) /\ Spoken(q)
    BY <1>5, <1>7, <1>10 DEF HandlerInv, Told, WrittenAll, Spoken, Running
  <2> QED BY <2>1, <2>2, <2>8, <2>9 DEF HandlerInv
<1>12. Holds(q) => Holds(r)
  BY <1>1, <1>7 DEF Holds, SetWorking, Running
<1>13. s # now.asked
  BY <1>1, <1>3, ShellAssumption DEF BrowserInv, Questioned
<1>14. r.page => r.op.page = now.route
  BY <1>1, <1>3 DEF BrowserInv, Mounted, Running
<1>15. BrowserInv(ui') /\ Sent(ui') = Sent(now)
  BY <1>3, <1>7, <1>8, <1>9, <1>11, <1>12, <1>13, <1>14, PutKeeps DEF FlagKept
<1>16. Settled(ui')
  BY <1>3, <1>7, <1>8, <1>9 DEF Settled
<1> QED BY <1>1, <1>3, <1>15, <1>16, ArrivesSame

-----------------------------------------------------------------------------
(* A button within reach belongs to the page in front, and starts no work  *)
(* there while the page's flag is set.                                     *)
LEMMA OfferedFacts ==
  ASSUME BrowserInv(ui), NEW op \in Offered, Enabled(op)
  PROVE  LET home == IF op.from = "page" THEN TRUE ELSE ui.modal.home
         IN  /\ op \in Ops /\ home \in BOOLEAN /\ ui.modal.dlg # "confirm"
             /\ home => op.page = ui.route
             /\ ui.route \in GatedPages /\ home /\ Works(op) => Silent(ui)
<1> DEFINE home == IF op.from = "page" THEN TRUE ELSE ui.modal.home
<1>1. ui \in Browsers /\ ui.modal.home \in BOOLEAN /\ ui.route \in Pages /\ ui.modal.dlg \in Dialogs
  BY DEF BrowserInv, Browsers, Modals
<1>2. /\ op \in Ops /\ home \in BOOLEAN /\ ui.modal.dlg # "confirm"
      /\ home => op.page = ui.route
  <2>1. CASE ui.modal.dlg = "none"
    <3>1. op \in {o \in Ops : o.from = "page" /\ o.page = ui.route}
      BY <1>1, <2>1 DEF Offered, PageOps
    <3> QED BY <1>1, <2>1, <3>1
  <2>2. CASE ui.modal.dlg # "none"
    <3>1. op \in Ops /\ op.from = ui.modal.dlg
      BY <2>2 DEF Offered, DialogOps
    <3>2. op \in Operations /\ ui.modal.dlg # "confirm"
      BY <3>1, ShellAssumption, StepsAssumption
    <3>3. ui.modal.dlg # "page"
      BY <1>1, StepsAssumption DEF Dialogs
    <3>4. home = ui.modal.home
      BY <3>1, <3>3
    <3>5. ui.modal.home => op.page = ui.route
      BY <3>1, <3>2 DEF BrowserInv, Mounted
    <3> QED BY <1>1, <3>1, <3>2, <3>4, <3>5
  <2> QED BY <2>1, <2>2
<1>3. ASSUME ui.route \in GatedPages, home, Works(op)
      PROVE  Silent(ui)
  <2>1. op \in Operations /\ op.page = ui.route
    BY <1>2, <1>3, ShellAssumption
  <2>2. "busy" \in {op.steps[i] : i \in DOMAIN op.steps}
    BY <1>3 DEF Works
  <2>3. op.gate = "page"
    BY <1>3, <2>1, <2>2 DEF GatedPages
  <2>4. ui.working = "none"
    BY <2>3 DEF Enabled
  <2> QED BY <1>3, <2>4 DEF BrowserInv, Gated, Silent
<1> QED BY <1>2, <1>3

(* A click: the handler asks, or runs to its first await.                  *)
LEMMA LaunchKeeps ==
  ASSUME ShellInv, NEW s \in Slots, NEW op \in Offered, Launch(s, op)
  PROVE  ShellInv'
<1> DEFINE home == IF op.from = "page" THEN TRUE ELSE ui.modal.home
           u == [now EXCEPT !.runs[s] = Handler(op, home)]
           T == {t \in Slots \ {s} : /\ Uploads(op) /\ Uploads(ui.runs[t].op)
                                     /\ Running(ui.runs[t]) /\ Sibling(op, ui.runs[t])}
           w == Resume(u, s)
<1>1. /\ ~Running(ui.runs[s]) /\ Enabled(op) /\ UNCHANGED <<live, elevated>>
      /\ ui' = IF op.steps[1] = "confirm" THEN confirmAction(u, s) ELSE Aborted(w, T)
  BY DEF Launch
<1>2. /\ BrowserInv(ui) /\ Settled(now)
      /\ \A t \in Slots : Running(ui.runs[t]) => now.runs[t] = ui.runs[t]
  BY Begins
<1>3. /\ op \in Ops /\ home \in BOOLEAN /\ ui.modal.dlg # "confirm"
      /\ home => op.page = ui.route
      /\ ui.route \in GatedPages /\ home /\ Works(op) => Silent(ui)
  BY <1>1, <1>2, OfferedFacts
<1> HIDE DEF home
<1>4. /\ BrowserInv(u) /\ Sent(u) = Sent(ui) /\ s # u.asked
      /\ u.runs[s] = Handler(op, home) /\ u.modal = ui.modal /\ u.route = ui.route
      /\ \A t \in Slots \ {s} : u.runs[t] = now.runs[t]
      /\ Silent(ui) => Silent(u)
  BY <1>1, <1>2, <1>3, StartKeeps
<1> HIDE DEF u
<1>5. /\ u.runs[s].op = op /\ u.runs[s].pc = 0 /\ u.runs[s].st = "running"
      /\ u.runs[s].page = home /\ ~u.runs[s].yes /\ WrittenBefore(u.runs[s], 1)
  BY <1>3, <1>4, FreshFacts
<1>6. \A t \in Slots \ {s} : u.runs[t].st # "running"
  BY <1>2, <1>4 DEF Settled
<1>7. CASE op.steps[1] = "confirm"
  <2>1. ui' = confirmAction(u, s)
    BY <1>1, <1>7
  <2>2. /\ BrowserInv(ui') /\ Sent(ui') \subseteq Sent(u) \cup {"none"}
        /\ ui'.runs[s].st = "confirm"
        /\ \A t \in Slots \ {s} : ui'.runs[t].st = "running" => u.runs[t].st = "running"
    BY <1>3, <1>4, <1>5, <1>7, <2>1, ConfirmKeeps
  <2>3. Settled(ui')
    BY <1>6, <2>2 DEF Settled
  <2> QED BY <1>1, <1>4, <2>2, <2>3, ArrivesSame
<1>8. CASE op.steps[1] # "confirm"
  <2>1. ~Asks(u.runs[s])
    <3>1. op \in Operations
      BY <1>3, ShellAssumption
    <3>2. \A i \in DOMAIN op.steps : op.steps[i] = "confirm" => i = 1
      BY <3>1, StepsAssumption
    <3> QED BY <1>5, <1>8, <3>2 DEF Asks
  <2>2. /\ BrowserInv(w) /\ Sent(w) \subseteq Sent(u) \cup {"none"}
        /\ w.runs[s].st \in {"sent", "done"} /\ w.runs[s].op = op
        /\ w.runs[s].page = home /\ w.route = u.route
        /\ \A t \in Slots \ {s} : Tame(u.runs[t], w.runs[t])
    <3>1. WrittenBefore(u.runs[s], u.runs[s].pc + 1)
      BY <1>5
    <3> QED BY <1>3, <1>4, <1>5, <2>1, <3>1, ResumeKeeps
  <2> HIDE DEF w
  <2>3. Settled(w)
    BY <1>6, <2>2 DEF Settled, Tame, Ended
  <2>4. ASSUME NEW t \in T, w.route \in GatedPages, SetWorking(w.runs[t]), w.runs[t].page,
               ~Running(w.runs[t])
        PROVE  Silent(w)
    <3>1. t \in Slots \ {s} /\ Running(ui.runs[t]) /\ u.runs[t] = ui.runs[t]
          /\ Tame(u.runs[t], w.runs[t])
      BY <1>2, <1>4, <2>2
    <3>2. Holds(ui.runs[t]) /\ Holds(u.runs[t])
      BY <2>4, <3>1 DEF Tame, Same, Holds, SetWorking
    <3>3. ~Silent(ui) /\ ui.route \in GatedPages
      BY <1>4, <2>2, <2>4, <3>1, <3>2 DEF Silent
    <3>4. ~(home /\ Works(op))
      BY <1>3, <3>3
    <3>5. ~Holds(w.runs[s])
      BY <2>2, <3>4 DEF Holds, SetWorking, Works
    <3>6. \A k \in Slots \ {s} : Holds(w.runs[k]) => Holds(u.runs[k])
      <4>1. \A k \in Slots : u.runs[k] \in Handlers /\ HandlerInv(u.runs[k])
        BY <1>4 DEF BrowserInv, Browsers
      <4> QED BY <2>2, <4>1, TameKeeps
    <3>7. \A k \in Slots : Holds(u.runs[k]) => k = t
      BY <1>4, <3>1, <3>2, <3>3 DEF BrowserInv, Gated
    <3> QED BY <2>4, <3>1, <3>5, <3>6, <3>7 DEF Silent, Holds
  <2>5. T \in SUBSET Slots
    OBVIOUS
  <2>6. ui' = Aborted(w, T)
    BY <1>1, <1>8
  <2> HIDE DEF T
  <2>7. BrowserInv(ui') /\ Sent(ui') = Sent(w) /\ Settled(ui')
    BY <2>2, <2>3, <2>4, <2>5, <2>6, AbortedKeeps DEF Settled
  <2> QED BY <1>1, <1>4, <2>2, <2>7, ArrivesSame
<1> QED BY <1>7, <1>8

-----------------------------------------------------------------------------
(* An agreed handler goes on; one that is declined returns.                *)
LEMMA AnswerConfirmKeeps ==
  ASSUME ShellInv, NEW yes \in BOOLEAN, AnswerConfirm(yes)
  PROVE  ShellInv'
<1> DEFINE s == ui.asked
           w == Shown(now, NoModal)
           u == [w EXCEPT !.asked = NoSlot]
<1>1. /\ ui.modal.dlg = "confirm" /\ UNCHANGED <<live, elevated>>
      /\ ui' = IF s = NoSlot THEN u
               ELSE IF ~yes THEN Shown(Declined(now), NoModal)
               ELSE Resume([u EXCEPT !.runs[s].yes = (ui.modal.for = s)], s)
  BY DEF AnswerConfirm
<1>2. /\ BrowserInv(now) /\ Settled(now) /\ Sent(now) = Sent(ui) /\ now \in Browsers
      /\ now.asked = s /\ now.modal = ui.modal
  BY Begins
<1>3. /\ BrowserInv(w) /\ After(now, w) /\ w \in Browsers /\ w.modal = NoModal
      /\ w.asked = s /\ w.route = now.route
      /\ \A t \in Slots : /\ Tame(now.runs[t], w.runs[t])
                          /\ w.runs[t].page = now.runs[t].page
                          /\ w.runs[t].st = now.runs[t].st \/ now.runs[t].st \in {"sent", "replied"}
  BY <1>2, ShownAfter, ShownFacts, NoModalProper DEF BrowserInv
<1>4. Settled(w) /\ Sent(w) \subseteq Sent(ui) \cup {"none"}
  BY <1>2, <1>3, TameSettled DEF After
<1> HIDE DEF w
<1>5. /\ u \in Browsers /\ u.runs = w.runs /\ u.asked = NoSlot /\ u.modal = w.modal
      /\ u.route = w.route /\ u.working = w.working /\ u.pending = w.pending
      /\ u.stray = w.stray /\ u.identity = w.identity
  BY <1>3 DEF Browsers
<1> HIDE DEF u
<1>6. BrowserInv(u) /\ Settled(u) /\ Sent(u) \subseteq Sent(ui) \cup {"none"}
  <2>1. Questioned(u) /\ Promised(u) /\ Mounted(u) /\ Gated(u)
    BY <1>3, <1>5 DEF BrowserInv, Questioned, Promised, Mounted, Gated
  <2> QED BY <1>3, <1>4, <1>5, <2>1 DEF BrowserInv, Settled, Sent
<1>7. CASE s = NoSlot
  BY <1>1, <1>6, <1>7, ArrivesSame
<1>8. CASE s # NoSlot /\ ~yes
  <2> DEFINE d == Declined(now)
  <2>1. ui' = Shown(d, NoModal)
    BY <1>1, <1>8
  <2>2. BrowserInv(d) /\ After(now, d)
    BY <1>2, DeclinedFacts
  <2> HIDE DEF d
  <2>3. Settled(d) /\ Sent(d) \subseteq Sent(ui) \cup {"none"}
    BY <1>2, <2>2, TameSettled DEF After
  <2>4. BrowserInv(ui') /\ Settled(ui') /\ Sent(ui') \subseteq Sent(ui) \cup {"none"}
    BY <2>1, <2>2, <2>3, ShownSettled
  <2> QED BY <1>1, <2>4, ArrivesSame
<1>9. CASE s # NoSlot /\ yes
  <2> DEFINE r == u.runs[s]
             q == [r EXCEPT !.yes = TRUE]
             f == [u.runs EXCEPT ![s] = q]
             x == [u EXCEPT !.runs = f]
  <2>1. /\ s \in Slots /\ now.runs[s].st = "confirm" /\ ui.modal.for = s
    BY <1>1, <1>2, <1>9 DEF BrowserInv, Questioned, Browsers
  <2>2. r \in Handlers /\ HandlerInv(r) /\ r.st = "confirm"
    BY <1>3, <1>5, <1>6, <2>1 DEF BrowserInv, Browsers
  <2>3. /\ q \in Handlers /\ q.yes = TRUE /\ q.st = "confirm" /\ q.op = r.op /\ q.pc = r.pc
        /\ q.hits = r.hits /\ q.twice = r.twice /\ q.notice = r.notice /\ q.page = r.page
        /\ q.reply = r.reply
    BY <2>2 DEF Handlers
  <2>4. ui' = Resume(x, s)
    <3>1. [u EXCEPT !.runs[s].yes = (ui.modal.for = s)] = x
      BY <1>5, <2>1 DEF Browsers, Handlers
    <3> HIDE DEF x
    <3> QED BY <1>1, <1>9, <3>1
  <2> HIDE DEF q, r
  <2>5. HandlerInv(q) /\ Asks(q) /\ q.pc = 1 /\ Step(q) = "confirm"
    <3>1. Asks(r) /\ r.hits = {} /\ r.pc = 1
      BY <2>2 DEF HandlerInv, Agreed
    <3>2. Placed(q) /\ Step(q) = "confirm"
      BY <2>2, <2>3 DEF HandlerInv, Placed, Step
    <3>3. Agreed(q) /\ Asks(q)
      BY <2>3, <3>1 DEF Agreed, Asks
    <3>4. Hit(q)
      BY <2>2, <2>3 DEF HandlerInv, Hit, WrittenBefore
    <3>5. Told(q) /\ Spoken(q)
      BY <2>2, <2>3 DEF HandlerInv, Told, WrittenAll, Spoken, Running
    <3> QED BY <2>3, <3>1, <3>2, <3>3, <3>4, <3>5 DEF HandlerInv
  <2>6. f \in [Slots -> Handlers] /\ f[s] = q /\ \A t \in Slots \ {s} : f[t] = u.runs[t]
    BY <1>5, <2>1, <2>3 DEF Browsers
  <2> HIDE DEF f
  <2>7. Put(u, x, s) /\ x.runs[s] = q /\ x.working = u.working
    BY <1>5, <2>6 DEF Put, Browsers
  <2> HIDE DEF x
  <2>8. Holds(q) <=> Holds(r)
    BY <2>2, <2>3 DEF Holds, Running, SetWorking
  <2>9. r.page => r.op.page = u.route
    BY <1>6, <2>1, <2>2 DEF BrowserInv, Mounted, Running, r
  <2>10. BrowserInv(x) /\ Sent(x) = Sent(u) /\ s # x.asked
    <3>1. s # u.asked
      BY <1>5, <1>9
    <3>2. FlagKept(u, x, s)
      BY <2>7, <2>8 DEF FlagKept, r
    <3> QED BY <1>6, <2>1, <2>3, <2>5, <2>7, <2>9, <3>1, <3>2, PutKeeps DEF Put
  <2>11. x.runs[s].op \in Ops
    <3>1. Running(now.runs[s])
      BY <2>1 DEF Running
    <3>2. now.runs[s].op \in Ops
      BY <1>2, <2>1, <3>1, Begins, IdleFacts DEF Running
    <3> QED BY <1>3, <1>5, <2>1, <2>3, <2>7, <3>2 DEF Tame, Same, r
  <2>12. WrittenBefore(x.runs[s], x.runs[s].pc + 1)
    <3>1. r.op \in Ops \cup {NoOp}
      BY <2>2 DEF Handlers
    <3>2. DOMAIN q.op.steps = 1 .. Len(q.op.steps) /\ Len(q.op.steps) \in Nat
      BY <2>3, <3>1, StepsFacts
    <3> QED BY <2>5, <2>7, <3>2 DEF WrittenBefore, Step, Writes
  <2>13. x.route \in GatedPages /\ Works(x.runs[s].op) /\ x.runs[s].page => Silent(x)
    <3> SUFFICES ASSUME x.route \in GatedPages, Works(q.op), q.page
                 PROVE  Silent(x)
      BY <2>7
    <3>1. now.route \in GatedPages /\ now.runs[s].page /\ Works(now.runs[s].op)
      BY <1>3, <1>5, <2>1, <2>3, <2>7 DEF Put, Tame, Same, r
    <3>2. \A t \in Slots : ~Holds(now.runs[t])
      BY <1>1, <1>2, <1>9, <3>1 DEF BrowserInv, Gated
    <3>3. \A t \in Slots : Holds(w.runs[t]) => Holds(now.runs[t])
      <4>1. \A t \in Slots : now.runs[t] \in Handlers /\ HandlerInv(now.runs[t])
        BY <1>2 DEF BrowserInv, Browsers
      <4> QED BY <1>3, <4>1, TameKeeps
    <3> QED BY <1>5, <2>7, <2>8, <3>2, <3>3 DEF Silent, Put, r
  <2>14. /\ BrowserInv(ui') /\ Sent(ui') \subseteq Sent(x) \cup {"none"}
         /\ ui'.runs[s].st \in {"sent", "done"}
         /\ \A t \in Slots \ {s} : Tame(x.runs[t], ui'.runs[t])
    <3>1. x.asked = NoSlot
      BY <1>5, <2>7 DEF Put
    <3> QED BY <2>1, <2>3, <2>4, <2>5, <2>7, <2>10, <2>11, <2>12, <2>13, <3>1, ResumeKeeps
  <2>15. Settled(ui')
    BY <1>6, <2>7, <2>14 DEF Settled, Put, Tame, Ended
  <2> QED BY <1>1, <1>6, <2>10, <2>14, <2>15, ArrivesSame
<1> QED BY <1>7, <1>8, <1>9

(* An answer wakes its handler, which goes on, waits for the second factor *)
(* or leaves; a dead session resets the browser first.                     *)
LEMMA DeliverKeeps == ASSUME ShellInv, NEW s \in Slots, Deliver(s) PROVE ShellInv'
<1> DEFINE r == ui.runs[s]
           q == [r EXCEPT !.st = "running"]
           f == [now.runs EXCEPT ![s] = q]
           h == [now EXCEPT !.runs = f]
           u == IF r.reply = "unauth" THEN resetAuth(h) ELSE h
<1>1. r.st = "replied" /\ UNCHANGED <<live, elevated>> /\ Running(r)
  BY DEF Deliver, Running
<1>2. /\ BrowserInv(now) /\ Settled(now) /\ Sent(now) = Sent(ui) /\ now \in Browsers
      /\ now.runs[s] = r /\ r \in Handlers /\ r.op \in Ops
  BY <1>1, Begins
<1>3. ui' = IF r.reply = "ok" \/ Step(r) = "load" THEN Resume(u, s)
            ELSE IF r.reply = "forbidden" /\ ~r.retried THEN elevationHandler(u, s)
            ELSE Failed(u, {s})
  <2>1. [now EXCEPT !.runs[s].st = "running"] = h
    BY <1>2 DEF Browsers
  <2> HIDE DEF h
  <2> QED BY <2>1 DEF Deliver
<1>4. /\ q \in Handlers /\ q.st = "running" /\ q.op = r.op /\ q.pc = r.pc /\ q.yes = r.yes
      /\ q.hits = r.hits /\ q.twice = r.twice /\ q.notice = r.notice /\ q.page = r.page
      /\ q.reply = r.reply
  BY <1>2 DEF Handlers
<1> HIDE DEF q
<1>5. DOMAIN r.op.steps = 1 .. Len(r.op.steps) /\ Len(r.op.steps) \in Nat
  <2>1. r.op \in Ops \cup {NoOp}
    BY <1>2
  <2> QED BY <2>1, StepsFacts
<1>6. /\ HandlerInv(r) /\ r.pc \in DOMAIN r.op.steps /\ Step(r) \in Awaits \ {"confirm"}
      /\ r.pc # 0 /\ (Asks(r) => r.yes)
  <2>1. HandlerInv(r)
    BY <1>2 DEF BrowserInv
  <2>2. r.pc \in DOMAIN r.op.steps /\ Step(r) \in Awaits \ {"confirm"}
    BY <1>1, <2>1 DEF HandlerInv, Placed
  <2> QED BY <1>1, <1>5, <2>1, <2>2 DEF HandlerInv, Agreed
<1>7. HandlerInv(q) /\ (Holds(q) => Holds(r))
  <2>1. Placed(q) /\ Agreed(q)
    BY <1>4, <1>6 DEF HandlerInv, Placed, Agreed, Asks, Step
  <2>2. Hit(q)
    BY <1>1, <1>4, <1>6 DEF HandlerInv, Hit, WrittenBefore
  <2>3. Told(q) /\ Spoken(q) /\ (Holds(q) => Holds(r))
    BY <1>1, <1>4, <1>6 DEF HandlerInv, Told, WrittenAll, Spoken, Running, Holds, SetWorking
  <2> QED BY <2>1, <2>2, <2>3 DEF HandlerInv
<1>8. f \in [Slots -> Handlers] /\ f[s] = q /\ \A t \in Slots \ {s} : f[t] = now.runs[t]
  BY <1>2, <1>4 DEF Browsers
<1> HIDE DEF f
<1>9. Put(now, h, s) /\ h.runs[s] = q /\ h.working = now.working
  BY <1>2, <1>8 DEF Put, Browsers
<1> HIDE DEF h
<1>10. BrowserInv(h) /\ Sent(h) = Sent(ui)
  <2>1. s # now.asked
    BY <1>1, <1>2, ShellAssumption DEF BrowserInv, Questioned
  <2>2. r.page => r.op.page = now.route
    BY <1>1, <1>2 DEF BrowserInv, Mounted
  <2>3. FlagKept(now, h, s)
    BY <1>2, <1>7, <1>9 DEF FlagKept
  <2> QED BY <1>2, <1>4, <1>7, <1>9, <2>1, <2>2, <2>3, PutKeeps
<1>11. /\ BrowserInv(u) /\ Sent(u) \subseteq Sent(ui) \cup {"none"} /\ Stays(h, u, s)
       /\ \A t \in Slots \ {s} : u.runs[t].st # "running"
       /\ r.reply # "unauth" => u = h
  <2>1. \A t \in Slots \ {s} : h.runs[t].st # "running"
    BY <1>2, <1>9 DEF Settled, Put
  <2>2. CASE r.reply # "unauth"
    BY <1>10, <2>1, <2>2 DEF Stays, BrowserInv, Browsers
  <2>3. CASE r.reply = "unauth"
    <3>1. u = resetAuth(h)
      BY <2>3
    <3> HIDE DEF u
    <3>2. /\ BrowserInv(u) /\ Sent(u) \subseteq Sent(h) \cup {"none"} /\ Stays(h, u, s)
          /\ \A t \in Slots : Tame(h.runs[t], u.runs[t])
      BY <1>4, <1>9, <1>10, <3>1, ResetFacts
    <3> QED BY <1>10, <2>1, <2>3, <3>2 DEF Tame, Ended
  <2> QED BY <2>2, <2>3
<1> HIDE DEF u
<1>12. /\ u.runs[s] \in Handlers /\ u.runs[s].st = "running" /\ u.runs[s].op = r.op
       /\ u.runs[s].pc = r.pc /\ u.runs[s].yes = r.yes /\ u.runs[s].hits = r.hits
       /\ u.runs[s].reply = r.reply
  BY <1>4, <1>9, <1>11 DEF Stays
<1>13. s # u.asked
  BY <1>11, <1>12, ShellAssumption DEF BrowserInv, Questioned
<1>14. CASE r.reply = "ok" \/ Step(r) = "load"
  <2>1. WrittenBefore(u.runs[s], u.runs[s].pc + 1)
    <3>1. r.reply = "ok" => WrittenBefore(r, r.pc + 1)
      BY <1>1, <1>6 DEF HandlerInv, Hit
    <3>2. Step(r) = "load" => WrittenBefore(r, r.pc + 1)
      BY <1>5, <1>6 DEF HandlerInv, Hit, WrittenBefore, Step, Writes
    <3> QED BY <1>12, <1>14, <3>1, <3>2 DEF WrittenBefore
  <2>2. Asks(u.runs[s]) => u.runs[s].yes /\ u.runs[s].pc # 0
    BY <1>6, <1>12 DEF Asks
  <2>3. Works(u.runs[s].op) => SetWorking(u.runs[s])
    <3>1. ASSUME NEW k \in DOMAIN r.op.steps, r.op.steps[k] = "busy"
          PROVE  k < r.pc
      <4>1. \A i, j \in DOMAIN r.op.steps :
              i < j /\ r.op.steps[j] = "busy" => r.op.steps[i] \notin Awaits \ {"confirm"}
        <5>1. r.op \in Ops \cup {NoOp}
          BY <1>2
        <5> QED BY <5>1, StepsFacts
      <4>2. ~(r.pc < k)
        BY <1>6, <3>1, <4>1 DEF Step
      <4>3. k # r.pc
        BY <1>6, <3>1 DEF Step, Awaits
      <4> QED BY <1>5, <1>6, <4>2, <4>3
    <3> QED BY <1>12, <3>1 DEF Works, SetWorking
  <2>4. /\ BrowserInv(ui') /\ Sent(ui') \subseteq Sent(u) \cup {"none"}
        /\ ui'.runs[s].st \in {"sent", "done"}
        /\ \A t \in Slots \ {s} : Tame(u.runs[t], ui'.runs[t])
    <3>1. ui' = Resume(u, s) /\ u.runs[s].op \in Ops /\ u.runs[s].st \in {"running", "confirm"}
      BY <1>2, <1>3, <1>12, <1>14
    <3> QED BY <1>11, <1>13, <2>1, <2>2, <2>3, <3>1, ResumeKeeps
  <2>5. Settled(ui')
    BY <1>11, <2>4 DEF Settled, Tame, Ended
  <2> QED BY <1>1, <1>11, <2>4, <2>5, ArrivesSame
<1>15. CASE ~(r.reply = "ok" \/ Step(r) = "load") /\ r.reply = "forbidden" /\ ~r.retried
  <2>1. ui' = elevationHandler(u, s)
    BY <1>3, <1>15
  <2>2. /\ BrowserInv(ui') /\ Sent(ui') \subseteq Sent(u) \cup {"none"}
        /\ \A t \in Slots : ui'.runs[t].st = "running" => u.runs[t].st = "running" /\ t # s
    BY <1>2, <1>6, <1>11, <1>12, <1>13, <1>15, <2>1, ElevateKeeps
  <2>3. Settled(ui')
    BY <1>11, <2>2 DEF Settled
  <2> QED BY <1>1, <1>11, <2>2, <2>3, ArrivesSame
<1>16. CASE ~(r.reply = "ok" \/ Step(r) = "load") /\ ~(r.reply = "forbidden" /\ ~r.retried)
  <2>1. ui' = Failed(u, {s})
    BY <1>3, <1>16
  <2>2. /\ BrowserInv(ui') /\ Sent(ui') = Sent(u) /\ ui'.runs[s].st = "done"
        /\ \A t \in Slots \ {s} : ui'.runs[t] = u.runs[t]
    BY <1>11, <1>12, <2>1, FailedFacts DEF BrowserInv
  <2>3. Settled(ui')
    BY <1>11, <2>2 DEF Settled
  <2> QED BY <1>1, <1>11, <2>2, <2>3, ArrivesSame
<1> QED BY <1>14, <1>15, <1>16

-----------------------------------------------------------------------------
(* Nothing happens: the browser stays.                                     *)
LEMMA StutterKeeps == ASSUME ShellInv, UNCHANGED vars PROVE ShellInv'
<1>1. ui' = ui /\ UNCHANGED <<live, elevated>>
  BY DEF vars
<1>2. BrowserInv(ui') /\ Settled(ui') /\ Sent(ui') = Sent(ui)
  BY <1>1 DEF ShellInv, Settled
<1> QED BY <1>1, <1>2, ArrivesSame

(* Every action keeps the invariant.                                       *)
LEMMA NextKeeps == ShellInv /\ [Next]_vars => ShellInv'
<1> SUFFICES ASSUME ShellInv, [Next]_vars PROVE ShellInv'
  OBVIOUS
<1>1. CASE \E old \in BOOLEAN : Login(old)
  BY <1>1, LoginKeeps
<1>2. CASE \E s \in Slots, op \in Offered : Launch(s, op)
  BY <1>2, LaunchKeeps
<1>3. CASE \E s \in Slots : CancelTransfer(s) \/ Serve(s) \/ Deliver(s)
  BY <1>3, CancelTransferKeeps, ServeKeeps, DeliverKeeps
<1>4. CASE \E yes \in BOOLEAN : AnswerConfirm(yes)
  BY <1>4, AnswerConfirmKeeps
<1>5. CASE CancelForm \/ CloseModal \/ CancelElevation \/ SubmitElevation
  BY <1>5, CancelFormKeeps, CloseModalKeeps, CancelElevationKeeps, SubmitElevationKeeps
<1>6. CASE \E own, ok \in BOOLEAN : ElevationAnswer(own, ok)
  BY <1>6, ElevationAnswerKeeps
<1>7. CASE \E p \in Pages : Navigate(p)
  BY <1>7, NavigateKeeps
<1>8. CASE KdfPrompt \/ LoggedOut \/ SessionEnds \/ ElevationEnds
  BY <1>8, KdfPromptKeeps, LoggedOutKeeps, SessionEndsKeeps, ElevationEndsKeeps
<1>9. CASE UNCHANGED vars
  BY <1>9, StutterKeeps
<1> QED BY <1>1, <1>2, <1>3, <1>4, <1>5, <1>6, <1>7, <1>8, <1>9 DEF Next

(* The inductive invariant of the shell: every handler, whoever else runs, *)
(* is where its operation, its question, its answers and its page put it.  *)
THEOREM ShellInvariant == Spec => []ShellInv
<1> QED BY InitHolds, NextKeeps, PTL DEF Spec

-----------------------------------------------------------------------------
(* What it says of a handler between two actions.                          *)
LEMMA SlotFacts ==
  ASSUME ShellInv, NEW s \in Slots
  PROVE  /\ ui.runs[s] \in Handlers /\ HandlerInv(ui.runs[s]) /\ ui.runs[s].st # "running"
         /\ DOMAIN ui.runs[s].op.steps = 1 .. Len(ui.runs[s].op.steps)
         /\ Len(ui.runs[s].op.steps) \in Nat
<1>1. ui.runs[s] \in Handlers /\ HandlerInv(ui.runs[s]) /\ ui.runs[s].st # "running"
  BY DEF ShellInv, BrowserInv, Browsers
<1>2. ui.runs[s].op \in Ops \cup {NoOp}
  BY <1>1 DEF Handlers
<1> QED BY <1>1, <1>2, StepsFacts

(* Between actions every handler is at an await or over, and what is kept  *)
(* of them, of the pages and of the session is of its kind.                *)
THEOREM ShellTypeCorrect == Spec => []TypeOK
<1>1. ShellInv => TypeOK
  <2> SUFFICES ASSUME ShellInv PROVE TypeOK
    OBVIOUS
  <2>1. /\ ui.route \in Pages /\ ui.asked \in Slots \cup {NoSlot}
        /\ ui.working \in WorkingFlags
        /\ live \in BOOLEAN /\ elevated \in BOOLEAN /\ (elevated => live)
    BY DEF ShellInv, BrowserInv, Browsers, WorkingFlags
  <2>2. ASSUME NEW s \in Slots
        PROVE  LET r == ui.runs[s]
               IN  /\ r.st \in {"sent", "replied", "confirm", "elevate", "dead", "done"}
                   /\ r.pc \in 0 .. Len(r.op.steps) + 1
                   /\ Running(r) => r.pc \in DOMAIN r.op.steps /\ Step(r) \in Awaits
    BY SlotFacts DEF Handlers, HandlerInv, Placed, Running, Awaits
  <2> QED BY <2>1, <2>2 DEF TypeOK
<1> QED BY <1>1, ShellInvariant, PTL

(* The server carries out no write of an operation that asks unless the    *)
(* user agreed to that very operation (confirmAction, closeModal).         *)
THEOREM ShellWriteOnlyConfirmed == Spec => []WriteOnlyConfirmed
<1>1. ShellInv => WriteOnlyConfirmed
  BY SlotFacts DEF WriteOnlyConfirmed, HandlerInv, Agreed
<1> QED BY <1>1, ShellInvariant, PTL

(* No write is carried out twice by a retry, and success is shown only     *)
(* after every write of the operation was (secureApi, uploadApi).          *)
THEOREM ShellRetriesSafe == Spec => []RetriesSafe
<1>1. ShellInv => RetriesSafe
  BY SlotFacts DEF RetriesSafe, SuccessAfterServer, WriteOnce, HandlerInv, Hit, Told, WrittenAll
<1> QED BY <1>1, ShellInvariant, PTL

(* Nobody waits for the second factor on a promise that was dropped        *)
(* (elevationHandler, elevationResolve, elevationReject).                  *)
THEOREM ShellWaitersHeld == Spec => []WaitersHeld
<1>1. ShellInv => WaitersHeld
  BY DEF ShellInv, BrowserInv, Promised, WaitersHeld, Waiting
<1> QED BY <1>1, ShellInvariant, PTL

(* One operation at a time works in the mounted page whose operations are  *)
(* all disabled by its flag (busy, the finally blocks).                    *)
THEOREM ShellOneAtATime == Spec => []OneAtATime
<1>1. ShellInv => OneAtATime
  <2> SUFFICES ASSUME ShellInv, ui.route \in GatedPages
               PROVE  Cardinality({s \in Slots : LET r == ui.runs[s] IN
                        Running(r) /\ SetWorking(r) /\ r.page /\ r.op.page = ui.route}) <= 1
    BY DEF OneAtATime
  <2> DEFINE W == {s \in Slots : LET r == ui.runs[s] IN
                     Running(r) /\ SetWorking(r) /\ r.page /\ r.op.page = ui.route}
  <2>1. \A s, t \in W : s = t
    BY DEF ShellInv, BrowserInv, Gated, Holds
  <2> HIDE DEF W
  <2>2. W = {} \/ \E s \in W : W = {s}
    BY <2>1
  <2>3. Cardinality(W) \in {0, 1}
    BY <2>2, FS_EmptySet, FS_Singleton
  <2> QED BY <2>3 DEF W
<1> QED BY <1>1, ShellInvariant, PTL

(* An operation that stops early was declined by the user or has said why, *)
(* unless its handler catches nothing (Failed, Abort).                     *)
THEOREM ShellOutcomeShown == Spec => []OutcomeShown
<1>1. ShellInv => OutcomeShown
  BY SlotFacts DEF OutcomeShown, HandlerInv, Spoken
<1> QED BY <1>1, ShellInvariant, PTL
=============================================================================
