-------------------------------- MODULE SshPorts --------------------------------
(***************************************************************************)
(* Changing the SSH port (internal/sshadmin/manager.go: ApplySettings,     *)
(* ConfirmPort, writeAndReload, restoreConfig and the pending-port file;   *)
(* internal/agent/server.go: the two handlers that call them).             *)
(*                                                                         *)
(* The agent serves every call in a goroutine of its own and sshadmin has  *)
(* no lock: two calls may interleave at any point. What they share is the  *)
(* drop-in 91-lukepanel-settings.conf, ssh-pending-port.json and sshd      *)
(* itself. sshd -T reads the configuration FILES, reload makes the running *)
(* sshd follow them, and ss sees who listens on a port, whoever that is.   *)
(* Commands run under the request's context: when the client goes away     *)
(* they fail, after or before they took effect.                            *)
(*                                                                         *)
(* Of the settings only the Port lines are kept; the Root-login and        *)
(* forwarding lines travel with them in the same file.                     *)
(***************************************************************************)
EXTENDS Naturals, Sequences, FiniteSets, Functions

CONSTANTS
    Ports,        \* ports a request may name
    DefaultPort,  \* sshd's port when no Port line is given (22)
    BasePorts,    \* the Port lines of sshd_config itself
    Calls,        \* goroutines that serve calls, one call after the other
    MayCrash      \* whether the agent may stop in the middle of a call

ASSUME PortsAssumption ==
    /\ DefaultPort \in Ports /\ 0 \notin Ports
    /\ BasePorts \in Seq(Ports)
    /\ MayCrash \in BOOLEAN

NoPending == [old |-> 0, new |-> 0]
NoConf    == [there |-> FALSE, ports |-> <<>>]
WithPorts(s) == [there |-> TRUE, ports |-> s]

VARIABLES
    conf,     \* the drop-in: whether it exists, and its Port lines
    running,  \* ports of the configuration sshd last loaded
    taken,    \* ports another program listens on: sshd cannot bind them
    pend,     \* ssh-pending-port.json
    call,     \* the calls under way
    proven    \* history: the first port, and those a user vouched for

vars == <<conf, running, taken, pend, call, proven>>

(* The ports sshd reads out of the files: the drop-ins are included first, *)
(* Port lines add up, and without any the default applies.                 *)
Effective(c) ==
    LET all == c.ports \o BasePorts IN IF all = <<>> THEN <<DefaultPort>> ELSE all
Bound == running \ taken

Idle == [pc |-> "idle", op |-> "none", port |-> 0, cur |-> 0, old |-> NoConf,
         next |-> NoConf, pend |-> NoPending, result |-> "none",
         copied |-> TRUE, alone |-> FALSE, premise |-> FALSE, lost |-> FALSE]

Confs == [there : BOOLEAN, ports : {<<>>} \cup {<<p>> : p \in Ports}
                                     \cup {<<p, r>> : p, r \in Ports}]
Pendings == [old : Ports \cup {0}, new : Ports \cup {0}]

CallRecords ==
    [pc : {"idle", "read", "write", "reload", "restore", "save", "listen", "forget", "end"},
     op : {"none", "apply", "keep", "cancel"},
     port : Ports \cup {0}, cur : Ports \cup {0}, old : Confs, next : Confs,
     pend : Pendings, copied : BOOLEAN, alone : BOOLEAN, premise : BOOLEAN,
     lost : BOOLEAN,
     result : {"none", "ok", "pending", "error", "unheard"}]

TypeOK ==
    /\ conf \in Confs /\ pend \in Pendings
    /\ running \subseteq Ports /\ taken \subseteq Ports
    /\ call \in [Calls -> CallRecords]
    /\ proven \subseteq Ports

(* sshd runs on the files as they are, on a port nobody else holds. *)
Init ==
    /\ conf = NoConf /\ pend = NoPending
    /\ running = Range(Effective(conf))
    /\ taken \in SUBSET (Ports \ running)
    /\ call = [c \in Calls |-> Idle]
    /\ proven = running

InSync == running = Range(Effective(conf))
OthersQuiet(c) == \A d \in Calls \ {c} : call[d].pc = "idle"

(* The call's own step, which may touch the shared files or sshd: calls    *)
(* that are under way at the same time have not been alone.                *)
Step(c, rec) ==
    call' = [d \in Calls |->
               IF d = c THEN rec
               ELSE IF call[d].pc = "idle" THEN call[d]
               ELSE [call[d] EXCEPT !.alone = FALSE]]

----------------------------------------------------------------------------
(* Status().Port: the map keeps the last of several "port" lines. *)
StatusPort ==
    LET e == Effective(conf) IN e[Len(e)]

ListenOnlyNew(cur, new) == <<new>>

PortLinesAdded(cur, new) == conf.ports \o <<new>>

(* The Port lines ApplySettings writes: the port it believes current stays *)
(* until the new one is confirmed.                                         *)
PortLines(cur, new) == IF new # cur THEN <<cur, new>> ELSE <<new>>

(* ApplySettings up to Status ... *)
ApplyStatus(c, p) ==
    /\ call[c].pc = "idle"
    /\ Step(c, [Idle EXCEPT
         !.pc = "read", !.op = "apply", !.port = p, !.cur = StatusPort,
         !.next = WithPorts(PortLines(StatusPort, p)),
         !.alone = OthersQuiet(c),
         !.premise = InSync /\ Cardinality(Bound) = 1 /\ running = Bound])
    /\ UNCHANGED <<conf, running, taken, pend, proven>>

(* ... and the copy of the old file. Any error of ReadFile is taken to     *)
(* mean that there is none.                                                *)
ApplyRead(c) ==
    /\ call[c].pc = "read"
    /\ \E old \in {conf, NoConf} :
         Step(c, [call[c] EXCEPT !.pc = "write", !.old = old, !.copied = (old = conf)])
    /\ UNCHANGED <<conf, running, taken, pend, proven>>

(* The Port lines of the drop-in, at most two, without those of port p.    *)
LinesWithout(p) ==
    LET Line(i) == IF i <= Len(conf.ports) /\ conf.ports[i] # p THEN <<conf.ports[i]>> ELSE <<>>
    IN  Line(1) \o Line(2)

(* The other port of the two is dropped. *)
WithoutNew(keepNew, pending) == LinesWithout(pending.new)

(* ConfirmPort's filter over the lines of the drop-in. *)
ConfirmedLines(keepNew, pending) ==
    LinesWithout(IF keepNew THEN pending.old ELSE pending.new)

(* ConfirmPort: without a pending change or a drop-in it is refused. Who   *)
(* keeps the new port vouches for having reached sshd on it.               *)
ConfirmRead(c, keepNew) ==
    /\ call[c].pc = "idle" /\ pend # NoPending /\ conf.there
    /\ Step(c, [Idle EXCEPT
         !.pc = "write", !.op = IF keepNew THEN "keep" ELSE "cancel",
         !.old = conf, !.pend = pend,
         !.next = WithPorts(ConfirmedLines(keepNew, pend)),
         !.alone = OthersQuiet(c),
         !.premise = InSync /\ conf.ports = <<pend.old, pend.new>>])
    /\ proven' = IF keepNew THEN proven \cup {pend.new} ELSE proven
    /\ UNCHANGED <<conf, running, taken, pend>>

----------------------------------------------------------------------------
(* writeAndReload: the rename, ... *)
Write(c) ==
    /\ call[c].pc = "write"
    /\ conf' = call[c].next
    /\ Step(c, [call[c] EXCEPT !.pc = "reload", !.next = NoConf])
    /\ UNCHANGED <<running, taken, pend, proven>>

WriteFails(c) ==
    /\ call[c].pc = "write"
    /\ Step(c, [call[c] EXCEPT !.pc = "end", !.result = "error"])
    /\ UNCHANGED <<conf, running, taken, pend, proven>>

(* ... sshd -t, detectService and systemctl reload, ... *)
AfterReload(c) ==
    IF call[c].op = "apply" /\ call[c].port # call[c].cur THEN "save" ELSE "forget"

Reload(c) ==
    /\ call[c].pc = "reload"
    /\ running' = Range(Effective(conf))
    /\ Step(c, [call[c] EXCEPT !.pc = AfterReload(c), !.result = "ok"])
    /\ UNCHANGED <<conf, taken, pend, proven>>

(* ... one of which may fail, the reload perhaps after it took effect. *)
ReloadFails(c) ==
    /\ call[c].pc = "reload"
    /\ running' \in {running, Range(Effective(conf))}
    /\ Step(c, [call[c] EXCEPT !.pc = "restore", !.result = "error"])
    /\ UNCHANGED <<conf, taken, pend, proven>>

(* What restoreConfig leaves of the drop-in: the copy, or nothing where    *)
(* there is no copy; what is there now, when it cannot be opened or        *)
(* removed; and an empty file, when the few hundred bytes cannot be        *)
(* written after WriteFile truncated it. Each error is ignored.            *)
Restored(c) ==
    {call[c].old, conf} \cup (IF call[c].old.there THEN {WithPorts(<<>>)} ELSE {})

(* restoreConfig: sshd follows what is left, unless the test (which an     *)
(* empty file passes) or the reload fails. "lost": the drop-in is neither  *)
(* what the call found nor what was there. The copy is not used again.     *)
restoreConfig(c) ==
    /\ call[c].pc = "restore"
    /\ conf' \in Restored(c)
    /\ running' \in {running, Range(Effective(conf'))}
    /\ Step(c, [call[c] EXCEPT
                  !.pc = IF call[c].result = "unheard" THEN "forget" ELSE "end",
                  !.old = NoConf, !.copied = TRUE,
                  !.lost = (conf' # conf /\ (conf' # call[c].old \/ ~call[c].copied))])
    /\ UNCHANGED <<taken, pend, proven>>

----------------------------------------------------------------------------
PendingSwapped(c) == [old |-> call[c].port, new |-> call[c].cur]

PendingOf(c) == [old |-> call[c].cur, new |-> call[c].port]

(* savePendingPort; its failure ends the call with both ports configured,  *)
(* and may leave a truncated file that loadPendingPort refuses.            *)
savePendingPort(c) ==
    /\ call[c].pc = "save"
    /\ \/ /\ pend' = PendingOf(c)
          /\ Step(c, [call[c] EXCEPT !.pc = "listen"])
       \/ /\ pend' \in {pend, NoPending}
          /\ Step(c, [call[c] EXCEPT !.pc = "end", !.result = "error"])
    /\ UNCHANGED <<conf, running, taken, proven>>

(* listeningPort asks ss whether anybody listens on the new port. sshd     *)
(* takes a moment to reload, so the answer may be no where yes is due.     *)
listeningPort(p) == {FALSE} \cup (IF p \in running \cup taken THEN {TRUE} ELSE {})

CheckListening(c) ==
    /\ call[c].pc = "listen"
    /\ \/ /\ TRUE \in listeningPort(call[c].port)
          /\ Step(c, [call[c] EXCEPT !.pc = "end", !.result = "pending"])
       \/ /\ FALSE \in listeningPort(call[c].port)
          /\ Step(c, [call[c] EXCEPT !.pc = "restore", !.result = "unheard"])
    /\ UNCHANGED <<conf, running, taken, pend, proven>>

(* os.Remove of the pending file; its error is ignored. *)
Forget(c) ==
    /\ call[c].pc = "forget"
    /\ pend' \in {NoPending, pend}
    /\ Step(c, [call[c] EXCEPT !.pc = "end"])
    /\ UNCHANGED <<conf, running, taken, proven>>

Return(c) ==
    /\ call[c].pc = "end"
    /\ Step(c, Idle)
    /\ UNCHANGED <<conf, running, taken, pend, proven>>

(* The agent stops: its calls end where they are, files and sshd stay. *)
Crash ==
    /\ MayCrash
    /\ call' = [c \in Calls |-> Idle]
    /\ UNCHANGED <<conf, running, taken, pend, proven>>

Next ==
    \/ \E c \in Calls, p \in Ports : ApplyStatus(c, p)
    \/ \E c \in Calls, keepNew \in BOOLEAN : ConfirmRead(c, keepNew)
    \/ \E c \in Calls :
         \/ ApplyRead(c)
         \/ Write(c) \/ WriteFails(c)
         \/ Reload(c) \/ ReloadFails(c) \/ restoreConfig(c)
         \/ savePendingPort(c) \/ CheckListening(c) \/ Forget(c)
         \/ Return(c)
    \/ Crash

Spec == Init /\ [][Next]_vars

----------------------------------------------------------------------------
Undisturbed(c) == call[c].alone /\ call[c].premise

(* The only way in stays open: an ApplySettings that finds sshd on a       *)
(* single port and in step with the files, and that no other call          *)
(* overlaps, leaves sshd on that port at every one of its steps, stops and *)
(* failures (manager.go:591), unless restoring lost the drop-in: its old   *)
(* content could not be read (603) and it was removed, or writing it back  *)
(* left it empty (709), both without an error. Then sshd falls back on     *)
(* sshd_config. Overlapping calls can close the port, too, and are not     *)
(* what this says.                                                         *)
OnlyPortKept ==
    \A c \in Calls :
        call[c].op = "apply" /\ Undisturbed(c) /\ ~call[c].lost => call[c].cur \in Bound

(* "Waiting for confirmation" is the truth: when such a call returns it,   *)
(* sshd was told both ports, the drop-in lists both and the pending file   *)
(* names them, so that either answer can be carried out (manager.go:617).  *)
(* It is said of the answer: the next call may undo it before it is used.  *)
PendingAnswerTrue ==
    \A c \in Calls :
        call[c].pc = "end" /\ call[c].result = "pending" /\ Undisturbed(c)
          => /\ {call[c].cur, call[c].port} \subseteq running
             /\ conf.ports = <<pend.old, pend.new>>
             /\ pend.old = call[c].cur

(* A confirmation or cancellation that succeeds, undisturbed and over the  *)
(* two ports of the pending change, leaves sshd on exactly the chosen port *)
(* and those sshd_config names itself (manager.go:636-641). A pending file *)
(* left over from an older change fails the premise: its ports are not the *)
(* lines of the drop-in.                                                   *)
ConfirmChooses ==
    \A c \in Calls :
        call[c].pc = "end" /\ call[c].op \in {"keep", "cancel"}
          /\ call[c].result = "ok" /\ Undisturbed(c)
          => running = {IF call[c].op = "keep" THEN call[c].pend.new
                        ELSE call[c].pend.old} \cup Range(BasePorts)

(* SECURITY.md:43: the old port is closed only after the new one was       *)
(* confirmed, so sshd always has a port that somebody vouched for.         *)
ProvenPortServed == proven \cap running # {}
=============================================================================
