-------------------------------- MODULE Firewall --------------------------------
(***************************************************************************)
(* Enabling UFW with a way back (internal/hostadmin/firewall.go: EnableUFW,*)
(* ConfirmUFW, DisableUFW, scheduleUFWRecovery; internal/agent/server.go:  *)
(* their handlers), with systemd, which runs the recovery.                 *)
(*                                                                         *)
(* Every call is a row of commands in a goroutine of its own, without a    *)
(* lock, under the context of the user's request: a command may fail       *)
(* before or after it took effect. systemd fires the timer once, five      *)
(* minutes after its start; the time itself is left out, it fires at any   *)
(* moment. An elapsed timer stays active (RemainAfterElapse), so starting  *)
(* it again does nothing until it was stopped.                             *)
(*                                                                         *)
(* The rules are left out: letting a port through and setting a policy     *)
(* changes nothing here but may fail.                                      *)
(***************************************************************************)
CONSTANT Calls  \* goroutines that serve calls, one call after the other

VARIABLES
    on,        \* UFW is enabled, now and at the next boot
    timer,     \* lukepanel-ufw-recovery.timer
    service,   \* lukepanel-ufw-recovery.service: disables UFW, removes the marker
    pend,      \* ufw-recovery.pending, the marker that the page shows
    call,      \* the calls under way
    confirmed, \* history: the user vouched for UFW as it is
    excused,   \* history: one of the named gaps took the recovery away
    trial,     \* history: the last call was an EnableUFW that succeeded alone
    settled    \* history: a confirmation succeeded alone, no EnableUFW since

host == <<on, timer, service, pend>>
history == <<confirmed, excused, trial, settled>>
vars == <<host, call, history>>

Idle == [pc |-> "idle", op |-> "none", alone |-> FALSE, clean |-> TRUE]

Places == {"idle", "allow", "enable", "mark", "start", "back",
           "down", "stoptimer", "stopservice", "unmark"}

CallRecords ==
    [pc : Places,
     op : {"none", "enable", "confirm", "disable"},
     alone : BOOLEAN, clean : BOOLEAN]

TypeOK ==
    /\ on \in BOOLEAN /\ pend \in BOOLEAN
    /\ timer \in {"inactive", "waiting", "elapsed"}
    /\ service \in {"none", "disabling", "removing"}
    /\ call \in [Calls -> CallRecords]
    /\ \A c \in Calls : /\ call[c].pc = "idle" => call[c].op = "none"
                        /\ call[c].op = "none" => call[c].pc = "idle"
    /\ confirmed \in BOOLEAN /\ excused \in BOOLEAN /\ settled \in BOOLEAN
    /\ trial \in {"none", "fresh", "stale"}

(* UFW is off, or was enabled by somebody else, who answers for it. *)
Init ==
    /\ on \in BOOLEAN /\ confirmed = on
    /\ timer = "inactive" /\ service = "none" /\ pend = FALSE
    /\ call = [c \in Calls |-> Idle]
    /\ excused = FALSE /\ trial = "none" /\ settled = FALSE

Busy(c) == \E d \in Calls \ {c} : call[d].pc # "idle"

(* A call begins; it and those under way have not been alone. *)
Begin(c, rec) ==
    /\ call[c].pc = "idle"
    /\ call' = [d \in Calls |-> IF d = c THEN [rec EXCEPT !.alone = ~Busy(c)]
                                ELSE [call[d] EXCEPT !.alone = FALSE]]
    /\ trial' = "none"
    /\ UNCHANGED excused

(* Mutant: a call that ended still counts as its operation.                *)
EndsUncleared(c) == call' = [call EXCEPT ![c].pc = "idle"]

Goes(c, pc) == call' = [call EXCEPT ![c].pc = pc]
Ends(c) == call' = [call EXCEPT ![c] = Idle]
Unclean(c, pc) == call' = [call EXCEPT ![c].pc = pc, ![c].clean = FALSE]

----------------------------------------------------------------------------
firewallEnable(c) ==
    /\ Begin(c, [Idle EXCEPT !.pc = "allow", !.op = "enable"])
    /\ settled' = FALSE
    /\ UNCHANGED <<host, confirmed>>

(* ufw allow for each SSH port; the first error is the answer.             *)
AllowPorts(c) ==
    /\ call[c].pc = "allow"
    /\ Goes(c, "enable") \/ Ends(c)
    /\ UNCHANGED <<host, history>>

Withdrawing(c) == call[c].op \in {"confirm", "disable"}

(* ufw --force enable. What was on stays vouched for. Two gaps: a failure  *)
(* after it took effect leaves UFW on without a recovery (firewall.go:127);*)
(* a confirmation under way may take the coming recovery for its own.      *)
TurnOn(c) ==
    /\ call[c].pc = "enable"
    /\ \/ /\ on' = TRUE /\ Goes(c, "mark")
          /\ confirmed' = (on /\ confirmed)
          /\ excused' = ((on /\ excused) \/ \E d \in Calls : Withdrawing(d))
       \/ /\ on' \in {on, TRUE} /\ Ends(c)
          /\ confirmed' = IF on' = on THEN confirmed ELSE FALSE
          /\ excused' = (excused \/ on' # on)
    /\ UNCHANGED <<timer, service, pend, trial, settled>>

(* scheduleUFWRecovery: the marker ...                                     *)
MarkPending(c) ==
    /\ call[c].pc = "mark"
    /\ \/ pend' = TRUE /\ Goes(c, "start")
       \/ pend' \in {pend, TRUE} /\ Goes(c, "back")
    /\ UNCHANGED <<on, timer, service, history>>

(* Mutant: the timer is enabled for the next boot but not started.         *)
StartedAtBoot == timer

Started == IF timer = "inactive" THEN "waiting" ELSE timer

(* ... and the units, systemctl daemon-reload and systemctl start.         *)
StartTimer(c) ==
    /\ call[c].pc = "start"
    /\ \/ /\ timer' = Started /\ Ends(c)
          /\ excused' = (excused \/ timer = "elapsed")
          /\ trial' = IF ~call[c].alone THEN "none"
                      ELSE IF timer = "elapsed" THEN "stale" ELSE "fresh"
       \/ /\ timer' \in {timer, Started} /\ Goes(c, "back")
          /\ UNCHANGED <<excused, trial>>
    /\ UNCHANGED <<on, service, pend, confirmed, settled>>

(* Mutant: the error is returned and UFW stays on.                         *)
TurnOffForgotten(c) ==
    /\ call[c].pc = "back"
    /\ Ends(c)
    /\ UNCHANGED <<host, history>>

(* Without a recovery UFW is disabled again, outside the request's context;*)
(* the result of that is not looked at.                                    *)
TurnOffAgain(c) ==
    /\ call[c].pc = "back"
    /\ \/ on' = FALSE /\ UNCHANGED excused
       \/ on' = on /\ excused' = TRUE
    /\ Ends(c)
    /\ UNCHANGED <<timer, service, pend, confirmed, trial, settled>>

----------------------------------------------------------------------------
(* ConfirmUFW: the user has seen that the connection works.                *)
firewallConfirm(c) ==
    /\ Begin(c, [Idle EXCEPT !.pc = "stoptimer", !.op = "confirm"])
    /\ confirmed' = TRUE
    /\ UNCHANGED <<host, settled>>

(* DisableUFW: UFW goes off, then ConfirmUFW.                              *)
firewallDisable(c) ==
    /\ Begin(c, [Idle EXCEPT !.pc = "down", !.op = "disable"])
    /\ UNCHANGED <<host, confirmed, settled>>

TurnOff(c) ==
    /\ call[c].pc = "down"
    /\ \/ on' = FALSE /\ Goes(c, "stoptimer")
       \/ on' \in {on, FALSE} /\ Ends(c)
    /\ UNCHANGED <<timer, service, pend, history>>

(* Mutant: the service is stopped where the timer is meant.                *)
StopWrongUnit(c) ==
    /\ call[c].pc = "stoptimer"
    /\ \/ service' = "none" /\ Goes(c, "stopservice")
       \/ service' \in {service, "none"} /\ Unclean(c, "stopservice")
    /\ UNCHANGED <<on, timer, pend, history>>

(* systemctl stop of the timer, then of the service; errors are ignored.   *)
StopTimer(c) ==
    /\ call[c].pc = "stoptimer"
    /\ \/ timer' = "inactive" /\ Goes(c, "stopservice")
       \/ timer' \in {timer, "inactive"} /\ Unclean(c, "stopservice")
    /\ UNCHANGED <<on, service, pend, history>>

StopService(c) ==
    /\ call[c].pc = "stopservice"
    /\ \/ service' = "none" /\ Goes(c, "unmark")
       \/ service' \in {service, "none"} /\ Unclean(c, "unmark")
    /\ UNCHANGED <<on, timer, pend, history>>

(* os.Remove of the marker, whose error is ignored.                        *)
Unmark(c) ==
    /\ call[c].pc = "unmark"
    /\ pend' \in {FALSE, pend}
    /\ Ends(c)
    /\ settled' = (settled \/ (call[c].alone /\ call[c].clean))
    /\ UNCHANGED <<on, timer, service, confirmed, excused, trial>>

----------------------------------------------------------------------------
(* systemd: the timer fires once; the service runs its two commands, and   *)
(* is done with them long before another timer has waited five minutes.    *)
TimerFires ==
    /\ timer = "waiting" /\ service = "none"
    /\ timer' = "elapsed" /\ service' = "disabling"
    /\ UNCHANGED <<on, pend, call, history>>

ServiceDisables ==
    /\ service = "disabling"
    /\ on' = FALSE /\ service' = "removing"
    /\ UNCHANGED <<timer, pend, call, history>>

ServiceEnds ==
    /\ service = "removing"
    /\ pend' = FALSE /\ service' = "none"
    /\ UNCHANGED <<on, timer, call, history>>

(* An EnableUFW that had turned UFW on and is not finished.                *)
Enabling(c) == call[c].op = "enable" /\ call[c].pc \in {"mark", "start", "back"}

(* The agent stops: its calls end where they are.                          *)
AgentStops ==
    /\ call' = [c \in Calls |-> Idle]
    /\ excused' = (excused \/ \E c \in Calls : Enabling(c))
    /\ UNCHANGED <<host, confirmed, trial, settled>>

(* The host restarts: units and marker were under /run, UFW comes back.    *)
Reboot ==
    /\ timer' = "inactive" /\ service' = "none" /\ pend' = FALSE
    /\ call' = [c \in Calls |-> Idle]
    /\ excused' = TRUE /\ trial' = "none"
    /\ UNCHANGED <<on, confirmed, settled>>

Next ==
    \/ \E c \in Calls :
         \/ firewallEnable(c) \/ AllowPorts(c) \/ TurnOn(c) \/ MarkPending(c)
         \/ StartTimer(c) \/ TurnOffAgain(c)
         \/ firewallConfirm(c) \/ firewallDisable(c) \/ TurnOff(c)
         \/ StopTimer(c) \/ StopService(c) \/ Unmark(c)
    \/ TimerFires \/ ServiceDisables \/ ServiceEnds
    \/ AgentStops \/ Reboot

Spec == Init /\ [][Next]_vars

(* systemd fires a timer that waits and runs a service that was started.   *)
FairSpec ==
    Spec /\ WF_vars(TimerFires) /\ WF_vars(ServiceDisables) /\ WF_vars(ServiceEnds)

----------------------------------------------------------------------------
Recovering == timer = "waiting" \/ service = "disabling"

(* UFW is on only if somebody vouched for it, the recovery will turn it    *)
(* off, EnableUFW is about to arrange that, or one of the gaps of this     *)
(* module was met since: a confirmation or DisableUFW under way when UFW   *)
(* went on, a stop in between, a reboot, a command that failed although it *)
(* took effect, a second failure, an elapsed timer.                        *)
OnIsAccounted ==
    on => confirmed \/ excused \/ Recovering \/ \E c \in Calls : Enabling(c)

(* Once a confirmation or a DisableUFW went through undisturbed, nothing   *)
(* is left that would turn UFW off behind the user's back, whenever the    *)
(* timer fired meanwhile (firewall.go:139-140: first timer, then service). *)
ConfirmHolds == settled => timer = "inactive" /\ service = "none"

(* An enabling that succeeded on its own, over a timer that could start,   *)
(* is undone unless the user confirms, disables or the host restarts.      *)
Recovers == trial = "fresh" /\ on ~> ~on \/ trial # "fresh"
=============================================================================
