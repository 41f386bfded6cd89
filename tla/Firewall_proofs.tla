---------------------------- MODULE Firewall_proofs ----------------------------
(***************************************************************************)
(* Proofs about Firewall for any number of calls, and stops of the agent   *)
(* and the host at every step: where UFW may be on without a recovery, and *)
(* what a confirmation leaves behind.                                      *)
(***************************************************************************)
EXTENDS Firewall, TLAPS

(* Who is alone has no other call beside it.                               *)
Solitude ==
    \A c \in Calls : call[c].alone => ~Busy(c)

(* What each command's call has arranged by then.                          *)
Arranged ==
    \A c \in Calls :
        /\ call[c].pc \in {"stoptimer", "stopservice"} => ~on \/ confirmed \/ excused
        /\ call[c].alone /\ call[c].clean /\ call[c].pc \in {"stopservice", "unmark"}
             => timer = "inactive"
        /\ call[c].alone /\ call[c].clean /\ call[c].pc = "unmark" => service = "none"
        /\ call[c].pc \in {"allow", "enable", "mark", "start", "back"}
             => call[c].op = "enable" /\ ~settled
        /\ call[c].pc \in {"down", "stoptimer", "stopservice", "unmark"} => call[c].op \in {"confirm", "disable"}

FirewallInv == TypeOK /\ Solitude /\ Arranged /\ OnIsAccounted /\ ConfirmHolds
-----------------------------------------------------------------------------
(* A step of a call that goes on: the other calls are as they were.        *)
Moved(c, pc) ==
    /\ call' \in [Calls -> CallRecords] /\ Solitude'
    /\ call'[c].pc = pc /\ call'[c].op = call[c].op /\ call'[c].alone = call[c].alone
    /\ call'[c].clean => call[c].clean
    /\ \A d \in Calls \ {c} : call'[d] = call[d]

(* A call's record is replaced by one that is as much alone.               *)
LEMMA MoveFacts ==
  ASSUME FirewallInv, NEW c \in Calls, NEW r \in CallRecords,
         call' = [call EXCEPT ![c] = r], call[c].pc # "idle",
         r.op = call[c].op, r.alone = call[c].alone, r.clean => call[c].clean
  PROVE  Moved(c, r.pc)
<1>1. call \in [Calls -> CallRecords] /\ Solitude
  BY DEF FirewallInv, TypeOK
<1>2. call' \in [Calls -> CallRecords] /\ call'[c] = r
  BY <1>1
<1>3. \A d \in Calls \ {c} : call'[d] = call[d]
  BY <1>1
<1>4. Solitude'
  <2> SUFFICES ASSUME NEW d \in Calls, call'[d].alone, NEW e \in Calls \ {d}
               PROVE  call'[e].pc = "idle"
    BY DEF Solitude, Busy
  <2>1. CASE d = c
    BY <1>1, <1>2, <1>3, <2>1 DEF Solitude, Busy
  <2>2. CASE d # c
    BY <1>1, <1>3, <2>2 DEF Solitude, Busy
  <2> QED BY <2>1, <2>2
<1> QED BY <1>2, <1>3, <1>4 DEF Moved

(* The record after a field was set.                                       *)
LEMMA RecordTypes ==
  ASSUME NEW r \in CallRecords
  PROVE  /\ \A x \in Places : [r EXCEPT !.pc = x] \in CallRecords
         /\ \A x \in BOOLEAN : [r EXCEPT !.alone = x] \in CallRecords
         /\ \A x \in BOOLEAN : [r EXCEPT !.clean = x] \in CallRecords
         /\ \A x \in {"none", "enable", "confirm", "disable"} : [r EXCEPT !.op = x] \in CallRecords
  BY DEF CallRecords, Places

(* The record of a goroutine without a call.                               *)
LEMMA IdleType == Idle \in CallRecords
  BY DEF Idle, CallRecords, Places

(* The call goes on to its next command.                                   *)
LEMMA GoesFacts ==
  ASSUME FirewallInv, NEW c \in Calls, NEW pc \in Places, Goes(c, pc), call[c].pc # "idle"
  PROVE  Moved(c, pc)
<1> DEFINE r == [call[c] EXCEPT !.pc = pc]
<1>1. call[c] \in CallRecords /\ call \in [Calls -> CallRecords]
  BY DEF FirewallInv, TypeOK
<1>2. r \in CallRecords
  BY <1>1, RecordTypes
<1>3. call' = [call EXCEPT ![c] = r]
  BY DEF Goes
<1>4. r.pc = pc /\ r.op = call[c].op /\ r.alone = call[c].alone /\ r.clean = call[c].clean
  BY <1>1 DEF CallRecords
<1> HIDE DEF r
<1> QED BY <1>2, <1>3, <1>4, MoveFacts

(* The call is over and has no part in anything any more.                  *)
Over(c) ==
    /\ call' \in [Calls -> CallRecords] /\ Solitude'
    /\ call'[c].pc = "idle" /\ call'[c].op = "none" /\ ~call'[c].alone
    /\ \A d \in Calls \ {c} : call'[d] = call[d]

(* A call that ends leaves the others as they are.                         *)
LEMMA EndsFacts ==
  ASSUME FirewallInv, NEW c \in Calls, Ends(c)
  PROVE  Over(c)
<1>1. call' = [call EXCEPT ![c] = Idle] /\ call \in [Calls -> CallRecords] /\ Solitude
  BY DEF FirewallInv, TypeOK, Ends
<1>2. call' \in [Calls -> CallRecords] /\ call'[c] = Idle
  BY <1>1, IdleType
<1>3. \A d \in Calls \ {c} : call'[d] = call[d]
  BY <1>1
<1>4. call'[c].pc = "idle" /\ call'[c].op = "none" /\ ~call'[c].alone
  BY <1>2 DEF Idle
<1>5. Solitude'
  BY <1>1, <1>3, <1>4 DEF Solitude, Busy
<1> QED BY <1>2, <1>3, <1>4, <1>5 DEF Over

(* The call goes on although its command failed.                           *)
LEMMA UncleanFacts ==
  ASSUME FirewallInv, NEW c \in Calls, NEW pc \in Places, Unclean(c, pc), call[c].pc # "idle"
  PROVE  Moved(c, pc) /\ call'[c].clean = FALSE
<1> DEFINE a == [call[c] EXCEPT !.pc = pc]
           r == [a EXCEPT !.clean = FALSE]
<1>1. call[c] \in CallRecords /\ call \in [Calls -> CallRecords]
  BY DEF FirewallInv, TypeOK
<1>2. a \in CallRecords
  BY <1>1, RecordTypes
<1>3. r \in CallRecords
  <2> HIDE DEF a
  <2> QED BY <1>2, RecordTypes
<1>4. call' = [call EXCEPT ![c] = r]
  BY <1>1 DEF Unclean
<1>5. r.pc = pc /\ r.op = call[c].op /\ r.alone = call[c].alone /\ r.clean = FALSE
  BY <1>1 DEF CallRecords
<1>6. call'[c] = r
  <2> HIDE DEF a, r
  <2> QED BY <1>1, <1>4
<1> HIDE DEF a, r
<1> QED BY <1>3, <1>4, <1>5, <1>6, MoveFacts

(* A call that begins beside others leaves none of them alone.             *)
LEMMA BeginFacts ==
  ASSUME FirewallInv, NEW c \in Calls, NEW r \in CallRecords, Begin(c, r), r.pc # "idle"
  PROVE  /\ call' \in [Calls -> CallRecords] /\ Solitude' /\ call[c].pc = "idle"
         /\ call'[c].pc = r.pc /\ call'[c].op = r.op
         /\ \A d \in Calls \ {c} : /\ ~call'[d].alone /\ call'[d].pc = call[d].pc
                                   /\ call'[d].op = call[d].op
         /\ trial' = "none" /\ excused' = excused
<1>1. call \in [Calls -> CallRecords]
  BY DEF FirewallInv, TypeOK
<1>2. Busy(c) \in BOOLEAN
  BY Zenon DEF Busy
<1>3. call'[c] = [r EXCEPT !.alone = ~Busy(c)]
  BY DEF Begin
<1>4. /\ call'[c] \in CallRecords /\ call'[c].pc = r.pc /\ call'[c].op = r.op
      /\ call'[c].alone = ~Busy(c)
  <2>1. call'[c] \in CallRecords
    BY <1>2, <1>3, RecordTypes
  <2> QED BY <1>3, <2>1 DEF CallRecords
<1>5. ASSUME NEW d \in Calls \ {c}
      PROVE  /\ call'[d] \in CallRecords /\ ~call'[d].alone
             /\ call'[d].pc = call[d].pc /\ call'[d].op = call[d].op
  <2>1. call'[d] = [call[d] EXCEPT !.alone = FALSE] /\ call[d] \in CallRecords
    BY <1>1, <1>5 DEF Begin
  <2>2. call'[d] \in CallRecords
    BY <2>1, RecordTypes
  <2> QED BY <2>1, <2>2 DEF CallRecords
<1>6. call' \in [Calls -> CallRecords]
  BY <1>4, <1>5 DEF Begin
<1>7. Solitude'
  <2> SUFFICES ASSUME NEW d \in Calls, call'[d].alone, NEW e \in Calls \ {d}
               PROVE  call'[e].pc = "idle"
    BY DEF Solitude, Busy
  <2>1. d = c
    BY <1>5
  <2> QED BY <1>4, <1>5, <2>1 DEF Busy
<1> QED BY <1>4, <1>5, <1>6, <1>7 DEF Begin
-----------------------------------------------------------------------------
(* One lemma per action, with a step per part of the invariant.            *)

(* Nothing is on that was not.                                             *)
LEMMA AllowPortsKeeps ==
  ASSUME FirewallInv, NEW c \in Calls, AllowPorts(c)
  PROVE  FirewallInv'
<1>1. TypeOK /\ Solitude /\ Arranged /\ OnIsAccounted /\ ConfirmHolds
  BY DEF FirewallInv
<1>2. Moved(c, "enable") \/ Over(c)
  BY GoesFacts, EndsFacts DEF AllowPorts, Places
<1>3. call[c].pc = "allow" /\ UNCHANGED <<on, timer, service, pend, confirmed, excused, trial, settled>>
      /\ call[c].op = "enable"
  BY <1>1 DEF AllowPorts, TypeOK, host, history, CallRecords, Arranged
<1>4. TypeOK'
  BY <1>1, <1>2, <1>3 DEF TypeOK, Moved, Over
<1>5. Arranged'
  BY <1>1, <1>2, <1>3 DEF Arranged, Moved, Over, TypeOK, Solitude, Busy
<1>6. OnIsAccounted'
  BY <1>1, <1>2, <1>3 DEF OnIsAccounted, Moved, Over, Enabling, Recovering, Arranged
<1>7. ConfirmHolds'
  BY <1>1, <1>2, <1>3 DEF ConfirmHolds, Arranged, Moved, Over
<1> QED BY <1>2, <1>4, <1>5, <1>6, <1>7 DEF FirewallInv, Moved, Over

(* UFW goes on, with a call that will arrange the recovery.                *)
LEMMA TurnOnKeeps ==
  ASSUME FirewallInv, NEW c \in Calls, TurnOn(c)
  PROVE  FirewallInv'
<1>1. TypeOK /\ Solitude /\ Arranged /\ OnIsAccounted /\ ConfirmHolds
  BY DEF FirewallInv
<1>2. \/ Moved(c, "mark") /\ on' = TRUE /\ confirmed' = (on /\ confirmed)
         /\ excused' = ((on /\ excused) \/ \E d \in Calls : Withdrawing(d))
      \/ Over(c) /\ on' \in {on, TRUE} /\ excused' = (excused \/ on' # on)
         /\ confirmed' = IF on' = on THEN confirmed ELSE FALSE
  BY GoesFacts, EndsFacts DEF TurnOn, Places
<1>3. call[c].pc = "enable" /\ UNCHANGED <<timer, service, pend, trial, settled>>
      /\ call[c].op = "enable" /\ call[c].alone \in BOOLEAN
  BY <1>1 DEF TurnOn, TypeOK, host, history, Arranged, CallRecords
<1>4. TypeOK'
  BY <1>1, <1>2, <1>3 DEF TypeOK, Moved, Over
<1>5. Arranged'
  <2>1. \A d \in Calls : call[d].pc \in {"stoptimer", "stopservice"} => ~on' \/ confirmed' \/ excused'
    <3> SUFFICES ASSUME NEW d \in Calls, call[d].pc \in {"stoptimer", "stopservice"}, on'
                 PROVE  confirmed' \/ excused'
      OBVIOUS
    <3>1. d # c /\ call'[d] = call[d] /\ Withdrawing(d)
      BY <1>1, <1>2, <1>3 DEF Arranged, Withdrawing, Moved, Over
    <3>2. ~on \/ confirmed \/ excused
      BY <1>1 DEF Arranged
    <3> QED BY <1>1, <1>2, <1>3, <3>1, <3>2 DEF TypeOK
  <2> QED BY <1>1, <1>2, <1>3, <2>1 DEF Arranged, Moved, Over, TypeOK, Solitude, Busy
<1>6. OnIsAccounted'
  BY <1>1, <1>2, <1>3 DEF OnIsAccounted, Moved, Over, Enabling, Recovering, Arranged
<1>7. ConfirmHolds'
  BY <1>1, <1>2, <1>3 DEF ConfirmHolds, Arranged, Moved, Over
<1> QED BY <1>2, <1>4, <1>5, <1>6, <1>7 DEF FirewallInv, Moved, Over

(* The marker says nothing about the timer.                                *)
LEMMA MarkPendingKeeps ==
  ASSUME FirewallInv, NEW c \in Calls, MarkPending(c)
  PROVE  FirewallInv'
<1>1. TypeOK /\ Solitude /\ Arranged /\ OnIsAccounted /\ ConfirmHolds
  BY DEF FirewallInv
<1>2. Moved(c, "start") \/ Moved(c, "back")
  BY GoesFacts DEF MarkPending, Places
<1>3. call[c].pc = "mark" /\ UNCHANGED <<on, timer, service, confirmed, excused, trial, settled>>
      /\ pend' \in BOOLEAN /\ call[c].op = "enable"
  BY <1>1 DEF MarkPending, TypeOK, host, history, Arranged
<1>4. TypeOK'
  BY <1>1, <1>2, <1>3 DEF TypeOK, Moved, Over
<1>5. Arranged'
  BY <1>1, <1>2, <1>3 DEF Arranged, Moved, Over, TypeOK, Solitude, Busy
<1>6. OnIsAccounted'
  BY <1>1, <1>2, <1>3 DEF OnIsAccounted, Moved, Over, Enabling, Recovering, Arranged
<1>7. ConfirmHolds'
  BY <1>1, <1>2, <1>3 DEF ConfirmHolds, Arranged, Moved, Over
<1> QED BY <1>2, <1>4, <1>5, <1>6, <1>7 DEF FirewallInv, Moved, Over

(* The timer waits from now on, unless it had elapsed.                     *)
LEMMA StartTimerKeeps ==
  ASSUME FirewallInv, NEW c \in Calls, StartTimer(c)
  PROVE  FirewallInv'
<1>1. TypeOK /\ Solitude /\ Arranged /\ OnIsAccounted /\ ConfirmHolds
  BY DEF FirewallInv
<1>2. \/ Over(c) /\ timer' = Started /\ excused' = (excused \/ timer = "elapsed")
      \/ Moved(c, "back") /\ timer' \in {timer, Started} /\ UNCHANGED excused
  BY GoesFacts, EndsFacts DEF StartTimer, Places
<1>3. call[c].pc = "start" /\ UNCHANGED <<on, service, pend, confirmed, settled>>
      /\ trial' \in {"none", "fresh", "stale"} /\ Started \in {"waiting", "elapsed"}
      /\ (timer # "elapsed" => Started = "waiting") /\ (timer # "inactive" => Started = timer)
      /\ call[c].op = "enable" /\ ~settled
  BY <1>1 DEF StartTimer, TypeOK, host, history, Started, Arranged
<1>4. TypeOK'
  BY <1>1, <1>2, <1>3 DEF TypeOK, Moved, Over
<1>5. Arranged'
  BY <1>1, <1>2, <1>3 DEF Arranged, Moved, Over, TypeOK, Solitude, Busy
<1>6. OnIsAccounted'
  BY <1>1, <1>2, <1>3 DEF OnIsAccounted, Moved, Over, Enabling, Recovering, Arranged
<1>7. ConfirmHolds'
  BY <1>1, <1>2, <1>3 DEF ConfirmHolds, Arranged, Moved, Over
<1> QED BY <1>2, <1>4, <1>5, <1>6, <1>7 DEF FirewallInv, Moved, Over

(* UFW is off again, or nobody noticed that it is not.                     *)
LEMMA TurnOffAgainKeeps ==
  ASSUME FirewallInv, NEW c \in Calls, TurnOffAgain(c)
  PROVE  FirewallInv'
<1>1. TypeOK /\ Solitude /\ Arranged /\ OnIsAccounted /\ ConfirmHolds
  BY DEF FirewallInv
<1>2. Over(c)
  BY EndsFacts DEF TurnOffAgain, Places
<1>3. call[c].pc = "back" /\ UNCHANGED <<timer, service, pend, confirmed, trial, settled>>
      /\ \/ on' = FALSE /\ excused' = excused
         \/ on' = on /\ excused' = TRUE
  BY <1>1 DEF TurnOffAgain, TypeOK, host, history
<1>4. TypeOK'
  BY <1>1, <1>2, <1>3 DEF TypeOK, Moved, Over
<1>5. Arranged'
  BY <1>1, <1>2, <1>3 DEF Arranged, Moved, Over, TypeOK, Solitude, Busy
<1>6. OnIsAccounted'
  BY <1>1, <1>2, <1>3 DEF OnIsAccounted, Moved, Over, Enabling, Recovering, Arranged
<1>7. ConfirmHolds'
  BY <1>1, <1>2, <1>3 DEF ConfirmHolds, Arranged, Moved, Over
<1> QED BY <1>2, <1>4, <1>5, <1>6, <1>7 DEF FirewallInv, Moved, Over

(* The user vouches for what is on.                                        *)
LEMMA firewallConfirmKeeps ==
  ASSUME FirewallInv, NEW c \in Calls, firewallConfirm(c)
  PROVE  FirewallInv'
<1>1. TypeOK /\ Solitude /\ Arranged /\ OnIsAccounted /\ ConfirmHolds
  BY DEF FirewallInv
<1> DEFINE a == [Idle EXCEPT !.pc = "stoptimer"]
           r == [a EXCEPT !.op = "confirm"]
<1>8. r \in CallRecords
  <2>1. a \in CallRecords
    BY IdleType, RecordTypes DEF Places
  <2> HIDE DEF a
  <2> QED BY <2>1, RecordTypes
<1>9. Begin(c, r) /\ r.pc = "stoptimer" /\ r.op = "confirm"
  BY DEF firewallConfirm, Idle
<1> HIDE DEF a, r
<1>2. /\ call' \in [Calls -> CallRecords] /\ Solitude' /\ call[c].pc = "idle"
      /\ call'[c].pc = "stoptimer" /\ call'[c].op = "confirm"
      /\ \A d \in Calls \ {c} : /\ ~call'[d].alone /\ call'[d].pc = call[d].pc
                                /\ call'[d].op = call[d].op
      /\ trial' = "none" /\ excused' = excused
  BY <1>8, <1>9, BeginFacts
<1>3. confirmed' = TRUE /\ UNCHANGED <<host, settled>> /\ Busy(c) \in BOOLEAN
  BY Zenon DEF firewallConfirm, Busy
<1>4. TypeOK'
  BY <1>1, <1>2, <1>3 DEF TypeOK, host
<1>5. Arranged'
  BY <1>1, <1>2, <1>3 DEF Arranged, TypeOK, host
<1>6. OnIsAccounted'
  BY <1>1, <1>2, <1>3 DEF OnIsAccounted, Enabling, Recovering, host
<1>7. ConfirmHolds'
  BY <1>1, <1>2, <1>3 DEF ConfirmHolds, host
<1> QED BY <1>2, <1>4, <1>5, <1>6, <1>7 DEF FirewallInv

(* A confirmation of before no longer counts as the last word.             *)
LEMMA firewallEnableKeeps ==
  ASSUME FirewallInv, NEW c \in Calls, firewallEnable(c)
  PROVE  FirewallInv'
<1>1. TypeOK /\ Solitude /\ Arranged /\ OnIsAccounted /\ ConfirmHolds
  BY DEF FirewallInv
<1> DEFINE a == [Idle EXCEPT !.pc = "allow"]
           r == [a EXCEPT !.op = "enable"]
<1>8. r \in CallRecords
  <2>1. a \in CallRecords
    BY IdleType, RecordTypes DEF Places
  <2> HIDE DEF a
  <2> QED BY <2>1, RecordTypes
<1>9. Begin(c, r) /\ r.pc = "allow" /\ r.op = "enable"
  BY DEF firewallEnable, Idle
<1> HIDE DEF a, r
<1>2. /\ call' \in [Calls -> CallRecords] /\ Solitude' /\ call[c].pc = "idle"
      /\ call'[c].pc = "allow" /\ call'[c].op = "enable"
      /\ \A d \in Calls \ {c} : /\ ~call'[d].alone /\ call'[d].pc = call[d].pc
                                /\ call'[d].op = call[d].op
      /\ trial' = "none" /\ excused' = excused
  BY <1>8, <1>9, BeginFacts
<1>3. settled' = FALSE /\ UNCHANGED <<host, confirmed>> /\ Busy(c) \in BOOLEAN
  BY Zenon DEF firewallEnable, Busy
<1>4. TypeOK'
  BY <1>1, <1>2, <1>3 DEF TypeOK, host
<1>5. Arranged'
  BY <1>1, <1>2, <1>3 DEF Arranged, TypeOK, host
<1>6. OnIsAccounted'
  BY <1>1, <1>2, <1>3 DEF OnIsAccounted, Enabling, Recovering, host
<1>7. ConfirmHolds'
  BY <1>1, <1>2, <1>3 DEF ConfirmHolds, host
<1> QED BY <1>2, <1>4, <1>5, <1>6, <1>7 DEF FirewallInv

(* Nothing is changed yet.                                                 *)
LEMMA firewallDisableKeeps ==
  ASSUME FirewallInv, NEW c \in Calls, firewallDisable(c)
  PROVE  FirewallInv'
<1>1. TypeOK /\ Solitude /\ Arranged /\ OnIsAccounted /\ ConfirmHolds
  BY DEF FirewallInv
<1> DEFINE a == [Idle EXCEPT !.pc = "down"]
           r == [a EXCEPT !.op = "disable"]
<1>8. r \in CallRecords
  <2>1. a \in CallRecords
    BY IdleType, RecordTypes DEF Places
  <2> HIDE DEF a
  <2> QED BY <2>1, RecordTypes
<1>9. Begin(c, r) /\ r.pc = "down" /\ r.op = "disable"
  BY DEF firewallDisable, Idle
<1> HIDE DEF a, r
<1>2. /\ call' \in [Calls -> CallRecords] /\ Solitude' /\ call[c].pc = "idle"
      /\ call'[c].pc = "down" /\ call'[c].op = "disable"
      /\ \A d \in Calls \ {c} : /\ ~call'[d].alone /\ call'[d].pc = call[d].pc
                                /\ call'[d].op = call[d].op
      /\ trial' = "none" /\ excused' = excused
  BY <1>8, <1>9, BeginFacts
<1>3. UNCHANGED <<host, confirmed, settled>> /\ Busy(c) \in BOOLEAN
  BY Zenon DEF firewallDisable, Busy
<1>4. TypeOK'
  BY <1>1, <1>2, <1>3 DEF TypeOK, host
<1>5. Arranged'
  BY <1>1, <1>2, <1>3 DEF Arranged, TypeOK, host
<1>6. OnIsAccounted'
  BY <1>1, <1>2, <1>3 DEF OnIsAccounted, Enabling, Recovering, host
<1>7. ConfirmHolds'
  BY <1>1, <1>2, <1>3 DEF ConfirmHolds, host
<1> QED BY <1>2, <1>4, <1>5, <1>6, <1>7 DEF FirewallInv

(* UFW is off when the recovery is given up.                               *)
LEMMA TurnOffKeeps ==
  ASSUME FirewallInv, NEW c \in Calls, TurnOff(c)
  PROVE  FirewallInv'
<1>1. TypeOK /\ Solitude /\ Arranged /\ OnIsAccounted /\ ConfirmHolds
  BY DEF FirewallInv
<1>2. \/ Moved(c, "stoptimer") /\ on' = FALSE
      \/ Over(c) /\ on' \in {on, FALSE}
  BY GoesFacts, EndsFacts DEF TurnOff, Places
<1>3. call[c].pc = "down" /\ UNCHANGED <<timer, service, pend, confirmed, excused, trial, settled>>
  BY <1>1 DEF TurnOff, TypeOK, host, history
<1>4. TypeOK'
  BY <1>1, <1>2, <1>3 DEF TypeOK, Moved, Over
<1>5. Arranged'
  BY <1>1, <1>2, <1>3 DEF Arranged, Moved, Over, TypeOK, Solitude, Busy
<1>6. OnIsAccounted'
  BY <1>1, <1>2, <1>3 DEF OnIsAccounted, Moved, Over, Enabling, Recovering, Arranged
<1>7. ConfirmHolds'
  BY <1>1, <1>2, <1>3 DEF ConfirmHolds, Arranged, Moved, Over
<1> QED BY <1>2, <1>4, <1>5, <1>6, <1>7 DEF FirewallInv, Moved, Over

(* The timer is given up for a UFW that is off, or vouched for.            *)
LEMMA StopTimerKeeps ==
  ASSUME FirewallInv, NEW c \in Calls, StopTimer(c)
  PROVE  FirewallInv'
<1>1. TypeOK /\ Solitude /\ Arranged /\ OnIsAccounted /\ ConfirmHolds
  BY DEF FirewallInv
<1>2. Moved(c, "stopservice") /\ (timer' = "inactive" \/ timer' = timer) /\ (call'[c].clean => timer' = "inactive")
  <2>1. call[c].pc = "stoptimer" /\ "stopservice" \in Places
    BY DEF StopTimer, Places
  <2>2. CASE timer' = "inactive" /\ Goes(c, "stopservice")
    BY <2>1, <2>2, GoesFacts
  <2>3. CASE timer' \in {timer, "inactive"} /\ Unclean(c, "stopservice")
    BY <2>1, <2>3, UncleanFacts
  <2> QED BY <2>2, <2>3 DEF StopTimer
<1>3. call[c].pc = "stoptimer" /\ UNCHANGED <<on, service, pend, confirmed, excused, trial, settled>>
  BY <1>1 DEF StopTimer, TypeOK, host, history
<1>4. TypeOK'
  BY <1>1, <1>2, <1>3 DEF TypeOK, Moved, Over
<1>5. Arranged'
  BY <1>1, <1>2, <1>3 DEF Arranged, Moved, Over, TypeOK, Solitude, Busy
<1>6. OnIsAccounted'
  BY <1>1, <1>2, <1>3 DEF OnIsAccounted, Moved, Over, Enabling, Recovering, Arranged
<1>7. ConfirmHolds'
  BY <1>1, <1>2, <1>3 DEF ConfirmHolds, Arranged, Moved, Over
<1> QED BY <1>2, <1>4, <1>5, <1>6, <1>7 DEF FirewallInv, Moved, Over

(* Nor is anything left of a timer that fired.                             *)
LEMMA StopServiceKeeps ==
  ASSUME FirewallInv, NEW c \in Calls, StopService(c)
  PROVE  FirewallInv'
<1>1. TypeOK /\ Solitude /\ Arranged /\ OnIsAccounted /\ ConfirmHolds
  BY DEF FirewallInv
<1>2. Moved(c, "unmark") /\ (service' = "none" \/ service' = service) /\ (call'[c].clean => service' = "none")
  <2>1. call[c].pc = "stopservice" /\ "unmark" \in Places
    BY DEF StopService, Places
  <2>2. CASE service' = "none" /\ Goes(c, "unmark")
    BY <2>1, <2>2, GoesFacts
  <2>3. CASE service' \in {service, "none"} /\ Unclean(c, "unmark")
    BY <2>1, <2>3, UncleanFacts
  <2> QED BY <2>2, <2>3 DEF StopService
<1>3. call[c].pc = "stopservice" /\ UNCHANGED <<on, timer, pend, confirmed, excused, trial, settled>>
  BY <1>1 DEF StopService, TypeOK, host, history
<1>4. TypeOK'
  BY <1>1, <1>2, <1>3 DEF TypeOK, Moved, Over
<1>5. Arranged'
  BY <1>1, <1>2, <1>3 DEF Arranged, Moved, Over, TypeOK, Solitude, Busy
<1>6. OnIsAccounted'
  BY <1>1, <1>2, <1>3 DEF OnIsAccounted, Moved, Over, Enabling, Recovering, Arranged
<1>7. ConfirmHolds'
  BY <1>1, <1>2, <1>3 DEF ConfirmHolds, Arranged, Moved, Over
<1> QED BY <1>2, <1>4, <1>5, <1>6, <1>7 DEF FirewallInv, Moved, Over

(* The confirmation is settled.                                            *)
LEMMA UnmarkKeeps ==
  ASSUME FirewallInv, NEW c \in Calls, Unmark(c)
  PROVE  FirewallInv'
<1>1. TypeOK /\ Solitude /\ Arranged /\ OnIsAccounted /\ ConfirmHolds
  BY DEF FirewallInv
<1>2. Over(c) /\ settled' = (settled \/ (call[c].alone /\ call[c].clean))
  BY EndsFacts DEF Unmark, Places
<1>3. call[c].pc = "unmark" /\ pend' \in BOOLEAN /\ UNCHANGED <<on, timer, service, confirmed, excused, trial>>
      /\ call[c].alone \in BOOLEAN /\ call[c].clean \in BOOLEAN
  BY <1>1 DEF Unmark, TypeOK, host, history, CallRecords
<1>4. TypeOK'
  BY <1>1, <1>2, <1>3 DEF TypeOK, Moved, Over
<1>5. Arranged'
  BY <1>1, <1>2, <1>3 DEF Arranged, Moved, Over, TypeOK, Solitude, Busy
<1>6. OnIsAccounted'
  BY <1>1, <1>2, <1>3 DEF OnIsAccounted, Moved, Over, Enabling, Recovering, Arranged
<1>7. ConfirmHolds'
  BY <1>1, <1>2, <1>3 DEF ConfirmHolds, Arranged, Moved, Over
<1> QED BY <1>2, <1>4, <1>5, <1>6, <1>7 DEF FirewallInv, Moved, Over

(* What systemd does to a timer and a service that were started.           *)
LEMMA SystemdKeeps ==
  ASSUME FirewallInv, TimerFires \/ ServiceDisables \/ ServiceEnds
  PROVE  FirewallInv'
<1> USE DEF TimerFires, ServiceDisables, ServiceEnds, history
<1>1. TypeOK /\ Solitude /\ Arranged /\ OnIsAccounted /\ ConfirmHolds
  BY DEF FirewallInv
<1>2. Solitude'
  BY <1>1 DEF Solitude, Busy
<1>4. TypeOK'
  BY <1>1 DEF TypeOK
<1>5. Arranged'
  BY <1>1 DEF Arranged
<1>6. OnIsAccounted'
  BY <1>1 DEF OnIsAccounted, Enabling, Recovering
<1>7. ConfirmHolds'
  BY <1>1 DEF ConfirmHolds
<1> QED BY <1>2, <1>4, <1>5, <1>6, <1>7 DEF FirewallInv

(* The calls are gone, and with a host that restarts the recovery too.     *)
LEMMA StopKeeps ==
  ASSUME FirewallInv, AgentStops \/ Reboot
  PROVE  FirewallInv'
<1>1. TypeOK /\ Solitude /\ Arranged /\ OnIsAccounted /\ ConfirmHolds
  BY DEF FirewallInv
<1>2. /\ call' \in [Calls -> CallRecords]
      /\ \A c \in Calls : call'[c].pc = "idle" /\ ~call'[c].alone /\ call'[c].op = "none"
  <2>1. call' = [c \in Calls |-> Idle]
    BY DEF AgentStops, Reboot
  <2>2. Idle.pc = "idle" /\ ~Idle.alone /\ Idle.op = "none"
    BY DEF Idle
  <2> QED BY <2>1, <2>2, IdleType
<1>3. /\ UNCHANGED <<on, confirmed, settled>> /\ pend' \in BOOLEAN
      /\ \/ UNCHANGED <<timer, service>>
         \/ timer' = "inactive" /\ service' = "none"
      /\ trial' \in {"none", "fresh", "stale"} /\ excused' \in BOOLEAN
  <2>1. CASE AgentStops
    BY <1>1, <2>1, Zenon DEF AgentStops, TypeOK, host
  <2>2. CASE Reboot
    BY <2>2 DEF Reboot
  <2> QED BY <2>1, <2>2
<1>4. TypeOK'
  BY <1>1, <1>2, <1>3 DEF TypeOK
<1>5. Arranged' /\ Solitude'
  BY <1>2 DEF Arranged, Solitude
<1>6. OnIsAccounted'
  <2>1. CASE AgentStops
    <3>1. /\ UNCHANGED <<on, confirmed, timer, service>>
          /\ excused' = (excused \/ \E c \in Calls : Enabling(c))
      BY <2>1 DEF AgentStops, host
    <3> QED BY <1>1, <3>1 DEF OnIsAccounted, Recovering
  <2>2. CASE Reboot
    BY <2>2 DEF Reboot, OnIsAccounted
  <2> QED BY <2>1, <2>2
<1>7. ConfirmHolds'
  BY <1>1, <1>3 DEF ConfirmHolds
<1> QED BY <1>4, <1>5, <1>6, <1>7 DEF FirewallInv

(* A stuttering step changes no part of the invariant.                     *)
LEMMA StutterKeeps ==
  ASSUME FirewallInv, UNCHANGED vars
  PROVE  FirewallInv'
<1> USE DEF vars, host, history
<1>1. TypeOK /\ Solitude /\ Arranged /\ OnIsAccounted /\ ConfirmHolds
  BY DEF FirewallInv
<1>2. Solitude'
  BY <1>1 DEF Solitude, Busy
<1>4. TypeOK'
  BY <1>1 DEF TypeOK
<1>5. Arranged'
  BY <1>1 DEF Arranged
<1>6. OnIsAccounted'
  BY <1>1 DEF OnIsAccounted, Enabling, Recovering
<1>7. ConfirmHolds'
  BY <1>1 DEF ConfirmHolds
<1> QED BY <1>2, <1>4, <1>5, <1>6, <1>7 DEF FirewallInv
-----------------------------------------------------------------------------
(* Nothing is under way, and what is on was vouched for.                   *)
LEMMA InitFirewallInv == Init => FirewallInv
<1> SUFFICES ASSUME Init PROVE FirewallInv
  OBVIOUS
<1>1. /\ call \in [Calls -> CallRecords]
      /\ \A c \in Calls : call[c].pc = "idle" /\ call[c].op = "none" /\ ~call[c].alone
  <2>1. Idle.pc = "idle" /\ Idle.op = "none" /\ ~Idle.alone
    BY DEF Idle
  <2> QED BY <2>1, IdleType DEF Init
<1>2. TypeOK
  BY <1>1 DEF Init, TypeOK
<1>3. Solitude /\ Arranged
  BY <1>1 DEF Solitude, Arranged
<1>4. OnIsAccounted /\ ConfirmHolds
  BY DEF Init, OnIsAccounted, ConfirmHolds
<1> QED BY <1>2, <1>3, <1>4 DEF FirewallInv

(* Every step keeps the invariant.                                         *)
LEMMA NextFirewallInv == FirewallInv /\ [Next]_vars => FirewallInv'
<1> SUFFICES ASSUME FirewallInv, [Next]_vars PROVE FirewallInv'
  OBVIOUS
<1>1. ASSUME NEW c \in Calls, firewallEnable(c) PROVE FirewallInv'
  BY <1>1, firewallEnableKeeps
<1>2. ASSUME NEW c \in Calls, AllowPorts(c) PROVE FirewallInv'
  BY <1>2, AllowPortsKeeps
<1>3. ASSUME NEW c \in Calls, TurnOn(c) PROVE FirewallInv'
  BY <1>3, TurnOnKeeps
<1>4. ASSUME NEW c \in Calls, MarkPending(c) PROVE FirewallInv'
  BY <1>4, MarkPendingKeeps
<1>5. ASSUME NEW c \in Calls, StartTimer(c) PROVE FirewallInv'
  BY <1>5, StartTimerKeeps
<1>6. ASSUME NEW c \in Calls, TurnOffAgain(c) PROVE FirewallInv'
  BY <1>6, TurnOffAgainKeeps
<1>7. ASSUME NEW c \in Calls, firewallConfirm(c) PROVE FirewallInv'
  BY <1>7, firewallConfirmKeeps
<1>8. ASSUME NEW c \in Calls, firewallDisable(c) PROVE FirewallInv'
  BY <1>8, firewallDisableKeeps
<1>9. ASSUME NEW c \in Calls, TurnOff(c) PROVE FirewallInv'
  BY <1>9, TurnOffKeeps
<1>10. ASSUME NEW c \in Calls, StopTimer(c) PROVE FirewallInv'
  BY <1>10, StopTimerKeeps
<1>11. ASSUME NEW c \in Calls, StopService(c) PROVE FirewallInv'
  BY <1>11, StopServiceKeeps
<1>12. ASSUME NEW c \in Calls, Unmark(c) PROVE FirewallInv'
  BY <1>12, UnmarkKeeps
<1>13. CASE TimerFires \/ ServiceDisables \/ ServiceEnds
  BY <1>13, SystemdKeeps
<1>14. CASE AgentStops \/ Reboot
  BY <1>14, StopKeeps
<1>15. CASE UNCHANGED vars
  BY <1>15, StutterKeeps
<1> QED BY <1>1, <1>2, <1>3, <1>4, <1>5, <1>6, <1>7, <1>8, <1>9, <1>10, <1>11,
           <1>12, <1>13, <1>14, <1>15 DEF Next

(* The inductive invariant, in every reachable state.                      *)
LEMMA FirewallInvariant == Spec => []FirewallInv
  BY InitFirewallInv, NextFirewallInv, PTL DEF Spec

(* UFW, systemd's units and the calls keep their types.                    *)
THEOREM FirewallTypeCorrect == Spec => []TypeOK
<1>1. FirewallInv => TypeOK
  BY DEF FirewallInv
<1> QED BY <1>1, FirewallInvariant, PTL

(* A UFW that is on, not vouched for, and that nothing will turn off can   *)
(* only come from the gaps the module names (firewall.go:127-134), for any *)
(* calls, interleavings, failures and stops.                               *)
THEOREM FirewallOnAccounted == Spec => []OnIsAccounted
<1>1. FirewallInv => OnIsAccounted
  BY DEF FirewallInv
<1> QED BY <1>1, FirewallInvariant, PTL

(* After an undisturbed confirmation neither timer nor service is left to  *)
(* turn UFW off, until the next EnableUFW (firewall.go:137-145).           *)
THEOREM FirewallConfirmHolds == Spec => []ConfirmHolds
<1>1. FirewallInv => ConfirmHolds
  BY DEF FirewallInv
<1> QED BY <1>1, FirewallInvariant, PTL
=============================================================================
