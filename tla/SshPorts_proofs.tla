---------------------------- MODULE SshPorts_proofs ----------------------------
(***************************************************************************)
(* Proofs about SshPorts for every set of ports and of calls, any Port     *)
(* lines of sshd_config, and stops of the agent at every step: what a call *)
(* that nobody disturbs does to the ports sshd serves.                     *)
(***************************************************************************)
EXTENDS SshPorts, SequenceTheorems, TLAPS

(* A pending change is between two different ports.                        *)
PendingApart ==
    pend # NoPending => pend.old \in Ports /\ pend.new \in Ports /\ pend.old # pend.new

(* What a call's place says of its kind, its ports and its result.         *)
Known(c) ==
    /\ call[c].pc = "idle" => ~call[c].alone
    /\ call[c].op = "apply" => call[c].port \in Ports /\ call[c].cur \in Ports
    /\ call[c].pc = "read" => call[c].op = "apply"
    /\ call[c].pc \in {"save", "listen"} => call[c].op = "apply" /\ call[c].port # call[c].cur
    /\ call[c].lost => call[c].pc \in {"forget", "end"} /\ call[c].result \in {"error", "unheard"}
    /\ call[c].result = "pending" => call[c].op = "apply" /\ call[c].pc = "end"
    /\ call[c].pc = "restore" => call[c].result \in {"error", "unheard"}
    /\ call[c].op \in {"keep", "cancel"} =>
         /\ call[c].pend.old \in Ports /\ call[c].pend.new \in Ports
         /\ call[c].pend.old # call[c].pend.new

BothLines(c) ==
    /\ conf = WithPorts(<<call[c].cur, call[c].port>>)
    /\ running = Range(Effective(conf))

(* An ApplySettings on its own: the port it found is served by sshd, and   *)
(* listed in the files at every place, a copy of the old ones included.    *)
ApplySafe(c) ==
    call[c].op = "apply" /\ Undisturbed(c) /\ ~call[c].lost =>
      /\ call[c].cur \in Bound
      /\ call[c].cur \in Range(Effective(conf))
      /\ call[c].pc \in {"read", "write"} =>
           call[c].next = WithPorts(PortLines(call[c].cur, call[c].port))
      /\ call[c].pc = "reload" => conf = WithPorts(PortLines(call[c].cur, call[c].port))
      /\ call[c].pc \in {"write", "reload", "restore", "save", "listen"} /\ call[c].copied =>
           call[c].cur \in Range(Effective(call[c].old))
      /\ call[c].pc \in {"save", "listen"} => BothLines(c)
      /\ call[c].pc = "listen" => pend = PendingOf(c)
      /\ call[c].pc = "end" /\ call[c].result = "pending" => BothLines(c) /\ pend = PendingOf(c)

Chosen(c) == IF call[c].op = "keep" THEN call[c].pend.new ELSE call[c].pend.old

(* A confirmation on its own: only the chosen port's line is left.         *)
ConfirmSafe(c) ==
    call[c].op \in {"keep", "cancel"} /\ Undisturbed(c) =>
      /\ call[c].pc = "write" => call[c].next = WithPorts(<<Chosen(c)>>)
      /\ call[c].pc = "reload" => conf = WithPorts(<<Chosen(c)>>)
      /\ call[c].pc \in {"forget", "end"} /\ call[c].result = "ok"
           => running = {Chosen(c)} \cup Range(BasePorts)

PortsInv ==
    /\ TypeOK /\ PendingApart
    /\ \A c \in Calls : Known(c) /\ ApplySafe(c) /\ ConfirmSafe(c)
-----------------------------------------------------------------------------
(* The ports of configuration files.                                       *)
LEMMA ConfTypes ==
  /\ \A k \in Confs : k.ports \in Seq(Ports) /\ Len(k.ports) \in 0..2
  /\ \A p \in Ports : WithPorts(<<p>>) \in Confs /\ WithPorts(<<p>>).ports = <<p>>
  /\ \A p, r \in Ports : WithPorts(<<p, r>>) \in Confs /\ WithPorts(<<p, r>>).ports = <<p, r>>
  /\ WithPorts(<<>>) \in Confs /\ WithPorts(<<>>).ports = <<>>
  /\ NoConf \in Confs /\ NoConf.ports = <<>>
<1>1. \A k \in Confs : k.ports \in Seq(Ports) /\ Len(k.ports) \in 0..2
  <2> SUFFICES ASSUME NEW k \in Confs PROVE k.ports \in Seq(Ports) /\ Len(k.ports) \in 0..2
    OBVIOUS
  <2>1. k.ports \in {<<>>} \cup {<<p>> : p \in Ports} \cup {<<p, r>> : p, r \in Ports}
    BY DEF Confs
  <2>2. CASE k.ports = <<>>
    BY <2>2
  <2>3. ASSUME NEW p \in Ports, k.ports = <<p>> PROVE k.ports \in Seq(Ports) /\ Len(k.ports) \in 0..2
    BY <2>3
  <2>4. ASSUME NEW p \in Ports, NEW r \in Ports, k.ports = <<p, r>>
        PROVE  k.ports \in Seq(Ports) /\ Len(k.ports) \in 0..2
    BY <2>4
  <2> QED BY <2>1, <2>2, <2>3, <2>4
<1>2. \A p \in Ports : WithPorts(<<p>>) \in Confs /\ WithPorts(<<p>>).ports = <<p>>
  BY DEF Confs, WithPorts
<1>3. \A p, r \in Ports : WithPorts(<<p, r>>) \in Confs /\ WithPorts(<<p, r>>).ports = <<p, r>>
  BY DEF Confs, WithPorts
<1>4. /\ WithPorts(<<>>) \in Confs /\ WithPorts(<<>>).ports = <<>>
      /\ NoConf \in Confs /\ NoConf.ports = <<>>
  BY DEF Confs, WithPorts, NoConf
<1> QED BY <1>1, <1>2, <1>3, <1>4

(* The elements of two sequences joined.                                   *)
LEMMA RangeConcat ==
  ASSUME NEW S, NEW s \in Seq(S), NEW t \in Seq(S)
  PROVE  Range(s \o t) = Range(s) \cup Range(t)
<1>1. s \o t \in Seq(S) /\ Len(s \o t) = Len(s) + Len(t)
  OBVIOUS
<1>2. ASSUME NEW i \in 1..Len(s \o t) PROVE (s \o t)[i] \in Range(s) \cup Range(t)
  <2>1. CASE i <= Len(s)
    BY <1>1, <1>2, <2>1 DEF Range
  <2>2. CASE i > Len(s)
    <3>1. i - Len(s) \in 1..Len(t) /\ (s \o t)[i] = t[i - Len(s)]
      BY <1>1, <1>2, <2>2
    <3> QED BY <3>1 DEF Range
  <2> QED BY <2>1, <2>2
<1>3. ASSUME NEW i \in 1..Len(s) PROVE s[i] \in Range(s \o t)
  <2>1. i \in 1..Len(s \o t) /\ (s \o t)[i] = s[i]
    BY <1>1
  <2> QED BY <2>1 DEF Range
<1>4. ASSUME NEW i \in 1..Len(t) PROVE t[i] \in Range(s \o t)
  <2>1. Len(s) + i \in 1..Len(s \o t) /\ (s \o t)[Len(s) + i] = t[i]
    BY <1>1
  <2> QED BY <2>1 DEF Range
<1>5. /\ Range(s) = {s[i] : i \in 1..Len(s)} /\ Range(t) = {t[i] : i \in 1..Len(t)}
      /\ Range(s \o t) = {(s \o t)[i] : i \in 1..Len(s \o t)}
  BY <1>1 DEF Range
<1> QED BY <1>2, <1>3, <1>4, <1>5

(* The elements of one and of two lines.                                   *)
LEMMA RangeOf ==
  /\ \A p \in Ports : Range(<<p>>) = {p}
  /\ \A p, r \in Ports : Range(<<p, r>>) = {p, r}
  BY DEF Range

(* What sshd reads out of the files.                                       *)
LEMMA EffectiveFacts ==
  ASSUME NEW k \in Confs
  PROVE  /\ Effective(k) \in Seq(Ports) /\ Len(Effective(k)) \in Nat \ {0}
         /\ Range(Effective(k)) \subseteq Ports
         /\ Range(k.ports) \subseteq Range(Effective(k))
         /\ k.ports # <<>> => Range(Effective(k)) = Range(k.ports) \cup Range(BasePorts)
<1> DEFINE all == k.ports \o BasePorts
<1>1. k.ports \in Seq(Ports) /\ BasePorts \in Seq(Ports) /\ all \in Seq(Ports)
  BY ConfTypes, PortsAssumption
<1>2. Range(all) = Range(k.ports) \cup Range(BasePorts)
  BY <1>1, RangeConcat
<1>3. CASE all = <<>>
  <2>1. Effective(k) = <<DefaultPort>> /\ k.ports = <<>>
    BY <1>1, <1>3 DEF Effective
  <2> QED BY <2>1, PortsAssumption DEF Range
<1>4. CASE all # <<>>
  <2>1. Effective(k) = all
    BY <1>4 DEF Effective
  <2>2. Len(all) \in Nat \ {0} /\ Range(all) \subseteq Ports
    BY <1>1, <1>4 DEF Range
  <2> HIDE DEF all
  <2> QED BY <2>1, <2>2, <1>1, <1>2
<1> QED BY <1>3, <1>4

(* What ApplySettings writes lists the port it found.                      *)
LEMMA PortLinesFacts ==
  ASSUME NEW cur \in Ports, NEW new \in Ports
  PROVE  /\ WithPorts(PortLines(cur, new)) \in Confs
         /\ cur \in Range(Effective(WithPorts(PortLines(cur, new))))
         /\ new # cur => PortLines(cur, new) = <<cur, new>>
<1> DEFINE lines == PortLines(cur, new)
           k == WithPorts(lines)
<1>1. k \in Confs /\ k.ports = lines /\ cur \in Range(lines)
  <2>1. CASE new # cur
    <3>1. lines = <<cur, new>>
      BY <2>1 DEF PortLines
    <3> QED BY <3>1, ConfTypes, RangeOf DEF WithPorts
  <2>2. CASE new = cur
    <3>1. lines = <<cur>>
      BY <2>2 DEF PortLines
    <3> QED BY <3>1, ConfTypes, RangeOf DEF WithPorts
  <2> QED BY <2>1, <2>2
<1>2. new # cur => lines = <<cur, new>>
  BY DEF PortLines
<1> HIDE DEF k, lines
<1>3. cur \in Range(Effective(k))
  BY <1>1, EffectiveFacts
<1> QED BY <1>1, <1>2, <1>3 DEF k, lines

(* ConfirmPort's filter leaves at most two lines, and the other of two.    *)
LEMMA ConfirmedFacts ==
  ASSUME conf \in Confs, NEW p
  PROVE  /\ WithPorts(LinesWithout(p)) \in Confs
         /\ \A r \in Ports : r # p /\ conf.ports \in {<<p, r>>, <<r, p>>} => LinesWithout(p) = <<r>>
<1>1. conf.ports \in {<<>>} \cup {<<q>> : q \in Ports} \cup {<<q, r>> : q, r \in Ports}
  BY DEF Confs
<1>2. CASE conf.ports = <<>>
  <2>1. LinesWithout(p) = <<>>
    BY <1>2 DEF LinesWithout
  <2> QED BY <1>2, <2>1, ConfTypes
<1>3. ASSUME NEW q \in Ports, conf.ports = <<q>>
      PROVE  /\ WithPorts(LinesWithout(p)) \in Confs
             /\ \A r \in Ports : r # p /\ conf.ports \in {<<p, r>>, <<r, p>>} => LinesWithout(p) = <<r>>
  <2>1. LinesWithout(p) = IF q = p THEN <<>> ELSE <<q>>
    BY <1>3 DEF LinesWithout
  <2>2. \A r : conf.ports \notin {<<p, r>>, <<r, p>>}
    BY <1>3
  <2> QED BY <2>1, <2>2, ConfTypes
<1>4. ASSUME NEW q \in Ports, NEW r \in Ports, conf.ports = <<q, r>>
      PROVE  /\ WithPorts(LinesWithout(p)) \in Confs
             /\ \A s \in Ports : s # p /\ conf.ports \in {<<p, s>>, <<s, p>>} => LinesWithout(p) = <<s>>
  <2>1. LinesWithout(p) = (IF q # p THEN <<q>> ELSE <<>>) \o (IF r # p THEN <<r>> ELSE <<>>)
    <3>1. Len(conf.ports) = 2 /\ conf.ports[1] = q /\ conf.ports[2] = r
      BY <1>4
    <3> DEFINE Line(i) == IF i <= Len(conf.ports) /\ conf.ports[i] # p
                          THEN <<conf.ports[i]>> ELSE <<>>
    <3>2. Line(1) = IF q # p THEN <<q>> ELSE <<>>
      BY <3>1
    <3>3. Line(2) = IF r # p THEN <<r>> ELSE <<>>
      BY <3>1
    <3>4. LinesWithout(p) = Line(1) \o Line(2)
      BY DEF LinesWithout
    <3> HIDE DEF Line
    <3> QED BY <3>2, <3>3, <3>4, Zenon
  <2>2. CASE q # p /\ r # p
    <3>1. LinesWithout(p) = <<q>> \o <<r>>
      BY <2>1, <2>2
    <3>2. <<q>> \o <<r>> = <<q, r>>
      <4> DEFINE s == <<q>> \o <<r>>
                 t == <<q, r>>
      <4>1. s \in Seq(Ports) /\ t \in Seq(Ports) /\ Len(s) = 2 /\ Len(t) = 2
        OBVIOUS
      <4>2. s[1] = q /\ s[2] = r /\ t[1] = q /\ t[2] = r
        OBVIOUS
      <4> HIDE DEF s, t
      <4>3. \A i \in 1..Len(s) : s[i] = t[i]
        BY <4>1, <4>2
      <4>4. s = t
        BY <4>1, <4>3, SeqEqual
      <4> QED BY <4>4 DEF s, t
    <3>3. \A s : <<q, r>> \notin {<<p, s>>, <<s, p>>}
      BY <2>2
    <3> QED BY <3>1, <3>2, <3>3, <1>4, ConfTypes, Zenon
  <2>3. CASE q # p /\ r = p
    BY <2>1, <2>3, <1>4, ConfTypes
  <2>4. CASE q = p /\ r # p
    BY <2>1, <2>4, <1>4, ConfTypes
  <2>5. CASE q = p /\ r = p
    BY <2>1, <2>5, <1>4, ConfTypes
  <2> QED BY <2>2, <2>3, <2>4, <2>5
<1> QED BY <1>1, <1>2, <1>3, <1>4

-----------------------------------------------------------------------------
(* A call's record after one field was set.                                *)
LEMMA CallFields ==
  ASSUME NEW r \in CallRecords
  PROVE  /\ \A x \in {"idle", "read", "write", "reload", "restore", "save", "listen", "forget", "end"} :
              [r EXCEPT !.pc = x] \in CallRecords
         /\ \A x \in {"none", "ok", "pending", "error", "unheard"} : [r EXCEPT !.result = x] \in CallRecords
         /\ \A x \in Confs : [r EXCEPT !.old = x] \in CallRecords /\ [r EXCEPT !.next = x] \in CallRecords
         /\ \A x \in BOOLEAN : [r EXCEPT !.alone = x] \in CallRecords /\ [r EXCEPT !.premise = x] \in CallRecords
         /\ \A x \in BOOLEAN : [r EXCEPT !.copied = x] \in CallRecords /\ [r EXCEPT !.lost = x] \in CallRecords
         /\ \A x \in {"none", "apply", "keep", "cancel"} : [r EXCEPT !.op = x] \in CallRecords
         /\ \A x \in Ports : [r EXCEPT !.port = x] \in CallRecords /\ [r EXCEPT !.cur = x] \in CallRecords
         /\ \A x \in Pendings : [r EXCEPT !.pend = x] \in CallRecords
<1>1. \A x \in {"idle", "read", "write", "reload", "restore", "save", "listen", "forget", "end"} :
         [r EXCEPT !.pc = x] \in CallRecords
  BY DEF CallRecords
<1>2. \A x \in {"none", "ok", "pending", "error", "unheard"} : [r EXCEPT !.result = x] \in CallRecords
  BY DEF CallRecords
<1>3. \A x \in Confs : [r EXCEPT !.old = x] \in CallRecords
  BY DEF CallRecords
<1>4. \A x \in Confs : [r EXCEPT !.next = x] \in CallRecords
  BY DEF CallRecords
<1>5. \A x \in BOOLEAN : [r EXCEPT !.alone = x] \in CallRecords
  BY DEF CallRecords
<1>6. \A x \in BOOLEAN : [r EXCEPT !.premise = x] \in CallRecords
  BY DEF CallRecords
<1>7. \A x \in BOOLEAN : [r EXCEPT !.copied = x] \in CallRecords
  BY DEF CallRecords
<1>8. \A x \in BOOLEAN : [r EXCEPT !.lost = x] \in CallRecords
  BY DEF CallRecords
<1>9. \A x \in {"none", "apply", "keep", "cancel"} : [r EXCEPT !.op = x] \in CallRecords
  BY DEF CallRecords
<1>10. \A x \in Ports : [r EXCEPT !.port = x] \in CallRecords
  BY DEF CallRecords
<1>11. \A x \in Ports : [r EXCEPT !.cur = x] \in CallRecords
  BY DEF CallRecords
<1>12. \A x \in Pendings : [r EXCEPT !.pend = x] \in CallRecords
  BY DEF CallRecords
<1> QED BY <1>1, <1>2, <1>3, <1>4, <1>5, <1>6, <1>7, <1>8, <1>9, <1>10, <1>11, <1>12

(* The record of a call that is not there.                                 *)
LEMMA IdleType == Idle \in CallRecords
  BY ConfTypes DEF Idle, CallRecords, NoPending, Pendings

(* The other calls: nothing but their solitude can change.                 *)
Aside(c) ==
    \A d \in Calls \ {c} :
        /\ call'[d] \in CallRecords /\ ~call'[d].alone
        /\ call'[d].pc = call[d].pc /\ call'[d].op = call[d].op /\ call'[d].port = call[d].port
        /\ call'[d].cur = call[d].cur /\ call'[d].pend = call[d].pend
        /\ call'[d].result = call[d].result /\ call'[d].lost = call[d].lost

(* The record of the call that steps, and of the others.                   *)
LEMMA StepFacts ==
  ASSUME PortsInv, NEW c \in Calls, NEW r \in CallRecords, Step(c, r)
  PROVE  call' \in [Calls -> CallRecords] /\ call'[c] = r /\ Aside(c)
<1>1. call \in [Calls -> CallRecords]
  BY DEF PortsInv, TypeOK
<1>2. call'[c] = r
  BY DEF Step
<1>3. ASSUME NEW d \in Calls \ {c}
      PROVE  /\ call'[d] \in CallRecords /\ ~call'[d].alone
             /\ call'[d].pc = call[d].pc /\ call'[d].op = call[d].op /\ call'[d].port = call[d].port
             /\ call'[d].cur = call[d].cur /\ call'[d].pend = call[d].pend
             /\ call'[d].result = call[d].result /\ call'[d].lost = call[d].lost
  <2>1. CASE call[d].pc = "idle"
    <3>1. call'[d] = call[d] /\ ~call[d].alone
      BY <2>1, <1>3 DEF Step, PortsInv, Known
    <3> QED BY <3>1, <1>1
  <2>2. CASE call[d].pc # "idle"
    <3>1. call'[d] = [call[d] EXCEPT !.alone = FALSE] /\ call[d] \in CallRecords
      BY <2>2, <1>1, <1>3 DEF Step
    <3>2. call'[d] \in CallRecords
      BY <3>1, CallFields
    <3>3. /\ call'[d].alone = FALSE /\ call'[d].pc = call[d].pc /\ call'[d].op = call[d].op
          /\ call'[d].port = call[d].port /\ call'[d].cur = call[d].cur
          /\ call'[d].pend = call[d].pend /\ call'[d].result = call[d].result
          /\ call'[d].lost = call[d].lost
      BY <3>1 DEF CallRecords
    <3> QED BY <3>2, <3>3
  <2> QED BY <2>1, <2>2
<1>4. call' \in [Calls -> CallRecords]
  BY <1>2, <1>3 DEF Step
<1> QED BY <1>2, <1>3, <1>4 DEF Aside

(* It is then enough to look at the call that steps.                       *)
LEMMA AsideKeeps ==
  ASSUME PortsInv, NEW c \in Calls, Aside(c), TypeOK', PendingApart',
         Known(c)', ApplySafe(c)', ConfirmSafe(c)'
  PROVE  PortsInv'
<1>1. ASSUME NEW d \in Calls \ {c} PROVE (Known(d) /\ ApplySafe(d) /\ ConfirmSafe(d))'
  <2>1. ~call'[d].alone
    BY DEF Aside
  <2>2. ApplySafe(d)' /\ ConfirmSafe(d)'
    BY <2>1 DEF ApplySafe, ConfirmSafe, Undisturbed
  <2>3. Known(d)
    BY DEF PortsInv
  <2>4. Known(d)'
    BY <2>1, <2>3 DEF Aside, Known
  <2> QED BY <2>2, <2>4
<1> QED BY <1>1 DEF PortsInv

-----------------------------------------------------------------------------
(* One lemma per action: what the step makes of its call's record, then    *)
(* the parts of the invariant.                                             *)

(* The rename puts the new lines in place.                                 *)
LEMMA WriteKeeps ==
  ASSUME PortsInv, NEW c \in Calls, Write(c)
  PROVE  PortsInv'
<1> DEFINE r == call[c]
           q == call'[c]
<1>1. TypeOK /\ r \in CallRecords /\ Known(c) /\ ApplySafe(c) /\ ConfirmSafe(c) /\ PendingApart
  BY DEF PortsInv, TypeOK
<1>2. /\ call' \in [Calls -> CallRecords] /\ Aside(c)
      /\ q.pc = "reload" /\ q.next = NoConf /\ q.op = r.op /\ q.port = r.port
      /\ q.cur = r.cur /\ q.old = r.old /\ q.pend = r.pend /\ q.alone = r.alone /\ q.copied = r.copied /\ q.lost = r.lost
      /\ q.premise = r.premise /\ q.result = r.result
  <2> DEFINE a == [r EXCEPT !.pc = "reload"]
             n == [a EXCEPT !.next = NoConf]
  <2>1. a \in CallRecords
    BY <1>1, CallFields, ConfTypes
  <2>2. n \in CallRecords
    <3> HIDE DEF a
    <3> QED BY <2>1, <1>1, CallFields, ConfTypes
  <2>3. Step(c, n)
    BY DEF Write
  <2>4. call' \in [Calls -> CallRecords] /\ q = n /\ Aside(c)
    <3> HIDE DEF a, n
    <3> QED BY <2>1, <2>3, <2>2, StepFacts
  <2> QED BY <1>1, <2>4 DEF CallRecords
<1>3. r.pc = "write" /\ conf' = r.next /\ r.next \in Confs
      /\ UNCHANGED <<running, taken, pend, proven>>
  BY <1>1, EffectiveFacts DEF Write, CallRecords
<1>4. TypeOK'
  BY <1>1, <1>2, <1>3, ConfTypes DEF TypeOK
<1>5. PendingApart' /\ Known(c)'
  BY <1>1, <1>2, <1>3 DEF PendingApart, Known, PendingOf, NoPending, AfterReload, CallRecords
<1>6. ApplySafe(c)'
  BY <1>1, <1>2, <1>3, PortLinesFacts
     DEF ApplySafe, Known, Undisturbed, Bound, BothLines, PendingOf, TypeOK
<1>7. ConfirmSafe(c)'
  BY <1>1, <1>2, <1>3 DEF ConfirmSafe, Known, Undisturbed, Chosen, TypeOK
<1> HIDE DEF r, q
<1> QED BY <1>2, <1>4, <1>5, <1>6, <1>7, AsideKeeps

(* The copy, if there is one, is what the call found.                      *)
LEMMA ApplyReadKeeps ==
  ASSUME PortsInv, NEW c \in Calls, ApplyRead(c)
  PROVE  PortsInv'
<1> DEFINE r == call[c]
           q == call'[c]
<1>1. TypeOK /\ r \in CallRecords /\ Known(c) /\ ApplySafe(c) /\ ConfirmSafe(c) /\ PendingApart
  BY DEF PortsInv, TypeOK
<1>2. /\ call' \in [Calls -> CallRecords] /\ Aside(c)
      /\ q.pc = "write" /\ (q.copied => q.old = conf) /\ q.op = r.op /\ q.port = r.port
      /\ q.cur = r.cur /\ q.next = r.next /\ q.pend = r.pend /\ q.alone = r.alone
      /\ q.premise = r.premise /\ q.result = r.result /\ q.lost = r.lost
  <2>1. PICK old \in {conf, NoConf} :
          Step(c, [r EXCEPT !.pc = "write", !.old = old, !.copied = (old = conf)])
    BY DEF ApplyRead
  <2> DEFINE a == [r EXCEPT !.pc = "write"]
             m == [a EXCEPT !.old = old]
             same == old = conf
             n == [m EXCEPT !.copied = same]
  <2>2. a \in CallRecords /\ old \in Confs /\ same \in BOOLEAN
    BY <1>1, CallFields, ConfTypes DEF TypeOK
  <2>3. m \in CallRecords
    <3> HIDE DEF a
    <3> QED BY <2>2, CallFields
  <2>4. n \in CallRecords
    <3> HIDE DEF m, same
    <3> QED BY <2>2, <2>3, CallFields
  <2>5. Step(c, n)
    BY <2>1
  <2>6. call' \in [Calls -> CallRecords] /\ q = n /\ Aside(c)
    <3> HIDE DEF n
    <3> QED BY <2>4, <2>5, StepFacts
  <2>7. /\ q.pc = "write" /\ q.old = old /\ q.op = r.op /\ q.port = r.port
        /\ q.cur = r.cur /\ q.next = r.next /\ q.pend = r.pend /\ q.alone = r.alone
        /\ q.premise = r.premise /\ q.result = r.result /\ q.lost = r.lost
        /\ q.copied = same
    <3> HIDE DEF same, q
    <3> QED BY <1>1, <2>6 DEF CallRecords
  <2>8. q.copied => q.old = conf
    BY <2>7
  <2> QED BY <2>6, <2>7, <2>8
<1>3. r.pc = "read" /\ UNCHANGED <<conf, running, taken, pend, proven>>
  BY <1>1, EffectiveFacts DEF ApplyRead
<1>4. TypeOK'
  BY <1>1, <1>2, <1>3, ConfTypes DEF TypeOK
<1>5. PendingApart' /\ Known(c)'
  BY <1>1, <1>2, <1>3 DEF PendingApart, Known, PendingOf, NoPending, AfterReload, CallRecords
<1>6. ApplySafe(c)'
  BY <1>1, <1>2, <1>3
     DEF ApplySafe, Known, Undisturbed, Bound, BothLines, PendingOf, TypeOK
<1>7. ConfirmSafe(c)'
  BY <1>1, <1>2, <1>3 DEF ConfirmSafe, Known, Undisturbed, Chosen, TypeOK
<1> HIDE DEF r, q
<1> QED BY <1>2, <1>4, <1>5, <1>6, <1>7, AsideKeeps

(* A write that fails leaves the files alone.                              *)
LEMMA WriteFailsKeeps ==
  ASSUME PortsInv, NEW c \in Calls, WriteFails(c)
  PROVE  PortsInv'
<1> DEFINE r == call[c]
           q == call'[c]
<1>1. TypeOK /\ r \in CallRecords /\ Known(c) /\ ApplySafe(c) /\ ConfirmSafe(c) /\ PendingApart
  BY DEF PortsInv, TypeOK
<1>2. /\ call' \in [Calls -> CallRecords] /\ Aside(c)
      /\ q.pc = "end" /\ q.result = "error" /\ q.op = r.op /\ q.port = r.port
      /\ q.cur = r.cur /\ q.old = r.old /\ q.next = r.next /\ q.pend = r.pend
      /\ q.alone = r.alone /\ q.copied = r.copied /\ q.lost = r.lost /\ q.premise = r.premise
  <2> DEFINE a == [r EXCEPT !.pc = "end"]
             n == [a EXCEPT !.result = "error"]
  <2>1. a \in CallRecords
    BY <1>1, CallFields
  <2>2. n \in CallRecords
    <3> HIDE DEF a
    <3> QED BY <2>1, <1>1, CallFields
  <2>3. Step(c, n)
    BY DEF WriteFails
  <2>4. call' \in [Calls -> CallRecords] /\ q = n /\ Aside(c)
    <3> HIDE DEF a, n
    <3> QED BY <2>1, <2>3, <2>2, StepFacts
  <2> QED BY <1>1, <2>4 DEF CallRecords
<1>3. r.pc = "write" /\ UNCHANGED <<conf, running, taken, pend, proven>>
  BY <1>1, EffectiveFacts DEF WriteFails
<1>4. TypeOK'
  BY <1>1, <1>2, <1>3, ConfTypes DEF TypeOK
<1>5. PendingApart' /\ Known(c)'
  BY <1>1, <1>2, <1>3 DEF PendingApart, Known, PendingOf, NoPending, AfterReload, CallRecords
<1>6. ApplySafe(c)'
  BY <1>1, <1>2, <1>3
     DEF ApplySafe, Known, Undisturbed, Bound, BothLines, PendingOf, TypeOK
<1>7. ConfirmSafe(c)'
  BY <1>1, <1>2, <1>3 DEF ConfirmSafe, Known, Undisturbed, Chosen, TypeOK
<1> HIDE DEF r, q
<1> QED BY <1>2, <1>4, <1>5, <1>6, <1>7, AsideKeeps

(* sshd follows the files.                                                 *)
LEMMA ReloadKeeps ==
  ASSUME PortsInv, NEW c \in Calls, Reload(c)
  PROVE  PortsInv'
<1> DEFINE r == call[c]
           q == call'[c]
<1>1. TypeOK /\ r \in CallRecords /\ Known(c) /\ ApplySafe(c) /\ ConfirmSafe(c) /\ PendingApart
  BY DEF PortsInv, TypeOK
<1>2. /\ call' \in [Calls -> CallRecords] /\ Aside(c)
      /\ q.pc = AfterReload(c) /\ q.result = "ok" /\ q.op = r.op /\ q.port = r.port
      /\ q.cur = r.cur /\ q.old = r.old /\ q.next = r.next /\ q.pend = r.pend
      /\ q.alone = r.alone /\ q.copied = r.copied /\ q.lost = r.lost /\ q.premise = r.premise
  <2> DEFINE a == [r EXCEPT !.pc = AfterReload(c)]
             n == [a EXCEPT !.result = "ok"]
  <2>1. a \in CallRecords
    BY <1>1, CallFields DEF AfterReload
  <2>2. n \in CallRecords
    <3> HIDE DEF a
    <3> QED BY <2>1, <1>1, CallFields DEF AfterReload
  <2>3. Step(c, n)
    BY DEF Reload
  <2>4. call' \in [Calls -> CallRecords] /\ q = n /\ Aside(c)
    <3> HIDE DEF a, n
    <3> QED BY <2>1, <2>3, <2>2, StepFacts
  <2> QED BY <1>1, <2>4 DEF CallRecords, AfterReload
<1>3. r.pc = "reload" /\ running' = Range(Effective(conf)) /\ running' \subseteq Ports
      /\ UNCHANGED <<conf, taken, pend, proven>>
  BY <1>1, EffectiveFacts DEF Reload, TypeOK
<1>8. ASSUME r.op = "apply", Undisturbed(c)
      PROVE  /\ r.cur \in Range(Effective(conf)) /\ r.cur \in Bound
             /\ r.port # r.cur => conf = WithPorts(<<r.cur, r.port>>)
  BY <1>1, <1>3, <1>8, PortLinesFacts DEF ApplySafe, Known
<1>9. ASSUME r.op \in {"keep", "cancel"}, Undisturbed(c)
      PROVE  Range(Effective(conf)) = {Chosen(c)} \cup Range(BasePorts)
  <2>1. Chosen(c) \in Ports /\ conf = WithPorts(<<Chosen(c)>>)
    BY <1>1, <1>3, <1>9 DEF ConfirmSafe, Known, Chosen
  <2>2. conf \in Confs /\ conf.ports = <<Chosen(c)>>
    BY <2>1, ConfTypes
  <2>3. <<Chosen(c)>> # <<>>
    OBVIOUS
  <2>4. Range(Effective(conf)) = Range(<<Chosen(c)>>) \cup Range(BasePorts)
    BY <2>2, <2>3, EffectiveFacts
  <2> QED BY <2>1, <2>4, RangeOf
<1>4. TypeOK'
  BY <1>1, <1>2, <1>3, ConfTypes DEF TypeOK
<1>5. PendingApart' /\ Known(c)'
  BY <1>1, <1>2, <1>3 DEF PendingApart, Known, PendingOf, NoPending, AfterReload, CallRecords
<1>6. ApplySafe(c)'
  <2>1. CASE ~(r.op = "apply" /\ Undisturbed(c))
    BY <1>2, <2>1 DEF ApplySafe, Undisturbed
  <2>2. CASE r.op = "apply" /\ Undisturbed(c)
    <3>1. q.cur \in Range(Effective(conf')) /\ q.cur \in Bound'
      BY <1>2, <1>3, <1>8, <2>2 DEF Bound
    <3>2. r.copied => r.cur \in Range(Effective(r.old))
      BY <1>1, <1>3, <2>2 DEF ApplySafe, Known
    <3>3. q.pc \in {"save", "forget"} /\ (q.pc = "save" => r.port # r.cur)
      BY <1>2 DEF AfterReload
    <3>4. q.pc = "save" => BothLines(c)'
      BY <1>2, <1>3, <1>8, <2>2, <3>3 DEF BothLines
    <3> QED BY <1>2, <3>1, <3>2, <3>3, <3>4 DEF ApplySafe
  <2> QED BY <2>1, <2>2
<1>7. ConfirmSafe(c)'
  <2>1. CASE ~(r.op \in {"keep", "cancel"} /\ Undisturbed(c))
    BY <1>2, <2>1 DEF ConfirmSafe, Undisturbed
  <2>2. CASE r.op \in {"keep", "cancel"} /\ Undisturbed(c)
    <3>1. q.pc = "forget" /\ Chosen(c)' = Chosen(c)
      BY <1>2, <2>2 DEF AfterReload, Chosen
    <3>2. running' = {Chosen(c)} \cup Range(BasePorts)
      BY <1>3, <1>9, <2>2
    <3> QED BY <3>1, <3>2 DEF ConfirmSafe
  <2> QED BY <2>1, <2>2
<1> HIDE DEF r, q
<1> QED BY <1>2, <1>4, <1>5, <1>6, <1>7, AsideKeeps

(* sshd may follow the files although the reload fails.                    *)
LEMMA ReloadFailsKeeps ==
  ASSUME PortsInv, NEW c \in Calls, ReloadFails(c)
  PROVE  PortsInv'
<1> DEFINE r == call[c]
           q == call'[c]
<1>1. TypeOK /\ r \in CallRecords /\ Known(c) /\ ApplySafe(c) /\ ConfirmSafe(c) /\ PendingApart
  BY DEF PortsInv, TypeOK
<1>2. /\ call' \in [Calls -> CallRecords] /\ Aside(c)
      /\ q.pc = "restore" /\ q.result = "error" /\ q.op = r.op /\ q.port = r.port
      /\ q.cur = r.cur /\ q.old = r.old /\ q.next = r.next /\ q.pend = r.pend
      /\ q.alone = r.alone /\ q.copied = r.copied /\ q.lost = r.lost /\ q.premise = r.premise
  <2> DEFINE a == [r EXCEPT !.pc = "restore"]
             n == [a EXCEPT !.result = "error"]
  <2>1. a \in CallRecords
    BY <1>1, CallFields
  <2>2. n \in CallRecords
    <3> HIDE DEF a
    <3> QED BY <2>1, <1>1, CallFields
  <2>3. Step(c, n)
    BY DEF ReloadFails
  <2>4. call' \in [Calls -> CallRecords] /\ q = n /\ Aside(c)
    <3> HIDE DEF a, n
    <3> QED BY <2>1, <2>3, <2>2, StepFacts
  <2> QED BY <1>1, <2>4 DEF CallRecords
<1>3. r.pc = "reload" /\ running' \in {running, Range(Effective(conf))} /\ running' \subseteq Ports
      /\ UNCHANGED <<conf, taken, pend, proven>>
  BY <1>1, EffectiveFacts DEF ReloadFails, TypeOK
<1>4. TypeOK'
  BY <1>1, <1>2, <1>3, ConfTypes DEF TypeOK
<1>5. PendingApart' /\ Known(c)'
  BY <1>1, <1>2, <1>3 DEF PendingApart, Known, PendingOf, NoPending, AfterReload, CallRecords
<1>6. ApplySafe(c)'
  BY <1>1, <1>2, <1>3, PortLinesFacts
     DEF ApplySafe, Known, Undisturbed, Bound, BothLines, PendingOf, TypeOK
<1>7. ConfirmSafe(c)'
  BY <1>1, <1>2, <1>3 DEF ConfirmSafe, Known, Undisturbed, Chosen, TypeOK
<1> HIDE DEF r, q
<1> QED BY <1>2, <1>4, <1>5, <1>6, <1>7, AsideKeeps

(* What comes back lists the port as well, unless the drop-in is lost.     *)
LEMMA restoreConfigKeeps ==
  ASSUME PortsInv, NEW c \in Calls, restoreConfig(c)
  PROVE  PortsInv'
<1> DEFINE r == call[c]
           q == call'[c]
           gone == conf' # conf /\ (conf' # r.old \/ ~r.copied)
<1>1. TypeOK /\ r \in CallRecords /\ Known(c) /\ ApplySafe(c) /\ ConfirmSafe(c) /\ PendingApart
  BY DEF PortsInv, TypeOK
<1>8. gone \in BOOLEAN
  BY Zenon
<1>2. /\ call' \in [Calls -> CallRecords] /\ Aside(c)
      /\ q.pc \in {"forget", "end"} /\ q.op = r.op /\ q.port = r.port /\ q.cur = r.cur
      /\ q.next = r.next /\ q.pend = r.pend /\ q.alone = r.alone
      /\ q.premise = r.premise /\ q.result = r.result /\ q.lost = gone
  <2> DEFINE a == [r EXCEPT !.pc = IF r.result = "unheard" THEN "forget" ELSE "end"]
             k == [a EXCEPT !.old = NoConf]
             m == [k EXCEPT !.copied = TRUE]
             n == [m EXCEPT !.lost = gone]
  <2>1. a \in CallRecords
    BY <1>1, CallFields
  <2>2. k \in CallRecords
    <3> HIDE DEF a
    <3> QED BY <2>1, CallFields, ConfTypes
  <2>3. m \in CallRecords
    <3> HIDE DEF k
    <3> QED BY <2>2, CallFields
  <2>4. n \in CallRecords
    <3> HIDE DEF m, gone
    <3> QED BY <1>8, <2>3, CallFields
  <2>5. Step(c, n)
    BY DEF restoreConfig
  <2>6. call' \in [Calls -> CallRecords] /\ q = n /\ Aside(c)
    <3> HIDE DEF n
    <3> QED BY <2>4, <2>5, StepFacts
  <2> HIDE DEF gone
  <2> QED BY <1>1, <2>6 DEF CallRecords
<1>3. /\ r.pc = "restore" /\ conf' \in Restored(c)
      /\ running' \in {running, Range(Effective(conf'))}
      /\ conf' \in Confs /\ running' \subseteq Ports /\ UNCHANGED <<taken, pend, proven>>
  <2>1. r.pc = "restore" /\ conf' \in Restored(c) /\ UNCHANGED <<taken, pend, proven>>
    BY DEF restoreConfig
  <2>2. conf' \in Confs
    BY <1>1, <2>1, ConfTypes DEF TypeOK, CallRecords, Restored
  <2>3. running' \in {running, Range(Effective(conf'))} /\ running' \subseteq Ports
    BY <1>1, <2>2, EffectiveFacts DEF restoreConfig, TypeOK
  <2> QED BY <2>1, <2>2, <2>3
<1>9. ~q.lost => conf' = conf \/ (r.copied /\ conf' = r.old)
  BY <1>1, <1>2 DEF CallRecords
<1>4. TypeOK'
  BY <1>1, <1>2, <1>3, ConfTypes DEF TypeOK
<1>5. PendingApart' /\ Known(c)'
  <2>1. PendingApart'
    BY <1>1, <1>3 DEF PendingApart
  <2>2. r.result \in {"error", "unheard"}
    BY <1>1, <1>3 DEF Known
  <2> QED BY <1>1, <1>2, <1>3, <2>1, <2>2 DEF Known
<1>6. ApplySafe(c)'
  <2>1. CASE ~(r.op = "apply" /\ Undisturbed(c)) \/ q.lost
    BY <1>2, <2>1 DEF ApplySafe, Undisturbed
  <2>2. CASE r.op = "apply" /\ Undisturbed(c) /\ ~q.lost
    <3>1. ~r.lost
      BY <1>1, <1>3 DEF Known
    <3>2. r.cur \in Bound /\ r.cur \in Range(Effective(conf'))
      BY <1>1, <1>3, <1>9, <2>2, <3>1 DEF ApplySafe
    <3>3. r.cur \in Bound'
      BY <1>3, <3>2 DEF Bound
    <3>4. q.result # "pending"
      BY <1>1, <1>2, <1>3 DEF Known
    <3> QED BY <1>2, <3>2, <3>3, <3>4 DEF ApplySafe
  <2> QED BY <2>1, <2>2
<1>7. ConfirmSafe(c)'
  BY <1>1, <1>2, <1>3 DEF ConfirmSafe, Known, Undisturbed, Chosen, TypeOK
<1> HIDE DEF r, q, gone
<1> QED BY <1>2, <1>4, <1>5, <1>6, <1>7, AsideKeeps

(* The pending file goes away, or stays.                                   *)
LEMMA ForgetKeeps ==
  ASSUME PortsInv, NEW c \in Calls, Forget(c)
  PROVE  PortsInv'
<1> DEFINE r == call[c]
           q == call'[c]
<1>1. TypeOK /\ r \in CallRecords /\ Known(c) /\ ApplySafe(c) /\ ConfirmSafe(c) /\ PendingApart
  BY DEF PortsInv, TypeOK
<1>2. /\ call' \in [Calls -> CallRecords] /\ Aside(c)
      /\ q.pc = "end" /\ q.op = r.op /\ q.port = r.port /\ q.cur = r.cur /\ q.old = r.old
      /\ q.next = r.next /\ q.pend = r.pend /\ q.alone = r.alone /\ q.copied = r.copied /\ q.lost = r.lost /\ q.premise = r.premise
      /\ q.result = r.result
  <2> DEFINE a == [r EXCEPT !.pc = "end"]
  <2>1. a \in CallRecords
    BY <1>1, CallFields
  <2>3. Step(c, a)
    BY DEF Forget
  <2>4. call' \in [Calls -> CallRecords] /\ q = a /\ Aside(c)
    <3> HIDE DEF a
    <3> QED BY <2>1, <2>3, StepFacts
  <2> QED BY <1>1, <2>4 DEF CallRecords
<1>3. r.pc = "forget" /\ pend' \in {NoPending, pend} /\ UNCHANGED <<conf, running, taken, proven>>
  BY <1>1, EffectiveFacts DEF Forget
<1>4. TypeOK'
  BY <1>1, <1>2, <1>3, ConfTypes DEF TypeOK, NoPending, Pendings
<1>5. PendingApart' /\ Known(c)'
  BY <1>1, <1>2, <1>3 DEF PendingApart, Known, PendingOf, NoPending, AfterReload, CallRecords
<1>6. ApplySafe(c)'
  BY <1>1, <1>2, <1>3
     DEF ApplySafe, Known, Undisturbed, Bound, BothLines, PendingOf, TypeOK
<1>7. ConfirmSafe(c)'
  BY <1>1, <1>2, <1>3 DEF ConfirmSafe, Known, Undisturbed, Chosen, TypeOK
<1> HIDE DEF r, q
<1> QED BY <1>2, <1>4, <1>5, <1>6, <1>7, AsideKeeps

(* Both ports are configured by now; the pending file names them, or not.  *)
LEMMA savePendingPortKeeps ==
  ASSUME PortsInv, NEW c \in Calls, savePendingPort(c)
  PROVE  PortsInv'
<1> DEFINE r == call[c]
           q == call'[c]
<1>1. TypeOK /\ r \in CallRecords /\ Known(c) /\ ApplySafe(c) /\ ConfirmSafe(c) /\ PendingApart
  BY DEF PortsInv, TypeOK
<1>3. r.pc = "save" /\ UNCHANGED <<conf, running, taken, proven>> /\ r.op = "apply" /\ r.port # r.cur
  BY <1>1 DEF savePendingPort, Known
<1>2. /\ call' \in [Calls -> CallRecords] /\ Aside(c)
      /\ q.op = r.op /\ q.port = r.port /\ q.cur = r.cur /\ q.old = r.old
      /\ q.next = r.next /\ q.pend = r.pend /\ q.alone = r.alone /\ q.copied = r.copied /\ q.lost = r.lost /\ q.premise = r.premise
      /\ \/ q.pc = "listen" /\ q.result = r.result /\ pend' = PendingOf(c)
         \/ q.pc = "end" /\ q.result = "error" /\ pend' \in {pend, NoPending}
  <2>1. CASE pend' = PendingOf(c) /\ Step(c, [r EXCEPT !.pc = "listen"])
    <3> DEFINE a == [r EXCEPT !.pc = "listen"]
    <3>1. a \in CallRecords
      BY <1>1, CallFields
    <3>2. call' \in [Calls -> CallRecords] /\ q = a /\ Aside(c)
      <4> HIDE DEF a
      <4> QED BY <2>1, <3>1, StepFacts DEF a
    <3> QED BY <1>1, <2>1, <3>2 DEF CallRecords
  <2>2. CASE pend' \in {pend, NoPending} /\ Step(c, [r EXCEPT !.pc = "end", !.result = "error"])
    <3> DEFINE a == [r EXCEPT !.pc = "end"]
               n == [a EXCEPT !.result = "error"]
    <3>1. a \in CallRecords
      BY <1>1, CallFields
    <3>2. n \in CallRecords
      <4> HIDE DEF a
      <4> QED BY <3>1, CallFields
    <3>3. Step(c, n)
      BY <2>2
    <3>4. call' \in [Calls -> CallRecords] /\ q = n /\ Aside(c)
      <4> HIDE DEF a, n
      <4> QED BY <3>2, <3>3, StepFacts
    <3> QED BY <1>1, <2>2, <3>4 DEF CallRecords
  <2> QED BY <2>1, <2>2 DEF savePendingPort
<1>8. PendingOf(c) \in Pendings /\ PendingOf(c) # NoPending /\ NoPending \in Pendings
      /\ PendingOf(c).old = r.cur /\ PendingOf(c).new = r.port
  BY <1>1, <1>3, PortsAssumption DEF PendingOf, Pendings, NoPending, Known
<1>4. TypeOK'
  BY <1>1, <1>2, <1>3, <1>8 DEF TypeOK
<1>5. PendingApart' /\ Known(c)'
  <2>1. PendingApart'
    BY <1>1, <1>2, <1>3, <1>8 DEF PendingApart, Known
  <2>2. Known(c)'
    BY <1>1, <1>2, <1>3 DEF Known, CallRecords
  <2> QED BY <2>1, <2>2
<1>6. ApplySafe(c)'
  <2>1. PendingOf(c)' = PendingOf(c)
    BY <1>2 DEF PendingOf
  <2> QED BY <1>1, <1>2, <1>3, <2>1 DEF ApplySafe, Undisturbed, Bound, BothLines
<1>7. ConfirmSafe(c)'
  BY <1>2, <1>3 DEF ConfirmSafe
<1> HIDE DEF r, q
<1> QED BY <1>2, <1>4, <1>5, <1>6, <1>7, AsideKeeps

(* Heard on its port or not, the call has changed nothing since.           *)
LEMMA CheckListeningKeeps ==
  ASSUME PortsInv, NEW c \in Calls, CheckListening(c)
  PROVE  PortsInv'
<1> DEFINE r == call[c]
           q == call'[c]
<1>1. TypeOK /\ r \in CallRecords /\ Known(c) /\ ApplySafe(c) /\ ConfirmSafe(c) /\ PendingApart
  BY DEF PortsInv, TypeOK
<1>3. r.pc = "listen" /\ UNCHANGED <<conf, running, taken, pend, proven>> /\ r.op = "apply"
  BY <1>1 DEF CheckListening, Known
<1>2. /\ call' \in [Calls -> CallRecords] /\ Aside(c)
      /\ q.op = r.op /\ q.port = r.port /\ q.cur = r.cur /\ q.old = r.old
      /\ q.next = r.next /\ q.pend = r.pend /\ q.alone = r.alone /\ q.copied = r.copied /\ q.lost = r.lost /\ q.premise = r.premise
      /\ \/ q.pc = "end" /\ q.result = "pending"
         \/ q.pc = "restore" /\ q.result = "unheard"
  <2>1. ASSUME NEW x \in {"end", "restore"}, NEW y \in {"pending", "unheard"},
               Step(c, [r EXCEPT !.pc = x, !.result = y])
        PROVE  /\ call' \in [Calls -> CallRecords] /\ Aside(c)
               /\ q.op = r.op /\ q.port = r.port /\ q.cur = r.cur /\ q.old = r.old
               /\ q.next = r.next /\ q.pend = r.pend /\ q.alone = r.alone /\ q.copied = r.copied /\ q.lost = r.lost /\ q.premise = r.premise
               /\ q.pc = x /\ q.result = y
    <3> DEFINE a == [r EXCEPT !.pc = x]
               n == [a EXCEPT !.result = y]
    <3>1. a \in CallRecords
      BY <1>1, CallFields
    <3>2. n \in CallRecords
      <4> HIDE DEF a
      <4> QED BY <3>1, CallFields
    <3>3. Step(c, n)
      BY <2>1
    <3>4. call' \in [Calls -> CallRecords] /\ q = n /\ Aside(c)
      <4> HIDE DEF a, n
      <4> QED BY <3>2, <3>3, StepFacts
    <3> QED BY <1>1, <3>4 DEF CallRecords
  <2>2. \/ Step(c, [r EXCEPT !.pc = "end", !.result = "pending"])
        \/ Step(c, [r EXCEPT !.pc = "restore", !.result = "unheard"])
    BY DEF CheckListening
  <2> HIDE DEF r, q
  <2> QED BY <2>1, <2>2
<1>4. TypeOK'
  BY <1>1, <1>2, <1>3 DEF TypeOK
<1>5. PendingApart' /\ Known(c)'
  BY <1>1, <1>2, <1>3 DEF PendingApart, Known
<1>6. ApplySafe(c)'
  <2>1. PendingOf(c)' = PendingOf(c)
    BY <1>2 DEF PendingOf
  <2> QED BY <1>1, <1>2, <1>3, <2>1 DEF ApplySafe, Undisturbed, Bound, BothLines
<1>7. ConfirmSafe(c)'
  BY <1>2, <1>3 DEF ConfirmSafe
<1> HIDE DEF r, q
<1> QED BY <1>2, <1>4, <1>5, <1>6, <1>7, AsideKeeps

(* The call is over.                                                       *)
LEMMA ReturnKeeps ==
  ASSUME PortsInv, NEW c \in Calls, Return(c)
  PROVE  PortsInv'
<1> DEFINE r == call[c]
           q == call'[c]
<1>1. TypeOK /\ r \in CallRecords /\ Known(c) /\ ApplySafe(c) /\ ConfirmSafe(c) /\ PendingApart
  BY DEF PortsInv, TypeOK
<1>2. call' \in [Calls -> CallRecords] /\ Aside(c) /\ q = Idle
  BY IdleType, StepFacts DEF Return
<1>3. /\ UNCHANGED <<conf, running, taken, pend, proven>>
      /\ q.pc = "idle" /\ q.op = "none" /\ q.alone = FALSE /\ q.result = "none"
      /\ q.lost = FALSE
  BY <1>2 DEF Return, Idle
<1>4. TypeOK'
  BY <1>1, <1>2, <1>3 DEF TypeOK
<1>5. PendingApart' /\ Known(c)'
  BY <1>1, <1>3 DEF PendingApart, Known
<1>6. ApplySafe(c)'
  BY <1>3 DEF ApplySafe
<1>7. ConfirmSafe(c)'
  BY <1>3 DEF ConfirmSafe
<1> HIDE DEF r, q
<1> QED BY <1>2, <1>4, <1>5, <1>6, <1>7, AsideKeeps

(* ApplySettings starts from Status's port, sshd's only one if it was alone. *)
LEMMA ApplyStatusKeeps ==
  ASSUME PortsInv, NEW c \in Calls, NEW p \in Ports, ApplyStatus(c, p)
  PROVE  PortsInv'
<1> DEFINE r == call[c]
           q == call'[c]
<1>1. TypeOK /\ r \in CallRecords /\ Known(c) /\ ApplySafe(c) /\ ConfirmSafe(c) /\ PendingApart
  BY DEF PortsInv, TypeOK
<1>8. /\ StatusPort \in Ports /\ StatusPort \in Range(Effective(conf))
      /\ WithPorts(PortLines(StatusPort, p)) \in Confs
      /\ OthersQuiet(c) \in BOOLEAN
      /\ (InSync /\ Cardinality(Bound) = 1 /\ running = Bound) \in BOOLEAN
  <2>1. Effective(conf) \in Seq(Ports) /\ Len(Effective(conf)) \in Nat \ {0}
    BY <1>1, EffectiveFacts DEF TypeOK
  <2>2. StatusPort \in Ports /\ StatusPort \in Range(Effective(conf))
    BY <2>1 DEF StatusPort, Range
  <2>3. OthersQuiet(c) \in BOOLEAN
    BY Zenon DEF OthersQuiet
  <2>4. (InSync /\ Cardinality(Bound) = 1 /\ running = Bound) \in BOOLEAN
    BY Zenon DEF InSync
  <2> QED BY <2>2, <2>3, <2>4, PortLinesFacts
<1>2. /\ call' \in [Calls -> CallRecords] /\ Aside(c)
      /\ q.pc = "read" /\ q.op = "apply" /\ q.port = p /\ q.cur = StatusPort
      /\ q.next = WithPorts(PortLines(StatusPort, p)) /\ q.result = "none" /\ q.lost = FALSE
      /\ q.alone = OthersQuiet(c)
      /\ q.premise = (InSync /\ Cardinality(Bound) = 1 /\ running = Bound)
  <2> DEFINE a1 == [Idle EXCEPT !.pc = "read"]
             a2 == [a1 EXCEPT !.op = "apply"]
             a3 == [a2 EXCEPT !.port = p]
             a4 == [a3 EXCEPT !.cur = StatusPort]
             a5 == [a4 EXCEPT !.next = WithPorts(PortLines(StatusPort, p))]
             a6 == [a5 EXCEPT !.alone = OthersQuiet(c)]
             a7 == [a6 EXCEPT !.premise = (InSync /\ Cardinality(Bound) = 1 /\ running = Bound)]
  <2>1. a1 \in CallRecords
    BY IdleType, CallFields
  <2>2. a2 \in CallRecords
    <3> HIDE DEF a1
    <3> QED BY <1>1, <1>8, <2>1, CallFields
  <2>3. a3 \in CallRecords
    <3> HIDE DEF a2
    <3> QED BY <1>1, <1>8, <2>2, CallFields
  <2>4. a4 \in CallRecords
    <3> HIDE DEF a3
    <3> QED BY <1>1, <1>8, <2>3, CallFields
  <2>5. a5 \in CallRecords
    <3> HIDE DEF a4
    <3> QED BY <1>1, <1>8, <2>4, CallFields
  <2>6. a6 \in CallRecords
    <3> HIDE DEF a5
    <3> QED BY <1>1, <1>8, <2>5, CallFields
  <2>7. a7 \in CallRecords
    <3> HIDE DEF a6
    <3> QED BY <1>1, <1>8, <2>6, CallFields
  <2>8. Step(c, a7)
    BY DEF ApplyStatus
  <2>9. call' \in [Calls -> CallRecords] /\ Aside(c) /\ q = a7
    <3> HIDE DEF a7
    <3> QED BY <2>7, <2>8, StepFacts
  <2> HIDE DEF q
  <2> QED BY <2>9 DEF Idle
<1>3. UNCHANGED <<conf, running, taken, pend, proven>>
  BY DEF ApplyStatus
<1>4. TypeOK'
  BY <1>1, <1>2, <1>3 DEF TypeOK
<1>5. PendingApart' /\ Known(c)'
  BY <1>1, <1>2, <1>3, <1>8 DEF PendingApart, Known
<1>6. ApplySafe(c)'
  <2>1. Undisturbed(c)' => running = Range(Effective(conf)) /\ running = Bound
    BY <1>2 DEF Undisturbed, InSync
  <2>2. Bound' = Bound
    BY <1>3 DEF Bound
  <2> QED BY <1>2, <1>3, <1>8, <2>1, <2>2 DEF ApplySafe
<1>7. ConfirmSafe(c)'
  BY <1>2 DEF ConfirmSafe
<1> HIDE DEF r, q
<1> QED BY <1>2, <1>4, <1>5, <1>6, <1>7, AsideKeeps

(* ConfirmPort over the two lines of the pending change keeps the chosen one. *)
LEMMA ConfirmReadKeeps ==
  ASSUME PortsInv, NEW c \in Calls, NEW keepNew \in BOOLEAN, ConfirmRead(c, keepNew)
  PROVE  PortsInv'
<1> DEFINE r == call[c]
           q == call'[c]
<1>1. TypeOK /\ r \in CallRecords /\ Known(c) /\ ApplySafe(c) /\ ConfirmSafe(c) /\ PendingApart
  BY DEF PortsInv, TypeOK
<1>3. /\ UNCHANGED <<conf, running, taken, pend>> /\ pend # NoPending
      /\ pend.old \in Ports /\ pend.new \in Ports /\ pend.old # pend.new
      /\ proven' = IF keepNew THEN proven \cup {pend.new} ELSE proven
  BY <1>1 DEF ConfirmRead, PendingApart
<1>8. /\ WithPorts(ConfirmedLines(keepNew, pend)) \in Confs /\ conf \in Confs /\ pend \in Pendings
      /\ conf.ports = <<pend.old, pend.new>>
           => ConfirmedLines(keepNew, pend) = <<IF keepNew THEN pend.new ELSE pend.old>>
      /\ OthersQuiet(c) \in BOOLEAN
      /\ (InSync /\ conf.ports = <<pend.old, pend.new>>) \in BOOLEAN
  <2>1. conf \in Confs /\ pend \in Pendings
    BY <1>1 DEF TypeOK
  <2>2. CASE keepNew
    <3>1. ConfirmedLines(keepNew, pend) = LinesWithout(pend.old)
      BY <2>2 DEF ConfirmedLines
    <3> QED BY <1>3, <2>1, <2>2, <3>1, ConfirmedFacts DEF OthersQuiet, InSync
  <2>3. CASE ~keepNew
    <3>1. ConfirmedLines(keepNew, pend) = LinesWithout(pend.new)
      BY <2>3 DEF ConfirmedLines
    <3> QED BY <1>3, <2>1, <2>3, <3>1, ConfirmedFacts DEF OthersQuiet, InSync
  <2> QED BY <2>2, <2>3
<1>2. /\ call' \in [Calls -> CallRecords] /\ Aside(c)
      /\ q.pc = "write" /\ q.op = IF keepNew THEN "keep" ELSE "cancel"
      /\ q.pend = pend /\ q.result = "none" /\ q.lost = FALSE
      /\ q.next = WithPorts(ConfirmedLines(keepNew, pend))
      /\ q.alone = OthersQuiet(c)
      /\ q.premise = (InSync /\ conf.ports = <<pend.old, pend.new>>)
  <2> DEFINE a1 == [Idle EXCEPT !.pc = "write"]
             a2 == [a1 EXCEPT !.op = (IF keepNew THEN "keep" ELSE "cancel")]
             a3 == [a2 EXCEPT !.old = conf]
             a4 == [a3 EXCEPT !.pend = pend]
             a5 == [a4 EXCEPT !.next = WithPorts(ConfirmedLines(keepNew, pend))]
             a6 == [a5 EXCEPT !.alone = OthersQuiet(c)]
             a7 == [a6 EXCEPT !.premise = (InSync /\ conf.ports = <<pend.old, pend.new>>)]
  <2>1. a1 \in CallRecords
    BY IdleType, CallFields
  <2>2. a2 \in CallRecords
    <3> HIDE DEF a1
    <3> QED BY <1>1, <1>8, <2>1, CallFields
  <2>3. a3 \in CallRecords
    <3> HIDE DEF a2
    <3> QED BY <1>1, <1>8, <2>2, CallFields
  <2>4. a4 \in CallRecords
    <3> HIDE DEF a3
    <3> QED BY <1>1, <1>8, <2>3, CallFields
  <2>5. a5 \in CallRecords
    <3> HIDE DEF a4
    <3> QED BY <1>1, <1>8, <2>4, CallFields
  <2>6. a6 \in CallRecords
    <3> HIDE DEF a5
    <3> QED BY <1>1, <1>8, <2>5, CallFields
  <2>7. a7 \in CallRecords
    <3> HIDE DEF a6
    <3> QED BY <1>1, <1>8, <2>6, CallFields
  <2>8. Step(c, a7)
    BY DEF ConfirmRead
  <2>9. call' \in [Calls -> CallRecords] /\ Aside(c) /\ q = a7
    <3> HIDE DEF a7
    <3> QED BY <2>7, <2>8, StepFacts
  <2> HIDE DEF q
  <2> QED BY <2>9 DEF Idle
<1>4. TypeOK'
  BY <1>1, <1>2, <1>3 DEF TypeOK
<1>5. PendingApart' /\ Known(c)'
  BY <1>1, <1>2, <1>3 DEF PendingApart, Known
<1>6. ApplySafe(c)'
  BY <1>2 DEF ApplySafe
<1>7. ConfirmSafe(c)'
  <2>1. Chosen(c)' = IF keepNew THEN pend.new ELSE pend.old
    BY <1>2 DEF Chosen
  <2>2. Undisturbed(c)' => conf.ports = <<pend.old, pend.new>>
    BY <1>2 DEF Undisturbed
  <2> QED BY <1>2, <1>8, <2>1, <2>2 DEF ConfirmSafe
<1> HIDE DEF r, q
<1> QED BY <1>2, <1>4, <1>5, <1>6, <1>7, AsideKeeps

(* A stop of the agent ends every call and leaves the files to the next.   *)
LEMMA CrashKeeps ==
  ASSUME PortsInv, Crash
  PROVE  PortsInv'
<1>1. /\ UNCHANGED <<conf, running, taken, pend, proven>>
      /\ call' \in [Calls -> CallRecords]
      /\ \A c \in Calls : call'[c] = Idle
  BY IdleType DEF Crash
<1>2. \A c \in Calls : /\ call'[c].pc = "idle" /\ call'[c].op = "none"
                       /\ call'[c].alone = FALSE /\ call'[c].result = "none"
                       /\ call'[c].lost = FALSE
  BY <1>1 DEF Idle
<1>3. \A c \in Calls : (Known(c) /\ ApplySafe(c) /\ ConfirmSafe(c))'
  BY <1>2 DEF Known, ApplySafe, ConfirmSafe
<1> QED BY <1>1, <1>3 DEF PortsInv, TypeOK, PendingApart

(* A stuttering step changes no part of the invariant.                     *)
LEMMA StutterKeeps ==
  ASSUME PortsInv, UNCHANGED vars
  PROVE  PortsInv'
<1> USE DEF vars, Bound, BothLines, PendingOf, Undisturbed, Chosen, PendingApart
<1>1. TypeOK' /\ PendingApart'
  BY DEF PortsInv, TypeOK
<1>2. ASSUME NEW c \in Calls PROVE (Known(c) /\ ApplySafe(c) /\ ConfirmSafe(c))'
  <2>1. Known(c)'
    BY DEF PortsInv, Known
  <2>2. ApplySafe(c)'
    BY DEF PortsInv, ApplySafe
  <2>3. ConfirmSafe(c)'
    BY DEF PortsInv, ConfirmSafe
  <2> QED BY <2>1, <2>2, <2>3
<1> QED BY <1>1, <1>2 DEF PortsInv
-----------------------------------------------------------------------------
(* No call is under way, and sshd runs on the files.                       *)
LEMMA InitPortsInv == Init => PortsInv
<1> SUFFICES ASSUME Init PROVE PortsInv
  OBVIOUS
<1>1. /\ conf \in Confs /\ Range(Effective(conf)) \subseteq Ports
      /\ pend = NoPending /\ pend \in Pendings
  BY ConfTypes, EffectiveFacts DEF Init, NoPending, Pendings
<1>2. call \in [Calls -> CallRecords] /\ \A c \in Calls : call[c] = Idle
  BY IdleType DEF Init
<1>3. \A c \in Calls : /\ call[c].pc = "idle" /\ call[c].op = "none"
                       /\ call[c].alone = FALSE /\ call[c].result = "none"
                       /\ call[c].lost = FALSE
  BY <1>2 DEF Idle
<1>4. \A c \in Calls : Known(c) /\ ApplySafe(c) /\ ConfirmSafe(c)
  BY <1>3 DEF Known, ApplySafe, ConfirmSafe
<1>5. TypeOK
  BY <1>1, <1>2 DEF Init, TypeOK
<1> QED BY <1>1, <1>4, <1>5 DEF PortsInv, PendingApart

(* Every step keeps the invariant.                                         *)
LEMMA NextPortsInv == PortsInv /\ [Next]_vars => PortsInv'
<1> SUFFICES ASSUME PortsInv, [Next]_vars PROVE PortsInv'
  OBVIOUS
<1>1. ASSUME NEW c \in Calls, NEW p \in Ports, ApplyStatus(c, p) PROVE PortsInv'
  BY <1>1, ApplyStatusKeeps
<1>2. ASSUME NEW c \in Calls, NEW keepNew \in BOOLEAN, ConfirmRead(c, keepNew) PROVE PortsInv'
  BY <1>2, ConfirmReadKeeps
<1>3. ASSUME NEW c \in Calls, ApplyRead(c) PROVE PortsInv'
  BY <1>3, ApplyReadKeeps
<1>4. ASSUME NEW c \in Calls, Write(c) PROVE PortsInv'
  BY <1>4, WriteKeeps
<1>5. ASSUME NEW c \in Calls, WriteFails(c) PROVE PortsInv'
  BY <1>5, WriteFailsKeeps
<1>6. ASSUME NEW c \in Calls, Reload(c) PROVE PortsInv'
  BY <1>6, ReloadKeeps
<1>7. ASSUME NEW c \in Calls, ReloadFails(c) PROVE PortsInv'
  BY <1>7, ReloadFailsKeeps
<1>8. ASSUME NEW c \in Calls, restoreConfig(c) PROVE PortsInv'
  BY <1>8, restoreConfigKeeps
<1>9. ASSUME NEW c \in Calls, savePendingPort(c) PROVE PortsInv'
  BY <1>9, savePendingPortKeeps
<1>10. ASSUME NEW c \in Calls, CheckListening(c) PROVE PortsInv'
  BY <1>10, CheckListeningKeeps
<1>11. ASSUME NEW c \in Calls, Forget(c) PROVE PortsInv'
  BY <1>11, ForgetKeeps
<1>12. ASSUME NEW c \in Calls, Return(c) PROVE PortsInv'
  BY <1>12, ReturnKeeps
<1>13. CASE Crash
  BY <1>13, CrashKeeps
<1>14. CASE UNCHANGED vars
  BY <1>14, StutterKeeps
<1> QED BY <1>1, <1>2, <1>3, <1>4, <1>5, <1>6, <1>7, <1>8, <1>9, <1>10, <1>11,
           <1>12, <1>13, <1>14 DEF Next

(* The inductive invariant, in every reachable state.                      *)
LEMMA SshPortsInvariant == Spec => []PortsInv
  BY InitPortsInv, NextPortsInv, PTL DEF Spec

(* The types of sshd's files, of sshd and of the calls under way.          *)
THEOREM SshTypeCorrect == Spec => []TypeOK
<1>1. PortsInv => TypeOK
  BY DEF PortsInv
<1> QED BY <1>1, SshPortsInvariant, PTL

(* An ApplySettings that finds sshd on its only port and in step with the  *)
(* files, and that no other call overlaps, leaves sshd on that port at all *)
(* its steps, stops and failures, unless restoring lost the drop-in, for   *)
(* any ports, calls and Port lines of sshd_config (manager.go:591, 707).   *)
THEOREM SshOnlyPortKept == Spec => []OnlyPortKept
<1>1. PortsInv => OnlyPortKept
  BY DEF PortsInv, OnlyPortKept, ApplySafe
<1> QED BY <1>1, SshPortsInvariant, PTL

(* "Waiting for confirmation": sshd was told both ports, and the drop-in   *)
(* and the pending file name them (manager.go:617).                        *)
THEOREM SshPendingAnswerTrue == Spec => []PendingAnswerTrue
<1>1. ASSUME PortsInv, NEW c \in Calls, call[c].pc = "end", call[c].result = "pending",
             Undisturbed(c)
      PROVE  /\ {call[c].cur, call[c].port} \subseteq running
             /\ conf.ports = <<pend.old, pend.new>>
             /\ pend.old = call[c].cur
  <2>1. /\ call[c].op = "apply" /\ ~call[c].lost /\ conf \in Confs
        /\ call[c].cur \in Ports /\ call[c].port \in Ports
    BY <1>1 DEF PortsInv, Known, TypeOK
  <2>2. BothLines(c) /\ pend = PendingOf(c)
    BY <1>1, <2>1 DEF PortsInv, ApplySafe
  <2>3. conf.ports = <<call[c].cur, call[c].port>>
    BY <2>1, <2>2, ConfTypes DEF BothLines
  <2>4. {call[c].cur, call[c].port} \subseteq running
    BY <2>1, <2>2, <2>3, RangeOf, EffectiveFacts DEF BothLines
  <2> QED BY <2>2, <2>3, <2>4 DEF PendingOf
<1>2. PortsInv => PendingAnswerTrue
  BY <1>1 DEF PendingAnswerTrue
<1> QED BY <1>2, SshPortsInvariant, PTL

(* A confirmation that succeeds undisturbed leaves sshd on the chosen port *)
(* and on those sshd_config names itself (manager.go:636-641).             *)
THEOREM SshConfirmChooses == Spec => []ConfirmChooses
<1>1. PortsInv => ConfirmChooses
  BY DEF PortsInv, ConfirmChooses, ConfirmSafe, Chosen
<1> QED BY <1>1, SshPortsInvariant, PTL
=============================================================================
