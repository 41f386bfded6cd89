---------------------------- MODULE PageData_proofs ----------------------------
(***************************************************************************)
(* Proofs about PageData for any number of loads, selections and server    *)
(* states: what a page shows once the load that counts has ended.          *)
(***************************************************************************)
EXTENDS PageData, TLAPS

LoadRecords ==
    [st : {"idle", "asked", "served", "refused"}, part : 0..page.parts,
     key : Keys \cup {NoKey}, ver : 0..MaxVer, pick : BOOLEAN]

(* Whose load answers for what the page shows: that of the newest          *)
(* generation on a guarded page, the only one on any other.                *)
Sole == Guarded \/ ~overlap
Answers == Sole /\ load[latest].st # "idle"

(* Selections other than those of the SSH and the GitHub page always name  *)
(* something.                                                              *)
Selected ==
    /\ page.keyed \notin {"user", "pick"}
           => key \in Keys /\ (write.st # "none" => write.key \in Keys)
    /\ page.keyed = "none" /\ write.st # "none" => write.key = Home

(* Only the GitHub page loads its last part alone.                         *)
Picks == \A l \in Busy : load[l].pick => page.keyed = "pick" /\ load[l].part = page.parts

Single == ~overlap => \A l \in Busy : l = latest

(* The load that answers asks for the selection; the SSH page selects what *)
(* it asks for after its first part.                                       *)
Aimed ==
    Answers /\ ~astray =>
        IF page.keyed = "user" THEN load[latest].part > 1 => key = load[latest].key
        ELSE load[latest].key = key /\ key # NoKey

(* What it brings is not older than the page's own operation.              *)
Recent ==
    Answers /\ (Guarded \/ ~astray)
        => (load[latest].st = "served" \/ (load[latest].part > 1 /\ ~load[latest].pick)
                => load[latest].ver >= written)

(* What it has brought.                                                    *)
Brought ==
    Sole /\ Settled =>
        /\ ~astray => shown.key = Target(key)
        /\ Guarded \/ ~astray => shown.ver >= written

DataInv == TypeOK /\ Selected /\ Picks /\ Single /\ Aimed /\ Recent /\ Brought
-----------------------------------------------------------------------------
(* What the pages have in common.                                          *)
LEMMA LoaderFacts ==
  ASSUME TypeOK
  PROVE  /\ page.keyed \in {"none", "search", "visit", "user", "pick"}
         /\ page.parts \in {1, 2}
         /\ Guarded => page.keyed \in {"none", "search"} /\ page.parts = 1
         /\ page.keyed \in {"user", "pick"} => page.parts = 2
<1>1. page \in Loaders
  BY PageAssumption DEF TypeOK
<1> QED BY <1>1 DEF Loaders, Loader, Guarded,
     DashboardLoader, ServicesLoader, ProcessesLoader, NetworkLoader, StorageLoader,
     TasksLoader, UpdatesLoader, HostLoader, SnapshotsLoader, DockerLoader, FilesLoader,
     GitHubLoader, SSHLoader, AuditLoader, SecurityLoader, SettingsLoader

(* A selection that names something is loaded as it is.                    *)
LEMMA ResolvedFacts ==
  ASSUME NEW k \in Keys \cup {NoKey}
  PROVE  Resolved(k) \in Keys /\ (k \in Keys => Resolved(k) = k)
  BY PageAssumption DEF Resolved

(* So is every selection of a page that has one.                           *)
LEMMA TargetFacts ==
  ASSUME NEW k \in Keys \cup {NoKey}
  PROVE  /\ Target(k) \in Keys \cup {NoKey}
         /\ page.keyed = "user" \/ k \in Keys => Target(k) \in Keys
         /\ page.keyed # "user" => Target(k) = k
  BY ResolvedFacts DEF Target

(* The record of no load.                                                  *)
LEMMA IdleType == TypeOK => Idle \in LoadRecords
  BY LoaderFacts, PageAssumption DEF Idle, LoadRecords

(* The types of TypeOK, apart from the loads in progress.                  *)
LEMMA LoadTypes ==
  TypeOK => load \in [Loads -> LoadRecords] /\ MaxVer \in Nat /\ ver \in 0..MaxVer
                /\ page.parts \in Nat
  BY LoaderFacts, PageAssumption DEF TypeOK, LoadRecords

(* A load of selection k starts beside the others.                         *)
Started(l, k, pick) ==
    /\ load[l].st = "idle" /\ load' \in [Loads -> LoadRecords]
    /\ load'[l].st = "asked" /\ load'[l].part = (IF pick THEN page.parts ELSE 1)
    /\ load'[l].key = Target(k) /\ load'[l].pick = pick
    /\ \A d \in Loads \ {l} : load'[d] = load[d]
    /\ latest' = l /\ loading' \in BOOLEAN /\ failed' \in BOOLEAN
    /\ overlap' = (Busy # {})
    /\ astray' = (page.keyed \in {"search", "pick"} /\ (k # key' \/ k = NoKey))

(* Begin does that.                                                        *)
LEMMA BeginFacts ==
  ASSUME DataInv, NEW l \in Loads, NEW k \in Keys \cup {NoKey},
         NEW silent \in BOOLEAN, NEW pick \in BOOLEAN, Begin(l, k, silent, pick)
  PROVE  Started(l, k, pick)
<1> DEFINE r == [st |-> "asked", part |-> IF pick THEN page.parts ELSE 1,
                 key |-> Target(k), ver |-> 0, pick |-> pick]
<1>1. TypeOK /\ load \in [Loads -> LoadRecords]
  BY LoadTypes DEF DataInv
<1>2. load' = [load EXCEPT ![l] = r]
  BY DEF Begin
<1>3. r \in LoadRecords
  BY <1>1, LoaderFacts, TargetFacts, PageAssumption DEF LoadRecords
<1>4. /\ r.st = "asked" /\ r.part = (IF pick THEN page.parts ELSE 1)
      /\ r.key = Target(k) /\ r.pick = pick
  OBVIOUS
<1> HIDE DEF r
<1>5. load' \in [Loads -> LoadRecords] /\ load'[l] = r /\ \A d \in Loads \ {l} : load'[d] = load[d]
  BY <1>1, <1>2, <1>3
<1>6. load[l].st = "idle" /\ latest' = l /\ loading' \in BOOLEAN /\ failed' \in BOOLEAN
  BY <1>1 DEF Begin, TypeOK
<1>7. overlap' = (Busy # {}) /\ astray' = (page.keyed \in {"search", "pick"} /\ (k # key' \/ k = NoKey))
  BY DEF Begin
<1> QED BY <1>4, <1>5, <1>6, <1>7 DEF Started

(* A load that starts is the one that answers from now on.                 *)
LEMMA StartKeeps ==
  ASSUME DataInv, NEW l \in Loads, NEW k \in Keys \cup {NoKey}, NEW pick \in BOOLEAN,
         Started(l, k, pick), pick => page.keyed = "pick",
         key' \in Keys \cup {NoKey},
         page.keyed \notin {"user", "pick"} => k \in Keys /\ key' \in Keys,
         page.keyed = "none" => key' = Home,
         page.keyed \in {"none", "visit"} => k = key',
         UNCHANGED <<page, shown, ver>>, written' \in 0..ver,
         write' \in {write, NoWrite}
  PROVE  DataInv'
<1>1. TypeOK /\ Selected /\ Picks /\ Single /\ load \in [Loads -> LoadRecords] /\ ver \in 0..MaxVer
  BY LoadTypes DEF DataInv
<1>2. /\ page.keyed # "pick" => Target(k) \in Keys
      /\ page.keyed # "user" => Target(k) = k
  BY TargetFacts
<1>3. Busy' = Busy \cup {l} /\ latest' = l /\ load'[l].st = "asked"
  BY DEF Busy, Started
<1>4. TypeOK'
  <2>1. load' \in [Loads -> LoadRecords']
    BY DEF Started, LoadRecords
  <2>2. \A d \in Busy' : (load'[d].key \in Keys \/ page.keyed = "pick") /\ load'[d].part > 0
    BY <1>1, <1>2, <1>3, LoaderFacts DEF TypeOK, Started, Busy
  <2>3. write' \in [st : {"none", "asked", "done"}, key : Keys \cup {NoKey}]
    BY <1>1 DEF TypeOK, NoWrite
  <2>4. overlap' \in BOOLEAN /\ astray' \in BOOLEAN
    BY DEF Started
  <2> QED BY <1>1, <2>1, <2>2, <2>3, <2>4 DEF TypeOK, Started, LoadRecords
<1>5. Selected'
  BY <1>1 DEF Selected, NoWrite
<1>6. Picks'
  BY <1>1, <1>3 DEF Picks, Started, Busy
<1>7. Single'
  <2>1. Busy # {} => overlap'
    BY DEF Started
  <2> QED BY <1>3, <2>1 DEF Single
<1>8. Aimed'
  <2>1. page'.keyed = page.keyed /\ latest' = l /\ load'[l].key = Target(k)
    BY DEF Started
  <2>2. CASE page.keyed = "user"
    BY <2>1, <2>2 DEF Aimed, Started
  <2>3. CASE page.keyed # "user"
    <3>1. ~astray' => k = key' /\ k # NoKey
      BY <1>1, <2>3, LoaderFacts, PageAssumption DEF Started
    <3> QED BY <1>2, <2>1, <2>3, <3>1 DEF Aimed
  <2> QED BY <2>2, <2>3
<1>9. Recent'
  BY <1>3 DEF Recent, Started
<1>10. Brought'
  BY <1>3 DEF Brought, Settled
<1> QED BY <1>4, <1>5, <1>6, <1>7, <1>8, <1>9, <1>10 DEF DataInv

(* The selection changes with the load that asks for it.                   *)
LEMMA SelectKeeps ==
  ASSUME DataInv, NEW l \in Loads, Select(l)
  PROVE  DataInv'
<1>1. TypeOK
  BY DEF DataInv
<1>2. PICK k \in Keys : /\ page.keyed # "none" /\ key' = k
                        /\ Begin(l, k, FALSE, page.keyed = "pick")
                        /\ UNCHANGED <<page, shown, write, ver, written>>
  BY DEF Select
<1>3. Started(l, k, page.keyed = "pick")
  BY <1>2, BeginFacts
<1>4. written' \in 0..ver
  BY <1>1, <1>2 DEF TypeOK
<1> QED BY <1>2, <1>3, <1>4, StartKeeps

(* The form loads the selection as it is.                                  *)
LEMMA SubmitKeeps ==
  ASSUME DataInv, NEW l \in Loads, Submit(l)
  PROVE  DataInv'
<1>1. TypeOK
  BY DEF DataInv
<1>2. /\ page.keyed = "pick" /\ key' = key /\ Begin(l, key, FALSE, TRUE)
      /\ UNCHANGED <<page, shown, write, ver, written>>
  BY DEF Submit
<1>3. key \in Keys \cup {NoKey} /\ written' \in 0..ver
  BY <1>1, <1>2 DEF TypeOK
<1>4. Started(l, key, TRUE)
  BY <1>2, <1>3, BeginFacts
<1> QED BY <1>2, <1>3, <1>4, StartKeeps

(* The selection or the summary changes with no load: the page is astray   *)
(* until the next one.                                                     *)
LEMMA ApartKeeps ==
  ASSUME DataInv, SetRepository \/ Emptied
  PROVE  DataInv'
<1>1. TypeOK /\ Selected /\ Picks /\ Single /\ Recent
  BY DEF DataInv
<1>2. /\ UNCHANGED <<page, load, latest, loading, failed, write, ver, written, overlap>>
      /\ page.keyed = "pick" /\ astray' = TRUE
  BY DEF SetRepository, Emptied
<1>3. /\ key' \in Keys \cup {NoKey}
      /\ shown' \in [key : Keys \cup {NoKey}, ver : 0..MaxVer]
  BY <1>1, PageAssumption DEF SetRepository, Emptied, TypeOK, Nothing
<1>4. TypeOK'
  BY <1>1, <1>2, <1>3 DEF TypeOK, Busy
<1>5. Selected' /\ Picks' /\ Single'
  BY <1>1, <1>2 DEF Selected, Picks, Single, Busy
<1>6. Aimed' /\ Recent'
  BY <1>1, <1>2 DEF Aimed, Recent, Answers, Sole, Guarded
<1>7. Brought'
  <2>1. ~Guarded
    BY <1>1, <1>2, LoaderFacts
  <2> QED BY <1>2, <2>1 DEF Brought, Guarded
<1> QED BY <1>4, <1>5, <1>6, <1>7 DEF DataInv

(* The selection is loaded again; on the file page what is listed.         *)
LEMMA RefreshKeeps ==
  ASSUME DataInv, NEW l \in Loads, Refresh(l)
  PROVE  DataInv'
<1>1. TypeOK /\ Selected
  BY DEF DataInv
<1>2. Here \in Keys \cup {NoKey} /\ (page.keyed \notin {"user", "pick"} => Here \in Keys)
  BY <1>1, ResolvedFacts DEF Here, TypeOK, Selected
<1>3. page.keyed = "none" => Here = Home
  BY <1>1 DEF Here, TypeOK
<1>4. key' = Here /\ Begin(l, Here, FALSE, FALSE) /\ UNCHANGED <<page, shown, write, ver, written>>
  BY DEF Refresh
<1>5. Started(l, Here, FALSE)
  BY <1>2, <1>4, BeginFacts
<1>6. written' \in 0..ver
  BY <1>1, <1>4 DEF TypeOK
<1> QED BY <1>2, <1>3, <1>4, <1>5, <1>6, StartKeeps

(* The timer loads the selection again.                                    *)
LEMMA PollKeeps ==
  ASSUME DataInv, NEW l \in Loads, Poll(l)
  PROVE  DataInv'
<1>1. TypeOK /\ Selected
  BY DEF DataInv
<1>2. /\ key \in Keys \cup {NoKey} /\ (page.keyed \notin {"user", "pick"} => key \in Keys)
      /\ (page.keyed = "none" => key = Home)
  BY <1>1 DEF TypeOK, Selected
<1>3. key' = key /\ Begin(l, key, FALSE, FALSE) /\ UNCHANGED <<page, shown, write, ver, written>>
  BY DEF Poll
<1>4. Started(l, key, FALSE)
  BY <1>2, <1>3, BeginFacts
<1>5. written' \in 0..ver
  BY <1>1, <1>3 DEF TypeOK
<1> QED BY <1>2, <1>3, <1>4, <1>5, StartKeeps

(* The reload after an operation is asked after the operation.             *)
LEMMA WrittenKeeps ==
  ASSUME DataInv, NEW l \in Loads, Written(l)
  PROVE  DataInv'
<1>1. TypeOK /\ Selected
  BY DEF DataInv
<1>2. /\ write.st = "done" /\ write' = NoWrite /\ written' = ver
      /\ key' = IF page.keyed = "visit" THEN write.key ELSE key
      /\ Begin(l, write.key, Guarded, page.keyed = "pick")
      /\ UNCHANGED <<page, shown, ver>>
  BY DEF Written
<1>3. /\ write.key \in Keys \cup {NoKey}
      /\ page.keyed \notin {"user", "pick"} => write.key \in Keys /\ key' \in Keys
      /\ (page.keyed = "none" => write.key = Home /\ key' = Home) /\ key' \in Keys \cup {NoKey}
  BY <1>1, <1>2 DEF TypeOK, Selected
<1>4. Guarded \in BOOLEAN
  BY DEF Guarded
<1>5. Started(l, write.key, page.keyed = "pick")
  BY <1>2, <1>3, <1>4, BeginFacts
<1>6. written' \in 0..ver
  BY <1>1, <1>2, PageAssumption DEF TypeOK
<1> QED BY <1>2, <1>3, <1>5, <1>6, StartKeeps
-----------------------------------------------------------------------------
(* Operations and other people's changes touch no load.                    *)
LEMMA ServerKeeps ==
  ASSUME DataInv, Write \/ ServeWrite \/ ServerChanges
  PROVE  DataInv'
<1>1. TypeOK /\ Selected /\ Picks /\ Single /\ Aimed /\ Recent /\ Brought
  BY DEF DataInv
<1>2. UNCHANGED <<page, key, load, latest, shown, loading, failed, written, overlap, astray>>
  BY DEF Write, ServeWrite, ServerChanges
<1>3. /\ write' \in [st : {"none", "asked", "done"}, key : Keys \cup {NoKey}]
      /\ write'.st # "none" => /\ page.keyed \notin {"user", "pick"} => write'.key \in Keys
                               /\ page.keyed = "none" => write'.key = Home
  <2>1. CASE Write
    <3>1. Here \in Keys \cup {NoKey} /\ (page.keyed \notin {"user", "pick"} => Here \in Keys)
          /\ (page.keyed = "none" => Here = Home)
      BY <1>1, ResolvedFacts DEF Here, TypeOK, Selected
    <3>2. PICK k \in {Here} \cup (IF page.keyed = "user" THEN Keys \cup {NoKey} ELSE {}) :
             write' = [st |-> "asked", key |-> k]
      BY <2>1 DEF Write
    <3> QED BY <3>1, <3>2
  <2>2. CASE ServeWrite
    BY <1>1, <2>2 DEF ServeWrite, NoWrite, TypeOK, Selected
  <2>3. CASE ServerChanges
    BY <1>1, <2>3 DEF ServerChanges, TypeOK, Selected
  <2> QED BY <2>1, <2>2, <2>3
<1>4. ver' \in 0..MaxVer /\ ver' >= ver
  BY <1>1, PageAssumption DEF Write, ServeWrite, ServerChanges, TypeOK
<1>5. TypeOK'
  <2>1. written' \in 0..ver'
    BY <1>1, <1>2, <1>4, PageAssumption DEF TypeOK
  <2> QED BY <1>1, <1>2, <1>3, <1>4, <2>1 DEF TypeOK, Busy
<1>6. Selected'
  BY <1>1, <1>2, <1>3 DEF Selected
<1>7. Picks' /\ Single'
  BY <1>1, <1>2 DEF Picks, Single, Busy
<1>8. Aimed' /\ Recent'
  BY <1>1, <1>2 DEF Aimed, Recent, Answers, Sole, Guarded
<1>9. Brought'
  BY <1>1, <1>2 DEF Brought, Sole, Guarded, Settled, Target, Resolved
<1> QED BY <1>5, <1>6, <1>7, <1>8, <1>9 DEF DataInv

(* An operation after which nothing is loaded leaves the page astray.      *)
LEMMA UnnamedKeeps ==
  ASSUME DataInv, WrittenUnnamed
  PROVE  DataInv'
<1>1. TypeOK /\ Selected /\ Picks /\ Single
  BY DEF DataInv
<1>2. /\ UNCHANGED <<page, key, load, latest, shown, loading, failed, ver, overlap>>
      /\ page.keyed = "pick" /\ astray' = TRUE /\ write' = NoWrite /\ written' = ver
  BY DEF WrittenUnnamed, Unnamed
<1>3. TypeOK'
  <2>1. write' \in [st : {"none", "asked", "done"}, key : Keys \cup {NoKey}]
    BY <1>2 DEF NoWrite
  <2>2. written' \in 0..ver
    BY <1>1, <1>2, PageAssumption DEF TypeOK
  <2> QED BY <1>1, <1>2, <2>1, <2>2 DEF TypeOK, Busy
<1>4. Selected' /\ Picks' /\ Single'
  BY <1>1, <1>2 DEF Selected, Picks, Single, Busy, NoWrite
<1>5. ~Guarded
  BY <1>1, <1>2, LoaderFacts
<1>6. Aimed' /\ Recent' /\ Brought'
  BY <1>2, <1>5 DEF Aimed, Recent, Brought, Guarded
<1> QED BY <1>3, <1>4, <1>6 DEF DataInv

(* An answer is as new as the server, a refusal ends as an error.          *)
LEMMA ServeKeeps ==
  ASSUME DataInv, NEW l \in Loads, Serve(l)
  PROVE  DataInv'
<1>1. TypeOK /\ Selected /\ Picks /\ Single /\ Aimed /\ Recent /\ Brought
      /\ load \in [Loads -> LoadRecords] /\ ver \in 0..MaxVer
  BY LoadTypes DEF DataInv
<1>2. UNCHANGED <<page, key, latest, shown, loading, failed, write, ver, written, overlap, astray>>
      /\ load[l].st = "asked"
  BY DEF Serve
<1>3. PICK st \in {"served", "refused"}, w \in 0..MaxVer :
        /\ load' = [load EXCEPT ![l].st = st, ![l].ver = w]
        /\ w = IF st = "served" /\ (load[l].part = 1 \/ load[l].pick) THEN ver ELSE load[l].ver
  <2>1. load[l] \in LoadRecords
    BY <1>1
  <2>2. CASE load' = [load EXCEPT ![l].st = "refused"]
    <3>1. load' = [load EXCEPT ![l].st = "refused", ![l].ver = load[l].ver]
      BY <1>1, <2>1, <2>2 DEF LoadRecords
    <3>2. load[l].ver \in 0..MaxVer
      BY <2>1 DEF LoadRecords
    <3> QED BY <3>1, <3>2
  <2>3. CASE load' = [load EXCEPT ![l].st = "served",
                                  ![l].ver = IF load[l].part = 1 \/ load[l].pick THEN ver ELSE @]
    <3> DEFINE v == IF load[l].part = 1 \/ load[l].pick THEN ver ELSE load[l].ver
    <3>1. load' = [load EXCEPT ![l].st = "served", ![l].ver = v]
      BY <1>1, <2>1, <2>3 DEF LoadRecords
    <3>2. v \in 0..MaxVer
      BY <1>1, <2>1 DEF LoadRecords
    <3> QED BY <3>1, <3>2
  <2> QED BY <2>2, <2>3 DEF Serve
<1> DEFINE r == [load[l] EXCEPT !.st = st, !.ver = w]
<1>4. load[l] \in LoadRecords /\ w \in 0..MaxVer
  BY <1>1 DEF LoadRecords
<1>5. /\ r \in LoadRecords /\ r.st = st /\ r.part = load[l].part /\ r.key = load[l].key
      /\ r.pick = load[l].pick /\ r.ver = w
  BY <1>4 DEF LoadRecords
<1>6. load' = [load EXCEPT ![l] = r]
  BY <1>1, <1>3
<1> HIDE DEF r
<1>7. load' \in [Loads -> LoadRecords] /\ load'[l] = r /\ \A d \in Loads \ {l} : load'[d] = load[d]
  BY <1>1, <1>5, <1>6
<1>8. Busy' = Busy /\ l \in Busy
  BY <1>2, <1>5, <1>7 DEF Busy
<1>9. TypeOK'
  <2>1. load' \in [Loads -> LoadRecords']
    BY <1>2, <1>7 DEF LoadRecords
  <2>2. \A d \in Busy' : (load'[d].key \in Keys \/ page.keyed = "pick") /\ load'[d].part > 0
    BY <1>1, <1>5, <1>7, <1>8 DEF TypeOK, Busy
  <2> QED BY <1>1, <1>2, <2>1, <2>2 DEF TypeOK, LoadRecords
<1>10. Selected' /\ Single'
  BY <1>1, <1>2, <1>8 DEF Selected, Single
<1>11. Picks'
  BY <1>1, <1>2, <1>5, <1>7, <1>8 DEF Picks, Busy
<1>12. Aimed'
  BY <1>1, <1>2, <1>5, <1>7 DEF Aimed, Answers, Sole, Guarded, TypeOK
<1>13. Recent'
  <2>1. CASE latest = l
    <3>1. load'[l].ver = w /\ load'[l].part = load[l].part /\ load'[l].pick = load[l].pick
          /\ load'[l].st = st
      BY <1>5, <1>7
    <3>2. CASE st = "served" /\ (load[l].part = 1 \/ load[l].pick)
      BY <1>1, <1>2, <1>3, <2>1, <3>1, <3>2, PageAssumption DEF Recent, TypeOK
    <3>3. CASE ~(st = "served" /\ (load[l].part = 1 \/ load[l].pick))
      <4>1. w = load[l].ver
        BY <1>3, <3>3
      <4>2. st = "served" => load[l].part > 1
        BY <1>1, <1>4, <1>8, <3>3, LoaderFacts DEF TypeOK, LoadRecords
      <4> QED BY <1>1, <1>2, <2>1, <3>1, <3>3, <4>1, <4>2 DEF Recent, Answers, Sole, Guarded
    <3> QED BY <3>2, <3>3
  <2>2. CASE latest # l
    BY <1>1, <1>2, <1>7, <2>2 DEF Recent, Answers, Sole, Guarded, TypeOK
  <2> QED BY <2>1, <2>2
<1>14. Brought'
  BY <1>1, <1>2, <1>5, <1>7 DEF Brought, Sole, Guarded, Settled, Target, Resolved, TypeOK
<1> QED BY <1>9, <1>10, <1>11, <1>12, <1>13, <1>14 DEF DataInv

(* The next part of a load; the SSH page selects what it asks for.         *)
LEMMA NextPartKeeps ==
  ASSUME DataInv, NEW l \in Loads, NextPart(l)
  PROVE  DataInv'
<1>1. TypeOK /\ Selected /\ Picks /\ Single /\ Aimed /\ Recent /\ Brought
      /\ load \in [Loads -> LoadRecords] /\ ver \in 0..MaxVer
  BY LoadTypes DEF DataInv
<1>2. UNCHANGED <<page, latest, shown, loading, failed, write, ver, written, overlap, astray>>
      /\ load[l].st = "served" /\ load[l].part < Rounds(l)
      /\ key' = IF page.keyed = "user" THEN load[l].key ELSE key
  BY DEF NextPart
<1> DEFINE p == load[l].part + 1
           r == [load[l] EXCEPT !.st = "asked", !.part = p]
<1>3. load[l] \in LoadRecords /\ p \in 0..page.parts /\ p > 1 /\ load[l].part < page.parts
      /\ load[l].key \in Keys
  BY <1>1, <1>2, LoaderFacts DEF LoadRecords, TypeOK, Busy, Rounds
<1>4. /\ r \in LoadRecords /\ r.st = "asked" /\ r.part = p /\ r.key = load[l].key
      /\ r.pick = load[l].pick /\ r.ver = load[l].ver
  <2> HIDE DEF p
  <2> QED BY <1>3 DEF LoadRecords
<1>5. load' = [load EXCEPT ![l] = r]
  BY <1>1 DEF NextPart
<1> HIDE DEF p, r
<1>6. load' \in [Loads -> LoadRecords] /\ load'[l] = r /\ \A d \in Loads \ {l} : load'[d] = load[d]
  BY <1>1, <1>4, <1>5
<1>7. Busy' = Busy /\ l \in Busy /\ load[l].key \in Keys /\ ~Guarded /\ ~load[l].pick
  <2>1. Busy' = Busy /\ l \in Busy
    BY <1>2, <1>4, <1>6 DEF Busy
  <2>2. load[l].key \in Keys
    BY <1>3
  <2>3. ~Guarded
    BY <1>1, <1>2, <1>3, LoaderFacts DEF LoadRecords, TypeOK, p
  <2>4. ~load[l].pick
    BY <1>1, <1>2, <1>3, <2>1, LoaderFacts DEF Picks, LoadRecords
  <2> QED BY <2>1, <2>2, <2>3, <2>4
<1>8. TypeOK'
  <2>1. load' \in [Loads -> LoadRecords']
    BY <1>2, <1>6 DEF LoadRecords
  <2>2. \A d \in Busy' : (load'[d].key \in Keys \/ page.keyed = "pick") /\ load'[d].part > 0
    BY <1>1, <1>3, <1>4, <1>6, <1>7 DEF TypeOK, Busy
  <2>3. key' \in Keys \cup {NoKey} /\ (page.keyed = "none" => key' = Home)
    BY <1>1, <1>2, <1>7 DEF TypeOK
  <2> QED BY <1>1, <1>2, <2>1, <2>2, <2>3 DEF TypeOK, LoadRecords
<1>9. Selected' /\ Single'
  BY <1>1, <1>2, <1>7 DEF Selected, Single
<1>10. Picks'
  BY <1>1, <1>2, <1>4, <1>6, <1>7 DEF Picks, Busy
<1>11. Aimed'
  <2>1. CASE latest = l
    BY <1>1, <1>2, <1>4, <1>6, <2>1 DEF Aimed, Answers, Sole, Guarded
  <2>2. CASE latest # l
    BY <1>1, <1>2, <1>7, <2>2 DEF Aimed, Answers, Sole, Guarded, Single
  <2> QED BY <2>1, <2>2
<1>12. Recent'
  <2>1. CASE latest = l
    BY <1>1, <1>2, <1>4, <1>6, <2>1 DEF Recent, Answers, Sole, Guarded
  <2>2. CASE latest # l
    BY <1>1, <1>2, <1>7, <2>2 DEF Recent, Answers, Sole, Guarded, Single
  <2> QED BY <2>1, <2>2
<1>13. Brought'
  <2>1. CASE latest = l
    BY <1>2, <1>4, <1>6, <2>1 DEF Brought, Settled
  <2>2. CASE latest # l
    BY <1>1, <1>2, <1>7, <2>2 DEF Brought, Sole, Guarded, Single
  <2> QED BY <2>1, <2>2
<1> QED BY <1>8, <1>9, <1>10, <1>11, <1>12, <1>13 DEF DataInv

(* A load is over: it is Idle, the others go on.                           *)
LEMMA EndFacts ==
  ASSUME DataInv, NEW l \in Loads, load[l].st # "idle", load' = [load EXCEPT ![l] = Idle]
  PROVE  /\ load' \in [Loads -> LoadRecords] /\ load'[l].st = "idle"
         /\ \A d \in Loads \ {l} : load'[d] = load[d]
         /\ Busy' = Busy \ {l} /\ l \in Busy
<1>1. load \in [Loads -> LoadRecords] /\ Idle \in LoadRecords
  BY LoadTypes, IdleType DEF DataInv
<1>2. /\ load' \in [Loads -> LoadRecords] /\ load'[l] = Idle
      /\ \A d \in Loads \ {l} : load'[d] = load[d]
  BY <1>1
<1>3. Idle.st = "idle"
  BY DEF Idle
<1> QED BY <1>2, <1>3 DEF Busy

(* The load that answers is shown, any other answer is dropped or counts   *)
(* as an overlap.                                                          *)
LEMMA LoadedKeeps ==
  ASSUME DataInv, NEW l \in Loads, Loaded(l)
  PROVE  DataInv'
<1>1. TypeOK /\ Selected /\ Picks /\ Single /\ Aimed /\ Recent /\ Brought
      /\ load \in [Loads -> LoadRecords]
  BY LoadTypes DEF DataInv
<1>2. /\ UNCHANGED <<page, key, latest, failed, write, ver, written, overlap, astray>>
      /\ load[l].st = "served"
      /\ shown' = IF Current(l) /\ load[l].key # NoKey
                  THEN [key |-> load[l].key, ver |-> load[l].ver] ELSE shown
      /\ loading' \in BOOLEAN
  BY <1>1 DEF Loaded, TypeOK
<1>3. /\ load' \in [Loads -> LoadRecords] /\ load'[l].st = "idle"
      /\ \A d \in Loads \ {l} : load'[d] = load[d]
      /\ Busy' = Busy \ {l} /\ l \in Busy
  BY <1>2, EndFacts DEF Loaded
<1>4. load[l] \in LoadRecords /\ (load[l].key \in Keys \/ page.keyed = "pick")
  BY <1>1, <1>3 DEF TypeOK
<1>5. TypeOK'
  <2>1. load' \in [Loads -> LoadRecords']
    BY <1>2, <1>3 DEF LoadRecords
  <2>2. \A d \in Busy' : (load'[d].key \in Keys \/ page.keyed = "pick") /\ load'[d].part > 0
    BY <1>1, <1>3 DEF TypeOK, Busy
  <2>3. shown' \in [key : Keys \cup {NoKey}, ver : 0..MaxVer]
    BY <1>1, <1>2, <1>4 DEF TypeOK, LoadRecords
  <2> QED BY <1>1, <1>2, <2>1, <2>2, <2>3 DEF TypeOK, LoadRecords
<1>6. Selected' /\ Picks' /\ Single'
  BY <1>1, <1>2, <1>3 DEF Selected, Picks, Single, Busy
<1>7. Aimed' /\ Recent'
  BY <1>1, <1>2, <1>3 DEF Aimed, Recent, Answers, Sole, Guarded, TypeOK
<1>8. Brought'
  <2>1. CASE latest = l
    <3>1. Current(l) /\ (load[l].key # NoKey
                            => shown'.key = load[l].key /\ shown'.ver = load[l].ver)
      BY <1>2, <2>1 DEF Current
    <3>2. Sole /\ (Guarded \/ ~astray) => load[l].ver >= written
      BY <1>1, <1>2, <2>1 DEF Recent, Answers
    <3>3. Sole /\ ~astray => load[l].key = Target(key)
      <4> SUFFICES ASSUME Sole, ~astray PROVE load[l].key = Target(key)
        OBVIOUS
      <4>1. CASE page.keyed # "user"
        BY <1>1, <1>2, <2>1, <4>1 DEF Aimed, Answers, Target
      <4>2. CASE page.keyed = "user"
        <5>1. load[l].key \in Keys /\ load[l].part > 1
          BY <1>1, <1>3, <1>4, <4>2, LoaderFacts, PageAssumption DEF Loaded, Rounds
        <5> QED BY <1>1, <1>2, <2>1, <4>2, <5>1, PageAssumption DEF Aimed, Answers, Target, Resolved
      <4> QED BY <4>1, <4>2
    <3>4. Guarded \/ (Sole /\ ~astray) => load[l].key # NoKey
      <4>1. page.keyed # "pick" => load[l].key # NoKey
        BY <1>4, PageAssumption
      <4>2. Guarded => page.keyed # "pick"
        BY <1>1, LoaderFacts
      <4>3. Sole /\ ~astray /\ page.keyed = "pick" => load[l].key # NoKey
        BY <1>1, <1>2, <2>1 DEF Aimed, Answers
      <4> QED BY <4>1, <4>2, <4>3
    <3>5. Target(key)' = Target(key)
      BY <1>2 DEF Target, Resolved
    <3> QED BY <1>2, <3>1, <3>2, <3>3, <3>4, <3>5 DEF Brought, Sole, Guarded
  <2>2. CASE latest # l
    <3>1. Sole => Guarded /\ ~Current(l)
      BY <1>1, <1>3, <2>2 DEF Sole, Single, Current
    <3> QED BY <1>1, <1>2, <1>3, <2>2, <3>1 DEF Brought, Sole, Guarded, Settled, Target, Resolved, TypeOK
  <2> QED BY <2>1, <2>2
<1> QED BY <1>5, <1>6, <1>7, <1>8 DEF DataInv

(* A refused load leaves an error, a refused summary goes astray.          *)
LEMMA RefusedKeeps ==
  ASSUME DataInv, NEW l \in Loads, Refused(l)
  PROVE  DataInv'
<1>1. TypeOK /\ Selected /\ Picks /\ Single /\ Aimed /\ Recent /\ Brought
      /\ load \in [Loads -> LoadRecords]
  BY LoadTypes DEF DataInv
<1>2. /\ UNCHANGED <<page, key, latest, write, ver, written, overlap>>
      /\ load[l].st = "refused"
      /\ failed' = (failed \/ (Current(l) /\ ~load[l].pick))
      /\ astray' = (astray \/ load[l].pick)
      /\ shown' = IF page.keyed = "user" THEN Nothing ELSE shown
      /\ loading' \in BOOLEAN
  BY <1>1 DEF Refused, TypeOK
<1>3. /\ load' \in [Loads -> LoadRecords] /\ load'[l].st = "idle"
      /\ \A d \in Loads \ {l} : load'[d] = load[d]
      /\ Busy' = Busy \ {l} /\ l \in Busy
  BY <1>2, EndFacts DEF Refused
<1>4. load[l].pick \in BOOLEAN /\ Current(l) \in BOOLEAN
  BY <1>1 DEF LoadRecords, Current
<1>5. TypeOK'
  <2>1. load' \in [Loads -> LoadRecords']
    BY <1>2, <1>3 DEF LoadRecords
  <2>2. \A d \in Busy' : (load'[d].key \in Keys \/ page.keyed = "pick") /\ load'[d].part > 0
    BY <1>1, <1>3 DEF TypeOK, Busy
  <2>3. shown' \in [key : Keys \cup {NoKey}, ver : 0..MaxVer]
    BY <1>1, <1>2, PageAssumption DEF TypeOK, Nothing
  <2>4. failed' \in BOOLEAN /\ astray' \in BOOLEAN
    BY <1>1, <1>2, <1>4 DEF TypeOK
  <2> QED BY <1>1, <1>2, <2>1, <2>2, <2>3, <2>4 DEF TypeOK, LoadRecords
<1>6. Selected' /\ Picks' /\ Single'
  BY <1>1, <1>2, <1>3 DEF Selected, Picks, Single, Busy
<1>7. Aimed' /\ Recent'
  BY <1>1, <1>2, <1>3 DEF Aimed, Recent, Answers, Sole, Guarded, TypeOK
<1>8. Brought'
  <2>1. CASE latest = l
    <3>1. Current(l)
      BY <2>1 DEF Current
    <3>2. CASE ~load[l].pick
      BY <1>2, <3>1, <3>2 DEF Brought, Settled
    <3>3. CASE load[l].pick
      <4>1. ~Guarded /\ astray' /\ ~Guarded'
        BY <1>1, <1>2, <1>3, <3>3, LoaderFacts DEF Picks, Guarded
      <4> QED BY <4>1 DEF Brought
    <3> QED BY <1>4, <3>2, <3>3
  <2>2. CASE latest # l
    <3>1. Sole => Guarded /\ ~Current(l)
      BY <1>1, <1>3, <2>2 DEF Sole, Single, Current
    <3>2. Guarded => page.keyed # "user"
      BY <1>1, LoaderFacts
    <3> QED BY <1>1, <1>2, <1>3, <1>4, <2>2, <3>1, <3>2
          DEF Brought, Sole, Guarded, Settled, Target, Resolved, TypeOK
  <2> QED BY <2>1, <2>2
<1> QED BY <1>5, <1>6, <1>7, <1>8 DEF DataInv

(* A stuttering step changes no part of the invariant.                     *)
LEMMA StutterKeeps ==
  ASSUME DataInv, UNCHANGED vars
  PROVE  DataInv'
<1>1. TypeOK /\ Selected /\ Picks /\ Single /\ Aimed /\ Recent /\ Brought
  BY DEF DataInv
<1> USE DEF vars
<1>2. TypeOK'
  BY <1>1 DEF TypeOK, Busy
<1>3. Selected' /\ Picks' /\ Single'
  BY <1>1 DEF Selected, Picks, Single, Busy
<1>4. Aimed' /\ Recent'
  BY <1>1 DEF Aimed, Recent, Answers, Sole, Guarded
<1>5. Brought'
  BY <1>1 DEF Brought, Sole, Guarded, Settled, Target, Resolved
<1> QED BY <1>2, <1>3, <1>4, <1>5 DEF DataInv
-----------------------------------------------------------------------------
(* The first load is alone and asks for Home.                              *)
LEMMA InitDataInv == Init => DataInv
<1> SUFFICES ASSUME Init PROVE DataInv
  OBVIOUS
<1> DEFINE r == [Idle EXCEPT !.st = "asked", !.part = 1, !.key = Target(key)]
<1>1. page \in Open /\ page \in Loaders
  BY PageAssumption DEF Init
<1>2. /\ r.st = "asked" /\ r.part = 1 /\ r.key = Target(key) /\ r.pick = FALSE /\ r.ver = 0
      /\ Idle.st = "idle"
  BY DEF Idle
<1>3. /\ latest \in Loads /\ load[latest] = r
      /\ \A l \in Loads \ {latest} : load[l] = Idle
  BY DEF Init
<1>4. page.parts \in {1, 2} /\ (page.style = "latest" => page.keyed # "pick")
  BY <1>1 DEF Loaders, Loader,
     DashboardLoader, ServicesLoader, ProcessesLoader, NetworkLoader, StorageLoader,
     TasksLoader, UpdatesLoader, HostLoader, SnapshotsLoader, DockerLoader, FilesLoader,
     GitHubLoader, SSHLoader, AuditLoader, SecurityLoader, SettingsLoader
<1>0. /\ key \in Keys \cup {NoKey} /\ (page.keyed \notin {"user", "pick"} => key = Home)
      /\ Target(key) \in Keys \cup {NoKey}
      /\ Target(key) \in Keys \/ page.keyed = "pick"
  <2>1. key \in Keys \cup {NoKey} /\ (page.keyed \notin {"user", "pick"} => key = Home)
    BY PageAssumption DEF Init, Remembered
  <2> QED BY <2>1, TargetFacts, PageAssumption
<1>5. r \in LoadRecords /\ Idle \in LoadRecords
  <2>1. 0 \in 0..page.parts /\ 1 \in 0..page.parts /\ 0 \in 0..MaxVer
    BY <1>4, PageAssumption
  <2>2. Idle \in LoadRecords
    BY <2>1 DEF LoadRecords, Idle
  <2> DEFINE a == [Idle EXCEPT !.st = "asked"]
             b == [a EXCEPT !.part = 1]
             c == [b EXCEPT !.key = Target(key)]
  <2>3. a \in LoadRecords
    BY <2>2 DEF LoadRecords
  <2> HIDE DEF a
  <2>4. b \in LoadRecords
    BY <2>1, <2>3 DEF LoadRecords
  <2> HIDE DEF b
  <2>5. c \in LoadRecords
    BY <2>4, <1>0 DEF LoadRecords
  <2>6. r = c
    BY DEF a, b
  <2> HIDE DEF c
  <2> HIDE DEF r
  <2> QED BY <2>2, <2>5, <2>6
<1> HIDE DEF r
<1>6. load \in [Loads -> LoadRecords]
  BY <1>3, <1>5 DEF Init
<1>7. Busy = {latest}
  BY <1>2, <1>3 DEF Busy
<1>8. TypeOK
  <2>1. /\ key \in Keys \cup {NoKey} /\ (page.keyed = "none" => key = Home)
        /\ shown \in [key : Keys \cup {NoKey}, ver : 0..MaxVer]
        /\ write \in [st : {"none", "asked", "done"}, key : Keys \cup {NoKey}]
        /\ ver \in 0..MaxVer /\ written \in 0..ver
    BY <1>0, PageAssumption DEF Init, Nothing, NoWrite
  <2>2. load \in [Loads -> [st : {"idle", "asked", "served", "refused"}, part : 0..page.parts,
                           key : Keys \cup {NoKey}, ver : 0..MaxVer, pick : BOOLEAN]]
    BY <1>6 DEF LoadRecords
  <2>3. \A l \in Busy : (load[l].key \in Keys \/ page.keyed = "pick") /\ load[l].part > 0
    BY <1>0, <1>2, <1>3, <1>7
  <2>4. latest \in Loads /\ loading \in BOOLEAN /\ failed \in BOOLEAN
        /\ overlap \in BOOLEAN /\ astray \in BOOLEAN
    BY DEF Init
  <2> QED BY <1>1, <2>1, <2>2, <2>3, <2>4 DEF TypeOK
<1>9. Selected
  BY <1>0, PageAssumption DEF Init, Selected, NoWrite
<1>10. Picks /\ Single
  BY <1>2, <1>3, <1>7 DEF Picks, Single
<1>11. Aimed
  <2>1. page.keyed # "user" => Target(key) = key
    BY DEF Target
  <2>2. page.keyed # "user" /\ ~astray => key # NoKey
    BY <1>0, PageAssumption DEF Init
  <2> QED BY <1>2, <1>3, <2>1, <2>2 DEF Aimed
<1>12. Recent /\ Brought
  BY <1>2, <1>3 DEF Recent, Brought, Settled
<1> QED BY <1>8, <1>9, <1>10, <1>11, <1>12 DEF DataInv

(* Every step keeps the invariant.                                         *)
LEMMA NextDataInv == DataInv /\ [Next]_vars => DataInv'
<1> SUFFICES ASSUME DataInv, [Next]_vars PROVE DataInv'
  OBVIOUS
<1>1. CASE Write \/ ServeWrite \/ ServerChanges
  BY <1>1, ServerKeeps
<1>8. CASE SetRepository \/ Emptied \/ WrittenUnnamed
  BY <1>8, ApartKeeps, UnnamedKeeps
<1>2. ASSUME NEW l \in Loads, Starts(l) PROVE DataInv'
  BY <1>2, SelectKeeps, SubmitKeeps, RefreshKeeps, PollKeeps, WrittenKeeps DEF Starts
<1>3. ASSUME NEW l \in Loads, Serve(l) PROVE DataInv'
  BY <1>3, ServeKeeps
<1>4. ASSUME NEW l \in Loads, NextPart(l) PROVE DataInv'
  BY <1>4, NextPartKeeps
<1>5. ASSUME NEW l \in Loads, Loaded(l) PROVE DataInv'
  BY <1>5, LoadedKeeps
<1>6. ASSUME NEW l \in Loads, Refused(l) PROVE DataInv'
  BY <1>6, RefusedKeeps
<1>7. CASE UNCHANGED vars
  BY <1>7, StutterKeeps
<1> QED BY <1>1, <1>2, <1>3, <1>4, <1>5, <1>6, <1>7, <1>8 DEF Next

(* The inductive invariant, in every reachable state.                      *)
LEMMA DataInvariant == Spec => []DataInv
  BY InitDataInv, NextDataInv, PTL DEF Spec

(* Loads, selections and what is shown keep their types, for any number of *)
(* overlapping loads.                                                      *)
THEOREM DataTypeCorrect == Spec => []TypeOK
<1>1. DataInv => TypeOK
  BY DEF DataInv
<1> QED BY <1>1, DataInvariant, PTL

(* A page on useResource shows its selection once its newest load ended    *)
(* well, in whatever order any number of loads were answered.              *)
THEOREM DataGuardedFresh == Spec => []GuardedFresh
<1>1. DataInv => GuardedFresh
  <2> SUFFICES ASSUME DataInv, Guarded, Settled, ~astray PROVE shown.key = key
    BY DEF GuardedFresh
  <2>1. shown.key = Target(key)
    BY DEF DataInv, Brought, Sole
  <2>2. page.keyed # "user"
    BY LoaderFacts DEF DataInv
  <2> QED BY <2>1, <2>2 DEF Target
<1> QED BY <1>1, DataInvariant, PTL

(* It then shows its own operation's outcome, or something newer.          *)
THEOREM DataReadsOwnWrites == Spec => []ReadsOwnWrites
<1>1. DataInv => ReadsOwnWrites
  BY DEF DataInv, Brought, Sole, ReadsOwnWrites
<1> QED BY <1>1, DataInvariant, PTL

(* So does every other page after a load that had none beside it.          *)
THEOREM DataAloneSettles == Spec => []AloneSettles
<1>1. DataInv => AloneSettles
  BY DEF DataInv, Brought, Sole, AloneSettles
<1> QED BY <1>1, DataInvariant, PTL
=============================================================================
