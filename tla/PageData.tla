------------------------------- MODULE PageData -------------------------------
(***************************************************************************)
(* How a page of LukePanel's front end (web/assets/app.js) loads what it   *)
(* shows.  A page has one loader, started when the page mounts, by the     *)
(* refresh and retry buttons, by a timer, by a change of the page's        *)
(* selection, and after each write the page makes.  Loads of one page      *)
(* overlap, and the server answers them in any order.                      *)
(*                                                                         *)
(*   style    "latest"  useResource: a generation counter lets only the    *)
(*                      load started last change the page                  *)
(*            "any"     the page's own reload: every answer is shown       *)
(*   keyed    "none"    no selection                                       *)
(*            "search"  a search text or filters; a change of it reloads   *)
(*            "visit"   the directory; it changes when its listing arrives *)
(*            "user"    the SSH account whose keys are shown               *)
(*            "pick"    the GitHub repository whose summary is shown: the  *)
(*                      owner and repository in its inputs, either of      *)
(*                      which may be blank                                 *)
(*   parts    how many rounds of requests a load makes, one after another, *)
(*            not counting rounds whose refusal the loader catches itself  *)
(*   polled   a timer reloads the page                                     *)
(*   writes   the page has operations that end with a reload               *)
(***************************************************************************)
EXTENDS Naturals, FiniteSets

CONSTANTS
    Loads,      \* bound: loads of the page in progress at one time
    Keys,       \* the selections of a page
    Home,       \* the one it starts with: no search text, "/", the first account
    NoKey,      \* nothing selected, nothing shown
    MaxVer,     \* bound: changes made on the server
    Open        \* the loaders of the instance

Loader(page, style, keyed, parts, polled, writes) ==
    [page |-> page, style |-> style, keyed |-> keyed, parts |-> parts,
     polled |-> polled, writes |-> writes]

DashboardLoader == Loader("dashboard", "latest", "none", 1, FALSE, FALSE)
ServicesLoader  == Loader("services", "latest", "search", 1, FALSE, TRUE)
ProcessesLoader == Loader("processes", "latest", "none", 1, FALSE, TRUE)
NetworkLoader   == Loader("network", "latest", "none", 1, FALSE, FALSE)
StorageLoader   == Loader("storage", "latest", "none", 1, FALSE, FALSE)
TasksLoader     == Loader("tasks", "any", "none", 1, FALSE, TRUE)
UpdatesLoader   == Loader("updates", "any", "none", 1, FALSE, TRUE)
HostLoader      == Loader("host", "any", "none", 1, FALSE, TRUE)
SnapshotsLoader == Loader("snapshots", "any", "none", 1, FALSE, TRUE)
DockerLoader    == Loader("docker", "any", "none", 2, TRUE, TRUE)
FilesLoader     == Loader("files", "any", "visit", 1, FALSE, TRUE)
GitHubLoader    == Loader("github", "any", "pick", 2, FALSE, TRUE)
SSHLoader       == Loader("ssh", "any", "user", 2, FALSE, TRUE)
AuditLoader     == Loader("audit", "any", "search", 1, TRUE, FALSE)
SecurityLoader  == Loader("security", "any", "none", 1, FALSE, TRUE)
SettingsLoader  == Loader("settings", "any", "none", 1, FALSE, TRUE)

Loaders == {DashboardLoader, ServicesLoader, ProcessesLoader, NetworkLoader, StorageLoader,
            TasksLoader, UpdatesLoader, HostLoader, SnapshotsLoader, DockerLoader, FilesLoader,
            GitHubLoader, SSHLoader, AuditLoader, SecurityLoader, SettingsLoader}

ASSUME PageAssumption ==
    /\ Home \in Keys /\ NoKey \notin Keys
    /\ MaxVer \in Nat /\ Open \subseteq Loaders

VARIABLES
    page,       \* the page's loader
    key,        \* the selection
    load,       \* the loads in progress
    latest,     \* the load that holds the newest generation
    shown,      \* what the page shows: of which selection, of which server state
    loading,    \* the page's loading flag
    failed,     \* the page shows an error in place of its data
    write,      \* the page's operation in progress and the selection it was started under
    ver,        \* the state of the server
    written,    \* the state the page's last successful operation left
    overlap,    \* history: loads have overlapped since one last started alone
    astray      \* history: the newest load was not for the selection or was a refused
                \* pick, or the GitHub page's selection changed with no load
vars == <<page, key, load, latest, shown, loading, failed, write, ver, written, overlap, astray>>
-----------------------------------------------------------------------------
Idle == [st |-> "idle", part |-> 0, key |-> NoKey, ver |-> 0, pick |-> FALSE]
NoWrite == [st |-> "none", key |-> NoKey]
Nothing == [key |-> NoKey, ver |-> 0]

Busy == {l \in Loads : load[l].st # "idle"}
Guarded == page.style = "latest"
Current(l) == Guarded => latest = l

(* Mutant: the SSH page asks for the keys of no account.                   *)
ResolvedNot(k) == k

(* No selection on the SSH page means its first account.                   *)
Resolved(k) == IF k = NoKey THEN Home ELSE k

(* What a load of selection k asks for.                                    *)
Target(k) == IF page.keyed = "user" THEN Resolved(k) ELSE k

(* What a load asks for when it is not told: the selection, and on the     *)
(* file page the directory now listed.                                     *)
Here == IF page.keyed = "visit" THEN Resolved(shown.key) ELSE key

(* A load of selection k starts.  A silent one leaves the loading flag; a  *)
(* picked one, of a repository's summary only, leaves the error as well.   *)
Begin(l, k, silent, pick) ==
    /\ load[l].st = "idle"
    /\ load' = [load EXCEPT ![l] = [st |-> "asked", part |-> IF pick THEN page.parts ELSE 1,
                                    key |-> Target(k), ver |-> 0, pick |-> pick]]
    /\ latest' = l
    /\ loading' = (loading \/ ~(silent \/ pick))
    /\ failed' = (failed /\ pick)
    /\ overlap' = (Busy # {})
    /\ astray' = (page.keyed \in {"search", "pick"} /\ (k # key' \/ k = NoKey))

(* The user types a search, opens a directory, or chooses an account or    *)
(* one of the repositories listed (which an error of the page hides).      *)
Select(l) ==
    \E k \in Keys :
        /\ page.keyed # "none" /\ k # key
        /\ page.keyed = "pick" => ~failed
        /\ key' = k
        /\ Begin(l, k, FALSE, page.keyed = "pick")
        /\ UNCHANGED <<page, shown, write, ver, written>>

(* The form of the GitHub page reads the repository in its inputs, both    *)
(* filled in.                                                              *)
Submit(l) ==
    /\ page.keyed = "pick" /\ key # NoKey /\ ~failed
    /\ key' = key
    /\ Begin(l, key, FALSE, TRUE)
    /\ UNCHANGED <<page, shown, write, ver, written>>

(* The owner or the repository is typed, or a blank owner becomes the      *)
(* login GitHub reported: nothing is loaded, and the summary stays.        *)
SetRepository ==
    /\ page.keyed = "pick" /\ (~failed \/ key = NoKey)
    /\ key' \in (Keys \cup {NoKey}) \ {key}
    /\ astray' = TRUE
    /\ UNCHANGED <<page, load, latest, shown, loading, failed, write, ver, written, overlap>>

(* The empty choice of the repository list takes away the selection and    *)
(* the summary, a disconnection the summary only.  Neither loads.          *)
Emptied ==
    /\ page.keyed = "pick"
    /\ \/ ~failed /\ key' = NoKey
       \/ key' = key
    /\ shown' = Nothing /\ astray' = TRUE
    /\ UNCHANGED <<page, load, latest, loading, failed, write, ver, written, overlap>>

(* The refresh button (disabled while loading) and the retry button of the *)
(* error state.                                                            *)
Refresh(l) ==
    /\ ~loading \/ failed
    /\ key' = Here
    /\ Begin(l, Here, FALSE, FALSE)
    /\ UNCHANGED <<page, shown, write, ver, written>>

(* The timer of the Docker page and of the system log.                     *)
Poll(l) ==
    /\ page.polled
    /\ key' = key
    /\ Begin(l, key, FALSE, FALSE)
    /\ UNCHANGED <<page, shown, write, ver, written>>
-----------------------------------------------------------------------------
(* An operation of the page.  Its handler belongs to the render in which   *)
(* it was started, and reloads with the selection of that render; on the   *)
(* SSH page creating an account reloads with its name, deleting one with   *)
(* no selection.                                                           *)
Write ==
    /\ page.writes /\ write = NoWrite
    /\ \E k \in {Here} \cup (IF page.keyed = "user" THEN Keys \cup {NoKey} ELSE {}) :
           write' = [st |-> "asked", key |-> k]
    /\ UNCHANGED <<page, key, load, latest, shown, loading, failed, ver, written, overlap, astray>>

ServeWrite ==
    /\ write.st = "asked"
    /\ \/ ver < MaxVer /\ ver' = ver + 1 /\ write' = [write EXCEPT !.st = "done"]
       \/ write' = NoWrite /\ UNCHANGED ver
    /\ UNCHANGED <<page, key, load, latest, shown, loading, failed, written, overlap, astray>>

(* The GitHub page's operation was started with a blank owner or           *)
(* repository: there is no summary to load.                                *)
Unnamed == page.keyed = "pick" /\ write.key = NoKey

(* Mutant: the page does not reload after an operation.                    *)
WrittenUnloaded(l) ==
    /\ write.st = "done" /\ ~Unnamed
    /\ write' = NoWrite /\ written' = ver
    /\ UNCHANGED <<page, key, load, latest, shown, loading, failed, ver, overlap, astray>>

(* The operation succeeded and the page reloads: silently where it uses    *)
(* useResource, and on the GitHub page only the summary.                   *)
Written(l) ==
    /\ write.st = "done" /\ ~Unnamed
    /\ write' = NoWrite /\ written' = ver
    /\ key' = IF page.keyed = "visit" THEN write.key ELSE key
    /\ Begin(l, write.key, Guarded, page.keyed = "pick")
    /\ UNCHANGED <<page, shown, ver>>

(* The operation succeeded, and the page goes on showing what it showed.   *)
WrittenUnnamed ==
    /\ write.st = "done" /\ Unnamed
    /\ write' = NoWrite /\ written' = ver /\ astray' = TRUE
    /\ UNCHANGED <<page, key, load, latest, shown, loading, failed, ver, overlap>>

(* Somebody else changes what the page shows.                              *)
ServerChanges ==
    /\ ver < MaxVer /\ ver' = ver + 1
    /\ UNCHANGED <<page, key, load, latest, shown, loading, failed, write, written, overlap, astray>>

(* The server answers or refuses a round of requests.  What a load brings  *)
(* is as old as its first round.                                           *)
Serve(l) ==
    /\ load[l].st = "asked"
    /\ \/ load' = [load EXCEPT ![l].st = "refused"]
       \/ load' = [load EXCEPT ![l].st = "served",
                               ![l].ver = IF load[l].part = 1 \/ load[l].pick THEN ver ELSE @]
    /\ UNCHANGED <<page, key, latest, shown, loading, failed, write, ver, written, overlap, astray>>
-----------------------------------------------------------------------------
(* Without a repository the GitHub page asks for the account only.         *)
Rounds(l) == IF load[l].key = NoKey THEN 1 ELSE page.parts

(* Mutant: the SSH page does not select the account it loads.              *)
NextPartUnselected(l) ==
    /\ load[l].st = "served" /\ load[l].part < Rounds(l)
    /\ load' = [load EXCEPT ![l].st = "asked", ![l].part = @ + 1]
    /\ UNCHANGED <<page, key, latest, shown, loading, failed, write, ver, written, overlap, astray>>

(* An answer arrives and the loader goes on; the SSH page first selects    *)
(* the account whose keys it will show.                                    *)
NextPart(l) ==
    /\ load[l].st = "served" /\ load[l].part < Rounds(l)
    /\ load' = [load EXCEPT ![l].st = "asked", ![l].part = @ + 1]
    /\ key' = IF page.keyed = "user" THEN load[l].key ELSE key
    /\ UNCHANGED <<page, latest, shown, loading, failed, write, ver, written, overlap, astray>>

(* Mutant: useResource without its generation counter.                     *)
LoadedAny(l) ==
    /\ load[l].st = "served" /\ load[l].part = Rounds(l)
    /\ shown' = IF load[l].key # NoKey THEN [key |-> load[l].key, ver |-> load[l].ver] ELSE shown
    /\ loading' = (loading /\ latest # l)
    /\ load' = [load EXCEPT ![l] = Idle]
    /\ UNCHANGED <<page, key, latest, failed, write, ver, written, overlap, astray>>

(* The last answer arrives.  It is shown, unless a newer load superseded   *)
(* it on a page on useResource, or there was no repository to ask for.     *)
Loaded(l) ==
    /\ load[l].st = "served" /\ load[l].part = Rounds(l)
    /\ shown' = IF Current(l) /\ load[l].key # NoKey
                THEN [key |-> load[l].key, ver |-> load[l].ver] ELSE shown
    /\ loading' = (loading /\ ~(Current(l) /\ ~load[l].pick))
    /\ load' = [load EXCEPT ![l] = Idle]
    /\ UNCHANGED <<page, key, latest, failed, write, ver, written, overlap, astray>>

(* Mutant: the loading flag is cleared only on success.                    *)
RefusedSpins(l) ==
    /\ load[l].st = "refused"
    /\ failed' = (failed \/ (Current(l) /\ ~load[l].pick))
    /\ astray' = (astray \/ load[l].pick)
    /\ shown' = IF page.keyed = "user" THEN Nothing ELSE shown
    /\ load' = [load EXCEPT ![l] = Idle]
    /\ UNCHANGED <<page, key, latest, loading, write, ver, written, overlap>>

(* catch and finally.  The SSH page also empties the keys; a refused       *)
(* summary is only notified.                                               *)
Refused(l) ==
    /\ load[l].st = "refused"
    /\ failed' = (failed \/ (Current(l) /\ ~load[l].pick))
    /\ astray' = (astray \/ load[l].pick)
    /\ shown' = IF page.keyed = "user" THEN Nothing ELSE shown
    /\ loading' = (loading /\ ~(Current(l) /\ ~load[l].pick))
    /\ load' = [load EXCEPT ![l] = Idle]
    /\ UNCHANGED <<page, key, latest, write, ver, written, overlap>>
-----------------------------------------------------------------------------
(* A repository is selected from the start if the browser remembers one.   *)
Remembered ==
    CASE page.keyed = "user" -> {NoKey}
      [] page.keyed = "pick" -> {Home, NoKey}
      [] OTHER -> {Home}

Init ==
    /\ page \in Open
    /\ latest \in Loads
    /\ key \in Remembered
    /\ load = [l \in Loads |->
                  IF l = latest THEN [Idle EXCEPT !.st = "asked", !.part = 1, !.key = Target(key)]
                  ELSE Idle]
    /\ shown = Nothing /\ loading = TRUE /\ failed = FALSE
    /\ write = NoWrite /\ ver = 0 /\ written = 0
    /\ overlap = FALSE /\ astray = (page.keyed = "pick" /\ key = NoKey)

Starts(l) == Select(l) \/ Submit(l) \/ Refresh(l) \/ Poll(l) \/ Written(l)
Next ==
    \/ SetRepository \/ Emptied
    \/ Write \/ ServeWrite \/ WrittenUnnamed \/ ServerChanges
    \/ \E l \in Loads : Starts(l) \/ Serve(l) \/ NextPart(l) \/ Loaded(l) \/ Refused(l)

(* A browser request settles, with an answer or with an error, and the     *)
(* handler that awaits it runs.  Nothing is owed by the user, by timers or *)
(* by writes.                                                              *)
Fairness ==
    \A l \in Loads : WF_vars(Serve(l)) /\ WF_vars(NextPart(l) \/ Loaded(l) \/ Refused(l))

Spec == Init /\ [][Next]_vars /\ Fairness
-----------------------------------------------------------------------------
(* The states the page can be in: the loads in progress ask for a          *)
(* selection, but on a GitHub page without one, and only a page with a     *)
(* selection shows another than Home.                                      *)
TypeOK ==
    /\ page \in Open
    /\ key \in Keys \cup {NoKey} /\ (page.keyed = "none" => key = Home)
    /\ load \in [Loads -> [st : {"idle", "asked", "served", "refused"}, part : 0..page.parts,
                           key : Keys \cup {NoKey}, ver : 0..MaxVer, pick : BOOLEAN]]
    /\ \A l \in Busy : (load[l].key \in Keys \/ page.keyed = "pick") /\ load[l].part > 0
    /\ latest \in Loads
    /\ shown \in [key : Keys \cup {NoKey}, ver : 0..MaxVer]
    /\ loading \in BOOLEAN /\ failed \in BOOLEAN
    /\ write \in [st : {"none", "asked", "done"}, key : Keys \cup {NoKey}]
    /\ ver \in 0..MaxVer /\ written \in 0..ver
    /\ overlap \in BOOLEAN /\ astray \in BOOLEAN

(* The newest load has ended well.                                         *)
Settled == load[latest].st = "idle" /\ ~failed

(* A page on useResource shows the rows of the search in its search box    *)
(* once its newest load has ended, however the answers were reordered.     *)
(* The one exception is a reload after an operation that was started under *)
(* an older search: it holds the newest generation.                        *)
GuardedFresh == Guarded /\ Settled /\ ~astray => shown.key = key

(* After an operation of its own has succeeded, a page on useResource      *)
(* shows a server state at least as new as the one the operation left,     *)
(* also when an older load is answered later.                              *)
ReadsOwnWrites == Guarded /\ Settled => shown.ver >= written

(* Every page, guarded or not, shows its selection and its own operation's *)
(* outcome when the load it ran had no other beside it: on the SSH page    *)
(* the keys are those of the account selected, also after the reload of an *)
(* operation that names another account or none, on the file page the      *)
(* listing is that of the directory opened, on the GitHub page the summary *)
(* is that of the repository chosen, submitted or remembered.  Excepted    *)
(* (astray) is the GitHub page while its owner or repository is blank, was *)
(* typed or filled in without being read, or the summary was emptied or    *)
(* refused, and a reload under an older selection: there the page keeps    *)
(* what it showed, next to inputs that name something else.                *)
AloneSettles ==
    Settled /\ Busy = {} /\ ~overlap /\ ~astray /\ write.st # "done"
        => shown.key = Target(key) /\ shown.ver >= written

(* The loading state ends, and the refresh button with it comes back,      *)
(* unless new loads keep being started for ever.                           *)
NewLoad == \E l \in Loads : load[l].st = "idle" /\ load'[l].st # "idle"
SpinnerStops == []<>~loading \/ []<><<NewLoad>>_vars
=============================================================================
