------------------------------ MODULE DeviceLogin ------------------------------
(***************************************************************************)
(* Connecting a GitHub account: the page's chain of timers and polls       *)
(* (GitHubPage, web/assets/app.js), the panel's table of device flows and  *)
(* tokens (internal/server/github_auth.go), and GitHub, where the user     *)
(* allows or refuses the flow.                                             *)
(*                                                                         *)
(* Both tables live in memory under githubMu, but a poll asks GitHub       *)
(* between two sections of the mutex and stores the token for the session  *)
(* its request was authenticated with.  The page keeps one timer id and    *)
(* one shown flow; a poll in flight belongs to neither.                    *)
(***************************************************************************)
EXTENDS Naturals, FiniteSets

CONSTANTS
    Tries       \* bound: the logins and the device flows of a behaviour, together

ASSUME DeviceAssumption == Tries \in Nat \ {0}

(* Numbered in the order in which they are begun.                          *)
Sessions == 1..Tries
Flows == 1..Tries - 1
NoSession == 0
NoFlow == 0

VARIABLES
    session,    \* the session the browser's cookie names, as the panel knows it
    used,       \* how many sessions there have been
    flow,       \* the flows: chain in the page, request in the panel, grant at GitHub
    tokens,     \* the sessions with a token (githubTokens)
    pat,        \* a personal token being checked with GitHub: the request's session
    card,       \* the flow the page shows
    ref,        \* pollRef: the flow whose timer the page can clear
    mounted,    \* the GitHub page is open
    working,    \* its buttons are busy
    leaving,    \* a logout has cleared the tables and not yet ended the session
    consent,    \* history: sessions in which the user allowed a flow or gave a token
    out,        \* history: sessions that were logged out
    raced       \* history: those a connecting request was in progress for
vars == <<session, used, flow, tokens, pat, card, ref, mounted, working, leaving, consent, out, raced>>
page == <<card, ref, mounted, working>>
history == <<consent, out, raced>>
-----------------------------------------------------------------------------
(* chain: none, start (request under way), creating (GitHub is asked for a *)
(* device code), timer, sent, asking (GitHub is asked for the token),      *)
(* granted (GitHub is asked whose it is), replied, done.                   *)
NewFlow == [chain |-> "none", reply |-> "none", sess |-> NoSession, owner |-> NoSession,
            listed |-> FALSE, grant |-> "waiting", here |-> FALSE]

(* A chain that has ended keeps what is still in the panel's table.        *)
Ended(r) == [NewFlow EXCEPT !.chain = "done", !.listed = r.listed,
                            !.owner = IF r.listed THEN r.owner ELSE NoSession]

At(f, c) == flow[f].chain = c
Started == {f \in Flows : ~At(f, "none")}
Replied(f, r) == [flow EXCEPT ![f].chain = "replied", ![f].reply = r, ![f].sess = NoSession]
ListedFor(s) == {f \in Flows : flow[f].listed /\ flow[f].owner = s}
Unlisted(fl, S) ==
    [f \in Flows |-> IF f \notin S THEN fl[f]
                     ELSE IF fl[f].chain = "done" THEN Ended([fl[f] EXCEPT !.listed = FALSE])
                     ELSE [fl[f] EXCEPT !.listed = FALSE]]
Connecting(s) == pat = s \/ \E f \in Flows : flow[f].chain \in {"asking", "granted"} /\ flow[f].sess = s

(* window.clearTimeout(pollRef.current)                                    *)
TimerCleared(fl) ==
    [f \in Flows |-> IF f = ref /\ fl[f].chain = "timer" THEN Ended(fl[f]) ELSE fl[f]]

(* The page goes away; requests under way and timers it lost stay.         *)
Unmounted(fl) == [f \in Flows |-> [TimerCleared(fl)[f] EXCEPT !.here = FALSE]]
(* Mutant: the card outlives the page.                                     *)
LeavePageKeepsCard == mounted' = FALSE /\ ref' = NoFlow /\ working' = FALSE /\ UNCHANGED card

LeavePage == mounted' = FALSE /\ card' = NoFlow /\ ref' = NoFlow /\ working' = FALSE
(* githubTokens[session.ID] = credential                                   *)
Connect(s) ==
    /\ tokens' = tokens \cup {s}
    /\ raced' = IF leaving /\ s = session THEN raced \cup {s} ELSE raced
-----------------------------------------------------------------------------
OpenPage ==
    /\ ~mounted /\ session # NoSession /\ ~leaving
    /\ mounted' = TRUE
    /\ UNCHANGED <<session, used, flow, tokens, pat, card, ref, working, leaving, history>>

ClosePage ==
    /\ mounted /\ LeavePage
    /\ flow' = Unmounted(flow)
    /\ UNCHANGED <<session, used, tokens, pat, leaving, history>>

startDevice(f) ==
    /\ mounted /\ card = NoFlow /\ ~working
    /\ Started = 1 .. f - 1 /\ used + f <= Tries
    /\ flow' = [flow EXCEPT ![f].chain = "start", ![f].here = TRUE]
    /\ working' = TRUE
    /\ UNCHANGED <<session, used, tokens, pat, card, ref, mounted, leaving, history>>

(* githubDeviceStart, to its call of GitHub; no session is a 401.          *)
githubDeviceStart(f) ==
    /\ At(f, "start")
    /\ flow' = IF session = NoSession THEN Replied(f, "unauthorized")
               ELSE [flow EXCEPT ![f].chain = "creating", ![f].sess = session]
    /\ UNCHANGED <<session, used, tokens, pat, page, leaving, history>>

(* Mutant: the session's earlier flow stays.                               *)
FlowAdded(f) ==
    /\ At(f, "creating")
    /\ flow' = [Replied(f, "started") EXCEPT ![f].listed = TRUE, ![f].owner = flow[f].sess]
    /\ UNCHANGED <<session, used, tokens, pat, page, leaving, history>>

(* ... and from there: a new flow replaces the session's earlier ones.     *)
FlowCreated(f) ==
    /\ At(f, "creating")
    /\ \/ flow' = [Unlisted(Replied(f, "started"), ListedFor(flow[f].sess))
                      EXCEPT ![f].listed = TRUE, ![f].owner = flow[f].sess]
       \/ flow' = Replied(f, "error")
    /\ UNCHANGED <<session, used, tokens, pat, page, leaving, history>>

(* The answer of the start: the card and the first timer.                  *)
DeviceStarted(f) ==
    /\ At(f, "replied") /\ flow[f].reply = "started"
    /\ flow' = [flow EXCEPT ![f].chain = "timer", ![f].reply = "none"]
    /\ card' = IF flow[f].here THEN f ELSE card
    /\ ref' = IF flow[f].here THEN f ELSE ref
    /\ working' = (working /\ ~flow[f].here)
    /\ UNCHANGED <<session, used, tokens, pat, mounted, leaving, history>>
-----------------------------------------------------------------------------
(* The user decides on GitHub's page, or the device code expires, while    *)
(* that can still matter to the panel.                                     *)
Decide(f) ==
    /\ flow[f].owner # NoSession /\ flow[f].grant = "waiting"
    /\ flow[f].listed \/ At(f, "asking")
    /\ \/ /\ flow' = [flow EXCEPT ![f].grant = "allowed"]
          /\ consent' = consent \cup {flow[f].owner}
       \/ flow' = [flow EXCEPT ![f].grant = "refused"] /\ UNCHANGED consent
    /\ UNCHANGED <<session, used, tokens, pat, page, leaving, out, raced>>

pollDevice(f) ==
    /\ At(f, "timer")
    /\ flow' = [flow EXCEPT ![f].chain = "sent"]
    /\ UNCHANGED <<session, used, tokens, pat, page, leaving, history>>

(* Mutant: any session may poll a flow.                                    *)
PollOfAny(f) ==
    /\ At(f, "sent")
    /\ flow' = IF session = NoSession THEN Replied(f, "unauthorized")
               ELSE IF ~flow[f].listed THEN Replied(f, "error")
               ELSE [flow EXCEPT ![f].chain = "asking", ![f].sess = session]
    /\ UNCHANGED <<session, used, tokens, pat, page, leaving, history>>

(* githubDevicePoll, its first section of githubMu.                        *)
githubDevicePoll(f) ==
    /\ At(f, "sent")
    /\ flow' = IF session = NoSession THEN Replied(f, "unauthorized")
               ELSE IF ~flow[f].listed \/ flow[f].owner # session THEN Replied(f, "error")
               ELSE [flow EXCEPT ![f].chain = "asking", ![f].sess = session]
    /\ UNCHANGED <<session, used, tokens, pat, page, leaving, history>>

(* A poll before NextPoll is answered without asking GitHub.               *)
PollTooEarly(f) ==
    /\ At(f, "sent") /\ session # NoSession
    /\ flow[f].listed /\ flow[f].owner = session /\ flow[f].grant = "waiting"
    /\ flow' = Replied(f, "pending")
    /\ UNCHANGED <<session, used, tokens, pat, page, leaving, history>>

(* PollDeviceFlow, outside the mutex, and what follows from its answer.    *)
GitHubAsked(f) ==
    /\ At(f, "asking")
    /\ \/ flow[f].grant = "waiting" /\ flow' = Replied(f, "pending")
       \/ flow[f].grant = "refused" /\ flow' = [Replied(f, "error") EXCEPT ![f].listed = FALSE]
       \/ flow[f].grant = "allowed" /\ flow' = [flow EXCEPT ![f].chain = "granted"]
       \/ flow' = Replied(f, "error")
    /\ UNCHANGED <<session, used, tokens, pat, page, leaving, history>>

(* The second section: the token is stored for the request's session.      *)
TokenStored(f) ==
    /\ At(f, "granted")
    /\ \/ /\ Connect(flow[f].sess)
          /\ flow' = [Replied(f, "authorized") EXCEPT ![f].listed = FALSE]
       \/ flow' = Replied(f, "error") /\ UNCHANGED <<tokens, raced>>
    /\ UNCHANGED <<session, used, pat, page, leaving, consent, out>>

(* Mutant: an error is taken for a poll to repeat.                         *)
PollAgain(f) ==
    /\ At(f, "replied") /\ flow[f].reply \in {"pending", "error"}
    /\ flow' = [flow EXCEPT ![f].chain = "timer", ![f].reply = "none"]
    /\ ref' = IF flow[f].here THEN f ELSE ref
    /\ UNCHANGED <<session, used, tokens, pat, card, mounted, working, leaving, history>>

(* The page waits for the next interval, with its id in pollRef.           *)
PollPending(f) ==
    /\ At(f, "replied") /\ flow[f].reply = "pending"
    /\ flow' = [flow EXCEPT ![f].chain = "timer", ![f].reply = "none"]
    /\ ref' = IF flow[f].here THEN f ELSE ref
    /\ UNCHANGED <<session, used, tokens, pat, card, mounted, working, leaving, history>>

(* The chain ends: the card is taken away, whichever flow it shows.  A     *)
(* start that failed never had one, and leaves another's alone.            *)
PollEnded(f) ==
    /\ At(f, "replied") /\ flow[f].reply \in {"authorized", "error"}
    /\ flow' = [flow EXCEPT ![f] = Ended(@)]
    /\ card' = IF flow[f].here /\ flow[f].owner # NoSession THEN NoFlow ELSE card
    /\ working' = (working /\ ~(flow[f].here /\ flow[f].owner = NoSession))
    /\ UNCHANGED <<session, used, tokens, pat, ref, mounted, leaving, history>>

(* A 401 ends the browser's login (unauthorizedHandler, resetAuth).        *)
SignedOut(f) ==
    /\ At(f, "replied") /\ flow[f].reply = "unauthorized"
    /\ flow' = [Unmounted(flow) EXCEPT ![f] = Ended(@)]
    /\ LeavePage
    /\ UNCHANGED <<session, used, tokens, pat, leaving, history>>

(* The card's cancel button clears the timer, has the session's flow       *)
(* removed and takes the card away, request and answer in one step.  The   *)
(* card goes too when the request fails or the flow is another session's:  *)
(* the flow then stays in the panel's table.  A poll in flight is not      *)
(* called back.                                                            *)
Cancel ==
    /\ card # NoFlow
    /\ \/ session = NoSession /\ flow' = Unmounted(flow) /\ LeavePage
       \/ /\ session # NoSession /\ flow[card].owner = session
          /\ flow' = Unlisted(TimerCleared(flow), {card})
          /\ card' = NoFlow /\ UNCHANGED <<ref, mounted, working>>
       \/ /\ flow' = TimerCleared(flow)
          /\ card' = NoFlow /\ UNCHANGED <<ref, mounted, working>>
    /\ UNCHANGED <<session, used, tokens, pat, leaving, history>>
-----------------------------------------------------------------------------
(* githubTokenConnect: the token typed in is checked with GitHub, then     *)
(* stored, and the session's flows are given up.                           *)
GiveToken ==
    /\ mounted /\ card = NoFlow /\ session # NoSession /\ pat = NoSession
    /\ pat' = session /\ consent' = consent \cup {session}
    /\ UNCHANGED <<session, used, flow, tokens, page, leaving, out, raced>>

githubTokenConnect ==
    /\ pat # NoSession /\ pat' = NoSession
    /\ \/ Connect(pat) /\ flow' = Unlisted(flow, ListedFor(pat))
       \/ UNCHANGED <<tokens, raced, flow>>
    /\ UNCHANGED <<session, used, page, leaving, consent, out>>

(* Mutant: only the flows are given up.                                    *)
ClearFlows(s) == flow' = Unlisted(flow, ListedFor(s)) /\ UNCHANGED tokens

clearGitHubSession(s) == tokens' = tokens \ {s} /\ flow' = Unlisted(flow, ListedFor(s))

githubDisconnect ==
    /\ mounted /\ session \in tokens /\ ~leaving
    /\ clearGitHubSession(session)
    /\ UNCHANGED <<session, used, pat, page, leaving, history>>

(* logout clears the tables and then deletes the session; its answer       *)
(* closes the pages.  The handlers it meets in progress are remembered.    *)
logout ==
    /\ session # NoSession /\ ~leaving
    /\ clearGitHubSession(session)
    /\ leaving' = TRUE
    /\ raced' = IF Connecting(session) THEN raced \cup {session} ELSE raced
    /\ UNCHANGED <<session, used, pat, page, consent, out>>

LoggedOut ==
    /\ leaving /\ leaving' = FALSE
    /\ out' = out \cup {session} /\ session' = NoSession
    /\ raced' = IF Connecting(session) THEN raced \cup {session} ELSE raced
    /\ flow' = Unmounted(flow) /\ LeavePage
    /\ UNCHANGED <<used, tokens, pat, consent>>

(* The session expires or another one revokes it: nothing is cleared.      *)
SessionEnds ==
    /\ session # NoSession /\ ~leaving
    /\ session' = NoSession
    /\ UNCHANGED <<used, flow, tokens, pat, page, leaving, history>>

login ==
    /\ session = NoSession /\ ~mounted
    /\ used + Cardinality(Started) < Tries
    /\ used' = used + 1 /\ session' = used + 1
    /\ UNCHANGED <<flow, tokens, pat, page, leaving, history>>

(* The panel restarts: tables and sessions are gone, requests fail, and    *)
(* nothing of the earlier sessions can come back.                          *)
Restart ==
    /\ session' = NoSession /\ tokens' = {} /\ pat' = NoSession /\ leaving' = FALSE
    /\ consent' = {} /\ out' = {} /\ raced' = {}
    /\ flow' = [f \in Flows |->
          IF ~At(f, "done") /\ ~At(f, "timer") /\ ~At(f, "none") /\ ~At(f, "replied")
          THEN [Replied(f, "error")[f] EXCEPT !.listed = FALSE]
          ELSE Unlisted(flow, Flows)[f]]
    /\ UNCHANGED <<used, page>>
-----------------------------------------------------------------------------
Init ==
    /\ session = 1 /\ used = 1
    /\ flow = [f \in Flows |-> NewFlow]
    /\ tokens = {} /\ pat = NoSession
    /\ card = NoFlow /\ ref = NoFlow /\ mounted = FALSE /\ working = FALSE /\ leaving = FALSE
    /\ consent = {} /\ out = {} /\ raced = {}

(* What the page and the panel do for a flow without the user.             *)
Chain(f) ==
    \/ githubDeviceStart(f) \/ FlowCreated(f) \/ DeviceStarted(f) \/ pollDevice(f)
    \/ githubDevicePoll(f) \/ PollTooEarly(f) \/ GitHubAsked(f) \/ TokenStored(f)
    \/ PollPending(f) \/ PollEnded(f) \/ SignedOut(f)

Next ==
    \/ \E f \in Flows : startDevice(f) \/ Chain(f) \/ Decide(f)
    \/ OpenPage \/ ClosePage \/ Cancel \/ GiveToken \/ githubTokenConnect
    \/ githubDisconnect \/ logout \/ LoggedOut \/ SessionEnds \/ login \/ Restart

(* Timers fire, requests are answered, and a device code that the user     *)
(* does not decide on expires.  The user owes nothing else.                *)
Fairness == \A f \in Flows : WF_vars(Chain(f)) /\ WF_vars(Decide(f))

Spec == Init /\ [][Next]_vars /\ Fairness
-----------------------------------------------------------------------------
Chains == {"none", "start", "creating", "timer", "sent", "asking", "granted", "replied", "done"}
Replies == {"none", "started", "pending", "authorized", "error", "unauthorized"}
Grants == {"waiting", "allowed", "refused"}
FlowRecords(n) == [chain : Chains, reply : Replies, sess : 0..n, owner : 0..n,
                   listed : BOOLEAN, grant : Grants, here : BOOLEAN]

(* The tables name sessions there have been, and a flow has an owner when  *)
(* it is listed or known to the page.                                      *)
TypeOK ==
    /\ used \in Sessions /\ session \in {NoSession, used}
    /\ flow \in [Flows -> FlowRecords(used)]
    /\ \A f \in Flows : flow[f].listed \/ f = card => flow[f].owner # NoSession
    /\ tokens \subseteq 1..used /\ pat \in 0..used
    /\ card \in Flows \cup {NoFlow} /\ ref \in Flows \cup {NoFlow}
    /\ ~mounted => card = NoFlow /\ ref = NoFlow /\ ~working
    /\ mounted \in BOOLEAN /\ working \in BOOLEAN
    /\ leaving \in BOOLEAN /\ (leaving => session # NoSession)
    /\ consent \subseteq 1..used /\ out \subseteq 1..used /\ raced \subseteq 1..used

(* A session holds a token only if the user allowed a flow started in that *)
(* session, or typed a token into it: a chain left over from an earlier    *)
(* login, polling under the browser's new cookie, connects nobody.         *)
TokenByConsent == tokens \subseteq consent

(* The panel's table lists one device flow of a session at most, through   *)
(* starts that overlap and starts under changing logins: a later poll of   *)
(* an earlier code is refused.  (One already asking GitHub when its flow   *)
(* was cancelled or replaced may still store its token.)                   *)
OneFlowPerSession == \A s \in Sessions : Cardinality(ListedFor(s)) <= 1

(* After a logout the session's token is gone, unless the logout met a     *)
(* request that was connecting the session at that moment: no other way    *)
(* leads to a token that outlives its login.                               *)
LogoutClears == tokens \cap out \subseteq raced

(* A chain of polls ends: with the user's decision, the expiry of the      *)
(* code, the removal of the flow or the end of the session.  No timer      *)
(* keeps polling after the page is gone.                                   *)
ChainEnds == \A f \in Flows : ~At(f, "none") ~> At(f, "done")
=============================================================================
