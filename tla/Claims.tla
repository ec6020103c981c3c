------------------------------- MODULE Claims -------------------------------
(* Who sees and who commands an agent's account: the dashboard pages of    *)
(* one browser (MvpAppStateProvider.jsx, DashboardApp.jsx, ClaimForm.jsx)  *)
(* and the handlers they call (ledger/main.py, auth.py, store.py).         *)
(*                                                                         *)
(* Tabs of the browser share its cookies; each holds what its page has     *)
(* been told.  A call carries the cookie of the moment it is made, is      *)
(* handled in one step, and its answer arrives later, or never.            *)
EXTENDS Naturals, FiniteSets

CONSTANTS
    Tab,            \* the browser's tabs
    Person,         \* e-mail addresses people sign in with
    Agent,          \* agents with an account in the ledger
    Owner,          \* the e-mail the agent gave for its account
    First,          \* who has claimed the agent so far
    Legacy,         \* accounts claimed before claims bore a name
    Visits,         \* bound: page loads
    Posts,          \* bound: claims and withdrawals that the pages ask for
    Upsets,         \* bound: changes of a wallet, resets of a claim, lost calls
    None            \* nobody, nothing

ASSUME ClaimsAssumption ==
    /\ Owner \in [Agent -> Person]
    /\ First \in [Agent -> Person \cup {None}]
    /\ Legacy \subseteq Agent
    /\ {Visits, Posts, Upsets} \subseteq Nat
    /\ None \notin Person \cup Agent \cup Tab

VARIABLES
    account,        \* the ledger's accounts: claimed, by whom, current code
    cookie,         \* the browser's signed session: a person or None
    page,           \* what each tab shows
    calls,          \* calls whose answers have not arrived
    granted,        \* history: which agent the ledger has given to whom
    moved,          \* history: withdrawals paid, for whom, and whom the page
                    \* that asked was showing then
    loads, posts, upsets   \* counters for the bounds

vars == <<account, cookie, page, calls, granted, moved, loads, posts, upsets>>

Codes == 0..Upsets

(* What an account answers to: a claim without a name is its owner's.      *)
Claimant(a) ==
    IF account[a].by # None THEN account[a].by ELSE Owner[a]

ClaimedBy(p) == {a \in Agent : account[a].claimed /\ Claimant(a) = p}
Claimable == {a \in Agent : ~account[a].claimed}

NoForm == [status |-> "none", list |-> {}, match |-> None]
EmptyForm == [status |-> "loading", list |-> {}, match |-> None]
NoRoster == [owner |-> None, agents |-> {}, for |-> {}]

(* A page that is being loaded.  "foreign" is history: agents that a claim *)
(* from this page has given to somebody else.                              *)
NewPage ==
    [checked |-> FALSE, user |-> None, agents |-> {}, foreign |-> {}, roster |-> NoRoster,
     missed |-> FALSE, modal |-> FALSE, form |-> NoForm]

(* A call of tab t; each kind fills in what it carries.                    *)
Call(t, kind) ==
    [tab |-> t, kind |-> kind, session |-> None, owner |-> None, for |-> {}, agent |-> None,
     code |-> 0, add |-> FALSE, heard |-> FALSE, done |-> FALSE, ok |-> FALSE, who |-> None,
     agents |-> {}, list |-> {}]

Candidates == Agent \X Codes
Form == [status : {"none", "loading", "ready", "empty", "error"},
         list : SUBSET Candidates, match : Candidates \cup {None}]
Roster == [owner : Person \cup {None}, agents : SUBSET Agent, for : SUBSET Agent]
Page == [checked : BOOLEAN, user : Person \cup {None}, agents : SUBSET Agent,
         foreign : SUBSET Agent, roster : Roster, missed : BOOLEAN, modal : BOOLEAN, form : Form]
Calls ==
    [tab : Tab \cup {None},
     kind : {"session", "portfolio", "candidates", "claim", "withdraw", "logout"},
     session : Person \cup {None}, owner : Person \cup {None}, for : SUBSET Agent,
     agent : Agent \cup {None}, code : Codes, add : BOOLEAN, heard : BOOLEAN,
     done : BOOLEAN, ok : BOOLEAN, who : Person \cup {None}, agents : SUBSET Agent,
     list : SUBSET Candidates]

TypeOK ==
    /\ account \in [Agent -> [claimed : BOOLEAN, by : Person \cup {None}, code : Codes]]
    /\ cookie \in Person \cup {None}
    /\ page \in [Tab -> Page]
    /\ calls \subseteq Calls
    /\ granted \subseteq Agent \X Person
    /\ moved \subseteq [agent : Agent, claimant : Person, shown : Person \cup {None}]
    /\ loads \in 0..Visits
    /\ posts \in 0..Posts
    /\ upsets \in 0..Upsets

-----------------------------------------------------------------------------
(* What a page shows is what React mounts; mounting and unmounting starts  *)
(* and cancels the page's reads.                                           *)

SignedIn(p) == p.checked /\ p.user # None
Surface(p) == SignedIn(p) /\ p.agents # {}
FormShown(p) == SignedIn(p) /\ (p.agents = {} \/ p.modal)

Reads(t, kind) == {c \in calls : c.tab = t /\ c.kind = kind}

(* The portfolio is fetched when the dashboard appears and whenever the    *)
(* list of agents changes; the answer to an earlier fetch is ignored.      *)
Refetch(p, q) == Surface(q) /\ (~Surface(p) \/ p.agents # q.agents)
Relist(p, q) == FormShown(q) /\ (~FormShown(p) \/ p.agents # q.agents)

(* Seeded fault: a new fetch does not cancel the one before.               *)
CancelledOnLeaving(t, p, q) ==
    (IF ~Surface(q) THEN Reads(t, "portfolio") ELSE {})
        \cup (IF ~FormShown(q) THEN Reads(t, "candidates") ELSE {})

Cancelled(t, p, q) ==
    (IF Refetch(p, q) \/ ~Surface(q) THEN Reads(t, "portfolio") ELSE {})
        \cup (IF Relist(p, q) \/ ~FormShown(q) THEN Reads(t, "candidates") ELSE {})

(* Seeded fault: the candidates are fetched only when the form appears.    *)
FetchedOnce(t, p, q) ==
    (IF Refetch(p, q) THEN {[Call(t, "portfolio") EXCEPT !.owner = q.user, !.for = q.agents]}
                      ELSE {})
        \cup (IF Relist(p, q) /\ ~FormShown(p) THEN {Call(t, "candidates")} ELSE {})

Fetched(t, p, q) ==
    (IF Refetch(p, q) THEN {[Call(t, "portfolio") EXCEPT !.owner = q.user, !.for = q.agents]}
                      ELSE {})
        \cup (IF Relist(p, q) THEN {Call(t, "candidates")} ELSE {})

Settle(q, p) ==
    [q EXCEPT
        !.roster = IF Surface(q) THEN @ ELSE NoRoster,
        !.missed = IF Refetch(p, q) THEN FALSE ELSE @,
        !.modal = @ /\ Surface(q),
        !.form = IF ~FormShown(q) THEN NoForm
                 ELSE IF ~FormShown(p) THEN EmptyForm
                 ELSE IF Relist(p, q) THEN [@ EXCEPT !.status = "loading", !.list = {}]
                 ELSE @]

(* A form that is gone does not hear of its claim.                         *)
Unheard(cs, t, q) ==
    IF FormShown(q) THEN cs
    ELSE {IF c.tab = t /\ c.heard THEN [c EXCEPT !.heard = FALSE] ELSE c : c \in cs}

(* Tab t turns from its page to q; "gone" are calls that are over, "new"   *)
(* calls it makes on the way.                                              *)
Show(t, q, gone, new) ==
    /\ page' = [page EXCEPT ![t] = Settle(q, page[t])]
    /\ calls' = Unheard((calls \ gone) \ Cancelled(t, page[t], q), t, q)
                    \cup new \cup Fetched(t, page[t], q)

(* A tab leaves its page: its reads are over, what it asked to be done is  *)
(* handled or not, and nothing hears the answer.                           *)
Left(t) ==
    {c \in calls : c.tab # t}
        \cup {[c EXCEPT !.tab = None, !.heard = FALSE] :
                  c \in {d \in calls : d.tab = t /\ ~d.done
                                         /\ d.kind \in {"claim", "withdraw", "logout"}}}

(* A tab loads the dashboard, which asks for the session first.            *)
Load(t, session) ==
    /\ loads < Visits
    /\ loads' = loads + 1
    /\ calls' = Left(t) \cup {[Call(t, "session") EXCEPT !.session = session]}

Init ==
    /\ account = [a \in Agent |-> [claimed |-> a \in Legacy \/ First[a] # None,
                                   by |-> First[a], code |-> 0]]
    /\ cookie = None
    /\ page = [t \in Tab |-> [NewPage EXCEPT !.checked = TRUE]]
    /\ calls = {}
    /\ granted = {<<a, Claimant(a)>> : a \in {b \in Agent : account[b].claimed}}
    /\ moved = {}
    /\ loads = 0
    /\ posts = 0
    /\ upsets = 0

-----------------------------------------------------------------------------
(* Signing in and out.                                                     *)

Reload(t) ==
    /\ Load(t, cookie)
    /\ page' = [page EXCEPT ![t] = NewPage]
    /\ UNCHANGED <<account, cookie, granted, moved, posts, upsets>>

(* The sign-in screen sends the tab to the provider, which sends it back   *)
(* as p with the state that the browser's state cookie holds; when it does *)
(* not, no session is made.  A denied login ends in a reload.              *)
Login(t, p) ==
    /\ page[t].checked /\ page[t].user = None
    /\ cookie' = p
    /\ Load(t, p)
    /\ page' = [page EXCEPT ![t] = NewPage]
    /\ UNCHANGED <<account, granted, moved, posts, upsets>>

(* The page forgets its user at once; the cookie goes with the answer.     *)
SignedOutPage(p) == [p EXCEPT !.user = None, !.agents = {}, !.foreign = {}]

SignOut(t) ==
    /\ Surface(page[t])
    /\ Show(t, SignedOutPage(page[t]), {}, {Call(t, "logout")})
    /\ UNCHANGED <<account, cookie, granted, moved, loads, posts, upsets>>

-----------------------------------------------------------------------------
(* Claiming an agent.                                                      *)

OpenModal(t) ==
    /\ Surface(page[t]) /\ ~page[t].modal
    /\ Show(t, [page[t] EXCEPT !.modal = TRUE], {}, {})
    /\ UNCHANGED <<account, cookie, granted, moved, loads, posts, upsets>>

CloseModal(t) ==
    /\ page[t].modal
    /\ Show(t, [page[t] EXCEPT !.modal = FALSE], {}, {})
    /\ UNCHANGED <<account, cookie, granted, moved, loads, posts, upsets>>

(* The code is looked up among the candidates that the form was sent.      *)
Validate(t) ==
    /\ FormShown(page[t])
    /\ page[t].form.status = "ready" /\ page[t].form.match = None
    /\ \E m \in page[t].form.list :
          /\ m[1] \notin page[t].agents
          /\ page' = [page EXCEPT ![t].form.match = m]
    /\ UNCHANGED <<account, cookie, calls, granted, moved, loads, posts, upsets>>

(* The confirmed candidate is claimed with the code that was typed.  The   *)
(* button stays: a second click is a second claim.                         *)
Claim(t) ==
    /\ page[t].form.match # None
    /\ posts < Posts
    /\ posts' = posts + 1
    /\ calls' = calls \cup {[Call(t, "claim") EXCEPT !.session = cookie, !.owner = page[t].user,
                                !.agent = page[t].form.match[1], !.code = page[t].form.match[2],
                                !.add = page[t].modal, !.heard = TRUE]}
    /\ UNCHANGED <<account, cookie, page, granted, moved, loads, upsets>>

UseDifferent(t) ==
    /\ page[t].form.match # None
    /\ page' = [page EXCEPT ![t].form.match = None]
    /\ UNCHANGED <<account, cookie, calls, granted, moved, loads, posts, upsets>>

(* With nothing to claim the form offers the sign-in screen, which forgets *)
(* the user but not the session.                                           *)
ReturnToRegistration(t) ==
    /\ page[t].form.status = "empty"
    /\ Show(t, SignedOutPage(page[t]), {}, {})
    /\ UNCHANGED <<account, cookie, granted, moved, loads, posts, upsets>>

(* The Funding view asks for a withdrawal from an agent of the portfolio.  *)
Withdraw(t) ==
    /\ Surface(page[t])
    /\ posts < Posts
    /\ posts' = posts + 1
    /\ \E a \in page[t].roster.agents :
          calls' = calls \cup {[Call(t, "withdraw") EXCEPT !.session = cookie,
                                    !.owner = page[t].user, !.agent = a]}
    /\ UNCHANGED <<account, cookie, page, granted, moved, loads, upsets>>

-----------------------------------------------------------------------------
(* The ledger's handlers.                                                  *)

(* The answer is on its way, if a page waits for it.                       *)
Answer(c, d) ==
    calls' = (calls \ {c}) \cup (IF c.tab = None THEN {} ELSE {[d EXCEPT !.done = TRUE]})

auth_session(c) ==
    /\ c.kind = "session"
    /\ Answer(c, [c EXCEPT !.ok = TRUE, !.who = c.session, !.agents = ClaimedBy(c.session)])
    /\ UNCHANGED <<account, granted, moved>>

ledger_portfolio(c) ==
    /\ c.kind = "portfolio"
    /\ Answer(c, [c EXCEPT !.ok = TRUE, !.agents = ClaimedBy(c.owner)])
    /\ UNCHANGED <<account, granted, moved>>

ledger_claim_candidates(c) ==
    /\ c.kind = "candidates"
    /\ Answer(c, [c EXCEPT !.ok = TRUE, !.list = {<<a, account[a].code>> : a \in Claimable}])
    /\ UNCHANGED <<account, granted, moved>>

(* What the store does to an account: an earlier claim is replaced.        *)
claim_dashboard_account(a, who) ==
    account' = [account EXCEPT ![a].claimed = TRUE, ![a].by = who]

reset_dashboard_claims(a) ==
    account' = [account EXCEPT ![a].claimed = FALSE, ![a].by = None]

(* Seeded fault: the claim is the session's, though there may be none.     *)
ledger_claimBySession(c) ==
    /\ c.kind = "claim"
    /\ c.code = account[c.agent].code
    /\ claim_dashboard_account(c.agent, c.session)
    /\ granted' = granted \cup {<<c.agent, c.session>>}
    /\ Answer(c, [c EXCEPT !.ok = TRUE, !.who = c.session])
    /\ UNCHANGED moved

(* The claim is the session's, or, without one, of the e-mail it names.    *)
ledger_claim(c) ==
    LET who == IF c.session # None THEN c.session ELSE c.owner
    IN  /\ c.kind = "claim"
        /\ who # None
        /\ c.code = account[c.agent].code
        /\ claim_dashboard_account(c.agent, who)
        /\ granted' = granted \cup {<<c.agent, who>>}
        /\ Answer(c, [c EXCEPT !.ok = TRUE, !.who = who])
        /\ UNCHANGED moved

ClaimRefused(c) ==
    /\ c.kind = "claim"
    /\ c.code # account[c.agent].code
    /\ Answer(c, c)
    /\ UNCHANGED <<account, granted, moved>>

(* Seeded fault: the handler does not compare the page's user.             *)
MayWithdrawForAnyPage(c) ==
    /\ c.session # None
    /\ account[c.agent].by = c.session

(* A withdrawal needs a session, a claim that bears its name, and a page   *)
(* that shows the session's user.                                          *)
MayWithdraw(c) ==
    /\ c.session # None
    /\ account[c.agent].by = c.session
    /\ c.owner = c.session

(* The handler checks who asks, and then awaits the wallet's balances ...  *)
require_dashboard_withdrawal_access(c) ==
    /\ c.kind = "withdraw" /\ ~c.ok
    /\ calls' = (calls \ {c}) \cup
                   IF MayWithdraw(c) THEN {[c EXCEPT !.ok = TRUE, !.who = c.session]} ELSE {}
    /\ UNCHANGED <<account, granted, moved>>

(* ... before it pays, without another look at the claim or the cookie.    *)
withdraw_agent_wallet(c) ==
    /\ c.kind = "withdraw" /\ c.ok
    /\ moved' = moved \cup {[agent |-> c.agent, claimant |-> c.who,
                              shown |-> IF c.tab = None THEN None ELSE page[c.tab].user]}
    /\ calls' = calls \ {c}
    /\ UNCHANGED <<account, granted>>

Handle(c) ==
    /\ ~c.done
    /\ \/ auth_session(c) \/ ledger_portfolio(c) \/ ledger_claim_candidates(c)
       \/ ledger_claim(c) \/ ClaimRefused(c)
       \/ require_dashboard_withdrawal_access(c) \/ withdraw_agent_wallet(c)
    /\ UNCHANGED <<cookie, page, loads, posts, upsets>>

(* The agent asks for a claim link under another wallet.                   *)
create_claim_link(a) ==
    /\ upsets < Upsets
    /\ upsets' = upsets + 1
    /\ account' = [account EXCEPT ![a].code = @ + 1]
    /\ UNCHANGED <<cookie, page, calls, granted, moved, loads, posts>>

debug_reset_dashboard_claims(a) ==
    /\ account[a].claimed
    /\ upsets < Upsets
    /\ upsets' = upsets + 1
    /\ reset_dashboard_claims(a)
    /\ UNCHANGED <<cookie, page, calls, granted, moved, loads, posts>>

-----------------------------------------------------------------------------
(* Answers reach the page that asked, if it is still there.                *)

(* The session decides who is signed in; an error signs out the page.      *)
SessionArrives(c, ok) ==
    LET p == [page[c.tab] EXCEPT !.checked = TRUE]
    IN  IF ok /\ c.who # None
        THEN Show(c.tab, [p EXCEPT !.user = c.who, !.agents = c.agents], {c}, {})
        ELSE Show(c.tab, SignedOutPage(p), {c}, {})

(* A portfolio without agents is ignored, as is an error: the page keeps   *)
(* what it has.                                                            *)
PortfolioArrives(c, ok) ==
    LET p == page[c.tab]
    IN  Show(c.tab,
             IF ok /\ c.agents # {}
             THEN [p EXCEPT !.roster = [owner |-> c.owner, agents |-> c.agents, for |-> c.for]]
             ELSE [p EXCEPT !.missed = TRUE],
             {c}, {})

CandidatesArrive(c, ok) ==
    LET p == page[c.tab]
        status == IF ~ok THEN "error" ELSE IF c.list = {} THEN "empty" ELSE "ready"
    IN  Show(c.tab, [p EXCEPT !.form.status = status, !.form.list = c.list], {c}, {})

(* Seeded fault: the agent is shown before the ledger has agreed.          *)
ClaimArrivesTrusting(c, ok) ==
    Show(c.tab, [page[c.tab] EXCEPT !.agents = @ \cup {c.agent}, !.modal = @ /\ ~c.add], {c}, {})

(* A claim that went through adds the agent and closes the modal it came   *)
(* from, whatever the page has come to show; after another answer the form *)
(* starts again, if it is still there.                                     *)
ClaimArrives(c, ok) ==
    LET p == page[c.tab]
    IN  IF ok
        THEN Show(c.tab, [p EXCEPT !.agents = @ \cup {c.agent}, !.modal = @ /\ ~c.add,
                                   !.foreign = IF c.who = c.owner THEN @ ELSE @ \cup {c.agent}],
                  {c}, {})
        ELSE Show(c.tab, [p EXCEPT !.form.match = IF c.heard THEN None ELSE @], {c}, {})

Arrives(c, ok) ==
    /\ \/ c.kind = "session" /\ SessionArrives(c, ok)
       \/ c.kind = "portfolio" /\ PortfolioArrives(c, ok)
       \/ c.kind = "candidates" /\ CandidatesArrive(c, ok)
       \/ c.kind = "claim" /\ ClaimArrives(c, ok)
    /\ UNCHANGED <<account, cookie, granted, moved, loads, posts>>

Receive(c) == c.done /\ Arrives(c, c.ok) /\ UNCHANGED upsets

(* The network loses the call or its answer, and the page sees an error.   *)
Lose(c) ==
    /\ c.tab # None
    /\ upsets < Upsets
    /\ upsets' = upsets + 1
    /\ Arrives(c, FALSE)

(* The answer to a logout deletes the cookie, whoever's it is by then.     *)
auth_logout(c) ==
    /\ c.kind = "logout"
    /\ cookie' = None
    /\ calls' = calls \ {c}
    /\ UNCHANGED <<account, page, granted, moved, loads, posts, upsets>>

-----------------------------------------------------------------------------
PageStep(t) ==
    \/ Reload(t) \/ SignOut(t)
    \/ OpenModal(t) \/ CloseModal(t) \/ Validate(t) \/ Claim(t) \/ UseDifferent(t)
    \/ ReturnToRegistration(t) \/ Withdraw(t)
    \/ \E p \in Person : Login(t, p)

Next ==
    \/ \E t \in Tab : PageStep(t)
    \/ \E c \in calls : Handle(c) \/ Receive(c) \/ Lose(c) \/ auth_logout(c)
    \/ \E a \in Agent : create_claim_link(a) \/ debug_reset_dashboard_claims(a)

Spec == Init /\ [][Next]_vars

-----------------------------------------------------------------------------
(* A page lists an agent only if the ledger has given it to the page's     *)
(* user, except for one claimed from this very page when the browser's     *)
(* cookie named somebody else, who was given it (main.py:671): no other    *)
(* late answer, reload or sign-out leaves a page with an agent of others.  *)
PageIsBacked ==
    \A t \in Tab : page[t].user # None =>
        \A a \in page[t].agents :
            <<a, page[t].user>> \in granted \/ a \in page[t].foreign

(* The portfolio on a page is its user's, and was fetched for the agents   *)
(* the page lists now unless the fetch is under way or has failed.         *)
RosterKeepsUp ==
    \A t \in Tab : page[t].roster # NoRoster =>
        /\ page[t].roster.owner = page[t].user
        /\ \/ page[t].roster.for = page[t].agents
           \/ Reads(t, "portfolio") # {}
           \/ page[t].missed

(* When a withdrawal is paid, the page that asked for it shows the person  *)
(* whose claim was checked before the balances were awaited, or nobody any *)
(* more, and the ledger had given the agent to that person (main.py:870,   *)
(* :887): a cookie or a user replaced meanwhile does not pay for another.  *)
MovedAsShown ==
    \A m \in moved : m.shown \in {None, m.claimant} /\ <<m.agent, m.claimant>> \in granted

(* A page is never stuck: while it checks the session, or loads what it is *)
(* to show, the call whose answer ends the wait is still out.              *)
WaitsForAnswer ==
    \A t \in Tab :
        /\ ~page[t].checked => Reads(t, "session") # {}
        /\ page[t].form.status = "loading" => Reads(t, "candidates") # {}

(* The inductive invariant of the proofs.  A claim, by name or by e-mail,  *)
(* was given to its claimant.  An answer grants a page no more than the    *)
(* ledger has granted, and has a page to go to; a call fits the page of    *)
(* its tab: the session's is there, and alone, while the page checks it, a *)
(* fetch is of what the page lists, and a claim or a withdrawal bears the  *)
(* name of its user.  A page keeps no form, modal or portfolio that it     *)
(* does not show.                                                          *)
AccountsGranted ==
    \A a \in Agent : /\ account[a].claimed => <<a, Claimant(a)>> \in granted
                     /\ account[a].by # None => account[a].claimed
                     /\ account[a].code <= upsets

CallHonest(c) ==
    /\ c.kind = "session" /\ c.ok => \A a \in c.agents : <<a, c.who>> \in granted
    /\ c.kind = "claim" => /\ c.agent \in Agent /\ c.owner \in Person
                           /\ c.ok => <<c.agent, c.who>> \in granted
    /\ c.kind = "withdraw" => /\ c.agent \in Agent
                              /\ c.ok => /\ c.who = c.owner /\ c.who # None
                                         /\ <<c.agent, c.who>> \in granted
    /\ c.done => c.tab \in Tab

CallFits(c) ==
    LET p == page[c.tab] IN
    c.tab \in Tab =>
        /\ c.kind = "session" <=> ~p.checked
        /\ c.kind = "portfolio" => Surface(p) /\ c.owner = p.user /\ c.for = p.agents
        /\ c.kind \in {"claim", "withdraw"} => p.user \in {None, c.owner}

SessionAlone ==
    \A c \in calls : c.kind = "session" /\ c.tab \in Tab =>
        \A d \in calls : d.tab = c.tab => c = d

PageTidy(p) ==
    /\ ~FormShown(p) => p.form = NoForm
    /\ ~Surface(p) => p.roster = NoRoster /\ ~p.modal

ClaimsInv ==
    /\ TypeOK
    /\ AccountsGranted
    /\ \A c \in calls : CallHonest(c) /\ CallFits(c)
    /\ SessionAlone
    /\ \A t \in Tab : PageTidy(page[t])
    /\ PageIsBacked
    /\ RosterKeepsUp
    /\ MovedAsShown
    /\ WaitsForAnswer
=============================================================================
