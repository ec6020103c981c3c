---------------------------- MODULE ClaimsProofs ----------------------------
(***************************************************************************)
(* Proofs about Claims for any tabs, people and agents, any claims made    *)
(* before, and any number of page loads, claims, withdrawals and mishaps.  *)
(***************************************************************************)
EXTENDS Claims, TLAPS

-----------------------------------------------------------------------------
(* The invariant, tab by tab.                                              *)

Sound(t) ==
    /\ PageTidy(page[t])
    /\ page[t].user # None => \A a \in page[t].agents : <<a, page[t].user>> \in granted \/ a \in page[t].foreign
    /\ page[t].roster # NoRoster =>
          /\ page[t].roster.owner = page[t].user
          /\ \/ page[t].roster.for = page[t].agents
             \/ Reads(t, "portfolio") # {}
             \/ page[t].missed
    /\ ~page[t].checked => Reads(t, "session") # {}
    /\ page[t].form.status = "loading" => Reads(t, "candidates") # {}

LEMMA InvMeans ==
    ClaimsInv <=> /\ TypeOK
                  /\ AccountsGranted
                  /\ \A c \in calls : CallHonest(c) /\ CallFits(c)
                  /\ SessionAlone
                  /\ \A t \in Tab : Sound(t)
                  /\ MovedAsShown
    BY DEF ClaimsInv, Sound, PageIsBacked, RosterKeepsUp, WaitsForAnswer

LEMMA InvMeansNext ==
    ClaimsInv' <=> /\ TypeOK'
                   /\ AccountsGranted'
                   /\ (\A c \in calls : CallHonest(c) /\ CallFits(c))'
                   /\ SessionAlone'
                   /\ (\A t \in Tab : Sound(t))'
                   /\ MovedAsShown'
    BY InvMeans, PTL

Fetches == {"session", "portfolio", "candidates"}

(* A tab whose page does not change, and whose fetches go on.              *)
LEMMA SoundKept ==
    ASSUME ClaimsInv, NEW t \in Tab, page'[t] = page[t], granted \subseteq granted',
           \A k \in Fetches : Reads(t, k) # {} => Reads(t, k)' # {}
    PROVE  Sound(t)'
    <1>1. Sound(t)
        BY InvMeans
    <1>2. PICK p : p = page[t]
        OBVIOUS
    <1> QED
        BY <1>1, <1>2 DEF Sound, Fetches

(* A call, while the page of its tab does not change.                      *)
LEMMA CallKept ==
    ASSUME NEW c, CallHonest(c), CallFits(c), granted \subseteq granted',
           c.tab \in Tab => page'[c.tab] = page[c.tab]
    PROVE  CallHonest(c)' /\ CallFits(c)'
    <1>1. CallHonest(c)'
        BY DEF CallHonest
    <1>2. CallFits(c)'
        BY DEF CallFits
    <1> QED
        BY <1>1, <1>2

(* A step that leaves all pages as they are.                               *)
LEMMA PagesKept ==
    ASSUME ClaimsInv, UNCHANGED page, granted \subseteq granted',
           TypeOK', AccountsGranted', SessionAlone', MovedAsShown',
           \A c \in calls' : c \in calls \/ (CallHonest(c)' /\ CallFits(c)'),
           \A t \in Tab, k \in Fetches : Reads(t, k) # {} => Reads(t, k)' # {}
    PROVE  ClaimsInv'
    <1>1. ASSUME NEW c \in calls' PROVE CallHonest(c)' /\ CallFits(c)'
        <2>1. CASE c \in calls
            BY <2>1, CallKept DEF ClaimsInv
        <2> QED
            BY <2>1
    <1>2. ASSUME NEW t \in Tab PROVE Sound(t)'
        BY SoundKept
    <1> QED
        BY <1>1, <1>2, InvMeansNext

-----------------------------------------------------------------------------
(* A page turns to another.                                                *)

Kinds == {"session", "portfolio", "candidates", "claim", "withdraw", "logout"}

LEMMA CallIs ==
    ASSUME NEW t \in Tab, NEW kind \in Kinds
    PROVE  /\ Call(t, kind) \in Calls
           /\ Call(t, kind).tab = t /\ Call(t, kind).kind = kind
           /\ Call(t, kind).ok = FALSE
    BY ClaimsAssumption DEF Call, Calls, Kinds, Codes

(* What hears no more is otherwise as it was.                              *)
Same(c, d) ==
    /\ d.tab = c.tab /\ d.kind = c.kind /\ d.owner = c.owner /\ d.for = c.for
    /\ d.agent = c.agent /\ d.done = c.done /\ d.ok = c.ok /\ d.who = c.who
    /\ d.agents = c.agents

LEMMA SameCall ==
    ASSUME NEW c, NEW d, Same(c, d)
    PROVE  /\ CallHonest(c) => CallHonest(d)
           /\ CallFits(c) => CallFits(d)
    BY DEF Same, CallHonest, CallFits

LEMMA UnheardIs ==
    ASSUME NEW cs \in SUBSET Calls, NEW t, NEW q
    PROVE  /\ Unheard(cs, t, q) \subseteq Calls
           /\ \A d \in Unheard(cs, t, q) : \E c \in cs : Same(c, d)
           /\ \A c \in cs : \E d \in Unheard(cs, t, q) : Same(c, d)
           /\ \A d \in Unheard(cs, t, q) : d.tab # t => d \in cs
    <1> DEFINE Deaf(c) == IF c.tab = t /\ c.heard THEN [c EXCEPT !.heard = FALSE] ELSE c
    <1>1. ASSUME NEW c \in cs 
          PROVE  /\ Deaf(c) \in Calls /\ Same(c, Deaf(c)) /\ Same(c, c)
                 /\ Deaf(c).tab # t => Deaf(c) = c
        BY DEF Calls, Same
    <1>2. Unheard(cs, t, q) = cs \/ Unheard(cs, t, q) = {Deaf(c) : c \in cs}
        BY DEF Unheard
    <1> HIDE DEF Deaf
    <1>3. CASE Unheard(cs, t, q) = cs
        BY <1>1, <1>3
    <1>4. CASE Unheard(cs, t, q) = {Deaf(c) : c \in cs}
        BY <1>1, <1>4
    <1> QED
        BY <1>2, <1>3, <1>4

(* The page that is shown when q is to be.                                 *)
LEMMA SettleIs ==
    ASSUME NEW p \in Page, NEW q \in Page
    PROVE  LET s == Settle(q, p) IN
           /\ s \in Page /\ PageTidy(s)
           /\ s.checked = q.checked /\ s.user = q.user /\ s.agents = q.agents
           /\ s.foreign = q.foreign
           /\ Surface(s) <=> Surface(q)
           /\ s.roster # NoRoster => Surface(q) /\ s.roster = q.roster
           /\ ~Refetch(p, q) => s.missed = q.missed
           /\ s.form.status = "loading" =>
                 FormShown(q) /\ (Relist(p, q) \/ (FormShown(p) /\ s.form = q.form))
    <1> DEFINE s == Settle(q, p)
    <1>1. NoRoster \in Roster /\ NoForm \in Form /\ EmptyForm \in Form
        BY DEF NoRoster, Roster, NoForm, EmptyForm, Form
    <1>2. q.form \in Form /\ [q.form EXCEPT !.status = "loading", !.list = {}] \in Form
        BY DEF Page, Form
    <1>2a. PICK roster, missed, modal, form :
               /\ roster = IF Surface(q) THEN q.roster ELSE NoRoster
               /\ missed = IF Refetch(p, q) THEN FALSE ELSE q.missed
               /\ modal = (q.modal /\ Surface(q))
               /\ form = IF ~FormShown(q) THEN NoForm
                         ELSE IF ~FormShown(p) THEN EmptyForm
                         ELSE IF Relist(p, q) THEN [q.form EXCEPT !.status = "loading", !.list = {}]
                         ELSE q.form
        OBVIOUS
    <1>2b. s = [q EXCEPT !.roster = roster, !.missed = missed, !.modal = modal, !.form = form]
        BY <1>2a DEF Settle
    <1> HIDE DEF s
    <1>2c. roster \in Roster /\ missed \in BOOLEAN /\ modal \in BOOLEAN /\ form \in Form
        <2>1. roster \in Roster /\ form \in Form
            BY <1>1, <1>2, <1>2a DEF Page
        <2>2. missed \in BOOLEAN
            BY <1>2a DEF Page
        <2>3. modal \in BOOLEAN
            BY <1>2a DEF Surface, SignedIn, Page
        <2> QED
            BY <2>1, <2>2, <2>3
    <1>3. /\ s \in Page
          /\ s.checked = q.checked /\ s.user = q.user /\ s.agents = q.agents
          /\ s.foreign = q.foreign
          /\ s.roster = IF Surface(q) THEN q.roster ELSE NoRoster
          /\ s.missed = IF Refetch(p, q) THEN FALSE ELSE q.missed
          /\ s.modal = (q.modal /\ Surface(q))
          /\ s.form = IF ~FormShown(q) THEN NoForm
                      ELSE IF ~FormShown(p) THEN EmptyForm
                      ELSE IF Relist(p, q) THEN [q.form EXCEPT !.status = "loading", !.list = {}]
                      ELSE q.form
        <2>1. /\ s \in Page
              /\ s.checked = q.checked /\ s.user = q.user /\ s.agents = q.agents
              /\ s.foreign = q.foreign
              /\ s.roster = roster /\ s.missed = missed /\ s.modal = modal /\ s.form = form
            BY <1>2b, <1>2c DEF Page
        <2> QED
            BY <1>2a, <2>1
    <1>4. (Surface(s) <=> Surface(q)) /\ (FormShown(s) <=> FormShown(q))
        BY <1>3 DEF Surface, FormShown, SignedIn
    <1>5. PageTidy(s)
        BY <1>3, <1>4 DEF PageTidy
    <1>6. s.form.status = "loading" =>
              FormShown(q) /\ (Relist(p, q) \/ (FormShown(p) /\ s.form = q.form))
        BY <1>3 DEF NoForm, Relist
    <1> QED
        BY <1>3, <1>4, <1>5, <1>6 DEF s

LEMMA FetchedIs ==
    ASSUME NEW t \in Tab, NEW p \in Page, NEW q \in Page
    PROVE  /\ Fetched(t, p, q) \subseteq Calls
           /\ \A f \in Fetched(t, p, q) :
                 /\ f.tab = t /\ f.kind \in {"portfolio", "candidates"}
                 /\ f.kind = "portfolio" => /\ Surface(q)
                                            /\ f.owner = q.user /\ f.for = q.agents
           /\ Refetch(p, q) => \E f \in Fetched(t, p, q) : f.kind = "portfolio"
           /\ Relist(p, q) => \E f \in Fetched(t, p, q) : f.kind = "candidates"
    <1> DEFINE f1 == [Call(t, "portfolio") EXCEPT !.owner = q.user, !.for = q.agents]
               f2 == Call(t, "candidates")
    <1>1. /\ f1 \in Calls /\ f1.tab = t /\ f1.kind = "portfolio"
          /\ f1.owner = q.user /\ f1.for = q.agents
        <2>1. PICK c : c = Call(t, "portfolio")
            OBVIOUS
        <2>2. c \in Calls /\ c.tab = t /\ c.kind = "portfolio"
            BY <2>1, CallIs DEF Kinds
        <2>3. PICK u, g : u = q.user /\ g = q.agents
            OBVIOUS
        <2>4. u \in Person \cup {None} /\ g \in SUBSET Agent
            BY <2>3 DEF Page
        <2>5. f1 = [c EXCEPT !.owner = u, !.for = g]
            BY <2>1, <2>3
        <2> HIDE DEF f1
        <2> QED
            BY <2>2, <2>3, <2>4, <2>5 DEF Calls
    <1>2. f2 \in Calls /\ f2.tab = t /\ f2.kind = "candidates"
        BY CallIs DEF Kinds
    <1>3. Fetched(t, p, q) = (IF Refetch(p, q) THEN {f1} ELSE {})
                                \cup (IF Relist(p, q) THEN {f2} ELSE {})
        BY DEF Fetched
    <1>4. Refetch(p, q) => Surface(q)
        BY DEF Refetch
    <1> HIDE DEF f1, f2
    <1> QED
        BY <1>1, <1>2, <1>3, <1>4

LEMMA ShowKeeps ==
    ASSUME ClaimsInv, NEW t \in Tab, NEW p, p = page[t],
           NEW q \in Page, q.checked,
           NEW gone \in SUBSET calls, \A c \in gone : c.tab = t,
           NEW new \in SUBSET Calls, \A c \in new : c.tab = t /\ c.kind = "logout",
           Show(t, q, gone, new),
           UNCHANGED <<account, cookie, granted, moved, loads, posts>>,
           upsets' \in 0..Upsets, upsets <= upsets',
           q.user # None => \A a \in q.agents : <<a, q.user>> \in granted \/ a \in q.foreign,
           Surface(p) /\ Surface(q) => q.user = p.user,
           q.form.status = "loading" =>
                p.form.status = "loading" /\ Reads(t, "candidates") \cap gone = {},
           Surface(q) /\ q.roster # NoRoster =>
                /\ q.roster.owner = q.user
                /\ \/ q.roster.for = q.agents
                   \/ q.missed
                   \/ Refetch(p, q)
                   \/ Reads(t, "portfolio") \ gone # {},
           \A c \in calls \ gone : c.tab = t =>
                /\ c.kind # "session"
                /\ c.kind \in {"claim", "withdraw"} => q.user \in {None, c.owner}
    PROVE  ClaimsInv'
    <1>1. /\ TypeOK /\ p \in Page
          /\ \A c \in calls : CallHonest(c) /\ CallFits(c) /\ c \in Calls
        BY DEF ClaimsInv, TypeOK
    <1>2. PICK s : s = Settle(q, p)
        OBVIOUS
    <1>3. /\ s \in Page /\ PageTidy(s)
          /\ s.checked = q.checked /\ s.user = q.user /\ s.agents = q.agents
          /\ s.foreign = q.foreign
          /\ Surface(s) <=> Surface(q)
          /\ s.roster # NoRoster => Surface(q) /\ s.roster = q.roster
          /\ ~Refetch(p, q) => s.missed = q.missed
          /\ s.form.status = "loading" =>
                FormShown(q) /\ (Relist(p, q) \/ (FormShown(p) /\ s.form = q.form))
        BY <1>1, <1>2, SettleIs
    <1>4. PICK left : left = (calls \ gone) \ Cancelled(t, p, q)
        OBVIOUS
    <1>5. PICK quiet, fetch : quiet = Unheard(left, t, q) /\ fetch = Fetched(t, p, q)
        OBVIOUS
    <1>6. page' = [page EXCEPT ![t] = s] /\ calls' = quiet \cup new \cup fetch
        BY <1>2, <1>4, <1>5 DEF Show
    <1>7. /\ page' \in [Tab -> Page] /\ page'[t] = s
          /\ \A u \in Tab \ {t} : page'[u] = page[u]
        BY <1>1, <1>3, <1>6 DEF TypeOK
    <1>8. /\ left \subseteq calls \ gone /\ left \in SUBSET Calls
          /\ \A c \in calls \ gone : c.tab # t => c \in left
          /\ \A c \in left : c.tab = t /\ c.kind = "portfolio" => Surface(q) /\ ~Refetch(p, q)
          /\ \A c \in calls \ gone : /\ c.kind = "portfolio" /\ Surface(q) /\ ~Refetch(p, q)
                                        => c \in left
                                     /\ c.kind = "candidates" /\ FormShown(q) /\ ~Relist(p, q)
                                        => c \in left
        BY <1>1, <1>4 DEF Cancelled, Reads
    <1>9. /\ quiet \subseteq Calls
          /\ \A d \in quiet : \E c \in left : Same(c, d)
          /\ \A c \in left : \E d \in quiet : Same(c, d)
          /\ \A d \in quiet : d.tab # t => d \in calls
        BY <1>5, <1>8, UnheardIs
    <1>10. /\ fetch \subseteq Calls
           /\ \A f \in fetch :
                 /\ f.tab = t /\ f.kind \in {"portfolio", "candidates"}
                 /\ f.kind = "portfolio" => /\ Surface(q)
                                            /\ f.owner = q.user /\ f.for = q.agents
           /\ Refetch(p, q) => \E f \in fetch : f.kind = "portfolio"
           /\ Relist(p, q) => \E f \in fetch : f.kind = "candidates"
        BY <1>1, <1>5, FetchedIs
    <1>11. TypeOK'
        <2>1. calls' \subseteq Calls
            BY <1>6, <1>9, <1>10
        <2>2. granted' \subseteq Agent \X Person /\ cookie' \in Person \cup {None}
            BY <1>1 DEF TypeOK
        <2>3. account' \in [Agent -> [claimed : BOOLEAN, by : Person \cup {None}, code : Codes]]
            BY <1>1 DEF TypeOK
        <2>4. loads' \in 0..Visits /\ posts' \in 0..Posts
            BY <1>1 DEF TypeOK
        <2>5. moved' \subseteq [agent : Agent, claimant : Person, shown : Person \cup {None}]
            BY <1>1 DEF TypeOK
        <2> QED
            BY <1>7, <2>1, <2>2, <2>3, <2>4, <2>5 DEF TypeOK
    <1>12. AccountsGranted'
        <2>1. upsets \in Nat /\ upsets' \in Nat
            BY <1>1, ClaimsAssumption DEF TypeOK
        <2>2. \A a \in Agent : account[a].code \in Nat
            BY <1>1, ClaimsAssumption DEF TypeOK, Codes
        <2>3. AccountsGranted
            BY DEF ClaimsInv
        <2>4. \A a \in Agent : account'[a].code <= upsets'
            <3> SUFFICES ASSUME NEW a \in Agent PROVE account[a].code <= upsets'
                OBVIOUS
            <3>1. account[a].code <= upsets
                BY <2>3 DEF AccountsGranted
            <3>2. PICK n, m, k : n = account[a].code /\ m = upsets /\ k = upsets'
                OBVIOUS
            <3> QED
                BY <2>1, <2>2, <3>1, <3>2
        <2> QED
            BY <2>3, <2>4 DEF AccountsGranted, Claimant
    <1>13. ASSUME NEW d \in calls' PROVE CallHonest(d)' /\ CallFits(d)'
        <2>1. CASE d \in quiet
            <3>1. PICK c \in left : Same(c, d)
                BY <1>9, <2>1
            <3>2. CallHonest(d) /\ CallFits(d)
                BY <1>1, <1>8, <3>1, SameCall
            <3>3. CASE d.tab # t
                BY <1>7, <3>2, <3>3, CallKept
            <3>4. CASE d.tab = t
                <4>1. CallHonest(d)'
                    BY <3>2 DEF CallHonest
                <4>2. /\ d.kind # "session"
                      /\ d.kind \in {"claim", "withdraw"} => q.user \in {None, d.owner}
                      /\ d.kind = "portfolio" => Surface(q) /\ ~Refetch(p, q)
                    BY <1>8, <3>1, <3>4 DEF Same
                <4>3. d.kind = "portfolio" => d.owner = q.user /\ d.for = q.agents
                    BY <3>2, <3>4, <4>2 DEF CallFits, Refetch
                <4>4. CallFits(d)'
                    BY <1>3, <1>7, <3>4, <4>2, <4>3 DEF CallFits
                <4> QED
                    BY <4>1, <4>4
            <3> QED
                BY <3>3, <3>4
        <2>2. CASE d \in new
            BY <1>3, <1>7, <2>2 DEF CallHonest, CallFits
        <2>3. CASE d \in fetch
            <3>1. CallHonest(d)'
                BY <1>10, <2>3 DEF CallHonest
            <3>2. CallFits(d)'
                BY <1>3, <1>7, <1>10, <2>3 DEF CallFits
            <3> QED
                BY <3>1, <3>2
        <2> QED
            BY <1>6, <2>1, <2>2, <2>3
    <1>14. \A c \in left : \E d \in calls' : d.tab = c.tab /\ d.kind = c.kind
        BY <1>6, <1>9 DEF Same
    <1>15. Sound(t)'
        <2>1. s.user # None => \A a \in s.agents : <<a, s.user>> \in granted' \/ a \in s.foreign
            BY <1>3
        <2>2. s.roster # NoRoster =>
                 /\ s.roster.owner = s.user
                 /\ s.roster.for = s.agents \/ Reads(t, "portfolio")' # {} \/ s.missed
            <3> SUFFICES ASSUME s.roster # NoRoster
                         PROVE  /\ s.roster.owner = s.user
                                /\ \/ s.roster.for = s.agents
                                   \/ Reads(t, "portfolio")' # {}
                                   \/ s.missed
                OBVIOUS
            <3>1. Surface(q) /\ s.roster = q.roster /\ s.roster.owner = s.user
                BY <1>3
            <3>2. CASE Refetch(p, q)
                <4>1. PICK f \in fetch : f.kind = "portfolio" /\ f.tab = t
                    BY <1>10, <3>2
                <4>2. f \in Reads(t, "portfolio")'
                    BY <1>6, <4>1 DEF Reads
                <4> QED
                    BY <3>1, <4>2
            <3>3. CASE ~Refetch(p, q) /\ Reads(t, "portfolio") \ gone # {}
                <4>1. PICK c \in calls \ gone : c.tab = t /\ c.kind = "portfolio"
                    BY <3>3 DEF Reads
                <4>2. c \in left
                    BY <1>8, <3>1, <3>3, <4>1
                <4>3. PICK d \in calls' : d.tab = t /\ d.kind = "portfolio"
                    BY <1>14, <4>1, <4>2
                <4> QED
                    BY <3>1, <4>3 DEF Reads
            <3> QED
                BY <1>3, <3>1, <3>2, <3>3
        <2>3. s.form.status = "loading" => Reads(t, "candidates")' # {}
            <3> SUFFICES ASSUME s.form.status = "loading"
                         PROVE  \E d \in calls' : d.tab = t /\ d.kind = "candidates"
                BY DEF Reads
            <3>1. CASE Relist(p, q)
                BY <1>6, <1>10, <3>1
            <3>2. CASE ~Relist(p, q)
                <4>1. /\ FormShown(q) /\ p.form.status = "loading"
                      /\ Reads(t, "candidates") \cap gone = {}
                    BY <1>3, <3>2
                <4>2. PICK c \in calls : c.tab = t /\ c.kind = "candidates"
                    BY <4>1 DEF ClaimsInv, WaitsForAnswer, Reads
                <4>3. c \in left
                    BY <1>8, <3>2, <4>1, <4>2 DEF Reads
                <4> QED
                    BY <1>14, <4>2, <4>3
            <3> QED
                BY <3>1, <3>2
        <2> QED
            BY <1>3, <1>7, <2>1, <2>2, <2>3 DEF Sound
    <1>16. ASSUME NEW u \in Tab, u # t PROVE Sound(u)'
        <2>1. ASSUME NEW k \in Fetches, Reads(u, k) # {} PROVE Reads(u, k)' # {}
            <3>1. PICK c \in calls : c.tab = u /\ c.kind = k
                BY <2>1 DEF Reads
            <3>2. c \in left
                BY <1>8, <1>16, <3>1
            <3>3. PICK d \in calls' : d.tab = u /\ d.kind = k
                BY <1>14, <3>1, <3>2
            <3> QED
                BY <3>3 DEF Reads
        <2> QED
            BY <1>7, <1>16, <2>1, SoundKept
    <1>18. SessionAlone'
        <2>1. \A d \in calls' : d.tab = t => d.kind # "session"
            BY <1>6, <1>8, <1>9, <1>10 DEF Same
        <2>2. \A d \in calls' : d.tab # t => d \in calls
            BY <1>6, <1>9, <1>10
        <2> QED
            BY <2>1, <2>2 DEF ClaimsInv, SessionAlone
    <1>17. MovedAsShown'
        BY DEF ClaimsInv, MovedAsShown
    <1> QED
        BY <1>11, <1>12, <1>13, <1>15, <1>16, <1>17, <1>18, InvMeansNext

-----------------------------------------------------------------------------
(* What people do on a page.                                               *)

(* A page that keeps its portfolio keeps up with it.                       *)
LEMMA RosterKept ==
    ASSUME ClaimsInv, NEW t \in Tab, NEW p, p = page[t], NEW q, NEW gone,
           q.roster = p.roster, q.user = p.user, q.missed = p.missed,
           \A c \in gone : c.kind # "portfolio",
           Surface(q), q.roster # NoRoster
    PROVE  /\ q.roster.owner = q.user
           /\ \/ q.roster.for = q.agents
              \/ q.missed
              \/ Refetch(p, q)
              \/ Reads(t, "portfolio") \ gone # {}
    <1>1. /\ p.roster.owner = p.user
          /\ p.roster.for = p.agents \/ Reads(t, "portfolio") # {} \/ p.missed
        BY DEF ClaimsInv, RosterKeepsUp
    <1>2. CASE Reads(t, "portfolio") # {}
        BY <1>1, <1>2 DEF Reads
    <1>3. CASE p.agents # q.agents
        BY <1>1, <1>3 DEF Refetch
    <1> QED
        BY <1>1, <1>2, <1>3

(* The calls of a page that has been checked.                              *)
LEMMA CheckedCalls ==
    ASSUME ClaimsInv, NEW t \in Tab, page[t].checked, NEW c \in calls, c.tab = t
    PROVE  /\ c.kind # "session"
           /\ c.kind \in {"claim", "withdraw"} => page[t].user \in {None, c.owner}
    BY DEF ClaimsInv, CallFits

(* Signing out, and going back to the sign-in screen.                      *)
LEMMA SignedOutKeeps ==
    ASSUME ClaimsInv, NEW t \in Tab, page[t].checked,
           NEW new \in SUBSET Calls, \A c \in new : c.tab = t /\ c.kind = "logout",
           Show(t, SignedOutPage(page[t]), {}, new),
           UNCHANGED <<account, cookie, granted, moved, loads, posts, upsets>>
    PROVE  ClaimsInv'
    <1>1. PICK p, q : p = page[t] /\ q = SignedOutPage(p)
        OBVIOUS
    <1>2. TypeOK /\ p \in Page
        BY <1>1 DEF ClaimsInv, TypeOK
    <1>3. /\ q \in Page /\ q.checked = p.checked /\ q.user = None /\ q.form = p.form
        BY <1>1, <1>2 DEF SignedOutPage, Page
    <1>4. ~Surface(q)
        BY <1>3 DEF Surface, SignedIn
    <1>5. upsets' \in 0..Upsets /\ upsets <= upsets'
        BY <1>2, ClaimsAssumption DEF TypeOK
    <1>6. \A c \in calls : c.tab = t => c.kind # "session"
        BY CheckedCalls
    <1>7. Show(t, q, {}, new)
        BY <1>1
    <1> QED
        BY <1>1, <1>2, <1>3, <1>4, <1>5, <1>6, <1>7, ShowKeeps

LEMMA SignOutKeeps ==
    ASSUME ClaimsInv, NEW t \in Tab, SignOut(t) \/ ReturnToRegistration(t)
    PROVE  ClaimsInv'
    <1>1. CASE SignOut(t)
        <2>1. page[t].checked
            BY <1>1 DEF SignOut, Surface, SignedIn
        <2>2. PICK c : c = Call(t, "logout")
            OBVIOUS
        <2>3. c \in Calls /\ c.tab = t /\ c.kind = "logout"
            BY <2>2, CallIs DEF Kinds
        <2>4. Show(t, SignedOutPage(page[t]), {}, {c})
            BY <1>1, <2>2 DEF SignOut
        <2>5. UNCHANGED <<account, cookie, granted, moved, loads, posts, upsets>>
            BY <1>1 DEF SignOut
        <2> QED
            BY <2>1, <2>3, <2>4, <2>5, SignedOutKeeps
    <1>2. CASE ReturnToRegistration(t)
        <2>1. page[t].form # NoForm
            BY <1>2 DEF ReturnToRegistration, NoForm
        <2>2. page[t].checked
            BY <2>1 DEF ClaimsInv, PageTidy, FormShown, SignedIn
        <2>3. /\ Show(t, SignedOutPage(page[t]), {}, {})
              /\ UNCHANGED <<account, cookie, granted, moved, loads, posts, upsets>>
            BY <1>2 DEF ReturnToRegistration
        <2> QED
            BY <2>2, <2>3, SignedOutKeeps
    <1> QED
        BY <1>1, <1>2

(* A page that shows other agents, another modal or another form.          *)
LEMMA TurnKeeps ==
    ASSUME ClaimsInv, NEW t \in Tab, NEW p, p = page[t], p.checked,
           NEW q \in Page, q.checked, q.user = p.user, q.roster = p.roster,
           q.missed = p.missed,
           NEW gone \in SUBSET calls,
           \A c \in gone : c.tab = t /\ c.kind # "portfolio",
           Show(t, q, gone, {}),
           UNCHANGED <<account, cookie, granted, moved, loads, posts>>,
           upsets' \in 0..Upsets, upsets <= upsets',
           q.user # None => \A a \in q.agents : <<a, q.user>> \in granted \/ a \in q.foreign,
           q.form.status = "loading" =>
                p.form.status = "loading" /\ Reads(t, "candidates") \cap gone = {}
    PROVE  ClaimsInv'
    <1>1. \A c \in calls \ gone : c.tab = t =>
                /\ c.kind # "session"
                /\ c.kind \in {"claim", "withdraw"} => q.user \in {None, c.owner}
        BY CheckedCalls
    <1>2. Surface(q) /\ q.roster # NoRoster =>
                /\ q.roster.owner = q.user
                /\ \/ q.roster.for = q.agents
                   \/ q.missed
                   \/ Refetch(p, q)
                   \/ Reads(t, "portfolio") \ gone # {}
        BY RosterKept
    <1>3. Surface(p) /\ Surface(q) => q.user = p.user
        OBVIOUS
    <1> DEFINE new == {}
    <1>4. new \in SUBSET Calls /\ \A c \in new : c.tab = t /\ c.kind = "logout"
        OBVIOUS
    <1>5. Show(t, q, gone, new)
        OBVIOUS
    <1>6. \A c \in gone : c.tab = t
        OBVIOUS
    <1> HIDE DEF new
    <1> QED
        BY <1>1, <1>2, <1>3, <1>4, <1>5, <1>6, ShowKeeps

LEMMA ModalKeeps ==
    ASSUME ClaimsInv, NEW t \in Tab, OpenModal(t) \/ CloseModal(t)
    PROVE  ClaimsInv'
    <1>1. PICK p : p = page[t]
        OBVIOUS
    <1>2. TypeOK /\ p \in Page
        BY <1>1 DEF ClaimsInv, TypeOK
    <1>3. p.checked
        BY <1>1 DEF ClaimsInv, PageTidy, OpenModal, CloseModal, Surface, SignedIn
    <1>4. PICK modal \in BOOLEAN : Show(t, [p EXCEPT !.modal = modal], {}, {})
        BY <1>1 DEF OpenModal, CloseModal
    <1>5. PICK q : q = [p EXCEPT !.modal = modal]
        OBVIOUS
    <1>6. /\ q \in Page /\ q.checked = p.checked /\ q.user = p.user /\ q.form = p.form
          /\ q.agents = p.agents /\ q.roster = p.roster /\ q.missed = p.missed
          /\ q.foreign = p.foreign
        BY <1>2, <1>5 DEF Page
    <1>7. UNCHANGED <<account, cookie, granted, moved, loads, posts, upsets>>
        BY DEF OpenModal, CloseModal
    <1>8. upsets' \in 0..Upsets /\ upsets <= upsets'
        BY <1>2, <1>7, ClaimsAssumption DEF TypeOK
    <1>9. q.user # None => \A a \in q.agents : <<a, q.user>> \in granted \/ a \in q.foreign
        BY <1>1, <1>6 DEF ClaimsInv, PageIsBacked
    <1> DEFINE none == {}
    <1>10. /\ none \in SUBSET calls /\ \A c \in none : c.tab = t /\ c.kind # "portfolio"
           /\ Reads(t, "candidates") \cap none = {}
        OBVIOUS
    <1>11. Show(t, q, none, {})
        BY <1>4, <1>5
    <1> HIDE DEF none
    <1>12. q.form.status = "loading" =>
                p.form.status = "loading" /\ Reads(t, "candidates") \cap none = {}
        BY <1>6, <1>10
    <1>13. q.checked /\ UNCHANGED <<account, cookie, granted, moved, loads, posts>>
        BY <1>3, <1>6, <1>7
    <1> QED
        BY <1>1, <1>3, <1>6, <1>8, <1>9, <1>10, <1>11, <1>12, <1>13, TurnKeeps

-----------------------------------------------------------------------------
(* Answers arrive.                                                         *)

LEMMA SessionArrivesKeeps ==
    ASSUME ClaimsInv, NEW c \in calls, NEW t \in Tab, c.tab = t, NEW ok \in BOOLEAN, ok => c.ok,
           c.kind = "session", SessionArrives(c, ok),
           UNCHANGED <<account, cookie, granted, moved, loads, posts>>,
           upsets' \in 0..Upsets, upsets <= upsets'
    PROVE  ClaimsInv'
    <1>1. PICK p : p = page[t]
        OBVIOUS
    <1>2. /\ TypeOK /\ p \in Page /\ c \in Calls /\ CallHonest(c) /\ CallFits(c)
          /\ PageTidy(p)
        BY <1>1 DEF ClaimsInv, TypeOK
    <1>3. ~p.checked /\ ~Surface(p)
        BY <1>1, <1>2 DEF CallFits, Surface, SignedIn
    <1>4. p.roster = NoRoster
        BY <1>2, <1>3 DEF PageTidy
    <1>5. PICK q : \/ /\ q = [p EXCEPT !.checked = TRUE, !.user = c.who, !.agents = c.agents]
                      /\ c.who # None /\ ok
                   \/ q = [p EXCEPT !.checked = TRUE, !.user = None, !.agents = {}]
        OBVIOUS
    <1>6. ASSUME NEW r \in Page, r.checked, r.form = p.form, r.roster = NoRoster,
                 r.user # None => \A a \in r.agents : <<a, r.user>> \in granted \/ a \in r.foreign,
                 Show(t, r, {c}, {})
          PROVE  ClaimsInv'
        <2> DEFINE new == {}
        <2>1. new \in SUBSET Calls /\ \A d \in new : d.tab = t /\ d.kind = "logout"
            OBVIOUS
        <2>2. Show(t, r, {c}, new)
            BY <1>6
        <2> HIDE DEF new
        <2> DEFINE gone == {c}
        <2>3. /\ gone \in SUBSET calls /\ \A d \in gone : d.tab = t
              /\ Reads(t, "candidates") \cap gone = {}
            BY DEF Reads
        <2>4. \A d \in calls \ gone : d.tab # t
            BY <1>2, <1>3 DEF ClaimsInv, SessionAlone
        <2>5. Show(t, r, gone, new)
            BY <2>2
        <2> HIDE DEF gone
        <2>6. ~(Surface(p) /\ Surface(r)) /\ ~(Surface(r) /\ r.roster # NoRoster)
            BY <1>3, <1>6
        <2>7. \A d \in calls \ gone : d.tab = t =>
                    /\ d.kind # "session"
                    /\ d.kind \in {"claim", "withdraw"} => r.user \in {None, d.owner}
            BY <2>4
        <2>8. r.form.status = "loading" =>
                    p.form.status = "loading" /\ Reads(t, "candidates") \cap gone = {}
            BY <1>6, <2>3
        <2> QED
            BY <1>1, <1>6, <2>1, <2>3, <2>5, <2>6, <2>7, <2>8, ShowKeeps
    <1>7. CASE ok /\ c.who # None
        <2>1. PICK r : r = [p EXCEPT !.checked = TRUE, !.user = c.who, !.agents = c.agents]
            OBVIOUS
        <2>2. PICK who, agents : who = c.who /\ agents = c.agents
            OBVIOUS
        <2>3. who \in Person \cup {None} /\ agents \in SUBSET Agent
            BY <1>2, <2>2 DEF Calls
        <2>4. /\ r \in Page /\ r.checked /\ r.form = p.form /\ r.roster = NoRoster
              /\ r.user = who /\ r.agents = agents
            BY <1>2, <1>4, <2>1, <2>2, <2>3 DEF Page
        <2>5. \A a \in agents : <<a, who>> \in granted
            BY <1>2, <1>7, <2>2 DEF CallHonest
        <2>6. Show(t, r, {c}, {})
            BY <1>1, <1>7, <2>1 DEF SessionArrives
        <2> QED
            BY <1>6, <2>4, <2>5, <2>6
    <1>8. CASE ~(ok /\ c.who # None)
        <2>1. PICK r : r = SignedOutPage([p EXCEPT !.checked = TRUE])
            OBVIOUS
        <2>2. /\ r \in Page /\ r.checked /\ r.form = p.form /\ r.roster = NoRoster
              /\ r.user = None
            BY <1>2, <1>4, <2>1 DEF Page, SignedOutPage
        <2>3. Show(t, r, {c}, {})
            BY <1>1, <1>8, <2>1 DEF SessionArrives
        <2> QED
            BY <1>6, <2>2, <2>3
    <1> QED
        BY <1>7, <1>8

LEMMA PortfolioArrivesKeeps ==
    ASSUME ClaimsInv, NEW c \in calls, NEW t \in Tab, c.tab = t, NEW ok \in BOOLEAN,
           c.kind = "portfolio", PortfolioArrives(c, ok),
           UNCHANGED <<account, cookie, granted, moved, loads, posts>>,
           upsets' \in 0..Upsets, upsets <= upsets'
    PROVE  ClaimsInv'
    <1>1. PICK p : p = page[t]
        OBVIOUS
    <1>2. /\ TypeOK /\ p \in Page /\ c \in Calls
          /\ Surface(p) /\ p.checked /\ c.owner = p.user /\ c.for = p.agents
        BY <1>1 DEF ClaimsInv, TypeOK, CallFits
    <1>3. PICK loaded : loaded = [owner |-> c.owner, agents |-> c.agents, for |-> c.for]
        OBVIOUS
    <1>4. loaded \in Roster /\ loaded.owner = p.user /\ loaded.for = p.agents
        BY <1>2, <1>3 DEF Calls, Roster
    <1>5. PICK q : /\ Show(t, q, {c}, {})
                   /\ \/ q = [p EXCEPT !.roster = loaded]
                      \/ q = [p EXCEPT !.missed = TRUE]
        BY <1>1, <1>3 DEF PortfolioArrives
    <1>6. /\ q \in Page /\ q.checked = p.checked /\ q.user = p.user /\ q.form = p.form
          /\ q.agents = p.agents /\ q.foreign = p.foreign
          /\ (q.roster = loaded) \/ (q.roster = p.roster /\ q.missed)
        BY <1>2, <1>4, <1>5 DEF Page
    <1> DEFINE new == {}
               gone == {c}
    <1>7. /\ new \in SUBSET Calls /\ \A d \in new : d.tab = t /\ d.kind = "logout"
          /\ gone \in SUBSET calls /\ \A d \in gone : d.tab = t
          /\ Reads(t, "candidates") \cap gone = {}
          /\ Show(t, q, gone, new)
        BY <1>5 DEF Reads
    <1> HIDE DEF new, gone
    <1>8. q.user # None => \A a \in q.agents : <<a, q.user>> \in granted \/ a \in q.foreign
        BY <1>1, <1>6 DEF ClaimsInv, PageIsBacked
    <1>9. Surface(q) /\ q.roster # NoRoster =>
                /\ q.roster.owner = q.user
                /\ \/ q.roster.for = q.agents
                   \/ q.missed
                   \/ Refetch(p, q)
                   \/ Reads(t, "portfolio") \ gone # {}
        <2>1. p.roster # NoRoster => p.roster.owner = p.user
            BY <1>1 DEF ClaimsInv, RosterKeepsUp
        <2> QED
            BY <1>4, <1>6, <2>1
    <1>10. \A d \in calls \ gone : d.tab = t =>
                /\ d.kind # "session"
                /\ d.kind \in {"claim", "withdraw"} => q.user \in {None, d.owner}
        BY <1>1, <1>2, <1>6, CheckedCalls
    <1>11. q.checked /\ (Surface(p) /\ Surface(q) => q.user = p.user)
        BY <1>2, <1>6
    <1>12. q.form.status = "loading" =>
                p.form.status = "loading" /\ Reads(t, "candidates") \cap gone = {}
        BY <1>6, <1>7
    <1> QED
        BY <1>1, <1>6, <1>7, <1>8, <1>9, <1>10, <1>11, <1>12, ShowKeeps

LEMMA CandidatesArriveKeeps ==
    ASSUME ClaimsInv, NEW c \in calls, NEW t \in Tab, c.tab = t, NEW ok \in BOOLEAN,
           c.kind = "candidates", CandidatesArrive(c, ok),
           UNCHANGED <<account, cookie, granted, moved, loads, posts>>,
           upsets' \in 0..Upsets, upsets <= upsets'
    PROVE  ClaimsInv'
    <1>1. PICK p : p = page[t]
        OBVIOUS
    <1>2. /\ TypeOK /\ p \in Page /\ c \in Calls /\ p.checked
        BY <1>1 DEF ClaimsInv, TypeOK, CallFits
    <1>3. PICK status, list :
                /\ Show(t, [p EXCEPT !.form.status = status, !.form.list = list], {c}, {})
                /\ status \in {"error", "empty", "ready"} /\ list = c.list
        BY <1>1 DEF CandidatesArrive
    <1>4. PICK q : q = [p EXCEPT !.form.status = status, !.form.list = list]
        OBVIOUS
    <1>5. PICK f : f = [p.form EXCEPT !.status = status, !.list = list]
        OBVIOUS
    <1>6. f \in Form /\ f.status # "loading"
        <2>1. list \in SUBSET Candidates
            BY <1>2, <1>3 DEF Calls
        <2>2. p.form \in Form
            BY <1>2 DEF Page
        <2> QED
            BY <1>3, <1>5, <2>1, <2>2 DEF Form
    <1>7. /\ q \in Page /\ q.checked = p.checked /\ q.user = p.user /\ q.form = f
          /\ q.agents = p.agents /\ q.roster = p.roster /\ q.missed = p.missed
          /\ q.foreign = p.foreign
        BY <1>2, <1>4, <1>5, <1>6 DEF Page
    <1> DEFINE gone == {c}
    <1>8. /\ gone \in SUBSET calls /\ \A d \in gone : d.tab = t /\ d.kind # "portfolio"
          /\ Show(t, q, gone, {})
        BY <1>3, <1>4
    <1> HIDE DEF gone
    <1>9. q.user # None => \A a \in q.agents : <<a, q.user>> \in granted \/ a \in q.foreign
        BY <1>1, <1>7 DEF ClaimsInv, PageIsBacked
    <1>10. q.checked /\ q.form.status # "loading"
        BY <1>2, <1>6, <1>7
    <1> QED
        BY <1>1, <1>2, <1>7, <1>8, <1>9, <1>10, TurnKeeps

LEMMA ClaimArrivesKeeps ==
    ASSUME ClaimsInv, NEW c \in calls, NEW t \in Tab, c.tab = t, NEW ok \in BOOLEAN, ok => c.ok,
           c.kind = "claim", ClaimArrives(c, ok),
           UNCHANGED <<account, cookie, granted, moved, loads, posts>>,
           upsets' \in 0..Upsets, upsets <= upsets'
    PROVE  ClaimsInv'
    <1>1. PICK p : p = page[t]
        OBVIOUS
    <1>2. /\ TypeOK /\ p \in Page /\ c \in Calls /\ p.checked
          /\ CallHonest(c) /\ p.user \in {None, c.owner}
          /\ p.user # None => \A a \in p.agents : <<a, p.user>> \in granted \/ a \in p.foreign
        BY <1>1 DEF ClaimsInv, TypeOK, CallFits, PageIsBacked
    <1> DEFINE gone == {c}
    <1>3. /\ gone \in SUBSET calls /\ \A d \in gone : d.tab = t /\ d.kind # "portfolio"
          /\ Reads(t, "candidates") \cap gone = {}
        BY DEF Reads
    <1>4. ASSUME NEW q \in Page, q.checked = p.checked, q.user = p.user,
                 q.form.status = p.form.status, q.roster = p.roster, q.missed = p.missed,
                 q.user # None => \A a \in q.agents : <<a, q.user>> \in granted \/ a \in q.foreign,
                 Show(t, q, {c}, {})
          PROVE  ClaimsInv'
        <2>1. Show(t, q, gone, {})
            BY <1>4
        <2> HIDE DEF gone
        <2>2. q.checked
            BY <1>2, <1>4
        <2>3. q.form.status = "loading" =>
                p.form.status = "loading" /\ Reads(t, "candidates") \cap gone = {}
            BY <1>3, <1>4
        <2> QED
            BY <1>1, <1>2, <1>3, <1>4, <2>1, <2>2, <2>3, TurnKeeps
    <1>5. CASE ok
        <2>1. PICK agents, modal, foreign :
                  /\ agents = p.agents \cup {c.agent} /\ modal = (p.modal /\ ~c.add)
                  /\ foreign = IF c.who = c.owner THEN p.foreign ELSE p.foreign \cup {c.agent}
            OBVIOUS
        <2>2. PICK q : q = [p EXCEPT !.agents = agents, !.modal = modal, !.foreign = foreign]
            OBVIOUS
        <2>3. /\ agents \in SUBSET Agent /\ modal \in BOOLEAN /\ foreign \in SUBSET Agent
              /\ \A a \in agents : a \in p.agents \/ a = c.agent
              /\ p.foreign \subseteq foreign
              /\ <<c.agent, c.owner>> \in granted \/ c.agent \in foreign
            BY <1>2, <1>5, <2>1 DEF Page, CallHonest
        <2>4. /\ q \in Page /\ q.checked = p.checked /\ q.user = p.user /\ q.form = p.form
              /\ q.roster = p.roster /\ q.missed = p.missed /\ q.agents = agents
              /\ q.foreign = foreign
            BY <1>2, <2>2, <2>3 DEF Page
        <2>5. q.user # None => \A a \in q.agents : <<a, q.user>> \in granted \/ a \in q.foreign
            BY <1>2, <2>3, <2>4
        <2>6. Show(t, q, {c}, {})
            BY <1>1, <1>5, <2>1, <2>2 DEF ClaimArrives
        <2> QED
            BY <1>4, <2>4, <2>5, <2>6
    <1>6. CASE ~ok
        <2>1. PICK match : match = IF c.heard THEN None ELSE p.form.match
            OBVIOUS
        <2>2. PICK q, f : /\ q = [p EXCEPT !.form.match = match]
                          /\ f = [p.form EXCEPT !.match = match]
            OBVIOUS
        <2>3. p.form \in Form
            BY <1>2 DEF Page
        <2>4. f \in Form /\ f.status = p.form.status
            BY <2>1, <2>2, <2>3 DEF Form
        <2>5. /\ q \in Page /\ q.checked = p.checked /\ q.user = p.user /\ q.form = f
              /\ q.roster = p.roster /\ q.missed = p.missed /\ q.agents = p.agents
              /\ q.foreign = p.foreign
            BY <1>2, <2>2, <2>4 DEF Page
        <2>6. Show(t, q, {c}, {})
            BY <1>1, <1>6, <2>1, <2>2 DEF ClaimArrives
        <2> QED
            BY <1>2, <1>4, <2>4, <2>5, <2>6
    <1> QED
        BY <1>5, <1>6

LEMMA ArrivesKeeps ==
    ASSUME ClaimsInv, NEW c \in calls, Receive(c) \/ Lose(c)
    PROVE  ClaimsInv'
    <1>1. /\ TypeOK /\ c \in Calls /\ CallHonest(c)
        BY DEF ClaimsInv, TypeOK
    <1>2. PICK ok : (ok = c.ok \/ ok = FALSE) /\ Arrives(c, ok)
        BY DEF Receive, Lose
    <1>3. ok \in BOOLEAN /\ (ok => c.ok) /\ c.tab \in Tab
        BY <1>1, <1>2 DEF Calls, CallHonest, Receive, Lose
    <1>4. UNCHANGED <<account, cookie, granted, moved, loads, posts>>
        BY <1>2 DEF Arrives
    <1>5. upsets' \in 0..Upsets /\ upsets <= upsets'
        <2>1. upsets \in 0..Upsets /\ Upsets \in Nat
            BY <1>1, ClaimsAssumption DEF TypeOK
        <2>2. upsets' = upsets \/ (upsets < Upsets /\ upsets' = upsets + 1)
            BY DEF Receive, Lose
        <2> QED
            BY <2>1, <2>2
    <1>6. PICK t : t = c.tab /\ t \in Tab
        BY <1>3
    <1>7. CASE c.kind = "session" /\ SessionArrives(c, ok)
        BY <1>3, <1>4, <1>5, <1>6, <1>7, SessionArrivesKeeps
    <1>8. CASE c.kind = "portfolio" /\ PortfolioArrives(c, ok)
        BY <1>3, <1>4, <1>5, <1>6, <1>8, PortfolioArrivesKeeps
    <1>9. CASE c.kind = "candidates" /\ CandidatesArrive(c, ok)
        BY <1>3, <1>4, <1>5, <1>6, <1>9, CandidatesArriveKeeps
    <1>10. CASE c.kind = "claim" /\ ClaimArrives(c, ok)
        BY <1>3, <1>4, <1>5, <1>6, <1>10, ClaimArrivesKeeps
    <1> QED
        BY <1>2, <1>7, <1>8, <1>9, <1>10 DEF Arrives

-----------------------------------------------------------------------------
(* What the ledger does with a call.                                       *)

LEMMA AnswerKeeps ==
    ASSUME ClaimsInv, NEW c \in calls, NEW d \in Calls,
           d.tab = c.tab, d.kind = c.kind, d.owner = c.owner, d.for = c.for,
           d.tab \in Tab => CallHonest(d)',
           calls' = (calls \ {c}) \cup (IF c.tab = None THEN {} ELSE {d}),
           UNCHANGED <<page, cookie, moved, loads, posts, upsets>>,
           account' \in [Agent -> [claimed : BOOLEAN, by : Person \cup {None}, code : Codes]],
           granted \subseteq granted', granted' \subseteq Agent \X Person,
           AccountsGranted', MovedAsShown'
    PROVE  ClaimsInv'
    <1>1. /\ TypeOK /\ c \in Calls /\ CallHonest(c) /\ CallFits(c)
        BY DEF ClaimsInv, TypeOK
    <1>2. calls' \subseteq (calls \ {c}) \cup {d}
        OBVIOUS
    <1>3. TypeOK'
        BY <1>1, <1>2 DEF TypeOK
    <1>4. ASSUME NEW e \in calls' PROVE e \in calls \/ (CallHonest(e)' /\ CallFits(e)')
        <2>1. CASE e = d /\ c.tab # None
            <3>1. d.tab \in Tab
                BY <1>1, <2>1 DEF Calls
            <3>2. CallFits(d)
                BY <1>1 DEF CallFits
            <3>3. CallFits(d)'
                BY <3>2 DEF CallFits, Surface, SignedIn
            <3> QED
                BY <2>1, <3>1, <3>3
        <2>2. CASE c.tab = None
            BY <2>2
        <2> QED
            BY <1>2, <2>1, <2>2
    <1>5. SessionAlone'
        BY <1>2 DEF ClaimsInv, SessionAlone
    <1>6. ASSUME NEW t \in Tab, NEW k \in Fetches, Reads(t, k) # {} PROVE Reads(t, k)' # {}
        <2>1. PICK e \in calls : e.tab = t /\ e.kind = k
            BY <1>6 DEF Reads
        <2>2. CASE e # c
            BY <2>1, <2>2 DEF Reads
        <2>3. CASE e = c
            <3>1. d \in calls'
                BY <2>1, <2>3, ClaimsAssumption
            <3> QED
                BY <2>1, <2>3, <3>1 DEF Reads
        <2> QED
            BY <2>2, <2>3
    <1> QED
        BY <1>3, <1>4, <1>5, <1>6, PagesKept

(* The ledger keeps what it has granted in step with the accounts.         *)
LEMMA BooksKept ==
    ASSUME ClaimsInv, UNCHANGED <<account, granted, moved, upsets>>
    PROVE  /\ account' \in [Agent -> [claimed : BOOLEAN, by : Person \cup {None}, code : Codes]]
           /\ granted \subseteq granted' /\ granted' \subseteq Agent \X Person
           /\ AccountsGranted' /\ MovedAsShown' /\ UNCHANGED moved
    BY DEF ClaimsInv, TypeOK, AccountsGranted, Claimant, MovedAsShown

(* An answer that only tells of the accounts.                              *)
LEMMA ReadKeeps ==
    ASSUME ClaimsInv, NEW c \in calls,
           auth_session(c) \/ ledger_portfolio(c) \/ ledger_claim_candidates(c)
               \/ ClaimRefused(c),
           UNCHANGED <<cookie, page, loads, posts, upsets>>
    PROVE  ClaimsInv'
    <1>1. /\ TypeOK /\ AccountsGranted /\ c \in Calls /\ CallHonest(c)
        BY DEF ClaimsInv, TypeOK
    <1>2. UNCHANGED <<account, granted, moved, upsets>>
        BY DEF auth_session, ledger_portfolio, ledger_claim_candidates, ClaimRefused
    <1>3. ASSUME NEW e \in Calls, NEW d \in Calls, d = [e EXCEPT !.done = TRUE], Answer(c, e),
                 e.tab = c.tab, e.kind = c.kind, e.owner = c.owner, e.for = c.for,
                 e.agent = c.agent,
                 e.kind = "claim" => e.ok = c.ok /\ e.who = c.who, e.kind # "withdraw",
                 e.kind = "session" => \A a \in e.agents : <<a, e.who>> \in granted
          PROVE  ClaimsInv'
        <2>1. /\ d.tab = e.tab /\ d.kind = e.kind /\ d.owner = e.owner /\ d.for = e.for
              /\ d.agent = e.agent /\ d.done /\ d.ok = e.ok /\ d.who = e.who
              /\ d.agents = e.agents
            BY <1>3 DEF Calls
        <2>2. d.tab \in Tab => CallHonest(d)'
            BY <1>1, <1>2, <1>3, <2>1 DEF CallHonest
        <2>3. calls' = (calls \ {c}) \cup (IF c.tab = None THEN {} ELSE {d})
            BY <1>3 DEF Answer
        <2> QED
            BY <1>2, <1>3, <2>1, <2>2, <2>3, AnswerKeeps, BooksKept
    <1>4. PICK codes : codes = {<<a, account[a].code>> : a \in Claimable}
        OBVIOUS
    <1>5. codes \in SUBSET Candidates /\ \A w : ClaimedBy(w) \in SUBSET Agent
        BY <1>1, <1>4 DEF TypeOK, Candidates, Claimable, ClaimedBy
    <1>6. CASE auth_session(c)
        <2>1. PICK given : given = ClaimedBy(c.session)
            OBVIOUS
        <2>2. PICK e : e = [c EXCEPT !.ok = TRUE, !.who = c.session, !.agents = given]
            OBVIOUS
        <2>3. given \in SUBSET Agent /\ \A a \in given : <<a, c.session>> \in granted
            BY <1>1, <1>5, <2>1 DEF ClaimedBy, AccountsGranted
        <2>4. /\ e \in Calls /\ e.tab = c.tab /\ e.kind = c.kind /\ e.owner = c.owner
              /\ e.for = c.for /\ e.agent = c.agent /\ e.who = c.session /\ e.agents = given
            BY <1>1, <2>2, <2>3 DEF Calls
        <2>5. PICK d : d = [e EXCEPT !.done = TRUE]
            OBVIOUS
        <2>6. d \in Calls
            BY <2>4, <2>5 DEF Calls
        <2>7. Answer(c, e) /\ e.kind = "session"
            BY <1>6, <2>1, <2>2, <2>4 DEF auth_session
        <2> QED
            BY <1>3, <2>3, <2>4, <2>5, <2>6, <2>7
    <1>7. CASE ledger_portfolio(c)
        <2>1. PICK given : given = ClaimedBy(c.owner)
            OBVIOUS
        <2>2. PICK e : e = [c EXCEPT !.ok = TRUE, !.agents = given]
            OBVIOUS
        <2>3. given \in SUBSET Agent
            BY <1>5, <2>1
        <2>4. /\ e \in Calls /\ e.tab = c.tab /\ e.kind = c.kind /\ e.owner = c.owner
              /\ e.for = c.for /\ e.agent = c.agent
            BY <1>1, <2>2, <2>3 DEF Calls
        <2>5. PICK d : d = [e EXCEPT !.done = TRUE]
            OBVIOUS
        <2>6. d \in Calls
            BY <2>4, <2>5 DEF Calls
        <2>7. Answer(c, e) /\ e.kind = "portfolio"
            BY <1>7, <2>1, <2>2, <2>4 DEF ledger_portfolio
        <2> QED
            BY <1>3, <2>4, <2>5, <2>6, <2>7
    <1>8. CASE ledger_claim_candidates(c)
        <2>1. PICK e : e = [c EXCEPT !.ok = TRUE, !.list = codes]
            OBVIOUS
        <2>2. /\ e \in Calls /\ e.tab = c.tab /\ e.kind = c.kind /\ e.owner = c.owner
              /\ e.for = c.for /\ e.agent = c.agent
            BY <1>1, <1>5, <2>1 DEF Calls
        <2>3. PICK d : d = [e EXCEPT !.done = TRUE]
            OBVIOUS
        <2>4. d \in Calls
            BY <2>2, <2>3 DEF Calls
        <2>5. Answer(c, e) /\ e.kind = "candidates"
            BY <1>4, <1>8, <2>1, <2>2 DEF ledger_claim_candidates
        <2> QED
            BY <1>3, <2>2, <2>3, <2>4, <2>5
    <1>9. CASE ClaimRefused(c)
        <2>1. PICK d : d = [c EXCEPT !.done = TRUE]
            OBVIOUS
        <2>2. d \in Calls
            BY <1>1, <2>1 DEF Calls
        <2>3. Answer(c, c) /\ c.kind = "claim"
            BY <1>9 DEF ClaimRefused
        <2> QED
            BY <1>1, <1>3, <2>1, <2>2, <2>3
    <1> QED
        BY <1>6, <1>7, <1>8, <1>9

(* A claim is the session's, or of the e-mail that the page gives.         *)
LEMMA LedgerClaimKeeps ==
    ASSUME ClaimsInv, NEW c \in calls, ledger_claim(c),
           UNCHANGED <<cookie, page, loads, posts, upsets>>
    PROVE  ClaimsInv'
    <1>1. /\ TypeOK /\ AccountsGranted /\ c \in Calls /\ CallHonest(c)
          /\ c.kind = "claim" /\ UNCHANGED moved
        BY DEF ClaimsInv, TypeOK, ledger_claim
    <1>2. PICK a, who : /\ a = c.agent
                        /\ who = IF c.session # None THEN c.session ELSE c.owner
        OBVIOUS
    <1>3. /\ a \in Agent /\ who \in Person /\ c.owner \in Person
          /\ account' = [account EXCEPT ![a].claimed = TRUE, ![a].by = who]
          /\ granted' = granted \cup {<<a, who>>}
        BY <1>1, <1>2 DEF ledger_claim, claim_dashboard_account, CallHonest, Calls
    <1>4. /\ account' \in [Agent -> [claimed : BOOLEAN, by : Person \cup {None}, code : Codes]]
          /\ account'[a].by = who /\ account'[a].code = account[a].code
          /\ \A b \in Agent \ {a} : account'[b] = account[b]
        BY <1>1, <1>3 DEF TypeOK
    <1>5. granted \subseteq granted' /\ granted' \subseteq Agent \X Person
        BY <1>1, <1>3 DEF TypeOK
    <1>6. AccountsGranted'
        <2>1. who # None
            BY <1>3, ClaimsAssumption
        <2>2. \A b \in Agent : account'[b].code = account[b].code /\ upsets' = upsets
            BY <1>4
        <2>3. \A b \in Agent : account'[b].claimed => <<b, Claimant(b)'>> \in granted'
            <3> SUFFICES ASSUME NEW b \in Agent, account'[b].claimed
                         PROVE  <<b, Claimant(b)'>> \in granted'
                OBVIOUS
            <3>1. CASE b = a
                BY <1>3, <1>4, <2>1, <3>1 DEF Claimant
            <3>2. CASE b # a
                <4>1. Claimant(b)' = Claimant(b) /\ account[b].claimed
                    BY <1>4, <3>2 DEF Claimant
                <4> QED
                    BY <1>1, <1>3, <4>1 DEF AccountsGranted
            <3> QED
                BY <3>1, <3>2
        <2>4. \A b \in Agent : account'[b].by # None => account'[b].claimed
            BY <1>1, <1>3, <1>4 DEF AccountsGranted, TypeOK
        <2> QED
            BY <1>1, <2>2, <2>3, <2>4 DEF AccountsGranted
    <1>7. PICK e, d : /\ e = [c EXCEPT !.ok = TRUE, !.who = who]
                      /\ d = [e EXCEPT !.done = TRUE]
        OBVIOUS
    <1>8. /\ d \in Calls /\ d.tab = c.tab /\ d.kind = c.kind /\ d.owner = c.owner
          /\ d.for = c.for /\ d.agent = c.agent /\ d.done /\ d.who = who
        BY <1>1, <1>3, <1>7 DEF Calls
    <1>9. d.tab \in Tab => CallHonest(d)'
        BY <1>1, <1>2, <1>3, <1>8 DEF CallHonest
    <1>10. calls' = (calls \ {c}) \cup (IF c.tab = None THEN {} ELSE {d})
        BY <1>2, <1>7 DEF ledger_claim, Answer
    <1>11. MovedAsShown' /\ UNCHANGED moved
        BY <1>1, <1>5 DEF ClaimsInv, MovedAsShown
    <1> QED
        BY <1>4, <1>5, <1>6, <1>8, <1>9, <1>10, <1>11, AnswerKeeps

(* A call that is over and that no page has fetched.                       *)
LEMMA DropKeeps ==
    ASSUME ClaimsInv, NEW c \in calls, c.kind \notin Fetches, calls' = calls \ {c},
           UNCHANGED <<account, page, granted, loads, posts, upsets>>,
           cookie' \in Person \cup {None}, MovedAsShown',
           moved' \subseteq [agent : Agent, claimant : Person, shown : Person \cup {None}]
    PROVE  ClaimsInv'
    <1>1. TypeOK'
        BY DEF ClaimsInv, TypeOK
    <1>2. AccountsGranted' /\ SessionAlone'
        BY DEF ClaimsInv, AccountsGranted, Claimant, SessionAlone
    <1>3. \A t \in Tab, k \in Fetches : Reads(t, k) # {} => Reads(t, k)' # {}
        BY DEF Reads
    <1> QED
        BY <1>1, <1>2, <1>3, PagesKept

(* Access to a withdrawal is granted, or the call is over.                 *)
LEMMA AccessKeeps ==
    ASSUME ClaimsInv, NEW c \in calls, require_dashboard_withdrawal_access(c),
           UNCHANGED <<cookie, page, loads, posts, upsets>>
    PROVE  ClaimsInv'
    <1>1. /\ TypeOK /\ AccountsGranted /\ MovedAsShown /\ SessionAlone
          /\ c \in Calls /\ CallHonest(c) /\ CallFits(c) /\ c.kind = "withdraw"
          /\ UNCHANGED <<account, granted, moved, upsets>>
        BY DEF ClaimsInv, TypeOK, require_dashboard_withdrawal_access
    <1>2. PICK w, d : w = c.session /\ d = [c EXCEPT !.ok = TRUE, !.who = w]
        OBVIOUS
    <1>3. /\ d \in Calls /\ d.tab = c.tab /\ d.kind = c.kind /\ d.owner = c.owner
          /\ d.for = c.for /\ d.agent = c.agent /\ d.done = c.done /\ d.who = w /\ d.ok
        BY <1>1, <1>2 DEF Calls
    <1>4. calls' = calls \ {c} \/ (MayWithdraw(c) /\ calls' = (calls \ {c}) \cup {d})
        BY <1>2 DEF require_dashboard_withdrawal_access
    <1>5. CASE calls' = calls \ {c}
        <2>1. c.kind \notin Fetches /\ cookie' \in Person \cup {None}
            BY <1>1 DEF TypeOK, Fetches
        <2>2. MovedAsShown'
            BY <1>1 DEF MovedAsShown
        <2>3. moved' \subseteq [agent : Agent, claimant : Person, shown : Person \cup {None}]
            BY <1>1 DEF TypeOK
        <2> QED
            BY <1>1, <1>5, <2>1, <2>2, <2>3, DropKeeps
    <1>6. CASE MayWithdraw(c) /\ calls' = (calls \ {c}) \cup {d}
        <2>1. /\ w # None /\ w = c.owner /\ account[c.agent].by = w /\ c.agent \in Agent
            BY <1>1, <1>2, <1>6 DEF MayWithdraw, CallHonest
        <2>2. <<c.agent, w>> \in granted
            BY <1>1, <2>1 DEF AccountsGranted, Claimant
        <2>3. CallHonest(d)' /\ CallFits(d)'
            <3>1. CallHonest(d)'
                BY <1>1, <1>3, <2>1, <2>2 DEF CallHonest
            <3>2. CallFits(d)'
                BY <1>1, <1>3 DEF CallFits, Surface, SignedIn
            <3> QED
                BY <3>1, <3>2
        <2>4. TypeOK' /\ AccountsGranted' /\ MovedAsShown'
            <3>1. TypeOK'
                BY <1>1, <1>3, <1>6 DEF TypeOK
            <3> QED
                BY <1>1, <3>1, BooksKept
        <2>5. SessionAlone'
            BY <1>1, <1>3, <1>6 DEF SessionAlone
        <2>6. \A t \in Tab, k \in Fetches : Reads(t, k) # {} => Reads(t, k)' # {}
            BY <1>1, <1>6 DEF Reads, Fetches
        <2> QED
            BY <1>1, <1>6, <2>3, <2>4, <2>5, <2>6, PagesKept
    <1> QED
        BY <1>4, <1>5, <1>6

LEMMA WithdrawHandledKeeps ==
    ASSUME ClaimsInv, NEW c \in calls, withdraw_agent_wallet(c),
           UNCHANGED <<cookie, page, loads, posts, upsets>>
    PROVE  ClaimsInv'
    <1>1. /\ TypeOK /\ c \in Calls /\ CallHonest(c) /\ CallFits(c) /\ MovedAsShown
          /\ c.kind = "withdraw" /\ c.ok
        BY DEF ClaimsInv, TypeOK, withdraw_agent_wallet
    <1>2. c.kind \notin Fetches /\ calls' = calls \ {c} /\ UNCHANGED <<account, granted>>
        BY DEF withdraw_agent_wallet, Fetches
    <1>3. PICK shown : shown = IF c.tab = None THEN None ELSE page[c.tab].user
        OBVIOUS
    <1>4. PICK m : m = [agent |-> c.agent, claimant |-> c.who, shown |-> shown]
        OBVIOUS
    <1>5. /\ c.agent \in Agent /\ c.who = c.owner /\ c.who \in Person
          /\ <<c.agent, c.who>> \in granted
        BY <1>1 DEF CallHonest, Calls
    <1>6. shown \in {None, c.who} /\ shown \in Person \cup {None}
        <2>1. CASE c.tab = None
            BY <1>3, <2>1
        <2>2. CASE c.tab # None
            <3>1. c.tab \in Tab
                BY <1>1, <2>2 DEF Calls
            <3> QED
                BY <1>1, <1>3, <1>5, <2>2, <3>1 DEF CallFits
        <2> QED
            BY <2>1, <2>2
    <1>7. moved' = moved \cup {m}
        BY <1>3, <1>4 DEF withdraw_agent_wallet
    <1>8. MovedAsShown'
        <2> SUFFICES ASSUME NEW n \in moved \cup {m}
                     PROVE  n.shown \in {None, n.claimant} /\ <<n.agent, n.claimant>> \in granted
            BY <1>2, <1>7 DEF MovedAsShown
        <2>1. m.agent = c.agent /\ m.claimant = c.who /\ m.shown = shown
            BY <1>4
        <2>2. CASE n \in moved
            BY <1>1, <2>2 DEF MovedAsShown
        <2>3. CASE n = m
            BY <1>5, <1>6, <2>1, <2>3
        <2> QED
            BY <2>2, <2>3
    <1>9. moved' \subseteq [agent : Agent, claimant : Person, shown : Person \cup {None}]
        BY <1>1, <1>4, <1>5, <1>6, <1>7 DEF TypeOK
    <1>10. cookie' \in Person \cup {None}
        BY <1>1 DEF TypeOK
    <1> QED
        BY <1>2, <1>8, <1>9, <1>10, DropKeeps

LEMMA LogoutHandledKeeps ==
    ASSUME ClaimsInv, NEW c \in calls, auth_logout(c)
    PROVE  ClaimsInv'
    <1>1. /\ c.kind \notin Fetches /\ calls' = calls \ {c} /\ cookie' \in Person \cup {None}
          /\ UNCHANGED <<account, page, granted, moved, loads, posts, upsets>>
        BY DEF auth_logout, Fetches
    <1>2. MovedAsShown'
        BY <1>1 DEF ClaimsInv, MovedAsShown
    <1>3. moved' \subseteq [agent : Agent, claimant : Person, shown : Person \cup {None}]
        BY <1>1 DEF ClaimsInv, TypeOK
    <1> QED
        BY <1>1, <1>2, <1>3, DropKeeps

LEMMA HandleKeeps ==
    ASSUME ClaimsInv, NEW c \in calls, Handle(c)
    PROVE  ClaimsInv'
    <1>1. UNCHANGED <<cookie, page, loads, posts, upsets>>
        BY DEF Handle
    <1>2. CASE ledger_claim(c)
        BY <1>1, <1>2, LedgerClaimKeeps
    <1>3. CASE withdraw_agent_wallet(c)
        BY <1>1, <1>3, WithdrawHandledKeeps
    <1>4. CASE auth_session(c) \/ ledger_portfolio(c) \/ ledger_claim_candidates(c)
                  \/ ClaimRefused(c)
        BY <1>1, <1>4, ReadKeeps
    <1>5. CASE require_dashboard_withdrawal_access(c)
        BY <1>1, <1>5, AccessKeeps
    <1> QED
        BY <1>2, <1>3, <1>4, <1>5 DEF Handle

(* A new wallet's link, and a claim undone.                                *)
LEMMA UpsetKeeps ==
    ASSUME ClaimsInv, NEW a \in Agent,
           create_claim_link(a) \/ debug_reset_dashboard_claims(a)
    PROVE  ClaimsInv'
    <1>1. /\ TypeOK /\ AccountsGranted
          /\ UNCHANGED <<cookie, page, calls, granted, moved, loads, posts>>
          /\ upsets' = upsets + 1 /\ upsets \in Nat /\ Upsets \in Nat /\ upsets < Upsets
        <2>1. TypeOK /\ AccountsGranted /\ Upsets \in Nat
            BY ClaimsAssumption DEF ClaimsInv
        <2>2. upsets \in Nat
            BY <2>1 DEF TypeOK
        <2> QED
            BY <2>1, <2>2 DEF create_claim_link, debug_reset_dashboard_claims
    <1>2. PICK n : n = account[a].code
        OBVIOUS
    <1>3. n \in Nat /\ n <= upsets /\ n + 1 \in Codes
        <2>1. n \in Codes
            BY <1>1, <1>2 DEF TypeOK
        <2>2. n <= upsets
            BY <1>1, <1>2 DEF AccountsGranted
        <2>3. n \in Nat
            BY <1>1, <2>1 DEF Codes
        <2> QED
            BY <1>1, <2>2, <2>3 DEF Codes
    <1>4. /\ account' \in [Agent -> [claimed : BOOLEAN, by : Person \cup {None}, code : Codes]]
          /\ \A b \in Agent \ {a} : account'[b] = account[b]
          /\ account'[a].code \in {n, n + 1}
          /\ account'[a].claimed => account'[a].by = account[a].by /\ account[a].claimed
          /\ account'[a].by # None => account'[a].claimed
        <2>1. CASE create_claim_link(a)
            <3>1. account' = [account EXCEPT ![a].code = n + 1]
                BY <1>2, <2>1 DEF create_claim_link
            <3> QED
                BY <1>1, <1>3, <3>1 DEF TypeOK, AccountsGranted
        <2>2. CASE debug_reset_dashboard_claims(a)
            <3>1. account' = [account EXCEPT ![a].claimed = FALSE, ![a].by = None]
                BY <2>2 DEF debug_reset_dashboard_claims, reset_dashboard_claims
            <3> QED
                BY <1>1, <1>2, <3>1 DEF TypeOK
        <2> QED
            BY <2>1, <2>2
    <1>5. AccountsGranted'
        <2> SUFFICES ASSUME NEW b \in Agent
                     PROVE  /\ account'[b].claimed => <<b, Claimant(b)'>> \in granted'
                            /\ account'[b].by # None => account'[b].claimed
                            /\ account'[b].code <= upsets'
            BY DEF AccountsGranted
        <2>1. account'[b].claimed => account'[b].by = account[b].by /\ account[b].claimed
            BY <1>4
        <2>2. account'[b].claimed => <<b, Claimant(b)'>> \in granted'
            BY <1>1, <2>1 DEF AccountsGranted, Claimant
        <2>5. account'[b].by # None => account'[b].claimed
            BY <1>1, <1>4 DEF AccountsGranted
        <2>3. CASE b = a
            BY <1>1, <1>3, <1>4, <2>2, <2>3, <2>5
        <2>4. CASE b # a
            <3>1. PICK m : m = account[b].code
                OBVIOUS
            <3>2. m \in Codes /\ m <= upsets
                BY <1>1, <3>1 DEF TypeOK, AccountsGranted
            <3>3. m <= upsets'
                BY <1>1, <3>2 DEF Codes
            <3> QED
                BY <1>4, <2>2, <2>4, <2>5, <3>1, <3>3
        <2> QED
            BY <2>3, <2>4
    <1>6. TypeOK'
        <2>1. upsets' \in 0..Upsets
            BY <1>1
        <2> QED
            BY <1>1, <1>4, <2>1 DEF TypeOK
    <1>7. MovedAsShown' /\ SessionAlone'
        BY <1>1 DEF ClaimsInv, MovedAsShown, SessionAlone
    <1>8. \A t \in Tab, k \in Fetches : Reads(t, k) # {} => Reads(t, k)' # {}
        BY <1>1 DEF Reads
    <1> QED
        BY <1>1, <1>5, <1>6, <1>7, <1>8, PagesKept

-----------------------------------------------------------------------------
(* Claims and withdrawals are asked for, and candidates picked.            *)

LEMMA PostKeeps ==
    ASSUME ClaimsInv, NEW t \in Tab, NEW c \in Calls, c.tab = t, page[t].checked,
           c.kind \in {"claim", "withdraw"}, c.owner = page[t].user,
           c.agent \in Agent, c.owner \in Person, ~c.ok,
           calls' = calls \cup {c}, posts < Posts, posts' = posts + 1,
           UNCHANGED <<account, cookie, page, granted, moved, loads, upsets>>
    PROVE  ClaimsInv'
    <1>1. TypeOK /\ Posts \in Nat
        BY ClaimsAssumption DEF ClaimsInv
    <1>2. posts' \in 0..Posts
        BY <1>1 DEF TypeOK
    <1>3. TypeOK'
        BY <1>1, <1>2 DEF TypeOK
    <1>4. CallHonest(c)' /\ CallFits(c)'
        BY DEF CallHonest, CallFits
    <1>5. SessionAlone'
        <2>1. \A d \in calls : d.tab = t => d.kind # "session"
            BY CheckedCalls
        <2> QED
            BY <2>1 DEF ClaimsInv, SessionAlone
    <1>6. \A u \in Tab, k \in Fetches : Reads(u, k) # {} => Reads(u, k)' # {}
        BY DEF Reads
    <1> QED
        BY <1>3, <1>4, <1>5, <1>6, PagesKept, BooksKept

LEMMA ClaimKeeps ==
    ASSUME ClaimsInv, NEW t \in Tab, Claim(t)
    PROVE  ClaimsInv'
    <1>1. PICK p, m : p = page[t] /\ m = p.form.match
        OBVIOUS
    <1>2. TypeOK /\ p \in Page /\ PageTidy(p) /\ m # None
        BY <1>1 DEF ClaimsInv, TypeOK, Claim
    <1>3. FormShown(p)
        BY <1>1, <1>2 DEF PageTidy, NoForm
    <1>4. m \in Candidates /\ p.user \in Person /\ p.checked /\ p.modal \in BOOLEAN
        BY <1>1, <1>2, <1>3 DEF Page, Form, FormShown, SignedIn
    <1>5. m[1] \in Agent /\ m[2] \in Codes
        BY <1>4 DEF Candidates
    <1>6a. PICK n, w, s : n = Call(t, "claim") /\ w = p.user /\ s = cookie
        OBVIOUS
    <1>6b. PICK a, k : a = m[1] /\ k = m[2]
        OBVIOUS
    <1>6c. PICK c : c = [n EXCEPT !.session = s, !.owner = w, !.agent = a, !.code = k,
                                  !.add = p.modal, !.heard = TRUE]
        OBVIOUS
    <1>6. /\ n = Call(t, "claim") /\ w = p.user /\ s = cookie /\ a = m[1] /\ k = m[2]
          /\ c = [n EXCEPT !.session = s, !.owner = w, !.agent = a, !.code = k,
                            !.add = p.modal, !.heard = TRUE]
        BY <1>6a, <1>6b, <1>6c
    <1>7. n \in Calls /\ n.tab = t /\ n.kind = "claim" /\ n.ok = FALSE
        BY <1>6, CallIs DEF Kinds
    <1>8. s \in Person \cup {None}
        BY <1>2, <1>6 DEF TypeOK
    <1>9. /\ c \in Calls /\ c.tab = t /\ c.kind = "claim" /\ c.ok = FALSE
          /\ c.owner = w /\ c.agent = a
        BY <1>4, <1>5, <1>6, <1>7, <1>8 DEF Calls
    <1>10. /\ calls' = calls \cup {c} /\ posts < Posts /\ posts' = posts + 1
           /\ UNCHANGED <<account, cookie, page, granted, moved, loads, upsets>>
        BY <1>1, <1>6 DEF Claim
    <1> QED
        BY <1>1, <1>4, <1>5, <1>6, <1>9, <1>10, PostKeeps

LEMMA WithdrawKeeps ==
    ASSUME ClaimsInv, NEW t \in Tab, Withdraw(t)
    PROVE  ClaimsInv'
    <1>1. PICK p : p = page[t]
        OBVIOUS
    <1>2. TypeOK /\ p \in Page /\ Surface(p)
        BY <1>1 DEF ClaimsInv, TypeOK, Withdraw
    <1>3. p.user \in Person /\ p.checked /\ p.roster.agents \in SUBSET Agent
        BY <1>2 DEF Page, Roster, Surface, SignedIn
    <1>4. PICK a \in page[t].roster.agents :
              calls' = calls \cup {[Call(t, "withdraw") EXCEPT !.session = cookie,
                                        !.owner = page[t].user, !.agent = a]}
        <2>1. \E a \in page[t].roster.agents :
                 calls' = calls \cup {[Call(t, "withdraw") EXCEPT !.session = cookie,
                                           !.owner = page[t].user, !.agent = a]}
            BY Zenon DEF Withdraw
        <2> QED
            BY <2>1, Zenon
    <1>5. PICK n, c, w, s : /\ n = Call(t, "withdraw") /\ w = p.user /\ s = cookie
                            /\ c = [n EXCEPT !.session = s, !.owner = w, !.agent = a]
        OBVIOUS
    <1>6. n \in Calls /\ n.tab = t /\ n.kind = "withdraw" /\ n.ok = FALSE
        BY <1>5, CallIs DEF Kinds
    <1>7. s \in Person \cup {None} /\ a \in Agent
        BY <1>1, <1>2, <1>3, <1>4, <1>5 DEF TypeOK
    <1>8. /\ c \in Calls /\ c.tab = t /\ c.kind = "withdraw" /\ c.ok = FALSE
          /\ c.owner = w /\ c.agent = a
        BY <1>3, <1>5, <1>6, <1>7 DEF Calls
    <1>9. /\ calls' = calls \cup {c} /\ posts < Posts /\ posts' = posts + 1
          /\ UNCHANGED <<account, cookie, page, granted, moved, loads, upsets>>
        BY <1>1, <1>4, <1>5 DEF Withdraw
    <1> QED
        BY <1>1, <1>3, <1>5, <1>7, <1>8, <1>9, PostKeeps

LEMMA MatchKeeps ==
    ASSUME ClaimsInv, NEW t \in Tab, Validate(t) \/ UseDifferent(t)
    PROVE  ClaimsInv'
    <1>1. PICK p : p = page[t]
        OBVIOUS
    <1>2. TypeOK /\ p \in Page /\ p.form \in Form /\ PageTidy(p) /\ Sound(t)
        BY <1>1, InvMeans DEF ClaimsInv, TypeOK, Page
    <1>3. PICK m \in Candidates \cup {None} : page' = [page EXCEPT ![t].form.match = m]
        BY <1>1, <1>2 DEF Validate, UseDifferent, Form
    <1>4. /\ UNCHANGED <<account, cookie, calls, granted, moved, loads, posts, upsets>>
          /\ FormShown(p)
        BY <1>1, <1>2 DEF Validate, UseDifferent, PageTidy, NoForm
    <1>5. PICK f : f = [p.form EXCEPT !.match = m]
        OBVIOUS
    <1>6. f \in Form /\ f.status = p.form.status
        BY <1>2, <1>5 DEF Form
    <1>7. PICK q : q = [p EXCEPT !.form = f]
        OBVIOUS
    <1>8. /\ q \in Page /\ q.checked = p.checked /\ q.user = p.user /\ q.agents = p.agents
          /\ q.foreign = p.foreign
          /\ q.roster = p.roster /\ q.missed = p.missed /\ q.modal = p.modal /\ q.form = f
        BY <1>2, <1>6, <1>7 DEF Page
    <1>9. page' = [page EXCEPT ![t] = q]
        BY <1>1, <1>3, <1>5, <1>7
    <1>10. /\ page' \in [Tab -> Page] /\ page'[t] = q
           /\ \A u \in Tab \ {t} : page'[u] = page[u]
        BY <1>2, <1>8, <1>9 DEF TypeOK
    <1>11. TypeOK'
        BY <1>2, <1>4, <1>10 DEF TypeOK
    <1>12. (Surface(q) <=> Surface(p)) /\ (FormShown(q) <=> FormShown(p))
        BY <1>8 DEF Surface, FormShown, SignedIn
    <1>13. ASSUME NEW c \in calls' PROVE CallHonest(c)' /\ CallFits(c)'
        <2>1. CallHonest(c) /\ CallFits(c)
            BY <1>4 DEF ClaimsInv
        <2>2. CASE c.tab # t
            BY <1>4, <1>10, <2>1, <2>2, CallKept
        <2>3. CASE c.tab = t
            <3>1. CallHonest(c)'
                BY <1>4, <2>1 DEF CallHonest
            <3>2. CallFits(c)'
                BY <1>1, <1>8, <1>10, <1>12, <2>1, <2>3 DEF CallFits
            <3> QED
                BY <3>1, <3>2
        <2> QED
            BY <2>2, <2>3
    <1>14. \A u \in Tab, k \in Fetches : Reads(u, k)' = Reads(u, k)
        BY <1>4 DEF Reads
    <1>15. ASSUME NEW u \in Tab PROVE Sound(u)'
        <2>1. CASE u = t
            <3>1. PageTidy(q)
                BY <1>2, <1>4, <1>8, <1>12 DEF PageTidy
            <3>2. q.user # None => \A a \in q.agents : <<a, q.user>> \in granted' \/ a \in q.foreign
                BY <1>1, <1>2, <1>4, <1>8 DEF Sound
            <3>3. /\ q.roster # NoRoster =>
                        /\ q.roster.owner = q.user
                        /\ q.roster.for = q.agents \/ Reads(t, "portfolio") # {} \/ q.missed
                  /\ ~q.checked => Reads(t, "session") # {}
                  /\ q.form.status = "loading" => Reads(t, "candidates") # {}
                BY <1>1, <1>2, <1>6, <1>8 DEF Sound
            <3>4. /\ Reads(t, "portfolio")' = Reads(t, "portfolio")
                  /\ Reads(t, "session")' = Reads(t, "session")
                  /\ Reads(t, "candidates")' = Reads(t, "candidates")
                BY <1>14 DEF Fetches
            <3> QED
                BY <1>10, <2>1, <3>1, <3>2, <3>3, <3>4 DEF Sound
        <2>2. CASE u # t
            BY <1>4, <1>10, <1>14, <2>2, SoundKept
        <2> QED
            BY <2>1, <2>2
    <1>16. AccountsGranted' /\ MovedAsShown' /\ SessionAlone'
        BY <1>4, BooksKept DEF ClaimsInv, SessionAlone
    <1> QED
        BY <1>11, <1>13, <1>15, <1>16, InvMeansNext

-----------------------------------------------------------------------------
(* Page loads, and the whole.                                              *)

LEMMA NewPageIs ==
    /\ NewPage \in Page /\ ~NewPage.checked /\ NewPage.user = None
    /\ NewPage.agents = {} /\ NewPage.roster = NoRoster /\ NewPage.form = NoForm
    /\ ~NewPage.modal /\ NoForm.status = "none"
    <1>1. NoRoster \in Roster /\ NoForm \in Form /\ NoForm.status = "none"
        BY DEF NoRoster, Roster, NoForm, Form
    <1> QED
        BY <1>1 DEF NewPage, Page

LEMMA LoadKeeps ==
    ASSUME ClaimsInv, NEW t \in Tab, NEW session \in Person \cup {None}, Load(t, session),
           page' = [page EXCEPT ![t] = NewPage], cookie' \in Person \cup {None},
           UNCHANGED <<account, granted, moved, posts, upsets>>
    PROVE  ClaimsInv'
    <1>1. TypeOK /\ Visits \in Nat
        BY ClaimsAssumption DEF ClaimsInv
    <1>2. PICK n, c : n = Call(t, "session") /\ c = [n EXCEPT !.session = session]
        OBVIOUS
    <1>3. n \in Calls /\ n.tab = t /\ n.kind = "session" /\ n.ok = FALSE
        BY <1>2, CallIs DEF Kinds
    <1>4. c \in Calls /\ c.tab = t /\ c.kind = "session" /\ c.ok = FALSE
        BY <1>2, <1>3 DEF Calls
    <1>5. /\ calls' = Left(t) \cup {c}
          /\ loads < Visits /\ loads' = loads + 1
        BY <1>2 DEF Load
    <1>6. ASSUME NEW d \in Left(t)
          PROVE  \/ d \in calls /\ d.tab # t
                 \/ /\ d \in Calls /\ d.tab = None /\ ~d.done
                    /\ d.kind \in {"claim", "withdraw", "logout"}
                    /\ d.kind = "claim" => /\ d.agent \in Agent /\ d.owner \in Person
                                           /\ d.ok => <<d.agent, d.who>> \in granted
                    /\ d.kind = "withdraw" => /\ d.agent \in Agent
                                              /\ d.ok => /\ d.who = d.owner /\ d.who # None
                                                         /\ <<d.agent, d.who>> \in granted
        <2>1. CASE d \in {e \in calls : e.tab # t}
            BY <2>1
        <2>2. ASSUME NEW e \in calls, ~e.done, e.kind \in {"claim", "withdraw", "logout"},
                     d = [e EXCEPT !.tab = None, !.heard = FALSE]
              PROVE  /\ d \in Calls /\ d.tab = None /\ ~d.done
                     /\ d.kind \in {"claim", "withdraw", "logout"}
                     /\ d.kind = "claim" => /\ d.agent \in Agent /\ d.owner \in Person
                                            /\ d.ok => <<d.agent, d.who>> \in granted
                     /\ d.kind = "withdraw" => /\ d.agent \in Agent
                                               /\ d.ok => /\ d.who = d.owner /\ d.who # None
                                                          /\ <<d.agent, d.who>> \in granted
            <3>1. e \in Calls /\ CallHonest(e)
                BY <1>1 DEF ClaimsInv, TypeOK
            <3>2. /\ d \in Calls /\ d.tab = None /\ d.done = e.done /\ d.kind = e.kind
                  /\ d.agent = e.agent /\ d.owner = e.owner /\ d.ok = e.ok /\ d.who = e.who
                BY <2>2, <3>1 DEF Calls
            <3> QED
                BY <2>2, <3>1, <3>2 DEF CallHonest
        <2> QED
            BY <2>1, <2>2 DEF Left
    <1>7. /\ page' \in [Tab -> Page] /\ page'[t] = NewPage
          /\ \A u \in Tab \ {t} : page'[u] = page[u]
        BY <1>1, NewPageIs DEF TypeOK
    <1>8. TypeOK'
        <2>1. calls' \subseteq Calls
            BY <1>1, <1>4, <1>5, <1>6 DEF TypeOK
        <2>2. loads' \in 0..Visits
            BY <1>1, <1>5 DEF TypeOK
        <2> QED
            BY <1>1, <1>7, <2>1, <2>2 DEF TypeOK
    <1>9. AccountsGranted' /\ MovedAsShown'
        BY BooksKept
    <1>10. ASSUME NEW d \in calls' PROVE CallHonest(d)' /\ CallFits(d)'
        <2>1. CASE d = c
            BY <1>4, <1>7, <2>1, NewPageIs DEF CallHonest, CallFits
        <2>2. CASE d \in calls /\ d.tab # t
            BY <1>7, <2>2, CallKept DEF ClaimsInv
        <2>3. CASE d \in Left(t) /\ ~(d \in calls /\ d.tab # t)
            <3>1. /\ d.tab \notin Tab /\ ~d.done
                  /\ d.kind \in {"claim", "withdraw", "logout"}
                  /\ d.kind = "claim" => /\ d.agent \in Agent /\ d.owner \in Person
                                         /\ d.ok => <<d.agent, d.who>> \in granted
                  /\ d.kind = "withdraw" => /\ d.agent \in Agent
                                            /\ d.ok => /\ d.who = d.owner /\ d.who # None
                                                       /\ <<d.agent, d.who>> \in granted
                BY <1>6, <2>3, ClaimsAssumption
            <3>2. CallFits(d)'
                BY <3>1 DEF CallFits
            <3>3. CallHonest(d)'
                <4>1. granted' = granted
                    OBVIOUS
                <4>2. d.kind # "session"
                    BY <3>1
                <4>3. CASE d.ok
                    BY <3>1, <4>1, <4>2, <4>3 DEF CallHonest
                <4>4. CASE ~d.ok
                    BY <3>1, <4>1, <4>2, <4>4 DEF CallHonest
                <4> QED
                    BY <4>3, <4>4
            <3> QED
                BY <3>2, <3>3
        <2> QED
            BY <1>5, <2>1, <2>2, <2>3
    <1>11. SessionAlone'
        <2>1. \A d \in calls' : d.tab \in Tab => (d = c \/ (d \in calls /\ d.tab # t))
            BY <1>5, <1>6, ClaimsAssumption
        <2> QED
            BY <1>4, <2>1 DEF ClaimsInv, SessionAlone
    <1>12. ASSUME NEW u \in Tab PROVE Sound(u)'
        <2>1. CASE u = t
            <3>1. ~FormShown(NewPage) /\ ~Surface(NewPage)
                BY NewPageIs DEF FormShown, Surface, SignedIn
            <3>2. PageTidy(NewPage)
                BY <3>1, NewPageIs DEF PageTidy
            <3>3. Reads(t, "session")' # {}
                BY <1>4, <1>5 DEF Reads
            <3> QED
                BY <1>7, <2>1, <3>2, <3>3, NewPageIs DEF Sound
        <2>2. CASE u # t
            <3>1. \A k \in Fetches : Reads(u, k) # {} => Reads(u, k)' # {}
                BY <1>5, <2>2 DEF Reads, Left
            <3> QED
                BY <1>7, <2>2, <3>1, SoundKept
        <2> QED
            BY <2>1, <2>2
    <1> QED
        BY <1>8, <1>9, <1>10, <1>11, <1>12, InvMeansNext

LEMMA InitHolds ==
    ASSUME Init
    PROVE  ClaimsInv
    <1>1. PICK blank : blank = [NewPage EXCEPT !.checked = TRUE]
        OBVIOUS
    <1>2. /\ blank \in Page /\ blank.checked /\ blank.user = None
          /\ blank.agents = {} /\ blank.roster = NoRoster /\ blank.form = NoForm
          /\ ~blank.modal /\ blank.form.status = "none"
        BY <1>1, NewPageIs DEF Page
    <1>3. \A t \in Tab : page[t] = blank
        BY <1>1 DEF Init
    <1>4. /\ account \in [Agent -> [claimed : BOOLEAN, by : Person \cup {None}, code : Codes]]
          /\ \A a \in Agent : /\ account[a].code = 0
                              /\ account[a].by # None => account[a].claimed
        <2>1. \A a \in Agent : First[a] \in Person \cup {None}
            BY ClaimsAssumption
        <2>2. 0 \in Codes
            BY ClaimsAssumption DEF Codes
        <2>3. account = [a \in Agent |-> [claimed |-> a \in Legacy \/ First[a] # None,
                                          by |-> First[a], code |-> 0]]
            BY DEF Init
        <2>4. ASSUME NEW a \in Agent
              PROVE  /\ account[a] \in [claimed : BOOLEAN, by : Person \cup {None}, code : Codes]
                     /\ account[a].code = 0
                     /\ account[a].by # None => account[a].claimed
            <3>1. PICK yes \in BOOLEAN : yes = (a \in Legacy \/ First[a] # None)
                OBVIOUS
            <3>2. account[a] = [claimed |-> yes, by |-> First[a], code |-> 0]
                BY <2>3, <3>1
            <3>3. account[a].claimed = yes /\ account[a].by = First[a] /\ account[a].code = 0
                BY <3>2
            <3>4. account[a] \in [claimed : BOOLEAN, by : Person \cup {None}, code : Codes]
                BY <2>1, <2>2, <3>2
            <3> QED
                BY <3>1, <3>3, <3>4
        <2> QED
            BY <2>3, <2>4
    <1>5. \A a \in Agent : Claimant(a) \in Person
        BY <1>4, ClaimsAssumption DEF Claimant
    <1>6. granted \subseteq Agent \X Person
        BY <1>5 DEF Init
    <1>7. TypeOK
        <2>1. /\ cookie \in Person \cup {None} /\ calls \subseteq Calls
              /\ page \in [Tab -> Page]
            BY <1>1, <1>2 DEF Init
        <2>2. loads \in 0..Visits /\ posts \in 0..Posts /\ upsets \in 0..Upsets
            BY ClaimsAssumption DEF Init
        <2>3. moved = {}
            BY DEF Init
        <2> QED
            BY <1>4, <1>6, <2>1, <2>2, <2>3 DEF TypeOK
    <1>8. AccountsGranted
        <2>1. \A a \in Agent : account[a].code <= upsets
            BY <1>4 DEF Init
        <2> QED
            BY <1>4, <2>1 DEF Init, AccountsGranted
    <1>9. ASSUME NEW t \in Tab PROVE Sound(t)
        <2>1. ~FormShown(blank) /\ ~Surface(blank)
            BY <1>2 DEF FormShown, Surface, SignedIn
        <2> QED
            BY <1>2, <1>3, <2>1 DEF Sound, PageTidy
    <1>10. calls = {} /\ SessionAlone /\ MovedAsShown
        BY DEF Init, SessionAlone, MovedAsShown
    <1> QED
        BY <1>7, <1>8, <1>9, <1>10, InvMeans

LEMMA StepKeeps ==
    ASSUME ClaimsInv, [Next]_vars
    PROVE  ClaimsInv'
    <1>1. ASSUME NEW t \in Tab, PageStep(t) PROVE ClaimsInv'
        <2>1. CASE Reload(t)
            <3>1. Load(t, cookie) /\ page' = [page EXCEPT ![t] = NewPage]
                BY <2>1 DEF Reload
            <3>2. cookie' = cookie /\ UNCHANGED <<account, granted, moved, posts, upsets>>
                BY <2>1 DEF Reload
            <3>3. PICK session : session = cookie
                OBVIOUS
            <3>4. session \in Person \cup {None}
                BY <3>3 DEF ClaimsInv, TypeOK
            <3>5. Load(t, session)
                BY <3>1, <3>3
            <3> QED
                BY <3>1, <3>2, <3>3, <3>4, <3>5, LoadKeeps
        <2>2. ASSUME NEW p \in Person, Login(t, p) PROVE ClaimsInv'
            BY <2>2, LoadKeeps DEF Login
        <2> QED
            BY <1>1, <2>1, <2>2, SignOutKeeps, ModalKeeps, MatchKeeps, ClaimKeeps, WithdrawKeeps
            DEF PageStep
    <1>2. ASSUME NEW c \in calls, Handle(c) \/ Receive(c) \/ Lose(c) \/ auth_logout(c)
          PROVE  ClaimsInv'
        BY <1>2, HandleKeeps, ArrivesKeeps, LogoutHandledKeeps
    <1>3. ASSUME NEW a \in Agent, create_claim_link(a) \/ debug_reset_dashboard_claims(a)
          PROVE  ClaimsInv'
        BY <1>3, UpsetKeeps
    <1>4. CASE UNCHANGED vars
        <2>1. UNCHANGED <<account, cookie, page, calls, granted, moved, loads, posts, upsets>>
            BY <1>4 DEF vars
        <2>2. TypeOK' /\ SessionAlone' /\ AccountsGranted' /\ MovedAsShown'
            BY <2>1, BooksKept DEF ClaimsInv, TypeOK, SessionAlone
        <2>3. \A t \in Tab, k \in Fetches : Reads(t, k) # {} => Reads(t, k)' # {}
            BY <2>1 DEF Reads
        <2> QED
            BY <2>1, <2>2, <2>3, PagesKept
    <1> QED
        BY <1>1, <1>2, <1>3, <1>4 DEF Next

(* The invariant of the pages and of the handlers they call, for any       *)
(* number of tabs, people and agents, whatever is lost, repeated or late.  *)
THEOREM ClaimsInvariant == Spec => []ClaimsInv
    <1>1. Init => ClaimsInv
        BY InitHolds
    <1>2. ClaimsInv /\ [Next]_vars => ClaimsInv'
        BY StepKeeps
    <1> QED
        BY <1>1, <1>2, PTL DEF Spec

(* No page lists an agent that the ledger has not given to its user, but   *)
(* for those a claim from that page gave to whom the cookie named instead  *)
(* (MvpAppStateProvider.jsx:352, main.py:671).                             *)
THEOREM PagesAlwaysBacked == Spec => []PageIsBacked
    <1>1. ClaimsInv => PageIsBacked
        BY DEF ClaimsInv
    <1> QED
        BY <1>1, ClaimsInvariant, PTL

(* A portfolio shown is its page's user's, and of the agents listed unless *)
(* it is being fetched again or could not be (DashboardApp.jsx:122).       *)
THEOREM RostersKeepUp == Spec => []RosterKeepsUp
    <1>1. ClaimsInv => RosterKeepsUp
        BY DEF ClaimsInv
    <1> QED
        BY <1>1, ClaimsInvariant, PTL

(* A withdrawal is paid for the person its page shows, or for one who has  *)
(* signed out or left since, and who was given the agent (main.py:870).    *)
THEOREM MovedOnlyAsShown == Spec => []MovedAsShown
    <1>1. ClaimsInv => MovedAsShown
        BY DEF ClaimsInv
    <1> QED
        BY <1>1, ClaimsInvariant, PTL

(* A page that waits has a call out whose answer ends the wait             *)
(* (ClaimForm.jsx:18).                                                     *)
THEOREM AlwaysWaitsForAnswer == Spec => []WaitsForAnswer
    <1>1. ClaimsInv => WaitsForAnswer
        BY DEF ClaimsInv
    <1> QED
        BY <1>1, ClaimsInvariant, PTL

=============================================================================
