------------------------- MODULE AgentWalletsProofs -------------------------
(***************************************************************************)
(* Proofs about AgentWallets for any agents, owners and wallets, any       *)
(* number of requests at the same time and every fault of the model.       *)
(***************************************************************************)
EXTENDS AgentWallets, TLAPS

LEMMA UpsertGives ==
    ASSUME NEW f \in File, NEW a \in Agent, NEW w \in Wallet, NEW live \in BOOLEAN
    PROVE  /\ UpsertBinding(f, a, w, live) \in File
           /\ UpsertBinding(f, a, w, live).whole = f.whole
           /\ UpsertBinding(f, a, w, live).wallets = f.wallets
           /\ UpsertBinding(f, a, w, live).bindings[a] = w
           /\ a \notin UpsertBinding(f, a, w, live).mocks => live
           /\ \A b \in Agent \ {a} :
                 \/ /\ b \in SameOwner(a)
                    /\ UpsertBinding(f, a, w, live).bindings[b] = None
                 \/ /\ b \notin SameOwner(a)
                    /\ UpsertBinding(f, a, w, live).bindings[b] = f.bindings[b]
                    /\ b \notin UpsertBinding(f, a, w, live).mocks => b \notin f.mocks
    <1>1. PICK bindings : bindings = [b \in Agent |-> IF b = a THEN w
                                                     ELSE IF b \in SameOwner(a) THEN None
                                                     ELSE f.bindings[b]]
        OBVIOUS
    <1>2. PICK mocks : mocks = (f.mocks \ SameOwner(a)) \cup IF live THEN {} ELSE {a}
        OBVIOUS
    <1>3. UpsertBinding(f, a, w, live)
            = [f EXCEPT !.bindings = bindings, !.mocks = mocks]
        BY <1>1, <1>2 DEF UpsertBinding
    <1>4. bindings \in [Agent -> Wallet \cup {None}] /\ mocks \in SUBSET Agent
        BY <1>1, <1>2 DEF File
    <1>5. /\ UpsertBinding(f, a, w, live) \in File
          /\ UpsertBinding(f, a, w, live).whole = f.whole
          /\ UpsertBinding(f, a, w, live).wallets = f.wallets
          /\ UpsertBinding(f, a, w, live).bindings = bindings
          /\ UpsertBinding(f, a, w, live).mocks = mocks
        BY <1>3, <1>4 DEF File
    <1>6. a \in SameOwner(a)
        BY DEF SameOwner
    <1> QED
        BY <1>1, <1>2, <1>5, <1>6

(* The file with a's binding to a wallet that exists is as sane as it was. *)
LEMMA UpsertSane ==
    ASSUME NEW f \in File, FileSane(f), NEW a \in Agent, NEW w \in Known,
           NEW live \in BOOLEAN, live => w \in Usable
    PROVE  FileSane(UpsertBinding(f, a, w, live))
    <1> DEFINE g == UpsertBinding(f, a, w, live)
    <1>1. w \in Wallet
        BY DEF Known
    <1>2. g.wallets \subseteq Known
        BY <1>1, UpsertGives DEF FileSane
    <1>3. ASSUME NEW b \in Agent
          PROVE  /\ g.bindings[b] \in Known \cup {None}
                 /\ g.bindings[b] # None /\ b \notin g.mocks => g.bindings[b] \in Usable
        <2>1. CASE b = a
            BY <1>1, <2>1, UpsertGives
        <2>2. CASE b # a
            <3>1. \/ g.bindings[b] = None
                  \/ /\ g.bindings[b] = f.bindings[b]
                     /\ b \notin g.mocks => b \notin f.mocks
                BY <1>1, <2>2, UpsertGives
            <3> QED
                BY <3>1 DEF FileSane
        <2> QED
            BY <2>1, <2>2
    <1> QED
        BY <1>2, <1>3 DEF FileSane

-----------------------------------------------------------------------------
(* The requests.                                                           *)

LEMMA NoReqTypes == NoReq \in Req /\ EmptyFile \in File
    BY WalletAssumption DEF NoReq, EmptyFile, Req, File, Step

LEMMA EmptyIsSane == FileSane(EmptyFile)
    BY DEF FileSane, EmptyFile

LEMMA InvParts ==
    ASSUME WalletsInv, NEW r \in Request
    PROVE  /\ TypeOK /\ RequestSane(r) /\ RequestAgrees(r)
           /\ req[r] \in Req /\ file \in File /\ FileSane(file) /\ AccountsUsable
           /\ Known \subseteq Wallet /\ None \notin Known /\ None \notin Loose
    <1>1. TypeOK /\ RequestSane(r) /\ RequestAgrees(r) /\ FileSane(file) /\ AccountsUsable
        BY DEF WalletsInv
    <1> QED
        BY <1>1, WalletAssumption DEF TypeOK, Known, Loose

(* A step of one request keeps the types if the request stays sane.        *)
LEMMA OneRequest ==
    ASSUME TypeOK, NEW r \in Request, NEW q \in Req,
           req' = [req EXCEPT ![r] = q], RequestSane(r)', Known' \subseteq Wallet
    PROVE  /\ req' \in [Request -> Req] /\ req'[r] = q
           /\ \A s \in Request \ {r} : req'[s] = req[s]
           /\ \A s \in Request :
                 req'[s].pc \in {"read", "write", "answer"}
                    => req'[s].agent # None /\ req'[s].wallet # None
    <1>1. /\ req' \in [Request -> Req] /\ req'[r] = q
          /\ \A s \in Request \ {r} : req'[s] = req[s]
        BY DEF TypeOK
    <1>2. q.pc \in HasWallet => q.agent # None /\ q.wallet # None
        BY <1>1, WalletAssumption DEF RequestSane
    <1> QED
        BY <1>1, <1>2 DEF TypeOK, HasWallet

(* A step that changes only the request keeps the invariant if the request *)
(* still agrees with the rest and keeps the wallet it has created.         *)
LEMMA RequestOnly ==
    ASSUME WalletsInv, NEW r \in Request, NEW q \in Req, OnlyReq,
           req' = [req EXCEPT ![r] = q],
           req[r].created => /\ q.created
                             /\ q.wallet = req[r].wallet
                             /\ q.agent = req[r].agent,
           RequestSane(r)', RequestAgrees(r)'
    PROVE  WalletsInv'
    <1>1. TypeOK
        BY DEF WalletsInv
    <1>2. /\ file' = file /\ account' = account /\ madeFor' = madeFor
          /\ chosen' = chosen /\ orphaned' = orphaned /\ disturbed' = disturbed
          /\ Known' = Known /\ Loose' = Loose /\ Held' = Held
        BY DEF OnlyReq, history, Known, Loose, Held
    <1>3. /\ req' \in [Request -> Req] /\ req'[r] = q
          /\ \A s \in Request \ {r} : req'[s] = req[s]
          /\ TypeOK'
        BY <1>1, <1>2, InvParts, OneRequest DEF TypeOK
    <1>4. ASSUME NEW s \in Request PROVE RequestSane(s)' /\ RequestAgrees(s)'
        <2>1. CASE s # r
            <3>1. RequestSane(s) /\ RequestAgrees(s) /\ req'[s] = req[s]
                BY <1>3, <2>1 DEF WalletsInv
            <3>2. FileSane(req[s].seen)' = FileSane(req[s].seen)
                BY <1>2, <3>1 DEF FileSane
            <3>3. RequestSane(s)'
                BY <1>2, <3>1, <3>2 DEF RequestSane, FileSane
            <3>4. RequestAgrees(s)'
                BY <1>2, <3>1 DEF RequestAgrees, WalletFree, SameOrChosen
            <3> QED
                BY <3>3, <3>4
        <2> QED
            BY <2>1
    <1>5. ASSUME NEW w \in Wallet PROVE MadeAgrees(w)'
        <2>1. MadeAgrees(w)
            BY DEF WalletsInv
        <2> QED
            BY <1>2, <1>3, <2>1 DEF MadeAgrees
    <1>6. ASSUME NEW a \in Agent \ disturbed PROVE AgentAgrees(a)'
        <2>1. AgentAgrees(a)
            BY DEF WalletsInv
        <2> QED
            BY <1>2, <2>1 DEF AgentAgrees, SameOrChosen
    <1>7. (Stock \subseteq Known /\ FileSane(file) /\ AccountsUsable /\ WalletsExclusive)'
        BY <1>2 DEF WalletsInv, FileSane, AccountsUsable, WalletsExclusive
    <1> QED
        BY <1>2, <1>3, <1>4, <1>5, <1>6, <1>7 DEF WalletsInv

(* What a step makes of its request.                                       *)
LEMMA GotoGives ==
    ASSUME NEW q \in Req, NEW pc \in Step
    PROVE  /\ [q EXCEPT !.pc = pc] \in Req
           /\ [q EXCEPT !.pc = pc].pc = pc
           /\ [q EXCEPT !.pc = pc].agent = q.agent
           /\ [q EXCEPT !.pc = pc].want = q.want
           /\ [q EXCEPT !.pc = pc].wallet = q.wallet
           /\ [q EXCEPT !.pc = pc].live = q.live
           /\ [q EXCEPT !.pc = pc].created = q.created
           /\ [q EXCEPT !.pc = pc].listing = q.listing
           /\ [q EXCEPT !.pc = pc].seen = q.seen
    BY DEF Req

-----------------------------------------------------------------------------
(* The steps that change only the request.                                 *)

LEMMA CallStep ==
    ASSUME WalletsInv, NEW r \in Request, NEW a \in Agent,
           NEW w \in Known \cup {None}, Call(r, a, w)
    PROVE  WalletsInv'
    <1>1. PICK q : q = [NoReq EXCEPT !.pc = IF w = None THEN "by_id" ELSE "named",
                                    !.agent = a, !.want = w, !.heard = TRUE]
        OBVIOUS
    <1>2. /\ q \in Req /\ q.agent = a /\ q.want = w
          /\ \/ q.pc = "by_id" /\ w = None
             \/ q.pc = "named" /\ w \in Known /\ w # None
          /\ ~q.live /\ ~q.created /\ q.listing = {} /\ q.seen = EmptyFile
        <2>1. PICK q1 : q1 = [NoReq EXCEPT !.pc = IF w = None THEN "by_id" ELSE "named"]
            OBVIOUS
        <2>2. PICK q2 : q2 = [q1 EXCEPT !.agent = a]
            OBVIOUS
        <2>3. PICK q3 : q3 = [q2 EXCEPT !.want = w]
            OBVIOUS
        <2>4. q = [q3 EXCEPT !.heard = TRUE]
            BY <1>1, <2>1, <2>2, <2>3, Zenon
        <2>5. /\ q1 \in Req /\ ~q1.live /\ ~q1.created /\ q1.listing = {}
              /\ q1.seen = EmptyFile
              /\ q1.pc = IF w = None THEN "by_id" ELSE "named"
            <3>1. /\ NoReq \in Req /\ ~NoReq.live /\ ~NoReq.created
                  /\ NoReq.listing = {} /\ NoReq.seen = EmptyFile
                BY NoReqTypes DEF NoReq
            <3>2. (IF w = None THEN "by_id" ELSE "named") \in Step
                BY DEF Step
            <3> QED
                BY <2>1, <3>1, <3>2 DEF Req
        <2>6. q2 \in Req /\ q3 \in Req
            BY <2>2, <2>3, <2>5, InvParts DEF Req
        <2> QED
            BY <2>2, <2>3, <2>4, <2>5, <2>6, InvParts DEF Req
    <1>3. req' = [req EXCEPT ![r] = q] /\ OnlyReq /\ req[r].pc = "idle"
        BY <1>1, Zenon DEF Call, Become, At
    <1>4. req'[r] = q /\ ~req[r].created /\ a # None
        BY <1>3, InvParts, WalletAssumption DEF TypeOK, RequestSane
    <1>5. RequestSane(r)'
        BY <1>2, <1>3, <1>4, EmptyIsSane
        DEF RequestSane, HasWallet, Known, OnlyReq, FileSane, EmptyFile
    <1>6. RequestAgrees(r)'
        BY <1>2, <1>4 DEF RequestAgrees, Searching
    <1> QED
        BY <1>2, <1>3, <1>4, <1>5, <1>6, RequestOnly

LEMMA ImportStep ==
    ASSUME WalletsInv, NEW r \in Request, Import(r)
    PROVE  WalletsInv'
    <1>1. PICK q : q = [NoReq EXCEPT !.pc = "list"]
        OBVIOUS
    <1>2. req[r] = NoReq
        BY InvParts DEF Import, At, RequestSane
    <1>3. /\ q \in Req /\ q.pc = "list" /\ q.agent = None /\ q.want = None
          /\ ~q.live /\ ~q.created /\ q.listing = {} /\ q.seen = EmptyFile
        BY <1>1, NoReqTypes, GotoGives DEF NoReq, Step
    <1>4. req' = [req EXCEPT ![r] = q] /\ req'[r] = q /\ OnlyReq /\ ~req[r].created
        BY <1>1, <1>2, InvParts DEF Import, Goto, Become, TypeOK, NoReq
    <1>5. RequestSane(r)'
        BY <1>3, <1>4 DEF RequestSane, HasWallet, FileSane, EmptyFile
    <1>6. RequestAgrees(r)'
        BY <1>3, <1>4, WalletAssumption DEF RequestAgrees
    <1> QED
        BY <1>3, <1>4, <1>5, <1>6, RequestOnly

(* A wallet is found for the agent.                                        *)
LEMMA FoundStep ==
    ASSUME WalletsInv, NEW r \in Request, NEW w \in Known, NEW live \in BOOLEAN,
           Found(r, w, live), OnlyReq, file.whole, ~req[r].created,
           req[r].agent # None,
           live => w \in Usable,
           req[r].want # None => w = req[r].want,
           req[r].agent \in Agent \ disturbed =>
               \/ req[r].want # None
               \/ file.bindings[req[r].agent] = w
               \/ /\ file.bindings[req[r].agent] = None
                  /\ w \in Loose \/ w \notin Held
    PROVE  WalletsInv'
    <1>1. PICK q : q = [req[r] EXCEPT !.pc = "read", !.wallet = w, !.live = live]
        OBVIOUS
    <1>2. req[r] \in Req /\ w \in Wallet /\ TypeOK /\ RequestSane(r)
        BY InvParts
    <1>3. /\ q \in Req
          /\ q.pc = "read" /\ q.wallet = w /\ q.live = live
          /\ q.agent = req[r].agent /\ q.want = req[r].want /\ q.seen = req[r].seen
          /\ q.created = req[r].created /\ q.listing = req[r].listing
        <2>1. PICK q1 : q1 = [req[r] EXCEPT !.pc = "read"]
            OBVIOUS
        <2>2. PICK q2 : q2 = [q1 EXCEPT !.wallet = w]
            OBVIOUS
        <2>3. q = [q2 EXCEPT !.live = live]
            BY <1>1, <2>1, <2>2
        <2>4. q1 \in Req /\ q2 \in Req
            BY <1>2, <2>1, <2>2 DEF Req, Step
        <2> QED
            BY <1>2, <2>1, <2>2, <2>3, <2>4 DEF Req
    <1>4. req' = [req EXCEPT ![r] = q] /\ req'[r] = q
        BY <1>1, <1>2 DEF Found, Become, TypeOK
    <1>5. /\ Known' = Known /\ Loose' = Loose /\ Held' = Held /\ file' = file
          /\ disturbed' = disturbed
        BY DEF OnlyReq, history, Known, Loose, Held
    <1>6. req[r].agent \in Agent \ disturbed => WalletFree(r)'
        BY <1>3, <1>4, <1>5 DEF WalletFree
    <1>7. RequestAgrees(r)'
        BY <1>3, <1>4, <1>5, <1>6 DEF RequestAgrees, Searching
    <1>8. RequestSane(r)'
        BY <1>2, <1>3, <1>4, <1>5 DEF RequestSane, HasWallet, FileSane
    <1> QED
        BY <1>3, <1>4, <1>7, <1>8, RequestOnly

(* Nothing is found for the agent, and the search goes on.                 *)
LEMMA SearchStep ==
    ASSUME WalletsInv, NEW r \in Request, NEW pc \in {"by_name", "list", "create"},
           Goto(r, pc), OnlyReq, file.whole, ~req[r].created,
           req[r].want = None, req[r].agent # None,
           req[r].agent \in Agent \ disturbed => file.bindings[req[r].agent] = None
    PROVE  WalletsInv'
    <1>1. PICK q : q = [req[r] EXCEPT !.pc = pc]
        OBVIOUS
    <1>2. req[r] \in Req /\ TypeOK /\ RequestSane(r) /\ pc \in Step
        BY InvParts DEF Step
    <1>3. /\ q \in Req /\ q.pc = pc
          /\ q.agent = req[r].agent /\ q.want = req[r].want /\ q.wallet = req[r].wallet
          /\ q.live = req[r].live /\ q.created = req[r].created
          /\ q.listing = req[r].listing /\ q.seen = req[r].seen
        BY <1>1, <1>2, GotoGives
    <1>4. req' = [req EXCEPT ![r] = q] /\ req'[r] = q
        BY <1>1, <1>2 DEF Goto, Become, TypeOK
    <1>5. Known' = Known /\ file' = file /\ disturbed' = disturbed
        BY DEF OnlyReq, history, Known
    <1>6. RequestAgrees(r)'
        BY <1>3, <1>4, <1>5 DEF RequestAgrees
    <1>7. RequestSane(r)'
        BY <1>2, <1>3, <1>4, <1>5 DEF RequestSane, HasWallet, FileSane
    <1> QED
        BY <1>3, <1>4, <1>6, <1>7, RequestOnly

LEMMA FindNamedStep ==
    ASSUME WalletsInv, NEW r \in Request, FindNamed(r)
    PROVE  WalletsInv'
    <1> DEFINE w == req[r].want
               holders == {a \in Agent : file.bindings[a] = w}
    <1>1. PICK live \in BOOLEAN :
             /\ live => w \in file.wallets \cap Usable \/ holders \ file.mocks # {}
             /\ Found(r, w, live)
        BY DEF FindNamed
    <1>2. /\ file.whole /\ OnlyReq /\ ~req[r].created /\ req[r].pc = "named"
          /\ req[r].agent # None /\ w # None /\ w \in Known
        BY InvParts DEF FindNamed, Reads, At, RequestSane
    <1>3. live => w \in Usable
        <2>1. ASSUME NEW a \in holders \ file.mocks PROVE w \in Usable
            BY <1>2, InvParts DEF FileSane
        <2> QED
            BY <1>1, <2>1
    <1> QED
        BY <1>1, <1>2, <1>3, FoundStep

LEMMA FindByIdStep ==
    ASSUME WalletsInv, NEW r \in Request, FindById(r)
    PROVE  WalletsInv'
    <1> DEFINE a == req[r].agent
    <1>1. /\ file.whole /\ OnlyReq /\ ~req[r].created /\ req[r].want = None
          /\ a \in Agent /\ a # None /\ req[r].pc = "by_id"
        BY InvParts DEF FindById, Reads, At, RequestSane, HasWallet, Req
    <1>2. CASE file.bindings[a] # None
        <2>1. Found(r, file.bindings[a], a \notin file.mocks)
            BY <1>2 DEF FindById
        <2>2. file.bindings[a] \in Known
            BY <1>1, <1>2, InvParts DEF FileSane
        <2>3. a \notin file.mocks => file.bindings[a] \in Usable
            BY <1>1, <1>2, InvParts DEF FileSane
        <2>4. (a \notin file.mocks) \in BOOLEAN
            OBVIOUS
        <2> QED
            BY <1>1, <1>2, <2>1, <2>2, <2>3, <2>4, FoundStep
    <1>3. CASE file.bindings[a] = None
        BY <1>1, <1>3, SearchStep DEF FindById
    <1> QED
        BY <1>2, <1>3

(* A wallet made for an agent that is not bound is free for it, also while *)
(* another request for it has the wallet.                                  *)
LEMMA FindByNameStep ==
    ASSUME WalletsInv, NEW r \in Request, FindByName(r)
    PROVE  WalletsInv'
    <1> DEFINE a == req[r].agent
               own == {w \in file.wallets \cap Usable : madeFor[w] = a}
    <1>1. /\ file.whole /\ OnlyReq /\ req[r].want = None /\ req[r].pc = "by_name"
          /\ a \in Agent /\ a # None /\ ~req[r].created
          /\ a \in Agent \ disturbed => file.bindings[a] = None
        BY InvParts
        DEF FindByName, Reads, At, RequestSane, RequestAgrees, HasWallet, Searching, Req
    <1>2. ASSUME NEW w \in own, Found(r, w, TRUE)
          PROVE  WalletsInv'
        <2>1. w \in Known /\ w \in Usable /\ MadeAgrees(w) /\ w # None
            BY <1>2, InvParts DEF WalletsInv, FileSane
        <2>2. a \in Agent \ disturbed => w \in Loose \/ w \notin Held
            <3>1. SUFFICES ASSUME a \in Agent \ disturbed, w \notin Loose
                           PROVE  w \notin Held
                OBVIOUS
            <3>2. PICK s \in Request :
                     req[s].created /\ req[s].wallet = w /\ req[s].agent = a
                BY <1>1, <2>1, <3>1 DEF MadeAgrees
            <3>3. req[s].pc \in {"read", "write"} /\ req[s].want = None
                BY <3>2, InvParts DEF RequestSane
            <3>4. WalletFree(s)
                BY <3>1, <3>2, <3>3, InvParts DEF RequestAgrees
            <3> QED
                BY <1>1, <2>1, <3>1, <3>2, <3>3, <3>4 DEF WalletFree
        <2> QED
            BY <1>1, <1>2, <2>1, <2>2, FoundStep
    <1>3. CASE Goto(r, "list")
        BY <1>1, <1>3, SearchStep
    <1> QED
        BY <1>2, <1>3 DEF FindByName

LEMMA FindUnboundWalletStep ==
    ASSUME WalletsInv, NEW r \in Request, FindUnboundWallet(r)
    PROVE  WalletsInv'
    <1> DEFINE unused == (file.wallets \cap Usable) \ BoundIn(file)
    <1>1. /\ file.whole /\ OnlyReq /\ req[r].want = None /\ ~req[r].created
          /\ req[r].agent # None /\ req[r].pc = "unbound"
          /\ req[r].agent \in Agent \ disturbed => file.bindings[req[r].agent] = None
        BY InvParts
        DEF FindUnboundWallet, Reads, At, RequestSane, RequestAgrees, HasWallet, Searching
    <1>2. ASSUME NEW w \in unused, Found(r, w, TRUE)
          PROVE  WalletsInv'
        <2>1. w \notin Held
            BY DEF Held, BoundIn
        <2>2. w \in Known /\ w \in Usable
            BY InvParts DEF FileSane
        <2> QED
            BY <1>1, <1>2, <2>1, <2>2, FoundStep
    <1>3. CASE Goto(r, "create")
        BY <1>1, <1>3, SearchStep
    <1> QED
        BY <1>2, <1>3 DEF FindUnboundWallet

LEMMA ListWalletsStep ==
    ASSUME WalletsInv, NEW r \in Request, ListWallets(r)
    PROVE  WalletsInv'
    <1>1. PICK q : q = [req[r] EXCEPT !.pc = "read_list", !.listing = Known]
        OBVIOUS
    <1>2. req[r] \in Req /\ TypeOK /\ RequestSane(r) /\ RequestAgrees(r) /\ Known \subseteq Wallet
        BY InvParts
    <1>3. /\ q \in Req /\ q.pc = "read_list" /\ q.listing = Known /\ q.seen = req[r].seen
          /\ q.agent = req[r].agent /\ q.want = req[r].want /\ q.wallet = req[r].wallet
          /\ q.live = req[r].live /\ q.created = req[r].created
        <2>1. PICK p : p = [req[r] EXCEPT !.pc = "read_list"]
            OBVIOUS
        <2>2. q = [p EXCEPT !.listing = Known]
            BY <1>1, <2>1
        <2> QED
            BY <1>2, <2>1, <2>2 DEF Req, Step
    <1>4. req' = [req EXCEPT ![r] = q] /\ OnlyReq /\ req[r].pc = "list"
        BY <1>1, Zenon DEF ListWallets, Become, At
    <1>5. req'[r] = q /\ Known' = Known /\ file' = file /\ disturbed' = disturbed
        BY <1>2, <1>4 DEF OnlyReq, history, Known, TypeOK
    <1>6. RequestAgrees(r)'
        BY <1>2, <1>3, <1>4, <1>5 DEF RequestAgrees, Searching
    <1>7. RequestSane(r)'
        BY <1>2, <1>3, <1>4, <1>5 DEF RequestSane, HasWallet, FileSane
    <1> QED
        BY <1>3, <1>4, <1>6, <1>7, RequestOnly

(* The file is read before it is written.                                  *)
LEMMA ReadStep ==
    ASSUME WalletsInv, NEW r \in Request, ReadForWallets(r) \/ ReadForBinding(r)
    PROVE  WalletsInv'
    <1>1. PICK pc \in {"write_list", "write"} :
             /\ Become(r, [req[r] EXCEPT !.pc = pc, !.seen = file])
             /\ req[r].pc = IF pc = "write" THEN "read" ELSE "read_list"
             /\ OnlyReq /\ file.whole
        BY Zenon DEF ReadForWallets, ReadForBinding, Reads, At
    <1>2. PICK q : q = [req[r] EXCEPT !.pc = pc, !.seen = file]
        OBVIOUS
    <1>3. req[r] \in Req /\ TypeOK /\ RequestSane(r) /\ RequestAgrees(r)
          /\ file \in File /\ FileSane(file)
        BY InvParts
    <1>4. /\ q \in Req /\ q.pc = pc /\ q.seen = file
          /\ q.agent = req[r].agent /\ q.want = req[r].want /\ q.wallet = req[r].wallet
          /\ q.live = req[r].live /\ q.created = req[r].created
          /\ q.listing = req[r].listing
        <2>1. PICK p : p = [req[r] EXCEPT !.pc = pc]
            OBVIOUS
        <2>2. q = [p EXCEPT !.seen = file]
            BY <1>2, <2>1
        <2> QED
            BY <1>3, <2>1, <2>2 DEF Req, Step
    <1>5. req' = [req EXCEPT ![r] = q] /\ req'[r] = q
        BY <1>1, <1>2, <1>3 DEF Become, TypeOK
    <1>6. /\ Known' = Known /\ Loose' = Loose /\ Held' = Held /\ file' = file
          /\ disturbed' = disturbed
        BY <1>1 DEF OnlyReq, history, Known, Loose, Held
    <1>7. WalletFree(r) => WalletFree(r)'
        BY <1>4, <1>5, <1>6 DEF WalletFree
    <1>8. RequestAgrees(r)'
        BY <1>1, <1>3, <1>4, <1>5, <1>6, <1>7 DEF RequestAgrees, Searching
    <1>9. RequestSane(r)'
        BY <1>1, <1>3, <1>4, <1>5, <1>6 DEF RequestSane, HasWallet, FileSane
    <1> QED
        BY <1>1, <1>4, <1>5, <1>8, <1>9, RequestOnly

LEMMA ReadForIntentStep ==
    ASSUME WalletsInv, NEW r \in Request, ReadForIntent(r)
    PROVE  WalletsInv'
    <1>1. PICK q : q = [NoReq EXCEPT !.pc = "write_intent", !.seen = file]
        OBVIOUS
    <1>2. /\ req[r] = NoReq /\ file.whole /\ file \in File /\ FileSane(file) /\ OnlyReq
          /\ TypeOK
        BY InvParts DEF ReadForIntent, Reads, At, RequestSane
    <1>3. /\ q \in Req /\ q.pc = "write_intent" /\ q.agent = None /\ q.want = None
          /\ ~q.live /\ ~q.created /\ q.listing = {} /\ q.seen = file
        <2>1. PICK p : p = [NoReq EXCEPT !.pc = "write_intent"]
            OBVIOUS
        <2>2. /\ p \in Req /\ p.pc = "write_intent" /\ p.agent = None /\ p.want = None
              /\ ~p.live /\ ~p.created /\ p.listing = {}
            BY <2>1, NoReqTypes, GotoGives DEF NoReq, Step
        <2>3. q = [p EXCEPT !.seen = file]
            BY <1>1, <2>1
        <2> QED
            BY <1>2, <2>2, <2>3 DEF Req
    <1>4. req' = [req EXCEPT ![r] = q] /\ req'[r] = q /\ ~req[r].created
        BY <1>1, <1>2 DEF ReadForIntent, Become, TypeOK, NoReq
    <1>5. Known' = Known /\ file' = file
        BY <1>2 DEF OnlyReq, Known
    <1>6. RequestSane(r)'
        BY <1>2, <1>3, <1>4, <1>5 DEF RequestSane, HasWallet, FileSane
    <1>7. RequestAgrees(r)'
        BY <1>3, <1>4, WalletAssumption DEF RequestAgrees
    <1> QED
        BY <1>2, <1>3, <1>4, <1>6, <1>7, RequestOnly

LEMMA LoseReplyStep ==
    ASSUME WalletsInv, NEW r \in Request, LoseReply(r)
    PROVE  WalletsInv'
    <1>1. PICK q : q = [req[r] EXCEPT !.heard = FALSE]
        OBVIOUS
    <1>2. req[r] \in Req /\ TypeOK /\ RequestSane(r) /\ RequestAgrees(r)
        BY InvParts
    <1>3. /\ q \in Req /\ q.pc = req[r].pc /\ q.seen = req[r].seen
          /\ q.agent = req[r].agent /\ q.want = req[r].want /\ q.wallet = req[r].wallet
          /\ q.live = req[r].live /\ q.created = req[r].created
          /\ q.listing = req[r].listing
        BY <1>1, <1>2 DEF Req
    <1>4. req' = [req EXCEPT ![r] = q] /\ req'[r] = q /\ OnlyReq /\ req[r].pc # "idle"
        BY <1>1, <1>2 DEF LoseReply, Become, TypeOK, RequestSane, NoReq
    <1>5. /\ Known' = Known /\ Loose' = Loose /\ Held' = Held /\ file' = file
          /\ disturbed' = disturbed /\ chosen' = chosen
        BY <1>4 DEF OnlyReq, history, Known, Loose, Held
    <1>6. WalletFree(r) => WalletFree(r)'
        BY <1>3, <1>4, <1>5 DEF WalletFree
    <1>7. RequestAgrees(r)'
        BY <1>2, <1>3, <1>4, <1>5, <1>6 DEF RequestAgrees, SameOrChosen
    <1>8. RequestSane(r)'
        BY <1>2, <1>3, <1>4, <1>5 DEF RequestSane, HasWallet, FileSane
    <1> QED
        BY <1>3, <1>4, <1>7, <1>8, RequestOnly

-----------------------------------------------------------------------------
(* The steps that write the file.                                          *)

(* A request that ends is sane and agrees with everything.                 *)
LEMMA EndedAgrees ==
    ASSUME NEW r \in Request, req'[r] = NoReq
    PROVE  RequestSane(r)' /\ RequestAgrees(r)'
    <1>1. RequestAgrees(r)'
        BY WalletAssumption DEF RequestAgrees, NoReq
    <1>2. RequestSane(r)'
        BY DEF RequestSane, NoReq, HasWallet, FileSane, EmptyFile
    <1> QED
        BY <1>1, <1>2

LEMMA EndedTypes ==
    ASSUME TypeOK, NEW r \in Request, Become(r, NoReq)
    PROVE  /\ req' \in [Request -> Req]
           /\ req'[r] = NoReq
           /\ \A s \in Request \ {r} : req'[s] = req[s]
    BY NoReqTypes DEF TypeOK, Become

(* Of two values of which one is the other's, or both chosen.              *)
LEMMA ChosenBoth ==
    ASSUME NEW u, NEW v, NEW w, SameOrChosen(u, v), SameOrChosen(u, w)
    PROVE  SameOrChosen(v, w)
    BY DEF SameOrChosen

(* A write by request r changes no binding of an undisturbed agent but of  *)
(* the one r is for, and what the others have found is still so.           *)
LEMMA SaveKeeps ==
    ASSUME WalletsInv, NEW r \in Request, NEW q \in Req, NEW f \in File,
           NEW replaced \in SUBSET Agent,
           file.whole, f.whole, FileSane(f), Save(r, f, replaced),
           UNCHANGED <<madeFor, account, orphaned>>,
           chosen \subseteq chosen', chosen' \subseteq Wallet,
           req' = [req EXCEPT ![r] = q], RequestSane(r)', RequestAgrees(r)',
           \A a \in Agent \ disturbed' :
               a # req[r].agent => f.bindings[a] = file.bindings[a],
           req[r].agent \in Agent \ disturbed' =>
               /\ \A v \in Wallet : SameOrChosen(file.bindings[req[r].agent], v)
                     => \/ f.bindings[req[r].agent] = v
                        \/ {f.bindings[req[r].agent], v} \subseteq chosen'
               /\ req[r].created => f.bindings[req[r].agent] = req[r].wallet
               /\ \A b \in Agent \ disturbed' :
                     b # req[r].agent /\ f.bindings[b] = f.bindings[req[r].agent]
                     /\ f.bindings[b] # None
                        => f.bindings[b] \in chosen' \cup orphaned
    PROVE  WalletsInv'
    <1> DEFINE c == req[r].agent
    <1>1. /\ TypeOK /\ file' = f /\ file \in File
          /\ disturbed \subseteq disturbed' /\ disturbed' \subseteq Agent
          /\ madeFor' = madeFor /\ account' = account /\ orphaned' = orphaned
          /\ Known' = Known /\ Loose \subseteq Loose' /\ Loose' = chosen' \cup orphaned
          /\ None \notin Wallet
        BY InvParts, WalletAssumption DEF Save, StaleIn, OvertakenBy, TypeOK, Known, Loose
    <1>2. /\ req' \in [Request -> Req] /\ req'[r] = q
          /\ \A s \in Request \ {r} : req'[s] = req[s]
          /\ TypeOK'
        BY <1>1, InvParts, OneRequest DEF TypeOK
    <1>3. \A a \in Agent \ disturbed' : a \in Agent \ disturbed
        BY <1>1
    <1>4. ASSUME NEW s \in Request \ {r} PROVE RequestSane(s)'
        <2>1. RequestSane(s) /\ req'[s] = req[s]
            BY <1>2 DEF WalletsInv
        <2> QED
            BY <1>1, <2>1 DEF RequestSane, FileSane
    <1>5. ASSUME NEW s \in Request \ {r} PROVE RequestAgrees(s)'
        <2>1. /\ RequestSane(s) /\ RequestAgrees(s) /\ req'[s] = req[s]
              /\ req[s] \in Req
            BY <1>2, InvParts DEF WalletsInv
        <2> DEFINE d == req[s].agent
        <2>2. SUFFICES ASSUME d \in Agent \ disturbed' PROVE RequestAgrees(s)'
            BY <2>1 DEF RequestAgrees
        <2>3. CASE Acts(s)
            <3>1. f.bindings[d] = file.bindings[d]
                BY <2>2, <2>3 DEF Save, OvertakenBy
            <3>2. req[s].pc \in {"read", "write"} /\ req[s].wallet \in Held'
                     => req[s].wallet \in Held
                <4>1. SUFFICES ASSUME req[s].pc \in {"read", "write"},
                                      NEW b \in Agent \ disturbed',
                                      f.bindings[b] = req[s].wallet
                               PROVE  req[s].wallet \in Held
                    BY <1>1 DEF Held
                <4>2. file.bindings[b] = req[s].wallet
                    BY <2>2, <2>3, <4>1 DEF Save, OvertakenBy, BoundBy
                <4> QED
                    BY <1>3, <4>2 DEF Held
            <3>3. req[s].pc \in {"read", "write"} => (WalletFree(s) => WalletFree(s)')
                BY <1>1, <2>1, <3>1, <3>2 DEF WalletFree
            <3> QED
                BY <1>1, <1>3, <2>1, <2>2, <2>3, <3>1, <3>3
                DEF RequestAgrees, Acts
        <2>4. CASE req[s].pc = "answer"
            <3>1. SameOrChosen(file.bindings[d], req[s].wallet) /\ req[s].wallet \in Wallet
                BY <1>3, <2>1, <2>2, <2>4, InvParts DEF RequestAgrees, RequestSane, HasWallet
            <3>2. SameOrChosen(file.bindings[d], req[s].wallet)'
                BY <1>1, <2>1, <2>2, <3>1 DEF SameOrChosen
            <3> QED
                BY <2>1, <2>4, <3>2 DEF RequestAgrees, Searching
        <2>5. CASE req[s].pc \in {"idle", "named", "by_id"}
            BY <2>1, <2>5 DEF RequestAgrees, Searching
        <2> QED
            BY <2>3, <2>4, <2>5 DEF Acts
    <1>6. ASSUME NEW w \in Wallet PROVE MadeAgrees(w)'
        <2>1. MadeAgrees(w)
            BY DEF WalletsInv
        <2>2. SUFFICES ASSUME madeFor[w] \in Agent \ disturbed' PROVE MadeAgrees(w)'
            BY <1>1 DEF MadeAgrees
        <2>3. CASE w \in Loose
            BY <1>1, <2>3 DEF MadeAgrees
        <2>4. CASE file.bindings[madeFor[w]] = w
            <3>1. \/ f.bindings[madeFor[w]] = w
                  \/ w \in chosen'
                <4>1. SameOrChosen(file.bindings[madeFor[w]], w)
                    BY <2>4 DEF SameOrChosen
                <4> QED
                    BY <2>2, <2>4, <4>1
            <3> QED
                BY <1>1, <3>1 DEF MadeAgrees
        <2>5. ASSUME NEW s \in Request, req[s].created, req[s].wallet = w,
                     req[s].agent = madeFor[w]
              PROVE  MadeAgrees(w)'
            <3>1. CASE s = r
                BY <1>1, <2>2, <2>5, <3>1 DEF MadeAgrees
            <3>2. CASE s # r
                <4>1. req'[s] = req[s]
                    BY <1>2, <3>2
                <4> QED
                    BY <1>1, <2>5, <4>1 DEF MadeAgrees
            <3> QED
                BY <3>1, <3>2
        <2> QED
            BY <1>3, <2>1, <2>2, <2>3, <2>4, <2>5 DEF MadeAgrees
    <1>7. ASSUME NEW a \in Agent \ disturbed' PROVE AgentAgrees(a)'
        <2>1. AgentAgrees(a)
            BY <1>3 DEF WalletsInv
        <2>2. SUFFICES ASSUME account[a] # None
                       PROVE  SameOrChosen(file.bindings[a], account[a])'
            BY <1>1 DEF AgentAgrees
        <2>3. SameOrChosen(file.bindings[a], account[a]) /\ account[a] \in Wallet
            BY <1>1, <2>1, <2>2 DEF AgentAgrees, TypeOK
        <2> QED
            BY <1>1, <2>3 DEF SameOrChosen
    <1>8. ASSUME NEW a \in Agent \ disturbed', NEW b \in Agent \ disturbed', a # b,
                 f.bindings[a] = f.bindings[b], f.bindings[a] # None
          PROVE  f.bindings[a] \in Loose'
        <2>1. CASE a = c \/ b = c
            BY <1>1, <1>8, <2>1
        <2>2. CASE a # c /\ b # c
            <3>1. f.bindings[a] = file.bindings[a] /\ f.bindings[b] = file.bindings[b]
                BY <2>2
            <3>2. f.bindings[a] \in Loose
                BY <1>3, <1>8, <3>1 DEF WalletsInv
            <3> QED
                BY <1>1, <3>2
        <2> QED
            BY <2>1, <2>2
    <1>9. (Stock \subseteq Known /\ FileSane(file) /\ AccountsUsable /\ WalletsExclusive)'
        <2>1. WalletsExclusive'
            BY <1>1, <1>3 DEF WalletsInv, WalletsExclusive
        <2>2. (Stock \subseteq Known /\ AccountsUsable)'
            BY <1>1 DEF WalletsInv, AccountsUsable
        <2>3. FileSane(file)'
            BY <1>1 DEF FileSane
        <2> QED
            BY <2>1, <2>2, <2>3
    <1> QED
        BY <1>1, <1>2, <1>4, <1>5, <1>6, <1>7, <1>8, <1>9 DEF WalletsInv

(* What is written back as it was read changes no undisturbed agent's.     *)
LEMMA SaveAsRead ==
    ASSUME WalletsInv, NEW r \in Request, NEW q \in Req, NEW f \in File,
           file.whole, f.whole, FileSane(f), Save(r, f, {}),
           f.bindings = req[r].seen.bindings,
           UNCHANGED <<madeFor, account, chosen, orphaned>>,
           ~req[r].created,
           req' = [req EXCEPT ![r] = q], RequestSane(r)', RequestAgrees(r)'
    PROVE  WalletsInv'
    <1>1. \A a \in Agent \ disturbed' : f.bindings[a] = file.bindings[a]
        BY DEF Save, StaleIn
    <1>2. disturbed \subseteq disturbed'
        BY DEF Save
    <1>3. ASSUME NEW a \in Agent \ disturbed'
          PROVE  /\ \A v \in Wallet : SameOrChosen(file.bindings[a], v)
                       => f.bindings[a] = v \/ {f.bindings[a], v} \subseteq chosen'
                 /\ \A b \in Agent \ disturbed' :
                       b # a /\ f.bindings[b] = f.bindings[a] /\ f.bindings[b] # None
                          => f.bindings[b] \in chosen' \cup orphaned
        <2>1. \A v \in Wallet : SameOrChosen(file.bindings[a], v)
                 => f.bindings[a] = v \/ {f.bindings[a], v} \subseteq chosen'
            BY <1>1 DEF SameOrChosen
        <2>2. ASSUME NEW b \in Agent \ disturbed', b # a,
                     f.bindings[b] = f.bindings[a], f.bindings[b] # None
              PROVE  f.bindings[b] \in chosen' \cup orphaned
            BY <1>1, <1>2, <2>2 DEF WalletsInv, Loose
        <2> QED
            BY <2>1, <2>2
    <1>4. chosen \subseteq chosen' /\ chosen' \subseteq Wallet
        BY InvParts DEF TypeOK
    <1> QED
        BY <1>1, <1>3, <1>4, SaveKeeps

LEMMA SaveWalletsStep ==
    ASSUME WalletsInv, NEW r \in Request, SaveWallets(r)
    PROVE  WalletsInv'
    <1>1. req[r] \in Req /\ TypeOK /\ RequestSane(r) /\ RequestAgrees(r) /\ Known \subseteq Wallet
        BY InvParts
    <1>2. /\ file.whole /\ req[r].pc = "write_list" /\ req[r].listing \subseteq Known
          /\ ~req[r].created /\ req[r].want = None /\ ~req[r].seen.whole = FALSE
          /\ FileSane(req[r].seen) /\ req[r].seen \in File
        BY <1>1 DEF SaveWallets, At, RequestSane, HasWallet, Req
    <1>3. PICK f : f = [req[r].seen EXCEPT !.wallets = req[r].listing]
        OBVIOUS
    <1>4. /\ f \in File /\ f.whole /\ f.bindings = req[r].seen.bindings
          /\ f.mocks = req[r].seen.mocks /\ f.wallets = req[r].listing
        BY <1>1, <1>2, <1>3 DEF File
    <1>5. FileSane(f)
        BY <1>2, <1>4 DEF FileSane
    <1>6. /\ Save(r, f, {}) /\ file' = f
          /\ UNCHANGED <<madeFor, account, chosen, orphaned>> /\ Known' = Known
        BY <1>3 DEF SaveWallets, Save, Known
    <1>7. PICK q \in Req : /\ req' = [req EXCEPT ![r] = q]
                           /\ RequestSane(r)' /\ RequestAgrees(r)'
        <2>1. CASE req[r].agent = None
            <3>1. Become(r, NoReq)
                BY <2>1 DEF SaveWallets
            <3>2. RequestSane(r)' /\ RequestAgrees(r)'
                BY <1>1, <3>1, EndedTypes, EndedAgrees
            <3> QED
                BY <3>1, <3>2, NoReqTypes DEF Become
        <2>2. CASE req[r].agent # None
            <3>1. PICK q : q = [req[r] EXCEPT !.pc = "unbound", !.listing = {},
                                             !.seen = EmptyFile]
                OBVIOUS
            <3>2. /\ q \in Req /\ q.pc = "unbound" /\ q.listing = {}
                  /\ q.agent = req[r].agent /\ q.want = req[r].want
                  /\ q.wallet = req[r].wallet /\ q.seen = EmptyFile
                  /\ q.live = req[r].live /\ q.created = req[r].created
                <4>1. PICK p1 : p1 = [req[r] EXCEPT !.pc = "unbound"]
                    OBVIOUS
                <4>2. PICK p2 : p2 = [p1 EXCEPT !.listing = {}]
                    OBVIOUS
                <4>3. q = [p2 EXCEPT !.seen = EmptyFile]
                    BY <3>1, <4>1, <4>2
                <4>4. p1 \in Req /\ p2 \in Req
                    BY <1>1, <4>1, <4>2 DEF Req, Step
                <4> QED
                    BY <1>1, <4>1, <4>2, <4>3, <4>4, NoReqTypes DEF Req
            <3>3. Become(r, q)
                BY <2>2, <3>1, Zenon DEF SaveWallets
            <3>4. req' = [req EXCEPT ![r] = q] /\ req'[r] = q
                BY <1>1, <3>3 DEF Become, TypeOK
            <3>5. RequestSane(r)'
                BY <1>1, <1>2, <1>4, <1>6, <2>2, <3>2, <3>4
                DEF RequestSane, HasWallet, FileSane, EmptyFile
            <3>6. RequestAgrees(r)'
                <4>1. SUFFICES ASSUME req[r].agent \in Agent \ disturbed'
                               PROVE  file'.bindings[req[r].agent] = None
                    BY <3>2, <3>4 DEF RequestAgrees
                <4>2. req[r].agent \in Agent \ disturbed
                    BY <1>6, <4>1 DEF Save
                <4>3. file'.bindings[req[r].agent] = file.bindings[req[r].agent]
                    BY <1>4, <1>6, <4>1 DEF Save, StaleIn
                <4> QED
                    BY <1>1, <1>2, <4>2, <4>3 DEF RequestAgrees, Searching
            <3> QED
                BY <3>2, <3>4, <3>5, <3>6
        <2> QED
            BY <2>1, <2>2
    <1> QED
        BY <1>2, <1>4, <1>5, <1>6, <1>7, SaveAsRead

LEMMA SaveIntentStep ==
    ASSUME WalletsInv, NEW r \in Request, SaveIntent(r)
    PROVE  WalletsInv'
    <1>1. /\ req[r] \in Req /\ TypeOK /\ RequestSane(r)
          /\ Save(r, req[r].seen, {}) /\ Become(r, NoReq)
          /\ UNCHANGED <<madeFor, account, chosen, orphaned>>
        BY InvParts DEF SaveIntent
    <1>2. /\ file.whole /\ ~req[r].created /\ req[r].seen.whole
          /\ FileSane(req[r].seen) /\ req[r].seen \in File
        BY <1>1 DEF SaveIntent, At, RequestSane, Req
    <1>3. RequestSane(r)' /\ RequestAgrees(r)'
        BY <1>1, EndedTypes, EndedAgrees
    <1> QED
        BY <1>1, <1>2, <1>3, NoReqTypes, SaveAsRead DEF Become

LEMMA SaveBindingStep ==
    ASSUME WalletsInv, NEW r \in Request, SaveBinding(r)
    PROVE  WalletsInv'
    <1> DEFINE a == req[r].agent
               w == req[r].wallet
               seen == req[r].seen
    <1>1. /\ req[r] \in Req /\ TypeOK /\ RequestSane(r) /\ RequestAgrees(r)
          /\ file \in File /\ Known \subseteq Wallet /\ None \notin Known
        BY InvParts
    <1>2. /\ req[r].pc = "write" /\ file.whole /\ seen.whole /\ seen \in File
          /\ FileSane(seen)
          /\ a \in Agent /\ a # None /\ w \in Known /\ w \in Wallet /\ w # None
          /\ req[r].live => w \in Usable
          /\ req[r].live \in BOOLEAN
          /\ req[r].want # None => w = req[r].want
          /\ a \notin disturbed => WalletFree(r) /\ seen.bindings[a] = file.bindings[a]
        BY <1>1 DEF SaveBinding, At, RequestSane, RequestAgrees, HasWallet, Req
    <1>3. PICK f : f = UpsertBinding(seen, a, w, req[r].live)
        OBVIOUS
    <1>4. /\ f \in File /\ f.whole /\ FileSane(f) /\ f.bindings[a] = w
          /\ \A b \in Agent \ {a} :
                \/ b \in SameOwner(a) /\ f.bindings[b] = None
                \/ b \notin SameOwner(a) /\ f.bindings[b] = seen.bindings[b]
        BY <1>2, <1>3, UpsertGives, UpsertSane
    <1>5. /\ Save(r, f, Replaced(a)) /\ file' = f /\ Known' = Known
          /\ UNCHANGED <<madeFor, account, orphaned>>
          /\ chosen' = IF req[r].want = None THEN chosen
                       ELSE chosen \cup ({w, seen.bindings[a]} \ {None})
        BY <1>3 DEF SaveBinding, Save, Known
    <1>6. /\ chosen' \subseteq Wallet /\ chosen \subseteq chosen' /\ None \notin chosen
          /\ req[r].want # None
                => w \in chosen' /\ {seen.bindings[a]} \ {None} \subseteq chosen'
        BY <1>1, <1>2, <1>5, WalletAssumption DEF TypeOK, File
    <1>7. /\ disturbed \cup Replaced(a) \cup StaleIn(r) \subseteq disturbed'
          /\ Replaced(a) \in SUBSET Agent
        BY <1>5 DEF Save, Replaced, SameOwner
    <1>8. ASSUME NEW b \in Agent \ disturbed', b # a
          PROVE  f.bindings[b] = file.bindings[b]
        <2>1. b \notin Replaced(a) /\ seen.bindings[b] = file.bindings[b]
            BY <1>7 DEF StaleIn
        <2> QED
            BY <1>4, <1>8, <2>1 DEF Replaced
    <1>9. ASSUME a \in Agent \ disturbed', NEW v \in Wallet,
                 SameOrChosen(file.bindings[a], v)
          PROVE  w = v \/ {w, v} \subseteq chosen'
        <2>1. WalletFree(r) /\ seen.bindings[a] = file.bindings[a]
            BY <1>2, <1>7, <1>9
        <2>2. CASE req[r].want # None
            BY <1>6, <1>9, <2>1, <2>2, WalletAssumption DEF SameOrChosen
        <2>3. CASE req[r].want = None
            <3>1. file.bindings[a] = w \/ file.bindings[a] = None
                BY <2>1, <2>3 DEF WalletFree
            <3>2. file.bindings[a] # None
                BY <1>6, <1>9, WalletAssumption DEF SameOrChosen
            <3> QED
                BY <1>6, <1>9, <3>1, <3>2 DEF SameOrChosen
        <2> QED
            BY <2>2, <2>3
    <1>10. ASSUME a \in Agent \ disturbed', NEW b \in Agent \ disturbed', b # a,
                  f.bindings[b] = w
           PROVE  w \in chosen' \cup orphaned
        <2>1. WalletFree(r) /\ file.bindings[b] = w /\ a \notin disturbed
              /\ b \in Agent \ disturbed
            BY <1>2, <1>7, <1>8, <1>10
        <2>2. CASE req[r].want # None
            BY <1>6, <2>2
        <2>3. CASE file.bindings[a] = w
            <3>1. w \in Loose
                BY <1>2, <1>10, <2>1, <2>3 DEF WalletsInv
            <3> QED
                BY <1>6, <3>1 DEF Loose
        <2>4. CASE w \in Loose \/ w \notin Held
            BY <1>6, <2>1, <2>4 DEF Held, Loose
        <2> QED
            BY <2>1, <2>2, <2>3, <2>4 DEF WalletFree
    <1>11. PICK q : q = [req[r] EXCEPT !.pc = "answer", !.created = FALSE,
                                      !.seen = EmptyFile]
        OBVIOUS
    <1>12. /\ q \in Req /\ q.pc = "answer" /\ ~q.created /\ q.seen = EmptyFile
           /\ q.agent = a /\ q.want = req[r].want /\ q.wallet = w
           /\ q.live = req[r].live /\ q.listing = req[r].listing
        <2>1. PICK p1 : p1 = [req[r] EXCEPT !.pc = "answer"]
            OBVIOUS
        <2>2. PICK p2 : p2 = [p1 EXCEPT !.created = FALSE]
            OBVIOUS
        <2>3. q = [p2 EXCEPT !.seen = EmptyFile]
            BY <1>11, <2>1, <2>2
        <2>4. p1 \in Req /\ p2 \in Req
            BY <1>1, <2>1, <2>2 DEF Req, Step
        <2> QED
            BY <1>1, <2>1, <2>2, <2>3, <2>4, NoReqTypes DEF Req
    <1>13. req' = [req EXCEPT ![r] = q] /\ req'[r] = q
        BY <1>1, <1>11, Zenon DEF SaveBinding, Become, TypeOK
    <1>14. RequestSane(r)'
        BY <1>1, <1>2, <1>4, <1>5, <1>12, <1>13
        DEF RequestSane, HasWallet, FileSane, EmptyFile
    <1>15. RequestAgrees(r)'
        BY <1>4, <1>5, <1>12, <1>13 DEF RequestAgrees, Searching, SameOrChosen
    <1>16. \A b \in Agent \ disturbed' : b # a => f.bindings[b] = file.bindings[b]
        BY <1>8
    <1>17. a \in Agent \ disturbed' =>
              /\ \A v \in Wallet : SameOrChosen(file.bindings[a], v)
                    => f.bindings[a] = v \/ {f.bindings[a], v} \subseteq chosen'
              /\ req[r].created => f.bindings[a] = w
              /\ \A b \in Agent \ disturbed' :
                    b # a /\ f.bindings[b] = f.bindings[a] /\ f.bindings[b] # None
                       => f.bindings[b] \in chosen' \cup orphaned
        BY <1>4, <1>9, <1>10
    <1>18. /\ f \in File /\ q \in Req /\ Replaced(a) \in SUBSET Agent
           /\ file.whole /\ f.whole /\ FileSane(f) /\ Save(r, f, Replaced(a))
           /\ UNCHANGED <<madeFor, account, orphaned>>
           /\ chosen \subseteq chosen' /\ chosen' \subseteq Wallet
        BY <1>2, <1>4, <1>5, <1>6, <1>7, <1>12
    <1>19. req' = [req EXCEPT ![r] = q] /\ RequestSane(r)' /\ RequestAgrees(r)'
        BY <1>13, <1>14, <1>15
    <1> QED
        BY <1>16, <1>17, <1>18, <1>19, SaveKeeps

-----------------------------------------------------------------------------
(* The steps that change wallets and accounts.                             *)

LEMMA CreateWalletStep ==
    ASSUME WalletsInv, NEW r \in Request, CreateWallet(r)
    PROVE  WalletsInv'
    <1>1. /\ req[r] \in Req /\ TypeOK /\ RequestSane(r) /\ RequestAgrees(r)
          /\ file \in File /\ FileSane(file)
        BY InvParts
    <1>2. PICK w \in Wallet \ Known :
             /\ madeFor' = [madeFor EXCEPT ![w] = req[r].agent]
             /\ \/ /\ Become(r, [req[r] EXCEPT !.pc = "read", !.wallet = w,
                                               !.live = TRUE, !.created = TRUE])
                   /\ UNCHANGED orphaned
                \/ Become(r, NoReq) /\ orphaned' = orphaned \cup {w}
        BY Zenon DEF CreateWallet
    <1>3. /\ req[r].agent \in Agent /\ req[r].agent # None /\ req[r].want = None
          /\ file.whole /\ ~req[r].created
          /\ req[r].agent \notin disturbed => file.bindings[req[r].agent] = None
        BY <1>1 DEF CreateWallet, At, RequestSane, RequestAgrees, HasWallet, Searching, Req
    <1>4. /\ file' = file /\ account' = account /\ chosen' = chosen
          /\ disturbed' = disturbed /\ Held' = Held
          /\ orphaned' \subseteq Wallet /\ Loose \subseteq Loose'
        BY <1>1, <1>2 DEF CreateWallet, TypeOK, Loose, Held
    <1>5. /\ madeFor' \in [Wallet -> Agent \cup {"nobody", None}]
          /\ madeFor'[w] = req[r].agent
          /\ \A v \in Wallet \ {w} : madeFor'[v] = madeFor[v]
          /\ Known' = Known \cup {w}
        BY <1>1, <1>2, <1>3 DEF TypeOK, Known
    <1>6. w \in Usable /\ w \notin Held /\ w # None
        <2>1. w \in Usable
            BY <1>2, WalletAssumption DEF WalletsInv, Usable
        <2>2. w \notin Held
            BY <1>1, <1>2, WalletAssumption DEF Held, FileSane
        <2> QED
            BY <2>1, <2>2, WalletAssumption
    <1>7. PICK q \in Req :
             /\ req' = [req EXCEPT ![r] = q]
             /\ req'[r] = q /\ RequestSane(r)' /\ RequestAgrees(r)'
             /\ w \in Loose' \/ (q.created /\ q.wallet = w /\ q.agent = req[r].agent)
        <2>1. CASE Become(r, NoReq) /\ orphaned' = orphaned \cup {w}
            <3>1. req' = [req EXCEPT ![r] = NoReq] /\ req'[r] = NoReq
                BY <1>1, <2>1, EndedTypes DEF Become
            <3> QED
                BY <2>1, <3>1, EndedAgrees, NoReqTypes DEF Loose
        <2>2. CASE Become(r, [req[r] EXCEPT !.pc = "read", !.wallet = w,
                                            !.live = TRUE, !.created = TRUE])
            <3>1. PICK q : q = [req[r] EXCEPT !.pc = "read", !.wallet = w,
                                             !.live = TRUE, !.created = TRUE]
                OBVIOUS
            <3>2. /\ q \in Req /\ q.pc = "read" /\ q.wallet = w /\ q.live /\ q.created
                  /\ q.agent = req[r].agent /\ q.want = req[r].want
                  /\ q.listing = req[r].listing /\ q.seen = req[r].seen
                <4>1. PICK p1 : p1 = [req[r] EXCEPT !.pc = "read"]
                    OBVIOUS
                <4>2. PICK p2 : p2 = [p1 EXCEPT !.wallet = w]
                    OBVIOUS
                <4>3. PICK p3 : p3 = [p2 EXCEPT !.live = TRUE]
                    OBVIOUS
                <4>4. q = [p3 EXCEPT !.created = TRUE]
                    BY <3>1, <4>1, <4>2, <4>3, Zenon
                <4>5. /\ p1 \in Req /\ p1.pc = "read" /\ p1.agent = req[r].agent
                      /\ p1.want = req[r].want /\ p1.listing = req[r].listing
                      /\ p1.seen = req[r].seen
                    BY <1>1, <4>1 DEF Req, Step
                <4>6. /\ p2 \in Req /\ p2.pc = "read" /\ p2.agent = req[r].agent
                      /\ p2.want = req[r].want /\ p2.listing = req[r].listing
                      /\ p2.wallet = w /\ p2.seen = req[r].seen
                    BY <1>2, <4>2, <4>5 DEF Req
                <4>7. /\ p3 \in Req /\ p3.pc = "read" /\ p3.agent = req[r].agent
                      /\ p3.want = req[r].want /\ p3.listing = req[r].listing
                      /\ p3.wallet = w /\ p3.live /\ p3.seen = req[r].seen
                    BY <4>3, <4>6 DEF Req
                <4> QED
                    BY <4>4, <4>7 DEF Req
            <3>3. Become(r, q)
                BY <2>2, <3>1, Zenon
            <3>4. req' = [req EXCEPT ![r] = q] /\ req'[r] = q
                BY <1>1, <3>3 DEF Become, TypeOK
            <3>5. req[r].agent \notin disturbed => WalletFree(r)'
                BY <1>3, <1>4, <1>6, <3>2, <3>4 DEF WalletFree
            <3>6. RequestAgrees(r)'
                BY <1>3, <1>4, <3>2, <3>4, <3>5 DEF RequestAgrees, Searching
            <3>7. RequestSane(r)'
                BY <1>1, <1>3, <1>4, <1>5, <1>6, <3>2, <3>4
                DEF RequestSane, HasWallet, FileSane
            <3> QED
                BY <3>2, <3>4, <3>6, <3>7
        <2> QED
            BY <1>2, <2>1, <2>2
    <1>8. /\ req' \in [Request -> Req] /\ TypeOK'
          /\ \A s \in Request \ {r} : req'[s] = req[s]
        BY <1>1, <1>2, <1>4, <1>5, <1>7, InvParts, OneRequest DEF TypeOK
    <1>9. ASSUME NEW s \in Request \ {r} PROVE RequestSane(s)' /\ RequestAgrees(s)'
        <2>1. RequestSane(s) /\ RequestAgrees(s) /\ req'[s] = req[s]
            BY <1>8 DEF WalletsInv
        <2>2. RequestSane(s)'
            BY <1>4, <1>5, <2>1 DEF RequestSane, FileSane
        <2>3. WalletFree(s) => WalletFree(s)'
            BY <1>4, <2>1 DEF WalletFree
        <2>4. RequestAgrees(s)'
            BY <1>4, <2>1, <2>3 DEF RequestAgrees, SameOrChosen
        <2> QED
            BY <2>2, <2>4
    <1>10. ASSUME NEW v \in Wallet PROVE MadeAgrees(v)'
        <2>1. CASE v = w
            BY <1>5, <1>7, <2>1 DEF MadeAgrees
        <2>2. CASE v # w
            <3>1. MadeAgrees(v) /\ madeFor'[v] = madeFor[v]
                BY <1>5, <2>2 DEF WalletsInv
            <3> QED
                BY <1>3, <1>4, <1>8, <3>1 DEF MadeAgrees
        <2> QED
            BY <2>1, <2>2
    <1>11. ASSUME NEW a \in Agent \ disturbed PROVE AgentAgrees(a)'
        <2>1. AgentAgrees(a)
            BY DEF WalletsInv
        <2> QED
            BY <1>4, <2>1 DEF AgentAgrees, SameOrChosen
    <1>12. WalletsExclusive'
        BY <1>4 DEF WalletsInv, WalletsExclusive
    <1>13. (Stock \subseteq Known /\ FileSane(file) /\ AccountsUsable)'
        BY <1>4, <1>5 DEF WalletsInv, FileSane, AccountsUsable
    <1>14. \A a, b \in Agent \ disturbed :
              a # b /\ file.bindings[a] = file.bindings[b] /\ file.bindings[a] # None
                 => file.bindings[a] \in Loose'
        BY <1>4 DEF WalletsInv
    <1> QED
        BY <1>4, <1>7, <1>8, <1>9, <1>10, <1>11, <1>12, <1>13, <1>14 DEF WalletsInv

(* The answer: an account changes only to a wallet a caller has named.     *)
LEMMA AnswerStep ==
    ASSUME WalletsInv, NEW r \in Request, Answer(r)
    PROVE  /\ WalletsInv'
           /\ \A a \in Agent \ disturbed :
                 account[a] # None => account'[a] \in {account[a]} \cup chosen
    <1> DEFINE c == req[r].agent
               w == req[r].wallet
    <1>1. /\ req[r] \in Req /\ TypeOK /\ RequestSane(r) /\ RequestAgrees(r) /\ file \in File
        BY InvParts
    <1>2. /\ file.whole /\ c \in Agent /\ c # None /\ w \in Known /\ w \in Wallet
          /\ req[r].live => w \in Usable
          /\ w # None /\ ~req[r].created
          /\ c \notin disturbed => SameOrChosen(file.bindings[c], w)
        BY <1>1, WalletAssumption
        DEF Answer, At, RequestSane, RequestAgrees, HasWallet, Req, Known
    <1>3. /\ Known' = Known /\ Loose' = Loose /\ madeFor' = madeFor /\ file' = file
          /\ chosen' = chosen /\ orphaned' = orphaned /\ disturbed' = disturbed
          /\ Held' = Held
        BY DEF Answer, history, Known, Loose, Held
    <1>4. /\ account' \in [Agent -> Wallet \cup {None}]
          /\ account'[c] = account[c] \/ (req[r].live /\ account'[c] = w)
          /\ \A b \in Agent \ {c} : account'[b] = account[b]
        <2>1. CASE req[r].heard /\ req[r].live
            <3>1. account' = [account EXCEPT ![c] = w]
                BY <2>1 DEF Answer
            <3> QED
                BY <1>1, <1>2, <2>1, <3>1 DEF TypeOK
        <2>2. CASE ~(req[r].heard /\ req[r].live)
            <3>1. account' = account
                BY <2>2, Zenon DEF Answer
            <3> QED
                BY <1>1, <3>1 DEF TypeOK
        <2> QED
            BY <2>1, <2>2
    <1>5. /\ req' \in [Request -> Req] /\ req'[r] = NoReq
          /\ RequestSane(r)' /\ RequestAgrees(r)'
          /\ \A s \in Request \ {r} : req'[s] = req[s]
        BY <1>1, EndedTypes, EndedAgrees DEF Answer
    <1>6. TypeOK'
        BY <1>1, <1>3, <1>4, <1>5 DEF TypeOK, NoReq
    <1>7. ASSUME NEW s \in Request \ {r} PROVE RequestSane(s)' /\ RequestAgrees(s)'
        <2>1. RequestSane(s) /\ RequestAgrees(s) /\ req'[s] = req[s]
            BY <1>5 DEF WalletsInv
        <2>2. RequestSane(s)'
            BY <1>3, <2>1 DEF RequestSane, FileSane
        <2>3. RequestAgrees(s)'
            BY <1>3, <2>1 DEF RequestAgrees, WalletFree, SameOrChosen
        <2> QED
            BY <2>2, <2>3
    <1>8. ASSUME NEW v \in Wallet PROVE MadeAgrees(v)'
        <2>1. MadeAgrees(v)
            BY DEF WalletsInv
        <2> QED
            BY <1>2, <1>3, <1>5, <2>1 DEF MadeAgrees
    <1>9. ASSUME NEW b \in Agent \ disturbed PROVE AgentAgrees(b)'
        <2>1. AgentAgrees(b)
            BY DEF WalletsInv
        <2>2. CASE account'[b] = account[b]
            BY <1>3, <2>1, <2>2 DEF AgentAgrees, SameOrChosen
        <2>3. CASE b = c /\ account'[c] = w
            BY <1>2, <1>3, <2>3 DEF AgentAgrees, SameOrChosen
        <2> QED
            BY <1>4, <2>2, <2>3
    <1>10. ASSUME NEW a \in Agent \ disturbed, NEW b \in Agent \ disturbed, a # b,
                  account'[a] = account'[b], account'[a] # None
           PROVE  account'[a] \in Loose
        <2>1. AgentAgrees(a)' /\ AgentAgrees(b)'
            BY <1>9
        <2>2. \/ file.bindings[a] = account'[a]
              \/ {file.bindings[a], account'[a]} \subseteq chosen
            BY <1>2, <1>3, <1>10, <2>1 DEF AgentAgrees, SameOrChosen
        <2>3. \/ file.bindings[b] = account'[a]
              \/ {file.bindings[b], account'[a]} \subseteq chosen
            BY <1>2, <1>3, <1>10, <2>1 DEF AgentAgrees, SameOrChosen
        <2> QED
            BY <1>10, <2>2, <2>3 DEF WalletsInv, Loose
    <1>11. WalletsExclusive'
        BY <1>3, <1>10 DEF WalletsExclusive
    <1>12. (Stock \subseteq Known /\ FileSane(file) /\ AccountsUsable)'
        <2>1. \A b \in Agent : account'[b] \in (Usable \cap Known) \cup {None}
            BY <1>2, <1>4 DEF WalletsInv, AccountsUsable
        <2> QED
            BY <1>3, <2>1 DEF WalletsInv, FileSane, AccountsUsable
    <1>13. (\A a, b \in Agent \ disturbed :
               a # b /\ file.bindings[a] = file.bindings[b] /\ file.bindings[a] # None
                  => file.bindings[a] \in Loose)'
        BY <1>3 DEF WalletsInv
    <1>14. WalletsInv'
        BY <1>3, <1>5, <1>6, <1>7, <1>8, <1>9, <1>11, <1>12, <1>13 DEF WalletsInv
    <1>15. ASSUME NEW a \in Agent \ disturbed, account[a] # None
           PROVE  account'[a] \in {account[a]} \cup chosen
        <2>1. CASE account'[a] = account[a]
            BY <2>1
        <2>2. CASE a = c /\ account'[c] = w
            <3>1. AgentAgrees(a)
                BY DEF WalletsInv
            <3>2. SameOrChosen(account[a], w)
                BY <1>2, <1>15, <2>2, <3>1, ChosenBoth DEF AgentAgrees
            <3> QED
                BY <2>2, <3>2 DEF SameOrChosen
        <2> QED
            BY <1>4, <2>1, <2>2
    <1> QED
        BY <1>14, <1>15

-----------------------------------------------------------------------------
(* The steps that end requests early.                                      *)

(* Requests end: what they have created is nobody's.                       *)
LEMMA EndedEarly ==
    ASSUME WalletsInv, NEW E \in SUBSET Request,
           req' = [s \in Request |-> IF s \in E THEN NoReq ELSE req[s]],
           UNCHANGED <<madeFor, account, chosen, disturbed>>,
           orphaned' = orphaned \cup {req[s].wallet : s \in {s \in E : req[s].created}},
           \/ file' = file
           \/ E = Request /\ file' = [EmptyFile EXCEPT !.whole = FALSE]
    PROVE  WalletsInv'
    <1>1. TypeOK /\ file \in File /\ FileSane(file)
        BY DEF WalletsInv, TypeOK
    <1>2. \A s \in Request : req[s].created => req[s].wallet \in Wallet
        <2>1. ASSUME NEW s \in Request, req[s].created PROVE req[s].wallet \in Wallet
            BY <2>1, InvParts DEF RequestSane, HasWallet
        <2> QED
            BY <2>1
    <1>3. /\ Known' = Known /\ orphaned' \subseteq Wallet /\ Loose \subseteq Loose'
          /\ \A s \in E : req[s].created => req[s].wallet \in Loose'
        BY <1>1, <1>2 DEF Known, Loose, TypeOK
    <1>4. /\ file' \in File /\ FileSane(file)'
          /\ \/ file' = file
             \/ /\ ~file'.whole /\ E = Request
                /\ \A a \in Agent : file'.bindings[a] = None
        <2>1. CASE file' = file
            BY <1>1, <1>3, <2>1 DEF FileSane
        <2>2. CASE E = Request /\ file' = [EmptyFile EXCEPT !.whole = FALSE]
            <3>1. /\ EmptyFile \in File /\ EmptyFile.wallets = {}
                  /\ \A a \in Agent : EmptyFile.bindings[a] = None
                BY NoReqTypes DEF EmptyFile
            <3>2. /\ file' \in File /\ ~file'.whole
                  /\ file'.wallets = EmptyFile.wallets
                  /\ file'.bindings = EmptyFile.bindings
                BY <2>2, <3>1 DEF File
            <3> QED
                BY <2>2, <3>1, <3>2 DEF FileSane
        <2> QED
            BY <2>1, <2>2
    <1>5. ASSUME NEW s \in Request PROVE req'[s] \in Req /\ RequestSane(s)' /\ RequestAgrees(s)'
        <2>1. CASE s \in E
            BY <2>1, EndedAgrees, NoReqTypes
        <2>2. CASE s \notin E
            <3>1. /\ req'[s] = req[s] /\ file' = file /\ req[s] \in Req
                  /\ RequestSane(s) /\ RequestAgrees(s)
                BY <1>4, <2>2, InvParts
            <3>2. RequestSane(s)'
                BY <1>3, <3>1 DEF RequestSane, FileSane
            <3>3. Held' = Held
                BY <3>1 DEF Held
            <3>4. WalletFree(s) => WalletFree(s)'
                BY <1>3, <3>1, <3>3 DEF WalletFree
            <3>5. RequestAgrees(s)'
                BY <3>1, <3>4 DEF RequestAgrees, SameOrChosen
            <3> QED
                BY <3>1, <3>2, <3>5
        <2> QED
            BY <2>1, <2>2
    <1>6. TypeOK'
        <2>1. \A s \in Request :
                 req'[s].pc \in {"read", "write", "answer"}
                    => req'[s].agent # None /\ req'[s].wallet # None
            BY <1>1 DEF TypeOK, NoReq
        <2> QED
            BY <1>1, <1>3, <1>4, <1>5, <2>1 DEF TypeOK
    <1>7. ASSUME NEW w \in Wallet PROVE MadeAgrees(w)'
        <2>1. MadeAgrees(w)
            BY DEF WalletsInv
        <2> QED
            BY <1>3, <1>4, <2>1 DEF MadeAgrees
    <1>8. ASSUME NEW a \in Agent \ disturbed PROVE AgentAgrees(a)'
        <2>1. AgentAgrees(a)
            BY DEF WalletsInv
        <2> QED
            BY <1>4, <2>1 DEF AgentAgrees, SameOrChosen
    <1>9. WalletsExclusive'
        BY <1>3 DEF WalletsInv, WalletsExclusive
    <1>10. (Stock \subseteq Known /\ AccountsUsable)'
        BY <1>3 DEF WalletsInv, AccountsUsable
    <1>11. (\A a, b \in Agent \ disturbed :
               a # b /\ file.bindings[a] = file.bindings[b] /\ file.bindings[a] # None
                  => file.bindings[a] \in Loose)'
        BY <1>3, <1>4 DEF WalletsInv
    <1> QED
        BY <1>4, <1>5, <1>6, <1>7, <1>8, <1>9, <1>10, <1>11 DEF WalletsInv

LEMMA FailStep ==
    ASSUME WalletsInv, NEW r \in Request, Fail(r)
    PROVE  WalletsInv'
    <1>1. req' = [s \in Request |-> IF s \in {r} THEN NoReq ELSE req[s]]
        BY InvParts DEF Fail, Become, TypeOK
    <1>2. orphaned' = orphaned \cup {req[s].wallet : s \in {s \in {r} : req[s].created}}
        BY DEF Fail
    <1> QED
        BY <1>1, <1>2, EndedEarly DEF Fail

LEMMA CrashStep ==
    ASSUME WalletsInv, Crash
    PROVE  WalletsInv'
    <1>1. req' = [s \in Request |-> IF s \in Request THEN NoReq ELSE req[s]]
        BY DEF Crash
    <1>2. orphaned' = orphaned \cup {req[s].wallet : s \in {s \in Request : req[s].created}}
        BY DEF Crash, Created
    <1> QED
        BY <1>1, <1>2, EndedEarly DEF Crash

-----------------------------------------------------------------------------
(* The theorems.                                                           *)

LEMMA RequestStepKeeps ==
    ASSUME WalletsInv, NEW r \in Request, RequestStep(r)
    PROVE  /\ WalletsInv'
           /\ \A a \in Agent \ disturbed :
                 account[a] # None => account'[a] \in {account[a]} \cup chosen
    <1>1. CASE \E a \in Agent, w \in Known \cup {None} : Call(r, a, w)
        BY <1>1, CallStep DEF Call, OnlyReq
    <1>2. CASE Import(r)
        BY <1>2, ImportStep DEF Import, OnlyReq
    <1>3. CASE FindNamed(r)
        BY <1>3, FindNamedStep DEF FindNamed, OnlyReq
    <1>4. CASE FindById(r)
        BY <1>4, FindByIdStep DEF FindById, OnlyReq
    <1>5. CASE FindByName(r)
        BY <1>5, FindByNameStep DEF FindByName, OnlyReq
    <1>6. CASE ListWallets(r)
        BY <1>6, ListWalletsStep DEF ListWallets, OnlyReq
    <1>7. CASE ReadForWallets(r) \/ ReadForBinding(r)
        BY <1>7, ReadStep DEF ReadForWallets, ReadForBinding, OnlyReq
    <1>8. CASE SaveWallets(r)
        BY <1>8, SaveWalletsStep DEF SaveWallets
    <1>9. CASE FindUnboundWallet(r)
        BY <1>9, FindUnboundWalletStep DEF FindUnboundWallet, OnlyReq
    <1>10. CASE CreateWallet(r)
        BY <1>10, CreateWalletStep DEF CreateWallet
    <1>11. CASE SaveBinding(r)
        BY <1>11, SaveBindingStep DEF SaveBinding
    <1>12. CASE Answer(r)
        BY <1>12, AnswerStep
    <1>13. CASE LoseReply(r)
        BY <1>13, LoseReplyStep DEF LoseReply, OnlyReq
    <1>14. CASE Fail(r)
        BY <1>14, FailStep DEF Fail
    <1>15. CASE ReadForIntent(r)
        BY <1>15, ReadForIntentStep DEF ReadForIntent, OnlyReq
    <1>16. CASE SaveIntent(r)
        BY <1>16, SaveIntentStep DEF SaveIntent
    <1> QED
        BY <1>1, <1>2, <1>3, <1>4, <1>5, <1>6, <1>7, <1>8, <1>9, <1>10,
           <1>11, <1>12, <1>13, <1>14, <1>15, <1>16 DEF RequestStep

LEMMA WalletsInitially == Init => WalletsInv
    <1> SUFFICES ASSUME Init PROVE WalletsInv
        OBVIOUS
    <1>1. TypeOK
        BY NoReqTypes, WalletAssumption DEF Init, TypeOK, NoReq
    <1>2. ASSUME NEW r \in Request PROVE RequestSane(r) /\ RequestAgrees(r)
        <2>1. req[r] = NoReq
            BY DEF Init
        <2>2. RequestAgrees(r)
            BY <2>1, WalletAssumption DEF RequestAgrees, NoReq
        <2>3. RequestSane(r)
            BY <2>1 DEF RequestSane, NoReq, HasWallet, FileSane, EmptyFile
        <2> QED
            BY <2>2, <2>3
    <1>3. ASSUME NEW w \in Wallet PROVE MadeAgrees(w)
        <2>1. madeFor[w] \in {"nobody", None}
            BY DEF Init
        <2>2. CASE madeFor[w] \in Agent
            BY <2>1, <2>2, WalletAssumption
        <2> QED
            BY <2>2 DEF MadeAgrees
    <1>4. /\ \A a \in Agent : account[a] = None /\ file.bindings[a] = None
          /\ FileSane(file)
        BY DEF Init, EmptyFile, FileSane
    <1>5. ASSUME NEW w \in Stock PROVE w \in Known
        BY WalletAssumption DEF Init, Known
    <1> QED
        BY <1>1, <1>2, <1>3, <1>4, <1>5
        DEF WalletsInv, AgentAgrees, WalletsExclusive, AccountsUsable

LEMMA WalletsStep ==
    ASSUME WalletsInv, [Next]_vars
    PROVE  /\ WalletsInv'
           /\ \A a \in Agent \ disturbed :
                 account[a] # None => account'[a] \in {account[a]} \cup chosen
    <1>1. CASE UNCHANGED vars
        <2>1. /\ madeFor' = madeFor /\ file' = file /\ account' = account /\ req' = req
              /\ chosen' = chosen /\ orphaned' = orphaned /\ disturbed' = disturbed
            BY <1>1 DEF vars, history
        <2>2. CASE Request = {}
            BY <2>1, <2>2
            DEF WalletsInv, TypeOK, AgentAgrees, MadeAgrees, SameOrChosen, FileSane,
                AccountsUsable, WalletsExclusive, Known, Loose
        <2>3. ASSUME NEW r \in Request PROVE WalletsInv'
            <3>1. req' = [req EXCEPT ![r] = req[r]] /\ OnlyReq /\ req[r] \in Req
                BY <2>1, InvParts DEF OnlyReq, history, TypeOK
            <3>2. RequestSane(r)' /\ RequestAgrees(r)'
                BY <2>1, InvParts
                DEF RequestSane, RequestAgrees, WalletFree, SameOrChosen, FileSane, Known,
                    Loose, Held
            <3> QED
                BY <3>1, <3>2, RequestOnly
        <2> QED
            BY <2>1, <2>2, <2>3
    <1>2. CASE Crash
        BY <1>2, CrashStep DEF Crash
    <1>3. ASSUME NEW r \in Request, RequestStep(r)
          PROVE  /\ WalletsInv'
                 /\ \A a \in Agent \ disturbed :
                       account[a] # None => account'[a] \in {account[a]} \cup chosen
        BY <1>3, RequestStepKeeps
    <1> QED
        BY <1>1, <1>2, <1>3 DEF Next

(* The inductive invariant: of agents that have not been disturbed, what a *)
(* request has found is still so when it acts on it, whatever fails and    *)
(* however many requests there are.                                        *)
THEOREM WalletsInvariant == Spec => []WalletsInv
    <1>1. WalletsInv /\ [Next]_vars => WalletsInv'
        BY WalletsStep
    <1> QED
        BY <1>1, WalletsInitially, PTL DEF Spec

(* Two accounts share a wallet only if a caller has named it, or left it,  *)
(* or its creation was interrupted, or one of the two was disturbed.       *)
THEOREM WalletsStayExclusive == Spec => []WalletsExclusive
    <1>1. WalletsInv => WalletsExclusive
        BY DEF WalletsInv
    <1> QED
        BY <1>1, WalletsInvariant, PTL

(* The binding behind an undisturbed agent's account is not lost.          *)
THEOREM BindingsBackAccounts == Spec => []BindingBacksAccount
    <1>1. WalletsInv => BindingBacksAccount
        BY DEF WalletsInv, AgentAgrees, SameOrChosen, BindingBacksAccount
    <1> QED
        BY <1>1, WalletsInvariant, PTL

(* An undisturbed agent keeps its wallet until a caller names another.     *)
THEOREM WalletsStayStable == Spec => WalletStable
    <1>1. WalletsInv /\ [Next]_vars
            => [\A a \in Agent \ disturbed :
                   account[a] # None => account'[a] \in {account[a]} \cup chosen]_vars
        BY WalletsStep
    <1> QED
        BY <1>1, WalletsInvariant, PTL DEF Spec, WalletStable

(* Types; and every account, disturbed or not, holds an EOA that exists.   *)
THEOREM WalletsTypeCorrect == Spec => [](TypeOK /\ AccountsUsable)
    <1>1. WalletsInv => TypeOK /\ AccountsUsable
        BY DEF WalletsInv
    <1> QED
        BY <1>1, WalletsInvariant, PTL
=============================================================================
