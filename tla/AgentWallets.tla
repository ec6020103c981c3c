---------------------------- MODULE AgentWallets ----------------------------
(***************************************************************************)
(* Which Circle wallet belongs to which agent. The Circle service keeps    *)
(* wallets and bindings in one JSON file (agent-wallet-state-store.ts) and *)
(* answers get-or-create requests (agent-wallet-service.ts); the ledger    *)
(* binds the agent's account to the wallet it is told (services.py).       *)
(*                                                                         *)
(* The file is read, changed in memory and written back, each with an      *)
(* await; Circle is asked in between. Nothing serialises the requests: one *)
(* acts on a file that another has written since it was read, and writes   *)
(* its own copy over it.                                                   *)
(***************************************************************************)
EXTENDS Integers, FiniteSets

CONSTANTS
    Agent,          \* agents, each with an id and a name of its own
    Email,          \* e-mail addresses of the owners
    EmailOf,        \* EmailOf[a]: the owner's address in a's requests
    Wallet,         \* wallets Circle has or may create
    Stock,          \* those Circle has at first, created for nobody
    Legacy,         \* those in Stock that are smart accounts, not EOAs
    Request,        \* slots for requests in progress at the same time
    None,           \* no agent, no wallet
    Faults          \* what may happen in a run, see below

FaultKinds ==
    { "crash",          \* the Circle service restarts
      "torn_write",     \* ... in the middle of writing the file
      "remote_error",   \* Circle fails, perhaps after creating a wallet
      "lost_reply" }    \* the ledger does not get the answer

ASSUME WalletAssumption ==
    /\ EmailOf \in [Agent -> Email]
    /\ Stock \subseteq Wallet /\ Legacy \subseteq Stock
    /\ None \notin Agent /\ None \notin Wallet /\ None # "nobody"
    /\ "nobody" \notin Agent
    /\ Faults \subseteq FaultKinds

VARIABLES
    madeFor,        \* madeFor[w]: "nobody", an agent, or None if there is no w
    file,           \* the state file
    account,        \* account[a]: the wallet of a's account in the ledger
    req,            \* req[r]: the request in slot r
    chosen,         \* wallets a caller's choice has bound or unbound
    orphaned,       \* wallets created for an agent and not bound to it
    disturbed       \* agents whose binding, or the wallet a request for
                    \* them has found, fell to another request's write

history == <<chosen, orphaned, disturbed>>
vars == <<madeFor, file, account, req, history>>

(* The contents of the file: the wallets listed, each agent's binding, the *)
(* agents whose binding is to a wallet that was not found (mode "mock").   *)
File == [whole : BOOLEAN,
         wallets : SUBSET Wallet,
         bindings : [Agent -> Wallet \cup {None}],
         mocks : SUBSET Agent]

EmptyFile == [whole |-> TRUE, wallets |-> {},
              bindings |-> [a \in Agent |-> None], mocks |-> {}]

Step == {"idle", "named", "by_id", "by_name", "list", "read_list",
         "write_list", "unbound", "create", "read", "write", "answer",
         "write_intent"}

Req == [pc : Step,
        agent : Agent \cup {None},      \* None: an import, or a gas top-up
        want : Wallet \cup {None},      \* the wallet the caller names
        wallet : Wallet \cup {None},    \* the wallet found
        live : BOOLEAN,                 \* it is an EOA wallet of Circle's
        created : BOOLEAN,              \* this request has created it
        heard : BOOLEAN,                \* the ledger waits for the answer
        listing : SUBSET Wallet,        \* what Circle has listed
        seen : File]                    \* the file as last read

NoReq == [pc |-> "idle", agent |-> None, want |-> None, wallet |-> None,
          live |-> FALSE, created |-> FALSE, heard |-> FALSE,
          listing |-> {}, seen |-> EmptyFile]

TypeOK ==
    /\ madeFor \in [Wallet -> Agent \cup {"nobody", None}]
    /\ file \in File
    /\ account \in [Agent -> Wallet \cup {None}]
    /\ req \in [Request -> Req]
    /\ \A r \in Request :
          req[r].pc \in {"read", "write", "answer"}
            => req[r].agent # None /\ req[r].wallet # None
    /\ chosen \subseteq Wallet
    /\ orphaned \subseteq Wallet
    /\ disturbed \subseteq Agent

Init ==
    /\ madeFor = [w \in Wallet |-> IF w \in Stock THEN "nobody" ELSE None]
    /\ file = EmptyFile
    /\ account = [a \in Agent |-> None]
    /\ req = [r \in Request |-> NoReq]
    /\ chosen = {}
    /\ orphaned = {}
    /\ disturbed = {}

-----------------------------------------------------------------------------
May(fault) == fault \in Faults
Usable == Wallet \ Legacy
Known  == {w \in Wallet : madeFor[w] # None}
BoundIn(f) == {f.bindings[a] : a \in Agent}

SameOwner(a) == {b \in Agent : EmailOf[b] = EmailOf[a]}

(* Seeded fault: an empty e-mail address is taken for a common owner.      *)
UpsertBindingAlone(f, a, w, live) ==
    [f EXCEPT !.bindings = [b \in Agent |-> IF b = a THEN w ELSE None],
              !.mocks = IF live THEN {} ELSE {a}]

(* The file f with agent a bound to w: a's binding and those of the same   *)
(* owner go.                                                               *)
UpsertBinding(f, a, w, live) ==
    [f EXCEPT !.bindings = [b \in Agent |-> IF b = a THEN w
                                            ELSE IF b \in SameOwner(a) THEN None
                                            ELSE f.bindings[b]],
              !.mocks = (@ \ SameOwner(a)) \cup IF live THEN {} ELSE {a}]

Become(r, q) == req' = [req EXCEPT ![r] = q]
Goto(r, pc) == Become(r, [req[r] EXCEPT !.pc = pc])
Found(r, w, live) ==
    Become(r, [req[r] EXCEPT !.pc = "read", !.wallet = w, !.live = live])

At(r, pc) == req[r].pc = pc
Reads(r, pc) == At(r, pc) /\ file.whole

OnlyReq == UNCHANGED <<madeFor, file, account, history>>

(* Request r writes the file it has made of its copy, in which the agents  *)
(* of its own owner are replaced. It disturbs whom its copy is stale about *)
(* and whose request it overtakes: one that has looked for a binding of    *)
(* the agent's, which is now another, or has found a wallet, which is now  *)
(* bound.                                                                  *)
Acts(r) == req[r].pc \notin {"idle", "named", "by_id", "answer"}
StaleIn(r) == {a \in Agent : req[r].seen.bindings[a] # file.bindings[a]}
BoundBy(f, w) == \E b \in Agent : f.bindings[b] = w /\ file.bindings[b] # w
OvertakenBy(r, f) ==
    {a \in Agent : \E s \in Request \ {r} :
        /\ Acts(s) /\ req[s].agent = a
        /\ \/ f.bindings[a] # file.bindings[a]
           \/ req[s].pc \in {"read", "write"} /\ BoundBy(f, req[s].wallet)}

Save(r, f, replaced) ==
    /\ file' = f
    /\ disturbed' = disturbed \cup replaced \cup StaleIn(r) \cup OvertakenBy(r, f)

-----------------------------------------------------------------------------
(* getOrCreate, and the import of wallets.                                 *)

Call(r, a, w) ==
    /\ At(r, "idle")
    /\ Become(r, [NoReq EXCEPT !.pc = IF w = None THEN "by_id" ELSE "named",
                               !.agent = a, !.want = w, !.heard = TRUE])
    /\ OnlyReq

Import(r) ==
    /\ At(r, "idle")
    /\ Goto(r, "list")
    /\ OnlyReq

(* status of the wallet the caller names: among the wallets, then among    *)
(* the bindings, and otherwise a mock.                                     *)
FindNamed(r) ==
    /\ Reads(r, "named")
    /\ LET w == req[r].want
           holders == {a \in Agent : file.bindings[a] = w}
           found == w \in file.wallets \cap Usable
       IN \E live \in BOOLEAN :
            /\ live => found \/ holders \ file.mocks # {}
            /\ ~live => ~found /\ (holders = {} \/ holders \cap file.mocks # {})
            /\ Found(r, w, live)
    /\ OnlyReq

(* Seeded fault: the agent's id is not looked up.                          *)
SkipById(r) ==
    /\ Reads(r, "by_id")
    /\ Goto(r, "by_name")
    /\ OnlyReq

FindById(r) ==
    /\ Reads(r, "by_id")
    /\ LET a == req[r].agent
       IN IF file.bindings[a] # None
            THEN Found(r, file.bindings[a], a \notin file.mocks)
            ELSE Goto(r, "by_name")
    /\ OnlyReq

FindByName(r) ==
    /\ Reads(r, "by_name")
    /\ LET own == {w \in file.wallets \cap Usable : madeFor[w] = req[r].agent}
       IN \/ \E w \in own : Found(r, w, TRUE)
          \/ own = {} /\ Goto(r, "list")
    /\ OnlyReq

ListWallets(r) ==
    /\ At(r, "list")
    /\ Become(r, [req[r] EXCEPT !.pc = "read_list", !.listing = Known])
    /\ OnlyReq

(* saveWallets reads the file ...                                          *)
ReadForWallets(r) ==
    /\ Reads(r, "read_list")
    /\ Become(r, [req[r] EXCEPT !.pc = "write_list", !.seen = file])
    /\ OnlyReq

(* ... and writes the wallets listed with the bindings it has read.        *)
SaveWallets(r) ==
    /\ At(r, "write_list")
    /\ Save(r, [req[r].seen EXCEPT !.wallets = req[r].listing], {})
    /\ Become(r, IF req[r].agent = None THEN NoReq
                 ELSE [req[r] EXCEPT !.pc = "unbound", !.listing = {},
                                     !.seen = EmptyFile])
    /\ UNCHANGED <<madeFor, account, chosen, orphaned>>

(* The other writer of the file: saveGasTopUpIntent writes back wallets    *)
(* and bindings as it has read them.                                       *)
ReadForIntent(r) ==
    /\ Reads(r, "idle")
    /\ Become(r, [NoReq EXCEPT !.pc = "write_intent", !.seen = file])
    /\ OnlyReq

SaveIntent(r) ==
    /\ At(r, "write_intent")
    /\ Save(r, req[r].seen, {})
    /\ Become(r, NoReq)
    /\ UNCHANGED <<madeFor, account, chosen, orphaned>>

(* Seeded fault: bound wallets count as unused.                            *)
FindAnyWallet(r) ==
    /\ Reads(r, "unbound")
    /\ LET unused == file.wallets \cap Usable
       IN \/ \E w \in unused : Found(r, w, TRUE)
          \/ unused = {} /\ Goto(r, "create")
    /\ OnlyReq

FindUnboundWallet(r) ==
    /\ Reads(r, "unbound")
    /\ LET unused == (file.wallets \cap Usable) \ BoundIn(file)
       IN \/ \E w \in unused : Found(r, w, TRUE)
          \/ unused = {} /\ Goto(r, "create")
    /\ OnlyReq

CreateWallet(r) ==
    /\ At(r, "create")
    /\ \E w \in Wallet \ Known :
         /\ madeFor' = [madeFor EXCEPT ![w] = req[r].agent]
         /\ \/ /\ Become(r, [req[r] EXCEPT !.pc = "read", !.wallet = w,
                                           !.live = TRUE, !.created = TRUE])
               /\ UNCHANGED orphaned
            \/ /\ May("remote_error")
               /\ Become(r, NoReq)
               /\ orphaned' = orphaned \cup {w}
    /\ UNCHANGED <<file, account, chosen, disturbed>>

(* saveBinding reads the file ...                                          *)
ReadForBinding(r) ==
    /\ Reads(r, "read")
    /\ Become(r, [req[r] EXCEPT !.pc = "write", !.seen = file])
    /\ OnlyReq

(* ... and writes it with the agent bound to the wallet.                   *)
Replaced(a) == {b \in SameOwner(a) \ {a} : file.bindings[b] # None}

SaveBinding(r) ==
    /\ At(r, "write")
    /\ LET q == req[r]
       IN /\ Save(r, UpsertBinding(q.seen, q.agent, q.wallet, q.live), Replaced(q.agent))
          /\ chosen' = IF q.want = None THEN chosen
                       ELSE chosen \cup ({q.wallet, q.seen.bindings[q.agent]} \ {None})
    /\ Become(r, [req[r] EXCEPT !.pc = "answer", !.created = FALSE,
                                !.seen = EmptyFile])
    /\ UNCHANGED <<madeFor, account, orphaned>>

(* The ledger binds the account to the wallet of the answer.               *)
Answer(r) ==
    /\ At(r, "answer")
    /\ account' = IF req[r].heard /\ req[r].live
                    THEN [account EXCEPT ![req[r].agent] = req[r].wallet]
                    ELSE account
    /\ Become(r, NoReq)
    /\ UNCHANGED <<madeFor, file, history>>

-----------------------------------------------------------------------------
(* Errors and restarts.                                                    *)

Created == {req[r].wallet : r \in {s \in Request : req[s].created}}

LoseReply(r) ==
    /\ May("lost_reply")
    /\ req[r].heard
    /\ Become(r, [req[r] EXCEPT !.heard = FALSE])
    /\ OnlyReq

(* A file that cannot be parsed, or an error of Circle's, ends a request.  *)
Fail(r) ==
    /\ \/ ~file.whole /\ req[r].pc \in {"named", "by_id", "by_name", "read_list",
                                        "unbound", "read"}
       \/ May("remote_error") /\ req[r].pc \in {"named", "list", "create", "answer"}
    /\ Become(r, NoReq)
    /\ orphaned' = IF req[r].created THEN orphaned \cup {req[r].wallet} ELSE orphaned
    /\ UNCHANGED <<madeFor, file, account, chosen, disturbed>>

Crash ==
    /\ May("crash")
    /\ req' = [r \in Request |-> NoReq]
    /\ \/ UNCHANGED file
       \/ /\ May("torn_write")
          /\ \E r \in Request : req[r].pc \in {"write", "write_list", "write_intent"}
          /\ file' = [EmptyFile EXCEPT !.whole = FALSE]
    /\ orphaned' = orphaned \cup Created
    /\ UNCHANGED <<madeFor, account, chosen, disturbed>>

RequestStep(r) ==
    \/ \E a \in Agent, w \in Known \cup {None} : Call(r, a, w)
    \/ Import(r)
    \/ FindNamed(r) \/ FindById(r) \/ FindByName(r)
    \/ ListWallets(r) \/ ReadForWallets(r) \/ SaveWallets(r)
    \/ ReadForIntent(r) \/ SaveIntent(r)
    \/ FindUnboundWallet(r) \/ CreateWallet(r)
    \/ ReadForBinding(r) \/ SaveBinding(r) \/ Answer(r)
    \/ LoseReply(r) \/ Fail(r)

Next == Crash \/ \E r \in Request : RequestStep(r)

Spec == Init /\ [][Next]_vars

-----------------------------------------------------------------------------
(* Properties. Agents that have been disturbed are excepted: whose binding *)
(* fell to a stale copy of the file or to a binding for the same owner     *)
(* (SameOwner), or whose request was overtaken. The account is then left   *)
(* with a wallet that is given away as unused, or given one just bound.    *)
(* With requests one at a time and owners of one agent each nobody is      *)
(* disturbed.                                                              *)

Loose == chosen \cup orphaned

(* Two accounts share a wallet only if a caller has named it or left it    *)
(* for another, its creation was interrupted before it was bound, or one   *)
(* of the two was disturbed: the wallets an import gives away are nobody's *)
(* (agent-wallet-service.ts:204, agent-wallet-state-store.ts:115).         *)
WalletsExclusive ==
    \A a, b \in Agent \ disturbed :
        a # b /\ account[a] = account[b] /\ account[a] # None => account[a] \in Loose

(* The wallet whose balance the ledger shows is the wallet the Circle      *)
(* service pays from: the binding behind an account is lost to no import,  *)
(* restart or error (agent-wallet-state-store.ts:174, :190), unless the    *)
(* agent was disturbed.                                                    *)
BindingBacksAccount ==
    \A a \in Agent \ disturbed :
        file.whole /\ account[a] # None
            => file.bindings[a] = account[a] \/ account[a] \in chosen

(* An undisturbed agent's wallet changes only to one a caller has named:   *)
(* asking again, after any fault, gives the same wallet                    *)
(* (agent-wallet-service.ts:106, services.py:305).                         *)
WalletStable ==
    [][\A a \in Agent \ disturbed :
          account[a] # None => account'[a] \in {account[a]} \cup chosen]_vars

(* Whatever the callers name and Circle lists, an account gets only EOA    *)
(* wallets that exist: no smart account and no mock (services.py:301).     *)
AccountsUsable == \A a \in Agent : account[a] \in (Usable \cap Known) \cup {None}

-----------------------------------------------------------------------------
(* The inductive invariant. Of every file, also of the copies: its wallets *)
(* and bindings are of wallets that exist, and a binding that is no mock   *)
(* is of an EOA.                                                           *)
FileSane(f) ==
    /\ f.wallets \subseteq Known
    /\ \A a \in Agent :
          /\ f.bindings[a] \in Known \cup {None}
          /\ f.bindings[a] # None /\ a \notin f.mocks => f.bindings[a] \in Usable

(* What a request has found.                                               *)
HasWallet == {"read", "write", "answer"}
Searching == {"by_name", "list", "read_list", "write_list", "unbound", "create"}

RequestSane(r) ==
    LET q == req[r] IN
    /\ q.pc = "idle" => q = NoReq
    /\ q.pc \in {"named", "by_id", "by_name", "unbound", "create"} => q.agent # None
    /\ q.pc \in HasWallet \cup {"write_list", "unbound", "create", "write_intent"} => file.whole
    /\ FileSane(q.seen) /\ (q.pc \in {"write_list", "write", "write_intent"} => q.seen.whole)
    /\ q.pc = "named" => q.want # None
    /\ q.want # None => q.pc \in {"named"} \cup HasWallet
    /\ q.want \in Known \cup {None}
    /\ q.listing \subseteq Known
    /\ q.pc \in HasWallet => q.agent # None /\ q.wallet \in Known
    /\ q.pc \in HasWallet /\ q.want # None => q.wallet = q.want
    /\ q.live => q.wallet \in Usable
    /\ q.created => q.pc \in {"read", "write"} /\ q.want = None

(* Of undisturbed agents: what account and file say.                       *)
SameOrChosen(v, w) == v = w \/ {v, w} \subseteq chosen

AgentAgrees(a) ==
    account[a] # None /\ file.whole => SameOrChosen(file.bindings[a], account[a])

(* A wallet is bound, or still in the hands of the request that created it.*)
MadeAgrees(w) ==
    madeFor[w] \in Agent \ disturbed /\ file.whole =>
        \/ file.bindings[madeFor[w]] = w
        \/ w \in Loose
        \/ \E r \in Request :
              req[r].created /\ req[r].wallet = w /\ req[r].agent = madeFor[w]

(* A wallet found for an agent that has not named it is its own, or no     *)
(* other undisturbed agent's.                                              *)
Held == {file.bindings[a] : a \in Agent \ disturbed}
WalletFree(r) ==
    LET q == req[r] IN
    \/ q.want # None
    \/ file.bindings[q.agent] = q.wallet
    \/ file.bindings[q.agent] = None /\ (q.wallet \in Loose \/ q.wallet \notin Held)

(* What a request for one has found is still so when it acts on it.        *)
RequestAgrees(r) ==
    LET q == req[r] IN
    q.agent \in Agent \ disturbed =>
        /\ q.pc \in Searching /\ file.whole => file.bindings[q.agent] = None
        /\ q.pc = "write" => q.seen.bindings[q.agent] = file.bindings[q.agent]
        /\ q.pc \in {"read", "write"} => WalletFree(r)
        /\ q.pc = "answer" => SameOrChosen(file.bindings[q.agent], q.wallet)

(* Wallets of two bindings are loose, and so are wallets of two accounts.  *)
WalletsInv ==
    /\ TypeOK
    /\ Stock \subseteq Known /\ FileSane(file)
    /\ AccountsUsable
    /\ \A r \in Request : RequestSane(r) /\ RequestAgrees(r)
    /\ \A a \in Agent \ disturbed : AgentAgrees(a)
    /\ \A w \in Wallet : MadeAgrees(w)
    /\ \A a, b \in Agent \ disturbed :
          a # b /\ file.bindings[a] = file.bindings[b] /\ file.bindings[a] # None
            => file.bindings[a] \in Loose
    /\ WalletsExclusive
=============================================================================
