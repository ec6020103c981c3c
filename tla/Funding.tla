------------------------------ MODULE Funding ------------------------------
(* The Funding and Settings views of the dashboard: the address book that  *)
(* the browser keeps for all its tabs (MvpAppStateProvider.jsx), the modal *)
(* and the scanner that capture an address (AddAddressModal.jsx,           *)
(* QRScanner.jsx), and the form that withdraws to one (FundingView.jsx).   *)
(*                                                                         *)
(* Handlers of a page run to completion; what they start (a camera         *)
(* request, a file read, a withdrawal) answers later, and may find that    *)
(* the component it was started by is gone.                                *)
EXTENDS Naturals, Sequences, FiniteSets, Amounts

CONSTANTS
    Tab,            \* the browser's tabs
    Address,        \* addresses people scan, upload, paste
    Scanners,       \* bound: tabs in which addresses are scanned
    Pasters,        \* bound: tabs in which they are pasted
    Payers,         \* bound: tabs in which withdrawals are made
    Opening,        \* what the agent's account holds, in atomic units
    Typed,          \* amounts people type, in atomic units
    Works,          \* bound: page loads, changes of the address book, camera
                    \* requests, file reads and withdrawals
    None

ASSUME FundingAssumption ==
    /\ Scanners \cup Pasters \cup Payers \subseteq Tab
    /\ Typed \subseteq Nat
    /\ {Opening, Works} \subseteq Nat
    /\ None \notin Address \cup Tab \cup {"ok", "error"}

VARIABLES
    address,        \* the address of each wallet ever saved, by id
    stored,         \* localStorage: the wallets' ids, and the default one
    book,           \* each tab's copy of it
    page,           \* each tab's view, account data, form and modal
    scan,           \* each tab's scanner
    asks,           \* camera requests under way: for a scanner, for none
    reads,          \* image files being read
    calls,          \* withdrawals whose answer has not arrived
    held,           \* what the ledger has for the agent
    moved,          \* history: withdrawals that went through
    works           \* counter for the bound

bookVars == <<address, stored, book>>
scanVars == <<scan, asks, reads>>
payVars == <<calls, held, moved>>
vars == <<bookVars, page, scanVars, payVars, works>>

Ids == 1..Works

(* Bounded: what fills the address book, and what is answered later.       *)
Work == works < Works /\ works' = works + 1
First(s) == IF s = <<>> THEN None ELSE s[1]

NoBook == [list |-> <<>>, default |-> None]
NewForm(data) == [stage |-> "idle", balance |-> data, receipt |-> None]
NewModal == [open |-> FALSE, mode |-> "choose", address |-> None]
NoScanner == [status |-> "off", stream |-> FALSE, playing |-> FALSE]

Money == 0..Opening
Book == [list : Seq(Ids), default : Ids \cup {None}]
Receipt == [amount : Money, to : Address]
Form == [stage : {"idle", "pending", "settled"}, balance : Money, receipt : Receipt \cup {None}]
Modal == [open : BOOLEAN, mode : {"choose", "scan", "paste", "confirm"},
          address : Address \cup {None}]
Page == [view : {"funding", "settings", "other"}, data : Money, form : Form, modal : Modal]
Scanner == [status : {"off", "requesting", "scanning", "refused", "error"},
            stream : BOOLEAN, playing : BOOLEAN]
File == [tab : Tab, n : Nat, scanner : BOOLEAN, text : Seq(Address)]
Withdrawal == [tab : Tab, n : Nat, heard : BOOLEAN, answer : {None, "ok", "error"},
               amount : Money, to : Address]

TypeOK ==
    /\ address \in Seq(Address) /\ Len(address) <= works
    /\ stored \in Book /\ book \in [Tab -> Book]
    /\ page \in [Tab -> Page]
    /\ scan \in [Tab -> Scanner]
    /\ asks \in [Tab -> [wanted : BOOLEAN, unwanted : Nat]]
    /\ reads \subseteq File
    /\ calls \subseteq Withdrawal
    /\ held \in Money
    /\ moved \subseteq Receipt
    /\ works \in 0..Works

Init ==
    /\ address = <<>>
    /\ stored = NoBook
    /\ book = [t \in Tab |-> NoBook]
    /\ page = [t \in Tab |-> [view |-> "other", data |-> Opening,
                              form |-> NewForm(Opening), modal |-> NewModal]]
    /\ scan = [t \in Tab |-> NoScanner]
    /\ asks = [t \in Tab |-> [wanted |-> FALSE, unwanted |-> 0]]
    /\ reads = {}
    /\ calls = {}
    /\ held = Opening
    /\ moved = {}
    /\ works = 0

-----------------------------------------------------------------------------
(* The scanner is there while the modal is open in its scan mode.  When it *)
(* appears it asks for the camera; when it goes it stops the stream, and   *)
(* what it has started finds it gone.                                      *)
Scanning(p) == p.view # "other" /\ p.modal.open /\ p.modal.mode = "scan"

Asked(t) == [asks EXCEPT ![t].wanted = TRUE]
Unasked(t) ==
    [asks EXCEPT ![t].unwanted = IF asks[t].wanted THEN @ + 1 ELSE @, ![t].wanted = FALSE]

(* Seeded fault: the scanner leaves its stream on when it goes.            *)
GoneLit(t) == [scan EXCEPT ![t].status = "off", ![t].playing = FALSE]
Gone(t) == [scan EXCEPT ![t] = NoScanner]

Orphans(t) == {IF r.tab = t THEN [r EXCEPT !.scanner = FALSE] ELSE r : r \in reads}
Abandoned(t) == {r \in reads : r.tab # t}

(* Tab t turns to page q; nothing of its scanner was ended otherwise.      *)
Turn(t, q) ==
    /\ page' = [page EXCEPT ![t] = q]
    /\ IF Scanning(page[t]) /\ ~Scanning(q)
       THEN /\ scan' = Gone(t)
            /\ asks' = Unasked(t)
            /\ UNCHANGED works
       ELSE IF ~Scanning(page[t]) /\ Scanning(q)
       THEN /\ Work
            /\ scan' = [scan EXCEPT ![t] = [NoScanner EXCEPT !.status = "requesting"]]
            /\ asks' = Asked(t)
       ELSE UNCHANGED <<scan, asks, works>>

-----------------------------------------------------------------------------
(* Views.  The form is reset whenever the default wallet or the account    *)
(* data it was filled with change; leaving the view forgets everything.    *)
Reset(p) == [p EXCEPT !.form = NewForm(p.data)]
LeaveView(p, view) == [Reset(p) EXCEPT !.view = view, !.modal = NewModal]

(* The calls of a form that is gone are not heard.  A view also goes when  *)
(* the agent it shows is no longer in the portfolio.                       *)
Unheard(t) == {IF c.tab = t THEN [c EXCEPT !.heard = FALSE] ELSE c : c \in calls}

ShowView(t, view) ==
    /\ page[t].view # view
    /\ view = "funding" => t \in Payers
    /\ Turn(t, LeaveView(page[t], view))
    /\ calls' = Unheard(t)
    /\ reads' = Abandoned(t)
    /\ UNCHANGED <<bookVars, held, moved>>

(* A portfolio arrives, which may have been written before the last        *)
(* withdrawal; the form is reset even if it says nothing new.              *)
Refresh(t) ==
    /\ \E data \in {page[t].data, held} :
          page' = [page EXCEPT ![t] = Reset([page[t] EXCEPT !.data = data])]
    /\ UNCHANGED <<bookVars, scanVars, payVars, works>>

(* A page load reads the stored book.                                      *)
Reload(t) ==
    /\ Work
    /\ book' = [book EXCEPT ![t] = stored]
    /\ page' = [page EXCEPT ![t] = [view |-> "other", data |-> held,
                                    form |-> NewForm(held), modal |-> NewModal]]
    /\ scan' = Gone(t)
    /\ asks' = [asks EXCEPT ![t] = [wanted |-> FALSE, unwanted |-> 0]]
    /\ reads' = Abandoned(t)
    /\ calls' = Unheard(t)
    /\ UNCHANGED <<address, stored, held, moved>>

-----------------------------------------------------------------------------
(* The address book.  A tab changes its own list and stores that list over *)
(* the stored one.  A default chosen on the way is stored at once; the tab *)
(* hears of it only if React has run the update before it returns.         *)
Rebook(t, list, storedDefault, default) ==
    /\ stored' = [list |-> list, default |-> storedDefault]
    /\ book' = [book EXCEPT ![t] = [list |-> list, default |-> default]]

(* Whatever a change of the default does to the tab's form.                *)
Rebooked(t, p, default) ==
    IF default = book[t].default THEN p ELSE Reset(p)

addWallet(t, a, asDefault, q) ==
    LET id == Len(address) + 1
        becomes == book[t].list = <<>> \/ asDefault
    IN  /\ address' = Append(address, a)
        /\ \E heard \in BOOLEAN :
              LET default == IF becomes /\ heard THEN id ELSE book[t].default
              IN  /\ Rebook(t, Append(book[t].list, id),
                            IF becomes THEN id ELSE stored.default, default)
                  /\ page' = [page EXCEPT ![t] = Rebooked(t, q, default)]

(* The Settings view lists the tab's wallets, unless its modal is open.    *)
Editing(t) == page[t].view = "settings" /\ ~page[t].modal.open
Listed(t) == {book[t].list[i] : i \in DOMAIN book[t].list}

(* An id is drawn once, so a list has the wallet it names at one place.    *)
Without(s, i) == SubSeq(s, 1, i - 1) \o SubSeq(s, i + 1, Len(s))

removeWallet(t) ==
    /\ Editing(t)
    /\ Work
    /\ \E i \in DOMAIN book[t].list, heard \in BOOLEAN :
          LET id == book[t].list[i]
              list == Without(book[t].list, i)
              moves == stored.default = id
              default == IF moves /\ heard THEN First(list) ELSE book[t].default
          IN  /\ Rebook(t, list, IF moves THEN First(list) ELSE stored.default, default)
              /\ page' = [page EXCEPT ![t] = Rebooked(t, page[t], default)]
    /\ UNCHANGED <<address, scanVars, payVars>>

setDefaultWallet(t) ==
    /\ Editing(t)
    /\ Work
    /\ \E id \in Listed(t) \ {book[t].default} :
          /\ stored' = [stored EXCEPT !.default = id]
          /\ book' = [book EXCEPT ![t].default = id]
          /\ page' = [page EXCEPT ![t] = Reset(page[t])]
    /\ UNCHANGED <<address, scanVars, payVars>>

(* A new label: only the list is stored, the tab's over another's.         *)
updateWalletLabel(t) ==
    /\ Editing(t)
    /\ book[t].list # <<>>
    /\ Work
    /\ stored' = [stored EXCEPT !.list = book[t].list]
    /\ UNCHANGED <<address, book, page, scanVars, payVars>>

(* The claim form's way back to the sign-in screen clears the browser.     *)
resetAll(t) ==
    /\ page[t].view = "other"
    /\ Work
    /\ stored' = NoBook
    /\ book' = [book EXCEPT ![t] = NoBook]
    /\ page' = [page EXCEPT ![t] = Reset(page[t])]
    /\ UNCHANGED <<address, scanVars, payVars>>

-----------------------------------------------------------------------------
(* The modal.  Its mode outlives its being closed: opened again, it shows  *)
(* what it showed until it has been reset, and a scanner shown for that    *)
(* moment has asked for the camera.  Nothing else of a closed modal lasts. *)
Closed(m) == IF m.mode = "scan" THEN [NewModal EXCEPT !.mode = "scan"] ELSE NewModal

OpenModal(t) ==
    /\ page[t].view # "other" /\ ~page[t].modal.open
    /\ page[t].view = "funding" => page[t].form.stage = "idle"
    /\ page' = [page EXCEPT ![t].modal = [NewModal EXCEPT !.open = TRUE]]
    /\ IF page[t].modal.mode = "scan"
       THEN /\ Work
            /\ asks' = [asks EXCEPT ![t].unwanted = @ + 1]
       ELSE UNCHANGED <<works, asks>>
    /\ UNCHANGED <<bookVars, scan, reads, payVars>>

ModalStep(t, q) ==
    /\ page[t].modal.open
    /\ Turn(t, q)
    /\ reads' = IF Scanning(page[t]) /\ ~Scanning(q) THEN Orphans(t) ELSE reads
    /\ UNCHANGED <<bookVars, payVars>>

CloseModal(t) == ModalStep(t, [page[t] EXCEPT !.modal = Closed(@)])

Choose(t, mode) ==
    /\ page[t].modal.mode = "choose"
    /\ t \in (IF mode = "scan" THEN Scanners ELSE Pasters)
    /\ ModalStep(t, [page[t] EXCEPT !.modal.mode = mode])

handleBack(t) ==
    /\ page[t].modal.mode # "choose"
    /\ ModalStep(t, [page[t] EXCEPT !.modal.mode = "choose", !.modal.address = None])

(* Only a whole address can be taken from the paste field.                 *)
Pasted(t) == IF page[t].modal.mode = "paste" THEN Address ELSE {}

handlePasteContinue(t) ==
    \E a \in Pasted(t) :
        ModalStep(t, [page[t] EXCEPT !.modal.mode = "confirm", !.modal.address = a])

(* Seeded fault: the confirm step does not look for the address.           *)
duplicateUnchecked(t, a) == FALSE
duplicate(t, a) == \E id \in Listed(t) : address[id] = a

canSave(t) ==
    /\ page[t].modal.open /\ page[t].modal.mode = "confirm"
    /\ page[t].modal.address # None
    /\ ~duplicate(t, page[t].modal.address)

handleSave(t) ==
    /\ canSave(t)
    /\ Work
    /\ \E asDefault \in BOOLEAN :
          addWallet(t, page[t].modal.address, asDefault, [page[t] EXCEPT !.modal = NewModal])
    /\ UNCHANGED <<scanVars, payVars>>

-----------------------------------------------------------------------------
(* The scanner.                                                            *)

(* A stream that comes for a scanner that has given up waiting is stopped. *)
(* Denied, or absent: the scanner is left with its upload.                 *)
CameraGranted(t) ==
    /\ asks[t].wanted
    /\ asks' = [asks EXCEPT ![t].wanted = FALSE]
    /\ scan' = [scan EXCEPT ![t].stream = TRUE, ![t].playing = TRUE]
    /\ UNCHANGED <<bookVars, page, reads, payVars, works>>

CameraRefused(t) ==
    /\ asks[t].wanted
    /\ asks' = [asks EXCEPT ![t].wanted = FALSE]
    /\ scan' = [scan EXCEPT ![t].status = "refused"]
    /\ UNCHANGED <<bookVars, page, reads, payVars, works>>

CameraUnwanted(t) ==
    /\ asks[t].unwanted > 0
    /\ asks' = [asks EXCEPT ![t].unwanted = @ - 1]
    /\ UNCHANGED <<bookVars, page, scan, reads, payVars, works>>

(* The video plays, and the scanner scans, whatever it has been told.      *)
Plays(t) ==
    /\ scan[t].playing
    /\ scan' = [scan EXCEPT ![t].status = "scanning", ![t].playing = FALSE]
    /\ UNCHANGED <<bookVars, page, asks, reads, payVars, works>>

(* The address in a QR code is the first in its text, be it the text, a    *)
(* payment URI's target, or anywhere.                                      *)
parseAddress(q) == First(q)
Texts == {<<>>} \cup {<<a>> : a \in Address}

(* The scanner's error; it no longer waits for the camera.                 *)
Fails(t) ==
    /\ scan' = [scan EXCEPT ![t].status = "error"]
    /\ asks' = IF scan[t].status = "requesting" THEN Unasked(t) ELSE asks

Confirmed(p, a) ==
    IF p.modal.open THEN [p EXCEPT !.modal.mode = "confirm", !.modal.address = a]
    ELSE [p EXCEPT !.modal = NewModal]

DecodeFrame(t) ==
    /\ scan[t].status = "scanning"
    /\ \E q \in Texts :
          IF parseAddress(q) = None
          THEN Fails(t) /\ UNCHANGED <<page, reads, works>>
          ELSE /\ Turn(t, Confirmed(page[t], parseAddress(q)))
               /\ reads' = Orphans(t)
    /\ UNCHANGED <<bookVars, payVars>>

PickFile(t) ==
    /\ scan[t].status # "off"
    /\ Work
    /\ \E q \in Texts :
          reads' = reads \cup {[tab |-> t, n |-> works', scanner |-> TRUE, text |-> q]}
    /\ UNCHANGED <<bookVars, page, scan, asks, payVars>>

(* A file read late still tells the modal, open or closed, of its address. *)
handleUpload(r) ==
    LET t == r.tab
        a == parseAddress(r.text)
    IN  /\ IF a = None
           THEN /\ IF r.scanner THEN Fails(t) ELSE UNCHANGED <<scan, asks>>
                /\ UNCHANGED <<page, works>>
                /\ reads' = reads \ {r}
           ELSE /\ Turn(t, Confirmed(page[t], a))
                /\ reads' = (IF Scanning(page[t]) THEN Orphans(t) ELSE reads)
                                \ {r, [r EXCEPT !.scanner = FALSE]}
        /\ UNCHANGED <<bookVars, payVars>>

handleRetry(t) ==
    /\ scan[t].status = "error"
    /\ IF scan[t].stream
       THEN scan' = [scan EXCEPT ![t].status = "scanning"] /\ UNCHANGED <<asks, works>>
       ELSE /\ Work
            /\ scan' = [scan EXCEPT ![t].status = "requesting"]
            /\ asks' = Asked(t)
    /\ UNCHANGED <<bookVars, page, reads, payVars>>

-----------------------------------------------------------------------------
(* The withdrawal form.                                                    *)

Filling(t) == page[t].view = "funding" /\ page[t].form.stage = "idle" /\ ~page[t].modal.open

(* A destination is picked among the wallets in the tab's own list, stored *)
(* still or not; an amount is typed, or taken over from MAX.               *)
Picks(t) == Listed(t)
Enterable(t) == Typed \cup MaxOffers(page[t].form.balance)

canConfirm(t, id, n) ==
    /\ Filling(t)
    /\ id \in Picks(t)
    /\ n \in 0..page[t].form.balance /\ n >= Unit

handleConfirm(t) ==
    /\ Work
    /\ \E id \in Picks(t), n \in Enterable(t) :
          /\ canConfirm(t, id, n)
          /\ calls' = calls \cup {[tab |-> t, n |-> works', heard |-> TRUE, answer |-> None,
                                   amount |-> n, to |-> address[id]]}
    /\ page' = [page EXCEPT ![t].form.stage = "pending"]
    /\ UNCHANGED <<bookVars, scanVars, held, moved>>

(* The ledger moves the money, or not; an error does not say which.        *)
Moved(c) == [amount |-> c.amount, to |-> c.to]
LedgerMoves(c) ==
    /\ c.answer = None
    /\ c.amount <= held
    /\ held' = held - c.amount
    /\ moved' = moved \cup {Moved(c)}
    /\ \E a \in {"ok", "error"} : calls' = (calls \ {c}) \cup {[c EXCEPT !.answer = a]}
    /\ UNCHANGED <<bookVars, page, scanVars, works>>

LedgerRefuses(c) ==
    /\ c.answer = None
    /\ calls' = (calls \ {c}) \cup {[c EXCEPT !.answer = "error"]}
    /\ UNCHANGED <<bookVars, page, scanVars, held, moved, works>>

(* The answer settles the form, whichever of its calls it is to.           *)
(* Seeded fault: the shown balance is not kept from going below zero; 0 - 1 *)
(* stands for what it then shows.                                          *)
MinusPlain(b, n) == IF n > b THEN Opening + 1 ELSE b - n
Minus(b, n) == IF n > b THEN 0 ELSE b - n
Settled(f, c) ==
    [f EXCEPT !.stage = "settled", !.balance = Minus(@, c.amount),
              !.receipt = [Moved(c) EXCEPT !.amount = displayAmountAtomic(0, @, c.amount)]]

(* Seeded fault: an error is shown, and the button stays disabled.         *)
FailedStuck(f) == f
Failed(f) == [f EXCEPT !.stage = "idle"]

(* Seeded fault: the answer's status is not looked at.                     *)
AnswerUnread(c) ==
    /\ c.answer # None
    /\ calls' = calls \ {c}
    /\ page' = IF c.heard THEN [page EXCEPT ![c.tab].form = Settled(@, c)] ELSE page
    /\ UNCHANGED <<bookVars, scanVars, held, moved, works>>

Answer(c) ==
    /\ c.answer # None
    /\ calls' = calls \ {c}
    /\ page' = IF c.heard
               THEN [page EXCEPT ![c.tab].form = IF c.answer = "ok" THEN Settled(@, c) ELSE Failed(@)]
               ELSE page
    /\ UNCHANGED <<bookVars, scanVars, held, moved, works>>

Another(t) ==
    /\ page[t].form.stage = "settled" /\ ~page[t].modal.open
    /\ page' = [page EXCEPT ![t].form.stage = "idle"]
    /\ UNCHANGED <<bookVars, scanVars, payVars, works>>

-----------------------------------------------------------------------------
ViewStep(t) ==
    \/ \E view \in {"funding", "settings", "other"} : ShowView(t, view)
    \/ Refresh(t) \/ Reload(t)
BookStep(t) ==
    removeWallet(t) \/ setDefaultWallet(t) \/ updateWalletLabel(t) \/ resetAll(t)
CaptureStep(t) ==
    \/ OpenModal(t) \/ CloseModal(t) \/ handleBack(t) \/ handlePasteContinue(t)
    \/ handleSave(t)
    \/ \E mode \in {"scan", "paste"} : Choose(t, mode)
ScannerStep(t) ==
    \/ CameraGranted(t) \/ CameraRefused(t) \/ CameraUnwanted(t) \/ Plays(t)
    \/ DecodeFrame(t) \/ PickFile(t) \/ handleRetry(t)
FormStep(t) == handleConfirm(t) \/ Another(t)

Next ==
    \/ \E t \in Tab : ViewStep(t) \/ BookStep(t) \/ CaptureStep(t) \/ ScannerStep(t) \/ FormStep(t)
    \/ \E r \in reads : handleUpload(r)
    \/ \E c \in calls : LedgerMoves(c) \/ LedgerRefuses(c) \/ Answer(c)

Spec == Init /\ [][Next]_vars

-----------------------------------------------------------------------------
(* The camera is on only for a scanner that is shown, and only such a      *)
(* scanner's request can turn it on.                                       *)
CameraOffWhenUnwatched ==
    \A t \in Tab :
        /\ scan[t].stream => Scanning(page[t])
        /\ asks[t].wanted => Scanning(page[t]) /\ scan[t].status = "requesting"
                             /\ ~scan[t].stream

(* No list of wallets, a tab's or the stored one, has an address twice,    *)
(* whichever tabs have written over one another.                           *)
NoDuplicateAddresses ==
    \A b \in {stored} \cup {book[t] : t \in Tab} :
        \A i, j \in DOMAIN b.list :
            i # j => address[b.list[i]] # address[b.list[j]]

(* A form that waits has a withdrawal whose answer will end the wait.      *)
PendingHasCall ==
    \A t \in Tab : page[t].form.stage = "pending" =>
        \E c \in calls : c.tab = t /\ c.heard

(* A form that says a withdrawal is settled shows one that was made.       *)
SettledHasMoved ==
    \A t \in Tab : page[t].form.receipt # None => page[t].form.receipt \in moved

(* The amounts of the withdrawals, like all others, are read by those they *)
(* are written for as what was typed, with the exceptions that             *)
(* ConversionsExact names; withdrawals can be answered when they exceed    *)
(* the fee, and so can all that the form lets through.                     *)
AmountsSurvive ==
    /\ ConversionsExact
    /\ AnsweredAboveFee
    /\ GatewayReadsFunds
    /\ \A c \in calls :
          /\ usdcToAtomic(atomicUsdcToDecimal(c.amount)) = c.amount
          /\ Answers(c.amount)

(* The inductive invariant of the proofs.  A scanner that is shown is the  *)
(* only thing that has a status, a stream, a request for one or a file it  *)
(* is to be told of; a request is out only while it waits for its stream.  *)
CameraTidy(t) ==
    /\ (scan[t].status # "off" \/ scan[t].stream \/ scan[t].playing \/ asks[t].wanted)
          => Scanning(page[t])
    /\ scan[t].playing => scan[t].stream
    /\ asks[t].wanted => scan[t].status = "requesting" /\ ~scan[t].stream

FilesTidy == \A r \in reads : r.scanner => Scanning(page[r.tab])

(* The ids listed are of addresses that were saved.                        *)
Saved(b) == \A i \in DOMAIN b.list : b.list[i] <= Len(address)

AnsweredHasMoved == \A c \in calls : c.answer = "ok" => Moved(c) \in moved

FundingInv ==
    /\ TypeOK
    /\ \A t \in Tab : CameraTidy(t)
    /\ FilesTidy
    /\ Saved(stored) /\ \A t \in Tab : Saved(book[t])
    /\ NoDuplicateAddresses
    /\ PendingHasCall
    /\ AnsweredHasMoved
    /\ SettledHasMoved
=============================================================================
