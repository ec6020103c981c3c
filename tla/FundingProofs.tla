--------------------------- MODULE FundingProofs ---------------------------
(* Funding's invariant is inductive, for any number of tabs, addresses and *)
(* works, any amounts and any base of the digits: what CameraOffWhen-      *)
(* Unwatched, NoDuplicateAddresses, PendingHasCall and SettledHasMoved say *)
(* holds of every reachable state.  The second half is about the amounts:  *)
(* what is written is read as the number it was written for, for every     *)
(* number, base and number of decimals, and so AmountsSurvive.             *)
EXTENDS Funding, SequenceTheorems, WellFoundedInduction, TLAPS

(* The invariant's parts, by the variables that they read.                 *)
WorkOK == works \in 0..Works /\ Len(address) <= works

PageOK == page \in [Tab -> Page]

BookOK ==
    /\ address \in Seq(Address) /\ stored \in Book /\ book \in [Tab -> Book]
    /\ Saved(stored) /\ \A t \in Tab : Saved(book[t])
    /\ NoDuplicateAddresses

CameraOK ==
    /\ scan \in [Tab -> Scanner]
    /\ asks \in [Tab -> [wanted : BOOLEAN, unwanted : Nat]]
    /\ reads \subseteq File
    /\ \A t \in Tab : CameraTidy(t)
    /\ FilesTidy

PayOK ==
    /\ calls \subseteq Withdrawal /\ held \in Money /\ moved \subseteq Receipt
    /\ PendingHasCall /\ AnsweredHasMoved /\ SettledHasMoved

(* A step does at most one bounded thing.                                  *)
Worked == works' = works \/ (works < Works /\ works' = works + 1)

LEMMA InvIs == FundingInv <=> WorkOK /\ PageOK /\ BookOK /\ CameraOK /\ PayOK
    BY DEF FundingInv, TypeOK, WorkOK, PageOK, BookOK, CameraOK, PayOK

LEMMA InvIsNext == FundingInv' <=> (WorkOK /\ PageOK /\ BookOK /\ CameraOK /\ PayOK)'
    BY InvIs, PTL

LEMMA Bounds == Opening \in Nat /\ Works \in Nat /\ Typed \subseteq Nat /\ 0 \in Money
    BY FundingAssumption DEF Money

-----------------------------------------------------------------------------
(* Sequences of wallets.                                                   *)

LEMMA WithoutIs ==
    ASSUME NEW S, NEW s \in Seq(S), NEW i \in DOMAIN s
    PROVE  /\ Without(s, i) \in Seq(S) /\ Len(Without(s, i)) = Len(s) - 1
           /\ \A k \in DOMAIN Without(s, i) :
                 Without(s, i)[k] = IF k < i THEN s[k] ELSE s[k + 1]
    <1>1. Len(s) \in Nat /\ i \in 1..Len(s) /\ \A k \in 1..Len(s) : s[k] \in S
        BY LenProperties, ElementOfSeq
    <1>2. PICK a, b : a = SubSeq(s, 1, i - 1) /\ b = SubSeq(s, i + 1, Len(s))
        OBVIOUS
    <1>3. /\ a \in Seq(S) /\ Len(a) = i - 1
          /\ \A k \in 1..(i - 1) : a[k] = s[k]
        BY <1>1, <1>2, SubSeqProperties
    <1>4. /\ b \in Seq(S) /\ Len(b) = Len(s) - i
          /\ \A k \in 1..(Len(s) - i) : b[k] = s[i + k]
        BY <1>1, <1>2, SubSeqProperties
    <1>5. PICK r : r = a \o b
        OBVIOUS
    <1>6. /\ r \in Seq(S) /\ Len(r) = Len(s) - 1
          /\ \A k \in 1..(Len(s) - 1) : r[k] = IF k <= i - 1 THEN a[k] ELSE b[k - (i - 1)]
        <2>1. /\ a \o b \in Seq(S) /\ Len(a \o b) = Len(a) + Len(b)
              /\ \A k \in 1..(Len(a) + Len(b)) :
                    (a \o b)[k] = IF k <= Len(a) THEN a[k] ELSE b[k - Len(a)]
            BY <1>3, <1>4, ConcatProperties
        <2>2. Len(a) + Len(b) = Len(s) - 1
            BY <1>1, <1>3, <1>4
        <2> QED
            BY <1>3, <1>5, <2>1, <2>2
    <1>7. DOMAIN r = 1..(Len(s) - 1)
        BY <1>6, LenProperties
    <1>8. ASSUME NEW k \in 1..(Len(s) - 1) PROVE r[k] = IF k < i THEN s[k] ELSE s[k + 1]
        <2>1. CASE k < i
            BY <1>1, <1>3, <1>6, <2>1
        <2>2. CASE ~(k < i)
            <3>1. k - (i - 1) \in 1..(Len(s) - i) /\ i + (k - (i - 1)) = k + 1
                BY <1>1, <2>2
            <3>2. r[k] = b[k - (i - 1)]
                BY <1>1, <1>6, <2>2
            <3>3. b[k - (i - 1)] = s[i + (k - (i - 1))]
                BY <1>4, <3>1
            <3> QED
                BY <2>2, <3>1, <3>2, <3>3
        <2> QED
            BY <2>1, <2>2
    <1>9. Without(s, i) = r
        BY <1>2, <1>5 DEF Without
    <1> QED
        BY <1>6, <1>7, <1>8, <1>9

(* Lists grow by one id and lose one; what is listed is of the list before. *)
LEMMA AppendIs ==
    ASSUME NEW S, NEW s \in Seq(S), NEW e \in S
    PROVE  /\ Append(s, e) \in Seq(S) /\ Len(Append(s, e)) = Len(s) + 1
           /\ \A k \in DOMAIN Append(s, e) :
                 /\ k \in 1..(Len(s) + 1)
                 /\ Append(s, e)[k] = IF k <= Len(s) THEN s[k] ELSE e
    <1>1. PICK r : r = Append(s, e)
        OBVIOUS
    <1>2. r \in Seq(S) /\ Len(r) = Len(s) + 1 /\ Len(s) \in Nat
        BY <1>1, LenProperties
    <1>3. DOMAIN r = 1..(Len(s) + 1)
        BY <1>2, LenProperties
    <1>4. \A k \in 1..(Len(s) + 1) : r[k] = IF k <= Len(s) THEN s[k] ELSE e
        BY <1>1, <1>2
    <1> QED
        BY <1>1, <1>2, <1>3, <1>4

-----------------------------------------------------------------------------
(* Pages.                                                                  *)

LEMMA NewFormIs ==
    ASSUME NEW data \in Money
    PROVE  /\ NewForm(data) \in Form
           /\ NewForm(data).stage = "idle" /\ NewForm(data).receipt = None
    BY DEF NewForm, Form

LEMMA NewModalIs ==
    NewModal \in Modal /\ ~NewModal.open /\ NewModal.mode = "choose"
    BY DEF NewModal, Modal

LEMMA ResetIs ==
    ASSUME NEW p \in Page
    PROVE  /\ Reset(p) \in Page
           /\ Reset(p).form.stage = "idle" /\ Reset(p).form.receipt = None
           /\ Reset(p).view = p.view /\ Reset(p).modal = p.modal /\ Reset(p).data = p.data
           /\ Scanning(Reset(p)) <=> Scanning(p)
    <1>1. PICK f : f = NewForm(p.data)
        OBVIOUS
    <1>2. f \in Form /\ f.stage = "idle" /\ f.receipt = None
        BY <1>1, NewFormIs DEF Page
    <1>3. PICK q : q = [p EXCEPT !.form = f]
        OBVIOUS
    <1>4. /\ q \in Page /\ q.form = f /\ q.view = p.view /\ q.modal = p.modal
          /\ q.data = p.data
        BY <1>2, <1>3 DEF Page
    <1>5. Reset(p) = q
        BY <1>1, <1>3 DEF Reset
    <1> QED
        BY <1>2, <1>4, <1>5 DEF Scanning

(* A page with another modal.                                              *)
LEMMA RemodalIs ==
    ASSUME NEW p \in Page, NEW d \in Modal
    PROVE  /\ [p EXCEPT !.modal = d] \in Page
           /\ [p EXCEPT !.modal = d].form = p.form
           /\ [p EXCEPT !.modal = d].view = p.view
           /\ [p EXCEPT !.modal = d].modal = d
    BY DEF Page

(* One tab's page is another.                                              *)
LEMMA PageTurns ==
    ASSUME PageOK, NEW t \in Tab, NEW q \in Page, page' = [page EXCEPT ![t] = q]
    PROVE  /\ PageOK' /\ page'[t] = q
           /\ \A u \in Tab : u # t => page'[u] = page[u]
    BY DEF PageOK

-----------------------------------------------------------------------------
(* Cameras.                                                                *)

LEMMA NoScannerIs ==
    /\ NoScanner \in Scanner /\ NoScanner.status = "off"
    /\ ~NoScanner.stream /\ ~NoScanner.playing
    BY DEF NoScanner, Scanner

(* Tab t has the scanner s, the requests k and the files that are left: it *)
(* is enough that they fit its page.                                       *)
LEMMA CameraFits ==
    ASSUME PageOK, CameraOK, PageOK', NEW t \in Tab,
           \A u \in Tab : u # t => page'[u] = page[u],
           NEW s \in Scanner, NEW k \in [wanted : BOOLEAN, unwanted : Nat],
           scan' = [scan EXCEPT ![t] = s], asks' = [asks EXCEPT ![t] = k],
           (s.status # "off" \/ s.stream \/ s.playing \/ k.wanted) => Scanning(page'[t]),
           s.playing => s.stream,
           k.wanted => s.status = "requesting" /\ ~s.stream,
           reads' \subseteq File,
           \A r \in reads' : r.scanner => \/ r.tab = t /\ Scanning(page'[t])
                                          \/ r.tab # t /\ r \in reads
    PROVE  CameraOK'
    <1>1. /\ scan' \in [Tab -> Scanner] /\ scan'[t] = s
          /\ asks' \in [Tab -> [wanted : BOOLEAN, unwanted : Nat]] /\ asks'[t] = k
          /\ \A u \in Tab : u # t => scan'[u] = scan[u] /\ asks'[u] = asks[u]
        BY DEF CameraOK
    <1>2. ASSUME NEW u \in Tab PROVE CameraTidy(u)'
        <2>1. CASE u = t
            BY <1>1, <2>1 DEF CameraTidy, Scanning
        <2>2. CASE u # t
            <3>1. CameraTidy(u) /\ page'[u] = page[u]
                BY <2>2 DEF CameraOK
            <3> QED
                BY <1>1, <2>2, <3>1 DEF CameraTidy, Scanning
        <2> QED
            BY <2>1, <2>2
    <1>3. FilesTidy'
        <2>1. SUFFICES ASSUME NEW r \in reads', r.scanner PROVE Scanning(page'[r.tab])
            BY DEF FilesTidy, Scanning
        <2>2. CASE r.tab = t
            BY <2>1, <2>2
        <2>3. CASE r.tab # t
            <3>1. r \in reads /\ r.tab \in Tab
                BY <2>1, <2>3 DEF File
            <3>2. Scanning(page[r.tab])
                BY <2>1, <3>1 DEF CameraOK, FilesTidy
            <3>3. page'[r.tab] = page[r.tab]
                BY <2>3, <3>1
            <3> QED
                BY <3>2, <3>3
        <2> QED
            BY <2>2, <2>3
    <1> QED
        BY <1>1, <1>2, <1>3 DEF CameraOK

(* A page changes, and its scanner is there after as before.               *)
LEMMA CameraKept ==
    ASSUME PageOK, CameraOK, PageOK', NEW t \in Tab,
           \A u \in Tab : u # t => page'[u] = page[u],
           Scanning(page'[t]) <=> Scanning(page[t]),
           UNCHANGED <<scan, asks>>, reads' \subseteq File,
           \A r \in reads' : r.scanner => r \in reads
    PROVE  CameraOK'
    <1>1. PICK s, k : s = scan[t] /\ k = asks[t]
        OBVIOUS
    <1>2. s \in Scanner /\ k \in [wanted : BOOLEAN, unwanted : Nat] /\ CameraTidy(t)
        BY <1>1 DEF CameraOK
    <1>3. scan' = [scan EXCEPT ![t] = s] /\ asks' = [asks EXCEPT ![t] = k]
        BY <1>1 DEF CameraOK
    <1>4. /\ (s.status # "off" \/ s.stream \/ s.playing \/ k.wanted) => Scanning(page'[t])
          /\ s.playing => s.stream
          /\ k.wanted => s.status = "requesting" /\ ~s.stream
        BY <1>1, <1>2 DEF CameraTidy
    <1>5. \A r \in reads' : r.scanner => \/ r.tab = t /\ Scanning(page'[t])
                                         \/ r.tab # t /\ r \in reads
        BY DEF CameraOK, FilesTidy
    <1> QED
        BY <1>2, <1>3, <1>4, <1>5, CameraFits

(* A request is given up.                                                  *)
LEMMA UnaskedIs ==
    ASSUME CameraOK, NEW t \in Tab
    PROVE  \E k \in [wanted : BOOLEAN, unwanted : Nat] :
              ~k.wanted /\ Unasked(t) = [asks EXCEPT ![t] = k]
    <1>1. PICK n : n = IF asks[t].wanted THEN asks[t].unwanted + 1 ELSE asks[t].unwanted
        OBVIOUS
    <1>2. n \in Nat
        BY <1>1 DEF CameraOK
    <1>3. PICK k : k = [asks[t] EXCEPT !.unwanted = n, !.wanted = FALSE]
        OBVIOUS
    <1>4. asks[t] \in [wanted : BOOLEAN, unwanted : Nat]
        BY DEF CameraOK
    <1>5. k \in [wanted : BOOLEAN, unwanted : Nat] /\ ~k.wanted
        BY <1>2, <1>3, <1>4
    <1>6. Unasked(t) = [asks EXCEPT ![t] = k]
        BY <1>1, <1>3, <1>4 DEF Unasked, CameraOK
    <1> QED
        BY <1>5, <1>6

(* Whatever page a tab turns to, its scanner is there with it, and files   *)
(* are told of it no longer than it is.                                    *)
LEMMA TurnKeeps ==
    ASSUME PageOK, CameraOK, WorkOK, NEW t \in Tab, NEW q \in Page, Turn(t, q),
           reads' \subseteq File,
           \A r \in reads' : r.scanner => /\ r \in reads
                                          /\ r.tab = t => Scanning(q)
    PROVE  CameraOK' /\ PageOK' /\ Worked
    <1>1. /\ PageOK' /\ page'[t] = q
          /\ \A u \in Tab : u # t => page'[u] = page[u]
        BY PageTurns DEF Turn
    <1>2. CameraTidy(t)
        BY DEF CameraOK
    <1>3. \A r \in reads' : r.scanner => \/ r.tab = t /\ Scanning(page'[t])
                                         \/ r.tab # t /\ r \in reads
        BY <1>1
    <1>4. Worked
        BY DEF Turn, Work, Worked
    <1>5. CASE Scanning(page[t]) /\ ~Scanning(q)
        <2>1. PICK k \in [wanted : BOOLEAN, unwanted : Nat] :
                  ~k.wanted /\ Unasked(t) = [asks EXCEPT ![t] = k]
            BY UnaskedIs
        <2>2. scan' = [scan EXCEPT ![t] = NoScanner] /\ asks' = [asks EXCEPT ![t] = k]
            BY <1>5, <2>1 DEF Turn, Gone
        <2>3. CameraOK'
            BY <1>1, <1>3, <2>1, <2>2, NoScannerIs, CameraFits
        <2> QED
            BY <1>1, <1>4, <2>3
    <1>6. CASE ~Scanning(page[t]) /\ Scanning(q)
        <2>1. PICK k : k = [asks[t] EXCEPT !.wanted = TRUE]
            OBVIOUS
        <2>2. k \in [wanted : BOOLEAN, unwanted : Nat]
            BY <2>1 DEF CameraOK
        <2>3. PICK s : s = [NoScanner EXCEPT !.status = "requesting"]
            OBVIOUS
        <2>4. s \in Scanner /\ s.status = "requesting" /\ ~s.stream /\ ~s.playing
            BY <2>3, NoScannerIs DEF Scanner
        <2>5. scan' = [scan EXCEPT ![t] = s] /\ asks' = [asks EXCEPT ![t] = k]
            BY <1>6, <2>1, <2>3 DEF Turn, Asked
        <2>6. CameraOK'
            BY <1>1, <1>3, <1>6, <2>2, <2>4, <2>5, CameraFits
        <2> QED
            BY <1>1, <1>4, <2>6
    <1>7. CASE Scanning(page[t]) <=> Scanning(q)
        <2>1. UNCHANGED <<scan, asks>>
            BY <1>7 DEF Turn
        <2>2. CameraOK'
            BY <1>1, <1>7, <2>1, CameraKept
        <2> QED
            BY <1>1, <1>4, <2>2
    <1> QED
        BY <1>5, <1>6, <1>7

(* The files of a tab are of no scanner, or of none at all.                *)
LEMMA OrphansAre ==
    ASSUME CameraOK, NEW t \in Tab
    PROVE  /\ Orphans(t) \subseteq File
           /\ \A r \in Orphans(t) : r.scanner => r \in reads /\ r.tab # t
    <1>1. ASSUME NEW r \in reads, r.tab = t
          PROVE  [r EXCEPT !.scanner = FALSE] \in File /\ ~[r EXCEPT !.scanner = FALSE].scanner
        BY DEF CameraOK, File
    <1> QED
        BY <1>1 DEF Orphans, CameraOK

LEMMA AbandonedAre ==
    ASSUME CameraOK, NEW t \in Tab
    PROVE  /\ Abandoned(t) \subseteq File
           /\ \A r \in Abandoned(t) : r \in reads /\ r.tab # t
    BY DEF Abandoned, CameraOK

-----------------------------------------------------------------------------
(* Withdrawals.                                                            *)

(* A form stays as it is, or starts anew.                                  *)
LEMMA PayKept ==
    ASSUME PageOK, PayOK, NEW t \in Tab,
           \A u \in Tab : u # t => page'[u] = page[u],
           \/ page'[t].form = page[t].form
           \/ page'[t].form.stage # "pending" /\ page'[t].form.receipt = None,
           UNCHANGED payVars
    PROVE  PayOK'
    <1>1. UNCHANGED <<calls, held, moved>>
        BY DEF payVars
    <1>2. PendingHasCall'
        BY <1>1 DEF PayOK, PendingHasCall
    <1>3. SettledHasMoved'
        BY <1>1 DEF PayOK, SettledHasMoved
    <1>4. AnsweredHasMoved'
        BY <1>1 DEF PayOK, AnsweredHasMoved, Moved
    <1> QED
        BY <1>1, <1>2, <1>3, <1>4 DEF PayOK

(* A form that is gone is not told of its calls.                           *)
LEMMA PayLeft ==
    ASSUME PageOK, PayOK, NEW t \in Tab,
           \A u \in Tab : u # t => page'[u] = page[u],
           page'[t].form.stage # "pending", page'[t].form.receipt = None,
           calls' = Unheard(t), UNCHANGED <<held, moved>>
    PROVE  PayOK'
    <1>1. ASSUME NEW c \in calls, c.tab = t
          PROVE  /\ [c EXCEPT !.heard = FALSE] \in Withdrawal
                 /\ [c EXCEPT !.heard = FALSE].answer = c.answer
                 /\ [c EXCEPT !.heard = FALSE].amount = c.amount
                 /\ [c EXCEPT !.heard = FALSE].to = c.to
        BY DEF PayOK, Withdrawal
    <1>2. calls' \subseteq Withdrawal
        BY <1>1 DEF Unheard, PayOK
    <1>3. PendingHasCall'
        <2>1. SUFFICES ASSUME NEW u \in Tab, page'[u].form.stage = "pending"
                       PROVE  \E c \in calls' : c.tab = u /\ c.heard
            BY DEF PendingHasCall
        <2>2. u # t /\ page[u].form.stage = "pending"
            BY <2>1
        <2>3. PICK c \in calls : c.tab = u /\ c.heard
            BY <2>2 DEF PayOK, PendingHasCall
        <2>4. c \in calls'
            BY <2>2, <2>3 DEF Unheard
        <2> QED
            BY <2>3, <2>4
    <1>4. SettledHasMoved'
        BY DEF PayOK, SettledHasMoved
    <1>5. AnsweredHasMoved'
        <2>1. SUFFICES ASSUME NEW c \in calls', c.answer = "ok" PROVE Moved(c) \in moved
            BY DEF AnsweredHasMoved, Moved
        <2>2. PICK d \in calls : c.answer = d.answer /\ c.amount = d.amount /\ c.to = d.to
            BY <1>1 DEF Unheard
        <2>3. Moved(d) \in moved
            BY <2>1, <2>2 DEF PayOK, AnsweredHasMoved
        <2> QED
            BY <2>2, <2>3 DEF Moved
    <1> QED
        BY <1>2, <1>3, <1>4, <1>5 DEF PayOK

-----------------------------------------------------------------------------
(* Address books.                                                          *)

(* A book that may be kept: its ids are of saved addresses, all different. *)
Good(b) ==
    /\ b \in Book
    /\ Saved(b)
    /\ \A i, j \in DOMAIN b.list : i # j => address[b.list[i]] # address[b.list[j]]

LEMMA BookIs ==
    BookOK <=> /\ address \in Seq(Address) /\ book \in [Tab -> Book]
               /\ Good(stored) /\ \A t \in Tab : Good(book[t])
    BY DEF BookOK, Good, NoDuplicateAddresses

LEMMA BookIsNext ==
    BookOK' <=> (/\ address \in Seq(Address) /\ book \in [Tab -> Book]
                 /\ Good(stored) /\ \A t \in Tab : Good(book[t]))'
    BY BookIs, PTL

(* While no address is saved, and when one is, what was good is.           *)
LEMMA GoodKept ==
    ASSUME address \in Seq(Address), NEW b, Good(b),
           \/ address' = address
           \/ \E a \in Address : address' = Append(address, a)
    PROVE  Good(b)'
    <1>1. CASE address' = address
        BY <1>1 DEF Good, Saved
    <1>2. CASE \E a \in Address : address' = Append(address, a)
        <2>1. PICK a \in Address : address' = Append(address, a)
            BY <1>2
        <2>2. PICK n, l : n = Len(address) /\ l = b.list
            OBVIOUS
        <2>3. n \in Nat /\ Len(address') = n + 1
            BY <2>1, <2>2, LenProperties, AppendIs
        <2>4. DOMAIN address' = 1..(n + 1) /\ DOMAIN address = 1..n
            <3>1. address' \in Seq(Address)
                BY <2>1, AppendIs
            <3> QED
                BY <2>2, <2>3, <3>1, LenProperties
        <2>5. \A k \in 1..n : address'[k] = address[k]
            BY <2>1, <2>2, <2>4, AppendIs
        <2>6. b \in Book /\ l \in Seq(Ids) /\ \A i \in DOMAIN l : l[i] <= n
            BY <2>2 DEF Good, Saved, Book
        <2>7. ASSUME NEW i \in DOMAIN l PROVE l[i] \in 1..n
            <3>1. l[i] \in Ids /\ l[i] <= n
                BY <2>6, LenProperties, ElementOfSeq
            <3> QED
                BY <2>3, <3>1, Bounds DEF Ids
        <2>8. \A i, j \in DOMAIN l : i # j => address'[l[i]] # address'[l[j]]
            BY <2>2, <2>5, <2>7 DEF Good
        <2>9. Saved(b)'
            BY <2>2, <2>3, <2>7 DEF Saved
        <2> QED
            BY <2>2, <2>6, <2>8, <2>9 DEF Good
    <1> QED
        BY <1>1, <1>2

(* One tab's book and the stored one change.                               *)
LEMMA RebookKeeps ==
    ASSUME BookOK, WorkOK, Worked, NEW t \in Tab, NEW b, NEW c,
           \/ address' = address
           \/ (\E a \in Address : address' = Append(address, a)) /\ works < Works /\ works' = works + 1,
           stored' = b, book' = [book EXCEPT ![t] = c], Good(b)', Good(c)'
    PROVE  BookOK' /\ WorkOK'
    <1>1. /\ address \in Seq(Address) /\ book \in [Tab -> Book]
          /\ \A u \in Tab : Good(book[u])
        BY BookIs
    <1>2. address' \in Seq(Address)
        BY <1>1, AppendIs
    <1>3. c \in Book
        BY DEF Good
    <1>4. book' \in [Tab -> Book] /\ book'[t] = c /\ \A u \in Tab : u # t => book'[u] = book[u]
        BY <1>1, <1>3
    <1>5. ASSUME NEW u \in Tab PROVE Good(book[u])'
        <2>1. CASE u = t
            BY <1>4, <2>1 DEF Good, Saved
        <2>2. CASE u # t
            <3>1. PICK d : d = book[u]
                OBVIOUS
            <3>2. Good(d)
                BY <1>1, <3>1
            <3>3. Good(d)'
                BY <1>1, <3>2, GoodKept
            <3> QED
                BY <1>4, <2>2, <3>1, <3>3 DEF Good, Saved
        <2> QED
            BY <2>1, <2>2
    <1>6. Good(stored)'
        BY DEF Good, Saved
    <1>7. WorkOK'
        <2>1. Len(address) \in Nat /\ Works \in Nat /\ works \in 0..Works
            BY <1>1, LenProperties, Bounds DEF WorkOK
        <2>2. CASE address' = address
            BY <2>1, <2>2 DEF WorkOK, Worked
        <2>3. CASE /\ \E a \in Address : address' = Append(address, a)
                   /\ works < Works /\ works' = works + 1
            <3>1. Len(address') = Len(address) + 1
                BY <1>1, <2>3, AppendIs
            <3> QED
                BY <2>1, <2>3, <3>1 DEF WorkOK
        <2> QED
            BY <2>2, <2>3
    <1> QED
        BY <1>2, <1>4, <1>5, <1>6, <1>7, BookIsNext

LEMMA BookKept ==
    ASSUME BookOK, WorkOK, Worked, UNCHANGED bookVars
    PROVE  BookOK' /\ WorkOK'
    <1>1. UNCHANGED <<address, stored, book>>
        BY DEF bookVars
    <1>2. BookOK'
        BY <1>1 DEF BookOK, Saved, NoDuplicateAddresses
    <1>3. WorkOK'
        <2>1. Len(address) \in Nat /\ Works \in Nat
            BY LenProperties, Bounds DEF BookOK
        <2> QED
            BY <1>1, <2>1 DEF WorkOK, Worked
    <1> QED
        BY <1>2, <1>3

-----------------------------------------------------------------------------
(* Views.                                                                  *)

LEMMA LeaveViewIs ==
    ASSUME NEW p \in Page, NEW view \in {"funding", "settings", "other"}
    PROVE  /\ LeaveView(p, view) \in Page
           /\ LeaveView(p, view).form.stage = "idle" /\ LeaveView(p, view).form.receipt = None
           /\ ~Scanning(LeaveView(p, view))
    <1>1. PICK r : r = Reset(p)
        OBVIOUS
    <1>2. r \in Page /\ r.form.stage = "idle" /\ r.form.receipt = None
        BY <1>1, ResetIs
    <1>3. PICK q : q = [r EXCEPT !.view = view, !.modal = NewModal]
        OBVIOUS
    <1>4. q \in Page /\ q.form = r.form /\ q.modal = NewModal
        BY <1>2, <1>3, NewModalIs DEF Page
    <1>5. LeaveView(p, view) = q
        BY <1>1, <1>3 DEF LeaveView
    <1> QED
        BY <1>2, <1>4, <1>5, NewModalIs DEF Scanning

LEMMA ShowViewKeeps ==
    ASSUME FundingInv, NEW t \in Tab, NEW view \in {"funding", "settings", "other"},
           ShowView(t, view)
    PROVE  FundingInv'
    <1>1. WorkOK /\ PageOK /\ BookOK /\ CameraOK /\ PayOK
        BY InvIs
    <1>2. PICK q : q = LeaveView(page[t], view)
        OBVIOUS
    <1>3. /\ q \in Page /\ q.form.stage = "idle" /\ q.form.receipt = None /\ ~Scanning(q)
        BY <1>1, <1>2, LeaveViewIs DEF PageOK
    <1>4. /\ Turn(t, q) /\ calls' = Unheard(t) /\ reads' = Abandoned(t)
          /\ UNCHANGED bookVars /\ UNCHANGED <<held, moved>>
        BY <1>2 DEF ShowView
    <1>5. reads' \subseteq File /\ \A r \in reads' : r \in reads /\ r.tab # t
        BY <1>1, <1>4, AbandonedAre
    <1>6. CameraOK' /\ PageOK' /\ Worked
        BY <1>1, <1>3, <1>4, <1>5, TurnKeeps
    <1>7. page'[t] = q /\ \A u \in Tab : u # t => page'[u] = page[u]
        BY <1>1, <1>3, <1>4, PageTurns DEF Turn
    <1>8. PayOK'
        BY <1>1, <1>3, <1>4, <1>7, PayLeft
    <1>9. BookOK' /\ WorkOK'
        BY <1>1, <1>4, <1>6, BookKept
    <1> QED
        BY <1>6, <1>8, <1>9, InvIsNext

(* A step that changes one tab's page only, its form at most to begin anew. *)
LEMMA OnlyPage ==
    ASSUME FundingInv, NEW t \in Tab, NEW q \in Page, page' = [page EXCEPT ![t] = q],
           Scanning(q) <=> Scanning(page[t]),
           \/ q.form = page[t].form
           \/ q.form.stage # "pending" /\ q.form.receipt = None,
           UNCHANGED scanVars, UNCHANGED payVars
    PROVE  PageOK' /\ CameraOK' /\ PayOK'
    <1>1. PageOK /\ CameraOK /\ PayOK
        BY InvIs
    <1>2. PageOK' /\ page'[t] = q /\ \A u \in Tab : u # t => page'[u] = page[u]
        BY <1>1, PageTurns
    <1>3. UNCHANGED <<scan, asks>> /\ reads' = reads
        BY DEF scanVars
    <1>4. reads' \subseteq File
        BY <1>1, <1>3 DEF CameraOK
    <1>5. CameraOK'
        BY <1>1, <1>2, <1>3, <1>4, CameraKept
    <1>6. PayOK'
        BY <1>1, <1>2, PayKept
    <1> QED
        BY <1>2, <1>5, <1>6

LEMMA RefreshKeeps ==
    ASSUME FundingInv, NEW t \in Tab, Refresh(t)
    PROVE  FundingInv'
    <1>1. WorkOK /\ PageOK /\ BookOK /\ PayOK
        BY InvIs
    <1>0. PICK data \in {page[t].data, held} :
              /\ page' = [page EXCEPT ![t] = Reset([page[t] EXCEPT !.data = data])]
              /\ UNCHANGED <<bookVars, scanVars, payVars, works>>
        BY DEF Refresh
    <1>2. PICK p : p = [page[t] EXCEPT !.data = data]
        OBVIOUS
    <1>3. /\ p \in Page /\ (Scanning(p) <=> Scanning(page[t]))
        BY <1>1, <1>2 DEF PageOK, Page, PayOK, Scanning
    <1>4. PICK q : q = Reset(p)
        OBVIOUS
    <1>5. /\ q \in Page /\ (Scanning(q) <=> Scanning(page[t]))
          /\ q.form.stage = "idle" /\ q.form.receipt = None
        BY <1>3, <1>4, ResetIs
    <1>6. /\ page' = [page EXCEPT ![t] = q]
          /\ UNCHANGED bookVars /\ UNCHANGED scanVars /\ UNCHANGED payVars /\ works' = works
        BY <1>0, <1>2, <1>4
    <1>7. PageOK' /\ CameraOK' /\ PayOK'
        BY <1>5, <1>6, OnlyPage
    <1>8. BookOK' /\ WorkOK'
        BY <1>1, <1>6, BookKept DEF Worked
    <1> QED
        BY <1>7, <1>8, InvIsNext

LEMMA ReloadKeeps ==
    ASSUME FundingInv, NEW t \in Tab, Reload(t)
    PROVE  FundingInv'
    <1>1. WorkOK /\ PageOK /\ BookOK /\ CameraOK /\ PayOK
        BY InvIs
    <1>2. PICK f : f = NewForm(held)
        OBVIOUS
    <1>3. f \in Form /\ f.stage = "idle" /\ f.receipt = None
        BY <1>1, <1>2, NewFormIs DEF PayOK
    <1>4. PICK q : q = [view |-> "other", data |-> held, form |-> f, modal |-> NewModal]
        OBVIOUS
    <1>5. q \in Page /\ q.form = f /\ ~Scanning(q)
        BY <1>1, <1>3, <1>4, NewModalIs DEF Page, PayOK, Scanning
    <1>6. PICK k : k = [wanted |-> FALSE, unwanted |-> 0]
        OBVIOUS
    <1>7. k \in [wanted : BOOLEAN, unwanted : Nat] /\ ~k.wanted
        BY <1>6
    <1>8. /\ page' = [page EXCEPT ![t] = q] /\ scan' = [scan EXCEPT ![t] = NoScanner]
          /\ asks' = [asks EXCEPT ![t] = k] /\ reads' = Abandoned(t)
          /\ calls' = Unheard(t) /\ UNCHANGED <<held, moved>>
        BY <1>2, <1>4, <1>6 DEF Reload, Gone
    <1>9. PageOK' /\ page'[t] = q /\ \A u \in Tab : u # t => page'[u] = page[u]
        BY <1>1, <1>5, <1>8, PageTurns
    <1>10. CameraOK'
        <2>1. reads' \subseteq File /\ \A r \in reads' : r \in reads /\ r.tab # t
            BY <1>1, <1>8, AbandonedAre
        <2> QED
            BY <1>1, <1>5, <1>7, <1>8, <1>9, <2>1, NoScannerIs, CameraFits
    <1>11. PayOK'
        BY <1>1, <1>3, <1>5, <1>8, <1>9, PayLeft
    <1>12. BookOK' /\ WorkOK'
        <2>1. Good(stored) /\ address \in Seq(Address)
            BY <1>1, BookIs
        <2>2. PICK b : b = stored
            OBVIOUS
        <2>3. /\ address' = address /\ stored' = b /\ book' = [book EXCEPT ![t] = b] /\ Worked
            BY <2>2 DEF Reload, Work, Worked
        <2>4. Good(b)'
            BY <2>1, <2>2, <2>3, GoodKept
        <2> QED
            BY <1>1, <2>3, <2>4, RebookKeeps
    <1> QED
        BY <1>9, <1>10, <1>11, <1>12, InvIsNext

-----------------------------------------------------------------------------
(* Changes of the address book.                                            *)

LEMMA GoodLists ==
    ASSUME NEW b, Good(b), address \in Seq(Address)
    PROVE  /\ b.list \in Seq(Ids) /\ b.default \in Ids \cup {None}
           /\ DOMAIN b.list = 1..Len(b.list) /\ Len(b.list) \in Nat
           /\ \A i \in DOMAIN b.list : b.list[i] \in Ids /\ b.list[i] \in 1..Len(address)
    <1>1. b.list \in Seq(Ids) /\ b.default \in Ids \cup {None}
        BY DEF Good, Book
    <1>2. DOMAIN b.list = 1..Len(b.list) /\ Len(b.list) \in Nat
        BY <1>1, LenProperties
    <1>3. \A i \in DOMAIN b.list : b.list[i] \in Ids
        BY <1>1, <1>2, ElementOfSeq
    <1>4. Len(address) \in Nat
        BY LenProperties
    <1>5. \A i \in DOMAIN b.list : b.list[i] \in 1..Len(address)
        BY <1>3, <1>4, Bounds DEF Good, Saved, Ids
    <1> QED
        BY <1>1, <1>2, <1>3, <1>5

(* A book with another default, and one with the list of another.          *)
LEMMA GoodMixed ==
    ASSUME NEW b, Good(b), address \in Seq(Address), NEW d \in Ids \cup {None},
           NEW c, c = [list |-> b.list, default |-> d]
    PROVE  Good(c)
    <1>1. c.list = b.list /\ c.default = d
        OBVIOUS
    <1>2. c \in Book
        BY GoodLists DEF Book
    <1> QED
        BY <1>1, <1>2 DEF Good, Saved

(* Without one of its wallets, a list is still good.                       *)
LEMMA GoodWithout ==
    ASSUME NEW b, Good(b), address \in Seq(Address), NEW d \in Ids \cup {None},
           NEW k \in DOMAIN b.list,
           NEW c, c = [list |-> Without(b.list, k), default |-> d]
    PROVE  Good(c)
    <1>1. PICK l, r : l = b.list /\ r = Without(l, k)
        OBVIOUS
    <1>2. /\ l \in Seq(Ids) /\ DOMAIN l = 1..Len(l) /\ Len(l) \in Nat /\ k \in 1..Len(l)
          /\ \A i \in DOMAIN l : l[i] \in Ids /\ l[i] \in 1..Len(address)
        BY <1>1, GoodLists
    <1>3. /\ r \in Seq(Ids) /\ Len(r) = Len(l) - 1
          /\ \A i \in DOMAIN r : r[i] = IF i < k THEN l[i] ELSE l[i + 1]
        BY <1>1, <1>2, WithoutIs
    <1>4. DOMAIN r = 1..(Len(l) - 1)
        BY <1>3, LenProperties
    <1>5. c.list = r /\ c.default = d /\ c \in Book
        BY <1>1, <1>3 DEF Book
    <1>6. Len(address) \in Nat
        BY LenProperties
    <1>7. ASSUME NEW i \in DOMAIN r
          PROVE  \E h \in DOMAIN l : h = (IF i < k THEN i ELSE i + 1) /\ r[i] = l[h]
        <2>1. i \in 1..(Len(l) - 1)
            BY <1>4
        <2>2. CASE i < k
            BY <1>2, <1>3, <2>1, <2>2
        <2>3. CASE ~(i < k)
            <3>1. i + 1 \in 1..Len(l)
                BY <1>2, <2>1
            <3> QED
                BY <1>2, <1>3, <2>3, <3>1
        <2> QED
            BY <2>2, <2>3
    <1>8. Saved(c)
        <2>1. ASSUME NEW i \in DOMAIN r PROVE r[i] <= Len(address)
            <3>1. PICK h \in DOMAIN l : r[i] = l[h]
                BY <1>7
            <3> QED
                BY <1>2, <1>6, <3>1
        <2> QED
            BY <1>5, <2>1 DEF Saved
    <1>9. ASSUME NEW i \in DOMAIN r, NEW j \in DOMAIN r, i # j
          PROVE  address[r[i]] # address[r[j]]
        <2>1. PICK h \in DOMAIN l : h = (IF i < k THEN i ELSE i + 1) /\ r[i] = l[h]
            BY <1>7
        <2>2. PICK g \in DOMAIN l : g = (IF j < k THEN j ELSE j + 1) /\ r[j] = l[g]
            BY <1>7
        <2>3. h # g
            BY <1>2, <1>4, <1>9, <2>1, <2>2
        <2> QED
            BY <1>1, <2>1, <2>2, <2>3 DEF Good
    <1> QED
        BY <1>5, <1>8, <1>9 DEF Good

LEMMA FirstIs ==
    ASSUME NEW S, NEW s \in Seq(S)
    PROVE  /\ First(s) \in S \cup {None}
           /\ First(s) # None => First(s) \in S
    <1>1. CASE s = <<>>
        BY <1>1 DEF First
    <1>2. CASE s # <<>>
        <2>1. Len(s) \in Nat \ {0}
            BY <1>2, EmptySeq
        <2>2. s[1] \in S
            BY <2>1, ElementOfSeq
        <2> QED
            BY <1>2, <2>2 DEF First
    <1> QED
        BY <1>1, <1>2

(* A step that changes books only, and resets at most one form.            *)
LEMMA BookStepKeeps ==
    ASSUME FundingInv, NEW t \in Tab, Worked, NEW b, NEW c,
           address' = address, stored' = b, book' = [book EXCEPT ![t] = c],
           Good(b), Good(c), UNCHANGED scanVars, UNCHANGED payVars,
           \/ page' = [page EXCEPT ![t] = page[t]]
           \/ page' = [page EXCEPT ![t] = Reset(page[t])]
    PROVE  FundingInv'
    <1>1. WorkOK /\ PageOK /\ BookOK
        BY InvIs
    <1>2. PICK p, r : p = page[t] /\ r = Reset(page[t])
        OBVIOUS
    <1>3. p \in Page /\ r \in Page /\ (Scanning(r) <=> Scanning(p))
          /\ r.form.stage = "idle" /\ r.form.receipt = None
        BY <1>1, <1>2, ResetIs DEF PageOK
    <1>4. PageOK' /\ CameraOK' /\ PayOK'
        <2>1. CASE page' = [page EXCEPT ![t] = page[t]]
            BY <1>2, <1>3, <2>1, OnlyPage
        <2>2. CASE page' = [page EXCEPT ![t] = Reset(page[t])]
            BY <1>2, <1>3, <2>2, OnlyPage
        <2> QED
            BY <2>1, <2>2
    <1>5. Good(b)' /\ Good(c)'
        BY <1>1, GoodKept DEF BookOK
    <1>6. BookOK' /\ WorkOK'
        BY <1>1, <1>5, RebookKeeps
    <1> QED
        BY <1>4, <1>6, InvIsNext

LEMMA RemoveKeeps ==
    ASSUME FundingInv, NEW t \in Tab, removeWallet(t)
    PROVE  FundingInv'
    <1>1. address \in Seq(Address) /\ Good(stored) /\ Good(book[t]) /\ PageOK
        BY InvIs, BookIs
    <1>2. PICK k \in DOMAIN book[t].list, heard \in BOOLEAN :
              LET id == book[t].list[k]
                  list == Without(book[t].list, k)
                  moves == stored.default = id
                  default == IF moves /\ heard THEN First(list) ELSE book[t].default
              IN  /\ Rebook(t, list, IF moves THEN First(list) ELSE stored.default, default)
                  /\ page' = [page EXCEPT ![t] = Rebooked(t, page[t], default)]
        BY DEF removeWallet
    <1>3. PICK list : list = Without(book[t].list, k)
        OBVIOUS
    <1>4. PICK moves \in BOOLEAN : moves = (stored.default = book[t].list[k])
        OBVIOUS
    <1>5. PICK d, e : /\ d = (IF moves THEN First(list) ELSE stored.default)
                      /\ e = (IF moves /\ heard THEN First(list) ELSE book[t].default)
        OBVIOUS
    <1>6. /\ Rebook(t, list, d, e)
          /\ page' = [page EXCEPT ![t] = Rebooked(t, page[t], e)]
        BY <1>2, <1>3, <1>4, <1>5
    <1>7. d \in Ids \cup {None} /\ e \in Ids \cup {None}
        <2>1. list \in Seq(Ids)
            BY <1>1, <1>3, GoodLists, WithoutIs
        <2>2. First(list) \in Ids \cup {None}
            BY <2>1, FirstIs
        <2> QED
            BY <1>1, <1>5, <2>2, GoodLists
    <1>8. PICK b, c : /\ b = [list |-> list, default |-> d]
                      /\ c = [list |-> list, default |-> e]
        OBVIOUS
    <1>9. Good(b) /\ Good(c)
        <2>1. PICK o : o = book[t]
            OBVIOUS
        <2>2. Good(o) /\ k \in DOMAIN o.list /\ list = Without(o.list, k)
            BY <1>1, <1>3, <2>1
        <2> QED
            BY <1>1, <1>7, <1>8, <2>2, GoodWithout
    <1>10. /\ address' = address /\ stored' = b /\ book' = [book EXCEPT ![t] = c]
           /\ UNCHANGED scanVars /\ UNCHANGED payVars /\ Worked
        BY <1>6, <1>8 DEF removeWallet, Rebook, Work, Worked
    <1>11. \/ page' = [page EXCEPT ![t] = page[t]]
           \/ page' = [page EXCEPT ![t] = Reset(page[t])]
        BY <1>6 DEF Rebooked
    <1> QED
        BY <1>9, <1>10, <1>11, BookStepKeeps

LEMMA SetDefaultKeeps ==
    ASSUME FundingInv, NEW t \in Tab, setDefaultWallet(t)
    PROVE  FundingInv'
    <1>1. /\ address \in Seq(Address) /\ Good(stored) /\ Good(book[t])
          /\ stored \in Book /\ book \in [Tab -> Book] /\ book[t] \in Book
        BY InvIs, BookIs DEF Good
    <1>2. PICK id \in Listed(t) :
              /\ stored' = [stored EXCEPT !.default = id]
              /\ book' = [book EXCEPT ![t].default = id]
              /\ page' = [page EXCEPT ![t] = Reset(page[t])]
        BY DEF setDefaultWallet
    <1>3. id \in Ids \cup {None}
        BY <1>1, GoodLists DEF Listed
    <1>4. PICK o, p : o = stored /\ p = book[t]
        OBVIOUS
    <1>5. PICK b, c : /\ b = [list |-> o.list, default |-> id]
                      /\ c = [list |-> p.list, default |-> id]
        OBVIOUS
    <1>6. Good(b) /\ Good(c)
        BY <1>1, <1>3, <1>4, <1>5, GoodMixed
    <1>7. stored' = b /\ book' = [book EXCEPT ![t] = c]
        <2>1. b = [o EXCEPT !.default = id]
            BY <1>1, <1>4, <1>5 DEF Book
        <2>2. c = [p EXCEPT !.default = id]
            BY <1>1, <1>4, <1>5 DEF Book
        <2>3. stored' = b
            BY <1>2, <1>4, <2>1
        <2>4. book' = [book EXCEPT ![t] = [book[t] EXCEPT !.default = id]]
            BY <1>2
        <2> QED
            BY <1>4, <2>2, <2>3, <2>4
    <1>8. address' = address /\ UNCHANGED scanVars /\ UNCHANGED payVars /\ Worked
        BY DEF setDefaultWallet, Work, Worked
    <1> QED
        BY <1>2, <1>6, <1>7, <1>8, BookStepKeeps

LEMMA UpdateLabelKeeps ==
    ASSUME FundingInv, NEW t \in Tab, updateWalletLabel(t)
    PROVE  FundingInv'
    <1>1. /\ address \in Seq(Address) /\ Good(stored) /\ Good(book[t])
          /\ stored \in Book /\ book \in [Tab -> Book] /\ page \in [Tab -> Page]
        BY InvIs, BookIs DEF Good, PageOK
    <1>2. PICK o, p, d : o = stored /\ p = book[t] /\ d = stored.default
        OBVIOUS
    <1>3. PICK b : b = [list |-> p.list, default |-> d]
        OBVIOUS
    <1>4. Good(b) /\ Good(p)
        BY <1>1, <1>2, <1>3, GoodMixed, GoodLists
    <1>5. /\ stored' = b /\ book' = [book EXCEPT ![t] = p]
          /\ page' = [page EXCEPT ![t] = page[t]]
        <2>1. stored' = b
            <3>1. b = [stored EXCEPT !.list = book[t].list]
                BY <1>1, <1>2, <1>3 DEF Book
            <3> QED
                BY <3>1 DEF updateWalletLabel
        <2>2. book' = book /\ page' = page
            BY DEF updateWalletLabel
        <2> QED
            BY <1>1, <1>2, <2>1, <2>2
    <1>6. address' = address /\ UNCHANGED scanVars /\ UNCHANGED payVars /\ Worked
        BY DEF updateWalletLabel, Work, Worked
    <1> QED
        BY <1>4, <1>5, <1>6, BookStepKeeps

LEMMA NoBookIsGood == Good(NoBook)
    <1>1. NoBook.list = <<>> /\ NoBook \in Book
        BY DEF NoBook, Book
    <1>2. DOMAIN NoBook.list = {}
        BY <1>1
    <1> QED
        BY <1>1, <1>2 DEF Good, Saved

LEMMA ResetAllKeeps ==
    ASSUME FundingInv, NEW t \in Tab, resetAll(t)
    PROVE  FundingInv'
    <1>1. PICK b : b = NoBook
        OBVIOUS
    <1>2. Good(b)
        BY <1>1, NoBookIsGood
    <1>3. /\ address' = address /\ stored' = b /\ book' = [book EXCEPT ![t] = b]
          /\ page' = [page EXCEPT ![t] = Reset(page[t])]
          /\ UNCHANGED scanVars /\ UNCHANGED payVars /\ Worked
        BY <1>1 DEF resetAll, Work, Worked
    <1> QED
        BY <1>2, <1>3, BookStepKeeps

-----------------------------------------------------------------------------
(* The modal.                                                              *)

(* A saved address is new to the list it goes to.                          *)
LEMMA GoodAppended ==
    ASSUME NEW b, Good(b), address \in Seq(Address), NEW a \in Address,
           \A i \in DOMAIN b.list : address[b.list[i]] # a,
           address' = Append(address, a), Len(address) + 1 \in Ids,
           NEW d \in Ids \cup {None},
           NEW c, c = [list |-> Append(b.list, Len(address) + 1), default |-> d]
    PROVE  Good(c)'
    <1>1. PICK n, m, l, r : /\ n = Len(address) /\ l = b.list /\ m = Len(b.list)
                            /\ r = Append(b.list, Len(address) + 1)
        OBVIOUS
    <1>2. /\ l \in Seq(Ids) /\ DOMAIN l = 1..m /\ m \in Nat /\ n \in Nat /\ n + 1 \in Ids
          /\ \A i \in DOMAIN l : l[i] \in 1..n
        BY <1>1, GoodLists, LenProperties
    <1>3. /\ r \in Seq(Ids) /\ Len(r) = m + 1
          /\ \A i \in DOMAIN r : i \in 1..(m + 1) /\ r[i] = IF i <= m THEN l[i] ELSE n + 1
        BY <1>1, <1>2, AppendIs
    <1>4. /\ Len(address') = n + 1 /\ address'[n + 1] = a
          /\ \A i \in 1..n : address'[i] = address[i]
        <2>1. address' \in Seq(Address) /\ Len(address') = n + 1
            BY <1>1, AppendIs
        <2>2. DOMAIN address' = 1..(n + 1)
            BY <2>1, LenProperties
        <2> QED
            BY <1>1, <1>2, <2>1, <2>2, AppendIs
    <1>5. c.list = r /\ c \in Book
        BY <1>1, <1>3 DEF Book
    <1>6. \A i \in DOMAIN r : r[i] <= n + 1
        BY <1>2, <1>3
    <1>7. ASSUME NEW i \in DOMAIN r, NEW j \in DOMAIN r, i < j
          PROVE  address'[r[i]] # address'[r[j]]
        <2>1. i \in 1..m /\ r[i] = l[i] /\ l[i] \in 1..n
            BY <1>2, <1>3, <1>7
        <2>2. CASE j <= m
            <3>1. j \in 1..m /\ r[j] = l[j] /\ l[j] \in 1..n
                BY <1>2, <1>3, <2>2
            <3>2. \A f, g \in DOMAIN l : f # g => address[l[f]] # address[l[g]]
                BY <1>1 DEF Good
            <3>3. i \in DOMAIN l /\ j \in DOMAIN l /\ i # j
                BY <1>2, <1>7, <2>1, <3>1
            <3>4. address[l[i]] # address[l[j]]
                BY <3>2, <3>3
            <3> QED
                BY <1>4, <2>1, <3>1, <3>4
        <2>3. CASE ~(j <= m)
            <3>1. r[j] = n + 1
                BY <1>3, <2>3
            <3>2. address[l[i]] # a
                BY <1>1, <1>2, <2>1
            <3> QED
                BY <1>4, <2>1, <3>1, <3>2
        <2> QED
            BY <2>2, <2>3
    <1>8. \A i, j \in DOMAIN r : i # j => address'[r[i]] # address'[r[j]]
        <2>1. ASSUME NEW i \in DOMAIN r, NEW j \in DOMAIN r, i # j
              PROVE  address'[r[i]] # address'[r[j]]
            <3>1. i \in Int /\ j \in Int
                BY <1>3
            <3>2. i < j \/ j < i
                BY <2>1, <3>1
            <3> QED
                BY <1>7, <3>2
        <2> QED
            BY <2>1
    <1>9. \A i \in DOMAIN c.list : c.list[i] <= Len(address')
        BY <1>4, <1>5, <1>6
    <1>10. \A i, j \in DOMAIN c.list : i # j => address'[c.list[i]] # address'[c.list[j]]
        <2>1. ASSUME NEW i \in DOMAIN c.list, NEW j \in DOMAIN c.list, i # j
              PROVE  address'[c.list[i]] # address'[c.list[j]]
            <3>1. i \in DOMAIN r /\ j \in DOMAIN r
                BY <1>5
            <3>2. address'[r[i]] # address'[r[j]]
                BY <1>8, <2>1, <3>1, Zenon
            <3> QED
                BY <1>5, <3>2, Zenon
        <2> QED
            BY <2>1
    <1> QED
        BY <1>5, <1>9, <1>10 DEF Good, Saved

LEMMA SaveKeeps ==
    ASSUME FundingInv, NEW t \in Tab, handleSave(t)
    PROVE  FundingInv'
    <1>1. WorkOK /\ PageOK /\ BookOK
        BY InvIs
    <1>2. /\ address \in Seq(Address) /\ Good(stored) /\ Good(book[t])
          /\ stored.default \in Ids \cup {None} /\ book[t].default \in Ids \cup {None}
        BY <1>1, BookIs, GoodLists
    <1>3. PICK p, a, q : p = page[t] /\ a = p.modal.address /\ q = [p EXCEPT !.modal = NewModal]
        OBVIOUS
    <1>4. /\ p \in Page /\ p.modal \in Modal
          /\ p.modal.open /\ p.modal.mode = "confirm" /\ a \in Address
        BY <1>1, <1>3 DEF PageOK, Page, Modal, handleSave, canSave
    <1>5. \A i \in DOMAIN book[t].list : address[book[t].list[i]] # a
        BY <1>3 DEF handleSave, canSave, duplicate, Listed
    <1>6. works < Works /\ works' = works + 1 /\ UNCHANGED scanVars /\ UNCHANGED payVars
        BY DEF handleSave, Work
    <1>7. PICK asDefault \in BOOLEAN : addWallet(t, a, asDefault, q)
        BY <1>3 DEF handleSave
    <1>8. PICK id : id = Len(address) + 1
        OBVIOUS
    <1>9. id \in Ids
        <2>1. Len(address) \in Nat
            BY <1>2, LenProperties
        <2> QED
            BY <1>1, <1>6, <1>8, <2>1, Bounds DEF WorkOK, Ids
    <1>10. PICK becomes \in BOOLEAN : becomes = (book[t].list = <<>> \/ asDefault)
        OBVIOUS
    <1>11. PICK heard \in BOOLEAN :
              LET default == IF becomes /\ heard THEN id ELSE book[t].default
              IN  /\ Rebook(t, Append(book[t].list, id),
                            IF becomes THEN id ELSE stored.default, default)
                  /\ page' = [page EXCEPT ![t] = Rebooked(t, q, default)]
        BY <1>7, <1>8, <1>10 DEF addWallet
    <1>12. PICK d, e : /\ d = (IF becomes THEN id ELSE stored.default)
                       /\ e = (IF becomes /\ heard THEN id ELSE book[t].default)
        OBVIOUS
    <1>13. /\ Rebook(t, Append(book[t].list, id), d, e)
           /\ page' = [page EXCEPT ![t] = Rebooked(t, q, e)]
           /\ address' = Append(address, a)
        BY <1>7, <1>11, <1>12 DEF addWallet
    <1>14. d \in Ids \cup {None} /\ e \in Ids \cup {None}
        BY <1>2, <1>9, <1>12
    <1>15. PICK b, c, o : /\ o = book[t]
                          /\ b = [list |-> Append(o.list, id), default |-> d]
                          /\ c = [list |-> Append(o.list, id), default |-> e]
        OBVIOUS
    <1>16. Good(b)' /\ Good(c)'
        <2>1. Good(o) /\ \A i \in DOMAIN o.list : address[o.list[i]] # a
            BY <1>2, <1>5, <1>15
        <2>2. Len(address) + 1 \in Ids
            BY <1>8, <1>9
        <2>3. /\ b = [list |-> Append(o.list, Len(address) + 1), default |-> d]
              /\ c = [list |-> Append(o.list, Len(address) + 1), default |-> e]
            BY <1>8, <1>15
        <2> QED
            BY <1>2, <1>4, <1>13, <1>14, <2>1, <2>2, <2>3, GoodAppended
    <1>17. stored' = b /\ book' = [book EXCEPT ![t] = c]
        BY <1>13, <1>15 DEF Rebook
    <1>18. BookOK' /\ WorkOK'
        BY <1>1, <1>4, <1>6, <1>13, <1>16, <1>17, RebookKeeps DEF Worked
    <1>19. q \in Page /\ q.form = p.form /\ ~Scanning(q) /\ ~Scanning(p)
        BY <1>3, <1>4, RemodalIs, NewModalIs DEF Scanning
    <1>20. PICK z : z = Rebooked(t, q, e)
        OBVIOUS
    <1>21. /\ z \in Page /\ (Scanning(z) <=> Scanning(page[t]))
           /\ \/ z.form = page[t].form
              \/ z.form.stage # "pending" /\ z.form.receipt = None
        <2>1. CASE z = q
            BY <1>3, <1>19, <2>1
        <2>2. CASE z = Reset(q)
            BY <1>3, <1>19, <2>2, ResetIs
        <2> QED
            BY <1>20, <2>1, <2>2 DEF Rebooked
    <1>22. PageOK' /\ CameraOK' /\ PayOK'
        BY <1>6, <1>13, <1>20, <1>21, OnlyPage
    <1> QED
        BY <1>18, <1>22, InvIsNext

LEMMA OpenKeeps ==
    ASSUME FundingInv, NEW t \in Tab, OpenModal(t)
    PROVE  FundingInv'
    <1>1. WorkOK /\ PageOK /\ BookOK /\ CameraOK /\ PayOK
        BY InvIs
    <1>2. PICK d : d = [NewModal EXCEPT !.open = TRUE]
        OBVIOUS
    <1>3. d \in Modal /\ d.mode = "choose"
        BY <1>2, NewModalIs DEF Modal
    <1>4. PICK p, q : p = page[t] /\ q = [p EXCEPT !.modal = d]
        OBVIOUS
    <1>5. p \in Page /\ q \in Page /\ q.form = p.form /\ ~Scanning(q) /\ ~Scanning(p)
        BY <1>1, <1>3, <1>4, RemodalIs DEF PageOK, Scanning, OpenModal
    <1>6. /\ page' = [page EXCEPT ![t] = q]
          /\ UNCHANGED bookVars /\ UNCHANGED payVars /\ scan' = scan /\ reads' = reads
        BY <1>2, <1>4 DEF OpenModal
    <1>7. PageOK' /\ page'[t] = q /\ \A u \in Tab : u # t => page'[u] = page[u]
        BY <1>1, <1>5, <1>6, PageTurns
    <1>8. PICK n : n = IF page[t].modal.mode = "scan" THEN asks[t].unwanted + 1 ELSE asks[t].unwanted
        OBVIOUS
    <1>9. PICK k : k = [asks[t] EXCEPT !.unwanted = n]
        OBVIOUS
    <1>10. /\ asks[t] \in [wanted : BOOLEAN, unwanted : Nat] /\ CameraTidy(t)
           /\ scan[t] \in Scanner /\ n \in Nat
        BY <1>1, <1>8 DEF CameraOK
    <1>11. k \in [wanted : BOOLEAN, unwanted : Nat] /\ k.wanted = asks[t].wanted
        BY <1>9, <1>10
    <1>12. asks' = [asks EXCEPT ![t] = k]
        <2>1. CASE page[t].modal.mode = "scan"
            BY <1>8, <1>9, <2>1 DEF OpenModal
        <2>2. CASE page[t].modal.mode # "scan"
            <3>1. asks' = asks /\ n = asks[t].unwanted
                BY <1>8, <2>2 DEF OpenModal
            <3>2. k = asks[t]
                BY <1>9, <1>10, <3>1
            <3> QED
                BY <1>1, <3>1, <3>2 DEF CameraOK
        <2> QED
            BY <2>1, <2>2
    <1>13. CameraOK'
        <2>1. PICK s : s = scan[t]
            OBVIOUS
        <2>2. scan' = [scan EXCEPT ![t] = s] /\ s \in Scanner
            BY <1>1, <1>6, <2>1 DEF CameraOK
        <2>3. s.status = "off" /\ ~s.stream /\ ~s.playing /\ ~k.wanted
            BY <1>4, <1>5, <1>10, <1>11, <2>1 DEF CameraTidy, Scanner
        <2>4. reads' \subseteq File /\ \A r \in reads' : r.scanner => r.tab # t /\ r \in reads
            BY <1>1, <1>4, <1>5, <1>6 DEF CameraOK, FilesTidy
        <2> QED
            BY <1>1, <1>7, <1>11, <1>12, <2>2, <2>3, <2>4, CameraFits
    <1>14. PayOK'
        BY <1>1, <1>4, <1>5, <1>6, <1>7, PayKept
    <1>15. Worked
        BY DEF OpenModal, Work, Worked
    <1>16. BookOK' /\ WorkOK'
        BY <1>1, <1>6, <1>15, BookKept
    <1> QED
        BY <1>7, <1>13, <1>14, <1>16, InvIsNext

(* A tab turns to a page with the same form.                               *)
LEMMA TurnStep ==
    ASSUME FundingInv, NEW t \in Tab, NEW q \in Page, q.form = page[t].form, Turn(t, q),
           reads' \subseteq File,
           \A r \in reads' : r.scanner => /\ r \in reads
                                          /\ r.tab = t => Scanning(q),
           UNCHANGED bookVars, UNCHANGED payVars
    PROVE  FundingInv'
    <1>1. WorkOK /\ PageOK /\ BookOK /\ CameraOK /\ PayOK
        BY InvIs
    <1>2. CameraOK' /\ PageOK' /\ Worked
        BY <1>1, TurnKeeps
    <1>3. page'[t] = q /\ \A u \in Tab : u # t => page'[u] = page[u]
        BY <1>1, PageTurns DEF Turn
    <1>4. PayOK'
        BY <1>1, <1>3, PayKept
    <1>5. BookOK' /\ WorkOK'
        BY <1>1, <1>2, BookKept
    <1> QED
        BY <1>2, <1>4, <1>5, InvIsNext

(* So does a tab whose modal changes.                                      *)
LEMMA ModalKeeps ==
    ASSUME FundingInv, NEW t \in Tab, NEW d \in Modal,
           ModalStep(t, [page[t] EXCEPT !.modal = d])
    PROVE  FundingInv'
    <1>1. PageOK /\ CameraOK
        BY InvIs
    <1>2. PICK p, q : p = page[t] /\ q = [p EXCEPT !.modal = d]
        OBVIOUS
    <1>3. p \in Page /\ q \in Page /\ q.form = p.form
        BY <1>1, <1>2, RemodalIs DEF PageOK
    <1>4. /\ Turn(t, q) /\ UNCHANGED bookVars /\ UNCHANGED payVars
          /\ reads' = IF Scanning(page[t]) /\ ~Scanning(q) THEN Orphans(t) ELSE reads
        BY <1>2 DEF ModalStep
    <1>5. /\ reads' \subseteq File
          /\ \A r \in reads' : r.scanner => /\ r \in reads
                                            /\ r.tab = t => Scanning(q)
        <2>1. CASE Scanning(page[t]) /\ ~Scanning(q)
            BY <1>1, <1>4, <2>1, OrphansAre
        <2>2. CASE ~(Scanning(page[t]) /\ ~Scanning(q))
            BY <1>1, <1>4, <2>2 DEF CameraOK, FilesTidy
        <2> QED
            BY <2>1, <2>2
    <1> QED
        BY <1>2, <1>3, <1>4, <1>5, TurnStep

LEMMA CaptureKeeps ==
    ASSUME FundingInv, NEW t \in Tab, CaptureStep(t)
    PROVE  FundingInv'
    <1>1. PICK p, o : p = page[t] /\ o = p.modal
        OBVIOUS
    <1>2. p \in Page /\ o \in Modal
        BY <1>1, InvIs DEF PageOK, Page
    <1>3. CASE CloseModal(t)
        <2>1. PICK d : d = Closed(o)
            OBVIOUS
        <2>2. d \in Modal
            BY <2>1, NewModalIs DEF Closed, Modal
        <2>3. ModalStep(t, [page[t] EXCEPT !.modal = d])
            BY <1>1, <1>3, <2>1 DEF CloseModal
        <2> QED
            BY <2>2, <2>3, ModalKeeps
    <1>4. CASE handleBack(t)
        <2>1. PICK d : d = [o EXCEPT !.mode = "choose", !.address = None]
            OBVIOUS
        <2>2. d \in Modal
            BY <1>2, <2>1 DEF Modal
        <2>3. [page[t] EXCEPT !.modal.mode = "choose", !.modal.address = None]
                 = [page[t] EXCEPT !.modal = d]
            BY <1>1, <1>2, <2>1 DEF Page, Modal
        <2>4. ModalStep(t, [page[t] EXCEPT !.modal = d])
            BY <1>4, <2>3 DEF handleBack
        <2> QED
            BY <2>2, <2>4, ModalKeeps
    <1>5. CASE handlePasteContinue(t)
        <2>1. PICK a \in Pasted(t) :
                  ModalStep(t, [page[t] EXCEPT !.modal.mode = "confirm", !.modal.address = a])
            BY <1>5 DEF handlePasteContinue
        <2>2. a \in Address
            BY <2>1 DEF Pasted
        <2>3. PICK d : d = [o EXCEPT !.mode = "confirm", !.address = a]
            OBVIOUS
        <2>4. d \in Modal
            BY <1>2, <2>2, <2>3 DEF Modal
        <2>5. [page[t] EXCEPT !.modal.mode = "confirm", !.modal.address = a]
                 = [page[t] EXCEPT !.modal = d]
            BY <1>1, <1>2, <2>3 DEF Page, Modal
        <2>6. ModalStep(t, [page[t] EXCEPT !.modal = d])
            BY <2>1, <2>5
        <2> QED
            BY <2>4, <2>6, ModalKeeps
    <1>6. ASSUME NEW mode \in {"scan", "paste"}, Choose(t, mode) PROVE FundingInv'
        <2>1. PICK d : d = [o EXCEPT !.mode = mode]
            OBVIOUS
        <2>2. d \in Modal
            BY <1>2, <2>1 DEF Modal
        <2>3. [page[t] EXCEPT !.modal.mode = mode] = [page[t] EXCEPT !.modal = d]
            BY <1>1, <1>2, <2>1 DEF Page, Modal
        <2>4. ModalStep(t, [page[t] EXCEPT !.modal = d])
            BY <1>6, <2>3 DEF Choose
        <2> QED
            BY <2>2, <2>4, ModalKeeps
    <1> QED
        BY <1>3, <1>4, <1>5, <1>6, OpenKeeps, SaveKeeps DEF CaptureStep

-----------------------------------------------------------------------------
(* The scanner.                                                            *)

(* A step of one tab's scanner, with its request and its files.            *)
LEMMA ScannerKeeps ==
    ASSUME FundingInv, NEW t \in Tab, Worked,
           NEW s \in Scanner, NEW k \in [wanted : BOOLEAN, unwanted : Nat],
           scan' = [scan EXCEPT ![t] = s], asks' = [asks EXCEPT ![t] = k],
           (s.status # "off" \/ s.stream \/ s.playing \/ k.wanted) => Scanning(page[t]),
           s.playing => s.stream,
           k.wanted => s.status = "requesting" /\ ~s.stream,
           reads' \subseteq File,
           \A r \in reads' : r.scanner => r \in reads \/ (r.tab = t /\ Scanning(page[t])),
           page' = page, UNCHANGED bookVars, UNCHANGED payVars
    PROVE  FundingInv'
    <1>1. WorkOK /\ PageOK /\ BookOK /\ CameraOK /\ PayOK
        BY InvIs
    <1>2. PageOK'
        BY <1>1 DEF PageOK
    <1>3. CameraOK'
        <2>1. \A r \in reads' : r.scanner => \/ r.tab = t /\ Scanning(page'[t])
                                             \/ r.tab # t /\ r \in reads
            BY <1>1 DEF CameraOK, FilesTidy
        <2> QED
            BY <1>1, <1>2, <2>1, CameraFits
    <1>4. PayOK'
        BY <1>1, PayKept
    <1>5. BookOK' /\ WorkOK'
        BY <1>1, BookKept
    <1> QED
        BY <1>2, <1>3, <1>4, <1>5, InvIsNext

(* What a tab's scanner is.                                                *)
LEMMA ScannerNow ==
    ASSUME FundingInv, NEW t \in Tab
    PROVE  /\ scan \in [Tab -> Scanner] /\ scan[t] \in Scanner
           /\ asks \in [Tab -> [wanted : BOOLEAN, unwanted : Nat]]
           /\ asks[t] \in [wanted : BOOLEAN, unwanted : Nat]
           /\ CameraTidy(t)
           /\ reads \subseteq File
           /\ scan = [scan EXCEPT ![t] = scan[t]] /\ asks = [asks EXCEPT ![t] = asks[t]]
    BY InvIs DEF CameraOK

LEMMA CameraStepKeeps ==
    ASSUME FundingInv, NEW t \in Tab,
           \/ CameraGranted(t) \/ CameraRefused(t) \/ CameraUnwanted(t) \/ Plays(t)
    PROVE  FundingInv'
    <1>1. PICK s0, k0 : s0 = scan[t] /\ k0 = asks[t]
        OBVIOUS
    <1>2. /\ s0 \in Scanner /\ k0 \in [wanted : BOOLEAN, unwanted : Nat]
          /\ (s0.status # "off" \/ s0.stream \/ s0.playing \/ k0.wanted) => Scanning(page[t])
          /\ s0.playing => s0.stream
          /\ k0.wanted => s0.status = "requesting" /\ ~s0.stream
          /\ scan = [scan EXCEPT ![t] = s0] /\ asks = [asks EXCEPT ![t] = k0]
          /\ reads \subseteq File
        BY <1>1, ScannerNow DEF CameraTidy
    <1>3. /\ page' = page /\ reads' = reads /\ Worked
          /\ UNCHANGED bookVars /\ UNCHANGED payVars
        BY DEF CameraGranted, CameraRefused, CameraUnwanted, Plays, Worked
    <1>4. CASE CameraGranted(t)
        <2>1. PICK s, k : /\ s = [s0 EXCEPT !.stream = TRUE, !.playing = TRUE]
                          /\ k = [k0 EXCEPT !.wanted = FALSE]
            OBVIOUS
        <2>2. s \in Scanner /\ s.stream /\ k \in [wanted : BOOLEAN, unwanted : Nat] /\ ~k.wanted
            BY <1>2, <2>1 DEF Scanner
        <2>3. k0.wanted /\ Scanning(page[t])
            BY <1>1, <1>2, <1>4 DEF CameraGranted
        <2>4. scan' = [scan EXCEPT ![t] = s] /\ asks' = [asks EXCEPT ![t] = k]
            BY <1>1, <1>4, <2>1 DEF CameraGranted
        <2> QED
            BY <1>2, <1>3, <2>2, <2>3, <2>4, ScannerKeeps
    <1>5. CASE CameraRefused(t)
        <2>1. PICK s, k : /\ s = [s0 EXCEPT !.status = "refused"]
                          /\ k = [k0 EXCEPT !.wanted = FALSE]
            OBVIOUS
        <2>2. /\ s \in Scanner /\ s.playing = s0.playing /\ s.stream = s0.stream
              /\ k \in [wanted : BOOLEAN, unwanted : Nat] /\ ~k.wanted
            BY <1>2, <2>1 DEF Scanner
        <2>3. k0.wanted /\ Scanning(page[t])
            BY <1>1, <1>2, <1>5 DEF CameraRefused
        <2>4. scan' = [scan EXCEPT ![t] = s] /\ asks' = [asks EXCEPT ![t] = k]
            BY <1>1, <1>5, <2>1 DEF CameraRefused
        <2> QED
            BY <1>2, <1>3, <2>2, <2>3, <2>4, ScannerKeeps
    <1>6. CASE CameraUnwanted(t)
        <2>1. PICK k : k = [k0 EXCEPT !.unwanted = @ - 1]
            OBVIOUS
        <2>2. k0.unwanted > 0
            BY <1>1, <1>6 DEF CameraUnwanted
        <2>3. k \in [wanted : BOOLEAN, unwanted : Nat] /\ k.wanted = k0.wanted
            BY <1>2, <2>1, <2>2
        <2>4. scan' = [scan EXCEPT ![t] = s0] /\ asks' = [asks EXCEPT ![t] = k]
            BY <1>1, <1>2, <1>6, <2>1 DEF CameraUnwanted
        <2> QED
            BY <1>2, <1>3, <2>3, <2>4, ScannerKeeps
    <1>7. CASE Plays(t)
        <2>1. PICK s : s = [s0 EXCEPT !.status = "scanning", !.playing = FALSE]
            OBVIOUS
        <2>2. s \in Scanner /\ ~s.playing
            BY <1>2, <2>1 DEF Scanner
        <2>3. s0.playing /\ Scanning(page[t]) /\ ~k0.wanted
            BY <1>1, <1>2, <1>7 DEF Plays
        <2>4. scan' = [scan EXCEPT ![t] = s] /\ asks' = [asks EXCEPT ![t] = k0]
            BY <1>1, <1>2, <1>7, <2>1 DEF Plays
        <2> QED
            BY <1>2, <1>3, <2>2, <2>3, <2>4, ScannerKeeps
    <1> QED
        BY <1>4, <1>5, <1>6, <1>7

(* A scanner shows an error: it waits for no stream then.                  *)
LEMMA FailsKeeps ==
    ASSUME FundingInv, NEW t \in Tab, Fails(t), Scanning(page[t]),
           reads' \subseteq reads, page' = page, works' = works,
           UNCHANGED bookVars, UNCHANGED payVars
    PROVE  FundingInv'
    <1>1. PICK s0, k0 : s0 = scan[t] /\ k0 = asks[t]
        OBVIOUS
    <1>2. /\ s0 \in Scanner /\ k0 \in [wanted : BOOLEAN, unwanted : Nat]
          /\ s0.playing => s0.stream
          /\ k0.wanted => s0.status = "requesting" /\ ~s0.stream
          /\ asks = [asks EXCEPT ![t] = k0] /\ reads' \subseteq File
        BY <1>1, ScannerNow DEF CameraTidy
    <1>3. PICK s : s = [s0 EXCEPT !.status = "error"]
        OBVIOUS
    <1>4. s \in Scanner /\ (s.playing => s.stream) /\ s.status = "error"
        BY <1>2, <1>3 DEF Scanner
    <1>5. scan' = [scan EXCEPT ![t] = s]
        BY <1>1, <1>3 DEF Fails
    <1>6. PICK k \in [wanted : BOOLEAN, unwanted : Nat] :
              ~k.wanted /\ asks' = [asks EXCEPT ![t] = k]
        <2>1. CASE s0.status = "requesting"
            <3>1. asks' = Unasked(t)
                BY <1>1, <2>1 DEF Fails
            <3> QED
                BY <3>1, UnaskedIs, InvIs
        <2>2. CASE s0.status # "requesting"
            <3>1. asks' = asks /\ ~k0.wanted
                BY <1>1, <1>2, <2>2 DEF Fails
            <3> QED
                BY <1>2, <3>1
        <2> QED
            BY <2>1, <2>2
    <1> QED
        BY <1>2, <1>4, <1>5, <1>6, ScannerKeeps DEF Worked

(* The modal is told of an address.                                        *)
LEMMA ConfirmedIs ==
    ASSUME NEW p \in Page, NEW a \in Address
    PROVE  /\ Confirmed(p, a) \in Page /\ Confirmed(p, a).form = p.form
           /\ ~Scanning(Confirmed(p, a))
    <1>1. CASE p.modal.open
        <2>1. PICK o, d : o = p.modal /\ d = [o EXCEPT !.mode = "confirm", !.address = a]
            OBVIOUS
        <2>2. o \in Modal /\ d \in Modal /\ d.mode = "confirm"
            BY <2>1 DEF Page, Modal
        <2>3. PICK q : q = [p EXCEPT !.modal = d]
            OBVIOUS
        <2>4. q \in Page /\ q.form = p.form /\ q.modal = d
            BY <2>2, <2>3, RemodalIs
        <2>5. Confirmed(p, a) = q
            BY <1>1, <2>1, <2>2, <2>3 DEF Confirmed, Page, Modal
        <2> QED
            BY <2>2, <2>4, <2>5 DEF Scanning
    <1>2. CASE ~p.modal.open
        <2>1. PICK q : q = [p EXCEPT !.modal = NewModal]
            OBVIOUS
        <2>2. q \in Page /\ q.form = p.form /\ q.modal = NewModal
            BY <2>1, RemodalIs, NewModalIs
        <2>3. Confirmed(p, a) = q
            BY <1>2, <2>1 DEF Confirmed
        <2> QED
            BY <2>2, <2>3, NewModalIs DEF Scanning
    <1> QED
        BY <1>1, <1>2

(* An address found: the modal confirms it, and no file is told to a       *)
(* scanner of this tab any more.                                           *)
LEMMA FoundKeeps ==
    ASSUME FundingInv, NEW t \in Tab, NEW a \in Address, Turn(t, Confirmed(page[t], a)),
           reads' \subseteq Orphans(t) \/ (~Scanning(page[t]) /\ reads' \subseteq reads),
           UNCHANGED bookVars, UNCHANGED payVars
    PROVE  FundingInv'
    <1>1. PageOK /\ CameraOK
        BY InvIs
    <1>2. PICK q : q = Confirmed(page[t], a)
        OBVIOUS
    <1>3. q \in Page /\ q.form = page[t].form /\ ~Scanning(q)
        BY <1>1, <1>2, ConfirmedIs DEF PageOK
    <1>4. reads' \subseteq File /\ \A r \in reads' : r.scanner => r \in reads /\ r.tab # t
        <2>1. CASE reads' \subseteq Orphans(t)
            BY <1>1, <2>1, OrphansAre
        <2>2. CASE ~Scanning(page[t]) /\ reads' \subseteq reads
            BY <1>1, <2>2 DEF CameraOK, FilesTidy
        <2> QED
            BY <2>1, <2>2
    <1>5. Turn(t, q)
        BY <1>2
    <1> QED
        BY <1>3, <1>4, <1>5, TurnStep

LEMMA TextsAre == ASSUME NEW q \in Texts PROVE q \in Seq(Address)
    <1>1. CASE q = <<>>
        BY <1>1, EmptySeq
    <1>2. ASSUME NEW a \in Address, q = <<a>> PROVE q \in Seq(Address)
        <2>1. <<a>> \in Seq(Address)
            OBVIOUS
        <2> QED
            BY <1>2, <2>1
    <1> QED
        BY <1>1, <1>2 DEF Texts

LEMMA ParsedIs ==
    ASSUME NEW q \in Seq(Address)
    PROVE  parseAddress(q) # None => parseAddress(q) \in Address
    <1>1. First(q) # None => First(q) \in Address
        BY FirstIs
    <1> QED
        BY <1>1 DEF parseAddress

LEMMA DecodeKeeps ==
    ASSUME FundingInv, NEW t \in Tab, DecodeFrame(t)
    PROVE  FundingInv'
    <1>1. Scanning(page[t])
        BY ScannerNow DEF DecodeFrame, CameraTidy
    <1>2. UNCHANGED bookVars /\ UNCHANGED payVars
        BY DEF DecodeFrame
    <1>3. PICK q \in Texts :
              IF parseAddress(q) = None
              THEN Fails(t) /\ UNCHANGED <<page, reads, works>>
              ELSE /\ Turn(t, Confirmed(page[t], parseAddress(q)))
                   /\ reads' = Orphans(t)
        BY DEF DecodeFrame
    <1>4. CASE parseAddress(q) = None
        <2>1. Fails(t) /\ page' = page /\ reads' \subseteq reads /\ works' = works
            BY <1>3, <1>4
        <2> QED
            BY <1>1, <1>2, <2>1, FailsKeeps
    <1>5. CASE parseAddress(q) # None
        <2>1. parseAddress(q) \in Address
            BY <1>5, TextsAre, ParsedIs
        <2>2. Turn(t, Confirmed(page[t], parseAddress(q))) /\ reads' \subseteq Orphans(t)
            BY <1>3, <1>5
        <2> QED
            BY <1>2, <2>1, <2>2, FoundKeeps
    <1> QED
        BY <1>4, <1>5

LEMMA PickFileKeeps ==
    ASSUME FundingInv, NEW t \in Tab, PickFile(t)
    PROVE  FundingInv'
    <1>1. PICK s, k : s = scan[t] /\ k = asks[t]
        OBVIOUS
    <1>2. /\ s \in Scanner /\ k \in [wanted : BOOLEAN, unwanted : Nat]
          /\ (s.status # "off" \/ s.stream \/ s.playing \/ k.wanted) => Scanning(page[t])
          /\ s.playing => s.stream
          /\ k.wanted => s.status = "requesting" /\ ~s.stream
          /\ scan = [scan EXCEPT ![t] = s] /\ asks = [asks EXCEPT ![t] = k]
          /\ reads \subseteq File
        BY <1>1, ScannerNow DEF CameraTidy
    <1>3. Scanning(page[t])
        BY <1>1, <1>2 DEF PickFile
    <1>4. /\ page' = page /\ scan' = scan /\ asks' = asks /\ works' = works + 1 /\ Worked
          /\ UNCHANGED bookVars /\ UNCHANGED payVars
        BY DEF PickFile, Work, Worked
    <1>5. PICK q \in Texts :
              reads' = reads \cup {[tab |-> t, n |-> works', scanner |-> TRUE, text |-> q]}
        BY DEF PickFile
    <1>6. PICK n, f : n = works + 1 /\ f = [tab |-> t, n |-> n, scanner |-> TRUE, text |-> q]
        OBVIOUS
    <1>7. n \in Nat
        BY <1>6, InvIs, Bounds DEF WorkOK
    <1>8. f \in File /\ f.tab = t
        BY <1>6, <1>7, TextsAre DEF File
    <1>9. reads' = reads \cup {f}
        BY <1>4, <1>5, <1>6
    <1>10. /\ reads' \subseteq File
           /\ \A r \in reads' : r.scanner => r \in reads \/ (r.tab = t /\ Scanning(page[t]))
        BY <1>2, <1>3, <1>8, <1>9
    <1>11. scan' = [scan EXCEPT ![t] = s] /\ asks' = [asks EXCEPT ![t] = k]
        BY <1>2, <1>4
    <1> QED
        BY <1>2, <1>3, <1>4, <1>10, <1>11, ScannerKeeps

LEMMA UploadKeeps ==
    ASSUME FundingInv, NEW r \in reads, handleUpload(r)
    PROVE  FundingInv'
    <1>1. CameraOK /\ r \in File
        BY InvIs DEF CameraOK
    <1>2. PICK t, a : t = r.tab /\ a = parseAddress(r.text)
        OBVIOUS
    <1>3. t \in Tab /\ (a # None => a \in Address)
        BY <1>1, <1>2, ParsedIs DEF File
    <1>4. UNCHANGED bookVars /\ UNCHANGED payVars
        BY DEF handleUpload
    <1>5. CASE a = None /\ r.scanner
        <2>1. Fails(t) /\ page' = page /\ works' = works /\ reads' \subseteq reads
            BY <1>2, <1>5 DEF handleUpload
        <2>2. Scanning(page[t])
            BY <1>1, <1>2, <1>5 DEF CameraOK, FilesTidy
        <2> QED
            BY <1>3, <1>4, <2>1, <2>2, FailsKeeps
    <1>6. CASE a = None /\ ~r.scanner
        <2>1. /\ scan' = scan /\ asks' = asks /\ page' = page /\ works' = works
              /\ reads' \subseteq reads
            BY <1>2, <1>6 DEF handleUpload
        <2>2. PICK s, k : s = scan[t] /\ k = asks[t]
            OBVIOUS
        <2>3. /\ s \in Scanner /\ k \in [wanted : BOOLEAN, unwanted : Nat]
              /\ (s.status # "off" \/ s.stream \/ s.playing \/ k.wanted) => Scanning(page[t])
              /\ s.playing => s.stream
              /\ k.wanted => s.status = "requesting" /\ ~s.stream
              /\ scan' = [scan EXCEPT ![t] = s] /\ asks' = [asks EXCEPT ![t] = k]
              /\ reads' \subseteq File
            BY <1>3, <2>1, <2>2, ScannerNow DEF CameraTidy
        <2>4. Worked /\ \A f \in reads' : f \in reads
            BY <2>1 DEF Worked
        <2> QED
            BY <1>3, <1>4, <2>1, <2>3, <2>4, ScannerKeeps
    <1>7. CASE a # None
        <2>1. /\ Turn(t, Confirmed(page[t], a))
              /\ reads' = (IF Scanning(page[t]) THEN Orphans(t) ELSE reads)
                                \ {r, [r EXCEPT !.scanner = FALSE]}
            BY <1>2, <1>7 DEF handleUpload
        <2>2. reads' \subseteq Orphans(t) \/ (~Scanning(page[t]) /\ reads' \subseteq reads)
            <3>1. CASE Scanning(page[t])
                BY <2>1, <3>1
            <3>2. CASE ~Scanning(page[t])
                BY <2>1, <3>2
            <3> QED
                BY <3>1, <3>2
        <2> QED
            BY <1>3, <1>4, <1>7, <2>1, <2>2, FoundKeeps
    <1> QED
        BY <1>5, <1>6, <1>7

LEMMA RetryKeeps ==
    ASSUME FundingInv, NEW t \in Tab, handleRetry(t)
    PROVE  FundingInv'
    <1>1. PICK s0, k0 : s0 = scan[t] /\ k0 = asks[t]
        OBVIOUS
    <1>2. /\ s0 \in Scanner /\ k0 \in [wanted : BOOLEAN, unwanted : Nat]
          /\ (s0.status # "off" \/ s0.stream \/ s0.playing \/ k0.wanted) => Scanning(page[t])
          /\ s0.playing => s0.stream
          /\ k0.wanted => s0.status = "requesting" /\ ~s0.stream
          /\ asks = [asks EXCEPT ![t] = k0] /\ reads \subseteq File
        BY <1>1, ScannerNow DEF CameraTidy
    <1>3. Scanning(page[t]) /\ ~k0.wanted
        BY <1>1, <1>2 DEF handleRetry
    <1>4. /\ page' = page /\ reads' = reads /\ Worked
          /\ UNCHANGED bookVars /\ UNCHANGED payVars
        BY DEF handleRetry, Work, Worked
    <1>5. CASE s0.stream
        <2>1. PICK s : s = [s0 EXCEPT !.status = "scanning"]
            OBVIOUS
        <2>2. s \in Scanner /\ s.stream
            BY <1>2, <1>5, <2>1 DEF Scanner
        <2>3. scan' = [scan EXCEPT ![t] = s] /\ asks' = [asks EXCEPT ![t] = k0]
            BY <1>1, <1>2, <1>5, <2>1 DEF handleRetry
        <2> QED
            BY <1>2, <1>3, <1>4, <2>2, <2>3, ScannerKeeps
    <1>6. CASE ~s0.stream
        <2>1. PICK s, k : /\ s = [s0 EXCEPT !.status = "requesting"]
                          /\ k = [k0 EXCEPT !.wanted = TRUE]
            OBVIOUS
        <2>2. /\ s \in Scanner /\ s.status = "requesting" /\ ~s.stream /\ ~s.playing
              /\ k \in [wanted : BOOLEAN, unwanted : Nat]
            BY <1>2, <1>6, <2>1 DEF Scanner
        <2>3. scan' = [scan EXCEPT ![t] = s] /\ asks' = [asks EXCEPT ![t] = k]
            BY <1>1, <1>6, <2>1 DEF handleRetry, Asked
        <2> QED
            BY <1>2, <1>3, <1>4, <2>2, <2>3, ScannerKeeps
    <1> QED
        BY <1>5, <1>6

-----------------------------------------------------------------------------
(* The withdrawal form and the ledger.                                     *)

(* A page with another form.                                               *)
LEMMA ReformIs ==
    ASSUME NEW p \in Page, NEW f \in Form
    PROVE  /\ [p EXCEPT !.form = f] \in Page
           /\ [p EXCEPT !.form = f].form = f
           /\ Scanning([p EXCEPT !.form = f]) <=> Scanning(p)
    <1>1. PICK q : q = [p EXCEPT !.form = f]
        OBVIOUS
    <1>2. q \in Page /\ q.form = f /\ q.view = p.view /\ q.modal = p.modal
        BY <1>1 DEF Page
    <1> QED
        BY <1>1, <1>2 DEF Scanning

(* A step that changes a form and no book or scanner.                      *)
LEMMA FormKeeps ==
    ASSUME FundingInv, NEW t \in Tab, NEW f \in Form, page' = [page EXCEPT ![t].form = f],
           UNCHANGED bookVars, UNCHANGED scanVars, Worked
    PROVE  /\ WorkOK' /\ PageOK' /\ BookOK' /\ CameraOK'
           /\ page'[t].form = f
           /\ \A u \in Tab : u # t => page'[u] = page[u]
    <1>1. WorkOK /\ PageOK /\ BookOK /\ CameraOK
        BY InvIs
    <1>2. PICK p, q : p = page[t] /\ q = [p EXCEPT !.form = f]
        OBVIOUS
    <1>3. p \in Page /\ q \in Page /\ q.form = f /\ (Scanning(q) <=> Scanning(page[t]))
        BY <1>1, <1>2, ReformIs DEF PageOK
    <1>4. page' = [page EXCEPT ![t] = q]
        BY <1>2
    <1>5. PageOK' /\ page'[t] = q /\ \A u \in Tab : u # t => page'[u] = page[u]
        BY <1>1, <1>3, <1>4, PageTurns
    <1>6. UNCHANGED <<scan, asks>> /\ reads' = reads
        BY DEF scanVars
    <1>7. reads' \subseteq File
        BY <1>1, <1>6 DEF CameraOK
    <1>8. CameraOK'
        BY <1>1, <1>3, <1>5, <1>6, <1>7, CameraKept
    <1> QED
        BY <1>1, <1>3, <1>5, <1>8, BookKept

(* A step of the ledger, that no page sees yet.                            *)
LEMMA LedgerKeeps ==
    ASSUME FundingInv, UNCHANGED <<bookVars, page, scanVars, works>>, PayOK'
    PROVE  FundingInv'
    <1>1. WorkOK /\ PageOK /\ BookOK /\ CameraOK
        BY InvIs
    <1>2. PageOK' /\ Worked /\ UNCHANGED bookVars
        BY <1>1 DEF PageOK, Worked
    <1>3. CameraOK'
        BY <1>1 DEF CameraOK, CameraTidy, FilesTidy, Scanning, scanVars
    <1>4. BookOK' /\ WorkOK'
        BY <1>1, <1>2, BookKept
    <1> QED
        BY <1>2, <1>3, <1>4, InvIsNext

LEMMA ConfirmKeeps ==
    ASSUME FundingInv, NEW t \in Tab, handleConfirm(t)
    PROVE  FundingInv'
    <1>1. WorkOK /\ PageOK /\ BookOK /\ PayOK
        BY InvIs
    <1>2. PICK p, g : p = page[t] /\ g = p.form
        OBVIOUS
    <1>3. p \in Page /\ g \in Form
        BY <1>1, <1>2 DEF PageOK, Page
    <1>4. PICK id \in Picks(t), n \in Enterable(t) :
              /\ canConfirm(t, id, n)
              /\ calls' = calls \cup {[tab |-> t, n |-> works', heard |-> TRUE, answer |-> None,
                                       amount |-> n, to |-> address[id]]}
        BY DEF handleConfirm
    <1>5. /\ works' = works + 1 /\ Worked /\ held' = held /\ moved' = moved
          /\ UNCHANGED bookVars /\ UNCHANGED scanVars
          /\ page' = [page EXCEPT ![t].form.stage = "pending"]
        BY DEF handleConfirm, Work, Worked
    <1>6. n \in Money
        <2>1. n \in 0..page[t].form.balance /\ page[t].form.balance \in Money
            BY <1>2, <1>3, <1>4 DEF canConfirm, Form
        <2> QED
            BY <2>1, Bounds DEF Money
    <1>7. address[id] \in Address
        <2>1. address \in Seq(Address) /\ Good(book[t])
            BY <1>1, BookIs
        <2>2. id \in 1..Len(address)
            <3>1. PICK o : o = book[t]
                OBVIOUS
            <3>2. \A i \in DOMAIN o.list : o.list[i] \in 1..Len(address)
                BY <2>1, <3>1, GoodLists
            <3> QED
                BY <1>4, <3>1, <3>2 DEF Picks, Listed
        <2> QED
            BY <2>1, <2>2, ElementOfSeq
    <1>8. PICK w, a : w = works + 1 /\ a = address[id]
        OBVIOUS
    <1>9. PICK c : c = [tab |-> t, n |-> w, heard |-> TRUE, answer |-> None, amount |-> n, to |-> a]
        OBVIOUS
    <1>10. w \in Nat
        BY <1>1, <1>8, Bounds DEF WorkOK
    <1>11. c \in Withdrawal /\ c.tab = t /\ c.heard /\ c.answer = None
        BY <1>6, <1>7, <1>8, <1>9, <1>10 DEF Withdrawal
    <1>12. calls' = calls \cup {c}
        BY <1>4, <1>5, <1>8, <1>9
    <1>13. PICK f : f = [g EXCEPT !.stage = "pending"]
        OBVIOUS
    <1>14. f \in Form /\ f.receipt = g.receipt
        BY <1>3, <1>13 DEF Form
    <1>15. page' = [page EXCEPT ![t].form = f]
        BY <1>1, <1>2, <1>5, <1>13 DEF PageOK
    <1>16. /\ WorkOK' /\ PageOK' /\ BookOK' /\ CameraOK'
           /\ page'[t].form = f /\ \A u \in Tab : u # t => page'[u] = page[u]
        BY <1>5, <1>14, <1>15, FormKeeps
    <1>17. PayOK'
        <2>1. calls' \subseteq Withdrawal
            BY <1>1, <1>11, <1>12 DEF PayOK
        <2>2. PendingHasCall'
            BY <1>1, <1>11, <1>12, <1>16 DEF PayOK, PendingHasCall
        <2>3. AnsweredHasMoved'
            <3>1. None # "ok"
                BY FundingAssumption
            <3> QED
                BY <1>1, <1>5, <1>11, <1>12, <3>1 DEF PayOK, AnsweredHasMoved, Moved
        <2>4. SettledHasMoved'
            BY <1>1, <1>2, <1>5, <1>14, <1>16 DEF PayOK, SettledHasMoved
        <2> QED
            BY <1>1, <1>5, <2>1, <2>2, <2>3, <2>4 DEF PayOK
    <1> QED
        BY <1>16, <1>17, InvIsNext

LEMMA AnotherKeeps ==
    ASSUME FundingInv, NEW t \in Tab, Another(t)
    PROVE  FundingInv'
    <1>1. PageOK /\ PayOK
        BY InvIs
    <1>2. PICK p, g, f : p = page[t] /\ g = p.form /\ f = [g EXCEPT !.stage = "idle"]
        OBVIOUS
    <1>3. g \in Form /\ f \in Form /\ f.receipt = g.receipt /\ f.stage = "idle"
        BY <1>1, <1>2 DEF PageOK, Page, Form
    <1>4. /\ page' = [page EXCEPT ![t].form = f] /\ UNCHANGED <<calls, held, moved>>
          /\ UNCHANGED bookVars /\ UNCHANGED scanVars /\ Worked
        BY <1>1, <1>2 DEF Another, PageOK, payVars, Worked
    <1>5. /\ WorkOK' /\ PageOK' /\ BookOK' /\ CameraOK'
          /\ page'[t].form = f /\ \A u \in Tab : u # t => page'[u] = page[u]
        BY <1>3, <1>4, FormKeeps
    <1>6. PayOK'
        <2>1. PendingHasCall'
            BY <1>1, <1>3, <1>4, <1>5 DEF PayOK, PendingHasCall
        <2>2. SettledHasMoved'
            BY <1>1, <1>2, <1>3, <1>4, <1>5 DEF PayOK, SettledHasMoved
        <2>3. AnsweredHasMoved'
            BY <1>1, <1>4 DEF PayOK, AnsweredHasMoved, Moved
        <2> QED
            BY <1>1, <1>4, <2>1, <2>2, <2>3 DEF PayOK
    <1> QED
        BY <1>5, <1>6, InvIsNext

(* A call gets its answer: its page waits for it still.                    *)
LEMMA AnsweredKeeps ==
    ASSUME FundingInv, NEW c \in calls, c.answer = None, NEW a \in {"ok", "error"},
           calls' = (calls \ {c}) \cup {[c EXCEPT !.answer = a]},
           held' \in Money, moved \subseteq moved', moved' \subseteq Receipt,
           a = "ok" => Moved(c) \in moved', page' = page
    PROVE  PayOK'
    <1>1. PayOK /\ c \in Withdrawal
        BY InvIs DEF PayOK
    <1>2. PICK d : d = [c EXCEPT !.answer = a]
        OBVIOUS
    <1>3. /\ d \in Withdrawal /\ d.tab = c.tab /\ d.heard = c.heard /\ d.answer = a
          /\ d.amount = c.amount /\ d.to = c.to
        BY <1>1, <1>2 DEF Withdrawal
    <1>4. calls' = (calls \ {c}) \cup {d}
        BY <1>2
    <1>5. PendingHasCall'
        <2>1. SUFFICES ASSUME NEW t \in Tab, page[t].form.stage = "pending"
                       PROVE  \E e \in calls' : e.tab = t /\ e.heard
            BY DEF PendingHasCall
        <2>2. PICK e \in calls : e.tab = t /\ e.heard
            BY <1>1, <2>1 DEF PayOK, PendingHasCall
        <2>3. CASE e = c
            BY <1>3, <1>4, <2>2, <2>3
        <2>4. CASE e # c
            BY <1>4, <2>2, <2>4
        <2> QED
            BY <2>3, <2>4
    <1>6. AnsweredHasMoved'
        <2>1. SUFFICES ASSUME NEW e \in calls', e.answer = "ok" PROVE Moved(e) \in moved'
            BY DEF AnsweredHasMoved, Moved
        <2>2. CASE e = d
            <3>1. Moved(d) = Moved(c)
                BY <1>3 DEF Moved
            <3> QED
                BY <1>3, <2>1, <2>2, <3>1
        <2>3. CASE e # d
            <3>1. e \in calls
                BY <1>4, <2>3
            <3> QED
                BY <1>1, <2>1, <3>1 DEF PayOK, AnsweredHasMoved
        <2> QED
            BY <2>2, <2>3
    <1>7. SettledHasMoved'
        BY <1>1 DEF PayOK, SettledHasMoved
    <1>8. calls' \subseteq Withdrawal
        BY <1>1, <1>3, <1>4 DEF PayOK
    <1> QED
        BY <1>5, <1>6, <1>7, <1>8 DEF PayOK

LEMMA MovesKeeps ==
    ASSUME FundingInv, NEW c \in calls, LedgerMoves(c)
    PROVE  FundingInv'
    <1>1. PayOK /\ c \in Withdrawal
        BY InvIs DEF PayOK
    <1>2. PICK a \in {"ok", "error"} : calls' = (calls \ {c}) \cup {[c EXCEPT !.answer = a]}
        BY DEF LedgerMoves
    <1>3. /\ c.answer = None /\ moved' = moved \cup {Moved(c)} /\ page' = page
          /\ UNCHANGED <<bookVars, page, scanVars, works>>
        BY DEF LedgerMoves
    <1>4. held' \in Money
        <2>1. c.amount \in Money /\ held \in Money /\ c.amount <= held /\ held' = held - c.amount
            BY <1>1 DEF LedgerMoves, Withdrawal, PayOK
        <2> QED
            BY <2>1, Bounds DEF Money
    <1>5. Moved(c) \in Receipt
        BY <1>1 DEF Moved, Receipt, Withdrawal
    <1>6. moved \subseteq moved' /\ moved' \subseteq Receipt /\ Moved(c) \in moved'
        BY <1>1, <1>3, <1>5 DEF PayOK
    <1>7. PayOK'
        BY <1>2, <1>3, <1>4, <1>6, AnsweredKeeps
    <1> QED
        BY <1>3, <1>7, LedgerKeeps

LEMMA RefusesKeeps ==
    ASSUME FundingInv, NEW c \in calls, LedgerRefuses(c)
    PROVE  FundingInv'
    <1>1. PayOK
        BY InvIs
    <1>2. PICK a : a = "error"
        OBVIOUS
    <1>3. /\ c.answer = None /\ page' = page /\ held' = held /\ moved' = moved
          /\ calls' = (calls \ {c}) \cup {[c EXCEPT !.answer = a]}
          /\ UNCHANGED <<bookVars, page, scanVars, works>>
        BY <1>2 DEF LedgerRefuses
    <1>4. held' \in Money /\ moved \subseteq moved' /\ moved' \subseteq Receipt
        BY <1>1, <1>3 DEF PayOK
    <1>5. a \in {"ok", "error"} /\ a # "ok"
        BY <1>2
    <1>6. PayOK'
        BY <1>3, <1>4, <1>5, AnsweredKeeps
    <1> QED
        BY <1>3, <1>6, LedgerKeeps

(* The form that an answer leaves behind.                                  *)
LEMMA SettledIs ==
    ASSUME NEW g \in Form, NEW c \in Withdrawal
    PROVE  /\ Settled(g, c) \in Form /\ Settled(g, c).stage = "settled"
           /\ Settled(g, c).receipt = Moved(c)
    <1>1. PICK n, b : n = c.amount /\ b = g.balance
        OBVIOUS
    <1>2. n \in Money /\ b \in Money /\ c.to \in Address
        BY <1>1 DEF Withdrawal, Form
    <1>3. n \in Nat /\ b \in Nat /\ b <= Opening
        BY <1>2, Bounds DEF Money
    <1>4. displayAmountAtomic(0, n, n) = n
        BY <1>3 DEF displayAmountAtomic
    <1>5. PICK m : m = Minus(b, n)
        OBVIOUS
    <1>6. m \in Money
        BY <1>3, <1>5, Bounds DEF Minus, Money
    <1>7. PICK o : o = Moved(c)
        OBVIOUS
    <1>8. o \in Receipt /\ o.amount = n /\ o = [o EXCEPT !.amount = displayAmountAtomic(0, @, n)]
        BY <1>1, <1>2, <1>4, <1>7 DEF Moved, Receipt
    <1>9. PICK f : f = [g EXCEPT !.stage = "settled", !.balance = m, !.receipt = o]
        OBVIOUS
    <1>10. f \in Form /\ f.stage = "settled" /\ f.receipt = o
        BY <1>6, <1>8, <1>9 DEF Form
    <1>11. Settled(g, c) = f
        <2>1. Settled(g, c) = [g EXCEPT !.stage = "settled", !.balance = Minus(g.balance, n),
                                        !.receipt = [o EXCEPT !.amount = displayAmountAtomic(0, @, n)]]
            BY <1>1, <1>7 DEF Settled
        <2> QED
            BY <1>1, <1>5, <1>8, <1>9, <2>1
    <1> QED
        BY <1>7, <1>10, <1>11

LEMMA AnswerKeeps ==
    ASSUME FundingInv, NEW c \in calls, Answer(c)
    PROVE  FundingInv'
    <1>1. PageOK /\ PayOK /\ c \in Withdrawal
        BY InvIs DEF PayOK
    <1>2. PICK t : t = c.tab
        OBVIOUS
    <1>3. t \in Tab /\ page[t].form \in Form
        BY <1>1, <1>2 DEF PageOK, Page, Withdrawal
    <1>4. /\ c.answer # None /\ calls' = calls \ {c} /\ UNCHANGED <<held, moved>>
          /\ UNCHANGED bookVars /\ UNCHANGED scanVars /\ works' = works
        BY DEF Answer
    <1>5. calls' \subseteq Withdrawal /\ AnsweredHasMoved'
        BY <1>1, <1>4 DEF PayOK, AnsweredHasMoved, Moved
    <1>6. CASE ~c.heard
        <2>1. page' = page
            BY <1>6 DEF Answer
        <2>2. PendingHasCall'
            BY <1>1, <1>4, <1>6, <2>1 DEF PayOK, PendingHasCall
        <2>3. SettledHasMoved'
            BY <1>1, <1>4, <2>1 DEF PayOK, SettledHasMoved
        <2>4. PayOK'
            BY <1>1, <1>4, <1>5, <2>2, <2>3 DEF PayOK
        <2> QED
            BY <1>4, <2>1, <2>4, LedgerKeeps
    <1>7. CASE c.heard
        <2>1. PICK g : g = page[t].form
            OBVIOUS
        <2>2. PICK f : f = IF c.answer = "ok" THEN Settled(g, c) ELSE Failed(g)
            OBVIOUS
        <2>3. page' = [page EXCEPT ![t].form = f]
            BY <1>1, <1>2, <1>3, <1>7, <2>1, <2>2 DEF Answer, PageOK
        <2>4. f \in Form /\ f.stage # "pending" /\ (f.receipt = g.receipt \/ f.receipt \in moved)
            <3>1. CASE c.answer = "ok"
                BY <1>1, <1>3, <2>1, <2>2, <3>1, SettledIs DEF PayOK, AnsweredHasMoved
            <3>2. CASE c.answer # "ok"
                BY <1>3, <2>1, <2>2, <3>2 DEF Failed, Form
            <3> QED
                BY <3>1, <3>2
        <2>5. /\ WorkOK' /\ PageOK' /\ BookOK' /\ CameraOK'
              /\ page'[t].form = f /\ \A u \in Tab : u # t => page'[u] = page[u]
            BY <1>3, <1>4, <2>3, <2>4, FormKeeps DEF Worked
        <2>6. PendingHasCall'
            <3>1. SUFFICES ASSUME NEW u \in Tab, page'[u].form.stage = "pending"
                           PROVE  \E e \in calls' : e.tab = u /\ e.heard
                BY DEF PendingHasCall
            <3>2. u # t /\ page[u].form.stage = "pending"
                BY <2>4, <2>5, <3>1
            <3>3. PICK e \in calls : e.tab = u /\ e.heard
                BY <1>1, <3>2 DEF PayOK, PendingHasCall
            <3> QED
                BY <1>2, <1>4, <3>2, <3>3
        <2>7. SettledHasMoved'
            BY <1>1, <1>4, <2>1, <2>4, <2>5 DEF PayOK, SettledHasMoved
        <2>8. PayOK'
            BY <1>1, <1>4, <1>5, <2>6, <2>7 DEF PayOK
        <2> QED
            BY <2>5, <2>8, InvIsNext
    <1> QED
        BY <1>1, <1>6, <1>7 DEF Withdrawal

-----------------------------------------------------------------------------
(* The whole.                                                              *)

LEMMA InitHolds == Init => FundingInv
    <1> SUFFICES ASSUME Init PROVE FundingInv
        OBVIOUS
    <1>1. PICK f : f = NewForm(Opening)
        OBVIOUS
    <1>2. Opening \in Money /\ f \in Form /\ f.stage = "idle" /\ f.receipt = None
        BY <1>1, NewFormIs, Bounds DEF Money
    <1>3. PICK q : q = [view |-> "other", data |-> Opening, form |-> f, modal |-> NewModal]
        OBVIOUS
    <1>4. q \in Page /\ q.form = f /\ ~Scanning(q)
        BY <1>2, <1>3, NewModalIs DEF Page, Scanning
    <1>5. page = [t \in Tab |-> q]
        BY <1>1, <1>3 DEF Init
    <1>6. PageOK
        BY <1>4, <1>5 DEF PageOK
    <1>7. CameraOK
        BY NoScannerIs DEF Init, CameraOK, CameraTidy, FilesTidy
    <1>8. BookOK
        BY NoBookIsGood, EmptySeq, BookIs DEF Init, Good
    <1>9. PayOK
        BY <1>2, <1>4, <1>5 DEF Init, PayOK, PendingHasCall, AnsweredHasMoved, SettledHasMoved
    <1>10. WorkOK
        BY Bounds, EmptySeq DEF Init, WorkOK
    <1> QED
        BY <1>6, <1>7, <1>8, <1>9, <1>10, InvIs

LEMMA StepKeeps ==
    ASSUME FundingInv, [Next]_vars
    PROVE  FundingInv'
    <1>1. ASSUME NEW t \in Tab, ViewStep(t) \/ BookStep(t) \/ CaptureStep(t)
          PROVE  FundingInv'
        <2>1. CASE ViewStep(t)
            BY <2>1, ShowViewKeeps, RefreshKeeps, ReloadKeeps DEF ViewStep
        <2>2. CASE BookStep(t)
            BY <2>2, RemoveKeeps, SetDefaultKeeps, UpdateLabelKeeps, ResetAllKeeps DEF BookStep
        <2>3. CASE CaptureStep(t)
            BY <2>3, CaptureKeeps
        <2> QED
            BY <1>1, <2>1, <2>2, <2>3
    <1>2. ASSUME NEW t \in Tab, ScannerStep(t) \/ FormStep(t)
          PROVE  FundingInv'
        <2>1. CASE ScannerStep(t)
            BY <2>1, CameraStepKeeps, DecodeKeeps, PickFileKeeps, RetryKeeps DEF ScannerStep
        <2>2. CASE FormStep(t)
            BY <2>2, ConfirmKeeps, AnotherKeeps DEF FormStep
        <2> QED
            BY <1>2, <2>1, <2>2
    <1>3. ASSUME NEW r \in reads, handleUpload(r) PROVE FundingInv'
        BY <1>3, UploadKeeps
    <1>4. ASSUME NEW c \in calls, LedgerMoves(c) \/ LedgerRefuses(c) \/ Answer(c)
          PROVE  FundingInv'
        BY <1>4, MovesKeeps, RefusesKeeps, AnswerKeeps
    <1>5. CASE UNCHANGED vars
        <2>1. UNCHANGED <<bookVars, page, scanVars, works>> /\ UNCHANGED <<calls, held, moved>>
            BY <1>5 DEF vars, payVars
        <2>2. PayOK'
            BY <2>1, InvIs DEF PayOK, PendingHasCall, AnsweredHasMoved, Moved, SettledHasMoved
        <2> QED
            BY <2>1, <2>2, LedgerKeeps
    <1> QED
        BY <1>1, <1>2, <1>3, <1>4, <1>5 DEF Next

(* The invariant of the tabs, their address books, cameras and withdrawal  *)
(* forms, for any number of each, whatever answers late or never.          *)
THEOREM FundingInvariant == Spec => []FundingInv
    <1>1. Init => FundingInv
        BY InitHolds
    <1>2. FundingInv /\ [Next]_vars => FundingInv'
        BY StepKeeps
    <1> QED
        BY <1>1, <1>2, PTL DEF Spec

(* No camera is left on by a scanner that is gone, or turned on for one    *)
(* (QRScanner.jsx:103).                                                    *)
THEOREM CameraAlwaysWatched == Spec => []CameraOffWhenUnwatched
    <1>1. FundingInv => CameraOffWhenUnwatched
        BY DEF FundingInv, CameraTidy, CameraOffWhenUnwatched
    <1> QED
        BY <1>1, FundingInvariant, PTL

(* No address is listed twice, in any tab or in localStorage               *)
(* (AddAddressModal.jsx:53).                                               *)
THEOREM AddressesStayDistinct == Spec => []NoDuplicateAddresses
    <1>1. FundingInv => NoDuplicateAddresses
        BY DEF FundingInv
    <1> QED
        BY <1>1, FundingInvariant, PTL

(* A form never waits for nothing (FundingView.jsx:117).                   *)
THEOREM PendingAlwaysHasCall == Spec => []PendingHasCall
    <1>1. FundingInv => PendingHasCall
        BY DEF FundingInv
    <1> QED
        BY <1>1, FundingInvariant, PTL

(* The withdrawal a form calls settled was made, of that amount and to     *)
(* that address (FundingView.jsx:139).                                     *)
THEOREM SettledAlwaysMoved == Spec => []SettledHasMoved
    <1>1. FundingInv => SettledHasMoved
        BY DEF FundingInv
    <1> QED
        BY <1>1, FundingInvariant, PTL

-----------------------------------------------------------------------------
(* What a recursive function computes is followed along the numbers: a set *)
(* with 0 and every successor has them all, since it would otherwise miss  *)
(* a least one.  That such a function exists at all is a lemma too.        *)

LEMMA Least ==
    ASSUME NEW S \in SUBSET Nat, S # {}
    PROVE  \E m \in S : \A k \in S : m <= k
    <1>1. PICK R : R = {p \in Nat \X Nat : p[1] < p[2]}
        OBVIOUS
    <1>2. IsWellFoundedOn(R, Nat)
        BY <1>1, NatLessThanWellFounded, Zenon DEF OpToRel
    <1>3. PICK m \in S : \A k \in S : ~(<<k, m>> \in R)
        BY <1>2, WFMin
    <1>4. \A k \in S : ~(k < m)
        BY <1>1, <1>3
    <1> QED
        BY <1>4

LEMMA Induct ==
    ASSUME NEW S, 0 \in S, \A n \in Nat : n \in S => n + 1 \in S
    PROVE  \A n \in Nat : n \in S
    <1> SUFFICES ASSUME Nat \ S # {} PROVE FALSE
        OBVIOUS
    <1>1. PICK m \in Nat \ S : \A k \in Nat \ S : m <= k
        BY Least
    <1>2. m # 0 /\ m - 1 \in Nat /\ (m - 1) + 1 = m
        BY <1>1
    <1> QED
        BY <1>1, <1>2

(* f does as H says, from a on, up to n, or for ever.                      *)
Follows(f, a, H, n) == f[0] = a /\ \A i \in 0..(n - 1) : f[i + 1] = H[i][f[i]]

Recurs(f, A, a, H) == f \in [Nat -> A] /\ f[0] = a /\ \A n \in Nat : f[n + 1] = H[n][f[n]]

LEMMA Recursion ==
    ASSUME NEW A, NEW a \in A, NEW H \in [Nat -> [A -> A]]
    PROVE  \E f : Recurs(f, A, a, H)
    <1> DEFINE Reached == {n \in Nat : \E f \in [0..n -> A] : Follows(f, a, H, n)}
    <1>1. 0 \in Reached
        <2>1. [i \in 0..0 |-> a] \in [0..0 -> A] /\ Follows([i \in 0..0 |-> a], a, H, 0)
            BY DEF Follows
        <2> QED
            BY <2>1
    <1>2. ASSUME NEW n \in Nat, n \in Reached PROVE n + 1 \in Reached
        <2>1. PICK f \in [0..n -> A] : Follows(f, a, H, n)
            BY <1>2
        <2>2. PICK g : g = [i \in 0..(n + 1) |-> IF i <= n THEN f[i] ELSE H[n][f[n]]]
            OBVIOUS
        <2>3. g \in [0..(n + 1) -> A]
            <3>1. f[n] \in A /\ <<n, f[n]>> \in Nat \X A
                OBVIOUS
            <3> QED
                BY <3>1, <2>2
        <2>4. Follows(g, a, H, n + 1)
            <3>1. g[0] = a
                BY <2>1, <2>2 DEF Follows
            <3>2. ASSUME NEW i \in 0..((n + 1) - 1) PROVE g[i + 1] = H[i][g[i]]
                <4>1. CASE i = n
                    BY <4>1, <2>2
                <4>2. CASE i # n
                    <5>1. i \in 0..(n - 1) /\ i + 1 \in 0..n
                        BY <4>2
                    <5>2. f[i + 1] = H[i][f[i]]
                        BY <5>1, <2>1 DEF Follows
                    <5> QED
                        BY <5>1, <5>2, <2>2
                <4> QED
                    BY <4>1, <4>2
            <3> QED
                BY <3>1, <3>2 DEF Follows
        <2> QED
            BY <2>3, <2>4
    <1>3. \A n \in Nat : n \in Reached
        <2> HIDE DEF Reached
        <2> QED
            BY <1>1, <1>2, Induct
    <1>4. PICK F : F = [n \in Nat |-> CHOOSE f \in [0..n -> A] : Follows(f, a, H, n)]
        OBVIOUS
    <1>5. \A n \in Nat : F[n] \in [0..n -> A] /\ Follows(F[n], a, H, n)
        BY <1>3, <1>4
    <1>6. \A n, i \in Nat : i <= n => F[n][i] = F[i][i]
        <2>1. SUFFICES ASSUME NEW n \in Nat, NEW m \in Nat, m <= n PROVE F[n][m] = F[m][m]
            OBVIOUS
        <2> DEFINE Same == {i \in Nat : i <= m => F[n][i] = F[m][i]}
        <2>2. 0 \in Same
            BY <1>5 DEF Follows
        <2>3. ASSUME NEW i \in Nat, i \in Same PROVE i + 1 \in Same
            <3>1. CASE i + 1 <= m
                <4>1. i \in 0..(m - 1) /\ i \in 0..(n - 1)
                    BY <3>1, <2>1
                <4>2. F[n][i + 1] = H[i][F[n][i]] /\ F[m][i + 1] = H[i][F[m][i]]
                    BY <4>1, <1>5 DEF Follows
                <4> QED
                    BY <4>1, <4>2, <2>3
            <3> QED
                BY <3>1
        <2>4. m \in Same
            <3> HIDE DEF Same
            <3> QED
                BY <2>2, <2>3, Induct
        <2> QED
            BY <2>4
    <1>7. PICK h : h = [n \in Nat |-> F[n][n]]
        OBVIOUS
    <1>8. h \in [Nat -> A]
        BY <1>5, <1>7
    <1>9. h[0] = a
        BY <1>5, <1>7 DEF Follows
    <1>10. ASSUME NEW n \in Nat PROVE h[n + 1] = H[n][h[n]]
        <2>1. F[n + 1][n + 1] = H[n][F[n + 1][n]]
            BY <1>5 DEF Follows
        <2>2. F[n + 1][n] = F[n][n]
            BY <1>6
        <2> QED
            BY <2>1, <2>2, <1>7
    <1> QED
        BY <1>8, <1>9, <1>10 DEF Recurs

-----------------------------------------------------------------------------
(* Powers of the base, quotients and remainders.                           *)

LEMMA PowerIs ==
    /\ Power \in [Nat -> Nat \ {0}] /\ Power[0] = 1
    /\ \A k \in Nat : Power[k + 1] = Power[k] * Base
    <1>1. PICK H : H = [k \in Nat |-> [n \in Nat \ {0} |-> n * Base]]
        OBVIOUS
    <1>2. H \in [Nat -> [Nat \ {0} -> Nat \ {0}]]
        <2>1. \A n \in Nat \ {0} : n * Base \in Nat \ {0}
            BY AmountsAssumption
        <2> QED
            BY <1>1, <2>1
    <1>3. PICK f \in [Nat -> Nat \ {0}] : f[0] = 1 /\ \A k \in Nat : f[k + 1] = H[k][f[k]]
        <2>1. 1 \in Nat \ {0}
            OBVIOUS
        <2>2. \E f : Recurs(f, Nat \ {0}, 1, H)
            BY <1>2, <2>1, Recursion, Zenon
        <2> QED
            BY <2>2 DEF Recurs
    <1>4. f = [k \in Nat |-> IF k = 0 THEN 1 ELSE f[k - 1] * Base]
        <2>1. ASSUME NEW k \in Nat, k # 0 PROVE f[k] = f[k - 1] * Base
            <3>1. k - 1 \in Nat /\ (k - 1) + 1 = k
                BY <2>1
            <3> QED
                BY <3>1, <1>1, <1>3
        <2> QED
            BY <2>1, <1>3
    <1>5. Power = [k \in Nat |-> IF k = 0 THEN 1 ELSE Power[k - 1] * Base]
        BY <1>4 DEF Power
    <1> DEFINE Same == {k \in Nat : Power[k] = f[k]}
    <1>6. 0 \in Same
        BY <1>3, <1>5
    <1>7. ASSUME NEW k \in Nat, k \in Same PROVE k + 1 \in Same
        BY <1>4, <1>5, <1>7
    <1>8. \A k \in Nat : k \in Same
        <2> HIDE DEF Same
        <2> QED
            BY <1>6, <1>7, Induct
    <1> QED
        <2>1. \A k \in Nat : Power[k] = f[k]
            BY <1>8
        <2>2. Power = f
            BY <1>5, <2>1
        <2>3. \A k \in Nat : k + 1 \in Nat /\ k + 1 # 0 /\ (k + 1) - 1 = k
            OBVIOUS
        <2> QED
            BY <1>3, <1>4, <2>2, <2>3

LEMMA BaseIs == Base \in Nat /\ Base > 1 /\ Decimals \in Nat /\ Decimals > 1
    BY AmountsAssumption

LEMMA PowerPositive ==
    ASSUME NEW k \in Nat
    PROVE  Power[k] \in Nat /\ Power[k] > 0
    BY PowerIs

LEMMA PowerSum ==
    ASSUME NEW j \in Nat, NEW k \in Nat
    PROVE  Power[j + k] = Power[j] * Power[k]
    <1> DEFINE Reached == {i \in Nat : Power[j + i] = Power[j] * Power[i]}
    <1>1. 0 \in Reached
        BY PowerIs, PowerPositive
    <1>2. ASSUME NEW i \in Nat, i \in Reached PROVE i + 1 \in Reached
        <2>1. Power[j + (i + 1)] = Power[j + i] * Base /\ Power[i + 1] = Power[i] * Base
            <3>1. j + (i + 1) = (j + i) + 1 /\ j + i \in Nat
                OBVIOUS
            <3> QED
                BY <3>1, PowerIs
        <2>2. (Power[j] * Power[i]) * Base = Power[j] * (Power[i] * Base)
            BY PowerPositive, BaseIs
        <2> QED
            BY <1>2, <2>1, <2>2
    <1>3. k \in Reached
        <2> HIDE DEF Reached
        <2> QED
            BY <1>1, <1>2, Induct
    <1> QED
        BY <1>3

LEMMA DivIs ==
    ASSUME NEW a \in Nat, NEW b \in Nat, b > 0
    PROVE  a \div b \in Nat /\ a % b \in 0..(b - 1) /\ a = (a \div b) * b + (a % b)
    OBVIOUS

LEMMA DivUnique ==
    ASSUME NEW a \in Nat, NEW b \in Nat, b > 0, NEW q \in Nat, NEW r \in 0..(b - 1),
           a = q * b + r
    PROVE  a \div b = q /\ a % b = r
    OBVIOUS

LEMMA DivSmall ==
    ASSUME NEW a \in Nat, NEW b \in Nat, a < b
    PROVE  a \div b = 0 /\ a % b = a
    OBVIOUS

LEMMA DivExact ==
    ASSUME NEW q \in Nat, NEW b \in Nat, b > 0
    PROVE  (q * b) \div b = q /\ (q * b) % b = 0
    OBVIOUS

LEMMA TimesAssociates ==
    ASSUME NEW a \in Nat, NEW b \in Nat, NEW c \in Nat
    PROVE  a * (b * c) = (a * b) * c /\ a * b \in Nat
    OBVIOUS

LEMMA DivDiv ==
    ASSUME NEW a \in Nat, NEW b \in Nat, b > 0, NEW c \in Nat, c > 0
    PROVE  a \div (b * c) = (a \div b) \div c
    OBVIOUS

-----------------------------------------------------------------------------
(* Digits: what is read of those that were written is the number.          *)

(* The values that Read passes through.                                    *)
LEMMA ReadIs ==
    ASSUME NEW s \in Seq(Nat), NEW base \in Nat
    PROVE  \E f \in [0..Len(s) -> Nat] :
              /\ f[0] = 0 /\ Read(s, base) = f[Len(s)]
              /\ \A i \in 1..Len(s) : f[i] = f[i - 1] * base + s[i]
    <1>1. Len(s) \in Nat /\ \A i \in 1..Len(s) : s[i] \in Nat
        BY LenProperties, ElementOfSeq
    <1>2. PICK H : H = [k \in Nat |-> [n \in Nat |->
                            IF k + 1 \in 1..Len(s) THEN n * base + s[k + 1] ELSE 0]]
        OBVIOUS
    <1>3. H \in [Nat -> [Nat -> Nat]]
        <2>1. ASSUME NEW k \in Nat, NEW n \in Nat
              PROVE  (IF k + 1 \in 1..Len(s) THEN n * base + s[k + 1] ELSE 0) \in Nat
            <3>1. n * base \in Nat
                OBVIOUS
            <3> QED
                BY <1>1, <3>1
        <2> QED
            BY <1>2, <2>1
    <1>4. PICK h \in [Nat -> Nat] : h[0] = 0 /\ \A k \in Nat : h[k + 1] = H[k][h[k]]
        <2>1. 0 \in Nat
            OBVIOUS
        <2>2. \E f : Recurs(f, Nat, 0, H)
            BY <1>3, <2>1, Recursion, Zenon
        <2> QED
            BY <2>2 DEF Recurs
    <1>5. ASSUME NEW i \in 1..Len(s) PROVE h[i] = h[i - 1] * base + s[i]
        <2>1. i - 1 \in Nat /\ (i - 1) + 1 = i
            BY <1>1
        <2> QED
            BY <2>1, <1>2, <1>4
    <1>6. PICK g : g = [i \in 0..Len(s) |-> h[i]]
        OBVIOUS
    <1>7. g = [i \in 0..Len(s) |-> IF i = 0 THEN 0 ELSE g[i - 1] * base + s[i]]
        <2>1. ASSUME NEW i \in 0..Len(s), i # 0 PROVE g[i] = g[i - 1] * base + s[i]
            <3>1. i \in 1..Len(s) /\ i - 1 \in 0..Len(s)
                BY <2>1, <1>1
            <3> QED
                BY <3>1, <1>5, <1>6
        <2> QED
            BY <2>1, <1>1, <1>4, <1>6
    <1>8. PICK f : f = CHOOSE u : u = [i \in 0..Len(s) |-> IF i = 0 THEN 0 ELSE u[i - 1] * base + s[i]]
        OBVIOUS
    <1>9. f = [i \in 0..Len(s) |-> IF i = 0 THEN 0 ELSE f[i - 1] * base + s[i]]
        BY <1>7, <1>8
    <1>10. Read(s, base) = f[Len(s)]
        BY <1>8 DEF Read
    <1> DEFINE Same == {i \in Nat : i <= Len(s) => f[i] = h[i]}
    <1>11. 0 \in Same
        BY <1>1, <1>4, <1>9
    <1>12. ASSUME NEW i \in Nat, i \in Same PROVE i + 1 \in Same
        <2>1. CASE i + 1 <= Len(s)
            <3>1. i + 1 \in 0..Len(s) /\ i + 1 # 0 /\ (i + 1) - 1 = i /\ i + 1 \in 1..Len(s)
                BY <1>1, <2>1
            <3>2. f[i + 1] = f[i] * base + s[i + 1] /\ h[i + 1] = h[i] * base + s[i + 1]
                BY <3>1, <1>5, <1>9
            <3>3. f[i] = h[i]
                BY <1>12, <3>1
            <3> QED
                BY <3>1, <3>2, <3>3
        <2> QED
            BY <2>1, <1>1
    <1>13. \A i \in Nat : i \in Same
        <2> HIDE DEF Same
        <2> QED
            BY <1>11, <1>12, Induct
    <1>14. \A i \in 0..Len(s) : f[i] = h[i] /\ h[i] \in Nat
        BY <1>13, <1>1
    <1>15. f \in [0..Len(s) -> Nat] /\ f[0] = 0
        <2>1. f = [i \in 0..Len(s) |-> f[i]]
            BY <1>9
        <2> QED
            BY <2>1, <1>4, <1>14, <1>1
    <1>16. ASSUME NEW i \in 1..Len(s) PROVE f[i] = f[i - 1] * base + s[i]
        <2>1. i \in 0..Len(s) /\ i - 1 \in 0..Len(s)
            BY <1>1
        <2> QED
            BY <2>1, <1>5, <1>14
    <1> QED
        BY <1>10, <1>15, <1>16

LEMMA FewAre ==
    ASSUME NEW d \in Nat, NEW s \in [1..d -> Nat]
    PROVE  s \in Seq(Nat) /\ Len(s) = d
    BY SeqDef

LEMMA PadStartIs ==
    ASSUME NEW n \in Nat, NEW d \in Nat
    PROVE  /\ padStart(n, d) \in Seq(Nat) /\ Len(padStart(n, d)) = d
           /\ \A i \in 1..d : padStart(n, d)[i] = (n \div Power[d - i]) % Base
    <1>1. ASSUME NEW i \in 1..d PROVE (n \div Power[d - i]) % Base \in Nat
        <2>1. d - i \in Nat
            OBVIOUS
        <2> QED
            BY <2>1, PowerPositive, DivIs, BaseIs
    <1>2. PICK s : s = padStart(n, d)
        OBVIOUS
    <1>3. s = [i \in 1..d |-> (n \div Power[d - i]) % Base]
        BY <1>2 DEF padStart
    <1>4. s \in [1..d -> Nat]
        BY <1>1, <1>3
    <1>5. s \in Seq(Nat) /\ Len(s) = d
        BY <1>4, SeqDef
    <1> QED
        BY <1>2, <1>3, <1>5

(* The first i of n's d digits stand for n \div Power[d - i].               *)
LEMMA NumberOfDigits ==
    ASSUME NEW d \in Nat, NEW n \in Nat, n < Power[d]
    PROVE  Number(padStart(n, d)) = n
    <1>1. PICK s \in Seq(Nat) : /\ s = padStart(n, d) /\ Len(s) = d
                                /\ \A i \in 1..d : s[i] = (n \div Power[d - i]) % Base
        BY PadStartIs
    <1>2. PICK f \in [0..d -> Nat] :
              /\ f[0] = 0 /\ Read(s, Base) = f[d]
              /\ \A i \in 1..d : f[i] = f[i - 1] * Base + s[i]
        <2>1. \E f \in [0..Len(s) -> Nat] :
                 /\ f[0] = 0 /\ Read(s, Base) = f[Len(s)]
                 /\ \A i \in 1..Len(s) : f[i] = f[i - 1] * Base + s[i]
            BY ReadIs, BaseIs
        <2> QED
            BY <1>1, <2>1
    <1> DEFINE Reached == {i \in Nat : i <= d => f[i] = n \div Power[d - i]}
    <1>3. 0 \in Reached
        <2>1. n \div Power[d] = 0
            BY PowerPositive, DivSmall
        <2>2. d - 0 = d
            OBVIOUS
        <2> QED
            BY <1>2, <2>1, <2>2
    <1>4. ASSUME NEW i \in Nat, i \in Reached PROVE i + 1 \in Reached
        <2>1. CASE i + 1 <= d
            <3>1. d - (i + 1) \in Nat /\ d - i = (d - (i + 1)) + 1 /\ i + 1 \in 1..d /\ (i + 1) - 1 = i
                BY <2>1
            <3>2. PICK q : q = n \div Power[d - (i + 1)]
                OBVIOUS
            <3>3. Power[d - i] = Power[d - (i + 1)] * Base
                BY <3>1, PowerIs
            <3>4. n \div Power[d - i] = q \div Base
                <4>1. PICK p : p = Power[d - (i + 1)]
                    OBVIOUS
                <4>2. p \in Nat /\ p > 0 /\ Base > 0 /\ Base \in Nat
                    BY <3>1, <4>1, PowerPositive, BaseIs
                <4>3. n \div (p * Base) = (n \div p) \div Base
                    BY <4>2, DivDiv
                <4> QED
                    BY <3>2, <3>3, <4>1, <4>3
            <3>5. q \in Nat
                BY <3>1, <3>2, DivIs, PowerPositive
            <3>6. q = (q \div Base) * Base + (q % Base)
                BY <3>5, DivIs, BaseIs
            <3>7. f[i] = q \div Base /\ s[i + 1] = q % Base
                BY <1>1, <1>4, <3>1, <3>2, <3>4
            <3>8. f[i + 1] = f[i] * Base + s[i + 1]
                BY <1>2, <3>1
            <3>9. f[i + 1] = q
                BY <3>6, <3>7, <3>8
            <3> QED
                BY <3>2, <3>9
        <2> QED
            BY <2>1
    <1>5. d \in Reached
        <2> HIDE DEF Reached
        <2> QED
            BY <1>3, <1>4, Induct
    <1>6. n \div Power[0] = n
        BY PowerIs
    <1> QED
        BY <1>1, <1>2, <1>5, <1>6 DEF Number

LEMMA PadEndIs ==
    ASSUME NEW s \in Seq(Nat), NEW d \in Nat, Len(s) <= d
    PROVE  /\ padEnd(s, d) \in Seq(Nat) /\ Len(padEnd(s, d)) = d
           /\ \A i \in 1..d : padEnd(s, d)[i] = IF i <= Len(s) THEN s[i] ELSE 0
    <1>1. Len(s) \in Nat /\ d - Len(s) \in Nat
        BY LenProperties
    <1>2. PICK z : z = [i \in 1..(d - Len(s)) |-> 0]
        OBVIOUS
    <1>3. z \in Seq(Nat) /\ Len(z) = d - Len(s)
        <2>1. z \in [1..(d - Len(s)) -> Nat]
            BY <1>2
        <2> QED
            BY <1>1, <2>1, SeqDef
    <1>4. PICK r : r = s \o z
        OBVIOUS
    <1>5. /\ r \in Seq(Nat) /\ Len(r) = d
          /\ \A i \in 1..d : r[i] = IF i <= Len(s) THEN s[i] ELSE z[i - Len(s)]
        <2>1. Len(s) + Len(z) = d
            BY <1>1, <1>3
        <2> QED
            BY <1>1, <1>3, <1>4, <2>1, ConcatProperties
    <1>6. padEnd(s, d) = r
        BY <1>2, <1>4 DEF padEnd
    <1> QED
        BY <1>1, <1>2, <1>5, <1>6

(* Zeros cut off the end are what padding puts back.                       *)
LEMMA TrimmedIs ==
    ASSUME NEW s \in Seq(Nat)
    PROVE  /\ Trimmed(s) \in Seq(Nat) /\ Len(Trimmed(s)) <= Len(s)
           /\ padEnd(Trimmed(s), Len(s)) = s
    <1>1. Len(s) \in Nat /\ \A i \in 1..Len(s) : s[i] \in Nat
        BY LenProperties, ElementOfSeq
    <1>2. \E k \in 0..Len(s) : ZerosFrom(s, k) /\ (k > 0 => s[k] # 0)
        <2>1. PICK S : S = {k \in 0..Len(s) : ZerosFrom(s, k)}
            OBVIOUS
        <2>2. S \in SUBSET Nat /\ Len(s) \in S
            BY <1>1, <2>1 DEF ZerosFrom
        <2>3. PICK k \in S : \A j \in S : k <= j
            BY <2>2, Least
        <2>4. ASSUME k > 0, s[k] = 0 PROVE FALSE
            <3>1. k - 1 \in 0..Len(s) /\ (k - 1) + 1 = k
                BY <1>1, <2>1, <2>3, <2>4
            <3>2. \A i \in ((k - 1) + 1)..Len(s) : i = k \/ i \in (k + 1)..Len(s)
                BY <1>1, <3>1
            <3>3. ZerosFrom(s, k - 1)
                BY <2>1, <2>3, <2>4, <3>2 DEF ZerosFrom
            <3> QED
                BY <2>1, <2>3, <3>1, <3>3
        <2> QED
            BY <2>1, <2>3, <2>4
    <1>3. PICK k : k = CHOOSE j \in 0..Len(s) : ZerosFrom(s, j) /\ (j > 0 => s[j] # 0)
        OBVIOUS
    <1>4. k \in 0..Len(s) /\ ZerosFrom(s, k)
        BY <1>2, <1>3
    <1>5. PICK t : t = SubSeq(s, 1, k)
        OBVIOUS
    <1>6. t \in Seq(Nat) /\ Len(t) = k /\ \A i \in 1..k : t[i] = s[i]
        BY <1>1, <1>4, <1>5, SubSeqProperties
    <1>7. Trimmed(s) = t
        BY <1>3, <1>5 DEF Trimmed
    <1>8. padEnd(t, Len(s)) = s
        <2>1. PICK p : p = padEnd(t, Len(s))
            OBVIOUS
        <2>2. /\ p \in Seq(Nat) /\ Len(p) = Len(s)
              /\ \A i \in 1..Len(s) : p[i] = IF i <= k THEN t[i] ELSE 0
            <3>1. Len(t) <= Len(s)
                BY <1>1, <1>4, <1>6
            <3>2. /\ p \in Seq(Nat) /\ Len(p) = Len(s)
                  /\ \A i \in 1..Len(s) : p[i] = IF i <= Len(t) THEN t[i] ELSE 0
                BY <1>1, <1>6, <2>1, <3>1, PadEndIs
            <3> QED
                BY <1>6, <3>2
        <2>3. \A i \in 1..Len(s) : p[i] = s[i]
            BY <1>1, <1>4, <1>6, <2>2 DEF ZerosFrom
        <2> QED
            BY <2>1, <2>2, <2>3, SeqEqual
    <1> QED
        BY <1>1, <1>4, <1>6, <1>7, <1>8

-----------------------------------------------------------------------------
(* Texts.                                                                  *)

LEMMA UnitIs == Unit \in Nat /\ Unit > 0
    BY PowerPositive, BaseIs DEF Unit

IsText(text) == text \in [whole : Nat, frac : Seq(Nat), grouped : BOOLEAN]

LEMMA TextIs ==
    ASSUME NEW w \in Nat, NEW f \in Seq(Nat)
    PROVE  /\ IsText(Text(w, f)) /\ Text(w, f) # NoText
           /\ Text(w, f).whole = w /\ Text(w, f).frac = f /\ ~Text(w, f).grouped
    <1>1. PICK text : text = [whole |-> w, frac |-> f, grouped |-> FALSE]
        OBVIOUS
    <1>2. text.whole = w /\ text.frac = f /\ text.grouped = FALSE
        BY <1>1
    <1>3. text \in [whole : Nat, frac : Seq(Nat), grouped : BOOLEAN]
        BY <1>1
    <1>4. Text(w, f) = text
        BY <1>1 DEF Text
    <1> QED
        BY <1>2, <1>3, <1>4, AmountsAssumption DEF IsText

LEMMA Remainder ==
    ASSUME NEW n \in Nat
    PROVE  /\ n \div Unit \in Nat /\ n % Unit \in Nat /\ n % Unit < Unit
           /\ n = (n \div Unit) * Unit + (n % Unit)
    BY UnitIs, DivIs

(* A text is read as the digits of its padded fraction say.                *)
LEMMA ReadsPadded ==
    ASSUME NEW w \in Nat, NEW f \in Seq(Nat), NEW r \in Nat, r < Unit, Len(f) <= Decimals,
           padEnd(f, Decimals) = padStart(r, Decimals)
    PROVE  usdcToAtomic(Text(w, f)) = w * Unit + r
    <1>1. Number(padEnd(f, Decimals)) = r
        BY NumberOfDigits, BaseIs DEF Unit
    <1>2. ~(Len(f) > Decimals)
        BY LenProperties, BaseIs
    <1> QED
        BY <1>1, <1>2, TextIs DEF usdcToAtomic

LEMMA FormatUnitsIs ==
    ASSUME NEW n \in Nat
    PROVE  \E f \in Seq(Nat) :
              /\ formatUnits(n) = Text(n \div Unit, f) /\ Len(f) <= Decimals
              /\ padEnd(f, Decimals) = padStart(n % Unit, Decimals)
    <1>1. PICK s : s = padStart(n % Unit, Decimals)
        OBVIOUS
    <1>2. s \in Seq(Nat) /\ Len(s) = Decimals
        BY <1>1, PadStartIs, Remainder, BaseIs
    <1>3. /\ Trimmed(s) \in Seq(Nat) /\ Len(Trimmed(s)) <= Decimals
          /\ padEnd(Trimmed(s), Decimals) = s
        BY <1>2, TrimmedIs
    <1> QED
        BY <1>1, <1>3 DEF formatUnits

LEMMA UnitsRead ==
    ASSUME NEW n \in Nat
    PROVE  /\ usdcToAtomic(formatUnits(n)) = n
           /\ formatUnits(n) # NoText
           /\ formatUnits(n).frac \in Seq(Nat) /\ Len(formatUnits(n).frac) <= Decimals
    <1>1. PICK f \in Seq(Nat) :
              /\ formatUnits(n) = Text(n \div Unit, f) /\ Len(f) <= Decimals
              /\ padEnd(f, Decimals) = padStart(n % Unit, Decimals)
        BY FormatUnitsIs
    <1>2. usdcToAtomic(Text(n \div Unit, f)) = (n \div Unit) * Unit + (n % Unit)
        BY <1>1, ReadsPadded, Remainder
    <1>3. Text(n \div Unit, f) # NoText /\ Text(n \div Unit, f).frac = f
        BY TextIs, Remainder
    <1> QED
        BY <1>1, <1>2, <1>3, Remainder

LEMMA GatewayReads ==
    ASSUME NEW n \in Nat
    PROVE  parseUnits(formatUnits(n)) = n /\ parseGatewayAmount(formatUnits(n)) = n
    BY UnitsRead DEF parseUnits, parseGatewayAmount

LEMMA EthReads ==
    ASSUME NEW n \in Nat
    PROVE  parseEthBalanceToWei(formatUnits(n)) = n
    BY UnitsRead, GatewayReads DEF parseEthBalanceToWei

LEMMA ZeroDigits ==
    /\ padStart(0, Decimals) \in Seq(Nat) /\ Len(padStart(0, Decimals)) = Decimals
    /\ \A i \in 1..Decimals : padStart(0, Decimals)[i] = 0
    <1>1. PICK z \in Seq(Nat) : /\ z = padStart(0, Decimals) /\ Len(z) = Decimals
                                /\ \A i \in 1..Decimals : z[i] = (0 \div Power[Decimals - i]) % Base
        BY PadStartIs, BaseIs
    <1>2. ASSUME NEW i \in 1..Decimals PROVE z[i] = 0
        <2>1. PICK q : q = Power[Decimals - i]
            OBVIOUS
        <2>2. q \in Nat /\ q > 0
            BY <2>1, PowerPositive, BaseIs
        <2> QED
            BY <1>1, <2>1, <2>2, DivSmall, BaseIs
    <1> QED
        BY <1>1, <1>2

(* A text without digits after its point is of whole units.                *)
LEMMA WholeUnits ==
    ASSUME NEW n \in Nat, formatUnits(n).frac = <<>>
    PROVE  n % Unit = 0
    <1>1. PICK f \in Seq(Nat) :
              /\ formatUnits(n) = Text(n \div Unit, f) /\ Len(f) <= Decimals
              /\ padEnd(f, Decimals) = padStart(n % Unit, Decimals)
        BY FormatUnitsIs
    <1>2. f = <<>> /\ Len(f) = 0
        <2>1. Text(n \div Unit, f).frac = f
            BY TextIs, Remainder
        <2> QED
            BY <1>1, <2>1
    <1>3. PICK p \in Seq(Nat) : p = padStart(n % Unit, Decimals) /\ Len(p) = Decimals
        BY PadStartIs, Remainder, BaseIs
    <1>4. \A i \in 1..Decimals : p[i] = 0
        <2>1. \A i \in 1..Decimals : padEnd(f, Decimals)[i] = IF i <= Len(f) THEN f[i] ELSE 0
            BY <1>1, PadEndIs, BaseIs
        <2> QED
            BY <1>1, <1>2, <1>3, <2>1
    <1>5. PICK z \in Seq(Nat) : /\ z = padStart(0, Decimals) /\ Len(z) = Decimals
                                /\ \A i \in 1..Decimals : z[i] = 0
        BY ZeroDigits
    <1>7. p = z
        BY <1>3, <1>4, <1>5, SeqEqual
    <1> QED
        <2>1. Number(p) = n % Unit
            BY <1>3, NumberOfDigits, Remainder, BaseIs DEF Unit
        <2>2. Number(z) = 0
            BY <1>5, NumberOfDigits, UnitIs, BaseIs DEF Unit
        <2> QED
            BY <1>7, <2>1, <2>2

(* And one of whole units has none.                                        *)
LEMMA WholeText ==
    ASSUME NEW n \in Nat, n % Unit = 0
    PROVE  formatUnits(n).frac = <<>> /\ formatUnits(n).whole = n \div Unit
    <1>1. PICK s \in Seq(Nat) : /\ s = padStart(n % Unit, Decimals) /\ Len(s) = Decimals
                                /\ \A i \in 1..Decimals : s[i] = 0
        BY ZeroDigits
    <1>3. PICK k : k = CHOOSE c \in 0..Len(s) : ZerosFrom(s, c) /\ (c > 0 => s[c] # 0)
        OBVIOUS
    <1>4. ZerosFrom(s, 0)
        BY <1>1, BaseIs DEF ZerosFrom
    <1>5. ASSUME NEW j \in 0..Len(s), ZerosFrom(s, j) /\ (j > 0 => s[j] # 0)
          PROVE  j = 0
        BY <1>1, <1>5, BaseIs
    <1>6. 0 \in 0..Len(s)
        BY <1>1, BaseIs
    <1>7. k = 0
        BY <1>3, <1>4, <1>5, <1>6
    <1>8. Trimmed(s) = SubSeq(s, 1, 0)
        BY <1>3, <1>7 DEF Trimmed
    <1>9. Trimmed(s) = <<>>
        BY <1>8, SubSeqEmpty
    <1>10. PICK w, f : w = n \div Unit /\ f = <<>>
        OBVIOUS
    <1>11. w \in Nat /\ f \in Seq(Nat)
        BY <1>10, Remainder
    <1>12. formatUnits(n) = Text(w, f)
        BY <1>1, <1>9, <1>10 DEF formatUnits
    <1>13. Text(w, f).whole = w /\ Text(w, f).frac = f
        BY <1>11, TextIs
    <1> QED
        BY <1>10, <1>12, <1>13

LEMMA DepositReads ==
    ASSUME NEW n \in Nat
    PROVE  parseGatewayDepositAmount(formatUnits(n)) = IF n % Unit = 0 THEN n \div Unit ELSE n
    <1>1. CASE n % Unit = 0
        BY <1>1, WholeText DEF parseGatewayDepositAmount
    <1>2. CASE n % Unit # 0
        BY <1>2, WholeUnits, GatewayReads DEF parseGatewayDepositAmount
    <1> QED
        BY <1>1, <1>2

LEMMA CentIs == Cent \in Nat /\ Cent > 0 /\ Unit = Power[2] * Cent
    <1>1. Decimals - 2 \in Nat /\ Decimals = 2 + (Decimals - 2)
        BY BaseIs
    <1>2. Unit = Power[2] * Power[Decimals - 2]
        BY <1>1, PowerSum DEF Unit
    <1> QED
        BY <1>1, <1>2, PowerPositive DEF Cent

(* The two digits of a number of cents, padded, are those of its amount.   *)
LEMMA ShiftedDigits ==
    ASSUME NEW c \in Nat
    PROVE  padEnd(padStart(c, 2), Decimals) = padStart(c * Cent, Decimals)
    <1>1. PICK s \in Seq(Nat) : /\ s = padStart(c, 2) /\ Len(s) = 2
                                /\ \A i \in 1..2 : s[i] = (c \div Power[2 - i]) % Base
        BY PadStartIs
    <1>2. PICK p \in Seq(Nat) : /\ p = padEnd(s, Decimals) /\ Len(p) = Decimals
                                /\ \A i \in 1..Decimals : p[i] = IF i <= 2 THEN s[i] ELSE 0
        <2>3. Len(s) = 2
            BY <1>1
        <2>1. Len(s) <= Decimals /\ Decimals \in Nat
            BY <2>3, BaseIs
        <2>2. /\ padEnd(s, Decimals) \in Seq(Nat) /\ Len(padEnd(s, Decimals)) = Decimals
              /\ \A i \in 1..Decimals : padEnd(s, Decimals)[i] = IF i <= Len(s) THEN s[i] ELSE 0
            BY <2>1, PadEndIs
        <2> QED
            BY <1>1, <2>2
    <1>3. c * Cent \in Nat
        BY CentIs
    <1>4. PICK t \in Seq(Nat) : /\ t = padStart(c * Cent, Decimals) /\ Len(t) = Decimals
                                /\ \A i \in 1..Decimals :
                                      t[i] = ((c * Cent) \div Power[Decimals - i]) % Base
        BY <1>3, PadStartIs, BaseIs
    <1>5. ASSUME NEW i \in 1..Decimals PROVE p[i] = t[i]
        <2>1. CASE i <= 2
            <3>1. PICK b : b = Power[2 - i]
                OBVIOUS
            <3>2. b \in Nat /\ b > 0
                BY <2>1, <3>1, PowerPositive, BaseIs
            <3>3. Power[Decimals - i] = Cent * b
                <4>1. Decimals - i = (Decimals - 2) + (2 - i) /\ Decimals - 2 \in Nat /\ 2 - i \in Nat
                    BY <2>1, BaseIs
                <4> QED
                    BY <4>1, <3>1, PowerSum DEF Cent
            <3>4. (c * Cent) \div (Cent * b) = ((c * Cent) \div Cent) \div b
                BY <1>3, <3>2, CentIs, DivDiv
            <3>5. (c * Cent) \div Cent = c
                BY CentIs, DivExact
            <3>6. t[i] = (c \div b) % Base
                BY <1>4, <3>3, <3>4, <3>5
            <3> QED
                <4>1. i \in 1..2
                    BY <2>1, BaseIs
                <4> QED
                    BY <4>1, <1>1, <1>2, <3>1, <3>6
        <2>2. CASE i > 2
            <3>1. PICK b, a : b = Power[Decimals - i] /\ a = Power[i - 3]
                OBVIOUS
            <3>2. b \in Nat /\ b > 0 /\ a \in Nat /\ a > 0
                BY <2>2, <3>1, PowerPositive, BaseIs
            <3>3. Cent = (a * Base) * b
                <4>1. Decimals - 2 = (i - 2) + (Decimals - i) /\ i - 2 = (i - 3) + 1
                      /\ i - 2 \in Nat /\ i - 3 \in Nat /\ Decimals - i \in Nat
                    BY <2>2, BaseIs
                <4>2. Power[Decimals - 2] = Power[i - 2] * Power[Decimals - i]
                    BY <4>1, PowerSum
                <4>3. Power[i - 2] = a * Base
                    BY <4>1, <3>1, PowerIs
                <4> QED
                    BY <4>2, <4>3, <3>1 DEF Cent
            <3>4. PICK q : q = c * a
                OBVIOUS
            <3>5. q \in Nat /\ q * Base \in Nat
                BY <3>2, <3>4, BaseIs
            <3>6. c * Cent = (q * Base) * b
                BY <3>2, <3>3, <3>4, <3>5, BaseIs
            <3>7. (c * Cent) \div b = q * Base
                BY <3>2, <3>5, <3>6, DivExact
            <3>8. (q * Base) % Base = 0
                BY <3>5, BaseIs, DivExact
            <3> QED
                BY <1>2, <1>4, <2>2, <3>1, <3>7, <3>8
        <2> QED
            BY <2>1, <2>2, BaseIs
    <1> QED
        BY <1>1, <1>2, <1>4, <1>5, SeqEqual

LEMMA ThousandIs == Thousand \in Nat
    <1>1. PICK p : p = Power[3]
        OBVIOUS
    <1>2. p \in Nat
        BY <1>1, PowerPositive
    <1> QED
        BY <1>1, <1>2, UnitIs DEF Thousand

(* From a thousand units on there are separators, and no reader for them.  *)
LEMMA AmountGrouped ==
    ASSUME NEW n \in Nat, NEW f \in Seq(Nat),
           formatAmount(n) = [Text(n \div Unit, f) EXCEPT !.grouped = n >= Thousand]
    PROVE  /\ n < Thousand => formatAmount(n) = Text(n \div Unit, f)
           /\ ~(n < Thousand) => usdcToAtomic(formatAmount(n)) = 0
    <1>1. CASE n < Thousand
        <2>1. (n >= Thousand) = FALSE
            BY <1>1, ThousandIs
        <2>2. PICK g : g = (n >= Thousand)
            OBVIOUS
        <2>3. g = FALSE
            BY <2>1, <2>2
        <2>4. formatAmount(n) = [Text(n \div Unit, f) EXCEPT !.grouped = FALSE]
            BY <2>2, <2>3
        <2> QED
            BY <1>1, <2>4 DEF Text
    <1>2. CASE ~(n < Thousand)
        <2>1. (n >= Thousand) = TRUE
            BY <1>2, ThousandIs
        <2>2. PICK g : g = (n >= Thousand)
            OBVIOUS
        <2>3. g = TRUE
            BY <2>1, <2>2
        <2>4. formatAmount(n) = [Text(n \div Unit, f) EXCEPT !.grouped = TRUE]
            BY <2>2, <2>3
        <2>5. formatAmount(n).grouped
            BY <2>4 DEF Text
        <2> QED
            BY <1>2, <2>5 DEF usdcToAtomic
    <1> QED
        BY <1>1, <1>2

LEMMA AmountReads ==
    ASSUME NEW n \in Nat
    PROVE  usdcToAtomic(formatAmount(n)) = IF n < Thousand THEN n ELSE 0
    <1>1. CASE n % Cent = 0
        <2>1. PICK c, k : c = (n % Unit) \div Cent /\ k = n \div Cent
            OBVIOUS
        <2>2. c \in Nat /\ k \in Nat /\ n = k * Cent
            <3>1. PICK r : r = n % Unit
                OBVIOUS
            <3>2. r \in Nat
                BY <3>1, Remainder
            <3>3. c \in Nat
                BY <2>1, <3>1, <3>2, CentIs, DivIs
            <3>4. k \in Nat /\ n = k * Cent
                BY <1>1, <2>1, CentIs, DivIs
            <3> QED
                BY <3>3, <3>4
        <2>3. (n % Unit) % Cent = 0
            <3>1. PICK w, r, p : w = n \div Unit /\ r = n % Unit /\ p = Power[2]
                OBVIOUS
            <3>2. w \in Nat /\ r \in Nat /\ n = w * Unit + r /\ p \in Nat
                BY <3>1, Remainder, PowerPositive
            <3>3. PICK u : u = w * p
                OBVIOUS
            <3>4. u \in Nat /\ w * Unit = u * Cent
                <4>1. w * (p * Cent) = (w * p) * Cent /\ w * p \in Nat
                    BY <3>2, CentIs, TimesAssociates
                <4>2. Unit = p * Cent
                    BY <3>1, CentIs
                <4> QED
                    BY <3>3, <4>1, <4>2
            <3>5. r = (k - u) * Cent
                BY <2>2, <3>2, <3>4, CentIs
            <3>6. k - u \in Nat
                BY <2>2, <3>2, <3>4, <3>5, CentIs
            <3> QED
                BY <3>1, <3>5, <3>6, CentIs, DivExact
        <2>4. n % Unit = c * Cent
            <3>1. n % Unit \in Nat
                BY Remainder
            <3> QED
                BY <2>1, <2>3, <3>1, CentIs, DivIs
        <2>5. PICK f : f = padStart(c, 2)
            OBVIOUS
        <2>6. f \in Seq(Nat) /\ Len(f) = 2
            BY <2>2, <2>5, PadStartIs
        <2>7. padEnd(f, Decimals) = padStart(n % Unit, Decimals)
            BY <2>2, <2>4, <2>5, ShiftedDigits
        <2>8. Len(f) <= Decimals
            BY <2>6, BaseIs
        <2>9. usdcToAtomic(Text(n \div Unit, f)) = (n \div Unit) * Unit + (n % Unit)
            BY <2>6, <2>7, <2>8, ReadsPadded, Remainder
        <2>10. formatAmount(n) = [Text(n \div Unit, f) EXCEPT !.grouped = n >= Thousand]
            BY <1>1, <2>1, <2>5 DEF formatAmount
        <2> QED
            BY <2>6, <2>9, <2>10, AmountGrouped, Remainder
    <1>2. CASE n % Cent # 0
        <2>1. PICK f : f = padStart(n % Unit, Decimals)
            OBVIOUS
        <2>2. f \in Seq(Nat) /\ Len(f) = Decimals
            BY <2>1, PadStartIs, Remainder, BaseIs
        <2>3. padEnd(f, Decimals) = f
            <3>1. PICK p : p = padEnd(f, Decimals)
                OBVIOUS
            <3>2. /\ p \in Seq(Nat) /\ Len(p) = Decimals
                  /\ \A i \in 1..Decimals : p[i] = IF i <= Len(f) THEN f[i] ELSE 0
                BY <2>2, <3>1, PadEndIs, BaseIs
            <3>3. \A i \in 1..Decimals : p[i] = f[i]
                BY <2>2, <3>2, BaseIs
            <3> QED
                BY <2>2, <3>1, <3>2, <3>3, SeqEqual
        <2>4. Len(f) <= Decimals
            BY <2>2, BaseIs
        <2>5. usdcToAtomic(Text(n \div Unit, f)) = (n \div Unit) * Unit + (n % Unit)
            BY <2>1, <2>2, <2>3, <2>4, ReadsPadded, Remainder
        <2>6. formatAmount(n) = [Text(n \div Unit, f) EXCEPT !.grouped = n >= Thousand]
            BY <1>2, <2>1 DEF formatAmount
        <2> QED
            BY <2>2, <2>5, <2>6, AmountGrouped, Remainder
    <1> QED
        BY <1>1, <1>2

(* A digit has no zeros to cut.                                            *)
LEMMA FewZeros ==
    ASSUME NEW n \in Nat, n < Base
    PROVE  WithoutZeros(n) = n
    <1>1. CASE n = 0
        BY <1>1 DEF WithoutZeros
    <1>2. CASE n > 0
        <2>1. n \in 1..n /\ n % Base # 0 /\ 0 \in 0..n /\ n = n * Power[0]
            <3>1. n % Base = n
                BY DivSmall, BaseIs
            <3> QED
                BY <1>2, <3>1, PowerIs
        <2>2. ASSUME NEW m \in 1..n, m % Base # 0, NEW k \in 0..n, n = m * Power[k]
              PROVE  m = n
            <3>1. CASE k = 0
                BY <2>2, <3>1, PowerIs
            <3>2. CASE k # 0
                <4>1. PICK p : p = Power[k - 1]
                    OBVIOUS
                <4>2. p \in Nat /\ p > 0 /\ Power[k] = p * Base
                    <5>1. k - 1 \in Nat /\ (k - 1) + 1 = k
                        BY <3>2
                    <5> QED
                        BY <4>1, <5>1, PowerIs, PowerPositive
                <4>3. PICK q : q = m * p
                    OBVIOUS
                <4>4. q \in Nat /\ q > 0 /\ n = q * Base
                    BY <2>2, <4>2, <4>3, BaseIs
                <4> QED
                    BY <4>4, BaseIs
            <3> QED
                BY <3>1, <3>2
        <2>3. PICK c : c = CHOOSE m \in 1..n : m % Base # 0 /\ \E k \in 0..n : n = m * Power[k]
            OBVIOUS
        <2>4. c = n
            BY <2>1, <2>2, <2>3
        <2> QED
            BY <1>2, <2>3, <2>4 DEF WithoutZeros
    <1> QED
        BY <1>1, <1>2

(* Below Base whole units the zeros that are cut are those of the fraction *)
(* only.                                                                   *)
LEMMA TopUpReads ==
    ASSUME NEW n \in Nat, n < Base * Unit
    PROVE  parseEthToWei(formatEthAmount(n)) = n
    <1>1. PICK f \in Seq(Nat) :
              /\ formatUnits(n) = Text(n \div Unit, f) /\ Len(f) <= Decimals
              /\ padEnd(f, Decimals) = padStart(n % Unit, Decimals)
        BY FormatUnitsIs
    <1>2. n \div Unit < Base
        <2>1. PICK w, r : w = n \div Unit /\ r = n % Unit
            OBVIOUS
        <2>2. w \in Nat /\ r \in Nat /\ n = w * Unit + r
            BY <2>1, Remainder
        <2> QED
            BY <2>1, <2>2, UnitIs, BaseIs
    <1>3. formatEthAmount(n) = Text(n \div Unit, f)
        <2>1. Text(n \div Unit, f).whole = n \div Unit /\ Text(n \div Unit, f).frac = f
            BY TextIs, Remainder
        <2>2. WithoutZeros(n \div Unit) = n \div Unit
            BY <1>2, FewZeros, Remainder
        <2> QED
            BY <1>1, <2>1, <2>2 DEF formatEthAmount
    <1>4. Len(f) \in Nat
        BY LenProperties
    <1>5. SubSeq(padEnd(f, Decimals + Len(f)), 1, Decimals) = padStart(n % Unit, Decimals)
        <2>1. PICK long, short, cut :
                 /\ long = padEnd(f, Decimals + Len(f)) /\ short = padEnd(f, Decimals)
                 /\ cut = SubSeq(long, 1, Decimals)
            OBVIOUS
        <2>2. /\ long \in Seq(Nat) /\ Len(long) = Decimals + Len(f)
              /\ \A i \in 1..(Decimals + Len(f)) : long[i] = IF i <= Len(f) THEN f[i] ELSE 0
            <3>1. Decimals + Len(f) \in Nat /\ Len(f) <= Decimals + Len(f)
                BY <1>4, BaseIs
            <3> QED
                BY <2>1, <3>1, PadEndIs
        <2>3. /\ short \in Seq(Nat) /\ Len(short) = Decimals
              /\ \A i \in 1..Decimals : short[i] = IF i <= Len(f) THEN f[i] ELSE 0
            BY <1>1, <2>1, PadEndIs, BaseIs
        <2>4. \A i \in 1..Decimals : i \in 1..(Decimals + Len(f))
            BY <1>4, BaseIs
        <2>5. \A i \in 1..Decimals : long[i] \in Nat
            BY <2>2, <2>4, ElementOfSeq
        <2>6. cut \in Seq(Nat) /\ Len(cut) = Decimals /\ \A i \in 1..Decimals : cut[i] = long[i]
            BY <2>1, <2>5, SubSeqProperties, BaseIs
        <2>7. \A i \in 1..Decimals : cut[i] = short[i]
            BY <2>2, <2>3, <2>4, <2>6
        <2> QED
            BY <1>1, <2>1, <2>3, <2>6, <2>7, SeqEqual
    <1>6. Number(padStart(n % Unit, Decimals)) = n % Unit
        BY NumberOfDigits, Remainder, BaseIs DEF Unit
    <1>7. Text(n \div Unit, f).whole = n \div Unit /\ Text(n \div Unit, f).frac = f
        BY TextIs, Remainder
    <1> QED
        BY <1>3, <1>5, <1>6, <1>7, Remainder DEF parseEthToWei

LEMMA CircleReads ==
    ASSUME NEW n \in Nat, n > 0
    PROVE  /\ usdcToAtomic(atomicUsdcToDecimal(n)) = n
           /\ atomicUsdcToDecimal(n) # NoText
    BY UnitsRead DEF atomicUsdcToDecimal

(* An amount is read as the one it was written for by Circle (agent-       *)
(* wallet-service.ts:1222), out of a Gateway balance (circle-wallet-       *)
(* service.ts:1338) and, below Base whole units, by the state store that   *)
(* sums top-ups up (agent-wallet-state-store.ts:468).  What the dashboard  *)
(* shows (formatAmount.js:24) is read by its form below a thousand units,  *)
(* and above as nothing; of a deposit, whole units are read as atomic ones *)
(* (circle-wallet-service.ts:1331) and any other amount as it is.          *)
THEOREM WrittenIsRead ==
    ASSUME NEW n \in Nat, n > 0
    PROVE  /\ usdcToAtomic(atomicUsdcToDecimal(n)) = n
           /\ usdcToAtomic(formatAmount(n)) = IF n < Thousand THEN n ELSE 0
           /\ parseGatewayAmount(formatUnits(n)) = n
           /\ parseEthBalanceToWei(formatUnits(n)) = n
           /\ parseGatewayDepositAmount(formatUnits(n)) =
                 IF n % Unit = 0 THEN n \div Unit ELSE n
           /\ n < Base * Unit => parseEthToWei(formatEthAmount(n)) = n
    BY CircleReads, AmountReads, GatewayReads, EthReads, DepositReads, TopUpReads

LEMMA ConversionsAreExact == ConversionsExact
    <1>1. \A n \in 1..(2 * Thousand) : n \in Nat /\ n > 0
        BY ThousandIs
    <1> QED
        BY <1>1, WrittenIsRead DEF ConversionsExact

(* A withdrawal can be answered exactly if it is of more than its fee.     *)
LEMMA AboveFeeAnswers ==
    ASSUME NEW n \in Nat
    PROVE  Answers(n) <=> n > Fee
    <1>1. Fee \in Nat /\ Fee > 0
        BY AmountsAssumption, UnitIs
    <1>2. CASE n > Fee
        <2>1. n > 0 /\ n - Fee \in Nat /\ n - Fee > 0
            BY <1>1, <1>2
        <2>2. netAmountAtomic(n) = n - Fee
            BY <1>2 DEF netAmountAtomic
        <2> QED
            BY <1>2, <2>1, <2>2, CircleReads DEF Answers, parsePositiveBigInt
    <1>3. CASE ~(n > Fee)
        <2>1. netAmountAtomic(n) = 0
            BY <1>3 DEF netAmountAtomic
        <2>2. atomicUsdcToDecimal(0) = NoText
            BY DEF atomicUsdcToDecimal
        <2> QED
            BY <1>3, <2>1, <2>2 DEF Answers
    <1> QED
        BY <1>2, <1>3

LEMMA FeesAreAnswered == AnsweredAboveFee
    BY AboveFeeAnswers, UnitIs DEF AnsweredAboveFee

-----------------------------------------------------------------------------
(* Gateway balances.                                                       *)

LEMMA TotalOfFew ==
    ASSUME NEW s \in Seq(Nat)
    PROVE  /\ Len(s) = 0 => TotalOf(s) = 0
           /\ Len(s) = 2 => TotalOf(s) = s[1] + s[2]
           /\ Len(s) = 4 => TotalOf(s) = s[1] + s[2] + s[3] + s[4]
    <1>1. PICK f \in [0..Len(s) -> Nat] :
              /\ f[0] = 0 /\ Read(s, 1) = f[Len(s)]
              /\ \A i \in 1..Len(s) : f[i] = f[i - 1] * 1 + s[i]
        BY ReadIs
    <1>2. \A i \in 1..Len(s) : s[i] \in Nat /\ f[i] = f[i - 1] + s[i]
        <2>1. ASSUME NEW i \in 1..Len(s) PROVE s[i] \in Nat /\ f[i] = f[i - 1] + s[i]
            <3>1. i - 1 \in 0..Len(s) /\ s[i] \in Nat
                BY LenProperties, ElementOfSeq
            <3>2. f[i - 1] \in Nat
                BY <1>1, <3>1
            <3> QED
                BY <1>1, <3>1, <3>2
        <2> QED
            BY <2>1
    <1>3. ASSUME Len(s) = 2 PROVE TotalOf(s) = s[1] + s[2]
        <2>1. f[1] = f[0] + s[1] /\ f[2] = f[1] + s[2] /\ s[1] \in Nat
            BY <1>2, <1>3
        <2> QED
            BY <1>1, <1>3, <2>1 DEF TotalOf
    <1>4. ASSUME Len(s) = 4 PROVE TotalOf(s) = s[1] + s[2] + s[3] + s[4]
        <2>1. /\ f[1] = f[0] + s[1] /\ f[2] = f[1] + s[2] /\ s[1] \in Nat
              /\ f[3] = f[2] + s[3] /\ f[4] = f[3] + s[4]
            BY <1>2, <1>4
        <2> QED
            BY <1>1, <1>4, <2>1 DEF TotalOf
    <1> QED
        BY <1>1, <1>3, <1>4 DEF TotalOf

(* What is said of an account, when the deposits listed and the balance's  *)
(* own figure come to these.                                               *)
LEMMA BalanceIs ==
    ASSUME NEW m \in Nat, NEW n \in Nat, NEW said, NEW deposits, NEW listed, NEW own,
           said.balance = formatUnits(n), said.withdrawing = formatUnits(m),
           extractPendingGatewayDeposits(said) = own,
           extractGatewayPendingDeposits(deposits) = listed
    PROVE  getGatewayBalance(said, deposits) =
              [available |-> n, total |-> m + n, pending |-> IF listed > 0 THEN listed ELSE own]
    <1>1. formatUnits(m) # NoText
        BY UnitsRead
    <1>2. extractGatewayBalance(said) = [available |-> n, total |-> n + m, pending |-> own]
        BY <1>1, GatewayReads DEF extractGatewayBalance, formatGatewayBalance
    <1> QED
        BY <1>2 DEF getGatewayBalance

LEMMA NoDeposits == extractGatewayPendingDeposits(<<>>) = 0
    <1>1. PICK s : s = [i \in DOMAIN <<>> |->
                            IF /\ <<>>[i].status \in {"pending", "unsaid"}
                               /\ <<>>[i].domain \in {"ours", "unsaid"}
                               /\ <<>>[i].depositor \in {"ours", "unsaid"}
                               /\ <<>>[i].amount # NoText
                            THEN parseGatewayDepositAmount(<<>>[i].amount) ELSE 0]
        OBVIOUS
    <1>2. s \in Seq(Nat) /\ Len(s) = 0
        BY <1>1
    <1> QED
        BY <1>1, <1>2, TotalOfFew DEF extractGatewayPendingDeposits

(* A balance, a deposit, and what a deposit counts for.                    *)
Saying(n, m, text, items) ==
    [balance |-> formatUnits(n), withdrawing |-> formatUnits(m), text |-> text, items |-> items]

LEMMA OneText ==
    ASSUME NEW m \in Nat, NEW n \in Nat, NEW k \in Nat
    PROVE  extractPendingGatewayDeposits(Saying(n, m, formatUnits(k), <<>>)) = k
    <1>1. formatUnits(k) # NoText /\ parseGatewayAmount(formatUnits(k)) = k
        BY UnitsRead, GatewayReads
    <1> QED
        BY <1>1 DEF extractPendingGatewayDeposits, Saying

LEMMA TwoItems ==
    ASSUME NEW m \in Nat, NEW n \in Nat, NEW items,
           items = <<[amount |-> formatUnits(m), balance |-> NoText],
                     [amount |-> NoText, balance |-> formatUnits(n)]>>
    PROVE  extractPendingGatewayDeposits(Saying(n, m, NoText, items)) = m + n
    <1>1. PICK a, b : /\ a = [amount |-> formatUnits(m), balance |-> NoText]
                      /\ b = [amount |-> NoText, balance |-> formatUnits(n)]
        OBVIOUS
    <1>2. ItemAmount(a) = m
        BY <1>1, UnitsRead, GatewayReads DEF ItemAmount
    <1>3. ItemAmount(b) = n
        BY <1>1, UnitsRead, GatewayReads DEF ItemAmount
    <1>4. DOMAIN items = 1..2 /\ items[1] = a /\ items[2] = b
        BY <1>1
    <1>5. PICK s : s = [i \in DOMAIN items |-> ItemAmount(items[i])]
        OBVIOUS
    <1>6. s[1] = m /\ s[2] = n
        BY <1>2, <1>3, <1>4, <1>5
    <1>7. s \in [1..2 -> Nat]
        BY <1>4, <1>5, <1>6
    <1>8. s \in Seq(Nat) /\ Len(s) = 2
        BY <1>7, FewAre
    <1>9. TotalOf(s) = m + n
        BY <1>6, <1>8, TotalOfFew
    <1> QED
        BY <1>5, <1>9 DEF extractPendingGatewayDeposits, Saying

Listing(k, status, depositor) ==
    [status |-> status, domain |-> "ours", depositor |-> depositor, amount |-> formatUnits(k)]

Counting(d) ==
    IF /\ d.status \in {"pending", "unsaid"} /\ d.domain \in {"ours", "unsaid"}
       /\ d.depositor \in {"ours", "unsaid"} /\ d.amount # NoText
    THEN parseGatewayDepositAmount(d.amount) ELSE 0

LEMMA FourDeposits ==
    ASSUME NEW m \in Nat, NEW n \in Nat, NEW k \in Nat, NEW deposits,
           m % Unit # 0, n % Unit # 0,
           deposits = <<Listing(m, "unsaid", "ours"), Listing(k, "final", "ours"),
                        Listing(n, "pending", "unsaid"), Listing(k, "pending", "theirs")>>
    PROVE  extractGatewayPendingDeposits(deposits) = m + n
    <1>1. Counting(Listing(m, "unsaid", "ours")) = m
        BY UnitsRead, DepositReads DEF Counting, Listing
    <1>2. Counting(Listing(n, "pending", "unsaid")) = n
        BY UnitsRead, DepositReads DEF Counting, Listing
    <1>3. Counting(Listing(k, "final", "ours")) = 0 /\ Counting(Listing(k, "pending", "theirs")) = 0
        BY DEF Counting, Listing
    <1>4. PICK s : s = [i \in DOMAIN deposits |-> Counting(deposits[i])]
        OBVIOUS
    <1>5. /\ DOMAIN deposits = 1..4 /\ deposits[1] = Listing(m, "unsaid", "ours")
          /\ deposits[2] = Listing(k, "final", "ours")
          /\ deposits[3] = Listing(n, "pending", "unsaid")
          /\ deposits[4] = Listing(k, "pending", "theirs")
        OBVIOUS
    <1>6. s[1] = m /\ s[2] = 0 /\ s[3] = n /\ s[4] = 0
        BY <1>1, <1>2, <1>3, <1>4, <1>5
    <1>7. s \in [1..4 -> Nat]
        BY <1>4, <1>5, <1>6
    <1>8. s \in Seq(Nat) /\ Len(s) = 4
        BY <1>7, FewAre
    <1>9. TotalOf(s) = m + n
        BY <1>6, <1>8, TotalOfFew
    <1> QED
        BY <1>4, <1>9 DEF extractGatewayPendingDeposits, Counting

(* Funds that are pending are read as such however the Gateway says so,    *)
(* and never counted twice (circle-wallet-service.ts:1260, :1292).         *)
THEOREM FundsAreRead == GatewayReadsFunds
    <1> SUFFICES ASSUME NEW m \in 1..(Unit - 1), NEW n \in 1..(Unit - 1)
                 PROVE
        LET Said(text, items) ==
                [balance |-> formatUnits(n), withdrawing |-> formatUnits(m),
                 text |-> text, items |-> items]
            Deposit(k, status, depositor) ==
                [status |-> status, domain |-> "ours", depositor |-> depositor,
                 amount |-> formatUnits(k)]
            Agrees(said, deposits) ==
                getGatewayBalance(said, deposits) =
                    [available |-> n, total |-> m + n, pending |-> m + n]
        IN  /\ Agrees(Said(formatUnits(m + n), <<>>), <<>>)
            /\ Agrees(Said(NoText, <<[amount |-> formatUnits(m), balance |-> NoText],
                                     [amount |-> NoText, balance |-> formatUnits(n)]>>), <<>>)
            /\ \A k \in {m, n} :
                Agrees(Said(formatUnits(k), <<>>),
                       <<Deposit(m, "unsaid", "ours"), Deposit(k, "final", "ours"),
                         Deposit(n, "pending", "unsaid"), Deposit(k, "pending", "theirs")>>)
        BY DEF GatewayReadsFunds
    <1>1. /\ m \in Nat /\ m > 0 /\ m < Unit /\ n \in Nat /\ n > 0 /\ n < Unit
          /\ m + n \in Nat /\ m + n > 0
        BY UnitIs
    <1>2. m % Unit # 0 /\ n % Unit # 0
        BY <1>1, DivSmall, UnitIs
    <1>3. ASSUME NEW text, NEW items,
                 extractPendingGatewayDeposits(Saying(n, m, text, items)) = m + n
          PROVE  getGatewayBalance(Saying(n, m, text, items), <<>>) =
                    [available |-> n, total |-> m + n, pending |-> m + n]
        <2>1. /\ Saying(n, m, text, items).balance = formatUnits(n)
              /\ Saying(n, m, text, items).withdrawing = formatUnits(m)
            BY DEF Saying
        <2> QED
            BY <1>1, <1>3, <2>1, NoDeposits, BalanceIs
    <1>4. getGatewayBalance(Saying(n, m, formatUnits(m + n), <<>>), <<>>) =
             [available |-> n, total |-> m + n, pending |-> m + n]
        BY <1>1, <1>3, OneText
    <1>5. PICK items : items = <<[amount |-> formatUnits(m), balance |-> NoText],
                                 [amount |-> NoText, balance |-> formatUnits(n)]>>
        OBVIOUS
    <1>6. getGatewayBalance(Saying(n, m, NoText, items), <<>>) =
             [available |-> n, total |-> m + n, pending |-> m + n]
        BY <1>1, <1>3, <1>5, TwoItems
    <1>7. ASSUME NEW k \in {m, n}
          PROVE  getGatewayBalance(Saying(n, m, formatUnits(k), <<>>),
                     <<Listing(m, "unsaid", "ours"), Listing(k, "final", "ours"),
                       Listing(n, "pending", "unsaid"), Listing(k, "pending", "theirs")>>) =
                    [available |-> n, total |-> m + n, pending |-> m + n]
        <2>1. PICK said, deposits :
                 /\ said = Saying(n, m, formatUnits(k), <<>>)
                 /\ deposits = <<Listing(m, "unsaid", "ours"), Listing(k, "final", "ours"),
                                 Listing(n, "pending", "unsaid"), Listing(k, "pending", "theirs")>>
            OBVIOUS
        <2>2. k \in Nat
            BY <1>1
        <2>3. extractGatewayPendingDeposits(deposits) = m + n
            BY <1>1, <1>2, <2>1, <2>2, FourDeposits
        <2>4. said.balance = formatUnits(n) /\ said.withdrawing = formatUnits(m)
            BY <2>1 DEF Saying
        <2>5. PICK own : own = extractPendingGatewayDeposits(said)
            OBVIOUS
        <2>6. getGatewayBalance(said, deposits) =
                 [available |-> n, total |-> m + n, pending |-> IF m + n > 0 THEN m + n ELSE own]
            BY <1>1, <2>3, <2>4, <2>5, BalanceIs
        <2> QED
            BY <1>1, <2>1, <2>6
    <1> QED
        BY <1>4, <1>5, <1>6, <1>7 DEF Saying, Listing

(* The answer to a withdrawal of a unit or more can be written.            *)
LEMMA UnitAnswers ==
    ASSUME NEW n \in Nat, n >= Unit
    PROVE  /\ usdcToAtomic(atomicUsdcToDecimal(n)) = n
           /\ Answers(n)
    <1>1. n > 0 /\ n > Fee
        BY UnitIs, AmountsAssumption
    <1> QED
        BY <1>1, CircleReads, AboveFeeAnswers

-----------------------------------------------------------------------------
(* Withdrawals: the form lets none through that is below a unit, and no    *)
(* step changes the amount of one.                                         *)
AboveMinimum == \A c \in calls : c.amount \in Nat /\ c.amount >= Unit

LEMMA UnheardAbove ==
    ASSUME NEW t, AboveMinimum, calls' = Unheard(t), calls \subseteq Withdrawal
    PROVE  AboveMinimum'
    <1>1. ASSUME NEW c \in calls PROVE [c EXCEPT !.heard = FALSE].amount = c.amount
        BY DEF Withdrawal
    <1>2. ASSUME NEW d \in calls' PROVE \E c \in calls : d.amount = c.amount
        BY <1>1 DEF Unheard
    <1> QED
        BY <1>2 DEF AboveMinimum

LEMMA AnsweredAbove ==
    ASSUME NEW c \in calls, NEW a, AboveMinimum, calls \subseteq Withdrawal,
           calls' = (calls \ {c}) \cup {[c EXCEPT !.answer = a]}
    PROVE  AboveMinimum'
    <1>1. [c EXCEPT !.answer = a].amount = c.amount
        BY DEF Withdrawal
    <1> QED
        BY <1>1 DEF AboveMinimum

LEMMA ConfirmAbove ==
    ASSUME NEW t \in Tab, FundingInv, AboveMinimum, handleConfirm(t)
    PROVE  AboveMinimum'
    <1>1. page[t].form.balance \in Nat
        BY Bounds DEF FundingInv, TypeOK, Page, Form, Money
    <1>2. PICK id \in Picks(t), n \in Enterable(t) :
              /\ canConfirm(t, id, n)
              /\ calls' = calls \cup {[tab |-> t, n |-> works', heard |-> TRUE, answer |-> None,
                                       amount |-> n, to |-> address[id]]}
        BY DEF handleConfirm
    <1>3. n \in Nat /\ n >= Unit
        BY <1>1, <1>2 DEF canConfirm
    <1> QED
        BY <1>2, <1>3 DEF AboveMinimum

LEMMA StepAbove ==
    ASSUME FundingInv, AboveMinimum, [Next]_vars
    PROVE  AboveMinimum'
    <1>1. calls \subseteq Withdrawal
        BY DEF FundingInv, TypeOK
    <1>2. ASSUME calls' = calls PROVE AboveMinimum'
        BY <1>2 DEF AboveMinimum
    <1>3. ASSUME NEW t \in Tab, ViewStep(t) PROVE AboveMinimum'
        <2>1. calls' = Unheard(t) \/ calls' = calls
            BY <1>3 DEF ViewStep, ShowView, Refresh, Reload, payVars
        <2> QED
            BY <1>1, <1>2, <2>1, UnheardAbove
    <1>4. ASSUME NEW t \in Tab, BookStep(t) PROVE AboveMinimum'
        BY <1>2, <1>4 DEF BookStep, removeWallet, setDefaultWallet, updateWalletLabel, resetAll, payVars
    <1>5. ASSUME NEW t \in Tab, CaptureStep(t) PROVE AboveMinimum'
        BY <1>2, <1>5 DEF CaptureStep, OpenModal, CloseModal, handleBack, handlePasteContinue,
                          handleSave, Choose, ModalStep, payVars
    <1>6. ASSUME NEW t \in Tab, ScannerStep(t) PROVE AboveMinimum'
        BY <1>2, <1>6 DEF ScannerStep, CameraGranted, CameraRefused, CameraUnwanted, Plays,
                          DecodeFrame, PickFile, handleRetry, payVars
    <1>7. ASSUME NEW t \in Tab, FormStep(t) PROVE AboveMinimum'
        BY <1>2, <1>7, ConfirmAbove DEF FormStep, Another, payVars
    <1>8. ASSUME NEW r \in reads, handleUpload(r) PROVE AboveMinimum'
        BY <1>2, <1>8 DEF handleUpload, payVars
    <1>9. ASSUME NEW c \in calls, LedgerMoves(c) \/ LedgerRefuses(c) PROVE AboveMinimum'
        <2>1. \E a : calls' = (calls \ {c}) \cup {[c EXCEPT !.answer = a]}
            BY <1>9 DEF LedgerMoves, LedgerRefuses
        <2> QED
            BY <1>1, <2>1, AnsweredAbove
    <1>10. ASSUME NEW c \in calls, Answer(c) PROVE AboveMinimum'
        BY <1>10 DEF Answer, AboveMinimum
    <1>11. CASE UNCHANGED vars
        BY <1>2, <1>11 DEF vars, payVars
    <1> QED
        BY <1>3, <1>4, <1>5, <1>6, <1>7, <1>8, <1>9, <1>10, <1>11 DEF Next

(* Amounts survive every conversion on their way, and the answer to a      *)
(* withdrawal that the form let through can be written after the money has *)
(* moved (agent-wallet-service.ts:906).                                    *)
THEOREM AmountsAlwaysSurvive == Spec => []AmountsSurvive
    <1>1. Init => AboveMinimum
        BY DEF Init, AboveMinimum
    <1>2. FundingInv /\ AboveMinimum /\ [Next]_vars => AboveMinimum'
        BY StepAbove
    <1>3. AboveMinimum => AmountsSurvive
        BY ConversionsAreExact, FeesAreAnswered, FundsAreRead, UnitAnswers DEF AboveMinimum, AmountsSurvive
    <1> QED
        BY <1>1, <1>2, <1>3, FundingInvariant, PTL DEF Spec
=============================================================================
