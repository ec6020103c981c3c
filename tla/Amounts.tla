------------------------------ MODULE Amounts ------------------------------
(* Amounts of USDC and ETH as the dashboard, the agent wallet service, its *)
(* state store and the Circle service write and read them: integers of the *)
(* smallest unit, and decimal texts.  A text is its whole part, the digits *)
(* after its point, and whether separators group the digits before it;     *)
(* ill-formed ones are NoText.                                             *)
EXTENDS Naturals, Sequences

CONSTANTS
    Base,           \* of the digits (10)
    Decimals,       \* of USDC (6); ETH has 18, and is written the same way
    Fee,            \* the fee a withdrawal estimates, in atomic units (3000)
    NoText

Power[k \in Nat] == IF k = 0 THEN 1 ELSE Power[k - 1] * Base
Unit == Power[Decimals]
Text(whole, frac) == [whole |-> whole, frac |-> frac, grouped |-> FALSE]

(* The fee of a withdrawal is less than what the form lets through.        *)
ASSUME AmountsAssumption ==
    /\ Base \in Nat \ {0, 1} /\ Decimals \in Nat \ {0, 1}
    /\ Fee \in 1..(Unit - 1)
    /\ NoText \notin [whole : Nat, frac : Seq(Nat), grouped : BOOLEAN]

(* s read from the left, each place worth base times the next.             *)
Read(s, base) ==
    LET upTo[i \in 0..Len(s)] == IF i = 0 THEN 0 ELSE upTo[i - 1] * base + s[i]
    IN  upTo[Len(s)]
TotalOf(s) == Read(s, 1)

(* The number a string of digits stands for, and n's string of d digits.   *)
Number(digits) == Read(digits, Base)
padStart(n, d) == [i \in 1..d |-> (n \div Power[d - i]) % Base]
padEnd(digits, d) == digits \o [i \in 1..(d - Len(digits)) |-> 0]
ZerosFrom(digits, k) == \A i \in (k + 1)..Len(digits) : digits[i] = 0
Trimmed(digits) ==
    SubSeq(digits, 1, CHOOSE k \in 0..Len(digits) :
                          ZerosFrom(digits, k) /\ (k > 0 => digits[k] # 0))

-----------------------------------------------------------------------------
(* Writing.                                                                *)

(* formatUnits of the viem library.                                        *)
formatUnits(n) == Text(n \div Unit, Trimmed(padStart(n % Unit, Decimals)))

(* Only positive amounts can be written for Circle.                        *)
atomicUsdcToDecimal(n) == IF n = 0 THEN NoText ELSE formatUnits(n)

(* The trailing zeros are cut once more: of a whole number, its own.       *)
WithoutZeros(n) ==
    IF n = 0 THEN 0
    ELSE CHOOSE m \in 1..n : m % Base # 0 /\ \E k \in 0..n : n = m * Power[k]
formatEthAmount(n) ==
    LET text == formatUnits(n)
    IN  IF text.frac = <<>> THEN Text(WithoutZeros(text.whole), <<>>) ELSE text

(* toFixed(2) of a form's MAX: the multiples of a cent nearest to n; of    *)
(* two, the one the double that stands for n happens to lie closer to.     *)
Cent == Power[Decimals - 2]
MaxOffers(n) ==
    {m \in {(n \div Cent) * Cent, (n \div Cent + 1) * Cent} :
        2 * (IF m > n THEN m - n ELSE n - m) <= Cent}

(* What the dashboard shows: cents, or every digit, and in English style a *)
(* separator from thousands on.  Up to 2^32 USDC the double that stands    *)
(* for n is within half a digit of it, and no multiple of a cent within    *)
(* the tolerance of another number.                                        *)
Thousand == Power[3] * Unit
formatAmount(n) ==
    [Text(n \div Unit, IF n % Cent = 0 THEN padStart((n % Unit) \div Cent, 2)
                                       ELSE padStart(n % Unit, Decimals))
        EXCEPT !.grouped = n >= Thousand]

(* Of an entry: what it moved, or else what it says, or what was asked for. *)
displayAmountAtomic(moved, says, asked) ==
    IF moved > 0 THEN moved ELSE IF says > 0 THEN says ELSE asked

-----------------------------------------------------------------------------
(* Reading.                                                                *)

(* The form's expression takes digits and one point.                       *)
usdcToAtomic(text) ==
    IF text = NoText \/ text.grouped \/ Len(text.frac) > Decimals THEN 0
    ELSE text.whole * Unit + Number(padEnd(text.frac, Decimals))

(* Seeded fault: a fraction is not padded.                                 *)
parseEthToWeiUnpadded(text) == text.whole * Unit + Number(text.frac)
(* Digits beyond the last decimal are dropped.                             *)
parseEthToWei(text) ==
    text.whole * Unit
        + Number(SubSeq(padEnd(text.frac, Decimals + Len(text.frac)), 1, Decimals))

(* parseUnits of the viem library rounds them.                             *)
parseUnits(text) ==
    IF Len(text.frac) <= Decimals THEN usdcToAtomic(text)
    ELSE parseEthToWei(text)
            + (IF 2 * text.frac[Decimals + 1] >= Base THEN 1 ELSE 0)

(* A balance that cannot be read is none.                                  *)
parseEthBalanceToWei(text) == IF text = NoText THEN 0 ELSE parseUnits(text)

(* An integer is whole USDC in a balance, but atomic units in a deposit;   *)
(* an amount that cannot be read fails the request.                        *)
parseGatewayAmount(text) == parseUnits(text)
parseGatewayDepositAmount(text) ==
    IF text.frac = <<>> THEN text.whole ELSE parseGatewayAmount(text)

-----------------------------------------------------------------------------
(* What the Gateway says of an account.  Pending deposits come as a text,  *)
(* a list of items or one item, under one of several names; an item has    *)
(* its amount, or else its balance.                                        *)
ItemAmount(item) ==
    IF item.amount # NoText THEN parseGatewayAmount(item.amount)
    ELSE IF item.balance # NoText THEN parseGatewayAmount(item.balance)
    ELSE 0

extractPendingGatewayDeposits(said) ==
    IF said.text # NoText THEN parseGatewayAmount(said.text)
    ELSE TotalOf([i \in DOMAIN said.items |-> ItemAmount(said.items[i])])

(* Of the deposits listed, those count that may be pending, on the domain  *)
(* and the depositor's; what is not said of a deposit is no objection.     *)
extractGatewayPendingDeposits(deposits) ==
    LET Counts(d) ==
            /\ d.status \in {"pending", "unsaid"}
            /\ d.domain \in {"ours", "unsaid"}
            /\ d.depositor \in {"ours", "unsaid"}
            /\ d.amount # NoText
    IN  TotalOf([i \in DOMAIN deposits |->
                    IF Counts(deposits[i]) THEN parseGatewayDepositAmount(deposits[i].amount)
                                           ELSE 0])

(* What else a balance says, withdrawable and the pending batch, is read   *)
(* in the same way, shown, and used by nobody.                             *)
formatGatewayBalance(available, withdrawing, pending) ==
    [available |-> available, total |-> available + withdrawing, pending |-> pending]

extractGatewayBalance(said) ==
    formatGatewayBalance(parseGatewayAmount(said.balance),
                         IF said.withdrawing = NoText THEN 0
                                                      ELSE parseGatewayAmount(said.withdrawing),
                         extractPendingGatewayDeposits(said))

(* The list is believed before the balance's own figure, if it has any.    *)
getGatewayBalance(said, deposits) ==
    LET listed == extractGatewayPendingDeposits(deposits)
    IN  [extractGatewayBalance(said) EXCEPT !.pending = IF listed > 0 THEN listed ELSE @]

(* A withdrawal reads a positive amount, moves it, and then writes its     *)
(* answer: the net amount must be one that can be written.                 *)
netAmountAtomic(n) == IF n > Fee THEN n - Fee ELSE 0
parsePositiveBigInt(n) == n > 0
Answers(n) ==
    parsePositiveBigInt(n) /\ atomicUsdcToDecimal(netAmountAtomic(n)) # NoText

-----------------------------------------------------------------------------
(* What is written is read as the amount it was written for: an amount of  *)
(* USDC sent to Circle, or said by the Gateway to be a balance; a top-up's *)
(* amount of ETH, as the state store reads it back for the daily limits,   *)
(* below Base whole units (from there on formatEthAmount may cut zeros of  *)
(* the whole number).  What the dashboard shows can be typed into its form *)
(* below a thousand units; from there on the form reads nothing.  Of a     *)
(* deposit, whole units are taken for as many atomic ones (circle-wallet-  *)
(* service.ts:1331).                                                       *)
ConversionsExact ==
    \A n \in 1..(2 * Thousand) :
        /\ usdcToAtomic(atomicUsdcToDecimal(n)) = n
        /\ usdcToAtomic(formatAmount(n)) = IF n < Thousand THEN n ELSE 0
        /\ parseGatewayAmount(formatUnits(n)) = n
        /\ parseEthBalanceToWei(formatUnits(n)) = n
        /\ parseGatewayDepositAmount(formatUnits(n)) =
              IF n % Unit = 0 THEN n \div Unit ELSE n
        /\ n < Base * Unit => parseEthToWei(formatEthAmount(n)) = n

(* A withdrawal can be answered exactly if it is of more than its fee; the *)
(* money has moved by then (agent-wallet-service.ts:906).                  *)
AnsweredAboveFee == \A n \in 0..(2 * Unit) : Answers(n) <=> n > Fee

(* However the Gateway says that m and n are pending, as one text, as two  *)
(* items, or as two deposits among others', they are pending and not part  *)
(* of the total.                                                           *)
GatewayReadsFunds ==
    \A m, n \in 1..(Unit - 1) :
        LET Said(text, items) ==
                [balance |-> formatUnits(n), withdrawing |-> formatUnits(m),
                 text |-> text, items |-> items]
            Deposit(k, status, depositor) ==
                [status |-> status, domain |-> "ours", depositor |-> depositor,
                 amount |-> formatUnits(k)]
            Agrees(said, deposits) ==
                getGatewayBalance(said, deposits) =
                    [available |-> n, total |-> m + n, pending |-> m + n]
        IN  /\ Agrees(Said(formatUnits(m + n), <<>>), <<>>)
            /\ Agrees(Said(NoText, <<[amount |-> formatUnits(m), balance |-> NoText],
                                     [amount |-> NoText, balance |-> formatUnits(n)]>>), <<>>)
            /\ \A k \in {m, n} :
                Agrees(Said(formatUnits(k), <<>>),
                       <<Deposit(m, "unsaid", "ours"), Deposit(k, "final", "ours"),
                         Deposit(n, "pending", "unsaid"), Deposit(k, "pending", "theirs")>>)
=============================================================================
