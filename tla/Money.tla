------------------------------- MODULE Money -------------------------------
(***************************************************************************)
(* What a bill and the checks it is split into come to, in paise:          *)
(* computeBill, allocatePaise and splitLinesEqually of                     *)
(* packages/shared/src/billing.ts as billFor and split of the API use      *)
(* them.  Quotients are exact where the code divides floating-point        *)
(* numbers.  The rows and locks of a split are in Bills.                   *)
(***************************************************************************)
EXTENDS Naturals, FiniteSets, Sequences, SequencesExt, FiniteSetsExt

CONSTANTS
    LineRates,      \* tax rate of each line, in hundredths of a percent
    Prices,         \* unit prices, in paise
    MaxUnits,       \* largest quantity of a line
    MaxParts,       \* largest number of checks
    Discounts,      \* discounts, in paise
    ServiceRules    \* service charges: percent (in hundredths of one) and whether they are taxed

ASSUME MoneyAssumption ==
    /\ LineRates \in Seq(Nat) /\ MaxUnits \in Nat /\ MaxParts \in Nat
    /\ Prices \subseteq Nat /\ Prices # {} /\ Discounts \subseteq Nat /\ 0 \in Discounts
    /\ ServiceRules \subseteq [percent: Nat, taxable: BOOLEAN] /\ ServiceRules # {}

VARIABLE ticket \* the bill on the till: lines, rules, and its checks with their discounts

LinesOf == DOMAIN LineRates
TotalOf(paise) == FoldLeft(+, 0, paise)
PriceLists == [LinesOf -> Prices]
UnitLists == [LinesOf -> 0 .. MaxUnits]

MoneyTypeOK ==
    /\ ticket.price \in PriceLists
    /\ ticket.units \in UnitLists
    /\ ticket.service \in ServiceRules /\ ticket.how \in {"whole", "EQUAL", "ITEMS"}
    /\ Len(ticket.checks) <= MaxParts /\ Len(ticket.cuts) = Len(ticket.checks)
    /\ ticket.discount \in Discounts

\* Math.round of a quotient
RoundedQuotient(a, b) == (2 * a + b) \div (2 * b)

\* a hundred percent: the columns of rates keep two decimals
Hundred == 10000

\* computeBill before round-off, of the paise on each line
ComputeBill(paise, discount, service) ==
    LET subtotal == TotalOf(paise)
        taxable == subtotal - Min({discount, subtotal})
        charge == RoundedQuotient(taxable * service.percent, Hundred)
        rawTax == TotalOf([l \in LinesOf |-> paise[l] * LineRates[l]])
        taxBase == taxable + (IF service.taxable THEN charge ELSE 0)
        tax == IF subtotal > 0 THEN RoundedQuotient(rawTax * taxBase, Hundred * subtotal) ELSE 0
    IN  taxable + charge + tax

\* and after it: the payable total in whole rupees
RoundOff(paise) == RoundedQuotient(paise, 100) * 100

----------------------------------------------------------------------------
\* variant: every line hands its leftover paise to the first checks
OffsetNever(paise, parts, l) == 0

\* how far the lines before l have rotated the leftover paise
Offset(paise, parts, l) == TotalOf([k \in 1 .. l - 1 |-> paise[k] % parts]) % parts

\* share of check c in line l
SplitLinesEqually(paise, parts) ==
    [c \in 1 .. parts |-> [l \in DOMAIN paise |->
        LET turn == (c - 1 + parts - Offset(paise, parts, l)) % parts
        IN  paise[l] \div parts + (IF turn < paise[l] % parts THEN 1 ELSE 0)]]

\* largest remainder, ties to the earlier index, all-zero weights evenly
AllocatePaise(total, weights) ==
    LET n == Len(weights)
        w == IF TotalOf(weights) > 0 THEN weights ELSE [i \in 1 .. n |-> 1]
        sum == TotalOf(w)
        floor == [i \in 1 .. n |-> (total * w[i]) \div sum]
        frac(i) == (total * w[i]) % sum
        rest == total - TotalOf(floor)
        rank(i) == Cardinality({j \in 1 .. n : frac(j) > frac(i) \/ (frac(j) = frac(i) /\ j < i)})
    IN  [i \in 1 .. n |-> floor[i] + (rest + n - 1 - rank(i)) \div n]

----------------------------------------------------------------------------
LinePaise == [l \in LinesOf |-> ticket.price[l] * ticket.units[l]]

Rung(price, units, service) ==
    [price |-> price, units |-> units, service |-> service, how |-> "whole",
     discount |-> 0, checks |-> <<>>, cuts |-> <<>>]

MoneyInit == ticket = Rung([l \in LinesOf |-> Min(Prices)], [l \in LinesOf |-> 0], CHOOSE s \in ServiceRules : TRUE)

RingUp(price, units, service) ==
    /\ TotalOf(ticket.units) = 0 /\ \A l \in LinesOf : units[l] > 0
    /\ ticket' = Rung(price, units, service)

\* split: the discount is cut to the subtotal and shared out by the checks' subtotals
SplitInto(how, checks, discount) ==
    LET subtotals == [c \in DOMAIN checks |-> TotalOf(checks[c])]
    IN  ticket' = [ticket EXCEPT !.how = how, !.checks = checks, !.discount = discount,
                       !.cuts = AllocatePaise(Min({discount, TotalOf(subtotals)}), subtotals)]

Splittable == ticket.how = "whole" /\ TotalOf(ticket.units) > 0

SplitEqual(parts, discount) ==
    /\ Splittable
    /\ SplitInto("EQUAL", SplitLinesEqually(LinePaise, parts), discount)

\* every unit of a line is assigned to a check
Assignments(parts) ==
    {a \in [1 .. parts -> UnitLists] :
        \A l \in LinesOf : TotalOf([c \in 1 .. parts |-> a[c][l]]) = ticket.units[l]}

SplitItems(parts, discount) ==
    /\ Splittable
    /\ \E a \in Assignments(parts) :
          /\ \A c \in 1 .. parts : TotalOf(a[c]) > 0
          /\ SplitInto("ITEMS", [c \in 1 .. parts |-> [l \in LinesOf |-> ticket.price[l] * a[c][l]]], discount)

MoneyNext ==
    \/ \E price \in PriceLists, units \in UnitLists, service \in ServiceRules : RingUp(price, units, service)
    \/ \E parts \in 2 .. MaxParts, discount \in Discounts :
          SplitEqual(parts, discount) \/ SplitItems(parts, discount)

MoneySpec == MoneyInit /\ [][MoneyNext]_ticket

----------------------------------------------------------------------------
Checks == DOMAIN ticket.checks
SubtotalOf(c) == TotalOf(ticket.checks[c])

\* The checks of a split bill add up to it and its discount to theirs, to the paisa
\* ("the parts ... always sum back to the total exactly"), and no check is given
\* more discount than it has food, which computeBill would drop.
SplitExact ==
    ticket.how # "whole" =>
        /\ TotalOf([c \in Checks |-> SubtotalOf(c)]) = TotalOf(LinePaise)
        /\ TotalOf(ticket.cuts) = Min({ticket.discount, TotalOf(LinePaise)})
        /\ \A c \in Checks : ticket.cuts[c] <= SubtotalOf(c)

\* "The check subtotals never differ by more than one paisa", however the leftovers
\* of several lines fall.
SplitEven ==
    ticket.how = "EQUAL" => \A c, d \in Checks : SubtotalOf(c) <= SubtotalOf(d) + 1

CheckTotal(c) == ComputeBill(ticket.checks[c], ticket.cuts[c], ticket.service)

\* the highest tax rate on the bill, and how far the roundings of n checks can add up: half
\* a paisa of charge and of tax on each of them and on the bill, the tax on those halves,
\* and the tax on the paisa by which a check's part of the discount is rounded
SteepestRate == Max({0} \cup {LineRates[l] : l \in LinesOf})
HalfHundred == Hundred \div 2
Roundings(n) ==
    n + 1 + (SteepestRate * (n * (Hundred + HalfHundred + ticket.service.percent) + HalfHundred)) \div (Hundred * Hundred)

Apart(a, b, slack) == a <= b + slack /\ b <= a + slack

\* What the guests of a split bill pay together differs from the bill only by the
\* roundings, and by half a rupee for each total rounded off.
SplitPaysTheBill ==
    ticket.how # "whole" =>
        LET n == Len(ticket.checks)
            whole == ComputeBill(LinePaise, ticket.discount, ticket.service)
        IN  /\ Apart(TotalOf([c \in Checks |-> CheckTotal(c)]), whole, Roundings(n))
            /\ Apart(TotalOf([c \in Checks |-> RoundOff(CheckTotal(c))]), RoundOff(whole),
                     Roundings(n) + 50 * (n + 1))

\* Splitting a bill loses and invents no money.
MoneySound == SplitExact /\ SplitEven /\ SplitPaysTheBill
============================================================================
