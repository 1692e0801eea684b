----------------------------- MODULE Calculator -----------------------------
(***************************************************************************)
(* The cost calculator (calculator.rs): what resources cost per month, what*)
(* discount a balance earns, and what a contract, or a rented node with all*)
(* that runs on it, owes by now.                                           *)
(*                                                                         *)
(* Amounts are exact integers on a common scale where the code has f64.    *)
(***************************************************************************)
EXTENDS Integers, Sequences

CONSTANTS
    Bytes,              \* byte counts of memory and disks
    BytesPerGib,        \* 2^30
    Cores,              \* core counts
    Balances,           \* balances, in the unit of prices
    CuPrice, SuPrice, IpPrice, DedicatedFee,
    DedicatedDiscount,  \* per cent
    Owners,             \* contracts whose overdue amount is asked for
    KindOf,             \* their kind
    Listed,             \* what get_node_contracts may list of the rented node
    Overdrafts, Unbilled, PeriodCosts,  \* what the chain may have on a contract
    MaxBills,           \* bound: how often the chain bills or deletes
    MaxDepth            \* bound: how deep a thread can call itself

(* A substrate may list the rent contract among its node's contracts:      *)
(* MockSubstrate::add_contract puts it there.                              *)
ASSUME CalculatorAssumption ==
    /\ Bytes \subseteq Nat /\ Cores \subseteq Nat /\ Balances \subseteq Nat
    /\ BytesPerGib \in Nat \ {0}
    /\ {CuPrice, SuPrice, IpPrice, DedicatedFee, MaxBills, MaxDepth} \subseteq Nat
    /\ DedicatedDiscount \in 0 .. 100
    /\ KindOf \in [Owners -> {"node", "name", "rent"}]
    /\ \A L \in Listed : L \subseteq {k \in Owners : KindOf[k] # "name"}
    /\ Overdrafts \subseteq Nat /\ Unbilled \subseteq Nat /\ PeriodCosts \subseteq Nat
    /\ 0 \in Unbilled

-----------------------------------------------------------------------------
(* Prices.                                                                 *)

(* What a contract uses, and the node it is on.                            *)
Usages == [cru : Cores, mru : Bytes, hru : Bytes, sru : Bytes, ips : 0 .. 2,
           certified : BOOLEAN, rented : BOOLEAN]

Gib(b) == b \div BytesPerGib

Less(a, b) == IF a <= b THEN a ELSE b
More(a, b) == IF a <= b THEN b ELSE a

(* calculate_cu, in eighths; calculate_su, in 2400ths.                     *)
Cu(cru, mru) ==
    Less(Less(More(2 * mru, 4 * cru), More(mru, 8 * cru)), More(4 * mru, 2 * cru))
Su(hru, sru) == 2 * hru + 12 * sru

Certified(u, cost) == IF u.certified THEN 5 * cost ELSE 4 * cost

(* calculate_cost, in 9600ths: however many public IPs, one is counted.    *)
Cost(u, ip) ==
    Certified(u, 300 * Cu(u.cru, Gib(u.mru)) * CuPrice
                 + Su(Gib(u.hru), Gib(u.sru)) * SuPrice
                 + (IF ip THEN 2400 * IpPrice ELSE 0))

(* Mutant of Discount: the comparison is turned round.                     *)
DiscountSwapped(balance, price) ==
    IF balance < 18 * price THEN 60
    ELSE IF balance < 6 * price THEN 40
    ELSE IF balance < 3 * price THEN 30
    ELSE IF 2 * balance < 3 * price THEN 20
    ELSE 0

(* get_applicable_discounts: the last tier whose months of payment the     *)
(* balance exceeds, in per cent.                                           *)
Discount(balance, price) ==
    IF balance > 18 * price THEN 60
    ELSE IF balance > 6 * price THEN 40
    ELSE IF balance > 3 * price THEN 30
    ELSE IF 2 * balance > 3 * price THEN 20
    ELSE 0

(* A price after its discount, in hundredths.                              *)
After(balance, price) == price * (100 - Discount(balance, price))

(* calculate_prices_after_discount: the shared and the dedicated price of  *)
(* one cost, a hundred times finer.  No identity is a balance of 0.        *)
SharedPrice(balance, cost) == After(100 * balance, 100 * cost)
DedicatedPrice(balance, cost) ==
    After(100 * balance, cost * (100 - DedicatedDiscount))

(* calculate_contract_cost of a node contract and of a rent contract.  On  *)
(* a rented node only the public IPs are paid for, if there are any.       *)
NodeContractCost(u, balance) ==
    SharedPrice(balance,
        IF u.rented /\ u.ips > 0
        THEN Certified(u, 2400 * IpPrice * u.ips)
        ELSE Cost(u, u.ips > 0))

RentContractCost(u, balance) ==
    DedicatedPrice(balance, Cost(u, FALSE)) + DedicatedFee

(* u uses no more than v, of a node of the same kind.                      *)
NoMore(u, v) ==
    /\ \A f \in {"cru", "mru", "hru", "sru", "ips"} : u[f] <= v[f]
    /\ u.certified = v.certified /\ u.rented = v.rented

-----------------------------------------------------------------------------
(* calculate_contract_overdue.  Amounts are quarters of a TFT.             *)

VARIABLES
    little, lots, poor, rich,   \* two usages and two balances to compare
    account,    \* contract -> what the chain has on it
    bills,      \* how often the chain changed
    nodeContracts,  \* what get_node_contracts lists
    calls,      \* the calls of calculate_contract_overdue, innermost last
    overdue,    \* the answer, in TFT: -1 none yet, -2 an error
    answered    \* history: the outermost call as it ended

overdueVars == <<account, bills, nodeContracts, calls, overdue, answered>>
calcVars == <<little, lots, poor, rich, overdueVars>>

Accounts == [state : {"live", "deleted"}, overdraft : Overdrafts, unbilled : Unbilled,
             ips : BOOLEAN, period : PeriodCosts]

(* Mutant of Rounded: an `as i64` that cuts off.                           *)
RoundedDown(q) == q \div 4

(* ceil, to whole TFT.                                                     *)
Rounded(q) == (q + 3) \div 4

(* Overdraft, unbilled amount and the cost of the time since the last bill.*)
(* A name contract has no node, so no period cost.                         *)
Owes(k) ==
    account[k].overdraft
    + (IF KindOf[k] = "rent" \/ (KindOf[k] = "node" /\ account[k].ips)
       THEN account[k].unbilled ELSE 0)
    + (IF KindOf[k] = "name" THEN 0 ELSE account[k].period)

(* Two customers to compare: one who uses less and one who owns more.      *)
PricesInit ==
    /\ little \in Usages /\ lots \in {v \in Usages : NoMore(little, v)}
    /\ poor \in Balances /\ rich \in {b \in Balances : poor <= b}

OverdueInit ==
    /\ account \in [Owners -> {a \in Accounts : a.state = "live"}]
    /\ nodeContracts \in Listed
    /\ bills = 0 /\ calls = <<>> /\ overdue = -1 /\ answered = {}

(* A call that has read what the contract itself owes: own, what the calls *)
(* for the contracts of its node have returned, and the contracts it still *)
(* has to call for.  History: the exact sum of what was read so far, and   *)
(* how many contracts that was.                                            *)
CallFor(k) ==
    [contract |-> k, own |-> Owes(k), extra |-> 0,
     unread |-> IF KindOf[k] = "rent" THEN nodeContracts ELSE {},
     owed |-> Owes(k), reads |-> 1]

Innermost == calls[Len(calls)]
Outer == SubSeq(calls, 1, Len(calls) - 1)

(* A contract is asked for.  Any read may fail.                            *)
AskOverdue(k) ==
    /\ calls = <<>> /\ overdue = -1
    /\ \/ /\ account[k].state = "live" /\ MaxDepth > 0
          /\ calls' = <<CallFor(k)>> /\ overdue' = overdue
       \/ overdue' = -2 /\ calls' = calls
    /\ UNCHANGED <<account, bills, nodeContracts, answered>>

(* The loop over the contracts of the rented node calls for one of them:   *)
(* one that was deleted after they were listed is an error, and a rent     *)
(* contract reads the list once more.  A call deeper than MaxDepth is not  *)
(* modelled: there the stack overflows.                                    *)
ReadOverdue(k) ==
    /\ calls # <<>> /\ overdue = -1 /\ k \in Innermost.unread
    /\ \/ /\ account[k].state = "live" /\ Len(calls) < MaxDepth
          /\ calls' = Append(Append(Outer, [Innermost EXCEPT !.unread = @ \ {k}]), CallFor(k))
          /\ overdue' = overdue
       \/ overdue' = -2 /\ calls' = calls
    /\ UNCHANGED <<account, bills, nodeContracts, answered>>

(* Call e is told the total that call f comes to.                          *)
Told(e, f, total) ==
    [e EXCEPT !.extra = @ + total, !.owed = @ + f.owed, !.reads = @ + f.reads]

(* The innermost call returns its total, rounded up, to the one that reads *)
(* the node's contracts or to the caller of the library.                   *)
TotalOverdue ==
    LET f == Innermost
        total == Rounded(f.own + 4 * f.extra)
    IN /\ calls # <<>> /\ overdue = -1 /\ f.unread = {}
       /\ \/ /\ Len(calls) = 1
             /\ calls' = <<>> /\ overdue' = total /\ answered' = {f}
          \/ /\ Len(calls) > 1
             /\ calls' = [Outer EXCEPT ![Len(calls) - 1] = Told(@, f, total)]
             /\ UNCHANGED <<overdue, answered>>
       /\ UNCHANGED <<account, bills, nodeContracts>>

(* Meanwhile the chain bills a contract or deletes it.                     *)
ChainBills(k) ==
    /\ bills < MaxBills /\ bills' = bills + 1
    /\ \/ account' = [account EXCEPT ![k].state = "deleted"]
       \/ \E o \in Overdrafts :
             account' = [account EXCEPT ![k].overdraft = o, ![k].unbilled = 0]
    /\ UNCHANGED <<nodeContracts, calls, overdue, answered>>

OverdueNext ==
    /\ \/ \E k \in Owners : AskOverdue(k) \/ ReadOverdue(k) \/ ChainBills(k)
       \/ TotalOverdue
    /\ UNCHANGED <<little, lots, poor, rich>>

CalcSpec == PricesInit /\ OverdueInit /\ [][OverdueNext]_calcVars

-----------------------------------------------------------------------------
(* Whoever uses less and owns more never pays more, tiers, floors and      *)
(* discounts included, and renting out the whole node is never dearer than *)
(* sharing it.  On a rented node this holds among contracts with a public  *)
(* IP and among those without: without one the full price is charged.      *)
PricesOrdered ==
    NoMore(little, lots) /\ poor <= rich =>
        /\ ~little.rented \/ little.ips > 0 \/ lots.ips = 0 =>
              NodeContractCost(little, rich) <= NodeContractCost(lots, poor)
        /\ RentContractCost(little, rich) <= RentContractCost(lots, poor)
        /\ DedicatedPrice(poor, Cost(lots, FALSE)) <= SharedPrice(poor, Cost(lots, FALSE))

(* What calculate_contract_overdue answers covers what is owed at the time *)
(* each contract is read, and exceeds it by less than a TFT per contract,  *)
(* although every contract is rounded and the sum rounded again.  And it   *)
(* never answers for a rented node whose list has a rent contract in it:   *)
(* there it calls itself until a read fails or the stack is full.          *)
OverdueCovers ==
    overdue >= 0 =>
        \E f \in answered :
            /\ 4 * overdue >= f.owed
            /\ 4 * overdue < f.owed + 4 * f.reads
            /\ KindOf[f.contract] = "rent" => \A k \in nodeContracts : KindOf[k] # "rent"
=============================================================================
