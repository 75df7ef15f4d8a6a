------------------------ MODULE CalculationTheorems ------------------------
(***************************************************************************)
(* What is proved of the two calculations: of the account and the summary  *)
(* of its orders, and of the evaluation of rules on candles, for any       *)
(* prices, limits, stakes, funds, periods and courses.                     *)
(*                                                                         *)
(* An order that was sized alone is covered by the balance until it is     *)
(* submitted: the balance goes down by submissions only, and an order that *)
(* is submitted meanwhile was sized at the same time.  So an order of a    *)
(* percentage up to a hundred is not refused for want of funds.            *)
(*                                                                         *)
(* What was spent is the sum over the orders of what each has moved so     *)
(* far, a sum that each step changes in one term.  When all orders have    *)
(* ended and as much was sold as bought, the summary adds up the same      *)
(* terms, and its profit is the change of the balance.                     *)
(*                                                                         *)
(* A buffer is a record of the exchange: its candles are consecutive, end  *)
(* with the one of the moment last heard, and all but that one are closed. *)
(* A tick continues the record because no candle ended since.  A buffer is *)
(* seeded with what the rules need, or all there is, and no tick takes     *)
(* that away, but for trimming.  So the closed candles are the last ones,  *)
(* and their mean is the exchange's.                                       *)
(***************************************************************************)
EXTENDS ReportProperties, EvaluationProperties, Sums

Percentages == \A q \in Quantity : q.type = "percent" => q.value <= 100

OrderState ==
    [status : Status, side : Side, type : {"fixed", "percent"}, price : Nat, amount : Nat,
     filled : Nat, cost : Int, fee : Int, known : BOOLEAN, alone : BOOLEAN]

AccountTyped ==
    /\ orders \in [Id -> OrderState] /\ free \in [quote : Nat, base : Nat]
    /\ \A o \in Id : orders[o].filled <= orders[o].amount

Has(balance, side) == IF side = "buy" THEN balance.quote ELSE balance.base
Alone(o) == orders[o].alone
OfPercent(o) == orders[o].type = "percent"
AloneInv == \A o, x \in Id : Sizing(o) /\ Sizing(x) /\ o # x => ~Alone(o)
FundedInv == \A o \in Id : Sizing(o) /\ OfPercent(o) /\ Alone(o) => Funded(o)
AccountInv == AccountTyped /\ AloneInv /\ (Percentages => FundedInv /\ PercentIsFunded)

-----------------------------------------------------------------------------
(* Arithmetic *)

LEMMA Quotient ==
    ASSUME NEW a \in Nat, NEW b \in Nat \ {0}
    PROVE  (a \div b) \in Nat /\ (a \div b) * b <= a
  OBVIOUS

LEMMA ProductGrows ==
    ASSUME NEW a \in Nat, NEW b \in Nat, NEW c \in Nat, a <= b PROVE c * a <= c * b
  OBVIOUS

LEMMA ProductIsNat == ASSUME NEW a \in Nat, NEW b \in Nat PROVE a * b \in Nat
  OBVIOUS

LEMMA QuotientLess ==
    ASSUME NEW n \in Nat, NEW a \in Nat, n * 100 <= a * 100 PROVE n <= a
  OBVIOUS

(* A percentage of the balance is worth no more than the balance.          *)
LEMMA PercentOfSale ==
    ASSUME NEW a \in Nat, NEW v \in Nat, v <= 100 PROVE (a * v) \div 100 <= a
<1>1. a * v \in Nat /\ a * v <= a * 100
  BY ProductGrows, ProductIsNat
<1>2. ((a * v) \div 100) \in Nat /\ ((a * v) \div 100) * 100 <= a * v
  BY <1>1, Quotient
<1>3. QED  BY <1>1, <1>2

LEMMA PercentOfPurchase ==
    ASSUME NEW a \in Nat, NEW v \in Nat, v <= 100, NEW p \in Nat \ {0}
    PROVE  ((a * v) \div (p * 100)) * p <= a
<1> DEFINE n == (a * v) \div (p * 100)
<1>1. a * v \in Nat /\ a * v <= a * 100
  BY ProductGrows, ProductIsNat
<1>2. p * 100 \in Nat \ {0}
  OBVIOUS
<1>3. n \in Nat /\ n * (p * 100) <= a * v
  BY <1>1, <1>2, Quotient
<1> HIDE DEF n
<1>4. n * p \in Nat /\ n * (p * 100) = (n * p) * 100
  BY <1>3
<1>5. (n * p) * 100 <= a * 100
  BY <1>1, <1>3, <1>4
<1>6. n * p <= a
  BY <1>4, <1>5, QuotientLess
<1>7. QED  BY <1>6 DEF n

LEMMA SizeTyped ==
    ASSUME AccountTyped, NEW q \in Quantity, NEW p \in Price, NEW side \in Side, NEW told
    PROVE  /\ CalculateQuantity(q, p, side, told) \in Nat
           /\ Percentages /\ q.type = "percent" =>
                 CalculateQuantity(q, p, side, told) * (IF side = "buy" THEN p ELSE 1)
                     <= BalanceOf(side)
<1> DEFINE A == Available(side)
           n == CalculateQuantity(q, p, side, told)
<1>1. /\ q.type \in {"fixed", "percent"} /\ q.value \in Nat /\ p \in Nat \ {0}
      /\ Stake \in Nat /\ side \in {"buy", "sell"}
  BY SizingAssumption DEF Side
<1>2. /\ A \in Nat /\ BalanceOf(side) \in Nat /\ A <= BalanceOf(side)
  BY <1>1 DEF AccountTyped, Available, BalanceOf, Least, Side
<1> HIDE DEF A
<1>3. /\ A * q.value \in Nat /\ p * 100 \in Nat \ {0}
  BY <1>1, <1>2, ProductIsNat
<1>4. CASE n = 0
  <2>1. n * (IF side = "buy" THEN p ELSE 1) = 0
    BY <1>1, <1>4
  <2>2. QED  BY <1>2, <1>4, <2>1
<1>5. CASE q.type = "fixed" /\ n # 0
  <2>1. Desired(q, A, p, side) = <<q.value, 1>>
    BY <1>5 DEF Desired
  <2>2. n = q.value \div 1
    BY <1>5, <2>1 DEF CalculateQuantity, A
  <2>3. QED  BY <1>1, <1>5, <2>2
<1>6. CASE q.type = "percent" /\ side = "buy" /\ n # 0
  <2>1. Desired(q, A, p, side) = <<A * q.value, p * 100>>
    BY <1>1, <1>6 DEF Desired
  <2>2. n = (A * q.value) \div (p * 100)
    BY <1>6, <2>1 DEF CalculateQuantity, A
  <2>3. n \in Nat
    BY <1>3, <2>2, Quotient
  <2>4. Percentages => q.value <= 100
    BY <1>6 DEF Percentages
  <2>5. Percentages => n * p <= A
    BY <1>1, <1>2, <2>2, <2>4, PercentOfPurchase
  <2> HIDE DEF n
  <2>6. Percentages => n * p <= BalanceOf(side)
    BY <1>1, <1>2, <2>3, <2>5
  <2>7. QED  BY <1>6, <2>3, <2>6 DEF n
<1>7. CASE q.type = "percent" /\ side # "buy" /\ n # 0
  <2>1. Desired(q, A, p, side) = <<A * q.value, 100>>
    BY <1>1, <1>7 DEF Desired
  <2>2. n = (A * q.value) \div 100
    BY <1>7, <2>1 DEF CalculateQuantity, A
  <2>3. n \in Nat
    BY <1>3, <2>2, Quotient
  <2>4. Percentages => q.value <= 100
    BY <1>7 DEF Percentages
  <2>5. Percentages => n <= A
    BY <1>1, <1>2, <2>2, <2>4, PercentOfSale
  <2> HIDE DEF n
  <2>6. Percentages => n * 1 <= BalanceOf(side)
    BY <1>2, <2>3, <2>5
  <2>7. QED  BY <1>7, <2>3, <2>6 DEF n
<1>8. QED  BY <1>1, <1>4, <1>5, <1>6, <1>7

-----------------------------------------------------------------------------
(* Steps *)

LEMMA UnplacedTyped ==
    Unplaced \in OrderState /\ Unplaced.status = "none" /\ Unplaced.type = "fixed"
    /\ Unplaced.filled = 0 /\ Unplaced.amount = 0
BY DEF Unplaced, OrderState, Status, Side

LEMMA AccountInit == ASSUME Init PROVE AccountInv
<1>1. orders = [o \in Id |-> Unplaced] /\ free = Funds
  BY DEF Init, InitAccount
<1>2. AccountTyped
  BY <1>1, UnplacedTyped, SizingAssumption DEF AccountTyped
<1>3. \A o \in Id : orders[o].status = "none"
  BY <1>1, UnplacedTyped
<1>4. QED
  BY <1>2, <1>3 DEF AccountInv, AloneInv, FundedInv, PercentIsFunded, Sizing

(* Orders stay as they are or go on from "open", and the balance grows.    *)
LEMMA BalanceGrows ==
    ASSUME AccountInv, AccountTyped', NEW o \in Id, orders[o].status = "open",
           orders'[o].status \in {"open", "closed", "canceled"},
           \A x \in Id : x # o => orders'[x] = orders[x],
           free'.quote >= free.quote, free'.base >= free.base
    PROVE  AccountInv'
<1>1. ~Sizing(o) /\ ~Sizing(o)' /\ orders'[o].status # "rejected"
  BY DEF Sizing
<1>2. \A x \in Id : Sizing(x)' => x # o /\ Sizing(x) /\ orders'[x] = orders[x]
  BY <1>1 DEF Sizing
<1>3. AloneInv'
  BY <1>2 DEF AccountInv, AloneInv, Alone
<1>4. ASSUME Percentages PROVE FundedInv'
  <2> SUFFICES ASSUME NEW x \in Id, Sizing(x)', OfPercent(x)', Alone(x)' PROVE Funded(x)'
    BY DEF FundedInv
  <2>1. /\ Sizing(x) /\ orders'[x] = orders[x] /\ Funded(x)
    BY <1>2, <1>4 DEF AccountInv, FundedInv, OfPercent, Alone
  <2>2. Worth(x)' = Worth(x) /\ Worth(x) \in Int
    <3>1. orders[x] \in OrderState
      BY DEF AccountInv, AccountTyped
    <3>2. orders[x].amount \in Nat /\ orders[x].price \in Nat
      BY <3>1 DEF OrderState
    <3>3. orders[x].amount * orders[x].price \in Nat
      BY <3>2, ProductIsNat
    <3>4. QED  BY <2>1, <3>2, <3>3 DEF Worth
  <2>3. /\ Has(free, orders[x].side) \in Int /\ Has(free', orders[x].side) \in Int
        /\ Has(free', orders[x].side) >= Has(free, orders[x].side)
    BY DEF AccountInv, AccountTyped, Has
  <2>4. Worth(x) <= Has(free, orders[x].side)
    BY <2>1 DEF Funded, BalanceOf, Has
  <2>5. Worth(x)' <= Has(free', orders'[x].side)
    BY <2>1, <2>2, <2>3, <2>4
  <2>6. QED  BY <2>5 DEF Funded, BalanceOf, Has
<1>5. ASSUME Percentages PROVE PercentIsFunded'
  BY <1>1, <1>5 DEF AccountInv, PercentIsFunded
<1>6. QED  BY <1>3, <1>4, <1>5 DEF AccountInv

LEMMA SizeKeeps ==
    ASSUME AccountInv, NEW o \in Id, NEW q \in Quantity, NEW p \in Price,
           NEW side \in Side, NEW told \in MarketKnown, Size(o, q, p, side, told)
    PROVE  AccountInv'
<1> DEFINE n == CalculateQuantity(q, p, side, told)
           sized == [Unplaced EXCEPT !.status = "sized", !.side = side, !.type = q.type,
                     !.price = p, !.amount = n, !.known = told,
                     !.alone = ~\E y \in Id : Sizing(y)]
           unfunded == [Unplaced EXCEPT !.status = "unfunded"]
<1>1. /\ orders[o].status = "none" /\ UNCHANGED free
      /\ orders' = [x \in Id |->
             IF x = o THEN (IF n = 0 THEN unfunded ELSE sized)
             ELSE IF Sizing(x) THEN [orders[x] EXCEPT !.alone = FALSE] ELSE orders[x]]
  BY DEF Size
<1>2. /\ n \in Nat
      /\ Percentages /\ q.type = "percent" => n * (IF side = "buy" THEN p ELSE 1) <= BalanceOf(side)
  BY SizeTyped DEF AccountInv
<1>3. told \in BOOLEAN /\ q.type \in {"fixed", "percent"} /\ p \in Nat
  BY SizingAssumption
<1> HIDE DEF n
<1> DEFINE b == ~\E y \in Id : Sizing(y)
<1>a. b \in BOOLEAN /\ sized = [Unplaced EXCEPT !.status = "sized", !.side = side,
                     !.type = q.type, !.price = p, !.amount = n, !.known = told, !.alone = b]
  OBVIOUS
<1>b. unfunded = [Unplaced EXCEPT !.status = "unfunded"]
  OBVIOUS
<1> HIDE DEF b, sized, unfunded
<1>4. /\ sized \in OrderState /\ sized.status = "sized" /\ sized.filled = 0 /\ sized.amount = n
      /\ sized.side = side /\ sized.type = q.type /\ sized.price = p
      /\ sized.alone = b
  BY <1>2, <1>3, <1>a, UnplacedTyped DEF OrderState, Status, Side
<1>5. /\ unfunded \in OrderState /\ unfunded.status = "unfunded"
      /\ unfunded.filled = 0 /\ unfunded.amount = 0
  BY <1>b, UnplacedTyped DEF OrderState, Status, Side
<1>6. \A r \in OrderState :
          LET c == [r EXCEPT !.alone = FALSE] IN
          /\ c \in OrderState /\ c.status = r.status /\ c.type = r.type /\ ~c.alone
          /\ c.filled = r.filled /\ c.amount = r.amount
  BY DEF OrderState
<1>7. orders \in [Id -> OrderState] /\ \A x \in Id : orders[x].filled <= orders[x].amount
  BY DEF AccountInv, AccountTyped
<1>8. /\ orders'[o] = (IF n = 0 THEN unfunded ELSE sized)
      /\ \A x \in Id : x # o => /\ orders'[x] \in OrderState
                                /\ orders'[x].filled <= orders'[x].amount
                                /\ orders'[x].status = orders[x].status
                                /\ Sizing(x) => ~orders'[x].alone
                                /\ ~Sizing(x) => orders'[x] = orders[x]
  BY <1>1, <1>6, <1>7
<1>9. AccountTyped'
  <2>1. \A x \in Id : orders'[x] \in OrderState /\ orders'[x].filled <= orders'[x].amount
    BY <1>2, <1>4, <1>5, <1>8
  <2>2. orders' \in [Id -> OrderState]
    BY <1>1, <2>1
  <2>3. QED  BY <1>1, <2>1, <2>2 DEF AccountInv, AccountTyped
<1>10. AloneInv'
  <2> SUFFICES ASSUME NEW x \in Id, NEW y \in Id, Sizing(x)', Sizing(y)', x # y
               PROVE  ~Alone(x)'
    BY DEF AloneInv
  <2>1. CASE x = o
    <3>1. Sizing(y)
      BY <1>8, <2>1 DEF Sizing
    <3>2. orders'[o] = sized
      BY <1>5, <1>8, <2>1 DEF Sizing
    <3>3. QED  BY <1>4, <2>1, <3>1, <3>2 DEF Alone, b
  <2>2. CASE x # o
    BY <1>8, <2>2 DEF Sizing, Alone
  <2>3. QED  BY <2>1, <2>2
<1>11. ASSUME Percentages PROVE FundedInv'
  <2> SUFFICES ASSUME NEW x \in Id, Sizing(x)', OfPercent(x)', Alone(x)' PROVE Funded(x)'
    BY DEF FundedInv
  <2>1. x = o
    BY <1>8 DEF Sizing, Alone
  <2>2. orders'[o] = sized
    BY <1>5, <1>8, <2>1 DEF Sizing
  <2>3. q.type = "percent"
    BY <1>4, <2>1, <2>2 DEF OfPercent
  <2>4. Worth(o)' = n * (IF side = "buy" THEN p ELSE 1)
    BY <1>2, <1>4, <2>2 DEF Worth
  <2>5. Worth(o)' <= Has(free', orders'[o].side)
    BY <1>1, <1>2, <1>4, <1>11, <2>2, <2>3, <2>4 DEF BalanceOf, Has
  <2>6. QED  BY <2>1, <2>5 DEF Funded, BalanceOf, Has
<1>12. ASSUME Percentages PROVE PercentIsFunded'
  <2> SUFFICES ASSUME NEW x \in Id, orders'[x].status = "rejected", orders'[x].type = "percent"
               PROVE  ~orders'[x].alone
    BY DEF PercentIsFunded
  <2>1. x # o
    BY <1>4, <1>5, <1>8
  <2>2. ~Sizing(x) /\ orders'[x] = orders[x]
    BY <1>8, <2>1 DEF Sizing
  <2>3. QED  BY <1>12, <2>2 DEF AccountInv, PercentIsFunded
<1>13. QED  BY <1>9, <1>10, <1>11, <1>12 DEF AccountInv

LEMMA SubmitKeeps ==
    ASSUME AccountInv, NEW o \in Id, Submit(o) PROVE AccountInv'
<1> DEFINE s == IF Funded(o) THEN "open" ELSE "rejected"
           d == [orders[o] EXCEPT !.status = s]
<1>0. /\ AccountTyped /\ AloneInv /\ (Percentages => FundedInv /\ PercentIsFunded) /\ Sizing(o)
      /\ orders \in [Id -> OrderState] /\ orders[o] \in OrderState
      /\ free \in [quote : Nat, base : Nat] /\ orders[o].filled <= orders[o].amount
  BY DEF AccountInv, AccountTyped, Submit
<1>1. /\ orders' = [orders EXCEPT ![o] = d]
      /\ \/ ~Funded(o) /\ UNCHANGED free
         \/ Funded(o) /\ Moved(orders[o].side, -Worth(o), -Worth(o))
  BY <1>0 DEF Submit
<1>2. /\ d \in OrderState /\ d.status = s /\ d.type = orders[o].type
      /\ d.alone = orders[o].alone /\ d.filled = orders[o].filled /\ d.amount = orders[o].amount
      /\ s \in {"open", "rejected"} /\ (s = "rejected" => ~Funded(o))
  BY <1>0 DEF OrderState, Status
<1> HIDE DEF s, d
<1>3. /\ orders'[o] = d /\ orders' \in [Id -> OrderState]
      /\ \A x \in Id : x # o => orders'[x] = orders[x]
  BY <1>0, <1>1, <1>2
<1>4. free' \in [quote : Nat, base : Nat]
  <2>1. CASE ~Funded(o)
    BY <1>0, <1>1, <2>1
  <2>2. CASE Funded(o)
    <3>1. orders[o].amount \in Nat /\ orders[o].price \in Nat /\ orders[o].side \in Side
      BY <1>0 DEF OrderState
    <3>2. orders[o].amount * orders[o].price \in Nat
      BY <3>1, ProductIsNat
    <3>3. Worth(o) \in Nat
      BY <3>1, <3>2 DEF Worth
    <3>4. Worth(o) <= BalanceOf(orders[o].side) /\ Moved(orders[o].side, -Worth(o), -Worth(o))
      BY <1>1, <2>2 DEF Funded
    <3>5. CASE orders[o].side = "buy"
      <4>1. free' = [free EXCEPT !.quote = @ + (-Worth(o))] /\ Worth(o) <= free.quote
        BY <3>4, <3>5 DEF Moved, BalanceOf
      <4>2. QED  BY <1>0, <3>3, <4>1
    <3>6. CASE orders[o].side # "buy"
      <4>1. free' = [free EXCEPT !.base = @ + (-Worth(o))] /\ Worth(o) <= free.base
        BY <3>4, <3>6 DEF Moved, BalanceOf
      <4>2. QED  BY <1>0, <3>3, <4>1
    <3>7. QED  BY <3>5, <3>6
  <2>3. QED  BY <2>1, <2>2
<1>5. AccountTyped'
  BY <1>0, <1>2, <1>3, <1>4 DEF AccountTyped
<1>6. \A x \in Id : Sizing(x)' => x # o /\ Sizing(x) /\ orders'[x] = orders[x]
  BY <1>2, <1>3 DEF Sizing
<1>7. AloneInv'
  BY <1>0, <1>6 DEF AloneInv, Alone
<1>8. ASSUME Percentages PROVE FundedInv'
  BY <1>0, <1>6, <1>8 DEF FundedInv, AloneInv, Alone
<1>9. ASSUME Percentages PROVE PercentIsFunded'
  <2> SUFFICES ASSUME NEW x \in Id, orders'[x].status = "rejected", orders'[x].type = "percent"
               PROVE  ~orders'[x].alone
    BY DEF PercentIsFunded
  <2>1. CASE x = o
    BY <1>0, <1>2, <1>3, <1>9, <2>1 DEF FundedInv, OfPercent, Alone
  <2>2. CASE x # o
    BY <1>0, <1>3, <1>9, <2>2 DEF PercentIsFunded
  <2>3. QED  BY <2>1, <2>2
<1>10. QED  BY <1>5, <1>7, <1>8, <1>9 DEF AccountInv

LEMMA FillKeeps ==
    ASSUME AccountInv, NEW o \in Id, NEW p \in Price, NEW n \in 1..MaxQty, Fill(o, n, p)
    PROVE  AccountInv'
<1> DEFINE s == IF orders[o].filled + n = orders[o].amount THEN "closed" ELSE orders[o].status
           d == [orders[o] EXCEPT !.filled = @ + n, !.cost = @ + n * p, !.fee = @ + Fee,
                                  !.status = s]
<1>0. /\ AccountTyped /\ orders \in [Id -> OrderState] /\ orders[o] \in OrderState
      /\ orders[o].status = "open" /\ FairPrice(o, p)
      /\ n \in 1..(orders[o].amount - orders[o].filled)
      /\ free \in [quote : Nat, base : Nat] /\ p \in Nat /\ n \in Nat /\ Fee \in Nat
  BY SizingAssumption DEF AccountInv, AccountTyped, Fill
<1>1. orders' = [orders EXCEPT ![o] = d]
  BY <1>0 DEF Fill
<1>2. orders[o].amount \in Nat /\ orders[o].filled \in Nat /\ orders[o].price \in Nat
      /\ orders[o].cost \in Int /\ orders[o].fee \in Int
  BY <1>0 DEF OrderState
<1>3. n * p \in Nat
  BY <1>0, ProductIsNat
<1>4. /\ d \in OrderState /\ d.status \in {"open", "closed"} /\ d.filled <= d.amount
  <2>1. s \in {"open", "closed"}
    BY <1>0
  <2>2. /\ orders[o].filled + n \in Nat /\ orders[o].filled + n <= orders[o].amount
        /\ orders[o].cost + n * p \in Int /\ orders[o].fee + Fee \in Int
    BY <1>0, <1>2, <1>3
  <2> HIDE DEF s
  <2>3. d \in OrderState /\ d.status = s /\ d.filled = orders[o].filled + n
        /\ d.amount = orders[o].amount
    BY <1>0, <2>1, <2>2 DEF OrderState, Status
  <2>4. QED  BY <2>1, <2>2, <2>3
<1> HIDE DEF s, d
<1>5. /\ orders'[o] = d /\ orders' \in [Id -> OrderState]
      /\ \A x \in Id : x # o => orders'[x] = orders[x]
  BY <1>0, <1>1, <1>4
<1>6. /\ free' \in [quote : Nat, base : Nat]
      /\ free'.quote >= free.quote /\ free'.base >= free.base
  <2>1. CASE orders[o].side = "buy"
    <3>1. free' = [quote |-> free.quote + n * (orders[o].price - p), base |-> free.base + n]
      BY <2>1 DEF Fill
    <3>2. orders[o].price - p \in Nat
      BY <1>0, <1>2, <2>1 DEF FairPrice
    <3>3. n * (orders[o].price - p) \in Nat
      BY <1>0, <3>2, ProductIsNat
    <3>4. QED  BY <1>0, <3>1, <3>3
  <2>2. CASE orders[o].side # "buy"
    <3>1. free' = [free EXCEPT !.quote = @ + n * p]
      BY <2>2 DEF Fill
    <3>2. QED  BY <1>0, <1>3, <3>1
  <2>3. QED  BY <2>1, <2>2
<1>7. AccountTyped'
  BY <1>4, <1>5, <1>6 DEF AccountInv, AccountTyped
<1>8. QED  BY <1>0, <1>4, <1>5, <1>6, <1>7, BalanceGrows

LEMMA EndedKeeps ==
    ASSUME AccountInv, NEW o \in Id, Ended(o) PROVE AccountInv'
<1> DEFINE d == [orders[o] EXCEPT !.status = "canceled"]
           left == orders[o].amount - orders[o].filled
<1>0. /\ AccountTyped /\ orders \in [Id -> OrderState] /\ orders[o] \in OrderState
      /\ orders[o].status = "open" /\ free \in [quote : Nat, base : Nat]
      /\ orders[o].filled <= orders[o].amount
      /\ orders' = [orders EXCEPT ![o] = d]
      /\ Moved(orders[o].side, left * orders[o].price, left)
  BY DEF AccountInv, AccountTyped, Ended
<1>1. /\ d \in OrderState /\ d.status = "canceled"
      /\ d.filled = orders[o].filled /\ d.amount = orders[o].amount
  BY <1>0 DEF OrderState, Status
<1> HIDE DEF d
<1>2. left \in Nat /\ orders[o].price \in Nat
  BY <1>0 DEF OrderState
<1> HIDE DEF left
<1>3. left * orders[o].price \in Nat
  BY <1>2, ProductIsNat
<1>4. /\ free' \in [quote : Nat, base : Nat]
      /\ free'.quote >= free.quote /\ free'.base >= free.base
  BY <1>0, <1>2, <1>3 DEF Moved
<1>5. /\ orders'[o] = d /\ orders' \in [Id -> OrderState]
      /\ \A x \in Id : x # o => orders'[x] = orders[x]
  BY <1>0, <1>1
<1>6. AccountTyped'
  BY <1>0, <1>1, <1>4, <1>5 DEF AccountTyped
<1>7. QED  BY <1>0, <1>1, <1>4, <1>5, <1>6, BalanceGrows

LEMMA AccountNextKeeps ==
    ASSUME AccountInv, [Next]_vars PROVE AccountInv'
<1>1. CASE UNCHANGED vars
  BY <1>1 DEF vars, AccountInv, AccountTyped, AloneInv, FundedInv, PercentIsFunded, Sizing,
              Alone, OfPercent, Funded, Worth, BalanceOf
<1>2. CASE Next
  <2>1. PICK o \in Id :
            \/ \E q \in Quantity, p \in Price, side \in Side, told \in MarketKnown :
                  Size(o, q, p, side, told)
            \/ Submit(o)
            \/ \E p \in Price, n \in 1..MaxQty : Fill(o, n, p)
            \/ Ended(o)
    BY <1>2 DEF Next, AccountNext
  <2>2. QED  BY <2>1, SizeKeeps, SubmitKeeps, FillKeeps, EndedKeeps
<1>3. QED  BY <1>1, <1>2

(* order.service.ts:330: an order of at most a hundred percent of the free *)
(* balance, cut to the stake for a purchase, is taken by the exchange,     *)
(* unless another order was sized before one of the two was submitted.     *)
THEOREM PercentsAreFunded == ASSUME Percentages PROVE Spec => []PercentIsFunded
<1>1. AccountInv /\ [Next]_vars => AccountInv'
  BY AccountNextKeeps
<1>2. AccountInv => PercentIsFunded
  BY DEF AccountInv
<1>3. QED  BY <1>1, <1>2, AccountInit, PTL DEF Spec

-----------------------------------------------------------------------------
(* What the account paid is what the orders' fills say it paid. *)

Flow == [o \in Id |-> (IF orders[o].side = "buy" THEN orders[o].cost ELSE -orders[o].cost)
                      + orders[o].fee]
FillsOK == \A o \in Id :
    /\ orders[o].cost >= orders[o].filled
    /\ orders[o].filled = 0 => orders[o].cost = 0 /\ orders[o].fee = 0
    /\ orders[o].status \notin {"open", "closed", "canceled"} => orders[o].filled = 0
CashInv == AccountInv /\ FillsOK /\ spent = SumFunctionOnSet(Flow, Id)

LEMMA OrderTyped ==
    ASSUME AccountTyped, NEW o \in Id
    PROVE  /\ orders[o] \in OrderState
           /\ orders[o].filled \in Nat /\ orders[o].amount \in Nat /\ orders[o].price \in Nat
           /\ orders[o].cost \in Int /\ orders[o].fee \in Int
           /\ orders[o].side \in {"buy", "sell"} /\ orders[o].filled <= orders[o].amount
BY DEF AccountTyped, OrderState, Side

LEMMA FlowTyped ==
    ASSUME AccountTyped PROVE \A o \in Id : Flow[o] \in Int
BY OrderTyped DEF Flow

(* A step that moves the fills of no order.                                *)
FillsStay == \A x \in Id :
    /\ orders'[x].cost = orders[x].cost /\ orders'[x].fee = orders[x].fee
    /\ orders'[x].filled = orders[x].filled
    /\ orders'[x].side = orders[x].side \/ orders[x].filled = 0
    /\ \/ orders'[x].status \in {"open", "closed", "canceled"}
       \/ orders[x].filled = 0

LEMMA NothingPaid ==
    ASSUME CashInv, AccountInv', FillsStay, UNCHANGED spent PROVE CashInv'
<1>1. AccountTyped /\ AccountTyped' /\ IsFiniteSet(Id)
  BY SizingAssumption DEF CashInv, AccountInv
<1>2. ASSUME NEW x \in Id PROVE Flow'[x] = Flow[x]
  <2>1. orders[x].filled = 0 => orders[x].cost = 0 /\ orders[x].fee = 0
    BY DEF CashInv, FillsOK
  <2>2. Flow[x] = (IF orders[x].side = "buy" THEN orders[x].cost ELSE -orders[x].cost)
                  + orders[x].fee
    BY DEF Flow
  <2>3. Flow'[x] = (IF orders'[x].side = "buy" THEN orders'[x].cost ELSE -orders'[x].cost)
                   + orders'[x].fee
    BY DEF Flow
  <2>4. QED  BY <2>1, <2>2, <2>3 DEF FillsStay
<1>3. SumFunctionOnSet(Flow', Id) = SumFunctionOnSet(Flow, Id)
  BY <1>1, <1>2, SumEqual
<1>4. FillsOK'
  BY DEF FillsOK, FillsStay, CashInv
<1>5. QED  BY <1>3, <1>4 DEF CashInv

LEMMA SizePaysNothing ==
    ASSUME AccountInv, FillsOK, NEW o \in Id, NEW q \in Quantity, NEW p \in Price,
           NEW side \in Side, NEW told \in MarketKnown, Size(o, q, p, side, told)
    PROVE  FillsStay
<1> DEFINE n == CalculateQuantity(q, p, side, told)
           b == ~\E y \in Id : Sizing(y)
           sized == [Unplaced EXCEPT !.status = "sized", !.side = side, !.type = q.type,
                     !.price = p, !.amount = n, !.known = told, !.alone = b]
           unfunded == [Unplaced EXCEPT !.status = "unfunded"]
<1>1. /\ orders[o].status = "none"
      /\ orders' = [x \in Id |->
             IF x = o THEN (IF n = 0 THEN unfunded ELSE sized)
             ELSE IF Sizing(x) THEN [orders[x] EXCEPT !.alone = FALSE] ELSE orders[x]]
  BY DEF Size
<1>2. \A r \in {sized, unfunded} : r.filled = 0 /\ r.cost = 0 /\ r.fee = 0
  BY DEF Unplaced
<1> HIDE DEF n, b, sized, unfunded
<1>3. orders[o].filled = 0 /\ orders[o].cost = 0 /\ orders[o].fee = 0
  BY <1>1 DEF FillsOK
<1>4. orders'[o] \in {sized, unfunded}
  BY <1>1
<1>5. orders'[o].filled = 0 /\ orders'[o].cost = 0 /\ orders'[o].fee = 0
  BY <1>2, <1>4
<1>6. \A r \in OrderState :
          LET c == [r EXCEPT !.alone = FALSE] IN
          /\ c.status = r.status /\ c.side = r.side
          /\ c.filled = r.filled /\ c.cost = r.cost /\ c.fee = r.fee
  BY DEF OrderState
<1>7. ASSUME NEW x \in Id, x # o
      PROVE  /\ orders'[x].cost = orders[x].cost /\ orders'[x].fee = orders[x].fee
             /\ orders'[x].filled = orders[x].filled /\ orders'[x].side = orders[x].side
             /\ orders'[x].status = orders[x].status
  <2>1. orders[x] \in OrderState
    BY DEF AccountInv, AccountTyped
  <2>2. orders'[x] = [orders[x] EXCEPT !.alone = FALSE] \/ orders'[x] = orders[x]
    BY <1>1, <1>7
  <2>3. QED  BY <1>6, <2>1, <2>2
<1>8. QED  BY <1>3, <1>5, <1>7 DEF FillsStay, FillsOK

LEMMA SubmitPaysNothing ==
    ASSUME AccountInv, FillsOK, NEW o \in Id, Submit(o) PROVE FillsStay
<1> DEFINE s == IF Funded(o) THEN "open" ELSE "rejected"
           d == [orders[o] EXCEPT !.status = s]
<1>1. /\ orders \in [Id -> OrderState] /\ orders[o] \in OrderState /\ Sizing(o)
      /\ orders' = [orders EXCEPT ![o] = d]
  BY DEF AccountInv, AccountTyped, Submit
<1>2. /\ d.filled = orders[o].filled /\ d.cost = orders[o].cost
      /\ d.fee = orders[o].fee /\ d.side = orders[o].side
  BY <1>1 DEF OrderState
<1> HIDE DEF s, d
<1>3. orders'[o] = d /\ \A x \in Id : x # o => orders'[x] = orders[x]
  BY <1>1
<1>4. orders[o].filled = 0
  BY <1>1 DEF FillsOK, Sizing
<1>5. QED  BY <1>2, <1>3, <1>4 DEF FillsStay, FillsOK

LEMMA EndedPaysNothing ==
    ASSUME AccountInv, FillsOK, NEW o \in Id, Ended(o) PROVE FillsStay
<1> DEFINE d == [orders[o] EXCEPT !.status = "canceled"]
<1>1. /\ orders \in [Id -> OrderState] /\ orders[o] \in OrderState
      /\ orders' = [orders EXCEPT ![o] = d]
  BY DEF AccountInv, AccountTyped, Ended
<1>2. /\ d.filled = orders[o].filled /\ d.cost = orders[o].cost
      /\ d.fee = orders[o].fee /\ d.side = orders[o].side /\ d.status = "canceled"
  BY <1>1 DEF OrderState
<1> HIDE DEF d
<1>3. orders'[o] = d /\ \A x \in Id : x # o => orders'[x] = orders[x]
  BY <1>1
<1>4. QED  BY <1>2, <1>3 DEF FillsStay, FillsOK

(* A fill at a price of n whole units of the base currency.                *)
Filled(o, n, p) ==
    /\ orders'[o].filled = orders[o].filled + n
    /\ orders'[o].cost = orders[o].cost + n * p
    /\ orders'[o].fee = orders[o].fee + Fee
    /\ orders'[o].amount = orders[o].amount /\ orders'[o].price = orders[o].price
    /\ orders'[o].side = orders[o].side
    /\ orders[o].status = "open" /\ orders'[o].status \in {"open", "closed"}
    /\ \A x \in Id : x # o => orders'[x] = orders[x]

LEMMA FillFills ==
    ASSUME AccountInv, NEW o \in Id, NEW p \in Price, NEW n \in 1..MaxQty, Fill(o, n, p)
    PROVE  /\ Filled(o, n, p) /\ n \in Nat \ {0} /\ p \in Nat \ {0}
           /\ n * p \in Nat /\ n * p >= n
           /\ spent' = IF orders[o].side = "buy" THEN spent + n * p + Fee
                                                 ELSE spent - n * p + Fee
<1> DEFINE s == IF orders[o].filled + n = orders[o].amount THEN "closed" ELSE orders[o].status
           d == [orders[o] EXCEPT !.filled = @ + n, !.cost = @ + n * p, !.fee = @ + Fee,
                                  !.status = s]
<1>1. /\ orders \in [Id -> OrderState] /\ orders[o] \in OrderState
      /\ orders[o].status = "open" /\ p \in Nat \ {0} /\ n \in Nat \ {0}
      /\ orders' = [orders EXCEPT ![o] = d]
  <2>1. orders \in [Id -> OrderState] /\ orders[o] \in OrderState
    BY DEF AccountInv, AccountTyped
  <2>2. p \in Nat \ {0} /\ MaxQty \in Nat
    BY SizingAssumption
  <2>3. orders[o].status = "open" /\ orders' = [orders EXCEPT ![o] = d]
    BY <2>1 DEF Fill
  <2>4. QED  BY <2>1, <2>2, <2>3
<1>2. s \in {"open", "closed"}
  BY <1>1
<1> HIDE DEF s
<1>3. /\ d.filled = orders[o].filled + n /\ d.cost = orders[o].cost + n * p
      /\ d.fee = orders[o].fee + Fee /\ d.amount = orders[o].amount
      /\ d.price = orders[o].price /\ d.side = orders[o].side /\ d.status = s
  BY <1>1 DEF OrderState
<1> HIDE DEF d
<1>4. orders'[o] = d /\ \A x \in Id : x # o => orders'[x] = orders[x]
  BY <1>1
<1>5. Filled(o, n, p)
  BY <1>1, <1>2, <1>3, <1>4 DEF Filled
<1>6. n * p \in Nat /\ n * 1 <= n * p
  BY <1>1, ProductIsNat, ProductGrows
<1>7. spent' = IF orders[o].side = "buy" THEN spent + n * p + Fee ELSE spent - n * p + Fee
  BY DEF Fill
<1>8. QED  BY <1>1, <1>5, <1>6, <1>7

LEMMA FillPays ==
    ASSUME CashInv, AccountInv', NEW o \in Id, NEW p \in Price, NEW n \in 1..MaxQty,
           Fill(o, n, p)
    PROVE  CashInv'
<1>1. AccountTyped /\ AccountTyped' /\ IsFiniteSet(Id) /\ AccountInv /\ Fee \in Nat
  BY SizingAssumption DEF CashInv, AccountInv
<1>2. /\ Filled(o, n, p) /\ n \in Nat \ {0} /\ p \in Nat \ {0}
      /\ n * p \in Nat /\ n * p >= n
      /\ spent' = IF orders[o].side = "buy" THEN spent + n * p + Fee ELSE spent - n * p + Fee
  BY <1>1, FillFills
<1> DEFINE np == n * p
<1> HIDE DEF np
<1>3. \A x \in Id : Flow[x] \in Int /\ Flow'[x] \in Int /\ (x # o => Flow'[x] = Flow[x])
  <2>1. \A x \in Id : Flow[x] \in Int
    BY <1>1, FlowTyped
  <2>2. \A x \in Id : Flow'[x] \in Int
    <3>1. \A x \in Id : orders'[x] \in OrderState
      BY <1>1 DEF AccountTyped
    <3>2. \A x \in Id : orders'[x].cost \in Int /\ orders'[x].fee \in Int
      BY <3>1 DEF OrderState
    <3>3. QED  BY <3>2 DEF Flow
  <2>3. \A x \in Id : x # o => Flow'[x] = Flow[x]
    BY <1>2 DEF Flow, Filled
  <2>4. QED  BY <2>1, <2>2, <2>3
<1>4. SumFunctionOnSet(Flow', Id) = SumFunctionOnSet(Flow, Id) + Flow'[o] - Flow[o]
  BY <1>1, <1>3, SumChange
<1>5. Flow[o] = (IF orders[o].side = "buy" THEN orders[o].cost ELSE -orders[o].cost)
                + orders[o].fee
  BY DEF Flow
<1>6. Flow'[o] = (IF orders[o].side = "buy" THEN orders[o].cost + np
                                            ELSE -(orders[o].cost + np))
                 + (orders[o].fee + Fee)
  BY <1>2 DEF Flow, Filled, np
<1>7. orders[o].cost \in Int /\ orders[o].fee \in Int /\ orders[o].filled \in Nat
  BY <1>1, OrderTyped
<1>8. SumFunctionOnSet(Flow, Id) \in Int
  BY <1>1, <1>3, SumInt
<1>9. spent' = SumFunctionOnSet(Flow', Id)
  <2>1. spent = SumFunctionOnSet(Flow, Id) /\ np \in Nat
        /\ spent' = IF orders[o].side = "buy" THEN spent + np + Fee ELSE spent - np + Fee
    BY <1>2 DEF CashInv, np
  <2>2. QED  BY <1>1, <1>4, <1>5, <1>6, <1>7, <1>8, <2>1
<1>10. FillsOK'
  <2> SUFFICES ASSUME NEW x \in Id
               PROVE  /\ orders'[x].cost >= orders'[x].filled
                      /\ orders'[x].filled = 0 => orders'[x].cost = 0 /\ orders'[x].fee = 0
                      /\ orders'[x].status \notin {"open", "closed", "canceled"}
                            => orders'[x].filled = 0
    BY DEF FillsOK
  <2>1. CASE x = o
    <3>1. orders[o].cost >= orders[o].filled
      BY DEF CashInv, FillsOK
    <3>2. /\ orders'[o].cost = orders[o].cost + np /\ np >= n /\ np \in Nat
          /\ orders'[o].filled = orders[o].filled + n
          /\ orders'[o].status \in {"open", "closed"}
      BY <1>2 DEF Filled, np
    <3>3. QED  BY <1>2, <1>7, <2>1, <3>1, <3>2
  <2>2. CASE x # o
    BY <1>2, <2>2 DEF CashInv, FillsOK, Filled
  <2>3. QED  BY <2>1, <2>2
<1>11. QED  BY <1>9, <1>10 DEF CashInv

LEMMA SumOfNothing ==
    ASSUME NEW g, NEW S, IsFiniteSet(S), \A x \in S : g[x] = 0
    PROVE  SumFunctionOnSet(g, S) = 0
<1>1. SumFunctionOnSet(g, S) = SumFunctionOnSet(g, S) + SumFunctionOnSet(g, S)
  BY SumPlus
<1>2. SumFunctionOnSet(g, S) \in Int
  BY SumInt
<1> DEFINE z == SumFunctionOnSet(g, S)
<1>3. z = z + z /\ z \in Int
  BY <1>1, <1>2
<1> HIDE DEF z
<1>4. z = 0
  BY <1>3
<1>5. QED  BY <1>4 DEF z

LEMMA CashInit == ASSUME Init PROVE CashInv
<1>1. orders = [o \in Id |-> Unplaced] /\ spent = 0 /\ IsFiniteSet(Id)
  BY SizingAssumption DEF Init, InitAccount
<1>2. Unplaced.cost = 0 /\ Unplaced.fee = 0 /\ Unplaced.filled = 0
  BY DEF Unplaced
<1>3. \A o \in Id : orders[o].cost = 0 /\ orders[o].fee = 0 /\ orders[o].filled = 0
  BY <1>1, <1>2
<1>4. FillsOK
  BY <1>3 DEF FillsOK
<1>5. \A o \in Id : Flow[o] = 0
  BY <1>3 DEF Flow
<1>6. QED  BY <1>1, <1>4, <1>5, AccountInit, SumOfNothing DEF CashInv

LEMMA CashNextKeeps == ASSUME CashInv, [Next]_vars PROVE CashInv'
<1>1. AccountInv' /\ AccountInv /\ FillsOK
  BY AccountNextKeeps DEF CashInv
<1>2. CASE UNCHANGED vars
  BY <1>1, <1>2 DEF vars, CashInv, FillsOK, Flow
<1>3. CASE Next
  <2>1. PICK o \in Id :
            \/ \E q \in Quantity, p \in Price, side \in Side, told \in MarketKnown :
                  Size(o, q, p, side, told)
            \/ Submit(o)
            \/ \E p \in Price, n \in 1..MaxQty : Fill(o, n, p)
            \/ Ended(o)
    BY <1>3 DEF Next, AccountNext
  <2>2. CASE \E q \in Quantity, p \in Price, side \in Side, told \in MarketKnown :
                Size(o, q, p, side, told)
    <3>1. FillsStay
      BY <1>1, <2>2, SizePaysNothing
    <3>2. UNCHANGED spent
      BY <2>2 DEF Size
    <3>3. QED  BY <1>1, <3>1, <3>2, NothingPaid
  <2>3. CASE Submit(o)
    <3>1. FillsStay /\ UNCHANGED spent
      BY <1>1, <2>3, SubmitPaysNothing DEF Submit
    <3>2. QED  BY <1>1, <3>1, NothingPaid
  <2>4. CASE \E p \in Price, n \in 1..MaxQty : Fill(o, n, p)
    BY <1>1, <2>4, FillPays
  <2>5. CASE Ended(o)
    <3>1. FillsStay /\ UNCHANGED spent
      BY <1>1, <2>5, EndedPaysNothing DEF Ended
    <3>2. QED  BY <1>1, <3>1, NothingPaid
  <2>6. QED  BY <2>1, <2>2, <2>3, <2>4, <2>5
<1>4. QED  BY <1>2, <1>3

-----------------------------------------------------------------------------
(* The report *)

(* A sum over the counted orders of a side, of terms that are nothing when *)
(* nothing was filled, is one over all orders of that side.                *)
CostsOf(side) == [o \in Id |-> IF orders[o].side = side THEN orders[o].cost ELSE 0]

LEMMA CountedIsFilled ==
    ASSUME CashInv, WholeFills, NEW o \in Id, orders[o].filled # 0
    PROVE  o \in Counted(Placed)
<1>1. orders[o].status \in {"open", "closed", "canceled"}
  BY DEF CashInv, FillsOK
<1>2. o \in Placed
  BY <1>1 DEF Placed
<1>3. QED  BY <1>2 DEF WholeFills, Counted

LEMMA CostIsCost ==
    ASSUME CashInv, NEW o \in Id PROVE CostOf[o] = orders[o].cost
<1>1. /\ orders[o].filled \in Nat /\ orders[o].price \in Nat /\ orders[o].cost \in Int
      /\ orders[o].cost >= orders[o].filled
      /\ orders[o].filled = 0 => orders[o].cost = 0
  BY OrderTyped DEF CashInv, AccountInv, FillsOK
<1>2. orders[o].cost = 0 => orders[o].filled = 0
  BY <1>1
<1>3. orders[o].filled = 0 => orders[o].filled * orders[o].price = 0
  BY <1>1
<1>4. CostOf[o] = IF orders[o].cost # 0 THEN orders[o].cost
                  ELSE orders[o].filled * orders[o].price
  BY DEF CostOf
<1>5. QED  BY <1>2, <1>3, <1>4

LEMMA CostIsPaid ==
    ASSUME CashInv, WholeFills, NEW side
    PROVE  Cost(Placed, side) = SumFunctionOnSet(CostsOf(side), Id)
<1>1. IsFiniteSet(Id) /\ OfSide(Placed, side) \subseteq Id
  BY SizingAssumption DEF OfSide, Counted, Placed
<1>2. ASSUME NEW o \in Id
      PROVE  /\ CostOf[o] \in Int
             /\ CostsOf(side)[o] = IF o \in OfSide(Placed, side) THEN CostOf[o] ELSE 0
  <2>1. CostOf[o] = orders[o].cost /\ orders[o].cost \in Int
    BY CostIsCost, OrderTyped DEF CashInv, AccountInv
  <2>2. CostsOf(side)[o] = IF orders[o].side = side THEN orders[o].cost ELSE 0
    BY DEF CostsOf
  <2>3. o \in OfSide(Placed, side) => orders[o].side = side
    BY DEF OfSide
  <2>4. orders[o].filled = 0 => orders[o].cost = 0
    BY DEF CashInv, FillsOK
  <2>5. orders[o].filled # 0 /\ orders[o].side = side => o \in OfSide(Placed, side)
    BY CountedIsFilled DEF OfSide
  <2>6. QED  BY <2>1, <2>2, <2>3, <2>4, <2>5
<1>3. QED  BY <1>1, <1>2, SumPart DEF Cost

LEMMA FeesArePaid ==
    ASSUME CashInv, WholeFills PROVE Fees(Placed) = SumFunctionOnSet(FeeOf, Id)
<1>1. IsFiniteSet(Id) /\ Counted(Placed) \subseteq Id
  BY SizingAssumption DEF Counted, Placed
<1>2. ASSUME NEW o \in Id
      PROVE  FeeOf[o] \in Int /\ FeeOf[o] = IF o \in Counted(Placed) THEN FeeOf[o] ELSE 0
  <2>1. FeeOf[o] = orders[o].fee /\ orders[o].fee \in Int
    BY OrderTyped DEF FeeOf, CashInv, AccountInv
  <2>2. orders[o].filled = 0 => orders[o].fee = 0
    BY DEF CashInv, FillsOK
  <2>3. QED  BY <2>1, <2>2, CountedIsFilled
<1>3. QED  BY <1>1, <1>2, SumPart DEF Fees

(* Without partly filled orders that were cancelled, what the report adds  *)
(* up is what the account paid.                                            *)
LEMMA ReportIsCash ==
    ASSUME CashInv, WholeFills
    PROVE  /\ Cost(Placed, "buy") \in Int /\ Cost(Placed, "sell") \in Int
           /\ Fees(Placed) \in Int
           /\ spent = Cost(Placed, "buy") + Fees(Placed) - Cost(Placed, "sell")
<1> DEFINE B == CostsOf("buy")  S == CostsOf("sell")  E == FeeOf
           H == [o \in Id |-> B[o] + E[o]]
<1>1. IsFiniteSet(Id) /\ AccountTyped
  BY SizingAssumption DEF CashInv, AccountInv
<1>2. ASSUME NEW o \in Id
      PROVE  /\ B[o] \in Int /\ S[o] \in Int /\ E[o] \in Int /\ Flow[o] \in Int
             /\ H[o] = B[o] + E[o] /\ H[o] = Flow[o] + S[o]
  <2>1. /\ orders[o].cost \in Int /\ orders[o].fee \in Int
        /\ orders[o].side \in {"buy", "sell"}
    BY <1>1, OrderTyped
  <2>2. /\ B[o] = IF orders[o].side = "buy" THEN orders[o].cost ELSE 0
        /\ S[o] = IF orders[o].side = "sell" THEN orders[o].cost ELSE 0
        /\ E[o] = orders[o].fee
        /\ Flow[o] = (IF orders[o].side = "buy" THEN orders[o].cost ELSE -orders[o].cost)
                     + orders[o].fee
    BY DEF CostsOf, FeeOf, Flow
  <2>3. H[o] = B[o] + E[o]
    OBVIOUS
  <2> HIDE DEF B, S, E, H
  <2>4. QED  BY <2>1, <2>2, <2>3
<1> HIDE DEF H, B, S, E
<1>3. SumFunctionOnSet(H, Id) = SumFunctionOnSet(B, Id) + SumFunctionOnSet(E, Id)
  BY <1>1, <1>2, SumPlus
<1>4. SumFunctionOnSet(H, Id) = SumFunctionOnSet(Flow, Id) + SumFunctionOnSet(S, Id)
  BY <1>1, <1>2, SumPlus
<1>5. /\ SumFunctionOnSet(B, Id) \in Int /\ SumFunctionOnSet(S, Id) \in Int
      /\ SumFunctionOnSet(E, Id) \in Int /\ SumFunctionOnSet(Flow, Id) \in Int
  BY <1>1, <1>2, SumInt
<1> DEFINE b == SumFunctionOnSet(B, Id)  s == SumFunctionOnSet(S, Id)
           e == SumFunctionOnSet(E, Id)
<1>6. Cost(Placed, "buy") = b /\ Cost(Placed, "sell") = s /\ Fees(Placed) = e
  BY CostIsPaid, FeesArePaid DEF B, S, E
<1>7. spent + s = b + e /\ spent \in Int
  BY <1>3, <1>4, <1>5 DEF CashInv
<1>8. b \in Int /\ s \in Int /\ e \in Int
  BY <1>5
<1> HIDE DEF b, s, e
<1>9. spent = b + e - s
  BY <1>7, <1>8
<1>10. QED  BY <1>6, <1>8, <1>9, Zenon

LEMMA Factor ==
    ASSUME NEW a \in Int, NEW b \in Int, NEW n \in Int
    PROVE  a * n - b * n = -(b - a) * n
OBVIOUS

LEMMA ReportedIsPaid == ASSUME CashInv PROVE RoundTripIsCash
<1> DEFINE n == Volume(Placed, "buy")
           b == Cost(Placed, "buy")  s == Cost(Placed, "sell")  e == Fees(Placed)
<1> SUFFICES ASSUME WholeFills, n > 0, n = Volume(Placed, "sell")
             PROVE  Performance(Placed).profit.num = -spent * Performance(Placed).profit.den
  BY DEF RoundTripIsCash
<1>1. b \in Int /\ s \in Int /\ e \in Int /\ spent = b + e - s
  BY ReportIsCash
<1>2. n \in Int
  <2>1. IsFiniteSet(OfSide(Placed, "buy")) /\ OfSide(Placed, "buy") \subseteq Id
    BY SizingAssumption, FS_Subset DEF OfSide, Counted, Placed
  <2>2. \A o \in OfSide(Placed, "buy") : VolumeOf[o] \in Int
    BY <2>1, OrderTyped DEF VolumeOf, CashInv, AccountInv
  <2>3. QED  BY <2>1, <2>2, SumInt DEF Volume
<1>3. Performance(Placed).profit = Gain(n, s, n, b, e)
  BY DEF Performance
<1> HIDE DEF n, b, s, e
<1>4. n # 0
  BY <1>2
<1>5. /\ Performance(Placed).profit.num = (s - e) * n - b * n
      /\ Performance(Placed).profit.den = n
  BY <1>3, <1>4 DEF Gain
<1>6. (s - e) * n - b * n = -(b - (s - e)) * n
  BY <1>1, <1>2, Factor
<1>7. b - (s - e) = spent
  BY <1>1
<1>8. QED  BY <1>5, <1>6, <1>7

(* api.orders.service.ts:171: over a history in which all that was bought  *)
(* was sold, the profit reported is what the account gained, for any       *)
(* orders, partial fills, prices and fees, if no cancelled order had been  *)
(* partly filled.                                                          *)
THEOREM ProfitIsCash == Spec => []RoundTripIsCash
<1>1. CashInv /\ [Next]_vars => CashInv'
  BY CashNextKeeps
<1>2. CashInv => RoundTripIsCash
  BY ReportedIsPaid
<1>3. QED  BY <1>1, <1>2, CashInit, PTL DEF Spec

-----------------------------------------------------------------------------
(* What remains of the types: no fee is negative, and the summary counts   *)
(* no more open orders than it counts orders.                              *)
FeesPaid == \A o \in Id : orders[o].fee \in Nat

LEMMA FeesNext == ASSUME CashInv, FeesPaid, [Next]_vars PROVE FeesPaid'
<1>1. AccountInv /\ FillsOK
  BY DEF CashInv
<1>2. CASE FillsStay
  BY <1>2 DEF FillsStay, FeesPaid
<1>3. ASSUME NEW o \in Id, NEW q \in Quantity, NEW p \in Price, NEW side \in Side,
             NEW told \in MarketKnown, Size(o, q, p, side, told)
      PROVE  FillsStay
  BY <1>1, <1>3, SizePaysNothing
<1>4. ASSUME NEW o \in Id, Submit(o) \/ Ended(o) PROVE FillsStay
  BY <1>1, <1>4, SubmitPaysNothing, EndedPaysNothing
<1>5. ASSUME NEW o \in Id, NEW p \in Price, NEW n \in 1..MaxQty, Fill(o, n, p)
      PROVE  FeesPaid'
  <2>1. orders'[o].fee = orders[o].fee + Fee /\ \A x \in Id : x # o => orders'[x] = orders[x]
    BY <1>1, <1>5, FillFills DEF Filled
  <2>2. orders[o].fee + Fee \in Nat
    BY SizingAssumption DEF FeesPaid
  <2>3. QED  BY <2>1, <2>2 DEF FeesPaid
<1>6. CASE UNCHANGED vars
  BY <1>6 DEF vars, FeesPaid
<1>7. QED  BY <1>2, <1>3, <1>4, <1>5, <1>6 DEF Next, AccountNext

LEMMA SummaryCounts ==
    ASSUME CashInv, FeesPaid
    PROVE  /\ Performance(Placed).activeOrders \in 0..Performance(Placed).totalOrders
           /\ Performance(Placed).fees \in Nat
<1> DEFINE gone == {o \in Placed : Cancelled(o)}
           going == {o \in Placed : Active(o)}
<1>1. IsFiniteSet(Placed) /\ Counted(Placed) \in SUBSET Placed
  BY SizingAssumption, FS_Subset DEF Placed, Counted
<1>2. /\ IsFiniteSet(Placed \ gone)
      /\ Cardinality(Placed \ gone) = Cardinality(Placed) - Cardinality(gone)
  <2>1. Placed \cap gone = gone
    OBVIOUS
  <2>2. QED  BY <1>1, <2>1, FS_Difference
<1>3. going \subseteq Placed \ gone
  BY DEF Active, Cancelled
<1>4. /\ IsFiniteSet(going) /\ Cardinality(going) <= Cardinality(Placed \ gone)
      /\ Cardinality(going) \in Nat /\ Cardinality(Placed \ gone) \in Nat
  BY <1>2, <1>3, FS_Subset, FS_CardinalityType
<1>5. /\ Performance(Placed).activeOrders = Cardinality(going)
      /\ Performance(Placed).totalOrders = Cardinality(Placed) - Cardinality(gone)
      /\ Performance(Placed).fees = Fees(Placed)
  BY DEF Performance
<1> HIDE DEF gone, going
<1>6. \A o \in Counted(Placed) : FeeOf[o] \in Nat
  BY <1>1 DEF FeesPaid, FeeOf, Placed
<1>7. IsFiniteSet(Counted(Placed))
  BY <1>1, FS_Subset
<1>8. Fees(Placed) \in Nat
  BY <1>6, <1>7, SumNat DEF Fees
<1>9. QED  BY <1>2, <1>4, <1>5, <1>8

(* What the account and the summary of its orders range over: no balance   *)
(* gets negative, no order is filled beyond its amount, and no more orders *)
(* are reported open than there are: api.orders.service.ts:201.            *)
THEOREM AccountIsTyped == Spec => []AccountTypeOK
<1>1. CashInv /\ [Next]_vars => CashInv'
  BY CashNextKeeps
<1>2. Init => FeesPaid
  BY DEF Init, InitAccount, Unplaced, FeesPaid
<1>3. CashInv /\ FeesPaid /\ [Next]_vars => FeesPaid'
  BY FeesNext
<1>4. CashInv /\ FeesPaid => AccountTypeOK
  <2> SUFFICES ASSUME CashInv, FeesPaid PROVE AccountTypeOK
    OBVIOUS
  <2>1. AccountTyped /\ FillsOK /\ spent = SumFunctionOnSet(Flow, Id)
    BY DEF CashInv, AccountInv
  <2>2. ASSUME NEW o \in Id
        PROVE  /\ orders[o].status \in Status /\ orders[o].side \in Side
               /\ orders[o].filled \in 0..orders[o].amount
               /\ orders[o].cost \in Nat /\ orders[o].fee \in Nat
    <3>1. /\ orders[o] \in OrderState /\ orders[o].filled \in Nat
          /\ orders[o].amount \in Nat /\ orders[o].cost \in Int
          /\ orders[o].filled <= orders[o].amount /\ orders[o].cost >= orders[o].filled
      BY <2>1, OrderTyped DEF FillsOK
    <3>2. orders[o].status \in Status /\ orders[o].side \in Side
      BY <3>1 DEF OrderState
    <3>3. QED  BY <3>1, <3>2 DEF FeesPaid
  <2>3. spent \in Int
    BY <2>1, FlowTyped, SumInt, SizingAssumption
  <2>4. QED  BY <2>1, <2>2, <2>3, SummaryCounts DEF AccountTypeOK, AccountTyped
<1>5. QED  BY <1>1, <1>2, <1>3, <1>4, CashInit, PTL DEF Spec

-----------------------------------------------------------------------------
(* Fills at the limit *)

(* Two sums whose terms change by what they take from one another.         *)
LEMMA SumsShift ==
    ASSUME NEW f, NEW g, NEW f2, NEW g2, NEW S, IsFiniteSet(S),
           \A x \in S : /\ f[x] \in Int /\ g[x] \in Int /\ f2[x] \in Int /\ g2[x] \in Int
                        /\ f2[x] + g2[x] = f[x] + g[x]
    PROVE  SumFunctionOnSet(f2, S) + SumFunctionOnSet(g2, S) =
           SumFunctionOnSet(f, S) + SumFunctionOnSet(g, S)
<1> DEFINE h == [x \in S |-> f[x] + g[x]]
<1>1. \A x \in S : h[x] = f[x] + g[x] /\ h[x] = f2[x] + g2[x]
  OBVIOUS
<1> HIDE DEF h
<1>2. SumFunctionOnSet(h, S) = SumFunctionOnSet(f, S) + SumFunctionOnSet(g, S)
  BY <1>1, SumPlus
<1>3. SumFunctionOnSet(h, S) = SumFunctionOnSet(f2, S) + SumFunctionOnSet(g2, S)
  BY <1>1, SumPlus
<1>4. QED  BY <1>2, <1>3

LEMMA OnlyFillsMove ==
    ASSUME CashInv, [Next]_vars, NEW o \in Id, orders'[o].filled # orders[o].filled
    PROVE  \E n, p \in Nat \ {0} : Filled(o, n, p) /\ n * p \in Nat
<1>1. AccountInv /\ FillsOK
  BY DEF CashInv
<1>2. ~FillsStay /\ ~UNCHANGED vars
  BY DEF FillsStay, vars
<1>3. PICK x \in Id :
          \/ \E q \in Quantity, p \in Price, side \in Side, told \in MarketKnown :
                Size(x, q, p, side, told)
          \/ Submit(x)
          \/ \E p \in Price, n \in 1..MaxQty : Fill(x, n, p)
          \/ Ended(x)
  BY <1>2 DEF Next, AccountNext
<1>4. PICK p \in Price, n \in 1..MaxQty : Fill(x, n, p)
  BY <1>1, <1>2, <1>3, SizePaysNothing, SubmitPaysNothing, EndedPaysNothing
<1>5. Filled(x, n, p) /\ n \in Nat \ {0} /\ p \in Nat \ {0} /\ n * p \in Nat
  BY <1>1, <1>4, FillFills
<1>6. x = o
  BY <1>5 DEF Filled
<1>7. QED  BY <1>5, <1>6

LEMMA FillKeepsCounted ==
    ASSUME NEW o \in Id, NEW n, NEW p, Filled(o, n, p)
    PROVE  /\ Counted(Placed)' = Counted(Placed) /\ o \in Counted(Placed)
           /\ \A side : OfSide(Placed, side)' = OfSide(Placed, side)
<1>1. \A x \in Id : /\ (x \in Placed)' <=> x \in Placed
                    /\ Cancelled(x)' <=> Cancelled(x)
                    /\ orders'[x].side = orders[x].side
  BY DEF Filled, Placed, Cancelled
<1>2. o \in Placed /\ ~Cancelled(o)
  BY DEF Filled, Placed, Cancelled
<1>3. Placed' = Placed /\ Placed \subseteq Id
  BY <1>1 DEF Placed
<1>4. Counted(Placed)' = Counted(Placed) /\ Counted(Placed) \subseteq Id
  BY <1>1, <1>3 DEF Counted
<1>5. \A side : OfSide(Placed, side)' = OfSide(Placed, side)
  BY <1>1, <1>4 DEF OfSide
<1>6. QED  BY <1>2, <1>4, <1>5 DEF Counted

LEMMA Distribute ==
    ASSUME NEW a \in Int, NEW b \in Int, NEW n \in Int
    PROVE  (a - n) * b = a * b - n * b
OBVIOUS

LEMMA IntProduct == ASSUME NEW a \in Int, NEW b \in Int PROVE a * b \in Int
OBVIOUS

(* What a fill at the limit does to the terms of the report.               *)
LEMMA FillAtLimit ==
    ASSUME CashInv, CashInv', NEW o \in Id, NEW n \in Nat \ {0}, NEW p \in Nat \ {0},
           Filled(o, n, p), n * p \in Nat, AtLimit(o)
    PROVE  \A x \in Id :
             /\ VolumeOf[x] \in Int /\ VolumeOf'[x] \in Int
             /\ RemainingOf[x] \in Int /\ RemainingOf'[x] \in Int
             /\ VolumeOf'[x] + RemainingOf'[x] = VolumeOf[x] + RemainingOf[x]
             /\ CostOf[x] \in Int /\ CostOf'[x] \in Int
             /\ AnticipatedCostOf[x] \in Int /\ AnticipatedCostOf'[x] \in Int
             /\ CostOf'[x] + AnticipatedCostOf'[x] = CostOf[x] + AnticipatedCostOf[x]
             /\ FeeOf[x] \in Int /\ FeeOf'[x] \in Int
             /\ FeeOf'[x] = FeeOf[x] + IF x = o THEN Fee ELSE 0
<1> TAKE x \in Id
<1>1. /\ orders[x].filled \in Nat /\ orders[x].amount \in Nat /\ orders[x].price \in Nat
      /\ orders[x].cost \in Int /\ orders[x].fee \in Int /\ Fee \in Nat
  BY OrderTyped, SizingAssumption DEF CashInv, AccountInv
<1>2. /\ VolumeOf[x] = orders[x].filled
      /\ VolumeOf'[x] = orders'[x].filled
      /\ RemainingOf[x] = orders[x].amount - orders[x].filled
      /\ RemainingOf'[x] = orders'[x].amount - orders'[x].filled
      /\ FeeOf[x] = orders[x].fee /\ FeeOf'[x] = orders'[x].fee
  BY DEF VolumeOf, RemainingOf, FeeOf
<1>3. /\ AnticipatedCostOf[x] = RemainingOf[x] * orders[x].price
      /\ AnticipatedCostOf'[x] = RemainingOf'[x] * orders'[x].price
  BY DEF AnticipatedCostOf
<1>4. CostOf[x] = orders[x].cost
  BY CostIsCost
<1>5. CostOf'[x] = orders'[x].cost
  <2>1. orders' \in [Id -> OrderState] /\ orders'[x] \in OrderState
    BY DEF CashInv, AccountInv, AccountTyped
  <2>2. /\ orders'[x].filled \in Nat /\ orders'[x].price \in Nat /\ orders'[x].cost \in Int
    BY <2>1 DEF OrderState
  <2>3. /\ orders'[x].cost >= orders'[x].filled
        /\ orders'[x].filled = 0 => orders'[x].cost = 0
    BY DEF CashInv, FillsOK
  <2>4. orders'[x].cost = 0 => orders'[x].filled = 0
    BY <2>2, <2>3
  <2>5. orders'[x].filled = 0 => orders'[x].filled * orders'[x].price = 0
    BY <2>2
  <2>6. CostOf'[x] = IF orders'[x].cost # 0 THEN orders'[x].cost
                     ELSE orders'[x].filled * orders'[x].price
    BY DEF CostOf
  <2>7. QED  BY <2>4, <2>5, <2>6
<1>6. CASE x # o
  <2>1. orders'[x] = orders[x]
    BY <1>6 DEF Filled
  <2>2. RemainingOf[x] \in Int /\ RemainingOf[x] * orders[x].price \in Int
    <3>1. RemainingOf[x] \in Int /\ orders[x].price \in Int
      BY <1>1, <1>2
    <3>2. \A a, b \in Int : a * b \in Int
      BY IntProduct
    <3>3. QED  BY <3>1, <3>2
  <2>3. /\ RemainingOf'[x] = RemainingOf[x] /\ AnticipatedCostOf'[x] = AnticipatedCostOf[x]
        /\ VolumeOf'[x] = VolumeOf[x] /\ CostOf'[x] = CostOf[x] /\ FeeOf'[x] = FeeOf[x]
    BY <1>2, <1>3, <1>4, <1>5, <2>1
  <2>4. /\ AnticipatedCostOf[x] \in Int /\ CostOf[x] \in Int /\ VolumeOf[x] \in Int
        /\ FeeOf[x] \in Int
    BY <1>1, <1>2, <1>3, <1>4, <2>2
  <2>5. FeeOf[x] = FeeOf[x] + IF x = o THEN Fee ELSE 0
    BY <1>6, <2>4
  <2>6. QED  BY <2>2, <2>3, <2>4, <2>5
<1>7. CASE x = o
  <2> DEFINE r == orders[o].price  left == orders[o].amount - orders[o].filled
             f == orders[o].filled  c == orders[o].cost  e == orders[o].fee
  <2>1. /\ orders'[o].filled = f + n /\ orders'[o].amount = orders[o].amount
        /\ orders'[o].price = r /\ orders'[o].fee = e + Fee /\ orders'[o].cost = c + n * p
    BY DEF Filled
  <2>2. /\ f \in Int /\ left \in Int /\ r \in Int /\ c \in Int /\ e \in Int
    BY <1>1, <1>7
  <2>3. n * r = n * p
    <3>1. (c + n * p) - c = ((f + n) - f) * r
      BY <2>1 DEF AtLimit
    <3>2. (f + n) - f = n
      BY <2>2
    <3>3. (c + n * p) - c = n * p
      BY <2>2
    <3>4. QED  BY <3>1, <3>2, <3>3
  <2>4. orders'[o].amount - orders'[o].filled = left - n
    BY <1>1, <1>7, <2>1
  <2>5. (left - n) * r = left * r - n * r /\ left * r \in Int
    <3>1. \A a, b, m \in Int : (a - m) * b = a * b - m * b /\ a * b \in Int
      BY Distribute, IntProduct
    <3>2. left \in Int /\ r \in Int /\ n \in Int
      BY <2>2
    <3> HIDE DEF left, r
    <3>3. QED  BY <3>1, <3>2
  <2>6. /\ RemainingOf[x] = left /\ RemainingOf'[x] = left - n
        /\ VolumeOf[x] = f /\ VolumeOf'[x] = f + n
        /\ FeeOf[x] = e /\ FeeOf'[x] = e + Fee
        /\ CostOf[x] = c /\ CostOf'[x] = c + n * p
    BY <1>2, <1>4, <1>5, <1>7, <2>1, <2>4
  <2>7. AnticipatedCostOf[x] = left * r /\ AnticipatedCostOf'[x] = left * r - n * p
    BY <1>3, <1>7, <2>1, <2>3, <2>5, <2>6
  <2> DEFINE lr == left * r  np == n * p
  <2>8. /\ lr \in Int /\ np \in Int /\ CostOf'[x] = c + np
        /\ AnticipatedCostOf[x] = lr /\ AnticipatedCostOf'[x] = lr - np
    BY <2>5, <2>6, <2>7
  <2> HIDE DEF lr, np, left, f, c, e, r
  <2>9. /\ VolumeOf'[x] + RemainingOf'[x] = VolumeOf[x] + RemainingOf[x]
        /\ VolumeOf[x] \in Int /\ VolumeOf'[x] \in Int
        /\ RemainingOf[x] \in Int /\ RemainingOf'[x] \in Int
    BY <2>2, <2>6
  <2>10. /\ CostOf[x] \in Int /\ CostOf'[x] \in Int
         /\ AnticipatedCostOf[x] \in Int /\ AnticipatedCostOf'[x] \in Int
         /\ CostOf'[x] + AnticipatedCostOf'[x] = CostOf[x] + AnticipatedCostOf[x]
    BY <2>2, <2>6, <2>8
  <2>11. /\ FeeOf[x] \in Int /\ FeeOf'[x] \in Int
         /\ FeeOf'[x] = FeeOf[x] + IF x = o THEN Fee ELSE 0
    BY <1>1, <1>7, <2>2, <2>6
  <2>12. QED  BY <2>9, <2>10, <2>11
<1>8. QED  BY <1>6, <1>7

(* A gain less a fee.                                                      *)
LEMMA GainLess ==
    ASSUME NEW a, NEW b, NEW c, NEW d, NEW e, NEW f, NEW k,
           {a, b, c, d, e, k} \subseteq Int, f = e + k
    PROVE  /\ Gain(a, b, c, d, f).den = Gain(a, b, c, d, e).den
           /\ Gain(a, b, c, d, f).num =
              Gain(a, b, c, d, e).num - k * Gain(a, b, c, d, e).den
<1>1. CASE c = 0
  BY <1>1 DEF Gain
<1>2. CASE c # 0
  <2> DEFINE da == d * a  x == (b - e) * c  kc == k * c
  <2>1. (b - (e + k)) * c = x - kc
    <3>1. b - (e + k) = (b - e) - k
      OBVIOUS
    <3>2. ((b - e) - k) * c = (b - e) * c - k * c
      BY Distribute
    <3>3. QED  BY <3>1, <3>2
  <2>2. da \in Int /\ x \in Int /\ kc \in Int
    BY IntProduct
  <2>3. /\ Gain(a, b, c, d, f).num = (b - (e + k)) * c - da
        /\ Gain(a, b, c, d, e).num = x - da
        /\ Gain(a, b, c, d, e).den = c /\ Gain(a, b, c, d, f).den = c
    BY <1>2 DEF Gain
  <2>4. k * Gain(a, b, c, d, e).den = kc
    BY <2>3
  <2>5. (x - kc) - da = (x - da) - kc
    <3> HIDE DEF x, da, kc
    <3>1. QED  BY <2>2
  <2> HIDE DEF x, da, kc
  <2>6. QED  BY <2>1, <2>3, <2>4, <2>5
<1>3. QED  BY <1>1, <1>2

LEMMA FinalsStay ==
    ASSUME CashInv, CashInv', NEW o \in Id, NEW n \in Nat \ {0}, NEW p \in Nat \ {0},
           Filled(o, n, p), n * p \in Nat, AtLimit(o)
    PROVE  /\ \A side : /\ FinalVolume(Placed, side)' = FinalVolume(Placed, side)
                        /\ FinalCost(Placed, side)' = FinalCost(Placed, side)
                        /\ FinalVolume(Placed, side) \in Int
                        /\ FinalCost(Placed, side) \in Int
           /\ Fees(Placed)' = Fees(Placed) + Fee
           /\ Fees(Placed) \in Int
<1>1. ASSUME NEW side
      PROVE  /\ FinalVolume(Placed, side)' = FinalVolume(Placed, side)
             /\ FinalCost(Placed, side)' = FinalCost(Placed, side)
             /\ FinalVolume(Placed, side) \in Int
             /\ FinalCost(Placed, side) \in Int
  <2> DEFINE T == OfSide(Placed, side)
  <2>1. T' = T /\ T \subseteq Id
    BY FillKeepsCounted DEF OfSide, Counted, Placed
  <2>2. IsFiniteSet(T)
    BY <2>1, SizingAssumption, FS_Subset
  <2>3. /\ FinalVolume(Placed, side) =
             SumFunctionOnSet(VolumeOf, T) + SumFunctionOnSet(RemainingOf, T)
        /\ FinalCost(Placed, side) =
             SumFunctionOnSet(CostOf, T) + SumFunctionOnSet(AnticipatedCostOf, T)
    BY DEF FinalVolume, FinalCost, Volume, Cost
  <2>4. /\ FinalVolume(Placed, side)' =
             SumFunctionOnSet(VolumeOf', T) + SumFunctionOnSet(RemainingOf', T)
        /\ FinalCost(Placed, side)' =
             SumFunctionOnSet(CostOf', T) + SumFunctionOnSet(AnticipatedCostOf', T)
    BY <2>1 DEF FinalVolume, FinalCost, Volume, Cost
  <2> HIDE DEF T
  <2>5. SumFunctionOnSet(VolumeOf', T) + SumFunctionOnSet(RemainingOf', T) =
        SumFunctionOnSet(VolumeOf, T) + SumFunctionOnSet(RemainingOf, T)
    <3>1. \A x \in T : /\ VolumeOf[x] \in Int /\ VolumeOf'[x] \in Int
                       /\ RemainingOf[x] \in Int /\ RemainingOf'[x] \in Int
                       /\ VolumeOf'[x] + RemainingOf'[x] = VolumeOf[x] + RemainingOf[x]
      BY <2>1, FillAtLimit
    <3>2. QED  BY <2>2, <3>1, SumsShift
  <2>6. SumFunctionOnSet(CostOf', T) + SumFunctionOnSet(AnticipatedCostOf', T) =
        SumFunctionOnSet(CostOf, T) + SumFunctionOnSet(AnticipatedCostOf, T)
    <3>1. \A x \in T :
             /\ CostOf[x] \in Int /\ CostOf'[x] \in Int
             /\ AnticipatedCostOf[x] \in Int /\ AnticipatedCostOf'[x] \in Int
             /\ CostOf'[x] + AnticipatedCostOf'[x] = CostOf[x] + AnticipatedCostOf[x]
      BY <2>1, FillAtLimit
    <3>2. QED  BY <2>2, <3>1, SumsShift
  <2>7. /\ SumFunctionOnSet(VolumeOf, T) \in Int /\ SumFunctionOnSet(RemainingOf, T) \in Int
        /\ SumFunctionOnSet(CostOf, T) \in Int
        /\ SumFunctionOnSet(AnticipatedCostOf, T) \in Int
    <3>1. \A x \in T : /\ VolumeOf[x] \in Int /\ RemainingOf[x] \in Int
                       /\ CostOf[x] \in Int /\ AnticipatedCostOf[x] \in Int
      BY <2>1, FillAtLimit
    <3>2. QED  BY <2>2, <3>1, SumInt
  <2>8. QED  BY <2>3, <2>4, <2>5, <2>6, <2>7
<1>2. Fees(Placed)' = Fees(Placed) + Fee /\ Fees(Placed) \in Int
  <2> DEFINE T == Counted(Placed)
  <2>1. T' = T /\ T \subseteq Id /\ o \in T
    BY FillKeepsCounted DEF Counted, Placed
  <2>2. IsFiniteSet(T) /\ Fee \in Nat
    BY <2>1, SizingAssumption, FS_Subset
  <2>3. Fees(Placed) = SumFunctionOnSet(FeeOf, T) /\ Fees(Placed)' = SumFunctionOnSet(FeeOf', T)
    BY <2>1 DEF Fees
  <2> HIDE DEF T
  <2>4. \A x \in T : /\ FeeOf[x] \in Int /\ FeeOf'[x] \in Int
                     /\ FeeOf'[x] = FeeOf[x] + IF x = o THEN Fee ELSE 0
    BY <2>1, FillAtLimit
  <2>5. \A x \in T : FeeOf[x] \in Int /\ FeeOf'[x] \in Int /\ (x # o => FeeOf'[x] = FeeOf[x])
    BY <2>4
  <2>6. SumFunctionOnSet(FeeOf', T) = SumFunctionOnSet(FeeOf, T) + FeeOf'[o] - FeeOf[o]
    BY <2>1, <2>2, <2>5, SumChange
  <2>7. SumFunctionOnSet(FeeOf, T) \in Int
    BY <2>2, <2>4, SumInt
  <2>8. FeeOf'[o] = FeeOf[o] + Fee /\ FeeOf[o] \in Int
    BY <2>1, <2>4
  <2>9. QED  BY <2>2, <2>3, <2>6, <2>7, <2>8
<1>3. QED  BY <1>1, <1>2

LEMMA FeeOnly ==
    ASSUME CashInv, CashInv', [Next]_vars, NEW o \in Id,
           orders'[o].filled # orders[o].filled, AtLimit(o)
    PROVE  LET p == Performance(Placed).anticipatedProfit
               q == Performance(Placed)'.anticipatedProfit IN
           q.den = p.den /\ q.num = p.num - Fee * p.den
<1>1. PICK n \in Nat \ {0}, p \in Nat \ {0} : Filled(o, n, p) /\ n * p \in Nat
  BY OnlyFillsMove
<1> DEFINE a == FinalVolume(Placed, "sell")  b == FinalCost(Placed, "sell")
           c == FinalVolume(Placed, "buy")   d == FinalCost(Placed, "buy")
           e == Fees(Placed)
<1>2. /\ a' = a /\ b' = b /\ c' = c /\ d' = d /\ e' = e + Fee
      /\ a \in Int /\ b \in Int /\ c \in Int /\ d \in Int /\ e \in Int /\ Fee \in Int
  BY <1>1, FinalsStay, SizingAssumption
<1>3. Performance(Placed).anticipatedProfit = Gain(a, b, c, d, e)
  BY DEF Performance
<1>4. Performance(Placed)'.anticipatedProfit = Gain(a', b', c', d', e')
  BY DEF Performance, Gain
<1> HIDE DEF a, b, c, d, e
<1>5. Performance(Placed)'.anticipatedProfit = Gain(a, b, c, d, e')
  BY <1>2, <1>4
<1> DEFINE f == e'
<1>6. f = e + Fee
  BY <1>2
<1> HIDE DEF f
<1>7. /\ Gain(a, b, c, d, f).den = Gain(a, b, c, d, e).den
      /\ Gain(a, b, c, d, f).num =
         Gain(a, b, c, d, e).num - Fee * Gain(a, b, c, d, e).den
  <2>1. {a, b, c, d, e, Fee} \subseteq Int
    BY <1>2
  <2>2. QED  BY <1>6, <2>1, GainLess
<1> DEFINE x == Performance(Placed).anticipatedProfit
           y == Performance(Placed)'.anticipatedProfit
<1>8. x = Gain(a, b, c, d, e) /\ y = Gain(a, b, c, d, f)
  BY <1>3, <1>5 DEF f
<1> SUFFICES y.den = x.den /\ y.num = x.num - Fee * x.den
  OBVIOUS
<1> HIDE DEF x, y
<1>9. QED  BY <1>7, <1>8

(* api.orders.service.ts:180: a fill at the limit changes the anticipated  *)
(* profit by its fee only, however the orders are split, for any orders,   *)
(* prices and fees.                                                        *)
THEOREM FillsAtLimitCostTheFee == Spec => AnticipationIsKept
<1>1. CashInv /\ [Next]_vars => CashInv'
  BY CashNextKeeps
<1>2. ASSUME CashInv, CashInv', [Next]_vars
      PROVE  [\A o \in Id :
                 orders'[o].filled # orders[o].filled /\ AtLimit(o) =>
                     LET p == Performance(Placed).anticipatedProfit
                         q == Performance(Placed)'.anticipatedProfit IN
                     /\ q.den = p.den
                     /\ q.num = p.num - Fee * p.den]_orders
  BY <1>2, FeeOnly
<1>3. QED  BY <1>1, <1>2, CashInit, PTL DEF Spec, AnticipationIsKept

-----------------------------------------------------------------------------
(* A buffer is a record of the exchange *)

(* Does the candle under way at a moment end with it; and what was the     *)
(* last moment a stream may have told of.                                  *)
Closing(k, t) == t = LastTickOf(k, CandleAt(k, t))
HeardUpTo(k) == IF k \in pending THEN clock - 1 ELSE clock

(* A reload ends before the market is listened to.                         *)
InTurn == IF wired THEN loading = {} /\ seeding = {} ELSE streams = {}

(* What a buffer last heard at a moment holds: consecutive candles, up to  *)
(* that moment's; and no candle has ended since.                           *)
Record(k, b, h) ==
    LET n == Len(b) IN
    /\ n > 0 /\ b[n].close = h
    /\ \A i \in 1..n : b[i].timestamp = CandleAt(k, h) - n + i
    /\ \A i \in 1..(n - 1) : b[i].isClosed /\ b[i].close = LastTickOf(k, b[i].timestamp)
Book(k) ==
    LET b == buffer[k] h == heard[k] IN
    /\ Record(k, b, h)
    /\ h <= HeardUpTo(k) /\ LastClosed(k, h) = LastClosed(k, HeardUpTo(k))
    /\ IF known[k] = "heard" THEN b[Len(b)].isClosed <=> Closing(k, h) ELSE ~Closing(k, h)
BooksOK == \A k \in Stream : known[k] # "no" => Book(k)

(* A buffer holds what an activator needs, all there is, or all it may.    *)
Holds(a) ==
    LET n == Len(buffer[a.stream]) IN
    n >= MaxBuffer \/ n > CandleAt(a.stream, heard[a.stream]) \/ n >= a.period + Warmup
Feeds(a) == a.name = "sma" /\ a.stream \notin seeding /\ known[a.stream] # "no"
Serving == IF wired THEN armed ELSE loading
HoldsOK == \A r \in Serving : \A a \in Activators[r] : Feeds(a) => Holds(a)
EvaluationInv == EvaluationTypeOK /\ InTurn /\ BooksOK /\ HoldsOK

-----------------------------------------------------------------------------
(* The exchange's clock *)

LEMMA DivUnique ==
    ASSUME NEW a \in Nat, NEW d \in Nat \ {0}, NEW q \in Nat, q * d <= a, a < q * d + d
    PROVE  a \div d = q
<1> DEFINE m == a \div d
<1>1. m \in Nat /\ m * d <= a /\ a < m * d + d
  OBVIOUS
<1> HIDE DEF m
<1>2. ASSUME m < q PROVE FALSE
  <2>1. d * (m + 1) <= d * q
    BY <1>1, <1>2, ProductGrows
  <2>2. d * (m + 1) = m * d + d /\ d * q = q * d
    BY <1>1
  <2>3. QED  BY <1>1, <2>1, <2>2
<1>3. ASSUME q < m PROVE FALSE
  <2>1. d * (q + 1) <= d * m
    BY <1>1, <1>3, ProductGrows
  <2>2. d * (q + 1) = q * d + d /\ d * m = m * d
    BY <1>1
  <2>3. QED  BY <1>1, <2>1, <2>2
<1>4. QED  BY <1>1, <1>2, <1>3 DEF m

LEMMA Clockwork ==
    ASSUME NEW k \in Stream, NEW t \in Nat
    PROVE  /\ CandleAt(k, t) \in Nat /\ LastTickOf(k, CandleAt(k, t)) \in Nat
           /\ t <= LastTickOf(k, CandleAt(k, t))
           /\ CandleAt(k, t + 1) = LastClosed(k, t) + 1
           /\ LastClosed(k, t) = IF Closing(k, t) THEN CandleAt(k, t) ELSE CandleAt(k, t) - 1
           /\ CandleAt(k, t) <= t
<1> DEFINE d == Duration[k]
           c == t \div d
<1>1. d \in Nat \ {0}
  BY MarketAssumption
<1>2. CandleAt(k, t) = c /\ LastTickOf(k, c) = c * d + d - 1
  BY DEF CandleAt, LastTickOf
<1> HIDE DEF d
<1>3. c \in Nat /\ c * d <= t /\ t < c * d + d /\ c * d \in Nat
  BY <1>1
<1> HIDE DEF c
<1>4. LastClosed(k, t) = IF Closing(k, t) THEN c ELSE c - 1
  BY <1>2 DEF LastClosed, Closing
<1>5. Closing(k, t) <=> t = c * d + d - 1
  BY <1>2 DEF Closing
<1>6. CandleAt(k, t + 1) = IF Closing(k, t) THEN c + 1 ELSE c
  <2>0. CandleAt(k, t + 1) = (t + 1) \div d
    BY DEF CandleAt, d
  <2>1. CASE Closing(k, t)
    <3>1. (c + 1) * d = c * d + d
      BY <1>1, <1>3
    <3>2. QED  BY <1>1, <1>3, <1>5, <2>0, <2>1, <3>1, DivUnique
  <2>2. CASE ~Closing(k, t)
    BY <1>1, <1>3, <1>5, <2>0, <2>2, DivUnique
  <2>3. QED  BY <2>1, <2>2
<1>7. c <= t
  <2>1. c * 1 <= c * d
    BY <1>1, <1>3, ProductGrows
  <2>2. QED  BY <1>3, <2>1
<1>8. QED  BY <1>1, <1>2, <1>3, <1>4, <1>6, <1>7

(* From a moment to a later one, if no candle ended in between.            *)
LEMMA NextCandle ==
    ASSUME NEW k \in Stream, NEW h \in Nat, NEW t \in Nat, h < t,
           LastClosed(k, h) = LastClosed(k, t - 1)
    PROVE  CandleAt(k, t) = IF Closing(k, h) THEN CandleAt(k, h) + 1 ELSE CandleAt(k, h)
<1>1. t - 1 \in Nat /\ CandleAt(k, (t - 1) + 1) = LastClosed(k, t - 1) + 1 /\ (t - 1) + 1 = t
  BY Clockwork
<1>2. QED  BY <1>1, Clockwork

LEMMA StillOpen ==
    ASSUME NEW k \in Stream, NEW t \in Nat, ~Closing(k, t + 1)
    PROVE  LastClosed(k, t + 1) = LastClosed(k, t)
<1>1. /\ t + 1 \in Nat /\ CandleAt(k, t + 1) = LastClosed(k, t) + 1
      /\ LastClosed(k, t + 1) = CandleAt(k, t + 1) - 1
      /\ LastClosed(k, t) = IF Closing(k, t) THEN CandleAt(k, t) ELSE CandleAt(k, t) - 1
      /\ CandleAt(k, t) \in Nat
  BY Clockwork
<1>2. QED  BY <1>1

-----------------------------------------------------------------------------
(* Buffers *)

LEMMA TickCandle ==
    ASSUME NEW k \in Stream, NEW t \in Nat
    PROVE  /\ Tick(k, t) \in Candle
           /\ Tick(k, t).timestamp = CandleAt(k, t) /\ Tick(k, t).close = t
           /\ Tick(k, t).isClosed <=> Closing(k, t)
BY Clockwork DEF Tick, Candle, Closing

LEMMA MergedRecord ==
    ASSUME NEW k \in Stream, NEW b \in Seq(Candle), NEW h \in Nat, NEW t \in Nat, h < t,
           Record(k, b, h), Closing(k, h) => b[Len(b)].isClosed,
           LastClosed(k, h) = LastClosed(k, t - 1)
    PROVE  LET m == Merged(b, Tick(k, t)) IN
           /\ m \in Seq(Candle) /\ Record(k, m, t)
           /\ m[Len(m)].isClosed <=> Closing(k, t)
           /\ Len(m) >= Len(b) /\ Len(m) - Len(b) = CandleAt(k, t) - CandleAt(k, h)
<1> DEFINE c == Tick(k, t)
           n == Len(b)
           m == Merged(b, c)
<1>1. /\ c \in Candle /\ c.timestamp = CandleAt(k, t) /\ c.close = t
      /\ c.isClosed <=> Closing(k, t)
  BY TickCandle
<1>2. n \in Nat /\ n > 0 /\ b[n].timestamp = CandleAt(k, h) /\ b[n].close = h
  <2>1. n \in Nat /\ n > 0 /\ n \in 1..n /\ b[n].close = h
    BY DEF Record
  <2>2. b[n].timestamp = CandleAt(k, h) - n + n
    BY <2>1 DEF Record
  <2>3. QED  BY <2>1, <2>2, Clockwork
<1>3. CandleAt(k, h) \in Nat /\ CandleAt(k, t) \in Nat
  BY Clockwork
<1>4. \A i \in 1..n : b[i].timestamp = CandleAt(k, h) - n + i
  BY DEF Record
<1>5. \A i \in 1..(n - 1) : b[i].isClosed /\ b[i].close = LastTickOf(k, b[i].timestamp)
  BY DEF Record
<1> HIDE DEF c
<1>6. CASE Closing(k, h)
  <2>1. CandleAt(k, t) = CandleAt(k, h) + 1
    BY <1>6, NextCandle
  <2>2. m = Append(b, c)
    BY <1>1, <1>2, <1>3, <2>1 DEF Merged
  <2>3. /\ m \in Seq(Candle) /\ Len(m) = n + 1 /\ m[n + 1] = c
        /\ \A i \in 1..n : m[i] = b[i]
    BY <1>1, <2>2
  <2>4. b[n].isClosed /\ b[n].close = LastTickOf(k, b[n].timestamp)
    BY <1>2, <1>6 DEF Closing
  <2> HIDE DEF m, n
  <2>5. ASSUME NEW i \in 1..(n + 1) PROVE m[i].timestamp = CandleAt(k, t) - (n + 1) + i
    <3>1. CASE i = n + 1
      BY <1>1, <1>2, <1>3, <2>3, <3>1
    <3>2. CASE i # n + 1
      <4>1. i \in 1..n
        BY <1>2, <3>2
      <4>2. m[i].timestamp = CandleAt(k, h) - n + i
        BY <1>4, <2>3, <4>1
      <4>3. QED  BY <1>2, <1>3, <2>1, <4>1, <4>2
    <3>3. QED  BY <3>1, <3>2
  <2>6. \A i \in 1..n : m[i].isClosed /\ m[i].close = LastTickOf(k, m[i].timestamp)
    BY <1>2, <1>5, <2>3, <2>4
  <2>7. Record(k, m, t)
    BY <1>1, <1>2, <2>3, <2>5, <2>6 DEF Record
  <2>8. QED  BY <1>1, <1>2, <1>3, <2>1, <2>3, <2>7 DEF m, n, c
<1>7. CASE ~Closing(k, h)
  <2>1. CandleAt(k, t) = CandleAt(k, h)
    BY <1>7, NextCandle
  <2>2. m = [b EXCEPT ![n] = c]
    BY <1>1, <1>2, <1>3, <2>1 DEF Merged
  <2>3. /\ m \in Seq(Candle) /\ Len(m) = n /\ m[n] = c
        /\ \A i \in 1..(n - 1) : m[i] = b[i]
    BY <1>1, <1>2, <2>2
  <2> HIDE DEF m, n
  <2>4. ASSUME NEW i \in 1..n PROVE m[i].timestamp = CandleAt(k, t) - n + i
    <3>1. CASE i = n
      BY <1>1, <1>2, <1>3, <2>3, <3>1
    <3>2. CASE i # n
      <4>1. i \in 1..(n - 1)
        BY <1>2, <3>2
      <4>2. QED  BY <1>4, <2>1, <2>3, <4>1
    <3>3. QED  BY <3>1, <3>2
  <2>5. Record(k, m, t)
    BY <1>1, <1>2, <1>5, <2>3, <2>4 DEF Record
  <2>6. QED  BY <1>1, <1>2, <1>3, <2>1, <2>3, <2>5 DEF m, n, c
<1>8. QED  BY <1>6, <1>7

LEMMA TrimmedRecord ==
    ASSUME NEW k \in Stream, NEW b \in Seq(Candle), NEW h \in Nat, Record(k, b, h)
    PROVE  LET m == Trimmed(b) IN
           /\ m \in Seq(Candle) /\ Record(k, m, h)
           /\ m[Len(m)].isClosed <=> b[Len(b)].isClosed
           /\ Len(m) = IF Len(b) > MaxBuffer THEN MaxBuffer ELSE Len(b)
<1> DEFINE m == Trimmed(b)
           n == IF Len(b) > MaxBuffer THEN Len(b) - MaxBuffer ELSE 0
<1>1. /\ n \in Nat /\ n < Len(b) /\ Len(b) \in Nat /\ m \in Seq(Candle) /\ Len(m) = Len(b) - n
      /\ \A i \in 1..Len(m) : m[i] = b[i + n]
  BY MarketAssumption DEF Trimmed, Record
<1>2. Len(m) = IF Len(b) > MaxBuffer THEN MaxBuffer ELSE Len(b)
  BY <1>1, MarketAssumption
<1> HIDE DEF m, n
<1>3. /\ b[Len(b)].close = h
      /\ \A i \in 1..Len(b) : b[i].timestamp = CandleAt(k, h) - Len(b) + i
      /\ \A i \in 1..(Len(b) - 1) : b[i].isClosed /\ b[i].close = LastTickOf(k, b[i].timestamp)
  BY DEF Record
<1>4. m[Len(m)] = b[Len(b)]
  BY <1>1
<1>5. CandleAt(k, h) \in Nat
  BY Clockwork
<1>6. ASSUME NEW i \in 1..Len(m) PROVE m[i].timestamp = CandleAt(k, h) - Len(m) + i
  <2>1. i + n \in 1..Len(b) /\ m[i] = b[i + n]
    BY <1>1
  <2>2. m[i].timestamp = CandleAt(k, h) - Len(b) + (i + n)
    BY <1>3, <2>1
  <2>3. QED  BY <1>1, <1>5, <2>2
<1>7. ASSUME NEW i \in 1..(Len(m) - 1)
      PROVE  m[i].isClosed /\ m[i].close = LastTickOf(k, m[i].timestamp)
  <2>1. i + n \in 1..(Len(b) - 1) /\ m[i] = b[i + n]
    BY <1>1
  <2>2. QED  BY <1>3, <2>1
<1>8. Record(k, m, h)
  BY <1>1, <1>3, <1>4, <1>6, <1>7 DEF Record
<1>9. QED  BY <1>1, <1>2, <1>4, <1>8 DEF m

LEMMA HistoryRecord ==
    ASSUME NEW k \in Stream, NEW t \in Nat, NEW limit \in Nat \ {0}
    PROVE  LET b == History(k, t, limit) IN
           /\ b \in Seq(Candle) /\ Record(k, b, t) /\ b[Len(b)].isClosed
           /\ Len(b) >= limit \/ Len(b) > CandleAt(k, t)
<1> DEFINE last == CandleAt(k, t)
           n == IF last + 1 < limit THEN last + 1 ELSE limit
           b == History(k, t, limit)
           At(i) == [timestamp |-> last - n + i, isClosed |-> TRUE,
                     close |-> IF last - n + i = last THEN t ELSE LastTickOf(k, last - n + i)]
<1>1. last \in Nat /\ \A c \in Nat : LastTickOf(k, c) \in Nat
  BY Clockwork, MarketAssumption DEF LastTickOf
<1>2. n \in Nat /\ n > 0 /\ n <= last + 1 /\ (n >= limit \/ n > last)
  BY <1>1
<1>3. b = [i \in 1..n |-> At(i)]
  BY DEF History
<1> HIDE DEF b, n
<1>4. \A i \in 1..n : last - n + i \in Nat /\ (last - n + i = last <=> i = n)
  BY <1>1, <1>2
<1> HIDE DEF last
<1>5. \A i \in 1..n : At(i) \in Candle
  BY <1>1, <1>4 DEF Candle
<1>6. b \in Seq(Candle) /\ Len(b) = n /\ \A i \in 1..n : b[i] = At(i)
  BY <1>2, <1>3, <1>5
<1>7. /\ \A i \in 1..n : b[i].timestamp = last - n + i /\ b[i].isClosed
      /\ \A i \in 1..(n - 1) : b[i].close = LastTickOf(k, b[i].timestamp)
      /\ b[n].close = t
  BY <1>2, <1>4, <1>6
<1>8. Record(k, b, t)
  BY <1>2, <1>6, <1>7 DEF Record, last
<1>9. QED  BY <1>2, <1>6, <1>7, <1>8 DEF b, last

-----------------------------------------------------------------------------
(* How many candles a seeding asks for *)

LEMMA MaxIs ==
    ASSUME NEW T \in SUBSET Nat, IsFiniteSet(T), T # {}
    PROVE  Max(T) \in T /\ \A x \in T : x <= Max(T)
<1> DEFINE Top(u) == \E x \in u : \A y \in u : x >= y
           F == {u \in SUBSET T : u # {} /\ ~Top(u)}
<1>1. F = {}
  <2>1. SUFFICES ASSUME F # {} PROVE FALSE
    OBVIOUS
  <2>2. /\ \A u \in F : u \subseteq T /\ u # {} /\ ~Top(u)
        /\ \A u \in SUBSET T : u = {} \/ u \in F \/ Top(u)
    OBVIOUS
  <2> HIDE DEF F
  <2>3. \A u \in F : IsFiniteSet(u)
    BY <2>2, FS_Subset
  <2>4. PICK u \in F : \A x \in u : u \ {x} \notin F
    BY <2>1, <2>3, SmallestSet
  <2>5. u \subseteq T /\ u # {} /\ ~Top(u)
    BY <2>2
  <2>6. PICK z \in u : TRUE
    BY <2>5
  <2>7. z \in Nat
    BY <2>5
  <2>8. CASE u \ {z} = {}
    <3>1. u = {z}
      BY <2>8
    <3>2. Top(u)
      BY <2>7, <3>1
    <3>3. QED  BY <2>5, <3>2
  <2>9. CASE Top(u \ {z})
    <3>1. PICK x \in u \ {z} : \A y \in u \ {z} : x >= y
      BY <2>9
    <3>2. x \in Nat
      BY <2>5
    <3>3. Top(u)
      <4>1. CASE x >= z
        BY <3>1, <4>1
      <4>2. CASE ~(x >= z)
        <5>1. \A y \in u : y \in Nat /\ (y = z \/ x >= y)
          BY <2>5, <3>1
        <5>2. \A y \in u : z >= y
          BY <2>7, <3>2, <4>2, <5>1
        <5>3. QED  BY <5>2
      <4>3. QED  BY <4>1, <4>2
    <3>4. QED  BY <2>5, <3>3
  <2>10. u \ {z} \in SUBSET T /\ u \ {z} \notin F
    BY <2>4, <2>5
  <2>11. QED  BY <2>2, <2>8, <2>9, <2>10
<1>2. Top(T)
  BY <1>1
<1>3. PICK x \in T : \A y \in T : x >= y
  BY <1>2
<1>4. Max(T) \in T /\ \A y \in T : Max(T) >= y
  BY <1>3 DEF Max
<1>5. QED  BY <1>4

LEMMA NeededIs ==
    ASSUME NEW r \in Rule, NEW a \in Activators[r]
    PROVE  /\ Needed(a) \in Nat \ {0} /\ a.period \in Nat \ {0} /\ a.stream \in Stream
           /\ a.name # "price" => Needed(a) >= a.period + Warmup
BY EvaluationAssumption DEF Needed

LEMMA RequiredIsEnough ==
    ASSUME NEW S \in SUBSET Rule, NEW k \in StreamsOf(S)
    PROVE  /\ RequiredCandles(S, k) \in Nat \ {0}
           /\ \A r \in S : \A a \in Activators[r] : a.stream = k => RequiredCandles(S, k) >= Needed(a)
<1> DEFINE all == {Activators[r] : r \in S}
           A == {b \in UNION all : b.stream = k}
           need == [a \in A |-> Needed(a)]
           T == {Needed(a) : a \in A}
<1>1. IsFiniteSet(S) /\ \A r \in S : IsFiniteSet(Activators[r])
  BY EvaluationAssumption, FS_Subset
<1>2. IsFiniteSet(all) /\ \A u \in all : IsFiniteSet(u)
  BY <1>1, ImageIsFinite
<1>3. IsFiniteSet(A)
  <2>1. IsFiniteSet(UNION all)
    BY <1>2, FS_UNION
  <2>2. QED  BY <2>1, FS_Subset
<1>4. \A a \in A : Needed(a) \in Nat \ {0}
  BY NeededIs
<1>5. T = {need[a] : a \in A}
  OBVIOUS
<1>6. IsFiniteSet(T) /\ T \in SUBSET (Nat \ {0})
  BY <1>3, <1>4, <1>5, ImageIsFinite
<1>7. T # {}
  <2>1. PICK a \in UNION all : a.stream = k
    BY DEF StreamsOf
  <2>2. QED  BY <2>1
<1>8. RequiredCandles(S, k) = Max(T)
  BY DEF RequiredCandles
<1>9. \A r \in S : \A a \in Activators[r] : a.stream = k => Needed(a) \in T
  OBVIOUS
<1> HIDE DEF T
<1>10. Max(T) \in T /\ \A x \in T : x <= Max(T)
  BY <1>6, <1>7, MaxIs
<1>11. QED  BY <1>6, <1>8, <1>9, <1>10

-----------------------------------------------------------------------------
(* The account is kept *)

LEMMA EvaluationTypeInit == EvaluationInit => EvaluationTypeOK /\ InTurn
<1> SUFFICES ASSUME EvaluationInit PROVE EvaluationTypeOK /\ InTurn
  OBVIOUS
<1>1. <<>> \in Seq(Candle)
  OBVIOUS
<1>2. QED  BY <1>1, EvaluationAssumption DEF EvaluationInit, InitMarket, EvaluationTypeOK, InTurn, Never

LEMMA StreamsAreStreams == ASSUME NEW S \in SUBSET Rule PROVE StreamsOf(S) \subseteq Stream
BY EvaluationAssumption DEF StreamsOf

(* What a step leaves alone of buffers and account keeps its type.         *)
LEMMA EvaluationTypeReload ==
    ASSUME NEW S \in SUBSET Rule, EvaluationTypeOK, InTurn, Reload(S) PROVE EvaluationTypeOK' /\ InTurn'
<1>1. used' \in [reloads : Nat, lost : Nat, faults : Nat]
  <2>1. used' = [used EXCEPT !.reloads = @ + 1] /\ used \in [reloads : Nat, lost : Nat, faults : Nat]
    BY DEF EvaluationTypeOK, Reload
  <2>2. QED  BY <2>1
<1>2. known' \in [Stream -> {"no", "seeded", "heard"}]
  BY DEF EvaluationTypeOK, Reload, Missed
<1>3. seeding' = StreamsOf(loading')
  BY DEF Reload, StreamsOf
<1>4. armed' \subseteq Rule
  BY DEF EvaluationTypeOK, Reload
<1>5. QED  BY <1>1, <1>2, <1>3, <1>4 DEF EvaluationTypeOK, InTurn, Reload

LEMMA SeedIs ==
    ASSUME NEW k \in Stream, EvaluationTypeOK, SeedDone(k)
    PROVE  LET b == History(k, clock, RequiredCandles(loading, k)) IN
           /\ buffer' = [buffer EXCEPT ![k] = b] /\ b \in Seq(Candle) /\ b[Len(b)].close \in Nat
           /\ Record(k, b, clock) /\ b[Len(b)].isClosed
           /\ Len(b) >= RequiredCandles(loading, k) \/ Len(b) > CandleAt(k, clock)
<1> DEFINE b == History(k, clock, RequiredCandles(loading, k))
<1>1. k \in StreamsOf(loading) /\ loading \in SUBSET Rule /\ clock \in Nat
  BY EvaluationAssumption DEF EvaluationTypeOK, SeedDone
<1>2. RequiredCandles(loading, k) \in Nat \ {0}
  BY <1>1, RequiredIsEnough
<1>3. /\ b \in Seq(Candle) /\ Record(k, b, clock) /\ b[Len(b)].isClosed
      /\ Len(b) >= RequiredCandles(loading, k) \/ Len(b) > CandleAt(k, clock)
  BY <1>1, <1>2, HistoryRecord
<1>4. buffer' = [buffer EXCEPT ![k] = b]
  BY DEF SeedDone, Seed
<1> HIDE DEF b
<1>5. b[Len(b)].close \in Nat
  BY <1>1, <1>3 DEF Record
<1>6. QED  BY <1>3, <1>4, <1>5 DEF b

LEMMA EvaluationTypeSeed ==
    ASSUME NEW k \in Stream, EvaluationTypeOK, InTurn, SeedDone(k) PROVE EvaluationTypeOK' /\ InTurn'
<1> DEFINE b == History(k, clock, RequiredCandles(loading, k))
<1>1. buffer' = [buffer EXCEPT ![k] = b] /\ b \in Seq(Candle) /\ b[Len(b)].close \in Nat
  BY SeedIs
<1>2. price' = [price EXCEPT ![SymbolOf[k]] = b[Len(b)].close]
  BY DEF SeedDone, Seed
<1> HIDE DEF b
<1>3. buffer' \in [Stream -> Seq(Candle)] /\ price' \in [Symbol -> Nat \cup {Never}]
  BY <1>1, <1>2 DEF EvaluationTypeOK
<1>4. known' \in [Stream -> {"no", "seeded", "heard"}]
  BY DEF EvaluationTypeOK, SeedDone
<1>5. heard' \in [Stream -> Nat]
  BY EvaluationAssumption DEF EvaluationTypeOK, SeedDone
<1>6. QED  BY <1>3, <1>4, <1>5 DEF EvaluationTypeOK, InTurn, SeedDone, StreamsOf

LEMMA EvaluationTypeFails ==
    ASSUME NEW k \in Stream, EvaluationTypeOK, InTurn, SeedFails(k) PROVE EvaluationTypeOK' /\ InTurn'
<1>1. used' \in [reloads : Nat, lost : Nat, faults : Nat]
  BY DEF EvaluationTypeOK, SeedFails
<1>2. known' \in [Stream -> {"no", "seeded", "heard"}]
  BY DEF EvaluationTypeOK, SeedFails
<1>3. QED  BY <1>1, <1>2 DEF EvaluationTypeOK, InTurn, SeedFails, StreamsOf

LEMMA EvaluationTypeWire ==
    ASSUME EvaluationTypeOK, InTurn, Wire PROVE EvaluationTypeOK' /\ InTurn'
<1>1. streams = {} /\ pending = {}
  BY DEF EvaluationTypeOK, InTurn, Wire
<1>2. streams' \subseteq Stream
  BY StreamsAreStreams DEF EvaluationTypeOK, Wire
<1>3. QED  BY <1>1, <1>2 DEF EvaluationTypeOK, InTurn, Wire, StreamsOf

LEMMA EvaluationTypeAdvance ==
    ASSUME EvaluationTypeOK, InTurn, Advance PROVE EvaluationTypeOK' /\ InTurn'
<1>1. clock' \in 0..MaxClock
  BY EvaluationAssumption DEF EvaluationTypeOK, Advance
<1>2. known' \in [Stream -> {"no", "seeded", "heard"}]
  BY DEF EvaluationTypeOK, Advance, Missed
<1>3. QED  BY <1>1, <1>2 DEF EvaluationTypeOK, InTurn, Advance, engineVars, StreamsOf

LEMMA EvaluationTypeLost ==
    ASSUME NEW k \in Stream, EvaluationTypeOK, InTurn, Lost(k) PROVE EvaluationTypeOK' /\ InTurn'
<1>1. used' \in [reloads : Nat, lost : Nat, faults : Nat]
  BY DEF EvaluationTypeOK, Lost
<1>2. known' \in [Stream -> {"no", "seeded", "heard"}]
  BY DEF EvaluationTypeOK, Lost, Missed
<1>3. QED  BY <1>1, <1>2 DEF EvaluationTypeOK, InTurn, Lost, engineVars, StreamsOf

LEMMA MergedIsBuffer ==
    ASSUME NEW b \in Seq(Candle), NEW c \in Candle PROVE Trimmed(Merged(b, c)) \in Seq(Candle)
<1>1. Merged(b, c) \in Seq(Candle)
  BY DEF Merged
<1>2. \A m \in Seq(Candle) : Trimmed(m) \in Seq(Candle)
  BY MarketAssumption DEF Trimmed
<1>3. QED  BY <1>1, <1>2

LEMMA EvaluationTypeDeliver ==
    ASSUME NEW k \in Stream, EvaluationTypeOK, InTurn, Deliver(k) PROVE EvaluationTypeOK' /\ InTurn'
<1> DEFINE b == Trimmed(Merged(buffer[k], Tick(k, clock)))
<1>1. clock \in Nat
  BY EvaluationAssumption DEF EvaluationTypeOK
<1>2. b \in Seq(Candle) /\ Tick(k, clock).close \in Nat
  BY <1>1, TickCandle, MergedIsBuffer DEF EvaluationTypeOK
<1>3. buffer' = [buffer EXCEPT ![k] = b] /\ price' = [price EXCEPT ![SymbolOf[k]] = Tick(k, clock).close]
  BY DEF Deliver, UpdateCandle, EvaluationTypeOK
<1> HIDE DEF b
<1>4. buffer' \in [Stream -> Seq(Candle)] /\ price' \in [Symbol -> Nat \cup {Never}]
  BY <1>2, <1>3 DEF EvaluationTypeOK
<1>5. known' \in [Stream -> {"no", "seeded", "heard"}]
  BY DEF EvaluationTypeOK, Deliver
<1>6. heard' \in [Stream -> Nat]
  BY <1>1 DEF EvaluationTypeOK, Deliver
<1>7. QED  BY <1>4, <1>5, <1>6 DEF EvaluationTypeOK, InTurn, Deliver, StreamsOf

LEMMA EvaluationTypeNext ==
    ASSUME EvaluationTypeOK, InTurn, [EvaluationNext]_evaluationVars PROVE EvaluationTypeOK' /\ InTurn'
<1>1. CASE EvaluationNext
  BY <1>1, EvaluationTypeReload, EvaluationTypeSeed, EvaluationTypeFails, EvaluationTypeWire,
     EvaluationTypeAdvance, EvaluationTypeLost, EvaluationTypeDeliver DEF EvaluationNext
<1>2. CASE UNCHANGED evaluationVars
  BY <1>2 DEF evaluationVars, engineVars, EvaluationTypeOK, InTurn, StreamsOf
<1>3. QED  BY <1>1, <1>2

(* What was heard stays the account of a later moment, if no candle ended. *)
LEMMA BookKept ==
    ASSUME NEW k \in Stream, Book(k), heard[k] \in Nat, clock \in Nat, clock' \in Nat,
           buffer'[k] = buffer[k], heard'[k] = heard[k], known'[k] = known[k],
           \/ HeardUpTo(k)' = HeardUpTo(k)
           \/ HeardUpTo(k)' = HeardUpTo(k) + 1 /\ ~Closing(k, HeardUpTo(k) + 1)
    PROVE  Book(k)'
<1> DEFINE t == HeardUpTo(k)
           u == HeardUpTo(k)'
           h == heard[k]
<1>1. t \in Int /\ h <= t /\ h \in Nat /\ LastClosed(k, h) = LastClosed(k, t)
  BY DEF HeardUpTo, Book
<1>2. u = t \/ (u = t + 1 /\ ~Closing(k, t + 1))
  OBVIOUS
<1> HIDE DEF t, u
<1>3. t \in Nat
  BY <1>1
<1>4. h <= u /\ LastClosed(k, h) = LastClosed(k, u)
  BY <1>1, <1>2, <1>3, StillOpen
<1>5. Record(k, buffer'[k], heard'[k])
  BY DEF Book
<1>6. IF known'[k] = "heard" THEN buffer'[k][Len(buffer'[k])].isClosed <=> Closing(k, heard'[k])
                             ELSE ~Closing(k, heard'[k])
  BY DEF Book
<1>7. QED  BY <1>4, <1>5, <1>6 DEF Book, u, Record, Closing, LastClosed, LastTickOf, CandleAt

BooksKept(K) == \A k \in Stream : known'[k] # "no" => k \in K \/
    /\ known'[k] = known[k] /\ buffer'[k] = buffer[k] /\ heard'[k] = heard[k]
    /\ \/ HeardUpTo(k)' = HeardUpTo(k)
       \/ HeardUpTo(k)' = HeardUpTo(k) + 1 /\ ~Closing(k, HeardUpTo(k) + 1)

LEMMA BooksAreKept ==
    ASSUME EvaluationTypeOK, EvaluationTypeOK', BooksOK, NEW K, BooksKept(K),
           \A k \in K : k \in Stream => Book(k)'
    PROVE  BooksOK'
<1>1. clock \in Nat /\ clock' \in Nat
  BY EvaluationAssumption DEF EvaluationTypeOK
<1>2. SUFFICES ASSUME NEW k \in Stream, known'[k] # "no", k \notin K PROVE Book(k)'
  BY DEF BooksOK
<1>3. Book(k) /\ heard[k] \in Nat
  BY <1>2 DEF BooksOK, BooksKept, EvaluationTypeOK
<1>4. QED  BY <1>1, <1>2, <1>3, BookKept DEF BooksKept

LEMMA HeardUpToIs ==
    ASSUME NEW k \in Stream, EvaluationTypeOK
    PROVE  clock \in Nat /\ HeardUpTo(k) = IF k \in pending THEN clock - 1 ELSE clock
BY EvaluationAssumption DEF EvaluationTypeOK, HeardUpTo

LEMMA BooksReload ==
    ASSUME EvaluationTypeOK, EvaluationTypeOK', BooksOK, NEW S \in SUBSET Rule, Reload(S) PROVE BooksOK'
<1>1. ASSUME NEW k \in Stream, known'[k] # "no"
      PROVE  /\ known'[k] = known[k] /\ buffer'[k] = buffer[k] /\ heard'[k] = heard[k]
             /\ \/ HeardUpTo(k)' = HeardUpTo(k)
                \/ HeardUpTo(k)' = HeardUpTo(k) + 1 /\ ~Closing(k, HeardUpTo(k) + 1)
  <2>1. /\ clock' = clock /\ pending' = {} /\ buffer' = buffer /\ heard' = heard
        /\ known'[k] = IF k \in pending /\ clock' = LastTickOf(k, CandleAt(k, clock')) THEN "no" ELSE known[k]
    BY DEF Reload, Missed
  <2>2. clock \in Nat
    BY HeardUpToIs
  <2>3. QED  BY <1>1, <2>1, <2>2 DEF HeardUpTo, Closing
<1>2. BooksKept({})
  BY <1>1 DEF BooksKept
<1>3. QED  BY <1>2, BooksAreKept

LEMMA BooksFails ==
    ASSUME EvaluationTypeOK, EvaluationTypeOK', BooksOK, NEW x \in Stream, SeedFails(x) PROVE BooksOK'
<1>1. BooksKept({})
  BY DEF SeedFails, BooksKept, HeardUpTo, EvaluationTypeOK
<1>2. QED  BY <1>1, BooksAreKept

LEMMA BooksWire ==
    ASSUME EvaluationTypeOK, EvaluationTypeOK', BooksOK, Wire PROVE BooksOK'
<1>1. BooksKept({})
  BY DEF Wire, BooksKept, HeardUpTo
<1>2. QED  BY <1>1, BooksAreKept

LEMMA BooksAdvance ==
    ASSUME EvaluationTypeOK, EvaluationTypeOK', BooksOK, Advance PROVE BooksOK'
<1>1. ASSUME NEW k \in Stream, known'[k] # "no"
      PROVE  /\ known'[k] = known[k] /\ buffer'[k] = buffer[k] /\ heard'[k] = heard[k]
             /\ \/ HeardUpTo(k)' = HeardUpTo(k)
                \/ HeardUpTo(k)' = HeardUpTo(k) + 1 /\ ~Closing(k, HeardUpTo(k) + 1)
  <2>1. /\ clock' = clock + 1 /\ pending = {} /\ pending' = streams /\ buffer' = buffer /\ heard' = heard
        /\ known'[k] = IF k \in Stream \ streams /\ clock' = LastTickOf(k, CandleAt(k, clock')) THEN "no" ELSE known[k]
    BY DEF Advance, Missed
  <2>2. clock \in Nat
    BY HeardUpToIs
  <2>3. QED  BY <1>1, <2>1, <2>2 DEF HeardUpTo, Closing
<1>2. BooksKept({})
  BY <1>1 DEF BooksKept
<1>3. QED  BY <1>2, BooksAreKept

LEMMA BooksLost ==
    ASSUME EvaluationTypeOK, EvaluationTypeOK', BooksOK, NEW x \in Stream, Lost(x) PROVE BooksOK'
<1>1. ASSUME NEW k \in Stream, known'[k] # "no"
      PROVE  /\ known'[k] = known[k] /\ buffer'[k] = buffer[k] /\ heard'[k] = heard[k]
             /\ \/ HeardUpTo(k)' = HeardUpTo(k)
                \/ HeardUpTo(k)' = HeardUpTo(k) + 1 /\ ~Closing(k, HeardUpTo(k) + 1)
  <2>1. /\ clock' = clock /\ x \in pending /\ pending' = pending \ {x} /\ buffer' = buffer /\ heard' = heard
        /\ known'[k] = IF k \in {x} /\ clock' = LastTickOf(k, CandleAt(k, clock')) THEN "no" ELSE known[k]
    BY DEF Lost, Missed
  <2>2. clock \in Nat
    BY HeardUpToIs
  <2>3. QED  BY <1>1, <2>1, <2>2 DEF HeardUpTo, Closing
<1>2. BooksKept({})
  BY <1>1 DEF BooksKept
<1>3. QED  BY <1>2, BooksAreKept

LEMMA BooksSeed ==
    ASSUME EvaluationTypeOK, EvaluationTypeOK', InTurn, BooksOK, NEW x \in Stream, SeedDone(x) PROVE BooksOK'
<1> DEFINE b == History(x, clock, RequiredCandles(loading, x))
<1>1. /\ buffer' = [buffer EXCEPT ![x] = b] /\ Record(x, b, clock) /\ b[Len(b)].isClosed
  BY SeedIs
<1>2. pending = {} /\ pending' = {} /\ clock' = clock /\ clock \in Nat
  BY HeardUpToIs DEF SeedDone, InTurn, EvaluationTypeOK
<1>3. /\ heard' = [heard EXCEPT ![x] = clock]
      /\ known' = [known EXCEPT ![x] = IF clock = LastTickOf(x, CandleAt(x, clock)) THEN "heard" ELSE "seeded"]
  BY DEF SeedDone
<1> HIDE DEF b
<1>4. buffer'[x] = b /\ heard'[x] = clock /\ known'[x] = IF Closing(x, clock) THEN "heard" ELSE "seeded"
  BY <1>1, <1>3 DEF EvaluationTypeOK, Closing
<1>5. HeardUpTo(x)' = clock
  BY <1>2 DEF HeardUpTo
<1>6. Book(x)'
  <2>1. Record(x, buffer'[x], heard'[x]) /\ heard'[x] <= HeardUpTo(x)'
    BY <1>1, <1>2, <1>4, <1>5
  <2>2. LastClosed(x, heard'[x]) = LastClosed(x, HeardUpTo(x)')
    BY <1>4, <1>5
  <2>3. IF known'[x] = "heard" THEN buffer'[x][Len(buffer'[x])].isClosed <=> Closing(x, heard'[x])
                               ELSE ~Closing(x, heard'[x])
    BY <1>1, <1>4
  <2>4. QED  BY <2>1, <2>2, <2>3 DEF Book, Record, Closing, LastClosed, LastTickOf, CandleAt
<1>7. BooksKept({x})
  BY <1>1, <1>2, <1>3 DEF BooksKept, HeardUpTo, EvaluationTypeOK
<1>8. QED  BY <1>6, <1>7, BooksAreKept

(* A tick leaves a book's account true, and makes the account longer by    *)
(* the candles that began since.                                           *)
LEMMA DeliverIs ==
    ASSUME NEW k \in Stream, EvaluationTypeOK, BooksOK, known[k] # "no", Deliver(k)
    PROVE  LET h == heard[k] b == buffer[k] c == buffer'[k] IN
           /\ Record(k, c, clock) /\ (c[Len(c)].isClosed <=> Closing(k, clock))
           /\ \/ Len(c) = MaxBuffer
              \/ Len(c) >= Len(b) /\ Len(c) - Len(b) = CandleAt(k, clock) - CandleAt(k, h)
<1> DEFINE h == heard[k]
           b == buffer[k]
           m == Merged(b, Tick(k, clock))
<1>1. buffer'[k] = Trimmed(m)
  BY DEF Deliver, UpdateCandle, EvaluationTypeOK
<1>2. h \in Nat /\ b \in Seq(Candle) /\ clock \in Nat /\ k \in pending
  BY HeardUpToIs DEF EvaluationTypeOK, Deliver
<1>3. Book(k) /\ HeardUpTo(k) = clock - 1
  BY <1>2 DEF BooksOK, HeardUpTo
<1>4. /\ h < clock /\ Record(k, b, h) /\ LastClosed(k, h) = LastClosed(k, clock - 1)
      /\ Closing(k, h) => b[Len(b)].isClosed
  BY <1>2, <1>3 DEF Book
<1>5. /\ m \in Seq(Candle) /\ Record(k, m, clock) /\ (m[Len(m)].isClosed <=> Closing(k, clock))
      /\ Len(m) >= Len(b) /\ Len(m) - Len(b) = CandleAt(k, clock) - CandleAt(k, h)
  BY <1>2, <1>4, MergedRecord
<1> HIDE DEF m, b, h
<1>6. /\ Record(k, Trimmed(m), clock) /\ (Trimmed(m)[Len(Trimmed(m))].isClosed <=> m[Len(m)].isClosed)
      /\ Len(Trimmed(m)) = IF Len(m) > MaxBuffer THEN MaxBuffer ELSE Len(m)
  BY <1>2, <1>5, TrimmedRecord
<1>7. QED  BY <1>1, <1>5, <1>6 DEF b, h

LEMMA BooksDeliver ==
    ASSUME EvaluationTypeOK, EvaluationTypeOK', BooksOK, NEW x \in Stream, Deliver(x) PROVE BooksOK'
<1>1. /\ clock' = clock /\ clock \in Nat /\ pending' = pending \ {x}
      /\ heard' = [heard EXCEPT ![x] = clock]
      /\ known' = [known EXCEPT ![x] = IF @ = "seeded" THEN "heard" ELSE @]
      /\ buffer' = [buffer EXCEPT ![x] = Trimmed(Merged(@, Tick(x, clock)))]
  BY HeardUpToIs DEF Deliver, UpdateCandle
<1>2. heard'[x] = clock /\ HeardUpTo(x)' = clock
  BY <1>1 DEF HeardUpTo, EvaluationTypeOK
<1>3. ASSUME known'[x] # "no" PROVE Book(x)'
  <2>1. known[x] # "no" /\ known'[x] = "heard"
    BY <1>1, <1>3 DEF EvaluationTypeOK
  <2>2. /\ Record(x, buffer'[x], clock) /\ (buffer'[x][Len(buffer'[x])].isClosed <=> Closing(x, clock))
    BY <2>1, DeliverIs
  <2>3. QED  BY <1>1, <1>2, <2>1, <2>2 DEF Book, Record, Closing, LastClosed, LastTickOf, CandleAt
<1> DEFINE K == IF known'[x] = "no" THEN {} ELSE {x}
<1>4. BooksKept(K)
  BY <1>1 DEF BooksKept, HeardUpTo, EvaluationTypeOK
<1>5. QED  BY <1>3, <1>4, BooksAreKept

LEMMA BooksNext ==
    ASSUME EvaluationTypeOK, EvaluationTypeOK', InTurn, BooksOK, [EvaluationNext]_evaluationVars PROVE BooksOK'
<1>1. CASE EvaluationNext
  BY <1>1, BooksReload, BooksSeed, BooksFails, BooksWire, BooksAdvance, BooksLost, BooksDeliver DEF EvaluationNext
<1>2. CASE UNCHANGED evaluationVars
  <2>1. BooksKept({})
    BY <1>2 DEF evaluationVars, BooksKept, HeardUpTo
  <2>2. QED  BY <2>1, BooksAreKept
<1>3. QED  BY <1>1, <1>2

-----------------------------------------------------------------------------
(* A buffer that was seeded for the rules keeps enough for them *)

LEMMA HoldsDeliver ==
    ASSUME EvaluationTypeOK, BooksOK, NEW x \in Stream, Deliver(x),
           NEW r \in Rule, NEW a \in Activators[r], Feeds(a)', Holds(a)
    PROVE  Holds(a)'
<1> DEFINE k == a.stream
<1>1. k \in Stream /\ a.period \in Nat /\ Warmup \in Nat /\ MaxBuffer \in Nat
  BY EvaluationAssumption, MarketAssumption
<1>2. buffer[k] \in Seq(Candle) /\ heard[k] \in Nat /\ clock \in Nat
  BY <1>1, HeardUpToIs DEF EvaluationTypeOK
<1>3. Len(buffer[k]) \in Nat /\ CandleAt(k, heard[k]) \in Nat /\ CandleAt(k, clock) \in Nat
  BY <1>1, <1>2, Clockwork
<1>4. CASE k = x
  <2>1. known[k] # "no" /\ heard'[k] = clock
    BY <1>1, <1>4 DEF Feeds, Deliver, EvaluationTypeOK
  <2>2. \/ Len(buffer'[k]) = MaxBuffer
        \/ /\ Len(buffer'[k]) >= Len(buffer[k])
           /\ Len(buffer'[k]) - Len(buffer[k]) = CandleAt(k, clock) - CandleAt(k, heard[k])
    BY <1>4, <2>1, DeliverIs
  <2>3. Len(buffer'[k]) \in Nat
    BY <1>1, <1>2, <1>4, TickCandle, MergedIsBuffer DEF Deliver, UpdateCandle, EvaluationTypeOK
  <2>4. CandleAt(k, heard'[k]) = CandleAt(k, clock)
    BY <2>1
  <2> DEFINE n == Len(buffer[k]) m == Len(buffer'[k]) c == CandleAt(k, heard[k]) d == CandleAt(k, clock)
  <2>5. n >= MaxBuffer \/ n > c \/ n >= a.period + Warmup
    BY DEF Holds
  <2>6. /\ m = MaxBuffer \/ (m >= n /\ m - n = d - c)
        /\ n \in Nat /\ m \in Nat /\ c \in Nat /\ d \in Nat
    BY <1>3, <2>2, <2>3
  <2> HIDE DEF n, m, c, d
  <2>7. m >= MaxBuffer \/ m > d \/ m >= a.period + Warmup
    BY <1>1, <2>5, <2>6
  <2>8. QED  BY <2>4, <2>7 DEF n, m, c, d, Holds, CandleAt
<1>5. CASE k # x
  <2>1. buffer'[k] = buffer[k] /\ heard'[k] = heard[k]
    BY <1>1, <1>5 DEF Deliver, UpdateCandle, EvaluationTypeOK
  <2>2. QED  BY <2>1 DEF Holds, CandleAt
<1>6. QED  BY <1>4, <1>5

(* Nothing else shortens a buffer that feeds a rule.                       *)
LEMMA HoldsKept ==
    ASSUME HoldsOK, buffer' = buffer, heard' = heard,
           \A a \in UNION {Activators[r] : r \in Serving'} : Feeds(a)' => Feeds(a),
           Serving' \subseteq Serving
    PROVE  HoldsOK'
<1>1. SUFFICES ASSUME NEW r \in Serving', NEW a \in Activators[r], Feeds(a)' PROVE Holds(a)'
  BY DEF HoldsOK
<1>2. Feeds(a) /\ r \in Serving
  BY <1>1
<1>3. Holds(a)
  BY <1>2 DEF HoldsOK
<1>4. QED  BY <1>3 DEF Holds, CandleAt

LEMMA HoldsNext ==
    ASSUME EvaluationTypeOK, InTurn, BooksOK, HoldsOK, [EvaluationNext]_evaluationVars PROVE HoldsOK'
<1>1. ASSUME NEW S \in SUBSET Rule, Reload(S) PROVE HoldsOK'
  <2>1. Serving' = S /\ seeding' = StreamsOf(S)
    BY <1>1 DEF Reload, Serving
  <2>2. \A r \in S : \A a \in Activators[r] : a.stream \in StreamsOf(S)
    BY DEF StreamsOf
  <2>3. QED  BY <2>1, <2>2 DEF HoldsOK, Feeds
<1>2. ASSUME NEW x \in Stream, SeedDone(x) PROVE HoldsOK'
  <2> DEFINE b == History(x, clock, RequiredCandles(loading, x))
  <2>1. buffer' = [buffer EXCEPT ![x] = b] /\ (Len(b) >= RequiredCandles(loading, x) \/ Len(b) > CandleAt(x, clock)) /\ b \in Seq(Candle)
    BY <1>2, SeedIs
  <2>2. /\ heard' = [heard EXCEPT ![x] = clock] /\ seeding' = seeding \ {x} /\ x \in seeding
        /\ wired' = wired /\ armed' = armed /\ loading' = loading
        /\ known' = [known EXCEPT ![x] = IF clock = LastTickOf(x, CandleAt(x, clock)) THEN "heard" ELSE "seeded"]
    BY <1>2 DEF SeedDone
  <2> HIDE DEF b
  <2>3. ~wired /\ Serving' = loading /\ Serving = loading /\ loading \in SUBSET Rule /\ x \in StreamsOf(loading)
    BY <2>2 DEF Serving, InTurn, EvaluationTypeOK
  <2>4. SUFFICES ASSUME NEW r \in loading, NEW a \in Activators[r], Feeds(a)' PROVE Holds(a)'
    BY <2>3 DEF HoldsOK
  <2>5. CASE a.stream = x
    <3>1. RequiredCandles(loading, x) \in Nat \ {0} /\ RequiredCandles(loading, x) >= Needed(a)
      BY <2>3, <2>4, <2>5, RequiredIsEnough
    <3>2. Needed(a) \in Nat /\ Needed(a) >= a.period + Warmup /\ a.period \in Nat /\ Warmup \in Nat
      BY <2>3, <2>4, NeededIs, EvaluationAssumption DEF Feeds
    <3>3. buffer'[x] = b /\ heard'[x] = clock
      BY <2>1, <2>2 DEF EvaluationTypeOK
    <3>4. Len(b) \in Nat
      BY <2>1
    <3>5. Len(b) >= a.period + Warmup \/ Len(b) > CandleAt(x, clock)
      BY <2>1, <3>1, <3>2, <3>4
    <3>6. QED  BY <2>5, <3>3, <3>5 DEF Holds, CandleAt
  <2>6. CASE a.stream # x
    <3>1. a.stream \in Stream
      BY <2>3, NeededIs
    <3>2. buffer'[a.stream] = buffer[a.stream] /\ heard'[a.stream] = heard[a.stream] /\ known'[a.stream] = known[a.stream]
      BY <2>1, <2>2, <2>6, <3>1 DEF EvaluationTypeOK
    <3>3. Feeds(a)
      BY <2>2, <2>4, <2>6, <3>2 DEF Feeds
    <3>4. Holds(a)
      BY <2>3, <3>3 DEF HoldsOK
    <3>5. QED  BY <3>2, <3>4 DEF Holds, CandleAt
  <2>7. QED  BY <2>5, <2>6
<1>3. ASSUME NEW x \in Stream, SeedFails(x) PROVE HoldsOK'
  <2>1. Serving' = Serving
    BY <1>3 DEF SeedFails, Serving
  <2>2. \A a \in UNION {Activators[r] : r \in Serving'} : Feeds(a)' => Feeds(a)
    <3>1. SUFFICES ASSUME NEW a, Feeds(a)' PROVE Feeds(a)
      OBVIOUS
    <3>2. /\ seeding' = seeding \ {x} /\ known' = [known EXCEPT ![x] = "no"]
      BY <1>3 DEF SeedFails
    <3>3. a.stream # x
      BY <3>1, <3>2 DEF Feeds, EvaluationTypeOK
    <3>4. QED  BY <3>1, <3>2, <3>3 DEF Feeds, EvaluationTypeOK
  <2>3. QED  BY <1>3, <2>1, <2>2, HoldsKept DEF SeedFails
<1>4. ASSUME Wire PROVE HoldsOK'
  <2>1. Serving' = loading /\ Serving = loading /\ seeding' = seeding /\ known' = known /\ buffer' = buffer /\ heard' = heard
    BY <1>4 DEF Wire, Serving, InTurn
  <2>2. QED  BY <2>1, HoldsKept DEF Feeds
<1>5. ASSUME Advance \/ \E x \in Stream : Lost(x) PROVE HoldsOK'
  <2>1. /\ wired' = wired /\ armed' = armed /\ loading' = loading /\ seeding' = seeding
        /\ buffer' = buffer /\ heard' = heard /\ \E K : Missed(K)
    BY <1>5 DEF Advance, Lost, engineVars
  <2>2. Serving' = Serving /\ \A r \in Serving : r \in Rule
    BY <2>1 DEF Serving, EvaluationTypeOK
  <2>3. \A a \in UNION {Activators[r] : r \in Serving'} : Feeds(a)' => Feeds(a)
    <3>1. SUFFICES ASSUME NEW r \in Rule, NEW a \in Activators[r], Feeds(a)' PROVE Feeds(a)
      BY <2>2
    <3>2. a.stream \in Stream
      BY NeededIs
    <3>3. known'[a.stream] \in {"no", known[a.stream]}
      BY <2>1, <3>2 DEF Missed
    <3>4. QED  BY <2>1, <3>1, <3>3 DEF Feeds
  <2>4. QED  BY <2>1, <2>2, <2>3, HoldsKept
<1>6. ASSUME NEW x \in Stream, Deliver(x) PROVE HoldsOK'
  <2>1. wired /\ wired' = wired /\ armed' \subseteq armed /\ armed \subseteq Rule /\ seeding' = seeding
    BY <1>6 DEF Deliver, InTurn, EvaluationTypeOK
  <2>2. SUFFICES ASSUME NEW r \in armed, NEW a \in Activators[r], Feeds(a)' PROVE Holds(a)'
    BY <2>1 DEF HoldsOK, Serving
  <2>3. Feeds(a)
    <3>1. a.stream \in Stream /\ (known'[a.stream] # "no" => known[a.stream] # "no")
      BY <1>6, <2>1, NeededIs DEF Deliver, EvaluationTypeOK
    <3>2. QED  BY <2>1, <2>2, <3>1 DEF Feeds
  <2>4. Holds(a)
    BY <2>1, <2>3 DEF HoldsOK, Serving
  <2>5. QED  BY <1>6, <2>1, <2>2, <2>4, HoldsDeliver
<1>7. CASE UNCHANGED evaluationVars
  BY <1>7 DEF evaluationVars, engineVars, HoldsOK, Holds, Serving, Feeds, CandleAt
<1>8. QED  BY <1>1, <1>2, <1>3, <1>4, <1>5, <1>6, <1>7 DEF EvaluationNext

-----------------------------------------------------------------------------
(* What the closed candles say *)

LEMMA ClosedBefore ==
    ASSUME NEW k \in Stream, NEW h \in Nat, NEW ts \in Nat, ts <= LastClosed(k, h)
    PROVE  LastTickOf(k, ts) \in 0..h
<1> DEFINE d == Duration[k]
           c == (h + 1) \div d
<1>1. d \in Nat \ {0}
  BY MarketAssumption
<1>2. LastTickOf(k, ts) = ts * d + d - 1 /\ CandleAt(k, h + 1) = c
  BY DEF LastTickOf, CandleAt
<1>3. c = LastClosed(k, h) + 1 /\ LastClosed(k, h) \in Int
  BY <1>2, Clockwork
<1> HIDE DEF d
<1>4. c \in Nat /\ c * d <= h + 1
  BY <1>1, Quotient
<1> HIDE DEF c
<1>5. (ts + 1) * d = ts * d + d /\ ts * d \in Nat
  BY <1>1
<1>6. ts + 1 <= c
  BY <1>3
<1>7. d * (ts + 1) <= d * c
  BY <1>1, <1>4, <1>6, ProductGrows
<1>8. d * (ts + 1) = (ts + 1) * d /\ d * c = c * d
  BY <1>1, <1>4
<1> DEFINE p == (ts + 1) * d
           q == c * d
<1>9. ts * d + d <= h + 1
  <2>1. p <= q /\ q <= h + 1 /\ p = ts * d + d /\ q \in Int
    BY <1>1, <1>4, <1>5, <1>7, <1>8
  <2> HIDE DEF p, q
  <2>2. QED  BY <1>1, <1>5, <2>1
<1>10. QED  BY <1>1, <1>2, <1>5, <1>9

ClosedCount(k) == IF Closing(k, heard[k]) THEN Len(buffer[k]) ELSE Len(buffer[k]) - 1

LEMMA ClosedIs ==
    ASSUME NEW k \in Stream, EvaluationTypeOK, BooksOK, known[k] = "heard"
    PROVE  LET m == ClosedCount(k) last == LastClosed(k, heard[k]) IN
           /\ m \in Nat /\ last \in Int /\ m <= last + 1 /\ ClosedCandles(k) = 1..m
           /\ \A i \in 1..m : /\ i \in DOMAIN buffer[k] /\ last - m + i \in Nat
                              /\ buffer[k][i].timestamp = last - m + i
                              /\ buffer[k][i].close = LastTickOf(k, last - m + i)
           /\ CandleAt(k, heard[k]) <= last + 1
           /\ CandleAt(k, heard[k]) = IF Closing(k, heard[k]) THEN last ELSE last + 1
<1> DEFINE b == buffer[k]
           h == heard[k]
           n == Len(b)
           m == ClosedCount(k)
           last == LastClosed(k, h)
           C == ClosedCandles(k)
<1>1. b \in Seq(Candle) /\ h \in Nat /\ Book(k) /\ Record(k, b, h) /\ (b[n].isClosed <=> Closing(k, h))
  BY DEF EvaluationTypeOK, BooksOK, Book
<1>2. CandleAt(k, h) \in Nat /\ last = IF Closing(k, h) THEN CandleAt(k, h) ELSE CandleAt(k, h) - 1
  BY <1>1, Clockwork
<1>3. n \in Nat /\ n > 0 /\ b[n].close = h /\ \A i \in 1..n : b[i] \in Candle /\ b[i].timestamp \in Nat
  <2>1. n > 0 /\ b[n].close = h
    BY <1>1 DEF Record
  <2>2. n \in Nat /\ \A i \in 1..n : b[i] \in Candle
    BY <1>1
  <2>3. \A x \in Candle : x.timestamp \in Nat
    BY DEF Candle
  <2> HIDE DEF b, n
  <2>4. QED  BY <2>1, <2>2, <2>3
<1>4. /\ \A i \in 1..n : b[i].timestamp = CandleAt(k, h) - n + i
      /\ \A i \in 1..(n - 1) : b[i].isClosed /\ b[i].close = LastTickOf(k, b[i].timestamp)
  BY <1>1 DEF Record
<1>5. m = IF Closing(k, h) THEN n ELSE n - 1
  BY DEF ClosedCount
<1>6. C = {i \in 1..n : b[i].isClosed}
  BY <1>1 DEF ClosedCandles
<1>7. b[n].timestamp = CandleAt(k, h)
  BY <1>2, <1>3, <1>4
<1> HIDE DEF b, h, n, m, last, C
<1>8. C = 1..m
  BY <1>1, <1>3, <1>4, <1>5, <1>6
<1>9. m \in Nat /\ last \in Int /\ CandleAt(k, h) - n = last - m
  BY <1>2, <1>3, <1>5
<1>10. ASSUME NEW i \in 1..m
       PROVE  /\ i \in 1..n /\ last - m + i \in Nat /\ b[i].timestamp = last - m + i
              /\ b[i].close = LastTickOf(k, last - m + i)
  <2>1. i \in 1..n
    BY <1>3, <1>5
  <2>2. b[i].timestamp = CandleAt(k, h) - n + i
    BY <1>4, <2>1
  <2>3. b[i].timestamp = last - m + i /\ last - m + i \in Nat
    BY <1>2, <1>3, <1>9, <2>1, <2>2
  <2>4. CASE i = n
    <3>1. Closing(k, h)
      BY <1>3, <1>5, <2>4
    <3>2. h = LastTickOf(k, CandleAt(k, h))
      BY <3>1 DEF Closing
    <3>3. QED  BY <1>3, <1>7, <2>1, <2>3, <2>4, <3>2
  <2>5. CASE i # n
    <3>1. i \in 1..(n - 1)
      BY <1>3, <2>1, <2>5
    <3>2. QED  BY <1>4, <2>1, <2>3, <3>1
  <2>6. QED  BY <2>4, <2>5
<1>11. m <= last + 1
  <2>1. CASE m = 0
    BY <1>2, <1>9, <2>1
  <2>2. CASE m # 0
    <3>1. 1 \in 1..m
      BY <1>9, <2>2
    <3>2. last - m + 1 \in Nat
      BY <1>10, <3>1
    <3>3. QED  BY <1>9, <3>2
  <2>3. QED  BY <2>1, <2>2
<1>12. /\ CandleAt(k, h) = IF Closing(k, h) THEN last ELSE last + 1
       /\ CandleAt(k, h) <= last + 1
  BY <1>2
<1>13. DOMAIN b = 1..n
  BY <1>1 DEF n
<1>14. QED  BY <1>8, <1>9, <1>10, <1>11, <1>12, <1>13 DEF b, h, m, last, C

LEMMA PastIsClosed == ASSUME EvaluationTypeOK, BooksOK PROVE ClosedIsThePast
<1> SUFFICES ASSUME NEW k \in Stream, known[k] = "heard", NEW i \in ClosedCandles(k)
    PROVE  /\ buffer[k][i].timestamp = LastClosed(k, heard[k])
                                       - Cardinality({j \in ClosedCandles(k) : j > i})
           /\ buffer[k][i].close = LastTickOf(k, buffer[k][i].timestamp)
  BY DEF ClosedIsThePast
<1> DEFINE m == ClosedCount(k)
           last == LastClosed(k, heard[k])
           C == ClosedCandles(k)
<1>1. m \in Nat /\ last \in Int /\ C = 1..m /\ i \in 1..m
  BY ClosedIs
<1>2. buffer[k][i].timestamp = last - m + i /\ buffer[k][i].close = LastTickOf(k, last - m + i)
  BY <1>1, ClosedIs
<1> HIDE DEF m, last, C
<1> DEFINE D == {j \in C : j > i}
<1>3. D = (i + 1)..m
  BY <1>1
<1>4. Cardinality((i + 1)..m) = m - i
  BY <1>1, FS_Interval
<1> HIDE DEF D
<1>5. last - Cardinality(D) = last - m + i
  BY <1>1, <1>3, <1>4
<1>6. QED  BY <1>2, <1>5 DEF last, C, D

LEMMA EnoughAreHeld ==
    ASSUME EvaluationTypeOK, BooksOK, NEW r \in Rule, NEW a \in Activators[r],
           known[a.stream] = "heard", Holds(a), a.period < MaxBuffer,
           LastClosed(a.stream, heard[a.stream]) >= a.period - 1
    PROVE  ClosedCount(a.stream) >= a.period
<1> DEFINE k == a.stream
           n == Len(buffer[k])
           last == LastClosed(k, heard[k])
<1>1. k \in Stream /\ a.period \in Nat /\ Warmup \in Nat \ {0} /\ MaxBuffer \in Nat
  BY NeededIs, EvaluationAssumption, MarketAssumption
<1>2. n \in Nat
  BY <1>1 DEF EvaluationTypeOK
<1>3. last \in Int /\ CandleAt(k, heard[k]) = IF Closing(k, heard[k]) THEN last ELSE last + 1
  BY <1>1, ClosedIs
<1>4. n >= MaxBuffer \/ n > CandleAt(k, heard[k]) \/ n >= a.period + Warmup
  BY DEF Holds
<1>5. ClosedCount(k) = IF Closing(k, heard[k]) THEN n ELSE n - 1
  BY DEF ClosedCount
<1>6. last >= a.period - 1 /\ a.period < MaxBuffer
  OBVIOUS
<1> HIDE DEF n, last
<1>7. ClosedCount(k) >= a.period
  BY <1>1, <1>2, <1>3, <1>4, <1>5, <1>6
<1>8. QED  BY <1>7

LEMMA EnoughIsServed == ASSUME EvaluationInv PROVE EnoughCandles
<1> SUFFICES ASSUME NEW r \in armed, NEW a \in Activators[r],
                    a.name = "sma", wired, known[a.stream] = "heard", a.period < MaxBuffer,
                    LastClosed(a.stream, heard[a.stream]) >= a.period - 1
    PROVE  Cardinality(ClosedCandles(a.stream)) >= a.period
  BY DEF EnoughCandles
<1>1. r \in Rule /\ a.stream \in Stream
  BY NeededIs DEF EvaluationInv, EvaluationTypeOK
<1>2. Holds(a)
  BY DEF EvaluationInv, InTurn, HoldsOK, Serving, Feeds
<1>3. ClosedCount(a.stream) >= a.period
  BY <1>1, <1>2, EnoughAreHeld DEF EvaluationInv
<1>4. ClosedCount(a.stream) \in Nat /\ ClosedCandles(a.stream) = 1..ClosedCount(a.stream)
  BY <1>1, ClosedIs DEF EvaluationInv
<1>5. Cardinality(1..ClosedCount(a.stream)) = ClosedCount(a.stream)
  <2>1. \A n \in Nat : Cardinality(1..n) = n
    BY FS_Interval
  <2>2. QED  BY <1>4, <2>1
<1>6. QED  BY <1>3, <1>4, <1>5

(* The mean of the last closed candles of a buffer is the exchange's.      *)
LEMMA LatestIs ==
    ASSUME NEW m \in Nat, NEW p \in Nat \ {0}, p <= m PROVE Latest(1..m, p) = (m - p + 1)..m
<1>1. ASSUME NEW i \in 1..m PROVE Cardinality({j \in 1..m : j >= i}) = m - i + 1
  <2>1. {j \in 1..m : j >= i} = i..m
    OBVIOUS
  <2>2. Cardinality(i..m) = m - i + 1
    BY FS_Interval
  <2>3. QED  BY <2>1, <2>2
<1>2. \A i : i \in (m - p + 1)..m <=> i \in 1..m /\ m - i + 1 <= p
  OBVIOUS
<1>3. \A i : i \in Latest(1..m, p) <=> i \in 1..m /\ m - i + 1 <= p
  BY <1>1 DEF Latest
<1>4. QED  BY <1>2, <1>3

LEMMA MeanIsTrue ==
    ASSUME EvaluationTypeOK, BooksOK,
           NEW r \in Rule, NEW a \in Activators[r], known[a.stream] = "heard",
           ClosedCount(a.stream) >= a.period
    PROVE  Sum(a.stream, Latest(ClosedCandles(a.stream), a.period))
           = TrueMean(a, LastClosed(a.stream, heard[a.stream]))
<1> DEFINE k == a.stream
           p == a.period
           m == ClosedCount(k)
           last == LastClosed(k, heard[k])
           e == last - m
           S == (m - p + 1)..m
           T == (last - p + 1)..last
           g == [i \in DOMAIN buffer[k] |-> course[buffer[k][i].close]]
           h == [ts \in T |-> course[LastTickOf(k, ts)]]
           f == [i \in S |-> i + e]
<1>1. k \in Stream /\ p \in Nat \ {0} /\ m >= p
  BY NeededIs
<1>2. /\ m \in Nat /\ last \in Int /\ ClosedCandles(k) = 1..m
      /\ \A i \in 1..m : /\ i \in DOMAIN buffer[k] /\ last - m + i \in Nat
                         /\ buffer[k][i].close = LastTickOf(k, last - m + i)
  BY <1>1, ClosedIs
<1>3. Latest(ClosedCandles(k), p) = S
  BY <1>1, <1>2, LatestIs
<1>4. heard[k] \in 0..MaxClock /\ course \in [0..MaxClock -> Nat] /\ MaxClock \in Nat /\ heard[k] \in Nat
  <2>1. course \in [0..MaxClock -> Nat] /\ clock \in 0..MaxClock /\ MaxClock \in Nat /\ heard[k] \in Nat
    BY <1>1, EvaluationAssumption DEF EvaluationTypeOK
  <2>2. heard[k] <= HeardUpTo(k) /\ (HeardUpTo(k) = clock - 1 \/ HeardUpTo(k) = clock)
    BY <1>1 DEF BooksOK, Book, HeardUpTo
  <2>3. QED  BY <2>1, <2>2
<1>5. \A i \in S : i \in 1..m
  BY <1>1, <1>2
<1> HIDE DEF m
<1>6. ASSUME NEW i \in S
      PROVE  /\ g[i] = course[LastTickOf(k, i + e)] /\ g[i] \in Int
             /\ f[i] = i + e /\ f[i] \in T /\ h[f[i]] = g[i]
  <2>1. i \in 1..m /\ last - m + i = i + e
    BY <1>2, <1>5
  <2>2. i \in DOMAIN buffer[k] /\ i + e \in Nat /\ buffer[k][i].close = LastTickOf(k, i + e)
    BY <1>2, <2>1
  <2>3. g[i] = course[LastTickOf(k, i + e)]
    BY <2>2
  <2>4. i + e <= last /\ i + e \in T
    BY <1>1, <1>2, <2>1
  <2>5. LastTickOf(k, i + e) \in 0..heard[k]
    BY <1>1, <1>4, <2>2, <2>4, ClosedBefore
  <2>6. LastTickOf(k, i + e) \in 0..MaxClock
    BY <1>4, <2>5
  <2>7. course[LastTickOf(k, i + e)] \in Int
    BY <1>4, <2>6
  <2>8. QED  BY <2>3, <2>4, <2>7
<1>7. \A i, j \in S : f[i] = f[j] => i = j
  BY <1>1, <1>2
<1>8. {f[i] : i \in S} = T
  <2>1. \A t \in T : t - e \in S /\ f[t - e] = t
    BY <1>1, <1>2
  <2>2. \A i \in S : f[i] \in T
    BY <1>6
  <2>3. QED  BY <2>1, <2>2
<1>9. IsFiniteSet(S)
  BY <1>1, <1>2, FS_Interval
<1>10. DOMAIN h = T
  OBVIOUS
<1> HIDE DEF f, g, h, S, T
<1>11. SumFunctionOnSet(h, T) = SumFunctionOnSet(g, S)
  <2>1. SumFunctionOnSet(h, {f[i] : i \in S}) = SumFunctionOnSet(g, S)
    BY <1>6, <1>7, <1>9, SumRenamed
  <2>2. QED  BY <1>8, <2>1
<1>12. Sum(k, S) = SumFunctionOnSet(g, S)
  BY DEF Sum, g
<1>13. TrueMean(a, last) = SumFunctionOnSet(h, T)
  BY <1>10 DEF TrueMean, SumFunction, h, T
<1>14. QED  BY <1>3, <1>11, <1>12, <1>13

Judged == \A r \in Rule : \A a \in Activators[r] :
    a.name = "sma" /\ known[a.stream] = "heard" /\ Holds(a) /\ a.period < MaxBuffer
        => (Matched(a) <=> TrueMatch(a))

LEMMA JudgedTrue == ASSUME EvaluationTypeOK, BooksOK PROVE Judged
<1> SUFFICES ASSUME NEW r \in Rule, NEW a \in Activators[r], a.name = "sma",
                    known[a.stream] = "heard", Holds(a), a.period < MaxBuffer
    PROVE  Matched(a) <=> TrueMatch(a)
  BY DEF Judged
<1> DEFINE k == a.stream
           p == a.period
           m == ClosedCount(k)
           last == LastClosed(k, heard[k])
<1>1. k \in Stream /\ p \in Nat \ {0}
  BY NeededIs
<1>2. m \in Nat /\ last \in Int /\ m <= last + 1 /\ ClosedCandles(k) = 1..m
  BY <1>1, ClosedIs
<1>3. Cardinality(Closes(k)) = m
  <2>1. \A n \in Nat : Cardinality(1..n) = n
    BY FS_Interval
  <2>2. QED  BY <1>2, <2>1 DEF Closes
<1>4. last >= p - 1 => m >= p
  BY EnoughAreHeld
<1>5. m >= p => Sum(k, Latest(Closes(k), p)) = TrueMean(a, last)
  BY MeanIsTrue DEF Closes
<1>6. Matched(a) <=> m >= p /\ Compared(a.side, Sum(k, Latest(Closes(k), p)), a.value * p)
  BY <1>3 DEF Matched
<1>7. TrueMatch(a) <=> last >= p - 1 /\ Compared(a.side, TrueMean(a, last), a.value * p)
  BY DEF TrueMatch
<1> HIDE DEF m, last
<1>8. m >= p <=> last >= p - 1
  BY <1>1, <1>2, <1>4
<1>9. QED  BY <1>5, <1>6, <1>7, <1>8

-----------------------------------------------------------------------------
(* The theorems *)

LEMMA EvaluationInit_Inv == EvaluationInit => EvaluationInv
<1> SUFFICES ASSUME EvaluationInit PROVE EvaluationInv
  OBVIOUS
<1>1. BooksOK
  BY DEF EvaluationInit, BooksOK
<1>2. HoldsOK
  BY DEF EvaluationInit, HoldsOK, Serving
<1>3. QED  BY <1>1, <1>2, EvaluationTypeInit DEF EvaluationInv

LEMMA EvaluationInv_Next == EvaluationInv /\ [EvaluationNext]_evaluationVars => EvaluationInv'
<1> SUFFICES ASSUME EvaluationInv, [EvaluationNext]_evaluationVars PROVE EvaluationInv'
  OBVIOUS
<1>1. EvaluationTypeOK /\ InTurn /\ BooksOK /\ HoldsOK
  BY DEF EvaluationInv
<1>2. EvaluationTypeOK' /\ InTurn'
  BY <1>1, EvaluationTypeNext
<1>3. BooksOK' /\ HoldsOK'
  BY <1>1, <1>2, BooksNext, HoldsNext
<1>4. QED  BY <1>2, <1>3 DEF EvaluationInv

LEMMA EvaluationSafe == EvaluationSpec => []EvaluationInv
BY EvaluationInit_Inv, EvaluationInv_Next, PTL DEF EvaluationSpec

(* RuleEvaluation's variables keep their type: src/src/rule-engine/        *)
(* rule-engine.service.ts and src/src/data-provider/market-data.service.ts.*)
THEOREM EvaluationIsTyped == EvaluationSpec => []EvaluationTypeOK
<1>1. EvaluationInv => EvaluationTypeOK
  BY DEF EvaluationInv
<1>2. QED  BY <1>1, EvaluationSafe, PTL

(* market-data.service.ts:115: the closed candles of a buffer that was     *)
(* heard since its seeding are the exchange's last ones, however long the  *)
(* buffers and the candles are and whatever the course.                    *)
THEOREM ClosedCandlesAreThePast == EvaluationSpec => []ClosedIsThePast
<1>1. EvaluationInv => ClosedIsThePast
  BY PastIsClosed DEF EvaluationInv
<1>2. QED  BY <1>1, EvaluationSafe, PTL

(* rule-engine.service.ts:172: a buffer that feeds the indicators of       *)
(* several rules holds enough closed candles for each, for any periods     *)
(* below the size of a buffer.                                             *)
THEOREM BuffersHoldEnough == EvaluationSpec => []EnoughCandles
BY EnoughIsServed, EvaluationSafe, PTL

LEMMA FiresTrueOnTick ==
    ASSUME EvaluationInv, EvaluationInv', Judged', NEW k \in Stream, Deliver(k),
           NEW r \in armed, SymbolOfRule[r] = SymbolOf[k], WellFed(r)'
    PROVE  r \notin armed' <=> \A a \in Activators[r] : TrueMatch(a)'
<1>1. r \in Rule /\ EvaluationTypeOK /\ BooksOK /\ HoldsOK
  BY DEF EvaluationInv, EvaluationTypeOK
<1>2. r \notin armed' <=> \A a \in Activators[r] : Matched(a)'
  BY DEF Deliver, Triggered, AllMatch
<1>3. ASSUME NEW a \in Activators[r] PROVE Matched(a)' <=> TrueMatch(a)'
  <2>1. a.stream \in Stream /\ a.name \in {"price", "sma"} /\ SymbolOf[a.stream] = SymbolOf[k]
    BY <1>1, EvaluationAssumption
  <2>2. CASE a.name = "price"
    <3>1. SymbolOf[k] \in Symbol /\ price' = [price EXCEPT ![SymbolOf[k]] = clock] /\ clock' = clock /\ clock \in Nat
      BY MarketAssumption, TickCandle, HeardUpToIs, <1>1 DEF Deliver, UpdateCandle
    <3>2. price'[SymbolOf[k]] = clock'
      BY <1>1, <3>1 DEF EvaluationTypeOK
    <3>3. QED  BY <2>1, <2>2, <3>2 DEF Matched, TrueMatch
  <2>3. CASE a.name = "sma"
    <3>1. known'[a.stream] = "heard" /\ a.period < MaxBuffer
      BY <2>3 DEF WellFed
    <3>2. wired /\ wired' = wired /\ seeding' = seeding /\ seeding = {}
      BY <1>1 DEF Deliver, EvaluationTypeOK, EvaluationInv, InTurn
    <3>3. known[a.stream] # "no"
      BY <1>1, <2>1, <3>1 DEF Deliver, EvaluationTypeOK
    <3>4. Holds(a)
      BY <1>1, <2>3, <3>2, <3>3 DEF HoldsOK, Serving, Feeds
    <3>5. Holds(a)'
      BY <1>1, <2>3, <3>1, <3>2, <3>4, HoldsDeliver DEF Feeds
    <3>6. QED  BY <1>1, <2>3, <3>1, <3>5 DEF Judged
  <2>4. QED  BY <2>1, <2>2, <2>3
<1>4. QED  BY <1>2, <1>3

(* rule-engine.service.ts:240: on a tick a rule whose buffers were heard   *)
(* fires if and only if its conditions are true of the exchange's prices   *)
(* and of the means of its closed candles.                                 *)
THEOREM FiresIfAndOnlyIfTrue == EvaluationSpec => FiresWhenTrue
<1>1. EvaluationInv => Judged
  BY JudgedTrue DEF EvaluationInv
<1>2. ASSUME EvaluationInv, EvaluationInv', Judged'
      PROVE  [\A k \in Stream : Deliver(k) =>
                \A r \in {x \in armed : SymbolOfRule[x] = SymbolOf[k] /\ WellFed(x)'} :
                    r \notin armed' <=> \A a \in Activators[r] : TrueMatch(a)']_evaluationVars
  BY <1>2, FiresTrueOnTick
<1>3. QED  BY <1>1, <1>2, EvaluationSafe, PTL DEF FiresWhenTrue
============================================================================
