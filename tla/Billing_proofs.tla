--------------------------- MODULE Billing_proofs ---------------------------
(***************************************************************************)
(* Theorems about Billing, for every width of a second and an hour in      *)
(* ticks, every set of prices an int can hold and every number of rentals  *)
(* and restarts.                                                           *)
(***************************************************************************)
EXTENDS Billing, TLAPS

(***************************************************************************)
(* Prices.  A price is saved with six significant digits: the saved price  *)
(* is off by half a unit of the last one at most, and saving it again      *)
(* changes nothing, so restarts do not add up.                             *)
(***************************************************************************)
Price == 1..Int32Max

LEMMA PriceBounds ==
    ASSUME NEW p
    PROVE  p \in Price <=> p \in Int /\ 1 <= p /\ p <= 2147483647
<1>1. Int32Max = 2147483647
  BY SMT DEF Int32Max
<1>2. Int32Max \in Int
  BY <1>1, SMT
<1>3. p \in Price <=> p \in Int /\ 1 <= p /\ p <= Int32Max
  BY <1>2, SMT DEF Price
<1> QED
  BY <1>1, <1>3, SMT

LEMMA IntMaxBounds == IntMax \in Int /\ 0 <= IntMax /\ IntMax <= 2147483647
<1>1. Int32Max = 2147483647
  BY SMT DEF Int32Max
<1>2. Int32Max \in Int
  BY <1>1, SMT
<1>3. IntMax \in Int /\ 0 <= IntMax /\ IntMax <= Int32Max
  BY <1>2, IntMaxAssumption, SMT
<1> QED
  BY <1>1, <1>3, SMT

LEMMA DigitValue ==
    ASSUME NEW p \in Price
    PROVE  Digit(p) = IF p < 1000000 THEN 1 ELSE IF p < 10000000 THEN 10
                      ELSE IF p < 100000000 THEN 100 ELSE IF p < 1000000000 THEN 1000 ELSE 10000
<1> DEFINE Fits(d) == p \div d < 1000000 /\ (d = 1 \/ p \div d >= 100000)
           D == {1, 10, 100, 1000, 10000}
           e == IF p < 1000000 THEN 1 ELSE IF p < 10000000 THEN 10
                ELSE IF p < 100000000 THEN 100 ELSE IF p < 1000000000 THEN 1000 ELSE 10000
<1>1. p \in Int /\ 1 <= p /\ p <= 2147483647
  BY PriceBounds, SMT
<1>2. e \in D /\ Fits(e)
  BY <1>1, SMT
<1>3. \A d \in D : Fits(d) => d = e
  BY <1>1, SMT
<1>4. Digit(p) = CHOOSE d \in D : Fits(d)
  BY SMT DEF Digit
<1> HIDE DEF Fits, D, e
<1>5. Digit(p) = e
  BY <1>2, <1>3, <1>4, Zenon
<1> QED
  BY <1>5, SMT DEF e

LEMMA SavedPriceClose ==
    ASSUME NEW p \in Price
    PROVE  /\ SavedPrice(p) \in Nat \ {0}
           /\ SavedPrice(p) <= p + Digit(p) \div 2 /\ p <= SavedPrice(p) + Digit(p) \div 2
           /\ Digit(p) \in Nat \ {0} /\ Digit(p) \div 2 \in Nat
<1>1. p \in Int /\ 1 <= p /\ p <= 2147483647
  BY PriceBounds, SMT
<1> QED
  BY <1>1, DigitValue, SMT DEF SavedPrice

LEMMA SavedPriceFits ==
    ASSUME NEW p \in Price, p <= IntMax PROVE SavedPrice(p) \in Price /\ SavedPrice(p) <= IntMax
<1>1. p \in Int /\ 1 <= p /\ p <= IntMax /\ IntMax \in Int /\ IntMax <= 2147483647
  BY PriceBounds, IntMaxBounds, SMT
<1>2. IntMax \in Price
  BY <1>1, PriceBounds, SMT
<1>3. SavedPrice(p) <= SavedPrice(IntMax)
  BY <1>1, <1>2, DigitValue, SMT DEF SavedPrice
<1> QED
  BY <1>1, <1>2, <1>3, SavedPriceClose, IntMaxAssumption, PriceBounds, SMT

LEMMA SavedPriceStable ==
    ASSUME NEW p \in Price, SavedPrice(p) \in Price PROVE SavedPrice(SavedPrice(p)) = SavedPrice(p)
<1>1. p \in Int /\ 1 <= p /\ p <= 2147483647
  BY PriceBounds, SMT
<1> DEFINE q == SavedPrice(p)
<1>2. q = ((p + Digit(p) \div 2) \div Digit(p)) * Digit(p)
  BY SMT DEF SavedPrice
<1>3. SavedPrice(q) = ((q + Digit(q) \div 2) \div Digit(q)) * Digit(q)
  BY SMT DEF SavedPrice
<1>4. q \in Int /\ 1 <= q /\ q <= 2147483647
  BY PriceBounds, SMT
<1>5. Digit(q) = IF q < 1000000 THEN 1 ELSE IF q < 10000000 THEN 10
                      ELSE IF q < 100000000 THEN 100 ELSE IF q < 1000000000 THEN 1000 ELSE 10000
  BY DigitValue, SMT
<1> HIDE DEF q
<1> QED
  BY <1>1, <1>2, <1>3, <1>4, <1>5, DigitValue, SMT DEF q

\* An int product that the limit holds is not changed by the machine.
LEMMA WrapFits ==
    ASSUME NEW x \in Nat, x <= IntMax PROVE Wrap(x) = x
<1>1. IntMax \in Nat /\ IntMin = -IntMax - 1
  BY IntMaxBounds, SMT DEF IntMin
<1>2. ASSUME NEW n \in Nat, NEW y \in Nat, y < n PROVE y % n = y
  BY <1>2, SMT
<1>3. x - IntMin \in Nat /\ IntMax - IntMin + 1 \in Nat /\ x - IntMin < IntMax - IntMin + 1
  BY <1>1, SMT
<1>4. (x - IntMin) % (IntMax - IntMin + 1) = x - IntMin
  BY <1>2, <1>3, Zenon
<1> QED
  BY <1>1, <1>4, SMT DEF Wrap

LEMMA WrapIsInt == ASSUME NEW x \in Int PROVE Wrap(x) \in Int
<1>1. IntMax \in Nat /\ IntMin = -IntMax - 1
  BY IntMaxBounds, SMT DEF IntMin
<1>2. ASSUME NEW n \in Nat \ {0}, NEW y \in Int PROVE y % n \in Int
  BY SMT
<1>3. x - IntMin \in Int /\ IntMax - IntMin + 1 \in Nat \ {0}
  BY <1>1, SMT
<1> QED
  BY <1>1, <1>2, <1>3, SMT DEF Wrap

(***************************************************************************)
(* Hours.  TicksPerSecond and SecondsPerHour are any numbers, so what      *)
(* division by their product does is stated once.                          *)
(***************************************************************************)
LEMMA Division ==
    ASSUME NEW a \in Int, NEW h \in Nat \ {0}
    PROVE  a \div h \in Int /\ h * (a \div h) <= a /\ a < h * (a \div h) + h
<1> QED
  BY SMT

LEMMA Multiples ==
    ASSUME NEW a \in Int, NEW b \in Int, NEW h \in Nat, a <= b
    PROVE  h * a \in Int /\ h * b \in Int /\ h * a <= h * b
<1> QED
  BY SMT

LEMMA HourLength ==
    /\ TicksPerSecond \in Nat \ {0} /\ TicksPerHour \in Nat \ {0}
    /\ TicksPerSecond <= TicksPerHour
<1>1. TicksPerSecond \in Nat \ {0} /\ SecondsPerHour \in Nat \ {0}
  BY BillingAssumption, SMT
<1>2. TicksPerSecond * 1 <= TicksPerSecond * SecondsPerHour
  BY <1>1, Multiples, SMT
<1> QED
  BY <1>1, <1>2, SMT DEF TicksPerHour

\* More ticks are no fewer hours, and one hour more of ticks is one hour more.
LEMMA HoursGrow ==
    ASSUME NEW a \in Int, NEW b \in Int, a <= b PROVE CeilHours(a) <= CeilHours(b)
<1> DEFINE h == TicksPerHour  x == CeilHours(a)  y == CeilHours(b)
<1>1. h \in Nat \ {0}
  BY HourLength
<1>2. x \in Int /\ h * x <= a + h - 1
  BY <1>1, Division, SMT DEF CeilHours
<1>3. y \in Int /\ b + h - 1 < h * y + h
  BY <1>1, Division, SMT DEF CeilHours
<1> HIDE DEF h, x, y
<1>4. ASSUME y < x PROVE FALSE
  <2>1. h * (y + 1) <= h * x
    BY <1>1, <1>2, <1>3, <1>4, Multiples, SMT
  <2>2. h * (y + 1) = h * y + h /\ h * y \in Int /\ h * x \in Int
    BY <1>1, <1>2, <1>3, SMT
  <2> QED
    BY <1>1, <1>2, <1>3, <2>1, <2>2, SMT
<1>5. x <= y
  BY <1>2, <1>3, <1>4, SMT
<1> QED
  BY <1>5 DEF x, y

LEMMA HoursStep ==
    ASSUME NEW a \in Int PROVE CeilHours(a) \in Int /\ CeilHours(a + TicksPerHour) = CeilHours(a) + 1
<1> DEFINE h == TicksPerHour  x == CeilHours(a)  y == CeilHours(a + h)
<1>1. h \in Nat \ {0}
  BY HourLength
<1>2. x \in Int /\ h * x <= a + h - 1 /\ a + h - 1 < h * x + h
  BY <1>1, Division, SMT DEF CeilHours
<1>3. y \in Int /\ h * y <= a + h + h - 1 /\ a + h + h - 1 < h * y + h
  BY <1>1, Division, SMT DEF CeilHours
<1> HIDE DEF h, x, y
<1>4. h * (x + 1) = h * x + h /\ h * (x + 2) = h * x + h + h /\ h * (y + 1) = h * y + h
      /\ h * x \in Int /\ h * y \in Int
  BY <1>1, <1>2, <1>3, SMT
<1>5. ASSUME y < x + 1 PROVE FALSE
  <2>1. h * (y + 1) <= h * (x + 1)
    BY <1>1, <1>2, <1>3, <1>5, Multiples, SMT
  <2> QED
    BY <1>1, <1>2, <1>3, <1>4, <2>1, SMT
<1>6. ASSUME y > x + 1 PROVE FALSE
  <2>1. h * (x + 2) <= h * y
    BY <1>1, <1>2, <1>3, <1>6, Multiples, SMT
  <2> QED
    BY <1>1, <1>2, <1>3, <1>4, <2>1, SMT
<1>7. y = x + 1
  BY <1>2, <1>3, <1>5, <1>6, SMT
<1> QED
  BY <1>2, <1>7 DEF x, y, h

\* What rentals.txt keeps of the start is less than a second early.
LEMMA SecondsClose ==
    ASSUME NEW t \in Nat
    PROVE  ToSeconds(t) \in Nat /\ ToSeconds(t) <= t /\ t <= ToSeconds(t) + TicksPerHour
<1> DEFINE s == TicksPerSecond  q == t \div s
<1>1. s \in Nat \ {0} /\ TicksPerHour \in Nat /\ s <= TicksPerHour
  BY HourLength, SMT
<1>2. q \in Int /\ s * q <= t /\ t < s * q + s
  BY <1>1, Division, SMT
<1>3. ToSeconds(t) = q * s
  BY DEF ToSeconds
<1> HIDE DEF s, q
<1>4. q >= 0
  <2>1. ASSUME q < 0 PROVE FALSE
    <3>1. s * (q + 1) <= s * 0
      BY <1>1, <1>2, <2>1, Multiples, SMT
    <3> QED
      BY <1>1, <1>2, <3>1, SMT
  <2> QED
    BY <1>2, <2>1, SMT
<1>5. q * s = s * q /\ s * q \in Nat
  BY <1>1, <1>2, <1>4, SMT
<1> QED
  BY <1>1, <1>2, <1>3, <1>5, SMT

\* Both roundings of the hours of a rental.
LEMMA HoursCharged ==
    ASSUME NEW a \in Int
    PROVE  /\ BilledHours(a) = Larger(1, CeilHours(a)) /\ CardHours(a) = BilledHours(a)
           /\ BilledHours(a) \in Nat \ {0}
<1>1. CeilHours(a) \in Int
  BY HoursStep
<1> QED
  BY <1>1, SMT DEF BilledHours, CardHours, Larger

LEMMA ChargedGrow ==
    ASSUME NEW a \in Int, NEW b \in Int, a <= b PROVE BilledHours(a) <= BilledHours(b)
<1>1. CeilHours(a) \in Int /\ CeilHours(b) \in Int
  BY HoursStep
<1> QED
  BY <1>1, HoursGrow, SMT DEF BilledHours, Larger

\* An hour more at most is charged when the start is read back a second early.
LEMMA ChargedClose ==
    ASSUME NEW a \in Int, NEW b \in Int, a <= b, b <= a + TicksPerHour
    PROVE  BilledHours(b) <= BilledHours(a) + 1
<1>1. CeilHours(a) \in Int /\ CeilHours(b) \in Int /\ CeilHours(a + TicksPerHour) = CeilHours(a) + 1
  BY HoursStep
<1>2. a + TicksPerHour \in Int
  BY HourLength, SMT
<1>3. CeilHours(b) <= CeilHours(a + TicksPerHour)
  BY <1>2, HoursGrow
<1> QED
  BY <1>1, <1>3, SMT DEF BilledHours, Larger

(***************************************************************************)
(* The invariant.  The price in memory is the one registered or the one in *)
(* the file, which is the registered one saved once, however often it has  *)
(* been saved; the start is the real one or the one in the file; and while *)
(* the clock runs forward a card has not shown more hours than it would    *)
(* show now.                                                               *)
(***************************************************************************)
PricesInv ==
    /\ agreed \in Price /\ agreed <= IntMax
    /\ filePrice = SavedPrice(agreed) /\ price \in {agreed, filePrice}

StartInv ==
    /\ start = NotOut <=> since = NotOut
    /\ fileStart = NotOut <=> since = NotOut
    /\ since # NotOut => fileStart = SavedStart(since) /\ start \in {since, fileStart}

CardInv == start # NotOut /\ steady = TRUE => shown <= BilledHours(now - start)

BillingInv ==
    TypeOK /\ PricesInv /\ StartInv /\ CardInv /\ BillCoversRental /\ BillAtAgreedPrice

\* What the last bill says does not depend on anything else that changes.
LEMMA BillKept ==
    ASSUME BillCoversRental, BillAtAgreedPrice, UNCHANGED <<bill, agreed>>
    PROVE  BillCoversRental' /\ BillAtAgreedPrice'
<1>1. BillCoversRental'
  BY DEF BillCoversRental
<1>2. BillAtAgreedPrice'
  BY DEF BillAtAgreedPrice
<1> QED
  BY <1>1, <1>2

LEMMA PricesTyped ==
    ASSUME PricesInv
    PROVE  /\ price \in Nat \ {0} /\ filePrice \in Nat \ {0} /\ agreed \in Nat \ {0}
           /\ filePrice \in Price /\ SavedPrice(price) = filePrice
           /\ Digit(agreed) \in Nat \ {0} /\ Digit(agreed) \div 2 \in Nat
           /\ price - agreed <= Digit(agreed) \div 2
           /\ agreed - price <= Digit(agreed) \div 2
<1>1. agreed \in Price /\ agreed <= IntMax /\ filePrice = SavedPrice(agreed)
      /\ price \in {agreed, filePrice}
  BY DEF PricesInv
<1>2. agreed \in Nat \ {0}
  BY <1>1, PriceBounds, SMT
<1>3. filePrice \in Price
  BY <1>1, SavedPriceFits
<1>4. SavedPrice(filePrice) = filePrice
  BY <1>1, <1>3, SavedPriceStable
<1>5. /\ filePrice \in Nat \ {0} /\ Digit(agreed) \in Nat \ {0} /\ Digit(agreed) \div 2 \in Nat
      /\ filePrice <= agreed + Digit(agreed) \div 2 /\ agreed <= filePrice + Digit(agreed) \div 2
  BY <1>1, SavedPriceClose
<1> HIDE DEF PricesInv
<1>6. price - agreed <= Digit(agreed) \div 2 /\ agreed - price <= Digit(agreed) \div 2
  BY <1>1, <1>2, <1>5, SMT
<1> QED
  BY <1>1, <1>2, <1>3, <1>4, <1>5, <1>6

\* The return of a vehicle: the bill it writes is what the two invariants say.
LEMMA ReturnBills ==
    ASSUME BillingInv, Return
    PROVE  BillCoversRental' /\ BillAtAgreedPrice' /\ bill'.cost \in Int
<1> DEFINE out == now - start  hours == BilledHours(now - start)  m == Digit(agreed) \div 2
<1>1. /\ start # NotOut /\ agreed' = agreed
      /\ bill'.hours = hours /\ bill'.cost = Wrap(price * hours) /\ bill'.elapsed = now - since
      /\ bill'.shown = shown /\ bill'.steady = steady
  BY DEF Return, CalculateRentalCost
<1>2. /\ now \in Nat /\ start \in Nat /\ since \in Nat /\ steady \in BOOLEAN
      /\ start \in {since, ToSeconds(since)}
  BY <1>1, SMT DEF BillingInv, TypeOK, StartInv, SavedStart, NotOut
<1>3. out \in Int /\ now - since \in Int /\ now - since <= out /\ out <= now - since + TicksPerHour
  BY <1>2, SecondsClose, HourLength, SMT
<1>4. hours \in Nat \ {0} /\ Larger(1, CeilHours(now - since)) = BilledHours(now - since)
      /\ BilledHours(now - since) \in Nat
  BY <1>3, HoursCharged
<1>5. BillCoversRental'
  <2>1. BilledHours(now - since) <= hours
    BY <1>3, ChargedGrow
  <2>2. hours <= BilledHours(now - since) + 1
    BY <1>3, ChargedClose
  <2>3. steady = TRUE => shown <= hours
    BY <1>1 DEF BillingInv, CardInv
  <2> HIDE DEF hours
  <2> QED
    BY <1>1, <1>2, <1>4, <2>1, <2>2, <2>3 DEF BillCoversRental
<1>6. price \in Nat \ {0} /\ agreed \in Nat \ {0} /\ m \in Nat
      /\ price - agreed <= m /\ agreed - price <= m
  BY PricesTyped DEF BillingInv
<1> HIDE DEF hours, m
<1>7. price * hours \in Nat /\ agreed * hours \in Nat /\ hours * m \in Nat
  BY <1>4, <1>6, SMT
<1>8. bill'.cost \in Int
  BY <1>1, <1>7, WrapIsInt, SMT
<1>9. /\ price * hours - agreed * hours <= hours * m
      /\ agreed * hours - price * hours <= hours * m
  <2>1. hours * (price - agreed) <= hours * m /\ hours * (agreed - price) <= hours * m
    BY <1>4, <1>6, Multiples, SMT
  <2>2. /\ hours * (price - agreed) = price * hours - agreed * hours
        /\ hours * (agreed - price) = agreed * hours - price * hours
    BY <1>4, <1>6, SMT
  <2> QED
    BY <2>1, <2>2
<1>10. ASSUME agreed * hours + hours * m <= IntMax
       PROVE  /\ bill'.cost - agreed * hours <= hours * m
              /\ -(bill'.cost - agreed * hours) <= hours * m
  <2>1. price * hours <= IntMax
    BY <1>7, <1>9, <1>10, IntMaxBounds, SMT
  <2>2. Wrap(price * hours) = price * hours
    BY <1>7, <2>1, WrapFits
  <2> QED
    BY <1>1, <1>7, <1>9, <2>2, SMT
<1>11. BillAtAgreedPrice'
  BY <1>1, <1>10 DEF BillAtAgreedPrice, m
<1> QED
  BY <1>5, <1>8, <1>11

LEMMA InitBilling == Init => BillingInv
<1> SUFFICES ASSUME Init PROVE BillingInv
  OBVIOUS
<1>1. price \in 1..IntMax /\ agreed = price /\ filePrice = SavedPrice(price)
  BY BillingAssumption DEF Init
<1>2. price \in Price /\ price <= IntMax
  BY <1>1, IntMaxBounds, PriceBounds, SMT
<1>3. PricesInv
  BY <1>1, <1>2 DEF PricesInv
<1>4. StartInv /\ CardInv
  BY DEF Init, StartInv, CardInv
<1>5. BillCoversRental
  BY DEF Init, BillCoversRental
<1>6. BillAtAgreedPrice
  BY <1>3, PricesTyped, SMT DEF Init, BillAtAgreedPrice, NoBill
<1>7. now \in 0..MaxTime
  BY HourLength, BillingAssumption, SMT DEF Init, TicksPerHour
<1>8. TypeOK
  <2>1. bill \in [hours : Nat, cost : Int, elapsed : Int, shown : Nat, steady : BOOLEAN]
    BY SMT DEF Init, NoBill
  <2>2. rentals \in 0..MaxRentals /\ restarts \in 0..MaxRestarts
    BY BillingAssumption, SMT DEF Init
  <2> QED
    BY <1>3, <1>7, <2>1, <2>2, PricesTyped DEF Init, TypeOK
<1> QED
  BY <1>3, <1>4, <1>5, <1>6, <1>8 DEF BillingInv

LEMMA NextBilling == BillingInv /\ [Next]_vars => BillingInv'
<1> SUFFICES ASSUME BillingInv, [Next]_vars PROVE BillingInv'
  OBVIOUS
<1>1. /\ now \in 0..MaxTime /\ now \in Nat /\ start \in Nat \cup {NotOut} /\ shown \in Nat
      /\ steady \in BOOLEAN /\ PricesInv /\ StartInv /\ CardInv
      /\ BillCoversRental /\ BillAtAgreedPrice
  BY BillingAssumption, SMT DEF BillingInv, TypeOK
<1>2. start # NotOut => start \in Nat /\ now - start \in Int
  BY <1>1, SMT
<1>3. \A a \in Int : CardHours(a) = BilledHours(a) /\ BilledHours(a) \in Nat \ {0}
  BY HoursCharged
<1>4. CASE Tick
  <2>1. now' = now + 1 /\ now' \in 0..MaxTime
    BY <1>1, <1>4, BillingAssumption, SMT DEF Tick
  <2>2. PricesInv' /\ StartInv' /\ BillCoversRental' /\ BillAtAgreedPrice'
    BY <1>1, <1>4, BillKept DEF Tick, PricesInv, StartInv
  <2>3. CardInv'
    <3>1. ASSUME start # NotOut, steady = TRUE PROVE shown <= BilledHours((now + 1) - start)
      <4>1. BilledHours(now - start) <= BilledHours((now + 1) - start)
        BY <1>1, <1>2, <3>1, ChargedGrow, SMT
      <4>2. BilledHours(now - start) \in Nat /\ BilledHours((now + 1) - start) \in Nat
        BY <1>1, <1>2, <1>3, <3>1, SMT
      <4>3. shown <= BilledHours(now - start)
        BY <1>1, <3>1 DEF CardInv
      <4> QED
        BY <1>1, <4>1, <4>2, <4>3, SMT
    <3>2. start' = start /\ steady' = steady /\ shown' = shown
      BY <1>4 DEF Tick
    <3>3. now' - start' = (now + 1) - start
      BY <2>1, <3>2, Zenon
    <3> QED
      BY <3>1, <3>2, <3>3, Zenon DEF CardInv
  <2>4. TypeOK'
    BY <1>4, <2>1 DEF BillingInv, TypeOK, Tick
  <2> QED
    BY <2>2, <2>3, <2>4 DEF BillingInv
<1>5. CASE SetBack
  <2>1. now' \in 0..MaxTime /\ steady' \in BOOLEAN /\ (start # NotOut => steady' = FALSE)
    <3>1. PICK d \in 1..MaxBack : d <= now /\ now' = now - d
      BY <1>5 DEF SetBack
    <3>2. now' \in 0..MaxTime
      BY <1>1, <3>1, BillingAssumption, SMT
    <3> QED
      BY <1>5, <3>2 DEF SetBack
  <2>2. PricesInv' /\ StartInv' /\ BillCoversRental' /\ BillAtAgreedPrice'
    BY <1>1, <1>5, BillKept DEF SetBack, PricesInv, StartInv
  <2>3. CardInv'
    <3>1. start' = start
      BY <1>5 DEF SetBack
    <3>2. ~(start' # NotOut /\ steady' = TRUE)
      BY <2>1, <3>1, Zenon
    <3> QED
      BY <3>2 DEF CardInv
  <2>4. TypeOK'
    BY <1>5, <2>1 DEF BillingInv, TypeOK, SetBack
  <2> QED
    BY <2>2, <2>3, <2>4 DEF BillingInv
<1>6. CASE Rent
  <2>1. /\ rentals' \in 0..MaxRentals
        /\ start' = now /\ since' = now /\ shown' = 0 /\ steady' = TRUE
        /\ fileStart' = SavedStart(now) /\ filePrice' = SavedPrice(price)
        /\ UNCHANGED <<now, price, agreed, bill, restarts>>
    BY <1>6, BillingAssumption, SMT DEF Rent, BillingInv, TypeOK
  <2>2. SavedPrice(price) = filePrice
    BY <1>1, PricesTyped
  <2>3. PricesInv'
    BY <1>1, <2>1, <2>2 DEF PricesInv
  <2>4. SavedStart(now) \in Nat /\ SavedStart(now) # NotOut /\ now # NotOut
    BY <1>1, SecondsClose, SMT DEF SavedStart, NotOut
  <2>5. StartInv'
    BY <2>1, <2>4 DEF StartInv, SavedStart
  <2>6. CardInv'
    BY <1>1, <1>3, <2>1, SMT DEF CardInv
  <2>7. BillCoversRental' /\ BillAtAgreedPrice'
    BY <1>1, <2>1, BillKept
  <2>8. TypeOK'
    BY <1>1, <2>1, <2>2, <2>4 DEF BillingInv, TypeOK
  <2> QED
    BY <2>3, <2>5, <2>6, <2>7, <2>8 DEF BillingInv
<1>7. CASE ShowCard
  <2>1. /\ start # NotOut /\ shown' = Larger(shown, CardHours(now - start))
        /\ UNCHANGED <<now, price, filePrice, start, fileStart, agreed, since, steady, bill,
                       rentals, restarts>>
    BY <1>7 DEF ShowCard
  <2>2. /\ CardHours(now - start) = BilledHours(now - start) /\ BilledHours(now - start) \in Nat
    BY <1>2, <1>3, <2>1
  <2>3. shown' \in Nat
    BY <1>1, <2>1, <2>2 DEF Larger
  <2>4. steady = TRUE => shown' = BilledHours(now - start)
    BY <1>1, <2>1, <2>2, SMT DEF CardInv, Larger
  <2>5. CardInv'
    BY <2>1, <2>2, <2>4, SMT DEF CardInv
  <2>6. PricesInv' /\ StartInv' /\ BillCoversRental' /\ BillAtAgreedPrice'
    BY <1>1, <2>1, BillKept DEF PricesInv, StartInv
  <2>7. TypeOK'
    BY <2>1, <2>3 DEF BillingInv, TypeOK
  <2> QED
    BY <2>5, <2>6, <2>7 DEF BillingInv
<1>8. CASE Return
  <2>1. /\ start # NotOut /\ start' = NotOut /\ since' = NotOut /\ fileStart' = NotOut
        /\ shown' = 0 /\ steady' = TRUE /\ filePrice' = SavedPrice(price)
        /\ bill' = [hours |-> BilledHours(now - start),
                    cost |-> CalculateRentalCost(BilledHours(now - start)),
                    elapsed |-> now - since, shown |-> shown, steady |-> steady]
        /\ UNCHANGED <<now, price, agreed, rentals, restarts>>
    BY <1>8 DEF Return
  <2>2. BillCoversRental' /\ BillAtAgreedPrice' /\ bill'.cost \in Int
    BY <1>8, ReturnBills
  <2>3. SavedPrice(price) = filePrice
    BY <1>1, PricesTyped
  <2>4. PricesInv' /\ StartInv' /\ CardInv'
    BY <1>1, <2>1, <2>3 DEF PricesInv, StartInv, CardInv
  <2>5. BilledHours(now - start) \in Nat /\ now - since \in Int
    BY <1>2, <1>3, <2>1, SMT DEF BillingInv, TypeOK, NotOut
  <2>6. bill' \in [hours : Nat, cost : Int, elapsed : Int, shown : Nat, steady : BOOLEAN]
    BY <1>1, <2>1, <2>2, <2>5
  <2>7. TypeOK'
    BY <2>1, <2>3, <2>6 DEF BillingInv, TypeOK
  <2> QED
    BY <2>2, <2>4, <2>7 DEF BillingInv
<1>9. CASE Restart
  <2>1. /\ restarts' \in 0..MaxRestarts /\ price' = filePrice /\ start' = fileStart
        /\ UNCHANGED <<now, filePrice, fileStart, agreed, since, shown, steady, bill, rentals>>
    BY <1>9, BillingAssumption, SMT DEF Restart, BillingInv, TypeOK
  <2>2. PricesInv' /\ StartInv' /\ BillCoversRental' /\ BillAtAgreedPrice'
    BY <1>1, <2>1, BillKept DEF PricesInv, StartInv
  <2>3. CardInv'
    <3>1. SUFFICES ASSUME fileStart # NotOut, steady = TRUE
                   PROVE  shown <= BilledHours(now - fileStart)
      BY <2>1 DEF CardInv
    <3>2. start # NotOut /\ start \in Nat /\ fileStart \in Nat /\ fileStart <= start
      BY <1>1, <3>1, SecondsClose, SMT DEF StartInv, SavedStart, BillingInv, TypeOK
    <3>3. now - start \in Int /\ now - fileStart \in Int /\ now - start <= now - fileStart
      BY <1>1, <3>2, SMT
    <3>4. BilledHours(now - start) <= BilledHours(now - fileStart)
      BY <3>3, ChargedGrow
    <3>5. shown <= BilledHours(now - start)
      BY <1>1, <3>1, <3>2 DEF CardInv
    <3> QED
      BY <1>1, <1>3, <3>3, <3>4, <3>5, SMT
  <2>4. TypeOK'
    BY <2>1 DEF BillingInv, TypeOK
  <2> QED
    BY <2>2, <2>3, <2>4 DEF BillingInv
<1>10. CASE UNCHANGED vars
  BY <1>10 DEF vars, BillingInv, TypeOK, PricesInv, StartInv, CardInv, BillCoversRental,
     BillAtAgreedPrice
<1> QED
  BY <1>4, <1>5, <1>6, <1>7, <1>8, <1>9, <1>10 DEF Next

\* It holds in every state.
LEMMA AlwaysBilling == Spec => []BillingInv
<1>1. Init => BillingInv
  BY InitBilling
<1>2. BillingInv /\ [Next]_vars => BillingInv'
  BY NextBilling
<1> QED
  BY <1>1, <1>2, PTL DEF Spec

(***************************************************************************)
(* The theorems.                                                           *)
(***************************************************************************)

\* Whatever the clock does and however often the program is restarted, the
\* amounts, the hours and the starts in memory and in the files are numbers the
\* program can mean, no start but NotOut is negative.
THEOREM BillingTypes == Spec => []TypeOK
<1>1. BillingInv => TypeOK
  BY DEF BillingInv
<1> QED
  BY <1>1, AlwaysBilling, PTL

\* returnVehicle bills no fewer hours than the vehicle was out or than its card
\* showed, and one more at most for the start loadActiveRentals read back, as long
\* as the clock was not set back: for every length of a second and an hour.
THEOREM BillsCoverRentals == Spec => []BillCoversRental
<1>1. BillingInv => BillCoversRental
  BY DEF BillingInv
<1> QED
  BY <1>1, AlwaysBilling, PTL

\* The cost is the registered price times the hours, to the six digits fleet.txt
\* keeps, however many restarts have read the price from there, as long as an int
\* of 32 bits or fewer holds it: for every set of prices.
THEOREM BillsAtAgreedPrice == Spec => []BillAtAgreedPrice
<1>1. BillingInv => BillAtAgreedPrice
  BY DEF BillingInv
<1> QED
  BY <1>1, AlwaysBilling, PTL
=============================================================================
