------------------------- MODULE FleetForms_proofs -------------------------
(***************************************************************************)
(* Theorems about FleetForms, for every set of ids, forms, filters and     *)
(* settings of the search, every width of the numbers and every number of  *)
(* registrations and restarts.                                             *)
(***************************************************************************)
EXTENDS FleetForms, TLAPS

(***************************************************************************)
(* Amounts.                                                                *)
(***************************************************************************)
LEMMA IntMaxBounds == IntMax \in Nat /\ Int32Max \in Nat /\ IntMax <= Int32Max
<1>1. Int32Max \in Nat
  BY SMT DEF Int32Max
<1> QED
  BY <1>1, IntMaxAssumption, SMT

\* A rate that becomes no price is too small or too large.
LEMMA RateRead ==
    ASSUME NEW t \in Int, NEW c \in Conversions
    PROVE  /\ Grosze(t, c) \in Int
           /\ Grosze(t, c) > 0 => Grosze(t, c) \in 1..IntMax
           /\ Grosze(t, c) <= 0 => t < 5 \/ t >= 10 * IntMax + 5
<1>1. IntMax \in Nat
  BY IntMaxBounds, SMT
<1>2. (t + 5) \div 10 \in Int /\ (5 - t) \div 10 \in Int
  BY SMT
<1>3. ASSUME NEW x \in Int
      PROVE  /\ ToInt(x, c) \in Int /\ ToInt(x, c) <= IntMax
             /\ ToInt(x, c) <= 0 => x <= 0 \/ x > IntMax
  BY <1>1, SMT DEF ToInt, FitsInt, IntMin, Conversions
<1>4. CASE t >= 0
  <2>1. Grosze(t, c) = ToInt((t + 5) \div 10, c)
    BY <1>4, SMT DEF Grosze
  <2>2. (t + 5) \div 10 <= 0 => t < 5
    BY SMT
  <2>3. (t + 5) \div 10 > IntMax => t >= 10 * IntMax + 5
    BY <1>1, SMT
  <2> QED
    BY <1>1, <1>2, <1>3, <2>1, <2>2, <2>3, SMT
<1>5. CASE t < 0
  <2>1. Grosze(t, c) = ToInt(-((5 - t) \div 10), c)
    BY <1>5, SMT DEF Grosze
  <2>2. -((5 - t) \div 10) \in Int
    BY <1>2, SMT
  <2> QED
    BY <1>1, <1>3, <1>5, <2>1, <2>2, SMT
<1> QED
  BY <1>4, <1>5, SMT

\* Whole grosze that an int holds are read as they are.
LEMMA AmountRead ==
    ASSUME NEW t \in Int, NEW c, t % 10 = 0, FitsInt(t \div 10)
    PROVE  Grosze(t, c) \in Int /\ t = 10 * Grosze(t, c)
<1>1. t \div 10 \in Int /\ t = 10 * (t \div 10)
  BY SMT
<1>2. t >= 0 => (t + 5) \div 10 = t \div 10
  BY SMT
<1>3. t < 0 => -((5 - t) \div 10) = t \div 10
  BY SMT
<1>4. ToInt(t \div 10, c) = t \div 10
  BY DEF ToInt
<1>5. Grosze(t, c) = t \div 10
  BY <1>2, <1>3, <1>4, SMT DEF Grosze
<1> QED
  BY <1>1, <1>5

LEMMA DigitValue ==
    ASSUME NEW p \in Nat, p > 0, p <= Int32Max
    PROVE  Digit(p) = IF p < 1000000 THEN 1 ELSE IF p < 10000000 THEN 10
                      ELSE IF p < 100000000 THEN 100 ELSE IF p < 1000000000 THEN 1000 ELSE 10000
<1> DEFINE Fits(d) == p \div d < 1000000 /\ (d = 1 \/ p \div d >= 100000)
           D == {1, 10, 100, 1000, 10000}
           e == IF p < 1000000 THEN 1 ELSE IF p < 10000000 THEN 10
                ELSE IF p < 100000000 THEN 100 ELSE IF p < 1000000000 THEN 1000 ELSE 10000
<1>1. e \in D /\ Fits(e)
  BY SMT DEF Int32Max
<1>2. \A d \in D : Fits(d) => d = e
  BY SMT DEF Int32Max
<1>3. Digit(p) = CHOOSE d \in D : Fits(d)
  BY SMT DEF Digit
<1> HIDE DEF Fits, D, e
<1>4. Digit(p) = e
  BY <1>1, <1>2, <1>3, Zenon
<1> QED
  BY <1>4, SMT DEF e

LEMMA PriceDigit == ASSUME NEW p \in 1..IntMax PROVE Digit(p) \in Nat
<1>1. p \in Nat /\ p > 0 /\ p <= Int32Max
  BY IntMaxBounds, SMT
<1> QED
  BY <1>1, DigitValue, SMT

\* A price stays one when it is saved, and does not change when it is saved again
\* or has no more than six digits.
LEMMA PriceSaved ==
    ASSUME NEW p \in 1..IntMax
    PROVE  /\ SavedPrice(p) \in 1..IntMax /\ SavedPrice(SavedPrice(p)) = SavedPrice(p)
           /\ Digit(p) <= 1 => SavedPrice(p) = p
<1>1. IntMax \in Nat /\ Int32Max \in Nat /\ IntMax <= Int32Max
  BY IntMaxBounds, SMT
<1>2. p \in Nat /\ p > 0 /\ p <= IntMax /\ p <= Int32Max /\ IntMax > 0
  BY <1>1, SMT
<1> DEFINE q == SavedPrice(p)
<1>3. q = ((p + Digit(p) \div 2) \div Digit(p)) * Digit(p)
  BY SMT DEF SavedPrice
<1>4. q \in Nat /\ q > 0 /\ (Digit(p) <= 1 => q = p)
  BY <1>2, <1>3, DigitValue, SMT
<1>5. q <= SavedPrice(IntMax)
  BY <1>1, <1>2, <1>3, DigitValue, SMT DEF SavedPrice
<1>6. q <= IntMax
  <2>1. SavedPrice(IntMax) \in Int /\ SavedPrice(IntMax) <= IntMax
    BY <1>1, <1>2, DigitValue, IntMaxAssumption, SMT DEF SavedPrice
  <2> QED
    BY <1>1, <1>4, <1>5, <2>1, SMT
<1>7. SavedPrice(q) = ((q + Digit(q) \div 2) \div Digit(q)) * Digit(q)
  BY SMT DEF SavedPrice
<1>8. Digit(q) = IF q < 1000000 THEN 1 ELSE IF q < 10000000 THEN 10
                 ELSE IF q < 100000000 THEN 100 ELSE IF q < 1000000000 THEN 1000 ELSE 10000
  BY <1>1, <1>4, <1>6, DigitValue, SMT
<1>9. Digit(p) = IF p < 1000000 THEN 1 ELSE IF p < 10000000 THEN 10
                 ELSE IF p < 100000000 THEN 100 ELSE IF p < 1000000000 THEN 1000 ELSE 10000
  BY <1>2, DigitValue, SMT
<1> HIDE DEF q
<1>10. SavedPrice(q) = q
  BY <1>2, <1>3, <1>4, <1>7, <1>8, <1>9, SMT
<1> QED
  BY <1>1, <1>4, <1>6, <1>10, SMT DEF q

(***************************************************************************)
(* Vehicles.  What the register form makes of its boxes, and what fleet.txt*)
(* makes of a vehicle.                                                     *)
(***************************************************************************)
RegisterBoxes == Forms \cup {EmptyForm}

\* A vehicle whose line loadFleet reads as it was written.
Readable(v) ==
    /\ v \in VehicleRecord
    /\ v.type # "Bike" => v.size > 0
    /\ SizeOf(v.type, v.size) = v.size

LEMMA BoxesHold ==
    ASSUME NEW f \in RegisterBoxes
    PROVE  /\ f \in FormRecord
           /\ \A m, n \in f.spec : m = n /\ n <= IntMax
           /\ f.type = "Bike" => f.spec = {}
<1>1. EmptyForm \in FormRecord /\ EmptyForm.spec = {}
  BY DEF EmptyForm, FormRecord, Types, Names
<1> QED
  BY <1>1, FormsAssumption DEF RegisterBoxes

LEMMA Remainder ==
    ASSUME NEW n \in Nat, NEW w \in Nat, w > 0
    PROVE  n % w \in Nat /\ n % w < w /\ (n % w) % w = n % w /\ (n < w => n % w = n)
<1>1. n % w \in Nat /\ n % w < w
  BY SMT
<1>2. ASSUME NEW m \in Nat, m < w PROVE m % w = m
  BY <1>2, SMT
<1> QED
  BY <1>1, <1>2, SMT

LEMMA Widths ==
    /\ ByteSize \in Nat /\ WordSize \in Nat /\ LongSize \in Nat
    /\ 5 < ByteSize /\ 2000 < WordSize /\ IntMax < WordSize /\ WordSize < LongSize
BY WidthsAssumption, LongAssumption, FormsAssumption

\* The size of a registered vehicle survives the file.  It is 0 only for a multiple
\* of what a byte counts, and what was typed if a byte counts it.
LEMMA SizeMade ==
    ASSUME NEW f \in RegisterBoxes
    PROVE  LET s == SizeOf(f.type, SpecOrDefault(f))
           IN /\ s \in Nat /\ SizeOf(f.type, s) = s
              /\ f.type # "Bike" /\ s = 0 =>
                   f.type = "Car" /\ \E n \in f.spec : n > 0 /\ n % ByteSize = 0
              /\ \A n \in f.spec : n > 0 /\ (f.type = "Car" => n < ByteSize) => s = n
<1> DEFINE d == SpecOrDefault(f)  s == SizeOf(f.type, d)
<1>1. /\ f \in FormRecord /\ f.type \in Types /\ f.spec \subseteq Nat
      /\ \A m, n \in f.spec : m = n /\ n <= IntMax
      /\ f.type = "Bike" => f.spec = {}
  BY BoxesHold DEF FormRecord
<1>2. /\ ByteSize \in Nat /\ WordSize \in Nat /\ IntMax \in Nat
      /\ 5 < ByteSize /\ 2000 < WordSize /\ IntMax < WordSize
  BY Widths, IntMaxBounds
<1>3. CASE \E n \in f.spec : n > 0
  <2>1. PICK n \in f.spec : n > 0
    BY <1>3
  <2>2. f.spec = {n} /\ n \in Nat /\ n <= IntMax
    BY <1>1, <2>1
  <2>3. d = n
    BY <1>3, <2>2, Zenon DEF SpecOrDefault
  <2>4. f.type \in {"Car", "Truck"}
    BY <1>1, <2>1 DEF Types
  <2>5. CASE f.type = "Car"
    <3>1. s = n % ByteSize /\ \A x : SizeOf(f.type, x) = x % ByteSize
      BY <2>3, <2>5 DEF SizeOf
    <3> HIDE DEF d, s
    <3>2. /\ s \in Nat /\ s % ByteSize = s /\ (n < ByteSize => s = n)
      BY <1>2, <2>2, <3>1, Remainder
    <3> QED
      BY <2>1, <2>2, <2>5, <3>1, <3>2 DEF s, d
  <2>6. CASE f.type = "Truck"
    <3>1. s = n % WordSize /\ \A x : SizeOf(f.type, x) = x % WordSize
      BY <2>3, <2>6 DEF SizeOf
    <3> HIDE DEF d, s
    <3>2. n < WordSize
      BY <1>2, <2>2, SMT
    <3>3. s = n /\ s % WordSize = s
      BY <1>2, <2>2, <3>1, <3>2, Remainder
    <3>4. s # 0
      BY <2>1, <2>2, <3>3, SMT
    <3> QED
      BY <2>2, <2>6, <3>1, <3>3, <3>4 DEF s, d
  <2> QED
    BY <2>4, <2>5, <2>6
<1>4. CASE ~\E n \in f.spec : n > 0
  <2>1. d = IF f.type = "Car" THEN 5 ELSE 2000
    BY <1>4 DEF SpecOrDefault
  <2>2. f.type \in {"Car", "Truck", "Bike"}
    BY <1>1 DEF Types
  <2>3. CASE f.type = "Car"
    <3>1. s = 5 % ByteSize /\ \A x : SizeOf(f.type, x) = x % ByteSize
      BY <2>1, <2>3 DEF SizeOf
    <3> HIDE DEF d, s
    <3>2. s = 5 /\ s % ByteSize = s
      BY <1>2, <3>1, SMT
    <3> QED
      BY <1>4, <3>1, <3>2 DEF s, d
  <2>4. CASE f.type = "Truck"
    <3>1. s = 2000 % WordSize /\ \A x : SizeOf(f.type, x) = x % WordSize
      BY <2>1, <2>4 DEF SizeOf
    <3> HIDE DEF d, s
    <3>2. s = 2000 /\ s % WordSize = s
      BY <1>2, <3>1, SMT
    <3>3. s \in Nat /\ s # 0
      BY <3>2, SMT
    <3> QED
      BY <1>4, <3>1, <3>2, <3>3 DEF s, d
  <2>5. CASE f.type = "Bike"
    BY <1>1, <2>5 DEF SizeOf
  <2> QED
    BY <2>2, <2>3, <2>4, <2>5
<1> QED
  BY <1>3, <1>4

\* What Save builds is a vehicle and its line can be read, or something was typed
\* that the form does not look at.
LEMMA VehicleMade ==
    ASSUME NEW f \in RegisterBoxes, NEW id \in Ids, Complete(f), conversion \in Conversions
    PROVE  /\ Constructible(VehicleOf(f, id)) => Readable(VehicleOf(f, id))
           /\ ~Constructible(VehicleOf(f, id)) =>
                \/ f.brand \in BadNames \/ f.model \in BadNames
                \/ \E t \in f.rate : t < 5 \/ t >= 10 * IntMax + 5
                \/ f.type = "Car" /\ \E n \in f.spec : n > 0 /\ n % ByteSize = 0
<1> DEFINE w == VehicleOf(f, id)
<1>1. PICK t \in f.rate : w.price = Grosze(t, conversion)
  <2>1. f.rate # {}
    BY DEF Complete
  <2> QED
    BY <2>1 DEF VehicleOf
<1>2. f \in FormRecord /\ f.type \in Types /\ f.brand \in Names /\ f.model \in Names /\ t \in Int
  BY BoxesHold DEF FormRecord
<1>3. /\ w.price \in Int /\ (w.price > 0 => w.price \in 1..IntMax)
      /\ w.price <= 0 => t < 5 \/ t >= 10 * IntMax + 5
  BY <1>1, <1>2, RateRead
<1>4. /\ w.size \in Nat /\ SizeOf(w.type, w.size) = w.size
      /\ w.type # "Bike" /\ w.size = 0 =>
           f.type = "Car" /\ \E n \in f.spec : n > 0 /\ n % ByteSize = 0
  BY SizeMade DEF VehicleOf
<1>5. w = [id |-> id, type |-> f.type, brand |-> f.brand, model |-> f.model, size |-> w.size,
           price |-> w.price, status |-> "Available"]
  BY DEF VehicleOf
<1>6. id \in Nat \ {0}
  BY FleetAssumption
<1>7. f.brand # NoName /\ f.model # NoName
  BY DEF Complete
<1> HIDE DEF w
<1>8. ASSUME Constructible(w) PROVE Readable(w)
  <2>1. w.brand \in PlainNames /\ w.model \in PlainNames /\ w.price > 0
        /\ (w.type # "Bike" => w.size > 0)
    BY <1>8 DEF Constructible, NameAccepted
  <2>2. w.price \in 1..IntMax
    BY <1>3, <2>1
  <2>3. w \in VehicleRecord
    BY <1>2, <1>4, <1>5, <1>6, <2>1, <2>2 DEF VehicleRecord, Statuses
  <2> QED
    BY <1>4, <2>1, <2>3 DEF Readable
<1>9. ASSUME ~Constructible(w)
      PROVE  \/ f.brand \in BadNames \/ f.model \in BadNames
             \/ \E r \in f.rate : r < 5 \/ r >= 10 * IntMax + 5
             \/ f.type = "Car" /\ \E n \in f.spec : n > 0 /\ n % ByteSize = 0
  <2>1. \/ w.brand \notin PlainNames \/ w.model \notin PlainNames \/ ~(w.price > 0)
        \/ w.type # "Bike" /\ ~(w.size > 0)
    <3>1. w.id > 0
      BY <1>5, <1>6, SMT
    <3> QED
      BY <1>9, <3>1 DEF Constructible, NameAccepted
  <2>2. ASSUME ~(w.price > 0) PROVE t < 5 \/ t >= 10 * IntMax + 5
    <3>1. w.price <= 0
      BY <1>3, <2>2, SMT
    <3> QED
      BY <1>3, <3>1
  <2>3. ASSUME w.type # "Bike", ~(w.size > 0) PROVE w.size = 0
    BY <1>4, <2>3, SMT
  <2>4. w.brand = f.brand /\ w.model = f.model
    BY <1>5
  <2>5. \A n \in Names : n # NoName /\ n \notin PlainNames => n \in BadNames
    BY DEF Names
  <2>6. CASE w.brand \notin PlainNames \/ w.model \notin PlainNames
    BY <1>2, <1>7, <2>4, <2>5, <2>6
  <2>7. CASE ~(w.price > 0)
    BY <1>1, <2>2, <2>7
  <2>8. CASE w.type # "Bike" /\ ~(w.size > 0)
    BY <1>4, <2>3, <2>8
  <2> QED
    BY <2>1, <2>6, <2>7, <2>8
<1> QED
  BY <1>8, <1>9 DEF w

\* A line gives the vehicle it was written for, with six digits of its price, and
\* writing that vehicle changes nothing more.
LEMMA VehicleSaved ==
    ASSUME NEW v, Readable(v)
    PROVE  LET w == SerializeVehicle(v)
           IN /\ Readable(w) /\ SerializeVehicle(w) = w /\ DeserializeVehicle(w) = {w}
              /\ w.id = v.id /\ (Digit(v.price) <= 1 => w = v)
              /\ w = [v EXCEPT !.price = w.price]
<1> DEFINE w == SerializeVehicle(v)  q == SavedPrice(v.price)
<1>1. v \in VehicleRecord /\ v.price \in 1..IntMax
  BY DEF Readable, VehicleRecord
<1>2. q \in 1..IntMax /\ SavedPrice(q) = q /\ (Digit(v.price) <= 1 => q = v.price)
  BY <1>1, PriceSaved
<1>3. w = [v EXCEPT !.price = q]
  BY DEF SerializeVehicle
<1> HIDE DEF q
<1>4. /\ w \in VehicleRecord /\ w.price = q /\ w.id = v.id /\ w.size = v.size /\ w.type = v.type
      /\ (q = v.price => w = v)
  BY <1>1, <1>2, <1>3 DEF VehicleRecord
<1>5. Readable(w)
  BY <1>4 DEF Readable
<1>6. SerializeVehicle(w) = w
  <2>1. SerializeVehicle(w) = [w EXCEPT !.price = SavedPrice(q)]
    BY <1>4, Zenon DEF SerializeVehicle
  <2> HIDE DEF w
  <2>2. [w EXCEPT !.price = q] = w
    BY <1>4 DEF VehicleRecord
  <2> QED
    BY <1>2, <2>1, <2>2, Zenon
<1> HIDE DEF w
<1>7. DeserializeVehicle(w) = {w}
  <2>1. [w EXCEPT !.size = SizeOf(w.type, @)] = w
    <3>1. SizeOf(w.type, w.size) = w.size
      BY <1>5 DEF Readable
    <3>2. [w EXCEPT !.size = w.size] = w
      BY <1>4 DEF VehicleRecord
    <3> QED
      BY <3>1, <3>2, Zenon
  <2>2. w.id > 0 /\ w.price > 0 /\ w.brand \in PlainNames /\ w.model \in PlainNames
    BY <1>4, IntMaxBounds, SMT DEF VehicleRecord
  <2>3. Constructible(w)
    BY <1>5, <2>2 DEF Constructible, NameAccepted, Readable
  <2>4. w.brand \notin BadNames /\ w.model \notin BadNames
    BY <2>2, NamesAssumption
  <2> QED
    BY <2>1, <2>3, <2>4, Zenon DEF DeserializeVehicle
<1>8. w = [v EXCEPT !.price = w.price]
  BY <1>3, <1>4, Zenon
<1> QED
  BY <1>2, <1>4, <1>5, <1>6, <1>7, <1>8 DEF w

(***************************************************************************)
(* Filters.                                                                *)
(***************************************************************************)
LEMMA NumbersFit ==
    ASSUME NEW r \in Requirement(SUBSET Nat), \A n \in Typed(r) : n < WordSize
    PROVE  Numbers(r) = r
<1>1. \A n \in Typed(r) : SafeStoul(n) = n
  <2> SUFFICES ASSUME NEW n \in Typed(r) PROVE SafeStoul(n) = n
    OBVIOUS
  <2>1. n \in Nat /\ n < WordSize
    BY DEF Typed, Requirement
  <2>2. n % WordSize = n
    BY <2>1, Widths, Remainder, SMT
  <2>3. ~(n >= LongSize)
    BY <2>1, Widths, SMT
  <2> QED
    BY <2>2, <2>3 DEF SafeStoul
<1>2. \A S \in SUBSET Typed(r) : {SafeStoul(n) : n \in S} = S
  BY <1>1
<1>3. r = [min |-> r.min, max |-> r.max, equals |-> r.equals] /\ DOMAIN r = {"min", "max", "equals"}
  BY DEF Requirement
<1>4. r.min \subseteq Typed(r) /\ r.max \subseteq Typed(r) /\ r.equals \subseteq Typed(r)
  BY DEF Typed
<1>5. Numbers(r) = [bound \in {"min", "max", "equals"} |-> r[bound]]
  BY <1>2, <1>3, <1>4 DEF Numbers
<1> QED
  BY <1>3, <1>5

\* A requirement on a number says the same to the program and to its user.
LEMMA NumberSays ==
    ASSUME NEW r \in Requirement(SUBSET Nat), NEW x \in Nat,
           \A n \in Typed(r) : n < WordSize
    PROVE  Within(x, Numbers(r)) <=>
             /\ \A y \in r.min : y <= x
             /\ \A y \in r.max : x <= y
             /\ r.equals \in {{}, {x}}
<1>1. Numbers(r) = r /\ r.min \subseteq Nat /\ r.max \subseteq Nat
  BY NumbersFit DEF Requirement
<1>2. (\A y \in r.min : x >= y) <=> (\A y \in r.min : y <= x)
  BY <1>1, SMT
<1>3. (\A y \in r.equals : x = y) <=> r.equals \in {{}, {x}}
  OBVIOUS
<1> QED
  BY <1>1, <1>2, <1>3 DEF Within

\* And so does one on the price, in whole grosze that an int holds.
LEMMA PriceSays ==
    ASSUME NEW r \in Requirement(SUBSET Int), NEW p \in Nat, NEW c,
           \A t \in Typed(r) : t % 10 = 0 /\ FitsInt(t \div 10)
    PROVE  Within(p, Amounts(r, c)) <=>
             /\ \A y \in r.min : y <= 10 * p
             /\ \A y \in r.max : 10 * p <= y
             /\ r.equals \in {{}, {10 * p}}
<1> DEFINE a == Amounts(r, c)
<1>1. \A t \in Typed(r) : t \in Int /\ Grosze(t, c) \in Int /\ t = 10 * Grosze(t, c)
  <2> SUFFICES ASSUME NEW t \in Typed(r)
               PROVE  t \in Int /\ Grosze(t, c) \in Int /\ t = 10 * Grosze(t, c)
    OBVIOUS
  <2>1. t \in Int
    BY DEF Typed, Requirement
  <2> QED
    BY <2>1, AmountRead
<1>2. DOMAIN r = {"min", "max", "equals"}
  BY DEF Requirement
<1>3. /\ a.min = {Grosze(t, c) : t \in r.min}
      /\ a.max = {Grosze(t, c) : t \in r.max}
      /\ a.equals = {Grosze(t, c) : t \in r.equals}
  BY <1>2 DEF Amounts
<1>4. ASSUME NEW t \in Int, NEW g \in Int, t = 10 * g
      PROVE  (p >= g <=> t <= 10 * p) /\ (p <= g <=> 10 * p <= t) /\ (p = g <=> t = 10 * p)
  BY <1>4, SMT
<1>5. \A t \in Typed(r) : /\ p >= Grosze(t, c) <=> t <= 10 * p
                          /\ p <= Grosze(t, c) <=> 10 * p <= t
                          /\ p = Grosze(t, c) <=> t = 10 * p
  BY <1>1, <1>4
<1> HIDE DEF a
<1>6. (\A g \in a.min : p >= g) <=> (\A y \in r.min : y <= 10 * p)
  <2>1. (\A g \in a.min : p >= g) <=> (\A y \in r.min : p >= Grosze(y, c))
    BY <1>3, Zenon
  <2> QED
    BY <1>5, <2>1, Zenon DEF Typed
<1>7. (\A g \in a.max : p <= g) <=> (\A y \in r.max : 10 * p <= y)
  <2>1. (\A g \in a.max : p <= g) <=> (\A y \in r.max : p <= Grosze(y, c))
    BY <1>3, Zenon
  <2> QED
    BY <1>5, <2>1, Zenon DEF Typed
<1>8. (\A g \in a.equals : p = g) <=> (\A y \in r.equals : y = 10 * p)
  <2>1. (\A g \in a.equals : p = g) <=> (\A y \in r.equals : p = Grosze(y, c))
    BY <1>3, Zenon
  <2> QED
    BY <1>5, <2>1, Zenon DEF Typed
<1>9. (\A y \in r.equals : y = 10 * p) <=> r.equals \in {{}, {10 * p}}
  OBVIOUS
<1> QED
  BY <1>6, <1>7, <1>8, <1>9 DEF Within, a

\* AdvancedFilter::matches is what the filter says, as long as its numbers fit.
LEMMA FilterSays ==
    ASSUME NEW f, IsFilter(f), FilterFits(f), NEW v \in VehicleRecord, NEW code, NEW c
    PROVE  Matches(f, v, code, c) <=> Says(f, v, code)
<1>1. /\ f["id"] \in Requirement(SUBSET Nat)
      /\ f["seats"] \in Requirement(SUBSET Nat)
      /\ f["payload"] \in Requirement(SUBSET Nat)
      /\ f["price"] \in Requirement(SUBSET Int)
  BY DEF IsFilter, IntRows
<1>2. v.id \in Nat /\ v.size \in Nat /\ v.price \in Nat
  BY IntMaxBounds, SMT DEF VehicleRecord
<1>3. /\ \A n \in Typed(f["id"]) : n < WordSize
      /\ \A n \in Typed(f["seats"]) : n < WordSize
      /\ \A n \in Typed(f["payload"]) : n < WordSize
      /\ \A t \in Typed(f["price"]) : t % 10 = 0 /\ FitsInt(t \div 10)
  BY DEF FilterFits, IntRows
<1> DEFINE Between(x, r) == (\A y \in r.min : y <= x) /\ (\A y \in r.max : x <= y)
           Is(x, r) == r.equals \in {{}, {x}}
<1>4. Within(v.id, Numbers(f.id)) <=> Between(v.id, f.id) /\ Is(v.id, f.id)
  BY <1>1, <1>2, <1>3, NumberSays
<1>5. Within(v.price, Amounts(f.price, c)) <=>
        Between(10 * v.price, f.price) /\ Is(10 * v.price, f.price)
  BY <1>1, <1>2, <1>3, PriceSays
<1>6. ASSUME NEW r \in Requirement(SUBSET Nat), \A n \in Typed(r) : n < WordSize, NEW type
      PROVE  MatchesSize(v, r, type) <=>
               (r # NoRequirement => v.type = type /\ Between(v.size, r) /\ Is(v.size, r))
  <2>1. RequirementActive(r) <=> r # NoRequirement
    BY DEF RequirementActive, NoRequirement, Requirement
  <2>2. Within(v.size, Numbers(r)) <=> Between(v.size, r) /\ Is(v.size, r)
    BY <1>2, <1>6, NumberSays
  <2> QED
    BY <2>1, <2>2 DEF MatchesSize
<1>7. /\ MatchesSize(v, f.seats, "Car") <=>
           (f.seats # NoRequirement => v.type = "Car" /\ Between(v.size, f.seats) /\ Is(v.size, f.seats))
      /\ MatchesSize(v, f.payload, "Truck") <=>
           (f.payload # NoRequirement =>
              v.type = "Truck" /\ Between(v.size, f.payload) /\ Is(v.size, f.payload))
  BY <1>1, <1>3, <1>6
<1>8. ASSUME NEW x, NEW r PROVE MatchesText(x, r) <=> Is(x, r)
  BY DEF MatchesText
<1> HIDE DEF Between, Is
<1>9. Says(f, v, code) <=>
        /\ Between(v.id, f.id) /\ Is(v.id, f.id)
        /\ Between(10 * v.price, f.price) /\ Is(10 * v.price, f.price)
        /\ (f.seats # NoRequirement => v.type = "Car" /\ Between(v.size, f.seats) /\ Is(v.size, f.seats))
        /\ (f.payload # NoRequirement =>
              v.type = "Truck" /\ Between(v.size, f.payload) /\ Is(v.size, f.payload))
        /\ Is(v.brand, f.brand) /\ Is(v.model, f.model) /\ Is(v.type, f.type)
        /\ Is(v.status, f.status) /\ Is(code, f.rental_code)
  BY Zenon DEF Says, Between, Is
<1> QED
  BY <1>4, <1>5, <1>7, <1>8, <1>9, Zenon DEF Matches

(***************************************************************************)
(* The inductive invariant.  FleetInv: every vehicle can be read again and *)
(* fleet.txt holds its line.  DialogInv: no vehicle is on its way while    *)
(* the register form is open, and one that is came from a complete form.   *)
(* TypedInv: a vehicle that was registered is in the fleet as it was made, *)
(* or, after a restart, as its line has it.  ListInv: the cards show the   *)
(* search in force, but between a registration and the reload after it,    *)
(* and the button tells whether there is a filter.                         *)
(***************************************************************************)
FleetInv ==
    /\ \A v \in fleet : Readable(v)
    /\ file = {SerializeVehicle(v) : v \in fleet}

Made(f, id) == f \in RegisterBoxes /\ id \in Ids /\ Complete(f) /\ Constructible(VehicleOf(f, id))

DialogInv ==
    /\ form \subseteq RegisterBoxes /\ saving \in BOOLEAN
    /\ \A f, g \in form : f = g
    /\ form # {} => work = NoWork
    /\ form # {} \/ work.kind = "add" => registered < MaxRegistered
    /\ \/ work = NoWork \/ work = [kind |-> "load"]
       \/ \E f, id : Made(f, id) /\ work = [kind |-> "add", veh |-> VehicleOf(f, id), form |-> f]

InFleet(f, id) ==
    \E v \in fleet :
        \/ v = VehicleOf(f, id)
        \/ v = SerializeVehicle(VehicleOf(f, id)) /\ restarts > 0

TypedInv == \A t \in typed : Made(t.form, t.id) /\ InFleet(t.form, t.id)

ListInv ==
    /\ work.kind # "load" => shown = Search(fleet, filter, choice)
    /\ label = IF filter = {} THEN "Advanced filters" ELSE "Clear filters"

FormsInv == TypeOK /\ FleetInv /\ DialogInv /\ TypedInv /\ ListInv /\ ExitOnlyFromBadInput

Unique == \A v, w \in fleet : v.id = w.id => v = w

\* What the inputs and the forms leave alone, and who registers and restarts.
Apart == UNCHANGED <<fleet, file, typed, registered, restarts>>

LEMMA Steps ==
    ASSUME [Next]_vars
    PROVE  conversion' = conversion /\ (Apart \/ AddVehicle \/ Restart)
<1>1. ASSUME NEW f, FillIn(f) \/ EditFilter(f) PROVE conversion' = conversion /\ Apart
  BY <1>1 DEF FillIn, EditFilter, Apart
<1>2. ASSUME NEW id, Draw(id) PROVE conversion' = conversion /\ Apart
  BY <1>2 DEF Draw, Apart
<1>3. ASSUME NEW c, Choose(c) PROVE conversion' = conversion /\ Apart
  BY <1>3 DEF Choose, Apart
<1>4. ASSUME \/ OpenRegister \/ PressSave \/ CancelRegister \/ TakeFleet \/ OpenFilter
             \/ ClearFilter \/ ApplyFilter \/ CancelFilter \/ Ended \/ UNCHANGED vars
      PROVE  conversion' = conversion /\ Apart
  BY <1>4 DEF OpenRegister, PressSave, CancelRegister, TakeFleet, OpenFilter, ClearFilter, ApplyFilter,
     CancelFilter, Ended, vars, Apart
<1>5. AddVehicle \/ Restart => conversion' = conversion
  BY DEF AddVehicle, Restart
<1> QED
  BY <1>1, <1>2, <1>3, <1>4, <1>5 DEF Next

\* What the worker is about to add is a vehicle whose line can be read.
LEMMA AddsMade ==
    ASSUME TypeOK, DialogInv, work.kind = "add"
    PROVE  \E f, id : /\ Made(f, id) /\ Readable(VehicleOf(f, id)) /\ VehicleOf(f, id).id = id
                      /\ work = [kind |-> "add", veh |-> VehicleOf(f, id), form |-> f]
<1>1. PICK f, id : Made(f, id) /\ work = [kind |-> "add", veh |-> VehicleOf(f, id), form |-> f]
  BY DEF DialogInv, NoWork
<1>2. Readable(VehicleOf(f, id))
  BY <1>1, VehicleMade DEF Made, TypeOK
<1>3. VehicleOf(f, id).id = id
  BY DEF VehicleOf
<1> QED
  BY <1>1, <1>2, <1>3

\* After a restart every vehicle is as its line has it.
LEMMA Reloaded ==
    ASSUME FleetInv, Restart
    PROVE  fleet' = {SerializeVehicle(v) : v \in fleet} /\ file' = fleet'
<1>1. fleet' = UNION {DeserializeVehicle(line) : line \in file} /\ file' = file
  BY DEF Restart
<1>2. \A v \in fleet : DeserializeVehicle(SerializeVehicle(v)) = {SerializeVehicle(v)}
  BY VehicleSaved DEF FleetInv
<1> QED
  BY <1>1, <1>2 DEF FleetInv

LEMMA FleetStep ==
    ASSUME TypeOK, FleetInv, DialogInv, [Next]_vars PROVE FleetInv' /\ Unique'
<1>1. CASE Apart
  BY <1>1 DEF Apart, FleetInv, Unique, TypeOK
<1>2. CASE AddVehicle
  <2>1. PICK f, id : Readable(VehicleOf(f, id))
                     /\ work = [kind |-> "add", veh |-> VehicleOf(f, id), form |-> f]
    BY <1>2, AddsMade DEF AddVehicle
  <2>2. /\ fleet' = fleet \cup {work.veh} /\ file' = {SerializeVehicle(v) : v \in fleet'}
        /\ work.veh.id \notin {v.id : v \in fleet}
    BY <1>2 DEF AddVehicle, IdsOf
  <2>3. \A v \in fleet : v.id # work.veh.id
    BY <2>2
  <2>4. Unique'
    <3>1. PICK n : n = work.veh
      OBVIOUS
    <3>2. fleet' = fleet \cup {n} /\ \A v \in fleet : v.id # n.id
      BY <2>2, <2>3, <3>1
    <3>3. \A v, w \in fleet : v.id = w.id => v = w
      BY DEF TypeOK
    <3> SUFFICES ASSUME NEW v \in fleet', NEW w \in fleet', v.id = w.id PROVE v = w
      BY DEF Unique
    <3>4. (v \in fleet \/ v = n) /\ (w \in fleet \/ w = n)
      BY <3>2
    <3> QED
      BY <3>2, <3>3, <3>4
  <2> QED
    BY <2>1, <2>2, <2>4 DEF FleetInv
<1>3. CASE Restart
  <2>1. fleet' = {SerializeVehicle(v) : v \in fleet} /\ file' = fleet'
    BY <1>3, Reloaded
  <2>2. \A v \in fleet : /\ Readable(SerializeVehicle(v)) /\ SerializeVehicle(v).id = v.id
                         /\ SerializeVehicle(SerializeVehicle(v)) = SerializeVehicle(v)
    BY VehicleSaved DEF FleetInv
  <2>3. \A w \in fleet' : Readable(w) /\ SerializeVehicle(w) = w
    BY <2>1, <2>2
  <2>4. file' = {SerializeVehicle(w) : w \in fleet'}
    BY <2>1, <2>3
  <2>5. Unique'
    <3>1. \A v, w \in fleet : v.id = w.id => v = w
      BY DEF TypeOK
    <3> SUFFICES ASSUME NEW x \in fleet', NEW y \in fleet', x.id = y.id PROVE x = y
      BY DEF Unique
    <3>2. PICK v \in fleet, w \in fleet : x = SerializeVehicle(v) /\ y = SerializeVehicle(w)
      BY <2>1
    <3>3. v.id = w.id
      BY <2>2, <3>2
    <3> QED
      BY <3>1, <3>2, <3>3
  <2> QED
    BY <2>3, <2>4, <2>5 DEF FleetInv
<1> QED
  BY <1>1, <1>2, <1>3, Steps

LEMMA MadeStays ==
    ASSUME conversion' = conversion, NEW f, NEW id
    PROVE  (Made(f, id)' <=> Made(f, id)) /\ VehicleOf(f, id)' = VehicleOf(f, id)
BY DEF Made, VehicleOf

LEMMA TypedStep ==
    ASSUME TypeOK, FleetInv, DialogInv, TypedInv, [Next]_vars PROVE TypedInv'
<1>1. conversion' = conversion
  BY Steps
<1>2. CASE Apart
  <2> SUFFICES ASSUME NEW t \in typed PROVE Made(t.form, t.id)' /\ InFleet(t.form, t.id)'
    BY <1>2 DEF Apart, TypedInv
  <2> QED
    BY <1>1, <1>2, MadeStays DEF Apart, TypedInv, InFleet
<1>3. CASE AddVehicle
  <2>1. PICK f, id : /\ Made(f, id)
                     /\ work = [kind |-> "add", veh |-> VehicleOf(f, id), form |-> f]
                     /\ VehicleOf(f, id).id = id
    BY <1>3, AddsMade DEF AddVehicle
  <2>2. /\ fleet' = fleet \cup {VehicleOf(f, id)} /\ typed' = typed \cup {[id |-> id, form |-> f]}
        /\ restarts' = restarts
    BY <1>3, <2>1 DEF AddVehicle
  <2>3. \A t \in typed' : Made(t.form, t.id) /\ \E v \in fleet' :
            \/ v = VehicleOf(t.form, t.id)
            \/ v = SerializeVehicle(VehicleOf(t.form, t.id)) /\ restarts > 0
    BY <2>1, <2>2 DEF TypedInv, InFleet
  <2> SUFFICES ASSUME NEW t \in typed' PROVE Made(t.form, t.id)' /\ InFleet(t.form, t.id)'
    BY DEF TypedInv
  <2> QED
    BY <1>1, <2>2, <2>3, MadeStays DEF InFleet
<1>4. CASE Restart
  <2>1. typed' = typed /\ restarts' > 0
    <3>1. restarts \in Nat
      <4>1. restarts \in 0..MaxRestarts
        BY DEF TypeOK
      <4> QED
        BY <4>1, FormBoundsAssumption, SMT
    <3>2. typed' = typed /\ restarts' = restarts + 1
      BY <1>4 DEF Restart
    <3> QED
      BY <3>1, <3>2, SMT
  <2>2. fleet' = {SerializeVehicle(v) : v \in fleet}
    BY <1>4, Reloaded
  <2> SUFFICES ASSUME NEW t \in typed PROVE Made(t.form, t.id)' /\ InFleet(t.form, t.id)'
    BY <2>1 DEF TypedInv
  <2>3. PICK v \in fleet : v = VehicleOf(t.form, t.id) \/ v = SerializeVehicle(VehicleOf(t.form, t.id))
    BY DEF TypedInv, InFleet
  <2>4. Readable(VehicleOf(t.form, t.id))
    BY VehicleMade DEF TypedInv, Made, TypeOK
  <2>5. SerializeVehicle(v) = SerializeVehicle(VehicleOf(t.form, t.id))
    BY <2>3, <2>4, VehicleSaved
  <2>6. SerializeVehicle(VehicleOf(t.form, t.id)) \in fleet'
    BY <2>2, <2>5
  <2> QED
    BY <1>1, <2>1, <2>6, MadeStays DEF InFleet, TypedInv
<1> QED
  BY <1>2, <1>3, <1>4, Steps

\* What one turn of the loop behind Save may come to.
LEMMA Drawn ==
    ASSUME NEW id \in Ids, Draw(id)
    PROVE  /\ saving /\ running /\ (saving' = saving \/ saving' = FALSE) /\ drawn' \subseteq Ids
           /\ \/ UNCHANGED <<form, work, running>>
              \/ \E f \in form : /\ Complete(f) /\ ~Constructible(VehicleOf(f, id))
                                 /\ running' = FALSE /\ UNCHANGED <<form, work>>
              \/ \E f \in form :
                   /\ Complete(f) /\ Constructible(VehicleOf(f, id))
                   /\ form' = {} /\ UNCHANGED running
                   /\ work' = [kind |-> "add", veh |-> VehicleOf(f, id), form |-> f]
           /\ UNCHANGED <<fleet, file, list, boxes, shown, conversion, typed, registered, restarts>>
<1>1. CASE id \in IdsOf(fleet)
  BY <1>1 DEF Draw
<1>2. CASE id \notin IdsOf(fleet)
  <2>1. PICK f \in form :
          CASE ~Complete(f) -> UNCHANGED <<form, work, running>>
            [] Complete(f) /\ ~Constructible(VehicleOf(f, id)) ->
                 running' = FALSE /\ UNCHANGED <<form, work>>
            [] OTHER ->
                 /\ form' = {} /\ UNCHANGED running
                 /\ work' = [kind |-> "add", veh |-> VehicleOf(f, id), form |-> f]
    BY <1>2 DEF Draw
  <2>2. /\ ~Complete(f) => UNCHANGED <<form, work, running>>
        /\ Complete(f) /\ ~Constructible(VehicleOf(f, id)) =>
             running' = FALSE /\ UNCHANGED <<form, work>>
        /\ Complete(f) /\ Constructible(VehicleOf(f, id)) =>
             /\ form' = {} /\ UNCHANGED running
             /\ work' = [kind |-> "add", veh |-> VehicleOf(f, id), form |-> f]
    BY <2>1
  <2> QED
    BY <1>2, <2>2 DEF Draw
<1> QED
  BY <1>1, <1>2

LEMMA DialogStep ==
    ASSUME TypeOK, DialogInv, [Next]_vars PROVE DialogInv'
<1>1. conversion' = conversion
  BY Steps
<1>2. ASSUME NEW f, NEW id PROVE Made(f, id)' <=> Made(f, id)
  BY <1>1, MadeStays
<1>3. ASSUME NEW f, NEW id PROVE VehicleOf(f, id)' = VehicleOf(f, id)
  BY <1>1, MadeStays
<1>4. CASE UNCHANGED <<form, saving, work, registered>>
  BY <1>2, <1>3, <1>4 DEF DialogInv
<1>5. CASE OpenRegister
  BY <1>5 DEF OpenRegister, DialogInv, AtScreen, RegisterBoxes
<1>6. ASSUME NEW f \in Forms, FillIn(f) PROVE DialogInv'
  BY <1>2, <1>3, <1>6 DEF FillIn, DialogInv, RegisterBoxes
<1>7. CASE PressSave \/ CancelRegister
  BY <1>2, <1>3, <1>7 DEF PressSave, CancelRegister, DialogInv
<1>8. ASSUME NEW id \in Ids, Draw(id) PROVE DialogInv'
  <2>1. (saving' = saving \/ saving' = FALSE) /\ registered' = registered
    BY <1>8, Drawn
  <2>2. CASE UNCHANGED <<form, work>>
    BY <1>2, <1>3, <2>1, <2>2 DEF DialogInv
  <2>3. CASE \E f \in form :
               /\ Complete(f) /\ Constructible(VehicleOf(f, id)) /\ form' = {}
               /\ work' = [kind |-> "add", veh |-> VehicleOf(f, id), form |-> f]
    <3>1. PICK f \in form :
               /\ Complete(f) /\ Constructible(VehicleOf(f, id)) /\ form' = {}
               /\ work' = [kind |-> "add", veh |-> VehicleOf(f, id), form |-> f]
      BY <2>3
    <3>2. Made(f, id) /\ registered < MaxRegistered
      BY <3>1 DEF Made, DialogInv
    <3> QED
      BY <1>2, <1>3, <2>1, <3>1, <3>2 DEF DialogInv
  <2> QED
    BY <1>8, <2>2, <2>3, Drawn
<1>9. CASE AddVehicle
  <2>1. form = {}
    BY <1>9 DEF AddVehicle, DialogInv, NoWork
  <2> QED
    BY <1>9, <2>1 DEF AddVehicle, DialogInv, dialog
<1>10. CASE TakeFleet
  BY <1>10 DEF TakeFleet, DialogInv, dialog, NoWork
<1>11. CASE Restart
  BY <1>11 DEF Restart, DialogInv, NoWork
<1>12. ASSUME \/ OpenFilter \/ ClearFilter \/ (\E f \in Filters : EditFilter(f)) \/ ApplyFilter
              \/ CancelFilter \/ (\E c \in Choices : Choose(c)) \/ Ended \/ UNCHANGED vars
       PROVE  UNCHANGED <<form, saving, work, registered>>
  BY <1>12 DEF OpenFilter, ClearFilter, EditFilter, ApplyFilter, CancelFilter, Choose, Ended, vars, dialog
<1> QED
  BY <1>4, <1>5, <1>6, <1>7, <1>8, <1>9, <1>10, <1>11, <1>12 DEF Next

\* Every step draws the cards anew or leaves alone what they depend on, until a
\* vehicle is added.
LEMMA ListStep ==
    ASSUME TypeOK, DialogInv, ListInv, [Next]_vars
    PROVE  ListInv' /\ (shown \subseteq IdsOf(fleet))'
<1>1. conversion' = conversion
  BY Steps
<1>2. Search(fleet, filter, choice)' = Search(fleet', filter', choice')
  BY <1>1 DEF Search, Matches
<1>3. \A V, F, c : Search(V, F, c) \subseteq IdsOf(V)
  BY DEF Search, IdsOf
<1>4. ASSUME RefreshFleetList, (label = IF filter = {} THEN "Advanced filters" ELSE "Clear filters")'
      PROVE  ListInv' /\ (shown \subseteq IdsOf(fleet))'
  BY <1>2, <1>3, <1>4 DEF RefreshFleetList, ListInv
<1>5. ASSUME UNCHANGED <<fleet, list, shown>>, work'.kind # "load" => work.kind # "load"
      PROVE  ListInv' /\ (shown \subseteq IdsOf(fleet))'
  <2>1. Search(fleet', filter', choice') = Search(fleet, filter, choice)
    BY <1>5 DEF list
  <2> QED
    BY <1>2, <1>5, <2>1 DEF list, ListInv, TypeOK
<1>6. CASE TakeFleet \/ \E c \in Choices : Choose(c)
  BY <1>4, <1>6 DEF TakeFleet, Choose, list, ListInv
<1>7. CASE ClearFilter \/ ApplyFilter \/ Restart
  BY <1>4, <1>7 DEF ClearFilter, ApplyFilter, Restart
<1>8. CASE AddVehicle
  BY <1>8 DEF AddVehicle, ListInv, list, TypeOK, IdsOf
<1>9. ASSUME NEW id \in Ids, Draw(id) PROVE UNCHANGED <<fleet, list, shown>> /\
                                            (work'.kind # "load" => work.kind # "load")
  <2>1. UNCHANGED <<fleet, list, shown>> /\ (work' = work \/ form # {})
    BY <1>9, Drawn
  <2> QED
    BY <2>1 DEF DialogInv, NoWork
<1>10. ASSUME \/ OpenRegister \/ (\E f \in Forms : FillIn(f)) \/ PressSave \/ CancelRegister
              \/ OpenFilter \/ (\E f \in Filters : EditFilter(f)) \/ CancelFilter \/ Ended
              \/ UNCHANGED vars
       PROVE  UNCHANGED <<fleet, list, shown>> /\ work' = work
  BY <1>10 DEF OpenRegister, FillIn, PressSave, CancelRegister, OpenFilter, EditFilter, CancelFilter,
     Ended, vars
<1> QED
  BY <1>5, <1>6, <1>7, <1>8, <1>9, <1>10 DEF Next

\* The program ends in the turn that finds the id, with the form still there.
LEMMA ExitStep ==
    ASSUME TypeOK, FleetInv, DialogInv, ExitOnlyFromBadInput, [Next]_vars, FleetInv'
    PROVE  ExitOnlyFromBadInput'
<1>1. IdsOf(file)' = IdsOf(fleet)'
  <2>1. file' = {SerializeVehicle(v) : v \in fleet'} /\ \A v \in fleet' : SerializeVehicle(v).id = v.id
    BY VehicleSaved DEF FleetInv
  <2> QED
    BY <2>1 DEF IdsOf
<1> DEFINE Bad(f) == \/ f.brand \in BadNames \/ f.model \in BadNames
                     \/ \E t \in f.rate : t < 5 \/ t >= 10 * IntMax + 5
                     \/ f.type = "Car" /\ \E n \in f.spec : n > 0 /\ n % ByteSize = 0
<1> HIDE DEF Bad
<1>2. ASSUME ~running' => \E f \in form' : Bad(f) PROVE ExitOnlyFromBadInput'
  BY <1>1, <1>2 DEF ExitOnlyFromBadInput, Bad
<1>3. CASE UNCHANGED <<form, running>>
  <2>1. ~running => \E f \in form : Bad(f)
    BY DEF ExitOnlyFromBadInput, Bad
  <2> QED
    BY <1>2, <1>3, <2>1
<1>4. CASE running'
  BY <1>2, <1>4
<1>5. ASSUME NEW id \in Ids, Draw(id) PROVE ExitOnlyFromBadInput'
  <2>1. CASE UNCHANGED <<form, work, running>>
    BY <1>3, <2>1
  <2>2. CASE UNCHANGED running /\ running
    BY <1>4, <2>2
  <2>3. CASE \E f \in form : Complete(f) /\ ~Constructible(VehicleOf(f, id)) /\ UNCHANGED <<form, work>>
    <3>1. PICK f \in form : Complete(f) /\ ~Constructible(VehicleOf(f, id)) /\ UNCHANGED form
      BY <2>3
    <3>2. f \in RegisterBoxes /\ conversion \in Conversions
      BY DEF DialogInv, TypeOK
    <3>3. Bad(f)
      BY <3>1, <3>2, VehicleMade DEF Bad
    <3> QED
      BY <1>2, <3>1, <3>3
  <2> QED
    BY <1>5, <2>1, <2>2, <2>3, Drawn
<1>6. ASSUME \/ OpenRegister \/ (\E f \in Forms : FillIn(f)) \/ PressSave \/ CancelRegister
             \/ AddVehicle \/ TakeFleet \/ OpenFilter \/ ClearFilter
             \/ (\E f \in Filters : EditFilter(f)) \/ ApplyFilter \/ CancelFilter
             \/ (\E c \in Choices : Choose(c)) \/ Restart
      PROVE  running'
  <2>1. ASSUME NEW f, FillIn(f) \/ EditFilter(f) PROVE running /\ running' = running
    BY <2>1 DEF FillIn, EditFilter
  <2>2. ASSUME NEW c, Choose(c) PROVE running /\ running' = running
    BY <2>2 DEF Choose, AtScreen
  <2>3. CASE \/ OpenRegister \/ PressSave \/ CancelRegister \/ AddVehicle \/ TakeFleet \/ OpenFilter
             \/ ClearFilter \/ ApplyFilter \/ CancelFilter
    <3>1. running /\ running' = running
      BY <2>3 DEF OpenRegister, PressSave, CancelRegister, AddVehicle, TakeFleet, OpenFilter, ClearFilter,
         ApplyFilter, CancelFilter, AtScreen
    <3> QED
      BY <3>1
  <2>4. CASE Restart
    BY <2>4 DEF Restart
  <2> QED
    BY <1>6, <2>1, <2>2, <2>3, <2>4
<1>7. CASE Ended \/ UNCHANGED vars
  BY <1>3, <1>7 DEF Ended, vars, dialog
<1> QED
  BY <1>4, <1>5, <1>6, <1>7 DEF Next

LEMMA NoFilterIsOne == IsFilter(NoFilter)
BY DEF IsFilter, NoFilter, Rows, IntRows, TextRows, Requirement, NoRequirement

\* The boxes and the filter hold filters, the counters stay in their bounds.
LEMMA InputStep ==
    ASSUME TypeOK, DialogInv, [Next]_vars
    PROVE  /\ drawn' \subseteq Ids
           /\ \A f \in filter' \cup boxes' : IsFilter(f)
           /\ choice' \in Choices \cup {AllVehicles}
           /\ running' \in BOOLEAN
           /\ registered' \in 0..MaxRegistered /\ restarts' \in 0..MaxRestarts
<1> DEFINE Inputs == /\ drawn \subseteq Ids
                     /\ \A f \in filter \cup boxes : IsFilter(f)
                     /\ choice \in Choices \cup {AllVehicles}
                     /\ running \in BOOLEAN
           Counters == registered \in 0..MaxRegistered /\ restarts \in 0..MaxRestarts
<1>1. Inputs /\ Counters
  BY DEF TypeOK
<1>2. Inputs'
  <2>1. ASSUME NEW id \in Ids, Draw(id) PROVE Inputs'
    <3>1. drawn' \subseteq Ids /\ UNCHANGED <<list, boxes>> /\ (running' = running \/ running' = FALSE)
      BY <2>1, Drawn
    <3> QED
      BY <1>1, <3>1 DEF list
  <2>2. CASE \/ OpenRegister \/ (\E f \in Forms : FillIn(f)) \/ PressSave \/ CancelRegister
             \/ AddVehicle \/ TakeFleet \/ Ended \/ UNCHANGED vars
    <3>1. UNCHANGED <<drawn, list, boxes, running>>
      BY <2>2 DEF OpenRegister, FillIn, PressSave, CancelRegister, AddVehicle, TakeFleet, Ended, vars,
         dialog
    <3> QED
      BY <1>1, <3>1 DEF list
  <2>3. CASE OpenFilter
    BY <1>1, <2>3, NoFilterIsOne DEF OpenFilter, list, dialog
  <2>4. CASE ClearFilter \/ ApplyFilter \/ CancelFilter
    BY <1>1, <2>4 DEF ClearFilter, ApplyFilter, CancelFilter, list, dialog
  <2>5. ASSUME NEW f \in Filters, EditFilter(f) PROVE Inputs'
    BY <1>1, <2>5, FiltersAssumption DEF EditFilter, list, dialog
  <2>6. ASSUME NEW c \in Choices, Choose(c) PROVE Inputs'
    BY <1>1, <2>6 DEF Choose, dialog
  <2>7. CASE Restart
    BY <2>7 DEF Restart
  <2> HIDE DEF Inputs
  <2> QED
    BY <2>1, <2>2, <2>3, <2>4, <2>5, <2>6, <2>7 DEF Next
<1>3. Counters'
  <2>1. MaxRegistered \in Nat /\ MaxRestarts \in Nat
    BY FormBoundsAssumption
  <2>2. CASE Apart
    BY <1>1, <2>2 DEF Apart
  <2>3. CASE AddVehicle
    <3>1. registered < MaxRegistered /\ registered' = registered + 1 /\ restarts' = restarts
      BY <2>3 DEF AddVehicle, DialogInv
    <3> QED
      BY <1>1, <2>1, <3>1, SMT
  <2>4. CASE Restart
    <3>1. restarts < MaxRestarts /\ restarts' = restarts + 1 /\ registered' = registered
      BY <2>4 DEF Restart
    <3> QED
      BY <1>1, <2>1, <3>1, SMT
  <2> QED
    BY <2>2, <2>3, <2>4, Steps
<1> QED
  BY <1>2, <1>3

LEMMA FormsInvInit == Init => FormsInv
<1> SUFFICES ASSUME Init PROVE FormsInv
  OBVIOUS
<1>1. /\ fleet = Seeded /\ file = {SerializeVehicle(v) : v \in Seeded}
      /\ form = {} /\ saving = FALSE /\ drawn = {} /\ work = NoWork
      /\ filter = {} /\ label = "Advanced filters" /\ boxes = {} /\ choice = AllVehicles
      /\ conversion \in Conversions /\ shown = IdsOf(Seeded) /\ running = TRUE
      /\ typed = {} /\ registered = 0 /\ restarts = 0
  BY DEF Init
<1>2. \A v \in Seeded : Readable(v)
  <2> SUFFICES ASSUME NEW v \in Seeded PROVE Readable(v)
    OBVIOUS
  <2>1. v \in VehicleRecord /\ DeserializeVehicle(SerializeVehicle(v)) = {v}
    BY FleetAssumption
  <2> DEFINE w == SerializeVehicle(v)
             u == [w EXCEPT !.size = SizeOf(w.type, @)]
  <2>2. w.type = v.type /\ w.size = v.size
    BY <2>1 DEF SerializeVehicle, VehicleRecord
  <2>3. Constructible(u) /\ v = u
    <3>1. DeserializeVehicle(w) = IF w.brand \in BadNames \/ w.model \in BadNames \/ ~Constructible(u)
                                  THEN {} ELSE {u}
      BY DEF DeserializeVehicle
    <3> HIDE DEF u
    <3> QED
      BY <2>1, <3>1
  <2>4. u.size = SizeOf(v.type, v.size)
    <3>1. "size" \in DOMAIN w /\ w.size = v.size
      BY <2>1, <2>2 DEF SerializeVehicle, VehicleRecord
    <3> HIDE DEF w
    <3> QED
      BY <2>2, <3>1
  <2> HIDE DEF u, w
  <2> QED
    BY <2>1, <2>3, <2>4 DEF Readable, Constructible
<1>3. FleetInv
  BY <1>1, <1>2 DEF FleetInv
<1>4. shown = Search(fleet, filter, choice)
  BY <1>1 DEF Search, AllVehicles, MatchesDropdowns, MatchesQuery
<1>5. fleet \subseteq VehicleRecord /\ file \subseteq VehicleRecord
  BY <1>1, <1>2, VehicleSaved DEF Readable
<1>6. TypeOK
  <2>1. 0 \in 0..MaxRegistered /\ 0 \in 0..MaxRestarts
    BY FormBoundsAssumption
  <2>2. \A v, w \in fleet : v.id = w.id => v = w
    BY <1>1, FleetAssumption
  <2>3. work.kind \in {"none", "add", "load"}
    BY <1>1 DEF NoWork
  <2> QED
    BY <1>1, <1>5, <2>1, <2>2, <2>3 DEF TypeOK
<1>7. DialogInv
  BY <1>1 DEF DialogInv, NoWork
<1>8. TypedInv /\ ListInv /\ ExitOnlyFromBadInput
  BY <1>1, <1>4 DEF TypedInv, ListInv, ExitOnlyFromBadInput
<1> QED
  BY <1>3, <1>6, <1>7, <1>8 DEF FormsInv

LEMMA FormsInvNext == FormsInv /\ [Next]_vars => FormsInv'
<1> SUFFICES ASSUME FormsInv, [Next]_vars PROVE FormsInv'
  OBVIOUS
<1> USE DEF FormsInv
<1>1. FleetInv' /\ Unique'
  BY FleetStep
<1>2. DialogInv' /\ TypedInv' /\ ListInv' /\ (shown \subseteq IdsOf(fleet))'
  BY DialogStep, TypedStep, ListStep
<1>3. ExitOnlyFromBadInput'
  BY <1>1, ExitStep
<1>4. TypeOK'
  <2>1. fleet' \subseteq VehicleRecord /\ file' \subseteq VehicleRecord
    <3>1. \A v \in fleet' : v \in VehicleRecord /\ SerializeVehicle(v) \in VehicleRecord
      BY <1>1, VehicleSaved DEF FleetInv, Readable
    <3> QED
      BY <1>1, <3>1 DEF FleetInv
  <2>2. form' \subseteq FormRecord /\ saving' \in BOOLEAN
    BY <1>2, BoxesHold DEF DialogInv
  <2>3. work'.kind \in {"none", "add", "load"}
    BY <1>2 DEF DialogInv, NoWork
  <2>4. label' \in {"Advanced filters", "Clear filters"}
    BY <1>2 DEF ListInv
  <2>5. conversion' \in Conversions
    BY Steps DEF TypeOK
  <2>6. (shown \subseteq IdsOf(fleet))' /\ (\A v, w \in fleet' : v.id = w.id => v = w)
    BY <1>1, <1>2 DEF Unique
  <2> QED
    BY <2>1, <2>2, <2>3, <2>4, <2>5, <2>6, InputStep DEF TypeOK
<1> QED
  BY <1>1, <1>2, <1>3, <1>4

LEMMA FormsInvAlways == Spec => []FormsInv
BY FormsInvInit, FormsInvNext, PTL DEF Spec

(***************************************************************************)
(* The theorems.                                                           *)
(***************************************************************************)

\* The fleet and fleet.txt hold vehicles the constructors accept, no two with one
\* id, and the forms and the filter in force what their boxes take.
THEOREM FormsTyped == Spec => []TypeOK
<1>1. FormsInv => TypeOK
  BY DEF FormsInv
<1> QED
  BY <1>1, FormsInvAlways, PTL

\* What a user has typed finds the vehicle that was registered with it, now and
\* after any number of restarts.
THEOREM TypedIsFound == Spec => []FoundAsTyped
<1>1. FormsInv => FoundAsTyped
  <2> SUFFICES ASSUME FormsInv, NEW t \in typed
               PROVE  \E v \in fleet :
                         /\ v.id = t.id
                         /\ (t.form.type = "Car" => \A n \in t.form.spec : n < ByteSize)
                              /\ (\A n \in t.form.spec : n > 0)
                            => Matches(AsTyped(t.form), v, CodeOf(v), conversion)
    BY DEF FoundAsTyped
  <2>1. PICK f, id : f = t.form /\ id = t.id
    OBVIOUS
  <2>2. Made(f, id) /\ InFleet(f, id) /\ conversion \in Conversions
    BY <2>1 DEF FormsInv, TypedInv, TypeOK
  <2>3. PICK v \in fleet : \/ v = VehicleOf(f, id)
                           \/ v = SerializeVehicle(VehicleOf(f, id)) /\ restarts > 0
    BY <2>2 DEF InFleet
  <2> DEFINE w == VehicleOf(f, id)  r == CHOOSE x \in f.rate : TRUE
  <2>4. /\ w = [id |-> id, type |-> f.type, brand |-> f.brand, model |-> f.model,
                size |-> SizeOf(f.type, SpecOrDefault(f)), price |-> Grosze(r, conversion),
                status |-> "Available"]
    BY DEF VehicleOf
  <2>5. Readable(w)
    BY <2>2, VehicleMade DEF Made
  <2>6. /\ v.id = id /\ v.type = f.type /\ v.brand = f.brand /\ v.model = f.model
        /\ v.size = SizeOf(f.type, SpecOrDefault(f))
        /\ (restarts > 0 /\ Digit(w.price) > 1) \/ v.price = Grosze(r, conversion)
    <3>1. w.price \in 1..IntMax /\ DOMAIN w = {"id", "type", "brand", "model", "size", "price", "status"}
      BY <2>4, <2>5 DEF Readable, VehicleRecord
    <3>2. Digit(w.price) <= 1 \/ Digit(w.price) > 1
      BY <3>1, PriceDigit, SMT
    <3>3. CASE v = w
      BY <2>4, <3>3
    <3>4. CASE v = SerializeVehicle(w) /\ restarts > 0
      <4>1. v = [w EXCEPT !.price = v.price] /\ (Digit(w.price) <= 1 => v = w)
        BY <2>5, <3>4, VehicleSaved
      <4> HIDE DEF w
      <4>2. /\ v.id = w.id /\ v.type = w.type /\ v.brand = w.brand /\ v.model = w.model /\ v.size = w.size
        BY <3>1, <4>1
      <4> QED
        BY <2>4, <3>2, <3>4, <4>1, <4>2
    <3> QED
      BY <2>3, <3>3, <3>4
  <2> SUFFICES ASSUME f.type = "Car" => \A n \in f.spec : n < ByteSize, \A n \in f.spec : n > 0
               PROVE  Matches(AsTyped(f), v, CodeOf(v), conversion)
    BY <2>1, <2>6
  <2>7. f \in RegisterBoxes /\ (f.type = "Bike" => f.spec = {}) /\ f.type \in Types
        /\ f.spec \subseteq Nat /\ \A n \in f.spec : n <= IntMax /\ v.size = n
    BY <2>2, <2>6, BoxesHold, SizeMade DEF Made, FormRecord
  <2> DEFINE g == AsTyped(f)
             sizeRow == IF f.type = "Car" THEN "seats" ELSE "payload"
  <2>8. /\ g["id"] = NoRequirement /\ g["status"] = NoRequirement /\ g["rental_code"] = NoRequirement
        /\ g["type"] = Exactly(f.type) /\ g["brand"] = Exactly(f.brand) /\ g["model"] = Exactly(f.model)
        /\ g["price"] = IF restarts > 0 /\ Digit(Grosze(r, conversion)) > 1 THEN NoRequirement
                        ELSE Exactly(r)
        /\ f.spec = {} => g["seats"] = NoRequirement /\ g["payload"] = NoRequirement
        /\ f.spec # {} =>
             /\ g[sizeRow] = [NoRequirement EXCEPT !.equals = f.spec]
             /\ \A row \in {"seats", "payload"} : row # sizeRow => g[row] = NoRequirement
    BY DEF AsTyped, NoFilter, Rows, IntRows, TextRows
  <2> HIDE DEF g, w, r
  <2>9. \A x : /\ Within(x, Numbers(NoRequirement)) /\ MatchesText(x, NoRequirement)
               /\ Within(x, Amounts(NoRequirement, conversion)) /\ MatchesText(x, Exactly(x))
    BY DEF Within, Numbers, Amounts, MatchesText, NoRequirement, Exactly
  <2>10. \A type : MatchesSize(v, NoRequirement, type)
    BY DEF MatchesSize, RequirementActive, NoRequirement
  <2>11. Within(v.price, Amounts(g["price"], conversion))
    <3>1. CASE restarts > 0 /\ Digit(Grosze(r, conversion)) > 1
      BY <2>8, <2>9, <3>1
    <3>2. CASE ~(restarts > 0 /\ Digit(Grosze(r, conversion)) > 1)
      <4>1. v.price = Grosze(r, conversion) /\ g["price"] = Exactly(r)
        BY <2>4, <2>6, <2>8, <3>2
      <4> QED
        BY <4>1 DEF Within, Amounts, Exactly, NoRequirement
    <3> QED
      BY <3>1, <3>2
  <2>12. MatchesSize(v, g["seats"], "Car") /\ MatchesSize(v, g["payload"], "Truck")
    <3>1. CASE f.spec = {}
      BY <2>8, <2>10, <3>1
    <3>2. CASE f.spec # {}
      <4> DEFINE q == [NoRequirement EXCEPT !.equals = f.spec]
      <4>1. \A n \in f.spec : SafeStoul(n) = n
        <5> SUFFICES ASSUME NEW n \in f.spec PROVE SafeStoul(n) = n
          OBVIOUS
        <5>1. n \in Nat /\ n < WordSize /\ ~(n >= LongSize)
          BY <2>7, Widths, IntMaxBounds, SMT
        <5> QED
          BY <5>1, Widths, Remainder DEF SafeStoul
      <4>2. Within(v.size, Numbers(q))
        BY <2>7, <4>1 DEF Within, Numbers, NoRequirement
      <4>3. f.type = "Car" \/ f.type = "Truck"
        BY <2>7, <3>2 DEF Types
      <4> HIDE DEF q
      <4>4. CASE f.type = "Car"
        BY <2>6, <2>8, <2>10, <3>2, <4>2, <4>4 DEF MatchesSize, q
      <4>5. CASE f.type = "Truck"
        BY <2>6, <2>8, <2>10, <3>2, <4>2, <4>5 DEF MatchesSize, q
      <4> QED
        BY <4>3, <4>4, <4>5
    <3> QED
      BY <3>1, <3>2
  <2>13. MatchesText(v.brand, g["brand"]) /\ MatchesText(v.model, g["model"])
         /\ MatchesText(v.type, g["type"]) /\ MatchesText(v.status, g["status"])
         /\ MatchesText(CodeOf(v), g["rental_code"]) /\ Within(v.id, Numbers(g["id"]))
    BY <2>6, <2>8, <2>9
  <2> QED
    BY <2>11, <2>12, <2>13, Zenon DEF Matches, g
<1> QED
  BY <1>1, FormsInvAlways, PTL

\* Whenever the user is at the screen, the cards are those the search box, the
\* dropdowns and a filter whose numbers fit say, and the button tells whether
\* there is one: for every fleet and filter.
THEOREM CardsAreMeant == Spec => []ShownIsMeant
<1>1. FormsInv => ShownIsMeant
  <2> SUFFICES ASSUME FormsInv, AtScreen, \A f \in filter : FilterFits(f), NEW v \in fleet
               PROVE  v.id \in shown <=>
                        /\ choice.type \in {"All", v.type} /\ choice.status \in {"All", v.status}
                        /\ choice.query = NoName \/ \E text \in Searched(v) : IsIn(choice.query, text)
                        /\ label = "Clear filters" => \A f \in filter : Says(f, v, CodeOf(v))
    BY DEF ShownIsMeant
  <2>1. shown = Search(fleet, filter, choice)
    BY DEF FormsInv, ListInv, AtScreen, NoWork
  <2> DEFINE Kept(x) == /\ MatchesDropdowns(x, choice) /\ MatchesQuery(x, choice.query)
                        /\ \A f \in filter : Matches(f, x, CodeOf(x), conversion)
  <2>2. shown = {x.id : x \in {y \in fleet : Kept(y)}}
    BY <2>1 DEF Search, IdsOf
  <2>3. \A x \in fleet : x.id = v.id => x = v
    BY DEF FormsInv, TypeOK
  <2> HIDE DEF Kept
  <2>4. v.id \in shown <=> Kept(v)
    BY <2>2, <2>3
  <2>5. MatchesDropdowns(v, choice) <=>
          choice.type \in {"All", v.type} /\ choice.status \in {"All", v.status}
    BY DEF MatchesDropdowns
  <2>6. MatchesQuery(v, choice.query) <=>
          choice.query = NoName \/ \E text \in Searched(v) : IsIn(choice.query, text)
    <3>1. (\E text \in {<<"code", RentalCodes[i]>> : i \in {v.id} \cap DOMAIN RentalCodes} :
             IsIn(choice.query, text))
          <=> v.id \in DOMAIN RentalCodes /\ IsIn(choice.query, <<"code", RentalCodes[v.id]>>)
      BY Zenon
    <3> QED
      BY <3>1, Zenon DEF MatchesQuery, Searched
  <2>7. \A f \in filter : Matches(f, v, CodeOf(v), conversion) <=> Says(f, v, CodeOf(v))
    BY FilterSays DEF FormsInv, TypeOK
  <2>8. label = "Clear filters" <=> filter # {}
    BY DEF FormsInv, ListInv
  <2> QED
    BY <2>4, <2>5, <2>6, <2>7, <2>8 DEF Kept
<1> QED
  BY <1>1, FormsInvAlways, PTL

\* Nothing typed into the register form ends the program but what the form does
\* not look at, and then every vehicle registered before has its line in fleet.txt.
THEOREM ExitsAreExplained == Spec => []ExitOnlyFromBadInput
<1>1. FormsInv => ExitOnlyFromBadInput
  BY DEF FormsInv
<1> QED
  BY <1>1, FormsInvAlways, PTL
=============================================================================
