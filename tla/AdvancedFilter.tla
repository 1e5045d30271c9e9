--------------------------- MODULE AdvancedFilter ---------------------------
(***************************************************************************)
(* AdvancedFilter (src/include/Vehicle.h) and how its modal fills it in    *)
(* (src/src/ui/AdvancedFilterModal.cpp).  A requirement has three optional *)
(* strings; an optional value is a set of at most one element.  A typed    *)
(* number is the number its digits stand for, however long it is, a typed  *)
(* price counts thousandths of PLN.  The rows for text have a box for      *)
(* equality only, so no order of strings is needed.                        *)
(***************************************************************************)
EXTENDS Vehicles

CONSTANT LongSize       \* values of an unsigned long

ASSUME LongAssumption == LongSize \in Nat /\ WordSize < LongSize

Requirement(S) == [min : S, max : S, equals : S]
NoRequirement == [min |-> {}, max |-> {}, equals |-> {}]
Exactly(x) == [NoRequirement EXCEPT !.equals = {x}]

IntRows  == {"id", "seats", "payload"}
TextRows == {"brand", "model", "type", "status", "rental_code"}
Rows     == IntRows \cup TextRows \cup {"price"}
NoFilter == [row \in Rows |-> NoRequirement]

\* The rows of a filter, each with the values its boxes take.
IsFilter(f) ==
    /\ DOMAIN f = Rows
    /\ \A row \in IntRows : f[row] \in Requirement(SUBSET Nat)
    /\ f["price"] \in Requirement(SUBSET Int)
    /\ \A row \in TextRows : f[row] = [NoRequirement EXCEPT !.equals = f[row].equals]

RequirementActive(r) == r.min # {} \/ r.max # {} \/ r.equals # {}
FilterActive(f) == \E row \in Rows : RequirementActive(f[row])

\* safe_stoul: std::stoul throws when an unsigned long does not hold the number,
\* a longer number than 32 bits loses what is above them.
SafeStoul(n) == IF n >= LongSize THEN 0 ELSE n % WordSize

\* The numbers and the amounts a requirement is read as.
Numbers(r) == [bound \in DOMAIN r |-> {SafeStoul(n) : n \in r[bound]}]
Amounts(r, conversion) == [bound \in DOMAIN r |-> {Grosze(t, conversion) : t \in r[bound]}]

----------------------------------------------------------------------------
(* matches. *)

Within(val, r) ==
    /\ \A x \in r.min : val >= x
    /\ \A x \in r.max : val <= x
    /\ \A x \in r.equals : val = x

MatchesText(val, r) == \A x \in r.equals : val = x

\* matchesSeats holds for cars only and matchesPayload for trucks only, unless
\* nothing is required.
MatchesSize(v, r, type) ==
    RequirementActive(r) => v.type = type /\ Within(v.size, Numbers(r))

\* rentalCode is the code of the vehicle's rental, or the empty string.
Matches(f, v, rentalCode, conversion) ==
    /\ Within(v.id, Numbers(f.id))
    /\ MatchesText(v.brand, f.brand)
    /\ MatchesText(v.model, f.model)
    /\ MatchesText(v.type, f.type)
    /\ MatchesText(v.status, f.status)
    /\ Within(v.price, Amounts(f.price, conversion))
    /\ MatchesSize(v, f.seats, "Car")
    /\ MatchesSize(v, f.payload, "Truck")
    /\ MatchesText(rentalCode, f.rental_code)

----------------------------------------------------------------------------
(* What a filter says to whoever typed it: the numbers are numbers, and a    *)
(* price is an amount.                                                       *)

Says(f, v, rentalCode) ==
    LET Between(x, r) == /\ \A y \in r.min : y <= x
                         /\ \A y \in r.max : x <= y
        Is(x, r) == r.equals \in {{}, {x}}
        Has(type, r) == r # NoRequirement =>
                            v.type = type /\ Between(v.size, r) /\ Is(v.size, r)
    IN /\ Between(v.id, f.id) /\ Is(v.id, f.id)
       /\ Between(10 * v.price, f.price) /\ Is(10 * v.price, f.price)
       /\ Has("Car", f.seats) /\ Has("Truck", f.payload)
       /\ Is(v.brand, f.brand) /\ Is(v.model, f.model) /\ Is(v.type, f.type)
       /\ Is(v.status, f.status) /\ Is(rentalCode, f.rental_code)

Typed(r) == r.min \cup r.max \cup r.equals

\* The numbers typed are whole grosze that an int holds, and numbers of 32 bits.
FilterFits(f) ==
    /\ \A row \in IntRows : \A n \in Typed(f[row]) : n < WordSize
    /\ \A t \in Typed(f.price) : t % 10 = 0 /\ FitsInt(t \div 10)
=============================================================================
