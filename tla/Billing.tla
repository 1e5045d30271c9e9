------------------------------- MODULE Billing -------------------------------
(***************************************************************************)
(* What a rental costs (src/src/FleetMgmt.cpp, FileStorage.cpp): the clock *)
(* is read when a vehicle goes out and when it comes back, the hours are   *)
(* rounded up, and the card of a rented vehicle shows the hours so far.    *)
(* rentals.txt keeps the start in whole seconds and fleet.txt the price in *)
(* six significant digits, and a restart takes both from there.            *)
(*                                                                         *)
(* What the int of the cost cannot hold wraps around.                      *)
(*                                                                         *)
(* Time is counted in ticks; an hour has a few seconds and a second a few  *)
(* ticks, enough to tell the roundings apart.  Prices are in grosz.        *)
(***************************************************************************)
EXTENDS Money

CONSTANTS
    TicksPerSecond, SecondsPerHour,
    Prices,             \* prices per hour a vehicle is registered with
    MaxTime, MaxBack,   \* bounds: last tick, not within the first hour; ticks the clock may
                        \* be set back at once
    MaxRentals, MaxRestarts     \* bounds

ASSUME BillingAssumption ==
    /\ TicksPerSecond \in Nat \ {0} /\ SecondsPerHour \in Nat \ {0}
    /\ Prices \subseteq 1..IntMax
    /\ MaxTime \in Nat /\ TicksPerSecond * SecondsPerHour <= MaxTime
    /\ MaxBack \in Nat /\ MaxRentals \in Nat /\ MaxRestarts \in Nat

VARIABLES
    now,                \* the system clock
    price, filePrice,   \* price_per_hour in memory and in fleet.txt
    start, fileStart,   \* start_time in memory and in rentals.txt; NotOut
    agreed, since,      \* history: price registered, tick the vehicle really went out
    shown,              \* history: most hours its card has shown since
    steady,             \* history: the clock was not set back since it went out
    bill,               \* the last return: hours, cost, and what it ought to cover
    rentals, restarts

vars == <<now, price, filePrice, start, fileStart, agreed, since, shown, steady, bill,
          rentals, restarts>>

NotOut == -1
TicksPerHour == TicksPerSecond * SecondsPerHour
NoBill == [hours |-> 0, cost |-> 0, elapsed |-> 0, shown |-> 0, steady |-> TRUE]

TypeOK ==
    /\ now \in 0..MaxTime
    /\ price \in Nat \ {0} /\ filePrice \in Nat \ {0} /\ agreed \in Nat \ {0}
    /\ start \in Nat \cup {NotOut} /\ fileStart \in Nat \cup {NotOut}
    /\ since \in Nat \cup {NotOut}
    /\ shown \in Nat /\ steady \in BOOLEAN
    /\ bill \in [hours : Nat, cost : Int, elapsed : Int, shown : Nat,
               steady : BOOLEAN]
    /\ rentals \in 0..MaxRentals /\ restarts \in 0..MaxRestarts

Larger(a, b) == IF a > b THEN a ELSE b

----------------------------------------------------------------------------
(* Conversions. *)

\* formatTimeISO and back: whole seconds.
ToSeconds(t) == (t \div TicksPerSecond) * TicksPerSecond

\* Mutant: the start is written in universal time and read in local time.
ToLocalSeconds(t) == ToSeconds(t) + TicksPerHour

SavedStart(t) == ToSeconds(t)

CeilHours(ticks) == (ticks + TicksPerHour - 1) \div TicksPerHour

BilledHoursUnclamped(ticks) == CeilHours(ticks)     \* mutant

\* returnVehicle, and getRentalBilledHours for the card.
BilledHours(ticks) == Larger(1, CeilHours(ticks))
CardHours(ticks) == Larger(1, CeilHours(ticks))

CalculateRentalCost(hours) == Wrap(price * hours)

----------------------------------------------------------------------------
Init ==
    /\ now \in 0..TicksPerHour
    /\ price \in Prices /\ agreed = price /\ filePrice = SavedPrice(price)
    /\ start = NotOut /\ fileStart = NotOut /\ since = NotOut
    /\ shown = 0 /\ steady = TRUE /\ bill = NoBill /\ rentals = 0 /\ restarts = 0

Tick ==
    /\ now < MaxTime /\ now' = now + 1
    /\ UNCHANGED <<price, filePrice, start, fileStart, agreed, since, shown, steady, bill,
                   rentals, restarts>>

\* The system clock is set back.
SetBack ==
    /\ \E d \in 1..MaxBack : d <= now /\ now' = now - d
    /\ steady' = (start = NotOut)
    /\ UNCHANGED <<price, filePrice, start, fileStart, agreed, since, shown, bill,
                   rentals, restarts>>

\* rentVehicle: the session, and both files.
Rent ==
    /\ start = NotOut /\ rentals < MaxRentals /\ rentals' = rentals + 1
    /\ start' = now /\ since' = now /\ shown' = 0 /\ steady' = TRUE
    /\ fileStart' = SavedStart(now) /\ filePrice' = SavedPrice(price)
    /\ UNCHANGED <<now, price, agreed, bill, restarts>>

\* The card of the vehicle is drawn.
ShowCard ==
    /\ start # NotOut
    /\ shown' = Larger(shown, CardHours(now - start))
    /\ UNCHANGED <<now, price, filePrice, start, fileStart, agreed, since, steady, bill,
                   rentals, restarts>>

Return ==
    /\ start # NotOut
    /\ bill' = [hours |-> BilledHours(now - start), cost |-> CalculateRentalCost(BilledHours(now - start)),
                elapsed |-> now - since, shown |-> shown, steady |-> steady]
    /\ start' = NotOut /\ since' = NotOut /\ fileStart' = NotOut /\ shown' = 0 /\ steady' = TRUE
    /\ filePrice' = SavedPrice(price)
    /\ UNCHANGED <<now, price, agreed, rentals, restarts>>

\* loadFleet and loadActiveRentals.
Restart ==
    /\ restarts < MaxRestarts /\ restarts' = restarts + 1
    /\ price' = filePrice /\ start' = fileStart
    /\ UNCHANGED <<now, filePrice, fileStart, agreed, since, shown, steady, bill, rentals>>

Next == Tick \/ SetBack \/ Rent \/ ShowCard \/ Return \/ Restart

Spec == Init /\ [][Next]_vars

----------------------------------------------------------------------------
(* Properties. *)

\* Unless the clock was set back meanwhile the hours billed cover the time the
\* vehicle was really out, and whatever its card showed of it, and a restart adds
\* one hour at most to them.
BillCoversRental ==
    bill.steady /\ bill # NoBill =>
        /\ Larger(1, CeilHours(bill.elapsed)) <= bill.hours
        /\ bill.shown <= bill.hours
        /\ bill.hours <= Larger(1, CeilHours(bill.elapsed)) + 1

\* A rental costs the price the vehicle was registered with, to the six digits
\* fleet.txt keeps: exactly below 10000.00, and however often the price is saved
\* and read again, off by half a unit of the sixth digit at most above it.  That
\* is so while an int holds the cost; beyond that the bill may even be negative.
BillAtAgreedPrice ==
    LET off == bill.cost - agreed * bill.hours
        most == bill.hours * (Digit(agreed) \div 2)
    IN agreed * bill.hours + most <= IntMax => off <= most /\ -off <= most
=============================================================================
