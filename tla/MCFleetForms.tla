---------------------------- MODULE MCFleetForms ----------------------------
(***************************************************************************)
(* What is typed in the runs of FleetForms: forms that are fine, that are  *)
(* incomplete, and that hold a number too small or too large; filters for  *)
(* every row, with numbers that fit and that do not.                       *)
(***************************************************************************)
EXTENDS FleetForms

CONSTANTS acme, comma, code

MCSeeded ==
    {[id |-> 101, type |-> "Bike", brand |-> acme, model |-> acme, size |-> 0,
      price |-> 500, status |-> "Rented"],
     [id |-> 200, type |-> "Truck", brand |-> acme, model |-> acme, size |-> 3000,
      price |-> 5000, status |-> "Available"]}
MCRentalCodes == [i \in {101} |-> code]

Car   == [type |-> "Car", brand |-> acme, model |-> acme, rate |-> {12500}, spec |-> {}]
Truck == [Car EXCEPT !.type = "Truck", !.rate = {10000570}]
Bike  == [Car EXCEPT !.type = "Bike", !.rate = {12504}]

MCForms ==
    {Car, Truck, Bike, [Truck EXCEPT !.spec = {3000}]}
    \cup {[Car EXCEPT !.spec = {n}] : n \in {0, 7, 256}}
    \cup {[Car EXCEPT !.rate = r] : r \in {{}, {4}, {50000050}}}
    \cup {[Bike EXCEPT !.brand = comma]}

For(row, r) == [NoFilter EXCEPT ![row] = r]
AtLeast(x) == [NoRequirement EXCEPT !.min = {x}]
AtMost(x) == [NoRequirement EXCEPT !.max = {x}]

MCFilters ==
    {NoFilter,
     For("seats", Exactly(7)), For("payload", AtLeast(0)),
     For("price", Exactly(12500)), For("price", AtLeast(50000100)),
     For("id", [NoRequirement EXCEPT !.min = {200}, !.max = {200}]),
     For("id", AtLeast(LongSize)), For("brand", Exactly(comma)), For("type", Exactly("Truck")),
     For("rental_code", Exactly(code)),
     [For("id", AtLeast(200)) EXCEPT !.price = AtMost(12500)]}

\* Words as they are typed, and where they are: 200 is an id and a part of the
\* default payload and of the rental code, 10000.57 a rate until the program is
\* restarted.
In(word, texts) == {word} \X texts
MCContained ==
    In("acme", {<<"name", acme>>})
    \cup In("200", {<<"id", 200>>, <<"specs", "Truck", 2000>>, <<"code", code>>})
    \cup In(".57", {<<"money", 1000057>>})
    \cup In("seats", {<<"specs", "Car", n>> : n \in 1..255})

Searching(word) == [AllVehicles EXCEPT !.query = word]
MCChoices ==
    {AllVehicles, Searching("200"), Searching(".57"), Searching("seats"),
     [query |-> "acme", type |-> "Truck", status |-> "Available"]}
=============================================================================
