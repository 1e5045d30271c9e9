------------------------------ MODULE Vehicles ------------------------------
(***************************************************************************)
(* A vehicle (src/src/Vehicle.cpp, src/include/Types.h): what its          *)
(* constructors accept, and what a line of fleet.txt makes of it           *)
(* (src/src/FileStorage.cpp).  A car and a truck have one number more than *)
(* a bike, the seats in eight bits and the payload in 32; here it is the   *)
(* vehicle's size, 0 for a bike.  A brand or a model is one of a few       *)
(* names; what matters of a name is whether it has a comma or a character  *)
(* that cannot be printed, and whether it is empty.                        *)
(***************************************************************************)
EXTENDS Money

CONSTANTS
    PlainNames, BadNames,   \* names the constructors accept, and do not
    NoName,                 \* the empty string
    ByteSize, WordSize      \* values of a uint8_t and of a uint32_t

Names == PlainNames \cup BadNames \cup {NoName}

ASSUME NamesAssumption == PlainNames \cap BadNames = {} /\ NoName \notin PlainNames \cup BadNames
ASSUME WidthsAssumption == ByteSize \in Nat /\ WordSize \in Nat /\ ByteSize < IntMax /\ IntMax < WordSize

Types == {"Car", "Bike", "Truck"}
Statuses == {"Available", "Rented", "Maintenance"}

VehicleRecord ==
    [id : Nat \ {0}, type : Types, brand : PlainNames, model : PlainNames, size : Nat,
     price : 1..IntMax, status : Statuses]

\* validateBrandAndModel.
NameAcceptedAny(n) == n # NoName        \* mutant: any character is accepted
NameAccepted(n) == n \in PlainNames

\* The constructors of Vehicle throw ValidationException for anything else.
Constructible(v) ==
    /\ v.id > 0
    /\ NameAccepted(v.brand) /\ NameAccepted(v.model)
    /\ v.price > 0
    /\ v.type # "Bike" => v.size > 0

\* The seats of a car are a uint8_t, the payload of a truck a uint32_t.
SizeOf(type, n) ==
    CASE type = "Car" -> n % ByteSize
      [] type = "Truck" -> n % WordSize
      [] type = "Bike" -> 0

\* serializeVehicle: nothing but the price changes on the way to the line.
SerializeVehicle(v) == [v EXCEPT !.price = SavedPrice(@)]

\* deserializeVehicle: the vehicle of a line, or none.  A name with a comma
\* shifts the fields behind it, and what is then read as a number is none.
DeserializeVehicle(line) ==
    LET v == [line EXCEPT !.size = SizeOf(line.type, @)]
    IN IF line.brand \in BadNames \/ line.model \in BadNames \/ ~Constructible(v) THEN {} ELSE {v}
=============================================================================
