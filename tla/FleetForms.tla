----------------------------- MODULE FleetForms -----------------------------
(***************************************************************************)
(* From what is typed to what is listed: RegisterVehicleModal and          *)
(* AdvancedFilterModal (src/src/ui), the vehicle a form becomes, its line  *)
(* in fleet.txt, and the list searchFleet gives for the filters in force   *)
(* (src/src/UI.cpp, src/include/FleetMgmt.h).  The rentals stand still;    *)
(* module UI has them move.  The worker's calls are atomic here, as module *)
(* FleetManager shows them to be, and while one is out the loading overlay *)
(* keeps the user from the buttons.                                        *)
(***************************************************************************)
EXTENDS AdvancedFilter

CONSTANTS
    Ids,                \* ids the register form may draw
    Seeded,             \* vehicles fleet.txt holds at first
    RentalCodes,        \* the code each rented vehicle is out under, by id
    NoCode,             \* the empty rental code
    Forms, Filters,     \* what may be typed into the two forms
    Choices,            \* settings of the search box and the two dropdowns
    Contained,          \* <<word, text>> where the word is a part of the text, case apart
    MaxRegistered, MaxRestarts      \* bounds

\* What the boxes of the register form hold; an empty box is {}.
FormRecord == [type : Types, brand : Names, model : Names, rate : SUBSET Int, spec : SUBSET Nat]
EmptyForm == [type |-> "Car", brand |-> NoName, model |-> NoName, rate |-> {}, spec |-> {}]

\* A box holds one value or none, an InputBox<int> what an int holds; N/A counts
\* as nothing.  The sizes that Save fills in are no more than the types hold.
ASSUME FormsAssumption ==
    /\ Forms \subseteq FormRecord
    /\ \A f \in Forms : \A m, n \in f.spec : m = n /\ n <= IntMax
    /\ \A f \in Forms : f.type = "Bike" => f.spec = {}
    /\ 5 < ByteSize /\ 2000 < WordSize
ASSUME FiltersAssumption == \A f \in Filters : IsFilter(f)
\* What loadFleet has read, from lines that saveFleet wrote.
ASSUME FleetAssumption ==
    /\ Ids \subseteq Nat \ {0}
    /\ Seeded \subseteq VehicleRecord
    /\ \A v, w \in Seeded : v.id = w.id => v = w
    /\ \A v \in Seeded : DeserializeVehicle(SerializeVehicle(v)) = {v}
    /\ \A v \in Seeded : (v.id \in DOMAIN RentalCodes) = (v.status = "Rented")
ASSUME ChoicesAssumption ==
    \A c \in Choices : c.type \in Types \cup {"All"} /\ c.status \in Statuses \cup {"All"}
ASSUME FormBoundsAssumption == MaxRegistered \in Nat /\ MaxRestarts \in Nat

VARIABLES
    fleet, file,        \* vehicles in memory, lines of fleet.txt
    form,               \* the open register form, or {}
    saving, drawn,      \* is Save looking for an id, the id it drew last
    work,               \* what the worker and the idle callback have yet to do
    filter, label,      \* advanced_filter_, the text on its button
    boxes,              \* the open filter form, or {}
    choice,             \* the word in the search box, NoName for none, and the dropdowns
    shown,              \* ids on the cards
    running,
    conversion,         \* what this build makes of a double no int holds
    typed,              \* history: the form each vehicle was registered with
    registered, restarts

list == <<filter, label, choice>>
dialog == <<form, saving, drawn>>
vars == <<fleet, file, dialog, work, list, boxes, shown, running, conversion, typed,
          registered, restarts>>

AllVehicles == [query |-> NoName, type |-> "All", status |-> "All"]
NoWork == [kind |-> "none"]
IdsOf(vehicles) == {v.id : v \in vehicles}
CodeOf(v) == IF v.id \in DOMAIN RentalCodes THEN RentalCodes[v.id] ELSE NoCode

TypeOK ==
    /\ fleet \subseteq VehicleRecord /\ file \subseteq VehicleRecord
    /\ \A v, w \in fleet : v.id = w.id => v = w
    /\ form \subseteq FormRecord /\ saving \in BOOLEAN /\ drawn \subseteq Ids
    /\ work.kind \in {"none", "add", "load"}
    /\ \A f \in filter \cup boxes : IsFilter(f)
    /\ label \in {"Advanced filters", "Clear filters"}
    /\ choice \in Choices \cup {AllVehicles}
    /\ shown \subseteq IdsOf(fleet)
    /\ running \in BOOLEAN /\ conversion \in Conversions
    /\ registered \in 0..MaxRegistered /\ restarts \in 0..MaxRestarts

----------------------------------------------------------------------------
(* refresh_fleet_list and searchFleet. *)

\* The texts a vehicle is written as: uiFormatMoney prints its price, and the
\* specs are a sentence about the size, one for each type.
IdText(v)    == <<"id", v.id>>
MoneyText(v) == <<"money", v.price>>
SpecsText(v) == <<"specs", v.type, v.size>>

IsIn(q, text) == <<q, text>> \in Contained

\* Mutant: the rate and the specs are not searched.
MatchesNames(v, q) ==
    \/ q = NoName \/ IsIn(q, IdText(v)) \/ IsIn(q, <<"name", v.brand>>)
    \/ IsIn(q, <<"name", v.model>>) \/ IsIn(q, <<"type", v.type>>)
    \/ IsIn(q, <<"status", v.status>>) \/ IsIn(q, <<"code", CodeOf(v)>>)

\* A word of the search box is looked for in one text after another.
MatchesQuery(v, q) ==
    \/ q = NoName
    \/ IsIn(q, IdText(v))
    \/ IsIn(q, <<"name", v.brand>>)
    \/ IsIn(q, <<"name", v.model>>)
    \/ IsIn(q, <<"type", v.type>>)
    \/ IsIn(q, <<"status", v.status>>)
    \/ v.id \in DOMAIN RentalCodes /\ IsIn(q, <<"code", RentalCodes[v.id]>>)
    \/ IsIn(q, MoneyText(v))
    \/ IsIn(q, SpecsText(v))

MatchesDropdowns(v, c) == c.type \in {"All", v.type} /\ c.status \in {"All", v.status}

\* searchFleet asks the predicate first, the advanced filter after it.
Search(vehicles, advanced, c) ==
    IdsOf({v \in vehicles :
        /\ MatchesDropdowns(v, c) /\ MatchesQuery(v, c.query)
        /\ \A f \in advanced : Matches(f, v, CodeOf(v), conversion)})

RefreshFleetList == shown' = Search(fleet', filter', choice')

Init ==
    /\ fleet = Seeded /\ file = {SerializeVehicle(v) : v \in Seeded}
    /\ form = {} /\ saving = FALSE /\ drawn = {} /\ work = NoWork
    /\ filter = {} /\ label = "Advanced filters" /\ boxes = {}
    /\ choice = AllVehicles
    /\ conversion \in Conversions
    /\ shown = IdsOf(Seeded) /\ running = TRUE
    /\ typed = {} /\ registered = 0 /\ restarts = 0

\* The user reaches the screen behind the forms.
AtScreen == running /\ form = {} /\ boxes = {} /\ work = NoWork

----------------------------------------------------------------------------
(* RegisterVehicleModal. *)

OpenRegister ==
    /\ AtScreen /\ registered < MaxRegistered
    /\ form' = {EmptyForm}
    /\ UNCHANGED <<fleet, file, saving, drawn, work, list, boxes, shown, running, conversion,
                   typed, registered, restarts>>

\* The boxes are filled in; a change of the type empties the last one.
FillIn(f) ==
    /\ running /\ form # {} /\ ~saving
    /\ \A old \in form : f.type = old.type \/ f.spec = {}
    /\ form' = {f}
    /\ UNCHANGED <<fleet, file, saving, drawn, work, list, boxes, shown, running, conversion,
                   typed, registered, restarts>>

PressSave ==
    /\ running /\ form # {} /\ ~saving /\ saving' = TRUE
    /\ UNCHANGED <<fleet, file, form, drawn, work, list, boxes, shown, running, conversion,
                   typed, registered, restarts>>

CancelRegister ==
    /\ running /\ form # {} /\ ~saving /\ form' = {}
    /\ UNCHANGED <<fleet, file, saving, drawn, work, list, boxes, shown, running, conversion,
                   typed, registered, restarts>>

Complete(f) == f.brand # NoName /\ f.model # NoName /\ \E t \in f.rate : t > 0

SpecKept(f) == IF f.spec = {} THEN 0 ELSE CHOOSE n \in f.spec : TRUE    \* mutant: no default
SpecOrDefault(f) ==
    IF \E n \in f.spec : n > 0 THEN CHOOSE n \in f.spec : TRUE
    ELSE IF f.type = "Car" THEN 5 ELSE 2000

\* The vehicle Save builds of a complete form.
VehicleOf(f, id) ==
    [id |-> id, type |-> f.type, brand |-> f.brand, model |-> f.model,
     size |-> SizeOf(f.type, SpecOrDefault(f)),
     price |-> Grosze(CHOOSE t \in f.rate : TRUE, conversion), status |-> "Available"]

\* Mutant: the id is drawn once, before the loop.
DrawOnce(id) ==
    /\ saving /\ running /\ drawn \in {{}, {id}}
    /\ IF id \in IdsOf(fleet) THEN drawn' = {id} /\ UNCHANGED saving
       ELSE drawn' = {} /\ saving' = FALSE
    /\ UNCHANGED <<fleet, file, form, work, list, boxes, shown, running, conversion, typed,
                   registered, restarts>>

\* One turn of the loop that looks for a free id, and what Save does when it has
\* one: an incomplete form stays open, a vehicle that cannot be constructed ends
\* the program, as nothing in the UI thread catches what the constructor throws.
Draw(id) ==
    /\ saving /\ running
    /\ IF id \in IdsOf(fleet) THEN drawn' = {id} /\ UNCHANGED <<saving, form, work, running>>
       ELSE /\ drawn' = {} /\ saving' = FALSE
            /\ \E f \in form :
                 CASE ~Complete(f) -> UNCHANGED <<form, work, running>>
                   [] Complete(f) /\ ~Constructible(VehicleOf(f, id)) ->
                        running' = FALSE /\ UNCHANGED <<form, work>>
                   [] OTHER ->
                        /\ form' = {} /\ UNCHANGED running
                        /\ work' = [kind |-> "add", veh |-> VehicleOf(f, id), form |-> f]
    /\ UNCHANGED <<fleet, file, list, boxes, shown, conversion, typed, registered, restarts>>

----------------------------------------------------------------------------
(* The worker and the idle callback. *)

\* Mutant: the file is written from the fleet as it was.
AddVehicleUnsaved ==
    /\ running /\ work.kind = "add"
    /\ fleet' = fleet \cup {work.veh} /\ file' = {SerializeVehicle(v) : v \in fleet}
    /\ typed' = typed \cup {[id |-> work.veh.id, form |-> work.form]}
    /\ registered' = registered + 1 /\ work' = [kind |-> "load"]
    /\ UNCHANGED <<dialog, list, boxes, shown, running, conversion, restarts>>

\* addVehicle, whose result starts a reload of the fleet.
AddVehicle ==
    /\ running /\ work.kind = "add" /\ work.veh.id \notin IdsOf(fleet)
    /\ fleet' = fleet \cup {work.veh}
    /\ file' = {SerializeVehicle(v) : v \in fleet'}
    /\ typed' = typed \cup {[id |-> work.veh.id, form |-> work.form]}
    /\ registered' = registered + 1 /\ work' = [kind |-> "load"]
    /\ UNCHANGED <<dialog, list, boxes, shown, running, conversion, restarts>>

\* The result of the reload: the cards are drawn anew.
TakeFleet ==
    /\ running /\ work.kind = "load" /\ work' = NoWork
    /\ UNCHANGED <<fleet, file, dialog, list, boxes, running, conversion, typed, registered,
                   restarts>>
    /\ RefreshFleetList

----------------------------------------------------------------------------
(* The filters. *)

\* The button opens the form, filled with the filter in force.
OpenFilter ==
    /\ AtScreen /\ ~\E f \in filter : FilterActive(f)
    /\ boxes' = IF filter = {} THEN {NoFilter} ELSE filter
    /\ UNCHANGED <<fleet, file, dialog, work, list, shown, running, conversion, typed,
                   registered, restarts>>

\* The button clears a filter that is active.
ClearFilter ==
    /\ AtScreen /\ \E f \in filter : FilterActive(f)
    /\ filter' = {} /\ label' = "Advanced filters"
    /\ UNCHANGED <<fleet, file, dialog, work, choice, boxes, running,
                   conversion, typed, registered, restarts>>
    /\ RefreshFleetList

EditFilter(f) ==
    /\ running /\ boxes # {} /\ boxes' = {f}
    /\ UNCHANGED <<fleet, file, dialog, work, list, shown, running, conversion, typed,
                   registered, restarts>>

\* A filter that requires nothing is none.
ApplyFilter ==
    /\ running /\ boxes # {} /\ boxes' = {}
    /\ filter' = {f \in boxes : FilterActive(f)}
    /\ label' = IF filter' = {} THEN "Advanced filters" ELSE "Clear filters"
    /\ UNCHANGED <<fleet, file, dialog, work, choice, running,
                   conversion, typed, registered, restarts>>
    /\ RefreshFleetList

CancelFilter ==
    /\ running /\ boxes # {} /\ boxes' = {}
    /\ UNCHANGED <<fleet, file, dialog, work, list, shown, running, conversion, typed,
                   registered, restarts>>

\* The search box and the dropdowns redraw the cards at every change.
Choose(c) ==
    /\ AtScreen /\ choice' = c
    /\ UNCHANGED <<fleet, file, dialog, work, filter, label, boxes, running, conversion, typed,
                   registered, restarts>>
    /\ RefreshFleetList

----------------------------------------------------------------------------
\* The program is started again, after its end or a stop: loadFleet, and a
\* screen without filters.
Restart ==
    /\ restarts < MaxRestarts /\ restarts' = restarts + 1
    /\ fleet' = UNION {DeserializeVehicle(line) : line \in file}
    /\ form' = {} /\ saving' = FALSE /\ drawn' = {} /\ work' = NoWork
    /\ filter' = {} /\ label' = "Advanced filters" /\ boxes' = {}
    /\ choice' = AllVehicles
    /\ running' = TRUE
    /\ UNCHANGED <<file, conversion, typed, registered>>
    /\ RefreshFleetList

Ended == ~running /\ UNCHANGED vars

Next ==
    \/ OpenRegister \/ \E f \in Forms : FillIn(f)
    \/ PressSave \/ CancelRegister \/ \E id \in Ids : Draw(id)
    \/ AddVehicle \/ TakeFleet
    \/ OpenFilter \/ ClearFilter \/ \E f \in Filters : EditFilter(f)
    \/ ApplyFilter \/ CancelFilter
    \/ \E c \in Choices : Choose(c)
    \/ Restart \/ Ended

Spec == Init /\ [][Next]_vars

\* The loop goes on and rand() gets round to every id; the worker and the idle
\* callback run on.
FairSpec ==
    /\ Spec
    /\ \A id \in Ids : WF_vars(Draw(id))
    /\ WF_vars(AddVehicle) /\ WF_vars(TakeFleet)

----------------------------------------------------------------------------
(* Properties. *)

\* What a user who registers a vehicle has typed, as a filter; fleet.txt keeps
\* six digits of the price.
AsTyped(f) ==
    LET t == CHOOSE x \in f.rate : TRUE
        sizeRow == IF f.type = "Car" THEN "seats" ELSE "payload"
        all == [NoFilter EXCEPT !.type = Exactly(f.type), !.brand = Exactly(f.brand),
                    !.model = Exactly(f.model),
                    !.price = IF restarts > 0 /\ Digit(Grosze(t, conversion)) > 1
                              THEN NoRequirement ELSE Exactly(t)]
    IN IF f.spec = {} THEN all
       ELSE [all EXCEPT ![sizeRow] = [NoRequirement EXCEPT !.equals = f.spec]]

\* A vehicle that was registered stays in the fleet across restarts, and the
\* filter that asks for the type, names, rate and size typed into the form finds
\* it, if a car has fewer seats than a byte counts, and the rate no more than
\* six digits once the program was restarted.
FoundAsTyped ==
    \A t \in typed : \E v \in fleet :
        /\ v.id = t.id
        /\ (t.form.type = "Car" => \A n \in t.form.spec : n < ByteSize)
             /\ (\A n \in t.form.spec : n > 0)
           => Matches(AsTyped(t.form), v, CodeOf(v), conversion)

\* What the search box offers to look in, "brand, model, ID, status, rate,
\* specs", and the type and the rental code.
Searched(v) ==
    {<<"name", v.brand>>, <<"name", v.model>>, IdText(v), <<"status", v.status>>, MoneyText(v),
     SpecsText(v), <<"type", v.type>>}
    \cup {<<"code", RentalCodes[i]>> : i \in {v.id} \cap DOMAIN RentalCodes}

\* The cards show what the screen says they show: the vehicles that have the
\* word of the search box in one of the texts it offers, and that the dropdowns
\* leave, and of these the ones the filter typed says, if the button tells that
\* there is one.  The numbers typed into the filter have to fit.
ShownIsMeant ==
    AtScreen /\ (\A f \in filter : FilterFits(f)) =>
        \A v \in fleet : v.id \in shown <=>
            /\ choice.type \in {"All", v.type} /\ choice.status \in {"All", v.status}
            /\ choice.query = NoName \/ \E text \in Searched(v) : IsIn(choice.query, text)
            /\ label = "Clear filters" => \A f \in filter : Says(f, v, CodeOf(v))

\* Nothing typed into the form ends the program but a name with a comma or an
\* unprintable character, a rate that is no amount from one grosz to the
\* greatest int, and a number of seats that is a multiple of 256; and the
\* vehicles registered before are safe.
ExitOnlyFromBadInput ==
    ~running =>
        /\ IdsOf(file) = IdsOf(fleet)
        /\ \E f \in form :
             \/ f.brand \in BadNames \/ f.model \in BadNames
             \/ \E t \in f.rate : t < 5 \/ t >= 10 * IntMax + 5
             \/ f.type = "Car" /\ \E n \in f.spec : n > 0 /\ n % ByteSize = 0

\* Save ends, and the worker after it, while one of the ids the form draws from
\* is free.
SaveEnds ==
    saving /\ Ids \ IdsOf(fleet) # {} ~> ~saving /\ work = NoWork
=============================================================================
