# A formal model of the Vehicle Management System

This directory holds TLA+ modules for the program in the repository (a C++20
terminal program that rents out a fleet of vehicles), the TLC configurations
that check them, and theorems about them that TLAPS checks. Paths are relative
to the repository's root. `PROJECT.json` says line by line which definition
stands for which code.

To repeat a run: `tlc -config X.cfg M`. To repeat the proofs: `tlapm X_proofs.tla`
for each of the eight `*_proofs` modules; the longest, of `FleetManager` and of
`UI`, take a few minutes.

## 1. Inventory

| Component (code) | State | Operations | What makes it correct |
|---|---|---|---|
| FleetManager (`src/FleetMgmt.cpp`, `include/FleetMgmt.h`) | `fleet_`, `active_rentals_`, one `std::shared_mutex` | add, remove, rent, return by vehicle or by code, update status; reads and `searchFleet` | no vehicle is let twice; a rental that was committed is not lost; a call is atomic for its callers; a call that fails changes nothing |
| IStorage, FileStorage (`src/FileStorage.cpp`) | `fleet.txt`, `rentals.txt`, `records/<id>.txt` | save and load a table, append, page and delete records | a stop costs little and is never taken for other data; the history is complete and paged without gaps |
| IPrinter, EscPosPrinter (`src/EscPosPrinter.cpp`) | a socket or a device file, per call | print a checkout or a return | no descriptor leaks, nobody waits for long, what counts as printed went to a connected printer |
| BackgroundWorker, TaskResultQueue (`include/UI.h`) | a queue of tasks, `stop_`, a condition variable; a queue of results | enqueue, run, shut down; push, pop | no lost wakeup, tasks in order, shutdown drains |
| UI (`src/UI.cpp`, `src/ui/*.cpp`) | `current_fleet_`, cards, filter, selection, logs, overlays, `loading_overlay_` | inputs, modals, tasks, one result per idle callback | what the user sees and can press fits the ledger; the program never blocks behind an overlay |
| Startup (`src/main.cpp`, `src/AppPaths.cpp`, `include/PluginRegistry.h`) | registries, `ConfigArgs`, resolved settings | load plugins, read `vrs.conf` and the command line, validate, open the log, seed, construct | settings by precedence, a printer that fits its address, no trace of a refused start but a word on the console |
| Vehicle, AdvancedFilter (`src/Vehicle.cpp`, `include/Vehicle.h`, `src/ui/AdvancedFilterModal.cpp`) | one vehicle; a set of requirements; the filter in force and the text on its button | cost, validation, matching; edit, apply, clear | the cost of a rental; the list shows what the screen says it shows |
| RegisterVehicleModal (`src/ui/RegisterVehicleModal.cpp`) | a form, the id drawn last | fill in, save, cancel | the vehicle found later is the one that was typed; nothing but bad input ends the program |
| Logger (`src/Logger.cpp`) | the log file, or the console | log | what ends a start is on the console |
| LogsModal, CustomPrinter plugin | | | |

How they meet. The UI thread never changes the manager: it queues a closure for
the worker, which calls the manager and pushes an `AsyncTaskResult`; the idle
callback of the compositor takes one result per turn, and starts a reload of the
fleet after every change. The UI thread does *read* the manager
(`searchFleet`, `getRentalCodeByVehicleId`, `getRentalBilledHours`) while it
draws, so the manager's mutex is contended. The manager calls storage under its
exclusive lock and the printer after it.

What is hard in this code: two or three files written one after the other by a
call that may fail or be stopped between any two; a lookup under the shared lock
whose answer is used under the exclusive one; buttons that captured a copy of a
vehicle; results that arrive after the selection changed; members destroyed while
a thread still uses them; a nested shared lock; and conversions that lose digits
when state goes through a file. `PROJECT.json` lists these hazards at their lines.

## 2. Modules

| Module | Models | Notes |
|---|---|---|
| `RentalLedger` | the manager as one atomic object, an action per operation | abstract; `DisciplinedNext` is what the UI is expected to ask for |
| `RentalService` | the ledger behind concurrent calls | abstract: invoke, take effect, answer |
| `FleetManager` (`MCFleetManager`) | every mutating call in its steps | implements `RentalService` |
| `FleetLock` | the mutex as searches, reads and writes share it | |
| `FileStorage` (`MCFileStorage`) | the files line by line | what `FleetManager` takes for one storage call |
| `Money` | widths, conversions and roundings of amounts | operators |
| `Billing` | hours, prices, clock, and what files round off | over `Money` |
| `Vehicles` | what the constructors accept, a vehicle's line in `fleet.txt` | operators, over `Money` |
| `AdvancedFilter` | the matching of every row, and what a filter says to a reader | operators, over `Vehicles` |
| `FleetForms` (`MCFleetForms`) | from what is typed to what is listed: both forms, search box, dropdowns, restart | composes the forms, the vehicle, its line, and the search |
| `BackgroundWorker` | the thread, its condition variable, destruction | implements `TaskExecutor` |
| `TaskExecutor` | a first-in first-out executor | abstract |
| `UI` (`MCUI`) | the UI thread over `RentalLedger` | composes the ledger, the worker's queue and the screen |
| `Startup` | from `main` to a running manager | |
| `EscPosPrinter` | one receipt, to a file or over the network | |
| `Receipts` (`MCReceipts`) | a start and the receipts it leads to | composes `Startup` and `EscPosPrinter` |
| `FleetManager_proofs`, `UI_proofs`, `BackgroundWorker_proofs`, `FileStorage_proofs`, `Billing_proofs`, `FleetLock_proofs`, `FleetForms_proofs`, `Receipts_proofs` | theorems | one for each component, section 4; those about `RentalLedger` are in `UI_proofs`, those about `Startup` and `EscPosPrinter` in `Receipts_proofs` |

### FleetManager
A thread's call is at a place `pc[t]`: `idle`; `lookup` (`returnVehicle(id)`
looks for its code under the shared lock); `entry` (arguments accepted, waiting
for the exclusive lock); the storage calls `saveFleet`, `saveRentals`,
`appendRecord`, `deleteRecords` in the order each operation makes them
(`RentOrder`, `ReturnOrder`, ...); `commit`; `unlocked` (the receipt). `Prepare...`
takes the lock, makes the checks of the operation and fills the working copies
`new_fleet` and `new_rentals`; `Refuse` is a check that throws. `StorageFails` is
a `StorageException`: the copies and the lock go and nothing that earlier calls
wrote is undone, as in the code. A vehicle is added Available: `addVehicle` takes any status, the UI gives
it this one. `Restart` is a stop anywhere and the next start:
`main` seeds an empty fleet, the constructor loads both tables. `owed` and
`drawn` are history variables; no action of the code reads them (`drawn` only
limits codes when `CodeReuse` is FALSE).

### UI
`fleet` and `rentals` are the ledger; a task takes effect in one action
(`WorkerStep`) that makes the ledger's own step, which is sound for the one
worker because `FleetManager` implements `RentalService` and its other clients
only read. It starts from whatever the constructor of `FleetManager` loads (`Loaded`):
rentals of an earlier session, records left behind, and files that disagree, as a stop
between two saves leaves them. `history` counts the records of a vehicle, which are
numbered as they were written; a load of the history asks for the newest `LogLimit`
of them (25 in the code). `overlays` is the stack of overlays, `loadingSet` the pointer
`loading_overlay_`, `panel` what the buttons on the right have captured. `trouble`
is chosen at the start of a session and says what may go wrong in it: codes typed
in lower case, a return that fails after its record is written or records of a
decommissioned vehicle that stay, a printer that throws something unexpected, a load
that throws.

### FleetForms
The boxes of the two forms hold sets of at most one value; an empty box is `{}`.
A typed number is the number its digits stand for, a typed price counts
thousandths of PLN, so that rates below a grosz and roundings can be told apart
without decimals: the rates that a double cannot hold exactly are read as the
number that was typed, ties rounded away from zero as `std::round` does, and
infinities and NaN are not typed. Conversions of the code are made where the code
makes them: `SizeOf` (`uint8_t` seats, `uint32_t` payload), `Grosze` (double to
`int`, undefined beyond it: x86 and ARM both are tried, `conversion` never
changes), `SafeStoul` (`unsigned long` to `uint32_t`), `SavedPrice` (six digits).
`Draw(id)` is one turn of the loop behind Save; the turn that finds a free id
makes the vehicle or ends the program, as nothing in the UI thread catches what
the constructor throws. The worker's call and the reload that follows it are
atomic, and the loading overlay keeps the user out meanwhile (`AtScreen`): `UI` and
`FleetManager` show both. Names are a few values: an accepted one, one with a
character that is refused, none. A vehicle is written as texts: its id, names, type,
status, rental code, the printed price, the sentence about its size. The constant
`Contained` says which words are, case apart, a part of which texts; `MatchesQuery` looks
for the word in the texts in the order of the code.

### FileStorage, Billing, FleetLock, BackgroundWorker
A table is a sequence of entries, perhaps ending in a torn line, which the
loader drops; a record line remembers where a torn record was cut, since that
decides what the next record makes of the line. `Billing` counts ticks, of which
a second and an hour have a few; `Wrap` is what a build makes of a product
beyond an `int`. `FleetLock` counts how often each thread holds the
mutex in shared mode; what glibc's rwlock grants (`MayShare`, `MayOwn`) is an
external definition, since ISO C++ leaves the nested lock undefined. A search
there looks for the vehicles that are out, by their status or by their rental
code, one vehicle at a time, while calls of the worker change them.
`BackgroundWorker` has the steps of `run()` and of `~UI`, spurious wakeups
included; pushing to the destroyed result queue is undefined, so it ends the
process or goes unnoticed.

### Startup, EscPosPrinter, Receipts
`Startup` follows `main`: plugins, help, `vrs.conf`, command line, `resolve`, the
data directory, the log file, seeding, construction. `told` is a history variable:
whether the console has said why there is no program. `EscPosPrinter` has one
action for every system call of `tryNetworkSend`, with every way it may end.
In `Receipts` the address it takes apart is the one `resolve` has left in
`AppPaths`; a `SIGPIPE` at `send` ends the process (`killed`). It runs only if `Construct` gave the manager the built-in printer.

## 3. Runs

All runs finish in about two minutes or less on two cores.

| Run | Checks | Bounds |
|---|---|---|
| `FM_Rentals` | `OneRentalPerVehicle`, `CheckoutRecorded`, `DamageBounded` | 2 threads, 2 vehicles, 3 codes, 4 calls, 1 failing storage call, 1 stop; no status updates |
| `FM_Durable` | `TypeOK`, `DurableRentals`, `HistoryTellsStatus`, `DecommissionHolds` | all operations, 3 calls, 2 failures, 1 stop |
| `FM_Service` | `Linearizable` (implements `RentalService`), `CallsEnd` | all operations, 3 calls, 1 failure, codes never drawn twice, a printer that throws at most `PrinterException` |
| `UI_Screen` | `TypeOK`, `ViewFresh`, `ModalsFresh`, `LogsFresh`, `Disciplined`, `LoadingEnds` | 2 vehicles, 2 codes, 4 contents of the files at the start, pages of 2 records, 3 inputs that queue a task, three kinds of session |
| `BW_Worker` | `TypeOK`, `NoLostWakeup`, `JoinDrains`, `ImplementsExecutor` | 4 tasks |
| `FS_Files` | `TypeOK`, `StopLeavesPrefix`, `RecordLossBounded`, `PagesCoverHistory` | 2 entries, 2 saves, 4 records, 2 stops, 1 call on a full disk, pages of 1, 2, 3 and 25 |
| `Billing_Hours` | `TypeOK`, `BillCoversRental`, `BillAtAgreedPrice` | hours of 2 seconds of 2 ticks, 2 rentals, 2 restarts, a clock set back by up to 5 ticks, prices 12.50, 9999.99 and 10000.57, an `int` that ends at 25000.04 |
| `Lock_Search` | `TypeOK`, `SearchExact`, `SearchEnds`, `WriterServed` | the UI thread and the worker, 3 vehicles, any number of writes |
| `Start_Receipts` | `WellTyped`, `CommandLineWins`, `RefusedStartLeavesNoTrace`, `NoSocketLeaks`, `PrintedOverConnection` | up to 2 of 3 plugin files, 1 line of `vrs.conf`, 2 arguments, an empty fleet or one of its own, 1 receipt |
| `Forms_Typed` | `TypeOK`, `FoundAsTyped`, `ShownIsMeant`, `ExitOnlyFromBadInput`, `SaveEnds` | 3 ids to draw from, 2 vehicles at first, 2 registrations, 11 forms, 11 filters, 5 settings of the search, 1 restart |
| `FM_RollbackFails` | `DiskMatchesMemory` is violated | 1 thread, 1 failing storage call |
| `Start_StoragePlugin` | `StoragePluginsRegistered` is violated | 1 plugin file |

Why these bounds are enough to be interesting. Two threads are enough for every
race of a call with another, since all state changes happen under one lock and a
third caller waits like the second; two vehicles let a code move from one to
another; four calls let a rental be returned and its vehicle let again or removed.
A stop may come between any two storage calls. In `FS_Files` a torn record can be
continued, continued again, and followed by whole ones. In `UI_Screen` three
tasks fit a change, the reload it starts, and a selection between them; the files it
loads are empty of rentals, hold one and a history longer than a page, or were left by
a stop between `saveFleet` and `saveActiveRentals`, of a rental and of a return. The ticks
of `Billing` tell the second from the hour and both from the tick. TLC's integers
are as wide as the program's `int`, so `Billing` and `FleetForms` scale the greatest
`int`, and the 32 and 64 bits with it; what the properties need of the
real limits is in the named assumptions of `Money`, `Vehicles` and `AdvancedFilter`.
A byte keeps its 256 values. The forms and filters of `MCFleetForms` sit at the
edges: no rate, a rate below half a grosz, one beyond the greatest `int`, one of
seven digits, 0, 7 and 256 seats, a number beyond 64 bits. The words searched are in an id, a rental code
and a payload at once, in the sentence about seats, in a name, and in a
price that a restart rounds. One receipt
is enough for a leak and for its answer. Every bound is
a constant whose name starts with `Max` and appears in a guard.

Symmetry is used in runs that check safety only: threads and codes in
`FleetManager` and entries in `FileStorage`. Deadlock is not checked in
`FS_Files`, `Billing_Hours` and `Start_*`, whose bounded
clients stop when they have done all they may, and `main` when it has started or
left. In the other modules the end is an explicit stuttering step, so that a real
deadlock would be found.

### Fairness
- `FleetManager`: a thread inside a call keeps running (`WF` of its steps). Nobody
  has to call, storage need not fail.
- `UI`: the worker thread and the idle callback, which the compositor calls on
  every turn of its loop, keep running. The user need not do anything.
- `FleetForms`: the loop behind Save goes on and `rand()` gets round to every id
  (`WF` of `Draw(id)`); the worker and the idle callback keep running.
- `BackgroundWorker`: both threads run on; a thread that wants the mutex gets it
  in the end (`SF`), as it is held for a few statements at a time only. Wakeups
  without cause are possible and never owed.
- `FleetLock`: a thread that holds the mutex goes on; a writer that finds it free
  again and again takes it in the end (`SF`). With one thread that searches, the
  mutex is free between any two searches. glibc prefers readers, so with two
  searching threads nothing would justify this.

## 4. What is proved

Every safety invariant and every action property that a passing run checks is also
a theorem, for every value of the constants: any number of threads, vehicles,
codes, calls, failures, stops, tasks, records, pages, prices, settings, forms and
filters. The specifications with fairness imply those without, so the theorems
hold in the runs' behaviours too. The theorems about a component share an inductive
invariant; that of `FleetManager` is extended by what some of them need beyond it.

**FleetManager.** `SafeInv` is the base: `LockInv` (a thread is under the lock exactly
when it owns it), `CopyInv` (the owner's copies differ from the memory by its own
operation and nothing else) and `DiskInv` (which thread may have put `rentals.txt`
ahead of the memory, and by what).
- `TypeCorrect`; it needs `CallInv`, that a call past its arguments has a vehicle or a code.
- `CommittedRentalsDurable`: not inductive alone, because what a thread commits, and
  what reaches `rentals.txt`, is a copy it made earlier.
- `OneRentalHolds`, without `updateVehicleStatus`. Memory changes at `Commit` only,
  and `CopyInv` says how. It speaks of a process that has not been stopped yet: after
  a stop between two files it is false.
- `FleetManagerLinearizable`: every step is a step of `RentalService` or a stutter,
  the effect being the `Commit`. `CallPhase` and `CallRequest` are what `RentalService`
  sees of a thread, and `DrawnInv` says that the code `returnVehicle(id)` has looked up
  cannot be let again before it is used. The theorem assumes codes that are drawn
  once, no restart (a client of a dead process gets no answer) and a printer that throws
  what is expected; without them the property is false, as section 5 says.
- `DecommissionedStaysOut`: `FilesInv` says that `fleet.txt`, which every operation
  writes first, holds the owner's copy from then on, and that a vehicle in it which memory
  does not have is being added.
- `HistoryIsFaithful`, for callers that never update a status to Rented: such a call
  writes a record that reads "Available". The menu of the UI offers no such update.
  `HistoryInv` says whether the histories tell memory yet or the owner's copy already.
- `DamageIsBounded` and `CheckoutsAreRecorded`, without `updateVehicleStatus`. The first
  counts the vehicles about which memory and files disagree among themselves
  (`Suspects`, without the one being let or returned): a failure or a stop adds one at
  most, no other step any; the second follows what the owner has already appended to the
  history of its vehicle.

The three theorems that leave `updateVehicleStatus` out need it: the function looks at
no status, so a caller could make a rented vehicle available. The runs that check
these properties leave it out as well, and `UsersAreDisciplined` shows that the UI does
not use it so.

**UI.** `UIInv`: what the screen holds is well typed (`HeldInv`); at most one task that
changes the fleet, or its result, or the reload after it, is out, and while it is the
overlay is there (`OneOutInv`, `ScreenInv`); the copy, the cards and the panel are those
of the manager, but for what is still out (`FreshInv`); a modal fits its vehicle
(`ModalsFresh`); the screen says "loading" only while the logs are out (`WaitInv`); the
records shown, or on their way, are those a load would find now (`Found`), unless the
outcome that makes them old is still to be taken (`LogsInv`); and a vehicle that is
selected but gone has the result of its decommissioning to come (`GoneInv`). The
last two need a session in which nothing goes wrong (`CompleteInv`). From it follow
`UITypes`, `ViewIsFresh`, `ModalsAreFresh`, `LogsAreFresh` and `UsersAreDisciplined`.

A vehicle *agrees* when it is Rented exactly when one active code names it
(`RentalLedger!Agrees`). The files a session loads need not agree: `DamageBounded`
counts the vehicles a stop or a failure leaves behind. `LedgerSound` therefore says, of any
files, that callers that keep the discipline lose the agreement of no vehicle
(`AgreementStays`), and that all agree if all did at the start. With
`UsersAreDisciplined` it gives `RentalsAgree`, which no run checks: the same of the
program behind the UI, as long as no load fails. What a stop left does not heal, and
does not spread.

**BackgroundWorker.** `WorkerInv`: what was queued has run, runs or waits, once and in
order (`Conserved`); between the check that finds nothing to do and the wait nothing is
queued, as the mutex is held (`BlockInv`); the thread is gone only when it was told to stop and the
queue was empty (`ExitInv`). It gives `WorkerTypes`, `WakeupNotLost`,
`ClosingDrains` and `WorkerImplementsExecutor`: with `ExecutorState` as the state of the
executor, every step is one of `TaskExecutor` or a stutter. The fairness of
`ImplementsExecutor` stays with TLC.

**FileStorage.** `StorageInv`: a file holds the start of what was written to it last,
perhaps torn; the readable records of a history are in order of their numbers, and
a line that does not end yet may cost the record behind it, so it counts as
lost already (`Hanging`). Without that `LossIsBounded` is not inductive. `StorageTypes`,
`StoppedSavesLeavePrefixes` and `PagesShowEverything` (for every page size) follow.

**Billing.** `BillingInv`: the price in memory is the one agreed or that one saved once,
the start is the real one or that one saved once, and while the clock runs forward a card
has not shown more hours than it would now (`PricesInv`, `StartInv`, `CardInv`). The
lemmas say that a price saved twice is the price saved once, and that hours grow with
ticks. It gives
`BillingTypes`, `BillsCoverRentals` and `BillsAtAgreedPrice`. The greatest `int` is at most that
of 32 bits, not rounded up when it is saved (`IntMaxAssumption`), and the clock runs for an
hour at least.

**FleetLock.** `SearchInv`: whoever reads has the mutex in shared mode, so nobody writes,
and what a search has found is what is out among the vehicles it has asked about. It
gives `LockTypes` and `SearchIsExact`.

**Startup, EscPosPrinter, Receipts.** `ReceiptsInv`: the settings are those given
last among the lines read so far (`GivenInv`; `LastGiven`, in the property, reads them off
`vrs.conf` and the arguments directly);
nothing is created before all settings are accepted, and what was accepted stays
(`EffectInv`); whether a socket is open, and in which mode, goes with the place the print
is at (`SocketInv`, `ModeInv`); and the printer runs only with an address its
validator accepted. It gives `ReceiptsTyped`, `LastSettingWins`, `RefusedStartIsClean`,
`SocketsAreClosed` and `PrintsAreConnected`.

**FleetForms.** `FormsInv`: every vehicle's line can be read and `fleet.txt` holds it
(`FleetInv`); a vehicle on its way came from a complete form, and no form is open
meanwhile (`DialogInv`); a registered vehicle is as it was made or, after a restart, as its
line has it (`TypedInv`); the cards are the search in force but between a registration
and its reload (`ListInv`). `FilterSays` is the lemma that a filter whose numbers fit means to
`matches` what it says. It gives `FormsTyped`, `TypedIsFound`, `CardsAreMeant` and
`ExitsAreExplained`. The assumptions are that a box holds one value at most, that the
sizes filled in by default fit their types, and that `fleet.txt` at first holds lines
the program wrote.

What the proofs rest on: the named `ASSUME`s of the modules, the hypotheses above, and
the atomicity of one storage call in `FleetManager`. A call that is stopped in the
middle is what `FileStorage` is about: `CommittedRentalsDurable` holds for stops between
storage calls, and `StoppedSavesLeavePrefixes` says what one inside costs.

What stays with TLC: liveness under fairness (`CallsEnd`, `LoadingEnds`, `SearchEnds`,
`WriterServed`, `SaveEnds` and the fairness half of `ImplementsExecutor`), which is beyond
the prover, and the two runs that expect a violation. Several definitions are
phrased for the prover and mean what TLC reads as well: memberships in sets of
records in place of comparisons of fields, `Without` in place of `SelectSeq`, uniqueness of
ids in place of a comparison of cardinalities.

## 5. Where the code and its documents disagree

- `FM_RollbackFails`: a storage call that fails after `fleet.txt` was written is
  not rolled back; `README.md:109` promises it is. `DamageBounded` shows how far it
  goes: one vehicle for each failure or stop.
- `Start_StoragePlugin`: only printers are ever loaded at run time; `README.md:115`
  promises storage implementations as well.

The properties of the passing runs state the rest as it is, with the condition
under which it holds. Where the condition excludes a hazard (a printer that loses
bytes, a history inherited from a removed vehicle, receipts out of order, codes in lower case, a
load that fails, costs beyond an `int`, numbers that do not fit), `PROJECT.json` lists it
with no property:
- `Linearizable` needs a printer that throws nothing but `PrinterException`. With an
  over-long port `std::stoi` throws another exception, which leaves
  `rentVehicle` after its commit, and the caller is told that it failed.
- `Linearizable` needs codes that are not drawn again: between the lookup and the lock of
  `returnVehicle(id)` the code may pass to another vehicle (once in 36^6 draws).
- `OneRentalPerVehicle` needs callers that leave rented vehicles alone:
  `updateVehicleStatus` checks nothing. Through the UI that holds (`Disciplined`) as
  long as no load fails.
- `DecommissionHolds` names the one way a decommissioned vehicle comes back:
  the default vehicles are seeded again when the last vehicle was removed.
- `ImplementsExecutor` allows the process to die while it closes:
  `result_queue_` is destroyed before `worker_` has drained its tasks.
- `StopLeavesPrefix` and `RecordLossBounded` count what a full disk takes
  from calls that returned normally: no stream is looked at after it is opened.
- `CheckoutRecorded` allows for a return that fails after its record was appended
  and is tried again: its history has two returns of one rental.
- `BillAtAgreedPrice` is exact below 10000.00 only: prices are written with six digits.
- `LogsFresh` is about the newest 25 records, which is all the panel asks for, and holds
  for codes typed in upper case: the vehicle to reload is looked up under the code as typed.
- `BillAtAgreedPrice` needs a cost that an `int` holds. The register form accepts
  rates up to 21,474,836.47 PLN, of which two hours are too many; at the
  default prices it takes decades. The bill may then be negative.
- `ShownIsMeant` has the type and the rental code searched besides what the search box
  offers (`src/UI.cpp:136`: brand, model, ID, status, rate, specs), and needs numbers that fit: a number of more than 32 bits in the
  filter is taken for what is left of it, one beyond `unsigned long` for 0, and a
  price beyond an `int` is whatever the conversion makes of it.
- `FoundAsTyped` needs less than 256 seats, and forgets what is typed below six
  digits of a price once the program was restarted.
- `ExitOnlyFromBadInput` lists what ends the program from the register form: a name the
  constructor refuses, a rate that is no amount from one grosz to the greatest `int`,
  a multiple of 256 seats. The form's own check asks for names and a positive rate only.
- `PrintedOverConnection` bounds the wait if the socket could be made
  non-blocking: when `fcntl` fails, `connect` blocks as long as the system likes.
  Host names pass the validator and are refused by the printer every time.

## 6. What is not modelled
Layout, drawing, the statistics row, the content of receipts and logs, and the
spinner: nothing but their wording depends on them.
Of `Logger` only the choice between file and console is modelled, not levels, time
stamps or its own mutex around the stream. `LogsModal` is compiled but no code creates one: the
panel of the UI shows the logs. The plugin that comes with the program is an
example; `Startup` models how it is loaded. notui and notcurses are external;
`UI` relies on one rule of theirs, that the overlay added last gets the input.
`FleetForms` has no rentals that move and `UI` no filters but the status: neither
state is read by what the other models. A stop inside a storage call is
modelled in `FileStorage` alone, and so is reading: in `FleetManager` a file that cannot
be opened at a start, which loads as an empty one and is seeded or overwritten then, does
not occur. The probe file by which the validator of the file storage tries a directory
is gone again before `resolve` goes on. What a rental in `rentals.txt` means when a torn
`fleet.txt` has lost its vehicle is not composed with `FleetManager`.

## 7. Plan
Written, in this order: the ledger and the manager with their proofs; the UI over
the ledger; the worker and its abstract executor; the files; billing; the lock;
startup; the printer; then the width of amounts, the vehicle, the filter and
the forms over them, and the receipts of a started program.

After the models, the theorems of every component.

Next, the model: `FleetManager` over a storage whose calls may be stopped inside, so
that a torn `fleet.txt` meets the rentals of the vehicles it has lost; and
what a plugin printer owes `FleetManagerLinearizable`.

Next, the theorems: `Linearizable` for callers of `returnVehicle(code)` only, where
codes may be drawn again; and the ledger's promise for the program as a whole, from
`Linearizable` and `UsersAreDisciplined`.
