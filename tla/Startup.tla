------------------------------- MODULE Startup -------------------------------
(***************************************************************************)
(* From main (src/src/main.cpp) to a running manager: plugins are loaded,  *)
(* vrs.conf and the command line are read (src/src/AppPaths.cpp), the      *)
(* settings are resolved against the registries (PluginRegistry.h) and     *)
(* validated, the log file is opened (src/src/Logger.cpp), an empty fleet  *)
(* is seeded, and storage, printer and manager are created.  Names and     *)
(* paths are a few values each; what matters of a path or an address is    *)
(* whether its validator accepts it, and what the printer makes of it.     *)
(***************************************************************************)
EXTENDS Naturals, Sequences, SequencesExt

CONSTANTS
    PluginFiles,        \* .so files that may lie in the plugin directories
    MaxPlugins, MaxLines, MaxArgs   \* bounds: files found, lines, arguments

ASSUME StartupAssumption == MaxPlugins \in Nat /\ MaxLines \in Nat /\ MaxArgs \in Nat

\* A plugin file: the name it is registered under, what it implements.
ASSUME PluginAssumption ==
    PluginFiles \subseteq [name : {"escpos", "custom", "sql"}, kind : {"printer", "storage", "other"}]

Keys == {"storage", "printer", "device", "data", "massive"}

\* An empty value stands for a setting that was not given.  An address may be
\* host:port, with a dotted address, a host name or a port no int holds, or not.
Values == [storage |-> {"", "file", "sql"}, printer |-> {"", "escpos", "custom"},
           device  |-> {"", "dotted", "hostname", "hugePort", "file"},
           data |-> {"writable", "unwritable"}, massive |-> {"on"}]
Default == [device |-> "dotted", data |-> "writable"]

Setting == UNION {{[key |-> k, val |-> v] : v \in Values[k]} : k \in Keys}
ConfSetting == {s \in Setting : s.key # "massive"}     \* vrs.conf does not know it
Broken == [key |-> "malformed", val |-> ""]     \* bad line, unknown key or flag, value missing
Help   == [key |-> "help", val |-> ""]

VARIABLES
    found,              \* plugin files, in directory order
    conf, args,         \* lines of vrs.conf, arguments
    printers, storages, \* registries: who implements each name
    defaultPrinter,
    place, at,          \* what main is doing, and the position in its input
    given,              \* ConfigArgs
    resolved,           \* AppPaths' statics
    directory,          \* has the data directory been created?
    fleet, printer,     \* contents of fleet.txt; implementation of the created printer
    logFile,            \* the logger's file_stream_ is open
    told                \* history: the console has said why there is no program

inputs == <<found, conf, args>>
registries == <<printers, storages, defaultPrinter>>
logger == <<logFile, told>>
effects == <<directory, fleet, printer, logger>>
vars == <<inputs, registries, place, at, given, resolved, effects>>

NotGiven == [k \in Keys |-> ""]
Places == {"plugins", "help", "conf", "args", "resolve", "create", "log", "seed", "construct",
           "running", "exit", "exitDirectory", "crashed"}

TypeOK ==
    /\ found \in Seq(PluginFiles)
    /\ conf \in Seq(ConfSetting \cup {Broken}) /\ args \in Seq(Setting \cup {Broken, Help})
    /\ \A n \in DOMAIN printers : printers[n] \in {"builtin", "plugin"}
    /\ storages \subseteq {"file", "sql"} /\ defaultPrinter \in DOMAIN printers
    /\ place \in Places /\ at \in Nat
    /\ \A k \in Keys : given[k] \in Values[k] \cup {""} /\ resolved[k] \in Values[k] \cup {""}
    /\ directory \in BOOLEAN /\ fleet \in {"empty", "seeded", "massive", "own"}
    /\ printer \in {"none", "builtin", "plugin"} /\ logFile \in BOOLEAN /\ told \in BOOLEAN

\* REGISTER_STORAGE and REGISTER_PRINTER have run before main.
Init ==
    /\ found \in SeqOf(PluginFiles, MaxPlugins)
    /\ conf \in SeqOf(ConfSetting \cup {Broken}, MaxLines)
    /\ args \in SeqOf(Setting \cup {Broken, Help}, MaxArgs)
    /\ printers = [n \in {"escpos"} |-> "builtin"] /\ storages = {"file"}
    /\ defaultPrinter = "escpos"
    /\ place = "plugins" /\ at = 1
    /\ given = NotGiven /\ resolved = NotGiven
    /\ directory = FALSE /\ fleet \in {"empty", "own"} /\ printer = "none"
    /\ logFile = FALSE /\ told = FALSE

Goto(next) == place' = next /\ at' = 1

\* LOG_ERROR writes to vms.log once it is open, to the console before.
LogError == told' = (told \/ ~logFile) /\ UNCHANGED logFile

----------------------------------------------------------------------------
(* loadRuntimePlugins. *)

\* Mutant: the printer of a plugin becomes the default.
RegisterAsDefault(file) ==
    /\ printers' = [n \in DOMAIN printers \cup {file.name} |->
                      IF n = file.name THEN "plugin" ELSE printers[n]]
    /\ defaultPrinter' = file.name

\* Mutant: the default is taken over, the entry is not made.
RegisterDefaultOnly(file) == defaultPrinter' = file.name /\ UNCHANGED printers

\* PluginRegistry::add replaces an entry of the same name; the registry is
\* never empty here, so the default stays.
Register(file) ==
    /\ printers' = [n \in DOMAIN printers \cup {file.name} |->
                      IF n = file.name THEN "plugin" ELSE printers[n]]
    /\ UNCHANGED defaultPrinter

\* A file that exports no create_printer is closed again.
LoadPlugin ==
    /\ place = "plugins" /\ at <= Len(found) /\ at' = at + 1
    /\ IF found[at].kind = "printer" THEN Register(found[at])
       ELSE UNCHANGED <<printers, defaultPrinter>>
    /\ UNCHANGED <<inputs, storages, place, given, resolved, effects>>

PluginsLoaded ==
    /\ place = "plugins" /\ at > Len(found) /\ Goto("help")
    /\ UNCHANGED <<inputs, registries, given, resolved, effects>>

----------------------------------------------------------------------------
(* handleHelp, loadConfigFile, parseCommandLine. *)

HandleHelp ==
    /\ place = "help"
    /\ \/ (\E i \in DOMAIN args : args[i] = Help) /\ Goto("exit") /\ told' = TRUE
       \/ (\A i \in DOMAIN args : args[i] # Help) /\ Goto("conf") /\ UNCHANGED told
    /\ UNCHANGED <<inputs, registries, given, resolved, directory, fleet, printer, logFile>>

Read(source, here, next) ==
    /\ place = here
    /\ \/ at > Len(source) /\ Goto(next) /\ UNCHANGED <<given, logger>>
       \/ /\ at <= Len(source) /\ source[at] = Broken
          /\ Goto("exit") /\ LogError /\ UNCHANGED given
       \/ /\ at <= Len(source) /\ source[at] \in Setting
          /\ given' = [given EXCEPT ![source[at].key] = source[at].val]
          /\ at' = at + 1 /\ UNCHANGED <<place, logger>>
    /\ UNCHANGED <<inputs, registries, resolved, directory, fleet, printer>>

LoadConfigFile == Read(conf, "conf", "args")
ParseCommandLine == Read(args, "args", "resolve")

----------------------------------------------------------------------------
(* resolve. *)

Wanted == [
    storage |-> IF given.storage = "" THEN "file" ELSE given.storage,
    printer |-> IF given.printer = "" THEN defaultPrinter ELSE given.printer,
    device  |-> IF given.device = "" THEN Default.device ELSE given.device,
    data    |-> IF given.data = "" THEN Default.data ELSE given.data,
    massive |-> given.massive]

\* The registered implementation's validator, which asks for the form host:port;
\* a plugin has none.
ValidDeviceAlways == TRUE                   \* mutant: the address is not validated
ValidDevice == printers[Wanted.printer] = "builtin" => Wanted.device # "file"
ValidPath == Wanted.data = "writable"

Accepted ==
    /\ Wanted.storage \in storages /\ Wanted.printer \in DOMAIN printers
    /\ ValidPath /\ ValidDevice

\* Mutant: the directory is created before the settings are checked.
CheckSettingsLate ==
    /\ place = "resolve" /\ directory' = TRUE
    /\ \/ Accepted /\ Goto("create") /\ UNCHANGED logger
       \/ ~Accepted /\ Goto("exit") /\ LogError
    /\ UNCHANGED <<inputs, registries, given, resolved, fleet, printer>>

CheckSettings ==
    /\ place = "resolve"
    /\ \/ Accepted /\ Goto("create") /\ UNCHANGED logger
       \/ ~Accepted /\ Goto("exit") /\ LogError
    /\ UNCHANGED <<inputs, registries, given, resolved, directory, fleet, printer>>

\* validateAndCreate, and the assignment of the statics at the end of resolve.
CreateDirectory ==
    /\ place = "create" /\ Goto("log")
    /\ directory' = TRUE /\ resolved' = Wanted
    /\ UNCHANGED <<inputs, registries, given, fleet, printer, logger>>

DirectoryFails ==
    /\ place = "create" /\ Goto("exitDirectory")
    /\ directory' \in BOOLEAN /\ LogError
    /\ UNCHANGED <<inputs, registries, given, resolved, fleet, printer>>

----------------------------------------------------------------------------
(* Back in main. *)

\* A log file that cannot be opened leaves the log on the console.
SetLogFile ==
    /\ place = "log" /\ Goto("seed") /\ logFile' \in BOOLEAN
    /\ UNCHANGED <<inputs, registries, given, resolved, directory, fleet, printer, told>>

SeedFleet ==
    /\ place = "seed" /\ Goto("construct")
    /\ fleet' = IF fleet # "empty" THEN fleet
                ELSE IF resolved.massive = "on" THEN "massive" ELSE "seeded"
    /\ UNCHANGED <<inputs, registries, given, resolved, directory, printer, logger>>

\* main opens, loads and seeds outside its try block: what is thrown there,
\* whatever fleet.txt holds, terminates the program.
SeedThrows ==
    /\ place = "seed" /\ Goto("crashed")
    /\ UNCHANGED <<inputs, registries, given, resolved, effects>>

\* PluginRegistry::create gives a null printer for a name it does not know.
Construct ==
    /\ place = "construct" /\ Goto("running")
    /\ printer' = IF resolved.printer \in DOMAIN printers THEN printers[resolved.printer]
                  ELSE "none"
    /\ UNCHANGED <<inputs, registries, given, resolved, directory, fleet, logger>>

\* What the constructors throw is logged and ends the program.
ConstructThrows ==
    /\ place = "construct" /\ Goto("crashed") /\ LogError
    /\ UNCHANGED <<inputs, registries, given, resolved, directory, fleet, printer>>

Next ==
    \/ LoadPlugin \/ PluginsLoaded \/ HandleHelp \/ LoadConfigFile \/ ParseCommandLine
    \/ CheckSettings \/ CreateDirectory \/ DirectoryFails
    \/ SetLogFile \/ SeedFleet \/ SeedThrows \/ Construct \/ ConstructThrows

Spec == Init /\ [][Next]_vars

----------------------------------------------------------------------------
(* Properties. *)

\* The last setting of a key, vrs.conf first and the command line after it.
LastGiven(k) ==
    LET all == conf \o args
        ofKey == {i \in DOMAIN all : all[i].key = k}
    IN IF ofKey = {} THEN "" ELSE all[Max(ofKey)].val

\* The command line overrides vrs.conf, a later setting an earlier one, and
\* what nobody set has its documented default, whatever plugins were loaded.
CommandLineWins ==
    place = "running" =>
        /\ resolved.storage = (IF LastGiven("storage") = "" THEN "file" ELSE LastGiven("storage"))
        /\ resolved.printer = (IF LastGiven("printer") = "" THEN "escpos" ELSE LastGiven("printer"))
        /\ resolved.device = (IF LastGiven("device") = "" THEN "dotted" ELSE LastGiven("device"))

\* A start that is refused for its settings, or that only prints the help, has
\* created nothing, and one that ends there or at its directory has said why on
\* the console, not in a log file nobody knows of.
RefusedStartLeavesNoTrace ==
    /\ place = "exit" => ~directory /\ fleet \in {"empty", "own"} /\ resolved = NotGiven
    /\ place \in {"exit", "exitDirectory"} => told

\* A storage implementation found in the plugin directories can be chosen.
StoragePluginsRegistered ==
    place = "help" => \A i \in DOMAIN found :
        found[i].kind = "storage" => found[i].name \in storages
=============================================================================
