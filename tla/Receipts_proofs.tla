-------------------------- MODULE Receipts_proofs --------------------------
(***************************************************************************)
(* Theorems about the program from its start to its receipts, for every    *)
(* set of plugin files, every number of configuration lines, arguments and *)
(* receipts, and everything the network may do.                            *)
(***************************************************************************)
EXTENDS Receipts, SequenceTheorems, TLAPS

(***************************************************************************)
(* The settings.  What has been read is a prefix of vrs.conf followed by   *)
(* the command line; given holds the last value of each key in it.         *)
(***************************************************************************)
All == conf \o args

\* g gives each key its last value in the first n lines of s.
Settled(s, g, n) == \A k \in Keys :
    \/ g[k] = "" /\ \A i \in 1..n : s[i].key # k
    \/ \E i \in 1..n : /\ s[i].key = k /\ s[i].val = g[k]
                       /\ \A j \in 1..n : j > i => s[j].key # k

GivenIsMap == given = [k \in Keys |-> given[k]]

GivenInv ==
    /\ GivenIsMap /\ at # 0
    /\ place \in {"plugins", "help"} => Settled(All, given, 0)
    /\ place = "conf" => at \in 1..Len(conf) + 1 /\ Settled(All, given, at - 1)
    /\ place = "args" => at \in 1..Len(args) + 1 /\ Settled(All, given, Len(conf) + at - 1)
    /\ place \in {"resolve", "create", "log", "seed", "construct", "running"}
            => Settled(All, given, Len(conf) + Len(args))

(***************************************************************************)
(* The effects.  Nothing is done to the disk before the settings have been *)
(* accepted, and what is resolved then stays as it was accepted.           *)
(***************************************************************************)
Unresolved == {"plugins", "help", "conf", "args", "resolve", "create", "exit"}
Configured == {"log", "seed", "construct", "running", "crashed"}

EffectInv ==
    /\ defaultPrinter = "escpos"
    /\ place \in Unresolved => /\ ~directory /\ ~logFile /\ resolved = NotGiven
                               /\ fleet \in {"empty", "own"}
    /\ place \in {"exit", "exitDirectory"} => told
    /\ place = "create" => Accepted
    /\ place \in Configured => Accepted /\ resolved = Wanted
    /\ printer = "builtin" => place = "running" /\ printers[resolved.printer] = "builtin"

StartInv == TypeOK /\ GivenInv /\ EffectInv
----------------------------------------------------------------------------

LEMMA SettingParts ==
    ASSUME NEW s \in Setting PROVE s.key \in Keys /\ s.val \in Values[s.key]
<1>1. PICK k \in Keys : s \in {[key |-> k, val |-> v] : v \in Values[k]}
  BY DEF Setting
<1> QED
  BY <1>1

LEMMA ValuesOf ==
    /\ Values["storage"] = {"", "file", "sql"} /\ Values["printer"] = {"", "escpos", "custom"}
    /\ Values["device"] = {"", "dotted", "hostname", "hugePort", "file"}
    /\ Values["data"] = {"writable", "unwritable"} /\ Values["massive"] = {"on"}
BY DEF Values

LEMMA AllLines ==
    ASSUME TypeOK
    PROVE  /\ Len(conf) \in Nat /\ Len(args) \in Nat
           /\ DOMAIN All = 1..(Len(conf) + Len(args))
           /\ \A i \in 1..Len(conf) : All[i] = conf[i]
           /\ \A i \in 1..Len(args) : All[Len(conf) + i] = args[i]
<1> DEFINE S == ConfSetting \cup Setting \cup {Broken, Help}
<1>1. conf \in Seq(S) /\ args \in Seq(S)
  <2>1. Seq(ConfSetting \cup {Broken}) \subseteq Seq(S) /\ Seq(Setting \cup {Broken, Help}) \subseteq Seq(S)
    BY SeqMonotonic
  <2> QED
    BY <2>1 DEF TypeOK
<1> HIDE DEF S
<1>2. Len(conf) \in Nat /\ Len(args) \in Nat
  BY <1>1, LenProperties
<1>3. /\ All \in Seq(S) /\ Len(All) = Len(conf) + Len(args)
      /\ \A i \in 1..Len(conf) + Len(args) :
            All[i] = IF i <= Len(conf) THEN conf[i] ELSE args[i - Len(conf)]
  BY <1>1, ConcatProperties DEF All
<1>4. DOMAIN All = 1..(Len(conf) + Len(args))
  BY <1>3, LenProperties
<1> QED
  BY <1>2, <1>3, <1>4

LEMMA StartInvInit == Init => StartInv
<1> SUFFICES ASSUME Init PROVE StartInv
  OBVIOUS
<1>1. TypeOK
  <2>1. \A S : \A n \in Nat : SeqOf(S, n) \subseteq Seq(S)
    BY SeqDef DEF SeqOf
  <2>2. /\ found \in Seq(PluginFiles)
        /\ conf \in Seq(ConfSetting \cup {Broken}) /\ args \in Seq(Setting \cup {Broken, Help})
    BY <2>1, StartupAssumption DEF Init
  <2> QED
    BY <2>2 DEF Init, TypeOK, Places, NotGiven
<1>2. GivenInv
  <2>1. GivenIsMap /\ \A k \in Keys : given[k] = ""
    BY DEF Init, NotGiven, GivenIsMap
  <2>2. Settled(All, given, 0)
    <3>1. \A i : i \notin 1..0
      OBVIOUS
    <3> QED
      BY <2>1, <3>1 DEF Settled
  <2>3. place = "plugins" /\ at = 1
    BY DEF Init
  <2>4. /\ at # 0 /\ place \in {"plugins", "help"} /\ place # "conf" /\ place # "args"
        /\ place \notin {"resolve", "create", "log", "seed", "construct", "running"}
    BY <2>3
  <2> QED
    BY <2>1, <2>2, <2>4, Zenon DEF GivenInv
<1>3. EffectInv
  BY DEF Init, EffectInv, Unresolved, Configured
<1> QED
  BY <1>1, <1>2, <1>3 DEF StartInv

\* What is known of the settings once they are resolved.
LEMMA WantedTypes ==
    ASSUME TypeOK, EffectInv
    PROVE  /\ \A k \in Keys : Wanted[k] \in Values[k] \cup {""}
           /\ Wanted.device \in Values.device \ {""}
<1>1. \A k \in Keys : given[k] \in Values[k] \cup {""}
  BY DEF TypeOK
<1>2. defaultPrinter = "escpos"
  BY DEF EffectInv
<1>3. /\ Wanted["storage"] = IF given["storage"] = "" THEN "file" ELSE given["storage"]
      /\ Wanted["printer"] = IF given["printer"] = "" THEN "escpos" ELSE given["printer"]
      /\ Wanted["device"] = IF given["device"] = "" THEN "dotted" ELSE given["device"]
      /\ Wanted["data"] = IF given["data"] = "" THEN "writable" ELSE given["data"]
      /\ Wanted["massive"] = given["massive"]
  BY <1>2 DEF Wanted, Default
<1>4. Wanted.device = Wanted["device"] /\ Values.device = Values["device"]
  OBVIOUS
<1> QED
  BY <1>1, <1>3, <1>4, ValuesOf DEF Keys

\* The types, the inputs and registries apart from the rest.
InputsOK ==
    /\ found \in Seq(PluginFiles)
    /\ conf \in Seq(ConfSetting \cup {Broken}) /\ args \in Seq(Setting \cup {Broken, Help})
    /\ \A n \in DOMAIN printers : printers[n] \in {"builtin", "plugin"}
    /\ storages \subseteq {"file", "sql"} /\ defaultPrinter \in DOMAIN printers

SettingsOK == \A k \in Keys : given[k] \in Values[k] \cup {""} /\ resolved[k] \in Values[k] \cup {""}

EffectsOK ==
    /\ place \in Places /\ at \in Nat
    /\ directory \in BOOLEAN /\ fleet \in {"empty", "seeded", "massive", "own"}
    /\ printer \in {"none", "builtin", "plugin"} /\ logFile \in BOOLEAN /\ told \in BOOLEAN

LEMMA InputsOKNext == ASSUME InputsOK, EffectsOK, GivenInv, Next PROVE InputsOK'
<1>1. CASE LoadPlugin
  <2>1. found[at] \in PluginFiles
    BY <1>1, ElementOfSeq, LenProperties DEF LoadPlugin, InputsOK, EffectsOK, GivenInv
  <2>2. CASE Register(found[at])
    BY <1>1, <2>2 DEF LoadPlugin, Register, InputsOK, inputs
  <2>3. CASE UNCHANGED <<printers, defaultPrinter>>
    BY <1>1, <2>3 DEF LoadPlugin, InputsOK, inputs
  <2> QED
    BY <1>1, <2>2, <2>3 DEF LoadPlugin
<1>2. CASE UNCHANGED <<inputs, registries>>
  BY <1>2 DEF InputsOK, inputs, registries
<1> QED
  BY <1>1, <1>2 DEF Next, PluginsLoaded, HandleHelp, LoadConfigFile, ParseCommandLine, Read,
       CheckSettings, CreateDirectory, DirectoryFails, SetLogFile, SeedFleet, SeedThrows, Construct, ConstructThrows

LEMMA SettingsOKNext ==
    ASSUME TypeOK, GivenInv, EffectInv, Next PROVE SettingsOK'
<1>1. SettingsOK
  BY DEF TypeOK, SettingsOK
<1>2. CASE UNCHANGED <<given, resolved>>
  BY <1>1, <1>2 DEF SettingsOK
<1>3. ASSUME NEW s \in Setting, given' = [given EXCEPT ![s.key] = s.val], UNCHANGED resolved
      PROVE  SettingsOK'
  BY <1>1, <1>3, SettingParts DEF SettingsOK, GivenInv, GivenIsMap
<1>4. CASE LoadConfigFile \/ ParseCommandLine
  BY <1>2, <1>3, <1>4 DEF LoadConfigFile, ParseCommandLine, Read
<1>5. CASE CreateDirectory
  <2>1. resolved' = Wanted /\ UNCHANGED given
    BY <1>5 DEF CreateDirectory
  <2> QED
    BY <1>1, <2>1, WantedTypes DEF SettingsOK
<1> QED
  BY <1>2, <1>4, <1>5 DEF Next, LoadPlugin, PluginsLoaded, HandleHelp,
       CheckSettings, DirectoryFails, SetLogFile, SeedFleet, SeedThrows, Construct, ConstructThrows, effects

LEMMA EffectsOKNext == ASSUME InputsOK, EffectsOK, Next PROVE EffectsOK'
<1> USE DEF EffectsOK, Places, Goto, logger, effects
<1>0. LogError => told' \in BOOLEAN /\ logFile' \in BOOLEAN
  BY Zenon DEF LogError
<1>1. CASE LoadPlugin
  BY <1>1 DEF LoadPlugin
<1>2. CASE PluginsLoaded
  BY <1>2 DEF PluginsLoaded
<1>3. CASE HandleHelp
  <2>1. /\ place' \in {"exit", "conf"} /\ at' = 1 /\ (told' = TRUE \/ told' = told)
        /\ UNCHANGED <<directory, fleet, printer, logFile>>
    BY <1>3 DEF HandleHelp
  <2> QED
    BY <2>1
<1>4. CASE LoadConfigFile
  BY <1>0, <1>4 DEF LoadConfigFile, Read
<1>5. CASE ParseCommandLine
  BY <1>0, <1>5 DEF ParseCommandLine, Read
<1>6. CASE CheckSettings
  BY <1>0, <1>6 DEF CheckSettings
<1>7. CASE CreateDirectory
  BY <1>7 DEF CreateDirectory
<1>8. CASE DirectoryFails
  BY <1>0, <1>8 DEF DirectoryFails
<1>9. CASE SetLogFile
  BY <1>9 DEF SetLogFile
<1>10. CASE SeedFleet
  BY <1>10 DEF SeedFleet
<1>11. CASE SeedThrows
  BY <1>11 DEF SeedThrows
<1>12. CASE Construct
  BY <1>12 DEF Construct, InputsOK
<1>13. CASE ConstructThrows
  BY <1>0, <1>13 DEF ConstructThrows
<1> QED
  BY <1>1, <1>2, <1>3, <1>4, <1>5, <1>6, <1>7, <1>8, <1>9, <1>10, <1>11, <1>12, <1>13 DEF Next

\* A line that is read settles its key and leaves the others as they were.
LEMMA ReadSettles ==
    ASSUME NEW s, NEW g, NEW h, NEW n \in Nat, Settled(s, g, n), s[n + 1].key \in Keys,
           \A k \in Keys : h[k] = IF k = s[n + 1].key THEN s[n + 1].val ELSE g[k]
    PROVE  Settled(s, h, n + 1)
<1> SUFFICES ASSUME NEW k \in Keys
             PROVE  \/ h[k] = "" /\ \A i \in 1..(n + 1) : s[i].key # k
                    \/ \E i \in 1..(n + 1) : /\ s[i].key = k /\ s[i].val = h[k]
                                             /\ \A j \in 1..(n + 1) : j > i => s[j].key # k
  BY DEF Settled
<1>1. CASE k = s[n + 1].key
  <2>1. n + 1 \in 1..(n + 1) /\ \A j \in 1..(n + 1) : ~(j > n + 1)
    OBVIOUS
  <2> QED
    BY <1>1, <2>1
<1>2. CASE k # s[n + 1].key
  <2>1. h[k] = g[k] /\ \A j \in 1..(n + 1) : j \in 1..n \/ j = n + 1
    BY <1>2
  <2>2. CASE g[k] = "" /\ \A i \in 1..n : s[i].key # k
    BY <1>2, <2>1, <2>2
  <2>3. ASSUME NEW i \in 1..n, s[i].key = k, s[i].val = g[k],
               \A j \in 1..n : j > i => s[j].key # k
        PROVE  \E m \in 1..(n + 1) : /\ s[m].key = k /\ s[m].val = h[k]
                                     /\ \A j \in 1..(n + 1) : j > m => s[j].key # k
    <3>1. i \in 1..(n + 1) /\ \A j \in 1..(n + 1) : j > i => s[j].key # k
      BY <1>2, <2>1, <2>3
    <3> QED
      BY <2>1, <2>3, <3>1
  <2> QED
    BY <2>2, <2>3 DEF Settled
<1> QED
  BY <1>1, <1>2

\* The lines read so far, by the place of main.
LEMMA GivenInvByPlace ==
    ASSUME GivenIsMap', at' # 0, All' = All, Len(conf') = Len(conf), Len(args') = Len(args),
           \/ place' \in {"plugins", "help"} /\ Settled(All, given', 0)
           \/ place' = "conf" /\ at' \in 1..Len(conf) + 1 /\ Settled(All, given', at' - 1)
           \/ place' = "args" /\ at' \in 1..Len(args) + 1 /\ Settled(All, given', Len(conf) + at' - 1)
           \/ /\ place' \in {"resolve", "create", "log", "seed", "construct", "running"}
              /\ Settled(All, given', Len(conf) + Len(args))
           \/ place' \in {"exit", "exitDirectory", "crashed"}
    PROVE  GivenInv'
BY DEF GivenInv

LEMMA GivenInvRead ==
    ASSUME TypeOK, GivenInv, LoadConfigFile \/ ParseCommandLine PROVE GivenInv'
<1> DEFINE n == IF place = "conf" THEN at - 1 ELSE Len(conf) + at - 1
<1>1. /\ Len(conf) \in Nat /\ Len(args) \in Nat /\ at \in Nat /\ at # 0
      /\ place \in {"conf", "args"} /\ UNCHANGED inputs
  BY AllLines DEF TypeOK, GivenInv, LoadConfigFile, ParseCommandLine, Read
<1>2. All' = All /\ Len(conf') = Len(conf) /\ Len(args') = Len(args)
  BY <1>1 DEF All, inputs
<1>3. /\ n \in Nat /\ Settled(All, given, n)
      /\ place = "conf" => at \in 1..Len(conf) + 1
      /\ place = "args" => at \in 1..Len(args) + 1
  BY <1>1 DEF GivenInv
<1>4. CASE place' = "exit" /\ at' = 1 /\ UNCHANGED given
  BY <1>2, <1>4, GivenInvByPlace DEF GivenInv, GivenIsMap
<1>5. CASE place = "conf" /\ at > Len(conf) /\ Goto("args") /\ UNCHANGED given
  <2>1. n = Len(conf) + at' - 1 /\ place' = "args" /\ at' \in 1..Len(args) + 1 /\ at' # 0
    BY <1>1, <1>3, <1>5 DEF Goto
  <2> QED
    BY <1>2, <1>3, <1>5, <2>1, GivenInvByPlace DEF GivenInv, GivenIsMap
<1>6. CASE place = "args" /\ at > Len(args) /\ Goto("resolve") /\ UNCHANGED given
  <2>1. n = Len(conf) + Len(args) /\ place' = "resolve" /\ at' # 0
    BY <1>1, <1>3, <1>6 DEF Goto
  <2> QED
    BY <1>2, <1>3, <1>6, <2>1, GivenInvByPlace DEF GivenInv, GivenIsMap
<1>7. ASSUME NEW source, source[at] = All[n + 1], source[at] \in Setting,
             given' = [given EXCEPT ![source[at].key] = source[at].val],
             at' = at + 1, UNCHANGED place,
             place = "conf" => at \in 1..Len(conf),
             place = "args" => at \in 1..Len(args)
      PROVE  GivenInv'
  <2>1. All[n + 1].key \in Keys
    BY <1>7, SettingParts
  <2>2. /\ GivenIsMap'
        /\ \A k \in Keys : given'[k] = IF k = All[n + 1].key THEN All[n + 1].val ELSE given[k]
    BY <1>7, <2>1 DEF GivenInv, GivenIsMap
  <2>3. Settled(All, given', n + 1)
    BY <1>3, <2>1, <2>2, ReadSettles
  <2>4. /\ at' # 0
        /\ place' = "conf" => at' \in 1..Len(conf) + 1 /\ n + 1 = at' - 1
        /\ place' = "args" => at' \in 1..Len(args) + 1 /\ n + 1 = Len(conf) + at' - 1
        /\ place' \in {"conf", "args"}
    BY <1>1, <1>7
  <2> QED
    BY <1>2, <2>2, <2>3, <2>4, GivenInvByPlace
<1>8. CASE /\ place = "conf" /\ at <= Len(conf) /\ conf[at] \in Setting
           /\ given' = [given EXCEPT ![conf[at].key] = conf[at].val]
           /\ at' = at + 1 /\ UNCHANGED place
  <2>1. conf[at] = All[n + 1] /\ at \in 1..Len(conf)
    BY <1>1, <1>8, AllLines
  <2> QED
    BY <1>7, <1>8, <2>1
<1>9. CASE /\ place = "args" /\ at <= Len(args) /\ args[at] \in Setting
           /\ given' = [given EXCEPT ![args[at].key] = args[at].val]
           /\ at' = at + 1 /\ UNCHANGED place
  <2>1. args[at] = All[n + 1] /\ at \in 1..Len(args)
    BY <1>1, <1>9, AllLines
  <2> QED
    BY <1>7, <1>9, <2>1
<1> QED
  BY <1>4, <1>5, <1>6, <1>8, <1>9 DEF LoadConfigFile, ParseCommandLine, Read, Goto

LEMMA GivenInvNext == ASSUME TypeOK, GivenInv, Next PROVE GivenInv'
<1>1. ASSUME UNCHANGED <<given, conf, args>> 
      PROVE  /\ All' = All /\ Len(conf') = Len(conf) /\ Len(args') = Len(args)
             /\ given' = given /\ GivenIsMap'
  BY <1>1 DEF All, GivenInv, GivenIsMap
<1> USE DEF Goto, inputs
<1>2. CASE LoadPlugin
  <2>1. place' \in {"plugins", "help"} /\ Settled(All, given, 0)
    BY <1>2 DEF LoadPlugin, GivenInv
  <2>2. at \in Nat /\ at' = at + 1
    BY <1>2 DEF LoadPlugin, TypeOK
  <2>3. at' # 0
    BY <2>2
  <2> QED
    BY <1>1, <1>2, <2>1, <2>3, GivenInvByPlace DEF LoadPlugin
<1>3. CASE PluginsLoaded
  <2>1. place' \in {"plugins", "help"} /\ Settled(All, given, 0) /\ at' # 0
    BY <1>3 DEF PluginsLoaded, GivenInv
  <2> QED
    BY <1>1, <1>3, <2>1, GivenInvByPlace DEF PluginsLoaded
<1>4. CASE HandleHelp
  <2>1. /\ Settled(All, given, 0) /\ 0 = at' - 1 /\ at' \in 1..Len(conf) + 1 /\ at' # 0
        /\ place' \in {"exit", "conf"}
    BY <1>4, AllLines DEF HandleHelp, GivenInv
  <2> QED
    BY <1>1, <1>4, <2>1, GivenInvByPlace DEF HandleHelp
<1>5. CASE LoadConfigFile \/ ParseCommandLine
  BY <1>5, GivenInvRead
<1>6. CASE CheckSettings \/ CreateDirectory \/ DirectoryFails \/ SetLogFile
           \/ SeedFleet \/ SeedThrows \/ Construct \/ ConstructThrows
  <2>1. /\ Settled(All, given, Len(conf) + Len(args)) /\ at' # 0
        /\ place' \in {"create", "log", "seed", "construct", "running", "exit", "exitDirectory", "crashed"}
    BY <1>6 DEF CheckSettings, CreateDirectory, DirectoryFails, SetLogFile, SeedFleet,
                SeedThrows, Construct, ConstructThrows, GivenInv
  <2>2. UNCHANGED <<given, conf, args>>
    BY <1>6 DEF CheckSettings, CreateDirectory, DirectoryFails, SetLogFile, SeedFleet,
                SeedThrows, Construct, ConstructThrows
  <2> QED
    BY <1>1, <2>1, <2>2, GivenInvByPlace
<1> QED
  BY <1>2, <1>3, <1>4, <1>5, <1>6 DEF Next

\* Which settings are accepted depends on nothing but them and the registries.
LEMMA AcceptedKept ==
    ASSUME UNCHANGED <<given, registries>> PROVE Wanted' = Wanted /\ (Accepted' <=> Accepted)
BY DEF registries, Wanted, Accepted, ValidPath, ValidDevice

LEMMA EffectInvNext == ASSUME TypeOK, EffectInv, Next PROVE EffectInv'
<1> USE DEF Goto, logger, effects, Unresolved, Configured
<1>1. CASE LoadPlugin
  <2>1. UNCHANGED defaultPrinter
    BY <1>1 DEF LoadPlugin, Register
  <2> QED
    BY <1>1, <2>1 DEF LoadPlugin, EffectInv
<1>0. LogError /\ ~logFile => told' /\ UNCHANGED logFile
  BY Zenon DEF LogError
<1>2. ASSUME place \in Unresolved, printer # "builtin",
             UNCHANGED <<registries, resolved, directory, fleet, printer, logFile>>,
             (place' \in {"plugins", "help", "conf", "args", "resolve"} \/ (place' = "exit" /\ told'))
      PROVE  EffectInv'
  BY <1>2 DEF EffectInv, registries
<1>a. CASE PluginsLoaded
  <2>1. place \in Unresolved /\ place # "running" /\ place' = "help"
    BY <1>a DEF PluginsLoaded
  <2> QED
    BY <1>a, <1>2, <2>1 DEF PluginsLoaded, EffectInv
<1>b. CASE HandleHelp
  <2>1. /\ place \in Unresolved /\ place # "running"
        /\ (place' \in {"plugins", "help", "conf", "args", "resolve"} \/ (place' = "exit" /\ told'))
    BY <1>b DEF HandleHelp
  <2> QED
    BY <1>b, <1>2, <2>1 DEF HandleHelp, EffectInv
<1>c. CASE LoadConfigFile \/ ParseCommandLine
  <2>1. place \in Unresolved /\ place # "running" /\ ~logFile
    BY <1>c DEF LoadConfigFile, ParseCommandLine, Read, EffectInv
  <2>2. /\ (place' \in {"plugins", "help", "conf", "args", "resolve"} \/ (place' = "exit" /\ told'))
        /\ UNCHANGED <<registries, resolved, directory, fleet, printer, logFile>>
    BY <1>0, <1>c, <2>1 DEF LoadConfigFile, ParseCommandLine, Read
  <2> QED
    BY <1>2, <2>1, <2>2 DEF EffectInv
<1>3. CASE CheckSettings
  <2>1. CASE Accepted /\ Goto("create") /\ UNCHANGED logger
    BY <1>3, <2>1, AcceptedKept DEF CheckSettings, EffectInv, registries
  <2>2. CASE Goto("exit") /\ LogError
    BY <1>0, <1>2, <1>3, <2>2 DEF CheckSettings, EffectInv, registries
  <2> QED
    BY <1>3, <2>1, <2>2 DEF CheckSettings
<1>4. CASE CreateDirectory
  BY <1>4, AcceptedKept DEF CreateDirectory, EffectInv, registries
<1>5. CASE DirectoryFails
  BY <1>0, <1>5, AcceptedKept DEF DirectoryFails, EffectInv, registries
<1>6. CASE SetLogFile
  BY <1>6, AcceptedKept DEF SetLogFile, EffectInv, registries
<1>7. CASE SeedFleet
  BY <1>7, AcceptedKept DEF SeedFleet, EffectInv, registries
<1>8. CASE SeedThrows
  BY <1>8, AcceptedKept DEF SeedThrows, EffectInv, registries
<1>d. CASE ConstructThrows
  BY <1>0, <1>d, AcceptedKept DEF ConstructThrows, EffectInv, registries
<1>9. CASE Construct
  <2>1. /\ place' = "running" /\ UNCHANGED <<resolved, printers, defaultPrinter>>
        /\ Wanted' = Wanted /\ (Accepted' <=> Accepted)
    BY <1>9, AcceptedKept DEF Construct, registries
  <2>2. Accepted /\ resolved = Wanted /\ defaultPrinter = "escpos"
    BY <1>9 DEF Construct, EffectInv
  <2>3. printer' = "builtin" => printers[resolved.printer] = "builtin"
    BY <1>9 DEF Construct
  <2> QED
    BY <2>1, <2>2, <2>3 DEF EffectInv
<1> QED
  BY <1>1, <1>a, <1>b, <1>c, <1>3, <1>4, <1>5, <1>6, <1>7, <1>8, <1>d, <1>9 DEF Next

LEMMA StartInvNext == StartInv /\ [Next]_vars => StartInv'
<1> SUFFICES ASSUME StartInv, [Next]_vars PROVE StartInv'
  OBVIOUS
<1>1. CASE Next
  <2>1. InputsOK /\ EffectsOK
    BY DEF StartInv, TypeOK, InputsOK, EffectsOK
  <2>2. InputsOK' /\ SettingsOK' /\ EffectsOK'
    BY <1>1, <2>1, InputsOKNext, SettingsOKNext, EffectsOKNext DEF StartInv
  <2>3. TypeOK'
    BY <2>2 DEF InputsOK, SettingsOK, EffectsOK, TypeOK
  <2> QED
    BY <1>1, <2>3, GivenInvNext, EffectInvNext DEF StartInv
<1>2. CASE UNCHANGED vars
  <2>1. TypeOK'
    BY <1>2 DEF vars, inputs, registries, effects, logger, StartInv, TypeOK
  <2>2. GivenInv'
    BY <1>2 DEF vars, inputs, StartInv, GivenInv, GivenIsMap, All
  <2>3. EffectInv'
    BY <1>2, AcceptedKept DEF vars, effects, logger, StartInv, EffectInv, registries
  <2> QED
    BY <2>1, <2>2, <2>3 DEF StartInv
<1> QED
  BY <1>1, <1>2
----------------------------------------------------------------------------
(***************************************************************************)
(* The printer, at the address main has resolved.                          *)
(***************************************************************************)
Addressed == resolved.device \in Printer!HostPort

\* One socket is open from socket() to close().
SocketInv ==
    /\ call \in Printer!Places
    /\ sockets = IF call \in {"idle", "address", "socket"} THEN 0 ELSE 1
    /\ prints \in 0..MaxPrints /\ waited \in {0, 2, 3}
    /\ answer \in {"none", "printed", "PrinterException", "otherException"}

\* The socket's mode is what fcntl left it at, until it is restored; the limit
\* of two seconds holds whenever the mode could be read.
ModeInv ==
    /\ blocking \in BOOLEAN /\ flagsRead \in BOOLEAN
    /\ connected \in BOOLEAN /\ delivered \in BOOLEAN
    /\ call # "idle" => answer = "none"
    /\ call \in {"parse", "connect", "select", "error", "restore"} => (blocking <=> ~flagsRead)
    /\ call \in {"restore", "send", "closeOk"} => connected
    /\ call \in {"send", "closeOk"} => blocking
    /\ call \in {"address", "socket", "flags"} => waited = 0
    /\ flagsRead => waited # 3
    /\ answer = "printed" => connected /\ blocking

PrinterInv == SocketInv /\ ModeInv

ReceiptsInv == StartInv /\ PrinterInv
----------------------------------------------------------------------------

LEMMA PrinterInvInit == ReceiptsInit => PrinterInv
<1> SUFFICES ASSUME ReceiptsInit PROVE PrinterInv
  OBVIOUS
<1>1. SocketInv
  BY PrinterAssumption DEF ReceiptsInit, Printer!Init, SocketInv, Printer!Places
<1>2. ModeInv
  BY DEF ReceiptsInit, Printer!Init, ModeInv
<1> QED
  BY <1>1, <1>2 DEF PrinterInv

LEMMA SocketInvNext == ASSUME SocketInv, Printer!Next PROVE SocketInv'
<1> USE PrinterAssumption DEF SocketInv, Printer!Places, Printer!conversation, Printer!Answer, Printer!Close
<1>1. CASE Printer!PrintReceipt
  BY <1>1 DEF Printer!PrintReceipt
<1>2. CASE Printer!SendCommand
  BY <1>2 DEF Printer!SendCommand
<1>3. CASE Printer!Socket
  BY <1>3 DEF Printer!Socket
<1>4. CASE Printer!ReadFlags
  BY <1>4 DEF Printer!ReadFlags
<1>5. CASE Printer!NoSuchHost
  BY <1>5 DEF Printer!NoSuchHost
<1>6. CASE Printer!ParseHost
  BY <1>6 DEF Printer!ParseHost
<1>7. CASE Printer!Connect
  BY <1>7 DEF Printer!Connect
<1>8. CASE Printer!Select
  BY <1>8 DEF Printer!Select
<1>9. CASE Printer!SocketError
  BY <1>9 DEF Printer!SocketError
<1>10. CASE Printer!RestoreFlags
  BY <1>10 DEF Printer!RestoreFlags
<1>11. CASE Printer!Send
  BY <1>11 DEF Printer!Send
<1>12. CASE Printer!CloseOk
  BY <1>12 DEF Printer!CloseOk
<1>13. CASE Printer!CloseFail
  BY <1>13 DEF Printer!CloseFail
<1> QED
  BY <1>1, <1>2, <1>3, <1>4, <1>5, <1>6, <1>7, <1>8, <1>9, <1>10, <1>11, <1>12, <1>13 DEF Printer!Next, Printer!Step

LEMMA ModeInvNext == ASSUME SocketInv, ModeInv, Addressed, Printer!Next PROVE ModeInv'
<1> USE DEF ModeInv, Printer!conversation, Printer!Answer, Printer!Close
<1>1. CASE Printer!PrintReceipt
  BY <1>1 DEF Printer!PrintReceipt
<1>2. CASE Printer!SendCommand
  BY <1>2 DEF Addressed, Printer!HostPort, Printer!SendCommand
<1>3. CASE Printer!Socket
  BY <1>3 DEF Printer!Socket
<1>4. CASE Printer!ReadFlags
  <2>1. /\ call = "flags" /\ call' = "parse" /\ flagsRead' \in BOOLEAN /\ blocking' \in BOOLEAN
        /\ blocking' <=> ~flagsRead'
    BY <1>4, Zenon DEF Printer!ReadFlags
  <2> QED
    BY <1>4, <2>1 DEF Printer!ReadFlags
<1>5. CASE Printer!NoSuchHost
  BY <1>5 DEF Printer!NoSuchHost
<1>6. CASE Printer!ParseHost
  BY <1>6 DEF Printer!ParseHost
<1>7. CASE Printer!Connect
  <2>1. flagsRead' => waited' # 3
    BY <1>7 DEF Printer!Connect
  <2>2. call' = "restore" => connected'
    BY <1>7, Zenon DEF Printer!Connect, Printer!Established
  <2>3. connected' \in BOOLEAN
    BY <1>7, Zenon DEF Printer!Connect, Printer!Established
  <2>4. /\ call = "connect" /\ call' \in {"restore", "closeFail", "select"}
        /\ UNCHANGED <<blocking, flagsRead, delivered, answer>>
    BY <1>7 DEF Printer!Connect
  <2> QED
    BY <2>1, <2>2, <2>3, <2>4
<1>8. CASE Printer!Select
  BY <1>8 DEF Printer!Select
<1>9. CASE Printer!SocketError
  BY <1>9 DEF Printer!Established, Printer!SocketError
<1>10. CASE Printer!RestoreFlags
  BY <1>10 DEF Printer!Restored, Printer!RestoreFlags
<1>11. CASE Printer!Send
  BY <1>11 DEF Printer!Send
<1>12. CASE Printer!CloseOk
  BY <1>12 DEF Printer!CloseOk
<1>13. CASE Printer!CloseFail
  BY <1>13 DEF Printer!CloseFail
<1> QED
  BY <1>1, <1>2, <1>3, <1>4, <1>5, <1>6, <1>7, <1>8, <1>9, <1>10, <1>11, <1>12, <1>13 DEF Printer!Next, Printer!Step
----------------------------------------------------------------------------
(***************************************************************************)
(* The whole program.                                                      *)
(***************************************************************************)

\* The printer main has constructed gets an address its validator let through.
LEMMA BuiltinAddressed ==
    ASSUME StartInv, place = "running", printer = "builtin" PROVE Addressed
<1>1. Accepted /\ resolved = Wanted /\ printers[resolved.printer] = "builtin"
  BY DEF StartInv, EffectInv, Configured
<1>2. Wanted.device # "file"
  BY <1>1 DEF Accepted, ValidDevice
<1>3. Wanted.device \in Values.device \ {""}
  BY WantedTypes DEF StartInv
<1> QED
  BY <1>1, <1>2, <1>3 DEF Addressed, Printer!HostPort, Values

LEMMA ReceiptsInvNext ==
    ReceiptsInv /\ [ReceiptsNext]_<<vars, printing>> => ReceiptsInv'
<1> SUFFICES ASSUME ReceiptsInv, [ReceiptsNext]_<<vars, printing>> PROVE ReceiptsInv'
  OBVIOUS
<1>1. ASSUME UNCHANGED printing PROVE PrinterInv'
  BY <1>1 DEF printing, ReceiptsInv, PrinterInv, SocketInv, ModeInv
<1>2. CASE Start
  BY <1>1, <1>2, StartInvNext DEF Start, ReceiptsInv
<1>3. CASE RunPrinter
  <2>1. SocketInv' /\ ModeInv'
    BY <1>3, BuiltinAddressed, SocketInvNext, ModeInvNext DEF RunPrinter, ReceiptsInv, PrinterInv
  <2>2. StartInv'
    BY <1>3, StartInvNext DEF RunPrinter, ReceiptsInv
  <2> QED
    BY <2>1, <2>2 DEF ReceiptsInv, PrinterInv
<1>4. CASE UNCHANGED <<vars, printing>>
  BY <1>1, <1>4, StartInvNext DEF ReceiptsInv
<1> QED
  BY <1>2, <1>3, <1>4 DEF ReceiptsNext

LEMMA ReceiptsInvAlways == ReceiptsSpec => []ReceiptsInv
<1>1. ReceiptsInit => ReceiptsInv
  BY StartInvInit, PrinterInvInit DEF ReceiptsInit, ReceiptsInv
<1> QED
  BY <1>1, ReceiptsInvNext, PTL DEF ReceiptsSpec

\* The settings, the registries, the effects of the start and the state of a
\* print keep their types; in particular no more than one socket is ever open.
THEOREM ReceiptsTyped == ReceiptsSpec => []WellTyped
<1>1. ReceiptsInv => WellTyped
  <2> SUFFICES ASSUME ReceiptsInv PROVE TypeOK /\ Printer!TypeOK
    BY DEF WellTyped
  <2>1. sockets \in 0..1
    BY DEF ReceiptsInv, PrinterInv, SocketInv
  <2> QED
    BY <2>1 DEF ReceiptsInv, StartInv, PrinterInv, SocketInv, ModeInv, Printer!TypeOK
<1> QED
  BY <1>1, ReceiptsInvAlways, PTL

\* The command line overrides vrs.conf, a later setting an earlier one and every
\* default, however many lines and plugins there are.
THEOREM LastSettingWins == ReceiptsSpec => []CommandLineWins
<1>1. ReceiptsInv => CommandLineWins
  <2> SUFFICES ASSUME ReceiptsInv, place = "running" PROVE CommandLineWins
    BY DEF CommandLineWins
  <2>1. \A k \in Keys : LastGiven(k) = given[k]
    <3> SUFFICES ASSUME NEW k \in Keys PROVE LastGiven(k) = given[k]
      OBVIOUS
    <3> DEFINE ofKey == {i \in DOMAIN All : All[i].key = k}
               n == Len(conf) + Len(args)
    <3>1. DOMAIN All = 1..n /\ n \in Nat
      BY AllLines DEF ReceiptsInv, StartInv
    <3>2. \/ given[k] = "" /\ \A i \in 1..n : All[i].key # k
          \/ \E i \in 1..n : /\ All[i].key = k /\ All[i].val = given[k]
                             /\ \A j \in 1..n : j > i => All[j].key # k
      BY DEF ReceiptsInv, StartInv, GivenInv, Settled
    <3>3. LastGiven(k) = IF ofKey = {} THEN "" ELSE All[Max(ofKey)].val
      BY DEF LastGiven, All
    <3>4. CASE given[k] = "" /\ \A i \in 1..n : All[i].key # k
      BY <3>1, <3>3, <3>4
    <3>5. ASSUME NEW i \in 1..n, All[i].key = k, All[i].val = given[k],
                 \A j \in 1..n : j > i => All[j].key # k
          PROVE  LastGiven(k) = given[k]
      <4>1. i \in ofKey /\ \A j \in ofKey : i >= j /\ j \in Nat
        BY <3>1, <3>5
      <4>2. \A m \in ofKey : (\A j \in ofKey : m >= j) => m = i
        BY <3>1, <4>1
      <4>3. Max(ofKey) = i
        BY <4>1, <4>2 DEF Max
      <4> QED
        BY <3>3, <3>5, <4>1, <4>3
    <3> QED
      BY <3>2, <3>4, <3>5
  <2>2. /\ resolved.storage = IF given.storage = "" THEN "file" ELSE given.storage
        /\ resolved.printer = IF given.printer = "" THEN "escpos" ELSE given.printer
        /\ resolved.device = IF given.device = "" THEN "dotted" ELSE given.device
    <3>1. resolved = Wanted /\ defaultPrinter = "escpos"
      BY DEF ReceiptsInv, StartInv, EffectInv, Configured
    <3>2. /\ Wanted.storage = IF given.storage = "" THEN "file" ELSE given.storage
          /\ Wanted.printer = IF given.printer = "" THEN "escpos" ELSE given.printer
          /\ Wanted.device = IF given.device = "" THEN "dotted" ELSE given.device
      BY <3>1 DEF Wanted, Default
    <3> QED
      BY <3>1, <3>2
  <2> QED
    BY <2>1, <2>2 DEF CommandLineWins, Keys
<1> QED
  BY <1>1, ReceiptsInvAlways, PTL

\* A start that is refused, or that only shows the help, leaves neither a data
\* directory nor a seeded fleet, and the console has told why.
THEOREM RefusedStartIsClean == ReceiptsSpec => []RefusedStartLeavesNoTrace
<1>1. ReceiptsInv => RefusedStartLeavesNoTrace
  BY DEF ReceiptsInv, StartInv, EffectInv, Unresolved, RefusedStartLeavesNoTrace
<1> QED
  BY <1>1, ReceiptsInvAlways, PTL

\* Whatever the address is and however the network answers, no print leaves a
\* socket open.
THEOREM SocketsAreClosed == ReceiptsSpec => []NoSocketLeaks
<1>1. ReceiptsInv => NoSocketLeaks
  BY DEF ReceiptsInv, PrinterInv, SocketInv, NoSocketLeaks, Printer!NoSocketLeaks
<1> QED
  BY <1>1, ReceiptsInvAlways, PTL

\* A receipt that counts as printed went out on an established connection over a
\* blocking socket, because the built-in printer only ever runs with an address
\* its validator accepted; one that failed was given up after two seconds.
THEOREM PrintsAreConnected == ReceiptsSpec => []PrintedOverConnection
<1>1. ReceiptsInv => PrintedOverConnection
  <2> SUFFICES ASSUME ReceiptsInv PROVE Printer!PrintedOverConnection
    BY DEF PrintedOverConnection
  <2>1. flagsRead => waited <= 2
    BY DEF ReceiptsInv, PrinterInv, SocketInv, ModeInv
  <2> QED
    BY <2>1 DEF ReceiptsInv, PrinterInv, ModeInv, Printer!PrintedOverConnection
<1> QED
  BY <1>1, ReceiptsInvAlways, PTL
=============================================================================
