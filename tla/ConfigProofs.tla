---------------------------- MODULE ConfigProofs ----------------------------
(***************************************************************************)
(* Where the settings of a command come from, for any command lines, .env  *)
(* files, environments and defaults.                                       *)
(*                                                                         *)
(* OptionsFirst speaks of the end only.  The invariant says at each step   *)
(* what the entries read so far have made of a name: the last of them that *)
(* is for the name gave the value, or none was for it and the value is     *)
(* that of the layer below.                                                *)
(***************************************************************************)
EXTENDS Config, TLAPS

(* The last entry for a name among the first n, and that there is none. *)
IsLast(pairs, n, name, i) ==
  /\ i \in Entries(pairs, name) /\ i <= n
  /\ \A j \in Entries(pairs, name) : j <= n => j <= i
NoneYet(pairs, n, name) == \A j \in Entries(pairs, name) : n < j

Given(n, name) ==
  \E i \in DOMAIN argv.options :
    /\ IsLast(argv.options, n, name, i)
    /\ cfg[name] = Converted(name, argv.options[i].value)

(* The first pass over the options starts from the defaults. *)
FirstPass(n) ==
  \A name \in Names :
    \/ NoneYet(argv.options, n, name) /\ cfg[name] = Defaults[name]
    \/ Given(n, name)

(* The environment, n lines of a file into it. *)
Loaded(file, n) ==
  \A s \in Settings :
    \/ NoneYet(file, n, s) /\ environ[s] = inherited[s]
    \/ \E i \in DOMAIN file : IsLast(file, n, s, i) /\ environ[s] = file[i].value

(* The second pass starts from what the environment overrode. *)
Below(name) ==
  IF name \in Settings /\ environ[name] # Unset THEN Converted(name, environ[name])
  ELSE Defaults[name]
SecondPass(n) ==
  \A name \in Names :
    \/ Given(n, name)
    \/ /\ NoneYet(argv.options, n, name)
       /\ Entries(argv.options, name) = {} => cfg[name] = Below(name)

AllOptions == Len(argv.options)
AllLines == NamedFile \in Seq(Lines) /\ Loaded(NamedFile, Len(NamedFile))

Layers ==
  /\ at = "parse" => next <= AllOptions + 1 /\ FirstPass(next - 1) /\ environ = inherited
  /\ at = "load" =>
       /\ FirstPass(AllOptions) /\ EnvFile = NamedFile
       /\ next <= Len(NamedFile) + 1 /\ Loaded(NamedFile, next - 1)
  /\ at = "override" => FirstPass(AllOptions) /\ AllLines
  /\ at = "parseAgain" => next <= AllOptions + 1 /\ SecondPass(next - 1) /\ AllLines
  /\ at \in {"route", "command"} => SecondPass(AllOptions) /\ AllLines

ConfigInv == ConfigTypeOK /\ Layers

-----------------------------------------------------------------------------
(* Lists of entries. *)

(* The positions of entries are numbers of the list. *)
LEMMA EntriesAreNumbers ==
  ASSUME NEW S, NEW pairs \in Seq(S), NEW name, NEW i \in Entries(pairs, name)
  PROVE  i \in 1 .. Len(pairs)
  BY DEF Entries

(* An entry that is for a name becomes its last one. *)
LEMMA EntryIsLast ==
  ASSUME NEW S, NEW pairs \in Seq(S), NEW n \in Nat, NEW name,
         n + 1 \in Entries(pairs, name)
  PROVE  IsLast(pairs, n + 1, name, n + 1)
  BY EntriesAreNumbers DEF IsLast

(* One that is not leaves the last one, or that there is none, as it was. *)
LEMMA EntryIsOther ==
  ASSUME NEW S, NEW pairs \in Seq(S), NEW n \in Nat, NEW name,
         n + 1 \notin Entries(pairs, name)
  PROVE  /\ NoneYet(pairs, n, name) => NoneYet(pairs, n + 1, name)
         /\ \A i : IsLast(pairs, n, name, i) => IsLast(pairs, n + 1, name, i)
<1>1. \A j \in Entries(pairs, name) : j \in Nat /\ j # n + 1
  BY EntriesAreNumbers
<1>2. NoneYet(pairs, n, name) => NoneYet(pairs, n + 1, name)
  BY <1>1 DEF NoneYet
<1>3. ASSUME NEW i, IsLast(pairs, n, name, i)
      PROVE  IsLast(pairs, n + 1, name, i)
  BY <1>1, <1>3 DEF IsLast
<1> QED  BY <1>2, <1>3

(* Before the first entry there is none. *)
LEMMA NoneAtFirst ==
  ASSUME NEW S, NEW pairs \in Seq(S), NEW name
  PROVE  NoneYet(pairs, 0, name)
  BY EntriesAreNumbers DEF NoneYet

(* Of the whole list, the last entry is LastOf, and none means none. *)
LEMMA LastOfAll ==
  ASSUME NEW S, NEW pairs \in Seq(S), NEW name
  PROVE  /\ NoneYet(pairs, Len(pairs), name) => Entries(pairs, name) = {}
         /\ \A i : IsLast(pairs, Len(pairs), name, i) =>
              Entries(pairs, name) # {} /\ LastOf(pairs, name) = pairs[i].value
<1>1. \A j \in Entries(pairs, name) : j \in Nat /\ j <= Len(pairs)
  BY EntriesAreNumbers
<1>2. NoneYet(pairs, Len(pairs), name) => Entries(pairs, name) = {}
  BY <1>1 DEF NoneYet
<1>3. ASSUME NEW i, IsLast(pairs, Len(pairs), name, i)
      PROVE  Entries(pairs, name) # {} /\ LastOf(pairs, name) = pairs[i].value
  <2>1. i \in Entries(pairs, name) /\ \A j \in Entries(pairs, name) : j <= i
    BY <1>1, <1>3 DEF IsLast
  <2>2. \A k \in Entries(pairs, name) :
          (\A j \in Entries(pairs, name) : j <= k) => k = i
    BY <1>1, <2>1
  <2> QED  BY <2>1, <2>2 DEF LastOf
<1> QED  BY <1>2, <1>3

-----------------------------------------------------------------------------
(* Types. *)

(* What was given at the start. *)
LEMMA Inputs ==
  ASSUME ConfigTypeOK
  PROVE  /\ argv.options \in Seq(Options)
         /\ inherited \in [Settings -> Texts \cup {Unset}]
         /\ \A name \in Texts : LinesOf(disk[name]) \in Seq(Lines)
         /\ cfg["env_file"] \in Texts /\ EnvFile \in Seq(Lines)
<1>1. disk \in [Texts -> Seq(Lines) \cup {NoFile}]
  BY ConfigParameters DEF ConfigTypeOK
<1>2. \A name \in Texts : LinesOf(disk[name]) \in Seq(Lines)
  BY <1>1 DEF LinesOf
<1>3. cfg["env_file"] \in Texts
  BY <1>1 DEF ConfigTypeOK
<1> QED  BY <1>2, <1>3, ConfigParameters DEF ConfigTypeOK, EnvFile

(* Settings and numbers are names of AppConfig. *)
LEMMA SettingsAreNames == Settings \subseteq Names /\ "env_file" \in Names \ Settings
  BY DEF Settings, Names

(* A text is converted to a number where AppConfig has one. *)
LEMMA ConvertedTypes ==
  ASSUME NEW text \in Texts
  PROVE  /\ \A name \in {"baud", "malform_frame_count"} : Converted(name, text) \in Int
         /\ Converted("env_file", text) = text
  BY ConfigParameters DEF Converted

LEMMA TypesInit == Init => ConfigTypeOK
<1> SUFFICES ASSUME Init PROVE ConfigTypeOK
  OBVIOUS
<1>1. environ \in [Settings -> Texts \cup {Unset}] /\ DOMAIN disk = Texts
  BY ConfigParameters DEF Init
<1>2. cfg["env_file"] \in DOMAIN disk /\ DOMAIN cfg = Names
  BY <1>1, ConfigParameters DEF Init
<1>3. \A name \in {"baud", "malform_frame_count"} : cfg[name] \in Int
  BY ConfigParameters DEF Init
<1>4. at = "parse" /\ next = 1 /\ exit = NotExited
  BY DEF Init
<1> QED  BY <1>1, <1>2, <1>3, <1>4 DEF ConfigTypeOK, Init, NotExited

(* An option that is parsed. *)
LEMMA OptionTypes ==
  ASSUME ConfigTypeOK, next \in 1 .. Len(argv.options)
  PROVE  argv.options[next] \in Options
  BY Inputs

LEMMA TypesStep == ConfigTypeOK /\ [Next]_cvars => ConfigTypeOK'
<1> SUFFICES ASSUME ConfigTypeOK, [Next]_cvars PROVE ConfigTypeOK'
  OBVIOUS
<1>1. CASE ParsesOption
  <2> DEFINE o == argv.options[next]
  <2>1. next \in 1 .. Len(argv.options)
    BY <1>1, Inputs DEF ParsesOption, ConfigTypeOK
  <2>2. o \in Options
    BY <2>1, OptionTypes
  <2>3. o.name \in Names /\ o.value \in Texts
    BY <2>2 DEF Options
  <2>4. cfg' = [cfg EXCEPT ![o.name] = Converted(o.name, o.value)]
    BY <1>1 DEF ParsesOption
  <2> HIDE DEF o
  <2>5. cfg'["env_file"] \in DOMAIN disk
    <3>1. DOMAIN disk = Texts
      BY ConfigParameters DEF ConfigTypeOK
    <3>2. CASE o.name = "env_file"
      BY <2>3, <2>4, <3>1, <3>2, ConvertedTypes DEF ConfigTypeOK
    <3>3. CASE o.name # "env_file"
      BY <2>3, <2>4, <3>3 DEF ConfigTypeOK
    <3> QED  BY <3>2, <3>3
  <2>6. \A name \in {"baud", "malform_frame_count"} : cfg'[name] \in Int
    <3> TAKE name \in {"baud", "malform_frame_count"}
    <3>1. CASE o.name = name
      BY <2>3, <2>4, <3>1, ConvertedTypes DEF ConfigTypeOK
    <3>2. CASE o.name # name
      BY <2>3, <2>4, <3>2 DEF ConfigTypeOK
    <3> QED  BY <3>1, <3>2
  <2>7. DOMAIN cfg' = Names
    BY <2>4 DEF ConfigTypeOK
  <2>8. /\ next' \in Nat \ {0}
        /\ UNCHANGED <<argv, inherited, disk, environ, at, exit>>
    BY <1>1 DEF ParsesOption, ConfigTypeOK
  <2> QED  BY <2>5, <2>6, <2>7, <2>8 DEF ConfigTypeOK
<1>2. CASE EndsParsing
  BY <1>2 DEF EndsParsing, ConfigTypeOK, Parsing, GoesTo, Exits, NotExited
<1>3. CASE LoadsLine
  <2>1. EnvFile[next] \in Lines
    BY <1>3, Inputs DEF LoadsLine, ConfigTypeOK
  <2>2. environ' \in [Settings -> Texts \cup {Unset}]
    BY <1>3, <2>1 DEF LoadsLine, ConfigTypeOK, Lines
  <2> QED  BY <1>3, <2>2 DEF LoadsLine, ConfigTypeOK
<1>4. CASE EndsLoading
  BY <1>4 DEF EndsLoading, ConfigTypeOK, GoesTo, NotExited
<1>5. CASE Overrides
  <2>1. cfg' = Overridden /\ environ \in [Settings -> Texts \cup {Unset}]
    BY <1>5 DEF Overrides, ConfigTypeOK
  <2>2. DOMAIN cfg' = Names
    BY <2>1 DEF Overridden
  <2>3. cfg'["env_file"] = cfg["env_file"]
    BY <2>1, SettingsAreNames DEF Overridden
  <2>4. ASSUME NEW name \in {"baud", "malform_frame_count"}
        PROVE  cfg'[name] \in Int
    <3>1. name \in Names /\ cfg[name] \in Int
      BY DEF Names, Settings, ConfigTypeOK
    <3>2. CASE name \in Settings /\ environ[name] # Unset
      <4>1. environ[name] \in Texts
        BY <2>1, <3>2
      <4>2. cfg'[name] = Converted(name, environ[name])
        BY <2>1, <3>1, <3>2 DEF Overridden
      <4> QED  BY <4>1, <4>2, ConvertedTypes
    <3>3. CASE ~(name \in Settings /\ environ[name] # Unset)
      BY <2>1, <3>1, <3>3 DEF Overridden
    <3> QED  BY <3>2, <3>3
  <2> QED
    BY <1>5, <2>2, <2>3, <2>4 DEF Overrides, ConfigTypeOK, GoesTo, NotExited
<1>6. CASE Routes
  BY <1>6 DEF Routes, ConfigTypeOK, GoesTo, Exits, NotExited
<1>7. CASE UNCHANGED cvars
  BY <1>7 DEF cvars, ConfigTypeOK
<1> QED  BY <1>1, <1>2, <1>3, <1>4, <1>5, <1>6, <1>7 DEF Next

-----------------------------------------------------------------------------
(* The layers. *)

(* Parsing one option keeps what the options so far have given; the rest   *)
(* of a name's value is as it was.                                         *)
LEMMA OptionStep ==
  ASSUME ConfigTypeOK, ParsesOption, NEW name \in Names, NEW n \in Nat, next = n + 1
  PROVE  /\ Given(n, name) => Given(n + 1, name)'
         /\ \/ Given(n + 1, name)'
            \/ /\ cfg'[name] = cfg[name]
               /\ NoneYet(argv.options, n, name) => NoneYet(argv.options, n + 1, name)
<1> DEFINE opts == argv.options
           o == opts[n + 1]
<1>1. opts \in Seq(Options) /\ n + 1 \in 1 .. Len(opts)
  BY Inputs DEF ParsesOption, ConfigTypeOK
<1>2. o \in Options
  BY <1>1
<1>3. o.name \in Names /\ o # Ignored
  BY <1>2, ConfigParameters DEF Options
<1>4. /\ cfg' = [cfg EXCEPT ![o.name] = Converted(o.name, o.value)]
      /\ argv' = argv /\ DOMAIN cfg = Names
  BY DEF ParsesOption, ConfigTypeOK
<1>5. n + 1 \in Entries(opts, name) <=> o.name = name
  BY <1>1, <1>3 DEF Entries
<1> HIDE DEF opts, o
<1>6. CASE o.name = name
  <2>1. IsLast(opts, n + 1, name, n + 1)
    BY <1>1, <1>5, <1>6, EntryIsLast
  <2>2. cfg'[name] = Converted(name, o.value) /\ n + 1 \in DOMAIN opts
    BY <1>1, <1>4, <1>6
  <2>3. Given(n + 1, name)'
    <3>1. \E i \in DOMAIN opts :
            IsLast(opts, n + 1, name, i) /\ cfg'[name] = Converted(name, opts[i].value)
      BY <2>1, <2>2 DEF o
    <3> QED  BY <3>1, <1>4 DEF Given, opts, Converted, IsLast, Entries
  <2> QED  BY <2>3
<1>7. CASE o.name # name
  <2>1. cfg'[name] = cfg[name]
    BY <1>4, <1>7
  <2>2. /\ NoneYet(opts, n, name) => NoneYet(opts, n + 1, name)
        /\ \A i : IsLast(opts, n, name, i) => IsLast(opts, n + 1, name, i)
    BY <1>1, <1>5, <1>7, EntryIsOther
  <2>3. ASSUME Given(n, name) PROVE Given(n + 1, name)'
    <3>1. \E i \in DOMAIN opts :
            IsLast(opts, n + 1, name, i) /\ cfg'[name] = Converted(name, opts[i].value)
      BY <2>1, <2>2, <2>3 DEF Given, opts
    <3> QED  BY <3>1, <1>4 DEF Given, opts, Converted, IsLast, Entries
  <2> QED  BY <2>1, <2>2, <2>3 DEF opts
<1> QED  BY <1>6, <1>7

(* Once all the options are read, the file to load is the named one. *)
LEMMA NamedIsEnvFile ==
  ASSUME ConfigTypeOK, FirstPass(AllOptions)
  PROVE  EnvFile = NamedFile
<1> DEFINE opts == argv.options
<1>1. opts \in Seq(Options) /\ "env_file" \in Names
  BY Inputs, SettingsAreNames
<1>2. CASE NoneYet(opts, Len(opts), "env_file") /\ cfg["env_file"] = Defaults["env_file"]
  <2>1. Entries(opts, "env_file") = {}
    BY <1>1, <1>2, LastOfAll
  <2> QED  BY <1>2, <2>1 DEF EnvFile, NamedFile
<1>3. CASE Given(Len(opts), "env_file")
  <2>1. PICK i \in DOMAIN opts :
          /\ IsLast(opts, Len(opts), "env_file", i)
          /\ cfg["env_file"] = Converted("env_file", opts[i].value)
    BY <1>3 DEF Given
  <2>2. cfg["env_file"] = opts[i].value
    BY <2>1 DEF Converted
  <2>3. Entries(opts, "env_file") # {} /\ LastOf(opts, "env_file") = opts[i].value
    BY <1>1, <2>1, LastOfAll
  <2> QED  BY <2>2, <2>3 DEF EnvFile, NamedFile
<1> QED  BY <1>1, <1>2, <1>3 DEF FirstPass, AllOptions

(* What a file said stays as it was. *)
LEMMA NamedStays ==
  ASSUME argv' = argv, disk' = disk
  PROVE  NamedFile' = NamedFile
  BY DEF NamedFile

(* Loading one line. *)
LEMMA LineStep ==
  ASSUME ConfigTypeOK, LoadsLine, EnvFile = NamedFile,
         NEW n \in Nat, next = n + 1, Loaded(NamedFile, n)
  PROVE  Loaded(NamedFile, n + 1)'
<1> DEFINE file == NamedFile
           line == file[n + 1]
<1>1. file \in Seq(Lines) /\ n + 1 \in 1 .. Len(file)
  BY Inputs DEF LoadsLine, ConfigTypeOK
<1>2. line \in Lines
  BY <1>1
<1>3. /\ environ' = IF line = Ignored THEN environ
                    ELSE [environ EXCEPT ![line.name] = line.value]
      /\ DOMAIN environ = Settings /\ argv' = argv /\ disk' = disk /\ inherited' = inherited
  BY DEF LoadsLine, ConfigTypeOK
<1>4. file' = file
  BY <1>3, NamedStays
<1> SUFFICES ASSUME NEW s \in Settings
             PROVE  \/ NoneYet(file, n + 1, s) /\ environ'[s] = inherited[s]
                    \/ \E i \in DOMAIN file : IsLast(file, n + 1, s, i) /\ environ'[s] = file[i].value
  BY <1>3, <1>4 DEF Loaded
<1>5. n + 1 \in Entries(file, s) <=> line # Ignored /\ line.name = s
  BY <1>1 DEF Entries
<1>6. \/ NoneYet(file, n, s) /\ environ[s] = inherited[s]
      \/ \E i \in DOMAIN file : IsLast(file, n, s, i) /\ environ[s] = file[i].value
  BY DEF Loaded
<1> HIDE DEF file, line
<1>7. CASE line # Ignored /\ line.name = s
  <2>1. IsLast(file, n + 1, s, n + 1)
    BY <1>1, <1>5, <1>7, EntryIsLast
  <2>2. environ'[s] = file[n + 1].value /\ n + 1 \in DOMAIN file
    BY <1>1, <1>3, <1>7 DEF line
  <2> QED  BY <2>1, <2>2
<1>8. CASE ~(line # Ignored /\ line.name = s)
  <2>1. environ'[s] = environ[s]
    BY <1>3, <1>8
  <2>2. /\ NoneYet(file, n, s) => NoneYet(file, n + 1, s)
        /\ \A i : IsLast(file, n, s, i) => IsLast(file, n + 1, s, i)
    BY <1>1, <1>5, <1>8, EntryIsOther
  <2> QED  BY <1>6, <2>1, <2>2
<1> QED  BY <1>7, <1>8

(* Nothing changes what a file that is loaded said. *)
LEMMA LoadedStays ==
  ASSUME UNCHANGED <<argv, inherited, disk, environ>>
  PROVE  AllLines => AllLines'
  BY NamedStays DEF AllLines, Loaded

LEMMA LayersInit == Init => Layers
<1> SUFFICES ASSUME Init PROVE Layers
  OBVIOUS
<1>1. at = "parse" /\ next = 1 /\ cfg = Defaults /\ environ = inherited
  BY DEF Init
<1>2. argv.options \in Seq(Options)
  BY Inputs, TypesInit
<1>3. FirstPass(0)
  BY <1>1, <1>2, NoneAtFirst DEF FirstPass
<1>4. next <= AllOptions + 1 /\ next - 1 = 0
  BY <1>1, <1>2 DEF AllOptions
<1> QED  BY <1>1, <1>3, <1>4 DEF Layers

(* The first pass goes on. *)
LEMMA FirstPassStep ==
  ASSUME ConfigTypeOK, ParsesOption, NEW n \in Nat, next = n + 1, FirstPass(n)
  PROVE  FirstPass(n + 1)'
<1> SUFFICES ASSUME NEW name \in Names
             PROVE  \/ NoneYet(argv.options, n + 1, name)' /\ cfg'[name] = Defaults[name]
                    \/ Given(n + 1, name)'
  BY DEF FirstPass
<1>1. \/ NoneYet(argv.options, n, name) /\ cfg[name] = Defaults[name]
      \/ Given(n, name)
  BY DEF FirstPass
<1>2. argv' = argv
  BY DEF ParsesOption
<1>3. NoneYet(argv.options, n + 1, name) => NoneYet(argv.options, n + 1, name)'
  BY <1>2 DEF NoneYet
<1> QED  BY <1>1, <1>3, OptionStep

(* So does the second, over an environment that stays. *)
LEMMA SecondPassStep ==
  ASSUME ConfigTypeOK, ParsesOption, NEW n \in Nat, next = n + 1, SecondPass(n)
  PROVE  SecondPass(n + 1)'
<1>1. argv' = argv /\ environ' = environ
  BY DEF ParsesOption
<1> SUFFICES ASSUME NEW s \in Names,
                    ~Given(n + 1, s)'
             PROVE  /\ NoneYet(argv.options, n + 1, s)'
                    /\ Entries(argv'.options, s) = {} => cfg'[s] = Below(s)'
  BY DEF SecondPass
<1>2. ~Given(n, s) /\ cfg'[s] = cfg[s]
      /\ (NoneYet(argv.options, n, s) => NoneYet(argv.options, n + 1, s))
  BY OptionStep
<1>3. /\ NoneYet(argv.options, n, s)
      /\ Entries(argv.options, s) = {} => cfg[s] = Below(s)
  BY <1>2 DEF SecondPass
<1>4. NoneYet(argv.options, n + 1, s) => NoneYet(argv.options, n + 1, s)'
  BY <1>1 DEF NoneYet
<1>5. Below(s)' = Below(s)
  BY <1>1 DEF Below
<1> QED  BY <1>1, <1>2, <1>3, <1>4, <1>5

(* A pass that is over says the same while options and values stay. *)
LEMMA PassesStay ==
  ASSUME UNCHANGED <<argv, cfg, environ>>
  PROVE  /\ FirstPass(AllOptions) => FirstPass(AllOptions)'
         /\ SecondPass(AllOptions) => SecondPass(AllOptions)'
  BY DEF FirstPass, SecondPass, Below, Given, AllOptions, NoneYet

(* What the environment overrides is the layer below the options. *)
LEMMA OverridesStep ==
  ASSUME ConfigTypeOK, Overrides, FirstPass(AllOptions)
  PROVE  SecondPass(0)'
<1>1. argv' = argv /\ environ' = environ /\ cfg' = Overridden
  BY DEF Overrides
<1>2. argv.options \in Seq(Options)
  BY Inputs
<1> SUFFICES ASSUME NEW s \in Names
             PROVE  /\ NoneYet(argv.options, 0, s)'
                    /\ Entries(argv'.options, s) = {} => cfg'[s] = Below(s)'
  BY DEF SecondPass
<1>3. NoneYet(argv.options, 0, s)'
  BY <1>1, <1>2, NoneAtFirst DEF NoneYet
<1>4. cfg'[s] = IF s \in Settings /\ environ[s] # Unset THEN Converted(s, environ[s]) ELSE cfg[s]
  BY <1>1 DEF Overridden
<1>5. ASSUME Entries(argv.options, s) = {} PROVE cfg[s] = Defaults[s]
  <2>1. ~Given(AllOptions, s)
    BY <1>2, <1>5, LastOfAll DEF Given, AllOptions
  <2> QED  BY <2>1 DEF FirstPass
<1>6. Below(s)' = Below(s)
  BY <1>1 DEF Below
<1> QED  BY <1>1, <1>3, <1>4, <1>5, <1>6 DEF Below

LEMMA LayersStep == ConfigInv /\ [Next]_cvars => Layers'
<1> SUFFICES ASSUME ConfigTypeOK, Layers, [Next]_cvars PROVE Layers'
  BY DEF ConfigInv
<1>1. argv.options \in Seq(Options) /\ EnvFile \in Seq(Lines) /\ next \in Nat \ {0}
  BY Inputs DEF ConfigTypeOK
<1>2. AllOptions \in Nat
  BY <1>1 DEF AllOptions
<1>3. CASE ParsesOption
  <2>1. PICK n \in Nat : next = n + 1
    BY <1>1
  <2>2. /\ next' = n + 2 /\ n + 1 <= AllOptions
        /\ UNCHANGED <<argv, inherited, disk, environ, at>> /\ Parsing
    BY <1>3, <2>1 DEF ParsesOption, AllOptions
  <2>3. next - 1 = n /\ next' - 1 = n + 1 /\ next' <= AllOptions + 1
    BY <2>1, <2>2, <1>2
  <2>4. AllOptions' = AllOptions
    BY <2>2 DEF AllOptions
  <2>5. CASE at = "parse"
    <3>1. FirstPass(n) /\ environ' = inherited'
      BY <2>2, <2>3, <2>5 DEF Layers
    <3>2. FirstPass(n + 1)'
      BY <3>1, <1>3, <2>1, FirstPassStep
    <3> QED  BY <3>1, <3>2, <2>2, <2>3, <2>4, <2>5 DEF Layers
  <2>6. CASE at = "parseAgain"
    <3>1. SecondPass(n) /\ AllLines
      BY <2>2, <2>3, <2>6 DEF Layers
    <3>2. SecondPass(n + 1)' /\ AllLines'
      BY <3>1, <1>3, <2>1, <2>2, SecondPassStep, LoadedStays
    <3> QED  BY <3>2, <2>2, <2>3, <2>4, <2>6 DEF Layers
  <2> QED  BY <2>2, <2>5, <2>6 DEF Parsing
<1>4. CASE EndsParsing
  <2>1. UNCHANGED <<argv, inherited, disk, environ, cfg>> /\ Parsing /\ next > AllOptions
    BY <1>4 DEF EndsParsing, AllOptions
  <2>2. next <= AllOptions + 1 => next - 1 = AllOptions
    BY <1>1, <1>2, <2>1
  <2>3. CASE at = "parse"
    <3>1. FirstPass(AllOptions) /\ environ = inherited
      BY <2>2, <2>3 DEF Layers
    <3>2. FirstPass(AllOptions)' /\ EnvFile = NamedFile
      BY <3>1, <2>1, PassesStay, NamedIsEnvFile
    <3>3. NamedFile' = NamedFile /\ EnvFile' = EnvFile
      BY <2>1, NamedStays DEF EnvFile
    <3>4. Loaded(NamedFile, 0)'
      BY <3>1, <3>2, <3>3, <1>1, <2>1, NoneAtFirst DEF Loaded
    <3>5. at' = "done" \/ (at' = "load" /\ next' = 1)
      BY <1>4, <2>3 DEF EndsParsing, Exits, GoesTo
    <3>6. next' = 1 => next' - 1 = 0 /\ next' <= Len(NamedFile') + 1
      BY <3>2, <3>3, <1>1
    <3> QED  BY <3>2, <3>3, <3>4, <3>5, <3>6 DEF Layers
  <2>4. CASE at = "parseAgain"
    <3>1. SecondPass(AllOptions)' /\ AllLines'
      BY <2>1, <2>2, <2>4, PassesStay, LoadedStays DEF Layers
    <3>2. at' \in {"done", "route"}
      BY <1>4, <2>4 DEF EndsParsing, Exits, GoesTo
    <3> QED  BY <3>1, <3>2 DEF Layers
  <2> QED  BY <2>1, <2>3, <2>4 DEF Parsing
<1>5. CASE LoadsLine
  <2>1. PICK n \in Nat : next = n + 1
    BY <1>1
  <2>2. /\ at = "load" /\ next' = n + 2 /\ next <= Len(EnvFile)
        /\ UNCHANGED <<argv, inherited, disk, cfg, at>>
    BY <1>5, <2>1 DEF LoadsLine
  <2>3. next - 1 = n /\ next' - 1 = n + 1 /\ next' <= Len(EnvFile) + 1
    BY <2>1, <2>2, <1>1
  <2>4. FirstPass(AllOptions) /\ EnvFile = NamedFile /\ Loaded(NamedFile, n)
    BY <2>2, <2>3 DEF Layers
  <2>5. Loaded(NamedFile, n + 1)'
    BY <2>1, <2>4, <1>5, LineStep
  <2>6. FirstPass(AllOptions)'
    BY <2>2, <2>4 DEF FirstPass, Given, AllOptions, NoneYet
  <2>7. NamedFile' = NamedFile /\ EnvFile' = EnvFile
    BY <2>2, NamedStays DEF EnvFile
  <2> QED  BY <2>2, <2>3, <2>4, <2>5, <2>6, <2>7 DEF Layers
<1>6. CASE EndsLoading
  <2>1. /\ at = "load" /\ at' = "override" /\ next > Len(EnvFile)
        /\ UNCHANGED <<argv, inherited, disk, environ, cfg>>
    BY <1>6 DEF EndsLoading, GoesTo
  <2>2. FirstPass(AllOptions) /\ EnvFile = NamedFile
    BY <2>1 DEF Layers
  <2>3. next - 1 = Len(NamedFile)
    BY <2>1, <2>2, <1>1 DEF Layers
  <2>4. AllLines
    BY <1>1, <2>1, <2>2, <2>3 DEF Layers, AllLines
  <2> QED  BY <2>1, <2>2, <2>4, PassesStay, LoadedStays DEF Layers
<1>7. CASE Overrides
  <2>1. /\ at = "override" /\ at' = "parseAgain" /\ next' = 1
        /\ UNCHANGED <<argv, inherited, disk, environ>>
    BY <1>7 DEF Overrides, GoesTo
  <2>2. SecondPass(0)' /\ AllLines'
    BY <1>7, <2>1, OverridesStep, LoadedStays DEF Layers
  <2>3. next' - 1 = 0 /\ next' <= AllOptions' + 1
    BY <2>1, <1>2 DEF AllOptions
  <2> QED  BY <2>1, <2>2, <2>3 DEF Layers
<1>8. CASE Routes
  <2>1. at = "route" /\ at' \in {"done", "command"}
        /\ UNCHANGED <<argv, inherited, disk, environ, cfg>>
    BY <1>8 DEF Routes, Exits, GoesTo
  <2> QED  BY <2>1, PassesStay, LoadedStays DEF Layers
<1>9. CASE UNCHANGED cvars
  <2>1. UNCHANGED <<argv, inherited, disk, environ, cfg, at, next>>
    BY <1>9 DEF cvars
  <2>2. EnvFile' = EnvFile /\ NamedFile' = NamedFile /\ AllOptions' = AllOptions
    BY <2>1, NamedStays DEF EnvFile, AllOptions
  <2>3. /\ FirstPass(next - 1) => FirstPass(next - 1)'
        /\ SecondPass(next - 1) => SecondPass(next - 1)'
        /\ Loaded(NamedFile, next - 1) => Loaded(NamedFile, next - 1)'
    BY <2>1, <2>2 DEF FirstPass, SecondPass, Below, Given, NoneYet, Loaded
  <2> QED  BY <2>1, <2>2, <2>3, PassesStay, LoadedStays DEF Layers
<1> QED
  BY <1>3, <1>4, <1>5, <1>6, <1>7, <1>8, <1>9 DEF Next

-----------------------------------------------------------------------------
(* Theorems. *)

(* What the options and lines read so far have given, at every step.       *)
THEOREM ConfigInvariant == Spec => []ConfigInv
<1>1. Init => ConfigInv
  BY TypesInit, LayersInit DEF ConfigInv
<1>2. ConfigInv /\ [Next]_cvars => ConfigInv'
  BY TypesStep, LayersStep DEF ConfigInv
<1> QED  BY <1>1, <1>2, PTL DEF Spec

(* Settings keep the types AppConfig gives them. *)
THEOREM ConfigTypeCorrect == Spec => []ConfigTypeOK
<1>1. ConfigInv => ConfigTypeOK
  BY DEF ConfigInv
<1> QED  BY <1>1, ConfigInvariant, PTL

LEMMA LayersGiveOptionsFirst == ConfigInv => OptionsFirst
<1> SUFFICES ASSUME ConfigTypeOK, Layers, at = "command", NEW s \in Names
             PROVE  cfg[s] =
                      IF Entries(argv.options, s) # {} THEN Converted(s, LastOf(argv.options, s))
                      ELSE IF Entries(NamedFile, s) # {} THEN Converted(s, LastOf(NamedFile, s))
                      ELSE IF s \in Settings /\ inherited[s] # Unset
                           THEN Converted(s, inherited[s])
                      ELSE Defaults[s]
  BY DEF ConfigInv, OptionsFirst
<1> DEFINE opts == argv.options
           file == NamedFile
<1>1. opts \in Seq(Options) /\ SecondPass(Len(opts))
  BY Inputs DEF Layers, AllOptions
<1>2. file \in Seq(Lines) /\ Loaded(file, Len(file))
  BY DEF Layers, AllLines
<1>3. CASE Given(Len(opts), s)
  <2>1. PICK i \in DOMAIN opts : /\ IsLast(opts, Len(opts), s, i)
                                 /\ cfg[s] = Converted(s, opts[i].value)
    BY <1>3 DEF Given
  <2>2. Entries(opts, s) # {} /\ LastOf(opts, s) = opts[i].value
    BY <1>1, <2>1, LastOfAll
  <2> QED  BY <2>1, <2>2
<1>4. CASE ~Given(Len(opts), s)
  <2>1. NoneYet(opts, Len(opts), s)
    BY <1>1, <1>4 DEF SecondPass
  <2>2. Entries(opts, s) = {}
    BY <1>1, <2>1, LastOfAll
  <2>3. cfg[s] = Below(s)
    BY <1>1, <1>4, <2>2 DEF SecondPass
  <2>4. CASE s \in Settings /\ NoneYet(file, Len(file), s) /\ environ[s] = inherited[s]
    <3>1. Entries(file, s) = {}
      BY <1>2, <2>4, LastOfAll
    <3> QED  BY <2>2, <2>3, <2>4, <3>1 DEF Below
  <2>5. CASE s \notin Settings
    <3>1. \A i \in DOMAIN file : file[i] \in Lines
      BY <1>2
    <3>2. Entries(file, s) = {}
      BY <2>5, <3>1 DEF Entries, Lines
    <3> QED  BY <2>2, <2>3, <2>5, <3>2 DEF Below
  <2>6. CASE s \in Settings /\ \E i \in DOMAIN file : IsLast(file, Len(file), s, i) /\ environ[s] = file[i].value
    <3>1. PICK i \in DOMAIN file : IsLast(file, Len(file), s, i) /\ environ[s] = file[i].value
      BY <2>6
    <3>2. Entries(file, s) # {} /\ LastOf(file, s) = file[i].value
      BY <1>2, <3>1, LastOfAll
    <3>3. file[i] \in Lines /\ file[i] # Ignored
      BY <1>2, <3>1 DEF IsLast, Entries
    <3>4. environ[s] # Unset
      BY <3>1, <3>3, ConfigParameters DEF Lines
    <3> HIDE DEF opts, file
    <3>5. cfg[s] = Converted(s, LastOf(file, s))
      BY <2>3, <2>6, <3>1, <3>2, <3>4 DEF Below
    <3> QED  BY <2>2, <3>2, <3>5 DEF opts, file
  <2> QED  BY <1>2, <2>4, <2>5, <2>6 DEF Loaded
<1> QED  BY <1>3, <1>4

(* When a command runs, each member of AppConfig is the last option that   *)
(* gives it, else, if it is a setting, the last line for it in the .env    *)
(* file that the options name, else what the environment held, else the    *)
(* default.                                                                *)
THEOREM OptionsComeFirst == Spec => []OptionsFirst
<1> QED  BY LayersGiveOptionsFirst, ConfigInvariant, PTL

=============================================================================
