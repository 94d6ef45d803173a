------------------------------- MODULE Config -------------------------------
(***************************************************************************)
(* main: where the settings of a run come from.  The command line is       *)
(* parsed twice, before the .env file is loaded, to learn its path, and    *)
(* after, so that options win over it.                                     *)
(*                                                                         *)
(* A command line is its options, each a [name, value], and what follows   *)
(* them; how argv is cut into options is taken as done, as are quotes and  *)
(* blanks in a .env file, whose lines are [name, value] or Ignored.        *)
(***************************************************************************)
EXTENDS Integers, Sequences

CONSTANTS
  CommandLines,   \* [options, then]: command lines to try
  Environments,   \* environments to start in
  Disks,          \* contents of the files that may be named by --env
  Defaults,       \* AppConfig's initial values
  Number,         \* what atoi or strtoul make of each text
  Unset,          \* a variable that is not in the environment
  NoFile,         \* a file that cannot be opened
  Ignored         \* a line without "=", without a name, empty, or a comment

(* Settings that a variable of the environment can give. *)
Settings == {"scheme", "port", "baud"}
Names == Settings \cup {"env_file", "verbose", "malform_frame_count", "malform_kind"}

(* The names that route_command knows. *)
Commands == {"status", "id", "lowmode", "highmode", "off", "proof", "attestation",
             "attestation-file", "firmware", "timestamp", "bootlog", "verify", "endorse"}

Texts == DOMAIN Number

(* An option gives a name of AppConfig a text, a line of a .env file gives *)
(* one to a setting; any text can be the name of a file.                   *)
Options == [name : Names, value : Texts]
Lines == [name : Settings, value : Texts] \cup {Ignored}

ASSUME ConfigParameters ==
  /\ Number \in [Texts -> Int] /\ Unset \notin Texts
  /\ Ignored \notin Options
  /\ \A line \in CommandLines : line.options \in Seq(Options)
  /\ Environments \subseteq [Settings -> Texts \cup {Unset}]
  /\ Disks \subseteq [Texts -> Seq(Lines) \cup {NoFile}]
  /\ DOMAIN Defaults = Names /\ Defaults["env_file"] \in Texts
  /\ \A name \in {"baud", "malform_frame_count"} : Defaults[name] \in Int

VARIABLES
  argv,        \* the command line
  inherited,   \* the environment at the start of the process
  disk,        \* the files
  environ,     \* the environment
  cfg,         \* AppConfig
  at,          \* step of main
  next,        \* first_cmd_index, or the next line of the .env file
  exit         \* exit code, where main decides it

cvars == <<argv, inherited, disk, environ, cfg, at, next, exit>>

NotExited == -1

Init ==
  /\ argv \in CommandLines
  /\ inherited \in Environments /\ environ = inherited
  /\ disk \in Disks
  /\ cfg = Defaults
  /\ at = "parse"
  /\ next = 1
  /\ exit = NotExited

(* Numbers are converted where they enter the configuration. *)
Converted(name, text) ==
  IF name \in {"baud", "malform_frame_count"} THEN Number[text] ELSE text

GoesTo(step) == at' = step /\ next' = 1

Exits(code) == at' = "done" /\ exit' = code /\ UNCHANGED next

Parsing == at \in {"parse", "parseAgain"}

(* One turn of the loop of parse_options; the last of two equal options    *)
(* wins.                                                                   *)
ParsesOption ==
  /\ Parsing /\ next <= Len(argv.options)
  /\ LET o == argv.options[next] IN
     cfg' = [cfg EXCEPT ![o.name] = Converted(o.name, o.value)]
  /\ next' = next + 1
  /\ UNCHANGED <<argv, inherited, disk, environ, at, exit>>

Malformed == {"unknown option", "missing value"}

(* Mutant: a value is taken from behind the end of argv. *)
EndsParsingNoCheck ==
  /\ Parsing /\ next > Len(argv.options)
  /\ IF argv.then = "unknown option" THEN Exits(2)
     ELSE GoesTo(IF at = "parse" THEN "load" ELSE "route") /\ UNCHANGED exit
  /\ cfg' = IF argv.then = "missing value" THEN [cfg EXCEPT !["env_file"] = Unset] ELSE cfg
  /\ UNCHANGED <<argv, inherited, disk, environ>>

(* The loop ends at --help, at the first word that is no option, or at the *)
(* end; an option that is unknown or lacks its value ends the run.         *)
EndsParsing ==
  /\ Parsing /\ next > Len(argv.options)
  /\ IF argv.then \in Malformed THEN Exits(2)
     ELSE GoesTo(IF at = "parse" THEN "load" ELSE "route") /\ UNCHANGED exit
  /\ UNCHANGED <<argv, inherited, disk, environ, cfg>>

(* A file that cannot be opened is no error: the result of load_env_file   *)
(* is not looked at.                                                       *)
LinesOf(file) == IF file = NoFile THEN << >> ELSE file
EnvFile == LinesOf(disk[cfg["env_file"]])

(* load_env_file, line by line: setenv replaces what was inherited. *)
LoadsLine ==
  /\ at = "load" /\ next <= Len(EnvFile)
  /\ LET line == EnvFile[next] IN
     environ' = IF line = Ignored THEN environ
                ELSE [environ EXCEPT ![line.name] = line.value]
  /\ next' = next + 1
  /\ UNCHANGED <<argv, inherited, disk, cfg, at, exit>>

EndsLoading ==
  /\ at = "load" /\ next > Len(EnvFile)
  /\ GoesTo("override")
  /\ UNCHANGED <<argv, inherited, disk, environ, cfg, exit>>

Overridden ==
  [name \in Names |-> IF name \in Settings /\ environ[name] # Unset
                      THEN Converted(name, environ[name]) ELSE cfg[name]]

(* Mutant: the options are not parsed again. *)
OverridesLast ==
  /\ at = "override"
  /\ cfg' = Overridden
  /\ GoesTo("route")
  /\ UNCHANGED <<argv, inherited, disk, environ, exit>>

(* apply_env_overrides *)
Overrides ==
  /\ at = "override"
  /\ cfg' = Overridden
  /\ GoesTo("parseAgain")
  /\ UNCHANGED <<argv, inherited, disk, environ, exit>>

(* Help, or nothing where the command should be, prints the usage; any     *)
(* other word goes to route_command, which runs the command it names.      *)
Routes ==
  /\ at = "route"
  /\ IF argv.then \in {"help", "nothing"} THEN Exits(0)
     ELSE IF argv.then \notin Commands THEN Exits(2)
     ELSE GoesTo("command") /\ UNCHANGED exit
  /\ UNCHANGED <<argv, inherited, disk, environ, cfg>>

Next ==
  ParsesOption \/ EndsParsing \/ LoadsLine \/ EndsLoading \/ Overrides \/ Routes

Spec == Init /\ [][Next]_cvars

-----------------------------------------------------------------------------
(* Properties. *)

(* Variables keep their types; every setting is one that can be converted. *)
ConfigTypeOK ==
  /\ argv \in CommandLines /\ inherited \in Environments /\ disk \in Disks
  /\ environ \in [Settings -> Texts \cup {Unset}]
  /\ DOMAIN cfg = Names
  /\ cfg["env_file"] \in DOMAIN disk
  /\ \A name \in {"baud", "malform_frame_count"} : cfg[name] \in Int
  /\ at \in {"parse", "load", "override", "parseAgain", "route", "command", "done"}
  /\ next \in Nat \ {0}
  /\ exit \in {NotExited, 0, 2} /\ (exit # NotExited <=> at = "done")

(* What a list of [name, value] pairs says of a name: its last entry. *)
Entries(pairs, name) == {i \in DOMAIN pairs : pairs[i] # Ignored /\ pairs[i].name = name}
LastOf(pairs, name) ==
  pairs[CHOOSE i \in Entries(pairs, name) : \A j \in Entries(pairs, name) : j <= i].value

(* The .env file that the command line names, or the default one. *)
NamedFile ==
  LinesOf(disk[IF Entries(argv.options, "env_file") = {} THEN Defaults["env_file"]
               ELSE LastOf(argv.options, "env_file")])

(* When a command runs, each member of AppConfig is what README.md:65 and  *)
(* usage say: the last option that gives it, else, if it is a setting, the *)
(* last line for it in the .env file that the options name, else the       *)
(* environment the client was started in, else the default.                *)
OptionsFirst ==
  at = "command" =>
    \A name \in Names :
      cfg[name] =
        IF Entries(argv.options, name) # {} THEN Converted(name, LastOf(argv.options, name))
        ELSE IF Entries(NamedFile, name) # {} THEN Converted(name, LastOf(NamedFile, name))
        ELSE IF name \in Settings /\ inherited[name] # Unset
             THEN Converted(name, inherited[name])
        ELSE Defaults[name]
=============================================================================
