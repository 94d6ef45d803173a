------------------------------ MODULE MCConfig ------------------------------
(* Up to two options that give a setting twice, name another .env file, or *)
(* both; files that say something, something else twice, or nothing.       *)
EXTENDS Config, SequencesExt

Option(name, value) == [name |-> name, value |-> value]

MCOptions ==
  {Option("port", "a"), Option("port", "b"), Option("baud", "9600"), Option("baud", "fast"),
   Option("env_file", "other"), Option("verbose", "yes"),
   Option("malform_frame_count", "9600")}

MCCommandLines ==
  [options : SeqOf(MCOptions, 2),
   then : {"status", "frobnicate", "help", "nothing", "unknown option", "missing value"}]

Nowhere == [s \in Settings |-> Unset]

MCEnvironments == {Nowhere, [Nowhere EXCEPT !["port"] = "c", !["baud"] = "9600"]}

MCFiles == {NoFile, << >>, <<Option("port", "d"), Ignored, Option("port", "e")>>}

MCTexts == {"a", "b", "c", "d", "e", "9600", "fast", "yes", ".env", "other"}

(* No file has another name. *)
MCDisks ==
  {[name \in MCTexts |-> IF name \in DOMAIN files THEN files[name] ELSE NoFile] :
    files \in [{".env", "other"} -> MCFiles]}

(* The values of AppConfig; a stands for /dev/ttyUSB0. *)
MCDefaults ==
  [port |-> "a", baud |-> 115200, scheme |-> "v1.0.0_0", env_file |-> ".env",
   verbose |-> "no", malform_frame_count |-> 0, malform_kind |-> "crc_payload"]

MCNumber == [text \in MCTexts |-> IF text = "9600" THEN 9600 ELSE 0]
=============================================================================
