------------------------------- MODULE Config -------------------------------
(***************************************************************************)
(* spoolctl/config.py: which database a command works on.  The project     *)
(* config file is a record: what reading it gives (kind), its version and  *)
(* db_path entries and whether it has other keys.  A path is described by  *)
(* the ways it can be refused.                                             *)
(***************************************************************************)
EXTENDS Models, Sequences

PRECEDENCE == <<"flag", "environment", "project_config", "default">>

ConfigKinds ==
    {"absent", "unreadable", "not_utf8", "malformed", "not_object", "object"}

Paths == {"good", "not_a_string", "empty", "nul", "long"}

ConfigFiles ==
    [kind : ConfigKinds,
     version : {"absent", "1", "other"},
     db_path : Paths \cup {NULL},
     unknown : BOOLEAN]

\* Refusals are error codes, "ok" is none.
validate_db_path_value(path) == IF path = "good" THEN "ok" ELSE "INVALID_INPUT"

\* Mutant: a version that is not 1 is let through by the validator only.
load_config_object_AnyVersion(config) ==
    CASE config.kind = "absent" -> "ok"
      [] config.kind = "not_utf8" -> "INTERNAL"
      [] config.kind \in {"unreadable", "malformed", "not_object"} -> "INVALID_INPUT"
      [] config.kind = "object" ->
           IF config.db_path = NULL THEN "ok" ELSE validate_db_path_value(config.db_path)

\* A file that is not UTF-8 raises UnicodeDecodeError, which nobody expects.
load_config_object(config) ==
    CASE config.kind = "absent" -> "ok"
      [] config.kind = "not_utf8" -> "INTERNAL"
      [] config.kind \in {"unreadable", "malformed", "not_object"} -> "INVALID_INPUT"
      [] config.kind = "object" ->
           IF config.version = "other" THEN "INVALID_INPUT"
           ELSE IF config.db_path = NULL THEN "ok"
           ELSE validate_db_path_value(config.db_path)

unknown_keys(config) == config.kind = "object" /\ config.unknown

\* Mutant: the same, of the whole validation.
validate_config_file_AnyVersion(config) ==
    IF load_config_object_AnyVersion(config) # "ok" THEN load_config_object_AnyVersion(config)
    ELSE IF unknown_keys(config) THEN "INVALID_INPUT"
    ELSE "ok"

validate_config_file(config) ==
    IF load_config_object(config) # "ok" THEN load_config_object(config)
    ELSE IF unknown_keys(config) THEN "INVALID_INPUT"
    ELSE "ok"

\* The file is read first, so a broken one refuses even a command with --db;
\* then the first source that is given decides, valid or not.
resolve_effective_config(flag, variable, config) ==
    IF load_config_object(config) # "ok"
      THEN [code |-> load_config_object(config), source |-> "none"]
    ELSE IF flag # NULL
      THEN [code |-> validate_db_path_value(flag), source |-> "flag"]
    ELSE IF variable # NULL
      THEN [code |-> validate_db_path_value(variable), source |-> "environment"]
    ELSE [code |-> "ok",
          source |-> IF config.kind = "object" /\ config.db_path # NULL
                       THEN "project_config" ELSE "default"]
=============================================================================
