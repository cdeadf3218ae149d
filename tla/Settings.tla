-------------------------------- MODULE Settings --------------------------------
(***************************************************************************)
(* The configuration (crates/database/src/config): the keys, the file that *)
(* keeps their values, the environment that overrides them, and what       *)
(* `winbrew config` does with both.  The environment never reaches the     *)
(* file, and of the values a command runs with only paths.root takes it.   *)
(***************************************************************************)
EXTENDS Sequences, SequencesExt, FiniteSets

CONSTANTS
    Filters,       \* the texts that tracing's EnvFilter accepts
    DefaultRoot    \* %LOCALAPPDATA%\winbrew, or C:\winbrew without the variable

\* A text is a sequence of path components, trimmed, and a component a sequence
\* of tokens; the empty text is blank.
Just(token) == <<<<token>>>>
In(path, token) == Append(path, <<token>>)

Flags      == {"core"} \X {"auto_update", "confirm_remove", "default_yes", "color"}
LogFilters == {"core"} \X {"log_level", "file_log_level"}
Places     == {"paths"} \X {"root", "packages", "data", "logs", "cache"}
KEYS == Flags \union LogFilters \union Places

Yes == {Just("true"), Just("1"), Just("yes"), Just("on")}
No  == {Just("false"), Just("0"), Just("no"), Just("off")}

\* A key is typed with or without its section, in any case.
TypedKey(typed) == <<typed.section, typed.name>>
Known(typed) == ~typed.upper /\ TypedKey(typed) \in KEYS

\* The key that was meant: the one that differs in case, or the one of that name.
SuggestKey(typed) ==
    IF TypedKey(typed) \in KEYS THEN {TypedKey(typed)}
    ELSE {k \in KEYS : typed.section = "" /\ k[2] = typed.name}

\* Validators: a flag is one of eight words, a filter one that parses.
ValidateConfigValue(key, value) ==
    /\ key \in Flags => value \in Yes \union No
    /\ key \in LogFilters => value \in Filters

ParsedValue(key, value) == IF key \in Flags THEN value \in Yes ELSE value

--------------------------------------------------------------------------------

Root == Just("${root}")

DefaultCore ==
    [k \in Flags \union LogFilters |->
       IF k \in Flags THEN k[2] # "default_yes"
       ELSE Just(IF k[2] = "log_level" THEN "info" ELSE "debug,winbrew::core=trace")]

\* Templates, except for the root itself.
DefaultPaths ==
    [k \in Places |-> CASE k[2] = "root" -> DefaultRoot
                        [] k[2] \in {"packages", "data"} -> In(Root, k[2])
                        [] k[2] \in {"logs", "cache"} -> In(In(Root, "data"), k[2])]

DefaultConfig == [k \in KEYS |-> IF k \in Places THEN DefaultPaths[k] ELSE DefaultCore[k]]

\* A file is missing, does not parse, or has values for some of the keys, which a
\* blank file has for none; what it does not have is the default.
Missing   == [is |-> "missing"]
Malformed == [is |-> "malformed"]
Saved(values) == [is |-> "saved", values |-> values]

Loads(file) == file.is # "malformed"
SavedKeys(file) == IF file.is = "saved" THEN DOMAIN file.values ELSE {}
Load(file) == [k \in KEYS |-> IF k \in SavedKeys(file) THEN file.values[k] ELSE DefaultConfig[k]]

\* The variables that are set and not blank.
CaptureEnv(environment) ==
    [k \in {k \in DOMAIN environment \intersect KEYS : environment[k] # <<>>} |-> environment[k]]

\* The file is always that of the environment's root, or of the default one: not
\* of the root that the file itself names.
StorageRoot(env) == IF <<"paths", "root">> \in DOMAIN env THEN env[<<"paths", "root">>] ELSE DefaultRoot

--------------------------------------------------------------------------------

\* A value as it is shown.
EntryValue(config, key) ==
    IF key \in Flags THEN Just(IF config[key] THEN "true" ELSE "false") ELSE config[key]

EffectiveValue(config, env, key) ==
    IF key \in DOMAIN env THEN [value |-> env[key], source |-> "env"]
    ELSE [value |-> EntryValue(config, key), source |-> "file"]

\* config list: every key, with what overrides it.
EffectiveSections(config, env) == [k \in KEYS |-> EffectiveValue(config, env, k)]

Refusal(why, suggested) == [refused |-> why, suggested |-> suggested]
UnknownKey(typed) ==
    Refusal(IF typed.name = "" THEN "empty key" ELSE "unknown key", SuggestKey(typed))

\* Mutant: what is written back is the configuration that the command runs with.
SaveEffective(config, env) ==
    Saved([k \in KEYS |-> IF k \in DOMAIN env THEN ParsedValue(k, env[k]) ELSE config[k]])

\* The whole configuration is written, defaults included, whatever overrides it.
SaveDefault(config, env) == Saved(config)

\* config set: a value that is not blank, of a known key, and valid.
SetValue(config, env, typed, value) ==
    IF value = <<>> THEN Refusal("empty value", {})
    ELSE IF ~Known(typed) THEN UnknownKey(typed)
    ELSE IF ~ValidateConfigValue(TypedKey(typed), value) THEN Refusal("invalid value", {})
    ELSE SaveDefault([config EXCEPT ![TypedKey(typed)] = ParsedValue(TypedKey(typed), value)], env)

\* config unset: the default again, which for the root is that of this process.
UnsetValue(config, env, typed) ==
    IF ~Known(typed) THEN UnknownKey(typed)
    ELSE SaveDefault([config EXCEPT ![TypedKey(typed)] = DefaultConfig[TypedKey(typed)]], env)

Accepted(outcome) == "is" \in DOMAIN outcome

--------------------------------------------------------------------------------

\* What the command context takes from the configuration: the flags as they are
\* in the file.
CommandContext(config) ==
    [color   |-> config[<<"core", "color">>], default_yes |-> config[<<"core", "default_yes">>],
     confirm |-> config[<<"core", "confirm_remove">>]]

\* A prompt answers itself, and the screen has colours, as the configuration has
\* it, unless whoever builds the screen, or NO_COLOR, says otherwise.
BuiltUi(context, switches, noColor) ==
    LET With(name) == IF name \in DOMAIN switches THEN switches[name] ELSE context[name]
    IN [color |-> ~noColor /\ With("color"), default_yes |-> With("default_yes")]
================================================================================
