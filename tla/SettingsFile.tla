---------------------------- MODULE SettingsFile ----------------------------
(***************************************************************************)
(* The settings of the terminal program: the document config.toml, what a   *)
(* launch accepts of it, the command-line overrides laid over it, and the   *)
(* save that writes the settings back                                       *)
(* (config/manager.py, loader.py, serializer.py, models/settings.py).       *)
(*                                                                          *)
(* A value is a pair <<type, value>>, because the validators and the        *)
(* serializer look at the Python type: a bool passes where an int is asked  *)
(* for, an int where a float is, and int() and float() change it on the way *)
(* out.  Seconds are counted in tenths.  A text is a member of a small set; *)
(* "raw" and "nul" hold a control character, which the serializer does not  *)
(* escape.  Settings are kept sparse: a function of the keys that do    *)
(* not have their default.                                                  *)
(***************************************************************************)
EXTENDS Integers, Sequences, FiniteSets, Functions, TLC

CONSTANTS
    Runs,           \* the processes that use the configuration file
    Cases           \* what a behaviour starts from and its bounds: the file found, the
                    \* command lines (sparse overrides of theme, data_dir, debug), the
                    \* launches of a run, the handlers a user picks in them, the disk errors
                    \* and crashes

VARIABLES
    cfgFile,        \* config.toml
    cfgTemp,        \* the temporary file beside it, one name for every process
    proc,           \* proc[r]: one process
    failuresLeft    \* disk errors and crashes still to happen

StrV(v) == <<"str", v>>
IntV(v) == <<"int", v>>
FloatV(v) == <<"float", v>>
BoolV(v) == <<"bool", v>>

-----------------------------------------------------------------------------
(* The schema, the defaults and the validators. *)

\* Every section and the keys it accepts.
ALLOWED_SCHEMA ==
    [meta          |-> {"config_version", "onboarding_completed"},
     ui            |-> {"theme", "language"},
     notifications |-> {"enabled", "messages", "room_activity", "invites", "sound",
                        "vibration"},
     storage       |-> {"data_dir", "auto_clean_temp", "max_cache_mb"},
     diagnostics   |-> {"debug"},
     relay         |-> {"url", "connect_timeout", "handshake_timeout",
                        "heartbeat_interval", "heartbeat_timeout", "reconnect_attempts",
                        "reconnect_base_delay"},
     rooms         |-> {"room_lifetime"},
     invites       |-> {"invite_lifetime", "one_time", "default_expiry", "max_expiry",
                        "retention_hours"},
     chat          |-> {"display_name", "read_receipts", "typing_indicators", "presence",
                        "history_mode", "timestamp_format", "notification_style",
                        "message_wrapping", "cleanup_on_exit"},
     transfer      |-> {"download_dir", "max_file_size_mb", "max_concurrent",
                        "chunk_size_kb", "ack_timeout", "retry_limit",
                        "transfer_expiry", "temp_storage_limit_mb"}]

Keys == UNION Range(ALLOWED_SCHEMA)
Switches == ALLOWED_SCHEMA.notifications \cup
            {"onboarding_completed", "auto_clean_temp", "debug", "one_time", "read_receipts",
             "typing_indicators", "presence", "message_wrapping", "cleanup_on_exit"}
Texts == {"theme", "language", "data_dir", "url", "display_name", "history_mode",
          "timestamp_format", "notification_style", "download_dir"}
Seconds == {"connect_timeout", "handshake_timeout", "heartbeat_interval",
            "heartbeat_timeout", "reconnect_base_delay", "ack_timeout"}

Off == {"onboarding_completed", "sound", "vibration", "debug", "cleanup_on_exit"}

Numbers == [config_version |-> 1, max_cache_mb |-> 512, connect_timeout |-> 50,
            handshake_timeout |-> 50, heartbeat_interval |-> 100, heartbeat_timeout |-> 50,
            reconnect_attempts |-> 3, reconnect_base_delay |-> 10, room_lifetime |-> 60,
            invite_lifetime |-> 15, default_expiry |-> 900, max_expiry |-> 86400,
            retention_hours |-> 24, max_file_size_mb |-> 100, max_concurrent |-> 3,
            chunk_size_kb |-> 4, ack_timeout |-> 50, retry_limit |-> 5,
            transfer_expiry |-> 60, temp_storage_limit_mb |-> 1024]

Defaults ==
    [k \in Keys |->
        CASE k \in Switches -> BoolV(IF k \in Off THEN 0 ELSE 1)
          [] k \in Seconds -> FloatV(Numbers[k])
          [] k = "theme" -> StrV("phantom")
          [] k = "language" -> StrV("en")
          [] k = "history_mode" -> StrV("disabled")
          [] k = "timestamp_format" -> StrV("24h")
          [] k = "notification_style" -> StrV("banner")
          [] k \in {"data_dir", "url", "display_name", "download_dir"} -> StrV("")
          [] OTHER -> IntV(Numbers[k])]

Get(s, k) == IF k \in DOMAIN s THEN s[k] ELSE Defaults[k]
Put(s, k, v) == LET rest == Restrict(s, DOMAIN s \ {k})
                IN IF v = Defaults[k] THEN rest ELSE (k :> v) @@ rest

IsBool(v) == v[1] = "bool"
IsInt(v) == v[1] \in {"int", "bool"}
IsNumber(v) == v[1] \in {"int", "bool", "float"}
Among(v, choices) == v[1] = "str" /\ v[2] \in choices

RequireIntRange(v, minimum, maximum) ==
    v[1] = "int" /\ minimum <= v[2] /\ v[2] <= maximum

SUPPORTED_LANGUAGES == {"en", "de"}     \* two of the nine

MetaSettings(s) == /\ IsInt(Get(s, "config_version"))
                   /\ IsBool(Get(s, "onboarding_completed"))

UISettings(s) == /\ Get(s, "theme")[1] = "str" /\ Get(s, "theme")[2] # ""
                 /\ Among(Get(s, "language"), SUPPORTED_LANGUAGES)

NotificationSettings(s) == \A k \in ALLOWED_SCHEMA.notifications : IsBool(Get(s, k))

StorageSettings(s) == /\ Get(s, "data_dir")[1] = "str"
                      /\ IsBool(Get(s, "auto_clean_temp"))
                      /\ RequireIntRange(Get(s, "max_cache_mb"), 16, 65536)

DiagnosticsSettings(s) == IsBool(Get(s, "debug"))

RelaySettings(s) ==
    /\ Among(Get(s, "url"), {"", "ws", "wss", "ws+raw"})
    /\ \A k \in Seconds \ {"ack_timeout"} : IsNumber(Get(s, k)) /\ Get(s, k)[2] > 0
    /\ IsInt(Get(s, "reconnect_attempts")) /\ Get(s, "reconnect_attempts")[2] >= 0

RoomsSettings(s) == IsInt(Get(s, "room_lifetime")) /\ Get(s, "room_lifetime")[2] >= 0

InvitesSettings(s) ==
    /\ IsInt(Get(s, "invite_lifetime")) /\ Get(s, "invite_lifetime")[2] >= 1
    /\ IsBool(Get(s, "one_time"))
    /\ RequireIntRange(Get(s, "default_expiry"), 1, 86400)
    /\ RequireIntRange(Get(s, "max_expiry"), 60, 7 * 24 * 3600)
    /\ RequireIntRange(Get(s, "retention_hours"), 1, 30 * 24)
    /\ Get(s, "default_expiry")[2] <= Get(s, "max_expiry")[2]

ChatSettings(s) ==
    /\ Among(Get(s, "display_name"), {"", "name", "quoted", "nul"})
    /\ \A k \in ALLOWED_SCHEMA.chat \cap Switches : IsBool(Get(s, k))
    /\ Among(Get(s, "history_mode"), {"disabled", "session", "encrypted"})
    /\ Among(Get(s, "timestamp_format"), {"24h", "12h"})
    /\ Among(Get(s, "notification_style"), {"banner", "compact", "muted"})

MaxChunks == 32768      \* TRANSFER_MAX_CHUNKS_PER_FILE

TransferSettings(s) ==
    LET size == Get(s, "max_file_size_mb")
        chunk == Get(s, "chunk_size_kb")
        ack == Get(s, "ack_timeout")
    IN /\ Get(s, "download_dir")[1] = "str"
       /\ RequireIntRange(size, 1, 4096)
       /\ RequireIntRange(Get(s, "max_concurrent"), 1, 10)
       /\ RequireIntRange(chunk, 1, 4)
       /\ IsNumber(ack) /\ ~IsBool(ack) /\ 5 <= ack[2] /\ ack[2] <= 600
       /\ RequireIntRange(Get(s, "retry_limit"), 1, 20)
       /\ RequireIntRange(Get(s, "transfer_expiry"), 1, 1440)
       /\ RequireIntRange(Get(s, "temp_storage_limit_mb"), 16, 65536)
       /\ (size[2] * 1024 + chunk[2] - 1) \div chunk[2] <= MaxChunks

-----------------------------------------------------------------------------
(* Documents: what a load accepts and what a save writes. *)

Absent == [state |-> "absent", junk |-> "none", set |-> <<>>]
Half == [state |-> "half", junk |-> "none", set |-> <<>>]
Whole(s) == [state |-> "whole", junk |-> "none", set |-> s]

\* An absent version means 1; a bool or a later version is refused.
ValidateConfigVersion(v) == v[1] = "int" /\ v[2] <= 1

\* A section or a key the schema does not know, or a section that is not a table.
ValidateSections(file) ==
    /\ file.junk = "none"
    /\ ValidateConfigVersion(Get(file.set, "config_version"))

LoadConfigFile(file) == file.state = "whole"

BuildSections(s) ==
    /\ UISettings(s) /\ NotificationSettings(s) /\ StorageSettings(s)
    /\ DiagnosticsSettings(s) /\ RelaySettings(s) /\ RoomsSettings(s)
    /\ InvitesSettings(s) /\ ChatSettings(s) /\ TransferSettings(s) /\ MetaSettings(s)

Accepted(file) == LoadConfigFile(file) /\ ValidateSections(file) /\ BuildSections(file.set)

\* The flags --theme, --debug and --data-dir replace what the file says.
ApplyOverrides(s, flags) ==
    [k \in {k \in DOMAIN s \cup DOMAIN flags :
                (IF k \in DOMAIN flags THEN flags[k] ELSE s[k]) # Defaults[k]} |->
        IF k \in DOMAIN flags THEN flags[k] ELSE s[k]]

\* Backslash, quote and newline are escaped; other control characters are not, and
\* the text that holds one cannot be parsed again.
EscapeTomlString(v) == v[2] \notin {"raw", "ws+raw", "nul"}

\* A vibration switch that the serializer forgets.
SerializeSettingsForgets(s) ==
    [k \in DOMAIN s \ {"vibration"} |->
        CASE k \in Seconds -> FloatV(s[k][2])
          [] k \in Switches \cup Texts -> s[k]
          [] OTHER -> IntV(s[k][2])]

\* int() and float() around the numbers; switches and texts as they are.
SerializeSettings(s) ==
    [k \in DOMAIN s |->
        CASE k \in Seconds -> FloatV(s[k][2])
          [] k \in Switches \cup Texts -> s[k]
          [] OTHER -> IntV(s[k][2])]

Parses(s) == \A k \in DOMAIN s \cap Texts : EscapeTomlString(s[k])

\* The document a save writes; one that does not parse is as good as a torn one.
Document(s) == IF Parses(s) THEN Whole(SerializeSettings(s)) ELSE Half

PrevalidatedNot(s) == TRUE

\* The save parses its own output before it touches a file.
Prevalidated(s) == Parses(s) /\ ValidateSections(Document(s))

-----------------------------------------------------------------------------
(* One process: a launch, the save of new settings, an error, a crash. *)

At(r, where) == proc[r].at = where

\* A missing file is written from the packaged template, in place.
Load(r) ==
    /\ At(r, "launched")
    /\ IF cfgFile.state = "absent"
       THEN /\ cfgFile' = Half
            /\ proc' = [proc EXCEPT ![r].at = "creating"]
       ELSE /\ proc' = [proc EXCEPT ![r].at = "loading"]
            /\ UNCHANGED cfgFile
    /\ UNCHANGED <<cfgTemp, failuresLeft>>

WriteDefaultFile(r) ==
    /\ At(r, "creating")
    /\ cfgFile' = Whole(<<>>)
    /\ proc' = [proc EXCEPT ![r].at = "loading"]
    /\ UNCHANGED <<cfgTemp, failuresLeft>>

\* A handler asks for a save; `done` is what it does after a successful one.
Saving(p, new, done) ==
    IF Prevalidated(new) THEN [p EXCEPT !.at = "saving", !.new = new, !.done = done]
                         ELSE [p EXCEPT !.done = "refused"]

OpenTempInPlace(r) ==
    /\ At(r, "saving")
    /\ cfgFile' = Half
    /\ proc' = [proc EXCEPT ![r].at = "writing"]
    /\ UNCHANGED <<cfgTemp, failuresLeft>>

\* The temporary file is opened for writing, filled, and moved over the target.
OpenTemp(r) ==
    /\ At(r, "saving")
    /\ cfgTemp' = Half
    /\ proc' = [proc EXCEPT ![r].at = "writing"]
    /\ UNCHANGED <<cfgFile, failuresLeft>>

FillTemp(r) ==
    /\ At(r, "writing")
    /\ cfgTemp' = Document(proc[r].new)
    /\ proc' = [proc EXCEPT ![r].at = "written"]
    /\ UNCHANGED <<cfgFile, failuresLeft>>

\* Another process may have moved the temporary file away already: an OSError.
\* `applied` is the run after a successful save.
ReplaceFile(r, applied) ==
    /\ At(r, "written")
    /\ IF cfgTemp.state = "absent"
       THEN /\ proc' = [proc EXCEPT ![r].at = "up", ![r].done = "refused"]
            /\ UNCHANGED cfgFile
       ELSE /\ cfgFile' = cfgTemp
            /\ proc' = [proc EXCEPT ![r] = applied]
    /\ cfgTemp' = Absent
    /\ UNCHANGED failuresLeft

SaveFailsApplied(r) ==
    /\ proc[r].at \in {"saving", "writing", "written"} /\ failuresLeft > 0
    /\ failuresLeft' = failuresLeft - 1
    /\ cfgTemp' = Absent
    /\ proc' = [proc EXCEPT ![r].at = "up", ![r].settings = proc[r].new, ![r].done = "refused"]
    /\ UNCHANGED cfgFile

\* An OSError: the temporary file is removed and the settings stay as they were.
SaveFails(r) ==
    /\ proc[r].at \in {"saving", "writing", "written"} /\ failuresLeft > 0
    /\ failuresLeft' = failuresLeft - 1
    /\ cfgTemp' = Absent
    /\ proc' = [proc EXCEPT ![r].at = "up", ![r].done = "refused"]
    /\ UNCHANGED cfgFile
====
