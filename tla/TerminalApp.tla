----------------------------- MODULE TerminalApp -----------------------------
(***************************************************************************)
(* The terminal program: launch, the screens and their menus, the settings  *)
(* centre, the local identity, and the way out (core/bootstrap.py,          *)
(* core/application.py, ui/screens, ui/menu.py, ui/components/dialogs.py,   *)
(* identity/lifecycle.py).                                                  *)
(*                                                                          *)
(* A run is a stack of frames.  A frame is a menu, or the handler of a menu *)
(* row; every handler asks its questions, changes what it changes and pops  *)
(* itself.  Once standard input is closed every question gets the answer    *)
(* the code falls back to.  The live chat and the relay probe are frames    *)
(* that return.                                                             *)
(***************************************************************************)
EXTENDS SettingsFile

VARIABLES
    case,           \* the member of Cases this behaviour is
    ident,          \* ident[d]: the identity kept under data directory d, or NoIdentity
    keysMade,       \* keysMade[d]: key pairs generated for d
    confirmed,      \* confirmed[d]: rotations the user said yes to
    orphans         \* where temporary files of interrupted transfers lie

tavars == <<case, cfgFile, cfgTemp, proc, failuresLeft, ident, keysMade, confirmed, orphans>>

None == "none"
NoIdentity == [key |-> 0, nick |-> ""]
Dirs == {"default", "dir1", "dir2", "raw"}
Themes == {"phantom", "noir"}

Off_ == [at |-> "off", flags |-> <<>>, settings |-> <<>>, new |-> <<>>, key |-> "", done |-> "",
         stack |-> <<>>, arg |-> "", stdin |-> TRUE, theme |-> "", lang |-> "", toasts |-> 0,
         dir |-> "", logs |-> 0, rows |-> 0, launches |-> 0, cleaned |-> FALSE]

TerminalInit ==
    /\ case \in Cases
    /\ cfgFile = case.file /\ cfgTemp = Absent /\ failuresLeft = case.failures
    /\ proc = [r \in Runs |-> [Off_ EXCEPT !.rows = case.picks]]
    /\ ident = [d \in Dirs |-> NoIdentity]
    /\ keysMade = [d \in Dirs |-> 0] /\ confirmed = [d \in Dirs |-> 0]
    /\ orphans = {"state/transfers"}        \* TransferStorage keeps them there

files == <<case, cfgFile, cfgTemp, failuresLeft>>
keys == <<ident, keysMade, confirmed>>

-----------------------------------------------------------------------------
(* Launch and exit. *)

\* The data directory: the flag, then the configured value, then the platform's.
DataDir(s) == IF Get(s, "data_dir")[2] = "" THEN "default" ELSE Get(s, "data_dir")[2]

Gone(p) == [Off_ EXCEPT !.launches = p.launches, !.rows = p.rows]

Start(r) ==
    /\ At(r, "off") /\ proc[r].launches < case.launches
    /\ \E flags \in case.flags :
          proc' = [proc EXCEPT ![r] = [Gone(@) EXCEPT !.at = "launched", !.flags = flags,
                                                     !.launches = proc[r].launches + 1]]
    /\ UNCHANGED <<files, keys, orphans>>

\* Load, directories, logging, theme, notification centre and screen context.  A file
\* the loader refuses, an unknown theme or an unusable directory ends the launch.
BuildApplication(r) ==
    /\ At(r, "loading")
    /\ LET s == ApplyOverrides(cfgFile.set, proc[r].flags)
       IN proc' = IF Accepted(cfgFile) /\ Get(s, "theme")[2] \in Themes /\ DataDir(s) \in Dirs
                  THEN [proc EXCEPT ![r] = [@ EXCEPT
                            !.at = "up", !.settings = s, !.stack = <<"home">>,
                            !.theme = Get(s, "theme")[2], !.lang = "en",
                            !.toasts = Get(s, "enabled")[2], !.dir = DataDir(s),
                            !.logs = Get(s, "debug")[2]]]
                  ELSE [proc EXCEPT ![r] = Gone(@)]
    /\ UNCHANGED <<files, keys, orphans>>

\* Ctrl+C: the session is closed and the program leaves.
Interrupt(r) ==
    /\ At(r, "up")
    /\ proc' = [proc EXCEPT ![r] = Gone(@)]
    /\ UNCHANGED <<files, keys, orphans>>

Crash(r) ==
    /\ proc[r].at # "off" /\ failuresLeft > 0
    /\ failuresLeft' = failuresLeft - 1
    /\ proc' = [proc EXCEPT ![r] = Gone(@)]
    /\ UNCHANGED <<case, cfgFile, cfgTemp, keys, orphans>>

CloseStdin(r) ==
    /\ At(r, "up") /\ proc[r].stdin
    /\ proc' = [proc EXCEPT ![r].stdin = FALSE]
    /\ UNCHANGED <<files, keys, orphans>>

-----------------------------------------------------------------------------
(* The menus. *)

HomeRows == {"create_room", "join_room", "rooms", "transfers", "identity", "security",
             "settings", "storage", "help", "about"}
SettingsRows == {"appearance", "privacy", "notifications", "network", "storage_settings",
                 "developer"}
AppearanceRows == {"select_theme", "select_language"}
PrivacyRows == {"read_receipts", "typing_indicators", "presence", "select_history",
                "cleanup_on_exit", "edit_display_name", "identity_menu"}
IdentityMenuRows == {"view_fingerprint", "rotate"}
NotificationsRows == {"enabled", "messages", "room_activity", "invites", "sound", "vibration",
                      "select_style"}
NetworkRows == {"configure_relay", "test_connectivity", "clear_relay"}
StorageSettingsRows == {"configure_data_dir", "storage", "reset_data_dir"}
DeveloperRows == {"debug", "system_info"}
TransfersRows == {"download_dir", "max_size"}
IdentityRows == {"change_nickname", "view_card", "rotate", "clear_nickname"}
RoomsRows == {"create_with_qr", "view_qr"}
StorageRows == {"clean_temp", "clean_logs"}
SecurityRows == {"audit"}
InviteRows == {"copy"}

Menus == [home |-> HomeRows, settings |-> SettingsRows, appearance |-> AppearanceRows,
          privacy |-> PrivacyRows, identity_menu |-> IdentityMenuRows,
          notifications |-> NotificationsRows, network |-> NetworkRows,
          storage_settings |-> StorageSettingsRows, developer |-> DeveloperRows,
          transfers |-> TransfersRows, identity |-> IdentityRows, rooms |-> RoomsRows,
          storage |-> StorageRows, security |-> SecurityRows, invite_screen |-> InviteRows]

Top(r, frame) == At(r, "up") /\ proc[r].done = "" /\ proc[r].stack # <<>>
                 /\ Head(proc[r].stack) = frame
Push(p, frame) == [p EXCEPT !.stack = <<frame>> \o @]
Pop(p) == [p EXCEPT !.stack = Tail(@)]
Swap(p, frame) == Push(Pop(p), frame)

PromptAgain(r, rows, default) == IF proc[r].stdin THEN rows \cup {default} ELSE {"again"}

\* InteractiveMenu.prompt: a row, or the default on q, on dismissal and at end of input.
Prompt(r, rows, default) == IF proc[r].stdin THEN rows \cup {default} ELSE {default}

\* prompt_text: the text, or None on q, cancel and at end of input.
PromptText(r, texts) == Prompt(r, texts, None)

ConfirmYes(r, default) == IF proc[r].stdin THEN BOOLEAN ELSE {TRUE}

\* confirm: yes or no, and the default at end of input.
Confirm(r, default) == IF proc[r].stdin THEN BOOLEAN ELSE {default}

SetLanguage(p) == [p EXCEPT !.lang = Get(p.settings, "language")[2]]

\* IdentityManager.ensure.
Ensured(i, d) == IF i[d] = NoIdentity THEN [i EXCEPT ![d] = [key |-> keysMade[d] + 1, nick |-> ""]]
                 ELSE i
EnsureIdentity(d) ==
    /\ ident' = Ensured(ident, d)
    /\ keysMade' = IF ident[d] = NoIdentity THEN [keysMade EXCEPT ![d] = @ + 1] ELSE keysMade
    /\ UNCHANGED confirmed

\* One turn of a menu: leave it, or open the row's screen or handler.  The settings
\* screen installs its language each time round; the identity screen makes sure
\* there is an identity.
RunMenu(r) ==
    \E m \in DOMAIN Menus :
       /\ Top(r, m)
       /\ \E row \in Prompt(r, {x \in Menus[m] : x \in DOMAIN Menus \/ proc[r].rows > 0}, "back") :
             LET p == IF m = "settings" THEN SetLanguage(proc[r]) ELSE proc[r]
             IN /\ proc' = [proc EXCEPT ![r] =
                       CASE row = "again" -> p
                         [] row = "back" -> IF m = "home" THEN Gone(p) ELSE Pop(p)
                         [] OTHER -> [Push(p, row) EXCEPT
                                         !.rows = IF row \in DOMAIN Menus THEN @ ELSE @ - 1]]
                /\ IF row = "identity" THEN EnsureIdentity(p.dir) ELSE UNCHANGED keys
       /\ UNCHANGED <<files, orphans>>

Handle(r, p) == /\ proc' = [proc EXCEPT ![r] = p]
                /\ UNCHANGED <<files, keys, orphans>>

\* A notice, and screens that only show something, wait for Enter and return.
Shows(r, f) == Top(r, f) /\ Handle(r, Pop(proc[r]))

Pause(r) == Shows(r, "pause")
HelpScreen(r) == Shows(r, "help")
AboutScreen(r) == Shows(r, "about")
ShowAudit(r) == Shows(r, "audit")
ViewCard(r) == Shows(r, "view_card")
ViewFingerprint(r) == Shows(r, "view_fingerprint")
ViewSystemInfo(r) == Shows(r, "system_info")
CopyInvite(r) == Shows(r, "copy")

\* No relay to probe, a report or a failure: each ends in a wait for Enter.
TestConnectivity(r) == Shows(r, "test_connectivity")

\* The chat takes the screen until it is left, or ends with an error.
EnterChat(r) == Top(r, "chat") /\ Handle(r, Swap(proc[r], "pause"))

-----------------------------------------------------------------------------
(* The settings centre.  Each handler builds the new settings from the ones in use, *)
(* saves them, and only then puts them to use.                                     *)

Edit(p, k, v) == Saving([p EXCEPT !.key = k], Put(p.settings, k, v), k)

\* What a handler does once the file is replaced: the settings are the new ones, and a
\* theme or a language takes effect.
PersistSettings(p) ==
    LET q == [p EXCEPT !.at = "up", !.settings = p.new, !.new = <<>>, !.done = "saved"]
    IN CASE p.done = "theme" -> [q EXCEPT !.theme = Get(q.settings, "theme")[2]]
         [] p.done = "language" -> SetLanguage(q)
         [] OTHER -> q

\* Back to the menu; the transfer screen waits for Enter after a failure.
Return(r) ==
    /\ At(r, "up") /\ proc[r].done \in {"saved", "refused"}
    /\ LET p == [proc[r] EXCEPT !.done = "", !.key = "", !.arg = "", !.new = <<>>]
       IN Handle(r, IF proc[r].done = "refused" /\ Head(p.stack) \in TransfersRows
                    THEN Swap(p, "pause") ELSE Pop(p))

Toggled(p, k) == Edit(p, k, BoolV(1 - Get(p.settings, k)[2]))

ToggleChat(r) == \E k \in {"read_receipts", "typing_indicators", "presence", "cleanup_on_exit"} :
                    Top(r, k) /\ Handle(r, Toggled(proc[r], k))

ToggleNotifications(r) == \E k \in NotificationsRows \ {"select_style"} :
                             Top(r, k) /\ Handle(r, Toggled(proc[r], k))

ToggleDebug(r) == Top(r, "debug") /\ Handle(r, Toggled(proc[r], "debug"))

\* A choice among the values a setting may have; the current one and cancel change nothing.
Select(r, k, choices) ==
    \E v \in Prompt(r, choices, "cancel") :
       Handle(r, IF v = "cancel" \/ StrV(v) = Get(proc[r].settings, k) THEN Pop(proc[r])
                 ELSE Edit(proc[r], k, StrV(v)))

SelectLanguage(r) == Top(r, "select_language") /\ Select(r, "language", SUPPORTED_LANGUAGES)
SelectHistoryMode(r) == Top(r, "select_history") /\ Select(r, "history_mode", {"disabled", "encrypted"})
SelectNotificationStyle(r) == Top(r, "select_style")
                              /\ Select(r, "notification_style", {"banner", "muted"})

\* The theme is previewed and confirmed first; the default answer is yes.
SelectTheme(r) ==
    /\ Top(r, "select_theme")
    /\ IF proc[r].arg = ""
       THEN \E v \in Prompt(r, Themes, "cancel") :
               Handle(r, IF v = "cancel" \/ StrV(v) = Get(proc[r].settings, "theme")
                         THEN Pop(proc[r]) ELSE [proc[r] EXCEPT !.arg = v])
       ELSE \E yes \in Confirm(r, TRUE) :
               Handle(r, IF yes THEN Edit(proc[r], "theme", StrV(proc[r].arg))
                         ELSE Pop([proc[r] EXCEPT !.arg = ""]))

\* A text the prompt returns is stored as it is; a display name with a control
\* character is refused by the constructor, outside the handler's try.
EditDisplayName(r) ==
    /\ Top(r, "edit_display_name")
    /\ \E v \in PromptText(r, {"", "name", "quoted", "nul", "raw"}) :
          Handle(r, CASE v = None -> Pop(proc[r])
                      [] ~ChatSettings("display_name" :> StrV(v)) -> Gone(proc[r])
                      [] OTHER -> Edit(proc[r], "display_name", StrV(v)))

ConfigureRelay(r) ==
    /\ Top(r, "configure_relay")
    /\ \E v \in PromptText(r, {"", "ws", "http", "ws+raw"}) :
          Handle(r, CASE v = None -> Pop(proc[r])
                      [] v = "http" -> Swap(proc[r], "pause")
                      [] OTHER -> Edit(proc[r], "url", StrV(v)))

ClearRelay(r) ==
    /\ Top(r, "clear_relay")
    /\ IF Get(proc[r].settings, "url")[2] = "" THEN Handle(r, Pop(proc[r]))
       ELSE \E yes \in Confirm(r, TRUE) :
               Handle(r, IF yes THEN Edit(proc[r], "url", StrV("")) ELSE Pop(proc[r]))

ConfigureDataDir(r) ==
    /\ Top(r, "configure_data_dir")
    /\ \E v \in PromptText(r, {"", "dir1", "file", "raw"}) :
          Handle(r, CASE v = None -> Pop(proc[r])
                      [] v = "file" -> Swap(proc[r], "pause")
                      [] OTHER -> Edit(proc[r], "data_dir", StrV(v)))

ResetDataDir(r) ==
    /\ Top(r, "reset_data_dir")
    /\ Handle(r, IF Get(proc[r].settings, "data_dir")[2] = "" THEN Pop(proc[r])
                 ELSE Edit(proc[r], "data_dir", StrV("")))

ChangeDownloadDir(r) ==
    /\ Top(r, "download_dir")
    /\ \E v \in PromptText(r, {"", "dir1", "raw"}) :
          Handle(r, IF v = None THEN Pop(proc[r]) ELSE Edit(proc[r], "download_dir", StrV(v)))

\* Sizes a user types, in megabytes; -1 is a text that is not a number, and 129 needs
\* more chunks of 4 KiB than a transfer may have.
ChangeMaxSize(r) ==
    /\ Top(r, "max_size")
    /\ \/ \E v \in {-1, 0, 128, 129, 5000} :
             /\ proc[r].stdin
             /\ LET new == Put(proc[r].settings, "max_file_size_mb", IntV(v))
                IN Handle(r, IF v \in 1..4096 /\ TransferSettings(new)
                             THEN Edit(proc[r], "max_file_size_mb", IntV(v))
                             ELSE Swap(proc[r], "pause"))
       \/ Handle(r, Pop(proc[r]))

-----------------------------------------------------------------------------
(* The identity, the rooms and the storage screens. *)

HandleIdentity(r, p, i) ==
    /\ proc' = [proc EXCEPT ![r] = p]
    /\ ident' = [ident EXCEPT ![p.dir] = i]
    /\ UNCHANGED <<files, orphans>>

\* A nickname with a control character is refused by validate_nickname.
ChangeNickname(r) ==
    /\ Top(r, "change_nickname")
    /\ LET p == proc[r]
           held == Ensured(ident, p.dir)[p.dir]
       IN \E v \in PromptText(r, {"name", "raw"}) :
             /\ CASE v = None -> HandleIdentity(r, Pop(p), ident[p.dir])
                  [] v = "raw" -> HandleIdentity(r, Swap(p, "pause"), ident[p.dir])
                  [] OTHER -> HandleIdentity(r, Pop(p), [held EXCEPT !.nick = v])
             /\ UNCHANGED <<keysMade, confirmed>>

ClearNickname(r) ==
    /\ Top(r, "clear_nickname")
    /\ HandleIdentity(r, Pop(proc[r]), [Ensured(ident, proc[r].dir)[proc[r].dir] EXCEPT !.nick = ""])
    /\ UNCHANGED <<keysMade, confirmed>>

\* The rotation is confirmed first; the default answer is no.  IdentityManager.reset
\* deletes the old identity, then saves a new one: two writes of the document.
RotateIdentity(r) ==
    /\ Top(r, "rotate") /\ proc[r].arg = ""
    /\ \E yes \in Confirm(r, FALSE) :
          LET d == proc[r].dir
          IN IF yes
             THEN /\ HandleIdentity(r, [proc[r] EXCEPT !.arg = "deleted"], NoIdentity)
                  /\ confirmed' = IF proc[r].stdin THEN [confirmed EXCEPT ![d] = @ + 1]
                                  ELSE confirmed
                  /\ UNCHANGED keysMade
             ELSE Handle(r, Pop(proc[r]))

Reset(r) ==
    /\ Top(r, "rotate") /\ proc[r].arg = "deleted"
    /\ LET d == proc[r].dir
       IN /\ HandleIdentity(r, Pop([proc[r] EXCEPT !.arg = ""]), [key |-> keysMade[d] + 1, nick |-> ""])
          /\ keysMade' = [keysMade EXCEPT ![d] = @ + 1]
          /\ UNCHANGED confirmed

RelayUrl(p) == Get(p.settings, "url")[2]

\* The last question before the live chat; the default answer is yes.
ConfirmChat(r) ==
    /\ \E f \in {"create_room", "join_room"} : Top(r, f)
    /\ proc[r].arg = "ready"
    /\ \E yes \in Confirm(r, TRUE) :
          LET p == [proc[r] EXCEPT !.arg = ""]
          IN Handle(r, IF yes THEN Swap(p, "chat") ELSE Pop(p))

\* Host a room, or name one to join; a name or an identifier that is not valid, and a
\* missing relay, end in a notice.
RoomFlow(r, texts) ==
    /\ proc[r].arg = ""
    /\ \E v \in PromptText(r, texts) :
          Handle(r, CASE v = None -> Pop(proc[r])
                      [] v = "bad" \/ RelayUrl(proc[r]) = "" -> Swap(proc[r], "pause")
                      [] OTHER -> [proc[r] EXCEPT !.arg = "ready"])

CreateRoomFlow(r) == Top(r, "create_room") /\ RoomFlow(r, {"", "name", "bad"})
JoinRoomFlow(r) == Top(r, "join_room") /\ RoomFlow(r, {"room", "bad"})

CreateRoomWithQr(r) ==
    /\ Top(r, "create_with_qr")
    /\ \E v \in PromptText(r, {"", "name", "bad"}) :
          Handle(r, CASE v = None -> Pop(proc[r])
                      [] v = "bad" -> Swap(proc[r], "pause")
                      [] OTHER -> Swap(proc[r], "invite_screen"))

ViewQrPrompt(r) ==
    /\ Top(r, "view_qr")
    /\ \E v \in PromptText(r, {"link"}) :
          Handle(r, IF v = None THEN Pop(proc[r]) ELSE Swap(proc[r], "invite_screen"))

\* Files directly under <data directory>/transfers are deleted.
CleanTemp(r) ==
    /\ Top(r, "clean_temp")
    /\ \E yes \in Confirm(r, TRUE) :
          /\ proc' = [proc EXCEPT ![r] = [Pop(@) EXCEPT !.cleaned = @ \/ yes]]
          /\ orphans' = IF yes THEN orphans \ {"transfers"} ELSE orphans
    /\ UNCHANGED <<files, keys>>

CleanLogs(r) == Top(r, "clean_logs") /\ Handle(r, Pop(proc[r]))

-----------------------------------------------------------------------------
Screens(r) ==
    \/ RunMenu(r) \/ Return(r) \/ Pause(r) \/ HelpScreen(r) \/ AboutScreen(r) \/ ShowAudit(r)
    \/ ViewCard(r) \/ ViewFingerprint(r) \/ ViewSystemInfo(r) \/ CopyInvite(r)
    \/ TestConnectivity(r) \/ EnterChat(r)
    \/ ToggleChat(r) \/ ToggleNotifications(r) \/ ToggleDebug(r)
    \/ SelectTheme(r) \/ SelectLanguage(r) \/ SelectHistoryMode(r)
    \/ SelectNotificationStyle(r) \/ EditDisplayName(r)
    \/ ConfigureRelay(r) \/ ClearRelay(r) \/ ConfigureDataDir(r) \/ ResetDataDir(r)
    \/ ChangeDownloadDir(r) \/ ChangeMaxSize(r)
    \/ ChangeNickname(r) \/ ClearNickname(r) \/ RotateIdentity(r) \/ Reset(r)
    \/ CreateRoomFlow(r) \/ JoinRoomFlow(r) \/ ConfirmChat(r)
    \/ CreateRoomWithQr(r) \/ ViewQrPrompt(r) \/ CleanTemp(r) \/ CleanLogs(r)

\* The steps a run takes by itself, in a launch and in a save.
Runs_(r) ==
    \/ BuildApplication(r)
    \/ (Load(r) \/ WriteDefaultFile(r) \/ OpenTemp(r) \/ FillTemp(r)
        \/ ReplaceFile(r, PersistSettings(proc[r]))) /\ UNCHANGED <<case, keys, orphans>>

Mishap(r) == \/ Crash(r)
             \/ SaveFails(r) /\ UNCHANGED <<case, keys, orphans>>

TerminalNext == \E r \in Runs : Start(r) \/ Runs_(r) \/ Screens(r) \/ Interrupt(r)
                                \/ CloseStdin(r) \/ Mishap(r)

\* A process is scheduled, and at end of input every question returns at once; while
\* input is open a user may think for ever.
TerminalFairness == \A r \in Runs : WF_tavars((~proc[r].stdin /\ Screens(r)) \/ Runs_(r))

TerminalSpec == TerminalInit /\ [][TerminalNext]_tavars /\ TerminalFairness

-----------------------------------------------------------------------------
(* Properties. *)

Same(v, w) == v = w \/ (IsNumber(v) /\ IsNumber(w) /\ v[2] = w[2])

\* While a screen is up the file is one that the next launch accepts, and it says what
\* the program uses, key by key, whatever was saved, refused or failed before; only a
\* command-line flag may still differ (SettingsScreen._persist_settings writes first
\* and assigns afterwards, save_config_file reads its own output back).  The console
\* has the theme of the settings.  Every key pair after the first of a data directory
\* was asked for: end of input never rotates an identity (confirm_action,
\* default=False, in front of IdentityManager.reset).
TerminalSafe ==
    /\ \A r \in Runs : At(r, "up") =>
          /\ Accepted(cfgFile)
          /\ \A k \in Keys : \/ Same(Get(proc[r].settings, k), Get(cfgFile.set, k))
                            \/ /\ k \in DOMAIN proc[r].flags
                               /\ Get(proc[r].settings, k) = proc[r].flags[k]
          /\ proc[r].theme = Get(proc[r].settings, "theme")[2]
    /\ \A d \in Dirs : keysMade[d] <= 1 + confirmed[d]

\* A configuration file that is whole stays whole: no error and no crash in the middle
\* of a save tears it (serializer.py, save_config_file: "Validate and atomically write").
WholeStep == cfgFile.state = "whole" => cfgFile'.state = "whole"
WholeStaysWhole == [][WholeStep]_tavars

\* Once standard input is closed the program comes to its end from any screen: each
\* prompt falls back to its default, and the defaults lead out (InteractiveMenu.prompt,
\* prompt_text, confirm, wait_for_enter).
EofExits == \A r \in Runs : (~proc[r].stdin) ~> At(r, "off")

\* A save changes the one key that was edited and no other (docs/CONFIGURATION.md: the
\* command-line overrides "apply to the current run only").
SavesOnlyTheEdit ==
    [][\A k \in Keys :
          cfgFile.state = "whole" /\ cfgFile'.state = "whole"
          /\ ~Same(Get(cfgFile.set, k), Get(cfgFile'.set, k))
          => \E r \in Runs : proc[r].key = k]_tavars

\* A saved change is in force (settings.py: "immediately applied to runtime state"):
\* the notification switch, the data directory and the debug log.
AppliedAtOnce ==
    \A r \in Runs : At(r, "up") /\ proc[r].done = "saved" =>
        /\ proc[r].toasts = Get(proc[r].settings, "enabled")[2]
        /\ proc[r].dir = DataDir(proc[r].settings)
        /\ proc[r].logs = Get(proc[r].settings, "debug")[2]

\* After "Clean Temporary Chunks" no temporary file of a transfer is left (storage.py:
\* "Delete orphaned in-flight transfer cache").
CleanedIsGone == \A r \in Runs : proc[r].cleaned => orphans = {}
====
