----------------------------- MODULE LocalState -----------------------------
(***************************************************************************)
(* The state directory: one JSON document per namespace                    *)
(* (ghostlink/storage), and the services that keep the session statistics, *)
(* the rooms, their invites and the local identity in it                   *)
(* (services/session.py, services/rooms.py, identity/).                    *)
(*                                                                         *)
(* Assigning one key rewrites the whole document: read, open the sibling   *)
(* temporary file, fill it, rename it over the document.  Each of these is *)
(* a step here, so a process may stop, fail or meet another process        *)
(* between any two.  All processes use the same temporary name.            *)
(***************************************************************************)
EXTENDS Naturals, FiniteSets, Sequences

CONSTANTS
    Processes,     \* processes that may run at one time
    MaxCommands,   \* bound on the commands run
    MaxFaults      \* bound on kills and write errors

ASSUME LocalConstants == MaxCommands \in Nat /\ MaxFaults \in Nat

VARIABLES
    docs,      \* the document of each namespace
    temps,     \* the temporary file of each namespace
    worker,    \* what each process is doing
    begun,     \* commands begun; also the next fresh identifier
    faults,    \* kills and write errors so far
    launches   \* the starts whose launch_count was written

lsvars == <<docs, temps, worker, begun, faults, launches>>

Namespaces == {"session", "rooms", "invites", "identity"}

\* A document: absent (read as {}), whole with its keys, or not valid JSON.
AbsentDoc == [kind |-> "absent", keys |-> [k \in {} |-> 0]]
BrokenDoc == [kind |-> "broken", keys |-> [k \in {} |-> 0]]
WholeDoc(m) == [kind |-> "whole", keys |-> m]

\* _read_all succeeds
Readable(d) == d.kind # "broken"

\* store.get(key, 0): the values are positive numbers.
Value(ns, k) == IF k \in DOMAIN docs[ns].keys THEN docs[ns].keys[k] ELSE 0

With(m, k, v) == [j \in DOMAIN m \cup {k} |-> IF j = k THEN v ELSE m[j]]
Without(m, k) == [j \in DOMAIN m \ {k} |-> m[j]]

\* One assignment of a key (v = 0 deletes it).
SetItem(ns, k, v) == <<ns, k, v>>

\* A process: the assignments still to make, the document it read, its handle
\* on the temporary file (which a rename may have turned into the document)
\* and whether it is the interactive application.
IdleWorker == [todo |-> <<>>, at |-> "read", data |-> AbsentDoc.keys,
               handle |-> "none", app |-> FALSE]

LocalInit ==
    /\ docs = [ns \in Namespaces |-> AbsentDoc]
    /\ temps = [ns \in Namespaces |-> AbsentDoc]
    /\ worker = [p \in Processes |-> IdleWorker]
    /\ begun = 0 /\ faults = 0 /\ launches = 0

Resting(p) == worker[p].todo = <<>>
MayBegin(p) == Resting(p) /\ ~worker[p].app /\ begun < MaxCommands

\* A command is the assignments it will make, decided by what it has read.
Begin(p, writes, app) ==
    /\ begun' = begun + 1
    /\ worker' = [worker EXCEPT ![p] =
                    [IdleWorker EXCEPT !.todo = writes, !.app = app]]
    /\ UNCHANGED <<docs, temps, faults, launches>>

\* A fresh name or moment.
Fresh == begun + 1

-----------------------------------------------------------------------------
(***************************************************************************)
(* The services.                                                           *)
(***************************************************************************)

\* MUTANT: every launch is the first one.
SessionStartForgets(p) ==
    /\ MayBegin(p) /\ Readable(docs["session"])
    /\ Begin(p, <<SetItem("session", "launch_count", Value("session", "launch_count") + 1),
                  SetItem("session", "first_launch_at", Fresh),
                  SetItem("session", "last_launch_at", Fresh)>>, TRUE)

\* SessionService.start: the count and the first launch are read once.
SessionStart(p) ==
    /\ MayBegin(p) /\ Readable(docs["session"])
    /\ LET first == Value("session", "first_launch_at")
       IN  Begin(p, <<SetItem("session", "launch_count",
                              Value("session", "launch_count") + 1),
                      SetItem("session", "first_launch_at",
                              IF first # 0 THEN first ELSE Fresh),
                      SetItem("session", "last_launch_at", Fresh),
                      SetItem("session", "last_platform", 1),
                      SetItem("session", "last_pid", Fresh)>>, TRUE)

\* SessionService.stop, in the finally of Application.run
SessionStop(p) ==
    /\ Resting(p) /\ worker[p].app
    /\ worker' = [worker EXCEPT ![p] = [@ EXCEPT !.app = FALSE, !.todo =
                    <<SetItem("session", "last_seen_at", Fresh),
                      SetItem("session", "last_session_seconds", 1)>>]]
    /\ UNCHANGED <<docs, temps, begun, faults, launches>>

\* RoomState
OPEN == 1
CLOSED == 2

\* create_room, and create_invite bound to that room.
CreateRoom == SetItem("rooms", Fresh, OPEN)
CreateInvite == SetItem("invites", Fresh, Fresh)

\* MUTANT: the invite before its room.
HostRoomSwapped == <<CreateInvite, CreateRoom>>

\* host_room
HostRoom == <<CreateRoom, CreateInvite>>

\* `ghostlink host` (the chat that may follow writes no document here)
RunHost(p) ==
    /\ MayBegin(p)
    /\ Begin(p, HostRoom, FALSE)

\* get_room and close_room of a known room.
CloseRoom(p, r) ==
    /\ MayBegin(p) /\ Readable(docs["rooms"]) /\ Value("rooms", r) # 0
    /\ Begin(p, <<SetItem("rooms", r, CLOSED)>>, FALSE)

\* LocalIdentity: the key pair and the nickname (0 for none) in one number.
Identity(pair, name) == 10 * pair + name
PairOf(identity) == identity \div 10

\* IdentityStore: load (0 for None), save and delete.
LoadIdentity == Value("identity", "local")
SaveIdentity(identity) == SetItem("identity", "local", identity)
DeleteIdentity == SetItem("identity", "local", 0)

\* IdentityManager.ensure: the writes it makes, and the key pair it returns.
EnsureLocalIdentity ==
    IF LoadIdentity # 0 THEN <<>> ELSE <<SaveIdentity(Identity(Fresh, 0))>>
EnsuredPair == IF LoadIdentity # 0 THEN PairOf(LoadIdentity) ELSE Fresh

\* `ghostlink identity` and the start of every chat
RunIdentity(p) ==
    /\ MayBegin(p) /\ Readable(docs["identity"])
    /\ Begin(p, EnsureLocalIdentity, FALSE)

\* MUTANT: a nickname is stored with a new key pair.
SetNicknameAnew(name) == <<SaveIdentity(Identity(Fresh, name))>>

\* set_nickname, and clear_nickname with name 0: ensure, then save the copy.
SetNickname(name) == Append(EnsureLocalIdentity, SaveIdentity(Identity(EnsuredPair, name)))

\* `ghostlink identity nickname <name>`
RunNickname(p, name) ==
    /\ MayBegin(p) /\ Readable(docs["identity"])
    /\ Begin(p, SetNickname(name), FALSE)

\* reset: delete the old identity, if any, then save a new one.
ResetIdentity(p) ==
    /\ MayBegin(p) /\ Readable(docs["identity"])
    /\ LET new == SaveIdentity(Identity(Fresh, 0))
       IN  Begin(p, IF LoadIdentity # 0 THEN <<DeleteIdentity, new>> ELSE <<new>>, FALSE)

-----------------------------------------------------------------------------
(***************************************************************************)
(* StorageBackend.__setitem__ and JsonFileStorage._write_all.              *)
(***************************************************************************)

Now(p) == Head(worker[p].todo)

\* The processes whose open handle is this namespace's temporary file.
Writers(ns, h) ==
    {p \in Processes : /\ worker[p].todo # <<>> /\ Now(p)[1] = ns
                       /\ worker[p].handle = h}

\* _read_all; a document that is not JSON raises and ends the command.
ReadAll(p) ==
    /\ ~Resting(p) /\ worker[p].at = "read"
    /\ LET w == Now(p)
           m == docs[w[1]].keys
       IN  worker' = [worker EXCEPT ![p] =
                        IF ~Readable(docs[w[1]]) THEN IdleWorker
                        ELSE [@ EXCEPT !.at = "open",
                                !.data = IF w[3] = 0 THEN Without(m, w[2])
                                         ELSE With(m, w[2], w[3])]]
    /\ UNCHANGED <<docs, temps, begun, faults, launches>>

\* MUTANT: truncate and write the document itself.
OpenTempFileInPlace(p) ==
    /\ ~Resting(p) /\ worker[p].at = "open"
    /\ docs' = [docs EXCEPT ![Now(p)[1]] = BrokenDoc]
    /\ worker' = [worker EXCEPT ![p].at = "fill", ![p].handle = "doc"]
    /\ UNCHANGED <<temps, begun, faults, launches>>

\* temp_path.open("w"): truncates, whoever else has it open.
OpenTempFile(p) ==
    /\ ~Resting(p) /\ worker[p].at = "open"
    /\ temps' = [temps EXCEPT ![Now(p)[1]] = BrokenDoc]
    /\ worker' = [worker EXCEPT ![p] = [@ EXCEPT !.at = "fill", !.handle = "temp"]]
    /\ UNCHANGED <<docs, begun, faults, launches>>

\* json.dump, flush, fsync, through the handle.  Where another process holds
\* the same file the bytes of both may be mixed.
FillTempFile(p) ==
    /\ ~Resting(p) /\ worker[p].at = "fill"
    /\ LET ns == Now(p)[1]
           h == worker[p].handle
           results == {WholeDoc(worker[p].data)} \cup
                        (IF Writers(ns, h) = {p} THEN {} ELSE {BrokenDoc})
       IN  \E d \in results :
             /\ temps' = IF h = "temp" THEN [temps EXCEPT ![ns] = d] ELSE temps
             /\ docs' = IF h = "doc" THEN [docs EXCEPT ![ns] = d] ELSE docs
    /\ worker' = [worker EXCEPT ![p].at = "replace"]
    /\ UNCHANGED <<begun, faults, launches>>

\* What the process goes on with once an assignment is on disk.
Advanced(w) == [w EXCEPT !.todo = Tail(@), !.at = "read", !.handle = "none"]

\* os.replace(temp, path): handles on the temporary file now reach the
\* document, and those on the old document reach nothing.  Without a
\* temporary file it raises.
ReplaceDocument(p) ==
    /\ ~Resting(p) /\ worker[p].at = "replace"
    /\ LET w == Now(p)
           moved == [q \in Processes |->
                       IF q = p THEN Advanced(worker[p])
                       ELSE IF q \in Writers(w[1], "temp") THEN [worker[q] EXCEPT !.handle = "doc"]
                       ELSE IF q \in Writers(w[1], "doc") THEN [worker[q] EXCEPT !.handle = "lost"]
                       ELSE worker[q]]
       IN  IF temps[w[1]] = AbsentDoc
           THEN /\ worker' = [worker EXCEPT ![p] = IdleWorker]
                /\ UNCHANGED <<docs, temps, launches>>
           ELSE /\ docs' = [docs EXCEPT ![w[1]] = temps[w[1]]]
                /\ temps' = [temps EXCEPT ![w[1]] = AbsentDoc]
                /\ worker' = moved
                /\ launches' = IF w[1] = "session" /\ w[2] = "launch_count"
                               THEN launches + 1 ELSE launches
    /\ UNCHANGED <<begun, faults>>

\* OSError on the way: the temporary file is removed, the command ends with
\* StorageWriteError.
WriteFails(p) ==
    /\ ~Resting(p) /\ worker[p].at \in {"open", "fill", "replace"}
    /\ faults < MaxFaults
    /\ temps' = [temps EXCEPT ![Now(p)[1]] = AbsentDoc]
    /\ worker' = [worker EXCEPT ![p] = IdleWorker]
    /\ faults' = faults + 1
    /\ UNCHANGED <<docs, begun, launches>>

\* The process is killed.
CommandKilled(p) ==
    /\ worker[p] # IdleWorker /\ faults < MaxFaults
    /\ worker' = [worker EXCEPT ![p] = IdleWorker]
    /\ faults' = faults + 1
    /\ UNCHANGED <<docs, temps, begun, launches>>

-----------------------------------------------------------------------------

LocalStep(p) ==
    \/ SessionStart(p) \/ SessionStop(p) \/ RunHost(p)
    \/ \E r \in 1..MaxCommands : CloseRoom(p, r)
    \/ RunIdentity(p) \/ ResetIdentity(p) \/ \E name \in 0..1 : RunNickname(p, name)
    \/ ReadAll(p) \/ OpenTempFile(p) \/ FillTempFile(p) \/ ReplaceDocument(p)
    \/ WriteFails(p) \/ CommandKilled(p)

LocalNext == \E p \in Processes : LocalStep(p)

LocalSpec == LocalInit /\ [][LocalNext]_lsvars

\* "a crash mid-write can never leave a truncated document behind"
\* (storage/json_store.py): every document is absent or whole at every step,
\* so no later command meets StorageCorruptionError.
DocumentsWhole == \A ns \in Namespaces : Readable(docs[ns])

\* The documents are whole, and agree with each other and with the past: a
\* stored invite has its room (host_room), and launch_count counts the
\* launches (SessionService.start).
DocumentsAgree ==
    /\ DocumentsWhole
    /\ \A i \in DOMAIN docs["invites"].keys :
          docs["invites"].keys[i] \in DOMAIN docs["rooms"].keys
    /\ Value("session", "launch_count") = launches

\* The first launch stays the first, a closed room stays closed and no room
\* is lost, and the key pair the user was shown is replaced only by `reset`,
\* which deletes it first (SessionService.start, IdentityManager).
LocalHistoryStep ==
    /\ Value("session", "first_launch_at") # 0 =>
         /\ "first_launch_at" \in DOMAIN docs'["session"].keys
         /\ docs'["session"].keys["first_launch_at"] = Value("session", "first_launch_at")
    /\ \A r \in DOMAIN docs["rooms"].keys :
         /\ r \in DOMAIN docs'["rooms"].keys
         /\ docs'["rooms"].keys[r] >= docs["rooms"].keys[r]
    /\ LoadIdentity # 0 /\ "local" \in DOMAIN docs'["identity"].keys =>
         PairOf(docs'["identity"].keys["local"]) = PairOf(LoadIdentity)

=============================================================================
