----------------------------- MODULE ChatConsole -----------------------------
(* The terminal chat surface of one user, from `run_chat_session` to its      *)
(* `finally` block: the thread that reads the keyboard and the poll that      *)
(* empties its queue (TerminalInputSource), the composer and the slash        *)
(* commands (ChatApp), the history backend in its three modes                 *)
(* (messaging/history.py), and the places of ChatSession and TransferManager  *)
(* that write to it.  The transport and the peer are an environment: a link   *)
(* that is up or down, frames that arrive, offers and finished transfers.     *)
(*                                                                            *)
(* Several chats may run one after another, or side by side in two terminals  *)
(* (Terminals), on the one history file of the state directory.               *)
EXTENDS Naturals, Sequences, SequencesExt, FiniteSets

CONSTANTS Terminals,      \* the processes that run a chat
          HistoryModes,   \* the chat.history_mode values tried
          Scripts,        \* the sequences of lines the user may go on to type
          HistoryCap,     \* MAX_HISTORY_ENTRIES
          MaxEvents,      \* bound: things the peer does
          MaxChats,       \* bound: chats opened
          MaxUpsets       \* bound: failed writes, failed sends, lost links

ASSUME ChatConsoleConstants ==
    /\ HistoryModes \subseteq {"disabled", "session", "encrypted"}
    /\ HistoryCap \in Nat \ {0}
    /\ {MaxEvents, MaxChats, MaxUpsets} \subseteq Nat

VARIABLES
    histFile,   \* the encrypted history: NoFile, or its entries under its key
    chat,       \* chat[t]: everything the process in terminal t holds
    toType,     \* the kinds of the lines the user has yet to type
    serial,     \* the identifiers handed out so far, in order of time
    happened,   \* things the peer did
    chats,      \* chats opened
    upsets      \* failures that happened

ccvars == <<histFile, chat, toType, serial, happened, chats, upsets>>

NoFile == [key |-> "none", kept |-> <<>>]

(* The state of one chat.  `stage` follows run_chat_session; `keyboard` is    *)
(* the reader thread, `lines` its queue, `poll` where read_line stands;       *)
(* `draft` is ChatApp._buffer.  `secure` (a first handshake completed), `up`, *)
(* `pump`, `unsent` and `acked` (frames acknowledged, not yet surfaced)       *)
(* belong to the ChatSession, `offers` and `answers` to the TransferManager.  *)
(* The rest is for the properties: how many lines were typed, what was handed *)
(* to send_message and whether it took it, the lines dealt with otherwise,    *)
(* the offers settled, and whether read_line said None.                       *)
NoChat == [stage |-> "closed", mode |-> "disabled", key |-> "none", kept |-> <<>>,
           keyboard |-> "none", lines |-> <<>>, poll |-> "get", draft |-> <<>>,
           secure |-> FALSE, up |-> FALSE, pump |-> FALSE, unsent |-> <<>>,
           acked |-> <<>>, offers |-> <<>>, answers |-> <<>>,
           typed |-> 0, handed |-> <<>>, dealt |-> {}, settled |-> {},
           ended |-> FALSE]

(* ------------------------------- history -------------------------------- *)
Newest(s, n) == SubSeq(s, IF Len(s) > n THEN Len(s) - n + 1 ELSE 1, Len(s))

AppendedUncapped(kept, entry) == Append(kept, entry)

(* BaseHistory._append: the newest HistoryCap entries stay.                  *)
Appended(kept, entry) == Newest(Append(kept, entry), HistoryCap)

(* EncryptedHistory._flush and _write_atomic: the whole list replaces the     *)
(* file in one rename, under the key in memory.                               *)
Flushed(c) == [key |-> c.key, kept |-> c.kept]

(* record, record_transfer and record_group: NullHistory keeps nothing,       *)
(* SessionHistory appends in memory, EncryptedHistory appends and flushes;    *)
(* a flush that fails raises after the append.                                *)
Recorded(c, entry) ==
    IF c.mode = "disabled" THEN c ELSE [c EXCEPT !.kept = Appended(@, entry)]

RecordFails(c) == c.mode = "encrypted" /\ upsets < MaxUpsets

RecordedOkInPlain(c, entry) ==
    /\ histFile' = IF c.mode # "disabled" THEN Flushed(Recorded(c, entry)) ELSE histFile
    /\ UNCHANGED upsets

RecordedOk(c, entry) ==
    /\ histFile' = IF c.mode = "encrypted" THEN Flushed(Recorded(c, entry)) ELSE histFile
    /\ UNCHANGED upsets

RecordRaises(c) == RecordFails(c) /\ upsets' = upsets + 1 /\ UNCHANGED histFile

HistoryClosedKeeps(c) == [c EXCEPT !.key = IF c.mode = "encrypted" THEN "zeroed" ELSE @]

(* EncryptedHistory.close zeroes the key and forgets the entries, the other   *)
(* modes forget the entries; nothing is written.                              *)
HistoryClosed(c) ==
    [c EXCEPT !.kept = <<>>, !.key = IF c.mode = "encrypted" THEN "zeroed" ELSE @]

(* ----------------------------- opening a chat --------------------------- *)
Becomes(t, c) == chat' = [chat EXCEPT ![t] = c]

Opened(mode, key, kept) ==
    [NoChat EXCEPT !.stage = "chat", !.mode = mode, !.key = key, !.kept = kept]

(* _open_chat_history for a mode that is not encrypted: no passphrase, no     *)
(* file.                                                                      *)
OpenPlain(t, mode) ==
    /\ mode # "encrypted"
    /\ Becomes(t, Opened(mode, "none", <<>>))
    /\ UNCHANGED <<histFile, upsets>>

OpenExistingResets(t) ==
    /\ histFile # NoFile
    /\ \/ /\ histFile.key = "passphrase"
          /\ Becomes(t, Opened("encrypted", "passphrase", histFile.kept))
          /\ UNCHANGED <<histFile, upsets>>
       \/ /\ upsets < MaxUpsets
          /\ upsets' = upsets + 1
          /\ histFile' = [key |-> "passphrase", kept |-> <<>>]
          /\ Becomes(t, Opened("encrypted", "passphrase", <<>>))

(* The file exists: the passphrase is asked once; the right one unlocks every *)
(* entry, a wrong one raises HistoryPassphraseError and no chat starts.  The  *)
(* zeroed key is not what any passphrase derives.                             *)
OpenExisting(t) ==
    /\ histFile # NoFile
    /\ \/ /\ histFile.key = "passphrase"
          /\ Becomes(t, Opened("encrypted", "passphrase", histFile.kept))
          /\ UNCHANGED <<histFile, upsets>>
       \/ /\ upsets < MaxUpsets
          /\ upsets' = upsets + 1
          /\ UNCHANGED <<histFile, chat>>

(* No file yet: the passphrase is asked twice, and open() writes the empty    *)
(* list at once; passphrases that differ, or a write that fails, raise.       *)
OpenFresh(t) ==
    /\ histFile = NoFile
    /\ \/ /\ histFile' = [key |-> "passphrase", kept |-> <<>>]
          /\ Becomes(t, Opened("encrypted", "passphrase", <<>>))
          /\ UNCHANGED upsets
       \/ /\ upsets < MaxUpsets
          /\ upsets' = upsets + 1
          /\ UNCHANGED <<histFile, chat>>

RunChatSession(t) ==
    /\ chat[t].stage = "closed" /\ chats < MaxChats
    /\ chats' = chats + 1
    /\ \/ \E mode \in HistoryModes : OpenPlain(t, mode)
       \/ "encrypted" \in HistoryModes /\ (OpenExisting(t) \/ OpenFresh(t))
    /\ UNCHANGED <<toType, serial, happened>>

(* ------------------------------ the keyboard ---------------------------- *)
(* TerminalInputSource._reader, on its own thread: every line input() returns *)
(* goes to the queue; end of file, Ctrl+C or a closed stdin puts None and     *)
(* ends the thread.                                                           *)
ReadsLine(t) ==
    LET c == chat[t]
        line == [no |-> c.typed + 1, kind |-> Head(toType)]
    IN /\ c.stage = "chat" /\ c.keyboard = "reading" /\ toType # <<>>
       /\ toType' = Tail(toType)
       /\ Becomes(t, [c EXCEPT !.lines = Append(@, line), !.typed = @ + 1])
       /\ UNCHANGED <<histFile, serial, happened, chats, upsets>>

ReadsEofSilently(t) ==
    LET c == chat[t]
    IN /\ c.stage = "chat" /\ c.keyboard = "reading"
       /\ Becomes(t, [c EXCEPT !.keyboard = "gone"])
       /\ UNCHANGED <<histFile, toType, serial, happened, chats, upsets>>

ReadsEof(t) ==
    LET c == chat[t]
    IN /\ c.stage = "chat" /\ c.keyboard = "reading"
       /\ Becomes(t, [c EXCEPT !.lines = Append(@, [no |-> 0, kind |-> "eof"]),
                          !.keyboard = "dead"])
       /\ UNCHANGED <<histFile, toType, serial, happened, chats, upsets>>

(* ------------------------------ the composer ---------------------------- *)
Slash == {"/reply", "/accept", "/exit", "/other"}

(* ChatApp._send and ChatSession.send_message: refused with a printed error   *)
(* until a first handshake completed, otherwise queued for the pump, which    *)
(* _ensure_pump starts when it is not running.                                *)
Send(c, lines) ==
    LET out == [c EXCEPT !.handed = Append(@, [lines |-> lines, ok |-> c.secure])]
    IN IF c.secure
       THEN [out EXCEPT !.unsent = Append(@, [id |-> serial + 1, again |-> FALSE]),
                        !.pump = TRUE]
       ELSE out

Dealt(c, line) == [c EXCEPT !.dealt = @ \cup {line.no}]

AnswerAnyway(c, offer, verdict) ==
    [c EXCEPT !.offers = SelectSeq(@, LAMBDA o : o # offer),
              !.settled = @ \cup {<<offer, verdict>>}]

(* accept and reject of the TransferManager go through only while the offer   *)
(* still waits; otherwise the error is printed.                               *)
Answer(c, offer, verdict) ==
    IF offer \in Range(c.offers)
    THEN [c EXCEPT !.offers = SelectSeq(@, LAMBDA o : o # offer),
                   !.settled = @ \cup {<<offer, verdict>>}]
    ELSE c

(* ChatApp._command: /reply quotes and sends, /accept answers the newest      *)
(* offer and waits for it, /exit stops the loop; the others (/help, /info,    *)
(* /history, /export, /search, pins) change nothing modelled here.            *)
Command(c, line) ==
    CASE line.kind = "/reply"  -> Send(c, <<line>>)
      [] line.kind = "/accept" ->
            IF c.offers = <<>> THEN Dealt(c, line)
            ELSE Answer(Dealt(c, line), Head(c.offers), "accept")
      [] line.kind = "/exit"   -> [Dealt(c, line) EXCEPT !.stage = "leaving"]
      [] OTHER                 -> Dealt(c, line)

(* _maybe_answer_offer: a bare y or n schedules the answer to the newest      *)
(* pending offer; it runs later.                                              *)
MaybeAnswerOffer(c, line) ==
    [Dealt(c, line) EXCEPT
        !.answers = Append(@, <<Head(c.offers),
                                IF line.kind = "yes" THEN "accept" ELSE "reject">>)]

HandleLineKeepsDraft(c, line) ==
    CASE line.kind = "more"  -> [c EXCEPT !.draft = Append(@, line)]
      [] line.kind # "more" /\ c.draft # <<>> -> Send(c, Append(c.draft, line))
      [] c.draft = <<>> /\ line.kind \in {"blank"} \cup Slash -> Command(c, line)
      [] OTHER -> Send(c, <<line>>)

(* ChatApp._handle_line, in the order of its tests: a line that ends with a   *)
(* backslash extends the draft, any line ends a draft and sends it, a blank   *)
(* one is nothing, then commands, then answers, then text.                    *)
HandleLine(c, line) ==
    CASE line.kind = "more"  -> [c EXCEPT !.draft = Append(@, line)]
      [] line.kind # "more" /\ c.draft # <<>> ->
            Send([c EXCEPT !.draft = <<>>], Append(c.draft, line))
      [] c.draft = <<>> /\ line.kind = "blank" -> Dealt(c, line)
      [] c.draft = <<>> /\ line.kind \in Slash -> Command(c, line)
      [] c.draft = <<>> /\ line.kind \in {"yes", "no"} /\ c.offers # <<>> ->
            MaybeAnswerOffer(c, line)
      [] OTHER -> Send(c, <<line>>)

(* read_line: the thread starts at the first call; then get_nowait takes the  *)
(* next line, or finds the queue empty and goes on to look at the thread.     *)
(* None, the mark of end of file, ends ChatApp.run.                           *)
ReadLine(t) ==
    LET c == chat[t]
        rest == [c EXCEPT !.lines = Tail(@)]
    IN /\ c.stage = "chat" /\ c.poll = "get"
       /\ Becomes(t, IF c.keyboard = "none" THEN [c EXCEPT !.keyboard = "reading"]
                ELSE IF c.lines = <<>> THEN [c EXCEPT !.poll = "check"]
                ELSE IF Head(c.lines).kind = "eof"
                     THEN [rest EXCEPT !.stage = "leaving", !.ended = TRUE]
                     ELSE HandleLine(rest, Head(c.lines)))
       /\ serial' = serial + (Len(chat'[t].unsent) - Len(c.unsent))
       /\ UNCHANGED <<histFile, toType, happened, chats, upsets>>

(* The queue was empty: a thread that is no longer alive means the end,       *)
(* otherwise read_line sleeps and polls again.                                *)
LooksAtThread(t) ==
    LET c == chat[t]
    IN /\ c.stage = "chat" /\ c.poll = "check"
       /\ Becomes(t, IF c.keyboard = "dead"
                THEN [c EXCEPT !.stage = "leaving", !.ended = TRUE]
                ELSE [c EXCEPT !.poll = "get"])
       /\ UNCHANGED <<histFile, toType, serial, happened, chats, upsets>>

(* ----------------------- the session and its peer ----------------------- *)
(* Something the peer or the network does, at most MaxEvents times.          *)
Happens(t) ==
    /\ chat[t].stage \in {"chat", "leaving"} /\ happened < MaxEvents
    /\ happened' = happened + 1

(* A handshake completes: sendable, and secure from here on.                 *)
LinkUp(t) ==
    /\ chat[t].stage = "chat" /\ ~chat[t].up
    /\ Becomes(t, [chat[t] EXCEPT !.up = TRUE, !.secure = TRUE])
    /\ UNCHANGED <<histFile, toType, serial, happened, chats, upsets>>

LinkLost(t) ==
    /\ chat[t].up /\ upsets < MaxUpsets
    /\ upsets' = upsets + 1
    /\ Becomes(t, [chat[t] EXCEPT !.up = FALSE])
    /\ UNCHANGED <<histFile, toType, serial, happened, chats>>

(* ChatSession._handle_message up to its await: the message is accepted and   *)
(* its acknowledgement sent.                                                  *)
MessageArrives(t) ==
    LET c == chat[t]
    IN /\ Happens(t) /\ c.up
       /\ serial' = serial + 1
       /\ Becomes(t, [c EXCEPT !.acked = Append(@, serial + 1)])
       /\ UNCHANGED <<histFile, toType, chats, upsets>>

(* The rest of the handler: recorded, then emitted to the listener, which     *)
(* ChatApp removes when it leaves.  A record that raises ends the handler     *)
(* before the message is shown.                                               *)
Surfaces(t) ==
    LET c == chat[t]
        next == [c EXCEPT !.acked = Tail(@)]
        m == Head(c.acked)
    IN /\ c.stage \in {"chat", "leaving"} /\ c.acked # <<>>
       /\ Becomes(t, Recorded(next, m))
       /\ RecordedOk(next, m) \/ RecordRaises(next)
       /\ UNCHANGED <<toType, serial, happened, chats>>

(* ChatSession._deliver for the message at the head of the outbox: the first  *)
(* attempt whose send goes through is recorded if it is attempt 1.  A record  *)
(* that raises ends the pump with the rest of the queue waiting.              *)
PumpSends(t) ==
    LET c == chat[t]
        m == Head(c.unsent)
        next == [c EXCEPT !.unsent = Tail(@), !.pump = Tail(c.unsent) # <<>>]
    IN /\ c.stage \in {"chat", "leaving"} /\ c.pump /\ c.up /\ c.unsent # <<>>
       /\ IF m.again
          THEN Becomes(t, next) /\ UNCHANGED <<histFile, upsets>>
          ELSE \/ RecordedOk(next, m.id) /\ Becomes(t, Recorded(next, m.id))
               \/ RecordRaises(next) /\ Becomes(t, [Recorded(next, m.id) EXCEPT !.pump = FALSE])
       /\ UNCHANGED <<toType, serial, happened, chats>>

(* The send raises TransportError: the loop goes on with the next attempt.    *)
PumpSendFails(t) ==
    LET c == chat[t]
    IN /\ c.stage \in {"chat", "leaving"} /\ c.pump /\ c.up /\ c.unsent # <<>>
       /\ ~Head(c.unsent).again /\ upsets < MaxUpsets
       /\ upsets' = upsets + 1
       /\ Becomes(t, [c EXCEPT !.unsent[1].again = TRUE])
       /\ UNCHANGED <<histFile, toType, serial, happened, chats>>

PumpResendsAfresh(t) ==
    LET c == chat[t]
        m == Head(c.unsent)
    IN /\ c.stage \in {"chat", "leaving"} /\ c.pump /\ c.up /\ c.unsent # <<>>
       /\ ~m.again /\ upsets < MaxUpsets
       /\ upsets' = upsets + 1
       /\ histFile' = IF c.mode = "encrypted" THEN Flushed(Recorded(c, m.id)) ELSE histFile
       /\ Becomes(t, Recorded(c, m.id))
       /\ UNCHANGED <<toType, serial, happened, chats>>

(* The acknowledgement does not come: the message is sent once more.  It was  *)
(* recorded at attempt 1 and is not recorded again.                           *)
PumpResends(t) ==
    LET c == chat[t]
        m == Head(c.unsent)
    IN /\ c.stage \in {"chat", "leaving"} /\ c.pump /\ c.up /\ c.unsent # <<>>
       /\ ~m.again /\ upsets < MaxUpsets
       /\ upsets' = upsets + 1
       /\ histFile' = IF c.mode = "encrypted" THEN Flushed(Recorded(c, m.id)) ELSE histFile
       /\ Becomes(t, [Recorded(c, m.id) EXCEPT !.unsent[1].again = TRUE])
       /\ UNCHANGED <<toType, serial, happened, chats>>

(* ------------------------------- transfers ------------------------------ *)
OfferArrives(t) ==
    LET c == chat[t]
    IN /\ Happens(t) /\ c.stage = "chat" /\ c.up
       /\ serial' = serial + 1
       /\ Becomes(t, [c EXCEPT !.offers = <<serial + 1>> \o @])
       /\ UNCHANGED <<histFile, toType, chats, upsets>>

(* The scheduled answer of a bare y or n runs.                                *)
AnswerRuns(t) ==
    LET c == chat[t]
        a == Head(c.answers)
    IN /\ c.stage \in {"chat", "leaving"} /\ c.answers # <<>>
       /\ Becomes(t, Answer([c EXCEPT !.answers = Tail(@)], a[1], a[2]))
       /\ UNCHANGED <<histFile, toType, serial, happened, chats, upsets>>

(* An accepted offer, or a file of our own, completes: one metadata entry.    *)
TransferDone(t) ==
    LET c == chat[t]
    IN /\ Happens(t) /\ c.up
       /\ serial' = serial + 1
       /\ \/ RecordedOk(c, serial + 1)
          \/ RecordRaises(c)
       /\ Becomes(t, Recorded(c, serial + 1))
       /\ UNCHANGED <<toType, chats>>

(* -------------------------------- the end ------------------------------- *)
(* run_chat_session's finally: transfers.close drops the offers and answers,  *)
(* session.close cancels the pump and the handlers, clears the outbox and     *)
(* closes the history.                                                        *)
CloseTransfers(t) ==
    LET c == chat[t]
    IN /\ c.stage = "leaving"
       /\ Becomes(t, [c EXCEPT !.stage = "closing", !.offers = <<>>, !.answers = <<>>])
       /\ UNCHANGED <<histFile, toType, serial, happened, chats, upsets>>

CloseSession(t) ==
    LET c == chat[t]
    IN /\ c.stage = "closing"
       /\ Becomes(t, HistoryClosed([NoChat EXCEPT !.mode = c.mode, !.key = c.key,
                                             !.kept = c.kept]))
       /\ UNCHANGED <<histFile, toType, serial, happened, chats, upsets>>

(* The process is killed: memory is gone, the file is what the last rename    *)
(* left.                                                                      *)
Killed(t) ==
    /\ chat[t].stage # "closed" /\ upsets < MaxUpsets
    /\ upsets' = upsets + 1
    /\ Becomes(t, NoChat)
    /\ UNCHANGED <<histFile, toType, serial, happened, chats>>

ConsoleStep(t) == ReadLine(t) \/ LooksAtThread(t) \/ CloseTransfers(t) \/ CloseSession(t)

ConsoleInit ==
    /\ histFile = NoFile
    /\ chat = [t \in Terminals |-> NoChat]
    /\ toType \in Scripts
    /\ serial = 0 /\ happened = 0 /\ chats = 0 /\ upsets = 0

ConsoleNext ==
    \E t \in Terminals :
        \/ RunChatSession(t)
        \/ ReadsLine(t) \/ ReadsEof(t)
        \/ ConsoleStep(t)
        \/ LinkUp(t) \/ LinkLost(t)
        \/ MessageArrives(t) \/ Surfaces(t)
        \/ PumpSends(t) \/ PumpSendFails(t) \/ PumpResends(t)
        \/ OfferArrives(t) \/ AnswerRuns(t) \/ TransferDone(t)
        \/ Killed(t)

ConsoleFairness == \A t \in Terminals : WF_ccvars(ConsoleStep(t))

ConsoleSpec == ConsoleInit /\ [][ConsoleNext]_ccvars /\ ConsoleFairness

(* ------------------------------ properties ------------------------------ *)
LineNumbers(lines) == [i \in DOMAIN lines |-> lines[i].no]

InMessages(c) == FlattenSeq([i \in DOMAIN c.handed |-> LineNumbers(c.handed[i].lines)])

Waiting(c) == SelectSeq(LineNumbers(c.lines), LAMBDA n : n # 0)

(* Every line the keyboard thread read is in exactly one place: a message     *)
(* given to the session, the draft, the queue, or dealt with as a command,    *)
(* an answer or a blank; and the lines of the messages, the draft and the     *)
(* queue are in the order they were typed.                                    *)
LinesDealtOnce(c) ==
    LET text == InMessages(c) \o LineNumbers(c.draft) \o Waiting(c)
    IN /\ \A i, j \in DOMAIN text : i < j => text[i] < text[j]
       /\ Range(text) \cap c.dealt = {}
       /\ Range(text) \cup c.dealt = 1 .. c.typed

(* The history never holds an entry twice or more than its cap; a chat that   *)
(* is over holds neither entries nor the key; the file is only ever sealed    *)
(* with the user's key, and while nothing failed it holds what memory holds.  *)
HistoryHonest(c) ==
    /\ Len(c.kept) <= HistoryCap /\ IsInjective(c.kept)
    /\ c.stage = "closed" => c.kept = <<>> /\ c.key # "passphrase"
    /\ histFile # NoFile => histFile.key = "passphrase"
    /\ c.mode = "encrypted" /\ c.stage \notin {"closed"} /\ upsets = 0 /\ Cardinality(Terminals) = 1
          => histFile.kept = c.kept

(* ChatApp and the history backend, at every moment of every chat: no typed   *)
(* line is lost, doubled or reordered on its way to the session               *)
(* (_handle_line, read_line), no offer is both accepted and rejected by lines *)
(* typed quickly one after the other (_maybe_answer_offer), and the history   *)
(* is honest (BaseHistory._append, EncryptedHistory._flush and close).        *)
ConsoleSafe ==
    \A t \in Terminals :
        LET c == chat[t]
        IN /\ LinesDealtOnce(c)
           /\ HistoryHonest(c)
           /\ \A a, b \in c.settled : a[1] = b[1] => a = b

(* The encrypted file only grows: a step leaves it alone or extends it, and   *)
(* an entry leaves it only because newer ones fill the cap (record and        *)
(* _flush rewrite the whole file; open() refuses a wrong passphrase).         *)
ChatHistoryStep ==
    \E n \in 0 .. Len(histFile'.kept) :
        histFile'.kept = Newest(histFile.kept \o Newest(histFile'.kept, n), HistoryCap)
HistoryGrows == [][ChatHistoryStep]_ccvars

(* End of file or Ctrl+C at the prompt ends the chat, whatever is queued, in  *)
(* flight or failing (ChatApp.run, read_line, the finally of                  *)
(* run_chat_session).                                                         *)
EofLeaves ==
    \A t \in Terminals :
        (chat[t].keyboard \in {"dead", "gone"} /\ chat[t].stage = "chat")
            ~> chat[t].stage = "closed"

(* "The next raw input line; None on EOF / Ctrl+C / stop" (InputSource): when *)
(* read_line says None no line is left unread.                                *)
NoneComesLast ==
    \A t \in Terminals : chat[t].ended => Waiting(chat[t]) = <<>>

(* "local `/` commands never touch the wire" (ui/chat.py): no line that       *)
(* starts with a slash is handed to the session.                              *)
SlashStaysLocal ==
    \A t \in Terminals : \A i \in DOMAIN chat[t].handed :
        \A j \in DOMAIN chat[t].handed[i].lines :
            chat[t].handed[i].lines[j].kind \notin Slash

=============================================================================
