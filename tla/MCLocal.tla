------------------------------ MODULE MCLocal ------------------------------
(***************************************************************************)
(* What runs on a user's machine around the session: the application with  *)
(* its menus and configuration file, the chat console with its history,    *)
(* the ledger of invites, and the documents of the other commands.  Each   *)
(* is checked on a small instance of its own: `subject` says which one a   *)
(* behaviour is about, and the others rest in one initial state.           *)
(***************************************************************************)
EXTENDS TerminalApp, ChatConsole, InviteLedger, LocalState

CONSTANTS p1, t1

VARIABLE subject

\* A hand-written value at, or past, an edge.
Edges == {[k |-> "config_version", v |-> IntV(2)],
          [k |-> "theme", v |-> StrV("nope")], [k |-> "theme", v |-> StrV("")],
          [k |-> "language", v |-> StrV("xx")], [k |-> "sound", v |-> StrV("yes")],
          [k |-> "data_dir", v |-> StrV("raw")],
          [k |-> "max_cache_mb", v |-> IntV(15)], [k |-> "debug", v |-> IntV(1)],
          [k |-> "url", v |-> StrV("http")], [k |-> "url", v |-> StrV("ws+raw")],
          [k |-> "connect_timeout", v |-> BoolV(1)],
          [k |-> "reconnect_attempts", v |-> IntV(-1)],
          [k |-> "room_lifetime", v |-> IntV(0)],
          [k |-> "default_expiry", v |-> IntV(86400)], [k |-> "max_expiry", v |-> IntV(899)],
          [k |-> "display_name", v |-> StrV("nul")], [k |-> "display_name", v |-> StrV("quoted")],
          [k |-> "history_mode", v |-> StrV("forever")],
          [k |-> "max_file_size_mb", v |-> IntV(128)], [k |-> "max_file_size_mb", v |-> IntV(129)],
          [k |-> "ack_timeout", v |-> BoolV(1)], [k |-> "ack_timeout", v |-> IntV(10)]}

HandWritten == {Whole(e.k :> e.v) : e \in Edges}
                \cup {[Whole(<<>>) EXCEPT !.junk = j] : j \in {"section", "key", "scalar"}}

Case(found, flags, launching, picks, errors) ==
    {[file |-> f, flags |-> {flags}, launches |-> launching, picks |-> picks,
      failures |-> errors] : f \in found}

\* A hand-written file and one edit; a flag and one edit; two launches; two edits.
SmallCases == Case(HandWritten, <<>>, 1, 1, 0)
              \cup Case({Absent}, "theme" :> StrV("noir"), 1, 1, 0)
              \cup Case({Absent}, "data_dir" :> StrV("dir2"), 1, 1, 0)
              \cup Case({Absent}, <<>>, 2, 1, 1) \cup Case({Absent}, <<>>, 1, 2, 0)

\* A draft of two lines and a quoted reply, two answers typed at once, an
\* answer by command, and a text before leaving.
TypedScripts ==
    {<<"more", "text", "/reply">>, <<"yes", "no">>, <<"/accept">>, <<"text", "/exit">>}

localVars == <<subject, tavars, ccvars, ilvars, lsvars>>

LocalRunInit ==
    /\ subject \in {"terminal", "console", "ledger", "documents"}
    /\ TerminalInit /\ ConsoleInit /\ LedgerInit /\ LocalInit
    /\ subject # "terminal" => case.launches = 2
    /\ subject # "console" => toType = <<"/accept">>

LocalRunNext ==
    /\ UNCHANGED subject
    /\ \/ subject = "terminal" /\ TerminalNext /\ UNCHANGED <<ccvars, ilvars, lsvars>>
       \/ subject = "console" /\ ConsoleNext /\ UNCHANGED <<tavars, ilvars, lsvars>>
       \/ subject = "ledger" /\ LedgerNext /\ UNCHANGED <<tavars, ccvars, lsvars>>
       \/ subject = "documents" /\ LocalNext /\ UNCHANGED <<tavars, ccvars, ilvars>>

\* The fairness of the application and of the console, each while it is the subject.
LocalRunSpec ==
    /\ LocalRunInit /\ [][LocalRunNext]_localVars
    /\ \A r \in Runs : WF_tavars(subject = "terminal" /\ ((~proc[r].stdin /\ Screens(r)) \/ Runs_(r)))
    /\ \A t \in Terminals : WF_ccvars(subject = "console" /\ ConsoleStep(t))

\* What is kept on the machine is not undone by a later step: a whole
\* configuration file stays whole, an invite record moves forward, the history
\* of a chat only grows, and neither a room nor an identity is lost
\* (serializer.py, invites/models.py, history.py, storage/).
KeptStaysKept == [][WholeStep /\ RecordStep /\ ChatHistoryStep /\ LocalHistoryStep]_localVars

\* Once standard input is closed the program comes to its end, from any menu
\* (InteractiveMenu.prompt) and from any chat (ChatApp.run, read_line).
EofEnds == EofExits /\ EofLeaves
=============================================================================
