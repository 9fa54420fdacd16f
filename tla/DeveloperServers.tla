---------------------------- MODULE DeveloperServers ----------------------------
(***************************************************************************)
(* `ghostlink developer` against the portal: the two development servers   *)
(* it starts and stops (developer_portal/server.py), the record it keeps   *)
(* of their process ids, and the token store that pair, login and logout   *)
(* write (developer_portal/store.py, cli/commands/developer_portal.py).    *)
(*                                                                         *)
(* Commands of several terminals interleave at every probe, spawn, signal  *)
(* and file write.  A server binds its one port when it comes up, or dies  *)
(* because another holds it.  Tokens are the number of the grant.  The     *)
(* keys of the account are the subject of DeveloperKeys.                   *)
(***************************************************************************)
EXTENDS DeveloperKeys, Naturals, FiniteSets

CONSTANTS
    Terminals,     \* the terminals
    MaxServers,    \* bound on the processes ever spawned
    MaxDevCommands \* bound on the commands of a behaviour

ASSUME DeveloperServersConstants == MaxServers \in Nat /\ MaxDevCommands \in Nat

VARIABLES
    servers,   \* [process id -> [kind, life]]
    spawned,   \* processes spawned so far
    record,    \* dev_servers.json: [kept, backend, frontend], 0 for a null pid
    node,      \* node and npm are installed
    squatter,  \* another program listens on the backend port
    tokenFile, \* tokens.json: the grant it holds, 0 when cleared
    granted,   \* grants the portal made
    command,   \* [terminal -> the command it runs]
    commands   \* commands so far

dsvars == <<servers, spawned, record, node, squatter, tokenFile, granted, command, commands>>

Kinds == {"backend", "frontend"}
NoRecord == [kept |-> FALSE, backend |-> 0, frontend |-> 0]
NoCommand == [op |-> "none", at |-> "idle", backend |-> 0, frontend |-> 0, grant |-> 0]

DeveloperServersInit ==
    /\ servers = [i \in {} |-> [kind |-> "backend", life |-> "dead"]] /\ spawned = 0
    /\ record = NoRecord /\ node \in BOOLEAN /\ squatter \in BOOLEAN
    /\ tokenFile = 0 /\ granted = 0 /\ command = [t \in Terminals |-> NoCommand] /\ commands = 0

-----------------------------------------------------------------------------
(* The servers. *)

Alive(i) == i # 0 /\ servers[i].life # "dead"
Healthy(kind) == \E i \in DOMAIN servers : servers[i] = [kind |-> kind, life |-> "healthy"]
Listening(kind) ==
    \/ \E i \in DOMAIN servers : servers[i].kind = kind /\ servers[i].life \in {"healthy", "hung"}
    \/ kind = "backend" /\ squatter

\* A spawned server binds its port and answers, or finds it taken and exits.
ComesUp(i) ==
    /\ servers[i].life = "starting"
    /\ servers' = [servers EXCEPT ![i].life = IF Listening(servers[i].kind) THEN "dead" ELSE "healthy"]
    /\ UNCHANGED <<spawned, record, node, squatter, tokenFile, granted, command, commands>>
\* It stops answering, or goes away by itself.
Hangs(i) ==
    /\ servers[i].life = "healthy" /\ servers' = [servers EXCEPT ![i].life = "hung"]
    /\ UNCHANGED <<spawned, record, node, squatter, tokenFile, granted, command, commands>>
Exits(i) ==
    /\ servers[i].life # "dead" /\ servers' = [servers EXCEPT ![i].life = "dead"]
    /\ UNCHANGED <<spawned, record, node, squatter, tokenFile, granted, command, commands>>

-----------------------------------------------------------------------------
(* The commands. *)

CommandAt(t, op, step) == command[t].op = op /\ command[t].at = step
CommandGoes(t, step) == command' = [command EXCEPT ![t].at = step]
Prompt(t) == command' = [command EXCEPT ![t] = NoCommand]

\* run_developer_portal, from the shell or the interactive menu.
BeginCommand(t) ==
    /\ command[t] = NoCommand /\ commands < MaxDevCommands /\ commands' = commands + 1
    /\ \E op \in {"start", "stop", "pair", "logout", "resource"} :
         command' = [command EXCEPT ![t] = [NoCommand EXCEPT !.op = op, !.at = "begin"]]
    /\ UNCHANGED <<servers, spawned, record, node, squatter, tokenFile, granted>>

\* start_developer_services: both recorded processes alive and answering is enough.
StartChecks(t) ==
    /\ CommandAt(t, "start", "begin")
    /\ IF /\ record.kept /\ Alive(record.backend) /\ Healthy("backend")
          /\ Alive(record.frontend) /\ Healthy("frontend")
         THEN Prompt(t) ELSE CommandGoes(t, "backend")
    /\ UNCHANGED <<servers, spawned, record, node, squatter, tokenFile, granted, commands>>

\* The Popen of either server; a port that listens is taken to be it.
Spawns(t, kind, next) ==
    IF Listening(kind) THEN CommandGoes(t, next) /\ UNCHANGED <<servers, spawned>>
    ELSE /\ spawned < MaxServers /\ spawned' = spawned + 1
         /\ servers' = [i \in 1..(spawned + 1) |->
              IF i \in DOMAIN servers THEN servers[i] ELSE [kind |-> kind, life |-> "starting"]]
         /\ command' = [command EXCEPT ![t] = [@ EXCEPT !.at = next, ![kind] = spawned + 1]]

StartBackend(t) ==
    /\ CommandAt(t, "start", "backend") /\ Spawns(t, "backend", "poll")
    /\ UNCHANGED <<record, node, squatter, tokenFile, granted, commands>>

BackendReady(t) ==
    /\ CommandAt(t, "start", "poll") /\ Healthy("backend")
    /\ CommandGoes(t, IF node THEN "frontend" ELSE "save")
    /\ UNCHANGED <<servers, spawned, record, node, squatter, tokenFile, granted, commands>>

BackendTimeoutLeaves(t) ==
    /\ CommandAt(t, "start", "poll") /\ ~Healthy("backend") /\ CommandGoes(t, "failed")
    /\ UNCHANGED <<servers, spawned, record, node, squatter, tokenFile, granted, commands>>

\* The deadline passes: the backend this call spawned gets SIGTERM, which it does not
\* catch, and the call fails.
BackendTimeout(t) ==
    /\ CommandAt(t, "start", "poll") /\ ~Healthy("backend") /\ CommandGoes(t, "failed")
    /\ servers' = IF Alive(command[t].backend)
                    THEN [servers EXCEPT ![command[t].backend].life = "dead"] ELSE servers
    /\ UNCHANGED <<spawned, record, node, squatter, tokenFile, granted, commands>>
StartFailed(t) ==
    /\ CommandAt(t, "start", "failed") /\ Prompt(t)
    /\ UNCHANGED <<servers, spawned, record, node, squatter, tokenFile, granted, commands>>

StartFrontend(t) ==
    /\ CommandAt(t, "start", "frontend") /\ Spawns(t, "frontend", "save")
    /\ UNCHANGED <<record, node, squatter, tokenFile, granted, commands>>

\* Answering or not after the poll, the pids this call spawned are recorded.
SaveServersState(t) ==
    /\ CommandAt(t, "start", "save") /\ Prompt(t)
    /\ record' = [kept |-> TRUE, backend |-> command[t].backend, frontend |-> command[t].frontend]
    /\ UNCHANGED <<servers, spawned, node, squatter, tokenFile, granted, commands>>

\* The Popen of npm or the write of the record raises: _start reports it.
StartBreaks(t) ==
    /\ CommandAt(t, "start", "frontend") \/ CommandAt(t, "start", "save")
    /\ Prompt(t)
    /\ UNCHANGED <<servers, spawned, record, node, squatter, tokenFile, granted, commands>>

\* stop_developer_services: SIGTERM to each recorded process that runs, ...
StopSignals(t) ==
    /\ CommandAt(t, "stop", "begin")
    /\ \E obeys \in SUBSET {i \in {record.backend, record.frontend} : Alive(i)} :
         servers' = [i \in DOMAIN servers |->
                       IF i \in obeys THEN [servers[i] EXCEPT !.life = "dead"] ELSE servers[i]]
    /\ command' = [command EXCEPT ![t] = [@ EXCEPT !.at = "kill", !.backend = record.backend, !.frontend = record.frontend]]
    /\ UNCHANGED <<spawned, record, node, squatter, tokenFile, granted, commands>>

StopKillsNone(t) ==
    /\ CommandAt(t, "stop", "kill") /\ CommandGoes(t, "stopped") /\ record' = NoRecord
    /\ UNCHANGED <<servers, spawned, node, squatter, tokenFile, granted, commands>>

\* ... SIGKILL to those that still run, and the record is removed.
StopKills(t) ==
    /\ CommandAt(t, "stop", "kill") /\ CommandGoes(t, "stopped")
    /\ servers' = [i \in DOMAIN servers |->
                     IF i \in {command[t].backend, command[t].frontend}
                     THEN [servers[i] EXCEPT !.life = "dead"] ELSE servers[i]]
    /\ record' = NoRecord
    /\ UNCHANGED <<spawned, node, squatter, tokenFile, granted, commands>>
StopReturns(t) ==
    /\ CommandAt(t, "stop", "stopped") /\ Prompt(t)
    /\ UNCHANGED <<servers, spawned, record, node, squatter, tokenFile, granted, commands>>

-----------------------------------------------------------------------------
(* The token store. *)

RequestAnyReply(t) ==
    /\ CommandAt(t, "pair", "begin") /\ granted' = granted
    /\ \/ Prompt(t) \/ command' = [command EXCEPT ![t] = [@ EXCEPT !.at = "store", !.grant = granted + 1]]
    /\ UNCHANGED <<servers, spawned, record, node, squatter, tokenFile, commands>>

\* PortalClient._request for pair_complete and token_exchange: only a 2xx reply with
\* a JSON body is a grant; an HTTP error, no network and a broken body are errors.
Request(t) ==
    /\ CommandAt(t, "pair", "begin")
    /\ \/ Prompt(t) /\ UNCHANGED granted
       \/ /\ granted < MaxDevCommands /\ granted' = granted + 1
          /\ command' = [command EXCEPT ![t] = [@ EXCEPT !.at = "store", !.grant = granted + 1]]
    /\ UNCHANGED <<servers, spawned, record, node, squatter, tokenFile, commands>>

\* _pair and _login save what the portal granted; _check_perms may refuse.
StoreTokens(t) ==
    /\ CommandAt(t, "pair", "store") /\ Prompt(t)
    /\ tokenFile' \in {command[t].grant, tokenFile}
    /\ UNCHANGED <<servers, spawned, record, node, squatter, granted, commands>>

Logout(t) ==
    /\ CommandAt(t, "logout", "begin") /\ Prompt(t) /\ tokenFile' = 0
    /\ UNCHANGED <<servers, spawned, record, node, squatter, granted, commands>>

\* _auth_get, then one request of _device, _project, _credential or _security_status.
AuthGet(t) ==
    /\ CommandAt(t, "resource", "begin")
    /\ IF tokenFile = 0 THEN Prompt(t)
       ELSE command' = [command EXCEPT ![t] = [@ EXCEPT !.at = "request", !.grant = tokenFile]]
    /\ UNCHANGED <<servers, spawned, record, node, squatter, tokenFile, granted, commands>>
ResourceReply(t) ==
    /\ CommandAt(t, "resource", "request") /\ Prompt(t)
    /\ UNCHANGED <<servers, spawned, record, node, squatter, tokenFile, granted, commands>>

DeveloperServersNext ==
    \/ \E i \in DOMAIN servers : ComesUp(i) \/ Hangs(i) \/ Exits(i)
    \/ \E t \in Terminals :
         \/ BeginCommand(t) \/ StartChecks(t) \/ StartBackend(t) \/ BackendReady(t) \/ BackendTimeout(t)
         \/ StartFailed(t) \/ StartFrontend(t) \/ SaveServersState(t) \/ StartBreaks(t)
         \/ StopSignals(t) \/ StopKills(t) \/ StopReturns(t)
         \/ Request(t) \/ StoreTokens(t) \/ Logout(t) \/ AuthGet(t) \/ ResourceReply(t)

DeveloperServersSpec == DeveloperServersInit /\ [][DeveloperServersNext]_dsvars

-----------------------------------------------------------------------------
(* DevServersSafe: whatever the terminals interleave, a stop that returns has *)
(* ended the processes the record named, a start that failed has ended the    *)
(* backend it spawned, at most one server of a kind answers, and the tokens   *)
(* in use or stored are ones the portal granted.                              *)
DevServersSafe ==
    /\ \A t \in Terminals :
         /\ CommandAt(t, "stop", "stopped") => ~Alive(command[t].backend) /\ ~Alive(command[t].frontend)
         /\ CommandAt(t, "start", "failed") => ~Alive(command[t].backend)
         /\ command[t].grant \in 0..granted
    /\ \A k \in Kinds : Cardinality({i \in DOMAIN servers : servers[i] = [kind |-> k, life |-> "healthy"]}) <= 1
    /\ tokenFile \in 0..granted

(* StopReachesAll: "Stop running developer processes started by GhostLink":   *)
(* in one terminal, nothing GhostLink spawned outlives a stop.                *)
StopReachesAll ==
    \A t \in Terminals : CommandAt(t, "stop", "stopped") => \A i \in DOMAIN servers : ~Alive(i)

\* The developer commands on a user's machine: bounded active keys and
\* guesses, and a stop that returns has ended the servers the record named
\* (account.py, server.py).
DeveloperSafe == DeveloperKeysSafe /\ DevServersSafe

=============================================================================
