--------------------------------- MODULE Mcp ---------------------------------
(***************************************************************************)
(* The app's MCP server for agents (commands/mcp.rs, crates/core/src/      *)
(* mcp.rs): ensure brings it in line with the setting, agents get its      *)
(* address in their environment or from the files install writes.  The     *)
(* lines of Codex's config.toml are "ours" (the header of our table),      *)
(* "key", "other" (another table's header) and "blank".                    *)
(***************************************************************************)
EXTENDS Naturals, Sequences, SequencesExt

CONSTANTS
    Ports,          \* ports there are
    MaxSteps,       \* bound: switches, app starts and installs
    Foreign,        \* whether other programs take ports
    Configs         \* config.toml files an install may find

NoServer == [up |-> FALSE]

VARIABLES
    on,         \* settings.features.mcp
    server,     \* the listener: its port and token
    env,        \* what agent_env hands out
    ensuring,   \* the ensure call that has the server lock: its step
    port_json, secret,      \* mcp.json and the stored token; 0 is none
    fresh,      \* tokens made so far
    taken,      \* ports other programs listen on
    handed,     \* ghost: environments agents were started with
    unsaved,    \* ghost: addresses whose token or port could not be kept
    installed,  \* Claude's entry: address, or NoServer
    config,     \* Codex's config.toml
    steps

mcpVars == <<on, server, env, ensuring, port_json, secret, fresh, taken, handed, unsaved, installed, config, steps>>

McpInit ==
    /\ on \in BOOLEAN /\ server = NoServer /\ env = NoServer /\ ensuring = "no"
    /\ port_json = 0 /\ secret = 0 /\ fresh = 0 /\ taken = {} /\ handed = {} /\ unsaved = {}
    /\ installed = NoServer /\ config \in Configs /\ steps = 0

Step == steps < MaxSteps /\ steps' = steps + 1
-----------------------------------------------------------------------------
Switch ==   \* update_settings
    /\ Step /\ on' = ~on
    /\ UNCHANGED <<server, env, ensuring, port_json, secret, fresh, taken, handed, unsaved, installed, config>>

(* ensure: in setup, and before mcp_status and mcp_install.  A server that *)
(* is not wanted stops with its drop.                                      *)
EnsureBegins ==
    /\ ensuring = "no" /\ on # server.up
    /\ server' = NoServer /\ ensuring' = IF on THEN "start" ELSE "env"
    /\ UNCHANGED <<on, env, port_json, secret, fresh, taken, handed, unsaved, installed, config, steps>>

tokenNew(n) == n
token(n) == IF secret # 0 THEN secret ELSE n

(* McpServer::start: another port when the saved one is taken; 0 asks for  *)
(* any.                                                                    *)
Binds ==
    LET free == Ports \ (taken \cup {0})
    IN IF port_json \in free THEN {port_json} ELSE free

(* A failed start leaves the server down.  A token or a port that cannot   *)
(* be saved is a warning, and the server runs.                             *)
EnsureStarts ==
    /\ ensuring = "start" /\ server.up = FALSE
    /\ LET t == token(fresh + 1)
       IN \/ \E p \in Binds :
               /\ server' = [up |-> TRUE, port |-> p, token |-> t]
               /\ secret' \in {secret, t}
               /\ port_json' \in IF p = port_json THEN {p} ELSE {p, port_json, 0}
               /\ fresh' = IF t = fresh + 1 THEN t ELSE fresh
               /\ unsaved' = IF port_json' = p /\ secret' = t THEN unsaved \ {server'} ELSE unsaved \cup {server'}
               /\ ensuring' = "env"
          \/ /\ ensuring' = "no" /\ UNCHANGED <<server, port_json, unsaved>>
             /\ \/ UNCHANGED <<secret, fresh>>
                \/ secret' = t /\ fresh' = IF t = fresh + 1 THEN t ELSE fresh
    /\ UNCHANGED <<on, env, taken, handed, installed, config, steps>>

EnsureEndsEarly ==   \* the environment left when the server was dropped
    /\ ensuring = "env" /\ ensuring' = "no" /\ env' = IF server.up THEN server ELSE env
    /\ UNCHANGED <<on, server, port_json, secret, fresh, taken, handed, unsaved, installed, config, steps>>

EnsureEnds ==
    /\ ensuring = "env" /\ ensuring' = "no" /\ env' = server
    /\ UNCHANGED <<on, server, port_json, secret, fresh, taken, handed, unsaved, installed, config, steps>>

AgentStarts ==   \* prepare_agent takes agent_env
    /\ env.up /\ handed' = handed \cup {env}
    /\ UNCHANGED <<on, server, env, ensuring, port_json, secret, fresh, taken, unsaved, installed, config, steps>>

AppRestarts ==
    /\ Step /\ server' = NoServer /\ env' = NoServer /\ ensuring' = "no"
    /\ UNCHANGED <<on, port_json, secret, fresh, taken, handed, unsaved, installed, config>>

PortTaken(p) ==
    /\ Foreign /\ Step /\ ~(server.up /\ server.port = p) /\ taken' = (taken \ {p}) \cup ({p} \ taken)
    /\ UNCHANGED <<on, server, env, ensuring, port_json, secret, fresh, handed, unsaved, installed, config>>

-----------------------------------------------------------------------------
(* install                                                                 *)

codex_start == SelectInSeq(config, LAMBDA line : line = "ours")
codex_end ==   \* where the next table begins, or after the last line
    LET next == SelectInSubSeq(config, codex_start + 1, Len(config), LAMBDA line : line \in {"ours", "other"})
    IN IF next = 0 THEN Len(config) + 1 ELSE next

table == <<"ours", "key", "key">>
updatedBehind == IF config = <<>> THEN table ELSE config \o <<"blank">> \o table

updated ==
    IF codex_start # 0
    THEN SubSeq(config, 1, codex_start - 1) \o table \o <<"blank">> \o SubSeq(config, codex_end, Len(config))
    ELSE IF config = <<>> THEN table ELSE config \o <<"blank">> \o table

(* Claude's entry is removed and added by its own CLI, which may fail      *)
(* between the two; Codex's file is rewritten.                             *)
mcp_install ==
    /\ ensuring = "no" /\ server.up /\ Step
    /\ installed' \in {server, NoServer} /\ config' = updated
    /\ UNCHANGED <<on, server, env, ensuring, port_json, secret, fresh, taken, handed, unsaved>>

-----------------------------------------------------------------------------
McpNext ==
    \/ Switch \/ EnsureBegins \/ EnsureStarts \/ EnsureEnds \/ AgentStarts \/ AppRestarts
    \/ (\E p \in Ports : PortTaken(p)) \/ mcp_install
McpSpec == McpInit /\ [][McpNext]_mcpVars

(* agent_env hands out the running server, or nothing, whenever no ensure  *)
(* is at work: also when a start failed.                                   *)
EnvIsServer == ensuring = "no" => env = server

(* "Kept across runs: Claude Code and Codex are set up with the URL and    *)
(* token once": unless that start could not save its token or its port     *)
(* ("agents need setting up again"), the token an agent was started or set *)
(* up with is that of every later server, and its port too while no other  *)
(* program takes it, over switches, failed starts and runs of the app.     *)
AgentsReach ==
    server.up => \A a \in (handed \cup {installed}) \ unsaved :
        a.up => a.token = server.token /\ (a.port = server.port \/ Foreign)

Others(lines) ==   \* the tables that are not ours, headers and keys
    LET mine(i) == \E j \in 1..i : /\ lines[j] = "ours" /\ \A k \in j + 1..i : lines[k] # "other"
        kept == SelectSeq([i \in 1..Len(lines) |-> i], LAMBDA i : lines[i] # "blank" /\ ~mine(i))
    IN [i \in 1..Len(kept) |-> lines[kept[i]]]

(* An install leaves one table of ours in Codex's config and every other   *)
(* table, wherever ours stood.                                             *)
KeepsOthers ==
    config' # config => /\ Others(config') = Others(config)
                        /\ Len(SelectSeq(config', LAMBDA line : line = "ours")) = 1
OthersKept == [][KeepsOthers]_mcpVars
=============================================================================
