----------------------------- MODULE RemoteAccess -----------------------------
(***************************************************************************)
(* The remote-control service (remote.rs), the Cloudflare tunnel to it     *)
(* (cloudflare.rs) and the address that playit.gg gives a game             *)
(* (playit.rs).  The tunnel is a process of its own, known by its port;    *)
(* what the program knows of it, `tunnel`, is written by the call that     *)
(* started it, by the readers of its output and by a task that waits for   *)
(* its end.                                                                *)
(*                                                                         *)
(* Definitions marked FAULTY are variants, with a plausible bug, of the    *)
(* definition below them; no action uses them.                             *)
(***************************************************************************)
EXTENDS Naturals, Sequences

CONSTANTS
    Caller,         \* the calls that start or stop the tunnel
    Process,        \* cloudflared processes, each started once
    Port, Token,
    NoProcess, NoToken,
    MaxChanges      \* bound: changes of the settings, and crashes

VARIABLES
    settings,   \* enabled, port and token of the configuration
    service,    \* the token that the listening service checks, or NoToken
    proc,       \* each process: none, living, dying (told to stop) or ended
    port,       \* the port that each process serves
    waiter,     \* the processes whose end a task waits for
    tunnel,     \* CloudflareTunnelState: running, pid and url
    binary,     \* the cached cloudflared
    call,       \* where each call is, and the process that it started
    missed,     \* history: processes that a start could not find to kill
    changes

vars == <<settings, service, proc, port, waiter, tunnel, binary, call, missed, changes>>

Stopped == [running |-> FALSE, pid |-> NoProcess, url |-> NoProcess]
Idle == [step |-> "idle", started |-> NoProcess, port |-> CHOOSE p \in Port : TRUE]

Step == {"idle", "stop", "strays", "ensure", "spawn", "track", "await"}

TypeOK ==
    /\ settings \in [enabled : BOOLEAN, port : Port, token : Token \cup {NoToken}]
    /\ service \in Token \cup {NoToken}
    /\ proc \in [Process -> {"none", "living", "dying", "ended"}]
    /\ port \in [Process -> Port]
    /\ waiter \subseteq Process
    /\ tunnel \in [running : BOOLEAN, pid : Process \cup {NoProcess}, url : Process \cup {NoProcess}]
    /\ binary \in {"none", "partial", "whole"}
    /\ call \in [Caller -> [step : Step, started : Process \cup {NoProcess}, port : Port]]
    /\ missed \subseteq Process
    /\ changes \in 0..MaxChanges

Init ==
    /\ settings \in [enabled : {TRUE}, port : Port, token : Token]
    /\ service = NoToken
    /\ proc = [p \in Process |-> "none"]
    /\ port = [p \in Process |-> CHOOSE q \in Port : TRUE]
    /\ waiter = {}
    /\ tunnel = Stopped
    /\ binary = "none"
    /\ call = [c \in Caller |-> Idle]
    /\ missed = {}
    /\ changes = 0

Goto(c, step) == call' = [call EXCEPT ![c].step = step]
Return(c) == call' = [call EXCEPT ![c] = Idle]
Alive(p) == proc[p] \in {"living", "dying"}
Signalled(p) == [proc EXCEPT ![p] = IF Alive(p) THEN "dying" ELSE @]

-----------------------------------------------------------------------------
(***************************************************************************)
(* The service.                                                            *)
(***************************************************************************)

\* authorized, and the answers that need no token.
Authorized(request, token) == token # NoToken /\ request.token = token

Answer(request) ==
    CASE request.path \in {"/", "/status"} /\ request.method = "GET" -> 200
      [] request.path \notin {"/", "/status"} /\ ~Authorized(request, service) -> 401
      [] OTHER -> 200

\* sync, which holds its locks throughout: a service that listens and checks
\* the present token is kept; the port may be taken.
Synced ==
    \/ settings.enabled /\ service = settings.token /\ service # NoToken /\ service' = service
    \/ settings.enabled /\ settings.token # NoToken /\ service' \in {settings.token, NoToken}
    \/ ~(settings.enabled /\ settings.token # NoToken) /\ service' = NoToken

Sync(c) ==
    /\ call[c].step = "idle"
    /\ Synced
    /\ IF service' = NoToken
       THEN Return(c)
       ELSE call' = [call EXCEPT ![c].step = "stop", ![c].port = settings.port]
    /\ UNCHANGED <<settings, proc, port, waiter, tunnel, binary, missed, changes>>

StopService ==
    /\ service # NoToken
    /\ service' = NoToken
    /\ UNCHANGED <<settings, proc, port, waiter, tunnel, binary, call, missed, changes>>

-----------------------------------------------------------------------------
(***************************************************************************)
(* start_quick_tunnel.                                                     *)
(***************************************************************************)

\* stop_quick_tunnel, as a step of a start or as a call of its own.
Stopping ==
    /\ proc' = IF tunnel.pid = NoProcess THEN proc ELSE Signalled(tunnel.pid)
    /\ tunnel' = Stopped

StopTracked(c) ==
    /\ call[c].step = "stop"
    /\ Stopping
    /\ Goto(c, "strays")
    /\ UNCHANGED <<settings, service, port, waiter, binary, missed, changes>>

Stop ==
    /\ Stopping
    /\ UNCHANGED <<settings, service, port, waiter, binary, call, missed, changes>>

StraysLeft(on) == proc \* FAULTY
StraysKilled(on) ==
    [p \in Process |-> IF Alive(p) /\ port[p] = on THEN "ended" ELSE proc[p]]

\* kill_stray_cloudflareds: every process of the port, tracked or not; on Windows,
\* and where there is no pgrep, none.
KillStrays(c) ==
    /\ call[c].step = "strays"
    /\ \/ proc' = StraysKilled(call[c].port) /\ UNCHANGED missed
       \/ missed' = missed \cup {p \in Process : Alive(p) /\ port[p] = call[c].port} /\ UNCHANGED proc
    /\ Goto(c, "ensure")
    /\ UNCHANGED <<settings, service, port, waiter, tunnel, binary, changes>>

\* ensure_cloudflared takes what is there; a download is written in place.
Ensure(c) ==
    /\ call[c].step = "ensure"
    /\ \/ binary # "none" /\ UNCHANGED binary /\ Goto(c, "spawn")
       \/ binary = "none" /\ binary' = "whole" /\ Goto(c, "spawn")
       \/ binary = "none" /\ binary' \in {"none", "partial"} /\ Return(c)
    /\ UNCHANGED <<settings, service, proc, port, waiter, tunnel, missed, changes>>

Spawn(c) ==
    /\ call[c].step = "spawn"
    /\ \/ \E p \in Process :
            /\ binary = "whole" /\ proc[p] = "none"
            /\ proc' = [proc EXCEPT ![p] = "living"]
            /\ port' = [port EXCEPT ![p] = call[c].port]
            /\ call' = [call EXCEPT ![c].step = "track", ![c].started = p]
       \/ binary = "partial" /\ Return(c) /\ UNCHANGED <<proc, port>>
    /\ UNCHANGED <<settings, service, waiter, tunnel, binary, missed, changes>>

\* The state, then the readers and the task that waits.
Track(c) ==
    /\ call[c].step = "track"
    /\ tunnel' = [running |-> TRUE, pid |-> call[c].started, url |-> NoProcess]
    /\ waiter' = waiter \cup {call[c].started}
    /\ Goto(c, "await")
    /\ UNCHANGED <<settings, service, proc, port, binary, missed, changes>>

\* The address arrives, from a process that may have ended since, or 35 seconds pass.
Await(c) ==
    /\ call[c].step = "await"
    /\ \/ tunnel' = [tunnel EXCEPT !.running = TRUE, !.url = call[c].started]
       \/ UNCHANGED tunnel
    /\ Return(c)
    /\ UNCHANGED <<settings, service, proc, port, waiter, binary, missed, changes>>

-----------------------------------------------------------------------------
(***************************************************************************)
(* The process and its tasks.                                              *)
(***************************************************************************)

End(p) ==
    /\ Alive(p)
    /\ proc' = [proc EXCEPT ![p] = "ended"]
    /\ UNCHANGED <<settings, service, port, waiter, tunnel, binary, call, missed, changes>>

\* spawn_cloudflared_reader.
ReadUrl(p) ==
    /\ p \in waiter
    /\ proc[p] \in {"living", "dying", "ended"}
    /\ tunnel.url # p
    /\ tunnel' = [tunnel EXCEPT !.url = p]
    /\ UNCHANGED <<settings, service, proc, port, waiter, binary, call, missed, changes>>

\* The task writes the state of whatever tunnel there is by then.
NoticeEnd(p) ==
    /\ p \in waiter
    /\ proc[p] = "ended"
    /\ waiter' = waiter \ {p}
    /\ tunnel' = [tunnel EXCEPT !.running = FALSE, !.pid = NoProcess]
    /\ UNCHANGED <<settings, service, proc, port, binary, call, missed, changes>>

Configure ==
    /\ changes < MaxChanges
    /\ changes' = changes + 1
    /\ settings' \in [enabled : BOOLEAN, port : Port, token : Token \cup {NoToken}]
    /\ UNCHANGED <<service, proc, port, waiter, tunnel, binary, call, missed>>

\* The processes survive the program, and may have been cut short by it.
Crash ==
    /\ changes < MaxChanges
    /\ changes' = changes + 1
    /\ service' = NoToken
    /\ waiter' = {}
    /\ tunnel' = Stopped
    /\ binary' \in {binary, IF \E c \in Caller : call[c].step = "ensure" /\ binary = "none"
                            THEN "partial" ELSE binary}
    /\ call' = [c \in Caller |-> Idle]
    /\ UNCHANGED <<settings, proc, port, missed>>

Next ==
    \/ \E c \in Caller :
        \/ Sync(c) \/ StopTracked(c) \/ KillStrays(c) \/ Ensure(c) \/ Spawn(c)
        \/ Track(c) \/ Await(c)
    \/ \E p \in Process : End(p) \/ ReadUrl(p) \/ NoticeEnd(p)
    \/ Stop \/ StopService \/ Configure \/ Crash

Spec == Init /\ [][Next]_vars

-----------------------------------------------------------------------------
(***************************************************************************)
(* The tunnels of an answer of playit.gg, as [kind, local, address].       *)
(***************************************************************************)

Fits(game, t) ==
    IF game = "Minecraft" THEN t.kind = "minecraft-java"
    ELSE t.kind = "terraria" \/ t.local = 7777

\* query_tunnel_address_for_game: the first that fits, or else the first.
AddressFor(game, tunnels) ==
    LET fitting == SelectSeq(tunnels, LAMBDA t : Fits(game, t))
    IN CASE tunnels = <<>> -> "none"
         [] fitting # <<>> /\ Head(fitting).address # "none" -> Head(fitting).address
         [] OTHER -> Head(tunnels).address

-----------------------------------------------------------------------------
\* With one start at a time, a port has one tunnel: neither a restart, nor a
\* crash of the program, nor what its late tasks write about an older process
\* leaves a second one running, but for those that a start had no means to find.
OneTunnel ==
    \A p, q \in Process \ missed : proc[p] = "living" /\ proc[q] = "living" /\ port[p] = port[q] => p = q

(***************************************************************************)
(* Properties that the code does not have.                                 *)
(***************************************************************************)

\* A tunnel that lives is the one that a stop would end.
StopFindsTunnel ==
    \A p \in waiter : proc[p] = "living" => tunnel.pid = p

\* The cached binary is never half of one.
BinaryIsWhole == binary # "partial"

\* A game is not given the address of another game's tunnel.
AddressFits(game, tunnels) ==
    \A k \in DOMAIN tunnels :
        AddressFor(game, tunnels) = tunnels[k].address => Fits(game, tunnels[k])
=============================================================================
