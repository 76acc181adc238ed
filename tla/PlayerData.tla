----------------------------- MODULE PlayerData -----------------------------
(***************************************************************************)
(* What the player dialog shows (player_actions.rs): the UUID of a player  *)
(* from usercache.json, and the player's data from a file of the world,    *)
(* each kept in a cache that is valid while the time of the file stays.    *)
(* The caches are of the whole program, whichever profile is active; calls *)
(* overlap, and the game server writes both files meanwhile.               *)
(*                                                                         *)
(* There is one player.  Every write has a time of its own, so that a      *)
(* content is known by its server and its time; 0 is the time of a file    *)
(* that is not there.                                                      *)
(*                                                                         *)
(* Definitions marked FAULTY are variants, with a plausible bug, of the    *)
(* definition below them; no action uses them.                             *)
(***************************************************************************)
EXTENDS Naturals, FiniteSets

CONSTANTS
    Caller,
    Profile,         \* the profiles, each with a directory of its own
    NoCache,
    MaxWrites,      \* bound: writes of the game servers
    MaxSwitches     \* bound: changes of the active profile

VARIABLES
    profile,        \* the active profile
    users,          \* usercache.json of each server: its time, and is the player in it?
    dat,            \* the time of the player's data in each world
    usercache,      \* USERCACHE
    playerCache,    \* PLAYER_CACHE, of the one player
    call,
    writes, switches

files == <<profile, users, dat, writes, switches>>
caches == <<usercache, playerCache>>
vars == <<files, caches, call>>

\* Every server was played before, its files saved at times of their own.
File == Profile \X {"users", "dat"}
Saved == CHOOSE t \in [File -> 1..Cardinality(File)] : \A f, g \in File : t[f] = t[g] => f = g

Time == 0..(Cardinality(File) + MaxWrites)
Now == Cardinality(File) + writes
Content == [of : Profile, at : Time]
Idle == [step |-> "idle"]
Kind == {"data", "inventory", "uuid", "invalidate"}
Step == {"look", "read", "store", "find", "time", "cached", "load", "keep", "drop", "answer"}

TypeOK ==
    /\ profile \in Profile
    /\ users \in [Profile -> [at : Time, known : BOOLEAN]]
    /\ dat \in [Profile -> Time]
    /\ usercache \in [mtime : Content, entries : Content, known : BOOLEAN] \cup {NoCache}
    /\ playerCache \in [mtime : Content, data : Content] \cup {NoCache}
    /\ \A c \in Caller : call[c] = Idle \/ (call[c].step \in Step /\ call[c].kind \in Kind)
    /\ writes \in 0..MaxWrites /\ switches \in 0..MaxSwitches

Init ==
    /\ profile \in Profile
    /\ users = [s \in Profile |-> [at |-> Saved[<<s, "users">>], known |-> TRUE]]
    /\ dat = [s \in Profile |-> Saved[<<s, "dat">>]]
    /\ usercache = NoCache /\ playerCache = NoCache
    /\ call = [c \in Caller |-> Idle]
    /\ writes = 0 /\ switches = 0

-----------------------------------------------------------------------------
(***************************************************************************)
(* The game servers and the user.                                          *)
(***************************************************************************)

\* A server saves the names it knows, or the player's data.
Write(s) ==
    /\ writes < MaxWrites /\ writes' = writes + 1
    /\ \/ /\ \E known \in BOOLEAN : users' = [users EXCEPT ![s] = [at |-> Now + 1, known |-> known]]
          /\ UNCHANGED dat
       \/ dat' = [dat EXCEPT ![s] = Now + 1] /\ UNCHANGED users
    /\ UNCHANGED <<profile, caches, call, switches>>

\* The world is removed, with the player's data.
Remove(s) ==
    /\ writes < MaxWrites /\ writes' = writes + 1
    /\ dat' = [dat EXCEPT ![s] = 0]
    /\ UNCHANGED <<profile, users, caches, call, switches>>

Switch ==
    /\ switches < MaxSwitches /\ switches' = switches + 1
    /\ profile' \in Profile \ {profile}
    /\ UNCHANGED <<users, dat, caches, call, writes>>

-----------------------------------------------------------------------------
(***************************************************************************)
(* resolve_uuid.                                                           *)
(***************************************************************************)

Calls(c, step) == call[c] # Idle /\ call[c].step = step
Goto(c, step) == call' = [call EXCEPT ![c].step = step]
Answer(c, from) == call' = [call EXCEPT ![c].step = "answer", ![c].answer = from]

\* invalidate_player_cache holds PLAYER_CACHE all along.
Held == \E c \in Caller : call[c] # Idle /\ call[c].kind = "invalidate" /\ call[c].step # "answer"

\* The path of the server, and the time of its usercache.json, which is there.
\* To drop a player whom nothing is cached of is allowed here too: it changes nothing.
\* `alone', `names' and `data' are history: does no other call overlap this one, and
\* the times of the files when it began?
Begin(c, kind) ==
    /\ call[c] = Idle
    /\ kind = "invalidate" => ~Held
    /\ LET alone == \A d \in Caller : call[d] = Idle
       IN call' = [d \in Caller |->
            CASE d = c -> [step |-> "look", kind |-> kind, server |-> profile,
                           mtime |-> [of |-> profile, at |-> users[profile].at],
                           entries |-> NoCache, known |-> FALSE, answer |-> NoCache,
                           alone |-> alone, names |-> users[profile].at, data |-> dat[profile]]
              [] d # c /\ call[d] # Idle -> [call[d] EXCEPT !.alone = FALSE]
              [] OTHER -> Idle]
    /\ UNCHANGED <<files, caches>>

\* What follows when the player was looked up in the entries.
Resolved(c, entries, known) ==
    call' = [call EXCEPT ![c].entries = entries,
                         ![c].step = IF ~known \/ call[c].kind = "uuid" THEN "answer"
                                     ELSE IF call[c].kind = "invalidate" THEN "drop" ELSE "time"]

Look(c) ==
    /\ Calls(c, "look")
    /\ IF usercache # NoCache /\ usercache.mtime.at = call[c].mtime.at
       THEN Resolved(c, usercache.entries, usercache.known)
       ELSE Goto(c, "read")
    /\ UNCHANGED <<files, caches>>

\* A file that is just being written cannot be parsed.
Read(c) ==
    /\ Calls(c, "read")
    /\ \/ call' = [call EXCEPT ![c].step = "store",
                               ![c].entries = [of |-> call[c].server, at |-> users[call[c].server].at],
                               ![c].known = users[call[c].server].known]
       \/ Answer(c, NoCache)
    /\ UNCHANGED <<files, caches>>

\* A file's content is kept under the time that was read before it.
TimedAfterwards(c) == [call[c].mtime EXCEPT !.at = users[call[c].server].at] \* FAULTY
Timed(c) == call[c].mtime

Store(c) ==
    /\ Calls(c, "store")
    /\ usercache' = [mtime |-> Timed(c), entries |-> call[c].entries, known |-> call[c].known]
    /\ Goto(c, "find")
    /\ UNCHANGED <<files, playerCache>>

\* The lock was given back: the cache may be that of another call by now.
Find(c) ==
    /\ Calls(c, "find")
    /\ Resolved(c, usercache.entries, usercache.known)
    /\ UNCHANGED <<files, caches>>

-----------------------------------------------------------------------------
(***************************************************************************)
(* get_player_full_data, get_player_inventory_only.                        *)
(***************************************************************************)

ReadTime(c) ==
    /\ Calls(c, "time")
    /\ call' = [call EXCEPT ![c].step = "cached",
                            ![c].mtime = [of |-> call[c].server, at |-> dat[call[c].server]]]
    /\ UNCHANGED <<files, caches>>

Cached(c) ==
    /\ Calls(c, "cached") /\ ~Held
    /\ IF playerCache # NoCache /\ playerCache.mtime.at = call[c].mtime.at
       THEN Answer(c, playerCache.data)
       ELSE Goto(c, "load")
    /\ UNCHANGED <<files, caches>>

Load(c) ==
    /\ Calls(c, "load")
    /\ \/ /\ dat[call[c].server] # 0
          /\ call' = [call EXCEPT ![c].step = IF call[c].kind = "data" THEN "keep" ELSE "answer",
                                  ![c].answer = [of |-> call[c].server, at |-> dat[call[c].server]]]
       \/ Answer(c, NoCache)
    /\ UNCHANGED <<files, caches>>

Keep(c) ==
    /\ Calls(c, "keep") /\ ~Held
    /\ playerCache' = [mtime |-> call[c].mtime, data |-> call[c].answer]
    /\ Goto(c, "answer")
    /\ UNCHANGED <<files, usercache>>

Drop(c) ==
    /\ Calls(c, "drop")
    /\ playerCache' = NoCache
    /\ Goto(c, "answer")
    /\ UNCHANGED <<files, usercache>>

Return(c) ==
    /\ Calls(c, "answer")
    /\ call' = [call EXCEPT ![c] = Idle]
    /\ UNCHANGED <<files, caches>>

Next ==
    \/ \E s \in Profile : Write(s) \/ Remove(s)
    \/ Switch
    \/ \E c \in Caller :
        \/ \E kind \in Kind : Begin(c, kind)
        \/ Look(c) \/ Read(c) \/ Store(c) \/ Find(c)
        \/ ReadTime(c) \/ Cached(c) \/ Load(c) \/ Keep(c) \/ Drop(c) \/ Return(c)

Spec == Init /\ [][Next]_vars

-----------------------------------------------------------------------------
(***************************************************************************)
(* Properties.                                                             *)
(***************************************************************************)

Current(content, server, time) == content.of = server /\ content.at >= time

\* A call that no other overlaps answers with names and data of the server that is
\* active, none older than the files were when it began, whatever was cached for other
\* profiles before, as long as the player's file is there.
LoneAnswerIsCurrent ==
    \A c \in Caller : Calls(c, "answer") /\ call[c].alone =>
        /\ (call[c].entries # NoCache => Current(call[c].entries, call[c].server, call[c].names))
        /\ (call[c].answer # NoCache /\ call[c].mtime.at # 0 =>
              Current(call[c].answer, call[c].server, call[c].data))

\* Whatever overlaps, no content is kept under a later time than its own: what is stale
\* in a cache is found out by the next call.
CachesAreNotOlder ==
    /\ (usercache # NoCache => Current(usercache.entries, usercache.mtime.of, usercache.mtime.at))
    /\ (playerCache # NoCache => Current(playerCache.data, playerCache.mtime.of, playerCache.mtime.at))

(***************************************************************************)
(* Properties that the code does not have.                                 *)
(***************************************************************************)

\* Each answer is current, also of calls that overlap: the look-up after a miss reads
\* what the other call has stored meanwhile, for an earlier file or another profile.
AnswerIsCurrent ==
    \A c \in Caller : Calls(c, "answer") /\ call[c].entries # NoCache =>
        Current(call[c].entries, call[c].server, call[c].names)

\* No data is kept under the time of a file that is not there: it would be shown for
\* every later file that is not there either.
ShownIsThere == playerCache # NoCache => playerCache.mtime.at # 0
=============================================================================
