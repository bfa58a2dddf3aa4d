------------------------------ MODULE FlagGate ------------------------------
(***************************************************************************)
(* The group gate of feature flags and the cache it is asked behind:          *)
(* featureFlagService.ts.                                                   *)
(*                                                                         *)
(* One flag and one group it may belong to, as requests of administrators    *)
(* change them under the locks of the two rows; and one server process that   *)
(* is asked whether the flag is on for a user no force override, team opt-out  *)
(* or beta list speaks for.  The process answers from cached rows of flags    *)
(* and asks the database for the group.  Writes of other processes reach its  *)
(* cache by expiry alone.                                                   *)
(***************************************************************************)
EXTENDS Integers

CONSTANTS
    Request,   \* requests of administrators that may overlap
    Asker,     \* questions the process may be answering at once
    Nobody,    \* no holder of a row
    Ttl,       \* CACHE_TTL_MS
    MaxTime,   \* bound: the clock stops here
    MaxEdits   \* bound: requests begun

ASSUME GateConstants ==
    /\ Nobody \notin Request
    /\ Ttl \in Nat \ {0}
    /\ MaxTime \in Nat /\ MaxEdits \in Nat

VARIABLES
    clock,
    group,      \* the group's row: "none", or its enabled as "on", "off"
    member,     \* feature_flags.group_key names the group
    groupLock, flagLock,   \* who holds the rows
    audit,      \* the newest audit entry of the flag's group_key
    cache,      \* the process's cache of flag rows, here member and expiresAt
    at,         \* at[r]: where the request is
    seen,       \* seen[r]: group_key as the request read it under the lock
    edits,
    step,       \* step[a]: where isFlagEnabledForUser is
    has,        \* has[a]: the row it works from, and when a read of its own expires
    asked,      \* asked[a]: when it was asked
    staleAt     \* history: since when the flag is in a group that is off and no
                \* answer with rows from before that has come

admin == <<group, member, groupLock, flagLock, audit, at, seen, edits>>
asking == <<step, has, asked>>
vars == <<clock, group, member, groupLock, flagLock, audit, cache, at, seen, edits,
          step, has, asked, staleAt>>

(* Times as the code compares them; a read can expire after the bound.          *)
Time == 0..(MaxTime + Ttl)
CachedRow == [member : BOOLEAN, expires : Time]
NoCache == [member |-> FALSE, expires |-> 0]   \* null: never valid

TypeOK ==
    /\ clock \in 0..MaxTime
    /\ group \in {"none", "on", "off"}
    /\ member \in BOOLEAN
    /\ groupLock \in Request \cup {Nobody}
    /\ flagLock \in Request \cup {Nobody}
    /\ audit \in [old : BOOLEAN, new : BOOLEAN]
    /\ cache \in CachedRow
    /\ at \in [Request -> {"idle", "joining", "leaving", "deleting", "unassigning"}]
    /\ seen \in [Request -> BOOLEAN]
    /\ edits \in 0..MaxEdits
    /\ step \in [Asker -> {"idle", "reading", "loading", "gate", "yes", "no"}]
    /\ has \in [Asker -> CachedRow]
    /\ asked \in [Asker -> 0..MaxTime]
    /\ staleAt \in 0..MaxTime

Init ==
    /\ clock = 0
    /\ group = "none"
    /\ member = FALSE
    /\ groupLock = Nobody /\ flagLock = Nobody
    /\ audit = [old |-> FALSE, new |-> FALSE]
    /\ cache = NoCache
    /\ at = [r \in Request |-> "idle"]
    /\ seen = [r \in Request |-> FALSE]
    /\ edits = 0
    /\ step = [a \in Asker |-> "idle"]
    /\ has = [a \in Asker |-> NoCache]
    /\ asked = [a \in Asker |-> 0]
    /\ staleAt = 0

TimePasses ==
    /\ clock < MaxTime
    /\ clock' = clock + 1
    /\ UNCHANGED <<admin, cache, asking, staleAt>>

-----------------------------------------------------------------------------
(***************************************************************************)
(* Administrators.  A write empties the cache if this process served it.      *)
(***************************************************************************)
InvalidateCache == cache' \in {NoCache, cache}

Shut == group = "off" /\ member

(* History: when a step closes the gate on the flag.                          *)
NoteShut == staleAt' = IF Shut' THEN IF Shut THEN staleAt ELSE clock ELSE 0

Begin == edits < MaxEdits /\ edits' = edits + 1

CreateFlagGroup ==
    /\ Begin
    /\ group = "none"
    /\ group' = "on"
    /\ InvalidateCache
    /\ UNCHANGED <<clock, member, groupLock, flagLock, audit, at, seen, asking>>
    /\ NoteShut

(* updateFlagGroup, under the lock of the group's row.  An enable_at that       *)
(* comes due lifts the gate as this does.                                   *)
UpdateFlagGroup ==
    /\ Begin
    /\ group # "none" /\ groupLock = Nobody
    /\ group' \in {"on", "off"}
    /\ InvalidateCache
    /\ UNCHANGED <<clock, member, groupLock, flagLock, audit, at, seen, asking>>
    /\ NoteShut

(* updateFeatureFlag with a group_key: the flag's row is locked and read, and    *)
(* the group looked up, without a lock.                                      *)
BeginUpdate(r) ==
    /\ Begin
    /\ at[r] = "idle"
    /\ flagLock = Nobody
    /\ flagLock' = r
    /\ seen' = [seen EXCEPT ![r] = member]
    /\ \/ group # "none" /\ at' = [at EXCEPT ![r] = "joining"]
       \/ at' = [at EXCEPT ![r] = "leaving"]
    /\ UNCHANGED <<clock, group, member, groupLock, audit, cache, asking, staleAt>>

AuditGroupKey(old, new) == audit' = IF old = new THEN audit ELSE [old |-> old, new |-> new]

Done(r) ==
    /\ at' = [at EXCEPT ![r] = "idle"]
    /\ seen' = [seen EXCEPT ![r] = FALSE]

(* The foreign key's check of the group waits for a lock on its row.            *)
CommitJoin(r) ==
    /\ at[r] = "joining"
    /\ group # "none" /\ groupLock = Nobody
    /\ member' = TRUE
    /\ AuditGroupKey(seen[r], TRUE)
    /\ flagLock' = Nobody
    /\ Done(r)
    /\ InvalidateCache
    /\ UNCHANGED <<clock, group, groupLock, edits, asking>>
    /\ NoteShut

CommitLeave(r) ==
    /\ at[r] = "leaving"
    /\ member' = FALSE
    /\ AuditGroupKey(seen[r], FALSE)
    /\ flagLock' = Nobody
    /\ Done(r)
    /\ InvalidateCache
    /\ UNCHANGED <<clock, group, groupLock, edits, asking>>
    /\ NoteShut

(* Any error rolls back; always so if the group has gone.                      *)
UpdateFails(r) ==
    /\ at[r] \in {"joining", "leaving"}
    /\ flagLock' = Nobody
    /\ Done(r)
    /\ UNCHANGED <<clock, group, member, groupLock, audit, cache, edits, asking, staleAt>>

(* Mutant of BeginDelete: the group's row is read without FOR UPDATE.            *)
BeginDeleteUnlocked(r) ==
    /\ Begin
    /\ at[r] = "idle"
    /\ group # "none" /\ groupLock = Nobody
    /\ at' = [at EXCEPT ![r] = "deleting"]
    /\ UNCHANGED <<clock, group, member, groupLock, flagLock, audit, cache, seen, asking, staleAt>>

(* deleteFlagGroup: the group's row is locked first ...                         *)
BeginDelete(r) ==
    /\ Begin
    /\ at[r] = "idle"
    /\ group # "none" /\ groupLock = Nobody
    /\ groupLock' = r
    /\ at' = [at EXCEPT ![r] = "deleting"]
    /\ UNCHANGED <<clock, group, member, flagLock, audit, cache, seen, asking, staleAt>>

(* ... then the flags in it are read and locked ...                             *)
ReadMembers(r) ==
    /\ at[r] = "deleting"
    /\ member => flagLock = Nobody
    /\ flagLock' = IF member THEN r ELSE flagLock
    /\ seen' = [seen EXCEPT ![r] = member]
    /\ at' = [at EXCEPT ![r] = "unassigning"]
    /\ UNCHANGED <<clock, group, member, groupLock, audit, cache, edits, asking, staleAt>>

(* ... and unassigned, with an entry for each that was read; the foreign key     *)
(* clears any other with the group's row, and without an entry.               *)
CommitDelete(r) ==
    /\ at[r] = "unassigning"
    /\ member => flagLock \in {r, Nobody}
    /\ group' = "none"
    /\ member' = FALSE
    /\ AuditGroupKey(seen[r], FALSE)
    /\ groupLock' = Nobody
    /\ flagLock' = IF flagLock = r THEN Nobody ELSE flagLock
    /\ Done(r)
    /\ InvalidateCache
    /\ UNCHANGED <<clock, edits, asking>>
    /\ NoteShut

DeleteFails(r) ==
    /\ at[r] \in {"deleting", "unassigning"}
    /\ groupLock' = Nobody
    /\ flagLock' = IF flagLock = r THEN Nobody ELSE flagLock
    /\ Done(r)
    /\ UNCHANGED <<clock, group, member, audit, cache, edits, asking, staleAt>>

-----------------------------------------------------------------------------
(***************************************************************************)
(* isFlagEnabledForUser.                                                   *)
(***************************************************************************)
Goto(a, where) == step' = [step EXCEPT ![a] = where]

(* A valid cache answers getCachedRows.                                        *)
AskCached(a) ==
    /\ step[a] = "idle"
    /\ cache.expires > clock
    /\ asked' = [asked EXCEPT ![a] = clock]
    /\ has' = [has EXCEPT ![a] = cache]
    /\ Goto(a, "gate")
    /\ UNCHANGED <<clock, admin, cache, staleAt>>

(* Otherwise the database is asked for the rows; what it reads is of this         *)
(* moment, its answer may take any time.                                      *)
LoadRows(a) ==
    /\ step[a] = "idle"
    /\ cache.expires <= clock
    /\ asked' = [asked EXCEPT ![a] = clock]
    /\ has' = [has EXCEPT ![a] = [member |-> member, expires |-> 0]]
    /\ Goto(a, "reading")
    /\ UNCHANGED <<clock, admin, cache, staleAt>>

(* History: an answer that has no group for a flag behind a closed gate.          *)
NoteStale(a) == staleAt' = IF Shut /\ ~has[a].member THEN clock ELSE staleAt

(* Mutant of RowsArrive: an enable_at far off makes the time to live longer.      *)
RowsArriveLong(a) ==
    /\ step[a] = "reading"
    /\ \E ttl \in 1..MaxTime + Ttl : has' = [has EXCEPT ![a].expires = clock + ttl]
    /\ Goto(a, "loading")
    /\ UNCHANGED <<clock, admin, cache, asked>>
    /\ NoteStale(a)

(* The time to live counts from the answer.  It is shorter when an enable_at is  *)
(* near.                                                                     *)
RowsArrive(a) ==
    /\ step[a] = "reading"
    /\ \E ttl \in 1..Ttl : has' = [has EXCEPT ![a].expires = clock + ttl]
    /\ Goto(a, "loading")
    /\ UNCHANGED <<clock, admin, cache, asked>>
    /\ NoteStale(a)

(* Mutant of StoreRows: the time to live counts from the store.                 *)
StoreRowsFresh(a) ==
    /\ step[a] = "loading"
    /\ cache' = [has[a] EXCEPT !.expires = clock + Ttl]
    /\ Goto(a, "gate")
    /\ UNCHANGED <<clock, admin, has, asked, staleAt>>

(* After a second query they are stored, whatever the cache was told meanwhile.   *)
StoreRows(a) ==
    /\ step[a] = "loading"
    /\ cache' = has[a]
    /\ Goto(a, "gate")
    /\ UNCHANGED <<clock, admin, has, asked, staleAt>>

(* The group gate, asked of the database: a group that has gone lets through.     *)
GateHolds(a) == has[a].member /\ group = "off"

RefuseAtGate(a) ==
    /\ step[a] = "gate"
    /\ GateHolds(a)
    /\ Goto(a, "no")
    /\ UNCHANGED <<clock, admin, cache, has, asked, staleAt>>

(* Past the gate the rollout, the roles or the switch may say yes.  The last       *)
(* looks the rows up once more; should that read them anew, it does as the         *)
(* read of another question does.                                            *)
PassGate(a) ==
    /\ step[a] = "gate"
    /\ ~GateHolds(a)
    /\ \E answer \in {"yes", "no"} : Goto(a, answer)
    /\ UNCHANGED <<clock, admin, cache, has, asked, staleAt>>

Answered(a) ==
    /\ step[a] \in {"yes", "no"}
    /\ Goto(a, "idle")
    /\ has' = [has EXCEPT ![a] = NoCache]
    /\ asked' = [asked EXCEPT ![a] = 0]
    /\ UNCHANGED <<clock, admin, cache, staleAt>>

-----------------------------------------------------------------------------
UpdateFeatureFlag(r) ==
    BeginUpdate(r) \/ CommitJoin(r) \/ CommitLeave(r) \/ UpdateFails(r)

DeleteFlagGroup(r) ==
    BeginDelete(r) \/ ReadMembers(r) \/ CommitDelete(r) \/ DeleteFails(r)

IsFlagEnabledForUser(a) ==
    \/ AskCached(a) \/ LoadRows(a) \/ RowsArrive(a) \/ StoreRows(a)
    \/ RefuseAtGate(a) \/ PassGate(a) \/ Answered(a)

Next ==
    \/ TimePasses
    \/ CreateFlagGroup \/ UpdateFlagGroup
    \/ \E r \in Request : UpdateFeatureFlag(r) \/ DeleteFlagGroup(r)
    \/ \E a \in Asker : IsFlagEnabledForUser(a)

Spec == Init /\ [][Next]_vars

-----------------------------------------------------------------------------
(***************************************************************************)
(* Properties.                                                             *)
(***************************************************************************)
(* The fastest way to shut a feature area down, whichever process closes it: a   *)
(* question is refused once the cache's time to live has passed since the flag    *)
(* got behind a closed gate and, should reads have been in flight then, since     *)
(* the last of them that missed it was answered.                              *)
ShutMeansNo ==
    \A a \in Asker : step[a] = "yes" /\ Shut => asked[a] < staleAt + Ttl

(* A flag leaves a group with an audit entry, also when the group is deleted      *)
(* beside requests that assign flags to it.                                   *)
MembershipIsAudited ==
    [][audit' = IF member' = member THEN audit ELSE [old |-> member, new |-> member']]_vars
=============================================================================
