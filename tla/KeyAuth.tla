------------------------------ MODULE KeyAuth ------------------------------
(***************************************************************************)
(* Proxy keys: authenticate (proxy/app.py) through the Redis cache of      *)
(* cache.py, and the key operations of the admin API over api_keys.        *)
(*                                                                         *)
(* Nothing drops a cache entry when its key is revoked, so a revoked key   *)
(* is accepted until its entry is TTL old.  Time is counted in ticks; what *)
(* a request read is at most MaxWait ticks old when it goes on.  That is   *)
(* an assumption about Redis and PostgreSQL: the code sets no timeout.     *)
(***************************************************************************)
EXTENDS Naturals

CONSTANTS
    Keys,           \* rows of api_keys there may ever be
    Users,
    Requests,       \* requests being authenticated at once, over all replicas
    Rotations,      \* rotate_key calls in progress at once
    NoKey,
    NoUser,
    NoEntry,        \* no key:{sha} entry in Redis
    TTL,            \* its lifetime: set_user_for_key(..., ttl=300)
    MaxWait         \* bound: ticks a request may take to use what it read

ASSUME KeyAssumption == NoKey \notin Keys /\ NoUser \notin Users
ASSUME TimeAssumption ==
    TTL \in Nat \ {0} /\ MaxWait \in Nat /\ NoEntry \notin 0..TTL

VARIABLES
    keyState,       \* api_keys.status; "absent" where there is no row
    owner,          \* api_keys.user_id
    replaces,       \* the key a row was issued for by rotate_key
    since,          \* ticks since the key was revoked, up to Horizon
    entry,          \* the age of the cache entry of each key
    at,             \* the await each request is at
    key,            \* the key it presents
    waited,         \* ticks since it read the cache or the row
    rotation,       \* the await each rotate_key call is at
    old             \* the key it rotates

keyVars == <<keyState, owner, replaces, since>>
requestVars == <<at, key, waited>>
rotateVars == <<rotation, old>>
vars == <<keyVars, entry, requestVars, rotateVars>>

\* When the last acceptance of a revoked key can happen: its row was read
\* before, stored at most MaxWait later, found just before it expires, and
\* used at most MaxWait later.
Window == MaxWait + (TTL - 1) + MaxWait
Horizon == Window + 1

Awaits == {"none", "cache", "db", "hit", "fill", "in"}

KeyTypeOK ==
    /\ keyState \in [Keys -> {"absent", "active", "revoked"}]
    /\ owner \in [Keys -> Users \cup {NoUser}]
    /\ replaces \in [Keys -> Keys \cup {NoKey}]
    /\ since \in [Keys -> 0..Horizon]
    /\ entry \in [Keys -> 0..(TTL - 1) \cup {NoEntry}]
    /\ at \in [Requests -> Awaits]
    /\ key \in [Requests -> Keys \cup {NoKey}]
    /\ waited \in [Requests -> 0..MaxWait]
    /\ rotation \in [Rotations -> {"none", "revoke", "issue"}]
    /\ old \in [Rotations -> Keys \cup {NoKey}]

Init ==
    /\ keyState = [k \in Keys |-> "absent"]
    /\ owner = [k \in Keys |-> NoUser]
    /\ replaces = [k \in Keys |-> NoKey]
    /\ since = [k \in Keys |-> 0]
    /\ entry = [k \in Keys |-> NoEntry]
    /\ at = [r \in Requests |-> "none"]
    /\ key = [r \in Requests |-> NoKey]
    /\ waited = [r \in Requests |-> 0]
    /\ rotation = [o \in Rotations |-> "none"]
    /\ old = [o \in Rotations |-> NoKey]

----------------------------------------------------------------------------
(* authenticate.                                                           *)

Goto(r, a) == at' = [at EXCEPT ![r] = a]

End(r) ==
    /\ Goto(r, "none")
    /\ key' = [key EXCEPT ![r] = NoKey]
    /\ waited' = [waited EXCEPT ![r] = 0]

Present(r, k) ==
    /\ at[r] = "none"
    /\ Goto(r, "cache")
    /\ key' = [key EXCEPT ![r] = k]
    /\ UNCHANGED <<keyVars, entry, waited, rotateVars>>

\* Mutant: a hit renews the entry.
SlidingHit(r) ==
    /\ at[r] = "cache"
    /\ entry[key[r]] # NoEntry
    /\ Goto(r, "hit")
    /\ entry' = [entry EXCEPT ![key[r]] = 0]
    /\ UNCHANGED <<keyVars, key, waited, rotateVars>>

CacheHit(r) ==
    /\ at[r] = "cache"
    /\ entry[key[r]] # NoEntry
    /\ Goto(r, "hit")
    /\ UNCHANGED <<keyVars, entry, key, waited, rotateVars>>

\* No entry, or Redis does not answer: the database decides.
CacheMiss(r) ==
    /\ at[r] = "cache"
    /\ Goto(r, "db")
    /\ UNCHANGED <<keyVars, entry, key, waited, rotateVars>>

\* Mutant: without AND status='active'.
RowOfAnyStatus(r) ==
    /\ at[r] = "db"
    /\ keyState[key[r]] # "absent"
    /\ Goto(r, "fill")
    /\ UNCHANGED <<keyVars, entry, key, waited, rotateVars>>

RowActive(r) ==
    /\ at[r] = "db"
    /\ keyState[key[r]] = "active"
    /\ Goto(r, "fill")
    /\ UNCHANGED <<keyVars, entry, key, waited, rotateVars>>

\* InvalidAuth: no row, or not an active one.
RowMissing(r) ==
    /\ at[r] = "db"
    /\ keyState[key[r]] # "active"
    /\ End(r)
    /\ UNCHANGED <<keyVars, entry, rotateVars>>

\* The answer of Redis arrives.
AcceptHit(r) ==
    /\ at[r] = "hit"
    /\ Goto(r, "in")
    /\ waited' = [waited EXCEPT ![r] = 0]
    /\ UNCHANGED <<keyVars, entry, key, rotateVars>>

\* SET ... EX ttl, unless Redis does not take it; the request goes on.
AcceptFill(r) ==
    /\ at[r] = "fill"
    /\ Goto(r, "in")
    /\ waited' = [waited EXCEPT ![r] = 0]
    /\ entry' \in {entry, [entry EXCEPT ![key[r]] = 0]}
    /\ UNCHANGED <<keyVars, key, rotateVars>>

\* The request is over: answered, or its client is gone.
Leave(r) ==
    /\ at[r] # "none"
    /\ End(r)
    /\ UNCHANGED <<keyVars, entry, rotateVars>>

----------------------------------------------------------------------------
(* Time.                                                                   *)

Tick ==
    /\ \A r \in Requests : at[r] \in {"hit", "fill"} => waited[r] < MaxWait
    /\ waited' = [r \in Requests |->
                    IF at[r] \in {"hit", "fill"} THEN waited[r] + 1 ELSE waited[r]]
    /\ entry' = [k \in Keys |->
                    IF entry[k] = NoEntry \/ entry[k] = TTL - 1 THEN NoEntry
                                                               ELSE entry[k] + 1]
    /\ since' = [k \in Keys |->
                    IF keyState[k] = "revoked" /\ since[k] < Horizon
                    THEN since[k] + 1 ELSE since[k]]
    /\ UNCHANGED <<keyState, owner, replaces, at, key, rotateVars>>

\* Redis drops an entry early.
Evict(k) ==
    /\ entry[k] # NoEntry
    /\ entry' = [entry EXCEPT ![k] = NoEntry]
    /\ UNCHANGED <<keyVars, requestVars, rotateVars>>

----------------------------------------------------------------------------
(* The admin API.  A new key is a new row under a fresh hash.              *)

AddApiKey(k, u, replaced) ==
    /\ keyState[k] = "absent"
    /\ keyState' = [keyState EXCEPT ![k] = "active"]
    /\ owner' = [owner EXCEPT ![k] = u]
    /\ replaces' = [replaces EXCEPT ![k] = replaced]
    /\ UNCHANGED since

\* A row, whatever its status was.
RevokeApiKey(k) ==
    /\ keyState[k] # "absent"
    /\ keyState' = [keyState EXCEPT ![k] = "revoked"]
    /\ UNCHANGED <<owner, replaces, since>>

IssueKey(k, u) ==
    /\ AddApiKey(k, u, NoKey)
    /\ UNCHANGED <<entry, requestVars, rotateVars>>

RevokeKey(k) ==
    /\ RevokeApiKey(k)
    /\ UNCHANGED <<entry, requestVars, rotateVars>>

\* get_api_key_meta: the status is read and not looked at.
RotateStart(o, k) ==
    /\ rotation[o] = "none"
    /\ keyState[k] # "absent"
    /\ rotation' = [rotation EXCEPT ![o] = "revoke"]
    /\ old' = [old EXCEPT ![o] = k]
    /\ UNCHANGED <<keyVars, entry, requestVars>>

\* Mutant: the replacement is issued while the old key still works.
IssueBeforeRevoke(o) ==
    /\ rotation[o] = "revoke"
    /\ \E k \in Keys : AddApiKey(k, owner[old[o]], old[o])
    /\ rotation' = [rotation EXCEPT ![o] = "issue"]
    /\ UNCHANGED <<old, entry, requestVars>>

RotateRevoke(o) ==
    /\ rotation[o] = "revoke"
    /\ RevokeApiKey(old[o])
    /\ rotation' = [rotation EXCEPT ![o] = "issue"]
    /\ UNCHANGED <<old, entry, requestVars>>

RotateIssue(o, k) ==
    /\ rotation[o] = "issue"
    /\ AddApiKey(k, owner[old[o]], old[o])
    /\ rotation' = [rotation EXCEPT ![o] = "none"]
    /\ old' = [old EXCEPT ![o] = NoKey]
    /\ UNCHANGED <<entry, requestVars>>

\* The call dies between two statements, or 404: the old key stays revoked.
RotateAbort(o) ==
    /\ rotation[o] # "none"
    /\ rotation' = [rotation EXCEPT ![o] = "none"]
    /\ old' = [old EXCEPT ![o] = NoKey]
    /\ UNCHANGED <<keyVars, entry, requestVars>>

----------------------------------------------------------------------------
RequestNext(r) ==
    \/ \E k \in Keys : Present(r, k)
    \/ CacheHit(r)
    \/ CacheMiss(r)
    \/ RowActive(r)
    \/ RowMissing(r)
    \/ AcceptHit(r)
    \/ AcceptFill(r)
    \/ Leave(r)

RotationNext(o) ==
    \/ \E k \in Keys : RotateStart(o, k)
    \/ RotateRevoke(o)
    \/ \E k \in Keys : RotateIssue(o, k)
    \/ RotateAbort(o)

Next ==
    \/ \E r \in Requests : RequestNext(r)
    \/ \E o \in Rotations : RotationNext(o)
    \/ \E k \in Keys : Evict(k) \/ RevokeKey(k)
    \/ \E k \in Keys, u \in Users : IssueKey(k, u)
    \/ Tick

Spec == Init /\ [][Next]_vars

----------------------------------------------------------------------------
(* Properties.                                                             *)

Accepts(r) == at[r] # "in" /\ at'[r] = "in"

(* A revoked key stops working: whichever replicas have it cached or are   *)
(* reading it as it is revoked, no request is accepted with it once Window *)
(* has passed.                                                             *)
RevocationTakesHold ==
    [][\A r \in Requests :
         Accepts(r) /\ keyState[key[r]] = "revoked"
            => since[key[r]] <= Window]_vars

(* Why: the cache entry of a revoked key, and what a request read of it,   *)
(* are as old as the revocation, less the time they took to get there.     *)
CopiesAge ==
    /\ \A k \in Keys :
         keyState[k] = "revoked" /\ entry[k] # NoEntry
            => since[k] <= entry[k] + MaxWait
    /\ \A r \in Requests :
         /\ at[r] = "fill" /\ keyState[key[r]] = "revoked"
         => since[key[r]] <= waited[r]
    /\ \A r \in Requests :
         /\ at[r] = "hit" /\ keyState[key[r]] = "revoked"
         => since[key[r]] <= MaxWait + (TTL - 1) + waited[r]
    /\ \A k \in Keys : keyState[k] # "revoked" => since[k] = 0

HasKey ==
    /\ \A r \in Requests : at[r] # "none" => key[r] \in Keys
    /\ \A o \in Rotations : rotation[o] # "none" => old[o] \in Keys

KeyInv == KeyTypeOK /\ HasKey /\ CopiesAge

(* The rows of a key and of the key it was replaced by are never active    *)
(* together, however many rotations of it overlap, and whatever fails half *)
(* way.  (Requests are accepted with both for a while: see the next.)      *)
NeverBothActive ==
    \A k \in Keys :
        keyState[k] = "active" /\ replaces[k] # NoKey
            => keyState[replaces[k]] = "revoked"

(* A key that was replaced is accepted beside its replacement only from a  *)
(* cache entry or a row read before the rotation revoked it, so for Window *)
(* ticks from then at most.                                                *)
ReplacedKeyLapses ==
    [][\A r \in Requests, k \in Keys :
         Accepts(r) /\ replaces[k] = key[r]
            => keyState[key[r]] = "revoked" /\ since[key[r]] <= Window]_vars
============================================================================
