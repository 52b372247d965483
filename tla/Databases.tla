------------------------------ MODULE Databases ------------------------------
(***************************************************************************)
(* The manager of many databases: a registry of names, the storage of each *)
(* and a cache of one open connection per name.                            *)
(*                                                                         *)
(* Every call runs in a fibre of its own, and a cleaner closes connections *)
(* that are idle.  A step is what one fibre does between two of its awaits:*)
(* a statement on the registry, a connection built or closed, storage      *)
(* removed.  Whether a connection is idle depends on time alone: the       *)
(* cleaner picks any of those it saw.                                      *)
(***************************************************************************)
EXTENDS Naturals, FiniteSets

CONSTANTS
  Name, Client, User,
  Cleaner,          \* the background fibre of the manager
  NoConnection,
  MaxConnections    \* bound on the connections ever built

ASSUME DatabasesAssumption ==
  /\ Cleaner \notin Client /\ Name # {}
  /\ NoConnection \notin Nat /\ MaxConnections \in Nat

VARIABLES
  named,            \* the names in the registry
  granted,          \* the access entries of the registry: <<user, name>>
  stored,           \* the names that have storage
  connections,      \* how many connections were built
  closed,           \* those whose scope is closed
  cached,           \* the cached connection of each name
  call              \* what each fibre is doing: [at, name, then, holds, closing]

registryVars == <<named, granted>>
poolVars == <<connections, closed, cached>>
databasesVars == <<registryVars, stored, poolVars, call>>

Fibre == Client \cup {Cleaner}

(* `then` is what follows in the call, `holds` the connection it built or  *)
(* found, `closing` the connections it has still to close, by name.        *)
Idle(n) == [at |-> "idle", name |-> n, then |-> "return", holds |-> NoConnection,
            closing |-> [m \in Name |-> NoConnection]]
NoCall == Idle(CHOOSE n \in Name : TRUE)

DatabasesInit ==
  /\ named = {} /\ granted = {} /\ stored = {}
  /\ connections = 0 /\ closed = {}
  /\ cached = [n \in Name |-> NoConnection]
  /\ call = [f \in Fibre |-> NoCall]

At(f, step) == call[f].at = step
Goes(f, step) == call' = [call EXCEPT ![f].at = step]
Returns(f) == call' = [call EXCEPT ![f] = NoCall]
Begins(c, step, n, then) ==
  At(c, "idle") /\ call' = [call EXCEPT ![c] = [Idle(n) EXCEPT !.at = step, !.then = then]]

(* The rest of a call that was made of several.                            *)
Continues(f) == IF call[f].then = "return" THEN Returns(f) ELSE Goes(f, call[f].then)

-----------------------------------------------------------------------------
(* getTriples, getSnapshotService: the cached connection, or a new one.    *)

BeginUse(c, n) ==
  /\ At(c, "idle")
  /\ IF cached[n] # NoConnection THEN UNCHANGED call ELSE Begins(c, "find", n, "return")
  /\ UNCHANGED <<registryVars, stored, poolVars>>

Find(c) ==
  /\ At(c, "find")
  /\ IF call[c].name \in named THEN Goes(c, "build") ELSE Returns(c)
  /\ UNCHANGED <<registryVars, stored, poolVars>>

(* Building the layers of a database opens it, and makes its storage.      *)
Build(c) ==
  /\ At(c, "build")
  /\ \/ /\ connections < MaxConnections
        /\ connections' = connections + 1
        /\ stored' = stored \cup {call[c].name}
        /\ call' = [call EXCEPT ![c].at = "cache", ![c].holds = connections + 1]
     \/ /\ Returns(c)
        /\ UNCHANGED <<connections, stored>>
  /\ UNCHANGED <<registryVars, closed, cached>>

Cache(c) ==
  /\ At(c, "cache")
  /\ cached' = [cached EXCEPT ![call[c].name] = call[c].holds]
  /\ Returns(c)
  /\ UNCHANGED <<registryVars, stored, connections, closed>>

-----------------------------------------------------------------------------
(* get, list and update count the triples of a database, over the cached   *)
(* connection or one of their own; clear begins with a get.                *)

BeginCount(c, n, then) ==
  /\ Begins(c, "count", n, then)
  /\ UNCHANGED <<registryVars, stored, poolVars>>

Count(c) ==
  /\ At(c, "count")
  /\ IF call[c].name \notin named THEN Returns(c)
     ELSE IF cached[call[c].name] # NoConnection THEN Continues(c) ELSE Goes(c, "open")
  /\ UNCHANGED <<registryVars, stored, poolVars>>

Open(c) ==
  /\ At(c, "open")
  /\ \/ /\ connections < MaxConnections
        /\ connections' = connections + 1
        /\ stored' = stored \cup {call[c].name}
        /\ call' = [call EXCEPT ![c].at = "counted", ![c].holds = connections + 1]
     \/ /\ Continues(c)
        /\ UNCHANGED <<connections, stored>>
  /\ UNCHANGED <<registryVars, closed, cached>>

CountRead(c) ==
  /\ At(c, "counted")
  /\ closed' = closed \cup {call[c].holds}
  /\ Continues(c)
  /\ UNCHANGED <<registryVars, stored, connections, cached>>

-----------------------------------------------------------------------------
(* create: a name is looked up, inserted, and its database built.          *)

BeginCreate(c, n) ==
  /\ Begins(c, "register", n, "return")
  /\ UNCHANGED <<registryVars, stored, poolVars>>

FindRow(c) ==
  /\ At(c, "register")
  /\ IF call[c].name \in named THEN Returns(c) ELSE Goes(c, "insert")
  /\ UNCHANGED <<registryVars, stored, poolVars>>

(* The name is the primary key: a second insert fails.                     *)
Insert(c) ==
  /\ At(c, "insert")
  /\ IF call[c].name \in named
     THEN Returns(c) /\ UNCHANGED named
     ELSE Goes(c, "build") /\ named' = named \cup {call[c].name}
  /\ UNCHANGED <<granted, stored, poolVars>>

-----------------------------------------------------------------------------
(* delete: the connection is closed and leaves the cache, the name leaves  *)
(* the registry, and the storage goes.  clear goes on to create.           *)

BeginDelete(c, n) ==
  /\ Begins(c, "delete", n, "return")
  /\ UNCHANGED <<registryVars, stored, poolVars>>

Delete(c) ==
  LET n == call[c].name
  IN  /\ At(c, "delete")
      /\ IF n \notin named THEN Continues(c) ELSE Goes(c, "close")
      /\ UNCHANGED <<registryVars, stored, poolVars>>

(* The cached connection is looked up once more and its scope closed.      *)
CloseCached(c) ==
  LET n == call[c].name
  IN  /\ At(c, "close")
      /\ closed' = closed \cup ({cached[n]} \ {NoConnection})
      /\ Goes(c, "remove")
      /\ UNCHANGED <<registryVars, stored, connections, cached>>

RemoveStorage(c) ==
  /\ At(c, "remove")
  /\ cached' = [cached EXCEPT ![call[c].name] = NoConnection]
  /\ Goes(c, "unregister")
  /\ UNCHANGED <<registryVars, stored, connections, closed>>

(* SQLite keeps the foreign keys of the registry because it is told to.    *)
ForeignKeys == TRUE

Unnamed(names) ==
  /\ named' = named \ names
  /\ granted' = {g \in granted : ForeignKeys => g[2] \notin names}

DropRow(c) ==
  LET n == call[c].name
  IN  /\ At(c, "unregister")
      /\ IF n \notin named
         THEN Continues(c) /\ UNCHANGED registryVars
         ELSE Goes(c, "drop") /\ Unnamed({n})
      /\ UNCHANGED <<stored, poolVars>>

Drop(c) ==
  /\ At(c, "drop")
  /\ stored' = stored \ {call[c].name}
  /\ Continues(c)
  /\ UNCHANGED <<registryVars, poolVars>>

-----------------------------------------------------------------------------
(* deleteAll and the cleaner read the cache, then close what they read one *)
(* connection at a time.  The cleaner removes each name from the cache; at *)
(* its end deleteAll empties the cache, the registry and the storage.      *)

ReadsCache(f, step, chosen) ==
  /\ At(f, "idle")
  /\ call' = [call EXCEPT ![f].at = step,
                          ![f].closing = [n \in Name |-> IF n \in chosen THEN cached[n]
                                                         ELSE NoConnection]]
  /\ UNCHANGED <<registryVars, stored, poolVars>>

BeginDeleteAll(c) == ReadsCache(c, "closeAll", Name)
BeginCleanup == \E chosen \in SUBSET Name : ReadsCache(Cleaner, "cleanup", chosen)

Pending(f) == {n \in Name : call[f].closing[n] # NoConnection}

CloseAll(c) ==
  /\ At(c, "closeAll")
  /\ \/ \E n \in Pending(c) :
          /\ closed' = closed \cup {call[c].closing[n]}
          /\ call' = [call EXCEPT ![c].closing[n] = NoConnection]
          /\ UNCHANGED cached
     \/ /\ Pending(c) = {}
        /\ cached' = [n \in Name |-> NoConnection]
        /\ Goes(c, "clearAccess")
        /\ UNCHANGED closed
  /\ UNCHANGED <<registryVars, stored, connections>>

ClearAccess(c) ==
  /\ At(c, "clearAccess")
  /\ granted' = {} /\ Goes(c, "clearNames")
  /\ UNCHANGED <<named, stored, poolVars>>

ClearNames(c) ==
  /\ At(c, "clearNames")
  /\ Unnamed(named) /\ Goes(c, "dropAll")
  /\ UNCHANGED <<stored, poolVars>>

DropAll(c) ==
  /\ At(c, "dropAll")
  /\ stored' = {} /\ Returns(c)
  /\ UNCHANGED <<registryVars, poolVars>>

CleanupCloses ==
  /\ At(Cleaner, "cleanup")
  /\ \/ \E n \in Pending(Cleaner) :
          /\ closed' = closed \cup {call[Cleaner].closing[n]}
          /\ call' = [call EXCEPT ![Cleaner].at = "cleaned", ![Cleaner].name = n]
     \/ /\ Pending(Cleaner) = {}
        /\ Returns(Cleaner)
        /\ UNCHANGED closed
  /\ UNCHANGED <<registryVars, stored, connections, cached>>

\* Bug: an idle connection is closed and stays in the cache.
CleanupKeeps ==
  /\ At(Cleaner, "cleaned")
  /\ call' = [call EXCEPT ![Cleaner].at = "cleanup",
                          ![Cleaner].closing[call[Cleaner].name] = NoConnection]
  /\ UNCHANGED <<registryVars, stored, poolVars>>

CleanupRemoves ==
  LET n == call[Cleaner].name
  IN  /\ At(Cleaner, "cleaned")
      /\ cached' = [cached EXCEPT ![n] = NoConnection]
      /\ call' = [call EXCEPT ![Cleaner] = [@ EXCEPT !.at = "cleanup", !.closing[n] = NoConnection]]
      /\ UNCHANGED <<registryVars, stored, connections, closed>>

-----------------------------------------------------------------------------
(* grantAccess looks the name up and then inserts; an entry whose name has *)
(* gone by then is refused.  revokeAccess only ever takes entries away.    *)

BeginGrant(c, n) ==
  /\ n \in named
  /\ Begins(c, "grant", n, "return")
  /\ UNCHANGED <<registryVars, stored, poolVars>>

Grant(c, u) ==
  LET n == call[c].name
  IN  /\ At(c, "grant")
      /\ granted' = IF ForeignKeys => n \in named THEN granted \cup {<<u, n>>} ELSE granted
      /\ Returns(c)
      /\ UNCHANGED <<named, stored, poolVars>>

Revoke(c, u, n) ==
  /\ At(c, "idle") /\ <<u, n>> \in granted
  /\ granted' = granted \ {<<u, n>>}
  /\ UNCHANGED <<named, stored, poolVars, call>>

-----------------------------------------------------------------------------

ClientBegins(c) ==
  \/ BeginDeleteAll(c)
  \/ \E n \in Name : \/ BeginUse(c, n) \/ BeginCreate(c, n) \/ BeginDelete(c, n)
                     \/ BeginCount(c, n, "return") \/ BeginCount(c, n, "clear")
                     \/ BeginGrant(c, n)
                     \/ \E u \in User : Revoke(c, u, n)

(* clear deletes whatever get found, and then creates.                     *)
Clear(c) ==
  /\ At(c, "clear")
  /\ call' = [call EXCEPT ![c].at = "delete", ![c].then = "register", ![c].holds = NoConnection]
  /\ UNCHANGED <<registryVars, stored, poolVars>>

ClientGoesOn(c) ==
  \/ Find(c) \/ Build(c) \/ Cache(c)
  \/ Count(c) \/ Open(c) \/ CountRead(c)
  \/ FindRow(c) \/ Insert(c) \/ Clear(c)
  \/ Delete(c) \/ CloseCached(c) \/ RemoveStorage(c) \/ DropRow(c) \/ Drop(c)
  \/ CloseAll(c) \/ ClearAccess(c) \/ ClearNames(c) \/ DropAll(c)
  \/ \E u \in User : Grant(c, u)

CleanerGoesOn == CleanupCloses \/ CleanupRemoves

DatabasesNext ==
  \/ \E c \in Client : ClientBegins(c) \/ ClientGoesOn(c)
  \/ BeginCleanup \/ CleanerGoesOn

DatabasesSpec == DatabasesInit /\ [][DatabasesNext]_databasesVars

-----------------------------------------------------------------------------
(* A connection that is closed and yet cached is about to leave the cache: *)
(* the fibre that closed it has still to remove it.  Otherwise every later *)
(* use of the database would be served a dead connection for ever, for the *)
(* cleaner only looks at idle ones.                                        *)
Removes(f, n) ==
  \/ call[f].name = n /\ call[f].at \in {"remove", "cleaned"}
  \/ At(f, "closeAll")

ClosedConnectionsLeave ==
  \A n \in Name : cached[n] \in closed => \E f \in Fibre : Removes(f, n)

(* An access entry names a registered database: neither a deletion nor a   *)
(* clearing that overtakes a grant leaves one behind for the next database *)
(* of that name.                                                           *)
AccessNamesADatabase == \A g \in granted : g[2] \in named
=============================================================================
