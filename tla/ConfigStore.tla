----------------------------- MODULE ConfigStore -----------------------------
(***************************************************************************)
(* The configuration store: releases of content-addressed objects, their   *)
(* revisions, the snapshots that pin them and the refs that move between   *)
(* snapshots, all persisted as facts of the triple store.                  *)
(*                                                                         *)
(* A client loads the store with five matches, one after the other,        *)
(* computes the release in memory (InMemoryConfigStore.commit) and writes  *)
(* it with one transaction; transactions of other clients come in between. *)
(* A transaction is one step (TripleLog) and recordedAt follows the order  *)
(* of the commits.  A content id is its content: equal content, equal id.  *)
(* A release object is one typed node; labels and child nodes are left out.*)
(***************************************************************************)
EXTENDS Integers, FiniteSets

CONSTANTS
  Client, RefName,
  Slot,        \* the logical objects (kind and key), numbered in their order
  KindOf,      \* the kind of each
  Attrs,       \* the values an object may have
  Schema,      \* the projection schemas
  Releases,    \* the sets of nodes the projectors hand to commit
  Valid,       \* <<s, a>>: TypeSchema.is(s, a)
  Compatible,  \* <<s, t>>: TypeSubsumption proves that t accepts what s does
  MaxOps       \* the operations of all the clients

\* ConfigNode.makeTyped validates a node, and subsumption is sound.
ASSUME ConfigAssumption ==
  /\ Slot \subseteq Nat /\ IsFiniteSet(Slot)
  /\ MaxOps \in Nat
  /\ \A R \in Releases : \A n \in R :
       /\ n.slot \in Slot /\ n.attrs \in Attrs
       /\ n.refs \subseteq Slot /\ n.schema \in Schema
       /\ <<n.schema, n.attrs>> \in Valid
  /\ \A s, t \in Schema : <<s, t>> \in Compatible =>
       \A a \in Attrs : <<s, a>> \in Valid => <<t, a>> \in Valid

VARIABLES
  objects,    \* the stored bodies
  validUnder, \* <<body, schema>>
  schemas,
  revisions,  \* the facts of the revisions
  snapshots,  \* the facts of the snapshots
  targets,    \* the live target facts of the refs
  commits,    \* the transactions so far
  pc,
  request,
  view,       \* what the client has loaded
  current,    \* the target fact it read before its transaction
  started,    \* the operations started
  overtaken,  \* another client has committed since the load began
  firsts,     \* how often each ref was written without a precondition
  overwrote   \* a ref was moved over a target its writer had not loaded

store == <<objects, validUnder, schemas, revisions, snapshots, targets, commits>>
history == <<overtaken, firsts, overwrote>>
configVars == <<store, pc, request, view, current, started, history>>

None == [none |-> TRUE]
NoRef == "no ref"
PC == {"idle", "query", "objects", "types", "revisions", "snapshots", "refs",
       "act", "current", "transact"}

EmptyView == [objects |-> {}, validUnder |-> {}, schemas |-> {}, revisions |-> {},
              snapshots |-> {}, refs |-> {}, dependents |-> {}]

Init ==
  /\ objects = {} /\ validUnder = {} /\ schemas = {}
  /\ revisions = {} /\ snapshots = {} /\ targets = {}
  /\ commits = 0
  /\ pc = [c \in Client |-> "idle"]
  /\ request = [c \in Client |-> None]
  /\ view = [c \in Client |-> EmptyView]
  /\ current = [c \in Client |-> None]
  /\ started = 0
  /\ overtaken = [c \in Client |-> FALSE]
  /\ firsts = [r \in RefName |-> 0]
  /\ overwrote = FALSE
-----------------------------------------------------------------------------
\* A release: its nodes by slot, and what they reach by refs.

Cid(n) == [slot |-> n.slot, attrs |-> n.attrs, refs |-> n.refs]
Root(R) == [children |-> {Cid(n) : n \in R}]
Slots(R) == {n.slot : n \in R}
At(R, s) == CHOOSE n \in R : n.slot = s

Duplicate(R) == \E n, m \in R : n # m /\ n.slot = m.slot

\* Bug: only the direct references.
DepsDirect(R, s) == (UNION {n.refs : n \in {m \in R : m.slot = s}}) \ {s}

Deps(R, s) ==
  LET reached[i \in Nat] ==
        IF i = 0 THEN {s}
        ELSE reached[i - 1] \cup
               UNION {n.refs : n \in {m \in R : m.slot \in reached[i - 1]}}
  IN reached[Cardinality(Slot)] \ {s}

Dangling(R) == \E s \in Slots(R) : ~ Deps(R, s) \subseteq Slots(R)

\* Bug: an object is only its own body.
ClosureAlone(R, s) == [root |-> Cid(At(R, s)), deps |-> {}]

\* closureId: the body and the bodies it depends on.
Closure(R, s) == [root |-> Cid(At(R, s)), deps |-> {Cid(At(R, d)) : d \in Deps(R, s)}]

\* A revision id is what is hashed: neither its sequence number nor a clock.
RevisionId(R, s, parent) ==
  [closure |-> Closure(R, s), schema |-> At(R, s).schema,
   deps |-> Deps(R, s), parent |-> parent]
SlotOf(id) == id.closure.root.slot
-----------------------------------------------------------------------------
\* InMemoryConfigStore.commit, over the loaded view v.

\* The newest by sequence number; equals are in the order of their ids.
Newest(S) == CHOOSE r \in S : \A q \in S : q.seq <= r.seq

History(v, s) == {r \in v.revisions : SlotOf(r.id) = s}
TipId(v, s) == IF History(v, s) = {} THEN None ELSE Newest(History(v, s)).id

KnownSchemas(v, cid) == {t \in v.schemas : <<cid, t>> \in v.validUnder}

SchemaCompatible(v, n) ==
  \/ <<Cid(n), n.schema>> \in v.validUnder
  \/ KnownSchemas(v, Cid(n)) = {}
  \/ \E t \in KnownSchemas(v, Cid(n)) : <<t, n.schema>> \in Compatible

\* Bug: the closure is not compared.
ReusedBody(v, R, s) ==
  /\ TipId(v, s) # None
  /\ TipId(v, s).closure.root = Cid(At(R, s))

Reused(v, R, s) ==
  /\ TipId(v, s) # None
  /\ TipId(v, s).closure = Closure(R, s)
  /\ TipId(v, s).schema = At(R, s).schema \/ SchemaCompatible(v, At(R, s))

Created(v, R) == {s \in Slots(R) : ~ Reused(v, R, s)}
Pin(v, R, s) == IF Reused(v, R, s) THEN TipId(v, s) ELSE RevisionId(R, s, TipId(v, s))

LastSeq(v) ==
  LET seqs == {0} \cup {r.seq : r \in v.revisions \cup v.snapshots}
  IN CHOOSE q \in seqs : \A p \in seqs : p <= q

NewRevisions(v, R) ==
  {[id |-> Pin(v, R, s),
    seq |-> LastSeq(v) + Cardinality({t \in Created(v, R) : t <= s})] : s \in Created(v, R)}

NewSnapshot(v, R) ==
  [id |-> [root |-> Root(R),
           revisions |-> {Pin(v, R, s) : s \in Slots(R)},
           parent |-> IF v.snapshots = {} THEN None ELSE Newest(v.snapshots).id],
   seq |-> LastSeq(v) + Cardinality(Created(v, R)) + 1]

\* changesBetween: the slots that came, that went, and whose revision moved.
Pins(snap, s) == {p \in snap.revisions : SlotOf(p) = s}
Added(from, to) == {s \in Slot : Pins(from, s) = {} /\ Pins(to, s) # {}}
Changed(from, to) ==
  {[slot |-> SlotOf(x[1]),
    data |-> x[1].closure.root # x[2].closure.root,
    closure |-> x[1].closure # x[2].closure,
    schema |-> x[1].schema # x[2].schema] :
      x \in {y \in from.revisions \X to.revisions :
                SlotOf(y[1]) = SlotOf(y[2]) /\ y[1] # y[2]}}

\* Bug: subsumption is asked the wrong way round.
ProvenSwapped(v, cid, t) ==
  \/ <<cid, t>> \in v.validUnder
  \/ \E s \in KnownSchemas(v, cid) : <<t, s>> \in Compatible

\* recheck: the bodies a schema would accept, by proof or by decoding.
ProvenValid(v, cid, t) ==
  \/ <<cid, t>> \in v.validUnder
  \/ \E s \in KnownSchemas(v, cid) : <<s, t>> \in Compatible

Recheck(v, kind, t) ==
  LET bodies == {b \in v.objects : "slot" \in DOMAIN b /\ KindOf[b.slot] = kind}
      proven == {b \in bodies : ProvenValid(v, b, t)}
      decoded == {b \in bodies \ proven : <<t, b.attrs>> \in Valid}
  IN [compatible |-> proven, revalidated |-> decoded,
      violations |-> bodies \ (proven \cup decoded)]
-----------------------------------------------------------------------------
Requests ==
  [op : {"commit"}, release : Releases, ref : RefName \cup {NoRef}]
    \cup [op : {"setRef"}, ref : RefName, snapshot : {s.id : s \in snapshots} \cup {None}]
    \cup [op : {"resolveRef"}, ref : RefName]
    \cup [op : {"recheck"}, kind : {KindOf[s] : s \in Slot}, schema : Schema]
    \cup [op : {"reverseDependencies"}, slot : Slot]

Goto(c, step) == pc' = [pc EXCEPT ![c] = step]

Begin(c) ==
  /\ pc[c] = "idle" /\ started < MaxOps
  /\ \E q \in Requests :
       /\ request' = [request EXCEPT ![c] = q]
       /\ Goto(c, IF q.op = "reverseDependencies" THEN "query" ELSE "objects")
  /\ started' = started + 1
  /\ UNCHANGED <<store, view, current, history>>

Return(c) ==
  /\ Goto(c, "idle")
  /\ request' = [request EXCEPT ![c] = None]
  /\ view' = [view EXCEPT ![c] = EmptyView]
  /\ current' = [current EXCEPT ![c] = None]

\* The operation ends and has written nothing.
Fail(c) ==
  /\ Return(c)
  /\ overtaken' = [overtaken EXCEPT ![c] = FALSE]
  /\ UNCHANGED <<store, started, firsts, overwrote>>

\* reverseDependencies asks the index before it loads.
Query(c) ==
  /\ pc[c] = "query"
  /\ view' = [view EXCEPT ![c].dependents =
                {r.id : r \in {x \in revisions : request[c].slot \in x.id.deps}}]
  /\ Goto(c, "objects")
  /\ UNCHANGED <<store, request, current, started, history>>

LoadObjects(c) ==
  /\ pc[c] = "objects"
  /\ view' = [view EXCEPT ![c].objects = objects, ![c].validUnder = validUnder]
  /\ Goto(c, "types")
  /\ UNCHANGED <<store, request, current, started, history>>

LoadTypes(c) ==
  /\ pc[c] = "types"
  /\ view' = [view EXCEPT ![c].schemas = schemas]
  /\ Goto(c, "revisions")
  /\ UNCHANGED <<store, request, current, started, history>>

\* latest: of the facts of one record the one recorded last.
Latest(F) == {[id |-> f.id, seq |-> f.seq] :
                f \in {x \in F : \A y \in F : y.id = x.id => y.at <= x.at}}

LoadRevisions(c) ==
  /\ pc[c] = "revisions"
  /\ view' = [view EXCEPT ![c].revisions = Latest(revisions)]
  /\ Goto(c, "snapshots")
  /\ UNCHANGED <<store, request, current, started, history>>

LoadSnapshots(c) ==
  /\ pc[c] = "snapshots"
  /\ view' = [view EXCEPT ![c].snapshots = Latest(snapshots)]
  /\ Goto(c, "refs")
  /\ UNCHANGED <<store, request, current, started, history>>

Live(r) == {f \in targets : f.ref = r}
Target(r) ==
  IF Live(r) = {} THEN None ELSE CHOOSE f \in Live(r) : \A g \in Live(r) : g.at <= f.at

LoadRefs(c) ==
  /\ pc[c] = "refs"
  /\ view' = [view EXCEPT ![c].refs =
                {<<r, Target(r).snapshot>> : r \in {x \in RefName : Live(x) # {}}}]
  /\ Goto(c, "act")
  /\ UNCHANGED <<store, request, current, started, history>>

\* buildNode and the refs' check: everything a record names has been loaded.
Corrupt(v) ==
  \/ \E s \in v.snapshots : ~ ({s.id.root} \cup s.id.root.children) \subseteq v.objects
  \/ \E x \in v.refs : x[2] \notin {s.id : s \in v.snapshots}

Resolved(v, r) ==
  IF \E x \in v.refs : x[1] = r THEN (CHOOSE x \in v.refs : x[1] = r)[2] ELSE None

CorruptStore(c) ==
  /\ pc[c] = "act" /\ Corrupt(view[c])
  /\ Fail(c)

Reject(c) ==
  /\ pc[c] = "act" /\ ~ Corrupt(view[c])
  /\ \/ /\ request[c].op = "commit"
        /\ Duplicate(request[c].release) \/ Dangling(request[c].release)
     \/ /\ request[c].op = "setRef"
        /\ request[c].snapshot \notin {s.id : s \in view[c].snapshots}
  /\ Fail(c)

\* The operations that only read.
Reply(v, q) ==
  CASE q.op = "resolveRef" -> [snapshot |-> Resolved(v, q.ref)]
    [] q.op = "recheck" -> [recheck |-> Recheck(v, q.kind, q.schema)]
    [] q.op = "reverseDependencies" ->
         [dependents |-> {r.id : r \in v.revisions} \cap v.dependents]

Answer(c) ==
  /\ pc[c] = "act" /\ ~ Corrupt(view[c])
  /\ request[c].op \in {"resolveRef", "recheck", "reverseDependencies"}
  /\ Fail(c)

Compute(c) ==
  /\ pc[c] = "act" /\ ~ Corrupt(view[c])
  /\ \/ /\ request[c].op = "commit"
        /\ ~ Duplicate(request[c].release) /\ ~ Dangling(request[c].release)
        /\ Goto(c, IF request[c].ref = NoRef THEN "transact" ELSE "current")
     \/ /\ request[c].op = "setRef"
        /\ request[c].snapshot \in {s.id : s \in view[c].snapshots}
        /\ Goto(c, "current")
  /\ UNCHANGED <<store, request, view, current, started, history>>

\* currentRefTriple: read after the release was computed.
ReadCurrent(c) ==
  /\ pc[c] = "current"
  /\ current' = [current EXCEPT ![c] = Target(request[c].ref)]
  /\ Goto(c, "transact")
  /\ UNCHANGED <<store, request, view, started, history>>
-----------------------------------------------------------------------------
\* The transaction of commit and setRef.

\* Bug: no TripleLive precondition.
PreconditionDropped(c) == TRUE

PreconditionHolds(c) == current[c] = None \/ current[c] \in targets
Moved(c) == request[c].ref
NewTarget(c) ==
  IF request[c].op = "setRef" THEN request[c].snapshot
  ELSE NewSnapshot(view[c], request[c].release).id

Displaced(r) == IF Live(r) = {} THEN None ELSE Target(r).snapshot

MoveRef(c) ==
  IF Moved(c) = NoRef
  THEN UNCHANGED <<targets, firsts, overwrote>>
  ELSE /\ targets' = (targets \ {current[c]})
            \cup {[ref |-> Moved(c), snapshot |-> NewTarget(c), at |-> commits + 1]}
       /\ firsts' = IF current[c] = None THEN [firsts EXCEPT ![Moved(c)] = @ + 1] ELSE firsts
       /\ overwrote' = (overwrote \/ Resolved(view[c], Moved(c)) # Displaced(Moved(c)))

\* Bug: the root node is not stored.
NewObjectsRootless(R) == {Cid(n) : n \in R}
NewObjects(R) == {Cid(n) : n \in R} \cup {Root(R)}

WriteRelease(v, R) ==
  /\ objects' = objects \cup NewObjects(R)
  /\ validUnder' = validUnder \cup {<<Cid(n), n.schema>> : n \in R}
  /\ schemas' = schemas \cup {n.schema : n \in R}
  /\ revisions' = revisions \cup
       {[id |-> r.id, seq |-> r.seq, at |-> commits + 1] : r \in NewRevisions(v, R)}
  /\ snapshots' = snapshots \cup
       {[id |-> NewSnapshot(v, R).id, seq |-> NewSnapshot(v, R).seq, at |-> commits + 1]}

Reading(d) ==
  \/ pc[d] \in {"types", "revisions", "snapshots", "refs"}
  \/ pc[d] = "objects" /\ request[d].op = "reverseDependencies"

Transact(c) ==
  /\ pc[c] = "transact" /\ PreconditionHolds(c)
  /\ IF request[c].op = "commit"
     THEN WriteRelease(view[c], request[c].release)
     ELSE UNCHANGED <<objects, validUnder, schemas, revisions, snapshots>>
  /\ MoveRef(c)
  /\ commits' = commits + 1
  /\ overtaken' = [d \in Client |-> d # c /\ (overtaken[d] \/ Reading(d))]
  /\ Return(c)
  /\ UNCHANGED started

Conflict(c) ==
  /\ pc[c] = "transact" /\ ~ PreconditionHolds(c)
  /\ Fail(c)

Step(c) ==
  \/ Begin(c) \/ Query(c) \/ LoadObjects(c) \/ LoadTypes(c) \/ LoadRevisions(c)
  \/ LoadSnapshots(c) \/ LoadRefs(c) \/ CorruptStore(c) \/ Reject(c) \/ Answer(c)
  \/ Compute(c) \/ ReadCurrent(c) \/ Transact(c) \/ Conflict(c)

Next == \E c \in Client : Step(c)

Spec == Init /\ [][Next]_configVars
-----------------------------------------------------------------------------
\* What a release means, apart from how commit computes it: an object reaches
\* what is in every set of slots that its references lead into and not out of.
RefsOf(root, s) == UNION {b.refs : b \in {x \in root.children : x.slot = s}}
ClosedUnderRefs(root, S) == \A s \in S : RefsOf(root, s) \subseteq S
Reaches(root, s, d) ==
  \A S \in SUBSET Slot : RefsOf(root, s) \subseteq S /\ ClosedUnderRefs(root, S) => d \in S
Meaning(root, s) == {b \in root.children : b.slot = s \/ Reaches(root, s, b.slot)}

\* A committed snapshot can be read whole, whatever its writer had loaded: its
\* bodies, revisions and parent are stored, and it pins for each object one
\* revision of exactly the bodies the release gives it (InMemoryConfigStore:
\* "Revisions are reused, not rewritten").  A ref names a stored snapshot.
SnapshotsAreWhole ==
  LET ids == {f.id : f \in snapshots} IN
  /\ \A s \in ids :
       /\ {s.root} \cup s.root.children \subseteq objects
       /\ s.revisions \subseteq {f.id : f \in revisions}
       /\ s.parent \in ids \cup {None}
       /\ \A b \in s.root.children : \E p \in s.revisions :
            /\ Pins(s, b.slot) = {p}
            /\ p.closure = [root |-> b, deps |-> Meaning(s.root, b.slot) \ {b}]
  /\ \A f \in targets : f.snapshot \in ids

\* The five matches of load can be torn: a snapshot is read whose bodies, or
\* whose revisions, are not.  Only a commit between them does that; a store
\* nobody is writing never loads as corrupt.
TornLoadsWereOvertaken ==
  \A c \in Client : pc[c] = "act" =>
    \/ overtaken[c]
    \/ /\ ~ Corrupt(view[c])
       /\ \A s \in view[c].snapshots :
            s.id.revisions \subseteq {r.id : r \in view[c].revisions}

\* Each move of a ref over a target swaps one target for one: two writers that
\* read the same target cannot both replace it.  Only writers that found the
\* ref unset add a second one.
EachMoveReplacesOne == \A r \in RefName : Cardinality(Live(r)) = firsts[r]

\* recheck accepts no body the schema rejects and rejects none it accepts,
\* though most bodies are never decoded.
RecheckTellsTheTruth ==
  \A c \in Client : pc[c] = "act" /\ request[c].op = "recheck" =>
    LET reply == Reply(view[c], request[c]).recheck
        accepts(b) == <<request[c].schema, b.attrs>> \in Valid
    IN /\ \A b \in reply.compatible \cup reply.revalidated : accepts(b)
       /\ \A b \in reply.violations : ~ accepts(b)

\* The deploy preview names every revision that depends on the object, through
\* however many others, of every snapshot stored when it asked.
ImpactIsTransitive ==
  \A c \in Client : pc[c] = "act" /\ request[c].op = "reverseDependencies" =>
    \A s \in view[c].snapshots : \A p \in s.id.revisions :
      p.closure.root.slot # request[c].slot /\ ~ overtaken[c] /\ ~ Corrupt(view[c])
      /\ Reaches(s.id.root, SlotOf(p), request[c].slot)
        => p \in Reply(view[c], request[c]).dependents

\* Between two snapshots every object that came, or went (the same, the other
\* way round), or would behave differently is listed, edited or not.
NoChangeIsSilent ==
  LET slotsOf(snap) == {b.slot : b \in snap.root.children} IN
  \A f, g \in {x.id : x \in snapshots} :
    /\ slotsOf(g) \ slotsOf(f) = Added(f, g)
    /\ \A s \in slotsOf(f) \cap slotsOf(g) :
         Meaning(f.root, s) # Meaning(g.root, s)
           => \E x \in Changed(f, g) : x.slot = s /\ x.closure

\* docs/configuration.md:102: "a stale writer cannot silently overwrite a newer
\* pointer": the pointer a move replaces is the one its writer had loaded.
NoStaleOverwrite == ~ overwrote
=============================================================================
