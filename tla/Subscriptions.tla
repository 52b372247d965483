---------------------------- MODULE Subscriptions ----------------------------
(***************************************************************************)
(* What a query reads, which changes concern it, and the hub that sends    *)
(* changes to the connections that have subscribed.                        *)
(*                                                                         *)
(* A query is what its clauses come down to: patterns, under not, or and   *)
(* in rule bodies as well, and the constants given to rules.  "?" is a     *)
(* variable.  A change is the key the hub knows it by: operation, entity   *)
(* and attribute; values are left out, and so are the operations.          *)
(* JavaScript runs each call of the hub whole; the debounce timer fires    *)
(* between calls.  Any send may fail.                                      *)
(***************************************************************************)
EXTENDS Integers, FiniteSets

CONSTANTS
  Connection, QueryId,
  HubQuery,        \* the queries that connections subscribe to
  HubChange        \* the changes that are emitted

Var == "?"
SubscribedEntity == {"emp:alice", "emp:bob"}
\* Two attributes of a type, one of another, one of none, one without its colon.
TypeOfAttribute ==
  [a \in {":emp/name", ":emp/age", ":dept/budget", ":age", "age"} |->
     CASE a \in {":emp/name", ":emp/age"} -> "emp" [] a = ":dept/budget" -> "dept" [] OTHER -> "none"]
QueryAttribute == DOMAIN TypeOfAttribute
HasColon(a) == a # "age"
InferredType(e) == "emp"             \* "emp:alice" is an "emp"

Pattern == [entity : SubscribedEntity \cup {Var}, attribute : QueryAttribute \cup {Var}]
Change == [entity : SubscribedEntity, attribute : QueryAttribute]
Query(patterns, arguments) == [patterns |-> patterns, arguments |-> arguments]

ASSUME SubscriptionAssumption ==
  /\ HubQuery \subseteq [patterns : SUBSET Pattern, arguments : SUBSET SubscribedEntity]
  /\ HubChange \subseteq Change

VARIABLES
  registered,  \* TopicTree.queries: the query of each subscription
  topicTree,   \* TopicTree.tree: the subscriptions under each topic
  clients,     \* the connections
  pending,     \* the changes since the last flush
  timer,       \* whether a flush is due
  listed,      \* whether the database has an entry
  owed         \* history: what each connection has yet to get

hubVars == <<registered, topicTree, clients, pending, timer, listed, owed>>
-----------------------------------------------------------------------------
\* extract-dependencies.ts

Typed(a) == a # Var /\ TypeOfAttribute[a] # "none"

ExtractDependencies(q) ==
  LET named  == {p \in q.patterns : p.attribute # Var /\ HasColon(p.attribute)}
      typed  == {p \in named : Typed(p.attribute)}
      bound  == {p \in q.patterns : p.entity # Var /\ (p.attribute = Var \/ p \in named)}
      TypesOf(ps) == {TypeOfAttribute[p.attribute] : p \in ps}
  IN [attributes  |-> {p.attribute : p \in named},
      types       |-> TypesOf(typed),
      dynamic     |-> \E p \in q.patterns : p.attribute = Var,
      boundIds    |-> {p.entity : p \in bound} \cup q.arguments,
      boundTypes  |-> TypesOf(typed \cap bound) \cup {InferredType(e) : e \in q.arguments},
      unboundTypes |-> TypesOf(typed \ bound)]

\* invalidation.ts, for one change.

\* Bug: a bound entity narrows a type that other patterns read whole.
ScopedToAny(d, type) == type \in d.boundTypes

ScopedTo(d, type) == type \in d.boundTypes /\ type \notin d.unboundTypes

CheckInvalidation(d, c) ==
  LET type == TypeOfAttribute[c.attribute]
  IN IF d.attributes = {} /\ d.types = {} THEN d.dynamic
     ELSE /\ type # "none" /\ d.types # {} => type \in d.types
          /\ ~ d.dynamic /\ d.attributes # {} => c.attribute \in d.attributes
          /\ d.boundIds # {} /\ type # "none" /\ ScopedTo(d, type) => c.entity \in d.boundIds

\* TopicTree.ts

TopicType(a) == IF TypeOfAttribute[a] = "none" THEN "*" ELSE TypeOfAttribute[a]

TopicsFor(d) ==
  LET topics == {<<TopicType(a), a>> : a \in d.attributes}
                  \cup (IF ~ d.dynamic THEN {}
                        ELSE {<<t, "*">> : t \in IF d.types = {} THEN {"*"} ELSE d.types})
  IN IF topics = {} THEN {<<"*", "*">>} ELSE topics

CandidateTopics(c) ==
  {<<TopicType(c.attribute), c.attribute>>, <<TopicType(c.attribute), "*">>, <<"*", "*">>}

\* FdbSubscriptions.ts: the keys an event sets and the keys a query watches.

KeysForChange(c) ==
  {<<"global">>, <<"attr", c.attribute>>, <<"entity", c.entity>>}
    \cup {<<"type", TypeOfAttribute[c.attribute]>> : t \in {TypeOfAttribute[c.attribute]} \ {"none"}}

KeysForDependencies(d) ==
  LET keys == {<<"global">> : x \in {x \in {1} : d.dynamic}}
                \cup {<<"attr", a>> : a \in d.attributes} \cup {<<"type", t>> : t \in d.types}
                \cup {<<"entity", e>> : e \in d.boundIds}
  IN IF keys = {} THEN {<<"global">>} ELSE keys
-----------------------------------------------------------------------------
\* The tree and the hub.

Id(c, i) == <<c, i>>
Subscriptions == DOMAIN registered
SubscriptionsOf(c) == {s \in Subscriptions : s[1] = c}

Without(f, ids) == [s \in DOMAIN f \ ids |-> f[s]]

\* register, which unregisters first.
Register(reg, tree, s, q) ==
  [queries |-> [t \in DOMAIN reg \cup {s} |-> IF t = s THEN q ELSE reg[t]],
   tree |-> {e \in tree : e.id # s}
              \cup {[topic |-> t, id |-> s] : t \in TopicsFor(ExtractDependencies(q))}]

\* findAffected, for one connection.
Affected(c, changes) ==
  {x \in changes : \E e \in topicTree :
     /\ e.topic \in CandidateTopics(x) /\ e.id \in SubscriptionsOf(c)
     /\ CheckInvalidation(ExtractDependencies(registered[e.id]), x)}

\* What a pattern of the query matches.
Reads(q, x) ==
  \E p \in q.patterns : p.attribute \in {Var, x.attribute} /\ p.entity \in {Var, x.entity}

Concerns(reg, c, x) ==
  \E s \in DOMAIN reg : s[1] = c /\ Reads(reg[s], x)

HubInit ==
  /\ registered = [s \in {} |-> 0] /\ topicTree = {} /\ clients = {}
  /\ pending = {} /\ timer = FALSE /\ listed = FALSE
  /\ owed = [c \in Connection |-> {}]

\* Bug: the subscriptions of the connection stay.
DisconnectedNow(gone, connected, reg, flushDue) ==
  /\ clients' = connected \ gone
  /\ registered' = reg.queries /\ topicTree' = reg.tree
  /\ listed' = (connected \ gone # {} \/ flushDue)

\* disconnect, after what registered and topicTree have become: the entry goes
\* with the last connection unless a flush is due.
Disconnected(gone, connected, reg, flushDue) ==
  /\ clients' = connected \ gone
  /\ registered' = Without(reg.queries, {s \in DOMAIN reg.queries : s[1] \in gone})
  /\ topicTree' = {e \in reg.tree : e.id[1] \notin gone}
  /\ listed' = (connected \ gone # {} \/ flushDue)

Registered == [queries |-> registered, tree |-> topicTree]
RemoveConnection(c) ==
  [queries |-> Without(registered, SubscriptionsOf(c)),
   tree |-> {e \in topicTree : e.id[1] # c}]

\* connect, again perhaps; the reply may fail.
Opened(c, reg) ==
  /\ \E failing \in {{}, {c}} : Disconnected(failing, clients \cup {c}, reg, timer)
  /\ owed' = [owed EXCEPT ![c] = {}]
  /\ UNCHANGED <<pending, timer>>

Connect(c) == Opened(c, RemoveConnection(c))

\* With a query that the client had before.
Resume(c, i) ==
  LET reg == RemoveConnection(c)
  IN \E q \in HubQuery : Opened(c, Register(reg.queries, reg.tree, Id(c, i), q))

\* disconnect, or a reply that fails.
Disconnect(c) ==
  /\ c \in clients
  /\ Disconnected({c}, clients, Registered, timer)
  /\ owed' = [owed EXCEPT ![c] = {}]
  /\ UNCHANGED <<pending, timer>>

Subscribe(c, i) ==
  /\ c \in clients
  /\ \E q \in HubQuery, fails \in BOOLEAN :
       LET reg == Register(registered, topicTree, Id(c, i), q)
       IN /\ Disconnected(IF fails THEN {c} ELSE {}, clients, reg, timer)
          /\ owed' = [owed EXCEPT ![c] =
                        IF fails THEN {} ELSE {x \in @ : Concerns(reg.queries, c, x)}]
  /\ UNCHANGED <<pending, timer>>

Unsubscribe(c, i) ==
  /\ c \in clients /\ Id(c, i) \in Subscriptions
  /\ registered' = Without(registered, {Id(c, i)})
  /\ topicTree' = {e \in topicTree : e.id # Id(c, i)}
  /\ owed' = [owed EXCEPT ![c] =
                {x \in @ : SubscriptionsOf(c) = {Id(c, i)} \/ Concerns(registered', c, x)}]
  /\ UNCHANGED <<clients, pending, timer, listed>>

\* emitForDatabase.  A connection without subscriptions is owed everything.
Emit(x) ==
  /\ listed /\ clients # {}
  /\ pending' = pending \cup {x} /\ timer' = TRUE
  /\ owed' = [c \in Connection |->
                IF c \in clients /\ (SubscriptionsOf(c) = {} \/ Concerns(registered, c, x))
                THEN owed[c] \cup {x} ELSE owed[c]]
  /\ UNCHANGED <<registered, topicTree, clients, listed>>

\* Bug: a connection that has subscribed to nothing gets nothing.
SentToSubscribers(c) == Affected(c, pending)

Sent(c) == IF SubscriptionsOf(c) = {} THEN pending ELSE Affected(c, pending)

\* flush: what concerns each connection; those whose send fails are gone.
Flush ==
  /\ timer /\ pending # {}
  /\ pending' = {} /\ timer' = FALSE
  /\ \E failing \in SUBSET {c \in clients : Sent(c) # {}} :
       /\ Disconnected(failing, clients, Registered, FALSE)
       /\ owed' = [c \in Connection |-> IF c \in failing THEN {} ELSE owed[c] \ Sent(c)]

Dispose ==
  /\ listed
  /\ registered' = [s \in {} |-> 0] /\ topicTree' = {} /\ clients' = {}
  /\ pending' = {} /\ timer' = FALSE /\ listed' = FALSE
  /\ owed' = [c \in Connection |-> {}]

HubNext ==
  \/ \E c \in Connection :
       \/ Connect(c) \/ Disconnect(c)
       \/ \E i \in QueryId : Resume(c, i) \/ Subscribe(c, i) \/ Unsubscribe(c, i)
  \/ \E x \in HubChange : Emit(x)
  \/ Flush
  \/ Dispose

\* setTimeout: the debounce timer fires.
HubSpec == HubInit /\ [][HubNext]_hubVars /\ WF_hubVars(Flush)
-----------------------------------------------------------------------------
\* No attribute is written without its colon.
Named(q) == \A p \in q.patterns : p.attribute = Var \/ HasColon(p.attribute)

\* The queries that the filters are good for: beside a variable for an attribute
\* there is no attribute of a type, nor both an attribute and a constant given
\* to a rule.
Discoverable(q) ==
  LET d == ExtractDependencies(q)
  IN /\ Named(q)
     /\ d.dynamic => d.types = {} /\ (d.attributes = {} \/ q.arguments = {})

FiltersKeep(q) ==
  LET d == ExtractDependencies(q)
  IN \A x \in Change : Reads(q, x) =>
       CheckInvalidation(d, x) /\ TopicsFor(d) \cap CandidateTopics(x) # {}

KeysMeet(q) ==
  \A x \in Change : Reads(q, x) =>
    KeysForChange(x) \cap KeysForDependencies(ExtractDependencies(q)) # {}

\* No filter drops a change that a pattern of a subscribed query matches, and the
\* keys it sets in FoundationDB meet those of every query that reads it.
\* (invalidation.ts:16-18: "should never return false when the subscription
\* would change (no false negatives)")
FiltersKeepWhatIsRead ==
  \A s \in Subscriptions :
    /\ Discoverable(registered[s]) => FiltersKeep(registered[s])
    /\ Named(registered[s]) => KeysMeet(registered[s])

\* Each change reaches each connection that it concerned when it was emitted, if
\* that stays and keeps its subscription, whatever other sends fail meanwhile.
OwedChangesAreSent ==
  (\E c \in Connection : owed[c] # {}) ~> (\A c \in Connection : owed[c] = {})

\* Nothing of a connection that is gone is left, nor a database without any.
NothingOutlivesItsClients ==
  /\ listed => clients # {} \/ timer
  /\ \A s \in Subscriptions : s[1] \in clients
  /\ {e.id : e \in topicTree} = Subscriptions
=============================================================================
