------------------------------ MODULE Decisions ------------------------------
(***************************************************************************)
(* Decisions: three-valued predicates evaluated over facts, the clock and  *)
(* the rules of a configuration, and what is kept of their answers.        *)
(*                                                                         *)
(* An evaluation records all that it looked at.  A cache serves an answer  *)
(* again while what it looked at has not changed; the preview of a release *)
(* skips whoever read no rule that moves; a reactor finds the answers that *)
(* a change has made stale; and a decision reads from the store the facts  *)
(* its rule could look at.  Contents stand for their hashes.               *)
(*                                                                         *)
(* `Subject` is one entity: the cache does not tell two of them apart.     *)
(***************************************************************************)
EXTENDS Integers, Sequences, FiniteSets

CONSTANTS
  Expression,     \* the predicates there are, with all their parts
  Height,         \* of each, that of its tree
  MaxHeight,
  Question,       \* the predicates that are asked
  RuleKey, RuleBody,
  FactRead,       \* <<entity, attribute>> of the facts there may be
  FactValue,
  Subject,
  Accounts,       \* how many worlds are asked about; the reactor watches the first
  DayLength,      \* the instants in a day
  MaxInstant, MaxChanges, MaxKept

Account == 1 .. Accounts
Composite == {"Not", "All", "Any"}
Granularity == {"instant", "day"}

ASSUME DecisionsAssumption ==
  /\ DayLength \in Nat \ {0} /\ Accounts \in Nat \ {0}
  /\ MaxInstant \in Nat /\ MaxChanges \in Nat /\ MaxKept \in Nat

VARIABLES
  world,          \* the facts of each account
  instant,        \* the clock
  rules,          \* the rule under each key, or NoRule
  kept,           \* the cache: [question, evaluation]
  watched,        \* the registrations of the reactor: [question, evaluation]
  unreacted,      \* the inputs that have changed since the reactor was told
  changes         \* how many inputs have changed

inputVars == <<world, instant, rules>>
decisionVars == <<inputVars, kept, watched, unreacted, changes>>

NoFact == <<"absent", 0>>
NoRule == [tag |-> "None"]
ThisOne == "$subject"

Resolve(entity) == IF entity = ThisOne THEN Subject ELSE entity
ReadOf(expr) == <<Resolve(expr.entity), expr.attribute>>
RuleCall(key) == [tag |-> "Rule", key |-> key]

(* Expressions are finite trees, and name facts and rules that may be.     *)
ASSUME ExpressionAssumption ==
  /\ MaxHeight \in Nat /\ Height \in [Expression -> 0 .. MaxHeight]
  /\ IsFiniteSet(RuleKey) /\ NoFact \notin FactValue /\ NoRule \notin Expression
  /\ Question \subseteq Expression /\ RuleBody \subseteq Expression
  /\ \A key \in RuleKey : RuleCall(key) \in Expression
  /\ \A read \in FactRead : read = <<read[1], read[2]>>
  /\ \A expr \in Expression :
       /\ expr.tag \in {"Lit", "Exists", "Eq", "Before", "Rule"} \cup Composite
       /\ expr.tag \in Composite =>
            \A i \in DOMAIN expr.exprs :
               expr.exprs[i] \in Expression /\ Height[expr.exprs[i]] < Height[expr]
       /\ expr.tag \in {"Exists", "Eq", "Before"} => ReadOf(expr) \in FactRead
       /\ expr.tag = "Before" => expr.granularity \in Granularity
       /\ expr.tag = "Rule" => expr.key \in RuleKey

-----------------------------------------------------------------------------
(* Observations: their key, and what was seen.                             *)

FactKey(read) == <<"fact", read[1], read[2]>>
RuleSlot(key) == <<"config", "rule", key>>
ClockKey(granularity) == <<"clock", granularity, "now">>

Bucket(now, granularity) == IF granularity = "day" THEN now \div DayLength ELSE now

(* What the key of an observation shows now.                               *)
Seen(env, key) ==
  CASE key[1] = "fact"   -> env.facts[<<key[2], key[3]>>]
    [] key[1] = "config" -> <<"cid", env.rules[key[3]]>>
    [] OTHER             -> <<"bucket", Bucket(env.now, key[2])>>

\* Bug: what is absent is not recorded.
ObservePresent(env, key) ==
  IF Seen(env, key) \in {NoFact, <<"cid", NoRule>>} THEN {} ELSE {[key |-> key, seen |-> Seen(env, key)]}

Observe(env, key) == {[key |-> key, seen |-> Seen(env, key)]}

Reobserve(observed, env) == UNION {Observe(env, o.key) : o \in observed}
KeysOf(observed) == {o.key : o \in observed}

-----------------------------------------------------------------------------
(* Evaluation.                                                             *)

NotOf(t) == CASE t = "unknown" -> "unknown" [] t = "true" -> "false" [] OTHER -> "true"
AllOf(ts) == IF "false" \in ts THEN "false" ELSE IF "unknown" \in ts THEN "unknown" ELSE "true"
AnyOf(ts) == IF "true" \in ts THEN "true" ELSE IF "unknown" \in ts THEN "unknown" ELSE "false"
Truth(b) == IF b THEN "true" ELSE "false"

(* A node observes what it and its children have looked at.                *)
Node(expr, truth, observed, children) ==
  [expr |-> expr, truth |-> truth, children |-> children,
   observed |-> observed \cup UNION {children[i].observed : i \in DOMAIN children}]

(* An absent fact is unknown to all but Exists, and so is no instant.      *)
Compared(expr, value, now) ==
  IF expr.tag = "Exists" THEN Truth(value # NoFact)
  ELSE IF value = NoFact THEN "unknown"
  ELSE IF expr.tag = "Eq" THEN Truth(value = expr.value)
  ELSE IF value[1] # "number" THEN "unknown"
  ELSE Truth(Bucket(value[2], expr.granularity) < Bucket(now, expr.granularity))

(* One node, when `go` answers for its parts and for the rules it calls.    *)
NodeOf(expr, env, calling, go) ==
  CASE expr.tag = "Lit" -> Node(expr, Truth(expr.value), {}, <<>>)
    [] expr.tag \in {"Exists", "Eq", "Before"} ->
         LET key == FactKey(ReadOf(expr))
             clock == IF expr.tag = "Before" THEN Observe(env, ClockKey(expr.granularity)) ELSE {}
         IN  Node(expr, Compared(expr, Seen(env, key), env.now), Observe(env, key) \cup clock, <<>>)
    [] expr.tag = "Rule" ->
         LET observed == Observe(env, RuleSlot(expr.key))
             child == go[<<env.rules[expr.key], calling \cup {expr.key}>>]
         IN  IF env.rules[expr.key] = NoRule \/ expr.key \in calling
             THEN Node(expr, "unknown", observed, <<>>)
             ELSE Node(expr, child.truth, observed, <<child>>)
    [] OTHER ->
         LET children == [i \in DOMAIN expr.exprs |-> go[<<expr.exprs[i], calling>>]]
             truths == {children[i].truth : i \in DOMAIN children}
         IN  Node(expr, CASE expr.tag = "Not" -> NotOf(children[1].truth)
                          [] expr.tag = "All" -> AllOf(truths)
                          [] OTHER -> AnyOf(truths), {}, children)

Go(env) ==
  LET go[call \in Expression \X SUBSET RuleKey] == NodeOf(call[1], env, call[2], go) IN go

Env(account, catalog) == [facts |-> world[account], now |-> instant, rules |-> catalog]
Evaluate(question, env) == Go(env)[<<question, {}>>]

-----------------------------------------------------------------------------
(* The cache: an answer is good while its observations show what they did. *)

Hits(cache, question, env) ==
  {e \in cache : e.question = question /\ Reobserve(e.evaluation.observed, env) = e.evaluation.observed}

Cached(cache, question, env) ==
  IF Hits(cache, question, env) # {} THEN (CHOOSE e \in Hits(cache, question, env) : TRUE).evaluation
  ELSE Evaluate(question, env)

(* The preview of a release: whoever read no rule that moves is skipped.   *)
ConfigOf(observed) == {o \in observed : o.key[1] = "config"}

Moved(evaluation, env) ==
  Reobserve(ConfigOf(evaluation.observed), env) # ConfigOf(evaluation.observed)

(* One account after another, each with the cache that the last one left.  *)
Considered(working, question, after, account) ==
  LET previous == Cached(working.cache, question, Env(account, rules))
      then == working.cache \cup {[question |-> question, evaluation |-> previous]}
      next == Cached(then, question, Env(account, after))
  IN  IF ~Moved(previous, Env(account, after)) THEN [working EXCEPT !.cache = then]
      ELSE [cache |-> then \cup {[question |-> question, evaluation |-> next]},
            flipped |-> IF next.truth = previous.truth THEN working.flipped
                        ELSE working.flipped \cup {<<account, previous.truth, next.truth>>}]

Impact(cache, question, after) ==
  LET upTo[n \in 0 .. Accounts] ==
        IF n = 0 THEN [cache |-> cache, flipped |-> {}]
        ELSE Considered(upTo[n - 1], question, after, n)
  IN  upTo[Accounts]

-----------------------------------------------------------------------------
(* The facts a decision loads: those its rule and the rules it calls name. *)

LeavesOf[expr \in Expression] ==
  IF expr.tag \in Composite
  THEN UNION {LeavesOf[expr.exprs[i]] : i \in DOMAIN expr.exprs} ELSE {expr}

Mentions(expr) == {ReadOf(e) : e \in {e \in LeavesOf[expr] : e.tag \in {"Exists", "Eq", "Before"}}}
MentionsRules(expr) == {e.key : e \in {e \in LeavesOf[expr] : e.tag = "Rule"}}

(* The rules it calls, and those call, none of them twice on one way.      *)
Defined(keys) == {k \in keys : rules[k] # NoRule}
Visit ==
  LET visit[call \in Expression \X SUBSET RuleKey] ==
        LET called == MentionsRules(call[1]) \ call[2]
        IN  called \cup UNION {visit[<<rules[k], call[2] \cup called>>] : k \in Defined(called)}
  IN  visit
VisitedRules(expr) == Visit[<<expr, {}>>]

FactReads(expr) == UNION {Mentions(e) : e \in {expr} \cup {rules[k] : k \in Defined(VisitedRules(expr))}}

DecisionOf(key, account) ==
  LET question == RuleCall(key)
      reads == FactReads(question)
      loaded == [r \in FactRead |-> IF r \in reads THEN world[account][r] ELSE NoFact]
  IN  Evaluate(question, [Env(account, rules) EXCEPT !.facts = loaded])

-----------------------------------------------------------------------------

DecisionsInit ==
  /\ world = [account \in Account |-> [read \in FactRead |-> NoFact]]
  /\ instant = DayLength - 1
  /\ rules \in [RuleKey -> {NoRule} \cup RuleBody]
  /\ kept = {} /\ watched = {} /\ unreacted = {} /\ changes = 0

(* A value is submitted or withdrawn, a rule released, an instant passes.  *)
Changes(keys) ==
  /\ changes < MaxChanges /\ changes' = changes + 1
  /\ unreacted' = unreacted \cup keys
  /\ UNCHANGED <<kept, watched>>

Submit(account, read, value) ==
  /\ world' = [world EXCEPT ![account][read] = value] /\ world' # world
  /\ Changes(IF account = 1 THEN {FactKey(read)} ELSE {})
  /\ UNCHANGED <<instant, rules>>

Release(key, body) ==
  /\ rules' = [rules EXCEPT ![key] = body] /\ rules' # rules
  /\ Changes({RuleSlot(key)})
  /\ UNCHANGED <<world, instant>>

Tick ==
  /\ instant < MaxInstant /\ instant' = instant + 1
  /\ Changes({ClockKey(g) : g \in {g \in Granularity : Bucket(instant, g) # Bucket(instant + 1, g)}})
  /\ UNCHANGED <<world, rules>>

Ask(question, account) ==
  /\ kept' = kept \cup {[question |-> question, evaluation |-> Cached(kept, question, Env(account, rules))]}
  /\ Cardinality(kept') + Cardinality(watched) <= MaxKept
  /\ UNCHANGED <<inputVars, watched, unreacted, changes>>

Preview(question, key, body) ==
  /\ kept' = Impact(kept, question, [rules EXCEPT ![key] = body]).cache
  /\ Cardinality(kept') + Cardinality(watched) <= MaxKept
  /\ UNCHANGED <<inputVars, watched, unreacted, changes>>

Watching(question) == {w \in watched : w.question = question}
Fresh(question) == [question |-> question, evaluation |-> Evaluate(question, Env(1, rules))]

Watch(question) ==
  /\ watched' = (watched \ Watching(question)) \cup {Fresh(question)}
  /\ Cardinality(kept) + Cardinality(watched') <= MaxKept
  /\ UNCHANGED <<inputVars, kept, unreacted, changes>>

Unwatch(question) ==
  /\ watched' = watched \ Watching(question)
  /\ UNCHANGED <<inputVars, kept, unreacted, changes>>

(* The index finds the registrations by the keys of their observations.    *)
AffectedAnswers == {w \in watched : KeysOf(w.evaluation.observed) \cap unreacted # {}}

React ==
  /\ unreacted # {} /\ unreacted' = {}
  /\ watched' = (watched \ AffectedAnswers) \cup {Fresh(w.question) : w \in AffectedAnswers}
  /\ UNCHANGED <<inputVars, kept, changes>>

DecisionsNext ==
  \/ \E account \in Account, read \in FactRead, value \in {NoFact} \cup FactValue :
       Submit(account, read, value)
  \/ \E key \in RuleKey, body \in {NoRule} \cup RuleBody :
       \/ Release(key, body)
       \/ \E question \in Question : Preview(question, key, body)
  \/ Tick \/ React
  \/ \E question \in Question : \/ Watch(question) \/ Unwatch(question)
                                \/ \E account \in Account : Ask(question, account)

DecisionsSpec == DecisionsInit /\ [][DecisionsNext]_decisionVars

-----------------------------------------------------------------------------
(* An answer, from the cache or not, is the one that evaluating now would  *)
(* give, with all its evidence: nothing it depends on goes unrecorded,     *)
(* neither what was absent nor the clock nor a rule.                       *)
CachedAnswersAreFresh ==
  \A question \in Question, account \in Account :
    Cached(kept, question, Env(account, rules)) = Evaluate(question, Env(account, rules))

(* The preview of a release names exactly the accounts whose answer flips, *)
(* though it evaluates only those that read a rule that moves.             *)
PreviewsAreExact ==
  \A question \in Question, key \in RuleKey, body \in {NoRule} \cup RuleBody :
    LET after == [rules EXCEPT ![key] = body]
        Before(a) == Evaluate(question, Env(a, rules)).truth
        After(a) == Evaluate(question, Env(a, after)).truth
    IN  Impact(kept, question, after).flipped =
          {<<a, Before(a), After(a)>> : a \in {a \in Account : Before(a) # After(a)}}

(* A decision that loads only the facts its rules name is the decision     *)
(* over all the facts there are.                                           *)
DecisionsReadEnough ==
  \A key \in RuleKey, account \in Account :
    DecisionOf(key, account) = Evaluate(RuleCall(key), Env(account, rules))

(* Whatever spares work in answering changes no answer: not the cache, nor *)
(* skipping in a preview whoever read no moved rule, nor loading only the  *)
(* facts that a decision may read (Evaluate.ts, ConfigRuntime.ts).         *)
AnswersAreCurrent ==
  /\ kept # {} => CachedAnswersAreFresh /\ PreviewsAreExact
  /\ DecisionsReadEnough

(* Once the reactor was told of every change, what it holds is current: an *)
(* answer that a change could touch is found in the index.                 *)
WatchedAnswersAreCurrent ==
  unreacted = {} => \A w \in watched : w = Fresh(w.question)
=============================================================================
