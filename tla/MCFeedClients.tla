---------------------------- MODULE MCFeedClients ----------------------------
(* Those who follow the changes of a store, and the databases it is kept in,  *)
(* in one run: the first state chooses which of them move, and the others     *)
(* stay as they are.                                                          *)
EXTENDS ConsumerCheckpoint, MCSubscriptions, FdbSubscriptions, EntityHistory,
        MCDecisions, Databases

CONSTANTS w1, w2

VARIABLE part

feedVars == <<part, vars, hubVars, watchVars, entityHistoryVars, decisionVars,
              databasesVars>>

HistoryAtRest == EntityHistoryInit /\ subject = CHOOSE e \in Entity : TRUE
RulesAtRest == DecisionsInit /\ rules = [key \in RuleKey |-> NoRule]

FeedInit ==
  /\ part \in {"consumer", "hub", "watch", "history", "decisions", "databases"}
  /\ Init /\ WatchInit /\ DatabasesInit
  /\ IF part = "hub" THEN MCHubInit ELSE HubInit
  /\ IF part = "history" THEN EntityHistoryInit ELSE HistoryAtRest
  /\ IF part = "decisions" THEN DecisionsInit ELSE RulesAtRest

FeedNext ==
  \/ /\ part = "consumer" /\ Next
     /\ UNCHANGED <<part, hubVars, watchVars, entityHistoryVars, decisionVars, databasesVars>>
  \/ /\ part = "hub" /\ MCHubNext
     /\ UNCHANGED <<part, vars, watchVars, entityHistoryVars, decisionVars, databasesVars>>
  \/ /\ part = "watch" /\ WatchNext
     /\ UNCHANGED <<part, vars, hubVars, entityHistoryVars, decisionVars, databasesVars>>
  \/ /\ part = "history" /\ EntityHistoryNext
     /\ UNCHANGED <<part, vars, hubVars, watchVars, decisionVars, databasesVars>>
  \/ /\ part = "decisions" /\ DecisionsNext
     /\ UNCHANGED <<part, vars, hubVars, watchVars, entityHistoryVars, databasesVars>>
  \/ /\ part = "databases" /\ DatabasesNext
     /\ UNCHANGED <<part, vars, hubVars, watchVars, entityHistoryVars, decisionVars>>

(* The fairness of each part, on the variables of that part.               *)
FeedSpec ==
  /\ FeedInit /\ [][FeedNext]_feedVars
  /\ \A w \in Worker : WF_vars(part = "consumer" /\ WorkerStep(w))
  /\ WF_hubVars(part = "hub" /\ Flush)
  /\ WF_watchVars(part = "watch" /\ Emitted)
  /\ WF_watchVars(part = "watch" /\ Debounce)
  /\ WF_watchVars(part = "watch" /\ Read)
  /\ \A k \in WatchKey : WF_watchVars(part = "watch" /\ Progress(k))
=============================================================================
