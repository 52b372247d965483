---- MODULE MCSubscriptions ----
EXTENDS Subscriptions, TLC
P(e, a) == [entity |-> e, attribute |-> a]
MCHubQuery == {Query({P("emp:alice", ":emp/name"), P(Var, ":dept/budget")}, {}),
  Query({P(Var, Var)}, {"emp:bob"})}
MCHubChange == {P("emp:alice", ":emp/name"), P("emp:bob", ":dept/budget")}
Sample == {Query({p, r}, args) : p \in Pattern, r \in Pattern, args \in {{}, {"emp:bob"}}}
MCHubInit == HubInit \/ (\E c \in Connection, i \in QueryId, q \in Sample :
   /\ LET reg == Register([s \in {} |-> 0], {}, Id(c, i), q) IN registered = reg.queries /\ topicTree = reg.tree
   /\ clients = {c} /\ listed = TRUE /\ pending = {} /\ timer = FALSE /\ owed = [d \in Connection |-> {}])
MCHubNext == /\ \A s \in Subscriptions : registered[s] \in HubQuery
          /\ HubNext
====
