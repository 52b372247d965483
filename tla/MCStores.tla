------------------------------ MODULE MCStores -------------------------------
(* Hosts of SQL stores, and what is computed from what stores hold, in one    *)
(* run: the first state chooses which of them move, and the others stay as    *)
(* they are.                                                                  *)
EXTENDS MCSqlTriples, MCQueryPages, MCHexastore, MCConstraints, MCTypes

VARIABLE part

othersVars == <<qpVars, sqlRowsVars, graphVars, typesVars>>
storesVars == <<part, vars, othersVars>>

NothingAsked == QpAsking("nothing", "both", 0, NoWrapped, Never)
NoPages ==
  /\ qpFacts = {} /\ qpPosition = 0 /\ qpAsked = NothingAsked
  /\ qpAt = "idle" /\ qpClause = 0 /\ qpBasis = NoBasis /\ qpContexts = <<>>
  /\ qpCursor = NoCursor /\ qpRows = <<>>
NoEngine == Init /\ engine = CHOOSE e \in Engines : TRUE

StoresInit ==
  /\ part \in {"sql", "pages", "hexastore", "constraints", "types"}
  /\ IF part = "sql" THEN Init ELSE NoEngine
  /\ IF part = "pages" THEN MCPagesInit ELSE NoPages
  /\ SqlRowsInit /\ ConstraintsInit /\ TypesInit

StoresNext ==
  \/ part = "sql" /\ Next /\ UNCHANGED <<part, othersVars>>
  \/ part = "pages" /\ QpNext /\ UNCHANGED <<part, vars, sqlRowsVars, graphVars, typesVars>>
  \/ part = "hexastore" /\ SqlRowsNext /\ UNCHANGED <<part, vars, qpVars, graphVars, typesVars>>
  \/ part = "constraints" /\ ConstraintsNext /\ UNCHANGED <<part, vars, qpVars, sqlRowsVars, typesVars>>
  \/ part = "types" /\ TypesNext /\ UNCHANGED <<part, vars, qpVars, sqlRowsVars, graphVars>>

(* The fairness of SqlTriples.                                             *)
StoresSpec ==
  /\ StoresInit /\ [][StoresNext]_storesVars
  /\ \A h \in Host : /\ WF_vars(part = "sql" /\ BodyStep(h))
                     /\ WF_vars(part = "sql" /\ pc[h] = "open" /\ HostEnd(h))
=============================================================================
