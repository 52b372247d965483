--------------------------- MODULE MCStoreClients ---------------------------
(* The clients of the store that do not meet, in one run: the first state  *)
(* chooses which of them move, and the others stay as they are.            *)
EXTENDS MCConfigStore, Snapshots, EntityValidation, MCDerivation, TLC

VARIABLE part

MCPatterns ==
  {[entities |-> Entity, named |-> FALSE]} \cup {[entities |-> {e}, named |-> TRUE] : e \in Entity}
MCTogether == {Entity}

\* Validation: the second subject may be anything.
MCAllowed == ("s1" :> {"a"}) @@ ("s2" :> {"a","b"})

clientsVars == <<part, configVars, snapVars, validationVars, derivationVars>>

NoTarget == ValidationInit /\ target = CHOOSE s \in Snapshot : TRUE

ClientsInit ==
  /\ part \in {"config", "snapshots", "validation", "derivations"}
  /\ Init /\ SnapInit /\ DerivationInit
  /\ IF part = "validation" THEN ValidationInit ELSE NoTarget

ClientsNext ==
  \/ part = "config" /\ Next /\ UNCHANGED <<part, snapVars, validationVars, derivationVars>>
  \/ part = "snapshots" /\ SnapNext /\ UNCHANGED <<part, configVars, validationVars, derivationVars>>
  \/ part = "validation" /\ ValidationNext /\ UNCHANGED <<part, configVars, snapVars, derivationVars>>
  \/ part = "derivations" /\ DerivationNext /\ UNCHANGED <<part, configVars, snapVars, validationVars>>

ClientsSpec == ClientsInit /\ [][ClientsNext]_clientsVars

\* The clients of the four parts have the same names, and so have entities and subjects.
ClientsSymmetry == Permutations(Client) \cup Permutations(Entity)
=============================================================================
