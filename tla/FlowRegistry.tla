---------------------------- MODULE FlowRegistry ----------------------------
(***************************************************************************)
(* What the flow routes promise of the flows and their deployments, as long *)
(* as the calls on one flow follow each other and none fails halfway: each  *)
(* is then one step.  A deployment is the saved canvas under the owner of   *)
(* the row; a flow that is deleted takes its deployment with it.  Of a flow *)
(* in disorder nothing is promised here.                                    *)
(***************************************************************************)
CONSTANTS Flow, None

VARIABLES
    row,      \* of each flow: [owner, name, canvas], or None
    dep,      \* its deployment: [user, canvas], or None
    disorder  \* flows on which calls overlapped, or one failed halfway

registryVars == <<row, dep, disorder>>

RegistryInit == DOMAIN row = Flow /\ dep = [f \in Flow |-> None] /\ disorder = {}

Only(f) == \A g \in Flow \ {f} : row'[g] = row[g] /\ dep'[g] = dep[g]

\* create_flow and import_flow: a new id, nothing deployed.
Create(f) ==
    /\ row[f] = None /\ dep[f] = None
    /\ row'[f] # None /\ dep'[f] = None

\* update_flow: the deployment stays as it was published.
Update(f) ==
    /\ row[f] # None /\ row'[f] # None
    /\ row'[f].owner = row[f].owner
    /\ dep'[f] = dep[f]

Delete(f) ==
    /\ row[f] # None
    /\ row'[f] = None /\ dep'[f] = None

Deploy(f) ==
    /\ row[f] # None
    /\ row'[f] = row[f]
    /\ dep'[f] = [user |-> row[f].owner, canvas |-> row[f].canvas]

Retire(f) ==
    /\ row[f] # None
    /\ row'[f] = row[f] /\ dep'[f] = None

RegistryNext ==
    \E f \in Flow :
        /\ Only(f)
        /\ \/ disorder' = disorder \cup {f}
           \/ disorder' = disorder /\ f \in disorder
           \/ /\ f \notin disorder /\ disorder' = disorder
              /\ Create(f) \/ Update(f) \/ Delete(f) \/ Deploy(f) \/ Retire(f)

RegistrySpec == RegistryInit /\ [][RegistryNext]_registryVars
=============================================================================
