------------------------------- MODULE MCRows -------------------------------
(* The rows people write, for TLC: workflows and users (WorkflowStore),     *)
(* types and templates (AgentCatalog), market subscriptions (Subscriptions).*)
(* The three write different tables, so each behaviour exercises one of     *)
(* them, its part, and leaves the others as they are.                       *)
EXTENDS WorkflowStore, TLC

CONSTANTS
  Server, Request, ServedBy, Type, CoreTypes, Broken, InputTypes, OutputTypes, Template,
  Tx, Lists, Empty,
  s1, s2, q1, q2, a, b    \* names for the definitions below

VARIABLES
  part,
  typeRows, up, registry, loader, param, toCheck, snapshots,   \* of AgentCatalog
  catalogRows, requestPc,
  exists, targets, subs, lock, list, deleted, inserted,        \* of Subscriptions
  txPc, txFaults

Catalog == INSTANCE AgentCatalog WITH templates <- catalogRows, pc <- requestPc
Subs == INSTANCE Subscriptions WITH pc <- txPc, faults <- txFaults

ASSUME CatalogAssumption == Catalog!TypeAssumption /\ Catalog!RequestAssumption
ASSUME SubsAssumption    == Subs!ListAssumption

MCEmailOf  == [p \in Runctl |-> CHOOSE e \in Email : TRUE]
MCWiring   == << <<1, 2>> >>
MCServedBy == [q \in Request |-> IF q = q1 THEN s1 ELSE s2]
MCLists    == { << >>, <<a>>, <<b, a, b>>, <<Empty, b>> }

(* Templates are alike, and so are the two processes with their requests.   *)
Swap(f)  == [x \in {s1, s2, q1, q2} |->
               CASE x = s1 -> f[s1] [] x = s2 -> f[s2]
                 [] x = q1 -> IF f[s1] = s1 THEN q1 ELSE q2
                 [] x = q2 -> IF f[s1] = s1 THEN q2 ELSE q1]
Symmetry == {t @@ Swap(f) : t \in Permutations(Template), f \in Permutations({s1, s2})}


catalog == <<typeRows, up, registry, loader, param, toCheck, snapshots, catalogRows, requestPc>>
subscriptions == <<exists, targets, subs, lock, list, deleted, inserted, txPc, txFaults>>

StoreStep   == part = "store" /\ Next /\ UNCHANGED <<part, catalog, subscriptions>>
CatalogStep == part = "catalog" /\ Catalog!Next /\ UNCHANGED <<part, vars, subscriptions>>
SubsStep    == part = "subscriptions" /\ Subs!Next /\ UNCHANGED <<part, vars, catalog>>

MCInit ==
  /\ part \in {"store", "catalog", "subscriptions"}
  /\ Init /\ Catalog!Init /\ Subs!Init
MCNext == StoreStep \/ CatalogStep \/ SubsStep
MCSpec == MCInit /\ [][MCNext]_<<part, vars, catalog, subscriptions>>

(* No template names a type without a row and a schema that compiles,       *)
(* whichever process wrote it (AgentCatalog).                               *)
TemplatesTyped == Catalog!TemplatesTyped

(* A registry is the table as one query saw it (AgentCatalog).              *)
RegistryIsSnapshot == Catalog!RegistryIsSnapshot

(* Subscriptions and targets never disagree (Subscriptions).                *)
InSync == Subs!InSync
=============================================================================
