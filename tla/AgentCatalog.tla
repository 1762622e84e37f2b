---------------------------- MODULE AgentCatalog ----------------------------
(* type_definitions, the registry each process builds from it, and the      *)
(* agent_templates whose declared types a process checks against its own    *)
(* registry.  Processes start, reload and write on their own; a request is  *)
(* a goroutine of one process, and each of its statements a step.  Any      *)
(* statement may fail, and ends its request or its reload when it does.     *)
(*                                                                          *)
(* Rows of type_definitions are only ever added (by migrations); the code   *)
(* has no statement that removes one.  The foreign key of workflow_nodes on *)
(* a template is in module WorkflowStore.                                   *)
EXTENDS FiniteSets, Integers

CONSTANTS
  Server, Request, ServedBy,   \* processes; goroutines and the process of each
  Type, CoreTypes,   \* type ids, and those of the seed migration
  Broken,            \* types whose json_schema does not compile
  InputTypes, OutputTypes,  \* the sets of input types, and output types, a caller names
  Template           \* agent_templates ids that are ever given out

TypeAssumption ==
  /\ CoreTypes \subseteq Type /\ Broken \subseteq Type
  /\ InputTypes \subseteq SUBSET Type /\ OutputTypes \subseteq Type
  /\ "unset" \notin Template
RequestAssumption == ServedBy \in [Request -> Server]

Unset  == "unset"    \* no id
Column == {"input_types", "output_type"}
Types  == {[c \in Column |-> IF c = "input_types" THEN i ELSE {o}] : i \in InputTypes, o \in OutputTypes}

VARIABLES
  typeRows,          \* rows of type_definitions
  up,                \* processes whose Load succeeded
  registry,          \* per process: r.all
  loader,            \* per process: the reload under way, and the rows its query returned
  templates,         \* rows of agent_templates, "unborn" or "gone"
  pc,                \* per request: where it stands
  param,             \* per request: the template id and the types it sets
  toCheck,           \* per request: arguments of MustExist
  snapshots          \* history: every value typeRows has had

process == <<up, registry, loader>>
request == <<pc, param, toCheck>>
vars    == <<typeRows, process, templates, request, snapshots>>

Row == [state : {"unborn", "live", "gone"}, types : [Column -> SUBSET Type],
        forkedFrom : Template \cup {Unset}]
(* set: the columns whose field of UpdateAgentTemplateParams is not nil.    *)
Param == [id : Template \cup {Unset}, set : SUBSET Column, types : [Column -> SUBSET Type]]
Loader == [at : {"idle", "compile"}, rows : SUBSET Type]
NoTypes == [c \in Column |-> {}]
NoParam == [id |-> Unset, set |-> {}, types |-> NoTypes]
NoRow(state) == [state |-> state, types |-> NoTypes, forkedFrom |-> Unset]
IsRow(t) == templates[t].state = "live"
Named(types) == UNION {types[c] : c \in Column}
TypesOf(t) == Named(templates[t].types)

TypeOK ==
  /\ typeRows \subseteq Type /\ up \subseteq Server
  /\ registry \in [Server -> SUBSET Type]
  /\ loader \in [Server -> Loader]
  /\ templates \in [Template -> Row]
  /\ \A t \in Template : IsRow(t) \/ templates[t] = NoRow(templates[t].state)
  /\ pc \in [Request -> {"idle", "read", "check", "insert", "update"}]
  /\ param \in [Request -> Param] /\ toCheck \in [Request -> SUBSET Type]
  /\ snapshots \subseteq SUBSET Type

Init ==
  /\ typeRows = CoreTypes /\ snapshots = {CoreTypes}
  /\ up = {} /\ registry = [s \in Server |-> {}] /\ loader = [s \in Server |-> [at |-> "idle", rows |-> {}]]
  /\ templates = [t \in Template |-> NoRow("unborn")]
  /\ pc = [q \in Request |-> "idle"]
  /\ param = [q \in Request |-> NoParam] /\ toCheck = [q \in Request |-> {}]

----------------------------------------------------------------------------
(* A migration adds a type.                                                 *)
Migrate ==
  /\ \E t \in Type \ typeRows : typeRows' = typeRows \cup {t}
  /\ snapshots' = snapshots \cup {typeRows'}
  /\ UNCHANGED <<process, templates, request>>

(* Load at startup, Reload later: a query, then, outside any lock, one      *)
(* schema compiled after the other, and the new map swapped in if all did.  *)
Reload(s) ==
  /\ loader[s].at = "idle"
  /\ loader' = [loader EXCEPT ![s] = [at |-> "compile", rows |-> typeRows]]
  /\ UNCHANGED <<typeRows, up, registry, templates, request, snapshots>>

(* Mutant of Compile: the map in use is filled while schemas compile.       *)
CompileInPlace(s) ==
  /\ loader[s].at = "compile"
  /\ loader' = [loader EXCEPT ![s] = [at |-> "idle", rows |-> {}]]
  /\ registry' = [registry EXCEPT ![s] = loader[s].rows \ Broken] /\ up' = up \cup {s}
  /\ UNCHANGED <<typeRows, templates, request, snapshots>>

Compile(s) ==
  /\ loader[s].at = "compile"
  /\ loader' = [loader EXCEPT ![s] = [at |-> "idle", rows |-> {}]]
  /\ \/ /\ loader[s].rows \cap Broken = {}
        /\ registry' = [registry EXCEPT ![s] = loader[s].rows] /\ up' = up \cup {s}
     \/ loader[s].rows \cap Broken # {} /\ UNCHANGED <<registry, up>>
  /\ UNCHANGED <<typeRows, templates, request, snapshots>>

----------------------------------------------------------------------------
(* A step of a request on a process that is up.                             *)
At(q, s) == pc[q] = s /\ ServedBy[q] \in up
Goto(q, s) == pc' = [pc EXCEPT ![q] = s]
Done(q) ==
  /\ Goto(q, "idle")
  /\ param' = [param EXCEPT ![q] = NoParam] /\ toCheck' = [toCheck EXCEPT ![q] = {}]
Still == UNCHANGED <<typeRows, process, snapshots>>

Create(q) ==
  /\ At(q, "idle")
  /\ \E types \in Types :
       /\ param' = [param EXCEPT ![q] = [id |-> Unset, set |-> Column, types |-> types]]
       /\ toCheck' = [toCheck EXCEPT ![q] = Named(types)]
  /\ Goto(q, "check")
  /\ Still /\ UNCHANGED templates

(* Update reads the row only when it sets a type.                           *)
Update(q) ==
  /\ At(q, "idle")
  /\ \E t \in Template, set \in SUBSET Column, types \in Types :
       /\ param' = [param EXCEPT ![q] =
                      [id |-> t, set |-> set, types |-> [c \in Column |-> IF c \in set THEN types[c] ELSE {}]]]
       /\ Goto(q, IF set = {} THEN "update" ELSE "read")
  /\ Still /\ UNCHANGED <<toCheck, templates>>

Merged(q) ==
  [c \in Column |-> IF c \in param[q].set THEN param[q].types[c] ELSE templates[param[q].id].types[c]]

(* Mutant of GetByID: the types of the row are checked, not the new ones.   *)
GetByIDOld(q) ==
  /\ At(q, "read") /\ IsRow(param[q].id)
  /\ toCheck' = [toCheck EXCEPT ![q] = TypesOf(param[q].id)]
  /\ Goto(q, "check") /\ Still /\ UNCHANGED <<param, templates>>

GetByID(q) ==
  /\ At(q, "read")
  /\ \/ /\ IsRow(param[q].id)
        /\ toCheck' = [toCheck EXCEPT ![q] = Named(Merged(q))]
        /\ Goto(q, "check") /\ UNCHANGED param
     \/ Done(q)
  /\ Still /\ UNCHANGED templates

MustExist(q) ==
  /\ At(q, "check")
  /\ \/ /\ toCheck[q] \subseteq registry[ServedBy[q]]
        /\ Goto(q, IF param[q].id = Unset THEN "insert" ELSE "update")
        /\ UNCHANGED <<param, toCheck>>
     \/ ~(toCheck[q] \subseteq registry[ServedBy[q]]) /\ Done(q)
  /\ Still /\ UNCHANGED templates

Insert(row) ==
  \E t \in Template :
    templates[t].state = "unborn" /\ templates' = [templates EXCEPT ![t] = row]

(* The INSERT of Create, with a new id.                                     *)
InsertTemplate(q) ==
  /\ At(q, "insert")
  /\ \/ Insert([state |-> "live", types |-> param[q].types, forkedFrom |-> Unset])
     \/ UNCHANGED templates
  /\ Done(q) /\ Still

(* The UPDATE, of the columns that are set, if the row is still there.      *)
UpdateTemplate(q) ==
  /\ At(q, "update")
  /\ \/ /\ IsRow(param[q].id)
        /\ templates' = [templates EXCEPT ![param[q].id].types = Merged(q)]
     \/ UNCHANGED templates
  /\ Done(q) /\ Still

(* Fork is one INSERT ... SELECT: it copies the types unchecked.            *)
Fork(q) ==
  /\ At(q, "idle")
  /\ \E source \in Template :
       IsRow(source) /\ Insert([templates[source] EXCEPT !.forkedFrom = source])
  /\ Still /\ UNCHANGED request

(* forked_from has no ON DELETE: a template with forks stays.               *)
Forks(t) == {f \in Template : IsRow(f) /\ templates[f].forkedFrom = t}
Delete(q) ==
  /\ At(q, "idle")
  /\ \E t \in Template :
       IsRow(t) /\ Forks(t) \subseteq {t} /\ templates' = [templates EXCEPT ![t] = NoRow("gone")]
  /\ Still /\ UNCHANGED request

Next ==
  \/ Migrate
  \/ \E s \in Server : Reload(s) \/ Compile(s)
  \/ \E q \in Request :
       \/ Create(q) \/ Update(q) \/ GetByID(q) \/ MustExist(q)
       \/ InsertTemplate(q) \/ UpdateTemplate(q) \/ Fork(q) \/ Delete(q)

Spec == Init /\ [][Next]_vars

----------------------------------------------------------------------------
(* No template names a type without a row and a schema that compiles,       *)
(* whichever process wrote it, with whatever registry, and however updates  *)
(* of single columns interleave between their check and their statement.    *)
TemplatesTyped == \A t \in Template : IsRow(t) => TypesOf(t) \subseteq typeRows \ Broken

(* A registry is the table as one query saw it: a reload that fails halfway *)
(* changes nothing, and a process without a registry serves nothing.        *)
RegistryIsSnapshot == \A s \in up : registry[s] \in snapshots

(* What TemplatesTyped rests on: a registry holds only types that compile,  *)
(* and what a request goes on to write has passed the check of its process; *)
(* since no type is ever removed, what was checked once stays good.         *)
Good == typeRows \ Broken
RegistryInv ==
  /\ snapshots \subseteq SUBSET typeRows /\ typeRows \in snapshots
  /\ \A s \in Server :
       /\ registry[s] \subseteq Good
       /\ loader[s].at = "compile" => loader[s].rows \in snapshots
RequestInv ==
  \A q \in Request :
    /\ pc[q] = "check" => \A c \in param[q].set : param[q].types[c] \subseteq toCheck[q]
    /\ pc[q] \in {"insert", "update"} => \A c \in param[q].set : param[q].types[c] \subseteq Good
    /\ pc[q] \in {"read", "update"} => param[q].id # Unset
    /\ pc[q] = "insert" \/ (pc[q] = "check" /\ param[q].id = Unset) => param[q].set = Column

(* The inductive invariant.                                                 *)
IInv == TypeOK /\ TemplatesTyped /\ RegistryIsSnapshot /\ RegistryInv /\ RequestInv
=============================================================================
