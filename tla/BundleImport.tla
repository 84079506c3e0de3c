---------------------------- MODULE BundleImport ----------------------------
(***************************************************************************)
(* Importing a bundle: the page that validates a file, shows what it would *)
(* change, lets a person resolve the conflicts and applies it              *)
(* (ImportExport.tsx, ConflictResolver.tsx), the two handlers it calls     *)
(* (routers/bundles.py, bundle/import_.py), and everybody else who writes  *)
(* entities through the CRUD API meanwhile (routers/pmdf.py).              *)
(*                                                                         *)
(* The two handlers are bodies of the event loop that do not suspend once  *)
(* they have read the upload: each is one step. Their requests and answers *)
(* take time, in which the person goes on using the page; a connection may *)
(* break and its request still be executed. What the repository holds of a *)
(* batch that failed half-way is in PmdfStore; here it is what can be read *)
(* of it, the files in the working tree.                                   *)
(***************************************************************************)
EXTENDS FiniteSets

CONSTANTS
  Entities, \* ids of entities
  Contents, \* what an entity may say
  None,     \* no entity, no file, no preview
  Bundles,  \* the files at hand: valid or not, with a content for some of the ids
  Orders    \* bound: the requests of `apply' that can be on their way at once

ASSUME NoneAssumption == None \notin Entities \cup Contents \cup Bundles \cup Orders
ASSUME BundlesAssumption ==
  \A b \in Bundles :
    /\ b.valid \in BOOLEAN
    /\ DOMAIN b.entities \subseteq Entities
    /\ \A e \in DOMAIN b.entities : b.entities[e] \in Contents

VARIABLES
  store,       \* the entities of the PMDF repository
  selected,    \* selectedFile
  diffs,       \* diffs: how each entity of a file compares, or None
  resolutions, \* resolutions
  panel,       \* manualEditTarget
  validation,  \* the request of `preview': not under way, sent, or answered
  applying,    \* the request of `apply' that the page waits for
  order,       \* each request of `apply', while it is on its way
  decided,     \* (history) the conflicts resolved under the preview that is shown
  overtaken    \* (history) the entities that have changed since that preview was
               \* computed; all of them if it is late, i.e. of another file than the
               \* one selected when it arrived

vars == <<store, selected, diffs, resolutions, panel, validation, applying, order, decided,
          overtaken>>
application == <<applying, order>>
tab == <<selected, diffs, resolutions, panel, decided, overtaken>>

Sides == {"incoming", "existing"}
DiffTypes == {"new", "identical", "conflict"}
Idle == [at |-> "idle"]

Init ==
  /\ store \in [Entities -> Contents \cup {None}]
  /\ selected = None
  /\ diffs = None
  /\ resolutions = [e \in {} |-> None]
  /\ panel = None
  /\ validation = Idle
  /\ applying = None
  /\ order = [o \in Orders |-> Idle]
  /\ decided = {}
  /\ overtaken = {}

-----------------------------------------------------------------------------
(* The page.                                                               *)

\* Mutant: the preview of the file before stays.
ChooseFileOnly(file) ==
  /\ selected' = file
  /\ UNCHANGED <<store, diffs, resolutions, panel, validation, application, decided,
                 overtaken>>

(* A file is chosen, or none: the preview goes, resolutions and manual edit stay. *)
ChooseFile(file) ==
  /\ selected' = file
  /\ diffs' = None
  /\ decided' = {}
  /\ overtaken' = {}
  /\ UNCHANGED <<store, resolutions, panel, validation, application>>

(* The button `preview', which is disabled while its request is under way. *)
Preview ==
  /\ selected # None /\ validation = Idle
  /\ validation' = [at |-> "sent", file |-> selected]
  /\ UNCHANGED <<store, tab, application>>

(* onSuccess of the validation, whatever file is selected by now. *)
ShowDiffs ==
  /\ validation.at = "answered"
  /\ diffs' = validation.diffs
  /\ resolutions' = [e \in {} |-> None]
  /\ decided' = {}
  /\ overtaken' = IF validation.file = selected THEN validation.changed ELSE Entities
  /\ validation' = Idle
  /\ UNCHANGED <<store, selected, panel, application>>

(* The request or its answer is lost. *)
ValidationFails ==
  /\ validation # Idle
  /\ validation' = Idle
  /\ UNCHANGED <<store, tab, application>>

Conflicts == IF diffs = None THEN {} ELSE {e \in DOMAIN diffs : diffs[e] = "conflict"}

Decide(e, choice) ==
  /\ resolutions' = [x \in DOMAIN resolutions \cup {e} |->
                       IF x = e THEN choice ELSE resolutions[x]]
  /\ decided' = decided \cup {e}

(* The conflict resolver: one of two sides. *)
Resolve(e, choice) ==
  /\ e \in Conflicts
  /\ Decide(e, choice)
  /\ UNCHANGED <<store, selected, diffs, panel, validation, application, overtaken>>

(* ... or the manual edit, which ends as the incoming side. Nothing closes it but
   this, and it is shown whenever there is a preview. *)
OpenPanel(e) ==
  /\ e \in Conflicts
  /\ panel' = e
  /\ UNCHANGED <<store, selected, diffs, resolutions, validation, application, decided,
                 overtaken>>

ConfirmPanel ==
  /\ panel # None /\ diffs # None
  /\ Decide(panel, "incoming")
  /\ panel' = None
  /\ UNCHANGED <<store, selected, diffs, validation, application, overtaken>>

CanApply ==
  /\ diffs # None
  /\ Conflicts \subseteq DOMAIN resolutions
  /\ applying = None

\* What the preview says will change, if it is applied with these resolutions.
Announced ==
  {e \in DOMAIN diffs : diffs[e] = "new" \/ (e \in Conflicts /\ resolutions[e] = "incoming")}

(* The button `apply'. Without a file the mutation rejects and nothing is sent. *)
Apply(o) ==
  /\ CanApply /\ selected # None
  /\ order[o].at # "sent"
  /\ order' = [order EXCEPT ![o] =
       [at |-> "sent", file |-> selected, resolutions |-> resolutions,
        announced |-> Announced, decided |-> decided, overtaken |-> overtaken]]
  /\ applying' = o
  /\ UNCHANGED <<store, tab, validation>>

(* The answer arrives, or the connection breaks, whether the server goes on with the
   request or not. The preview stays. *)
ApplyEnds ==
  /\ applying # None
  /\ applying' = None
  /\ UNCHANGED <<store, tab, validation, order>>

(* The request is lost on its way, or refused. *)
ApplyLost(o) ==
  /\ order[o].at = "sent"
  /\ order' = [order EXCEPT ![o] = Idle]
  /\ UNCHANGED <<store, tab, validation, applying>>

-----------------------------------------------------------------------------
(* The API server.                                                         *)

\* validate_bundle: the archive, its manifest and each of its entities are in order.
Valid(bundle) == bundle.valid

(* diff_preview: each entity of the bundle beside the one of the store. *)
DiffType(bundle, e) ==
  IF store[e] = None THEN "new"
  ELSE IF store[e] = bundle.entities[e] THEN "identical" ELSE "conflict"

DiffPreview(bundle) == [e \in DOMAIN bundle.entities |-> DiffType(bundle, e)]

(* POST /bundles/import/validate: 422 for a file that is not valid. *)
ImportValidate ==
  /\ validation.at = "sent" /\ Valid(validation.file)
  /\ validation' = [at |-> "answered", file |-> validation.file,
                    diffs |-> DiffPreview(validation.file), changed |-> {}]
  /\ UNCHANGED <<store, tab, application>>

\* The store changes while previews and decisions are about: those are overtaken,
Overtake(changed) ==
  /\ overtaken' = IF diffs = None THEN {} ELSE overtaken \cup changed
  /\ validation' = IF validation.at = "answered"
                   THEN [validation EXCEPT !.changed = @ \cup changed] ELSE validation

\* and so are the requests that are on their way.
OvertakeOrders(changed) ==
  [o \in Orders |-> IF order[o].at = "sent"
                    THEN [order[o] EXCEPT !.overtaken = @ \cup changed] ELSE order[o]]

\* Mutant: the existing side is not kept.
AcceptedAll(bundle, chosen) == DOMAIN bundle.entities

(* apply_bundle: what is not to stay as it exists is taken from the bundle. *)
Accepted(bundle, chosen) ==
  {e \in DOMAIN bundle.entities : ~(e \in DOMAIN chosen /\ chosen[e] = "existing")}

\* The store with these entities as the bundle has them.
Updated(bundle, written) ==
  [e \in Entities |-> IF e \in written THEN bundle.entities[e] ELSE store[e]]

\* What request o leaves in the store when it ends.
Leave(o, updated) ==
  LET changed == {e \in Entities : updated[e] # store[e]}
  IN /\ store' = updated
     /\ Overtake(changed)
     /\ order' = [OvertakeOrders(changed) EXCEPT ![o] = Idle]

(* POST /bundles/import/apply: one batch for the store. *)
ImportApply(o) ==
  /\ order[o].at = "sent" /\ Valid(order[o].file)
  /\ Leave(o, Updated(order[o].file, Accepted(order[o].file, order[o].resolutions)))
  /\ UNCHANGED <<selected, diffs, resolutions, panel, applying, decided>>

(* The handler raises after some of the files, or all: what is written stays. *)
ImportFails(o) ==
  /\ order[o].at = "sent" /\ Valid(order[o].file)
  /\ \E written \in SUBSET Accepted(order[o].file, order[o].resolutions) :
       Leave(o, Updated(order[o].file, written))
  /\ UNCHANGED <<selected, diffs, resolutions, panel, applying, decided>>

\* Somebody saves an entity.
Save(e, content) ==
  /\ content # store[e]
  /\ store' = [store EXCEPT ![e] = content]
  /\ Overtake({e})
  /\ order' = OvertakeOrders({e})
  /\ UNCHANGED <<selected, diffs, resolutions, panel, applying, decided>>

(* POST /pmdf/{kind}: agents and other pages. It does not ask whether the entity
   exists. *)
CreateEntity(e, content) == Save(e, content)

(* PUT /pmdf/{kind}/{id}: the entity editor. 404 for an entity that does not exist. *)
UpdateEntity(e, content) == store[e] # None /\ Save(e, content)

-----------------------------------------------------------------------------
Next ==
  \/ \E file \in Bundles \cup {None} : ChooseFile(file)
  \/ Preview
  \/ ShowDiffs
  \/ ValidationFails
  \/ \E e \in Entities, choice \in Sides : Resolve(e, choice)
  \/ \E e \in Entities : OpenPanel(e)
  \/ ConfirmPanel
  \/ \E o \in Orders : Apply(o) \/ ApplyLost(o) \/ ImportApply(o) \/ ImportFails(o)
  \/ ApplyEnds
  \/ ImportValidate
  \/ \E e \in Entities, content \in Contents :
       CreateEntity(e, content) \/ UpdateEntity(e, content)

Spec == Init /\ [][Next]_vars

-----------------------------------------------------------------------------
(* Properties.                                                             *)

Resolutions == UNION {[es -> Sides] : es \in SUBSET Entities}
Answers ==
  UNION {[at : {"answered"}, file : {b}, diffs : [DOMAIN b.entities -> DiffTypes],
          changed : SUBSET Entities] : b \in Bundles}
Order ==
  [at : {"sent"}, file : Bundles,
   resolutions : Resolutions, announced : SUBSET Entities, decided : SUBSET Entities,
   overtaken : SUBSET Entities]

(* The types of all variables; a decision is one of the resolutions. *)
TypeOK ==
  /\ store \in [Entities -> Contents \cup {None}]
  /\ selected \in Bundles \cup {None}
  /\ diffs = None \/ \E b \in Bundles : diffs \in [DOMAIN b.entities -> DiffTypes]
  /\ resolutions \in Resolutions
  /\ panel \in Entities \cup {None}
  /\ validation \in {Idle} \cup [at : {"sent"}, file : Bundles] \cup Answers
  /\ applying \in Orders \cup {None}
  /\ order \in [Orders -> {Idle} \cup Order]
  /\ decided \subseteq DOMAIN resolutions
  /\ overtaken \subseteq Entities

\* The steps that end request o, on the server or before.
Ended(o) == order[o].at = "sent" /\ order'[o].at # "sent"

(* An import overwrites an entity that says something else only if the person has
   resolved the conflict under the preview they applied, or the entity has changed since
   that preview, or the preview is of another file because its answer was late
   (ImportExport.tsx): also when it fails half-way, or is executed after the page has
   given it up. *)
OverwritesAreDecided ==
  [][\A o \in Orders : Ended(o) => \A e \in Entities :
       store[e] # None /\ store'[e] # store[e] =>
         e \in order[o].decided \cup order[o].overtaken]_vars

(* An import that succeeds changes what its preview announced and nothing else, one
   that fails part of it, but for entities that changed since the preview was computed
   and for a late preview (import_.py: diff_preview and apply_bundle). *)
AppliedAsAnnounced ==
  [][\A o \in Orders : Ended(o) => \A e \in Entities \ order[o].overtaken :
       /\ store'[e] # store[e] => e \in order[o].announced
       /\ e \in order[o].announced /\ ImportApply(o) => store'[e] # store[e]]_vars
=============================================================================
