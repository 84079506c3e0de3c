--------------------- MODULE BundlesAndDocumentsProofs ---------------------
(***************************************************************************)
(* What an import may overwrite (BundleImport), for any entities, contents *)
(* and files. The argument follows a comparison from the handler that      *)
(* computes it to the page and into the request of `apply': it fits the    *)
(* file and the store, except at the entities recorded as changed since    *)
(* (ValidationInv, PageInv), and a request announces exactly what the      *)
(* handler will change (OrderInv).                                         *)
(*                                                                         *)
(* What an editor reads and overwrites (EntityEditing), for any entities,  *)
(* fields and contents: whatever holds a body - the cache, an answer under *)
(* way, the draft, a save - holds that of the store, but for the fields    *)
(* that were changed since the revision it was made from (AsOf), and no    *)
(* answer under way is older than what was acknowledged (AckedRight).      *)
(*                                                                         *)
(* What the index holds (KnowledgeIndex), for any corpus, chunk length and *)
(* overlap: the text at hand is the store's unless another event follows   *)
(* (TextRight), a revision names one document (RevisionsTell), and the     *)
(* parts of a section leave no character out (PartsCover).                 *)
(***************************************************************************)
EXTENDS BundleImport, KnowledgeIndex, SequenceTheorems, NaturalsInduction, WellFoundedInduction,
        TLAPS

(* A comparison is that of the file with the store, but for some entities. *)
Fits(bundle, comparison, changed) ==
  \A e \in Entities \ changed :
    /\ e \in DOMAIN comparison <=> e \in DOMAIN bundle.entities
    /\ e \in DOMAIN comparison => comparison[e] = DiffType(bundle, e)

ValidationInv ==
  validation.at = "answered" => Fits(validation.file, validation.diffs, validation.changed)

(* Under a preview, what is resolved has been decided, and only a conflict can stay
   as it exists. *)
PageInv ==
  diffs # None =>
    /\ Fits(selected, diffs, overtaken)
    /\ decided = DOMAIN resolutions
    /\ \A e \in DOMAIN resolutions : resolutions[e] = "existing" => e \in Conflicts

(* An import with these resolutions changes e. *)
WillChange(bundle, chosen, e) ==
  e \in Accepted(bundle, chosen) /\ bundle.entities[e] # store[e]

(* A request announces what it changes, and asks for no overwriting but a decided one. *)
Announces(request) ==
  \A e \in Entities \ request.overtaken :
    /\ WillChange(request.file, request.resolutions, e) <=> e \in request.announced
    /\ WillChange(request.file, request.resolutions, e) /\ store[e] # None =>
         e \in request.decided

OrderInv == \A o \in Orders : order[o].at = "sent" => Announces(order[o])

IInv == TypeOK /\ ValidationInv /\ PageInv /\ OrderInv

-----------------------------------------------------------------------------
(* Types.                                                                  *)

LEMMA ValidationTypes ==
  ASSUME TypeOK
  PROVE  /\ validation # Idle => validation.file \in Bundles
         /\ validation.at = "answered" =>
              /\ validation \in Answers
              /\ validation.changed \subseteq Entities
              /\ validation.diffs \in [DOMAIN validation.file.entities -> DiffTypes]
  BY DEF TypeOK, Answers, Idle

LEMMA DecideTypes ==
  ASSUME TypeOK, NEW e \in Entities, NEW choice \in Sides, Decide(e, choice)
  PROVE  resolutions' \in Resolutions /\ decided' \subseteq DOMAIN resolutions'
<1>1. DOMAIN resolutions \subseteq Entities /\ \A x \in DOMAIN resolutions : resolutions[x] \in Sides
  BY DEF TypeOK, Resolutions
<1>2. resolutions' \in [DOMAIN resolutions \cup {e} -> Sides]
  BY <1>1 DEF Decide
<1>3. DOMAIN resolutions' = DOMAIN resolutions \cup {e}
  BY DEF Decide
<1> QED
  BY <1>1, <1>2, <1>3 DEF Decide, Resolutions, TypeOK

LEMMA OvertakeTypes ==
  ASSUME TypeOK, NEW changed \in SUBSET Entities, Overtake(changed)
  PROVE  /\ overtaken' \subseteq Entities
         /\ validation' \in {Idle} \cup [at : {"sent"}, file : Bundles] \cup Answers
<1>1. CASE validation.at = "answered"
  <2>1. PICK b \in Bundles :
          validation \in [at : {"answered"}, file : {b}, diffs : [DOMAIN b.entities -> DiffTypes],
                          changed : SUBSET Entities]
    BY <1>1, ValidationTypes DEF Answers
  <2>2. validation' \in [at : {"answered"}, file : {b}, diffs : [DOMAIN b.entities -> DiffTypes],
                         changed : SUBSET Entities]
    BY <1>1, <2>1 DEF Overtake
  <2> QED
    BY <2>2 DEF Answers, Overtake, TypeOK
<1>2. CASE validation.at # "answered"
  BY <1>2 DEF Overtake, TypeOK
<1> QED
  BY <1>1, <1>2

LEMMA OvertakenOrders ==
  ASSUME TypeOK, NEW changed \in SUBSET Entities
  PROVE  OvertakeOrders(changed) \in [Orders -> {Idle} \cup Order]
<1> SUFFICES ASSUME NEW o \in Orders, order[o].at = "sent"
             PROVE  [order[o] EXCEPT !.overtaken = @ \cup changed] \in Order
  BY DEF OvertakeOrders, TypeOK
<1> QED
  BY DEF TypeOK, Order, Idle

LEMMA InitTypeOK == Init => TypeOK
<1> SUFFICES ASSUME Init PROVE TypeOK
  OBVIOUS
<1>1. resolutions = [e \in {} |-> None] /\ resolutions \in [{} -> Sides]
  BY DEF Init
<1>2. resolutions \in Resolutions
  BY <1>1 DEF Resolutions
<1> QED
  BY <1>2 DEF Init, TypeOK

LEMMA NextTypeOK == TypeOK /\ [Next]_vars => TypeOK'
<1> SUFFICES ASSUME TypeOK, [Next]_vars PROVE TypeOK'
  OBVIOUS
<1>1. CASE \E f \in Bundles \cup {None} : ChooseFile(f)
  BY <1>1 DEF ChooseFile, TypeOK, application
<1>2. CASE Preview
  BY <1>2 DEF Preview, TypeOK, tab, application
<1>3. CASE ShowDiffs
  <2>1. /\ validation.file \in Bundles
        /\ diffs' \in [DOMAIN validation.file.entities -> DiffTypes]
        /\ validation.changed \subseteq Entities
    BY <1>3, ValidationTypes DEF ShowDiffs, Idle
  <2>2. \E b \in Bundles : diffs' \in [DOMAIN b.entities -> DiffTypes]
    BY <2>1
  <2>3. resolutions' \in Resolutions
    <3> resolutions' \in [{} -> Sides]
      BY <1>3 DEF ShowDiffs
    <3> QED
      BY DEF Resolutions
  <2>4. overtaken' \subseteq Entities /\ decided' \subseteq DOMAIN resolutions'
    BY <1>3, <2>1 DEF ShowDiffs
  <2> QED
    BY <1>3, <2>2, <2>3, <2>4 DEF ShowDiffs, TypeOK, application
<1>4. CASE ValidationFails
  BY <1>4 DEF ValidationFails, TypeOK, tab, application
<1>5. CASE \E e \in Entities, choice \in Sides : Resolve(e, choice)
  <2>1. resolutions' \in Resolutions /\ decided' \subseteq DOMAIN resolutions'
    BY <1>5, DecideTypes DEF Resolve
  <2> QED
    BY <1>5, <2>1 DEF Resolve, TypeOK, application
<1>6. CASE \E e \in Entities : OpenPanel(e)
  BY <1>6 DEF OpenPanel, TypeOK, application
<1>7. CASE ConfirmPanel
  <2>1. panel \in Entities
    BY <1>7 DEF ConfirmPanel, TypeOK
  <2>2. resolutions' \in Resolutions /\ decided' \subseteq DOMAIN resolutions'
    BY <1>7, <2>1, DecideTypes DEF ConfirmPanel, Sides
  <2> QED
    BY <1>7, <2>2 DEF ConfirmPanel, TypeOK, application
<1>8. ASSUME NEW o \in Orders, Apply(o) PROVE TypeOK'
  <2>1. Announced \subseteq Entities
    BY <1>8, BundlesAssumption DEF Apply, CanApply, Announced, TypeOK
  <2>2. selected \in Bundles /\ decided \subseteq Entities /\ resolutions \in Resolutions
    BY <1>8 DEF Apply, TypeOK, Resolutions
  <2>3. order' \in [Orders -> {Idle} \cup Order]
    BY <1>8, <2>1, <2>2 DEF Apply, TypeOK, Order
  <2> QED
    BY <1>8, <2>3 DEF Apply, TypeOK, tab
<1>9. CASE ApplyEnds
  BY <1>9 DEF ApplyEnds, TypeOK, tab
<1>14. ASSUME NEW o \in Orders, ApplyLost(o) PROVE TypeOK'
  BY <1>14 DEF ApplyLost, TypeOK, tab
<1>10. CASE ImportValidate
  <2>1. validation.file \in Bundles
    BY <1>10, ValidationTypes DEF ImportValidate, Idle
  <2>2. DiffPreview(validation.file) \in [DOMAIN validation.file.entities -> DiffTypes]
    BY DEF DiffPreview, DiffType, DiffTypes
  <2>3. validation' \in Answers
    BY <1>10, <2>1, <2>2 DEF ImportValidate, Answers
  <2> QED
    BY <1>10, <2>3 DEF ImportValidate, TypeOK, tab, application
<1>11. ASSUME NEW o \in Orders, ImportApply(o) \/ ImportFails(o) PROVE TypeOK'
  <2>1. PICK written : /\ Leave(o, Updated(order[o].file, written))
                      /\ written \subseteq DOMAIN order[o].file.entities
    BY <1>11 DEF ImportApply, ImportFails, Accepted
  <2>2. order[o].file \in Bundles
    BY <1>11 DEF ImportApply, ImportFails, TypeOK, Order, Idle
  <2>3. Updated(order[o].file, written) \in [Entities -> Contents \cup {None}]
    BY <2>1, <2>2, BundlesAssumption DEF Updated, TypeOK
  <2> DEFINE updated == Updated(order[o].file, written)
             changed == {e \in Entities : updated[e] # store[e]}
  <2>4. /\ store' = updated /\ Overtake(changed)
        /\ order' = [OvertakeOrders(changed) EXCEPT ![o] = Idle]
    BY <2>1 DEF Leave
  <2>5. changed \in SUBSET Entities
    OBVIOUS
  <2> HIDE DEF updated, changed
  <2>6. /\ overtaken' \subseteq Entities
        /\ validation' \in {Idle} \cup [at : {"sent"}, file : Bundles] \cup Answers
    BY <2>4, <2>5, OvertakeTypes
  <2>7. order' \in [Orders -> {Idle} \cup Order]
    BY <2>4, <2>5, OvertakenOrders
  <2> QED
    BY <1>11, <2>3, <2>4, <2>6, <2>7 DEF ImportApply, ImportFails, TypeOK, updated
<1>12. ASSUME NEW e \in Entities, NEW content \in Contents, Save(e, content)
       PROVE  TypeOK'
  <2>1. /\ overtaken' \subseteq Entities
        /\ validation' \in {Idle} \cup [at : {"sent"}, file : Bundles] \cup Answers
    BY <1>12, OvertakeTypes DEF Save
  <2>2. order' \in [Orders -> {Idle} \cup Order]
    BY <1>12, OvertakenOrders DEF Save
  <2> QED
    BY <1>12, <2>1, <2>2 DEF Save, TypeOK
<1>13. CASE UNCHANGED vars
  BY <1>13 DEF vars, TypeOK
<1> QED
  BY <1>1, <1>2, <1>3, <1>4, <1>5, <1>6, <1>7, <1>8, <1>9, <1>10, <1>11, <1>12, <1>13,
     <1>14 DEF Next, CreateEntity, UpdateEntity

(* The types of the page, its requests and the store (ImportExport.tsx). *)
THEOREM TypeCorrect == Spec => []TypeOK
  BY InitTypeOK, NextTypeOK, PTL DEF Spec

-----------------------------------------------------------------------------
(* The comparison on its way, and on the page.                             *)

(* Whatever changes in the store is recorded as changed: comparisons still fit. *)
LEMMA OvertakenFits ==
  ASSUME TypeOK, ValidationInv, PageInv, NEW changed \in SUBSET Entities, Overtake(changed),
         \A e \in Entities \ changed : store'[e] = store[e],
         UNCHANGED <<selected, diffs, resolutions, decided>>
  PROVE  ValidationInv' /\ PageInv'
<1>1. ASSUME NEW bundle, NEW comparison, NEW earlier, Fits(bundle, comparison, earlier)
      PROVE  Fits(bundle, comparison, earlier \cup changed)'
  <2> SUFFICES ASSUME NEW e \in Entities \ (earlier \cup changed)
               PROVE  /\ e \in DOMAIN comparison <=> e \in DOMAIN bundle.entities
                      /\ e \in DOMAIN comparison => comparison[e] = DiffType(bundle, e)'
    BY DEF Fits
  <2>1. DiffType(bundle, e)' = DiffType(bundle, e)
    BY DEF DiffType
  <2> QED
    BY <1>1, <2>1 DEF Fits
<1>2. ValidationInv'
  <2> SUFFICES ASSUME validation'.at = "answered"
               PROVE  Fits(validation.file, validation.diffs, validation.changed)'
    BY DEF ValidationInv
  <2>1. validation.at = "answered"
    BY ValidationTypes DEF Overtake
  <2>2. /\ validation'.file = validation.file
        /\ validation'.diffs = validation.diffs
        /\ validation'.changed = validation.changed \cup changed
    BY <2>1, ValidationTypes DEF Overtake, Answers
  <2> QED
    BY <1>1, <2>1, <2>2 DEF ValidationInv
<1>3. PageInv'
  <2> SUFFICES ASSUME diffs # None
               PROVE  Fits(selected, diffs, overtaken)'
    BY DEF PageInv, Conflicts
  <2>1. overtaken' = overtaken \cup changed
    BY DEF Overtake
  <2> QED
    BY <1>1, <2>1 DEF PageInv
<1> QED
  BY <1>2, <1>3

LEMMA DecideKeepsPage ==
  ASSUME PageInv, NEW e \in Entities, NEW choice \in Sides, Decide(e, choice),
         choice = "existing" => e \in Conflicts,
         UNCHANGED <<store, selected, diffs, overtaken>>
  PROVE  PageInv'
<1> SUFFICES ASSUME diffs # None PROVE PageInv'
  BY DEF PageInv
<1>1. Fits(selected, diffs, overtaken)'
  BY DEF PageInv, Fits, DiffType
<1>2. decided' = DOMAIN resolutions'
  BY DEF PageInv, Decide
<1>3. \A x \in DOMAIN resolutions' : resolutions'[x] = "existing" => x \in Conflicts'
  BY DEF PageInv, Decide, Conflicts
<1> QED
  BY <1>1, <1>2, <1>3 DEF PageInv

LEMMA SaveChanges ==
  ASSUME TypeOK, NEW e \in Entities, NEW content \in Contents, Save(e, content)
  PROVE  \A x \in Entities \ {e} : store'[x] = store[x]
  BY DEF Save, TypeOK

LEMMA ApplyChanges ==
  ASSUME TypeOK, NEW o \in Orders, ImportApply(o) \/ ImportFails(o)
  PROVE  \E changed \in SUBSET Entities :
           /\ Overtake(changed)
           /\ order' = [OvertakeOrders(changed) EXCEPT ![o] = Idle]
           /\ \A e \in Entities \ changed : store'[e] = store[e]
<1>1. PICK written : Leave(o, Updated(order[o].file, written))
  BY DEF ImportApply, ImportFails
<1> DEFINE updated == Updated(order[o].file, written)
           changed == {e \in Entities : updated[e] # store[e]}
<1>2. store' = updated /\ Overtake(changed) /\ order' = [OvertakeOrders(changed) EXCEPT ![o] = Idle]
  BY <1>1 DEF Leave
<1>3. \A e \in Entities \ changed : store'[e] = store[e]
  BY <1>2
<1>4. changed \in SUBSET Entities
  OBVIOUS
<1> HIDE DEF changed
<1> QED
  BY <1>2, <1>3, <1>4

LEMMA NextPage ==
  TypeOK /\ ValidationInv /\ PageInv /\ [Next]_vars => ValidationInv' /\ PageInv'
<1> SUFFICES ASSUME TypeOK, ValidationInv, PageInv, [Next]_vars
             PROVE  ValidationInv' /\ PageInv'
  OBVIOUS
<1>1. CASE \E f \in Bundles \cup {None} : ChooseFile(f)
  BY <1>1 DEF ChooseFile, ValidationInv, PageInv, Fits, DiffType
<1>2. CASE Preview
  BY <1>2 DEF Preview, tab, ValidationInv, PageInv, Fits, DiffType, Conflicts
<1>3. CASE ShowDiffs
  <2>1. ValidationInv'
    BY <1>3 DEF ShowDiffs, ValidationInv, Idle
  <2>2. Fits(selected, diffs, overtaken)'
    <3>1. CASE validation.file = selected
      <4>1. Fits(selected, diffs', overtaken')
        BY <1>3, <3>1 DEF ShowDiffs, ValidationInv
      <4> QED
        BY <1>3, <4>1 DEF ShowDiffs, Fits, DiffType
    <3>2. CASE validation.file # selected
      BY <1>3, <3>2 DEF ShowDiffs, Fits
    <3> QED
      BY <3>1, <3>2
  <2>3. DOMAIN resolutions' = {} /\ decided' = {}
    BY <1>3 DEF ShowDiffs
  <2> QED
    BY <2>1, <2>2, <2>3 DEF PageInv
<1>4. CASE ValidationFails
  BY <1>4 DEF ValidationFails, Idle, tab, ValidationInv, PageInv, Fits, DiffType, Conflicts
<1>5. CASE \E e \in Entities, choice \in Sides : Resolve(e, choice)
  <2>1. PageInv'
    BY <1>5, DecideKeepsPage DEF Resolve
  <2> QED
    BY <1>5, <2>1 DEF Resolve, ValidationInv, Fits, DiffType
<1>6. CASE \E e \in Entities : OpenPanel(e)
  BY <1>6 DEF OpenPanel, ValidationInv, PageInv, Fits, DiffType, Conflicts
<1>7. CASE ConfirmPanel
  <2>1. panel \in Entities /\ "incoming" \in Sides
    BY <1>7 DEF ConfirmPanel, TypeOK, Sides
  <2>2. PageInv'
    BY <1>7, <2>1, DecideKeepsPage DEF ConfirmPanel
  <2> QED
    BY <1>7, <2>2 DEF ConfirmPanel, ValidationInv, Fits, DiffType
<1>8. CASE ApplyEnds \/ \E o \in Orders : Apply(o) \/ ApplyLost(o)
  BY <1>8 DEF Apply, ApplyEnds, ApplyLost, tab, ValidationInv, PageInv, Fits, DiffType, Conflicts
<1>9. CASE ImportValidate
  <2>1. /\ validation'.file = validation.file /\ validation'.changed = {}
        /\ validation'.diffs = DiffPreview(validation.file)
    BY <1>9 DEF ImportValidate
  <2>2. Fits(validation.file, DiffPreview(validation.file), {})
    BY DEF Fits, DiffPreview
  <2>3. ValidationInv'
    BY <1>9, <2>1, <2>2 DEF ImportValidate, ValidationInv, Fits, DiffType
  <2> QED
    BY <1>9, <2>3 DEF ImportValidate, tab, PageInv, Fits, DiffType, Conflicts
<1>10. ASSUME NEW o \in Orders, ImportApply(o) \/ ImportFails(o)
       PROVE  ValidationInv' /\ PageInv'
  <2>1. UNCHANGED <<selected, diffs, resolutions, decided>>
    BY <1>10 DEF ImportApply, ImportFails
  <2> QED
    BY <1>10, <2>1, ApplyChanges, OvertakenFits
<1>11. ASSUME NEW e \in Entities, NEW content \in Contents, Save(e, content)
       PROVE  ValidationInv' /\ PageInv'
  BY <1>11, SaveChanges, OvertakenFits DEF Save
<1>12. CASE UNCHANGED vars
  BY <1>12 DEF vars, ValidationInv, PageInv, Fits, DiffType, Conflicts
<1> QED
  BY <1>1, <1>2, <1>3, <1>4, <1>5, <1>6, <1>7, <1>8, <1>9, <1>10, <1>11, <1>12
  DEF Next, CreateEntity, UpdateEntity

-----------------------------------------------------------------------------
(* The request of `apply'.                                                 *)

(* What changes in the store is recorded as changed for the requests on their way. *)
LEMMA OrderKeeps ==
  ASSUME TypeOK, OrderInv, NEW o \in Orders, order[o].at = "sent",
         NEW changed \in SUBSET Entities, order'[o] = OvertakeOrders(changed)[o],
         \A e \in Entities \ changed : store'[e] = store[e]
  PROVE  Announces(order[o])'
<1>1. /\ order'[o].file = order[o].file
      /\ order'[o].resolutions = order[o].resolutions
      /\ order'[o].announced = order[o].announced
      /\ order'[o].decided = order[o].decided
      /\ order'[o].overtaken = order[o].overtaken \cup changed
  BY DEF OvertakeOrders, TypeOK, Order, Idle
<1> QED
  BY <1>1 DEF OrderInv, Announces, WillChange, Accepted

LEMMA NextOrder == TypeOK /\ PageInv /\ OrderInv /\ [Next]_vars => OrderInv'
<1> SUFFICES ASSUME TypeOK, PageInv, OrderInv, [Next]_vars PROVE OrderInv'
  OBVIOUS
<1>1. ASSUME NEW o \in Orders, Apply(o) PROVE OrderInv'
  <2>0. /\ order'[o].file = selected /\ order'[o].resolutions = resolutions
        /\ order'[o].announced = Announced /\ order'[o].decided = decided
        /\ order'[o].overtaken = overtaken /\ store' = store
        /\ \A x \in Orders \ {o} : order'[x] = order[x]
    BY <1>1 DEF Apply, TypeOK
  <2>8. \A x \in Orders \ {o} : order'[x].at = "sent" => Announces(order[x])'
    BY <2>0 DEF OrderInv, Announces, WillChange, Accepted
  <2> SUFFICES ASSUME NEW e \in Entities \ overtaken
               PROVE  /\ WillChange(selected, resolutions, e) <=> e \in Announced
                      /\ WillChange(selected, resolutions, e) /\ store[e] # None => e \in decided
    BY <2>0, <2>8 DEF OrderInv, Announces, WillChange, Accepted
  <2>1. /\ e \in DOMAIN diffs <=> e \in DOMAIN selected.entities
        /\ e \in DOMAIN diffs => diffs[e] = DiffType(selected, e)
    BY <1>1 DEF Apply, CanApply, PageInv, Fits
  <2>2. /\ decided = DOMAIN resolutions
        /\ \A x \in DOMAIN resolutions :
             /\ resolutions[x] \in Sides
             /\ resolutions[x] = "existing" => x \in Conflicts
    BY <1>1 DEF Apply, CanApply, PageInv, TypeOK, Resolutions
  <2>3. e \in DOMAIN diffs /\ diffs[e] = "conflict" <=> e \in Conflicts
    BY <1>1 DEF Apply, CanApply, Conflicts
  <2>4. Conflicts \subseteq DOMAIN resolutions
    BY <1>1 DEF Apply, CanApply
  <2>5. CASE e \notin DOMAIN diffs
    BY <2>1, <2>5 DEF WillChange, Accepted, Announced
  <2>6. CASE e \in DOMAIN diffs
    <3>1. selected.entities[e] # None
      BY <1>1, <2>1, <2>6, BundlesAssumption, NoneAssumption DEF Apply, TypeOK
    <3>2. CASE diffs[e] = "new"
      <4>1. store[e] = None /\ e \notin Conflicts
        BY <2>1, <2>3, <2>6, <3>2 DEF DiffType
      <4> QED
        BY <2>1, <2>2, <2>6, <3>1, <3>2, <4>1 DEF WillChange, Accepted, Announced
    <3>3. CASE diffs[e] = "identical"
      <4>1. store[e] = selected.entities[e] /\ e \notin Conflicts
        BY <2>1, <2>3, <2>6, <3>3 DEF DiffType
      <4> QED
        BY <3>3, <4>1 DEF WillChange, Announced
    <3>4. CASE diffs[e] = "conflict"
      <4>1. store[e] # selected.entities[e] /\ e \in Conflicts
        BY <2>1, <2>3, <2>6, <3>4 DEF DiffType
      <4>2. e \in DOMAIN resolutions /\ resolutions[e] \in {"incoming", "existing"}
        BY <2>2, <2>4, <4>1 DEF Sides
      <4> QED
        BY <2>1, <2>2, <2>6, <3>4, <4>1, <4>2 DEF WillChange, Accepted, Announced
    <3> QED
      BY <2>1, <2>6, <3>2, <3>3, <3>4 DEF DiffType
  <2> QED
    BY <2>5, <2>6
<1>2. ASSUME NEW o \in Orders, ImportApply(o) \/ ImportFails(o) PROVE OrderInv'
  <2>1. PICK changed \in SUBSET Entities :
          /\ order' = [OvertakeOrders(changed) EXCEPT ![o] = Idle]
          /\ \A e \in Entities \ changed : store'[e] = store[e]
    BY <1>2, ApplyChanges
  <2>2. \A x \in Orders : order'[x] = IF x = o THEN Idle ELSE OvertakeOrders(changed)[x]
    BY <2>1 DEF OvertakeOrders
  <2>3. ASSUME NEW x \in Orders, order'[x].at = "sent" PROVE order[x].at = "sent" /\ x # o
    <3>1. x # o
      BY <2>2, <2>3 DEF Idle
    <3>2. CASE order[x].at # "sent"
      BY <2>2, <2>3, <3>1, <3>2 DEF OvertakeOrders
    <3> QED
      BY <3>1, <3>2
  <2> QED
    BY <2>1, <2>2, <2>3, OrderKeeps DEF OrderInv
<1>3. ASSUME NEW e \in Entities, NEW content \in Contents, Save(e, content)
      PROVE  OrderInv'
  <2>1. \A x \in Entities \ {e} : store'[x] = store[x]
    BY <1>3, SaveChanges
  <2>2. \A x \in Orders : order'[x] = OvertakeOrders({e})[x]
    BY <1>3 DEF Save
  <2>3. \A x \in Orders : order'[x].at = "sent" => order[x].at = "sent"
    BY <2>2 DEF OvertakeOrders
  <2> QED
    BY <2>1, <2>2, <2>3, OrderKeeps DEF OrderInv
<1>5. ASSUME NEW o \in Orders, ApplyLost(o) PROVE OrderInv'
  BY <1>5 DEF ApplyLost, Idle, TypeOK, OrderInv, Announces, WillChange, Accepted
<1>4. CASE \/ \E f \in Bundles \cup {None} : ChooseFile(f)
           \/ Preview \/ ShowDiffs \/ ValidationFails \/ ImportValidate
           \/ \E e \in Entities, choice \in Sides : Resolve(e, choice)
           \/ \E e \in Entities : OpenPanel(e)
           \/ ConfirmPanel \/ ApplyEnds \/ UNCHANGED vars
  <2> UNCHANGED <<order, store>>
    BY <1>4 DEF ChooseFile, Preview, ShowDiffs, ValidationFails, ImportValidate, Resolve,
                OpenPanel, ConfirmPanel, ApplyEnds, application, vars
  <2> QED
    BY DEF OrderInv, Announces, WillChange, Accepted
<1> QED
  BY <1>1, <1>2, <1>3, <1>4, <1>5 DEF Next, CreateEntity, UpdateEntity

LEMMA Inductive == Spec => []IInv
<1>1. Init => IInv
  BY InitTypeOK DEF Init, IInv, Idle, ValidationInv, PageInv, OrderInv
<1>2. IInv /\ [Next]_vars => IInv'
  BY NextTypeOK, NextPage, NextOrder DEF IInv
<1> QED
  BY <1>1, <1>2, PTL DEF Spec

-----------------------------------------------------------------------------
(* The step that ends a request.                                           *)

LEMMA EndedChanges ==
  ASSUME TypeOK, [Next]_vars, NEW o \in Orders, Ended(o), NEW e \in Entities
  PROVE  /\ store'[e] # store[e] => WillChange(order[o].file, order[o].resolutions, e)
         /\ ImportApply(o) =>
              (WillChange(order[o].file, order[o].resolutions, e) => store'[e] # store[e])
<1>1. ASSUME NEW x \in Orders, x # o, ImportApply(x) \/ ImportFails(x) \/ ApplyLost(x) \/ Apply(x)
      PROVE  FALSE
  <2>1. order[o].at = "sent" /\ order'[o].at # "sent"
    BY DEF Ended
  <2>2. CASE ApplyLost(x) \/ Apply(x)
    BY <1>1, <2>1, <2>2 DEF ApplyLost, Apply, TypeOK
  <2>3. CASE ImportApply(x) \/ ImportFails(x)
    <3>1. PICK changed : order' = [OvertakeOrders(changed) EXCEPT ![x] = Idle]
      BY <2>3 DEF ImportApply, ImportFails, Leave
    <3>2. order'[o] = [order[o] EXCEPT !.overtaken = @ \cup changed]
      BY <1>1, <2>1, <3>1 DEF OvertakeOrders
    <3> QED
      BY <2>1, <3>2 DEF TypeOK, Order, Idle
  <2> QED
    BY <1>1, <2>2, <2>3
<1>2. ASSUME NEW x \in Entities, NEW content \in Contents, Save(x, content)
      PROVE  FALSE
  <2>1. order'[o] = [order[o] EXCEPT !.overtaken = @ \cup {x}]
    BY <1>2 DEF Ended, Save, OvertakeOrders
  <2> QED
    BY <2>1 DEF Ended, TypeOK, Order, Idle
<1>3. ~ UNCHANGED order
  BY DEF Ended
<1>4. ImportApply(o) \/ ImportFails(o) \/ ApplyLost(o) \/ Apply(o)
  BY <1>1, <1>2, <1>3
  DEF Next, vars, ChooseFile, Preview, application, ShowDiffs, ValidationFails, Resolve, OpenPanel,
      ConfirmPanel, ImportValidate, CreateEntity, UpdateEntity, ApplyEnds
<1>5. CASE ApplyLost(o) \/ Apply(o)
  BY <1>5 DEF ApplyLost, Apply, Ended, ImportApply, Leave, Updated, WillChange, Valid
<1>6. CASE ImportApply(o)
  BY <1>6 DEF ImportApply, Leave, Updated, WillChange
<1>7. CASE ImportFails(o) /\ ~ ImportApply(o)
  BY <1>7 DEF ImportFails, Leave, Updated, WillChange
<1> QED
  BY <1>4, <1>5, <1>6, <1>7

(* Whatever the files and whoever else writes: an import overwrites an entity only if
   the conflict was resolved under the preview that was applied, or the entity changed
   since, or the preview was late (ImportExport.tsx); one that fails half-way or is
   executed for nobody likewise. *)
THEOREM OverwrittenIsDecided == Spec => OverwritesAreDecided
<1>1. IInv /\ [Next]_vars =>
        [\A o \in Orders : Ended(o) => \A e \in Entities :
           store[e] # None /\ store'[e] # store[e] =>
             e \in order[o].decided \cup order[o].overtaken]_vars
  BY EndedChanges DEF IInv, OrderInv, Announces, Ended
<1> QED
  BY <1>1, Inductive, PTL DEF Spec, OverwritesAreDecided

(* ... and changes what its preview announced and nothing else, but for what changed
   since (import_.py: diff_preview and apply_bundle), or part of it when it fails. *)
THEOREM ChangedIsAnnounced == Spec => AppliedAsAnnounced
<1>1. IInv /\ [Next]_vars =>
        [\A o \in Orders : Ended(o) => \A e \in Entities \ order[o].overtaken :
           /\ store'[e] # store[e] => e \in order[o].announced
           /\ e \in order[o].announced /\ ImportApply(o) => store'[e] # store[e]]_vars
  BY EndedChanges DEF IInv, OrderInv, Announces, Ended
<1> QED
  BY <1>1, Inductive, PTL DEF Spec, AppliedAsAnnounced

-----------------------------------------------------------------------------
(* EntityEditing: types.                                                   *)

Draft == [body : Body, mode : {"form", "yaml"}, parseError : BOOLEAN,
          text : {"draft", "bad", "null"}, origin : Ids, seed : Nat, touched : SUBSET Fields]
SaveRequest == [at : {"sent", "ok", "failed"}, id : Ids, body : Body, rev : Nat, visit : Nat,
                key : Ids, origin : Ids, seed : Nat, touched : SUBSET Fields]

ServerT ==
  /\ stored \in [Ids -> Body] /\ rev \in [Ids -> Nat \ {0}]
  /\ fieldRev \in [Ids -> [Fields -> Nat \ {0}]]
  /\ \A e \in Ids : \A f \in Fields : fieldRev[e][f] =< rev[e]
QueueT == events \in Seq(Ids) /\ silent \subseteq Ids
PageT == page \in [at : {"viewer", "editor", "other"}, id : Ids, visit : Nat] /\ broken \subseteq Ids
CacheT ==
  /\ cache \in [Ids -> Copy]
  /\ fetch \in [Ids -> [at : {"idle", "asked", "answered"}, copy : Copy]]
EditorT == editor \in Draft
PutsT == puts \subseteq SaveRequest
AckedT == acked \in [Ids -> Nat]

EditT == ServerT /\ QueueT /\ PageT /\ CacheT /\ EditorT /\ PutsT /\ AckedT

LEMMA StartTypes ==
  /\ AnyId \in Ids /\ Blank \in Body /\ NoCopy \in Copy /\ NoDraft \in Draft
  /\ NoFetch \in [at : {"idle", "asked", "answered"}, copy : Copy]
  /\ Asked \in [at : {"idle", "asked", "answered"}, copy : Copy]
<1>1. AnyId \in Ids
  BY IdsAssumption DEF AnyId
<1>2. Blank \in Body
  BY DEF Blank, Body, Values
<1>3. NoCopy \in Copy
  BY <1>2 DEF NoCopy, Copy
<1>4. NoDraft \in Draft
  BY <1>1, <1>2 DEF NoDraft, Draft
<1> QED BY <1>1, <1>2, <1>3, <1>4 DEF NoFetch, Asked

LEMMA InitEditT == EditingInit => EditT
<1> SUFFICES ASSUME EditingInit PROVE EditT
  OBVIOUS
<1>1. ServerT
  BY DEF EditingInit, ServerT, Body, Values
<1>2. QueueT
  BY DEF EditingInit, QueueT
<1>3. PageT /\ CacheT /\ EditorT /\ PutsT /\ AckedT
  BY StartTypes DEF EditingInit, PageT, CacheT, EditorT, PutsT, AckedT
<1> QED BY <1>1, <1>2, <1>3 DEF EditT

(* A commit: the copies that were right are right, the entity is what was written. *)
LEMMA CommitTypes ==
  ASSUME ServerT, NEW e \in Ids, NEW body \in Body, Commit(e, body)
  PROVE  /\ ServerT'
         /\ stored'[e] = body /\ rev'[e] = rev[e] + 1
<1> DEFINE changed == [f \in Fields |-> IF body[f] = stored[e][f] THEN fieldRev[e][f] ELSE rev[e] + 1]
<1>1. rev[e] \in Nat \ {0} /\ fieldRev[e] \in [Fields -> Nat \ {0}]
  BY DEF ServerT
<1>2. changed \in [Fields -> Nat \ {0}]
  BY <1>1
<1>3. \A f \in Fields : changed[f] =< rev[e] + 1
  BY <1>1 DEF ServerT
<1> HIDE DEF changed
<1>4. fieldRev' = [fieldRev EXCEPT ![e] = changed]
  BY DEF Commit, changed
<1>5. stored' = [stored EXCEPT ![e] = body] /\ rev' = [rev EXCEPT ![e] = rev[e] + 1]
  BY DEF Commit
<1>6. stored' \in [Ids -> Body] /\ rev' \in [Ids -> Nat \ {0}]
  BY <1>1, <1>5 DEF ServerT
<1>7. fieldRev' \in [Ids -> [Fields -> Nat \ {0}]]
  BY <1>2, <1>4 DEF ServerT
<1>8. ASSUME NEW x \in Ids, NEW f \in Fields PROVE fieldRev'[x][f] =< rev'[x]
  <2>1. CASE x = e
    BY <1>3, <1>4, <1>5, <2>1 DEF ServerT
  <2>2. CASE x # e
    BY <1>4, <1>5, <2>2 DEF ServerT
  <2> QED BY <2>1, <2>2
<1>9. stored'[e] = body /\ rev'[e] = rev[e] + 1
  BY <1>5 DEF ServerT
<1> QED BY <1>6, <1>7, <1>8, <1>9 DEF ServerT

LEMMA AnnounceTypes ==
  ASSUME QueueT, NEW e \in Ids, Announce(e) \/ Unannounced(e)
  PROVE  QueueT'
<1>1. Append(events, e) \in Seq(Ids)
  BY DEF QueueT
<1> QED BY <1>1 DEF QueueT, Announce, Unannounced

\* What a write to the server is.
LEMMA EditingWrites ==
  ASSUME EditT, EditingNext
  PROVE  \/ UNCHANGED server
         \/ \E e \in Ids, body \in Body : Commit(e, body) /\ (Announce(e) \/ Unannounced(e))
<1>1. ASSUME NEW e \in Ids, NEW f \in Fields, NEW v \in Values, OtherWrite(e, f, v)
      PROVE  \E body \in Body : Commit(e, body) /\ Announce(e)
  <2>1. stored[e] \in [Fields -> Values]
    BY DEF EditT, ServerT, Body
  <2>2. [stored[e] EXCEPT ![f] = v] \in [Fields -> Values]
    BY <2>1
  <2> QED BY <1>1, <2>2 DEF OtherWrite, Body
<1>2. ASSUME NEW p \in puts, PutServed(p) \/ PutFails(p)
      PROVE  \/ UNCHANGED server
             \/ \E e \in Ids, body \in Body : Commit(e, body) /\ (Announce(e) \/ Unannounced(e))
  <2>1. p.id \in Ids /\ p.body \in Body
    BY DEF EditT, PutsT, SaveRequest
  <2> QED BY <1>2, <2>1 DEF PutServed, PutFails
<1>3. ASSUME NEW p \in puts, SaveSucceeds(p) \/ SaveFailed(p) PROVE UNCHANGED server
  BY <1>3 DEF SaveSucceeds, SaveFailed
<1>4. ASSUME NEW e \in Ids, FetchServed(e) \/ FetchArrives(e) \/ FetchFails(e) \/ Jump(e)
      PROVE  UNCHANGED server
  BY <1>4 DEF FetchServed, FetchArrives, FetchFails, Jump
<1>5. ASSUME NEW at, NEW e \in Ids, Open(at, e) PROVE UNCHANGED server
  BY <1>5 DEF Open
<1>6. ASSUME NEW mode, SetMode(mode) PROVE UNCHANGED server
  BY <1>6 DEF SetMode
<1>7. ASSUME NEW f, NEW v, Type(f, v) PROVE UNCHANGED server
  BY <1>7 DEF Type
<1>8. ASSUME NEW text, TypeText(text) PROVE UNCHANGED server
  BY <1>8 DEF TypeText
<1>9. CASE SaveDraft
  BY <1>9 DEF SaveDraft
<1> QED
  BY <1>1, <1>2, <1>3, <1>4, <1>5, <1>6, <1>7, <1>8, <1>9 DEF EditingNext
-----------------------------------------------------------------------------
(* EntityEditing: a copy and what it may differ in.                        *)

\* A copy read at a revision has the fields that have not changed since, but for those touched.
AsOf(body, seed, touched, revision, changed, entity) ==
  /\ seed =< revision
  /\ \A f \in Fields \ touched : changed[f] =< seed => body[f] = entity[f]

Right(body, e, seed, touched) == AsOf(body, seed, touched, rev[e], fieldRev[e], stored[e])

CopiesRight ==
  \A e \in Ids :
    /\ Right(cache[e].body, e, cache[e].rev, {})
    /\ fetch[e].at = "answered" => Right(fetch[e].copy.body, e, fetch[e].copy.rev, {})
EditorRight == Right(editor.body, editor.origin, editor.seed, editor.touched)
PutsRight ==
  \A p \in puts :
    /\ p.at = "sent" => Right(p.body, p.origin, p.seed, p.touched)
    /\ p.at = "ok" => Right(p.body, p.id, p.rev, {})

\* A save that succeeded in view is in every answer that is on its way.
AckedRight ==
  \A e \in Ids :
    /\ acked[e] =< rev[e]
    /\ fetch[e].at = "answered" => acked[e] =< fetch[e].copy.rev

EditInv == EditT /\ CopiesRight /\ EditorRight /\ PutsRight /\ AckedRight /\ ReadYourWrites

LEMMA CommitKeeps ==
  ASSUME ServerT, NEW e \in Ids, NEW body \in Body, Commit(e, body), NEW x \in Ids,
         NEW b, NEW seed \in Nat, NEW touched,
         AsOf(b, seed, touched, rev[x], fieldRev[x], stored[x])
  PROVE  AsOf(b, seed, touched, rev'[x], fieldRev'[x], stored'[x])
<1>0. rev[e] \in Nat \ {0} /\ fieldRev[e] \in [Fields -> Nat \ {0}]
  BY DEF ServerT
<1>1. CASE x # e
  <2>1. rev'[x] = rev[x] /\ fieldRev'[x] = fieldRev[x] /\ stored'[x] = stored[x]
    BY <1>1 DEF ServerT, Commit
  <2> QED BY <2>1
<1>2. CASE x = e
  <2>1. rev'[e] = rev[e] + 1 /\ stored'[e] = body
    BY CommitTypes
  <2>2. fieldRev'[e] = [f \in Fields |-> IF body[f] = stored[e][f] THEN fieldRev[e][f] ELSE rev[e] + 1]
    BY DEF ServerT, Commit
  <2>3. seed =< rev[e] /\ \A f \in Fields \ touched : fieldRev[e][f] =< seed => b[f] = stored[e][f]
    BY <1>2 DEF AsOf
  <2>4. ASSUME NEW f \in Fields \ touched, fieldRev'[e][f] =< seed PROVE b[f] = body[f]
    <3>1. CASE body[f] = stored[e][f]
      BY <2>2, <2>3, <2>4, <3>1
    <3>2. CASE body[f] # stored[e][f]
      <4>1. rev[e] + 1 =< seed
        BY <2>2, <2>4, <3>2
      <4> QED BY <1>0, <2>3, <4>1
    <3> QED BY <3>1, <3>2
  <2>5. seed =< rev[e] + 1
    BY <1>0, <2>3
  <2> QED BY <1>2, <2>1, <2>4, <2>5 DEF AsOf
<1> QED BY <1>1, <1>2

\* What was right stays right.
Keeps ==
  \A x \in Ids : /\ rev[x] =< rev'[x]
                 /\ \A b, touched : \A seed \in Nat :
                      AsOf(b, seed, touched, rev[x], fieldRev[x], stored[x]) =>
                        AsOf(b, seed, touched, rev'[x], fieldRev'[x], stored'[x])

LEMMA ServerSteps ==
  ASSUME EditT, [DocumentsNext]_documentVars
  PROVE  ServerT' /\ QueueT' /\ Keeps
<1>1. ASSUME NEW e \in Ids, NEW body \in Body, Commit(e, body), Announce(e) \/ Unannounced(e)
      PROVE  ServerT' /\ QueueT' /\ Keeps
  <2>1. ServerT' /\ QueueT'
    BY <1>1, CommitTypes, AnnounceTypes DEF EditT
  <2>2. ASSUME NEW x \in Ids PROVE rev[x] =< rev'[x]
    BY <1>1, <2>2 DEF EditT, ServerT, Commit
  <2>3. ASSUME NEW x \in Ids, NEW b, NEW touched, NEW seed \in Nat,
               AsOf(b, seed, touched, rev[x], fieldRev[x], stored[x])
        PROVE  AsOf(b, seed, touched, rev'[x], fieldRev'[x], stored'[x])
    BY <1>1, <2>3, CommitKeeps DEF EditT
  <2> QED BY <2>1, <2>2, <2>3 DEF Keeps
<1>2. ASSUME UNCHANGED <<stored, rev, fieldRev>> PROVE ServerT' /\ Keeps
  BY <1>2 DEF EditT, ServerT, Keeps
<1>3. ASSUME UNCHANGED server PROVE ServerT' /\ QueueT' /\ Keeps
  BY <1>2, <1>3 DEF EditT, QueueT, server
<1>4. CASE EditingNext
  BY <1>1, <1>3, <1>4, EditingWrites
<1>5. CASE IndexNext
  <2>1. UNCHANGED <<stored, rev, fieldRev>>
    BY <1>5 DEF IndexNext, ConsumerSteps, Take, Fetched, Upsert, Mismatch, ComesToNothing,
                ConsumerDies, ConsumerRestarts, IngestReads, IngestUpserts, IngestFails,
                RecreateDeletes, RecreateCreates, SwitchModel, EditFile, Resend, pages
  <2>2. QueueT'
    <3>1. CASE Take
      <4>1. events # <<>> /\ events' = Tail(events) /\ silent' = silent
        BY <3>1 DEF Take
      <4>2. Tail(events) \in Seq(Ids)
        BY <4>1 DEF EditT, QueueT
      <4> QED BY <4>1, <4>2 DEF EditT, QueueT
    <3>2. CASE ConsumerRestarts
      <4>1. << >> \in Seq(Ids)
        OBVIOUS
      <4> QED BY <3>2, <4>1 DEF EditT, QueueT, ConsumerRestarts
    <3>3. ASSUME NEW e \in Ids, Resend(e) PROVE QueueT'
      BY <3>3, AnnounceTypes DEF Resend, EditT
    <3>4. ASSUME UNCHANGED <<events, silent>> PROVE QueueT'
      BY <3>4 DEF EditT, QueueT
    <3> QED
      BY <1>5, <3>1, <3>2, <3>3, <3>4
         DEF IndexNext, ConsumerSteps, Fetched, Upsert, Mismatch, ComesToNothing, ConsumerDies,
             IngestReads, IngestUpserts, IngestFails, RecreateDeletes, RecreateCreates,
             SwitchModel, EditFile
  <2> QED BY <1>2, <2>1, <2>2
<1>6. CASE UNCHANGED documentVars
  BY <1>3, <1>6 DEF documentVars, editing
<1> QED BY <1>4, <1>5, <1>6 DEF DocumentsNext

\* The index changes nothing of the pages.
LEMMA IndexSteps ==
  ASSUME IndexNext \/ UNCHANGED documentVars
  PROVE  UNCHANGED <<stored, rev, fieldRev, page, cache, fetch, broken, editor, acked, puts>>
<1>1. CASE IndexNext
  BY <1>1 DEF IndexNext, ConsumerSteps, Take, Fetched, Upsert, Mismatch, ComesToNothing,
              ConsumerDies, ConsumerRestarts, IngestReads, IngestUpserts, IngestFails,
              RecreateDeletes, RecreateCreates, SwitchModel, EditFile, Resend, pages, client
<1>2. CASE UNCHANGED documentVars
  BY <1>2 DEF documentVars, editing, server, client
<1> QED BY <1>1, <1>2
-----------------------------------------------------------------------------
(* EntityEditing: the cache.                                               *)

FetchT == [at : {"idle", "asked", "answered"}, copy : Copy]
Answer(e) == [at |-> "answered", copy |-> [rev |-> rev[e], body |-> stored[e]]]

\* What a step does to the copy of an entity: the cache gets what was answered, and a fetch
\* starts, starts again, is over, or is answered.
CopyMoves(e) ==
  /\ \/ cache'[e] = cache[e]
     \/ fetch[e].at = "answered" /\ cache'[e] = fetch[e].copy /\ acked'[e] = acked[e]
  /\ \/ fetch'[e] \in {fetch[e], NoFetch, Asked}
     \/ fetch'[e] = Answer(e) /\ UNCHANGED <<stored, rev, fieldRev, acked>>
  /\ \/ acked'[e] = acked[e]
     \/ fetch'[e] = Asked /\ \E p \in puts : p.at = "ok" /\ p.id = e /\ acked'[e] = p.rev
  /\ Shows(e)' /\ fetch'[e] = NoFetch /\ e \notin broken' =>
       \/ Shows(e) /\ fetch[e] = NoFetch /\ e \notin broken /\ cache'[e] = cache[e]
       \/ fetch[e].at = "answered" /\ cache'[e] = fetch[e].copy

Moves ==
  /\ cache' = [e \in Ids |-> cache'[e]]
  /\ fetch' = [e \in Ids |-> fetch'[e]]
  /\ acked' = [e \in Ids |-> acked'[e]]
  /\ PageT'
  /\ \A e \in Ids : CopyMoves(e)

LEMMA CacheMoves ==
  ASSUME EditInv, [DocumentsNext]_documentVars
  PROVE  Moves
<1> USE DEF EditInv, EditT
<1>0. cache \in [Ids -> Copy] /\ fetch \in [Ids -> FetchT] /\ acked \in [Ids -> Nat]
  BY DEF CacheT, AckedT, FetchT
<1>1. Asked # NoFetch /\ Asked.at = "asked" /\ NoFetch.at = "idle"
  BY DEF Asked, NoFetch
<1>2. ASSUME UNCHANGED <<page, cache, fetch, broken, acked>> PROVE Moves
  BY <1>0, <1>2 DEF Moves, CopyMoves, PageT, Shows
<1>3. ASSUME NEW e \in Ids, FetchServed(e) PROVE Moves
  <2>1. /\ fetch' = [fetch EXCEPT ![e] = Answer(e)]
        /\ UNCHANGED <<stored, rev, fieldRev, page, cache, broken, acked>>
    BY <1>3 DEF FetchServed, server, Answer
  <2>2. Answer(e) # NoFetch
    BY DEF Answer, NoFetch
  <2>3. \A x \in Ids : CopyMoves(x)
    BY <1>0, <2>1, <2>2 DEF CopyMoves, Shows
  <2> QED BY <1>0, <2>1, <2>3 DEF Moves, PageT
<1>4. ASSUME NEW e \in Ids, FetchArrives(e) PROVE Moves
  <2>1. /\ fetch[e].at = "answered" /\ cache' = [cache EXCEPT ![e] = fetch[e].copy]
        /\ fetch' = [fetch EXCEPT ![e] = NoFetch] /\ broken' = broken \ {e}
        /\ UNCHANGED <<page, acked>>
    BY <1>4 DEF FetchArrives
  <2>2. \A x \in Ids : CopyMoves(x)
    BY <1>0, <2>1 DEF CopyMoves, Shows
  <2> QED BY <1>0, <2>1, <2>2 DEF Moves, PageT
<1>5. ASSUME NEW e \in Ids, FetchFails(e) PROVE Moves
  <2>1. /\ fetch' = [fetch EXCEPT ![e] = NoFetch] /\ broken' = broken \cup {e}
        /\ UNCHANGED <<page, cache, acked>>
    BY <1>5 DEF FetchFails
  <2>2. \A x \in Ids : CopyMoves(x)
    BY <1>0, <2>1 DEF CopyMoves, Shows
  <2> QED BY <1>0, <2>1, <2>2 DEF Moves, PageT
<1>6. ASSUME NEW e \in Ids, FetchOnMount(e), UNCHANGED <<cache, broken, acked>>, PageT',
             page'.id = e
      PROVE  Moves
  <2>1. fetch' = [fetch EXCEPT ![e] = IF fetch[e] = NoFetch THEN Asked ELSE fetch[e]]
    BY <1>6 DEF FetchOnMount
  <2>2. \A x \in Ids : CopyMoves(x)
    BY <1>0, <1>1, <1>6, <2>1 DEF CopyMoves, Shows
  <2> QED BY <1>0, <1>6, <2>1, <2>2 DEF Moves
<1>7. ASSUME NEW at \in {"viewer", "editor", "other"}, NEW e \in Ids, Open(at, e) PROVE Moves
  <2>1. UNCHANGED <<cache, broken, acked>> /\ PageT' /\ page'.id = e /\ page'.at = at
    BY <1>7 DEF Open, PageT
  <2>2. CASE at = "other"
    <3>1. fetch' = fetch
      BY <1>7, <2>2 DEF Open
    <3>2. \A x \in Ids : CopyMoves(x)
      BY <1>0, <2>1, <2>2, <3>1 DEF CopyMoves, Shows
    <3> QED BY <1>0, <2>1, <3>1, <3>2 DEF Moves
  <2>3. CASE at # "other"
    BY <1>6, <1>7, <2>1, <2>3 DEF Open
  <2> QED BY <2>2, <2>3
<1>8. ASSUME NEW e \in Ids, Jump(e) PROVE Moves
  <2>1. UNCHANGED <<cache, broken, acked>> /\ PageT' /\ page'.id = e /\ FetchOnMount(e)
    BY <1>8 DEF Jump, PageT
  <2> QED BY <1>6, <2>1
<1>9. ASSUME NEW p \in puts, SaveSucceeds(p) PROVE Moves
  <2>1. p.key \in Ids /\ p.id \in Ids /\ p.at = "ok"
    BY <1>9 DEF PutsT, SaveRequest, SaveSucceeds
  <2>2. /\ fetch' = IF Shows(p.key) THEN [fetch EXCEPT ![p.key] = Asked] ELSE fetch
        /\ acked' = IF Shows(p.key) /\ p.key = p.id THEN [acked EXCEPT ![p.id] = p.rev] ELSE acked
        /\ UNCHANGED <<page, cache, broken>>
    BY <1>9 DEF SaveSucceeds, Invalidate
  <2>3. \A x \in Ids : fetch'[x] = fetch[x] \/ fetch'[x] = Asked
    BY <1>0, <2>2
  <2>4. \A x \in Ids : \/ acked'[x] = acked[x]
                       \/ fetch'[x] = Asked /\ p.id = x /\ acked'[x] = p.rev
    BY <1>0, <2>1, <2>2
  <2>5. ASSUME NEW x \in Ids PROVE CopyMoves(x)
    BY <1>0, <1>1, <2>1, <2>2, <2>3, <2>4 DEF CopyMoves, Shows
  <2>6. fetch' = [x \in Ids |-> fetch'[x]] /\ acked' = [x \in Ids |-> acked'[x]]
    BY <1>0, <2>2
  <2> QED BY <1>0, <2>2, <2>5, <2>6 DEF Moves, PageT
<1>10. ASSUME NEW p \in puts, PutServed(p) \/ PutFails(p) \/ SaveFailed(p) PROVE Moves
  BY <1>2, <1>10 DEF PutServed, PutFails, SaveFailed, client
<1>11. CASE \/ \E e \in Ids, f \in Fields : \E v \in Values : OtherWrite(e, f, v)
            \/ \E mode \in {"form", "yaml"} : SetMode(mode)
            \/ \E f \in Fields : \E v \in Values : Type(f, v)
            \/ \E text \in {"bad", "null"} : TypeText(text)
            \/ SaveDraft
  BY <1>2, <1>11 DEF OtherWrite, SetMode, Type, TypeText, SaveDraft, client
<1>12. CASE IndexNext \/ UNCHANGED documentVars
  BY <1>2, <1>12, IndexSteps
<1> QED
  BY <1>3, <1>4, <1>5, <1>7, <1>8, <1>9, <1>10, <1>11, <1>12 DEF DocumentsNext, EditingNext

LEMMA NextCopies ==
  ASSUME EditInv, [DocumentsNext]_documentVars
  PROVE  PageT' /\ CacheT' /\ CopiesRight' /\ AckedT' /\ AckedRight' /\ ReadYourWrites'
<1>1. Moves /\ ServerT' /\ Keeps
  BY CacheMoves, ServerSteps DEF EditInv
<1>2. cache \in [Ids -> Copy] /\ fetch \in [Ids -> FetchT] /\ acked \in [Ids -> Nat]
  BY DEF EditInv, EditT, CacheT, AckedT, FetchT
<1>3. \A e \in Ids : Answer(e) \in FetchT
  BY DEF EditInv, EditT, ServerT, Answer, FetchT, Copy
<1>4. ASSUME NEW e \in Ids PROVE cache'[e] \in Copy /\ fetch'[e] \in FetchT /\ acked'[e] \in Nat
  <2>1. CopyMoves(e)
    BY <1>1 DEF Moves
  <2>2. fetch[e].copy \in Copy
    BY <1>2 DEF FetchT
  <2>3. \A p \in puts : p.rev \in Nat
    BY DEF EditInv, EditT, PutsT, SaveRequest
  <2>4. NoFetch \in FetchT /\ Asked \in FetchT
    BY StartTypes DEF FetchT
  <2> QED BY <1>2, <1>3, <2>1, <2>2, <2>3, <2>4 DEF CopyMoves
<1>5. PageT' /\ CacheT' /\ AckedT'
  <2>1. cache' = [e \in Ids |-> cache'[e]] /\ fetch' = [e \in Ids |-> fetch'[e]]
        /\ acked' = [e \in Ids |-> acked'[e]] /\ PageT'
    BY <1>1 DEF Moves
  <2>2. cache' \in [Ids -> Copy] /\ fetch' \in [Ids -> FetchT] /\ acked' \in [Ids -> Nat]
    BY <1>4, <2>1
  <2> QED BY <2>1, <2>2 DEF CacheT, AckedT, FetchT
<1>6. ASSUME NEW e \in Ids
      PROVE  /\ AsOf(cache'[e].body, cache'[e].rev, {}, rev'[e], fieldRev'[e], stored'[e])
             /\ fetch'[e].at = "answered" =>
                  AsOf(fetch'[e].copy.body, fetch'[e].copy.rev, {}, rev'[e], fieldRev'[e], stored'[e])
  <2>1. CopyMoves(e)
    BY <1>1 DEF Moves
  <2>2. cache[e].rev \in Nat /\ fetch[e].copy.rev \in Nat
    BY <1>2 DEF FetchT, Copy
  <2>3. AsOf(cache[e].body, cache[e].rev, {}, rev'[e], fieldRev'[e], stored'[e])
    BY <1>1, <2>2 DEF EditInv, CopiesRight, Right, Keeps
  <2>4. fetch[e].at = "answered" =>
          AsOf(fetch[e].copy.body, fetch[e].copy.rev, {}, rev'[e], fieldRev'[e], stored'[e])
    BY <1>1, <2>2 DEF EditInv, CopiesRight, Right, Keeps
  <2>5. Answer(e).copy.body = stored[e] /\ Answer(e).copy.rev = rev[e]
    BY DEF Answer
  <2>6. AsOf(stored[e], rev[e], {}, rev[e], fieldRev[e], stored[e])
    BY DEF AsOf, EditInv, EditT, ServerT
  <2>7. NoFetch.at # "answered" /\ Asked.at # "answered"
    BY DEF NoFetch, Asked
  <2>8. AsOf(cache'[e].body, cache'[e].rev, {}, rev'[e], fieldRev'[e], stored'[e])
    BY <2>1, <2>3, <2>4 DEF CopyMoves
  <2>9. CASE fetch'[e] = Answer(e) /\ UNCHANGED <<stored, rev, fieldRev, acked>>
    BY <2>5, <2>6, <2>8, <2>9
  <2>10. CASE fetch'[e] \in {fetch[e], NoFetch, Asked}
    BY <2>4, <2>7, <2>8, <2>10
  <2> QED BY <2>1, <2>9, <2>10 DEF CopyMoves
<1>7. CopiesRight'
  BY <1>6 DEF CopiesRight, Right
<1>8. ASSUME NEW e \in Ids
      PROVE  acked'[e] =< rev'[e] /\ (fetch'[e].at = "answered" => acked'[e] =< fetch'[e].copy.rev)
  <2>1. CopyMoves(e)
    BY <1>1 DEF Moves
  <2>2. rev[e] \in Nat /\ rev'[e] \in Nat /\ acked[e] \in Nat /\ rev[e] =< rev'[e]
    BY <1>1, <1>2 DEF EditInv, EditT, ServerT, Keeps
  <2>3. acked[e] =< rev[e] /\ (fetch[e].at = "answered" => acked[e] =< fetch[e].copy.rev)
    BY DEF EditInv, AckedRight
  <2>4. NoFetch.at # "answered" /\ Asked.at # "answered"
    BY DEF NoFetch, Asked
  <2>5. \A p \in puts : p.at = "ok" => p.rev =< rev[p.id] /\ p.rev \in Nat
    BY DEF EditInv, EditT, PutsT, SaveRequest, PutsRight, Right, AsOf
  <2>6. CASE acked'[e] = acked[e]
    <3>1. acked'[e] =< rev'[e]
      BY <2>2, <2>3, <2>6
    <3>2. CASE fetch'[e] = Answer(e) /\ UNCHANGED <<stored, rev, fieldRev, acked>>
      <4>1. fetch'[e].copy.rev = rev[e]
        BY <3>2 DEF Answer
      <4> QED BY <2>3, <2>6, <3>1, <4>1
    <3>3. CASE fetch'[e] \in {fetch[e], NoFetch, Asked}
      BY <2>3, <2>4, <2>6, <3>1, <3>3
    <3> QED BY <2>1, <3>2, <3>3 DEF CopyMoves
  <2>7. ASSUME fetch'[e] = Asked, NEW p \in puts, p.at = "ok", p.id = e, acked'[e] = p.rev
        PROVE  acked'[e] =< rev'[e] /\ (fetch'[e].at = "answered" => acked'[e] =< fetch'[e].copy.rev)
    BY <2>2, <2>4, <2>5, <2>7
  <2> QED BY <2>1, <2>6, <2>7 DEF CopyMoves
<1>9. AckedRight'
  BY <1>8 DEF AckedRight
<1>10. ASSUME NEW e \in Ids, Shows(e)', fetch'[e] = NoFetch, e \notin broken'
       PROVE  cache'[e].rev >= acked'[e]
  <2>1. CopyMoves(e)
    BY <1>1 DEF Moves
  <2>2. acked'[e] = acked[e]
    BY <1>10, <2>1 DEF CopyMoves, NoFetch, Asked
  <2>3. \/ Shows(e) /\ fetch[e] = NoFetch /\ e \notin broken /\ cache'[e] = cache[e]
        \/ fetch[e].at = "answered" /\ cache'[e] = fetch[e].copy
    BY <1>10, <2>1 DEF CopyMoves
  <2>4. acked[e] \in Nat /\ fetch[e].copy.rev \in Nat
    BY <1>2 DEF FetchT, Copy
  <2>5. fetch[e].at = "answered" => fetch[e].copy.rev >= acked[e]
    BY <2>4 DEF EditInv, AckedRight
  <2>6. Shows(e) /\ fetch[e] = NoFetch /\ e \notin broken => cache[e].rev >= acked[e]
    BY DEF EditInv, ReadYourWrites
  <2> QED BY <2>2, <2>3, <2>5, <2>6
<1>11. ReadYourWrites'
  BY <1>10 DEF ReadYourWrites, Shows, NoFetch, NoCopy, Blank
<1> QED BY <1>5, <1>7, <1>9, <1>11
-----------------------------------------------------------------------------
(* EntityEditing: the editor and its saves.                                *)

LEMMA NextEditor ==
  ASSUME EditInv, [DocumentsNext]_documentVars
  PROVE  EditorT' /\ EditorRight'
<1> USE DEF EditInv, EditT
<1>0. /\ editor \in Draft /\ cache \in [Ids -> Copy] /\ fetch \in [Ids -> FetchT]
      /\ page.id \in Ids /\ Keeps
  BY ServerSteps DEF EditorT, CacheT, FetchT, PageT
<1>1. ASSUME editor' \in Draft,
             AsOf(editor'.body, editor'.seed, editor'.touched, rev[editor'.origin],
                  fieldRev[editor'.origin], stored[editor'.origin])
      PROVE  EditorT' /\ EditorRight'
  <2>1. editor'.origin \in Ids /\ editor'.seed \in Nat
    BY <1>1 DEF Draft
  <2>2. AsOf(editor'.body, editor'.seed, editor'.touched, rev'[editor'.origin],
             fieldRev'[editor'.origin], stored'[editor'.origin])
    BY <1>0, <1>1, <2>1 DEF Keeps
  <2> QED BY <1>1, <2>2 DEF EditorT, EditorRight, Right
<1>2. AsOf(editor.body, editor.seed, editor.touched, rev[editor.origin], fieldRev[editor.origin],
           stored[editor.origin])
  BY DEF EditorRight, Right
<1>3. ASSUME UNCHANGED editor PROVE EditorT' /\ EditorRight'
  BY <1>0, <1>1, <1>2, <1>3
<1>4. ASSUME editor' = NoDraft PROVE EditorT' /\ EditorRight'
  <2>1. NoDraft \in Draft /\ AnyId \in Ids
    BY StartTypes
  <2>2. NoDraft.seed = 0 /\ NoDraft.origin = AnyId
    BY DEF NoDraft
  <2>3. rev[AnyId] \in Nat \ {0} /\ \A f \in Fields : fieldRev[AnyId][f] \in Nat \ {0}
    BY <2>1 DEF ServerT
  <2>4. \A b, t : AsOf(b, 0, t, rev[AnyId], fieldRev[AnyId], stored[AnyId])
    BY <2>3 DEF AsOf
  <2> QED BY <1>1, <1>4, <2>1, <2>2, <2>4
<1>5. ASSUME NEW h \in Draft, NEW e \in Ids, NEW copy \in Copy, Right(copy.body, e, copy.rev, {}),
             editor' = [h EXCEPT !.body = copy.body, !.origin = e, !.seed = copy.rev, !.touched = {}]
      PROVE  EditorT' /\ EditorRight'
  <2>1. copy.body \in Body /\ copy.rev \in Nat
    BY DEF Copy
  <2>2. /\ editor' \in Draft
        /\ editor'.body = copy.body /\ editor'.origin = e /\ editor'.seed = copy.rev
        /\ editor'.touched = {}
    BY <1>5, <2>1 DEF Draft
  <2> QED BY <1>1, <1>5, <2>2 DEF Right
<1>6. ASSUME NEW e \in Ids, FetchArrives(e) PROVE EditorT' /\ EditorRight'
  <2>1. fetch[e].copy \in Copy /\ Right(fetch[e].copy.body, e, fetch[e].copy.rev, {})
    BY <1>0, <1>6 DEF FetchT, FetchArrives, CopiesRight
  <2>2. editor' = Seeded(e, fetch[e].copy)
    BY <1>6 DEF FetchArrives
  <2> QED BY <1>0, <1>3, <1>5, <2>1, <2>2 DEF Seeded
<1>7. ASSUME NEW at, NEW e \in Ids, Open(at, e) PROVE EditorT' /\ EditorRight'
  <2>1. cache[e] \in Copy /\ Right(cache[e].body, e, cache[e].rev, {})
    BY <1>0 DEF CopiesRight
  <2>2. \/ editor' = NoDraft
        \/ editor' = [NoDraft EXCEPT !.body = cache[e].body, !.origin = e, !.seed = cache[e].rev]
    BY <1>7 DEF Open
  <2>3. NoDraft \in Draft /\ NoDraft.touched = {}
    BY StartTypes DEF NoDraft
  <2>4. [NoDraft EXCEPT !.body = cache[e].body, !.origin = e, !.seed = cache[e].rev]
          = [NoDraft EXCEPT !.body = cache[e].body, !.origin = e, !.seed = cache[e].rev, !.touched = {}]
    BY <2>3 DEF NoDraft
  <2> QED BY <1>4, <1>5, <2>1, <2>2, <2>3, <2>4
<1>8. ASSUME NEW e \in Ids, Jump(e) PROVE EditorT' /\ EditorRight'
  <2>1. cache[e] \in Copy /\ AsOf(cache[e].body, cache[e].rev, {}, rev[e], fieldRev[e], stored[e])
    BY <1>0 DEF CopiesRight, Right
  <2>2. \/ editor' = editor
        \/ editor' = [editor EXCEPT !.body = cache[e].body, !.origin = e, !.seed = cache[e].rev]
    BY <1>8 DEF Jump
  <2>3. CASE editor' = [editor EXCEPT !.body = cache[e].body, !.origin = e, !.seed = cache[e].rev]
    <3>1. /\ editor' \in Draft
          /\ editor'.body = cache[e].body /\ editor'.origin = e /\ editor'.seed = cache[e].rev
      BY <1>0, <2>1, <2>3 DEF Draft, Copy
    <3>2. AsOf(cache[e].body, cache[e].rev, editor'.touched, rev[e], fieldRev[e], stored[e])
      BY <2>1 DEF AsOf
    <3> QED BY <1>1, <3>1, <3>2
  <2> QED BY <1>3, <2>2, <2>3
<1>9. ASSUME editor' \in Draft, UNCHANGED <<editor.body, editor.origin, editor.seed, editor.touched>>
      PROVE  EditorT' /\ EditorRight'
  BY <1>1, <1>2, <1>9
<1>10. ASSUME NEW mode \in {"form", "yaml"}, SetMode(mode) PROVE EditorT' /\ EditorRight'
  <2>1. editor' \in Draft /\ UNCHANGED <<editor.body, editor.origin, editor.seed, editor.touched>>
    BY <1>0, <1>10 DEF SetMode, Draft
  <2> QED BY <1>9, <2>1
<1>11. ASSUME NEW text \in {"bad", "null"}, TypeText(text) PROVE EditorT' /\ EditorRight'
  <2>1. editor' = [editor EXCEPT !.text = text, !.parseError = (text = "bad")]
    BY <1>11 DEF TypeText
  <2>2. (text = "bad") \in BOOLEAN
    OBVIOUS
  <2>3. editor' \in Draft /\ UNCHANGED <<editor.body, editor.origin, editor.seed, editor.touched>>
    BY <1>0, <2>1, <2>2 DEF Draft
  <2> QED BY <1>9, <2>3
<1>12. ASSUME NEW f \in Fields, NEW v \in Values, Type(f, v) PROVE EditorT' /\ EditorRight'
  <2> DEFINE b == [editor.body EXCEPT ![f] = v]
             wrong == (editor.mode = "form" /\ editor.parseError)
  <2>1. editor' = [editor EXCEPT !.body = b, !.touched = editor.touched \cup {f}, !.text = "draft",
                                 !.parseError = wrong]
    BY <1>12 DEF Type, Typed
  <2>2. b \in Body /\ wrong \in BOOLEAN
    BY <1>0 DEF Draft, Body
  <2>3. \A g \in Fields \ {f} : b[g] = editor.body[g]
    BY <1>0 DEF Draft, Body
  <2> HIDE DEF b, wrong
  <2>4. /\ editor' \in Draft /\ editor'.body = b /\ editor'.origin = editor.origin
        /\ editor'.seed = editor.seed /\ editor'.touched = editor.touched \cup {f}
    BY <1>0, <2>1, <2>2 DEF Draft
  <2>5. AsOf(b, editor.seed, editor.touched \cup {f}, rev[editor.origin], fieldRev[editor.origin],
             stored[editor.origin])
    BY <1>2, <2>3 DEF AsOf
  <2> QED BY <1>1, <2>4, <2>5
<1>13. ASSUME NEW p \in puts, SaveSucceeds(p) PROVE EditorT' /\ EditorRight'
  <2>1. p \in SaveRequest /\ p.at = "ok" /\ editor' = AcceptedDraft(p)
    BY <1>13 DEF SaveSucceeds, PutsT
  <2>2. AsOf(p.body, p.rev, {}, rev[p.id], fieldRev[p.id], stored[p.id])
    BY <2>1 DEF PutsRight, Right
  <2>3. CASE editor' = [editor EXCEPT !.body = p.body, !.origin = p.id, !.seed = p.rev,
                                      !.touched = {}, !.text = "draft"]
    <3>1. /\ editor' \in Draft /\ editor'.body = p.body /\ editor'.origin = p.id
          /\ editor'.seed = p.rev /\ editor'.touched = {}
      BY <1>0, <2>1, <2>3 DEF Draft, SaveRequest
    <3> QED BY <1>1, <2>2, <3>1
  <2> QED BY <1>3, <2>1, <2>3 DEF AcceptedDraft
<1>14. ASSUME NEW p \in puts, PutServed(p) \/ PutFails(p) \/ SaveFailed(p)
       PROVE  EditorT' /\ EditorRight'
  BY <1>3, <1>14 DEF PutServed, PutFails, SaveFailed, client
<1>15. CASE \/ \E e \in Ids, f \in Fields : \E v \in Values : OtherWrite(e, f, v)
            \/ \E e \in Ids : FetchServed(e) \/ FetchFails(e)
            \/ SaveDraft
  BY <1>3, <1>15 DEF OtherWrite, FetchServed, FetchFails, SaveDraft, client
<1>16. CASE IndexNext \/ UNCHANGED documentVars
  BY <1>3, <1>16, IndexSteps
<1> QED
  BY <1>6, <1>7, <1>8, <1>10, <1>11, <1>12, <1>13, <1>14, <1>15, <1>16
     DEF DocumentsNext, EditingNext

LEMMA NextPuts ==
  ASSUME EditInv, [DocumentsNext]_documentVars
  PROVE  PutsT' /\ PutsRight'
<1> USE DEF EditInv, EditT
<1>0. puts \subseteq SaveRequest /\ Keeps /\ ServerT'
  BY ServerSteps DEF PutsT
<1> DEFINE Fine(q) ==
      /\ q \in SaveRequest
      /\ q.at = "sent" => AsOf(q.body, q.seed, q.touched, rev'[q.origin], fieldRev'[q.origin],
                               stored'[q.origin])
      /\ q.at = "ok" => AsOf(q.body, q.rev, {}, rev'[q.id], fieldRev'[q.id], stored'[q.id])
<1>1. ASSUME NEW p \in puts PROVE Fine(p)
  <2>1. p \in SaveRequest
    BY <1>0
  <2>2. p.origin \in Ids /\ p.id \in Ids /\ p.seed \in Nat /\ p.rev \in Nat
    BY <2>1 DEF SaveRequest
  <2>3. /\ p.at = "sent" => AsOf(p.body, p.seed, p.touched, rev[p.origin], fieldRev[p.origin],
                                 stored[p.origin])
        /\ p.at = "ok" => AsOf(p.body, p.rev, {}, rev[p.id], fieldRev[p.id], stored[p.id])
    BY DEF PutsRight, Right
  <2> QED BY <1>0, <2>1, <2>2, <2>3 DEF Keeps
<1>2. ASSUME \A q \in puts' : Fine(q) PROVE PutsT' /\ PutsRight'
  BY <1>2 DEF PutsT, PutsRight, Right
<1> HIDE DEF Fine
<1>3. ASSUME puts' \subseteq puts PROVE PutsT' /\ PutsRight'
  BY <1>1, <1>2, <1>3
<1>4. ASSUME NEW p \in puts, PutServed(p) PROVE PutsT' /\ PutsRight'
  <2> DEFINE q == [p EXCEPT !.at = "ok", !.rev = rev[p.id] + 1]
  <2>1. puts' = (puts \ {p}) \cup {q}
    BY <1>4 DEF PutServed, Answered
  <2>2. p \in SaveRequest
    BY <1>0
  <2>3. p.id \in Ids /\ p.body \in Body /\ Commit(p.id, p.body)
    BY <1>4, <2>2 DEF SaveRequest, PutServed
  <2>4. stored'[p.id] = p.body /\ rev'[p.id] = rev[p.id] + 1
    BY <2>3, CommitTypes
  <2>5. rev[p.id] + 1 \in Nat
    BY <2>3 DEF ServerT
  <2>6. /\ q \in SaveRequest /\ q.at = "ok" /\ q.rev = rev[p.id] + 1 /\ q.id = p.id
        /\ q.body = p.body
    BY <2>2, <2>5 DEF SaveRequest
  <2> HIDE DEF q
  <2>7. AsOf(p.body, rev[p.id] + 1, {}, rev'[p.id], fieldRev'[p.id], stored'[p.id])
    BY <2>4, <2>5 DEF AsOf
  <2>8. Fine(q)
    BY <2>6, <2>7 DEF Fine
  <2>9. \A x \in puts' : Fine(x)
    BY <1>1, <2>1, <2>8
  <2> QED BY <1>2, <2>9
<1>5. ASSUME NEW p \in puts, PutFails(p) PROVE PutsT' /\ PutsRight'
  <2> DEFINE q == [p EXCEPT !.at = "failed", !.rev = 0]
  <2>1. puts' = (puts \ {p}) \cup {q}
    BY <1>5 DEF PutFails, Answered
  <2>2. p \in SaveRequest
    BY <1>0
  <2>3. q \in SaveRequest /\ q.at = "failed"
    BY <2>2 DEF SaveRequest
  <2> HIDE DEF q
  <2>4. Fine(q)
    BY <2>3 DEF Fine
  <2>5. \A x \in puts' : Fine(x)
    BY <1>1, <2>1, <2>4
  <2> QED BY <1>2, <2>5
<1>6. ASSUME NEW e \in Ids, Jump(e) PROVE PutsT' /\ PutsRight'
  <2> DEFINE Moved(p) == [p EXCEPT !.key = e]
  <2>1. puts' = {IF p.visit = page.visit THEN Moved(p) ELSE p : p \in puts}
    BY <1>6 DEF Jump
  <2>2. ASSUME NEW p \in puts PROVE Fine(Moved(p))
    <3>1. p \in SaveRequest /\ Fine(p)
      BY <1>0, <1>1
    <3>2. /\ Moved(p) \in SaveRequest
          /\ Moved(p).at = p.at /\ Moved(p).body = p.body /\ Moved(p).seed = p.seed
          /\ Moved(p).touched = p.touched /\ Moved(p).origin = p.origin
          /\ Moved(p).rev = p.rev /\ Moved(p).id = p.id
      BY <3>1 DEF SaveRequest
    <3> HIDE DEF Moved
    <3> QED BY <3>1, <3>2 DEF Fine
  <2> HIDE DEF Moved
  <2>3. \A x \in puts' : Fine(x)
    BY <1>1, <2>1, <2>2
  <2> QED BY <1>2, <2>3
<1>7. CASE SaveDraft
  <2> DEFINE q == [at |-> "sent", id |-> page.id, body |-> editor.body, rev |-> 0,
                   visit |-> page.visit, key |-> page.id, origin |-> editor.origin,
                   seed |-> editor.seed, touched |-> editor.touched]
  <2>1. puts' = puts \cup {q} /\ UNCHANGED <<stored, rev, fieldRev>>
    BY <1>7 DEF SaveDraft, server
  <2>2. q \in SaveRequest
    BY DEF SaveRequest, EditorT, Draft, PageT
  <2>3. AsOf(q.body, q.seed, q.touched, rev[q.origin], fieldRev[q.origin], stored[q.origin])
    BY DEF EditorRight, Right
  <2>4. q.at = "sent"
    OBVIOUS
  <2> HIDE DEF q
  <2>5. Fine(q)
    BY <2>1, <2>2, <2>3, <2>4 DEF Fine
  <2>6. \A x \in puts' : Fine(x)
    BY <1>1, <2>1, <2>5
  <2> QED BY <1>2, <2>6
<1>8. ASSUME NEW p \in puts, SaveSucceeds(p) \/ SaveFailed(p) PROVE PutsT' /\ PutsRight'
  BY <1>3, <1>8 DEF SaveSucceeds, SaveFailed
<1>9. CASE \/ \E e \in Ids, f \in Fields : \E v \in Values : OtherWrite(e, f, v)
           \/ \E e \in Ids : FetchServed(e) \/ FetchArrives(e) \/ FetchFails(e)
           \/ \E at \in {"viewer", "editor", "other"}, e \in Ids : Open(at, e)
           \/ \E mode \in {"form", "yaml"} : SetMode(mode)
           \/ \E f \in Fields : \E v \in Values : Type(f, v)
           \/ \E text \in {"bad", "null"} : TypeText(text)
  <2>1. puts' = puts
    BY <1>9 DEF OtherWrite, FetchServed, FetchArrives, FetchFails, Open, SetMode, Type, TypeText
  <2> QED BY <1>3, <2>1
<1>10. CASE IndexNext \/ UNCHANGED documentVars
  BY <1>3, <1>10, IndexSteps
<1> QED
  BY <1>4, <1>5, <1>6, <1>7, <1>8, <1>9, <1>10 DEF DocumentsNext, EditingNext

LEMMA InitEditInv == EditingInit => EditInv
<1> SUFFICES ASSUME EditingInit PROVE EditInv
  OBVIOUS
<1>1. EditT
  BY InitEditT
<1>2. \A e \in Ids : rev[e] = 1 /\ \A f \in Fields : fieldRev[e][f] = 1
  BY DEF EditingInit
<1>3. \A e \in Ids : \A b, t : Right(b, e, 0, t)
  BY <1>2 DEF Right, AsOf
<1>4. AnyId \in Ids
  BY StartTypes
<1>5. \A e \in Ids : cache[e].rev = 0 /\ fetch[e].at = "idle" /\ acked[e] = 0
  BY DEF EditingInit, NoCopy, NoFetch
<1>6. editor.origin = AnyId /\ editor.seed = 0
  BY DEF EditingInit, NoDraft
<1>7. CopiesRight /\ EditorRight /\ PutsRight
  BY <1>3, <1>4, <1>5, <1>6 DEF CopiesRight, EditorRight, PutsRight, EditingInit
<1>8. AckedRight /\ ReadYourWrites
  BY <1>2, <1>5 DEF AckedRight, ReadYourWrites
<1> QED BY <1>1, <1>7, <1>8 DEF EditInv

LEMMA EditInvHolds == DocumentsSpec => []EditInv
<1>1. DocumentsInit => EditInv
  BY InitEditInv DEF DocumentsInit
<1>2. EditInv /\ [DocumentsNext]_documentVars => EditInv'
  BY ServerSteps, NextCopies, NextEditor, NextPuts DEF EditInv, EditT
<1> QED
  BY <1>1, <1>2, PTL DEF DocumentsSpec

(* For all entities, fields and bounds: once a save has succeeded while a page shows its
   entity and the fetch this leads to is over, the cache is not older than what was saved,
   whatever was fetched, saved and written meanwhile (onSuccess of EntityEditor.tsx). *)
THEOREM WritesAreRead == DocumentsSpec => []ReadYourWrites
<1>1. EditInv => ReadYourWrites
  BY DEF EditInv
<1> QED
  BY <1>1, EditInvHolds, PTL

(* For all entities and fields, and any number of saves under way: a save overwrites, beside
   what its user touched, only what has changed since its copy was read, unless the draft
   is that of another entity (handleSave of EntityEditor.tsx, update_entity of pmdf.py). *)
THEOREM OverwritesUnseen == DocumentsSpec => LostOnlyUnseen
<1> DEFINE Unseen == \A p \in puts : PutServed(p) =>
       \A f \in Fields : stored'[p.id][f] # stored[p.id][f] =>
         f \in p.touched \/ fieldRev[p.id][f] > p.seed \/ p.origin # p.id
<1>1. EditInv /\ [DocumentsNext]_documentVars => [Unseen]_editing
  <2> SUFFICES ASSUME EditInv, NEW p \in puts, PutServed(p), NEW f \in Fields,
                      stored'[p.id][f] # stored[p.id][f], f \notin p.touched, p.origin = p.id
               PROVE  fieldRev[p.id][f] > p.seed
    OBVIOUS
  <2>1. p \in SaveRequest /\ p.at = "sent" /\ ServerT
    BY DEF EditInv, EditT, PutsT, PutServed
  <2>2. p.id \in Ids /\ p.body \in Body /\ p.seed \in Nat /\ Commit(p.id, p.body)
    BY <2>1 DEF SaveRequest, PutServed
  <2>3. stored'[p.id] = p.body
    BY <2>1, <2>2, CommitTypes
  <2>4. fieldRev[p.id][f] =< p.seed => p.body[f] = stored[p.id][f]
    BY <2>1 DEF EditInv, PutsRight, Right, AsOf
  <2>5. fieldRev[p.id][f] \in Nat
    BY <2>1, <2>2 DEF ServerT
  <2> QED BY <2>2, <2>3, <2>4, <2>5
<1> QED
  BY <1>1, EditInvHolds, PTL DEF DocumentsSpec, LostOnlyUnseen
-----------------------------------------------------------------------------
(* KnowledgeIndex: sequences.                                              *)

LEMMA RangeOfAppend ==
  ASSUME NEW T, NEW s \in Seq(T), NEW x \in T
  PROVE  Range(Append(s, x)) = Range(s) \union {x}
<1>1. /\ DOMAIN s = 1..Len(s) /\ Len(s) \in Nat
      /\ DOMAIN Append(s, x) = 1..(Len(s) + 1)
      /\ \A i \in 1..Len(s) : Append(s, x)[i] = s[i]
      /\ Append(s, x)[Len(s) + 1] = x
  BY AppendProperties
<1>2. \A i \in 1..(Len(s) + 1) : i \in 1..Len(s) \/ i = Len(s) + 1
  BY <1>1
<1>3. \A i \in 1..Len(s) : i \in 1..(Len(s) + 1)
  BY <1>1
<1>4. Len(s) + 1 \in 1..(Len(s) + 1)
  BY <1>1
<1>5. Range(Append(s, x)) \subseteq Range(s) \union {x}
  BY <1>1, <1>2 DEF Range
<1>6. Range(s) \subseteq Range(Append(s, x))
  BY <1>1, <1>3 DEF Range
<1>7. x \in Range(Append(s, x))
  BY <1>1, <1>4 DEF Range
<1> QED BY <1>5, <1>6, <1>7

LEMMA RangeOfTail ==
  ASSUME NEW T, NEW s \in Seq(T), s # << >>
  PROVE  Range(s) = Range(Tail(s)) \union {Head(s)} /\ Head(s) \in T
<1>1. /\ DOMAIN s = 1..Len(s) /\ Len(s) \in Nat /\ Len(s) # 0
      /\ Head(s) = s[1] /\ Tail(s) \in Seq(T) /\ Len(Tail(s)) = Len(s) - 1
      /\ \A i \in 1..(Len(s) - 1) : Tail(s)[i] = s[i + 1]
  OBVIOUS
<1>2. DOMAIN Tail(s) = 1..(Len(s) - 1)
  BY <1>1
<1>3. 1 \in DOMAIN s /\ \A i \in 1..(Len(s) - 1) : i + 1 \in DOMAIN s
  BY <1>1
<1>4. \A i \in DOMAIN s : i = 1 \/ (i - 1 \in 1..(Len(s) - 1) /\ (i - 1) + 1 = i)
  BY <1>1
<1>5. Range(s) \subseteq Range(Tail(s)) \union {Head(s)}
  <2> SUFFICES ASSUME NEW i \in DOMAIN s PROVE s[i] \in Range(Tail(s)) \union {Head(s)}
    BY DEF Range
  <2>1. CASE i = 1
    BY <1>1, <2>1
  <2>2. CASE i # 1
    <3>1. i - 1 \in 1..(Len(s) - 1) /\ Tail(s)[i - 1] = s[i]
      BY <1>1, <1>4, <2>2
    <3> QED BY <1>2, <3>1 DEF Range
  <2> QED BY <2>1, <2>2
<1>6. Range(Tail(s)) \subseteq Range(s)
  BY <1>1, <1>2, <1>3 DEF Range
<1>7. Head(s) \in Range(s) /\ Head(s) \in T
  BY <1>1, <1>3 DEF Range
<1> QED BY <1>5, <1>6, <1>7

-----------------------------------------------------------------------------
(* KnowledgeIndex: entities.                                               *)

Consumer == [at : {"idle", "asked", "embedding", "dead"}, id : Ids, text : Values]

EntitiesT ==
  /\ consumer \in Consumer /\ points \in [Ids -> Values] /\ dropped \subseteq Ids
  /\ dim \in {1, 2} /\ collection \in 0..2 /\ recreate \in 0..2

\* The text that is being embedded is the entity's, or its event is queued or lacking.
TextRight ==
  consumer.at = "embedding" =>
    \/ consumer.text = stored[consumer.id][TextField]
    \/ consumer.id \in Range(events) \union silent

EntitiesInv == EntitiesT /\ TextRight /\ EntitiesAreCurrent

LEMMA NextEntitiesT ==
  ASSUME EditT, EntitiesT, [DocumentsNext]_documentVars
  PROVE  EntitiesT'
<1> USE DEF EntitiesT
<1>1. CASE UNCHANGED <<consumer, points, dropped, dim, collection, recreate>>
  BY <1>1
<1>2. CASE Take
  <2>1. Head(events) \in Ids
    BY <1>2, RangeOfTail DEF Take, EditT, QueueT
  <2>2. consumer' = [at |-> "asked", id |-> Head(events), text |-> 0]
    BY <1>2 DEF Take
  <2>3. consumer' \in Consumer
    BY <2>1, <2>2 DEF Consumer, Values
  <2> QED BY <1>2, <2>3 DEF Take
<1>3. CASE Fetched
  <2>1. consumer.id \in Ids /\ stored[consumer.id][TextField] \in Values
    BY TextAssumption DEF EditT, ServerT, Body, Consumer
  <2> QED BY <1>3, <2>1 DEF Fetched, Skip, Consumer
<1>4. CASE ComesToNothing \/ ConsumerDies \/ Mismatch
  BY <1>4 DEF ComesToNothing, ConsumerDies, Mismatch, Skip, Consumer
<1>5. CASE ConsumerRestarts
  <2>1. Range(events) \subseteq Ids
    BY DEF EditT, QueueT, Range
  <2>2. consumer' = [consumer EXCEPT !.at = "idle"]
        /\ dropped' = dropped \cup Range(events) \cup {consumer.id}
        /\ UNCHANGED <<points, dim, collection, recreate>>
    BY <1>5 DEF ConsumerRestarts
  <2>3. consumer' \in Consumer /\ consumer.id \in Ids
    BY <2>2 DEF Consumer
  <2> QED BY <2>1, <2>2, <2>3
<1>6. CASE Upsert
  <2>1. consumer.text \in Values /\ consumer' \in Consumer
    BY <1>6 DEF Upsert, Consumer
  <2>2. points' = [points EXCEPT ![consumer.id] = consumer.text] /\ dropped' = dropped \ {consumer.id}
        /\ collection' = dim /\ UNCHANGED <<dim, recreate>>
    BY <1>6 DEF Upsert, Ensured
  <2>3. points' \in [Ids -> Values] /\ dropped' \subseteq Ids
    BY <2>1, <2>2
  <2>4. dim' \in {1, 2} /\ collection' \in 0..2 /\ recreate' \in 0..2
    BY <2>2
  <2> QED BY <2>1, <2>3, <2>4
<1>7. CASE IngestUpserts
  BY <1>7 DEF IngestUpserts, Ensured
<1>8. ASSUME NEW d \in {1, 2}, RecreateDeletes(d) PROVE EntitiesT'
  BY <1>8 DEF RecreateDeletes, Values
<1>9. CASE RecreateCreates \/ SwitchModel
  BY <1>9 DEF RecreateCreates, SwitchModel
<1>10. CASE \/ EditingNext /\ UNCHANGED index
            \/ IngestReads \/ IngestFails
            \/ \E s \in Corpus : EditFile(s)
            \/ \E e \in Ids : Resend(e)
            \/ UNCHANGED documentVars
  <2>1. UNCHANGED <<consumer, points, dropped, dim, collection, recreate>>
    BY <1>10 DEF index, IngestReads, IngestFails, EditFile, Resend, documentVars
  <2> QED BY <1>1, <2>1
<1> QED
  BY <1>2, <1>3, <1>4, <1>5, <1>6, <1>7, <1>8, <1>9, <1>10
     DEF DocumentsNext, IndexNext, ConsumerSteps

LEMMA NextEntities ==
  ASSUME EditT, EntitiesInv, [DocumentsNext]_documentVars
  PROVE  TextRight' /\ EntitiesAreCurrent'
<1> USE DEF EntitiesInv
<1>0. /\ consumer \in Consumer /\ points \in [Ids -> Values] /\ dropped \subseteq Ids
      /\ consumer.id \in Ids /\ events \in Seq(Ids) /\ stored \in [Ids -> Body]
  BY DEF EntitiesT, Consumer, EditT, QueueT, ServerT
<1>1. \A e \in Ids : \/ points[e] = stored[e][TextField]
                     \/ e \in Range(events)
                     \/ consumer.at # "idle" /\ consumer.id = e
                     \/ e \in dropped \union silent
  BY DEF EntitiesAreCurrent, Pending
<1>2. consumer.at = "embedding" =>
        \/ consumer.text = stored[consumer.id][TextField]
        \/ consumer.id \in Range(events) \union silent
  BY DEF TextRight
<1>3. ASSUME \A e \in Ids : \/ points'[e] = stored'[e][TextField]
                            \/ e \in Range(events')
                            \/ consumer'.at # "idle" /\ consumer'.id = e
                            \/ e \in dropped' \union silent',
             consumer'.at = "embedding" =>
               \/ consumer'.text = stored'[consumer'.id][TextField]
               \/ consumer'.id \in Range(events') \union silent'
      PROVE  TextRight' /\ EntitiesAreCurrent'
  BY <1>3 DEF TextRight, EntitiesAreCurrent, Pending, Range
<1>4. ASSUME UNCHANGED <<points, stored, events, silent, consumer, dropped>>
      PROVE  TextRight' /\ EntitiesAreCurrent'
  BY <1>1, <1>2, <1>3, <1>4
<1>5. ASSUME NEW e \in Ids, UNCHANGED <<points, consumer, dropped>>,
             stored' \in [Ids -> Body], \A x \in Ids \ {e} : stored'[x] = stored[x],
             Announce(e) \/ Unannounced(e)
      PROVE  TextRight' /\ EntitiesAreCurrent'
  <2>1. \/ Range(events') = Range(events) \union {e} /\ silent' = silent \ {e}
        \/ Range(events') = Range(events) /\ silent' = silent \union {e}
    <3>1. Range(Append(events, e)) = Range(events) \union {e}
      BY <1>0, RangeOfAppend
    <3>2. CASE Announce(e)
      BY <3>1, <3>2 DEF Announce
    <3>3. CASE Unannounced(e)
      BY <3>3 DEF Unannounced
    <3> QED BY <1>5, <3>2, <3>3
  <2>2. \A x \in Ids : \/ points'[x] = stored'[x][TextField]
                       \/ x \in Range(events')
                       \/ consumer'.at # "idle" /\ consumer'.id = x
                       \/ x \in dropped' \union silent'
    BY <1>1, <1>5, <2>1
  <2>3. consumer'.at = "embedding" =>
               \/ consumer'.text = stored'[consumer'.id][TextField]
               \/ consumer'.id \in Range(events') \union silent'
    BY <1>0, <1>2, <1>5, <2>1
  <2> QED BY <1>3, <2>2, <2>3
<1>6. CASE EditingNext /\ UNCHANGED index
  <2>1. UNCHANGED <<points, consumer, dropped>>
    BY <1>6 DEF index
  <2>2. CASE UNCHANGED server
    BY <1>4, <2>1, <2>2 DEF server
  <2>3. ASSUME NEW e \in Ids, NEW body \in Body, Commit(e, body), Announce(e) \/ Unannounced(e)
        PROVE  TextRight' /\ EntitiesAreCurrent'
    <3>1. stored' = [stored EXCEPT ![e] = body]
      BY <2>3 DEF Commit
    <3>2. stored' \in [Ids -> Body] /\ \A x \in Ids \ {e} : stored'[x] = stored[x]
      BY <1>0, <3>1
    <3> QED BY <1>5, <2>1, <2>3, <3>2
  <2> QED BY <1>6, <2>2, <2>3, EditingWrites
<1>7. CASE Take
  <2>1. Range(events) = Range(events') \union {Head(events)}
    BY <1>0, <1>7, RangeOfTail DEF Take
  <2>2. /\ consumer.at = "idle" /\ consumer'.at = "asked" /\ consumer'.id = Head(events)
        /\ UNCHANGED <<points, stored, silent, dropped>>
    BY <1>7 DEF Take, pages
  <2> QED BY <1>1, <1>3, <2>1, <2>2
<1>8. CASE Fetched
  <2>1. UNCHANGED <<points, stored, events, silent>> /\ consumer.at = "asked"
    BY <1>8 DEF Fetched, pages
  <2>2. CASE stored[consumer.id][TextField] = 0
    <3>1. consumer'.at = "idle" /\ dropped' = dropped \union {consumer.id}
      BY <1>0, <1>8, <2>2 DEF Fetched, Skip, Consumer
    <3> QED BY <1>1, <1>3, <2>1, <3>1
  <2>3. CASE stored[consumer.id][TextField] # 0
    <3>1. /\ consumer'.at = "embedding" /\ consumer'.id = consumer.id /\ dropped' = dropped
          /\ consumer'.text = stored[consumer.id][TextField]
      BY <1>0, <1>8, <2>3 DEF Fetched, Consumer
    <3> QED BY <1>1, <1>3, <2>1, <3>1
  <2> QED BY <2>2, <2>3
<1>9. CASE ComesToNothing
  <2>1. /\ UNCHANGED <<points, stored, events, silent>> /\ consumer'.at = "idle"
        /\ dropped' = dropped \union {consumer.id}
    BY <1>0, <1>9 DEF ComesToNothing, Skip, pages, Consumer
  <2> QED BY <1>1, <1>3, <2>1
<1>10. CASE ConsumerDies \/ Mismatch
  <2>1. /\ UNCHANGED <<points, stored, events, silent, dropped>> /\ consumer'.at = "dead"
        /\ consumer'.id = consumer.id
    BY <1>0, <1>10 DEF ConsumerDies, Mismatch, pages, Consumer
  <2> QED BY <1>1, <1>3, <2>1
<1>11. CASE ConsumerRestarts
  <2>1. /\ UNCHANGED <<points, stored, silent>> /\ consumer'.at = "idle"
        /\ dropped' = dropped \cup Range(events) \cup {consumer.id}
    BY <1>0, <1>11 DEF ConsumerRestarts, pages, Consumer
  <2> QED BY <1>1, <1>3, <2>1
<1>12. CASE Upsert
  <2>1. /\ UNCHANGED <<stored, events, silent>> /\ consumer'.at = "idle"
        /\ points' = [points EXCEPT ![consumer.id] = consumer.text]
        /\ dropped' = dropped \ {consumer.id} /\ consumer.at = "embedding"
    BY <1>0, <1>12 DEF Upsert, pages, Consumer
  <2>2. ASSUME NEW e \in Ids PROVE \/ points'[e] = stored'[e][TextField]
                                   \/ e \in Range(events')
                                   \/ consumer'.at # "idle" /\ consumer'.id = e
                                   \/ e \in dropped' \union silent'
    <3>1. CASE e = consumer.id
      BY <1>0, <1>2, <2>1, <3>1
    <3>2. CASE e # consumer.id
      BY <1>0, <1>1, <2>1, <3>2
    <3> QED BY <3>1, <3>2
  <2> QED BY <1>3, <2>1, <2>2
<1>13. ASSUME NEW d, RecreateDeletes(d) PROVE TextRight' /\ EntitiesAreCurrent'
  <2>1. UNCHANGED <<stored, events, silent, consumer>> /\ dropped' = Ids
    BY <1>13 DEF RecreateDeletes, pages
  <2> QED BY <1>2, <1>3, <2>1
<1>14. ASSUME NEW e \in Ids, Resend(e) PROVE TextRight' /\ EntitiesAreCurrent'
  <2>1. UNCHANGED <<points, consumer, dropped, stored>> /\ Announce(e)
    BY <1>14 DEF Resend, pages, index
  <2> QED BY <1>0, <1>5, <2>1
<1>15. CASE \/ IngestReads \/ IngestUpserts \/ IngestFails \/ RecreateCreates \/ SwitchModel
            \/ \E s \in Corpus : EditFile(s)
            \/ UNCHANGED documentVars
  <2>1. UNCHANGED <<points, stored, events, silent, consumer, dropped>>
    BY <1>15 DEF IngestReads, IngestUpserts, IngestFails, RecreateCreates, SwitchModel, EditFile,
                 pages, documentVars, index, editing, server
  <2> QED BY <1>4, <2>1
<1> QED
  BY <1>6, <1>7, <1>8, <1>9, <1>10, <1>11, <1>12, <1>13, <1>14, <1>15
     DEF DocumentsNext, IndexNext, ConsumerSteps

LEMMA InitEntities == IndexInit => EntitiesInv
<1> SUFFICES ASSUME IndexInit PROVE EntitiesInv
  OBVIOUS
<1>1. EntitiesT
  BY StartTypes DEF IndexInit, EntitiesT, Consumer, Values
<1>2. TextRight /\ EntitiesAreCurrent
  BY DEF IndexInit, TextRight, EntitiesAreCurrent
<1> QED BY <1>1, <1>2 DEF EntitiesInv

LEMMA EntitiesInvHolds == DocumentsSpec => []EntitiesInv
<1>1. DocumentsInit => EntitiesInv
  BY InitEntities DEF DocumentsInit
<1>2. EditInv /\ EntitiesInv /\ [DocumentsNext]_documentVars => EntitiesInv'
  BY NextEntitiesT, NextEntities DEF EntitiesInv, EditInv
<1> QED
  BY <1>1, <1>2, EditInvHolds, PTL DEF DocumentsSpec
-----------------------------------------------------------------------------
(* KnowledgeIndex: the chunks of a file.                                   *)

(* Induction up to L, for a set of numbers. *)
LEMMA CountUp ==
  ASSUME NEW L \in Nat, NEW S, 0 \in S, \A n \in 0..(L - 1) : n \in S => n + 1 \in S
  PROVE  \A n \in 0..L : n \in S
<1> DEFINE B == {n \in Nat : n =< L /\ n \notin S}
<1> SUFFICES ASSUME B # {} PROVE FALSE
  OBVIOUS
<1>1. B \in SUBSET Nat
  OBVIOUS
<1> DEFINE R == OpToRel(<, Nat)
<1>2. \A x, y \in Nat : y < x => <<y, x>> \in R
  BY DEF OpToRel
<1>3. IsWellFoundedOn(R, Nat)
  BY NatLessThanWellFounded
<1> HIDE DEF B, R
<1>4. PICK k \in B : \A m \in B : ~ (<<m, k>> \in R)
  BY <1>1, <1>3, WFMin
<1>5. \A m \in B : ~ (m < k)
  BY <1>1, <1>2, <1>4, Zenon
<1>6. k \in Nat /\ k =< L /\ k \notin S
  BY DEF B
<1>7. k # 0
  BY <1>6
<1>8. k - 1 \in 0..(L - 1) /\ k - 1 \notin B
  BY <1>5, <1>6, <1>7
<1>9. k - 1 \in S
  BY <1>6, <1>7, <1>8 DEF B
<1> QED BY <1>6, <1>8, <1>9

(* What FlattenSeq computes, one sequence after the other. *)
LEMMA FlattenUpto ==
  ASSUME NEW seqs, Len(seqs) \in Nat \ {0}
  PROVE  \E g : /\ g[1] = seqs[1]
                /\ \A n \in 2..Len(seqs) : g[n] = g[n - 1] \o seqs[n]
                /\ FlattenSeq(seqs) = g[Len(seqs)]
<1> DEFINE L == Len(seqs)
           Body0(f, n) == IF n = 1 THEN seqs[n] ELSE f[n - 1] \o seqs[n]
           F == CHOOSE f : f = [n \in 1..L |-> Body0(f, n)]
           S == {m \in 0..(L - 1) : \E f : f = [n \in 1..(m + 1) |-> Body0(f, n)]}
<1>0. L \in Nat \ {0} /\ L - 1 \in Nat
  OBVIOUS
<1>1. 0 \in S
  <2> DEFINE f == [n \in 1..(0 + 1) |-> seqs[1]]
  <2>1. f = [n \in 1..(0 + 1) |-> Body0(f, n)]
    OBVIOUS
  <2> HIDE DEF Body0, f
  <2>2. \E h : h = [n \in 1..(0 + 1) |-> Body0(h, n)]
    BY <2>1
  <2>3. 0 \in 0..(L - 1)
    BY <1>0
  <2> QED BY <2>2, <2>3
<1>2. ASSUME NEW m \in 0..((L - 1) - 1), m \in S PROVE m + 1 \in S
  <2>1. PICK f : f = [n \in 1..(m + 1) |-> Body0(f, n)]
    BY <1>2
  <2> DEFINE g == [n \in 1..((m + 1) + 1) |-> IF n =< m + 1 THEN f[n] ELSE Body0(f, n)]
  <2> HIDE DEF Body0
  <2>2. ASSUME NEW n \in 1..((m + 1) + 1) PROVE g[n] = Body0(g, n)
    <3>1. \A k \in 1..(m + 1) : g[k] = f[k] /\ f[k] = Body0(f, k)
      <4>1. m \in Nat
        BY <1>0
      <4>2. \A k \in 1..(m + 1) : k \in 1..((m + 1) + 1) /\ k =< m + 1
        BY <4>1
      <4>3. \A k \in 1..(m + 1) : g[k] = f[k]
        BY <4>2
      <4>4. \A k \in 1..(m + 1) : f[k] = Body0(f, k)
        BY <2>1
      <4> QED BY <4>3, <4>4
    <3>2. n # 1 => n - 1 \in 1..(m + 1) /\ g[n - 1] = f[n - 1]
      BY <3>1
    <3>3. Body0(g, n) = Body0(f, n)
      BY <3>2 DEF Body0
    <3>4. g[n] = Body0(f, n)
      <4>1. CASE n = (m + 1) + 1
        BY <4>1
      <4>2. CASE n # (m + 1) + 1
        <5>1. n \in 1..(m + 1)
          BY <4>2
        <5> QED BY <3>1, <5>1
      <4> QED BY <4>1, <4>2
    <3> QED BY <3>3, <3>4
  <2>3. g = [n \in 1..((m + 1) + 1) |-> Body0(g, n)]
    BY <2>2
  <2>4. \E h : h = [n \in 1..((m + 1) + 1) |-> Body0(h, n)]
    BY <2>3
  <2>5. m + 1 \in 0..(L - 1)
    BY <1>0
  <2> QED BY <2>4, <2>5
<1>3. \E f : f = [n \in 1..L |-> Body0(f, n)]
  <2> HIDE DEF S, L
  <2>1. \A n \in 0..(L - 1) : n \in S
    BY <1>0, <1>1, <1>2, CountUp
  <2>2. L - 1 \in S /\ (L - 1) + 1 = L
    BY <1>0, <2>1
  <2> QED BY <2>2 DEF S
<1>4. F = [n \in 1..L |-> Body0(F, n)]
  <2> HIDE DEF Body0
  <2> QED BY <1>3
<1>5. FlattenSeq(seqs) = F[L]
  BY <1>0 DEF FlattenSeq
<1> HIDE DEF F
<1>6. F[1] = seqs[1]
  BY <1>0, <1>4
<1>7. \A n \in 1..L : F[n] = Body0(F, n)
  <2> HIDE DEF Body0
  <2> QED BY <1>4
<1>8. \A n \in 2..L : F[n] = F[n - 1] \o seqs[n]
  <2> TAKE n \in 2..L
  <2>1. n \in 1..L /\ n # 1
    BY <1>0
  <2> QED BY <1>7, <2>1
<1> QED BY <1>5, <1>6, <1>8

(* Every element of every sequence is in the flat one. *)
LEMMA FlattenHasAll ==
  ASSUME NEW T, NEW seqs \in Seq(Seq(T))
  PROVE  /\ FlattenSeq(seqs) \in Seq(T)
         /\ \A i \in 1..Len(seqs) : \A j \in DOMAIN seqs[i] :
              \E k \in DOMAIN FlattenSeq(seqs) : FlattenSeq(seqs)[k] = seqs[i][j]
<1> DEFINE L == Len(seqs)
<1>0. L \in Nat
  OBVIOUS
<1>1. CASE L = 0
  <2>1. seqs = << >>
    BY <1>1, EmptySeq
  <2>2. FlattenSeq(seqs) = << >>
    BY <2>1 DEF FlattenSeq
  <2> QED BY <1>1, <2>2
<1>2. CASE L # 0
  <2>1. PICK g : /\ g[1] = seqs[1]
                 /\ \A n \in 2..L : g[n] = g[n - 1] \o seqs[n]
                 /\ FlattenSeq(seqs) = g[L]
    BY <1>0, <1>2, FlattenUpto
  <2> DEFINE Has0(n, i) == \A j \in DOMAIN seqs[i] : \E k \in DOMAIN g[n] : g[n][k] = seqs[i][j]
             S == {m \in 0..(L - 1) : g[m + 1] \in Seq(T) /\ \A i \in 1..(m + 1) : Has0(m + 1, i)}
  <2>2. \A i \in 1..L : seqs[i] \in Seq(T)
    OBVIOUS
  <2>3. 0 \in S
    <3>1. 0 \in 0..(L - 1) /\ 1 \in 1..L /\ 0 + 1 = 1
      BY <1>0, <1>2
    <3>2. \A i \in 1..1 : i = 1
      OBVIOUS
    <3>3. g[1] \in Seq(T) /\ Has0(1, 1)
      BY <2>1, <2>2, <3>1
    <3> QED BY <3>1, <3>2, <3>3
  <2>4. ASSUME NEW m \in 0..((L - 1) - 1), m \in S PROVE m + 1 \in S
    <3> DEFINE n == (m + 1) + 1
    <3>1. n \in 2..L /\ n \in 1..L /\ n - 1 = m + 1 /\ m + 1 \in 0..(L - 1)
      BY <1>0, <1>2
    <3> DEFINE s == g[m + 1]
               t == seqs[n]
    <3>2. s \in Seq(T) /\ t \in Seq(T)
      BY <2>2, <2>4, <3>1
    <3>3. g[n] = s \o t
      BY <2>1, <3>1
    <3> HIDE DEF s, t
    <3>4. /\ s \o t \in Seq(T) /\ Len(s \o t) = Len(s) + Len(t)
          /\ \A i \in 1..(Len(s) + Len(t)) : (s \o t)[i] = IF i =< Len(s) THEN s[i] ELSE t[i - Len(s)]
      BY <3>2, ConcatProperties
    <3>5. DOMAIN s = 1..Len(s) /\ DOMAIN t = 1..Len(t) /\ DOMAIN (s \o t) = 1..(Len(s) + Len(t))
          /\ Len(s) \in Nat /\ Len(t) \in Nat
      BY <3>2, <3>4
    <3>6. ASSUME NEW i \in 1..(m + 1), NEW j \in DOMAIN seqs[i]
          PROVE  \E k \in DOMAIN (s \o t) : (s \o t)[k] = seqs[i][j]
      <4>1. Has0(m + 1, i)
        BY <2>4
      <4>2. PICK k \in DOMAIN s : s[k] = seqs[i][j]
        BY <3>6, <4>1 DEF s
      <4>3. k \in DOMAIN (s \o t) /\ (s \o t)[k] = s[k]
        BY <3>4, <3>5
      <4> QED BY <4>2, <4>3
    <3>7. ASSUME NEW j \in DOMAIN t PROVE \E k \in DOMAIN (s \o t) : (s \o t)[k] = t[j]
      <4>1. /\ Len(s) + j \in 1..(Len(s) + Len(t)) /\ ~ (Len(s) + j =< Len(s))
            /\ (Len(s) + j) - Len(s) = j
        BY <3>5
      <4>2. (s \o t)[Len(s) + j] = t[j]
        BY <3>4, <4>1
      <4> QED BY <3>5, <4>1, <4>2
    <3>8. \A i \in 1..n : i \in 1..(m + 1) \/ i = n
      BY <1>0
    <3>9. \A i \in 1..n : Has0(n, i)
      <4>1. ASSUME NEW i \in 1..(m + 1) PROVE Has0(n, i)
        <5>1. ASSUME NEW j \in DOMAIN seqs[i]
              PROVE  \E k \in DOMAIN g[n] : g[n][k] = seqs[i][j]
          BY ONLY <3>3, <3>6, <5>1, Zenon
        <5> QED BY <5>1
      <4>2. Has0(n, n)
        BY <3>3, <3>7 DEF t
      <4> HIDE DEF Has0
      <4> QED BY <3>8, <4>1, <4>2
    <3>10. g[n] \in Seq(T)
      BY <3>3, <3>4
    <3> QED BY <3>1, <3>9, <3>10
  <2> HIDE DEF S
  <2>5. L - 1 \in Nat /\ L - 1 \in 0..(L - 1) /\ (L - 1) + 1 = L
    BY <1>0, <1>2
  <2>6. \A n \in 0..(L - 1) : n \in S
    BY <2>3, <2>4, <2>5, CountUp
  <2>7. g[L] \in Seq(T) /\ \A i \in 1..L : Has0(L, i)
    <3> HIDE DEF Has0
    <3>1. L - 1 \in S
      BY <2>5, <2>6
    <3>2. g[(L - 1) + 1] \in Seq(T) /\ \A i \in 1..((L - 1) + 1) : Has0((L - 1) + 1, i)
      BY <3>1 DEF S
    <3> QED BY <2>5, <3>2
  <2> QED BY <2>1, <2>7
<1> QED BY <1>1, <1>2

LEMMA LesserAndGreater ==
  ASSUME NEW x \in Int, NEW y \in Int
  PROVE  /\ Min({x, y}) = IF x =< y THEN x ELSE y
         /\ Max({x, y}) = IF x >= y THEN x ELSE y
<1>1. \E z \in {x, y} : \A w \in {x, y} : z =< w
  OBVIOUS
<1>2. Min({x, y}) \in {x, y} /\ \A w \in {x, y} : Min({x, y}) =< w
  BY <1>1 DEF Min
<1>3. \E z \in {x, y} : \A w \in {x, y} : z >= w
  OBVIOUS
<1>4. Max({x, y}) \in {x, y} /\ \A w \in {x, y} : Max({x, y}) >= w
  BY <1>3 DEF Max
<1> QED BY <1>2, <1>4

(* The parts of a section cover it, at any length of section and chunk and with any
   overlap, one as long as the chunk included: none leaves a gap to the next, and the
   loop ends (_split_fixed_length of chunking.py). *)
THEOREM PartsCover ==
  ASSUME NEW n \in Nat \ {0}
  PROVE  /\ SplitFixedLength(n) \in Seq(Nat \X Nat)
         /\ \A c \in 0..(n - 1) : \E k \in DOMAIN SplitFixedLength(n) :
              SplitFixedLength(n)[k][1] =< c /\ c < SplitFixedLength(n)[k][2]
<1> DEFINE step == Max({MaxChars - Overlap, 1})
           Ends(k) == k * step + MaxChars >= n
           last == CHOOSE k \in 0..n : Ends(k) /\ \A j \in 0..n : Ends(j) => k <= j
           part(k) == <<(k - 1) * step, Min({(k - 1) * step + MaxChars, n})>>
<1>1. MaxChars \in Nat \ {0} /\ Overlap \in Nat
  BY ChunksAssumption
<1>2. step \in Nat /\ 1 =< step /\ step =< MaxChars
  <2>1. MaxChars - Overlap \in Int /\ 1 \in Int
    BY <1>1
  <2>2. step = IF MaxChars - Overlap >= 1 THEN MaxChars - Overlap ELSE 1
    BY <2>1, LesserAndGreater
  <2> QED BY <1>1, <2>2
<1> HIDE DEF step
<1>3. \E k \in 0..n : Ends(k) /\ \A j \in 0..n : Ends(j) => k <= j
  <2> DEFINE B == {k \in 0..n : Ends(k)}
             R == OpToRel(<, Nat)
  <2>1. n \in B
    <3>1. n * step >= n
      BY <1>2
    <3>2. n * step \in Nat
      BY <1>2
    <3> QED BY <1>1, <3>1, <3>2
  <2>2. B \in SUBSET Nat /\ B # {}
    BY <2>1
  <2>3. \A x, y \in Nat : y < x => <<y, x>> \in R
    BY DEF OpToRel
  <2>4. IsWellFoundedOn(R, Nat)
    BY NatLessThanWellFounded
  <2> HIDE DEF B, R
  <2>5. PICK k \in B : \A m \in B : ~ (<<m, k>> \in R)
    BY <2>2, <2>4, WFMin
  <2>6. \A m \in B : ~ (m < k)
    BY <2>2, <2>3, <2>5, Zenon
  <2>7. \A m \in B : k =< m
    BY <2>2, <2>6
  <2> QED BY <2>7 DEF B
<1>4. last \in 0..n /\ Ends(last)
  <2> HIDE DEF Ends
  <2> QED BY <1>3
<1>5. SplitFixedLength(n) = [k \in 1..(last + 1) |-> part(k)]
  BY DEF SplitFixedLength, step
<1> HIDE DEF last
<1>6. \A k \in 0..n : k * step \in Nat
  BY <1>2
<1>7. ASSUME NEW k \in 0..n
      PROVE  Min({k * step + MaxChars, n}) = IF k * step + MaxChars =< n THEN k * step + MaxChars ELSE n
  BY <1>1, <1>6, LesserAndGreater
<1>8. ASSUME NEW k \in 1..(last + 1)
      PROVE  /\ k - 1 \in 0..n
             /\ part(k) \in Nat \X Nat
             /\ part(k)[1] = (k - 1) * step
             /\ part(k)[2] = IF (k - 1) * step + MaxChars =< n THEN (k - 1) * step + MaxChars ELSE n
  <2>1. k - 1 \in 0..n
    BY <1>4
  <2>2. (k - 1) * step \in Nat
    BY <1>6, <2>1
  <2>3. part(k)[2] = IF (k - 1) * step + MaxChars =< n THEN (k - 1) * step + MaxChars ELSE n
    BY <1>7, <2>1
  <2>4. part(k)[1] = (k - 1) * step
    OBVIOUS
  <2>5. part(k)[2] \in Nat
    BY <1>1, <2>2, <2>3
  <2> QED BY <2>1, <2>2, <2>3, <2>4, <2>5
<1>9. SplitFixedLength(n) \in Seq(Nat \X Nat)
  <2>1. last + 1 \in Nat
    BY <1>4
  <2>2. \A k \in 1..(last + 1) : part(k) \in Nat \X Nat
    BY <1>8
  <2> HIDE DEF part
  <2>3. SplitFixedLength(n) \in [1..(last + 1) -> Nat \X Nat]
    BY <1>5, <2>2
  <2> QED BY <2>1, <2>3
<1>10. ASSUME NEW c \in 0..(n - 1)
       PROVE  \E k \in 0..last : k * step =< c /\ c < k * step + MaxChars
  <2> DEFINE S == {j \in 0..last : \E k \in 0..j : k * step =< c /\ (k = j \/ c < (k + 1) * step)}
  <2>1. 0 \in S
    <3>1. 0 * step = 0 /\ 0 \in 0..last /\ 0 \in 0..0
      BY <1>2, <1>4
    <3> QED BY <3>1
  <2>2. ASSUME NEW j \in 0..(last - 1), j \in S PROVE j + 1 \in S
    <3>1. PICK k \in 0..j : k * step =< c /\ (k = j \/ c < (k + 1) * step)
      BY <2>2
    <3>2. j + 1 \in 0..last /\ k \in 0..(j + 1) /\ j + 1 \in 0..(j + 1)
      BY <1>4
    <3>3. CASE c < (k + 1) * step
      BY <3>1, <3>2, <3>3
    <3>4. CASE ~ (c < (k + 1) * step)
      <4>1. k = j
        BY <3>1, <3>4
      <4>2. j + 1 \in 0..n
        BY <1>4
      <4>3. (j + 1) * step \in Nat
        BY <1>6, <4>2
      <4>4. (j + 1) * step =< c
        BY <3>4, <4>1, <4>3
      <4> QED BY <3>2, <4>4
    <3> QED BY <3>3, <3>4
  <2> HIDE DEF S
  <2>3. last \in Nat /\ last \in 0..last
    BY <1>4
  <2>4. last \in S
    <3>1. \A j \in 0..last : j \in S
      BY <2>1, <2>2, <2>3, CountUp
    <3> QED BY <2>3, <3>1
  <2>5. PICK k \in 0..last : k * step =< c /\ (k = last \/ c < (k + 1) * step)
    BY <2>4 DEF S
  <2>6. k \in 0..n /\ k * step \in Nat
    BY <1>4, <1>6
  <2>7. CASE k = last
    <3>1. last * step + MaxChars >= n
      BY <1>4
    <3>2. c < n
      OBVIOUS
    <3> QED BY <1>1, <2>5, <2>6, <2>7, <3>1, <3>2
  <2>8. CASE c < (k + 1) * step
    <3>1. (k + 1) * step = k * step + step
      BY <1>2, <2>6
    <3> QED BY <1>1, <1>2, <2>5, <2>6, <2>8, <3>1
  <2> QED BY <2>5, <2>7, <2>8
<1>11. ASSUME NEW c \in 0..(n - 1)
       PROVE  \E k \in DOMAIN SplitFixedLength(n) :
                SplitFixedLength(n)[k][1] =< c /\ c < SplitFixedLength(n)[k][2]
  <2>1. PICK k \in 0..last : k * step =< c /\ c < k * step + MaxChars
    BY <1>10
  <2>2. k + 1 \in 1..(last + 1) /\ (k + 1) - 1 = k
    BY <1>4
  <2>3. part(k + 1)[1] = k * step
        /\ part(k + 1)[2] = IF k * step + MaxChars =< n THEN k * step + MaxChars ELSE n
    BY <1>8, <2>2
  <2>4. part(k + 1)[1] =< c /\ c < part(k + 1)[2]
    BY <2>1, <2>3
  <2>5. k + 1 \in DOMAIN SplitFixedLength(n) /\ SplitFixedLength(n)[k + 1] = part(k + 1)
    BY <1>5, <2>2
  <2> QED BY <2>4, <2>5
<1> QED BY <1>9, <1>11
-----------------------------------------------------------------------------
(* KnowledgeIndex: the file.                                               *)

Document == [rev : Nat, sections : Corpus \union {<< >>}]
Chunk == [rev : Nat, section : Nat, from : Nat, to : Nat]

\* Every character of the document is in a chunk of its own revision.
Covered(where, f) ==
  \A s \in DOMAIN f.sections : \A c \in 0..(f.sections[s] - 1) :
    \E k \in DOMAIN where : /\ where[k].rev = f.rev /\ where[k].section = s
                            /\ where[k].from <= c /\ c < where[k].to

(* What is split covers what was read, blank sections or not. *)
LEMMA DocumentsAreCovered ==
  ASSUME NEW f \in Document
  PROVE  ChunkDocument(f) \in Seq(Chunk) /\ Covered(ChunkDocument(f), f)
<1> DEFINE L == Len(f.sections)
           Parts(s) == SplitFixedLength(f.sections[s])
           Of(s) == IF f.sections[s] = 0 THEN << >>
                    ELSE [k \in DOMAIN Parts(s) |-> [rev |-> f.rev, section |-> s,
                                                     from |-> Parts(s)[k][1], to |-> Parts(s)[k][2]]]
           seqs == [s \in DOMAIN f.sections |-> Of(s)]
<1>1. f.rev \in Nat /\ f.sections \in Seq(Nat) /\ L \in Nat /\ DOMAIN f.sections = 1..L
  <2>1. f.rev \in Nat /\ f.sections \in Corpus \union {<< >>}
    BY DEF Document
  <2>2. f.sections \in Seq(Nat)
    <3>1. CASE f.sections \in Corpus
      BY <3>1, CorpusAssumption
    <3>2. CASE f.sections = << >>
      BY <3>2, EmptySeq
    <3> QED BY <2>1, <3>1, <3>2
  <2> QED BY <2>1, <2>2
<1>2. ChunkDocument(f) = FlattenSeq(seqs)
  BY DEF ChunkDocument
<1>3. \A s \in 1..L : s \in Nat /\ f.sections[s] \in Nat
  BY <1>1
<1>4. ASSUME NEW s \in 1..L, f.sections[s] # 0
      PROVE  /\ Parts(s) \in Seq(Nat \X Nat)
             /\ \A c \in 0..(f.sections[s] - 1) : \E k \in DOMAIN Parts(s) :
                  Parts(s)[k][1] =< c /\ c < Parts(s)[k][2]
  <2>1. f.sections[s] \in Nat \ {0}
    BY <1>3, <1>4
  <2> QED BY <2>1, PartsCover
<1> HIDE DEF Parts
<1>5. ASSUME NEW s \in 1..L PROVE Of(s) \in Seq(Chunk)
  <2>1. CASE f.sections[s] = 0
    BY <2>1
  <2>2. CASE f.sections[s] # 0
    <3>1. Parts(s) \in Seq(Nat \X Nat)
      BY <1>4, <2>2
    <3>2. DOMAIN Parts(s) = 1..Len(Parts(s)) /\ Len(Parts(s)) \in Nat
      BY <3>1
    <3>3. \A k \in 1..Len(Parts(s)) : Parts(s)[k][1] \in Nat /\ Parts(s)[k][2] \in Nat
      BY <3>1, <3>2
    <3>4. \A k \in 1..Len(Parts(s)) :
            [rev |-> f.rev, section |-> s, from |-> Parts(s)[k][1], to |-> Parts(s)[k][2]] \in Chunk
      BY <1>1, <1>3, <3>3 DEF Chunk
    <3>5. Of(s) \in [1..Len(Parts(s)) -> Chunk]
      BY <2>2, <3>2, <3>4
    <3> HIDE DEF Of
    <3> QED BY <3>2, <3>5
  <2> QED BY <2>1, <2>2
<1>6. /\ seqs \in Seq(Seq(Chunk)) /\ Len(seqs) = L
      /\ \A s \in 1..L : seqs[s] = Of(s)
  <2> HIDE DEF Of
  <2>1. seqs \in [1..L -> Seq(Chunk)]
    BY <1>1, <1>5
  <2>2. seqs \in Seq(Seq(Chunk))
    BY <1>1, <2>1
  <2>3. DOMAIN seqs = 1..L /\ DOMAIN seqs = 1..Len(seqs) /\ Len(seqs) \in Nat
    BY <2>1, <2>2
  <2>4. Len(seqs) = L
    BY <1>1, <2>3
  <2> QED BY <1>1, <2>2, <2>4
<1> HIDE DEF seqs
<1>7. /\ FlattenSeq(seqs) \in Seq(Chunk)
      /\ \A s \in 1..L : \A j \in DOMAIN seqs[s] :
           \E k \in DOMAIN FlattenSeq(seqs) : FlattenSeq(seqs)[k] = seqs[s][j]
  BY <1>6, FlattenHasAll
<1>8. ASSUME NEW s \in 1..L, NEW c \in 0..(f.sections[s] - 1)
      PROVE  \E k \in DOMAIN ChunkDocument(f) :
               /\ ChunkDocument(f)[k].rev = f.rev /\ ChunkDocument(f)[k].section = s
               /\ ChunkDocument(f)[k].from <= c /\ c < ChunkDocument(f)[k].to
  <2>1. f.sections[s] # 0
    BY <1>3
  <2>2. PICK j \in DOMAIN Parts(s) : Parts(s)[j][1] =< c /\ c < Parts(s)[j][2]
    BY <1>4, <2>1
  <2>3. j \in DOMAIN Of(s)
        /\ Of(s)[j] = [rev |-> f.rev, section |-> s, from |-> Parts(s)[j][1], to |-> Parts(s)[j][2]]
    BY <2>1
  <2> HIDE DEF Of
  <2>4. PICK k \in DOMAIN FlattenSeq(seqs) : FlattenSeq(seqs)[k] = Of(s)[j]
    BY <1>6, <1>7, <2>3
  <2> QED BY <1>2, <2>2, <2>3, <2>4
<1> QED BY <1>1, <1>2, <1>7, <1>8 DEF Covered

FileT ==
  /\ file \in Document /\ ingest \in Document /\ chunks \in Seq(Chunk)
  /\ ingested \in Nat /\ ingested =< file.rev /\ ingest.rev =< file.rev

\* A revision says which document it is.
RevisionsTell ==
  /\ file.rev = 0 => file = Unread
  /\ ingest.rev = file.rev => ingest = file

FileInv == FileT /\ RevisionsTell /\ FileIsCurrent

LEMMA FileCovered == FileIsCurrent <=> (ingested = file.rev => Covered(chunks, file))
  BY DEF FileIsCurrent, Covered

LEMMA UnreadDocument == Unread \in Document /\ Unread.rev = 0 /\ \A x : Covered(x, Unread)
  BY DEF Unread, Document, Covered

LEMMA NextFileInv ==
  ASSUME FileInv, [DocumentsNext]_documentVars
  PROVE  FileInv'
<1> USE DEF FileInv, FileT, RevisionsTell
<1>1. ASSUME UNCHANGED <<file, ingest, chunks, ingested>> PROVE FileInv'
  BY <1>1 DEF FileIsCurrent
<1>2. CASE IngestReads
  <2>1. ingest' = file /\ UNCHANGED <<file, chunks, ingested>>
    BY <1>2 DEF IngestReads
  <2>2. FileIsCurrent'
    BY <2>1 DEF FileIsCurrent
  <2>3. file.rev \in Nat
    BY DEF Document
  <2>4. ingest' \in Document /\ ingest'.rev =< file'.rev
        /\ (ingest'.rev = file'.rev => ingest' = file')
    BY <2>1, <2>3
  <2>5. FileT'
    BY <2>1, <2>4
  <2>6. RevisionsTell'
    BY <2>1, <2>4
  <2> QED BY <2>2, <2>5, <2>6
<1>3. CASE IngestUpserts
  <2> DEFINE new == ChunkDocument(ingest)
             old == SubSeq(chunks, Len(new) + 1, Len(chunks))
  <2>1. chunks' = new \o old /\ ingested' = ingest.rev /\ ingest' = Unread /\ file' = file
    BY <1>3 DEF IngestUpserts
  <2>2. new \in Seq(Chunk) /\ Covered(new, ingest)
    BY DocumentsAreCovered
  <2> HIDE DEF new
  <2>3. old \in Seq(Chunk)
    BY <2>2
  <2> HIDE DEF old
  <2>4. /\ chunks' \in Seq(Chunk) /\ DOMAIN new \subseteq DOMAIN chunks'
        /\ \A k \in DOMAIN new : chunks'[k] = new[k]
    <3>1. /\ new \o old \in Seq(Chunk) /\ Len(new \o old) = Len(new) + Len(old)
          /\ \A i \in 1..(Len(new) + Len(old)) :
               (new \o old)[i] = IF i =< Len(new) THEN new[i] ELSE old[i - Len(new)]
      BY <2>2, <2>3, ConcatProperties
    <3>2. /\ DOMAIN new = 1..Len(new) /\ Len(new) \in Nat /\ Len(old) \in Nat
          /\ DOMAIN (new \o old) = 1..(Len(new) + Len(old))
      BY <2>2, <2>3, <3>1
    <3>3. DOMAIN new \subseteq DOMAIN (new \o old)
      BY <3>2
    <3>4. \A k \in DOMAIN new : (new \o old)[k] = new[k]
      BY <3>1, <3>2
    <3> QED BY <2>1, <3>1, <3>3, <3>4
  <2>5. Covered(chunks', ingest)
    <3> SUFFICES ASSUME NEW s \in DOMAIN ingest.sections, NEW c \in 0..(ingest.sections[s] - 1)
                 PROVE  \E k \in DOMAIN chunks' :
                          /\ chunks'[k].rev = ingest.rev /\ chunks'[k].section = s
                          /\ chunks'[k].from <= c /\ c < chunks'[k].to
      BY DEF Covered
    <3>1. PICK k \in DOMAIN new : /\ new[k].rev = ingest.rev /\ new[k].section = s
                                  /\ new[k].from <= c /\ c < new[k].to
      BY <2>2 DEF Covered
    <3>2. k \in DOMAIN chunks' /\ chunks'[k] = new[k]
      BY <2>4
    <3> QED BY <3>1, <3>2
  <2>6. ingested' = file'.rev => Covered(chunks', file')
    BY <2>1, <2>5
  <2>7. FileIsCurrent'
    BY <2>6 DEF FileIsCurrent, Covered
  <2>8. ingest'.rev =< file'.rev /\ (ingest'.rev = file'.rev => ingest' = file')
    BY <2>1, UnreadDocument DEF Document
  <2>9. ingested' \in Nat /\ ingested' =< file'.rev
    BY <2>1 DEF Document
  <2> QED BY <2>1, <2>4, <2>7, <2>8, <2>9, UnreadDocument
<1>4. CASE IngestFails
  <2>1. ingest' = Unread /\ UNCHANGED <<file, chunks, ingested>>
    BY <1>4 DEF IngestFails
  <2>2. FileIsCurrent'
    BY <2>1 DEF FileIsCurrent
  <2>3. ingest'.rev =< file'.rev /\ (ingest'.rev = file'.rev => ingest' = file')
    BY <2>1, UnreadDocument DEF Document
  <2> QED BY <2>1, <2>2, <2>3, UnreadDocument
<1>5. ASSUME NEW d, RecreateDeletes(d) PROVE FileInv'
  <2>1. chunks' = << >> /\ ingested' = 0 /\ UNCHANGED <<file, ingest>>
    BY <1>5 DEF RecreateDeletes
  <2>2. ingested' = file'.rev => Covered(chunks', file')
    BY <2>1, UnreadDocument
  <2>3. FileIsCurrent'
    BY <2>2 DEF FileIsCurrent, Covered
  <2>4. ingested' \in Nat /\ ingested' =< file'.rev /\ chunks' \in Seq(Chunk)
    BY <2>1 DEF Document
  <2> QED BY <2>1, <2>3, <2>4
<1>6. ASSUME NEW s \in Corpus, EditFile(s) PROVE FileInv'
  <2>1. file' = [rev |-> file.rev + 1, sections |-> s] /\ UNCHANGED <<ingest, chunks, ingested>>
    BY <1>6 DEF EditFile
  <2>2. file.rev \in Nat /\ ingest.rev \in Nat
    BY DEF Document
  <2>3. file' \in Document /\ file'.rev = file.rev + 1
    BY <2>1, <2>2 DEF Document
  <2>4. ingested' # file'.rev /\ ingested' =< file'.rev /\ ingest'.rev =< file'.rev
        /\ ingest'.rev # file'.rev /\ file'.rev # 0
    BY <2>1, <2>2, <2>3
  <2>5. FileIsCurrent'
    BY <2>4 DEF FileIsCurrent
  <2> QED BY <2>1, <2>3, <2>4, <2>5
<1>7. CASE \/ EditingNext /\ UNCHANGED index
           \/ ConsumerSteps \/ ComesToNothing \/ ConsumerDies \/ ConsumerRestarts
           \/ RecreateCreates \/ SwitchModel
           \/ \E e \in Ids : Resend(e)
           \/ UNCHANGED documentVars
  <2>1. UNCHANGED <<file, ingest, chunks, ingested>>
    BY <1>7 DEF index, ConsumerSteps, Take, Fetched, Upsert, Mismatch, ComesToNothing,
                ConsumerDies, ConsumerRestarts, RecreateCreates, SwitchModel, Resend, documentVars
  <2> QED BY <1>1, <2>1
<1> QED
  BY <1>2, <1>3, <1>4, <1>5, <1>6, <1>7 DEF DocumentsNext, IndexNext

LEMMA FileInvHolds == DocumentsSpec => []FileInv
<1>1. DocumentsInit => FileInv
  <2> SUFFICES ASSUME DocumentsInit PROVE FileInv
    OBVIOUS
  <2>1. file = Unread /\ ingest = Unread /\ chunks = << >> /\ ingested = 0
    BY DEF DocumentsInit, IndexInit
  <2>2. FileIsCurrent
    BY <2>1, UnreadDocument, FileCovered
  <2> QED BY <2>1, <2>2, UnreadDocument DEF FileInv, FileT, RevisionsTell
<1>2. FileInv /\ [DocumentsNext]_documentVars => FileInv'
  BY NextFileInv
<1> QED
  BY <1>1, <1>2, PTL DEF DocumentsSpec

(* What the variables of the editor, of the queue and of the index hold. *)
THEOREM DocumentsTypeCorrect == DocumentsSpec => []DocumentsTypeOK
<1>1. EditInv => EditingTypeOK
  <2> SUFFICES ASSUME EditInv PROVE EditingTypeOK
    OBVIOUS
  <2>1. \A e \in Ids : acked[e] \in 0..rev[e]
    BY DEF EditInv, EditT, ServerT, AckedT, AckedRight
  <2>2. \A e \in Ids : fieldRev[e] \in [Fields -> 1..rev[e]]
    BY DEF EditInv, EditT, ServerT
  <2>3. \A p \in puts : p.at \in {"sent", "ok", "failed"} /\ p.body \in Body
    BY DEF EditInv, EditT, PutsT, SaveRequest
  <2>4. /\ editor.body \in Body /\ editor.seed \in Nat /\ editor.touched \subseteq Fields
        /\ editor.mode \in {"form", "yaml"} /\ editor.parseError \in BOOLEAN
        /\ editor.text \in {"draft", "bad", "null"}
    BY DEF EditInv, EditT, EditorT, Draft
  <2> QED
    BY <2>1, <2>2, <2>3, <2>4 DEF EditingTypeOK, EditInv, EditT, ServerT, QueueT, PageT, CacheT
<1>2. EntitiesInv /\ FileInv /\ EditingTypeOK => DocumentsTypeOK
  BY DEF EntitiesInv, EntitiesT, Consumer, FileInv, FileT, Document, DocumentsTypeOK
<1> QED
  BY <1>1, <1>2, EditInvHolds, EntitiesInvHolds, FileInvHolds, PTL

(* For all entities, files and bounds: the point of an entity has its text, unless its event
   is on its way, came to nothing or was never sent; and the chunks of a file, split at
   any positive length and with any overlap, cover all of it once it is ingested
   (kb_ingest: pmdf_indexer.py, chunking.py, qdrant_store.py). *)
THEOREM IndexStaysCurrent == DocumentsSpec => []IndexIsCurrent
<1>1. EntitiesInv /\ FileInv => IndexIsCurrent
  BY DEF EntitiesInv, FileInv, IndexIsCurrent
<1> QED
  BY <1>1, EntitiesInvHolds, FileInvHolds, PTL
=============================================================================
