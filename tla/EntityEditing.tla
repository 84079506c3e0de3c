---------------------------- MODULE EntityEditing ----------------------------
(***************************************************************************)
(* One browser tab that views and edits PMDF entities (DocumentViewer.tsx, *)
(* EntityEditor.tsx, YamlJsonEditor.tsx), its query cache, the handlers of *)
(* GET and PUT /pmdf/{kind}/{id} (routers/pmdf.py), and other writers.     *)
(*                                                                         *)
(* An entity is a record of fields; a copy also carries the revision it    *)
(* was read at, which the program does not have.  The cache is that of     *)
(* @tanstack/react-query with the defaults of main.tsx: one fetch at a     *)
(* time per key, a fetch whenever a page mounts, none when the window gets *)
(* the focus, and an invalidation that cancels and repeats the fetch of a  *)
(* key some page shows, and only of such a key.                            *)
(***************************************************************************)
EXTENDS Naturals, Sequences, FiniteSets

CONSTANTS
  Ids,       \* entities
  Fields,    \* fields of an entity
  MaxInputs  \* bound: what users, operators and failures do, taken together

ASSUME IdsAssumption == Ids # {}
ASSUME BoundsAssumption == MaxInputs \in Nat

VARIABLES
  stored, rev, \* the API server: entities, and how often each was written
  events,      \* the queue of a subscriber of pmdf.entity_changed
  silent,      \* entities whose last write was not announced
  page,        \* the page that is open, its entity, and the number of the visit
  cache,       \* the copy of an entity in the query cache
  fetch,       \* the fetch of an entity: idle, asked, or the copy on its way back
  broken,      \* entities whose last fetch failed
  editor,      \* the component EntityEditor: draft, mode, parseError, the text shown
  puts,        \* saves that are not over, with the visit that made them
  inputs,      \* counter for the bound
  fieldRev,    \* (history) the revision in which a field was last changed
  acked        \* (history) the revision of the last save that succeeded in view

server == <<stored, rev, events, silent, fieldRev>>
client == <<page, cache, fetch, broken, editor, acked>>
editing == <<server, client, puts, inputs>>

AnyId == CHOOSE e \in Ids : TRUE
Blank == [f \in Fields |-> 0]
NoCopy == [rev |-> 0, body |-> Blank]
NoFetch == [at |-> "idle", copy |-> NoCopy]
Asked == [at |-> "asked", copy |-> NoCopy]
\* draft === null: the copy it stems from has no revision.
NoDraft == [body |-> Blank, mode |-> "form", parseError |-> FALSE, text |-> "draft",
            origin |-> AnyId, seed |-> 0, touched |-> {}]

EditingInit ==
  /\ stored = [e \in Ids |-> [f \in Fields |-> 1]]
  /\ rev = [e \in Ids |-> 1]
  /\ events = <<>> /\ silent = {}
  /\ page = [at |-> "other", id |-> AnyId, visit |-> 0]
  /\ cache = [e \in Ids |-> NoCopy]
  /\ fetch = [e \in Ids |-> NoFetch]
  /\ broken = {}
  /\ editor = NoDraft
  /\ puts = {}
  /\ inputs = 0
  /\ fieldRev = [e \in Ids |-> [f \in Fields |-> 1]]
  /\ acked = [e \in Ids |-> 0]

-----------------------------------------------------------------------------
(* The API server.                                                         *)

\* body is committed as the entity e.
Commit(e, body) ==
  /\ stored' = [stored EXCEPT ![e] = body]
  /\ rev' = [rev EXCEPT ![e] = @ + 1]
  /\ fieldRev' = [fieldRev EXCEPT ![e] =
       [f \in Fields |-> IF body[f] = stored[e][f] THEN @[f] ELSE rev[e] + 1]]

(* _publish_entity_changed *)
Announce(e) == events' = Append(events, e) /\ silent' = silent \ {e}

\* The write is on disk and the handler fails after it, at the audit record.
Unannounced(e) == events' = events /\ silent' = silent \cup {e}

\* What a field holds; 0 is nothing.
Values == 0..2

\* One more of the things that the bound counts.
AnInput == inputs < MaxInputs /\ inputs' = inputs + 1

(* Another user or an agent writes one field of an entity. *)
OtherWrite(e, f, v) ==
  /\ AnInput /\ v # stored[e][f]
  /\ Commit(e, [stored[e] EXCEPT ![f] = v]) /\ Announce(e)
  /\ UNCHANGED <<client, puts>>

\* The answer to a save is on its way.
Answered(p, ok, at) == puts' = (puts \ {p}) \cup {[p EXCEPT !.at = IF ok THEN "ok" ELSE "failed",
                                                           !.rev = at]}

(* update_entity: the draft replaces the entity, whatever it has become since; id
   and kind are those of the path. *)
PutServed(p) ==
  /\ p.at = "sent"
  /\ Commit(p.id, p.body) /\ Announce(p.id)
  /\ Answered(p, TRUE, rev[p.id] + 1)
  /\ UNCHANGED <<client, inputs>>

(* It is refused (404, 422, 500 before the commit), fails after the commit, or its
   answer is lost. *)
PutFails(p) ==
  /\ p.at = "sent" /\ AnInput
  /\ \/ UNCHANGED server
     \/ Commit(p.id, p.body) /\ (Announce(p.id) \/ Unannounced(p.id))
  /\ Answered(p, FALSE, 0)
  /\ UNCHANGED client

-----------------------------------------------------------------------------
(* The query cache.                                                        *)

\* Some page shows the entity.
Shows(e) == page.at # "other" /\ page.id = e

(* get_entity answers a fetch. *)
FetchServed(e) ==
  /\ fetch[e].at = "asked"
  /\ fetch' = [fetch EXCEPT ![e] =
       [at |-> "answered", copy |-> [rev |-> rev[e], body |-> stored[e]]]]
  /\ UNCHANGED <<server, page, cache, broken, editor, acked, puts, inputs>>

\* An editor without draft takes the copy as its draft, and only then.
Seeded(e, copy) ==
  IF page.at = "editor" /\ page.id = e /\ editor.seed = 0
  THEN [editor EXCEPT !.body = copy.body, !.origin = e, !.seed = copy.rev, !.touched = {}]
  ELSE editor

(* The copy arrives, is cached and shown. *)
FetchArrives(e) ==
  /\ fetch[e].at = "answered"
  /\ cache' = [cache EXCEPT ![e] = fetch[e].copy]
  /\ broken' = broken \ {e}
  /\ fetch' = [fetch EXCEPT ![e] = NoFetch]
  /\ editor' = Seeded(e, fetch[e].copy)
  /\ UNCHANGED <<server, page, acked, puts, inputs>>

(* The fetch and its one retry fail. *)
FetchFails(e) ==
  /\ fetch[e] # NoFetch /\ AnInput
  /\ fetch' = [fetch EXCEPT ![e] = NoFetch]
  /\ broken' = broken \cup {e}
  /\ UNCHANGED <<server, page, cache, editor, acked, puts>>

\* A page that mounts fetches its entity, unless a fetch is under way.
FetchOnMount(e) == fetch' = [fetch EXCEPT ![e] = IF @ = NoFetch THEN Asked ELSE @]

-----------------------------------------------------------------------------
(* The pages.                                                              *)

\* Saves of the editor of this visit.
OfVisit == {p \in puts : p.visit = page.visit}

(* Another page is opened; the editor's state goes with the old one. *)
Open(at, e) ==
  /\ AnInput
  /\ page' = [at |-> at, id |-> e, visit |-> page.visit + 1]
  /\ IF at = "other" THEN fetch' = fetch ELSE FetchOnMount(e)
  /\ editor' = IF at = "editor" /\ cache[e] # NoCopy
               THEN [NoDraft EXCEPT !.body = cache[e].body, !.origin = e, !.seed = cache[e].rev]
               ELSE NoDraft
  /\ UNCHANGED <<server, cache, broken, acked, puts>>

(* The history leads from /edit/../a directly to /edit/../b: the component stays,
   and so does its draft. *)
Jump(e) ==
  /\ page.at = "editor" /\ page.id # e /\ AnInput
  /\ page' = [page EXCEPT !.id = e]
  /\ FetchOnMount(e)
  /\ editor' = IF editor.seed = 0 /\ cache[e] # NoCopy
               THEN [editor EXCEPT !.body = cache[e].body, !.origin = e, !.seed = cache[e].rev]
               ELSE editor
  /\ puts' = {IF p.visit = page.visit THEN [p EXCEPT !.key = e] ELSE p : p \in puts}
  /\ UNCHANGED <<server, cache, broken, acked>>

(* The editor shows its form: a draft, no first load and no error. *)
Editable ==
  /\ page.at = "editor" /\ editor.seed > 0
  /\ page.id \notin broken /\ (cache[page.id] = NoCopy => fetch[page.id] = NoFetch)

(* The toggle; the text is laid out anew when the text editor mounts. *)
SetMode(mode) ==
  /\ Editable /\ mode # editor.mode /\ AnInput
  /\ editor' = [editor EXCEPT !.mode = mode, !.text = "draft"]
  /\ UNCHANGED <<server, page, cache, fetch, broken, acked, puts>>

\* The user has changed a field of the draft.
Typed(f, v) ==
  editor' = [editor EXCEPT !.body[f] = v, !.touched = @ \cup {f}, !.text = "draft",
                               !.parseError = (editor.mode = "form" /\ @)]

\* Mutant: the form hands on the changed field only.
TypeAlone(f, v) ==
  /\ Editable /\ AnInput
  /\ editor' = [editor EXCEPT !.body = [g \in Fields |-> IF g = f THEN v ELSE 0],
                              !.touched = @ \cup {f}]
  /\ UNCHANGED <<server, page, cache, fetch, broken, acked, puts>>

(* updateField of the form, or text that parses. *)
Type(f, v) ==
  /\ Editable /\ AnInput /\ v # editor.body[f] /\ Typed(f, v)
  /\ UNCHANGED <<server, page, cache, fetch, broken, acked, puts>>

(* Text that does not parse, or parses to null: the draft stays as it was. *)
TypeText(text) ==
  /\ Editable /\ editor.mode = "yaml" /\ editor.text # text /\ AnInput
  /\ editor' = [editor EXCEPT !.text = text, !.parseError = (text = "bad")]
  /\ UNCHANGED <<server, page, cache, fetch, broken, acked, puts>>

(* handleSave: the whole draft is sent, for the entity of the page. *)
SaveDraft ==
  /\ Editable /\ AnInput
  /\ editor.mode = "form" \/ ~ editor.parseError
  /\ OfVisit = {}
  /\ puts' = puts \cup {[at |-> "sent", id |-> page.id, body |-> editor.body, rev |-> 0,
                         visit |-> page.visit, key |-> page.id, origin |-> editor.origin,
                         seed |-> editor.seed, touched |-> editor.touched]}
  /\ UNCHANGED <<server, client>>

\* Mutant: the fetch under way is left to finish.
InvalidateLazily(e) == fetch' = IF Shows(e) THEN [fetch EXCEPT ![e] = IF @ = NoFetch THEN Asked ELSE @]
                                ELSE fetch

(* invalidateQueries: the fetch of a key in view starts again. *)
Invalidate(e) == fetch' = IF Shows(e) THEN [fetch EXCEPT ![e] = Asked] ELSE fetch

\* The draft is what the server has stored, whatever was typed since the click.
AcceptedDraft(p) ==
  IF page.at = "editor" /\ p.visit = page.visit
  THEN [editor EXCEPT !.body = p.body, !.origin = p.id, !.seed = p.rev, !.touched = {},
                      !.text = "draft"]
  ELSE editor

(* onSuccess, which runs even if its component is gone, with the key of the last
   entity that it showed. *)
SaveSucceeds(p) ==
  /\ p.at = "ok"
  /\ puts' = puts \ {p}
  /\ editor' = AcceptedDraft(p)
  /\ Invalidate(p.key)
  /\ acked' = IF Shows(p.key) /\ p.key = p.id THEN [acked EXCEPT ![p.id] = p.rev] ELSE acked
  /\ UNCHANGED <<server, page, cache, broken, inputs>>

(* The error is shown; the draft stays. *)
SaveFailed(p) ==
  /\ p.at = "failed"
  /\ puts' = puts \ {p}
  /\ UNCHANGED <<server, client, inputs>>

-----------------------------------------------------------------------------
EditingNext ==
  \/ \E e \in Ids, f \in Fields : \E v \in Values : OtherWrite(e, f, v)
  \/ \E p \in puts : PutServed(p) \/ PutFails(p) \/ SaveSucceeds(p) \/ SaveFailed(p)
  \/ \E e \in Ids : FetchServed(e) \/ FetchArrives(e) \/ FetchFails(e) \/ Jump(e)
  \/ \E at \in {"viewer", "editor", "other"}, e \in Ids : Open(at, e)
  \/ \E mode \in {"form", "yaml"} : SetMode(mode)
  \/ \E f \in Fields : \E v \in Values : Type(f, v)
  \/ \E text \in {"bad", "null"} : TypeText(text)
  \/ SaveDraft

-----------------------------------------------------------------------------
Body == [Fields -> Values]
Copy == [rev : Nat, body : Body]

(* What each variable holds. *)
EditingTypeOK ==
  /\ stored \in [Ids -> Body] /\ rev \in [Ids -> Nat \ {0}]
  /\ events \in Seq(Ids) /\ silent \subseteq Ids
  /\ page.at \in {"viewer", "editor", "other"} /\ page.id \in Ids /\ page.visit \in Nat
  /\ \A e \in Ids : /\ cache[e] \in Copy
                    /\ fetch[e] \in [at : {"idle", "asked", "answered"}, copy : Copy]
                    /\ fieldRev[e] \in [Fields -> 1..rev[e]] /\ acked[e] \in 0..rev[e]
  /\ broken \subseteq Ids
  /\ editor.body \in Body /\ editor.seed \in Nat /\ editor.touched \subseteq Fields
  /\ editor.mode \in {"form", "yaml"} /\ editor.parseError \in BOOLEAN
  /\ editor.text \in {"draft", "bad", "null"}
  /\ \A p \in puts : p.at \in {"sent", "ok", "failed"} /\ p.body \in Body

(* A user reads his own writes: once a save has succeeded while a page shows its
   entity, and the fetch this leads to is over, the cache is never older than what
   was saved, whatever fetches were under way at the time. *)
ReadYourWrites ==
  \A e \in Ids : Shows(e) /\ fetch[e] = NoFetch /\ e \notin broken => cache[e].rev >= acked[e]

(* A save overwrites more than its user has edited only with what he could not know:
   a field that he did not touch goes back to an older value only if somebody else
   has changed it since the copy behind the draft was read - or if the draft is that
   of another entity, after a jump in the history. *)
LostOnlyUnseen ==
  [][\A p \in puts : PutServed(p) =>
       \A f \in Fields : stored'[p.id][f] # stored[p.id][f] =>
         f \in p.touched \/ fieldRev[p.id][f] > p.seed \/ p.origin # p.id]_editing
=============================================================================
