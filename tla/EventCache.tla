----------------------------- MODULE EventCache -----------------------------
(***************************************************************************)
(* One event of the catalogue, in the ticket service's database and in     *)
(* three kinds of Redis keys in front of it: by id, by slug and in the     *)
(* published list.  A visitor that misses a key reads the database and     *)
(* then sets the key; whoever changes the event writes the database and    *)
(* then deletes the keys, one after the other.  An edit starts from the    *)
(* cached copy and writes the whole row back.  Redis errors are ignored.   *)
(*                                                                         *)
(* Cancelled and completed events are like drafts here: not listed.  The   *)
(* look-up of a new slug among those taken fills keys like any visitor's.  *)
(* The fourth kind of key, of lists by status (event:list:all), which is   *)
(* set and deleted like that of the published list, is left out.           *)
(***************************************************************************)
EXTENDS Integers

CONSTANTS Slug, Visit   \* Visit: requests that are served at once

VARIABLES
  event,     \* the row
  asked,     \* what the edits have made of the event, each on top of the others
  detailKey, \* event:detail:{id}
  slugKey,   \* event:slug:{slug}
  listKey,   \* event:list:published
  visit,     \* what each request is doing
  doubtful   \* edits overlapped, a key was set behind the row, or was not deleted

cacheVars == <<event, asked, detailKey, slugKey, listKey, visit, doubtful>>

CatalogEvent == [slug : Slug, status : {"draft", "published", "deleted"}]
NoEvent == [status |-> "none"]
NoCopy == [status |-> "absent"]
NoList == {NoCopy}
Live(e) == e.status \in {"draft", "published"}
Listed(e) == IF e.status = "published" THEN {e} ELSE {}
Away == [at |-> "away"]
VisitStage == {"fill list", "fill slug", "fill detail", "edit", "remove", "drop detail", "drop slug", "drop list"}

EventCacheTypeOK ==
  /\ event \in CatalogEvent \union {NoEvent} /\ asked \in CatalogEvent \union {NoEvent}
  /\ detailKey \in CatalogEvent \union {NoCopy}
  /\ \A s \in Slug : slugKey[s] = NoCopy \/ slugKey[s].slug = s
  /\ listKey = NoList \/ \A e \in listKey : e.status = "published"
  /\ visit \in [Visit -> [at : VisitStage, copy : CatalogEvent \union {NoEvent}, edits : BOOLEAN] \union {Away}]
  /\ doubtful \in BOOLEAN

EventCacheInit ==
  /\ event = NoEvent /\ asked = NoEvent
  /\ detailKey = NoCopy
  /\ slugKey = [s \in Slug |-> NoCopy]
  /\ listKey = NoList
  /\ visit = [v \in Visit |-> Away]
  /\ doubtful = FALSE

Is(v, at) == visit[v] # Away /\ visit[v].at = at
Goes(v, at) == visit' = [visit EXCEPT ![v].at = at]
Editing == {v \in Visit : visit[v] # Away /\ visit[v].edits}

\* Nothing is said once it is doubtful, so no request begins then.
Begin(v, at, copy, edits) ==
  /\ visit[v] = Away /\ ~doubtful
  /\ visit' = [visit EXCEPT ![v] = [at |-> at, copy |-> copy, edits |-> edits]]
  /\ doubtful' = (edits /\ Editing # {})
  /\ UNCHANGED <<event, asked, detailKey, slugKey, listKey>>

(***************************************************************************)
(* Reading: the visitor may have missed the key long before it reads.      *)
(***************************************************************************)
MissByID(v, edits) == Live(event) /\ Begin(v, "fill detail", event, edits)
MissBySlug(v) == Live(event) /\ Begin(v, "fill slug", event, FALSE)
MissList(v) == Begin(v, "fill list", event, FALSE)
\* An edit finds the event under its id.
HitToEdit(v) == detailKey # NoCopy /\ Begin(v, "edit", detailKey, TRUE)

FillDetail(v) ==
  /\ Is(v, "fill detail")
  /\ detailKey' = visit[v].copy
  /\ doubtful' = (doubtful \/ visit[v].copy # event)
  /\ visit' = IF visit[v].edits THEN [visit EXCEPT ![v].at = "edit"] ELSE [visit EXCEPT ![v] = Away]
  /\ UNCHANGED <<event, asked, slugKey, listKey>>

FillSlug(v) ==
  /\ Is(v, "fill slug")
  /\ slugKey' = [slugKey EXCEPT ![visit[v].copy.slug] = visit[v].copy]
  /\ doubtful' = (doubtful \/ visit[v].copy # event)
  /\ Goes(v, "fill detail")
  /\ UNCHANGED <<event, asked, detailKey, listKey>>

FillList(v) ==
  /\ Is(v, "fill list")
  /\ listKey' = Listed(visit[v].copy)
  /\ doubtful' = (doubtful \/ Listed(visit[v].copy) # Listed(event))
  /\ visit' = [visit EXCEPT ![v] = Away]
  /\ UNCHANGED <<event, asked, detailKey, slugKey>>

(***************************************************************************)
(* Changing                                                                *)
(***************************************************************************)
CreateEvent(v, s) ==
  /\ visit[v] = Away /\ event = NoEvent
  /\ event' = [slug |-> s, status |-> "draft"]
  /\ asked' = event'
  /\ visit' = [visit EXCEPT ![v] = [at |-> "drop list", copy |-> event', edits |-> TRUE]]
  /\ UNCHANGED <<detailKey, slugKey, listKey, doubtful>>

\* A new name brings a new slug; publishing is a change of the status.
Edited(e, field, value) == [e EXCEPT ![field] = value]
\* The whole row is written, unless it was deleted.
WriteRow(e) == Live(event) /\ event' = e

UpdateEvent(v) ==
  /\ Is(v, "edit")
  /\ \E field \in {"slug", "status"} :
       \E value \in IF field = "slug" THEN Slug ELSE {"draft", "published"} :
         /\ WriteRow(Edited(visit[v].copy, field, value))
         /\ asked' = Edited(asked, field, value)
  /\ visit' = [visit EXCEPT ![v].at = "drop detail", ![v].copy = event']
  /\ UNCHANGED <<detailKey, slugKey, listKey, doubtful>>

\* Delete asks the database for the slug whose key it will delete.
FindToDelete(v) ==
  /\ Is(v, "edit") /\ Live(event)
  /\ visit' = [visit EXCEPT ![v].at = "remove", ![v].copy = event]
  /\ UNCHANGED <<event, asked, detailKey, slugKey, listKey, doubtful>>

DeleteEvent(v) ==
  /\ Is(v, "remove")
  /\ WriteRow(Edited(event, "status", "deleted"))
  /\ asked' = Edited(asked, "status", "deleted")
  /\ Goes(v, "drop detail")
  /\ UNCHANGED <<detailKey, slugKey, listKey, doubtful>>

\* Mutant: the key of the old copy's id stays.
DropDetailNever(v) ==
  /\ Is(v, "drop detail")
  /\ Goes(v, "drop slug")
  /\ UNCHANGED <<event, asked, detailKey, slugKey, listKey, doubtful>>

DropDetail(v) ==
  /\ Is(v, "drop detail")
  /\ \/ detailKey' = NoCopy /\ UNCHANGED doubtful
     \/ doubtful' = TRUE /\ UNCHANGED detailKey
  /\ Goes(v, "drop slug")
  /\ UNCHANGED <<event, asked, slugKey, listKey>>

\* The slug the event has now; a slug it had before keeps its key.
DropSlug(v) ==
  /\ Is(v, "drop slug")
  /\ \/ slugKey' = [slugKey EXCEPT ![visit[v].copy.slug] = NoCopy] /\ UNCHANGED doubtful
     \/ doubtful' = TRUE /\ UNCHANGED slugKey
  /\ Goes(v, "drop list")
  /\ UNCHANGED <<event, asked, detailKey, listKey>>

DropList(v) ==
  /\ Is(v, "drop list")
  /\ \/ listKey' = NoList /\ UNCHANGED doubtful
     \/ doubtful' = TRUE /\ UNCHANGED listKey
  /\ visit' = [visit EXCEPT ![v] = Away]
  /\ UNCHANGED <<event, asked, detailKey, slugKey>>

\* A request ends early: refused, failed or cut off.
VisitEnds(v) ==
  /\ visit[v] # Away
  /\ doubtful' = (doubtful \/ visit[v].at \in {"drop detail", "drop slug", "drop list"})
  /\ visit' = [visit EXCEPT ![v] = Away]
  /\ UNCHANGED <<event, asked, detailKey, slugKey, listKey>>

KeyExpires ==
  /\ \/ detailKey' = NoCopy /\ UNCHANGED <<slugKey, listKey>>
     \/ \E s \in Slug : slugKey' = [slugKey EXCEPT ![s] = NoCopy] /\ UNCHANGED <<detailKey, listKey>>
     \/ listKey' = NoList /\ UNCHANGED <<detailKey, slugKey>>
  /\ UNCHANGED <<event, asked, visit, doubtful>>

EventCacheNext ==
  \/ \E v \in Visit :
       \/ MissByID(v, TRUE) \/ MissByID(v, FALSE) \/ MissBySlug(v) \/ MissList(v) \/ HitToEdit(v)
       \/ FillDetail(v) \/ FillSlug(v) \/ FillList(v)
       \/ \E s \in Slug : CreateEvent(v, s)
       \/ UpdateEvent(v) \/ FindToDelete(v) \/ DeleteEvent(v)
       \/ DropDetail(v) \/ DropSlug(v) \/ DropList(v) \/ VisitEnds(v)
  \/ KeyExpires

EventCacheSpec == EventCacheInit /\ [][EventCacheNext]_cacheVars

(***************************************************************************)
(* Properties                                                              *)
(***************************************************************************)
Dropping(stages) == \E v \in Visit : visit[v] # Away /\ visit[v].at \in stages

\* Although an edit starts from a cached copy, the row is what the edits made of
\* it, none undone by a later one, and what a key holds is the row, but for a key
\* about to be deleted and for the slugs the event had before: unless two edits
\* overlapped, a visitor set a key after the row had changed, or a key could not be
\* deleted.
CatalogueFollowsEdits ==
  ~doubtful =>
    /\ event = asked
    /\ detailKey \in {NoCopy, event} \/ Dropping({"drop detail"})
    /\ \A s \in Slug :
         slugKey[s] \in {NoCopy, event} \/ event.slug # s \/ Dropping({"drop detail", "drop slug"})
    /\ listKey \in {NoList, Listed(event)} \/ Dropping({"drop detail", "drop slug", "drop list"})
=============================================================================
