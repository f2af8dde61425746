------------------------------ MODULE AdminSkins ------------------------------
(***************************************************************************)
(* The skin pages of the admin console and the part of the admin API behind *)
(* them.  A skin is drafted, an image is uploaded for it, the upload is     *)
(* published as a revision, and the skin is enabled; the create page does   *)
(* all that in a row, the detail page one step at a time.  The detail page  *)
(* stays mounted when the skin in its address changes: it keeps showing the *)
(* last skin, its preview and its call under way until the next one loads.  *)
(* "Enabled" stands for enabled or visible in the catalog, which the code   *)
(* treats alike; of the unlock rules only matters whether they were edited. *)
(***************************************************************************)
EXTENDS Naturals

CONSTANTS Skins,        \* ids of skins
          Images        \* keys of uploaded images

ASSUME SkinsAssumption == 1 \in Skins /\ 0 \notin Skins \cup Images

VARIABLES skins,        \* rows of skins, with their rules and grants
          images,       \* uploads issued and revisions published, by asset key
          page,         \* the detail page, or the create page
          load,         \* the latest GET of the skin in the address
          call          \* the mutation under way, of either page

skinsVars == <<skins, images, page, load, call>>

Nobody == 0
Draft  == [exists |-> TRUE, enabled |-> FALSE, asset |-> Nobody, granted |-> FALSE]
Absent == [Draft EXCEPT !.exists = FALSE]

Current(s)   == skins[s].asset # Nobody /\ images[skins[s].asset].st = "on"
Revisions(s) == {k \in Images : images[k] = [skin |-> s, st |-> "on"]}
Stored(s)    == [id |-> s, enabled |-> skins[s].enabled, locked |-> skins[s].granted,
                 on |-> Revisions(s)]
NoSkin       == [id |-> Nobody, enabled |-> FALSE, locked |-> FALSE, on |-> {}]
IdleCall     == [st |-> "idle", kind |-> "none", here |-> FALSE, id |-> Nobody, image |-> Nobody,
                 enabled |-> FALSE, rules |-> FALSE, locked |-> FALSE, on |-> {}]
Gone         == [skin |-> Nobody, st |-> "gone"]
IdleLoad     == [st |-> "idle", shown |-> NoSkin]

-----------------------------------------------------------------------------
(* The admin API: each handler changes the rows, or refuses and leaves them.*)

\* The answer to a handler that did its work may be lost on its way: to the
\* page that is a failure like any other.
Refused == call' = [IdleCall EXCEPT !.st = "failed", !.here = call.here]
Refuse  == Refused /\ UNCHANGED <<skins, images>>
Answer(c) == call' = [c EXCEPT !.st = "done"] \/ Refused

CreateSkin ==
  \/ \E s \in Skins :
       /\ ~skins[s].exists
       /\ skins' = [skins EXCEPT ![s] = Draft]
       /\ Answer([call EXCEPT !.id = s]) /\ UNCHANGED images
  \/ Refuse

UploadSkinAsset ==
  \/ \E k \in Images :
       /\ images[k].st = "none" /\ \A j \in Images : images[j].st = "none" => k <= j
       /\ images' = [images EXCEPT ![k] = [skin |-> call.id, st |-> "issued"]]
       /\ Answer([call EXCEPT !.image = k]) /\ UNCHANGED skins
  \/ Refuse

\* Mutant: any upload that was issued will do.
PublishAnyUpload ==
  LET k == call.image
      s == call.id
  IN IF images[k].st # "issued" THEN Refuse
     ELSE /\ images' = [images EXCEPT ![k].st = "on"]
          /\ skins' = [skins EXCEPT ![s].asset = k]
          /\ Answer(call)

\* An upload is published once, for the skin it was issued for.  It is used up
\* before the stored object is looked at.
PublishSkinRevision ==
  LET k == call.image
      s == call.id
  IN IF images[k] # [skin |-> s, st |-> "issued"] THEN Refuse
     ELSE \/ /\ images' = [images EXCEPT ![k].st = "on"]
             /\ skins' = [skins EXCEPT ![s].asset = k]
             /\ Answer(call)
          \/ /\ images' = [images EXCEPT ![k] = Gone]
             /\ Refused /\ UNCHANGED skins

UpdateSkin ==
  IF (call.enabled /\ ~Current(call.id)) \/ (skins[call.id].granted /\ call.rules) THEN Refuse
  ELSE \E granted \in IF call.enabled /\ (~skins[call.id].enabled \/ call.rules)
                      THEN {skins[call.id].granted, TRUE} ELSE {skins[call.id].granted} :
         /\ skins' = [skins EXCEPT ![call.id].enabled = call.enabled, ![call.id].granted = granted]
         /\ Answer([call EXCEPT !.locked = granted]) /\ UNCHANGED images

\* Mutant: the skin stays enabled without its image.
DisableImageOnly ==
  LET k == call.image
      s == call.id
  IN IF images[k] # [skin |-> s, st |-> "on"] THEN Refuse
     ELSE /\ images' = [images EXCEPT ![k] = Gone]
          /\ skins' = IF skins[s].asset # k THEN skins ELSE [skins EXCEPT ![s].asset = Nobody]
          /\ Answer(call)

DisableSkinRevision ==
  LET k == call.image
      s == call.id
  IN IF images[k] # [skin |-> s, st |-> "on"] THEN Refuse
     ELSE /\ images' = [images EXCEPT ![k] = Gone]
          /\ skins' = IF skins[s].asset # k THEN skins
                      ELSE [skins EXCEPT ![s].asset = Nobody, ![s].enabled = FALSE]
          /\ Answer(call)

\* A grant wants an enabled revision of the skin; either leaves a record.
ChangeSkinEntitlement ==
  IF call.kind = "grant" /\ images[call.image] # [skin |-> call.id, st |-> "on"] THEN Refuse
  ELSE /\ skins' = [skins EXCEPT ![call.id].granted = TRUE]
       /\ Answer(call) /\ UNCHANGED images

Serve ==
  /\ call.st = "sent"
  /\ \/ call.kind = "create" /\ CreateSkin
     \/ call.kind = "upload" /\ UploadSkinAsset
     \/ call.kind = "publish" /\ PublishSkinRevision
     \/ call.kind = "update" /\ UpdateSkin
     \/ call.kind = "disable" /\ DisableSkinRevision
     \/ call.kind \in {"grant", "revoke"} /\ ChangeSkinEntitlement
  /\ UNCHANGED <<page, load>>

ServeSkin ==
  /\ load.st = "sent"
  /\ load' = [st |-> "answered", shown |-> IF skins[page.at].exists THEN Stored(page.at) ELSE NoSkin]
  /\ UNCHANGED <<skins, images, page, call>>

-----------------------------------------------------------------------------
(* The pages.                                                              *)

FreshDetail(s) == [at |-> s, shown |-> NoSkin, edited |-> FALSE, preview |-> Nobody]
CreatePage     == FreshDetail(Nobody)

\* The address changes under the mounted page: only the load is a new one.
GoTo(s) ==
  /\ page.at \in Skins \ {s}
  /\ page' = [page EXCEPT !.at = s]
  /\ load' = [IdleLoad EXCEPT !.st = "sent"]
  /\ UNCHANGED <<skins, images, call>>

OpenCreatePage ==
  /\ page.at # Nobody
  /\ page' = CreatePage /\ load' = IdleLoad
  /\ call' = [call EXCEPT !.here = FALSE]
  /\ UNCHANGED <<skins, images>>

\* Bound: not while a call of an earlier visit is under way.
OpenDetail(s) ==
  /\ page.at = Nobody /\ call.st = "idle"
  /\ page' = FreshDetail(s) /\ load' = [IdleLoad EXCEPT !.st = "sent"]
  /\ UNCHANGED <<skins, images, call>>

SkinArrives ==
  /\ load.st = "answered"
  /\ page' = [page EXCEPT !.shown = load.shown, !.edited = FALSE]
  /\ load' = IdleLoad
  /\ UNCHANGED <<skins, images, call>>

Showing == page.at # Nobody /\ page.shown.id # Nobody

ToggleEnabled ==
  /\ Showing
  /\ page' = [page EXCEPT !.shown.enabled = ~@]
  /\ UNCHANGED <<skins, images, load, call>>

\* Rules are edited until somebody has been granted the skin.
EditRules ==
  /\ Showing /\ ~page.shown.locked
  /\ page' = [page EXCEPT !.edited = ~@]
  /\ UNCHANGED <<skins, images, load, call>>

\* A page has one mutation under way.
Mutate(c) ==
  /\ call.st = "idle"
  /\ call' = [c EXCEPT !.st = "sent", !.here = TRUE, !.id = page.shown.id]
  /\ UNCHANGED <<skins, images, page, load>>

ClickUpdate ==
  /\ Showing
  /\ Mutate([IdleCall EXCEPT !.kind = "update", !.enabled = page.shown.enabled,
                             !.on = page.shown.on, !.locked = page.shown.locked,
                             !.rules = ~page.shown.locked /\ page.edited])
ClickUpload ==
  Showing /\ Mutate([IdleCall EXCEPT !.kind = "upload"])
ClickPublish ==
  /\ Showing /\ page.preview # Nobody
  /\ Mutate([IdleCall EXCEPT !.kind = "publish", !.image = page.preview])
ClickDisable ==
  Showing /\ \E k \in page.shown.on : Mutate([IdleCall EXCEPT !.kind = "disable", !.image = k])

\* The correction names the newest enabled revision.
ClickEntitlement ==
  /\ Showing
  /\ \E k \in page.shown.on, kind \in {"grant", "revoke"} :
       /\ \A j \in page.shown.on : j <= k
       /\ Mutate([IdleCall EXCEPT !.kind = kind, !.image = k])

SubmitCreate == page.at = Nobody /\ Mutate([IdleCall EXCEPT !.kind = "create"])

\* What a mutation that succeeded leaves on the detail page.  An update shows
\* what was sent, of the skin it was sent for; the others patch what is shown
\* by now.
After(c) ==
  CASE c.kind = "update" ->
         [page EXCEPT !.edited = FALSE,
                      !.shown = [id |-> c.id, enabled |-> c.enabled, locked |-> c.locked, on |-> c.on]]
    [] c.kind = "upload"  -> [page EXCEPT !.preview = c.image]
    [] c.kind = "publish" -> [page EXCEPT !.preview = Nobody,
                                          !.shown.on = IF Showing THEN @ \union {c.image} ELSE @]
    [] c.kind = "disable" -> [page EXCEPT !.shown.on = @ \ {c.image}]
    [] OTHER -> page

DetailReturns ==
  /\ call.st \in {"done", "failed"} /\ page.at # Nobody
  /\ page' = IF call.st = "done" THEN After(call) ELSE page
  /\ call' = IdleCall
  /\ UNCHANGED <<skins, images, load>>

\* The create page goes on to the next of its four steps, or stops where one
\* failed: the draft stays, and a second try drafts another skin.
Step(kind) == [call EXCEPT !.st = "sent", !.kind = kind]

CreateReturns ==
  /\ call.st \in {"done", "failed"} /\ page.at = Nobody
  /\ IF call.st = "failed" \/ ~call.here
     THEN call' = IdleCall /\ UNCHANGED <<page, load>>
     ELSE \/ call.kind = "create"  /\ call' = Step("upload")  /\ UNCHANGED <<page, load>>
          \/ call.kind = "upload"  /\ call' = Step("publish") /\ UNCHANGED <<page, load>>
          \/ /\ call.kind = "publish" /\ UNCHANGED <<page, load>>
             /\ call' = [Step("update") EXCEPT !.rules = TRUE]
          \/ /\ call.kind = "update" /\ call' = IdleCall
             /\ page' = FreshDetail(call.id) /\ load' = [IdleLoad EXCEPT !.st = "sent"]
  /\ UNCHANGED <<skins, images>>

-----------------------------------------------------------------------------
SkinsInit ==
  /\ skins = [s \in Skins |-> IF s = 1 THEN Draft ELSE Absent]
  /\ images = [k \in Images |-> [skin |-> Nobody, st |-> "none"]]
  /\ page = FreshDetail(1)
  /\ load = [IdleLoad EXCEPT !.st = "sent"]
  /\ call = IdleCall

SkinsNext ==
  \/ Serve \/ ServeSkin \/ SkinArrives \/ OpenCreatePage
  \/ \E s \in Skins : GoTo(s) \/ OpenDetail(s)
  \/ ToggleEnabled \/ EditRules \/ ClickUpdate \/ ClickUpload \/ ClickPublish \/ ClickDisable \/ ClickEntitlement
  \/ SubmitCreate \/ DetailReturns \/ CreateReturns

SkinsSpec == SkinsInit /\ [][SkinsNext]_skinsVars

-----------------------------------------------------------------------------
\* A skin that players can pick has an image, and that image is a revision
\* that was not withdrawn, whatever the page thought when it saved the skin.
EnabledHasImage ==
  \A s \in Skins : skins[s].enabled => Current(s)

\* A skin only ever has images that were uploaded for it, although the page
\* carries a preview from one skin to the next.
OwnImagesOnly ==
  \A s \in Skins : skins[s].asset # Nobody => images[skins[s].asset].skin = s

\* The images of the catalogue are their skins' own, and there when needed.
ImagesSound == EnabledHasImage /\ OwnImagesOnly

\* --- what a user of the console would expect, and does not hold ---

\* What the page shows of a revision it shows as enabled is true of the skin
\* it shows; with one administrator and no call under way.
ShownIsStored ==
  page.at # Nobody /\ Showing /\ call.st = "idle" /\ load.st = "idle" =>
    page.shown = [Stored(page.shown.id) EXCEPT !.enabled = page.shown.enabled]
=============================================================================
