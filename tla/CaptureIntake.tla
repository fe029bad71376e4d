--------------------------- MODULE CaptureIntake ---------------------------
(***************************************************************************)
(* Quick captures: a photo is kept as a draft in the browser, uploaded     *)
(* from any of its tabs (frontend/lib/capture-drafts.ts, app/capture/      *)
(* page.tsx), stored as a file and a row (household_capture_service.py)    *)
(* and sent to intake, where it becomes a document (api/captures.py).      *)
(***************************************************************************)
EXTENDS Naturals, FiniteSets

CONSTANTS
    Draft,         \* the photos that may be taken (client_id)
    Content,       \* what files contain (content_sha256)
    ContentOf,     \* the content of each photo
    Tab,           \* open pages of one member on one device
    Capture,       \* ids an upload may draw (uuid4)
    NoDraft,
    NoCapture,
    Document,      \* ids a document may draw
    NoDocument,
    NoContent,     \* the document does not exist
    FaultKinds,    \* the faults that may happen
    MaxFaults      \* bound on faults

ASSUME ConstantsAssumption ==
    /\ ContentOf \in [Draft -> Content]
    /\ NoDraft \notin Draft
    /\ NoCapture \notin Capture
    /\ NoDocument \notin Document
    /\ NoContent \notin Content
    /\ FaultKinds \subseteq
         {"network", "tab", "sign-in", "crash", "disk", "database", "unanswered"}
    /\ MaxFaults \in Nat

VARIABLES
    taken,         \* photos that were saved as drafts
    unsupported,   \* those whose file the endpoint refuses at every try (415)
    drafts,        \* the IndexedDB store
    discarded,     \* drafts the member discarded
    listed,        \* listed[u]: the drafts a tab shows
    signedIn,      \* the member is signed in, not another one or nobody
    mine,          \* tabs that opened the page as this member
    tab,           \* tab[u]: the upload a tab waits for
    save,          \* save[c]: what HouseholdCaptureService.save has done for an upload
    of,            \* of[c]: the photo of that upload
    rows,          \* rows[c]: the photo of a row of household_captures
    files,         \* captures/<id> under the upload directory
    torn,          \* photos of a row whose commit was answered with an error
    attached,      \* attached[c]: document_id
    holds,         \* holds[x]: the content of a document of household_documents
    promoting,     \* the capture of the request that holds _promote_lock
    ingested,      \* the document that request has ingested
    faults         \* faults that have happened

deviceVars == <<taken, unsupported, drafts, discarded, listed, signedIn, mine>>
uploadVars == <<tab, save, of>>
storedVars == <<rows, files, torn>>
intakeVars == <<attached, holds, promoting, ingested>>
vars == <<deviceVars, uploadVars, storedVars, intakeVars, faults>>

Serving == {"received", "written", "stored"}
Answered == {"saved", "failed"}

TypeOK ==
    /\ taken \subseteq Draft
    /\ unsupported \subseteq taken
    /\ drafts \subseteq taken
    /\ discarded \subseteq taken
    /\ listed \in [Tab -> SUBSET taken]
    /\ signedIn \in BOOLEAN
    /\ mine \subseteq Tab
    /\ tab \in [Tab -> Capture \cup {NoCapture}]
    /\ save \in [Capture -> {"none"} \cup Serving \cup Answered]
    /\ of \in [Capture -> Draft \cup {NoDraft}]
    /\ \A c \in Capture : of[c] = NoDraft <=> save[c] = "none"
    /\ rows \in [Capture -> Draft \cup {NoDraft}]
    /\ \A c, e \in Capture : rows[c] = rows[e] /\ rows[c] # NoDraft => c = e
    /\ files \subseteq Capture
    /\ torn \subseteq Draft
    /\ attached \in [Capture -> Document \cup {NoDocument}]
    /\ holds \in [Document -> Content \cup {NoContent}]
    /\ promoting \in Capture \cup {NoCapture}
    /\ ingested \in Document \cup {NoDocument}
    /\ faults \in 0..MaxFaults

Init ==
    /\ taken = {} /\ unsupported = {} /\ drafts = {} /\ discarded = {}
    /\ listed = [u \in Tab |-> {}]
    /\ signedIn = TRUE /\ mine = Tab
    /\ tab = [u \in Tab |-> NoCapture]
    /\ save = [c \in Capture |-> "none"]
    /\ of = [c \in Capture |-> NoDraft]
    /\ rows = [c \in Capture |-> NoDraft]
    /\ files = {} /\ torn = {}
    /\ attached = [c \in Capture |-> NoDocument]
    /\ holds = [x \in Document |-> NoContent]
    /\ promoting = NoCapture /\ ingested = NoDocument
    /\ faults = 0

Fault(kind) ==
    /\ kind \in FaultKinds
    /\ faults < MaxFaults
    /\ faults' = faults + 1

Waiting(c) == \E u \in Tab : tab[u] = c
\* An id no upload and no row has; a file without a row is never read again.
Free == {c \in Capture : save[c] = "none" /\ rows[c] = NoDraft}
Stored(d) == \E c \in files : rows[c] = d

Becomes(c, at) ==
    /\ save' = [save EXCEPT ![c] = at]
    /\ of' = IF at = "none" THEN [of EXCEPT ![c] = NoDraft] ELSE of

----------------------------------------------------------------------------
(* The page.                                                                *)

\* After a change, the tab that made it reads the drafts again.
Show(u) == listed' = [listed EXCEPT ![u] = drafts']

\* The page shows the drafts of whoever is signed in.
Open(u) ==
    IF signedIn
    THEN mine' = mine \cup {u} /\ Show(u)
    ELSE mine' = mine \ {u} /\ listed' = [listed EXCEPT ![u] = {}]

\* queue; it takes no file above the endpoint's size, but one of any type.
Take(u, d) ==
    /\ tab[u] = NoCapture
    /\ u \in mine
    /\ d \notin taken
    /\ taken' = taken \cup {d}
    /\ unsupported' \in {unsupported, unsupported \cup {d}}
    /\ drafts' = drafts \cup {d}
    /\ Show(u)
    /\ UNCHANGED <<discarded, signedIn, mine, uploadVars, storedVars, intakeVars, faults>>

\* The page is opened or reloaded, or asks again who is signed in.
Reload(u) ==
    /\ tab[u] = NoCapture
    /\ UNCHANGED drafts
    /\ Open(u)
    /\ UNCHANGED <<taken, unsupported, discarded, signedIn, uploadVars, storedVars, intakeVars, faults>>

\* upload, of a draft the tab lists: another tab may have uploaded it since.
Upload(u, d) ==
    /\ tab[u] = NoCapture
    /\ d \in listed[u]
    /\ Free # {}
    /\ LET c == CHOOSE e \in Free : TRUE
       IN /\ tab' = [tab EXCEPT ![u] = c]
          /\ of' = [of EXCEPT ![c] = d]
          /\ save' = [save EXCEPT ![c] = "received"]
    /\ UNCHANGED <<deviceVars, storedVars, intakeVars, faults>>

Discard(u, d) ==
    /\ tab[u] = NoCapture
    /\ d \in listed[u]
    /\ drafts' = drafts \ {d}
    /\ discarded' = discarded \cup {d}
    /\ Show(u)
    /\ UNCHANGED <<taken, unsupported, signedIn, mine, uploadVars, storedVars, intakeVars, faults>>

Return(u) ==
    /\ tab' = [tab EXCEPT ![u] = NoCapture]
    /\ Becomes(tab[u], "none")

\* The response is good: the draft goes.
Uploaded(u) ==
    /\ tab[u] # NoCapture
    /\ save[tab[u]] = "saved"
    /\ drafts' = drafts \ {of[tab[u]]}
    /\ Show(u)
    /\ Return(u)
    /\ UNCHANGED <<taken, unsupported, discarded, signedIn, mine, storedVars, intakeVars, faults>>

\* The draft is put again, with the error.
NotUploaded(u) ==
    /\ tab[u] # NoCapture
    /\ save[tab[u]] = "failed"
    /\ drafts' = drafts \cup {of[tab[u]]}
    /\ Show(u)
    /\ Return(u)
    /\ UNCHANGED <<taken, unsupported, discarded, signedIn, mine, storedVars, intakeVars, faults>>

\* fetch fails, whatever becomes of the request.
CutOff(u) ==
    /\ tab[u] # NoCapture
    /\ Fault("network")
    /\ drafts' = drafts \cup {of[tab[u]]}
    /\ Show(u)
    /\ tab' = [tab EXCEPT ![u] = NoCapture]
    /\ \/ Becomes(tab[u], IF save[tab[u]] \in Answered THEN "none" ELSE save[tab[u]])
       \/ save[tab[u]] = "received" /\ Becomes(tab[u], "none")
    /\ UNCHANGED <<taken, unsupported, discarded, signedIn, mine, storedVars, intakeVars>>

\* The tab is closed while it uploads, and the page opened again.
CloseTab(u) ==
    /\ tab[u] # NoCapture
    /\ Fault("tab")
    /\ UNCHANGED drafts
    /\ Open(u)
    /\ tab' = [tab EXCEPT ![u] = NoCapture]
    /\ Becomes(tab[u], IF save[tab[u]] \in Answered THEN "none" ELSE save[tab[u]])
    /\ UNCHANGED <<taken, unsupported, discarded, signedIn, storedVars, intakeVars>>

SwitchMember ==
    /\ signedIn
    /\ Fault("sign-in")
    /\ signedIn' = FALSE
    /\ UNCHANGED <<taken, unsupported, drafts, discarded, listed, mine, uploadVars, storedVars,
                   intakeVars>>

\* 'Switch back to its member', 'Sign in again'
SwitchBack ==
    /\ ~signedIn
    /\ signedIn' = TRUE
    /\ UNCHANGED <<taken, unsupported, drafts, discarded, listed, mine, uploadVars, storedVars,
                   intakeVars, faults>>

----------------------------------------------------------------------------
(* The endpoint, and HouseholdCaptureService.save in a thread of its own.   *)

\* Nobody reads the answer to a request whose tab has gone.
Answer(c, at) == Becomes(c, IF Waiting(c) THEN at ELSE "none")

\* The draft is of the member who is signed in, and its file has a known signature.
Accepts(c) == signedIn /\ of[c] \notin unsupported

Refuse(c) ==
    /\ save[c] = "received"
    /\ ~Accepts(c)
    /\ Answer(c, "failed")
    /\ UNCHANGED <<deviceVars, tab, storedVars, intakeVars, faults>>

\* write_encrypted_upload
Write(c) ==
    /\ save[c] = "received"
    /\ Accepts(c)
    /\ files' = files \cup {c}
    /\ Becomes(c, "written")
    /\ UNCHANGED <<deviceVars, tab, rows, torn, intakeVars, faults>>

RowOf(d) == {e \in Capture : rows[e] = d}
WithRow(c) == [rows EXCEPT ![c] = of[c]]

\* The row of an earlier upload is not looked for.
InsertAgain(c) ==
    /\ save[c] = "written"
    /\ rows' = WithRow(c)
    /\ files' = files
    /\ Becomes(c, "stored")
    /\ UNCHANGED <<deviceVars, tab, torn, intakeVars, faults>>

\* path is built from capture_id after it has become the earlier one's.
InsertUnlinksStored(c) ==
    /\ save[c] = "written"
    /\ IF RowOf(of[c]) = {}
       THEN rows' = WithRow(c) /\ files' = files
       ELSE rows' = rows /\ files' = files \ RowOf(of[c])
    /\ Becomes(c, "stored")
    /\ UNCHANGED <<deviceVars, tab, torn, intakeVars, faults>>

\* An upload that has a row already is refused.
InsertRefuses(c) ==
    /\ save[c] = "written"
    /\ IF RowOf(of[c]) = {}
       THEN rows' = WithRow(c) /\ files' = files /\ Becomes(c, "stored")
       ELSE rows' = rows /\ files' = files \ {c} /\ Answer(c, "failed")
    /\ UNCHANGED <<deviceVars, tab, torn, intakeVars, faults>>

\* INSERT ... ON CONFLICT DO NOTHING and commit; the file of a second upload of
\* the same photo goes.
Insert(c) ==
    /\ save[c] = "written"
    /\ IF RowOf(of[c]) = {}
       THEN rows' = WithRow(c) /\ files' = files
       ELSE rows' = rows /\ files' = files \ {c}
    /\ Becomes(c, "stored")
    /\ UNCHANGED <<deviceVars, tab, torn, intakeVars, faults>>

\* get
Respond(c) ==
    /\ save[c] = "stored"
    /\ Answer(c, "saved")
    /\ UNCHANGED <<deviceVars, tab, storedVars, intakeVars, faults>>

WriteFails(c) ==
    /\ save[c] = "received"
    /\ Accepts(c)
    /\ Fault("disk")
    /\ Answer(c, "failed")
    /\ UNCHANGED <<deviceVars, tab, storedVars, intakeVars>>

\* Before the commit the file is removed again; after it, get fails.
DatabaseFails(c) ==
    /\ save[c] \in {"written", "stored"}
    /\ Fault("database")
    /\ files' = IF save[c] = "written" THEN files \ {c} ELSE files
    /\ Answer(c, "failed")
    /\ UNCHANGED <<deviceVars, tab, rows, torn, intakeVars>>

\* The commit is done, but its answer is an error: the file is removed.
CommitUnanswered(c) ==
    /\ save[c] = "written"
    /\ Fault("unanswered")
    /\ IF RowOf(of[c]) = {}
       THEN rows' = WithRow(c) /\ torn' = torn \cup {of[c]}
       ELSE UNCHANGED <<rows, torn>>
    /\ files' = files \ {c}
    /\ Answer(c, "failed")
    /\ UNCHANGED <<deviceVars, tab, intakeVars>>

----------------------------------------------------------------------------
(* send_to_intake, one request at a time.                                   *)

Unlock == promoting' = NoCapture /\ ingested' = NoDocument

\* The row has no document yet, and its file is read.
Promote(c) ==
    /\ promoting = NoCapture
    /\ rows[c] # NoDraft /\ c \in files
    /\ attached[c] = NoDocument
    /\ promoting' = c
    /\ UNCHANGED <<deviceVars, uploadVars, storedVars, attached, holds, ingested, faults>>

\* find_duplicate_document_by_hash
With(k) == {x \in Document : holds[x] = k}

\* Duplicates are not looked for.
IngestAgain(k, x) ==
    /\ holds[x] = NoContent /\ x # ingested
    /\ holds' = [holds EXCEPT ![x] = k]

\* ingest_document: the document of the same content, or a new one.
Ingest(k, x) ==
    \/ x \in With(k) /\ UNCHANGED holds
    \/ /\ With(k) = {}
       /\ holds[x] = NoContent /\ x # ingested
       /\ holds' = [holds EXCEPT ![x] = k]

IngestCapture ==
    /\ promoting # NoCapture
    /\ ingested = NoDocument
    /\ \E x \in Document : Ingest(ContentOf[rows[promoting]], x) /\ ingested' = x
    /\ UNCHANGED <<deviceVars, uploadVars, storedVars, attached, promoting, faults>>

\* attach_document; a document deleted in between violates the foreign key.
Attach ==
    /\ ingested # NoDocument
    /\ attached' = IF holds[ingested] = NoContent THEN attached
                   ELSE [attached EXCEPT ![promoting] = ingested]
    /\ Unlock
    /\ UNCHANGED <<deviceVars, uploadVars, storedVars, holds, faults>>

PromoteFails ==
    /\ promoting # NoCapture
    /\ Fault("database")
    /\ Unlock
    /\ UNCHANGED <<deviceVars, uploadVars, storedVars, attached, holds>>

\* The same file is uploaded on the intake page.
UploadToIntake(k) ==
    /\ \E x \in Document : Ingest(k, x)
    /\ UNCHANGED <<deviceVars, uploadVars, storedVars, attached, promoting, ingested, faults>>

\* delete_document; the foreign key is ON DELETE SET NULL.
DeleteDocument(x) ==
    /\ holds[x] # NoContent
    /\ holds' = [holds EXCEPT ![x] = NoContent]
    /\ attached' = [c \in Capture |-> IF attached[c] = x THEN NoDocument ELSE attached[c]]
    /\ UNCHANGED <<deviceVars, uploadVars, storedVars, promoting, ingested, faults>>

\* The API process ends: its requests fail and its threads are gone.
Crash ==
    /\ Fault("crash")
    /\ save' = [c \in Capture |-> IF save[c] \notin Serving THEN save[c]
                                  ELSE IF Waiting(c) THEN "failed" ELSE "none"]
    /\ of' = [c \in Capture |-> IF save'[c] = "none" THEN NoDraft ELSE of[c]]
    /\ Unlock
    /\ UNCHANGED <<deviceVars, tab, storedVars, attached, holds>>

----------------------------------------------------------------------------
PageStep(u) ==
    \/ Reload(u) \/ Uploaded(u) \/ NotUploaded(u)
    \/ \E d \in Draft : Take(u, d) \/ Upload(u, d) \/ Discard(u, d)

SaveStep(c) == Refuse(c) \/ Write(c) \/ Insert(c) \/ Respond(c)

IntakeStep ==
    \/ \E c \in Capture : Promote(c)
    \/ IngestCapture \/ Attach
    \/ \E k \in Content : UploadToIntake(k)
    \/ \E x \in Document : DeleteDocument(x)

FaultStep ==
    \/ \E u \in Tab : CutOff(u) \/ CloseTab(u)
    \/ SwitchMember
    \/ \E c \in Capture : WriteFails(c) \/ DatabaseFails(c) \/ CommitUnanswered(c)
    \/ PromoteFails \/ Crash

Next ==
    \/ \E u \in Tab : PageStep(u)
    \/ SwitchBack
    \/ \E c \in Capture : SaveStep(c)
    \/ IntakeStep
    \/ FaultStep

Spec == Init /\ [][Next]_vars

\* The server serves, the page handles an answer, and the member signs in again,
\* opens the page and uploads what it lists, again and again.
FairSpec ==
    /\ Spec
    /\ \A c \in Capture : WF_vars(SaveStep(c))
    /\ WF_vars(SwitchBack)
    /\ \A u \in Tab : /\ WF_vars(Uploaded(u) \/ NotUploaded(u))
                      /\ WF_vars(Reload(u))
                      /\ \A d \in Draft : SF_vars(Upload(u, d))

----------------------------------------------------------------------------
(* Properties.                                                              *)

\* A photo that was saved and not discarded is on the device, or stored with its
\* row and its file: no failure, retry or second tab loses it, but for the one
\* whose commit was answered with an error.
Kept == \A d \in taken \ (discarded \cup torn) : d \in drafts \/ Stored(d)

\* household_capture_service.py: 'Small durable evidence queue': every photo.
PhotoKept == \A d \in taken \ discarded : d \in drafts \/ Stored(d)

\* Intake never holds the same content twice, and the document of a capture is
\* there and holds its photo.
OneDocument ==
    /\ \A x, y \in Document : holds[x] = holds[y] /\ holds[x] # NoContent => x = y
    /\ \A c \in Capture : attached[c] # NoDocument => holds[attached[c]] = ContentOf[rows[c]]

\* A draft the server supports leaves the device in the end: an upload whose answer
\* was lost, or that was refused to another sign-in, can be repeated. One of an
\* unsupported file is refused at every try and stays until it is discarded.
DraftLeaves == \A d \in Draft : d \in drafts \ unsupported ~> d \notin drafts
=============================================================================
