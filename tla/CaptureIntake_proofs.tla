------------------------ MODULE CaptureIntake_proofs ------------------------
(***************************************************************************)
(* Theorems about CaptureIntake, for any number of photos, tabs, uploads   *)
(* and documents.                                                          *)
(***************************************************************************)
EXTENDS CaptureIntake, TLAPS

USE ConstantsAssumption DEF ConstantsAssumption

-----------------------------------------------------------------------------
(* The inductive invariant.                                                *)

(* A tab waits for an upload of its own; uploads and rows are of taken     *)
(* photos.                                                                 *)
Waits ==
    /\ \A u \in Tab : tab[u] # NoCapture => save[tab[u]] # "none"
    /\ \A u, v \in Tab : tab[u] = tab[v] /\ tab[u] # NoCapture => u = v
    /\ \A c \in Capture : of[c] # NoDraft => of[c] \in taken
    /\ \A c \in Capture : rows[c] # NoDraft => rows[c] \in taken

(* An upload has no row before its commit and its photo has one after it.  *)
Rowed ==
    /\ \A c \in Capture : save[c] \in {"received", "written"} => rows[c] = NoDraft
    /\ \A c \in Capture : save[c] = "written" => c \in files
    /\ \A c \in Capture : save[c] \in {"stored", "saved"} => \E e \in Capture : rows[e] = of[c]
    /\ \A c \in Capture : rows[c] # NoDraft => c \in files \/ rows[c] \in torn

(* What the endpoint refuses is neither written nor given a row.           *)
Supported ==
    /\ \A c \in Capture : save[c] \in {"written", "stored", "saved"} => of[c] \notin unsupported
    /\ \A c \in Capture : rows[c] \notin unsupported

(* A photo is on the device or has a row.                                  *)
Somewhere == \A d \in taken \ discarded : d \in drafts \/ \E e \in Capture : rows[e] = d

(* Intake works on a row, and its document is of that row unless deleted.  *)
Intake ==
    /\ promoting # NoCapture => rows[promoting] # NoDraft
    /\ ingested # NoDocument =>
         promoting # NoCapture /\ holds[ingested] \in {ContentOf[rows[promoting]], NoContent}
    /\ \A c \in Capture : attached[c] # NoDocument => rows[c] # NoDraft

IInv == TypeOK /\ Waits /\ Rowed /\ Supported /\ Somewhere /\ Intake /\ OneDocument

(* What an invariant gives of the data of one upload.                      *)
LEMMA Photo ==
  ASSUME IInv, NEW c \in Capture, save[c] # "none"
  PROVE  of[c] \in Draft /\ of[c] \in taken /\ of[c] # NoDraft
BY DEF IInv, TypeOK, Waits

LEMMA InitOK == Init => IInv
<1> SUFFICES ASSUME Init PROVE IInv
  OBVIOUS
<1>1. TypeOK
  BY DEF Init, TypeOK
<1>2. Waits /\ Rowed /\ Supported /\ Somewhere /\ Intake /\ OneDocument
  BY DEF Init, Waits, Rowed, Supported, Somewhere, Intake, OneDocument
<1> QED BY <1>1, <1>2 DEF IInv

-----------------------------------------------------------------------------
(* The page.                                                               *)

LEMMA DeviceOK ==
  ASSUME IInv, NEW u \in Tab,
         Reload(u) \/ \E d \in Draft : Take(u, d) \/ Discard(u, d)
  PROVE  IInv'
<1>0. UNCHANGED <<tab, save, of, rows, files, torn, attached, holds, promoting, ingested, faults>>
  BY DEF Reload, Take, Discard, uploadVars, storedVars, intakeVars
<1>1. /\ taken \subseteq taken' /\ taken' \subseteq Draft
      /\ unsupported' \subseteq taken' /\ unsupported' \cap taken \subseteq unsupported
      /\ drafts' \subseteq taken' /\ discarded' \subseteq taken'
      /\ \E ds \in {drafts', {}} : listed' = [listed EXCEPT ![u] = ds]
      /\ signedIn' = signedIn /\ mine' \subseteq Tab
      /\ \A d \in taken' \ discarded' : d \in drafts' \/ (d \in taken \ discarded /\ d \notin drafts)
  BY DEF IInv, TypeOK, Reload, Take, Discard, Open, Show
<1>2. TypeOK'
  <2>1. listed' \in [Tab -> SUBSET taken']
    BY <1>1 DEF IInv, TypeOK
  <2> QED BY <1>0, <1>1, <2>1 DEF IInv, TypeOK
<1>3. Waits' /\ Rowed' /\ Intake' /\ OneDocument'
  BY <1>0, <1>1 DEF IInv, Waits, Rowed, Intake, OneDocument
<1>4. Somewhere'
  BY <1>0, <1>1 DEF IInv, Somewhere
<1>5. Supported'
  <2>1. \A c \in Capture : /\ save[c] \in {"written", "stored", "saved"} => of[c] \in taken
                          /\ rows[c] \in taken \cup {NoDraft}
    BY DEF IInv, TypeOK, Waits
  <2> QED BY <1>0, <1>1, <2>1 DEF IInv, TypeOK, Supported
<1> QED BY <1>2, <1>3, <1>4, <1>5 DEF IInv

LEMMA UploadOK ==
  ASSUME IInv, NEW u \in Tab, NEW d \in Draft, Upload(u, d)
  PROVE  IInv'
<1>1. PICK c \in Free :
        /\ tab' = [tab EXCEPT ![u] = c]
        /\ of' = [of EXCEPT ![c] = d]
        /\ save' = [save EXCEPT ![c] = "received"]
  BY DEF Upload
<1>2. /\ UNCHANGED <<deviceVars, taken, unsupported, drafts, discarded, listed, signedIn, mine, rows, files, torn, attached, holds,
                     promoting, ingested, faults>>
      /\ d \in taken /\ d \in Draft /\ d # NoDraft /\ tab[u] = NoCapture
  BY DEF IInv, TypeOK, Upload, deviceVars, storedVars, intakeVars
<1>3. c \in Capture /\ save[c] = "none" /\ rows[c] = NoDraft
  BY DEF Free
<1>4. TypeOK'
  BY <1>1, <1>2, <1>3 DEF IInv, TypeOK, Serving
<1>5. Waits'
  <2>1. \A v \in Tab : tab[v] # c
    BY <1>3 DEF IInv, Waits
  <2> QED BY <1>1, <1>2, <1>3, <2>1 DEF IInv, TypeOK, Waits
<1>6. Rowed'
  BY <1>1, <1>2, <1>3 DEF IInv, TypeOK, Rowed
<1>7. Somewhere' /\ Intake' /\ OneDocument'
  BY <1>2 DEF IInv, Somewhere, Intake, OneDocument
<1>8. Supported'
  BY <1>1, <1>2, <1>3 DEF IInv, TypeOK, Supported
<1> QED BY <1>4, <1>5, <1>6, <1>7, <1>8 DEF IInv

(* The tab stops waiting; the upload it waited for is forgotten or goes on. *)
LEMMA ReturnOK ==
  ASSUME IInv, NEW u \in Tab,
         Uploaded(u) \/ NotUploaded(u) \/ CutOff(u) \/ CloseTab(u)
  PROVE  IInv'
<1> DEFINE c == tab[u]
<1>1. /\ c \in Capture /\ c # NoCapture /\ save[c] # "none"
      /\ of[c] \in Draft /\ of[c] \in taken
  <2>1. c \in Capture /\ c # NoCapture
    BY DEF Uploaded, NotUploaded, CutOff, CloseTab, IInv, TypeOK
  <2>2. save[c] # "none"
    BY <2>1 DEF IInv, Waits
  <2> QED BY <2>1, <2>2, Photo
<1>2. /\ tab' = [tab EXCEPT ![u] = NoCapture]
      /\ \E ds \in {drafts', {}} : listed' = [listed EXCEPT ![u] = ds]
      /\ mine' \subseteq Tab
      /\ UNCHANGED <<taken, unsupported, discarded, signedIn, rows, files, torn, attached, holds, promoting, ingested>>
      /\ faults' \in 0..MaxFaults
  BY DEF Uploaded, NotUploaded, CutOff, CloseTab, Return, Open, Show, Fault, IInv, TypeOK,
         storedVars, intakeVars
<1>3. \/ save' = [save EXCEPT ![c] = "none"] /\ of' = [of EXCEPT ![c] = NoDraft]
      \/ save' = save /\ of' = of /\ save[c] # "none"
  BY <1>1 DEF Uploaded, NotUploaded, CutOff, CloseTab, Return, Becomes, IInv, TypeOK, Answered
<1>4. /\ drafts' \subseteq taken
      /\ \/ drafts \subseteq drafts'
         \/ save[c] = "saved" /\ drafts' = drafts \ {of[c]}
  BY <1>1 DEF Uploaded, NotUploaded, CutOff, CloseTab, IInv, TypeOK
<1> HIDE DEF c
<1>5. TypeOK'
  <2>1. listed' \in [Tab -> SUBSET taken'] /\ tab' \in [Tab -> Capture \cup {NoCapture}]
    BY <1>2, <1>4 DEF IInv, TypeOK
  <2>2. /\ save' \in [Capture -> {"none"} \cup Serving \cup Answered]
        /\ of' \in [Capture -> Draft \cup {NoDraft}]
        /\ \A e \in Capture : of'[e] = NoDraft <=> save'[e] = "none"
    BY <1>1, <1>3 DEF IInv, TypeOK
  <2> QED BY <1>2, <1>4, <2>1, <2>2 DEF IInv, TypeOK
<1>6. Waits'
  <2>1. \A v \in Tab : v # u => tab'[v] = tab[v] /\ (tab[v] # NoCapture => tab[v] # c)
    BY <1>1, <1>2 DEF IInv, TypeOK, Waits, c
  <2>2. tab'[u] = NoCapture
    BY <1>2 DEF IInv, TypeOK
  <2>3. \A e \in Capture : e # c => save'[e] = save[e] /\ of'[e] = of[e]
    BY <1>1, <1>3 DEF IInv, TypeOK
  <2>4. \A e \in Capture : of'[e] # NoDraft => of'[e] \in taken
    BY <1>1, <1>3 DEF IInv, TypeOK, Waits
  <2>5. \A v \in Tab : tab'[v] # NoCapture => tab'[v] \in Capture
    BY <1>2 DEF IInv, TypeOK
  <2>6. \A v \in Tab : tab'[v] # NoCapture => save'[tab'[v]] # "none"
    BY <2>1, <2>2, <2>3, <2>5 DEF IInv, Waits
  <2>7. \A v, w \in Tab : tab'[v] = tab'[w] /\ tab'[v] # NoCapture => v = w
    BY <2>1, <2>2 DEF IInv, Waits
  <2> QED BY <1>2, <2>4, <2>6, <2>7 DEF IInv, Waits
<1>7. Rowed'
  BY <1>1, <1>2, <1>3 DEF IInv, TypeOK, Rowed
<1>8. Somewhere'
  <2>1. save[c] = "saved" => \E e \in Capture : rows[e] = of[c]
    BY <1>1 DEF IInv, Rowed
  <2> QED BY <1>2, <1>4, <2>1 DEF IInv, Somewhere
<1>9. Intake' /\ OneDocument'
  BY <1>2 DEF IInv, Intake, OneDocument
<1>10. Supported'
  BY <1>1, <1>2, <1>3 DEF IInv, TypeOK, Supported
<1> QED BY <1>5, <1>6, <1>7, <1>8, <1>9, <1>10 DEF IInv

(* Another member signs in, or this one again.                             *)
LEMMA SignInOK ==
  ASSUME IInv, SwitchMember \/ SwitchBack
  PROVE  IInv'
<1>1. /\ UNCHANGED <<taken, unsupported, drafts, discarded, listed, mine, uploadVars, storedVars,
                     intakeVars>>
      /\ signedIn' \in BOOLEAN
  BY DEF SwitchMember, SwitchBack
<1>2. faults' \in 0..MaxFaults
  BY DEF SwitchMember, SwitchBack, Fault, IInv, TypeOK
<1>3. TypeOK'
  BY <1>1, <1>2 DEF IInv, TypeOK, uploadVars, storedVars, intakeVars
<1>4. Waits' /\ Rowed' /\ Supported' /\ Somewhere' /\ Intake' /\ OneDocument'
  BY <1>1 DEF IInv, Waits, Rowed, Supported, Somewhere, Intake, OneDocument,
              uploadVars, storedVars, intakeVars
<1> QED BY <1>3, <1>4 DEF IInv

-----------------------------------------------------------------------------
(* Saving an upload.                                                       *)

SaveAction(c) ==
    \/ Refuse(c) \/ Write(c) \/ Insert(c) \/ Respond(c)
    \/ WriteFails(c) \/ DatabaseFails(c) \/ CommitUnanswered(c)

LEMMA SaveOK ==
  ASSUME IInv, NEW c \in Capture, SaveAction(c)
  PROVE  IInv'
<1>1. /\ save[c] \in Serving /\ save[c] # "none"
      /\ UNCHANGED <<taken, unsupported, drafts, discarded, listed, signedIn, mine, tab, attached, holds, promoting, ingested>>
      /\ faults' \in 0..MaxFaults
  BY DEF SaveAction, Refuse, Write, Insert, Respond, WriteFails, DatabaseFails, CommitUnanswered,
         Fault, IInv, TypeOK, Serving, deviceVars, intakeVars, storedVars
<1>2. of[c] \in Draft /\ of[c] \in taken /\ of[c] # NoDraft
  BY <1>1, Photo
<1>3. PICK s \in {"none", "written", "stored"} \cup Answered :
        /\ save' = [save EXCEPT ![c] = s]
        /\ of' = IF s = "none" THEN [of EXCEPT ![c] = NoDraft] ELSE of
        /\ s = "none" => ~Waiting(c)
        /\ s = "written" => save[c] = "received" /\ of[c] \notin unsupported /\ rows' = rows /\ c \in files'
        /\ s = "saved" => save[c] = "stored" /\ rows' = rows
        /\ s = "stored" => save[c] = "written"
                          /\ \/ RowOf(of[c]) # {} /\ rows' = rows
                             \/ RowOf(of[c]) = {} /\ rows' = WithRow(c)
  <2>1. Write(c) => save' = [save EXCEPT ![c] = "written"] /\ of' = of /\ rows' = rows
                    /\ c \in files' /\ save[c] = "received" /\ of[c] \notin unsupported
    BY DEF Write, Becomes, Accepts
  <2>2. Insert(c) => save' = [save EXCEPT ![c] = "stored"] /\ of' = of /\ save[c] = "written"
                     /\ \/ RowOf(of[c]) # {} /\ rows' = rows
                        \/ RowOf(of[c]) = {} /\ rows' = WithRow(c)
    BY DEF Insert, Becomes
  <2>3. Respond(c) => save[c] = "stored" /\ rows' = rows /\ Answer(c, "saved")
    BY DEF Respond, storedVars
  <2>4. Refuse(c) \/ WriteFails(c) \/ DatabaseFails(c) \/ CommitUnanswered(c) => Answer(c, "failed")
    BY DEF Refuse, WriteFails, DatabaseFails, CommitUnanswered
  <2> QED BY <2>1, <2>2, <2>3, <2>4 DEF SaveAction, Answer, Becomes, Answered
<1>4. \/ rows' = rows
      \/ rows' = WithRow(c) /\ save[c] = "written" /\ RowOf(of[c]) = {}
  BY DEF SaveAction, Refuse, Write, Insert, Respond, WriteFails, DatabaseFails, CommitUnanswered, storedVars
<1>5. /\ files' \subseteq Capture
      /\ \A e \in Capture : e # c /\ e \in files => e \in files'
      /\ torn \subseteq torn' /\ torn' \subseteq Draft
  BY <1>2 DEF SaveAction, Refuse, Write, Insert, Respond, WriteFails, DatabaseFails, CommitUnanswered,
         IInv, TypeOK, storedVars
<1>6. rows'[c] # NoDraft => c \in files' \/ rows'[c] \in torn'
  <2>1. CASE save[c] \in {"received", "written"}
    <3>1. rows[c] = NoDraft /\ (save[c] = "written" => c \in files)
      BY <2>1 DEF IInv, Rowed
    <3> QED BY <1>2, <2>1, <3>1 DEF SaveAction, Refuse, Write, Insert, Respond, WriteFails, DatabaseFails,
                CommitUnanswered, WithRow, IInv, TypeOK, storedVars
  <2>2. CASE save[c] = "stored"
    BY <2>2 DEF SaveAction, Refuse, Write, Insert, Respond, WriteFails, DatabaseFails, CommitUnanswered,
                IInv, Rowed, storedVars
  <2> QED BY <1>1, <2>1, <2>2 DEF Serving
<1>7. /\ rows' \in [Capture -> Draft \cup {NoDraft}]
      /\ \A e, f \in Capture : rows'[e] = rows'[f] /\ rows'[e] # NoDraft => e = f
      /\ \A e \in Capture : rows[e] # NoDraft => rows'[e] = rows[e]
      /\ \A e \in Capture : e # c => rows'[e] = rows[e]
  BY <1>2, <1>4 DEF WithRow, RowOf, IInv, TypeOK, Rowed
<1> HIDE DEF SaveAction
<1>8. TypeOK'
  <2>1. /\ save' \in [Capture -> {"none"} \cup Serving \cup Answered]
        /\ of' \in [Capture -> Draft \cup {NoDraft}]
        /\ \A e \in Capture : of'[e] = NoDraft <=> save'[e] = "none"
    BY <1>2, <1>3 DEF IInv, TypeOK, Serving
  <2> QED BY <1>1, <1>5, <1>7, <2>1 DEF IInv, TypeOK
<1>9. Waits'
  <2>1. \A e \in Capture : of'[e] # NoDraft => of'[e] \in taken
    BY <1>3 DEF IInv, TypeOK, Waits
  <2>2. \A u \in Tab : tab[u] # NoCapture => save'[tab[u]] # "none"
    BY <1>3 DEF IInv, TypeOK, Waits, Waiting
  <2>3. \A e \in Capture : rows'[e] # NoDraft => rows'[e] \in taken
    BY <1>2, <1>7, <1>4 DEF IInv, TypeOK, Waits, WithRow
  <2> QED BY <1>1, <2>1, <2>2, <2>3 DEF IInv, Waits
<1>10. Rowed'
  <2>1. \A e \in Capture : e # c => save'[e] = save[e] /\ of'[e] = of[e]
    BY <1>3 DEF IInv, TypeOK
  <2>2. \A e \in Capture : save[e] \in {"stored", "saved"} => \E f \in Capture : rows'[f] = of[e]
    <3>1. \A e \in Capture : save[e] # "none" => of[e] # NoDraft
      BY DEF IInv, TypeOK
    <3> QED BY <1>7, <3>1 DEF IInv, Rowed
  <2>3. save'[c] \in {"stored", "saved"} => of'[c] = of[c] /\ \E f \in Capture : rows'[f] = of[c]
    <3>1. RowOf(of[c]) # {} => \E f \in Capture : rows[f] = of[c]
      BY DEF RowOf
    <3>2. rows' = WithRow(c) => rows'[c] = of[c]
      BY DEF WithRow, IInv, TypeOK
    <3> QED BY <1>3, <2>2, <3>1, <3>2 DEF IInv, TypeOK
  <2>4. save'[c] \in {"received", "written"} => rows'[c] = NoDraft /\ c \in files'
    BY <1>3 DEF IInv, TypeOK, Rowed, Answered
  <2>5. \A e \in Capture : save'[e] \in {"received", "written"} => rows'[e] = NoDraft
    BY <1>7, <2>1, <2>4 DEF IInv, Rowed
  <2>6. \A e \in Capture : save'[e] = "written" => e \in files'
    BY <1>5, <2>1, <2>4 DEF IInv, Rowed
  <2>7. \A e \in Capture : save'[e] \in {"stored", "saved"} => \E f \in Capture : rows'[f] = of'[e]
    BY <2>1, <2>2, <2>3
  <2>8. \A e \in Capture : rows'[e] # NoDraft => e \in files' \/ rows'[e] \in torn'
    BY <1>5, <1>6, <1>7 DEF IInv, Rowed
  <2> QED BY <2>5, <2>6, <2>7, <2>8 DEF Rowed
<1>11. Somewhere'
  <2>1. \A d \in taken, e \in Capture : rows[e] = d => rows'[e] = d
    BY <1>7 DEF IInv, TypeOK
  <2> QED BY <1>1, <2>1 DEF IInv, Somewhere
<1>12. Intake' /\ OneDocument'
  BY <1>1, <1>7 DEF IInv, TypeOK, Intake, OneDocument
<1>13. Supported'
  <2>1. save'[c] \in {"written", "stored", "saved"} => of'[c] = of[c] /\ of[c] \notin unsupported
    BY <1>3 DEF IInv, TypeOK, Supported, Answered
  <2>2. \A e \in Capture : e # c => save'[e] = save[e] /\ of'[e] = of[e]
    BY <1>3 DEF IInv, TypeOK
  <2>3. \A e \in Capture : rows'[e] \notin unsupported
    BY <1>4 DEF IInv, TypeOK, Supported, WithRow
  <2> QED BY <1>1, <2>1, <2>2, <2>3 DEF IInv, Supported
<1> QED BY <1>8, <1>9, <1>10, <1>11, <1>12, <1>13 DEF IInv

-----------------------------------------------------------------------------
(* Intake, and the end of the API process.                                 *)

(* What a step of intake leaves to show: the rows are not its business.    *)
LEMMA IntakeFrame ==
  ASSUME IInv, UNCHANGED <<deviceVars, uploadVars, storedVars>>
  PROVE  Waits' /\ Rowed' /\ Supported' /\ Somewhere'
BY DEF IInv, Waits, Rowed, Supported, Somewhere, deviceVars, uploadVars, storedVars

(* Ingest gives a content to one document at most, and takes none away.    *)
LEMMA IngestKeeps ==
  ASSUME IInv, NEW k \in Content, NEW x \in Document, Ingest(k, x)
  PROVE  /\ holds' \in [Document -> Content \cup {NoContent}]
         /\ holds'[x] = k
         /\ \A y \in Document : y # x => holds'[y] = holds[y]
         /\ \A y \in Document : holds[y] # NoContent => holds'[y] = holds[y]
         /\ \A y, z \in Document : holds'[y] = holds'[z] /\ holds'[y] # NoContent => y = z
         /\ x = ingested => holds' = holds
BY DEF Ingest, With, IInv, TypeOK, OneDocument

LEMMA IngestCaptureOK ==
  ASSUME IInv, IngestCapture
  PROVE  IInv'
<1>1. PICK x \in Document : Ingest(ContentOf[rows[promoting]], x) /\ ingested' = x
  BY DEF IngestCapture
<1>2. /\ promoting # NoCapture /\ promoting \in Capture /\ ingested = NoDocument
      /\ UNCHANGED <<deviceVars, uploadVars, storedVars, attached, promoting, faults>>
  BY DEF IngestCapture, IInv, TypeOK
<1>3. rows[promoting] \in Draft /\ ContentOf[rows[promoting]] \in Content
  BY <1>2 DEF IInv, TypeOK, Intake
<1>4. /\ holds' \in [Document -> Content \cup {NoContent}]
      /\ holds'[x] = ContentOf[rows[promoting]]
      /\ \A y \in Document : holds[y] # NoContent => holds'[y] = holds[y]
      /\ \A y, z \in Document : holds'[y] = holds'[z] /\ holds'[y] # NoContent => y = z
  BY <1>1, <1>3, IngestKeeps
<1>5. TypeOK'
  BY <1>1, <1>2, <1>4 DEF IInv, TypeOK, deviceVars, uploadVars, storedVars
<1>6. Intake'
  BY <1>1, <1>2, <1>4 DEF IInv, Intake, storedVars
<1>7. OneDocument'
  <2>1. \A c \in Capture : attached[c] # NoDocument =>
           attached[c] \in Document /\ rows[c] \in Draft /\ holds[attached[c]] = ContentOf[rows[c]]
    BY DEF IInv, TypeOK, Intake, OneDocument
  <2>2. \A c \in Capture : attached[c] # NoDocument => holds[attached[c]] # NoContent
    BY <2>1
  <2> QED BY <1>2, <1>4, <2>1, <2>2 DEF OneDocument, storedVars
<1> QED BY <1>2, <1>5, <1>6, <1>7, IntakeFrame DEF IInv

LEMMA UploadToIntakeOK ==
  ASSUME IInv, NEW k \in Content, UploadToIntake(k)
  PROVE  IInv'
<1>1. PICK x \in Document : Ingest(k, x)
  BY DEF UploadToIntake
<1>2. UNCHANGED <<deviceVars, uploadVars, storedVars, attached, promoting, ingested, faults>>
  BY DEF UploadToIntake
<1>3. /\ holds' \in [Document -> Content \cup {NoContent}]
      /\ \A y \in Document : y # x => holds'[y] = holds[y]
      /\ \A y \in Document : holds[y] # NoContent => holds'[y] = holds[y]
      /\ \A y, z \in Document : holds'[y] = holds'[z] /\ holds'[y] # NoContent => y = z
      /\ x = ingested => holds' = holds
  BY <1>1, IngestKeeps
<1>4. TypeOK'
  BY <1>2, <1>3 DEF IInv, TypeOK, deviceVars, uploadVars, storedVars
<1>5. Intake'
  <2>1. ingested # NoDocument => holds'[ingested] = holds[ingested]
    BY <1>3 DEF IInv, TypeOK
  <2> QED BY <1>2, <2>1 DEF IInv, Intake, storedVars
<1>6. OneDocument'
  <2>1. \A c \in Capture : attached[c] # NoDocument =>
           attached[c] \in Document /\ rows[c] \in Draft /\ holds[attached[c]] = ContentOf[rows[c]]
    BY DEF IInv, TypeOK, Intake, OneDocument
  <2>2. \A c \in Capture : attached[c] # NoDocument => holds[attached[c]] # NoContent
    BY <2>1
  <2> QED BY <1>2, <1>3, <2>1, <2>2 DEF OneDocument, storedVars
<1> QED BY <1>2, <1>4, <1>5, <1>6, IntakeFrame DEF IInv

(* The document is attached if it is still there, and then holds the photo. *)
LEMMA AttachOK ==
  ASSUME IInv, Attach
  PROVE  IInv'
<1>1. /\ ingested \in Document /\ ingested # NoDocument
      /\ UNCHANGED <<deviceVars, uploadVars, storedVars, holds, faults>>
      /\ promoting' = NoCapture /\ ingested' = NoDocument
  BY DEF Attach, Unlock, IInv, TypeOK
<1>2. /\ promoting \in Capture /\ rows[promoting] # NoDraft
      /\ holds[ingested] \in {ContentOf[rows[promoting]], NoContent}
  BY <1>1 DEF IInv, TypeOK, Intake
<1>3. attached' = IF holds[ingested] = NoContent THEN attached
                  ELSE [attached EXCEPT ![promoting] = ingested]
  BY DEF Attach
<1>4. TypeOK'
  BY <1>1, <1>2, <1>3 DEF IInv, TypeOK, deviceVars, uploadVars, storedVars
<1>5. Intake' /\ OneDocument'
  BY <1>1, <1>2, <1>3 DEF IInv, TypeOK, Intake, OneDocument, storedVars
<1> QED BY <1>1, <1>4, <1>5, IntakeFrame DEF IInv

LEMMA DeleteDocumentOK ==
  ASSUME IInv, NEW x \in Document, DeleteDocument(x)
  PROVE  IInv'
<1>1. /\ UNCHANGED <<deviceVars, uploadVars, storedVars, promoting, ingested, faults>>
      /\ holds' = [holds EXCEPT ![x] = NoContent]
      /\ attached' = [c \in Capture |-> IF attached[c] = x THEN NoDocument ELSE attached[c]]
  BY DEF DeleteDocument
<1>2. TypeOK'
  BY <1>1 DEF IInv, TypeOK, deviceVars, uploadVars, storedVars
<1>3. Intake' /\ OneDocument'
  BY <1>1 DEF IInv, TypeOK, Intake, OneDocument, storedVars
<1> QED BY <1>1, <1>2, <1>3, IntakeFrame DEF IInv

LEMMA PromoteOK ==
  ASSUME IInv, PromoteFails \/ \E c \in Capture : Promote(c)
  PROVE  IInv'
<1>1. UNCHANGED <<deviceVars, uploadVars, storedVars, attached, holds>>
  BY DEF PromoteFails, Promote
<1>2. /\ promoting' # NoCapture => promoting' \in Capture /\ rows[promoting'] # NoDraft
      /\ ingested' # NoDocument => ingested' = ingested /\ promoting = NoCapture
      /\ faults' \in 0..MaxFaults
  BY DEF PromoteFails, Promote, Unlock, Fault, IInv, TypeOK
<1>3. ingested' = NoDocument
  BY <1>2 DEF IInv, Intake
<1>4. TypeOK'
  BY <1>1, <1>2, <1>3 DEF IInv, TypeOK, deviceVars, uploadVars, storedVars
<1>5. Intake' /\ OneDocument'
  BY <1>1, <1>2, <1>3 DEF IInv, Intake, OneDocument, storedVars
<1> QED BY <1>1, <1>4, <1>5, IntakeFrame DEF IInv

LEMMA CrashOK ==
  ASSUME IInv, Crash
  PROVE  IInv'
<1>1. /\ UNCHANGED <<deviceVars, tab, storedVars, attached, holds>>
      /\ promoting' = NoCapture /\ ingested' = NoDocument
      /\ faults' \in 0..MaxFaults
  BY DEF Crash, Unlock, Fault, IInv, TypeOK
<1>2. /\ save' \in [Capture -> {"none"} \cup Serving \cup Answered]
      /\ \A c \in Capture : save'[c] \in {save[c], "failed", "none"}
      /\ \A c \in Capture : save'[c] \in Serving => FALSE
      /\ \A c \in Capture : save[c] = "none" => save'[c] = "none"
      /\ \A c \in Capture : save[c] # "none" /\ Waiting(c) => save'[c] # "none"
  BY DEF Crash, IInv, TypeOK, Serving, Answered
<1>3. /\ of' \in [Capture -> Draft \cup {NoDraft}]
      /\ \A c \in Capture : of'[c] = IF save'[c] = "none" THEN NoDraft ELSE of[c]
  BY DEF Crash, IInv, TypeOK
<1>4. TypeOK'
  BY <1>1, <1>2, <1>3 DEF IInv, TypeOK, deviceVars, storedVars
<1>5. Waits'
  BY <1>1, <1>2, <1>3 DEF IInv, TypeOK, Waits, Waiting, deviceVars, storedVars
<1>6. Rowed'
  BY <1>1, <1>2, <1>3 DEF IInv, Rowed, Serving, storedVars
<1>7. Somewhere' /\ Intake' /\ OneDocument'
  BY <1>1 DEF IInv, Somewhere, Intake, OneDocument, deviceVars, storedVars
<1>8. Supported'
  BY <1>1, <1>2, <1>3 DEF IInv, TypeOK, Supported, Serving, deviceVars, storedVars
<1> QED BY <1>4, <1>5, <1>6, <1>7, <1>8 DEF IInv

-----------------------------------------------------------------------------
LEMMA StepOK == IInv /\ [Next]_vars => IInv'
<1> SUFFICES ASSUME IInv, [Next]_vars PROVE IInv'
  OBVIOUS
<1>1. CASE UNCHANGED vars
  BY <1>1 DEF IInv, TypeOK, Waits, Rowed, Supported, Somewhere, Intake, OneDocument,
              vars, deviceVars, uploadVars, storedVars, intakeVars
<1>2. ASSUME NEW u \in Tab, PageStep(u) PROVE IInv'
  BY <1>2, DeviceOK, UploadOK, ReturnOK DEF PageStep
<1>3. ASSUME NEW c \in Capture, SaveStep(c) PROVE IInv'
  BY <1>3, SaveOK DEF SaveStep, SaveAction
<1>4. ASSUME IntakeStep PROVE IInv'
  BY <1>4, PromoteOK, IngestCaptureOK, AttachOK, UploadToIntakeOK, DeleteDocumentOK DEF IntakeStep
<1>5. ASSUME FaultStep PROVE IInv'
  BY <1>5, ReturnOK, SignInOK, SaveOK, PromoteOK, CrashOK DEF FaultStep, SaveAction
<1> QED BY <1>1, <1>2, <1>3, <1>4, <1>5, SignInOK DEF Next

LEMMA Invariant == Spec => []IInv
BY InitOK, StepOK, PTL DEF Spec

(* A row with a file shows the photo; one without is torn.                 *)
LEMMA KeptOK == IInv => Kept
<1> SUFFICES ASSUME IInv, NEW d \in taken \ (discarded \cup torn), d \notin drafts
             PROVE  Stored(d)
  BY DEF Kept
<1>1. PICK e \in Capture : rows[e] = d
  BY DEF IInv, Somewhere
<1>2. rows[e] # NoDraft
  BY <1>1 DEF IInv, TypeOK
<1> QED BY <1>1, <1>2 DEF IInv, Rowed, Stored

(* Types hold, and a photo never has two rows: two tabs, retries and lost  *)
(* answers store it once.                                                  *)
THEOREM TypeCorrect == Spec => []TypeOK
<1>1. IInv => TypeOK
  BY DEF IInv
<1> QED BY <1>1, Invariant, PTL

(* A photo that was saved as a draft and not discarded is on the device or *)
(* stored with its row and its file, unless a commit was answered with an  *)
(* error: HouseholdCaptureService.save and upload of the page.             *)
THEOREM AlwaysKept == Spec => []Kept
BY Invariant, KeptOK, PTL

(* Intake holds no content twice, and a capture's document is there and    *)
(* holds its photo: ingest_document, attach_document, delete_document.     *)
THEOREM AlwaysOneDocument == Spec => []OneDocument
<1>1. IInv => OneDocument
  BY DEF IInv
<1> QED BY <1>1, Invariant, PTL

-----------------------------------------------------------------------------
(* What is stored stays, and what leaves the device is stored.             *)

(* The row and the file of a stored photo are never taken from it again by *)
(* a second upload, a failed insert or an unanswered commit; and a tab     *)
(* deletes a draft only if the member discards it or the server has it,    *)
(* but for the photo of a row whose commit was answered with an error. One *)
(* the endpoint refuses leaves only if it is discarded (capture,           *)
(* HouseholdCaptureService.save, upload and discard of the page).          *)
StoredForGood ==
    [][/\ \A d \in Draft : Stored(d) => Stored(d)'
       /\ \A d \in drafts \ drafts' :
            d \in discarded' \/ (d \notin unsupported /\ (d \in torn \/ Stored(d)))]_vars

LEMMA RowsAndFilesStay ==
  ASSUME IInv, [Next]_vars, NEW c \in Capture, rows[c] # NoDraft
  PROVE  rows'[c] = rows[c] /\ (c \in files => c \in files')
<1>1. ASSUME NEW e \in Capture, save[e] = "written",
             rows' = rows \/ rows' = WithRow(e),
             files' = files \/ files' = files \ {e} \/ files' = files \cup {e}
      PROVE  rows'[c] = rows[c] /\ (c \in files => c \in files')
  <2>1. e # c
    BY <1>1 DEF IInv, Rowed
  <2>2. rows'[c] = rows[c]
    BY <1>1, <2>1 DEF WithRow, IInv, TypeOK
  <2> QED BY <1>1, <2>1, <2>2
<1>2. ASSUME NEW e \in Capture, Insert(e) \/ CommitUnanswered(e)
      PROVE  rows'[c] = rows[c] /\ (c \in files => c \in files')
  BY <1>1, <1>2 DEF Insert, CommitUnanswered
<1>3. ASSUME NEW e \in Capture, DatabaseFails(e)
      PROVE  rows'[c] = rows[c] /\ (c \in files => c \in files')
  <2>1. CASE save[e] = "written"
    BY <1>1, <1>3, <2>1 DEF DatabaseFails
  <2>2. CASE save[e] # "written"
    BY <1>3, <2>2 DEF DatabaseFails
  <2> QED BY <2>1, <2>2
<1>4. ASSUME NEW e \in Capture, Write(e)
      PROVE  rows'[c] = rows[c] /\ (c \in files => c \in files')
  BY <1>4 DEF Write
<1>5. CASE UNCHANGED <<rows, files>>
  BY <1>5
<1> QED
  BY <1>2, <1>3, <1>4, <1>5 DEF Next, vars, PageStep, SaveStep, IntakeStep, FaultStep,
     Reload, Uploaded, NotUploaded, Take, Upload, Discard, CutOff, CloseTab, SwitchMember,
     SwitchBack, Refuse, Respond,
     WriteFails, Promote, IngestCapture, Attach, UploadToIntake, DeleteDocument,
     PromoteFails, Crash, storedVars

LEMMA DraftGoes ==
  ASSUME IInv, [Next]_vars, NEW d \in drafts, d \notin drafts'
  PROVE  d \in discarded' \/ (d \notin unsupported /\ (d \in torn \/ Stored(d)))
<1>1. ASSUME NEW u \in Tab, Uploaded(u)
      PROVE  d \notin unsupported /\ (d \in torn \/ Stored(d))
  <2>1. tab[u] \in Capture /\ save[tab[u]] = "saved" /\ of[tab[u]] = d
    BY <1>1 DEF Uploaded, IInv, TypeOK
  <2>2. PICK e \in Capture : rows[e] = d
    BY <2>1 DEF IInv, Rowed
  <2>3. d # NoDraft
    BY <2>1, Photo
  <2>4. d \notin unsupported
    BY <2>1 DEF IInv, Supported
  <2> QED BY <2>2, <2>3, <2>4 DEF IInv, Rowed, Stored
<1>2. ASSUME NEW u \in Tab, NEW e \in Draft, Discard(u, e)
      PROVE  d \in discarded'
  BY <1>2 DEF Discard
<1>3. ASSUME NEW u \in Tab,
             Reload(u) \/ NotUploaded(u) \/ CutOff(u) \/ CloseTab(u)
               \/ \E e \in Draft : Take(u, e) \/ Upload(u, e)
      PROVE  drafts \subseteq drafts'
  BY <1>3 DEF Reload, NotUploaded, CutOff, CloseTab, Take, Upload, deviceVars
<1>4. ASSUME NEW c \in Capture, SaveAction(c)
      PROVE  drafts \subseteq drafts'
  BY <1>4 DEF SaveAction, Refuse, Write, Insert, Respond, WriteFails, DatabaseFails,
              CommitUnanswered, deviceVars
<1>5. CASE SwitchMember \/ SwitchBack \/ IntakeStep \/ PromoteFails \/ Crash
  BY <1>5 DEF SwitchMember, SwitchBack, IntakeStep, Promote, IngestCapture, Attach,
              UploadToIntake, DeleteDocument, PromoteFails, Crash, deviceVars
<1>6. CASE UNCHANGED vars
  BY <1>6 DEF vars, deviceVars
<1>7. ASSUME NEW u \in Tab, PageStep(u)
      PROVE  d \in discarded' \/ (d \notin unsupported /\ (d \in torn \/ Stored(d)))
  <2>1. CASE Uploaded(u)
    BY <1>1, <2>1
  <2>2. CASE \E e \in Draft : Discard(u, e)
    BY <1>2, <2>2
  <2>3. CASE Reload(u) \/ NotUploaded(u) \/ \E e \in Draft : Take(u, e) \/ Upload(u, e)
    BY <1>3, <2>3
  <2> QED BY <1>7, <2>1, <2>2, <2>3 DEF PageStep
<1>8. ASSUME NEW u \in Tab, CutOff(u) \/ CloseTab(u)
      PROVE  FALSE
  BY <1>3, <1>8
<1>9. ASSUME NEW c \in Capture, SaveAction(c)
      PROVE  FALSE
  BY <1>4, <1>9
<1>10. \A c \in Capture : ~SaveStep(c) /\ ~WriteFails(c) /\ ~DatabaseFails(c) /\ ~CommitUnanswered(c)
  BY <1>9 DEF SaveStep, SaveAction
<1> QED
  BY <1>5, <1>6, <1>7, <1>8, <1>10 DEF Next, FaultStep

(* Nothing undoes the storing of a photo, and no tab drops a draft before  *)
(* it: neither retries, nor a second tab, nor any failure.                 *)
THEOREM AlwaysStoredForGood == Spec => StoredForGood
<1> DEFINE Keeps ==
      /\ \A d \in Draft : Stored(d) => Stored(d)'
      /\ \A d \in drafts \ drafts' :
           d \in discarded' \/ (d \notin unsupported /\ (d \in torn \/ Stored(d)))
<1>1. ASSUME IInv, [Next]_vars PROVE Keeps
  <2>1. ASSUME NEW d \in Draft, Stored(d) PROVE Stored(d)'
    <3>1. PICK c \in files : rows[c] = d
      BY <2>1 DEF Stored
    <3>2. c \in Capture /\ rows[c] # NoDraft
      BY <1>1, <3>1 DEF IInv, TypeOK
    <3>3. c \in files' /\ rows'[c] = d
      BY <1>1, <3>1, <3>2, RowsAndFilesStay
    <3> QED BY <3>3 DEF Stored
  <2>2. \A d \in drafts \ drafts' :
          d \in discarded' \/ (d \notin unsupported /\ (d \in torn \/ Stored(d)))
    BY <1>1, DraftGoes
  <2> QED BY <2>1, <2>2
<1>2. IInv /\ [Next]_vars => [Keeps]_vars
  BY <1>1
<1>3. StoredForGood <=> [][Keeps]_vars
  BY DEF StoredForGood
<1> HIDE DEF Keeps
<1> QED BY <1>2, <1>3, Invariant, PTL DEF Spec
=============================================================================
