---------------------------- MODULE CreativePicker ----------------------------
(***************************************************************************)
(* How the dashboard gives an ad its media.  The ad form                   *)
(* (components/ads/ad-form.tsx) holds one creative; the picker inside it   *)
(* (creative-picker.tsx) fills it from two tabs, each of which waits for   *)
(* an answer before it commits: the URL tab for the probe of lib/media.ts, *)
(* the upload tab for /api/upload and the PUT to the bucket.  Saving sends *)
(* the creative of that moment to ads/_actions.ts, which writes the row.   *)
(*                                                                         *)
(* The operator goes on while an answer is pending: changes tab, leaves    *)
(* the page, opens it again.  A component that is gone takes no update,    *)
(* but a callback that outlives its tab still reaches the form above it.   *)
(* S3 is configured; without it only the URL tab can be used.              *)
(***************************************************************************)
EXTENDS Naturals, Sequences

CONSTANTS
  Urls,        (* what the operator may type                             *)
  Refused,     (* those the probe refuses before it sends any request    *)
  Keys,        (* object keys /api/upload makes: one for each upload     *)
  Responses,   (* what an origin may answer: [status, mime, large]       *)
  MaxOpens,    (* bound: visits of the edit page                         *)
  MaxCalls     (* bound: server actions waiting at the same time         *)

ASSUME PickerAssumption ==
  /\ Refused \subseteq Urls /\ Urls \cap Keys = {} /\ "" \notin Urls
  /\ MaxOpens \in Nat /\ MaxCalls \in Nat

(* Content types: HLS is written in two ways, and File.type may be empty.   *)
MediaMimes  == {"mp4", "x-mpegurl"}      (* ALLOWED_MIMES of lib/media.ts   *)
SchemaMimes == {"mp4", "x-mpegURL"}      (* ALLOWED_MIMES of ads/_actions.ts *)
FileTypes   == {"", "mp4", "x-mpegurl", "webm"}

NoMedia == [source |-> "none"]
Lost    == [status |-> 0, mime |-> "", large |-> FALSE]

External(url, mime) ==
  [source |-> "external_url", media |-> url, mime |-> mime]
Internal(key, mime) ==
  [source |-> "internal_s3", media |-> key, mime |-> mime]
Creative ==
  {External(u, m) : u \in Urls, m \in MediaMimes}
    \cup {Internal(k, m) : k \in Keys, m \in MediaMimes}

(* How much of the page that began a call is still there.                   *)
Reach == {"tab", "form", "gone"}

VARIABLES
  row,        (* the media columns of the ad                             *)
  visiting,   (* the form is open                                        *)
  opens,
  creative,   (* AdForm's state                                          *)
  tab,        (* CreativePicker's activeTab                              *)
  text,       (* UrlTab's url                                            *)
  progress,   (* UploadTab's progress: none, some, full                  *)
  calls,      (* server actions, in the order Next.js runs them          *)
  uploads,    (* for each key, where its handleFile is                   *)
  served,     (* history: <<url, mime>> an origin was seen to serve      *)
  stored      (* <<key, mime>> in the bucket                             *)

pickerVars == <<row, visiting, opens, creative, tab, text, progress, calls, uploads,
          served, stored>>

Call == [kind : {"probe"}, media : Urls, reach : Reach]
          \cup [kind : {"save"}, media : Creative, reach : Reach]
Upload == [stage : {"presign", "put"}, mime : FileTypes \ {""}, reach : Reach]
            \cup [stage : {"unused", "ended"}]

PickerTypeOK ==
  /\ row \in Creative \cup {NoMedia} /\ creative \in Creative \cup {NoMedia}
  /\ visiting \in BOOLEAN /\ opens \in 0..MaxOpens
  /\ tab \in {"url", "upload"} /\ text \in Urls \cup {""}
  /\ progress \in {"none", "some", "full"}
  /\ calls \in Seq(Call) /\ Len(calls) <= MaxCalls
  /\ uploads \in [Keys -> Upload]
  /\ served \subseteq Urls \X MediaMimes /\ stored \subseteq Keys \X MediaMimes

(* The ad is new, or it already has a URL that was validated then.          *)
PickerInit ==
  /\ row \in {NoMedia} \cup {External(u, "mp4") : u \in Urls \ Refused}
  /\ served = IF row = NoMedia THEN {} ELSE {<<row.media, row.mime>>}
  /\ stored = {}
  /\ visiting = FALSE /\ opens = 0
  /\ creative = NoMedia /\ tab = "url" /\ text = "" /\ progress = "none"
  /\ calls = <<>>
  /\ uploads = [k \in Keys |-> [stage |-> "unused"]]

-----------------------------------------------------------------------------
(* The probe: HEAD, then a ranged GET when the origin refuses HEAD.         *)

LowerMime(mime) == IF mime = "x-mpegURL" THEN "x-mpegurl" ELSE mime

Answer(head, get) == IF head.status \in {405, 501} THEN get ELSE head

Accepted(url, resp) ==
  /\ url \notin Refused
  /\ resp.status \in 200..299
  /\ LowerMime(resp.mime) \in MediaMimes
  /\ ~resp.large

ProbeExternalMediaURL(url, head, get) ==
  LET resp == Answer(head, get)
  IN IF Accepted(url, resp) THEN External(url, LowerMime(resp.mime)) ELSE NoMedia

-----------------------------------------------------------------------------
(* Components that mount and unmount.                                       *)

UrlOf(value) == IF value.source = "external_url" THEN value.media ELSE ""
TabOf(value) == IF value.source = "internal_s3" THEN "upload" ELSE "url"

Under(reach, lost) ==
  CASE lost = "tab"  -> IF reach = "tab" THEN "form" ELSE reach
    [] lost = "form" -> "gone"

(* Every call in flight has lost the tab, or the form, that began it.       *)
Unmount(lost) ==
  /\ calls' = [i \in DOMAIN calls |->
                 [calls[i] EXCEPT !.reach = Under(@, lost)]]
  /\ uploads' = [k \in Keys |->
                   IF uploads[k].stage \in {"presign", "put"}
                   THEN [uploads[k] EXCEPT !.reach = Under(@, lost)]
                   ELSE uploads[k]]

(* The form closes and the call at the head of the queue is over.           *)
CloseAfterCall ==
  /\ visiting' = FALSE
  /\ calls' = [i \in 1..(Len(calls) - 1) |->
                 [calls[i + 1] EXCEPT !.reach = "gone"]]
  /\ uploads' = [k \in Keys |->
                   IF uploads[k].stage \in {"presign", "put"}
                   THEN [uploads[k] EXCEPT !.reach = "gone"]
                   ELSE uploads[k]]

(* onCommit(value): the form takes it from a tab that is there or not.      *)
Commit(reach, value) ==
  creative' = IF reach = "gone" THEN creative ELSE value

Pending(kind, reaches) ==
  \E i \in DOMAIN calls : calls[i].kind = kind /\ calls[i].reach \in reaches
Validating == Pending("probe", {"tab"})
Saving     == Pending("save", {"tab", "form"})

-----------------------------------------------------------------------------
(* The operator.                                                            *)

Open ==
  /\ ~visiting /\ opens < MaxOpens
  /\ visiting' = TRUE /\ opens' = opens + 1
  /\ creative' = row
  /\ tab' = TabOf(row) /\ text' = UrlOf(row) /\ progress' = "none"
  /\ UNCHANGED <<row, calls, uploads, served, stored>>

Leave ==
  /\ visiting
  /\ visiting' = FALSE
  /\ Unmount("form")
  /\ UNCHANGED <<row, opens, creative, tab, text, progress, served, stored>>

(* The hidden panel unmounts; the shown one mounts with what is committed.  *)
SwitchTab ==
  /\ visiting
  /\ tab' = IF tab = "url" THEN "upload" ELSE "url"
  /\ text' = UrlOf(creative) /\ progress' = "none"
  /\ Unmount("tab")
  /\ UNCHANGED <<row, visiting, opens, creative, served, stored>>

EditUrl(url) ==
  /\ visiting /\ tab = "url" /\ ~Validating
  /\ text' = url
  /\ creative' = NoMedia
  /\ UNCHANGED <<row, visiting, opens, tab, progress, calls, uploads, served, stored>>

Validate ==
  /\ visiting /\ tab = "url" /\ ~Validating
  /\ text # "" /\ Len(calls) < MaxCalls
  /\ calls' = Append(calls, [kind |-> "probe", media |-> text, reach |-> "tab"])
  /\ UNCHANGED <<row, visiting, opens, creative, tab, text, progress, uploads,
                 served, stored>>

(* Mutant: a file without a type is sent as it is. *)
ChooseFileUntyped(k, type) ==
  /\ visiting /\ tab = "upload" /\ progress # "some"
  /\ uploads[k].stage = "unused"
  /\ uploads' = [uploads EXCEPT ![k] =
                   [stage |-> "presign", reach |-> "tab", mime |-> type]]
  /\ progress' = "some"
  /\ UNCHANGED <<row, visiting, opens, creative, tab, text, calls, served, stored>>

ChooseFile(k, type) ==
  /\ visiting /\ tab = "upload" /\ progress # "some"
  /\ uploads[k].stage = "unused"
  /\ uploads' = [uploads EXCEPT ![k] =
                   [stage |-> "presign", reach |-> "tab",
                    mime |-> IF type = "" THEN "mp4" ELSE type]]
  /\ progress' = "some"
  /\ UNCHANGED <<row, visiting, opens, creative, tab, text, calls, served, stored>>

(* The button asks for a creative and no save under way, not for a tab at rest. *)
Submit ==
  /\ visiting /\ ~Saving /\ creative # NoMedia
  /\ Len(calls) < MaxCalls
  /\ calls' = Append(calls, [kind |-> "save", media |-> creative, reach |-> "form"])
  /\ UNCHANGED <<row, visiting, opens, creative, tab, text, progress, uploads,
                 served, stored>>

-----------------------------------------------------------------------------
(* Answers to server actions: Next.js sends a page's actions one at a time. *)

ProbeAnswered(head, get) ==
  /\ calls # <<>> /\ Head(calls).kind = "probe"
  /\ LET call == Head(calls)
         resp == Answer(head, get)
         seen == {<<call.media, m>> : m \in MediaMimes \cap {LowerMime(resp.mime)}}
     IN /\ served' = IF call.media \notin Refused /\ resp.status \in 200..299
                        /\ ~resp.large
                     THEN served \cup seen ELSE served
        /\ Commit(call.reach, ProbeExternalMediaURL(call.media, head, get))
  /\ calls' = Tail(calls)
  /\ UNCHANGED <<row, visiting, opens, tab, text, progress, uploads, stored>>

(* The mime is not the schema's, or another field of the form is wrong.     *)
SaveRefused ==
  /\ calls # <<>> /\ Head(calls).kind = "save"
  /\ calls' = Tail(calls)
  /\ UNCHANGED <<row, visiting, opens, creative, tab, text, progress, uploads,
                 served, stored>>

(* insert or update, then redirect: Next.js may or may not follow the       *)
(* redirect of a form the operator has left for another.                    *)
SaveAccepted ==
  /\ calls # <<>> /\ Head(calls).kind = "save"
  /\ Head(calls).media.mime \in SchemaMimes
  /\ row' = Head(calls).media
  /\ \/ CloseAfterCall
     \/ /\ Head(calls).reach = "gone"
        /\ calls' = Tail(calls)
        /\ UNCHANGED <<visiting, uploads>>
  /\ UNCHANGED <<opens, creative, tab, text, progress, served, stored>>

(* The call fails (the session expired, the answer is lost): the page goes  *)
(* to the login or the error page.  A save may have been written by then.   *)
CallFails ==
  /\ calls # <<>>
  /\ \/ UNCHANGED row
     \/ /\ Head(calls).kind = "save"
        /\ Head(calls).media.mime \in SchemaMimes
        /\ row' = Head(calls).media
  /\ CloseAfterCall
  /\ UNCHANGED <<opens, creative, tab, text, progress, served, stored>>

-----------------------------------------------------------------------------
(* handleFile, which goes on when its tab is hidden or its form left.       *)

ShowProgress(k, value) ==
  progress' = IF uploads[k].reach = "tab" THEN value ELSE progress

(* Mutant: the key is committed as soon as /api/upload returns it. *)
PresignedCommits(k) ==
  /\ uploads[k].stage = "presign" /\ uploads[k].mime \in MediaMimes
  /\ uploads' = [uploads EXCEPT ![k].stage = "put"]
  /\ Commit(uploads[k].reach, Internal(k, uploads[k].mime))
  /\ UNCHANGED <<row, visiting, opens, tab, text, progress, calls, served, stored>>

Presigned(k) ==
  /\ uploads[k].stage = "presign" /\ uploads[k].mime \in MediaMimes
  /\ uploads' = [uploads EXCEPT ![k].stage = "put"]
  /\ UNCHANGED <<row, visiting, opens, creative, tab, text, progress, calls,
                 served, stored>>

(* The bar shows 100 as soon as the bytes are sent, before the answer.      *)
Progressed(k) ==
  /\ uploads[k].stage = "put"
  /\ ShowProgress(k, "full")
  /\ UNCHANGED <<row, visiting, opens, creative, tab, text, calls, uploads,
                 served, stored>>

Uploaded(k) ==
  /\ uploads[k].stage = "put"
  /\ stored' = stored \cup {<<k, uploads[k].mime>>}
  /\ ShowProgress(k, "full")
  /\ Commit(uploads[k].reach, Internal(k, uploads[k].mime))
  /\ uploads' = [uploads EXCEPT ![k] = [stage |-> "ended"]]
  /\ UNCHANGED <<row, visiting, opens, tab, text, calls, served>>

(* Presign or PUT fails; a PUT whose answer is lost may have stored the object. *)
UploadFails(k) ==
  /\ uploads[k].stage \in {"presign", "put"}
  /\ \/ UNCHANGED stored
     \/ /\ uploads[k].stage = "put"
        /\ stored' = stored \cup {<<k, uploads[k].mime>>}
  /\ ShowProgress(k, "none")
  /\ Commit(uploads[k].reach, NoMedia)
  /\ uploads' = [uploads EXCEPT ![k] = [stage |-> "ended"]]
  /\ UNCHANGED <<row, visiting, opens, tab, text, calls, served>>

-----------------------------------------------------------------------------
Operator ==
  \/ Open \/ Leave \/ SwitchTab \/ Validate \/ Submit
  \/ \E u \in Urls \cup {""} : EditUrl(u)
  \/ \E k \in Keys, type \in FileTypes : ChooseFile(k, type)

Network ==
  \/ \E head \in Responses \cup {Lost}, get \in Responses \cup {Lost} :
       ProbeAnswered(head, get)
  \/ SaveRefused \/ SaveAccepted \/ CallFails
  \/ \E k \in Keys : Presigned(k) \/ Progressed(k) \/ Uploaded(k) \/ UploadFails(k)

PickerNext == Operator \/ Network

PickerSpec == PickerInit /\ [][PickerNext]_pickerVars

-----------------------------------------------------------------------------
(* The ad's row names media that is there: a URL whose origin answered a    *)
(* probe of that very URL with that content type, or a key whose upload     *)
(* reached the bucket with that content type.  Whatever was typed, switched *)
(* or left while answers were pending, no row pairs one URL with another's  *)
(* verdict or runs ahead of an upload (creative-picker.tsx:96-114,171-222,  *)
(* ad-form.tsx:122-125).                                                    *)
SavedMediaExists ==
  row # NoMedia =>
    <<row.media, row.mime>> \in
       (IF row.source = "internal_s3" THEN stored ELSE served)
=============================================================================
