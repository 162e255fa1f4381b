-------------------------------- MODULE Images -------------------------------
(***************************************************************************)
(* Uploaded images of one owner (a user's avatar, a market's or an         *)
(* outcome's thumbnail): the upload use cases over the shared `store'      *)
(* helper (application/.../image.rs), the local file storage, and a client *)
(* that keeps what it downloads as Cache-Control tells it to.              *)
(*                                                                         *)
(* An owner's file lies under <folder>/<owner>.<ext>, so uploads of one    *)
(* owner meet in its keys and in its row; nothing orders them.  Every file *)
(* operation and the update of the row is a step of its own, and a write   *)
(* is two, because tokio::fs::write truncates before it writes.  Keys of   *)
(* different owners never meet, hence one owner.                           *)
(***************************************************************************)
EXTENDS Naturals, FiniteSets

CONSTANTS Uploads,      \* requests that passed validation
          Exts,         \* extensions images are stored under
          MaxSeconds    \* bound: seconds that pass

ASSUME ImagesAssumption == MaxSeconds \in Nat /\ "none" \notin Uploads /\ "torn" \notin Uploads

VARIABLES step,     \* where each upload stands
          ext,      \* the extension of its content type
          left,     \* variants it has still to remove
          stamp,    \* the second its URL was made in
          files,    \* the file under each extension: none, torn (cut short or mixed), or an upload's image
          url,      \* the URL in the owner's row, with the upload that wrote it
          clock,    \* seconds
          cached,   \* what one client has downloaded: URL and image
          since     \* history: uploads that ran at some time since each one started

imagesVars == <<step, ext, left, stamp, files, url, clock, cached, since>>

Underway == {"deleting", "opened", "detached", "written", "stamped"}
Versions == 0 .. MaxSeconds
Image == Uploads \cup {"none", "torn"}
Url == [ext : Exts, v : Versions]
Row == [ext : Exts, v : Versions, by : Uploads]
NoUrl == [by |-> "none"]
UrlIn(row) == [ext |-> row.ext, v |-> row.v]

ImagesTypeOK ==
  /\ step \in [Uploads -> {"idle", "saved", "failed"} \cup Underway]
  /\ ext \in [Uploads -> Exts] /\ left \in [Uploads -> SUBSET Exts]
  /\ stamp \in [Uploads -> Versions] /\ files \in [Exts -> Image]
  /\ url \in Row \cup {NoUrl} /\ clock \in Versions
  /\ cached \subseteq [url : Url, image : Image] /\ since \in [Uploads -> SUBSET Uploads]

ImagesInit ==
  /\ step = [r \in Uploads |-> "idle"]
  /\ ext \in [Uploads -> Exts]
  /\ left = [r \in Uploads |-> {}]
  /\ stamp = [r \in Uploads |-> 0]
  /\ files = [e \in Exts |-> "none"]
  /\ url = NoUrl /\ clock = 0 /\ cached = {}
  /\ since = [r \in Uploads |-> {}]

InFlight == {r \in Uploads : step[r] \in Underway}

\* Mutant: one variant is forgotten.
VariantsButOne(e) == Exts \ {e, CHOOSE o \in Exts : o # e}

\* Every other extension the owner may have a file under.
Variants(e) == Exts \ {e}

\* The owner is found; the type and the size were accepted.
StartUpload(r) ==
  /\ step[r] = "idle"
  /\ step' = [step EXCEPT ![r] = "deleting"]
  /\ left' = [left EXCEPT ![r] = Variants(ext[r])]
  /\ since' = [u \in Uploads |-> IF u = r THEN InFlight \cup {r}
                                 ELSE IF step[u] = "idle" THEN {} ELSE since[u] \cup {r}]
  /\ UNCHANGED <<ext, stamp, files, url, clock, cached>>

\* delete of one variant; a missing file is no error.  An upload that has the
\* file open goes on writing to what no longer has a name.
DeleteVariant(r, e) ==
  /\ step[r] = "deleting" /\ e \in left[r]
  /\ left' = [left EXCEPT ![r] = @ \ {e}]
  /\ files' = [files EXCEPT ![e] = "none"]
  /\ step' = [u \in Uploads |-> IF step[u] = "opened" /\ ext[u] = e THEN "detached" ELSE step[u]]
  /\ UNCHANGED <<ext, stamp, url, clock, cached, since>>

\* put: the file is created, or what it held is cut off.
OpenFile(r) ==
  /\ step[r] = "deleting" /\ left[r] = {}
  /\ step' = [step EXCEPT ![r] = "opened"]
  /\ files' = [files EXCEPT ![ext[r]] = "torn"]
  /\ UNCHANGED <<ext, left, stamp, url, clock, cached, since>>

\* put: the bytes are written from the start of the file.  If another upload
\* wrote in between, the end of a longer image may stick out.
WriteFile(r) ==
  /\ step[r] \in {"opened", "detached"}
  /\ step' = [step EXCEPT ![r] = "written"]
  /\ \/ step[r] = "opened" /\ files' = [files EXCEPT ![ext[r]] = r]
     \/ step[r] = "opened" /\ files[ext[r]] # "torn" /\ files' = [files EXCEPT ![ext[r]] = "torn"]
     \/ step[r] = "detached" /\ UNCHANGED files
  /\ UNCHANGED <<ext, left, stamp, url, clock, cached, since>>

\* public_url and the time stamp.
Stamp(r) ==
  /\ step[r] = "written"
  /\ step' = [step EXCEPT ![r] = "stamped"]
  /\ stamp' = [stamp EXCEPT ![r] = clock]
  /\ UNCHANGED <<ext, left, files, url, clock, cached, since>>

\* Mutant: the URL carries no version.
VersionConstant(t) == 0

\* `?v=<seconds>'.
Version(t) == t

\* The row is pointed at the file (for an avatar the whole row, see UserCache).
SaveRow(r) ==
  /\ step[r] = "stamped"
  /\ step' = [step EXCEPT ![r] = "saved"]
  /\ url' = [ext |-> ext[r], v |-> Version(stamp[r]), by |-> r]
  /\ UNCHANGED <<ext, left, stamp, files, clock, cached, since>>

\* An I/O or database error, a dropped request, or the end of the process: what
\* was done to the files stays done.  A file operation that is under way when the
\* request is dropped still completes (tokio::fs runs it on a thread of its own):
\* the failure is the moment after the last of its effects.
FailUpload(r) ==
  /\ step[r] \in Underway
  /\ step' = [step EXCEPT ![r] = "failed"]
  /\ UNCHANGED <<ext, left, stamp, files, url, clock, cached, since>>

Tick ==
  /\ clock < MaxSeconds
  /\ clock' = clock + 1
  /\ UNCHANGED <<step, ext, left, stamp, files, url, cached, since>>

\* A client asks for a URL it has seen in the row and keeps the answer; a
\* missing file is a 404, which is not kept.
Download ==
  /\ url # NoUrl
  /\ \A c \in cached : c.url # UrlIn(url)
  /\ files[url.ext] # "none"
  /\ cached' = cached \cup {[url |-> UrlIn(url), image |-> files[url.ext]]}
  /\ UNCHANGED <<step, ext, left, stamp, files, url, clock, since>>

\* max-age has passed.
CacheExpires(c) ==
  /\ cached' = cached \ {c}
  /\ UNCHANGED <<step, ext, left, stamp, files, url, clock, since>>

UploadStep(r) ==
  \/ StartUpload(r) \/ (\E e \in Exts : DeleteVariant(r, e)) \/ OpenFile(r) \/ WriteFile(r)
  \/ Stamp(r) \/ SaveRow(r) \/ FailUpload(r)

ImagesNext ==
  (\E r \in Uploads : UploadStep(r)) \/ Tick \/ Download \/ \E c \in cached : CacheExpires(c)

ImagesSpec == ImagesInit /\ [][ImagesNext]_imagesVars

-----------------------------------------------------------------------------
(* Properties *)

\* Uploads other than the one the row stems from that ran since it started.
Disturbers == since[url.by] \ {url.by}

\* Once uploads are over, the row's URL names a stored file, which is the image
\* of the upload that wrote the row, and no variant of an earlier type is left
\* beside it (image.rs: "variants stored under a different extension are
\* removed"), unless another upload overlapped that one or failed after it; and
\* even then the file is there when every such upload had the same type.
StorageMatchesRow ==
  (InFlight = {} /\ url # NoUrl) =>
    /\ Disturbers = {} => files = [e \in Exts |-> IF e = url.ext THEN url.by ELSE "none"]
    /\ (\A u \in Disturbers : ext[u] = url.ext) => files[url.ext] # "none"

\* What a client keeps for the URL now in the row is the row's image (files.rs:
\* "Safe to cache: image URLs carry a `?v=` that changes on re-upload"), unless
\* another upload disturbed that one, or one of the same type was made in the
\* same second: the version counts seconds.
CachedImageIsCurrent ==
  \A c \in cached :
    (url # NoUrl /\ c.url = UrlIn(url) /\ Disturbers = {}) =>
      \/ c.image = url.by
      \/ \E u \in Uploads \ {url.by} :
           step[u] = "saved" /\ ext[u] = url.ext /\ stamp[u] = stamp[url.by]
=============================================================================
