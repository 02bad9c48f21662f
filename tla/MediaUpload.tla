---------------------------- MODULE MediaUpload -----------------------------
(***************************************************************************)
(* handlers/image.rs: profile pictures and life story images of proxies,   *)
(* and avatars of trees.                                                   *)
(*                                                                         *)
(* An upload reads the row, receives the body, checks the uploader's       *)
(* storage, removes the files of its slot extension by extension, writes   *)
(* the new file and then the row.  Each of these is a stage: other uploads,*)
(* updates and deletions get in between, and a client that hangs up, a     *)
(* failing disk or the end of the process stops an upload at any of them.  *)
(* What a stage has handed to the disk or the database before the client   *)
(* hung up may still be carried out: until then the upload is under way.   *)
(* Images are their number of bytes.                                       *)
(***************************************************************************)
EXTENDS Integers, FiniteSets, Sequences, FiniteSetsExt

CONSTANTS
    Proxies,        \* person proxies
    AvatarTrees,    \* trees
    Slots,          \* the slots looked at
    Types,          \* the extensions looked at
    Identities,     \* user ids and user names
    FirstCreator,   \* created_by of each proxy at first: the client chose it
    NewCreators,    \* identities the clients put in its place
    Uploaders,      \* users who may write to every proxy
    UserId,         \* the user id of each (the token's sub)
    UserName,       \* the user name of each
    StorageLimit,   \* storage_limit_bytes of each uploader's plan
    Sizes,          \* sizes of images
    MaxUploads,     \* bound: uploads made
    MaxUploading,   \* bound: uploads under way at a time
    NoExt, NoRow

Uploads == 1 .. MaxUploads

AllSlots == ({"image", "life"} \X Proxies) \cup ({"tree"} \X AvatarTrees)

\* Extensions accepted for a slot, and those removed before a new file is written.
Accepted(s) == IF s[1] = "life" THEN {"jpg", "png", "gif", "webp"} ELSE {"jpg", "png"}

\* Mutant: the removal list of avatars used for every slot.
ShortRemovals(s) == <<"jpg", "png">>

Removed(s) ==
    IF s[1] = "life" THEN <<"jpg", "jpeg", "png", "gif", "webp">> ELSE <<"jpg", "png">>

Exts == {"jpg", "jpeg", "png", "gif", "webp"}

ASSUME MediaAssumption ==
    /\ Slots \subseteq AllSlots
    /\ IsFiniteSet(Slots)
    /\ Types \subseteq Exts
    /\ FirstCreator \in [Proxies -> Identities]
    /\ NewCreators \subseteq Identities
    /\ UserId \in [Uploaders -> Identities]
    /\ UserName \in [Uploaders -> Identities]
    /\ StorageLimit \in [Uploaders -> Nat]
    /\ Sizes \subseteq Nat \ {0}
    /\ MaxUploads \in Nat
    /\ NoExt \notin Exts \cup Slots
    /\ NoRow \notin [ext : Exts \cup {NoExt}, bytes : Nat]

VARIABLES
    mediaRow,   \* the row's image columns, or NoRow when proxy or tree is gone
    files,      \* the upload directory: bytes of the file of a slot and extension
    creator,    \* created_by of each proxy
    upload      \* the uploads

mediaVars == <<mediaRow, files, creator, upload>>

NoFile == -1

UploadStages == {"body", "purge", "write", "row"}

Upload ==
    [stage : UploadStages \cup {"none", "done", "failed"}, slot : Slots \cup {NoExt},
     user : Uploaders \cup {NoExt}, ext : Exts \cup {NoExt}, size : Nat, old : Nat,
     next : 1 .. 6, alone : BOOLEAN, apart : BOOLEAN, clean : BOOLEAN, gone : BOOLEAN]

NoUpload ==
    [stage |-> "none", slot |-> NoExt, user |-> NoExt, ext |-> NoExt, size |-> 0,
     old |-> 0, next |-> 1, alone |-> FALSE, apart |-> FALSE, clean |-> TRUE, gone |-> FALSE]

\* Types; and a row without an image counts no bytes.
MediaTypeOK ==
    /\ mediaRow \in [Slots -> [ext : Exts \cup {NoExt}, bytes : Nat] \cup {NoRow}]
    /\ files \in [Slots -> [Exts -> Nat \cup {NoFile}]]
    /\ creator \in [Proxies -> Identities]
    /\ upload \in [Uploads -> Upload]
    /\ \A s \in Slots : mediaRow[s] # NoRow /\ mediaRow[s].ext = NoExt => mediaRow[s].bytes = 0

MediaInit ==
    /\ mediaRow = [s \in Slots |-> [ext |-> NoExt, bytes |-> 0]]
    /\ files = [s \in Slots |-> [x \in Exts |-> NoFile]]
    /\ creator = FirstCreator
    /\ upload = [k \in Uploads |-> NoUpload]

Uploading == {k \in Uploads : upload[k].stage \in UploadStages}

\* What is kept of an upload that failed, or that met another of its slot.
Kept(q) ==
    CASE q.stage = "failed" \/ (q.stage = "done" /\ ~q.alone) ->
             [NoUpload EXCEPT !.stage = q.stage]
      [] q.stage = "done" /\ q.alone -> [q EXCEPT !.apart = FALSE]
      [] OTHER -> [q EXCEPT !.clean = @ /\ q.alone]

Moved(k, q) == upload' = [upload EXCEPT ![k] = Kept(q)]

ToStage(k, stage) == Moved(k, [upload[k] EXCEPT !.stage = stage])

Failed(k) == ToStage(k, "failed") /\ UNCHANGED <<mediaRow, files, creator>>

\* Where q goes after a stage: nowhere, if its client is gone.
After(q, stage) == IF q.gone THEN "failed" ELSE stage

-----------------------------------------------------------------------------

\* Both slots count for the same creator.
SameAccount(s, r) ==
    s[1] # "tree" /\ r[1] # "tree" /\ creator[s[2]] = creator[r[2]]

\* An upload that learns of another to slot s.
Met(q, s) ==
    [q EXCEPT !.alone = q.alone /\ q.slot # s, !.apart = q.apart /\ ~SameAccount(q.slot, s)]

\* The row is read (a missing one is answered 404) and its bytes remembered.
\* `alone` and `apart` say that no other upload of the slot, or of its account,
\* has been under way since, and `clean` that the disk refused it no removal.
FetchSlot(k, s, u, ext, size) ==
    /\ upload[k].stage = "none"
    /\ \A j \in 1 .. (k - 1) : upload[j].stage # "none"
    /\ Cardinality(Uploading) < MaxUploading
    /\ mediaRow[s] # NoRow
    /\ upload' = [j \in Uploads |->
         CASE j = k -> [stage |-> "body", slot |-> s, user |-> u, ext |-> ext,
                        size |-> size, old |-> mediaRow[s].bytes, next |-> 1,
                        alone |-> \A i \in Uploading : upload[i].slot # s,
                        apart |-> \A i \in Uploading : ~SameAccount(upload[i].slot, s),
                        clean |-> TRUE, gone |-> FALSE]
           [] j # k /\ upload[j].slot # NoExt -> Kept(Met(upload[j], s))
           [] OTHER -> upload[j]]
    /\ UNCHANGED <<mediaRow, files, creator>>

\* Mutant: life images are left out of the sum.
ProfileBytes(u) ==
    LET mine == {s \in Slots : s[1] = "image" /\ creator[s[2]] = UserId[u] /\ mediaRow[s] # NoRow}
    IN  MapThenSumSet(LAMBDA s : mediaRow[s].bytes, mine)

\* The bytes of both images of the proxies that name w as their creator.
MediaBytesOf(w) ==
    LET mine == {s \in Slots : s[1] # "tree" /\ creator[s[2]] = w /\ mediaRow[s] # NoRow}
    IN  MapThenSumSet(LAMBDA s : mediaRow[s].bytes, mine)

\* total_media_bytes, which is asked for the user id.
TotalMediaBytes(u) == MediaBytesOf(UserId[u])

\* The uploader's storage, with what the slot held when it was fetched; avatars
\* are not counted.
WithinQuota(q) ==
    q.slot[1] = "tree" \/ TotalMediaBytes(q.user) - q.old + q.size <= StorageLimit[q.user]

\* The body has arrived.
CheckQuota(k) ==
    /\ upload[k].stage = "body"
    /\ Moved(k, [upload[k] EXCEPT
                   !.old = 0, !.stage = IF WithinQuota(upload[k]) THEN "purge" ELSE "failed"])
    /\ UNCHANGED <<mediaRow, files, creator>>

\* One remove_file, whose result nobody looks at: the file may be missing, or stay
\* where it is.
RemoveOld(k, removed) ==
    LET q == upload[k]
        ext == Removed(q.slot)[q.next]
        last == q.next = Len(Removed(q.slot))
    IN  /\ q.stage = "purge"
        /\ removed \/ files[q.slot][ext] # NoFile
        /\ files' = IF removed THEN [files EXCEPT ![q.slot][ext] = NoFile] ELSE files
        /\ Moved(k, [q EXCEPT !.next = IF last THEN 1 ELSE @ + 1, !.clean = @ /\ removed,
                              !.stage = After(q, IF last THEN "write" ELSE "purge")])
        /\ UNCHANGED <<mediaRow, creator>>

WriteFile(k) ==
    LET q == upload[k] IN
    /\ q.stage = "write"
    /\ files' = [files EXCEPT ![q.slot][q.ext] = q.size]
    /\ ToStage(k, After(q, "row"))
    /\ UNCHANGED <<mediaRow, creator>>

\* The disk is full: the file was created and holds nothing.
WriteFileFails(k) ==
    LET q == upload[k] IN
    /\ q.stage = "write"
    /\ files' = [files EXCEPT ![q.slot][q.ext] = 0]
    /\ ToStage(k, "failed")
    /\ UNCHANGED <<mediaRow, creator>>

\* Mutant: the row keeps the extension it had.
BytesInRow(q) ==
    [mediaRow[q.slot] EXCEPT !.bytes = IF q.slot[1] = "tree" THEN 0 ELSE q.size]

\* A tree's row holds no size.
RowOf(q) == [ext |-> q.ext, bytes |-> IF q.slot[1] = "tree" THEN 0 ELSE q.size]

\* The update finds no row when proxy or tree is gone; the answer is 204 all the same.
WriteRow(k) ==
    LET q == upload[k] IN
    /\ q.stage = "row"
    /\ mediaRow' = IF mediaRow[q.slot] = NoRow THEN mediaRow
                   ELSE [mediaRow EXCEPT ![q.slot] = RowOf(q)]
    /\ ToStage(k, After(q, "done"))
    /\ UNCHANGED <<files, creator>>

\* The client hangs up when the disk or the database has been given something to do.
HangUp(k) ==
    /\ upload[k].stage \in {"purge", "write", "row"} /\ ~upload[k].gone
    /\ Moved(k, [upload[k] EXCEPT !.gone = TRUE, !.alone = FALSE, !.apart = FALSE])
    /\ UNCHANGED <<mediaRow, files, creator>>

\* The write check, the disk or the database refuses, the process ends, or the client
\* hangs up, and nothing is still to be carried out.
DropUpload(k) == k \in Uploading /\ Failed(k)

\* What is uploaded to slot s counts for proxy p, or for w.
Concerns(s, p, w) == s[1] # "tree" /\ (s[2] = p \/ creator[s[2]] = w)

\* update_person names w in created_by.
UpdatePerson(p, w) ==
    /\ \E s \in Slots : s[1] # "tree" /\ s[2] = p /\ mediaRow[s] # NoRow
    /\ w # creator[p]
    /\ creator' = [creator EXCEPT ![p] = w]
    /\ upload' = [k \in Uploads |->
                    [upload[k] EXCEPT !.apart = @ /\ ~Concerns(upload[k].slot, p, w)]]
    /\ UNCHANGED <<mediaRow, files>>

\* delete_person, delete_tree: the row goes, the files stay.
RowDeleted(x) ==
    LET gone == {s \in Slots : s[2] = x} IN
    /\ \E s \in gone : mediaRow[s] # NoRow
    /\ mediaRow' = [s \in Slots |-> IF s \in gone THEN NoRow ELSE mediaRow[s]]
    /\ UNCHANGED <<files, creator, upload>>

MediaNext ==
    \/ \E k \in Uploads :
         \/ \E s \in Slots, u \in Uploaders, size \in Sizes :
              \E ext \in Accepted(s) \cap Types : FetchSlot(k, s, u, ext, size)
         \/ \E removed \in BOOLEAN : RemoveOld(k, removed)
         \/ CheckQuota(k) \/ WriteFile(k) \/ WriteFileFails(k) \/ WriteRow(k)
         \/ HangUp(k) \/ DropUpload(k)
    \/ \E p \in Proxies, w \in NewCreators : UpdatePerson(p, w)
    \/ \E x \in Proxies \cup AvatarTrees : RowDeleted(x)

MediaSpec == MediaInit /\ [][MediaNext]_mediaVars

-----------------------------------------------------------------------------
(* Properties.                                                             *)

\* An answered upload that met no other of its slot, not even a removal or a write
\* of a client that had hung up, is what the slot serves: the row names the file
\* it wrote, the file has its bytes, and if the disk refused no removal there is no
\* other file of the slot, whatever failed, dropped or overlapping uploads came before
\* (upload_image, upload_life_image, upload_tree_image).
LoneUploadServed ==
    \A k \in Uploads :
        LET q == upload[k]
            s == q.slot
        IN  q.stage = "done" /\ q.alone =>
                /\ mediaRow[s] = NoRow \/ mediaRow[s] = RowOf(q)
                /\ files[s][q.ext] = q.size
                /\ q.clean => \A x \in Exts \ {q.ext} : files[s][x] = NoFile

\* An upload to a proxy whose created_by is the uploader's user id leaves the total
\* within the plan, if it meets no upload to another such proxy and if meanwhile its
\* proxy keeps its created_by and no other proxy comes to name the uploader
\* (upload_image, upload_life_image, update_person).
LoneUploadWithinPlan ==
    [][\A k \in Uploads, u \in Uploaders :
         LET q == upload[k] IN
         /\ q.stage = "row" /\ upload'[k].stage = "done" /\ q.user = u
         /\ q.slot[1] # "tree" /\ creator[q.slot[2]] = UserId[u]
         /\ q.apart
         /\ mediaRow[q.slot] # NoRow
         => MediaBytesOf(UserId[u])' <= StorageLimit[u]]_mediaVars

\* "Queries total media bytes used by `user_id` across all their person_proxy
\* records" (image.rs:42): a user who alone uploads to the proxies they own stays
\* within the plan.  Refuted: proxies are owned by user name (person.rs:96), and
\* the sum looks for the user id.
OwnMediaWithinPlan ==
    \A u \in Uploaders : MediaBytesOf(UserName[u]) <= StorageLimit[u]

=============================================================================
