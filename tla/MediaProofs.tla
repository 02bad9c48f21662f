----------------------------- MODULE MediaProofs -----------------------------
(***************************************************************************)
(* What an answered upload leaves behind, for any number of uploads,       *)
(* proxies, trees and users: in the directory, and in the uploader's plan. *)
(*                                                                         *)
(* LoneUploadServed speaks of finished uploads. It is inductive together   *)
(* with what an upload that met no other has achieved at each stage        *)
(* (Served): the extensions removed so far have no file, then none has,    *)
(* then the one written has. Others cannot disturb it (LoneInSlot), and a  *)
(* file it does not remove was never written (OnlyAccepted).               *)
(*                                                                         *)
(* LoneUploadWithinPlan rests on the room an upload has after its check    *)
(* (Budget). No other row of the account grows while no other upload of    *)
(* the account is under way (ApartInAccount), rows that are deleted only   *)
(* free bytes, and so does a proxy that leaves the account; one that       *)
(* enters it ends what is promised to its uploads (Concerns). How one row  *)
(* changes a sum over all rows is shown first (Sums of bytes).             *)
(***************************************************************************)
EXTENDS MediaUpload, FiniteSetTheorems, WellFoundedInduction, TLAPS

\* What is known of an upload at its stage.
UploadOK(q) ==
    /\ q.slot # NoExt => q.ext \in Accepted(q.slot)
    /\ q.stage \in UploadStages => q.slot # NoExt
    /\ q.alone => q.slot # NoExt
    /\ q.stage = "body" => q.next = 1
    /\ q.stage = "purge" => q.next \in 1 .. Len(Removed(q.slot))

\* How far an undisturbed upload has got with the files f and the row of its slot.
Served(q, f, row) ==
    /\ q.stage = "purge" /\ q.clean =>
          \A i \in 1 .. (q.next - 1) : f[Removed(q.slot)[i]] = NoFile
    /\ q.stage = "write" /\ q.clean => \A x \in Exts : f[x] = NoFile
    /\ q.stage \in {"row", "done"} =>
          /\ f[q.ext] = q.size
          /\ q.clean => \A x \in Exts \ {q.ext} : f[x] = NoFile
    /\ q.stage = "done" => row = NoRow \/ row = RowOf(q)

\* A slot has files of accepted extensions only.
OnlyAccepted ==
    \A s \in Slots, x \in Exts : files[s][x] # NoFile => x \in Accepted(s)

\* While an upload counts as alone no other of its slot is under way.
LoneInSlot ==
    \A j, k \in Uploads :
        upload[k].alone /\ j # k /\ upload[j].slot = upload[k].slot =>
            upload[j].stage \notin UploadStages

\* The inductive invariant.
MediaInv ==
    /\ MediaTypeOK
    /\ \A k \in Uploads : UploadOK(upload[k])
    /\ OnlyAccepted
    /\ LoneInSlot
    /\ \A k \in Uploads :
         upload[k].alone =>
            Served(upload[k], files[upload[k].slot], mediaRow[upload[k].slot])
-----------------------------------------------------------------------------
(* Extensions.                                                             *)

\* Each accepted extension is removed before a file is written (image.rs).
LEMMA AcceptedRemoved ==
    ASSUME NEW s
    PROVE  /\ Accepted(s) \subseteq Exts
           /\ Len(Removed(s)) \in 1 .. 5
           /\ \A i \in 1 .. Len(Removed(s)) : Removed(s)[i] \in Exts
           /\ \A x \in Accepted(s) : \E i \in 1 .. Len(Removed(s)) : Removed(s)[i] = x
<1>1. CASE s[1] = "life"
    <2>1. /\ Accepted(s) = {"jpg", "png", "gif", "webp"}
          /\ Removed(s) = <<"jpg", "jpeg", "png", "gif", "webp">>
        BY <1>1 DEF Accepted, Removed
    <2>2. Len(Removed(s)) = 5
        BY <2>1
    <2>3. /\ Removed(s)[1] = "jpg" /\ Removed(s)[2] = "jpeg" /\ Removed(s)[3] = "png"
          /\ Removed(s)[4] = "gif" /\ Removed(s)[5] = "webp"
        BY <2>1
    <2>4. \A i \in 1 .. 5 : i = 1 \/ i = 2 \/ i = 3 \/ i = 4 \/ i = 5
        OBVIOUS
    <2>5. \A i \in 1 .. Len(Removed(s)) : Removed(s)[i] \in Exts
        BY <2>2, <2>3, <2>4 DEF Exts
    <2>6. \A x \in Accepted(s) : \E i \in 1 .. Len(Removed(s)) : Removed(s)[i] = x
        BY <2>1, <2>2, <2>3
    <2> QED
        BY <2>1, <2>2, <2>5, <2>6 DEF Exts
<1>2. CASE s[1] # "life"
    <2>1. Accepted(s) = {"jpg", "png"} /\ Removed(s) = <<"jpg", "png">>
        BY <1>2 DEF Accepted, Removed
    <2>2. Len(Removed(s)) = 2 /\ Removed(s)[1] = "jpg" /\ Removed(s)[2] = "png"
        BY <2>1
    <2> QED
        BY <2>1, <2>2 DEF Exts
<1> QED
    BY <1>1, <1>2
-----------------------------------------------------------------------------
(* One upload moving on.                                                   *)

\* Keeping forgets an upload or leaves it as it is, but for `apart` of one that is
\* answered and `clean` of one that is not alone.
LEMMA KeptFacts ==
    ASSUME NEW q \in Upload
    PROVE  /\ Kept(q) \in Upload /\ Kept(q).stage = q.stage
           /\ q.stage \in UploadStages =>
                 /\ Kept(q).slot = q.slot /\ Kept(q).user = q.user /\ Kept(q).size = q.size
                 /\ Kept(q).old = q.old /\ Kept(q).next = q.next /\ Kept(q).apart = q.apart
           /\ Kept(q).slot # NoExt =>
                 /\ Kept(q).slot = q.slot /\ Kept(q).ext = q.ext /\ Kept(q).size = q.size
                 /\ Kept(q).alone = q.alone
           /\ Kept(q).alone =>
                 /\ q.alone /\ Kept(q).slot = q.slot /\ Kept(q).clean = q.clean
                 /\ Kept(q).next = q.next
<1>1. CASE q.stage = "failed" \/ (q.stage = "done" /\ ~ q.alone)
    <2>1. Kept(q) = [NoUpload EXCEPT !.stage = q.stage]
        BY <1>1 DEF Kept
    <2>2. NoUpload \in Upload
        BY DEF NoUpload, Upload
    <2>3. /\ Kept(q) \in Upload /\ Kept(q).stage = q.stage /\ Kept(q).slot = NoExt
          /\ Kept(q).alone = FALSE
        BY <1>1, <2>1, <2>2 DEF NoUpload, Upload
    <2> QED
        BY <1>1, <2>3 DEF UploadStages
<1>2. CASE q.stage = "done" /\ q.alone
    <2>1. Kept(q) = [q EXCEPT !.apart = FALSE]
        BY <1>2 DEF Kept
    <2> QED
        BY <1>2, <2>1 DEF Upload, UploadStages
<1>3. CASE q.stage \notin {"failed", "done"}
    <2>1. PICK c \in BOOLEAN : c = (q.clean /\ q.alone) /\ (q.alone => c = q.clean)
        BY DEF Upload
    <2>2. Kept(q) = [q EXCEPT !.clean = c]
        BY <1>3, <2>1 DEF Kept
    <2>3. /\ Kept(q) \in Upload /\ Kept(q).stage = q.stage /\ Kept(q).slot = q.slot
          /\ Kept(q).user = q.user /\ Kept(q).ext = q.ext /\ Kept(q).size = q.size
          /\ Kept(q).old = q.old /\ Kept(q).next = q.next /\ Kept(q).alone = q.alone
          /\ Kept(q).apart = q.apart /\ Kept(q).clean = c
        BY <2>1, <2>2 DEF Upload
    <2> QED
        BY <2>1, <2>3
<1> QED
    BY <1>1, <1>2, <1>3

\* Files and rows of other slots are left alone, or their rows deleted.
ElsewhereSame(s) ==
    /\ \A t \in Slots \ {s} : files'[t] = files[t]
    /\ \A t \in Slots \ {s} : mediaRow'[t] = mediaRow[t]

TablesOK ==
    /\ mediaRow \in [Slots -> [ext : Exts \cup {NoExt}, bytes : Nat] \cup {NoRow}]
    /\ files \in [Slots -> [Exts -> Nat \cup {NoFile}]]
    /\ creator \in [Proxies -> Identities]
    /\ \A s \in Slots : mediaRow[s] # NoRow /\ mediaRow[s].ext = NoExt => mediaRow[s].bytes = 0
    /\ OnlyAccepted

\* An upload under way that becomes q disturbs no other that counts as alone.
LEMMA MovedInv ==
    ASSUME MediaInv, NEW k \in Uploads, k \in Uploading, NEW q \in Upload, UploadOK(q),
           q.slot = upload[k].slot, q.alone => upload[k].alone, Moved(k, q),
           TablesOK', ElsewhereSame(q.slot),
           q.alone => Served(q, files'[q.slot], mediaRow'[q.slot])
    PROVE  MediaInv'
<1>1. upload \in [Uploads -> Upload] /\ upload[k].stage \in UploadStages
    BY DEF MediaInv, MediaTypeOK, Uploading
<1>2. \A j \in Uploads : upload'[j] = IF j = k THEN Kept(q) ELSE upload[j]
    BY <1>1 DEF Moved
<1>3. upload' \in [Uploads -> Upload]
    BY <1>1, KeptFacts DEF Moved
<1>4. MediaTypeOK' /\ OnlyAccepted'
    BY <1>3 DEF TablesOK, MediaTypeOK
<1>5. UploadOK(Kept(q))
    <2>1. q.stage \in UploadStages => Kept(q).slot = q.slot /\ Kept(q).next = q.next
        BY KeptFacts
    <2>2. q.stage = "body" \/ q.stage = "purge" => q.stage \in UploadStages
        BY DEF UploadStages
    <2> QED
        BY <2>1, <2>2, KeptFacts DEF UploadOK
<1>6. \A j \in Uploads : UploadOK(upload[j])'
    BY <1>2, <1>5 DEF MediaInv, UploadOK
<1>7. LoneInSlot'
    BY <1>1, <1>2, KeptFacts DEF MediaInv, LoneInSlot, UploadOK
<1>8. ASSUME NEW j \in Uploads, upload'[j].alone
      PROVE  Served(upload'[j], files'[upload'[j].slot], mediaRow'[upload'[j].slot])
    <2>1. CASE j = k
        <3>1. q.alone /\ upload'[j] = Kept(q) /\ Kept(q).slot = q.slot
            BY <1>2, <1>8, <2>1, KeptFacts
        <3>2. /\ Kept(q).slot # NoExt /\ Kept(q).ext = q.ext /\ Kept(q).size = q.size
              /\ Kept(q).stage = q.stage /\ Kept(q).clean = q.clean /\ Kept(q).next = q.next
            BY <1>8, <3>1, KeptFacts DEF UploadOK
        <3>3. RowOf(Kept(q)) = RowOf(q)
            BY <3>1, <3>2 DEF RowOf
        <3> QED
            BY <3>1, <3>2, <3>3 DEF Served
    <2>2. CASE j # k
        <3>1. upload'[j] = upload[j] /\ upload[j].slot \in Slots \ {q.slot}
            BY <1>1, <1>2, <1>8, <2>2 DEF MediaInv, LoneInSlot, UploadOK, Upload
        <3> QED
            BY <1>8, <3>1 DEF MediaInv, ElsewhereSame
    <2> QED
        BY <2>1, <2>2
<1> QED
    BY <1>4, <1>6, <1>7, <1>8 DEF MediaInv
-----------------------------------------------------------------------------
(* The steps.                                                              *)

\* What the invariant says of an upload under way.
LEMMA UnderWay ==
    ASSUME MediaInv, NEW k \in Uploads, upload[k].stage \in UploadStages
    PROVE  /\ k \in Uploading /\ upload[k] \in Upload /\ UploadOK(upload[k])
           /\ upload[k].slot \in Slots /\ upload[k].ext \in Accepted(upload[k].slot)
           /\ upload[k].ext \in Exts
           /\ upload[k].alone =>
                 Served(upload[k], files[upload[k].slot], mediaRow[upload[k].slot])
           /\ TablesOK
<1>1. upload[k] \in Upload /\ UploadOK(upload[k])
    BY DEF MediaInv, MediaTypeOK
<1>2. upload[k].slot \in Slots /\ upload[k].ext \in Accepted(upload[k].slot)
    BY <1>1 DEF UploadOK, Upload
<1>3. TablesOK
    BY DEF MediaInv, MediaTypeOK, TablesOK
<1>4. upload[k].alone =>
        Served(upload[k], files[upload[k].slot], mediaRow[upload[k].slot])
    BY DEF MediaInv
<1> QED
    BY <1>1, <1>2, <1>3, <1>4, AcceptedRemoved DEF Uploading

\* A step that moves an upload and touches no file and no row.
LEMMA QuietMove ==
    ASSUME MediaInv, NEW k \in Uploads, upload[k].stage \in UploadStages,
           NEW q \in Upload, UploadOK(q),
           q.slot = upload[k].slot, q.alone => upload[k].alone, Moved(k, q),
           UNCHANGED <<mediaRow, files, creator>>,
           q.alone => Served(q, files[q.slot], mediaRow[q.slot])
    PROVE  MediaInv'
<1>1. k \in Uploading /\ TablesOK
    BY UnderWay
<1>2. TablesOK' /\ ElsewhereSame(q.slot)
    BY <1>1 DEF TablesOK, OnlyAccepted, ElsewhereSame
<1> QED
    BY <1>1, <1>2, MovedInv

\* An upload may stop at any stage.
LEMMA InvDropUpload ==
    ASSUME MediaInv, NEW k \in Uploads, DropUpload(k)
    PROVE  MediaInv'
<1> DEFINE q == [upload[k] EXCEPT !.stage = "failed"]
<1>1. upload[k].stage \in UploadStages
    BY DEF DropUpload, Uploading
<1>2. upload[k] \in Upload /\ UploadOK(upload[k])
    BY <1>1, UnderWay
<1>3. /\ q \in Upload /\ q.slot = upload[k].slot /\ q.alone = upload[k].alone
      /\ q.ext = upload[k].ext /\ q.stage = "failed"
    BY <1>2 DEF Upload
<1>4. Moved(k, q) /\ UNCHANGED <<mediaRow, files, creator>>
    BY DEF DropUpload, Failed, ToStage
<1> HIDE DEF q
<1>5. UploadOK(q)
    BY <1>2, <1>3 DEF UploadOK, UploadStages
<1>6. Served(q, files[q.slot], mediaRow[q.slot])
    BY <1>3 DEF Served
<1> QED
    BY <1>1, <1>3, <1>4, <1>5, <1>6, QuietMove

\* Nothing is promised of an upload whose client hung up.
LEMMA InvHangUp ==
    ASSUME MediaInv, NEW k \in Uploads, HangUp(k)
    PROVE  MediaInv'
<1> DEFINE q == [upload[k] EXCEPT !.gone = TRUE, !.alone = FALSE, !.apart = FALSE]
<1>1. upload[k].stage \in UploadStages
    BY DEF HangUp, UploadStages
<1>2. upload[k] \in Upload /\ UploadOK(upload[k])
    BY <1>1, UnderWay
<1>3. /\ q \in Upload /\ q.slot = upload[k].slot /\ q.alone = FALSE
      /\ q.ext = upload[k].ext /\ q.stage = upload[k].stage /\ q.next = upload[k].next
    BY <1>2 DEF Upload
<1>4. Moved(k, q) /\ UNCHANGED <<mediaRow, files, creator>>
    BY DEF HangUp
<1> HIDE DEF q
<1>5. UploadOK(q)
    BY <1>2, <1>3 DEF UploadOK
<1> QED
    BY <1>1, <1>3, <1>4, <1>5, QuietMove

\* A passed check starts the removals, a failed one ends the upload.
LEMMA InvCheckQuota ==
    ASSUME MediaInv, NEW k \in Uploads, CheckQuota(k)
    PROVE  MediaInv'
<1> DEFINE s == IF WithinQuota(upload[k]) THEN "purge" ELSE "failed"
           q == [upload[k] EXCEPT !.old = 0, !.stage = s]
<1>1. upload[k].stage = "body" /\ upload[k].stage \in UploadStages
    BY DEF CheckQuota, UploadStages
<1>2. upload[k] \in Upload /\ UploadOK(upload[k])
    BY <1>1, UnderWay
<1>3. Moved(k, q) /\ UNCHANGED <<mediaRow, files, creator>>
    BY DEF CheckQuota
<1>4. s \in {"purge", "failed"}
    OBVIOUS
<1> HIDE DEF s
<1>5. q \in Upload
    BY <1>2, <1>4 DEF Upload, UploadStages
<1>6. /\ q.slot = upload[k].slot /\ q.alone = upload[k].alone /\ q.ext = upload[k].ext
      /\ q.stage = s /\ q.next = upload[k].next
    BY <1>2 DEF Upload
<1> HIDE DEF q
<1>7. UploadOK(q)
    BY <1>1, <1>2, <1>4, <1>6, AcceptedRemoved DEF UploadOK, UploadStages
<1>8. Served(q, files[q.slot], mediaRow[q.slot])
    <2>1. q.next = 1
        BY <1>1, <1>2, <1>6 DEF UploadOK
    <2> QED
        BY <1>4, <1>6, <2>1 DEF Served
<1> QED
    BY <1>1, <1>3, <1>5, <1>6, <1>7, <1>8, QuietMove

\* One removal more; if the disk refused none, then after the last the slot has no file
\* at all, for what is not removed was never accepted.
LEMMA InvRemoveOld ==
    ASSUME MediaInv, NEW k \in Uploads, NEW removed \in BOOLEAN, RemoveOld(k, removed)
    PROVE  MediaInv'
<1> DEFINE u == upload[k]
           s == u.slot
           x == Removed(s)[u.next]
           last == u.next = Len(Removed(s))
           n == IF last THEN 1 ELSE u.next + 1
           g == After(u, IF last THEN "write" ELSE "purge")
           c == u.clean /\ removed
           q == [u EXCEPT !.next = n, !.clean = c, !.stage = g]
<1>1. u.stage = "purge" /\ u.stage \in UploadStages
    BY DEF RemoveOld, UploadStages
<1>2. /\ k \in Uploading /\ u \in Upload /\ UploadOK(u) /\ s \in Slots
      /\ u.ext \in Accepted(s) /\ TablesOK
      /\ u.alone => Served(u, files[s], mediaRow[s])
    BY <1>1, UnderWay
<1>3. u.next \in 1 .. Len(Removed(s)) /\ Len(Removed(s)) \in 1 .. 5 /\ x \in Exts
    BY <1>1, <1>2, AcceptedRemoved DEF UploadOK
<1>4. /\ n \in 1 .. 6 /\ g \in {"purge", "write", "failed"}
      /\ g = "write" => last
      /\ g = "purge" => ~ last /\ n = u.next + 1 /\ n \in 1 .. Len(Removed(s))
    <2>1. CASE last
        <3>1. n = 1 /\ g \in {"write", "failed"}
            BY <2>1 DEF After
        <3> HIDE DEF n, g
        <3> QED
            BY <2>1, <3>1
    <2>2. CASE ~ last
        <3>1. n = u.next + 1 /\ g \in {"purge", "failed"}
            BY <2>2 DEF After
        <3>2. u.next + 1 \in 1 .. Len(Removed(s))
            BY <1>3, <2>2
        <3> HIDE DEF n, g
        <3> QED
            BY <1>3, <2>2, <3>1, <3>2
    <2> QED
        BY <2>1, <2>2
<1>5. /\ files' = IF removed THEN [files EXCEPT ![s][x] = NoFile] ELSE files
      /\ UNCHANGED <<mediaRow, creator>> /\ Moved(k, q)
    BY DEF RemoveOld
<1>6. c \in BOOLEAN /\ (c => u.clean /\ removed)
    BY <1>2 DEF Upload
<1> HIDE DEF n, g, c
<1>7. q \in Upload
    BY <1>2, <1>4, <1>6 DEF Upload, UploadStages
<1>8. /\ q.slot = s /\ q.alone = u.alone /\ q.ext = u.ext /\ q.stage = g /\ q.next = n
      /\ q.clean = c
    BY <1>2 DEF Upload
<1> HIDE DEF q
<1>9. UploadOK(q)
    BY <1>1, <1>2, <1>4, <1>8 DEF UploadOK, UploadStages
<1>10. /\ files'[s] = IF removed THEN [files[s] EXCEPT ![x] = NoFile] ELSE files[s]
       /\ \A t \in Slots \ {s} : files'[t] = files[t]
       /\ files[s] \in [Exts -> Nat \cup {NoFile}]
    BY <1>2, <1>5 DEF TablesOK
<1> HIDE DEF x
<1>11. TablesOK' /\ ElsewhereSame(q.slot)
    BY <1>2, <1>3, <1>5, <1>8, <1>10 DEF TablesOK, OnlyAccepted, ElsewhereSame
<1>12. ASSUME u.alone, q.clean, g # "failed"
       PROVE  /\ g = "write" => \A y \in Exts : files'[s][y] = NoFile
              /\ g = "purge" => \A i \in 1 .. u.next : files'[s][Removed(s)[i]] = NoFile
    <2>1. u.clean /\ removed
        BY <1>6, <1>8, <1>12
    <2>2. \A i \in 1 .. (u.next - 1) : files[s][Removed(s)[i]] = NoFile
        BY <1>1, <1>2, <1>12, <2>1 DEF Served
    <2>3. ASSUME NEW i \in 1 .. u.next
          PROVE  files'[s][Removed(s)[i]] = NoFile
        <3>1. Removed(s)[i] \in Exts
            BY <1>3, AcceptedRemoved
        <3>2. i \in 1 .. (u.next - 1) \/ i = u.next
            BY <1>3
        <3> QED
            BY <1>10, <2>1, <2>2, <3>1, <3>2 DEF x
    <2>4. ASSUME NEW y \in Exts, last PROVE files'[s][y] = NoFile
        <3>1. CASE y \in Accepted(s)
            BY <2>3, <2>4, <3>1, AcceptedRemoved
        <3>2. CASE y \notin Accepted(s)
            BY <1>2, <1>10, <3>2 DEF TablesOK, OnlyAccepted
        <3> QED
            BY <3>1, <3>2
    <2> QED
        BY <1>4, <2>3, <2>4
<1>13. ASSUME u.alone PROVE Served(q, files'[s], mediaRow'[s])
    <2>1. g = "purge" => 1 .. (q.next - 1) = 1 .. u.next
        BY <1>3, <1>4, <1>8
    <2> QED
        BY <1>4, <1>8, <1>12, <1>13, <2>1 DEF Served
<1> QED
    BY <1>2, <1>5, <1>7, <1>8, <1>9, <1>11, <1>13, MovedInv

\* Writing the file, whole or cut short by a full disk.
LEMMA InvWriteFile ==
    ASSUME MediaInv, NEW k \in Uploads, WriteFile(k) \/ WriteFileFails(k)
    PROVE  MediaInv'
<1> DEFINE u == upload[k]
           s == u.slot
           size == IF WriteFile(k) THEN u.size ELSE 0
           g == IF WriteFile(k) THEN After(u, "row") ELSE "failed"
           q == [u EXCEPT !.stage = g]
<1>1. u.stage = "write" /\ u.stage \in UploadStages
    BY DEF WriteFile, WriteFileFails, UploadStages
<1>2. /\ k \in Uploading /\ u \in Upload /\ UploadOK(u) /\ s \in Slots
      /\ u.ext \in Accepted(s) /\ u.ext \in Exts /\ TablesOK
      /\ u.alone => Served(u, files[s], mediaRow[s])
    BY <1>1, UnderWay
<1>3. /\ files' = [files EXCEPT ![s][u.ext] = size] /\ UNCHANGED <<mediaRow, creator>>
      /\ Moved(k, q)
    BY DEF WriteFile, WriteFileFails, ToStage
<1>4. size \in Nat /\ g \in {"row", "failed"} /\ (g = "row" => size = u.size)
    BY <1>2 DEF After, Upload
<1> HIDE DEF g, size
<1>5. q \in Upload
    BY <1>2, <1>4 DEF Upload, UploadStages
<1>6. /\ q.slot = s /\ q.alone = u.alone /\ q.ext = u.ext /\ q.stage = g /\ q.size = u.size
      /\ q.clean = u.clean
    BY <1>2 DEF Upload
<1> HIDE DEF q
<1>7. UploadOK(q)
    BY <1>1, <1>2, <1>4, <1>6 DEF UploadOK, UploadStages
<1>8. /\ files'[s] = [files[s] EXCEPT ![u.ext] = size]
      /\ \A t \in Slots \ {s} : files'[t] = files[t]
      /\ files[s] \in [Exts -> Nat \cup {NoFile}]
    BY <1>2, <1>3 DEF TablesOK
<1>9. TablesOK' /\ ElsewhereSame(q.slot)
    BY <1>2, <1>3, <1>4, <1>6, <1>8 DEF TablesOK, OnlyAccepted, ElsewhereSame
<1>10. ASSUME u.alone PROVE Served(q, files'[s], mediaRow'[s])
    <2>1. u.clean => \A y \in Exts : files[s][y] = NoFile
        BY <1>1, <1>2, <1>10 DEF Served
    <2>2. g = "row" => /\ files'[s][u.ext] = u.size
                       /\ u.clean => \A y \in Exts \ {u.ext} : files'[s][y] = NoFile
        BY <1>2, <1>4, <1>8, <2>1
    <2> QED
        BY <1>4, <1>6, <2>2 DEF Served
<1> QED
    BY <1>2, <1>3, <1>5, <1>6, <1>7, <1>9, <1>10, MovedInv

\* The update of the row, if there still is one.
LEMMA InvWriteRow ==
    ASSUME MediaInv, NEW k \in Uploads, WriteRow(k)
    PROVE  MediaInv'
<1> DEFINE u == upload[k]
           s == u.slot
           g == After(u, "done")
           q == [u EXCEPT !.stage = g]
<1>1. u.stage = "row" /\ u.stage \in UploadStages
    BY DEF WriteRow, UploadStages
<1>2. /\ k \in Uploading /\ u \in Upload /\ UploadOK(u) /\ s \in Slots
      /\ u.ext \in Exts /\ TablesOK
      /\ u.alone => Served(u, files[s], mediaRow[s])
    BY <1>1, UnderWay
<1>3. /\ mediaRow' = IF mediaRow[s] = NoRow THEN mediaRow
                     ELSE [mediaRow EXCEPT ![s] = RowOf(u)]
      /\ UNCHANGED <<files, creator>> /\ Moved(k, q) /\ g \in {"done", "failed"}
    BY DEF WriteRow, ToStage, After
<1> HIDE DEF g
<1>4. q \in Upload
    BY <1>2, <1>3 DEF Upload
<1>5. /\ q.slot = s /\ q.alone = u.alone /\ q.ext = u.ext /\ q.stage = g /\ q.size = u.size
      /\ q.clean = u.clean
    BY <1>2 DEF Upload
<1> HIDE DEF q
<1>6. UploadOK(q)
    BY <1>2, <1>3, <1>5 DEF UploadOK, UploadStages
<1>7. /\ RowOf(u) \in [ext : Exts \cup {NoExt}, bytes : Nat]
      /\ RowOf(u).ext # NoExt /\ RowOf(q) = RowOf(u)
    BY <1>2, <1>5, MediaAssumption DEF RowOf, Upload
<1> HIDE DEF u
<1>8. TablesOK' /\ ElsewhereSame(q.slot)
    BY <1>2, <1>3, <1>5, <1>7 DEF TablesOK, OnlyAccepted, ElsewhereSame
<1>9. mediaRow'[s] = NoRow \/ mediaRow'[s] = RowOf(q)
    BY <1>2, <1>3, <1>7 DEF TablesOK
<1>10. ASSUME u.alone PROVE Served(q, files'[s], mediaRow'[s])
    BY <1>1, <1>2, <1>3, <1>5, <1>9, <1>10 DEF Served
<1> QED
    BY <1>2, <1>3, <1>4, <1>5, <1>6, <1>8, <1>10, MovedInv DEF u

\* delete_person and delete_tree take rows and leave the files.
LEMMA InvRowDeleted ==
    ASSUME MediaInv, NEW x, RowDeleted(x)
    PROVE  MediaInv'
<1>1. /\ \A s \in Slots : mediaRow'[s] = mediaRow[s] \/ mediaRow'[s] = NoRow
      /\ mediaRow' \in [Slots -> [ext : Exts \cup {NoExt}, bytes : Nat] \cup {NoRow}]
      /\ UNCHANGED <<files, creator, upload>>
    BY DEF RowDeleted, MediaInv, MediaTypeOK
<1>2. MediaTypeOK' /\ OnlyAccepted' /\ LoneInSlot'
    BY <1>1 DEF MediaInv, MediaTypeOK, OnlyAccepted, LoneInSlot
<1>3. \A k \in Uploads : UploadOK(upload[k])'
    BY <1>1 DEF MediaInv, UploadOK
<1>4. ASSUME NEW k \in Uploads, upload[k].alone
      PROVE  Served(upload[k], files[upload[k].slot], mediaRow'[upload[k].slot])
    <2>1. upload[k].slot \in Slots
        BY <1>4 DEF MediaInv, MediaTypeOK, UploadOK, Upload
    <2> QED
        BY <1>1, <1>4, <2>1 DEF MediaInv, Served
<1> QED
    BY <1>1, <1>2, <1>3, <1>4 DEF MediaInv

\* An upload that is no longer apart stays what it was.
LEMMA ApartFacts ==
    ASSUME NEW q \in Upload, NEW b \in BOOLEAN
    PROVE  LET w == [q EXCEPT !.apart = b] IN
           /\ w \in Upload /\ w.stage = q.stage /\ w.slot = q.slot /\ w.ext = q.ext
           /\ w.size = q.size /\ w.next = q.next /\ w.clean = q.clean
           /\ w.user = q.user /\ w.old = q.old /\ w.alone = q.alone /\ w.apart = b
<1> DEFINE w == [q EXCEPT !.apart = b]
<1>1. w \in Upload
    BY DEF Upload
<1>2. /\ w.stage = q.stage /\ w.slot = q.slot /\ w.ext = q.ext /\ w.size = q.size
      /\ w.next = q.next /\ w.clean = q.clean
    BY DEF Upload
<1>3. w.user = q.user /\ w.old = q.old /\ w.alone = q.alone /\ w.apart = b
    BY DEF Upload
<1> QED
    BY <1>1, <1>2, <1>3

\* What an update of created_by does to the uploads.
LEMMA UpdateFacts ==
    ASSUME MediaInv, NEW p \in Proxies, NEW w \in NewCreators, UpdatePerson(p, w),
           NEW j \in Uploads
    PROVE  /\ upload'[j] \in Upload
           /\ upload'[j].stage = upload[j].stage /\ upload'[j].slot = upload[j].slot
           /\ upload'[j].ext = upload[j].ext /\ upload'[j].size = upload[j].size
           /\ upload'[j].next = upload[j].next /\ upload'[j].clean = upload[j].clean
           /\ upload'[j].user = upload[j].user /\ upload'[j].old = upload[j].old
           /\ upload'[j].alone = upload[j].alone
           /\ upload'[j].apart => upload[j].apart /\ ~ Concerns(upload[j].slot, p, w)
<1> DEFINE b == upload[j].apart /\ ~ Concerns(upload[j].slot, p, w)
<1>1. upload[j] \in Upload
    BY DEF MediaInv, MediaTypeOK
<1>2. b \in BOOLEAN
    BY <1>1 DEF Upload
<1>3. upload'[j] = [upload[j] EXCEPT !.apart = b]
    BY DEF UpdatePerson
<1>4. PICK c : c = b
    OBVIOUS
<1>5. PICK q : q = upload[j]
    OBVIOUS
<1>6. PICK r : r = upload'[j]
    OBVIOUS
<1> HIDE DEF b
<1>7. q \in Upload /\ c \in BOOLEAN /\ r = [q EXCEPT !.apart = c]
    BY <1>1, <1>2, <1>3, <1>4, <1>5, <1>6
<1>8. /\ r \in Upload
      /\ r.stage = q.stage /\ r.slot = q.slot /\ r.ext = q.ext /\ r.size = q.size
      /\ r.next = q.next /\ r.clean = q.clean /\ r.user = q.user /\ r.old = q.old
      /\ r.alone = q.alone /\ r.apart = c
    BY <1>7, ApartFacts
<1>9. c => upload[j].apart /\ ~ Concerns(upload[j].slot, p, w)
    BY <1>4 DEF b
<1> QED
    BY <1>5, <1>6, <1>8, <1>9

\* update_person takes an upload its account and nothing else.
LEMMA InvUpdatePerson ==
    ASSUME MediaInv, NEW p \in Proxies, NEW w \in NewCreators, UpdatePerson(p, w)
    PROVE  MediaInv'
<1>1. UNCHANGED <<mediaRow, files>> /\ creator' \in [Proxies -> Identities]
    BY MediaAssumption DEF UpdatePerson, MediaInv, MediaTypeOK
<1>2. upload' \in [Uploads -> Upload]
    <2>1. \A j \in Uploads : upload'[j] \in Upload
        BY UpdateFacts
    <2> QED
        BY <2>1 DEF UpdatePerson
<1>3. MediaTypeOK' /\ OnlyAccepted'
    BY <1>1, <1>2 DEF MediaInv, MediaTypeOK, OnlyAccepted
<1>4. ASSUME NEW j \in Uploads PROVE UploadOK(upload'[j])
    <2>1. UploadOK(upload[j])
        BY DEF MediaInv
    <2> QED
        BY <2>1, UpdateFacts DEF UploadOK
<1>5. LoneInSlot'
    BY UpdateFacts DEF MediaInv, LoneInSlot
<1>6. ASSUME NEW j \in Uploads, upload'[j].alone
      PROVE  Served(upload'[j], files'[upload'[j].slot], mediaRow'[upload'[j].slot])
    <2>1. Served(upload[j], files[upload[j].slot], mediaRow[upload[j].slot])
        BY <1>6, UpdateFacts DEF MediaInv
    <2>2. RowOf(upload'[j]) = RowOf(upload[j])
        BY UpdateFacts DEF RowOf
    <2> QED
        BY <1>1, <2>1, <2>2, UpdateFacts DEF Served
<1> QED
    BY <1>3, <1>4, <1>5, <1>6 DEF MediaInv

\* An upload that learns of another loses nothing but its loneliness.
LEMMA MetFacts ==
    ASSUME NEW q \in Upload, NEW s
    PROVE  LET w == Met(q, s) IN
           /\ w \in Upload /\ w.stage = q.stage /\ w.slot = q.slot /\ w.ext = q.ext
           /\ w.size = q.size /\ w.next = q.next /\ w.clean = q.clean
           /\ w.user = q.user /\ w.old = q.old
           /\ w.alone => q.alone /\ q.slot # s
           /\ w.apart => q.apart /\ ~ SameAccount(q.slot, s)
<1> DEFINE w == Met(q, s)
           a == q.alone /\ q.slot # s
           b == q.apart /\ ~ SameAccount(q.slot, s)
<1>1. q.alone \in BOOLEAN /\ q.apart \in BOOLEAN
    BY DEF Upload
<1>2. a \in BOOLEAN /\ b \in BOOLEAN
    BY <1>1
<1>3. w = [q EXCEPT !.alone = a, !.apart = b]
    BY DEF Met
<1> HIDE DEF a, b, w
<1>4. w \in Upload
    BY <1>2, <1>3 DEF Upload
<1>5. /\ w.stage = q.stage /\ w.slot = q.slot /\ w.ext = q.ext
      /\ w.size = q.size /\ w.next = q.next /\ w.alone = a
      /\ w.user = q.user /\ w.old = q.old /\ w.apart = b /\ w.clean = q.clean
    BY <1>2, <1>3 DEF Upload
<1> QED
    BY <1>4, <1>5 DEF a, b, w

\* A new upload: from now on no other upload of its slot is alone.
LEMMA InvFetchSlot ==
    ASSUME MediaInv, NEW k \in Uploads, NEW s \in Slots, NEW u \in Uploaders,
           NEW ext \in Accepted(s) \cap Types, NEW size \in Sizes,
           FetchSlot(k, s, u, ext, size)
    PROVE  MediaInv'
<1> DEFINE a == \A i \in Uploading : upload[i].slot # s
           b == \A i \in Uploading : ~ SameAccount(upload[i].slot, s)
           q == [stage |-> "body", slot |-> s, user |-> u, ext |-> ext, size |-> size,
                 old |-> mediaRow[s].bytes, next |-> 1, alone |-> a, apart |-> b,
                 clean |-> TRUE, gone |-> FALSE]
           m(j) == Met(upload[j], s)
<1>1. upload \in [Uploads -> Upload] /\ \A j \in Uploads : UploadOK(upload[j])
    BY DEF MediaInv, MediaTypeOK
<1>2. ext \in Exts /\ size \in Nat /\ mediaRow[s].bytes \in Nat
    BY AcceptedRemoved, MediaAssumption DEF FetchSlot, MediaInv, MediaTypeOK
<1>3. q \in Upload
    BY <1>2 DEF Upload, UploadStages
<1>4. UNCHANGED <<mediaRow, files, creator>>
    BY DEF FetchSlot
<1>5. upload' = [j \in Uploads |-> CASE j = k -> q
                                     [] j # k /\ upload[j].slot # NoExt -> Kept(m(j))
                                     [] OTHER -> upload[j]]
    BY DEF FetchSlot
<1>6. /\ q.stage = "body" /\ q.slot = s /\ q.ext = ext /\ q.next = 1 /\ q.alone = a
      /\ UploadOK(q)
    BY MediaAssumption DEF UploadOK
<1> HIDE DEF q
<1>7. ASSUME NEW j \in Uploads, j # k
      PROVE  /\ m(j) \in Upload /\ m(j).stage = upload[j].stage /\ m(j).ext = upload[j].ext
             /\ m(j).size = upload[j].size /\ m(j).next = upload[j].next
             /\ m(j).clean = upload[j].clean
             /\ m(j).slot = upload[j].slot
             /\ m(j).alone => upload[j].alone /\ upload[j].slot # s
             /\ UploadOK(m(j))
    <2>1. /\ m(j) \in Upload /\ m(j).stage = upload[j].stage /\ m(j).ext = upload[j].ext
          /\ m(j).size = upload[j].size /\ m(j).next = upload[j].next
          /\ m(j).clean = upload[j].clean
          /\ m(j).slot = upload[j].slot
          /\ m(j).alone => upload[j].alone /\ upload[j].slot # s
        BY <1>1, MetFacts
    <2> HIDE DEF m
    <2> QED
        BY <1>1, <2>1 DEF UploadOK
<1> HIDE DEF m
\* What becomes of another upload.
<1>8. ASSUME NEW j \in Uploads, j # k
      PROVE  /\ upload'[j] \in Upload /\ UploadOK(upload'[j])
             /\ upload'[j].stage = upload[j].stage
             /\ upload'[j].slot \in {upload[j].slot, NoExt}
             /\ upload'[j].alone =>
                   /\ upload[j].alone /\ upload[j].slot # s
                   /\ upload'[j].slot = upload[j].slot
                   /\ upload'[j].ext = upload[j].ext /\ upload'[j].size = upload[j].size
                   /\ upload'[j].clean = upload[j].clean
                   /\ upload[j].stage \in UploadStages =>
                         upload'[j].next = upload[j].next
    <2>1. CASE upload[j].slot # NoExt
        <3>1. upload'[j] = Kept(m(j))
            BY <1>5, <1>8, <2>1
        <3>2. UploadOK(Kept(m(j)))
            <4>1. m(j).stage \in UploadStages =>
                    Kept(m(j)).slot = m(j).slot /\ Kept(m(j)).next = m(j).next
                BY <1>7, <1>8, KeptFacts
            <4>2. m(j).stage = "body" \/ m(j).stage = "purge" => m(j).stage \in UploadStages
                BY DEF UploadStages
            <4> QED
                BY <1>7, <1>8, <4>1, <4>2, KeptFacts DEF UploadOK
        <3>3. Kept(m(j)).alone => Kept(m(j)).slot # NoExt
            BY <3>2 DEF UploadOK
        <3> QED
            BY <1>7, <1>8, <3>1, <3>2, <3>3, KeptFacts
    <2>2. CASE upload[j].slot = NoExt
        <3>1. upload'[j] = upload[j]
            BY <1>5, <1>8, <2>2
        <3> QED
            BY <1>1, <2>2, <3>1 DEF UploadOK
    <2> QED
        BY <2>1, <2>2
<1>9. upload'[k] = q
    BY <1>5
<1>10. upload' \in [Uploads -> Upload]
    BY <1>3, <1>5, <1>8, <1>9
<1>11. MediaTypeOK' /\ OnlyAccepted'
    BY <1>4, <1>10 DEF MediaInv, MediaTypeOK, OnlyAccepted
<1>12. \A j \in Uploads : UploadOK(upload[j])'
    BY <1>6, <1>8, <1>9 DEF UploadOK
<1>13. LoneInSlot'
    <2> SUFFICES ASSUME NEW i \in Uploads, NEW j \in Uploads, upload'[j].alone, i # j,
                        upload'[i].slot = upload'[j].slot
                 PROVE  upload'[i].stage \notin UploadStages
        BY DEF LoneInSlot
    <2>1. CASE i # k /\ j # k
        <3>1. upload'[j].slot # NoExt
            BY <1>12 DEF UploadOK
        <3>2. upload[j].alone /\ upload[i].slot = upload[j].slot
            BY <1>8, <2>1, <3>1
        <3> QED
            BY <1>8, <2>1, <3>2 DEF MediaInv, LoneInSlot
    <2>2. CASE i = k
        BY <1>6, <1>8, <1>9, <2>2
    <2>3. CASE j = k
        <3>1. upload'[i].slot = s /\ a /\ i # k
            BY <1>6, <1>9, <2>3
        <3>2. upload[i].slot = s
            BY <1>8, <3>1, MediaAssumption
        <3>3. i \notin Uploading
            BY <3>1, <3>2
        <3> QED
            BY <1>8, <3>1, <3>3 DEF Uploading
    <2> QED
        BY <2>1, <2>2, <2>3
<1>14. ASSUME NEW j \in Uploads, upload'[j].alone
       PROVE  Served(upload'[j], files'[upload'[j].slot], mediaRow'[upload'[j].slot])
    <2>1. CASE j = k
        BY <1>6, <1>9, <2>1 DEF Served
    <2>2. CASE j # k
        <3>1. Served(upload[j], files[upload[j].slot], mediaRow[upload[j].slot])
            BY <1>8, <1>14, <2>2 DEF MediaInv
        <3>2. /\ upload'[j].slot = upload[j].slot /\ upload'[j].stage = upload[j].stage
              /\ upload'[j].ext = upload[j].ext /\ upload'[j].size = upload[j].size
              /\ upload'[j].clean = upload[j].clean
              /\ upload[j].stage = "purge" => upload'[j].next = upload[j].next
            BY <1>8, <1>14, <2>2 DEF UploadStages
        <3>3. RowOf(upload'[j]) = RowOf(upload[j])
            BY <3>2 DEF RowOf
        <3> QED
            BY <1>4, <3>1, <3>2, <3>3 DEF Served
    <2> QED
        BY <2>1, <2>2
<1> QED
    BY <1>11, <1>12, <1>13, <1>14 DEF MediaInv
-----------------------------------------------------------------------------
(* The specification.                                                      *)

\* Nothing is there at the start.
LEMMA MediaInitInv == MediaInit => MediaInv
<1> SUFFICES ASSUME MediaInit PROVE MediaInv
    OBVIOUS
<1>1. /\ NoUpload \in Upload /\ NoUpload.stage = "none" /\ NoUpload.slot = NoExt
      /\ NoUpload.alone = FALSE
    BY DEF NoUpload, Upload
<1>2. UploadOK(NoUpload)
    BY <1>1 DEF UploadOK, UploadStages
<1>3. MediaTypeOK
    BY <1>1, MediaAssumption DEF MediaInit, MediaTypeOK
<1> QED
    BY <1>1, <1>2, <1>3 DEF MediaInit, MediaInv, OnlyAccepted, LoneInSlot

\* The invariant is inductive.
LEMMA MediaNextInv == MediaInv /\ [MediaNext]_mediaVars => MediaInv'
<1> SUFFICES ASSUME MediaInv, [MediaNext]_mediaVars PROVE MediaInv'
    OBVIOUS
<1>1. CASE UNCHANGED mediaVars
    BY <1>1 DEF MediaInv, MediaTypeOK, UploadOK, OnlyAccepted, LoneInSlot, mediaVars
<1>2. CASE MediaNext
    BY <1>2, InvFetchSlot, InvCheckQuota, InvRemoveOld, InvWriteFile, InvWriteRow,
       InvHangUp, InvDropUpload, InvUpdatePerson, InvRowDeleted DEF MediaNext
<1> QED
    BY <1>1, <1>2

\* The invariant of uploads, files and rows.
THEOREM MediaInvCorrect == MediaSpec => []MediaInv
BY MediaInitInv, MediaNextInv, PTL DEF MediaSpec

\* Type correctness of uploads, files and rows; a row without an image counts no
\* bytes (image.rs).
THEOREM MediaTypeCorrect == MediaSpec => []MediaTypeOK
<1>1. MediaInv => MediaTypeOK
    BY DEF MediaInv
<1> QED
    BY MediaInvCorrect, <1>1, PTL

\* An answered upload that met no other of its slot is what the slot serves, for
\* any number of uploads that failed, were dropped or overlapped before it
\* (upload_image, upload_life_image, upload_tree_image).
THEOREM LoneUploadServedCorrect == MediaSpec => []LoneUploadServed
<1>1. MediaInv => LoneUploadServed
    BY DEF MediaInv, LoneUploadServed, Served
<1> QED
    BY MediaInvCorrect, <1>1, PTL
-----------------------------------------------------------------------------
(* Sums of bytes.  MapThenSumSet picks the elements of a set one after the *)
(* other; that the order does not matter is shown by induction on the      *)
(* number of elements, as the absence of a smallest counterexample.        *)

\* A set of numbers has a least one.
LEMMA LeastNat ==
    ASSUME NEW N, N \subseteq Nat, N # {}
    PROVE  \E m \in N : \A n \in N : m <= n
<1> DEFINE R == {ss \in Nat \X Nat : ss[1] < ss[2]}
<1>1. IsWellFoundedOn(R, Nat)
    BY NatLessThanWellFounded, Zenon DEF OpToRel
<1>2. \A x, y : <<x, y>> \in R <=> x \in Nat /\ y \in Nat /\ x < y
    OBVIOUS
<1> HIDE DEF R
<1>3. PICK m \in N : \A n \in N : <<n, m>> \notin R
    BY <1>1, WFMin
<1>4. \A n \in N : m \in Nat /\ n \in Nat /\ ~ (n < m)
    BY <1>2, <1>3
<1> QED
    BY <1>4

\* Of the sets in C one has the fewest elements.
LEMMA LeastSet ==
    ASSUME NEW S, IsFiniteSet(S), NEW C, C \subseteq SUBSET S, C # {}
    PROVE  \E s \in C : \A t \in C : Cardinality(s) <= Cardinality(t)
<1> DEFINE N == {Cardinality(s) : s \in C}
<1>1. \A s \in C : Cardinality(s) \in Nat
    BY FS_Subset, FS_CardinalityType
<1>2. N \subseteq Nat /\ N # {}
    BY <1>1
<1>3. PICK m \in N : \A n \in N : m <= n
    <2> HIDE DEF N
    <2> QED  BY <1>2, LeastNat
<1> QED
    BY <1>3

\* The sum of the bytes that table T has at the slots S.
BytesAt(T, S) == MapThenSumSet(LAMBDA s : T[s].bytes, S)

Pick(s) == CHOOSE x \in s : TRUE

\* g sums up the sets in D, each from the one without the element picked.
Sums(g, T, D) ==
    g = [s \in D |-> IF s = {} THEN 0 ELSE T[Pick(s)].bytes + g[s \ {Pick(s)}]]

\* The fold of the model is such a sum, if there is one.
LEMMA BytesBySums ==
    ASSUME NEW T, NEW S
    PROVE  BytesAt(T, S) = (CHOOSE g : Sums(g, T, SUBSET S))[S]
    BY Zenon DEF BytesAt, MapThenSumSet, MapThenFoldSet, Sums, Pick

\* One element less.
LEMMA OneLess ==
    ASSUME NEW S, IsFiniteSet(S), NEW s, s \subseteq S, NEW x \in s
    PROVE  /\ s \ {x} \subseteq S
           /\ Cardinality(s) \in Nat /\ Cardinality(s \ {x}) \in Nat
           /\ Cardinality(s \ {x}) = Cardinality(s) - 1
           /\ Cardinality(s \ {x}) < Cardinality(s)
<1>1. IsFiniteSet(s) /\ IsFiniteSet(s \ {x})
    BY FS_Subset
<1>2. Cardinality(s \ {x}) = Cardinality(s) - 1
    BY <1>1, FS_RemoveElement
<1> QED
    BY <1>1, <1>2, FS_CardinalityType

\* There is one: sums of sets of n elements are made from those of n - 1.
LEMMA SumsExist ==
    ASSUME NEW S, IsFiniteSet(S), NEW T
    PROVE  \E g : Sums(g, T, SUBSET S)
<1> DEFINE L(n) == {s \in SUBSET S : Cardinality(s) <= n}
           N == {n \in Nat : ~ \E g : Sums(g, T, L(n))}
<1>1. \A s \in SUBSET S : s # {} => Pick(s) \in s
    BY DEF Pick
<1>2. \A s \in SUBSET S : Cardinality(s) \in Nat /\ (Cardinality(s) = 0 <=> s = {})
    BY FS_Subset, FS_CardinalityType, FS_EmptySet
<1>3. ASSUME NEW n \in Nat, NEW g, n # 0 => Sums(g, T, L(n - 1))
      PROVE  \E h : Sums(h, T, L(n))
    <2> DEFINE h == [s \in L(n) |-> IF s = {} THEN 0 ELSE T[Pick(s)].bytes + g[s \ {Pick(s)}]]
    <2>1. ASSUME NEW s \in L(n), s # {}
          PROVE  s \ {Pick(s)} \in L(n) /\ n # 0 /\ s \ {Pick(s)} \in L(n - 1)
        <3>1. /\ s \ {Pick(s)} \subseteq S /\ Cardinality(s) \in Nat
              /\ Cardinality(s \ {Pick(s)}) = Cardinality(s) - 1
              /\ Cardinality(s \ {Pick(s)}) \in Nat
            BY <1>1, <2>1, OneLess
        <3> QED
            BY <3>1
    <2>2. ASSUME NEW s \in L(n), s # {}
          PROVE  h[s \ {Pick(s)}] = g[s \ {Pick(s)}]
        <3> DEFINE u == s \ {Pick(s)}
        <3>1. u \in L(n) /\ n # 0 /\ u \in L(n - 1)
            BY <2>1, <2>2
        <3>2. g[u] = IF u = {} THEN 0 ELSE T[Pick(u)].bytes + g[u \ {Pick(u)}]
            <4> HIDE DEF u, L
            <4> QED  BY <3>1, <1>3 DEF Sums
        <3>3. h[u] = IF u = {} THEN 0 ELSE T[Pick(u)].bytes + g[u \ {Pick(u)}]
            <4> HIDE DEF u, L
            <4> QED  BY <3>1
        <3> QED
            BY <3>2, <3>3
    <2>3. h = [s \in L(n) |-> IF s = {} THEN 0 ELSE T[Pick(s)].bytes + h[s \ {Pick(s)}]]
        <3>1. \A s \in L(n) : h[s] = IF s = {} THEN 0 ELSE T[Pick(s)].bytes + g[s \ {Pick(s)}]
            <4> HIDE DEF L
            <4> QED  OBVIOUS
        <3>2. h = [s \in L(n) |-> h[s]]
            <4> HIDE DEF L
            <4> QED  OBVIOUS
        <3> HIDE DEF h, L
        <3> QED
            BY <3>1, <3>2, <2>2
    <2> QED
        BY <2>3 DEF Sums
<1>4. N = {}
    <2> SUFFICES ASSUME N # {} PROVE FALSE
        OBVIOUS
    <2>1. PICK m \in N : \A n \in N : m <= n
        <3>1. N \subseteq Nat
            OBVIOUS
        <3> HIDE DEF N
        <3> QED  BY <3>1, LeastNat
    <2>2. m \in Nat /\ ~ \E g : Sums(g, T, L(m))
        <3> HIDE DEF L
        <3> QED  OBVIOUS
    <2>3. m # 0
        <3> HIDE DEF L
        <3> QED  BY <2>2, <1>3
    <2>4. m - 1 \in Nat /\ m - 1 \notin N
        <3> HIDE DEF N
        <3> QED  BY <2>1, <2>2, <2>3
    <2>5. \E g : Sums(g, T, L(m - 1))
        <3> HIDE DEF L
        <3> QED  BY <2>4
    <2> HIDE DEF L
    <2> QED
        BY <2>2, <2>5, <1>3
<1>5. Cardinality(S) \in Nat /\ L(Cardinality(S)) = SUBSET S
    BY FS_Subset, FS_CardinalityType
<1>6. \E g : Sums(g, T, L(Cardinality(S)))
    <2> HIDE DEF L
    <2> QED  BY <1>4, <1>5
<1> QED
    BY <1>5, <1>6

\* What a sum is, of the subsets of S.
LEMMA SumsUnfold ==
    ASSUME NEW S, NEW T, NEW g, Sums(g, T, SUBSET S), NEW s \in SUBSET S
    PROVE  g[s] = IF s = {} THEN 0 ELSE T[Pick(s)].bytes + g[s \ {Pick(s)}]
    BY DEF Sums

\* Tables T and V hold the same bytes at S.
SameBytes(T, V, S) == \A x \in S : T[x].bytes = V[x].bytes

\* Two sums agree on what their tables agree about.
LEMMA SumsAgree ==
    ASSUME NEW S, IsFiniteSet(S), NEW R, R \subseteq S, NEW T, NEW V, NEW g, NEW h,
           Sums(g, T, SUBSET S), Sums(h, V, SUBSET R),
           SameBytes(T, V, R)
    PROVE  \A s \in SUBSET R : g[s] = h[s]
<1> DEFINE C == {s \in SUBSET R : g[s] # h[s]}
<1> SUFFICES ASSUME C # {} PROVE FALSE
    OBVIOUS
<1>1. IsFiniteSet(R)
    BY FS_Subset
<1>2. PICK s \in C : \A t \in C : Cardinality(s) <= Cardinality(t)
    <2>1. C \subseteq SUBSET R
        OBVIOUS
    <2> HIDE DEF C
    <2> QED  BY <1>1, <2>1, LeastSet
<1>3. s \in SUBSET R /\ s \in SUBSET S /\ g[s] # h[s]
    OBVIOUS
<1>4. /\ g[s] = IF s = {} THEN 0 ELSE T[Pick(s)].bytes + g[s \ {Pick(s)}]
      /\ h[s] = IF s = {} THEN 0 ELSE V[Pick(s)].bytes + h[s \ {Pick(s)}]
    <2>1. g[s] = IF s = {} THEN 0 ELSE T[Pick(s)].bytes + g[s \ {Pick(s)}]
        <3>1. s \in SUBSET S /\ Sums(g, T, SUBSET S)
            BY <1>3
        <3> QED  BY <3>1 DEF Sums
    <2>2. h[s] = IF s = {} THEN 0 ELSE V[Pick(s)].bytes + h[s \ {Pick(s)}]
        BY <1>3, SumsUnfold
    <2> QED
        BY <2>1, <2>2
<1>5. s # {} /\ Pick(s) \in s
    BY <1>3, <1>4 DEF Pick
<1>6. /\ s \ {Pick(s)} \in SUBSET R
      /\ Cardinality(s) \in Nat /\ Cardinality(s \ {Pick(s)}) \in Nat
      /\ Cardinality(s \ {Pick(s)}) < Cardinality(s)
    BY <1>1, <1>3, <1>5, OneLess
<1>7. s \ {Pick(s)} \notin C
    <2> HIDE DEF C
    <2> QED  BY <1>2, <1>6
<1>8. g[s \ {Pick(s)}] = h[s \ {Pick(s)}]
    BY <1>6, <1>7
<1> QED
    BY <1>3, <1>4, <1>5, <1>8 DEF SameBytes

\* A sum counts each element once, in whatever order it picks them.
LEMMA SumsSplit ==
    ASSUME NEW S, IsFiniteSet(S), NEW T, NEW g, Sums(g, T, SUBSET S),
           \A x \in S : T[x].bytes \in Nat
    PROVE  \A s \in SUBSET S :
             /\ g[s] \in Nat
             /\ \A x \in s : g[s] = T[x].bytes + g[s \ {x}]
<1> DEFINE Good(s) == g[s] \in Nat /\ \A x \in s : g[s] = T[x].bytes + g[s \ {x}]
           C == {s \in SUBSET S : ~ Good(s)}
<1> SUFFICES ASSUME C # {} PROVE FALSE
    OBVIOUS
<1>2. PICK s \in C : \A t \in C : Cardinality(s) <= Cardinality(t)
    <2>1. C \subseteq SUBSET S
        OBVIOUS
    <2> HIDE DEF C
    <2> QED  BY <2>1, LeastSet
<1>3. s \in SUBSET S /\ ~ Good(s)
    <2> HIDE DEF Good
    <2> QED  OBVIOUS
<1>4. \A x \in s : s \ {x} \in SUBSET S /\ Good(s \ {x})
    <2> SUFFICES ASSUME NEW x \in s PROVE s \ {x} \in SUBSET S /\ Good(s \ {x})
        OBVIOUS
    <2>1. /\ s \ {x} \in SUBSET S
          /\ Cardinality(s) \in Nat /\ Cardinality(s \ {x}) \in Nat
          /\ Cardinality(s \ {x}) < Cardinality(s)
        BY <1>3, OneLess
    <2>2. s \ {x} \notin C
        <3> HIDE DEF C
        <3> QED  BY <1>2, <2>1
    <2> HIDE DEF Good
    <2> QED
        BY <2>1, <2>2
<1>5. g[s] = IF s = {} THEN 0 ELSE T[Pick(s)].bytes + g[s \ {Pick(s)}]
    BY <1>3, SumsUnfold
<1>6. CASE s = {}
    BY <1>3, <1>5, <1>6
<1>7. CASE s # {}
    <2> DEFINE c == Pick(s)
    <2>1. c \in s
        BY <1>7 DEF Pick
    <2>2. g[s] = T[c].bytes + g[s \ {c}] /\ T[c].bytes \in Nat /\ g[s \ {c}] \in Nat
        <3>1. Good(s \ {c})
            <4> HIDE DEF Good, c
            <4> QED  BY <2>1, <1>4
        <3> QED  BY <1>3, <1>5, <1>7, <2>1, <3>1
    <2>3. g[s] \in Nat
        <3> HIDE DEF c
        <3> QED  BY <2>2
    <2>4. ASSUME NEW x \in s, x # c
          PROVE  g[s] = T[x].bytes + g[s \ {x}]
        <3> HIDE DEF c
        <3>1. Good(s \ {c}) /\ Good(s \ {x})
            <4> HIDE DEF Good
            <4> QED  BY <2>1, <1>4
        <3>2. x \in s \ {c} /\ c \in s \ {x}
            BY <2>1, <2>4
        <3>3. g[s \ {c}] = T[x].bytes + g[(s \ {c}) \ {x}]
            BY <3>1, <3>2
        <3>4. g[s \ {x}] = T[c].bytes + g[(s \ {x}) \ {c}]
            BY <3>1, <3>2
        <3>5. (s \ {c}) \ {x} = (s \ {x}) \ {c}
            OBVIOUS
        <3>6. g[(s \ {c}) \ {x}] \in Nat
            <4>1. s \ {c} \subseteq S /\ x \in s \ {c}
                BY <1>3, <3>2
            <4>2. /\ (s \ {c}) \ {x} \in SUBSET S
                  /\ Cardinality(s) \in Nat /\ Cardinality(s \ {c}) \in Nat
                  /\ Cardinality((s \ {c}) \ {x}) \in Nat
                  /\ Cardinality(s \ {c}) < Cardinality(s)
                  /\ Cardinality((s \ {c}) \ {x}) < Cardinality(s \ {c})
                BY <1>3, <2>1, <4>1, OneLess
            <4>3. Cardinality((s \ {c}) \ {x}) < Cardinality(s)
                BY <4>2
            <4>4. (s \ {c}) \ {x} \notin C
                <5> HIDE DEF C
                <5> QED  BY <1>2, <4>2, <4>3
            <4> QED
                BY <4>2, <4>4
        <3>7. T[x].bytes \in Nat /\ T[c].bytes \in Nat
            BY <1>3, <2>1
        <3> QED
            <4>1. g[s \ {x}] = T[c].bytes + g[(s \ {c}) \ {x}]
                BY <3>4, <3>5
            <4> DEFINE r == g[(s \ {c}) \ {x}]
            <4>2. /\ g[s] = T[c].bytes + (T[x].bytes + r)
                  /\ g[s \ {x}] = T[c].bytes + r /\ r \in Nat
                BY <2>2, <3>3, <3>6, <4>1
            <4> HIDE DEF r
            <4> QED
                BY <3>7, <4>2
    <2>5. \A x \in s : g[s] = T[x].bytes + g[s \ {x}]
        <3> HIDE DEF c
        <3> QED  BY <2>2, <2>4
    <2> QED
        BY <1>3, <2>3, <2>5
<1> QED
    BY <1>6, <1>7

\* So the fold is a sum.
LEMMA BytesSummed ==
    ASSUME NEW S, IsFiniteSet(S), NEW T
    PROVE  \E g : Sums(g, T, SUBSET S) /\ BytesAt(T, S) = g[S]
<1> DEFINE g == CHOOSE g : Sums(g, T, SUBSET S)
<1>1. Sums(g, T, SUBSET S)
    BY SumsExist
<1>2. BytesAt(T, S) = g[S]
    BY BytesBySums
<1> HIDE DEF g
<1> QED
    BY <1>1, <1>2

\* The bytes at S are a sum of one slot's and those of the others.
LEMMA BytesSplit ==
    ASSUME NEW S, IsFiniteSet(S), NEW T, \A x \in S : T[x].bytes \in Nat
    PROVE  /\ BytesAt(T, S) \in Nat
           /\ \A x \in S : BytesAt(T, S) = T[x].bytes + BytesAt(T, S \ {x})
<1>1. PICK g : Sums(g, T, SUBSET S) /\ BytesAt(T, S) = g[S]
    BY BytesSummed
<1>2. BytesAt(T, S) \in Nat
    BY <1>1, SumsSplit
<1>3. ASSUME NEW x \in S
      PROVE  BytesAt(T, S) = T[x].bytes + BytesAt(T, S \ {x})
    <2>1. PICK R : R = S \ {x}
        OBVIOUS
    <2>2. IsFiniteSet(R) /\ R \subseteq S
        BY <2>1, FS_Subset
    <2>3. PICK h : Sums(h, T, SUBSET R) /\ BytesAt(T, R) = h[R]
        BY <2>2, BytesSummed
    <2>4. \A s \in SUBSET R : g[s] = h[s]
        <3>1. SameBytes(T, T, R)
            BY DEF SameBytes
        <3> QED
            BY <1>1, <2>2, <2>3, <3>1, SumsAgree
    <2>5. g[S] = T[x].bytes + g[R]
        BY <1>1, <2>1, SumsSplit
    <2> QED
        BY <1>1, <2>1, <2>3, <2>4, <2>5
<1> QED
    BY <1>2, <1>3

\* Only the bytes at S count.
LEMMA BytesAgree ==
    ASSUME NEW S, IsFiniteSet(S), NEW T, NEW V, SameBytes(T, V, S)
    PROVE  BytesAt(T, S) = BytesAt(V, S)
<1>1. PICK g : Sums(g, T, SUBSET S) /\ BytesAt(T, S) = g[S]
    BY BytesSummed
<1>2. PICK h : Sums(h, V, SUBSET S) /\ BytesAt(V, S) = h[S]
    BY BytesSummed
<1>3. \A s \in SUBSET S : g[s] = h[s]
    <2>1. S \subseteq S
        OBVIOUS
    <2> QED
        BY <1>1, <1>2, <2>1, SumsAgree
<1> QED
    BY <1>1, <1>2, <1>3

\* Fewer slots hold no more bytes.
LEMMA BytesFewer ==
    ASSUME NEW S, IsFiniteSet(S), NEW R \in SUBSET S, NEW T, \A x \in S : T[x].bytes \in Nat
    PROVE  BytesAt(T, R) <= BytesAt(T, S)
<1> DEFINE C == {Q \in SUBSET S : R \subseteq Q /\ ~ (BytesAt(T, R) <= BytesAt(T, Q))}
<1>1. \A Q \in SUBSET S : IsFiniteSet(Q) /\ BytesAt(T, Q) \in Nat
    BY FS_Subset, BytesSplit
<1>2. C = {}
    <2> SUFFICES ASSUME C # {} PROVE FALSE
        OBVIOUS
    <2>1. PICK Q \in C : \A P \in C : Cardinality(Q) <= Cardinality(P)
        <3>1. C \subseteq SUBSET S
            OBVIOUS
        <3> HIDE DEF C
        <3> QED  BY <3>1, LeastSet
    <2>2. Q \in SUBSET S /\ R \subseteq Q /\ ~ (BytesAt(T, R) <= BytesAt(T, Q))
        OBVIOUS
    <2>3. PICK x \in Q : x \notin R
        BY <1>1, <2>2
    <2>4. /\ Q \ {x} \in SUBSET S
          /\ Cardinality(Q) \in Nat /\ Cardinality(Q \ {x}) \in Nat
          /\ Cardinality(Q \ {x}) < Cardinality(Q)
        BY <2>2, OneLess
    <2>5. Q \ {x} \notin C
        <3> HIDE DEF C
        <3> QED  BY <2>1, <2>4
    <2>6. BytesAt(T, R) <= BytesAt(T, Q \ {x})
        BY <2>2, <2>3, <2>4, <2>5
    <2>7. BytesAt(T, Q) = T[x].bytes + BytesAt(T, Q \ {x}) /\ T[x].bytes \in Nat
        <3>1. IsFiniteSet(Q) /\ \A y \in Q : T[y].bytes \in Nat
            BY <1>1, <2>2
        <3> QED  BY <3>1, BytesSplit
    <2> QED
        BY <1>1, <2>2, <2>4, <2>6, <2>7
<1> QED
    BY <1>1, <1>2
-----------------------------------------------------------------------------
(* The uploader's plan.                                                    *)

\* The slots whose images table T counts for w, with creators C.
CountedFor(w, T, C) == {s \in Slots : s[1] # "tree" /\ C[s[2]] = w /\ T[s] # NoRow}

BytesFor(w, T, C) == BytesAt(T, CountedFor(w, T, C))

\* The upload's slot counts for the uploader.
OwnSlot(q, C) == q.slot[1] # "tree" /\ C[q.slot[2]] = UserId[q.user]

\* What an upload that met no other of its account can rely on, with rows T and
\* creators C: until the check, that it remembers the bytes to be replaced; then,
\* that there is room.
Budget(q, T, C) ==
    q.stage \in UploadStages /\ q.apart /\ OwnSlot(q, C) /\ T[q.slot] # NoRow =>
        IF q.stage = "body" THEN q.old = T[q.slot].bytes
        ELSE BytesFor(UserId[q.user], T, C) - T[q.slot].bytes + q.size
                <= StorageLimit[q.user]

\* While an upload counts as apart no other of its account is under way.
ApartInAccount ==
    \A j, k \in Uploads :
        upload[k].apart /\ j # k /\ upload[j].stage \in UploadStages =>
            ~ SameAccount(upload[j].slot, upload[k].slot)

UploaderOK(q) ==
    /\ q.apart => q.stage \in UploadStages
    /\ q.stage \in UploadStages => q.user \in Uploaders

QuotaInv ==
    /\ MediaInv
    /\ \A k \in Uploads : UploaderOK(upload[k])
    /\ ApartInAccount
    /\ \A k \in Uploads : Budget(upload[k], mediaRow, creator)

\* What the rows can be.
Rows == [Slots -> [ext : Exts \cup {NoExt}, bytes : Nat] \cup {NoRow}]

\* The sum of the model, by the lemmas.
LEMMA MediaBytesFor == \A w : MediaBytesOf(w) = BytesFor(w, mediaRow, creator)
    BY Zenon DEF MediaBytesOf, BytesFor, BytesAt, CountedFor

\* And after a step.
LEMMA MediaBytesForNext == \A w : MediaBytesOf(w)' = BytesFor(w, mediaRow', creator')
<1>1. (\A w : MediaBytesOf(w) = BytesFor(w, mediaRow, creator))'
    BY MediaBytesFor, PTL
<1> QED
    BY <1>1

\* Rows counted are finitely many and have a number of bytes.
LEMMA CountedFacts ==
    ASSUME NEW w, NEW C, NEW T \in Rows
    PROVE  /\ IsFiniteSet(CountedFor(w, T, C))
           /\ \A x \in CountedFor(w, T, C) : T[x].bytes \in Nat
           /\ BytesFor(w, T, C) \in Nat
<1>1. CountedFor(w, T, C) \subseteq Slots
    BY DEF CountedFor
<1>2. IsFiniteSet(CountedFor(w, T, C))
    BY <1>1, MediaAssumption, FS_Subset
<1>3. \A x \in CountedFor(w, T, C) : T[x].bytes \in Nat
    <2> SUFFICES ASSUME NEW x \in CountedFor(w, T, C) PROVE T[x].bytes \in Nat
        OBVIOUS
    <2>1. x \in Slots /\ T[x] # NoRow
        BY DEF CountedFor
    <2>2. T[x] \in [ext : Exts \cup {NoExt}, bytes : Nat]
        BY <2>1 DEF Rows
    <2> QED
        BY <2>2
<1> QED
    BY <1>2, <1>3, BytesSplit DEF BytesFor

\* A counted row that is replaced counts with its new bytes instead of its old.
LEMMA RowReplaced ==
    ASSUME NEW w, NEW C, NEW T \in Rows, NEW V \in Rows, NEW s \in CountedFor(w, T, C), V[s] # NoRow,
           \A x \in Slots \ {s} : V[x] = T[x]
    PROVE  BytesFor(w, V, C) = BytesFor(w, T, C) - T[s].bytes + V[s].bytes
<1>1. CountedFor(w, V, C) = CountedFor(w, T, C)
    BY DEF CountedFor
<1>2. PICK S : S = CountedFor(w, T, C)
    OBVIOUS
<1>3. PICK R : R = S \ {s}
    OBVIOUS
<1>4. /\ IsFiniteSet(S) /\ IsFiniteSet(R) /\ s \in S
      /\ \A x \in S : T[x].bytes \in Nat /\ V[x].bytes \in Nat
    <2>1. IsFiniteSet(S) /\ \A x \in S : T[x].bytes \in Nat
        BY <1>2, CountedFacts
    <2>2. \A x \in S : V[x].bytes \in Nat
        BY <1>1, <1>2, CountedFacts
    <2> QED
        BY <1>2, <1>3, <2>1, <2>2, FS_Subset
<1>5. SameBytes(T, V, R)
    BY <1>2, <1>3 DEF SameBytes, CountedFor
<1>6. BytesAt(T, R) = BytesAt(V, R)
    BY <1>4, <1>5, BytesAgree
<1>7. BytesAt(T, S) = T[s].bytes + BytesAt(T, R)
    BY <1>3, <1>4, BytesSplit
<1>8. BytesAt(V, S) = V[s].bytes + BytesAt(V, R)
    BY <1>3, <1>4, BytesSplit
<1>9. BytesAt(T, R) \in Nat /\ T[s].bytes \in Nat /\ V[s].bytes \in Nat
    <2>1. \A x \in R : T[x].bytes \in Nat
        BY <1>3, <1>4
    <2> QED
        BY <1>4, <2>1, BytesSplit
<1> QED
    BY <1>1, <1>2, <1>6, <1>7, <1>8, <1>9 DEF BytesFor

\* A row that is not counted for w does not change w's bytes.
LEMMA RowElsewhere ==
    ASSUME NEW w, NEW C, NEW T \in Rows, NEW V \in Rows, NEW s,
           s[1] = "tree" \/ C[s[2]] # w,
           \A x \in Slots \ {s} : V[x] = T[x]
    PROVE  BytesFor(w, V, C) = BytesFor(w, T, C)
<1>1. CountedFor(w, V, C) = CountedFor(w, T, C) /\ s \notin CountedFor(w, T, C)
    BY DEF CountedFor
<1>2. PICK S : S = CountedFor(w, T, C)
    OBVIOUS
<1>3. IsFiniteSet(S)
    BY <1>2, CountedFacts
<1>4. SameBytes(T, V, S)
    BY <1>1, <1>2 DEF SameBytes, CountedFor
<1>5. BytesAt(T, S) = BytesAt(V, S)
    BY <1>3, <1>4, BytesAgree
<1> QED
    BY <1>1, <1>2, <1>5 DEF BytesFor

\* Rows that go, or no longer count for w, free their bytes.
LEMMA RowsGone ==
    ASSUME NEW w, NEW C, NEW D, NEW T \in Rows, NEW V \in Rows,
           CountedFor(w, V, D) \subseteq CountedFor(w, T, C),
           \A x \in CountedFor(w, V, D) : V[x] = T[x]
    PROVE  BytesFor(w, V, D) <= BytesFor(w, T, C)
<1>1. PICK S : S = CountedFor(w, T, C)
    OBVIOUS
<1>2. PICK R : R = CountedFor(w, V, D)
    OBVIOUS
<1>3. R \in SUBSET S /\ SameBytes(T, V, R)
    BY <1>1, <1>2 DEF SameBytes
<1>4. IsFiniteSet(S) /\ IsFiniteSet(R) /\ \A x \in S : T[x].bytes \in Nat
    BY <1>1, <1>2, CountedFacts
<1>5. BytesAt(T, R) = BytesAt(V, R)
    BY <1>3, <1>4, BytesAgree
<1>6. BytesAt(T, R) <= BytesAt(T, S)
    BY <1>3, <1>4, BytesFewer
<1> QED
    BY <1>1, <1>2, <1>5, <1>6 DEF BytesFor

\* The rows before and after a step.
LEMMA RowsOK == (MediaInv => mediaRow \in Rows) /\ (MediaInv' => mediaRow' \in Rows)
    BY DEF MediaInv, MediaTypeOK, Rows

\* An upload that ends is no longer apart.
LEMMA KeptApart ==
    ASSUME NEW q \in Upload, q.stage \in UploadStages \cup {"done", "failed"}
    PROVE  /\ Kept(q).stage = q.stage
           /\ q.stage \in UploadStages =>
                 /\ Kept(q).slot = q.slot /\ Kept(q).user = q.user /\ Kept(q).size = q.size
                 /\ Kept(q).old = q.old /\ Kept(q).apart = q.apart
           /\ q.stage \notin UploadStages => Kept(q).apart = FALSE
<1>1. CASE q.stage \in UploadStages
    BY <1>1, KeptFacts
<1>2. CASE q.stage = "failed" \/ (q.stage = "done" /\ ~ q.alone)
    <2>1. Kept(q) = [NoUpload EXCEPT !.stage = q.stage]
        BY <1>2 DEF Kept
    <2>2. Kept(q).apart = FALSE
        BY <2>1 DEF NoUpload
    <2> QED
        BY <1>2, <2>2, KeptFacts
<1>3. CASE q.stage = "done" /\ q.alone
    <2>1. Kept(q) = [q EXCEPT !.apart = FALSE]
        BY <1>3 DEF Kept
    <2>2. Kept(q).apart = FALSE
        BY <2>1 DEF Upload
    <2> QED
        BY <1>3, <2>2, KeptFacts DEF UploadStages
<1> QED
    BY <1>1, <1>2, <1>3

\* An upload that moves on, or ends, keeps the invariant if it has its budget and
\* leaves the others theirs.
LEMMA QuotaMoved ==
    ASSUME QuotaInv, MediaInv', NEW k \in Uploads, upload[k].stage \in UploadStages,
           NEW q \in Upload, q.stage \in UploadStages \cup {"done", "failed"},
           q.slot = upload[k].slot, q.user = upload[k].user, q.apart => upload[k].apart,
           Moved(k, q), UNCHANGED creator, Budget(q, mediaRow', creator'),
           \A j \in Uploads \ {k} : Budget(upload[j], mediaRow', creator')
    PROVE  QuotaInv'
<1>1. upload \in [Uploads -> Upload]
    BY DEF QuotaInv, MediaInv, MediaTypeOK
<1>2. \A j \in Uploads : upload'[j] = IF j = k THEN Kept(q) ELSE upload[j]
    BY <1>1 DEF Moved
<1>3. /\ Kept(q).stage = q.stage
      /\ q.stage \in UploadStages =>
            /\ Kept(q).slot = q.slot /\ Kept(q).user = q.user /\ Kept(q).size = q.size
            /\ Kept(q).old = q.old /\ Kept(q).apart = q.apart
      /\ q.stage \notin UploadStages => Kept(q).apart = FALSE
    BY KeptApart
<1>4. ASSUME NEW j \in Uploads PROVE UploaderOK(upload'[j])
    <2>1. CASE j = k
        BY <1>2, <1>3, <2>1 DEF UploaderOK, QuotaInv
    <2>2. CASE j # k
        BY <1>2, <2>2 DEF UploaderOK, QuotaInv
    <2> QED
        BY <2>1, <2>2
<1>5. \A j \in Uploads :
         /\ upload'[j].stage \in UploadStages =>
               upload[j].stage \in UploadStages /\ upload'[j].slot = upload[j].slot
         /\ upload'[j].apart => upload[j].apart /\ upload'[j].slot = upload[j].slot
    BY <1>2, <1>3
<1>6. ApartInAccount'
    BY <1>5 DEF QuotaInv, ApartInAccount, SameAccount
<1>7. ASSUME NEW j \in Uploads PROVE Budget(upload'[j], mediaRow', creator')
    <2>1. CASE j = k
        BY <1>2, <1>3, <2>1 DEF Budget, OwnSlot
    <2>2. CASE j # k
        BY <1>2, <2>2
    <2> QED
        BY <2>1, <2>2
<1> QED
    BY <1>4, <1>6, <1>7 DEF QuotaInv

\* The check makes sure of the room.
LEMMA QuotaByCheck ==
    ASSUME QuotaInv, NEW k \in Uploads, CheckQuota(k)
    PROVE  QuotaInv'
<1> DEFINE s == IF WithinQuota(upload[k]) THEN "purge" ELSE "failed"
           q == [upload[k] EXCEPT !.old = 0, !.stage = s]
<1>1. upload[k].stage = "body" /\ upload[k].stage \in UploadStages
    BY DEF CheckQuota, UploadStages
<1>2. upload[k] \in Upload /\ UploadOK(upload[k]) /\ MediaInv
    BY <1>1, UnderWay DEF QuotaInv
<1>3. Moved(k, q) /\ UNCHANGED <<mediaRow, files, creator>>
    BY DEF CheckQuota
<1>4. s \in {"purge", "failed"} /\ (s = "purge" => WithinQuota(upload[k]))
    OBVIOUS
<1> HIDE DEF s
<1>5. q \in Upload
    BY <1>2, <1>4 DEF Upload, UploadStages
<1>6. /\ q.slot = upload[k].slot /\ q.user = upload[k].user /\ q.apart = upload[k].apart
      /\ q.stage = s /\ q.size = upload[k].size
    BY <1>2 DEF Upload
<1> HIDE DEF q
<1>7. Budget(q, mediaRow, creator)
    <2> SUFFICES ASSUME q.stage = "purge", q.apart, OwnSlot(q, creator), mediaRow[q.slot] # NoRow
                 PROVE  BytesFor(UserId[q.user], mediaRow, creator) - mediaRow[q.slot].bytes + q.size
                           <= StorageLimit[q.user]
        BY <1>4, <1>6 DEF Budget, UploadStages
    <2>1. WithinQuota(upload[k]) /\ OwnSlot(upload[k], creator) /\ upload[k].slot[1] # "tree"
        BY <1>4, <1>6 DEF OwnSlot
    <2>2. upload[k].old = mediaRow[upload[k].slot].bytes
        BY <1>1, <1>6, <2>1 DEF QuotaInv, Budget
    <2>3. TotalMediaBytes(upload[k].user) = BytesFor(UserId[upload[k].user], mediaRow, creator)
        BY MediaBytesFor DEF TotalMediaBytes
    <2> QED
        BY <1>6, <2>1, <2>2, <2>3 DEF WithinQuota
<1>8. MediaInv'
    BY <1>2, InvCheckQuota
<1>9. q.stage \in UploadStages \cup {"done", "failed"}
    BY <1>4, <1>6 DEF UploadStages
<1>10. Budget(q, mediaRow', creator') /\ \A j \in Uploads \ {k} : Budget(upload[j], mediaRow', creator')
    BY <1>3, <1>7 DEF QuotaInv
<1> QED
    BY <1>1, <1>3, <1>5, <1>6, <1>8, <1>9, <1>10, QuotaMoved

\* Steps that only move an upload on, past the check, or end it.
LEMMA QuotaQuiet ==
    ASSUME QuotaInv, MediaInv', NEW k \in Uploads, upload[k].stage \in UploadStages,
           NEW q \in Upload, q.stage \in UploadStages \cup {"failed"},
           q.stage \in UploadStages => q.stage # "body" /\ upload[k].stage # "body",
           q.slot = upload[k].slot, q.user = upload[k].user, q.apart => upload[k].apart,
           q.size = upload[k].size, Moved(k, q), UNCHANGED <<mediaRow, creator>>
    PROVE  QuotaInv'
<1>1. Budget(upload[k], mediaRow, creator) /\ \A j \in Uploads \ {k} : Budget(upload[j], mediaRow', creator')
    BY DEF QuotaInv
<1>2. Budget(q, mediaRow', creator')
    BY <1>1 DEF Budget, OwnSlot
<1> QED
    BY <1>1, <1>2, QuotaMoved

\* Removing and writing files, and ending.
LEMMA QuotaByFiles ==
    ASSUME QuotaInv, NEW k \in Uploads,
           \/ \E removed \in BOOLEAN : RemoveOld(k, removed)
           \/ WriteFile(k) \/ WriteFileFails(k) \/ HangUp(k) \/ DropUpload(k)
    PROVE  QuotaInv'
<1>1. upload[k].stage \in UploadStages
    BY DEF RemoveOld, WriteFile, WriteFileFails, HangUp, DropUpload, Uploading, UploadStages
<1>2. upload[k] \in Upload /\ UploadOK(upload[k]) /\ MediaInv
    BY <1>1, UnderWay DEF QuotaInv
<1>3. ASSUME NEW removed \in BOOLEAN, RemoveOld(k, removed) PROVE QuotaInv'
    <2> DEFINE last == upload[k].next = Len(Removed(upload[k].slot))
               n == IF last THEN 1 ELSE upload[k].next + 1
               g == After(upload[k], IF last THEN "write" ELSE "purge")
               c == upload[k].clean /\ removed
               q == [upload[k] EXCEPT !.next = n, !.clean = c, !.stage = g]
    <2>1. Moved(k, q) /\ UNCHANGED <<mediaRow, creator>> /\ upload[k].stage = "purge"
        BY <1>3 DEF RemoveOld
    <2>2. n \in 1 .. 6
        BY <1>2, <2>1, AcceptedRemoved DEF UploadOK
    <2>3. g \in {"write", "purge", "failed"} /\ c \in BOOLEAN
        BY <1>2 DEF After, Upload
    <2> HIDE DEF n, g, c
    <2>4. q \in Upload
        BY <1>2, <2>2, <2>3 DEF Upload, UploadStages
    <2>5. /\ q.slot = upload[k].slot /\ q.user = upload[k].user
          /\ q.apart = upload[k].apart /\ q.size = upload[k].size /\ q.stage = g
        BY <1>2 DEF Upload
    <2> HIDE DEF q
    <2>6. /\ q.stage \in UploadStages \cup {"failed"}
          /\ q.stage # "body" /\ upload[k].stage # "body"
        BY <2>1, <2>3, <2>5 DEF UploadStages
    <2>7. MediaInv'
        BY <1>2, <1>3, InvRemoveOld
    <2> QED
        BY <1>1, <2>1, <2>4, <2>5, <2>6, <2>7, QuotaQuiet
<1>4. CASE WriteFile(k)
    <2> DEFINE g == After(upload[k], "row")
               q == [upload[k] EXCEPT !.stage = g]
    <2>1. Moved(k, q) /\ UNCHANGED <<mediaRow, creator>> /\ upload[k].stage = "write"
        BY <1>4 DEF WriteFile, ToStage
    <2>6. g \in {"row", "failed"}
        BY DEF After
    <2> HIDE DEF g
    <2>2. q \in Upload
        BY <1>2, <2>6 DEF Upload, UploadStages
    <2>3. /\ q.slot = upload[k].slot /\ q.user = upload[k].user
          /\ q.apart = upload[k].apart /\ q.size = upload[k].size /\ q.stage = g
        BY <1>2 DEF Upload
    <2> HIDE DEF q
    <2>4. /\ q.stage \in UploadStages \cup {"failed"}
          /\ q.stage # "body" /\ upload[k].stage # "body"
        BY <2>1, <2>3, <2>6 DEF UploadStages
    <2>5. MediaInv'
        BY <1>2, <1>4, InvWriteFile
    <2> QED
        BY <1>1, <2>1, <2>2, <2>3, <2>4, <2>5, QuotaQuiet
<1>5. CASE WriteFileFails(k) \/ DropUpload(k)
    <2> DEFINE q == [upload[k] EXCEPT !.stage = "failed"]
    <2>1. Moved(k, q) /\ UNCHANGED <<mediaRow, creator>>
        BY <1>5 DEF WriteFileFails, DropUpload, Failed, ToStage
    <2>2. q \in Upload
        BY <1>2 DEF Upload
    <2>3. /\ q.slot = upload[k].slot /\ q.user = upload[k].user
          /\ q.apart = upload[k].apart /\ q.size = upload[k].size /\ q.stage = "failed"
        BY <1>2 DEF Upload
    <2> HIDE DEF q
    <2>4. q.stage \notin UploadStages
        BY <2>3 DEF UploadStages
    <2>5. MediaInv'
        BY <1>2, <1>5, InvWriteFile, InvDropUpload
    <2> QED
        BY <1>1, <2>1, <2>2, <2>3, <2>4, <2>5, QuotaQuiet
<1>6. CASE HangUp(k)
    <2> DEFINE q == [upload[k] EXCEPT !.gone = TRUE, !.alone = FALSE, !.apart = FALSE]
    <2>1. /\ Moved(k, q) /\ UNCHANGED <<mediaRow, creator>>
          /\ upload[k].stage \in UploadStages \ {"body"}
        BY <1>6 DEF HangUp, UploadStages
    <2>2. q \in Upload
        BY <1>2 DEF Upload
    <2>3. /\ q.slot = upload[k].slot /\ q.user = upload[k].user
          /\ q.apart = FALSE /\ q.size = upload[k].size
          /\ q.stage = upload[k].stage
        BY <1>2 DEF Upload
    <2> HIDE DEF q
    <2>4. MediaInv'
        BY <1>2, <1>6, InvHangUp
    <2> QED
        BY <1>1, <2>1, <2>2, <2>3, <2>4, QuotaQuiet
<1> QED
    BY <1>3, <1>4, <1>5, <1>6

\* A row that is written belongs to no other account that counts on its room.
LEMMA QuotaByRow ==
    ASSUME QuotaInv, NEW k \in Uploads, WriteRow(k)
    PROVE  QuotaInv'
<1> DEFINE s == upload[k].slot
           g == After(upload[k], "done")
           q == [upload[k] EXCEPT !.stage = g]
<1>1. upload[k].stage = "row" /\ upload[k].stage \in UploadStages
    BY DEF WriteRow, UploadStages
<1>2. upload[k] \in Upload /\ s \in Slots /\ MediaInv /\ MediaInv'
    BY <1>1, UnderWay, InvWriteRow DEF QuotaInv
<1>3. Moved(k, q) /\ UNCHANGED creator /\ g \in {"done", "failed"}
    BY DEF WriteRow, ToStage, After
<1> HIDE DEF g
<1>4. q \in Upload
    BY <1>2, <1>3 DEF Upload
<1>5. /\ q.slot = upload[k].slot /\ q.user = upload[k].user /\ q.apart = upload[k].apart
      /\ q.stage \in {"done", "failed"}
    BY <1>2, <1>3 DEF Upload
<1> HIDE DEF q
<1>6. PICK T : T = mediaRow
    OBVIOUS
<1>7. PICK V : V = mediaRow'
    OBVIOUS
<1>12. PICK C : C = creator
    OBVIOUS
<1>8. T \in Rows /\ V \in Rows
    BY <1>2, <1>6, <1>7, RowsOK
<1>9. \A x \in Slots \ {s} : V[x] = T[x]
    BY <1>2, <1>6, <1>7, <1>8 DEF WriteRow, Rows
<1>10. ASSUME NEW j \in Uploads \ {k} PROVE Budget(upload[j], V, C)
    <2> SUFFICES ASSUME upload[j].stage \in UploadStages, upload[j].apart,
                        OwnSlot(upload[j], C), V[upload[j].slot] # NoRow
                 PROVE  IF upload[j].stage = "body"
                        THEN upload[j].old = V[upload[j].slot].bytes
                        ELSE BytesFor(UserId[upload[j].user], V, C) - V[upload[j].slot].bytes
                               + upload[j].size <= StorageLimit[upload[j].user]
        BY DEF Budget
    <2>1. ~ SameAccount(s, upload[j].slot)
        BY <1>1 DEF QuotaInv, ApartInAccount
    <2>2. PICK w : w = UserId[upload[j].user]
        OBVIOUS
    <2>3. s[1] = "tree" \/ C[s[2]] # w
        BY <1>12, <2>1, <2>2 DEF SameAccount, OwnSlot
    <2>4. BytesFor(w, V, C) = BytesFor(w, T, C)
        <3> HIDE DEF s
        <3> QED  BY <1>8, <1>9, <2>3, RowElsewhere
    <2>5. upload[j].slot \in Slots \ {s}
        <3>1. upload[j].slot \in Slots
            BY <1>2, UnderWay
        <3>2. upload[j].slot # s
            BY <2>2, <2>3 DEF OwnSlot
        <3> QED
            BY <3>1, <3>2
    <2>6. V[upload[j].slot] = T[upload[j].slot]
        BY <1>9, <2>5
    <2> QED
        BY <1>6, <1>12, <2>2, <2>4, <2>6 DEF QuotaInv, Budget
<1>11. Budget(q, mediaRow', creator')
    BY <1>5 DEF Budget, UploadStages
<1> QED
    BY <1>1, <1>2, <1>3, <1>4, <1>5, <1>7, <1>10, <1>11, <1>12, QuotaMoved

\* Rows that go make room; a slot whose row stays keeps its bytes.
LEMMA QuotaByRowDeleted ==
    ASSUME QuotaInv, NEW x, RowDeleted(x)
    PROVE  QuotaInv'
<1>1. MediaInv /\ MediaInv'
    BY InvRowDeleted DEF QuotaInv
<1>2. PICK T : T = mediaRow
    OBVIOUS
<1>3. PICK V : V = mediaRow'
    OBVIOUS
<1>9. PICK C : C = creator
    OBVIOUS
<1>4. T \in Rows /\ V \in Rows
    BY <1>1, <1>2, <1>3, RowsOK
<1>5. \A s \in Slots : V[s] = T[s] \/ V[s] = NoRow
    BY <1>2, <1>3 DEF RowDeleted
<1>6. upload' = upload /\ creator' = creator
    BY DEF RowDeleted
<1>7. ASSUME NEW j \in Uploads PROVE Budget(upload[j], V, C)
    <2> SUFFICES ASSUME upload[j].stage \in UploadStages, upload[j].apart,
                        OwnSlot(upload[j], C), V[upload[j].slot] # NoRow
                 PROVE  IF upload[j].stage = "body"
                        THEN upload[j].old = V[upload[j].slot].bytes
                        ELSE BytesFor(UserId[upload[j].user], V, C) - V[upload[j].slot].bytes
                               + upload[j].size <= StorageLimit[upload[j].user]
        BY DEF Budget
    <2>1. /\ upload[j] \in Upload /\ upload[j].slot \in Slots
          /\ upload[j].user \in Uploaders /\ StorageLimit[upload[j].user] \in Nat
        BY <1>1, UnderWay, MediaAssumption DEF QuotaInv, UploaderOK
    <2>2. V[upload[j].slot] = T[upload[j].slot]
        BY <1>5, <2>1
    <2>3. PICK w : w = UserId[upload[j].user]
        OBVIOUS
    <2>4. BytesFor(w, V, C) <= BytesFor(w, T, C)
        <3>1. /\ CountedFor(w, V, C) \subseteq CountedFor(w, T, C)
              /\ \A s \in CountedFor(w, V, C) : V[s] = T[s]
            BY <1>5 DEF CountedFor
        <3> QED
            BY <1>4, <3>1, RowsGone
    <2>5. BytesFor(w, V, C) \in Nat /\ BytesFor(w, T, C) \in Nat
        BY <1>4, CountedFacts
    <2>6. PICK b : b = T[upload[j].slot].bytes
        OBVIOUS
    <2>7. b \in Nat /\ upload[j].size \in Nat
        <3>1. T[upload[j].slot] \in [ext : Exts \cup {NoExt}, bytes : Nat]
            BY <1>4, <2>1, <2>2 DEF Rows
        <3> QED
            BY <2>1, <2>6, <3>1 DEF Upload
    <2>8. IF upload[j].stage = "body" THEN upload[j].old = b
          ELSE BytesFor(w, T, C) - b + upload[j].size <= StorageLimit[upload[j].user]
        BY <1>2, <1>9, <2>2, <2>3, <2>6 DEF QuotaInv, Budget
    <2> QED
        BY <2>1, <2>2, <2>3, <2>4, <2>5, <2>6, <2>7, <2>8
<1>8. ApartInAccount' /\ \A j \in Uploads : UploaderOK(upload'[j])
    BY <1>6 DEF QuotaInv, ApartInAccount, SameAccount
<1> QED
    BY <1>1, <1>3, <1>6, <1>7, <1>8, <1>9 DEF QuotaInv

\* A proxy that changes accounts makes room in the one, and no upload to the other
\* counts on its room any longer.
LEMMA QuotaByUpdatePerson ==
    ASSUME QuotaInv, NEW p \in Proxies, NEW v \in NewCreators, UpdatePerson(p, v)
    PROVE  QuotaInv'
<1>1. MediaInv /\ MediaInv'
    BY InvUpdatePerson DEF QuotaInv
<1>2. PICK T : T = mediaRow
    OBVIOUS
<1>3. PICK C : C = creator
    OBVIOUS
<1>4. PICK D : D = creator'
    OBVIOUS
<1>5. T \in Rows /\ mediaRow' = T
    BY <1>1, <1>2, RowsOK DEF UpdatePerson
<1>6. \A s \in Slots : s[1] # "tree" => D[s[2]] = IF s[2] = p THEN v ELSE C[s[2]]
    <2>1. \A s \in Slots : s[1] # "tree" => s[2] \in Proxies
        BY MediaAssumption DEF AllSlots
    <2>2. creator' = [creator EXCEPT ![p] = v] /\ creator \in [Proxies -> Identities]
        BY <1>1 DEF UpdatePerson, MediaInv, MediaTypeOK
    <2> QED
        BY <1>3, <1>4, <2>1, <2>2
\* An upload that is still apart has nothing to do with the proxy or with v.
<1>7. ASSUME NEW j \in Uploads, upload'[j].apart
      PROVE  /\ upload[j].apart /\ upload[j].stage \in UploadStages
             /\ upload[j].slot \in Slots
             /\ upload[j].slot[1] # "tree" =>
                   upload[j].slot[2] # p /\ C[upload[j].slot[2]] # v
    <2>1. upload[j].apart /\ ~ Concerns(upload[j].slot, p, v)
        BY <1>1, <1>7, UpdateFacts
    <2>2. upload[j].stage \in UploadStages
        BY <2>1 DEF QuotaInv, UploaderOK
    <2> QED
        BY <1>1, <1>3, <2>1, <2>2, UnderWay DEF Concerns
<1>8. ASSUME NEW j \in Uploads PROVE UploaderOK(upload'[j])
    BY <1>1, UpdateFacts DEF QuotaInv, UploaderOK
<1>9. ApartInAccount'
    <2> SUFFICES ASSUME NEW i \in Uploads, NEW j \in Uploads, upload'[j].apart, i # j,
                        upload'[i].stage \in UploadStages,
                        upload'[i].slot[1] # "tree", upload'[j].slot[1] # "tree",
                        creator'[upload'[i].slot[2]] = creator'[upload'[j].slot[2]]
                 PROVE  FALSE
        BY DEF ApartInAccount, SameAccount
    <2>1. /\ upload'[i].slot = upload[i].slot /\ upload'[j].slot = upload[j].slot
          /\ upload[i].stage \in UploadStages
        BY <1>1, UpdateFacts
    <2>2. PICK r : r = upload[i].slot
        OBVIOUS
    <2>3. PICK s : s = upload[j].slot
        OBVIOUS
    <2>4. r \in Slots /\ s \in Slots
        BY <1>1, <1>7, <2>1, <2>2, <2>3, UnderWay
    <2>5. r[1] # "tree" /\ s[1] # "tree" /\ D[r[2]] = D[s[2]]
        BY <1>4, <2>1, <2>2, <2>3
    <2>6. s[2] # p /\ C[s[2]] # v
        BY <1>7, <2>3, <2>5
    <2>7. C[r[2]] = C[s[2]]
        BY <1>6, <2>4, <2>5, <2>6
    <2>8. ~ SameAccount(r, s)
        BY <1>7, <2>1, <2>2, <2>3 DEF QuotaInv, ApartInAccount
    <2> QED
        BY <1>3, <2>5, <2>7, <2>8 DEF SameAccount
<1>10. ASSUME NEW j \in Uploads PROVE Budget(upload'[j], T, D)
    <2> SUFFICES ASSUME upload'[j].stage \in UploadStages, upload'[j].apart,
                        OwnSlot(upload'[j], D), T[upload'[j].slot] # NoRow
                 PROVE  IF upload'[j].stage = "body"
                        THEN upload'[j].old = T[upload'[j].slot].bytes
                        ELSE BytesFor(UserId[upload'[j].user], T, D)
                               - T[upload'[j].slot].bytes + upload'[j].size
                                 <= StorageLimit[upload'[j].user]
        BY DEF Budget
    <2>1. /\ upload'[j].stage = upload[j].stage /\ upload'[j].slot = upload[j].slot
          /\ upload'[j].user = upload[j].user /\ upload'[j].old = upload[j].old
          /\ upload'[j].size = upload[j].size
        BY <1>1, UpdateFacts
    <2>2. /\ upload[j] \in Upload /\ upload[j].user \in Uploaders
          /\ StorageLimit[upload[j].user] \in Nat
        BY <1>1, <2>1, UnderWay, MediaAssumption DEF QuotaInv, UploaderOK
    <2>3. PICK s : s = upload[j].slot
        OBVIOUS
    <2>4. PICK w : w = UserId[upload[j].user]
        OBVIOUS
    <2>5. s \in Slots /\ s[1] # "tree" /\ D[s[2]] = w /\ s[2] # p /\ C[s[2]] # v
        BY <1>7, <2>1, <2>3, <2>4 DEF OwnSlot
    <2>6. C[s[2]] = w /\ w # v
        BY <1>6, <2>5
    <2>7. CountedFor(w, T, D) \subseteq CountedFor(w, T, C)
        BY <1>6, <2>6 DEF CountedFor
    <2>8. BytesFor(w, T, D) <= BytesFor(w, T, C)
        BY <1>5, <2>7, RowsGone
    <2>9. BytesFor(w, T, D) \in Nat /\ BytesFor(w, T, C) \in Nat
        BY <1>5, CountedFacts
    <2>10. PICK b : b = T[s].bytes
        OBVIOUS
    <2>11. b \in Nat /\ upload[j].size \in Nat
        <3>1. T[s] \in [ext : Exts \cup {NoExt}, bytes : Nat]
            BY <1>5, <2>1, <2>3, <2>5 DEF Rows
        <3> QED
            BY <2>2, <2>10, <3>1 DEF Upload
    <2>12. OwnSlot(upload[j], creator) /\ upload[j].apart
        BY <1>3, <1>7, <2>3, <2>4, <2>5, <2>6 DEF OwnSlot
    <2>13. IF upload[j].stage = "body" THEN upload[j].old = b
           ELSE BytesFor(w, T, C) - b + upload[j].size <= StorageLimit[upload[j].user]
        BY <1>2, <1>3, <2>1, <2>3, <2>4, <2>10, <2>12 DEF QuotaInv, Budget
    <2> QED
        BY <2>1, <2>2, <2>3, <2>4, <2>8, <2>9, <2>10, <2>11, <2>13
<1> QED
    BY <1>1, <1>4, <1>5, <1>8, <1>9, <1>10 DEF QuotaInv

\* A new upload remembers the bytes it replaces; those of its account learn of it.
LEMMA QuotaByFetch ==
    ASSUME QuotaInv, NEW k \in Uploads, NEW s \in Slots, NEW u \in Uploaders,
           NEW ext \in Accepted(s) \cap Types, NEW size \in Sizes,
           FetchSlot(k, s, u, ext, size)
    PROVE  QuotaInv'
<1> DEFINE a == \A i \in Uploading : upload[i].slot # s
           b == \A i \in Uploading : ~ SameAccount(upload[i].slot, s)
           q == [stage |-> "body", slot |-> s, user |-> u, ext |-> ext, size |-> size,
                 old |-> mediaRow[s].bytes, next |-> 1, alone |-> a, apart |-> b,
                 clean |-> TRUE, gone |-> FALSE]
           m(j) == Met(upload[j], s)
<1>1. MediaInv /\ MediaInv' /\ upload \in [Uploads -> Upload]
    BY InvFetchSlot DEF QuotaInv, MediaInv, MediaTypeOK
<1>2. UNCHANGED <<mediaRow, creator>>
    BY DEF FetchSlot
<1>3. upload' = [j \in Uploads |-> CASE j = k -> q
                                     [] j # k /\ upload[j].slot # NoExt -> Kept(m(j))
                                     [] OTHER -> upload[j]]
    BY DEF FetchSlot
<1>4. /\ q.stage = "body" /\ q.slot = s /\ q.user = u /\ q.old = mediaRow[s].bytes
      /\ q.apart = b
    OBVIOUS
<1> HIDE DEF q
<1>5. upload'[k] = q
    BY <1>3
\* What becomes of another upload.
<1>6. ASSUME NEW j \in Uploads, j # k
      PROVE  /\ upload'[j].stage \in UploadStages \/ upload'[j].apart =>
                   /\ upload[j].stage \in UploadStages
                   /\ upload'[j].stage = upload[j].stage
                   /\ upload'[j].slot = upload[j].slot /\ upload'[j].user = upload[j].user
                   /\ upload'[j].size = upload[j].size /\ upload'[j].old = upload[j].old
             /\ upload'[j].apart =>
                   upload[j].apart /\ ~ SameAccount(upload[j].slot, s)
    <2>1. CASE upload[j].stage \in UploadStages
        <3>1. upload[j].slot # NoExt
            BY <1>1, <2>1, UnderWay, MediaAssumption
        <3>2. upload'[j] = Kept(m(j))
            BY <1>3, <1>6, <3>1
        <3>3. /\ m(j) \in Upload /\ m(j).stage = upload[j].stage
              /\ m(j).slot = upload[j].slot /\ m(j).user = upload[j].user
              /\ m(j).size = upload[j].size /\ m(j).old = upload[j].old
              /\ m(j).apart => upload[j].apart /\ ~ SameAccount(upload[j].slot, s)
            BY <1>1, MetFacts
        <3> HIDE DEF m
        <3>4. /\ Kept(m(j)).stage = m(j).stage /\ Kept(m(j)).slot = m(j).slot
              /\ Kept(m(j)).user = m(j).user /\ Kept(m(j)).size = m(j).size
              /\ Kept(m(j)).old = m(j).old /\ Kept(m(j)).apart = m(j).apart
            BY <2>1, <3>3, KeptFacts
        <3> QED
            BY <2>1, <3>2, <3>3, <3>4
    <2>2. CASE upload[j].stage \notin UploadStages /\ upload[j].slot = NoExt
        <3>1. upload'[j] = upload[j]
            BY <1>3, <1>6, <2>2
        <3>2. ~ upload[j].apart
            BY <2>2 DEF QuotaInv, UploaderOK
        <3> QED
            BY <2>2, <3>1, <3>2
    <2>3. CASE upload[j].stage \notin UploadStages /\ upload[j].slot # NoExt
        <3>1. upload'[j] = Kept(m(j))
            BY <1>3, <1>6, <2>3
        <3>2. m(j) \in Upload /\ m(j).stage = upload[j].stage /\ (m(j).apart => upload[j].apart)
            BY <1>1, MetFacts
        <3>3. ~ upload[j].apart
            BY <2>3 DEF QuotaInv, UploaderOK
        <3> HIDE DEF m
        <3>4. m(j).apart = FALSE
            BY <3>2, <3>3 DEF Upload
        <3>5. Kept(m(j)).stage = m(j).stage /\ ~ Kept(m(j)).apart
            <4>1. Kept(m(j)).stage = m(j).stage
                BY <3>2, KeptFacts
            <4>2. CASE m(j).stage \in {"done", "failed"}
                BY <3>2, <4>2, KeptApart DEF UploadStages
            <4>3. CASE m(j).stage \notin {"done", "failed"}
                <5>1. Kept(m(j)) = [m(j) EXCEPT !.clean = @ /\ m(j).alone]
                    BY <4>3 DEF Kept
                <5> QED
                    BY <3>2, <3>4, <5>1 DEF Upload
            <4> QED
                BY <4>1, <4>2, <4>3
        <3> QED
            BY <2>3, <3>1, <3>2, <3>5
    <2> QED
        BY <2>1, <2>2, <2>3
<1> HIDE DEF m
<1>7. ASSUME NEW j \in Uploads PROVE UploaderOK(upload'[j])
    <2>1. CASE j = k
        BY <1>4, <1>5, <2>1 DEF UploaderOK, UploadStages
    <2>2. CASE j # k
        BY <1>6, <2>2 DEF UploaderOK, QuotaInv
    <2> QED
        BY <2>1, <2>2
<1>8. ApartInAccount'
    <2> SUFFICES ASSUME NEW i \in Uploads, NEW j \in Uploads, upload'[j].apart, i # j,
                        upload'[i].stage \in UploadStages
                 PROVE  ~ SameAccount(upload'[i].slot, upload'[j].slot)
        BY <1>2 DEF ApartInAccount, SameAccount
    <2>1. CASE i # k /\ j # k
        BY <1>2, <1>6, <2>1 DEF QuotaInv, ApartInAccount, SameAccount
    <2>2. CASE i = k
        <3>1. ~ SameAccount(upload'[j].slot, s)
            BY <1>6, <2>2
        <3> QED
            BY <1>2, <1>4, <1>5, <2>2, <3>1 DEF SameAccount
    <2>3. CASE j = k
        <3>1. b /\ upload'[j].slot = s
            BY <1>4, <1>5, <2>3
        <3>2. i \in Uploading /\ upload'[i].slot = upload[i].slot
            BY <1>6, <2>3 DEF Uploading
        <3> QED
            BY <1>2, <3>1, <3>2 DEF SameAccount
    <2> QED
        BY <2>1, <2>2, <2>3
<1>9. ASSUME NEW j \in Uploads PROVE Budget(upload'[j], mediaRow', creator')
    <2>1. CASE j = k
        BY <1>2, <1>4, <1>5, <2>1 DEF Budget
    <2>2. CASE j # k
        <3>1. Budget(upload[j], mediaRow, creator)
            BY DEF QuotaInv
        <3> QED
            BY <1>2, <1>6, <2>2, <3>1 DEF Budget, OwnSlot
    <2> QED
        BY <2>1, <2>2
<1> QED
    BY <1>1, <1>7, <1>8, <1>9 DEF QuotaInv

\* Nothing is under way at the start.
LEMMA QuotaInit == MediaInit => QuotaInv
<1> SUFFICES ASSUME MediaInit PROVE QuotaInv
    OBVIOUS
<1>1. \A k \in Uploads : upload[k].stage = "none" /\ upload[k].apart = FALSE
    BY DEF MediaInit, NoUpload
<1> QED
    BY <1>1, MediaInitInv
    DEF QuotaInv, UploaderOK, ApartInAccount, Budget, UploadStages

\* The invariant is inductive.
LEMMA QuotaNext == QuotaInv /\ [MediaNext]_mediaVars => QuotaInv'
<1> SUFFICES ASSUME QuotaInv, [MediaNext]_mediaVars PROVE QuotaInv'
    OBVIOUS
<1>1. CASE UNCHANGED mediaVars
    <2>1. MediaInv'
        BY MediaNextInv DEF QuotaInv
    <2> QED
        BY <1>1, <2>1 DEF QuotaInv, ApartInAccount, SameAccount, Budget, OwnSlot, BytesFor,
                          CountedFor, mediaVars
<1>2. CASE MediaNext
    BY <1>2, QuotaByFetch, QuotaByCheck, QuotaByFiles, QuotaByRow, QuotaByUpdatePerson,
       QuotaByRowDeleted DEF MediaNext
<1> QED
    BY <1>1, <1>2

\* Only the update of the row answers an upload.
LEMMA OnlyRowAnswers ==
    ASSUME QuotaInv, [MediaNext]_mediaVars, NEW k \in Uploads,
           upload[k].stage = "row", upload'[k].stage = "done"
    PROVE  WriteRow(k)
<1>1. /\ upload \in [Uploads -> Upload] /\ MediaInv /\ upload[k].stage \in UploadStages
    BY DEF QuotaInv, MediaInv, MediaTypeOK, UploadStages
<1>2. \A j \in Uploads : \A q \in Upload : Moved(j, q) /\ j = k => q.stage = "done"
    BY <1>1, KeptFacts DEF Moved
<1>3. \A j \in Uploads : \A q : Moved(j, q) => j = k
    BY <1>1 DEF Moved
<1>4. ASSUME NEW j \in Uploads, NEW s \in Slots, NEW u \in Uploaders,
             NEW ext \in Accepted(s) \cap Types, NEW size \in Sizes,
             FetchSlot(j, s, u, ext, size)
      PROVE  FALSE
    <2>1. j # k
        BY <1>4 DEF FetchSlot
    <2>2. upload[k].slot # NoExt
        BY <1>1, UnderWay, MediaAssumption
    <2>3. upload'[k] = Kept(Met(upload[k], s))
        BY <1>4, <2>1, <2>2 DEF FetchSlot
    <2>4. Met(upload[k], s) \in Upload /\ Met(upload[k], s).stage = "row"
        BY <1>1, MetFacts
    <2> QED
        BY <2>3, <2>4, KeptFacts
<1>5. ASSUME NEW j \in Uploads, CheckQuota(j) PROVE FALSE
    BY <1>3, <1>5 DEF CheckQuota
<1>6. ASSUME NEW j \in Uploads, NEW removed \in BOOLEAN, RemoveOld(j, removed) PROVE FALSE
    BY <1>3, <1>6 DEF RemoveOld
<1>7. ASSUME NEW j \in Uploads, WriteFile(j) \/ WriteFileFails(j) PROVE FALSE
    BY <1>3, <1>7 DEF WriteFile, WriteFileFails, ToStage
<1>8. ASSUME NEW j \in Uploads, WriteRow(j) PROVE WriteRow(k)
    BY <1>3, <1>8 DEF WriteRow, ToStage
<1>9. ASSUME NEW j \in Uploads, DropUpload(j) PROVE FALSE
    <2>1. Moved(j, [upload[j] EXCEPT !.stage = "failed"])
        BY <1>9 DEF DropUpload, Failed, ToStage
    <2>2. j = k
        BY <1>3, <2>1
    <2>3. /\ [upload[k] EXCEPT !.stage = "failed"] \in Upload
          /\ [upload[k] EXCEPT !.stage = "failed"].stage = "failed"
        BY <1>1 DEF Upload
    <2> QED
        BY <1>2, <2>1, <2>2, <2>3
<1>10. ASSUME NEW x, RowDeleted(x) PROVE FALSE
    BY <1>10 DEF RowDeleted
<1>11. CASE UNCHANGED mediaVars
    BY <1>11 DEF mediaVars
<1>12. ASSUME NEW j \in Uploads, HangUp(j) PROVE FALSE
    <2> DEFINE q == [upload[j] EXCEPT !.gone = TRUE, !.alone = FALSE, !.apart = FALSE]
    <2>1. Moved(j, q)
        BY <1>12 DEF HangUp
    <2>2. j = k
        BY <1>3, <2>1
    <2>3. q \in Upload /\ q.stage = "row"
        BY <1>1, <2>2 DEF Upload
    <2> QED
        BY <1>2, <2>1, <2>2, <2>3
<1>13. ASSUME NEW p \in Proxies, NEW w \in NewCreators, UpdatePerson(p, w) PROVE FALSE
    BY <1>1, <1>13, UpdateFacts
<1> QED
    BY <1>4, <1>5, <1>6, <1>7, <1>8, <1>9, <1>10, <1>11, <1>12, <1>13 DEF MediaNext

\* An upload that met no other of its account fits when its row is written.
LEMMA RowWithinPlan ==
    ASSUME QuotaInv, NEW k \in Uploads, WriteRow(k), NEW u \in Uploaders,
           upload[k].user = u, OwnSlot(upload[k], creator), upload[k].apart,
           mediaRow[upload[k].slot] # NoRow
    PROVE  BytesFor(UserId[u], mediaRow', creator') <= StorageLimit[u]
<1>1. upload[k].stage = "row" /\ upload[k].stage \in UploadStages
    BY DEF WriteRow, UploadStages
<1>2. MediaInv /\ MediaInv'
    BY InvWriteRow DEF QuotaInv
<1>3. upload[k] \in Upload /\ upload[k].slot \in Slots
    BY <1>1, <1>2, UnderWay
<1>4. PICK T : T = mediaRow
    OBVIOUS
<1>5. PICK V : V = mediaRow'
    OBVIOUS
<1>6. PICK w : w = UserId[u]
    OBVIOUS
<1>7. PICK s : s = upload[k].slot
    OBVIOUS
<1>15. PICK C : C = creator /\ C = creator'
    BY DEF WriteRow
<1>8. T \in Rows /\ V \in Rows
    BY <1>2, <1>4, <1>5, RowsOK
<1>9. V = [T EXCEPT ![s] = RowOf(upload[k])]
    BY <1>4, <1>5, <1>7 DEF WriteRow
<1>10. V[s] = RowOf(upload[k]) /\ \A x \in Slots \ {s} : V[x] = T[x]
    BY <1>3, <1>7, <1>8, <1>9 DEF Rows
<1>11. s \in CountedFor(w, T, C) /\ V[s].bytes = upload[k].size
    BY <1>3, <1>4, <1>6, <1>7, <1>10, <1>15 DEF CountedFor, OwnSlot, RowOf
<1>12. V[s] # NoRow
    <2>1. RowOf(upload[k]) \in [ext : Exts \cup {NoExt}, bytes : Nat]
        BY <1>3 DEF RowOf, Upload
    <2> QED
        BY <1>10, <2>1, MediaAssumption
<1>13. BytesFor(w, V, C) = BytesFor(w, T, C) - T[s].bytes + upload[k].size
    BY <1>8, <1>10, <1>11, <1>12, RowReplaced
<1>14. BytesFor(w, T, C) - T[s].bytes + upload[k].size <= StorageLimit[u]
    BY <1>1, <1>4, <1>6, <1>7, <1>15 DEF QuotaInv, Budget
<1> QED
    BY <1>5, <1>6, <1>13, <1>14, <1>15

\* What is known of uploads that met no other of their account.
THEOREM QuotaInvCorrect == MediaSpec => []QuotaInv
BY QuotaInit, QuotaNext, PTL DEF MediaSpec

\* A user who uploads to proxies that name them by id stays within the plan, as long
\* as no two of their uploads are under way at a time, whatever else is uploaded,
\* fails or is deleted meanwhile (upload_image, upload_life_image).
THEOREM LoneUploadWithinPlanCorrect == MediaSpec => LoneUploadWithinPlan
<1> DEFINE Fits ==
             \A k \in Uploads, u \in Uploaders :
                LET q == upload[k] IN
                /\ q.stage = "row" /\ upload'[k].stage = "done" /\ q.user = u
                /\ q.slot[1] # "tree" /\ creator[q.slot[2]] = UserId[u]
                /\ q.apart
                /\ mediaRow[q.slot] # NoRow
                => MediaBytesOf(UserId[u])' <= StorageLimit[u]
<1>1. QuotaInv /\ [MediaNext]_mediaVars => [Fits]_mediaVars
    <2> SUFFICES ASSUME QuotaInv, [MediaNext]_mediaVars,
                        NEW k \in Uploads, NEW u \in Uploaders,
                        upload[k].stage = "row", upload'[k].stage = "done",
                        upload[k].user = u, upload[k].slot[1] # "tree",
                        creator[upload[k].slot[2]] = UserId[u], upload[k].apart,
                        mediaRow[upload[k].slot] # NoRow
                 PROVE  MediaBytesOf(UserId[u])' <= StorageLimit[u]
        OBVIOUS
    <2>1. WriteRow(k)
        BY OnlyRowAnswers
    <2>2. BytesFor(UserId[u], mediaRow', creator') <= StorageLimit[u]
        BY <2>1, RowWithinPlan DEF OwnSlot
    <2> QED
        BY <2>2, MediaBytesForNext
<1> QED
    BY <1>1, QuotaInvCorrect, PTL DEF MediaSpec, LoneUploadWithinPlan
=============================================================================
