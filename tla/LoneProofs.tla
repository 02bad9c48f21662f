----------------------------- MODULE LoneProofs -----------------------------
(***************************************************************************)
(* What a request about notes or folders that met no other has brought     *)
(* about when it is answered, for any number of requests, notes, folders   *)
(* and teams, whatever calls of tack fail or lose their answers.           *)
(*                                                                         *)
(* LoneRequestAgrees speaks of answered requests. It is inductive together *)
(* with what such a request has brought about at each of its stages        *)
(* (OnCourse), which holds because nothing else moves the rows it works on *)
(* (LoneOnCourse: no other is under way), and because a note the service   *)
(* has just made is one nothing was kept about (IdsIssued).                *)
(***************************************************************************)
EXTENDS NotesProofs
-----------------------------------------------------------------------------
(* A request that meets no other.                                          *)

\* The service's folder in which the note of request q belongs, by mapping T.
FolderOf(q, T) == IF q.team = None \/ q.folder = None THEN None ELSE T[q.folder]

\* The note of q, in the service's notes N, is where mapping T says.
FiledAs(q, N, T) ==
    /\ N[q.note] # None
    /\ N[q.note].team # None =>
         N[q.note].folder_id = IF q.folder = None THEN None ELSE T[q.folder]

\* What is so when q is answered: N are the service's notes, M and F the sidecar
\* rows and the folders, T the mapping.
Agrees(q, N, M, T, F) ==
    /\ q.op \in {"create", "file"} =>
         /\ q.folder # None => M[q.note] # None
         /\ M[q.note] # None => M[q.note].legacy_folder_id = q.folder
         /\ FiledAs(q, N, T)
    /\ q.op = "delete" => N[q.note] = None /\ M[q.note] = None
    /\ q.op = "remove" =>
         /\ F[q.folder] = None /\ T[q.folder] = None
         /\ \A n \in NoteIds : M[n] # None => M[n].legacy_folder_id # q.folder
    /\ q.op = "update" /\ q.desc # None => M[q.note].description = q.desc

\* What a request that meets no other has brought about by each of its stages.
OnCourse(q, N, M, T, F) ==
    /\ q.stage \in {"tree", "get"} => q.tack = None
    /\ q.stage \in {"name", "mkfolder", "map"} => T[q.folder] = None
    /\ q.stage \in {"note", "file"} => q.tack = FolderOf(q, T)
    /\ q.stage = "file" => q.team # None
    /\ q.op \in {"create", "file"} /\ q.stage \in {"attach", "read", "write"} =>
         FiledAs(q, N, T)
    /\ q.stage = "attach" => M[q.note] = None
    /\ q.stage = "unmeta" => N[q.note] = None
    /\ q.stage = "done" => Agrees(q, N, M, T, F)

\* Nothing is kept, and nobody asks, about a note the service has not handed out.
IdsIssued ==
    /\ \A n \in NoteIds : meta[n] # None => n \in tackIssued
    /\ \A r \in Requests : req[r].note # None => req[r].note \in tackIssued

\* While a request has met no other, no other is under way.
LoneOnCourse ==
    \A r \in Requests : req[r].undisturbed =>
        /\ req[r].stage \in Stages \union {"done"}
        /\ \A p \in Requests \ {r} : req[p].stage \notin Stages /\ ~ req[p].undisturbed
        /\ OnCourse(req[r], tackNotes, meta, mapping, folders)

LoneInv == NotesInv /\ IdsIssued /\ LoneOnCourse

\* What a request keeps when it moves on.
Alike(w, q) ==
    /\ w.op = q.op /\ w.note = q.note /\ w.team = q.team /\ w.folder = q.folder
    /\ w.desc = q.desc /\ w.tack = q.tack /\ w.undisturbed = q.undisturbed

\* A request at its next stage.
Staged(q, s) == [q EXCEPT !.stage = s]

\* It is a request still, and keeps the rest.
LEMMA StagedFields ==
    ASSUME NEW q \in Request, NEW s \in Stages \union {"done", "failed"}
    PROVE  /\ Staged(q, s) \in Request /\ Staged(q, s).stage = s
           /\ Alike(Staged(q, s), q)
<1> DEFINE w == Staged(q, s)
<1>1. w \in Request /\ w.stage = s
    BY DEF Staged, Request
<1>2. w.op = q.op /\ w.note = q.note /\ w.team = q.team
    BY DEF Staged, Request
<1>3. w.folder = q.folder /\ w.desc = q.desc /\ w.tack = q.tack /\ w.undisturbed = q.undisturbed
    BY DEF Staged, Request
<1> QED
    BY <1>1, <1>2, <1>3 DEF Alike

\* The other fields of a request that moved on.
LEMMA OtherFields ==
    ASSUME NEW q \in Request, NEW s, NEW v
    PROVE  /\ TackStaged(q, v, s).desc = q.desc /\ TackStaged(q, v, s).undisturbed = q.undisturbed
           /\ TeamStaged(q, v, s).desc = q.desc /\ TeamStaged(q, v, s).undisturbed = q.undisturbed
           /\ Alike(ReadStaged(q, v, s), q)
<1>1. TackStaged(q, v, s).desc = q.desc /\ TackStaged(q, v, s).undisturbed = q.undisturbed
    BY DEF TackStaged, Request
<1>2. TeamStaged(q, v, s).desc = q.desc /\ TeamStaged(q, v, s).undisturbed = q.undisturbed
    BY DEF TeamStaged, Request
<1> DEFINE w == ReadStaged(q, v, s)
<1>3. w.op = q.op /\ w.note = q.note /\ w.team = q.team
    BY DEF ReadStaged, Request
<1>4. w.folder = q.folder /\ w.desc = q.desc /\ w.tack = q.tack /\ w.undisturbed = q.undisturbed
    BY DEF ReadStaged, Request
<1> QED
    BY <1>1, <1>2, <1>3, <1>4 DEF Alike

\* What is kept of a request does not meet others unless it is all of it.
LEMMA SettledAlone ==
    ASSUME NEW q \in Request
    PROVE  /\ Settled(q).stage = q.stage
           /\ Settled(q).note \in {q.note, None}
           /\ Settled(q).undisturbed => Settled(q) = q /\ q.stage # "failed"
<1>1. /\ [Blank EXCEPT !.stage = "failed"].stage = "failed"
      /\ [Blank EXCEPT !.stage = "done"].stage = "done"
      /\ [Blank EXCEPT !.stage = "failed"].note = None
      /\ [Blank EXCEPT !.stage = "done"].note = None
      /\ [Blank EXCEPT !.stage = "failed"].undisturbed = FALSE
      /\ [Blank EXCEPT !.stage = "done"].undisturbed = FALSE
    BY DEF Blank
<1> QED
    BY <1>1 DEF Settled

\* A request that moves on keeps the invariant if, met by no other, it is still
\* on course.
LEMMA LoneMove ==
    ASSUME LoneInv, NotesInv', NEW r \in Requests, req[r].stage \in Stages,
           NEW q \in Request, Become(r, q), q.undisturbed => req[r].undisturbed,
           q.stage \in Stages \union {"done", "failed"},
           q.note = req[r].note \/ q.note \in tackIssued',
           tackIssued \subseteq tackIssued',
           \A n \in NoteIds : meta'[n] # None => meta[n] # None \/ n = req[r].note,
           q.undisturbed /\ q.stage # "failed" =>
              OnCourse(q, tackNotes', meta', mapping', folders')
    PROVE  LoneInv'
<1>1. \A p \in Requests : req'[p] = IF p = r THEN Settled(q) ELSE req[p]
    BY DEF Become, LoneInv, NotesInv, RequestsOK
<1>2. /\ Settled(q).stage = q.stage /\ Settled(q).note \in {q.note, None}
      /\ Settled(q).undisturbed => Settled(q) = q /\ q.stage # "failed"
    BY SettledAlone
<1>3. IdsIssued'
    <2>1. req[r].note # None => req[r].note \in tackIssued
        BY DEF LoneInv, IdsIssued
    <2>2. ASSUME NEW n \in NoteIds, meta'[n] # None
          PROVE  n \in tackIssued'
        BY <2>1, <2>2, NotesAssumption DEF LoneInv, IdsIssued
    <2>3. ASSUME NEW p \in Requests, req'[p].note # None
          PROVE  req'[p].note \in tackIssued'
        BY <1>1, <1>2, <2>1, <2>3 DEF LoneInv, IdsIssued
    <2> QED
        BY <2>2, <2>3 DEF IdsIssued
<1>4. \A p \in Requests \ {r} : ~ req[p].undisturbed
    BY DEF LoneInv, LoneOnCourse
<1>5. LoneOnCourse'
    <2> SUFFICES ASSUME NEW p \in Requests, req'[p].undisturbed
                 PROVE  /\ req'[p].stage \in Stages \union {"done"}
                        /\ \A o \in Requests \ {p} : req'[o].stage \notin Stages
                                                     /\ ~ req'[o].undisturbed
                        /\ OnCourse(req'[p], tackNotes', meta', mapping', folders')
        BY DEF LoneOnCourse
    <2>1. p = r /\ req'[r] = q /\ q.stage # "failed" /\ req[r].undisturbed
        BY <1>1, <1>2, <1>4
    <2>2. \A o \in Requests \ {r} : req'[o] = req[o] /\ req[o].stage \notin Stages
        BY <1>1, <2>1 DEF LoneInv, LoneOnCourse
    <2> QED
        BY <1>4, <2>1, <2>2
<1> QED
    BY <1>3, <1>5 DEF LoneInv

\* What the invariant says of one request.
LEMMA LoneOne ==
    ASSUME LoneInv, NEW r \in Requests
    PROVE  /\ req[r] \in Request /\ Fits(req[r])
           /\ req[r].undisturbed => OnCourse(req[r], tackNotes, meta, mapping, folders)
BY OneRequest DEF LoneInv, LoneOnCourse

\* A request that goes on unaware of what became of its statement is disturbed if
\* the statement was refused.
LEMMA LoneUnread ==
    ASSUME LoneInv, NotesInv', NEW r \in Requests, req[r].stage \in Stages,
           NEW refused \in BOOLEAN, NEW q \in Request, Unread(r, refused, q),
           q.stage \in Stages \union {"done"},
           q.undisturbed = req[r].undisturbed, q.note = req[r].note,
           tackIssued \subseteq tackIssued',
           \A n \in NoteIds : meta'[n] # None => meta[n] # None \/ n = req[r].note,
           req[r].undisturbed /\ ~ refused =>
              OnCourse(q, tackNotes', meta', mapping', folders')
    PROVE  LoneInv'
<1> DEFINE b == req[r].undisturbed /\ ~ refused
           w == [q EXCEPT !.undisturbed = b]
<1>1. Become(r, w) /\ (b => req[r].undisturbed /\ ~ refused)
    BY DEF Unread
<1>2. b \in BOOLEAN /\ req[r].undisturbed \in BOOLEAN
    BY LoneOne DEF Request
<1>3. b => b = q.undisturbed
    BY <1>1, <1>2
<1>4. q.undisturbed \in BOOLEAN
    BY DEF Request
<1> HIDE DEF b
<1>5. /\ w \in Request /\ w.undisturbed = b /\ w.stage = q.stage /\ w.note = q.note
    BY <1>2 DEF Request
<1>6. b => w = q
    BY <1>3 DEF Request
<1> HIDE DEF w
<1> QED
    BY <1>1, <1>5, <1>6, LoneMove

\* A request may fail at any stage.
LEMMA LoneFailed ==
    ASSUME LoneInv, NotesInv', NEW r \in Requests, req[r].stage \in Stages,
           Goto(r, "failed"), tackIssued \subseteq tackIssued',
           \A n \in NoteIds : meta'[n] # None => meta[n] # None
    PROVE  LoneInv'
<1> DEFINE q == Staged(req[r], "failed")
<1>1. q \in Request /\ q.stage = "failed" /\ Alike(q, req[r])
    BY LoneOne, StagedFields
<1>2. Become(r, q)
    BY DEF Goto, Staged
<1> HIDE DEF q
<1> QED
    BY <1>1, <1>2, LoneMove DEF Alike

\* A request that only goes to its next stage.
LEMMA LoneGoto ==
    ASSUME LoneInv, NotesInv', NEW r \in Requests, req[r].stage \in Stages,
           NEW s \in Stages \union {"done", "failed"}, Goto(r, s),
           tackIssued \subseteq tackIssued',
           \A n \in NoteIds : meta'[n] # None => meta[n] # None \/ n = req[r].note,
           \A q \in Request :
              q.stage = s /\ Alike(q, req[r]) /\ req[r].undisturbed /\ s # "failed" =>
                 OnCourse(q, tackNotes', meta', mapping', folders')
    PROVE  LoneInv'
<1> DEFINE q == Staged(req[r], s)
<1>1. q \in Request /\ q.stage = s /\ Alike(q, req[r])
    BY LoneOne, StagedFields
<1>2. Become(r, q)
    BY DEF Goto, Staged
<1> HIDE DEF q
<1> QED
    BY <1>1, <1>2, LoneMove DEF Alike

\* A request answered by a handler that does not know what was refused.
LEMMA LoneReplied ==
    ASSUME LoneInv, NotesInv', NEW r \in Requests, req[r].stage \in Stages,
           NEW refused \in BOOLEAN, Unread(r, refused, Replied(r)),
           tackIssued \subseteq tackIssued',
           \A n \in NoteIds : meta'[n] # None => meta[n] # None \/ n = req[r].note,
           \A q \in Request :
              q.stage = "done" /\ Alike(q, req[r]) /\ req[r].undisturbed /\ ~ refused =>
                 OnCourse(q, tackNotes', meta', mapping', folders')
    PROVE  LoneInv'
<1> DEFINE q == Staged(req[r], "done")
<1>1. q \in Request /\ q.stage = "done" /\ Alike(q, req[r])
    BY LoneOne, StagedFields
<1>2. Unread(r, refused, q)
    BY DEF Replied, Staged
<1> HIDE DEF q
<1> QED
    BY <1>1, <1>2, LoneUnread DEF Alike
-----------------------------------------------------------------------------
(* Its steps.                                                              *)

\* Steps that read the tables, and those of folders nobody files in.
LEMMA LoneReading ==
    ASSUME LoneInv, NotesInv', NEW r \in Requests,
           ResolveTree(r) \/ FindFolder(r) \/ AddFolder(r) \/ SetFolderName(r)
           \/ RenameTackFolder(r) \/ DeleteTackFolder(r) \/ Drop(r)
    PROVE  LoneInv'
<1>1. /\ req[r] \in Request /\ Fits(req[r])
      /\ req[r].undisturbed => OnCourse(req[r], tackNotes, meta, mapping, folders)
    BY LoneOne
<1>2. /\ tackIssued \subseteq tackIssued' /\ meta' = meta /\ mapping' = mapping
      /\ req[r].stage \in Stages
    BY DEF ResolveTree, FindFolder, AddFolder, SetFolderName, RenameTackFolder,
           DeleteTackFolder, Drop, TryCall, rename_note_folder, delete_note_folder,
           tackVars, storeVars, At, Stages, Active
<1>3. CASE Goto(r, "failed")
    BY <1>2, <1>3, LoneFailed
<1>4. CASE ResolveTree(r)
    <2> DEFINE s == IF req[r].team # None /\ req[r].folder # None THEN "lookup" ELSE "note"
    <2>1. Goto(r, s) /\ s \in Stages
        BY <1>4 DEF ResolveTree, Stages
    <2>2. ASSUME NEW q \in Request, q.stage = s, Alike(q, req[r]), req[r].undisturbed
          PROVE  OnCourse(q, tackNotes', meta', mapping', folders')
        BY <1>1, <1>4, <2>2 DEF ResolveTree, At, OnCourse, Alike, FolderOf
    <2> HIDE DEF s
    <2> QED
        BY <1>2, <2>1, <2>2, LoneGoto
<1>5. CASE req[r].op \in {"addfolder", "rename", "remove"}
           /\ \E s \in {"mapped", "setname", "clear", "done"} :
                Goto(r, s) /\ (s = "done" => req[r].op # "remove")
    <2>1. PICK s \in {"mapped", "setname", "clear", "done"} :
             Goto(r, s) /\ (s = "done" => req[r].op # "remove")
        BY <1>5
    <2>2. ASSUME NEW q \in Request, q.stage = s, Alike(q, req[r]), req[r].undisturbed
          PROVE  OnCourse(q, tackNotes', meta', mapping', folders')
        BY <1>5, <2>1, <2>2 DEF OnCourse, Agrees, Alike
    <2>3. s \in Stages \union {"done"}
        BY <2>1 DEF Stages
    <2> QED
        BY <1>2, <2>1, <2>2, <2>3, LoneGoto
<1>6. ASSUME FindFolder(r) \/ AddFolder(r) \/ SetFolderName(r) \/ RenameTackFolder(r)
             \/ DeleteTackFolder(r)
      PROVE  /\ req[r].op \in {"addfolder", "rename", "remove"}
             /\ \/ Goto(r, "failed")
                \/ \E s \in {"mapped", "setname", "clear", "done"} :
                     Goto(r, s) /\ (s = "done" => req[r].op # "remove")
    <2>1. req[r].stage \in {"exists", "add", "setname", "retitle", "unfolder"}
          /\ (req[r].stage \in {"add", "setname"} => req[r].op # "remove")
        BY <1>1, <1>6 DEF FindFolder, AddFolder, SetFolderName, RenameTackFolder,
                          DeleteTackFolder, At, Fits
    <2>2. req[r].op \in {"addfolder", "rename", "remove"}
        BY <1>1, <2>1 DEF Fits, Filing, Stages, Request
    <2> QED
        BY <1>6, <2>1, <2>2 DEF FindFolder, AddFolder, SetFolderName, RenameTackFolder,
                                DeleteTackFolder, TryCall, At
<1> QED
    BY <1>3, <1>4, <1>5, <1>6 DEF Drop

\* The Clann folder's folder of the service is looked up.
LEMMA LoneLookup ==
    ASSUME LoneInv, NotesInv', NEW r \in Requests, NEW refused \in BOOLEAN,
           LookupMapping(r) \/ SaveMapping(r, refused)
    PROVE  LoneInv'
<1>1. /\ req[r] \in Request /\ Fits(req[r])
      /\ req[r].undisturbed => OnCourse(req[r], tackNotes, meta, mapping, folders)
    BY LoneOne
<1>2. /\ req[r].stage \in {"lookup", "map"} /\ req[r].stage \in Stages
      /\ req[r].team # None /\ req[r].folder \in FolderIds
      /\ req[r].op \in {"create", "file"}
    BY <1>1 DEF LookupMapping, SaveMapping, At, Fits, Filing, Stages, Request
<1>3. /\ UNCHANGED <<tackNotes, tackIssued, meta, folders>>
      /\ mapping \in [FolderIds -> TackFolderIds \union {None}]
    BY DEF LookupMapping, SaveMapping, tackVars, storeVars, LoneInv, NotesInv, NotesTypeOK
<1>4. ASSUME NEW t \in TackFolderIds \union {None}, NEW any \in BOOLEAN,
             Unread(r, any, WithFolder(r, t)),
             req[r].undisturbed /\ ~ any => mapping'[req[r].folder] = t
      PROVE  LoneInv'
    <2> DEFINE s == IF req[r].op = "create" THEN "note" ELSE "file"
               q == WithFolder(r, t)
    <2>1. q = TackStaged(req[r], t, s)
        BY DEF WithFolder, TackStaged
    <2>2. s \in {"note", "file"} /\ s \in Stages
        BY DEF Stages
    <2> HIDE DEF q, s
    <2>3. /\ q \in Request /\ q.stage = s /\ q.tack = t /\ q.op = req[r].op
          /\ q.note = req[r].note /\ q.team = req[r].team /\ q.folder = req[r].folder
          /\ q.undisturbed = req[r].undisturbed
        BY <1>1, <2>1, <2>2, TackStagedFields, OtherFields
    <2>4. req[r].undisturbed /\ ~ any =>
             OnCourse(q, tackNotes', meta', mapping', folders')
        BY <1>2, <1>4, <2>2, <2>3, NotesAssumption DEF OnCourse, FolderOf
    <2>5. Unread(r, any, q)
        BY <1>4 DEF q
    <2> QED
        BY <1>2, <1>3, <2>2, <2>3, <2>4, <2>5, LoneUnread
<1>5. CASE LookupMapping(r)
    <2>1. CASE mapping[req[r].folder] # None
        <3> DEFINE w == WithFolder(r, mapping[req[r].folder])
        <3>1. Become(r, w) /\ mapping' = mapping
            BY <1>5, <2>1 DEF LookupMapping, storeVars
        <3>2. w \in Request /\ w.undisturbed = req[r].undisturbed
            <4> DEFINE s == IF req[r].op = "create" THEN "note" ELSE "file"
            <4>1. w = TackStaged(req[r], mapping[req[r].folder], s)
                BY DEF WithFolder, TackStaged
            <4>2. s \in Stages
                BY DEF Stages
            <4>3. mapping[req[r].folder] \in TackFolderIds \union {None}
                BY <1>2, <1>3
            <4> HIDE DEF s, w
            <4> QED
                BY <1>1, <4>1, <4>2, <4>3, TackStagedFields, OtherFields
        <3> HIDE DEF w
        <3>3. [w EXCEPT !.undisturbed = req[r].undisturbed /\ ~ FALSE] = w
            BY <1>1, <3>2 DEF Request
        <3>4. Unread(r, FALSE, w)
            BY <3>1, <3>3 DEF Unread
        <3> QED
            BY <1>2, <1>3, <1>4, <3>1, <3>4 DEF w
    <2>2. CASE mapping[req[r].folder] = None
        <3>1. Goto(r, "name") /\ mapping' = mapping
            BY <1>5, <2>2 DEF LookupMapping, storeVars
        <3>2. ASSUME NEW q \in Request, q.stage = "name", Alike(q, req[r])
              PROVE  OnCourse(q, tackNotes', meta', mapping', folders')
            BY <2>2, <3>1, <3>2 DEF OnCourse, Alike
        <3>3. "name" \in Stages
            BY DEF Stages
        <3> QED
            BY <1>2, <1>3, <3>1, <3>2, <3>3, LoneGoto
    <2> QED
        BY <2>1, <2>2
<1>6. CASE SaveMapping(r, refused)
    <2>1. /\ Unread(r, refused, WithFolder(r, req[r].tack))
          /\ ~ refused => mapping' = MappingSaved(req[r].folder, req[r].tack)
          /\ req[r].stage = "map" /\ req[r].tack \in TackFolderIds
        BY <1>1, <1>6 DEF SaveMapping, At, Fits, Request
    <2>2. req[r].undisturbed => mapping[req[r].folder] = None
        BY <1>1, <2>1 DEF OnCourse
    <2>3. req[r].undisturbed /\ ~ refused => mapping'[req[r].folder] = req[r].tack
        BY <1>2, <1>3, <2>1, <2>2 DEF MappingSaved
    <2> QED
        BY <1>4, <2>1, <2>3
<1> QED
    BY <1>5, <1>6

\* The folder of the service is named and made.
LEMMA LoneNewFolder ==
    ASSUME LoneInv, NotesInv', NEW r \in Requests, ReadFolderName(r) \/ CreateTackFolder(r)
    PROVE  LoneInv'
<1>1. /\ req[r] \in Request /\ Fits(req[r])
      /\ req[r].undisturbed => OnCourse(req[r], tackNotes, meta, mapping, folders)
    BY LoneOne
<1>2. /\ req[r].stage \in {"name", "mkfolder"} /\ req[r].stage \in Stages
      /\ UNCHANGED <<meta, mapping>> /\ tackIssued \subseteq tackIssued'
    BY DEF ReadFolderName, CreateTackFolder, At, Stages, Call, create_note_folder, tackVars,
           storeVars
<1>3. req[r].undisturbed => mapping'[req[r].folder] = None
    BY <1>1, <1>2 DEF OnCourse
<1>4. ASSUME NEW q \in Request, Become(r, q), q.stage \in {"mkfolder", "map"},
             q.folder = req[r].folder, q.note = req[r].note, q.undisturbed = req[r].undisturbed
      PROVE  LoneInv'
    <2>1. req[r].undisturbed => OnCourse(q, tackNotes', meta', mapping', folders')
        BY <1>3, <1>4 DEF OnCourse
    <2>2. q.stage \in Stages
        BY <1>4 DEF Stages
    <2> QED
        BY <1>2, <1>4, <2>1, <2>2, LoneMove
<1>5. CASE ReadFolderName(r)
    <2> DEFINE f == req[r].folder
               m == IF folders[f] = None THEN Unfiled ELSE folders[f]
    <2>1. m \in Names
        <3>1. f \in FolderIds
            BY <1>1, <1>5 DEF ReadFolderName, At, Fits, Filing, Request
        <3> QED
            BY <3>1, NotesAssumption DEF LoneInv, NotesInv, NotesTypeOK
    <2> DEFINE q == [req[r] EXCEPT !.stage = "mkfolder", !.name = m]
    <2>2. Become(r, q)
        BY <1>5 DEF ReadFolderName
    <2> HIDE DEF m
    <2>3. q \in Request /\ q.stage = "mkfolder"
        <3>1. "mkfolder" \in Stages
            BY DEF Stages
        <3> QED
            BY <1>1, <2>1, <3>1 DEF Request
    <2>4. q.folder = req[r].folder /\ q.note = req[r].note /\ q.undisturbed = req[r].undisturbed
        BY <1>1 DEF Request
    <2> HIDE DEF q
    <2> QED
        BY <1>4, <2>2, <2>3, <2>4
<1>6. CASE CreateTackFolder(r)
    <2>1. PICK t \in TackFolderIds :
             Call(r, create_note_folder(t, req[r].team, req[r].name),
                  [req[r] EXCEPT !.stage = "map", !.tack = t])
        BY <1>6 DEF CreateTackFolder
    <2>2. CASE Goto(r, "failed")
        BY <1>2, <2>2, LoneFailed
    <2>3. CASE Become(r, [req[r] EXCEPT !.stage = "map", !.tack = t])
        <3> DEFINE q == [req[r] EXCEPT !.stage = "map", !.tack = t]
        <3>1. q = TackStaged(req[r], t, "map")
            BY <1>1 DEF TackStaged, Request
        <3>2. Become(r, q)
            BY <2>3
        <3>3. "map" \in Stages
            BY DEF Stages
        <3> HIDE DEF q
        <3>4. /\ q \in Request /\ q.stage = "map" /\ q.folder = req[r].folder
              /\ q.note = req[r].note /\ q.undisturbed = req[r].undisturbed
            BY <1>1, <3>1, <3>3, TackStagedFields, OtherFields
        <3> QED
            BY <1>4, <3>2, <3>4
    <2> QED
        BY <2>1, <2>2, <2>3 DEF Call
<1> QED
    BY <1>5, <1>6

\* The note of a creation is made in the folder found, and attached.
LEMMA LoneCreateNote ==
    ASSUME LoneInv, NotesInv', NEW r \in Requests, CreateNote(r)
    PROVE  LoneInv'
<1>1. /\ req[r] \in Request /\ Fits(req[r]) /\ req[r].stage = "note"
      /\ req[r].undisturbed => OnCourse(req[r], tackNotes, meta, mapping, folders)
    BY LoneOne DEF CreateNote, At
<1>2. PICK n \in NoteIds :
         Call(r, create_note(n, req[r].team, req[r].tack),
              [req[r] EXCEPT !.stage = "attach", !.note = n])
    BY DEF CreateNote
<1>3. /\ UNCHANGED <<meta, mapping, folders>> /\ tackIssued \subseteq tackIssued'
      /\ req[r].stage \in Stages
    BY <1>1, <1>2 DEF Call, create_note, tackVars, storeVars, Stages
<1>4. CASE Goto(r, "failed")
    BY <1>3, <1>4, LoneFailed
<1> DEFINE q == [req[r] EXCEPT !.stage = "attach", !.note = n]
           row == [team |-> req[r].team, folder_id |-> req[r].tack, attached |-> FALSE]
<1>5. CASE create_note(n, req[r].team, req[r].tack) /\ Become(r, q)
    <2>1. /\ row \in TackNote /\ row.team = req[r].team /\ row.folder_id = req[r].tack
        BY <1>1 DEF TackNote, Request
    <2>2. tackNotes'[n] = row /\ n \in tackIssued' /\ n \notin tackIssued
        BY <1>5 DEF create_note, LoneInv, NotesInv, NotesTypeOK, TackTypeOK
    <2>3. meta[n] = None
        BY <2>2 DEF LoneInv, IdsIssued
    <2>4. Become(r, q)
        BY <1>5
    <2>5. q \in Request /\ q.stage = "attach" /\ q.note = n
        BY <1>1 DEF Request, Stages
    <2>6. q.folder = req[r].folder /\ q.team = req[r].team /\ q.undisturbed = req[r].undisturbed
        BY <1>1 DEF Request
    <2> HIDE DEF q, row
    <2>7. row # None
        BY <2>1, NotesAssumption
    <2>8. req[r].undisturbed => req[r].tack = FolderOf(req[r], mapping)
        BY <1>1 DEF OnCourse
    <2>9. req[r].undisturbed => FiledAs(q, tackNotes', mapping')
        BY <1>3, <2>1, <2>2, <2>5, <2>6, <2>7, <2>8 DEF FiledAs, FolderOf
    <2>10. req[r].undisturbed => OnCourse(q, tackNotes', meta', mapping', folders')
        BY <1>3, <2>3, <2>5, <2>9 DEF OnCourse
    <2>11. q.stage \in Stages
        BY <2>5 DEF Stages
    <2> QED
        BY <1>3, <2>2, <2>4, <2>5, <2>6, <2>10, <2>11, LoneMove
<1> QED
    BY <1>2, <1>4, <1>5 DEF Call

\* What the service is told about a note whose request goes on.
LEMMA LoneNoteCall ==
    ASSUME LoneInv, NotesInv', NEW r \in Requests,
           AttachNote(r) \/ FileNote(r) \/ UpdateText(r) \/ EraseNote(r)
    PROVE  LoneInv'
<1> DEFINE n == req[r].note
<1>1. /\ req[r] \in Request /\ Fits(req[r])
      /\ req[r].undisturbed => OnCourse(req[r], tackNotes, meta, mapping, folders)
    BY LoneOne
<1>2. /\ UNCHANGED <<meta, mapping, folders>> /\ tackIssued \subseteq tackIssued'
      /\ req[r].stage \in {"attach", "file", "text", "erase"} /\ req[r].stage \in Stages
    BY DEF AttachNote, FileNote, UpdateText, EraseNote, Call, attach, update_folder,
           update_text, delete_note, tackVars, storeVars, At, Stages
<1>3. /\ n \in NoteIds
      /\ req[r].stage = "attach" => req[r].op = "create"
      /\ req[r].stage = "file" => req[r].op = "file"
      /\ req[r].stage = "text" => req[r].op = "update"
      /\ req[r].stage = "erase" => req[r].op = "delete"
    BY <1>1, <1>2 DEF Fits, Filing, Stages, Request
<1>4. tackNotes \in [NoteIds -> TackNote \union {None}]
    BY DEF LoneInv, NotesInv, NotesTypeOK, TackTypeOK
<1>5. CASE Goto(r, "failed")
    BY <1>2, <1>5, LoneFailed
<1>6. CASE AttachNote(r) /\ attach(n) /\ Goto(r, AfterAttach(req[r]))
    <2> DEFINE row == [tackNotes[n] EXCEPT !.attached = TRUE]
               s == AfterAttach(req[r])
    <2>1. tackNotes[n] \in TackNote /\ tackNotes'[n] = row
        BY <1>3, <1>4, <1>6 DEF attach
    <2>2. /\ row \in TackNote /\ row.team = tackNotes[n].team
          /\ row.folder_id = tackNotes[n].folder_id
        BY <2>1 DEF TackNote
    <2>3. Goto(r, s) /\ req[r].stage = "attach"
        BY <1>6 DEF AttachNote, At
    <2>4. /\ s \in {"read", "done"} /\ s \in Stages \union {"done"}
          /\ s = "done" => req[r].desc = None /\ req[r].folder = None
        BY DEF AfterAttach, Stages
    <2> HIDE DEF row, s
    <2>5. row # None
        BY <2>2, NotesAssumption
    <2>6. ASSUME NEW q \in Request, q.stage = s, Alike(q, req[r]), req[r].undisturbed
          PROVE  OnCourse(q, tackNotes', meta', mapping', folders')
        <3>1. FiledAs(req[r], tackNotes, mapping) /\ meta[n] = None
            BY <1>1, <1>3, <2>3, <2>6 DEF OnCourse
        <3>2. FiledAs(q, tackNotes', mapping')
            BY <1>2, <2>1, <2>2, <2>5, <2>6, <3>1 DEF FiledAs, Alike
        <3>3. q.op = "create" /\ q.note = n /\ q.folder = req[r].folder
            BY <1>3, <2>3, <2>6 DEF Alike
        <3>4. s = "done" => Agrees(q, tackNotes', meta', mapping', folders')
            BY <1>2, <2>4, <3>1, <3>2, <3>3 DEF Agrees
        <3> QED
            BY <2>4, <2>6, <3>2, <3>4 DEF OnCourse
    <2> QED
        BY <1>2, <2>3, <2>4, <2>6, LoneGoto
<1>7. CASE FileNote(r) /\ update_folder(n, req[r].tack) /\ Goto(r, "read")
    <2> DEFINE row == [tackNotes[n] EXCEPT !.folder_id = req[r].tack]
    <2>1. tackNotes[n] \in TackNote /\ tackNotes'[n] = row
        BY <1>3, <1>4, <1>7 DEF update_folder
    <2>2. row \in TackNote /\ row.folder_id = req[r].tack
        BY <1>1, <2>1 DEF TackNote, Request
    <2>3. req[r].stage = "file"
        BY <1>7 DEF FileNote, At
    <2> HIDE DEF row
    <2>4. row # None
        BY <2>2, NotesAssumption
    <2>5. ASSUME NEW q \in Request, q.stage = "read", Alike(q, req[r]), req[r].undisturbed
          PROVE  OnCourse(q, tackNotes', meta', mapping', folders')
        <3>1. req[r].team # None /\ req[r].tack = FolderOf(req[r], mapping)
            BY <1>1, <2>3, <2>5 DEF OnCourse
        <3>2. FiledAs(q, tackNotes', mapping')
            BY <1>2, <2>1, <2>2, <2>4, <2>5, <3>1 DEF FiledAs, FolderOf, Alike
        <3> QED
            BY <2>5, <3>2 DEF OnCourse
    <2>6. "read" \in Stages
        BY DEF Stages
    <2> QED
        BY <1>2, <1>7, <2>5, <2>6, LoneGoto
<1>8. CASE UpdateText(r) /\ Goto(r, IF req[r].desc # None THEN "read" ELSE "done")
    <2> DEFINE s == IF req[r].desc # None THEN "read" ELSE "done"
    <2>1. /\ Goto(r, s) /\ s \in Stages \union {"done"} /\ s \in {"read", "done"}
          /\ s = "done" => req[r].desc = None
        BY <1>8 DEF Stages
    <2>2. req[r].op = "update"
        BY <1>3, <1>8 DEF UpdateText, At
    <2> HIDE DEF s
    <2>3. ASSUME NEW q \in Request, q.stage = s, Alike(q, req[r])
          PROVE  OnCourse(q, tackNotes', meta', mapping', folders')
        BY <2>1, <2>2, <2>3 DEF OnCourse, Agrees, Alike
    <2> QED
        BY <1>2, <2>1, <2>3, LoneGoto
<1>9. CASE EraseNote(r) /\ delete_note(n) /\ Goto(r, "unmeta")
    <2>1. tackNotes'[n] = None /\ req[r].op = "delete" /\ "unmeta" \in Stages
        BY <1>3, <1>4, <1>9 DEF delete_note, EraseNote, At, Stages
    <2>2. ASSUME NEW q \in Request, q.stage = "unmeta", Alike(q, req[r])
          PROVE  OnCourse(q, tackNotes', meta', mapping', folders')
        BY <2>1, <2>2 DEF OnCourse, Alike
    <2> QED
        BY <1>2, <1>9, <2>1, <2>2, LoneGoto
<1> QED
    BY <1>5, <1>6, <1>7, <1>8, <1>9
    DEF AttachNote, FileNote, UpdateText, EraseNote, Call, Goto

\* The note of a filing is looked up, and its sidecar row read.
LEMMA LoneRead ==
    ASSUME LoneInv, NotesInv', NEW r \in Requests, GetNote(r) \/ ReadMeta(r)
    PROVE  LoneInv'
<1> DEFINE n == req[r].note
<1>1. /\ req[r] \in Request /\ Fits(req[r])
      /\ req[r].undisturbed => OnCourse(req[r], tackNotes, meta, mapping, folders)
    BY LoneOne
<1>2. /\ UNCHANGED <<tackNotes, tackIssued, meta, mapping, folders>>
      /\ req[r].stage \in {"get", "read"} /\ req[r].stage \in Stages
    BY DEF GetNote, ReadMeta, tackVars, storeVars, At, Stages
<1>3. /\ n \in NoteIds
      /\ req[r].stage = "get" => req[r].op = "file"
    BY <1>1, <1>2 DEF Fits, Filing, Stages, Request
<1>4. CASE GetNote(r)
    <2> DEFINE note == tackNotes[n]
               s == CASE note.team = None -> "read"
                      [] note.team # None /\ req[r].folder # None -> "lookup"
                      [] OTHER -> "file"
               q == [req[r] EXCEPT !.team = note.team, !.stage = s]
    <2>1. CASE Goto(r, "failed")
        BY <1>2, <2>1, LoneFailed
    <2>2. CASE note # None /\ Become(r, q)
        <3>1. note \in TackNote
            BY <1>3, <2>2 DEF LoneInv, NotesInv, NotesTypeOK, TackTypeOK
        <3>2. note.team \in Teams \union {None}
            BY <3>1 DEF TackNote
        <3>3. /\ s \in {"read", "lookup", "file"} /\ s \in Stages
              /\ s = "read" => note.team = None
              /\ s = "file" => note.team # None /\ req[r].folder = None
            BY DEF Stages
        <3>4. q = TeamStaged(req[r], note.team, s) /\ Become(r, q)
            BY <2>2 DEF TeamStaged
        <3> HIDE DEF s, q
        <3>5. /\ q \in Request /\ q.stage = s /\ q.team = note.team /\ q.op = req[r].op
              /\ q.note = n /\ q.tack = req[r].tack /\ q.folder = req[r].folder
              /\ q.undisturbed = req[r].undisturbed
            <4>1. PICK v \in Teams \union {None} : v = note.team
                BY <3>2
            <4> HIDE DEF note
            <4> QED
                BY <1>1, <3>3, <3>4, <4>1, TeamStagedFields, OtherFields
        <3>6. req[r].undisturbed => req[r].tack = None
            BY <1>1, <1>4 DEF OnCourse, GetNote, At
        <3>7. s = "read" => FiledAs(q, tackNotes', mapping')
            BY <1>2, <2>2, <3>3, <3>5 DEF FiledAs
        <3>8. req[r].undisturbed => OnCourse(q, tackNotes', meta', mapping', folders')
            BY <3>3, <3>5, <3>6, <3>7 DEF OnCourse, FolderOf
        <3> QED
            BY <1>2, <3>3, <3>4, <3>5, <3>8, LoneMove
    <2> QED
        BY <1>4, <2>1, <2>2 DEF GetNote
<1>5. CASE ReadMeta(r)
    <2>1. PICK row \in MetaRow \union {None} : row = meta[n]
        BY <1>3 DEF LoneInv, NotesInv, NotesTypeOK
    <2> DEFINE q == ReadStaged(req[r], row, "write")
    <2>2. Become(r, q) /\ req[r].stage = "read"
        BY <1>5, <2>1 DEF ReadMeta, ReadStaged, At
    <2>3. "write" \in Stages
        BY DEF Stages
    <2>4. q \in Request /\ q.stage = "write" /\ Alike(q, req[r])
        BY <1>1, <2>3, ReadStagedFields, OtherFields
    <2> HIDE DEF q
    <2>5. req[r].undisturbed => OnCourse(q, tackNotes', meta', mapping', folders')
        BY <1>1, <1>2, <2>2, <2>4 DEF OnCourse, FiledAs, Alike
    <2> QED
        BY <1>2, <2>2, <2>3, <2>4, <2>5, LoneMove DEF Alike
<1> QED
    BY <1>4, <1>5

\* The sidecar row is written or deleted, and the request answered.
LEMMA LoneMetaWrite ==
    ASSUME LoneInv, NotesInv', NEW r \in Requests, NEW refused \in BOOLEAN,
           WriteMeta(r, refused) \/ DeleteMeta(r, refused)
    PROVE  LoneInv'
<1> DEFINE n == req[r].note
<1>1. /\ req[r] \in Request /\ Fits(req[r])
      /\ req[r].undisturbed => OnCourse(req[r], tackNotes, meta, mapping, folders)
    BY LoneOne
<1>2. /\ UNCHANGED <<tackNotes, tackIssued, mapping, folders>>
      /\ req[r].stage \in {"write", "unmeta"} /\ req[r].stage \in Stages
      /\ Unread(r, refused, Replied(r))
    BY DEF WriteMeta, DeleteMeta, tackVars, At, Stages
<1>3. /\ n \in NoteIds
      /\ req[r].stage = "write" => req[r].op \in {"create", "file", "update"}
      /\ req[r].stage = "unmeta" => req[r].op = "delete"
    BY <1>1, <1>2 DEF Fits, Filing, Stages, Request
<1>4. meta \in [NoteIds -> MetaRow \union {None}]
    BY DEF LoneInv, NotesInv, NotesTypeOK
<1>5. \A m \in NoteIds : meta'[m] # None => meta[m] # None \/ m = n
    BY <1>3, <1>4 DEF WriteMeta, DeleteMeta
<1>6. ASSUME NEW q \in Request, q.stage = "done", Alike(q, req[r]), req[r].undisturbed,
             ~ refused
      PROVE  OnCourse(q, tackNotes', meta', mapping', folders')
    <2>1. CASE WriteMeta(r, refused)
        <3> DEFINE row == FinalRow(req[r])
        <3>1. row \in MetaRow /\ row # None
            BY <1>1, FinalRowTyped, NotesAssumption DEF MetaRow
        <3>2. /\ req[r].op \in {"create", "file"} => row.legacy_folder_id = req[r].folder
              /\ req[r].op = "update" => row.description = req[r].desc
            BY DEF FinalRow
        <3>3. meta'[n] = row /\ req[r].stage = "write"
            BY <1>3, <1>4, <1>6, <2>1 DEF WriteMeta, At
        <3> HIDE DEF row
        <3>4. req[r].op \in {"create", "file"} => FiledAs(q, tackNotes', mapping')
            BY <1>1, <1>2, <1>6, <3>3 DEF OnCourse, FiledAs, Alike
        <3>5. Agrees(q, tackNotes', meta', mapping', folders')
            BY <1>3, <1>6, <3>1, <3>2, <3>3, <3>4 DEF Agrees, Alike
        <3> QED
            BY <1>6, <3>5 DEF OnCourse
    <2>2. CASE DeleteMeta(r, refused)
        <3>1. meta'[n] = None /\ req[r].op = "delete" /\ tackNotes'[n] = None
            BY <1>1, <1>2, <1>3, <1>4, <1>6, <2>2 DEF DeleteMeta, At, OnCourse
        <3>2. Agrees(q, tackNotes', meta', mapping', folders')
            BY <1>6, <3>1 DEF Agrees, Alike
        <3> QED
            BY <1>6, <3>2 DEF OnCourse
    <2> QED
        BY <2>1, <2>2
<1> QED
    BY <1>2, <1>5, <1>6, LoneReplied

\* A folder is looked up, and all that is kept of it cleared.
LEMMA LoneClearFolder ==
    ASSUME LoneInv, NotesInv', NEW r \in Requests,
           \/ FindMapped(r)
           \/ \E written \in 1 .. 3, refused \in SUBSET {1, 2} :
                ClearFolder(r, written, refused)
    PROVE  LoneInv'
<1> DEFINE f == req[r].folder
<1>1. req[r] \in Request /\ Fits(req[r])
    BY LoneOne
<1>2. /\ UNCHANGED <<tackNotes, tackIssued>>
      /\ req[r].stage \in {"mapped", "clear"} /\ req[r].stage \in Stages
    BY DEF FindMapped, ClearFolder, tackVars, At, Stages
<1>3. /\ f \in FolderIds /\ req[r].op \in {"rename", "remove"}
      /\ req[r].stage = "clear" => req[r].op = "remove"
    BY <1>1, <1>2 DEF Fits, Filing, Stages, Request
<1>4. /\ meta \in [NoteIds -> MetaRow \union {None}]
      /\ mapping \in [FolderIds -> TackFolderIds \union {None}]
      /\ folders \in [FolderIds -> Names \union {None}]
    BY DEF LoneInv, NotesInv, NotesTypeOK
<1>5. CASE FindMapped(r)
    <2>1. PICK t \in TackFolderIds \union {None} : t = mapping[f]
        BY <1>3, <1>4
    <2> DEFINE next == IF req[r].op = "rename" THEN <<"retitle", "setname">>
                       ELSE <<"unfolder", "clear">>
               s == IF t # None THEN next[1] ELSE next[2]
               q == TackStaged(req[r], t, s)
    <2>2. s \in {"retitle", "setname", "unfolder", "clear"}
        OBVIOUS
    <2>3. Become(r, q) /\ UNCHANGED meta
        BY <1>5, <2>1 DEF FindMapped, TackStaged, storeVars
    <2> HIDE DEF s
    <2>4. s \in Stages
        BY <2>2 DEF Stages
    <2>5. /\ q \in Request /\ q.stage = s /\ q.op = req[r].op /\ q.note = req[r].note
          /\ q.undisturbed = req[r].undisturbed
        BY <1>1, <2>4, TackStagedFields, OtherFields
    <2> HIDE DEF q
    <2>6. OnCourse(q, tackNotes', meta', mapping', folders')
        BY <1>3, <2>2, <2>5 DEF OnCourse
    <2> QED
        BY <1>2, <2>3, <2>4, <2>5, <2>6, LoneMove
<1>6. ASSUME NEW written \in 1 .. 3, NEW refused \in SUBSET {1, 2},
             ClearFolder(r, written, refused)
      PROVE  LoneInv'
    <2>1. ASSUME NEW n \in NoteIds
          PROVE  /\ meta'[n] # None => meta[n] # None
                 /\ 1 \notin refused /\ meta'[n] # None => meta'[n].legacy_folder_id # f
        <3> USE DEF MetaWithout
        <3>1. 1 \notin refused =>
                 meta'[n] = IF meta[n] # None /\ meta[n].legacy_folder_id = f
                         THEN [meta[n] EXCEPT !.legacy_folder_id = None] ELSE meta[n]
            BY <1>6 DEF ClearFolder
        <3>2. CASE 1 \notin refused /\ meta[n] # None /\ meta[n].legacy_folder_id = f
            <4>1. meta[n] \in MetaRow
                BY <1>4, <3>2
            <4>2. meta'[n].legacy_folder_id = None
                BY <3>1, <3>2, <4>1 DEF MetaRow
            <4> QED
                BY <1>3, <3>2, <4>2, NotesAssumption
        <3>3. CASE 1 \in refused
            BY <1>6, <3>3 DEF ClearFolder
        <3> QED
            BY <3>1, <3>2, <3>3
    <2>2. CASE written # 3
        BY <1>2, <1>6, <2>1, <2>2, LoneFailed DEF ClearFolder
    <2>3. CASE written = 3
        <3>1. /\ refused = {} => mapping'[f] = None
              /\ folders'[f] = None /\ Unread(r, refused # {}, Replied(r))
            BY <1>3, <1>4, <1>6, <2>3 DEF ClearFolder
        <3>2. req[r].op = "remove"
            BY <1>3, <1>6 DEF ClearFolder, At
        <3>3. ASSUME NEW q \in Request, q.stage = "done", Alike(q, req[r]), refused = {}
              PROVE  OnCourse(q, tackNotes', meta', mapping', folders')
            <4>1. Agrees(q, tackNotes', meta', mapping', folders')
                BY <2>1, <3>1, <3>2, <3>3 DEF Agrees, Alike
            <4> QED
                BY <3>3, <4>1 DEF OnCourse
        <3> QED
            BY <1>2, <2>1, <3>1, <3>3, LoneReplied
    <2> QED
        BY <2>2, <2>3
<1> QED
    BY <1>5, <1>6

\* A request that comes in ends the solitude of those before it.
LEMMA LoneAsk ==
    ASSUME LoneInv, NotesInv', NEW r \in Requests, NEW q \in Request, Ask(r, q),
           q.stage \in {"tree", "text", "get", "erase", "add", "exists"},
           q.tack = None, q.note # None => q.note \in tackIssued
    PROVE  LoneInv'
<1> DEFINE w == [q EXCEPT !.undisturbed = (Active = {})]
           o(p) == [req[p] EXCEPT !.undisturbed = FALSE]
<1>1. /\ req' = [p \in Requests |-> IF p = r THEN w ELSE Settled(o(p))]
      /\ UNCHANGED <<tackVars, storeVars>>
    BY DEF Ask
<1>2. /\ w.stage = q.stage /\ w.tack = q.tack /\ w.note = q.note
      /\ w.undisturbed <=> Active = {}
    BY DEF Request
<1>3. ASSUME NEW p \in Requests
      PROVE  /\ o(p) \in Request /\ o(p).undisturbed = FALSE /\ o(p).stage = req[p].stage
             /\ o(p).note = req[p].note
    BY LoneOne, NotAlone
<1> HIDE DEF w, o
<1>4. ASSUME NEW p \in Requests, p # r
      PROVE  /\ ~ req'[p].undisturbed /\ req'[p].stage = req[p].stage
             /\ req'[p].note \in {req[p].note, None}
    BY <1>1, <1>3, <1>4, SettledAlone
<1>5. req'[r] = w
    BY <1>1
<1>6. IdsIssued'
    BY <1>1, <1>2, <1>4, <1>5 DEF LoneInv, IdsIssued, tackVars, storeVars
<1>7. LoneOnCourse'
    <2> SUFFICES ASSUME w.undisturbed
                 PROVE  /\ w.stage \in Stages \union {"done"}
                        /\ \A p \in Requests \ {r} : req'[p].stage \notin Stages
                        /\ OnCourse(w, tackNotes', meta', mapping', folders')
        BY <1>4, <1>5 DEF LoneOnCourse
    <2>1. \A p \in Requests : req[p].stage \notin Stages
        BY <1>2 DEF Active
    <2>2. OnCourse(w, tackNotes', meta', mapping', folders')
        BY <1>2 DEF OnCourse
    <2> QED
        BY <1>2, <1>4, <2>1, <2>2 DEF Stages
<1> QED
    BY <1>6, <1>7 DEF LoneInv

\* The requests clients make: of a note that is listed, and so was handed out.
LEMMA LoneAsked ==
    ASSUME LoneInv, NotesInv', NEW r \in Requests, AskSomething(r)
    PROVE  LoneInv'
<1>1. \A n \in NoteIds : Listed(n) => n \in tackIssued
    BY DEF Listed, LoneInv, NotesInv, IssuedFirst
<1>2. born \subseteq FolderIds
    BY DEF LoneInv, NotesInv, NotesTypeOK
<1>3. CASE AskCreateNote(r)
    <2>1. PICK team \in Teams \union {None}, f \in FolderIds \union {None},
               d \in Descriptions \union {None} :
             Ask(r, [Blank EXCEPT !.op = "create", !.stage = "tree", !.team = team,
                                  !.folder = f, !.desc = d])
        BY <1>2, <1>3 DEF AskCreateNote
    <2> DEFINE q == [Blank EXCEPT !.op = "create", !.stage = "tree", !.team = team,
                                  !.folder = f, !.desc = d]
    <2>2. q \in Request /\ q.stage = "tree" /\ q.tack = None /\ q.note = None
        BY DEF Blank, Request, Stages
    <2>3. Ask(r, q)
        BY <2>1
    <2> HIDE DEF q
    <2> QED
        BY <2>2, <2>3, LoneAsk
<1>4. CASE AskUpdateNote(r)
    <2>1. PICK n \in NoteIds, d \in Descriptions \union {None} :
             Listed(n)
             /\ Ask(r, [Blank EXCEPT !.op = "update", !.stage = "text", !.note = n,
                                     !.desc = d])
        BY <1>4 DEF AskUpdateNote
    <2> DEFINE q == [Blank EXCEPT !.op = "update", !.stage = "text", !.note = n, !.desc = d]
    <2>2. q \in Request /\ q.stage = "text" /\ q.tack = None /\ q.note = n
        BY DEF Blank, Request, Stages
    <2>3. Ask(r, q)
        BY <2>1
    <2> HIDE DEF q
    <2> QED
        BY <1>1, <2>1, <2>2, <2>3, LoneAsk
<1>5. CASE AskSetNoteFolder(r)
    <2>1. PICK n \in NoteIds, f \in FolderIds \union {None} :
             Listed(n)
             /\ Ask(r, [Blank EXCEPT !.op = "file", !.stage = "get", !.note = n,
                                     !.folder = f])
        BY <1>2, <1>5 DEF AskSetNoteFolder
    <2> DEFINE q == [Blank EXCEPT !.op = "file", !.stage = "get", !.note = n, !.folder = f]
    <2>2. q \in Request /\ q.stage = "get" /\ q.tack = None /\ q.note = n
        BY DEF Blank, Request, Stages
    <2>3. Ask(r, q)
        BY <2>1
    <2> HIDE DEF q
    <2> QED
        BY <1>1, <2>1, <2>2, <2>3, LoneAsk
<1>6. CASE AskDeleteNote(r)
    <2>1. PICK n \in NoteIds :
             Listed(n)
             /\ Ask(r, [Blank EXCEPT !.op = "delete", !.stage = "erase", !.note = n])
        BY <1>6 DEF AskDeleteNote
    <2> DEFINE q == [Blank EXCEPT !.op = "delete", !.stage = "erase", !.note = n]
    <2>2. q \in Request /\ q.stage = "erase" /\ q.tack = None /\ q.note = n
        BY DEF Blank, Request, Stages
    <2>3. Ask(r, q)
        BY <2>1
    <2> HIDE DEF q
    <2> QED
        BY <1>1, <2>1, <2>2, <2>3, LoneAsk
<1>7. CASE AskCreateFolder(r)
    <2>1. PICK m \in Names :
             Ask(r, [Blank EXCEPT !.op = "addfolder", !.stage = "add", !.name = m])
        BY <1>7 DEF AskCreateFolder
    <2> DEFINE q == [Blank EXCEPT !.op = "addfolder", !.stage = "add", !.name = m]
    <2>2. q \in Request /\ q.stage = "add" /\ q.tack = None /\ q.note = None
        BY DEF Blank, Request, Stages
    <2>3. Ask(r, q)
        BY <2>1
    <2> HIDE DEF q
    <2> QED
        BY <2>2, <2>3, LoneAsk
<1>8. CASE AskRenameFolder(r)
    <2>1. PICK f \in FolderIds, m \in Names :
             Ask(r, [Blank EXCEPT !.op = "rename", !.stage = "exists", !.folder = f,
                                  !.name = m])
        BY <1>2, <1>8 DEF AskRenameFolder
    <2> DEFINE q == [Blank EXCEPT !.op = "rename", !.stage = "exists", !.folder = f,
                                  !.name = m]
    <2>2. q \in Request /\ q.stage = "exists" /\ q.tack = None /\ q.note = None
        BY DEF Blank, Request, Stages
    <2>3. Ask(r, q)
        BY <2>1
    <2> HIDE DEF q
    <2> QED
        BY <2>2, <2>3, LoneAsk
<1>9. CASE AskDeleteFolder(r)
    <2>1. PICK f \in FolderIds :
             Ask(r, [Blank EXCEPT !.op = "remove", !.stage = "exists", !.folder = f])
        BY <1>2, <1>9 DEF AskDeleteFolder
    <2> DEFINE q == [Blank EXCEPT !.op = "remove", !.stage = "exists", !.folder = f]
    <2>2. q \in Request /\ q.stage = "exists" /\ q.tack = None /\ q.note = None
        BY DEF Blank, Request, Stages
    <2>3. Ask(r, q)
        BY <2>1
    <2> HIDE DEF q
    <2> QED
        BY <2>2, <2>3, LoneAsk
<1> QED
    BY <1>3, <1>4, <1>5, <1>6, <1>7, <1>8, <1>9 DEF AskSomething

\* Nobody is alone at the start.
LEMMA LoneInitInv == NotesInit => LoneInv
<1>1. Blank.note = None /\ Blank.undisturbed = FALSE
    BY DEF Blank
<1> QED
    BY <1>1, NotesInitInv DEF NotesInit, LoneInv, IdsIssued, LoneOnCourse

\* The invariant of a request that meets no other is inductive.
LEMMA LoneNextInv == LoneInv /\ [NotesNext]_notesVars => LoneInv'
<1> SUFFICES ASSUME LoneInv, [NotesNext]_notesVars
             PROVE  LoneInv'
    OBVIOUS
<1>1. NotesInv'
    BY NotesNextInv DEF LoneInv
<1>2. CASE NotesNext
    <2>1. PICK r \in Requests : AskSomething(r) \/ DbStep(r) \/ TackStep(r) \/ Drop(r)
        BY <1>2 DEF NotesNext
    <2>2. CASE AskSomething(r)
        BY <1>1, <2>2, LoneAsked
    <2>3. CASE DbStep(r)
        BY <1>1, <2>3, LoneReading, LoneLookup, LoneNewFolder, LoneRead, LoneMetaWrite,
           LoneClearFolder DEF DbStep
    <2>4. CASE TackStep(r)
        BY <1>1, <2>4, LoneReading, LoneNewFolder, LoneCreateNote, LoneNoteCall, LoneRead
        DEF TackStep
    <2>5. CASE Drop(r)
        BY <1>1, <2>5, LoneReading
    <2> QED
        BY <2>1, <2>2, <2>3, <2>4, <2>5
<1>3. CASE UNCHANGED notesVars
    BY <1>1, <1>3 DEF LoneInv, IdsIssued, LoneOnCourse, OnCourse, Agrees, FiledAs, FolderOf,
                      notesVars, tackVars, storeVars
<1> QED
    BY <1>2, <1>3

\* For any requests, races and failures before it, a request that was answered and
\* met no other leaves the service, the sidecar rows, the folders and the mapping
\* in agreement about what it changed (research_note.rs, research_folder.rs).
THEOREM LoneRequestAgreesCorrect == NotesSpec => []LoneRequestAgrees
<1>1. LoneInv => LoneRequestAgrees
    <2> SUFFICES ASSUME LoneInv, NEW r \in Requests, req[r].undisturbed, req[r].stage = "done"
                 PROVE  /\ LoneFilingAgrees(req[r])
                        /\ LoneDeletionClean(req[r])
                        /\ req[r].op = "update" /\ req[r].desc # None =>
                             meta[req[r].note].description = req[r].desc
        BY DEF LoneRequestAgrees
    <2>1. Agrees(req[r], tackNotes, meta, mapping, folders)
        BY LoneOne DEF OnCourse
    <2> QED
        BY <2>1 DEF Agrees, FiledAs, LoneFilingAgrees, LoneDeletionClean
<1> QED
    BY LoneInitInv, LoneNextInv, <1>1, PTL DEF NotesSpec
=============================================================================
