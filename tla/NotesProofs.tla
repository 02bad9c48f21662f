----------------------------- MODULE NotesProofs -----------------------------
(***************************************************************************)
(* Notes and folders against the external service, for any number of       *)
(* requests, notes, folders and teams.                                     *)
(*                                                                         *)
(* Fits says which stages a request of each kind passes and what it has    *)
(* found out by then; the types of all tables need it, for a folder is     *)
(* made at the service only by a request that knows team and name. Reached *)
(* adds that the note of a creation was handed out by the service, whose   *)
(* ids come once: nobody can put another note in its place.                *)
(***************************************************************************)
EXTENDS NotesSync, TLAPS

Filing == {"lookup", "name", "mkfolder", "map"}

\* The stages a request of each kind passes, and the values it has by then.
Fits(q) ==
    /\ q.stage \in Stages => q.op # "none"
    /\ q.op = "create" => q.stage \in Filing \union {"tree", "note", "attach", "read", "write",
                                                     "done", "failed"}
    /\ q.op = "file" => q.stage \in Filing \union {"get", "file", "read", "write",
                                                   "done", "failed"}
    /\ q.op = "update" => q.stage \in {"text", "read", "write", "done", "failed"}
    /\ q.op = "delete" => q.stage \in {"erase", "unmeta", "done", "failed"}
    /\ q.op = "addfolder" => q.stage \in {"add", "done", "failed"} /\ q.name # None
    /\ q.op = "rename" => /\ q.stage \in {"exists", "mapped", "retitle", "setname",
                                          "done", "failed"}
                          /\ q.folder # None /\ q.name # None
    /\ q.op = "remove" => /\ q.stage \in {"exists", "mapped", "unfolder", "clear",
                                          "done", "failed"}
                          /\ q.folder # None
    /\ q.stage \in Filing => q.team # None /\ q.folder # None
    /\ q.stage = "mkfolder" => q.name # None
    /\ q.stage \in {"map", "retitle", "unfolder"} => q.tack # None
    /\ q.op \in {"file", "update", "delete"} => q.note # None
    /\ q.stage \in {"attach", "read", "write"} => q.note # None

RequestsOK == req \in [Requests -> Request] /\ \A r \in Requests : Fits(req[r])

\* A creation past its attachment has a note that is attached or deleted.
Reached ==
    \A r \in Requests :
        /\ req[r].op = "create" /\ req[r].stage \in {"attach", "read", "write"} =>
              req[r].note \in tackIssued
        /\ req[r].op = "create" /\ req[r].stage \in {"read", "write"} =>
              tackNotes[req[r].note] = None \/ tackNotes[req[r].note].attached

IssuedFirst == \A n \in NoteIds : tackNotes[n] # None => n \in tackIssued

NotesInv == NotesTypeOK /\ RequestsOK /\ IssuedFirst /\ Reached
-----------------------------------------------------------------------------
(* Requests.                                                               *)

\* An answered or idle request of which nothing is kept.
LEMMA BlankFits ==
    \A s \in {"idle", "done", "failed"} :
        [Blank EXCEPT !.stage = s] \in Request /\ Fits([Blank EXCEPT !.stage = s])
<1> SUFFICES ASSUME NEW s \in {"idle", "done", "failed"}
             PROVE  [Blank EXCEPT !.stage = s] \in Request
                    /\ Fits([Blank EXCEPT !.stage = s])
    OBVIOUS
<1> DEFINE b == [Blank EXCEPT !.stage = s]
<1>1. Blank \in Request /\ Blank.op = "none"
    BY DEF Blank, Request
<1>2. b \in Request
    BY <1>1 DEF Request
<1>3. b.op = "none" /\ b.stage = s
    BY <1>1 DEF Request
<1>4. Fits(b)
    BY <1>3 DEF Fits, Stages, Filing
<1> QED
    BY <1>2, <1>4

\* Settling forgets a request or leaves it as it is.
LEMMA SettledFits ==
    ASSUME NEW q \in Request, Fits(q)
    PROVE  /\ Settled(q) \in Request /\ Fits(Settled(q))
           /\ Settled(q).stage = q.stage
           /\ Settled(q).op \in {q.op, "none"}
           /\ Settled(q).op # "none" => Settled(q) = q
<1>1. /\ [Blank EXCEPT !.stage = "failed"].stage = "failed"
      /\ [Blank EXCEPT !.stage = "done"].stage = "done"
      /\ [Blank EXCEPT !.stage = "failed"].op = "none"
      /\ [Blank EXCEPT !.stage = "done"].op = "none"
    BY DEF Blank
<1> QED
    BY <1>1, BlankFits DEF Settled

\* What a step leaves of the notes the service has handed out.
NoteKept ==
    \A n \in NoteIds :
        n \in tackIssued =>
            /\ n \in tackIssued'
            /\ tackNotes[n] = None \/ tackNotes[n].attached =>
                  tackNotes'[n] = None \/ tackNotes'[n].attached

TackStill == TackTypeOK' /\ IssuedFirst' /\ NoteKept

StoreOK ==
    /\ folders \in [FolderIds -> Names \union {None}]
    /\ born \subseteq FolderIds
    /\ mapping \in [FolderIds -> TackFolderIds \union {None}]
    /\ meta \in [NoteIds -> MetaRow \union {None}]

\* A request that may become q.
Sound(r, q) ==
    /\ q \in Request /\ Fits(q)
    /\ q.op = "create" /\ q.stage \in {"attach", "read", "write"} => q.note \in tackIssued'
    /\ q.op = "create" /\ q.stage \in {"read", "write", "done"} =>
          tackNotes'[q.note] = None \/ tackNotes'[q.note].attached
    /\ q.op = "create" /\ q.stage = "done" => q.note = req[r].note
    /\ q.op # "none" => q.op = req[r].op \/ req[r].stage = "idle"

\* The step behind AnsweredNoteAttached.
Answered ==
    \A r \in Requests :
        LET n == req[r].note IN
        req[r].op = "create" /\ req[r].stage # "done" /\ req'[r].stage = "done" =>
            tackNotes'[n] = None \/ tackNotes'[n].attached

\* A request that moves on to a sound q keeps the invariant, given what the step
\* did to the service and to the tables.
LEMMA Moved ==
    ASSUME NotesInv, TackStill, StoreOK',
           NEW r \in Requests, NEW q, Sound(r, q), q.op = req[r].op, Become(r, q)
    PROVE  NotesInv' /\ Answered
<1>1. /\ req' = [req EXCEPT ![r] = Settled(q)]
      /\ Settled(q) \in Request /\ Fits(Settled(q)) /\ Settled(q).stage = q.stage
      /\ Settled(q).op # "none" => Settled(q) = q
    BY SettledFits DEF Become, Sound
<1>2. RequestsOK' /\ \A p \in Requests : req'[p] = IF p = r THEN Settled(q) ELSE req[p]
    BY <1>1 DEF NotesInv, RequestsOK
<1>3. NotesTypeOK'
    BY <1>2 DEF TackStill, StoreOK, NotesTypeOK, RequestsOK
<1>4. \A p \in Requests : req[p].note \in NoteIds \union {None} /\ Fits(req[p])
    BY DEF NotesInv, RequestsOK, Request
<1>5. Reached'
    <2>1. ASSUME NEW p \in Requests, p # r, req[p].op = "create",
                 req[p].stage \in {"attach", "read", "write"}
          PROVE  req[p].note \in tackIssued /\ req[p].note \in NoteIds
        BY <1>4, <2>1 DEF NotesInv, Reached, Fits
    <2>2. ASSUME NEW p \in Requests, p # r
          PROVE  /\ req'[p].op = "create" /\ req'[p].stage \in {"attach", "read", "write"} =>
                       req'[p].note \in tackIssued'
                 /\ req'[p].op = "create" /\ req'[p].stage \in {"read", "write"} =>
                       tackNotes'[req'[p].note] = None \/ tackNotes'[req'[p].note].attached
        BY <1>2, <2>1, <2>2 DEF NotesInv, Reached, TackStill, NoteKept
    <2>3. /\ req'[r].op = "create" /\ req'[r].stage \in {"attach", "read", "write"} =>
                 req'[r].note \in tackIssued'
          /\ req'[r].op = "create" /\ req'[r].stage \in {"read", "write"} =>
                 tackNotes'[req'[r].note] = None \/ tackNotes'[req'[r].note].attached
        BY <1>1, <1>2 DEF Sound
    <2> QED
        BY <2>2, <2>3 DEF Reached
<1>6. Answered
    <2>1. ASSUME NEW p \in Requests, req[p].op = "create", req[p].stage # "done",
                 req'[p].stage = "done"
          PROVE  p = r /\ q.stage = "done"
        BY <1>1, <1>2, <2>1
    <2> QED
        BY <1>2, <2>1 DEF Answered, Sound
<1> QED
    BY <1>2, <1>3, <1>5, <1>6 DEF NotesInv, TackStill
-----------------------------------------------------------------------------
(* What the calls leave.                                                   *)

\* A step that calls nothing.
LEMMA NoCall ==
    ASSUME NotesInv, UNCHANGED tackVars
    PROVE  TackStill
BY DEF NotesInv, NotesTypeOK, TackStill, TackTypeOK, IssuedFirst, NoteKept, tackVars

\* A step that writes nothing.
LEMMA NoStore ==
    ASSUME NotesInv, UNCHANGED storeVars
    PROVE  StoreOK'
BY DEF NotesInv, NotesTypeOK, StoreOK, storeVars

\* A created note takes an id never given before: no request's note is replaced.
LEMMA CreateNoteStill ==
    ASSUME NotesInv, NEW n \in NoteIds, NEW team \in Teams \union {None},
           NEW t \in TackFolderIds \union {None}, create_note(n, team, t)
    PROVE  TackStill /\ n \in tackIssued'
<1> DEFINE row == [team |-> team, folder_id |-> t, attached |-> FALSE]
<1>0. row \in TackNote
    BY DEF TackNote
<1>1. row \in TackNote /\ row # None
    <2> HIDE DEF row
    <2> QED
        BY <1>0, NotesAssumption
<1>2. n \notin tackIssued /\ tackNotes' = [tackNotes EXCEPT ![n] = row]
      /\ tackIssued' = tackIssued \union {n} /\ UNCHANGED tackFolders
    BY DEF create_note
<1> HIDE DEF row
<1> QED
    BY <1>1, <1>2 DEF NotesInv, NotesTypeOK, TackStill, TackTypeOK, IssuedFirst, NoteKept

\* Calls that change one note.
LEMMA NoteSetStill ==
    ASSUME NotesInv, NEW n \in NoteIds, tackNotes[n] # None,
           NEW row \in TackNote \union {None},
           row # None => (tackNotes[n].attached => row.attached),
           tackNotes' = [tackNotes EXCEPT ![n] = row],
           UNCHANGED <<tackFolders, tackIssued>>
    PROVE  TackStill
BY DEF NotesInv, NotesTypeOK, TackStill, TackTypeOK, IssuedFirst, NoteKept

\* Filing a note leaves its attachment.
LEMMA UpdateFolderStill ==
    ASSUME NotesInv, NEW n \in NoteIds, NEW t \in TackFolderIds \union {None},
           update_folder(n, t)
    PROVE  TackStill
<1> DEFINE row == [tackNotes[n] EXCEPT !.folder_id = t]
<1>1. tackNotes[n] \in TackNote
    BY DEF update_folder, NotesInv, NotesTypeOK, TackTypeOK
<1>2. row \in TackNote /\ row.attached = tackNotes[n].attached
    BY <1>1 DEF TackNote
<1>3. tackNotes' = [tackNotes EXCEPT ![n] = row]
    BY DEF update_folder
<1> HIDE DEF row
<1> QED
    BY <1>2, <1>3, NoteSetStill DEF update_folder

\* After the call the note is attached.
LEMMA AttachStill ==
    ASSUME NotesInv, NEW n \in NoteIds, attach(n)
    PROVE  TackStill /\ (tackNotes'[n] = None \/ tackNotes'[n].attached)
<1> DEFINE row == [tackNotes[n] EXCEPT !.attached = TRUE]
<1>1. tackNotes[n] \in TackNote
    BY DEF attach, NotesInv, NotesTypeOK, TackTypeOK
<1>2. row \in TackNote /\ row.attached
    BY <1>1 DEF TackNote
<1>3. tackNotes' = [tackNotes EXCEPT ![n] = row]
    BY DEF attach
<1>4. tackNotes'[n] = row
    BY <1>3 DEF NotesInv, NotesTypeOK, TackTypeOK
<1> HIDE DEF row
<1> QED
    BY <1>2, <1>3, <1>4, NoteSetStill DEF attach

\* Deletion leaves no note that is not attached.
LEMMA DeleteNoteStill ==
    ASSUME NotesInv, NEW n \in NoteIds, delete_note(n)
    PROVE  TackStill
BY NoteSetStill DEF delete_note

\* Creating and renaming folders changes no note.
LEMMA FolderStill ==
    ASSUME NotesInv, NEW t \in TackFolderIds,
           \/ \E team \in Teams, name \in Names : create_note_folder(t, team, name)
           \/ \E name \in Names : rename_note_folder(t, name)
    PROVE  TackStill
<1>1. CASE \E team \in Teams, name \in Names : create_note_folder(t, team, name)
    BY <1>1 DEF create_note_folder, TackNoteFolder, NotesInv, NotesTypeOK, TackStill,
                TackTypeOK, IssuedFirst, NoteKept
<1>2. CASE \E name \in Names : rename_note_folder(t, name)
    <2>1. PICK name \in Names : rename_note_folder(t, name)
        BY <1>2
    <2>2. [tackFolders[t] EXCEPT !.name = name] \in TackNoteFolder
        BY <2>1 DEF rename_note_folder, NotesInv, NotesTypeOK, TackTypeOK, TackNoteFolder
    <2>3. tackFolders' \in [TackFolderIds -> TackNoteFolder \union {None}]
        BY <2>1, <2>2 DEF rename_note_folder, NotesInv, NotesTypeOK, TackTypeOK
    <2> QED
        BY <2>1, <2>3 DEF rename_note_folder, NotesInv, NotesTypeOK, TackStill,
                          TackTypeOK, IssuedFirst, NoteKept
<1> QED
    BY <1>1, <1>2

\* Deleting a folder unfiles its notes and leaves their attachment.
LEMMA DeleteFolderStill ==
    ASSUME NotesInv, NEW t \in TackFolderIds, delete_note_folder(t)
    PROVE  TackStill
<1>1. ASSUME NEW n \in NoteIds
      PROVE  /\ tackNotes'[n] \in TackNote \union {None}
             /\ tackNotes'[n] = None <=> tackNotes[n] = None
             /\ tackNotes[n] # None => tackNotes'[n].attached = tackNotes[n].attached
    <2>1. tackNotes[n] \in TackNote \union {None}
        BY DEF NotesInv, NotesTypeOK, TackTypeOK
    <2>2. tackNotes'[n] = IF tackNotes[n] # None /\ tackNotes[n].folder_id = t
                          THEN [tackNotes[n] EXCEPT !.folder_id = None] ELSE tackNotes[n]
        BY DEF delete_note_folder
    <2>3. CASE tackNotes[n] # None
        <3>1. /\ [tackNotes[n] EXCEPT !.folder_id = None] \in TackNote
              /\ [tackNotes[n] EXCEPT !.folder_id = None].attached = tackNotes[n].attached
            BY <2>1, <2>3 DEF TackNote
        <3> QED
            BY <2>1, <2>2, <2>3, <3>1, NotesAssumption
    <2> QED
        BY <2>1, <2>2, <2>3
<1>2. tackNotes' \in [NoteIds -> TackNote \union {None}]
    BY <1>1 DEF delete_note_folder
<1>3. tackFolders' \in [TackFolderIds -> TackNoteFolder \union {None}]
    BY DEF delete_note_folder, NotesInv, NotesTypeOK, TackTypeOK
<1>4. UNCHANGED tackIssued
    BY DEF delete_note_folder
<1> QED
    BY <1>1, <1>2, <1>3, <1>4
    DEF NotesInv, NotesTypeOK, TackStill, TackTypeOK, IssuedFirst, NoteKept
-----------------------------------------------------------------------------
(* Stages.                                                                 *)

\* What the invariant says of one request.
LEMMA OneRequest ==
    ASSUME NotesInv, NEW r \in Requests
    PROVE  /\ req[r] \in Request /\ Fits(req[r])
           /\ req[r].op = "create" /\ req[r].stage \in {"attach", "read", "write"} =>
                 req[r].note \in tackIssued /\ req[r].note \in NoteIds
           /\ req[r].op = "create" /\ req[r].stage \in {"read", "write"} =>
                 tackNotes[req[r].note] = None \/ tackNotes[req[r].note].attached
BY DEF NotesInv, RequestsOK, Reached, Fits, Request

\* A request may fail at any stage.
LEMMA FailedMove ==
    ASSUME NotesInv, TackStill, StoreOK', NEW r \in Requests, Goto(r, "failed")
    PROVE  NotesInv' /\ Answered
<1> DEFINE q == [req[r] EXCEPT !.stage = "failed"]
<1>1. req[r] \in Request /\ Fits(req[r])
    BY OneRequest
<1>2. q \in Request /\ Fits(q) /\ q.op = req[r].op /\ q.stage = "failed"
    BY <1>1 DEF Request, Fits, Stages, Filing
<1>3. Sound(r, q) /\ Become(r, q)
    BY <1>2 DEF Sound, Goto
<1> HIDE DEF q
<1> QED
    BY <1>2, <1>3, Moved

\* A request that moves on by setting its stage, its tack folder, its team and name.
LEMMA OnwardMove ==
    ASSUME NotesInv, TackStill, StoreOK', NEW r \in Requests, NEW q \in Request, Fits(q),
           q.op = req[r].op, q.note = req[r].note, Become(r, q),
           q.op = "create" =>
              \/ q.stage \in Filing \union {"tree", "note"}
              \/ q.stage \in {"read", "write", "done"}
                 /\ req[r].stage \in {"read", "write"}
              \/ q.stage \in {"read", "write", "done"}
                 /\ req[r].stage = "attach"
                 /\ (tackNotes'[req[r].note] = None \/ tackNotes'[req[r].note].attached)
    PROVE  NotesInv' /\ Answered
<1>1. q.op = "create" /\ q.stage \in {"attach", "read", "write", "done"} =>
         /\ req[r].note \in tackIssued'
         /\ tackNotes'[req[r].note] = None \/ tackNotes'[req[r].note].attached
    BY OneRequest DEF TackStill, NoteKept, Filing
<1>2. Sound(r, q)
    BY <1>1 DEF Sound
<1> QED
    BY <1>2, Moved

\* Knowing that another request came does not change what a request is.
LEMMA NotAlone ==
    ASSUME NEW q \in Request, Fits(q), NEW b \in BOOLEAN
    PROVE  LET w == [q EXCEPT !.undisturbed = b] IN
           /\ w \in Request /\ Fits(w)
           /\ w.op = q.op /\ w.stage = q.stage /\ w.note = q.note /\ w.undisturbed = b
<1> DEFINE w == [q EXCEPT !.undisturbed = b]
<1>1. w \in Request /\ w.undisturbed = b
    BY DEF Request
<1>2. /\ w.op = q.op /\ w.stage = q.stage /\ w.note = q.note /\ w.team = q.team
      /\ w.folder = q.folder /\ w.name = q.name /\ w.tack = q.tack
    BY DEF Request
<1> HIDE DEF w
<1>3. Fits(w)
    BY <1>2 DEF Fits
<1> QED
    BY <1>1, <1>2, <1>3 DEF w

\* A request that goes on unaware of what became of its statement.
LEMMA UnreadMove ==
    ASSUME NotesInv, TackStill, StoreOK', NEW r \in Requests, NEW refused \in BOOLEAN,
           NEW q \in Request, Fits(q), q.op = req[r].op, q.note = req[r].note,
           Unread(r, refused, q),
           q.op = "create" =>
              \/ q.stage \in Filing \union {"tree", "note"}
              \/ q.stage \in {"read", "write", "done"}
                 /\ req[r].stage \in {"read", "write"}
    PROVE  NotesInv' /\ Answered
<1> DEFINE b == req[r].undisturbed /\ ~ refused
           w == [q EXCEPT !.undisturbed = b]
<1>1. b \in BOOLEAN
    OBVIOUS
<1>2. Become(r, w)
    BY DEF Unread
<1> HIDE DEF b
<1>3. w \in Request /\ Fits(w) /\ w.op = q.op /\ w.stage = q.stage /\ w.note = q.note
    BY <1>1, NotAlone
<1> HIDE DEF w
<1> QED
    BY <1>2, <1>3, OnwardMove

\* A request that learns a folder of the service.
TackStaged(q, v, s) == [q EXCEPT !.tack = v, !.stage = s]

\* It is a request still, and keeps the rest.
LEMMA TackStagedFields ==
    ASSUME NEW q \in Request, NEW v \in TackFolderIds \union {None}, NEW s \in Stages
    PROVE  LET w == TackStaged(q, v, s) IN
           /\ w \in Request /\ w.stage = s /\ w.tack = v
           /\ w.op = q.op /\ w.note = q.note /\ w.team = q.team
           /\ w.folder = q.folder /\ w.name = q.name
<1> DEFINE w == TackStaged(q, v, s)
<1>1. w \in Request
    BY DEF TackStaged, Request
<1>2. w.stage = s /\ w.tack = v
    BY DEF TackStaged, Request
<1>3. w.op = q.op /\ w.note = q.note /\ w.team = q.team
    BY DEF TackStaged, Request
<1>4. w.folder = q.folder /\ w.name = q.name
    BY DEF TackStaged, Request
<1> QED
    BY <1>1, <1>2, <1>3, <1>4

\* A request that learns its note's team.
TeamStaged(q, v, s) == [q EXCEPT !.team = v, !.stage = s]

\* It is a request still, and keeps the rest.
LEMMA TeamStagedFields ==
    ASSUME NEW q \in Request, NEW v \in Teams \union {None}, NEW s \in Stages
    PROVE  LET w == TeamStaged(q, v, s) IN
           /\ w \in Request /\ w.stage = s /\ w.team = v
           /\ w.op = q.op /\ w.note = q.note /\ w.tack = q.tack
           /\ w.folder = q.folder /\ w.name = q.name
<1> DEFINE w == TeamStaged(q, v, s)
<1>1. w \in Request
    BY DEF TeamStaged, Request
<1>2. w.stage = s /\ w.team = v
    BY DEF TeamStaged, Request
<1>3. w.op = q.op /\ w.note = q.note /\ w.tack = q.tack
    BY DEF TeamStaged, Request
<1>4. w.folder = q.folder /\ w.name = q.name
    BY DEF TeamStaged, Request
<1> QED
    BY <1>1, <1>2, <1>3, <1>4

\* A request that read the sidecar row.
ReadStaged(q, v, s) == [q EXCEPT !.read = v, !.stage = s]

\* It is a request still, and keeps the rest.
LEMMA ReadStagedFields ==
    ASSUME NEW q \in Request, NEW v \in MetaRow \union {None}, NEW s \in Stages
    PROVE  LET w == ReadStaged(q, v, s) IN
           /\ w \in Request /\ w.stage = s /\ w.read = v
           /\ w.op = q.op /\ w.note = q.note /\ w.team = q.team
           /\ w.folder = q.folder /\ w.name = q.name /\ w.tack = q.tack
<1> DEFINE w == ReadStaged(q, v, s)
<1>1. w \in Request
    BY DEF ReadStaged, Request
<1>2. w.stage = s /\ w.read = v
    BY DEF ReadStaged, Request
<1>3. w.op = q.op /\ w.note = q.note /\ w.team = q.team
    BY DEF ReadStaged, Request
<1>4. w.folder = q.folder /\ w.name = q.name /\ w.tack = q.tack
    BY DEF ReadStaged, Request
<1> QED
    BY <1>1, <1>2, <1>3, <1>4

\* A filing that has its folder of the service goes on to the note.
LEMMA WithFolderFits ==
    ASSUME NEW r \in Requests, req[r] \in Request, Fits(req[r]),
           req[r].op \in {"create", "file"}, NEW t \in TackFolderIds \union {None}
    PROVE  /\ WithFolder(r, t) \in Request /\ Fits(WithFolder(r, t))
           /\ WithFolder(r, t).op = req[r].op /\ WithFolder(r, t).note = req[r].note
           /\ WithFolder(r, t).op = "create" => WithFolder(r, t).stage = "note"
<1> DEFINE s == IF req[r].op = "create" THEN "note" ELSE "file"
           w == [req[r] EXCEPT !.tack = t, !.stage = s]
<1>1. s \in {"note", "file"} /\ (s = "note" <=> req[r].op = "create")
    OBVIOUS
<1>2. w = WithFolder(r, t)
    BY DEF WithFolder
<1>5. w = TackStaged(req[r], t, s)
    BY DEF TackStaged
<1> HIDE DEF s, w
<1>3. /\ w \in Request /\ w.op = req[r].op /\ w.note = req[r].note
      /\ w.stage = s /\ w.team = req[r].team /\ w.folder = req[r].folder
    <2>1. s \in Stages
        BY <1>1 DEF Stages
    <2> QED
        BY <2>1, <1>5, TackStagedFields
<1>4. Fits(w)
    BY <1>1, <1>3 DEF Fits, Stages, Filing
<1> QED
    BY <1>1, <1>2, <1>3, <1>4
-----------------------------------------------------------------------------
(* Steps of the database, action by action.                                *)

\* Steps that only read.
LEMMA InvReading ==
    ASSUME NotesInv, NEW r \in Requests,
           \/ ResolveTree(r) \/ LookupMapping(r) \/ ReadFolderName(r) \/ ReadMeta(r)
           \/ FindFolder(r) \/ FindMapped(r) \/ GetNote(r) \/ Drop(r)
    PROVE  NotesInv' /\ Answered
<1>1. TackStill /\ StoreOK'
    BY NoCall, NoStore
    DEF ResolveTree, LookupMapping, ReadFolderName, ReadMeta, FindFolder, FindMapped,
        GetNote, Drop
<1>2. /\ req[r] \in Request /\ Fits(req[r])
      /\ req[r].op = "create" /\ req[r].stage \in {"attach", "read", "write"} =>
            req[r].note \in tackIssued /\ req[r].note \in NoteIds
    BY OneRequest
<1>3. CASE ResolveTree(r)
    <2> DEFINE q == [req[r] EXCEPT !.stage = IF req[r].team # None /\ req[r].folder # None
                                             THEN "lookup" ELSE "note"]
    <2>1. q \in Request /\ Fits(q) /\ q.op = req[r].op /\ q.note = req[r].note
          /\ q.stage \in {"lookup", "note"}
        BY <1>2, <1>3 DEF ResolveTree, At, Request, Fits, Stages, Filing
    <2>2. Become(r, q)
        BY <1>3 DEF ResolveTree, Goto
    <2> HIDE DEF q
    <2> QED
        BY <1>1, <2>1, <2>2, OnwardMove DEF Filing
<1>4. CASE LookupMapping(r)
    <2> DEFINE f == req[r].folder
               w == WithFolder(r, mapping[f])
               q == [req[r] EXCEPT !.stage = "name"]
    <2>1. f \in FolderIds /\ mapping[f] \in TackFolderIds \union {None}
          /\ req[r].op \in {"create", "file"}
        BY <1>2, <1>4 DEF LookupMapping, At, Request, Fits, Filing, Stages, NotesInv,
                          NotesTypeOK
    <2>2. /\ w \in Request /\ Fits(w) /\ w.op = req[r].op /\ w.note = req[r].note
          /\ w.op = "create" => w.stage = "note"
        BY <1>2, <2>1, WithFolderFits
    <2>3. q \in Request /\ Fits(q) /\ q.op = req[r].op /\ q.note = req[r].note
          /\ q.stage = "name"
        BY <1>2, <1>4 DEF LookupMapping, At, Request, Fits, Stages, Filing
    <2>4. Become(r, w) \/ Become(r, q)
        BY <1>4 DEF LookupMapping, Goto
    <2> HIDE DEF w, q
    <2> QED
        BY <1>1, <2>2, <2>3, <2>4, OnwardMove DEF Filing
<1>5. CASE ReadFolderName(r)
    <2> DEFINE f == req[r].folder
               m == IF folders[f] = None THEN Unfiled ELSE folders[f]
               q == [req[r] EXCEPT !.stage = "mkfolder", !.name = m]
    <2>1. m \in Names /\ m # None
        BY <1>2, <1>5, NotesAssumption
        DEF ReadFolderName, At, Request, Fits, Filing, Stages, NotesInv, NotesTypeOK
    <2> HIDE DEF m
    <2>2. q \in Request /\ Fits(q) /\ q.op = req[r].op /\ q.note = req[r].note
          /\ q.stage = "mkfolder"
        BY <1>2, <1>5, <2>1 DEF ReadFolderName, At, Request, Fits, Stages, Filing
    <2>3. Become(r, q)
        BY <1>5 DEF ReadFolderName, m
    <2> HIDE DEF q
    <2> QED
        BY <1>1, <2>2, <2>3, OnwardMove DEF Filing
<1>6. CASE ReadMeta(r)
    <2> DEFINE row == meta[req[r].note]
               q == [req[r] EXCEPT !.stage = "write", !.read = row]
    <2>1. row \in MetaRow \union {None}
        BY <1>2, <1>6 DEF ReadMeta, At, Request, Fits, NotesInv, NotesTypeOK
    <2> HIDE DEF row
    <2>2. /\ q \in Request /\ q.op = req[r].op /\ q.note = req[r].note
          /\ q.stage = "write"
        <3>1. "write" \in Stages
            BY DEF Stages
        <3>2. q = ReadStaged(req[r], row, "write")
            BY DEF ReadStaged
        <3> HIDE DEF q
        <3> QED
            BY <1>2, <2>1, <3>1, <3>2, ReadStagedFields
    <2>3. Become(r, q) /\ req[r].stage = "read"
        BY <1>6 DEF ReadMeta, row, At
    <2> HIDE DEF q
    <2>4. Fits(q)
        BY <1>2, <2>2, <2>3 DEF Fits, Stages, Filing
    <2> QED
        BY <1>1, <2>2, <2>3, <2>4, OnwardMove
<1>7. CASE FindFolder(r)
    <2> DEFINE q == [req[r] EXCEPT !.stage = "mapped"]
    <2>1. q \in Request /\ Fits(q) /\ q.op = req[r].op /\ q.note = req[r].note
          /\ q.op # "create"
        BY <1>2, <1>7 DEF FindFolder, At, Request, Fits, Stages, Filing
    <2>2. Become(r, q) \/ Goto(r, "failed")
        BY <1>7 DEF FindFolder, Goto
    <2> HIDE DEF q
    <2> QED
        BY <1>1, <2>1, <2>2, OnwardMove, FailedMove
<1>8. CASE FindMapped(r)
    <2> DEFINE t == mapping[req[r].folder]
               next == IF req[r].op = "rename" THEN <<"retitle", "setname">>
                       ELSE <<"unfolder", "clear">>
               s == IF t # None THEN next[1] ELSE next[2]
               q == [req[r] EXCEPT !.tack = t, !.stage = s]
    <2>1. req[r].op \in {"rename", "remove"} /\ t \in TackFolderIds \union {None}
        BY <1>2, <1>8 DEF FindMapped, At, Request, Fits, Filing, Stages, NotesInv,
                          NotesTypeOK
    <2>2. s = IF req[r].op = "rename" THEN IF t # None THEN "retitle" ELSE "setname"
              ELSE IF t # None THEN "unfolder" ELSE "clear"
        OBVIOUS
    <2>3. Become(r, q)
        BY <1>8 DEF FindMapped
    <2> HIDE DEF s, t
    <2>4. /\ q \in Request /\ q.op = req[r].op /\ q.note = req[r].note
          /\ q.stage = s /\ q.tack = t /\ q.folder = req[r].folder
          /\ q.name = req[r].name
        <3>1. s \in Stages
            BY <2>2 DEF Stages
        <3>2. q = TackStaged(req[r], t, s)
            BY DEF TackStaged
        <3> HIDE DEF q
        <3> QED
            BY <1>2, <2>1, <3>1, <3>2, TackStagedFields
    <2> HIDE DEF q
    <2>5. Fits(q)
        BY <1>2, <2>1, <2>2, <2>4 DEF Fits, Stages, Filing
    <2> QED
        BY <1>1, <2>1, <2>3, <2>4, <2>5, OnwardMove
<1>9. CASE GetNote(r)
    <2> DEFINE note == tackNotes[req[r].note]
               s == CASE note.team = None -> "read"
                      [] note.team # None /\ req[r].folder # None -> "lookup"
                      [] OTHER -> "file"
               q == [req[r] EXCEPT !.team = note.team, !.stage = s]
    <2>1. CASE note # None /\ Become(r, q)
        <3>1. note \in TackNote /\ req[r].op = "file" /\ req[r].note # None
            BY <1>2, <1>9, <2>1 DEF GetNote, At, Request, Fits, Filing, Stages, NotesInv,
                                    NotesTypeOK, TackTypeOK
        <3>2. note.team \in Teams \union {None}
            BY <3>1 DEF TackNote
        <3>3. s \in {"read", "lookup", "file"}
              /\ (s = "lookup" => note.team # None /\ req[r].folder # None)
            OBVIOUS
        <3>4. Become(r, q)
            BY <2>1
        <3> HIDE DEF s, note
        <3>5. /\ q \in Request /\ q.op = "file" /\ q.note = req[r].note
              /\ q.stage = s /\ q.team = note.team /\ q.folder = req[r].folder
            <4>1. s \in Stages
                BY <3>3 DEF Stages
            <4>2. q = TeamStaged(req[r], note.team, s)
                BY DEF TeamStaged
            <4> HIDE DEF q
            <4> QED
                BY <1>2, <3>1, <3>2, <4>1, <4>2, TeamStagedFields
        <3> HIDE DEF q
        <3>6. Fits(q)
            BY <3>1, <3>3, <3>5 DEF Fits, Stages, Filing
        <3> QED
            BY <1>1, <3>1, <3>4, <3>5, <3>6, OnwardMove
    <2> QED
        BY <1>1, <1>9, <2>1, FailedMove DEF GetNote
<1> QED
    BY <1>1, <1>3, <1>4, <1>5, <1>6, <1>7, <1>8, <1>9, FailedMove DEF Drop

\* A request that ends: it changed no note of the service.
LEMMA DoneMove ==
    ASSUME NotesInv, TackStill, StoreOK', NEW r \in Requests,
           req[r].op = "create" => req[r].stage \in {"read", "write"},
           Goto(r, "done") \/ \E refused \in BOOLEAN : Unread(r, refused, Replied(r))
    PROVE  NotesInv' /\ Answered
<1> DEFINE q == [req[r] EXCEPT !.stage = "done"]
<1>1. req[r] \in Request /\ Fits(req[r])
    BY OneRequest
<1>2. q \in Request /\ Fits(q) /\ q.op = req[r].op /\ q.note = req[r].note
      /\ q.stage = "done"
    BY <1>1 DEF Request, Fits, Stages, Filing
<1>3. Become(r, q) \/ \E refused \in BOOLEAN : Unread(r, refused, q)
    BY DEF Goto, Replied
<1> HIDE DEF q
<1> QED
    BY <1>2, <1>3, OnwardMove, UnreadMove
-----------------------------------------------------------------------------
(* Steps that write to the database.                                       *)

\* The saved mapping is that of a filing that made its folder.
LEMMA InvSaveMapping ==
    ASSUME NotesInv, NEW r \in Requests, NEW refused \in BOOLEAN, SaveMapping(r, refused)
    PROVE  NotesInv' /\ Answered
<1> DEFINE f == req[r].folder
           t == req[r].tack
           w == WithFolder(r, t)
<1>1. req[r] \in Request /\ Fits(req[r]) /\ req[r].stage = "map"
    BY OneRequest DEF SaveMapping, At
<1>2. f \in FolderIds /\ t \in TackFolderIds /\ req[r].op \in {"create", "file"}
    BY <1>1 DEF Request, Fits, Filing, Stages
<1>3. StoreOK'
    BY <1>2 DEF SaveMapping, MappingSaved, NotesInv, NotesTypeOK, StoreOK
<1>4. TackStill
    BY NoCall DEF SaveMapping
<1>5. /\ w \in Request /\ Fits(w) /\ w.op = req[r].op /\ w.note = req[r].note
      /\ w.op = "create" => w.stage = "note"
    BY <1>1, <1>2, WithFolderFits
<1>6. Unread(r, refused, w)
    BY DEF SaveMapping
<1> HIDE DEF w
<1> QED
    BY <1>3, <1>4, <1>5, <1>6, UnreadMove

\* The row that is written has both its fields.
LEMMA FinalRowTyped ==
    ASSUME NEW q \in Request
    PROVE  FinalRow(q) \in MetaRow
<1>1. q.read \in MetaRow \union {None} /\ q.desc \in Descriptions \union {None}
      /\ q.folder \in FolderIds \union {None}
    BY DEF Request
<1>2. (IF q.op \in {"create", "update"} THEN q.desc
       ELSE IF q.read = None THEN None ELSE q.read.description) \in Descriptions \union {None}
    BY <1>1 DEF MetaRow
<1>3. (IF q.op \in {"create", "file"} THEN q.folder
       ELSE IF q.read = None THEN None ELSE q.read.legacy_folder_id)
         \in FolderIds \union {None}
    BY <1>1 DEF MetaRow
<1> QED
    BY <1>2, <1>3 DEF FinalRow, MetaRow

\* Writing and deleting the sidecar row (upsert_note_meta, delete_research_note).
LEMMA InvMetaWrite ==
    ASSUME NotesInv, NEW r \in Requests, NEW refused \in BOOLEAN,
           WriteMeta(r, refused) \/ DeleteMeta(r, refused)
    PROVE  NotesInv' /\ Answered
<1>1. req[r] \in Request /\ Fits(req[r]) /\ FinalRow(req[r]) \in MetaRow
    BY OneRequest, FinalRowTyped
<1>2. TackStill
    BY NoCall DEF WriteMeta, DeleteMeta
<1>3. StoreOK'
    BY <1>1 DEF WriteMeta, DeleteMeta, NotesInv, NotesTypeOK, StoreOK
<1>4. /\ Unread(r, refused, Replied(r))
      /\ req[r].op = "create" => req[r].stage \in {"read", "write"}
    BY <1>1 DEF WriteMeta, DeleteMeta, At, Fits, Filing
<1> QED
    BY <1>2, <1>3, <1>4, DoneMove

\* The handlers of research_folder.rs, cut off after any query.
LEMMA InvFolderWrite ==
    ASSUME NotesInv, NEW r \in Requests,
           \/ AddFolder(r) \/ SetFolderName(r)
           \/ \E written \in 1 .. 3, refused \in SUBSET {1, 2} :
                ClearFolder(r, written, refused)
    PROVE  NotesInv' /\ Answered
<1>1. /\ req[r] \in Request /\ Fits(req[r])
      /\ req[r].name \in Names \union {None} /\ req[r].folder \in FolderIds \union {None}
    BY OneRequest DEF Request
<1>2. TackStill
    BY NoCall DEF AddFolder, SetFolderName, ClearFolder
<1>3. req[r].op # "create"
    BY <1>1 DEF AddFolder, SetFolderName, ClearFolder, At, Fits, Filing
<1>4. CASE AddFolder(r)
    <2>1. StoreOK'
        BY <1>1, <1>4 DEF AddFolder, NotesInv, NotesTypeOK, StoreOK
    <2> QED
        BY <1>2, <1>3, <1>4, <2>1, DoneMove, FailedMove DEF AddFolder
<1>5. CASE SetFolderName(r)
    <2>1. StoreOK'
        BY <1>1, <1>5 DEF SetFolderName, NotesInv, NotesTypeOK, StoreOK
    <2> QED
        BY <1>2, <1>3, <1>5, <2>1, DoneMove, FailedMove DEF SetFolderName
<1>6. ASSUME NEW written \in 1 .. 3, NEW refused \in SUBSET {1, 2},
             ClearFolder(r, written, refused)
      PROVE  NotesInv' /\ Answered
    <2>1. MetaWithout(req[r].folder) \in [NoteIds -> MetaRow \union {None}]
        <3>1. ASSUME NEW n \in NoteIds, meta[n] # None
              PROVE  [meta[n] EXCEPT !.legacy_folder_id = None] \in MetaRow
            BY <3>1 DEF NotesInv, NotesTypeOK, MetaRow
        <3> QED
            BY <3>1 DEF MetaWithout, NotesInv, NotesTypeOK
    <2>2. StoreOK'
        BY <1>1, <1>6, <2>1 DEF ClearFolder, NotesInv, NotesTypeOK, StoreOK
    <2>3. Goto(r, "failed") \/ \E any \in BOOLEAN : Unread(r, any, Replied(r))
        <3>1. (refused # {}) \in BOOLEAN
            OBVIOUS
        <3> QED
            BY <1>6, <3>1 DEF ClearFolder
    <2> QED
        BY <1>2, <1>3, <2>2, <2>3, DoneMove, FailedMove
<1> QED
    BY <1>4, <1>5, <1>6
-----------------------------------------------------------------------------
(* Calls of the service.                                                   *)

\* A call that fails, carried out or not.
LEMMA FailedCall ==
    ASSUME NotesInv, NEW r \in Requests, TackStill \/ UNCHANGED tackVars,
           UNCHANGED storeVars, Goto(r, "failed")
    PROVE  NotesInv' /\ Answered
BY NoCall, NoStore, FailedMove

\* The folder is made for the request's team and name.
LEMMA InvCreateTackFolder ==
    ASSUME NotesInv, NEW r \in Requests, CreateTackFolder(r)
    PROVE  NotesInv' /\ Answered
<1>1. req[r] \in Request /\ Fits(req[r]) /\ req[r].stage = "mkfolder"
    BY OneRequest DEF CreateTackFolder, At
<1>2. req[r].team \in Teams /\ req[r].name \in Names /\ req[r].op \in {"create", "file"}
    BY <1>1 DEF Request, Fits, Filing, Stages
<1>3. PICK t \in TackFolderIds :
         Call(r, create_note_folder(t, req[r].team, req[r].name),
              [req[r] EXCEPT !.stage = "map", !.tack = t])
    BY DEF CreateTackFolder
<1> DEFINE q == [req[r] EXCEPT !.stage = "map", !.tack = t]
<1>4. UNCHANGED storeVars /\ StoreOK'
    BY <1>3, NoStore DEF Call
<1>5. CASE create_note_folder(t, req[r].team, req[r].name)
    <2>1. TackStill
        BY <1>2, <1>5, FolderStill
    <2>2. CASE Become(r, q)
        <3>1. q = TackStaged(req[r], t, "map")
            BY <1>1 DEF TackStaged, Request
        <3>2. "map" \in Stages
            BY DEF Stages
        <3>3. Become(r, q)
            BY <2>2
        <3> HIDE DEF q
        <3>4. /\ q \in Request /\ q.op = req[r].op /\ q.note = req[r].note
              /\ q.stage = "map" /\ q.tack = t /\ q.folder = req[r].folder
              /\ q.team = req[r].team
            BY <1>1, <3>1, <3>2, TackStagedFields
        <3>5. Fits(q)
            BY <1>1, <1>2, <3>4, NotesAssumption DEF Fits, Filing, Stages
        <3> QED
            BY <1>4, <2>1, <3>3, <3>4, <3>5, OnwardMove DEF Filing
    <2> QED
        BY <1>3, <1>4, <2>1, <2>2, FailedCall DEF Call
<1>6. CASE UNCHANGED tackVars /\ Goto(r, "failed")
    BY <1>4, <1>6, FailedCall
<1> QED
    BY <1>3, <1>5, <1>6 DEF Call

\* The note of a creation comes from the service.
LEMMA InvCreateNote ==
    ASSUME NotesInv, NEW r \in Requests, CreateNote(r)
    PROVE  NotesInv' /\ Answered
<1>1. req[r] \in Request /\ Fits(req[r]) /\ req[r].stage = "note"
    BY OneRequest DEF CreateNote, At
<1>2. /\ req[r].op = "create" /\ req[r].team \in Teams \union {None}
      /\ req[r].tack \in TackFolderIds \union {None}
    BY <1>1 DEF Request, Fits, Filing, Stages
<1>3. PICK n \in NoteIds :
         Call(r, create_note(n, req[r].team, req[r].tack),
              [req[r] EXCEPT !.stage = "attach", !.note = n])
    BY DEF CreateNote
<1> DEFINE q == [req[r] EXCEPT !.stage = "attach", !.note = n]
<1>4. UNCHANGED storeVars /\ StoreOK'
    BY <1>3, NoStore DEF Call
<1>5. CASE create_note(n, req[r].team, req[r].tack)
    <2>1. TackStill /\ n \in tackIssued'
        BY <1>2, <1>5, CreateNoteStill
    <2>2. CASE Become(r, q)
        <3>1. q \in Request
            BY <1>1 DEF Request, Stages
        <3>2. q.op = "create" /\ q.stage = "attach" /\ q.note = n
            BY <1>1, <1>2 DEF Request
        <3>3. Become(r, q)
            BY <2>2
        <3> HIDE DEF q
        <3>4. Fits(q)
            BY <3>2, NotesAssumption DEF Fits, Filing, Stages
        <3>5. Sound(r, q)
            BY <1>2, <2>1, <3>1, <3>2, <3>4 DEF Sound
        <3> QED
            BY <1>2, <1>4, <2>1, <3>2, <3>3, <3>5, Moved
    <2> QED
        BY <1>3, <1>4, <2>1, <2>2, FailedCall DEF Call
<1>6. CASE UNCHANGED tackVars /\ Goto(r, "failed")
    BY <1>4, <1>6, FailedCall
<1> QED
    BY <1>3, <1>5, <1>6 DEF Call

\* A request whose stage alone changes after a call.
LEMMA StagedMove ==
    ASSUME NotesInv, TackStill, StoreOK', NEW r \in Requests, NEW s, Goto(r, s),
           req[r].stage \in {"attach", "file", "text", "erase"},
           s \in {"read", "unmeta", "done"}, s = "read" => req[r].op # "delete",
           s = "unmeta" => req[r].op = "delete",
           req[r].op = "create" =>
              req[r].stage = "attach"
              /\ (tackNotes'[req[r].note] = None \/ tackNotes'[req[r].note].attached)
    PROVE  NotesInv' /\ Answered
<1> DEFINE q == [req[r] EXCEPT !.stage = s]
<1>1. req[r] \in Request /\ Fits(req[r])
    BY OneRequest
<1>2. req[r].op \in {"create", "file", "update", "delete"} /\ req[r].note # None
    BY <1>1 DEF Fits, Filing, Stages, Request
<1>3. q \in Request /\ q.op = req[r].op /\ q.note = req[r].note /\ q.stage = s
    BY <1>1 DEF Request, Stages
<1>4. Become(r, q)
    BY DEF Goto
<1> HIDE DEF q
<1>5. Fits(q)
    BY <1>2, <1>3 DEF Fits, Filing, Stages
<1> QED
    BY <1>3, <1>4, <1>5, OnwardMove

\* A creation passes its attachment only when that was carried out.
LEMMA InvAttachNote ==
    ASSUME NotesInv, NEW r \in Requests, AttachNote(r)
    PROVE  NotesInv' /\ Answered
<1> DEFINE n == req[r].note
<1>1. req[r] \in Request /\ Fits(req[r]) /\ req[r].stage = "attach"
    BY OneRequest DEF AttachNote, At
<1>2. req[r].op = "create" /\ n \in NoteIds
    BY <1>1 DEF Fits, Filing, Stages, Request
<1>3. AfterAttach(req[r]) \in {"read", "done"}
    BY DEF AfterAttach
<1>4. UNCHANGED storeVars /\ StoreOK'
    BY NoStore DEF AttachNote, Call
<1>5. CASE attach(n)
    <2>1. TackStill /\ (tackNotes'[n] = None \/ tackNotes'[n].attached)
        BY <1>2, <1>5, AttachStill
    <2>2. CASE Goto(r, AfterAttach(req[r]))
        BY <1>1, <1>2, <1>3, <1>4, <2>1, <2>2, StagedMove
    <2> QED
        BY <1>4, <2>1, <2>2, FailedCall DEF AttachNote, Call, Goto
<1>6. CASE UNCHANGED tackVars /\ Goto(r, "failed")
    BY <1>4, <1>6, FailedCall
<1> QED
    BY <1>5, <1>6 DEF AttachNote, Call

\* Calls about a note that is there.
LEMMA InvNoteCall ==
    ASSUME NotesInv, NEW r \in Requests, FileNote(r) \/ UpdateText(r) \/ EraseNote(r)
    PROVE  NotesInv' /\ Answered
<1> DEFINE n == req[r].note
           t == req[r].tack
<1>1. req[r] \in Request /\ Fits(req[r]) /\ req[r].stage \in {"file", "text", "erase"}
    BY OneRequest DEF FileNote, UpdateText, EraseNote, At
<1>2. /\ req[r].op \in {"file", "update", "delete"}
      /\ req[r].stage = "file" => req[r].op = "file"
      /\ req[r].stage = "text" => req[r].op = "update"
      /\ req[r].stage = "erase" => req[r].op = "delete"
    BY <1>1 DEF Fits, Filing, Stages, Request
<1>3. n \in NoteIds /\ t \in TackFolderIds \union {None}
    BY <1>1, <1>2 DEF Fits, Request
<1>4. UNCHANGED storeVars /\ StoreOK'
    BY NoStore DEF FileNote, UpdateText, EraseNote, Call
<1>5. CASE FileNote(r)
    <2>1. update_folder(n, t) => TackStill
        BY <1>3, UpdateFolderStill
    <2>2. CASE update_folder(n, t) /\ Goto(r, "read")
        BY <1>1, <1>2, <1>4, <1>5, <2>1, <2>2, StagedMove DEF FileNote, At
    <2> QED
        BY <1>4, <1>5, <2>1, <2>2, FailedCall DEF FileNote, Call, Goto
<1>6. CASE UpdateText(r)
    <2>1. update_text(n) => TackStill
        BY NoCall DEF update_text
    <2>2. CASE update_text(n) /\ (Goto(r, "read") \/ Goto(r, "done"))
        BY <1>1, <1>2, <1>4, <1>6, <2>1, <2>2, StagedMove DEF UpdateText, At
    <2> QED
        BY <1>4, <1>6, <2>1, <2>2, FailedCall DEF UpdateText, Call, Goto
<1>7. CASE EraseNote(r)
    <2>1. delete_note(n) => TackStill
        BY <1>3, DeleteNoteStill
    <2>2. CASE delete_note(n) /\ Goto(r, "unmeta")
        BY <1>1, <1>2, <1>4, <1>7, <2>1, <2>2, StagedMove DEF EraseNote, At
    <2> QED
        BY <1>4, <1>7, <2>1, <2>2, FailedCall DEF EraseNote, Call, Goto
<1> QED
    BY <1>5, <1>6, <1>7

\* Calls whose failure is ignored.
LEMMA InvFolderCall ==
    ASSUME NotesInv, NEW r \in Requests, RenameTackFolder(r) \/ DeleteTackFolder(r)
    PROVE  NotesInv' /\ Answered
<1> DEFINE t == req[r].tack
           s == IF RenameTackFolder(r) THEN "setname" ELSE "clear"
           q == [req[r] EXCEPT !.stage = s]
<1>1. /\ req[r] \in Request /\ Fits(req[r])
      /\ RenameTackFolder(r) => req[r].stage = "retitle"
      /\ DeleteTackFolder(r) => req[r].stage = "unfolder"
    BY OneRequest DEF RenameTackFolder, DeleteTackFolder, At
<1>2. /\ t \in TackFolderIds
      /\ RenameTackFolder(r) => req[r].op = "rename" /\ req[r].name \in Names
      /\ DeleteTackFolder(r) => req[r].op = "remove"
    BY <1>1 DEF Fits, Filing, Stages, Request
<1>3. UNCHANGED storeVars /\ StoreOK'
    BY NoStore DEF RenameTackFolder, DeleteTackFolder, TryCall
<1>4. TackStill
    BY <1>2, NoCall, FolderStill, DeleteFolderStill
    DEF RenameTackFolder, DeleteTackFolder, TryCall
<1>5. Become(r, q)
    BY <1>1 DEF RenameTackFolder, DeleteTackFolder, TryCall, Goto
<1>6. /\ s \in {"setname", "clear"}
      /\ s = "setname" => req[r].op = "rename"
      /\ s = "clear" => req[r].op = "remove"
    BY <1>2
<1> HIDE DEF s
<1>7. /\ q \in Request /\ q.op = req[r].op /\ q.note = req[r].note /\ q.stage = s
      /\ q.folder = req[r].folder /\ q.name = req[r].name
    BY <1>1, <1>6 DEF Request, Stages
<1> HIDE DEF q
<1>8. Fits(q) /\ q.op # "create"
    BY <1>1, <1>6, <1>7 DEF Fits, Filing, Stages
<1> QED
    BY <1>3, <1>4, <1>5, <1>7, <1>8, OnwardMove
-----------------------------------------------------------------------------
(* New requests.                                                           *)

\* A request that comes in changes nothing but what it met.
LEMMA Asked ==
    ASSUME NotesInv, NEW r \in Requests, NEW q \in Request, Fits(q), q.stage \in Stages,
           q.op = "create" => q.stage = "tree", Ask(r, q)
    PROVE  NotesInv' /\ Answered
<1> DEFINE w == [q EXCEPT !.undisturbed = (Active = {})]
           o(p) == [req[p] EXCEPT !.undisturbed = FALSE]
<1>1. w \in Request /\ Fits(w) /\ w.op = q.op /\ w.stage = q.stage
    BY NotAlone
<1>2. ASSUME NEW p \in Requests
      PROVE  /\ o(p) \in Request /\ Fits(o(p)) /\ o(p).op = req[p].op
             /\ o(p).stage = req[p].stage /\ o(p).note = req[p].note
    BY OneRequest, NotAlone
<1>3. req' = [p \in Requests |-> IF p = r THEN w ELSE Settled(o(p))]
    BY DEF Ask
<1>4. req[r].stage = "idle" /\ UNCHANGED <<tackVars, storeVars>>
    BY DEF Ask
<1> HIDE DEF w, o
<1>5. ASSUME NEW p \in Requests
      PROVE  /\ Settled(o(p)) \in Request /\ Fits(Settled(o(p)))
             /\ Settled(o(p)).stage = req[p].stage
             /\ Settled(o(p)).op # "none" => Settled(o(p)) = o(p)
    BY <1>2, SettledFits
<1>6. RequestsOK'
    BY <1>1, <1>3, <1>5 DEF RequestsOK
<1>7. NotesTypeOK' /\ IssuedFirst'
    BY <1>4, <1>6
    DEF NotesInv, NotesTypeOK, TackTypeOK, IssuedFirst, RequestsOK, tackVars, storeVars
<1>8. Reached'
    <2>1. ASSUME NEW p \in Requests
          PROVE  /\ req'[p].op = "create" /\ req'[p].stage \in {"attach", "read", "write"} =>
                       p # r /\ req'[p].note = req[p].note /\ req'[p].stage = req[p].stage
                       /\ req[p].op = "create"
        BY <1>1, <1>2, <1>3, <1>5
    <2> QED
        BY <1>4, <2>1 DEF NotesInv, Reached, tackVars
<1>9. Answered
    BY <1>1, <1>3, <1>4, <1>5 DEF Answered, Stages
<1> QED
    BY <1>6, <1>7, <1>8, <1>9 DEF NotesInv

\* The requests clients make.
LEMMA InvAsk ==
    ASSUME NotesInv, NEW r \in Requests, AskSomething(r)
    PROVE  NotesInv' /\ Answered
<1>1. born \subseteq FolderIds
    BY DEF NotesInv, NotesTypeOK
<1>2. CASE AskCreateNote(r)
    <2>1. PICK team \in Teams \union {None}, f \in FolderIds \union {None},
               d \in Descriptions \union {None} :
             Ask(r, [Blank EXCEPT !.op = "create", !.stage = "tree", !.team = team,
                                  !.folder = f, !.desc = d])
        BY <1>1, <1>2 DEF AskCreateNote
    <2> DEFINE q == [Blank EXCEPT !.op = "create", !.stage = "tree", !.team = team,
                                  !.folder = f, !.desc = d]
    <2>2. q \in Request /\ q.op = "create" /\ q.stage = "tree"
        BY DEF Blank, Request, Stages
    <2>3. Ask(r, q)
        BY <2>1
    <2> HIDE DEF q
    <2>4. Fits(q) /\ q.stage \in Stages
        BY <2>2 DEF Fits, Filing, Stages
    <2> QED
        BY <2>2, <2>3, <2>4, Asked
<1>3. CASE AskUpdateNote(r)
    <2>1. PICK n \in NoteIds, d \in Descriptions \union {None} :
             Ask(r, [Blank EXCEPT !.op = "update", !.stage = "text", !.note = n, !.desc = d])
        BY <1>3 DEF AskUpdateNote
    <2> DEFINE q == [Blank EXCEPT !.op = "update", !.stage = "text", !.note = n, !.desc = d]
    <2>2. q \in Request /\ q.op = "update" /\ q.stage = "text" /\ q.note = n
        BY DEF Blank, Request, Stages
    <2>3. Ask(r, q)
        BY <2>1
    <2> HIDE DEF q
    <2>4. Fits(q) /\ q.stage \in Stages
        BY <2>2, NotesAssumption DEF Fits, Filing, Stages
    <2> QED
        BY <2>2, <2>3, <2>4, Asked
<1>4. CASE AskSetNoteFolder(r)
    <2>1. PICK n \in NoteIds, f \in FolderIds \union {None} :
             Ask(r, [Blank EXCEPT !.op = "file", !.stage = "get", !.note = n, !.folder = f])
        BY <1>1, <1>4 DEF AskSetNoteFolder
    <2> DEFINE q == [Blank EXCEPT !.op = "file", !.stage = "get", !.note = n, !.folder = f]
    <2>2. q \in Request /\ q.op = "file" /\ q.stage = "get" /\ q.note = n
        BY DEF Blank, Request, Stages
    <2>3. Ask(r, q)
        BY <2>1
    <2> HIDE DEF q
    <2>4. Fits(q) /\ q.stage \in Stages
        BY <2>2, NotesAssumption DEF Fits, Filing, Stages
    <2> QED
        BY <2>2, <2>3, <2>4, Asked
<1>5. CASE AskDeleteNote(r)
    <2>1. PICK n \in NoteIds :
             Ask(r, [Blank EXCEPT !.op = "delete", !.stage = "erase", !.note = n])
        BY <1>5 DEF AskDeleteNote
    <2> DEFINE q == [Blank EXCEPT !.op = "delete", !.stage = "erase", !.note = n]
    <2>2. q \in Request /\ q.op = "delete" /\ q.stage = "erase" /\ q.note = n
        BY DEF Blank, Request, Stages
    <2>3. Ask(r, q)
        BY <2>1
    <2> HIDE DEF q
    <2>4. Fits(q) /\ q.stage \in Stages
        BY <2>2, NotesAssumption DEF Fits, Filing, Stages
    <2> QED
        BY <2>2, <2>3, <2>4, Asked
<1>6. CASE AskCreateFolder(r)
    <2>1. PICK m \in Names :
             Ask(r, [Blank EXCEPT !.op = "addfolder", !.stage = "add", !.name = m])
        BY <1>6 DEF AskCreateFolder
    <2> DEFINE q == [Blank EXCEPT !.op = "addfolder", !.stage = "add", !.name = m]
    <2>2. q \in Request /\ q.op = "addfolder" /\ q.stage = "add" /\ q.name = m
        BY DEF Blank, Request, Stages
    <2>3. Ask(r, q)
        BY <2>1
    <2> HIDE DEF q
    <2>4. Fits(q) /\ q.stage \in Stages
        BY <2>2, NotesAssumption DEF Fits, Filing, Stages
    <2> QED
        BY <2>2, <2>3, <2>4, Asked
<1>7. CASE AskRenameFolder(r)
    <2>1. PICK f \in FolderIds, m \in Names :
             Ask(r, [Blank EXCEPT !.op = "rename", !.stage = "exists", !.folder = f,
                                  !.name = m])
        BY <1>1, <1>7 DEF AskRenameFolder
    <2> DEFINE q == [Blank EXCEPT !.op = "rename", !.stage = "exists", !.folder = f,
                                  !.name = m]
    <2>2. /\ q \in Request /\ q.op = "rename" /\ q.stage = "exists" /\ q.folder = f
          /\ q.name = m
        BY DEF Blank, Request, Stages
    <2>3. Ask(r, q)
        BY <2>1
    <2> HIDE DEF q
    <2>4. Fits(q) /\ q.stage \in Stages
        BY <2>2, NotesAssumption DEF Fits, Filing, Stages
    <2> QED
        BY <2>2, <2>3, <2>4, Asked
<1>8. CASE AskDeleteFolder(r)
    <2>1. PICK f \in FolderIds :
             Ask(r, [Blank EXCEPT !.op = "remove", !.stage = "exists", !.folder = f])
        BY <1>1, <1>8 DEF AskDeleteFolder
    <2> DEFINE q == [Blank EXCEPT !.op = "remove", !.stage = "exists", !.folder = f]
    <2>2. q \in Request /\ q.op = "remove" /\ q.stage = "exists" /\ q.folder = f
        BY DEF Blank, Request, Stages
    <2>3. Ask(r, q)
        BY <2>1
    <2> HIDE DEF q
    <2>4. Fits(q) /\ q.stage \in Stages
        BY <2>2, NotesAssumption DEF Fits, Filing, Stages
    <2> QED
        BY <2>2, <2>3, <2>4, Asked
<1> QED
    BY <1>2, <1>3, <1>4, <1>5, <1>6, <1>7, <1>8 DEF AskSomething
-----------------------------------------------------------------------------
(* The specification.                                                      *)

\* Nothing is there at the start.
LEMMA NotesInitInv == NotesInit => NotesInv
<1> SUFFICES ASSUME NotesInit PROVE NotesInv
    OBVIOUS
<1>1. Blank \in Request /\ Blank.op = "none" /\ Blank.stage = "idle"
    BY DEF Blank, Request
<1>2. Fits(Blank)
    BY <1>1 DEF Fits, Filing, Stages
<1>3. RequestsOK
    BY <1>1, <1>2 DEF NotesInit, RequestsOK
<1>4. NotesTypeOK
    BY <1>3 DEF NotesInit, TackInit, NotesTypeOK, TackTypeOK, RequestsOK
<1>5. IssuedFirst /\ Reached
    BY <1>1 DEF NotesInit, TackInit, IssuedFirst, Reached
<1> QED
    BY <1>3, <1>4, <1>5 DEF NotesInv

\* The invariant is inductive, and each step answers only creations that are
\* attached.
LEMMA NotesNextInv == NotesInv /\ [NotesNext]_notesVars => NotesInv' /\ Answered
<1> SUFFICES ASSUME NotesInv, [NotesNext]_notesVars
             PROVE  NotesInv' /\ Answered
    OBVIOUS
<1>1. CASE NotesNext
    <2>1. PICK r \in Requests : AskSomething(r) \/ DbStep(r) \/ TackStep(r) \/ Drop(r)
        BY <1>1 DEF NotesNext
    <2>2. CASE AskSomething(r)
        BY <2>2, InvAsk
    <2>3. CASE DbStep(r)
        BY <2>3, InvReading, InvSaveMapping, InvMetaWrite, InvFolderWrite DEF DbStep
    <2>4. CASE TackStep(r)
        BY <2>4, InvCreateTackFolder, InvCreateNote, InvAttachNote, InvReading, InvNoteCall,
           InvFolderCall DEF TackStep
    <2>5. CASE Drop(r)
        BY <2>5, InvReading
    <2> QED
        BY <2>1, <2>2, <2>3, <2>4, <2>5
<1>2. CASE UNCHANGED notesVars
    <2>1. NotesInv'
        BY <1>2 DEF NotesInv, NotesTypeOK, TackTypeOK, RequestsOK, IssuedFirst, Reached,
                    notesVars, tackVars, storeVars
    <2>2. Answered
        BY <1>2 DEF Answered, notesVars
    <2> QED
        BY <2>1, <2>2
<1> QED
    BY <1>1, <1>2

\* A mapping once saved is taken away by the deletion of its folder only.
LEMMA MappingStep ==
    ASSUME NotesInv, [NotesNext]_notesVars, NEW f \in FolderIds, mapping[f] # None
    PROVE  \/ mapping'[f] = mapping[f]
           \/ /\ mapping'[f] = None
              /\ \E r \in Requests : /\ req[r].op = "remove" /\ req[r].folder = f
                                     /\ req[r].stage = "clear"
<1>1. CASE UNCHANGED mapping
    BY <1>1
<1>2. ASSUME NEW r \in Requests, NEW refused \in BOOLEAN, SaveMapping(r, refused)
      PROVE  mapping'[f] = mapping[f]
    BY <1>2 DEF SaveMapping, MappingSaved, NotesInv, NotesTypeOK
<1>3. ASSUME NEW r \in Requests, NEW written \in 1 .. 3, NEW refused \in SUBSET {1, 2},
             ClearFolder(r, written, refused), mapping'[f] # mapping[f]
      PROVE  /\ mapping'[f] = None
             /\ req[r].op = "remove" /\ req[r].folder = f /\ req[r].stage = "clear"
    <2>1. req[r] \in Request /\ Fits(req[r]) /\ req[r].stage = "clear"
        BY <1>3, OneRequest DEF ClearFolder, At
    <2>2. req[r].op = "remove"
        BY <2>1 DEF Request, Fits, Filing, Stages
    <2> QED
        BY <1>3, <2>1, <2>2 DEF ClearFolder, NotesInv, NotesTypeOK
<1>4. ASSUME ~ UNCHANGED mapping
      PROVE  \E r \in Requests :
                \/ \E refused \in BOOLEAN : SaveMapping(r, refused)
                \/ \E written \in 1 .. 3, refused \in SUBSET {1, 2} :
                     ClearFolder(r, written, refused)
    <2>1. PICK r \in Requests : AskSomething(r) \/ DbStep(r) \/ TackStep(r) \/ Drop(r)
        BY <1>4 DEF NotesNext, notesVars, storeVars
    <2>2. ~ AskSomething(r)
        BY <1>4 DEF AskSomething, AskCreateNote, AskUpdateNote, AskSetNoteFolder,
                    AskDeleteNote, AskCreateFolder, AskRenameFolder, AskDeleteFolder, Ask,
                    storeVars
    <2>3. ~ TackStep(r) /\ ~ Drop(r)
        BY <1>4 DEF TackStep, CreateTackFolder, CreateNote, AttachNote, GetNote, FileNote,
                    UpdateText, EraseNote, RenameTackFolder, DeleteTackFolder, Call,
                    TryCall, Drop, storeVars
    <2> QED
        BY <1>4, <2>1, <2>2, <2>3
        DEF DbStep, ResolveTree, LookupMapping, ReadFolderName, ReadMeta, WriteMeta,
            DeleteMeta, AddFolder, FindFolder, FindMapped, SetFolderName, storeVars
<1> QED
    BY <1>1, <1>2, <1>3, <1>4

\* The invariant of the requests and the two stores.
THEOREM NotesInvCorrect == NotesSpec => []NotesInv
<1>1. NotesInv /\ [NotesNext]_notesVars => NotesInv'
    BY NotesNextInv
<1> QED
    BY NotesInitInv, <1>1, PTL DEF NotesSpec

\* Type correctness of notes, folders and requests (research_note.rs,
\* research_folder.rs, tack_client.rs).
THEOREM NotesTypeCorrect == NotesSpec => []NotesTypeOK
<1>1. NotesInv => NotesTypeOK
    BY DEF NotesInv
<1> QED
    BY NotesInvCorrect, <1>1, PTL

\* A note whose creation is answered is attached, unless it was deleted, for any
\* number of requests, failures and dropped requests (create_research_note).
THEOREM AnsweredNoteAttachedCorrect == NotesSpec => AnsweredNoteAttached
<1>1. NotesInv /\ [NotesNext]_notesVars =>
        [\A r \in Requests :
           LET n == req[r].note IN
           req[r].op = "create" /\ req[r].stage # "done" /\ req'[r].stage = "done" =>
              tackNotes'[n] = None \/ tackNotes'[n].attached]_notesVars
    BY NotesNextInv DEF Answered
<1> QED
    BY NotesInvCorrect, <1>1, PTL DEF NotesSpec, AnsweredNoteAttached

\* A mapping is replaced by no later one: of the requests that each made a folder
\* at the service, the first saved wins, until the Clann folder is deleted
\* (resolve_or_create_tack_folder, delete_folder).
THEOREM MappingKeptCorrect == NotesSpec => MappingKept
<1>1. NotesInv /\ [NotesNext]_notesVars =>
        [\A f \in FolderIds :
           mapping[f] # None =>
              \/ mapping'[f] = mapping[f]
              \/ /\ mapping'[f] = None
                 /\ \E r \in Requests : /\ req[r].op = "remove" /\ req[r].folder = f
                                        /\ req[r].stage = "clear"]_notesVars
    BY MappingStep
<1> QED
    BY NotesInvCorrect, <1>1, PTL DEF NotesSpec, MappingKept
=============================================================================
