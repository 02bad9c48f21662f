------------------------------ MODULE NotesSync ------------------------------
(***************************************************************************)
(* Research notes and folders (handlers/research_note.rs,                  *)
(* handlers/research_folder.rs): a note lives in the external service, its *)
(* description and Clann folder in the sidecar table tack_note_meta, and   *)
(* tack_migration_state maps Clann folders to the service's folders.       *)
(*                                                                         *)
(* A request is a record with the stage it has reached and what it has     *)
(* read so far. A stage is one critical section of the connection's mutex  *)
(* or one call of the service: between stages other requests get in. A     *)
(* request may be dropped at every stage; it is under way until what it    *)
(* last asked of the service or the database is over. A statement whose    *)
(* result nobody looks at may have been refused.                           *)
(***************************************************************************)
EXTENDS TackClient, Naturals, FiniteSets

CONSTANTS
    MaxRequests,    \* bound: requests made
    FolderIds,      \* ids of research_folder
    Descriptions,
    Unfiled,        \* the name of a folder made for an unknown Clann folder
    MaxActive       \* bound: requests under way at a time

Requests == 1 .. MaxRequests

ASSUME NotesAssumption ==
    /\ MaxRequests \in Nat
    /\ Unfiled \in Names
    /\ None \notin NoteIds \union TackFolderIds \union Teams \union Names
    /\ None \notin FolderIds \union Descriptions
    /\ None \notin [description : Descriptions \union {None},
                    legacy_folder_id : FolderIds \union {None}]
    /\ None \notin TackNote \union TackNoteFolder
    /\ NoteIds \intersect TackFolderIds = {}

VARIABLES
    folders,        \* research_folder: the name of each folder, or None
    born,           \* folder ids handed out
    mapping,        \* tack_migration_state, kind 'folder'
    meta,           \* tack_note_meta
    req             \* the requests

storeVars == <<folders, born, mapping, meta>>
notesVars == <<tackVars, storeVars, req>>

MetaRow == [description : Descriptions \union {None},
            legacy_folder_id : FolderIds \union {None}]

Stages ==
    {"tree", "lookup", "name", "map", "read", "write", "unmeta", "exists", "mapped",
     "setname", "clear", "add"}                              \* of the connection
    \union {"note", "attach", "get", "file", "text", "erase", "mkfolder",
            "retitle", "unfolder"}                           \* of the service

Request ==
    [op : {"none", "create", "update", "file", "delete", "addfolder", "rename",
           "remove"},
     stage : Stages \union {"idle", "done", "failed"},
     note : NoteIds \union {None}, team : Teams \union {None},
     folder : FolderIds \union {None}, desc : Descriptions \union {None},
     name : Names \union {None}, tack : TackFolderIds \union {None},
     read : MetaRow \union {None}, undisturbed : BOOLEAN]

Blank ==
    [op |-> "none", stage |-> "idle", note |-> None, team |-> None,
     folder |-> None, desc |-> None, name |-> None, tack |-> None,
     read |-> None, undisturbed |-> FALSE]

NotesTypeOK ==
    /\ TackTypeOK
    /\ folders \in [FolderIds -> Names \union {None}]
    /\ born \subseteq FolderIds
    /\ mapping \in [FolderIds -> TackFolderIds \union {None}]
    /\ meta \in [NoteIds -> MetaRow \union {None}]
    /\ req \in [Requests -> Request]

NotesInit ==
    /\ TackInit
    /\ folders = [f \in FolderIds |-> None]
    /\ born = {}
    /\ mapping = [f \in FolderIds |-> None]
    /\ meta = [n \in NoteIds |-> None]
    /\ req = [r \in Requests |-> Blank]

Active == {r \in Requests : req[r].stage \in Stages}

-----------------------------------------------------------------------------
(* Requests moving through their stages.                                   *)

\* What is kept of a request that failed, or was answered after a disturbance.
Settled(q) ==
    CASE q.stage = "failed" -> [Blank EXCEPT !.stage = "failed"]
      [] q.stage = "done" /\ ~ q.undisturbed -> [Blank EXCEPT !.stage = "done"]
      [] OTHER -> q

\* Request r comes in as q; `undisturbed` says that no other was under way since, and
\* that the database refused it no statement. Requests are numbered in the order they
\* come.
Ask(r, q) ==
    /\ req[r].stage = "idle"
    /\ \A p \in 1 .. (r - 1) : req[p].stage # "idle"
    /\ Cardinality(Active) < MaxActive
    /\ req' = [p \in Requests |->
                 IF p = r THEN [q EXCEPT !.undisturbed = (Active = {})]
                 ELSE Settled([req[p] EXCEPT !.undisturbed = FALSE])]
    /\ UNCHANGED <<tackVars, storeVars>>

At(r, s) == req[r].stage = s

Become(r, q) == req' = [req EXCEPT ![r] = Settled(q)]

Goto(r, s) == Become(r, [req[r] EXCEPT !.stage = s])

\* The handler goes on as q, unaware of whether the database refused a statement.
Unread(r, refused, q) ==
    Become(r, [q EXCEPT !.undisturbed = req[r].undisturbed /\ ~ refused])

\* A call of the service: carried out, carried out with the answer lost (or nobody
\* left to await it), or not carried out (refused, unreachable).
Call(r, Effect, q) ==
    /\ \/ Effect /\ Become(r, q)
       \/ Effect /\ Goto(r, "failed")
       \/ UNCHANGED tackVars /\ Goto(r, "failed")
    /\ UNCHANGED storeVars

\* A call whose failure the handler ignores.
TryCall(r, Effect, s) ==
    /\ Effect \/ UNCHANGED tackVars
    /\ Goto(r, s)
    /\ UNCHANGED storeVars

-----------------------------------------------------------------------------
(* What clients ask for. A client knows a note's id from the tree's list.  *)

Listed(n) == tackNotes[n] # None /\ tackNotes[n].attached

AskCreateNote(r) ==
    \E team \in Teams \union {None}, f \in born \union {None},
       d \in Descriptions \union {None} :
        Ask(r, [Blank EXCEPT !.op = "create", !.stage = "tree", !.team = team,
                             !.folder = f, !.desc = d])

AskUpdateNote(r) ==
    \E n \in NoteIds, d \in Descriptions \union {None} :
        /\ Listed(n)
        /\ Ask(r, [Blank EXCEPT !.op = "update", !.stage = "text", !.note = n,
                                !.desc = d])

AskSetNoteFolder(r) ==
    \E n \in NoteIds, f \in born \union {None} :
        /\ Listed(n)
        /\ Ask(r, [Blank EXCEPT !.op = "file", !.stage = "get", !.note = n,
                                !.folder = f])

AskDeleteNote(r) ==
    \E n \in NoteIds :
        /\ Listed(n)
        /\ Ask(r, [Blank EXCEPT !.op = "delete", !.stage = "erase", !.note = n])

AskCreateFolder(r) ==
    \E m \in Names :
        Ask(r, [Blank EXCEPT !.op = "addfolder", !.stage = "add", !.name = m])

AskRenameFolder(r) ==
    \E f \in born, m \in Names :
        Ask(r, [Blank EXCEPT !.op = "rename", !.stage = "exists", !.folder = f,
                             !.name = m])

AskDeleteFolder(r) ==
    \E f \in born :
        Ask(r, [Blank EXCEPT !.op = "remove", !.stage = "exists", !.folder = f])

-----------------------------------------------------------------------------
(* research_note.rs                                                        *)

\* Only a team note is filed in a folder of the service.
ResolveTree(r) ==
    /\ At(r, "tree")
    /\ Goto(r, IF req[r].team # None /\ req[r].folder # None THEN "lookup" ELSE "note")
    /\ UNCHANGED <<tackVars, storeVars>>

WithFolder(r, t) ==
    [req[r] EXCEPT !.tack = t,
                   !.stage = IF req[r].op = "create" THEN "note" ELSE "file"]

LookupMapping(r) ==
    /\ At(r, "lookup")
    /\ IF mapping[req[r].folder] # None
       THEN Become(r, WithFolder(r, mapping[req[r].folder]))
       ELSE Goto(r, "name")
    /\ UNCHANGED <<tackVars, storeVars>>

ReadFolderName(r) ==
    LET f == req[r].folder IN
    /\ At(r, "name")
    /\ Become(r, [req[r] EXCEPT !.stage = "mkfolder",
                                !.name = IF folders[f] = None THEN Unfiled ELSE folders[f]])
    /\ UNCHANGED <<tackVars, storeVars>>

CreateTackFolder(r) ==
    /\ At(r, "mkfolder")
    /\ \E t \in TackFolderIds :
         Call(r, create_note_folder(t, req[r].team, req[r].name),
              [req[r] EXCEPT !.stage = "map", !.tack = t])

\* Mutant: the later of two creations replaces the mapping.
MappingUpserted(f, t) == [mapping EXCEPT ![f] = t]

\* CREATE under a unique index; nobody looks at its result.
MappingSaved(f, t) == IF mapping[f] = None THEN [mapping EXCEPT ![f] = t] ELSE mapping

SaveMapping(r, refused) ==
    /\ At(r, "map")
    /\ mapping' = IF refused THEN mapping ELSE MappingSaved(req[r].folder, req[r].tack)
    /\ Unread(r, refused, WithFolder(r, req[r].tack))
    /\ UNCHANGED <<tackVars, folders, born, meta>>

CreateNote(r) ==
    /\ At(r, "note")
    /\ \E n \in NoteIds :
         Call(r, create_note(n, req[r].team, req[r].tack),
              [req[r] EXCEPT !.stage = "attach", !.note = n])

AfterAttach(q) == IF q.desc # None \/ q.folder # None THEN "read" ELSE "done"

\* Mutant: a failed attachment is passed over.
AttachBestEffort(r) ==
    /\ At(r, "attach")
    /\ TryCall(r, attach(req[r].note), AfterAttach(req[r]))

AttachNote(r) ==
    /\ At(r, "attach")
    /\ Call(r, attach(req[r].note), [req[r] EXCEPT !.stage = AfterAttach(req[r])])

GetNote(r) ==
    LET note == tackNotes[req[r].note] IN
    /\ At(r, "get")
    /\ \/ /\ note # None
          /\ Become(r, [req[r] EXCEPT
                          !.team = note.team,
                          !.stage = CASE note.team = None -> "read"
                                      [] note.team # None /\ req[r].folder # None -> "lookup"
                                      [] OTHER -> "file"])
       \/ Goto(r, "failed")
    /\ UNCHANGED <<tackVars, storeVars>>

FileNote(r) ==
    /\ At(r, "file")
    /\ Call(r, update_folder(req[r].note, req[r].tack), [req[r] EXCEPT !.stage = "read"])

UpdateText(r) ==
    /\ At(r, "text")
    /\ Call(r, update_text(req[r].note),
            [req[r] EXCEPT !.stage = IF req[r].desc # None THEN "read" ELSE "done"])

ReadMeta(r) ==
    /\ At(r, "read")
    /\ Become(r, [req[r] EXCEPT !.stage = "write", !.read = meta[req[r].note]])
    /\ UNCHANGED <<tackVars, storeVars>>

\* Mutant: a field given as null counts as not given.
FinalRowUnlessNone(q) ==
    [description |-> IF q.desc # None \/ q.read = None THEN q.desc ELSE q.read.description,
     legacy_folder_id |-> IF q.folder # None \/ q.read = None THEN q.folder
                          ELSE q.read.legacy_folder_id]

\* Both fields are written: the one not given is what was read a stage ago.
FinalRow(q) ==
    [description |-> IF q.op \in {"create", "update"} THEN q.desc
                     ELSE IF q.read = None THEN None ELSE q.read.description,
     legacy_folder_id |-> IF q.op \in {"create", "file"} THEN q.folder
                          ELSE IF q.read = None THEN None ELSE q.read.legacy_folder_id]

Replied(r) == [req[r] EXCEPT !.stage = "done"]

\* UPDATE, or CREATE for want of a row; nobody looks at the result of the CREATE.
WriteMeta(r, refused) ==
    LET n == req[r].note IN
    /\ At(r, "write")
    /\ refused => meta[n] = None
    /\ meta' = IF refused THEN meta ELSE [meta EXCEPT ![n] = FinalRow(req[r])]
    /\ Unread(r, refused, Replied(r))
    /\ UNCHANGED <<tackVars, folders, born, mapping>>

EraseNote(r) ==
    /\ At(r, "erase")
    /\ Call(r, delete_note(req[r].note), [req[r] EXCEPT !.stage = "unmeta"])

\* Any error is discarded.
DeleteMeta(r, refused) ==
    /\ At(r, "unmeta")
    /\ meta' = IF refused THEN meta ELSE [meta EXCEPT ![req[r].note] = None]
    /\ Unread(r, refused, Replied(r))
    /\ UNCHANGED <<tackVars, folders, born, mapping>>

-----------------------------------------------------------------------------
(* research_folder.rs                                                      *)

\* unique_folder_name, for the folders of one user.
NameFree(f, m) == \A g \in FolderIds \ {f} : folders[g] # m

\* Refused for the name (and here for want of ids).
AddFolder(r) ==
    /\ At(r, "add")
    /\ \/ \E f \in FolderIds \ born :
            /\ NameFree(f, req[r].name)
            /\ folders' = [folders EXCEPT ![f] = req[r].name]
            /\ born' = born \union {f}
            /\ Goto(r, "done")
       \/ /\ born = FolderIds \/ \E f \in FolderIds : folders[f] = req[r].name
          /\ Goto(r, "failed")
          /\ UNCHANGED <<folders, born>>
    /\ UNCHANGED <<tackVars, mapping, meta>>

FindFolder(r) ==
    /\ At(r, "exists")
    /\ Goto(r, IF folders[req[r].folder] # None THEN "mapped" ELSE "failed")
    /\ UNCHANGED <<tackVars, storeVars>>

FindMapped(r) ==
    LET t == mapping[req[r].folder]
        next == IF req[r].op = "rename" THEN <<"retitle", "setname">>
                ELSE <<"unfolder", "clear">>
    IN  /\ At(r, "mapped")
        /\ Become(r, [req[r] EXCEPT !.tack = t,
                                    !.stage = IF t # None THEN next[1] ELSE next[2]])
        /\ UNCHANGED <<tackVars, storeVars>>

RenameTackFolder(r) ==
    /\ At(r, "retitle")
    /\ TryCall(r, rename_note_folder(req[r].tack, req[r].name), "setname")

SetFolderName(r) ==
    LET f == req[r].folder IN
    /\ At(r, "setname")
    /\ IF folders[f] # None /\ NameFree(f, req[r].name)
       THEN folders' = [folders EXCEPT ![f] = req[r].name] /\ Goto(r, "done")
       ELSE UNCHANGED folders /\ Goto(r, "failed")
    /\ UNCHANGED <<tackVars, born, mapping, meta>>

DeleteTackFolder(r) ==
    /\ At(r, "unfolder")
    /\ TryCall(r, delete_note_folder(req[r].tack), "clear")

MetaWithout(f) ==
    [n \in NoteIds |-> IF meta[n] # None /\ meta[n].legacy_folder_id = f
                       THEN [meta[n] EXCEPT !.legacy_folder_id = None]
                       ELSE meta[n]]

\* Three queries; the request may be dropped after each of them, and the first two may
\* be refused without anyone looking.
ClearFolder(r, written, refused) ==
    LET f == req[r].folder IN
    /\ At(r, "clear")
    /\ meta' = IF 1 \in refused THEN meta ELSE MetaWithout(f)
    /\ mapping' = IF written >= 2 /\ 2 \notin refused THEN [mapping EXCEPT ![f] = None]
                  ELSE mapping
    /\ folders' = IF written >= 3 THEN [folders EXCEPT ![f] = None] ELSE folders
    /\ IF written = 3 THEN Unread(r, refused # {}, Replied(r)) ELSE Goto(r, "failed")
    /\ UNCHANGED <<tackVars, born>>

\* The client hangs up, the database fails, or the process ends, and nothing the request
\* asked for is still to come.
Drop(r) ==
    /\ r \in Active
    /\ Goto(r, "failed")
    /\ UNCHANGED <<tackVars, storeVars>>

-----------------------------------------------------------------------------

AskSomething(r) ==
    \/ AskCreateNote(r) \/ AskUpdateNote(r) \/ AskSetNoteFolder(r) \/ AskDeleteNote(r)
    \/ AskCreateFolder(r) \/ AskRenameFolder(r) \/ AskDeleteFolder(r)

DbStep(r) ==
    \/ ResolveTree(r) \/ LookupMapping(r) \/ ReadFolderName(r) \/ ReadMeta(r)
    \/ AddFolder(r) \/ FindFolder(r) \/ FindMapped(r) \/ SetFolderName(r)
    \/ \E refused \in BOOLEAN :
         SaveMapping(r, refused) \/ WriteMeta(r, refused) \/ DeleteMeta(r, refused)
    \/ \E written \in 1 .. 3, refused \in SUBSET {1, 2} : ClearFolder(r, written, refused)

TackStep(r) ==
    \/ CreateTackFolder(r) \/ CreateNote(r) \/ AttachNote(r) \/ GetNote(r)
    \/ FileNote(r) \/ UpdateText(r) \/ EraseNote(r)
    \/ RenameTackFolder(r) \/ DeleteTackFolder(r)

NotesNext ==
    \E r \in Requests : AskSomething(r) \/ DbStep(r) \/ TackStep(r) \/ Drop(r)

NotesSpec == NotesInit /\ [][NotesNext]_notesVars

-----------------------------------------------------------------------------
(* Properties.                                                             *)

\* A note whose creation is answered 201 appears in its tree, unless somebody
\* deleted it (create_research_note attaches before it answers).
AnsweredNoteAttached ==
    [][\A r \in Requests :
         LET n == req[r].note IN
         req[r].op = "create" /\ req[r].stage # "done" /\ req'[r].stage = "done" =>
            tackNotes'[n] = None \/ tackNotes'[n].attached]_notesVars

\* A Clann folder, once mapped, keeps its folder of the service until the folder
\* is deleted: of two requests that both made one, the later mapping is refused.
MappingKept ==
    [][\A f \in FolderIds :
         mapping[f] # None =>
            \/ mapping'[f] = mapping[f]
            \/ /\ mapping'[f] = None
               /\ \E r \in Requests : /\ req[r].op = "remove" /\ req[r].folder = f
                                      /\ req[r].stage = "clear"]_notesVars

LoneFilingAgrees(q) ==
    q.op \in {"create", "file"} =>
        /\ q.folder # None => meta[q.note] # None
        /\ meta[q.note] # None => meta[q.note].legacy_folder_id = q.folder
        /\ tackNotes[q.note].team # None =>
             tackNotes[q.note].folder_id =
                 IF q.folder = None THEN None ELSE mapping[q.folder]

LoneDeletionClean(q) ==
    /\ q.op = "delete" => tackNotes[q.note] = None /\ meta[q.note] = None
    /\ q.op = "remove" =>
         /\ folders[q.folder] = None /\ mapping[q.folder] = None
         /\ \A n \in NoteIds : meta[n] # None => meta[n].legacy_folder_id # q.folder

\* A request that was answered, met no other and had no statement refused leaves
\* the two stores in agreement about what it changed, whatever races, cut-off
\* requests, failed calls and refused statements came before it
\* (create_research_note, set_note_folder, update_research_note,
\* delete_research_note, delete_folder). Requests that overlap do not: see
\* OtherHalfKept.
LoneRequestAgrees ==
    \A r \in Requests :
        req[r].undisturbed /\ req[r].stage = "done" =>
            /\ LoneFilingAgrees(req[r])
            /\ LoneDeletionClean(req[r])
            /\ req[r].op = "update" /\ req[r].desc # None =>
                 meta[req[r].note].description = req[r].desc

\* "None for either field means leave unchanged if a row already exists"
\* (research_note.rs:163): an update that gives no folder leaves the folder of
\* the row as it is when it writes. Refuted: the row was read under another lock.
OtherHalfKept ==
    [][\A r \in Requests :
         LET n == req[r].note IN
         req[r].op = "update" /\ req[r].stage = "write" /\ req'[r].stage = "done"
             /\ meta[n] # None =>
            meta'[n].legacy_folder_id = meta[n].legacy_folder_id]_notesVars

=============================================================================
