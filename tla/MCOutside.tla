----------------------------- MODULE MCOutside ------------------------------
(***************************************************************************)
(* The two parts of the server that keep state outside the database: notes *)
(* (in the external service) and images (in the upload directory).  They   *)
(* share nothing, so an instance explores the one or the other.  Notes     *)
(* start with one folder and one attached team note, as create_folder and  *)
(* create_research_note leave them.                                        *)
(***************************************************************************)
EXTENDS NotesSync, MediaUpload, TLC

CONSTANTS Parts, n1, f1, teamA, p1, p2, t1, alice, aliceName

VARIABLE part

MCSlots == {<<"image", p1>>, <<"life", p2>>, <<"tree", t1>>}
ByName == [p \in Proxies |-> aliceName]
OneById == [p \in Proxies |-> IF p = p1 THEN alice ELSE aliceName]
MCUserId == [u \in Uploaders |-> alice]
MCUserName == [u \in Uploaders |-> aliceName]
MCLimit == [u \in Uploaders |-> 3]

MCNotesInit ==
    /\ tackNotes = [n \in NoteIds |-> IF n = n1
                      THEN [team |-> teamA, folder_id |-> None, attached |-> TRUE]
                      ELSE None]
    /\ tackFolders = [t \in TackFolderIds |-> None]
    /\ tackIssued = {n1}
    /\ folders = [f \in FolderIds |-> IF f = f1 THEN Unfiled ELSE None]
    /\ born = {f1}
    /\ mapping = [f \in FolderIds |-> None]
    /\ meta = [n \in NoteIds |-> None]
    /\ req = [r \in Requests |-> Blank]

\* The images of two proxies, or the avatar of a tree: the others are deleted.
MCMediaInit ==
    /\ \E tree \in IF part = "media" THEN BOOLEAN ELSE {TRUE} :
         mediaRow = [s \in Slots |-> IF tree = (s[1] = "tree") THEN [ext |-> NoExt, bytes |-> 0]
                                     ELSE NoRow]
    /\ files = [s \in Slots |-> [x \in Exts |-> NoFile]]
    /\ creator = FirstCreator
    /\ upload = [k \in Uploads |-> NoUpload]

\* Ids the notes service hands out are interchangeable.
FolderSymmetry == Permutations(TackFolderIds)

MCInit == part \in Parts /\ MCNotesInit /\ MCMediaInit

MCNext ==
    \/ part = "notes" /\ NotesNext /\ UNCHANGED <<part, mediaVars>>
    \/ part = "media" /\ MediaNext /\ UNCHANGED <<part, notesVars>>

MCSpec == MCInit /\ [][MCNext]_<<part, notesVars, mediaVars>>
=============================================================================
