------------------------------ MODULE TackClient ------------------------------
(***************************************************************************)
(* The external notes service (tack-server), as src/tack_client.rs calls   *)
(* it. One operator per call, saying what the service does when the call   *)
(* is carried out; that a call may be refused, or carried out and its      *)
(* answer lost, is said by the callers (NotesSync!Call). The service       *)
(* refuses a folder of another team (check_folder_in_team, named in        *)
(* research_note.rs:208) and gives every note and folder an id of its own. *)
(* Titles, bodies, authors and times are left out.                         *)
(***************************************************************************)

CONSTANTS
    NoteIds,        \* ids the service gives to notes
    TackFolderIds,  \* ids the service gives to folders
    Teams,          \* teams of trees; a personal tree has none
    Names,          \* folder names
    None            \* no value, no row

VARIABLES
    tackNotes,      \* the notes of the service
    tackFolders,    \* its folders
    tackIssued      \* ids it has given so far

tackVars == <<tackNotes, tackFolders, tackIssued>>

TackNote == [team : Teams \union {None}, folder_id : TackFolderIds \union {None},
             attached : BOOLEAN]

TackNoteFolder == [team : Teams, name : Names]

TackTypeOK ==
    /\ tackNotes \in [NoteIds -> TackNote \union {None}]
    /\ tackFolders \in [TackFolderIds -> TackNoteFolder \union {None}]
    /\ tackIssued \subseteq NoteIds \union TackFolderIds

TackInit ==
    /\ tackNotes = [n \in NoteIds |-> None]
    /\ tackFolders = [t \in TackFolderIds |-> None]
    /\ tackIssued = {}

FolderInTeam(t, team) ==
    t # None => tackFolders[t] # None /\ tackFolders[t].team = team

create_note(n, team, t) ==
    /\ n \in NoteIds \ tackIssued
    /\ FolderInTeam(t, team)
    /\ tackNotes' = [tackNotes EXCEPT
                       ![n] = [team |-> team, folder_id |-> t, attached |-> FALSE]]
    /\ tackIssued' = tackIssued \union {n}
    /\ UNCHANGED tackFolders

\* update_note without a folder: title and body only.
update_text(n) ==
    /\ tackNotes[n] # None
    /\ UNCHANGED tackVars

\* update_note with a folder; t = None unfiles the note.
update_folder(n, t) ==
    /\ tackNotes[n] # None
    /\ FolderInTeam(t, tackNotes[n].team)
    /\ tackNotes' = [tackNotes EXCEPT ![n].folder_id = t]
    /\ UNCHANGED <<tackFolders, tackIssued>>

delete_note(n) ==
    /\ tackNotes[n] # None
    /\ tackNotes' = [tackNotes EXCEPT ![n] = None]
    /\ UNCHANGED <<tackFolders, tackIssued>>

attach(n) ==
    /\ tackNotes[n] # None
    /\ tackNotes' = [tackNotes EXCEPT ![n].attached = TRUE]
    /\ UNCHANGED <<tackFolders, tackIssued>>

create_note_folder(t, team, name) ==
    /\ t \in TackFolderIds \ tackIssued
    /\ tackFolders' = [tackFolders EXCEPT ![t] = [team |-> team, name |-> name]]
    /\ tackIssued' = tackIssued \union {t}
    /\ UNCHANGED tackNotes

rename_note_folder(t, name) ==
    /\ tackFolders[t] # None
    /\ tackFolders' = [tackFolders EXCEPT ![t].name = name]
    /\ UNCHANGED <<tackNotes, tackIssued>>

\* "its notes are unfiled, not deleted"
delete_note_folder(t) ==
    /\ tackFolders[t] # None
    /\ tackFolders' = [tackFolders EXCEPT ![t] = None]
    /\ tackNotes' = [n \in NoteIds |->
                       IF tackNotes[n] # None /\ tackNotes[n].folder_id = t
                       THEN [tackNotes[n] EXCEPT !.folder_id = None]
                       ELSE tackNotes[n]]
    /\ UNCHANGED tackIssued

=============================================================================
