--------------------------- MODULE ConnectionLock ---------------------------
(***************************************************************************)
(* The mutex around the one database connection (db.rs, Db) as the         *)
(* handlers take and release it.  A handler is the sequence of its lock    *)
(* operations and of the calls that need somebody outside the process to   *)
(* answer: the notes service, or the client that sends a body.  What is    *)
(* done under the lock is the matter of the other modules.                 *)
(***************************************************************************)
EXTENDS Naturals, Sequences

CONSTANTS Requests, Kinds, Idle

ASSUME LockAssumption ==
    /\ Kinds \subseteq {"plain", "view", "note", "folder", "upload"}
    /\ Idle \notin Kinds

VARIABLES
    kind,   \* the handler a request runs, or Idle
    pc,     \* operations done
    line    \* requests for the connection, in order; the first one holds it

lockVars == <<kind, pc, line>>

Section == <<"lock", "unlock">>
Call == <<"call">>

\* Most handlers keep the connection from their first query to their last.
PlainProgram == Section

\* Mutant: a node of the view is built while its parent's query is not done.
NestedViewProgram == <<"lock", "lock", "unlock", "unlock">>

\* get_family_tree: one section per query, of which a root and a node are enough.
ViewProgram == Section \o Section

\* create_research_note into a folder that tack does not know yet: tree, mapping,
\* name, [folder at tack], mapping, [note and attachment], sidecar twice.
NoteProgram ==
    Section \o Section \o Section \o Call \o Section \o Call \o Section \o Section

\* Mutant: the connection is kept while tack is called.
FolderProgramLocked == <<"lock", "call", "unlock">>

\* delete_folder: folder, mapping, [folder at tack], rows.
FolderProgram == Section \o Section \o Call \o Section

\* upload_image: proxy, write check, [body], quota, row.
UploadProgram == Section \o Section \o Call \o Section \o Section

Program(k) ==
    CASE k = "plain"  -> PlainProgram
      [] k = "view"   -> ViewProgram
      [] k = "note"   -> NoteProgram
      [] k = "folder" -> FolderProgram
      [] k = "upload" -> UploadProgram

LockInit ==
    /\ kind = [r \in Requests |-> Idle]
    /\ pc = [r \in Requests |-> 0]
    /\ line = <<>>
-----------------------------------------------------------------------------
Waiting(r) == \E i \in 2 .. Len(line) : line[i] = r

Arrive(r, k) ==
    /\ kind[r] = Idle
    /\ kind' = [kind EXCEPT ![r] = k]
    /\ UNCHANGED <<pc, line>>

\* The next operation of r, which does not wait for the connection.
Op(r, o) ==
    /\ kind[r] # Idle /\ ~Waiting(r)
    /\ Program(kind[r])[pc[r] + 1] = o
    /\ IF pc[r] + 1 = Len(Program(kind[r]))
       THEN /\ kind' = [kind EXCEPT ![r] = Idle]
            /\ pc' = [pc EXCEPT ![r] = 0]
       ELSE pc' = [pc EXCEPT ![r] = @ + 1] /\ UNCHANGED kind

Lock(r) == Op(r, "lock") /\ line' = Append(line, r)
Unlock(r) == Op(r, "unlock") /\ line' = Tail(line)
Answered(r) == Op(r, "call") /\ UNCHANGED line

\* The client goes: the handler is dropped where it stands, and its lock with it.
Drop(r) ==
    /\ kind[r] # Idle
    /\ kind' = [kind EXCEPT ![r] = Idle]
    /\ pc' = [pc EXCEPT ![r] = 0]
    /\ \/ /\ \A i \in 1 .. Len(line) : line[i] # r
          /\ UNCHANGED line
       \/ \E i \in 1 .. Len(line) :
             /\ line[i] = r
             /\ line' = SubSeq(line, 1, i - 1) \o SubSeq(line, i + 1, Len(line))

LockNext ==
    \E r \in Requests :
        \/ \E k \in Kinds : Arrive(r, k)
        \/ Lock(r) \/ Unlock(r) \/ Answered(r) \/ Drop(r)

\* The runtime runs every handler that can go on and the database answers every
\* query; whether tack or a client ever answers is left open.
LockFairness ==
    \A r \in Requests : WF_lockVars(Lock(r)) /\ WF_lockVars(Unlock(r))

LockSpec == LockInit /\ [][LockNext]_lockVars /\ LockFairness
-----------------------------------------------------------------------------
\* Those that hold or await the connection are the requests inside a section, each
\* once: none keeps it over a call out of the process, none asks for it twice, and
\* none that runs a query does so without it (db.rs, Db).
HeldInSections ==
    \A r \in Requests :
        LET places == {i \in 1 .. Len(line) : line[i] = r} IN
        IF kind[r] # Idle /\ Program(kind[r])[pc[r] + 1] = "unlock"
        THEN \E i \in places : places = {i}
        ELSE places = {}

\* A request waiting for the connection gets it (or its client goes), even if
\* tack and every other client stay silent for ever: no handler keeps the mutex
\* over a call out of the process, none asks for it twice (db.rs, Db).
ConnectionGranted ==
    \A r \in Requests : Waiting(r) ~> ~Waiting(r)
=============================================================================
