# A formal model of clann-server

clann-server is a genealogy server: an axum application over one SurrealDB
connection. This directory holds TLA+ modules translated from its handlers, its
start, its migration program and its schema, TLC configurations that check them
on small instances, and proofs, checked by TLAPS, of the properties they rest
on. Paths below are relative to the repository; `person.rs:613` means
`src/handlers/person.rs`, line 613.

    tlc -workers 2 -config Merge.cfg MCMerge     # any run; PROJECT.json lists them
    tlapm StepProofs.tla                         # any module named ...Proofs

## 1. The system

A **canonical person** (`person`) is a human being with the hard facts about
them. A **proxy** (`person_proxy`) is that person's presence in one tree. Users
work with proxies only; relationships and life events hang on proxies. When two
users turn out to have recorded the same person in different trees, a **merge
proposal** is made and decided by the other side; acceptance points all the
proxies of the one canonical to the other and deletes it.

### Components

| component | state | operations that change it | what makes it correct |
|---|---|---|---|
| connection, schema (`db.rs`, `migrations/schema.surql`) | the tables, unique indexes, assertions | schema and backfills at start, `seed_life_events` | a handler sees no other between two queries; indexes hold; a restart repeats nothing harmful |
| authentication, plans (`auth.rs`) | none (claims per request) | none | limits hold whatever the order of requests |
| family trees (`family_tree.rs`) | `family_tree` | create, update, set-primary, set-team, delete | one primary tree per owner; deletion takes what is in the tree and nothing else |
| tree editors (`tree_editor.rs`) | `tree_editor` | add, remove | grants match the trees they were given for |
| persons and proxies (`person.rs`) | `person`, `person_proxy` | create, update, canonical update, delete, add to and remove from a tree, collapse | every proxy has a person, every person a proxy; one proxy per person and tree |
| duplicate search (`person.rs`, `mcp/server.rs`) | none | none (a score) | symmetric, bounded, in the documented order |
| merge proposals (`merge.rs`) | `person_merge_proposal`, and persons and proxies | create, accept, reject | persons joined only by consent; nobody lost; decisions final |
| relationships (`relationship.rs`) | `has_father`, `has_mother`, `has_sibling`, `has_spouse` | add, delete, pedigree, spouse dates | edges within a tree, unique, marriages paired, sibling pedigrees in step with the parents' |
| family tree view (`relationship.rs`) | none | none, a recursion of locked reads | a view of one moment |
| life events (`life_event.rs`) | `life_event` | create, update, delete, promote | an event stays with its proxy and its proxy's tree |
| images (`image.rs`) | files, image columns | three uploads | quota kept, no row without its file |
| research notes, folders (`research_note.rs`, `research_folder.rs`) | `note_meta` side tables and the external tack service | create, update, delete, file, folders | one tack folder per clann folder and team; nothing lost between the two stores |
| contact requests (`contact_request.rs`, `mcp/server.rs`) | `contact_request` | create (two ways), accept, ignore, append | one pending request per proxy and recipient; decided once |
| chat sessions, AI settings (`chat_session.rs`, `user_ai_settings.rs`) | their tables | create, append, delete; upsert, delete | no message without a session; one row per user |
| proxy migration (`bin/migrate_proxy.rs`) | the tables, once | five phases | may be repeated after a crash in any phase |
| routes, MCP server, OpenAPI, configuration | none | dispatch | - |

### How the parts interact, and what is hard about it

* **One mutex, no transactions.** `Db = Arc<Mutex<DbConn>>` (`db.rs:18`). Every
  handler modelled here holds the lock from its first query to its last, so
  handlers do not interleave. But nothing undoes a handler that stops half way:
  the client hangs up and axum drops the future, the database connection fails,
  the process dies. What was sent stays. Multi-statement queries travel as one
  message but each statement fails by itself, and many handlers never take the
  statements' results.
* **Long protocols.** A proposal is checked when it is made and carried out days
  later; in between its proxies may be deleted, collapsed, merged or joined by
  others. This is where most of the hazards sit.
* **Cross-tree effects.** A canonical is shared by trees of different owners.
  Deletions must find out whether they hold the last proxy, by counts taken
  before or after the delete.
* **Two-sided records.** A marriage is two edges, an event copies its proxy's
  tree, a sibling edge copies the pedigree of a parent's edge.
* **Handlers that let go of the lock.** The family tree view takes it anew for
  each query of its recursion. Uploads and note handlers let go of it while they
  wait for a disk, for the body of a request, or for the notes service. What they
  read before may be outdated when they write.
* **State outside the database.** Images are files, notes live in the external
  service tack. No transaction spans two stores: a call may be carried out and
  its answer lost, a file written and its row not.
* **Programs that are repeated.** The migration and the seeding of life events
  run again after they were stopped, and must neither miss nor double anything.
* **Two copies of one rule.** The assistant's tools (`mcp/server.rs`) repeat the
  duplicate score, the family and the creation of contact requests.

`PROJECT.json` lists each hazard at its line with the properties aimed at it.

## 2. The modules

| module | models | notes |
|---|---|---|
| `ClannStore` | the tables, unique indexes and `DELETE` batches; `fetch_proxy_and_canonical`, `can_write_to_proxy` | variables, `Init`, `TypeOK`, the assumptions on constants |
| `TreeHandlers` | `family_tree.rs`, `tree_editor.rs` | |
| `PersonHandlers` | the writing handlers of `person.rs` | |
| `MergeHandlers` | `merge.rs` | |
| `RelationshipHandlers` | the writing handlers of `relationship.rs` | |
| `LifeEventHandlers` | `life_event.rs` | |
| `ClannServer` | the composition of the above, `Next`, `Spec` and their properties | |
| `PersonIdentity` | what merging promises, without persons (abstract) | implemented by `ClannServer` under the mapping `Identity` |
| `FamilyView` | `get_family_tree` query by query; the tool `get_family` | over the edges of `RelationshipHandlers` |
| `TackClient` | the calls of `tack_client.rs` and what they change at the service | the service itself is external |
| `NotesSync` | `research_note.rs`, `research_folder.rs` against the service | |
| `MediaUpload` | the uploads of `image.rs` over rows, files and plans | |
| `ContactRequests` | `contact_request.rs` and the tool that creates contact requests | over `PersonHandlers` |
| `AssistantHandlers` | `chat_session.rs`, `user_ai_settings.rs` | |
| `DuplicateSearch` | the score of `person.rs` and its copy in `mcp/server.rs` | |
| `ConnectionLock` | the mutex and the handlers as sequences of lock, unlock and outside calls | with fairness |
| `MigrateProxy` | `bin/migrate_proxy.rs` | |
| `StartupSeed` | `seed_life_events` of `db.rs` at every start | |
| `ClannClaims` | what comments and docs say of the family database and the code does not do | one violation run each |
| `MCMerge`, `MCFamily`, `MCWhole`, `MCOutside`, `MCDesk` | instances for TLC | |
| `TypeProofs`, `ClannServerProofs`, `StepProofs` | theorems about `ClannServer` | |
| `AlongsideProofs` | theorems about the family view and contact requests | the parts that run beside the family database's handlers and read it |
| `NotesProofs`, `LoneProofs` | theorems about notes and folders | `LoneProofs`: requests that meet no other |
| `MediaProofs`, `DeskProofs` | theorems about the other parts | `DeskProofs`: chat, seeding, score, connection, migration |

### State

Each table is a function from its record ids to a row or `Absent`; the edge
tables are one set of rows that carry their table's name; editor grants are a set
of pairs. `issued` is the set of ids handed out: SurrealDB's random ids are
never given twice. A row keeps the columns some property distinguishes
(`PersonRow`, `ProxyRow`, ...); the descriptive ones are left out.

### Actions: handlers that keep the connection

One action per handler, named after it. Its first conjuncts are the handler's
checks in its order (404, 403, 400 answers are disabled actions: they change
nothing), its primed variables the writes. `u` is the caller: a user, or `NoAuth`
when no token validator is configured and every check is skipped. `Admin` is a
user name that passes every write check.

A handler with more than one write has a parameter for how far it got:
`interrupted` (create_tree, create_person, delete_person, the collapse, the
pedigree change), or `done` \in 1..4 for the four writes of
accept_merge_proposal. `ClannServer!Interrupted` collects those steps. Handlers
with one write, or one multi-statement query, have no such point: the query
reaches the database whole or not.

The loop of the contact creators is a state of its own, `sending`: proxy, sender
and the recipients left. The loop holds the connection, so nothing else happens
while `sending` is set; but it may be cut after every query (`SendingCut`), and
the rows written so far remain. The tool does not take the result of its CREATE and
goes on after a refused one; the REST handler ends there.

### Actions: handlers that let go of it

* **A request is a record** with the stage it has reached and what it has read
  (`req` of `NotesSync`, `upload` of `MediaUpload`). A stage is one critical
  section, one call of the service or one operation on files; others get in
  between stages. `Drop` and `DropUpload` end a request at any stage, for a
  client that hangs up or a process that ends.
* **A client that hangs up** does not take back what its request has given to the
  disk: tokio carries out an operation on files whether or not anybody awaits it.
  `HangUp` marks the upload as `gone`; its next removal, write or update may still
  take place, at any time, and ends it (`After`). Until then it is under way, and an
  upload to its slot is not alone; of the upload itself nothing is promised any more.
* **Results nobody looks at.** A statement whose result is not taken may have been
  refused (`refused` of `SaveMapping`, `WriteMeta`, `DeleteMeta`, `ClearFolder`), an old file may
  stay (`removed` of `RemoveOld`): the handler goes on and answers as if not.
* **A call of tack** (`Call`) is carried out and answered, carried out with the
  answer lost, or not carried out; the handler fails in the last two cases, or
  goes on (`TryCall`) where the code ignores the failure.
* `undisturbed`, `alone`, `apart` and `clean` are history: no other request was under
  way since this one came in and none of its statements was refused; no other upload
  of the slot; no other of the account, and no change of `created_by` that concerns
  it; no removal was refused. They appear in no guard.
  `Settled` and `Kept` forget what is known of finished requests no property
  mentions, which keeps the instances small.
* **A view** is the query it is at, the queries still to make and the answer so
  far; `kept` and `ever` are history: the edges that were there at every moment
  since the view began, and at some moment.
* **`ConnectionLock`** has one program per kind of handler, a sequence of `lock`,
  `unlock` and `call`. `line` is the mutex's queue in order of arrival (tokio's
  mutex is fair), its head the holder.

### Actions: programs that are repeated

* **`MigrateProxy`** has the migration's steps as phases and in each the set of
  statements still to do. A statement is carried out or refused: the program
  reports or ignores a refusal and goes on. `StopRun` stops it anywhere, `BeginRun` starts it
  again.
* **`StartupSeed`** has the server down, seeding facts, seeding marriages, or
  serving. While it serves, clients record facts, marry (one of the two rows may be
  refused, and the two may be one) and part, add, delete and retype events; merges
  point proxies to other facts; deletions take proxies away; a collapse moves
  events and leaves out rows of marriages. A crash takes the server down from anywhere.

### Abstractions, and what they rest on

* **Atomic handlers**: the mutex, above. Database access from outside the
  server is not modelled.
* **One hard field.** accept_merge_proposal compares six hard fields; the model
  keeps the birth certificate, the only one with a unique index. A conflict on
  the others has the same control flow and changes no row a property mentions.
* **Users.** In the family database user names and user ids are one identity. The
  code mixes them (`created_by` holds names, `is_tree_editor` looks for ids); who
  is meant is not the subject of any property there. In `MediaUpload` it is: an
  uploader has an id and a name there, which the plan's sum confuses, and clients choose
  and change the `created_by` of a proxy (`UpdatePerson`).
* **The count over no row.** delete_tree sweeps canonicals by
  `(SELECT count() .. GROUP ALL)[0].n = 0` over a condition that is true of no
  row. Whether the database answers 0 or NONE cannot be read from the
  repository, so it is the constant `EmptyCountIsZero`, and `Merge` takes one reading, `Whole`
  and `Sweep` the other.
* **Edge ends in a collapse.** The collapse rewrites `in` and `out` by UPDATE.
  A database that refuses to move a relation's ends rewrites none; one that
  allows it rewrites at most one row per table and end, in an order the code
  does not fix. `Rewritten` allows all of these.
* **The last write of an acceptance** sets `resolution`, an `option<object>`,
  from JSON that is null without a resolution. A database that refuses the
  null leaves the proposal pending after the merge: this outcome is
  `done = 3`, the same as being cut off there.
* **set_tree_team with null** is modelled as unlinking; where the database
  refuses the null nothing changes, which is a stutter.
* **The notes service** is external: what its calls do is what
  `tack_client.rs` and the handlers expect of them. Texts of notes are left out, and
  so is what the service does on its own. A client knows the id of a note from
  the list of its tree, so it names attached notes only.
* **Folder names** are unique per user; the model has one user's folders.
* **Files** are their number of bytes, an image its size; a full disk leaves an
  empty file.
* **The start of the server** looks at one proxy after the other by number, as the
  seed does by id. Its handlers are those of the family database seen through
  what the seed reads (facts, rows of marriages, events by type); trees and write
  checks are left out, so that they may do more there than in the code.
* **Texts of the duplicate search** are sequences of symbols: a symbol of a word
  is two letters, a gap is whatever is no letter, a digit stands for itself.
  "Longer than three letters" is then "more than one symbol".

## 3. Properties

In `ClannServer` and, for types, `ClannStore`. Invariants:
`ProxyTreeExists`, `EdgesWithinTree`, `EventTreeMatches`, `OneProxyPerTree`,
`OneEdgePerPair`, `OnePendingPerPair`, `AtMostOnePrimary`, `PlanLimitsHold`,
`CertHeldOnce`, `PedigreeRetryRepairs`, `TypeOK`. Action
properties: `CanonicalsKept`, `NoNewOrphans`, `EventsKept`, `SpousesKept`,
`OneTreePerStep`, `DecidedIsFinal`. Refinement: `ImplementsIdentity`.

Some hold only with exceptions, which their statements name: the
acceptance of an outdated proposal and delete_tree (`CanonicalsKept`), the
self-collapse (`EventsKept`), the collapse (`SpousesKept`); `NoNewOrphans` speaks
of handlers that ran to their end, for a handler cut off before its clean-up
does leave a canonical without a proxy, and nothing in the code finds it later.
"Every proxy has a person" is therefore not an invariant of the code and not
stated as one.

`ImplementsIdentity` hides persons altogether. `PersonIdentity` has proxies, an
equivalence `same` between them, and a set of open proposals. It says that
knowledge of identity is never lost, also when the canonical record behind it
is, and that two groups of proxies become one only while a proposal between
members of both is open. Accepting an outdated proposal, deleting trees, and
acceptances cut off after any write are steps of it.

The other parts:

| property | module | says |
|---|---|---|
| `ViewBetween` | `FamilyView` | a view shows every relative reached by edges that stayed while it was made, and none by edges that never were |
| `SiblingsShareParent`, `ToolAgreesWithView` | `FamilyView` | the tool's siblings share a parent; tool and view show the same family |
| `LoneRequestAgrees` | `NotesSync` | an answered request that met no other, and had no statement refused, leaves sidecar, mapping and service in agreement, whatever races, lost answers, refusals and cut-off requests came before |
| `AnsweredNoteAttached` | `NotesSync` | a note whose creation is answered is attached to its tree |
| `MappingKept` | `NotesSync` | a folder once mapped keeps its folder of the service until it is deleted |
| `LoneUploadServed` | `MediaUpload` | an answered upload that met no other of its slot, nor what one left to the disk, leaves its file and the row that names it, and no other file unless the disk refused a removal |
| `LoneUploadWithinPlan` | `MediaUpload` | an upload that met no other of its account, and no change of creator that concerns it, leaves the account within the plan, when its proxy names the uploader by id |
| `OnePendingContact` | `ContactRequests` | one pending request per proxy and recipient, by both interfaces, loops cut off and repeated |
| `TalkNeedsConsent`, `DecidedContactIsFinal` | `ContactRequests` | only accepted requests carry messages; a decision stays |
| `MessagesReachable` | `AssistantHandlers` | a stored message belongs to a session that exists |
| `RestAndToolAgree`, `DuplicatesAreMutual` | `DuplicateSearch` | both copies of the score agree; a match is found from both sides with one score |
| `CleanRunCompletes`, `StopsHarmless` | `MigrateProxy` | a run without refusals carries everything over, whatever earlier runs left; stopped runs leave no trace in a later complete one |
| `NoSeedDoubles`, `SeedComplete` | `StartupSeed` | starts cut off and repeated add one event at most for a proxy and type, where there was none; when the server begins to serve every fact has its event, and every marriage with both its rows |
| `HeldInSections` | `ConnectionLock` | those in line for the connection are the requests inside a section, each once |
| `ConnectionGranted` | `ConnectionLock` | liveness: a request waiting for the connection gets it |

`MediaTypeOK` and `ContactTypeOK` are the type invariants of their parts;
`NotesTypeOK` is not part of a run but proved (section 6).

**Fairness.** `ConnectionGranted` is the one property of progress the code
supports by itself. `LockFairness` is weak fairness of `Lock` and `Unlock` of
each request: the runtime runs every handler that can go on, and the database answers every
query. Nothing is assumed of tack (its client has no timeout), of clients that
send a body, or of new requests. So the property says what matters: a silent
service or a stalled upload does not hold up the others, because no handler
keeps the mutex over a call out of the process. All other steps are requests of clients,
which the code gives no reason to send; no progress is claimed of them. That a
pending proposal can always be decided is false for a deleted target (section 5).

## 4. Runs that pass

| run | module | distinct states | instance | why it is enough |
|---|---|---|---|---|
| `Merge` | `MCMerge` | 61 796 | 3 trees, 2 persons, 3 proxies, 2 proposals, 2 certificates | two proposals between two persons through different proxies need three proxies in three trees; a person merged away can have two proxies; a conflict needs two certificates |
| `Family` | `MCFamily` | 128 566 | marriages: 4 proxies, one in another tree, with and without a date; kin: 3 proxies, fathers and siblings, `MaxEdges` 2; view: 3 proxies, 2 edges at a time, `MaxChanges` 2 | a collapse of two proxies each married to a third; a parent edge and a sibling edge that names the parent; a view with one edge gone and one new |
| `Whole` | `MCWhole` | 79 542 | every handler of the family database from the empty one; 2 trees, persons and proxies, 1 event, proposal and team | trees deleted and named again, the event handed over by a collapse |
| `Outside` | `MCOutside` | 1 061 927 | notes: 2 notes, 2 folders, 2 folders at tack, 3 requests, 2 at a time; media: 2 slots at a time (the images of two proxies, one of them made under the uploader's id and one under the user name, or one tree), 2 types, size 2 against a limit of 3, 3 uploads, 2 at a time; the second proxy may come to name the id | notes: two requests race and a third, alone, meets what they left; media: two uploads race, hang up or fail, and a third meets what they left; one image fits the plan and two do not, so that a creator that changes decides |
| `Desk` | `MCDesk` | 477 239 | seven parts one at a time: plan 13 000, contact 194 600, chat 390, lock 87 300, search 28 200, migrate 7 800, start 146 000 | below |

Record ids are bounded by their sets and never used twice, so every run is
finite; when the ids are used up creations stop. `MCMerge`, `MCFamily` and the
contact part of `MCDesk` start with registered trees and persons, states the
handlers reach from the empty database; `MCMerge` and `MCFamily` take
`NoAuth` as caller, who may do everything: the write checks only remove steps.
`MCWhole` starts from `Init` with `Spec` itself and all callers. Symmetry is used
over trees and certificates in `MCMerge`, over ids in `MCWhole` and over the folders
of the notes service in `MCOutside`, which no definition tells apart; those runs
check safety only, for which symmetry is sound. `MCFamily`, `MCOutside` and
`MCDesk` join parts that share no state: a variable `part` picks one in the initial
state and never changes, so a behavior is about one part. That a proxy may also leave the
uploader's account during an upload is covered by the proof, not by `Outside`.

The parts of `Desk`: *plan*, three trees with room for two each owner and
persons with room for one; *contact*, two proxies, one without a creator, two recipients a
call, two requests, one message each (`MaxMessages`); *chat*, two sessions, three
messages; *lock*, three requests of all five kinds, enough for a holder and two that
wait; *search*, places and dates that make each level of the score; *migrate*,
three persons in one or two trees, a sibling edge with a via person, one event,
any number of runs; *start*, three proxies, the births of one and everybody's
marriages, at most `MaxRows` 3 rows of them and `MaxEvents` 2 events of a proxy and type, enough for
a marriage that a collapse leaves one-way or with itself.

`CHECK_DEADLOCK FALSE` everywhere: a server whose ids are used up has nothing to
do, and idle is not a failure.

Every property of these runs is violated when a definition is changed the way
a slip in the code would change it; `PROJECT.json` lists the changes
("mutants"), each an operator beside the one it replaces.

## 5. Runs that fail, and what they show

| run | property | the code |
|---|---|---|
| `Outdated` | `WinnerSurvives` | Two proposals between the same two persons: accepting the second deletes the one canonical all the proxies now have (`merge.rs:266`). |
| `Overlapping` | `AcceptedMeansMerged` | The persons share a tree: the re-pointing breaks the unique index, its result is not looked at, the canonical is deleted all the same and the proposal is accepted (`merge.rs:261`). |
| `Sweep` | `SweepsUnusedCanonicals` | The sub-query of delete_tree's sweep counts nothing: where the database answers 0 it deletes all the tree's canonicals, those other trees use included; where it answers NONE it deletes none (`family_tree.rs:298`; set `EmptyCountIsZero` to `FALSE` in the run for the other reading). |
| `Repointing` | `EdgesRepointed` | A collapse drops the loser's edges of a kind when the survivor has one of that kind (`person.rs:835`). |
| `HalfSiblings` | `HalfSiblingsStayHalf` | Recording a parent's pedigree makes half siblings full siblings (`relationship.rs:523`, against `README.md:241`). |
| `LostHalf` | `OtherHalfKept` | Changing a note's description writes back the folder read under an earlier lock, and undoes a filing in between (`research_note.rs:178`, against its comment at 163). |
| `Quota` | `OwnMediaWithinPlan` | The plan's sum looks for proxies created by the user's id, everything else takes `created_by` for a user name: such a user exceeds the plan with uploads one after the other (`image.rs:45`). |

All are behaviours of the code as written; both readings of the count contradict
the comment that `Sweep` quotes, and both readings of the UPDATE lose the edges
that `Repointing` looks for.

### What the models show besides

Behaviours a reader of the code should know of, without a run of their own. The models have
them, and the properties are stated so that they hold with them.

* A proxy collapsed into itself is deleted (`person.rs:852`); the handler does not
  compare its two arguments (`person.rs:800`).
* A pending proposal whose target was deleted can be neither accepted nor
  rejected, and stays (`merge.rs:202`).
* A certificate conflict cannot be resolved in favour of the losing canonical:
  its certificate is written to the winner before the loser is deleted and
  `unique_birth_cert` refuses it (`merge.rs:253`, the guard `CertFree`).
* Notes: two requests that both find no mapping create two folders at tack, of
  which one is orphaned; a note whose attachment failed stays at the service
  outside every tree (`research_note.rs:229`, `298`). A deletion answers 204 when the
  database refused to delete the sidecar row, which then stays (`research_note.rs:436`).
* An upload removes the old files before it writes the new one and the row last:
  cut off in between, the row names a file that is gone (`image.rs:177`).
  Uploads at the same time pass the check together and exceed the plan, and so does an
  upload whose proxy changes its creator after the check (`person.rs:517`).
  The results of the removals are ignored: under an answer 204 an old file of another
  type can stay beside the new one (`image.rs:148`, `303`, `445`). A removal or write
  that a client who hung up had given to the disk can undo the next upload's.
* The migration does not read the results of its `CREATE`s. After refused
  statements a later run files an event under a later tree than the person's
  first, or leaves an edge without the via person for good: repeating it does not
  repair this (`migrate_proxy.rs:5` calls it idempotent), and step E compares
  counts only.
* A marriage of a proxy with itself, which nothing forbids (`relationship.rs:54`), and
  one of which a collapse or a refused RELATE left only the row whose `in` is the
  higher id, get no event at the start (`db.rs:151`). A proxy has two events of one type,
  seeded ones too, when one is retyped (`life_event.rs:226`) and seeded anew, or when a
  collapse hands it those of another (`person.rs:851`).
* A person's second marriage gets no event of its own when the first one has one at
  the same proxy (the check is by proxy and type), and a seeded event that a user
  deleted is back after the next start.
* `append_message` is "in one go" by its comment and two queries by its code
  (`chat_session.rs:165`).
* The duplicate score is at most 8, not 7 (`models/contact_request.rs:63`);
  confidence `possible` is unreachable; an empty place of birth is contained in
  every other. With an empty name the REST handler matches and the tool does not.
* The tool's siblings miss those by a shared parent who is father of one and
  mother of the other (`mcp/server.rs:218`, `335`).
* The tool `create_contact_request` speaks as the `created_by` of the proxy it is given,
  whoever holds the token (`mcp/server.rs:630`), where the REST handler compares the
  two (`contact_request.rs:71`) and the file says that tools take the user from the token.

## 6. What is proved

For all values of the constants that satisfy the named assumptions of each
module, and so for any number of trees, persons, proxies, users, proposals,
notes, requests, uploads, statements and starts.

| module | theorems | assumptions |
|---|---|---|
| `TypeProofs` | `TypeOK` | `ClannStore`: `NoRowAssumption`, `OptionAssumption`, `RecordIdAssumption`, `PlanAssumption` |
| `ClannServerProofs` | `ProxyTreeExists`, `EdgesWithinTree`, `EventTreeMatches`, `OneProxyPerTree`, `OneEdgePerPair`, `OnePendingPerPair`, `AtMostOnePrimary`, `CertHeldOnce`, `PedigreeRetryRepairs`, `PlanLimitsHold` | the same |
| `StepProofs` | `DecidedIsFinal`, `CanonicalsKept`, `EventsKept`, `NoNewOrphans`, `OneTreePerStep`, `SpousesKept`, `ImplementsIdentity` | the same |
| `AlongsideProofs` | `ViewBetween`, `ToolAgreesWithView`, `SiblingsShareParent`; `ContactTypeOK`, `OnePendingContact`, `TalkNeedsConsent`, `DecidedContactIsFinal` | the same, `ContactAssumption` |
| `NotesProofs` | `NotesTypeOK`, `AnsweredNoteAttached`, `MappingKept` | `NotesAssumption` |
| `LoneProofs` | `LoneRequestAgrees` | `NotesAssumption` |
| `MediaProofs` | `MediaTypeOK`, `LoneUploadServed`, `LoneUploadWithinPlan` | `MediaAssumption` |
| `DeskProofs` | `MessagesReachable`; `NoSeedDoubles`, `SeedComplete`; `RestAndToolAgree`, `DuplicatesAreMutual`; `HeldInSections`; `CleanRunCompletes`, `StopsHarmless` | `AssistantAssumption`, `SeedAssumption`, `SearchAssumption`, `LockAssumption`, `MigrateAssumption` |

The assumptions say that the values standing for "nothing" are none of the rows,
ids or columns they replace, that ids of different tables differ, that bounds
and limits are numbers, that the rows whose bytes are summed are finitely many, and, for the migration, what the old schema's unique
indexes say and that each person with trees has a first one.

**The family database.** None of the eight invariants is inductive by itself. `OnlyIssuedIds`
(rows have and name only ids that were handed out) is the strengthening: a
proxy created with an id that a left-over event or proposal names would inherit
what belongs to another tree, and a person created with an id some dangling
proxy names would take it over; since ids are handed out once neither happens.
`EdgesWithinTree` needs `ProxyTreeExists`' neighbour `MayCollapse` (one tree) to
survive a collapse, and `OneEdgePerPair` needs that a collapse rewrites at most
one row per table and end onto an end the survivor did not have.
`OneProxyPerTree` survives an acceptance because the index undoes the whole
statement when the two persons overlap. One lemma per handler
(`InvCreateTree`, ..., `InvLifeEvents`), one step per
conjunct it can disturb; `InvNext` collects them. `CanonicalsKept` is split by
the handler that could take a canonical: tree deletion, delete, collapse,
acceptance. Each deletes only what `LastProxy` found unused, and an acceptance
that is not outdated re-points all of the loser's proxies before it deletes.
`NoNewOrphans` is the other side of the same split. `EventsKept`, `SpousesKept`
and `OneTreePerStep` go handler by handler: the DELETE batch takes events and both
directions of an edge with the proxy; what a handler writes is filed
under the tree of the proxy it is given (`Elsewhere`), because edges and events
are where their proxies are (`EdgesWithinTree`, `EventTreeMatches`).

`PedigreeRetryRepairs` holds because the two updates of a pedigree change rewrite
each edge without looking at another, are idempotent and commute (`UpdatesRepeat`).
`PlanLimitsHold` needs that the tables are finite in every state: they start
empty and a creation adds one row, after a count that left room for it.

**Refinement.** `ImplementsIdentity` says that `ClannServer`, seen through `Identity`,
is a behaviour of `PersonIdentity`. Each handler that writes proxies or proposals
maps to one of its steps: a creation to `Appear` (nobody points at the new person,
by `OnlyIssuedIds`), an addition to a tree to `AppearAs`, deletes and collapses to
`Vanish`, proposals to `Propose`, a rejection to `Close`. An acceptance cut off
before the re-pointing maps to no step, one cut off later to `Join` with the proposal
still open, a complete one to `Join`, or to `Close` when the index refused the
update (`IdentityByAccept`). That one decision closes the pair rests on
`OnePendingPerPair`.

**Contacts.** `ContactInv` joins the four: a turn of the loop writes only when
`Skipped` found no pending row of the proxy and recipient, and the loop keeps
the connection, so that nothing is written between that query and the CREATE.

**The view.** `ViewSpec` is a family view that reads its edges one query after
the other with any step of any handler in between. The model records for it the
edges that were there all along (`kept`) and those that were there at some time
(`ever`). `ViewInv`, with `TypeOK`: the edges of the database lie between the two, what
has been read was in `ever` (`NoneInvented`), and of `kept` nothing that was
asked for is missing (`NoneMissed`). A step of a handler shrinks the first set
and enlarges the second and so disturbs neither. `SiblingsShareParent` and
`ToolAgreesWithView` compare two answers read from one state.

**Notes.** `NotesInv` is `NotesTypeOK` with `Fits`, which says for each stage
which fields of the request are set (a request at `attach` has a note, one at
`map` has a folder and a folder at tack), with `IssuedFirst` (what is named was
created) and with `Reached` (a creation past `attach` has its note attached or deleted).
`Moved` reduces every action to the one request it moves. `MappingKept` follows
step by step: only `SaveMapping` and `ClearFolder` write it, the first never over
a mapping.

**Requests that meet no other.** `LoneInv` adds to `NotesInv` that nothing is
kept about a note not yet handed out (`IdsIssued`) and `LoneOnCourse`: while a
request has met no other and no statement of it was refused, none is under way, and
what it has brought about by its stage is there (`OnCourse`). At its last stage that
is `LoneRequestAgrees`. A refused statement ends the claim at the step it happens in,
as its handler never learns of it.

**Uploads.** `MediaInv` says for an upload that is alone in its slot which files
are there at its stage: while it removes, none of the extensions before `next`;
when it writes, none; afterwards its own. (The other extensions, as long as the disk
refused no removal.) It rests on `AcceptedRemoved`: every
extension a slot accepts is on its removal list. A second upload that comes in
clears `alone` (`Met`), which is why one handler's list is enough; an upload whose
client is gone counts as under way until its last operation is over.

`LoneUploadWithinPlan` rests on `QuotaInv`. An upload that met no other of its account
(`apart`) knows until the check how many bytes it replaces, and from the check to its row
that there is room (`Budget`): no other of the account is under way
(`ApartInAccount`), so that other steps only free bytes; update_person moves a
proxy's bytes, and where it moves them to the account or takes the upload's own proxy
away it ends `apart` (`Concerns`, `QuotaByUpdatePerson`). The account's bytes are a fold over
a set of rows, in an order left open. That the sum does not depend on the order, splits
over disjoint sets and falls with the rows is proved by the absence of a smallest
counterexample (`SumsExist`, `SumsSplit`, `BytesFewer`); the order on
cardinalities takes the place of an induction rule.

**Migration.** `MigrateInv` has `Rows` (what is in the new tables belongs to the
old ones), `Progress` (what a phase has still to do covers what is missing, or a statement of
this run was refused), and `Faithful` (as long as nothing was ever refused, what
is there is what a complete run would make). The first two give
`CleanRunCompletes`, all three `StopsHarmless`.

**Seeding, chat, score.** `SeedInv` ties each section of the seeding to what the
ones before it have completed: what is not among `items` any more has its event
(`FactsLeft`, `MarriagesLeft`). Handlers run only while the server serves, when it claims nothing, so
that they only have to keep the types (`HandlerTypes`); `ChatInv` is `MessagesReachable` with types,
kept because a deletion takes the messages first; the score is symmetric
because each of its parts is (`ScoresSymmetric`), for all texts; and the handler
and the tool differ only where a name is empty (`RestAndToolAgree`).

**The connection.** The program of each kind of request is `Sectioned`: it releases the
connection right after the step that got it and nowhere else, which holds of
its pieces and of programs joined of such pieces (`SectionedConcat`).
`LockInv` has the types and `HeldInSections`. It is the safety half of
`ConnectionGranted`: nobody asks for a mutex he holds, or keeps it over a call.

**Only model-checked**: `ConnectionGranted`, because liveness under fairness is
out of the provers' reach, as ENABLED is. Every safety property of the runs that
pass is also a theorem.

## 7. Not modelled

* `update_tree`, `update_life_event` but for the type of the event, and rises of `updated_at`: columns no
  property mentions. Replies to a note: passed to the service unchanged.
* The one-off repair of pedigree values at start (`db.rs` 30-48): the schema
  no longer admits the values it repairs.
* List and search handlers and tools, and serving of files: reads without a
  guarantee beyond the query they send. The reads with one (family view,
  `get_family`, duplicates, plan sums) are modelled.
* Token validation and JWKS (a library's), routing, OpenAPI generation,
  configuration, logging, serialisation shapes, deployment and backup scripts.
* The notes service itself, which is another program; its calls are modelled by
  what this one expects of them.
* Two parts at once in one instance where they share no state. Where a part
  reads the family database (contacts, view) it is composed with its handlers.

Next: the handlers query by query under the mutex, refining the atomic actions of
`ClannServer`, so that their atomicity is a theorem about `ConnectionLock`
and not a reading of the code.
