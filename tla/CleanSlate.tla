------------------------------- MODULE CleanSlate -------------------------------
(***************************************************************************)
(* A clean slate, file by file (core/clean_slate.py; the routes that        *)
(* preview and submit it; ImportWorker._clean_slate_blocking): the preview  *)
(* when it is submitted, the preview again as the worker's guard, and the  *)
(* removal, row by row and file by file, with deletions that fail, a crash  *)
(* at any point, and other programs changing library and disk meanwhile.   *)
(* The import after it adds other rows and is one step here.                *)
(*                                                                         *)
(* The code decides by path names, the disk by files.  A row's path is     *)
(* normalised only, the source also loses its symbolic links: two names   *)
(* may lead to one file.                                                   *)
(***************************************************************************)
EXTENDS FiniteSets, Naturals

CONSTANTS Track,      \* the items of an album in the library
          Album,      \* the row of that album
          Art,        \* its art, for which Album holds the path
          Single,     \* items that belong to no album
          Path, File,
          PathOf,     \* the path a row holds
          FileAt,     \* the file a path leads to
          Audio,      \* the readable audio files
          InLibrary,  \* paths inside lib.directory, by their names
          Source,     \* folders (or files) to import from, links resolved
          Holds,      \* files at or below a source
          Under,      \* paths at or below a source, by their names
          Allowed,    \* sources in downloads_path, outside the library and
                      \* of the shape the subject needs
          MaxChanges  \* bound: what other programs do

Item == Track \union Single

Row == Item \union {Album}

Part == Item \union {Art}

ASSUME SlateAssumption ==
    /\ IsFiniteSet(Item)
    /\ Track \intersect Single = {}
    /\ Album \notin Part
    /\ Art \notin Item
    /\ PathOf \in [Part -> Path]
    /\ FileAt \in [Path -> File]
    /\ IsFiniteSet(File)
    /\ InLibrary \subseteq Path
    /\ Allowed \subseteq Source
    /\ Holds \in [Source -> SUBSET File]
    /\ Under \in [Source -> SUBSET Path]
    /\ \A s \in Source : \A p \in Under[s] : FileAt[p] \in Holds[s]
    /\ MaxChanges \in Nat

VARIABLES rows,    \* the rows of the library
          disk,    \* the files there are
          job,     \* the clean-slate job
          changes  \* how often another program interfered

vars == <<rows, disk, job, changes>>

\* pending    submitted, or claimed and not guarded yet
\* guarded    the guard has let it pass
\* removing   rows in left are still to be removed
\* unlinking  the row of item is gone and its file, or the art, comes next
\* seen, audio, since  what the guard saw: the entry's files on disk, how
\*                     many audio files the source held, and changes
\* deleted             the files the job has deleted
Job == [pc      : {"none", "pending", "guarded", "removing", "unlinking",
                   "importing", "ended"},
        target  : Row,
        source  : Source,
        optIn   : BOOLEAN,
        passed  : BOOLEAN,
        seen    : SUBSET Item,
        audio   : Nat,
        since   : 0..MaxChanges,
        left    : SUBSET Item,
        plan    : SUBSET Part,
        item    : Part,
        deleted : SUBSET File]

TypeOK == /\ rows \subseteq Row
          /\ disk \subseteq File
          /\ job \in Job
          /\ changes \in 0..MaxChanges

FileOf(i) == FileAt[PathOf[i]]

-----------------------------------------------------------------------------
(* What the preview and the deletion plan look at.                          *)

Entry(t) == IF t = Album THEN Track \intersect rows ELSE {t}

Present(t) == {i \in Entry(t) : FileOf(i) \in disk}

Readable(s) == Holds[s] \intersect Audio \intersect disk

\* _scan_source finds no error.
ScanPasses(t, s) ==
    /\ s \in Allowed
    /\ IF t = Album THEN Readable(s) # {} ELSE Cardinality(Readable(s)) = 1

\* A preview without errors and without a confirmation it would still need.
Accepts(t, s, optIn) ==
    /\ t \in rows
    /\ t \notin Track
    /\ ScanPasses(t, s)
    /\ optIn \/ Cardinality(Readable(s)) >= Cardinality(Present(t))

Deletable_Bug(s) == InLibrary

Deletable(s) == InLibrary \ Under[s]

Plan(t, s) ==
    {i \in Present(t) \union (IF t = Album THEN {Art} ELSE {}) :
        /\ FileOf(i) \in disk
        /\ PathOf[i] \in Deletable(s)}

-----------------------------------------------------------------------------
(* Submitting it, and the worker.                                          *)

New(t, s, optIn) ==
    [pc |-> "pending", target |-> t, source |-> s, optIn |-> optIn,
     passed |-> FALSE, seen |-> {}, audio |-> 0, since |-> 0,
     left |-> {}, plan |-> {}, item |-> Art, deleted |-> {}]

Init == /\ rows = Row
        /\ disk \in SUBSET File
        /\ \E s \in Source : job = [New(Album, s, FALSE) EXCEPT !.pc = "none"]
        /\ changes = 0

Submit(t, s, optIn) ==
    /\ job.pc \in {"none", "ended"}
    /\ Accepts(t, s, optIn)
    /\ job' = New(t, s, optIn)
    /\ UNCHANGED <<rows, disk, changes>>

Passed == [job EXCEPT !.pc = "guarded",
                      !.passed = TRUE,
                      !.seen = Present(job.target),
                      !.audio = Cardinality(Readable(job.source)),
                      !.since = changes]

Guard_Bug ==
    /\ job.pc = "pending"
    /\ job' = Passed
    /\ UNCHANGED <<rows, disk, changes>>

Guard ==
    /\ job.pc = "pending"
    /\ IF Accepts(job.target, job.source, job.optIn)
       THEN job' = Passed
       ELSE job' = [job EXCEPT !.pc = "ended"]
    /\ UNCHANGED <<rows, disk, changes>>

LoadEntry_Bug ==
    /\ job.pc = "guarded"
    /\ job.target \in rows
    /\ job' = [job EXCEPT !.pc = "removing",
                          !.left = Entry(job.target) \union {job.target},
                          !.plan = Plan(job.target, job.source)]
    /\ UNCHANGED <<rows, disk, changes>>

\* The removal loads the entry and plans the deletions once more.
LoadEntry ==
    /\ job.pc = "guarded"
    /\ IF job.target \in rows
       THEN job' = [job EXCEPT !.pc = "removing",
                               !.left = Entry(job.target),
                               !.plan = Plan(job.target, job.source)]
       ELSE job' = [job EXCEPT !.pc = "ended"]
    /\ UNCHANGED <<rows, disk, changes>>

-----------------------------------------------------------------------------
(* The removal.                                                            *)

RemoveRow_Bug(i) ==
    /\ job.pc = "removing"
    /\ i \in job.left
    /\ IF i \in job.plan
       THEN /\ disk' = disk \ {FileOf(i)}
            /\ job' = [job EXCEPT !.plan = @ \ {i},
                                  !.deleted = @ \union {FileOf(i)}]
            /\ UNCHANGED rows
       ELSE /\ rows' = rows \ {i}
            /\ job' = [job EXCEPT !.left = @ \ {i}]
            /\ UNCHANGED disk
    /\ UNCHANGED changes

\* Item.remove deletes the row, which may be gone by now, before the file.
RemoveRow(i) ==
    /\ job.pc = "removing"
    /\ i \in job.left
    /\ rows' = rows \ {i}
    /\ job' = [job EXCEPT !.left = @ \ {i},
                          !.item = i,
                          !.pc = IF i \in job.plan THEN "unlinking" ELSE @]
    /\ UNCHANGED <<disk, changes>>

\* Deleting a file that is gone is no error.
Unlink ==
    /\ job.pc = "unlinking"
    /\ disk' = disk \ {FileOf(job.item)}
    /\ job' = [job EXCEPT !.pc = IF job.item = Art THEN "importing" ELSE "removing",
                          !.deleted = @ \union ({FileOf(job.item)} \intersect disk)]
    /\ UNCHANGED <<rows, changes>>

\* The error leaves the worker's thread and fails the job.
UnlinkFails ==
    /\ job.pc = "unlinking"
    /\ FileOf(job.item) \in disk
    /\ job' = [job EXCEPT !.pc = "ended"]
    /\ UNCHANGED <<rows, disk, changes>>

RemoveAlbum_Bug ==
    /\ job.pc = "removing"
    /\ job.target = Album
    /\ rows' = rows \ {Album}
    /\ IF job.left = {}
       THEN job' = [job EXCEPT !.item = Art,
                               !.pc = IF Art \in job.plan THEN "unlinking"
                                                          ELSE "importing"]
       ELSE UNCHANGED job
    /\ UNCHANGED <<disk, changes>>

RemoveAlbum ==
    /\ job.pc = "removing"
    /\ job.target = Album
    /\ job.left = {}
    /\ rows' = rows \ {Album}
    /\ job' = [job EXCEPT !.item = Art,
                          !.pc = IF Art \in job.plan THEN "unlinking" ELSE "importing"]
    /\ UNCHANGED <<disk, changes>>

SingleRemoved ==
    /\ job.pc = "removing"
    /\ job.target # Album
    /\ job.left = {}
    /\ job' = [job EXCEPT !.pc = "importing"]
    /\ UNCHANGED <<rows, disk, changes>>

ImportEnds ==
    /\ job.pc = "importing"
    /\ job' = [job EXCEPT !.pc = "ended"]
    /\ UNCHANGED <<rows, disk, changes>>

\* Recovery fails the job, unless it was not claimed yet.
Crash ==
    /\ job.pc \in {"pending", "guarded", "removing", "unlinking", "importing"}
    /\ job' = [job EXCEPT !.pc = "ended"]
    /\ UNCHANGED <<rows, disk, changes>>

-----------------------------------------------------------------------------
(* Other programs: the downloader, the user, beets on the command line.     *)

Interfere == /\ changes < MaxChanges
             /\ changes' = changes + 1

FileVanishes(f) ==
    /\ Interfere
    /\ f \in disk
    /\ disk' = disk \ {f}
    /\ UNCHANGED <<rows, job>>

FileAppears(f) ==
    /\ Interfere
    /\ f \in File \ disk
    /\ disk' = disk \union {f}
    /\ UNCHANGED <<rows, job>>

OthersRemove(R) ==
    /\ Interfere
    /\ R \subseteq rows
    /\ rows' = rows \ R
    /\ UNCHANGED <<disk, job>>

Removal == \/ LoadEntry
           \/ \E i \in Item : RemoveRow(i)
           \/ Unlink
           \/ UnlinkFails
           \/ RemoveAlbum
           \/ SingleRemoved

Others == \/ \E f \in File : FileVanishes(f) \/ FileAppears(f)
          \/ \E r \in Row : OthersRemove({r})
          \/ OthersRemove((Track \union {Album}) \intersect rows)

Next == \/ \E t \in Row, s \in Source, optIn \in BOOLEAN : Submit(t, s, optIn)
        \/ Guard
        \/ Removal
        \/ ImportEnds
        \/ Crash
        \/ Others

Spec == Init /\ [][Next]_vars

-----------------------------------------------------------------------------
(* What is checked of it.                                                  *)

\* Nothing at or below the source is deleted (core/clean_slate.py:172,
\* 254-258): the import that follows finds every file it was promised.
SourceSurvives == job.deleted \intersect Holds[job.source] = {}

\* A removal that stops anywhere never leaves a row pointing at a file it has
\* deleted (core/clean_slate.py:259-260).
RowsOutliveFiles ==
    /\ \A i \in Item \intersect rows : FileOf(i) \notin job.deleted
    /\ Album \in rows => FileOf(Art) \notin job.deleted

\* Without the opt-in a clean slate does not delete more of the files its
\* guard saw than the source held audio files to replace them
\* (core/clean_slate.py:170-171), whatever was true when it was submitted.
CanBeReplaced ==
    \/ job.optIn
    \/ Cardinality({i \in job.seen : FileOf(i) \in job.deleted}) <= job.audio

Gone(t) == /\ t \notin rows
           /\ t = Album => rows \intersect Track = {}

\* A clean slate that stopped halfway can be repeated: unless something else
\* has changed, either nothing of the entry is left or the preview accepts
\* the same request again.
Repeatable ==
    job.pc = "ended" /\ job.passed /\ job.since = changes
        => \/ Gone(job.target)
           \/ Accepts(job.target, job.source, job.optIn)

\* No two names for one file across the border of a source.
NoAliases == \A s \in Source, p \in Path : FileAt[p] \in Holds[s] => p \in Under[s]

\* Rows do not share their files.
OwnFiles == \A i, k \in Part : FileOf(i) = FileOf(k) => i = k

=============================================================================
