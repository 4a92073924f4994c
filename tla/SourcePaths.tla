------------------------------ MODULE SourcePaths ------------------------------
(***************************************************************************)
(* Where the entries of the library came from.  The folder of an import is  *)
(* recorded by the plugin's events (EventLog); for an entry without any, a  *)
(* user may ask the downloader, and a match is kept as an inference         *)
(* (adapters/hooks_adapters.py).  The search page offers the recorded       *)
(* folder, else an inferred one, and links it to a clean slate.  All of it  *)
(* is keyed by beets' ids, and beets gives the highest id away again once   *)
(* its row is deleted.                                                     *)
(*                                                                         *)
(* External: beets' library and its clients, and the downloader, which      *)
(* knows the folder of the entry it is asked about or has no answer.  A     *)
(* folder is imported once; its entry is an album with one track, or a      *)
(* standalone track.                                                       *)
(***************************************************************************)
EXTENDS EventLog

CONSTANTS Threads,     \* the requests to find_missing_source_path under way
          Folders,     \* the folders that are imported
          MaxLooks     \* bound: how many times the downloader is asked

ASSUME PathAssumption == IsFiniteSet(Folders) /\ MaxLooks \in Nat

NoFolder == "no folder"
NoSubject == <<"none", 0>>

VARIABLES library,   \* the entries: [nr, album, track, folder]
          ever,      \* all that ever were
          inferred,  \* inferred_source_path: subject -> folder
          request,   \* thread -> the entry it asked the downloader about
          looks      \* how many times it was asked

pathVars == <<library, ever, inferred, request, looks>>
allVars == <<eventVars, pathVars>>

Ids == 1..Cardinality(Folders)
Entries == [nr : Ids, album : {0} \union Ids, track : Ids, folder : Folders]
Subjects == {"album", "track"} \X Ids
NoRequest == [subject |-> NoSubject, folder |-> NoFolder]

SubjectsOf(e) == {<<"track", e.track>>} \union (IF e.album # 0 THEN {<<"album", e.album>>} ELSE {})
IdOf(e, field) == IF field = "album" THEN e.album ELSE e.track

\* What is asked and inferred is about ids beets gives, and what is inferred is a
\* folder (adapters/hooks_adapters.py:30-61; hooks/downloader_hook.py:123-144).
SourcePathsTypeOK ==
    /\ library \subseteq ever /\ ever \subseteq Entries
    /\ inferred \in [Subjects -> Folders \union {NoFolder}]
    /\ \A t \in Threads : request[t].subject \in Subjects \union {NoSubject}

InitPaths ==
    /\ InitEvents
    /\ library = {} /\ ever = {}
    /\ inferred = [s \in Subjects |-> NoFolder]
    /\ request = [t \in Threads |-> NoRequest]
    /\ looks = 0

-----------------------------------------------------------------------------
(* beets: an id is one more than the highest in its table.                 *)

NextId(used) == CHOOSE n \in Ids : (\A u \in used : u < n) /\ (n = 1 \/ n - 1 \in used)

NewEntry(isAlbum, folder) ==
    [nr |-> Cardinality(ever) + 1,
     album |-> IF isAlbum THEN NextId({e.album : e \in library} \ {0}) ELSE 0,
     track |-> NextId({e.track : e \in library}),
     folder |-> folder]

Import(c) ==
    /\ Idle(c)
    /\ \E isAlbum \in BOOLEAN, folder \in Folders \ {e.folder : e \in ever} :
          LET e == NewEntry(isAlbum, folder)
          IN  /\ library' = library \union {e} /\ ever' = ever \union {e}
              /\ queue' = [queue EXCEPT ![c] = ImportPushes(e)]
    /\ UNCHANGED <<log, posting, now, drops, overtaken, inferred, request, looks>>

Remove(c) ==
    /\ Idle(c)
    /\ \E e \in library : /\ library' = library \ {e}
                          /\ queue' = [queue EXCEPT ![c] = RemovalPushes(e)]
    /\ UNCHANGED <<log, posting, now, drops, overtaken, ever, inferred, request, looks>>

Push(c) ==
    /\ Post(c) \/ Store(c, library) \/ Drop(c)
    /\ UNCHANGED pathVars

-----------------------------------------------------------------------------
(* find_missing_source_path: the entry is looked up and the downloader      *)
(* asked; its answer is written when it comes.                             *)

Look(t) ==
    /\ request[t] = NoRequest /\ looks < MaxLooks
    /\ \E e \in library, s \in Subjects :
          /\ s \in SubjectsOf(e)
          /\ request' = [request EXCEPT ![t] = [subject |-> s, folder |-> e.folder]]
    /\ looks' = looks + 1
    /\ UNCHANGED <<eventVars, library, ever, inferred>>

\* The downloader's reply: none, where the hook is off, the entry has nothing to
\* ask with, the downloader is away, errs or sends no JSON; else its results,
\* NoFolder being one without a path.  Both sides see the folders by the same names.
NoReply == <<"no reply">>

Search(folder) ==
    {NoReply, <<>>, <<NoFolder, folder>>} \union {<<folder, other>> : other \in Folders \union {NoFolder}}

\* An empty path taken for one, Path("") being the directory "." of the server.
Parse_Bug(reply) ==
    IF reply \in {NoReply, <<>>} THEN NoFolder
    ELSE IF Head(reply) = NoFolder THEN "." ELSE Head(reply)

\* Only the first result is used.
Parse(reply) ==
    IF reply \in {NoReply, <<>>} THEN NoFolder ELSE Head(reply)

\* record_inferred_source_path: the newest answer replaces any before it.
RecordInference(subject, folder) == inferred' = [inferred EXCEPT ![subject] = folder]

Answer(t) ==
    /\ request[t] # NoRequest
    /\ request' = [request EXCEPT ![t] = NoRequest]
    /\ \E reply \in Search(request[t].folder) :
          IF Parse(reply) = NoFolder THEN UNCHANGED inferred
          ELSE RecordInference(request[t].subject, Parse(reply))
    /\ UNCHANGED <<eventVars, library, ever, looks>>

-----------------------------------------------------------------------------
PathNext ==
    \/ \E c \in Clients : Import(c) \/ Remove(c) \/ Push(c)
    \/ \E t \in Threads : Look(t) \/ Answer(t)
    \/ Tick /\ UNCHANGED pathVars

PathSpec == InitPaths /\ [][PathNext]_allVars

-----------------------------------------------------------------------------
(* The folder the search page offers first for an entry: the newest         *)
(* recorded, else the inferred one, else, for a track, its album's.         *)

Inference(e, field) ==
    LET own == inferred[<<field, IdOf(e, field)>>]
    IN  IF own # NoFolder \/ field = "album" \/ e.album = 0 THEN own
        ELSE inferred[<<"album", e.album>>]

Offered(e, field) ==
    LET recorded == Recorded(field, IdOf(e, field))
    IN  IF recorded # {} THEN recorded ELSE {Inference(e, field)} \ {NoFolder}

-----------------------------------------------------------------------------
(* What is checked of it, besides EventLog's.                              *)

\* The current state of the subject that a lookup adds to every event it finds.
Current(field, id) == {e \in library : <<field, id>> \in SubjectsOf(e)}

\* Once no push is under way, the newest event found for an id tells whether the
\* library has an entry of that id now, also where the id has changed hands and
\* where clocks stood still: as long as no push was lost, or came late
\* (adapters/events_adapters.py:283-335).
HistoryIsCurrent ==
    (\A c \in Clients : Idle(c)) /\ drops = 0 /\ overtaken = {} =>
        \A field \in {"album", "track"}, id \in Ids :
            LET found == Lookup(field, id)
            IN  IF found = <<>> THEN Current(field, id) = {}
                ELSE (log[Head(found)].type \in Removals) <=> Current(field, id) = {}

IsRecorded(e) == \E i \in DOMAIN log : log[i].type = "import_task_files" /\ log[i].nr = e.nr

Reused(e) == \E f \in ever \ {e} : SubjectsOf(e) \intersect SubjectsOf(f) # {}

\* What the search page offers first for an entry, and links to a clean slate, is
\* the folder it came from: for an entry whose push is stored, also where its id
\* was another's, whose rows and inferences are still there, as long as no push
\* was lost or overtaken; and for an entry whose ids were never another's, whatever
\* was lost, and however late the downloader answers, if anything is offered
\* (api/adapters/search_adapters.py:21-40; search_ui_fragments_router.py:53-58).
OffersOwnFolder ==
    \A e \in library, field \in {"album", "track"} :
        <<field, IdOf(e, field)>> \in SubjectsOf(e) =>
            /\ IsRecorded(e) /\ AllInOrder => Offered(e, field) = {e.folder}
            /\ ~Reused(e) => Offered(e, field) \subseteq {e.folder}
=============================================================================
