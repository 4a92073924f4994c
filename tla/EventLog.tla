------------------------------- MODULE EventLog -------------------------------
(***************************************************************************)
(* The events of the beets clients.  Every beets process (a `beet` command, *)
(* the import worker) runs the beetkeeper plugin, whose listener stamps an  *)
(* event and posts it, one after another; the server stores a push as one   *)
(* row with its children in one transaction (api_routes/events_router.py).  *)
(* A push that fails is logged and dropped.  The events page lists the      *)
(* newest rows and folds the two pushes of an import into one record        *)
(* (adapters/events_adapters.py).                                          *)
(*                                                                         *)
(* A row is told by its event_id, its place in the log.  nr, the import an  *)
(* event comes from, is no column: it is what the properties compare.       *)
(***************************************************************************)
EXTENDS Naturals, Sequences, FiniteSets

CONSTANTS Clients,    \* the beets processes
          MaxDrops,   \* bound: how many pushes are lost
          MaxTime,    \* bound: how many times the clock advances
          MaxSkew,    \* _MERGE_PARTNER_MAX_SKEW
          PageSize    \* EVENT_UI_PAGE_SIZE

ASSUME EventAssumption == {MaxDrops, MaxTime, MaxSkew, PageSize} \subseteq Nat

VARIABLES log,      \* listener_event with its children, by event_id
          queue,    \* client -> the events its beets operation has yet to push
          posting,  \* client -> whether the first of them is stamped and under way
          now,
          drops,    \* how many pushes were lost
          overtaken \* which pushes were stored late: "import", of an entry that is
                    \* gone, "removal", of an id that is in use again

eventVars == <<log, queue, posting, now, drops, overtaken>>

InitEvents ==
    /\ log = <<>>
    /\ queue = [c \in Clients |-> <<>>]
    /\ posting = [c \in Clients |-> FALSE]
    /\ now = 0
    /\ drops = 0
    /\ overtaken = {}

-----------------------------------------------------------------------------
(* What a beets operation pushes.  album = 0: a standalone track.           *)

EventOf(type, e) == [type |-> type, nr |-> e.nr, album |-> e.album, track |-> e.track,
                     folder |-> e.folder, at |-> 0]

ImportPushes(e) == <<EventOf("import_task_files", e),
                     EventOf(IF e.album # 0 THEN "album_imported" ELSE "item_imported", e)>>

RemovalPushes(e) == (IF e.album # 0 THEN <<EventOf("album_removed", e)>> ELSE <<>>)
                    \o <<EventOf("item_removed", e)>>

Removals == {"album_removed", "item_removed"}

Idle(c) == queue[c] = <<>>

-----------------------------------------------------------------------------
(* _handle_event: the time is taken as the body is built.                  *)

Post(c) ==
    /\ ~Idle(c) /\ ~posting[c]
    /\ posting' = [posting EXCEPT ![c] = TRUE]
    /\ queue' = [queue EXCEPT ![c][1].at = now]
    /\ UNCHANGED <<log, now, drops, overtaken>>

Answered(c) == /\ posting' = [posting EXCEPT ![c] = FALSE]
               /\ queue' = [queue EXCEPT ![c] = Tail(@)]

-----------------------------------------------------------------------------
(* The children of a row (api/api_routes/events_router.py), 0 being NULL:   *)
(* an album push has an album row, any other a track row per track, which  *)
(* names its album, and import_task_files the source paths besides.        *)

AlbumRows(e) == IF e.type \in {"album_imported", "album_removed"} THEN {e.album} ELSE {}

TrackRows(e) == IF e.type \in {"item_imported", "item_removed", "import_task_files"}
                THEN {[track |-> e.track, album |-> e.album]} ELSE {}

PathRows(e) == IF e.type = "import_task_files" THEN {e.folder} ELSE {}

\* present: the entries of the library.
Late(e, present) ==
    IF e.type \notin Removals
    THEN IF \E f \in present : f.nr = e.nr THEN {} ELSE {"import"}
    ELSE IF \E f \in present : \/ AlbumRows(e) = {f.album}
                               \/ \E row \in TrackRows(e) : row.track = f.track
         THEN {"removal"} ELSE {}

Store(c, present) ==
    /\ posting[c]
    /\ log' = Append(log, Head(queue[c]))
    /\ Answered(c)
    /\ overtaken' = overtaken \union Late(Head(queue[c]), present)
    /\ UNCHANGED <<now, drops>>

\* The server is down, or answers with an error, and has not stored the push; the
\* plugin goes on.
Drop(c) ==
    /\ posting[c] /\ drops < MaxDrops
    /\ Answered(c)
    /\ drops' = drops + 1
    /\ UNCHANGED <<log, now, overtaken>>

Tick ==
    /\ now < MaxTime
    /\ now' = now + 1
    /\ UNCHANGED <<log, queue, posting, drops, overtaken>>

-----------------------------------------------------------------------------
(* The listing of the newest events, and the lookups by id.                *)

Newer_Bug(i, j) == log[i].at > log[j].at \/ (log[i].at = log[j].at /\ i < j)

Newer(i, j) == log[i].at > log[j].at \/ (log[i].at = log[j].at /\ i > j)

\* The k-th row is the one that k - 1 others precede.
NewestFirst(rows) ==
    LET ranked == {<<i, Cardinality({j \in rows : Newer(j, i)})>> : i \in rows}
    IN  [k \in 1..Cardinality(rows) |-> (CHOOSE r \in ranked : r[2] = k - 1)[1]]

Newest == NewestFirst(DOMAIN log)

\* listener_event_records_lookup: a page of event ids, the first one.
Page == SubSeq(Newest, 1, IF Len(log) < PageSize THEN Len(log) ELSE PageSize)

\* listener_event_lookup_by_type_and_id: the album lookup joins the album rows
\* only, a track's the track rows.
Names(e, field, id) == IF field = "album" THEN id \in AlbumRows(e)
                       ELSE \E row \in TrackRows(e) : row.track = id

Lookup(field, id) == NewestFirst({i \in DOMAIN log : Names(log[i], field, id)})

\* What a listed event shows: import_task_files has its albums from its tracks.
AlbumIds(e) == (AlbumRows(e) \union (IF e.type = "import_task_files"
                                     THEN {row.album : row \in TrackRows(e)} ELSE {})) \ {0}

TrackIds(e) == {row.track : row \in TrackRows(e)}

-----------------------------------------------------------------------------
(* merge_import_event_records.                                             *)

\* An imported event and an import_task_files event that share the subject's id.
Pairable_Bug(event, files) ==
    /\ event.type \in {"album_imported", "item_imported"}
    /\ files.type = "import_task_files"
    /\ event.album = files.album

Pairable(event, files) ==
    /\ files.type = "import_task_files"
    /\ \/ event.type = "album_imported" /\ AlbumIds(event) \intersect AlbumIds(files) # {}
       \/ event.type = "item_imported" /\ TrackIds(event) \intersect TrackIds(files) # {}

\* The nearest older partner on the page that is not taken, or 0.  The search
\* ends at the first event too far away in time, whatever it is.
Partner(page, k, taken) ==
    LET Older == (k + 1)..Len(page)
        Near == {m \in Older : \A n \in (k + 1)..m :
                                   log[page[k]].at - log[page[n]].at <= MaxSkew}
        Fits == {m \in Near \ taken : Pairable(log[page[k]], log[page[m]])}
    IN  IF Fits = {} THEN 0 ELSE CHOOSE m \in Fits : \A n \in Fits : m <= n

\* The pairs shown as one record, found from the newest event on.
Pairs_Bug(page) ==
    LET P[k \in 0..Len(page)] ==
            IF k = 0 THEN {}
            ELSE LET m == Partner(page, k, {})
                 IN  IF m = 0 THEN P[k - 1] ELSE P[k - 1] \union {<<k, m>>}
    IN  P[Len(page)]

Pairs(page) ==
    LET P[k \in 0..Len(page)] ==
            IF k = 0 THEN {}
            ELSE LET newer == P[k - 1]
                     taken == {p[2] : p \in newer}
                     m == IF k \in taken THEN 0 ELSE Partner(page, k, taken)
                 IN  IF m = 0 THEN newer ELSE newer \union {<<k, m>>}
    IN  P[Len(page)]

\* A record of the page: the places it stands for, and what it shows.
Single(page, k) == LET e == log[page[k]]
                   IN  [of |-> {k}, label |-> e.type, albums |-> AlbumIds(e),
                        tracks |-> TrackIds(e), folders |-> PathRows(e)]

Merged(page, k, m) ==
    LET e == log[page[k]] files == log[page[m]]
    IN  [of |-> {k, m}, label |-> e.type, albums |-> AlbumIds(e) \union AlbumIds(files),
         tracks |-> TrackIds(e) \union TrackIds(files), folders |-> PathRows(files)]

Display(page) ==
    LET pairs == Pairs(page)
        paired == UNION {{p[1], p[2]} : p \in pairs}
    IN  {Merged(page, p[1], p[2]) : p \in pairs}
          \union {Single(page, k) : k \in DOMAIN page \ paired}

-----------------------------------------------------------------------------
(* search_adapters: the newest folder recorded for an id, or none.          *)

Recorded_Bug(field, id) ==
    LET rows == {i \in DOMAIN log : log[i].type = "import_task_files" /\ log[i][field] = id}
    IN  {log[i].folder : i \in {j \in rows : \A k \in rows : k >= j}}

Recorded(field, id) ==
    LET rows == {i \in DOMAIN log : log[i].type = "import_task_files" /\ log[i][field] = id}
    IN  {log[i].folder : i \in {j \in rows : \A k \in rows : k <= j}}

-----------------------------------------------------------------------------
(* What is checked of it.                                                  *)

AllInOrder == drops = 0 /\ "import" \notin overtaken

\* Every event of the page is shown by exactly one of its records, which shows
\* its albums, its tracks and its folders: merging hides nothing and repeats
\* nothing, also where a push of an import with the same id was lost
\* (adapters/events_adapters.py:191-237).
EveryEventShownOnce ==
    LET page == Page
        records == Display(page)
    IN  \A k \in DOMAIN page :
            LET shown == {d \in records : k \in d.of}
            IN  /\ Cardinality(shown) = 1
                /\ \A d \in shown : /\ AlbumIds(log[page[k]]) \subseteq d.albums
                                    /\ TrackIds(log[page[k]]) \subseteq d.tracks
                                    /\ PathRows(log[page[k]]) \subseteq d.folders

\* A record shown as one import joins the two pushes of one import, also where
\* beets has given a freed id away again within the minute, and two pushes of
\* one import that are on the page and near in time are joined: as long as no
\* push was lost or overtaken by the removal of its entry
\* (adapters/events_adapters.py:176-190, 247-250).
PairsAreImports ==
    AllInOrder =>
        LET page == Page
            pairs == Pairs(page)
            SameImport(k, m) == log[page[k]].nr = log[page[m]].nr
        IN  /\ \A p \in pairs : SameImport(p[1], p[2])
            /\ \A k, m \in DOMAIN page :
                  /\ SameImport(k, m) /\ Pairable(log[page[k]], log[page[m]])
                  /\ log[page[k]].at - log[page[m]].at <= MaxSkew
                  => <<k, m>> \in pairs
=============================================================================
