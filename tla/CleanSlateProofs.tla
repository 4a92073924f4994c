--------------------------- MODULE CleanSlateProofs ---------------------------
(***************************************************************************)
(* What a clean slate keeps, for all libraries, disks and sources.  Each   *)
(* fact about the job is an invariant of its own on top of the types.      *)
(***************************************************************************)
EXTENDS CleanSlate, FiniteSetTheorems, TLAPS

-----------------------------------------------------------------------------
(* Types.                                                                  *)

LEMMA FiniteParts ==
    /\ \A S \in SUBSET File : IsFiniteSet(S) /\ Cardinality(S) \in Nat
    /\ \A S \in SUBSET Item : IsFiniteSet(S) /\ Cardinality(S) \in Nat
BY FS_Subset, FS_CardinalityType, SlateAssumption

LEMMA EntryIsItems ==
    ASSUME TypeOK, NEW t \in Row, t \in rows
    PROVE  Entry(t) \subseteq Item /\ Present(t) \subseteq Item
BY DEF TypeOK, Entry, Present, Row, Item

LEMMA PlanIsParts ==
    ASSUME TypeOK, NEW t \in Row, NEW s \in Source, t \in rows
    PROVE  Plan(t, s) \subseteq Part
BY EntryIsItems DEF Plan, Part

LEMMA ReadableIsFinite ==
    ASSUME NEW s \in Source
    PROVE  /\ Readable(s) \subseteq File
           /\ IsFiniteSet(Readable(s))
           /\ Cardinality(Readable(s)) \in Nat
<1>1. Readable(s) \subseteq File
  BY SlateAssumption DEF Readable
<1> QED
  BY <1>1, FiniteParts

LEMMA FileOfPart ==
    ASSUME NEW i \in Part
    PROVE  FileOf(i) \in File /\ PathOf[i] \in Path
BY SlateAssumption DEF FileOf

LEMMA NewIsJob ==
    ASSUME NEW t \in Row, NEW s \in Source, NEW optIn \in BOOLEAN
    PROVE  /\ New(t, s, optIn) \in Job
           /\ [New(t, s, optIn) EXCEPT !.pc = "none"] \in Job
<1>1. Art \in Part /\ 0 \in Nat /\ 0 \in 0..MaxChanges
  BY SlateAssumption DEF Part
<1>2. New(t, s, optIn) \in Job
  BY <1>1 DEF New, Job
<1> QED
  BY <1>2 DEF Job

LEMMA PassedIsJob ==
    ASSUME TypeOK, job.target \in rows
    PROVE  Passed \in Job
<1>1. Present(job.target) \in SUBSET Item /\ Cardinality(Readable(job.source)) \in Nat
  BY EntryIsItems, ReadableIsFinite DEF TypeOK, Job
<1>2. ASSUME NEW S \in SUBSET Item, NEW n \in Nat, NEW c \in 0..MaxChanges
      PROVE  [job EXCEPT !.pc = "guarded", !.passed = TRUE, !.seen = S,
                         !.audio = n, !.since = c] \in Job
  BY <1>2, Zenon DEF TypeOK, Job
<1> QED
  BY <1>1, <1>2 DEF Passed, TypeOK

\* Updates of the job in the course of its removal.
LEMMA JobUpdates ==
    ASSUME TypeOK
    PROVE  /\ \A c \in {"ended", "importing", "removing"} : [job EXCEPT !.pc = c] \in Job
           /\ \A L \in SUBSET Item, P \in SUBSET Part :
                 [job EXCEPT !.pc = "removing", !.left = L, !.plan = P] \in Job
           /\ \A L \in SUBSET Item, i \in Part, c \in {"unlinking", "removing"} :
                 [job EXCEPT !.left = L, !.item = i, !.pc = c] \in Job
           /\ \A i \in Part, c \in {"unlinking", "importing"} :
                 [job EXCEPT !.item = i, !.pc = c] \in Job
           /\ \A D \in SUBSET File, c \in {"importing", "removing"} :
                 [job EXCEPT !.pc = c, !.deleted = D] \in Job
BY Zenon DEF TypeOK, Job

LEMMA TypesKept == TypeOK /\ [Next]_vars => TypeOK'
<1> SUFFICES ASSUME TypeOK, [Next]_vars
             PROVE  TypeOK'
  OBVIOUS
<1> USE DEF TypeOK
<1>1. ASSUME NEW t \in Row, NEW s \in Source, NEW optIn \in BOOLEAN, Submit(t, s, optIn)
      PROVE  TypeOK'
  BY <1>1, NewIsJob DEF Submit
<1>2. CASE Guard
  <2>1. CASE Accepts(job.target, job.source, job.optIn)
    BY <1>2, <2>1, PassedIsJob DEF Guard, Accepts, ScanPasses
  <2>2. CASE ~Accepts(job.target, job.source, job.optIn)
    BY <1>2, <2>2, JobUpdates DEF Guard
  <2> QED
    BY <2>1, <2>2
<1>3. CASE LoadEntry
  <2>1. job.target \in Row /\ job.source \in Source
    BY DEF Job
  <2>2. CASE job.target \in rows
    <3>1. PICK L \in SUBSET Item, P \in SUBSET Part :
              job' = [job EXCEPT !.pc = "removing", !.left = L, !.plan = P]
      BY <1>3, <2>1, <2>2, EntryIsItems, PlanIsParts DEF LoadEntry
    <3>2. job' \in Job
      BY <3>1, JobUpdates
    <3> QED
      BY <1>3, <3>2 DEF LoadEntry
  <2>3. CASE job.target \notin rows
    BY <1>3, <2>3, JobUpdates DEF LoadEntry
  <2> QED
    BY <2>2, <2>3
<1>4. ASSUME NEW i \in Item, RemoveRow(i)
      PROVE  TypeOK'
  <2>1. i \in Part /\ job.left \ {i} \in SUBSET Item
    BY DEF Part, Job
  <2>2. PICK L \in SUBSET Item, c \in {"unlinking", "removing"} :
            job' = [job EXCEPT !.left = L, !.item = i, !.pc = c]
    BY <1>4, <2>1 DEF RemoveRow
  <2>3. job' \in Job
    BY <2>1, <2>2, JobUpdates
  <2> QED
    BY <1>4, <2>3 DEF RemoveRow
<1>5. CASE Unlink
  <2>1. job.deleted \union ({FileOf(job.item)} \intersect disk) \in SUBSET File
    BY FileOfPart DEF Job
  <2>2. PICK c \in {"importing", "removing"} :
            job' = [job EXCEPT !.pc = c,
                               !.deleted = @ \union ({FileOf(job.item)} \intersect disk)]
    BY <1>5 DEF Unlink
  <2> QED
    BY <1>5, <2>1, <2>2, JobUpdates DEF Unlink
<1>6. CASE UnlinkFails
  BY <1>6, JobUpdates DEF UnlinkFails
<1>7. CASE RemoveAlbum
  <2>1. Art \in Part
    BY DEF Part
  <2>2. PICK c \in {"unlinking", "importing"} : job' = [job EXCEPT !.item = Art, !.pc = c]
    BY <1>7 DEF RemoveAlbum
  <2> QED
    BY <1>7, <2>1, <2>2, JobUpdates DEF RemoveAlbum
<1>8. CASE SingleRemoved
  BY <1>8, JobUpdates DEF SingleRemoved
<1>9. CASE ImportEnds
  BY <1>9, JobUpdates DEF ImportEnds
<1>10. CASE Crash
  BY <1>10, JobUpdates DEF Crash
<1>11. CASE Others
  <2>1. ASSUME Interfere
        PROVE  changes' \in 0..MaxChanges
    BY <2>1, SlateAssumption DEF Interfere
  <2>2. rows' \subseteq Row /\ disk' \subseteq File /\ job' = job /\ Interfere
    BY <1>11 DEF Others, FileVanishes, FileAppears, OthersRemove
  <2> QED
    BY <2>1, <2>2
<1>12. CASE UNCHANGED vars
  BY <1>12 DEF vars
<1> QED
  BY <1>1, <1>2, <1>3, <1>4, <1>5, <1>6, <1>7, <1>8, <1>9, <1>10, <1>11, <1>12
  DEF Next, Removal

LEMMA TypesInitially == Init => TypeOK
<1> SUFFICES ASSUME Init
             PROVE  TypeOK
  OBVIOUS
<1>1. Album \in Row /\ FALSE \in BOOLEAN
  BY DEF Row
<1>2. job \in Job
  BY <1>1, NewIsJob DEF Init
<1> QED
  BY <1>2, SlateAssumption DEF Init, TypeOK

\* Library, disk and job keep their types, whatever fails or interferes.
THEOREM SlateTypes == Spec => []TypeOK
BY TypesInitially, TypesKept, PTL DEF Spec

-----------------------------------------------------------------------------
(* What the removal plans, and what it has deleted.                         *)

RowGone(i) == IF i = Art THEN Album \notin rows ELSE i \notin rows

PlanInv == /\ \A i \in job.plan : PathOf[i] \in Deletable(job.source)
           /\ job.pc = "unlinking" => job.item \in job.plan /\ RowGone(job.item)

DeletedInv == \A f \in job.deleted : \E i \in Part : f = FileOf(i) /\ RowGone(i)

SeenInv == job.optIn \/ Cardinality(job.seen) <= job.audio

KeepInv == TypeOK /\ PlanInv /\ DeletedInv /\ SeenInv

LEMMA KeptInitially == Init => KeepInv
<1> SUFFICES ASSUME Init
             PROVE  KeepInv
  OBVIOUS
<1>1. TypeOK
  BY TypesInitially
<1>2. PICK s \in Source : job = [New(Album, s, FALSE) EXCEPT !.pc = "none"]
  BY DEF Init
<1>3. job.pc = "none" /\ job.plan = {} /\ job.deleted = {} /\ job.seen = {} /\ job.audio = 0
  BY <1>2 DEF New
<1> QED
  BY <1>1, <1>3, FS_EmptySet DEF KeepInv, PlanInv, DeletedInv, SeenInv

\* Rows never come back.
LEMMA RowsShrink == TypeOK /\ [Next]_vars => rows' \subseteq rows
BY DEF Next, Removal, Others, vars, Submit, Guard, LoadEntry, RemoveRow, Unlink,
       UnlinkFails, RemoveAlbum, SingleRemoved, ImportEnds, Crash, FileVanishes,
       FileAppears, OthersRemove

LEMMA GoneForGood ==
    ASSUME TypeOK, [Next]_vars, NEW i \in Part, RowGone(i)
    PROVE  RowGone(i)'
BY RowsShrink DEF RowGone

\* A step that leaves the plan and what was deleted and seen alone.
LEMMA KeptByQuietSteps ==
    ASSUME KeepInv, [Next]_vars, TypeOK',
           job'.plan = job.plan, job'.source = job.source,
           job'.deleted = job.deleted, job'.seen = job.seen,
           job'.audio = job.audio, job'.optIn = job.optIn,
           job'.pc = "unlinking" => job.pc = "unlinking" /\ job'.item = job.item
    PROVE  KeepInv'
<1>1. PlanInv'
  <2>1. Deletable(job.source)' = Deletable(job.source)
    BY DEF Deletable
  <2>2. ASSUME job'.pc = "unlinking"
        PROVE  job'.item \in job'.plan /\ RowGone(job.item)'
    <3>1. job.item \in job.plan /\ RowGone(job.item) /\ job'.item = job.item
      BY <2>2 DEF KeepInv, PlanInv
    <3>2. PICK i \in Part : i = job.item /\ RowGone(i)
      BY <3>1 DEF KeepInv, TypeOK, Job
    <3>3. RowGone(i)'
      BY <3>2, GoneForGood DEF KeepInv
    <3> QED
      BY <3>1, <3>2, <3>3 DEF RowGone
  <2> QED
    BY <2>1, <2>2 DEF KeepInv, PlanInv
<1>2. DeletedInv'
  BY GoneForGood DEF KeepInv, DeletedInv, FileOf
<1>3. SeenInv'
  BY DEF KeepInv, SeenInv
<1> QED
  BY <1>1, <1>2, <1>3 DEF KeepInv

LEMMA KeptAlways == KeepInv /\ [Next]_vars => KeepInv'
<1> SUFFICES ASSUME KeepInv, [Next]_vars
             PROVE  KeepInv'
  OBVIOUS
<1>0. TypeOK /\ TypeOK' /\ job \in Job
  BY TypesKept DEF KeepInv, TypeOK
<1> USE DEF Job
<1>1. ASSUME NEW t \in Row, NEW s \in Source, NEW optIn \in BOOLEAN, Submit(t, s, optIn)
      PROVE  KeepInv'
  <2>1. job'.pc = "pending" /\ job'.plan = {} /\ job'.deleted = {} /\ job'.seen = {}
        /\ job'.audio = 0
    BY <1>1 DEF Submit, New
  <2> QED
    BY <1>0, <2>1, FS_EmptySet DEF KeepInv, PlanInv, DeletedInv, SeenInv
<1>2. CASE Guard
  <2>1. CASE Accepts(job.target, job.source, job.optIn)
    <3>1. job' = Passed
      BY <1>2, <2>1 DEF Guard
    <3>2. /\ job'.pc = "guarded" /\ job'.plan = job.plan /\ job'.source = job.source
          /\ job'.deleted = job.deleted /\ job'.optIn = job.optIn
          /\ job'.seen = Present(job.target)
          /\ job'.audio = Cardinality(Readable(job.source))
      BY <1>0, <3>1 DEF Passed
    <3>3. SeenInv'
      <4>1. Present(job.target) \in SUBSET Item
        BY <1>0, <2>1, EntryIsItems DEF Accepts, ScanPasses
      <4>2. Cardinality(Present(job.target)) \in Nat
            /\ Cardinality(Readable(job.source)) \in Nat
        BY <1>0, <4>1, FiniteParts, ReadableIsFinite
      <4> QED
        BY <2>1, <3>2, <4>2 DEF SeenInv, Accepts, ScanPasses
    <3>4. PlanInv'
      BY <3>2 DEF KeepInv, PlanInv, Deletable
    <3>5. DeletedInv'
      BY <3>2, GoneForGood, <1>0 DEF KeepInv, DeletedInv, FileOf
    <3> QED
      BY <1>0, <3>3, <3>4, <3>5 DEF KeepInv
  <2>2. CASE ~Accepts(job.target, job.source, job.optIn)
    BY <1>0, <1>2, <2>2, KeptByQuietSteps DEF Guard
  <2> QED
    BY <2>1, <2>2
<1>3. CASE LoadEntry
  <2>1. CASE job.target \in rows
    <3>1. /\ job'.pc = "removing" /\ job'.plan = Plan(job.target, job.source)
          /\ job'.source = job.source /\ job'.deleted = job.deleted
          /\ job'.seen = job.seen /\ job'.audio = job.audio /\ job'.optIn = job.optIn
      BY <1>0, <1>3, <2>1 DEF LoadEntry
    <3>2. PlanInv'
      BY <3>1 DEF PlanInv, Plan, Deletable
    <3>3. DeletedInv'
      BY <3>1, GoneForGood, <1>0 DEF KeepInv, DeletedInv, FileOf
    <3>4. SeenInv'
      BY <3>1 DEF KeepInv, SeenInv
    <3> QED
      BY <1>0, <3>2, <3>3, <3>4 DEF KeepInv
  <2>2. CASE job.target \notin rows
    BY <1>0, <1>3, <2>2, KeptByQuietSteps DEF LoadEntry
  <2> QED
    BY <2>1, <2>2
<1>4. ASSUME NEW i \in Item, RemoveRow(i)
      PROVE  KeepInv'
  <2>1. /\ job'.plan = job.plan /\ job'.source = job.source
        /\ job'.deleted = job.deleted /\ job'.seen = job.seen
        /\ job'.audio = job.audio /\ job'.optIn = job.optIn /\ job'.item = i
        /\ job'.pc = "unlinking" => i \in job.plan
    BY <1>0, <1>4 DEF RemoveRow
  <2>2. RowGone(i)'
    BY <1>4, SlateAssumption DEF RemoveRow, RowGone
  <2>3. PlanInv'
    BY <2>1, <2>2 DEF KeepInv, PlanInv, Deletable, RowGone
  <2>4. DeletedInv'
    BY <2>1, GoneForGood, <1>0 DEF KeepInv, DeletedInv, FileOf
  <2>5. SeenInv'
    BY <2>1 DEF KeepInv, SeenInv
  <2> QED
    BY <1>0, <2>3, <2>4, <2>5 DEF KeepInv
<1>5. CASE Unlink
  <2>1. /\ job'.plan = job.plan /\ job'.source = job.source
        /\ job'.seen = job.seen /\ job'.audio = job.audio /\ job'.optIn = job.optIn
        /\ job'.pc # "unlinking"
        /\ job'.deleted = job.deleted \union ({FileOf(job.item)} \intersect disk)
    BY <1>0, <1>5 DEF Unlink
  <2>2. PlanInv'
    BY <2>1 DEF KeepInv, PlanInv, Deletable
  <2>3. job.item \in Part /\ RowGone(job.item)
    BY <1>0, <1>5 DEF Unlink, KeepInv, PlanInv
  <2>4. \A i \in Part : RowGone(i) => RowGone(i)'
    BY GoneForGood, <1>0
  <2>5. DeletedInv'
    BY <2>1, <2>3, <2>4 DEF KeepInv, DeletedInv, FileOf
  <2>6. SeenInv'
    BY <2>1 DEF KeepInv, SeenInv
  <2> QED
    BY <1>0, <2>2, <2>5, <2>6 DEF KeepInv
<1>6. CASE UnlinkFails
  BY <1>0, <1>6, KeptByQuietSteps DEF UnlinkFails
<1>7. CASE RemoveAlbum
  <2>1. /\ job'.plan = job.plan /\ job'.source = job.source
        /\ job'.deleted = job.deleted /\ job'.seen = job.seen
        /\ job'.audio = job.audio /\ job'.optIn = job.optIn /\ job'.item = Art
        /\ job'.pc = "unlinking" => Art \in job.plan
    BY <1>0, <1>7 DEF RemoveAlbum
  <2>2. RowGone(Art)'
    BY <1>7 DEF RemoveAlbum, RowGone
  <2>3. PlanInv'
    BY <2>1, <2>2 DEF KeepInv, PlanInv, Deletable, RowGone
  <2>4. DeletedInv'
    BY <2>1, GoneForGood, <1>0 DEF KeepInv, DeletedInv, FileOf
  <2>5. SeenInv'
    BY <2>1 DEF KeepInv, SeenInv
  <2> QED
    BY <1>0, <2>3, <2>4, <2>5 DEF KeepInv
<1>8. CASE SingleRemoved
  BY <1>0, <1>8, KeptByQuietSteps DEF SingleRemoved
<1>9. CASE ImportEnds
  BY <1>0, <1>9, KeptByQuietSteps DEF ImportEnds
<1>10. CASE Crash
  BY <1>0, <1>10, KeptByQuietSteps DEF Crash
<1>11. CASE Others
  <2>1. job' = job
    BY <1>11 DEF Others, FileVanishes, FileAppears, OthersRemove
  <2> QED
    BY <1>0, <2>1, KeptByQuietSteps
<1>12. CASE UNCHANGED vars
  <2>1. job' = job
    BY <1>12 DEF vars
  <2> QED
    BY <1>0, <2>1, KeptByQuietSteps
<1> QED
  BY <1>1, <1>2, <1>3, <1>4, <1>5, <1>6, <1>7, <1>8, <1>9, <1>10, <1>11, <1>12
  DEF Next, Removal

LEMMA AlwaysKept == Spec => []KeepInv
BY KeptInitially, KeptAlways, PTL DEF Spec

\* If rows do not share files, no row is left pointing at a file the clean
\* slate has deleted, wherever the removal stops.
THEOREM NoRowOutlivesItsFile == ASSUME OwnFiles
                                PROVE  Spec => []RowsOutliveFiles
<1>1. KeepInv => RowsOutliveFiles
  BY SlateAssumption DEF KeepInv, DeletedInv, RowGone, RowsOutliveFiles, OwnFiles, Part
<1> QED
  BY <1>1, AlwaysKept, PTL

\* A clean slate deletes no more of the files its guard saw than the source
\* could replace, unless the user opted in.
THEOREM ReplacementsSuffice == Spec => []CanBeReplaced
<1>1. KeepInv => CanBeReplaced
  <2> SUFFICES ASSUME KeepInv, ~job.optIn
               PROVE  Cardinality({i \in job.seen : FileOf(i) \in job.deleted}) <= job.audio
    BY DEF CanBeReplaced
  <2> DEFINE Lost == {i \in job.seen : FileOf(i) \in job.deleted}
  <2>1. job.seen \in SUBSET Item /\ Lost \in SUBSET Item /\ Lost \subseteq job.seen
        /\ job.audio \in Nat
    BY DEF KeepInv, TypeOK, Job
  <2>2. IsFiniteSet(job.seen) /\ Cardinality(job.seen) \in Nat /\ Cardinality(Lost) \in Nat
    BY <2>1, FiniteParts
  <2>3. Cardinality(Lost) <= Cardinality(job.seen)
    BY <2>1, <2>2, FS_Subset
  <2> QED
    BY <2>1, <2>2, <2>3 DEF KeepInv, SeenInv
<1> QED
  BY <1>1, AlwaysKept, PTL

-----------------------------------------------------------------------------
(* The source.                                                             *)

\* What is unlinked lies in the library by name, and not under the source.
LEMMA UnlinksNoSource ==
    ASSUME NoAliases, KeepInv, job.pc = "unlinking"
    PROVE  FileOf(job.item) \notin Holds[job.source]
<1>1. job.item \in Part /\ job.source \in Source
  BY DEF KeepInv, TypeOK, Job
<1>2. PathOf[job.item] \in Path \ Under[job.source]
  BY <1>1, FileOfPart DEF KeepInv, PlanInv, Deletable
<1> QED
  BY <1>1, <1>2 DEF NoAliases, FileOf

LEMMA SourceKept ==
    ASSUME NoAliases, KeepInv, SourceSurvives, [Next]_vars
    PROVE  SourceSurvives'
<1> USE DEF SourceSurvives
<1>0. job \in Job
  BY DEF KeepInv, TypeOK
<1>1. ASSUME NEW t \in Row, NEW s \in Source, NEW optIn \in BOOLEAN, Submit(t, s, optIn)
      PROVE  SourceSurvives'
  BY <1>1 DEF Submit, New
<1>2. CASE Unlink
  <2>1. /\ job'.source = job.source
        /\ job'.deleted = job.deleted \union ({FileOf(job.item)} \intersect disk)
    BY <1>0, <1>2 DEF Unlink, Job
  <2> QED
    BY <1>2, <2>1, UnlinksNoSource DEF Unlink
<1>3. CASE job'.source = job.source /\ job'.deleted = job.deleted
  BY <1>3
<1>4. Guard \/ LoadEntry \/ (\E i \in Item : RemoveRow(i)) \/ UnlinkFails \/ RemoveAlbum
        \/ SingleRemoved \/ ImportEnds \/ Crash \/ Others \/ UNCHANGED vars
      => job'.source = job.source /\ job'.deleted = job.deleted
  BY <1>0 DEF Job, Guard, Passed, LoadEntry, RemoveRow, UnlinkFails, RemoveAlbum,
     SingleRemoved, ImportEnds, Crash, Others, FileVanishes, FileAppears,
     OthersRemove, vars
<1> QED
  BY <1>1, <1>2, <1>3, <1>4 DEF Next, Removal

\* Where no link leads to a file of the source under a name outside of it,
\* a clean slate deletes nothing of its source.
THEOREM SourceIsKept == ASSUME NoAliases
                        PROVE  Spec => []SourceSurvives
<1>1. Init => SourceSurvives
  BY DEF Init, New, SourceSurvives
<1>2. KeepInv /\ SourceSurvives /\ [Next]_vars => SourceSurvives'
  BY SourceKept
<1> QED
  BY <1>1, <1>2, AlwaysKept, PTL DEF Spec

-----------------------------------------------------------------------------
(* Doing it again.                                                         *)

\* What Accepts asks besides the row of the target.
Suitable(t, s, optIn) ==
    /\ t \notin Track
    /\ s \in Allowed
    /\ IF t = Album THEN Readable(s) # {} ELSE Cardinality(Readable(s)) = 1
    /\ optIn \/ Cardinality(Readable(s)) >= Cardinality(Present(t))

RepeatInv ==
    /\ job.since <= changes
    /\ job.pc \in {"none", "pending"} => ~job.passed
    /\ job.passed /\ job.since = changes
         => /\ Suitable(job.target, job.source, job.optIn)
            /\ job.target \in rows \/ Gone(job.target)
            /\ job.pc \in {"removing", "unlinking"} /\ job.target = Album
                 => rows \intersect Track \subseteq job.left

LEMMA SuitableAfter ==
    ASSUME TypeOK, NEW t \in Row, NEW s \in Source, NEW optIn \in BOOLEAN,
           Suitable(t, s, optIn), rows' \subseteq rows, disk' \subseteq disk,
           Readable(s)' = Readable(s)
    PROVE  Suitable(t, s, optIn)'
<1>1. Present(t)' \subseteq Present(t)
  BY DEF Present, Entry, FileOf
<1>2. Present(t) \in SUBSET Item
  BY DEF Suitable, Present, Entry, Row, Item, TypeOK
<1>3. IsFiniteSet(Present(t)) /\ Cardinality(Present(t)) \in Nat
  BY <1>2, FiniteParts
<1>4. Cardinality(Present(t)') <= Cardinality(Present(t)) /\ Cardinality(Present(t)') \in Nat
  BY <1>1, <1>2, <1>3, FS_Subset, FiniteParts
<1>5. Cardinality(Readable(s)) \in Nat
  BY ReadableIsFinite
<1>6. optIn \/ Cardinality(Readable(s)') >= Cardinality(Present(t)')
  BY <1>3, <1>4, <1>5 DEF Suitable
<1>7. IF t = Album THEN Readable(s)' # {} ELSE Cardinality(Readable(s)') = 1
  BY DEF Suitable
<1> QED
  BY <1>6, <1>7 DEF Suitable

\* A step of a job that has passed its guard: rows and files go, the source
\* stays.
LEMMA RepeatStep ==
    ASSUME KeepInv, RepeatInv, [Next]_vars, changes' = changes,
           job'.target = job.target, job'.source = job.source,
           job'.optIn = job.optIn, job'.passed = job.passed,
           job'.since = job.since, job'.pc \notin {"none", "pending"},
           disk' \subseteq disk, Readable(job.source)' = Readable(job.source),
           job.passed /\ job.since = changes
             => /\ job.target \in rows' \/ Gone(job.target)'
                /\ job'.pc \in {"removing", "unlinking"} /\ job.target = Album
                     => rows' \intersect Track \subseteq job'.left
    PROVE  RepeatInv'
<1> SUFFICES ASSUME job.passed, job.since = changes
             PROVE  Suitable(job.target, job.source, job.optIn)'
  BY DEF RepeatInv
<1>1. PICK t \in Row, s \in Source, optIn \in BOOLEAN :
          t = job.target /\ s = job.source /\ optIn = job.optIn
  BY DEF KeepInv, TypeOK, Job
<1>2. Suitable(t, s, optIn)
  BY <1>1 DEF RepeatInv
<1>3. rows' \subseteq rows /\ TypeOK
  BY RowsShrink DEF KeepInv
<1>4. Readable(s)' = Readable(s)
  BY <1>1 DEF Readable
<1>5. Suitable(t, s, optIn)'
  BY <1>2, <1>3, <1>4, SuitableAfter
<1> QED
  BY <1>1, <1>5 DEF Suitable, Readable, Present, Entry

LEMMA RepeatKept ==
    ASSUME NoAliases, KeepInv, RepeatInv, [Next]_vars
    PROVE  RepeatInv'
<1>0. job \in Job /\ TypeOK /\ TypeOK' /\ changes \in Nat /\ job.since \in Nat
  BY TypesKept, SlateAssumption DEF KeepInv, TypeOK, Job
<1>1. ASSUME NEW t \in Row, NEW s \in Source, NEW optIn \in BOOLEAN, Submit(t, s, optIn)
      PROVE  RepeatInv'
  <2>1. job'.pc = "pending" /\ ~job'.passed /\ job'.since = 0 /\ changes' = changes
    BY <1>1 DEF Submit, New
  <2> QED
    BY <1>0, <2>1 DEF RepeatInv
<1>2. CASE Guard
  <2>1. CASE Accepts(job.target, job.source, job.optIn)
    <3>1. /\ job'.pc = "guarded" /\ job'.since = changes /\ changes' = changes
          /\ job'.target = job.target /\ job'.source = job.source
          /\ job'.optIn = job.optIn /\ rows' = rows /\ disk' = disk
      BY <1>0, <1>2, <2>1 DEF Guard, Passed, Job
    <3>2. Suitable(job.target, job.source, job.optIn)'
      BY <2>1, <3>1 DEF Accepts, ScanPasses, Suitable, Readable, Present, Entry, FileOf
    <3> QED
      BY <1>0, <2>1, <3>1, <3>2 DEF RepeatInv, Accepts, ScanPasses
  <2>2. CASE ~Accepts(job.target, job.source, job.optIn)
    <3>1. /\ job'.passed = job.passed /\ job'.since = job.since
          /\ changes' = changes /\ ~job.passed
      BY <1>0, <1>2, <2>2 DEF Guard, RepeatInv, Job
    <3> QED
      BY <3>1 DEF RepeatInv
  <2> QED
    BY <2>1, <2>2
<1>3. CASE LoadEntry
  <2>1. /\ job'.target = job.target /\ job'.source = job.source
        /\ job'.optIn = job.optIn /\ job'.passed = job.passed
        /\ job'.since = job.since /\ job'.pc \notin {"none", "pending"}
        /\ rows' = rows /\ disk' = disk /\ changes' = changes
    BY <1>0, <1>3 DEF LoadEntry, Job
  <2>2. Readable(job.source)' = Readable(job.source)
    BY <2>1 DEF Readable
  <2>3. job'.pc \in {"removing", "unlinking"} /\ job.target = Album
          => rows' \intersect Track \subseteq job'.left
    BY <1>0, <1>3, <2>1 DEF LoadEntry, Job, Entry
  <2>4. job.passed /\ job.since = changes
          => job.target \in rows' \/ Gone(job.target)'
    BY <2>1 DEF RepeatInv, Gone
  <2> QED
    BY <2>1, <2>2, <2>3, <2>4, RepeatStep
<1>4. ASSUME NEW i \in Item, RemoveRow(i)
      PROVE  RepeatInv'
  <2>1. /\ job'.target = job.target /\ job'.source = job.source
        /\ job'.optIn = job.optIn /\ job'.passed = job.passed
        /\ job'.since = job.since /\ job'.pc \notin {"none", "pending"}
        /\ job'.left = job.left \ {i} /\ job.pc = "removing"
        /\ rows' = rows \ {i} /\ disk' = disk /\ changes' = changes
    BY <1>0, <1>4 DEF RemoveRow, Job
  <2>2. Readable(job.source)' = Readable(job.source)
    BY <2>1 DEF Readable
  <2>3. ASSUME job.passed, job.since = changes, job.target = Album
        PROVE  rows' \intersect Track \subseteq job'.left
    BY <2>1, <2>3 DEF RepeatInv
  <2>4. i # Album
    BY SlateAssumption DEF Part
  <2>5. ASSUME job.passed, job.since = changes
        PROVE  job.target \in rows' \/ Gone(job.target)'
    <3>1. job.target \in rows \/ Gone(job.target)
      BY <2>5 DEF RepeatInv
    <3> QED
      BY <2>1, <2>4, <3>1 DEF Gone
  <2> QED
    BY <2>1, <2>2, <2>3, <2>5, RepeatStep
<1>5. CASE Unlink
  <2>1. /\ job'.target = job.target /\ job'.source = job.source
        /\ job'.optIn = job.optIn /\ job'.passed = job.passed
        /\ job'.since = job.since /\ job'.pc \notin {"none", "pending"}
        /\ job'.left = job.left /\ job.pc = "unlinking"
        /\ disk' = disk \ {FileOf(job.item)} /\ rows' = rows /\ changes' = changes
    BY <1>0, <1>5 DEF Unlink, Job
  <2>2. Readable(job.source)' = Readable(job.source)
    BY <2>1, UnlinksNoSource DEF Readable
  <2>3. job.passed /\ job.since = changes
          => /\ job.target \in rows' \/ Gone(job.target)'
             /\ job.target = Album => rows' \intersect Track \subseteq job'.left
    BY <2>1 DEF RepeatInv, Gone
  <2> QED
    BY <2>1, <2>2, <2>3, RepeatStep
<1>6. CASE RemoveAlbum
  <2>1. /\ job'.target = job.target /\ job'.source = job.source
        /\ job'.optIn = job.optIn /\ job'.passed = job.passed
        /\ job'.since = job.since /\ job'.pc \notin {"none", "pending"}
        /\ job'.left = job.left /\ job.pc = "removing" /\ job.left = {}
        /\ job.target = Album
        /\ rows' = rows \ {Album} /\ disk' = disk /\ changes' = changes
    BY <1>0, <1>6 DEF RemoveAlbum, Job
  <2>2. Readable(job.source)' = Readable(job.source)
    BY <2>1 DEF Readable
  <2>3. job.passed /\ job.since = changes => rows' \intersect Track = {}
    BY <2>1 DEF RepeatInv
  <2>4. job.passed /\ job.since = changes => Gone(job.target)'
    BY <2>1, <2>3 DEF Gone
  <2> QED
    BY <2>1, <2>2, <2>3, <2>4, RepeatStep
<1>7. CASE SingleRemoved \/ UnlinkFails \/ ImportEnds \/ Crash
  <2>1. /\ job'.target = job.target /\ job'.source = job.source
        /\ job'.optIn = job.optIn /\ job'.passed = job.passed
        /\ job'.since = job.since /\ job'.pc \in {"importing", "ended"}
        /\ rows' = rows /\ disk' = disk /\ changes' = changes
    BY <1>0, <1>7 DEF SingleRemoved, UnlinkFails, ImportEnds, Crash, Job
  <2>2. Readable(job.source)' = Readable(job.source)
    BY <2>1 DEF Readable
  <2>3. job.passed /\ job.since = changes
          => job.target \in rows' \/ Gone(job.target)'
    BY <2>1 DEF RepeatInv, Gone
  <2> QED
    BY <2>1, <2>2, <2>3, RepeatStep
<1>8. CASE Others
  <2>1. job' = job /\ changes' = changes + 1
    BY <1>8 DEF Others, FileVanishes, FileAppears, OthersRemove, Interfere
  <2> QED
    BY <1>0, <2>1 DEF RepeatInv
<1>9. CASE UNCHANGED vars
  BY <1>9 DEF vars, RepeatInv, Suitable, Gone, Readable, Present, Entry, FileOf
<1> QED
  BY <1>1, <1>2, <1>3, <1>4, <1>5, <1>6, <1>7, <1>8, <1>9 DEF Next, Removal

\* Without such links a clean slate that stopped halfway, at a deletion that
\* failed or with the server, can be repeated or has nothing left to remove.
THEOREM HalfwayCanBeRepeated == ASSUME NoAliases
                                PROVE  Spec => []Repeatable
<1>1. Init => RepeatInv
  <2> SUFFICES ASSUME Init
               PROVE  RepeatInv
    OBVIOUS
  <2>1. job.since = 0 /\ ~job.passed /\ changes = 0
    BY DEF Init, New
  <2> QED
    BY <2>1 DEF RepeatInv
<1>2. KeepInv /\ RepeatInv /\ [Next]_vars => RepeatInv'
  BY RepeatKept
<1>3. RepeatInv => Repeatable
  BY DEF RepeatInv, Repeatable, Suitable, Accepts, ScanPasses
<1> QED
  BY <1>1, <1>2, <1>3, AlwaysKept, PTL DEF Spec

=============================================================================
