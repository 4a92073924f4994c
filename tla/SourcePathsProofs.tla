--------------------------- MODULE SourcePathsProofs ---------------------------
(***************************************************************************)
(* Theorems about the events and the source paths, for every number of     *)
(* clients, requests, folders, lost pushes and moments, and every page     *)
(* size and skew.                                                          *)
(***************************************************************************)
EXTENDS SourcePaths, FiniteSetTheorems, SequenceTheorems, WellFoundedInduction, TLAPS

-----------------------------------------------------------------------------
(* Least numbers, and induction as a fact about sets of numbers: what a    *)
(* theorem with a predicate as a parameter would say.                      *)

LEMMA LeastNumber ==
    ASSUME NEW T \in SUBSET Nat, T # {}
    PROVE  \E x \in T : \A y \in T : x <= y
<1>1. PICK R : IsWellFoundedOn(R, Nat) /\ \A x, y \in Nat : <<y, x>> \in R <=> y < x
  <2>1. IsWellFoundedOn(OpToRel(<, Nat), Nat)
    BY NatLessThanWellFounded
  <2>2. \A x, y \in Nat : <<y, x>> \in OpToRel(<, Nat) <=> y < x
    BY DEF OpToRel
  <2> QED BY <2>1, <2>2
<1>2. T \subseteq Nat
  OBVIOUS
<1>3. PICK x \in T : \A y \in T : ~(<<y, x>> \in R)
  BY <1>1, <1>2, WFMin, Zenon
<1>4. \A y \in T : ~(y < x)
  BY <1>1, <1>2, <1>3, Zenon
<1>5. x \in Nat /\ \A y \in T : y \in Nat
  BY <1>2, Zenon
<1>6. \A y \in T : x <= y
  <2>1. TAKE y \in T
  <2>2. y \in Nat /\ x \in Nat /\ ~(y < x)
    BY <2>1, <1>4, <1>5, Zenon
  <2> QED BY <2>2
<1> QED BY <1>6

LEMMA SetInduction ==
    ASSUME NEW S \in SUBSET Nat, 0 \in S, \A n \in S : n + 1 \in S
    PROVE  S = Nat
<1> SUFFICES ASSUME S # Nat PROVE FALSE
  OBVIOUS
<1>1. Nat \ S # {}
  OBVIOUS
<1>2. PICK x \in Nat \ S : \A y \in Nat \ S : x <= y
  BY <1>1, LeastNumber
<1>3. x - 1 \in Nat /\ x - 1 \notin Nat \ S
  BY <1>2
<1>4. x - 1 \in S /\ x = (x - 1) + 1
  BY <1>2, <1>3
<1> QED BY <1>2, <1>4

\* A set of numbers with a bound has a greatest one.
LEMMA GreatestNumber ==
    ASSUME NEW T \in SUBSET Nat, T # {}, NEW n \in Nat, \A x \in T : x <= n
    PROVE  \E x \in T : \A y \in T : y <= x
<1> DEFINE B == {b \in Nat : \A x \in T : x <= b}
<1>1. PICK b \in B : \A c \in B : b <= c
  <2>1. B \in SUBSET Nat /\ n \in B
    OBVIOUS
  <2> QED BY <2>1, LeastNumber
<1>2. b \in T
  <2> SUFFICES ASSUME b \notin T PROVE FALSE
    OBVIOUS
  <2>1. \A x \in T : x \in Nat /\ x <= b /\ x # b
    BY <1>1
  <2>2. PICK x \in T : TRUE
    OBVIOUS
  <2>3. b - 1 \in B
    BY <1>1, <2>1, <2>2
  <2> QED BY <1>1, <2>3
<1> QED BY <1>1, <1>2

-----------------------------------------------------------------------------
(* The entries: what beets gives them for ids.                             *)

Share(e, f) == SubjectsOf(e) \intersect SubjectsOf(f) # {}

\* Every entry that ever was has a number and a folder of its own, and ids no
\* higher than its number ...
EverInv ==
    /\ library \subseteq ever /\ ever \subseteq Entries
    /\ IsFiniteSet(ever)
    /\ Cardinality(ever) <= Cardinality(Folders)
    /\ \A e, f \in ever : e.nr = f.nr \/ e.folder = f.folder => e = f
    /\ \A e \in ever : /\ e.nr <= Cardinality(ever)
                       /\ e.album <= e.nr /\ e.track <= e.nr

\* ... and one that the library has is the last of those that had its ids.
LatestInv ==
    \A e \in library, f \in ever : f # e /\ Share(e, f) => f.nr < e.nr

\* The next id is above those in use, and no gap is left below it.
LEMMA NextIdIs ==
    ASSUME NEW n \in Nat, n < Cardinality(Folders),
           NEW used \in SUBSET Ids, \A u \in used : u <= n
    PROVE  /\ NextId(used) \in Ids
           /\ NextId(used) <= n + 1
           /\ \A u \in used : u < NextId(used)
<1> DEFINE Free == {k \in Nat \ {0} : \A u \in used : u < k}
<1>1. Cardinality(Folders) \in Nat
  BY FS_CardinalityType, PathAssumption
<1>2. \A u \in used : u \in Nat /\ u # 0
  BY <1>1 DEF Ids
<1>3. n + 1 \in Free
  BY <1>2
<1>4. PICK k \in Free : \A m \in Free : k <= m
  <2>1. Free \in SUBSET Nat
    OBVIOUS
  <2> HIDE DEF Free
  <2> QED BY <1>3, <2>1, LeastNumber
<1>5. k \in Ids /\ \A u \in used : u < k
  BY <1>1, <1>3, <1>4 DEF Ids
<1>6. k = 1 \/ k - 1 \in used
  <2> SUFFICES ASSUME k # 1 PROVE k - 1 \in used
    OBVIOUS
  <2>1. k \in Nat /\ k - 1 \in Nat \ {0} /\ k - 1 \notin Free
    BY <1>4
  <2>2. PICK u \in used : ~(u < k - 1)
    BY <2>1
  <2>3. u = k - 1
    BY <1>2, <1>5, <2>1, <2>2
  <2> QED BY <2>3
<1>7. /\ NextId(used) \in Ids
      /\ \A u \in used : u < NextId(used)
      /\ NextId(used) = 1 \/ NextId(used) - 1 \in used
  BY <1>5, <1>6 DEF NextId
<1> QED BY <1>1, <1>2, <1>7 DEF Ids

\* A folder that was never imported leaves room for another entry.
LEMMA RoomForOne ==
    ASSUME EverInv, NEW folder \in Folders, folder \notin {e.folder : e \in ever}
    PROVE  Cardinality(ever) \in Nat /\ Cardinality(ever) < Cardinality(Folders)
<1> DEFINE F == [e \in ever |-> e.folder]
           T == Folders \ {folder}
<1>1. F \in Injection(ever, T)
  <2>1. F \in [ever -> T]
    BY DEF EverInv, Entries
  <2>2. \A e, f \in DOMAIN F : F[e] = F[f] => e = f
    BY DEF EverInv
  <2> QED BY <2>1, <2>2 DEF Injection, IsInjective
<1>2. IsFiniteSet(T) /\ Cardinality(T) = Cardinality(Folders) - 1
  BY FS_RemoveElement, PathAssumption
<1>3. Cardinality(ever) <= Cardinality(T)
  BY <1>1, <1>2, FS_Injection
<1>4. Cardinality(Folders) \in Nat /\ Cardinality(ever) \in Nat
  BY FS_CardinalityType, PathAssumption DEF EverInv
<1> QED BY <1>2, <1>3, <1>4

\* The entry of an import: it comes after all others, and shares no id with an
\* entry that is there.
LEMMA NewEntryIs ==
    ASSUME EverInv, NEW isAlbum \in BOOLEAN,
           NEW folder \in Folders \ {e.folder : e \in ever}
    PROVE  LET e == NewEntry(isAlbum, folder)
           IN  /\ e \in Entries
               /\ e.nr = Cardinality(ever) + 1 /\ e.folder = folder
               /\ e.album <= e.nr /\ e.track <= e.nr
               /\ \A f \in library : ~Share(e, f) /\ ~Share(f, e)
<1> DEFINE n == Cardinality(ever)
           albums == {e.album : e \in library} \ {0}
           tracks == {e.track : e \in library}
           e == NewEntry(isAlbum, folder)
<1>1. n \in Nat /\ n < Cardinality(Folders) /\ Cardinality(Folders) \in Nat
  BY RoomForOne, FS_CardinalityType, PathAssumption
<1>2. \A f \in library : /\ f \in ever /\ f \in Entries /\ f.nr <= n
                         /\ f.album \in {0} \union Ids /\ f.track \in Ids
                         /\ f.album <= n /\ f.track <= n
  BY <1>1 DEF EverInv, Entries, Ids
<1>3. /\ albums \in SUBSET Ids /\ \A u \in albums : u <= n
      /\ tracks \in SUBSET Ids /\ \A u \in tracks : u <= n
  BY <1>2
<1>4. /\ NextId(albums) \in Ids /\ NextId(albums) <= n + 1
      /\ \A u \in albums : u < NextId(albums)
  BY <1>1, <1>3, NextIdIs
<1>5. /\ NextId(tracks) \in Ids /\ NextId(tracks) <= n + 1
      /\ \A u \in tracks : u < NextId(tracks)
  BY <1>1, <1>3, NextIdIs
<1>6. /\ e.nr = n + 1 /\ e.folder = folder /\ e.track = NextId(tracks)
      /\ e.album = IF isAlbum THEN NextId(albums) ELSE 0
  BY DEF NewEntry
<1>7. e \in Entries
  <2>1. n + 1 \in Ids
    BY <1>1 DEF Ids
  <2> QED BY <1>4, <1>5, <2>1 DEF NewEntry, Entries
<1>8. e.album <= e.nr /\ e.track <= e.nr
  BY <1>1, <1>4, <1>5, <1>6
<1>9. ASSUME NEW f \in library PROVE e.track # f.track /\ (f.album # 0 => e.album # f.album)
  <2>1. f.track \in tracks /\ (f.album # 0 => f.album \in albums)
    OBVIOUS
  <2>2. f.track < e.track
    BY <1>5, <1>6, <2>1
  <2>3. f.album # 0 /\ isAlbum => f.album < e.album
    BY <1>4, <1>6, <2>1
  <2> QED BY <1>2, <1>4, <1>5, <1>6, <2>2, <2>3 DEF Ids
<1>10. ASSUME NEW f \in library PROVE ~Share(e, f) /\ ~Share(f, e)
  <2> HIDE DEF e
  <2> QED BY <1>9 DEF Share, SubjectsOf
<1> QED BY <1>6, <1>7, <1>8, <1>10

LEMMA EntriesKept == EverInv /\ LatestInv /\ [PathNext]_allVars => EverInv' /\ LatestInv'
<1> SUFFICES ASSUME EverInv, LatestInv, [PathNext]_allVars PROVE EverInv' /\ LatestInv'
  OBVIOUS
<1>1. CASE UNCHANGED <<library, ever>>
  BY <1>1 DEF EverInv, LatestInv
<1>2. ASSUME NEW isAlbum \in BOOLEAN, NEW folder \in Folders \ {e.folder : e \in ever},
             library' = library \union {NewEntry(isAlbum, folder)},
             ever' = ever \union {NewEntry(isAlbum, folder)}
      PROVE  EverInv' /\ LatestInv'
  <2> DEFINE e == NewEntry(isAlbum, folder)
  <2>1. /\ e \in Entries
        /\ e.nr = Cardinality(ever) + 1 /\ e.folder = folder
        /\ e.album <= e.nr /\ e.track <= e.nr
        /\ \A f \in library : ~Share(e, f) /\ ~Share(f, e)
    BY NewEntryIs
  <2>2. library' = library \union {e} /\ ever' = ever \union {e}
    BY <1>2
  <2> HIDE DEF e
  <2>3. Cardinality(ever) \in Nat /\ Cardinality(ever) < Cardinality(Folders)
    BY RoomForOne
  <2>4. \A f \in ever : /\ f \in Entries /\ f.nr \in Nat
                        /\ f.nr <= Cardinality(ever) /\ f.folder # folder
    BY <2>3, FS_CardinalityType, PathAssumption DEF EverInv, Entries, Ids
  <2>5. e \notin ever /\ \A f \in ever : f.nr < e.nr
    BY <2>1, <2>3, <2>4
  <2>6. IsFiniteSet(ever') /\ Cardinality(ever') = Cardinality(ever) + 1
    BY <2>2, <2>5, FS_AddElement DEF EverInv
  <2>7. Cardinality(Folders) \in Nat
    BY FS_CardinalityType, PathAssumption
  <2>8. EverInv'
    <3>1. library' \subseteq ever' /\ ever' \subseteq Entries
      BY <2>1, <2>2 DEF EverInv
    <3>2. \A f, g \in ever' : f.nr = g.nr \/ f.folder = g.folder => f = g
      BY <2>1, <2>2, <2>4, <2>5 DEF EverInv
    <3>3. \A f \in ever' : /\ f.nr <= Cardinality(ever')
                           /\ f.album <= f.nr /\ f.track <= f.nr
      BY <2>1, <2>2, <2>3, <2>4, <2>6 DEF EverInv
    <3> QED BY <2>3, <2>6, <2>7, <3>1, <3>2, <3>3 DEF EverInv
  <2>9. LatestInv'
    BY <2>1, <2>2, <2>5 DEF LatestInv, Share
  <2> QED BY <2>8, <2>9
<1>3. ASSUME NEW e \in library, library' = library \ {e}, UNCHANGED ever
      PROVE  EverInv' /\ LatestInv'
  BY <1>3 DEF EverInv, LatestInv, Share
<1>4. ASSUME NEW c \in Clients, Import(c) PROVE EverInv' /\ LatestInv'
  BY <1>2, <1>4 DEF Import
<1>5. ASSUME NEW c \in Clients, Remove(c) PROVE EverInv' /\ LatestInv'
  BY <1>3, <1>5 DEF Remove
<1>6. ASSUME NEW c \in Clients, Push(c) PROVE UNCHANGED <<library, ever>>
  BY <1>6 DEF Push, pathVars
<1>7. ASSUME NEW t \in Threads, Look(t) \/ Answer(t) PROVE UNCHANGED <<library, ever>>
  BY <1>7 DEF Look, Answer
<1>8. UNCHANGED pathVars \/ UNCHANGED allVars => UNCHANGED <<library, ever>>
  BY DEF allVars, pathVars
<1> QED BY <1>1, <1>4, <1>5, <1>6, <1>7, <1>8 DEF PathNext

-----------------------------------------------------------------------------
(* What the downloader is asked, and what is kept of its answers.          *)

\* Every question is about an entry and one of its subjects, and every
\* inference is the folder of an entry that has, or had, that subject.
PathInv ==
    /\ inferred \in [Subjects -> Folders \union {NoFolder}]
    /\ request \in [Threads -> [subject : Subjects, folder : Folders] \union {NoRequest}]
    /\ \A t \in Threads : request[t] # NoRequest =>
          \E e \in ever : /\ request[t].subject \in SubjectsOf(e)
                          /\ request[t].folder = e.folder
    /\ \A s \in Subjects : inferred[s] # NoFolder =>
          \E e \in ever : s \in SubjectsOf(e) /\ inferred[s] = e.folder

\* The first of the downloader's results is the folder it was asked about, or
\* has none.
LEMMA ParseIs ==
    ASSUME NEW folder, NEW reply \in Search(folder)
    PROVE  Parse(reply) \in {folder, NoFolder}
<1>1. CASE reply \in {NoReply, <<>>}
  BY <1>1 DEF Parse
<1>2. CASE reply \notin {NoReply, <<>>}
  <2>1. Head(reply) \in {folder, NoFolder}
    BY <1>2 DEF Search
  <2> QED BY <1>2, <2>1 DEF Parse
<1> QED BY <1>1, <1>2

LEMMA PathsKept == EverInv /\ PathInv /\ [PathNext]_allVars => PathInv'
<1> SUFFICES ASSUME EverInv, PathInv, [PathNext]_allVars PROVE PathInv'
  OBVIOUS
<1>1. ASSUME ever \subseteq ever', UNCHANGED <<inferred, request>> PROVE PathInv'
  BY <1>1 DEF PathInv
<1>2. ASSUME NEW c \in Clients, Import(c) PROVE PathInv'
  BY <1>1, <1>2 DEF Import
<1>3. ASSUME NEW c \in Clients, Remove(c) PROVE PathInv'
  BY <1>1, <1>3 DEF Remove
<1>4. ASSUME NEW c \in Clients, Push(c) PROVE PathInv'
  BY <1>1, <1>4 DEF Push, pathVars
<1>5. ASSUME NEW t \in Threads, Look(t) PROVE PathInv'
  <2>1. PICK e \in library, s \in Subjects :
           /\ s \in SubjectsOf(e)
           /\ request' = [request EXCEPT ![t] = [subject |-> s, folder |-> e.folder]]
    BY <1>5 DEF Look
  <2> DEFINE q == [subject |-> s, folder |-> e.folder]
  <2>2. e \in ever /\ e.folder \in Folders /\ UNCHANGED <<ever, inferred>>
    BY <1>5 DEF Look, EverInv, Entries
  <2>3. q \in [subject : Subjects, folder : Folders]
    BY <2>2
  <2>4. \A u \in Threads : request'[u] = IF u = t THEN q ELSE request[u]
    BY <2>1 DEF PathInv
  <2>5. request' \in [Threads -> [subject : Subjects, folder : Folders] \union {NoRequest}]
    BY <2>1, <2>3 DEF PathInv
  <2>6. \A u \in Threads : request'[u] # NoRequest =>
           \E f \in ever : /\ request'[u].subject \in SubjectsOf(f)
                           /\ request'[u].folder = f.folder
    BY <2>1, <2>2, <2>4 DEF PathInv
  <2> QED BY <2>2, <2>5, <2>6 DEF PathInv
<1>6. ASSUME NEW t \in Threads, Answer(t) PROVE PathInv'
  <2>1. /\ request[t] # NoRequest /\ request' = [request EXCEPT ![t] = NoRequest]
        /\ UNCHANGED ever
    BY <1>6 DEF Answer
  <2> DEFINE q == request[t]
  <2>2. PICK e \in ever : q.subject \in SubjectsOf(e) /\ q.folder = e.folder
    BY <2>1 DEF PathInv
  <2>3. q \in [subject : Subjects, folder : Folders]
    BY <2>1 DEF PathInv
  <2>4. UNCHANGED inferred \/ inferred' = [inferred EXCEPT ![q.subject] = q.folder]
    <3>1. PICK reply \in Search(q.folder) :
             IF Parse(reply) = NoFolder THEN UNCHANGED inferred
             ELSE RecordInference(q.subject, Parse(reply))
      BY <1>6 DEF Answer
    <3> QED BY <3>1, ParseIs DEF RecordInference
  <2>5. /\ inferred' \in [Subjects -> Folders \union {NoFolder}]
        /\ \A s \in Subjects : inferred'[s] \in {inferred[s], IF s = q.subject THEN q.folder
                                                               ELSE inferred[s]}
    BY <2>3, <2>4 DEF PathInv
  <2>6. \A s \in Subjects : inferred'[s] # NoFolder =>
           \E f \in ever : s \in SubjectsOf(f) /\ inferred'[s] = f.folder
    BY <2>2, <2>5 DEF PathInv
  <2>7. request' \in [Threads -> [subject : Subjects, folder : Folders] \union {NoRequest}]
    BY <2>1 DEF PathInv
  <2>8. \A u \in Threads : request'[u] \in {request[u], NoRequest}
    BY <2>1 DEF PathInv
  <2>9. \A u \in Threads : request'[u] # NoRequest =>
           \E f \in ever : /\ request'[u].subject \in SubjectsOf(f)
                           /\ request'[u].folder = f.folder
    BY <2>8 DEF PathInv
  <2> QED BY <2>1, <2>5, <2>6, <2>7, <2>9 DEF PathInv
<1>7. UNCHANGED pathVars \/ UNCHANGED allVars => UNCHANGED <<ever, inferred, request>>
  BY DEF allVars, pathVars
<1> QED BY <1>1, <1>2, <1>3, <1>4, <1>5, <1>6, <1>7 DEF PathNext

-----------------------------------------------------------------------------
(* The pushes: of whom they are, and how far each operation's have come.   *)

EventType == {"import_task_files", "album_imported", "item_imported",
              "album_removed", "item_removed"}

Event == [type : EventType, nr : Ids, album : {0} \union Ids, track : Ids,
          folder : Folders, at : Nat]

IsImport(q) == q.type \notin Removals
Files(q) == q.type = "import_task_files"
Imported(q) == q.type \in {"album_imported", "item_imported"}

\* The event q is about the entry e.
IsOf(q, e) == /\ q.nr = e.nr /\ q.album = e.album
              /\ q.track = e.track /\ q.folder = e.folder

EventInv ==
    /\ log \in Seq(Event)
    /\ queue \in [Clients -> Seq(Event)]
    /\ posting \in [Clients -> BOOLEAN]
    /\ now \in Nat /\ drops \in Nat
    /\ \A c \in Clients : posting[c] => queue[c] # <<>>

\* Events are about entries, and an operation has two pushes at most: those of
\* an import, those of a removal, or the second of them.
PushInv ==
    /\ \A i \in DOMAIN log : \E e \in ever : IsOf(log[i], e)
    /\ \A c \in Clients : \A k \in DOMAIN queue[c] : \E e \in ever : IsOf(queue[c][k], e)
    /\ \A c \in Clients :
          \/ queue[c] = <<>>
          \/ Len(queue[c]) = 1 /\ queue[c][1].type \in {"album_imported", "item_imported",
                                                        "item_removed"}
          \/ /\ Len(queue[c]) = 2
             /\ queue[c][1].nr = queue[c][2].nr
             /\ \/ Files(queue[c][1]) /\ Imported(queue[c][2])
                \/ queue[c][1].type = "album_removed" /\ queue[c][2].type = "item_removed"

LEMMA IdValues == /\ Cardinality(Folders) \in Nat
                  /\ Ids = 1..Cardinality(Folders)
                  /\ Ids \subseteq Nat \ {0}
BY FS_CardinalityType, PathAssumption DEF Ids

LEMMA PushesAre ==
    ASSUME NEW e \in Entries
    PROVE  /\ ImportPushes(e) \in Seq(Event) /\ Len(ImportPushes(e)) = 2
           /\ Files(ImportPushes(e)[1]) /\ Imported(ImportPushes(e)[2])
           /\ RemovalPushes(e) \in Seq(Event)
           /\ e.album = 0 => /\ Len(RemovalPushes(e)) = 1
                             /\ RemovalPushes(e)[1].type = "item_removed"
           /\ e.album # 0 => /\ Len(RemovalPushes(e)) = 2
                             /\ RemovalPushes(e)[1].type = "album_removed"
                             /\ RemovalPushes(e)[2].type = "item_removed"
           /\ \A k \in 1..2 : IsOf(ImportPushes(e)[k], e)
           /\ \A k \in DOMAIN RemovalPushes(e) : IsOf(RemovalPushes(e)[k], e)
<1>1. \A type \in EventType : /\ EventOf(type, e) \in Event
                              /\ EventOf(type, e).type = type
                              /\ IsOf(EventOf(type, e), e)
  BY DEF EventOf, Event, Entries, IsOf
<1> DEFINE ai == EventOf("album_imported", e)
           ii == EventOf("item_imported", e)
           fi == EventOf("import_task_files", e)
           ar == EventOf("album_removed", e)
           ir == EventOf("item_removed", e)
<1>2. /\ {ai, ii, fi, ar, ir} \subseteq Event
      /\ ai.type = "album_imported" /\ ii.type = "item_imported"
      /\ fi.type = "import_task_files" /\ ar.type = "album_removed"
      /\ ir.type = "item_removed"
      /\ IsOf(ai, e) /\ IsOf(ii, e) /\ IsOf(fi, e) /\ IsOf(ar, e) /\ IsOf(ir, e)
  BY <1>1 DEF EventType
<1>3. ImportPushes(e) = <<fi, IF e.album # 0 THEN ai ELSE ii>>
  BY DEF ImportPushes
<1>4. RemovalPushes(e) = IF e.album # 0 THEN <<ar>> \o <<ir>> ELSE <<>> \o <<ir>>
  BY DEF RemovalPushes
<1> HIDE DEF ai, ii, fi, ar, ir
<1>5. <<ar>> \in Seq(Event) /\ <<ir>> \in Seq(Event) /\ <<>> \in Seq(Event)
  BY <1>2
<1>6. /\ <<ar>> \o <<ir>> \in Seq(Event) /\ Len(<<ar>> \o <<ir>>) = 2
      /\ (<<ar>> \o <<ir>>)[1] = ar /\ (<<ar>> \o <<ir>>)[2] = ir
  BY <1>5
<1>7. <<>> \o <<ir>> \in Seq(Event) /\ Len(<<>> \o <<ir>>) = 1 /\ (<<>> \o <<ir>>)[1] = ir
  BY <1>5
<1> DEFINE s == <<ar>> \o <<ir>>
           r == <<>> \o <<ir>>
<1> HIDE DEF s, r
<1>8. /\ ImportPushes(e) \in Seq(Event) /\ Len(ImportPushes(e)) = 2
      /\ Files(ImportPushes(e)[1]) /\ Imported(ImportPushes(e)[2])
      /\ \A k \in 1..2 : IsOf(ImportPushes(e)[k], e)
  BY <1>2, <1>3 DEF Files, Imported
<1>9. /\ RemovalPushes(e) \in Seq(Event)
      /\ e.album = 0 => /\ Len(RemovalPushes(e)) = 1
                        /\ RemovalPushes(e)[1].type = "item_removed"
      /\ e.album # 0 => /\ Len(RemovalPushes(e)) = 2
                        /\ RemovalPushes(e)[1].type = "album_removed"
                        /\ RemovalPushes(e)[2].type = "item_removed"
      /\ \A k \in DOMAIN RemovalPushes(e) : IsOf(RemovalPushes(e)[k], e)
  <2>1. CASE e.album = 0
    <3>1. RemovalPushes(e) = r
      BY <1>4, <2>1 DEF r
    <3>2. r \in Seq(Event) /\ Len(r) = 1 /\ r[1] = ir
      BY <1>7 DEF r
    <3> QED BY <1>2, <2>1, <3>1, <3>2
  <2>2. CASE e.album # 0
    <3>1. RemovalPushes(e) = s
      BY <1>4, <2>2 DEF s
    <3>2. s \in Seq(Event) /\ Len(s) = 2 /\ s[1] = ar /\ s[2] = ir
      BY <1>6 DEF s
    <3> QED BY <1>2, <2>2, <3>1, <3>2
  <2> QED BY <2>1, <2>2
<1> QED BY <1>8, <1>9

\* What the steps of a client do to its pushes.
LEMMA PostIs ==
    ASSUME EventInv, NEW c \in Clients, Post(c)
    PROVE  LET h == queue[c][1]
           IN  /\ h \in Event /\ Len(queue[c]) \in Nat \ {0} /\ ~posting[c]
               /\ queue'[c] \in Seq(Event) /\ Len(queue'[c]) = Len(queue[c])
               /\ queue'[c][1] = [h EXCEPT !.at = now]
               /\ \A k \in DOMAIN queue[c] \ {1} : queue'[c][k] = queue[c][k]
               /\ \A d \in Clients \ {c} : queue'[d] = queue[d] /\ posting'[d] = posting[d]
               /\ posting'[c]
               /\ queue' \in [Clients -> Seq(Event)] /\ posting' \in [Clients -> BOOLEAN]
               /\ UNCHANGED <<log, now, drops, overtaken>>
<1>1. /\ queue[c] \in Seq(Event) /\ queue[c] # <<>> /\ now \in Nat
      /\ queue \in [Clients -> Seq(Event)] /\ posting \in [Clients -> BOOLEAN]
  BY DEF EventInv, Post, Idle
<1> DEFINE s == queue[c]
           h == s[1]
           g == [h EXCEPT !.at = now]
<1>2. Len(s) \in Nat \ {0} /\ DOMAIN s = 1..Len(s) /\ h \in Event /\ s \in Seq(Event)
  BY <1>1
<1>3. g \in Event
  BY <1>1, <1>2 DEF Event
<1>4. queue' = [queue EXCEPT ![c] = [s EXCEPT ![1] = g]]
  BY DEF Post
<1> DEFINE r == [s EXCEPT ![1] = g]
<1>5. /\ r \in Seq(Event) /\ Len(r) = Len(s) /\ r[1] = g
      /\ \A k \in DOMAIN s \ {1} : r[k] = s[k]
  BY <1>2, <1>3
<1> HIDE DEF r, g
<1>6. queue'[c] = r /\ queue' \in [Clients -> Seq(Event)]
  BY <1>1, <1>4, <1>5 DEF r
<1>7. \A d \in Clients \ {c} : queue'[d] = queue[d] /\ posting'[d] = posting[d]
  BY <1>1, <1>4 DEF Post
<1>8. ~posting[c] /\ posting'[c] /\ posting' \in [Clients -> BOOLEAN]
  BY <1>1, Zenon DEF Post
<1> QED BY <1>2, <1>5, <1>6, <1>7, <1>8 DEF Post, g

LEMMA AnsweredIs ==
    ASSUME EventInv, NEW c \in Clients, posting[c], Answered(c)
    PROVE  LET s == queue[c]
           IN  /\ Head(s) = s[1] /\ s[1] \in Event /\ Len(s) \in Nat \ {0}
               /\ queue'[c] = Tail(s) /\ Len(queue'[c]) = Len(s) - 1
               /\ \A k \in DOMAIN queue'[c] : k + 1 \in DOMAIN s /\ queue'[c][k] = s[k + 1]
               /\ \A d \in Clients \ {c} : queue'[d] = queue[d] /\ posting'[d] = posting[d]
               /\ ~posting'[c]
               /\ queue' \in [Clients -> Seq(Event)] /\ posting' \in [Clients -> BOOLEAN]
<1> DEFINE s == queue[c]
<1>1. /\ s \in Seq(Event) /\ s # <<>>
      /\ queue \in [Clients -> Seq(Event)] /\ posting \in [Clients -> BOOLEAN]
  BY DEF EventInv
<1>2. queue' = [queue EXCEPT ![c] = Tail(s)]
  BY DEF Answered
<1>3. Tail(s) \in Seq(Event) /\ Len(Tail(s)) = Len(s) - 1 /\ Len(s) \in Nat \ {0}
  BY <1>1
<1>4. \A k \in 1..(Len(s) - 1) : Tail(s)[k] = s[k + 1] /\ k + 1 \in DOMAIN s
  BY <1>1
<1>5. queue'[c] = Tail(s) /\ queue' \in [Clients -> Seq(Event)]
  BY <1>1, <1>2, <1>3
<1>6. \A d \in Clients \ {c} : queue'[d] = queue[d] /\ posting'[d] = posting[d]
  BY <1>1, <1>2 DEF Answered
<1>7. ~posting'[c] /\ posting' \in [Clients -> BOOLEAN]
  BY <1>1, Zenon DEF Answered
<1>8. DOMAIN queue'[c] = 1..(Len(s) - 1)
  BY <1>3, <1>5
<1>9. Head(s) = s[1] /\ s[1] \in Event
  BY <1>1, <1>3
<1> QED BY <1>3, <1>4, <1>5, <1>6, <1>7, <1>8, <1>9

LEMMA StoreIs ==
    ASSUME EventInv, NEW c \in Clients, Store(c, library)
    PROVE  LET h == queue[c][1]
           IN  /\ posting[c] /\ Answered(c) /\ h \in Event
               /\ log' \in Seq(Event) /\ Len(log') = Len(log) + 1
               /\ DOMAIN log = 1..Len(log) /\ DOMAIN log' = 1..(Len(log) + 1)
               /\ DOMAIN log' = DOMAIN log \union {Len(log) + 1}
               /\ Len(log) \in Nat
               /\ \A i \in DOMAIN log : log'[i] = log[i]
               /\ log'[Len(log) + 1] = h
               /\ overtaken' = overtaken \union Late(h, library)
               /\ UNCHANGED <<now, drops>>
<1>1. posting[c] /\ Answered(c)
  BY DEF Store
<1>2. Head(queue[c]) = queue[c][1] /\ queue[c][1] \in Event
  BY <1>1, AnsweredIs
<1>3. log \in Seq(Event)
  BY DEF EventInv
<1> DEFINE h == queue[c][1]
<1>4. /\ log' = Append(log, h) /\ overtaken' = overtaken \union Late(h, library)
      /\ UNCHANGED <<now, drops>>
  BY <1>2 DEF Store
<1>5. /\ log' \in Seq(Event) /\ Len(log') = Len(log) + 1 /\ Len(log) \in Nat
      /\ DOMAIN log = 1..Len(log)
      /\ \A i \in 1..Len(log) : log'[i] = log[i]
      /\ log'[Len(log) + 1] = h
  BY <1>2, <1>3, <1>4
<1>6. DOMAIN log' = 1..(Len(log) + 1)
  BY <1>5
<1>7. 1..(Len(log) + 1) = (1..Len(log)) \union {Len(log) + 1}
  BY <1>5
<1> QED BY <1>1, <1>2, <1>4, <1>5, <1>6, <1>7

\* The steps, as the pushes see them.
LEMMA StepsAre ==
    ASSUME [PathNext]_allVars
    PROVE  \/ UNCHANGED <<eventVars, library, ever>>
           \/ \E c \in Clients : Import(c) \/ Remove(c)
           \/ \E c \in Clients : /\ Post(c) \/ Store(c, library) \/ Drop(c)
                                 /\ UNCHANGED <<library, ever>>
           \/ Tick /\ UNCHANGED <<library, ever>>
BY DEF PathNext, Push, Look, Answer, allVars, pathVars

LEMMA ImportIs ==
    ASSUME EverInv, EventInv, NEW c \in Clients, Import(c)
    PROVE  \E e \in Entries :
              /\ library' = library \union {e} /\ ever' = ever \union {e}
              /\ \A f \in ever : f.nr < e.nr
              /\ queue[c] = <<>> /\ ~posting[c]
              /\ queue'[c] = ImportPushes(e)
              /\ \A d \in Clients \ {c} : queue'[d] = queue[d]
              /\ queue' \in [Clients -> Seq(Event)]
              /\ UNCHANGED <<log, posting, now, drops, overtaken>>
<1>1. PICK isAlbum \in BOOLEAN, folder \in Folders \ {e.folder : e \in ever} :
         LET e == NewEntry(isAlbum, folder)
         IN  /\ library' = library \union {e} /\ ever' = ever \union {e}
             /\ queue' = [queue EXCEPT ![c] = ImportPushes(e)]
  BY DEF Import
<1> DEFINE e == NewEntry(isAlbum, folder)
<1>2. e \in Entries /\ e.nr = Cardinality(ever) + 1
  BY NewEntryIs
<1>3. /\ library' = library \union {e} /\ ever' = ever \union {e}
      /\ queue' = [queue EXCEPT ![c] = ImportPushes(e)]
  BY <1>1
<1> HIDE DEF e
<1>4. \A f \in ever : f.nr < e.nr
  BY <1>2, FS_CardinalityType, IdValues DEF EverInv, Entries
<1>5. ImportPushes(e) \in Seq(Event)
  BY <1>2, PushesAre
<1>6. queue[c] = <<>> /\ ~posting[c]
  BY DEF Import, Idle, EventInv
<1>7. /\ queue'[c] = ImportPushes(e) /\ queue' \in [Clients -> Seq(Event)]
      /\ \A d \in Clients \ {c} : queue'[d] = queue[d]
  BY <1>3, <1>5 DEF EventInv
<1> QED BY <1>2, <1>3, <1>4, <1>6, <1>7 DEF Import

LEMMA RemoveIs ==
    ASSUME EverInv, EventInv, NEW c \in Clients, Remove(c)
    PROVE  \E e \in library :
              /\ e \in ever /\ e \in Entries
              /\ library' = library \ {e}
              /\ queue[c] = <<>> /\ ~posting[c]
              /\ queue'[c] = RemovalPushes(e)
              /\ \A d \in Clients \ {c} : queue'[d] = queue[d]
              /\ queue' \in [Clients -> Seq(Event)]
              /\ UNCHANGED <<log, posting, now, drops, overtaken, ever>>
<1>1. PICK e \in library : /\ library' = library \ {e}
                           /\ queue' = [queue EXCEPT ![c] = RemovalPushes(e)]
  BY DEF Remove
<1>2. e \in ever /\ e \in Entries
  BY DEF EverInv
<1>3. RemovalPushes(e) \in Seq(Event)
  BY <1>2, PushesAre
<1>4. queue[c] = <<>> /\ ~posting[c]
  BY DEF Remove, Idle, EventInv
<1>5. /\ queue'[c] = RemovalPushes(e) /\ queue' \in [Clients -> Seq(Event)]
      /\ \A d \in Clients \ {c} : queue'[d] = queue[d]
  BY <1>1, <1>3 DEF EventInv
<1> QED BY <1>1, <1>2, <1>4, <1>5 DEF Remove

LEMMA EventsKept ==
    EverInv /\ EventInv /\ PushInv /\ [PathNext]_allVars => EventInv' /\ PushInv'
<1> SUFFICES ASSUME EverInv, EventInv, PushInv, [PathNext]_allVars
             PROVE  EventInv' /\ PushInv'
  OBVIOUS
<1>1. CASE UNCHANGED <<eventVars, library, ever>>
  BY <1>1 DEF eventVars, EventInv, PushInv
<1>2. ASSUME NEW c \in Clients, Import(c) PROVE EventInv' /\ PushInv'
  <2>1. PICK e \in Entries :
              /\ ever' = ever \union {e}
              /\ queue[c] = <<>> /\ ~posting[c]
              /\ queue'[c] = ImportPushes(e)
              /\ \A d \in Clients \ {c} : queue'[d] = queue[d]
              /\ queue' \in [Clients -> Seq(Event)]
              /\ UNCHANGED <<log, posting, now, drops>>
    BY <1>2, ImportIs
  <2>2. /\ ImportPushes(e) \in Seq(Event) /\ Len(ImportPushes(e)) = 2
        /\ Files(ImportPushes(e)[1]) /\ Imported(ImportPushes(e)[2])
        /\ \A k \in 1..2 : IsOf(ImportPushes(e)[k], e)
    BY PushesAre
  <2>3. DOMAIN ImportPushes(e) = 1..2 /\ ImportPushes(e)[1].nr = ImportPushes(e)[2].nr
    BY <2>2 DEF IsOf
  <2>4. EventInv'
    BY <2>1, <2>2 DEF EventInv
  <2>5. PushInv'
    <3>1. \A i \in DOMAIN log' : \E f \in ever' : IsOf(log'[i], f)
      BY <2>1 DEF PushInv
    <3>2. \A d \in Clients : \A k \in DOMAIN queue'[d] : \E f \in ever' : IsOf(queue'[d][k], f)
      BY <2>1, <2>2, <2>3 DEF PushInv
    <3> QED BY <2>1, <2>2, <2>3, <3>1, <3>2 DEF PushInv
  <2> QED BY <2>4, <2>5
<1>3. ASSUME NEW c \in Clients, Remove(c) PROVE EventInv' /\ PushInv'
  <2>1. PICK e \in library :
              /\ e \in ever /\ e \in Entries
              /\ queue[c] = <<>> /\ ~posting[c]
              /\ queue'[c] = RemovalPushes(e)
              /\ \A d \in Clients \ {c} : queue'[d] = queue[d]
              /\ queue' \in [Clients -> Seq(Event)]
              /\ UNCHANGED <<log, posting, now, drops, ever>>
    BY <1>3, RemoveIs
  <2> DEFINE r == RemovalPushes(e)
  <2>2. /\ r \in Seq(Event)
        /\ \/ Len(r) = 1 /\ r[1].type = "item_removed"
           \/ Len(r) = 2 /\ r[1].type = "album_removed" /\ r[2].type = "item_removed"
        /\ \A k \in DOMAIN r : IsOf(r[k], e)
    BY <2>1, PushesAre
  <2>3. Len(r) = 2 => r[1].nr = r[2].nr
    BY <2>2 DEF IsOf
  <2> HIDE DEF r
  <2>4. EventInv'
    BY <2>1, <2>2 DEF EventInv
  <2>5. PushInv'
    <3>1. queue'[c] = r
      BY <2>1 DEF r
    <3>2. \A d \in Clients : \A k \in DOMAIN queue'[d] : \E f \in ever' : IsOf(queue'[d][k], f)
      BY <2>1, <2>2, <3>1 DEF PushInv
    <3> QED BY <2>1, <2>2, <2>3, <3>1, <3>2 DEF PushInv
  <2> QED BY <2>4, <2>5
<1>4. ASSUME NEW c \in Clients, Post(c), UNCHANGED <<library, ever>>
      PROVE  EventInv' /\ PushInv'
  <2> DEFINE h == queue[c][1]
             g == [h EXCEPT !.at = now]
  <2>1. /\ h \in Event /\ Len(queue[c]) \in Nat \ {0}
        /\ queue'[c] \in Seq(Event) /\ Len(queue'[c]) = Len(queue[c])
        /\ queue'[c][1] = g
        /\ \A k \in DOMAIN queue[c] \ {1} : queue'[c][k] = queue[c][k]
        /\ \A d \in Clients \ {c} : queue'[d] = queue[d] /\ posting'[d] = posting[d]
        /\ posting'[c]
        /\ queue' \in [Clients -> Seq(Event)] /\ posting' \in [Clients -> BOOLEAN]
        /\ UNCHANGED <<log, now, drops>>
    BY <1>4, PostIs
  <2>2. /\ g.type = h.type /\ g.nr = h.nr
        /\ \A f : IsOf(h, f) => IsOf(g, f)
    BY <2>1 DEF Event, IsOf
  <2> HIDE DEF g
  <2>3. queue[c] \in Seq(Event)
    BY DEF EventInv
  <2>4. DOMAIN queue'[c] = 1..Len(queue[c]) /\ DOMAIN queue[c] = 1..Len(queue[c])
    BY <2>1, <2>3
  <2>5. EventInv'
    <3>1. \A d \in Clients : posting'[d] => queue'[d] # <<>>
      BY <2>1 DEF EventInv
    <3> QED BY <2>1, <3>1 DEF EventInv
  <2>6. \A d \in Clients : \A k \in DOMAIN queue'[d] : \E f \in ever : IsOf(queue'[d][k], f)
    <3> SUFFICES ASSUME NEW k \in DOMAIN queue'[c]
                 PROVE  \E f \in ever : IsOf(queue'[c][k], f)
      BY <2>1 DEF PushInv
    <3>1. PICK f \in ever : IsOf(queue[c][k], f)
      BY <2>4 DEF PushInv
    <3>2. IsOf(queue'[c][k], f)
      BY <2>1, <2>2, <2>4, <3>1
    <3> QED BY <3>2
  <2>7. ASSUME NEW d \in Clients
        PROVE  \/ queue'[d] = <<>>
               \/ Len(queue'[d]) = 1 /\ queue'[d][1].type \in {"album_imported", "item_imported",
                                                               "item_removed"}
               \/ /\ Len(queue'[d]) = 2
                  /\ queue'[d][1].nr = queue'[d][2].nr
                  /\ \/ Files(queue'[d][1]) /\ Imported(queue'[d][2])
                     \/ queue'[d][1].type = "album_removed" /\ queue'[d][2].type = "item_removed"
    <3>1. CASE d # c
      BY <2>1, <3>1 DEF PushInv
    <3>2. CASE d = c
      <4>1. ASSUME Len(queue[c]) = 2 PROVE queue'[c][2] = queue[c][2]
        <5>1. 2 \in DOMAIN queue[c] \ {1}
          BY <2>4, <4>1
        <5> QED BY <2>1, <5>1
      <4> QED BY <2>1, <2>2, <3>2, <4>1 DEF PushInv, Files
    <3> QED BY <3>1, <3>2
  <2> QED BY <1>4, <2>1, <2>5, <2>6, <2>7 DEF PushInv
<1>5. ASSUME NEW c \in Clients, posting[c], Answered(c), UNCHANGED <<library, ever>>,
             log' \in Seq(Event), now' \in Nat, drops' \in Nat,
             \A i \in DOMAIN log' : \E f \in ever : IsOf(log'[i], f)
      PROVE  EventInv' /\ PushInv'
  <2> DEFINE s == queue[c]
  <2>1. /\ Len(s) \in Nat \ {0}
        /\ queue'[c] = Tail(s) /\ Len(queue'[c]) = Len(s) - 1
        /\ \A k \in DOMAIN queue'[c] : k + 1 \in DOMAIN s /\ queue'[c][k] = s[k + 1]
        /\ \A d \in Clients \ {c} : queue'[d] = queue[d] /\ posting'[d] = posting[d]
        /\ ~posting'[c]
        /\ queue' \in [Clients -> Seq(Event)] /\ posting' \in [Clients -> BOOLEAN]
    BY <1>5, AnsweredIs
  <2>2. EventInv'
    BY <1>5, <2>1 DEF EventInv
  <2>3. \A d \in Clients : \A k \in DOMAIN queue'[d] : \E f \in ever' : IsOf(queue'[d][k], f)
    <3> SUFFICES ASSUME NEW d \in Clients, NEW k \in DOMAIN queue'[d]
                 PROVE  \E f \in ever : IsOf(queue'[d][k], f)
      BY <1>5
    <3>1. CASE d # c
      BY <2>1, <3>1 DEF PushInv
    <3>2. CASE d = c
      <4>1. k + 1 \in DOMAIN s /\ queue'[d][k] = s[k + 1]
        BY <2>1, <3>2
      <4>2. \E f \in ever : IsOf(s[k + 1], f)
        BY <4>1 DEF PushInv
      <4> QED BY <4>1, <4>2
    <3> QED BY <3>1, <3>2
  <2>4. ASSUME NEW d \in Clients
        PROVE  \/ queue'[d] = <<>>
               \/ Len(queue'[d]) = 1 /\ queue'[d][1].type \in {"album_imported", "item_imported",
                                                               "item_removed"}
               \/ /\ Len(queue'[d]) = 2
                  /\ queue'[d][1].nr = queue'[d][2].nr
                  /\ \/ Files(queue'[d][1]) /\ Imported(queue'[d][2])
                     \/ queue'[d][1].type = "album_removed" /\ queue'[d][2].type = "item_removed"
    <3>1. CASE d # c
      BY <2>1, <3>1 DEF PushInv
    <3>2. CASE d = c
      <4>1. queue'[c] \in Seq(Event)
        BY <2>1
      <4>2. Len(s) = 1 => queue'[c] = <<>>
        BY <2>1, <4>1
      <4>3. Len(s) = 2 => Len(queue'[c]) = 1 /\ queue'[c][1] = s[2]
        BY <2>1, <4>1
      <4>4. Len(s) \in {1, 2} /\ (Len(s) = 2 => Imported(s[2]) \/ s[2].type = "item_removed")
        BY <2>1 DEF PushInv
      <4> QED BY <3>2, <4>2, <4>3, <4>4 DEF Imported
    <3> QED BY <3>1, <3>2
  <2> QED BY <1>5, <2>2, <2>3, <2>4 DEF PushInv
<1>6. ASSUME NEW c \in Clients, Store(c, library), UNCHANGED <<library, ever>>
      PROVE  EventInv' /\ PushInv'
  <2> DEFINE h == queue[c][1]
  <2>1. /\ posting[c] /\ Answered(c) /\ log' \in Seq(Event)
        /\ DOMAIN log = 1..Len(log) /\ DOMAIN log' = 1..(Len(log) + 1) /\ Len(log) \in Nat
        /\ \A i \in DOMAIN log : log'[i] = log[i]
        /\ log'[Len(log) + 1] = h
        /\ UNCHANGED <<now, drops>>
    BY <1>6, StoreIs
  <2>2. \E f \in ever : IsOf(h, f)
    <3>1. queue[c] \in Seq(Event) /\ queue[c] # <<>>
      BY <2>1 DEF EventInv
    <3>2. 1 \in DOMAIN queue[c]
      BY <3>1
    <3> QED BY <3>2 DEF PushInv
  <2>3. \A i \in DOMAIN log' : \E f \in ever : IsOf(log'[i], f)
    BY <2>1, <2>2 DEF PushInv
  <2> QED BY <1>5, <1>6, <2>1, <2>3 DEF EventInv
<1>7. ASSUME NEW c \in Clients, Drop(c), UNCHANGED <<library, ever>>
      PROVE  EventInv' /\ PushInv'
  BY <1>5, <1>7 DEF Drop, EventInv, PushInv
<1>8. ASSUME Tick, UNCHANGED <<library, ever>> PROVE EventInv' /\ PushInv'
  BY <1>8 DEF Tick, EventInv, PushInv
<1> QED BY <1>1, <1>2, <1>3, <1>4, <1>6, <1>7, <1>8, StepsAre

-----------------------------------------------------------------------------
(* The order in which the pushes of imports are stamped and stored.        *)

\* The head of a queue is an import push of an entry that is still there.
Pending(c) == /\ posting[c] /\ IsImport(queue[c][1])
              /\ \E e \in library : e.nr = queue[c][1].nr

\* No time stamp is ahead of the clock, and none that is under way is behind
\* one that is stored of an entry with an id in common.
TimeInv ==
    /\ \A i \in DOMAIN log : log[i].at <= now
    /\ \A c \in Clients : posting[c] => queue[c][1].at <= now
    /\ AllInOrder =>
          \A c \in Clients, i \in DOMAIN log :
              Pending(c) /\ IsImport(log[i]) /\ Share(log[i], queue[c][1])
                => log[i].at <= queue[c][1].at

\* The pushes of an import come from one client, the files first, and each is
\* stored once.
FlightInv ==
    /\ \A c, d \in Clients :
          /\ queue[c] # <<>> /\ queue[d] # <<>>
          /\ IsImport(queue[c][1]) /\ IsImport(queue[d][1])
          /\ queue[c][1].nr = queue[d][1].nr
          => c = d
    /\ \A c \in Clients, i \in DOMAIN log :
          /\ queue[c] # <<>> /\ IsImport(queue[c][1])
          /\ IsImport(log[i]) /\ log[i].nr = queue[c][1].nr
          => Files(log[i]) /\ Imported(queue[c][1])
    /\ drops = 0 =>
          \A c \in Clients :
              queue[c] # <<>> /\ Imported(queue[c][1])
                => \E i \in DOMAIN log : Files(log[i]) /\ log[i].nr = queue[c][1].nr

\* If no push was lost or came late, the imports of entries with an id in common
\* are stored and stamped in the order of their numbers, and those of one entry
\* with its files first.
OrderInv ==
    AllInOrder =>
        /\ \A i, j \in DOMAIN log :
              /\ IsImport(log[i]) /\ IsImport(log[j])
              /\ Share(log[i], log[j]) /\ log[i].nr < log[j].nr
              => i < j /\ log[i].at <= log[j].at
        /\ \A i, j \in DOMAIN log :
              Files(log[i]) /\ Imported(log[j]) /\ log[i].nr = log[j].nr
                => i < j /\ log[i].at <= log[j].at
        /\ \A i, j \in DOMAIN log :
              /\ IsImport(log[i]) /\ IsImport(log[j]) /\ log[i].nr = log[j].nr
              /\ Files(log[i]) <=> Files(log[j])
              => i = j
        /\ \A j \in DOMAIN log :
              Imported(log[j]) => \E i \in DOMAIN log : Files(log[i]) /\ log[i].nr = log[j].nr

LEMMA HeadIs ==
    ASSUME EventInv, NEW c \in Clients, queue[c] # <<>>
    PROVE  1 \in DOMAIN queue[c] /\ queue[c][1] \in Event /\ Len(queue[c]) \in Nat \ {0}
<1>1. queue[c] \in Seq(Event)
  BY DEF EventInv
<1> QED BY <1>1

LEMMA LogIs ==
    ASSUME EventInv
    PROVE  /\ Len(log) \in Nat /\ DOMAIN log = 1..Len(log)
           /\ \A i \in DOMAIN log : log[i] \in Event /\ log[i].at \in Nat
<1>1. log \in Seq(Event)
  BY DEF EventInv
<1>2. \A i \in DOMAIN log : log[i] \in Event
  BY <1>1
<1> QED BY <1>1, <1>2 DEF Event

\* The entry that an event is about.
LEMMA EntryOfLog ==
    ASSUME EventInv, PushInv, EverInv, NEW i \in DOMAIN log
    PROVE  \E e \in ever : IsOf(log[i], e) /\ SubjectsOf(log[i]) = SubjectsOf(e)
                           /\ log[i].nr = e.nr
BY DEF PushInv, IsOf, SubjectsOf

LEMMA EntryOfHead ==
    ASSUME EventInv, PushInv, EverInv, NEW c \in Clients, queue[c] # <<>>
    PROVE  \E e \in ever : /\ IsOf(queue[c][1], e)
                           /\ SubjectsOf(queue[c][1]) = SubjectsOf(e)
                           /\ queue[c][1].nr = e.nr
BY HeadIs DEF PushInv, IsOf, SubjectsOf

\* Two entries of the library have no id in common.
LEMMA Disjoint ==
    ASSUME EverInv, LatestInv, NEW e \in library, NEW f \in library, Share(e, f)
    PROVE  e = f
<1> SUFFICES ASSUME e # f PROVE FALSE
  OBVIOUS
<1>1. e \in ever /\ f \in ever /\ Share(f, e) /\ e.nr \in Nat /\ f.nr \in Nat
  BY IdValues DEF EverInv, Entries, Share
<1>2. e.nr < f.nr /\ f.nr < e.nr
  BY <1>1 DEF LatestInv
<1> QED BY <1>1, <1>2

\* What an answered push leaves at the head of its queue.
LEMMA HeadAfter ==
    ASSUME EventInv, PushInv, NEW c \in Clients, posting[c], Answered(c),
           queue'[c] # <<>>
    PROVE  /\ queue[c] # <<>> /\ queue'[c][1].nr = queue[c][1].nr
           /\ \/ Files(queue[c][1]) /\ Imported(queue'[c][1])
              \/ queue[c][1].type = "album_removed" /\ queue'[c][1].type = "item_removed"
<1> DEFINE s == queue[c]
<1>1. /\ Len(s) \in Nat \ {0} /\ Len(queue'[c]) = Len(s) - 1
      /\ \A k \in DOMAIN queue'[c] : queue'[c][k] = s[k + 1]
      /\ queue'[c] \in Seq(Event)
  BY AnsweredIs
<1>2. Len(s) # 1 /\ 1 \in DOMAIN queue'[c] /\ s # <<>>
  BY <1>1
<1>3. queue'[c][1] = s[2]
  BY <1>1, <1>2
<1> QED BY <1>2, <1>3 DEF PushInv

\* A push of an import that is stored in order is of an entry that is there.
LEMMA StoredInOrder ==
    ASSUME EverInv, EventInv, PushInv, NEW c \in Clients, Store(c, library),
           AllInOrder', IsImport(queue[c][1])
    PROVE  /\ AllInOrder
           /\ \E f \in library : /\ IsOf(queue[c][1], f) /\ queue[c][1].nr = f.nr
                                 /\ SubjectsOf(queue[c][1]) = SubjectsOf(f)
<1> DEFINE h == queue[c][1]
<1>1. drops' = drops /\ overtaken' = overtaken \union Late(h, library) /\ queue[c] # <<>>
  BY StoreIs DEF EventInv
<1>2. AllInOrder /\ "import" \notin Late(h, library)
  BY <1>1 DEF AllInOrder
<1>3. PICK f \in library : f.nr = h.nr
  BY <1>2 DEF Late, IsImport
<1>4. PICK g \in ever : IsOf(h, g) /\ SubjectsOf(h) = SubjectsOf(g) /\ h.nr = g.nr
  BY <1>1, EntryOfHead
<1>5. f = g
  BY <1>3, <1>4 DEF EverInv
<1> QED BY <1>2, <1>4, <1>5

LEMMA ImportTypes ==
    \A q \in Event : /\ IsImport(q) <=> Files(q) \/ Imported(q)
                     /\ ~(Files(q) /\ Imported(q))
BY DEF Event, EventType, IsImport, Removals, Files, Imported

LEMMA FlightKept ==
    EverInv /\ EventInv /\ PushInv /\ FlightInv /\ [PathNext]_allVars => FlightInv'
<1> SUFFICES ASSUME EverInv, EventInv, PushInv, FlightInv, [PathNext]_allVars
             PROVE  FlightInv'
  OBVIOUS
<1>1. CASE UNCHANGED <<eventVars, library, ever>>
  BY <1>1 DEF eventVars, FlightInv
<1>2. ASSUME NEW c \in Clients, Import(c) PROVE FlightInv'
  <2>1. PICK e \in Entries :
              /\ \A f \in ever : f.nr < e.nr
              /\ queue'[c] = ImportPushes(e)
              /\ \A d \in Clients \ {c} : queue'[d] = queue[d]
              /\ UNCHANGED <<log, drops>>
    BY <1>2, ImportIs
  <2> DEFINE h == queue'[c][1]
  <2>2. Files(h) /\ h.nr = e.nr /\ ~Imported(h)
    BY <2>1, PushesAre DEF IsOf, Files, Imported
  <2>3. \A i \in DOMAIN log : log[i].nr # h.nr
    BY <2>1, <2>2, EntryOfLog, IdValues DEF Entries
  <2>4. \A d \in Clients : queue[d] # <<>> => queue[d][1].nr # h.nr
    BY <2>1, <2>2, EntryOfHead, IdValues DEF Entries
  <2> HIDE DEF h
  <2>5. \A d \in Clients : d # c => queue'[d] = queue[d]
    BY <2>1
  <2>6. \A a, b \in Clients :
          /\ queue'[a] # <<>> /\ queue'[b] # <<>>
          /\ IsImport(queue'[a][1]) /\ IsImport(queue'[b][1])
          /\ queue'[a][1].nr = queue'[b][1].nr
          => a = b
    BY <2>4, <2>5 DEF FlightInv, h
  <2>7. \A a \in Clients, i \in DOMAIN log' :
          /\ queue'[a] # <<>> /\ IsImport(queue'[a][1])
          /\ IsImport(log'[i]) /\ log'[i].nr = queue'[a][1].nr
          => Files(log'[i]) /\ Imported(queue'[a][1])
    BY <2>1, <2>3, <2>5 DEF FlightInv, h
  <2>8. drops' = 0 => \A a \in Clients :
              queue'[a] # <<>> /\ Imported(queue'[a][1])
                => \E i \in DOMAIN log' : Files(log'[i]) /\ log'[i].nr = queue'[a][1].nr
    BY <2>1, <2>2, <2>5 DEF FlightInv, h
  <2> QED BY <2>6, <2>7, <2>8 DEF FlightInv
<1>3. ASSUME NEW c \in Clients, Remove(c) PROVE FlightInv'
  <2>1. PICK e \in Entries :
              /\ queue'[c] = RemovalPushes(e)
              /\ \A d \in Clients \ {c} : queue'[d] = queue[d]
              /\ UNCHANGED <<log, drops>>
    BY <1>3, RemoveIs
  <2>2. queue'[c][1].type \in Removals
    BY <2>1, PushesAre DEF Removals
  <2>3. ~IsImport(queue'[c][1]) /\ ~Imported(queue'[c][1])
    BY <2>2 DEF IsImport, Imported, Removals
  <2>4. \A d \in Clients : d # c => queue'[d] = queue[d]
    BY <2>1
  <2> QED BY <2>1, <2>3, <2>4 DEF FlightInv
<1>4. ASSUME NEW c \in Clients, Post(c) PROVE FlightInv'
  <2>1. /\ queue[c] # <<>> /\ queue'[c] # <<>> /\ queue[c][1] \in Event
        /\ queue'[c][1] = [queue[c][1] EXCEPT !.at = now]
        /\ \A d \in Clients \ {c} : queue'[d] = queue[d]
        /\ UNCHANGED <<log, drops>>
    BY <1>4, PostIs
  <2>2. /\ queue'[c][1].type = queue[c][1].type
        /\ queue'[c][1].nr = queue[c][1].nr
    BY <2>1 DEF Event
  <2>3. \A d \in Clients : queue'[d] # <<>> =>
           /\ queue[d] # <<>> /\ queue'[d][1].nr = queue[d][1].nr
           /\ IsImport(queue'[d][1]) <=> IsImport(queue[d][1])
           /\ Imported(queue'[d][1]) <=> Imported(queue[d][1])
    BY <2>1, <2>2 DEF IsImport, Imported
  <2> QED BY <2>1, <2>3 DEF FlightInv
<1>5. ASSUME NEW c \in Clients, posting[c], Answered(c)
      PROVE  /\ queue[c] # <<>>
             /\ \A d \in Clients : d # c => queue'[d] = queue[d]
             /\ queue'[c] # <<>> /\ IsImport(queue'[c][1]) =>
                   /\ Files(queue[c][1]) /\ IsImport(queue[c][1])
                   /\ ~Imported(queue[c][1])
                   /\ Imported(queue'[c][1]) /\ queue'[c][1].nr = queue[c][1].nr
  BY <1>5, AnsweredIs, HeadAfter DEF EventInv, IsImport, Removals, Files, Imported
<1>6. ASSUME NEW c \in Clients, Store(c, library) PROVE FlightInv'
  <2> DEFINE h == queue[c][1]
             n == Len(log) + 1
  <2>1. /\ posting[c] /\ Answered(c) /\ h \in Event
        /\ DOMAIN log' = DOMAIN log \union {n}
        /\ \A i \in DOMAIN log : log'[i] = log[i]
        /\ log'[n] = h
        /\ UNCHANGED drops
    BY <1>6, StoreIs
  <2>2. /\ queue[c] # <<>>
        /\ \A d \in Clients : d # c => queue'[d] = queue[d]
        /\ queue'[c] # <<>> /\ IsImport(queue'[c][1]) =>
                   /\ Files(h) /\ IsImport(h) /\ ~Imported(h)
                   /\ Imported(queue'[c][1]) /\ queue'[c][1].nr = h.nr
    BY <1>5, <2>1
  <2> HIDE DEF n, h
  <2>3. \A a, b \in Clients :
          /\ queue'[a] # <<>> /\ queue'[b] # <<>>
          /\ IsImport(queue'[a][1]) /\ IsImport(queue'[b][1])
          /\ queue'[a][1].nr = queue'[b][1].nr
          => a = b
    BY <2>2 DEF FlightInv, h
  <2>4. ASSUME NEW a \in Clients, NEW i \in DOMAIN log',
               queue'[a] # <<>>, IsImport(queue'[a][1]),
               IsImport(log'[i]), log'[i].nr = queue'[a][1].nr
        PROVE  Files(log'[i]) /\ Imported(queue'[a][1])
    <3>1. CASE a = c
      <4>1. Files(h) /\ IsImport(h) /\ ~Imported(h) /\ Imported(queue'[c][1]) /\ queue'[c][1].nr = h.nr
        BY <2>2, <2>4, <3>1
      <4>2. i = n
        BY <2>1, <2>2, <2>4, <3>1, <4>1 DEF FlightInv, h
      <4> QED BY <2>1, <3>1, <4>1, <4>2
    <3>2. CASE a # c
      <4>1. i # n
        BY <2>1, <2>2, <2>4, <3>2 DEF FlightInv, h
      <4> QED BY <2>1, <2>2, <2>4, <3>2, <4>1 DEF FlightInv
    <3> QED BY <3>1, <3>2
  <2>5. ASSUME drops' = 0, NEW a \in Clients, queue'[a] # <<>>, Imported(queue'[a][1])
        PROVE  \E i \in DOMAIN log' : Files(log'[i]) /\ log'[i].nr = queue'[a][1].nr
    <3>1. CASE a = c
      <4>1. IsImport(queue'[c][1])
        BY <2>5, <3>1 DEF IsImport, Imported, Removals
      <4> QED BY <2>1, <2>2, <2>5, <3>1, <4>1
    <3>2. CASE a # c
      <4>1. PICK i \in DOMAIN log : Files(log[i]) /\ log[i].nr = queue[a][1].nr
        BY <2>1, <2>2, <2>5, <3>2 DEF FlightInv
      <4> QED BY <2>1, <2>2, <3>2, <4>1
    <3> QED BY <3>1, <3>2
  <2> QED BY <2>3, <2>4, <2>5 DEF FlightInv
<1>7. ASSUME NEW c \in Clients, Drop(c) PROVE FlightInv'
  <2>1. posting[c] /\ Answered(c) /\ UNCHANGED log /\ drops' # 0
    BY <1>7 DEF Drop, EventInv
  <2>2. /\ queue[c] # <<>>
        /\ \A d \in Clients : d # c => queue'[d] = queue[d]
        /\ queue'[c] # <<>> /\ IsImport(queue'[c][1]) =>
                   /\ Files(queue[c][1]) /\ IsImport(queue[c][1])
                   /\ ~Imported(queue[c][1])
                   /\ Imported(queue'[c][1]) /\ queue'[c][1].nr = queue[c][1].nr
    BY <1>5, <2>1
  <2> QED BY <2>1, <2>2 DEF FlightInv
<1>8. ASSUME Tick PROVE FlightInv'
  BY <1>8 DEF Tick, FlightInv
<1> QED BY <1>1, <1>2, <1>3, <1>4, <1>6, <1>7, <1>8, StepsAre

LEMMA TimeKept ==
    /\ EverInv /\ LatestInv /\ EventInv /\ PushInv /\ FlightInv /\ TimeInv
    /\ [PathNext]_allVars
    => TimeInv'
<1> SUFFICES ASSUME EverInv, LatestInv, EventInv, PushInv, FlightInv, TimeInv,
                    [PathNext]_allVars
             PROVE  TimeInv'
  OBVIOUS
<1>1. CASE UNCHANGED <<eventVars, library, ever>>
  BY <1>1 DEF eventVars, TimeInv, Pending, AllInOrder
\* Where neither log nor heads change, an import or a removal makes none pending.
<1>2. ASSUME UNCHANGED <<log, posting, now, drops, overtaken>>,
             \A d \in Clients : posting[d] => queue'[d] = queue[d],
             \A d \in Clients : Pending(d)' => Pending(d)
      PROVE  TimeInv'
  BY <1>2 DEF TimeInv, AllInOrder, Pending
<1>3. ASSUME NEW c \in Clients, Import(c) PROVE TimeInv'
  <2>1. PICK e \in Entries :
              /\ library' = library \union {e}
              /\ \A f \in ever : f.nr < e.nr
              /\ ~posting[c]
              /\ \A d \in Clients \ {c} : queue'[d] = queue[d]
              /\ UNCHANGED <<log, posting, now, drops, overtaken>>
    BY <1>3, ImportIs
  <2>2. \A d \in Clients : posting[d] => queue'[d] = queue[d]
    BY <2>1
  <2>3. ASSUME NEW d \in Clients, Pending(d)' PROVE Pending(d)
    <3>1. posting[d] /\ queue'[d] = queue[d] /\ queue[d] # <<>>
      BY <2>1, <2>2, <2>3 DEF Pending, EventInv
    <3>2. queue[d][1].nr < e.nr
      BY <2>1, <3>1, EntryOfHead
    <3>3. queue[d][1].nr \in Nat /\ e.nr \in Nat
      BY <3>1, HeadIs, IdValues DEF Event, Entries
    <3> QED BY <2>1, <2>3, <3>1, <3>2, <3>3 DEF Pending
  <2> QED BY <1>2, <2>1, <2>2, <2>3
<1>4. ASSUME NEW c \in Clients, Remove(c) PROVE TimeInv'
  <2>1. /\ library' \subseteq library /\ ~posting[c]
        /\ \A d \in Clients \ {c} : queue'[d] = queue[d]
        /\ UNCHANGED <<log, posting, now, drops, overtaken>>
    BY <1>4, RemoveIs
  <2>2. \A d \in Clients : posting[d] => queue'[d] = queue[d]
    BY <2>1
  <2>3. \A d \in Clients : Pending(d)' => Pending(d)
    BY <2>1, <2>2 DEF Pending
  <2> QED BY <1>2, <2>1, <2>2, <2>3
<1>5. ASSUME NEW c \in Clients, Post(c), UNCHANGED <<library, ever>> PROVE TimeInv'
  <2>1. /\ queue[c][1] \in Event
        /\ queue'[c][1] = [queue[c][1] EXCEPT !.at = now]
        /\ \A d \in Clients \ {c} : queue'[d] = queue[d] /\ posting'[d] = posting[d]
        /\ UNCHANGED <<log, now, drops, overtaken>>
    BY <1>5, PostIs
  <2>2. queue'[c][1].at = now /\ now \in Nat
    BY <2>1 DEF Event, EventInv
  <2>3. \A d \in Clients : d # c => (Pending(d)' <=> Pending(d))
    BY <1>5, <2>1 DEF Pending
  <2>4. ASSUME NEW d \in Clients, posting'[d] PROVE queue'[d][1].at <= now'
    <3>1. CASE d = c
      <4>1. queue'[d][1].at = now /\ now' = now /\ now \in Nat
        BY <2>1, <2>2, <3>1, Zenon
      <4> QED BY <4>1
    <3>2. CASE d # c
      BY <2>1, <2>4, <3>2 DEF TimeInv
    <3> QED BY <3>1, <3>2
  <2>5. AllInOrder' =>
          \A d \in Clients, i \in DOMAIN log :
              Pending(d)' /\ IsImport(log[i]) /\ Share(log[i], queue'[d][1])
                => log[i].at <= queue'[d][1].at
    BY <2>1, <2>2, <2>3 DEF TimeInv, AllInOrder
  <2> QED BY <2>1, <2>4, <2>5 DEF TimeInv
<1>6. ASSUME NEW c \in Clients, Store(c, library), UNCHANGED <<library, ever>>
      PROVE  TimeInv'
  <2> DEFINE h == queue[c][1]
             n == Len(log) + 1
  <2>1. /\ posting[c] /\ Answered(c) /\ queue[c] # <<>>
        /\ DOMAIN log' = DOMAIN log \union {n}
        /\ \A i \in DOMAIN log : log'[i] = log[i]
        /\ log'[n] = h
        /\ UNCHANGED <<now, drops>>
    BY <1>6, StoreIs DEF EventInv
  <2>2. /\ \A d \in Clients \ {c} : queue'[d] = queue[d] /\ posting'[d] = posting[d]
        /\ ~posting'[c]
    BY <2>1, AnsweredIs
  <2>3. h.at <= now
    BY <2>1 DEF TimeInv
  <2> HIDE DEF n, h
  <2>4. ASSUME AllInOrder', NEW d \in Clients, NEW i \in DOMAIN log',
               Pending(d)', IsImport(log'[i]), Share(log'[i], queue'[d][1])
        PROVE  log'[i].at <= queue'[d][1].at
    <3>1. d # c /\ queue'[d] = queue[d] /\ Pending(d)
      BY <1>6, <2>2, <2>4 DEF Pending
    <3>2. CASE i # n
      <4>1. AllInOrder
        BY <1>6, <2>1, <2>4 DEF Store, AllInOrder
      <4> QED BY <2>1, <2>4, <3>1, <3>2, <4>1 DEF TimeInv
    <3>3. CASE i = n
      <4>1. PICK f \in library : /\ h.nr = f.nr
                                 /\ SubjectsOf(h) = SubjectsOf(f)
        BY <1>6, <2>1, <2>4, <3>3, StoredInOrder DEF h
      <4>2. queue[d] # <<>> /\ IsImport(queue[d][1])
        BY <3>1 DEF Pending, EventInv
      <4>3. PICK e \in library : e.nr = queue[d][1].nr
        BY <3>1 DEF Pending
      <4>4. PICK g \in ever : SubjectsOf(queue[d][1]) = SubjectsOf(g) /\ queue[d][1].nr = g.nr
        BY <4>2, EntryOfHead
      <4>5. e = g
        BY <4>3, <4>4 DEF EverInv
      <4>6. Share(f, e)
        BY <2>1, <2>4, <3>1, <3>3, <4>1, <4>4, <4>5 DEF Share
      <4>7. f = e
        BY <4>6, Disjoint
      <4>8. h.nr = queue[d][1].nr
        BY <4>1, <4>3, <4>7
      <4> QED BY <2>1, <2>4, <3>1, <3>3, <4>2, <4>8 DEF FlightInv, h
    <3> QED BY <3>2, <3>3
  <2> QED BY <2>1, <2>2, <2>3, <2>4 DEF TimeInv
<1>7. ASSUME NEW c \in Clients, Drop(c) PROVE TimeInv'
  <2>1. posting[c] /\ Answered(c) /\ UNCHANGED <<log, now>> /\ drops' # 0
    BY <1>7 DEF Drop, EventInv
  <2>2. /\ \A d \in Clients \ {c} : queue'[d] = queue[d] /\ posting'[d] = posting[d]
        /\ ~posting'[c]
    BY <2>1, AnsweredIs
  <2> QED BY <2>1, <2>2 DEF TimeInv, AllInOrder
<1>8. ASSUME Tick, UNCHANGED <<library, ever>> PROVE TimeInv'
  <2>1. now' = now + 1 /\ now \in Nat /\ UNCHANGED <<log, queue, posting, drops, overtaken>>
    BY <1>8 DEF Tick, EventInv
  <2>2. \A i \in DOMAIN log : log[i].at \in Nat
    BY LogIs
  <2>3. \A d \in Clients : posting[d] => queue[d][1].at \in Nat
    BY HeadIs DEF EventInv, Event
  <2> QED BY <1>8, <2>1, <2>2, <2>3 DEF TimeInv, AllInOrder, Pending
<1> QED BY <1>1, <1>3, <1>4, <1>5, <1>6, <1>7, <1>8, StepsAre

LEMMA OrderKept ==
    /\ EverInv /\ LatestInv /\ EventInv /\ PushInv /\ FlightInv /\ TimeInv /\ OrderInv
    /\ [PathNext]_allVars
    => OrderInv'
<1> SUFFICES ASSUME EverInv, LatestInv, EventInv, PushInv, FlightInv, TimeInv, OrderInv,
                    [PathNext]_allVars
             PROVE  OrderInv'
  OBVIOUS
<1>1. ASSUME UNCHANGED <<log, drops, overtaken>> PROVE OrderInv'
  BY <1>1 DEF OrderInv, AllInOrder
<1>2. ASSUME NEW c \in Clients, Drop(c) PROVE OrderInv'
  BY <1>2 DEF Drop, EventInv, OrderInv, AllInOrder
<1>3. ASSUME NEW c \in Clients, Store(c, library) PROVE OrderInv'
  <2> SUFFICES ASSUME AllInOrder'
               PROVE  OrderInv'
    BY DEF OrderInv
  <2> DEFINE h == queue[c][1]
             n == Len(log) + 1
  <2>1. /\ posting[c] /\ queue[c] # <<>> /\ h \in Event
        /\ DOMAIN log' = DOMAIN log \union {n}
        /\ \A i \in DOMAIN log : log'[i] = log[i]
        /\ log'[n] = h
        /\ AllInOrder
    BY <1>3, StoreIs DEF EventInv, AllInOrder
  <2>2. \A i \in DOMAIN log : /\ i < n /\ i # n /\ log[i] \in Event
                              /\ log[i].nr \in Nat /\ log[i].at \in Nat
    BY LogIs, IdValues DEF Event
  <2>3. h.nr \in Nat
    BY <2>1, IdValues DEF Event
  <2>4. (IsImport(h) <=> Files(h) \/ Imported(h)) /\ ~(Files(h) /\ Imported(h))
    BY <2>1, ImportTypes
  <2>5. IsImport(h) =>
           \E f \in library : h.nr = f.nr /\ SubjectsOf(h) = SubjectsOf(f)
    BY <1>3, StoredInOrder
  <2>6. \A i \in DOMAIN log :
           IsImport(h) /\ IsImport(log[i]) /\ log[i].nr = h.nr
             => Files(log[i]) /\ Imported(h)
    BY <2>1 DEF FlightInv
  <2>7. Imported(h) => \E i \in DOMAIN log : Files(log[i]) /\ log[i].nr = h.nr
    BY <2>1 DEF FlightInv, AllInOrder
  <2>8. \A i \in DOMAIN log :
           IsImport(h) /\ IsImport(log[i]) /\ Share(log[i], h) => log[i].at <= h.at
    BY <2>1, <2>5 DEF TimeInv, Pending
  <2>9. \A i \in DOMAIN log :
           IsImport(h) /\ Share(h, log[i]) => log[i].nr <= h.nr
    <3> SUFFICES ASSUME IsImport(h), NEW i \in DOMAIN log, Share(h, log[i])
                 PROVE  log[i].nr <= h.nr
      OBVIOUS
    <3>1. PICK f \in library : h.nr = f.nr /\ SubjectsOf(h) = SubjectsOf(f)
      BY <2>5
    <3>2. PICK g \in ever : SubjectsOf(log[i]) = SubjectsOf(g) /\ log[i].nr = g.nr
      BY EntryOfLog
    <3>3. Share(f, g)
      BY <3>1, <3>2 DEF Share
    <3>4. g # f => g.nr < f.nr
      BY <3>3 DEF LatestInv
    <3> QED BY <2>2, <2>3, <3>1, <3>2, <3>4
  <2>10. \A i \in DOMAIN log : log[i].nr = h.nr => Share(log[i], h)
    <3> SUFFICES ASSUME NEW i \in DOMAIN log, log[i].nr = h.nr PROVE Share(log[i], h)
      OBVIOUS
    <3>1. PICK g \in ever : SubjectsOf(log[i]) = SubjectsOf(g) /\ log[i].nr = g.nr
      BY EntryOfLog
    <3>2. PICK f \in ever : SubjectsOf(h) = SubjectsOf(f) /\ h.nr = f.nr
      BY <2>1, EntryOfHead
    <3>3. f = g
      BY <3>1, <3>2 DEF EverInv
    <3> QED BY <3>1, <3>2, <3>3 DEF Share, SubjectsOf
  <2> HIDE DEF n, h
  <2>11. ASSUME NEW i \in DOMAIN log', NEW j \in DOMAIN log',
                IsImport(log'[i]), IsImport(log'[j]),
                Share(log'[i], log'[j]), log'[i].nr < log'[j].nr
         PROVE  i < j /\ log'[i].at <= log'[j].at
    <3>1. CASE i = n
      <4>1. j # n /\ j \in DOMAIN log
        BY <2>1, <2>3, <2>11, <3>1
      <4>2. log[j].nr <= h.nr
        BY <2>1, <2>9, <2>11, <3>1, <4>1
      <4> QED BY <2>1, <2>2, <2>3, <2>11, <3>1, <4>1, <4>2
    <3>2. CASE i # n /\ j = n
      BY <2>1, <2>2, <2>8, <2>11, <3>2
    <3>3. CASE i # n /\ j # n
      BY <2>1, <2>11, <3>3 DEF OrderInv
    <3> QED BY <3>1, <3>2, <3>3
  <2>12. ASSUME NEW i \in DOMAIN log', NEW j \in DOMAIN log',
                Files(log'[i]), Imported(log'[j]), log'[i].nr = log'[j].nr
         PROVE  i < j /\ log'[i].at <= log'[j].at
    <3>1. IsImport(log'[i]) /\ IsImport(log'[j]) /\ ~Imported(log'[i])
      BY <2>12 DEF IsImport, Removals, Files, Imported
    <3>2. CASE i = n
      <4>1. j # n
        BY <2>1, <2>12, <3>1, <3>2
      <4> QED BY <2>1, <2>6, <2>12, <3>1, <3>2, <4>1
    <3>3. CASE i # n /\ j = n
      BY <2>1, <2>2, <2>8, <2>10, <2>12, <3>1, <3>3
    <3>4. CASE i # n /\ j # n
      BY <2>1, <2>12, <3>4 DEF OrderInv
    <3> QED BY <3>2, <3>3, <3>4
  <2>13. ASSUME NEW i \in DOMAIN log', NEW j \in DOMAIN log',
                IsImport(log'[i]), IsImport(log'[j]), log'[i].nr = log'[j].nr,
                Files(log'[i]) <=> Files(log'[j])
         PROVE  i = j
    <3>1. CASE i = n /\ j # n
      BY <2>1, <2>4, <2>6, <2>13, <3>1
    <3>2. CASE i # n /\ j = n
      BY <2>1, <2>4, <2>6, <2>13, <3>2
    <3>3. CASE i # n /\ j # n
      BY <2>1, <2>13, <3>3 DEF OrderInv
    <3> QED BY <3>1, <3>2, <3>3
  <2>14. ASSUME NEW j \in DOMAIN log', Imported(log'[j])
         PROVE  \E i \in DOMAIN log' : Files(log'[i]) /\ log'[i].nr = log'[j].nr
    <3>1. CASE j = n
      BY <2>1, <2>7, <2>14, <3>1
    <3>2. CASE j # n
      <4>1. PICK i \in DOMAIN log : Files(log[i]) /\ log[i].nr = log[j].nr
        BY <2>1, <2>14, <3>2 DEF OrderInv
      <4> QED BY <2>1, <3>2, <4>1
    <3> QED BY <3>1, <3>2
  <2> QED BY <2>11, <2>12, <2>13, <2>14 DEF OrderInv
<1>4. \A c \in Clients : Import(c) \/ Remove(c) \/ Post(c) => UNCHANGED <<log, drops, overtaken>>
  BY DEF Import, Remove, Post
<1>5. Tick \/ UNCHANGED eventVars => UNCHANGED <<log, drops, overtaken>>
  BY DEF Tick, eventVars
<1> QED BY <1>1, <1>2, <1>3, <1>4, <1>5, StepsAre

\* All of it together.
PathsInv == EverInv /\ LatestInv /\ PathInv /\ EventInv /\ PushInv
              /\ FlightInv /\ TimeInv /\ OrderInv

LEMMA PathsInductive == PathSpec => []PathsInv
<1>1. InitPaths => PathsInv
  <2> SUFFICES ASSUME InitPaths PROVE PathsInv
    OBVIOUS
  <2>1. EverInv /\ LatestInv /\ PathInv
    BY FS_EmptySet, FS_CardinalityType, PathAssumption
    DEF InitPaths, EverInv, LatestInv, PathInv
  <2>2. /\ log = <<>> /\ DOMAIN log = {} /\ now = 0 /\ drops = 0
        /\ queue = [c \in Clients |-> <<>>] /\ posting = [c \in Clients |-> FALSE]
    BY DEF InitPaths, InitEvents
  <2>3. EventInv
    BY <2>2 DEF EventInv
  <2>4. PushInv /\ FlightInv /\ TimeInv /\ OrderInv
    BY <2>2 DEF PushInv, FlightInv, TimeInv, OrderInv, Pending
  <2> QED BY <2>1, <2>3, <2>4 DEF PathsInv
<1>2. PathsInv /\ [PathNext]_allVars => PathsInv'
  BY EntriesKept, PathsKept, EventsKept, FlightKept, TimeKept, OrderKept DEF PathsInv
<1> QED BY <1>1, <1>2, PTL DEF PathSpec

\* SourcePathsTypeOK: entries, questions and inferences keep their types, whatever
\* ids beets gives and whatever the downloader replies.
THEOREM SourcePathTypes == PathSpec => []SourcePathsTypeOK
<1>1. PathsInv => SourcePathsTypeOK
  <2> SUFFICES ASSUME EverInv, LatestInv, PathInv PROVE SourcePathsTypeOK
    BY DEF PathsInv
  <2>1. \A t \in Threads : request[t].subject \in Subjects \union {NoSubject}
    BY DEF PathInv, NoRequest
  <2> QED BY <2>1 DEF SourcePathsTypeOK, EverInv, PathInv
<1> QED BY <1>1, PathsInductive, PTL

-----------------------------------------------------------------------------
(* The folder that is offered for an entry.                                *)

\* An inference is the folder of an entry with that id.
LEMMA InferenceIs ==
    ASSUME PathsInv, NEW e \in library, NEW field \in {"album", "track"},
           <<field, IdOf(e, field)>> \in SubjectsOf(e),
           Inference(e, field) # NoFolder
    PROVE  \E f \in ever : Share(e, f) /\ Inference(e, field) = f.folder
<1>1. e \in Entries /\ e \in ever
  BY DEF PathsInv, EverInv
<1>2. \A s \in SubjectsOf(e) : s \in Subjects
  BY <1>1 DEF SubjectsOf, Subjects, Entries
<1>3. \E s \in SubjectsOf(e) : Inference(e, field) = inferred[s]
  BY <1>1 DEF Inference, IdOf, SubjectsOf, Entries
<1> QED BY <1>2, <1>3 DEF PathsInv, PathInv, Share

\* A row that Recorded looks at is of an entry with that id.
LEMMA RowIs ==
    ASSUME PathsInv, NEW e \in library, NEW field \in {"album", "track"},
           <<field, IdOf(e, field)>> \in SubjectsOf(e),
           NEW i \in DOMAIN log, log[i][field] = IdOf(e, field)
    PROVE  \E f \in ever : Share(e, f) /\ IsOf(log[i], f)
<1>1. PICK f \in ever : IsOf(log[i], f)
  BY EntryOfLog DEF PathsInv
<1>2. e \in Entries /\ f \in Entries /\ log[i] \in Event
  BY LogIs DEF PathsInv, EverInv
<1>3. <<field, IdOf(e, field)>> \in SubjectsOf(f)
  <2>1. CASE field = "track"
    BY <1>1, <1>2, <2>1 DEF IdOf, IsOf, SubjectsOf, Event, Entries
  <2>2. CASE field = "album"
    <3>1. e.album # 0 /\ f.album = e.album
      BY <1>1, <1>2, <2>2 DEF IdOf, IsOf, SubjectsOf, Event, Entries
    <3> QED BY <2>2, <3>1 DEF IdOf, SubjectsOf
  <2> QED BY <2>1, <2>2
<1> QED BY <1>1, <1>3 DEF Share

LEMMA OwnFolder ==
    ASSUME PathsInv, NEW e \in library, NEW field \in {"album", "track"},
           <<field, IdOf(e, field)>> \in SubjectsOf(e)
    PROVE  /\ IsRecorded(e) /\ AllInOrder => Offered(e, field) = {e.folder}
           /\ ~Reused(e) => Offered(e, field) \subseteq {e.folder}
<1> DEFINE id == IdOf(e, field)
           rows == {i \in DOMAIN log : log[i].type = "import_task_files" /\ log[i][field] = id}
           last == {j \in rows : \A k \in rows : k <= j}
<1>1. Recorded(field, id) = {log[i].folder : i \in last}
  BY DEF Recorded
<1>2. e \in ever /\ e \in Entries
  BY DEF PathsInv, EverInv
<1>3. \A i \in rows : \E f \in ever : Share(e, f) /\ IsOf(log[i], f)
  BY RowIs
<1>4. Len(log) \in Nat /\ DOMAIN log = 1..Len(log)
  BY LogIs DEF PathsInv
<1>5. ASSUME IsRecorded(e), AllInOrder PROVE Offered(e, field) = {e.folder}
  <2>1. PICK i \in DOMAIN log : Files(log[i]) /\ log[i].nr = e.nr
    BY <1>5 DEF IsRecorded, Files
  <2>2. IsOf(log[i], e)
    BY <1>2, <2>1, EntryOfLog DEF PathsInv, EverInv
  <2>3. i \in rows
    <3>1. log[i][field] = id
      <4>1. CASE field = "track"
        BY <2>2, <4>1 DEF IsOf, IdOf
      <4>2. CASE field = "album"
        BY <2>2, <4>2 DEF IsOf, IdOf
      <4> QED BY <4>1, <4>2
    <3> QED BY <2>1, <3>1 DEF Files
  <2>4. PICK k \in rows : \A m \in rows : m <= k
    <3>1. rows \in SUBSET Nat /\ rows # {} /\ \A m \in rows : m <= Len(log)
      BY <1>4, <2>3
    <3> HIDE DEF rows
    <3> QED BY <1>4, <3>1, GreatestNumber
  \* Every last row is e's own: it comes no earlier, and e is the latest.
  <2>5. ASSUME NEW j \in last PROVE log[j].folder = e.folder
    <3>1. j \in rows /\ j \in DOMAIN log /\ i <= j
      BY <2>3
    <3>2. PICK f \in ever : Share(e, f) /\ IsOf(log[j], f)
      BY <1>3, <3>1
    <3>3. log[j].nr = f.nr /\ f.nr \in Nat /\ e.nr \in Nat
      BY <1>2, <3>2, IdValues DEF IsOf, PathsInv, EverInv, Entries
    <3>4. Share(log[i], log[j]) /\ IsImport(log[i]) /\ IsImport(log[j])
      BY <2>1, <2>2, <3>1, <3>2
      DEF Share, IsOf, SubjectsOf, IsImport, Files, Removals
    <3>5. ~(log[j].nr < log[i].nr)
      <4>1. Share(log[j], log[i])
        BY <3>4 DEF Share
      <4>2. log[j].nr < log[i].nr => j < i
        BY <1>5, <3>1, <3>4, <4>1 DEF PathsInv, OrderInv
      <4> QED BY <1>4, <3>1, <4>2
    <3>6. f = e
      <4>1. f # e => f.nr < e.nr
        BY <3>2 DEF PathsInv, LatestInv
      <4> QED BY <2>1, <3>3, <3>5, <4>1
    <3> QED BY <3>2, <3>6 DEF IsOf
  <2>6. k \in last
    BY <2>4
  <2> HIDE DEF last
  <2>7. Recorded(field, id) = {e.folder}
    BY <1>1, <2>5, <2>6
  <2> QED BY <2>7 DEF Offered
<1>6. ASSUME ~Reused(e) PROVE Offered(e, field) \subseteq {e.folder}
  <2>1. \A f \in ever : Share(e, f) => f = e
    BY <1>6 DEF Reused, Share
  <2>2. Recorded(field, id) \subseteq {e.folder}
    BY <1>1, <1>3, <2>1 DEF IsOf
  <2>3. {Inference(e, field)} \ {NoFolder} \subseteq {e.folder}
    BY <2>1, InferenceIs
  <2> QED BY <2>2, <2>3 DEF Offered
<1> QED BY <1>5, <1>6

\* What is offered first for an entry is the folder it came from: once its files
\* are recorded, if no push was lost or came late; and in any case if no other
\* entry ever had an id of it.
THEOREM OwnFolderIsOffered == PathSpec => []OffersOwnFolder
<1>1. PathsInv => OffersOwnFolder
  BY OwnFolder DEF OffersOwnFolder
<1> QED BY <1>1, PathsInductive, PTL

-----------------------------------------------------------------------------
(* The listing: the rows, each once, the newest first.                     *)

LEMMA NewerIs ==
    ASSUME EventInv, NEW i \in DOMAIN log, NEW j \in DOMAIN log
    PROVE  /\ ~Newer(i, i)
           /\ Newer(i, j) => ~Newer(j, i)
           /\ i # j => Newer(i, j) \/ Newer(j, i)
           /\ \A k \in DOMAIN log : Newer(i, j) /\ Newer(j, k) => Newer(i, k)
<1>1. DOMAIN log \subseteq Nat /\ \A k \in DOMAIN log : log[k].at \in Nat
  BY LogIs
<1>2. i \in Nat /\ j \in Nat /\ log[i].at \in Nat /\ log[j].at \in Nat
  BY <1>1
<1>3. ASSUME NEW k \in DOMAIN log, Newer(i, j), Newer(j, k) PROVE Newer(i, k)
  <2>1. k \in Nat /\ log[k].at \in Nat
    BY <1>1
  <2> QED BY <1>2, <1>3, <2>1 DEF Newer
<1> QED BY <1>2, <1>3 DEF Newer

LEMMA NewestFirstIs ==
    ASSUME EventInv, NEW rows \in SUBSET (DOMAIN log)
    PROVE  LET s == NewestFirst(rows)
           IN  /\ Cardinality(rows) \in Nat
               /\ s \in Seq(rows) /\ Len(s) = Cardinality(rows)
               /\ \A i \in rows : \E k \in DOMAIN s : s[k] = i
               /\ \A a, b \in DOMAIN s : a < b <=> Newer(s[a], s[b])
<1> DEFINE n == Cardinality(rows)
           Above(i) == {j \in rows : Newer(j, i)}
           before == [i \in rows |-> Cardinality(Above(i))]
           ranked == {<<i, Cardinality({j \in rows : Newer(j, i)})>> : i \in rows}
           s == NewestFirst(rows)
<1>1. IsFiniteSet(rows) /\ n \in Nat
  <2>1. Len(log) \in Nat /\ DOMAIN log = 1..Len(log)
    BY LogIs
  <2>2. IsFiniteSet(DOMAIN log)
    BY <2>1, FS_Interval
  <2> QED BY <2>2, FS_Subset, FS_CardinalityType
<1>2. ASSUME NEW i \in rows
      PROVE  before[i] \in 0..(n - 1)
  <2>1. Above(i) \in SUBSET rows /\ i \notin Above(i)
    BY NewerIs
  <2>2. IsFiniteSet(Above(i)) /\ Cardinality(Above(i)) \in Nat /\ Cardinality(Above(i)) <= n
    BY <1>1, <2>1, FS_Subset, FS_CardinalityType
  <2>3. Cardinality(Above(i)) # n
    BY <1>1, <2>1, FS_Subset
  <2> HIDE DEF Above, n
  <2>4. before[i] = Cardinality(Above(i))
    OBVIOUS
  <2> QED BY <1>1, <2>2, <2>3, <2>4
<1>3. ASSUME NEW i \in rows, NEW j \in rows, Newer(i, j)
      PROVE  before[i] < before[j]
  <2>1. IsFiniteSet(Above(j)) /\ IsFiniteSet(Above(i) \union {i})
    <3>1. Above(i) \in SUBSET rows /\ Above(j) \in SUBSET rows
      OBVIOUS
    <3> QED BY <1>1, <3>1, FS_Subset, FS_AddElement
  <2>2. Above(i) \union {i} \in SUBSET Above(j) /\ i \notin Above(i)
    BY <1>3, NewerIs
  <2>3. IsFiniteSet(Above(i))
    <3>1. Above(i) \in SUBSET rows
      OBVIOUS
    <3> QED BY <1>1, <3>1, FS_Subset
  <2>4. Cardinality(Above(i) \union {i}) = Cardinality(Above(i)) + 1
    BY <2>2, <2>3, FS_AddElement
  <2>5. Cardinality(Above(i) \union {i}) <= Cardinality(Above(j))
    BY <2>1, <2>2, FS_Subset
  <2>6. Cardinality(Above(i)) \in Nat /\ Cardinality(Above(j)) \in Nat
    BY <2>1, <2>3, FS_CardinalityType
  <2> HIDE DEF Above
  <2>7. before[i] = Cardinality(Above(i)) /\ before[j] = Cardinality(Above(j))
    OBVIOUS
  <2> QED BY <2>4, <2>5, <2>6, <2>7
<1>4. before \in [rows -> 0..(n - 1)]
  <2> HIDE DEF n, Above
  <2> QED BY <1>2
<1>5. s = [k \in 1..n |-> (CHOOSE r \in ranked : r[2] = k - 1)[1]]
  BY DEF NewestFirst
<1>12. ranked = {<<i, before[i]>> : i \in rows}
  <2>1. \A i \in rows : before[i] = Cardinality({j \in rows : Newer(j, i)})
    OBVIOUS
  <2> HIDE DEF before
  <2> QED BY <2>1
<1> HIDE DEF before, ranked, s, n
<1>6. \A i, j \in rows : before[i] = before[j] => i = j
  <2> SUFFICES ASSUME NEW i \in rows, NEW j \in rows, before[i] = before[j], i # j PROVE FALSE
    OBVIOUS
  <2>1. Newer(i, j) \/ Newer(j, i)
    BY NewerIs
  <2>2. before[i] \in Int /\ before[j] \in Int
    BY <1>2
  <2> QED BY <1>3, <2>1, <2>2
<1>7. \A m \in 0..(n - 1) : \E i \in rows : before[i] = m
  <2>1. before \in Injection(rows, 0..(n - 1))
    BY <1>4, <1>6 DEF Injection, IsInjective
  <2>2. IsFiniteSet(0..(n - 1)) /\ Cardinality(0..(n - 1)) = n
    <3>1. 0 \in Int /\ n - 1 \in Int
      BY <1>1
    <3>2. /\ IsFiniteSet(0..(n - 1))
          /\ Cardinality(0..(n - 1)) = IF 0 > n - 1 THEN 0 ELSE (n - 1) - 0 + 1
      BY <3>1, FS_Interval
    <3> QED BY <1>1, <3>2
  <2>3. before \in Surjection(rows, 0..(n - 1))
    BY <2>1, <2>2, FS_Injection DEF n
  <2> QED BY <2>3 DEF Surjection
<1>8. \A k \in 1..n : s[k] \in rows /\ before[s[k]] = k - 1
  <2> SUFFICES ASSUME NEW k \in 1..n PROVE s[k] \in rows /\ before[s[k]] = k - 1
    OBVIOUS
  <2>1. k - 1 \in 0..(n - 1)
    BY <1>1
  <2>2. PICK i \in rows : before[i] = k - 1
    BY <1>7, <2>1
  <2>3. <<i, before[i]>> \in ranked /\ <<i, before[i]>>[2] = k - 1
    BY <1>12, <2>2
  <2> DEFINE first == CHOOSE r \in ranked : r[2] = k - 1
  <2>4. first \in ranked /\ first[2] = k - 1
    BY <2>3
  <2>5. s[k] = first[1]
    BY <1>5
  <2> HIDE DEF first
  <2> QED BY <1>12, <2>4, <2>5
<1>9. s \in Seq(rows) /\ Len(s) = n /\ DOMAIN s = 1..n
  BY <1>1, <1>5, <1>8
<1>10. ASSUME NEW i \in rows PROVE \E k \in DOMAIN s : s[k] = i
  <2>1. before[i] + 1 \in 1..n /\ before[i] \in Int
    BY <1>1, <1>2
  <2>2. s[before[i] + 1] \in rows /\ before[s[before[i] + 1]] = before[i]
    BY <1>8, <2>1
  <2>3. s[before[i] + 1] = i
    BY <1>6, <2>2
  <2> QED BY <1>9, <2>1, <2>3
<1>11. ASSUME NEW a \in DOMAIN s, NEW b \in DOMAIN s
       PROVE  a < b <=> Newer(s[a], s[b])
  <2>1. /\ s[a] \in rows /\ before[s[a]] = a - 1 /\ a \in Int
        /\ s[b] \in rows /\ before[s[b]] = b - 1 /\ b \in Int
    BY <1>8, <1>9
  <2>2. Newer(s[a], s[b]) => a < b
    BY <1>3, <2>1
  <2>3. ASSUME a < b PROVE Newer(s[a], s[b])
    <3>1. s[a] # s[b]
      BY <2>1, <2>3
    <3>2. ~Newer(s[b], s[a])
      <4>1. Newer(s[b], s[a]) => before[s[b]] < before[s[a]]
        BY <1>3, <2>1
      <4> QED BY <2>1, <2>3, <4>1
    <3> QED BY <2>1, <3>1, <3>2, NewerIs
  <2> QED BY <2>2, <2>3
<1> QED BY <1>1, <1>9, <1>10, <1>11 DEF s, n

\* The page is the beginning of the listing.
LEMMA PageIs ==
    ASSUME EventInv
    PROVE  /\ Page \in Seq(DOMAIN log) /\ Len(Page) \in Nat
           /\ DOMAIN Page = 1..Len(Page)
           /\ \A a, b \in DOMAIN Page : a < b <=> Newer(Page[a], Page[b])
           /\ \A a \in DOMAIN Page, i \in DOMAIN log :
                 Newer(i, Page[a]) => \E b \in DOMAIN Page : Page[b] = i
<1> DEFINE s == Newest
           m == IF Len(log) < PageSize THEN Len(log) ELSE PageSize
<1>1. /\ s \in Seq(DOMAIN log) /\ Len(s) = Cardinality(DOMAIN log)
      /\ \A a, b \in DOMAIN s : a < b <=> Newer(s[a], s[b])
      /\ \A i \in DOMAIN log : \E b \in DOMAIN s : s[b] = i
  <2>1. DOMAIN log \in SUBSET (DOMAIN log)
    OBVIOUS
  <2> QED BY <2>1, NewestFirstIs DEF Newest
<1>2. Len(log) \in Nat /\ DOMAIN log = 1..Len(log) /\ m \in Nat /\ m <= Len(log)
  BY LogIs, EventAssumption
<1>3. Len(s) = Len(log)
  <2>1. 1 \in Int /\ Len(log) \in Int
    BY <1>2
  <2>2. Cardinality(1..Len(log)) = IF 1 > Len(log) THEN 0 ELSE Len(log) - 1 + 1
    BY <2>1, FS_Interval
  <2> QED BY <1>1, <1>2, <2>2
<1> HIDE DEF s, m
<1>4. \A i \in 1..m : s[i] \in DOMAIN log
  <2> SUFFICES ASSUME NEW i \in 1..m PROVE s[i] \in DOMAIN log
    OBVIOUS
  <2>1. i \in 1..Len(s)
    BY <1>2, <1>3
  <2> QED BY <1>1, <2>1
<1>5. /\ SubSeq(s, 1, m) \in Seq(DOMAIN log)
      /\ Len(SubSeq(s, 1, m)) = IF 1 <= m THEN m - 1 + 1 ELSE 0
      /\ \A i \in 1..(m - 1 + 1) : SubSeq(s, 1, m)[i] = s[1 + i - 1]
  BY <1>2, <1>4, SubSeqProperties
<1>6. Page = SubSeq(s, 1, m)
  BY DEF Page, s, m
<1>7. /\ Page \in Seq(DOMAIN log) /\ Len(Page) = m /\ DOMAIN Page = 1..m
      /\ \A i \in 1..m : Page[i] = s[i]
  BY <1>2, <1>5, <1>6
<1>8. DOMAIN s = 1..Len(log) /\ 1..m \subseteq DOMAIN s
  BY <1>1, <1>2, <1>3
<1>9. ASSUME NEW a \in 1..m, NEW i \in DOMAIN log, Newer(i, Page[a])
      PROVE  \E b \in 1..m : Page[b] = i
  <2>1. PICK b \in DOMAIN s : s[b] = i
    BY <1>1
  <2>2. b < a
    BY <1>1, <1>7, <1>8, <1>9, <2>1
  <2>3. b \in 1..m
    BY <1>2, <1>8, <2>2
  <2> QED BY <1>7, <2>1, <2>3
<1>10. \A a, b \in 1..m : a < b <=> Newer(Page[a], Page[b])
  BY <1>1, <1>7, <1>8
<1> QED BY <1>2, <1>7, <1>9, <1>10

-----------------------------------------------------------------------------
(* The pairs of a page, event by event from the newest on.                 *)

Fits(page, k, taken) ==
    {m \in (k + 1)..Len(page) :
        /\ \A n \in (k + 1)..m : log[page[k]].at - log[page[n]].at <= MaxSkew
        /\ m \notin taken /\ Pairable(log[page[k]], log[page[m]])}

LEMMA PartnerIs ==
    ASSUME NEW page, NEW k \in Nat, Len(page) \in Nat, NEW taken
    PROVE  LET m == Partner(page, k, taken)
           IN  IF Fits(page, k, taken) = {} THEN m = 0
               ELSE m \in Fits(page, k, taken) /\ \A n \in Fits(page, k, taken) : m <= n
<1> DEFINE F == Fits(page, k, taken)
<1>1. F \in SUBSET Nat
  BY DEF Fits
<1>2. Partner(page, k, taken) = IF F = {} THEN 0 ELSE CHOOSE m \in F : \A n \in F : m <= n
  <2> DEFINE Near == {m \in (k + 1)..Len(page) : \A n \in (k + 1)..m :
                                   log[page[k]].at - log[page[n]].at <= MaxSkew}
  <2> DEFINE G == {m \in Near \ taken : Pairable(log[page[k]], log[page[m]])}
  <2>1. Partner(page, k, taken) = IF G = {} THEN 0 ELSE CHOOSE m \in G : \A n \in G : m <= n
    BY Zenon DEF Partner
  <2>2. G = F
    BY DEF Fits
  <2> HIDE DEF G, F
  <2> QED BY <2>1, <2>2
<1>3. F # {} => \E m \in F : \A n \in F : m <= n
  BY <1>1, LeastNumber
<1> HIDE DEF F
<1>4. F # {} => Partner(page, k, taken) \in F /\ \A n \in F : Partner(page, k, taken) <= n
  BY <1>2, <1>3
<1> QED BY <1>2, <1>4 DEF F

PairsWith(page, k, newer) ==
    LET taken == {p[2] : p \in newer}
        m == IF k \in taken THEN 0 ELSE Partner(page, k, taken)
    IN  IF m = 0 THEN newer ELSE newer \union {<<k, m>>}

\* What Pairs computes, as a function on the places of the page.
LEMMA PairsAre ==
    ASSUME NEW page, Len(page) \in Nat
    PROVE  \E P : /\ P[0] = {}
                  /\ \A k \in 1..Len(page) : P[k] = PairsWith(page, k, P[k - 1])
                  /\ Pairs(page) = P[Len(page)]
<1> DEFINE N == Len(page)
           IsP(P, n) == P = [k \in 0..n |-> IF k = 0 THEN {} ELSE PairsWith(page, k, P[k - 1])]
           S == {n \in Nat : \E P : IsP(P, n)}
<1>1. 0 \in S
  <2>1. IsP([k \in 0..0 |-> {}], 0)
    OBVIOUS
  <2> QED BY <2>1
<1>2. ASSUME NEW n \in S PROVE n + 1 \in S
  <2>1. PICK P : IsP(P, n)
    OBVIOUS
  <2> DEFINE Q == [k \in 0..(n + 1) |-> IF k = n + 1 THEN PairsWith(page, n + 1, P[n]) ELSE P[k]]
  <2>2. \A k \in 0..n : /\ k \in 0..(n + 1) /\ k # n + 1 /\ Q[k] = P[k]
    OBVIOUS
  <2>3. ASSUME NEW k \in 0..(n + 1)
        PROVE  Q[k] = IF k = 0 THEN {} ELSE PairsWith(page, k, Q[k - 1])
    <3>1. CASE k = 0
      <4>1. 0 \in 0..n
        OBVIOUS
      <4> QED BY <2>1, <2>2, <3>1, <4>1
    <3>2. CASE k = n + 1
      <4>1. n \in 0..n /\ k - 1 = n /\ k # 0
        BY <3>2
      <4>2. Q[k] = PairsWith(page, k, P[n]) /\ Q[n] = P[n]
        BY <2>2, <3>2, <4>1
      <4> QED BY <4>1, <4>2
    <3>3. CASE k # 0 /\ k # n + 1
      <4>1. k \in 0..n /\ k - 1 \in 0..n
        BY <3>3
      <4>2. P[k] = PairsWith(page, k, P[k - 1])
        BY <2>1, <3>3, <4>1
      <4>3. Q[k] = P[k] /\ Q[k - 1] = P[k - 1]
        BY <2>2, <4>1
      <4> QED BY <3>3, <4>2, <4>3
    <3> QED BY <3>1, <3>2, <3>3
  <2> DEFINE R == [k \in 0..(n + 1) |-> IF k = 0 THEN {} ELSE PairsWith(page, k, Q[k - 1])]
  <2>4. Q = R
    <3>1. Q = [k \in 0..(n + 1) |-> Q[k]]
      OBVIOUS
    <3>2. R = [k \in 0..(n + 1) |-> R[k]]
      <4> HIDE DEF Q
      <4> QED OBVIOUS
    <3>3. \A k \in 0..(n + 1) : Q[k] = R[k]
      BY <2>3
    <3> HIDE DEF Q, R
    <3> QED BY <3>1, <3>2, <3>3
  <2>5. IsP(Q, n + 1)
    BY <2>4
  <2> HIDE DEF Q
  <2> QED BY <2>5
<1>3. N \in S
  <2>1. S \in SUBSET Nat
    OBVIOUS
  <2> HIDE DEF S
  <2> QED BY <1>1, <1>2, <2>1, SetInduction
<1>4. Pairs(page) = (CHOOSE P : IsP(P, N))[N]
  BY DEF Pairs, PairsWith
<1>5. IsP(CHOOSE P : IsP(P, N), N)
  BY <1>3
<1>6. PICK P : IsP(P, N) /\ Pairs(page) = P[N]
  BY <1>4, <1>5
<1>7. P[0] = {} /\ \A k \in 1..N : P[k] = PairsWith(page, k, P[k - 1])
  <2>1. 0 \in 0..N /\ \A k \in 1..N : k \in 0..N /\ k # 0
    OBVIOUS
  <2> QED BY <1>6, <2>1
<1> QED BY <1>6, <1>7

\* The pairs found so far: each joins an event with an older partner, and no
\* event is in two of them.
Matching(page, pairs, k) ==
    /\ \A p \in pairs : \E a, b \in DOMAIN page :
          /\ p = <<a, b>> /\ a <= k /\ a < b
          /\ Pairable(log[page[a]], log[page[b]])
    /\ \A p, q \in pairs : p # q => {p[1], p[2]} \intersect {q[1], q[2]} = {}

LEMMA MatchingKept ==
    ASSUME NEW page, Len(page) \in Nat, DOMAIN page = 1..Len(page),
           NEW k \in 1..Len(page), NEW pairs, Matching(page, pairs, k - 1)
    PROVE  Matching(page, PairsWith(page, k, pairs), k)
<1> DEFINE taken == {p[2] : p \in pairs}
           m == Partner(page, k, taken)
<1>1. \A p \in pairs : \E a, b \in DOMAIN page :
          /\ p = <<a, b>> /\ p[1] = a /\ p[2] = b /\ a <= k - 1 /\ a <= k /\ a # k /\ a < b
          /\ Pairable(log[page[a]], log[page[b]])
  BY DEF Matching
<1>2. CASE PairsWith(page, k, pairs) = pairs
  <2>1. \A p \in pairs : \E a, b \in DOMAIN page :
          /\ p = <<a, b>> /\ a <= k /\ a < b
          /\ Pairable(log[page[a]], log[page[b]])
    BY <1>1
  <2> QED BY <1>2, <2>1 DEF Matching
<1>3. CASE PairsWith(page, k, pairs) # pairs
  <2>1. k \notin taken /\ m # 0 /\ PairsWith(page, k, pairs) = pairs \union {<<k, m>>}
    BY <1>3 DEF PairsWith
  <2> HIDE DEF m
  <2>2. m \in Fits(page, k, taken)
    BY <2>1, PartnerIs DEF m
  <2>3. /\ m \in DOMAIN page /\ k < m /\ m \notin taken
        /\ Pairable(log[page[k]], log[page[m]])
    BY <2>2 DEF Fits
  <2>4. \A p \in pairs : /\ p[1] # k /\ p[2] # k /\ p[1] # m /\ p[2] # m
    <3> SUFFICES ASSUME NEW p \in pairs PROVE p[1] # k /\ p[2] # k /\ p[1] # m /\ p[2] # m
      OBVIOUS
    <3>1. p[1] \in Nat /\ p[1] <= k - 1
      BY <1>1
    <3>2. p[2] \in taken
      OBVIOUS
    <3> QED BY <2>1, <2>3, <3>1, <3>2
  <2> DEFINE new == <<k, m>>
  <2>5. new[1] = k /\ new[2] = m
    OBVIOUS
  <2>6. \A p \in pairs \union {new} : \E a, b \in DOMAIN page :
          /\ p = <<a, b>> /\ a <= k /\ a < b
          /\ Pairable(log[page[a]], log[page[b]])
    <3>1. \E a, b \in DOMAIN page : /\ new = <<a, b>> /\ a <= k /\ a < b
                                    /\ Pairable(log[page[a]], log[page[b]])
      BY <2>3
    <3> HIDE DEF new
    <3> QED BY <1>1, <3>1
  <2>7. \A p \in pairs : /\ {p[1], p[2]} \intersect {new[1], new[2]} = {}
                         /\ {new[1], new[2]} \intersect {p[1], p[2]} = {}
    BY <2>4, <2>5
  <2> HIDE DEF new
  <2>8. \A p, q \in pairs \union {new} : p # q => {p[1], p[2]} \intersect {q[1], q[2]} = {}
    BY <2>7 DEF Matching
  <2> QED BY <2>1, <2>6, <2>8 DEF Matching, new
<1> QED BY <1>2, <1>3

LEMMA PairsMatch ==
    ASSUME NEW page, Len(page) \in Nat, DOMAIN page = 1..Len(page)
    PROVE  Matching(page, Pairs(page), Len(page))
<1>1. PICK P : /\ P[0] = {}
               /\ \A k \in 1..Len(page) : P[k] = PairsWith(page, k, P[k - 1])
               /\ Pairs(page) = P[Len(page)]
  BY PairsAre
<1> DEFINE S == {n \in Nat : n <= Len(page) => Matching(page, P[n], n)}
<1>2. 0 \in S
  BY <1>1 DEF Matching
<1>3. ASSUME NEW n \in S PROVE n + 1 \in S
  <2>1. CASE n + 1 <= Len(page)
    <3>1. n + 1 \in 1..Len(page) /\ (n + 1) - 1 = n /\ n <= Len(page)
      BY <2>1
    <3>2. Matching(page, P[n], (n + 1) - 1) /\ P[n + 1] = PairsWith(page, n + 1, P[n])
      BY <1>1, <3>1
    <3>3. Matching(page, P[n + 1], n + 1)
      BY <3>1, <3>2, MatchingKept
    <3> QED BY <3>3
  <2>2. CASE ~(n + 1 <= Len(page))
    BY <2>2
  <2> QED BY <2>1, <2>2
<1>4. S \in SUBSET Nat
  OBVIOUS
<1> HIDE DEF S
<1>5. S = Nat
  BY <1>2, <1>3, <1>4, SetInduction
<1> QED BY <1>1, <1>5 DEF S

LEMMA ShownOnce == EventInv => EveryEventShownOnce
<1> SUFFICES ASSUME EventInv PROVE EveryEventShownOnce
  OBVIOUS
<1> DEFINE page == Page
           pairs == Pairs(page)
           records == Display(page)
           Shown(k) == {d \in records : k \in d.of}
           Shows(d, k) == /\ AlbumIds(log[page[k]]) \subseteq d.albums
                          /\ TrackIds(log[page[k]]) \subseteq d.tracks
                          /\ PathRows(log[page[k]]) \subseteq d.folders
<1>1. Matching(page, pairs, Len(page))
  BY PageIs, PairsMatch
<1>2. records = {Merged(page, p[1], p[2]) : p \in pairs}
                  \union {Single(page, k) : k \in DOMAIN page \ UNION {{p[1], p[2]} : p \in pairs}}
  BY DEF Display
<1>3. \A a, b : Merged(page, a, b).of = {a, b} /\ Single(page, a).of = {a}
  BY DEF Merged, Single
<1> HIDE DEF records, pairs, page
<1>4. ASSUME NEW k \in DOMAIN page
      PROVE  Cardinality(Shown(k)) = 1 /\ \A d \in Shown(k) : Shows(d, k)
  <2>1. CASE \E p \in pairs : k \in {p[1], p[2]}
    <3>1. PICK p \in pairs : k \in {p[1], p[2]}
      BY <2>1
    <3>2. \A q \in pairs : k \in {q[1], q[2]} => q = p
      BY <1>1, <3>1 DEF Matching
    <3>3. Shown(k) = {Merged(page, p[1], p[2])}
      <4>1. Merged(page, p[1], p[2]) \in Shown(k)
        BY <1>2, <1>3, <3>1
      <4>2. ASSUME NEW d \in records, k \in d.of PROVE d = Merged(page, p[1], p[2])
        <5>1. ASSUME NEW q \in pairs, d = Merged(page, q[1], q[2])
              PROVE  d = Merged(page, p[1], p[2])
          BY <1>3, <3>2, <4>2, <5>1
        <5>2. ASSUME NEW j \in DOMAIN page \ UNION {{q[1], q[2]} : q \in pairs},
                     d = Single(page, j)
              PROVE  FALSE
          <6>1. j = k
            BY <1>3, <4>2, <5>2
          <6> QED BY <3>1, <5>2, <6>1
        <5> QED BY <1>2, <4>2, <5>1, <5>2
      <4> QED BY <4>1, <4>2
    <3>4. PICK a, b \in DOMAIN page : p = <<a, b>> /\ Pairable(log[page[a]], log[page[b]])
      BY <1>1, <3>1 DEF Matching
    <3>5. p[1] = a /\ p[2] = b /\ k \in {a, b}
      BY <3>1, <3>4
    <3>6. PathRows(log[page[a]]) = {}
      BY <3>4 DEF Pairable, PathRows
    <3>7. Shows(Merged(page, a, b), a) /\ Shows(Merged(page, a, b), b)
      BY <3>6 DEF Merged
    <3> HIDE DEF Shown
    <3> QED BY <3>3, <3>5, <3>7, FS_Singleton
  <2>2. CASE ~ \E p \in pairs : k \in {p[1], p[2]}
    <3>1. Shown(k) = {Single(page, k)}
      <4>1. Single(page, k) \in Shown(k)
        BY <1>2, <1>3, <2>2
      <4>2. ASSUME NEW d \in records, k \in d.of PROVE d = Single(page, k)
        <5>1. \A q \in pairs : d # Merged(page, q[1], q[2])
          BY <1>3, <2>2, <4>2
        <5>2. PICK j \in DOMAIN page : d = Single(page, j)
          BY <1>2, <5>1
        <5> QED BY <1>3, <4>2, <5>2
      <4> QED BY <4>1, <4>2
    <3>2. Shows(Single(page, k), k)
      BY DEF Single
    <3> HIDE DEF Shown
    <3> QED BY <3>1, <3>2, FS_Singleton
  <2> QED BY <2>1, <2>2
<1> QED BY <1>4 DEF EveryEventShownOnce, records, page

\* Merging the two pushes of an import hides no event of the page and repeats
\* none, whatever was lost and whatever the clocks showed.
THEOREM EventsAreShownOnce == PathSpec => []EveryEventShownOnce
<1>1. PathsInv => EveryEventShownOnce
  BY ShownOnce DEF PathsInv
<1> QED BY <1>1, PathsInductive, PTL

-----------------------------------------------------------------------------
(* Whose the pairs are.                                                    *)

LEMMA OneTrack ==
    ASSUME NEW e, e.type \in {"item_imported", "item_removed", "import_task_files"}
    PROVE  /\ {row.track : row \in TrackRows(e)} = {e.track}
           /\ {row.album : row \in TrackRows(e)} = {e.album}
<1> DEFINE row == [track |-> e.track, album |-> e.album]
<1>1. TrackRows(e) = {row} /\ row.track = e.track /\ row.album = e.album
  BY DEF TrackRows
<1> HIDE DEF row
<1>2. {r.album : r \in {row}} = {row.album} /\ {r.track : r \in {row}} = {row.track}
  OBVIOUS
<1> QED BY <1>1, <1>2

\* The other push of a pair is of an entry with an id in common, and of the rows
\* of its own import, that of the files would do.
LEMMA PairableIs ==
    ASSUME EverInv, EventInv, PushInv, NEW i \in DOMAIN log, NEW j \in DOMAIN log,
           Pairable(log[i], log[j])
    PROVE  /\ Imported(log[i]) /\ ~Files(log[i]) /\ IsImport(log[i])
           /\ Files(log[j]) /\ IsImport(log[j])
           /\ Share(log[i], log[j]) /\ Share(log[j], log[i])
           /\ \A f \in DOMAIN log :
                 Files(log[f]) /\ log[f].nr = log[i].nr =>
                    /\ Pairable(log[i], log[f])
                    /\ Share(log[f], log[j]) /\ Share(log[j], log[f])
<1>1. log[i] \in Event /\ log[j] \in Event
  BY LogIs
<1>2. Imported(log[i]) /\ ~Files(log[i]) /\ IsImport(log[i]) /\ Files(log[j]) /\ IsImport(log[j])
  BY DEF Pairable, Imported, Files, IsImport, Removals
<1>3. /\ log[i].type = "album_imported" => AlbumIds(log[i]) = {log[i].album} \ {0}
      /\ log[i].type = "item_imported" => TrackIds(log[i]) = {log[i].track}
  BY OneTrack DEF AlbumIds, AlbumRows, TrackIds
<1>4. \A f \in DOMAIN log : Files(log[f]) => /\ AlbumIds(log[f]) = {log[f].album} \ {0}
                                             /\ TrackIds(log[f]) = {log[f].track}
  BY OneTrack DEF Files, AlbumIds, AlbumRows, TrackIds
<1>5. \/ /\ log[i].type = "album_imported" /\ log[i].album # 0
         /\ log[i].album = log[j].album
      \/ log[i].type = "item_imported" /\ log[i].track = log[j].track
  BY <1>2, <1>3, <1>4 DEF Pairable
<1>6. \E s \in SubjectsOf(log[i]) : s \in SubjectsOf(log[j])
  BY <1>5 DEF SubjectsOf
<1>7. ASSUME NEW f \in DOMAIN log, Files(log[f]), log[f].nr = log[i].nr
      PROVE  Pairable(log[i], log[f]) /\ SubjectsOf(log[f]) = SubjectsOf(log[i])
  <2>1. PICK g \in ever : IsOf(log[f], g) /\ SubjectsOf(log[f]) = SubjectsOf(g)
    BY EntryOfLog
  <2>2. PICK e \in ever : IsOf(log[i], e) /\ SubjectsOf(log[i]) = SubjectsOf(e)
    BY EntryOfLog
  <2>3. e = g
    BY <1>7, <2>1, <2>2 DEF EverInv, IsOf
  <2>4. log[f].album = log[i].album /\ log[f].track = log[i].track
    BY <2>1, <2>2, <2>3 DEF IsOf
  <2>5. CASE log[i].type = "album_imported" /\ log[i].album # 0
    BY <1>3, <1>4, <1>7, <2>4, <2>5, <2>1, <2>2, <2>3 DEF Pairable, Files
  <2>6. CASE log[i].type = "item_imported"
    BY <1>3, <1>4, <1>7, <2>4, <2>6, <2>1, <2>2, <2>3 DEF Pairable, Files
  <2> QED BY <1>5, <2>5, <2>6
<1> QED BY <1>2, <1>6, <1>7 DEF Share

\* The places of the page where the files of the import at place k may be joined.
Own(page, k) ==
    {m \in (k + 1)..Len(page) :
        /\ \A n \in (k + 1)..m : log[page[k]].at - log[page[n]].at <= MaxSkew
        /\ Pairable(log[page[k]], log[page[m]])
        /\ log[page[m]].nr = log[page[k]].nr}

LEMMA PageRows ==
    ASSUME EventInv
    PROVE  /\ DOMAIN Page = 1..Len(Page) /\ Len(Page) \in Nat
           /\ \A a \in DOMAIN Page : /\ a \in Nat /\ Page[a] \in DOMAIN log
                                     /\ Page[a] \in Nat /\ log[Page[a]] \in Event
                                     /\ log[Page[a]].at \in Nat /\ log[Page[a]].nr \in Nat
           /\ \A a, b \in DOMAIN Page : a < b => log[Page[b]].at <= log[Page[a]].at
           /\ \A a, b \in DOMAIN Page : Page[a] = Page[b] => a = b
<1>1. /\ Page \in Seq(DOMAIN log) /\ DOMAIN Page = 1..Len(Page) /\ Len(Page) \in Nat
      /\ \A a, b \in DOMAIN Page : a < b <=> Newer(Page[a], Page[b])
  BY PageIs
<1>2. ASSUME NEW a \in DOMAIN Page
      PROVE  /\ a \in Nat /\ Page[a] \in DOMAIN log
             /\ Page[a] \in Nat /\ log[Page[a]] \in Event
             /\ log[Page[a]].at \in Nat /\ log[Page[a]].nr \in Nat
  <2>1. Page[a] \in DOMAIN log
    BY <1>1
  <2> QED BY <1>1, <2>1, LogIs, IdValues DEF Event
<1>3. ASSUME NEW a \in DOMAIN Page, NEW b \in DOMAIN Page
      PROVE  /\ a < b => log[Page[b]].at <= log[Page[a]].at
             /\ Page[a] = Page[b] => a = b
  <2>1. a < b => log[Page[b]].at <= log[Page[a]].at
    BY <1>1, <1>2 DEF Newer
  <2>2. ~Newer(Page[a], Page[a]) /\ ~Newer(Page[b], Page[b])
    BY <1>2, NewerIs
  <2>3. Page[a] = Page[b] => ~(a < b) /\ ~(b < a)
    BY <1>1, <2>2
  <2> QED BY <1>2, <2>1, <2>3
<1> QED BY <1>1, <1>2, <1>3

\* The nearest partner is the import's own: the files of an earlier import with
\* the id lie beyond them, those of a later one are newer than the event.
LEMMA PartnerIsOwn ==
    ASSUME PathsInv, AllInOrder, NEW k \in DOMAIN Page, NEW taken,
           Own(Page, k) \intersect taken = {}
    PROVE  LET m == Partner(Page, k, taken)
           IN  IF Own(Page, k) = {} THEN m = 0 ELSE m \in Own(Page, k)
<1> DEFINE page == Page
           m == Partner(page, k, taken)
           F == Fits(page, k, taken)
<1>1. EventInv /\ EverInv /\ PushInv /\ OrderInv
  BY DEF PathsInv
<1>2. /\ DOMAIN page = 1..Len(page) /\ Len(page) \in Nat
      /\ \A a \in DOMAIN page : /\ a \in Nat /\ page[a] \in DOMAIN log
                                /\ page[a] \in Nat /\ log[page[a]] \in Event
                                /\ log[page[a]].at \in Nat /\ log[page[a]].nr \in Nat
  BY <1>1, PageRows
<1>3. /\ \A a, b \in DOMAIN page : a < b <=> Newer(page[a], page[b])
      /\ \A a \in DOMAIN page, i \in DOMAIN log :
            Newer(i, page[a]) => \E b \in DOMAIN page : page[b] = i
  BY <1>1, PageIs
<1>4. IF F = {} THEN m = 0 ELSE m \in F /\ \A n \in F : m <= n
  BY <1>2, PartnerIs
<1>5. Own(page, k) \subseteq F
  BY DEF Own, Fits
<1> HIDE DEF page, m, F
<1>6. CASE F = {}
  BY <1>4, <1>5, <1>6 DEF page, m
<1>7. CASE F # {}
  <2>1. /\ m \in F /\ \A n \in F : m <= n
        /\ m \in (k + 1)..Len(page) /\ m \in DOMAIN page /\ k < m
        /\ \A n \in (k + 1)..m : log[page[k]].at - log[page[n]].at <= MaxSkew
        /\ Pairable(log[page[k]], log[page[m]])
    <3>1. m \in F /\ \A n \in F : m <= n
      BY <1>4, <1>7
    <3>2. /\ m \in (k + 1)..Len(page)
          /\ \A n \in (k + 1)..m : log[page[k]].at - log[page[n]].at <= MaxSkew
          /\ Pairable(log[page[k]], log[page[m]])
      BY <3>1, Zenon DEF F, Fits
    <3>3. k \in Nat
      BY <1>2 DEF page
    <3>4. m \in DOMAIN page /\ k < m
      BY <1>2, <3>2, <3>3
    <3> QED BY <3>1, <3>2, <3>4
  <2> SUFFICES ASSUME log[page[m]].nr # log[page[k]].nr PROVE FALSE
    BY <2>1 DEF Own, page, m
  <2> DEFINE i == page[k]
             j == page[m]
  <2>2. /\ i \in DOMAIN log /\ j \in DOMAIN log /\ i \in Nat /\ j \in Nat
        /\ log[i].at \in Nat /\ log[j].at \in Nat /\ log[i].nr \in Nat /\ log[j].nr \in Nat
    BY <1>2, <2>1 DEF page
  <2>3. /\ Imported(log[i]) /\ IsImport(log[i]) /\ Files(log[j]) /\ IsImport(log[j])
        /\ Share(log[i], log[j]) /\ Share(log[j], log[i])
        /\ \A f \in DOMAIN log :
              Files(log[f]) /\ log[f].nr = log[i].nr =>
                 /\ Pairable(log[i], log[f])
                 /\ Share(log[f], log[j]) /\ Share(log[j], log[f])
    BY <1>1, <2>1, <2>2, PairableIs
  <2>4. ~(log[i].nr < log[j].nr)
    <3> SUFFICES ASSUME log[i].nr < log[j].nr PROVE FALSE
      OBVIOUS
    <3>1. i < j /\ log[i].at <= log[j].at
      BY <1>1, <2>2, <2>3 DEF OrderInv
    <3>2. Newer(j, i)
      BY <2>2, <3>1 DEF Newer
    <3>3. m < k
      BY <1>3, <2>1, <3>2 DEF page
    <3> QED BY <1>2, <2>1, <3>3 DEF page
  <2>5. log[j].nr < log[i].nr
    BY <2>2, <2>4
  <2>6. PICK f \in DOMAIN log : Files(log[f]) /\ log[f].nr = log[i].nr
    BY <1>1, <2>2, <2>3 DEF OrderInv
  <2>7. f \in Nat /\ log[f].at \in Nat /\ IsImport(log[f])
    BY <1>1, <2>6, LogIs DEF Files, IsImport, Removals
  <2>8. Newer(i, f)
    <3>1. f < i /\ log[f].at <= log[i].at
      BY <1>1, <2>2, <2>3, <2>6 DEF OrderInv
    <3> QED BY <2>2, <2>7, <3>1 DEF Newer
  <2>9. Newer(f, j)
    <3>1. j < f /\ log[j].at <= log[f].at
      BY <1>1, <2>2, <2>3, <2>5, <2>6, <2>7 DEF OrderInv
    <3> QED BY <2>2, <2>7, <3>1 DEF Newer
  <2>10. PICK b \in DOMAIN page : page[b] = f
    BY <1>3, <2>1, <2>6, <2>9
  <2>11. k < b /\ b < m /\ b \in Nat /\ k \in Nat /\ m \in Nat
    BY <1>2, <1>3, <2>1, <2>8, <2>9, <2>10 DEF page
  <2>12. \A n \in (k + 1)..b : n \in (k + 1)..m
    BY <2>11
  <2>13. b \in Own(page, k)
    <3>1. b \in (k + 1)..Len(page)
      BY <1>2, <2>11
    <3>2. Pairable(log[page[k]], log[page[b]]) /\ log[page[b]].nr = log[page[k]].nr
      BY <2>3, <2>6, <2>10
    <3> QED BY <2>1, <2>12, <3>1, <3>2 DEF Own
  <2>14. m <= b
    BY <1>5, <2>1, <2>13
  <2> QED BY <2>11, <2>14
<1> QED BY <1>6, <1>7

LEMMA OwnIs ==
    ASSUME PathsInv, AllInOrder, NEW k \in DOMAIN Page, NEW m \in Own(Page, k)
    PROVE  /\ m \in DOMAIN Page /\ k < m /\ m # 0
           /\ Own(Page, m) = {}
           /\ Own(Page, k) = {m}
           /\ \A a \in DOMAIN Page : m \in Own(Page, a) => a = k
<1>1. EventInv /\ EverInv /\ PushInv /\ OrderInv
  BY DEF PathsInv
<1>2. /\ DOMAIN Page = 1..Len(Page) /\ Len(Page) \in Nat
      /\ \A a \in DOMAIN Page : a \in Nat /\ Page[a] \in DOMAIN log
      /\ \A a, b \in DOMAIN Page : Page[a] = Page[b] => a = b
  BY <1>1, PageRows
<1>3. \A a \in DOMAIN Page : \A b \in Own(Page, a) :
         /\ b \in DOMAIN Page /\ a < b /\ Pairable(log[Page[a]], log[Page[b]])
         /\ log[Page[b]].nr = log[Page[a]].nr
  BY <1>2 DEF Own
<1>4. \A a \in DOMAIN Page : \A b \in Own(Page, a) :
         /\ b \in DOMAIN Page /\ a < b /\ log[Page[b]].nr = log[Page[a]].nr
         /\ Files(log[Page[b]]) /\ ~Files(log[Page[a]])
         /\ IsImport(log[Page[a]]) /\ IsImport(log[Page[b]])
  BY <1>1, <1>2, <1>3, PairableIs
<1>5. Own(Page, m) = {}
  BY <1>4
<1>6. \A b \in Own(Page, k) : b = m
  BY <1>1, <1>2, <1>4 DEF OrderInv
<1>7. \A a \in DOMAIN Page : m \in Own(Page, a) => a = k
  BY <1>1, <1>2, <1>4 DEF OrderInv
<1> QED BY <1>2, <1>4, <1>5, <1>6, <1>7

OwnPairs(k) == {p \in (1..k) \X DOMAIN Page : p[2] \in Own(Page, p[1])}

LEMMA OwnPairsKept ==
    ASSUME PathsInv, AllInOrder, NEW k \in DOMAIN Page
    PROVE  PairsWith(Page, k, OwnPairs(k - 1)) = OwnPairs(k)
<1> DEFINE newer == OwnPairs(k - 1)
           taken == {p[2] : p \in newer}
           m == IF k \in taken THEN 0 ELSE Partner(Page, k, taken)
<1>1. EventInv
  BY DEF PathsInv
<1>2. DOMAIN Page = 1..Len(Page) /\ Len(Page) \in Nat /\ k \in Nat \ {0}
  BY <1>1, PageRows
<1>3. 1..k = (1..(k - 1)) \union {k} /\ k \notin 1..(k - 1)
  BY <1>2
<1>4. \A p \in newer : p[1] \in DOMAIN Page /\ p[1] # k /\ p[2] \in Own(Page, p[1])
  BY <1>2, <1>3 DEF OwnPairs
<1>5. OwnPairs(k) = newer \union {p \in {k} \X DOMAIN Page : p[2] \in Own(Page, k)}
  BY <1>3 DEF OwnPairs
<1>6. PairsWith(Page, k, newer) = IF m = 0 THEN newer ELSE newer \union {<<k, m>>}
  BY DEF PairsWith
<1>7. k \in taken => Own(Page, k) = {}
  BY <1>4, OwnIs
<1>8. Own(Page, k) \intersect taken = {}
  BY <1>4, OwnIs
<1>9. IF Own(Page, k) = {} THEN m = 0 ELSE m \in Own(Page, k)
  <2>1. CASE k \in taken
    BY <1>7, <2>1
  <2>2. CASE k \notin taken
    BY <1>8, <2>2, PartnerIsOwn
  <2> QED BY <2>1, <2>2
<1> HIDE DEF newer, taken, m
<1>10. CASE Own(Page, k) = {}
  BY <1>5, <1>6, <1>9, <1>10 DEF newer
<1>11. CASE Own(Page, k) # {}
  <2>1. m # 0 /\ m \in DOMAIN Page /\ Own(Page, k) = {m}
    BY <1>9, <1>11, OwnIs
  <2>2. {p \in {k} \X DOMAIN Page : p[2] \in Own(Page, k)} = {<<k, m>>}
    BY <2>1
  <2> QED BY <1>5, <1>6, <2>1, <2>2 DEF newer
<1> QED BY <1>10, <1>11

LEMMA PairsAreOwn ==
    ASSUME PathsInv, AllInOrder
    PROVE  Pairs(Page) = OwnPairs(Len(Page))
<1>1. DOMAIN Page = 1..Len(Page) /\ Len(Page) \in Nat
  BY PageRows DEF PathsInv
<1>2. PICK P : /\ P[0] = {}
               /\ \A k \in 1..Len(Page) : P[k] = PairsWith(Page, k, P[k - 1])
               /\ Pairs(Page) = P[Len(Page)]
  BY <1>1, PairsAre
<1> DEFINE S == {n \in Nat : n <= Len(Page) => P[n] = OwnPairs(n)}
<1>3. 0 \in S
  BY <1>2 DEF OwnPairs
<1>4. ASSUME NEW n \in S PROVE n + 1 \in S
  <2>1. CASE n + 1 <= Len(Page)
    <3>1. n + 1 \in 1..Len(Page) /\ (n + 1) - 1 = n /\ n <= Len(Page)
      BY <1>1, <2>1
    <3>2. P[n + 1] = PairsWith(Page, n + 1, OwnPairs((n + 1) - 1))
      BY <1>2, <3>1
    <3>3. P[n + 1] = OwnPairs(n + 1)
      BY <1>1, <3>1, <3>2, OwnPairsKept
    <3> QED BY <3>3
  <2>2. CASE ~(n + 1 <= Len(Page))
    BY <2>2
  <2> QED BY <2>1, <2>2
<1>5. S \in SUBSET Nat
  OBVIOUS
<1> HIDE DEF S
<1>6. S = Nat
  BY <1>3, <1>4, <1>5, SetInduction
<1> QED BY <1>1, <1>2, <1>6 DEF S

LEMMA ImportsArePaired == PathsInv => PairsAreImports
<1> SUFFICES ASSUME PathsInv, AllInOrder
             PROVE  /\ \A p \in Pairs(Page) : log[Page[p[1]]].nr = log[Page[p[2]]].nr
                    /\ \A k, m \in DOMAIN Page :
                          /\ log[Page[k]].nr = log[Page[m]].nr
                          /\ Pairable(log[Page[k]], log[Page[m]])
                          /\ log[Page[k]].at - log[Page[m]].at <= MaxSkew
                          => <<k, m>> \in Pairs(Page)
  BY DEF PairsAreImports
<1>1. Pairs(Page) = OwnPairs(Len(Page))
  BY PairsAreOwn
<1>2. EventInv /\ EverInv /\ PushInv /\ OrderInv
  BY DEF PathsInv
<1>3. /\ DOMAIN Page = 1..Len(Page) /\ Len(Page) \in Nat
      /\ \A a \in DOMAIN Page : /\ a \in Nat /\ Page[a] \in DOMAIN log
                                /\ Page[a] \in Nat /\ log[Page[a]].at \in Nat
      /\ \A a, b \in DOMAIN Page : a < b => log[Page[b]].at <= log[Page[a]].at
  BY <1>2, PageRows
<1>4. \A p \in Pairs(Page) : log[Page[p[1]]].nr = log[Page[p[2]]].nr
  BY <1>1 DEF OwnPairs, Own
<1>5. ASSUME NEW k \in DOMAIN Page, NEW m \in DOMAIN Page,
             log[Page[k]].nr = log[Page[m]].nr,
             Pairable(log[Page[k]], log[Page[m]]),
             log[Page[k]].at - log[Page[m]].at <= MaxSkew
      PROVE  <<k, m>> \in Pairs(Page)
  <2>1. Imported(log[Page[k]]) /\ Files(log[Page[m]])
    BY <1>2, <1>3, <1>5, PairableIs
  <2>2. Page[m] < Page[k] /\ log[Page[m]].at <= log[Page[k]].at
    BY <1>2, <1>3, <1>5, <2>1 DEF OrderInv
  <2>3. Newer(Page[k], Page[m])
    BY <1>3, <2>2 DEF Newer
  <2>4. k < m
    BY <1>2, <2>3, PageIs
  <2>5. ASSUME NEW n \in (k + 1)..m
        PROVE  log[Page[k]].at - log[Page[n]].at <= MaxSkew
    <3>1. n \in DOMAIN Page /\ (n = m \/ n < m)
      BY <1>3
    <3>2. log[Page[m]].at <= log[Page[n]].at
      BY <1>3, <3>1
    <3>3. log[Page[n]].at \in Nat /\ log[Page[m]].at \in Nat /\ log[Page[k]].at \in Nat
      BY <1>3, <3>1
    <3> QED BY <1>5, <3>2, <3>3, EventAssumption
  <2>6. m \in Own(Page, k)
    <3>1. m \in (k + 1)..Len(Page)
      BY <1>3, <2>4
    <3> QED BY <1>5, <2>5, <3>1 DEF Own
  <2>7. k \in 1..Len(Page)
    BY <1>3
  <2> QED BY <1>1, <2>6, <2>7 DEF OwnPairs
<1> QED BY <1>4, <1>5

\* As long as no push was lost or came too late, what the page shows as one
\* import is the two pushes of one import, and every import whose two pushes are
\* near in time and on the page is shown so: also where an id has changed hands.
THEOREM PairsAreOfOneImport == PathSpec => []PairsAreImports
BY PathsInductive, ImportsArePaired, PTL

-----------------------------------------------------------------------------
(* The order in which removals are stamped and stored.                     *)

\* The removal q names an id that e has.
NamesIdOf(q, e) == \/ AlbumRows(q) = {e.album}
                   \/ \E row \in TrackRows(q) : row.track = e.track

\* An event was pushed: it is stored or on its way.
Sent(type, nr) ==
    \/ \E i \in DOMAIN log : log[i].type = type /\ log[i].nr = nr
    \/ \E c \in Clients : \E k \in DOMAIN queue[c] :
          queue[c][k].type = type /\ queue[c][k].nr = nr

\* Every event of an entry's past is pushed, and no removal of one that is there.
SentInv ==
    /\ \A e \in library :
          /\ \A i \in DOMAIN log : log[i].nr = e.nr => IsImport(log[i])
          /\ \A c \in Clients : \A k \in DOMAIN queue[c] :
                queue[c][k].nr = e.nr => IsImport(queue[c][k])
    /\ drops = 0 =>
          \A e \in ever :
             /\ Sent("import_task_files", e.nr)
             /\ e.album # 0 => Sent("album_imported", e.nr)
             /\ e \notin library => Sent("item_removed", e.nr)
             /\ e \notin library /\ e.album # 0 => Sent("album_removed", e.nr)

\* If no push was lost or came late, an entry's removal is stored and stamped
\* after its import, and before the import of an entry that is there and has an
\* id of it; and so it will be.
RemovalInv ==
    drops = 0 /\ overtaken = {} =>
        /\ \A i, j \in DOMAIN log :
              ~IsImport(log[i]) /\ IsImport(log[j]) /\ log[i].nr = log[j].nr
                => j < i /\ log[j].at <= log[i].at
        /\ \A c \in Clients, j \in DOMAIN log :
              /\ posting[c] /\ ~IsImport(queue[c][1])
              /\ IsImport(log[j]) /\ log[j].nr = queue[c][1].nr
              => log[j].at <= queue[c][1].at
        /\ \A e \in library, i, j \in DOMAIN log :
              /\ ~IsImport(log[i]) /\ NamesIdOf(log[i], e)
              /\ IsImport(log[j]) /\ log[j].nr = e.nr
              => i < j /\ log[i].at <= log[j].at
        /\ \A e \in library, c \in Clients, i \in DOMAIN log :
              /\ ~IsImport(log[i]) /\ NamesIdOf(log[i], e)
              /\ posting[c] /\ IsImport(queue[c][1]) /\ queue[c][1].nr = e.nr
              => log[i].at <= queue[c][1].at

\* Nothing but a lost push is forgotten.
LEMMA SentKept ==
    ASSUME EverInv, EventInv, PushInv, [PathNext]_allVars, drops' = 0,
           NEW type, NEW nr, Sent(type, nr)
    PROVE  Sent(type, nr)'
<1>1. CASE UNCHANGED <<log, queue>>
  BY <1>1 DEF Sent
<1>2. ASSUME NEW c \in Clients, queue[c] = <<>>, UNCHANGED log,
             \A d \in Clients \ {c} : queue'[d] = queue[d]
      PROVE  Sent(type, nr)'
  BY <1>2 DEF Sent
<1>3. ASSUME NEW c \in Clients, Import(c) \/ Remove(c) PROVE Sent(type, nr)'
  BY <1>2, <1>3, ImportIs, RemoveIs
<1>4. ASSUME NEW c \in Clients, Post(c) PROVE Sent(type, nr)'
  <2>1. /\ queue[c][1] \in Event /\ Len(queue'[c]) = Len(queue[c])
        /\ queue'[c][1] = [queue[c][1] EXCEPT !.at = now]
        /\ \A k \in DOMAIN queue[c] \ {1} : queue'[c][k] = queue[c][k]
        /\ \A d \in Clients \ {c} : queue'[d] = queue[d]
        /\ queue' \in [Clients -> Seq(Event)] /\ UNCHANGED log
    BY <1>4, PostIs
  <2>2. queue[c] \in Seq(Event) /\ queue'[c] \in Seq(Event)
    BY <2>1 DEF EventInv
  <2>3. DOMAIN queue'[c] = DOMAIN queue[c]
    BY <2>1, <2>2
  <2>4. queue'[c][1].type = queue[c][1].type /\ queue'[c][1].nr = queue[c][1].nr
    BY <2>1 DEF Event
  <2>5. \A k \in DOMAIN queue[c] : /\ queue'[c][k].type = queue[c][k].type
                                   /\ queue'[c][k].nr = queue[c][k].nr
    BY <2>1, <2>4
  <2> QED BY <2>1, <2>3, <2>5 DEF Sent
<1>5. ASSUME NEW c \in Clients, Store(c, library) PROVE Sent(type, nr)'
  <2> DEFINE n == Len(log) + 1
  <2>1. /\ posting[c] /\ Answered(c)
        /\ DOMAIN log' = DOMAIN log \union {n}
        /\ \A i \in DOMAIN log : log'[i] = log[i]
        /\ log'[n] = queue[c][1]
    BY <1>5, StoreIs
  <2> HIDE DEF n
  <2>2. /\ Len(queue[c]) \in Nat \ {0} /\ Len(queue'[c]) = Len(queue[c]) - 1
        /\ \A k \in DOMAIN queue'[c] : queue'[c][k] = queue[c][k + 1]
        /\ \A d \in Clients \ {c} : queue'[d] = queue[d]
        /\ queue' \in [Clients -> Seq(Event)]
    BY <2>1, AnsweredIs
  <2>3. queue[c] \in Seq(Event) /\ queue'[c] \in Seq(Event)
    BY <2>2 DEF EventInv
  <2>4. \A k \in DOMAIN queue[c] : k = 1 \/ (k - 1 \in DOMAIN queue'[c] /\ queue'[c][k - 1] = queue[c][k])
    BY <2>2, <2>3
  <2>5. ASSUME NEW d \in Clients, NEW k \in DOMAIN queue[d],
               queue[d][k].type = type, queue[d][k].nr = nr
        PROVE  Sent(type, nr)'
    <3>1. CASE d = c /\ k = 1
      BY <2>1, <2>5, <3>1 DEF Sent
    <3>2. CASE d = c /\ k # 1
      BY <2>4, <2>5, <3>2 DEF Sent
    <3>3. CASE d # c
      BY <2>2, <2>5, <3>3 DEF Sent
    <3> QED BY <3>1, <3>2, <3>3
  <2>6. ASSUME NEW i \in DOMAIN log, log[i].type = type, log[i].nr = nr
        PROVE  Sent(type, nr)'
    BY <2>1, <2>6 DEF Sent
  <2> QED BY <2>5, <2>6 DEF Sent
<1>6. \A c \in Clients : ~Drop(c)
  BY DEF Drop, EventInv
<1>7. Tick \/ UNCHANGED eventVars => UNCHANGED <<log, queue>>
  BY DEF Tick, eventVars
<1> QED BY <1>1, <1>3, <1>4, <1>5, <1>6, <1>7, StepsAre

\* drops counts the lost pushes, overtaken gathers the late ones.
LEMMA LossesKept ==
    ASSUME EventInv, [PathNext]_allVars
    PROVE  /\ drops' = 0 => drops = 0
           /\ overtaken' = {} => overtaken = {}
<1>1. \A c \in Clients : Drop(c) => drops' # 0
  BY DEF Drop, EventInv
<1>2. \A c \in Clients : Store(c, library) => overtaken \subseteq overtaken' /\ UNCHANGED drops
  BY DEF Store
<1>3. \A c \in Clients : Import(c) \/ Remove(c) \/ Post(c) => UNCHANGED <<drops, overtaken>>
  BY DEF Import, Remove, Post
<1>4. \A c \in Clients : Drop(c) => UNCHANGED overtaken
  BY DEF Drop
<1>5. Tick \/ UNCHANGED eventVars => UNCHANGED <<drops, overtaken>>
  BY DEF Tick, eventVars
<1> QED BY <1>1, <1>2, <1>3, <1>4, <1>5, StepsAre

\* The pushes of an import are none of a removal, and conversely.
LEMMA SentByIs ==
    ASSUME NEW e \in Entries, NEW c \in Clients
    PROVE  /\ queue'[c] = ImportPushes(e) =>
                 /\ \A k \in DOMAIN queue'[c] : IsImport(queue'[c][k]) /\ queue'[c][k].nr = e.nr
                 /\ Sent("import_task_files", e.nr)'
                 /\ e.album # 0 => Sent("album_imported", e.nr)'
           /\ queue'[c] = RemovalPushes(e) =>
                 /\ \A k \in DOMAIN queue'[c] : queue'[c][k].nr = e.nr
                 /\ Sent("item_removed", e.nr)'
                 /\ e.album # 0 => Sent("album_removed", e.nr)'
<1>1. /\ ImportPushes(e) \in Seq(Event) /\ Len(ImportPushes(e)) = 2
      /\ Files(ImportPushes(e)[1]) /\ Imported(ImportPushes(e)[2])
      /\ RemovalPushes(e) \in Seq(Event)
      /\ e.album = 0 => /\ Len(RemovalPushes(e)) = 1
                        /\ RemovalPushes(e)[1].type = "item_removed"
      /\ e.album # 0 => /\ Len(RemovalPushes(e)) = 2
                        /\ RemovalPushes(e)[1].type = "album_removed"
                        /\ RemovalPushes(e)[2].type = "item_removed"
      /\ \A k \in 1..2 : IsOf(ImportPushes(e)[k], e)
      /\ \A k \in DOMAIN RemovalPushes(e) : IsOf(RemovalPushes(e)[k], e)
  BY PushesAre
<1>2. ASSUME queue'[c] = ImportPushes(e)
      PROVE  /\ \A k \in DOMAIN queue'[c] : IsImport(queue'[c][k]) /\ queue'[c][k].nr = e.nr
             /\ Sent("import_task_files", e.nr)'
             /\ e.album # 0 => Sent("album_imported", e.nr)'
  <2>1. DOMAIN queue'[c] = 1..2 /\ 1 \in 1..2 /\ 2 \in 1..2 /\ \A k \in 1..2 : k = 1 \/ k = 2
    BY <1>1, <1>2
  <2>2. e.album # 0 => queue'[c][2].type = "album_imported"
    BY <1>2 DEF ImportPushes, EventOf
  <2>3. \A k \in DOMAIN queue'[c] : IsImport(queue'[c][k]) /\ queue'[c][k].nr = e.nr
    BY <1>1, <1>2, <2>1 DEF IsOf, IsImport, Removals, Files, Imported
  <2> QED BY <1>1, <1>2, <2>1, <2>2, <2>3 DEF Sent, Files
<1>3. ASSUME queue'[c] = RemovalPushes(e)
      PROVE  /\ \A k \in DOMAIN queue'[c] : queue'[c][k].nr = e.nr
             /\ Sent("item_removed", e.nr)'
             /\ e.album # 0 => Sent("album_removed", e.nr)'
  <2>1. CASE e.album = 0
    <3>1. 1 \in DOMAIN queue'[c]
      BY <1>1, <1>3, <2>1
    <3> QED BY <1>1, <1>3, <2>1, <3>1 DEF Sent, IsOf
  <2>2. CASE e.album # 0
    <3>1. 1 \in DOMAIN queue'[c] /\ 2 \in DOMAIN queue'[c]
      BY <1>1, <1>3, <2>2
    <3> QED BY <1>1, <1>3, <2>2, <3>1 DEF Sent, IsOf
  <2> QED BY <2>1, <2>2
<1> QED BY <1>2, <1>3

LEMMA SentInvKept ==
    ASSUME EverInv, EventInv, PushInv, SentInv, [PathNext]_allVars
    PROVE  SentInv'
<1> DEFINE NoneGone(e) == /\ \A i \in DOMAIN log : log[i].nr = e.nr => IsImport(log[i])
                          /\ \A c \in Clients : \A k \in DOMAIN queue[c] :
                                queue[c][k].nr = e.nr => IsImport(queue[c][k])
           AllSent(e) == /\ Sent("import_task_files", e.nr)
                         /\ e.album # 0 => Sent("album_imported", e.nr)
                         /\ e \notin library => Sent("item_removed", e.nr)
                         /\ e \notin library /\ e.album # 0 => Sent("album_removed", e.nr)
<1>1. SentInv <=> /\ \A e \in library : NoneGone(e)
                  /\ drops = 0 => \A e \in ever : AllSent(e)
  BY DEF SentInv
<1>2. drops' = 0 => /\ drops = 0
                    /\ \A type, nr : Sent(type, nr) => Sent(type, nr)'
  BY SentKept, LossesKept
<1>3. CASE UNCHANGED <<log, queue, drops, library, ever>>
  BY <1>3 DEF SentInv, Sent
<1>4. ASSUME drops' = 0, UNCHANGED <<library, ever>>
      PROVE  \A e \in ever' : AllSent(e)'
  BY <1>1, <1>2, <1>4
<1>5. ASSUME NEW c \in Clients, Import(c) PROVE SentInv'
  <2>1. PICK e \in Entries :
              /\ library' = library \union {e} /\ ever' = ever \union {e}
              /\ \A f \in ever : f.nr < e.nr
              /\ queue'[c] = ImportPushes(e)
              /\ \A d \in Clients \ {c} : queue'[d] = queue[d]
              /\ UNCHANGED log
    BY <1>5, ImportIs
  <2>2. /\ \A k \in DOMAIN queue'[c] : IsImport(queue'[c][k]) /\ queue'[c][k].nr = e.nr
        /\ Sent("import_task_files", e.nr)'
        /\ e.album # 0 => Sent("album_imported", e.nr)'
    BY <2>1, SentByIs
  <2>3. e.nr \in Nat /\ \A f \in ever : f.nr # e.nr
    BY <2>1, IdValues DEF Entries, EverInv
  <2>4. /\ \A i \in DOMAIN log : log[i].nr # e.nr
        /\ \A d \in Clients : \A k \in DOMAIN queue[d] : queue[d][k].nr # e.nr
    BY <2>3 DEF PushInv, IsOf
  <2>5. \A f \in library' : NoneGone(f)'
    <3>1. \A f \in library : f.nr # e.nr
      BY <2>3 DEF EverInv
    <3>2. NoneGone(e)'
      BY <2>1, <2>2, <2>4
    <3>3. \A f \in library : NoneGone(f)'
      BY <1>1, <2>1, <2>2, <3>1
    <3> QED BY <2>1, <3>2, <3>3
  <2>6. drops' = 0 => \A f \in ever' : AllSent(f)'
    <3>1. AllSent(e)'
      BY <2>1, <2>2
    <3>2. \A f \in ever : drops' = 0 => AllSent(f)'
      BY <1>1, <1>2, <2>1
    <3> QED BY <2>1, <3>1, <3>2
  <2> QED BY <2>5, <2>6 DEF SentInv
<1>6. ASSUME NEW c \in Clients, Remove(c) PROVE SentInv'
  <2>1. PICK e \in library :
              /\ e \in ever /\ e \in Entries
              /\ library' = library \ {e}
              /\ queue'[c] = RemovalPushes(e)
              /\ \A d \in Clients \ {c} : queue'[d] = queue[d]
              /\ UNCHANGED <<log, ever>>
    BY <1>6, RemoveIs
  <2>2. /\ \A k \in DOMAIN queue'[c] : queue'[c][k].nr = e.nr
        /\ Sent("item_removed", e.nr)'
        /\ e.album # 0 => Sent("album_removed", e.nr)'
    BY <2>1, SentByIs
  <2>3. \A f \in library' : f \in library /\ f.nr # e.nr
    BY <2>1 DEF EverInv
  <2>4. \A f \in library' : NoneGone(f)'
    BY <1>1, <2>1, <2>2, <2>3
  <2>5. drops' = 0 => \A f \in ever' : AllSent(f)'
    BY <1>1, <1>2, <2>1, <2>2
  <2> QED BY <2>4, <2>5 DEF SentInv
<1>7. ASSUME NEW c \in Clients, Post(c), UNCHANGED <<library, ever>> PROVE SentInv'
  <2>1. /\ queue[c][1] \in Event /\ Len(queue'[c]) = Len(queue[c])
        /\ queue'[c][1] = [queue[c][1] EXCEPT !.at = now]
        /\ \A k \in DOMAIN queue[c] \ {1} : queue'[c][k] = queue[c][k]
        /\ \A d \in Clients \ {c} : queue'[d] = queue[d]
        /\ queue' \in [Clients -> Seq(Event)] /\ UNCHANGED log
    BY <1>7, PostIs
  <2>2. DOMAIN queue'[c] = DOMAIN queue[c]
    <3>1. queue[c] \in Seq(Event) /\ queue'[c] \in Seq(Event)
      BY <2>1 DEF EventInv
    <3> QED BY <2>1, <3>1
  <2>3. queue'[c][1].type = queue[c][1].type /\ queue'[c][1].nr = queue[c][1].nr
    BY <2>1 DEF Event
  <2>4. \A k \in DOMAIN queue'[c] : /\ k \in DOMAIN queue[c]
                                    /\ queue'[c][k].type = queue[c][k].type
                                    /\ queue'[c][k].nr = queue[c][k].nr
    BY <2>1, <2>2, <2>3
  <2>5. ASSUME NEW e \in library' PROVE NoneGone(e)'
    <3>1. e \in library /\ NoneGone(e)
      BY <1>1, <1>7, <2>5
    <3>2. ASSUME NEW d \in Clients, NEW k \in DOMAIN queue'[d], queue'[d][k].nr = e.nr
          PROVE  IsImport(queue'[d][k])
      <4>1. CASE d = c
        BY <2>4, <3>1, <3>2, <4>1 DEF IsImport
      <4>2. CASE d # c
        BY <2>1, <3>1, <3>2, <4>2
      <4> QED BY <4>1, <4>2
    <3> QED BY <2>1, <3>1, <3>2
  <2> QED BY <1>4, <1>7, <2>5 DEF SentInv
<1>8. ASSUME NEW c \in Clients, Store(c, library) \/ Drop(c), UNCHANGED <<library, ever>>
      PROVE  SentInv'
  <2>1. posting[c] /\ Answered(c) /\ queue[c] # <<>>
    BY <1>8 DEF Store, Drop, EventInv
  <2>2. /\ \A k \in DOMAIN queue'[c] : k + 1 \in DOMAIN queue[c] /\ queue'[c][k] = queue[c][k + 1]
        /\ \A d \in Clients \ {c} : queue'[d] = queue[d]
    BY <2>1, AnsweredIs
  <2>3. \A i \in DOMAIN log' : \/ i \in DOMAIN log /\ log'[i] = log[i]
                               \/ log'[i] = queue[c][1]
    BY <1>8, StoreIs DEF Drop
  <2>4. 1 \in DOMAIN queue[c]
    BY <2>1, HeadIs
  <2>5. \A e \in library' : NoneGone(e)'
    BY <1>1, <1>8, <2>2, <2>3, <2>4
  <2> QED BY <1>4, <1>8, <2>5 DEF SentInv
<1>9. Tick \/ UNCHANGED eventVars => UNCHANGED <<log, queue, drops>>
  BY DEF Tick, eventVars
<1> QED BY <1>3, <1>5, <1>6, <1>7, <1>8, <1>9, StepsAre

\* A removal that is stored in order names no id of an entry that is there.
LEMMA RemovalInOrder ==
    ASSUME EventInv, NEW c \in Clients, Store(c, library), overtaken' = {},
           ~IsImport(queue[c][1])
    PROVE  \A f \in library : ~NamesIdOf(queue[c][1], f)
<1> DEFINE h == queue[c][1]
<1>1. overtaken' = overtaken \union Late(h, library)
  BY StoreIs
<1>2. Late(h, library) = {}
  BY <1>1
<1> QED BY <1>2 DEF Late, IsImport, NamesIdOf

LEMMA RemovalInvKept ==
    ASSUME EverInv, LatestInv, EventInv, PushInv, TimeInv, SentInv, RemovalInv,
           [PathNext]_allVars
    PROVE  RemovalInv'
<1> SUFFICES ASSUME drops' = 0, overtaken' = {} PROVE RemovalInv'
  BY DEF RemovalInv
<1>1. drops = 0 /\ overtaken = {} /\ AllInOrder'
  BY LossesKept DEF AllInOrder
<1> DEFINE \* a removal and an import of one entry
           After == \A i, j \in DOMAIN log :
                       ~IsImport(log[i]) /\ IsImport(log[j]) /\ log[i].nr = log[j].nr
                         => j < i /\ log[j].at <= log[i].at
           AfterAll(c) == \A j \in DOMAIN log :
                       /\ posting[c] /\ ~IsImport(queue[c][1])
                       /\ IsImport(log[j]) /\ log[j].nr = queue[c][1].nr
                       => log[j].at <= queue[c][1].at
           \* the removal of another's id and an import
           Before(e) == \A i, j \in DOMAIN log :
                       /\ ~IsImport(log[i]) /\ NamesIdOf(log[i], e)
                       /\ IsImport(log[j]) /\ log[j].nr = e.nr
                       => i < j /\ log[i].at <= log[j].at
           BeforeAll(e, c) == \A i \in DOMAIN log :
                       /\ ~IsImport(log[i]) /\ NamesIdOf(log[i], e)
                       /\ posting[c] /\ IsImport(queue[c][1]) /\ queue[c][1].nr = e.nr
                       => log[i].at <= queue[c][1].at
<1>2. After /\ \A c \in Clients : AfterAll(c)
  BY <1>1 DEF RemovalInv
<1>3. \A e \in library : Before(e) /\ \A c \in Clients : BeforeAll(e, c)
  BY <1>1 DEF RemovalInv
<1>4. SUFFICES /\ After' /\ \A c \in Clients : AfterAll(c)'
               /\ \A e \in library' : Before(e)' /\ \A c \in Clients : BeforeAll(e, c)'
  BY DEF RemovalInv
<1>5. CASE UNCHANGED <<log, queue, posting, library>>
  BY <1>2, <1>3, <1>5
<1>6. ASSUME NEW c \in Clients, Import(c)
      PROVE  /\ After' /\ \A d \in Clients : AfterAll(d)'
             /\ \A e \in library' : Before(e)' /\ \A d \in Clients : BeforeAll(e, d)'
  <2>1. PICK e \in Entries :
              /\ library' = library \union {e} /\ ever' = ever \union {e}
              /\ \A f \in ever : f.nr < e.nr
              /\ ~posting[c]
              /\ \A d \in Clients \ {c} : queue'[d] = queue[d]
              /\ UNCHANGED <<log, posting>>
    BY <1>6, ImportIs
  <2>2. e.nr \in Nat /\ \A f \in ever : f.nr # e.nr
    BY <2>1, IdValues DEF Entries, EverInv
  <2>3. /\ \A i \in DOMAIN log : log[i].nr # e.nr
        /\ \A d \in Clients : posting[d] => queue[d][1].nr # e.nr
    BY <2>2, HeadIs DEF PushInv, IsOf, EventInv
  <2>4. After' /\ \A d \in Clients : AfterAll(d)'
    BY <1>2, <2>1
  <2>5. Before(e)' /\ \A d \in Clients : BeforeAll(e, d)'
    BY <2>1, <2>3
  <2>6. \A f \in library : Before(f)' /\ \A d \in Clients : BeforeAll(f, d)'
    BY <1>3, <2>1
  <2> QED BY <2>1, <2>4, <2>5, <2>6
<1>7. ASSUME NEW c \in Clients, Remove(c)
      PROVE  /\ After' /\ \A d \in Clients : AfterAll(d)'
             /\ \A e \in library' : Before(e)' /\ \A d \in Clients : BeforeAll(e, d)'
  <2>1. /\ library' \subseteq library /\ ~posting[c]
        /\ \A d \in Clients \ {c} : queue'[d] = queue[d]
        /\ UNCHANGED <<log, posting>>
    BY <1>7, RemoveIs
  <2> QED BY <1>2, <1>3, <2>1
<1>8. ASSUME NEW c \in Clients, Post(c), UNCHANGED <<library, ever>>
      PROVE  /\ After' /\ \A d \in Clients : AfterAll(d)'
             /\ \A e \in library' : Before(e)' /\ \A d \in Clients : BeforeAll(e, d)'
  <2>1. /\ queue[c][1] \in Event
        /\ queue'[c][1] = [queue[c][1] EXCEPT !.at = now]
        /\ \A d \in Clients \ {c} : queue'[d] = queue[d] /\ posting'[d] = posting[d]
        /\ UNCHANGED log
    BY <1>8, PostIs
  <2>2. queue'[c][1].at = now
    BY <2>1 DEF Event
  <2>3. \A i \in DOMAIN log : log[i].at <= now
    BY DEF TimeInv
  <2>4. AfterAll(c)' /\ \A e \in library' : BeforeAll(e, c)'
    BY <2>1, <2>2, <2>3
  <2>5. \A d \in Clients \ {c} : AfterAll(d)' /\ \A e \in library' : BeforeAll(e, d)'
    BY <1>2, <1>3, <1>8, <2>1
  <2>6. After' /\ \A e \in library' : Before(e)'
    BY <1>2, <1>3, <1>8, <2>1
  <2> QED BY <2>4, <2>5, <2>6
<1>9. ASSUME NEW c \in Clients, Store(c, library), UNCHANGED <<library, ever>>
      PROVE  /\ After' /\ \A d \in Clients : AfterAll(d)'
             /\ \A e \in library' : Before(e)' /\ \A d \in Clients : BeforeAll(e, d)'
  <2> DEFINE h == queue[c][1]
             n == Len(log) + 1
  <2>1. /\ posting[c] /\ Answered(c) /\ queue[c] # <<>> /\ h \in Event
        /\ DOMAIN log' = DOMAIN log \union {n}
        /\ \A i \in DOMAIN log : log'[i] = log[i]
        /\ log'[n] = h
    BY <1>9, StoreIs DEF EventInv
  <2>2. /\ \A d \in Clients \ {c} : queue'[d] = queue[d] /\ posting'[d] = posting[d]
        /\ ~posting'[c]
    BY <2>1, AnsweredIs
  <2>3. \A i \in DOMAIN log : i < n /\ i # n
    BY LogIs
  <2>4. 1 \in DOMAIN queue[c]
    BY <2>1, HeadIs
  \* An import is stored while its entry is there: none of its removals is on its way.
  <2>5. ASSUME IsImport(h)
        PROVE  /\ \A i \in DOMAIN log : log[i].nr = h.nr => IsImport(log[i])
               /\ \A d \in Clients : posting[d] /\ queue[d][1].nr = h.nr => IsImport(queue[d][1])
    <3>1. PICK f \in library : h.nr = f.nr
      BY <1>1, <1>9, <2>5, StoredInOrder
    <3>2. \A d \in Clients : posting[d] => 1 \in DOMAIN queue[d]
      BY HeadIs DEF EventInv
    <3> QED BY <3>1, <3>2 DEF SentInv
  <2>6. ASSUME ~IsImport(h) PROVE \A f \in library : ~NamesIdOf(h, f)
    BY <1>9, <2>6, RemovalInOrder
  <2>7. AfterAll(c) /\ \A e \in library : BeforeAll(e, c)
    BY <1>2, <1>3
  <2> HIDE DEF h, n
  <2>8. After'
    <3> SUFFICES ASSUME NEW i \in DOMAIN log', NEW j \in DOMAIN log',
                        ~IsImport(log'[i]), IsImport(log'[j]), log'[i].nr = log'[j].nr
                 PROVE  j < i /\ log'[j].at <= log'[i].at
      OBVIOUS
    <3>1. CASE i = n
      <4>1. j # n /\ j \in DOMAIN log
        BY <2>1, <3>1
      <4> QED BY <2>1, <2>3, <2>7, <3>1, <4>1 DEF h
    <3>2. CASE i # n /\ j = n
      BY <2>1, <2>5, <3>2
    <3>3. CASE i # n /\ j # n
      BY <1>2, <2>1, <3>3
    <3> QED BY <3>1, <3>2, <3>3
  <2>9. ASSUME NEW d \in Clients PROVE AfterAll(d)'
    <3> SUFFICES ASSUME d # c PROVE AfterAll(d)'
      BY <2>2
    <3> SUFFICES ASSUME NEW j \in DOMAIN log', posting[d], ~IsImport(queue[d][1]),
                        IsImport(log'[j]), log'[j].nr = queue[d][1].nr
                 PROVE  log'[j].at <= queue[d][1].at
      BY <2>2
    <3>1. CASE j = n
      BY <2>1, <2>5, <3>1
    <3>2. CASE j # n
      BY <1>2, <2>1, <3>2
    <3> QED BY <3>1, <3>2
  <2>10. ASSUME NEW e \in library PROVE Before(e)'
    <3> SUFFICES ASSUME NEW i \in DOMAIN log', NEW j \in DOMAIN log',
                        ~IsImport(log'[i]), NamesIdOf(log'[i], e),
                        IsImport(log'[j]), log'[j].nr = e.nr
                 PROVE  i < j /\ log'[i].at <= log'[j].at
      BY DEF NamesIdOf
    <3>1. i # n /\ i \in DOMAIN log
      BY <2>1, <2>6
    <3>2. CASE j = n
      BY <2>1, <2>3, <2>7, <3>1, <3>2 DEF h
    <3>3. CASE j # n
      BY <1>3, <2>1, <3>1, <3>3
    <3> QED BY <3>2, <3>3
  <2>11. ASSUME NEW e \in library, NEW d \in Clients PROVE BeforeAll(e, d)'
    <3> SUFFICES ASSUME d # c PROVE BeforeAll(e, d)'
      BY <2>2
    <3> SUFFICES ASSUME NEW i \in DOMAIN log', posting[d], IsImport(queue[d][1]),
                        queue[d][1].nr = e.nr,
                        ~IsImport(log'[i]), NamesIdOf(log'[i], e)
                 PROVE  log'[i].at <= queue[d][1].at
      BY <2>2
    <3>1. i # n /\ i \in DOMAIN log
      BY <2>1, <2>6
    <3> QED BY <1>3, <2>1, <3>1
  <2> QED BY <1>9, <2>8, <2>9, <2>10, <2>11
<1>10. \A c \in Clients : ~Drop(c)
  BY <1>1 DEF Drop, EventInv
<1>11. Tick \/ UNCHANGED eventVars => UNCHANGED <<log, queue, posting>>
  BY DEF Tick, eventVars
<1> QED BY <1>5, <1>6, <1>7, <1>8, <1>9, <1>10, <1>11, StepsAre

LEMMA HistoryInductive == PathSpec => [](PathsInv /\ SentInv /\ RemovalInv)
<1>1. InitPaths => SentInv /\ RemovalInv
  BY DEF InitPaths, InitEvents, SentInv, RemovalInv
<1>2. PathsInv /\ SentInv /\ RemovalInv /\ [PathNext]_allVars => SentInv' /\ RemovalInv'
  BY SentInvKept, RemovalInvKept DEF PathsInv
<1> QED BY <1>1, <1>2, PathsInductive, PTL DEF PathSpec

\* A lookup begins with the newest of the rows that name the id.
LEMMA LookupIs ==
    ASSUME EventInv, NEW field, NEW id
    PROVE  LET rows == {i \in DOMAIN log : Names(log[i], field, id)}
               found == Lookup(field, id)
           IN  IF rows = {} THEN found = <<>>
               ELSE /\ found # <<>> /\ Head(found) \in rows
                    /\ \A j \in rows : ~Newer(j, Head(found))
<1> DEFINE rows == {i \in DOMAIN log : Names(log[i], field, id)}
           found == Lookup(field, id)
<1>1. /\ found \in Seq(rows) /\ Len(found) \in Nat
      /\ \A i \in rows : \E k \in DOMAIN found : found[k] = i
      /\ \A a, b \in DOMAIN found : a < b <=> Newer(found[a], found[b])
  <2>1. rows \in SUBSET (DOMAIN log)
    OBVIOUS
  <2> QED BY <2>1, NewestFirstIs DEF Lookup
<1> HIDE DEF rows, found
<1>2. CASE rows = {}
  <2>1. Len(found) = 0
    BY <1>1, <1>2
  <2> QED BY <1>1, <1>2, <2>1 DEF rows, found
<1>3. CASE rows # {}
  <2>1. found # <<>>
    BY <1>1, <1>3
  <2>2. 1 \in DOMAIN found /\ Head(found) = found[1] /\ found[1] \in rows
    BY <1>1, <2>1
  <2>3. ASSUME NEW j \in rows PROVE ~Newer(j, found[1])
    <3>1. PICK k \in DOMAIN found : found[k] = j
      BY <1>1
    <3>2. k \in Nat /\ ~(k < 1)
      BY <1>1
    <3> QED BY <1>1, <2>2, <3>1, <3>2
  <2> QED BY <1>3, <2>1, <2>2, <2>3 DEF rows, found
<1> QED BY <1>2, <1>3

\* What of an entry an id names in the log.
LEMMA NamesAre ==
    ASSUME EverInv, EventInv, PushInv, NEW field \in {"album", "track"}, NEW id \in Ids,
           NEW e \in ever, NEW i \in DOMAIN log
    PROVE  /\ log[i].nr = e.nr => IsOf(log[i], e)
           /\ IsOf(log[i], e) /\ Names(log[i], field, id) => <<field, id>> \in SubjectsOf(e)
           /\ <<field, id>> \in SubjectsOf(e) /\ Names(log[i], field, id) => NamesIdOf(log[i], e)
           /\ <<field, id>> \in SubjectsOf(e) /\ IsOf(log[i], e) =>
                 /\ log[i].type \in {"album_imported", "album_removed"} /\ field = "album"
                       => Names(log[i], field, id)
                 /\ log[i].type \in {"import_task_files", "item_removed"} /\ field = "track"
                       => Names(log[i], field, id)
<1>1. log[i].nr = e.nr => IsOf(log[i], e)
  BY EntryOfLog DEF EverInv
<1>2. id # 0 /\ e \in Entries
  BY IdValues DEF EverInv
<1>3. CASE field = "album"
  <2>1. /\ Names(log[i], field, id) <=> id \in AlbumRows(log[i])
        /\ <<field, id>> \in SubjectsOf(e) <=> e.album = id
    BY <1>2, <1>3 DEF Names, SubjectsOf
  <2> QED BY <1>1, <1>2, <1>3, <2>1 DEF AlbumRows, IsOf, NamesIdOf
<1>4. CASE field = "track"
  <2>1. /\ Names(log[i], field, id) <=> \E row \in TrackRows(log[i]) : row.track = id
        /\ <<field, id>> \in SubjectsOf(e) <=> e.track = id
    BY <1>4 DEF Names, SubjectsOf
  <2>2. \A x : (\E row \in TrackRows(log[i]) : row.track = x)
                <=> /\ log[i].type \in {"item_imported", "item_removed", "import_task_files"}
                    /\ log[i].track = x
    <3>1. CASE log[i].type \in {"item_imported", "item_removed", "import_task_files"}
      BY <3>1, OneTrack
    <3>2. CASE log[i].type \notin {"item_imported", "item_removed", "import_task_files"}
      BY <3>2 DEF TrackRows
    <3> QED BY <3>1, <3>2
  <2> QED BY <1>1, <1>4, <2>1, <2>2 DEF IsOf, NamesIdOf
<1> QED BY <1>3, <1>4

LEMMA HistoryCurrent == PathsInv /\ SentInv /\ RemovalInv => HistoryIsCurrent
<1> SUFFICES ASSUME PathsInv, SentInv, RemovalInv,
                    \A c \in Clients : Idle(c), drops = 0, overtaken = {},
                    NEW field \in {"album", "track"}, NEW id \in Ids
             PROVE  LET found == Lookup(field, id)
                    IN  IF found = <<>> THEN Current(field, id) = {}
                        ELSE (log[Head(found)].type \in Removals) <=> Current(field, id) = {}
  BY DEF HistoryIsCurrent
<1> DEFINE found == Lookup(field, id)
           rows == {i \in DOMAIN log : Names(log[i], field, id)}
           h == Head(found)
<1>1. EverInv /\ EventInv /\ PushInv
  BY DEF PathsInv
<1>2. IF rows = {} THEN found = <<>>
      ELSE found # <<>> /\ h \in rows /\ \A j \in rows : ~Newer(j, h)
  BY <1>1, LookupIs
<1>3. \A i \in DOMAIN log : i \in Nat /\ log[i].at \in Nat
  BY <1>1, LogIs
<1>4. ASSUME NEW type, NEW nr, Sent(type, nr)
      PROVE  \E i \in DOMAIN log : log[i].type = type /\ log[i].nr = nr
  BY <1>4 DEF Sent, Idle
<1> HIDE DEF found, h
\* An entry with the id: its import is in the log, and no removal is newer.
<1>5. ASSUME Current(field, id) # {}
      PROVE  found # <<>> /\ log[h].type \notin Removals
  <2>1. PICK e \in library : <<field, id>> \in SubjectsOf(e)
    BY <1>5 DEF Current
  <2>2. e \in ever
    BY <1>1 DEF EverInv
  <2>3. field = "album" => e.album # 0
    BY <2>1 DEF SubjectsOf
  <2>4. PICK j \in DOMAIN log : /\ log[j].type = IF field = "album" THEN "album_imported"
                                                                    ELSE "import_task_files"
                                /\ log[j].nr = e.nr
    BY <1>4, <2>2, <2>3 DEF SentInv
  <2>5. Names(log[j], field, id) /\ IsImport(log[j])
    BY <1>1, <2>1, <2>2, <2>4, NamesAre DEF IsImport, Removals
  <2>6. h \in rows /\ ~Newer(j, h) /\ found # <<>>
    BY <1>2, <2>5
  <2>7. ASSUME ~IsImport(log[h]) PROVE FALSE
    <3>1. h \in DOMAIN log /\ NamesIdOf(log[h], e)
      BY <1>1, <2>1, <2>2, <2>6, NamesAre
    <3>2. h < j /\ log[h].at <= log[j].at
      BY <2>4, <2>5, <2>7, <3>1 DEF RemovalInv
    <3>3. Newer(j, h)
      BY <1>3, <3>1, <3>2 DEF Newer
    <3> QED BY <2>6, <3>3
  <2> QED BY <2>6, <2>7 DEF IsImport
\* None: whose import is in the log has its removal there, which is newer.
<1>6. ASSUME Current(field, id) = {}, found # <<>>, log[h].type \notin Removals
      PROVE  FALSE
  <2>1. h \in DOMAIN log /\ Names(log[h], field, id) /\ \A j \in rows : ~Newer(j, h)
    BY <1>2, <1>6
  <2>2. PICK e \in ever : IsOf(log[h], e) /\ log[h].nr = e.nr
    BY <1>1, <2>1, EntryOfLog
  <2>3. <<field, id>> \in SubjectsOf(e)
    BY <1>1, <2>1, <2>2, NamesAre
  <2>4. e \notin library /\ (field = "album" => e.album # 0)
    BY <1>6, <2>3 DEF Current, SubjectsOf
  <2>5. PICK r \in DOMAIN log : /\ log[r].type = IF field = "album" THEN "album_removed"
                                                                    ELSE "item_removed"
                                /\ log[r].nr = e.nr
    BY <1>4, <2>4 DEF SentInv
  <2>6. r \in rows /\ ~IsImport(log[r])
    BY <1>1, <2>3, <2>5, NamesAre DEF IsImport, Removals
  <2>7. h < r /\ log[h].at <= log[r].at
    BY <1>6, <2>1, <2>2, <2>5, <2>6 DEF RemovalInv, IsImport
  <2>8. Newer(r, h)
    BY <1>3, <2>1, <2>7 DEF Newer
  <2> QED BY <2>1, <2>6, <2>8
<1> QED BY <1>5, <1>6 DEF found, h

\* Once no push is under way, and if none was lost or came late, the newest event
\* that a lookup by id finds tells whether an entry has that id now, however often
\* beets gave the id away again and whenever the clock stood still.
THEOREM NewestTellsWhatIs == PathSpec => []HistoryIsCurrent
BY HistoryInductive, HistoryCurrent, PTL

=============================================================================
