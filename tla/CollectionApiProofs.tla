------------------------- MODULE CollectionApiProofs -------------------------
(***************************************************************************)
(* Proofs about CollectionApi, for any documents, cursor ids and batch     *)
(* size.  CursorInv says where in the collection the Cursor is, a reply on *)
(* its way to it goes on, and the server's own cursor stands; DataInv that *)
(* the collection has each _id once.                                       *)
(***************************************************************************)
EXTENDS CollectionApi, TLAPS

-----------------------------------------------------------------------------
(* The invariant *)

Kinds == {"find", "find_one", "getMore"}
Places == {"queued", "running", "answered"}
States == {"unused", "open", "pinned", "doomed", "gone"}

Replies == [ok : {"0", "1"}, writeErrors : BOOLEAN, writeConcernError : BOOLEAN,
            wellFormed : BOOLEAN, id : Ids \cup {NoId}, batch : Seq(Documents)]
JobSet == [what : Kinds, id : Ids, at : Places, reply : SUBSET Replies]

ApiType ==
    /\ data \in Seq(Documents)
    /\ server \in [Ids -> States] /\ position \in [Ids -> Nat]
    /\ id \in Ids \cup {NoId}
    /\ documents \in Seq(Documents) /\ yielded \in Seq(Documents)
    /\ orphans \in SUBSET Ids
    /\ known \in Nat /\ known <= Len(data)
    /\ job \in SUBSET JobSet
    /\ \A j \in job : job = {j}

\* Who may be at which server cursor, and what a Cursor is when there is none.
JobInv ==
    /\ \A i \in orphans : server[i] \in {"pinned", "doomed"}
    /\ \A j \in job : \/ IsQuery(j) /\ ~held
                      \/ j.what = "getMore" /\ held /\ j.id = id /\ documents = <<>>
    /\ \A j \in job : j.at = "answered" \/ j.reply = {}
    /\ \A j \in job : j.at = "running" => /\ j.what = "getMore" /\ j.id \notin orphans
                                          /\ server[j.id] \in {"pinned", "doomed"}
    /\ \A j \in job : IsQuery(j) /\ j.at = "queued" => server[j.id] = "unused"
    /\ \A j \in job : IsQuery(j) /\ j.at = "answered" => server[j.id] \in {"open", "gone"}
    /\ \A j \in job : j.what = "find_one" => failed
    /\ ~held => /\ id = NoId /\ documents = <<>> /\ yielded = <<>>
                /\ ~ended /\ ~skipped

\* How much of the collection the server has handed to the Cursor.
Given == Len(yielded) + Len(documents)

\* What was read so far is the collection's beginning.
ReadInv ==
    /\ Given <= Len(data)
    /\ \A k \in 1..Len(yielded) : yielded[k] = data[k]
    /\ \A k \in 1..Len(documents) : documents[k] = data[Len(yielded) + k]

EndInv ==
    held => /\ id = NoId => known <= Given
            /\ finished => id = NoId
            /\ ended => documents = <<>> /\ id = NoId

\* A reply goes on where the Cursor is.
Continues(r) ==
    /\ Given + Len(r.batch) <= Len(data)
    /\ \A k \in 1..Len(r.batch) : r.batch[k] = data[Given + k]
    /\ r.ok = "1" /\ r.id = NoId => known <= Given + Len(r.batch)

PlaceInv ==
    /\ held /\ id \in Ids /\ (\A j \in job : j.reply = {}) =>
         (server[id] \in Live => position[id] = Given)
    /\ \A j \in job : \A r \in j.reply :
         /\ Continues(r)
         /\ r.id \in {j.id, NoId}
         /\ server[j.id] \in Live => position[j.id] = Given + Len(r.batch)

Reading == ~failed /\ ~skipped
CursorInv == ApiType /\ JobInv /\ (Reading => ReadInv /\ EndInv /\ PlaceInv)

DataInv ==
    /\ \A m, n \in 1..Len(data) : data[m] = data[n] => m = n
    /\ \A ids \in insert :
         /\ ids \in Seq(Documents)
         /\ \A k \in 1..Len(ids) : \E n \in 1..Len(data) : data[n] = ids[k]
         /\ \A k, l \in 1..Len(ids) : ids[k] = ids[l] => k = l

-----------------------------------------------------------------------------
(* Jobs, replies and batches *)

Sent(what, i) == [what |-> what, id |-> i, at |-> "queued", reply |-> {}]
Answered(j, r) == [j EXCEPT !.at = "answered", !.reply = {r}]
Started(j) == [j EXCEPT !.at = "running"]

\* A job that is sent.
LEMMA SentFields ==
  ASSUME NEW what \in Kinds, NEW i \in Ids
  PROVE  /\ Sent(what, i) \in JobSet
         /\ Sent(what, i).what = what /\ Sent(what, i).id = i
         /\ Sent(what, i).at = "queued" /\ Sent(what, i).reply = {}
BY DEF Sent, JobSet, Places

\* A job that is answered.
LEMMA AnsweredFields ==
  ASSUME NEW j \in JobSet, NEW r \in Replies
  PROVE  /\ Answered(j, r) \in JobSet
         /\ Answered(j, r).what = j.what /\ Answered(j, r).id = j.id
         /\ Answered(j, r).at = "answered" /\ Answered(j, r).reply = {r}
BY Zenon DEF Answered, JobSet, Places

\* A job that is running.
LEMMA StartedFields ==
  ASSUME NEW j \in JobSet
  PROVE  /\ Started(j) \in JobSet
         /\ Started(j).what = j.what /\ Started(j).id = j.id
         /\ Started(j).at = "running" /\ Started(j).reply = j.reply
BY DEF Started, JobSet, Places

\* What a reply is made of.
LEMMA ReplyFields ==
  ASSUME NEW ok \in {"0", "1"}, NEW wellFormed \in BOOLEAN,
         NEW i \in Ids \cup {NoId}, NEW batch \in Seq(Documents)
  PROVE  /\ Reply(ok, wellFormed, i, batch) \in Replies
         /\ Reply(ok, wellFormed, i, batch).ok = ok
         /\ Reply(ok, wellFormed, i, batch).id = i
         /\ Reply(ok, wellFormed, i, batch).batch = batch
BY DEF Reply, Replies

\* A refusal has no documents.
LEMMA RefusalFields ==
  ASSUME NEW r \in Refusals
  PROVE  r \in Replies /\ r.ok = "0" /\ r.id = NoId /\ r.batch = <<>>
<1>1. r = Reply("0", TRUE, NoId, <<>>)
    BY DEF Refusals
<1> QED
    BY <1>1 DEF Reply, Replies

\* A batch is the next piece of the collection, and the last one if the server
\* keeps no cursor.
LEMMA ServedPiece ==
  ASSUME data \in Seq(Documents), NEW i \in Ids, NEW p \in Nat, NEW b \in Served(i, p)
  PROVE  /\ b.batch \in Seq(Documents)
         /\ p + Len(b.batch) <= Len(data)
         /\ \A k \in 1..Len(b.batch) : b.batch[k] = data[p + k]
         /\ b.id \in {i, NoId}
         /\ b.id = NoId => p + Len(b.batch) = Len(data)
<1>1. PICK n \in p..Len(data) : \E k \in {i, NoId} :
              b = [batch |-> SubSeq(data, p + 1, n), id |-> k]
    BY DEF Served, Batches
<1>2. b.batch = SubSeq(data, p + 1, n) /\ b.id \in {i, NoId}
    BY <1>1
<1>3. n \in Nat /\ p <= n /\ n <= Len(data) /\ Len(data) \in Nat
    OBVIOUS
<1>4. Len(SubSeq(data, p + 1, n)) = n - p
    BY <1>3
<1>5. \A k \in 1..(n - p) : SubSeq(data, p + 1, n)[k] = data[p + k]
    BY <1>3
<1>6. SubSeq(data, p + 1, n) \in Seq(Documents)
    BY <1>3
<1>7. b.id = NoId => p + Len(b.batch) = Len(data)
    BY DEF Served
<1> QED
    BY <1>2, <1>3, <1>4, <1>5, <1>6, <1>7

-----------------------------------------------------------------------------
(* Steps of the server *)

\* What the steps of the server and of queued kills leave alone.
CursorStays == UNCHANGED <<data, held, id, documents, finished, job, known, yielded,
                           failed, ended>>

\* The server's cursor i is named by the Cursor or by the command it awaits.
InUse(i) == i = id \/ \E j \in job : j.id = i

\* A step of the server is no concern of the Cursor unless it moves the server's
\* position under it.
LEMMA ServerStep ==
  ASSUME CursorInv, CursorStays,
         server' \in [Ids -> States], position' \in [Ids -> Nat], orphans' \in SUBSET orphans,
         \A i \in orphans' : server'[i] \in {"pinned", "doomed"},
         \A j \in job : j.at = "running" => server'[j.id] \in {"pinned", "doomed"},
         \A j \in job : server[j.id] = "unused" => server'[j.id] = "unused",
         \A j \in job : server[j.id] \in {"open", "gone"} => server'[j.id] \in {"open", "gone"},
         skipped => skipped', ~held => ~skipped',
         Reading' => \A i \in Ids : InUse(i) /\ server'[i] \in Live =>
                                      server[i] \in Live /\ position'[i] = position[i]
  PROVE  CursorInv'
<1>1. ApiType'
    BY DEF CursorInv, ApiType, CursorStays, JobSet, Replies
<1>2. JobInv'
    BY DEF CursorInv, ApiType, JobInv, CursorStays, IsQuery
<1>3. ASSUME Reading'
      PROVE  ReadInv' /\ EndInv' /\ PlaceInv'
    <2>1. Reading /\ Given' = Given
        BY <1>3 DEF Reading, CursorStays, Given
    <2>2. ReadInv'
        BY <2>1 DEF CursorInv, CursorStays, ReadInv
    <2>3. EndInv'
        BY <2>1 DEF CursorInv, CursorStays, EndInv
    <2>4. PlaceInv'
        <3>1. \A r : Continues(r)' <=> Continues(r)
            BY <2>1 DEF Continues, CursorStays
        <3>2. \A j \in job : j.id \in Ids /\ InUse(j.id)
            BY DEF CursorInv, ApiType, JobSet, InUse
        <3>3. id \in Ids => InUse(id)
            BY DEF InUse
        <3> QED
            BY <1>3, <2>1, <3>1, <3>2, <3>3 DEF CursorInv, PlaceInv, CursorStays
    <2> QED
        BY <2>2, <2>3, <2>4
<1> QED
    BY <1>1, <1>2, <1>3 DEF CursorInv

\* The server's cursor i goes on as s.
LEMMA LeavesFields ==
  ASSUME ApiType, NEW i \in Ids, NEW s \in States, NEW p \in Nat, Leaves(i, s, p)
  PROVE  /\ server' \in [Ids -> States] /\ position' \in [Ids -> Nat]
         /\ server'[i] = s /\ position'[i] = IF s = "gone" THEN 0 ELSE p
         /\ \A k \in Ids \ {i} : server'[k] = server[k] /\ position'[k] = position[k]
BY DEF ApiType, Leaves

\* An orphaned getMore ends: its batch is missed, or it had none.
LEMMA OrphanEndsInv ==
  ASSUME CursorInv, NEW i \in Ids, OrphanEnds(i)
  PROVE  CursorInv'
<1> USE DEF CursorInv
<1>1. PICK b \in Served(i, position[i]) :
              /\ Leaves(i, After(i, b), position[i] + Len(b.batch))
              /\ skipped' = (skipped \/ (id = i /\ b.batch # <<>>))
    BY DEF OrphanEnds
<1>2. position[i] \in Nat /\ server[i] \in {"pinned", "doomed"}
    BY DEF ApiType, JobInv, OrphanEnds
<1>3. b.batch \in Seq(Documents)
    BY <1>2, ServedPiece DEF ApiType
<1>4. /\ server' \in [Ids -> States] /\ position' \in [Ids -> Nat]
      /\ server'[i] = After(i, b)
      /\ position'[i] = IF After(i, b) = "gone" THEN 0 ELSE position[i] + Len(b.batch)
      /\ \A k \in Ids \ {i} : server'[k] = server[k] /\ position'[k] = position[k]
    <2>1. After(i, b) \in States /\ position[i] + Len(b.batch) \in Nat
        BY <1>2, <1>3 DEF After, States
    <2> QED
        BY <1>1, <2>1, LeavesFields
<1>5. CursorStays /\ orphans' = orphans \ {i}
    BY DEF OrphanEnds, CursorStays, cursorVars
<1>6. \A j \in job : /\ j.id \in Ids
                     /\ j.at = "running" => j.id # i
                     /\ server[j.id] \in {"open", "gone", "unused"} => j.id # i
    BY <1>2 DEF ApiType, JobInv, JobSet, OrphanEnds
<1>7. ASSUME Reading', NEW k \in Ids, InUse(k), server'[k] \in Live
      PROVE  server[k] \in Live /\ position'[k] = position[k]
    <2>1. CASE k # i
        BY <1>4, <1>7, <2>1
    <2>2. CASE k = i
        <3>1. k = id
            BY <1>2, <1>6, <1>7, <2>2 DEF InUse, JobInv, IsQuery, ApiType, JobSet, Places, Kinds
        <3>2. b.batch = <<>>
            BY Zenon, <1>1, <1>7, <2>2, <3>1 DEF Reading
        <3> QED
            BY <1>2, <1>4, <1>7, <2>2, <3>2 DEF Live
    <2> QED
        BY <2>1, <2>2
<1>8. ~held => ~skipped'
    BY Zenon, <1>1, ApiAssumption DEF JobInv
<1>9. \A k \in orphans' : server'[k] \in {"pinned", "doomed"}
    BY <1>4, <1>5 DEF JobInv, ApiType
<1>10. \A j \in job : /\ j.at = "running" => server'[j.id] \in {"pinned", "doomed"}
                      /\ server[j.id] = "unused" => server'[j.id] = "unused"
                      /\ server[j.id] \in {"open", "gone"} => server'[j.id] \in {"open", "gone"}
    BY <1>4, <1>6 DEF JobInv
<1> QED
    BY Zenon, <1>1, <1>4, <1>5, <1>7, <1>8, <1>9, <1>10, ServerStep

\* What an error or a kill leaves of a server's cursor: it stays where it is,
\* or is gone.
Stops(i, s) == Leaves(i, s, position[i])

\* So no Cursor is moved by it.
LEMMA StopsInv ==
  ASSUME CursorInv, CursorStays, NEW i \in Ids, NEW s \in States, Stops(i, s),
         orphans' \in SUBSET orphans, UNCHANGED skipped,
         s \in Live => server[i] \in Live,
         i \in orphans' => s \in {"pinned", "doomed"},
         \A j \in job : j.id = i /\ j.at = "running" => s \in {"pinned", "doomed"},
         \A j \in job : j.id = i /\ server[i] = "unused" => s = "unused",
         \A j \in job : j.id = i /\ server[i] \in {"open", "gone"} => s \in {"open", "gone"}
  PROVE  CursorInv'
<1> USE DEF CursorInv
<1>1. position[i] \in Nat
    BY DEF ApiType
<1>2. /\ server' \in [Ids -> States] /\ position' \in [Ids -> Nat]
      /\ server'[i] = s /\ position'[i] = IF s = "gone" THEN 0 ELSE position[i]
      /\ \A k \in Ids \ {i} : server'[k] = server[k] /\ position'[k] = position[k]
    BY <1>1, LeavesFields DEF Stops
<1>3. \A k \in orphans' : server'[k] \in {"pinned", "doomed"}
    BY Zenon, <1>2 DEF JobInv, ApiType
<1>4. \A j \in job : /\ j.at = "running" => server'[j.id] \in {"pinned", "doomed"}
                     /\ server[j.id] = "unused" => server'[j.id] = "unused"
                     /\ server[j.id] \in {"open", "gone"} => server'[j.id] \in {"open", "gone"}
    BY <1>2 DEF JobInv, ApiType, JobSet
<1>5. \A k \in Ids : server'[k] \in Live => server[k] \in Live /\ position'[k] = position[k]
    BY <1>2 DEF Live
<1>6. ~held => ~skipped'
    BY DEF JobInv
<1> QED
    BY <1>2, <1>3, <1>4, <1>5, <1>6, ServerStep

\* An orphaned getMore is interrupted.
LEMMA OrphanInterruptedInv ==
  ASSUME CursorInv, NEW i \in Ids, OrphanInterrupted(i)
  PROVE  CursorInv'
<1> USE DEF CursorInv
<1>1. PICK s \in AfterError(i) : Stops(i, s)
    BY DEF OrphanInterrupted, Stops
<1>2. server[i] \in {"pinned", "doomed"} /\ s \in States
    BY DEF JobInv, OrphanInterrupted, AfterError, States
<1>3. CursorStays /\ orphans' = orphans \ {i} /\ UNCHANGED skipped
    BY DEF OrphanInterrupted, CursorStays, cursorVars, ghostVars
<1>4. \A j \in job : j.at = "running" => j.id # i
    BY DEF JobInv, OrphanInterrupted
<1> QED
    BY <1>1, <1>2, <1>3, <1>4, StopsInv DEF Live

\* A kill closes a server's cursor at once or dooms it.
LEMMA KillStops ==
  ASSUME ApiType, NEW i \in Ids, Kill(i)
  PROVE  \E s \in States : /\ Stops(i, s)
                           /\ s \in Live => server[i] \in Live
                           /\ server[i] \in {"pinned", "doomed"} => s \in {"pinned", "doomed"}
                           /\ server[i] = "unused" => s = "unused"
                           /\ server[i] \in {"open", "gone"} => s = "gone"
<1>1. CASE server[i] = "open"
    BY <1>1 DEF Kill, Stops, States, Live
<1>2. CASE server[i] = "pinned"
    BY <1>2 DEF Kill, Stops, States, Live
<1>3. CASE server[i] \in {"unused", "doomed", "gone"}
    BY <1>3 DEF Kill, Stops, States, Live
<1> QED
    BY <1>1, <1>2, <1>3 DEF ApiType, States

\* A queued kill runs.
LEMMA KillRunsInv ==
  ASSUME CursorInv, NEW i \in Ids, KillRuns(i)
  PROVE  CursorInv'
<1> USE DEF CursorInv
<1>1. PICK s \in States : /\ Stops(i, s)
                          /\ s \in Live => server[i] \in Live
                          /\ server[i] \in {"pinned", "doomed"} => s \in {"pinned", "doomed"}
                          /\ server[i] = "unused" => s = "unused"
                          /\ server[i] \in {"open", "gone"} => s = "gone"
    BY KillStops DEF KillRuns
<1>2. CursorStays /\ UNCHANGED <<orphans, skipped>>
    BY DEF KillRuns, CursorStays, cursorVars, ghostVars
<1>3. /\ i \in orphans => server[i] \in {"pinned", "doomed"}
      /\ \A j \in job : j.at = "running" => server[j.id] \in {"pinned", "doomed"}
    BY DEF JobInv
<1> QED
    BY <1>1, <1>2, <1>3, StopsInv

\* The engine refuses a kill, or the client begins to close: no cursor notices.
LEMMA NothingMovesInv ==
  ASSUME CursorInv, BeginClose \/ \E i \in Ids : KillRefused(i)
  PROVE  CursorInv'
<1>1. CursorStays /\ UNCHANGED <<server, position, orphans, skipped>>
    BY DEF BeginClose, KillRefused, CursorStays, cursorVars, ghostVars, jobVars
<1> QED
    BY Zenon, <1>1, ServerStep DEF CursorInv, ApiType, JobInv

\* The engine closes: the server's cursors go with it.
LEMMA EngineClosesInv ==
  ASSUME CursorInv, EngineCloses
  PROVE  CursorInv'
<1> USE DEF CursorInv
<1>1. CursorStays /\ UNCHANGED <<orphans, skipped>> /\ orphans = {}
    BY DEF EngineCloses, CursorStays, cursorVars, ghostVars, jobVars
<1>2. server' = [i \in Ids |-> IF server[i] \in Live THEN "gone" ELSE server[i]]
    BY DEF EngineCloses
<1>3. /\ server' \in [Ids -> States] /\ position' \in [Ids -> Nat]
      /\ \A i \in Ids : server'[i] = IF server[i] \in Live THEN "gone" ELSE server[i]
    BY <1>2 DEF EngineCloses, ApiType, States
<1>4. \A j \in job : j.id \in Ids /\ j.at = "answered"
    BY DEF EngineCloses, ApiType, JobSet
<1> QED
    BY <1>1, <1>3, <1>4, ServerStep DEF JobInv, Live

-----------------------------------------------------------------------------
(* Queries *)

\* With no Cursor and no command there is nothing to get wrong.
LEMMA NoCursor ==
  ASSUME ApiType', \A i \in orphans' : server'[i] \in {"pinned", "doomed"},
         job' = {}, ~held', id' = NoId, documents' = <<>>, yielded' = <<>>,
         ~ended', ~skipped'
  PROVE  CursorInv'
<1>1. JobInv'
    BY DEF JobInv
<1>2. Given' = 0
    BY DEF Given
<1>3. ReadInv' /\ EndInv' /\ PlaceInv'
    BY <1>2 DEF ReadInv, EndInv, PlaceInv, ApiType
<1> QED
    BY <1>1, <1>3 DEF CursorInv

\* The program starts with an empty collection and no Cursor.
LEMMA ApiInit == Init => CursorInv
<1> SUFFICES ASSUME Init
             PROVE  CursorInv
    OBVIOUS
<1>1. ApiType
    <2>1. /\ <<>> \in Seq(Documents) /\ Len(<<>>) = 0
          /\ [i \in Ids |-> "unused"] \in [Ids -> States]
          /\ [i \in Ids |-> 0] \in [Ids -> Nat]
        BY DEF States
    <2>2. server \in [Ids -> States] /\ position \in [Ids -> Nat]
        BY <2>1 DEF Init
    <2>3. /\ data \in Seq(Documents) /\ documents \in Seq(Documents)
          /\ yielded \in Seq(Documents) /\ known \in Nat /\ known <= Len(data)
        BY <2>1 DEF Init
    <2>4. /\ id \in Ids \cup {NoId} /\ orphans \in SUBSET Ids
          /\ job \in SUBSET JobSet /\ \A j \in job : job = {j}
        BY DEF Init
    <2> QED
        BY <2>2, <2>3, <2>4 DEF ApiType
<1>2. JobInv /\ Given = 0
    BY DEF Init, JobInv, Given
<1>3. ReadInv /\ EndInv /\ PlaceInv
    BY <1>1, <1>2 DEF ReadInv, EndInv, PlaceInv, ApiType, Init
<1> QED
    BY <1>1, <1>2, <1>3 DEF CursorInv

\* A query is sent, with a server's cursor nobody has used.
LEMMA QueryInv ==
  ASSUME CursorInv, NEW as, NEW single \in BOOLEAN, Query(as, single)
  PROVE  CursorInv'
<1> USE DEF CursorInv
<1> DEFINE what == IF single THEN "find_one" ELSE "find"
<1>1. PICK i \in Ids : server[i] = "unused" /\ job' = {Sent(what, i)}
    BY DEF Query, Sent
<1>2. what \in Kinds /\ what # "getMore" /\ (what = "find_one" <=> single)
    BY DEF Kinds
<1> HIDE DEF what
<1>3. /\ Sent(what, i) \in JobSet
      /\ Sent(what, i).what = what /\ Sent(what, i).id = i
      /\ Sent(what, i).at = "queued" /\ Sent(what, i).reply = {}
    BY <1>2, SentFields
<1>4. /\ UNCHANGED <<data, server, position, held, id, documents, finished, orphans, known,
                     yielded, skipped, ended>>
      /\ failed' = single /\ ~held
    BY DEF Query, cursorVars
<1>5. ApiType'
    BY <1>1, <1>3, <1>4 DEF ApiType, JobSet, Replies
<1>6. JobInv'
    BY <1>1, <1>2, <1>3, <1>4 DEF JobInv, IsQuery, Kinds
<1>7. Given' = 0
    BY <1>4 DEF JobInv, Given
<1>8. ReadInv' /\ EndInv' /\ PlaceInv'
    BY <1>1, <1>3, <1>4, <1>5, <1>7 DEF ReadInv, EndInv, PlaceInv, ApiType, JobInv
<1> QED
    BY <1>5, <1>6, <1>8

\* The engine runs a query: the reply starts at the collection's beginning.
LEMMA QueryRunsInv ==
  ASSUME CursorInv, QueryRuns
  PROVE  CursorInv'
<1> USE DEF CursorInv
<1>1. PICK j \in job :
        /\ IsQuery(j) /\ j.at = "queued"
        /\ \E b \in Served(j.id, 0) : \E wellFormed \in BOOLEAN :
             LET kept == IF j.what = "find_one" THEN NoId ELSE b.id
                 sent == IF j.what = "find_one" THEN FirstOf(data) ELSE b.batch
             IN  /\ Leaves(j.id, IF kept = NoId THEN "gone" ELSE "open", Len(sent))
                 /\ job' = {Answered(j, Reply("1", wellFormed, kept, sent))}
        /\ known' = Len(data)
        /\ UNCHANGED <<data, held, id, documents, finished, orphans, yielded, failed, skipped,
                       ended>>
    BY Zenon DEF QueryRuns, Answered, cursorVars
<1>2. PICK b \in Served(j.id, 0), wellFormed \in BOOLEAN :
        LET kept == IF j.what = "find_one" THEN NoId ELSE b.id
            sent == IF j.what = "find_one" THEN FirstOf(data) ELSE b.batch
        IN  /\ Leaves(j.id, IF kept = NoId THEN "gone" ELSE "open", Len(sent))
            /\ job' = {Answered(j, Reply("1", wellFormed, kept, sent))}
    BY <1>1
<1>3. j \in JobSet /\ j.id \in Ids /\ data \in Seq(Documents) /\ 0 \in Nat
    BY DEF ApiType, JobSet
<1>4. /\ b.batch \in Seq(Documents)
      /\ 0 + Len(b.batch) <= Len(data)
      /\ \A k \in 1..Len(b.batch) : b.batch[k] = data[0 + k]
      /\ b.id \in {j.id, NoId}
      /\ b.id = NoId => 0 + Len(b.batch) = Len(data)
    BY <1>3, ServedPiece
<1>5. FirstOf(data) \in Seq(Documents)
    BY <1>3 DEF FirstOf
<1>6. PICK kept \in {j.id, NoId}, sent \in Seq(Documents) :
        /\ kept = IF j.what = "find_one" THEN NoId ELSE b.id
        /\ sent = IF j.what = "find_one" THEN FirstOf(data) ELSE b.batch
    BY <1>4, <1>5
<1>7. j.what # "find_one" => /\ Len(sent) <= Len(data)
                             /\ \A k \in 1..Len(sent) : sent[k] = data[k]
                             /\ kept = NoId => Len(sent) = Len(data)
    BY <1>3, <1>4, <1>6
<1>8. PICK r \in Replies : /\ job' = {Answered(j, r)}
                           /\ r.ok = "1" /\ r.id = kept /\ r.batch = sent
    <2>1. job' = {Answered(j, Reply("1", wellFormed, kept, sent))}
        BY <1>2, <1>6
    <2>2. "1" \in {"0", "1"} /\ kept \in Ids \cup {NoId}
        BY <1>3
    <2>3. LET r == Reply("1", wellFormed, kept, sent)
          IN  r \in Replies /\ r.ok = "1" /\ r.id = kept /\ r.batch = sent
        BY <2>2, ReplyFields
    <2> QED
        BY <2>1, <2>3
<1> DEFINE next == IF kept = NoId THEN "gone" ELSE "open"
<1>9. /\ Answered(j, r) \in JobSet
      /\ Answered(j, r).what = j.what /\ Answered(j, r).id = j.id
      /\ Answered(j, r).at = "answered" /\ Answered(j, r).reply = {r}
    BY <1>3, <1>8, AnsweredFields
<1>10. /\ server' \in [Ids -> States] /\ position' \in [Ids -> Nat]
       /\ server'[j.id] = next /\ position'[j.id] = IF next = "gone" THEN 0 ELSE Len(sent)
       /\ \A k \in Ids \ {j.id} : server'[k] = server[k] /\ position'[k] = position[k]
    <2>1. next \in States /\ Len(sent) \in Nat
        BY DEF States
    <2>2. Leaves(j.id, next, Len(sent))
        BY <1>2, <1>6
    <2> HIDE DEF next
    <2> QED
        BY <1>3, <2>1, <2>2, LeavesFields
<1>11. /\ ~held /\ server[j.id] = "unused" /\ j.what # "getMore"
       /\ j.what = "find_one" => failed
    BY <1>1, <1>3 DEF JobInv, IsQuery
<1>12. ApiType'
    <2>1. known' \in Nat /\ known' <= Len(data')
        BY <1>1, <1>3
    <2>2. job' \in SUBSET JobSet /\ \A k \in job' : job' = {k}
        BY Zenon, <1>8, <1>9
    <2> QED
        BY Zenon, <1>1, <1>10, <2>1, <2>2 DEF ApiType
<1>13. JobInv'
    <2>1. \A i \in orphans : i # j.id
        BY Zenon, <1>11 DEF JobInv
    <2>2. \A i \in orphans' : server'[i] \in {"pinned", "doomed"}
        BY <1>1, <1>10, <2>1 DEF JobInv, ApiType
    <2>3. \A k \in job' : /\ k.what = j.what /\ k.id = j.id
                          /\ k.at = "answered"
        BY <1>8, <1>9
    <2>4. server'[j.id] \in {"open", "gone"}
        BY <1>10
    <2>5. ~held' => /\ id' = NoId /\ documents' = <<>> /\ yielded' = <<>>
                    /\ ~ended' /\ ~skipped'
        BY <1>1 DEF JobInv
    <2> HIDE DEF CursorInv
    <2> QED
        BY <1>1, <1>11, <2>2, <2>3, <2>4, <2>5 DEF JobInv, IsQuery
<1>14. ASSUME Reading'
       PROVE  ReadInv' /\ EndInv' /\ PlaceInv'
    <2>1. j.what # "find_one" /\ Given' = 0
        BY <1>1, <1>11, <1>14 DEF Reading, JobInv, Given
    <2>2. ReadInv' /\ EndInv'
        BY <1>1, <1>11, <1>12, <2>1 DEF JobInv, ReadInv, EndInv, ApiType
    <2>3. Continues(r)'
        BY <1>1, <1>3, <1>7, <1>8, <2>1 DEF Continues
    <2>4. server'[j.id] \in Live => position'[j.id] = Given' + Len(r.batch)
        BY <1>8, <1>10, <2>1 DEF Live
    <2>5. PlaceInv'
        BY Zenon, <1>1, <1>8, <1>9, <1>11, <2>3, <2>4 DEF PlaceInv
    <2> QED
        BY <2>2, <2>5
<1> QED
    BY <1>12, <1>13, <1>14

\* A query's cursor is known to nobody: no Cursor comes of it.
LEMMA LostInv ==
  ASSUME CursorInv, NEW j \in job, IsQuery(j), Lost(j), job' = {},
         UNCHANGED <<data, server, position, orphans>>
  PROVE  CursorInv'
<1> USE DEF CursorInv
<1>1. ~held
    BY DEF JobInv, IsQuery
<1>2. ApiType'
    BY DEF ApiType, Lost, cursorVars
<1>3. UNCHANGED <<held, id, documents, yielded, skipped, ended>>
    BY DEF Lost, cursorVars
<1>4. /\ ~held' /\ id' = NoId /\ documents' = <<>> /\ yielded' = <<>>
      /\ ~ended' /\ ~skipped'
    BY <1>1, <1>3 DEF JobInv
<1>5. \A i \in orphans' : server'[i] \in {"pinned", "doomed"}
    BY DEF JobInv
<1> QED
    BY <1>2, <1>4, <1>5, NoCursor

\* A query is answered: the Cursor starts with the reply's batch.
LEMMA QueryAnsweredInv ==
  ASSUME CursorInv, QueryAnswered
  PROVE  CursorInv'
<1> USE DEF CursorInv
<1>1. PICK j \in job, r \in UNION {k.reply : k \in job} :
        /\ r \in j.reply /\ IsQuery(j) /\ job' = {}
        /\ \/ /\ Taken(r)
              /\ held' = TRUE /\ id' = r.id /\ documents' = r.batch /\ finished' = FALSE
              /\ UNCHANGED ghostVars
           \/ ~Taken(r) /\ Lost(j)
        /\ UNCHANGED <<data, server, position, orphans>>
    BY DEF QueryAnswered
<1>2. CASE Lost(j)
    BY <1>1, <1>2, LostInv
<1>3. CASE /\ Taken(r)
           /\ held' = TRUE /\ id' = r.id /\ documents' = r.batch /\ finished' = FALSE
           /\ UNCHANGED ghostVars
    <2>1. j \in JobSet /\ r \in Replies /\ r.batch \in Seq(Documents)
          /\ r.id \in Ids \cup {NoId} /\ r.ok = "1"
        BY Zenon, <1>1, <1>3 DEF ApiType, JobSet, Replies, Taken, Believed
    <2>2. ~held /\ yielded = <<>> /\ documents = <<>> /\ ~ended /\ ~skipped
        BY Zenon, <1>1 DEF JobInv, IsQuery
    <2>3. ApiType'
        BY <1>1, <1>3, <2>1 DEF ApiType, ghostVars
    <2>4. JobInv'
        BY <1>1, <1>3 DEF JobInv
    <2>5. ASSUME Reading'
          PROVE  ReadInv' /\ EndInv' /\ PlaceInv'
        <3>1. Reading /\ Given = 0 /\ Given' = Len(r.batch) /\ yielded' = <<>>
            BY <1>3, <2>1, <2>2, <2>5 DEF Reading, Given, ghostVars
        <3>2. /\ Continues(r) /\ r.id \in {j.id, NoId}
              /\ server[j.id] \in Live => position[j.id] = Given + Len(r.batch)
            BY <1>1, <3>1 DEF PlaceInv
        <3>3. /\ Len(r.batch) \in Nat /\ Len(r.batch) <= Len(data)
              /\ \A k \in 1..Len(r.batch) : r.batch[k] = data[k]
              /\ r.id = NoId => known <= Len(r.batch)
              /\ server[j.id] \in Live => position[j.id] = Len(r.batch)
            BY <2>1, <3>1, <3>2 DEF Continues
        <3>4. ReadInv'
            BY <1>1, <1>3, <3>1, <3>3 DEF ReadInv
        <3>5. EndInv'
            BY <1>3, <2>2, <3>1, <3>3 DEF EndInv, ghostVars
        <3>6. PlaceInv'
            BY <1>1, <1>3, <3>1, <3>2, <3>3, ApiAssumption DEF PlaceInv
        <3> QED
            BY <3>4, <3>5, <3>6
    <2> QED
        BY <2>3, <2>4, <2>5
<1> QED
    BY Zenon, <1>1, <1>2, <1>3

\* The future of a query is dropped.
LEMMA QueryDroppedInv ==
  ASSUME CursorInv, QueryDropped
  PROVE  CursorInv'
<1>1. PICK j \in job : /\ IsQuery(j) /\ Lost(j) /\ job' = {}
                       /\ UNCHANGED <<data, server, position, orphans>>
    BY DEF QueryDropped
<1> QED
    BY <1>1, LostInv

-----------------------------------------------------------------------------
(* Cursor::next *)

\* A document moves from the batch to the caller.
LEMMA NextDocumentInv ==
  ASSUME CursorInv, NextDocument
  PROVE  CursorInv'
<1> USE DEF CursorInv
<1>1. /\ held /\ job = {} /\ documents # <<>>
      /\ yielded' = Append(yielded, Head(documents)) /\ documents' = Tail(documents)
      /\ UNCHANGED <<data, server, position, held, id, finished, job, orphans, known,
                     failed, skipped, ended>>
    BY DEF NextDocument, jobVars
<1>2. /\ yielded' \in Seq(Documents) /\ documents' \in Seq(Documents)
      /\ Len(yielded') = Len(yielded) + 1 /\ Len(documents') = Len(documents) - 1
      /\ \A k \in 1..Len(yielded) : yielded'[k] = yielded[k]
      /\ yielded'[Len(yielded) + 1] = documents[1]
      /\ \A k \in 1..(Len(documents) - 1) : documents'[k] = documents[k + 1]
      /\ Len(yielded) \in Nat /\ Len(documents) \in Nat \ {0} /\ Len(data) \in Nat
    BY <1>1 DEF ApiType
<1>3. ApiType'
    BY <1>1, <1>2 DEF ApiType
<1>4. JobInv'
    BY <1>1 DEF JobInv
<1>5. ASSUME Reading'
      PROVE  ReadInv' /\ EndInv' /\ PlaceInv'
    <2>1. Reading /\ Given' = Given
        BY <1>1, <1>2, <1>5 DEF Reading, Given
    <2>2. ReadInv'
        <3>1. \A k \in 1..Len(yielded') : yielded'[k] = data[k]
            <4> TAKE k \in 1..Len(yielded')
            <4>1. CASE k = Len(yielded) + 1
                BY <1>2, <2>1, <4>1 DEF ReadInv
            <4>2. CASE k # Len(yielded) + 1
                BY <1>2, <2>1, <4>2 DEF ReadInv
            <4> QED
                BY <4>1, <4>2
        <3>2. \A k \in 1..Len(documents') : documents'[k] = data[Len(yielded') + k]
            <4> TAKE k \in 1..Len(documents')
            <4>1. /\ k \in Nat /\ k + 1 \in 1..Len(documents)
                  /\ documents'[k] = documents[k + 1]
                  /\ Len(yielded) + (k + 1) = Len(yielded') + k
                BY <1>2
            <4> QED
                BY <2>1, <4>1 DEF ReadInv
        <3> QED
            BY <1>1, <2>1, <3>1, <3>2 DEF ReadInv
    <2>3. EndInv'
        BY <1>1, <2>1 DEF EndInv
    <2>4. PlaceInv'
        BY <1>1, <2>1 DEF PlaceInv
    <2> QED
        BY <2>2, <2>3, <2>4
<1> QED
    BY <1>3, <1>4, <1>5

\* next() says None: after the last batch, or after an error.
LEMMA NextNoneInv ==
  ASSUME CursorInv, NextNone
  PROVE  CursorInv'
<1> USE DEF CursorInv
<1>1. /\ held /\ job = {} /\ documents = <<>> /\ (finished \/ id = NoId)
      /\ UNCHANGED <<data, server, position, held, id, documents, job, orphans, known,
                     yielded, failed, skipped>>
    BY DEF NextNone, jobVars
<1>2. ApiType'
    BY <1>1 DEF ApiType
<1>3. JobInv'
    BY <1>1 DEF JobInv
<1>4. ASSUME Reading'
      PROVE  ReadInv' /\ EndInv' /\ PlaceInv'
    <2>1. Reading /\ Given' = Given
        BY <1>1, <1>4 DEF Reading, Given
    <2>2. ReadInv' /\ EndInv' /\ PlaceInv'
        BY <1>1, <2>1 DEF ReadInv, EndInv, PlaceInv
    <2> QED
        BY <2>2
<1> QED
    BY <1>2, <1>3, <1>4

\* fetch_next_batch sends its getMore.
LEMMA NextFetchesInv ==
  ASSUME CursorInv, NextFetches
  PROVE  CursorInv'
<1> USE DEF CursorInv
<1>1. /\ held /\ job = {} /\ documents = <<>> /\ ~finished /\ id # NoId
      /\ job' = {Sent("getMore", id)}
      /\ UNCHANGED <<data, server, position, held, id, documents, finished, orphans, known,
                     yielded, failed, skipped, ended>>
    BY DEF NextFetches, MustFetch, Sent, cursorVars, ghostVars
<1>2. id \in Ids /\ "getMore" \in Kinds
    BY Zenon, <1>1 DEF ApiType, Kinds
<1>3. \A j \in job' : /\ j \in JobSet /\ j.what = "getMore" /\ j.id = id
                      /\ j.at = "queued" /\ j.reply = {}
    BY <1>1, <1>2, SentFields
<1>4. ApiType'
    BY <1>1, <1>3 DEF ApiType
<1>5. JobInv'
    BY <1>1, <1>3 DEF JobInv, IsQuery
<1>6. ASSUME Reading'
      PROVE  ReadInv' /\ EndInv' /\ PlaceInv'
    <2>1. Reading /\ Given' = Given
        BY <1>1, <1>6 DEF Reading, Given
    <2>2. ReadInv' /\ EndInv'
        BY <1>1, <2>1 DEF ReadInv, EndInv
    <2>3. PlaceInv'
        BY <1>1, <1>3, <2>1 DEF PlaceInv
    <2> QED
        BY <2>2, <2>3
<1> QED
    BY <1>4, <1>5, <1>6

\* An iteration that failed promises nothing more of its documents.
LEMMA FailedInv ==
  ASSUME CursorInv, held, failed', job' = {},
         UNCHANGED <<data, server, position, held, id, documents, orphans, known,
                     yielded, skipped, ended>>
  PROVE  CursorInv'
<1>1. ApiType'
    BY DEF CursorInv, ApiType
<1>2. JobInv'
    BY DEF CursorInv, JobInv
<1> QED
    BY <1>1, <1>2 DEF CursorInv, Reading

\* The getMore is refused by a client that is closing.
LEMMA NextRefusedInv ==
  ASSUME CursorInv, NextRefused
  PROVE  CursorInv'
BY Zenon, FailedInv DEF NextRefused, MustFetch, FetchFailed, jobVars

\* A getMore is answered: the Cursor goes on with its batch.
LEMMA FetchAnsweredInv ==
  ASSUME CursorInv, FetchAnswered
  PROVE  CursorInv'
<1> USE DEF CursorInv
<1>1. PICK j \in job, r \in UNION {k.reply : k \in job} :
        /\ r \in j.reply /\ j.what = "getMore" /\ job' = {}
        /\ \/ /\ Taken(r) /\ id' = r.id /\ documents' = r.batch
              /\ UNCHANGED <<finished, failed>>
           \/ ~Taken(r) /\ FetchFailed
        /\ UNCHANGED <<data, server, position, held, orphans, known, yielded, skipped, ended>>
    BY DEF FetchAnswered
<1>2. held /\ j.id = id /\ documents = <<>> /\ j.id \in Ids
    BY <1>1 DEF JobInv, IsQuery, ApiType, JobSet
<1>3. CASE FetchFailed
    BY Zenon, <1>1, <1>2, <1>3, FailedInv DEF FetchFailed
<1>4. CASE Taken(r) /\ id' = r.id /\ documents' = r.batch /\ UNCHANGED <<finished, failed>>
    <2>1. /\ j \in JobSet /\ r \in Replies /\ r.batch \in Seq(Documents)
          /\ r.id \in Ids \cup {NoId} /\ r.ok = "1"
        BY <1>1, <1>4 DEF ApiType, JobSet, Replies, Taken, Believed
    <2>2. ApiType'
        BY Zenon, <1>1, <1>4, <2>1 DEF ApiType
    <2>3. JobInv'
        BY <1>1, <1>2 DEF JobInv
    <2>4. ASSUME Reading'
          PROVE  ReadInv' /\ EndInv' /\ PlaceInv'
        <3>1. /\ Reading /\ Given = Len(yielded) /\ Given' = Len(yielded) + Len(r.batch)
              /\ Len(yielded) \in Nat /\ Len(r.batch) \in Nat
            BY <1>1, <1>2, <1>4, <2>1, <2>4 DEF Reading, Given, ApiType
        <3>2. /\ Continues(r) /\ r.id \in {j.id, NoId}
              /\ server[j.id] \in Live => position[j.id] = Given + Len(r.batch)
            BY <1>1, <3>1 DEF PlaceInv
        <3>3. ReadInv'
            BY <1>1, <1>4, <3>1, <3>2 DEF ReadInv, Continues
        <3>4. EndInv'
            BY <1>1, <1>2, <1>4, <2>1, <3>1, <3>2, ApiAssumption DEF EndInv, Continues
        <3>5. PlaceInv'
            BY <1>1, <1>4, <3>1, <3>2, ApiAssumption DEF PlaceInv
        <3> QED
            BY <3>3, <3>4, <3>5
    <2> QED
        BY <2>2, <2>3, <2>4
<1> QED
    BY Zenon, <1>1, <1>3, <1>4

\* The future of next() is dropped: what was answered is missed, or was nothing.
LEMMA NextDroppedInv ==
  ASSUME CursorInv, NextDropped
  PROVE  CursorInv'
<1> USE DEF CursorInv
<1>1. PICK j \in job :
        /\ j.what = "getMore" /\ job' = {}
        /\ orphans' = IF j.at = "running" THEN orphans \cup {j.id} ELSE orphans
        /\ skipped' = (skipped \/ \E r \in j.reply : r.batch # <<>>)
        /\ UNCHANGED <<data, server, position, held, id, documents, finished, known, yielded,
                       failed, ended>>
    BY ZenonT(30) DEF NextDropped, cursorVars
<1>2. held /\ j.id = id /\ j.id \in Ids /\ job = {j}
    BY Zenon, <1>1 DEF JobInv, IsQuery, ApiType, JobSet
<1>3. ApiType'
    BY <1>1, <1>2 DEF ApiType
<1>4. JobInv'
    BY <1>1, <1>2 DEF JobInv
<1>5. ASSUME Reading'
      PROVE  ReadInv' /\ EndInv' /\ PlaceInv'
    <2>1. Reading /\ Given' = Given
        BY Zenon, <1>1, <1>5 DEF Reading, Given
    <2>2. ReadInv' /\ EndInv'
        BY <1>1, <2>1 DEF ReadInv, EndInv
    <2>3. server[id] \in Live => position[id] = Given
        <3>1. CASE j.reply = {}
            BY <1>2, <2>1, <3>1 DEF PlaceInv
        <3>2. CASE j.reply # {}
            <4>1. PICK r \in j.reply : r.batch = <<>>
                BY Zenon, <1>1, <1>5, <3>2 DEF Reading
            <4>2. server[id] \in Live => position[id] = Given + Len(r.batch)
                BY <1>2, <2>1, <4>1 DEF PlaceInv
            <4> QED
                BY <4>1, <4>2 DEF Given, ApiType
        <3> QED
            BY <3>1, <3>2
    <2>4. PlaceInv'
        BY <1>1, <2>1, <2>3 DEF PlaceInv
    <2> QED
        BY <2>2, <2>4
<1> QED
    BY <1>3, <1>4, <1>5

-----------------------------------------------------------------------------
(* getMore, and the drop of a Cursor *)

\* What the steps of a getMore leave alone.
AwaitStays == UNCHANGED <<data, held, id, documents, finished, orphans, known, yielded,
                          failed, skipped, ended>>

\* A getMore is refused, or fails: its cursor stays where it was, or is gone.
LEMMA RefusedInv ==
  ASSUME CursorInv, AwaitStays, NEW j \in job, j.what = "getMore", j.reply = {},
         NEW r \in Refusals, job' = {Answered(j, r)},
         server' \in [Ids -> States], position' \in [Ids -> Nat],
         \A i \in orphans : server'[i] \in {"pinned", "doomed"},
         server'[j.id] \in Live =>
           server[j.id] \in Live /\ position'[j.id] = position[j.id]
  PROVE  CursorInv'
<1> USE DEF CursorInv
<1>1. held /\ j.id = id /\ documents = <<>> /\ j \in JobSet /\ j.id \in Ids /\ job = {j}
    BY ZenonT(30) DEF JobInv, IsQuery, ApiType, JobSet
<1>2. r \in Replies /\ r.ok = "0" /\ r.id = NoId /\ r.batch = <<>>
    BY RefusalFields
<1>3. \A k \in job' : /\ k \in JobSet /\ k.what = "getMore" /\ k.id = j.id
                      /\ k.at = "answered" /\ k.reply = {r}
    BY <1>1, <1>2, AnsweredFields
<1>4. ApiType'
    BY Zenon, <1>3 DEF ApiType, AwaitStays
<1>5. JobInv'
    BY <1>1, <1>3 DEF JobInv, IsQuery, AwaitStays
<1>6. ASSUME Reading'
      PROVE  ReadInv' /\ EndInv' /\ PlaceInv'
    <2>1. Reading /\ Given' = Given /\ Given \in Nat /\ Len(data) \in Nat
        BY <1>6 DEF Reading, Given, AwaitStays, ApiType
    <2>2. ReadInv' /\ EndInv'
        BY <2>1 DEF ReadInv, EndInv, AwaitStays
    <2>3. Continues(r)'
        BY <1>2, <2>1 DEF Continues, ReadInv, AwaitStays
    <2>4. server[id] \in Live => position[id] = Given
        BY <1>1, <2>1 DEF PlaceInv
    <2>5. server'[j.id] \in Live => position'[j.id] = Given' + Len(r.batch)
        BY <1>1, <1>2, <2>1, <2>4
    <2>6. PlaceInv'
        BY <1>1, <1>2, <1>3, <2>3, <2>5 DEF PlaceInv, AwaitStays
    <2> QED
        BY <2>2, <2>6
<1> QED
    BY <1>4, <1>5, <1>6

\* A getMore starts, or is refused: its cursor is gone, or an orphan has it.
LEMMA GetMoreStartsInv ==
  ASSUME CursorInv, GetMoreStarts
  PROVE  CursorInv'
<1> USE DEF CursorInv
<1>1. PICK j \in job :
        /\ j.what = "getMore" /\ j.at = "queued"
        /\ \/ /\ server[j.id] = "open"
              /\ server' = [server EXCEPT ![j.id] = "pinned"]
              /\ job' = {Started(j)}
           \/ /\ server[j.id] # "open"
              /\ \E r \in Refusals : job' = {Answered(j, r)}
              /\ UNCHANGED server
        /\ UNCHANGED position
    BY ZenonT(30) DEF GetMoreStarts, Started, Answered
<1>2. AwaitStays
    BY Zenon DEF GetMoreStarts, AwaitStays, cursorVars, ghostVars
<1>3. /\ held /\ j.id = id /\ documents = <<>> /\ j \in JobSet /\ j.id \in Ids /\ job = {j}
      /\ j.reply = {}
    BY Zenon, <1>1 DEF JobInv, IsQuery, ApiType, JobSet
<1>4. CASE UNCHANGED server /\ \E r \in Refusals : job' = {Answered(j, r)}
    BY ZenonT(30), <1>1, <1>2, <1>3, <1>4, RefusedInv DEF ApiType, JobInv
<1>5. CASE /\ server[j.id] = "open" /\ server' = [server EXCEPT ![j.id] = "pinned"]
           /\ job' = {Started(j)}
    <2>1. \A k \in job' : /\ k \in JobSet /\ k.what = "getMore" /\ k.id = j.id
                          /\ k.at = "running" /\ k.reply = {}
        BY <1>1, <1>3, <1>5, StartedFields
    <2>2. /\ server' \in [Ids -> States] /\ server'[j.id] = "pinned"
          /\ \A i \in Ids \ {j.id} : server'[i] = server[i]
        BY <1>3, <1>5 DEF ApiType, States
    <2>3. j.id \notin orphans
        BY <1>5 DEF JobInv
    <2>4. ApiType'
        BY <1>1, <1>2, <1>5, <2>1, <2>2 DEF ApiType, AwaitStays
    <2>5. \A i \in orphans' : server'[i] \in {"pinned", "doomed"}
        BY Zenon, <1>2, <2>2, <2>3 DEF JobInv, AwaitStays, ApiType
    <2>6. JobInv'
        BY <1>2, <1>3, <2>1, <2>2, <2>3, <2>5 DEF JobInv, IsQuery, AwaitStays
    <2>7. ASSUME Reading'
          PROVE  ReadInv' /\ EndInv' /\ PlaceInv'
        <3>1. Reading /\ Given' = Given
            BY Zenon, <1>2, <2>7 DEF Reading, Given, AwaitStays
        <3>2. ReadInv' /\ EndInv'
            BY <1>2, <3>1 DEF ReadInv, EndInv, AwaitStays
        <3>3. position[id] = Given
            BY Zenon, <1>3, <1>5, <3>1 DEF PlaceInv, Live
        <3>4. PlaceInv'
            BY <1>1, <1>2, <2>1, <3>1, <3>3 DEF PlaceInv, AwaitStays
        <3> QED
            BY <3>2, <3>4
    <2> QED
        BY <2>4, <2>6, <2>7
<1> QED
    BY <1>1, <1>4, <1>5

\* A getMore hands over the documents behind the Cursor's last.
LEMMA GetMoreEndsInv ==
  ASSUME CursorInv, GetMoreEnds
  PROVE  CursorInv'
<1> USE DEF CursorInv
<1>1. PICK j \in job :
        /\ j.at = "running"
        /\ \E b \in Served(j.id, position[j.id]) : \E wellFormed \in BOOLEAN :
             /\ Leaves(j.id, After(j.id, b), position[j.id] + Len(b.batch))
             /\ job' = {Answered(j, Reply("1", wellFormed, b.id, b.batch))}
    BY ZenonT(30) DEF GetMoreEnds, Answered
<1>2. PICK b \in Served(j.id, position[j.id]), wellFormed \in BOOLEAN :
             /\ Leaves(j.id, After(j.id, b), position[j.id] + Len(b.batch))
             /\ job' = {Answered(j, Reply("1", wellFormed, b.id, b.batch))}
    BY <1>1
<1>3. AwaitStays
    BY DEF GetMoreEnds, AwaitStays, cursorVars, ghostVars
<1>4. /\ held /\ j.id = id /\ documents = <<>> /\ j \in JobSet /\ j.id \in Ids /\ job = {j}
      /\ j.reply = {} /\ j.what = "getMore" /\ j.id \notin orphans
      /\ server[j.id] \in {"pinned", "doomed"} /\ position[j.id] \in Nat
      /\ data \in Seq(Documents)
    BY Zenon, <1>1 DEF JobInv, IsQuery, ApiType, JobSet
<1>5. /\ b.batch \in Seq(Documents)
      /\ position[j.id] + Len(b.batch) <= Len(data)
      /\ \A k \in 1..Len(b.batch) : b.batch[k] = data[position[j.id] + k]
      /\ b.id \in {j.id, NoId}
      /\ b.id = NoId => position[j.id] + Len(b.batch) = Len(data)
    BY Zenon, <1>4, ServedPiece
<1>6. PICK r \in Replies : /\ job' = {Answered(j, r)}
                           /\ r.ok = "1" /\ r.id = b.id /\ r.batch = b.batch
    <2>1. "1" \in {"0", "1"} /\ b.id \in Ids \cup {NoId}
        BY <1>4, <1>5
    <2>2. PICK kept \in Ids \cup {NoId}, sent \in Seq(Documents) :
            kept = b.id /\ sent = b.batch
        BY <1>5, <2>1
    <2>3. LET r == Reply("1", wellFormed, kept, sent)
          IN  r \in Replies /\ r.ok = "1" /\ r.id = kept /\ r.batch = sent
        BY <2>1, ReplyFields
    <2> QED
        BY <1>2, <2>2, <2>3
<1>7. \A k \in job' : /\ k \in JobSet /\ k.what = "getMore" /\ k.id = j.id
                      /\ k.at = "answered" /\ k.reply = {r}
    BY <1>4, <1>6, AnsweredFields
<1>8. /\ server' \in [Ids -> States] /\ position' \in [Ids -> Nat]
      /\ server'[j.id] = After(j.id, b)
      /\ position'[j.id] = IF After(j.id, b) = "gone" THEN 0
                                                      ELSE position[j.id] + Len(b.batch)
      /\ \A k \in Ids \ {j.id} : server'[k] = server[k] /\ position'[k] = position[k]
    <2>1. After(j.id, b) \in States /\ position[j.id] + Len(b.batch) \in Nat
        BY <1>4, <1>5 DEF After, States
    <2> QED
        BY <1>2, <1>4, <2>1, LeavesFields
<1>9. ApiType'
    BY Zenon, <1>3, <1>6, <1>7, <1>8 DEF ApiType, AwaitStays
<1>10. JobInv'
    <2>1. \A i \in orphans' : server'[i] \in {"pinned", "doomed"}
        BY ZenonT(30), <1>3, <1>4, <1>8 DEF JobInv, AwaitStays, ApiType
    <2> QED
        BY <1>3, <1>4, <1>7, <2>1 DEF JobInv, IsQuery, AwaitStays
<1>11. ASSUME Reading'
       PROVE  ReadInv' /\ EndInv' /\ PlaceInv'
    <2>1. Reading /\ Given' = Given
        BY <1>3, <1>11 DEF Reading, Given, AwaitStays
    <2>2. ReadInv' /\ EndInv'
        BY Zenon, <1>3, <2>1 DEF ReadInv, EndInv, AwaitStays
    <2>3. position[j.id] = Given
        BY Zenon, <1>4, <2>1 DEF PlaceInv, Live
    <2>4. Continues(r)'
        BY Zenon, <1>3, <1>4, <1>5, <1>6, <2>1, <2>3 DEF Continues, AwaitStays, ApiType
    <2>5. server'[j.id] \in Live => position'[j.id] = Given' + Len(r.batch)
        BY Zenon, <1>6, <1>8, <2>1, <2>3 DEF Live
    <2>6. PlaceInv'
        <3>1. \A k \in job' : k.reply # {} /\ \A q \in k.reply : q = r /\ k.id = j.id
            BY <1>7
        <3>2. r.id \in {j.id, NoId}
            BY Zenon, <1>5, <1>6
        <3> HIDE DEF CursorInv
        <3> QED
            BY Zenon, <1>6, <2>4, <2>5, <3>1, <3>2 DEF PlaceInv
    <2> QED
        BY <2>2, <2>6
<1> QED
    BY <1>9, <1>10, <1>11

\* A getMore that was running fails.
LEMMA GetMoreFailsInv ==
  ASSUME CursorInv, GetMoreFails
  PROVE  CursorInv'
<1> USE DEF CursorInv
<1>1. PICK j \in job :
        /\ j.at = "running"
        /\ \E s \in AfterError(j.id) : Leaves(j.id, s, position[j.id])
        /\ \E r \in Refusals : job' = {Answered(j, r)}
    BY ZenonT(30) DEF GetMoreFails, Answered
<1>2. PICK s \in AfterError(j.id) : Leaves(j.id, s, position[j.id])
    BY <1>1
<1>3. PICK r \in Refusals : job' = {Answered(j, r)}
    BY <1>1
<1>4. AwaitStays
    BY DEF GetMoreFails, AwaitStays, cursorVars, ghostVars
<1>5. /\ j.id \in Ids /\ j.reply = {} /\ j.what = "getMore" /\ j.id \notin orphans
      /\ server[j.id] \in {"pinned", "doomed"} /\ position[j.id] \in Nat
      /\ s \in States
    BY Zenon, <1>1 DEF JobInv, IsQuery, ApiType, JobSet, AfterError, States
<1>6. /\ server' \in [Ids -> States] /\ position' \in [Ids -> Nat]
      /\ server'[j.id] = s /\ position'[j.id] = IF s = "gone" THEN 0 ELSE position[j.id]
      /\ \A k \in Ids \ {j.id} : server'[k] = server[k] /\ position'[k] = position[k]
    BY <1>2, <1>5, LeavesFields
<1>7. \A i \in orphans : server'[i] \in {"pinned", "doomed"}
    BY ZenonT(30), <1>5, <1>6 DEF JobInv, ApiType
<1>8. server'[j.id] \in Live => server[j.id] \in Live /\ position'[j.id] = position[j.id]
    BY <1>5, <1>6 DEF Live
<1> QED
    BY <1>3, <1>4, <1>5, <1>6, <1>7, <1>8, RefusedInv

\* A Cursor is dropped, on either face.
LEMMA DropCursorInv ==
  ASSUME CursorInv, DropCursor \/ DropCursorAsync
  PROVE  CursorInv'
<1> USE DEF CursorInv
<1>1. /\ Dropped /\ job = {} /\ UNCHANGED <<data, job, orphans>>
      /\ (\E i \in ToKill : Kill(i)) \/ UNCHANGED <<server, position>>
    BY DEF DropCursor, DropCursorAsync, jobVars
<1>2. /\ server' \in [Ids -> States] /\ position' \in [Ids -> Nat]
      /\ \A k \in orphans : server'[k] \in {"pinned", "doomed"}
    <2>1. CASE UNCHANGED <<server, position>>
        BY Zenon, <2>1 DEF ApiType, JobInv
    <2>2. ASSUME NEW i \in ToKill, Kill(i)
          PROVE  /\ server' \in [Ids -> States] /\ position' \in [Ids -> Nat]
                 /\ \A k \in orphans : server'[k] \in {"pinned", "doomed"}
        <3>1. i \in Ids /\ position[i] \in Nat
            BY DEF ToKill, ApiType
        <3>2. PICK s \in States :
                /\ Leaves(i, s, position[i])
                /\ server[i] \in {"pinned", "doomed"} => s \in {"pinned", "doomed"}
            BY <2>2, <3>1, KillStops DEF Stops
        <3>3. /\ server' \in [Ids -> States] /\ position' \in [Ids -> Nat]
              /\ server'[i] = s /\ \A k \in Ids \ {i} : server'[k] = server[k]
            BY <3>1, <3>2, LeavesFields
        <3> QED
            BY Zenon, <3>2, <3>3 DEF JobInv, ApiType
    <2> QED
        BY <1>1, <2>1, <2>2
<1>3. /\ ~held' /\ id' = NoId /\ documents' = <<>> /\ yielded' = <<>> /\ known' = 0
      /\ ~ended' /\ ~skipped'
    BY <1>1 DEF Dropped
<1>4. ApiType'
    BY <1>1, <1>2, <1>3 DEF ApiType
<1> QED
    BY <1>1, <1>2, <1>3, <1>4, NoCursor

-----------------------------------------------------------------------------
(* Inserts *)

\* The documents of one insert, with their ids.
LEMMA InsertIds ==
  ASSUME NEW asked \in Inserts, NEW ids \in WithIds(asked)
  PROVE  ids \in Seq(Documents) /\ Len(ids) \in {1, 2}
<1>1. PICK n \in {1, 2} : asked \in [1..n -> {{}} \cup {{d} : d \in Documents}]
    BY DEF Inserts
<1>2. DOMAIN asked = 1..n
    BY <1>1
<1>3. ids \in [1..n -> Documents]
    BY <1>2 DEF WithIds
<1> QED
    BY <1>3

\* An ordered insert stores the documents before the first whose _id is taken.
LEMMA InsertedFits ==
  ASSUME NEW ids \in Seq(Documents), Len(ids) \in {1, 2}
  PROVE  Inserted(ids) \in 0..Len(ids) /\ Fits(ids, Inserted(ids))
<1> DEFINE Whole(n) == Fits(ids, n) /\ (n < Len(ids) => ~Fits(ids, n + 1))
<1>1. Fits(ids, 0)
    BY DEF Fits
<1>2. \E n \in 0..Len(ids) : Whole(n)
    <2>1. CASE ~Fits(ids, 1)
        BY <1>1, <2>1
    <2>2. CASE Fits(ids, 1) /\ Len(ids) = 1
        BY <2>2
    <2>3. CASE Fits(ids, 1) /\ Len(ids) = 2
        BY <2>3
    <2> QED
        BY <2>1, <2>2, <2>3
<1>3. Inserted(ids) = CHOOSE n \in 0..Len(ids) : Whole(n)
    BY DEF Inserted
<1> HIDE DEF Whole
<1>4. Inserted(ids) \in 0..Len(ids) /\ Whole(Inserted(ids))
    BY <1>2, <1>3
<1> QED
    BY <1>4 DEF Whole

\* What is stored goes behind what was.
LEMMA InsertGrows ==
  ASSUME data \in Seq(Documents), NEW ids \in Seq(Documents), NEW m \in 0..Len(ids),
         data' = data \o SubSeq(ids, 1, m)
  PROVE  /\ data' \in Seq(Documents) /\ Len(data') = Len(data) + m
         /\ \A k \in 1..Len(data) : data'[k] = data[k]
         /\ \A k \in 1..m : data'[Len(data) + k] = ids[k]
<1>1. /\ SubSeq(ids, 1, m) \in Seq(Documents) /\ Len(SubSeq(ids, 1, m)) = m
      /\ \A k \in 1..m : SubSeq(ids, 1, m)[k] = ids[k]
    OBVIOUS
<1> DEFINE new == SubSeq(ids, 1, m)
<1> HIDE DEF new
<1>2. /\ new \in Seq(Documents) /\ Len(new) = m /\ data' = data \o new
      /\ \A k \in 1..m : new[k] = ids[k]
    BY <1>1 DEF new
<1> QED
    BY <1>2

\* A Cursor does not notice that the collection grows.
LEMMA GrowthInv ==
  ASSUME CursorInv,
         UNCHANGED <<server, position, held, id, documents, finished, job, orphans, known,
                     yielded, failed, skipped, ended>>,
         data' \in Seq(Documents), Len(data') >= Len(data),
         \A k \in 1..Len(data) : data'[k] = data[k]
  PROVE  CursorInv'
<1> USE DEF CursorInv
<1>1. ApiType'
    BY DEF ApiType
<1>2. JobInv'
    BY DEF JobInv, IsQuery
<1>3. ASSUME Reading'
      PROVE  ReadInv' /\ EndInv' /\ PlaceInv'
    <2>1. /\ Reading /\ Given' = Given /\ Given \in Nat /\ Len(data) \in Nat
          /\ Len(yielded) \in Nat /\ Len(documents) \in Nat /\ Len(data') \in Nat
          /\ Given = Len(yielded) + Len(documents)
        BY <1>3 DEF Reading, Given, ApiType
    <2>2. ReadInv'
        BY <2>1 DEF ReadInv
    <2>3. EndInv'
        BY <2>1 DEF EndInv
    <2>4. ASSUME NEW j \in job, NEW r \in j.reply
          PROVE  Continues(r)'
        <3>1. r \in Replies
            BY Zenon DEF ApiType, JobSet
        <3>2. Len(r.batch) \in Nat
            BY <3>1 DEF Replies
        <3>3. Continues(r)
            BY Zenon, <2>1 DEF PlaceInv
        <3> HIDE DEF CursorInv
        <3>4. Given + Len(r.batch) <= Len(data)
            BY <3>3 DEF Continues
        <3>5. /\ \A k \in 1..Len(r.batch) : r.batch[k] = data[Given + k]
              /\ r.ok = "1" /\ r.id = NoId => known <= Given + Len(r.batch)
            BY <3>3 DEF Continues
        <3>6. PICK g \in Nat, n \in Nat : g = Given /\ n = Len(r.batch)
            BY <2>1, <3>2
        <3>7. g + n <= Len(data) /\ Len(data) \in Nat /\ Len(data') \in Nat
            BY Zenon, <2>1, <3>4, <3>6
        <3>8. Given + Len(r.batch) <= Len(data')
            BY <3>6, <3>7
        <3>9. ASSUME NEW k \in 1..n
              PROVE  r.batch[k] = data'[Given + k]
            <4>1. g + k \in 1..Len(data)
                BY <3>7
            <4> QED
                BY <3>5, <3>6, <4>1
        <3> QED
            BY Zenon, <2>1, <3>5, <3>6, <3>8, <3>9 DEF Continues
    <2>5. PlaceInv'
        BY Zenon, <2>1, <2>4 DEF PlaceInv
    <2> QED
        BY <2>2, <2>3, <2>5
<1> QED
    BY <1>1, <1>2, <1>3

\* What one insert does to the collection, and when it answers Ok.
LEMMA InsertDone ==
  ASSUME data \in Seq(Documents), NEW asked \in Inserts,
         InsertMany(asked) \/ InsertDropped(asked)
  PROVE  \E ids \in Seq(Documents) : \E m \in 0..Len(ids) :
           /\ Fits(ids, m)
           /\ data' \in Seq(Documents) /\ Len(data') = Len(data) + m
           /\ \A k \in 1..Len(data) : data'[k] = data[k]
           /\ \A k \in 1..m : data'[Len(data) + k] = ids[k]
           /\ insert' = {} \/ (insert' = {ids} /\ m = Len(ids))
<1>1. PICK ids \in WithIds(asked) :
        \/ \E r \in InsertReplies(ids, Inserted(ids)) :
             /\ data' = data \o SubSeq(ids, 1, Inserted(ids))
             /\ insert' = {x \in {ids} : InsertOk(r, Len(x))}
        \/ \E r \in InsertRefusals :
             /\ data' = data
             /\ insert' = {x \in {ids} : InsertOk(r, Len(x))}
        \/ insert' = {} /\ data' \in {data, data \o SubSeq(ids, 1, Inserted(ids))}
    BY Zenon DEF InsertMany, InsertDropped
<1>2. ids \in Seq(Documents) /\ Len(ids) \in {1, 2}
    BY InsertIds
<1>3. Inserted(ids) \in 0..Len(ids) /\ Fits(ids, Inserted(ids))
    BY <1>2, InsertedFits
<1>4. CASE data' = data /\ insert' = {}
    <2>1. Fits(ids, 0) /\ 0 \in 0..Len(ids)
        BY <1>2 DEF Fits
    <2> QED
        BY <1>2, <1>4, <2>1
<1>5. CASE /\ data' = data \o SubSeq(ids, 1, Inserted(ids))
           /\ insert' = {} \/ (insert' = {ids} /\ Inserted(ids) = Len(ids))
    <2>1. PICK m \in 0..Len(ids) : m = Inserted(ids)
        BY <1>3
    <2>2. /\ data' \in Seq(Documents) /\ Len(data') = Len(data) + m
          /\ \A k \in 1..Len(data) : data'[k] = data[k]
          /\ \A k \in 1..m : data'[Len(data) + k] = ids[k]
        BY <1>2, <1>5, <2>1, InsertGrows
    <2> QED
        BY ZenonT(30), <1>2, <1>3, <1>5, <2>1, <2>2
<1>6. ASSUME NEW r \in InsertReplies(ids, Inserted(ids)),
             insert' = {x \in {ids} : InsertOk(r, Len(x))}
      PROVE  insert' = {} \/ (insert' = {ids} /\ Inserted(ids) = Len(ids))
    <2>1. InsertOk(r, Len(ids)) => Inserted(ids) = Len(ids)
        BY <1>2, <1>3 DEF InsertReplies, InsertOk, Believed
    <2> QED
        BY <1>6, <2>1
<1>7. ASSUME NEW r \in InsertRefusals, insert' = {x \in {ids} : InsertOk(r, Len(x))}
      PROVE  insert' = {}
    BY Zenon, <1>7 DEF InsertRefusals, InsertOk, Believed
<1> QED
    BY Zenon, <1>1, <1>4, <1>5, <1>6, <1>7

\* An insert, answered or not, is behind every Cursor's place.
LEMMA InsertInv ==
  ASSUME CursorInv, NEW asked \in Inserts, InsertMany(asked) \/ InsertDropped(asked)
  PROVE  CursorInv'
<1>1. data \in Seq(Documents) /\ Len(data) \in Nat
    BY DEF CursorInv, ApiType
<1>2. PICK ids \in Seq(Documents) : \E m \in 0..Len(ids) :
        /\ data' \in Seq(Documents) /\ Len(data') = Len(data) + m
        /\ \A k \in 1..Len(data) : data'[k] = data[k]
    BY <1>1, InsertDone
<1>3. /\ data' \in Seq(Documents) /\ Len(data') >= Len(data)
      /\ \A k \in 1..Len(data) : data'[k] = data[k]
    BY <1>1, <1>2
<1>4. UNCHANGED <<server, position, held, id, documents, finished, job, orphans, known,
                  yielded, failed, skipped, ended>>
    BY DEF InsertMany, InsertDropped, cursorVars, jobVars, ghostVars
<1> QED
    BY <1>3, <1>4, GrowthInv

\* Each _id is in the collection once, and those of an insert that answered Ok are.
LEMMA StoredInv ==
  ASSUME data \in Seq(Documents), DataInv, NEW asked \in Inserts,
         InsertMany(asked) \/ InsertDropped(asked)
  PROVE  DataInv'
<1>1. PICK ids \in Seq(Documents) : \E m \in 0..Len(ids) :
        /\ Fits(ids, m)
        /\ data' \in Seq(Documents) /\ Len(data') = Len(data) + m
        /\ \A k \in 1..Len(data) : data'[k] = data[k]
        /\ \A k \in 1..m : data'[Len(data) + k] = ids[k]
        /\ insert' = {} \/ (insert' = {ids} /\ m = Len(ids))
    BY Zenon, InsertDone
<1>2. PICK m \in 0..Len(ids) :
        /\ Fits(ids, m)
        /\ data' \in Seq(Documents) /\ Len(data') = Len(data) + m
        /\ \A k \in 1..Len(data) : data'[k] = data[k]
        /\ \A k \in 1..m : data'[Len(data) + k] = ids[k]
        /\ insert' = {} \/ (insert' = {ids} /\ m = Len(ids))
    BY <1>1
<1>3. Len(data) \in Nat /\ Len(ids) \in Nat /\ m \in Nat /\ m <= Len(ids)
    BY <1>2
<1>4. ASSUME NEW k \in 1..m
      PROVE  /\ \A n \in 1..Len(data) : data[n] # ids[k]
             /\ \A l \in 1..m : l < k => ids[l] # ids[k]
    <2>1. ids[k] \notin Range(data) \cup {ids[l] : l \in 1..(k - 1)}
        BY <1>2 DEF Fits
    <2>2. \A n \in 1..Len(data) : data[n] \in Range(data)
        BY DEF Range
    <2>3. \A l \in 1..m : l < k => l \in 1..(k - 1)
        BY <1>3
    <2> QED
        BY <2>1, <2>2, <2>3
<1>5. \A k, l \in 1..m : ids[k] = ids[l] => k = l
    <2> SUFFICES ASSUME NEW k \in 1..m, NEW l \in 1..m, ids[k] = ids[l]
                 PROVE  k = l
        OBVIOUS
    <2>1. ~ (l < k) /\ ~ (k < l)
        BY <1>4
    <2> QED
        BY <1>3, <2>1
<1>6. ASSUME NEW n \in 1..Len(data'), ~ (n \in 1..Len(data))
      PROVE  \E k \in 1..m : n = Len(data) + k /\ data'[n] = ids[k]
    <2>1. n - Len(data) \in 1..m /\ n = Len(data) + (n - Len(data))
        BY <1>2, <1>3, <1>6
    <2> QED
        BY Zenon, <1>2, <2>1
<1>7. ASSUME NEW a \in 1..Len(data'), NEW b \in 1..Len(data'), data'[a] = data'[b]
      PROVE  a = b
    <2>1. CASE a \in 1..Len(data) /\ b \in 1..Len(data)
        BY <1>2, <1>7, <2>1 DEF DataInv
    <2>2. CASE a \in 1..Len(data) /\ ~ (b \in 1..Len(data))
        <3>1. PICK k \in 1..m : data'[b] = ids[k]
            BY <1>6, <2>2
        <3> QED
            BY <1>2, <1>4, <1>7, <2>2, <3>1
    <2>3. CASE ~ (a \in 1..Len(data)) /\ b \in 1..Len(data)
        <3>1. PICK k \in 1..m : data'[a] = ids[k]
            BY <1>6, <2>3
        <3> QED
            BY Zenon, <1>2, <1>4, <1>7, <2>3, <3>1
    <2>4. CASE ~ (a \in 1..Len(data)) /\ ~ (b \in 1..Len(data))
        BY <1>5, <1>6, <1>7, <2>4
    <2> QED
        BY <2>1, <2>2, <2>3, <2>4
<1>8. ASSUME NEW x \in insert'
      PROVE  /\ x \in Seq(Documents)
             /\ \A k \in 1..Len(x) : \E n \in 1..Len(data') : data'[n] = x[k]
             /\ \A k, l \in 1..Len(x) : x[k] = x[l] => k = l
    <2>1. x = ids /\ m = Len(ids)
        BY <1>2, <1>8
    <2>2. \A k \in 1..m : Len(data) + k \in 1..Len(data')
        BY <1>2, <1>3
    <2> QED
        BY Zenon, <1>2, <1>5, <2>1, <2>2
<1> QED
    BY Zenon, <1>7, <1>8 DEF DataInv

-----------------------------------------------------------------------------
(* What the API promises *)

\* Every step keeps the invariant.
LEMMA ApiStep == CursorInv /\ [Next]_vars => CursorInv'
<1> SUFFICES ASSUME CursorInv, [Next]_vars
             PROVE  CursorInv'
    OBVIOUS
<1>1. CASE UNCHANGED vars
    <2>1. CursorStays /\ UNCHANGED <<server, position, orphans, skipped>>
        BY <1>1 DEF vars, CursorStays, cursorVars, jobVars, ghostVars
    <2> QED
        BY Zenon, <2>1, ServerStep DEF CursorInv, ApiType, JobInv
<1>2. CASE Find \/ FindOne \/ Aggregate \/ FindAsync \/ FindOneAsync \/ AggregateAsync
    BY ZenonT(30), <1>2, QueryInv DEF Find, FindOne, Aggregate, FindAsync, FindOneAsync, AggregateAsync
<1>3. CASE QueryRuns \/ QueryAnswered \/ QueryDropped
    BY <1>3, QueryRunsInv, QueryAnsweredInv, QueryDroppedInv
<1>4. CASE CursorNext
    BY <1>4, NextDocumentInv, NextNoneInv, NextFetchesInv, NextRefusedInv,
       FetchAnsweredInv, NextDroppedInv DEF CursorNext
<1>5. CASE GetMoreStarts \/ GetMoreEnds \/ GetMoreFails
    BY <1>5, GetMoreStartsInv, GetMoreEndsInv, GetMoreFailsInv
<1>6. ASSUME NEW i \in Ids,
             OrphanEnds(i) \/ OrphanInterrupted(i) \/ KillRuns(i) \/ KillRefused(i)
      PROVE  CursorInv'
    BY <1>6, OrphanEndsInv, OrphanInterruptedInv, KillRunsInv, NothingMovesInv
<1>7. CASE DropCursor \/ DropCursorAsync
    BY <1>7, DropCursorInv
<1>8. ASSUME NEW asked \in Inserts, InsertMany(asked) \/ InsertDropped(asked)
      PROVE  CursorInv'
    BY <1>8, InsertInv
<1>9. CASE BeginClose \/ EngineCloses
    BY <1>9, NothingMovesInv, EngineClosesInv
<1> QED
    BY <1>1, <1>2, <1>3, <1>4, <1>5, <1>6, <1>7, <1>8, <1>9 DEF Next

\* The collection changes in inserts alone.
LEMMA OnlyInserts ==
  ASSUME [Next]_vars
  PROVE  \/ UNCHANGED <<data, insert>>
         \/ \E asked \in Inserts : InsertMany(asked) \/ InsertDropped(asked)
<1>1. CASE Find \/ FindOne \/ Aggregate \/ FindAsync \/ FindOneAsync \/ AggregateAsync
    BY Zenon, <1>1 DEF Find, FindOne, Aggregate, FindAsync, FindOneAsync, AggregateAsync, Query
<1>2. CASE QueryRuns \/ QueryAnswered \/ QueryDropped
    BY ZenonT(30), <1>2 DEF QueryRuns, QueryAnswered, QueryDropped
<1>3. CASE CursorNext
    BY ZenonT(30), <1>3 DEF CursorNext, NextDocument, NextNone, NextFetches, NextRefused, FetchAnswered,
                NextDropped
<1>4. CASE GetMoreStarts \/ GetMoreEnds \/ GetMoreFails
    BY ZenonT(30), <1>4 DEF GetMoreStarts, GetMoreEnds, GetMoreFails
<1>5. ASSUME NEW i \in Ids,
             OrphanEnds(i) \/ OrphanInterrupted(i) \/ KillRuns(i) \/ KillRefused(i)
      PROVE  UNCHANGED <<data, insert>>
    BY Zenon, <1>5 DEF OrphanEnds, OrphanInterrupted, KillRuns, KillRefused
<1>6. CASE DropCursor \/ DropCursorAsync \/ BeginClose \/ EngineCloses
    BY <1>6 DEF DropCursor, DropCursorAsync, BeginClose, EngineCloses
<1>7. CASE UNCHANGED vars
    BY <1>7 DEF vars
<1> QED
    BY <1>1, <1>2, <1>3, <1>4, <1>5, <1>6, <1>7 DEF Next

\* CursorInv always holds.
LEMMA CursorAlways == Spec => []CursorInv
BY ApiInit, ApiStep, PTL DEF Spec

\* DataInv always holds.
LEMMA DataAlways == Spec => []DataInv
<1>1. Init => DataInv
    BY DEF Init, DataInv
<1>2. CursorInv /\ DataInv /\ [Next]_vars => DataInv'
    <2> SUFFICES ASSUME CursorInv, DataInv, [Next]_vars
                 PROVE  DataInv'
        OBVIOUS
    <2>1. CASE UNCHANGED <<data, insert>>
        BY <2>1 DEF DataInv
    <2>2. ASSUME NEW asked \in Inserts, InsertMany(asked) \/ InsertDropped(asked)
          PROVE  DataInv'
        BY <2>2, StoredInv DEF CursorInv, ApiType
    <2> QED
        BY <2>1, <2>2, OnlyInserts
<1> QED
    BY <1>1, <1>2, CursorAlways, PTL DEF Spec

\* For any documents, ids and batch size, and however a query's batches fall among
\* inserts, dropped futures, kills and a close: a cursor at its end gave everything.
THEOREM EndIsTheEnd == Spec => []EndMeansAll
<1>1. CursorInv => EndMeansAll
    <2> SUFFICES ASSUME CursorInv, ended, ~failed, ~skipped
                 PROVE  yielded = SubSeq(data, 1, Len(yielded)) /\ known <= Len(yielded)
        BY DEF EndMeansAll, AllAnswered
    <2>1. ReadInv /\ EndInv /\ held /\ yielded \in Seq(Documents) /\ data \in Seq(Documents)
        BY DEF CursorInv, Reading, JobInv, ApiType
    <2>2. documents = <<>> /\ id = NoId /\ Given = Len(yielded) /\ known <= Given
        BY <2>1 DEF EndInv, Given
    <2>3. Len(yielded) <= Len(data) /\ \A k \in 1..Len(yielded) : yielded[k] = data[k]
        BY <2>1, <2>2 DEF ReadInv
    <2> HIDE DEF CursorInv
    <2>4. yielded = SubSeq(data, 1, Len(yielded))
        BY <2>1, <2>3
    <2> QED
        BY <2>2, <2>4
<1> QED
    BY <1>1, CursorAlways, PTL

\* For any documents, an insert that answered Ok stored each of its documents once.
THEOREM OkIsStored == Spec => []InsertOkMeansStored
<1>1. CursorInv /\ DataInv => InsertOkMeansStored
    <2> SUFFICES ASSUME CursorInv, DataInv, NEW ids \in insert, NEW k \in DOMAIN ids
                 PROVE  /\ \E n \in DOMAIN data : {m \in DOMAIN data : data[m] = ids[k]} = {n}
                        /\ \A l \in DOMAIN ids : ids[l] = ids[k] => l = k
        BY DEF InsertOkMeansStored
    <2>1. data \in Seq(Documents) /\ ids \in Seq(Documents)
        BY DEF CursorInv, ApiType, DataInv
    <2>2. DOMAIN data = 1..Len(data) /\ DOMAIN ids = 1..Len(ids)
        BY <2>1
    <2>3. PICK n \in 1..Len(data) : data[n] = ids[k]
        BY <2>2 DEF DataInv
    <2>4. {m \in DOMAIN data : data[m] = ids[k]} = {n}
        BY <2>2, <2>3 DEF DataInv
    <2>5. \A l \in DOMAIN ids : ids[l] = ids[k] => l = k
        BY <2>2 DEF DataInv
    <2> QED
        BY <2>2, <2>4, <2>5
<1> QED
    BY <1>1, CursorAlways, DataAlways, PTL

=============================================================================
