--------------------------- MODULE CollectionApi ---------------------------
(***************************************************************************)
(* A collection through the typed API: find, find_one, aggregate, the      *)
(* cursor they return, and insert (src/find.rs, src/insert.rs and          *)
(* src/aggregate.rs, with their async faces under src/nonblocking), down   *)
(* to the check of every reply in src/error.rs.                            *)
(*                                                                         *)
(* The async cursor sends its getMore as a job whose future may be dropped *)
(* at any moment: a queued job then never runs, a running one is           *)
(* interrupted, perhaps too late, and a reply is discarded.  The blocking  *)
(* cursor is inside the call until it returns.                             *)
(*                                                                         *)
(* The engine is external.  It may answer anything with an error; a cursor *)
(* a getMore is running on is in use for everybody else, and is gone when  *)
(* that getMore ends if it was killed meanwhile.  A getMore that ended in  *)
(* an error may have taken its cursor with it.                             *)
(***************************************************************************)
EXTENDS Integers, Sequences, Functions

CONSTANTS
    Documents,  \* the _id values documents may have
    Ids,        \* the server's cursor ids, each used once
    NoId,       \* the id 0: the server keeps no cursor
    Batch       \* the most documents one reply carries

ASSUME ApiAssumption == NoId \notin Ids /\ Batch \in Nat \ {0}

VARIABLES
    face,       \* which client the process opened: "blocking" or "async"
    client,     \* "open", "closing" or "closed"
    data,       \* the collection, in the order its documents were inserted
    server,     \* each cursor id: "unused", "open", "pinned", "doomed" or "gone"
    position,   \* how much of the collection each server cursor has returned
    \* the Cursor
    held,       \* a Cursor value exists
    id, documents, finished,
    \* its future, and what was sent for it
    job,        \* nothing, or the command awaited
    orphans,    \* ids whose interrupted getMore has not ended yet
    kills,      \* ids of killCursors jobs queued
    \* for the properties
    known,      \* how long the collection was when the query ran
    yielded,    \* the documents next() answered
    failed,     \* next() answered an error, or the query is a find_one
    skipped,    \* a batch the server handed over was discarded
    ended,      \* next() answered None
    leaked,     \* server cursors that nobody was ever told of, or whose kill was refused
    insert      \* the ids of the last insert, if it answered Ok

cursorVars == <<held, id, documents, finished>>
jobVars == <<job, orphans, kills>>
ghostVars == <<known, yielded, failed, skipped, ended, leaked>>
vars == <<face, client, data, server, position, cursorVars, jobVars, ghostVars, insert>>

Live == {"open", "pinned", "doomed"}

\* The server's cursor i goes on as s, from position p of the collection.
Leaves(i, s, p) ==
    /\ server' = [server EXCEPT ![i] = s]
    /\ position' = [position EXCEPT ![i] = IF s = "gone" THEN 0 ELSE p]

Init ==
    /\ face \in {"blocking", "async"}
    /\ client = "open"
    /\ data = <<>>
    /\ server = [i \in Ids |-> "unused"]
    /\ position = [i \in Ids |-> 0]
    /\ held = FALSE /\ id = NoId /\ documents = <<>> /\ finished = FALSE
    /\ job = {} /\ orphans = {} /\ kills = {}
    /\ known = 0 /\ yielded = <<>>
    /\ failed = FALSE /\ skipped = FALSE /\ ended = FALSE
    /\ leaked = {}
    /\ insert = {}

-----------------------------------------------------------------------------
(* Replies, and what is believed of them *)

\* error.rs: validate_response.  "absent" is an ok that is missing or no number.
Believed(reply) ==
    /\ reply.ok = "1"
    /\ ~reply.writeErrors
    /\ ~reply.writeConcernError

\* take_cursor_batch: a cursor document with an id and an array of documents.
HasCursorBatch(reply) == reply.wellFormed

Taken(reply) == Believed(reply) /\ HasCursorBatch(reply)

Reply(ok, wellFormed, i, batch) ==
    [ok |-> ok, writeErrors |-> FALSE, writeConcernError |-> FALSE,
     wellFormed |-> wellFormed, id |-> i, batch |-> batch]

Refusals == {Reply("0", TRUE, NoId, <<>>)}

\* What the server returns next, from position p: at most Batch documents, and
\* the id again unless the collection is at its end (where it may not have
\* noticed yet).
Batches(i, p) ==
    {[batch |-> SubSeq(data, p + 1, n), id |-> k] :
        n \in {m \in p..Len(data) : m - p <= Batch},
        k \in {i, NoId}}

Served(i, p) == {b \in Batches(i, p) : b.id = NoId => p + Len(b.batch) = Len(data)}

-----------------------------------------------------------------------------
(* find, find_one and aggregate *)

\* The command is sent: blocking on this thread, async as a job.
Query(as, single) ==
    /\ face = as
    /\ client = "open"
    /\ ~held
    /\ job = {}
    /\ \E i \in Ids :
         /\ server[i] = "unused"
         /\ job' = {[what |-> IF single THEN "find_one" ELSE "find", id |-> i,
                     at |-> "queued", reply |-> {}]}
    /\ failed' = single
    /\ UNCHANGED <<face, client, data, server, position, cursorVars, orphans, kills, known, yielded,
                   skipped, ended, leaked, insert>>

Find == Query("blocking", FALSE)
FindOne == Query("blocking", TRUE)
Aggregate == Query("blocking", FALSE)
FindAsync == Query("async", FALSE)
FindOneAsync == Query("async", TRUE)
AggregateAsync == Query("async", FALSE)

FirstOf(s) == IF s = <<>> THEN <<>> ELSE <<Head(s)>>
IsQuery(j) == j.what \in {"find", "find_one"}

\* The engine runs the query.  singleBatch leaves no cursor behind.
QueryRuns ==
    \E j \in job :
      /\ IsQuery(j) /\ j.at = "queued"
      /\ \E b \in Served(j.id, 0) : \E wellFormed \in BOOLEAN :
           LET kept == IF j.what = "find_one" THEN NoId ELSE b.id
               sent == IF j.what = "find_one" THEN FirstOf(data) ELSE b.batch
           IN  /\ Leaves(j.id, IF kept = NoId THEN "gone" ELSE "open", Len(sent))
               /\ job' = {[j EXCEPT !.at = "answered",
                                   !.reply = {Reply("1", wellFormed, kept, sent)}]}
      /\ known' = Len(data)
      /\ UNCHANGED <<face, client, data, cursorVars, orphans, kills, yielded, failed, skipped,
                     ended, leaked, insert>>

\* The query's cursor, if it left one, is known to nobody.
Lost(j) ==
    /\ leaked' = leaked \cup {i \in {j.id} : server[i] \in Live}
    /\ known' = 0 /\ failed' = FALSE
    /\ UNCHANGED <<cursorVars, yielded, skipped, ended>>

\* Cursor::from_response, on both faces.
QueryAnswered ==
    \E j \in job : \E r \in j.reply :
      /\ IsQuery(j)
      /\ job' = {}
      /\ \/ /\ Taken(r)
            /\ held' = TRUE /\ id' = r.id /\ documents' = r.batch /\ finished' = FALSE
            /\ UNCHANGED <<ghostVars>>
         \/ ~Taken(r) /\ Lost(j)
      /\ UNCHANGED <<face, client, data, server, position, orphans, kills, insert>>

\* The future of a find is dropped.  A cursor its reply names is lost with it.
QueryDropped ==
    \E j \in job :
      /\ IsQuery(j) /\ face = "async"
      /\ job' = {}
      /\ Lost(j)
      /\ UNCHANGED <<face, client, data, server, position, orphans, kills, insert>>

-----------------------------------------------------------------------------
(* Cursor::next, on both faces *)

\* A document of the batch, deserialized or answered as the error it is.
NextDocument ==
    /\ held /\ job = {}
    /\ documents # <<>>
    /\ yielded' = Append(yielded, Head(documents))
    /\ documents' = Tail(documents)
    /\ UNCHANGED <<face, client, data, server, position, held, id, finished, jobVars, known,
                   failed, skipped, ended, leaked, insert>>

\* (Slip: an empty batch is taken for the end.)
NextNone_EmptyBatch ==
    /\ held /\ job = {}
    /\ documents = <<>>
    /\ finished' = TRUE
    /\ ended' = TRUE
    /\ UNCHANGED <<face, client, data, server, position, held, id, documents, jobVars, known,
                   yielded, failed, skipped, leaked, insert>>

NextNone ==
    /\ held /\ job = {}
    /\ documents = <<>>
    /\ finished \/ id = NoId
    /\ finished' = TRUE
    /\ ended' = TRUE
    /\ UNCHANGED <<face, client, data, server, position, held, id, documents, jobVars, known,
                   yielded, failed, skipped, leaked, insert>>

MustFetch == held /\ job = {} /\ documents = <<>> /\ ~finished /\ id # NoId

\* fetch_next_batch sends the getMore.
NextFetches ==
    /\ MustFetch
    /\ client = "open"
    /\ job' = {[what |-> "getMore", id |-> id, at |-> "queued", reply |-> {}]}
    /\ UNCHANGED <<face, client, data, server, position, cursorVars, orphans, kills, ghostVars,
                   insert>>

\* An error ends the iteration and leaves the id for the drop to kill.
FetchFailed == finished' = TRUE /\ failed' = TRUE /\ UNCHANGED <<id, documents>>

\* The dispatch is refused with Closed.
NextRefused ==
    /\ MustFetch
    /\ client # "open"
    /\ FetchFailed
    /\ UNCHANGED <<face, client, data, server, position, held, jobVars, known, yielded, skipped,
                   ended, leaked, insert>>

\* A worker, or the blocking caller, gets to the getMore.
GetMoreStarts ==
    \E j \in job :
      /\ j.what = "getMore" /\ j.at = "queued"
      /\ \/ /\ server[j.id] = "open"
            /\ server' = [server EXCEPT ![j.id] = "pinned"]
            /\ job' = {[j EXCEPT !.at = "running"]}
         \/ \* CursorNotFound, or in use by the getMore that was interrupted
            /\ server[j.id] # "open"
            /\ \E r \in Refusals : job' = {[j EXCEPT !.at = "answered", !.reply = {r}]}
            /\ UNCHANGED server
      /\ UNCHANGED <<face, client, data, position, cursorVars, orphans, kills, ghostVars, insert>>

\* What a getMore that hands over b leaves of its cursor.
After(i, b) == IF b.id = NoId \/ server[i] = "doomed" THEN "gone" ELSE "open"

AfterError(i) == IF server[i] = "doomed" THEN {"gone"} ELSE {"open", "gone"}

GetMoreEnds ==
    \E j \in job :
      /\ j.at = "running"
      /\ \E b \in Served(j.id, position[j.id]) : \E wellFormed \in BOOLEAN :
           /\ Leaves(j.id, After(j.id, b), position[j.id] + Len(b.batch))
           /\ job' = {[j EXCEPT !.at = "answered",
                               !.reply = {Reply("1", wellFormed, b.id, b.batch)}]}
      /\ UNCHANGED <<face, client, data, cursorVars, orphans, kills, ghostVars, insert>>

GetMoreFails ==
    \E j \in job :
      /\ j.at = "running"
      /\ \E s \in AfterError(j.id) : Leaves(j.id, s, position[j.id])
      /\ \E r \in Refusals : job' = {[j EXCEPT !.at = "answered", !.reply = {r}]}
      /\ UNCHANGED <<face, client, data, cursorVars, orphans, kills, ghostVars, insert>>

\* The rest of fetch_next_batch: the loop of next() goes on from here.
FetchAnswered ==
    \E j \in job : \E r \in j.reply :
      /\ j.what = "getMore"
      /\ job' = {}
      /\ \/ /\ Taken(r)
            /\ id' = r.id /\ documents' = r.batch
            /\ UNCHANGED <<finished, failed>>
         \/ ~Taken(r) /\ FetchFailed
      /\ UNCHANGED <<face, client, data, server, position, held, orphans, kills, known, yielded,
                     skipped, ended, leaked, insert>>

\* The future of next() is dropped during its getMore: CancelOnDrop.
NextDropped ==
    \E j \in job :
      /\ j.what = "getMore" /\ face = "async"
      /\ job' = {}
      /\ orphans' = IF j.at = "running" THEN orphans \cup {j.id} ELSE orphans
      /\ skipped' = (skipped \/ \E r \in j.reply : r.batch # <<>>)
      /\ UNCHANGED <<face, client, data, server, position, cursorVars, kills, known, yielded,
                     failed, ended, leaked, insert>>

\* The interrupt came too late: the batch is handed to nobody.
OrphanEnds(i) ==
    /\ i \in orphans
    /\ orphans' = orphans \ {i}
    /\ \E b \in Served(i, position[i]) :
         /\ Leaves(i, After(i, b), position[i] + Len(b.batch))
         /\ skipped' = (skipped \/ (id = i /\ b.batch # <<>>))
    /\ UNCHANGED <<face, client, data, cursorVars, job, kills, known, yielded, failed, ended,
                   leaked, insert>>

OrphanInterrupted(i) ==
    /\ i \in orphans
    /\ orphans' = orphans \ {i}
    /\ \E s \in AfterError(i) : Leaves(i, s, position[i])
    /\ UNCHANGED <<face, client, data, cursorVars, job, kills, ghostVars, insert>>

-----------------------------------------------------------------------------
(* Drop, and the kill *)

\* killCursors on i: at once, or when the getMore that has it pinned ends.
Kill(i) ==
    Leaves(i, CASE server[i] = "open" -> "gone" [] server[i] = "pinned" -> "doomed"
                [] OTHER -> server[i],
           position[i])

\* (Slip: a cursor that is finished is taken for one the server has closed.)
ToKill_Unfinished == {i \in {id} : i # NoId /\ ~finished}

\* The id a dropped cursor still names.
ToKill == {i \in {id} : i # NoId}

\* The cursor goes, and its history with it.
Dropped ==
    /\ held' = FALSE /\ id' = NoId /\ documents' = <<>> /\ finished' = FALSE
    /\ known' = 0 /\ yielded' = <<>> /\ failed' = FALSE /\ skipped' = FALSE /\ ended' = FALSE

\* Blocking: killCursors is sent from drop itself, and its error ignored.
DropCursor ==
    /\ face = "blocking"
    /\ held /\ job = {}
    /\ Dropped
    /\ \/ (\E i \in ToKill : Kill(i)) /\ UNCHANGED leaked
       \/ /\ leaked' = leaked \cup {i \in ToKill : server[i] \in Live}
          /\ UNCHANGED <<server, position>>
    /\ UNCHANGED <<face, client, data, jobVars, insert>>

\* Async: a detached job, refused and forgotten once the client is closed.
DropCursorAsync ==
    /\ face = "async"
    /\ held /\ job = {}
    /\ Dropped
    /\ kills' = IF client = "open" THEN kills \cup ToKill ELSE kills
    /\ UNCHANGED <<face, client, data, server, position, job, orphans, leaked, insert>>

KillRuns(i) ==
    /\ i \in kills
    /\ kills' = kills \ {i}
    /\ Kill(i)
    /\ UNCHANGED <<face, client, data, cursorVars, job, orphans, ghostVars, insert>>

KillRefused(i) ==
    /\ i \in kills
    /\ kills' = kills \ {i}
    /\ leaked' = leaked \cup {k \in {i} : server[k] \in Live}
    /\ UNCHANGED <<face, client, data, server, position, cursorVars, job, orphans, known, yielded,
                   failed, skipped, ended, insert>>

-----------------------------------------------------------------------------
(* insert_one and insert_many *)

\* What callers hand over: one or two documents, each with an _id or without;
\* an empty insert_many is refused before it is sent.
Inserts == UNION {[1..n -> {{}} \cup {{d} : d \in Documents}] : n \in {1, 2}}

\* serialize_many and ensure_id: a document without an _id gets an ObjectId,
\* which nothing else has.
WithIds(asked) ==
    {ids \in [DOMAIN asked -> Documents] :
        \A k \in DOMAIN asked :
          /\ \A d \in asked[k] : ids[k] = d
          /\ asked[k] = {} => /\ ids[k] \notin Range(data)
                             /\ \A l \in DOMAIN asked \ {k} : ids[l] # ids[k]}

\* An ordered insert: the documents before the first whose _id is taken.
Fits(ids, n) == \A k \in 1..n : ids[k] \notin Range(data) \cup {ids[l] : l \in 1..(k - 1)}
Inserted(ids) == CHOOSE n \in 0..Len(ids) : Fits(ids, n) /\ (n < Len(ids) => ~Fits(ids, n + 1))

InsertReplies(ids, n) ==
    [ok : {"1"}, writeErrors : {n < Len(ids)}, writeConcernError : BOOLEAN, n : {{n}, {}}]

InsertRefusals ==
    [ok : {"0", "absent"}, writeErrors : {FALSE}, writeConcernError : {FALSE}, n : {{}}]

\* (Slip: a reply that says ok is taken for an insert that was done.)
InsertOk_AnyOk(reply, expected) == reply.ok = "1"

\* validate_response and expect_inserted_count.
InsertOk(reply, expected) == Believed(reply) /\ reply.n = {expected}

InsertMany(asked) ==
    /\ client = "open"
    /\ \E ids \in WithIds(asked) :
         \/ \E r \in InsertReplies(ids, Inserted(ids)) :
              /\ data' = data \o SubSeq(ids, 1, Inserted(ids))
              /\ insert' = {x \in {ids} : InsertOk(r, Len(x))}
         \/ \E r \in InsertRefusals :
              /\ data' = data
              /\ insert' = {x \in {ids} : InsertOk(r, Len(x))}
    /\ UNCHANGED <<face, client, server, position, cursorVars, jobVars, ghostVars>>

\* The future of an async insert is dropped: it ran, or never will.
InsertDropped(asked) ==
    /\ client = "open"
    /\ face = "async"
    /\ \E ids \in WithIds(asked) : data' \in {data, data \o SubSeq(ids, 1, Inserted(ids))}
    /\ insert' = {}
    /\ UNCHANGED <<face, client, server, position, cursorVars, jobVars, ghostVars>>

-----------------------------------------------------------------------------
(* close *)

\* Nothing borrows a blocking client that is closed; an async one closes
\* under its cursors, once what is already queued has run.
BeginClose ==
    /\ client = "open"
    /\ face = "blocking" => ~held /\ job = {}
    /\ client' = "closing"
    /\ UNCHANGED <<face, data, server, position, cursorVars, jobVars, ghostVars, insert>>

EngineCloses ==
    /\ client = "closing"
    /\ \A j \in job : j.at = "answered"
    /\ orphans = {} /\ kills = {}
    /\ client' = "closed"
    /\ server' = [i \in Ids |-> IF server[i] \in Live THEN "gone" ELSE server[i]]
    /\ position' = [i \in Ids |-> 0]
    /\ UNCHANGED <<face, data, cursorVars, jobVars, ghostVars, insert>>

CursorNext == NextDocument \/ NextNone \/ NextFetches \/ NextRefused \/ FetchAnswered \/ NextDropped

Next ==
    \/ Find \/ FindOne \/ Aggregate \/ FindAsync \/ FindOneAsync \/ AggregateAsync
    \/ QueryRuns \/ QueryAnswered \/ QueryDropped
    \/ CursorNext
    \/ GetMoreStarts \/ GetMoreEnds \/ GetMoreFails
    \/ \E i \in Ids : OrphanEnds(i) \/ OrphanInterrupted(i) \/ KillRuns(i) \/ KillRefused(i)
    \/ DropCursor \/ DropCursorAsync
    \/ \E asked \in Inserts : InsertMany(asked) \/ InsertDropped(asked)
    \/ BeginClose \/ EngineCloses

\* Workers get to every job (WorkerPool), and the engine ends what it runs.
Fairness ==
    /\ WF_vars(QueryRuns)
    /\ WF_vars(GetMoreStarts)
    /\ WF_vars(GetMoreEnds \/ GetMoreFails)
    /\ \A i \in Ids : WF_vars(OrphanEnds(i) \/ OrphanInterrupted(i))
    /\ \A i \in Ids : WF_vars(KillRuns(i) \/ KillRefused(i))
    /\ WF_vars(EngineCloses)

Spec == Init /\ [][Next]_vars /\ Fairness

-----------------------------------------------------------------------------
(* What the API promises *)

\* What the collection held when the query ran was answered, once and in order.
AllAnswered == yielded = SubSeq(data, 1, Len(yielded)) /\ known <= Len(yielded)

\* A cursor that says None, having answered no error and with no batch thrown
\* away by a dropped next(), has answered every document the collection held
\* when the query ran, each once and in order, whatever was inserted
\* meanwhile and however the batches fell.
EndMeansAll == ended /\ ~failed /\ ~skipped => AllAnswered

\* The promise on the async client: "Nothing is lost or corrupted by
\* cancelling ... the reply is discarded".  The reply of a getMore is a batch
\* the server has moved past: next() after a dropped next() goes on behind it,
\* and says None without having answered it (nonblocking/find.rs).
NothingLostByCancelling == ended /\ ~failed => AllAnswered

\* An insert that answers Ok stored every one of its documents, each once
\* and under the id it answered.
InsertOkMeansStored ==
    \A ids \in insert : \A k \in DOMAIN ids :
      /\ \E n \in DOMAIN data : {m \in DOMAIN data : data[m] = ids[k]} = {n}
      /\ \A l \in DOMAIN ids : ids[l] = ids[k] => l = k

Named(i) == i = id \/ \E j \in job : j.id = i

\* A server cursor that no Cursor and no pending command names any more is
\* closed in the end: the kill a drop sends is not lost to a getMore still
\* running, to a finished or failed iteration, or to a close.  Those whose
\* id never reached a Cursor, or whose kill the engine refused, are left to
\* the engine's own timeout.
CursorsReclaimed ==
    \A i \in Ids : (server[i] \in Live /\ ~Named(i)) ~> (server[i] \notin Live \/ i \in leaked)

=============================================================================
