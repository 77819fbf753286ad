---------------------------- MODULE TrainingEvents ----------------------------
(* The way of a training event: the reporter of a worker's rank (a bounded queue, *)
(* a delivery thread, a write-ahead log), the gateway call that numbers a batch   *)
(* in the database, appends it to the job's Redis stream and applies it to the    *)
(* job, the archiver that copies the stream to object storage, and a client that  *)
(* follows the stream and reconnects.                                             *)
(*                                                                                *)
(* Abstracted: events are durable (error, checkpoint, evaluation) or metrics, of  *)
(* one coalescing key; batches leave when the delivery thread likes; back-off,    *)
(* heartbeats and the trimming of the stream at 250 000 events are left out.      *)
(* What an applied event does to the job is TrainingControl's.                    *)
EXTENDS Integers, Sequences, FiniteSets, SequencesExt

CONSTANTS
    Ranks,       \* ranks of one attempt, each with its reporter
    Requests,    \* calls of the gateway that may be running
    MaxEvents,   \* bound: events a rank emits
    QueueSize,   \* capacity of a reporter's queue
    BatchSize,   \* events of a request, and of a chunk of the archive
    MaxFailures, \* bound: timeouts, deaths, lost connections
    NoRank

ASSUME EventsAssumption == {QueueSize, BatchSize} \subseteq Nat \ {0} /\ NoRank \notin Ranks

VARIABLES
    reporter,  \* the reporters
    request,   \* the calls of the gateway
    ingress,   \* training_event_ingress: the numbered events, in order
    stream,    \* the stream of the job: numbers of events
    archive,   \* the chunks in object storage
    archiver,  \* the archiver: its cursor, its snapshot of it, the rows it read
    client,    \* a follower of the stream
    failures

eventVars == <<reporter, request, ingress, stream, archive, archiver, client, failures>>

Quiet == [emitted |-> <<>>, queue |-> <<>>, coalesced |-> {}, wal |-> <<>>,
          sending |-> <<>>, replay |-> 0, kept |-> <<>>, lost |-> {}]
NoRequest == [pc |-> "idle", from |-> NoRank, batch |-> <<>>, numbers |-> <<>>]

EventsInit ==
    /\ reporter = [r \in Ranks |-> Quiet]
    /\ request = [q \in Requests |-> NoRequest]
    /\ ingress = <<>>
    /\ stream = <<>>
    /\ archive = {}
    /\ archiver = [pc |-> "idle", cursor |-> 0, from |-> 0, rows |-> <<>>]
    /\ client = [cursor |-> 0, acked |-> 0, rows |-> <<>>, got |-> <<>>]
    /\ failures = 0

(* The members of a sequence that belong to a set, in their order.                *)
Those(s, S) ==
    LET kept[i \in 0..Len(s)] == IF i = 0 THEN <<>>
                                 ELSE IF s[i] \in S THEN Append(kept[i - 1], s[i]) ELSE kept[i - 1]
    IN  kept[Len(s)]

EventFault == failures < MaxFailures /\ failures' = failures + 1
Report(r, new) == reporter' = [reporter EXCEPT ![r] = new]
Contents(batches) == UNION {ToSet(batch) : batch \in ToSet(batches)}

--------------------------------------------------------------------------------
(* The reporter.  An event goes to the queue; when it is full, a durable one to   *)
(* the log, and a metric replaces the one that is coalesced.  The log is locked   *)
(* while it is replayed.                                                          *)
Event(r, n, durable) == [rank |-> r, source |-> n, durable |-> durable]
Full(r) == Len(reporter[r].queue) = QueueSize

\* Mutant: a full queue drops events.
DropsWhenFull(me, e) == me
Overflow(me, e) ==
    IF e.durable THEN [me EXCEPT !.wal = Append(@, <<e>>)]
                 ELSE [me EXCEPT !.coalesced = {e}]

Emit(r) ==
    /\ Len(reporter[r].emitted) < MaxEvents
    /\ \E durable \in BOOLEAN :
          LET e  == Event(r, Len(reporter[r].emitted) + 1, durable)
              me == [reporter[r] EXCEPT !.emitted = Append(@, durable)]
          IN  IF Full(r)
              THEN (durable => me.replay = 0) /\ Report(r, Overflow(me, e))
              ELSE Report(r, [me EXCEPT !.queue = Append(@, e)])
    /\ UNCHANGED <<request, ingress, stream, archive, archiver, client, failures>>

(* A batch, or the next row of the log, is posted to a gateway.                   *)
Delivering(r) == reporter[r].sending # <<>>
PostsBatch(r, q, batch) ==
    /\ request[q].pc = "idle"
    /\ request' = [request EXCEPT ![q] = [NoRequest EXCEPT !.pc = "begun", !.from = r, !.batch = batch]]

NextBatch(r) ==
    LET n == IF Len(reporter[r].queue) < BatchSize THEN Len(reporter[r].queue) ELSE BatchSize
    IN  [batch |-> SubSeq(reporter[r].queue, 1, n)
                     \o (IF n < BatchSize THEN SetToSeq(reporter[r].coalesced) ELSE <<>>),
         queue |-> SubSeq(reporter[r].queue, n + 1, Len(reporter[r].queue)),
         coalesced |-> IF n < BatchSize THEN {} ELSE reporter[r].coalesced]

Flush(r) ==
    /\ ~Delivering(r) /\ reporter[r].replay = 0
    /\ reporter[r].queue # <<>> \/ reporter[r].coalesced # {}
    /\ \E q \in Requests : PostsBatch(r, q, NextBatch(r).batch)
    /\ Report(r, [reporter[r] EXCEPT !.queue = NextBatch(r).queue, !.coalesced = NextBatch(r).coalesced,
                                     !.sending = NextBatch(r).batch])
    /\ UNCHANGED <<ingress, stream, archive, archiver, client, failures>>

(* _replay_wal posts row after row and then replaces the log by the rows that     *)
(* were not taken.                                                                *)
ReplayLog(r) ==
    LET me == reporter[r] IN
    /\ ~Delivering(r) /\ me.replay < Len(me.wal)
    /\ \E q \in Requests : PostsBatch(r, q, me.wal[me.replay + 1])
    /\ Report(r, [me EXCEPT !.replay = @ + 1, !.sending = me.wal[me.replay + 1]])
    /\ UNCHANGED <<ingress, stream, archive, archiver, client, failures>>

Trims(me) == [me EXCEPT !.wal = me.kept, !.kept = <<>>, !.replay = 0]

EndReplay(r) ==
    LET me == reporter[r] IN
    /\ ~Delivering(r) /\ me.wal # <<>> /\ me.replay = Len(me.wal)
    /\ Report(r, Trims(me))
    /\ UNCHANGED <<request, ingress, stream, archive, archiver, client, failures>>

(* What the reporter does of an answer: taken, it is done with the batch; else    *)
(* it writes it to the log, or keeps its row there.                               *)
Taken(me) == [me EXCEPT !.sending = <<>>]
Logged(me) == IF me.replay = 0 THEN [Taken(me) EXCEPT !.wal = Append(@, me.sending)]
                               ELSE [Taken(me) EXCEPT !.kept = Append(@, me.sending)]
Waits(q) == request[q].from \in Ranks /\ reporter[request[q].from].sending # <<>>

EndsCall(q, outcome) ==
    /\ request' = [request EXCEPT ![q] = NoRequest]
    /\ IF Waits(q)
       THEN LET me == reporter[request[q].from]
            IN  Report(request[q].from, IF outcome = "taken" THEN Taken(me) ELSE Logged(me))
       ELSE UNCHANGED reporter

(* httpx gives up after 10 s; the gateway goes on with the call.                  *)
TimesOut(q) ==
    /\ Waits(q) /\ EventFault
    /\ Report(request[q].from, Logged(reporter[request[q].from]))
    /\ request' = [request EXCEPT ![q].from = NoRank]
    /\ UNCHANGED <<ingress, stream, archive, archiver, client>>

(* The process of the rank ends; another one finds its log.                       *)
ReporterDies(r) ==
    LET me == reporter[r] IN
    /\ EventFault
    /\ Report(r, [Quiet EXCEPT !.emitted = me.emitted, !.wal = me.wal,
                               !.lost = me.lost \union ToSet(me.queue)
                                            \union (IF me.replay = 0 THEN ToSet(me.sending) ELSE {})])
    /\ request' = [q \in Requests |-> IF request[q].from = r THEN [request[q] EXCEPT !.from = NoRank]
                                                             ELSE request[q]]
    /\ UNCHANGED <<ingress, stream, archive, archiver, client>>

--------------------------------------------------------------------------------
(* ingest_events.  One transaction numbers the events that have no number; the    *)
(* others are duplicates.                                                         *)
Unnumbered(batch) == Those(batch, ToSet(batch) \ ToSet(ingress))

NumberEvents(q) ==
    LET fresh == Unnumbered(request[q].batch) IN
    /\ request[q].pc = "begun"
    /\ ingress' = ingress \o fresh
    /\ request' = [request EXCEPT ![q].pc = "numbered",
                                  ![q].numbers = [i \in DOMAIN fresh |-> Len(ingress) + i]]
    /\ UNCHANGED <<reporter, stream, archive, archiver, client, failures>>

(* Redis takes an entry only if its id is above the last one of the stream; the   *)
(* append fails when an entry of it was refused.                                  *)
Above(n, s) == s = <<>> \/ n > Last(s)
Accepts(n, s) == Above(n, s)

PublishEvents(q) ==
    LET taken == Those(request[q].numbers, {n \in ToSet(request[q].numbers) : Accepts(n, stream)}) IN
    /\ request[q].pc = "numbered"
    /\ stream' = stream \o taken
    /\ IF taken = request[q].numbers
       THEN request' = [request EXCEPT ![q].pc = "published"] /\ UNCHANGED reporter
       ELSE EndsCall(q, "failed")
    /\ UNCHANGED <<ingress, archive, archiver, client, failures>>

(* The job's state follows, or a version conflict fails the call after its        *)
(* events went out.                                                               *)
AnswerCall(q) ==
    /\ request[q].pc = "published"
    /\ \E outcome \in {"taken", "failed"} :
          (outcome = "failed" => request[q].numbers # <<>>) /\ EndsCall(q, outcome)
    /\ UNCHANGED <<ingress, stream, archive, archiver, client, failures>>

(* The connection fails, the gateway or Redis does.                               *)
CallFails(q) ==
    /\ request[q].pc # "idle" /\ EventFault
    /\ EndsCall(q, "failed")
    /\ UNCHANGED <<ingress, stream, archive, archiver, client>>

--------------------------------------------------------------------------------
(* Readers of the stream.                                                         *)
After(cursor) == Those(stream, {n \in ToSet(stream) : n > cursor})
Chunk(s) == SubSeq(s, 1, IF Len(s) < BatchSize THEN Len(s) ELSE BatchSize)

(* archive_job: read a chunk, store it, move the cursor of the job, which must    *)
(* not move back or pass the last number.                                         *)
Archiver(new) == archiver' = new
ReadChunk ==
    /\ archiver.pc = "idle" /\ After(archiver.cursor) # <<>>
    /\ Archiver([archiver EXCEPT !.pc = "read", !.rows = Chunk(After(archiver.cursor))])
    /\ UNCHANGED <<reporter, request, ingress, stream, archive, client, failures>>

StoreChunk ==
    /\ archiver.pc = "read"
    /\ archive' = archive \union {archiver.rows}
    /\ Archiver([archiver EXCEPT !.pc = "stored"])
    /\ UNCHANGED <<reporter, request, ingress, stream, client, failures>>

ChunkEnd(rows) == Last(rows)

MoveCursor ==
    /\ archiver.pc = "stored"
    /\ Archiver([archiver EXCEPT !.pc = "idle", !.rows = <<>>, !.cursor = ChunkEnd(archiver.rows)])
    /\ UNCHANGED <<reporter, request, ingress, stream, archive, client, failures>>

ArchiverDies ==
    /\ archiver.pc # "idle" /\ EventFault
    /\ Archiver([archiver EXCEPT !.pc = "idle", !.rows = <<>>])
    /\ UNCHANGED <<reporter, request, ingress, stream, archive, client>>

(* stream_events reads after its cursor and yields row by row; the client comes   *)
(* back with the Last-Event-ID it has.                                            *)
ReadRows ==
    /\ client.rows = <<>> /\ After(client.cursor) # <<>>
    /\ client' = [client EXCEPT !.rows = Chunk(After(client.cursor))]
    /\ UNCHANGED <<reporter, request, ingress, stream, archive, archiver, failures>>

Yield ==
    /\ client.rows # <<>>
    /\ client' = [client EXCEPT !.cursor = IF @ > Head(client.rows) THEN @ ELSE Head(client.rows),
                                !.acked = Head(client.rows),
                                !.rows = Tail(@), !.got = Append(@, Head(client.rows))]
    /\ UNCHANGED <<reporter, request, ingress, stream, archive, archiver, failures>>

Reconnect ==
    /\ client.rows # <<>> /\ EventFault
    /\ client' = [client EXCEPT !.cursor = client.acked, !.rows = <<>>]
    /\ UNCHANGED <<reporter, request, ingress, stream, archive, archiver>>

--------------------------------------------------------------------------------
ReporterNext == \E r \in Ranks : Emit(r) \/ Flush(r) \/ ReplayLog(r) \/ EndReplay(r) \/ ReporterDies(r)
IngestNext == \E q \in Requests : NumberEvents(q) \/ PublishEvents(q) \/ AnswerCall(q) \/ TimesOut(q) \/ CallFails(q)
ArchiverNext == ReadChunk \/ StoreChunk \/ MoveCursor \/ ArchiverDies
ClientNext == ReadRows \/ Yield \/ Reconnect

EventsNext == ReporterNext \/ IngestNext \/ ArchiverNext \/ ClientNext
EventsSpec == EventsInit /\ [][EventsNext]_eventVars

--------------------------------------------------------------------------------
(* Types of the reporters, the calls and the readers' places.                     *)
EventsTypeOK ==
    /\ \A r \in Ranks : Len(reporter[r].queue) <= QueueSize /\ reporter[r].replay <= Len(reporter[r].wal)
    /\ \A q \in Requests : request[q].pc \in {"idle", "begun", "numbered", "published"}
    /\ ToSet(stream) \subseteq DOMAIN ingress
    /\ {archiver.cursor, client.cursor} \subseteq 0..Len(ingress)

(* A reporter forgets no durable event: until the gateway has numbered it, it is  *)
(* in the queue, in the log or in a request that is waited for, whatever timed    *)
(* out, was refused or overflowed, unless the process ended with it in memory.    *)
Held(r) == LET me == reporter[r]
           IN  ToSet(me.queue \o me.sending) \union Contents(me.wal) \union me.lost
NothingForgotten ==
    \A r \in Ranks :
        LET known == Held(r) \union ToSet(ingress)
        IN  \A n \in DOMAIN reporter[r].emitted :
                reporter[r].emitted[n] => Event(r, n, TRUE) \in known

(* The stream holds no event twice, however often it was sent; and whoever        *)
(* follows it misses no entry below its cursor, although numbers are given and    *)
(* published in different orders: the archive up to the cursor of the job, and a  *)
(* client, each entry once and in order, across reconnections.                    *)
FollowersMissNothing ==
    /\ \A m, n \in ToSet(stream) : ingress[m] = ingress[n] => m = n
    /\ \A n \in ToSet(stream) : n <= archiver.cursor => \E chunk \in archive : n \in ToSet(chunk)
    /\ client.got = Those(stream, {n \in ToSet(stream) : n <= client.acked})

(* What is to be kept arrives, once and in order: both of these.                  *)
EventsArrive == NothingForgotten /\ FollowersMissNothing

(* Expected to fail.  "Error, checkpoint, and evaluation events are persisted to  *)
(* WAL rather than dropped" and "WAL replay is safe after an ambiguous network    *)
(* response" (docs/craftly_complete_architecture_manual.md:3944, 3949): once no   *)
(* call is running, a durable event that was numbered is in the stream.           *)
ReplayIsSafe ==
    (\A q \in Requests : request[q].pc = "idle") =>
        \A n \in DOMAIN ingress : ingress[n].durable => n \in ToSet(stream)
================================================================================
