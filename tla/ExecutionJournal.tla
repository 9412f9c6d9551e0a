-------------------------- MODULE ExecutionJournal --------------------------
(***************************************************************************)
(* The execution journal: one sequence of events for each execution tree,  *)
(* written by executors, replayed by recovery (stream_from) and followed   *)
(* by clients that watch a run (follow, get_run_events).  Three            *)
(* implementations of one trait: in memory                                 *)
(* (stepflow-state/src/in_memory.rs), SQL                                  *)
(* (stepflow-state-sql/src/sql_state_store.rs) and NATS JetStream          *)
(* (stepflow-nats/src/nats_journal.rs).                                    *)
(*                                                                         *)
(* Two executors may write to one journal: an orchestrator that lost its   *)
(* lease goes on while another one has claimed its run.                    *)
(***************************************************************************)
EXTENDS Naturals, FiniteSets, FiniteSetsExt

CONSTANTS
    Backend,        \* the implementations to consider
    Root,           \* root runs, the keys of the journals
    Event,          \* of a root, [runs |-> the runs an event tells of,
                    \*             completed |-> the run it completes, or None]
    Writer,         \* executors
    Reader,         \* recoveries and watching clients
    None,
    BatchSize,      \* BATCH_SIZE: rows that stream_from reads at a time
    From,           \* sequence numbers that streams may begin at
    MaxEntries,     \* bounds the entries of a journal, and of other journals
    MaxDisconnects  \* bounds the lost connections of a client

ASSUME JournalAssumption ==
    /\ Backend \subseteq {"memory", "sql", "nats"}
    /\ BatchSize \in Nat \ {0}
    /\ From \subseteq Nat
    /\ MaxEntries \in Nat
    /\ MaxDisconnects \in Nat

VARIABLES
    backend,        \* the implementation, which does not change
    journal,        \* of a root: its entries, [seq, event]
    published,      \* NATS: the last sequence number of the shared stream
    writers,        \* where each executor is in a call of write
    readers,        \* where each stream is
    acked           \* history: of a root, the entries whose write returned Ok

vars == <<backend, journal, published, writers, readers, acked>>

Ready == [at |-> "ready", root |-> None, event |-> None, next |-> 0]
Failed == [Ready EXCEPT !.at = "failed"]
Closed == [at |-> "closed", replay |-> FALSE, root |-> None, run |-> None, subs |-> FALSE,
           from |-> 0, cursor |-> 0, batch |-> {}, final |-> FALSE, part |-> {}, seen |-> {},
           last |-> 0, known |-> {}, disconnects |-> 0]

Init ==
    /\ backend \in Backend
    /\ journal = [r \in Root |-> {}]
    /\ published = 0
    /\ writers = [w \in Writer |-> Ready]
    /\ readers = [q \in Reader |-> Closed]
    /\ acked = [r \in Root |-> {}]

Runs(r) == UNION {e.runs : e \in Event[r]}

Entry(n, e) == [seq |-> n, event |-> e]
Seqs(r) == {x.seq : x \in journal[r]}

-----------------------------------------------------------------------------
(* write.                                                                  *)
SetWriter(w, s) == writers' = [writers EXCEPT ![w] = s]

Append(r, n, e) == journal' = [journal EXCEPT ![r] = @ \union {Entry(n, e)}]
Acknowledge(r, n, e) == acked' = [acked EXCEPT ![r] = @ \union {Entry(n, e)}]

MayWrite(w, r) == writers[w].at = "ready" /\ Cardinality(journal[r]) < MaxEntries

(* In memory: under the lock of the journal, at its length.                *)
WriteInMemory(w, r, e) ==
    /\ backend = "memory"
    /\ MayWrite(w, r)
    /\ Append(r, Cardinality(journal[r]), e)
    /\ Acknowledge(r, Cardinality(journal[r]), e)
    /\ UNCHANGED <<backend, published, writers, readers>>

(* SQL: SELECT MAX(sequence), from -1 for none ...                         *)
NextSeq(r) == IF journal[r] = {} THEN 0 ELSE Max(Seqs(r)) + 1

SelectMax(w, r, e) ==
    /\ backend = "sql"
    /\ MayWrite(w, r)
    /\ SetWriter(w, [at |-> "inserting", root |-> r, event |-> e, next |-> NextSeq(r)])
    /\ UNCHANGED <<backend, journal, published, readers, acked>>

(* ... and then INSERT, which fails if the primary key, root and sequence, *)
(* is taken; the error ends the executor.                                  *)
(* Faulty variant, to test the properties: INSERT OR REPLACE.              *)
InsertOrReplace(w) ==
    LET s == writers[w] IN
    /\ s.at = "inserting"
    /\ journal' = [journal EXCEPT ![s.root] =
                     {x \in @ : x.seq # s.next} \union {Entry(s.next, s.event)}]
    /\ SetWriter(w, [s EXCEPT !.at = "written"])
    /\ UNCHANGED <<backend, published, readers, acked>>

Insert(w) ==
    LET s == writers[w] IN
    /\ s.at = "inserting"
    /\ IF s.next \in Seqs(s.root)
       THEN SetWriter(w, Failed) /\ UNCHANGED journal
       ELSE SetWriter(w, [s EXCEPT !.at = "written"]) /\ Append(s.root, s.next, s.event)
    /\ UNCHANGED <<backend, published, readers, acked>>

(* NATS: all journals share one stream, whose sequence they take.          *)
Publish(w, r, e) ==
    /\ backend = "nats"
    /\ MayWrite(w, r)
    /\ published' = published + 1
    /\ Append(r, published + 1, e)
    /\ SetWriter(w, [at |-> "written", root |-> r, event |-> e, next |-> published + 1])
    /\ UNCHANGED <<backend, readers, acked>>

(* Runs that nobody here watches write to the same stream.                 *)
PublishElsewhere ==
    /\ backend = "nats"
    /\ published <= MaxEntries
    /\ published' = published + 1
    /\ UNCHANGED <<backend, journal, writers, readers, acked>>

(* The answer of the server, unless the connection fails: then the entry   *)
(* is there and the writer takes it for not written.                       *)
Acked(w) ==
    LET s == writers[w] IN
    /\ s.at = "written"
    /\ Acknowledge(s.root, s.next, s.event)
    /\ SetWriter(w, Ready)
    /\ UNCHANGED <<backend, journal, published, readers>>

AckLost(w) ==
    /\ writers[w].at = "written"
    /\ SetWriter(w, Failed)
    /\ UNCHANGED <<backend, journal, published, readers, acked>>

-----------------------------------------------------------------------------
(* stream_from and follow.  A replay is bounded: it reads every run of the *)
(* tree and ends with the journal.  A client watches one run, with or      *)
(* without its subflows, and does not end before the run does.             *)
SetReader(q, s) == readers' = [readers EXCEPT ![q] = s]

OpenReplay(q, r, n) ==
    /\ readers[q] = Closed
    /\ SetReader(q, [Closed EXCEPT !.at = "fetching", !.replay = TRUE, !.root = r, !.subs = TRUE,
                                   !.from = n, !.cursor = n, !.last = n, !.known = acked[r]])
    /\ UNCHANGED <<backend, journal, published, writers, acked>>

Watch(q, r, run, subs, n) ==
    /\ readers[q] = Closed
    /\ SetReader(q, [Closed EXCEPT !.at = "fetching", !.root = r, !.run = run, !.subs = subs,
                                   !.from = n, !.cursor = n, !.last = n])
    /\ UNCHANGED <<backend, journal, published, writers, acked>>

(* SQL reads batches; NATS follows message by message; the rest are        *)
(* snapshots.                                                              *)
Limit(q) ==
    CASE backend = "sql" -> BatchSize
      [] backend = "nats" /\ ~readers[q].replay -> 1
      [] OTHER -> MaxEntries + 1

Available(q) == {x \in journal[readers[q].root] : x.seq >= readers[q].cursor}
Earlier(S, x) == {y \in S : y.seq < x.seq}
First(S, k) == {x \in S : Cardinality(Earlier(S, x)) < k}

(* Faulty variant, to test the properties: only one batch is replayed.     *)
FetchOneBatch(q) ==
    LET rows == First(Available(q), Limit(q)) IN
    /\ readers[q].at = "fetching"
    /\ rows # {} \/ readers[q].replay
    /\ SetReader(q, [readers[q] EXCEPT
         !.at = IF rows = {} THEN "done" ELSE "sending",
         !.batch = rows,
         !.final = readers[q].replay,
         !.part = {}])
    /\ UNCHANGED <<backend, journal, published, writers, acked>>

(* A replay ends with a batch that is not full; follow asks again, at      *)
(* every 500 ms if there is nothing new.                                   *)
Fetch(q) ==
    LET rows == First(Available(q), Limit(q)) IN
    /\ readers[q].at = "fetching"
    /\ rows # {} \/ readers[q].replay
    /\ SetReader(q, [readers[q] EXCEPT
         !.at = IF rows = {} THEN "done" ELSE "sending",
         !.batch = rows,
         !.final = readers[q].replay /\ Cardinality(rows) < Limit(q),
         !.part = {}])
    /\ UNCHANGED <<backend, journal, published, writers, acked>>

(* An entry becomes an event for each run that it tells of; a client is    *)
(* sent those that it asked for, one by one.                               *)
Wanted(q, x) == IF readers[q].subs THEN x.event.runs ELSE x.event.runs \intersect {readers[q].run}

IsHead(q, x) ==
    readers[q].at = "sending" /\ x \in readers[q].batch /\ Earlier(readers[q].batch, x) = {}

SendEvent(q, x, run) ==
    /\ IsHead(q, x)
    /\ run \in Wanted(q, x) \ readers[q].part
    /\ SetReader(q, [readers[q] EXCEPT
         !.part = @ \union {run},
         !.seen = @ \union {<<x.seq, run>>},
         !.last = x.seq])
    /\ UNCHANGED <<backend, journal, published, writers, acked>>

(* On to the next entry.  A client's stream is over when its run is.       *)
Onward(s, x) ==
    IF ~s.replay /\ x.event.completed = s.run THEN "done"
    ELSE IF s.batch # {x} THEN "sending"
    ELSE IF s.final THEN "done" ELSE "fetching"

NextEntry(q, x) ==
    /\ IsHead(q, x)
    /\ Wanted(q, x) \subseteq readers[q].part
    /\ SetReader(q, [readers[q] EXCEPT !.at = Onward(readers[q], x), !.cursor = x.seq + 1,
                                       !.batch = @ \ {x}, !.part = {}])
    /\ UNCHANGED <<backend, journal, published, writers, acked>>

(* A client whose connection is lost watches again from the last sequence  *)
(* number it has seen (Last-Event-ID).                                     *)
(* Faulty variant, to test the properties: from the end onwards.           *)
ReconnectAtEnd(q) ==
    LET s == readers[q] IN
    /\ s.at \in {"fetching", "sending"} /\ ~s.replay
    /\ s.disconnects < MaxDisconnects
    /\ SetReader(q, [s EXCEPT !.at = "fetching", !.cursor = NextSeq(s.root),
                              !.batch = {}, !.part = {}, !.disconnects = @ + 1])
    /\ UNCHANGED <<backend, journal, published, writers, acked>>

Reconnect(q) ==
    LET s == readers[q] IN
    /\ s.at \in {"fetching", "sending"} /\ ~s.replay
    /\ s.disconnects < MaxDisconnects
    /\ SetReader(q, [s EXCEPT !.at = "fetching", !.cursor = s.last,
                              !.batch = {}, !.part = {}, !.disconnects = @ + 1])
    /\ UNCHANGED <<backend, journal, published, writers, acked>>

-----------------------------------------------------------------------------
Write(w) ==
    \/ \E r \in Root : \E e \in Event[r] :
         WriteInMemory(w, r, e) \/ SelectMax(w, r, e) \/ Publish(w, r, e)
    \/ Insert(w) \/ Acked(w) \/ AckLost(w)

Open(q) ==
    \E r \in Root, n \in From :
        \/ OpenReplay(q, r, n)
        \/ \E run \in Runs(r), subs \in BOOLEAN : Watch(q, r, run, subs, n)

Read(q) ==
    \/ Fetch(q)
    \/ \E x \in readers[q].batch : NextEntry(q, x) \/ \E run \in x.event.runs : SendEvent(q, x, run)

Next ==
    \/ \E w \in Writer : Write(w)
    \/ PublishElsewhere
    \/ \E q \in Reader : Open(q) \/ Read(q) \/ Reconnect(q)

(* A stream that can go on does.                                           *)
Fairness == \A q \in Reader : WF_vars(Read(q))

Spec == Init /\ [][Next]_vars /\ Fairness

-----------------------------------------------------------------------------
JournalTypeOK ==
    /\ backend \in Backend
    /\ \A r \in Root : \A x \in journal[r] : x.seq \in Nat /\ x.event \in Event[r]
    /\ published \in Nat
    /\ \A w \in Writer : writers[w].next \in Nat
    /\ \A q \in Reader : readers[q].cursor \in Nat /\ readers[q].batch \subseteq
                           (IF readers[q].root = None THEN {} ELSE journal[readers[q].root])

(* Each append to a journal gets a sequence number of its own, and what    *)
(* was acknowledged to a writer stays as it was written, although two      *)
(* writers may choose a number at the same time.                           *)
AckedEntriesStay ==
    /\ \A r \in Root : \A x, y \in journal[r] : x.seq = y.seq => x = y
    /\ \A r \in Root : acked[r] \subseteq journal[r]

(* No entry is added below a cursor: every reader has seen all events of   *)
(* its runs between where it began and where it is, over any number of     *)
(* batches, polls and connections.                                         *)
ReadersMissNothing ==
    \A q \in Reader : readers[q].at # "closed" =>
        \A x \in journal[readers[q].root] : \A run \in Wanted(q, x) :
            readers[q].from <= x.seq /\ x.seq < readers[q].cursor => <<x.seq, run>> \in readers[q].seen

(* A replay that is over has read everything that was acknowledged when it *)
(* began, from its first sequence number on.                               *)
ReplaySeesWhatWasAcked ==
    \A q \in Reader : readers[q].replay /\ readers[q].at = "done" =>
        \A x \in readers[q].known : \A run \in x.event.runs :
            readers[q].from <= x.seq => <<x.seq, run>> \in readers[q].seen

(* A client that watches a run whose completion is in the journal, not     *)
(* before the number it asked for, gets to the end of its stream.          *)
Ends(q) ==
    \E x \in journal[readers[q].root] :
        x.event.completed = readers[q].run /\ x.seq >= readers[q].from

EveryWatchEnds ==
    \A q \in Reader :
        (readers[q].at # "closed" /\ ~readers[q].replay /\ Ends(q)) ~> readers[q].at = "done"
=============================================================================
