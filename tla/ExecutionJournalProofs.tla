----------------------- MODULE ExecutionJournalProofs -----------------------
(***************************************************************************)
(* The safety of the execution journal, for any number of writers, readers,*)
(* entries and connections and for each implementation: what was           *)
(* acknowledged stays, no reader misses an entry, and a replay gets all    *)
(* that was acknowledged before it.  The proofs rest on one fact: an entry *)
(* is only ever added behind all others of its journal.                    *)
(***************************************************************************)
EXTENDS ExecutionJournal, FiniteSetTheorems, WellFoundedInduction, TLAPS

AnEvent == UNION {Event[r] : r \in Root}
AnEntry == [seq : Nat, event : AnEvent]

(* In memory and in SQL, the sequence numbers of a journal have no gaps.   *)
Numbering(r) ==
    /\ IsFiniteSet(journal[r])
    /\ backend # "nats" => Seqs(r) = 0..(Cardinality(journal[r]) - 1)
    /\ backend = "nats" => \A x \in journal[r] : x.seq <= published

OneEntryPerSeq(r) == \A x, y \in journal[r] : x.seq = y.seq => x = y

(* What a writer has chosen is free or behind the end; what it has written *)
(* is there.                                                               *)
WriterInv(w) ==
    LET s == writers[w] IN
    /\ s \in [at : {"ready", "inserting", "written", "failed"}, root : Root \union {None},
              event : AnEvent \union {None}, next : Nat]
    /\ s.at \in {"inserting", "written"} => s.root \in Root /\ s.event \in Event[s.root]
    /\ s.at = "inserting" => backend = "sql" /\ s.next <= Cardinality(journal[s.root])
    /\ s.at = "written" => Entry(s.next, s.event) \in journal[s.root]

(* A position that the journal has reached, or the one the reader asked    *)
(* for.                                                                    *)
Reached(s, n) == n = s.from \/ \E x \in journal[s.root] : n <= x.seq + 1

(* Nothing is left out of a batch below one of its entries, and what is    *)
(* below the cursor has been seen.                                         *)
ReaderInv(q) ==
    LET s == readers[q] IN
    s.at # "closed" =>
        /\ s.root \in Root
        /\ s.from \in Nat /\ s.cursor \in Nat /\ s.last \in Nat
        /\ s.batch \subseteq journal[s.root]
        /\ s.at = "fetching" => s.batch = {}
        /\ \A x \in s.batch : s.cursor <= x.seq
        /\ \A x \in journal[s.root], y \in s.batch :
             s.cursor <= x.seq /\ x.seq < y.seq => x \in s.batch
        /\ \A x \in s.batch : Earlier(s.batch, x) = {} =>
             \A run \in s.part : <<x.seq, run>> \in s.seen
        /\ s.last <= s.cursor \/ \E x \in s.batch : Earlier(s.batch, x) = {} /\ s.last = x.seq
        /\ Reached(s, s.cursor) /\ Reached(s, s.last)
        /\ \A x \in journal[s.root] : \A run \in Wanted(q, x) :
             s.from <= x.seq /\ x.seq < s.cursor => <<x.seq, run>> \in s.seen

Types ==
    /\ backend \in {"memory", "sql", "nats"}
    /\ published \in Nat
    /\ journal \in [Root -> SUBSET AnEntry]
    /\ acked \in [Root -> SUBSET AnEntry]
    /\ DOMAIN writers = Writer /\ DOMAIN readers = Reader

JInv ==
    /\ Types
    /\ \A r \in Root : Numbering(r) /\ OneEntryPerSeq(r) /\ acked[r] \subseteq journal[r]
    /\ \A w \in Writer : WriterInv(w)
    /\ \A q \in Reader : ReaderInv(q)

USE DEF Numbering, OneEntryPerSeq, Types, AnEntry, AnEvent

-----------------------------------------------------------------------------
(* Adding an entry behind all others.                                      *)
Behind(r, n) == \A x \in journal[r] : x.seq < n

LEMMA AppendKeepsReaders ==
    ASSUME JInv, NEW r \in Root, NEW n \in Nat, NEW e \in Event[r],
           Behind(r, n), Append(r, n, e), UNCHANGED readers
    PROVE  \A q \in Reader : ReaderInv(q)'
<1> SUFFICES ASSUME NEW q \in Reader, readers[q].at # "closed"
             PROVE  ReaderInv(q)'
  BY DEF ReaderInv
<1> DEFINE s == readers[q]
           new == Entry(n, e)
<1>1. ReaderInv(q)
  BY DEF JInv
<1>2. s.root \in Root /\ s.from \in Nat /\ s.cursor \in Nat /\ s.last \in Nat
  BY <1>1 DEF ReaderInv
<1>3. CASE s.root # r
  <2>1. journal'[s.root] = journal[s.root]
    BY <1>2, <1>3 DEF Append, JInv
  <2> QED BY <1>1, <2>1 DEF ReaderInv, Reached, Earlier, Wanted
<1>4. CASE s.root = r
  <2>1. journal'[r] = journal[r] \union {new}
    BY DEF Append, JInv
  <2>2. new.seq = n /\ \A x \in journal[r] : x.seq \in Nat /\ x.seq < n
    BY DEF Entry, Behind, JInv
  <2>3. \A x \in journal'[r], y \in s.batch :
           s.cursor <= x.seq /\ x.seq < y.seq => x \in s.batch
    BY <1>1, <1>4, <2>1, <2>2 DEF ReaderInv
  <2>4. ~(s.from <= n /\ n < s.cursor)
    BY <1>1, <1>2, <1>4, <2>2 DEF ReaderInv, Reached
  <2>5. \A x \in journal'[r] : \A run \in Wanted(q, x) :
           s.from <= x.seq /\ x.seq < s.cursor => <<x.seq, run>> \in s.seen
    BY <1>1, <1>4, <2>1, <2>2, <2>4 DEF ReaderInv
  <2>6. Reached(s, s.cursor)' /\ Reached(s, s.last)'
    BY <1>1, <1>4, <2>1 DEF ReaderInv, Reached
  <2> QED BY <1>1, <1>4, <2>1, <2>3, <2>5, <2>6 DEF ReaderInv, Earlier, Wanted
<1> QED BY <1>3, <1>4

LEMMA AppendKeepsEntries ==
    ASSUME JInv, NEW r \in Root, NEW n \in Nat, NEW e \in Event[r],
           Behind(r, n), Append(r, n, e)
    PROVE  /\ journal' \in [Root -> SUBSET AnEntry]
           /\ Entry(n, e) \in journal'[r]
           /\ \A q \in Root : journal[q] \subseteq journal'[q] /\ OneEntryPerSeq(q)'
           /\ \A q \in Root : IsFiniteSet(journal'[q])
           /\ \A q \in Root : Cardinality(journal[q]) \in Nat
           /\ \A q \in Root \ {r} : journal'[q] = journal[q]
           /\ Cardinality(journal'[r]) = Cardinality(journal[r]) + 1
           /\ Seqs(r)' = Seqs(r) \union {n}
<1>1. journal' = [journal EXCEPT ![r] = journal[r] \union {Entry(n, e)}]
  BY DEF Append
<1>2. Entry(n, e) \in AnEntry /\ Entry(n, e).seq = n
  BY DEF Entry
<1>3. Entry(n, e) \notin journal[r]
  BY <1>2 DEF Behind, JInv
<1>4. journal' \in [Root -> SUBSET AnEntry] /\ Entry(n, e) \in journal'[r]
  BY <1>1, <1>2 DEF JInv
<1>5. \A q \in Root : journal[q] \subseteq journal'[q] /\ OneEntryPerSeq(q)'
  BY <1>1, <1>2 DEF JInv, Behind
<1>6. \A q \in Root : IsFiniteSet(journal[q]) /\ Cardinality(journal[q]) \in Nat
  BY FS_CardinalityType DEF JInv
<1>7. /\ IsFiniteSet(journal[r] \union {Entry(n, e)})
      /\ Cardinality(journal[r] \union {Entry(n, e)}) = Cardinality(journal[r]) + 1
  BY <1>3, <1>6, FS_AddElement
<1>8. journal'[r] = journal[r] \union {Entry(n, e)} /\ \A q \in Root \ {r} : journal'[q] = journal[q]
  BY <1>1 DEF JInv
<1>9. Seqs(r)' = Seqs(r) \union {n}
  BY <1>2, <1>8 DEF Seqs
<1> QED BY <1>4, <1>5, <1>6, <1>7, <1>8, <1>9

(* Steps that leave the journal alone keep what is said of it.             *)
LEMMA SameJournal ==
    ASSUME JInv, UNCHANGED <<backend, journal, published>>
    PROVE  \A r \in Root : Numbering(r)' /\ OneEntryPerSeq(r)'
BY DEF JInv, Seqs

LEMMA SameReaders ==
    ASSUME JInv, UNCHANGED <<journal, readers>>
    PROVE  \A q \in Reader : ReaderInv(q)'
BY DEF JInv, ReaderInv, Reached, Earlier, Wanted

LEMMA WritersKeepTheirEntries ==
    ASSUME JInv, NEW r \in Root, NEW n \in Nat, NEW e \in Event[r],
           Behind(r, n), Append(r, n, e), UNCHANGED backend,
           NEW w \in Writer, UNCHANGED writers[w]
    PROVE  WriterInv(w)'
<1>1. /\ \A q \in Root : journal[q] \subseteq journal'[q]
      /\ \A q \in Root : Cardinality(journal[q]) \in Nat
      /\ \A q \in Root \ {r} : journal'[q] = journal[q]
      /\ Cardinality(journal'[r]) = Cardinality(journal[r]) + 1
  BY AppendKeepsEntries
<1>2. \A q \in Root : Cardinality(journal[q]) <= Cardinality(journal'[q])
  BY <1>1
<1>3. WriterInv(w)
  BY DEF JInv
<1> QED BY <1>1, <1>2, <1>3 DEF WriterInv, Entry

(* A writer's own step, when the journal stays.                            *)
LEMMA WriterSteps ==
    ASSUME JInv, UNCHANGED <<backend, journal>>, NEW w \in Writer, NEW s, SetWriter(w, s),
           writers'[w] = s => WriterInv(w)'
    PROVE  DOMAIN writers' = Writer /\ \A v \in Writer : WriterInv(v)'
<1>1. DOMAIN writers' = Writer /\ writers'[w] = s
  BY DEF SetWriter, JInv
<1>2. ASSUME NEW v \in Writer, v # w PROVE WriterInv(v)'
  <2>1. writers'[v] = writers[v] /\ WriterInv(v)
    BY <1>2 DEF SetWriter, JInv
  <2> QED BY <2>1 DEF WriterInv
<1> QED BY <1>1, <1>2

(* A reader's own step.                                                    *)
LEMMA ReaderSteps ==
    ASSUME JInv, UNCHANGED <<backend, journal, published, writers, acked>>,
           NEW q \in Reader, NEW s, SetReader(q, s),
           readers'[q] = s => ReaderInv(q)'
    PROVE  JInv'
<1>1. DOMAIN readers' = Reader /\ readers'[q] = s
  BY DEF SetReader, JInv
<1>2. ASSUME NEW v \in Reader, v # q PROVE ReaderInv(v)'
  <2>1. readers'[v] = readers[v] /\ ReaderInv(v)
    BY <1>2 DEF SetReader, JInv
  <2> QED BY <2>1 DEF ReaderInv, Reached, Earlier, Wanted
<1>3. \A r \in Root : Numbering(r)' /\ OneEntryPerSeq(r)'
  BY SameJournal
<1>4. \A w \in Writer : WriterInv(w)'
  BY DEF JInv, WriterInv
<1> QED BY <1>1, <1>2, <1>3, <1>4 DEF JInv

-----------------------------------------------------------------------------
LEMMA InitEstablishes == ASSUME Init PROVE JInv
<1> USE JournalAssumption DEF Init
<1>1. Types
  BY DEF JournalAssumption
<1>2. ASSUME NEW r \in Root PROVE Numbering(r) /\ OneEntryPerSeq(r) /\ acked[r] \subseteq journal[r]
  <2>1. journal[r] = {} /\ Cardinality({}) = 0 /\ IsFiniteSet({})
    BY FS_EmptySet
  <2>2. Seqs(r) = {} /\ 0..(0 - 1) = {}
    BY <2>1 DEF Seqs
  <2> QED BY <2>1, <2>2
<1>3. \A w \in Writer : WriterInv(w)
  BY DEF WriterInv, Ready
<1>4. \A q \in Reader : ReaderInv(q)
  BY DEF ReaderInv, Closed
<1> QED BY <1>1, <1>2, <1>3, <1>4 DEF JInv

LEMMA WriteInMemoryKeeps ==
    ASSUME JInv, NEW w \in Writer, NEW r \in Root, NEW e \in Event[r], WriteInMemory(w, r, e)
    PROVE  JInv'
<1> DEFINE n == Cardinality(journal[r])
<1>1. backend = "memory" /\ UNCHANGED <<backend, published, writers, readers>>
  BY DEF WriteInMemory
<1>2. n \in Nat
  BY FS_CardinalityType DEF JInv
<1>3. Behind(r, n)
  BY <1>1, <1>2 DEF JInv, Seqs, Behind
<1>4. Append(r, n, e) /\ Acknowledge(r, n, e)
  BY DEF WriteInMemory
<1> HIDE DEF n
<1>5. /\ journal' \in [Root -> SUBSET AnEntry]
      /\ Entry(n, e) \in journal'[r]
      /\ \A q \in Root : journal[q] \subseteq journal'[q] /\ OneEntryPerSeq(q)'
      /\ \A q \in Root : IsFiniteSet(journal'[q])
      /\ \A q \in Root \ {r} : journal'[q] = journal[q]
      /\ Cardinality(journal'[r]) = n + 1
      /\ Seqs(r)' = Seqs(r) \union {n}
  BY <1>2, <1>3, <1>4, AppendKeepsEntries DEF n
<1>6. \A q \in Reader : ReaderInv(q)'
  BY <1>1, <1>2, <1>3, <1>4, AppendKeepsReaders
<1>7. \A v \in Writer : WriterInv(v)'
  BY <1>1, <1>2, <1>3, <1>4, WritersKeepTheirEntries
<1>8. ASSUME NEW q \in Root PROVE Numbering(q)'
  <2>1. CASE q # r
    BY <1>1, <1>5, <2>1 DEF JInv, Seqs
  <2>2. CASE q = r
    <3>1. Seqs(r) = 0..(n - 1)
      BY <1>1 DEF JInv, n
    <3>2. (0..(n - 1)) \union {n} = 0..((n + 1) - 1)
      BY <1>2
    <3> QED BY <1>1, <1>5, <2>2, <3>1, <3>2
  <2> QED BY <2>1, <2>2
<1>9. acked' \in [Root -> SUBSET AnEntry] /\ \A q \in Root : acked'[q] \subseteq journal'[q]
  <2>1. acked' = [acked EXCEPT ![r] = acked[r] \union {Entry(n, e)}]
    BY <1>4 DEF Acknowledge
  <2>2. \A q \in Root : acked'[q] \subseteq journal'[q]
    BY <1>5, <2>1 DEF JInv
  <2> QED BY <1>5, <2>1, <2>2 DEF JInv
<1> QED BY <1>1, <1>5, <1>6, <1>7, <1>8, <1>9 DEF JInv

LEMMA SelectMaxKeeps ==
    ASSUME JInv, NEW w \in Writer, NEW r \in Root, NEW e \in Event[r], SelectMax(w, r, e)
    PROVE  JInv'
<1>1. backend = "sql" /\ UNCHANGED <<backend, journal, published, readers, acked>>
  BY DEF SelectMax
<1>2. IsFiniteSet(journal[r]) /\ Cardinality(journal[r]) \in Nat /\ Seqs(r) = 0..(Cardinality(journal[r]) - 1)
  BY <1>1, FS_CardinalityType DEF JInv
<1>3. NextSeq(r) = Cardinality(journal[r])
  <2>1. CASE journal[r] = {}
    BY <2>1, FS_EmptySet DEF NextSeq
  <2>2. CASE journal[r] # {}
    <3>1. Cardinality(journal[r]) # 0
      BY <1>2, <2>2, FS_EmptySet
    <3> DEFINE m == Cardinality(journal[r]) - 1
    <3>2. m \in Seqs(r) /\ \A k \in Seqs(r) : m >= k
      BY <1>2, <3>1
    <3>3. Max(Seqs(r)) = m
      <4> HIDE DEF m
      <4>1. \A k \in Seqs(r) : k \in Int
        BY <1>2
      <4>2. \A k \in Seqs(r) : (\A y \in Seqs(r) : k >= y) => k = m
        BY <3>2, <4>1
      <4> QED BY <3>2, <4>2 DEF Max
    <3> QED BY <1>2, <2>2, <3>3 DEF NextSeq
  <2> QED BY <2>1, <2>2
<1> DEFINE s == [at |-> "inserting", root |-> r, event |-> e, next |-> NextSeq(r)]
<1>4. writers'[w] = s => WriterInv(w)'
  BY <1>1, <1>2, <1>3 DEF WriterInv
<1>5. SetWriter(w, s)
  BY DEF SelectMax
<1> HIDE DEF s
<1>6. DOMAIN writers' = Writer /\ \A v \in Writer : WriterInv(v)'
  BY <1>1, <1>4, <1>5, WriterSteps
<1>7. \A q \in Root : Numbering(q)' /\ OneEntryPerSeq(q)'
  BY <1>1, SameJournal
<1>8. \A q \in Reader : ReaderInv(q)'
  BY <1>1, SameReaders
<1> QED BY <1>1, <1>6, <1>7, <1>8 DEF JInv

(* Two writers that chose the same number: the second is refused.          *)
LEMMA InsertKeeps ==
    ASSUME JInv, NEW w \in Writer, Insert(w)
    PROVE  JInv'
<1>0. PICK s, n, r, e : s = writers[w] /\ n = s.next /\ r = s.root /\ e = s.event
  OBVIOUS
<1>1. s.at = "inserting" /\ UNCHANGED <<backend, published, readers, acked>>
  BY <1>0 DEF Insert
<1>2. backend = "sql" /\ r \in Root /\ n \in Nat /\ e \in Event[r] /\ n <= Cardinality(journal[r])
  BY <1>0, <1>1 DEF JInv, WriterInv
<1>3. IsFiniteSet(journal[r]) /\ Cardinality(journal[r]) \in Nat /\ Seqs(r) = 0..(Cardinality(journal[r]) - 1)
  BY <1>2, FS_CardinalityType DEF JInv
<1>4. CASE n \in Seqs(r)
  <2>1. SetWriter(w, Failed) /\ UNCHANGED journal
    BY <1>0, <1>4 DEF Insert
  <2>2. writers'[w] = Failed => WriterInv(w)'
    BY DEF WriterInv, Failed, Ready
  <2>3. DOMAIN writers' = Writer /\ \A v \in Writer : WriterInv(v)'
    BY <1>1, <2>1, <2>2, WriterSteps
  <2>4. (\A q \in Root : Numbering(q)' /\ OneEntryPerSeq(q)') /\ \A q \in Reader : ReaderInv(q)'
    BY <1>1, <2>1, SameJournal, SameReaders
  <2> QED BY <1>1, <2>1, <2>3, <2>4 DEF JInv
<1>5. CASE n \notin Seqs(r)
  <2>1. n = Cardinality(journal[r])
    BY <1>2, <1>3, <1>5
  <2>2. Behind(r, n)
    BY <1>3, <2>1 DEF Seqs, Behind
  <2>3. Append(r, n, e) /\ SetWriter(w, [s EXCEPT !.at = "written"])
    BY <1>0, <1>5 DEF Insert
  <2>4. /\ journal' \in [Root -> SUBSET AnEntry]
        /\ Entry(n, e) \in journal'[r]
        /\ \A q \in Root : journal[q] \subseteq journal'[q] /\ OneEntryPerSeq(q)'
        /\ \A q \in Root : IsFiniteSet(journal'[q])
        /\ \A q \in Root \ {r} : journal'[q] = journal[q]
        /\ Cardinality(journal'[r]) = n + 1
        /\ Seqs(r)' = Seqs(r) \union {n}
    BY <1>2, <2>1, <2>2, <2>3, AppendKeepsEntries
  <2>5. \A q \in Reader : ReaderInv(q)'
    BY <1>1, <1>2, <2>2, <2>3, AppendKeepsReaders
  <2>6. ASSUME NEW v \in Writer PROVE WriterInv(v)'
    <3>1. CASE v # w
      <4>1. writers'[v] = writers[v]
        BY <2>3, <3>1 DEF SetWriter, JInv
      <4> QED BY <1>1, <1>2, <2>2, <2>3, <4>1, WritersKeepTheirEntries
    <3>2. CASE v = w
      <4>1. writers'[w] = [s EXCEPT !.at = "written"]
        BY <2>3 DEF SetWriter, JInv
      <4>2. s = [at |-> s.at, root |-> r, event |-> e, next |-> n]
        BY <1>0 DEF JInv, WriterInv
      <4>3. writers'[w] = [at |-> "written", root |-> r, event |-> e, next |-> n]
        BY <4>1, <4>2
      <4> QED BY <1>2, <2>4, <3>2, <4>3 DEF WriterInv
    <3> QED BY <3>1, <3>2
  <2>7. ASSUME NEW q \in Root PROVE Numbering(q)'
    <3>1. CASE q # r
      BY <1>1, <2>4, <3>1 DEF JInv, Seqs
    <3>2. CASE q = r
      <4>1. Seqs(r)' = 0..(Cardinality(journal'[r]) - 1)
        BY <1>2, <1>3, <2>1, <2>4
      <4> QED BY <1>1, <1>2, <2>4, <3>2, <4>1
    <3> QED BY <3>1, <3>2
  <2>8. DOMAIN writers' = Writer
    BY <2>3 DEF SetWriter, JInv
  <2>9. \A q \in Root : acked'[q] \subseteq journal'[q]
    BY <1>1, <2>4 DEF JInv
  <2> QED BY <1>1, <2>4, <2>5, <2>6, <2>7, <2>8, <2>9 DEF JInv
<1> QED BY <1>4, <1>5

LEMMA PublishKeeps ==
    ASSUME JInv, NEW w \in Writer, NEW r \in Root, NEW e \in Event[r], Publish(w, r, e)
    PROVE  JInv'
<1> DEFINE n == published + 1
           s == [at |-> "written", root |-> r, event |-> e, next |-> n]
<1>1. backend = "nats" /\ published' = n /\ UNCHANGED <<backend, readers, acked>>
  BY DEF Publish
<1>2. n \in Nat /\ published \in Nat /\ n > published
  BY DEF JInv
<1>3. Behind(r, n)
  BY <1>1, <1>2 DEF JInv, Behind
<1>4. Append(r, n, e) /\ SetWriter(w, s)
  BY DEF Publish
<1>5. /\ journal' \in [Root -> SUBSET AnEntry]
      /\ Entry(n, e) \in journal'[r]
      /\ \A q \in Root : journal[q] \subseteq journal'[q] /\ OneEntryPerSeq(q)'
      /\ \A q \in Root : IsFiniteSet(journal'[q])
      /\ \A q \in Root \ {r} : journal'[q] = journal[q]
      /\ Seqs(r)' = Seqs(r) \union {n}
  BY <1>2, <1>3, <1>4, AppendKeepsEntries
<1>6. \A q \in Reader : ReaderInv(q)'
  BY <1>1, <1>2, <1>3, <1>4, AppendKeepsReaders
<1>7. ASSUME NEW v \in Writer PROVE WriterInv(v)'
  <2>1. CASE v # w
    <3>1. writers'[v] = writers[v]
      BY <1>4, <2>1 DEF SetWriter, JInv
    <3> QED BY <1>1, <1>2, <1>3, <1>4, <3>1, WritersKeepTheirEntries
  <2>2. CASE v = w
    <3>1. writers'[w] = s
      BY <1>4 DEF SetWriter, JInv
    <3> QED BY <1>2, <1>5, <2>2, <3>1 DEF WriterInv
  <2> QED BY <2>1, <2>2
<1>8. ASSUME NEW q \in Root PROVE Numbering(q)'
  <2>1. \A x \in journal[q] : x.seq \in Nat /\ x.seq <= published
    BY <1>1 DEF JInv
  <2>2. \A x \in journal'[q] : x.seq = n \/ x \in journal[q]
    BY <1>4 DEF Entry, Append, JInv
  <2> QED BY <1>1, <1>2, <1>5, <2>1, <2>2
<1>9. published' \in Nat /\ DOMAIN writers' = Writer /\ \A q \in Root : acked'[q] \subseteq journal'[q]
  BY <1>1, <1>2, <1>4, <1>5 DEF SetWriter, JInv
<1> QED BY <1>1, <1>5, <1>6, <1>7, <1>8, <1>9 DEF JInv

LEMMA PublishElsewhereKeeps == ASSUME JInv, PublishElsewhere PROVE JInv'
<1>1. /\ backend = "nats" /\ published' = published + 1
      /\ UNCHANGED <<backend, journal, writers, readers, acked>>
  BY DEF PublishElsewhere
<1>2. \A r \in Root : Numbering(r)' /\ OneEntryPerSeq(r)'
  BY <1>1 DEF JInv, Seqs
<1>3. \A q \in Reader : ReaderInv(q)'
  BY <1>1, SameReaders
<1> QED BY <1>1, <1>2, <1>3 DEF JInv, WriterInv

LEMMA AckedKeeps == ASSUME JInv, NEW w \in Writer, Acked(w) PROVE JInv'
<1>0. PICK s, n, r, e : s = writers[w] /\ n = s.next /\ r = s.root /\ e = s.event
  OBVIOUS
<1>1. /\ s.at = "written" /\ SetWriter(w, Ready) /\ Acknowledge(r, n, e)
      /\ UNCHANGED <<backend, journal, published, readers>>
  BY <1>0 DEF Acked
<1>2. r \in Root /\ Entry(n, e) \in journal[r]
  BY <1>0, <1>1 DEF JInv, WriterInv
<1>3. acked' = [acked EXCEPT ![r] = acked[r] \union {Entry(n, e)}]
  BY <1>1 DEF Acknowledge
<1>4. acked' \in [Root -> SUBSET AnEntry] /\ \A q \in Root : acked'[q] \subseteq journal'[q]
  BY <1>1, <1>2, <1>3 DEF JInv
<1>5. writers'[w] = Ready => WriterInv(w)'
  BY DEF WriterInv, Ready
<1>6. DOMAIN writers' = Writer /\ \A v \in Writer : WriterInv(v)'
  BY <1>1, <1>5, WriterSteps
<1>7. (\A q \in Root : Numbering(q)' /\ OneEntryPerSeq(q)') /\ \A q \in Reader : ReaderInv(q)'
  BY <1>1, SameJournal, SameReaders
<1> QED BY <1>1, <1>4, <1>6, <1>7 DEF JInv

LEMMA AckLostKeeps == ASSUME JInv, NEW w \in Writer, AckLost(w) PROVE JInv'
<1>1. SetWriter(w, Failed) /\ UNCHANGED <<backend, journal, published, readers, acked>>
  BY DEF AckLost
<1>2. writers'[w] = Failed => WriterInv(w)'
  BY DEF WriterInv, Failed, Ready
<1>3. DOMAIN writers' = Writer /\ \A v \in Writer : WriterInv(v)'
  BY <1>1, <1>2, WriterSteps
<1>4. (\A q \in Root : Numbering(q)' /\ OneEntryPerSeq(q)') /\ \A q \in Reader : ReaderInv(q)'
  BY <1>1, SameJournal, SameReaders
<1> QED BY <1>1, <1>3, <1>4 DEF JInv

-----------------------------------------------------------------------------
(* The steps of readers.                                                   *)
LEMMA OpenReplayKeeps ==
    ASSUME JInv, NEW q \in Reader, NEW r \in Root, NEW n \in Nat, OpenReplay(q, r, n)
    PROVE  JInv'
<1> DEFINE s == [Closed EXCEPT !.at = "fetching", !.replay = TRUE, !.root = r, !.subs = TRUE,
                               !.from = n, !.cursor = n, !.last = n, !.known = acked[r]]
<1>1. SetReader(q, s) /\ UNCHANGED <<backend, journal, published, writers, acked>>
  BY DEF OpenReplay
<1>2. /\ s.root = r /\ s.from = n /\ s.cursor = n /\ s.last = n
      /\ s.batch = {} /\ s.part = {}
  BY DEF Closed
<1>3. ASSUME readers'[q] = s PROVE ReaderInv(q)'
  <2> HIDE DEF s
  <2>1. \A x \in journal'[r] : x.seq \in Nat
    BY <1>1 DEF JInv
  <2> QED BY <1>2, <1>3, <2>1 DEF ReaderInv, Reached, Earlier
<1> HIDE DEF s
<1> QED BY <1>1, <1>3, ReaderSteps

LEMMA WatchKeeps ==
    ASSUME JInv, NEW q \in Reader, NEW r \in Root, NEW run, NEW subs, NEW n \in Nat,
           Watch(q, r, run, subs, n)
    PROVE  JInv'
<1> DEFINE s == [Closed EXCEPT !.at = "fetching", !.root = r, !.run = run, !.subs = subs,
                               !.from = n, !.cursor = n, !.last = n]
<1>1. SetReader(q, s) /\ UNCHANGED <<backend, journal, published, writers, acked>>
  BY DEF Watch
<1>2. /\ s.root = r /\ s.from = n /\ s.cursor = n /\ s.last = n
      /\ s.batch = {} /\ s.part = {}
  BY DEF Closed
<1>3. ASSUME readers'[q] = s PROVE ReaderInv(q)'
  <2> HIDE DEF s
  <2>1. \A x \in journal'[r] : x.seq \in Nat
    BY <1>1 DEF JInv
  <2> QED BY <1>2, <1>3, <2>1 DEF ReaderInv, Reached, Earlier
<1> HIDE DEF s
<1> QED BY <1>1, <1>3, ReaderSteps

(* Of a finite set, the first few leave nothing out below them.            *)
LEMMA FirstIsLowerClosed ==
    ASSUME NEW S \in SUBSET AnEntry, IsFiniteSet(S), NEW k \in Nat,
           NEW y \in First(S, k), NEW x \in S, x.seq < y.seq
    PROVE  x \in First(S, k)
<1>1. Earlier(S, x) \subseteq Earlier(S, y) /\ Earlier(S, y) \subseteq S
  BY DEF Earlier, First
<1>2. /\ IsFiniteSet(Earlier(S, y))
      /\ IsFiniteSet(Earlier(S, x))
      /\ Cardinality(Earlier(S, x)) <= Cardinality(Earlier(S, y))
  BY <1>1, FS_Subset
<1>3. Cardinality(Earlier(S, x)) \in Nat /\ Cardinality(Earlier(S, y)) \in Nat
  BY <1>2, FS_CardinalityType
<1> QED BY <1>2, <1>3 DEF First

LEMMA FetchKeeps == ASSUME JInv, NEW q \in Reader, Fetch(q) PROVE JInv'
<1>0. PICK s, rows, t :
        /\ s = readers[q] /\ rows = First(Available(q), Limit(q))
        /\ t = [s EXCEPT !.at = IF rows = {} THEN "done" ELSE "sending", !.batch = rows,
                         !.final = s.replay /\ Cardinality(rows) < Limit(q), !.part = {}]
  OBVIOUS
<1>1. SetReader(q, t) /\ UNCHANGED <<backend, journal, published, writers, acked>>
  BY <1>0 DEF Fetch
<1>2. s.at = "fetching" /\ ReaderInv(q)
  BY <1>0 DEF Fetch, JInv
<1>3. s.root \in Root /\ s.cursor \in Nat /\ s.last \in Nat
  BY <1>0, <1>2 DEF ReaderInv
<1>4. Limit(q) \in Nat
  BY JournalAssumption DEF JournalAssumption, Limit
<1>5. /\ Available(q) \subseteq journal[s.root] /\ Available(q) \in SUBSET AnEntry
      /\ IsFiniteSet(Available(q))
  BY <1>0, <1>3, FS_Subset DEF Available, JInv
<1>6. /\ rows \subseteq Available(q)
      /\ \A x \in Available(q), y \in rows : x.seq < y.seq => x \in rows
  BY <1>0, <1>4, <1>5, FirstIsLowerClosed DEF First
<1>7. ASSUME readers'[q] = t PROVE ReaderInv(q)'
  <2>1. /\ t.root = s.root /\ t.from = s.from /\ t.cursor = s.cursor /\ t.last = s.last
        /\ t.batch = rows /\ t.part = {} /\ t.seen = s.seen /\ t.subs = s.subs /\ t.run = s.run
    BY <1>0
  <2>2. \A x \in rows : x \in journal[s.root] /\ x.seq >= s.cursor /\ x.seq \in Nat
    BY <1>0, <1>5, <1>6 DEF Available, JInv
  <2>3. \A x \in journal[s.root], y \in rows : s.cursor <= x.seq /\ x.seq < y.seq => x \in rows
    BY <1>0, <1>3, <1>6 DEF Available, JInv
  <2>4. t.last <= t.cursor /\ (t.at = "fetching" => t.batch = {})
    BY <1>0, <1>2, <2>1 DEF ReaderInv
  <2> QED BY <1>0, <1>1, <1>2, <1>7, <2>1, <2>2, <2>3, <2>4 DEF ReaderInv, Reached, Earlier, Wanted
<1> QED BY <1>1, <1>7, ReaderSteps

(* A head is below all others of its batch.                                *)
LEMMA HeadIsFirst ==
    ASSUME JInv, NEW q \in Reader, NEW x \in readers[q].batch, IsHead(q, x)
    PROVE  /\ \A y \in readers[q].batch \ {x} : x.seq < y.seq
           /\ x \in journal[readers[q].root] /\ x.seq \in Nat /\ readers[q].cursor <= x.seq
           /\ \A y \in readers[q].batch : Earlier(readers[q].batch, y) = {} => y = x
<1>1. ReaderInv(q) /\ readers[q].at = "sending"
  BY DEF JInv, IsHead
<1>2. readers[q].root \in Root /\ readers[q].batch \subseteq journal[readers[q].root]
  BY <1>1 DEF ReaderInv
<1>3. \A y \in readers[q].batch : y.seq \in Nat /\ ~(y.seq < x.seq)
  BY <1>2 DEF IsHead, Earlier, JInv
<1>4. \A y \in readers[q].batch : y.seq = x.seq => y = x
  BY <1>2 DEF JInv
<1>5. \A y \in readers[q].batch \ {x} : x.seq < y.seq
  BY <1>3, <1>4
<1> QED BY <1>1, <1>2, <1>3, <1>5 DEF ReaderInv, Earlier

LEMMA SendEventKeeps ==
    ASSUME JInv, NEW q \in Reader, NEW x \in readers[q].batch, NEW run, SendEvent(q, x, run)
    PROVE  JInv'
<1>0. PICK s, t :
        s = readers[q] /\ t = [s EXCEPT !.part = s.part \union {run},
                                        !.seen = s.seen \union {<<x.seq, run>>}, !.last = x.seq]
  OBVIOUS
<1>1. IsHead(q, x) /\ SetReader(q, t) /\ UNCHANGED <<backend, journal, published, writers, acked>>
  BY <1>0 DEF SendEvent
<1>2. ReaderInv(q) /\ s.at = "sending"
  BY <1>0, <1>1 DEF JInv, IsHead
<1>3. /\ x \in journal[s.root] /\ x.seq \in Nat /\ s.cursor <= x.seq
      /\ \A y \in s.batch : Earlier(s.batch, y) = {} => y = x
  BY <1>0, <1>1, HeadIsFirst
<1>4. ASSUME readers'[q] = t PROVE ReaderInv(q)'
  <2>1. /\ t.root = s.root /\ t.from = s.from /\ t.cursor = s.cursor /\ t.last = x.seq
        /\ t.batch = s.batch /\ t.subs = s.subs /\ t.run = s.run /\ t.at = s.at
    BY <1>0, <1>2 DEF SetReader, ReaderInv
  <2>1a. /\ s.part \subseteq t.part /\ s.seen \subseteq t.seen
         /\ \A y \in t.part : y = run \/ y \in s.part
         /\ <<x.seq, run>> \in t.seen
    BY <1>0, <1>1, <1>4 DEF SetReader, JInv
  <2>2. \A y \in t.batch : Earlier(t.batch, y) = {} => \A z \in t.part : <<y.seq, z>> \in t.seen
    BY <1>0, <1>2, <1>3, <2>1, <2>1a DEF ReaderInv
  <2>3. Earlier(t.batch, x) = {} /\ x \in t.batch
    BY <1>0, <1>1, <2>1 DEF IsHead
  <2>4. Reached(t, t.cursor)' /\ Reached(t, t.last)'
    BY <1>0, <1>1, <1>2, <1>3, <2>1 DEF ReaderInv, Reached
  <2>5. \A y \in journal[s.root] : \A z \in Wanted(q, y)' :
           t.from <= y.seq /\ y.seq < t.cursor => <<y.seq, z>> \in t.seen
    BY <1>0, <1>2, <1>4, <2>1, <2>1a DEF ReaderInv, Wanted
  <2> QED BY <1>0, <1>1, <1>2, <1>3, <1>4, <2>1, <2>2, <2>3, <2>4, <2>5 DEF ReaderInv, Earlier
<1> QED BY <1>1, <1>4, ReaderSteps

LEMMA NextEntryKeeps ==
    ASSUME JInv, NEW q \in Reader, NEW x \in readers[q].batch, NextEntry(q, x)
    PROVE  JInv'
<1>0. PICK s, t :
        s = readers[q] /\ t = [s EXCEPT !.at = Onward(s, x), !.cursor = x.seq + 1,
                                        !.batch = s.batch \ {x}, !.part = {}]
  OBVIOUS
<1>1. /\ IsHead(q, x) /\ Wanted(q, x) \subseteq s.part
      /\ SetReader(q, t) /\ UNCHANGED <<backend, journal, published, writers, acked>>
  BY <1>0 DEF NextEntry
<1>2. ReaderInv(q) /\ s.at = "sending"
  BY <1>0, <1>1 DEF JInv, IsHead
<1>3. /\ \A y \in s.batch \ {x} : x.seq < y.seq
      /\ x \in journal[s.root] /\ x.seq \in Nat /\ s.cursor <= x.seq
      /\ \A y \in s.batch : Earlier(s.batch, y) = {} => y = x
  BY <1>0, <1>1, HeadIsFirst
<1>4. /\ s.root \in Root /\ s.from \in Nat /\ s.cursor \in Nat /\ s.last \in Nat
      /\ s.batch \subseteq journal[s.root]
  BY <1>0, <1>2 DEF ReaderInv
<1>5. \A y \in journal[s.root] : y.seq \in Nat /\ (y.seq = x.seq => y = x)
  BY <1>3, <1>4 DEF JInv
<1>6. \A y \in journal[s.root] : s.cursor <= y.seq /\ y.seq < x.seq => y \in s.batch
  BY <1>0, <1>2 DEF ReaderInv
<1>7. \A y \in journal[s.root] : ~(s.cursor <= y.seq /\ y.seq < x.seq)
  BY <1>3, <1>5, <1>6
<1>8. s.last <= x.seq
  BY <1>0, <1>2, <1>3, <1>4 DEF ReaderInv
<1>9. ASSUME readers'[q] = t PROVE ReaderInv(q)'
  <2>1. /\ t.root = s.root /\ t.from = s.from /\ t.cursor = x.seq + 1 /\ t.last = s.last
        /\ t.batch = s.batch \ {x} /\ t.subs = s.subs /\ t.run = s.run /\ t.seen = s.seen
        /\ t.part = {} /\ t.at = Onward(s, x)
    BY <1>0
  <2>2. \A y \in t.batch : t.cursor <= y.seq
    BY <1>3, <1>4, <1>5, <2>1
  <2>3. \A y \in journal[s.root], z \in t.batch : t.cursor <= y.seq /\ y.seq < z.seq => y \in t.batch
    <3> SUFFICES ASSUME NEW y \in journal[s.root], NEW z \in t.batch, t.cursor <= y.seq, y.seq < z.seq
                 PROVE  y \in s.batch /\ y # x
      BY <2>1
    <3>1. s.cursor <= y.seq /\ y # x /\ z \in s.batch
      BY <1>3, <1>4, <1>5, <2>1
    <3> QED BY <1>0, <1>2, <3>1 DEF ReaderInv
  <2>4. t.at = "fetching" => t.batch = {}
    BY <2>1 DEF Onward
  <2>5. Reached(t, t.cursor)' /\ Reached(t, t.last)'
    BY <1>0, <1>1, <1>2, <1>3, <2>1 DEF ReaderInv, Reached
  <2>6. \A y \in journal[s.root] : \A z \in Wanted(q, y)' :
           t.from <= y.seq /\ y.seq < t.cursor => <<y.seq, z>> \in t.seen
    <3> SUFFICES ASSUME NEW y \in journal[s.root], NEW z \in Wanted(q, y),
                        s.from <= y.seq, y.seq < x.seq + 1
                 PROVE  <<y.seq, z>> \in s.seen
      BY <1>0, <1>9, <2>1 DEF Wanted
    <3>1. CASE y = x
      BY <1>0, <1>1, <1>2, <1>3, <3>1 DEF ReaderInv, IsHead
    <3>2. CASE y # x
      <4>1. y.seq < s.cursor
        BY <1>3, <1>4, <1>5, <1>7, <3>2
      <4> QED BY <1>0, <1>2, <4>1 DEF ReaderInv
    <3> QED BY <3>1, <3>2
  <2>7. t.last <= t.cursor /\ t.cursor \in Nat
    BY <1>3, <1>4, <1>8, <2>1
  <2>8. \A y \in t.batch : Earlier(t.batch, y) = {} => \A z \in t.part : <<y.seq, z>> \in t.seen
    BY <2>1
  <2> QED BY <1>1, <1>4, <1>9, <2>1, <2>2, <2>3, <2>4, <2>5, <2>6, <2>7, <2>8 DEF ReaderInv, Earlier
<1> QED BY <1>1, <1>9, ReaderSteps

(* The position to come back to is not beyond the position left.           *)
LEMMA ReconnectKeeps == ASSUME JInv, NEW q \in Reader, Reconnect(q) PROVE JInv'
<1>0. PICK s, t :
        s = readers[q] /\ t = [s EXCEPT !.at = "fetching", !.cursor = s.last,
                                        !.batch = {}, !.part = {}, !.disconnects = s.disconnects + 1]
  OBVIOUS
<1>1. /\ s.at \in {"fetching", "sending"}
      /\ SetReader(q, t) /\ UNCHANGED <<backend, journal, published, writers, acked>>
  BY <1>0 DEF Reconnect
<1>2. ReaderInv(q) /\ s.at # "closed"
  BY <1>0, <1>1 DEF JInv
<1>3. s.root \in Root /\ s.from \in Nat /\ s.cursor \in Nat /\ s.last \in Nat
  BY <1>0, <1>2 DEF ReaderInv
<1>4. \A y \in journal[s.root] : y.seq \in Nat
  BY <1>3 DEF JInv
<1>5. \A y \in journal[s.root] : y.seq < s.last => y.seq < s.cursor
  <2>1. CASE s.last <= s.cursor
    BY <1>3, <1>4, <2>1
  <2>2. CASE \E x \in s.batch : Earlier(s.batch, x) = {} /\ s.last = x.seq
    <3>1. PICK x \in s.batch : Earlier(s.batch, x) = {} /\ s.last = x.seq
      BY <2>2
    <3>2. \A y \in journal[s.root] : s.cursor <= y.seq /\ y.seq < x.seq => y \in s.batch
      BY <1>0, <1>2 DEF ReaderInv
    <3> QED BY <1>3, <1>4, <3>1, <3>2 DEF Earlier
  <2> QED BY <1>0, <1>2, <2>1, <2>2 DEF ReaderInv
<1>6. ASSUME readers'[q] = t PROVE ReaderInv(q)'
  <2>1. /\ t.root = s.root /\ t.from = s.from /\ t.cursor = s.last /\ t.last = s.last
        /\ t.batch = {} /\ t.subs = s.subs /\ t.run = s.run /\ t.seen = s.seen
        /\ t.part = {}
    BY <1>0
  <2>2. \A y \in journal[s.root] : \A z \in Wanted(q, y)' :
           t.from <= y.seq /\ y.seq < t.cursor => <<y.seq, z>> \in t.seen
    <3> SUFFICES ASSUME NEW y \in journal[s.root], NEW z \in Wanted(q, y),
                        s.from <= y.seq, y.seq < s.last
                 PROVE  <<y.seq, z>> \in s.seen
      BY <1>0, <1>6, <2>1 DEF Wanted
    <3> QED BY <1>0, <1>2, <1>5 DEF ReaderInv
  <2>3. Reached(t, t.last)'
    BY <1>0, <1>1, <1>2, <2>1 DEF ReaderInv, Reached
  <2> QED BY <1>1, <1>3, <1>6, <2>1, <2>2, <2>3 DEF ReaderInv, Reached, Earlier
<1> QED BY <1>1, <1>6, ReaderSteps

-----------------------------------------------------------------------------
LEMMA StepsKeep == JInv /\ [Next]_vars => JInv'
<1> SUFFICES ASSUME JInv, [Next]_vars PROVE JInv'
  OBVIOUS
<1>1. ASSUME NEW w \in Writer, Write(w) PROVE JInv'
  BY <1>1, WriteInMemoryKeeps, SelectMaxKeeps, PublishKeeps, InsertKeeps, AckedKeeps, AckLostKeeps
  DEF Write
<1>2. CASE PublishElsewhere
  BY <1>2, PublishElsewhereKeeps
<1>3. ASSUME NEW q \in Reader, Open(q) PROVE JInv'
  <2>1. PICK r \in Root, n \in From :
          \/ OpenReplay(q, r, n)
          \/ \E run \in Runs(r), subs \in BOOLEAN : Watch(q, r, run, subs, n)
    BY <1>3 DEF Open
  <2>2. n \in Nat
    BY JournalAssumption DEF JournalAssumption
  <2> QED BY <2>1, <2>2, OpenReplayKeeps, WatchKeeps
<1>4. ASSUME NEW q \in Reader, Read(q) PROVE JInv'
  BY <1>4, FetchKeeps, NextEntryKeeps, SendEventKeeps DEF Read
<1>5. ASSUME NEW q \in Reader, Reconnect(q) PROVE JInv'
  BY <1>5, ReconnectKeeps
<1>6. CASE UNCHANGED vars
  <2>1. UNCHANGED <<backend, journal, published, writers, readers, acked>>
    BY <1>6 DEF vars
  <2>2. (\A q \in Root : Numbering(q)' /\ OneEntryPerSeq(q)') /\ \A q \in Reader : ReaderInv(q)'
    BY <2>1, SameJournal, SameReaders
  <2> QED BY <2>1, <2>2 DEF JInv, WriterInv
<1> QED BY <1>1, <1>2, <1>3, <1>4, <1>5, <1>6 DEF Next

(* The inductive invariant: entries are added behind all others, and a     *)
(* reader's cursor is never beyond what was there when it got there.       *)
THEOREM JournalInvariant == Spec => []JInv
<1>1. Init => JInv
  BY InitEstablishes
<1>2. JInv /\ [Next]_vars => JInv'
  BY StepsKeep
<1> QED BY <1>1, <1>2, PTL DEF Spec

(* What write returned Ok for is never lost or replaced, whichever         *)
(* executors append to the journal at the same time (ExecutionJournal::    *)
(* write of the three implementations).                                    *)
THEOREM AcknowledgedEntriesAreDurable == Spec => []AckedEntriesStay
<1>1. JInv => AckedEntriesStay
  BY DEF JInv, AckedEntriesStay
<1> QED BY <1>1, JournalInvariant, PTL

(* No batch, poll or connection makes a reader skip an entry (stream_from, *)
(* follow, get_run_events).                                                *)
THEOREM ReadersSeeEveryEntry == Spec => []ReadersMissNothing
<1>1. JInv => ReadersMissNothing
  BY DEF JInv, ReaderInv, ReadersMissNothing
<1> QED BY <1>1, JournalInvariant, PTL

-----------------------------------------------------------------------------
(* What a replay has still to read of what was acknowledged when it began: *)
(* after its last batch, only what is in that batch.                       *)
ReplayInv(q) ==
    LET s == readers[q] IN
    s.replay =>
        /\ s.at # "closed" /\ s.subs
        /\ s.known \subseteq journal[s.root]
        /\ s.final => \A x \in s.known : s.cursor <= x.seq => x \in s.batch
        /\ s.at = "done" => \A x \in s.known : x.seq < s.cursor

RInv == \A q \in Reader : ReplayInv(q)

(* Of a finite set, the first k are k unless they are all.                 *)
LEMMA FirstAreEnough ==
    ASSUME NEW S \in SUBSET AnEntry, IsFiniteSet(S), NEW k \in Nat,
           Cardinality(First(S, k)) < k
    PROVE  First(S, k) = S
<1> DEFINE rest == S \ First(S, k)
           numbers == {x.seq : x \in rest}
<1> SUFFICES ASSUME rest # {} PROVE FALSE
  BY DEF First
<1>1. numbers \in SUBSET Nat /\ numbers # {}
  OBVIOUS
<1>2. PICK n \in numbers : \A m \in numbers : ~(<<m, n>> \in OpToRel(<, Nat))
  <2> HIDE DEF numbers
  <2> QED BY <1>1, NatLessThanWellFounded, WFMin
<1>3. PICK x \in rest : x.seq = n
  OBVIOUS
<1>4. \A y \in rest : ~(y.seq < x.seq)
  <2> SUFFICES ASSUME NEW y \in rest, y.seq < x.seq PROVE FALSE
    OBVIOUS
  <2>1. y.seq \in numbers /\ y.seq \in Nat /\ n \in Nat
    BY <1>1, <1>3
  <2> QED BY <1>2, <1>3, <2>1 DEF OpToRel
<1>5. Earlier(S, x) \subseteq First(S, k) /\ First(S, k) \subseteq S
  BY <1>4 DEF Earlier, First
<1>6. /\ IsFiniteSet(First(S, k)) /\ IsFiniteSet(Earlier(S, x))
      /\ Cardinality(Earlier(S, x)) <= Cardinality(First(S, k))
  BY <1>5, FS_Subset
<1>7. Cardinality(First(S, k)) \in Nat /\ Cardinality(Earlier(S, x)) \in Nat
  BY <1>6, FS_CardinalityType
<1>8. Cardinality(Earlier(S, x)) < k
  BY <1>6, <1>7
<1> QED BY <1>8 DEF First

(* Journals only grow.                                                     *)
LEMMA JournalsGrow ==
    ASSUME JInv, [Next]_vars PROVE \A r \in Root : journal[r] \subseteq journal'[r]
<1>1. ASSUME NEW w \in Writer, Write(w) PROVE \A r \in Root : journal[r] \subseteq journal'[r]
  <2>1. (\E r, n, e : Append(r, n, e)) \/ UNCHANGED journal
    BY <1>1 DEF Write, WriteInMemory, SelectMax, Publish, Insert, Acked, AckLost
  <2> QED BY <2>1 DEF Append, JInv
<1>2. CASE ~ \E w \in Writer : Write(w)
  BY <1>2, ZenonT(60) DEF Next, vars, PublishElsewhere, Open, OpenReplay, Watch, Read, Fetch, NextEntry,
              SendEvent, Reconnect
<1> QED BY <1>1, <1>2

(* A reader's own step.                                                    *)
LEMMA ReplaySteps ==
    ASSUME JInv, RInv, UNCHANGED journal, NEW q \in Reader, NEW s, SetReader(q, s),
           readers'[q] = s => ReplayInv(q)'
    PROVE  RInv'
<1>1. readers'[q] = s /\ \A v \in Reader \ {q} : readers'[v] = readers[v]
  BY DEF SetReader, JInv
<1> QED BY <1>1 DEF RInv, ReplayInv

LEMMA FetchReplays == ASSUME JInv, RInv, NEW q \in Reader, Fetch(q) PROVE RInv'
<1>0. PICK s, rows, t :
        /\ s = readers[q] /\ rows = First(Available(q), Limit(q))
        /\ t = [s EXCEPT !.at = IF rows = {} THEN "done" ELSE "sending", !.batch = rows,
                         !.final = s.replay /\ Cardinality(rows) < Limit(q), !.part = {}]
  OBVIOUS
<1>1. SetReader(q, t) /\ UNCHANGED journal
  BY <1>0 DEF Fetch
<1>2. s.at = "fetching" /\ ReaderInv(q) /\ ReplayInv(q)
  BY <1>0 DEF Fetch, JInv, RInv
<1>3. s.root \in Root /\ s.cursor \in Nat
  BY <1>0, <1>2 DEF ReaderInv
<1>4. Limit(q) \in Nat \ {0}
  BY JournalAssumption DEF JournalAssumption, Limit
<1>5. /\ Available(q) = {x \in journal[s.root] : x.seq >= s.cursor}
      /\ Available(q) \in SUBSET AnEntry /\ IsFiniteSet(Available(q))
  BY <1>0, <1>3, FS_Subset DEF Available, JInv
<1>6. Cardinality(rows) < Limit(q) => rows = Available(q)
  BY <1>0, <1>4, <1>5, FirstAreEnough
<1>7. rows = {} => Cardinality(rows) < Limit(q)
  BY <1>4, FS_EmptySet
<1>8. \A x \in journal[s.root] : x.seq \in Nat
  BY <1>3 DEF JInv
<1>9. ASSUME readers'[q] = t PROVE ReplayInv(q)'
  <2>1. /\ t.root = s.root /\ t.cursor = s.cursor /\ t.batch = rows /\ t.subs = s.subs
        /\ t.known = s.known /\ t.replay = s.replay
        /\ t.final = (s.replay /\ Cardinality(rows) < Limit(q))
        /\ t.at = IF rows = {} THEN "done" ELSE "sending"
    BY <1>0, <1>9 DEF SetReader, ReaderInv
  <2> SUFFICES ASSUME s.replay
               PROVE  /\ s.subs /\ s.known \subseteq journal[s.root]
                      /\ t.final => \A x \in s.known : s.cursor <= x.seq => x \in rows
                      /\ t.at = "done" => \A x \in s.known : x.seq < s.cursor
    BY <1>1, <1>9, <2>1 DEF ReplayInv
  <2>2. s.subs /\ s.known \subseteq journal[s.root]
    BY <1>0, <1>2 DEF ReplayInv
  <2>3. Cardinality(rows) < Limit(q) => \A x \in s.known : s.cursor <= x.seq => x \in rows
    BY <1>3, <1>5, <1>6, <1>8, <2>2
  <2>4. rows = {} => \A x \in s.known : x.seq < s.cursor
    BY <1>3, <1>7, <1>8, <2>2, <2>3
  <2> QED BY <2>1, <2>2, <2>3, <2>4
<1> QED BY <1>1, <1>9, ReplaySteps

LEMMA NextEntryReplays ==
    ASSUME JInv, RInv, NEW q \in Reader, NEW x \in readers[q].batch, NextEntry(q, x)
    PROVE  RInv'
<1>0. PICK s, t :
        s = readers[q] /\ t = [s EXCEPT !.at = Onward(s, x), !.cursor = x.seq + 1,
                                        !.batch = s.batch \ {x}, !.part = {}]
  OBVIOUS
<1>1. IsHead(q, x) /\ SetReader(q, t) /\ UNCHANGED journal
  BY <1>0 DEF NextEntry
<1>2. ReaderInv(q) /\ ReplayInv(q) /\ s.at = "sending"
  BY <1>0, <1>1 DEF JInv, RInv, IsHead
<1>3. x.seq \in Nat /\ s.root \in Root /\ s.cursor \in Nat /\ s.cursor <= x.seq
  BY <1>0, <1>1, <1>2, HeadIsFirst DEF ReaderInv
<1>4. \A y \in journal[s.root] : y.seq \in Nat
  BY <1>3 DEF JInv
<1>5. ASSUME readers'[q] = t PROVE ReplayInv(q)'
  <2>1. /\ t.root = s.root /\ t.cursor = x.seq + 1 /\ t.batch = s.batch \ {x} /\ t.subs = s.subs
        /\ t.known = s.known /\ t.replay = s.replay /\ t.final = s.final
        /\ t.at = Onward(s, x)
    BY <1>0, <1>5 DEF SetReader
  <2> SUFFICES ASSUME s.replay
               PROVE  /\ s.subs /\ s.known \subseteq journal[s.root]
                      /\ t.at # "closed"
                      /\ s.final => \A y \in s.known : t.cursor <= y.seq => y \in t.batch
                      /\ t.at = "done" => \A y \in s.known : y.seq < t.cursor
    BY <1>1, <1>5, <2>1 DEF ReplayInv
  <2>2. s.subs /\ s.known \subseteq journal[s.root]
    BY <1>0, <1>2 DEF ReplayInv
  <2>3. ASSUME s.final, NEW y \in s.known, t.cursor <= y.seq PROVE y \in t.batch
    BY <1>0, <1>2, <1>3, <1>4, <2>1, <2>2, <2>3 DEF ReplayInv
  <2>4. t.at = "done" => s.final /\ t.batch = {}
    BY <2>1 DEF Onward
  <2>5. t.at # "closed"
    BY <2>1 DEF Onward
  <2> QED BY <1>3, <1>4, <2>1, <2>2, <2>3, <2>4, <2>5
<1> QED BY <1>1, <1>5, ReplaySteps

LEMMA ReplayStepsKeep == JInv /\ RInv /\ [Next]_vars => RInv'
<1> SUFFICES ASSUME JInv, RInv, [Next]_vars PROVE RInv'
  OBVIOUS
<1>1. CASE UNCHANGED readers
  <2>1. ASSUME NEW q \in Reader, readers[q].replay PROVE readers[q].root \in Root
    BY <2>1 DEF RInv, ReplayInv, JInv, ReaderInv
  <2> QED BY <1>1, <2>1, JournalsGrow DEF RInv, ReplayInv
<1>2. ASSUME NEW q \in Reader, NEW r \in Root, NEW n \in From, OpenReplay(q, r, n) PROVE RInv'
  <2> DEFINE s == [Closed EXCEPT !.at = "fetching", !.replay = TRUE, !.root = r, !.subs = TRUE,
                                 !.from = n, !.cursor = n, !.last = n, !.known = acked[r]]
  <2>1. SetReader(q, s) /\ UNCHANGED journal
    BY <1>2 DEF OpenReplay
  <2>2. /\ s.root = r /\ s.known = acked[r] /\ s.subs /\ ~s.final /\ s.at = "fetching"
        /\ acked[r] \subseteq journal[r]
    BY DEF Closed, JInv
  <2>3. readers'[q] = s => ReplayInv(q)'
    BY <2>1, <2>2 DEF ReplayInv
  <2> QED BY <2>1, <2>3, ReplaySteps
<1>3. ASSUME NEW q \in Reader, NEW r \in Root, NEW run, NEW subs, NEW n \in From,
             Watch(q, r, run, subs, n)
      PROVE  RInv'
  <2> DEFINE s == [Closed EXCEPT !.at = "fetching", !.root = r, !.run = run, !.subs = subs,
                                 !.from = n, !.cursor = n, !.last = n]
  <2>1. SetReader(q, s) /\ UNCHANGED journal /\ ~s.replay
    BY <1>3 DEF Watch, Closed
  <2>2. readers'[q] = s => ReplayInv(q)'
    BY <2>1 DEF ReplayInv
  <2> QED BY <2>1, <2>2, ReplaySteps
<1>4. ASSUME NEW q \in Reader, NEW x \in readers[q].batch, NEW run, SendEvent(q, x, run)
      PROVE  RInv'
  <2>0. PICK s, t :
          s = readers[q] /\ t = [s EXCEPT !.part = s.part \union {run},
                                          !.seen = s.seen \union {<<x.seq, run>>}, !.last = x.seq]
    OBVIOUS
  <2>1. SetReader(q, t) /\ UNCHANGED journal
    BY <1>4, <2>0 DEF SendEvent
  <2>2. /\ t.root = s.root /\ t.cursor = s.cursor /\ t.batch = s.batch /\ t.subs = s.subs
        /\ t.known = s.known /\ t.replay = s.replay /\ t.final = s.final /\ t.at = s.at
    BY <2>0
  <2>3. readers'[q] = t => ReplayInv(q)'
    BY <2>0, <2>1, <2>2 DEF RInv, ReplayInv
  <2> QED BY <2>1, <2>3, ReplaySteps
<1>5. ASSUME NEW q \in Reader, Reconnect(q) PROVE RInv'
  <2>1. PICK t : t = [readers[q] EXCEPT !.at = "fetching", !.cursor = readers[q].last,
                        !.batch = {}, !.part = {}, !.disconnects = readers[q].disconnects + 1]
    OBVIOUS
  <2>2. SetReader(q, t) /\ UNCHANGED journal /\ ~t.replay
    BY <1>5, <2>1 DEF Reconnect
  <2>3. readers'[q] = t => ReplayInv(q)'
    BY <2>2 DEF ReplayInv
  <2> QED BY <2>2, <2>3, ReplaySteps
<1>6. CASE UNCHANGED vars
  BY <1>1, <1>6 DEF vars
<1>7. CASE PublishElsewhere
  BY <1>1, <1>7 DEF PublishElsewhere
<1>8. ASSUME NEW w \in Writer, Write(w) PROVE UNCHANGED readers
  BY <1>8 DEF Write, WriteInMemory, SelectMax, Publish, Insert, Acked, AckLost
<1> QED BY <1>1, <1>2, <1>3, <1>4, <1>5, <1>6, <1>7, <1>8, FetchReplays, NextEntryReplays
        DEF Next, Open, Read

(* A replay that has ended has handed over every event that was            *)
(* acknowledged before it began, in however many batches it was read       *)
(* (stream_from, as recovery uses it).                                     *)
THEOREM ReplaysAreComplete == Spec => []ReplaySeesWhatWasAcked
<1>1. Init => RInv
  BY DEF Init, RInv, ReplayInv, Closed
<1>2. Spec => []RInv
  BY <1>1, ReplayStepsKeep, JournalInvariant, PTL DEF Spec
<1>3. ASSUME JInv, RInv PROVE ReplaySeesWhatWasAcked
  <2> SUFFICES ASSUME NEW q \in Reader, readers[q].replay, readers[q].at = "done",
                      NEW x \in readers[q].known, NEW run \in x.event.runs,
                      readers[q].from <= x.seq
               PROVE  <<x.seq, run>> \in readers[q].seen
    BY DEF ReplaySeesWhatWasAcked
  <2>1. ReplayInv(q) /\ ReaderInv(q)
    BY <1>3 DEF JInv, RInv
  <2>2. x \in journal[readers[q].root] /\ x.seq < readers[q].cursor /\ run \in Wanted(q, x)
    BY <2>1 DEF ReplayInv, Wanted
  <2> QED BY <2>1, <2>2 DEF ReaderInv
<1> QED BY <1>2, <1>3, JournalInvariant, PTL
=============================================================================
