-------------------------- MODULE RunMetadataProofs --------------------------
(***************************************************************************)
(* What the metadata say of a run that is over, and what a wait for it     *)
(* finds, for either store, every forest of runs, any items and fates, any *)
(* number of waiters, and any number of crashes, failed statements and     *)
(* cancellations.                                                          *)
(***************************************************************************)
EXTENDS RunMetadata, TLAPS

(* Where the writer of a run can be.                                       *)
WriterAt == {"none", "creating", "inserting", "running", "known", "replaying", "journalling",
             "recording", "counting", "completing", "notifying", "status", "announcing", "over",
             "failing", "abandoned"}

WaiterState ==
    [at : {"idle", "subscribed", "waiting", "polling", "ended", "notfound", "done"},
     run : Run \union {None}, unread : Seq(Run), lagged : BOOLEAN,
     got : SUBSET UNION {Items[r] : r \in Run}]

MetadataTypes ==
    /\ backend \in {"memory", "sql"}
    /\ DOMAIN fate = Run /\ \A r \in Run : fate[r] \in Fate[r]
    /\ journal \in [Run -> {"none", "created", "ended"}]
    /\ status \in [Run -> {"none", "Running"} \union Terminal]
    /\ DOMAIN result = Run
    /\ \A r \in Run : result[r] \in [Items[r] -> {"none", "running"} \union Recorded]
    /\ DOMAIN writer = Run
    /\ \A r \in Run : writer[r] \in [at : WriterAt, todo : SUBSET Items[r], recovering : BOOLEAN]
    /\ waiters \in [Waiter -> WaiterState]
    /\ excused \subseteq Run /\ \A r \in excused : Tree(r) \subseteq excused
    /\ faults \in Nat

-----------------------------------------------------------------------------
(* The rows of a run, as far as its writer has come.                       *)
AllFinal(r) == result[r] = fate[r].results

RowsInv(r) ==
    /\ journal[r] = "none" =>
         writer[r].at = "none" /\ status[r] = "none" /\ \A i \in Items[r] : result[r][i] = "none"
    /\ writer[r].at = "creating" =>
         status[r] = "none" /\ \A i \in Items[r] : result[r][i] = "none"
    /\ writer[r].at = "inserting" =>
         status[r] = "Running" /\ \A i \in Items[r] \ writer[r].todo : result[r][i] # "none"
    /\ writer[r].at \in {"creating", "inserting"} => journal[r] = "created" /\ ~writer[r].recovering
    /\ writer[r].at = "none" => ~writer[r].recovering
    /\ journal[r] # "none" /\ writer[r].at \notin {"creating", "inserting"} =>
         status[r] # "none" /\ \A i \in Items[r] : result[r][i] # "none"

(* No item that was passed lacks its result, and an item has no other.     *)
ResultsInv(r) ==
    /\ \A i \in Items[r] : result[r][i] \in {"none", "running", fate[r].results[i]}
    /\ writer[r].at \in {"journalling", "recording", "counting", "notifying"} =>
         \A i \in Items[r] \ writer[r].todo : result[r][i] = fate[r].results[i]
    /\ writer[r].at \in {"completing", "status", "announcing", "over"} => AllFinal(r)

(* The status says Completed or Failed only when all results are there.    *)
StatusInv(r) ==
    /\ status[r] \in {"Completed", "Failed"} => AllFinal(r)
    /\ status[r] # "Cancelled"
    /\ writer[r].at = "announcing" => status[r] = fate[r].status
    /\ writer[r].at = "over" =>
         status[r] = fate[r].status \/ (faults > 0 /\ status[r] \in {"Completed", "Failed"})
    /\ writer[r].at = "none" /\ journal[r] # "none" => faults > 0
    /\ writer[r].at \notin {"failing", "abandoned"}

RunInv(r) == RowsInv(r) /\ ResultsInv(r) /\ StatusInv(r)

(* A wait that saw its run end finds all results, then and later.          *)
WaiterInv(w) ==
    /\ waiters[w].at # "idle" => waiters[w].run \in Run
    /\ waiters[w].at = "ended" /\ waiters[w].run \notin excused => AllFinal(waiters[w].run)
    /\ waiters[w].at = "done" /\ waiters[w].run \notin excused
         => waiters[w].got = Items[waiters[w].run]

MInv ==
    /\ MetadataTypes
    /\ \A r \in Run \ excused : RunInv(r)
    /\ \A w \in Waiter : WaiterInv(w)

-----------------------------------------------------------------------------
(* What a step of one run leaves alone, and what it must keep.             *)
SameRow(q) ==
    /\ journal'[q] = journal[q] /\ status'[q] = status[q]
    /\ result'[q] = result[q] /\ writer'[q] = writer[q]

SameWaits ==
    \A w \in Waiter : /\ waiters'[w].at = waiters[w].at
                      /\ waiters'[w].run = waiters[w].run
                      /\ waiters'[w].got = waiters[w].got

Monotone == /\ UNCHANGED <<backend, fate>>
            /\ excused \subseteq excused' /\ faults <= faults'

Keeps(q) == q \notin excused' => RunInv(q)' /\ (AllFinal(q) => AllFinal(q)')

StepOf(r) ==
    /\ MetadataTypes' /\ Monotone /\ SameWaits
    /\ \A q \in Run \ {r} : SameRow(q)
    /\ Keeps(r)

LEMMA SameRowKeeps ==
    ASSUME MInv, NEW q \in Run, SameRow(q), Monotone, MetadataTypes' PROVE Keeps(q)
<1> SUFFICES ASSUME q \notin excused'
             PROVE  RunInv(q)' /\ (AllFinal(q) => AllFinal(q)')
  BY DEF Keeps
<1>1. RunInv(q) /\ faults \in Nat /\ faults' \in Nat
  BY DEF MInv, Monotone, MetadataTypes
<1>2. RowsInv(q)'
  BY <1>1 DEF RunInv, RowsInv, SameRow
<1>3. ResultsInv(q)' /\ (AllFinal(q) => AllFinal(q)')
  BY <1>1 DEF RunInv, ResultsInv, SameRow, AllFinal, Monotone
<1>4. StatusInv(q)'
  BY <1>1 DEF RunInv, StatusInv, SameRow, AllFinal, Monotone
<1> QED BY <1>2, <1>3, <1>4 DEF RunInv

LEMMA KeepsMInv ==
    ASSUME MInv, MetadataTypes', Monotone, SameWaits, \A q \in Run : Keeps(q) PROVE MInv'
<1>1. \A q \in Run \ excused' : RunInv(q)'
  BY DEF Keeps
<1>2. ASSUME NEW w \in Waiter PROVE WaiterInv(w)'
  <2>1. WaiterInv(w)
    BY DEF MInv
  <2>2. waiters[w].at # "idle" => waiters[w].run \in Run
    BY <2>1 DEF WaiterInv
  <2>3. \A q \in Run : q \notin excused' => q \notin excused /\ (AllFinal(q) => AllFinal(q)')
    BY DEF Keeps, Monotone
  <2>4. WaiterInv(w)'
    BY <2>1, <2>2, <2>3 DEF WaiterInv, SameWaits, AllFinal
  <2> QED BY <2>4
<1> QED BY <1>1, <1>2 DEF MInv

LEMMA StepOfMInv == ASSUME MInv, NEW r \in Run, StepOf(r) PROVE MInv'
<1>1. ASSUME NEW q \in Run PROVE Keeps(q)
  <2>1. CASE q = r
    BY <2>1 DEF StepOf
  <2>2. CASE q # r
    BY <2>2, SameRowKeeps DEF StepOf
  <2> QED BY <2>1, <2>2
<1> QED BY <1>1, KeepsMInv DEF StepOf

LEMMA WriterState ==
    ASSUME NEW q \in Run, NEW at \in WriterAt, NEW todo \in SUBSET Items[q], NEW b \in BOOLEAN
    PROVE  [at |-> at, todo |-> todo, recovering |-> b]
             \in [at : WriterAt, todo : SUBSET Items[q], recovering : BOOLEAN]
OBVIOUS

(* The two ways in which the state of others than the run itself changes.  *)
LEMMA GoToEffect ==
    ASSUME MetadataTypes, NEW r \in Run, NEW at \in WriterAt, NEW todo \in SUBSET Items[r],
           GoTo(r, at, todo)
    PROVE  /\ DOMAIN writer' = Run
           /\ \A q \in Run : writer'[q] \in [at : WriterAt, todo : SUBSET Items[q],
                                           recovering : BOOLEAN]
           /\ writer'[r].at = at /\ writer'[r].todo = todo
           /\ writer'[r].recovering = writer[r].recovering
           /\ \A q \in Run \ {r} : writer'[q] = writer[q]
<1>1. /\ DOMAIN writer = Run /\ writer[r] \in [at : WriterAt, todo : SUBSET Items[r],
                                               recovering : BOOLEAN]
      /\ \A q \in Run : writer[q] \in [at : WriterAt, todo : SUBSET Items[q], recovering : BOOLEAN]
  BY DEF MetadataTypes
<1>2. writer' = [writer EXCEPT ![r] = [writer[r] EXCEPT !.at = at, !.todo = todo]]
  BY <1>1 DEF GoTo
<1> QED BY <1>1, <1>2

LEMMA NotifyEffect ==
    ASSUME MetadataTypes, NEW r \in Run, Notify(r)
    PROVE  waiters' \in [Waiter -> WaiterState] /\ SameWaits
<1> SUFFICES ASSUME NEW w \in Waiter
             PROVE  /\ waiters'[w] \in WaiterState
                    /\ waiters'[w].at = waiters[w].at
                    /\ waiters'[w].run = waiters[w].run
                    /\ waiters'[w].got = waiters[w].got
  BY DEF Notify, SameWaits
<1>1. waiters[w] \in WaiterState
  BY DEF MetadataTypes
<1>2. waiters[w].unread \in Seq(Run) /\ Capacity > 0 /\ Capacity \in Nat
  BY <1>1, MetadataAssumption DEF WaiterState
<1>3. \/ waiters'[w] = waiters[w]
      \/ waiters'[w] = [waiters[w] EXCEPT !.unread = Append(waiters[w].unread, r)]
      \/ /\ ~(Len(waiters[w].unread) < Capacity)
         /\ waiters'[w] = [waiters[w] EXCEPT !.unread = Append(Tail(waiters[w].unread), r),
                                             !.lagged = TRUE]
  BY DEF Notify
<1>4. Append(waiters[w].unread, r) \in Seq(Run)
  BY <1>2
<1>5. ~(Len(waiters[w].unread) < Capacity) => Append(Tail(waiters[w].unread), r) \in Seq(Run)
  BY <1>2
<1> QED BY <1>1, <1>3, <1>4, <1>5 DEF WaiterState

-----------------------------------------------------------------------------
(* The creation of a run.                                                  *)
LEMMA JournalCreatedStep ==
    ASSUME MInv, NEW r \in Run, JournalCreated(r) PROVE StepOf(r)
<1>1. /\ MetadataTypes /\ (r \notin excused => RunInv(r))
      /\ writer[r].at = "none" /\ journal[r] = "none"
      /\ journal' = [journal EXCEPT ![r] = "created"]
      /\ GoTo(r, "creating", {})
      /\ UNCHANGED <<backend, fate, status, result, waiters, excused, faults>>
  BY DEF MInv, JournalCreated, MayCreate, store
<1>2. /\ DOMAIN writer' = Run
      /\ \A q \in Run : writer'[q] \in [at : WriterAt, todo : SUBSET Items[q], recovering : BOOLEAN]
      /\ writer'[r].at = "creating" /\ writer'[r].todo = {}
      /\ writer'[r].recovering = writer[r].recovering
      /\ \A q \in Run \ {r} : writer'[q] = writer[q]
  BY <1>1, GoToEffect DEF WriterAt
<1>3. MetadataTypes'
  BY <1>1, <1>2 DEF MetadataTypes
<1>4. journal'[r] = "created" /\ \A q \in Run \ {r} : SameRow(q)
  BY <1>1, <1>2 DEF MetadataTypes, SameRow
<1>5. ASSUME r \notin excused PROVE RunInv(r)'
  <2>1. RowsInv(r) /\ ResultsInv(r) /\ StatusInv(r)
    BY <1>1, <1>5 DEF RunInv
  <2>2. RowsInv(r)'
    BY <1>1, <1>2, <1>4, <2>1 DEF RowsInv
  <2>3. ResultsInv(r)'
    BY <1>1, <1>2, <2>1 DEF ResultsInv
  <2>4. StatusInv(r)'
    BY <1>1, <1>2, <2>1 DEF StatusInv, RowsInv, AllFinal
  <2> QED BY <2>2, <2>3, <2>4 DEF RunInv
<1> QED
  BY <1>1, <1>3, <1>4, <1>5 DEF StepOf, Keeps, Monotone, SameWaits, AllFinal, MetadataTypes

(* Where a run goes on whose rows are there: a run that is not recovering  *)
(* is executed.                                                            *)
LEMMA CreatedEffect ==
    ASSUME MetadataTypes, NEW r \in Run, Created(r)
    PROVE  /\ DOMAIN writer' = Run
           /\ \A q \in Run : writer'[q] \in [at : WriterAt, todo : SUBSET Items[q],
                                           recovering : BOOLEAN]
           /\ ~writer[r].recovering => writer'[r].at = "running"
           /\ \A q \in Run \ {r} : writer'[q] = writer[q]
<1>1. {} \in SUBSET Items[r] /\ Items[r] \in SUBSET Items[r]
      /\ "running" \in WriterAt /\ "recording" \in WriterAt /\ "known" \in WriterAt
  BY DEF WriterAt
<1>2. CASE ~writer[r].recovering
  BY <1>1, <1>2, GoToEffect DEF Created
<1>3. CASE writer[r].recovering /\ journal[r] = "ended"
  BY <1>1, <1>3, GoToEffect DEF Created
<1>4. CASE writer[r].recovering /\ journal[r] # "ended"
  BY <1>1, <1>4, GoToEffect DEF Created
<1> QED BY <1>2, <1>3, <1>4

LEMMA InsertRunStep ==
    ASSUME MInv, NEW r \in Run, InsertRun(r) PROVE StepOf(r)
<1>1. /\ MetadataTypes /\ (r \notin excused => RunInv(r))
      /\ writer[r].at = "creating"
      /\ status' = [status EXCEPT ![r] = IF status[r] = "none" THEN "Running" ELSE status[r]]
      /\ UNCHANGED <<backend, fate, journal, waiters, excused, faults>>
  BY DEF MInv, InsertRun
<1>2. /\ DOMAIN writer' = Run
      /\ \A q \in Run : writer'[q] \in [at : WriterAt, todo : SUBSET Items[q], recovering : BOOLEAN]
      /\ \A q \in Run \ {r} : writer'[q] = writer[q]
      /\ DOMAIN result' = Run
      /\ \A q \in Run : result'[q] \in [Items[q] -> {"none", "running"} \union Recorded]
      /\ \A q \in Run \ {r} : result'[q] = result[q]
      /\ \/ /\ writer'[r].at = "inserting" /\ writer'[r].todo = Items[r] /\ result' = result
            /\ writer'[r].recovering = writer[r].recovering
         \/ /\ ~writer[r].recovering => writer'[r].at = "running"
            /\ result'[r] = [i \in Items[r] |-> "running"]
  <2>1. CASE backend = "memory"
    <3>1. result' = [result EXCEPT ![r] = [i \in Items[r] |-> "running"]] /\ Created(r)
      BY <2>1 DEF InsertRun
    <3> QED BY <1>1, <3>1, CreatedEffect DEF MetadataTypes
  <2>2. CASE backend # "memory"
    <3>1. GoTo(r, "inserting", Items[r]) /\ result' = result
      BY <2>2 DEF InsertRun
    <3>2. "inserting" \in WriterAt /\ Items[r] \in SUBSET Items[r]
      BY DEF WriterAt
    <3>3. /\ DOMAIN writer' = Run
          /\ \A q \in Run : writer'[q] \in [at : WriterAt, todo : SUBSET Items[q],
                                          recovering : BOOLEAN]
          /\ writer'[r].at = "inserting" /\ writer'[r].todo = Items[r]
          /\ writer'[r].recovering = writer[r].recovering
          /\ \A q \in Run \ {r} : writer'[q] = writer[q]
      BY <1>1, <3>1, <3>2, GoToEffect
    <3> QED BY <1>1, <3>1, <3>3 DEF MetadataTypes
  <2> QED BY <2>1, <2>2
<1>3. MetadataTypes'
  BY <1>1, <1>2 DEF MetadataTypes
<1>4. /\ status'[r] = IF status[r] = "none" THEN "Running" ELSE status[r]
      /\ \A q \in Run \ {r} : SameRow(q)
  BY <1>1, <1>2 DEF MetadataTypes, SameRow
<1>5. ASSUME r \notin excused PROVE RunInv(r)' /\ (AllFinal(r) => AllFinal(r)')
  <2>1. RowsInv(r) /\ ResultsInv(r) /\ StatusInv(r)
    BY <1>1, <1>5 DEF RunInv
  <2>2. /\ status[r] = "none" /\ status'[r] = "Running" /\ journal[r] = "created"
        /\ ~writer[r].recovering /\ \A i \in Items[r] : result[r][i] = "none"
    BY <1>1, <1>4, <2>1 DEF RowsInv
  <2>3. RowsInv(r)'
    BY <1>1, <1>2, <2>2 DEF RowsInv
  <2>4. ResultsInv(r)'
    BY <1>1, <1>2, <2>1, <2>2 DEF ResultsInv
  <2>5. StatusInv(r)'
    BY <1>1, <1>2, <2>1, <2>2 DEF StatusInv
  <2>6. ASSUME AllFinal(r) PROVE AllFinal(r)'
    <3>1. fate[r].results \in [Items[r] -> Recorded]
      BY <1>1, FateAssumption DEF MetadataTypes
    <3>2. \A i \in Items[r] : fate[r].results[i] \in Recorded /\ fate[r].results[i] = "none"
      BY <2>2, <2>6, <3>1 DEF AllFinal
    <3>3. Items[r] = {}
      BY <3>2 DEF Recorded
    <3>4. result'[r] \in [Items[r] -> {"none", "running"} \union Recorded]
      BY <1>2
    <3> QED BY <1>1, <3>1, <3>3, <3>4 DEF AllFinal
  <2> QED BY <2>3, <2>4, <2>5, <2>6 DEF RunInv
<1> QED BY <1>1, <1>3, <1>4, <1>5 DEF StepOf, Keeps, Monotone, SameWaits, MetadataTypes

LEMMA InsertItemStep ==
    ASSUME MInv, NEW r \in Run, InsertItem(r) PROVE StepOf(r)
<1>1. /\ MetadataTypes /\ (r \notin excused => RunInv(r))
      /\ writer[r].at = "inserting"
      /\ UNCHANGED <<backend, fate, journal, status, waiters, excused, faults>>
  BY DEF MInv, InsertItem
<1>2. /\ DOMAIN writer' = Run
      /\ \A q \in Run : writer'[q] \in [at : WriterAt, todo : SUBSET Items[q], recovering : BOOLEAN]
      /\ \A q \in Run \ {r} : writer'[q] = writer[q]
      /\ DOMAIN result' = Run
      /\ \A q \in Run : result'[q] \in [Items[q] -> {"none", "running"} \union Recorded]
      /\ \A q \in Run \ {r} : result'[q] = result[q]
      /\ \/ /\ writer[r].todo = {} /\ result' = result
            /\ ~writer[r].recovering => writer'[r].at = "running"
         \/ /\ writer'[r].at = "inserting" /\ writer'[r].recovering = writer[r].recovering
            /\ \E i \in writer[r].todo :
                 /\ writer'[r].todo = writer[r].todo \ {i}
                 /\ \A j \in Items[r] : result'[r][j] =
                      IF j = i /\ result[r][i] = "none" THEN "running" ELSE result[r][j]
  <2>1. CASE writer[r].todo = {}
    <3>1. Created(r) /\ result' = result
      BY <2>1 DEF InsertItem
    <3> QED BY <1>1, <2>1, <3>1, CreatedEffect DEF MetadataTypes
  <2>2. CASE writer[r].todo # {}
    <3>1. PICK i \in writer[r].todo :
             /\ result' = [result EXCEPT ![r][i] = IF result[r][i] = "none" THEN "running"
                                                   ELSE result[r][i]]
             /\ GoTo(r, "inserting", writer[r].todo \ {i})
      BY <2>2 DEF InsertItem
    <3>2. /\ "inserting" \in WriterAt /\ writer[r].todo \in SUBSET Items[r] /\ i \in Items[r]
          /\ writer[r].todo \ {i} \in SUBSET Items[r]
          /\ result[r] \in [Items[r] -> {"none", "running"} \union Recorded]
      BY <1>1 DEF WriterAt, MetadataTypes
    <3>3. /\ DOMAIN writer' = Run
          /\ \A q \in Run : writer'[q] \in [at : WriterAt, todo : SUBSET Items[q],
                                          recovering : BOOLEAN]
          /\ writer'[r].at = "inserting" /\ writer'[r].todo = writer[r].todo \ {i}
          /\ writer'[r].recovering = writer[r].recovering
          /\ \A q \in Run \ {r} : writer'[q] = writer[q]
      BY <1>1, <3>1, <3>2, GoToEffect
    <3>4. /\ DOMAIN result' = Run /\ \A q \in Run \ {r} : result'[q] = result[q]
          /\ result'[r] = [result[r] EXCEPT ![i] = IF result[r][i] = "none" THEN "running"
                                                   ELSE result[r][i]]
      BY <1>1, <3>1 DEF MetadataTypes
    <3>5. /\ result'[r] \in [Items[r] -> {"none", "running"} \union Recorded]
          /\ \A j \in Items[r] : result'[r][j] =
               IF j = i /\ result[r][i] = "none" THEN "running" ELSE result[r][j]
      BY <3>2, <3>4
    <3>6. \A q \in Run : result'[q] \in [Items[q] -> {"none", "running"} \union Recorded]
      BY <1>1, <3>4, <3>5 DEF MetadataTypes
    <3> QED BY <3>3, <3>4, <3>5, <3>6
  <2> QED BY <2>1, <2>2
<1>3. MetadataTypes'
  BY <1>1, <1>2 DEF MetadataTypes
<1>4. \A q \in Run \ {r} : SameRow(q)
  BY <1>1, <1>2 DEF SameRow
<1>5. ASSUME r \notin excused PROVE RunInv(r)' /\ (AllFinal(r) => AllFinal(r)')
  <2>1. RowsInv(r) /\ ResultsInv(r) /\ StatusInv(r)
    BY <1>1, <1>5 DEF RunInv
  <2>2. /\ status[r] = "Running" /\ journal[r] = "created" /\ ~writer[r].recovering
        /\ \A i \in Items[r] \ writer[r].todo : result[r][i] # "none"
    BY <1>1, <2>1 DEF RowsInv
  <2>3. RowsInv(r)'
    BY <1>1, <1>2, <2>2 DEF RowsInv
  <2>4. ResultsInv(r)'
    BY <1>1, <1>2, <2>1, <2>2 DEF ResultsInv
  <2>5. StatusInv(r)'
    BY <1>1, <1>2, <2>1, <2>2 DEF StatusInv
  <2>6. ASSUME AllFinal(r) PROVE AllFinal(r)'
    <3>1. fate[r].results \in [Items[r] -> Recorded]
      BY <1>1, FateAssumption DEF MetadataTypes
    <3>2. \A j \in Items[r] : result[r][j] # "none"
      BY <2>6, <3>1 DEF AllFinal, Recorded
    <3>3. \A j \in Items[r] : result'[r][j] = result[r][j]
      BY <1>2, <3>2
    <3>4. /\ result'[r] \in [Items[r] -> {"none", "running"} \union Recorded]
          /\ result[r] \in [Items[r] -> {"none", "running"} \union Recorded]
      BY <1>1, <1>2 DEF MetadataTypes
    <3>5. result'[r] = result[r]
      BY <3>3, <3>4
    <3> QED BY <1>1, <2>6, <3>5 DEF AllFinal
  <2> QED BY <2>3, <2>4, <2>5, <2>6 DEF RunInv
<1> QED BY <1>1, <1>3, <1>4, <1>5 DEF StepOf, Keeps, Monotone, SameWaits, MetadataTypes

LEMMA ExcuseEffect ==
    ASSUME MetadataTypes, NEW r \in Run, Fault \/ faults' = faults, Excuse(r)
    PROVE  /\ excused' \subseteq Run /\ \A q \in excused' : Tree(q) \subseteq excused'
           /\ excused \subseteq excused' /\ r \in excused'
           /\ faults' \in Nat /\ faults <= faults'
BY DEF MetadataTypes, Excuse, Tree, Fault

LEMMA CreationFailsStep ==
    ASSUME MInv, NEW r \in Run, CreationFails(r) PROVE StepOf(r)
<1>1. /\ MetadataTypes /\ Fault /\ Excuse(r)
      /\ UNCHANGED <<backend, fate, journal, status, result, waiters>>
  BY DEF MInv, CreationFails, store
<1>2. /\ DOMAIN writer' = Run
      /\ \A q \in Run : writer'[q] \in [at : WriterAt, todo : SUBSET Items[q], recovering : BOOLEAN]
      /\ \A q \in Run \ {r} : writer'[q] = writer[q]
  <2>1. "none" \in WriterAt /\ {} \in SUBSET Items[r]
    BY DEF WriterAt
  <2>2. CASE IsRoot(r)
    BY <1>1, <2>1, <2>2, GoToEffect DEF CreationFails
  <2>3. CASE ~IsRoot(r)
    BY <1>1, <2>3, CreatedEffect DEF CreationFails
  <2> QED BY <2>2, <2>3
<1>3. /\ excused' \subseteq Run /\ \A q \in excused' : Tree(q) \subseteq excused'
      /\ excused \subseteq excused' /\ r \in excused' /\ faults' \in Nat /\ faults <= faults'
  BY <1>1, ExcuseEffect
<1>4. MetadataTypes'
  BY <1>1, <1>2, <1>3 DEF MetadataTypes
<1> QED BY <1>1, <1>2, <1>3, <1>4 DEF StepOf, Keeps, Monotone, SameWaits, SameRow

-----------------------------------------------------------------------------
(* The end of a run.  Its writer goes on to where the results that are     *)
(* recorded allow, and the status follows when all are.                    *)
MayRecord(r, todo) ==
    /\ writer[r].at \notin {"none", "creating", "inserting"}
    /\ \A i \in Items[r] \ todo : result'[r][i] = fate[r].results[i]

EndOf(r, at, todo) ==
    /\ UNCHANGED <<backend, fate, excused, faults>>
    /\ GoTo(r, at, todo)
    /\ journal' \in {journal, [journal EXCEPT ![r] = "ended"]}
    /\ result' = result
         \/ \E i \in Items[r] : result' = [result EXCEPT ![r] = [result[r] EXCEPT ![i] = fate[r].results[i]]]
    /\ status' = status \/ \E s \in {"Completed", "Failed"} : status' = [status EXCEPT ![r] = s]
    /\ waiters' = waiters \/ Notify(r)
    /\ r \notin excused =>
         /\ MayRecord(r, todo)
         /\ at \in {"completing", "status", "announcing", "over"} \/ status' # status => AllFinal(r)'
         /\ at \in {"announcing", "over"} => status'[r] = fate[r].status

LEMMA EndStep ==
    ASSUME MInv, NEW r \in Run, NEW todo \in SUBSET Items[r],
           NEW at \in {"journalling", "recording", "counting", "completing", "notifying", "status",
                       "announcing", "over"},
           EndOf(r, at, todo)
    PROVE  StepOf(r)
<1>1. MetadataTypes /\ (r \notin excused => RunInv(r))
  BY DEF MInv
<1>2. /\ DOMAIN writer' = Run
      /\ \A q \in Run : writer'[q] \in [at : WriterAt, todo : SUBSET Items[q], recovering : BOOLEAN]
      /\ writer'[r].at = at /\ writer'[r].todo = todo
      /\ \A q \in Run \ {r} : writer'[q] = writer[q]
  BY <1>1, GoToEffect DEF WriterAt, EndOf
<1>3. waiters' \in [Waiter -> WaiterState] /\ SameWaits
  <2>1. CASE waiters' = waiters
    BY <1>1, <2>1 DEF MetadataTypes, SameWaits
  <2>2. CASE Notify(r)
    BY <1>1, <2>2, NotifyEffect
  <2> QED BY <2>1, <2>2 DEF EndOf
<1>4. fate[r].results \in [Items[r] -> Recorded] /\ fate[r].status \in {"Completed", "Failed"}
  BY <1>1, FateAssumption DEF MetadataTypes
<1>5. /\ DOMAIN result' = Run
      /\ \A q \in Run : result'[q] \in [Items[q] -> {"none", "running"} \union Recorded]
      /\ \A q \in Run \ {r} : result'[q] = result[q]
      /\ \A i \in Items[r] : result'[r][i] \in {result[r][i], fate[r].results[i]}
  <2>1. CASE result' = result
    BY <1>1, <2>1 DEF MetadataTypes
  <2>2. CASE result' # result
    <3>1. PICK i \in Items[r] :
             result' = [result EXCEPT ![r] = [result[r] EXCEPT ![i] = fate[r].results[i]]]
      BY <2>2 DEF EndOf
    <3>2. /\ DOMAIN result = Run
          /\ \A q \in Run : result[q] \in [Items[q] -> {"none", "running"} \union Recorded]
      BY <1>1 DEF MetadataTypes
    <3>3. /\ DOMAIN result' = Run /\ \A q \in Run \ {r} : result'[q] = result[q]
          /\ result'[r] = [result[r] EXCEPT ![i] = fate[r].results[i]]
      BY <3>1, <3>2
    <3>4. result'[r] \in [Items[r] -> {"none", "running"} \union Recorded]
      BY <1>4, <3>2, <3>3
    <3>5. \A j \in Items[r] : result'[r][j] \in {result[r][j], fate[r].results[j]}
      BY <3>2, <3>3
    <3> QED BY <3>2, <3>3, <3>4, <3>5
  <2> QED BY <2>1, <2>2
<1>6. /\ status' \in [Run -> {"none", "Running"} \union Terminal]
      /\ \A q \in Run \ {r} : status'[q] = status[q]
      /\ status' = status \/ status'[r] \in {"Completed", "Failed"}
  <2>1. status \in [Run -> {"none", "Running"} \union Terminal]
    BY <1>1 DEF MetadataTypes
  <2>2. CASE status' = status
    BY <2>1, <2>2
  <2>3. CASE status' # status
    <3>1. PICK s \in {"Completed", "Failed"} : status' = [status EXCEPT ![r] = s]
      BY <2>3 DEF EndOf
    <3> QED BY <2>1, <3>1 DEF Terminal
  <2> QED BY <2>2, <2>3
<1>7. /\ journal' \in [Run -> {"none", "created", "ended"}]
      /\ \A q \in Run \ {r} : journal'[q] = journal[q]
      /\ journal'[r] \in {journal[r], "ended"}
  BY <1>1 DEF MetadataTypes, EndOf
<1>8. MetadataTypes'
  BY <1>1, <1>2, <1>3, <1>5, <1>6, <1>7 DEF MetadataTypes, EndOf
<1>9. \A q \in Run \ {r} : SameRow(q)
  BY <1>2, <1>5, <1>6, <1>7 DEF SameRow
<1>10. UNCHANGED <<fate, excused, faults>>
  BY DEF EndOf
<1>11. ASSUME r \notin excused PROVE RunInv(r)' /\ (AllFinal(r) => AllFinal(r)')
  <2>1. /\ RowsInv(r) /\ ResultsInv(r) /\ StatusInv(r) /\ MayRecord(r, todo)
        /\ at \in {"completing", "status", "announcing", "over"} \/ status' # status => AllFinal(r)'
        /\ at \in {"announcing", "over"} => status'[r] = fate[r].status
    BY <1>1, <1>11 DEF RunInv, EndOf
  <2>2. /\ journal[r] # "none" /\ status[r] # "none"
        /\ \A i \in Items[r] : result[r][i] # "none"
    BY <2>1 DEF RowsInv, MayRecord
  <2>3. /\ result[r] \in [Items[r] -> {"none", "running"} \union Recorded]
        /\ result'[r] \in [Items[r] -> {"none", "running"} \union Recorded]
    BY <1>1, <1>5 DEF MetadataTypes
  <2>4. AllFinal(r) => AllFinal(r)'
    <3> SUFFICES ASSUME AllFinal(r) PROVE AllFinal(r)'
      OBVIOUS
    <3>1. \A i \in Items[r] : result'[r][i] = result[r][i]
      BY <1>5 DEF AllFinal
    <3> QED BY <1>10, <2>3, <3>1 DEF AllFinal
  <2>5. RowsInv(r)'
    <3>1. \A i \in Items[r] : result'[r][i] # "none"
      BY <1>4, <1>5, <2>2 DEF Recorded
    <3>2. journal'[r] # "none" /\ status'[r] # "none"
      BY <1>6, <1>7, <2>2
    <3> QED BY <1>2, <3>1, <3>2 DEF RowsInv
  <2>6. ResultsInv(r)'
    <3>1. \A i \in Items[r] : result'[r][i] \in {"none", "running", fate'[r].results[i]}
      BY <1>5, <1>10, <2>1 DEF ResultsInv
    <3> QED BY <1>2, <1>10, <2>1, <3>1 DEF ResultsInv, MayRecord
  <2>7. StatusInv(r)'
    <3>1. status'[r] \in {"Completed", "Failed"} => AllFinal(r)'
      BY <2>1, <2>4 DEF StatusInv
    <3>2. status'[r] # "Cancelled"
      BY <1>6, <2>1 DEF StatusInv
    <3> QED BY <1>2, <1>10, <2>1, <3>1, <3>2 DEF StatusInv
  <2> QED BY <2>4, <2>5, <2>6, <2>7 DEF RunInv
<1> QED BY <1>3, <1>8, <1>9, <1>10, <1>11 DEF StepOf, Keeps, Monotone, EndOf, MetadataTypes

LEMMA ExecuteStep ==
    ASSUME MInv, NEW r \in Run, Execute(r) PROVE StepOf(r)
<1>1. PICK at \in {"journalling", "recording"} : at = IF IsRoot(r) THEN "recording" ELSE "journalling"
  OBVIOUS
<1>2. EndOf(r, at, Items[r])
  BY <1>1 DEF Execute, EndOf, MayRecord, store
<1> QED BY <1>2, EndStep

LEMMA JournalCompletedStep ==
    ASSUME MInv, NEW r \in Run, JournalCompleted(r) PROVE StepOf(r)
<1> DEFINE todo == writer[r].todo
<1>1. MetadataTypes /\ (r \notin excused => ResultsInv(r)) /\ writer[r].at = "journalling"
  BY DEF MInv, RunInv, JournalCompleted
<1>2. todo \in SUBSET Items[r] /\ result[r] \in [Items[r] -> {"none", "running"} \union Recorded]
      /\ fate[r].results \in [Items[r] -> Recorded]
  BY <1>1, FateAssumption DEF MetadataTypes
<1>3. r \notin excused => \A i \in Items[r] \ todo : result[r][i] = fate[r].results[i]
  BY <1>1 DEF ResultsInv
<1>4. r \notin excused /\ todo = {} => AllFinal(r)
  BY <1>2, <1>3 DEF AllFinal
<1>5. PICK at \in {"recording", "status"} : at = IF todo = {} THEN "status" ELSE "recording"
  OBVIOUS
<1>6. UNCHANGED <<backend, fate, status, result, waiters, excused, faults>>
      /\ journal' = [journal EXCEPT ![r] = "ended"] /\ GoTo(r, at, todo)
  BY <1>5 DEF JournalCompleted, store
<1>7. EndOf(r, at, todo)
  BY <1>1, <1>3, <1>4, <1>5, <1>6 DEF EndOf, MayRecord, AllFinal
<1> QED BY <1>2, <1>7, EndStep

(* Onward goes to the next item, or when there is none to what follows.    *)
LEMMA OnwardStep ==
    ASSUME MInv, NEW r \in Run, NEW todo \in SUBSET Items[r], Onward(r, todo),
           UNCHANGED <<backend, fate, journal, status, excused, faults>>,
           \/ result' = result
           \/ \E i \in Items[r] :
                result' = [result EXCEPT ![r] = [result[r] EXCEPT ![i] = fate[r].results[i]]],
           waiters' = waiters \/ Notify(r),
           r \notin excused => MayRecord(r, todo),
           r \notin excused => result'[r] \in [Items[r] -> {"none", "running"} \union Recorded]
    PROVE  StepOf(r)
<1>1. fate[r].results \in [Items[r] -> Recorded]
  BY FateAssumption DEF MInv, MetadataTypes
<1>2. r \notin excused /\ todo = {} => AllFinal(r)'
  BY <1>1 DEF AllFinal, MayRecord
<1>3. PICK at \in {"recording", "status", "journalling"} :
         at = IF todo # {} THEN "recording"
              ELSE IF journal[r] = "ended" THEN "status" ELSE "journalling"
  OBVIOUS
<1>4. EndOf(r, at, todo)
  BY <1>2, <1>3 DEF EndOf, Onward
<1> QED BY <1>4, EndStep

LEMMA RecordInMemoryStep ==
    ASSUME MInv, NEW r \in Run, NEW i \in Items[r], RecordInMemory(r, i) PROVE StepOf(r)
<1> DEFINE results == [result[r] EXCEPT ![i] = fate[r].results[i]]
           todo == writer[r].todo \ {i}
<1>1. /\ MetadataTypes /\ (r \notin excused => RowsInv(r) /\ ResultsInv(r))
      /\ writer[r].at = "recording" /\ i \in writer[r].todo
      /\ result' = [result EXCEPT ![r] = results]
      /\ UNCHANGED <<backend, fate, journal, waiters, excused, faults>>
  BY DEF MInv, RunInv, RecordInMemory
<1>2. /\ todo \in SUBSET Items[r] /\ fate[r].results \in [Items[r] -> Recorded]
      /\ result[r] \in [Items[r] -> {"none", "running"} \union Recorded] /\ r \in DOMAIN result
  BY <1>1, FateAssumption DEF MetadataTypes
<1>3. result'[r] = results /\ results \in [Items[r] -> {"none", "running"} \union Recorded]
  BY <1>1, <1>2
<1>4. \A j \in Items[r] : results[j] = IF j = i THEN fate[r].results[i] ELSE result[r][j]
  BY <1>2
<1>5. r \notin excused => MayRecord(r, todo)
  BY <1>1, <1>3, <1>4 DEF MayRecord, ResultsInv
<1>6. CASE AllRecorded(results)
  <2>1. r \notin excused => AllFinal(r)'
    <3> SUFFICES ASSUME r \notin excused PROVE results = fate[r].results
      BY <1>1, <1>3 DEF AllFinal
    <3>1. \A j \in Items[r] : result[r][j] \in {"running", fate[r].results[j]}
      BY <1>1 DEF RowsInv, ResultsInv
    <3>2. \A j \in Items[r] : results[j] # "running"
      BY <1>3, <1>6 DEF AllRecorded
    <3>3. \A j \in Items[r] : results[j] = fate[r].results[j]
      BY <1>4, <3>1, <3>2
    <3> QED BY <1>2, <1>3, <3>3
  <2>2. /\ status' = [status EXCEPT ![r] = ByItems(results)] /\ GoTo(r, "notifying", todo)
        /\ ByItems(results) \in {"Completed", "Failed"}
    BY <1>6 DEF RecordInMemory, ByItems
  <2>3. EndOf(r, "notifying", todo)
    BY <1>1, <1>5, <2>1, <2>2 DEF EndOf
  <2> QED BY <1>2, <2>3, EndStep
<1>7. CASE ~AllRecorded(results)
  <2>1. status' = status /\ Onward(r, todo)
    BY <1>7 DEF RecordInMemory
  <2> QED BY <1>1, <1>2, <1>3, <1>5, <2>1, OnwardStep
<1> QED BY <1>6, <1>7

LEMMA UpdateItemStep ==
    ASSUME MInv, NEW r \in Run, NEW i \in Items[r], UpdateItem(r, i) PROVE StepOf(r)
<1> DEFINE todo == writer[r].todo \ {i}
<1>1. /\ MetadataTypes /\ (r \notin excused => ResultsInv(r))
      /\ writer[r].at = "recording" /\ i \in writer[r].todo
      /\ result' = [result EXCEPT ![r] = [result[r] EXCEPT ![i] = fate[r].results[i]]]
      /\ GoTo(r, "counting", todo)
      /\ UNCHANGED <<backend, fate, journal, status, waiters, excused, faults>>
  BY DEF MInv, RunInv, UpdateItem
<1>2. /\ todo \in SUBSET Items[r] /\ r \in DOMAIN result
      /\ result[r] \in [Items[r] -> {"none", "running"} \union Recorded]
  BY <1>1 DEF MetadataTypes
<1>3. \A j \in Items[r] : result'[r][j] = IF j = i THEN fate[r].results[i] ELSE result[r][j]
  BY <1>1, <1>2
<1>4. r \notin excused => MayRecord(r, todo)
  BY <1>1, <1>3 DEF MayRecord, ResultsInv
<1>5. EndOf(r, "counting", todo)
  BY <1>1, <1>4 DEF EndOf
<1> QED BY <1>2, <1>5, EndStep

LEMMA CountItemsStep ==
    ASSUME MInv, NEW r \in Run, CountItems(r) PROVE StepOf(r)
<1> DEFINE todo == writer[r].todo
<1>1. /\ MetadataTypes /\ (r \notin excused => RowsInv(r) /\ ResultsInv(r))
      /\ writer[r].at = "counting"
      /\ UNCHANGED <<backend, fate, journal, status, result, waiters, excused, faults>>
  BY DEF MInv, RunInv, CountItems, store
<1>2. /\ todo \in SUBSET Items[r] /\ fate[r].results \in [Items[r] -> Recorded]
      /\ result[r] \in [Items[r] -> {"none", "running"} \union Recorded]
  BY <1>1, FateAssumption DEF MetadataTypes
<1>3. r \notin excused => MayRecord(r, todo)
  BY <1>1 DEF MayRecord, ResultsInv
<1>4. CASE AllRecorded(result[r])
  <2>1. r \notin excused => AllFinal(r)'
    <3> SUFFICES ASSUME r \notin excused PROVE result[r] = fate[r].results
      BY <1>1 DEF AllFinal
    <3>1. \A j \in Items[r] : result[r][j] \in {"running", fate[r].results[j]}
      BY <1>1 DEF RowsInv, ResultsInv
    <3>2. \A j \in Items[r] : result[r][j] # "running"
      BY <1>2, <1>4 DEF AllRecorded
    <3> QED BY <1>2, <3>1, <3>2
  <2>2. EndOf(r, "completing", todo)
    BY <1>1, <1>3, <1>4, <2>1 DEF EndOf, CountItems
  <2> QED BY <1>2, <2>2, EndStep
<1>5. CASE ~AllRecorded(result[r])
  <2>1. Onward(r, todo)
    BY <1>5 DEF CountItems
  <2> QED BY <1>1, <1>2, <1>3, <2>1, OnwardStep
<1> QED BY <1>4, <1>5

LEMMA CompleteRunStep ==
    ASSUME MInv, NEW r \in Run, CompleteRun(r) PROVE StepOf(r)
<1>1. /\ MetadataTypes /\ (r \notin excused => ResultsInv(r))
      /\ writer[r].at = "completing"
      /\ status' = [status EXCEPT ![r] = ByItems(result[r])]
      /\ ByItems(result[r]) \in {"Completed", "Failed"}
      /\ GoTo(r, "notifying", writer[r].todo)
      /\ UNCHANGED <<backend, fate, journal, result, waiters, excused, faults>>
  BY DEF MInv, RunInv, CompleteRun, ByItems
<1>2. r \notin excused => AllFinal(r)' /\ MayRecord(r, writer[r].todo)
  BY <1>1 DEF ResultsInv, AllFinal, MayRecord
<1>3. EndOf(r, "notifying", writer[r].todo) /\ writer[r].todo \in SUBSET Items[r]
  BY <1>1, <1>2 DEF EndOf, MetadataTypes
<1> QED BY <1>3, EndStep

LEMMA NotifyRecordedStep ==
    ASSUME MInv, NEW r \in Run, NotifyRecorded(r) PROVE StepOf(r)
<1>1. /\ MetadataTypes /\ (r \notin excused => ResultsInv(r))
      /\ writer[r].at = "notifying" /\ Notify(r) /\ Onward(r, writer[r].todo)
      /\ UNCHANGED <<backend, fate, journal, status, result, excused, faults>>
  BY DEF MInv, RunInv, NotifyRecorded, store
<1>2. /\ writer[r].todo \in SUBSET Items[r]
      /\ result[r] \in [Items[r] -> {"none", "running"} \union Recorded]
  BY <1>1 DEF MetadataTypes
<1>3. r \notin excused => MayRecord(r, writer[r].todo)
  BY <1>1 DEF ResultsInv, MayRecord
<1> QED BY <1>1, <1>2, <1>3, OnwardStep

LEMMA UpdateStatusStep ==
    ASSUME MInv, NEW r \in Run, UpdateStatus(r) PROVE StepOf(r)
<1>1. /\ MetadataTypes /\ (r \notin excused => RowsInv(r) /\ ResultsInv(r))
      /\ writer[r].at = "status"
      /\ status' = [status EXCEPT ![r] = IF status[r] = "none" THEN status[r] ELSE fate[r].status]
      /\ GoTo(r, "announcing", {})
      /\ UNCHANGED <<backend, fate, journal, result, waiters, excused, faults>>
  BY DEF MInv, RunInv, UpdateStatus
<1>2. /\ status \in [Run -> {"none", "Running"} \union Terminal]
      /\ fate[r].status \in {"Completed", "Failed"}
  BY <1>1, FateAssumption DEF MetadataTypes
<1>3. \/ status[r] = "none" /\ status' = status
      \/ status' = [status EXCEPT ![r] = fate[r].status] /\ status'[r] = fate[r].status
  BY <1>1, <1>2
<1>4. r \notin excused => AllFinal(r)' /\ MayRecord(r, {}) /\ status'[r] = fate[r].status
  <2> SUFFICES ASSUME r \notin excused
               PROVE  AllFinal(r)' /\ MayRecord(r, {}) /\ status'[r] = fate[r].status
    OBVIOUS
  <2>1. AllFinal(r) /\ AllFinal(r)'
    BY <1>1 DEF ResultsInv, AllFinal
  <2>2. status[r] # "none"
    BY <1>1 DEF RowsInv
  <2> QED BY <1>1, <1>3, <2>1, <2>2 DEF AllFinal, MayRecord
<1>5. EndOf(r, "announcing", {})
  BY <1>1, <1>2, <1>3, <1>4 DEF EndOf
<1> QED BY <1>5, EndStep

LEMMA NotifyStatusStep ==
    ASSUME MInv, NEW r \in Run, NotifyStatus(r) PROVE StepOf(r)
<1>1. /\ MetadataTypes /\ (r \notin excused => ResultsInv(r) /\ StatusInv(r))
      /\ writer[r].at = "announcing" /\ Notify(r) /\ GoTo(r, "over", {})
      /\ UNCHANGED <<backend, fate, journal, status, result, excused, faults>>
  BY DEF MInv, RunInv, NotifyStatus, store
<1>2. r \notin excused => AllFinal(r)' /\ MayRecord(r, {}) /\ status'[r] = fate[r].status
  BY <1>1 DEF ResultsInv, StatusInv, AllFinal, MayRecord
<1>3. EndOf(r, "over", {})
  BY <1>1, <1>2 DEF EndOf
<1> QED BY <1>3, EndStep

-----------------------------------------------------------------------------
(* What fails or is cancelled touches the runs of one tree, all of them    *)
(* excused.                                                                *)
LEMMA ExcusedStep ==
    ASSUME MInv, MetadataTypes', Monotone, SameWaits,
           NEW r \in Run, r \in excused', \A q \in Run \ Tree(r) : SameRow(q)
    PROVE  MInv'
<1>1. ASSUME NEW q \in Run PROVE Keeps(q)
  <2>1. CASE q \in Tree(r)
    BY <2>1 DEF MetadataTypes, Keeps
  <2>2. CASE q \notin Tree(r)
    BY <2>2, SameRowKeeps
  <2> QED BY <2>1, <2>2
<1> QED BY <1>1, KeepsMInv

LEMMA NotRecordedEffect ==
    ASSUME MetadataTypes, NEW r \in Run, NEW i \in Items[r], NotRecorded(r, i)
    PROVE  /\ DOMAIN writer' = Run
           /\ \A q \in Run : writer'[q] \in [at : WriterAt, todo : SUBSET Items[q],
                                           recovering : BOOLEAN]
           /\ \A q \in Run \ Tree(r) : writer'[q] = writer[q]
<1>1. CASE writer[r].recovering
  <2>1. GiveUp(r)
    BY <1>1 DEF NotRecorded
  <2>2. ASSUME NEW q \in Run, q \in Tree(r)
        PROVE  writer'[q] \in [at : WriterAt, todo : SUBSET Items[q], recovering : BOOLEAN]
    <3>1. \/ writer'[q] = [at |-> "failing", todo |-> {}, recovering |-> FALSE]
          \/ writer'[q] = [at |-> "abandoned", todo |-> {}, recovering |-> FALSE]
      BY <2>1, <2>2 DEF GiveUp, Absent
    <3>2. PICK at \in WriterAt : writer'[q] = [at |-> at, todo |-> {}, recovering |-> FALSE]
      BY <3>1 DEF WriterAt
    <3> QED BY <3>2, WriterState
  <2>3. \A q \in Run \ Tree(r) : writer'[q] = writer[q]
    BY <2>1 DEF GiveUp
  <2> QED BY <2>1, <2>2, <2>3 DEF GiveUp, MetadataTypes
<1>2. CASE ~writer[r].recovering
  <2> DEFINE todo == writer[r].todo \ {i}
  <2>1. Onward(r, todo) /\ todo \in SUBSET Items[r] /\ r \in Tree(r)
    BY <1>2 DEF NotRecorded, MetadataTypes, Tree
  <2>2. PICK at \in {"recording", "status", "journalling"} :
           at = IF todo # {} THEN "recording"
                ELSE IF journal[r] = "ended" THEN "status" ELSE "journalling"
    OBVIOUS
  <2>3. GoTo(r, at, todo) /\ at \in WriterAt
    BY <2>1, <2>2 DEF Onward, WriterAt
  <2>4. /\ DOMAIN writer' = Run
        /\ \A q \in Run : writer'[q] \in [at : WriterAt, todo : SUBSET Items[q],
                                        recovering : BOOLEAN]
        /\ \A q \in Run \ {r} : writer'[q] = writer[q]
    BY <2>1, <2>3, GoToEffect
  <2> QED BY <2>1, <2>4
<1> QED BY <1>1, <1>2

(* The rows of a run that is not excused are all there.                    *)
LEMMA FindNoItemStep ==
    ASSUME MInv, NEW r \in Run, NEW i \in Items[r], FindNoItem(r, i) PROVE MInv'
<1>1. /\ MetadataTypes /\ (r \notin excused => RowsInv(r))
      /\ writer[r].at = "recording" /\ result[r][i] = "none" /\ NotRecorded(r, i)
      /\ UNCHANGED <<backend, fate, journal, status, result, waiters, excused, faults>>
  BY DEF MInv, RunInv, FindNoItem, Missing, store
<1>2. r \in excused
  BY <1>1 DEF RowsInv
<1>3. MetadataTypes' /\ \A q \in Run \ Tree(r) : SameRow(q)
  BY <1>1, NotRecordedEffect DEF MetadataTypes, SameRow
<1>4. Monotone /\ SameWaits
  BY <1>1 DEF Monotone, SameWaits, MetadataTypes
<1> QED BY <1>1, <1>2, <1>3, <1>4, ExcusedStep

LEMMA RecordFailsStep ==
    ASSUME MInv, NEW r \in Run, NEW i \in Items[r], RecordFails(r, i) PROVE MInv'
<1>1. /\ MetadataTypes /\ Fault /\ Excuse(r) /\ NotRecorded(r, i)
      /\ UNCHANGED <<backend, fate, journal, status, result, waiters>>
  BY DEF MInv, RecordFails, store
<1>2. /\ excused' \subseteq Run /\ \A q \in excused' : Tree(q) \subseteq excused'
      /\ excused \subseteq excused' /\ r \in excused' /\ faults' \in Nat /\ faults <= faults'
  BY <1>1, ExcuseEffect
<1>3. MetadataTypes' /\ \A q \in Run \ Tree(r) : SameRow(q)
  BY <1>1, <1>2, NotRecordedEffect DEF MetadataTypes, SameRow
<1>4. Monotone /\ SameWaits
  BY <1>1, <1>2 DEF Monotone, SameWaits
<1> QED BY <1>2, <1>3, <1>4, ExcusedStep

LEMMA FailRecoveryStep ==
    ASSUME MInv, NEW r \in Run, FailRecovery(r) PROVE MInv'
<1>1. /\ MetadataTypes /\ (r \notin excused => StatusInv(r))
      /\ writer[r].at = "failing" /\ Notify(r) /\ GoTo(r, "abandoned", {})
      /\ status' = [status EXCEPT ![r] = "Failed"]
      /\ UNCHANGED <<backend, fate, journal, result, excused, faults>>
  BY DEF MInv, RunInv, FailRecovery
<1>2. r \in excused /\ r \in Tree(r)
  BY <1>1 DEF StatusInv, Tree
<1>3. /\ DOMAIN writer' = Run
      /\ \A q \in Run : writer'[q] \in [at : WriterAt, todo : SUBSET Items[q], recovering : BOOLEAN]
      /\ \A q \in Run \ {r} : writer'[q] = writer[q]
  BY <1>1, GoToEffect DEF WriterAt
<1>4. waiters' \in [Waiter -> WaiterState] /\ SameWaits
  BY <1>1, NotifyEffect
<1>5. status' \in [Run -> {"none", "Running"} \union Terminal]
      /\ \A q \in Run \ {r} : status'[q] = status[q]
  BY <1>1 DEF MetadataTypes, Terminal
<1>6. MetadataTypes' /\ \A q \in Run \ Tree(r) : SameRow(q)
  BY <1>1, <1>2, <1>3, <1>4, <1>5 DEF MetadataTypes, SameRow
<1>7. Monotone
  BY <1>1 DEF Monotone, MetadataTypes
<1> QED BY <1>1, <1>2, <1>4, <1>6, <1>7, ExcusedStep

LEMMA CancelStep == ASSUME MInv, NEW r \in Run, Cancel(r) PROVE MInv'
<1>1. /\ MetadataTypes /\ Excuse(r) /\ faults' = faults
      /\ status' = [status EXCEPT ![r] = "Cancelled"]
      /\ UNCHANGED <<backend, fate, journal, result, writer, waiters>>
  BY DEF MInv, Cancel
<1>2. /\ excused' \subseteq Run /\ \A q \in excused' : Tree(q) \subseteq excused'
      /\ excused \subseteq excused' /\ r \in excused' /\ faults' \in Nat /\ faults <= faults'
  BY <1>1, ExcuseEffect
<1>3. status' \in [Run -> {"none", "Running"} \union Terminal]
      /\ \A q \in Run \ {r} : status'[q] = status[q]
  BY <1>1 DEF MetadataTypes, Terminal
<1>4. r \in Tree(r)
  BY DEF Tree
<1>5. MetadataTypes' /\ \A q \in Run \ Tree(r) : SameRow(q)
  BY <1>1, <1>2, <1>3, <1>4 DEF MetadataTypes, SameRow
<1>6. Monotone /\ SameWaits
  BY <1>1, <1>2 DEF Monotone, SameWaits
<1> QED BY <1>2, <1>5, <1>6, ExcusedStep

LEMMA NotifyCancelledStep == ASSUME MInv, NEW r \in Run, NotifyCancelled(r) PROVE MInv'
<1>1. /\ MetadataTypes /\ Notify(r)
      /\ UNCHANGED <<backend, fate, journal, status, result, writer, excused, faults>>
  BY DEF MInv, NotifyCancelled, store
<1>2. waiters' \in [Waiter -> WaiterState] /\ SameWaits
  BY <1>1, NotifyEffect
<1>3. MetadataTypes' /\ Monotone /\ \A q \in Run : SameRow(q)
  BY <1>1, <1>2 DEF MetadataTypes, Monotone, SameRow
<1> QED BY <1>2, <1>3, SameRowKeeps, KeepsMInv

-----------------------------------------------------------------------------
(* A crash, and the recovery of a tree.                                    *)
LEMMA CrashStep == ASSUME MInv, Crash PROVE MInv'
<1>1. /\ MetadataTypes /\ faults' = faults + 1 /\ faults \in Nat
      /\ writer' = [r \in Run |-> Absent] /\ waiters' = [w \in Waiter |-> NotWaiting]
      /\ excused' = excused \union {r \in Run : \E q \in Tree(r) :
                      writer[q].at \in {"creating", "inserting"}}
      /\ UNCHANGED <<backend, fate, journal, status, result>>
  BY DEF MInv, MetadataTypes, Crash, Fault, store
<1>2. \A q \in Run : q \in Tree(q) /\ \A p \in Tree(q) : p \in Run /\ Tree(p) = Tree(q)
  BY DEF Tree
<1>3. excused' \subseteq Run /\ \A q \in excused' : Tree(q) \subseteq excused'
  BY <1>1, <1>2 DEF MetadataTypes
<1>4. NotWaiting \in WaiterState /\ NotWaiting.at = "idle"
  BY DEF NotWaiting, WaiterState
<1>5. \A q \in Run : /\ writer'[q] \in [at : WriterAt, todo : SUBSET Items[q], recovering : BOOLEAN]
                     /\ writer'[q].at = "none" /\ ~writer'[q].recovering
  BY <1>1 DEF Absent, WriterAt
<1>6. MetadataTypes'
  BY <1>1, <1>3, <1>4, <1>5 DEF MetadataTypes
<1>7. ASSUME NEW q \in Run \ excused' PROVE RunInv(q)'
  <2>1. /\ q \notin excused /\ RunInv(q) /\ writer[q].at \notin {"creating", "inserting"}
    BY <1>1, <1>2 DEF MInv
  <2>2. RowsInv(q)'
    BY <1>1, <1>5, <2>1 DEF RunInv, RowsInv
  <2>3. ResultsInv(q)'
    BY <1>1, <1>5, <2>1 DEF RunInv, ResultsInv
  <2>4. StatusInv(q)'
    BY <1>1, <1>5, <2>1 DEF RunInv, StatusInv, AllFinal
  <2> QED BY <2>2, <2>3, <2>4 DEF RunInv
<1>8. \A w \in Waiter : WaiterInv(w)'
  BY <1>1, <1>4 DEF WaiterInv
<1> QED BY <1>6, <1>7, <1>8 DEF MInv

(* A step that takes the writers of a tree elsewhere and nothing more.     *)
OnlyWriters == UNCHANGED <<backend, fate, journal, status, result, waiters, excused, faults>>

LEMMA OnlyWritersMInv ==
    ASSUME MInv, OnlyWriters, DOMAIN writer' = Run,
           \A q \in Run : writer'[q] \in [at : WriterAt, todo : SUBSET Items[q],
                                        recovering : BOOLEAN],
           \A q \in Run \ excused : RunInv(q) => RunInv(q)'
    PROVE  MInv'
<1>1. MetadataTypes'
  BY DEF MInv, MetadataTypes, OnlyWriters
<1>2. \A w \in Waiter : WaiterInv(w)'
  BY DEF MInv, OnlyWriters, WaiterInv, AllFinal
<1> QED BY <1>1, <1>2 DEF MInv, OnlyWriters

LEMMA RecoverStep == ASSUME MInv, NEW r \in Run, Recover(r) PROVE MInv'
<1>1. /\ MetadataTypes /\ OnlyWriters /\ \A q \in Tree(r) : writer[q].at = "none"
      /\ writer' = [q \in Run |-> IF q \in Tree(r) THEN Replayed(q) ELSE writer[q]]
  BY DEF MInv, Recover, OnlyWriters, store
<1>2. ASSUME NEW q \in Tree(r)
      PROVE  /\ writer'[q] \in [at : WriterAt, todo : SUBSET Items[q], recovering : BOOLEAN]
             /\ writer[q].at = "none" /\ q \in Run
             /\ \/ journal[q] = "none" /\ writer'[q].at = "none" /\ ~writer'[q].recovering
                \/ journal[q] # "none" /\ writer'[q].at \in {"replaying", "known"}
                \/ journal[q] # "none" /\ status[q] = "none" /\ writer'[q].at = "creating"
                \/ /\ journal[q] # "none" /\ status[q] \in {"Completed", "Failed"}
                   /\ writer'[q].at = "over"
                \/ journal[q] # "none" /\ writer'[q].at = "recording" /\ writer'[q].todo = Items[q]
  <2>1. q \in Run /\ writer'[q] = Replayed(q) /\ writer[q].at = "none"
    BY <1>1 DEF Tree
  <2>2. \/ journal[q] = "none" /\ Replayed(q) = Absent
        \/ journal[q] # "none" /\ Replayed(q) = [at |-> "replaying", todo |-> {}, recovering |-> TRUE]
        \/ /\ journal[q] # "none" /\ status[q] = "none"
           /\ Replayed(q) = [at |-> "creating", todo |-> {}, recovering |-> TRUE]
        \/ /\ journal[q] # "none" /\ status[q] \in {"Completed", "Failed"}
           /\ Replayed(q) = [at |-> "over", todo |-> {}, recovering |-> FALSE]
        \/ /\ journal[q] # "none"
           /\ Replayed(q) = [at |-> "recording", todo |-> Items[q], recovering |-> TRUE]
        \/ journal[q] # "none" /\ Replayed(q) = [at |-> "known", todo |-> {}, recovering |-> TRUE]
    BY DEF Replayed
  <2>3. PICK at \in WriterAt, todo \in SUBSET Items[q], b \in BOOLEAN :
          writer'[q] = [at |-> at, todo |-> todo, recovering |-> b]
    <3>1. {} \in SUBSET Items[q] /\ Items[q] \in SUBSET Items[q]
      OBVIOUS
    <3>2. {"none", "replaying", "creating", "over", "recording", "known"} \subseteq WriterAt
      BY DEF WriterAt
    <3> QED BY <2>1, <2>2, <3>1, <3>2 DEF Absent
  <2>5. writer'[q] \in [at : WriterAt, todo : SUBSET Items[q], recovering : BOOLEAN]
    BY <2>3, WriterState
  <2>6. \/ journal[q] = "none" /\ writer'[q].at = "none" /\ ~writer'[q].recovering
        \/ journal[q] # "none" /\ writer'[q].at \in {"replaying", "known"}
        \/ journal[q] # "none" /\ status[q] = "none" /\ writer'[q].at = "creating"
        \/ /\ journal[q] # "none" /\ status[q] \in {"Completed", "Failed"}
           /\ writer'[q].at = "over"
        \/ journal[q] # "none" /\ writer'[q].at = "recording" /\ writer'[q].todo = Items[q]
    BY <2>1, <2>2 DEF Absent
  <2> QED BY <2>1, <2>5, <2>6
<1>3. ASSUME NEW q \in Run \ excused, RunInv(q) PROVE RunInv(q)'
  <2>1. CASE q \notin Tree(r)
    <3>1. SameRow(q)
      BY <1>1, <2>1 DEF OnlyWriters, SameRow
    <3> QED BY <1>1, <1>3, <3>1 DEF OnlyWriters, SameRow, RunInv, RowsInv, ResultsInv, StatusInv, AllFinal
  <2>2. CASE q \in Tree(r)
    <3>1. RowsInv(q) /\ ResultsInv(q) /\ StatusInv(q)
      BY <1>3 DEF RunInv
    <3>2. journal[q] # "none" =>
            /\ status[q] # "none" /\ faults > 0
            /\ \A i \in Items[q] : result[q][i] # "none"
      BY <1>2, <2>2, <3>1 DEF RowsInv, StatusInv
    <3>3. status[q] \in {"Completed", "Failed"} => AllFinal(q)
      BY <3>1 DEF StatusInv
    <3>4. RowsInv(q)'
      BY <1>1, <1>2, <2>2, <3>1, <3>2 DEF OnlyWriters, RowsInv
    <3>5. ResultsInv(q)'
      BY <1>1, <1>2, <2>2, <3>1, <3>2, <3>3 DEF OnlyWriters, ResultsInv, AllFinal
    <3>6. StatusInv(q)'
      BY <1>1, <1>2, <2>2, <3>1, <3>2, <3>3 DEF OnlyWriters, StatusInv, AllFinal
    <3> QED BY <3>4, <3>5, <3>6 DEF RunInv
  <2> QED BY <2>1, <2>2
<1> QED BY <1>1, <1>2, <1>3, OnlyWritersMInv DEF MetadataTypes

LEMMA FinishReplayStep == ASSUME MInv, NEW r \in Run, FinishReplay(r) PROVE MInv'
<1>1. MetadataTypes /\ OnlyWriters /\ writer[r].at = "replaying"
  BY DEF MInv, FinishReplay, OnlyWriters, store
<1>2. /\ DOMAIN writer' = Run
      /\ \A q \in Run : writer'[q] \in [at : WriterAt, todo : SUBSET Items[q], recovering : BOOLEAN]
      /\ \A q \in Run : \/ writer'[q] = writer[q]
                        \/ /\ writer[q].at \in {"replaying", "known"}
                           /\ \/ writer'[q].at = "running"
                              \/ writer'[q].at = "recording" /\ writer'[q].todo = Items[q]
  <2>1. CASE journal[r] = "ended"
    <3>1. GoTo(r, "recording", Items[r]) /\ "recording" \in WriterAt
      BY <2>1 DEF FinishReplay, WriterAt
    <3>2. /\ DOMAIN writer' = Run
          /\ \A q \in Run : writer'[q] \in [at : WriterAt, todo : SUBSET Items[q],
                                          recovering : BOOLEAN]
          /\ writer'[r].at = "recording" /\ writer'[r].todo = Items[r]
          /\ \A q \in Run \ {r} : writer'[q] = writer[q]
      BY <1>1, <3>1, GoToEffect
    <3> QED BY <1>1, <3>2
  <2>2. CASE journal[r] # "ended"
    <3>1. writer' = [q \in Run |->
            IF q = r \/ (q \in Tree(r) /\ writer[q].at = "known")
            THEN [at |-> "running", todo |-> {}, recovering |-> FALSE] ELSE writer[q]]
      BY <2>2 DEF FinishReplay
    <3> QED BY <1>1, <3>1 DEF MetadataTypes, WriterAt
  <2> QED BY <2>1, <2>2
<1>3. ASSUME NEW q \in Run \ excused, RunInv(q) PROVE RunInv(q)'
  <2>1. RowsInv(q) /\ ResultsInv(q) /\ StatusInv(q)
    BY <1>3 DEF RunInv
  <2>2. RowsInv(q)'
    BY <1>1, <1>2, <2>1 DEF OnlyWriters, RowsInv
  <2>3. ResultsInv(q)'
    BY <1>1, <1>2, <2>1 DEF OnlyWriters, ResultsInv, AllFinal
  <2>4. StatusInv(q)'
    BY <1>1, <1>2, <2>1 DEF OnlyWriters, StatusInv, AllFinal
  <2> QED BY <2>2, <2>3, <2>4 DEF RunInv
<1> QED BY <1>1, <1>2, <1>3, OnlyWritersMInv

-----------------------------------------------------------------------------
(* wait_for_completion: a step of one waiter, from what it is then.        *)
OnlyWaits == UNCHANGED <<backend, fate, journal, status, result, writer, excused, faults>>

LEMMA WaiterStep ==
    ASSUME MInv, OnlyWaits, NEW w \in Waiter, NEW s \in WaiterState, SetWaiter(w, s),
           s.at # "idle" => s.run \in Run,
           s.at = "ended" /\ s.run \notin excused => AllFinal(s.run),
           s.at = "done" /\ s.run \notin excused => s.got = Items[s.run]
    PROVE  MInv'
<1>1. waiters' = [waiters EXCEPT ![w] = s] /\ waiters \in [Waiter -> WaiterState]
  BY DEF SetWaiter, MInv, MetadataTypes
<1>2. waiters' \in [Waiter -> WaiterState] /\ waiters'[w] = s
      /\ \A v \in Waiter \ {w} : waiters'[v] = waiters[v]
  BY <1>1
<1>3. MetadataTypes'
  BY <1>2 DEF MInv, MetadataTypes, OnlyWaits
<1>4. \A q \in Run \ excused : RunInv(q)'
  BY DEF MInv, OnlyWaits, RunInv, RowsInv, ResultsInv, StatusInv, AllFinal
<1>5. \A v \in Waiter : WaiterInv(v)'
  BY <1>2 DEF MInv, OnlyWaits, WaiterInv, AllFinal
<1> QED BY <1>3, <1>4, <1>5 DEF MInv, OnlyWaits

(* The status that ends a wait ends it with all results.                   *)
LEMMA SeenEffect ==
    ASSUME MInv, NEW w \in Waiter, waiters[w].at # "idle", NEW otherwise
    PROVE  /\ waiters[w].run \in Run
           /\ Seen(w, otherwise) \in {"notfound", "ended", otherwise}
           /\ Seen(w, otherwise) = "ended" /\ otherwise # "ended" /\ waiters[w].run \notin excused
                => AllFinal(waiters[w].run)
<1>1. waiters[w].run \in Run
  BY DEF MInv, WaiterInv
<1>2. waiters[w].run \notin excused => StatusInv(waiters[w].run)
  BY <1>1 DEF MInv, RunInv
<1> QED BY <1>1, <1>2 DEF Seen, StatusInv, Terminal

LEMMA SubscribeStep ==
    ASSUME MInv, NEW w \in Waiter, NEW r \in Run, Subscribe(w, r) PROVE MInv'
<1> DEFINE s == [NotWaiting EXCEPT !.at = "subscribed", !.run = r]
<1>1. s \in WaiterState /\ s.at = "subscribed" /\ s.run = r
  <2>1. NotWaiting \in WaiterState
    BY DEF NotWaiting, WaiterState
  <2> QED BY <2>1 DEF WaiterState
<1>2. OnlyWaits /\ SetWaiter(w, s)
  BY DEF Subscribe, OnlyWaits, store
<1> QED BY <1>1, <1>2, WaiterStep

LEMMA ReadStatusStep == ASSUME MInv, NEW w \in Waiter, ReadStatus(w) PROVE MInv'
<1> DEFINE at == Seen(w, "waiting")
           s == [waiters[w] EXCEPT !.at = at]
<1>1. OnlyWaits /\ SetWaiter(w, s) /\ waiters[w].at # "idle" /\ waiters[w] \in WaiterState
  BY DEF MInv, MetadataTypes, ReadStatus, OnlyWaits, store
<1>2. /\ waiters[w].run \in Run /\ at \in {"notfound", "ended", "waiting"}
      /\ at = "ended" /\ waiters[w].run \notin excused => AllFinal(waiters[w].run)
  BY <1>1, SeenEffect
<1> HIDE DEF at
<1>3. s \in WaiterState /\ s.at = at /\ s.run = waiters[w].run
  BY <1>1, <1>2 DEF WaiterState
<1> QED BY <1>1, <1>2, <1>3, WaiterStep

LEMMA ReceiveStep == ASSUME MInv, NEW w \in Waiter, Receive(w) PROVE MInv'
<1>1. /\ OnlyWaits /\ waiters[w].at = "waiting" /\ waiters[w] \in WaiterState
      /\ waiters[w].unread # <<>>
  BY DEF MInv, MetadataTypes, Receive, OnlyWaits, store
<1>2. waiters[w].run \in Run
  BY <1>1 DEF MInv, WaiterInv
<1>3. PICK s : /\ SetWaiter(w, s)
               /\ \/ s = [waiters[w] EXCEPT !.at = "polling", !.unread = <<>>, !.lagged = FALSE]
                  \/ s = [waiters[w] EXCEPT !.unread = Tail(waiters[w].unread)]
  BY DEF Receive
<1>4. Tail(waiters[w].unread) \in Seq(Run) /\ <<>> \in Seq(Run)
  BY <1>1 DEF WaiterState
<1>5. s \in WaiterState /\ s.at \in {"polling", "waiting"} /\ s.run = waiters[w].run
  BY <1>1, <1>3, <1>4 DEF WaiterState
<1> QED BY <1>1, <1>2, <1>3, <1>5, WaiterStep

LEMMA PollStep == ASSUME MInv, NEW w \in Waiter, Poll(w) PROVE MInv'
<1> DEFINE at == Seen(w, "polling")
           s == [waiters[w] EXCEPT !.at = at]
<1>1. OnlyWaits /\ SetWaiter(w, s) /\ waiters[w].at # "idle" /\ waiters[w] \in WaiterState
  BY DEF MInv, MetadataTypes, Poll, OnlyWaits, store
<1>2. /\ waiters[w].run \in Run /\ at \in {"notfound", "ended", "polling"}
      /\ at = "ended" /\ waiters[w].run \notin excused => AllFinal(waiters[w].run)
  BY <1>1, SeenEffect
<1> HIDE DEF at
<1>3. s \in WaiterState /\ s.at = at /\ s.run = waiters[w].run
  BY <1>1, <1>2 DEF WaiterState
<1> QED BY <1>1, <1>2, <1>3, WaiterStep

LEMMA GetResultsStep == ASSUME MInv, NEW w \in Waiter, GetResults(w) PROVE MInv'
<1> DEFINE r == waiters[w].run
           got == {i \in DOMAIN result[r] : result[r][i] \in Recorded}
           s == [waiters[w] EXCEPT !.at = "done", !.got = got]
<1>1. OnlyWaits /\ SetWaiter(w, s) /\ waiters[w].at = "ended" /\ waiters[w] \in WaiterState
  BY DEF MInv, MetadataTypes, GetResults, OnlyWaits, store
<1>2. r \in Run /\ (r \notin excused => AllFinal(r))
  BY <1>1 DEF MInv, WaiterInv
<1>3. DOMAIN result[r] = Items[r] /\ fate[r].results \in [Items[r] -> Recorded]
  BY <1>2, FateAssumption DEF MInv, MetadataTypes
<1>4. r \notin excused => got = Items[r]
  BY <1>2, <1>3 DEF AllFinal
<1>5. got \in SUBSET UNION {Items[q] : q \in Run}
  BY <1>2, <1>3
<1> HIDE DEF got
<1>6. s \in WaiterState /\ s.at = "done" /\ s.run = r /\ s.got = got
  BY <1>1, <1>5 DEF WaiterState
<1> QED BY <1>1, <1>2, <1>4, <1>6, WaiterStep

-----------------------------------------------------------------------------
LEMMA InitMInv == Init => MInv
<1> SUFFICES ASSUME Init PROVE MInv
  OBVIOUS
<1>1. /\ backend \in Backend /\ DOMAIN fate = Run /\ \A r \in Run : fate[r] \in Fate[r]
      /\ journal = [r \in Run |-> "none"] /\ status = [r \in Run |-> "none"]
      /\ result = [r \in Run |-> [i \in Items[r] |-> "none"]]
      /\ writer = [r \in Run |-> Absent] /\ waiters = [w \in Waiter |-> NotWaiting]
      /\ excused = {} /\ faults = 0
  BY DEF Init
<1>2. NotWaiting \in WaiterState /\ NotWaiting.at = "idle"
  BY DEF NotWaiting, WaiterState
<1>3. \A q \in Run : /\ writer[q] \in [at : WriterAt, todo : SUBSET Items[q], recovering : BOOLEAN]
                     /\ writer[q].at = "none" /\ ~writer[q].recovering
  BY <1>1 DEF Absent, WriterAt
<1>4. backend \in {"memory", "sql"}
  BY <1>1, MetadataAssumption
<1>5. MetadataTypes
  BY <1>1, <1>2, <1>3, <1>4 DEF MetadataTypes
<1>6. ASSUME NEW q \in Run PROVE RunInv(q)
  <2>1. journal[q] = "none" /\ status[q] = "none" /\ \A i \in Items[q] : result[q][i] = "none"
    BY <1>1
  <2> QED BY <1>3, <2>1 DEF RunInv, RowsInv, ResultsInv, StatusInv
<1>7. \A w \in Waiter : WaiterInv(w)
  BY <1>1, <1>2 DEF WaiterInv
<1> QED BY <1>5, <1>6, <1>7 DEF MInv

LEMMA WriteRunStep == ASSUME MInv, NEW r \in Run, WriteRun(r) PROVE MInv'
<1>1. CASE InsertRun(r)
  BY <1>1, InsertRunStep, StepOfMInv
<1>2. CASE InsertItem(r)
  BY <1>2, InsertItemStep, StepOfMInv
<1>3. CASE Execute(r)
  BY <1>3, ExecuteStep, StepOfMInv
<1>4. CASE JournalCompleted(r)
  BY <1>4, JournalCompletedStep, StepOfMInv
<1>5. ASSUME NEW i \in Items[r], RecordInMemory(r, i) PROVE MInv'
  BY <1>5, RecordInMemoryStep, StepOfMInv
<1>6. ASSUME NEW i \in Items[r], UpdateItem(r, i) PROVE MInv'
  BY <1>6, UpdateItemStep, StepOfMInv
<1>7. ASSUME NEW i \in Items[r], FindNoItem(r, i) PROVE MInv'
  BY <1>7, FindNoItemStep
<1>8. CASE CountItems(r)
  BY <1>8, CountItemsStep, StepOfMInv
<1>9. CASE CompleteRun(r)
  BY <1>9, CompleteRunStep, StepOfMInv
<1>10. CASE NotifyRecorded(r)
  BY <1>10, NotifyRecordedStep, StepOfMInv
<1>11. CASE UpdateStatus(r)
  BY <1>11, UpdateStatusStep, StepOfMInv
<1>12. CASE NotifyStatus(r)
  BY <1>12, NotifyStatusStep, StepOfMInv
<1>13. CASE FailRecovery(r)
  BY <1>13, FailRecoveryStep
<1>14. CASE Recover(r)
  BY <1>14, RecoverStep
<1>15. CASE FinishReplay(r)
  BY <1>15, FinishReplayStep
<1> QED
  BY <1>1, <1>2, <1>3, <1>4, <1>5, <1>6, <1>7, <1>8, <1>9, <1>10, <1>11, <1>12, <1>13, <1>14,
     <1>15 DEF WriteRun

LEMMA NextMInv == MInv /\ [Next]_vars => MInv'
<1> SUFFICES ASSUME MInv, [Next]_vars PROVE MInv'
  OBVIOUS
<1>1. ASSUME NEW r \in Run, JournalCreated(r) PROVE MInv'
  BY <1>1, JournalCreatedStep, StepOfMInv
<1>2. ASSUME NEW r \in Run, WriteRun(r) PROVE MInv'
  BY <1>2, WriteRunStep
<1>3. ASSUME NEW r \in Run, CreationFails(r) PROVE MInv'
  BY <1>3, CreationFailsStep, StepOfMInv
<1>4. ASSUME NEW r \in Run, NEW i \in Items[r], RecordFails(r, i) PROVE MInv'
  BY <1>4, RecordFailsStep
<1>5. ASSUME NEW r \in Run, Cancel(r) PROVE MInv'
  BY <1>5, CancelStep
<1>6. ASSUME NEW r \in Run, NotifyCancelled(r) PROVE MInv'
  BY <1>6, NotifyCancelledStep
<1>7. CASE Crash
  BY <1>7, CrashStep
<1>8. ASSUME NEW w \in Waiter, Wait(w) PROVE MInv'
  BY <1>8, ReadStatusStep, ReceiveStep, PollStep, GetResultsStep DEF Wait
<1>9. ASSUME NEW w \in Waiter, NEW r \in Run, Subscribe(w, r) PROVE MInv'
  BY <1>9, SubscribeStep
<1>10. CASE UNCHANGED vars
  <2>1. OnlyWriters /\ writer' = writer
    BY <1>10 DEF vars, store, OnlyWriters
  <2>2. \A q \in Run \ excused : RunInv(q) => RunInv(q)'
    BY <2>1 DEF OnlyWriters, RunInv, RowsInv, ResultsInv, StatusInv, AllFinal
  <2> QED BY <2>1, <2>2, OnlyWritersMInv DEF MInv, MetadataTypes
<1> QED
  BY <1>1, <1>2, <1>3, <1>4, <1>5, <1>6, <1>7, <1>8, <1>9, <1>10 DEF Next

(* What the rows of a run, its writer and those who wait for it have to do *)
(* with each other, across creation, recording, cancellation, crash and    *)
(* recovery.                                                               *)
THEOREM MetadataInvariant == Spec => []MInv
<1>1. Spec => Init /\ [][Next]_vars
  BY DEF Spec
<1> QED BY <1>1, InitMInv, NextMInv, PTL

(* A wait that returns finds the results of all items of its run, for what *)
(* wait_for_completion takes for the end of a run is written after the     *)
(* last of them: by record_item_result, which counts the items again after *)
(* each statement, or by update_run_status, after it.                      *)
THEOREM WaitersFindResults == Spec => []WaitersGetAllResults
<1>1. MInv => WaitersGetAllResults
  BY DEF MInv, WaiterInv, WaitersGetAllResults
<1> QED BY <1>1, MetadataInvariant, PTL

(* When the executor or the recovery is through with a run, its rows say   *)
(* what the journal leads to: all results, and without a crash between     *)
(* also the status, whatever record_item_result and update_run_status have *)
(* written over one another.                                               *)
THEOREM OverIsRecorded == Spec => []OverMeansRecorded
<1>1. ASSUME MInv, NEW r \in Run \ excused, writer[r].at = "over"
      PROVE  /\ result[r] = fate[r].results
             /\ status[r] \in {"Completed", "Failed"}
             /\ faults = 0 => status[r] = fate[r].status
  <2>1. RunInv(r) /\ fate[r].status \in {"Completed", "Failed"}
    BY <1>1, FateAssumption DEF MInv, MetadataTypes
  <2> QED BY <1>1, <2>1 DEF RunInv, ResultsInv, StatusInv, AllFinal
<1>2. MInv => OverMeansRecorded
  BY <1>1 DEF OverMeansRecorded
<1> QED BY <1>2, MetadataInvariant, PTL

=============================================================================
