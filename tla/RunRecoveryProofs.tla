------------------------- MODULE RunRecoveryProofs -------------------------
(***************************************************************************)
(* What the operations of ItemState establish and preserve of an item, the *)
(* safety invariants of ItemsState, and what a run keeps across crashes:   *)
(* for every set of flows, every expression language that meets the        *)
(* assumptions, any number of items, steps and crashes, and checkpoints at *)
(* any time.                                                               *)
(***************************************************************************)
EXTENDS RunRecovery, TLAPS, WellFoundedInduction, FiniteSetTheorems, SequenceTheorems


(* A step waits on steps before it.                                        *)
Ordered(item) == \A w \in Step : \A d \in item.waiting_on[w] : d < w

(* A pending step outside S that waits on nothing has all its inputs.      *)
Evaluated(f, item, S) ==
    \A w \in (item.needed \ Completed(item)) \ S :
        item.waiting_on[w] = {} => InputNeeds(f, w, item.results) = {}

(* The inductive invariant of an item while the steps of S are still to be *)
(* evaluated again.                                                        *)
ItemInv(f, item, S) ==
    /\ item \in ItemRecord
    /\ Mirror(item)
    /\ Pending(item)
    /\ Ordered(item)
    /\ Evaluated(f, item, S)
    /\ Completed(item) \subseteq item.needed

-----------------------------------------------------------------------------
(* A new item meets the invariant and is complete.                         *)
LEMMA NewItemInv ==
    ASSUME NEW f \in Flow
    PROVE  ItemInv(f, NewItem, {}) /\ Completed(NewItem) = {} /\ IsComplete(NewItem)
BY NotRunAssumption
   DEF NewItem, ItemInv, ItemRecord, Results, Mirror, Pending, Ordered, Evaluated,
       Completed, CompletedIn, IsComplete

(* The worklist visits what it starts from and what that newly needs.      *)
LEMMA VisitedIsClosed ==
    ASSUME NEW f \in Flow, NEW item \in ItemRecord, NEW S \in SUBSET Step
    PROVE  /\ Visited(f, item, S) \subseteq Step
           /\ S \subseteq Visited(f, item, S)
           /\ ClosedUnderNewDeps(f, item, Visited(f, item, S))
<1>1. \A s \in Step : InputNeeds(f, s, item.results) \subseteq Step
  BY InputNeedsAssumption DEF ItemRecord
<1>2. ClosedUnderNewDeps(f, item, Visited(f, item, S))
  <2> SUFFICES ASSUME NEW s \in Visited(f, item, S),
                      NEW d \in InputNeeds(f, s, item.results) \ item.needed
               PROVE  d \in Visited(f, item, S)
    BY DEF ClosedUnderNewDeps
  <2>1. d \in Step
    BY <1>1 DEF Visited
  <2>2. ASSUME NEW V \in SUBSET Step, S \subseteq V, ClosedUnderNewDeps(f, item, V)
        PROVE  d \in V
    BY <2>2 DEF Visited, ClosedUnderNewDeps
  <2> QED BY <2>1, <2>2 DEF Visited
<1> QED BY <1>2 DEF Visited

(* It visits nothing else.                                                 *)
LEMMA VisitedIsLeast ==
    ASSUME NEW f \in Flow, NEW item \in ItemRecord, NEW S \in SUBSET Step,
           NEW V \in SUBSET Step, S \subseteq V, ClosedUnderNewDeps(f, item, V)
    PROVE  Visited(f, item, S) \subseteq V
BY DEF Visited

(* In particular no completed step, and of the steps already needed only   *)
(* those it starts from.                                                   *)
LEMMA VisitedIsNew ==
    ASSUME NEW f \in Flow, NEW item \in ItemRecord,
           NEW S \in SUBSET (Step \ Completed(item))
    PROVE  /\ Visited(f, item, S) \intersect Completed(item) = {}
           /\ Visited(f, item, S) \intersect item.needed \subseteq S
<1>1. \A s \in Step : InputNeeds(f, s, item.results) \subseteq Step \ Completed(item)
  BY InputNeedsAssumption DEF ItemRecord, Completed
<1>2. Visited(f, item, S) \subseteq Step \ Completed(item)
  <2>1. ClosedUnderNewDeps(f, item, Step \ Completed(item))
    BY <1>1 DEF ClosedUnderNewDeps
  <2> QED BY <2>1, VisitedIsLeast
<1>3. Visited(f, item, S) \subseteq S \union (Step \ item.needed)
  <2>1. ClosedUnderNewDeps(f, item, S \union (Step \ item.needed))
    BY <1>1 DEF ClosedUnderNewDeps
  <2> QED BY <2>1, VisitedIsLeast
<1> QED BY <1>2, <1>3

-----------------------------------------------------------------------------
(* Evaluating the steps of S again restores the invariant for all of them, *)
(* makes them needed, changes no result, and leaves every other step that  *)
(* was needed before waiting on what it waited on.                         *)
LEMMA AddOrUpdateNeededInv ==
    ASSUME NEW f \in Flow, NEW item, NEW S \in SUBSET (Step \ Completed(item)),
           ItemInv(f, item, S)
    PROVE  LET new == AddOrUpdateNeeded(f, item, S)
           IN  /\ ItemInv(f, new, {})
               /\ new.results = item.results
               /\ new.needed = item.needed \union Visited(f, item, S)
               /\ S \subseteq new.needed
               /\ \A w \in item.needed \ S : new.waiting_on[w] = item.waiting_on[w]
<1> DEFINE visited == Visited(f, item, S)
           needs(s) == InputNeeds(f, s, item.results)
           new == AddOrUpdateNeeded(f, item, S)
           waiting == [s \in Step |-> IF s \in visited THEN needs(s) ELSE item.waiting_on[s]]
<1>1. /\ item \in ItemRecord /\ Mirror(item) /\ Pending(item) /\ Ordered(item)
      /\ Evaluated(f, item, S) /\ Completed(item) \subseteq item.needed
  BY DEF ItemInv
<1>2. \A s \in Step : /\ needs(s) \subseteq Step \ Completed(item)
                      /\ \A d \in needs(s) : d < s
  BY <1>1, InputNeedsAssumption DEF ItemRecord, Completed
<1>3. /\ visited \subseteq Step
      /\ S \subseteq visited
      /\ \A s \in visited : needs(s) \ item.needed \subseteq visited
  BY <1>1, VisitedIsClosed DEF ClosedUnderNewDeps
<1>4. /\ visited \intersect Completed(item) = {}
      /\ visited \intersect item.needed \subseteq S
  BY <1>1, VisitedIsNew
<1>5. /\ new.needed = item.needed \union visited
      /\ new.results = item.results
      /\ new.waiting_on = waiting
      /\ new.waiters = [d \in Step |->
            (item.waiters[d] \ {s \in visited : d \in item.waiting_on[s]})
              \union {s \in visited : d \in waiting[s]}]
  BY <1>1 DEF AddOrUpdateNeeded, ItemRecord
<1>6. new \in ItemRecord
  BY <1>1, <1>2, <1>3 DEF AddOrUpdateNeeded, ItemRecord
<1>7. Completed(new) = Completed(item)
  BY <1>5 DEF Completed
<1>8. Mirror(new)
  BY <1>1, <1>2, <1>3, <1>5 DEF Mirror, ItemRecord
<1>9. Pending(new)
  BY <1>1, <1>2, <1>3, <1>4, <1>5, <1>7 DEF Pending
<1>10. Ordered(new)
  BY <1>1, <1>2, <1>5 DEF Ordered
<1>11. Evaluated(f, new, {})
  <2> SUFFICES ASSUME NEW w \in new.needed \ Completed(new), new.waiting_on[w] = {}
               PROVE  needs(w) = {}
    BY <1>5 DEF Evaluated
  <2>1. CASE w \in visited
    BY <2>1, <1>3, <1>5
  <2>2. CASE w \notin visited
    BY <2>2, <1>1, <1>3, <1>5, <1>7 DEF Evaluated, ItemRecord
  <2> QED BY <2>1, <2>2
<1>12. \A w \in item.needed \ S : new.waiting_on[w] = item.waiting_on[w]
  BY <1>1, <1>4, <1>5 DEF ItemRecord
<1> QED
  BY <1>1, <1>3, <1>5, <1>6, <1>7, <1>8, <1>9, <1>10, <1>11, <1>12 DEF ItemInv

(* Completing a schedulable step unblocks exactly the steps that waited on *)
(* nothing else; they are pending, and are the only ones left to evaluate. *)
LEMMA MarkCompletedInv ==
    ASSUME NEW f \in Flow, NEW item, ItemInv(f, item, {}),
           NEW s \in SchedulableSteps(item), NEW result \in FlowResult
    PROVE  LET marked == MarkCompleted(item, s, result)
               unblocked == NewlyUnblocked(item, s)
           IN  /\ ItemInv(f, marked, unblocked)
               /\ unblocked \subseteq marked.needed \ Completed(marked)
               /\ unblocked = {w \in Step : item.waiting_on[w] = {s}}
               /\ Completed(marked) = Completed(item) \union {s}
               /\ marked.needed = item.needed
               /\ marked.results = [item.results EXCEPT ![s] = result]
               /\ \A w \in Step : marked.waiting_on[w] = item.waiting_on[w] \ {s}
<1> DEFINE marked == MarkCompleted(item, s, result)
           unblocked == NewlyUnblocked(item, s)
<1>1. /\ item \in ItemRecord /\ Mirror(item) /\ Pending(item) /\ Ordered(item)
      /\ Evaluated(f, item, {}) /\ Completed(item) \subseteq item.needed
  BY DEF ItemInv
<1>2. s \in Step /\ s \in item.needed /\ s \notin Completed(item) /\ item.waiting_on[s] = {}
  BY <1>1 DEF SchedulableSteps, ItemRecord
<1>3. /\ marked.needed = item.needed
      /\ marked.results = [item.results EXCEPT ![s] = result]
      /\ marked.waiters = [item.waiters EXCEPT ![s] = {}]
      /\ marked.waiting_on = [w \in Step |->
            IF w \in item.waiters[s] THEN item.waiting_on[w] \ {s} ELSE item.waiting_on[w]]
  BY <1>1, <1>2 DEF MarkCompleted, ItemRecord
<1>4. marked \in ItemRecord
  BY <1>1, <1>2, <1>3 DEF MarkCompleted, ItemRecord, Results
<1>5. Completed(marked) = Completed(item) \union {s}
  BY <1>1, <1>2, <1>3, NotRunAssumption DEF Completed, CompletedIn, ItemRecord, Results
<1>6. Mirror(marked)
  BY <1>1, <1>2, <1>3 DEF Mirror, ItemRecord
<1>7. \A w \in Step : marked.waiting_on[w] = item.waiting_on[w] \ {s}
  BY <1>1, <1>2, <1>3 DEF Mirror, ItemRecord
<1>8. Pending(marked)
  BY <1>1, <1>2, <1>3, <1>5, <1>7 DEF Pending
<1>9. Ordered(marked)
  BY <1>1, <1>7 DEF Ordered
<1>10. unblocked = {w \in Step : item.waiting_on[w] = {s}}
  BY <1>1, <1>2 DEF NewlyUnblocked, Unblocked, Mirror, ItemRecord
<1>11. unblocked \subseteq marked.needed \ Completed(marked)
  BY <1>1, <1>2, <1>3, <1>5, <1>10 DEF Pending
<1>12. Evaluated(f, marked, unblocked)
  <2> SUFFICES ASSUME NEW w \in (marked.needed \ Completed(marked)) \ unblocked,
                      marked.waiting_on[w] = {}
               PROVE  InputNeeds(f, w, marked.results) = {}
    BY DEF Evaluated
  <2>1. w \in Step /\ item.waiting_on[w] = {}
    BY <1>1, <1>3, <1>7, <1>10, SMTT(30) DEF ItemRecord
  <2>2. InputNeeds(f, w, item.results) = {}
    BY <1>1, <1>3, <1>5, <2>1 DEF Evaluated
  <2>3. item.results \in Results /\ item.results[s] = NotRun
    BY <1>1, <1>2 DEF ItemRecord, Completed, CompletedIn
  <2> QED BY <1>2, <1>3, <2>1, <2>2, <2>3, InputNeedsStable
<1> QED
  BY <1>1, <1>2, <1>3, <1>4, <1>5, <1>6, <1>7, <1>8, <1>9, <1>10, <1>11, <1>12 DEF ItemInv

(* An incomplete item has a step that can run: the first of its pending    *)
(* steps.                                                                  *)
LEMMA IncompleteHasSchedulable ==
    ASSUME NEW item \in ItemRecord, Pending(item), Ordered(item), ~IsComplete(item)
    PROVE  SchedulableSteps(item) # {}
<1> DEFINE pending == item.needed \ Completed(item)
<1>1. pending \subseteq Nat /\ pending \subseteq Step /\ pending # {}
  BY NumStepsAssumption DEF ItemRecord, IsComplete, Step
<1>2. PICK first \in pending : \A s \in pending : ~(<<s, first>> \in OpToRel(<, Nat))
  BY <1>1, NatLessThanWellFounded, WFMin
<1>3. \A s \in pending : ~(s < first)
  BY <1>1, <1>2 DEF OpToRel
<1>4. item.waiting_on[first] = {}
  BY <1>1, <1>3 DEF Pending, Ordered
<1> QED BY <1>4 DEF SchedulableSteps

-----------------------------------------------------------------------------
(* Every item is well formed.                                              *)
ItemsInv == \A i \in Item : ItemInv(flow[i], items[i], {})

(* What has been given to the scheduler and is not completed can run.      *)
ReadyInv == ready \subseteq SchedulableTasks(items)

(* Before initialize_all nothing has been discovered.                      *)
FreshInv ==
    ~initialized => /\ items = [i \in Item |-> NewItem]
                    /\ incomplete_count = 0
                    /\ ready = {}

(* Without conditional inputs, whatever a needed step needs is needed.     *)
NeededIsClosed(f, item) ==
    \A w \in item.needed : InputNeeds(f, w, item.results) \subseteq item.needed

InputsInv ==
    initialized =>
        \A i \in Item : flow[i] \in UnconditionalInputs =>
            NeededIsClosed(flow[i], items[i]) /\ NothingLost(i)

(* Without a conditional output, whatever the output needs is needed.      *)
OutputInv ==
    initialized =>
        \A i \in Item : flow[i] \in UnconditionalOutput =>
            OutputNeeds(flow[i], items[i].results) \subseteq items[i].needed

IInv ==
    /\ TypeOK
    /\ ItemsInv
    /\ IncompleteCountIsExact
    /\ ReadyInv
    /\ NotifiedExactlyOnce
    /\ FreshInv
    /\ InputsInv
    /\ OutputInv

-----------------------------------------------------------------------------
(* The invariant holds before initialize_all.                              *)
LEMMA InitIInv == Init => IInv
<1> SUFFICES ASSUME Init PROVE IInv
  OBVIOUS
<1>1. \A i \in Item : flow[i] \in Flow /\ items[i] = NewItem
  BY DEF Init
<1>2. ItemsInv /\ \A i \in Item : Completed(items[i]) = {} /\ IsComplete(items[i])
  BY <1>1, NewItemInv DEF ItemsInv
<1>3. NewItem \in ItemRecord
  BY NotRunAssumption DEF NewItem, ItemRecord, Results
<1>4. TypeOK
  BY <1>3 DEF Init, TypeOK
<1>5. IncompleteCountIsExact
  BY <1>2, FS_EmptySet DEF Init, IncompleteCountIsExact, IncompleteItems
<1>6. NotifiedExactlyOnce
  BY <1>2 DEF Init, NotifiedExactlyOnce, Task
<1>7. ReadyInv /\ FreshInv /\ InputsInv /\ OutputInv
  BY DEF Init, ReadyInv, FreshInv, InputsInv, OutputInv
<1> QED BY <1>2, <1>4, <1>5, <1>6, <1>7 DEF IInv

-----------------------------------------------------------------------------
(* initialize_all takes a new item to a well-formed one in which no step   *)
(* has completed, everything the output needs is needed, and whatever a    *)
(* needed step needs is needed.                                            *)
LEMMA InitializedItemInv ==
    ASSUME NEW f \in Flow
    PROVE  LET new == AddOrUpdateNeeded(f, NewItem, InitialSteps(f, NewItem))
           IN  /\ ItemInv(f, new, {})
               /\ Completed(new) = {}
               /\ NeededIsClosed(f, new)
               /\ OutputNeeds(f, new.results) \subseteq new.needed
<1> DEFINE S == InitialSteps(f, NewItem)
           new == AddOrUpdateNeeded(f, NewItem, S)
<1>1. ItemInv(f, NewItem, {}) /\ Completed(NewItem) = {}
  BY NewItemInv
<1>2. NewItem \in ItemRecord /\ NewItem.results \in Results /\ NewItem.needed = {}
  BY <1>1 DEF ItemInv, ItemRecord, NewItem
<1>3. S \in SUBSET (Step \ Completed(NewItem))
  BY <1>1, <1>2, OutputNeedsAssumption, MustExecuteAssumption DEF InitialSteps
<1>4. ItemInv(f, NewItem, S)
  BY <1>1 DEF ItemInv, Evaluated
<1>5. /\ ItemInv(f, new, {})
      /\ new.results = NewItem.results
      /\ new.needed = NewItem.needed \union Visited(f, NewItem, S)
      /\ S \subseteq new.needed
  BY <1>3, <1>4, AddOrUpdateNeededInv
<1>6. Completed(new) = {}
  BY <1>1, <1>5 DEF Completed
<1>7. NeededIsClosed(f, new)
  BY <1>2, <1>3, <1>5, VisitedIsClosed DEF NeededIsClosed, ClosedUnderNewDeps
<1>8. OutputNeeds(f, new.results) \subseteq new.needed
  BY <1>5 DEF InitialSteps
<1> QED BY <1>5, <1>6, <1>7, <1>8

(* initialize_all preserves the invariant.                                 *)
LEMMA InitializeAllIInv == IInv /\ InitializeAll => IInv'
<1> SUFFICES ASSUME IInv, InitializeAll PROVE IInv'
  OBVIOUS
<1>1. /\ TypeOK /\ NotifiedExactlyOnce
      /\ items = [i \in Item |-> NewItem] /\ incomplete_count = 0 /\ ready = {}
  BY DEF IInv, InitializeAll, FreshInv
<1>2. \A i \in Item :
        /\ flow[i] \in Flow /\ flow'[i] = flow[i]
        /\ items'[i] = AddOrUpdateNeeded(flow[i], NewItem, InitialSteps(flow[i], NewItem))
  BY <1>1 DEF TypeOK, InitializeAll, InitializedItem
<1>3. \A i \in Item :
        /\ ItemInv(flow[i], items'[i], {})
        /\ Completed(items'[i]) = {}
        /\ NeededIsClosed(flow[i], items'[i])
        /\ OutputNeeds(flow[i], items'[i].results) \subseteq items'[i].needed
  BY <1>2, InitializedItemInv
<1>4. \A i \in Item : IsComplete(items[i]) /\ Completed(items[i]) = {}
  BY <1>1, <1>2, NewItemInv
<1>5. BecomeIncomplete(items, items') = IncompleteItems'
  BY <1>4 DEF BecomeIncomplete, IncompleteItems
<1>6. IsFiniteSet(IncompleteItems') /\ Cardinality(IncompleteItems') \in Nat
  BY ItemAssumption, FS_Subset, FS_CardinalityType DEF IncompleteItems
<1>7. incomplete_count' = Cardinality(IncompleteItems')
  BY <1>1, <1>5, <1>6 DEF InitializeAll
<1>8. SchedulableTasks(items') \subseteq Task
  BY DEF SchedulableTasks
<1>9. \A t \in Task : notified[t] = 0
  BY <1>1, <1>4 DEF NotifiedExactlyOnce, Task
<1>10. NotifiedExactlyOnce'
  BY <1>3, <1>8, <1>9 DEF InitializeAll, Notify, NotifiedExactlyOnce, Task
<1>11. TypeOK'
  <2>1. items' \in [Item -> ItemRecord]
    BY <1>3 DEF InitializeAll, ItemInv
  <2>2. notified' \in [Task -> Nat]
    BY <1>9 DEF InitializeAll, Notify
  <2> QED BY <1>1, <1>6, <1>7, <1>8, <2>1, <2>2 DEF TypeOK, InitializeAll
<1>12. \A i \in Item : NothingLost(i)'
  BY DEF NothingLost, InitializeAll
<1> QED
  BY <1>2, <1>3, <1>7, <1>10, <1>11
     DEF IInv, ItemsInv, IncompleteCountIsExact, ReadyInv, FreshInv, InputsInv, OutputInv,
         NothingLost, InitializeAll

-----------------------------------------------------------------------------
(* An item after complete_task_and_get_ready of a schedulable step: it is  *)
(* well formed, it is complete exactly if it was after mark_completed, the *)
(* other schedulable steps stay schedulable, and the steps that become     *)
(* ready waited on the completed step alone.                               *)
LEMMA CompletedItemInv ==
    ASSUME NEW f \in Flow, NEW item, ItemInv(f, item, {}),
           NEW s \in SchedulableSteps(item), NEW result \in FlowResult
    PROVE  LET unblocked == NewlyUnblocked(item, s)
               marked == MarkCompleted(item, s, result)
               updated == AddOrUpdateNeeded(f, marked, unblocked)
           IN  /\ ItemInv(f, updated, {})
               /\ Completed(updated) = Completed(item) \union {s}
               /\ updated.results = [item.results EXCEPT ![s] = result]
               /\ IsComplete(updated) <=> IsComplete(marked)
               /\ ~IsComplete(item)
               /\ SchedulableSteps(item) \ {s} \subseteq SchedulableSteps(updated)
               /\ unblocked \intersect SchedulableSteps(item) = {}
               /\ unblocked \intersect Completed(item) = {}
               /\ updated.needed = item.needed \union Visited(f, marked, unblocked)
               /\ \A w \in (item.needed \ unblocked) \ {s} :
                    updated.waiting_on[w] = {} => item.waiting_on[w] = {}
<1> DEFINE unblocked == NewlyUnblocked(item, s)
           marked == MarkCompleted(item, s, result)
           updated == AddOrUpdateNeeded(f, marked, unblocked)
<1>1. /\ ItemInv(f, marked, unblocked)
      /\ unblocked \subseteq marked.needed \ Completed(marked)
      /\ unblocked = {w \in Step : item.waiting_on[w] = {s}}
      /\ Completed(marked) = Completed(item) \union {s}
      /\ marked.needed = item.needed
      /\ marked.results = [item.results EXCEPT ![s] = result]
      /\ \A w \in Step : marked.waiting_on[w] = item.waiting_on[w] \ {s}
  BY MarkCompletedInv
<1> HIDE DEF unblocked, marked
<1>2. unblocked \in SUBSET (Step \ Completed(marked))
  BY <1>1
<1>3. /\ ItemInv(f, updated, {})
      /\ updated.results = marked.results
      /\ updated.needed = marked.needed \union Visited(f, marked, unblocked)
      /\ \A w \in marked.needed \ unblocked : updated.waiting_on[w] = marked.waiting_on[w]
  <2>1. ItemInv(f, marked, unblocked)
    BY <1>1
  <2> HIDE <1>1
  <2> QED BY <1>2, <2>1, AddOrUpdateNeededInv
<1>4. /\ item \in ItemRecord /\ item.needed \subseteq Step
      /\ marked \in ItemRecord
      /\ Pending(item)
  BY <1>1 DEF ItemInv, ItemRecord
<1>5. Completed(updated) = Completed(marked)
  BY <1>3 DEF Completed
<1>6. /\ s \in item.needed /\ s \notin Completed(item) /\ item.waiting_on[s] = {}
      /\ ~IsComplete(item)
  BY DEF SchedulableSteps, IsComplete
<1>7. IsComplete(updated) <=> IsComplete(marked)
  <2>1. CASE unblocked = {}
    <3>1. Visited(f, marked, {}) \subseteq {}
      BY <1>4, VisitedIsLeast DEF ClosedUnderNewDeps
    <3> QED BY <2>1, <3>1, <1>3, <1>5 DEF IsComplete
  <2>2. CASE unblocked # {}
    BY <2>2, <1>1, <1>3, <1>5 DEF IsComplete
  <2> QED BY <2>1, <2>2
<1>8. SchedulableSteps(item) \ {s} \subseteq SchedulableSteps(updated)
  BY <1>1, <1>3, <1>4, <1>5, ZenonT(60) DEF SchedulableSteps
<1>9. /\ unblocked \intersect SchedulableSteps(item) = {}
      /\ unblocked \intersect Completed(item) = {}
  BY <1>1 DEF SchedulableSteps
<1>10. \A w \in (item.needed \ unblocked) \ {s} :
         updated.waiting_on[w] = {} => item.waiting_on[w] = {}
  <2> SUFFICES ASSUME NEW w \in (item.needed \ unblocked) \ {s},
                      updated.waiting_on[w] = {}, item.waiting_on[w] # {}
               PROVE  FALSE
    OBVIOUS
  <2>1. w \in Step /\ item.waiting_on[w] \ {s} = {}
    BY <1>1, <1>3, <1>4
  <2>2. item.waiting_on[w] = {s}
    BY <2>1
  <2> QED BY <1>1, <2>1, <2>2
<1> QED BY <1>1, <1>3, <1>5, <1>6, <1>7, <1>8, <1>9, <1>10 DEF unblocked, marked

(* Without conditional inputs a completion makes nothing new needed.       *)
LEMMA UnconditionalAddsNothing ==
    ASSUME NEW f \in UnconditionalInputs, NEW item, ItemInv(f, item, {}),
           NeededIsClosed(f, item),
           NEW s \in SchedulableSteps(item), NEW result \in FlowResult
    PROVE  LET unblocked == NewlyUnblocked(item, s)
               marked == MarkCompleted(item, s, result)
           IN  Visited(f, marked, unblocked) \subseteq item.needed
<1> DEFINE unblocked == NewlyUnblocked(item, s)
           marked == MarkCompleted(item, s, result)
<1>1. f \in Flow
  BY UnconditionalInputsAssumption
<1>2. /\ ItemInv(f, marked, unblocked)
      /\ unblocked \subseteq marked.needed \ Completed(marked)
      /\ Completed(marked) = Completed(item) \union {s}
      /\ marked.needed = item.needed
  BY <1>1, MarkCompletedInv, ZenonT(60)
<1>3. /\ item.results \in Results /\ marked.results \in Results
      /\ item.needed \subseteq Step /\ marked \in ItemRecord
  BY <1>2 DEF ItemInv, ItemRecord
<1>4. \A w \in Step : InputNeeds(f, w, marked.results) \subseteq InputNeeds(f, w, item.results)
  BY <1>2, <1>3, UnconditionalInputsAssumption DEF Completed
<1>5. ClosedUnderNewDeps(f, marked, item.needed)
  BY <1>2, <1>3, <1>4 DEF NeededIsClosed, ClosedUnderNewDeps
<1>6. unblocked \in SUBSET Step /\ unblocked \subseteq item.needed
  BY <1>2, <1>3
<1> QED BY <1>1, <1>3, <1>5, <1>6, VisitedIsLeast

-----------------------------------------------------------------------------
(* A completion preserves the invariant.                                   *)
LEMMA CompleteTaskIInv ==
    ASSUME NEW i \in Item, NEW s \in Step, NEW result \in FlowResult,
           IInv, CompleteTask(i, s, result)
    PROVE  IInv'
<1> DEFINE f == flow[i]
           item == items[i]
           unblocked == NewlyUnblocked(item, s)
           marked == MarkCompleted(item, s, result)
           updated == AddOrUpdateNeeded(f, marked, unblocked)
           newReady == {i} \X (unblocked \intersect SchedulableSteps(updated))
<1>1. /\ TypeOK /\ ItemsInv /\ IncompleteCountIsExact /\ ReadyInv
      /\ NotifiedExactlyOnce /\ FreshInv /\ InputsInv /\ OutputInv
  BY DEF IInv
<1>2. /\ <<i, s>> \in ready
      /\ items' = [items EXCEPT ![i] = updated]
      /\ incomplete_count' = CountAfterCompletion(item, marked)
      /\ ready' = (ready \ {<<i, s>>}) \union newReady
      /\ notified' = Notify(newReady)
      /\ flow' = flow /\ initialized' = initialized
  BY DEF CompleteTask, CompleteTaskAndGetReady
<1>3. /\ f \in Flow /\ ItemInv(f, item, {}) /\ s \in SchedulableSteps(item)
      /\ initialized
  BY <1>1, <1>2 DEF TypeOK, ItemsInv, ReadyInv, SchedulableTasks, FreshInv
<1>4. /\ ItemInv(f, updated, {})
      /\ Completed(updated) = Completed(item) \union {s}
      /\ updated.results = [item.results EXCEPT ![s] = result]
      /\ IsComplete(updated) <=> IsComplete(marked)
      /\ ~IsComplete(item)
      /\ SchedulableSteps(item) \ {s} \subseteq SchedulableSteps(updated)
      /\ unblocked \intersect SchedulableSteps(item) = {}
      /\ unblocked \intersect Completed(item) = {}
      /\ updated.needed = item.needed \union Visited(f, marked, unblocked)
      /\ \A w \in (item.needed \ unblocked) \ {s} :
           updated.waiting_on[w] = {} => item.waiting_on[w] = {}
  BY <1>3, CompletedItemInv
<1> HIDE DEF updated, marked, unblocked
<1>5. /\ items'[i] = updated
      /\ \A j \in Item \ {i} : items'[j] = items[j]
      /\ DOMAIN items' = Item
  BY <1>1, <1>2 DEF TypeOK
<1>6. ItemsInv'
  BY <1>1, <1>2, <1>4, <1>5 DEF ItemsInv
<1>7. newReady \subseteq Task
  <2>1. SchedulableSteps(updated) \subseteq Step
    BY <1>4 DEF ItemInv, ItemRecord, SchedulableSteps
  <2> QED BY <2>1 DEF Task
<1>8. IncompleteCountIsExact' /\ incomplete_count' \in Nat
  <2>1. IsFiniteSet(IncompleteItems) /\ i \in IncompleteItems
    BY <1>4, ItemAssumption, FS_Subset DEF IncompleteItems
  <2>2. CASE IsComplete(updated)
    <3>1. IncompleteItems' = IncompleteItems \ {i}
      BY <2>2, <1>5 DEF IncompleteItems
    <3>2. /\ Cardinality(IncompleteItems') = Cardinality(IncompleteItems) - 1
          /\ Cardinality(IncompleteItems') \in Nat
      BY <2>1, <3>1, FS_RemoveElement, FS_CardinalityType
    <3>3. incomplete_count' = incomplete_count - 1
      BY <2>2, <1>2, <1>4 DEF CountAfterCompletion
    <3> QED BY <3>2, <3>3, <1>1 DEF IncompleteCountIsExact
  <2>3. CASE ~IsComplete(updated)
    <3>1. IncompleteItems' = IncompleteItems
      BY <2>3, <1>4, <1>5 DEF IncompleteItems
    <3>2. incomplete_count' = incomplete_count
      BY <2>3, <1>2, <1>4 DEF CountAfterCompletion
    <3> QED BY <3>1, <3>2, <1>1 DEF IncompleteCountIsExact, TypeOK
  <2> QED BY <2>2, <2>3
<1>9. ReadyInv'
  <2> SUFFICES ASSUME NEW t \in ready'
               PROVE  t \in Task /\ t[2] \in SchedulableSteps(items'[t[1]])
    BY <1>2 DEF ReadyInv, SchedulableTasks
  <2>1. CASE t \in newReady
    BY <2>1, <1>5, <1>7
  <2>2. CASE t \in ready \ {<<i, s>>}
    <3>1. t \in Task /\ t[2] \in SchedulableSteps(items[t[1]])
      BY <2>2, <1>1 DEF ReadyInv, SchedulableTasks
    <3>2. CASE t[1] = i
      BY <2>2, <3>1, <3>2, <1>4, <1>5 DEF Task
    <3>3. CASE t[1] # i
      BY <3>1, <3>3, <1>5 DEF Task
    <3> QED BY <3>2, <3>3
  <2> QED BY <1>2, <2>1, <2>2
<1>10. TypeOK'
  <2>1. items' \in [Item -> ItemRecord]
    BY <1>1, <1>2, <1>4 DEF TypeOK, ItemInv
  <2>2. notified' \in [Task -> Nat]
    BY <1>1, <1>2 DEF TypeOK, Notify
  <2> QED BY <1>1, <1>2, <1>7, <1>8, <2>1, <2>2 DEF TypeOK
<1>11. NotifiedExactlyOnce'
  <2> SUFFICES ASSUME NEW t \in Task
               PROVE  notified'[t] = IF t \in ready' \/ t[2] \in Completed(items'[t[1]])
                                     THEN 1 ELSE 0
    BY DEF NotifiedExactlyOnce
  <2>1. /\ notified[t] = IF t \in ready \/ t[2] \in Completed(items[t[1]]) THEN 1 ELSE 0
        /\ notified'[t] = notified[t] + IF t \in newReady THEN 1 ELSE 0
    BY <1>1, <1>2 DEF NotifiedExactlyOnce, Notify
  <2>2. CASE t \in newReady
    <3>1. t[1] = i /\ t[2] \in unblocked
      BY <2>2
    <3>2. t \notin ready /\ t[2] \notin Completed(items[t[1]])
      BY <3>1, <1>1, <1>4 DEF ReadyInv, SchedulableTasks
    <3> QED BY <2>1, <2>2, <3>2, <1>2
  <2>3. CASE t \notin newReady
    <3>1. t \in ready' \/ t[2] \in Completed(items'[t[1]])
            <=> t \in ready \/ t[2] \in Completed(items[t[1]])
      <4>1. CASE t[1] = i
        BY <2>3, <4>1, <1>2, <1>4, <1>5 DEF Task
      <4>2. CASE t[1] # i
        BY <2>3, <4>2, <1>2, <1>5 DEF Task
      <4> QED BY <4>1, <4>2
    <3> QED BY <2>1, <2>3, <3>1
  <2> QED BY <2>2, <2>3
<1>12. InputsInv'
  <2> SUFFICES ASSUME NEW j \in Item, flow[j] \in UnconditionalInputs
               PROVE  NeededIsClosed(flow[j], items'[j]) /\ NothingLost(j)'
    BY <1>2 DEF InputsInv
  <2>1. NeededIsClosed(flow[j], items[j]) /\ NothingLost(j)
    BY <1>1, <1>3 DEF InputsInv
  <2>2. CASE j # i
    BY <2>1, <2>2, <1>2, <1>5 DEF NothingLost, SchedulableTasks, Task
  <2>3. CASE j = i
    <3>1. Visited(f, marked, unblocked) \subseteq item.needed
      BY <2>1, <2>3, <1>3, UnconditionalAddsNothing DEF marked, unblocked
    <3>2. updated.needed = item.needed /\ item.needed \subseteq Step
      BY <3>1, <1>3, <1>4 DEF ItemInv, ItemRecord
    <3>3. NeededIsClosed(f, updated)
      <4>1. updated.results \in Results /\ item.results \in Results
        BY <1>3, <1>4 DEF ItemInv, ItemRecord
      <4>2. \A w \in Step :
              InputNeeds(f, w, updated.results) \subseteq InputNeeds(f, w, item.results)
        BY <2>3, <4>1, <1>4, UnconditionalInputsAssumption DEF Completed
      <4> QED BY <2>1, <2>3, <3>2, <4>2 DEF NeededIsClosed
    <3>4. SchedulableSteps(updated) \subseteq
            (unblocked \intersect SchedulableSteps(updated)) \union (SchedulableSteps(item) \ {s})
      BY <3>2, <1>4 DEF SchedulableSteps
    <3>5. NothingLost(i)'
      <4> SUFFICES ASSUME NEW w \in SchedulableSteps(updated) PROVE <<i, w>> \in ready'
        BY <1>5 DEF NothingLost, SchedulableTasks, Task
      <4>1. CASE w \in unblocked
        BY <4>1, <1>2
      <4>2. CASE w \in SchedulableSteps(item) \ {s}
        <5>1. w \in Step
          BY <3>2, <4>2 DEF SchedulableSteps
        <5>2. <<i, w>> \in ready
          BY <2>1, <2>3, <4>2, <5>1 DEF NothingLost, SchedulableTasks, Task
        <5> QED BY <4>2, <5>2, <1>2
      <4> QED BY <3>4, <4>1, <4>2
    <3> QED BY <2>3, <3>3, <3>5, <1>5
  <2> QED BY <2>2, <2>3
<1>13. OutputInv'
  <2> SUFFICES ASSUME NEW j \in Item, flow[j] \in UnconditionalOutput
               PROVE  OutputNeeds(flow[j], items'[j].results) \subseteq items'[j].needed
    BY <1>2 DEF OutputInv
  <2>1. OutputNeeds(flow[j], items[j].results) \subseteq items[j].needed
    BY <1>1, <1>3 DEF OutputInv
  <2>2. CASE j # i
    BY <2>1, <2>2, <1>5
  <2>3. CASE j = i
    <3>1. updated.results \in Results /\ item.results \in Results
      BY <1>3, <1>4 DEF ItemInv, ItemRecord
    <3>2. OutputNeeds(f, updated.results) \subseteq OutputNeeds(f, item.results)
      BY <2>3, <3>1, <1>4, UnconditionalOutputAssumption DEF Completed
    <3> QED BY <2>1, <2>3, <3>2, <1>4, <1>5
  <2> QED BY <2>2, <2>3
<1>14. FreshInv'
  BY <1>2, <1>3 DEF FreshInv
<1> QED
  BY <1>6, <1>8, <1>9, <1>10, <1>11, <1>12, <1>13, <1>14 DEF IInv

(* The inductive invariant, for every behaviour.                           *)
THEOREM ItemsStateInvariant == Spec => []IInv
<1>1. IInv /\ [Next]_itemsVars => IInv'
  <2> SUFFICES ASSUME IInv, [Next]_itemsVars PROVE IInv'
    OBVIOUS
  <2>1. CASE InitializeAll
    BY <2>1, InitializeAllIInv
  <2>2. ASSUME NEW i \in Item, NEW s \in Step, NEW result \in FlowResult,
               CompleteTask(i, s, result)
        PROVE  IInv'
    BY <2>2, CompleteTaskIInv
  <2>3. CASE UNCHANGED itemsVars
    BY <2>3 DEF itemsVars, IInv, TypeOK, ItemsInv, IncompleteCountIsExact, IncompleteItems,
                ReadyInv, NotifiedExactlyOnce, FreshInv, InputsInv, OutputInv, NothingLost
  <2> QED BY <2>1, <2>2, <2>3 DEF Next
<1> QED BY InitIInv, <1>1, PTL DEF Spec

-----------------------------------------------------------------------------
(* Each variable has its type.                                             *)
THEOREM TypeCorrect == Spec => []TypeOK
BY ItemsStateInvariant, PTL DEF IInv

(* mark_completed finds through waiters exactly the steps that wait.       *)
THEOREM WaitersMirror == Spec => []WaitersMirrorWaitingOn
<1>1. IInv => WaitersMirrorWaitingOn
  BY DEF IInv, ItemsInv, ItemInv, WaitersMirrorWaitingOn
<1> QED BY <1>1, ItemsStateInvariant, PTL

(* No step waits for one that will not run.                                *)
THEOREM WaitsOnPending == Spec => []WaitsOnlyOnPendingSteps
<1>1. IInv => WaitsOnlyOnPendingSteps
  BY DEF IInv, ItemsInv, ItemInv, WaitsOnlyOnPendingSteps
<1> QED BY <1>1, ItemsStateInvariant, PTL

(* incomplete() is exact, for any number of items, although the counter is *)
(* not updated when a completion makes further steps needed.               *)
THEOREM IncompleteCount == Spec => []IncompleteCountIsExact
<1>1. IInv => IncompleteCountIsExact
  BY DEF IInv
<1> QED BY <1>1, ItemsStateInvariant, PTL

(* Executor contract 2 of scheduler.rs.                                    *)
THEOREM ReadyHasInputs == Spec => []ReadyTasksHaveTheirInputs
<1>1. IInv => ReadyTasksHaveTheirInputs
  BY DEF IInv, ReadyInv, ItemsInv, ItemInv, Evaluated, SchedulableTasks, SchedulableSteps, Task,
         ReadyTasksHaveTheirInputs
<1> QED BY <1>1, ItemsStateInvariant, PTL

(* Executor contract 1 of scheduler.rs.                                    *)
THEOREM NotifiedOnce == Spec => []NotifiedExactlyOnce
<1>1. IInv => NotifiedExactlyOnce
  BY DEF IInv
<1> QED BY <1>1, ItemsStateInvariant, PTL

(* Dependencies never form a cycle of waiting steps.                       *)
THEOREM ItemsCanProgress == Spec => []IncompleteItemsCanProgress
<1>1. IInv => IncompleteItemsCanProgress
  BY IncompleteHasSchedulable DEF IInv, ItemsInv, ItemInv, IncompleteItemsCanProgress
<1> QED BY <1>1, ItemsStateInvariant, PTL

(* A flow whose inputs hold no conditional never loses a step.             *)
THEOREM LosesNothing == Spec => []UnconditionalLosesNothing
<1>1. IInv => UnconditionalLosesNothing
  BY DEF IInv, InputsInv, UnconditionalLosesNothing
<1> QED BY <1>1, ItemsStateInvariant, PTL

(* The output of a complete item resolves if it holds no conditional.      *)
LEMMA CompleteOutputResolvable == IInv => UnconditionalOutputIsResolvable
<1> SUFFICES ASSUME IInv, initialized, NEW i \in Item,
                    flow[i] \in UnconditionalOutput, IsComplete(items[i])
             PROVE  OutputNeeds(flow[i], items[i].results) = {}
  BY DEF UnconditionalOutputIsResolvable
<1>1. OutputNeeds(flow[i], items[i].results) \subseteq Completed(items[i])
  BY DEF IInv, OutputInv, IsComplete
<1>2. flow[i] \in Flow /\ items[i].results \in Results
  BY DEF IInv, TypeOK, ItemRecord
<1> QED BY <1>1, <1>2, OutputNeedsAssumption DEF Completed

(* Of every reachable state.                                               *)
THEOREM OutputResolvable == Spec => []UnconditionalOutputIsResolvable
BY CompleteOutputResolvable, ItemsStateInvariant, PTL

(* A run whose inputs hold no conditional is over when the scheduler has   *)
(* nothing left, so that the executor cannot report a deadlock, and every  *)
(* output without a conditional can be resolved then.                      *)
THEOREM UnconditionalRunsEnd == Spec => []UnconditionalRunsSucceed
<1>1. IInv => UnconditionalRunsSucceed
  <2> SUFFICES ASSUME IInv, initialized, ready = {},
                      \A i \in Item : flow[i] \in UnconditionalInputs
               PROVE  /\ incomplete_count = 0
                      /\ \A i \in Item : flow[i] \in UnconditionalOutput
                           => OutputNeeds(flow[i], items[i].results) = {}
    BY DEF UnconditionalRunsSucceed
  <2>1. \A i \in Item : items[i] \in ItemRecord /\ Pending(items[i]) /\ Ordered(items[i])
    BY DEF IInv, ItemsInv, ItemInv
  <2>2. ASSUME NEW i \in Item, ~IsComplete(items[i])
        PROVE  FALSE
    <3>1. PICK s \in SchedulableSteps(items[i]) : TRUE
      BY <2>1, <2>2, IncompleteHasSchedulable
    <3>2. <<i, s>> \in SchedulableTasks(items) \intersect ({i} \X Step)
      BY <2>1, <3>1 DEF SchedulableTasks, SchedulableSteps, Task, ItemRecord
    <3> QED BY <3>2 DEF IInv, InputsInv, NothingLost
  <2>3. IncompleteItems = {}
    BY <2>2 DEF IncompleteItems
  <2>4. incomplete_count = 0
    BY <2>3, FS_EmptySet DEF IInv, IncompleteCountIsExact
  <2>5. ASSUME NEW i \in Item, flow[i] \in UnconditionalOutput
        PROVE  OutputNeeds(flow[i], items[i].results) = {}
    BY <2>2, <2>5, CompleteOutputResolvable DEF UnconditionalOutputIsResolvable
  <2> QED BY <2>4, <2>5
<1> QED BY <1>1, ItemsStateInvariant, PTL

-----------------------------------------------------------------------------
(* Crashes and recovery.                                                   *)

(* An item whose waiting relation is mirrored and whose pending steps      *)
(* outside S wait on nothing only if they need nothing.  Replay may apply  *)
(* a completion to an item that does not need the step (yet), so the       *)
(* inductive invariant of ItemsState is too strong here.                   *)
Sound(f, item, S) == item \in ItemRecord /\ Mirror(item) /\ Evaluated(f, item, S)

LEMMA NewItemSound ==
    ASSUME NEW f \in Flow
    PROVE  Sound(f, NewItem, {})
BY NewItemInv DEF ItemInv, Sound

(* Evaluating the steps of S changes no result and keeps what is           *)
(* schedulable so.                                                         *)
LEMMA UpdateSound ==
    ASSUME NEW f \in Flow, NEW item, NEW S \in SUBSET Step, Sound(f, item, S)
    PROVE  LET new == AddOrUpdateNeeded(f, item, S)
           IN  /\ Sound(f, new, {})
               /\ new.results = item.results
               /\ SchedulableSteps(item) \ S \subseteq SchedulableSteps(new)
<1> DEFINE visited == Visited(f, item, S)
           needs(s) == InputNeeds(f, s, item.results)
           new == AddOrUpdateNeeded(f, item, S)
           waiting == [s \in Step |-> IF s \in visited THEN needs(s) ELSE item.waiting_on[s]]
<1>1. item \in ItemRecord /\ Mirror(item) /\ Evaluated(f, item, S)
  BY DEF Sound
<1>2. \A s \in Step : needs(s) \subseteq Step
  BY <1>1, InputNeedsAssumption DEF ItemRecord
<1>3. visited \subseteq Step /\ S \subseteq visited
  BY <1>1, VisitedIsClosed
<1>4. /\ new.needed = item.needed \union visited
      /\ new.results = item.results
      /\ new.waiting_on = waiting
      /\ new.waiters = [d \in Step |->
            (item.waiters[d] \ {s \in visited : d \in item.waiting_on[s]})
              \union {s \in visited : d \in waiting[s]}]
  BY <1>1 DEF AddOrUpdateNeeded, ItemRecord
<1>5. new \in ItemRecord
  BY <1>1, <1>2, <1>3 DEF AddOrUpdateNeeded, ItemRecord
<1>6. Completed(new) = Completed(item)
  BY <1>4 DEF Completed
<1>7. Mirror(new)
  BY <1>1, <1>2, <1>3, <1>4 DEF Mirror, ItemRecord
<1>8. Evaluated(f, new, {})
  <2> SUFFICES ASSUME NEW w \in new.needed \ Completed(new), new.waiting_on[w] = {}
               PROVE  needs(w) = {}
    BY <1>4 DEF Evaluated
  <2>1. CASE w \in visited
    BY <2>1, <1>3, <1>4
  <2>2. CASE w \notin visited
    BY <2>2, <1>1, <1>3, <1>4, <1>6 DEF Evaluated, ItemRecord
  <2> QED BY <2>1, <2>2
<1>9. ASSUME NEW w \in SchedulableSteps(item) \ S
      PROVE  w \in SchedulableSteps(new)
  <2>1. w \in Step /\ w \in item.needed \ Completed(item) /\ item.waiting_on[w] = {}
    BY <1>1 DEF SchedulableSteps, ItemRecord
  <2>2. needs(w) = {}
    BY <2>1, <1>1 DEF Evaluated
  <2> QED BY <2>1, <2>2, <1>4, <1>6 DEF SchedulableSteps
<1> QED BY <1>1, <1>4, <1>5, <1>7, <1>8, <1>9 DEF Sound

(* Recording the completion of any step leaves the steps it unblocks to be *)
(* evaluated.                                                              *)
LEMMA MarkSound ==
    ASSUME NEW f \in Flow, NEW item, Sound(f, item, {}), NEW s \in Step,
           NEW result \in FlowResult
    PROVE  LET marked == MarkCompleted(item, s, result)
               unblocked == NewlyUnblocked(item, s)
           IN  /\ unblocked \in SUBSET Step
               /\ Sound(f, marked, unblocked)
               /\ s \notin Completed(item) => marked.results = [item.results EXCEPT ![s] = result]
               /\ SchedulableSteps(item) \ {s} \subseteq SchedulableSteps(marked) \ unblocked
<1> DEFINE marked == MarkCompleted(item, s, result)
           unblocked == NewlyUnblocked(item, s)
<1>1. item \in ItemRecord /\ Mirror(item) /\ Evaluated(f, item, {})
  BY DEF Sound
<1>2. CASE s \in Completed(item)
  BY <1>2, <1>1 DEF MarkCompleted, NewlyUnblocked, Sound, SchedulableSteps
<1>3. CASE s \notin Completed(item)
  <2>1. /\ marked.needed = item.needed
        /\ marked.results = [item.results EXCEPT ![s] = result]
        /\ marked.waiters = [item.waiters EXCEPT ![s] = {}]
        /\ marked.waiting_on = [w \in Step |->
              IF w \in item.waiters[s] THEN item.waiting_on[w] \ {s} ELSE item.waiting_on[w]]
    BY <1>1, <1>3 DEF MarkCompleted, ItemRecord
  <2>2. marked \in ItemRecord
    BY <1>1, <1>3, <2>1 DEF MarkCompleted, ItemRecord, Results
  <2>3. Completed(marked) = Completed(item) \union {s}
    BY <1>1, <1>3, <2>1, NotRunAssumption DEF Completed, CompletedIn, ItemRecord, Results
  <2>4. Mirror(marked)
    BY <1>1, <2>1 DEF Mirror, ItemRecord
  <2>5. \A w \in Step : marked.waiting_on[w] = item.waiting_on[w] \ {s}
    BY <1>1, <2>1 DEF Mirror, ItemRecord
  <2>6. unblocked = {w \in Step : s \in item.waiting_on[w] /\ item.waiting_on[w] \subseteq {s}}
    BY <1>1, <1>3 DEF NewlyUnblocked, Unblocked, Mirror, ItemRecord
  <2>7. Evaluated(f, marked, unblocked)
    <3> SUFFICES ASSUME NEW w \in (marked.needed \ Completed(marked)) \ unblocked,
                        marked.waiting_on[w] = {}
                 PROVE  InputNeeds(f, w, marked.results) = {}
      BY DEF Evaluated
    <3>a. w \in Step /\ w \notin unblocked
      BY <1>1, <2>1 DEF ItemRecord
    <3>b. item.waiting_on[w] \ {s} = {}
      BY <2>5, <3>a
    <3>c. s \notin item.waiting_on[w]
      BY <2>6, <3>a, <3>b
    <3>1. w \in Step /\ item.waiting_on[w] = {}
      BY <3>a, <3>b, <3>c
    <3>2. InputNeeds(f, w, item.results) = {}
      BY <1>1, <2>1, <2>3, <3>1 DEF Evaluated
    <3>3. item.results \in Results /\ item.results[s] = NotRun
      BY <1>1, <1>3 DEF ItemRecord, Completed, CompletedIn
    <3> QED BY <2>1, <3>1, <3>2, <3>3, InputNeedsStable
  <2>8. SchedulableSteps(item) \ {s} \subseteq SchedulableSteps(marked) \ unblocked
    BY <1>1, <2>1, <2>3, <2>5, <2>6 DEF SchedulableSteps, ItemRecord
  <2> QED BY <2>1, <2>2, <2>4, <2>6, <2>7, <2>8 DEF Sound
<1> QED BY <1>2, <1>3

(* complete_task_and_get_ready of one item.                                *)
LEMMA CompleteSound ==
    ASSUME NEW f \in Flow, NEW item, Sound(f, item, {}), NEW s \in Step,
           NEW result \in FlowResult
    PROVE  LET updated == AddOrUpdateNeeded(f, MarkCompleted(item, s, result),
                                            NewlyUnblocked(item, s))
           IN  /\ Sound(f, updated, {})
               /\ s \notin Completed(item) => updated.results = [item.results EXCEPT ![s] = result]
               /\ SchedulableSteps(item) \ {s} \subseteq SchedulableSteps(updated)
<1> DEFINE marked == MarkCompleted(item, s, result)
           unblocked == NewlyUnblocked(item, s)
<1>1. /\ unblocked \in SUBSET Step
      /\ Sound(f, marked, unblocked)
      /\ s \notin Completed(item) => marked.results = [item.results EXCEPT ![s] = result]
      /\ SchedulableSteps(item) \ {s} \subseteq SchedulableSteps(marked) \ unblocked
  BY MarkSound
<1> HIDE DEF marked, unblocked
<1>2. /\ Sound(f, AddOrUpdateNeeded(f, marked, unblocked), {})
      /\ AddOrUpdateNeeded(f, marked, unblocked).results = marked.results
      /\ SchedulableSteps(marked) \ unblocked
           \subseteq SchedulableSteps(AddOrUpdateNeeded(f, marked, unblocked))
  BY <1>1, UpdateSound
<1> QED BY <1>1, <1>2 DEF marked, unblocked

(* A checkpoint and its restoration lose nothing of an item.               *)
LEMMA CheckpointIsFaithful ==
    ASSUME NEW item \in ItemRecord, Mirror(item)
    PROVE  FromCheckpoint(ToCheckpoint(item)) = item
BY DEF FromCheckpoint, ToCheckpoint, Mirror, ItemRecord

-----------------------------------------------------------------------------
(* The events of a run.                                                    *)
NeededEvent == [type : {"StepsNeeded"}, item : Item, steps : SUBSET Step]
CompletedEvent == [type : {"TaskCompleted"}, item : Item, step : Step, result : FlowResult]
RunEvent == NeededEvent \union CompletedEvent

SavedItem == [needed : SUBSET Step, results : Results, waiting_on : [Step -> SUBSET Step]]

RunTypes ==
    /\ flow \in [Item -> Flow]
    /\ items \in [Item -> ItemRecord]
    /\ initialized \in BOOLEAN
    /\ ready \subseteq Task
    /\ mode \in {"up", "replaying", "down"}
    /\ journal \in Seq(RunEvent)
    /\ unwritten \in Seq(RunEvent)
    /\ replayed \in 0..Len(journal)
    /\ checkpoint \in [taken : BOOLEAN, at : Nat, items : [Item -> SavedItem]]
    /\ checkpoint.at \in 0..Len(journal)
    /\ ~checkpoint.taken => checkpoint.at = 0

(* The first n events of a log are the history of some results: they agree *)
(* with them, and leave none out.                                          *)
History(log, n, results) ==
    \A t \in Task :
        /\ \A m \in 1..n : Completes(log[m], t) => log[m].result = results[t[1]][t[2]]
        /\ results[t[1]][t[2]] # NotRun => \E m \in 1..n : Completes(log[m], t)

(* The results in memory, without the one that is about to be appended.    *)
ResultsOf(its) == [i \in Item |-> its[i].results]
Appending(t) == \E m \in 1..Len(unwritten) : Completes(unwritten[m], t)
Settled ==
    [i \in Item |-> [s \in Step |-> IF Appending(<<i, s>>) THEN NotRun ELSE items[i].results[s]]]

(* When the orchestrator is up, the journal is the history of the settled  *)
(* results; during a replay the part that was read is that of the results  *)
(* in memory; and the part before a checkpoint that of the results in it.  *)
HistoryInv ==
    /\ mode = "up" => History(journal, Len(journal), Settled)
    /\ mode = "replaying" => History(journal, replayed, ResultsOf(items))
    /\ History(journal, checkpoint.at, ResultsOf(checkpoint.items))

(* A completion that is about to be appended is the only event that is, is *)
(* in memory, and had its inputs.                                          *)
UnwrittenInv ==
    /\ unwritten # <<>> => mode = "up" /\ initialized
    /\ \A m \in 1..Len(unwritten) : unwritten[m].type = "TaskCompleted" =>
         LET i == unwritten[m].item
             s == unwritten[m].step
         IN  /\ Len(unwritten) = 1
             /\ items[i].results[s] = unwritten[m].result
             /\ InputNeeds(flow[i], s, [items[i].results EXCEPT ![s] = NotRun]) = {}

ItemsSound ==
    \A i \in Item : /\ Sound(flow[i], items[i], {})
                    /\ Sound(flow[i], FromCheckpoint(checkpoint.items[i]), {})

(* What is with the scheduler can run, and nothing is before initialize_all*)
(* or away from an orchestrator.                                           *)
SchedulerInv ==
    /\ ready \subseteq SchedulableTasks(items)
    /\ ~initialized => ready = {}
    /\ mode # "up" => ~initialized

RInv ==
    /\ RunTypes
    /\ ItemsSound
    /\ SchedulerInv
    /\ UnwrittenInv
    /\ HistoryInv
    /\ CompletesOnce

-----------------------------------------------------------------------------
(* SetToSeq of a finite set is a sequence of its elements.                 *)
LEMMA SetToSeqIsSeq ==
    ASSUME NEW S, IsFiniteSet(S)
    PROVE  SetToSeq(S) \in Seq(S)
<1>1. PICK f \in Bijection(1..Cardinality(S), S) : TRUE
  BY FS_CardinalityType DEF ExistsBijection
<1>2. f \in [1..Cardinality(S) -> S] /\ IsInjective(f)
  BY <1>1 DEF Bijection, Injection, IsInjective
<1>3. SetToSeq(S) \in [1..Cardinality(S) -> S]
  BY <1>2 DEF SetToSeq
<1> QED BY <1>3, FS_CardinalityType

(* The events of write_steps_needed_events.                                *)
LEMMA StepsNeededEventsType ==
    ASSUME NEW its \in [Item -> ItemRecord]
    PROVE  StepsNeededEvents(its) \in Seq(NeededEvent)
<1> DEFINE I == {j \in Item : its[j].needed # {}}
           event == [i \in I |-> StepsNeeded(i, its[i].needed)]
           E == {StepsNeeded(i, its[i].needed) : i \in I}
<1>1. IsFiniteSet(I)
  BY ItemAssumption, FS_Subset
<1>2. event \in Surjection(I, E)
  BY DEF Surjection
<1>3. IsFiniteSet(E)
  BY <1>1, <1>2, FS_Surjection DEF ExistsSurjection
<1>4. E \subseteq NeededEvent
  BY DEF StepsNeeded, NeededEvent, ItemRecord
<1>5. SetToSeq(E) \in Seq(E)
  BY <1>3, SetToSeqIsSeq
<1> QED BY <1>4, <1>5, SeqMonotonic DEF StepsNeededEvents

(* Reading one more event, which is the first completion of its task,      *)
(* extends a history.                                                      *)
Records(log, n, before, after) ==
    \A t \in Task : IF Completes(log[n + 1], t)
                    THEN /\ after[t[1]][t[2]] = log[n + 1].result
                         /\ \A m \in 1..n : ~Completes(log[m], t)
                    ELSE after[t[1]][t[2]] = before[t[1]][t[2]]

LEMMA HistoryStep ==
    ASSUME NEW log, NEW n \in Nat, NEW before, NEW after, History(log, n, before),
           Records(log, n, before, after)
    PROVE  History(log, n + 1, after)
<1> USE DEF Records
<1> SUFFICES ASSUME NEW t \in Task
             PROVE  /\ \A m \in 1..(n + 1) : Completes(log[m], t)
                          => log[m].result = after[t[1]][t[2]]
                    /\ after[t[1]][t[2]] # NotRun => \E m \in 1..(n + 1) : Completes(log[m], t)
  BY DEF History
<1>1. \A m \in 1..(n + 1) : m \in 1..n \/ m = n + 1
  OBVIOUS
<1>2. 1..n \subseteq 1..(n + 1) /\ n + 1 \in 1..(n + 1)
  OBVIOUS
<1>3. CASE Completes(log[n + 1], t)
  BY <1>1, <1>2, <1>3
<1>4. CASE ~Completes(log[n + 1], t)
  BY <1>1, <1>2, <1>4 DEF History
<1> QED BY <1>3, <1>4

(* What is appended to a log leaves the history of its first events.       *)
LEMMA HistoryOfPrefix ==
    ASSUME NEW log \in Seq(RunEvent), NEW event \in RunEvent, NEW n \in 0..Len(log), NEW results
    PROVE  History(Append(log, event), n, results) <=> History(log, n, results)
<1>1. \A m \in 1..n : Append(log, event)[m] = log[m]
  OBVIOUS
<1> QED BY <1>1 DEF History

(* Events are typed, and only completions complete.                        *)
LEMMA EventTypes ==
    ASSUME NEW event \in RunEvent
    PROVE  /\ event.item \in Item
           /\ event.type \in {"StepsNeeded", "TaskCompleted"}
           /\ event.type = "StepsNeeded" => /\ event.steps \in SUBSET Step
                                            /\ \A t : ~Completes(event, t)
           /\ event.type = "TaskCompleted" => /\ event.step \in Step
                                              /\ event.result \in FlowResult
                                              /\ event.result # NotRun
                                              /\ <<event.item, event.step>> \in Task
BY NotRunAssumption DEF RunEvent, NeededEvent, CompletedEvent, Completes, Task

LEMMA NeededEventsOnly ==
    ASSUME NEW events \in Seq(NeededEvent)
    PROVE  \A m \in 1..Len(events) : events[m].type = "StepsNeeded"
<1>1. \A m \in 1..Len(events) : events[m] \in NeededEvent
  OBVIOUS
<1>2. \A event \in NeededEvent : event.type = "StepsNeeded"
  BY DEF NeededEvent
<1> QED BY <1>1, <1>2

-----------------------------------------------------------------------------
LEMMA RunInitRInv == RunInit => RInv
<1> SUFFICES ASSUME RunInit PROVE RInv
  OBVIOUS
<1> USE DEF RunInit, Init
<1>1. NewItem \in ItemRecord
  BY DEF NewItem, ItemRecord, Results
<1>2. ToCheckpoint(NewItem) \in SavedItem
  BY <1>1 DEF ToCheckpoint, SavedItem, ItemRecord
<1>3. RunTypes
  <2>1. checkpoint \in [taken : BOOLEAN, at : Nat, items : [Item -> SavedItem]]
    BY <1>2 DEF NoCheckpoint
  <2>2. journal \in Seq(RunEvent) /\ unwritten \in Seq(RunEvent) /\ Len(journal) = 0
    OBVIOUS
  <2>3. checkpoint.at = 0
    BY DEF NoCheckpoint
  <2>4. /\ checkpoint.at \in 0..Len(journal) /\ replayed \in 0..Len(journal)
        /\ ~checkpoint.taken => checkpoint.at = 0
    BY <2>2, <2>3
  <2>5. items \in [Item -> ItemRecord] /\ ready \subseteq Task
    BY <1>1
  <2>6. /\ flow \in [Item -> Flow] /\ initialized \in BOOLEAN
        /\ mode \in {"up", "replaying", "down"}
    OBVIOUS
  <2> QED BY <2>1, <2>2, <2>4, <2>5, <2>6 DEF RunTypes
<1>4. ItemsSound
  <2> SUFFICES ASSUME NEW i \in Item
               PROVE  /\ Sound(flow[i], items[i], {})
                      /\ Sound(flow[i], FromCheckpoint(checkpoint.items[i]), {})
    BY DEF ItemsSound
  <2>1. Sound(flow[i], NewItem, {})
    BY NewItemSound
  <2>2. FromCheckpoint(ToCheckpoint(NewItem)) = NewItem
    BY <2>1, CheckpointIsFaithful DEF Sound
  <2> QED BY <2>1, <2>2 DEF NoCheckpoint
<1>5. SchedulerInv /\ UnwrittenInv /\ CompletesOnce
  BY DEF SchedulerInv, UnwrittenInv, CompletesOnce
<1>6. HistoryInv
  <2>1. \A t \in Task : Settled[t[1]][t[2]] = NotRun
    BY DEF Settled, Appending, NewItem, Task
  <2>2. \A t \in Task : ResultsOf(checkpoint.items)[t[1]][t[2]] = NotRun
    BY DEF ResultsOf, NoCheckpoint, ToCheckpoint, NewItem, Task
  <2>3. checkpoint.at = 0 /\ Len(journal) = 0
    BY DEF NoCheckpoint
  <2> QED BY <2>1, <2>2, <2>3 DEF HistoryInv, History
<1> QED BY <1>3, <1>4, <1>5, <1>6 DEF RInv

(* When nothing is to be appended, all results in memory are settled.      *)
LEMMA NothingAppending ==
    ASSUME RunTypes, \A m \in 1..Len(unwritten) : unwritten[m].type = "StepsNeeded"
    PROVE  Settled = ResultsOf(items)
<1>1. \A t : ~Appending(t)
  BY DEF Appending, Completes
<1>2. \A i \in Item : items[i].results = [s \in Step |-> items[i].results[s]]
  BY DEF RunTypes, ItemRecord, Results
<1> QED BY <1>1, <1>2 DEF Settled, ResultsOf

LEMMA StartRInv == ASSUME RInv, Start PROVE RInv'
<1> USE DEF RInv, Start
<1>1. unwritten = <<>> /\ mode = "up" /\ mode' = "up" /\ initialized' = TRUE
  BY DEF UnwrittenInv, InitializeAll
<1>2. ASSUME NEW i \in Item
      PROVE  /\ Sound(flow[i], items'[i], {})
             /\ items'[i].results = items[i].results
  <2>1. InitialSteps(flow[i], items[i]) \in SUBSET Step
    BY OutputNeedsAssumption, MustExecuteAssumption DEF InitialSteps, RunTypes, ItemRecord
  <2>2. Sound(flow[i], items[i], InitialSteps(flow[i], items[i]))
    BY DEF ItemsSound, Sound, Evaluated
  <2>3. items'[i] = AddOrUpdateNeeded(flow[i], items[i], InitialSteps(flow[i], items[i]))
    BY DEF InitializeAll, InitializedItem
  <2>4. flow[i] \in Flow
    BY DEF RunTypes
  <2> QED BY <2>1, <2>2, <2>3, <2>4, UpdateSound
<1>3. items' \in [Item -> ItemRecord]
  BY <1>2 DEF InitializeAll, Sound
<1>4. \A m \in 1..Len(unwritten') : unwritten'[m].type = "StepsNeeded"
  <2>1. unwritten' \in Seq(NeededEvent)
    BY <1>3, StepsNeededEventsType
  <2> QED BY <2>1, NeededEventsOnly
<1>5. RunTypes'
  <2>1. unwritten' \in Seq(RunEvent)
    <3>1. StepsNeededEvents(items') \in Seq(NeededEvent)
      BY <1>3, StepsNeededEventsType
    <3>2. NeededEvent \subseteq RunEvent
      BY DEF RunEvent
    <3> QED BY <3>1, <3>2, SeqMonotonic
  <2>2. ready' \subseteq Task
    BY DEF InitializeAll, SchedulableTasks
  <2> QED BY <1>1, <1>3, <2>1, <2>2 DEF RunTypes, InitializeAll
<1>6. ItemsSound'
  BY <1>2 DEF ItemsSound, InitializeAll
<1>7. SchedulerInv'
  BY <1>1 DEF SchedulerInv, InitializeAll
<1>8. UnwrittenInv'
  BY <1>1, <1>4 DEF UnwrittenInv
<1>9. HistoryInv'
  <2>1. Settled = ResultsOf(items)
    BY <1>1, NothingAppending
  <2>2. \A t : ~Appending(t)'
    BY <1>4 DEF Appending, Completes
  <2>3. \A t \in Task : Settled'[t[1]][t[2]] = ResultsOf(items)[t[1]][t[2]]
    BY <1>2, <2>2 DEF Settled, ResultsOf, Task
  <2>4. History(journal, Len(journal), Settled')
    BY <1>1, <2>1, <2>3 DEF HistoryInv, History
  <2> QED BY <1>1, <2>4 DEF HistoryInv
<1>10. CompletesOnce'
  BY DEF CompletesOnce
<1> QED BY <1>5, <1>6, <1>7, <1>8, <1>9, <1>10

LEMMA CompleteAndJournalRInv ==
    ASSUME RInv, NEW i \in Item, NEW s \in Step, NEW v \in FlowResult,
           CompleteAndJournal(i, s, v)
    PROVE  RInv'
<1> DEFINE updated == AddOrUpdateNeeded(flow[i], MarkCompleted(items[i], s, v),
                                        NewlyUnblocked(items[i], s))
           event == TaskCompleted(i, s, v)
<1>1. /\ RunTypes /\ ItemsSound /\ SchedulerInv /\ UnwrittenInv /\ HistoryInv /\ CompletesOnce
      /\ unwritten = <<>> /\ unwritten' = <<event>>
      /\ <<i, s>> \in ready
      /\ UNCHANGED <<flow, initialized, is_root, mode, journal, replayed, checkpoint>>
  BY DEF RInv, CompleteAndJournal, CompleteTask, CompleteTaskAndGetReady
<1>2. /\ items' = [items EXCEPT ![i] = updated]
      /\ ready' \subseteq (ready \ {<<i, s>>}) \union ({i} \X SchedulableSteps(updated))
  BY DEF CompleteAndJournal, CompleteTask, CompleteTaskAndGetReady
<1>3. /\ flow[i] \in Flow /\ items[i] \in ItemRecord /\ items \in [Item -> ItemRecord]
      /\ Sound(flow[i], items[i], {})
  BY <1>1 DEF RunTypes, ItemsSound
<1>4. initialized /\ mode = "up" /\ s \in SchedulableSteps(items[i])
  BY <1>1 DEF SchedulerInv, SchedulableTasks
<1>5. s \notin Completed(items[i]) /\ items[i].results[s] = NotRun /\ items[i].results \in Results
  BY <1>3, <1>4 DEF SchedulableSteps, Completed, CompletedIn, ItemRecord
<1>6. InputNeeds(flow[i], s, items[i].results) = {}
  BY <1>3, <1>4 DEF SchedulableSteps, Sound, Evaluated
<1>7. /\ Sound(flow[i], updated, {})
      /\ updated.results = [items[i].results EXCEPT ![s] = v]
      /\ SchedulableSteps(items[i]) \ {s} \subseteq SchedulableSteps(updated)
  BY <1>3, <1>5, CompleteSound
<1>8. updated \in ItemRecord
  BY <1>7 DEF Sound
<1> HIDE DEF updated
<1>9. event \in RunEvent /\ event.type = "TaskCompleted" /\ event.item = i /\ event.step = s
      /\ event.result = v
  BY DEF TaskCompleted, RunEvent, CompletedEvent
<1> HIDE DEF event
<1>10. Len(unwritten') = 1 /\ unwritten'[1] = event /\ unwritten' \in Seq(RunEvent)
  BY <1>1, <1>9
<1>11. \A j \in Item : items'[j] = IF j = i THEN updated ELSE items[j]
  BY <1>2, <1>3
<1>12. ready' \subseteq SchedulableTasks(items')
  <2> SUFFICES ASSUME NEW t \in ready'
               PROVE  t \in Task /\ t[2] \in SchedulableSteps(items'[t[1]])
    BY DEF SchedulableTasks
  <2>1. CASE t \in ready \ {<<i, s>>}
    <3>1. t \in Task /\ t[2] \in SchedulableSteps(items[t[1]])
      BY <2>1, <1>1 DEF SchedulerInv, SchedulableTasks
    <3>2. t[1] = i => t[2] # s
      BY <2>1, <3>1 DEF Task
    <3> QED BY <3>1, <3>2, <1>7, <1>11 DEF Task
  <2>2. CASE t \in {i} \X SchedulableSteps(updated)
    BY <2>2, <1>8, <1>11 DEF Task, SchedulableSteps, ItemRecord
  <2> QED BY <2>1, <2>2, <1>2
<1>13. RunTypes'
  <2>1. items' \in [Item -> ItemRecord]
    BY <1>2, <1>3, <1>8
  <2>2. ready' \subseteq Task
    BY <1>12 DEF SchedulableTasks
  <2> QED BY <2>1, <2>2, <1>1, <1>10 DEF RunTypes
<1>14. ItemsSound'
  BY <1>1, <1>7, <1>11 DEF ItemsSound
<1>15. SchedulerInv'
  BY <1>1, <1>4, <1>12 DEF SchedulerInv
<1>16. UnwrittenInv'
  <2>1. items'[i].results = [items[i].results EXCEPT ![s] = v]
    BY <1>7, <1>11
  <2>2. items'[i].results[s] = v /\ [items'[i].results EXCEPT ![s] = NotRun] = items[i].results
    BY <2>1, <1>5 DEF Results
  <2>3. \A m \in 1..Len(unwritten') : unwritten'[m] = event
    BY <1>10
  <2> QED BY <2>2, <2>3, <1>1, <1>4, <1>6, <1>9, <1>10 DEF UnwrittenInv
<1>17. HistoryInv'
  <2>1. \A t : Appending(t)' <=> t = <<i, s>>
    BY <1>9, <1>10 DEF Appending, Completes
  <2>2. \A t : ~Appending(t)
    BY <1>1 DEF Appending
  <2>3. ASSUME NEW t \in Task PROVE Settled'[t[1]][t[2]] = Settled[t[1]][t[2]]
    <3> PICK j \in Item, d \in Step : t = <<j, d>>
      BY DEF Task
    <3>1. Settled[j][d] = items[j].results[d]
      BY <2>2 DEF Settled
    <3>2. Settled'[j][d] = IF <<j, d>> = <<i, s>> THEN NotRun ELSE items'[j].results[d]
      BY <2>1 DEF Settled
    <3>3. CASE j = i /\ d = s
      BY <3>1, <3>2, <3>3, <1>5
    <3>4. CASE j = i /\ d # s
      BY <3>1, <3>2, <3>4, <1>5, <1>7, <1>11 DEF Results
    <3>5. CASE j # i
      BY <3>1, <3>2, <3>5, <1>11
    <3> QED BY <3>3, <3>4, <3>5
  <2>4. History(journal, Len(journal), Settled')
    BY <2>3, <1>1, <1>4 DEF HistoryInv, History
  <2> QED BY <2>4, <1>1, <1>4 DEF HistoryInv
<1>18. CompletesOnce'
  BY <1>1 DEF CompletesOnce
<1> QED BY <1>13, <1>14, <1>15, <1>16, <1>17, <1>18 DEF RInv

(* What a completed step in memory says of the journal.                    *)
LEMMA UnrecordedTask ==
    ASSUME NEW log \in Seq(RunEvent), NEW n \in 0..Len(log), NEW results, History(log, n, results),
           NEW t \in Task, results[t[1]][t[2]] = NotRun
    PROVE  \A m \in 1..n : ~Completes(log[m], t)
<1> SUFFICES ASSUME NEW m \in 1..n, Completes(log[m], t)
             PROVE  FALSE
  OBVIOUS
<1>1. log[m] \in RunEvent /\ log[m].type = "TaskCompleted"
  BY DEF Completes
<1>2. log[m].result # NotRun
  BY <1>1, EventTypes
<1> QED BY <1>2 DEF History

LEMMA WriteJournalRInv == ASSUME RInv, WriteJournal PROVE RInv'
<1> DEFINE event == Head(unwritten)
<1>1. /\ RunTypes /\ ItemsSound /\ SchedulerInv /\ UnwrittenInv /\ HistoryInv /\ CompletesOnce
      /\ unwritten # <<>> /\ unwritten' = Tail(unwritten)
      /\ journal' = Append(journal, event)
      /\ UNCHANGED <<itemsVars, mode, replayed, checkpoint>>
  BY DEF RInv, WriteJournal
<1>2. /\ unwritten \in Seq(RunEvent) /\ journal \in Seq(RunEvent)
      /\ checkpoint.at \in 0..Len(journal) /\ replayed \in 0..Len(journal)
  BY <1>1 DEF RunTypes
<1>3. event \in RunEvent /\ event = unwritten[1] /\ 1 \in 1..Len(unwritten)
  BY <1>1, <1>2
<1>4. mode = "up" /\ initialized
  BY <1>1 DEF UnwrittenInv
<1>5. /\ journal' \in Seq(RunEvent) /\ Len(journal') = Len(journal) + 1
      /\ journal'[Len(journal) + 1] = event
      /\ \A m \in 1..Len(journal) : journal'[m] = journal[m]
      /\ unwritten' \in Seq(RunEvent)
      /\ \A m \in 1..Len(unwritten') : m + 1 \in 1..Len(unwritten) /\ unwritten'[m] = unwritten[m + 1]
  BY <1>1, <1>2, <1>3
<1> HIDE DEF event
<1>6. RunTypes'
  BY <1>1, <1>2, <1>5 DEF RunTypes, itemsVars
<1>7. ItemsSound' /\ SchedulerInv'
  BY <1>1 DEF ItemsSound, SchedulerInv, itemsVars
<1>8. \A m \in 1..Len(unwritten) : unwritten[m].type = "TaskCompleted" => Len(unwritten) = 1 /\ m = 1
  <2>1. \A m \in 1..Len(unwritten) : unwritten[m].type = "TaskCompleted" => Len(unwritten) = 1
    BY <1>1 DEF UnwrittenInv
  <2> QED BY <2>1
<1>81. UnwrittenInv'
  <2>1. \A m \in 1..Len(unwritten') : unwritten'[m].type # "TaskCompleted"
    BY <1>5, <1>8
  <2> QED BY <2>1, <1>1, <1>4 DEF UnwrittenInv, itemsVars
<1>9. History(journal, Len(journal), Settled)
  BY <1>1, <1>4 DEF HistoryInv
<1>10. \A t \in Task : Completes(event, t) => \A m \in 1..Len(journal) : ~Completes(journal[m], t)
  <2> SUFFICES ASSUME NEW t \in Task, Completes(event, t)
               PROVE  Settled[t[1]][t[2]] = NotRun
    BY <1>2, <1>9, UnrecordedTask
  <2>1. Appending(t)
    BY <1>3 DEF Appending
  <2> QED BY <2>1 DEF Settled, Task
<1>11. \A t \in Task : IF Completes(event, t)
                       THEN Settled'[t[1]][t[2]] = event.result
                       ELSE Settled'[t[1]][t[2]] = Settled[t[1]][t[2]]
  <2>1. CASE event.type = "StepsNeeded"
    <3>1. \A m \in 1..Len(unwritten) : unwritten[m].type = "StepsNeeded"
      <4>1. \A m \in 1..Len(unwritten) : unwritten[m] \in RunEvent
        BY <1>2
      <4> QED BY <4>1, <1>8, <1>3, <2>1, EventTypes
    <3>2. Settled = ResultsOf(items)
      BY <1>1, <3>1, NothingAppending
    <3>3. \A t : ~Appending(t)'
      BY <1>5, <3>1 DEF Appending, Completes
    <3>4. items' = items
      BY <1>1 DEF itemsVars
    <3>5. \A t \in Task : Settled'[t[1]][t[2]] = ResultsOf(items)[t[1]][t[2]]
      BY <3>3, <3>4 DEF Settled, ResultsOf, Task
    <3> QED BY <3>2, <3>5, <1>3, <2>1, EventTypes
  <2>2. CASE event.type = "TaskCompleted"
    <3>1. /\ Len(unwritten) = 1
          /\ items[event.item].results[event.step] = event.result
      BY <1>1, <1>3, <2>2 DEF UnwrittenInv
    <3>2. unwritten' = <<>>
      BY <1>1, <1>2, <3>1
    <3>3. \A t : Appending(t) <=> Completes(event, t)
      BY <1>3, <3>1 DEF Appending
    <3>4. \A t : ~Appending(t)'
      BY <3>2 DEF Appending
    <3>5. items' = items
      BY <1>1 DEF itemsVars
    <3> SUFFICES ASSUME NEW j \in Item, NEW d \in Step
                 PROVE  IF Completes(event, <<j, d>>) THEN Settled'[j][d] = event.result
                        ELSE Settled'[j][d] = Settled[j][d]
      BY DEF Task
    <3>6. Settled'[j][d] = items[j].results[d]
      BY <3>4, <3>5 DEF Settled
    <3>7. ~Completes(event, <<j, d>>) => Settled[j][d] = items[j].results[d]
      BY <3>3 DEF Settled
    <3>8. Completes(event, <<j, d>>) => j = event.item /\ d = event.step
      BY DEF Completes
    <3> QED BY <3>1, <3>6, <3>7, <3>8
  <2> QED BY <2>1, <2>2, <1>3, EventTypes
<1>12. HistoryInv'
  <2>1. \A n \in 0..Len(journal) : \A results :
           History(journal', n, results) <=> History(journal, n, results)
    BY <1>1, <1>2, <1>3, HistoryOfPrefix
  <2>2. History(journal', Len(journal), Settled)
    BY <1>2, <1>9, <2>1
  <2>3. Records(journal', Len(journal), Settled, Settled')
    BY <1>5, <1>10, <1>11 DEF Records
  <2>4. History(journal', Len(journal) + 1, Settled')
    <3>1. Len(journal) \in Nat
      BY <1>2
    <3> QED BY <2>2, <2>3, <3>1, HistoryStep
  <2>5. History(journal', checkpoint.at, ResultsOf(checkpoint.items))
    BY <1>1, <1>2, <2>1 DEF HistoryInv
  <2> QED BY <1>1, <1>4, <1>5, <2>4, <2>5 DEF HistoryInv, itemsVars
<1>13. CompletesOnce'
  <2> SUFFICES ASSUME NEW m \in DOMAIN journal', NEW n \in DOMAIN journal', m < n,
                      journal'[m].type = "TaskCompleted", journal'[n].type = "TaskCompleted",
                      <<journal'[m].item, journal'[m].step>> = <<journal'[n].item, journal'[n].step>>
               PROVE  FALSE
    BY DEF CompletesOnce
  <2>1. m \in 1..Len(journal) /\ n \in 1..(Len(journal) + 1)
    BY <1>2, <1>5
  <2>2. CASE n \in 1..Len(journal)
    <3>1. journal'[m] = journal[m] /\ journal'[n] = journal[n]
      BY <1>5, <2>1, <2>2
    <3>2. m \in DOMAIN journal /\ n \in DOMAIN journal
      BY <1>2, <2>1, <2>2
    <3> QED BY <1>1, <3>1, <3>2 DEF CompletesOnce
  <2>3. CASE n = Len(journal) + 1
    <3>1. Completes(event, <<event.item, event.step>>) /\ <<event.item, event.step>> \in Task
      BY <1>3, <1>5, <2>3, EventTypes DEF Completes
    <3>2. ~Completes(journal[m], <<event.item, event.step>>)
      BY <1>10, <2>1, <3>1
    <3> QED BY <1>5, <2>1, <2>3, <3>2 DEF Completes
  <2> QED BY <2>1, <2>2, <2>3, <1>2
<1> QED BY <1>6, <1>7, <1>81, <1>12, <1>13 DEF RInv

LEMMA TakeCheckpointRInv == ASSUME RInv, TakeCheckpoint PROVE RInv'
<1>1. /\ RunTypes /\ ItemsSound /\ SchedulerInv /\ UnwrittenInv /\ HistoryInv /\ CompletesOnce
      /\ initialized /\ unwritten = <<>>
      /\ checkpoint' = [taken |-> TRUE, at |-> Len(journal),
                        items |-> [i \in Item |-> ToCheckpoint(items[i])]]
      /\ UNCHANGED <<itemsVars, mode, journal, replayed, unwritten>>
  BY DEF RInv, TakeCheckpoint
<1>2. mode = "up"
  BY <1>1 DEF SchedulerInv, RunTypes
<1>3. items \in [Item -> ItemRecord] /\ journal \in Seq(RunEvent)
  BY <1>1 DEF RunTypes
<1>4. \A i \in Item : ToCheckpoint(items[i]) \in SavedItem
  BY <1>3 DEF ToCheckpoint, SavedItem, ItemRecord
<1>5. /\ checkpoint'.at = Len(journal)
      /\ checkpoint'.taken = TRUE
      /\ checkpoint'.items = [i \in Item |-> ToCheckpoint(items[i])]
      /\ checkpoint' \in [taken : BOOLEAN, at : Nat, items : [Item -> SavedItem]]
  BY <1>1, <1>3, <1>4
<1>6. RunTypes'
  BY <1>1, <1>3, <1>5 DEF RunTypes, itemsVars
<1>7. \A i \in Item : FromCheckpoint(checkpoint'.items[i]) = items[i]
  BY <1>1, <1>3, <1>5, CheckpointIsFaithful DEF ItemsSound, Sound
<1>8. ItemsSound'
  BY <1>1, <1>7 DEF ItemsSound, itemsVars
<1>9. SchedulerInv' /\ UnwrittenInv' /\ CompletesOnce'
  BY <1>1 DEF SchedulerInv, UnwrittenInv, CompletesOnce, itemsVars
<1>10. HistoryInv'
  <2>1. Settled = ResultsOf(items)
    BY <1>1, NothingAppending
  <2>2. ResultsOf(checkpoint'.items) = ResultsOf(items)
    BY <1>5 DEF ResultsOf, ToCheckpoint
  <2>3. History(journal, Len(journal), Settled)
    BY <1>1, <1>2 DEF HistoryInv
  <2>4. Settled' = Settled
    BY <1>1 DEF Settled, Appending, itemsVars
  <2>5. History(journal', Len(journal'), Settled')
    BY <1>1, <2>3, <2>4
  <2>6. History(journal', checkpoint'.at, ResultsOf(checkpoint'.items))
    BY <1>1, <1>5, <2>1, <2>2, <2>3
  <2> QED BY <1>1, <1>2, <2>5, <2>6 DEF HistoryInv
<1> QED BY <1>6, <1>8, <1>9, <1>10 DEF RInv

LEMMA CrashRInv == ASSUME RInv, Crash PROVE RInv'
<1>1. /\ RunTypes /\ ItemsSound /\ HistoryInv /\ CompletesOnce
      /\ mode' = "down" /\ items' = [i \in Item |-> NewItem]
      /\ initialized' = FALSE /\ ready' = {} /\ unwritten' = <<>>
      /\ UNCHANGED <<flow, journal, replayed, checkpoint>>
  BY DEF RInv, Crash
<1>2. NewItem \in ItemRecord
  BY DEF NewItem, ItemRecord, Results
<1>3. RunTypes'
  <2>1. items' \in [Item -> ItemRecord]
    BY <1>1, <1>2
  <2>2. unwritten' \in Seq(RunEvent)
    <3>1. <<>> \in Seq(RunEvent)
      OBVIOUS
    <3> QED BY <1>1, <3>1
  <2> QED BY <1>1, <2>1, <2>2 DEF RunTypes
<1>4. ItemsSound'
  BY <1>1, NewItemSound DEF ItemsSound, RunTypes
<1>5. SchedulerInv' /\ UnwrittenInv' /\ CompletesOnce'
  BY <1>1 DEF SchedulerInv, UnwrittenInv, CompletesOnce
<1>6. HistoryInv'
  BY <1>1 DEF HistoryInv
<1> QED BY <1>3, <1>4, <1>5, <1>6 DEF RInv

LEMMA RestoreRInv == ASSUME RInv, Restore PROVE RInv'
<1>1. /\ RunTypes /\ ItemsSound /\ SchedulerInv /\ UnwrittenInv /\ HistoryInv /\ CompletesOnce
      /\ mode = "down" /\ mode' = "replaying"
      /\ items' = IF checkpoint.taken THEN [i \in Item |-> FromCheckpoint(checkpoint.items[i])]
                  ELSE [i \in Item |-> NewItem]
      /\ replayed' = checkpoint.at
      /\ UNCHANGED <<flow, initialized, ready, journal, unwritten, checkpoint>>
  BY DEF RInv, Restore
<1>2. unwritten = <<>>
  BY <1>1 DEF UnwrittenInv
<1>3. \A i \in Item : Sound(flow[i], items'[i], {})
  BY <1>1, NewItemSound DEF ItemsSound, RunTypes
<1>4. RunTypes'
  <2>1. items' \in [Item -> ItemRecord]
    BY <1>1, <1>3 DEF Sound
  <2> QED BY <1>1, <2>1 DEF RunTypes
<1>5. ItemsSound'
  BY <1>1, <1>3 DEF ItemsSound
<1>6. SchedulerInv' /\ UnwrittenInv' /\ CompletesOnce'
  BY <1>1, <1>2 DEF SchedulerInv, UnwrittenInv, CompletesOnce
<1>7. History(journal, checkpoint.at, ResultsOf(items'))
  <2>1. CASE checkpoint.taken
    <3>1. ResultsOf(items') = ResultsOf(checkpoint.items)
      BY <1>1, <2>1 DEF ResultsOf, FromCheckpoint
    <3> QED BY <1>1, <3>1 DEF HistoryInv
  <2>2. CASE ~checkpoint.taken
    <3>1. checkpoint.at = 0
      BY <1>1, <2>2 DEF RunTypes
    <3>2. \A t \in Task : ResultsOf(items')[t[1]][t[2]] = NotRun
      BY <1>1, <2>2 DEF ResultsOf, NewItem, Task
    <3> QED BY <3>1, <3>2 DEF History
  <2> QED BY <2>1, <2>2
<1>8. HistoryInv'
  BY <1>1, <1>7 DEF HistoryInv
<1> QED BY <1>4, <1>5, <1>6, <1>8 DEF RInv

(* The completion that replay reads next is not in memory yet.             *)
LEMMA ReplayedIsNew ==
    ASSUME RInv, mode = "replaying", replayed < Len(journal),
           NEW event, event = journal[replayed + 1], event.type = "TaskCompleted"
    PROVE  event.step \notin Completed(items[event.item])
<1>1. RunTypes /\ CompletesOnce /\ History(journal, replayed, ResultsOf(items))
  BY DEF RInv, HistoryInv
<1>2. journal \in Seq(RunEvent) /\ replayed \in 0..Len(journal)
  BY <1>1 DEF RunTypes
<1>3. replayed + 1 \in 1..Len(journal) /\ event \in RunEvent
  BY <1>2
<1>4. event.item \in Item /\ event.step \in Step
  BY <1>3, EventTypes
<1> SUFFICES ASSUME items[event.item].results[event.step] # NotRun
             PROVE  FALSE
  BY DEF Completed, CompletedIn
<1>5. <<event.item, event.step>> \in Task
  BY <1>4 DEF Task
<1>6. PICK m \in 1..replayed : Completes(journal[m], <<event.item, event.step>>)
  BY <1>1, <1>4, <1>5 DEF History, ResultsOf
<1>7. m \in DOMAIN journal /\ replayed + 1 \in DOMAIN journal /\ m < replayed + 1
  BY <1>2
<1> QED BY <1>1, <1>6, <1>7 DEF CompletesOnce, Completes

LEMMA ReplayEventRInv == ASSUME RInv, ReplayEvent PROVE RInv'
<1>1. /\ RunTypes /\ ItemsSound /\ SchedulerInv /\ UnwrittenInv /\ HistoryInv /\ CompletesOnce
      /\ mode = "replaying" /\ replayed < Len(journal) /\ replayed' = replayed + 1
      /\ UNCHANGED <<flow, initialized, ready, mode, journal, unwritten, checkpoint>>
  BY DEF RInv, ReplayEvent
<1> PICK event : event = journal[replayed + 1]
  OBVIOUS
<1>2. /\ journal \in Seq(RunEvent) /\ items \in [Item -> ItemRecord]
      /\ replayed \in 0..Len(journal) /\ replayed \in Nat
  BY <1>1 DEF RunTypes
<1>3. replayed + 1 \in 1..Len(journal) /\ event \in RunEvent
  BY <1>1, <1>2
<1> PICK i \in Item : i = event.item
  BY <1>3, EventTypes
<1>4. flow[i] \in Flow /\ Sound(flow[i], items[i], {}) /\ items[i] \in ItemRecord
  BY <1>1, <1>2 DEF RunTypes, ItemsSound
<1>5. History(journal, replayed, ResultsOf(items))
  BY <1>1 DEF HistoryInv
(* The event changes the one item, in which it records what it says.       *)
<1>6. \E updated :
         /\ Sound(flow[i], updated, {})
         /\ items' = [items EXCEPT ![i] = updated]
         /\ event.type = "StepsNeeded" => updated.results = items[i].results
         /\ event.type = "TaskCompleted" =>
              updated.results = [items[i].results EXCEPT ![event.step] = event.result]
  <2>1. CASE event.type = "StepsNeeded"
    <3>1. event.steps \in SUBSET Step /\ ApplyStepsNeeded(event)
      BY <1>3, <2>1, EventTypes DEF ReplayEvent
    <3>2. items' = [items EXCEPT ![i] = AddOrUpdateNeeded(flow[i], items[i], event.steps)]
      BY <3>1 DEF ApplyStepsNeeded
    <3>3. Sound(flow[i], items[i], event.steps)
      BY <1>4 DEF Sound, Evaluated
    <3> QED BY <1>4, <2>1, <3>1, <3>2, <3>3, UpdateSound
  <2>2. CASE event.type = "TaskCompleted"
    <3>1. event.step \in Step /\ event.result \in FlowResult /\ ApplyTaskCompleted(event)
      BY <1>3, <2>2, EventTypes DEF ReplayEvent
    <3>2. items' = [items EXCEPT ![i] =
                      AddOrUpdateNeeded(flow[i], MarkCompleted(items[i], event.step, event.result),
                                        NewlyUnblocked(items[i], event.step))]
      BY <3>1 DEF ApplyTaskCompleted
    <3>3. event.step \notin Completed(items[i])
      BY <1>1, <2>2, ReplayedIsNew
    <3> DEFINE updated == AddOrUpdateNeeded(flow[i], MarkCompleted(items[i], event.step, event.result),
                                            NewlyUnblocked(items[i], event.step))
    <3>4. /\ Sound(flow[i], updated, {})
          /\ updated.results = [items[i].results EXCEPT ![event.step] = event.result]
      BY <1>4, <3>1, <3>3, CompleteSound
    <3> QED BY <2>2, <3>2, <3>4
  <2> QED BY <2>1, <2>2, <1>3, EventTypes
<1>7. PICK updated :
         /\ Sound(flow[i], updated, {})
         /\ items' = [items EXCEPT ![i] = updated]
         /\ event.type = "StepsNeeded" => updated.results = items[i].results
         /\ event.type = "TaskCompleted" =>
              updated.results = [items[i].results EXCEPT ![event.step] = event.result]
  BY <1>6
<1>8. updated \in ItemRecord /\ \A j \in Item : items'[j] = IF j = i THEN updated ELSE items[j]
  BY <1>2, <1>7 DEF Sound
<1>9. RunTypes'
  <2>1. items' \in [Item -> ItemRecord] /\ replayed' \in 0..Len(journal')
    BY <1>1, <1>2, <1>3, <1>7, <1>8
  <2> QED BY <1>1, <2>1 DEF RunTypes
<1>10. ItemsSound'
  BY <1>1, <1>7, <1>8 DEF ItemsSound
<1>11. unwritten = <<>> /\ ready = {}
  BY <1>1 DEF UnwrittenInv, SchedulerInv
<1>12. SchedulerInv' /\ UnwrittenInv' /\ CompletesOnce'
  BY <1>1, <1>11 DEF SchedulerInv, UnwrittenInv, CompletesOnce
<1>13. HistoryInv'
  <2>1. Records(journal, replayed, ResultsOf(items), ResultsOf(items'))
    <3> SUFFICES ASSUME NEW j \in Item, NEW d \in Step
                 PROVE  IF Completes(event, <<j, d>>)
                        THEN /\ items'[j].results[d] = event.result
                             /\ \A m \in 1..replayed : ~Completes(journal[m], <<j, d>>)
                        ELSE items'[j].results[d] = items[j].results[d]
      BY DEF Task, ResultsOf, Records
    <3>1. items[i].results \in Results
      BY <1>4 DEF ItemRecord
    <3>2. CASE Completes(event, <<j, d>>)
      <4>1. event.type = "TaskCompleted" /\ j = i /\ d = event.step
        BY <3>2 DEF Completes
      <4>2. items'[j].results[d] = event.result
        BY <1>7, <1>8, <3>1, <4>1 DEF Results
      <4>3. ASSUME NEW m \in 1..replayed, Completes(journal[m], <<j, d>>) PROVE FALSE
        <5>1. m \in DOMAIN journal /\ replayed + 1 \in DOMAIN journal /\ m < replayed + 1
          BY <1>1, <1>2
        <5> QED BY <1>1, <3>2, <4>3, <5>1 DEF CompletesOnce, Completes
      <4> QED BY <3>2, <4>2, <4>3
    <3>3. CASE ~Completes(event, <<j, d>>)
      <4>1. CASE j # i
        BY <1>8, <3>3, <4>1
      <4>2. CASE j = i /\ event.type = "StepsNeeded"
        BY <1>7, <1>8, <3>3, <4>2
      <4>3. CASE j = i /\ event.type = "TaskCompleted"
        <5>1. d # event.step
          BY <3>3, <4>3 DEF Completes
        <5> QED BY <1>7, <1>8, <3>1, <3>3, <4>3, <5>1 DEF Results
      <4> QED BY <4>1, <4>2, <4>3, <1>3, EventTypes
    <3> QED BY <3>2, <3>3
  <2>2. History(journal, replayed + 1, ResultsOf(items'))
    BY <1>2, <1>5, <2>1, HistoryStep
  <2> QED BY <1>1, <2>2 DEF HistoryInv
<1> QED BY <1>9, <1>10, <1>12, <1>13 DEF RInv

LEMMA FinishReplayRInv == ASSUME RInv, FinishReplay PROVE RInv'
<1>1. /\ RunTypes /\ ItemsSound /\ SchedulerInv /\ UnwrittenInv /\ HistoryInv /\ CompletesOnce
      /\ mode = "replaying" /\ replayed = Len(journal) /\ mode' = "up"
      /\ UNCHANGED <<itemsVars, journal, replayed, unwritten, checkpoint>>
  BY DEF RInv, FinishReplay
<1>2. unwritten = <<>>
  BY <1>1 DEF UnwrittenInv
<1>3. RunTypes' /\ ItemsSound' /\ SchedulerInv' /\ UnwrittenInv' /\ CompletesOnce'
  BY <1>1, <1>2 DEF RunTypes, ItemsSound, SchedulerInv, UnwrittenInv, CompletesOnce, itemsVars
<1>4. HistoryInv'
  <2>1. Settled = ResultsOf(items)
    BY <1>1, <1>2, NothingAppending
  <2>2. Settled' = Settled
    BY <1>1 DEF Settled, Appending, itemsVars
  <2>3. History(journal', Len(journal'), Settled')
    BY <1>1, <2>1, <2>2 DEF HistoryInv
  <2> QED BY <1>1, <2>3 DEF HistoryInv
<1> QED BY <1>3, <1>4 DEF RInv

LEMMA RInvNext == RInv /\ [RunNext]_vars => RInv'
<1> SUFFICES ASSUME RInv, [RunNext]_vars PROVE RInv'
  OBVIOUS
<1>1. CASE Start
  BY <1>1, StartRInv
<1>2. ASSUME NEW i \in Item, NEW s \in Step, NEW v \in FlowResult, CompleteAndJournal(i, s, v)
      PROVE  RInv'
  BY <1>2, CompleteAndJournalRInv
<1>3. CASE WriteJournal
  BY <1>3, WriteJournalRInv
<1>4. CASE TakeCheckpoint
  BY <1>4, TakeCheckpointRInv
<1>5. CASE Crash
  BY <1>5, CrashRInv
<1>6. CASE Restore
  BY <1>6, RestoreRInv
<1>7. CASE ReplayEvent
  BY <1>7, ReplayEventRInv
<1>8. CASE FinishReplay
  BY <1>8, FinishReplayRInv
<1>9. CASE UNCHANGED vars
  BY <1>9, ZenonT(60) DEF vars, itemsVars, recoveryVars, RInv, RunTypes, ItemsSound, SchedulerInv,
              UnwrittenInv, HistoryInv, CompletesOnce, Settled, Appending
<1> QED BY <1>1, <1>2, <1>3, <1>4, <1>5, <1>6, <1>7, <1>8, <1>9 DEF RunNext

-----------------------------------------------------------------------------
(* The inductive invariant holds across any crashes and checkpoints        *)
(* (execute_to_completion, restore_from_journal, restore_from_checkpoint,  *)
(* replay_events).                                                         *)
THEOREM RecoveryInvariant == RunSpec => []RInv
<1>1. RunInit => RInv
  BY RunInitRInv
<1>2. RInv /\ [RunNext]_vars => RInv'
  BY RInvNext
<1> QED BY <1>1, <1>2, PTL DEF RunSpec

(* A step in the scheduler has everything its input needs, also after a    *)
(* recovery (get_ready_tasks after from_checkpoint or replay_events).      *)
THEOREM ReadyAfterRecovery == RunSpec => []ReadyTasksHaveTheirInputs
<1>1. RInv => ReadyTasksHaveTheirInputs
  <2> SUFFICES ASSUME RInv, NEW t \in ready
               PROVE  /\ t[2] \in items[t[1]].needed \ Completed(items[t[1]])
                      /\ InputNeeds(flow[t[1]], t[2], items[t[1]].results) = {}
    BY DEF ReadyTasksHaveTheirInputs
  <2>1. t[1] \in Item /\ t[2] \in SchedulableSteps(items[t[1]])
    BY DEF RInv, SchedulerInv, SchedulableTasks, Task
  <2>2. Evaluated(flow[t[1]], items[t[1]], {})
    BY <2>1 DEF RInv, ItemsSound, Sound
  <2> QED BY <2>1, <2>2 DEF SchedulableSteps, Evaluated
<1> QED BY <1>1, RecoveryInvariant, PTL

(* No step that the journal records as completed is run again, whatever    *)
(* the number of restarts (complete_task appends TaskCompleted once).      *)
THEOREM CompletesOnceAcrossCrashes == RunSpec => []CompletesOnce
<1>1. RInv => CompletesOnce
  BY DEF RInv
<1> QED BY <1>1, RecoveryInvariant, PTL

(* What the executor holds in memory is what the journal says, less only   *)
(* what it is about to append.                                             *)
THEOREM ReplayRestoresMemory == RunSpec => []MemoryMatchesJournal
<1>1. RInv => MemoryMatchesJournal
  <2> SUFFICES ASSUME RInv, mode = "up", NEW t \in Task
               PROVE  {ResultOf(t)} \ {NotRun} =
                        ResultsIn(journal, Len(journal), t)
                          \union ResultsIn(unwritten, Len(unwritten), t)
    BY DEF MemoryMatchesJournal
  <2> PICK i \in Item, s \in Step : t = <<i, s>>
    BY DEF Task
  <2>1. History(journal, Len(journal), Settled) /\ ResultOf(t) = items[i].results[s]
    BY DEF RInv, HistoryInv, ResultOf
  <2>11. journal \in Seq(RunEvent) /\ Len(journal) \in 0..Len(journal)
    BY DEF RInv, RunTypes
  <2>2. ASSUME NEW m \in 1..Len(unwritten), Completes(unwritten[m], t)
        PROVE  unwritten[m].result = ResultOf(t) /\ ResultOf(t) # NotRun
    <3>1. unwritten[m] \in RunEvent
      BY DEF RInv, RunTypes
    <3>2. unwritten[m].type = "TaskCompleted" /\ unwritten[m].item = i /\ unwritten[m].step = s
      BY <2>2 DEF Completes
    <3>3. unwritten[m].result = items[i].results[s]
      BY <3>2 DEF RInv, UnwrittenInv
    <3> QED BY <2>1, <3>1, <3>2, <3>3, EventTypes
  <2>3. CASE Appending(t)
    <3>1. Settled[i][s] = NotRun
      BY <2>3 DEF Settled
    <3>2. \A m \in 1..Len(journal) : ~Completes(journal[m], t)
      BY <2>1, <2>11, <3>1, UnrecordedTask
    <3>3. ResultsIn(journal, Len(journal), t) = {}
      BY <3>2 DEF ResultsIn
    <3>4. ResultsIn(unwritten, Len(unwritten), t) = {ResultOf(t)} /\ ResultOf(t) # NotRun
      BY <2>2, <2>3 DEF Appending, ResultsIn
    <3> QED BY <3>3, <3>4
  <2>4. CASE ~Appending(t)
    <3>1. Settled[i][s] = ResultOf(t)
      BY <2>1, <2>4 DEF Settled
    <3>2. ResultsIn(unwritten, Len(unwritten), t) = {}
      BY <2>4 DEF Appending, ResultsIn
    <3>3. \A m \in 1..Len(journal) : Completes(journal[m], t) => journal[m].result = ResultOf(t)
      BY <2>1, <3>1 DEF History
    <3>4. ResultOf(t) # NotRun => \E m \in 1..Len(journal) : Completes(journal[m], t)
      BY <2>1, <3>1 DEF History
    <3>5. ResultOf(t) = NotRun => \A m \in 1..Len(journal) : ~Completes(journal[m], t)
      BY <2>1, <2>11, <3>1, UnrecordedTask
    <3>6. ResultsIn(journal, Len(journal), t) = {ResultOf(t)} \ {NotRun}
      BY <3>3, <3>4, <3>5 DEF ResultsIn
    <3> QED BY <3>2, <3>6
  <2> QED BY <2>3, <2>4
<1> QED BY <1>1, RecoveryInvariant, PTL

-----------------------------------------------------------------------------
(* What the journal records is the results of which it is the history.     *)
LEMMA RecordedIsHistory ==
    ASSUME journal \in Seq(RunEvent), NEW results \in [Item -> Results],
           History(journal, Len(journal), results)
    PROVE  Recorded = results
<1>1. ASSUME NEW i \in Item, NEW s \in Step PROVE JournalledResult(<<i, s>>) = results[i][s]
  <2> DEFINE t == <<i, s>>
  <2>1. t \in Task /\ results[i][s] \in FlowResult \union {NotRun} /\ DOMAIN journal = 1..Len(journal)
    BY DEF Task, Results
  <2>2. \A m \in DOMAIN journal : Completes(journal[m], t) => journal[m].result = results[i][s]
    BY <2>1 DEF History
  <2>3. CASE \E m \in DOMAIN journal : Completes(journal[m], t)
    <3>1. results[i][s] # NotRun
      BY <2>1, <2>3, UnrecordedTask
    <3>2. \E v \in FlowResult : \E m \in DOMAIN journal :
              Completes(journal[m], t) /\ journal[m].result = v
      BY <2>1, <2>2, <2>3, <3>1
    <3>3. JournalledResult(t) \in FlowResult /\ \E m \in DOMAIN journal :
              Completes(journal[m], t) /\ journal[m].result = JournalledResult(t)
      BY <2>3, <3>2 DEF JournalledResult
    <3> QED BY <2>2, <3>3
  <2>4. CASE ~\E m \in DOMAIN journal : Completes(journal[m], t)
    BY <2>1, <2>4 DEF History, JournalledResult
  <2> QED BY <2>3, <2>4
<1>2. results = [i \in Item |-> [s \in Step |-> results[i][s]]]
  BY DEF Results
<1> QED BY <1>1, <1>2 DEF Recorded

LEMMA SettledType == RInv => Settled \in [Item -> Results]
BY DEF RInv, RunTypes, Settled, Results, ItemRecord

LEMMA RecordedIsSettled == ASSUME RInv, mode = "up" PROVE Recorded = Settled
BY SettledType, RecordedIsHistory DEF RInv, RunTypes, HistoryInv

(* A run across crashes is one that is not interrupted: its initial states *)
(* are initial states, the append of TaskCompleted records a result, and   *)
(* everything else, crashes, replays and checkpoints, records nothing.     *)
LEMMA InitRefines == RunInit => Uninterrupted!RunInit
<1> SUFFICES ASSUME RunInit PROVE Uninterrupted!RunInit
  OBVIOUS
<1>1. journal = <<>> /\ flow \in [Item -> Flow]
  BY DEF RunInit, Init
<1>2. \A t : JournalledResult(t) = NotRun
  BY <1>1 DEF JournalledResult
<1>3. Recorded = [i \in Item |-> NewItem.results]
  BY <1>2 DEF Recorded, NewItem
<1> QED BY <1>1, <1>3 DEF Uninterrupted!RunInit, Uninterrupted!NewItem, Uninterrupted!Step,
                          NewItem, Step

LEMMA StepRefines ==
    RInv /\ RInv' /\ [RunNext]_vars => [Uninterrupted!RunNext]_<<flow, Recorded>>
<1> SUFFICES ASSUME RInv, RInv', [RunNext]_vars
             PROVE  [Uninterrupted!RunNext]_<<flow, Recorded>>
  OBVIOUS
<1>1. flow' = flow
  BY DEF RunNext, vars, itemsVars, recoveryVars, Start, InitializeAll, CompleteAndJournal,
         CompleteTask, CompleteTaskAndGetReady, WriteJournal, TakeCheckpoint, Crash, Restore,
         ReplayEvent, FinishReplay
<1>2. CASE journal' = journal
  BY <1>1, <1>2 DEF Recorded, JournalledResult
<1>3. CASE WriteJournal
  <2>1. mode = "up" /\ mode' = "up" /\ items' = items
    BY <1>3 DEF WriteJournal, RInv, UnwrittenInv, itemsVars
  <2>2. Recorded = Settled
    BY <2>1, RecordedIsSettled
  <2>3. Recorded' = Settled'
    <3>1. (RInv /\ mode = "up" => Recorded = Settled)'
      BY RecordedIsSettled, PTL
    <3> QED BY <2>1, <3>1
  <2>4. CASE \A m \in 1..Len(unwritten) : unwritten[m].type # "TaskCompleted"
    <3>1. \A t : ~Appending(t)
      BY <2>4 DEF Appending, Completes
    <3>2. \A t : ~Appending(t)'
      <4>1. unwritten \in Seq(RunEvent) /\ unwritten # <<>> /\ unwritten' = Tail(unwritten)
        BY <1>3 DEF WriteJournal, RInv, RunTypes
      <4>2. \A m \in 1..Len(unwritten') : unwritten'[m].type # "TaskCompleted"
        BY <2>4, <4>1
      <4> QED BY <4>2 DEF Appending, Completes
    <3>3. Settled' = Settled
      BY <2>1, <3>1, <3>2 DEF Settled
    <3> QED BY <1>1, <2>2, <2>3, <3>3
  <2>5. CASE \E m \in 1..Len(unwritten) : unwritten[m].type = "TaskCompleted"
    <3>1. PICK m \in 1..Len(unwritten) : unwritten[m].type = "TaskCompleted"
      BY <2>5
    <3> PICK i, s, v : i = unwritten[m].item /\ s = unwritten[m].step /\ v = unwritten[m].result
      OBVIOUS
    <3>2. unwritten \in Seq(RunEvent) /\ items \in [Item -> ItemRecord]
      BY DEF RInv, RunTypes
    <3>3. i \in Item /\ s \in Step /\ v \in FlowResult /\ v # NotRun
      <4>1. unwritten[m] \in RunEvent
        BY <3>1, <3>2
      <4> QED BY <3>1, <4>1, EventTypes
    <3>4. /\ Len(unwritten) = 1
          /\ items[i].results[s] = v
          /\ InputNeeds(flow[i], s, [items[i].results EXCEPT ![s] = NotRun]) = {}
      BY <3>1 DEF RInv, UnwrittenInv
    <3>5. m = 1 /\ unwritten' = <<>>
      BY <1>3, <3>2, <3>4 DEF WriteJournal
    <3>6. \A t : Appending(t) <=> t = <<i, s>>
      BY <3>1, <3>4, <3>5 DEF Appending, Completes
    <3>7. \A t : ~Appending(t)'
      BY <3>5 DEF Appending
    <3>8. /\ Settled \in [Item -> Results] /\ Settled' \in [Item -> Results]
          /\ items[i].results \in Results
      <4>1. (RInv => Settled \in [Item -> Results])'
        BY SettledType, PTL
      <4> QED BY <4>1, <3>2, <3>3, SettledType DEF ItemRecord
    <3>9. /\ Settled[i] = [items[i].results EXCEPT ![s] = NotRun]
          /\ Settled[i][s] = NotRun
      BY <3>3, <3>6, <3>8 DEF Settled, Results
    <3>10. Settled' = [Settled EXCEPT ![i][s] = v]
      <4>1. \A j \in Item, d \in Step : Settled'[j][d] = items[j].results[d]
        BY <2>1, <3>7 DEF Settled
      <4>2. \A j \in Item, d \in Step :
               Settled[j][d] = IF j = i /\ d = s THEN NotRun ELSE items[j].results[d]
        BY <3>6 DEF Settled
      <4>3. \A j \in Item, d \in Step :
               Settled'[j][d] = [Settled EXCEPT ![i][s] = v][j][d]
        BY <3>3, <3>4, <3>8, <4>1, <4>2 DEF Results
      <4>4. [Settled EXCEPT ![i][s] = v] \in [Item -> Results]
        BY <3>3, <3>8 DEF Results
      <4> PICK one, other : one = Settled' /\ other = [Settled EXCEPT ![i][s] = v]
        OBVIOUS
      <4>5. one \in [Item -> Results] /\ other \in [Item -> Results]
        BY <3>8, <4>4
      <4>6. \A j \in Item, d \in Step : one[j][d] = other[j][d]
        BY <4>3
      <4>7. one = other
        <5>1. \A j \in Item : one[j] = other[j]
          BY <4>5, <4>6 DEF Results
        <5> QED BY <4>5, <5>1
      <4> QED BY <4>7
    <3>11. Uninterrupted!Record(i, s, v)
      BY <1>1, <2>2, <2>3, <3>4, <3>9, <3>10 DEF Uninterrupted!Record
    <3> QED BY <3>3, <3>11 DEF Uninterrupted!RunNext, Uninterrupted!Step, Step
  <2> QED BY <2>4, <2>5
<1> QED
  BY <1>2, <1>3 DEF RunNext, vars, recoveryVars, Start, CompleteAndJournal, TakeCheckpoint, Crash,
                    Restore, ReplayEvent, FinishReplay

(* Crashes, replays and checkpoints are invisible in what a run records:   *)
(* the executor, write_journal, restore_from_checkpoint and replay_events  *)
(* together implement a run whose results are recorded one by one, each    *)
(* once, with its inputs recorded before, and never lost.                  *)
THEOREM RunRefinesUninterruptedRun == RunSpec => ImplementsUninterruptedRun
<1>1. RInv /\ [RunNext]_vars => RInv'
  BY RInvNext
<1> QED BY <1>1, RunInitRInv, InitRefines, StepRefines, PTL
        DEF RunSpec, ImplementsUninterruptedRun, Uninterrupted!RunSpec

-----------------------------------------------------------------------------
(* When inputs hold no conditional, every needed step waits on exactly     *)
(* what its input needs now: the evaluations that were skipped would have  *)
(* found nothing else.                                                     *)
Waits(f, item) ==
    \A w \in Step : item.waiting_on[w] =
        IF w \in item.needed THEN InputNeeds(f, w, item.results) ELSE {}

WaitsInv ==
    \A i \in Item : flow[i] \in UnconditionalInputs =>
        Waits(flow[i], items[i]) /\ Waits(flow[i], FromCheckpoint(checkpoint.items[i]))

LEMMA NewItemWaits == \A f \in Flow : Waits(f, NewItem)
BY DEF Waits, NewItem

LEMMA UpdateWaits ==
    ASSUME NEW f \in Flow, NEW item \in ItemRecord, NEW S \in SUBSET Step, Waits(f, item)
    PROVE  Waits(f, AddOrUpdateNeeded(f, item, S))
<1> DEFINE new == AddOrUpdateNeeded(f, item, S)
           visited == Visited(f, item, S)
<1>1. /\ new.needed = item.needed \union visited
      /\ new.results = item.results
      /\ new.waiting_on = [s \in Step |-> IF s \in visited THEN InputNeeds(f, s, item.results)
                                          ELSE item.waiting_on[s]]
  BY DEF AddOrUpdateNeeded, ItemRecord
<1> QED BY <1>1 DEF Waits

(* A completion takes the step from what the inputs need and from what the *)
(* steps wait on alike.                                                    *)
LEMMA MarkWaits ==
    ASSUME NEW f \in UnconditionalInputs, NEW item \in ItemRecord, Mirror(item), Waits(f, item),
           NEW s \in Step, NEW result \in FlowResult
    PROVE  LET marked == MarkCompleted(item, s, result)
           IN  /\ Waits(f, marked)
               /\ marked.needed = item.needed
               /\ s \notin Completed(item) =>
                    /\ Completed(marked) = Completed(item) \union {s}
                    /\ \A w \in Step : marked.waiting_on[w] = item.waiting_on[w] \ {s}
<1> DEFINE marked == MarkCompleted(item, s, result)
<1>1. CASE s \in Completed(item)
  BY <1>1 DEF MarkCompleted
<1>2. CASE s \notin Completed(item)
  <2>1. /\ marked.needed = item.needed
        /\ marked.results = [item.results EXCEPT ![s] = result]
        /\ marked.waiting_on = [w \in Step |->
              IF w \in item.waiters[s] THEN item.waiting_on[w] \ {s} ELSE item.waiting_on[w]]
    BY <1>2 DEF MarkCompleted, ItemRecord
  <2>2. item.results \in Results /\ marked.results \in Results
    BY <2>1 DEF ItemRecord, Results
  <2>3. CompletedIn(marked.results) = CompletedIn(item.results) \union {s}
    BY <2>1, <2>2, NotRunAssumption DEF CompletedIn, Results
  <2>4. \A w \in Step : marked.waiting_on[w] = item.waiting_on[w] \ {s}
    BY <2>1 DEF Mirror, ItemRecord
  <2>5. \A w \in Step : InputNeeds(f, w, marked.results) = InputNeeds(f, w, item.results) \ {s}
    <3> TAKE w \in Step
    <3>1. InputNeeds(f, w, item.results) = InputNeeds(f, w, NothingRun) \ CompletedIn(item.results)
      BY <2>2, UnconditionalInputsAssumption
    <3>2. InputNeeds(f, w, marked.results)
            = InputNeeds(f, w, NothingRun) \ CompletedIn(marked.results)
      BY <2>2, UnconditionalInputsAssumption
    <3> QED BY <2>3, <3>1, <3>2
  <2> HIDE DEF marked
  <2>6. Waits(f, marked)
    <3> SUFFICES ASSUME NEW w \in Step
                 PROVE  marked.waiting_on[w] =
                          IF w \in marked.needed THEN InputNeeds(f, w, marked.results) ELSE {}
      BY DEF Waits
    <3>1. item.waiting_on[w] = IF w \in item.needed THEN InputNeeds(f, w, item.results) ELSE {}
      BY DEF Waits
    <3>2. CASE w \in item.needed
      BY <2>1, <2>4, <2>5, <3>1, <3>2
    <3>3. CASE w \notin item.needed
      BY <2>1, <2>4, <3>1, <3>3
    <3> QED BY <3>2, <3>3
  <2> QED BY <1>2, <2>1, <2>3, <2>4, <2>6 DEF Completed, marked
<1> QED BY <1>1, <1>2

(* complete_task_and_get_ready, at work and in a replay.                   *)
LEMMA CompleteWaits ==
    ASSUME NEW f \in UnconditionalInputs, NEW item, Sound(f, item, {}), Waits(f, item),
           NEW s \in Step, NEW result \in FlowResult
    PROVE  Waits(f, AddOrUpdateNeeded(f, MarkCompleted(item, s, result), NewlyUnblocked(item, s)))
<1>1. f \in Flow /\ item \in ItemRecord /\ Mirror(item)
  BY UnconditionalInputsAssumption DEF Sound
<1>2. /\ NewlyUnblocked(item, s) \in SUBSET Step
      /\ MarkCompleted(item, s, result) \in ItemRecord
  BY <1>1, MarkSound DEF Sound
<1>3. Waits(f, MarkCompleted(item, s, result))
  BY <1>1, MarkWaits
<1> QED BY <1>1, <1>2, <1>3, UpdateWaits

(* Without conditionals the steps that a completion unblocks need nothing: *)
(* their evaluation visits only them, and they were needed before.         *)
LEMMA CompleteFindsNothingNew ==
    ASSUME NEW f \in UnconditionalInputs, NEW item, Sound(f, item, {}), Waits(f, item),
           NEW s \in Step, s \notin Completed(item), NEW result \in FlowResult
    PROVE  LET updated == AddOrUpdateNeeded(f, MarkCompleted(item, s, result),
                                            NewlyUnblocked(item, s))
           IN  /\ updated.needed = item.needed
               /\ Completed(updated) = Completed(item) \union {s}
               /\ NewlyUnblocked(item, s) =
                    {w \in Step : s \in item.waiting_on[w] /\ item.waiting_on[w] \subseteq {s}}
<1> DEFINE marked == MarkCompleted(item, s, result)
           unblocked == NewlyUnblocked(item, s)
           updated == AddOrUpdateNeeded(f, marked, unblocked)
<1>1. f \in Flow /\ item \in ItemRecord /\ Mirror(item)
  BY UnconditionalInputsAssumption DEF Sound
<1>2. unblocked \in SUBSET Step /\ marked \in ItemRecord
  BY <1>1, MarkSound DEF Sound
<1>3. /\ Waits(f, marked)
      /\ marked.needed = item.needed
      /\ Completed(marked) = Completed(item) \union {s}
      /\ \A w \in Step : marked.waiting_on[w] = item.waiting_on[w] \ {s}
  BY <1>1, MarkWaits
<1>4. unblocked = {w \in Step : s \in item.waiting_on[w] /\ item.waiting_on[w] \subseteq {s}}
  BY <1>1 DEF NewlyUnblocked, Unblocked, Mirror, ItemRecord
<1> HIDE DEF marked, unblocked
<1>5. unblocked \subseteq item.needed
  BY <1>4 DEF Waits
<1>6. \A w \in unblocked : InputNeeds(f, w, marked.results) = {}
  BY <1>2, <1>3, <1>4, <1>5 DEF Waits
<1>7. Visited(f, marked, unblocked) \subseteq unblocked
  <2>1. ClosedUnderNewDeps(f, marked, unblocked)
    BY <1>6 DEF ClosedUnderNewDeps
  <2> QED BY <1>1, <1>2, <2>1, VisitedIsLeast
<1>8. /\ updated.needed = marked.needed \union Visited(f, marked, unblocked)
      /\ updated.results = marked.results
  BY <1>2 DEF AddOrUpdateNeeded, ItemRecord
<1> HIDE DEF updated
<1>9. updated.needed = item.needed /\ Completed(updated) = Completed(item) \union {s}
  BY <1>3, <1>5, <1>7, <1>8 DEF Completed
<1> QED BY <1>4, <1>9 DEF updated, marked, unblocked

LEMMA WaitsInit == RunInit => WaitsInv
<1> SUFFICES ASSUME RunInit, NEW i \in Item
             PROVE  Waits(flow[i], items[i]) /\ Waits(flow[i], FromCheckpoint(checkpoint.items[i]))
  BY DEF WaitsInv
<1>1. flow[i] \in Flow /\ items[i] = NewItem /\ checkpoint.items[i] = ToCheckpoint(NewItem)
  BY DEF RunInit, Init, NoCheckpoint
<1>2. FromCheckpoint(ToCheckpoint(NewItem)) = NewItem
  BY <1>1, NewItemSound, CheckpointIsFaithful DEF Sound
<1> QED BY <1>1, <1>2, NewItemWaits

LEMMA WaitsNext == ASSUME RInv, WaitsInv, [RunNext]_vars PROVE WaitsInv'
<1>1. RunTypes /\ ItemsSound
  BY DEF RInv
<1>2. flow' = flow
  BY DEF RunNext, vars, itemsVars, recoveryVars, Start, InitializeAll, CompleteAndJournal,
         CompleteTask, CompleteTaskAndGetReady, WriteJournal, TakeCheckpoint, Crash, Restore,
         ReplayEvent, FinishReplay
<1> SUFFICES ASSUME NEW i \in Item, flow[i] \in UnconditionalInputs
             PROVE  /\ Waits(flow[i], items'[i])
                    /\ Waits(flow[i], FromCheckpoint(checkpoint'.items[i]))
  BY <1>2 DEF WaitsInv
<1>3. /\ flow[i] \in Flow /\ items[i] \in ItemRecord /\ items \in [Item -> ItemRecord]
      /\ Sound(flow[i], items[i], {})
      /\ Waits(flow[i], items[i]) /\ Waits(flow[i], FromCheckpoint(checkpoint.items[i]))
  BY <1>1 DEF RunTypes, ItemsSound, WaitsInv
<1>4. CASE Start
  <2>1. InitialSteps(flow[i], items[i]) \in SUBSET Step
    BY <1>3, OutputNeedsAssumption, MustExecuteAssumption DEF InitialSteps, ItemRecord
  <2>2. items'[i] = AddOrUpdateNeeded(flow[i], items[i], InitialSteps(flow[i], items[i]))
    BY <1>4 DEF Start, InitializeAll, InitializedItem
  <2>3. Waits(flow[i], items'[i])
    BY <1>3, <2>1, <2>2, UpdateWaits
  <2> QED BY <1>3, <1>4, <2>3 DEF Start
<1>5. ASSUME NEW j \in Item, NEW s \in Step, NEW v \in FlowResult, CompleteAndJournal(j, s, v)
      PROVE  /\ Waits(flow[i], items'[i])
             /\ Waits(flow[i], FromCheckpoint(checkpoint'.items[i]))
  <2>1. /\ items' = [items EXCEPT ![j] = AddOrUpdateNeeded(flow[j], MarkCompleted(items[j], s, v),
                                                           NewlyUnblocked(items[j], s))]
        /\ checkpoint' = checkpoint
    BY <1>5 DEF CompleteAndJournal, CompleteTask, CompleteTaskAndGetReady
  <2>2. Waits(flow[i], AddOrUpdateNeeded(flow[i], MarkCompleted(items[i], s, v),
                                         NewlyUnblocked(items[i], s)))
    BY <1>3, CompleteWaits
  <2> QED BY <1>3, <2>1, <2>2
<1>6. CASE WriteJournal
  BY <1>3, <1>6 DEF WriteJournal, itemsVars
<1>7. CASE TakeCheckpoint
  <2>1. items' = items /\ checkpoint'.items[i] = ToCheckpoint(items[i])
    BY <1>7 DEF TakeCheckpoint, itemsVars
  <2>2. FromCheckpoint(ToCheckpoint(items[i])) = items[i]
    BY <1>3, CheckpointIsFaithful DEF Sound
  <2> QED BY <1>3, <2>1, <2>2
<1>8. CASE Crash
  <2>1. items'[i] = NewItem /\ checkpoint' = checkpoint
    BY <1>8 DEF Crash
  <2> QED BY <1>3, <2>1, NewItemWaits
<1>9. CASE Restore
  <2>1. items'[i] \in {FromCheckpoint(checkpoint.items[i]), NewItem} /\ checkpoint' = checkpoint
    BY <1>9 DEF Restore
  <2> QED BY <1>3, <2>1, NewItemWaits
<1>10. CASE ReplayEvent
  <2> PICK event : event = journal[replayed + 1]
    OBVIOUS
  <2>1. replayed + 1 \in 1..Len(journal) /\ event \in RunEvent /\ checkpoint' = checkpoint
    BY <1>1, <1>10 DEF RunTypes, ReplayEvent
  <2>2. CASE event.type = "StepsNeeded"
    <3>1. event.steps \in SUBSET Step /\ ApplyStepsNeeded(event)
      BY <1>10, <2>1, <2>2, EventTypes DEF ReplayEvent
    <3>2. items' = [items EXCEPT ![event.item] =
                      AddOrUpdateNeeded(flow[event.item], items[event.item], event.steps)]
      BY <3>1 DEF ApplyStepsNeeded
    <3>3. Waits(flow[i], AddOrUpdateNeeded(flow[i], items[i], event.steps))
      BY <1>3, <3>1, UpdateWaits
    <3> QED BY <1>3, <2>1, <3>2, <3>3
  <2>3. CASE event.type = "TaskCompleted"
    <3>1. event.step \in Step /\ event.result \in FlowResult /\ ApplyTaskCompleted(event)
      BY <1>10, <2>1, <2>3, EventTypes DEF ReplayEvent
    <3>2. items' = [items EXCEPT ![event.item] =
             AddOrUpdateNeeded(flow[event.item],
                               MarkCompleted(items[event.item], event.step, event.result),
                               NewlyUnblocked(items[event.item], event.step))]
      BY <3>1 DEF ApplyTaskCompleted
    <3>3. Waits(flow[i], AddOrUpdateNeeded(flow[i],
                                           MarkCompleted(items[i], event.step, event.result),
                                           NewlyUnblocked(items[i], event.step)))
      BY <1>3, <3>1, CompleteWaits
    <3> QED BY <1>3, <2>1, <3>2, <3>3
  <2> QED BY <2>1, <2>2, <2>3, EventTypes
<1>11. CASE FinishReplay
  BY <1>3, <1>11 DEF FinishReplay, itemsVars
<1>12. CASE UNCHANGED vars
  BY <1>3, <1>12 DEF vars, itemsVars, recoveryVars
<1> QED BY <1>4, <1>5, <1>6, <1>7, <1>8, <1>9, <1>10, <1>11, <1>12 DEF RunNext

(* A completion makes ready every step for which it was the last           *)
(* dependency, so nothing that can run stays behind.                       *)
LEMMA CompletionLosesNothing ==
    ASSUME RInv, WaitsInv, RecoveryLosesNothing, NEW i \in Item, NEW s \in Step,
           NEW v \in FlowResult, CompleteAndJournal(i, s, v), RInv', WaitsInv'
    PROVE  RecoveryLosesNothing'
<1> DEFINE unblocked == NewlyUnblocked(items[i], s)
           updated == AddOrUpdateNeeded(flow[i], MarkCompleted(items[i], s, v), unblocked)
<1>1. /\ items' = [items EXCEPT ![i] = updated]
      /\ ready' = (ready \ {<<i, s>>}) \union ({i} \X (unblocked \intersect SchedulableSteps(updated)))
      /\ <<i, s>> \in ready /\ flow' = flow /\ initialized' = initialized
  BY DEF CompleteAndJournal, CompleteTask, CompleteTaskAndGetReady
<1>2. RunTypes /\ ItemsSound /\ SchedulerInv
  BY DEF RInv
<1>3. initialized /\ s \in SchedulableSteps(items[i]) /\ items \in [Item -> ItemRecord]
  BY <1>1, <1>2 DEF SchedulerInv, SchedulableTasks, RunTypes
<1> SUFFICES ASSUME NEW j \in Item, flow[j] \in UnconditionalInputs,
                    NEW w \in items'[j].needed \ Completed(items'[j]),
                    InputNeeds(flow[j], w, items'[j].results) = {}
             PROVE  <<j, w>> \in ready'
  BY <1>1 DEF RecoveryLosesNothing
<1>4. CASE j # i
  BY <1>1, <1>3, <1>4 DEF RecoveryLosesNothing
<1>5. CASE j = i
  <2>1. /\ Sound(flow[i], items[i], {}) /\ Waits(flow[i], items[i]) /\ items[i] \in ItemRecord
        /\ flow[i] \in UnconditionalInputs /\ s \notin Completed(items[i])
    BY <1>2, <1>3, <1>5 DEF ItemsSound, WaitsInv, SchedulableSteps, RunTypes
  <2>2. /\ updated.needed = items[i].needed
        /\ Completed(updated) = Completed(items[i]) \union {s}
        /\ unblocked = {d \in Step : s \in items[i].waiting_on[d] /\ items[i].waiting_on[d] \subseteq {s}}
    BY <2>1, CompleteFindsNothingNew
  <2>3. items'[i] = updated /\ Waits(flow[i], updated)
    BY <1>1, <1>3, <2>1 DEF WaitsInv
  <2> HIDE DEF updated, unblocked
  <2>4. w \in items[i].needed /\ w \notin Completed(items[i]) /\ w # s /\ w \in Step
    BY <1>5, <2>1, <2>2, <2>3 DEF ItemRecord
  <2>5. w \in SchedulableSteps(updated)
    BY <1>5, <2>3, <2>4 DEF Waits, SchedulableSteps
  <2>6. CASE w \in unblocked
    BY <1>1, <1>5, <2>5, <2>6
  <2>7. CASE w \notin unblocked
    <3>1. items[i].waiting_on[w] \subseteq {s}
      <4>1. MarkCompleted(items[i], s, v).waiting_on[w] = items[i].waiting_on[w] \ {s}
        BY <2>1, <2>4, MarkWaits DEF Sound
      <4>2. InputNeeds(flow[i], w, items[i].results) \ {s} = InputNeeds(flow[i], w, updated.results)
        <5>1. items[i].results \in Results /\ updated.results \in Results
          BY <2>1, <2>3 DEF RInv, RunTypes, ItemRecord
        <5>2. /\ InputNeeds(flow[i], w, items[i].results)
                   = InputNeeds(flow[i], w, NothingRun) \ CompletedIn(items[i].results)
              /\ InputNeeds(flow[i], w, updated.results)
                   = InputNeeds(flow[i], w, NothingRun) \ CompletedIn(updated.results)
          BY <2>1, <2>4, <5>1, UnconditionalInputsAssumption
        <5> QED BY <2>2, <5>2 DEF Completed
      <4> QED BY <1>5, <2>1, <2>3, <2>4, <4>2 DEF Waits
    <3>2. items[i].waiting_on[w] = {}
      BY <2>2, <2>4, <2>7, <3>1
    <3>3. InputNeeds(flow[i], w, items[i].results) = {}
      BY <2>1, <2>4, <3>2 DEF Waits
    <3>4. <<i, w>> \in ready
      BY <1>3, <2>1, <2>4, <3>3 DEF RecoveryLosesNothing
    <3> QED BY <1>1, <1>5, <2>4, <3>4
  <2> QED BY <2>6, <2>7
<1> QED BY <1>4, <1>5

LEMMA LosesNothingNext ==
    ASSUME RInv, RInv', WaitsInv, WaitsInv', RecoveryLosesNothing, [RunNext]_vars
    PROVE  RecoveryLosesNothing'
<1>1. CASE Start
  <2> SUFFICES ASSUME NEW i \in Item, flow'[i] \in UnconditionalInputs,
                      NEW s \in items'[i].needed \ Completed(items'[i]),
                      InputNeeds(flow'[i], s, items'[i].results) = {}
               PROVE  <<i, s>> \in ready'
    BY DEF RecoveryLosesNothing
  <2>1. items'[i] \in ItemRecord /\ Waits(flow'[i], items'[i])
    BY DEF RInv, RunTypes, WaitsInv
  <2>2. s \in SchedulableSteps(items'[i]) /\ s \in Step
    BY <2>1 DEF Waits, SchedulableSteps, ItemRecord
  <2>3. ready' = SchedulableTasks(items')
    BY <1>1 DEF Start, InitializeAll
  <2> QED BY <2>2, <2>3 DEF SchedulableTasks, Task
<1>2. ASSUME NEW i \in Item, NEW s \in Step, NEW v \in FlowResult, CompleteAndJournal(i, s, v)
      PROVE  RecoveryLosesNothing'
  BY <1>2, CompletionLosesNothing
<1>3. CASE UNCHANGED itemsVars
  BY <1>3 DEF itemsVars, RecoveryLosesNothing
<1>4. CASE mode # "up" /\ initialized' = initialized
  BY <1>4 DEF RInv, SchedulerInv, RecoveryLosesNothing
<1>5. CASE Crash
  BY <1>5 DEF Crash, RecoveryLosesNothing
<1>6. WriteJournal \/ TakeCheckpoint \/ FinishReplay \/ UNCHANGED vars => UNCHANGED itemsVars
  BY DEF WriteJournal, TakeCheckpoint, FinishReplay, vars
<1>7. Restore \/ ReplayEvent => mode # "up" /\ initialized' = initialized
  BY DEF Restore, ReplayEvent
<1> QED BY <1>1, <1>2, <1>3, <1>4, <1>5, <1>6, <1>7 DEF RunNext

(* After any crashes, replays and checkpoints, every needed step of a flow *)
(* without conditionals whose input needs nothing more is with the         *)
(* scheduler (get_ready_tasks, complete_task_and_get_ready).               *)
THEOREM NoStepIsLost == RunSpec => []RecoveryLosesNothing
<1>1. RunInit => RInv /\ WaitsInv /\ RecoveryLosesNothing
  <2>1. RunInit => RecoveryLosesNothing
    BY DEF RunInit, Init, RecoveryLosesNothing
  <2> QED BY <2>1, RunInitRInv, WaitsInit
<1>2. RInv /\ WaitsInv /\ RecoveryLosesNothing /\ [RunNext]_vars
        => (RInv /\ WaitsInv /\ RecoveryLosesNothing)'
  BY RInvNext, WaitsNext, LosesNothingNext
<1> QED BY <1>1, <1>2, PTL DEF RunSpec

-----------------------------------------------------------------------------
(* What is needed is found once and for all.  A StepsNeeded event of an    *)
(* item names all the steps that it needs; memory knows all of them or, in *)
(* an item without results, none; and the journal knows them before it     *)
(* records a completion.                                                   *)
NamesSteps(event, i) == event.type = "StepsNeeded" /\ event.item = i
Announced(log, i, n) == \E k \in 1..n : NamesSteps(log[k], i)
Kept(item, all) ==
    /\ item.needed \in {{}, all}
    /\ item.needed = {} => Completed(item) = {}

NamesAll(log, i, all) ==
    \A k \in 1..Len(log) : NamesSteps(log[k], i) => log[k].steps = all /\ all # {}

MemoryKnows(i, all) ==
    /\ Kept(items[i], all)
    /\ initialized => items[i].needed = all
    /\ mode = "replaying" /\ (checkpoint.taken \/ Announced(journal, i, replayed))
         => items[i].needed = all
    /\ checkpoint.taken => Kept(checkpoint.items[i], all) /\ checkpoint.items[i].needed = all

JournalKnows(i, all) ==
    /\ all # {} =>
         /\ initialized => \/ Announced(journal, i, Len(journal))
                           \/ Announced(unwritten, i, Len(unwritten))
         /\ checkpoint.taken => Announced(journal, i, Len(journal))
         /\ mode = "up" /\ ~initialized /\ ~writes_steps_needed
              => Announced(journal, i, Len(journal))
    /\ \A m \in 1..Len(journal) :
         journal[m].type = "TaskCompleted" /\ journal[m].item = i => Announced(journal, i, m - 1)

Knows(i, all) ==
    /\ NamesAll(journal, i, all)
    /\ NamesAll(unwritten, i, all)
    /\ MemoryKnows(i, all)
    /\ JournalKnows(i, all)

Unconditional == UnconditionalInputs \intersect UnconditionalOutput

NeededInv ==
    /\ \A i \in Item : flow[i] \in Unconditional => Knows(i, AllNeeded(flow[i]))
    /\ is_root => writes_steps_needed

(* The events of write_steps_needed_events are those of the items that     *)
(* need a step, each with all its steps.                                   *)
LEMMA SetToSeqCovers ==
    ASSUME NEW S, IsFiniteSet(S)
    PROVE  SetToSeq(S) \in Seq(S) /\ \A x \in S : \E n \in 1..Len(SetToSeq(S)) : SetToSeq(S)[n] = x
<1>1. PICK f \in Bijection(1..Cardinality(S), S) : TRUE
  BY FS_CardinalityType DEF ExistsBijection
<1>2. f \in [1..Cardinality(S) -> S] /\ IsInjective(f)
  BY <1>1 DEF Bijection, Injection, IsInjective
<1>3. SetToSeq(S) \in [1..Cardinality(S) -> S] /\ IsInjective(SetToSeq(S))
  BY <1>2 DEF SetToSeq
<1> HIDE DEF SetToSeq
<1>4. SetToSeq(S) \in Injection(1..Cardinality(S), S)
  BY <1>3 DEF Injection, IsInjective
<1>5. Cardinality(1..Cardinality(S)) = Cardinality(S)
  BY FS_CardinalityType, FS_Interval
<1>6. SetToSeq(S) \in Surjection(1..Cardinality(S), S)
  BY <1>4, <1>5, FS_Injection
<1>7. SetToSeq(S) \in Seq(S)
  BY SetToSeqIsSeq
<1>8. Len(SetToSeq(S)) = Cardinality(S)
  BY <1>3, <1>7, FS_CardinalityType
<1> QED BY <1>6, <1>7, <1>8 DEF Surjection

LEMMA StepsNeededEventsAreAll ==
    ASSUME NEW its \in [Item -> ItemRecord], NEW i \in Item
    PROVE  /\ NamesAll(StepsNeededEvents(its), i, its[i].needed)
           /\ its[i].needed # {} =>
                Announced(StepsNeededEvents(its), i, Len(StepsNeededEvents(its)))
<1> DEFINE I == {j \in Item : its[j].needed # {}}
           event == [j \in I |-> StepsNeeded(j, its[j].needed)]
           E == {StepsNeeded(j, its[j].needed) : j \in I}
           events == StepsNeededEvents(its)
<1>1. IsFiniteSet(I)
  BY ItemAssumption, FS_Subset
<1>2. event \in Surjection(I, E)
  BY DEF Surjection
<1>3. IsFiniteSet(E)
  BY <1>1, <1>2, FS_Surjection DEF ExistsSurjection
<1>4. events \in Seq(E) /\ \A x \in E : \E n \in 1..Len(events) : events[n] = x
  BY <1>3, SetToSeqCovers DEF StepsNeededEvents
<1>5. \A k \in 1..Len(events) : events[k] \in E
  BY <1>4
<1>6. \A k \in 1..Len(events) :
         NamesSteps(events[k], i) => events[k].steps = its[i].needed /\ its[i].needed # {}
  BY <1>5 DEF NamesSteps, StepsNeeded
<1>7. ASSUME its[i].needed # {} PROVE \E k \in 1..Len(events) : NamesSteps(events[k], i)
  <2>1. StepsNeeded(i, its[i].needed) \in E
    BY <1>7
  <2>2. PICK n \in 1..Len(events) : events[n] = StepsNeeded(i, its[i].needed)
    BY <1>4, <2>1
  <2> QED BY <2>2 DEF NamesSteps, StepsNeeded
<1> QED BY <1>6, <1>7 DEF NamesAll, Announced

-----------------------------------------------------------------------------
(* All that a flow without conditionals needs holds what its output and    *)
(* must_execute name, and all that the inputs of its members name.         *)
LEMMA AllNeededIsClosed ==
    ASSUME NEW f \in Unconditional
    PROVE  /\ f \in Flow /\ f \in UnconditionalInputs /\ NewItem \in ItemRecord
           /\ AllNeeded(f) \in SUBSET Step
           /\ \A r \in Results : OutputNeeds(f, r) \union MustExecute(f) \subseteq AllNeeded(f)
           /\ \A s \in AllNeeded(f), r \in Results : InputNeeds(f, s, r) \subseteq AllNeeded(f)
<1>1. f \in Flow /\ f \in UnconditionalInputs /\ f \in UnconditionalOutput
  BY UnconditionalInputsAssumption DEF Unconditional
<1>2. /\ NewItem \in ItemRecord /\ NewItem.needed = {}
      /\ NewItem.results = NothingRun /\ NothingRun \in Results
  BY DEF NewItem, ItemRecord, Results, NothingRun
<1>3. InitialSteps(f, NewItem) \in SUBSET Step
  BY <1>1, <1>2, OutputNeedsAssumption, MustExecuteAssumption DEF InitialSteps
<1>4. /\ AllNeeded(f) \subseteq Step
      /\ InitialSteps(f, NewItem) \subseteq AllNeeded(f)
      /\ \A s \in AllNeeded(f) : InputNeeds(f, s, NothingRun) \subseteq AllNeeded(f)
  BY <1>1, <1>2, <1>3, VisitedIsClosed DEF AllNeeded, ClosedUnderNewDeps
<1>5. \A r \in Results : OutputNeeds(f, r) \subseteq OutputNeeds(f, NothingRun)
  BY <1>1, UnconditionalOutputAssumption
<1>6. \A s \in Step, r \in Results : InputNeeds(f, s, r) \subseteq InputNeeds(f, s, NothingRun)
  BY <1>1, UnconditionalInputsAssumption
<1>7. OutputNeeds(f, NothingRun) \union MustExecute(f) \subseteq AllNeeded(f)
  BY <1>2, <1>4 DEF InitialSteps
<1> QED BY <1>1, <1>2, <1>4, <1>5, <1>6, <1>7

(* Whatever is evaluated of an item that needs all, nothing more is found, *)
(* and evaluating all steps, or from the first ones, finds all.            *)
LEMMA UpdateFindsAll ==
    ASSUME NEW f \in Unconditional, NEW item \in ItemRecord, NEW S \in SUBSET Step,
           Kept(item, AllNeeded(f)), S \in {AllNeeded(f), InitialSteps(f, item)}
    PROVE  LET new == AddOrUpdateNeeded(f, item, S)
           IN  new.needed = AllNeeded(f) /\ Kept(new, AllNeeded(f))
<1> DEFINE new == AddOrUpdateNeeded(f, item, S)
           all == AllNeeded(f)
           visited == Visited(f, item, S)
<1>1. /\ f \in Flow /\ all \in SUBSET Step /\ item.results \in Results /\ NewItem \in ItemRecord
      /\ \A r \in Results : OutputNeeds(f, r) \union MustExecute(f) \subseteq all
      /\ \A s \in all, r \in Results : InputNeeds(f, s, r) \subseteq all
  BY AllNeededIsClosed DEF ItemRecord
<1>2. new.needed = item.needed \union visited /\ new.results = item.results
  BY DEF AddOrUpdateNeeded, ItemRecord
<1>3. S \subseteq all
  BY <1>1 DEF InitialSteps
<1>4. ClosedUnderNewDeps(f, item, all)
  BY <1>1 DEF ClosedUnderNewDeps
<1>5. visited \subseteq all
  BY <1>1, <1>3, <1>4, VisitedIsLeast
<1>6. ASSUME item.needed = {} PROVE visited = all
  <2>1. CASE S = all
    BY <1>1, <1>5, <2>1, VisitedIsClosed
  <2>2. CASE S = InitialSteps(f, item)
    <3>1. item.results = NewItem.results /\ item.needed = NewItem.needed
      <4>1. \A s \in Step : item.results[s] = NotRun
        BY <1>6 DEF Kept, Completed, CompletedIn
      <4> QED BY <1>1, <1>6, <4>1 DEF Results, NewItem
    <3>2. InitialSteps(f, item) = InitialSteps(f, NewItem)
      BY <3>1 DEF InitialSteps
    <3>3. \A V : ClosedUnderNewDeps(f, item, V) <=> ClosedUnderNewDeps(f, NewItem, V)
      BY <3>1 DEF ClosedUnderNewDeps
    <3> QED BY <2>2, <3>2, <3>3 DEF Visited, AllNeeded
  <2> QED BY <2>1, <2>2
<1> HIDE DEF new, all, visited
<1>7. new.needed = all
  BY <1>2, <1>5, <1>6 DEF Kept, all
<1>8. Kept(new, all)
  BY <1>2, <1>7 DEF Kept, Completed, all
<1> QED BY <1>7, <1>8 DEF new, all

-----------------------------------------------------------------------------
(* What a completion leaves of an item whose steps are all found.          *)
LEMMA CompleteKeepsAll ==
    ASSUME NEW f \in Unconditional, NEW item, Sound(f, item, {}), Waits(f, item),
           item.needed = AllNeeded(f), AllNeeded(f) # {},
           NEW s \in Step, s \notin Completed(item), NEW result \in FlowResult
    PROVE  LET new == AddOrUpdateNeeded(f, MarkCompleted(item, s, result), NewlyUnblocked(item, s))
           IN  new.needed = AllNeeded(f) /\ Kept(new, AllNeeded(f))
<1> DEFINE new == AddOrUpdateNeeded(f, MarkCompleted(item, s, result), NewlyUnblocked(item, s))
<1>1. new.needed = item.needed
  BY CompleteFindsNothingNew DEF Unconditional
<1> HIDE DEF new
<1>2. new.needed = AllNeeded(f) /\ Kept(new, AllNeeded(f))
  BY <1>1 DEF Kept
<1> QED BY <1>2 DEF new

LEMMA NewItemKept == \A all : Kept(NewItem, all)
BY DEF Kept, NewItem, Completed, CompletedIn

(* The context in which the steps of an item are followed.                 *)
Following(i, all) ==
    /\ RInv /\ WaitsInv /\ Knows(i, all)
    /\ flow[i] \in Unconditional /\ all = AllNeeded(flow[i])

LEMMA StartKnows == ASSUME NEW i \in Item, NEW all, Following(i, all), Start PROVE Knows(i, all)'
<1>1. /\ unwritten = <<>> /\ mode = "up" /\ mode' = "up" /\ ~initialized /\ initialized' = TRUE
      /\ journal' = journal /\ checkpoint' = checkpoint
      /\ items'[i] = AddOrUpdateNeeded(flow[i], items[i], InitialSteps(flow[i], items[i]))
  BY DEF Following, RInv, UnwrittenInv, Start, InitializeAll, InitializedItem
<1>2. RInv'
  BY StartRInv DEF Following
<1>3. items' \in [Item -> ItemRecord] /\ items[i] \in ItemRecord
  BY <1>2 DEF RInv, RunTypes, Following
<1>4. items'[i].needed = all /\ Kept(items'[i], all)
  <2>1. InitialSteps(flow[i], items[i]) \in SUBSET Step
    BY <1>3, OutputNeedsAssumption, MustExecuteAssumption, AllNeededIsClosed
       DEF InitialSteps, ItemRecord, Following
  <2> QED BY <1>1, <1>3, <2>1, UpdateFindsAll DEF Following, Knows, MemoryKnows
<1>5. NamesAll(unwritten', i, all)
  <2>1. CASE writes_steps_needed
    BY <1>3, <1>4, <2>1, StepsNeededEventsAreAll DEF Start
  <2>2. CASE ~writes_steps_needed
    BY <2>2 DEF Start, NamesAll
  <2> QED BY <2>1, <2>2
<1>6. MemoryKnows(i, all)'
  BY <1>1, <1>4 DEF MemoryKnows, Following, Knows
<1>7. JournalKnows(i, all)'
  <2>1. ASSUME all # {}, writes_steps_needed
        PROVE  Announced(unwritten', i, Len(unwritten'))
    BY <1>3, <1>4, <2>1, StepsNeededEventsAreAll DEF Start
  <2>2. ASSUME all # {}, ~writes_steps_needed
        PROVE  Announced(journal, i, Len(journal))
    BY <1>1, <2>2 DEF Following, Knows, JournalKnows
  <2> QED BY <1>1, <2>1, <2>2 DEF JournalKnows, Following, Knows
<1> QED BY <1>1, <1>5, <1>6, <1>7 DEF Knows, Following

LEMMA CompleteAndJournalKnows ==
    ASSUME NEW i \in Item, NEW all, Following(i, all), NEW j \in Item, NEW s \in Step,
           NEW v \in FlowResult, CompleteAndJournal(j, s, v)
    PROVE  Knows(i, all)'
<1>1. /\ unwritten = <<>> /\ unwritten' = <<TaskCompleted(j, s, v)>>
      /\ <<j, s>> \in ready
      /\ items' = [items EXCEPT ![j] = AddOrUpdateNeeded(flow[j], MarkCompleted(items[j], s, v),
                                                         NewlyUnblocked(items[j], s))]
      /\ UNCHANGED <<initialized, mode, journal, replayed, checkpoint, writes_steps_needed>>
  BY DEF CompleteAndJournal, CompleteTask, CompleteTaskAndGetReady
<1>2. /\ initialized /\ mode = "up" /\ s \in SchedulableSteps(items[j])
      /\ items \in [Item -> ItemRecord]
  BY <1>1 DEF Following, RInv, SchedulerInv, SchedulableTasks, RunTypes
<1>3. \A k \in 1..Len(unwritten') : ~NamesSteps(unwritten'[k], i)
  <2>1. TaskCompleted(j, s, v).type = "TaskCompleted"
    BY DEF TaskCompleted
  <2>2. Len(unwritten') = 1 /\ unwritten'[1] = TaskCompleted(j, s, v)
    BY <1>1
  <2>3. \A k \in 1..Len(unwritten') : k = 1
    BY <2>2
  <2> QED BY <2>1, <2>2, <2>3 DEF NamesSteps
<1>4. items'[i].needed = all /\ Kept(items'[i], all)
  <2>1. items[i].needed = all /\ Kept(items[i], all)
    BY <1>2 DEF Following, Knows, MemoryKnows
  <2>2. CASE j = i
    <3>1. s \in items[i].needed /\ s \notin Completed(items[i])
      BY <1>2, <2>2 DEF SchedulableSteps
    <3>2. Sound(flow[i], items[i], {}) /\ Waits(flow[i], items[i])
      BY DEF Following, RInv, ItemsSound, WaitsInv, Unconditional
    <3> QED BY <1>1, <1>2, <2>1, <2>2, <3>1, <3>2, CompleteKeepsAll DEF Following
  <2>3. CASE j # i
    BY <1>1, <1>2, <2>1, <2>3
  <2> QED BY <2>2, <2>3
<1>5. NamesAll(unwritten', i, all)
  BY <1>3 DEF NamesAll
<1>6. MemoryKnows(i, all)'
  BY <1>1, <1>2, <1>4 DEF MemoryKnows, Following, Knows
<1>7. JournalKnows(i, all)'
  <2>1. ~Announced(unwritten, i, Len(unwritten))
    BY <1>1 DEF Announced
  <2> QED BY <1>1, <1>2, <2>1 DEF JournalKnows, Following, Knows
<1> QED BY <1>1, <1>5, <1>6, <1>7 DEF Knows, Following

LEMMA WriteJournalKnows ==
    ASSUME NEW i \in Item, NEW all, Following(i, all), WriteJournal PROVE Knows(i, all)'
<1> DEFINE event == Head(unwritten)
<1>1. /\ RunTypes /\ UnwrittenInv /\ NamesAll(journal, i, all) /\ NamesAll(unwritten, i, all)
      /\ MemoryKnows(i, all) /\ JournalKnows(i, all)
      /\ unwritten # <<>> /\ unwritten' = Tail(unwritten)
      /\ journal' = Append(journal, event)
      /\ UNCHANGED <<items, initialized, mode, replayed, checkpoint, writes_steps_needed>>
  BY DEF Following, Knows, RInv, WriteJournal, itemsVars
<1>2. unwritten \in Seq(RunEvent) /\ journal \in Seq(RunEvent)
  BY <1>1 DEF RunTypes
<1>3. /\ event \in RunEvent /\ event = unwritten[1] /\ 1 \in 1..Len(unwritten)
      /\ mode = "up" /\ initialized
  BY <1>1, <1>2 DEF UnwrittenInv
<1>4. /\ Len(journal') = Len(journal) + 1 /\ Len(journal) \in Nat
      /\ journal'[Len(journal) + 1] = event
      /\ \A m \in 1..Len(journal) : journal'[m] = journal[m]
      /\ Len(unwritten') = Len(unwritten) - 1 /\ Len(unwritten) \in Nat
      /\ \A m \in 1..Len(unwritten') : m + 1 \in 1..Len(unwritten) /\ unwritten'[m] = unwritten[m + 1]
  BY <1>1, <1>2, <1>3
<1> HIDE DEF event
<1>5. \A n \in 0..Len(journal) : Announced(journal, i, n) => Announced(journal', i, n)
  BY <1>4 DEF Announced
<1>6. Announced(journal, i, Len(journal)) => Announced(journal', i, Len(journal'))
  BY <1>4 DEF Announced
<1>7. NamesAll(journal', i, all)
  <2> SUFFICES ASSUME NEW k \in 1..Len(journal'), NamesSteps(journal'[k], i)
               PROVE  journal'[k].steps = all /\ all # {}
    BY DEF NamesAll
  <2>1. CASE k \in 1..Len(journal)
    BY <1>1, <1>4, <2>1 DEF NamesAll
  <2>2. CASE k = Len(journal) + 1
    BY <1>1, <1>3, <1>4, <2>2 DEF NamesAll
  <2> QED BY <1>4, <2>1, <2>2
<1>8. NamesAll(unwritten', i, all)
  BY <1>1, <1>4 DEF NamesAll
<1>9. MemoryKnows(i, all)'
  BY <1>1, <1>3 DEF MemoryKnows
<1>10. ASSUME all # {}
       PROVE  Announced(journal', i, Len(journal')) \/ Announced(unwritten', i, Len(unwritten'))
  <2>1. CASE Announced(journal, i, Len(journal))
    BY <1>6, <2>1
  <2>2. CASE Announced(unwritten, i, Len(unwritten))
    <3>1. PICK k \in 1..Len(unwritten) : NamesSteps(unwritten[k], i)
      BY <2>2 DEF Announced
    <3>2. CASE k = 1
      BY <1>3, <1>4, <3>1, <3>2 DEF Announced
    <3>3. CASE k # 1
      <4>1. k - 1 \in 1..Len(unwritten') /\ unwritten'[k - 1] = unwritten[k]
        BY <1>4, <3>3
      <4> QED BY <3>1, <4>1 DEF Announced
    <3> QED BY <3>2, <3>3
  <2> QED BY <1>1, <1>3, <1>10, <2>1, <2>2 DEF JournalKnows
<1>11. ASSUME NEW m \in 1..Len(journal'), journal'[m].type = "TaskCompleted", journal'[m].item = i
       PROVE  Announced(journal', i, m - 1)
  <2>1. CASE m \in 1..Len(journal)
    <3>1. Announced(journal, i, m - 1) /\ m - 1 \in 0..Len(journal)
      BY <1>1, <1>4, <1>11, <2>1 DEF JournalKnows
    <3> QED BY <1>5, <3>1
  <2>2. CASE m = Len(journal) + 1
    <3>1. event.type = "TaskCompleted" /\ event.item = i
      BY <1>4, <1>11, <2>2
    <3>2. Len(unwritten) = 1 /\ items[i].results[event.step] = event.result
      BY <1>1, <1>3, <3>1 DEF UnwrittenInv
    <3>3. event.step \in Completed(items[i])
      BY <1>3, <3>1, <3>2, EventTypes DEF Completed, CompletedIn
    <3>4. items[i].needed # {} /\ items[i].needed = all
      BY <1>1, <1>3, <3>3 DEF MemoryKnows, Kept
    <3>5. ~Announced(unwritten, i, Len(unwritten))
      BY <1>3, <3>1, <3>2 DEF Announced, NamesSteps
    <3>6. Announced(journal, i, Len(journal))
      BY <1>1, <1>3, <3>4, <3>5 DEF JournalKnows
    <3> QED BY <1>4, <1>5, <2>2, <3>6
  <2> QED BY <1>4, <2>1, <2>2
<1>12. JournalKnows(i, all)'
  BY <1>1, <1>3, <1>6, <1>10, <1>11 DEF JournalKnows
<1> QED BY <1>7, <1>8, <1>9, <1>12 DEF Knows

LEMMA TakeCheckpointKnows ==
    ASSUME NEW i \in Item, NEW all, Following(i, all), TakeCheckpoint PROVE Knows(i, all)'
<1>1. /\ NamesAll(journal, i, all) /\ NamesAll(unwritten, i, all)
      /\ MemoryKnows(i, all) /\ JournalKnows(i, all)
      /\ initialized /\ unwritten = <<>>
      /\ checkpoint'.items[i] = ToCheckpoint(items[i])
      /\ UNCHANGED <<items, initialized, mode, journal, replayed, unwritten, writes_steps_needed>>
  BY DEF Following, Knows, TakeCheckpoint, itemsVars
<1>2. mode = "up"
  BY <1>1 DEF Following, RInv, SchedulerInv, RunTypes
<1>3. Kept(checkpoint'.items[i], all) /\ checkpoint'.items[i].needed = all
  BY <1>1 DEF MemoryKnows, ToCheckpoint, Kept, Completed
<1>4. MemoryKnows(i, all)'
  BY <1>1, <1>2, <1>3 DEF MemoryKnows
<1>5. all # {} => Announced(journal, i, Len(journal))
  BY <1>1 DEF JournalKnows, Announced
<1>6. JournalKnows(i, all)'
  BY <1>1, <1>5 DEF JournalKnows
<1> QED BY <1>1, <1>4, <1>6 DEF Knows

LEMMA CrashKnows == ASSUME NEW i \in Item, NEW all, Following(i, all), Crash PROVE Knows(i, all)'
<1>1. /\ NamesAll(journal, i, all) /\ MemoryKnows(i, all) /\ JournalKnows(i, all)
      /\ mode' = "down" /\ initialized' = FALSE /\ unwritten' = <<>> /\ items'[i] = NewItem
      /\ UNCHANGED <<journal, checkpoint>>
  BY DEF Following, Knows, Crash
<1>2. NamesAll(unwritten', i, all)
  BY <1>1 DEF NamesAll
<1>3. MemoryKnows(i, all)'
  BY <1>1, NewItemKept DEF MemoryKnows
<1>4. JournalKnows(i, all)'
  BY <1>1 DEF JournalKnows
<1> QED BY <1>1, <1>2, <1>3, <1>4 DEF Knows

LEMMA RestoreKnows == ASSUME NEW i \in Item, NEW all, Following(i, all), Restore PROVE Knows(i, all)'
<1>1. /\ NamesAll(journal, i, all) /\ NamesAll(unwritten, i, all)
      /\ MemoryKnows(i, all) /\ JournalKnows(i, all)
      /\ mode = "down" /\ mode' = "replaying" /\ replayed' = checkpoint.at
      /\ items'[i] = IF checkpoint.taken THEN FromCheckpoint(checkpoint.items[i]) ELSE NewItem
      /\ UNCHANGED <<initialized, journal, unwritten, checkpoint, writes_steps_needed>>
  BY DEF Following, Knows, Restore
<1>2. ~initialized /\ (~checkpoint.taken => checkpoint.at = 0)
  BY <1>1 DEF Following, RInv, SchedulerInv, RunTypes
<1>3. Kept(items'[i], all) /\ (checkpoint.taken => items'[i].needed = all)
  <2>1. CASE checkpoint.taken
    <3>1. /\ items'[i].needed = checkpoint.items[i].needed
          /\ items'[i].results = checkpoint.items[i].results
      BY <1>1, <2>1 DEF FromCheckpoint
    <3>2. Kept(checkpoint.items[i], all) /\ checkpoint.items[i].needed = all
      BY <1>1, <2>1 DEF MemoryKnows
    <3> QED BY <3>1, <3>2 DEF Kept, Completed
  <2>2. CASE ~checkpoint.taken
    BY <1>1, <2>2, NewItemKept
  <2> QED BY <2>1, <2>2
<1>4. ~Announced(journal, i, 0)
  BY DEF Announced
<1>5. MemoryKnows(i, all)'
  BY <1>1, <1>2, <1>3, <1>4 DEF MemoryKnows
<1>6. JournalKnows(i, all)'
  BY <1>1, <1>2 DEF JournalKnows
<1> QED BY <1>1, <1>5, <1>6 DEF Knows

LEMMA ReplayEventKnows ==
    ASSUME NEW i \in Item, NEW all, Following(i, all), ReplayEvent PROVE Knows(i, all)'
<1>1. /\ RInv /\ RunTypes /\ NamesAll(journal, i, all) /\ NamesAll(unwritten, i, all)
      /\ MemoryKnows(i, all) /\ JournalKnows(i, all)
      /\ mode = "replaying" /\ replayed < Len(journal) /\ replayed' = replayed + 1
      /\ UNCHANGED <<initialized, mode, journal, unwritten, checkpoint, writes_steps_needed>>
  BY DEF Following, Knows, RInv, ReplayEvent
<1> PICK event : event = journal[replayed + 1]
  OBVIOUS
<1>2. /\ journal \in Seq(RunEvent) /\ items \in [Item -> ItemRecord]
      /\ replayed \in 0..Len(journal) /\ replayed \in Nat /\ ~initialized
  BY <1>1 DEF RunTypes, RInv, SchedulerInv
<1>3. replayed + 1 \in 1..Len(journal) /\ event \in RunEvent
  BY <1>1, <1>2
<1>4. ~NamesSteps(event, i) => (Announced(journal, i, replayed + 1) => Announced(journal, i, replayed))
  BY <1>2 DEF Announced
<1>5. Kept(items'[i], all) /\ (checkpoint.taken \/ Announced(journal, i, replayed + 1)
                                 => items'[i].needed = all)
  <2>1. CASE event.item # i
    <3>1. items'[i] = items[i]
      BY <1>2, <1>3, <2>1 DEF ReplayEvent, ApplyStepsNeeded, ApplyTaskCompleted
    <3>2. ~NamesSteps(event, i)
      BY <2>1 DEF NamesSteps
    <3> QED BY <1>1, <1>4, <3>1, <3>2 DEF MemoryKnows
  <2>2. CASE event.item = i /\ event.type = "StepsNeeded"
    <3>1. event.steps = all /\ event.steps \in SUBSET Step
      BY <1>1, <1>3, <2>2, EventTypes DEF NamesAll, NamesSteps
    <3>2. items'[i] = AddOrUpdateNeeded(flow[i], items[i], all)
      BY <1>2, <2>2, <3>1 DEF ReplayEvent, ApplyStepsNeeded
    <3> QED BY <1>1, <1>2, <3>1, <3>2, UpdateFindsAll DEF MemoryKnows, Following
  <2>3. CASE event.item = i /\ event.type = "TaskCompleted"
    <3>1. event.step \in Step /\ event.result \in FlowResult /\ event.step \notin Completed(items[i])
      BY <1>1, <1>3, <2>3, EventTypes, ReplayedIsNew
    <3>2. items'[i] = AddOrUpdateNeeded(flow[i], MarkCompleted(items[i], event.step, event.result),
                                        NewlyUnblocked(items[i], event.step))
      BY <1>2, <2>3 DEF ReplayEvent, ApplyTaskCompleted
    <3>3. Announced(journal, i, replayed)
      BY <1>1, <1>2, <1>3, <2>3 DEF JournalKnows
    <3>4. items[i].needed = all /\ all # {}
      BY <1>1, <1>2, <3>3 DEF MemoryKnows, NamesAll, Announced
    <3>5. Sound(flow[i], items[i], {}) /\ Waits(flow[i], items[i])
      BY DEF Following, RInv, ItemsSound, WaitsInv, Unconditional
    <3> QED BY <3>1, <3>2, <3>4, <3>5, CompleteKeepsAll DEF Following
  <2> QED BY <1>3, <2>1, <2>2, <2>3, EventTypes
<1>6. MemoryKnows(i, all)'
  BY <1>1, <1>2, <1>5 DEF MemoryKnows
<1>7. JournalKnows(i, all)'
  BY <1>1 DEF JournalKnows
<1> QED BY <1>1, <1>6, <1>7 DEF Knows

(* The steps of the root are journalled again after every restart; of a    *)
(* subflow with one item the StepsNeeded event that replay saw is the      *)
(* item's.                                                                 *)
LEMMA FinishReplayKnows ==
    ASSUME NEW i \in Item, NEW all, Following(i, all), is_root \/ Cardinality(Item) = 1,
           FinishReplay
    PROVE  Knows(i, all)'
<1>1. /\ NamesAll(journal, i, all) /\ NamesAll(unwritten, i, all)
      /\ MemoryKnows(i, all) /\ JournalKnows(i, all)
      /\ mode = "replaying" /\ mode' = "up"
      /\ UNCHANGED <<items, initialized, journal, replayed, unwritten, checkpoint>>
      /\ ~writes_steps_needed' => ~is_root /\ (checkpoint.taken \/ StepsNeededSeen)
  BY DEF Following, Knows, FinishReplay, itemsVars
<1>2. ~initialized /\ journal \in Seq(RunEvent)
  BY <1>1 DEF Following, RInv, SchedulerInv, RunTypes
<1>3. ASSUME ~writes_steps_needed', all # {} PROVE Announced(journal, i, Len(journal))
  <2>1. CASE checkpoint.taken
    BY <1>1, <1>3, <2>1 DEF JournalKnows
  <2>2. CASE StepsNeededSeen
    <3>1. PICK n \in 1..Len(journal) : journal[n].type = "StepsNeeded"
      BY <1>2, <2>2 DEF StepsNeededSeen
    <3>2. journal[n] \in RunEvent
      BY <1>2
    <3>3. journal[n].item = i
      <4>1. \E x : Item = {x}
        BY <1>1, <1>3, ItemAssumption, FS_Singleton
      <4> QED BY <3>2, <4>1, EventTypes
    <3> QED BY <3>1, <3>3 DEF Announced, NamesSteps
  <2> QED BY <1>1, <1>3, <2>1, <2>2
<1>4. MemoryKnows(i, all)'
  BY <1>1 DEF MemoryKnows
<1>5. JournalKnows(i, all)'
  BY <1>1, <1>2, <1>3 DEF JournalKnows
<1> QED BY <1>1, <1>4, <1>5 DEF Knows

LEMMA NeededInit == RunInit => NeededInv
<1> SUFFICES ASSUME RunInit PROVE NeededInv
  OBVIOUS
<1>1. /\ journal = <<>> /\ unwritten = <<>> /\ mode = "up" /\ ~initialized
      /\ writes_steps_needed /\ ~checkpoint.taken /\ items = [i \in Item |-> NewItem]
  BY DEF RunInit, Init, NoCheckpoint
<1>2. ASSUME NEW i \in Item, NEW all PROVE Knows(i, all)
  BY <1>1, NewItemKept DEF Knows, NamesAll, MemoryKnows, JournalKnows
<1> QED BY <1>1, <1>2 DEF NeededInv

LEMMA NeededNext ==
    ASSUME RInv, WaitsInv, NeededInv, is_root \/ Cardinality(Item) = 1, [RunNext]_vars
    PROVE  NeededInv'
<1>1. flow' = flow /\ is_root' = is_root
  BY DEF RunNext, vars, itemsVars, recoveryVars, Start, InitializeAll, CompleteAndJournal,
         CompleteTask, CompleteTaskAndGetReady, WriteJournal, TakeCheckpoint, Crash, Restore,
         ReplayEvent, FinishReplay
<1>2. writes_steps_needed' \/ ~is_root
  BY DEF NeededInv, RunNext, vars, recoveryVars, Start, CompleteAndJournal, WriteJournal,
         TakeCheckpoint, Crash, Restore, ReplayEvent, FinishReplay
<1>3. ASSUME NEW i \in Item, flow[i] \in Unconditional, NEW all, all = AllNeeded(flow[i])
      PROVE  Knows(i, all)'
  <2>1. Following(i, all)
    BY <1>3 DEF Following, NeededInv
  <2>2. CASE Start
    BY <2>1, <2>2, StartKnows
  <2>3. ASSUME NEW j \in Item, NEW s \in Step, NEW v \in FlowResult, CompleteAndJournal(j, s, v)
        PROVE  Knows(i, all)'
    BY <2>1, <2>3, CompleteAndJournalKnows
  <2>4. CASE WriteJournal
    BY <2>1, <2>4, WriteJournalKnows
  <2>5. CASE TakeCheckpoint
    BY <2>1, <2>5, TakeCheckpointKnows
  <2>6. CASE Crash
    BY <2>1, <2>6, CrashKnows
  <2>7. CASE Restore
    BY <2>1, <2>7, RestoreKnows
  <2>8. CASE ReplayEvent
    BY <2>1, <2>8, ReplayEventKnows
  <2>9. CASE FinishReplay
    BY <2>1, <2>9, FinishReplayKnows
  <2>10. CASE UNCHANGED vars
    BY <2>1, <2>10 DEF vars, itemsVars, recoveryVars, Following, Knows, MemoryKnows, JournalKnows
  <2> QED BY <2>2, <2>3, <2>4, <2>5, <2>6, <2>7, <2>8, <2>9, <2>10 DEF RunNext
<1>4. ASSUME NEW i \in Item, flow'[i] \in Unconditional
      PROVE  Knows(i, AllNeeded(flow[i]))'
  <2>1. PICK all : all = AllNeeded(flow[i])
    OBVIOUS
  <2>2. Knows(i, all)'
    BY <1>1, <1>3, <1>4, <2>1
  <2>3. all = AllNeeded(flow[i])'
    BY <1>1, <2>1
  <2> QED BY <2>2, <2>3
<1> QED BY <1>1, <1>2, <1>4 DEF NeededInv

(* The steps a root or a one-item subflow is known to need, when its flow  *)
(* holds no conditional, are after every restart those of the first start  *)
(* (initialize_all, write_steps_needed_events, replay_events).             *)
THEOREM NeededSurvives == RunSpec => []NeededSurvivesRecovery
<1> DEFINE single == Cardinality(Item) = 1
           K == is_root \/ single
<1>1. RunInit => RInv /\ WaitsInv /\ (K => NeededInv)
  BY RunInitRInv, WaitsInit, NeededInit
<1>2. RInv /\ WaitsInv /\ (K => NeededInv) /\ [RunNext]_vars => (RInv /\ WaitsInv /\ (K => NeededInv))'
  <2>1. [RunNext]_vars => is_root' = is_root
    BY DEF RunNext, vars, recoveryVars, Start, CompleteAndJournal, WriteJournal, TakeCheckpoint,
           Crash, Restore, ReplayEvent, FinishReplay
  <2> QED BY <2>1, RInvNext, WaitsNext, NeededNext
<1>3. (K => NeededInv) => NeededSurvivesRecovery
  BY DEF NeededSurvivesRecovery, NeededIsKept, NeededInv, Knows, MemoryKnows, Unconditional
<1> QED BY <1>1, <1>2, <1>3, PTL DEF RunSpec

=============================================================================
