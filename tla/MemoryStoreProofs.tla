-------------------------- MODULE MemoryStoreProofs -------------------------
(***************************************************************************)
(* What MemoryStore keeps to for all moments, rules, times and bounds: a   *)
(* pause lets one write through, an id that was shown names one memory, a  *)
(* fact is there once and with its evidence, and a reset lets one memory   *)
(* through.                                                                *)
(***************************************************************************)
EXTENDS MemoryStore, FiniteSetTheorems, TLAPS

-----------------------------------------------------------------------------
(***************************************************************************)
(* The write switch.                                                       *)
(***************************************************************************)
Checked == {"capture", "save_affect", "save_body"}

\* No write is late while writes are on; of what is done after they are switched
\* off, only a step that had already looked at the switch is a write.
PauseInv ==
    /\ late_writes \in 0..1
    /\ _writes_enabled => late_writes = 0
    /\ pc \in Checked => late_writes = 0

\* The first write after the switch leaves the count of late writes at most one.
LEMMA WrittenOnce ==
    ASSUME late_writes = 0, Written
    PROVE  late_writes' \in 0..1 /\ (_writes_enabled => late_writes' = 0)
  BY DEF Written

\* No step makes more than the one write late that had looked at the switch.
LEMMA PauseStep == PauseInv /\ [Next]_vars => PauseInv'
<1> SUFFICES ASSUME PauseInv, [Next]_vars PROVE PauseInv'
  OBVIOUS
<1> USE DEF PauseInv, Checked
<1>1. ASSUME NEW gap \in Gaps, NEW moment \in Moments \cup {None}, BeginTurn(gap, moment)
      PROVE  PauseInv'
  BY <1>1 DEF BeginTurn, store
<1>2. CASE CheckCapture
  BY <1>2 DEF CheckCapture, store
<1>3. CASE capture
  <2>1. late_writes = 0 /\ pc' = "consolidate" /\ _writes_enabled' = _writes_enabled
    BY <1>3 DEF capture
  <2>2. Written \/ late_writes' = late_writes
    BY <1>3 DEF capture, StoreMoment
  <2> QED BY <2>1, <2>2, WrittenOnce
<1>4. CASE LookForFact
  BY <1>4 DEF LookForFact, store
<1>5. CASE CountSupport
  BY <1>5 DEF CountSupport, store
<1>6. CASE CallBack
  BY <1>6 DEF CallBack
<1>7. CASE NoSurprise
  BY <1>7 DEF NoSurprise, store
<1>8. CASE retrieve
  BY <1>8 DEF retrieve
<1>9. CASE LoopSaves
  <2>1. CASE CheckSave("check_affect", "save_affect", "check_body")
    BY <2>1 DEF CheckSave, store
  <2>2. CASE save_affect
    BY <2>2, WrittenOnce DEF save_affect
  <2>3. CASE CheckSave("check_body", "save_body", "wait")
    BY <2>3 DEF CheckSave, store
  <2> QED BY <1>9, <2>1, <2>2, <2>3 DEF LoopSaves
<1>10. CASE save_body
  BY <1>10, WrittenOnce DEF save_body
<1>11. CASE OwnerStep
  <2>1. ASSUME NEW r \in rows, Inspect(r) PROVE PauseInv'
    BY <2>1 DEF Inspect, store
  <2>2. ASSUME NEW S, Forget(S) PROVE PauseInv'
    BY <2>2 DEF Forget
  <2>3. CASE reset
    BY <2>3 DEF reset
  <2>4. ASSUME NEW enabled \in BOOLEAN, set_writes_enabled(enabled) PROVE PauseInv'
    BY <2>4 DEF set_writes_enabled
  <2> QED BY <1>11, <2>1, <2>2, <2>3, <2>4 DEF OwnerStep, forget, forget_by
<1>12. CASE Restart
  BY <1>12 DEF Restart
<1>13. CASE UNCHANGED vars
  BY <1>13 DEF vars, store
<1> QED
  BY <1>1, <1>2, <1>3, <1>4, <1>5, <1>6, <1>7, <1>8, <1>9, <1>10, <1>11, <1>12, <1>13
  DEF Next, LoopStep

\* Once POST /memory/writes has switched writes off, at most the one write of the
\* loop that had already looked at the switch goes through.
THEOREM PauseHolds == Spec => []PauseTakesEffect
<1>1. Init => PauseInv
  BY DEF Init, PauseInv, Checked
<1>2. PauseInv => PauseTakesEffect
  BY DEF PauseInv, PauseTakesEffect
<1> QED BY <1>1, <1>2, PauseStep, PTL DEF Spec

-----------------------------------------------------------------------------
(***************************************************************************)
(* Rows and their ids.                                                     *)
(***************************************************************************)
IsRow(r) ==
    r = [id |-> r.id, summary |-> r.summary, created_at |-> r.created_at,
         importance |-> r.importance, last_recalled |-> r.last_recalled,
         recalled |-> r.recalled, epoch |-> r.epoch]

\* Every row has an id that was given out, and no two have the same.
RowsInv ==
    /\ next_id \in Nat
    /\ \A r \in rows : IsRow(r) /\ r.id \in Nat /\ r.id < next_id
    /\ \A r, s \in rows : r.id = s.id => r = s

\* Every row there will be comes from one there is.
SameRow(s, r) == s.id = r.id /\ s.summary = r.summary /\ s.epoch = r.epoch

Kept == \A s \in rows' : \E r \in rows : SameRow(s, r)

\* Raising a row leaves it the row it was.
LEMMA BumpedIsTheRow ==
    ASSUME NEW r, IsRow(r)
    PROVE  IsRow(Bumped(r)) /\ SameRow(Bumped(r), r)
<1> DEFINE raise == IF r.importance + RECALL_BUMP > MaxImportance THEN MaxImportance
                    ELSE r.importance + RECALL_BUMP
<1>1. Bumped(r) = [r EXCEPT !.importance = raise, !.last_recalled = now, !.recalled = TRUE]
  BY DEF Bumped
<1> HIDE DEF raise
<1>2. Bumped(r) = [id |-> r.id, summary |-> r.summary, created_at |-> r.created_at,
                   importance |-> raise, last_recalled |-> now, recalled |-> TRUE,
                   epoch |-> r.epoch]
  BY <1>1, Zenon DEF IsRow
<1> QED BY <1>2 DEF IsRow, SameRow

\* Raising some of the rows keeps ids, summaries and epochs.
LEMMA BumpKeepsRows ==
    ASSUME RowsInv, NEW R \in SUBSET rows, next_id' = next_id,
           rows' = (rows \ R) \cup {Bumped(r) : r \in R}
    PROVE  RowsInv' /\ Kept
<1> USE DEF RowsInv
<1>1. ASSUME NEW s \in rows'
      PROVE  \E r \in rows : /\ SameRow(s, r) /\ IsRow(s)
                             /\ s = (IF r \in R THEN Bumped(r) ELSE r)
  <2>1. CASE s \in rows \ R
    BY <2>1 DEF SameRow
  <2>2. CASE s \in {Bumped(r) : r \in R}
    BY <2>2, BumpedIsTheRow
  <2> QED BY <2>1, <2>2
<1>2. Kept
  BY <1>1 DEF Kept
<1>3. \A s \in rows' : IsRow(s) /\ s.id \in Nat /\ s.id < next_id'
  BY <1>1 DEF SameRow
<1>4. ASSUME NEW s \in rows', NEW t \in rows', s.id = t.id PROVE s = t
  BY <1>1, <1>4 DEF SameRow
<1> QED BY <1>2, <1>3, <1>4

\* Taking rows away, or none, keeps the others as they are.
LEMMA ForgettingKeepsRows ==
    ASSUME RowsInv, rows' \subseteq rows, next_id' = next_id
    PROVE  RowsInv' /\ Kept
  BY DEF RowsInv, Kept, SameRow

IsNew(s, summary) == s.id = next_id /\ s.summary = summary /\ s.epoch = known_in

\* A new row has the next id and says when the loop knew it.
LEMMA InsertAddsARow ==
    ASSUME RowsInv, NEW summary, Insert(summary)
    PROVE  /\ RowsInv'
           /\ next_id' = next_id + 1
           /\ \A s \in rows' : s \in rows \/ IsNew(s, summary)
<1> DEFINE new == [id |-> NewId, summary |-> summary, created_at |-> now,
                   importance |-> _score(summary), last_recalled |-> now,
                   recalled |-> FALSE, epoch |-> known_in]
<1>1. rows' = rows \cup {new} /\ next_id' = next_id + 1
  BY DEF Insert
<1>2. IsRow(new) /\ IsNew(new, summary)
  BY DEF IsRow, IsNew, NewId
<1> HIDE DEF new
<1>3. \A s \in rows' : IsRow(s) /\ s.id \in Nat /\ s.id < next_id'
  BY <1>1, <1>2 DEF RowsInv, IsNew
<1>4. ASSUME NEW s \in rows', NEW t \in rows', s.id = t.id PROVE s = t
  BY <1>1, <1>2, <1>4 DEF RowsInv, IsNew
<1> QED BY <1>1, <1>2, <1>3, <1>4 DEF RowsInv

\* What a step does to the rows: it keeps them, in part at least, or stores what
\* the loop captures.
RowsStep ==
    \/ Kept /\ next_id' = next_id
    \/ /\ pc = "capture" /\ next_id' = next_id + 1
       /\ Duplicates(Captured) = {}
       /\ \A s \in rows' : s \in rows \/ IsNew(s, Captured)

\* capture raises a row, adds one with the next id, or does nothing.
LEMMA CaptureStep ==
    ASSUME RowsInv, capture PROVE RowsInv' /\ RowsStep
<1>1. ASSUME NEW r \in rows, _bump_existing(r) PROVE RowsInv' /\ RowsStep
  <2>1. next_id' = next_id /\ rows' = (rows \ {r}) \cup {Bumped(q) : q \in {r}}
    BY <1>1 DEF _bump_existing
  <2> QED BY <2>1, BumpKeepsRows DEF RowsStep
<1>2. ASSUME Duplicates(Captured) = {}, Insert(Captured) PROVE RowsInv' /\ RowsStep
  BY <1>2, InsertAddsARow DEF RowsStep, capture
<1>3. ASSUME UNCHANGED <<rows, next_id>> PROVE RowsInv' /\ RowsStep
  BY <1>3, ForgettingKeepsRows DEF RowsStep
<1> QED BY <1>1, <1>2, <1>3 DEF capture, StoreMoment, Duplicates

\* _mark_recalled keeps ids, summaries and epochs.
LEMMA MarkKeepsRows ==
    ASSUME RowsInv, NEW S \in SUBSET rows, _mark_recalled(S), next_id' = next_id
    PROVE  RowsInv' /\ Kept
<1> DEFINE R == IF _writes_enabled THEN {r \in S : Recallable(r)} ELSE {}
<1>1. R \in SUBSET rows /\ rows' = (rows \ R) \cup {Bumped(r) : r \in R}
  BY DEF _mark_recalled
<1> HIDE DEF R
<1> QED BY <1>1, BumpKeepsRows

\* Every step keeps ids unique, and only capture adds a row.
LEMMA RowsAreKept == RowsInv /\ [Next]_vars => RowsInv' /\ RowsStep
<1> SUFFICES ASSUME RowsInv, [Next]_vars PROVE RowsInv' /\ RowsStep
  OBVIOUS
<1>1. CASE UNCHANGED <<rows, next_id>>
  BY <1>1, ForgettingKeepsRows DEF RowsStep
<1>2. CASE capture
  BY <1>2, CaptureStep
<1>3. CASE CallBack
  <2>1. next_id' = next_id
    BY <1>3 DEF CallBack
  <2>2. UNCHANGED rows \/ \E r \in rows : _mark_recalled({r})
    BY <1>3 DEF CallBack
  <2>3. ASSUME NEW r \in rows, _mark_recalled({r}) PROVE RowsInv' /\ Kept
    BY <2>1, <2>3, MarkKeepsRows
  <2> QED BY <1>1, <2>1, <2>2, <2>3 DEF RowsStep
<1>4. CASE retrieve
  <2>1. next_id' = next_id /\ \E S \in SUBSET rows : _mark_recalled(S)
    BY <1>4 DEF retrieve
  <2> QED BY <2>1, MarkKeepsRows DEF RowsStep
<1>5. ASSUME NEW S, Forget(S) PROVE RowsInv' /\ RowsStep
  BY <1>5, ForgettingKeepsRows DEF Forget, RowsStep
<1>6. CASE reset
  BY <1>6, ForgettingKeepsRows DEF reset, RowsStep
<1>7. [Next]_vars =>
        \/ UNCHANGED <<rows, next_id>> \/ capture \/ CallBack \/ retrieve \/ reset
        \/ \E S : Forget(S)
  <2>1. ASSUME NEW gap, NEW moment, BeginTurn(gap, moment) PROVE UNCHANGED <<rows, next_id>>
    BY <2>1 DEF BeginTurn, store
  <2>2. CheckCapture \/ LookForFact \/ CountSupport \/ NoSurprise
        => UNCHANGED <<rows, next_id>>
    BY DEF CheckCapture, LookForFact, CountSupport, NoSurprise, store
  <2>3. LoopSaves \/ save_body => UNCHANGED <<rows, next_id>>
    BY DEF LoopSaves, CheckSave, save_affect, save_body, store
  <2>4. Restart \/ UNCHANGED vars => UNCHANGED <<rows, next_id>>
    BY DEF Restart, vars, store
  <2>5. ASSUME NEW r, Inspect(r) PROVE UNCHANGED <<rows, next_id>>
    BY <2>5 DEF Inspect, store
  <2>6. ASSUME NEW enabled, set_writes_enabled(enabled) PROVE UNCHANGED <<rows, next_id>>
    BY <2>6 DEF set_writes_enabled
  <2> QED BY <2>1, <2>2, <2>3, <2>4, <2>5, <2>6
          DEF Next, LoopStep, OwnerStep, forget, forget_by
<1> QED BY <1>1, <1>2, <1>3, <1>4, <1>5, <1>6, <1>7

\* Ids are those of next_id and identify their rows in every reachable state.
LEMMA RowsInvHolds == Spec => []RowsInv
<1>1. Init => RowsInv
  BY DEF Init, RowsInv
<1> QED BY <1>1, RowsAreKept, PTL DEF Spec

-----------------------------------------------------------------------------
(***************************************************************************)
(* The id the owner was shown.                                             *)
(***************************************************************************)
ShownInv ==
    shown # None =>
        /\ shown = [id |-> shown.id, summary |-> shown.summary]
        /\ shown.id \in Nat /\ shown.id < next_id
        /\ \A r \in rows : r.id = shown.id => r.summary = shown.summary

\* An id that has been shown is never given to another row.
LEMMA ShownStep == RowsInv /\ ShownInv /\ RowsStep /\ [Next]_vars => ShownInv'
<1> SUFFICES ASSUME RowsInv, ShownInv, RowsStep, [Next]_vars PROVE ShownInv'
  OBVIOUS
<1>1. CASE UNCHANGED shown
  <2>1. CASE Kept /\ next_id' = next_id
    BY <1>1, <2>1 DEF ShownInv, Kept, SameRow
  <2>2. ASSUME next_id' = next_id + 1,
               \A s \in rows' : s \in rows \/ IsNew(s, Captured)
        PROVE  ShownInv'
    BY <1>1, <2>2 DEF ShownInv, RowsInv, IsNew
  <2> QED BY <2>1, <2>2 DEF RowsStep
<1>2. ASSUME NEW r \in rows, Inspect(r) PROVE ShownInv'
  <2>1. shown' = [id |-> r.id, summary |-> r.summary] /\ UNCHANGED <<rows, next_id>>
    BY <1>2 DEF Inspect, store
  <2> QED BY <2>1 DEF ShownInv, RowsInv
<1>3. [Next]_vars => UNCHANGED shown \/ \E r \in rows : Inspect(r)
  <2>1. ASSUME NEW gap, NEW moment, BeginTurn(gap, moment) PROVE UNCHANGED shown
    BY <2>1 DEF BeginTurn, owner
  <2>2. CheckCapture \/ capture \/ LookForFact \/ CountSupport \/ NoSurprise
        => UNCHANGED shown
    BY DEF CheckCapture, capture, LookForFact, CountSupport, NoSurprise, owner
  <2>3. CallBack \/ retrieve \/ LoopSaves \/ save_body => UNCHANGED shown
    BY DEF CallBack, retrieve, LoopSaves, CheckSave, save_affect, save_body, owner
  <2>4. Restart \/ UNCHANGED vars \/ reset => UNCHANGED shown
    BY DEF Restart, vars, owner, reset
  <2>5. ASSUME NEW S, Forget(S) PROVE UNCHANGED shown
    BY <2>5 DEF Forget
  <2>6. ASSUME NEW enabled, set_writes_enabled(enabled) PROVE UNCHANGED shown
    BY <2>6 DEF set_writes_enabled
  <2> QED BY <2>1, <2>2, <2>3, <2>4, <2>5, <2>6
          DEF Next, LoopStep, OwnerStep, forget, forget_by
<1> QED BY <1>1, <1>2, <1>3

\* POST /memory/forget with an id of an earlier GET /memory forgets the memory
\* that was shown, or nothing.
THEOREM ForgetHits == Spec => []ForgetHitsWhatWasShown
<1>1. Init => RowsInv /\ ShownInv
  BY DEF Init, RowsInv, ShownInv
<1>2. RowsInv /\ ShownInv /\ [Next]_vars => (RowsInv /\ ShownInv)'
  BY RowsAreKept, ShownStep
<1>3. ShownInv => ForgetHitsWhatWasShown
  BY DEF ShownInv, ForgetHitsWhatWasShown
<1> QED BY <1>1, <1>2, <1>3, PTL DEF Spec

-----------------------------------------------------------------------------
(***************************************************************************)
(* Facts.                                                                  *)
(***************************************************************************)
\* The loop knows what it is about to capture, and if that is a fact, that it is
\* not there: nobody but the loop stores one.
LoopInv ==
    /\ event \in Moments \cup {None} /\ rule \in 0..Len(RULES)
    /\ pc \in {"check_capture", "capture"} /\ rule = 0 => event \in Moments
    /\ pc = "count" => rule # 0
    /\ pc \in {"count", "check_capture", "capture"} /\ rule # 0 => ~has_summary(RULES[rule].fact)

FactIds == \A r, s \in rows : r.summary \in Facts /\ r.summary = s.summary => r.id = s.id

\* No step makes the loop about to capture a fact that is already stored.
LEMMA LoopStepInv == RowsInv /\ LoopInv /\ RowsStep /\ [Next]_vars => LoopInv'
<1> SUFFICES ASSUME RowsInv, LoopInv, RowsStep, [Next]_vars PROVE LoopInv'
  OBVIOUS
<1>1. Len(RULES) \in Nat /\ rule \in 0..Len(RULES)
  BY MemoryAssumption DEF LoopInv
<1>2. ASSUME NEW gap, NEW moment \in Moments \cup {None}, BeginTurn(gap, moment) PROVE LoopInv'
  BY <1>1, <1>2 DEF BeginTurn, LoopInv
<1>3. CASE CheckCapture
  <2>1. pc = "check_capture" /\ pc' \in {"capture", "consolidate"} /\ UNCHANGED <<event, rule, rows>>
    BY <1>3 DEF CheckCapture, store
  <2> QED BY <2>1 DEF LoopInv, has_summary
<1>4. CASE capture
  BY <1>4 DEF capture, LoopInv
<1>5. CASE LookForFact
  <2>1. pc = "consolidate" /\ UNCHANGED <<event, rows>>
    BY <1>5 DEF LookForFact, store
  <2>2. CASE rule = Len(RULES)
    BY <1>5, <2>1, <2>2 DEF LookForFact, LoopInv
  <2>3. CASE rule # Len(RULES) /\ has_summary(RULES[rule + 1].fact)
    <3>1. rule' = rule + 1 /\ pc' = "consolidate"
      BY <1>5, <2>3 DEF LookForFact
    <3>2. rule' \in 0..Len(RULES)
      BY <1>1, <2>3, <3>1
    <3> QED BY <2>1, <3>1, <3>2 DEF LoopInv
  <2>4. CASE rule # Len(RULES) /\ ~has_summary(RULES[rule + 1].fact)
    <3>1. rule' = rule + 1 /\ pc' = "count"
      BY <1>5, <2>4 DEF LookForFact
    <3>2. rule' \in 0..Len(RULES) /\ rule' # 0
      BY <1>1, <2>4, <3>1
    <3>3. ~has_summary(RULES[rule].fact)'
      BY <2>1, <2>4, <3>1 DEF has_summary
    <3> QED BY <2>1, <3>1, <3>2, <3>3 DEF LoopInv
  <2> QED BY <2>2, <2>3, <2>4
<1>6. CASE CountSupport
  <2>1. pc = "count" /\ pc' \in {"check_capture", "consolidate"} /\ UNCHANGED <<event, rule, rows>>
    BY <1>6 DEF CountSupport, store
  <2> QED BY <2>1 DEF LoopInv, has_summary
<1>7. CASE CallBack \/ NoSurprise \/ retrieve \/ LoopSaves \/ save_body
  <2>1. pc' \in {"retrieve", "check_affect", "save_affect", "check_body", "save_body", "wait"}
    BY <1>7 DEF CallBack, NoSurprise, retrieve, LoopSaves, CheckSave, save_affect, save_body
  <2>2. UNCHANGED <<event, rule>>
    BY <1>7 DEF CallBack, NoSurprise, retrieve, LoopSaves, CheckSave, save_affect, save_body
  <2> QED BY <2>1, <2>2 DEF LoopInv
<1>8. CASE Restart
  BY <1>1, <1>8 DEF Restart, LoopInv
<1>9. CASE UNCHANGED <<pc, event, rule>> /\ rows' \subseteq rows
  BY <1>9 DEF LoopInv, has_summary
<1>10. OwnerStep \/ UNCHANGED vars => UNCHANGED <<pc, event, rule>> /\ rows' \subseteq rows
  BY DEF OwnerStep, Inspect, forget, forget_by, Forget, reset, set_writes_enabled, vars, store
<1> QED BY <1>2, <1>3, <1>4, <1>5, <1>6, <1>7, <1>8, <1>9, <1>10 DEF Next, LoopStep

\* A fact stored by a step is the only row with its summary.
LEMMA FactIdsStep == RowsInv /\ LoopInv /\ FactIds /\ RowsStep => FactIds'
<1> SUFFICES ASSUME RowsInv, LoopInv, FactIds, RowsStep PROVE FactIds'
  OBVIOUS
<1>1. CASE Kept /\ next_id' = next_id
  BY <1>1 DEF FactIds, Kept, SameRow
<1>2. ASSUME pc = "capture",
             \A s \in rows' : s \in rows \/ IsNew(s, Captured)
      PROVE  FactIds'
  <2>1. Captured \in Facts => \A r \in rows : r.summary # Captured
    BY <1>2, MemoryAssumption DEF LoopInv, Captured, has_summary
  <2> QED BY <1>2, <2>1 DEF FactIds, IsNew
<1> QED BY <1>1, <1>2 DEF RowsStep

\* A consolidated fact is there at most once, however often its support is found
\* and whatever the owner does between the steps of consolidate_memory.
THEOREM FactOnceHolds == Spec => []FactOnce
<1> DEFINE Inv == RowsInv /\ LoopInv /\ FactIds
<1>1. Init => Inv
  BY MemoryAssumption DEF Init, RowsInv, LoopInv, FactIds
<1>2. Inv /\ [Next]_vars => Inv'
  BY RowsAreKept, LoopStepInv, FactIdsStep
<1>3. Inv => FactOnce
  BY DEF RowsInv, FactIds, FactOnce
<1> HIDE DEF Inv
<1> QED BY <1>1, <1>2, <1>3, PTL DEF Spec

\* What has been observed of what a rule asks for.
Evidence(i) ==
    {o \in observed : /\ RULES[i].source \in {None, Source(o)}
                      /\ RULES[i].tag \in Tags(o)}

\* Every moment stored has been observed, and a fact is there, or is about to be
\* captured, when there is evidence of it.
ObservedInv ==
    /\ IsFiniteSet(observed)
    /\ \A r \in rows : /\ r.summary \in Moments \cup Facts
                       /\ r.summary \in Moments => [id |-> r.id, summary |-> r.summary] \in observed
    /\ pc \in {"check_capture", "capture"} /\ rule # 0 =>
          Cardinality(Evidence(rule)) >= RULES[rule].threshold
    /\ FactsAreObserved

\* Every row that supports a fact that is not there is a moment that was observed.
LEMMA SupportIsObserved ==
    ASSUME RowsInv, ObservedInv, NEW i \in DOMAIN RULES,
           ~has_summary(RULES[i].fact), Supported(RULES[i])
    PROVE  Cardinality(Evidence(i)) >= RULES[i].threshold
<1> DEFINE support == {r \in rows : /\ RULES[i].source \in {None, Source(r)}
                                    /\ RULES[i].tag \in Tags(r)}
           seen == [r \in support |-> [id |-> r.id, summary |-> r.summary]]
<1>1. IsFiniteSet(Evidence(i))
  BY FS_Subset DEF Evidence, ObservedInv
<1>2. ASSUME NEW r \in support PROVE r.summary \in Moments
  <2>1. r.summary \in Moments \cup Facts /\ r.summary # RULES[i].fact
    BY <1>2 DEF ObservedInv, has_summary
  <2>2. ASSUME NEW j \in DOMAIN RULES, r.summary = RULES[j].fact PROVE FALSE
    BY <1>2, <2>1, <2>2, RulesAssumption DEF Source, Tags
  <2> QED BY <2>1, <2>2 DEF Facts
<1>3. ASSUME NEW r \in support PROVE seen[r] \in Evidence(i)
  BY <1>2, <1>3 DEF Evidence, ObservedInv, Source, Tags
<1>4. ASSUME NEW r \in support, NEW s \in support, seen[r] = seen[s] PROVE r = s
  <2>1. seen[r].id = r.id /\ seen[s].id = s.id
    OBVIOUS
  <2> QED BY <1>4, <2>1 DEF RowsInv
<1>5. seen \in Injection(support, Evidence(i))
  BY <1>3, <1>4 DEF Injection, IsInjective
<1>6. Cardinality(support) <= Cardinality(Evidence(i)) /\ IsFiniteSet(support)
  BY <1>1, <1>5, FS_Injection
<1>7. Cardinality(support) >= RULES[i].threshold
  BY DEF Supported, count_by
<1> HIDE DEF support
<1>8. Cardinality(support) \in Nat /\ Cardinality(Evidence(i)) \in Nat /\ RULES[i].threshold \in Nat
  BY <1>1, <1>6, FS_CardinalityType, MemoryAssumption
<1> QED BY <1>6, <1>7, <1>8

\* Evidence is not forgotten: what the owner forgets has been observed all the same.
LEMMA EvidenceGrows ==
    ASSUME IsFiniteSet(observed'), observed \subseteq observed', NEW i \in DOMAIN RULES,
           Cardinality(Evidence(i)) >= RULES[i].threshold
    PROVE  Cardinality(Evidence(i)') >= RULES[i].threshold
<1>1. Evidence(i) \subseteq Evidence(i)' /\ Evidence(i)' \subseteq observed'
  BY DEF Evidence, Source, Tags
<1>2. IsFiniteSet(Evidence(i)')
  BY <1>1, FS_Subset
<1>3. IsFiniteSet(Evidence(i)) /\ Cardinality(Evidence(i)) <= Cardinality(Evidence(i)')
  BY <1>1, <1>2, FS_Subset
<1>4. /\ Cardinality(Evidence(i)) \in Nat /\ Cardinality(Evidence(i)') \in Nat
      /\ RULES[i].threshold \in Nat
  BY <1>2, <1>3, FS_CardinalityType, MemoryAssumption
<1> QED BY <1>3, <1>4

\* What is stored by capture is observed, if it is a moment; nothing else is.
LEMMA ObservedGrows ==
    ASSUME ObservedInv, [Next]_vars
    PROVE  /\ observed \subseteq observed' /\ IsFiniteSet(observed')
           /\ pc = "capture" /\ next_id' # next_id /\ Captured \in Moments =>
                 [id |-> next_id, summary |-> Captured] \in observed'
<1>1. CASE capture
  <2>1. ASSUME NEW r, _bump_existing(r) PROVE observed' = observed /\ next_id' = next_id
    BY <2>1 DEF _bump_existing
  <2>2. CASE UNCHANGED <<observed, next_id>>
    BY <2>2 DEF ObservedInv
  <2>3. CASE Insert(Captured)
    <3>1. observed' = (IF Captured \in Moments
                       THEN observed \cup {[id |-> next_id, summary |-> Captured]} ELSE observed)
      BY <2>3 DEF Insert, NewId
    <3>2. IsFiniteSet(observed \cup {[id |-> next_id, summary |-> Captured]})
      BY FS_AddElement DEF ObservedInv
    <3> QED BY <3>1, <3>2 DEF ObservedInv
  <2> QED BY <1>1, <2>1, <2>2, <2>3 DEF capture, StoreMoment
<1>2. CASE observed' = observed /\ (pc # "capture" \/ next_id' = next_id)
  BY <1>2 DEF ObservedInv
<1>3. CASE OwnerStep \/ Restart \/ UNCHANGED vars
  <2>1. UNCHANGED <<observed, next_id>>
    BY <1>3 DEF OwnerStep, Inspect, forget, forget_by, Forget, reset, set_writes_enabled, Restart,
       vars, store
  <2> QED BY <1>2, <2>1
<1>4. ASSUME NEW gap, NEW moment, BeginTurn(gap, moment) PROVE observed' = observed /\ pc # "capture"
  BY <1>4 DEF BeginTurn
<1>5. CASE CheckCapture \/ LookForFact \/ CountSupport \/ CallBack \/ NoSurprise \/ retrieve
           \/ LoopSaves \/ save_body
  <2>1. observed' = observed /\ pc # "capture"
    BY <1>5 DEF CheckCapture, LookForFact, CountSupport, CallBack, NoSurprise, retrieve,
       LoopSaves, CheckSave, save_affect, save_body
  <2> QED BY <1>2, <2>1
<1> QED BY <1>1, <1>2, <1>3, <1>4, <1>5 DEF Next, LoopStep

\* The loop is about to capture a fact only when it has counted its support.
LEMMA CapturesTheSupported ==
    ASSUME RowsInv, LoopInv, ObservedInv, [Next]_vars,
           pc' \in {"check_capture", "capture"}, rule' # 0
    PROVE  /\ rule' \in DOMAIN RULES
           /\ Cardinality(Evidence(rule')) >= RULES[rule'].threshold
<1>1. Len(RULES) \in Nat /\ DOMAIN RULES = 1..Len(RULES) /\ rule \in 0..Len(RULES)
  BY MemoryAssumption DEF LoopInv
<1>2. CASE rule' = rule /\ pc \in {"check_capture", "capture"}
  <2>1. rule # 0 /\ rule \in DOMAIN RULES
    BY <1>1, <1>2
  <2> QED BY <1>2, <2>1 DEF ObservedInv
<1>3. CASE CountSupport
  <2>1. pc = "count" /\ rule' = rule /\ Supported(RULES[rule])
    BY <1>3 DEF CountSupport
  <2>2. rule \in DOMAIN RULES /\ ~has_summary(RULES[rule].fact)
    BY <1>1, <2>1 DEF LoopInv
  <2> QED BY <2>1, <2>2, SupportIsObserved
<1>4. CASE CheckCapture
  BY <1>2, <1>4 DEF CheckCapture
<1>5. CASE LookForFact
  BY <1>5 DEF LookForFact
<1>6. CASE OwnerStep \/ UNCHANGED vars
  <2>1. UNCHANGED <<pc, rule>>
    BY <1>6 DEF OwnerStep, Inspect, forget, forget_by, Forget, reset, set_writes_enabled, vars
  <2> QED BY <1>2, <2>1
<1>7. CASE capture \/ CallBack \/ NoSurprise \/ retrieve \/ LoopSaves \/ save_body \/ Restart
  BY <1>7 DEF capture, CallBack, NoSurprise, retrieve, LoopSaves, CheckSave, save_affect,
     save_body, Restart
<1>8. ASSUME NEW gap, NEW moment, BeginTurn(gap, moment) PROVE rule' = 0
  BY <1>8 DEF BeginTurn
<1> QED BY <1>2, <1>3, <1>4, <1>5, <1>6, <1>7, <1>8 DEF Next, LoopStep

\* Rows are kept as observed, and a fact is stored with its evidence.
LEMMA ObservedStep ==
    RowsInv /\ LoopInv /\ ObservedInv /\ RowsStep /\ [Next]_vars => ObservedInv'
<1> SUFFICES ASSUME RowsInv, LoopInv, ObservedInv, RowsStep, [Next]_vars PROVE ObservedInv'
  OBVIOUS
<1>1. observed \subseteq observed' /\ IsFiniteSet(observed')
  BY ObservedGrows
<1>2. ASSUME pc' \in {"check_capture", "capture"}, rule' # 0
      PROVE  Cardinality(Evidence(rule)') >= RULES[rule'].threshold
  <2> DEFINE i == rule'
  <2>1. i \in DOMAIN RULES /\ Cardinality(Evidence(i)) >= RULES[i].threshold
    BY <1>2, CapturesTheSupported
  <2>2. Evidence(rule)' = {o \in observed' : /\ RULES[i].source \in {None, Source(o)}
                                             /\ RULES[i].tag \in Tags(o)}
    BY DEF Evidence, Source, Tags
  <2>3. Evidence(i) \subseteq Evidence(rule)' /\ Evidence(rule)' \subseteq observed'
    BY <1>1, <2>2 DEF Evidence, Source, Tags
  <2>4. IsFiniteSet(Evidence(rule)')
    BY <1>1, <2>3, FS_Subset
  <2>5. IsFiniteSet(Evidence(i)) /\ Cardinality(Evidence(i)) <= Cardinality(Evidence(rule)')
    BY <2>3, <2>4, FS_Subset
  <2>6. /\ Cardinality(Evidence(i)) \in Nat /\ Cardinality(Evidence(rule)') \in Nat
        /\ RULES[i].threshold \in Nat
    BY <2>1, <2>4, <2>5, FS_CardinalityType, MemoryAssumption
  <2> QED BY <2>1, <2>5, <2>6
<1>3. CASE Kept /\ next_id' = next_id
  <2>1. ASSUME NEW s \in rows'
        PROVE  /\ s.summary \in Moments \cup Facts
               /\ s.summary \in Moments => [id |-> s.id, summary |-> s.summary] \in observed'
    <3>1. PICK r \in rows : SameRow(s, r)
      BY <1>3, <2>1 DEF Kept
    <3> QED BY <1>1, <3>1 DEF ObservedInv, SameRow
  <2>2. ASSUME NEW i \in DOMAIN RULES, has_summary(RULES[i].fact)'
        PROVE  Cardinality(Evidence(i)') >= RULES[i].threshold
    <3>1. has_summary(RULES[i].fact)
      BY <1>3, <2>2 DEF Kept, SameRow, has_summary
    <3>2. Cardinality(Evidence(i)) >= RULES[i].threshold
      BY <3>1 DEF ObservedInv, FactsAreObserved, Evidence
    <3> QED BY <1>1, <3>2, EvidenceGrows
  <2> QED BY <1>1, <1>2, <2>1, <2>2 DEF ObservedInv, FactsAreObserved, Evidence
<1>4. ASSUME pc = "capture", next_id' = next_id + 1,
             \A s \in rows' : s \in rows \/ IsNew(s, Captured)
      PROVE  ObservedInv'
  <2>1. /\ Captured \in Moments \cup Facts
        /\ Captured \in Facts => rule \in DOMAIN RULES /\ rule # 0 /\ Captured = RULES[rule].fact
    <3>1. Len(RULES) \in Nat /\ DOMAIN RULES = 1..Len(RULES) /\ rule \in 0..Len(RULES)
      BY MemoryAssumption DEF LoopInv
    <3>2. CASE rule = 0
      BY <1>4, <3>2, MemoryAssumption DEF LoopInv, Captured
    <3>3. CASE rule # 0
      <4>1. rule \in DOMAIN RULES
        BY <3>1, <3>3
      <4> QED BY <3>3, <4>1 DEF Captured, Facts
    <3> QED BY <3>2, <3>3
  <2>2. ASSUME NEW s \in rows'
        PROVE  /\ s.summary \in Moments \cup Facts
               /\ s.summary \in Moments => [id |-> s.id, summary |-> s.summary] \in observed'
    <3>1. CASE s \in rows
      BY <1>1, <3>1 DEF ObservedInv
    <3>2. CASE IsNew(s, Captured)
      <4>1. next_id' # next_id
        BY <1>4 DEF RowsInv
      <4> QED BY <1>4, <2>1, <3>2, <4>1, ObservedGrows DEF IsNew
    <3> QED BY <1>4, <3>1, <3>2
  <2>3. ASSUME NEW i \in DOMAIN RULES, has_summary(RULES[i].fact)'
        PROVE  Cardinality(Evidence(i)') >= RULES[i].threshold
    <3>1. Cardinality(Evidence(i)) >= RULES[i].threshold
      <4>1. PICK s \in rows' : s.summary = RULES[i].fact
        BY <2>3 DEF has_summary
      <4>2. CASE s \in rows
        BY <4>1, <4>2 DEF ObservedInv, FactsAreObserved, Evidence, has_summary
      <4>3. CASE IsNew(s, Captured)
        <5>1. Captured \in Facts /\ Captured = RULES[i].fact
          BY <4>1, <4>3 DEF IsNew, Facts
        <5>2. rule = i
          BY <2>1, <5>1, RulesAssumption
        <5> QED BY <1>4, <2>1, <5>1, <5>2 DEF ObservedInv
      <4> QED BY <1>4, <4>2, <4>3
    <3> QED BY <1>1, <3>1, EvidenceGrows
  <2> QED BY <1>1, <1>2, <2>2, <2>3 DEF ObservedInv, FactsAreObserved, Evidence
<1> QED BY <1>3, <1>4 DEF RowsStep

\* Shiro believes nothing of the owner that it has not observed as often as the
\* rule asks, facts being no evidence.
THEOREM FactsHaveEvidence == Spec => []FactsAreObserved
<1> DEFINE Inv == RowsInv /\ LoopInv /\ ObservedInv
<1>1. Init => Inv
  BY MemoryAssumption, FS_EmptySet
  DEF Init, RowsInv, LoopInv, ObservedInv, FactsAreObserved, has_summary
<1>2. Inv /\ [Next]_vars => Inv'
  BY RowsAreKept, LoopStepInv, ObservedStep
<1>3. Inv => FactsAreObserved
  BY DEF ObservedInv
<1> HIDE DEF Inv
<1> QED BY <1>1, <1>2, <1>3, PTL DEF Spec

-----------------------------------------------------------------------------
(***************************************************************************)
(* Resets.                                                                 *)
(***************************************************************************)
Stale(r) == r.epoch < epoch

\* What the loop has in hand may be older than a reset only as long as no row is.
ResetInv ==
    /\ epoch \in Nat /\ known_in \in Nat /\ known_in <= epoch
    /\ \A r \in rows : r.epoch \in Nat
    /\ \A r, s \in rows : Stale(r) /\ Stale(s) => r.id = s.id
    /\ pc \in {"check_capture", "capture"} /\ known_in < epoch => \A r \in rows : ~Stale(r)

\* A row of an earlier epoch can only be the one the loop had in hand.
LEMMA ResetStep == RowsInv /\ ResetInv /\ RowsStep /\ [Next]_vars => ResetInv'
<1> SUFFICES ASSUME RowsInv, ResetInv, RowsStep, [Next]_vars PROVE ResetInv'
  OBVIOUS
<1>1. ASSUME Kept, UNCHANGED epoch, known_in' \in {known_in, epoch},
             pc' \in {"check_capture", "capture"}
                => known_in' = epoch \/ (pc \in {"check_capture", "capture"} /\ UNCHANGED known_in)
      PROVE  ResetInv'
  BY <1>1 DEF ResetInv, Kept, SameRow, Stale
<1>2. ASSUME NEW gap, NEW moment, BeginTurn(gap, moment) PROVE ResetInv'
  <2>1. known_in' = epoch /\ UNCHANGED <<rows, next_id, epoch>>
    BY <1>2 DEF BeginTurn, store, owner
  <2> QED BY <2>1, <1>1, ForgettingKeepsRows
<1>3. CASE CheckCapture
  <2>1. pc = "check_capture" /\ UNCHANGED <<rows, next_id, epoch, known_in>>
    BY <1>3 DEF CheckCapture, store, owner
  <2> QED BY <2>1, <1>1, ForgettingKeepsRows
<1>4. CASE capture
  <2>1. pc = "capture" /\ pc' = "consolidate" /\ UNCHANGED <<epoch, known_in>>
    BY <1>4 DEF capture, owner
  <2>2. CASE Kept
    BY <2>1, <2>2, <1>1
  <2>3. CASE \A s \in rows' : s \in rows \/ IsNew(s, Captured)
    BY <2>1, <2>3 DEF ResetInv, IsNew, Stale
  <2> QED BY <2>2, <2>3 DEF RowsStep
<1>5. CASE CountSupport
  <2>1. known_in' = epoch /\ UNCHANGED <<rows, next_id, epoch>>
    BY <1>5 DEF CountSupport, store, owner
  <2> QED BY <2>1, <1>1, ForgettingKeepsRows
<1>6. CASE LookForFact \/ CallBack \/ NoSurprise \/ retrieve \/ LoopSaves \/ save_body
           \/ Restart
  <2>1. /\ pc # "capture" \/ Restart
        /\ pc' \notin {"check_capture", "capture"}
    BY <1>6 DEF LookForFact, CallBack, NoSurprise, retrieve, LoopSaves, CheckSave,
                save_affect, save_body, Restart
  <2>2. UNCHANGED <<epoch, known_in>>
    BY <1>6 DEF LookForFact, CallBack, NoSurprise, retrieve, LoopSaves, CheckSave,
                save_affect, save_body, Restart, owner
  <2>3. Kept
    <3>1. CASE Restart
      BY <3>1, ForgettingKeepsRows DEF Restart
    <3> QED BY <2>1, <3>1 DEF RowsStep
  <2> QED BY <2>1, <2>2, <2>3, <1>1
<1>7. CASE reset
  <2>1. rows' = {} /\ epoch' = epoch + 1 /\ UNCHANGED known_in
    BY <1>7 DEF reset
  <2> QED BY <2>1 DEF ResetInv
<1>8. CASE rows' \subseteq rows /\ UNCHANGED <<next_id, epoch, known_in, pc>>
  BY <1>8, <1>1, ForgettingKeepsRows
<1>9. ASSUME NEW S, Forget(S) PROVE ResetInv'
  BY <1>8, <1>9 DEF Forget
<1>10. ASSUME NEW r, Inspect(r) PROVE ResetInv'
  BY <1>8, <1>10 DEF Inspect, store
<1>11. ASSUME NEW enabled, set_writes_enabled(enabled) PROVE ResetInv'
  BY <1>8, <1>11 DEF set_writes_enabled
<1>12. CASE UNCHANGED vars
  BY <1>8, <1>12 DEF vars, store, owner
<1> QED BY <1>2, <1>3, <1>4, <1>5, <1>6, <1>7, <1>9, <1>10, <1>11, <1>12
        DEF Next, LoopStep, OwnerStep, forget, forget_by

\* After POST /memory/reset at most one memory of what was before comes back, the
\* one the loop had in hand, however many requests and restarts there are.
THEOREM ResetWipesHolds == Spec => []ResetWipes
<1>1. Init => RowsInv /\ ResetInv
  BY DEF Init, RowsInv, ResetInv
<1>2. RowsInv /\ ResetInv /\ [Next]_vars => (RowsInv /\ ResetInv)'
  BY RowsAreKept, ResetStep
<1>3. RowsInv /\ ResetInv => ResetWipes
  <2> SUFFICES ASSUME RowsInv, ResetInv PROVE ResetWipes
    OBVIOUS
  <2> DEFINE stale == {r \in rows : r.epoch < epoch}
  <2>1. \A r, s \in stale : r = s
    BY DEF RowsInv, ResetInv, Stale
  <2>2. stale = {} \/ \E r : stale = {r}
    BY <2>1
  <2>3. Cardinality(stale) \in {0, 1}
    BY <2>2, FS_EmptySet, FS_Singleton
  <2> QED BY <2>3 DEF ResetWipes
<1> QED BY <1>1, <1>2, <1>3, PTL DEF Spec

=============================================================================
