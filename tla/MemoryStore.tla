----------------------------- MODULE MemoryStore ----------------------------
(***************************************************************************)
(* What Shiro remembers: MemoryStore (host/memory.py) between the turns of *)
(* the pet loop (host/pet_loop.py), with the consolidation of facts        *)
(* (host/reflection.py), and the owner's /memory requests                  *)
(* (host/control.py).                                                      *)
(*                                                                         *)
(* The store's lock makes each call, and no more than a call, atomic; two  *)
(* calls of the loop, and the look at _writes_enabled before most writes,  *)
(* are steps of their own.  A summary stands for itself: moments are the   *)
(* texts worth keeping that events leave, facts those of the rules.        *)
(* Importance is exact, in hundredths.  Times are in units of Gaps.        *)
(***************************************************************************)
EXTENDS Integers, Sequences, FiniteSets

CONSTANTS
    None,
    Moments,            \* summaries of events
    Signal,             \* [moment or fact |-> what is captured with it]
    RULES,              \* sequence of [fact, source, tag, threshold]
    Within,             \* <<token, tag>>: the token is part of the tag
    IMPORTANCE_THRESHOLD, RECALL_BUMP, MaxImportance,
    DEDUPE_WINDOW, RECALL_COOLDOWN, CALLBACK_MIN_AGE, CALLBACK_MIN, RETRIEVE_LIMIT,
    Gaps,               \* times between two turns
    Filters,            \* what the owner may ask forget_by for
    MaxNow, MaxTurns, MaxInterventions      \* bounds

Facts == {RULES[i].fact : i \in DOMAIN RULES}

ASSUME MemoryAssumption ==
    /\ Moments \cap Facts = {} /\ None \notin Moments \cup Facts \cup Nat
    /\ \A m \in Moments \cup Facts :
          /\ Signal[m].valence \in -100..100 /\ Signal[m].intensity \in 0..100
          /\ Signal[m].owner_initiated \in BOOLEAN /\ Signal[m].alert \in BOOLEAN
    /\ Len(RULES) \in Nat /\ DOMAIN RULES = 1..Len(RULES)
    /\ \A i \in DOMAIN RULES : RULES[i].threshold \in Nat \ {0, 1}
    /\ \A c \in {IMPORTANCE_THRESHOLD, RECALL_BUMP, MaxImportance, DEDUPE_WINDOW, RECALL_COOLDOWN,
                 CALLBACK_MIN_AGE, CALLBACK_MIN, RETRIEVE_LIMIT} : c \in Nat \ {0}
    /\ \A c \in {MaxNow, MaxTurns, MaxInterventions} : c \in Nat
    /\ Gaps \subseteq Nat
    /\ IMPORTANCE_THRESHOLD <= MaxImportance

\* Each rule has a fact of its own, which no other rule counts as support.
ASSUME RulesAssumption ==
    \A i, j \in DOMAIN RULES : i # j =>
        /\ RULES[i].fact # RULES[j].fact
        /\ \/ RULES[i].source \notin {None, Signal[RULES[j].fact].source}
           \/ RULES[i].tag \notin Signal[RULES[j].fact].tags

VARIABLES
    now,
    rows, next_id,                          \* the memories table
    affect_json, body_json,                 \* the pet_state row
    _writes_enabled,
    pc, event, rule,                        \* where the loop is in its turn
    relationship,                           \* the loop's own affect and body
    last_callback_at                        \* PetState

\* History.  An epoch ends with a reset: a row carries the epoch in which the
\* loop knew what it says, a relationship the epochs whose turns shaped it.
VARIABLES
    epoch, known_in,        \* the present one, that of what is being captured
    observed,               \* [id, summary] of every moment ever stored
    shown,                  \* [id, summary] the owner has seen in GET /memory
    late_writes,            \* writes of the loop since writes were switched off
    turns, interventions    \* counters for the bounds

store == <<rows, next_id, affect_json, body_json, _writes_enabled>>
pet_state == <<relationship, last_callback_at>>
owner == <<epoch, shown>>
vars == <<now, store, pc, event, rule, pet_state, owner, known_in, observed,
          late_writes, turns, interventions>>

\* The owner's requests that change something, and restarts, are bounded together.
Intervenes == interventions < MaxInterventions /\ interventions' = interventions + 1

Ids == {r.id : r \in rows}
Tags(r) == Signal[r.summary].tags
Source(r) == Signal[r.summary].source

-----------------------------------------------------------------------------
(***************************************************************************)
(* MemoryStore, a call at a time.                                          *)
(***************************************************************************)
\* Importance of a new row, by the rows its source has already.
_score(summary) ==
    LET s == Signal[summary]
        magnitude == IF s.valence < 0 THEN -s.valence ELSE s.valence
        repetition == Cardinality({r \in rows : Source(r) = s.source})
        boost == IF repetition > 10 THEN 1000 ELSE 100 * repetition
        score == 35 * magnitude + (IF s.owner_initiated THEN 2000 ELSE 0)
                 + (IF s.alert THEN 2000 ELSE 0) + 1500 + 10 * s.intensity + boost
    IN  IF score > MaxImportance THEN MaxImportance ELSE score

Bumped(r) ==
    [r EXCEPT !.importance = IF @ + RECALL_BUMP > MaxImportance THEN MaxImportance ELSE @ + RECALL_BUMP,
              !.last_recalled = now, !.recalled = TRUE]

\* _find_recent_duplicate: source and summary say the same.
Duplicates(summary) == {r \in rows : r.summary = summary /\ r.created_at >= now - DEDUPE_WINDOW}

\* Mutant of NewId: the ids of forgotten rows are used again.
NewId_reused == IF rows = {} THEN 1 ELSE (CHOOSE i \in Ids : \A j \in Ids : j <= i) + 1

\* AUTOINCREMENT: an id is never used twice.
NewId == next_id

Insert(summary) ==
    /\ rows' = rows \cup {[id |-> NewId, summary |-> summary, created_at |-> now,
                           importance |-> _score(summary), last_recalled |-> now,
                           recalled |-> FALSE, epoch |-> known_in]}
    /\ next_id' = next_id + 1
    /\ observed' = IF summary \in Moments THEN observed \cup {[id |-> NewId, summary |-> summary]}
                   ELSE observed

_bump_existing(r) ==
    /\ rows' = (rows \ {r}) \cup {Bumped(r)}
    /\ UNCHANGED <<next_id, observed>>

\* A write of the loop that goes through.
Written == late_writes' = IF _writes_enabled THEN late_writes ELSE late_writes + 1

\* capture, under the lock: a repetition bumps the row there is, anything else
\* is stored if it is salient enough.
StoreMoment(summary) ==
    \/ \E r \in Duplicates(summary) :
          /\ \A d \in Duplicates(summary) : d.created_at <= r.created_at
          /\ _bump_existing(r) /\ Written
    \/ /\ Duplicates(summary) = {} /\ _score(summary) >= IMPORTANCE_THRESHOLD
       /\ Insert(summary) /\ Written
    \/ /\ Duplicates(summary) = {} /\ _score(summary) < IMPORTANCE_THRESHOLD
       /\ UNCHANGED <<rows, next_id, observed, late_writes>>

Recallable(r) == ~r.recalled \/ now - r.last_recalled >= RECALL_COOLDOWN

\* _mark_recalled, which looks at the switch under the lock.
_mark_recalled(S) ==
    LET R == IF _writes_enabled THEN {r \in S : Recallable(r)} ELSE {} IN
    rows' = (rows \ R) \cup {Bumped(r) : r \in R}

count_by(source, tag) ==
    Cardinality({r \in rows : /\ source \in {None, Source(r)}
                              /\ tag \in Tags(r)})

\* Mutant of has_summary: facts are looked for under the wrong kind.
has_summary_wrong_kind(fact) == FALSE

has_summary(fact) == \E r \in rows : r.summary = fact

-----------------------------------------------------------------------------
(***************************************************************************)
(* A turn of the loop.                                                     *)
(***************************************************************************)
\* An event arrives; it may be one that leaves nothing to remember.
BeginTurn(gap, moment) ==
    /\ pc = "wait" /\ turns < MaxTurns
    /\ now' = now + gap
    /\ event' = moment
    /\ known_in' = epoch
    /\ relationship' = relationship \cup {epoch}
    /\ turns' = turns + 1 /\ UNCHANGED interventions
    /\ rule' = 0
    /\ pc' = IF moment = None THEN "consolidate" ELSE "check_capture"
    /\ UNCHANGED <<store, last_callback_at, owner, observed, late_writes>>

\* What capture is called with: the event, or the fact of the current rule.
Captured == IF rule = 0 THEN event ELSE RULES[rule].fact

\* The switch is read before the lock is taken.
CheckCapture ==
    /\ pc = "check_capture"
    /\ pc' = IF _writes_enabled THEN "capture" ELSE "consolidate"
    /\ UNCHANGED <<now, store, event, rule, pet_state, owner, known_in, observed,
                   late_writes, turns, interventions>>

capture ==
    /\ pc = "capture"
    /\ StoreMoment(Captured)
    /\ pc' = "consolidate"
    /\ UNCHANGED <<now, affect_json, body_json, _writes_enabled, event, rule, pet_state, owner,
                   known_in, turns, interventions>>

\* consolidate_memory goes on to the next rule and asks for its fact.
LookForFact ==
    /\ pc = "consolidate"
    /\ IF rule = Len(RULES)
       THEN pc' = "surprise" /\ UNCHANGED rule
       ELSE /\ rule' = rule + 1
            /\ pc' = IF has_summary(RULES[rule + 1].fact) THEN "consolidate" ELSE "count"
    /\ UNCHANGED <<now, store, event, pet_state, owner, known_in, observed, late_writes, turns, interventions>>

\* Mutant of Supported: one memory less is enough.
Supported_early(r) == count_by(r.source, r.tag) >= r.threshold - 1

Supported(r) == count_by(r.source, r.tag) >= r.threshold

CountSupport ==
    /\ pc = "count"
    /\ known_in' = epoch
    /\ pc' = IF Supported(RULES[rule]) THEN "check_capture" ELSE "consolidate"
    /\ UNCHANGED <<now, store, event, rule, pet_state, owner, observed, late_writes, turns, interventions>>

IsIdle == event # None => Signal[event].source = "idle"

\* spontaneous_callback: the strongest of the old memories, facts about the
\* owner included, associations of Shiro's not.
CallBack ==
    LET old == {r \in rows : /\ r.created_at <= now - CALLBACK_MIN_AGE
                             /\ Signal[r.summary].kind \in {"episodic", "semantic"}}
        due == now - last_callback_at >= CALLBACK_MIN
    IN  /\ pc = "surprise" /\ IsIdle
        /\ \/ /\ due
              /\ \E r \in old : /\ \A o \in old : o.importance <= r.importance
                                /\ _mark_recalled({r})
              /\ last_callback_at' = now
           \/ /\ ~due \/ old = {}
              /\ UNCHANGED <<rows, last_callback_at>>
        /\ pc' = "retrieve"
        /\ UNCHANGED <<now, next_id, affect_json, body_json, _writes_enabled, event, rule,
                       relationship, owner, known_in, observed, late_writes, turns, interventions>>

NoSurprise ==
    /\ pc = "surprise" /\ ~IsIdle
    /\ pc' = "retrieve"
    /\ UNCHANGED <<now, store, event, rule, pet_state, owner, known_in, observed,
                   late_writes, turns, interventions>>

\* The memories that fit the situation best, as many as are asked for.
retrieve ==
    LET found == IF Cardinality(rows) < RETRIEVE_LIMIT THEN Cardinality(rows) ELSE RETRIEVE_LIMIT IN
    /\ pc = "retrieve"
    /\ \E S \in SUBSET rows : Cardinality(S) = found /\ _mark_recalled(S)
    /\ pc' = "check_affect"
    /\ UNCHANGED <<now, next_id, affect_json, body_json, _writes_enabled, event, rule, pet_state,
                   owner, known_in, observed, late_writes, turns, interventions>>

CheckSave(check, save, next) ==
    /\ pc = check
    /\ pc' = IF _writes_enabled THEN save ELSE next
    /\ UNCHANGED <<now, store, event, rule, pet_state, owner, known_in, observed,
                   late_writes, turns, interventions>>

save_affect ==
    /\ pc = "save_affect"
    /\ affect_json' = relationship
    /\ Written
    /\ pc' = "check_body"
    /\ UNCHANGED <<now, rows, next_id, body_json, _writes_enabled, event, rule, pet_state, owner,
                   known_in, observed, turns, interventions>>

\* Mutant of LoopSaves: save_body trusts the look of save_affect.
LoopSaves_body_unchecked ==
    \/ CheckSave("check_affect", "save_affect", "wait")
    \/ save_affect
    \/ /\ pc = "check_body"
       /\ pc' = "save_body"
       /\ UNCHANGED <<now, store, event, rule, pet_state, owner, known_in, observed,
                      late_writes, turns, interventions>>

LoopSaves ==
    \/ CheckSave("check_affect", "save_affect", "check_body")
    \/ save_affect
    \/ CheckSave("check_body", "save_body", "wait")

save_body ==
    /\ pc = "save_body"
    /\ body_json' = relationship
    /\ Written
    /\ pc' = "wait"
    /\ UNCHANGED <<now, rows, next_id, affect_json, _writes_enabled, event, rule, pet_state, owner,
                   known_in, observed, turns, interventions>>

\* The process stops and another one opens the store; _restore_persistent_state.
Restart ==
    /\ Intervenes
    /\ relationship' = affect_json \cup body_json
    /\ last_callback_at' = 0
    /\ _writes_enabled' = TRUE /\ late_writes' = 0
    /\ pc' = "wait" /\ event' = None /\ rule' = 0
    /\ UNCHANGED <<now, rows, next_id, affect_json, body_json, owner, known_in, observed, turns>>

-----------------------------------------------------------------------------
(***************************************************************************)
(* The owner's requests, each on a thread of its own.                      *)
(***************************************************************************)
\* GET /memory
Inspect(r) ==
    /\ shown = None                         \* once is enough
    /\ shown' = [id |-> r.id, summary |-> r.summary]
    /\ UNCHANGED <<now, store, pc, event, rule, pet_state, epoch, known_in, observed,
                   late_writes, turns, interventions>>

Forget(S) ==
    /\ Intervenes
    /\ rows' = rows \ S
    /\ UNCHANGED <<now, next_id, affect_json, body_json, _writes_enabled, pc, event, rule,
                   pet_state, epoch, shown, known_in, observed, late_writes, turns>>

\* POST /memory/forget with the id that was shown.
forget == shown # None /\ Forget({r \in rows : r.id = shown.id})

\* ... with a filter; a tag is found inside a longer one, too.
Matches(filter, r) ==
    /\ filter.tag = None \/ \E tag \in Tags(r) : <<filter.tag, tag>> \in Within
    /\ filter.source \in {None, Source(r)}
    /\ filter.before = None \/ r.created_at < filter.before
    /\ filter.after = None \/ r.created_at > filter.after

forget_by(filter) == Forget({r \in rows : Matches(filter, r)})

\* Mutant of reset: the memories are kept, only the relationship goes.
reset_state_only ==
    /\ Intervenes
    /\ affect_json' = {} /\ body_json' = {}
    /\ epoch' = epoch + 1
    /\ UNCHANGED <<now, rows, next_id, _writes_enabled, pc, event, rule, pet_state, shown,
                   known_in, observed, late_writes, turns>>

\* POST /memory/reset
reset ==
    /\ Intervenes
    /\ rows' = {}
    /\ affect_json' = {} /\ body_json' = {}
    /\ epoch' = epoch + 1
    /\ UNCHANGED <<now, next_id, _writes_enabled, pc, event, rule, pet_state, shown,
                   known_in, observed, late_writes, turns>>

\* POST /memory/writes
set_writes_enabled(enabled) ==
    /\ Intervenes
    /\ _writes_enabled' = enabled
    /\ late_writes' = IF enabled THEN 0 ELSE late_writes
    /\ UNCHANGED <<now, rows, next_id, affect_json, body_json, pc, event, rule, pet_state, epoch,
                   shown, known_in, observed, turns>>

Init ==
    /\ now = CALLBACK_MIN
    /\ rows = {} /\ next_id = 1 /\ affect_json = {} /\ body_json = {} /\ _writes_enabled = TRUE
    /\ pc = "wait" /\ event = None /\ rule = 0
    /\ relationship = {} /\ last_callback_at = 0
    /\ epoch = 0 /\ known_in = 0 /\ observed = {} /\ shown = None
    /\ late_writes = 0
    /\ turns = 0 /\ interventions = 0

LoopStep ==
    \/ \E gap \in Gaps, moment \in Moments \cup {None} :
          now + gap <= MaxNow /\ BeginTurn(gap, moment)
    \/ CheckCapture \/ capture
    \/ LookForFact \/ CountSupport
    \/ CallBack \/ NoSurprise
    \/ retrieve
    \/ LoopSaves \/ save_body

OwnerStep ==
    \/ \E r \in rows : Inspect(r)
    \/ forget
    \/ \E filter \in Filters : forget_by(filter)
    \/ reset
    \/ \E enabled \in BOOLEAN : set_writes_enabled(enabled)

Next == LoopStep \/ OwnerStep \/ Restart

Spec == Init /\ [][Next]_vars

-----------------------------------------------------------------------------
Labels == {"wait", "check_capture", "capture", "consolidate", "count", "surprise", "retrieve",
           "check_affect", "save_affect", "check_body", "save_body"}

Rows == [id : Nat \ {0}, summary : Moments \cup Facts, created_at : Nat,
         importance : IMPORTANCE_THRESHOLD..MaxImportance, last_recalled : Nat,
         recalled : BOOLEAN, epoch : 0..MaxInterventions]

\* Every variable keeps its type, no row is worth less than the threshold or more
\* than the maximum, and an id identifies a row.
TypeOK ==
    /\ now \in Nat /\ rows \subseteq Rows /\ next_id \in Nat \ {0}
    /\ \A r, s \in rows : r.id = s.id => r = s
    /\ affect_json \subseteq 0..MaxInterventions /\ body_json \subseteq 0..MaxInterventions
    /\ _writes_enabled \in BOOLEAN
    /\ pc \in Labels /\ event \in Moments \cup {None} /\ rule \in 0..Len(RULES)
    /\ relationship \subseteq 0..MaxInterventions
    /\ last_callback_at \in Nat

\* "consolidates stable fact once": a fact is there at most once, however long it
\* stays true.
FactOnce == \A r, s \in rows : r.summary \in Facts /\ r.summary = s.summary => r = s

\* "Mochi never fabricates beliefs about the owner": behind every fact there have
\* been as many observed memories as its rule requires; facts are no evidence.
FactsAreObserved ==
    \A i \in DOMAIN RULES : has_summary(RULES[i].fact) =>
        Cardinality({o \in observed : /\ RULES[i].source \in {None, Source(o)}
                                      /\ RULES[i].tag \in Tags(o)}) >= RULES[i].threshold

\* The id the owner was shown never names another memory: forgetting it late
\* forgets that memory or nothing.
ForgetHitsWhatWasShown ==
    shown # None => \A r \in rows : r.id = shown.id => r.summary = shown.summary

\* Once writes are switched off at most the one write that had already looked at
\* the switch goes through.
PauseTakesEffect == late_writes <= 1

\* At most one memory of what was before a reset comes back: the one the loop had
\* in hand.
ResetWipes == Cardinality({r \in rows : r.epoch < epoch}) <= 1

\* "reset Mochi's memory and relationship state": nothing of the relationship from
\* before a reset is stored after it.
ResetForgetsRelationship == affect_json \cup body_json \subseteq {epoch}

=============================================================================
