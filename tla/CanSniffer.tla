----------------------------- MODULE CanSniffer -----------------------------
(* The guided sniffer (src/can_sniffer.cpp): which bytes on the bus move     *)
(* with what the user does? A baseline marks the bytes that move on their    *)
(* own; in a window after it every byte's changes are counted; the byte that *)
(* fits the window's signature best is learned, step by step of a scenario,  *)
(* and the map of what was learned can be kept in flash.                     *)
(*                                                                           *)
(* The bytes of a frame are treated alike and separately, so an id has one   *)
(* here. What only prints is left out: watch, report, status. Time is left   *)
(* out of the baseline, which ends at some tick. Flash is external: erasing  *)
(* and programming a page happen or do not, and the power may fail between.  *)
EXTENDS Naturals, Sequences, FiniteSets

CONSTANTS
  Ids,            \* what is on the bus
  Values,         \* of its byte
  kMaxSlots,
  kMaxLearned,
  CounterMod,     \* the counters are uint8_t: 256
  Steps,          \* the scenario: [mode, expected] of each step
  AdHoc,          \* the N of "gsniff count N"
  EntriesPerPage, \* Learned entries in a page of flash, less one with the header
  MaxCommands     \* bound on the commands other than "gsniff next"

ASSUME ValuesAssumption == Values \subseteq Nat
ASSUME StepsAssumption ==
  /\ Steps \in Seq([mode : {"count", "hold", "sweep"}, expected : Nat])
  /\ Steps # <<>> /\ AdHoc \subseteq Nat
ASSUME LimitsAssumption ==
  /\ kMaxSlots \in Nat /\ kMaxLearned \in Nat
  /\ CounterMod \in Nat \ {0} /\ EntriesPerPage \in Nat \ {0}

VARIABLES
  slots,     \* slots_, slot_count_ of them
  mode,
  expected,
  scenario,  \* scenario_ # nullptr
  step,      \* scenario_step_
  learned,   \* learned_, learned_count_ of them
  flash,     \* the store's sector
  page,      \* save: the page to be programmed next, 0 outside save
  commands,  \* how many commands there have been
  heard,     \* history: the ids heard in this baseline
  wild,      \* history: the ids heard moving in a baseline, since the table was cleared
  stale,     \* history: the ids that were in the table when a baseline began
  kept       \* history: the maps given to save

capture == <<slots, mode, expected, heard>>
store == <<flash, page, kept>>
vars == <<capture, scenario, step, learned, store, commands, wild, stale>>

Blank == [label |-> 0, id |-> "erased"]
Erased == [count |-> kMaxLearned + 1, entries |-> [i \in 1 .. kMaxLearned |-> Blank]]

Counters == 0 .. CounterMod - 1
Entries == [label : 1 .. Len(Steps), id : Ids] \cup {Blank}

TypeOK ==
  /\ slots \in Seq([id : Ids, last : Values, base_val : Values, rises : Counters,
                    falls : Counters, noisy : BOOLEAN])
  /\ Len(slots) <= kMaxSlots
  /\ mode \in {"idle", "baseline", "count", "hold", "sweep"}
  /\ scenario \in BOOLEAN
  /\ step < Len(Steps)
  /\ learned \in Seq(Entries) /\ Len(learned) <= kMaxLearned
  /\ flash.count \in 0 .. kMaxLearned + 1
  /\ flash.entries \in [1 .. kMaxLearned -> Entries]
  /\ heard \subseteq Ids /\ wild \subseteq Ids /\ stale \subseteq Ids

Init ==
  /\ slots = <<>> /\ mode = "idle" /\ expected = 0
  /\ scenario = FALSE /\ step = 0
  /\ learned = <<>>
  /\ flash = Erased /\ page = 0 /\ kept = {}
  /\ commands = 0
  /\ heard = {} /\ wild = {} /\ stale = {}

----------------------------------------------------------------------------
(* Scores and candidates. *)

changes(s) == (s.rises + s.falls) % CounterMod

Distance(n, m) == IF n < m THEN m - n ELSE n - m

(* matchScore: whether a byte is a candidate, and how far it is from what is *)
(* looked for (0: not at all). First without the mask.                       *)
MatchesNoisy(m, s) ==
  \/ m = "count" /\ changes(s) # 0
  \/ m = "hold" /\ s.last # s.base_val
  \/ m = "sweep" /\ changes(s) >= 2 /\ (s.rises = 0) # (s.falls = 0)

Matches(m, s) ==
  /\ ~s.noisy
  /\ \/ m = "count" /\ changes(s) # 0
     \/ m = "hold" /\ s.last # s.base_val
     \/ m = "sweep" /\ changes(s) >= 2 /\ (s.rises = 0) # (s.falls = 0)

Score(m, exp, s) ==
  CASE m = "count" -> Distance(changes(s), exp)
    [] m = "hold" -> changes(s)
    [] m = "sweep" -> LET total == s.rises + s.falls IN IF total >= 250 THEN 0 ELSE 250 - total

(* The scan from the end of the table that goes past equal scores too. *)
ShiftedEqual(out, n, c) ==
  LET pos == CHOOSE p \in 1 .. n : /\ p = 1 \/ out[p - 1].score < c.score
                                   /\ \A q \in p .. n - 1 : out[q].score >= c.score
  IN  [k \in 1 .. n |-> IF k < pos THEN out[k] ELSE IF k = pos THEN c ELSE out[k - 1]]

(* Shifting, from the end, the entries that score worse than c, into n       *)
(* places, and c into the gap.                                               *)
Shifted(out, n, c) ==
  LET pos == CHOOSE p \in 1 .. n : /\ p = 1 \/ out[p - 1].score <= c.score
                                   /\ \A q \in p .. n - 1 : out[q].score > c.score
  IN  [k \in 1 .. n |-> IF k < pos THEN out[k] ELSE IF k = pos THEN c ELSE out[k - 1]]

Candidate(m, exp, i) == [slot |-> i, score |-> Score(m, exp, slots[i])]

(* One turn of collectTop's loop, for the byte of slot i. *)
Take(m, exp, max_out, out, i) ==
  IF ~Matches(m, slots[i]) THEN out
  ELSE LET c == Candidate(m, exp, i)
       IN  IF Len(out) < max_out THEN Shifted(out, Len(out) + 1, c)
           ELSE IF c.score < out[max_out].score THEN Shifted(out, max_out, c)
           ELSE out

collectTop(m, exp, max_out) ==
  LET top[i \in 0 .. Len(slots)] ==
        IF i = 0 THEN <<>> ELSE Take(m, exp, max_out, top[i - 1], i)
  IN  top[Len(slots)]

----------------------------------------------------------------------------
(* Windows. *)

resetWindowCounters(ss) ==
  [i \in 1 .. Len(ss) |-> [ss[i] EXCEPT !.rises = 0, !.falls = 0]]

Opens(ss, m, exp) ==
  /\ slots' = resetWindowCounters(ss)
  /\ mode' = m
  /\ expected' = exp
  /\ heard' = {}

Closes(ss) ==
  /\ slots' = ss
  /\ mode' = "idle"
  /\ heard' = {}
  /\ UNCHANGED expected

startScenarioStep(ss, idx) ==
  /\ Opens(ss, Steps[idx + 1].mode, Steps[idx + 1].expected)
  /\ step' = idx

finishBaseline ==
  LET parked == [i \in 1 .. Len(slots) |-> [slots[i] EXCEPT !.base_val = slots[i].last]]
  IN  IF scenario /\ step = 0
      THEN startScenarioStep(parked, 0)
      ELSE Closes(resetWindowCounters(parked)) /\ UNCHANGED step

Known(id) == \E i \in 1 .. Len(slots) : slots[i].id = id

NewSlot(id, v) == [id |-> id, last |-> v, base_val |-> v,
                   rises |-> 0, falls |-> 0, noisy |-> FALSE]

(* findOrCreate that does not look whether there is room. *)
createAlways(id, v) == IF Known(id) THEN slots ELSE Append(slots, NewSlot(id, v))

(* findOrCreate, and the table it leaves; an id the full table does not have *)
(* is not there after it.                                                    *)
findOrCreate(id, v) ==
  IF Known(id) \/ Len(slots) >= kMaxSlots THEN slots ELSE Append(slots, NewSlot(id, v))

(* What a frame with v does to its slot. *)
Told(s, v) ==
  IF v = s.last THEN s
  ELSE IF mode = "baseline" THEN [s EXCEPT !.noisy = TRUE, !.last = v]
  ELSE IF v > s.last THEN [s EXCEPT !.rises = (@ + 1) % CounterMod, !.last = v]
  ELSE [s EXCEPT !.falls = (@ + 1) % CounterMod, !.last = v]

(* feed, from the main loop's drain of the controller. *)
feed(id, v) ==
  /\ page = 0
  /\ UNCHANGED <<mode, expected, scenario, step, learned, store, commands, stale>>
  /\ IF mode = "idle"
     THEN UNCHANGED <<slots, heard, wild>>
     ELSE LET found == findOrCreate(id, v)
              mine == {i \in 1 .. Len(found) : found[i].id = id}
              moves == \E i \in mine : found[i].last # v
          IN  /\ slots' = [i \in 1 .. Len(found) |->
                             IF i \in mine THEN Told(found[i], v) ELSE found[i]]
              /\ IF mode = "baseline"
                 THEN /\ heard' = heard \cup {id}
                      /\ wild' = IF id \in heard /\ moves THEN wild \cup {id} ELSE wild
                 ELSE UNCHANGED <<heard, wild>>

tick ==
  /\ page = 0
  /\ mode = "baseline"
  /\ finishBaseline
  /\ UNCHANGED <<scenario, learned, store, commands, wild, stale>>

----------------------------------------------------------------------------
(* The commands. *)

Typed ==
  /\ page = 0
  /\ commands < MaxCommands
  /\ commands' = commands + 1

Baseline ==
  /\ Opens(slots, "baseline", expected)
  /\ stale' = stale \cup {slots[i].id : i \in 1 .. Len(slots)}

beginBaseline ==
  /\ Typed
  /\ Baseline
  /\ UNCHANGED <<scenario, step, learned, store, wild>>

beginWindow(m, n) ==
  /\ Typed
  /\ Opens(slots, m, n)
  /\ UNCHANGED <<scenario, step, learned, store, wild, stale>>

beginCount(n) == beginWindow("count", n)
beginHold == beginWindow("hold", 0)
beginSweep == beginWindow("sweep", 0)

stop ==
  /\ Typed
  /\ mode # "idle"
  /\ IF mode = "baseline" THEN finishBaseline ELSE Closes(slots) /\ UNCHANGED step
  /\ UNCHANGED <<scenario, learned, store, wild, stale>>

clear ==
  /\ Typed
  /\ slots' = <<>> /\ mode' = "idle"
  /\ scenario' = FALSE /\ step' = 0
  /\ learned' = <<>>
  /\ heard' = {} /\ wild' = {} /\ stale' = {}
  /\ UNCHANGED <<expected, store>>

beginRun ==
  /\ Typed
  /\ scenario' = TRUE /\ step' = 0
  /\ learned' = <<>>
  /\ Baseline
  /\ UNCHANGED <<store, wild>>

Learn ==
  LET best == collectTop(mode, expected, 1)
  IN  learned' = IF best # <<>> /\ Len(learned) < kMaxLearned
                 THEN Append(learned, [label |-> step + 1, id |-> slots[best[1].slot].id])
                 ELSE learned

nextStep ==
  /\ page = 0
  /\ scenario /\ mode # "baseline"
  /\ Learn
  /\ IF step + 1 < Len(Steps)
     THEN startScenarioStep(slots, step + 1) /\ UNCHANGED scenario
     ELSE Closes(slots) /\ scenario' = FALSE /\ UNCHANGED step
  /\ UNCHANGED <<store, commands, wild, stale>>

----------------------------------------------------------------------------
(* The store. *)

(* A layout that starts the entries on a page of their own. *)
PageAligned(i) == 2 + (i - 1) \div EntriesPerPage

(* The page an entry ends on: the header is a quarter of an entry. *)
PageOf(i) == 1 + i \div EntriesPerPage

Pages == PageOf(kMaxLearned)

(* save: flash_safe_execute may refuse; otherwise the sector is erased and   *)
(* programmed page by page, while nothing else runs.                         *)
save ==
  /\ Typed
  /\ flash' = Erased
  /\ page' = 1
  /\ kept' = kept \cup {learned}
  /\ UNCHANGED <<capture, scenario, step, learned, wild, stale>>

Program ==
  /\ page # 0
  /\ flash' = [count |-> IF page = 1 THEN Len(learned) ELSE flash.count,
               entries |-> [i \in 1 .. kMaxLearned |->
                              IF PageOf(i) = page /\ i <= Len(learned)
                              THEN learned[i] ELSE flash.entries[i]]]
  /\ page' = IF page < Pages THEN page + 1 ELSE 0
  /\ UNCHANGED <<capture, scenario, step, learned, commands, wild, stale, kept>>

(* What load makes of the sector. *)
HasMap == flash.count <= kMaxLearned
Stored == SubSeq(flash.entries, 1, flash.count)

load ==
  /\ Typed
  /\ HasMap
  /\ learned' = Stored
  /\ UNCHANGED <<capture, scenario, step, store, wild, stale>>

(* The power fails and comes back: init. *)
PowerFails ==
  /\ slots' = <<>> /\ mode' = "idle" /\ expected' = 0
  /\ scenario' = FALSE /\ step' = 0
  /\ learned' = <<>>
  /\ page' = 0
  /\ heard' = {} /\ wild' = {} /\ stale' = {}
  /\ UNCHANGED <<flash, kept, commands>>

Next ==
  \/ \E id \in Ids, v \in Values : feed(id, v)
  \/ tick
  \/ beginBaseline \/ (\E n \in AdHoc : beginCount(n)) \/ beginHold \/ beginSweep
  \/ stop \/ clear \/ beginRun \/ nextStep
  \/ save \/ Program \/ load \/ PowerFails

Spec == Init /\ [][Next]_vars

----------------------------------------------------------------------------
(* collectTop's insertion into the table of the best, full or not, gives the *)
(* best scores in ascending order, and of equals those that come first.      *)
Ahead(c, d) == c.score < d.score \/ (c.score = d.score /\ c.slot < d.slot)

TopIsBest ==
  \A m \in {"count", "hold", "sweep"}, exp \in AdHoc, n \in 1 .. 2 :
    LET all == {Candidate(m, exp, i) : i \in {j \in 1 .. Len(slots) : Matches(m, slots[j])}}
        top == collectTop(m, exp, n)
    IN  /\ Len(top) = (IF Cardinality(all) < n THEN Cardinality(all) ELSE n)
        /\ \A k \in 1 .. Len(top) :
             top[k] \in all /\ Cardinality({c \in all : Ahead(c, top[k])}) = k - 1

(* A map load accepts is one that was saved, unless it takes more than a     *)
(* page: the power may fail in the middle of a save, but up to there the     *)
(* header and the entries arrive together or not at all.                     *)
StoredWasSaved ==
  HasMap => Stored \in kept \/ flash.count >= EntriesPerPage

(* "bit b set => byte b moved on its own during baseline"                    *)
(* (can_sniffer.hpp:96), and the other way round, of every byte first heard  *)
(* in a baseline or after one. One that was in the table before is compared  *)
(* with what it was when some window last closed.                            *)
MaskIsExact ==
  \A i \in 1 .. Len(slots) :
    LET id == slots[i].id
    IN  /\ id \in wild => slots[i].noisy
        /\ slots[i].noisy => id \in wild \cup stale

(* A byte that moved between two frames of a baseline is masked, and never   *)
(* learned, however many windows, runs and further baselines lie between:    *)
(* "Noisy (baseline-unstable) bytes never qualify" (can_sniffer.hpp:135).    *)
NoisyNeverLearned ==
  /\ []MaskIsExact
  /\ [][ nextStep => \A k \in Len(learned) + 1 .. Len(learned') : learned'[k].id \notin wild ]_vars
=============================================================================
