------------------------------- MODULE Vision -------------------------------
(***************************************************************************)
(* Photo analysis and what it does to a valuation: the rake task           *)
(* vision:analyze (VisionAnalyzeRun), the brain's Vision.AnalyzePhotos with*)
(* its circuit breaker, the PhotoAnalysis rows both leave behind, and the  *)
(* valuation that reads a row's condition.                                 *)
(*                                                                         *)
(* Runs of the task may overlap, be killed, or lose an answer; the brain's *)
(* worker goes on.  Claude's answer for a photo is any of Replies, or a    *)
(* failure.  A valuation changes nothing: what it returns is a function of *)
(* the rows, quantified over the regression's output.                      *)
(*                                                                         *)
(* Confidences are percents, conditions thousandths.                       *)
(***************************************************************************)
EXTENDS Integers, FiniteSets, Sequences, SequencesExt

CONSTANTS
  Runs,        \* invocations of rake vision:analyze, in the order they begin
  Workers,     \* gRPC worker threads of the brain, numbered
  Listings,    \* Property.browsable
  Addresses,   \* their addresses, case-folded
  NoAddress,   \* the address of a listing that has none
  AddressOf,   \* AddressOf[l]: the address of listing l
  Photos,      \* Photos[l]: its photo_urls
  Replies,     \* what Claude may report of a photo: sequences of raw findings
  Keyed,       \* ANTHROPIC_API_KEY is set on the brain
  MaxCalls,    \* max_calls of a run
  MaxEvents,   \* bound on calls lost, runs killed, rows seeded, TTLs and cooldowns that pass
  Known,       \* addresses SubjectResolver finds
  Covered,     \* addresses derive_record covers
  Sqft,        \* Sqft[a]: the subject's living area
  Comps,       \* comparable listings: price, sqft, age in half-lives
  None,        \* nil: no condition
  Predictions  \* outputs of the three regressors: point, lower, upper

ASSUME ListingsAssumption ==
  /\ NoAddress \notin Addresses
  /\ AddressOf \in [Listings -> Addresses \cup {NoAddress}]
  /\ IsFiniteSet(Listings)
  /\ Runs \subseteq Nat /\ Workers \subseteq Nat /\ IsFiniteSet(Workers)
\* What the tool call of Claude and the rows of the catalogue hold.
ASSUME RepliesAssumption ==
  /\ Replies \subseteq Seq([kind : STRING, confidence : Int])
  /\ Photos \in [Listings -> Seq(STRING)]
\* The regressors add up trees fitted to residuals: nothing bounds what they predict,
\* a negative price included.
ASSUME MarketAssumption ==
  /\ None \notin Int
  /\ Sqft \in [Addresses -> Int]
  /\ IsFiniteSet(Comps) /\ Comps \subseteq [price : Int, sqft : Int, age : Nat]
  /\ Predictions \subseteq [point : Int, lower : Int, upper : Int]
ASSUME BoundsAssumption ==
  /\ MaxCalls \in Nat /\ MaxEvents \in Nat /\ Keyed \in BOOLEAN

VARIABLES
  row,       \* row[a]: the PhotoAnalysis row of address a
  run,       \* run[r]: one VisionAnalyzeRun.call
  worker,    \* worker[w]: the AnalyzePhotos call thread w executes
  cooling,   \* time.monotonic() < _cooldown_until
  seeding,   \* the listing SampleVisionSeed.call is at, and its row as it was looked up
  failures,  \* history: transport failures since the cooldown last passed
  overtaken, \* history: addresses saved from a row that had changed since it was read
  events     \* how many of these so far

vars == <<row, run, worker, cooling, seeding, failures, overtaken, events>>

Nobody == -1
NoListing == "none"
Lower(m, n) == IF m <= n THEN m ELSE n
Upper(m, n) == IF m <= n THEN n ELSE m

-----------------------------------------------------------------------------
(* Findings                                                                *)
Threshold == 60
Neutral == 500
PhotoIds == {"photo-1"} \cup UNION {{Photos[l][i] : i \in DOMAIN Photos[l]} : l \in Listings}
Finding == [kind : {"feature", "red_flag"}, confidence : 0 .. 100, photo : PhotoIds]

\* Finding.__post_init__: what the model reports is checked before it counts.
Valid(raw) == raw.kind \in {"feature", "red_flag"} /\ raw.confidence \in 0 .. 100

\* Mutant of ToReview: only the confidence decides.
WeakOnly(f) == f.confidence < Threshold

\* _route: a red flag, however confident, and anything weak is for a human.
ToReview(f) == f.kind = "red_flag" \/ f.confidence < Threshold

\* The items of s that are in T, in their order.
Only(s, T) ==
  LET kept[n \in 0 .. Len(s)] ==
        IF n = 0 THEN <<>>
        ELSE IF s[n] \in T THEN Append(kept[n - 1], s[n]) ELSE kept[n - 1]
  IN kept[Len(s)]

\* _coerce_finding for each item: the invalid ones are dropped, the rest cite
\* the photo that was analysed.
Coerce(raws, photo) ==
  LET cited(raw) == [kind |-> raw.kind, confidence |-> raw.confidence, photo |-> photo]
      valid == Only(raws, {raw \in Range(raws) : Valid(raw)})
  IN [i \in DOMAIN valid |-> cited(valid[i])]

RedFlags(fs) == Only(fs, {f \in Range(fs) : f.kind = "red_flag"})
SumConfidence(fs) == SumFunction([i \in DOMAIN fs |-> fs[i].confidence])

\* Mutant of ConditionOf: no clamp.
ConditionUnclamped(features, review) ==
  (5005 + 8 * SumConfidence(features) - 15 * SumConfidence(RedFlags(features \o review))) \div 10

\* condition_from_findings on the confident features and all red flags, rounded
\* to the column's three decimals.
ConditionOf(features, review) ==
  LET score == 5000 + 8 * SumConfidence(features)
                    - 15 * SumConfidence(RedFlags(features \o review))
  IN Upper(0, Lower(1000, (score + 5) \div 10))

(* The rows, the runs and the brain's threads                              *)
Analysis == [features : Seq(Finding), review : Seq(Finding), condition : 0 .. 1000,
  provenance : {"claude", "fake", "sample"},
  looked : SUBSET Nat]                \* history: the photos Claude answered about
NoAnalysis == [features |-> <<>>, review |-> <<>>, condition |-> 0, provenance |-> "fake", looked |-> {}]
Row == [state : {"none", "fresh", "stale"}, is : Analysis]
NoRow == [state |-> "none", is |-> NoAnalysis]

(* pc of a run: between listings, waiting for a thread of the brain or for *)
(* its answer, holding the answer; over: done, killed by the operator, or  *)
(* ended by the exception of save!.                                        *)
Run == [pc : {"idle", "next", "waiting", "served", "answered", "over"},
  todo : SUBSET Listings, analyzed : Nat,
  listing : Listings \cup {NoListing},
  existing : Row,                     \* the row as it was looked up
  answer : Analysis,
  paid : SUBSET Listings]             \* history: listings Claude was called for, but
                                      \* for those whose answer got lost
(* The seeds: the same search and save, listing after listing.             *)
Seeding == [listing : Listings \cup {NoListing}, existing : Row]
Running == {"next", "waiting", "served", "answered"}

(* pc of a thread: at a photo, or waiting for Claude's answer about it.    *)
Worker == [pc : {"idle", "look", "sent"},
  client : Runs \cup {Nobody},        \* who waits for it
  listing : Listings \cup {NoListing}, photo : Nat,
  features : Seq(Finding), review : Seq(Finding), looked : SUBSET Nat]

NewRun == [pc |-> "idle", todo |-> {}, analyzed |-> 0, listing |-> NoListing, existing |-> NoRow,
  answer |-> NoAnalysis, paid |-> {}]
Idle == [pc |-> "idle", client |-> Nobody, listing |-> NoListing, photo |-> 1,
  features |-> <<>>, review |-> <<>>, looked |-> {}]
NoSeeding == [listing |-> NoListing, existing |-> NoRow]

Init ==
  /\ row = [a \in Addresses |-> NoRow]
  /\ run = [r \in Runs |-> NewRun]
  /\ worker = [w \in Workers |-> Idle]
  /\ cooling = FALSE /\ failures = 0
  /\ seeding = NoSeeding
  /\ overtaken = {}
  /\ events = 0

Over == [NewRun EXCEPT !.pc = "over"]
\* A run between two listings holds nothing of the last one.
Between(x) == [x EXCEPT !.pc = "next", !.listing = NoListing, !.existing = NoRow, !.answer = NoAnalysis]

rails == <<row, seeding, overtaken, events>>
-----------------------------------------------------------------------------
(* VisionAnalyzeRun.call                                                   *)

\* A listing without an address is passed over, whenever its turn comes.
Start(r) ==
  /\ run[r].pc = "idle" /\ \A q \in Runs : q < r => run[q].pc # "idle"
  /\ run' = [run EXCEPT ![r].pc = "next", ![r].todo = {l \in Listings : AddressOf[l] # NoAddress}]
  /\ UNCHANGED <<worker, cooling, failures, rails>>

\* Mutant of Skips: a fresh row is analysed again.
SkipsNoFresh(r, l) == run[r].analyzed >= MaxCalls

\* A listing with a fresh row, or beyond the budget.
Skips(r, l) == row[AddressOf[l]].state = "fresh" \/ run[r].analyzed >= MaxCalls

Skip(r, l) ==
  /\ run[r].pc = "next" /\ l \in run[r].todo /\ Skips(r, l)
  /\ run' = [run EXCEPT ![r].todo = @ \ {l}]
  /\ UNCHANGED <<worker, cooling, failures, rails>>

Ask(r, l) ==
  /\ run[r].pc = "next" /\ l \in run[r].todo /\ ~Skips(r, l)
  /\ run' = [run EXCEPT ![r].pc = "waiting", ![r].listing = l, ![r].todo = @ \ {l},
                        ![r].existing = row[AddressOf[l]]]
  /\ UNCHANGED <<worker, cooling, failures, rails>>

\* Nobody waits for the call any more; the thread that serves it goes on, and
\* what it finds goes nowhere.
HangUp(r) ==
  /\ events < MaxEvents /\ events' = events + 1
  /\ worker' = [w \in Workers |->
       IF worker[w].client = r
       THEN [worker[w] EXCEPT !.client = Nobody, !.features = <<>>, !.review = <<>>, !.looked = {}]
       ELSE worker[w]]
  /\ UNCHANGED <<row, seeding, overtaken, cooling, failures>>

\* BrainVisionClient rescues whatever the call raises; the run goes on to the
\* next listing and counts nothing.
RpcFails(r) ==
  /\ run[r].pc \in {"waiting", "served"}
  /\ run' = [run EXCEPT ![r] = [Between(run[r]) EXCEPT !.paid = @ \ {run[r].listing}]]
  /\ HangUp(r)

\* Mutant of Updated: a row that has a condition keeps it.
UpdatedOnce(now, read, new) ==
  [f \in DOMAIN new |-> IF (f # "looked" /\ new[f] = read[f]) \/ (f = "condition" /\ now[f] > 0)
                        THEN now[f] ELSE new[f]]

\* The UPDATE names only the columns that differ from the row as it was read.
Updated(now, read, new) ==
  [f \in DOMAIN new |-> IF f # "looked" /\ new[f] = read[f] THEN now[f] ELSE new[f]]

\* Mutant of Counted: an analysis that found nothing is not counted.
CountedFindings(answer) == IF answer.features \o answer.review = <<>> THEN 0 ELSE 1

\* What an answer adds to `analyzed`.
Counted(answer) == 1

\* rec.save!: an INSERT fails when the address has got a row meanwhile, an UPDATE
\* does not look whether the row is still the one that was read.
Taken(a, read) == read.state = "none" /\ row[a].state # "none"
Saves(a, read, new) ==
  /\ ~Taken(a, read)
  /\ row' = [row EXCEPT ![a] = [state |-> "fresh", is |-> Updated(@.is, read.is, new)]]
  /\ overtaken' = IF row[a] = read THEN overtaken \ {a} ELSE overtaken \cup {a}

Save(r) ==
  LET a == AddressOf[run[r].listing]
      read == run[r].existing
  IN /\ run[r].pc = "answered"
     /\ \/ /\ Taken(a, read) /\ UNCHANGED <<row, overtaken>>
           /\ run' = [run EXCEPT ![r] = Over]
        \/ /\ Saves(a, read, run[r].answer)
           /\ run' = [run EXCEPT ![r] =
                [Between(run[r]) EXCEPT !.analyzed = @ + Counted(run[r].answer)]]
     /\ UNCHANGED <<worker, cooling, seeding, failures, events>>

Finish(r) ==
  /\ run[r].pc = "next" /\ run[r].todo = {}
  /\ run' = [run EXCEPT ![r] = Over]
  /\ UNCHANGED <<worker, cooling, failures, rails>>

\* The operator stops the task.
Kill(r) ==
  /\ run[r].pc \in Running
  /\ run' = [run EXCEPT ![r] = Over]
  /\ HangUp(r)
-----------------------------------------------------------------------------
(* VisionServicer.AnalyzePhotos on a thread of the brain                   *)

\* One thread is like another: the first idle one takes the call.
Serve(w, r) ==
  /\ worker[w].pc = "idle" /\ \A v \in Workers : v < w => worker[v].pc # "idle"
  /\ run[r].pc = "waiting"
  /\ run' = [run EXCEPT ![r].pc = "served"]
  /\ worker' = [worker EXCEPT ![w] = [Idle EXCEPT !.pc = "look", !.client = r,
                                                  !.listing = run[r].listing]]
  /\ UNCHANGED <<cooling, failures, rails>>

Left(w) == worker[w].photo <= Len(Photos[worker[w].listing])
Passed(x) == [x EXCEPT !.pc = "look", !.photo = @ + 1]

\* Mutant of Pass: during the cooldown the photo is tried again.
PassLater(w) ==
  /\ worker[w].pc = "look" /\ Left(w)
  /\ worker' = [worker EXCEPT ![w] = IF cooling THEN @ ELSE Passed(@)]
  /\ UNCHANGED <<run, cooling, failures, rails>>

\* A photo that could not be fetched (any may be: that all are fetched before the
\* first is looked at shows only here), the fake model and a cooldown yield nothing.
Pass(w) ==
  /\ worker[w].pc = "look" /\ Left(w)
  /\ worker' = [worker EXCEPT ![w] = Passed(@)]
  /\ UNCHANGED <<run, cooling, failures, rails>>

\* Past the check of the cooldown, the request is on its way to Claude.
Send(w) ==
  /\ worker[w].pc = "look" /\ Left(w)
  /\ Keyed /\ ~cooling
  /\ worker' = [worker EXCEPT ![w].pc = "sent"]
  /\ run' = [r \in Runs |-> IF r = worker[w].client
       THEN [run[r] EXCEPT !.paid = @ \cup {worker[w].listing}] ELSE run[r]]
  /\ UNCHANGED <<cooling, failures, rails>>

Answered(w, raws) ==
  LET found == Coerce(raws, Photos[worker[w].listing][worker[w].photo])
      doubtful == {f \in Range(found) : ToReview(f)}
  IN /\ worker[w].pc = "sent"
     /\ worker' = [worker EXCEPT ![w] = IF @.client = Nobody THEN Passed(@) ELSE
          [Passed(worker[w]) EXCEPT !.features = @ \o Only(found, Range(found) \ doubtful),
                            !.review = @ \o Only(found, doubtful),
                            !.looked = @ \cup {worker[w].photo}]]
     /\ UNCHANGED <<run, cooling, failures, rails>>

\* Mutant of TransportFails: the breaker of a failure it was not written for.
TransportUntripped(w) ==
  /\ worker[w].pc = "sent"
  /\ worker' = [worker EXCEPT ![w] = Passed(@)]
  /\ failures' = failures + 1
  /\ UNCHANGED <<cooling, run, rails>>

\* Any exception of the transport starts the cooldown of all threads.
TransportFails(w) ==
  /\ worker[w].pc = "sent"
  /\ worker' = [worker EXCEPT ![w] = Passed(@)]
  /\ cooling' = TRUE
  /\ failures' = failures + 1
  /\ UNCHANGED <<run, rails>>

\* What the transport returned is no object: an error of this photo only.
Garbled(w) ==
  /\ worker[w].pc = "sent"
  /\ worker' = [worker EXCEPT ![w] = Passed(@)]
  /\ UNCHANGED <<run, cooling, failures, rails>>

\* claude_vision_model_or_none, else the fake model.
Provenance == IF Keyed THEN "claude" ELSE "fake"

Reply(w) ==
  LET x == worker[w]
      answer == [features |-> x.features, review |-> x.review,
        condition |-> ConditionOf(x.features, x.review),
        provenance |-> Provenance, looked |-> x.looked]
  IN /\ x.pc = "look" /\ ~Left(w)
     /\ worker' = [worker EXCEPT ![w] = Idle]
     /\ IF x.client = Nobody THEN UNCHANGED run
        ELSE run' = [run EXCEPT ![x.client].pc = "answered", ![x.client].answer = answer]
     /\ UNCHANGED <<cooling, failures, rails>>

CooldownPasses ==
  /\ cooling /\ events < MaxEvents
  /\ cooling' = FALSE /\ failures' = 0
  /\ events' = events + 1
  /\ UNCHANGED <<row, run, worker, seeding, overtaken>>
-----------------------------------------------------------------------------
(* What else happens to a row                                              *)
TtlPasses(a) ==
  /\ row[a].state = "fresh" /\ events < MaxEvents
  /\ row' = [row EXCEPT ![a].state = "stale"]
  /\ events' = events + 1
  /\ UNCHANGED <<run, worker, cooling, seeding, failures, overtaken>>

\* features_for: three of the pool, cited to the listing's first photo.
SampleFeatures(l) ==
  LET photo == IF Photos[l] = <<>> THEN "photo-1" ELSE Photos[l][1]
      of(confidence) == [kind |-> "feature", confidence |-> confidence, photo |-> photo]
  IN <<of(86), of(80), of(74)>>

Sample(l) == [features |-> SampleFeatures(l), review |-> <<>>,
  condition |-> ConditionOf(SampleFeatures(l), <<>>), provenance |-> "sample", looked |-> {}]

\* SampleVisionSeed.call, one listing: the row is looked up, and whatever it was
\* saved as a sample.
SeedFind(l) ==
  /\ seeding.listing = NoListing /\ AddressOf[l] # NoAddress
  /\ events < MaxEvents /\ events' = events + 1
  /\ seeding' = [listing |-> l, existing |-> row[AddressOf[l]]]
  /\ UNCHANGED <<row, run, worker, cooling, failures, overtaken>>

SeedSave ==
  LET a == AddressOf[seeding.listing]
  IN /\ seeding.listing # NoListing
     /\ \/ Taken(a, seeding.existing) /\ UNCHANGED <<row, overtaken>>
        \/ Saves(a, seeding.existing, Sample(seeding.listing))
     /\ seeding' = NoSeeding
     /\ UNCHANGED <<run, worker, cooling, failures, events>>

RunStep(r) == Save(r) \/ Finish(r) \/ \E l \in Listings : Skip(r, l) \/ Ask(r, l)
Work(w) ==
  \/ Pass(w) \/ Send(w) \/ TransportFails(w) \/ Garbled(w) \/ Reply(w)
  \/ \E raws \in Replies : Answered(w, raws)

Progress ==
  \/ \E r \in Runs : RunStep(r)
  \/ \E w \in Workers : Work(w) \/ \E r \in Runs : Serve(w, r)

Next ==
  \/ Progress
  \/ \E r \in Runs : Start(r) \/ RpcFails(r) \/ Kill(r)
  \/ CooldownPasses
  \/ \E a \in Addresses : TtlPasses(a)
  \/ SeedSave \/ \E l \in Listings : SeedFind(l)

Spec == Init /\ [][Next]_vars

\* As long as a task or a thread can go on, one of them does: the task is a loop
\* and the transport has a timeout.  Nothing has to begin, to fail or to expire.
Fairness == WF_vars(Progress)

FairSpec == Spec /\ Fairness
-----------------------------------------------------------------------------
(* ValuationAssembly and Valuation.GetValuation                            *)
\* photo_condition: the row's, whatever its age and provenance.
PhotoCondition(a) == IF row[a].state = "none" THEN None ELSE row[a].is.condition

\* build_features: proto has no null.
BuildFeatures(condition) ==
  [has_condition |-> condition # None, condition |-> IF condition = None THEN 0 ELSE condition]

\* Mutant of FeatureCondition: `or None`, as for the fields around it.
FalsyCondition(f) == IF f.condition = 0 THEN None ELSE f.condition

\* _value: the condition of the record it builds.
FeatureCondition(f) == IF f.has_condition THEN f.condition ELSE None

\* record_from_features clamps what it is given, feature_vector fills in the rest.
RecordCondition(condition) == IF condition = None THEN None ELSE Upper(0, Lower(1000, condition))
VectorCondition(condition) == IF condition = None THEN Neutral ELSE condition

\* _facts_from_contributions: the source the condition's contribution is cited to.
ConditionSource(condition) == IF condition = None THEN "derived" ELSE "record"

\* Mutant of Predict: the three regressors are trusted to agree.
PredictCrossing(p, sparse) ==
  LET widen == (p.point * 6 * sparse) \div 100
  IN [estimate |-> p.point, low |-> Upper(0, p.lower - widen), high |-> p.upper + widen]

\* ValuationModel.predict
Predict(p, sparse) ==
  LET widen == (p.point * 6 * sparse) \div 100
  IN [estimate |-> p.point,
      low |-> Upper(0, Lower(p.lower, p.point) - widen),
      high |-> Upper(p.upper, p.point) + widen]

\* anchor_and_blend: a comp's weight halves with its age, the anchor counts 7 to 3.
Usable(comps) == {c \in comps : c.sqft > 0 /\ c.price > 0}
Blend(p, sqft, comps) ==
  LET implied == [c \in comps |-> (c.price * sqft) \div c.sqft]
      weight == [c \in comps |-> 2 ^ (Max({d.age : d \in comps}) - c.age)]
      weighted == [c \in comps |-> weight[c] * implied[c]]
      anchor == SumFunction(weighted) \div SumFunction(weight)
      estimate == (7 * anchor + 3 * p.estimate) \div 10
      prices == Range(implied) \cup {estimate}
  IN [estimate |-> estimate,
      low |-> Upper(0, Lower(p.low, Min(prices))), high |-> Upper(p.high, Max(prices))]

\* value_record: a condition that is not given is imputed, and widens the band.
ValueRecord(condition, sqft, comps, p) ==
  LET predicted == Predict(p, IF condition = None THEN 1 ELSE 0)
      grounded == IF Usable(comps) = {} \/ sqft <= 0 THEN predicted
                  ELSE Blend(predicted, sqft, Usable(comps))
  IN [sufficient |-> TRUE, source |-> ConditionSource(condition), condition |-> VectorCondition(condition),
      estimate |-> grounded.estimate, low |-> grounded.low, high |-> grounded.high]

NoValuation == [sufficient |-> FALSE, source |-> "derived", condition |-> Neutral,
  estimate |-> 0, low |-> 0, high |-> 0]

\* estimate_value: the record is derived from the address alone.
EstimateValue(a, p) == IF a \in Covered THEN ValueRecord(None, 1, {}, p) ELSE NoValuation

\* ValuationAssembly.call and ValuationServicer.GetValuation, on the rows as
\* they are: the subject the catalogue knows, else the address.
GetValuation(a, comps, p) ==
  IF a \in Known
  THEN ValueRecord(RecordCondition(FeatureCondition(BuildFeatures(PhotoCondition(a)))), Sqft[a], comps, p)
  ELSE EstimateValue(a, p)
-----------------------------------------------------------------------------
(* Properties                                                              *)

\* The types of the state.
TypeOK ==
  /\ row \in [Addresses -> Row] /\ run \in [Runs -> Run] /\ worker \in [Workers -> Worker]
  /\ cooling \in BOOLEAN /\ failures \in Nat /\ seeding \in Seeding
  /\ overtaken \subseteq Addresses
  /\ events \in 0 .. MaxEvents

\* What a buyer is shown of a row, `findings`, is confident value-features only,
\* each cited to a photo of a listing at that very address: no red flag gets
\* there from any analysis, seed or overlap of runs (photo_analysis.rb:5-6).
BuyerSafe ==
  \A a \in Addresses : \A i \in DOMAIN row[a].is.features :
    LET f == row[a].is.features[i]
    IN /\ f.kind = "feature" /\ f.confidence >= Threshold
       /\ \E l \in Listings : /\ AddressOf[l] = a
                             /\ \/ \E n \in DOMAIN Photos[l] : f.photo = Photos[l][n]
                                \/ Photos[l] = <<>>

\* A condition that speaks for the home is explained by a feature on the same
\* row, one that speaks against it by a red flag the broker sees there -- unless a
\* run or a seed saved over a row that had changed since it was read: its UPDATE
\* names the columns that differ from what it read, and the row is of two analyses.
RowWhole ==
  \A a \in Addresses \ overtaken :
    LET is == row[a].is
    IN row[a].state # "none" =>
         /\ is.condition > Neutral => is.features # <<>>
         /\ is.condition < Neutral => RedFlags(is.review) # <<>>

\* Besides the listings whose answer it lost, a run has Claude called for at most
\* max_calls listings, whatever overlaps it: a failed call is the only one that
\* is paid for and not counted (vision_analyze_run.rb:3-4 and :32).
BudgetKept == \A r \in Runs : Cardinality(run[r].paid) <= MaxCalls

\* A key that fails costs at most one call per thread until the cooldown passes:
\* the check of the cooldown and the call are not atomic, but a thread comes back
\* to the check (vision/model.py:177-179).
BreakerHolds == failures <= Cardinality(Workers)

\* An analysis that is fresh stays as it is until the TTL passes, however often
\* the task runs -- but for a seed that is saved, and for a run that looked before
\* it was saved.
FreshKept ==
  [][\A a \in Addresses :
       row[a].state = "fresh" /\ row'[a].state = "fresh" /\ row'[a] # row[a] =>
         a \in overtaken' \/ SeedSave]_vars

\* The band has no negative price, and it brackets the estimate: when the quantile
\* regressors cross, when the band is widened, and when comps pull the estimate
\* away from the model's band.  Only an estimate the regression itself has below
\* zero lies outside: predict and anchor_and_blend clamp the band, not the estimate.
BandBrackets ==
  \A a \in Addresses, p \in Predictions : \A comps \in SUBSET Comps :
    LET v == GetValuation(a, comps, p)
    IN /\ v.low >= 0
       /\ v.estimate >= 0 => v.low <= v.estimate /\ v.estimate <= v.high
       /\ v.estimate < 0 => p.point < 0

\* A home's analysis reaches its valuation, as the worst condition too: the
\* condition is imputed, cited as derived and the band widened for it, only when
\* there is none, and it is the row's otherwise.
ConditionHonoured ==
  \A a \in Addresses \cap Known, p \in Predictions :
    LET v == GetValuation(a, {}, p)
    IN IF row[a].state = "none" THEN v.source = "derived"
       ELSE v.source = "record" /\ v.condition = row[a].is.condition

\* valuation/__init__.py:10-12: "sparse inputs (e.g. no photo-derived condition)
\* widen the band rather than asserting false precision".  The code: an analysis
\* in which no photo was looked at (none could be fetched, the breaker was open,
\* no key) is answered OK with the neutral condition, saved as fresh, and passed
\* on as a photo-derived one.
NarrowBandSeen ==
  \A a \in Addresses, p \in Predictions :
    LET v == GetValuation(a, {}, p) IN v.source = "record" => row[a].is.looked # {}

\* The task ends, whatever fails: a listing is visited once, a photo too, and the
\* cooldown is not waited for -- again and again no run is under way.
RunsEnd == []<>(\A r \in Runs : run[r].pc \notin Running)
=============================================================================
