# Formal models of the Atlas real-estate agent

TLA+ modules that model the stateful core of this repository, TLC configurations that
check them on small instances, and TLAPS proofs of what holds on every instance. Every
definition is translated from the source; `PROJECT.json` maps each one to its lines.

    cd tla
    tlc -workers 2 -config MC_Closing_race.cfg MC_Closing      # any run of PROJECT.json
    tlapm Closing_proofs.tla                                   # any *_proofs module

## 1. The system

Three tiers, all in `src/services/`:

- **domain** (Ruby on Rails, PostgreSQL): the system of record. Visitors, listings, offers,
  contracts, showings, closing milestones, conversations and the append-only audit log,
  served by puma: several worker processes with several threads each, no advisory lock, no
  `with_lock`, and almost no transaction that spans two statements.
- **brain** (Python, gRPC): the agent. The LangGraph orchestrator answers questions with
  verified, cited claims; the closer drafts contracts; the closing service pings
  counterparties. It is called by the domain, never the other way round (the domain's own
  gRPC server is the seam for later). One process, a pool of worker threads, memory only.
- **gateway, voice, chat, ingestion** (Go): the REST edge, the voice transport, a demo page
  and a batch loader.

### Components

| component (source) | state | operations | modelled by |
|---|---|---|---|
| closing pipeline (`closing_orchestration.rb`, brain `closer_service.py`, `closing.py`) | `closing_milestones`, pings sent | record a milestone | `Closing` |
| scheduling (`appointment.rb`, `showing_scheduler.rb`, two controllers) | `appointments` | book, confirm, decline, complete, offer slots | `Showings` |
| audit log (`audit_event.rb`) | `audit_events` | append, verify | `AuditLog` |
| offers (`create_offer.rb`, `negotiation_response.rb`, `contract_generation.rb`, `enqueue_handoff.rb`) | `offers`, `negotiations`, `contracts`, `offer_metrics`, `handoff_packets` | create, counter, sign, draft the contract | `Offers` |
| orchestrator (brain `orchestrator/graph.py`, `lawyer/`, `rag/`) | fact store, checkpoints | one run per question: generate, critique, decide, send, regenerate, hand off | `Orchestrator` |
| closer and property loop (brain `loop.py`, `closer.py`, `buyer_offer.py`, `trec_form.py`), intake and matching (`buyer_intake.py`, `seller_intake.py`, `matching.py`) | property status, drafted offers, packets, the Critic's fact store | acquire, list, match, resell | `PropertyLoop` |
| vision and photo pre-warming (brain `vision/`, `server.py`; `vision_analyze_run.rb`, `sample_vision_seed.rb`, `photo_analysis.rb`) | `photo_analyses`, the breaker, the threads | analyse within a budget, seed, expire | `Vision` |
| valuation (`valuation_assembly.rb`, brain `valuation/`) | none | condition, band, comps | operators of `Vision` |
| visitors and intent (`visitor.rb`, `intent_triage.rb`) | profile, `handed_off` | record signals, route one handoff | not modelled |
| conversations and inbound channels (`conversation.rb`, `inbound_turn.rb`) | `conversations`, `messages` | one turn | not modelled |
| catalog (`property.rb`, `rent_cast_import.rb`) | `properties` | transition, import, retire | not modelled |
| consent (`consent.rb`) | `consents` | opt out, ask | not modelled |
| voice transport (Go) | sessions | start, append | not modelled |
| gateway (Go) | none (tokens) | verify, authorise | not modelled |
| search, decision bundles, ingestion, pages | none | - | not modelled, see section 7 |

### How they interact

- A handler of the domain is a sequence of separate SQL statements, with gRPC calls between
  them (closing -> brain `RecordMilestone`; contract -> brain `CloserService`; inbound ->
  brain `Orchestrate`). Each call rescues every error into a fallback, so the domain cannot
  tell "not delivered" from "delivered, answer lost".
- Offers, showings and closing all write to the audit log after their own commit; a worker
  that dies in between leaves a change without its event.
- Active Record's `update!` writes only the attributes that differ from the row *as
  loaded*; two handlers holding the same row merge column by column.
- The property loop gives Rails what it drafts through two RPCs without deadline, retry or
  idempotency key; an exception after one of them discards the loop's state, not the offer.
- A run of `rake vision:analyze` reads a row, has the brain look at the photos for minutes,
  and saves; the brain's threads share one circuit breaker; the valuation of every page
  reads whatever row is there.
- A brain run shares the fact store, the checkpoints (keyed by thread id, `"anon"` by
  default) and the sink with every other run.

### What is hard

Check-then-act across statements and RPCs; loads that are stale when written back; unique
indexes and validations as the only arbiters; workers that die between two commits; answers
lost after the effect; two id orders (sequence and commit) in the audit chain; a dictionary
mutated under an iteration; a verification, a rewrite and a trace that must move together;
offers that outlive the run that drafted them; prices that round across the edge of a band;
a breaker that is checked, passed and tripped in three steps; an analysis of nothing that
looks like an analysis that found nothing.
`PROJECT.json` lists each hazard at its line with the properties that watch it.

### What makes each component correct

- *closing*: milestones appear in canonical order, once; a row that says "simulated" was
  pinged; every row is audited, once; the brain being down never blocks the deal.
- *scheduling*: no two active showings of one home, or of one broker, overlap; each
  transition is audited; each offered slot can be booked.
- *audit log*: an untouched log verifies; a log that verifies says what it said when it was
  written, as far as the hashed text tells.
- *offers*: no price outside the authorised band; a contract only after a signature; an
  out-of-band counter always reaches a broker; an offer that is queued never moves backwards.
- *orchestrator*: what is sent was verified, in those words, against facts of that property,
  and passed every rail; every run ends.
- *property loop*: a status is backed by the offers in the broker's queue; an offer excludes
  a packet; nothing is queued that nobody knows of, but for a lost answer; an escalation
  reaches somebody; buyers who ask for the same get the same; a claim about a home rests on
  a fact about that home.
- *vision*: a buyer never sees a red flag; a condition is explained by its row; the budget
  and the breaker hold across threads; what is fresh is kept; the task ends.
- *valuation*: the band holds no negative price and brackets the estimate; an analysis
  reaches the valuation.

## 2. Modules

| module | contents |
|---|---|
| `ClosingTracker` | abstract: per deal, a prefix of the milestones that grows and never changes |
| `Closing` | `ClosingOrchestration#call` by concurrent requests: check, RPC, insert, audit, crash |
| `Closing_proofs` | its theorems |
| `Showings` | booking, broker actions with their re-checks, the slot generator |
| `Showings_proofs` | its theorems |
| `AuditLog` | `create!` as read, insert, commit or rollback; `chain_intact?`; edits past the model |
| `AuditLog_proofs` | its theorems |
| `OfferLifecycle` | abstract: drafted, queued once, signed, contracted; signing does not wait for the queue |
| `Offers` | create, enqueue, counter, escalate, sign, contract, by concurrent requests |
| `Offers_proofs` | its theorems |
| `Orchestrator` | the graph's nodes and routes on concurrent workers |
| `Orchestrator_proofs` | its theorems |
| `PropertyLoop` | `run_loop` from intake to resale, the Closer's drafts, the two sinks, run after run |
| `PropertyLoop_proofs` | its theorems |
| `Vision` | the photo task, `AnalyzePhotos` and its breaker, the rows, and the valuation that reads them |
| `Vision_proofs` | its theorems |
| `Inductions` | lemmas for the proofs: least naturals, induction over numbers and finite sets, extremes and the first few of a finite set, sums |
| `MC_*` | instances: constants, symmetry |

### Correspondence

A **thread** (`req[r]`, in the brain `turn[w]`) is a record with a program counter and the
local variables it holds between two accesses to shared state. One action is one access and
the local computation around it; the guards are the code's conditions and early returns.
Between two actions of a thread any other may run. `Begin...` is a request arriving with
any inputs a page, or a hand-made POST, can send.

- **Closing.** `rows` are the ping statuses of the table, `pings` counts what the brain
  emitted, `audits` the events. A record request reads the table (`Check`), calls the brain
  (which may ping and answer, ping and lose its answer, or be unreachable), inserts behind the
  unique index (the loser returns the winner's row), audits. `Mortal` threads may die
  between any two steps; `orphans` is history: rows whose own worker died before auditing.
- **Showings.** Time is an integer; a day has `DayLength` instants, a showing occupies
  `SlotLength`. Booking: the controller's `slot_free?`, then the validation's read, then the
  insert. Broker actions: load, re-check home and broker, update what differs from the
  loaded row, audit. `tainted` is history: some write followed a re-check that another
  write had overtaken. `SlotsOfDay` is the grid of one business day, `CandidateSlots` those of
  the horizon that lie ahead, `AvailableSlots` the first few that nothing collides with.
- **AuditLog.** Ids come from a sequence and are never reused; a row becomes visible at
  commit. `create!` reads the last committed row, inserts, then commits or rolls back. A row
  has two hashed columns and one that is not hashed (`claim`, `source_id`, `created_at`);
  `Joined` is the text that `compute_content_hash` joins with "|", nil as nothing, so that
  different rows may have one text. The hash of a text is taken to be injective, as SHA-256
  is in practice, and `prev_hash`, hexadecimal and last in the text, to be told apart from
  what precedes it. `EditColumn` replaces a committed row's columns by SQL. `raced` is
  history: an insert used a last row that was no longer the last at its commit.
- **Offers.** Each thread holds the offer as loaded (`status`, `amount` of `req[r]`) and
  updates what differs. `BeginSign` and `BeginCounter` take any row there is (`Found`), as
  `Offer.find(params[:id])` does: signed, in the queue, or still being drafted by another
  thread or for ever. `counters`, `packets` and `audited` are the negotiation, packet and
  audit rows by amount. Three histories: `abandoned`, counters whose worker died before the
  escalation was complete; `early`, offers signed before `CreateOffer` had queued them;
  `stranded`, those whose `CreateOffer` died before it could.
- **Orchestrator.** A message is the property it speaks about and the *kinds* of claims it
  makes: "no data", one per fact of the valuation, and one made up. The entailer may judge a
  claim in any way its contract allows (no evidence, no entailment), the LLM rewrite, which
  is shown the customer's own words, may contain anything and be about any property: neither
  the entailer nor `send` looks whose property a sentence names. Ingest is two writes (fact,
  vector), a search is two steps (start of the iteration, end), so that runs collide as
  threads do. The composite score is exact: `Composite` is the code's value times 2000 n, in
  integers.

- **PropertyLoop.** The loop is synchronous: `run` holds what `run_loop` has in its locals
  (`pc`, the `PropertyState`, the draft), `offers` and `packets` are Rails' two queues,
  `store` the Critic's. `Start` is a call with any address, submission and listing;
  `DraftAcquisition` and `DraftBuyerOffer` are the Closer with each of its outcomes;
  `Emit`/`EmitFails` and `Push`/`PushFails` are the RPCs: `EmitFails` may have queued the
  offer. `Raise` is an exception. Money is in tenths of a cent, since `round(price, 2)` moves
  prices across the edge of an unrounded band. A buyer's submission is a function from field
  names to values, one of them whatever else a channel may have inferred. `results` and
  `lost` are history.
- **Vision.** `run[r]` is one `VisionAnalyzeRun.call`, `worker[w]` one thread of the brain.
  `Ask` reads the row, `Serve` picks the call up, `Send` is past the check of the cooldown,
  `Answered`, `Garbled` and `TransportFails` are what comes back for a photo, `Reply` ends
  the RPC, `Save` is `save!` with its dirty columns against the row as it is now, or the
  duplicate key that ends the run. After `RpcFails` or `Kill` the thread goes on for nobody.
  `SeedFind` and `SeedSave` are a listing of `SampleVisionSeed`, with the same `save!`; one
  seed runs at a time. `TtlPasses` and `CooldownPasses` are the rest of the world. `GetValuation` is the
  path from a row to a band as operators over integers (percents, thousandths); the output
  of the regression is a parameter. `failures`, `overtaken`, `paid` and `looked` are history.

## 3. Runs

| run | question | bounds | result |
|---|---|---|---|
| `closing_race` | do order, pings, audit and liveness survive two racing requests, one mortal? | 1 deal, 4 milestones, 2 threads | holds, 347k states |
| `closing_doubleping` | is a counterparty pinged once per milestone? | 2 milestones | **violated** |
| `showings_race` | do re-checks miss a clash when nobody overtakes? is each transition audited? can every offered slot be booked? | 2 homes, 1 broker, 2 rows, 2 mortal threads, at most one audit lost | holds, 765k states |
| `showings_homerace` | does the validation reject a concurrent double booking? | 1 home, 2 rows | **violated** |
| `auditlog_append` | does the chain verify when nobody raced; what does a log that verifies guarantee after edits? | 2 writers, 3 ids, 4 events (nil and "", a word moved over the bar, two times), edits | holds, 1.8M states |
| `auditlog_race` | does an unedited log verify? | 2 writers, 3 ids | **violated** |
| `offers_race` | prices, contracts, escalation, audit, life cycle, liveness under races | 1 offer of 3 kinds, 3 counters, 2 threads, one mortal | holds, 521k states |
| `offers_signedcounter` | does an accepted counter await the broker? | 1 seller's offer, 1 counter | **violated** |
| `orchestrator_shared` | traces, rails, thresholds, whose answer it is, termination | 2 workers, 1 thread; 3 covered addresses, two with one slug, an uncovered one; only `home` answered for, the others handed off; rewrites about any of them; 2 attempts; scores 50/100 | holds, 732k states |
| `propertyloop_faults` | are status, queue, packets and matches consistent whatever fails? | 2 runs, 2 homes with one sample photo, a rounded and an unrounded band, 4 prices, equal and unequal buyers | holds, 782k states |
| `vision_overlap` | rows, budget, breaker, freshness, termination; the band of every valuation on the way | 2 runs, 2 threads, 2 photos, `max_calls` 1, 2 events (lost answer, kill, seed, TTL, cooldown); 3 outputs of the regressors, one negative | holds, 681k states |
| `vision_unseen` | does an analysis without a photo widen the band? | as above, no events | **violated** |

Why the bounds are enough. Every race in this code is between two handlers on one row or
one key: a third thread adds no new pair of a stale read and a write, and the theorems of
section 5 hold for any number of threads, rows and deals. Four milestones exercise first,
middle and last in `Closing`; two start times closer than a slot and one off the grid
exercise every overlap in `Showings`; of the counters 5 lies inside the seller's band and 3
below it, both lie above the band of an offer that has none in its form, and zero stands for
unparseable input; three audit ids allow a fork, a rollback between commits and an append
after an edit. One property is answered for in `orchestrator_shared`: the runs about the
others ingest, search, are verified and write the checkpoint, which is how they disturb it.
One fact, scores below and above the 0.6 of both thresholds, rewrites of one claim or two (the
fact and a made-up one, whose mean of 75 passes) and two passes reach both sides of every
route of the orchestrator; two workers collide at every pair of store accesses. An ingest of
several facts, which another run may interleave with fact by fact, is left to the theorems,
which hold for any `NumFacts`: with two of them the two runs no longer fit the time of a run.
Two runs of the property loop are what it takes for one to find what the other left in the
sinks and in the store. Two runs and two threads of the vision task make every pair of a stale read and a save, and a call that fails
after the breaker has tripped; two events let an answer be lost and the run be killed, or
the cooldown pass twice. Symmetry is used for threads, writers and
brokers only, in runs without liveness.

Deadlock is checked except where the system may really stop: the sequence of audit ids is
bounded, the runs of the property loop and of the vision task are over. Counters that only grow saturate
(`MaxPings`) or are sets.

**Fairness.** `Vision` assumes weak fairness of `Progress`: as long as the task or a thread
of the brain can go on, one of them does (the task is a loop over a list, the transport has
a timeout of its own). Nothing has to start, fail or expire. `PropertyLoop` states no
liveness: its RPCs have no deadline. `Closing`, `Offers` and `Orchestrator` assume weak
fairness of one thread's continuation: puma and gRPC worker threads that have taken a request execute it, and no
lock or queue can hold them up. Nothing forces a person to press a button, and a mortal
thread may die at any step, so liveness is stated for the others. One assumption is about the
world and not the code: an RPC is answered or its connection breaks. The Rails clients set
no deadline, so a brain that accepts a call and hangs holds the request for ever; the
liveness properties say nothing of that case.

### Findings

Five statements of the repository are not what the code does; each is a run of its own, and
the counterexample is short.

1. `closing_doubleping`: two requests pass the existence check before either inserts; both
   call the brain, which pings twice. The unique index keeps one row, not one ping.
2. `showings_homerace`: the model validation is a read before the write; two bookings of one
   slot both pass it and both commit.
3. `auditlog_race`: two appends chain to the same row, and `chain_intact?` calls an untouched
   log tampered with.
4. `offers_signedcounter`: a counter accepted after the signature reprices a signed offer,
   which never returns to the queue the reply promises.
5. `vision_unseen`: an analysis in which no photo was looked at is answered OK, saved as
   fresh, and passed on as a photo-derived condition of 0.5; the band is not widened, though
   `valuation/__init__.py:10-12` says that a missing photo-derived condition widens it.

More, met while modelling, are visible in the definitions and are not runs of their own:

- `audit_event.rb:8` says the chain "makes after-the-fact tampering detectable", and `:43-44`
  that `chain_intact?` tells. An edit that keeps the joined text is not detected: nil made "",
  words moved over a "|", any change of `created_at` (`Joined`, `EditDetected`).
- `offer.rb:22` queues an offer before a broker may sign it, and the dashboard
  (`broker/offers_controller.rb:2-4`) lists only queued ones; `sign` takes any id, a drafting
  offer included. If `CreateOffer` is still under way, its `update!` then moves the signed
  offer back to `awaiting_broker`, with a contract or about to get one (`early`).
- `graph.py:189-191` has every claim that reaches a customer verified; verified is a sentence
  against the facts of the run's property, not its subject. A rewrite that names another
  address over the same figures may be adopted (`reworded`, `AnswerOwnAddress`).
- `valuation/model.py:150-164` and `market.py:54-60` keep the band ordered, "bracketing the
  estimate", and clamp its low end at zero; the estimate is not clamped. A negative output
  of the point regressor would be returned, under a band that begins at zero (`BandBrackets`).
- The comment at `closer.py:377-395` has the out-of-band escalation "always" fire; below the
  band, or less than a cent above a ceiling that is no whole cent, it pushes no packet.
  `AboveCeilingIsRouted` says exactly where it does.
- `sample_vision_seed.rb` says a live analysis overwrites the samples; it does so only after
  their TTL, since `vision_analyze_run.rb:22` skips what is fresh (`Skip`, `FreshKept`).
- `BudgetKept` has to except lost answers: a call that fails is not counted though Claude may
  have been paid for it (`vision_analyze_run.rb:31-32`).
- `llm.py:22` opens Gemini's breaker "after a quota/transport failure"; only an HTTP error
  does (`llm.py:61-65`), a timeout or a refused connection does not. The breaker of vision,
  which is modelled, opens on any failure of the transport.

The passing runs show how far each goes: `ExclusiveUnlessOvertaken` and `IntactUnlessRaced`
say the checks miss nothing but such a race, `ContractAuthorized` that even a stale contract
has a price within the authorisation.

## 4. Properties worth a second look

- `NeverDeadEnds`: the surviving loser of a race relies on the winner's row, even a winner
  that died right after inserting it.
- `QuiescentAudited`, `StatusAudited`, `EscalatedWhenQuiescent`: they do not say "audited
  unless something went wrong" but name exactly which row may be missing: the one whose own
  worker died at the one step in between.
- `IntactUnlessRaced`: includes rollbacks, gaps in the ids and commits out of id order.
- `OfferedSlotsBookable`: evaluated in every state for every instant of a day.
- `ApprovedProceeds`: two thresholds on different scales must agree or approved answers
  silently go to a human.
- `AnswerOwnAddress`: a run starts with another run's verification in its state, and cites
  from a store in which another property may overwrite its facts.
- `ContractAuthorized`, `QueuedHasMetric`: a signature may overtake the queueing; they name
  the offers it did that to, and hold the rest to the plain rule.
- `EditDetected`: what a log that verifies guarantees, after edits and appends on top of them.
- `StatusBacked`, `OffersAccounted`: the status a loop returns and the queue in Rails are
  written by different processes, and an exception takes one without the other.
- `AboveCeilingIsRouted`: a band of two unrounded numbers, a price rounded to cents, and two
  comparisons of them in two functions.
- `RowWhole`: a save writes the columns that changed against the row as loaded, over a row
  that another run has replaced in the meantime.
- `BreakerHolds`: the cooldown is checked by one thread, tripped by another, and passes for all.
- `BandBrackets`: a condition that moves the estimate must move the band with it.

## 5. Proofs

For every value of the constants that satisfies the modules' assumptions (non-empty sets,
positive bounds, `Mortal` a subset of the threads). `Vision` also assumes what the world
hands in: replies are lists of kinds and whole confidences (`RepliesAssumption`; anything else
is `Garbled`), and None is not a number (`MarketAssumption`). Nothing is assumed of the three
regressors but that they return numbers: they add up trees fitted to residuals, so the
quantiles may cross and the point estimate may be negative. `AuditLog` assumes nothing of the
columns; that equal hashes mean equal texts is in its definition of `Digest`.

| theorem | says | rests on |
|---|---|---|
| `TypeCorrect` (every component) | `Spec => []TypeOK` | types of the step helpers; in `Vision` and `Orchestrator` the whole invariant, since a condition is in range only if it was computed from valid findings, and a run drafts again only while attempts are left |
| `CanonicalOrderHolds` | recorded milestones are a prefix | `OrderInv`: a thread past the order check holds a milestone whose predecessors are recorded |
| `SimulatedWasPingedHolds` | no claimed ping without a ping | `PingInv`: a thread that holds "simulated" has pinged |
| `AuditMatchesRowHolds`, `QuiescentAuditedHolds` | one event per row, holes only at orphans | `AuditInv`, `OwnerInv`, `OrphanInv`: an unaudited row has one owner, a thread about to audit it or dead |
| `ImplementsTracker` | `Closing` implements `ClosingTracker` | `OrderInv` and one step per action |
| `ExclusiveUnlessOvertakenHolds`, `SerialExclusive` | clashes only after an overtaking; none with one thread | `ShowingInv`: an untainted thread past a re-check has nothing active in its way |
| `StatusAuditedHolds` | the last status of a row is audited, or lost with its worker | `StatusCovered`: a status is on record or in the hands of a thread about to audit it; a partial update that writes nothing leaves one that was covered before |
| `OffersAreBookable` | a slot the page offers can be booked | slots of a day are a grid, so any two are equal or a slot apart (`Multiples`); the first few of a finite set (`FirstFew`) are free candidates |
| `EditDetectedHolds`, `PrevIsEarlierHolds`, `IntactUnlessRacedHolds`, `SerialIntact` | the chain; a log that verifies joins to the texts it was written with | `LogInv`: a digest is that of the columns written, whatever was edited since, and equal digests have one text (an edit that keeps it is never detected: `SameTextIntact`); `EarlierInv`, `FreshInv`: an unraced reader still holds the last digest |
| `AmountAuthorizedHolds`, `ContractAuthorizedHolds` | prices and contracts | `OfferInv`: what a thread holds was authorised when loaded, and authorisation never lapses; `ContractSigned`, `Placed`: an early signature is never forgotten, and the metric tells whether an offer that is past drafting has been queued |
| `QueuedHasMetricHolds`, `EscalatedWhenQuiescentHolds` | the metric of exactly the offers that were queued; no counter outside the band forgotten | `EscalationInv`: such a counter is audited, abandoned by its dead worker, or in one thread's hand |
| `ImplementsLifecycle` | `Offers` implements `OfferLifecycle` | `OfferInv`, one step of the life cycle or none per action: a save of what differs moves a queued offer forward only, and the one `enqueue_for_broker!` of an offer is its queueing |
| `StatusBackedHolds`, `OfferXorPacketHolds`, `OffersAccountedHolds`, `AboveCeilingIsRoutedHolds` | statuses, queue and packets | `LoopInv`: `RunShape` (what the run holds at each step), `Ahead` (nothing is queued of a run that is to come), `Backed` (past acquisition, the offer is queued) |
| `EqualServiceHolds`, `VerifiedAboutOwnHomeHolds` | equal buyers, own facts | the Closer sees only what the neutral fields of a submission select; `RunShape`: the run's facts are those of its home |
| `BreakerAlwaysHolds` | no more failures in a row than threads | `Breaker`: the failures since the breaker closed and the calls that may still fail are of different threads |
| `BudgetAlwaysKept`, `FreshAlwaysKept` | the budget; fresh rows are kept | `Served` (one thread per run), `Account` (paid calls are counted but for the one in hand), `Unfresh` |
| `BuyersAlwaysSafe`, `RowsStayWhole` | what a buyer is shown; a condition and its reasons | `DataInv`: the findings in a thread, an answer and a row may be shown at their address, and a condition travels with what it was computed from until a save meets a row that changed |
| `ConditionsHonoured`, `BandsBracket` | a row's condition reaches the band; the band has no negative price and brackets every estimate that is none either | `DataInv` (a row's condition is in range), then the valuation's steps in order: quantiles sorted, band widened, blended with the comps; comps have positive prices, so the blend of a nonnegative estimate is nonnegative |
| `AnswersStayOnAddress` | a run's own wording is about the property asked about; an answer cites facts filed under its run id | `DraftInv`, `WordingInv`: an earlier draft is reused only after this run's first attempt; `CitedInv`: a fact a run cites was found in its scope, is never removed, and is overwritten only under the same run id |
| `TracesMatch`, `AnswersPermitted` | the trace verifies the words sent; the rails | `Vouched`: what is ready to send, through the rewrite and its second verification too, is supported, cited and allowed |
| `FailuresNeedACrowd` | facts are lost only to an overlapping ingest | `StoreInv`: a fact without its vector is in the hands of a worker about to embed it; a search nobody overlapped walks the store as it is |
| `ThresholdsAgree` | what the Critic approves proceeds | arithmetic: of n claims that all pass the gate, the composite is at least 1560 n of 2000 n, against a threshold of 1200 n |

Each invariant says what the *threads* know, since none of the properties is inductive
alone: a check made three steps ago protects nothing unless the invariant carries it. Every
proof is one step per action; lemmas about the helpers are stated once.

Two kinds of argument go beyond one step at a time. The slots, the sums and the comps are
computed over finite sets and sequences of any length; the proofs about them argue by a least
counterexample, from the well-foundedness of the naturals (`LeastNatural`), and get induction
as statements about sets (`Induction`, `SetInduction`), since the library's own take an
operator as a parameter, which cannot be instantiated. And the history variables (`tainted`,
`raced`, `orphans`, `abandoned`, `early`, `stranded`, `lost`, `overtaken`, `crowded`) carry
the exact exception of each property through the induction: the invariant says which thread
still owes what.

Only model-checked: liveness (`NeverDeadEnds`, `SignatureAnswered`, `RunEnds`, `RunsEnd`),
since fairness and ENABLED are beyond the provers used here. Every safety invariant and every
other action property of a passing run is a theorem above.

## 6. Plan

Done: closing, showings, audit log, offers, property loop, orchestrator, vision with valuation
(modelled, checked, proved). Next, in this order:

1. An abstract `GroundedAnswer` (a question is answered about its property, or handed off)
   that `Orchestrator` implements, as `ClosingTracker` is for `Closing`.
2. `Visitors` (one handoff per visitor, and what a failed `save!` repeats) and `Conversation`
   (two messages of one contact, a redelivered webhook), composed with the orchestrator's
   promise abstracted to *answer or hand off*.
3. `DealDesk`: offers, closing and the inspection a completed showing records, composed over
   one deal, with the abstract deal they implement.
4. `VoiceSession`: the turns and replies of two requests on one session.

Runs stay few: one race per component, and a run per finding.

## 7. Not modelled, and why

- Visitors, conversations, voice: their state is a flag, a log and a list, and each has the
  one interleaving that `PROJECT.json` lists as a hazard; they are next in the plan.
- The catalog: the import, a sequential batch, is its only writer, since nothing in the
  application calls the transitions of `Property`. Its boundary at one active listing is
  listed as a hazard.
- Consent: nothing in the application asks `outreach_allowed?`. The gateway: stateless.
- The offline evaluations of accuracy and fairness and the recorder of the time to an offer:
  reports over files. Gemini as a vision model (not wired in), bounding boxes, contingencies,
  `property_record_prewarm` (the skip and budget of the photo task; it counts blank answers too).
- Listing search and decision bundles: stateless queries and wording.
- Ingestion, synthetic data: sequential batches that unit tests reach.
- Pages, helpers, mailers, generated protobufs, deployment.
- Two exposures of the environment: `closing_client.rb:18` calls the brain without a deadline,
  and the default sink of `handoff.py:212` keeps packets in the brain's memory, so that a
  restart forgets them. The models take a call to be answered or broken, and the brain to live.
- In the modelled parts: wording, timestamps that nothing compares, the blackout of a
  listing (it only filters offered slots), the inspection milestone a completed showing
  records, embeddings and ranking, the pgvector store and the Postgres checkpointer: the
  brain's server builds the orchestrator with its in-memory defaults (`server.py:145-151`).
