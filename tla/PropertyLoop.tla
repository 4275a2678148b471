---------------------------- MODULE PropertyLoop ----------------------------
(***************************************************************************)
(* PropertyLoop.run_loop of the brain: one property is acquired (a cash    *)
(* offer to its seller), listed, matched with a buyer and resold (a        *)
(* purchase offer).  Both offers are drafted by the Closer within an       *)
(* authorized band on a promulgated form, and leave the brain through two  *)
(* sinks: drafted offers for Rails' awaiting-broker queue, and handoff     *)
(* packets for a human.  Both are RPCs without deadline, retry or          *)
(* idempotency key.                                                        *)
(*                                                                         *)
(* A run is synchronous; runs follow one another, over the same sinks, the *)
(* same Critic store, and possibly about the same property again.  Its     *)
(* PropertyState is a local variable: an exception discards it.            *)
(***************************************************************************)
EXTENDS Integers, Sequences

CONSTANTS
  Homes,        \* subject addresses; a home's property_id is its identity
  NoHome,       \* a blank address
  Submissions,  \* what a buyer's channel may submit: functions on Fields
  Listings,     \* listing_extras: functions on CriteriaFields
  None, Blank,  \* an absent value; an empty or whitespace string
  Photos,       \* Photos[h]: ids of the photos with findings (sample photos are shared)
  Estimates,    \* AVM estimates a band may be derived from (0: no coverage)
  PolicyBands,  \* bands set by hand
  Asked,        \* prices and counters a caller may pass, in tenths of a cent
  Default,      \* no price: the opening price
  MaxRuns       \* bound: runs of the loop

ASSUME HomesAssumption ==
  Homes # {} /\ NoHome \notin Homes /\ Submissions # {} /\ Listings # {}
ASSUME MoneyAssumption ==
  /\ Estimates \subseteq Nat /\ Asked \subseteq Nat /\ Default \notin Nat
  /\ PolicyBands \subseteq [open : Nat, ceiling : Nat] /\ MaxRuns \in Nat

(* Money is in tenths of a cent: round(x, 2) is not the identity on a band *)
(* that nobody rounded.                                                    *)
Cent == 10
RoundCents(x) == ((x + Cent \div 2) \div Cent) * Cent

AtLeastFields == {"beds", "baths", "sqft"}
AtMostFields == {"price"}
SameFields == {"location", "property_type"}
CriteriaFields == AtLeastFields \cup AtMostFields \cup SameFields
QualificationFields == {"pre_approved", "proof_of_funds", "timeline"}
\* "inferred" stands for whatever else a channel may guess about the person.
Fields == CriteriaFields \cup QualificationFields \cup {"inferred"}

VARIABLES
  run,      \* the current run
  offers,   \* Rails' awaiting-broker queue, in order of arrival
  packets,  \* the handoff queue
  results,  \* history: CloseResults handed back: [no, side, kind]
  lost,     \* history: <<no, side>> of CreateOffer calls whose reply was lost
  store     \* the Critic's fact store: store[id] is the home the fact is about

vars == <<run, offers, packets, results, lost, store>>

Sides == {"seller", "buyer"}
PropertyStatus == {"acquired", "listed", "under_offer", "sold"}
Trigger == {"legal_upl", "high_dollar"}

AuthorizedBand(b) == b.open > 0 /\ b.ceiling >= b.open

\* band_from_valuation: open at 90% of the estimate, authorized up to it.
BandFromValuation(estimate) ==
  [open |-> RoundCents((estimate * 9) \div 10), ceiling |-> RoundCents(estimate)]

\* An estimate of 0 or of less than a cent makes no band: a ValueError.
Bands == {b \in PolicyBands \cup {BandFromValuation(e) : e \in Estimates} : AuthorizedBand(b)}

\* DraftedOffer: the form's address and the band travel with the price.
DraftedOffer == [no : 1 .. MaxRuns, side : Sides, home : Homes, price : Nat, band : Bands]

FactIds == ({"valuation"} \X Homes) \cup ({"photo"} \X UNION {Photos[h] : h \in Homes})

(* pc: what the run does next                                              *)
(*   acquire, resale   the Closer drafts the seller's, the buyer's offer   *)
(*   emit, push        the RPC to one of the sinks                         *)
(*   list, match, sell the rest of run_loop                                *)
(*   returned, raised  how it ended                                        *)
Steps == {"idle", "acquire", "emit", "push", "list", "match", "resale", "sell",
          "returned", "raised"}
Ended == {"idle", "returned", "raised"}

Run ==
  [pc : Steps, no : 0 .. MaxRuns, home : Homes \cup {NoHome},
   named : BOOLEAN,                             \* property_id is not blank
   raw : Submissions, listing : Listings,
   status : PropertyStatus \cup {"none"},       \* PropertyState.status
   why : {"", "intake", "form", "identity", "unmatched", "escalated", "rpc"},
   draft : DraftedOffer \cup {None}, clause : BOOLEAN,
   facts : SUBSET FactIds,                      \* the match's claims ...
   cited : SUBSET FactIds, verified : SUBSET FactIds]
HandoffPacket == [no : 1 .. MaxRuns, side : Sides, trigger : Trigger]
CloseResult == [no : 1 .. MaxRuns, side : Sides, kind : {"offer", "packet", "nobody"}]

TypeOK ==
  /\ run \in Run
  /\ offers \in Seq(DraftedOffer)
  /\ packets \in Seq(HandoffPacket)
  /\ results \subseteq CloseResult
  /\ lost \subseteq (1 .. MaxRuns) \X Sides
  /\ store \in [FactIds -> Homes \cup {NoHome}]

Fresh(no) ==
  [pc |-> "idle", no |-> no, home |-> NoHome, named |-> TRUE, raw |-> CHOOSE s \in Submissions : TRUE,
   listing |-> CHOOSE l \in Listings : TRUE, status |-> "none", why |-> "", draft |-> None,
   clause |-> FALSE, facts |-> {}, cited |-> {}, verified |-> {}]

Init ==
  /\ run = Fresh(0)
  /\ offers = <<>> /\ packets = <<>>
  /\ results = {} /\ lost = {}
  /\ store = [i \in FactIds |-> NoHome]

Sinks == <<offers, packets, results, lost>>

\* An exception leaves run_loop; the PropertyState goes with it.
Raise(why) == run' = [run EXCEPT !.pc = "raised", !.why = why, !.status = "none"]
-----------------------------------------------------------------------------
\* Mutant of Select: what was inferred steers a buyer who named no location.
SelectSteered(raw) ==
  LET given == {g \in CriteriaFields : raw[g] \notin {None, Blank}} IN
  [f \in given \cup {"location"} |-> IF f \in given THEN raw[f] ELSE raw["inferred"]]

\* buyer_intake: of what was submitted, the allow-listed criteria with a value;
\* False and 0 are values.
Select(raw) == [f \in {g \in CriteriaFields : raw[g] \notin {None, Blank}} |-> raw[f]]

\* _matches_criteria: what the listing does not state fails the criterion.
MatchesCriteria(listing, criteria) ==
  \A f \in DOMAIN criteria :
    /\ listing[f] # None
    /\ f \in AtLeastFields => listing[f] >= criteria[f]
    /\ f \in AtMostFields => listing[f] <= criteria[f]
    /\ f \in SameFields => listing[f] = criteria[f]

\* seller_intake wants an address, buyer_intake at least one criterion.
SellerIntake(h) == h # NoHome
BuyerIntake(raw) == DOMAIN Select(raw) # {}

\* Both requests, then run_loop; or a ValueError.
Start(h, named, raw, listing) ==
  LET ready == SellerIntake(h) /\ BuyerIntake(raw) IN
  /\ run.pc \in Ended /\ run.no < MaxRuns
  /\ run' = [Fresh(run.no + 1) EXCEPT !.home = h, !.named = named,
       !.raw = raw, !.listing = listing,
       !.pc = IF ready THEN "acquire" ELSE "raised", !.why = IF ready THEN "" ELSE "intake"]
  /\ UNCHANGED <<Sinks, store>>
-----------------------------------------------------------------------------
\* Mutant of HighDollar: the band is not passed on, the default stays.
HighDollarDefault(band, price) == price >= 100000 * 100 * Cent

\* Mutant of Allows: the ceiling only.
AllowsCeiling(band, price) == price <= band.ceiling

Allows(band, price) == band.open <= price /\ price <= band.ceiling

\* decide's high-dollar trigger, as the Closer arms it for a price out of band.
HighDollar(band, price) == price >= RoundCents(band.ceiling + Cent)

\* The price of a draft: the opening price, or the caller's, in whole cents.
OfferPrice(band, asked) == IF asked = Default THEN band.open ELSE RoundCents(asked)

Draft(side, band, asked) ==
  [no |-> run.no, side |-> side, home |-> run.home, price |-> OfferPrice(band, asked),
   band |-> band]

Result(kind) == [no |-> run.no, side |-> run.draft.side, kind |-> kind]

To(pc, draft, clause) ==
  /\ run' = [run EXCEPT !.pc = pc, !.draft = draft, !.clause = clause]
  /\ UNCHANGED <<Sinks, store>>

\* fill_trec_form: a custom clause is refused before anything else is looked
\* at; the form's blanks want a positive price.
Fills(draft, clause) == ~clause /\ draft.price > 0

\* The refused clause is handed to a human.
RefuseClause(draft, clause) == clause /\ To("push", draft, TRUE)

RejectForm(draft, clause) ==
  /\ ~clause /\ ~Fills(draft, clause)
  /\ Raise("form")
  /\ UNCHANGED <<Sinks, store>>

DraftInBand(draft, clause) ==
  Fills(draft, clause) /\ Allows(draft.band, draft.price) /\ To("emit", draft, FALSE)

DraftOutOfBand(draft, clause) ==
  /\ Fills(draft, clause) /\ ~Allows(draft.band, draft.price)
  /\ HighDollar(draft.band, draft.price)
  /\ To("push", draft, FALSE)

\* Out of band, and yet decide finds no trigger and proceeds: the CloseResult
\* says "escalate", and nothing is pushed.
EscalateToNobody(draft, clause) ==
  /\ Fills(draft, clause) /\ ~Allows(draft.band, draft.price)
  /\ ~HighDollar(draft.band, draft.price)
  /\ run' = [run EXCEPT !.pc = "raised", !.why = "escalated", !.status = "none", !.draft = draft]
  /\ results' = results \cup {[no |-> run.no, side |-> draft.side, kind |-> "nobody"]}
  /\ UNCHANGED <<offers, packets, lost, store>>

\* Closer.draft_offer, up to the RPC.
Closer(draft, clause) ==
  \/ RefuseClause(draft, clause) \/ RejectForm(draft, clause)
  \/ DraftInBand(draft, clause) \/ DraftOutOfBand(draft, clause)
  \/ EscalateToNobody(draft, clause)

\* run_loop passes on no clause for the acquisition ...
DraftAcquisition(band, asked) ==
  run.pc = "acquire" /\ Closer(Draft("seller", band, asked), FALSE)

\* ... and draft_buyer_offer the one in the buyer's terms.
DraftBuyerOffer(band, asked, clause) ==
  run.pc = "resale" /\ Closer(Draft("buyer", band, asked), clause)

\* _escalate: the packet is in the queue, the run ends in a ValueError.
Packet == [no |-> run.no, side |-> run.draft.side,
           trigger |-> IF run.clause THEN "legal_upl" ELSE "high_dollar"]

Push ==
  /\ run.pc = "push"
  /\ packets' = Append(packets, Packet)
  /\ results' = results \cup {Result("packet")}
  /\ Raise("escalated")
  /\ UNCHANGED <<offers, lost, store>>

\* EnqueueHandoff fails, before or after Rails committed.
PushFails ==
  /\ run.pc = "push"
  /\ packets' \in {packets, Append(packets, Packet)}
  /\ Raise("rpc")
  /\ UNCHANGED <<offers, results, lost, store>>

\* CreateOffer answers: the CloseResult carries the offer.
Emit ==
  /\ run.pc = "emit"
  /\ offers' = Append(offers, run.draft)
  /\ results' = results \cup {Result("offer")}
  /\ run' = IF run.draft.side = "seller"
            THEN [run EXCEPT !.pc = "list"] ELSE [run EXCEPT !.pc = "sell"]
  /\ UNCHANGED <<packets, lost, store>>

\* Mutants of EmitFails: the error is swallowed, the call is made again.
EmitSwallowed ==
  /\ run.pc = "emit"
  /\ run' = [run EXCEPT !.pc = IF run.draft.side = "seller" THEN "list" ELSE "sell"]
  /\ UNCHANGED <<Sinks, store>>

EmitRetried ==
  /\ run.pc = "emit"
  /\ offers' = Append(offers, run.draft)
  /\ lost' = lost \cup {<<run.no, run.draft.side>>}
  /\ UNCHANGED <<run, packets, results, store>>

\* CreateOffer fails; in the worst case the offer is in the queue and the
\* brain does not know.
EmitFails ==
  /\ run.pc = "emit"
  /\ \/ offers' = offers /\ lost' = lost
     \/ offers' = Append(offers, run.draft) /\ lost' = lost \cup {<<run.no, run.draft.side>>}
  /\ Raise("rpc")
  /\ UNCHANGED <<packets, results, store>>
-----------------------------------------------------------------------------
NextStatus ==
  [s \in PropertyStatus |->
     CASE s = "acquired" -> "listed" [] s = "listed" -> "under_offer"
       [] s = "under_offer" -> "sold" [] s = "sold" -> "none"]

\* _advance_to, behind list_, mark_under_offer and sell.
Advances(status) == run.status # "none" /\ NextStatus[run.status] = status

\* PropertyState enters at acquired, once the acquisition offer is drafted.
Acquire ==
  /\ run.pc = "list" /\ run.status = "none" /\ run.named
  /\ run' = [run EXCEPT !.status = "acquired"]
  /\ UNCHANGED <<Sinks, store>>

\* PropertyState wants a property_id, which nobody has looked at until then.
RejectIdentity ==
  /\ run.pc = "list" /\ ~run.named
  /\ Raise("identity")
  /\ UNCHANGED <<Sinks, store>>

List ==
  /\ run.pc = "list" /\ Advances("listed")
  /\ run' = [run EXCEPT !.pc = "match", !.status = "listed"]
  /\ UNCHANGED <<Sinks, store>>

NoMatch ==
  /\ run.pc = "match"
  /\ ~MatchesCriteria(run.listing, Select(run.raw))
  /\ Raise("unmatched")
  /\ UNCHANGED <<Sinks, store>>

\* _candidate_facts: the valuation run of this listing and its photo findings.
ValuationFacts(h) == {<<"valuation", h>>}
PhotoFindingFacts(h) == {"photo"} \X Photos[h]
CandidateFacts(h) == ValuationFacts(h) \cup PhotoFindingFacts(h)

\* Mutant of Ingest: a source id that is known already is not replaced.
IngestNew(facts) == [i \in FactIds |-> IF i \in facts /\ store[i] = NoHome THEN run.home ELSE store[i]]

Ingest(facts) == [i \in FactIds |-> IF i \in facts THEN run.home ELSE store[i]]

\* The match, with its claims unverified ...
MatchUnverified ==
  /\ run.pc = "match"
  /\ MatchesCriteria(run.listing, Select(run.raw)) /\ Advances("under_offer")
  /\ run' = [run EXCEPT !.pc = "resale", !.status = "under_offer",
                        !.facts = CandidateFacts(run.home)]
  /\ UNCHANGED <<Sinks, store>>

\* ... or verified by the Critic, whose search is over the facts of every home
\* matched so far: each claim is entailed by one of them or by none, and the
\* wording rail may trip.
MatchVerified(citation, allowed) ==
  LET facts == CandidateFacts(run.home)
      cited == {citation[f] : f \in facts} \ {None}
      approved == \A f \in facts : citation[f] # None
  IN
  /\ run.pc = "match"
  /\ MatchesCriteria(run.listing, Select(run.raw)) /\ Advances("under_offer")
  /\ store' = Ingest(facts)
  /\ \A c \in cited : store'[c] # NoHome
  /\ run' = [run EXCEPT !.pc = "resale", !.status = "under_offer",
               !.facts = facts, !.cited = cited,
               !.verified = IF approved /\ allowed THEN facts \cap cited ELSE {}]
  /\ UNCHANGED Sinks

Sell ==
  /\ run.pc = "sell" /\ Advances("sold")
  /\ run' = [run EXCEPT !.pc = "returned", !.status = "sold"]
  /\ UNCHANGED <<Sinks, store>>

Next ==
  \/ (\E h \in Homes \cup {NoHome}, named \in BOOLEAN, raw \in Submissions, l \in Listings :
        Start(h, named, raw, l))
  \/ (\E band \in Bands, asked \in Asked \cup {Default} :
        \/ DraftAcquisition(band, asked)
        \/ \E clause \in BOOLEAN : DraftBuyerOffer(band, asked, clause))
  \/ Push \/ PushFails \/ Emit \/ EmitFails
  \/ Acquire \/ RejectIdentity \/ List \/ NoMatch \/ MatchUnverified
  \/ /\ run.pc = "match"
     /\ \E allowed \in BOOLEAN, citation \in [CandidateFacts(run.home) -> FactIds \cup {None}] :
          MatchVerified(citation, allowed)
  \/ Sell

Spec == Init /\ [][Next]_vars
-----------------------------------------------------------------------------
Queued(side) == {i \in DOMAIN offers : offers[i].no = run.no /\ offers[i].side = side}

\* "the loop refuses to mark a property acquired/sold without the backing
\* drafted offer" (loop.py:330-334): whatever RPC failed and wherever the run
\* was, a listed or matched property has its acquisition offer in Rails' queue,
\* and a sold one its resale offer behind it, about the same address.
StatusBacked ==
  /\ run.status # "none" =>
       \E i \in Queued("seller") : offers[i].home = run.home
  /\ run.status = "sold" =>
       \E i \in Queued("seller"), j \in Queued("buyer") :
         i < j /\ offers[i].home = offers[j].home

\* "Exactly one of offer / handoff", "never both" (closer.py:245-251, 330-333):
\* of one draft the broker gets an offer to sign or a packet to think about; an
\* offer he gets is within its band and no clause was asked for with it, even
\* when the same run drafts twice and any of its RPCs fails halfway.
OfferXorPacket ==
  \A i \in DOMAIN offers :
    /\ offers[i].band.open <= offers[i].price /\ offers[i].price <= offers[i].band.ceiling
    /\ \A k \in DOMAIN packets :
         <<packets[k].no, packets[k].side>> # <<offers[i].no, offers[i].side>>

\* What is in the awaiting-broker queue is there once, and the brain knows of
\* it unless Rails' answer was lost; what the brain reports is in the queue
\* (closer.py:405-421, 211-235).
OffersAccounted ==
  /\ \A i, j \in DOMAIN offers :
       <<offers[i].no, offers[i].side>> = <<offers[j].no, offers[j].side>> => i = j
  /\ \A i \in DOMAIN offers :
       \/ [no |-> offers[i].no, side |-> offers[i].side, kind |-> "offer"] \in results
       \/ <<offers[i].no, offers[i].side>> \in lost
  /\ \A r \in results : r.kind = "offer" =>
       \E i \in DOMAIN offers : offers[i].no = r.no /\ offers[i].side = r.side

\* "A price ... ABOVE it is out-of-band and forces a handoff" and so does a
\* clause request (closer.py:70-77, 377-395): an escalation that reaches
\* nobody is never about one of these.  It exists: a price below the opening
\* price, or above a ceiling that is no whole cent by less than a cent.
AboveCeilingIsRouted ==
  run.why = "escalated" /\ Result("nobody") \in results =>
    ~run.clause /\ run.draft.price < RoundCents(run.draft.band.ceiling) + Cent

\* The criteria as they count: a blank answer is none.
Neutral(raw) == [f \in CriteriaFields |-> IF raw[f] = Blank THEN None ELSE raw[f]]

\* Equal service (matching.py:279-284, buyer_intake.py:211-216): whether the
\* property is found for a buyer depends on the criteria stated, and on nothing
\* else that was submitted with them.
EqualService ==
  \A twin \in Submissions : Neutral(twin) = Neutral(run.raw) =>
    /\ run.status = "under_offer" => MatchesCriteria(run.listing, Select(twin))
    /\ run.why = "unmatched" => ~MatchesCriteria(run.listing, Select(twin))

\* A claim the buyer is shown as verified cites a source that speaks about the
\* matched home, though homes share sample photos, the store keeps the facts of
\* every home matched before and the Critic's search is not scoped
\* (matching.py:211-247, rent_cast_import.rb:10-22).
VerifiedAboutOwnHome == \A f \in run.verified : f \in run.cited /\ store[f] = run.home
=============================================================================
