------------------------ MODULE PropertyLoop_proofs ------------------------
(***************************************************************************)
(* Proofs about PropertyLoop, for any homes, submissions, listings, bands, *)
(* prices and number of runs, and with any of the sinks' calls failing.    *)
(***************************************************************************)
EXTENDS PropertyLoop, TLAPS

Working == run.pc \notin Ended
\* The draft in hand is the acquisition's, the resale's.
Drafted(side) == run.pc \in {"emit", "push"} /\ run.draft.side = side

\* What a run knows where it stands.
RunShape ==
  /\ Working => run.home \in Homes /\ run.no \in 1 .. MaxRuns
  /\ run.pc \in {"emit", "push"} =>
       run.draft \in DraftedOffer /\ run.draft.no = run.no /\ run.draft.home = run.home
  /\ run.pc = "emit" => Allows(run.draft.band, run.draft.price)
  /\ run.pc \in {"idle", "acquire", "raised"} \/ Drafted("seller") => run.status = "none"
  /\ run.pc = "list" => run.status \in {"none", "acquired"}
  /\ run.pc = "match" => run.status = "listed"
  /\ run.pc \in {"resale", "sell"} \/ Drafted("buyer") => run.status = "under_offer"
  /\ run.pc = "returned" => run.status = "sold"
  /\ run.pc \notin {"push", "raised"} => run.clause = FALSE

\* Nothing is queued or reported of a run that is to come, and of the present
\* one nothing yet that ends it or that it is only about to queue.
Ahead ==
  /\ \A i \in DOMAIN offers : offers[i].no <= run.no
  /\ \A k \in DOMAIN packets :
       packets[k].no <= run.no /\ (Working => packets[k].no # run.no)
  /\ \A r \in results :
       r.no <= run.no /\ (Working => r.no # run.no \/ r.kind # "nobody")
  /\ run.pc = "acquire" \/ Drafted("seller") => Queued("seller") = {}
  /\ run.pc \notin {"sell", "returned", "raised"} => Queued("buyer") = {}

\* The acquisition offer is in the queue as soon as the run is past it, the
\* resale offer behind it when the property is about to be sold.
Backed ==
  /\ run.pc \in {"list", "match", "resale", "sell", "returned"} \/ Drafted("buyer") =>
       \E i \in Queued("seller") : offers[i].home = run.home
  /\ run.pc \in {"sell", "returned"} =>
       \E i \in Queued("seller"), j \in Queued("buyer") :
         i < j /\ offers[i].home = offers[j].home

LoopInv ==
  /\ TypeOK /\ RunShape /\ Ahead /\ Backed
  /\ OfferXorPacket /\ OffersAccounted /\ AboveCeilingIsRouted
-----------------------------------------------------------------------------
LEMMA BandType == \A b \in Bands : b.open \in Nat /\ b.ceiling \in Nat
BY MoneyAssumption DEF Bands, BandFromValuation, RoundCents, Cent

LEMMA PriceType ==
  ASSUME NEW band \in Bands, NEW asked \in Asked \cup {Default}
  PROVE  OfferPrice(band, asked) \in Nat
BY BandType, MoneyAssumption DEF OfferPrice, RoundCents, Cent

LEMMA DraftType ==
  ASSUME TypeOK, RunShape, Working, NEW side \in Sides,
         NEW band \in Bands, NEW asked \in Asked \cup {Default}
  PROVE  LET d == Draft(side, band, asked)
         IN /\ d \in DraftedOffer
            /\ d.no = run.no /\ d.home = run.home /\ d.side = side /\ d.band = band
BY PriceType DEF RunShape, Draft, DraftedOffer

LEMMA FactsType == \A h \in Homes : CandidateFacts(h) \subseteq FactIds
BY DEF CandidateFacts, ValuationFacts, PhotoFindingFacts, FactIds

LEMMA FreshType ==
  ASSUME NEW no \in 0 .. MaxRuns
  PROVE  /\ Fresh(no).pc = "idle" /\ Fresh(no).no = no
         /\ Fresh(no).status = "none" /\ Fresh(no).clause = FALSE
         /\ Fresh(no).why = ""
         /\ Fresh(no) \in Run
BY HomesAssumption DEF Fresh, Run, Steps

LEMMA InitInv == Init => LoopInv
<1> SUFFICES ASSUME Init PROVE LoopInv
  OBVIOUS
<1>1. run = Fresh(0) /\ 0 \in 0 .. MaxRuns
  BY MoneyAssumption DEF Init
<1>2. run \in Run /\ run.pc = "idle" /\ run.no = 0 /\ run.status = "none" /\ run.clause = FALSE
        /\ run.why = ""
  BY <1>1, FreshType
<1>3. offers = <<>> /\ packets = <<>> /\ results = {} /\ lost = {} /\ DOMAIN offers = {}
        /\ DOMAIN packets = {} /\ Queued("seller") = {} /\ Queued("buyer") = {}
  BY DEF Init, Queued
<1>4. TypeOK
  <2>1. store \in [FactIds -> Homes \cup {NoHome}]
    BY DEF Init
  <2>2. offers \in Seq(DraftedOffer)
    BY <1>3
  <2>3. packets \in Seq(HandoffPacket)
    BY <1>3
  <2> QED BY <1>2, <1>3, <2>1, <2>2, <2>3 DEF TypeOK, Run
<1>5. RunShape
  BY <1>2 DEF RunShape, Working, Ended, Drafted
<1>6. Ahead /\ Backed
  BY <1>2, <1>3 DEF Ahead, Backed, Working, Ended, Drafted
<1>7. OfferXorPacket /\ OffersAccounted /\ AboveCeilingIsRouted
  BY <1>2, <1>3 DEF OfferXorPacket, OffersAccounted, AboveCeilingIsRouted
<1> QED BY <1>4, <1>5, <1>6, <1>7 DEF LoopInv
-----------------------------------------------------------------------------
LEMMA RunFields ==
  ASSUME TypeOK
  PROVE  /\ run.pc \in Steps /\ run.no \in 0 .. MaxRuns /\ run.no \in Nat
         /\ run.home \in Homes \cup {NoHome} /\ run.raw \in Submissions
<1>1. /\ run.pc \in Steps /\ run.no \in 0 .. MaxRuns
      /\ run.home \in Homes \cup {NoHome} /\ run.raw \in Submissions
  BY DEF TypeOK, Run
<1> QED BY <1>1, MoneyAssumption

LEMMA RunMoves ==
  ASSUME TypeOK, NEW pc \in Steps
  PROVE  /\ [run EXCEPT !.pc = pc] \in Run
         /\ \A status \in PropertyStatus \cup {"none"} :
              [run EXCEPT !.pc = pc, !.status = status] \in Run
BY DEF TypeOK, Run

LEMMA RaiseType ==
  ASSUME TypeOK, NEW why \in {"form", "identity", "unmatched", "escalated", "rpc"}, Raise(why)
  PROVE  /\ run' \in Run
         /\ run'.pc = "raised" /\ run'.why = why /\ run'.status = "none"
         /\ run'.no = run.no /\ run'.home = run.home /\ run'.raw = run.raw
         /\ run'.listing = run.listing /\ run'.verified = run.verified /\ run'.cited = run.cited
         /\ run'.clause = run.clause /\ run'.draft = run.draft
BY DEF Raise, TypeOK, Run, Steps

\* What the Closer does with a draft of the right type.
LEMMA CloserType ==
  ASSUME TypeOK, RunShape, Working, NEW draft \in DraftedOffer, NEW clause \in BOOLEAN,
         draft.no = run.no, Closer(draft, clause)
  PROVE  TypeOK'
<1>1. CASE RefuseClause(draft, clause) \/ DraftInBand(draft, clause) \/ DraftOutOfBand(draft, clause)
  <2>1. PICK pc \in {"push", "emit"}, c \in BOOLEAN : To(pc, draft, c)
    BY <1>1 DEF RefuseClause, DraftInBand, DraftOutOfBand
  <2>2. run' \in Run
    BY <2>1 DEF To, TypeOK, Run, Steps
  <2> QED BY <2>1, <2>2 DEF To, Sinks, TypeOK
<1>2. CASE RejectForm(draft, clause)
  <2>1. run' \in Run
    BY <1>2, RaiseType DEF RejectForm
  <2> QED BY <1>2, <2>1 DEF RejectForm, Sinks, TypeOK
<1>3. CASE EscalateToNobody(draft, clause)
  <2>1. run' \in Run
    BY <1>3 DEF EscalateToNobody, TypeOK, Run, Steps
  <2>2. [no |-> run.no, side |-> draft.side, kind |-> "nobody"] \in CloseResult
    BY DEF RunShape, CloseResult, DraftedOffer
  <2> QED BY <1>3, <2>1, <2>2 DEF EscalateToNobody, TypeOK
<1> QED BY <1>1, <1>2, <1>3 DEF Closer

\* What a call to a sink carries.
LEMMA SentType ==
  ASSUME TypeOK, RunShape, run.pc \in {"emit", "push"}
  PROVE  /\ run.draft \in DraftedOffer /\ run.no \in 1 .. MaxRuns /\ run.draft.side \in Sides
         /\ Packet \in HandoffPacket
         /\ \A kind \in {"offer", "packet", "nobody"} : Result(kind) \in CloseResult
BY DEF RunShape, Working, Ended, DraftedOffer, Packet, HandoffPacket, Trigger, Result, CloseResult

\* Every step keeps the types, and what a run knows.
LEMMA StepType == TypeOK /\ RunShape /\ [Next]_vars => TypeOK'
<1> SUFFICES ASSUME TypeOK, RunShape, [Next]_vars PROVE TypeOK'
  OBVIOUS
<1>1. ASSUME NEW h \in Homes \cup {NoHome}, NEW named \in BOOLEAN, NEW raw \in Submissions,
             NEW l \in Listings, Start(h, named, raw, l)
      PROVE TypeOK'
  <2>1. run.no + 1 \in 0 .. MaxRuns
    BY <1>1, RunFields, MoneyAssumption DEF Start
  <2>2. Fresh(run.no + 1) \in Run
    BY <2>1, FreshType
  <2>3. \A pc \in Steps, why \in {"", "intake"} :
          [Fresh(run.no + 1) EXCEPT !.home = h, !.named = named, !.raw = raw, !.listing = l,
                                    !.pc = pc, !.why = why] \in Run
    BY <2>2 DEF Run
  <2>4. run' \in Run
    <3>1. PICK pc \in Steps, why \in {"", "intake"} :
            run' = [Fresh(run.no + 1) EXCEPT !.home = h, !.named = named, !.raw = raw,
                                             !.listing = l, !.pc = pc, !.why = why]
      BY <1>1 DEF Start, Steps
    <3> QED BY <2>3, <3>1
  <2> QED BY <1>1, <2>4 DEF Start, Sinks, TypeOK
<1>2. ASSUME NEW band \in Bands, NEW asked \in Asked \cup {Default}, DraftAcquisition(band, asked)
      PROVE TypeOK'
  BY <1>2, DraftType, CloserType DEF DraftAcquisition, Working, Ended, Sides
<1>3. ASSUME NEW band \in Bands, NEW asked \in Asked \cup {Default}, NEW clause \in BOOLEAN,
             DraftBuyerOffer(band, asked, clause)
      PROVE TypeOK'
  BY <1>3, DraftType, CloserType DEF DraftBuyerOffer, Working, Ended, Sides
<1>4. CASE Push \/ PushFails
  <2>1. run' \in Run
    BY <1>4, RaiseType DEF Push, PushFails
  <2>2. Packet \in HandoffPacket /\ Result("packet") \in CloseResult
    BY <1>4, SentType DEF Push, PushFails
  <2>3. Append(packets, Packet) \in Seq(HandoffPacket)
    BY <2>2 DEF TypeOK
  <2> QED BY <1>4, <2>1, <2>2, <2>3 DEF Push, PushFails, TypeOK
<1>5. CASE Emit \/ EmitFails
  <2>1. run' \in Run
    BY <1>5, RunMoves, RaiseType DEF Emit, EmitFails, Steps
  <2>2. run.draft \in DraftedOffer /\ Result("offer") \in CloseResult
          /\ <<run.no, run.draft.side>> \in (1 .. MaxRuns) \X Sides
    BY <1>5, SentType DEF Emit, EmitFails
  <2>3. Append(offers, run.draft) \in Seq(DraftedOffer)
    BY <2>2 DEF TypeOK
  <2> QED BY <1>5, <2>1, <2>2, <2>3 DEF Emit, EmitFails, TypeOK
<1>6. CASE Acquire \/ RejectIdentity \/ List \/ NoMatch \/ Sell
  <2>1. run' \in Run
    <3>1. CASE Acquire
      BY <3>1 DEF Acquire, TypeOK, Run, PropertyStatus
    <3>2. CASE RejectIdentity \/ NoMatch
      BY <3>2, RaiseType DEF RejectIdentity, NoMatch
    <3>3. CASE List \/ Sell
      BY <3>3, RunMoves DEF List, Sell, Steps, PropertyStatus
    <3> QED BY <1>6, <3>1, <3>2, <3>3
  <2> QED BY <1>6, <2>1 DEF Acquire, RejectIdentity, List, NoMatch, Sell, Sinks, TypeOK
<1>7. CASE MatchUnverified
  <2>1. run' \in Run
    <3>1. CandidateFacts(run.home) \subseteq FactIds
      BY <1>7, FactsType DEF MatchUnverified, RunShape, Working, Ended
    <3>2. run' = [run EXCEPT !.pc = "resale", !.status = "under_offer",
                             !.facts = CandidateFacts(run.home)]
      BY <1>7 DEF MatchUnverified
    <3> QED BY <3>1, <3>2 DEF TypeOK, Run, Steps, PropertyStatus
  <2> QED BY <1>7, <2>1 DEF MatchUnverified, Sinks, TypeOK
<1>8. ASSUME NEW allowed \in BOOLEAN, NEW citation \in [CandidateFacts(run.home) -> FactIds \cup {None}],
             run.pc = "match", MatchVerified(citation, allowed)
      PROVE TypeOK'
  <2> DEFINE facts == CandidateFacts(run.home)
             cited == {citation[f] : f \in facts} \ {None}
  <2>1. run.home \in Homes /\ facts \subseteq FactIds /\ cited \subseteq FactIds
    BY <1>8, FactsType DEF RunShape, Working, Ended
  <2>2. run' \in Run
    BY <1>8, <2>1 DEF MatchVerified, TypeOK, Run, Steps, PropertyStatus
  <2>3. store' \in [FactIds -> Homes \cup {NoHome}]
    BY <1>8, <2>1 DEF MatchVerified, Ingest, TypeOK
  <2> QED BY <1>8, <2>2, <2>3 DEF MatchVerified, Sinks, TypeOK
<1>9. CASE UNCHANGED vars
  BY <1>9 DEF vars, TypeOK
<1> QED BY <1>1, <1>2, <1>3, <1>4, <1>5, <1>6, <1>7, <1>8, <1>9 DEF Next
-----------------------------------------------------------------------------
\* What a step does to the fields of the run.
LEMMA StartFields ==
  ASSUME TypeOK, NEW h \in Homes \cup {NoHome}, NEW named \in BOOLEAN, NEW raw \in Submissions,
         NEW l \in Listings, Start(h, named, raw, l)
  PROVE  /\ run.pc \in Ended /\ run'.pc \in {"acquire", "raised"} /\ run'.no = run.no + 1
         /\ run.no \in Nat /\ run'.no \in 1 .. MaxRuns
         /\ run'.status = "none" /\ run'.clause = FALSE /\ run'.why \in {"", "intake"}
         /\ run'.verified = {}
         /\ run'.pc = "acquire" => run'.home \in Homes
         /\ UNCHANGED <<offers, packets, results, lost, store>>
<1>1. run.no \in Nat /\ run.no + 1 \in 1 .. MaxRuns /\ run.no + 1 \in 0 .. MaxRuns
  BY RunFields, MoneyAssumption DEF Start
<1>2. Fresh(run.no + 1) \in Run /\ Fresh(run.no + 1).no = run.no + 1
        /\ Fresh(run.no + 1).status = "none" /\ Fresh(run.no + 1).clause = FALSE
        /\ Fresh(run.no + 1).verified = {}
  BY <1>1, FreshType DEF Fresh
<1>3. PICK pc \in {"acquire", "raised"}, why \in {"", "intake"} :
        /\ run' = [Fresh(run.no + 1) EXCEPT !.home = h, !.named = named, !.raw = raw,
                                            !.listing = l, !.pc = pc, !.why = why]
        /\ pc = "acquire" => h # NoHome
  BY DEF Start, SellerIntake
<1>4. /\ run'.pc = pc /\ run'.no = run.no + 1 /\ run'.status = "none" /\ run'.clause = FALSE
      /\ run'.why = why /\ run'.verified = {} /\ run'.home = h
  BY <1>2, <1>3 DEF Run
<1> QED BY <1>1, <1>3, <1>4 DEF Start, Sinks

Same == run'.no = run.no /\ run'.home = run.home /\ run'.raw = run.raw /\ run'.listing = run.listing

LEMMA CloserFields ==
  ASSUME TypeOK, NEW draft, NEW clause \in BOOLEAN, run.clause = FALSE, Closer(draft, clause)
  PROVE  /\ Same /\ UNCHANGED <<offers, packets, lost, store>>
         /\ run'.verified = run.verified /\ run'.cited = run.cited
         /\ \/ /\ run'.pc = "push" /\ run'.draft = draft
               /\ run'.status = run.status /\ run'.why = run.why /\ results' = results
            \/ /\ run'.pc = "emit" /\ run'.draft = draft /\ Allows(draft.band, draft.price)
               /\ run'.clause = FALSE
               /\ run'.status = run.status /\ run'.why = run.why /\ results' = results
            \/ /\ run'.pc = "raised" /\ run'.why = "form" /\ run'.status = "none"
               /\ results' = results
            \/ /\ run'.pc = "raised" /\ run'.why = "escalated" /\ run'.status = "none"
               /\ run'.clause = FALSE /\ run'.draft = draft
               /\ ~HighDollar(draft.band, draft.price)
               /\ results' = results \cup {[no |-> run.no, side |-> draft.side, kind |-> "nobody"]}
<1>1. CASE RefuseClause(draft, clause)
  BY <1>1 DEF RefuseClause, To, Sinks, Same, TypeOK, Run
<1>2. CASE RejectForm(draft, clause)
  BY <1>2, RaiseType DEF RejectForm, Sinks, Same
<1>3. CASE DraftInBand(draft, clause)
  BY <1>3 DEF DraftInBand, To, Sinks, Same, TypeOK, Run
<1>4. CASE DraftOutOfBand(draft, clause)
  BY <1>4 DEF DraftOutOfBand, To, Sinks, Same, TypeOK, Run
<1>5. CASE EscalateToNobody(draft, clause)
  BY <1>5 DEF EscalateToNobody, Same, TypeOK, Run
<1> QED BY <1>1, <1>2, <1>3, <1>4, <1>5 DEF Closer

\* The fields after either of the sinks' calls ...
LEMMA CallFields ==
  ASSUME TypeOK, Push \/ PushFails \/ EmitFails
  PROVE  /\ Same /\ store' = store
         /\ run'.verified = run.verified /\ run'.cited = run.cited
         /\ run'.draft = run.draft /\ run'.clause = run.clause
         /\ run'.pc = "raised" /\ run'.status = "none" /\ run'.why \in {"escalated", "rpc"}
BY RaiseType DEF Push, PushFails, EmitFails, Same

LEMMA EmitFields ==
  ASSUME TypeOK, Emit
  PROVE  /\ Same /\ store' = store
         /\ run'.verified = run.verified /\ run'.cited = run.cited
         /\ run'.draft = run.draft /\ run'.clause = run.clause
         /\ run'.pc = (IF run.draft.side = "seller" THEN "list" ELSE "sell")
         /\ run'.status = run.status /\ run'.why = run.why
BY DEF Emit, Same, TypeOK, Run

\* ... and after any other step.
LEMMA QuietFields ==
  ASSUME TypeOK, Acquire \/ RejectIdentity \/ List \/ NoMatch \/ MatchUnverified \/ Sell
                   \/ \E citation : \E allowed \in BOOLEAN : MatchVerified(citation, allowed)
  PROVE  /\ Same /\ UNCHANGED <<offers, packets, results, lost>>
         /\ run'.clause = run.clause /\ run'.draft = run.draft
         /\ \/ run.pc = "list" /\ run'.pc = "list" /\ run'.status = "acquired" /\ run'.why = run.why
            \/ run.pc \in {"list", "match"} /\ run'.pc = "raised" /\ run'.status = "none"
                 /\ run'.why \in {"identity", "unmatched"}
            \/ run.pc = "list" /\ run'.pc = "match" /\ run'.status = "listed" /\ run'.why = run.why
            \/ run.pc = "match" /\ run'.pc = "resale" /\ run'.status = "under_offer"
                 /\ run'.why = run.why
            \/ run.pc = "sell" /\ run'.pc = "returned" /\ run'.status = "sold" /\ run'.why = run.why
<1>1. CASE Acquire
  BY <1>1 DEF Acquire, Sinks, Same, TypeOK, Run
<1>5. CASE List \/ Sell
  BY <1>5 DEF List, Sell, Sinks, Same, TypeOK, Run
<1>2. CASE RejectIdentity \/ NoMatch
  BY <1>2, RaiseType DEF RejectIdentity, NoMatch, Sinks, Same
<1>3. CASE MatchUnverified
  BY <1>3 DEF MatchUnverified, Sinks, Same, TypeOK, Run
<1>4. CASE \E citation : \E allowed \in BOOLEAN : MatchVerified(citation, allowed)
  BY <1>4 DEF MatchVerified, Sinks, Same, TypeOK, Run
<1> QED BY <1>1, <1>2, <1>3, <1>4, <1>5
-----------------------------------------------------------------------------
\* The step of the Closer, whichever of the two flows it is in.
Drafts ==
  \E side \in Sides, band \in Bands, asked \in Asked \cup {Default}, clause \in BOOLEAN :
    /\ run.pc = (IF side = "seller" THEN "acquire" ELSE "resale")
    /\ Closer(Draft(side, band, asked), clause)

\* The steps, grouped by what they do to the queues.
LEMMA Steps4 ==
  ASSUME [Next]_vars
  PROVE  \/ \E h \in Homes \cup {NoHome}, named \in BOOLEAN, raw \in Submissions, l \in Listings :
               Start(h, named, raw, l)
         \/ Drafts
         \/ Push \/ PushFails \/ Emit \/ EmitFails
         \/ Acquire \/ RejectIdentity \/ List \/ NoMatch \/ MatchUnverified \/ Sell
         \/ \E citation : \E allowed \in BOOLEAN : MatchVerified(citation, allowed)
         \/ UNCHANGED vars
<1>1. (\E band \in Bands, asked \in Asked \cup {Default} :
         \/ DraftAcquisition(band, asked)
         \/ \E clause \in BOOLEAN : DraftBuyerOffer(band, asked, clause)) => Drafts
  <2>1. \A band \in Bands, asked \in Asked \cup {Default} :
          DraftAcquisition(band, asked) => Drafts
    <3> SUFFICES ASSUME NEW band \in Bands, NEW asked \in Asked \cup {Default},
                        DraftAcquisition(band, asked)
                 PROVE  Drafts
      OBVIOUS
    <3> QED BY DEF DraftAcquisition, Drafts, Sides
  <2>2. \A band \in Bands, asked \in Asked \cup {Default}, clause \in BOOLEAN :
          DraftBuyerOffer(band, asked, clause) => Drafts
    BY DEF DraftBuyerOffer, Drafts, Sides
  <2> QED BY <2>1, <2>2
<1> QED BY <1>1 DEF Next

\* What the Closer's step does, given the invariant.
LEMMA DraftsFields ==
  ASSUME TypeOK, RunShape, Drafts
  PROVE  \E side \in Sides, d \in DraftedOffer :
           /\ run.pc = (IF side = "seller" THEN "acquire" ELSE "resale")
           /\ d.no = run.no /\ d.home = run.home /\ d.side = side
           /\ Same /\ UNCHANGED <<offers, packets, lost, store>>
           /\ run'.verified = run.verified /\ run'.cited = run.cited
           /\ \/ /\ run'.pc = "push" /\ run'.draft = d
                 /\ run'.status = run.status /\ run'.why = run.why /\ results' = results
              \/ /\ run'.pc = "emit" /\ run'.draft = d /\ Allows(d.band, d.price)
                 /\ run'.clause = FALSE
                 /\ run'.status = run.status /\ run'.why = run.why /\ results' = results
              \/ /\ run'.pc = "raised" /\ run'.why = "form" /\ run'.status = "none"
                 /\ results' = results
              \/ /\ run'.pc = "raised" /\ run'.why = "escalated" /\ run'.status = "none"
                 /\ run'.clause = FALSE /\ run'.draft = d
                 /\ ~HighDollar(d.band, d.price)
                 /\ results' = results \cup {[no |-> run.no, side |-> side, kind |-> "nobody"]}
<1>1. PICK side \in Sides, band \in Bands, asked \in Asked \cup {Default}, clause \in BOOLEAN :
        /\ run.pc = (IF side = "seller" THEN "acquire" ELSE "resale")
        /\ Closer(Draft(side, band, asked), clause)
  BY DEF Drafts
<1> DEFINE d == Draft(side, band, asked)
<1>2. Working /\ run.clause = FALSE
  BY <1>1 DEF RunShape, Working, Ended
<1>3. d \in DraftedOffer /\ d.no = run.no /\ d.home = run.home /\ d.side = side
  BY <1>2, DraftType
<1>4. Closer(d, clause)
  BY <1>1
<1> HIDE DEF d
<1>5. run.pc = (IF side = "seller" THEN "acquire" ELSE "resale")
  BY <1>1
<1> QED BY <1>2, <1>3, <1>4, <1>5, CloserFields
-----------------------------------------------------------------------------
LEMMA StepShape == TypeOK /\ RunShape /\ [Next]_vars => RunShape'
<1> SUFFICES ASSUME TypeOK, RunShape, [Next]_vars PROVE RunShape'
  OBVIOUS
<1>1. ASSUME NEW h \in Homes \cup {NoHome}, NEW named \in BOOLEAN, NEW raw \in Submissions,
             NEW l \in Listings, Start(h, named, raw, l)
      PROVE RunShape'
  BY <1>1, StartFields DEF RunShape, Working, Ended, Drafted
<1>2. CASE Drafts
  BY <1>2, DraftsFields DEF RunShape, Working, Ended, Drafted, Same, Sides
<1>3. CASE Push \/ PushFails \/ EmitFails
  BY <1>3, CallFields DEF RunShape, Working, Ended, Drafted
<1>4. CASE Emit
  <2>1. run.pc = "emit" /\ run.draft.side \in Sides
    BY <1>4, SentType DEF Emit
  <2> QED BY <1>4, <2>1, EmitFields DEF RunShape, Working, Ended, Drafted, Same, Sides
<1>5. CASE Acquire \/ RejectIdentity \/ List \/ NoMatch \/ MatchUnverified \/ Sell
             \/ \E citation : \E allowed \in BOOLEAN : MatchVerified(citation, allowed)
  BY <1>5, QuietFields DEF RunShape, Working, Ended, Drafted, Same
<1>6. CASE UNCHANGED vars
  BY <1>6 DEF vars, RunShape, Working, Drafted
<1> QED BY <1>1, <1>2, <1>3, <1>4, <1>5, <1>6, Steps4

\* The queues after a step that leaves them alone.
LEMMA QueuesStay ==
  ASSUME UNCHANGED <<offers, packets>>, run'.no = run.no
  PROVE  \A side \in Sides : Queued(side)' = Queued(side)
BY DEF Queued

LEMMA StepAhead == TypeOK /\ RunShape /\ Ahead /\ [Next]_vars => Ahead'
<1> SUFFICES ASSUME TypeOK, RunShape, Ahead, [Next]_vars PROVE Ahead'
  OBVIOUS
<1>1. ASSUME NEW h \in Homes \cup {NoHome}, NEW named \in BOOLEAN, NEW raw \in Submissions,
             NEW l \in Listings, Start(h, named, raw, l)
      PROVE Ahead'
  <2>1. /\ \A i \in DOMAIN offers : offers[i].no \in Nat
        /\ \A k \in DOMAIN packets : packets[k].no \in Nat
        /\ \A r \in results : r.no \in Nat
    <3>1. offers \in Seq(DraftedOffer) /\ packets \in Seq(HandoffPacket) /\ results \subseteq CloseResult
      BY DEF TypeOK
    <3>2. \A n \in 1 .. MaxRuns : n \in Nat
      OBVIOUS
    <3>3. \A d \in DraftedOffer : d.no \in Nat
      BY <3>2 DEF DraftedOffer
    <3>4. \A d \in HandoffPacket : d.no \in Nat
      BY <3>2 DEF HandoffPacket
    <3>5. \A d \in CloseResult : d.no \in Nat
      BY <3>2 DEF CloseResult
    <3> QED BY <3>1, <3>3, <3>4, <3>5
  <2>2. run.no \in Nat /\ run'.no = run.no + 1 /\ UNCHANGED <<offers, packets, results>>
    BY <1>1, StartFields
  <2>3. \A side \in Sides : Queued(side)' = {}
    BY <2>1, <2>2 DEF Ahead, Queued
  <2> QED BY <2>1, <2>2, <2>3 DEF Ahead, Sides
<1>2. CASE Drafts
  <2>1. Queued("seller")' = Queued("seller") /\ Queued("buyer")' = Queued("buyer")
    BY <1>2, DraftsFields, QueuesStay DEF Same, Sides
  <2>2. Working /\ run.pc \in {"acquire", "resale"}
    BY <1>2, DraftsFields DEF Working, Ended
  <2>3. /\ UNCHANGED <<offers, packets>> /\ run'.no = run.no
        /\ run'.pc \in {"push", "emit", "raised"}
        /\ run'.pc # "raised" => results' = results
        /\ run'.pc \in {"push", "emit"} /\ run'.draft.side = "seller" => run.pc = "acquire"
    BY <1>2, DraftsFields DEF Same, Sides
  <2>4. \A r \in results' : r \in results \/ r.no = run.no
    <3>1. PICK side \in Sides :
            results' \in {results, results \cup {[no |-> run.no, side |-> side, kind |-> "nobody"]}}
      BY <1>2, DraftsFields
    <3>2. [no |-> run.no, side |-> side, kind |-> "nobody"].no = run.no
      OBVIOUS
    <3> QED BY <3>1, <3>2
  <2>5. \A r \in results' : r.no <= run.no
    BY <2>4, RunFields DEF Ahead
  <2>6. run'.pc \in {"push", "emit"} /\ run'.draft.side = "seller" => Queued("seller")' = {}
    BY <2>1, <2>3 DEF Ahead
  <2>7. Queued("buyer")' = {}
    BY <2>1, <2>2 DEF Ahead
  <2> QED BY <2>2, <2>3, <2>5, <2>6, <2>7 DEF Ahead, Working, Ended, Drafted
<1>3. CASE Push \/ PushFails
  <2>1. /\ run.pc = "push" /\ run'.pc = "raised" /\ run'.no = run.no /\ offers' = offers
        /\ packets' \in {packets, Append(packets, Packet)}
        /\ results' \in {results, results \cup {Result("packet")}}
    BY <1>3, CallFields DEF Push, PushFails, Same
  <2>2. Packet.no = run.no /\ Result("packet").no = run.no /\ packets \in Seq(HandoffPacket)
    BY DEF Packet, Result, TypeOK
  <2>3. \A k \in DOMAIN packets' : packets'[k].no <= run.no
    BY <2>1, <2>2, RunFields DEF Ahead
  <2>4. \A r \in results' : r.no <= run.no
    BY <2>1, <2>2, RunFields DEF Ahead
  <2> QED BY <2>1, <2>3, <2>4 DEF Ahead, Working, Ended, Drafted
<1>4. CASE Emit \/ EmitFails
  <2>1. /\ run.pc = "emit" /\ run'.no = run.no /\ packets' = packets
        /\ offers' \in {offers, Append(offers, run.draft)}
        /\ results' \in {results, results \cup {Result("offer")}}
    BY <1>4, CallFields, EmitFields DEF Emit, EmitFails, Same
  <2>2. /\ run.draft.no = run.no /\ Result("offer").no = run.no /\ Result("offer").kind = "offer"
        /\ run.draft.side \in Sides /\ offers \in Seq(DraftedOffer) /\ run.draft \in DraftedOffer
    BY <2>1, SentType DEF RunShape, Result, TypeOK
  <2>3. \A i \in DOMAIN offers' : offers'[i].no <= run.no
    BY <2>1, <2>2, RunFields DEF Ahead
  <2>4. \A r \in results' : r.no <= run.no /\ (r.no # run.no \/ r.kind # "nobody")
    BY <2>1, <2>2, RunFields DEF Ahead, Working, Ended
  <2>5. run'.pc = "list" => Queued("buyer")' = {}
    <3>1. CASE Emit /\ run'.pc = "list"
      <4>1. run.draft.side = "seller" /\ offers' = Append(offers, run.draft)
        BY <3>1, EmitFields DEF Emit
      <4> QED BY <4>1, <2>1, <2>2 DEF Queued, Ahead
    <3>2. CASE EmitFails
      BY <3>2, CallFields
    <3> QED BY <1>4, <3>1, <3>2
  <2>6. run'.pc \in {"list", "sell", "raised"}
    BY <1>4, CallFields, EmitFields
  <2>7. \A k \in DOMAIN packets : packets[k].no <= run.no /\ packets[k].no # run.no
    BY <2>1 DEF Ahead, Working, Ended
  <2> QED BY <2>1, <2>3, <2>4, <2>5, <2>6, <2>7 DEF Ahead, Drafted
<1>5. CASE Acquire \/ RejectIdentity \/ List \/ NoMatch \/ MatchUnverified \/ Sell
             \/ \E citation : \E allowed \in BOOLEAN : MatchVerified(citation, allowed)
  <2>1. Queued("buyer")' = Queued("buyer")
    BY <1>5, QuietFields, QueuesStay DEF Same, Sides
  <2> QED BY <1>5, <2>1, QuietFields DEF Ahead, Working, Ended, Drafted, Same
<1>6. CASE UNCHANGED vars
  BY <1>6 DEF vars, Ahead, Working, Drafted, Queued
<1> QED BY <1>1, <1>2, <1>3, <1>4, <1>5, <1>6, Steps4
-----------------------------------------------------------------------------
\* What an offer that arrives does to the queue.
LEMMA Arrives ==
  ASSUME TypeOK, RunShape, run.pc = "emit", offers' = Append(offers, run.draft), run'.no = run.no,
         run'.draft = run.draft
  PROVE  LET n == Len(offers) + 1
         IN /\ DOMAIN offers' = DOMAIN offers \cup {n} /\ n \notin DOMAIN offers
            /\ \A i \in DOMAIN offers : offers'[i] = offers[i] /\ i < n
            /\ offers'[n] = run.draft
            /\ n \in Queued(run.draft.side)'
            /\ \A side \in Sides : Queued(side) \subseteq Queued(side)'
<1>1. offers \in Seq(DraftedOffer) /\ run.draft \in DraftedOffer /\ run.draft.no = run.no
  BY SentType DEF TypeOK, RunShape
<1> DEFINE n == Len(offers) + 1
<1>2. /\ DOMAIN offers' = DOMAIN offers \cup {n} /\ n \notin DOMAIN offers /\ n \in DOMAIN offers'
      /\ \A i \in DOMAIN offers : offers'[i] = offers[i] /\ i < n
      /\ offers'[n] = run.draft
  BY <1>1
<1>3. n \in Queued(run.draft.side)'
  BY <1>1, <1>2 DEF Queued
<1>4. \A side \in Sides : Queued(side) \subseteq Queued(side)'
  BY <1>2 DEF Queued
<1> QED BY <1>2, <1>3, <1>4

LEMMA StepBacked == TypeOK /\ RunShape /\ Backed /\ [Next]_vars => Backed'
<1> SUFFICES ASSUME TypeOK, RunShape, Backed, [Next]_vars PROVE Backed'
  OBVIOUS
<1>1. ASSUME NEW h \in Homes \cup {NoHome}, NEW named \in BOOLEAN, NEW raw \in Submissions,
             NEW l \in Listings, Start(h, named, raw, l)
      PROVE Backed'
  BY <1>1, StartFields DEF Backed, Drafted
<1>2. CASE Drafts
  <2>1. /\ Queued("seller")' = Queued("seller") /\ UNCHANGED offers /\ run'.home = run.home
        /\ run'.pc \in {"push", "emit", "raised"}
        /\ run'.pc \in {"push", "emit"} /\ run'.draft.side = "buyer" => run.pc = "resale"
    BY <1>2, DraftsFields, QueuesStay DEF Same, Sides
  <2> QED BY <2>1 DEF Backed, Drafted
<1>3. CASE Push \/ PushFails \/ EmitFails
  BY <1>3, CallFields DEF Backed, Drafted
<1>4. CASE Emit
  <2> DEFINE n == Len(offers) + 1
  <2>1. run.pc = "emit" /\ offers' = Append(offers, run.draft) /\ run'.no = run.no /\ run'.home = run.home
          /\ run'.draft = run.draft /\ run.draft.home = run.home /\ run.draft.side \in Sides
    BY <1>4, EmitFields, SentType DEF Emit, Same, RunShape
  <2>2. CASE run.draft.side = "seller"
    <3>1. n \in Queued("seller")' /\ offers'[n].home = run'.home /\ run'.pc = "list"
      BY <1>4, <2>1, <2>2, Arrives, EmitFields
    <3> QED BY <3>1 DEF Backed, Drafted
  <2>3. CASE run.draft.side = "buyer"
    <3>1. PICK i \in Queued("seller") : offers[i].home = run.home
      BY <2>1, <2>3 DEF Backed, Drafted
    <3>2. i \in Queued("seller")' /\ offers'[i].home = run'.home /\ i < n
      BY <3>1, <2>1, Arrives DEF Sides, Queued
    <3>3. n \in Queued("buyer")' /\ offers'[n].home = run'.home /\ run'.pc = "sell"
      BY <1>4, <2>1, <2>3, Arrives, EmitFields
    <3> QED BY <3>2, <3>3 DEF Backed, Drafted
  <2> QED BY <2>1, <2>2, <2>3 DEF Sides
<1>5. CASE Acquire \/ RejectIdentity \/ List \/ NoMatch \/ MatchUnverified \/ Sell
             \/ \E citation : \E allowed \in BOOLEAN : MatchVerified(citation, allowed)
  <2>1. Queued("buyer")' = Queued("buyer") /\ Queued("seller")' = Queued("seller")
    BY <1>5, QuietFields, QueuesStay DEF Same, Sides
  <2>2. UNCHANGED offers /\ run'.home = run.home
    BY <1>5, QuietFields DEF Same
  <2>3. run'.pc \in {"list", "match", "resale"} => run.pc \in {"list", "match"}
    BY <1>5, QuietFields
  <2>4. run'.pc = "returned" => run.pc = "sell"
    BY <1>5, QuietFields
  <2>5. run'.pc \in {"list", "match", "resale", "returned", "raised"}
    BY <1>5, QuietFields
  <2> QED BY <2>1, <2>2, <2>3, <2>4, <2>5 DEF Backed, Drafted
<1>6. CASE UNCHANGED vars
  BY <1>6 DEF vars, Backed, Drafted, Queued
<1> QED BY <1>1, <1>2, <1>3, <1>4, <1>5, <1>6, Steps4
-----------------------------------------------------------------------------
LEMMA StepXor ==
  TypeOK /\ RunShape /\ Ahead /\ OfferXorPacket /\ [Next]_vars => OfferXorPacket'
<1> SUFFICES ASSUME TypeOK, RunShape, Ahead, OfferXorPacket, [Next]_vars PROVE OfferXorPacket'
  OBVIOUS
<1>1. CASE UNCHANGED <<offers, packets>>
  BY <1>1 DEF OfferXorPacket
<1>2. CASE run.pc = "push" /\ offers' = offers /\ packets' = Append(packets, Packet)
  <2>1. packets \in Seq(HandoffPacket) /\ Packet.no = run.no /\ Packet.side = run.draft.side
          /\ run.draft.side \in Sides
    BY <1>2, SentType DEF TypeOK, Packet
  <2>2. Queued(run.draft.side) = {}
    BY <1>2, <2>1 DEF Ahead, Drafted, Sides
  <2>3. \A i \in DOMAIN offers : <<Packet.no, Packet.side>> # <<offers[i].no, offers[i].side>>
    BY <2>1, <2>2 DEF Queued
  <2>4. \A k \in DOMAIN packets' : packets'[k] = Packet \/ (k \in DOMAIN packets /\ packets'[k] = packets[k])
    BY <1>2, <2>1
  <2> QED BY <1>2, <2>3, <2>4 DEF OfferXorPacket
<1>3. CASE run.pc = "emit" /\ packets' = packets /\ offers' = Append(offers, run.draft)
             /\ run'.no = run.no /\ run'.draft = run.draft
  <2>1. Allows(run.draft.band, run.draft.price) /\ run.draft.no = run.no
    BY <1>3 DEF RunShape
  <2>2. \A k \in DOMAIN packets : packets[k].no # run.no
    BY <1>3 DEF Ahead, Working, Ended
  <2>3. \A i \in DOMAIN offers' :
          offers'[i] = run.draft \/ (i \in DOMAIN offers /\ offers'[i] = offers[i])
    BY <1>3, Arrives
  <2> QED BY <1>3, <2>1, <2>2, <2>3 DEF OfferXorPacket, Allows
<1>4. (\E h \in Homes \cup {NoHome}, named \in BOOLEAN, raw \in Submissions, l \in Listings :
         Start(h, named, raw, l)) => UNCHANGED <<offers, packets>>
  BY StartFields
<1>5. Drafts => UNCHANGED <<offers, packets>>
  BY DraftsFields
<1>6. CASE Push \/ PushFails \/ Emit \/ EmitFails
  BY <1>1, <1>2, <1>3, <1>6, CallFields, EmitFields DEF Push, PushFails, Emit, EmitFails, Same
<1> QED BY <1>1, <1>4, <1>5, <1>6, Steps4, QuietFields DEF vars

LEMMA StepAccounted ==
  TypeOK /\ RunShape /\ Ahead /\ OffersAccounted /\ [Next]_vars => OffersAccounted'
<1> SUFFICES ASSUME TypeOK, RunShape, Ahead, OffersAccounted, [Next]_vars PROVE OffersAccounted'
  OBVIOUS
<1>1. ASSUME offers' = offers, results \subseteq results', lost' = lost,
             \A r \in results' \ results : r.kind # "offer"
      PROVE  OffersAccounted'
  BY <1>1 DEF OffersAccounted
<1>2. ASSUME run.pc = "emit", offers' = Append(offers, run.draft), run'.no = run.no,
             run'.draft = run.draft, results \subseteq results', lost \subseteq lost',
             \A r \in results' \ results : r = Result("offer"),
             Result("offer") \in results' \/ <<run.no, run.draft.side>> \in lost'
      PROVE  OffersAccounted'
  <2> DEFINE n == Len(offers) + 1
             d == run.draft
  <2>1. /\ DOMAIN offers' = DOMAIN offers \cup {n} /\ offers'[n] = d
        /\ \A i \in DOMAIN offers : offers'[i] = offers[i]
    BY <1>2, Arrives
  <2>2. d.no = run.no /\ d.side \in Sides /\ Result("offer") = [no |-> d.no, side |-> d.side, kind |-> "offer"]
    BY <1>2, SentType DEF RunShape, Result
  <2>3. Queued(d.side) = {}
    BY <1>2, <2>2 DEF Ahead, Drafted, Sides
  <2>4. \A i \in DOMAIN offers : <<offers[i].no, offers[i].side>> # <<d.no, d.side>>
    BY <2>2, <2>3 DEF Queued
  <2> HIDE DEF n, d
  <2>5. \A i, j \in DOMAIN offers' :
          <<offers'[i].no, offers'[i].side>> = <<offers'[j].no, offers'[j].side>> => i = j
    BY <2>1, <2>4 DEF OffersAccounted
  <2>6. \A i \in DOMAIN offers' :
          \/ [no |-> offers'[i].no, side |-> offers'[i].side, kind |-> "offer"] \in results'
          \/ <<offers'[i].no, offers'[i].side>> \in lost'
    BY <1>2, <2>1, <2>2 DEF OffersAccounted, d
  <2>7. \A r \in results' : r.kind = "offer" =>
          \E i \in DOMAIN offers' : offers'[i].no = r.no /\ offers'[i].side = r.side
    <3> SUFFICES ASSUME NEW r \in results', r.kind = "offer"
                 PROVE  \E i \in DOMAIN offers' : offers'[i].no = r.no /\ offers'[i].side = r.side
      OBVIOUS
    <3>1. CASE r \in results
      BY <3>1, <2>1 DEF OffersAccounted
    <3>2. CASE r = [no |-> d.no, side |-> d.side, kind |-> "offer"]
      BY <3>2, <2>1
    <3> QED BY <1>2, <2>2, <3>1, <3>2
  <2> QED BY <2>5, <2>6, <2>7 DEF OffersAccounted
<1>3. (\E h \in Homes \cup {NoHome}, named \in BOOLEAN, raw \in Submissions, l \in Listings :
         Start(h, named, raw, l)) => OffersAccounted'
  BY <1>1, StartFields
<1>4. CASE Drafts
  <2>1. PICK side \in Sides :
          results' \in {results, results \cup {[no |-> run.no, side |-> side, kind |-> "nobody"]}}
    BY <1>4, DraftsFields
  <2>2. offers' = offers /\ lost' = lost
    BY <1>4, DraftsFields
  <2> QED BY <1>1, <2>1, <2>2
<1>5. CASE Push \/ PushFails
  BY <1>1, <1>5 DEF Push, PushFails, Result
<1>6. CASE Emit
  BY <1>2, <1>6, EmitFields DEF Emit, Same
<1>7. CASE EmitFails
  BY <1>1, <1>2, <1>7, CallFields DEF EmitFails, Same
<1> QED BY <1>1, <1>3, <1>4, <1>5, <1>6, <1>7, Steps4, QuietFields DEF vars

LEMMA JustAbove ==
  ASSUME NEW band \in Bands, NEW price \in Nat, ~HighDollar(band, price)
  PROVE  price < RoundCents(band.ceiling) + Cent
BY BandType DEF HighDollar, RoundCents, Cent

LEMMA StepCeiling ==
  TypeOK /\ RunShape /\ Ahead /\ AboveCeilingIsRouted /\ [Next]_vars => AboveCeilingIsRouted'
<1> SUFFICES ASSUME TypeOK, RunShape, Ahead, AboveCeilingIsRouted, [Next]_vars
             PROVE  AboveCeilingIsRouted'
  OBVIOUS
<1>1. ASSUME Working, run'.no = run.no,
             \A r \in results' : r \in results \/ r.kind # "nobody"
      PROVE  AboveCeilingIsRouted'
  <2>1. Result("nobody")'.no = run.no /\ Result("nobody")'.kind = "nobody"
    BY <1>1 DEF Result
  <2>2. Result("nobody")' \notin results'
    BY <1>1, <2>1 DEF Ahead
  <2> QED BY <2>2 DEF AboveCeilingIsRouted
<1>2. ASSUME NEW h \in Homes \cup {NoHome}, NEW named \in BOOLEAN, NEW raw \in Submissions,
             NEW l \in Listings, Start(h, named, raw, l)
      PROVE AboveCeilingIsRouted'
  BY <1>2, StartFields DEF AboveCeilingIsRouted
<1>3. CASE Drafts
  <2>1. PICK side \in Sides, d \in DraftedOffer :
          /\ run.pc = (IF side = "seller" THEN "acquire" ELSE "resale")
          /\ run'.no = run.no
          /\ \/ results' = results
             \/ /\ run'.clause = FALSE /\ run'.draft = d /\ ~HighDollar(d.band, d.price)
    BY <1>3, DraftsFields DEF Same
  <2>2. CASE results' = results
    BY <1>1, <2>1, <2>2 DEF Working, Ended
  <2>3. CASE run'.clause = FALSE /\ run'.draft = d /\ ~HighDollar(d.band, d.price)
    <3>1. d.band \in Bands /\ d.price \in Nat
      BY DEF DraftedOffer
    <3> QED BY <2>3, <3>1, JustAbove DEF AboveCeilingIsRouted
  <2> QED BY <2>1, <2>2, <2>3
<1>4. CASE Push \/ PushFails \/ Emit \/ EmitFails
  <2>1. Working /\ run'.no = run.no
    BY <1>4, CallFields, EmitFields DEF Push, PushFails, Emit, EmitFails, Working, Ended, Same
  <2>2. \A r \in results' : r \in results \/ r \in {Result("packet"), Result("offer")}
    BY <1>4 DEF Push, PushFails, Emit, EmitFails
  <2>3. Result("packet").kind # "nobody" /\ Result("offer").kind # "nobody"
    BY DEF Result
  <2> QED BY <1>1, <2>1, <2>2, <2>3
<1>5. CASE Acquire \/ RejectIdentity \/ List \/ NoMatch \/ MatchUnverified \/ Sell
             \/ \E citation : \E allowed \in BOOLEAN : MatchVerified(citation, allowed)
  <2>1. Working /\ run'.no = run.no /\ results' = results
    BY <1>5, QuietFields DEF Working, Ended, Same
  <2> QED BY <1>1, <2>1
<1>6. CASE UNCHANGED vars
  BY <1>6 DEF vars, AboveCeilingIsRouted, Result
<1> QED BY <1>2, <1>3, <1>4, <1>5, <1>6, Steps4
-----------------------------------------------------------------------------
\* The inductive invariant holds: what a run knows about its own draft, offers and
\* packets, whatever the runs before it left in the sinks.
THEOREM LoopInvariant == Spec => []LoopInv
<1>1. LoopInv /\ [Next]_vars => LoopInv'
  BY StepType, StepShape, StepAhead, StepBacked, StepXor, StepAccounted, StepCeiling DEF LoopInv
<1> QED BY <1>1, InitInv, PTL DEF Spec

\* Every variable keeps its type.
THEOREM TypeCorrect == Spec => []TypeOK
<1>1. LoopInv => TypeOK
  BY DEF LoopInv
<1> QED BY <1>1, LoopInvariant, PTL

\* A listed or matched property has its acquisition offer in the queue, a sold
\* one its resale offer behind it, about the same address.
THEOREM StatusBackedHolds == Spec => []StatusBacked
<1>1. LoopInv => StatusBacked
  <2> SUFFICES ASSUME LoopInv PROVE StatusBacked
    OBVIOUS
  <2>1. run.status # "none" =>
          run.pc \in {"list", "match", "resale", "sell", "returned"} \/ Drafted("buyer")
    BY RunFields DEF LoopInv, RunShape, Drafted, Steps, DraftedOffer, Sides
  <2>2. run.status = "sold" => run.pc = "returned"
    BY <2>1 DEF LoopInv, RunShape
  <2> QED BY <2>1, <2>2 DEF LoopInv, Backed, StatusBacked
<1> QED BY <1>1, LoopInvariant, PTL

\* Of one draft there is an offer, within its band, or a packet, never both.
THEOREM OfferXorPacketHolds == Spec => []OfferXorPacket
<1>1. LoopInv => OfferXorPacket
  BY DEF LoopInv
<1> QED BY <1>1, LoopInvariant, PTL

\* An offer is queued once, and known to the brain or its answer was lost.
THEOREM OffersAccountedHolds == Spec => []OffersAccounted
<1>1. LoopInv => OffersAccounted
  BY DEF LoopInv
<1> QED BY <1>1, LoopInvariant, PTL

\* What is escalated to nobody is no clause and at most a cent above the ceiling.
THEOREM AboveCeilingIsRoutedHolds == Spec => []AboveCeilingIsRouted
<1>1. LoopInv => AboveCeilingIsRouted
  BY DEF LoopInv
<1> QED BY <1>1, LoopInvariant, PTL
-----------------------------------------------------------------------------
\* A match was one for the criteria stated, a mismatch was none.
Matched ==
  /\ run.status = "under_offer" => MatchesCriteria(run.listing, Select(run.raw))
  /\ run.why = "unmatched" => ~MatchesCriteria(run.listing, Select(run.raw))

\* What is selected of a submission depends on its neutral criteria only.
LEMMA SelectNeutral ==
  ASSUME NEW raw, NEW twin, Neutral(twin) = Neutral(raw)
  PROVE  Select(twin) = Select(raw)
<1>1. \A g \in CriteriaFields :
        /\ Neutral(twin)[g] = Neutral(raw)[g]
        /\ Neutral(raw)[g] = (IF raw[g] = Blank THEN None ELSE raw[g])
        /\ Neutral(twin)[g] = (IF twin[g] = Blank THEN None ELSE twin[g])
  BY DEF Neutral
<1>2. \A g \in CriteriaFields :
        /\ raw[g] \in {None, Blank} <=> twin[g] \in {None, Blank}
        /\ raw[g] \notin {None, Blank} => raw[g] = twin[g]
  BY <1>1
<1>3. {g \in CriteriaFields : raw[g] \notin {None, Blank}}
        = {g \in CriteriaFields : twin[g] \notin {None, Blank}}
  BY <1>2
<1> QED BY <1>2, <1>3 DEF Select

LEMMA StepMatched == TypeOK /\ RunShape /\ Matched /\ [Next]_vars => Matched'
<1> SUFFICES ASSUME TypeOK, RunShape, Matched, [Next]_vars PROVE Matched'
  OBVIOUS
<1>1. ASSUME Same, run'.status \in {run.status, "none", "acquired", "listed", "sold"},
             run'.why = run.why \/ run'.why # "unmatched"
      PROVE  Matched'
  BY <1>1 DEF Same, Matched
<1>2. ASSUME NEW h \in Homes \cup {NoHome}, NEW named \in BOOLEAN, NEW raw \in Submissions,
             NEW l \in Listings, Start(h, named, raw, l)
      PROVE Matched'
  BY <1>2, StartFields DEF Matched
<1>3. CASE Drafts
  BY <1>1, <1>3, DraftsFields
<1>4. CASE Push \/ PushFails \/ Emit \/ EmitFails
  BY <1>1, <1>4, CallFields, EmitFields
<1>5. CASE NoMatch
  <2>1. run'.listing = run.listing /\ run'.raw = run.raw /\ run'.status = "none"
    BY <1>5, RaiseType DEF NoMatch
  <2> QED BY <1>5, <2>1 DEF NoMatch, Matched
<1>6. CASE MatchUnverified \/ \E citation : \E allowed \in BOOLEAN : MatchVerified(citation, allowed)
  <2>1. run'.listing = run.listing /\ run'.raw = run.raw /\ run'.why = run.why
    BY <1>6 DEF MatchUnverified, MatchVerified, TypeOK, Run
  <2>2. MatchesCriteria(run.listing, Select(run.raw))
    BY <1>6 DEF MatchUnverified, MatchVerified
  <2> QED BY <2>1, <2>2 DEF Matched
<1>7. CASE RejectIdentity
  <2>1. Same /\ run'.status = "none" /\ run'.why = "identity"
    BY <1>7, RaiseType DEF RejectIdentity, Same
  <2> QED BY <1>1, <2>1
<1>8. CASE Acquire \/ List \/ Sell
  <2>1. Same /\ run'.status \in {"acquired", "listed", "sold"} /\ run'.why = run.why
    BY <1>8 DEF Acquire, List, Sell, Same, TypeOK, Run
  <2> QED BY <1>1, <2>1
<1>9. CASE UNCHANGED vars
  BY <1>9 DEF vars, Matched
<1> QED BY <1>2, <1>3, <1>4, <1>5, <1>6, <1>7, <1>8, <1>9, Steps4

\* Whether a property is found for a buyer depends on the criteria stated.
THEOREM EqualServiceHolds == Spec => []EqualService
<1>1. Init => Matched
  <2> SUFFICES ASSUME Init PROVE Matched
    OBVIOUS
  <2>1. run = Fresh(0) /\ Fresh(0).status = "none" /\ Fresh(0).why = ""
    BY DEF Init, Fresh
  <2> QED BY <2>1 DEF Matched
<1>2. LoopInv /\ Matched /\ [Next]_vars => Matched'
  BY StepMatched DEF LoopInv
<1>3. Matched => EqualService
  BY SelectNeutral DEF Matched, EqualService
<1> QED BY <1>1, <1>2, <1>3, LoopInvariant, PTL DEF Spec
-----------------------------------------------------------------------------
LEMMA StepVerified ==
  TypeOK /\ RunShape /\ VerifiedAboutOwnHome /\ [Next]_vars => VerifiedAboutOwnHome'
<1> SUFFICES ASSUME TypeOK, RunShape, VerifiedAboutOwnHome, [Next]_vars
             PROVE  VerifiedAboutOwnHome'
  OBVIOUS
<1>1. ASSUME run'.home = run.home, run'.verified = run.verified, run'.cited = run.cited, store' = store
      PROVE  VerifiedAboutOwnHome'
  BY <1>1 DEF VerifiedAboutOwnHome
<1>2. ASSUME NEW h \in Homes \cup {NoHome}, NEW named \in BOOLEAN, NEW raw \in Submissions,
             NEW l \in Listings, Start(h, named, raw, l)
      PROVE VerifiedAboutOwnHome'
  BY <1>2, StartFields DEF VerifiedAboutOwnHome
<1>3. CASE Drafts
  BY <1>1, <1>3, DraftsFields DEF Same
<1>4. CASE Push \/ PushFails \/ Emit \/ EmitFails
  BY <1>1, <1>4, CallFields, EmitFields DEF Same
<1>5. CASE RejectIdentity \/ NoMatch
  BY <1>1, <1>5, RaiseType DEF RejectIdentity, NoMatch
<1>6. CASE Acquire \/ List \/ Sell \/ MatchUnverified
  BY <1>1, <1>6 DEF Acquire, List, Sell, MatchUnverified, TypeOK, Run
<1>7. ASSUME NEW citation, NEW allowed \in BOOLEAN, MatchVerified(citation, allowed)
      PROVE VerifiedAboutOwnHome'
  <2> DEFINE facts == CandidateFacts(run.home)
  <2>1. run.home \in Homes /\ facts \subseteq FactIds
    BY <1>7, FactsType DEF MatchVerified, RunShape, Working, Ended
  <2>2. \A f \in facts : store'[f] = run.home
    BY <1>7, <2>1 DEF MatchVerified, Ingest
  <2>3. run'.home = run.home /\ run'.verified \subseteq facts \cap run'.cited
    BY <1>7 DEF MatchVerified, TypeOK, Run
  <2> QED BY <2>2, <2>3 DEF VerifiedAboutOwnHome
<1>8. CASE UNCHANGED vars
  BY <1>8 DEF vars, VerifiedAboutOwnHome
<1> QED BY <1>2, <1>3, <1>4, <1>5, <1>6, <1>7, <1>8, Steps4

\* A claim shown as verified cites a source about the matched home.
THEOREM VerifiedAboutOwnHomeHolds == Spec => []VerifiedAboutOwnHome
<1>1. Init => VerifiedAboutOwnHome
  <2> SUFFICES ASSUME Init PROVE VerifiedAboutOwnHome
    OBVIOUS
  <2>1. run = Fresh(0) /\ Fresh(0).verified = {}
    BY DEF Init, Fresh
  <2> QED BY <2>1 DEF VerifiedAboutOwnHome
<1>2. LoopInv /\ VerifiedAboutOwnHome /\ [Next]_vars => VerifiedAboutOwnHome'
  BY StepVerified DEF LoopInv
<1> QED BY <1>1, <1>2, LoopInvariant, PTL DEF Spec
=============================================================================
