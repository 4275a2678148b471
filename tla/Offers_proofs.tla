--------------------------- MODULE Offers_proofs ---------------------------
(***************************************************************************)
(* Proofs about Offers, for any offers, terms, counters and number of      *)
(* racing requests, with and without crashes.                              *)
(***************************************************************************)
EXTENDS Offers, TLAPS

\* What a request in the middle of its handler still knows.
Knows(r) ==
  LET o == req[r].offer IN
  /\ req[r].pc # "idle" => Found(o)
  /\ req[r].pc = "enqueue" => o \notin stranded
  /\ req[r].pc \notin {"idle", "enqueue"} => Authorized(o, req[r].amount)
  /\ req[r].pc = "update" => req[r].counter \in counters[o] /\ WithinBand(o, req[r].counter)
  /\ req[r].pc = "sign" /\ req[r].status = "signed" => Signed(o)
  /\ req[r].pc \in {"contract", "rpc", "insert"} => Signed(o)

\* Only one request is about to enqueue an offer.
OneCreator ==
  \A r, s \in Requests :
    req[r].pc = "enqueue" /\ req[s].pc = "enqueue" /\ r # s => req[r].offer # req[s].offer

\* Where an offer stands: an early signature is never forgotten, and the
\* metric tells whether the offer has been queued.
Placed(o) ==
  /\ o \in early => status[o] \in {"awaiting_broker", "signed"}
  /\ o \in metric \cup stranded => Found(o)
  /\ Found(o) => (o \in metric <=> ~(Enqueuing(o) \/ o \in stranded))
  /\ status[o] = "awaiting_broker" => o \in metric
  /\ status[o] = "signed" => o \in metric \cup early

ContractSigned ==
  \A o \in Offers : contract[o] # NoContract =>
    Signed(o) /\ Authorized(o, contract[o].price)

OfferInv ==
  /\ TypeOK
  /\ \A r \in Requests : Knows(r)
  /\ OneCreator
  /\ \A o \in Offers : Placed(o)
  /\ AmountAuthorized
  /\ ContractSigned
-----------------------------------------------------------------------------
LEMMA TermsType ==
  /\ SomeTerms \in Terms
  /\ \A t \in Terms : t.amount \in Amounts /\ t.amount \in Nat
BY SetsAssumption DEF SomeTerms, Amounts

LEMMA IdleType == Idle \in Request /\ Idle.pc = "idle" /\ Idle.counter \in Counters
BY SetsAssumption, TermsType DEF Idle, Request, Steps, Statuses, Source

LEMMA GotoType ==
  ASSUME TypeOK, NEW r \in Requests, NEW pc \in Steps, Goto(r, pc)
  PROVE  /\ req' \in [Requests -> Request]
         /\ \A s \in Requests : s # r => req'[s] = req[s]
         /\ req'[r].pc = pc /\ req'[r].offer = req[r].offer
         /\ req'[r].status = req[r].status /\ req'[r].amount = req[r].amount
         /\ req'[r].counter = req[r].counter
BY DEF Goto, TypeOK, Request

LEMMA FinishType ==
  ASSUME TypeOK, NEW r \in Requests, Finish(r)
  PROVE  /\ req' \in [Requests -> Request]
         /\ \A s \in Requests : s # r => req'[s] = req[s]
         /\ req'[r].pc = "idle"
BY IdleType DEF Finish, TypeOK

LEMMA LoadType ==
  ASSUME TypeOK, NEW r \in Requests, NEW o \in Offers, Found(o), NEW pc \in Steps,
         NEW c \in Counters, Load(r, o, pc, c)
  PROVE  /\ req' \in [Requests -> Request]
         /\ \A s \in Requests : s # r => req'[s] = req[s]
         /\ req'[r].pc = pc /\ req'[r].offer = o
         /\ req'[r].status = status[o] /\ req'[r].amount = amount[o]
         /\ req'[r].counter = c
<1>1. status[o] \in Statuses
  BY DEF Found, TypeOK
<1> QED BY <1>1 DEF Load, TypeOK, Request, Source

\* What a request object holds has the right type.
LEMMA HeldType ==
  ASSUME TypeOK, NEW r \in Requests
  PROVE  /\ req[r].offer \in Offers /\ req[r].amount \in Amounts
         /\ req[r].counter \in Counters /\ req[r].counter \in Amounts
         /\ req[r].source \in Source /\ req[r].pc \in Steps
BY DEF TypeOK, Request, Amounts

\* Every variable keeps its type.
THEOREM TypeCorrect == Spec => []TypeOK
<1>1. Init => TypeOK
  BY IdleType, TermsType DEF Init, TypeOK
<1>2. TypeOK /\ [Next]_vars => TypeOK'
  <2> SUFFICES ASSUME TypeOK, [Next]_vars PROVE TypeOK'
    OBVIOUS
  <2>1. ASSUME NEW r \in Requests, NEW o \in Offers, NEW t \in Terms, CreateDraft(r, o, t)
        PROVE TypeOK'
    <3>1. req' \in [Requests -> Request]
      BY <2>1, TermsType, IdleType DEF CreateDraft, TypeOK, Request, Steps, Statuses, Source
    <3> QED BY <2>1, <3>1, TermsType DEF CreateDraft, TypeOK, Statuses, escalation, history
  <2>2. ASSUME NEW r \in Requests, NEW o \in Offers, NEW c \in Counters, BeginCounter(r, o, c)
        PROVE TypeOK'
    BY <2>2, LoadType DEF BeginCounter, TypeOK, Steps, offer, escalation, history
  <2>3. ASSUME NEW r \in Requests, NEW o \in Offers, BeginSign(r, o) PROVE TypeOK'
    BY <2>3, LoadType, IdleType DEF BeginSign, TypeOK, Steps, offer, escalation, history
  <2>4. ASSUME NEW r \in Requests, EnqueueForBroker(r) PROVE TypeOK'
    BY <2>4, HeldType, FinishType DEF EnqueueForBroker, TypeOK, Statuses, escalation, history
  <2>5. ASSUME NEW r \in Requests, RecordNegotiation(r) PROVE TypeOK'
    <3>1. req' \in [Requests -> Request]
      BY <2>5, FinishType, GotoType DEF RecordNegotiation, Steps
    <3>2. counters' \in [Offers -> SUBSET Counters]
      BY <2>5, HeldType DEF RecordNegotiation, TypeOK
    <3> QED BY <2>5, <3>1, <3>2 DEF RecordNegotiation, TypeOK, offer, history
  <2>6. ASSUME NEW r \in Requests, AcceptCounter(r) PROVE TypeOK'
    BY <2>6, HeldType, FinishType DEF AcceptCounter, Dirty, TypeOK, escalation, history
  <2>7. ASSUME NEW r \in Requests, EnqueuePacket(r) \/ AuditPacket(r) PROVE TypeOK'
    BY <2>7, HeldType, FinishType, GotoType
    DEF EnqueuePacket, AuditPacket, TypeOK, Steps, offer, history
  <2>8. ASSUME NEW r \in Requests, Sign(r) PROVE TypeOK'
    BY <2>8, HeldType, GotoType DEF Sign, Dirty, TypeOK, Statuses, Steps, escalation
  <2>9. ASSUME NEW r \in Requests, FindContract(r) \/ Refused(r) \/ InsertRefused(r) \/ Crash(r)
        PROVE TypeOK'
    BY <2>9, HeldType, GotoType, FinishType
    DEF FindContract, Refused, InsertRefused, Crash, TypeOK, Steps, offer, escalation, history
  <2>10. ASSUME NEW r \in Requests, NEW source \in Source, Drafted(r, source) PROVE TypeOK'
    <3>1. req' \in [Requests -> Request]
      <4>1. req[r] \in Request
        BY DEF TypeOK
      <4>2. [req[r] EXCEPT !.pc = "insert", !.source = source] \in Request
        BY <4>1 DEF Request, Steps
      <4>3. req' = [req EXCEPT ![r] = [req[r] EXCEPT !.pc = "insert", !.source = source]]
        BY <2>10 DEF Drafted, TypeOK
      <4> QED BY <4>2, <4>3 DEF TypeOK
    <3> QED BY <2>10, <3>1 DEF Drafted, TypeOK, offer, escalation, history
  <2>11. ASSUME NEW r \in Requests, InsertContract(r) PROVE TypeOK'
    BY <2>11, HeldType, FinishType DEF InsertContract, TypeOK, Contract, offer, escalation, history
  <2>12. CASE UNCHANGED vars
    BY <2>12 DEF vars, TypeOK, offer, escalation, history
  <2> QED BY <2>1, <2>2, <2>3, <2>4, <2>5, <2>6, <2>7, <2>8, <2>9, <2>10, <2>11, <2>12
          DEF Next, Continue
<1> QED BY <1>1, <1>2, PTL DEF Spec
-----------------------------------------------------------------------------
\* What no step takes away from an offer that has a row.
Kept(o) ==
  /\ terms'[o] = terms[o]
  /\ counters[o] \subseteq counters'[o]
  /\ Found(o) => Found(o)'
  /\ Signed(o) => Signed(o)'

LEMMA AuthorizedKept ==
  ASSUME NEW o, NEW price, Kept(o), Authorized(o, price)
  PROVE  price = terms'[o].amount \/ (price \in counters'[o] /\ WithinBand(o, price)')
BY DEF Kept, Authorized, WithinBand, BandLow, BandHigh

LEMMA KnowsKept ==
  ASSUME NEW s \in Requests, req'[s] = req[s], Knows(s),
         req[s].pc # "idle" => Kept(req[s].offer),
         req[s].pc = "enqueue" => req[s].offer \notin stranded'
  PROVE  Knows(s)'
<1>1. CASE req[s].pc \in {"idle", "enqueue"}
  BY <1>1 DEF Knows, Kept
<1>2. CASE req[s].pc \notin {"idle", "enqueue"}
  <2>1. Authorized(req[s].offer, req[s].amount)'
    BY <1>2, AuthorizedKept DEF Knows, Authorized
  <2> QED BY <1>2, <2>1 DEF Knows, Kept, WithinBand, BandLow, BandHigh
<1> QED BY <1>1, <1>2

\* A step of one request that takes nothing away from any offer with a row:
\* what is left to show is what that request knows, where the offers stand,
\* and how a new amount and a new contract are authorised.
LEMMA OneMoves ==
  ASSUME OfferInv, TypeOK', NEW r \in Requests,
         \A s \in Requests : s # r => req'[s] = req[s],
         \A q \in Offers : Found(q) => Kept(q),
         \A s \in Requests : s # r /\ req[s].pc = "enqueue" =>
           /\ req[s].offer \notin stranded'
           /\ req'[r].pc = "enqueue" => req'[r].offer # req[s].offer,
         Knows(r)',
         \A q \in Offers : Placed(q)',
         \A q \in Offers : \/ Kept(q) /\ amount'[q] = amount[q]
                           \/ Authorized(q, amount[q])',
         \A q \in Offers : contract'[q] = contract[q]
                           \/ (Signed(q)' /\ Authorized(q, contract[q].price)')
  PROVE  OfferInv'
<1>1. \A s \in Requests : req[s].offer \in Offers
  BY HeldType DEF OfferInv
<1>2. \A s \in Requests : s # r => Knows(s)'
  BY <1>1, KnowsKept DEF OfferInv, Knows
<1>3. OneCreator'
  BY DEF OfferInv, OneCreator
<1>4. AmountAuthorized'
  BY AuthorizedKept DEF OfferInv, AmountAuthorized, Authorized
<1>5. ContractSigned'
  <2> SUFFICES ASSUME NEW q \in Offers, contract'[q] # NoContract, contract'[q] = contract[q]
               PROVE  Signed(q)' /\ Authorized(q, contract[q].price)'
    BY DEF ContractSigned
  <2>1. Signed(q) /\ Authorized(q, contract[q].price)
    BY DEF OfferInv, ContractSigned
  <2>2. Found(q)
    BY <2>1 DEF OfferInv, Placed, Signed, Found
  <2> QED BY <2>1, <2>2, AuthorizedKept DEF Kept, Authorized
<1> QED BY <1>2, <1>3, <1>4, <1>5 DEF OfferInv

\* Steps that write neither the status nor the terms of an offer and queue none.
LEMMA SteadyStep ==
  ASSUME OfferInv, TypeOK', NEW r \in Requests, UNCHANGED <<status, terms, metric, history>>,
         \A o \in Offers : counters[o] \subseteq counters'[o],
         \A s \in Requests : s # r => req'[s] = req[s],
         req[r].pc # "enqueue", req'[r].pc # "enqueue",
         Knows(r)',
         \A o \in Offers : amount'[o] = amount[o] \/ Authorized(o, amount'[o]),
         \A o \in Offers : contract'[o] = contract[o]
                           \/ (Signed(o) /\ Authorized(o, contract'[o].price))
  PROVE  OfferInv'
<1>1. \A o \in Offers : Kept(o)
  BY DEF Kept, Found, Signed, history
<1>2. \A o \in Offers : Enqueuing(o)' <=> Enqueuing(o)
  BY DEF Enqueuing
<1>3. \A o \in Offers : Placed(o)'
  BY <1>2 DEF OfferInv, Placed, Found, history
<1>4. \A o \in Offers : \/ Kept(o) /\ amount'[o] = amount[o]
                        \/ Authorized(o, amount[o])'
  BY <1>1, AuthorizedKept DEF Authorized
<1>5. \A o \in Offers : contract'[o] = contract[o]
                        \/ (Signed(o)' /\ Authorized(o, contract[o].price)')
  BY <1>1, AuthorizedKept DEF Kept, Authorized
<1>6. \A s \in Requests : req[s].pc = "enqueue" => req[s].offer \notin stranded'
  BY DEF OfferInv, Knows, history
<1> QED BY <1>1, <1>3, <1>4, <1>5, <1>6, OneMoves

LEMMA Creating ==
  ASSUME OfferInv, TypeOK', NEW r \in Requests, NEW o \in Offers, NEW t \in Terms,
         CreateDraft(r, o, t)
  PROVE  OfferInv'
<1>1. /\ status[o] = "absent" /\ status'[o] = "drafting"
      /\ terms'[o] = t /\ amount'[o] = t.amount
      /\ \A q \in Offers : q # o => /\ status'[q] = status[q] /\ terms'[q] = terms[q]
                                  /\ amount'[q] = amount[q]
      /\ UNCHANGED <<counters, contract, metric, early, stranded>>
      /\ \A s \in Requests : s # r => req'[s] = req[s]
      /\ req[r].pc = "idle" /\ req'[r].pc = "enqueue" /\ req'[r].offer = o
  BY DEF CreateDraft, OfferInv, TypeOK, escalation, history
<1>2. \A q \in Offers : q # o => Kept(q)
  BY <1>1 DEF Kept, Found, Signed
<1>3. \A s \in Requests : req[s].pc # "idle" => req[s].offer # o
  BY <1>1 DEF OfferInv, Knows, Found
<1>4. Placed(o)
  BY DEF OfferInv
<1>5. o \notin metric /\ o \notin stranded /\ o \notin early
  BY <1>1, <1>4 DEF Placed, Found
<1>6. Knows(r)'
  BY <1>1, <1>5 DEF Knows, Found
<1>7. ASSUME NEW q \in Offers PROVE Placed(q)'
  <2>1. CASE q = o
    BY <1>1, <1>5, <2>1 DEF Placed, Found, Enqueuing
  <2>2. CASE q # o
    <3>1. Enqueuing(q)' <=> Enqueuing(q)
      BY <1>1, <2>2 DEF Enqueuing
    <3> QED BY <1>1, <2>2, <3>1 DEF OfferInv, Placed, Found
  <2> QED BY <2>1, <2>2
<1>8. Authorized(o, amount[o])'
  BY <1>1 DEF Authorized
<1>9. \A s \in Requests : req[s].pc = "enqueue" => req[s].offer \notin stranded'
  BY <1>1 DEF OfferInv, Knows
<1>10. ~Found(o)
  BY <1>1 DEF Found
<1> QED BY <1>1, <1>2, <1>3, <1>6, <1>7, <1>8, <1>9, <1>10, OneMoves

\* Queueing an offer: it may have been signed meanwhile, and is then put back.
LEMMA Queueing ==
  ASSUME OfferInv, TypeOK', NEW r \in Requests, EnqueueForBroker(r)
  PROVE  OfferInv'
<1>0. PICK o \in Offers : o = req[r].offer
  BY HeldType DEF OfferInv
<1>1. /\ req[r].pc = "enqueue" /\ req'[r].pc = "idle"
      /\ \A s \in Requests : s # r => req'[s] = req[s]
      /\ status'[o] = "awaiting_broker" /\ metric' = metric \cup {o}
      /\ \A q \in Offers : q # o => status'[q] = status[q]
      /\ UNCHANGED <<terms, amount, counters, contract, early, stranded>>
  BY <1>0, FinishType DEF EnqueueForBroker, OfferInv, TypeOK, escalation, history
<1>2. Found(o) /\ o \notin stranded /\ Enqueuing(o) /\ Placed(o)
  BY <1>0, <1>1 DEF OfferInv, Knows, Enqueuing
<1>3. Signed(o) => o \in early
  BY <1>2 DEF Placed, Signed
<1>4. \A q \in Offers : Kept(q)
  BY <1>1, <1>3 DEF Kept, Found, Signed
<1>5. Knows(r)'
  BY <1>1 DEF Knows
<1>6. \A s \in Requests : s # r /\ req[s].pc = "enqueue" =>
        req[s].offer # o /\ req[s].offer \notin stranded'
  BY <1>0, <1>1 DEF OfferInv, OneCreator, Knows
<1>7. ASSUME NEW q \in Offers PROVE Placed(q)'
  <2>1. CASE q = o
    <3>1. ~Enqueuing(o)'
      BY <1>1, <1>6 DEF Enqueuing
    <3> QED BY <1>1, <1>2, <2>1, <3>1 DEF Placed, Found
  <2>2. CASE q # o
    <3>1. Enqueuing(q)' <=> Enqueuing(q)
      BY <1>0, <1>1, <2>2 DEF Enqueuing
    <3> QED BY <1>1, <2>2, <3>1 DEF OfferInv, Placed, Found
  <2> QED BY <2>1, <2>2
<1> QED BY <1>1, <1>4, <1>5, <1>6, <1>7, OneMoves

\* Signing an offer in whatever status it is.
LEMMA Signing ==
  ASSUME OfferInv, TypeOK', NEW r \in Requests, Sign(r)
  PROVE  OfferInv'
<1>0. PICK o \in Offers : o = req[r].offer
  BY HeldType DEF OfferInv
<1>1. /\ req[r].pc = "sign" /\ req'[r].pc = "contract" /\ req'[r].offer = o
      /\ req'[r].amount = req[r].amount
      /\ \A s \in Requests : s # r => req'[s] = req[s]
      /\ status'[o] = IF req[r].status = "signed" THEN status[o] ELSE "signed"
      /\ early' = IF status[o] = "drafting" THEN early \cup {o} ELSE early
      /\ \A q \in Offers : q # o => status'[q] = status[q]
      /\ UNCHANGED <<terms, amount, metric, counters, contract, stranded>>
  BY <1>0, GotoType DEF Sign, Dirty, OfferInv, TypeOK, Steps, escalation
<1>2. /\ Found(o) /\ Placed(o) /\ Authorized(o, req[r].amount)
      /\ req[r].status = "signed" => Signed(o)
  BY <1>0, <1>1 DEF OfferInv, Knows
<1>3. status[o] \in Statuses
  BY <1>2 DEF OfferInv, TypeOK, Found
<1>4. Signed(o)' /\ Found(o)'
  BY <1>1, <1>2, <1>3 DEF Signed, Found, Placed
<1>5. \A q \in Offers : Kept(q)
  BY <1>1, <1>4 DEF Kept, Found, Signed
<1>6. Authorized(o, req[r].amount)'
  BY <1>1, <1>2 DEF Authorized, WithinBand, BandLow, BandHigh
<1>7. Knows(r)'
  BY <1>1, <1>4, <1>6 DEF Knows
<1>8. ASSUME NEW q \in Offers PROVE Placed(q)'
  <2>1. Enqueuing(q)' <=> Enqueuing(q)
    BY <1>1 DEF Enqueuing
  <2>2. CASE q = o
    <3>1. CASE req[r].status = "signed"
      <4>1. status[o] # "drafting"
        BY <1>2, <3>1 DEF Placed, Signed
      <4> QED BY <1>1, <1>2, <2>1, <2>2, <3>1, <4>1 DEF Placed, Found
    <3>2. CASE req[r].status # "signed"
      <4>1. o \in metric \cup early'
        BY <1>1, <1>2, <1>3 DEF Placed, Statuses
      <4> QED BY <1>1, <1>2, <2>1, <2>2, <3>2, <4>1 DEF Placed, Found
    <3> QED BY <3>1, <3>2
  <2>3. CASE q # o
    BY <1>1, <2>1, <2>3 DEF OfferInv, Placed, Found
  <2> QED BY <2>2, <2>3
<1>9. \A s \in Requests : req[s].pc = "enqueue" => req[s].offer \notin stranded'
  BY <1>1 DEF OfferInv, Knows
<1> QED BY <1>1, <1>5, <1>7, <1>8, <1>9, OneMoves

\* A worker that dies before it has queued its offer strands it.
LEMMA Stranding ==
  ASSUME OfferInv, TypeOK', NEW r \in Requests, Crash(r), req[r].pc = "enqueue"
  PROVE  OfferInv'
<1>0. PICK o \in Offers : o = req[r].offer
  BY HeldType DEF OfferInv
<1>1. /\ req'[r].pc = "idle" /\ \A s \in Requests : s # r => req'[s] = req[s]
      /\ stranded' = stranded \cup {o}
      /\ UNCHANGED <<status, terms, amount, metric, counters, contract, early>>
  BY <1>0, FinishType DEF Crash, OfferInv, offer
<1>2. Found(o) /\ Enqueuing(o)
  BY <1>0 DEF OfferInv, Knows, Enqueuing
<1>3. \A q \in Offers : Kept(q)
  BY <1>1 DEF Kept, Found, Signed
<1>4. Knows(r)'
  BY <1>1 DEF Knows
<1>5. \A s \in Requests : s # r /\ req[s].pc = "enqueue" =>
        req[s].offer # o /\ req[s].offer \notin stranded'
  BY <1>0, <1>1 DEF OfferInv, OneCreator, Knows
<1>6. ASSUME NEW q \in Offers PROVE Placed(q)'
  <2>1. CASE q = o
    BY <1>1, <1>2, <2>1 DEF OfferInv, Placed, Found
  <2>2. CASE q # o
    <3>1. Enqueuing(q)' <=> Enqueuing(q)
      BY <1>0, <1>1, <2>2 DEF Enqueuing
    <3> QED BY <1>1, <2>2, <3>1 DEF OfferInv, Placed, Found
  <2> QED BY <2>1, <2>2
<1> QED BY <1>1, <1>3, <1>4, <1>5, <1>6, OneMoves

LEMMA OfferStep == OfferInv /\ TypeOK' /\ [Next]_vars => OfferInv'
<1> SUFFICES ASSUME OfferInv, TypeOK', [Next]_vars PROVE OfferInv'
  OBVIOUS
<1>0. TypeOK /\ AmountAuthorized /\ \A r \in Requests : Knows(r)
  BY DEF OfferInv
<1>1. ASSUME NEW r \in Requests, NEW o \in Offers, NEW pc \in {"negotiate", "sign"},
             NEW c \in Counters, Found(o), req[r].pc = "idle", Load(r, o, pc, c),
             UNCHANGED <<offer, escalation, contract, history>>
      PROVE OfferInv'
  <2>1. Knows(r)'
    BY <1>0, <1>1, LoadType DEF Knows, Found, Signed, AmountAuthorized, Authorized,
       WithinBand, BandLow, BandHigh, offer, escalation, history, Steps
  <2> QED BY <1>0, <1>1, <2>1, LoadType, SteadyStep DEF offer, escalation, Steps
<1>2. ASSUME NEW r \in Requests, Finish(r), UNCHANGED <<offer, contract, history>>, req[r].pc # "enqueue",
             \A o \in Offers : counters[o] \subseteq counters'[o]
      PROVE OfferInv'
  <2>1. req'[r].pc = "idle" /\ \A s \in Requests : s # r => req'[s] = req[s]
    BY <1>0, <1>2, FinishType
  <2>2. Knows(r)'
    BY <2>1 DEF Knows
  <2> QED BY <1>2, <2>1, <2>2, SteadyStep DEF offer
<1>3. ASSUME NEW r \in Requests, NEW pc \in {"escalate", "audit", "contract", "rpc"},
             Goto(r, pc), UNCHANGED <<offer, contract, history>>,
             \A o \in Offers : counters[o] \subseteq counters'[o],
             req[r].pc \notin {"idle", "enqueue"},
             pc \in {"contract", "rpc"} => req[r].pc \in {"contract", "rpc", "insert"}
      PROVE OfferInv'
  <2>1. /\ req'[r].pc = pc /\ req'[r].offer = req[r].offer
        /\ req'[r].amount = req[r].amount /\ req[r].offer \in Offers
        /\ \A s \in Requests : s # r => req'[s] = req[s]
    BY <1>0, <1>3, GotoType, HeldType DEF Steps
  <2>2. Authorized(req[r].offer, req[r].amount)'
    BY <1>0, <1>3, <2>1 DEF Knows, Authorized, WithinBand, BandLow, BandHigh, offer
  <2>3. Knows(r)'
    BY <1>0, <1>3, <2>1, <2>2 DEF Knows, Found, Signed, offer, history
  <2> QED BY <1>3, <2>1, <2>3, SteadyStep DEF offer
<1>4. ASSUME NEW r \in Requests, Crash(r) PROVE OfferInv'
  <2>1. CASE req[r].pc = "enqueue"
    BY <1>4, <2>1, Stranding
  <2>2. CASE req[r].pc # "enqueue"
    BY <1>2, <1>4, <2>2 DEF Crash, history
  <2> QED BY <2>1, <2>2
<1>5. ASSUME NEW r \in Requests, RecordNegotiation(r) PROVE OfferInv'
  <2> DEFINE o == req[r].offer
             c == req[r].counter
  <2>1. o \in Offers /\ c \in Counters
    BY <1>0, HeldType
  <2>2. CASE c = 0 /\ Finish(r) /\ UNCHANGED counters
    BY <1>2, <1>5, <2>2 DEF RecordNegotiation
  <2>3. CASE /\ counters' = [counters EXCEPT ![o] = @ \cup {c}]
             /\ Goto(r, IF WithinBand(o, c) THEN "update" ELSE "escalate")
    <3>1. /\ c \in counters'[o]
          /\ \A q \in Offers : counters[q] \subseteq counters'[q]
      BY <1>0, <2>1, <2>3 DEF TypeOK
    <3>2. CASE WithinBand(o, c)
      <4>1. /\ req'[r].pc = "update" /\ req'[r].offer = o /\ req'[r].counter = c
            /\ req'[r].amount = req[r].amount
            /\ \A s \in Requests : s # r => req'[s] = req[s]
        BY <1>0, <2>3, <3>2, GotoType DEF Steps
      <4>2. Found(o) /\ Authorized(o, req[r].amount) /\ req[r].pc = "negotiate"
        BY <1>0, <1>5 DEF RecordNegotiation, Knows
      <4>0. UNCHANGED <<status, terms, metric, history>>
        BY <1>5 DEF RecordNegotiation, offer
      <4>3. UNCHANGED <<status, terms, metric, history>> /\ Kept(o)
        <5>1. status' = status /\ terms' = terms /\ early' = early
          BY <4>0 DEF history
        <5> QED BY <2>1, <3>1, <4>0, <4>1, <5>1 DEF Kept, Found, Signed
      <4>4. Authorized(o, req[r].amount)' /\ Found(o)'
        BY <4>1, <4>2, <4>3 DEF Kept, Authorized, WithinBand, BandLow, BandHigh
      <4>5. c \in counters'[o] /\ WithinBand(o, c)'
        BY <3>1, <3>2, <4>1, <4>3 DEF WithinBand, BandLow, BandHigh
      <4>6. Knows(r)'
        BY <4>1, <4>4, <4>5 DEF Knows
      <4> QED BY <1>5, <3>1, <4>1, <4>2, <4>3, <4>6, SteadyStep DEF RecordNegotiation, offer
    <3>3. CASE ~WithinBand(o, c)
      <4>1. Goto(r, "escalate")
        BY <2>3, <3>3 DEF Goto
      <4>2. req[r].pc = "negotiate" /\ UNCHANGED <<offer, contract, history>>
        BY <1>5 DEF RecordNegotiation
      <4> QED BY <1>3, <3>1, <4>1, <4>2
    <3> QED BY <3>2, <3>3
  <2> QED BY <1>5, <2>2, <2>3 DEF RecordNegotiation
<1>6. ASSUME NEW r \in Requests, AcceptCounter(r) PROVE OfferInv'
  <2> DEFINE o == req[r].offer
  <2>1. /\ req'[r].pc = "idle" /\ \A s \in Requests : s # r => req'[s] = req[s]
        /\ o \in Offers
    BY <1>0, <1>6, FinishType, HeldType DEF AcceptCounter
  <2>2. Knows(r)'
    BY <2>1 DEF Knows
  <2>3. Authorized(o, req[r].counter)
    BY <1>0, <1>6 DEF AcceptCounter, Knows, Authorized
  <2>4. \A q \in Offers : amount'[q] = amount[q] \/ Authorized(q, amount'[q])
    BY <1>0, <1>6, <2>1, <2>3 DEF AcceptCounter, Dirty, TypeOK
  <2> QED BY <1>6, <2>1, <2>2, <2>4, SteadyStep DEF AcceptCounter, escalation
<1>7. ASSUME NEW r \in Requests, NEW source \in Source, Drafted(r, source) PROVE OfferInv'
  <2>1. /\ req'[r].pc = "insert" /\ req'[r].offer = req[r].offer
        /\ req'[r].amount = req[r].amount
        /\ \A s \in Requests : s # r => req'[s] = req[s]
    BY <1>0, <1>7 DEF Drafted, TypeOK, Request
  <2>2. Knows(r)'
    BY <1>0, <1>7, <2>1 DEF Drafted, Knows, Found, Signed, Authorized, WithinBand,
       BandLow, BandHigh, offer, escalation, history
  <2> QED BY <1>7, <2>1, <2>2, SteadyStep DEF Drafted, offer, escalation
<1>8. ASSUME NEW r \in Requests, InsertContract(r) PROVE OfferInv'
  <2> DEFINE o == req[r].offer
  <2>1. /\ req'[r].pc = "idle" /\ \A s \in Requests : s # r => req'[s] = req[s]
        /\ o \in Offers
    BY <1>0, <1>8, FinishType, HeldType DEF InsertContract
  <2>2. Knows(r)'
    BY <2>1 DEF Knows
  <2>3. Signed(o) /\ Authorized(o, req[r].amount)
    BY <1>0, <1>8 DEF InsertContract, Knows
  <2>4. \A q \in Offers : contract'[q] # contract[q] =>
          q = o /\ contract'[q].price = req[r].amount
    BY <1>0, <1>8, <2>1 DEF InsertContract, TypeOK
  <2> QED BY <1>8, <2>1, <2>2, <2>3, <2>4, SteadyStep DEF InsertContract, offer, escalation
<1>9. CASE UNCHANGED vars
  BY <1>0, <1>9 DEF vars, offer, escalation, history, OfferInv, Knows, OneCreator, Placed,
     Enqueuing, AmountAuthorized, ContractSigned, Signed, Found, Authorized, WithinBand,
     BandLow, BandHigh
<1>10. ASSUME NEW r \in Requests, EnqueuePacket(r) \/ AuditPacket(r) PROVE OfferInv'
  BY <1>2, <1>3, <1>10 DEF EnqueuePacket, AuditPacket
<1>11. ASSUME NEW r \in Requests,
              FindContract(r) \/ Refused(r) \/ InsertRefused(r)
       PROVE OfferInv'
  BY <1>2, <1>3, <1>11 DEF FindContract, Refused, InsertRefused, escalation
<1>12. ASSUME NEW r \in Requests, NEW o \in Offers, NEW c \in Counters,
              BeginCounter(r, o, c) \/ BeginSign(r, o)
       PROVE OfferInv'
  BY <1>1, <1>12, IdleType DEF BeginCounter, BeginSign
<1>13. \E c \in Counters : TRUE
  BY IdleType
<1> QED
  BY <1>4, <1>5, <1>6, <1>7, <1>8, <1>9, <1>10, <1>11, <1>12, <1>13, Creating, Queueing,
     Signing
  DEF Next, Continue
-----------------------------------------------------------------------------
\* The inductive invariant holds: what a request knows stays true while it waits.
THEOREM OfferInvariant == Spec => []OfferInv
<1>1. Init => OfferInv
  <2> SUFFICES ASSUME Init PROVE OfferInv
    OBVIOUS
  <2>1. TypeOK
    BY IdleType, TermsType DEF Init, TypeOK
  <2>2. \A r \in Requests : req[r].pc = "idle"
    BY IdleType DEF Init
  <2>3. \A o \in Offers : Placed(o)
    BY DEF Init, Placed, Found
  <2> QED BY <2>1, <2>2, <2>3 DEF Init, OfferInv, Knows, OneCreator, AmountAuthorized,
          ContractSigned, Authorized
<1>2. OfferInv => TypeOK
  BY DEF OfferInv
<1> QED BY <1>1, <1>2, TypeCorrect, OfferStep, PTL DEF Spec

\* However counters and signatures race, an offer's amount is the drafted one
\* or a counter on record inside the band.
THEOREM AmountAuthorizedHolds == Spec => []AmountAuthorized
<1>1. OfferInv => AmountAuthorized
  BY DEF OfferInv
<1> QED BY <1>1, OfferInvariant, PTL

\* A contract is only ever for an offer that has been signed, at such an amount;
\* its offer is "signed" unless it was queued after an early signature.
THEOREM ContractAuthorizedHolds == Spec => []ContractAuthorized
<1>1. OfferInv => ContractAuthorized
  BY DEF OfferInv, ContractSigned, ContractAuthorized, Signed, Placed
<1> QED BY <1>1, OfferInvariant, PTL

\* Whatever is signed, countered or lost meanwhile, an offer has its metric
\* exactly when CreateOffer has queued it.
THEOREM QueuedHasMetricHolds == Spec => []QueuedHasMetric
<1>1. OfferInv => QueuedHasMetric
  BY DEF OfferInv, Placed, QueuedHasMetric
<1> QED BY <1>1, OfferInvariant, PTL
-----------------------------------------------------------------------------
\* Under the refinement mapping each step is one of the life cycle or a stutter.
Phase == [o \in Offers |-> IF contract[o] = NoContract THEN status[o] ELSE "contracted"]
AllSigned == {o \in Offers : Signed(o)}
Mapped == <<Phase, metric, AllSigned>>

LEMMA Drafts ==
  ASSUME OfferInv, NEW r \in Requests, NEW o \in Offers, NEW t \in Terms, CreateDraft(r, o, t)
  PROVE  Lifecycle!Draft(o)
<1>1. /\ status[o] = "absent" /\ status' = [status EXCEPT ![o] = "drafting"]
      /\ UNCHANGED <<contract, metric, early>>
  BY DEF CreateDraft, history
<1>2. contract[o] = NoContract /\ o \notin early /\ status'[o] = "drafting"
  BY <1>1 DEF OfferInv, TypeOK, ContractSigned, Placed, Signed
<1>3. Phase[o] = "absent" /\ Phase' = [Phase EXCEPT ![o] = "drafting"]
  BY <1>1, <1>2 DEF Phase, OfferInv, TypeOK
<1>4. AllSigned' = AllSigned
  BY <1>1, <1>2 DEF AllSigned, Signed, OfferInv, TypeOK
<1> QED BY <1>1, <1>3, <1>4 DEF Lifecycle!Draft, Phase, AllSigned

LEMMA Queues ==
  ASSUME OfferInv, NEW r \in Requests, EnqueueForBroker(r)
  PROVE  \E o \in Offers : Lifecycle!Queue(o)
<1>0. PICK o \in Offers : o = req[r].offer
  BY HeldType DEF OfferInv
<1>1. /\ status' = [status EXCEPT ![o] = "awaiting_broker"] /\ metric' = metric \cup {o}
      /\ req[r].pc = "enqueue" /\ UNCHANGED <<contract, early>>
  BY <1>0 DEF EnqueueForBroker, history
<1>2. Found(o) /\ o \notin metric /\ (Signed(o) => o \in early)
  BY <1>0, <1>1 DEF OfferInv, Knows, Placed, Enqueuing, Signed
<1>3. Phase[o] # "absent"
  BY <1>2 DEF Phase, Found
<1>4. Phase' = [Phase EXCEPT ![o] = IF @ = "contracted" THEN @ ELSE "awaiting_broker"]
  <2>1. ASSUME NEW q \in Offers, q # o PROVE Phase'[q] = Phase[q]
    BY <1>1, <2>1 DEF Phase, OfferInv, TypeOK
  <2>2. status[o] # "contracted" /\ status'[o] = "awaiting_broker"
    BY <1>1 DEF OfferInv, TypeOK, Statuses
  <2>3. Phase'[o] = IF Phase[o] = "contracted" THEN Phase[o] ELSE "awaiting_broker"
    BY <1>1, <2>2 DEF Phase
  <2> QED BY <2>1, <2>3 DEF Phase
<1>5. AllSigned' = AllSigned
  <2>1. \A q \in Offers : Signed(q)' <=> Signed(q)
    BY <1>1, <1>2 DEF Signed, OfferInv, TypeOK
  <2> QED BY <2>1 DEF AllSigned
<1>6. Lifecycle!Queue(o)
  BY <1>1, <1>2, <1>3, <1>4, <1>5 DEF Lifecycle!Queue, Phase, AllSigned
<1> QED BY <1>6

LEMMA Signs ==
  ASSUME OfferInv, OfferInv', NEW r \in Requests, Sign(r)
  PROVE  (\E o \in Offers : Lifecycle!Sign(o)) \/ UNCHANGED Mapped
<1>0. PICK o \in Offers : o = req[r].offer
  BY HeldType DEF OfferInv
<1>1. /\ status' = [status EXCEPT ![o] = IF req[r].status = "signed" THEN @ ELSE "signed"]
      /\ early' = IF status[o] = "drafting" THEN early \cup {o} ELSE early
      /\ req[r].pc = "sign" /\ req'[r].pc = "contract" /\ req'[r].offer = o
      /\ UNCHANGED <<contract, metric>>
  BY <1>0, GotoType DEF Sign, Dirty, OfferInv, Steps
<1>2. \A q \in Offers : q # o =>
        status'[q] = status[q] /\ Phase'[q] = Phase[q] /\ (Signed(q)' <=> Signed(q))
  BY <1>1 DEF OfferInv, TypeOK, Phase, Signed
<1>3. Found(o) /\ Signed(o)' /\ status[o] \in Statuses
  BY <1>0, <1>1 DEF OfferInv, Knows, TypeOK, Found
<1>4. status'[o] = IF req[r].status = "signed" THEN status[o] ELSE "signed"
  BY <1>1 DEF OfferInv, TypeOK
<1>5. CASE contract[o] # NoContract \/ req[r].status = "signed" \/ status[o] = "signed"
  <2>1. Signed(o)
    BY <1>0, <1>1, <1>5 DEF OfferInv, Knows, ContractSigned, Signed
  <2>2. Phase'[o] = Phase[o]
    BY <1>1, <1>4, <1>5 DEF Phase
  <2>3. Phase' = Phase
    BY <1>2, <2>2 DEF Phase
  <2>4. AllSigned' = AllSigned
    BY <1>2, <1>3, <2>1 DEF AllSigned
  <2> QED BY <1>1, <2>3, <2>4 DEF Mapped
<1>6. CASE contract[o] = NoContract /\ req[r].status # "signed" /\ status[o] # "signed"
  <2>1. Phase[o] \in {"drafting", "awaiting_broker"} /\ Phase'[o] = "signed"
    BY <1>1, <1>3, <1>4, <1>6 DEF Phase, Statuses
  <2>2. Phase' = [Phase EXCEPT ![o] = "signed"]
    BY <1>2, <2>1 DEF Phase
  <2>3. AllSigned' = AllSigned \cup {o}
    BY <1>2, <1>3 DEF AllSigned
  <2>4. Lifecycle!Sign(o)
    BY <1>1, <2>1, <2>2, <2>3 DEF Lifecycle!Sign, Phase, AllSigned
  <2> QED BY <2>4
<1> QED BY <1>5, <1>6

LEMMA Contracts ==
  ASSUME OfferInv, NEW r \in Requests, InsertContract(r)
  PROVE  \E o \in Offers : Lifecycle!Contract(o)
<1>0. PICK o \in Offers : o = req[r].offer
  BY HeldType DEF OfferInv
<1>1. /\ contract[o] = NoContract /\ req[r].pc = "insert" /\ req[r].source \in Source
      /\ contract' = [contract EXCEPT ![o] =
           [source |-> req[r].source, price |-> req[r].amount]]
      /\ UNCHANGED <<status, metric, early>>
  BY <1>0, HeldType DEF InsertContract, OfferInv, offer, history
<1>2. contract'[o] # NoContract /\ \A q \in Offers : q # o => contract'[q] = contract[q]
  BY <1>1 DEF OfferInv, TypeOK, NoContract, Source
<1>3. Signed(o) /\ status[o] \in {"awaiting_broker", "signed"}
  BY <1>0, <1>1 DEF OfferInv, Knows, Placed, Signed
<1>4. Phase[o] \in {"awaiting_broker", "signed"} /\ Phase' = [Phase EXCEPT ![o] = "contracted"]
  BY <1>1, <1>2, <1>3 DEF Phase
<1>5. o \in AllSigned /\ AllSigned' = AllSigned
  BY <1>1, <1>3 DEF AllSigned, Signed
<1>6. Lifecycle!Contract(o)
  BY <1>1, <1>4, <1>5 DEF Lifecycle!Contract, Phase, AllSigned
<1> QED BY <1>6

\* The offer pipeline implements the life cycle: once queued, never back, and a
\* draft contract only after a signature, even one that came too early.
THEOREM ImplementsLifecycle == Spec => LifecycleSpec
<1>1. Init => Lifecycle!Init
  <2> SUFFICES ASSUME Init PROVE Lifecycle!Init
    OBVIOUS
  <2>1. Phase = [o \in Offers |-> "absent"] /\ AllSigned = {} /\ metric = {}
    BY DEF Init, Phase, AllSigned, Signed
  <2> QED BY <2>1 DEF Lifecycle!Init, Phase, AllSigned
<1>2. OfferInv /\ OfferInv' /\ [Next]_vars => [Lifecycle!Next]_Mapped
  <2> SUFFICES ASSUME OfferInv, OfferInv', [Next]_vars, Mapped' # Mapped
               PROVE Lifecycle!Next
    OBVIOUS
  <2>1. ASSUME NEW r \in Requests, NEW o \in Offers, NEW t \in Terms, CreateDraft(r, o, t)
        PROVE Lifecycle!Next
    BY <2>1, Drafts DEF Lifecycle!Next
  <2>2. ASSUME NEW r \in Requests, EnqueueForBroker(r) PROVE Lifecycle!Next
    BY <2>2, Queues DEF Lifecycle!Next
  <2>3. ASSUME NEW r \in Requests, Sign(r) PROVE Lifecycle!Next
    BY <2>3, Signs DEF Lifecycle!Next
  <2>4. ASSUME NEW r \in Requests, InsertContract(r) PROVE Lifecycle!Next
    BY <2>4, Contracts DEF Lifecycle!Next
  <2>5. ASSUME UNCHANGED <<status, contract, metric, early>> PROVE FALSE
    BY <2>5 DEF Mapped, Phase, AllSigned, Signed
  <2> QED
    BY <2>1, <2>2, <2>3, <2>4, <2>5
    DEF Next, Continue, vars, offer, history, BeginCounter, BeginSign, RecordNegotiation,
        AcceptCounter, EnqueuePacket, AuditPacket, FindContract, Drafted, Refused,
        InsertRefused, Crash
<1> QED
  BY <1>1, <1>2, OfferInvariant, PTL
  DEF Spec, LifecycleSpec, Lifecycle!Spec, Mapped, Phase, AllSigned
-----------------------------------------------------------------------------
(* The escalation of counters outside the band: each is in the hand of a   *)
(* request until its packet is audited, or was when its worker died.       *)
InHand(o, c) ==
  \E r \in Requests :
    req[r].pc \in {"escalate", "audit"} /\ req[r].offer = o /\ req[r].counter = c

Escalating(r) ==
  LET o == req[r].offer IN
  /\ req[r].pc \in {"escalate", "audit"} =>
       req[r].counter \in counters[o] /\ ~WithinBand(o, req[r].counter)
  /\ req[r].pc = "audit" => req[r].counter \in packets[o]

Tracked(o) ==
  /\ ~Found(o) => counters[o] = {}
  /\ audited[o] \subseteq packets[o]
  /\ \A c \in packets[o] : c \in counters[o] /\ ~WithinBand(o, c)
  /\ \A c \in counters[o] :
       WithinBand(o, c) \/ c \in audited[o] \cup abandoned[o] \/ InHand(o, c)

EscalationInv ==
  /\ \A o \in Offers : Tracked(o)
  /\ \A r \in Requests : Escalating(r)

\* Steps that escalate nothing: the moving request puts down what it held only
\* by dying with it.
LEMMA Unescalated ==
  ASSUME OfferInv, EscalationInv, NEW r \in Requests,
         UNCHANGED <<terms, counters, packets, audited>>,
         \A o \in Offers : abandoned[o] \subseteq abandoned'[o],
         \A s \in Requests : s # r => req'[s] = req[s],
         req'[r].pc \notin {"escalate", "audit"},
         req[r].pc \in {"escalate", "audit"} => req[r].counter \in abandoned'[req[r].offer],
         \A o \in Offers : Found(o) => Found(o)'
  PROVE  EscalationInv'
<1>1. \A o, c : WithinBand(o, c)' <=> WithinBand(o, c)
  BY DEF WithinBand, BandLow, BandHigh
<1>2. ASSUME NEW o \in Offers PROVE Tracked(o)'
  <2>1. \A c : InHand(o, c) => InHand(o, c)' \/ c \in abandoned'[o]
    BY DEF InHand
  <2>2. Tracked(o)
    BY DEF EscalationInv
  <2> QED BY <1>1, <2>1, <2>2 DEF Tracked
<1>3. ASSUME NEW s \in Requests PROVE Escalating(s)'
  <2>1. Escalating(s)
    BY DEF EscalationInv
  <2>2. CASE s = r
    BY <2>2 DEF Escalating
  <2>3. CASE s # r
    BY <1>1, <2>1, <2>3 DEF Escalating
  <2> QED BY <2>2, <2>3
<1> QED BY <1>2, <1>3 DEF EscalationInv

LEMMA EscalationStep == OfferInv /\ OfferInv' /\ EscalationInv /\ [Next]_vars => EscalationInv'
<1> SUFFICES ASSUME OfferInv, OfferInv', EscalationInv, [Next]_vars PROVE EscalationInv'
  OBVIOUS
<1>0. TypeOK /\ TypeOK' /\ \A r \in Requests : Knows(r) /\ Escalating(r)
  BY DEF OfferInv, EscalationInv
<1>1. ASSUME NEW r \in Requests, NEW o \in Offers, NEW t \in Terms, CreateDraft(r, o, t)
      PROVE EscalationInv'
  <2>1. /\ status[o] = "absent" /\ ~Found(o) /\ Found(o)'
        /\ UNCHANGED <<metric, counters, packets, audited, abandoned>>
        /\ \A s \in Requests : s # r => req'[s] = req[s]
        /\ req[r].pc = "idle" /\ req'[r].pc = "enqueue"
        /\ \A q \in Offers : q # o => terms'[q] = terms[q] /\ status'[q] = status[q]
    BY <1>0, <1>1 DEF CreateDraft, TypeOK, Found, escalation
  <2>2. ASSUME NEW q \in Offers, q # o PROVE Tracked(q)'
    <3>1. Tracked(q) /\ \A c : InHand(q, c) => InHand(q, c)'
      BY <2>1 DEF EscalationInv, InHand
    <3>2. \A c : WithinBand(q, c)' <=> WithinBand(q, c)
      BY <2>1, <2>2 DEF WithinBand, BandLow, BandHigh
    <3>3. Found(q)' <=> Found(q)
      BY <2>1, <2>2 DEF Found
    <3> QED BY <2>1, <3>1, <3>2, <3>3 DEF Tracked
  <2>3. Tracked(o)'
    <3>1. Tracked(o)
      BY DEF EscalationInv
    <3>2. counters'[o] = {} /\ packets'[o] = {} /\ audited'[o] = {}
      BY <2>1, <3>1 DEF Tracked
    <3> QED BY <2>1, <3>2 DEF Tracked
  <2>4. ASSUME NEW s \in Requests PROVE Escalating(s)'
    <3>1. CASE s = r
      BY <2>1, <3>1 DEF Escalating
    <3>2. CASE s # r /\ req[s].pc \in {"escalate", "audit"}
      <4>1. req[s].offer \in Offers /\ req[s].offer # o
        BY <1>0, <2>1, <3>2, HeldType DEF Knows
      <4>2. \A c : WithinBand(req[s].offer, c)' <=> WithinBand(req[s].offer, c)
        BY <2>1, <3>2, <4>1 DEF WithinBand, BandLow, BandHigh
      <4> QED BY <1>0, <2>1, <3>2, <4>2 DEF Escalating, WithinBand, BandLow, BandHigh
    <3>3. CASE s # r /\ req[s].pc \notin {"escalate", "audit"}
      BY <2>1, <3>3 DEF Escalating
    <3> QED BY <3>1, <3>2, <3>3
  <2> QED BY <2>2, <2>3, <2>4 DEF EscalationInv
<1>2. ASSUME NEW r \in Requests, RecordNegotiation(r) PROVE EscalationInv'
  <2>0. PICK o \in Offers, c \in Counters : o = req[r].offer /\ c = req[r].counter
    BY <1>0, HeldType
  <2>1. /\ req[r].pc = "negotiate" /\ Found(o)
        /\ UNCHANGED <<status, terms, metric, packets, audited, abandoned>>
    BY <1>0, <1>2, <2>0 DEF RecordNegotiation, Knows, offer
  <2>2. CASE Finish(r) /\ UNCHANGED counters
    <3>1. req'[r].pc = "idle" /\ \A s \in Requests : s # r => req'[s] = req[s]
      BY <1>0, <2>2, FinishType
    <3> QED BY <2>1, <2>2, <3>1, Unescalated DEF Found
  <2>3. CASE /\ counters' = [counters EXCEPT ![o] = @ \cup {c}]
             /\ Goto(r, IF WithinBand(o, c) THEN "update" ELSE "escalate")
    <3>1. /\ counters'[o] = counters[o] \cup {c}
          /\ \A q \in Offers : q # o => counters'[q] = counters[q]
      BY <1>0, <2>3 DEF TypeOK
    <3>2. /\ req'[r].offer = o /\ req'[r].counter = c
          /\ req'[r].pc = (IF WithinBand(o, c) THEN "update" ELSE "escalate")
          /\ \A s \in Requests : s # r => req'[s] = req[s]
      BY <1>0, <2>0, <2>3, GotoType DEF Steps
    <3>3. \A q, d : WithinBand(q, d)' <=> WithinBand(q, d)
      BY <2>1 DEF WithinBand, BandLow, BandHigh
    <3>4. ASSUME NEW q \in Offers PROVE Tracked(q)'
      <4>1. Tracked(q) /\ \A d : InHand(q, d) => InHand(q, d)'
        BY <2>1, <3>2 DEF EscalationInv, InHand
      <4>2. ~WithinBand(o, c) => InHand(o, c)'
        BY <3>2 DEF InHand
      <4>3. Found(q)' <=> Found(q)
        BY <2>1 DEF Found
      <4>4. CASE q = o
        <5>1. \A d \in counters'[o] :
                WithinBand(o, d) \/ d \in audited'[o] \cup abandoned'[o] \/ InHand(o, d)'
          <6> SUFFICES ASSUME NEW d \in counters'[o]
                       PROVE  WithinBand(o, d) \/ d \in audited'[o] \cup abandoned'[o] \/ InHand(o, d)'
            OBVIOUS
          <6>1. CASE d = c
            BY <4>2, <6>1
          <6>2. CASE d \in counters[o]
            BY <2>1, <4>1, <4>4, <6>2 DEF Tracked
          <6> QED BY <3>1, <6>1, <6>2
        <5>2. /\ audited'[o] \subseteq packets'[o]
              /\ \A d \in packets'[o] : d \in counters'[o] /\ ~WithinBand(o, d)
          BY <2>1, <3>1, <4>1, <4>4 DEF Tracked
        <5> QED BY <2>1, <3>3, <4>3, <4>4, <5>1, <5>2 DEF Tracked
      <4>5. CASE q # o
        BY <2>1, <3>1, <3>3, <4>1, <4>3, <4>5 DEF Tracked
      <4> QED BY <4>4, <4>5
    <3>5. ASSUME NEW s \in Requests PROVE Escalating(s)'
      <4>1. CASE s = r
        BY <3>1, <3>2, <3>3, <4>1 DEF Escalating
      <4>2. CASE s # r
        <5>1. counters[req[s].offer] \subseteq counters'[req[s].offer]
          BY <1>0, <3>1, HeldType
        <5> QED BY <1>0, <2>1, <3>2, <3>3, <4>2, <5>1 DEF Escalating
      <4> QED BY <4>1, <4>2
    <3> QED BY <3>4, <3>5 DEF EscalationInv
  <2> QED BY <1>2, <2>0, <2>2, <2>3 DEF RecordNegotiation
<1>3. ASSUME NEW r \in Requests, EnqueuePacket(r) PROVE EscalationInv'
  <2> DEFINE o == req[r].offer
             c == req[r].counter
  <2>1. /\ o \in Offers /\ c \in counters[o] /\ ~WithinBand(o, c)
        /\ UNCHANGED <<status, terms, metric, counters, audited, abandoned>>
    BY <1>0, <1>3, HeldType DEF EnqueuePacket, Escalating, offer
  <2>2. /\ packets'[o] = packets[o] \cup {c}
        /\ \A q \in Offers : q # o => packets'[q] = packets[q]
    BY <1>0, <1>3, <2>1 DEF EnqueuePacket, TypeOK
  <2>3. /\ req'[r].pc = "audit" /\ req'[r].offer = o /\ req'[r].counter = c
        /\ \A s \in Requests : s # r => req'[s] = req[s]
    BY <1>0, <1>3, GotoType DEF EnqueuePacket, Steps
  <2>4. \A q, d : WithinBand(q, d)' <=> WithinBand(q, d)
    BY <2>1 DEF WithinBand, BandLow, BandHigh
  <2>5. ASSUME NEW q \in Offers PROVE Tracked(q)'
    <3>1. Tracked(q) /\ \A d : InHand(q, d) => InHand(q, d)'
      BY <2>3 DEF EscalationInv, InHand
    <3>2. Found(q)' <=> Found(q)
      BY <2>1 DEF Found
    <3>3. CASE q = o
      BY <2>1, <2>2, <2>4, <3>1, <3>2, <3>3 DEF Tracked
    <3>4. CASE q # o
      BY <2>1, <2>2, <2>4, <3>1, <3>2, <3>4 DEF Tracked
    <3> QED BY <3>3, <3>4
  <2>6. ASSUME NEW s \in Requests PROVE Escalating(s)'
    <3>1. CASE s = r
      BY <2>1, <2>2, <2>3, <2>4, <3>1 DEF Escalating
    <3>2. CASE s # r
      <4>1. packets[req[s].offer] \subseteq packets'[req[s].offer]
        BY <1>0, <2>1, <2>2, HeldType
      <4> QED BY <1>0, <2>1, <2>3, <2>4, <3>2, <4>1 DEF Escalating
    <3> QED BY <3>1, <3>2
  <2> QED BY <2>5, <2>6 DEF EscalationInv
<1>4. ASSUME NEW r \in Requests, AuditPacket(r) PROVE EscalationInv'
  <2> DEFINE o == req[r].offer
             c == req[r].counter
  <2>1. /\ o \in Offers /\ c \in packets[o]
        /\ UNCHANGED <<status, terms, metric, counters, packets, abandoned>>
    BY <1>0, <1>4, HeldType DEF AuditPacket, Escalating, offer
  <2>2. /\ audited'[o] = audited[o] \cup {c}
        /\ \A q \in Offers : q # o => audited'[q] = audited[q]
    BY <1>0, <1>4, <2>1 DEF AuditPacket, TypeOK
  <2>3. req'[r].pc = "idle" /\ \A s \in Requests : s # r => req'[s] = req[s]
    BY <1>0, <1>4, FinishType DEF AuditPacket
  <2>4. \A q, d : WithinBand(q, d)' <=> WithinBand(q, d)
    BY <2>1 DEF WithinBand, BandLow, BandHigh
  <2>5. ASSUME NEW q \in Offers PROVE Tracked(q)'
    <3>1. Tracked(q) /\ \A d : InHand(q, d) => InHand(q, d)' \/ (q = o /\ d = c)
      BY <2>3 DEF EscalationInv, InHand
    <3>2. Found(q)' <=> Found(q)
      BY <2>1 DEF Found
    <3>3. CASE q = o
      BY <2>1, <2>2, <2>4, <3>1, <3>2, <3>3 DEF Tracked
    <3>4. CASE q # o
      BY <2>1, <2>2, <2>4, <3>1, <3>2, <3>4 DEF Tracked
    <3> QED BY <3>3, <3>4
  <2>6. ASSUME NEW s \in Requests PROVE Escalating(s)'
    BY <1>0, <2>1, <2>3, <2>4 DEF Escalating
  <2> QED BY <2>5, <2>6 DEF EscalationInv
<1>5. ASSUME NEW r \in Requests, EnqueueForBroker(r) PROVE EscalationInv'
  <2>1. /\ req[r].offer \in Offers /\ req[r].pc = "enqueue"
        /\ UNCHANGED <<terms, counters, packets, audited, abandoned>>
        /\ metric' = metric \cup {req[r].offer}
        /\ req'[r].pc = "idle" /\ \A s \in Requests : s # r => req'[s] = req[s]
    BY <1>0, <1>5, HeldType, FinishType DEF EnqueueForBroker, escalation
  <2>2. /\ status'[req[r].offer] = "awaiting_broker"
        /\ \A q \in Offers : q # req[r].offer => status'[q] = status[q]
    BY <1>0, <1>5, <2>1 DEF EnqueueForBroker, TypeOK
  <2> QED BY <2>1, <2>2, Unescalated DEF Found
<1>6. ASSUME NEW r \in Requests, Sign(r) PROVE EscalationInv'
  <2>1. /\ req[r].offer \in Offers /\ req[r].pc = "sign" /\ Found(req[r].offer)
        /\ UNCHANGED <<terms, metric, counters, packets, audited, abandoned>>
        /\ req'[r].pc = "contract" /\ \A s \in Requests : s # r => req'[s] = req[s]
    BY <1>0, <1>6, HeldType, GotoType DEF Sign, Knows, Steps, escalation
  <2>2. /\ status'[req[r].offer] \in {status[req[r].offer], "signed"}
        /\ \A q \in Offers : q # req[r].offer => status'[q] = status[q]
    BY <1>0, <1>6, <2>1 DEF Sign, Dirty, TypeOK
  <2> QED BY <2>1, <2>2, Unescalated DEF Found
<1>7. ASSUME NEW r \in Requests, Crash(r) PROVE EscalationInv'
  <2>1. /\ req[r].offer \in Offers
        /\ UNCHANGED <<status, terms, metric, counters, packets, audited>>
        /\ req'[r].pc = "idle" /\ \A s \in Requests : s # r => req'[s] = req[s]
    BY <1>0, <1>7, HeldType, FinishType DEF Crash, offer
  <2>2. /\ \A q \in Offers : abandoned[q] \subseteq abandoned'[q]
        /\ req[r].pc \in {"escalate", "audit"} => req[r].counter \in abandoned'[req[r].offer]
    BY <1>0, <1>7, <2>1 DEF Crash, TypeOK
  <2> QED BY <2>1, <2>2, Unescalated DEF Found
<1>8. ASSUME NEW r \in Requests, UNCHANGED <<status, terms, metric, counters, packets, audited, abandoned>>,
             \A s \in Requests : s # r => req'[s] = req[s],
             req'[r].pc \notin {"escalate", "audit"}, req[r].pc \notin {"escalate", "audit"}
      PROVE EscalationInv'
  BY <1>8, Unescalated DEF Found
<1>9. ASSUME NEW r \in Requests, NEW o \in Offers,
             BeginSign(r, o) \/ \E c \in Counters : BeginCounter(r, o, c)
      PROVE EscalationInv'
  <2>1. \E pc \in {"negotiate", "sign"}, c \in Counters : Load(r, o, pc, c) /\ Found(o)
    BY <1>9, IdleType DEF BeginSign, BeginCounter
  <2>2. req'[r].pc \in {"negotiate", "sign"} /\ \A s \in Requests : s # r => req'[s] = req[s]
    BY <1>0, <2>1, LoadType DEF Steps
  <2> QED BY <1>8, <1>9, <2>2 DEF BeginSign, BeginCounter, offer, escalation
<1>10. ASSUME NEW r \in Requests,
              AcceptCounter(r) \/ Refused(r) \/ InsertContract(r) \/ InsertRefused(r)
       PROVE EscalationInv'
  <2>1. req'[r].pc = "idle" /\ \A s \in Requests : s # r => req'[s] = req[s]
    BY <1>0, <1>10, FinishType DEF AcceptCounter, Refused, InsertContract, InsertRefused
  <2> QED BY <1>8, <1>10, <2>1
          DEF AcceptCounter, Refused, InsertContract, InsertRefused, offer, escalation
<1>11. ASSUME NEW r \in Requests, FindContract(r) PROVE EscalationInv'
  <2>1. req'[r].pc \in {"idle", "rpc"} /\ \A s \in Requests : s # r => req'[s] = req[s]
    BY <1>0, <1>11, FinishType, GotoType DEF FindContract, Steps
  <2> QED BY <1>8, <1>11, <2>1 DEF FindContract, offer, escalation
<1>12. ASSUME NEW r \in Requests, NEW source \in Source, Drafted(r, source) PROVE EscalationInv'
  <2>1. req'[r].pc = "insert" /\ \A s \in Requests : s # r => req'[s] = req[s]
    BY <1>0, <1>12 DEF Drafted, TypeOK, Request
  <2> QED BY <1>8, <1>12, <2>1 DEF Drafted, offer, escalation
<1>13. CASE UNCHANGED vars
  BY <1>13 DEF vars, offer, escalation, EscalationInv, Tracked, Escalating, InHand, Found,
     WithinBand, BandLow, BandHigh
<1> QED BY <1>1, <1>2, <1>3, <1>4, <1>5, <1>6, <1>7, <1>9, <1>10, <1>11, <1>12, <1>13
        DEF Next, Continue

\* The invariant of the escalation holds along every behaviour.
THEOREM EscalationInvariant == Spec => []EscalationInv
<1>1. Init => EscalationInv
  <2> SUFFICES ASSUME Init PROVE EscalationInv
    OBVIOUS
  <2>1. \A r \in Requests : req[r].pc = "idle"
    BY IdleType DEF Init
  <2>2. \A o \in Offers : /\ status[o] = "absent" /\ counters[o] = {} /\ packets[o] = {}
                          /\ audited[o] = {}
    BY DEF Init
  <2> QED BY <2>1, <2>2 DEF EscalationInv, Tracked, Escalating, Found
<1> QED BY <1>1, OfferInvariant, EscalationStep, PTL DEF Spec

\* Between requests the counters outside the band, and no others, have their
\* packets, and the packets their audit events, but for those a worker died with.
THEOREM EscalatedWhenQuiescentHolds == Spec => []EscalatedWhenQuiescent
<1>1. OfferInv /\ EscalationInv => EscalatedWhenQuiescent
  <2> SUFFICES ASSUME OfferInv, EscalationInv, Quiescent, NEW o \in Offers
               PROVE  LET outside == {c \in counters[o] : ~WithinBand(o, c)} IN
                      /\ audited[o] \subseteq packets[o] /\ packets[o] \subseteq outside
                      /\ outside \subseteq audited[o] \cup abandoned[o]
    BY DEF EscalatedWhenQuiescent
  <2>1. Tracked(o) /\ \A c : ~InHand(o, c)
    BY DEF EscalationInv, Quiescent, InHand
  <2> QED BY <2>1 DEF Tracked
<1> QED BY <1>1, OfferInvariant, EscalationInvariant, PTL
=============================================================================
