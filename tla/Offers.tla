------------------------------- MODULE Offers -------------------------------
(***************************************************************************)
(* The offer pipeline of the Rails domain service: CreateOffer (from the   *)
(* seller's valuation page, the buyer's offer form and the brain's         *)
(* Domain.CreateOffer RPC), NegotiationResponse (the seller's counters)    *)
(* and the broker's signature with ContractGeneration.                     *)
(*                                                                         *)
(* Each puma thread serving one of these requests is an element of         *)
(* Requests; its steps are the SQL transactions and the RPC it issues.     *)
(***************************************************************************)
EXTENDS Integers

CONSTANTS
  Offers,     \* ids of offer rows
  Requests,   \* puma threads
  Terms,      \* what an offer may be drafted with
  Counters,   \* amounts a seller may submit (0: unparseable)
  Mortal      \* threads whose worker may die in the middle of a request

ASSUME SetsAssumption ==
  /\ Offers # {} /\ Terms # {} /\ Counters # {} /\ Counters \subseteq Nat
  /\ Terms \subseteq [side : {"seller", "buyer"}, amount : Nat \ {0},
                      open : Nat, ceiling : Nat]
ASSUME MortalAssumption == Mortal \subseteq Requests

VARIABLES
  status,      \* status[o]: offers.status, "absent" if no row
  terms,       \* terms[o]: side, first amount and form_json of offer o
  amount,      \* amount[o]: offers.amount
  metric,      \* offers with an OfferMetric
  counters,    \* counters[o]: counter amounts of its negotiations rows
  packets,     \* packets[o]: counters a handoff packet was enqueued for
  audited,     \* audited[o]: counters whose packet was audited
  abandoned,   \* history: abandoned[o]: out-of-band counters whose worker died
  contract,    \* contract[o]: the contracts row, NoContract if none
  followUp,    \* offers whose signer was told the contract needs follow-up
  req,         \* req[r]: the request thread r is serving
  early,       \* history: offers signed before CreateOffer had queued them
  stranded     \* history: offers whose CreateOffer died before it queued them

offer == <<status, terms, amount, metric>>
escalation == <<counters, packets, audited, abandoned>>
history == <<early, stranded>>
vars == <<offer, escalation, contract, followUp, req, history>>

Statuses == {"drafting", "awaiting_broker", "signed"}
Source == {"closer", "rails_fallback"}
Amounts == Counters \cup {t.amount : t \in Terms}
NoContract == [source |-> "none", price |-> 0]
Contract == [source : Source, price : Amounts]

(* pc: what the thread does next                                           *)
(*   enqueue    enqueue_for_broker!                                        *)
(*   negotiate  Negotiation.create!         update    offer.update!        *)
(*   escalate   HandoffPacket.create!       audit     AuditEvent           *)
(*   sign       sign!                       contract  @offer.contract      *)
(*   rpc        Closer.GenerateContract     insert    Contract.create!     *)
Steps == {"idle", "enqueue", "negotiate", "update", "escalate", "audit",
          "sign", "contract", "rpc", "insert"}

\* status, amount: the attributes of the offer object, as loaded.
Request == [pc : Steps, offer : Offers, status : Statuses, amount : Amounts,
            counter : Counters, source : Source]

TypeOK ==
  /\ status \in [Offers -> Statuses \cup {"absent"}]
  /\ terms \in [Offers -> Terms]
  /\ amount \in [Offers -> Amounts]
  /\ metric \in SUBSET Offers
  /\ counters \in [Offers -> SUBSET Counters]
  /\ packets \in [Offers -> SUBSET Counters]
  /\ audited \in [Offers -> SUBSET Counters]
  /\ abandoned \in [Offers -> SUBSET Counters]
  /\ contract \in [Offers -> Contract \cup {NoContract}]
  /\ followUp \in SUBSET Offers
  /\ req \in [Requests -> Request]
  /\ early \in SUBSET Offers /\ stranded \in SUBSET Offers

SomeTerms == CHOOSE t \in Terms : TRUE

Idle == [pc |-> "idle", offer |-> CHOOSE o \in Offers : TRUE,
         status |-> "drafting", amount |-> SomeTerms.amount,
         counter |-> CHOOSE c \in Counters : TRUE, source |-> "closer"]

Init ==
  /\ status = [o \in Offers |-> "absent"]
  /\ terms = [o \in Offers |-> SomeTerms]
  /\ amount = [o \in Offers |-> SomeTerms.amount]
  /\ metric = {}
  /\ counters = [o \in Offers |-> {}] /\ packets = counters
  /\ audited = counters /\ abandoned = counters
  /\ contract = [o \in Offers |-> NoContract]
  /\ followUp = {}
  /\ req = [r \in Requests |-> Idle]
  /\ early = {} /\ stranded = {}
-----------------------------------------------------------------------------
Load(r, o, pc, c) ==
  req' = [req EXCEPT ![r] = [pc |-> pc, offer |-> o, status |-> status[o],
                             amount |-> amount[o], counter |-> c, source |-> "closer"]]

Goto(r, pc) == req' = [req EXCEPT ![r].pc = pc]

Finish(r) == req' = [req EXCEPT ![r] = Idle]

\* update!(attribute: new) writes only what differs from the loaded object.
Dirty(current, loaded, new) == IF loaded = new THEN current ELSE new

\* The controllers look an offer up by its id, whatever its status.
Found(o) == status[o] # "absent"

\* The authorised band of a counter.
Larger(m, n) == IF m >= n THEN m ELSE n
BandLow(o) == Larger(terms[o].open, 1)
BandHigh(o) == Larger(terms[o].ceiling, BandLow(o))
WithinBand(o, c) == BandLow(o) <= c /\ c <= BandHigh(o)
-----------------------------------------------------------------------------
\* CreateOffer: Offer.create!, then the enqueueing transaction.
CreateDraft(r, o, t) ==
  /\ req[r].pc = "idle"
  /\ status[o] = "absent"
  /\ status' = [status EXCEPT ![o] = "drafting"]
  /\ terms' = [terms EXCEPT ![o] = t]
  /\ amount' = [amount EXCEPT ![o] = t.amount]
  /\ req' = [req EXCEPT ![r] = [pc |-> "enqueue", offer |-> o, status |-> "drafting",
                                amount |-> t.amount, counter |-> Idle.counter,
                                source |-> "closer"]]
  /\ UNCHANGED <<metric, escalation, contract, followUp, history>>

\* Mutant of EnqueueForBroker: no OfferMetric.
EnqueueUnmeasured(r) ==
  /\ req[r].pc = "enqueue"
  /\ status' = [status EXCEPT ![req[r].offer] = "awaiting_broker"]
  /\ Finish(r)
  /\ UNCHANGED <<terms, amount, metric, escalation, contract, followUp, history>>

EnqueueForBroker(r) ==
  LET o == req[r].offer IN
  /\ req[r].pc = "enqueue"
  /\ status' = [status EXCEPT ![o] = "awaiting_broker"]
  /\ metric' = metric \cup {o}
  /\ Finish(r)
  /\ UNCHANGED <<terms, amount, escalation, contract, followUp, history>>

\* The seller counters an offer that may have been signed, or not been queued
\* yet: CountersController looks at its owner and side only.
BeginCounter(r, o, c) ==
  /\ req[r].pc = "idle"
  /\ Found(o) /\ terms[o].side = "seller"
  /\ Load(r, o, "negotiate", c)
  /\ UNCHANGED <<offer, escalation, contract, followUp, history>>

\* Mutant of RecordNegotiation: every counter is accepted.
RecordNegotiationAccepts(r) ==
  /\ req[r].pc = "negotiate"
  /\ \/ req[r].counter = 0 /\ Finish(r) /\ UNCHANGED counters
     \/ /\ req[r].counter > 0
        /\ counters' = [counters EXCEPT ![req[r].offer] = @ \cup {req[r].counter}]
        /\ Goto(r, "update")
  /\ UNCHANGED <<offer, packets, audited, abandoned, contract, followUp, history>>

\* A counter of 0 fails validation and ends the request.
RecordNegotiation(r) ==
  LET o == req[r].offer
      c == req[r].counter
  IN /\ req[r].pc = "negotiate"
     /\ \/ c = 0 /\ Finish(r) /\ UNCHANGED counters
        \/ /\ c > 0
           /\ counters' = [counters EXCEPT ![o] = @ \cup {c}]
           /\ Goto(r, IF WithinBand(o, c) THEN "update" ELSE "escalate")
     /\ UNCHANGED <<offer, packets, audited, abandoned, contract, followUp, history>>

\* Mutant of AcceptCounter: it also puts the offer back in the broker's queue.
AcceptCounterRequeues(r) ==
  LET o == req[r].offer IN
  /\ req[r].pc = "update"
  /\ amount' = [amount EXCEPT ![o] = Dirty(@, req[r].amount, req[r].counter)]
  /\ status' = [status EXCEPT ![o] = "awaiting_broker"]
  /\ Finish(r)
  /\ UNCHANGED <<terms, metric, escalation, contract, followUp, history>>

AcceptCounter(r) ==
  LET o == req[r].offer IN
  /\ req[r].pc = "update"
  /\ amount' = [amount EXCEPT ![o] = Dirty(@, req[r].amount, req[r].counter)]
  /\ Finish(r)
  /\ UNCHANGED <<status, terms, metric, escalation, contract, followUp, history>>

\* Mutant of EnqueuePacket: the packet is not audited.
EnqueuePacketUnaudited(r) ==
  /\ req[r].pc = "escalate"
  /\ packets' = [packets EXCEPT ![req[r].offer] = @ \cup {req[r].counter}]
  /\ Finish(r)
  /\ UNCHANGED <<offer, counters, audited, abandoned, contract, followUp, history>>

\* EnqueueHandoff: the packet, then its audit event.
EnqueuePacket(r) ==
  /\ req[r].pc = "escalate"
  /\ packets' = [packets EXCEPT ![req[r].offer] = @ \cup {req[r].counter}]
  /\ Goto(r, "audit")
  /\ UNCHANGED <<offer, counters, audited, abandoned, contract, followUp, history>>

AuditPacket(r) ==
  /\ req[r].pc = "audit"
  /\ audited' = [audited EXCEPT ![req[r].offer] = @ \cup {req[r].counter}]
  /\ Finish(r)
  /\ UNCHANGED <<offer, counters, packets, abandoned, contract, followUp, history>>

\* The broker signs an offer by its id: twice, from a stale dashboard, or one
\* that is still being drafted.
BeginSign(r, o) ==
  /\ req[r].pc = "idle"
  /\ Found(o)
  /\ Load(r, o, "sign", Idle.counter)
  /\ UNCHANGED <<offer, escalation, contract, followUp, history>>

\* Mutant of Sign: the contract is generated, the signature not saved.
SignUnsaved(r) ==
  /\ req[r].pc = "sign"
  /\ Goto(r, "contract")
  /\ UNCHANGED <<offer, escalation, contract, followUp, history>>

Sign(r) ==
  LET o == req[r].offer IN
  /\ req[r].pc = "sign"
  /\ status' = [status EXCEPT ![o] = Dirty(@, req[r].status, "signed")]
  /\ early' = IF status[o] = "drafting" THEN early \cup {o} ELSE early
  /\ Goto(r, "contract")
  /\ UNCHANGED <<terms, amount, metric, escalation, contract, followUp, stranded>>

\* An existing contract is returned as it is.
FindContract(r) ==
  /\ req[r].pc = "contract"
  /\ \/ contract[req[r].offer] # NoContract /\ Finish(r)
     \/ contract[req[r].offer] = NoContract /\ Goto(r, "rpc")
  /\ UNCHANGED <<offer, escalation, contract, followUp, history>>

\* Mutant of Drafted: no fallback when the Closer cannot be reached.
DraftedByCloserOnly(r, source) ==
  /\ req[r].pc = "rpc"
  /\ IF source = "closer"
     THEN req' = [req EXCEPT ![r].pc = "insert", ![r].source = source]
     ELSE Finish(r)
  /\ UNCHANGED <<offer, escalation, contract, followUp, history>>

\* Closer.GenerateContract drafted it, or could not be reached and Rails fills
\* the same blanks.
Drafted(r, source) ==
  /\ req[r].pc = "rpc"
  /\ req' = [req EXCEPT ![r].pc = "insert", ![r].source = source]
  /\ UNCHANGED <<offer, escalation, contract, followUp, history>>

\* The Closer refused: no draft, and the broker's page says so.
Refused(r) ==
  /\ req[r].pc = "rpc"
  /\ followUp' = followUp \cup {req[r].offer}
  /\ Finish(r)
  /\ UNCHANGED <<offer, escalation, contract, history>>

\* Contract.create!, behind its uniqueness validation and index; the price is
\* the amount of the offer object the request loaded.
InsertContract(r) ==
  /\ req[r].pc = "insert"
  /\ contract[req[r].offer] = NoContract
  /\ contract' = [contract EXCEPT ![req[r].offer] =
       [source |-> req[r].source, price |-> req[r].amount]]
  /\ Finish(r)
  /\ UNCHANGED <<offer, escalation, followUp, history>>

InsertRefused(r) ==
  /\ req[r].pc = "insert"
  /\ contract[req[r].offer] # NoContract
  /\ Finish(r)
  /\ UNCHANGED <<offer, escalation, contract, followUp, history>>

Crash(r) ==
  /\ r \in Mortal
  /\ req[r].pc # "idle"
  /\ abandoned' = IF req[r].pc \in {"escalate", "audit"}
                  THEN [abandoned EXCEPT ![req[r].offer] = @ \cup {req[r].counter}]
                  ELSE abandoned
  /\ stranded' = IF req[r].pc = "enqueue" THEN stranded \cup {req[r].offer} ELSE stranded
  /\ Finish(r)
  /\ UNCHANGED <<offer, counters, packets, audited, contract, followUp, early>>

Continue(r) ==
  \/ EnqueueForBroker(r)
  \/ RecordNegotiation(r) \/ AcceptCounter(r) \/ EnqueuePacket(r) \/ AuditPacket(r)
  \/ Sign(r) \/ FindContract(r)
  \/ (\E source \in Source : Drafted(r, source)) \/ Refused(r)
  \/ InsertContract(r) \/ InsertRefused(r)

Next ==
  \E r \in Requests :
    \/ \E o \in Offers :
         \/ \E t \in Terms : CreateDraft(r, o, t)
         \/ \E c \in Counters : BeginCounter(r, o, c)
         \/ BeginSign(r, o)
    \/ Continue(r)
    \/ Crash(r)

Spec == Init /\ [][Next]_vars

\* A thread that has taken a request keeps running it, and the Closer answers
\* or the connection breaks (the client sets no deadline).
FairSpec == Spec /\ \A r \in Requests : WF_vars(Continue(r))
-----------------------------------------------------------------------------
\* What may be paid for o: the amount it was drafted with, or a counter that
\* lies in its authorised band and is on record.
Authorized(o, price) ==
  price = terms[o].amount \/ (price \in counters[o] /\ WithinBand(o, price))

\* No interleaving of counters, lost updates included, prices an offer
\* otherwise (negotiation_response.rb:1-7).
AmountAuthorized == \A o \in Offers : Authorized(o, amount[o])

\* What sign! has been called for, whatever the status says now.
Signed(o) == status[o] = "signed" \/ o \in early

\* A contract exists only for an offer a broker has signed, at a price
\* authorised like the offer's own, and the offer is then still "signed" --
\* unless it was signed while CreateOffer was about to queue it
\* (offers_controller.rb:2-8, contract_generation.rb:18-36).
ContractAuthorized ==
  \A o \in Offers : contract[o] # NoContract =>
    /\ Authorized(o, contract[o].price)
    /\ status[o] = "signed" \/ (o \in early /\ o \in metric)

Enqueuing(o) == \E r \in Requests : req[r].pc = "enqueue" /\ req[r].offer = o

\* An offer has its time-to-offer metric once CreateOffer has queued it, and
\* lacks it for ever when the worker died before: whatever is signed or
\* countered meanwhile, nothing in the broker's queue lacks it, and of the signed
\* ones only those signed before they were queued (offer.rb:22-33).
QueuedHasMetric ==
  \A o \in Offers : Found(o) =>
    /\ o \in metric <=> ~(Enqueuing(o) \/ o \in stranded)
    /\ status[o] = "awaiting_broker" => o \in metric
    /\ status[o] = "signed" => o \in metric \cup early

Quiescent == \A r \in Requests : req[r].pc = "idle"

\* "an out-of-band move enqueues a broker handoff rather than
\* auto-negotiating past the authorization" (negotiation_response.rb:6-7):
\* between requests every recorded out-of-band counter has its packet and the
\* packet its audit event, except where the worker died on the way, and no
\* in-band counter has one.
EscalatedWhenQuiescent ==
  Quiescent =>
    \A o \in Offers : LET outside == {c \in counters[o] : ~WithinBand(o, c)} IN
      /\ audited[o] \subseteq packets[o] /\ packets[o] \subseteq outside
      /\ outside \subseteq audited[o] \cup abandoned[o]

\* "so the flow never dead-ends if the brain is down"
\* (contract_generation.rb:2-4): a signature whose worker survives leads to a
\* contract draft, or to the broker being told that the Closer refused one,
\* whatever races with it.
SignatureAnswered ==
  \A r \in Requests \ Mortal, o \in Offers :
    (req[r].pc = "contract" /\ req[r].offer = o)
      ~> (contract[o] # NoContract \/ o \in followUp)

\* "Your offer is updated and routed to a licensed broker for signature"
\* (negotiation_response.rb:26-27): an accepted counter leaves the offer in the
\* broker's queue.
AcceptedAwaitsBroker ==
  [][\A o \in Offers : amount'[o] # amount[o] /\ status[o] # "absent" =>
       status'[o] = "awaiting_broker"]_vars

\* The pipeline implements the life cycle its readers see.
Lifecycle == INSTANCE OfferLifecycle WITH
  phase <- [o \in Offers |-> IF contract[o] = NoContract THEN status[o] ELSE "contracted"],
  queued <- metric,
  signed <- {o \in Offers : Signed(o)}
LifecycleSpec == Lifecycle!Spec
=============================================================================
