--------------------------- MODULE Vision_proofs ---------------------------
(***************************************************************************)
(* Proofs about Vision, for any runs, threads, listings, photos, answers   *)
(* and bounds.  First the control: the breaker, the budget and the         *)
(* freshness of the rows.  Then the data: what is found of a photo, where  *)
(* it may be shown, and what condition it explains.  Last the valuation of *)
(* every row there may be.                                                 *)
(***************************************************************************)
EXTENDS Vision, Inductions, TLAPS

WorkerFields == {"pc", "client", "listing", "photo", "features", "review", "looked"}
RunFields == {"pc", "todo", "analyzed", "listing", "existing", "answer", "paid"}
Asking == {"waiting", "served", "answered"}

\* The threads, the runs and the rows are functions to records.
Shape ==
  /\ worker = [w \in Workers |-> worker[w]]
  /\ run = [r \in Runs |-> run[r]]
  /\ row = [a \in Addresses |-> row[a]]
  /\ \A w \in Workers : DOMAIN worker[w] = WorkerFields
  /\ \A r \in Runs : DOMAIN run[r] = RunFields
  /\ \A a \in Addresses : DOMAIN row[a] = {"state", "is"}

\* Calls to Claude that are under way.
Sent == {w \in Workers : worker[w].pc = "sent"}

\* No call leaves while the breaker is open: the failures since it closed last
\* and the calls that may still fail are of different threads.
Breaker ==
  /\ failures \in Nat /\ (~cooling => failures = 0)
  /\ failures + Cardinality(Sent) <= Cardinality(Workers)

\* A run is served by one thread, about the listing it asked about.
Served ==
  /\ \A w \in Workers, r \in Runs : worker[w].client = r =>
       run[r].pc = "served" /\ worker[w].listing = run[r].listing
  /\ \A v, w \in Workers : worker[v].client = worker[w].client /\ worker[v].client \in Runs => v = w

\* What a run is paid for has been counted, but for the listing in hand.
Account(x) ==
  /\ x.analyzed \in Nat /\ x.paid \subseteq Listings
  /\ x.pc \in {"idle", "next", "over"} =>
       Cardinality(x.paid) <= x.analyzed /\ x.analyzed <= MaxCalls
  /\ x.pc \in Asking => /\ x.listing \in Listings /\ x.analyzed < MaxCalls
                        /\ Cardinality(x.paid \ {x.listing}) <= x.analyzed
  /\ x.pc \in {"idle", "next", "over"} \cup Asking

\* What a run asked about was not fresh.
Unfresh == \A r \in Runs : run[r].existing.state # "fresh"

VisionInv ==
  /\ Shape /\ Breaker /\ Served /\ Unfresh
  /\ \A r \in Runs : Account(run[r])
-----------------------------------------------------------------------------
(* The operators on findings.                                              *)

\* The members of longer sequences.
LEMMA AppendRange ==
  ASSUME NEW X, NEW q \in Seq(X), NEW x \in X
  PROVE  Range(Append(q, x)) = Range(q) \cup {x}
<1>1. /\ DOMAIN Append(q, x) = 1 .. Len(q) + 1 /\ Len(q) \in Nat
      /\ DOMAIN q = 1 .. Len(q)
      /\ \A i \in 1 .. Len(q) : Append(q, x)[i] = q[i]
      /\ Append(q, x)[Len(q) + 1] = x
  OBVIOUS
<1>2. 1 .. Len(q) + 1 = 1 .. Len(q) \cup {Len(q) + 1}
  BY <1>1
<1> QED BY <1>1, <1>2 DEF Range

LEMMA ConcatRange ==
  ASSUME NEW X, NEW p \in Seq(X), NEW q \in Seq(X)
  PROVE  p \o q \in Seq(X) /\ Range(p \o q) = Range(p) \cup Range(q)
<1>1. /\ DOMAIN (p \o q) = 1 .. Len(p) + Len(q) /\ Len(p) \in Nat /\ Len(q) \in Nat
      /\ DOMAIN p = 1 .. Len(p) /\ DOMAIN q = 1 .. Len(q)
      /\ \A i \in 1 .. Len(p) : (p \o q)[i] = p[i]
  OBVIOUS
<1>2. \A i \in 1 .. Len(q) : (p \o q)[Len(p) + i] = q[i]
  OBVIOUS
<1>3. Range(p \o q) \subseteq Range(p) \cup Range(q)
  <2> SUFFICES ASSUME NEW i \in 1 .. Len(p) + Len(q)
               PROVE  (p \o q)[i] \in Range(p) \cup Range(q)
    BY <1>1 DEF Range
  <2>1. CASE i <= Len(p)
    BY <1>1, <2>1 DEF Range
  <2>2. CASE ~(i <= Len(p))
    <3>1. i - Len(p) \in 1 .. Len(q) /\ i = Len(p) + (i - Len(p))
      BY <1>1, <2>2
    <3>2. (p \o q)[i] = q[i - Len(p)]
      BY <1>2, <3>1
    <3> QED BY <1>1, <3>1, <3>2 DEF Range
  <2> QED BY <2>1, <2>2
<1>4. Range(p) \cup Range(q) \subseteq Range(p \o q)
  <2>1. \A i \in 1 .. Len(p) : p[i] \in Range(p \o q)
    BY <1>1 DEF Range
  <2>2. \A i \in 1 .. Len(q) : Len(p) + i \in 1 .. Len(p) + Len(q)
    BY <1>1
  <2>3. \A i \in 1 .. Len(q) : q[i] \in Range(p \o q)
    BY <1>1, <1>2, <2>2 DEF Range
  <2> QED BY <1>1, <2>1, <2>3 DEF Range
<1>5. p \o q \in Seq(X)
  OBVIOUS
<1> QED BY <1>3, <1>4, <1>5

\* What Only keeps of a sequence, and that it makes nothing up.
LEMMA Kept ==
  ASSUME NEW X, NEW s \in Seq(X), NEW T
  PROVE  Only(s, T) \in Seq(X) /\ Range(Only(s, T)) = Range(s) \cap T
<1> DEFINE Step(g, n) == IF n = 0 THEN <<>>
                         ELSE IF s[n] \in T THEN Append(g[n - 1], s[n]) ELSE g[n - 1]
           Iter(g, m) == g = [n \in 0 .. m |-> Step(g, n)]
           First(n) == {s[i] : i \in 1 .. n}
           Good(q, n) == q \in Seq(X) /\ Range(q) = First(n) \cap T
<1>1. Only(s, T) = (CHOOSE g : Iter(g, Len(s)))[Len(s)]
  BY DEF Only
<1>2. Len(s) \in Nat /\ DOMAIN s = 1 .. Len(s) /\ \A i \in 1 .. Len(s) : s[i] \in X
  OBVIOUS
<1>3. \A m \in Nat : \E g : Iter(g, m)
  <2> DEFINE N == {m \in Nat : \E g : Iter(g, m)}
  <2>1. 0 \in N
    <3>1. \A n \in 0 .. 0 : n = 0
      OBVIOUS
    <3>2. Iter([n \in 0 .. 0 |-> <<>>], 0)
      BY <3>1
    <3> HIDE DEF Iter
    <3>3. \E g : Iter(g, 0)
      BY <3>2
    <3> QED BY <3>3
  <2>2. ASSUME NEW m \in Nat, m \in N PROVE m + 1 \in N
    <3>1. PICK g : Iter(g, m)
      BY <2>2
    <3> DEFINE h == [n \in 0 .. m + 1 |-> Step(g, n)]
    <3>2. ASSUME NEW n \in 0 .. m + 1 PROVE Step(h, n) = Step(g, n)
      <4>1. CASE n = 0
        BY <4>1
      <4>2. CASE n # 0
        <5>1. n - 1 \in 0 .. m /\ n - 1 \in 0 .. m + 1
          BY <4>2
        <5>2. h[n - 1] = g[n - 1]
          <6> HIDE DEF Step
          <6> QED BY <3>1, <5>1
        <5> QED BY <4>2, <5>2
      <4> QED BY <4>1, <4>2
    <3>3. Iter(h, m + 1)
      <4> HIDE DEF Step
      <4> QED BY <3>2
    <3> HIDE DEF h, Iter
    <3>4. \E k : Iter(k, m + 1)
      BY <3>3
    <3> QED BY <3>4
  <2> HIDE DEF N
  <2>3. Nat \subseteq N
    BY <2>1, <2>2, Induction
  <2> QED BY <2>3 DEF N
<1>4. PICK g : g = CHOOSE h : Iter(h, Len(s))
  OBVIOUS
<1>5. Iter(g, Len(s))
  <2>1. \E h : Iter(h, Len(s))
    <3> HIDE DEF Iter
    <3> QED BY <1>2, <1>3
  <2> HIDE DEF Iter
  <2> QED BY <1>4, <2>1
<1>6. \A n \in 0 .. Len(s) : g[n] = Step(g, n)
  <2> HIDE DEF Step
  <2> QED BY <1>5
<1>7. \A n \in Nat : n <= Len(s) => Good(g[n], n)
  <2> DEFINE N == {n \in Nat : n <= Len(s) => Good(g[n], n)}
  <2>1. 0 \in N
    <3>1. g[0] = <<>> /\ Range(<<>>) = {} /\ First(0) = {}
      BY <1>2, <1>6 DEF Range
    <3> HIDE DEF First
    <3>2. Good(g[0], 0)
      BY <3>1
    <3> HIDE DEF Good
    <3> QED BY <3>2
  <2>2. ASSUME NEW n \in Nat, n \in N PROVE n + 1 \in N
    <3> DEFINE m == n + 1
    <3>1. SUFFICES ASSUME m <= Len(s) PROVE Good(g[m], m)
      OBVIOUS
    <3>2. m \in 1 .. Len(s) /\ m \in 0 .. Len(s) /\ m # 0 /\ m - 1 = n
      BY <1>2, <3>1
    <3>3. Good(g[n], n) /\ s[m] \in X
      BY <1>2, <2>2, <3>2
    <3>4. g[m] = IF s[m] \in T THEN Append(g[n], s[m]) ELSE g[n]
      BY <1>6, <3>2
    <3>5. First(m) = First(n) \cup {s[m]}
      <4>1. 1 .. m = 1 .. n \cup {m}
        OBVIOUS
      <4> QED BY <4>1
    <3>6. Range(Append(g[n], s[m])) = Range(g[n]) \cup {s[m]}
      <4>1. g[n] \in Seq(X)
        BY <3>3
      <4> QED BY <3>3, <4>1, AppendRange
    <3>7. Append(g[n], s[m]) \in Seq(X)
      BY <3>3
    <3> HIDE DEF First, m
    <3> QED BY <3>3, <3>4, <3>5, <3>6, <3>7
  <2> HIDE DEF N
  <2>3. Nat \subseteq N
    BY <2>1, <2>2, Induction
  <2> QED BY <2>3 DEF N
<1>8. Good(g[Len(s)], Len(s))
  <2> HIDE DEF Good
  <2> QED BY <1>2, <1>7
<1>9. First(Len(s)) = Range(s)
  BY <1>2 DEF Range
<1> HIDE DEF First
<1> QED BY <1>1, <1>4, <1>8, <1>9

\* The photos there are to cite.
LEMMA PhotosCited ==
  /\ "photo-1" \in PhotoIds
  /\ \A l \in Listings : \A n \in DOMAIN Photos[l] : Photos[l][n] \in PhotoIds
BY DEF PhotoIds

LEMMA FindingFields ==
  \A f \in Finding : /\ f.kind \in {"feature", "red_flag"} /\ f.photo \in PhotoIds
                     /\ f.confidence \in 0 .. 100 /\ f.confidence \in Nat
<1> SUFFICES ASSUME NEW f \in Finding
             PROVE  /\ f.kind \in {"feature", "red_flag"} /\ f.photo \in PhotoIds
                    /\ f.confidence \in 0 .. 100 /\ f.confidence \in Nat
  OBVIOUS
<1>1. f.kind \in {"feature", "red_flag"} /\ f.photo \in PhotoIds /\ f.confidence \in 0 .. 100
  BY Zenon DEF Finding
<1>2. 0 .. 100 \subseteq Nat
  OBVIOUS
<1> QED BY <1>1, <1>2

\* Confidences add up to a natural number.
LEMMA ConfidenceSum ==
  ASSUME NEW fs \in Seq(Finding)
  PROVE  SumConfidence(fs) \in Nat /\ (fs = <<>> => SumConfidence(fs) = 0)
<1> DEFINE f == [i \in DOMAIN fs |-> fs[i].confidence]
<1>1. IsFiniteSet(DOMAIN fs)
  <2>1. DOMAIN fs = 1 .. Len(fs) /\ Len(fs) \in Nat
    OBVIOUS
  <2> QED BY <2>1, FS_Interval
<1>2. f \in [DOMAIN fs -> Nat]
  <2>1. \A i \in DOMAIN fs : fs[i] \in Finding
    OBVIOUS
  <2>2. \A x \in Finding : x.confidence \in Nat
    BY FindingFields
  <2>3. \A i \in DOMAIN fs : fs[i].confidence \in Nat
    BY <2>1, <2>2
  <2> QED BY <2>3
<1>3. fs = <<>> => DOMAIN fs = {}
  OBVIOUS
<1>4. SumConfidence(fs) = SumFunction(f)
  BY DEF SumConfidence
<1> HIDE DEF f
<1> QED BY <1>1, <1>2, <1>3, <1>4, Sums

\* The red flags among findings.
LEMMA FlagsKept ==
  ASSUME NEW fs \in Seq(Finding)
  PROVE  /\ RedFlags(fs) \in Seq(Finding)
         /\ Range(RedFlags(fs)) = {f \in Range(fs) : f.kind = "red_flag"}
<1> DEFINE T == {f \in Range(fs) : f.kind = "red_flag"}
<1>1. RedFlags(fs) = Only(fs, T)
  BY DEF RedFlags
<1>2. Range(fs) \cap T = T
  OBVIOUS
<1> HIDE DEF T
<1>3. Only(fs, T) \in Seq(Finding) /\ Range(Only(fs, T)) = Range(fs) \cap T
  BY Kept
<1>4. RedFlags(fs) \in Seq(Finding) /\ Range(RedFlags(fs)) = T
  BY <1>1, <1>2, <1>3
<1> QED BY <1>4 DEF T

\* A sequence has members unless it is empty.
LEMMA EmptyRange ==
  ASSUME NEW X, NEW s \in Seq(X)
  PROVE  s = <<>> <=> Range(s) = {}
<1>1. DOMAIN s = 1 .. Len(s) /\ Len(s) \in Nat
  OBVIOUS
<1>2. Len(s) = 0 <=> s = <<>>
  OBVIOUS
<1>3. Len(s) # 0 => 1 \in DOMAIN s
  BY <1>1
<1>4. s = <<>> => Range(s) = {}
  BY DEF Range
<1>5. 1 \in DOMAIN s => Range(s) # {}
  BY DEF Range
<1> QED BY <1>2, <1>3, <1>4, <1>5

\* Findings that speak for a home.
Favourable == {f \in Finding : f.kind = "feature"}

\* A condition off neutral has its reason among the findings.
Reasoned(features, review, condition) ==
  /\ condition > Neutral => features # <<>>
  /\ condition < Neutral => RedFlags(review) # <<>>

\* The condition is a thousandth, and it leaves neutral for a reason that is on
\* the analysis: upwards for a feature, downwards for a red flag under review.
LEMMA ConditionFacts ==
  ASSUME NEW features \in Seq(Finding), NEW review \in Seq(Finding),
         Range(features) \subseteq Favourable
  PROVE  /\ ConditionOf(features, review) \in 0 .. 1000
         /\ Reasoned(features, review, ConditionOf(features, review))
<1> DEFINE flags == RedFlags(features \o review)
           up == SumConfidence(features)
           down == SumConfidence(flags)
           score == 5000 + 8 * up - 15 * down
           rounded == (score + 5) \div 10
<1>1. features \o review \in Seq(Finding) /\ Range(features \o review) = Range(features) \cup Range(review)
  BY ConcatRange
<1>2. flags \in Seq(Finding) /\ Range(flags) = Range(RedFlags(review))
  BY <1>1, FlagsKept DEF Favourable
<1>3. up \in Nat /\ (features = <<>> => up = 0)
  BY ConfidenceSum
<1>4. down \in Nat /\ (flags = <<>> => down = 0)
  BY <1>2, ConfidenceSum
<1>5. flags # <<>> => RedFlags(review) # <<>>
  <2>1. flags # <<>> => Range(flags) # {}
    BY <1>2, EmptyRange
  <2>2. RedFlags(review) = <<>> => Range(RedFlags(review)) = {}
    BY FlagsKept, EmptyRange
  <2> QED BY <1>2, <2>1, <2>2
<1>6. ConditionOf(features, review) = Upper(0, Lower(1000, rounded))
  BY DEF ConditionOf
<1> HIDE DEF flags, up, down
<1>7. rounded \in Int /\ (up = 0 => rounded <= 500) /\ (down = 0 => rounded >= 500)
  BY <1>3, <1>4
<1> HIDE DEF rounded
<1>8. ConditionOf(features, review) \in 0 .. 1000
  BY <1>6, <1>7 DEF Upper, Lower
<1>9. ConditionOf(features, review) > 500 => up # 0
  BY <1>6, <1>7 DEF Upper, Lower
<1>10. ConditionOf(features, review) < 500 => down # 0
  BY <1>6, <1>7 DEF Upper, Lower
<1> QED BY <1>3, <1>4, <1>5, <1>8, <1>9, <1>10 DEF Neutral, Reasoned

\* What an answer of Claude becomes: findings that cite the photo it is about.
LEMMA Coerced ==
  ASSUME NEW raws \in Replies, NEW photo \in PhotoIds
  PROVE  /\ Coerce(raws, photo) \in Seq(Finding)
         /\ \A f \in Range(Coerce(raws, photo)) : f.photo = photo
<1> DEFINE Raw == [kind : STRING, confidence : Int]
           T == {raw \in Range(raws) : Valid(raw)}
           valid == Only(raws, T)
           cited(raw) == [kind |-> raw.kind, confidence |-> raw.confidence, photo |-> photo]
           found == [i \in DOMAIN valid |-> cited(valid[i])]
<1>1. raws \in Seq(Raw)
  BY RepliesAssumption
<1>2. Coerce(raws, photo) = found
  BY DEF Coerce
<1>3. valid \in Seq(Raw) /\ Range(valid) \subseteq T
  <2> HIDE DEF T, Raw
  <2> QED BY <1>1, Kept
<1>4. DOMAIN valid = 1 .. Len(valid) /\ Len(valid) \in Nat
  <2> HIDE DEF valid, Raw
  <2> QED BY <1>3
<1>5. \A i \in DOMAIN valid : cited(valid[i]) \in Finding
  <2> SUFFICES ASSUME NEW i \in DOMAIN valid PROVE cited(valid[i]) \in Finding
    OBVIOUS
  <2>1. valid[i] \in T
    <3> HIDE DEF T, valid
    <3> QED BY <1>3 DEF Range
  <2> HIDE DEF valid
  <2>2. valid[i].kind \in {"feature", "red_flag"} /\ valid[i].confidence \in 0 .. 100
    BY <2>1 DEF Valid
  <2> QED BY <2>2 DEF Finding
<1>6. found \in Seq(Finding)
  <2> HIDE DEF valid, cited
  <2> QED BY <1>4, <1>5
<1>7. \A f \in Range(found) : f.photo = photo
  <2> HIDE DEF valid
  <2> QED BY DEF Range
<1> QED BY <1>2, <1>6, <1>7
-----------------------------------------------------------------------------
LEMMA IdleShape == DOMAIN Idle = WorkerFields /\ Idle.pc = "idle" /\ Idle.client = Nobody
BY DEF Idle, WorkerFields

LEMMA NewRunShape ==
  /\ DOMAIN NewRun = RunFields /\ NewRun.pc = "idle" /\ NewRun.paid = {} /\ NewRun.analyzed = 0
  /\ NewRun.existing.state = "none"
  /\ DOMAIN Over = RunFields /\ Over.pc = "over" /\ Over.paid = {} /\ Over.analyzed = 0
  /\ Over.existing.state = "none"
BY DEF NewRun, Over, RunFields, NoRow

LEMMA PassedShape ==
  ASSUME NEW x, DOMAIN x = WorkerFields
  PROVE  /\ DOMAIN Passed(x) = WorkerFields /\ Passed(x).pc = "look"
         /\ Passed(x).client = x.client /\ Passed(x).listing = x.listing
BY DEF Passed, WorkerFields

LEMMA AnsweredShape ==
  ASSUME NEW x, DOMAIN x = WorkerFields, NEW features, NEW review, NEW looked
  PROVE  LET y == [Passed(x) EXCEPT !.features = features, !.review = review, !.looked = looked]
         IN /\ DOMAIN y = WorkerFields /\ y.pc = "look"
            /\ y.client = x.client /\ y.listing = x.listing
BY PassedShape DEF WorkerFields

\* A call that has answered leaves the thread's request as it is.
LEMMA AnsweredFields ==
  ASSUME NEW w \in Workers, NEW raws, Shape, Answered(w, raws)
  PROVE  /\ worker'[w].pc = "look"
         /\ worker'[w].client = worker[w].client /\ worker'[w].listing = worker[w].listing
         /\ \A v \in Workers \ {w} : worker'[v] = worker[v]
<1> DEFINE found == Coerce(raws, Photos[worker[w].listing][worker[w].photo])
           doubtful == {f \in Range(found) : ToReview(f)}
           y == [Passed(worker[w]) EXCEPT !.features = @ \o Only(found, Range(found) \ doubtful),
                                          !.review = @ \o Only(found, doubtful),
                                          !.looked = @ \cup {worker[w].photo}]
<1>1. worker' = [worker EXCEPT ![w] = IF worker[w].client = Nobody THEN Passed(worker[w]) ELSE y]
  BY Zenon DEF Answered
<1>2. PICK x : x = worker[w]
  OBVIOUS
<1>3. DOMAIN x = WorkerFields
  BY <1>2, Zenon DEF Shape
<1>4. y.pc = "look" /\ y.client = x.client /\ y.listing = x.listing
  BY <1>2, <1>3, PassedShape, AnsweredShape
<1> HIDE DEF y
<1> QED BY <1>1, <1>2, <1>3, <1>4, PassedShape DEF Shape

LEMMA BetweenShape ==
  ASSUME NEW x, DOMAIN x = RunFields
  PROVE  /\ DOMAIN Between(x) = RunFields /\ Between(x).pc = "next"
         /\ Between(x).existing.state = "none"
         /\ Between(x).paid = x.paid /\ Between(x).analyzed = x.analyzed
BY DEF Between, RunFields, NoRow

\* What hanging up leaves of each thread.
LEMMA HangUpFields ==
  ASSUME Shape, NEW r \in Runs, HangUp(r)
  PROVE  \A w \in Workers :
           /\ worker'[w].pc = worker[w].pc /\ worker'[w].listing = worker[w].listing
           /\ worker'[w].client = IF worker[w].client = r THEN Nobody ELSE worker[w].client
<1> SUFFICES ASSUME NEW w \in Workers
             PROVE  /\ worker'[w].pc = worker[w].pc /\ worker'[w].listing = worker[w].listing
                    /\ worker'[w].client = IF worker[w].client = r THEN Nobody ELSE worker[w].client
  OBVIOUS
<1>1. DOMAIN worker[w] = WorkerFields
  BY DEF Shape
<1>2. worker'[w] = IF worker[w].client = r
        THEN [worker[w] EXCEPT !.client = Nobody, !.features = <<>>, !.review = <<>>, !.looked = {}]
        ELSE worker[w]
  BY DEF HangUp
<1>3. CASE worker[w].client = r
  <2> DEFINE x == worker[w]
  <2> HIDE DEF x
  <2>1. DOMAIN x = WorkerFields
    BY <1>1 DEF x
  <2>2. worker'[w] = [x EXCEPT !.client = Nobody, !.features = <<>>, !.review = <<>>, !.looked = {}]
    BY <1>2, <1>3 DEF x
  <2>3. worker'[w].pc = x.pc /\ worker'[w].listing = x.listing /\ worker'[w].client = Nobody
    BY <2>1, <2>2 DEF WorkerFields
  <2> QED BY <1>3, <2>3 DEF x
<1>4. CASE worker[w].client # r
  BY <1>2, <1>4
<1> QED BY <1>3, <1>4

LEMMA NobodyIsNoRun == Nobody \notin Runs
BY ListingsAssumption DEF Nobody

\* Payments are a finite set, and one listing more is one payment more.
LEMMA PaidCount ==
  ASSUME NEW P \in SUBSET Listings
  PROVE  /\ IsFiniteSet(P) /\ Cardinality(P) \in Nat
         /\ \A Q \in SUBSET P : Cardinality(Q) <= Cardinality(P) /\ Cardinality(Q) \in Nat
         /\ \A l : Cardinality(P) <= Cardinality(P \ {l}) + 1
<1>1. IsFiniteSet(P)
  BY FS_Subset, ListingsAssumption
<1>2. Cardinality(P) \in Nat
  BY <1>1, FS_CardinalityType
<1>3. \A Q \in SUBSET P : Cardinality(Q) <= Cardinality(P) /\ Cardinality(Q) \in Nat
  BY <1>1, FS_Subset, FS_CardinalityType
<1>4. \A l : Cardinality(P) <= Cardinality(P \ {l}) + 1
  BY <1>1, <1>2, FS_RemoveElement
<1> QED BY <1>1, <1>2, <1>3, <1>4

LEMMA SentCount ==
  /\ IsFiniteSet(Sent) /\ Cardinality(Sent) \in Nat /\ Cardinality(Workers) \in Nat
  /\ Cardinality(Sent) <= Cardinality(Workers)
<1>1. Sent \subseteq Workers /\ IsFiniteSet(Workers)
  BY ListingsAssumption DEF Sent
<1> QED BY <1>1, FS_Subset, FS_CardinalityType

LEMMA InitInv == Init => VisionInv
<1> SUFFICES ASSUME Init PROVE VisionInv
  OBVIOUS
<1>1. Shape
  BY IdleShape, NewRunShape DEF Init, Shape, NoRow
<1>2. Breaker
  <2>1. Sent = {}
    BY IdleShape DEF Init, Sent
  <2> QED BY <2>1, SentCount, FS_EmptySet DEF Init, Breaker
<1>3. Served /\ Unfresh
  BY IdleShape, NewRunShape, NobodyIsNoRun DEF Init, Served, Unfresh
<1>4. \A r \in Runs : Account(run[r])
  <2>1. Cardinality({}) = 0
    BY FS_EmptySet
  <2> QED BY <2>1, NewRunShape, BoundsAssumption DEF Init, Account, Asking
<1> QED BY <1>1, <1>2, <1>3, <1>4 DEF VisionInv
-----------------------------------------------------------------------------
LEMMA StepShape == Shape /\ [Next]_vars => Shape'
<1> SUFFICES ASSUME Shape, [Next]_vars PROVE Shape'
  OBVIOUS
<1> USE DEF Shape
<1>1. ASSUME NEW r \in Runs, Start(r) PROVE Shape'
  BY <1>1 DEF Start, rails
<1>2. ASSUME NEW r \in Runs, NEW l \in Listings, Skip(r, l) \/ Ask(r, l) PROVE Shape'
  BY <1>2 DEF Skip, Ask, rails
<1>3. ASSUME NEW r \in Runs, RpcFails(r) PROVE Shape'
  <2>1. \A q \in Runs : DOMAIN run'[q] = RunFields
    BY <1>3, BetweenShape DEF RpcFails
  <2> QED BY <1>3, <2>1 DEF RpcFails, HangUp
<1>4. ASSUME NEW r \in Runs, Save(r) PROVE Shape'
  BY <1>4, BetweenShape, NewRunShape DEF Save, Saves
<1>5. ASSUME NEW r \in Runs, Finish(r) PROVE Shape'
  BY <1>5, NewRunShape DEF Finish, rails
<1>6. ASSUME NEW r \in Runs, Kill(r) PROVE Shape'
  BY <1>6, NewRunShape DEF Kill, HangUp
<1>7. ASSUME NEW w \in Workers, NEW r \in Runs, Serve(w, r) PROVE Shape'
  BY <1>7, IdleShape DEF Serve, rails
<1>8. ASSUME NEW w \in Workers, Pass(w) \/ TransportFails(w) \/ Garbled(w) PROVE Shape'
  BY <1>8, PassedShape DEF Pass, TransportFails, Garbled, rails
<1>9. ASSUME NEW w \in Workers, Send(w) PROVE Shape'
  BY <1>9 DEF Send, rails
<1>10. ASSUME NEW w \in Workers, NEW raws \in Replies, Answered(w, raws) PROVE Shape'
  BY <1>10, PassedShape DEF Answered, rails
<1>11. ASSUME NEW w \in Workers, Reply(w) PROVE Shape'
  BY <1>11, IdleShape DEF Reply, rails
<1>12. CASE CooldownPasses \/ UNCHANGED vars
  BY <1>12 DEF CooldownPasses, vars
<1>13. ASSUME NEW a \in Addresses, TtlPasses(a) PROVE Shape'
  BY <1>13 DEF TtlPasses
<1>14. ASSUME SeedSave \/ \E l \in Listings : SeedFind(l) PROVE Shape'
  BY <1>14 DEF SeedFind, SeedSave, Saves
<1> QED BY <1>1, <1>2, <1>3, <1>4, <1>5, <1>6, <1>7, <1>8, <1>9, <1>10, <1>11, <1>12, <1>13, <1>14
        DEF Next, Progress, RunStep, Work

\* The calls under way after a step.
LEMMA FewerSent ==
  ASSUME Breaker, Sent' \subseteq Sent, UNCHANGED <<cooling, failures>>
  PROVE  Breaker'
<1>1. Cardinality(Sent') <= Cardinality(Sent) /\ Cardinality(Sent') \in Nat
  BY SentCount, FS_Subset, FS_CardinalityType
<1> QED BY <1>1, SentCount DEF Breaker

\* A thread that has no call under way afterwards adds none.
LEMMA NoneMoreSent ==
  ASSUME NEW w \in Workers, worker'[w].pc # "sent", \A v \in Workers \ {w} : worker'[v] = worker[v]
  PROVE  Sent' \subseteq Sent
<1> SUFFICES ASSUME NEW v \in Workers, worker'[v].pc = "sent" PROVE worker[v].pc = "sent"
  BY Zenon DEF Sent
<1>1. v # w
  OBVIOUS
<1> QED BY <1>1

LEMMA StepBreaker == Shape /\ Breaker /\ [Next]_vars => Breaker'
<1> SUFFICES ASSUME Shape, Breaker, [Next]_vars PROVE Breaker'
  OBVIOUS
<1>1. ASSUME UNCHANGED <<worker, cooling, failures>> PROVE Breaker'
  BY <1>1 DEF Breaker, Sent
<1>2. ASSUME NEW r \in Runs, RpcFails(r) \/ Kill(r) PROVE Breaker'
  <2>1. Sent' \subseteq Sent
    BY <1>2, HangUpFields DEF RpcFails, Kill, Sent
  <2> QED BY <1>2, <2>1, FewerSent DEF RpcFails, Kill, HangUp
<1>3. ASSUME NEW w \in Workers, NEW r \in Runs, Serve(w, r) PROVE Breaker'
  <2>1. /\ worker'[w].pc # "sent"
        /\ \A v \in Workers \ {w} : worker'[v] = worker[v]
    <3> DEFINE x == [Idle EXCEPT !.pc = "look", !.client = r, !.listing = run[r].listing]
    <3>1. worker' = [worker EXCEPT ![w] = x]
      BY <1>3, Zenon DEF Serve
    <3>2. x.pc = "look"
      BY IdleShape DEF WorkerFields
    <3> HIDE DEF x
    <3> QED BY <3>1, <3>2 DEF Shape
  <2>2. Sent' \subseteq Sent
    BY <2>1, NoneMoreSent
  <2> QED BY <1>3, <2>2, FewerSent DEF Serve
<1>4. ASSUME NEW w \in Workers, Pass(w) \/ Garbled(w) \/ Reply(w) \/ \E raws \in Replies : Answered(w, raws)
      PROVE Breaker'
  <2>1. \A v \in Workers \ {w} : worker'[v] = worker[v]
    BY <1>4 DEF Pass, Garbled, Reply, Answered, Shape
  <2>2. worker'[w].pc # "sent"
    <3>1. CASE Pass(w) \/ Garbled(w)
      BY <3>1, PassedShape DEF Pass, Garbled, Shape
    <3>2. CASE Reply(w)
      BY <3>2, IdleShape DEF Reply, Shape
    <3>3. CASE \E raws \in Replies : Answered(w, raws)
      BY <3>3, AnsweredFields
    <3> QED BY <1>4, <3>1, <3>2, <3>3
  <2>3. Sent' \subseteq Sent
    BY <2>1, <2>2, NoneMoreSent
  <2> QED BY <1>4, <2>3, FewerSent DEF Pass, Garbled, Reply, Answered
<1>5. ASSUME NEW w \in Workers, Send(w) PROVE Breaker'
  <2>1. IsFiniteSet(Workers) /\ Sent' \subseteq Workers /\ failures' = 0
    BY <1>5, ListingsAssumption DEF Send, Sent, Breaker
  <2>2. Cardinality(Sent') <= Cardinality(Workers) /\ Cardinality(Sent') \in Nat
    BY <2>1, FS_Subset, FS_CardinalityType
  <2> QED BY <1>5, <2>1, <2>2 DEF Send, Breaker
<1>6. ASSUME NEW w \in Workers, TransportFails(w) PROVE Breaker'
  <2>1. w \in Sent /\ Sent' = Sent \ {w}
    <3>1. /\ worker[w].pc = "sent" /\ worker'[w].pc = "look"
          /\ \A v \in Workers \ {w} : worker'[v] = worker[v]
      BY <1>6, PassedShape DEF TransportFails, Shape
    <3> QED BY <3>1 DEF Sent
  <2>2. Cardinality(Sent \ {w}) = Cardinality(Sent) - 1
    BY <2>1, SentCount, FS_RemoveElement
  <2> QED BY <1>6, <2>1, <2>2, SentCount DEF TransportFails, Breaker
<1>7. CASE CooldownPasses
  <2>1. Sent' = Sent
    BY <1>7 DEF CooldownPasses, Sent
  <2> QED BY <1>7, <2>1, SentCount DEF CooldownPasses, Breaker
<1>8. CASE UNCHANGED vars
  BY <1>1, <1>8 DEF vars
<1>9. ASSUME NEW r \in Runs, Start(r) \/ RunStep(r) PROVE Breaker'
  BY <1>1, <1>9 DEF Start, RunStep, Skip, Ask, Save, Finish
<1>10. ASSUME (\E a \in Addresses : TtlPasses(a)) \/ SeedSave \/ (\E l \in Listings : SeedFind(l))
       PROVE  Breaker'
  BY <1>1, <1>10 DEF TtlPasses, SeedFind, SeedSave
<1> QED BY <1>2, <1>3, <1>4, <1>5, <1>6, <1>7, <1>8, <1>9, <1>10 DEF Next, Progress, Work
-----------------------------------------------------------------------------
LEMMA StepServed == Shape /\ Served /\ [Next]_vars => Served'
<1> SUFFICES ASSUME Shape, Served, [Next]_vars PROVE Served'
  OBVIOUS
<1>1. ASSUME NEW r \in Runs, worker' = worker, run[r].pc # "served",
             \A q \in Runs \ {r} : run'[q] = run[q]
      PROVE  Served'
  BY <1>1 DEF Served
<1>2. ASSUME NEW r \in Runs, Start(r) \/ RunStep(r) PROVE Served'
  BY <1>1, <1>2 DEF Start, RunStep, Skip, Ask, Save, Finish, Shape
<1>3. ASSUME NEW r \in Runs, RpcFails(r) \/ Kill(r) PROVE Served'
  <2>1. \A w \in Workers : /\ worker'[w].client # r /\ worker'[w].listing = worker[w].listing
                           /\ worker'[w].client \in {worker[w].client, Nobody}
    BY <1>3, HangUpFields, NobodyIsNoRun DEF RpcFails, Kill
  <2>2. \A q \in Runs \ {r} : run'[q] = run[q]
    BY <1>3 DEF RpcFails, Kill, Shape
  <2> QED BY <2>1, <2>2, NobodyIsNoRun DEF Served
<1>4. ASSUME NEW w \in Workers, NEW r \in Runs, Serve(w, r) PROVE Served'
  <2>1. /\ run[r].pc = "waiting" /\ run'[r].pc = "served" /\ run'[r].listing = run[r].listing
        /\ \A q \in Runs \ {r} : run'[q] = run[q]
        /\ worker'[w].client = r /\ worker'[w].listing = run[r].listing
        /\ \A v \in Workers \ {w} : worker'[v] = worker[v]
    BY <1>4, IdleShape DEF Serve, Shape, RunFields, WorkerFields
  <2>2. \A v \in Workers : worker[v].client # r
    BY <2>1 DEF Served
  <2> QED BY <2>1, <2>2 DEF Served
<1>5. ASSUME NEW w \in Workers,
             /\ \A v \in Workers \ {w} : worker'[v] = worker[v]
             /\ worker'[w].client = worker[w].client /\ worker'[w].listing = worker[w].listing
             /\ \A r \in Runs : run'[r].pc = run[r].pc /\ run'[r].listing = run[r].listing
      PROVE  Served'
  BY <1>5 DEF Served
<1>6. ASSUME NEW w \in Workers, Pass(w) \/ TransportFails(w) \/ Garbled(w) PROVE Served'
  <2>1. worker' = [worker EXCEPT ![w] = Passed(worker[w])] /\ run' = run
    BY <1>6 DEF Pass, TransportFails, Garbled
  <2>2. \A v \in Workers \ {w} : worker'[v] = worker[v]
    BY <2>1 DEF Shape
  <2>3. worker'[w] = Passed(worker[w])
    BY <2>1 DEF Shape
  <2>4. DOMAIN worker[w] = WorkerFields
    BY DEF Shape
  <2>5. worker'[w].client = worker[w].client /\ worker'[w].listing = worker[w].listing
    BY <2>3, <2>4, PassedShape
  <2> QED BY <1>5, <2>1, <2>2, <2>5
<1>7. ASSUME NEW w \in Workers, Send(w) PROVE Served'
  <2>1. \A r \in Runs : run'[r].pc = run[r].pc /\ run'[r].listing = run[r].listing
    BY <1>7 DEF Send, Shape, RunFields
  <2>2. /\ \A v \in Workers \ {w} : worker'[v] = worker[v]
        /\ worker'[w].client = worker[w].client /\ worker'[w].listing = worker[w].listing
    BY <1>7 DEF Send, Shape, WorkerFields
  <2> QED BY <1>5, <2>1, <2>2
<1>8. ASSUME NEW w \in Workers, NEW raws \in Replies, Answered(w, raws) PROVE Served'
  <2>1. run' = run /\ \A v \in Workers \ {w} : worker'[v] = worker[v]
    BY <1>8, AnsweredFields DEF Answered
  <2>2. worker'[w].client = worker[w].client /\ worker'[w].listing = worker[w].listing
    BY <1>8, AnsweredFields
  <2> QED BY <1>5, <2>1, <2>2
<1>9. ASSUME NEW w \in Workers, Reply(w) PROVE Served'
  <2>1. /\ \A v \in Workers \ {w} : worker'[v] = worker[v]
        /\ worker'[w].client = Nobody
        /\ \A q \in Runs \ {worker[w].client} : run'[q] = run[q]
    BY <1>9, IdleShape DEF Reply, Shape
  <2> QED BY <2>1, NobodyIsNoRun DEF Served
<1>10. CASE UNCHANGED vars \/ CooldownPasses \/ (\E a \in Addresses : TtlPasses(a))
             \/ SeedSave \/ (\E l \in Listings : SeedFind(l))
  <2>1. UNCHANGED <<run, worker>>
    BY <1>10 DEF vars, CooldownPasses, TtlPasses, SeedFind, SeedSave
  <2> QED BY <2>1 DEF Served
<1>11. ASSUME NEW w \in Workers, Work(w) PROVE Served'
  BY <1>6, <1>7, <1>8, <1>9, <1>11 DEF Work
<1> QED BY <1>2, <1>3, <1>4, <1>10, <1>11 DEF Next, Progress
-----------------------------------------------------------------------------
LEMMA StepUnfresh == Shape /\ Unfresh /\ [Next]_vars => Unfresh'
<1> SUFFICES ASSUME Shape, Unfresh, [Next]_vars, NEW q \in Runs
             PROVE  run'[q].existing.state # "fresh"
  BY DEF Unfresh
<1>0. run[q].existing.state # "fresh" /\ DOMAIN run[q] = RunFields
  BY DEF Unfresh, Shape
<1>1. CASE run'[q] = run[q]
  BY <1>0, <1>1
<1>2. ASSUME NEW r \in Runs, Start(r) \/ \E l \in Listings : Skip(r, l) PROVE run'[q].existing.state # "fresh"
  BY <1>0, <1>2 DEF Start, Skip, Shape, RunFields
<1>3. ASSUME NEW r \in Runs, NEW l \in Listings, Ask(r, l) PROVE run'[q].existing.state # "fresh"
  <2>1. row[AddressOf[l]].state # "fresh"
    BY <1>3 DEF Ask, Skips
  <2>2. r # q => run'[q] = run[q]
    BY <1>3 DEF Ask, Shape
  <2>3. r = q => run'[q].existing = row[AddressOf[l]]
    BY <1>0, <1>3 DEF Ask, Shape, RunFields
  <2> QED BY <1>0, <2>1, <2>2, <2>3
<1>4. ASSUME NEW r \in Runs, RpcFails(r) \/ Save(r) \/ Finish(r) \/ Kill(r)
      PROVE  run'[q].existing.state # "fresh"
  <2>1. r # q => run'[q] = run[q]
    BY <1>4 DEF RpcFails, Save, Finish, Kill, Shape
  <2>2. CASE r = q
    <3>1. CASE RpcFails(r)
      <4>1. run'[q] = [Between(run[q]) EXCEPT !.paid = @ \ {run[q].listing}]
        BY <2>2, <3>1 DEF RpcFails, Shape
      <4>2. DOMAIN Between(run[q]) = RunFields /\ Between(run[q]).existing.state = "none"
        BY <1>0, BetweenShape
      <4> QED BY <4>1, <4>2 DEF RunFields
    <3>2. CASE Finish(r) \/ Kill(r)
      BY <2>2, <3>2, NewRunShape DEF Finish, Kill, Shape
    <3>3. CASE Save(r)
      <4>1. \/ run'[q] = Over
            \/ run'[q] = [Between(run[q]) EXCEPT !.analyzed = @ + Counted(run[q].answer)]
        BY <2>2, <3>3 DEF Save, Shape
      <4>2. DOMAIN Between(run[q]) = RunFields /\ Between(run[q]).existing.state = "none"
        BY <1>0, BetweenShape
      <4> QED BY <4>1, <4>2, NewRunShape DEF RunFields
    <3> QED BY <1>4, <3>1, <3>2, <3>3
  <2> QED BY <1>0, <2>1, <2>2
<1>5. ASSUME NEW w \in Workers, Send(w) \/ Reply(w) \/ \E r \in Runs : Serve(w, r)
      PROVE run'[q].existing.state # "fresh"
  <2>1. CASE Send(w)
    BY <1>0, <2>1 DEF Send, RunFields
  <2>2. ASSUME NEW r \in Runs, Serve(w, r) PROVE run'[q].existing = run[q].existing
    BY <1>0, <2>2 DEF Serve, Shape, RunFields
  <2>3. CASE Reply(w)
    <3>1. worker[w].client # q => run'[q] = run[q]
      BY <2>3 DEF Reply, Shape
    <3>2. CASE worker[w].client = q
      <4>1. worker[w].client # Nobody
        BY <3>2, NobodyIsNoRun
      <4>2. PICK answer : run' = [run EXCEPT ![worker[w].client].pc = "answered",
                                             ![worker[w].client].answer = answer]
        BY <2>3, <4>1, Zenon DEF Reply
      <4> QED BY <1>0, <3>2, <4>2 DEF Shape, RunFields
    <3> QED BY <1>0, <3>1, <3>2
  <2> QED BY <1>0, <1>5, <2>1, <2>2, <2>3
<1>6. CASE run' = run
  BY <1>1, <1>6
<1>7. ASSUME NEW w \in Workers,
             Pass(w) \/ TransportFails(w) \/ Garbled(w) \/ \E raws \in Replies : Answered(w, raws)
      PROVE  run' = run
  BY <1>7 DEF Pass, TransportFails, Garbled, Answered
<1>8. ASSUME UNCHANGED vars \/ CooldownPasses \/ (\E a \in Addresses : TtlPasses(a))
             \/ SeedSave \/ (\E l \in Listings : SeedFind(l))
      PROVE  run' = run
  BY <1>8 DEF vars, CooldownPasses, TtlPasses, SeedFind, SeedSave
<1> QED BY <1>2, <1>3, <1>4, <1>5, <1>6, <1>7, <1>8 DEF Next, Progress, RunStep, Work
-----------------------------------------------------------------------------
\* The account of a run depends on these fields only.
LEMMA SameAccount ==
  ASSUME NEW x, NEW y, Account(x), y.pc = x.pc, y.analyzed = x.analyzed, y.paid = x.paid,
         y.listing = x.listing
  PROVE  Account(y)
BY DEF Account

\* A run that is over has no account left to keep.
LEMMA OverAccount == Account(Over)
<1>1. Cardinality({}) = 0
  BY FS_EmptySet
<1> QED BY <1>1, NewRunShape, BoundsAssumption DEF Account, Asking

LEMMA StepAccount ==
  Shape /\ Served /\ (\A r \in Runs : Account(run[r])) /\ [Next]_vars => \A r \in Runs : Account(run'[r])
<1> SUFFICES ASSUME Shape, Served, \A r \in Runs : Account(run[r]), [Next]_vars, NEW q \in Runs
             PROVE  Account(run'[q])
  OBVIOUS
<1>0. Account(run[q]) /\ DOMAIN run[q] = RunFields
  BY DEF Shape
<1>1. CASE run'[q] = run[q]
  BY <1>0, <1>1
<1>2. ASSUME NEW r \in Runs, Start(r) PROVE Account(run'[q])
  <2>1. CASE r # q
    BY <1>1, <1>2, <2>1 DEF Start, Shape
  <2>2. CASE r = q
    <3>1. /\ run[q].pc = "idle" /\ run'[q].pc = "next"
          /\ run'[q].paid = run[q].paid /\ run'[q].analyzed = run[q].analyzed
      BY <1>0, <1>2, <2>2 DEF Start, Shape, RunFields
    <3> QED BY <1>0, <3>1 DEF Account, Asking
  <2> QED BY <2>1, <2>2
<1>3. ASSUME NEW r \in Runs, NEW l \in Listings, Skip(r, l) PROVE Account(run'[q])
  <2>1. /\ run'[q].pc = run[q].pc /\ run'[q].paid = run[q].paid
        /\ run'[q].analyzed = run[q].analyzed /\ run'[q].listing = run[q].listing
    BY <1>0, <1>3 DEF Skip, Shape, RunFields
  <2> QED BY <1>0, <2>1, SameAccount
<1>4. ASSUME NEW r \in Runs, NEW l \in Listings, Ask(r, l) PROVE Account(run'[q])
  <2>1. CASE r # q
    BY <1>1, <1>4, <2>1 DEF Ask, Shape
  <2>2. CASE r = q
    <3>1. /\ run[q].pc = "next" /\ run'[q].pc = "waiting" /\ run'[q].listing = l
          /\ run'[q].paid = run[q].paid /\ run'[q].analyzed = run[q].analyzed
      BY <1>0, <1>4, <2>2 DEF Ask, Shape, RunFields
    <3>2. ~(run[q].analyzed >= MaxCalls)
      BY <1>4, <2>2 DEF Ask, Skips
    <3>3. /\ run[q].paid \subseteq Listings /\ run[q].analyzed \in Nat
          /\ Cardinality(run[q].paid) <= run[q].analyzed
      BY <1>0, <3>1 DEF Account
    <3>4. Cardinality(run[q].paid \ {l}) <= run[q].analyzed
      <4>1. Cardinality(run[q].paid \ {l}) <= Cardinality(run[q].paid)
            /\ Cardinality(run[q].paid \ {l}) \in Nat /\ Cardinality(run[q].paid) \in Nat
        BY <3>3, PaidCount
      <4> QED BY <3>3, <4>1
    <3>5. run[q].analyzed < MaxCalls
      BY <3>2, <3>3, BoundsAssumption
    <3> QED BY <3>1, <3>3, <3>4, <3>5 DEF Account, Asking
  <2> QED BY <2>1, <2>2
<1>5. ASSUME NEW r \in Runs, RpcFails(r) PROVE Account(run'[q])
  <2>1. CASE r # q
    BY <1>1, <1>5, <2>1 DEF RpcFails, Shape
  <2>2. CASE r = q
    <3>1. run'[q] = [Between(run[q]) EXCEPT !.paid = @ \ {run[q].listing}]
      BY <1>5, <2>2 DEF RpcFails, Shape
    <3>2. /\ DOMAIN Between(run[q]) = RunFields /\ Between(run[q]).pc = "next"
          /\ Between(run[q]).paid = run[q].paid /\ Between(run[q]).analyzed = run[q].analyzed
      BY <1>0, BetweenShape
    <3>3. /\ run'[q].pc = "next" /\ run'[q].paid = run[q].paid \ {run[q].listing}
          /\ run'[q].analyzed = run[q].analyzed
      BY <3>1, <3>2 DEF RunFields
    <3>4. run[q].pc \in Asking
      BY <1>5, <2>2 DEF RpcFails, Asking
    <3>5. /\ run[q].paid \subseteq Listings /\ run[q].analyzed \in Nat
          /\ Cardinality(run[q].paid \ {run[q].listing}) <= run[q].analyzed
          /\ run[q].analyzed < MaxCalls
      BY <1>0, <3>4 DEF Account
    <3> QED BY <3>3, <3>5, BoundsAssumption DEF Account, Asking
  <2> QED BY <2>1, <2>2
<1>6. ASSUME NEW r \in Runs, Save(r) PROVE Account(run'[q])
  <2>1. CASE r # q
    BY <1>1, <1>6, <2>1 DEF Save, Shape
  <2>2. CASE r = q
    <3>1. \/ run'[q] = Over
          \/ run'[q] = [Between(run[q]) EXCEPT !.analyzed = @ + Counted(run[q].answer)]
      BY <1>6, <2>2 DEF Save, Shape
    <3>2. /\ DOMAIN Between(run[q]) = RunFields /\ Between(run[q]).pc = "next"
          /\ Between(run[q]).paid = run[q].paid /\ Between(run[q]).analyzed = run[q].analyzed
      BY <1>0, BetweenShape
    <3>3. run[q].pc \in Asking
      BY <1>6, <2>2 DEF Save, Asking
    <3>4. /\ run[q].paid \subseteq Listings /\ run[q].analyzed \in Nat
          /\ Cardinality(run[q].paid \ {run[q].listing}) <= run[q].analyzed
          /\ run[q].analyzed < MaxCalls
      BY <1>0, <3>3 DEF Account
    <3>5. CASE run'[q] = [Between(run[q]) EXCEPT !.analyzed = @ + Counted(run[q].answer)]
      <4>1. /\ run'[q].pc = "next" /\ run'[q].paid = run[q].paid
            /\ run'[q].analyzed = run[q].analyzed + 1
        BY <3>2, <3>5 DEF RunFields, Counted
      <4>2. /\ Cardinality(run[q].paid) <= Cardinality(run[q].paid \ {run[q].listing}) + 1
            /\ Cardinality(run[q].paid) \in Nat
            /\ Cardinality(run[q].paid \ {run[q].listing}) \in Nat
        BY <3>4, PaidCount
      <4>3. Cardinality(run[q].paid) <= run[q].analyzed + 1 /\ run[q].analyzed + 1 <= MaxCalls
        BY <3>4, <4>2, BoundsAssumption
      <4> QED BY <3>4, <4>1, <4>3 DEF Account, Asking
    <3> QED BY <3>1, <3>5, OverAccount
  <2> QED BY <2>1, <2>2
<1>7. ASSUME NEW r \in Runs, Finish(r) \/ Kill(r) PROVE Account(run'[q])
  BY <1>1, <1>7, OverAccount DEF Finish, Kill, Shape
<1>8. ASSUME NEW w \in Workers, NEW r \in Runs, Serve(w, r) PROVE Account(run'[q])
  <2>1. CASE r # q
    BY <1>1, <1>8, <2>1 DEF Serve, Shape
  <2>2. CASE r = q
    <3>1. /\ run[q].pc = "waiting" /\ run'[q].pc = "served" /\ run'[q].listing = run[q].listing
          /\ run'[q].paid = run[q].paid /\ run'[q].analyzed = run[q].analyzed
      BY <1>0, <1>8, <2>2 DEF Serve, Shape, RunFields
    <3> QED BY <1>0, <3>1 DEF Account, Asking
  <2> QED BY <2>1, <2>2
<1>9. ASSUME NEW w \in Workers, Send(w) PROVE Account(run'[q])
  <2>1. CASE q # worker[w].client
    BY <1>1, <1>9, <2>1 DEF Send
  <2>2. CASE q = worker[w].client
    <3>1. run[q].pc = "served" /\ worker[w].listing = run[q].listing
      BY <2>2 DEF Served
    <3>2. run'[q] = [run[q] EXCEPT !.paid = @ \cup {worker[w].listing}]
      BY <1>9, <2>2 DEF Send
    <3>3. /\ run'[q].pc = run[q].pc /\ run'[q].listing = run[q].listing
          /\ run'[q].analyzed = run[q].analyzed
          /\ run'[q].paid = run[q].paid \cup {run[q].listing}
      BY <1>0, <3>1, <3>2 DEF RunFields
    <3>4. run'[q].paid \ {run'[q].listing} = run[q].paid \ {run[q].listing}
      BY <3>3
    <3>5. run[q].listing \in Listings
      BY <1>0, <3>1 DEF Account, Asking
    <3> QED BY <1>0, <3>1, <3>3, <3>4, <3>5 DEF Account, Asking
  <2> QED BY <2>1, <2>2
<1>10. ASSUME NEW w \in Workers, Reply(w) PROVE Account(run'[q])
  <2>1. CASE q # worker[w].client
    BY <1>1, <1>10, <2>1 DEF Reply, Shape
  <2>2. CASE q = worker[w].client
    <3>1. run[q].pc = "served"
      BY <2>2 DEF Served
    <3>2. PICK answer : run' = [run EXCEPT ![q].pc = "answered", ![q].answer = answer]
      BY <1>10, <2>2, NobodyIsNoRun DEF Reply
    <3>3. /\ run'[q].pc = "answered" /\ run'[q].listing = run[q].listing
          /\ run'[q].paid = run[q].paid /\ run'[q].analyzed = run[q].analyzed
      BY <1>0, <3>2 DEF Shape, RunFields
    <3> QED BY <1>0, <3>1, <3>3 DEF Account, Asking
  <2> QED BY <2>1, <2>2
<1>11. CASE run' = run
  BY <1>1, <1>11
<1>12. ASSUME NEW w \in Workers,
             Pass(w) \/ TransportFails(w) \/ Garbled(w) \/ \E raws \in Replies : Answered(w, raws)
      PROVE  run' = run
  BY <1>12 DEF Pass, TransportFails, Garbled, Answered
<1>13. ASSUME UNCHANGED vars \/ CooldownPasses \/ (\E a \in Addresses : TtlPasses(a))
             \/ SeedSave \/ (\E l \in Listings : SeedFind(l))
      PROVE  run' = run
  BY <1>13 DEF vars, CooldownPasses, TtlPasses, SeedFind, SeedSave
<1> QED BY <1>2, <1>3, <1>4, <1>5, <1>6, <1>7, <1>8, <1>9, <1>10, <1>11, <1>12, <1>13
        DEF Next, Progress, RunStep, Work
-----------------------------------------------------------------------------
\* The inductive invariant holds: who is served, what is under way, what has
\* been paid and what was read, along every behaviour.
THEOREM VisionInvariant == Spec => []VisionInv
<1>1. VisionInv /\ [Next]_vars => VisionInv'
  <2> SUFFICES ASSUME VisionInv, [Next]_vars PROVE VisionInv'
    OBVIOUS
  <2>1. Shape' /\ Breaker' /\ Served' /\ Unfresh'
    BY StepShape, StepBreaker, StepServed, StepUnfresh DEF VisionInv
  <2>2. \A r \in Runs : Account(run'[r])
    BY StepAccount DEF VisionInv
  <2> QED BY <2>1, <2>2 DEF VisionInv, Account
<1> QED BY InitInv, <1>1, PTL DEF Spec

\* BreakerHolds: however the threads interleave between the check of the
\* cooldown and the call, a failing key costs no more calls than there are
\* threads before the cooldown passes.
THEOREM BreakerAlwaysHolds == Spec => []BreakerHolds
<1>1. VisionInv => BreakerHolds
  <2> SUFFICES ASSUME VisionInv PROVE BreakerHolds
    OBVIOUS
  <2> QED BY SentCount DEF VisionInv, Breaker, BreakerHolds
<1> QED BY VisionInvariant, <1>1, PTL

\* BudgetKept: a run pays for at most max_calls listings, but for those whose
\* answer it lost, whatever other runs and seeds do meanwhile.
THEOREM BudgetAlwaysKept == Spec => []BudgetKept
<1>1. VisionInv => BudgetKept
  <2> SUFFICES ASSUME VisionInv, NEW r \in Runs PROVE Cardinality(run[r].paid) <= MaxCalls
    BY DEF BudgetKept
  <2>1. Account(run[r])
    BY DEF VisionInv
  <2>2. run[r].paid \subseteq Listings /\ run[r].analyzed \in Nat
    BY <2>1 DEF Account
  <2>3. /\ Cardinality(run[r].paid) \in Nat /\ Cardinality(run[r].paid \ {run[r].listing}) \in Nat
        /\ Cardinality(run[r].paid) <= Cardinality(run[r].paid \ {run[r].listing}) + 1
    BY <2>2, PaidCount
  <2>4. CASE run[r].pc \in Asking
    BY <2>1, <2>2, <2>3, <2>4, BoundsAssumption DEF Account
  <2>5. CASE run[r].pc \in {"idle", "next", "over"}
    BY <2>1, <2>2, <2>3, <2>5, BoundsAssumption DEF Account
  <2> QED BY <2>1, <2>4, <2>5 DEF Account
<1> QED BY VisionInvariant, <1>1, PTL

\* FreshKept: a run asks only about rows that are not fresh, so a fresh analysis
\* is replaced only by a seed, by the TTL, or by a run that read an older row.
THEOREM FreshAlwaysKept == Spec => FreshKept
<1> DEFINE Stays == \A a \in Addresses :
       row[a].state = "fresh" /\ row'[a].state = "fresh" /\ row'[a] # row[a] =>
         a \in overtaken' \/ SeedSave
<1>1. VisionInv /\ [Next]_vars => [Stays]_vars
  <2> SUFFICES ASSUME VisionInv, [Next]_vars, NEW a \in Addresses,
                      row[a].state = "fresh", row'[a].state = "fresh", row'[a] # row[a],
                      ~SeedSave
               PROVE  a \in overtaken'
    OBVIOUS
  <2>1. Shape /\ Unfresh
    BY DEF VisionInv
  <2>2. ASSUME NEW r \in Runs, Save(r) PROVE a \in overtaken'
    <3>1. row' # row
      OBVIOUS
    <3>2. a = AddressOf[run[r].listing]
      BY <2>1, <2>2 DEF Save, Saves, Shape
    <3>3. row[a] # run[r].existing
      BY <2>1 DEF Unfresh
    <3> QED BY <2>2, <3>1, <3>2, <3>3 DEF Save, Saves
  <2>3. ASSUME NEW b \in Addresses, TtlPasses(b) PROVE FALSE
    <3>1. a # b => row'[a] = row[a]
      BY <2>1, <2>3 DEF TtlPasses, Shape
    <3>2. a = b => row'[a].state = "stale"
      BY <2>1, <2>3 DEF TtlPasses, Shape
    <3> QED BY <3>1, <3>2
  <2>4. CASE row' = row
    BY <2>4
  <2>5. ASSUME NEW r \in Runs, Start(r) \/ RpcFails(r) \/ Kill(r) \/ Finish(r)
               \/ \E l \in Listings : Skip(r, l) \/ Ask(r, l)
        PROVE  row' = row
    BY <2>5 DEF Start, RpcFails, Kill, HangUp, Finish, Skip, Ask, rails
  <2>6. ASSUME NEW w \in Workers, Work(w) \/ \E r \in Runs : Serve(w, r) PROVE row' = row
    <3>1. CASE Pass(w) \/ Send(w) \/ TransportFails(w) \/ Garbled(w)
      BY <3>1 DEF Pass, Send, TransportFails, Garbled, rails
    <3>2. CASE Reply(w)
      BY <3>2 DEF Reply, rails
    <3>3. CASE \E raws \in Replies : Answered(w, raws)
      BY <3>3 DEF Answered, rails
    <3>4. CASE \E r \in Runs : Serve(w, r)
      BY <3>4 DEF Serve, rails
    <3> QED BY <2>6, <3>1, <3>2, <3>3, <3>4 DEF Work
  <2>7. ASSUME UNCHANGED vars \/ CooldownPasses \/ \E l \in Listings : SeedFind(l) PROVE row' = row
    BY <2>7 DEF vars, CooldownPasses, SeedFind
  <2> QED BY <2>2, <2>3, <2>4, <2>5, <2>6, <2>7 DEF Next, Progress, RunStep
<1> QED BY VisionInvariant, <1>1, PTL DEF Spec, FreshKept
-----------------------------------------------------------------------------
(* What is in the analyses.                                                *)

\* The listings a run visits.
Addressed == {l \in Listings : AddressOf[l] # NoAddress}

\* The findings a buyer may be shown of address a.
Shown(a) ==
  {f \in Finding : /\ f.kind = "feature" /\ f.confidence >= Threshold
                   /\ \E l \in Listings : AddressOf[l] = a
                                         /\ (f.photo \in Range(Photos[l]) \/ Photos[l] = <<>>)}

\* A condition off neutral has its reason on the same analysis.
Explained(is) == Reasoned(is.features, is.review, is.condition)

RowSound(a) ==
  /\ row[a] \in Row /\ Range(row[a].is.features) \subseteq Shown(a)
  /\ a \notin overtaken /\ row[a].state # "none" => Explained(row[a].is)

RunSound(x) ==
  /\ x \in Run /\ x.todo \subseteq Addressed
  /\ x.pc \in Asking => x.listing \in Addressed
  /\ x.pc = "answered" => /\ Range(x.answer.features) \subseteq Shown(AddressOf[x.listing])
                          /\ Explained(x.answer)

\* A thread has found only what may be shown of the address it works on.
WorkerSound(x) ==
  /\ x \in Worker /\ Range(x.features) \subseteq Shown(AddressOf[x.listing])
  /\ x.pc # "idle" => x.listing \in Addressed /\ x.photo \in Nat \ {0}
  /\ x.pc = "sent" => x.photo <= Len(Photos[x.listing])

\* A seed is at a listing with an address.
SeedSound == seeding.listing # NoListing => seeding.listing \in Addressed

DataInv ==
  /\ TypeOK /\ SeedSound
  /\ \A a \in Addresses : RowSound(a)
  /\ \A r \in Runs : RunSound(run[r])
  /\ \A w \in Workers : WorkerSound(worker[w])

LEMMA NewSound ==
  /\ NoAnalysis \in Analysis /\ NoRow \in Row /\ NoRow.is.features = <<>> /\ NoRow.state = "none"
  /\ RunSound(NewRun) /\ RunSound(Over) /\ WorkerSound(Idle)
<1>1. <<>> \in Seq(Finding) /\ Range(<<>>) = {}
  BY DEF Range
<1>2. NoAnalysis \in Analysis /\ NoAnalysis.features = <<>>
  BY <1>1 DEF NoAnalysis, Analysis
<1>3. NoRow \in Row /\ NoRow.is = NoAnalysis /\ NoRow.state = "none"
  BY <1>2 DEF NoRow, Row
<1>4. NewRun \in Run /\ NewRun.pc = "idle" /\ NewRun.todo = {}
  BY <1>2, <1>3, Zenon DEF NewRun, Run
<1>5. Over \in Run /\ Over.pc = "over" /\ Over.todo = {}
  BY <1>2, <1>3, Zenon DEF Over, NewRun, Run
<1>6. Idle \in Worker /\ Idle.pc = "idle" /\ Idle.features = <<>>
  BY <1>1 DEF Idle, Worker, Nobody, NoListing
<1> QED BY <1>1, <1>2, <1>3, <1>4, <1>5, <1>6 DEF RunSound, WorkerSound, Asking

LEMMA BetweenSound ==
  ASSUME NEW x, RunSound(x)
  PROVE  RunSound(Between(x))
<1>1. Between(x) \in Run
  BY NewSound, Zenon DEF RunSound, Between, Run, NoListing
<1>2. Between(x).pc = "next" /\ Between(x).todo = x.todo
  BY DEF RunSound, Between, Run
<1> QED BY <1>1, <1>2 DEF RunSound, Asking

LEMMA PassedSound ==
  ASSUME NEW x, WorkerSound(x), x.pc # "idle"
  PROVE  /\ WorkerSound(Passed(x))
         /\ Passed(x).features = x.features /\ Passed(x).review = x.review
         /\ Passed(x).looked = x.looked /\ Passed(x).listing = x.listing
<1>1. x \in Worker /\ x.photo \in Nat \ {0} /\ x.photo + 1 \in Nat \ {0}
  BY DEF WorkerSound
<1>2. Passed(x) \in Worker
  BY <1>1, Zenon DEF Passed, Worker
<1>3. /\ Passed(x).features = x.features /\ Passed(x).review = x.review
      /\ Passed(x).looked = x.looked /\ Passed(x).listing = x.listing
      /\ Passed(x).photo = x.photo + 1 /\ Passed(x).pc = "look"
  BY <1>1, Zenon DEF Passed, Worker
<1> QED BY <1>1, <1>2, <1>3 DEF WorkerSound

LEMMA AnalysisCondition == ASSUME NEW x \in Analysis PROVE x.condition \in 0 .. 1000
BY DEF Analysis

\* An UPDATE writes findings of the row or of the answer, and the whole answer
\* when the row is as it was read.
LEMMA UpdatedFields ==
  ASSUME NEW now \in Analysis, NEW read \in Analysis, NEW new \in Analysis
  PROVE  /\ Updated(now, read, new) \in Analysis
         /\ Updated(now, read, new).features \in {now.features, new.features}
         /\ now = read => Updated(now, read, new) = new
<1> DEFINE of(f) == IF f # "looked" /\ new[f] = read[f] THEN now[f] ELSE new[f]
           u == Updated(now, read, new)
           Names == {"features", "review", "condition", "provenance", "looked"}
<1>1. DOMAIN new = Names /\ DOMAIN now = Names /\ DOMAIN read = Names
  BY DEF Analysis
<1>2. u = [f \in Names |-> of(f)]
  BY <1>1 DEF Updated
<1>3. \A f \in Names : of(f) \in {now[f], new[f]}
  OBVIOUS
<1>4. /\ now.features \in Seq(Finding) /\ new.features \in Seq(Finding)
      /\ now.review \in Seq(Finding) /\ new.review \in Seq(Finding)
      /\ now.condition \in 0 .. 1000 /\ new.condition \in 0 .. 1000
      /\ now.provenance \in {"claude", "fake", "sample"}
      /\ new.provenance \in {"claude", "fake", "sample"}
      /\ now.looked \in SUBSET Nat /\ new.looked \in SUBSET Nat
  BY DEF Analysis
<1> HIDE DEF of, u
<1>5. u = [features |-> of("features"), review |-> of("review"), condition |-> of("condition"),
           provenance |-> of("provenance"), looked |-> of("looked")]
  BY <1>2
<1>6. u \in Analysis
  <2>1. PICK a \in Seq(Finding) : a = of("features")
    BY <1>3, <1>4
  <2>2. PICK b \in Seq(Finding) : b = of("review")
    BY <1>3, <1>4
  <2> DEFINE Points == 0 .. 1000
  <2>8. now.condition \in Points /\ new.condition \in Points
    BY AnalysisCondition
  <2> HIDE DEF Points
  <2>3. PICK c \in Points : c = of("condition")
    BY <1>3, <2>8
  <2>4. PICK d \in {"claude", "fake", "sample"} : d = of("provenance")
    BY <1>3, <1>4
  <2>5. PICK e \in SUBSET Nat : e = of("looked")
    BY <1>3, <1>4
  <2>6. u = [features |-> a, review |-> b, condition |-> c, provenance |-> d, looked |-> e]
    BY <1>5, <2>1, <2>2, <2>3, <2>4, <2>5
  <2>7. [features |-> a, review |-> b, condition |-> c, provenance |-> d, looked |-> e] \in Analysis
    BY DEF Analysis, Points
  <2> QED BY <2>6, <2>7
<1>7. u.features = of("features")
  BY <1>5
<1>8. ASSUME now = read PROVE u = new
  <2>1. \A f \in Names : of(f) = new[f]
    BY <1>8 DEF of
  <2>2. new = [f \in Names |-> new[f]]
    BY <1>1 DEF Analysis
  <2> QED BY <1>2, <2>1, <2>2
<1> QED BY <1>3, <1>6, <1>7, <1>8 DEF u

\* A row that a step leaves alone stays sound.
LEMMA SameRow ==
  ASSUME NEW a, RowSound(a), row'[a] = row[a], a \in overtaken => a \in overtaken'
  PROVE  RowSound(a)'
BY DEF RowSound

\* What is saved, by a run or by a seed: the new analysis, or its mixture with a
\* row that had changed.
LEMMA SavedRow ==
  ASSUME Shape, NEW b, NEW read \in Row, NEW new \in Analysis, Saves(b, read, new),
         Range(new.features) \subseteq Shown(b), Explained(new),
         NEW a \in Addresses, RowSound(a)
  PROVE  RowSound(a)'
<1>1. /\ row' = [row EXCEPT ![b] = [state |-> "fresh", is |-> Updated(@.is, read.is, new)]]
      /\ overtaken' = IF row[b] = read THEN overtaken \ {b} ELSE overtaken \cup {b}
  BY DEF Saves
<1>2. CASE a # b
  <2>1. row'[a] = row[a] /\ (a \in overtaken => a \in overtaken')
    BY <1>1, <1>2 DEF Shape
  <2> QED BY <2>1, SameRow
<1>3. CASE a = b
  <2> DEFINE u == Updated(row[a].is, read.is, new)
  <2>1. row'[a] = [state |-> "fresh", is |-> u]
    BY <1>1, <1>3 DEF Shape
  <2>2. row[a].is \in Analysis /\ read.is \in Analysis
    BY DEF RowSound, Row
  <2>3. /\ u \in Analysis /\ u.features \in {row[a].is.features, new.features}
        /\ row[a].is = read.is => u = new
    BY <2>2, UpdatedFields
  <2>4. Range(row[a].is.features) \subseteq Shown(a)
    BY DEF RowSound
  <2>5. a \notin overtaken' => row[a] = read
    BY <1>1, <1>3
  <2> HIDE DEF u
  <2>6. row'[a] \in Row /\ row'[a].is = u
    BY <2>1, <2>3 DEF Row
  <2>7. Range(u.features) \subseteq Shown(a)
    BY <1>3, <2>3, <2>4
  <2>8. a \notin overtaken' => Explained(row'[a].is)
    BY <2>3, <2>5, <2>6
  <2> QED BY <2>6, <2>7, <2>8 DEF RowSound, Explained
<1> QED BY <1>2, <1>3

\* A run saves its answer.
LEMMA AnswerSaved ==
  ASSUME Shape, DataInv, NEW r \in Runs, Save(r), NEW a \in Addresses
  PROVE  RowSound(a)'
<1>1. RowSound(a) /\ RunSound(run[r])
  BY DEF DataInv
<1>2. CASE row' = row /\ overtaken' = overtaken
  BY <1>1, <1>2, SameRow
<1>3. CASE ~(row' = row /\ overtaken' = overtaken)
  <2> DEFINE b == AddressOf[run[r].listing]
  <2>1. run[r].pc = "answered" /\ Saves(b, run[r].existing, run[r].answer)
    BY <1>3 DEF Save
  <2>2. /\ run[r].existing \in Row /\ run[r].answer \in Analysis
        /\ Range(run[r].answer.features) \subseteq Shown(b) /\ Explained(run[r].answer)
    BY <1>1, <2>1 DEF RunSound, Run
  <2> HIDE DEF b
  <2> QED BY <1>1, <2>1, <2>2, SavedRow
<1> QED BY <1>2, <1>3

\* The findings of a sample.
LEMMA SampleSound ==
  ASSUME NEW l \in Listings
  PROVE  /\ SampleFeatures(l) \in Seq(Finding)
         /\ Range(SampleFeatures(l)) \subseteq Shown(AddressOf[l])
<1> DEFINE photo == IF Photos[l] = <<>> THEN "photo-1" ELSE Photos[l][1]
           of(confidence) == [kind |-> "feature", confidence |-> confidence, photo |-> photo]
<1>1. Photos[l] \in Seq(STRING)
  BY RepliesAssumption
<1>2. Photos[l] # <<>> => 1 \in DOMAIN Photos[l]
  BY <1>1
<1>3. photo \in PhotoIds /\ (photo \in Range(Photos[l]) \/ Photos[l] = <<>>)
  BY <1>2, PhotosCited DEF Range
<1> HIDE DEF photo
<1>4. \A c \in 60 .. 100 : of(c) \in Shown(AddressOf[l])
  <2> SUFFICES ASSUME NEW c \in 60 .. 100 PROVE of(c) \in Shown(AddressOf[l])
    OBVIOUS
  <2>1. c \in 0 .. 100 /\ c >= Threshold
    BY DEF Threshold
  <2>2. of(c) \in Finding
    BY <1>3, <2>1 DEF Finding
  <2>3. of(c).kind = "feature" /\ of(c).confidence = c /\ of(c).photo = photo
    OBVIOUS
  <2> HIDE DEF of
  <2> QED BY <1>3, <2>1, <2>2, <2>3 DEF Shown
<1>5. /\ of(86) \in Shown(AddressOf[l]) /\ of(80) \in Shown(AddressOf[l])
      /\ of(74) \in Shown(AddressOf[l])
  BY <1>4
<1>6. SampleFeatures(l) = <<of(86), of(80), of(74)>>
  BY DEF SampleFeatures, photo
<1> HIDE DEF of
<1>7. Shown(AddressOf[l]) \subseteq Finding
  BY DEF Shown
<1> QED BY <1>5, <1>6, <1>7 DEF Range

\* What is shown is no red flag.
LEMMA ShownFeatures == \A a : Shown(a) \subseteq Favourable
BY DEF Shown, Favourable

\* A sample is a sound analysis of its listing.
LEMMA SampleAnalysis ==
  ASSUME NEW l \in Listings
  PROVE  /\ Sample(l) \in Analysis /\ Explained(Sample(l))
         /\ Range(Sample(l).features) \subseteq Shown(AddressOf[l])
<1> DEFINE fs == SampleFeatures(l)
           c == ConditionOf(fs, <<>>)
           Points == 0 .. 1000
<1>1. fs \in Seq(Finding) /\ Range(fs) \subseteq Shown(AddressOf[l])
  BY SampleSound
<1> HIDE DEF fs
<1>2. <<>> \in Seq(Finding) /\ Range(fs) \subseteq Favourable
  BY <1>1, ShownFeatures
<1>3. c \in Points /\ Reasoned(fs, <<>>, c)
  BY <1>1, <1>2, ConditionFacts, ZenonT(40)
<1> HIDE DEF c
<1>4. \A x \in Points : [features |-> fs, review |-> <<>>, condition |-> x,
                         provenance |-> "sample", looked |-> {}] \in Analysis
  BY <1>1, <1>2 DEF Analysis
<1>5. Sample(l) = [features |-> fs, review |-> <<>>, condition |-> c,
                   provenance |-> "sample", looked |-> {}]
  BY DEF Sample, fs, c
<1> HIDE DEF Points
<1>6. Sample(l) \in Analysis
  BY <1>3, <1>4, <1>5
<1>7. Sample(l).features = fs /\ Sample(l).review = <<>> /\ Sample(l).condition = c
  BY <1>5
<1> QED BY <1>1, <1>3, <1>6, <1>7 DEF Explained

LEMMA SeededRow ==
  ASSUME Shape, DataInv, SeedSave, NEW a \in Addresses
  PROVE  RowSound(a)'
<1>1. RowSound(a) /\ seeding.existing \in Row
  BY DEF DataInv, TypeOK, Seeding
<1>2. CASE row' = row /\ overtaken' = overtaken
  BY <1>1, <1>2, SameRow
<1>3. CASE ~(row' = row /\ overtaken' = overtaken)
  <2> DEFINE l == seeding.listing
  <2>1. l \in Listings
    BY DEF SeedSave, DataInv, SeedSound, Addressed
  <2>2. Saves(AddressOf[l], seeding.existing, Sample(l))
    BY <1>3 DEF SeedSave
  <2> HIDE DEF l
  <2> QED BY <1>1, <2>1, <2>2, SampleAnalysis, SavedRow
<1> QED BY <1>2, <1>3

LEMMA StepRows == Shape /\ DataInv /\ [Next]_vars => \A a \in Addresses : RowSound(a)'
<1> SUFFICES ASSUME Shape, DataInv, [Next]_vars, NEW a \in Addresses PROVE RowSound(a)'
  OBVIOUS
<1>0. RowSound(a)
  BY DEF DataInv
<1>1. CASE row' = row /\ overtaken' = overtaken
  BY <1>0, <1>1, SameRow
<1>2. ASSUME NEW b \in Addresses, TtlPasses(b) PROVE RowSound(a)'
  <2>1. CASE a # b
    BY <1>0, <1>2, <2>1, SameRow DEF TtlPasses, Shape
  <2>2. CASE a = b
    <3>1. row'[a] = [row[a] EXCEPT !.state = "stale"] /\ row[a].state = "fresh" /\ overtaken' = overtaken
      BY <1>2, <2>2 DEF TtlPasses, Shape
    <3>2. row'[a] \in Row /\ row'[a].is = row[a].is
      BY <1>0, <3>1 DEF RowSound, Row
    <3> QED BY <1>0, <3>1, <3>2 DEF RowSound, Explained
  <2> QED BY <2>1, <2>2
<1>3. ASSUME NEW r \in Runs, Start(r) \/ RpcFails(r) \/ Kill(r) \/ Finish(r)
             \/ \E l \in Listings : Skip(r, l) \/ Ask(r, l)
      PROVE  row' = row /\ overtaken' = overtaken
  BY <1>3 DEF Start, RpcFails, Kill, HangUp, Finish, Skip, Ask, rails
<1>4. ASSUME NEW w \in Workers, Work(w) \/ \E r \in Runs : Serve(w, r)
      PROVE  row' = row /\ overtaken' = overtaken
  BY <1>4 DEF Work, Pass, Send, TransportFails, Garbled, Reply, Answered, Serve, rails
<1>5. ASSUME UNCHANGED vars \/ CooldownPasses \/ \E l \in Listings : SeedFind(l)
      PROVE  row' = row /\ overtaken' = overtaken
  BY <1>5 DEF vars, CooldownPasses, SeedFind
<1> QED BY <1>1, <1>2, <1>3, <1>4, <1>5, AnswerSaved, SeededRow DEF Next, Progress, RunStep

LEMMA SameRun ==
  ASSUME NEW q \in Runs, RunSound(run[q]), run'[q] = run[q]
  PROVE  RunSound(run'[q])
BY DEF RunSound

LEMMA StepRuns ==
  VisionInv /\ DataInv /\ [Next]_vars => \A q \in Runs : RunSound(run'[q])
<1> SUFFICES ASSUME VisionInv, DataInv, [Next]_vars, NEW q \in Runs PROVE RunSound(run'[q])
  OBVIOUS
<1>0. RunSound(run[q]) /\ run[q] \in Run /\ Shape /\ Served
  BY DEF DataInv, RunSound, VisionInv
<1>1. CASE run'[q] = run[q]
  BY <1>0, <1>1, SameRun
<1>2. ASSUME NEW r \in Runs, Start(r) PROVE RunSound(run'[q])
  <2>1. CASE r # q
    BY <1>0, <1>1, <1>2, <2>1 DEF Start, Shape
  <2>2. CASE r = q
    <3>1. run'[q] = [run[q] EXCEPT !.pc = "next", !.todo = Addressed]
      BY <1>0, <1>2, <2>2 DEF Start, Shape, Addressed
    <3>2. Addressed \in SUBSET Listings
      BY DEF Addressed
    <3>3. run'[q] \in Run
      BY <1>0, <3>1, <3>2, Zenon DEF Run
    <3>4. run'[q].pc = "next" /\ run'[q].todo = Addressed
      BY <1>0, <3>1 DEF Run
    <3> QED BY <3>3, <3>4 DEF RunSound, Asking
  <2> QED BY <2>1, <2>2
<1>3. ASSUME NEW r \in Runs, NEW l \in Listings, Skip(r, l) PROVE RunSound(run'[q])
  <2>1. CASE r # q
    BY <1>0, <1>1, <1>3, <2>1 DEF Skip, Shape
  <2>2. CASE r = q
    <3>1. run'[q] = [run[q] EXCEPT !.todo = @ \ {l}]
      BY <1>0, <1>3, <2>2 DEF Skip, Shape
    <3>2. run'[q] \in Run
      BY <1>0, <3>1 DEF Run
    <3>3. /\ run'[q].pc = run[q].pc /\ run'[q].todo \subseteq run[q].todo
          /\ run'[q].listing = run[q].listing /\ run'[q].answer = run[q].answer
      BY <1>0, <3>1 DEF Run
    <3> QED BY <1>0, <3>2, <3>3 DEF RunSound
  <2> QED BY <2>1, <2>2
<1>4. ASSUME NEW r \in Runs, NEW l \in Listings, Ask(r, l) PROVE RunSound(run'[q])
  <2>1. CASE r # q
    BY <1>0, <1>1, <1>4, <2>1 DEF Ask, Shape
  <2>2. CASE r = q
    <3>1. /\ run'[q] = [run[q] EXCEPT !.pc = "waiting", !.listing = l, !.todo = @ \ {l},
                                      !.existing = row[AddressOf[l]]]
          /\ l \in run[q].todo
      BY <1>0, <1>4, <2>2 DEF Ask, Shape
    <3>2. l \in Addressed
      BY <1>0, <3>1 DEF RunSound
    <3>3. AddressOf[l] \in Addresses
      BY <3>2, ListingsAssumption DEF Addressed
    <3>4. row[AddressOf[l]] \in Row
      BY <3>3 DEF DataInv, TypeOK
    <3>5. run'[q] \in Run
      <4>1. run[q].todo \ {l} \in SUBSET Listings
        BY <1>0 DEF Run
      <4> QED BY <1>0, <3>1, <3>4, <4>1, Zenon DEF Run
    <3>6. /\ run'[q].pc = "waiting" /\ run'[q].todo \subseteq run[q].todo
          /\ run'[q].listing = l
      BY <1>0, <3>1 DEF Run
    <3> QED BY <1>0, <3>2, <3>5, <3>6 DEF RunSound
  <2> QED BY <2>1, <2>2
<1>5. ASSUME NEW r \in Runs, RpcFails(r) PROVE RunSound(run'[q])
  <2>1. CASE r # q
    BY <1>0, <1>1, <1>5, <2>1 DEF RpcFails, Shape
  <2>2. CASE r = q
    <3> DEFINE x == Between(run[q])
    <3>1. run'[q] = [x EXCEPT !.paid = @ \ {run[q].listing}]
      BY <1>0, <1>5, <2>2 DEF RpcFails, Shape
    <3>2. RunSound(x) /\ x.pc = "next"
      BY <1>0, BetweenSound, BetweenShape DEF Shape
    <3> HIDE DEF x
    <3>3. run'[q] \in Run /\ run'[q].pc = "next" /\ run'[q].todo = x.todo
      BY <3>1, <3>2 DEF RunSound, Run
    <3> QED BY <3>2, <3>3 DEF RunSound, Asking
  <2> QED BY <2>1, <2>2
<1>6. ASSUME NEW r \in Runs, Save(r) PROVE RunSound(run'[q])
  <2>1. CASE r # q
    BY <1>0, <1>1, <1>6, <2>1 DEF Save, Shape
  <2>2. CASE r = q
    <3> DEFINE x == Between(run[q])
    <3>1. run'[q] = Over \/ run'[q] = [x EXCEPT !.analyzed = @ + 1]
      BY <1>0, <1>6, <2>2 DEF Save, Shape, Counted
    <3>2. RunSound(x) /\ x.pc = "next"
      BY <1>0, BetweenSound, BetweenShape DEF Shape
    <3> HIDE DEF x
    <3>3. ASSUME run'[q] = [x EXCEPT !.analyzed = @ + 1]
          PROVE  run'[q] \in Run /\ run'[q].pc = "next" /\ run'[q].todo = x.todo
      BY <3>2, <3>3 DEF RunSound, Run
    <3> QED BY <3>1, <3>2, <3>3, NewSound DEF RunSound, Asking
  <2> QED BY <2>1, <2>2
<1>7. ASSUME NEW r \in Runs, Finish(r) \/ Kill(r) PROVE RunSound(run'[q])
  BY <1>0, <1>1, <1>7, NewSound DEF Finish, Kill, Shape
<1>8. ASSUME NEW w \in Workers, NEW r \in Runs, Serve(w, r) PROVE RunSound(run'[q])
  <2>1. CASE r # q
    BY <1>0, <1>1, <1>8, <2>1 DEF Serve, Shape
  <2>2. CASE r = q
    <3>1. run'[q] = [run[q] EXCEPT !.pc = "served"] /\ run[q].pc = "waiting"
      BY <1>0, <1>8, <2>2 DEF Serve, Shape
    <3>2. run'[q] \in Run
      BY <1>0, <3>1, Zenon DEF Run
    <3>3. /\ run'[q].pc = "served" /\ run'[q].todo = run[q].todo
          /\ run'[q].listing = run[q].listing
      BY <1>0, <3>1 DEF Run
    <3> QED BY <1>0, <3>1, <3>2, <3>3 DEF RunSound, Asking
  <2> QED BY <2>1, <2>2
<1>9. ASSUME NEW w \in Workers, Send(w) PROVE RunSound(run'[q])
  <2>1. CASE q # worker[w].client
    BY <1>1, <1>9, <2>1 DEF Send
  <2>2. CASE q = worker[w].client
    <3>1. run'[q] = [run[q] EXCEPT !.paid = @ \cup {worker[w].listing}] /\ worker[w].pc = "look"
      BY <1>9, <2>2 DEF Send
    <3>2. worker[w].listing \in Listings
      BY <3>1 DEF DataInv, WorkerSound, Addressed
    <3>3. run'[q] \in Run
      <4>1. run[q].paid \cup {worker[w].listing} \in SUBSET Listings
        BY <1>0, <3>2 DEF Run
      <4> QED BY <1>0, <3>1, <4>1, Zenon DEF Run
    <3>4. /\ run'[q].pc = run[q].pc /\ run'[q].todo = run[q].todo
          /\ run'[q].listing = run[q].listing /\ run'[q].answer = run[q].answer
      BY <1>0, <3>1 DEF Run
    <3> QED BY <1>0, <3>3, <3>4 DEF RunSound
  <2> QED BY <2>1, <2>2
<1>10. ASSUME NEW w \in Workers, Reply(w) PROVE RunSound(run'[q])
  <2>1. CASE q # worker[w].client
    BY <1>0, <1>1, <1>10, <2>1 DEF Reply, Shape
  <2>2. CASE q = worker[w].client
    <3> DEFINE x == worker[w]
               is == [features |-> x.features, review |-> x.review,
                      condition |-> ConditionOf(x.features, x.review),
                      provenance |-> Provenance, looked |-> x.looked]
               a == AddressOf[x.listing]
    <3>1. x.client # Nobody /\ run[q].pc = "served" /\ x.listing = run[q].listing
      BY <1>0, <2>2, NobodyIsNoRun DEF Served
    <3>2. run'[q] = [run[q] EXCEPT !.pc = "answered", !.answer = is]
      BY <1>0, <1>10, <2>2, <3>1 DEF Reply, Shape
    <3>3. x \in Worker /\ Range(x.features) \subseteq Shown(a)
      BY DEF DataInv, WorkerSound
    <3>4. x.features \in Seq(Finding) /\ x.review \in Seq(Finding) /\ x.looked \in SUBSET Nat
      BY <3>3 DEF Worker
    <3>5. Range(x.features) \subseteq Favourable
      BY <3>3, ShownFeatures
    <3>6. Provenance \in {"claude", "fake", "sample"}
      BY DEF Provenance
    <3> HIDE DEF x
    <3>7. /\ ConditionOf(x.features, x.review) \in 0 .. 1000
          /\ Reasoned(x.features, x.review, ConditionOf(x.features, x.review))
      BY <3>4, <3>5, ConditionFacts, ZenonT(40)
    <3>8. is.features = x.features /\ is.review = x.review
          /\ is.condition = ConditionOf(x.features, x.review)
      OBVIOUS
    <3>9. is \in Analysis
      BY <3>4, <3>6, <3>7, ZenonT(40) DEF Analysis
    <3> HIDE DEF is
    <3>10. Explained(is)
      BY <3>7, <3>8 DEF Explained
    <3>11. run'[q] \in Run
      BY <1>0, <3>2, <3>9, Zenon DEF Run
    <3>12. /\ run'[q].pc = "answered" /\ run'[q].todo = run[q].todo
           /\ run'[q].listing = run[q].listing /\ run'[q].answer = is
      BY <1>0, <3>2 DEF Run
    <3> QED BY <1>0, <3>1, <3>3, <3>8, <3>10, <3>11, <3>12 DEF RunSound, Asking
  <2> QED BY <2>1, <2>2
<1>11. ASSUME NEW w \in Workers,
             Pass(w) \/ TransportFails(w) \/ Garbled(w) \/ \E raws \in Replies : Answered(w, raws)
      PROVE  run' = run
  BY <1>11 DEF Pass, TransportFails, Garbled, Answered
<1>12. ASSUME UNCHANGED vars \/ CooldownPasses \/ (\E a \in Addresses : TtlPasses(a))
             \/ SeedSave \/ (\E l \in Listings : SeedFind(l))
      PROVE  run' = run
  BY <1>12 DEF vars, CooldownPasses, TtlPasses, SeedFind, SeedSave
<1> QED BY <1>1, <1>2, <1>3, <1>4, <1>5, <1>6, <1>7, <1>8, <1>9, <1>10, <1>11, <1>12
        DEF Next, Progress, RunStep, Work

LEMMA SameWorker ==
  ASSUME NEW w \in Workers, WorkerSound(worker[w]), worker'[w] = worker[w]
  PROVE  WorkerSound(worker'[w])
BY DEF WorkerSound

\* What an answer adds to a thread's findings may be shown where it works.
LEMMA AnsweredSound ==
  ASSUME NEW x, WorkerSound(x), x.pc = "sent", NEW raws \in Replies,
         NEW found, found = Coerce(raws, Photos[x.listing][x.photo]),
         NEW doubtful, doubtful = {f \in Range(found) : ToReview(f)}
  PROVE  WorkerSound([Passed(x) EXCEPT !.features = @ \o Only(found, Range(found) \ doubtful),
                                       !.review = @ \o Only(found, doubtful),
                                       !.looked = @ \cup {x.photo}])
<1> DEFINE y == Passed(x)
           features == y.features \o Only(found, Range(found) \ doubtful)
           review == y.review \o Only(found, doubtful)
           looked == y.looked \cup {x.photo}
           a == AddressOf[x.listing]
           z == [y EXCEPT !.features = features, !.review = review, !.looked = looked]
<1>1. /\ WorkerSound(y) /\ y.features = x.features /\ y.review = x.review
      /\ y.looked = x.looked /\ y.listing = x.listing
  BY PassedSound
<1>2. x.listing \in Listings /\ x.photo \in Nat \ {0}
  BY DEF WorkerSound, Addressed
<1>3. Photos[x.listing] \in Seq(STRING)
  BY <1>2, RepliesAssumption
<1>4. x.photo \in DOMAIN Photos[x.listing]
  <2>1. x.photo <= Len(Photos[x.listing])
    BY DEF WorkerSound
  <2> QED BY <1>2, <1>3, <2>1
<1>5. PICK photo \in PhotoIds : photo = Photos[x.listing][x.photo] /\ photo \in Range(Photos[x.listing])
  BY <1>2, <1>4, PhotosCited DEF Range
<1>6. found \in Seq(Finding) /\ \A f \in Range(found) : f.photo = photo
  BY <1>5, Coerced
<1>7. PICK T : T = Range(found) \ doubtful
  OBVIOUS
<1>8. /\ Only(found, T) \in Seq(Finding) /\ Range(Only(found, T)) \subseteq T
      /\ Only(found, doubtful) \in Seq(Finding)
  BY <1>6, Kept
<1>9. T \subseteq Shown(a)
  <2> SUFFICES ASSUME NEW f \in T PROVE f \in Shown(a)
    OBVIOUS
  <2>1. f \in Range(found) /\ ~ToReview(f)
    BY <1>7
  <2>2. f \in Finding
    BY <1>6, <2>1 DEF Range
  <2>3. f.kind \in {"feature", "red_flag"} /\ f.confidence \in Nat
    BY <2>2, FindingFields
  <2>4. f.kind = "feature" /\ f.confidence >= Threshold
    BY <2>1, <2>3 DEF ToReview, Threshold
  <2>5. f.photo \in Range(Photos[x.listing])
    BY <1>5, <1>6, <2>1
  <2> QED BY <1>2, <2>2, <2>4, <2>5 DEF Shown
<1> HIDE DEF y
<1>10. y \in Worker /\ y.features \in Seq(Finding) /\ y.review \in Seq(Finding) /\ y.looked \in SUBSET Nat
  BY <1>1 DEF WorkerSound, Worker
<1>11. features \in Seq(Finding) /\ Range(features) \subseteq Shown(a)
  <2>1. PICK p \in Seq(Finding), q \in Seq(Finding) : p = y.features /\ q = Only(found, T)
    BY <1>8, <1>10
  <2>2. p \o q \in Seq(Finding) /\ Range(p \o q) = Range(p) \cup Range(q)
    BY ConcatRange
  <2>4. features = p \o q
    BY <1>7, <2>1
  <2>3. Range(y.features) \subseteq Shown(a)
    BY <1>1 DEF WorkerSound
  <2> QED BY <1>8, <1>9, <2>1, <2>2, <2>3, <2>4
<1>12. review \in Seq(Finding)
  BY <1>8, <1>10, ConcatRange
<1>13. looked \in SUBSET Nat
  BY <1>2, <1>10
<1> HIDE DEF features, review, looked
<1>14. z \in Worker
  BY <1>10, <1>11, <1>12, <1>13, Zenon DEF Worker
<1>15. z.features = features /\ z.listing = y.listing /\ z.pc = y.pc /\ z.photo = y.photo
  BY <1>10 DEF Worker
<1>16. WorkerSound(z)
  <2> HIDE DEF z
  <2> QED BY <1>1, <1>11, <1>14, <1>15 DEF WorkerSound
<1> QED BY <1>16 DEF z, features, review, looked, y

LEMMA StepWorkers ==
  VisionInv /\ DataInv /\ [Next]_vars => \A v \in Workers : WorkerSound(worker'[v])
<1> SUFFICES ASSUME VisionInv, DataInv, [Next]_vars, NEW v \in Workers PROVE WorkerSound(worker'[v])
  OBVIOUS
<1>0. WorkerSound(worker[v]) /\ worker[v] \in Worker /\ Shape
  BY DEF DataInv, WorkerSound, VisionInv
<1>1. CASE worker'[v] = worker[v]
  BY <1>0, <1>1, SameWorker
<1>2. ASSUME NEW r \in Runs, RpcFails(r) \/ Kill(r) PROVE WorkerSound(worker'[v])
  <2> DEFINE u == [worker[v] EXCEPT !.client = Nobody, !.features = <<>>, !.review = <<>>, !.looked = {}]
  <2>1. worker'[v] = worker[v] \/ worker'[v] = u
    BY <1>2 DEF RpcFails, Kill, HangUp
  <2>2. <<>> \in Seq(Finding) /\ Range(<<>>) = {}
    BY DEF Range
  <2>3. u \in Worker
    BY <1>0, <2>2, Zenon DEF Worker
  <2>4. /\ u.features = <<>> /\ u.pc = worker[v].pc /\ u.listing = worker[v].listing
        /\ u.photo = worker[v].photo
    BY <1>0 DEF Worker
  <2>5. WorkerSound(u)
    <3> HIDE DEF u
    <3> QED BY <1>0, <2>2, <2>3, <2>4 DEF WorkerSound
  <2> HIDE DEF u
  <2> QED BY <1>1, <2>1, <2>5
<1>3. ASSUME NEW w \in Workers, NEW r \in Runs, Serve(w, r) PROVE WorkerSound(worker'[v])
  <2>1. CASE v # w
    BY <1>0, <1>1, <1>3, <2>1 DEF Serve, Shape
  <2>2. CASE v = w
    <3> DEFINE u == [Idle EXCEPT !.pc = "look", !.client = r, !.listing = run[r].listing]
    <3>1. worker'[v] = u /\ run[r].pc = "waiting"
      BY <1>0, <1>3, <2>2 DEF Serve, Shape
    <3>2. run[r].listing \in Addressed
      BY <3>1 DEF DataInv, RunSound, Asking
    <3>3. Idle \in Worker /\ Idle.features = <<>> /\ Idle.photo = 1 /\ Range(<<>>) = {}
      BY NewSound DEF WorkerSound, Idle, Range
    <3>4. run[r].listing \in Listings
      BY <3>2 DEF Addressed
    <3>5. u \in Worker
      BY <3>3, <3>4, Zenon DEF Worker
    <3>6. u.features = <<>> /\ u.listing = run[r].listing /\ u.photo = 1 /\ u.pc = "look"
      BY <3>3 DEF Worker
    <3> HIDE DEF u
    <3> QED BY <3>1, <3>2, <3>3, <3>5, <3>6 DEF WorkerSound
  <2> QED BY <2>1, <2>2
<1>4. ASSUME NEW w \in Workers, Pass(w) \/ TransportFails(w) \/ Garbled(w) PROVE WorkerSound(worker'[v])
  <2>1. worker' = [worker EXCEPT ![w] = Passed(worker[w])] /\ worker[w].pc # "idle"
    BY <1>4 DEF Pass, TransportFails, Garbled
  <2>2. CASE v # w
    BY <1>0, <1>1, <2>1, <2>2 DEF Shape
  <2>3. CASE v = w
    <3>1. worker'[v] = Passed(worker[v])
      BY <1>0, <2>1, <2>3 DEF Shape
    <3> QED BY <1>0, <2>1, <2>3, <3>1, PassedSound
  <2> QED BY <2>2, <2>3
<1>5. ASSUME NEW w \in Workers, Send(w) PROVE WorkerSound(worker'[v])
  <2>1. CASE v # w
    BY <1>0, <1>1, <1>5, <2>1 DEF Send, Shape
  <2>2. CASE v = w
    <3>1. worker'[v] = [worker[v] EXCEPT !.pc = "sent"] /\ worker[v].pc = "look"
      BY <1>0, <1>5, <2>2 DEF Send, Shape
    <3>2. worker'[v] \in Worker
      BY <1>0, <3>1, Zenon DEF Worker
    <3>3. /\ worker'[v].features = worker[v].features /\ worker'[v].listing = worker[v].listing
          /\ worker'[v].photo = worker[v].photo
      BY <1>0, <3>1 DEF Worker
    <3>4. worker[v].photo <= Len(Photos[worker[v].listing])
      BY <1>5, <2>2 DEF Send, Left
    <3> QED BY <1>0, <3>1, <3>2, <3>3, <3>4 DEF WorkerSound
  <2> QED BY <2>1, <2>2
<1>6. ASSUME NEW w \in Workers, Reply(w) PROVE WorkerSound(worker'[v])
  BY <1>0, <1>1, <1>6, NewSound DEF Reply, Shape
<1>7. ASSUME NEW w \in Workers, NEW raws \in Replies, Answered(w, raws) PROVE WorkerSound(worker'[v])
  <2>1. CASE v # w
    BY <1>0, <1>1, <1>7, <2>1 DEF Answered, Shape
  <2>2. CASE v = w
    <3> DEFINE found == Coerce(raws, Photos[worker[v].listing][worker[v].photo])
               doubtful == {f \in Range(found) : ToReview(f)}
    <3>1. worker[v].pc = "sent"
      BY <1>7, <2>2 DEF Answered
    <3>2. \/ worker'[v] = Passed(worker[v])
          \/ worker'[v] = [Passed(worker[v]) EXCEPT
               !.features = @ \o Only(found, Range(found) \ doubtful),
               !.review = @ \o Only(found, doubtful), !.looked = @ \cup {worker[v].photo}]
      BY <1>0, <1>7, <2>2 DEF Answered, Shape
    <3>3. PICK fs, ds : fs = found /\ ds = doubtful
      OBVIOUS
    <3>4. fs = Coerce(raws, Photos[worker[v].listing][worker[v].photo]) /\ ds = {f \in Range(fs) : ToReview(f)}
      BY <3>3
    <3>5. WorkerSound(Passed(worker[v]))
      BY <1>0, <3>1, PassedSound
    <3>6. WorkerSound([Passed(worker[v]) EXCEPT
               !.features = @ \o Only(fs, Range(fs) \ ds),
               !.review = @ \o Only(fs, ds), !.looked = @ \cup {worker[v].photo}])
      BY <1>0, <3>1, <3>4, AnsweredSound
    <3> HIDE DEF found, doubtful
    <3> QED BY <3>2, <3>3, <3>5, <3>6
  <2> QED BY <2>1, <2>2
<1>8. ASSUME NEW r \in Runs, Start(r) \/ RunStep(r) PROVE worker' = worker
  BY <1>8 DEF Start, RunStep, Skip, Ask, Save, Finish
<1>9. ASSUME UNCHANGED vars \/ CooldownPasses \/ (\E a \in Addresses : TtlPasses(a))
             \/ SeedSave \/ (\E l \in Listings : SeedFind(l))
      PROVE  worker' = worker
  BY <1>9 DEF vars, CooldownPasses, TtlPasses, SeedFind, SeedSave
<1> QED BY <1>1, <1>2, <1>3, <1>4, <1>5, <1>6, <1>7, <1>8, <1>9 DEF Next, Progress, Work

LEMMA InitData == Init => DataInv
<1> SUFFICES ASSUME Init PROVE DataInv
  OBVIOUS
<1>1. \A a \in Addresses : RowSound(a)
  BY NewSound DEF Init, RowSound, Range
<1>2. (\A r \in Runs : RunSound(run[r])) /\ (\A w \in Workers : WorkerSound(worker[w]))
  BY NewSound DEF Init
<1>3. TypeOK
  <2>1. 0 \in 0 .. MaxEvents /\ 0 \in Nat
    BY BoundsAssumption
  <2>2. NoRow \in Row /\ NewRun \in Run /\ Idle \in Worker
    BY NewSound DEF RunSound, WorkerSound
  <2>3. row \in [Addresses -> Row] /\ run \in [Runs -> Run] /\ worker \in [Workers -> Worker]
    BY <2>2 DEF Init
  <2>4. seeding \in Seeding
    BY <2>2, Zenon DEF Init, Seeding, NoSeeding
  <2> QED BY <2>1, <2>3, <2>4, Zenon DEF Init, TypeOK
<1>4. SeedSound
  BY DEF Init, NoSeeding, SeedSound
<1> QED BY <1>1, <1>2, <1>3, <1>4 DEF DataInv

LEMMA StepEvents ==
  VisionInv /\ DataInv /\ [Next]_vars =>
    cooling' \in BOOLEAN /\ events' \in 0 .. MaxEvents /\ overtaken' \subseteq Addresses
<1> SUFFICES ASSUME VisionInv, DataInv, [Next]_vars
             PROVE  cooling' \in BOOLEAN /\ events' \in 0 .. MaxEvents /\ overtaken' \subseteq Addresses
  OBVIOUS
<1>0. cooling \in BOOLEAN /\ events \in 0 .. MaxEvents /\ overtaken \subseteq Addresses
  BY DEF DataInv, TypeOK
<1> DEFINE Counts == events < MaxEvents /\ events' = events + 1
<1>counts. Counts => events' \in 0 .. MaxEvents
  <2>1. events \in 0 .. MaxEvents /\ MaxEvents \in Nat
    BY <1>0, BoundsAssumption
  <2> QED BY <2>1
<1>1. ASSUME NEW r \in Runs, RpcFails(r) \/ Kill(r)
      PROVE  events' \in 0 .. MaxEvents /\ UNCHANGED <<cooling, overtaken>>
  <2>1. Counts /\ UNCHANGED <<cooling, overtaken>>
    BY <1>1 DEF RpcFails, Kill, HangUp
  <2> QED BY <1>counts, <2>1
<1>2. CASE CooldownPasses
  <2>1. Counts /\ cooling' = FALSE /\ overtaken' = overtaken
    BY <1>2, Zenon DEF CooldownPasses
  <2> HIDE DEF Counts
  <2> QED BY <1>0, <1>counts, <2>1, Zenon
<1>3. ASSUME NEW a \in Addresses, TtlPasses(a)
      PROVE  events' \in 0 .. MaxEvents /\ UNCHANGED <<cooling, overtaken>>
  <2>1. Counts /\ UNCHANGED <<cooling, overtaken>>
    BY <1>3 DEF TtlPasses
  <2> QED BY <1>counts, <2>1
<1>4. CASE SeedSave
  <2>1. seeding.listing \in Addressed /\ UNCHANGED <<cooling, events>>
    BY <1>4 DEF SeedSave, DataInv, SeedSound
  <2>2. AddressOf[seeding.listing] \in Addresses
    BY <2>1, ListingsAssumption DEF Addressed
  <2>3. overtaken' \subseteq Addresses
    BY <1>0, <1>4, <2>2 DEF SeedSave, Saves
  <2> QED BY <1>0, <2>1, <2>3
<1>find. ASSUME NEW l \in Listings, SeedFind(l)
         PROVE  events' \in 0 .. MaxEvents /\ UNCHANGED <<cooling, overtaken>>
  <2>1. Counts /\ UNCHANGED <<cooling, overtaken>>
    BY <1>find DEF SeedFind
  <2> QED BY <1>counts, <2>1
<1>5. ASSUME NEW r \in Runs, Save(r)
      PROVE  overtaken' \subseteq Addresses /\ UNCHANGED <<cooling, events>>
  <2>1. run[r].pc = "answered" /\ run[r].listing \in Addressed
    BY <1>5 DEF Save, DataInv, RunSound, Asking
  <2>2. AddressOf[run[r].listing] \in Addresses
    BY <2>1, ListingsAssumption DEF Addressed
  <2> QED BY <1>0, <1>5, <2>2 DEF Save, Saves
<1>6. ASSUME NEW r \in Runs, Start(r) \/ Finish(r) \/ \E l \in Listings : Skip(r, l) \/ Ask(r, l)
      PROVE  UNCHANGED <<cooling, overtaken, events>>
  BY <1>6 DEF Start, Finish, Skip, Ask, rails
<1>7. ASSUME NEW w \in Workers, Work(w) \/ \E r \in Runs : Serve(w, r)
      PROVE  cooling' \in {TRUE, cooling} /\ UNCHANGED <<overtaken, events>>
  <2>1. CASE Pass(w) \/ Send(w) \/ TransportFails(w) \/ Garbled(w)
    BY <2>1 DEF Pass, Send, TransportFails, Garbled, rails
  <2>2. CASE Reply(w)
    BY <2>2 DEF Reply, rails
  <2>3. CASE \E raws \in Replies : Answered(w, raws)
    BY <2>3 DEF Answered, rails
  <2>4. CASE \E r \in Runs : Serve(w, r)
    BY <2>4 DEF Serve, rails
  <2> QED BY <1>7, <2>1, <2>2, <2>3, <2>4 DEF Work
<1>8. CASE UNCHANGED vars
  BY <1>0, <1>8 DEF vars
<1> QED BY <1>0, <1>1, <1>2, <1>3, <1>4, <1>find, <1>5, <1>6, <1>7, <1>8
        DEF Next, Progress, RunStep

LEMMA StepSeeding ==
  DataInv /\ [Next]_vars => seeding' \in Seeding /\ SeedSound'
<1> SUFFICES ASSUME DataInv, [Next]_vars PROVE seeding' \in Seeding /\ SeedSound'
  OBVIOUS
<1>0. seeding \in Seeding /\ SeedSound
  BY DEF DataInv, TypeOK
<1>1. CASE seeding' = seeding
  BY <1>0, <1>1 DEF SeedSound
<1>2. ASSUME NEW l \in Listings, SeedFind(l) PROVE seeding' \in Seeding /\ SeedSound'
  <2>1. l \in Addressed /\ AddressOf[l] \in Addresses
    BY <1>2, ListingsAssumption DEF SeedFind, Addressed
  <2>2. row[AddressOf[l]] \in Row
    BY <2>1 DEF DataInv, TypeOK
  <2>3. seeding' = [listing |-> l, existing |-> row[AddressOf[l]]]
    BY <1>2 DEF SeedFind
  <2> QED BY <2>1, <2>2, <2>3 DEF Seeding, SeedSound
<1>3. CASE SeedSave
  <2>1. seeding' = [listing |-> NoListing, existing |-> NoRow]
    BY <1>3 DEF SeedSave, NoSeeding
  <2> QED BY <2>1, NewSound DEF Seeding, SeedSound
<1>4. ASSUME NEW r \in Runs, Start(r) \/ RpcFails(r) \/ Kill(r) \/ RunStep(r) PROVE seeding' = seeding
  BY <1>4 DEF Start, RpcFails, Kill, HangUp, RunStep, Skip, Ask, Save, Finish, rails
<1>5. ASSUME NEW w \in Workers, Work(w) \/ \E r \in Runs : Serve(w, r) PROVE seeding' = seeding
  <2>1. CASE Pass(w) \/ Send(w) \/ TransportFails(w) \/ Garbled(w)
    BY <2>1 DEF Pass, Send, TransportFails, Garbled, rails
  <2>2. CASE Reply(w)
    BY <2>2 DEF Reply, rails
  <2>3. CASE \E raws \in Replies : Answered(w, raws)
    BY <2>3 DEF Answered, rails
  <2>4. CASE \E r \in Runs : Serve(w, r)
    BY <2>4 DEF Serve, rails
  <2> QED BY <1>5, <2>1, <2>2, <2>3, <2>4 DEF Work
<1>6. ASSUME UNCHANGED vars \/ CooldownPasses \/ \E a \in Addresses : TtlPasses(a)
      PROVE  seeding' = seeding
  BY <1>6 DEF vars, CooldownPasses, TtlPasses
<1> QED BY <1>1, <1>2, <1>3, <1>4, <1>5, <1>6 DEF Next, Progress

\* The inductive invariant of the data: whatever overlaps, is lost or killed, the
\* findings on their way to a row may be shown at its address, and a condition
\* travels with the findings it was computed from.
THEOREM DataInvariant == Spec => []DataInv
<1>1. VisionInv /\ VisionInv' /\ DataInv /\ [Next]_vars => DataInv'
  <2> SUFFICES ASSUME VisionInv, VisionInv', DataInv, [Next]_vars PROVE DataInv'
    OBVIOUS
  <2>1. \A a \in Addresses : RowSound(a)'
    BY StepRows DEF VisionInv
  <2>2. \A r \in Runs : RunSound(run'[r])
    BY StepRuns
  <2>3. \A w \in Workers : WorkerSound(worker'[w])
    BY StepWorkers
  <2>4. row' \in [Addresses -> Row]
    BY <2>1 DEF RowSound, VisionInv, Shape
  <2>5. run' \in [Runs -> Run]
    BY <2>2 DEF RunSound, VisionInv, Shape
  <2>6. worker' \in [Workers -> Worker]
    BY <2>3 DEF WorkerSound, VisionInv, Shape
  <2>7. failures' \in Nat
    BY DEF VisionInv, Breaker
  <2>8. TypeOK'
    BY <2>4, <2>5, <2>6, <2>7, StepEvents, StepSeeding DEF TypeOK
  <2> QED BY <2>1, <2>2, <2>3, <2>8, StepSeeding DEF DataInv, RunSound, WorkerSound
<1> QED BY InitData, <1>1, VisionInvariant, PTL DEF Spec

\* TypeOK: conditions are thousandths and findings valid in every row, answer
\* and thread.
THEOREM TypeCorrect == Spec => []TypeOK
BY DataInvariant, PTL DEF DataInv

\* BuyerSafe: no red flag, nothing weak and no other home's photo reaches a buyer.
THEOREM BuyersAlwaysSafe == Spec => []BuyerSafe
<1>1. DataInv => BuyerSafe
  <2> SUFFICES ASSUME DataInv, NEW a \in Addresses, NEW i \in DOMAIN row[a].is.features
               PROVE  LET f == row[a].is.features[i]
                      IN /\ f.kind = "feature" /\ f.confidence >= Threshold
                         /\ \E l \in Listings : /\ AddressOf[l] = a
                                               /\ \/ \E n \in DOMAIN Photos[l] : f.photo = Photos[l][n]
                                                  \/ Photos[l] = <<>>
    BY DEF BuyerSafe
  <2>1. row[a].is.features[i] \in Shown(a)
    BY DEF DataInv, RowSound, Range
  <2> QED BY <2>1 DEF Shown, Range
<1> QED BY DataInvariant, <1>1, PTL

\* RowWhole: a condition and its reasons stay on one row, unless a run saved over
\* a row that had changed since it was read.
THEOREM RowsStayWhole == Spec => []RowWhole
<1>1. DataInv => RowWhole
  BY DEF DataInv, RowSound, Explained, Reasoned, RowWhole
<1> QED BY DataInvariant, <1>1, PTL
-----------------------------------------------------------------------------
(* The valuation.                                                          *)

\* ConditionHonoured: whatever is on the row reaches the valuation as it is, the
\* worst condition too, and nothing but its absence is imputed.
THEOREM ConditionsHonoured == Spec => []ConditionHonoured
<1>1. TypeOK => ConditionHonoured
  <2> SUFFICES ASSUME TypeOK, NEW a \in Addresses \cap Known, NEW p \in Predictions
               PROVE  LET v == GetValuation(a, {}, p)
                      IN IF row[a].state = "none" THEN v.source = "derived"
                         ELSE v.source = "record" /\ v.condition = row[a].is.condition
    BY DEF ConditionHonoured
  <2> DEFINE given == RecordCondition(FeatureCondition(BuildFeatures(PhotoCondition(a))))
  <2>1. GetValuation(a, {}, p) = ValueRecord(given, Sqft[a], {}, p)
    BY DEF GetValuation
  <2>2. CASE row[a].state = "none"
    <3>1. given = None
      BY <2>2 DEF PhotoCondition, BuildFeatures, FeatureCondition, RecordCondition
    <3> HIDE DEF given
    <3> QED BY <2>1, <2>2, <3>1 DEF ValueRecord, ConditionSource
  <2>3. CASE row[a].state # "none"
    <3> DEFINE c == row[a].is.condition
    <3>1. c \in 0 .. 1000 /\ c # None
      <4>1. row[a].is \in Analysis
        BY DEF TypeOK, Row
      <4>2. c \in 0 .. 1000
        BY <4>1, AnalysisCondition, SMTT(30)
      <4> HIDE DEF c
      <4>3. c \in Int
        BY <4>2
      <4> QED BY <4>2, <4>3, MarketAssumption
    <3>2. FeatureCondition(BuildFeatures(PhotoCondition(a))) = c
      BY <2>3, <3>1 DEF PhotoCondition, BuildFeatures, FeatureCondition
    <3> HIDE DEF c
    <3>3. given = c
      BY <3>1, <3>2 DEF RecordCondition, Upper, Lower
    <3> HIDE DEF given
    <3>4. ConditionSource(given) = "record" /\ VectorCondition(given) = c
      BY <3>1, <3>3 DEF ConditionSource, VectorCondition
    <3> QED BY <2>1, <2>3, <3>4 DEF ValueRecord, c
  <2> QED BY <2>2, <2>3
<1> QED BY <1>1, TypeCorrect, PTL

\* What brackets an estimate.
Bracketed(v) ==
  /\ v.estimate \in Int /\ v.low \in Int /\ v.high \in Int
  /\ v.low >= 0
  /\ v.estimate >= 0 => v.low <= v.estimate /\ v.estimate <= v.high

LEMMA QuotientNat ==
  ASSUME NEW m \in Nat, NEW n \in Nat \ {0}
  PROVE  m \div n \in Nat
OBVIOUS

\* What CHOOSE finds.
LEMMA GreatestChosen ==
  ASSUME NEW S \in SUBSET Int, IsFiniteSet(S), S # {}
  PROVE  Max(S) \in S /\ \A y \in S : y <= Max(S)
<1>1. PICK x \in S : \A y \in S : y <= x
  BY GreatestAndLeast
<1>2. \A y \in S : x >= y
  BY <1>1
<1>3. Max(S) \in S /\ \A y \in S : Max(S) >= y
  BY <1>2, Zenon DEF Max
<1> QED BY <1>3

LEMMA LeastChosen ==
  ASSUME NEW S \in SUBSET Int, IsFiniteSet(S), S # {}
  PROVE  Min(S) \in S /\ \A y \in S : Min(S) <= y
<1>1. PICK x \in S : \A y \in S : x <= y
  BY GreatestAndLeast
<1> QED BY <1>1, Zenon DEF Min

LEMMA PredictBrackets ==
  ASSUME NEW p \in Predictions, NEW sparse \in {0, 1}
  PROVE  Bracketed(Predict(p, sparse)) /\ Predict(p, sparse).estimate = p.point
<1>1. p.point \in Int /\ p.lower \in Int /\ p.upper \in Int
  BY MarketAssumption
<1> DEFINE widen == (p.point * 6 * sparse) \div 100
<1>2. widen \in Int /\ (p.point >= 0 => 0 <= widen)
  <2>1. CASE sparse = 0
    BY <1>1, <2>1
  <2>2. CASE sparse = 1
    BY <1>1, <2>2
  <2> QED BY <2>1, <2>2
<1>3. Predict(p, sparse) = [estimate |-> p.point, low |-> Upper(0, Lower(p.lower, p.point) - widen),
                            high |-> Upper(p.upper, p.point) + widen]
  BY DEF Predict
<1> HIDE DEF widen
<1> QED BY <1>1, <1>2, <1>3 DEF Bracketed, Upper, Lower

\* Powers of two are positive: subsets are counted by them.
LEMMA TwoToThe ==
  ASSUME NEW n \in Nat
  PROVE  2 ^ n \in Nat /\ 2 ^ n > 0
<1> DEFINE S == 1 .. n
<1>1. IsFiniteSet(S) /\ Cardinality(S) = n
  BY FS_Interval
<1> HIDE DEF S
<1>2. IsFiniteSet(SUBSET S) /\ Cardinality(SUBSET S) = 2 ^ n
  BY <1>1, FS_SUBSET
<1>3. Cardinality(SUBSET S) \in Nat /\ Cardinality(SUBSET S) # 0
  BY <1>2, FS_CardinalityType, FS_EmptySet
<1> QED BY <1>2, <1>3

\* Whatever the comps, their prices and the estimate lie in the band.
LEMMA BlendBrackets ==
  ASSUME NEW p, Bracketed(p), NEW sqft \in Int, sqft > 0,
         NEW comps \in SUBSET Usable(Comps), comps # {}
  PROVE  /\ Bracketed(Blend(p, sqft, comps))
         /\ p.estimate >= 0 => Blend(p, sqft, comps).estimate >= 0
<1> DEFINE implied == [c \in comps |-> (c.price * sqft) \div c.sqft]
           Ages == {d.age : d \in comps}
           weight == [c \in comps |-> 2 ^ (Max(Ages) - c.age)]
           weighted == [c \in comps |-> weight[c] * implied[c]]
           anchor == SumFunction(weighted) \div SumFunction(weight)
           estimate == (7 * anchor + 3 * p.estimate) \div 10
           prices == Range(implied) \cup {estimate}
<1>1. IsFiniteSet(comps) /\ \A c \in comps :
        c.price \in Nat \ {0} /\ c.sqft \in Nat \ {0} /\ c.age \in Nat
  <2>1. comps \subseteq Comps /\ Comps \subseteq [price : Int, sqft : Int, age : Nat]
    BY MarketAssumption DEF Usable
  <2>2. \A c \in comps : c.price > 0 /\ c.sqft > 0
    BY DEF Usable
  <2> QED BY <2>1, <2>2, MarketAssumption, FS_Subset
<1>2. implied \in [comps -> Nat]
  <2> SUFFICES ASSUME NEW c \in comps PROVE (c.price * sqft) \div c.sqft \in Nat
    OBVIOUS
  <2>1. PICK x \in Nat : x = c.price * sqft
    BY <1>1
  <2>2. PICK y \in Nat \ {0} : y = c.sqft
    BY <1>1
  <2>3. x \div y \in Nat
    BY QuotientNat
  <2> QED BY <2>1, <2>2, <2>3
<1>3. weight \in [comps -> Nat] /\ \A c \in comps : weight[c] > 0
  <2>1. Ages \in SUBSET Int /\ Ages # {}
    BY <1>1
  <2>2. IsFiniteSet(Ages)
    <3>1. [c \in comps |-> c.age] \in Surjection(comps, Ages)
      BY DEF Surjection
    <3> HIDE DEF Ages
    <3> QED BY <1>1, <3>1, FS_Surjection
  <2> HIDE DEF Ages
  <2>3. Max(Ages) \in Ages /\ \A n \in Ages : n <= Max(Ages)
    BY <2>1, <2>2, GreatestChosen
  <2> SUFFICES ASSUME NEW c \in comps
               PROVE  2 ^ (Max(Ages) - c.age) \in Nat /\ 2 ^ (Max(Ages) - c.age) > 0
    BY Zenon
  <2>4. c.age \in Ages /\ c.age \in Nat
    BY <1>1 DEF Ages
  <2>5. Max(Ages) - c.age \in Nat
    <3>1. PICK m \in Int : m = Max(Ages)
      BY <2>1, <2>3
    <3>2. PICK n \in Nat : n = c.age
      BY <2>4
    <3>3. n <= m
      BY <2>3, <2>4, <3>1, <3>2
    <3>4. m - n \in Nat
      BY <3>3
    <3> QED BY <3>1, <3>2, <3>4
  <2> QED BY <2>5, TwoToThe
<1> HIDE DEF implied, weight
<1>4. weighted \in [comps -> Nat]
  <2>1. \A c \in comps : weight[c] \in Nat /\ implied[c] \in Nat
    BY <1>2, <1>3
  <2>2. \A m, n \in Nat : m * n \in Nat
    OBVIOUS
  <2> QED BY <2>1, <2>2
<1> HIDE DEF weighted
<1>5. anchor \in Nat
  <2>1. SumFunction(weighted) \in Nat
    BY <1>1, <1>4, Sums
  <2>2. SumFunction(weight) \in Nat /\ \A c \in comps : weight[c] <= SumFunction(weight)
    BY <1>1, <1>3, Sums
  <2>3. PICK c \in comps : weight[c] > 0 /\ weight[c] \in Nat
    BY <1>3
  <2>4. SumFunction(weight) \in Nat \ {0}
    BY <2>2, <2>3
  <2> QED BY <2>1, <2>4, QuotientNat
<1> HIDE DEF anchor
<1>6. estimate \in Int /\ (p.estimate >= 0 => estimate >= 0)
  BY <1>5 DEF Bracketed
<1> HIDE DEF estimate
<1>7. prices \in SUBSET Int /\ IsFiniteSet(prices) /\ estimate \in prices
  <2>1. implied \in Surjection(comps, Range(implied))
    BY <1>2 DEF Surjection, Range
  <2>2. IsFiniteSet(Range(implied))
    BY <1>1, <2>1, FS_Surjection
  <2>3. IsFiniteSet(prices)
    BY <2>2, FS_AddElement
  <2>4. Range(implied) \subseteq Nat
    BY <1>2 DEF Range
  <2> QED BY <1>6, <2>3, <2>4
<1> HIDE DEF prices
<1>8. /\ Min(prices) \in Int /\ Min(prices) <= estimate
      /\ Max(prices) \in Int /\ Max(prices) >= estimate
  <2>1. Max(prices) \in prices /\ \A n \in prices : n <= Max(prices)
    BY <1>7, GreatestChosen
  <2>2. Min(prices) \in prices /\ \A n \in prices : Min(prices) <= n
    BY <1>7, LeastChosen
  <2> QED BY <1>6, <1>7, <2>1, <2>2
<1>9. Blend(p, sqft, comps) =
        [estimate |-> estimate,
         low |-> Upper(0, Lower(p.low, Min(prices))), high |-> Upper(p.high, Max(prices))]
  BY DEF Blend, implied, weight, weighted, anchor, estimate, prices
<1> QED BY <1>6, <1>8, <1>9 DEF Bracketed, Upper, Lower

\* BandBrackets: however the quantile regressors cross, whatever is imputed and
\* wherever the comps pull the estimate, its band brackets it and has no negative
\* price; an estimate below zero is the regression's.
THEOREM BandsBracket == Spec => []BandBrackets
<1>1. TypeOK => BandBrackets
  <2> SUFFICES ASSUME TypeOK, NEW a \in Addresses, NEW p \in Predictions, NEW comps \in SUBSET Comps
               PROVE  LET v == GetValuation(a, comps, p)
                      IN /\ v.low >= 0
                         /\ v.estimate >= 0 => v.low <= v.estimate /\ v.estimate <= v.high
                         /\ v.estimate < 0 => p.point < 0
    BY DEF BandBrackets
  <2> DEFINE Good(v) == Bracketed(v) /\ (p.point >= 0 => v.estimate >= 0)
  <2>0. p.point \in Int
    BY MarketAssumption
  <2>1. ASSUME NEW condition, NEW sqft \in Int, NEW cs \in SUBSET Comps
        PROVE  Good(ValueRecord(condition, sqft, cs, p))
    <3> DEFINE predicted == Predict(p, IF condition = None THEN 1 ELSE 0)
               grounded == IF Usable(cs) = {} \/ sqft <= 0 THEN predicted
                           ELSE Blend(predicted, sqft, Usable(cs))
    <3>1. Good(predicted)
      BY PredictBrackets
    <3> HIDE DEF predicted
    <3>2. Usable(cs) \in SUBSET Usable(Comps)
      BY DEF Usable
    <3>3. Good(grounded)
      <4>1. CASE Usable(cs) = {} \/ sqft <= 0
        BY <3>1, <4>1
      <4>2. CASE ~(Usable(cs) = {} \/ sqft <= 0)
        <5>1. Usable(cs) # {} /\ sqft > 0
          BY <4>2
        <5>2. Good(Blend(predicted, sqft, Usable(cs)))
          BY <3>1, <3>2, <5>1, BlendBrackets
        <5> QED BY <4>2, <5>2
      <4> QED BY <4>1, <4>2
    <3>4. ValueRecord(condition, sqft, cs, p) =
            [sufficient |-> TRUE, source |-> ConditionSource(condition),
             condition |-> VectorCondition(condition),
             estimate |-> grounded.estimate, low |-> grounded.low, high |-> grounded.high]
      BY DEF ValueRecord, predicted
    <3> HIDE DEF grounded
    <3> QED BY <3>3, <3>4 DEF Bracketed
  <2>2. Sqft[a] \in Int /\ {} \in SUBSET Comps /\ 1 \in Int
    BY MarketAssumption
  <2>3. Good(NoValuation)
    BY DEF NoValuation, Bracketed
  <2>4. Good(GetValuation(a, comps, p))
    BY <2>1, <2>2, <2>3 DEF GetValuation, EstimateValue
  <2> QED BY <2>0, <2>4 DEF Bracketed
<1> QED BY <1>1, TypeCorrect, PTL
=============================================================================
