----------------------------- MODULE PackProofs -----------------------------
(***************************************************************************)
(* What holds of PackConstruction for any reviewed tables, any source of   *)
(* samples and any batches.  The definitions recurse over lists (Compile,  *)
(* the bisection, Without, the loops over batches); what they compute is   *)
(* found with the induction of ListProofs.                                 *)
(***************************************************************************)
EXTENDS PackConstruction, ListProofs, FunctionTheorems, FiniteSetTheorems

-----------------------------------------------------------------------------
(* Why a ticket is unbiased, for any sample domain and any bound that the  *)
(* domain holds (mapExactIntegerSampleToBoundedTicket, mapUint32Sample-    *)
(* ToUnbiasedTicket and mapUint32SampleBatchToUnbiasedTicket).  The model  *)
(* checker sees one small domain, the code has 2^32 samples.               *)

\* The blocks of bound samples that fit into the domain.
Blocks(bound) == SampleEnd \div bound

\* Samples that are mapped to a ticket.
SamplesOf(ticket, bound) ==
    {s \in Sample : MapSample(s, bound) = [state |-> "accepted", ticket |-> ticket]}

-----------------------------------------------------------------------------
(* Division.                                                               *)

\* Division with remainder, the way the provers take it.
LEMMA Division ==
    ASSUME NEW a \in Nat, NEW b \in Nat \ {0}
    PROVE  /\ a \div b \in Nat /\ a % b \in 0 .. b-1
           /\ a = b * (a \div b) + (a % b)
OBVIOUS

\* Quotient and remainder are unique.
LEMMA DivisionUnique ==
    ASSUME NEW b \in Nat \ {0}, NEW q \in Nat, NEW r \in 0 .. b-1
    PROVE  (r + q*b) % b = r /\ (r + q*b) \div b = q
OBVIOUS

\* What is accepted is a whole number of blocks, at least one.
LEMMA AcceptedBlocks ==
    ASSUME NEW bound \in TicketBound
    PROVE  /\ Blocks(bound) \in Nat \ {0}
           /\ AcceptedEnd(bound) = Blocks(bound) * bound
           /\ AcceptedEnd(bound) <= SampleEnd
           /\ SampleEnd < AcceptedEnd(bound) + bound
<1>1. bound \in Nat \ {0} /\ bound <= SampleEnd /\ SampleEnd \in Nat
  BY SampleEndAssumption DEF TicketBound
<1>2. /\ Blocks(bound) \in Nat /\ SampleEnd % bound \in 0 .. bound-1
      /\ SampleEnd = bound * Blocks(bound) + (SampleEnd % bound)
  BY <1>1, Division DEF Blocks
<1>3. Blocks(bound) # 0
  BY <1>1, <1>2
<1>4. QED
  BY <1>1, <1>2, <1>3 DEF AcceptedEnd

-----------------------------------------------------------------------------
(* One sample.                                                             *)

\* The samples of a ticket are one of each accepted block.
LEMMA SamplesOfATicket ==
    ASSUME NEW bound \in TicketBound, NEW ticket \in 0 .. bound-1
    PROVE  SamplesOf(ticket, bound) = {ticket + k*bound : k \in 0 .. Blocks(bound)-1}
<1> DEFINE q == Blocks(bound)
           sample(k) == ticket + k*bound
<1>1. /\ bound \in Nat \ {0} /\ SampleEnd \in Nat /\ q \in Nat \ {0}
      /\ AcceptedEnd(bound) = q * bound /\ q * bound <= SampleEnd
  BY SampleEndAssumption, AcceptedBlocks DEF TicketBound
<1> HIDE DEF q
<1>2. ASSUME NEW s \in SamplesOf(ticket, bound)
      PROVE  \E k \in 0 .. q-1 : s = sample(k)
  <2>1. s \in Nat /\ s < q * bound /\ s % bound = ticket
    BY <1>1, <1>2 DEF SamplesOf, MapSample, Sample
  <2>2. s \div bound \in Nat /\ s = bound * (s \div bound) + ticket
    BY <1>1, <2>1, Division
  <2>3. s \div bound < q
    BY <1>1, <2>1, <2>2
  <2>4. s \div bound \in 0 .. q-1 /\ s = sample(s \div bound)
    BY <1>1, <2>2, <2>3
  <2>5. QED
    BY <2>4
<1>3. ASSUME NEW k \in 0 .. q-1
      PROVE  sample(k) \in SamplesOf(ticket, bound)
  <2>1. sample(k) \in Nat /\ sample(k) % bound = ticket
    BY <1>1, DivisionUnique
  <2>2. (k+1) * bound <= q * bound
    BY <1>1
  <2>3. sample(k) < q * bound
    BY <1>1, <2>2
  <2>4. sample(k) \in Sample
    BY <1>1, <2>1, <2>3 DEF Sample
  <2>5. QED
    BY <1>1, <2>1, <2>3, <2>4 DEF SamplesOf, MapSample
<1>4. QED
  BY <1>2, <1>3 DEF q

(* Every ticket below the bound is given by equally many samples, as many  *)
(* as whole blocks of the bound fit into the sample domain, and no sample  *)
(* gives a ticket outside the bound: a uniform sample that is not sent     *)
(* back for another is a uniform ticket                                    *)
(* (mapExactIntegerSampleToBoundedTicket).                                 *)
THEOREM TicketsUnbiased ==
    ASSUME NEW bound \in TicketBound
    PROVE  /\ \A ticket \in 0 .. bound-1 :
                  /\ IsFiniteSet(SamplesOf(ticket, bound))
                  /\ Cardinality(SamplesOf(ticket, bound)) = Blocks(bound)
           /\ \A s \in Sample : MapSample(s, bound).state = "accepted" =>
                  MapSample(s, bound).ticket \in 0 .. bound-1
<1>1. bound \in Nat \ {0} /\ Blocks(bound) \in Nat \ {0}
  BY SampleEndAssumption, AcceptedBlocks DEF TicketBound
<1>2. ASSUME NEW ticket \in 0 .. bound-1
      PROVE  /\ IsFiniteSet(SamplesOf(ticket, bound))
             /\ Cardinality(SamplesOf(ticket, bound)) = Blocks(bound)
  <2> DEFINE blocks == 0 .. Blocks(bound)-1
             f == [k \in blocks |-> ticket + k*bound]
  <2>1. f \in [blocks -> SamplesOf(ticket, bound)]
    BY SamplesOfATicket
  <2>2. ASSUME NEW j \in blocks, NEW k \in blocks, f[j] = f[k] PROVE j = k
    <3>1. j*bound = k*bound
      BY <1>1, <2>2
    <3>2. j \in Nat /\ k \in Nat
      BY <1>1
    <3>3. (ticket + j*bound) \div bound = j /\ (ticket + k*bound) \div bound = k
      BY <1>1, <3>2, DivisionUnique
    <3>4. QED
      BY <3>1, <3>3
  <2>3. \A s \in SamplesOf(ticket, bound) : \E k \in blocks : f[k] = s
    BY SamplesOfATicket
  <2>4. f \in Bijection(blocks, SamplesOf(ticket, bound))
    BY <2>1, <2>2, <2>3, Fun_IsBij
  <2>5. IsFiniteSet(blocks) /\ Cardinality(blocks) = Blocks(bound)
    <3>1. 0 \in Int /\ Blocks(bound)-1 \in Int /\ 0 <= Blocks(bound)-1
      BY <1>1
    <3>2. (Blocks(bound)-1) - 0 + 1 = Blocks(bound)
      BY <1>1
    <3>3. QED
      BY <3>1, <3>2, FS_Interval
  <2>6. QED
    BY <2>4, <2>5, FS_Bijection DEF ExistsBijection
<1>3. ASSUME NEW s \in Sample, MapSample(s, bound).state = "accepted"
      PROVE  MapSample(s, bound).ticket \in 0 .. bound-1
  <2>1. MapSample(s, bound) = [state |-> "accepted", ticket |-> s % bound]
    BY <1>3 DEF MapSample
  <2>2. s \in Nat
    BY DEF Sample
  <2>3. QED
    BY <1>1, <2>1, <2>2, Division
<1>4. QED
  BY <1>2, <1>3

(* A sample is sent back less often than it is accepted: the tail is       *)
(* shorter than one block, and there is at least one block.                *)
THEOREM RejectionIsRarer ==
    ASSUME NEW bound \in TicketBound
    PROVE  SampleEnd - AcceptedEnd(bound) < AcceptedEnd(bound)
<1>1. /\ bound \in Nat \ {0} /\ SampleEnd \in Nat /\ Blocks(bound) \in Nat \ {0}
      /\ AcceptedEnd(bound) = Blocks(bound) * bound
      /\ SampleEnd < AcceptedEnd(bound) + bound
  BY SampleEndAssumption, AcceptedBlocks DEF TicketBound
<1>2. bound <= Blocks(bound) * bound
  BY <1>1
<1>3. QED
  BY <1>1, <1>2

-----------------------------------------------------------------------------
(* Batches.                                                                *)

\* The first accepted sample of a batch, if it has one.
FirstAccepted(samples, bound, i) ==
    /\ i \in AcceptedAt(samples, bound)
    /\ \A j \in AcceptedAt(samples, bound) : i <= j

\* Where MapBatch stops: at the first accepted sample or at the end.
LEMMA MapBatchCases ==
    ASSUME NEW bound, NEW samples \in Seq(Sample)
    PROVE  \/ /\ AcceptedAt(samples, bound) = {}
              /\ MapBatch(samples, bound) = [state |-> "needs-sample", consumed |-> Len(samples)]
           \/ \E i \in AcceptedAt(samples, bound) :
                 /\ FirstAccepted(samples, bound, i)
                 /\ MapBatch(samples, bound) =
                        [state |-> "accepted", ticket |-> samples[i] % bound, consumed |-> i]
<1> DEFINE at == AcceptedAt(samples, bound)
           first == CHOOSE i \in at : \A j \in at : i <= j
<1>1. CASE at = {}
  BY <1>1 DEF MapBatch
<1>2. CASE at # {}
  <2>1. at \subseteq Nat
    BY DEF AcceptedAt
  <2>2. \E i \in at : \A j \in at : i <= j
    BY <1>2, <2>1, LeastPosition
  <2>3. first \in at /\ \A j \in at : first <= j
    BY <2>2
  <2>4. MapBatch(samples, bound) =
            [state |-> "accepted", ticket |-> MapSample(samples[first], bound).ticket,
             consumed |-> first]
    BY <1>2 DEF MapBatch
  <2> HIDE DEF first
  <2>5. samples[first] < AcceptedEnd(bound)
    BY <2>3 DEF AcceptedAt
  <2>6. MapSample(samples[first], bound).ticket = samples[first] % bound
    BY <2>5 DEF MapSample
  <2>7. QED
    BY <2>3, <2>4, <2>6 DEF FirstAccepted
<1>3. QED
  BY <1>1, <1>2

(* A batch that is cut in two gives what it gives in one piece: if the     *)
(* first part is enough the second is not looked at, and otherwise the     *)
(* second is read as if it came alone, behind samples that were all        *)
(* consumed.  So a caller may hand over samples in whatever batches they   *)
(* arrive (mapUint32SampleBatchToUnbiasedTicket).                          *)
THEOREM BatchesMayBeCut ==
    ASSUME NEW bound, NEW s \in Seq(Sample), NEW t \in Seq(Sample)
    PROVE  LET whole == MapBatch(s \o t, bound)
               start == MapBatch(s, bound)
               rest == MapBatch(t, bound)
           IN  IF start.state = "accepted" THEN whole = start
               ELSE whole = [rest EXCEPT !.consumed = Len(s) + @]
<1> DEFINE w == s \o t
           inS == AcceptedAt(s, bound)
           inT == AcceptedAt(t, bound)
           inW == AcceptedAt(w, bound)
<1>1. /\ w \in Seq(Sample) /\ Len(w) = Len(s) + Len(t)
      /\ Len(s) \in Nat /\ Len(t) \in Nat
      /\ \A i \in 1 .. Len(s) : w[i] = s[i]
      /\ \A i \in 1 .. Len(t) : w[Len(s) + i] = t[i]
  OBVIOUS
<1> HIDE DEF w
<1>2. \A i \in 1 .. Len(s) : i \in inW <=> i \in inS
  BY <1>1 DEF AcceptedAt
<1>3. \A i \in 1 .. Len(t) : Len(s) + i \in inW <=> i \in inT
  BY <1>1 DEF AcceptedAt
<1>4. inS \subseteq 1 .. Len(s) /\ inT \subseteq 1 .. Len(t) /\ inW \subseteq 1 .. Len(s) + Len(t)
  BY <1>1 DEF AcceptedAt
<1> HIDE DEF inS, inT, inW
<1>5. ASSUME NEW j \in inW, j > Len(s) PROVE \E k \in inT : j = Len(s) + k
  <2>1. j - Len(s) \in 1 .. Len(t) /\ j = Len(s) + (j - Len(s))
    BY <1>1, <1>4, <1>5
  <2>2. QED
    BY <1>3, <1>5, <2>1
<1>6. CASE inS # {}
  <2>1. PICK i \in inS : /\ \A j \in inS : i <= j
                         /\ MapBatch(s, bound) =
                              [state |-> "accepted", ticket |-> s[i] % bound, consumed |-> i]
    BY <1>6, MapBatchCases DEF FirstAccepted, inS
  <2>2. i \in inW
    BY <1>2, <1>4, <2>1
  <2>3. PICK k \in inW : /\ \A j \in inW : k <= j
                         /\ MapBatch(w, bound) =
                              [state |-> "accepted", ticket |-> w[k] % bound, consumed |-> k]
    BY <1>1, <2>2, MapBatchCases DEF FirstAccepted, inW
  <2>4. k <= i
    BY <2>2, <2>3
  <2>5. k \in inS
    BY <1>1, <1>2, <1>4, <2>1, <2>3, <2>4
  <2>6. k = i
    BY <1>4, <2>1, <2>4, <2>5
  <2>7. w[k] = s[i]
    BY <1>1, <1>4, <2>5, <2>6
  <2>8. MapBatch(w, bound) = MapBatch(s, bound)
    BY <2>1, <2>3, <2>6, <2>7
  <2>9. QED
    BY <2>1, <2>8 DEF w
<1>7. CASE inS = {} /\ inT # {}
  <2>1. MapBatch(s, bound).state # "accepted"
    BY <1>7, MapBatchCases DEF inS
  <2>2. PICK i \in inT : /\ \A j \in inT : i <= j
                         /\ MapBatch(t, bound) =
                              [state |-> "accepted", ticket |-> t[i] % bound, consumed |-> i]
    BY <1>7, MapBatchCases DEF FirstAccepted, inT
  <2>3. Len(s) + i \in inW
    BY <1>3, <1>4, <2>2
  <2>4. PICK k \in inW : /\ \A j \in inW : k <= j
                         /\ MapBatch(w, bound) =
                              [state |-> "accepted", ticket |-> w[k] % bound, consumed |-> k]
    BY <1>1, <2>3, MapBatchCases DEF FirstAccepted, inW
  <2>5. k > Len(s)
    BY <1>1, <1>2, <1>4, <1>7, <2>4
  <2>6. PICK j \in inT : k = Len(s) + j
    BY <1>5, <2>4, <2>5
  <2>7. k = Len(s) + i
    <3>1. Len(s) \in Nat /\ i \in Nat /\ j \in Nat
      BY <1>1, <1>4, <2>2, <2>6
    <3>2. k = Len(s) + j /\ i <= j /\ k <= Len(s) + i
      BY <2>2, <2>3, <2>4, <2>6
    <3>3. QED
      BY <3>1, <3>2
  <2>8. w[k] = t[i]
    BY <1>1, <1>4, <2>2, <2>7
  <2>9. [MapBatch(t, bound) EXCEPT !.consumed = Len(s) + @] =
            [state |-> "accepted", ticket |-> t[i] % bound, consumed |-> Len(s) + i]
    BY <2>2
  <2>10. MapBatch(w, bound) = [MapBatch(t, bound) EXCEPT !.consumed = Len(s) + @]
    BY <2>4, <2>7, <2>8, <2>9
  <2>11. QED
    BY <2>1, <2>10 DEF w
<1>8. CASE inS = {} /\ inT = {}
  <2>1. inW = {}
    BY <1>1, <1>2, <1>4, <1>5, <1>8
  <2>2. MapBatch(s, bound).state # "accepted"
    BY <1>8, MapBatchCases DEF inS
  <2>3. MapBatch(t, bound) = [state |-> "needs-sample", consumed |-> Len(t)]
    BY <1>8, MapBatchCases DEF inT
  <2>4. MapBatch(w, bound) = [state |-> "needs-sample", consumed |-> Len(w)]
    BY <1>1, <2>1, MapBatchCases DEF inW
  <2>5. [MapBatch(t, bound) EXCEPT !.consumed = Len(s) + @] =
            [state |-> "needs-sample", consumed |-> Len(s) + Len(t)]
    BY <2>3
  <2>6. QED
    BY <1>1, <2>2, <2>4, <2>5 DEF w
<1>9. QED
  BY <1>6, <1>7, <1>8

-----------------------------------------------------------------------------
(* Tables.                                                                 *)

\* What a table is compiled from.
Entries(e) ==
    /\ Listed(e)
    /\ \A i \in DOMAIN e : e[i].weight \in Nat \ {0}
    /\ \A i, j \in DOMAIN e : e[i].key = e[j].key => i = j

IsChoice(c) == c = [key |-> c.key, weight |-> c.weight, end |-> c.end]

Start(t, i) == IF i = 1 THEN 0 ELSE t[i-1].end

\* A compiled table: each choice ends where its weight takes it.
IsTable(t) ==
    /\ Entries(t)
    /\ \A i \in DOMAIN t : IsChoice(t[i]) /\ t[i].end = t[i].weight + Start(t, i)

\* The same identities with the same weights, in the same order.
SameEntries(s, t) == Len(s) = Len(t) /\ \A i \in DOMAIN s : s[i].key = t[i].key /\ s[i].weight = t[i].weight

AreEnds(f, e, n) == f = [i \in 0 .. n |-> IF i = 0 THEN 0 ELSE f[i-1] + e[i].weight]

LEMMA EndsExist ==
    ASSUME NEW e
    PROVE  \A n \in Nat : \E f : AreEnds(f, e, n)
<1> DEFINE S == {n \in Nat : \E f : AreEnds(f, e, n)}
<1>1. 0 \in S
  <2>1. AreEnds([i \in 0 .. 0 |-> 0], e, 0)
    BY DEF AreEnds
  <2> QED
    BY <2>1
<1>2. ASSUME NEW n \in Nat, n \in S PROVE n + 1 \in S
  <2>1. PICK f : AreEnds(f, e, n)
    BY <1>2
  <2> DEFINE g == [i \in 0 .. n + 1 |-> IF i = n + 1 THEN f[n] + e[n + 1].weight ELSE f[i]]
  <2>2. \A i \in 0 .. n + 1 : g[i] = IF i = 0 THEN 0 ELSE g[i-1] + e[i].weight
    BY <2>1 DEF AreEnds
  <2>3. AreEnds(g, e, n + 1)
    BY <2>2 DEF AreEnds
  <2> QED
    BY <2>3
<1> HIDE DEF S
<1>3. \A n \in Nat : n \in S
  BY <1>1, <1>2, Ascent
<1> QED
  BY <1>3 DEF S

LEMMA EndsUnique ==
    ASSUME NEW n \in Nat, NEW e, NEW d, NEW f, NEW g, AreEnds(f, e, n), AreEnds(g, d, n),
           \A i \in 1 .. n : e[i].weight = d[i].weight
    PROVE  \A i \in 0 .. n : f[i] = g[i]
<1> DEFINE S == {i \in Nat : i <= n => f[i] = g[i]}
<1>1. 0 \in S
  BY DEF AreEnds
<1>2. ASSUME NEW i \in Nat, i \in S PROVE i + 1 \in S
  BY <1>2 DEF AreEnds
<1> HIDE DEF S
<1>3. \A i \in Nat : i \in S
  BY <1>1, <1>2, Ascent
<1> QED
  BY <1>3 DEF S

LEMMA EndsNatural ==
    ASSUME NEW n \in Nat, NEW e, NEW f, AreEnds(f, e, n), \A i \in 1 .. n : e[i].weight \in Nat
    PROVE  \A i \in 0 .. n : f[i] \in Nat
<1> DEFINE S == {i \in Nat : i <= n => f[i] \in Nat}
<1>1. 0 \in S
  BY DEF AreEnds
<1>2. ASSUME NEW i \in Nat, i \in S PROVE i + 1 \in S
  BY <1>2 DEF AreEnds
<1> HIDE DEF S
<1>3. \A i \in Nat : i \in S
  BY <1>1, <1>2, Ascent
<1> QED
  BY <1>3 DEF S

\* Compile makes a table of the same entries.
LEMMA CompileFacts ==
    ASSUME NEW e, Entries(e)
    PROVE  IsTable(Compile(e)) /\ SameEntries(Compile(e), e)
<1> DEFINE f == CHOOSE f : AreEnds(f, e, Len(e))
           t == Compile(e)
<1>1. Len(e) \in Nat /\ DOMAIN e = 1 .. Len(e)
  BY ListFacts DEF Entries
<1>2. AreEnds(f, e, Len(e))
  BY <1>1, EndsExist
<1>3. t = [i \in 1 .. Len(e) |-> [key |-> e[i].key, weight |-> e[i].weight, end |-> f[i]]]
  BY <1>1 DEF Compile, AreEnds
<1> HIDE DEF f, t
<1>4. Listed(t) /\ Len(t) = Len(e) /\ DOMAIN t = 1 .. Len(e)
  <2>1. DOMAIN t = 1 .. Len(e) /\ t = [i \in 1 .. Len(e) |-> t[i]]
    BY <1>3
  <2> QED
    BY <1>1, <2>1, IndexedListed
<1>5. \A i \in 1 .. Len(e) : /\ t[i] = [key |-> e[i].key, weight |-> e[i].weight, end |-> f[i]]
                             /\ t[i].key = e[i].key /\ t[i].weight = e[i].weight /\ t[i].end = f[i]
  BY <1>3
<1>6. SameEntries(t, e) /\ Entries(t)
  BY <1>1, <1>4, <1>5 DEF SameEntries, Entries
<1>7. \A i \in 0 .. Len(e) : f[i] = IF i = 0 THEN 0 ELSE f[i-1] + e[i].weight
  BY <1>1, <1>2 DEF AreEnds
<1>8. \A i \in 0 .. Len(e) : f[i] \in Nat
  BY <1>1, <1>2, EndsNatural DEF Entries
<1>9. \A i \in 1 .. Len(e) : IsChoice(t[i]) /\ t[i].end = t[i].weight + Start(t, i)
  <2> SUFFICES ASSUME NEW i \in 1 .. Len(e) PROVE IsChoice(t[i]) /\ t[i].end = t[i].weight + Start(t, i)
    OBVIOUS
  <2>1. IsChoice(t[i])
    BY <1>5 DEF IsChoice
  <2>2. f[i] = f[i-1] + e[i].weight /\ f[i] \in Nat /\ f[i-1] \in Nat /\ f[0] = 0 /\ e[i].weight \in Nat
    BY <1>1, <1>7, <1>8 DEF Entries
  <2>3. Start(t, i) = f[i-1]
    <3>1. CASE i = 1
      <4>1. Start(t, 1) = f[0]
        BY <2>2 DEF Start
      <4> QED
        BY <3>1, <4>1
    <3>2. CASE i # 1
      <4>1. i - 1 \in 1 .. Len(e)
        BY <1>1, <3>2
      <4> QED
        BY <1>5, <3>2, <4>1 DEF Start
    <3> QED
      BY <3>1, <3>2
  <2>4. t[i].end = f[i] /\ t[i].weight = e[i].weight
    BY <1>5
  <2>5. f[i] = e[i].weight + f[i-1]
    BY <2>2
  <2> QED
    BY <2>1, <2>3, <2>4, <2>5
<1> QED
  BY <1>4, <1>6, <1>9 DEF IsTable, t

\* Compile knows nothing of a list but its keys and weights.
LEMMA CompileSame ==
    ASSUME NEW s, NEW t, IsTable(s), IsTable(t), SameEntries(s, t)
    PROVE  s = t
<1>1. Listed(s) /\ Listed(t) /\ Len(s) = Len(t) /\ Len(s) \in Nat /\ DOMAIN s = 1 .. Len(s) /\ DOMAIN t = 1 .. Len(s)
  BY ListFacts DEF IsTable, Entries, SameEntries
<1> DEFINE S == {i \in Nat : i \in 1 .. Len(s) => s[i].end = t[i].end}
<1>2. 0 \in S
  OBVIOUS
<1>3. ASSUME NEW i \in Nat, i \in S PROVE i + 1 \in S
  <2> SUFFICES ASSUME i + 1 \in 1 .. Len(s) PROVE s[i+1].end = t[i+1].end
    OBVIOUS
  <2>1. /\ s[i+1].end = s[i+1].weight + Start(s, i+1) /\ t[i+1].end = t[i+1].weight + Start(t, i+1)
        /\ s[i+1].weight = t[i+1].weight
    BY <1>1 DEF IsTable, SameEntries
  <2>2. Start(s, i+1) = Start(t, i+1)
    BY <1>1, <1>3 DEF Start
  <2> QED
    BY <2>1, <2>2
<1> HIDE DEF S
<1>4. \A i \in Nat : i \in S
  BY <1>2, <1>3, Ascent
<1>5. \A i \in 1 .. Len(s) : s[i] = t[i]
  <2> SUFFICES ASSUME NEW i \in 1 .. Len(s) PROVE s[i] = t[i]
    OBVIOUS
  <2>1. s[i].end = t[i].end
    BY <1>1, <1>4 DEF S
  <2>2. s[i].key = t[i].key /\ s[i].weight = t[i].weight /\ IsChoice(s[i]) /\ IsChoice(t[i])
    BY <1>1 DEF SameEntries, IsTable
  <2> QED
    BY <2>1, <2>2 DEF IsChoice
<1> QED
  BY <1>1, <1>5, SameLists

\* Ends are positive and rise.
LEMMA EndsRise ==
    ASSUME NEW t, IsTable(t)
    PROVE  /\ \A i \in 1 .. Len(t) : /\ t[i].end \in Nat \ {0} /\ Start(t, i) \in Nat /\ t[i].weight \in Nat \ {0}
                                     /\ t[i].end = Start(t, i) + t[i].weight /\ Start(t, i) < t[i].end
           /\ \A i, j \in 1 .. Len(t) : i < j => t[i].end <= Start(t, j) /\ t[i].end < t[j].end
           /\ TotalWeight(t) \in Nat
           /\ t # <<>> => TotalWeight(t) = t[Len(t)].end /\ \A i \in 1 .. Len(t) : t[i].end <= TotalWeight(t)
<1>1. Listed(t) /\ Len(t) \in Nat /\ DOMAIN t = 1 .. Len(t) /\ (t = <<>> <=> Len(t) = 0)
  BY ListFacts DEF IsTable, Entries
<1>2. \A i \in 1 .. Len(t) : t[i].weight \in Nat \ {0} /\ t[i].end = t[i].weight + Start(t, i)
  BY <1>1 DEF IsTable, Entries
<1> DEFINE S == {j \in Nat : j \in 1 .. Len(t) =>
                     /\ t[j].end \in Nat \ {0} /\ Start(t, j) \in Nat
                     /\ \A i \in 1 .. j - 1 : /\ t[i].end \in Nat
                                              /\ t[i].end <= Start(t, j) /\ t[i].end < t[j].end}
<1>3. 0 \in S
  OBVIOUS
<1>4. ASSUME NEW j \in Nat, j \in S PROVE j + 1 \in S
  <2> SUFFICES ASSUME j + 1 \in 1 .. Len(t)
               PROVE  /\ t[j+1].end \in Nat \ {0} /\ Start(t, j+1) \in Nat
                      /\ \A i \in 1 .. j : /\ t[i].end \in Nat
                                            /\ t[i].end <= Start(t, j+1) /\ t[i].end < t[j+1].end
    OBVIOUS
  <2>1. t[j+1].weight \in Nat \ {0} /\ t[j+1].end = t[j+1].weight + Start(t, j+1)
    BY <1>2
  <2>2. CASE j = 0
    BY <2>1, <2>2 DEF Start
  <2>3. CASE j # 0
    <3>1. j \in 1 .. Len(t) /\ Start(t, j+1) = t[j].end
      BY <1>1, <2>3 DEF Start
    <3>2. t[j].end \in Nat \ {0} /\ \A i \in 1 .. j - 1 : t[i].end \in Nat /\ t[i].end < t[j].end
      BY <1>4, <3>1
    <3>3. ASSUME NEW i \in 1 .. j PROVE t[i].end \in Nat /\ t[i].end <= t[j].end
      BY <3>2
    <3>4. t[j+1].end \in Nat \ {0} /\ t[j].end < t[j+1].end
      BY <2>1, <3>1, <3>2
    <3> QED
      BY <3>1, <3>2, <3>3, <3>4
  <2> QED
    BY <2>2, <2>3
<1> HIDE DEF S
<1>5. \A j \in Nat : j \in S
  BY <1>3, <1>4, Ascent
<1>6. \A j \in 1 .. Len(t) : /\ t[j].end \in Nat \ {0} /\ Start(t, j) \in Nat
                             /\ \A i \in 1 .. j - 1 : t[i].end <= Start(t, j) /\ t[i].end < t[j].end
  BY <1>1, <1>5 DEF S
<1>7. \A i \in 1 .. Len(t) : t[i].end = Start(t, i) + t[i].weight /\ Start(t, i) < t[i].end
  BY <1>2, <1>6
<1>8. \A i, j \in 1 .. Len(t) : i < j => t[i].end <= Start(t, j) /\ t[i].end < t[j].end
  BY <1>1, <1>6
<1>9. TotalWeight(t) \in Nat /\ (t # <<>> => TotalWeight(t) = t[Len(t)].end)
  BY <1>1, <1>6 DEF TotalWeight, Last
<1>10. t # <<>> => \A i \in 1 .. Len(t) : t[i].end <= TotalWeight(t)
  BY <1>1, <1>6, <1>8, <1>9
<1> QED
  BY <1>2, <1>6, <1>7, <1>8, <1>9, <1>10

-----------------------------------------------------------------------------
(* Bisection.                                                              *)

\* The choice a ticket belongs to.
Covers(t, i, ticket) == Start(t, i) <= ticket /\ ticket < t[i].end

\* Every ticket below the total belongs to one choice.
LEMMA Covered ==
    ASSUME NEW t, IsTable(t), NEW ticket \in Nat
    PROVE  /\ ticket < TotalWeight(t) => \E i \in 1 .. Len(t) : Covers(t, i, ticket)
           /\ \A i, j \in 1 .. Len(t) : Covers(t, i, ticket) /\ Covers(t, j, ticket) => i = j
<1>1. Len(t) \in Nat /\ (t = <<>> <=> Len(t) = 0)
  BY ListFacts DEF IsTable, Entries
<1>2. ASSUME ticket < TotalWeight(t) PROVE \E i \in 1 .. Len(t) : Covers(t, i, ticket)
  <2> DEFINE S == {i \in 1 .. Len(t) : ticket < t[i].end}
  <2>1. t # <<>>
    BY <1>2, EndsRise DEF TotalWeight
  <2>2. Len(t) \in S
    BY <1>1, <1>2, <2>1, EndsRise
  <2>a. S \subseteq Nat /\ S # {}
    BY <2>2
  <2>3. PICK i \in S : \A j \in S : i <= j
    <3> HIDE DEF S
    <3> QED
      BY <2>a, LeastPosition
  <2>4. Start(t, i) <= ticket
    <3>1. CASE i = 1
      BY <3>1 DEF Start
    <3>2. CASE i # 1
      <4>1. i - 1 \in 1 .. Len(t) /\ i - 1 \notin S
        BY <1>1, <2>3, <3>2
      <4>2. t[i-1].end \in Nat
        BY <4>1, EndsRise
      <4> QED
        BY <3>2, <4>1, <4>2 DEF Start
    <3> QED
      BY <3>1, <3>2
  <2> QED
    BY <2>3, <2>4 DEF Covers
<1>3. ASSUME NEW i \in 1 .. Len(t), NEW j \in 1 .. Len(t), Covers(t, i, ticket), Covers(t, j, ticket), i < j
      PROVE  FALSE
  <2>1. t[i].end <= Start(t, j) /\ t[i].end \in Nat /\ Start(t, j) \in Nat
    BY <1>3, EndsRise
  <2> QED
    BY <1>3, <2>1 DEF Covers
<1> QED
  BY <1>1, <1>2, <1>3

\* Where a search between lower and upper ends.
Found(t, ticket, lower, upper, i) ==
    /\ i \in lower .. upper
    /\ i = upper \/ t[i].end > ticket
    /\ \A j \in lower .. i - 1 : t[j].end <= ticket

LEMMA FoundOnce ==
    ASSUME NEW t, IsTable(t), NEW ticket \in Nat,
           NEW lower \in 1 .. Len(t) + 1, NEW upper \in 1 .. Len(t) + 1, lower <= upper
    PROVE  /\ \E i \in lower .. upper : Found(t, ticket, lower, upper, i)
           /\ \A i, j : Found(t, ticket, lower, upper, i) /\ Found(t, ticket, lower, upper, j) => i = j
<1>1. Len(t) \in Nat
  BY ListFacts DEF IsTable, Entries
<1>2. \A j \in 1 .. Len(t) : t[j].end \in Nat
  BY EndsRise
<1>3. \E i \in lower .. upper : Found(t, ticket, lower, upper, i)
  <2> DEFINE S == {i \in lower .. upper : i = upper \/ t[i].end > ticket}
  <2>1. upper \in S
    OBVIOUS
  <2>a. S \subseteq Nat /\ S # {}
    <3>1. lower .. upper \subseteq Nat
      BY <1>1
    <3> QED
      BY <2>1, <3>1
  <2>2. PICK i \in S : \A j \in S : i <= j
    <3> HIDE DEF S
    <3> QED
      BY <2>a, LeastPosition
  <2>3. ASSUME NEW j \in lower .. i - 1 PROVE t[j].end <= ticket
    <3>1. j \in lower .. upper /\ j \notin S /\ j \in 1 .. Len(t)
      BY <1>1, <2>2
    <3> QED
      BY <1>2, <3>1
  <2> QED
    BY <2>2, <2>3 DEF Found
<1>4. ASSUME NEW i, NEW j, Found(t, ticket, lower, upper, i), Found(t, ticket, lower, upper, j), i < j
      PROVE  FALSE
  <2>1. i \in 1 .. Len(t) /\ i \in lower .. j - 1 /\ i # upper
    BY <1>1, <1>4 DEF Found
  <2> QED
    BY <1>2, <1>4, <2>1 DEF Found
<1>5. \A i, j : Found(t, ticket, lower, upper, i) /\ Found(t, ticket, lower, upper, j) => i \in Int /\ j \in Int
  BY DEF Found
<1>6. ASSUME NEW i, NEW j, Found(t, ticket, lower, upper, i), Found(t, ticket, lower, upper, j) PROVE i = j
  <2>1. i \in Int /\ j \in Int
    BY <1>5, <1>6
  <2>2. ~(i < j) /\ ~(j < i)
    BY <1>4, <1>6
  <2> QED
    BY <2>1, <2>2
<1> QED
  BY <1>3, <1>6

Middle(lower, upper) == lower + (upper - lower) \div 2

\* A search of one half is a search of the whole.
LEMMA Halved ==
    ASSUME NEW t, IsTable(t), NEW ticket \in Nat,
           NEW lower \in 1 .. Len(t) + 1, NEW upper \in 1 .. Len(t) + 1, lower < upper
    PROVE  LET middle == Middle(lower, upper)
           IN  /\ middle \in lower .. upper - 1 /\ middle \in 1 .. Len(t)
               /\ t[middle].end > ticket =>
                    \A i : Found(t, ticket, lower, middle, i) => Found(t, ticket, lower, upper, i)
               /\ ~(t[middle].end > ticket) =>
                    \A i : Found(t, ticket, middle + 1, upper, i) => Found(t, ticket, lower, upper, i)
<1> DEFINE middle == Middle(lower, upper)
<1>1. Len(t) \in Nat
  BY ListFacts DEF IsTable, Entries
<1>2. upper - lower \in Nat \ {0}
  BY <1>1
<1>a. \A a \in Nat : a \div 2 \in Nat /\ a = 2 * (a \div 2) + (a % 2) /\ a % 2 \in 0 .. 1
  OBVIOUS
<1>3. /\ (upper - lower) \div 2 \in Nat
      /\ upper - lower = 2 * ((upper - lower) \div 2) + ((upper - lower) % 2)
      /\ (upper - lower) % 2 \in 0 .. 1
  BY <1>2, <1>a
<1>4. middle \in lower .. upper - 1 /\ middle \in 1 .. Len(t)
  BY <1>1, <1>2, <1>3 DEF Middle
<1> HIDE DEF middle
<1>5. \A j \in 1 .. Len(t) : t[j].end \in Nat
  BY EndsRise
<1>6. ASSUME t[middle].end > ticket, NEW i, Found(t, ticket, lower, middle, i)
      PROVE  Found(t, ticket, lower, upper, i)
  BY <1>1, <1>4, <1>5, <1>6 DEF Found
<1>7. ASSUME ~(t[middle].end > ticket), NEW i, Found(t, ticket, middle + 1, upper, i)
      PROVE  Found(t, ticket, lower, upper, i)
  <2>1. \A j \in lower .. middle : t[j].end <= ticket
    <3>1. t[middle].end <= ticket
      BY <1>4, <1>5, <1>7
    <3>2. ASSUME NEW j \in lower .. middle - 1 PROVE t[j].end <= ticket
      <4>1. j \in 1 .. Len(t) /\ j < middle
        BY <1>1, <1>4
      <4>2. t[j].end < t[middle].end
        BY <1>4, <4>1, EndsRise
      <4> QED
        BY <1>4, <1>5, <3>1, <4>1, <4>2
    <3> QED
      BY <1>4, <3>1, <3>2
  <2>2. i \in lower .. upper /\ (i = upper \/ t[i].end > ticket)
    BY <1>1, <1>4, <1>7 DEF Found
  <2>3. ASSUME NEW j \in lower .. i - 1 PROVE t[j].end <= ticket
    <3>1. j \in lower .. middle \/ j \in middle + 1 .. i - 1
      BY <1>4
    <3> QED
      BY <1>7, <2>1, <3>1 DEF Found
  <2> QED
    BY <2>2, <2>3 DEF Found
<1> QED
  BY <1>4, <1>6, <1>7 DEF middle

IsSearch(f, t, ticket) ==
    f = [range \in (1..Len(t)+1) \X (1..Len(t)+1) |->
            IF range[1] >= range[2] THEN range[1]
            ELSE IF t[Middle(range[1], range[2])].end > ticket
                 THEN f[<<range[1], Middle(range[1], range[2])>>]
            ELSE f[<<Middle(range[1], range[2]) + 1, range[2]>>]]

LEMMA SearchExists ==
    ASSUME NEW t, IsTable(t), NEW ticket \in Nat
    PROVE  \E f : IsSearch(f, t, ticket)
<1> DEFINE N == 1 .. Len(t) + 1
           at(l, u) == IF l > u THEN l ELSE CHOOSE i : Found(t, ticket, l, u, i)
           g == [range \in N \X N |-> at(range[1], range[2])]
<1>1. Len(t) \in Nat
  BY ListFacts DEF IsTable, Entries
<1>2. ASSUME NEW l \in N, NEW u \in N, l <= u, NEW i, Found(t, ticket, l, u, i) PROVE at(l, u) = i
  <2>1. Found(t, ticket, l, u, CHOOSE j : Found(t, ticket, l, u, j))
    BY <1>2
  <2>2. (CHOOSE j : Found(t, ticket, l, u, j)) = i
    BY <1>2, <2>1, FoundOnce
  <2> QED
    BY <1>1, <1>2, <2>2
<1>3. ASSUME NEW l \in N, NEW u \in N, l <= u PROVE Found(t, ticket, l, u, at(l, u))
  BY <1>2, <1>3, FoundOnce
<1> HIDE DEF at
<1>4. ASSUME NEW l \in N, NEW u \in N
      PROVE  at(l, u) = IF l >= u THEN l
                        ELSE IF t[Middle(l, u)].end > ticket THEN at(l, Middle(l, u))
                        ELSE at(Middle(l, u) + 1, u)
  <2>1. CASE l > u
    BY <1>1, <2>1 DEF at
  <2>2. CASE l = u
    <3>1. Found(t, ticket, l, u, l)
      BY <1>1, <2>2 DEF Found
    <3> QED
      BY <1>1, <1>2, <2>2, <3>1
  <2>3. CASE l < u
    <3> DEFINE m == Middle(l, u)
    <3>1. m \in l .. u - 1 /\ m \in N /\ m + 1 \in N
      BY <1>1, <2>3, Halved
    <3>2. CASE t[m].end > ticket
      <4>1. Found(t, ticket, l, m, at(l, m))
        BY <1>1, <1>3, <3>1
      <4>2. Found(t, ticket, l, u, at(l, m))
        BY <2>3, <3>2, <4>1, Halved
      <4>3. at(l, u) = at(l, m)
        BY <1>1, <1>2, <2>3, <4>2
      <4> QED
        BY <1>1, <2>3, <3>2, <4>3
    <3>3. CASE ~(t[m].end > ticket)
      <4>1. Found(t, ticket, m + 1, u, at(m + 1, u))
        BY <1>1, <1>3, <3>1
      <4>2. Found(t, ticket, l, u, at(m + 1, u))
        BY <2>3, <3>3, <4>1, Halved
      <4>3. at(l, u) = at(m + 1, u)
        BY <1>1, <1>2, <2>3, <4>2
      <4> QED
        BY <1>1, <2>3, <3>3, <4>3
    <3> QED
      BY <3>2, <3>3
  <2> QED
    BY <1>1, <2>1, <2>2, <2>3
<1>5. \A l, u \in N : g[<<l, u>>] = at(l, u)
  OBVIOUS
<1>6. ASSUME NEW range \in N \X N
      PROVE  g[range] = IF range[1] >= range[2] THEN range[1]
                        ELSE IF t[Middle(range[1], range[2])].end > ticket
                             THEN g[<<range[1], Middle(range[1], range[2])>>]
                        ELSE g[<<Middle(range[1], range[2]) + 1, range[2]>>]
  <2>1. PICK l \in N, u \in N : range = <<l, u>>
    OBVIOUS
  <2>2. l < u => Middle(l, u) \in N /\ Middle(l, u) + 1 \in N
    <3>1. l < u => Middle(l, u) \in l .. u - 1
      BY Halved
    <3> QED
      BY <1>1, <3>1
  <2>3. range[1] = l /\ range[2] = u /\ g[range] = at(l, u)
    BY <1>5, <2>1
  <2>4. l < u => g[<<l, Middle(l, u)>>] = at(l, Middle(l, u)) /\ g[<<Middle(l, u) + 1, u>>] = at(Middle(l, u) + 1, u)
    BY <1>5, <2>2
  <2> HIDE DEF g
  <2>5. l >= u \/ l < u
    BY <1>1
  <2> QED
    BY <1>4, <2>3, <2>4, <2>5
<1>7. IsSearch(g, t, ticket)
  <2>1. g = [range \in N \X N |-> g[range]]
    OBVIOUS
  <2> HIDE DEF g
  <2> QED
    BY <1>6, <2>1 DEF IsSearch
<1> QED
  BY <1>7

LEMMA SearchFinds ==
    ASSUME NEW t, IsTable(t), NEW ticket \in Nat, NEW f, IsSearch(f, t, ticket),
           NEW lower \in 1 .. Len(t) + 1, NEW upper \in 1 .. Len(t) + 1, lower <= upper
    PROVE  Found(t, ticket, lower, upper, f[<<lower, upper>>])
<1> DEFINE N == 1 .. Len(t) + 1
           S == {d \in Nat : \A l, u \in N : l <= u /\ u - l <= d => Found(t, ticket, l, u, f[<<l, u>>])}
<1>1. Len(t) \in Nat
  BY ListFacts DEF IsTable, Entries
<1>2. ASSUME NEW l \in N, NEW u \in N
      PROVE  f[<<l, u>>] = IF l >= u THEN l
                           ELSE IF t[Middle(l, u)].end > ticket THEN f[<<l, Middle(l, u)>>]
                           ELSE f[<<Middle(l, u) + 1, u>>]
  <2>1. <<l, u>> \in N \X N /\ <<l, u>>[1] = l /\ <<l, u>>[2] = u
    OBVIOUS
  <2> QED
    BY <2>1 DEF IsSearch
<1>3. 0 \in S
  <2> SUFFICES ASSUME NEW l \in N, NEW u \in N, l <= u, u - l <= 0 PROVE Found(t, ticket, l, u, f[<<l, u>>])
    OBVIOUS
  <2>1. l = u /\ l >= u
    BY <1>1
  <2>2. f[<<l, u>>] = l
    BY <1>2, <2>1
  <2> QED
    BY <1>1, <2>1, <2>2 DEF Found
<1>4. ASSUME NEW d \in Nat, d \in S PROVE d + 1 \in S
  <2> SUFFICES ASSUME NEW l \in N, NEW u \in N, l <= u, u - l <= d + 1
               PROVE  Found(t, ticket, l, u, f[<<l, u>>])
    OBVIOUS
  <2>1. CASE l = u
    <3>1. f[<<l, u>>] = l
      BY <1>1, <1>2, <2>1
    <3> QED
      BY <1>1, <2>1, <3>1 DEF Found
  <2>2. CASE l < u
    <3> DEFINE m == Middle(l, u)
    <3>1. m \in l .. u - 1
      BY <2>2, Halved
    <3>2. m \in N /\ m + 1 \in N /\ l <= m /\ m - l <= d /\ m + 1 <= u /\ u - (m + 1) <= d
      BY <1>1, <3>1, SMTT(30)
    <3>3. Found(t, ticket, l, m, f[<<l, m>>]) /\ Found(t, ticket, m + 1, u, f[<<m + 1, u>>])
      BY <1>4, <3>2
    <3>4. f[<<l, u>>] = IF t[m].end > ticket THEN f[<<l, m>>] ELSE f[<<m + 1, u>>]
      <4>1. ~(l >= u)
        BY <1>1, <2>2
      <4> QED
        BY <1>2, <4>1
    <3> QED
      BY <2>2, <3>3, <3>4, Halved
  <2> QED
    BY <1>1, <2>1, <2>2
<1> HIDE DEF S
<1>5. \A d \in Nat : d \in S
  BY <1>3, <1>4, Ascent
<1>6. upper - lower \in Nat
  BY <1>1
<1> QED
  BY <1>1, <1>5, <1>6 DEF S

\* The two copies of the bisection do the same.
LEMMA BisectionsAgree ==
    ASSUME NEW t, NEW ticket
    PROVE  LocalChoiceForTicket(t, ticket) = ChoiceForTicket(t, ticket)
BY DEF LocalChoiceForTicket, ChoiceForTicket

(* Either bisection over the cumulative ends finds the choice whose        *)
(* stretch of tickets, as long as its weight, the ticket lies in, whatever *)
(* the table and however it came about                                     *)
(* (collation-weight-ticket-selection.ts,                                  *)
(* pack-local-pool-ticket-selection.ts).                                   *)
THEOREM BisectionFinds ==
    ASSUME NEW t, IsTable(t), NEW ticket \in Nat, NEW i \in 1 .. Len(t), Covers(t, i, ticket)
    PROVE  ChoiceForTicket(t, ticket) = t[i].key /\ LocalChoiceForTicket(t, ticket) = t[i].key
<1> DEFINE f == CHOOSE f : IsSearch(f, t, ticket)
<1>1. IsSearch(f, t, ticket)
  BY SearchExists
<1>2. ChoiceForTicket(t, ticket) = t[f[<<1, Len(t) + 1>>]].key
  BY DEF ChoiceForTicket, IsSearch, Middle
<1> HIDE DEF f
<1>3. Len(t) \in Nat /\ 1 \in 1 .. Len(t) + 1 /\ Len(t) + 1 \in 1 .. Len(t) + 1 /\ 1 <= Len(t) + 1
  BY ListFacts DEF IsTable, Entries
<1>4. Found(t, ticket, 1, Len(t) + 1, f[<<1, Len(t) + 1>>])
  BY <1>1, <1>3, SearchFinds
<1>5. Found(t, ticket, 1, Len(t) + 1, i)
  <2>1. t[i].end > ticket
    BY EndsRise DEF Covers
  <2>2. ASSUME NEW j \in 1 .. i - 1 PROVE t[j].end <= ticket
    <3>1. j \in 1 .. Len(t) /\ j < i
      BY <1>3
    <3>2. t[j].end <= Start(t, i) /\ t[j].end \in Nat /\ Start(t, i) \in Nat
      BY <3>1, EndsRise
    <3> QED
      BY <3>2 DEF Covers
  <2> QED
    BY <1>3, <2>1, <2>2 DEF Found
<1>6. f[<<1, Len(t) + 1>>] = i
  BY <1>3, <1>4, <1>5, FoundOnce
<1> QED
  BY <1>2, <1>6, BisectionsAgree

-----------------------------------------------------------------------------
(* Draws.                                                                  *)

\* What a sample selects from a table.
Selected(t, sample) ==
    IF MapSample(sample, TotalWeight(t)).state = "retry" THEN [state |-> "retry"]
    ELSE [state |-> "selected",
          identity |-> LocalChoiceForTicket(t, MapSample(sample, TotalWeight(t)).ticket)]

\* A table that tickets can be drawn from.
Drawable(t) == IsTable(t) /\ t # <<>> /\ TotalWeight(t) \in TicketBound

LEMMA DrawableFacts ==
    ASSUME NEW t, Drawable(t)
    PROVE  /\ Len(t) \in Nat \ {0} /\ DOMAIN t = 1 .. Len(t)
           /\ TotalWeight(t) \in Nat \ {0} /\ TotalWeight(t) = t[Len(t)].end
           /\ \A ticket \in 0 .. TotalWeight(t) - 1 :
                \E i \in 1 .. Len(t) : /\ Covers(t, i, ticket)
                                    /\ ChoiceForTicket(t, ticket) = t[i].key
                                    /\ LocalChoiceForTicket(t, ticket) = t[i].key
<1>1. Len(t) \in Nat /\ DOMAIN t = 1 .. Len(t) /\ (t = <<>> <=> Len(t) = 0)
  BY ListFacts DEF Drawable, IsTable, Entries
<1>2. TotalWeight(t) \in Nat \ {0} /\ TotalWeight(t) = t[Len(t)].end
  BY SampleEndAssumption, EndsRise DEF Drawable, TicketBound
<1>3. ASSUME NEW ticket \in 0 .. TotalWeight(t) - 1
      PROVE  \E i \in 1 .. Len(t) : /\ Covers(t, i, ticket)
                                    /\ ChoiceForTicket(t, ticket) = t[i].key
                                    /\ LocalChoiceForTicket(t, ticket) = t[i].key
  <2>1. ticket \in Nat /\ ticket < TotalWeight(t)
    BY <1>2
  <2>2. PICK i \in 1 .. Len(t) : Covers(t, i, ticket)
    BY <2>1, Covered DEF Drawable
  <2> QED
    BY <2>1, <2>2, BisectionFinds DEF Drawable
<1> QED
  BY <1>1, <1>2, <1>3 DEF Drawable

\* The samples that select a choice are those of its tickets.
LEMMA SelectingSamples ==
    ASSUME NEW t, Drawable(t), NEW i \in 1 .. Len(t), NEW s \in Sample
    PROVE  Selected(t, s) = [state |-> "selected", identity |-> t[i].key]
             <=> s < AcceptedEnd(TotalWeight(t)) /\ Covers(t, i, s % TotalWeight(t))
<1> DEFINE T == TotalWeight(t)
<1>1. T \in Nat \ {0} /\ s \in Nat /\ DOMAIN t = 1 .. Len(t) /\ IsTable(t)
  BY DrawableFacts DEF Sample, Drawable
<1>2. s % T \in 0 .. T - 1
  BY <1>1, Division
<1>3. CASE s < AcceptedEnd(T)
  <2>1. Selected(t, s) = [state |-> "selected", identity |-> LocalChoiceForTicket(t, s % T)]
    BY <1>3 DEF Selected, MapSample
  <2>2. PICK j \in 1 .. Len(t) : Covers(t, j, s % T) /\ LocalChoiceForTicket(t, s % T) = t[j].key
    BY <1>2, DrawableFacts
  <2>3. Covers(t, i, s % T) => i = j
    BY <1>1, <1>2, <2>2, Covered
  <2>4. t[i].key = t[j].key => i = j
    BY <1>1 DEF IsTable, Entries
  <2>5. Selected(t, s) = [state |-> "selected", identity |-> t[i].key] <=> t[j].key = t[i].key
    BY <2>1, <2>2
  <2> QED
    BY <1>3, <2>2, <2>3, <2>4, <2>5
<1>4. CASE ~(s < AcceptedEnd(T))
  <2>1. Selected(t, s) = [state |-> "retry"]
    BY <1>4 DEF Selected, MapSample
  <2>2. [state |-> "retry"].state # [state |-> "selected", identity |-> t[i].key].state
    OBVIOUS
  <2> QED
    BY <1>4, <2>1, <2>2
<1> QED
  BY <1>3, <1>4

(* A choice is selected by as many samples as its weight times the whole   *)
(* blocks of the total that the domain holds: the share of each is its     *)
(* weight, to the sample (selectPackLocalPoolSample over any state of a    *)
(* pool, and mapUint32SampleToUnbiasedTicket before it).                   *)
THEOREM SharesAreWeights ==
    ASSUME NEW t, Drawable(t), NEW i \in 1 .. Len(t)
    PROVE  Cardinality({s \in Sample : Selected(t, s) = [state |-> "selected", identity |-> t[i].key]})
             = t[i].weight * (SampleEnd \div TotalWeight(t))
<1> DEFINE T == TotalWeight(t)
           B == Blocks(T)
           w == t[i].weight
           start == Start(t, i)
           A == {s \in Sample : s < AcceptedEnd(T) /\ Covers(t, i, s % T)}
           D == (0 .. w - 1) \X (0 .. B - 1)
           f == [d \in D |-> start + d[1] + d[2] * T]
<1>1. /\ T \in Nat \ {0} /\ T \in TicketBound /\ B \in Nat \ {0} /\ SampleEnd \in Nat
      /\ AcceptedEnd(T) = B * T /\ B * T <= SampleEnd
  BY SampleEndAssumption, DrawableFacts, AcceptedBlocks DEF Drawable
<1>2. /\ w \in Nat \ {0} /\ start \in Nat /\ t[i].end = start + w /\ t[i].end \in Nat /\ t[i].end <= T
  BY EndsRise DEF Drawable
<1>3. {s \in Sample : Selected(t, s) = [state |-> "selected", identity |-> t[i].key]} = A
  BY SelectingSamples
<1> HIDE DEF T, B, w, start
<1>4. ASSUME NEW j \in 0 .. w - 1, NEW k \in 0 .. B - 1
      PROVE  /\ start + j + k * T \in A
             /\ (start + j + k * T) % T = start + j /\ (start + j + k * T) \div T = k
  <2>1. start + j \in 0 .. T - 1 /\ k \in Nat
    BY <1>1, <1>2
  <2> DEFINE r == start + j
  <2>2. (r + k * T) % T = r /\ (r + k * T) \div T = k
    <3>1. PICK b \in Nat \ {0} : b = T
      BY <1>1
    <3>2. PICK q \in Nat : q = k
      BY <2>1
    <3>3. PICK u \in 0 .. b - 1 : u = r
      BY <2>1, <3>1
    <3>4. (u + q * b) % b = u /\ (u + q * b) \div b = q
      BY DivisionUnique
    <3> HIDE DEF r
    <3> QED
      BY <3>1, <3>2, <3>3, <3>4
  <2> HIDE DEF r
  <2>3. (k + 1) * T <= B * T
    BY <1>1
  <2>4. r + k * T \in Nat /\ r + k * T < B * T
    <3>1. PICK v \in Nat : v = k * T
      BY <1>1, <2>1
    <3>2. (k + 1) * T = v + T
      BY <1>1, <2>1, <3>1
    <3>3. r \in Nat /\ r < T
      BY <1>1, <2>1 DEF r
    <3>4. B * T \in Nat
      BY <1>1
    <3> QED
      BY <1>1, <2>3, <3>1, <3>2, <3>3, <3>4, SMTT(30)
  <2>5. r + k * T \in Sample
    BY <1>1, <2>4 DEF Sample
  <2>6. Covers(t, i, r)
    BY <1>2, <2>1 DEF Covers, r, start
  <2>7. r + k * T < AcceptedEnd(T)
    BY <1>1, <2>4
  <2>8. r + k * T \in A
    BY <2>2, <2>5, <2>6, <2>7
  <2> HIDE DEF A
  <2> QED
    BY <2>2, <2>8 DEF r
<1>5. f \in [D -> A]
  BY <1>4
<1>6. ASSUME NEW d \in D, NEW e \in D, f[d] = f[e] PROVE d = e
  <2>1. PICK j \in 0 .. w - 1, k \in 0 .. B - 1 : d = <<j, k>>
    OBVIOUS
  <2>2. PICK l \in 0 .. w - 1, m \in 0 .. B - 1 : e = <<l, m>>
    OBVIOUS
  <2>3. start + j + k * T = start + l + m * T
    BY <1>6, <2>1, <2>2
  <2>4. start + j = start + l /\ k = m
    BY <1>4, <2>3
  <2>5. j = l
    BY <1>2, <2>4, SMTT(30)
  <2> QED
    BY <2>1, <2>2, <2>4, <2>5
<1>7. ASSUME NEW s \in A PROVE \E d \in D : f[d] = s
  <2>1. s \in Nat /\ s < B * T /\ start <= s % T /\ s % T < start + w
    BY <1>1, <1>2 DEF Sample, Covers, start
  <2>2. s \div T \in Nat /\ s % T \in 0 .. T - 1 /\ s = T * (s \div T) + (s % T)
    BY <1>1, <2>1, Division
  <2>3. s \div T < B
    BY <1>1, <2>1, <2>2
  <2> DEFINE j == (s % T) - start
             k == s \div T
  <2>4. j \in 0 .. w - 1 /\ k \in 0 .. B - 1 /\ start + j + k * T = s
    BY <1>1, <1>2, <2>1, <2>2, <2>3
  <2> HIDE DEF j, k
  <2>5. <<j, k>> \in D /\ f[<<j, k>>] = s
    BY <2>4
  <2> QED
    BY <2>5
<1>8. f \in Bijection(D, A)
  BY <1>5, <1>6, <1>7, Fun_IsBij
<1>9. IsFiniteSet(D) /\ Cardinality(D) = w * B
  <2>1. /\ IsFiniteSet(0 .. w - 1) /\ Cardinality(0 .. w - 1) = w
    <3>1. 0 \in Int /\ w - 1 \in Int /\ 0 <= w - 1 /\ (w - 1) - 0 + 1 = w
      BY <1>2
    <3> QED
      BY <3>1, FS_Interval
  <2>2. /\ IsFiniteSet(0 .. B - 1) /\ Cardinality(0 .. B - 1) = B
    <3>1. 0 \in Int /\ B - 1 \in Int /\ 0 <= B - 1 /\ (B - 1) - 0 + 1 = B
      BY <1>1
    <3> QED
      BY <3>1, FS_Interval
  <2> DEFINE V == 0 .. w - 1
             U == 0 .. B - 1
  <2>3. IsFiniteSet(V \X U) /\ Cardinality(V \X U) = Cardinality(V) * Cardinality(U)
    <3>1. IsFiniteSet(V) /\ IsFiniteSet(U)
      BY <2>1, <2>2
    <3> HIDE DEF V, U
    <3> QED
      BY <3>1, FS_Product
  <2> QED
    BY <2>1, <2>2, <2>3
<1>10. Cardinality(A) = w * B
  BY <1>8, <1>9, FS_Bijection DEF ExistsBijection
<1> QED
  BY <1>3, <1>10 DEF T, B, w, Blocks

-----------------------------------------------------------------------------
(* Removals.                                                               *)

\* m lists, in their order, the first n indices of t whose keys are not gone.
RemainingTo(m, t, gone, n) ==
    /\ Listed(m)
    /\ \A i \in 1 .. Len(m) : m[i] \in 1 .. n /\ t[m[i]].key \notin gone
    /\ \A i, j \in 1 .. Len(m) : i < j => m[i] < m[j]
    /\ \A k \in 1 .. n : t[k].key \notin gone => \E i \in 1 .. Len(m) : m[i] = k

Remaining(m, t, gone) == RemainingTo(m, t, gone, Len(t))

\* There is one such list.
LEMMA RemainingOnce ==
    ASSUME NEW t, Listed(t), NEW gone, NEW m, NEW n, Remaining(m, t, gone), Remaining(n, t, gone)
    PROVE  m = n
<1>1. /\ Len(m) \in Nat /\ Len(n) \in Nat /\ Len(t) \in Nat
      /\ \A i \in 1 .. Len(m) : m[i] \in Nat
      /\ \A i \in 1 .. Len(n) : n[i] \in Nat
  BY ListFacts DEF Remaining, RemainingTo
<1>2. \A i \in 1 .. Len(m) : \E j \in 1 .. Len(n) : n[j] = m[i]
  BY DEF Remaining, RemainingTo
<1>3. \A j \in 1 .. Len(n) : \E i \in 1 .. Len(m) : n[j] = m[i]
  <2> SUFFICES ASSUME NEW j \in 1 .. Len(n) PROVE \E i \in 1 .. Len(m) : n[j] = m[i]
    OBVIOUS
  <2>1. n[j] \in 1 .. Len(t) /\ t[n[j]].key \notin gone
    BY DEF Remaining, RemainingTo
  <2> QED
    BY <2>1 DEF Remaining, RemainingTo
<1>4. \A i, j \in 1 .. Len(m) : i < j => m[i] < m[j]
  BY DEF Remaining, RemainingTo
<1>5. \A i, j \in 1 .. Len(n) : i < j => n[i] < n[j]
  BY DEF Remaining, RemainingTo
<1> DEFINE S == {i \in Nat : \A h \in 1 .. i : (h <= Len(m) /\ h <= Len(n)) => m[h] = n[h]}
<1>6. 0 \in S
  OBVIOUS
<1>7. ASSUME NEW i \in Nat, i \in S PROVE i + 1 \in S
  <2> SUFFICES ASSUME i + 1 <= Len(m), i + 1 <= Len(n) PROVE m[i+1] = n[i+1]
    BY <1>7
  <2>1. \A h \in 1 .. i : m[h] = n[h]
    BY <1>1, <1>7
  <2>2. ~(m[i+1] < n[i+1])
    <3> SUFFICES ASSUME m[i+1] < n[i+1] PROVE FALSE
      OBVIOUS
    <3>1. PICK j \in 1 .. Len(n) : n[j] = m[i+1]
      BY <1>1, <1>2
    <3>2. CASE j <= i
      BY <1>1, <1>4, <2>1, <3>1, <3>2, SMTT(30)
    <3>3. CASE j > i
      BY <1>1, <1>5, <3>1, <3>3
    <3> QED
      BY <1>1, <3>2, <3>3
  <2>3. ~(n[i+1] < m[i+1])
    <3> SUFFICES ASSUME n[i+1] < m[i+1] PROVE FALSE
      OBVIOUS
    <3>1. PICK j \in 1 .. Len(m) : m[j] = n[i+1]
      BY <1>1, <1>3
    <3>2. CASE j <= i
      BY <1>1, <1>5, <2>1, <3>1, <3>2
    <3>3. CASE j > i
      BY <1>1, <1>4, <3>1, <3>3
    <3> QED
      BY <1>1, <3>2, <3>3
  <2> QED
    BY <1>1, <2>2, <2>3
<1> HIDE DEF S
<1>8. \A i \in Nat : i \in S
  BY <1>6, <1>7, Ascent
<1>9. \A h \in Nat \ {0} : h <= Len(m) /\ h <= Len(n) => m[h] = n[h]
  BY <1>8 DEF S
<1>10. ~(Len(m) < Len(n))
  <2> SUFFICES ASSUME Len(m) < Len(n) PROVE FALSE
    OBVIOUS
  <2>1. PICK j \in 1 .. Len(m) : n[Len(n)] = m[j]
    BY <1>1, <1>3
  <2>2. n[j] = n[Len(n)] /\ j < Len(n)
    BY <1>1, <1>9, <2>1
  <2> QED
    BY <1>1, <1>5, <2>2
<1>11. ~(Len(n) < Len(m))
  <2> SUFFICES ASSUME Len(n) < Len(m) PROVE FALSE
    OBVIOUS
  <2>1. PICK j \in 1 .. Len(n) : n[j] = m[Len(m)]
    BY <1>1, <1>2
  <2>2. m[j] = m[Len(m)] /\ j < Len(m)
    BY <1>1, <1>9, <2>1
  <2> QED
    BY <1>1, <1>4, <2>2
<1>12. Len(m) = Len(n) /\ \A i \in 1 .. Len(m) : m[i] = n[i]
  BY <1>1, <1>9, <1>10, <1>11
<1> QED
  BY <1>12, SameLists DEF Remaining, RemainingTo

LEMMA RemainingAll ==
    ASSUME NEW t, Listed(t)
    PROVE  Remaining([i \in 1 .. Len(t) |-> i], t, {})
<1> DEFINE m == [i \in 1 .. Len(t) |-> i]
<1>1. Len(t) \in Nat
  BY ListFacts
<1>2. Listed(m) /\ Len(m) = Len(t)
  BY <1>1, IndexedListed
<1> QED
  BY <1>1, <1>2 DEF Remaining, RemainingTo

LEMMA RemainingFewer ==
    ASSUME NEW t, Entries(t), NEW gone, NEW m, Remaining(m, t, gone), NEW k \in 1 .. Len(m)
    PROVE  Remaining(RemoveAt(m, k), t, gone \cup {t[m[k]].key})
<1> DEFINE r == RemoveAt(m, k)
           old(i) == IF i < k THEN i ELSE i + 1
<1>1. Listed(m) /\ Len(m) \in Nat /\ Len(t) \in Nat /\ DOMAIN t = 1 .. Len(t)
  BY ListFacts DEF Remaining, RemainingTo, Entries
<1>2. Listed(r) /\ Len(r) = Len(m) - 1 /\ \A i \in 1 .. Len(m) - 1 : r[i] = m[old(i)]
  BY <1>1, RemoveAtListed
<1> HIDE DEF r
<1>3. \A i \in 1 .. Len(m) - 1 : old(i) \in 1 .. Len(m) /\ old(i) # k
  BY <1>1
<1>4. \A i, j \in 1 .. Len(m) - 1 : i < j => old(i) < old(j)
  BY <1>1
<1>5. \A j \in 1 .. Len(m) : j # k => \E i \in 1 .. Len(m) - 1 : old(i) = j
  <2> SUFFICES ASSUME NEW j \in 1 .. Len(m), j # k PROVE \E i \in 1 .. Len(m) - 1 : old(i) = j
    OBVIOUS
  <2>1. CASE j < k
    <3>1. j \in 1 .. Len(m) - 1 /\ old(j) = j
      BY <1>1, <2>1
    <3> QED
      BY <3>1
  <2>2. CASE j > k
    <3>1. j - 1 \in 1 .. Len(m) - 1 /\ old(j - 1) = j
      BY <1>1, <2>2
    <3> QED
      BY <3>1
  <2> QED
    BY <1>1, <2>1, <2>2
<1> HIDE DEF old
<1>6. \A i \in 1 .. Len(m) : m[i] \in 1 .. Len(t) /\ t[m[i]].key \notin gone
  BY DEF Remaining, RemainingTo
<1>7. \A i, j \in 1 .. Len(m) : i < j => m[i] < m[j]
  BY DEF Remaining, RemainingTo
<1>8. ASSUME NEW i \in 1 .. Len(m), i # k PROVE t[m[i]].key # t[m[k]].key
  <2>1. m[i] # m[k]
    BY <1>1, <1>6, <1>7, <1>8
  <2> QED
    BY <1>1, <1>6, <2>1 DEF Entries
<1>9. \A i \in 1 .. Len(r) : r[i] \in 1 .. Len(t) /\ t[r[i]].key \notin gone \cup {t[m[k]].key}
  BY <1>1, <1>2, <1>3, <1>6, <1>8
<1>10. \A i, j \in 1 .. Len(r) : i < j => r[i] < r[j]
  BY <1>1, <1>2, <1>3, <1>4, <1>7
<1>11. ASSUME NEW h \in 1 .. Len(t), t[h].key \notin gone \cup {t[m[k]].key}
       PROVE  \E i \in 1 .. Len(r) : r[i] = h
  <2>1. PICK j \in 1 .. Len(m) : m[j] = h
    BY <1>11 DEF Remaining, RemainingTo
  <2>2. j # k
    BY <1>11, <2>1
  <2>3. PICK i \in 1 .. Len(m) - 1 : old(i) = j
    BY <1>5, <2>2
  <2> QED
    BY <1>1, <1>2, <2>1, <2>3
<1> QED
  BY <1>2, <1>9, <1>10, <1>11 DEF Remaining, RemainingTo, r

IsKept(f, t, gone, n) ==
    f = [i \in 0 .. n |-> IF i = 0 THEN <<>>
                          ELSE IF t[i].key \in gone THEN f[i-1]
                          ELSE Append(f[i-1], t[i])]

LEMMA KeptExists ==
    ASSUME NEW t, NEW gone
    PROVE  \A n \in Nat : \E f : IsKept(f, t, gone, n)
<1> DEFINE S == {n \in Nat : \E f : IsKept(f, t, gone, n)}
<1>1. 0 \in S
  <2>1. IsKept([i \in 0 .. 0 |-> <<>>], t, gone, 0)
    BY DEF IsKept
  <2> QED
    BY <2>1
<1>2. ASSUME NEW n \in Nat, n \in S PROVE n + 1 \in S
  <2>1. PICK f : IsKept(f, t, gone, n)
    BY <1>2
  <2> DEFINE last == IF t[n + 1].key \in gone THEN f[n] ELSE Append(f[n], t[n + 1])
             g == [i \in 0 .. n + 1 |-> IF i = n + 1 THEN last ELSE f[i]]
  <2>2. \A i \in 0 .. n : f[i] = IF i = 0 THEN <<>>
                                 ELSE IF t[i].key \in gone THEN f[i-1] ELSE Append(f[i-1], t[i])
    BY <2>1 DEF IsKept
  <2> HIDE DEF last
  <2>3. ASSUME NEW i \in 0 .. n + 1
        PROVE  g[i] = IF i = 0 THEN <<>>
                      ELSE IF t[i].key \in gone THEN g[i-1] ELSE Append(g[i-1], t[i])
    <3>1. CASE i = n + 1
      <4>1. g[i] = last /\ g[i-1] = f[n] /\ i # 0
        BY <3>1
      <4> QED
        BY <3>1, <4>1 DEF last
    <3>2. CASE i # n + 1
      <4>1. i \in 0 .. n /\ g[i] = f[i] /\ (i # 0 => g[i-1] = f[i-1])
        BY <3>2
      <4> QED
        BY <2>2, <4>1
    <3> QED
      BY <3>1, <3>2
  <2>4. g = [i \in 0 .. n + 1 |-> g[i]]
    OBVIOUS
  <2> HIDE DEF g
  <2>5. IsKept(g, t, gone, n + 1)
    BY <2>3, <2>4 DEF IsKept
  <2> QED
    BY <2>5
<1> HIDE DEF S
<1>3. \A n \in Nat : n \in S
  BY <1>1, <1>2, Ascent
<1> QED
  BY <1>3 DEF S

\* w is t at the indices m.
Picked(w, t, m) == Listed(w) /\ Len(w) = Len(m) /\ \A i \in 1 .. Len(m) : w[i] = t[m[i]]

LEMMA WithoutIsRemaining ==
    ASSUME NEW t, Listed(t), NEW gone
    PROVE  \E m : Remaining(m, t, gone) /\ Picked(Without(t, gone), t, m)
<1> DEFINE f == CHOOSE f : IsKept(f, t, gone, Len(t))
<1>1. Len(t) \in Nat
  BY ListFacts
<1>2. IsKept(f, t, gone, Len(t))
  BY <1>1, KeptExists
<1>3. Without(t, gone) = f[Len(t)]
  BY DEF Without, IsKept
<1> HIDE DEF f
<1>4. \A i \in 0 .. Len(t) : f[i] = IF i = 0 THEN <<>>
                                   ELSE IF t[i].key \in gone THEN f[i-1] ELSE Append(f[i-1], t[i])
  BY <1>2 DEF IsKept
<1> DEFINE S == {n \in Nat : n <= Len(t) => \E m : RemainingTo(m, t, gone, n) /\ Picked(f[n], t, m)}
<1>5. 0 \in S
  <2>1. f[0] = <<>>
    BY <1>1, <1>4
  <2>2. Listed(<<>>) /\ Len(<<>>) = 0
    BY EmptySeq DEF Listed
  <2>3. RemainingTo(<<>>, t, gone, 0) /\ Picked(f[0], t, <<>>)
    BY <2>1, <2>2 DEF RemainingTo, Picked
  <2> QED
    BY <2>3
<1>6. ASSUME NEW n \in Nat, n \in S PROVE n + 1 \in S
  <2> SUFFICES ASSUME n + 1 <= Len(t)
               PROVE  \E m : RemainingTo(m, t, gone, n + 1) /\ Picked(f[n + 1], t, m)
    OBVIOUS
  <2>1. PICK m : RemainingTo(m, t, gone, n) /\ Picked(f[n], t, m)
    BY <1>1, <1>6
  <2>2. Listed(m) /\ Len(m) \in Nat /\ \A i \in 1 .. Len(m) : m[i] \in 1 .. n
    BY <2>1, ListFacts DEF RemainingTo
  <2>3. f[n+1] = IF t[n+1].key \in gone THEN f[n] ELSE Append(f[n], t[n+1])
    BY <1>1, <1>4
  <2>4. CASE t[n+1].key \in gone
    <3>1. RemainingTo(m, t, gone, n + 1)
      BY <2>1, <2>2, <2>4 DEF RemainingTo
    <3> QED
      BY <2>1, <2>3, <2>4, <3>1
  <2>5. CASE t[n+1].key \notin gone
    <3> DEFINE l == Append(m, n + 1)
               w == Append(f[n], t[n+1])
    <3>1. /\ Listed(l) /\ Len(l) = Len(m) + 1 /\ l[Len(m) + 1] = n + 1
          /\ \A i \in 1 .. Len(m) : l[i] = m[i]
      BY <2>2, AppendListed
    <3>2. /\ Listed(w) /\ Len(w) = Len(m) + 1 /\ w[Len(m) + 1] = t[n+1]
          /\ \A i \in 1 .. Len(m) : w[i] = f[n][i]
      BY <2>1, AppendListed DEF Picked
    <3> HIDE DEF l, w
    <3>3. RemainingTo(l, t, gone, n + 1)
      <4>1. \A i \in 1 .. Len(l) : l[i] \in 1 .. n + 1 /\ t[l[i]].key \notin gone
        BY <2>1, <2>2, <2>5, <3>1 DEF RemainingTo
      <4>2. \A i, j \in 1 .. Len(l) : i < j => l[i] < l[j]
        BY <2>1, <2>2, <3>1, SMTT(20) DEF RemainingTo
      <4>3. ASSUME NEW k \in 1 .. n + 1, t[k].key \notin gone PROVE \E i \in 1 .. Len(l) : l[i] = k
        <5>1. CASE k = n + 1
          BY <2>2, <3>1, <5>1
        <5>2. CASE k # n + 1
          <6>1. PICK i \in 1 .. Len(m) : m[i] = k
            BY <2>1, <4>3, <5>2 DEF RemainingTo
          <6> QED
            BY <2>2, <3>1, <6>1
        <5> QED
          BY <5>1, <5>2
      <4> QED
        BY <3>1, <4>1, <4>2, <4>3 DEF RemainingTo
    <3>4. Picked(f[n+1], t, l)
      BY <2>1, <2>2, <2>3, <2>5, <3>1, <3>2 DEF Picked, w
    <3> QED
      BY <3>3, <3>4
  <2> QED
    BY <2>4, <2>5
<1> HIDE DEF S
<1>7. \A n \in Nat : n \in S
  BY <1>5, <1>6, Ascent
<1>8. \E m : RemainingTo(m, t, gone, Len(t)) /\ Picked(f[Len(t)], t, m)
  BY <1>1, <1>7 DEF S
<1> QED
  BY <1>3, <1>8 DEF Remaining

LEMMA CompiledTable ==
    ASSUME NEW e, Entries(e)
    PROVE  /\ IsTable(Compile(e)) /\ Entries(Compile(e)) /\ Listed(Compile(e))
           /\ SameEntries(Compile(e), e)
           /\ Len(e) \in Nat /\ DOMAIN e = 1 .. Len(e)
           /\ Len(Compile(e)) = Len(e) /\ DOMAIN Compile(e) = 1 .. Len(e)
<1>1. IsTable(Compile(e)) /\ SameEntries(Compile(e), e)
  BY CompileFacts
<1>2. Entries(Compile(e)) /\ Listed(Compile(e)) /\ Listed(e) /\ Len(Compile(e)) = Len(e)
  BY <1>1 DEF IsTable, Entries, SameEntries
<1> QED
  BY <1>1, <1>2, ListFacts

LEMMA RemoveAtEntries ==
    ASSUME NEW e, Entries(e), NEW k \in 1 .. Len(e)
    PROVE  /\ Entries(RemoveAt(e, k)) /\ Len(RemoveAt(e, k)) = Len(e) - 1
           /\ DOMAIN RemoveAt(e, k) = 1 .. Len(e) - 1
           /\ \A i \in 1 .. Len(e) - 1 : RemoveAt(e, k)[i] = e[IF i < k THEN i ELSE i + 1]
<1> DEFINE r == RemoveAt(e, k)
           old(i) == IF i < k THEN i ELSE i + 1
<1>1. Listed(e) /\ Len(e) \in Nat /\ DOMAIN e = 1 .. Len(e)
  BY ListFacts DEF Entries
<1>2. Listed(r) /\ Len(r) = Len(e) - 1 /\ \A i \in 1 .. Len(e) - 1 : r[i] = e[old(i)]
  BY <1>1, RemoveAtListed
<1>3. DOMAIN r = 1 .. Len(e) - 1
  BY <1>2, ListFacts
<1>4. \A i \in 1 .. Len(e) - 1 : old(i) \in 1 .. Len(e)
  BY <1>1
<1>5. \A i, j \in 1 .. Len(e) - 1 : old(i) = old(j) => i = j
  BY <1>1
<1> HIDE DEF r, old
<1>6. ASSUME NEW i \in 1 .. Len(e) - 1 PROVE r[i].weight \in Nat \ {0}
  BY <1>1, <1>2, <1>4 DEF Entries
<1>7. ASSUME NEW i \in 1 .. Len(e) - 1, NEW j \in 1 .. Len(e) - 1, r[i].key = r[j].key PROVE i = j
  <2>1. e[old(i)].key = e[old(j)].key
    BY <1>2, <1>7
  <2>2. old(i) = old(j)
    BY <1>1, <1>4, <2>1 DEF Entries
  <2> QED
    BY <1>5, <2>2
<1>8. Entries(r)
  BY <1>2, <1>3, <1>6, <1>7 DEF Entries
<1> QED
  BY <1>2, <1>3, <1>8 DEF r, old

\* What remains of a table is a table again, with no more weight.
LEMMA RemainingTable ==
    ASSUME NEW t, IsTable(t), NEW gone, NEW m, Remaining(m, t, gone), NEW w, Picked(w, t, m)
    PROVE  Entries(w) /\ TotalWeight(Compile(w)) <= TotalWeight(t)
<1> DEFINE c == Compile(w)
<1>1. /\ Listed(m) /\ Len(m) \in Nat /\ Len(t) \in Nat /\ DOMAIN t = 1 .. Len(t)
      /\ Listed(w) /\ DOMAIN w = 1 .. Len(w) /\ Len(w) = Len(m)
  BY ListFacts DEF Remaining, RemainingTo, Picked, IsTable, Entries
<1>2. \A i \in 1 .. Len(m) : m[i] \in 1 .. Len(t) /\ w[i] = t[m[i]]
  BY DEF Remaining, RemainingTo, Picked
<1>3. \A i, j \in 1 .. Len(m) : i < j => m[i] < m[j]
  BY DEF Remaining, RemainingTo
<1>4. Entries(w)
  <2>1. \A i \in 1 .. Len(w) : w[i].weight \in Nat \ {0}
    BY <1>1, <1>2 DEF IsTable, Entries
  <2>2. ASSUME NEW i \in 1 .. Len(w), NEW j \in 1 .. Len(w), w[i].key = w[j].key PROVE i = j
    <3>1. m[i] = m[j]
      BY <1>1, <1>2, <2>2 DEF IsTable, Entries
    <3> QED
      BY <1>1, <1>2, <1>3, <3>1
  <2> QED
    BY <1>1, <2>1, <2>2 DEF Entries
<1>5. IsTable(c) /\ SameEntries(c, w) /\ Len(c) = Len(m) /\ DOMAIN c = 1 .. Len(m)
  BY <1>1, <1>4, CompiledTable
<1> HIDE DEF c
<1>6. \A i \in 1 .. Len(m) : c[i].end \in Nat /\ t[m[i]].end \in Nat /\ Start(t, m[i]) \in Nat
  BY <1>2, <1>5, EndsRise
<1> DEFINE S == {i \in Nat : i \in 1 .. Len(m) => c[i].end <= t[m[i]].end}
<1>7. 0 \in S
  OBVIOUS
<1>8. ASSUME NEW i \in Nat, i \in S PROVE i + 1 \in S
  <2> SUFFICES ASSUME i + 1 \in 1 .. Len(m) PROVE c[i+1].end <= t[m[i+1]].end
    OBVIOUS
  <2>1. /\ c[i+1].end = Start(c, i+1) + c[i+1].weight /\ c[i+1].weight \in Nat
        /\ Start(c, i+1) \in Nat
    BY <1>5, EndsRise
  <2>2. /\ t[m[i+1]].end = Start(t, m[i+1]) + t[m[i+1]].weight
        /\ c[i+1].weight = t[m[i+1]].weight
    BY <1>2, <1>5, EndsRise, ZenonT(40) DEF SameEntries
  <2>3. Start(c, i+1) <= Start(t, m[i+1])
    <3>1. CASE i = 0
      BY <1>6, <3>1 DEF Start
    <3>2. CASE i # 0
      <4>1. i \in 1 .. Len(m) /\ Start(c, i+1) = c[i].end
        BY <1>1, <3>2 DEF Start
      <4>2. c[i].end <= t[m[i]].end /\ m[i] < m[i+1]
        BY <1>3, <1>8, <4>1
      <4>3. t[m[i]].end <= Start(t, m[i+1])
        BY <1>2, <4>1, <4>2, EndsRise
      <4> QED
        BY <1>6, <4>1, <4>2, <4>3
    <3> QED
      BY <3>1, <3>2
  <2>4. Start(t, m[i+1]) \in Nat
    BY <1>6
  <2> QED
    BY <2>1, <2>2, <2>3, <2>4
<1> HIDE DEF S
<1>9. \A i \in Nat : i \in S
  BY <1>7, <1>8, Ascent
<1>10. TotalWeight(c) <= TotalWeight(t)
  <2>1. CASE Len(m) = 0
    <3>1. c = <<>>
      BY <1>5, <2>1, ListFacts DEF IsTable, Entries
    <3>2. TotalWeight(c) = 0 /\ TotalWeight(t) \in Nat
      BY <3>1, EndsRise DEF TotalWeight
    <3> QED
      BY <3>2
  <2>2. CASE Len(m) # 0
    <3>1. Len(m) \in 1 .. Len(m) /\ c # <<>>
      BY <1>1, <1>5, <2>2, EmptySeq
    <3>2. c[Len(m)].end <= t[m[Len(m)]].end
      BY <1>9, <3>1 DEF S
    <3>3. TotalWeight(c) = c[Len(m)].end
      BY <1>5, <3>1, EndsRise
    <3>4. t[m[Len(m)]].end <= TotalWeight(t) /\ TotalWeight(t) \in Nat
      <4>1. m[Len(m)] \in 1 .. Len(t) /\ t # <<>>
        BY <1>1, <1>2, <3>1, EmptySeq
      <4> QED
        BY <4>1, EndsRise
    <3> QED
      BY <1>6, <3>1, <3>2, <3>3, <3>4
  <2> QED
    BY <2>1, <2>2
<1> QED
  BY <1>4, <1>10 DEF c

\* Entry k is all that separates w from what is left without its identity too.
OneLess(t, gone, w, k) ==
    /\ Without(t, gone \cup {w[k].key}) = RemoveAt(w, k)
    /\ w[k].key \notin gone
    /\ \E i \in DOMAIN t : t[i].key = w[k].key

\* One identity less.
LEMMA WithoutOne ==
    ASSUME NEW t, Entries(t), NEW gone, NEW w, w = Without(t, gone), NEW k \in 1 .. Len(w)
    PROVE  OneLess(t, gone, w, k)
<1> DEFINE v == Without(t, gone \cup {w[k].key})
<1>1. Listed(t) /\ DOMAIN t = 1 .. Len(t)
  BY ListFacts DEF Entries
<1>2. PICK m : Remaining(m, t, gone) /\ Picked(w, t, m)
  BY <1>1, WithoutIsRemaining
<1>3. PICK n : Remaining(n, t, gone \cup {w[k].key}) /\ Picked(v, t, n)
  BY <1>1, WithoutIsRemaining
<1> HIDE DEF v
<1>4. k \in 1 .. Len(m) /\ w[k] = t[m[k]] /\ Len(m) \in Nat /\ Listed(m)
  BY <1>2, ListFacts DEF Picked, Remaining, RemainingTo
<1>5. Remaining(RemoveAt(m, k), t, gone \cup {w[k].key})
  BY <1>2, <1>4, RemainingFewer
<1>6. n = RemoveAt(m, k)
  BY <1>1, <1>3, <1>5, RemainingOnce
<1>7. /\ Listed(n) /\ Len(n) = Len(m) - 1
      /\ \A i \in 1 .. Len(m) - 1 : n[i] = m[IF i < k THEN i ELSE i + 1]
  BY <1>4, <1>6, RemoveAtListed
<1>8. /\ Listed(RemoveAt(w, k)) /\ Len(RemoveAt(w, k)) = Len(m) - 1
      /\ \A i \in 1 .. Len(m) - 1 : RemoveAt(w, k)[i] = w[IF i < k THEN i ELSE i + 1]
  BY <1>2, <1>4, RemoveAtListed DEF Picked
<1>9. ASSUME NEW i \in 1 .. Len(m) - 1 PROVE v[i] = RemoveAt(w, k)[i]
  <2> DEFINE o == IF i < k THEN i ELSE i + 1
  <2>1. o \in 1 .. Len(m)
    BY <1>4
  <2>2. n[i] = m[o] /\ RemoveAt(w, k)[i] = w[o]
    BY <1>7, <1>8
  <2>3. w[o] = t[m[o]] /\ v[i] = t[n[i]]
    BY <1>2, <1>3, <1>7, <2>1 DEF Picked
  <2> QED
    BY <2>2, <2>3
<1>10. v = RemoveAt(w, k)
  BY <1>3, <1>7, <1>8, <1>9, SameLists DEF Picked
<1>11. m[k] \in DOMAIN t /\ t[m[k]].key \notin gone
  BY <1>1, <1>2, <1>4 DEF Remaining, RemainingTo
<1> QED
  BY <1>4, <1>10, <1>11 DEF OneLess, v

LEMMA WithoutNone ==
    ASSUME NEW t, Listed(t)
    PROVE  Without(t, {}) = t
<1>1. PICK m : Remaining(m, t, {}) /\ Picked(Without(t, {}), t, m)
  BY WithoutIsRemaining
<1>2. m = [i \in 1 .. Len(t) |-> i]
  BY <1>1, RemainingAll, RemainingOnce
<1>3. Len(t) \in Nat
  BY ListFacts
<1>4. Len(m) = Len(t)
  BY <1>2, <1>3, IndexedListed
<1> QED
  BY <1>1, <1>2, <1>4, SameLists DEF Picked

\* Compiling what is left of a table's entries, or of the table, is the same.
LEMMA CompileRemoval ==
    ASSUME NEW w, Entries(w), NEW k \in 1 .. Len(w)
    PROVE  Compile(RemoveAt(Compile(w), k)) = Compile(RemoveAt(w, k))
<1> DEFINE c == Compile(w)
           r == RemoveAt(w, k)
           s == RemoveAt(c, k)
<1>1. Entries(c) /\ SameEntries(c, w) /\ Len(c) = Len(w) /\ Len(w) \in Nat /\ DOMAIN c = 1 .. Len(w)
  BY CompiledTable
<1>2. /\ Entries(r) /\ Len(r) = Len(w) - 1 /\ DOMAIN r = 1 .. Len(w) - 1
      /\ \A i \in 1 .. Len(w) - 1 : r[i] = w[IF i < k THEN i ELSE i + 1]
  BY RemoveAtEntries
<1> HIDE DEF c
<1>3. /\ Entries(s) /\ Len(s) = Len(w) - 1 /\ DOMAIN s = 1 .. Len(w) - 1
      /\ \A i \in 1 .. Len(w) - 1 : s[i] = c[IF i < k THEN i ELSE i + 1]
  BY <1>1, RemoveAtEntries
<1> HIDE DEF r, s
<1>4. \A i \in 1 .. Len(w) - 1 : (IF i < k THEN i ELSE i + 1) \in 1 .. Len(w)
  BY <1>1
<1>5. SameEntries(s, r)
  BY <1>1, <1>2, <1>3, <1>4, ZenonT(40) DEF SameEntries
<1>6. /\ IsTable(Compile(r)) /\ SameEntries(Compile(r), r) /\ Len(Compile(r)) = Len(w) - 1
      /\ DOMAIN Compile(r) = 1 .. Len(w) - 1
  BY <1>2, CompiledTable
<1>7. /\ IsTable(Compile(s)) /\ SameEntries(Compile(s), s) /\ Len(Compile(s)) = Len(w) - 1
      /\ DOMAIN Compile(s) = 1 .. Len(w) - 1
  BY <1>3, CompiledTable
<1>8. SameEntries(Compile(s), Compile(r))
  BY <1>2, <1>3, <1>5, <1>6, <1>7 DEF SameEntries
<1> QED
  BY <1>6, <1>7, <1>8, CompileSame DEF c, r, s

-----------------------------------------------------------------------------
(* The compiled set.                                                       *)

LEMMA PoolFacts ==
    ASSUME NEW p \in Pools
    PROVE  /\ Entries(PoolEntries[p]) /\ PoolTable[p] = Compile(PoolEntries[p])
           /\ SameEntries(PoolTable[p], PoolEntries[p]) /\ DOMAIN PoolEntries[p] = DOMAIN PoolTable[p]
           /\ Drawable(PoolTable[p])
<1> DEFINE e == PoolEntries[p]
<1>1. Entries(e) /\ e # <<>>
  BY CollationAssumption DEF Entries, Listed
<1>2. PoolTable[p] = Compile(e)
  BY DEF PoolTable
<1>3. /\ IsTable(PoolTable[p]) /\ SameEntries(PoolTable[p], e) /\ DOMAIN e = DOMAIN PoolTable[p]
      /\ Len(PoolTable[p]) = Len(e)
  BY <1>1, <1>2, CompiledTable
<1>4. PoolTable[p] # <<>>
  <2>1. Len(e) # 0
    BY <1>1, ListFacts DEF Entries
  <2> QED
    BY <1>3, <2>1, EmptySeq
<1>5. TotalWeight(PoolTable[p]) \in TicketBound
  <2>1. Len(PoolTable[p]) \in 1 .. Len(PoolTable[p])
    BY <1>3, <1>4, ListFacts DEF IsTable, Entries
  <2>2. TotalWeight(PoolTable[p]) \in Nat \ {0}
    BY <1>3, <1>4, <2>1, EndsRise
  <2> QED
    BY <2>2, SampleEndAssumption, TablesFitAssumption DEF TicketBound
<1> QED
  BY <1>1, <1>2, <1>3, <1>4, <1>5 DEF Drawable

LEMMA LayoutFacts ==
    /\ Drawable(LayoutTable) /\ Len(LayoutTable) = Len(Layouts) /\ Len(Layouts) \in Nat
    /\ DOMAIN LayoutTable = 1 .. Len(Layouts) /\ DOMAIN Layouts = 1 .. Len(Layouts)
    /\ \A l \in DOMAIN Layouts :
        /\ LayoutTable[l].key = l /\ LayoutTable[l].weight = Layouts[l].weight
        /\ Len(Slots(l)) = PositionCount
        /\ \A k \in 1 .. PositionCount : Slots(l)[k] \in Pools
    /\ PositionCount \in Nat \ {0}
<1> DEFINE e == [l \in DOMAIN Layouts |-> [key |-> l, weight |-> Layouts[l].weight]]
<1>1. Listed(Layouts) /\ Layouts # <<>>
  BY CollationAssumption DEF Listed
<1>2. Len(Layouts) \in Nat \ {0} /\ DOMAIN Layouts = 1 .. Len(Layouts)
  BY <1>1, ListFacts
<1>3. Listed(e) /\ Len(e) = Len(Layouts) /\ DOMAIN e = 1 .. Len(Layouts)
  BY <1>2, IndexedListed
<1>4. Entries(e)
  BY <1>2, <1>3, CollationAssumption DEF Entries
<1>5. LayoutTable = Compile(e)
  BY DEF LayoutTable
<1>6. \A l \in 1 .. Len(Layouts) : e[l].key = l /\ e[l].weight = Layouts[l].weight
  BY <1>2
<1> HIDE DEF e
<1>7. /\ IsTable(LayoutTable) /\ SameEntries(LayoutTable, e) /\ Len(LayoutTable) = Len(Layouts)
      /\ DOMAIN LayoutTable = 1 .. Len(Layouts)
  BY <1>3, <1>4, <1>5, CompiledTable
<1>8. LayoutTable # <<>>
  BY <1>2, <1>7, EmptySeq
<1>9. TotalWeight(LayoutTable) \in TicketBound
  <2>1. Len(LayoutTable) \in 1 .. Len(LayoutTable)
    BY <1>2, <1>7
  <2>2. TotalWeight(LayoutTable) \in Nat \ {0}
    BY <1>7, <1>8, <2>1, EndsRise
  <2> QED
    BY <2>2, SampleEndAssumption, TablesFitAssumption DEF TicketBound
<1>10. ASSUME NEW l \in DOMAIN Layouts
       PROVE  Len(Slots(l)) = PositionCount /\ \A k \in 1 .. PositionCount : Slots(l)[k] \in Pools
  <2>1. Slots(l) \in Seq(Pools) /\ Len(Slots(l)) = PositionCount
    BY <1>10, CollationAssumption
  <2> QED
    BY <2>1, ElementOfSeq
<1> QED
  BY <1>2, <1>6, <1>7, <1>8, <1>9, <1>10, CollationAssumption DEF Drawable, SameEntries

\* What a pool is when some of its identities are gone.
Left(p, gone) == Compile(Without(PoolTable[p], gone))

LEMMA LeftFacts ==
    ASSUME NEW p \in Pools, NEW gone
    PROVE  /\ Entries(Without(PoolTable[p], gone)) /\ IsTable(Left(p, gone))
           /\ SameEntries(Left(p, gone), Without(PoolTable[p], gone))
           /\ Len(Left(p, gone)) = Len(Without(PoolTable[p], gone)) /\ Len(Left(p, gone)) \in Nat
           /\ DOMAIN Left(p, gone) = 1 .. Len(Left(p, gone))
           /\ Left(p, gone) # <<>> => Drawable(Left(p, gone))
<1> DEFINE t == PoolTable[p]
           w == Without(t, gone)
           c == Compile(w)
<1>1. Drawable(t)
  BY PoolFacts
<1>2. IsTable(t) /\ Listed(t) /\ TotalWeight(t) \in Nat /\ TotalWeight(t) <= SampleEnd
  BY <1>1, SampleEndAssumption DEF Drawable, IsTable, Entries, TicketBound
<1>3. PICK m : Remaining(m, t, gone) /\ Picked(w, t, m)
  BY <1>2, WithoutIsRemaining
<1>4. Entries(w) /\ TotalWeight(c) <= TotalWeight(t)
  BY <1>2, <1>3, RemainingTable
<1>5. /\ IsTable(c) /\ Listed(c) /\ SameEntries(c, w) /\ Len(w) \in Nat /\ Len(c) = Len(w)
      /\ DOMAIN c = 1 .. Len(w)
  BY <1>4, CompiledTable
<1> HIDE DEF c, w, t
<1>6. c # <<>> => TotalWeight(c) \in TicketBound
  <2>1. SUFFICES ASSUME c # <<>> PROVE TotalWeight(c) \in TicketBound
    OBVIOUS
  <2>2. Len(c) \in 1 .. Len(c)
    BY <1>5, <2>1, ListFacts
  <2>3. TotalWeight(c) \in Nat \ {0}
    BY <1>5, <2>1, <2>2, EndsRise
  <2> QED
    BY <1>2, <1>4, <2>3, SampleEndAssumption DEF TicketBound
<1>7. Left(p, gone) = c
  BY DEF Left, c, w, t
<1> QED
  BY <1>4, <1>5, <1>6, <1>7 DEF Drawable, w, t

\* What is left of a pool after its entry k, of identity id, is removed.
RemovedAt(p, gone, k, id) ==
    /\ IndexesOf(Left(p, gone), id) = {k}
    /\ Compile(RemoveAt(Left(p, gone), k)) = Left(p, gone \cup {id})
    /\ Len(Left(p, gone \cup {id})) = Len(Left(p, gone)) - 1
    /\ id \notin gone /\ \E i \in DOMAIN PoolTable[p] : PoolTable[p][i].key = id

\* Removing the identity of a choice leaves what the pool is without it.
LEMMA RemovalIsLeft ==
    ASSUME NEW p \in Pools, NEW gone, NEW k \in 1 .. Len(Left(p, gone)),
           NEW id, id = Left(p, gone)[k].key
    PROVE  RemovedAt(p, gone, k, id)
<1> DEFINE t == PoolTable[p]
           w == Without(t, gone)
           c == Compile(w)
<1>1. Entries(t)
  BY PoolFacts DEF Drawable, IsTable
<1>2. /\ Entries(w) /\ IsTable(c) /\ SameEntries(c, w) /\ Len(c) = Len(w) /\ DOMAIN c = 1 .. Len(w)
      /\ Len(w) \in Nat /\ k \in 1 .. Len(w)
  BY LeftFacts DEF Left
<1>3. id = c[k].key
  BY DEF Left
<1>4. Left(p, gone) = c /\ Left(p, gone \cup {id}) = Compile(Without(t, gone \cup {id}))
  BY DEF Left
<1>5. c = Compile(w) /\ w = Without(t, gone)
  OBVIOUS
<1> HIDE DEF c, w, t
<1>6. id = w[k].key /\ IndexesOf(c, id) = {k}
  <2>1. id = w[k].key
    BY <1>2, <1>3 DEF SameEntries
  <2>2. IndexesOf(c, c[k].key) = {k}
    <3>1. /\ DOMAIN c = 1 .. Len(c) /\ k \in DOMAIN c
          /\ \A i, j \in DOMAIN c : i # j => c[i].key # c[j].key
      BY <1>2 DEF IsTable, Entries
    <3>2. \A i \in DOMAIN c : c[i].key = c[k].key <=> i = k
      BY <3>1
    <3>3. IndexesOf(c, c[k].key) = {i \in DOMAIN c : c[i].key = c[k].key}
      BY DEF IndexesOf
    <3> QED
      BY <3>1, <3>2, <3>3
  <2> QED
    BY <1>3, <2>1, <2>2
<1>7. Compile(RemoveAt(c, k)) = Compile(RemoveAt(w, k))
  BY <1>5, <1>2, CompileRemoval
<1>8. /\ Without(t, gone \cup {w[k].key}) = RemoveAt(w, k)
      /\ w[k].key \notin gone /\ \E i \in DOMAIN t : t[i].key = w[k].key
  <2>1. k \in 1 .. Len(w)
    BY <1>2
  <2>2. OneLess(t, gone, w, k)
    BY <1>1, <1>5, <2>1, WithoutOne
  <2> QED
    BY <2>2 DEF OneLess
<1>9. Len(Compile(RemoveAt(w, k))) = Len(w) - 1
  <2>1. Entries(RemoveAt(w, k)) /\ Len(RemoveAt(w, k)) = Len(w) - 1
    BY <1>2, RemoveAtEntries, ZenonT(60)
  <2> QED
    BY <2>1, CompiledTable
<1>10. /\ IndexesOf(c, id) = {k} /\ Compile(RemoveAt(c, k)) = Left(p, gone \cup {id})
      /\ Len(Left(p, gone \cup {id})) = Len(c) - 1
  <2>1. Left(p, gone \cup {id}) = Compile(RemoveAt(w, k))
    BY <1>6, <1>8, <1>4
  <2> QED
    BY <1>2, <1>6, <1>7, <1>9, <2>1
<1>11. id \notin gone /\ \E i \in DOMAIN t : t[i].key = id
  BY <1>6, <1>8
<1> QED
  BY <1>4, <1>10, <1>11 DEF RemovedAt, t

LEMMA LeftAll ==
    ASSUME NEW p \in Pools
    PROVE  Left(p, {}) = PoolTable[p]
<1>1. Drawable(PoolTable[p]) /\ Listed(PoolTable[p]) /\ IsTable(PoolTable[p])
  BY PoolFacts DEF Drawable, IsTable, Entries
<1>2. Left(p, {}) = Compile(PoolTable[p])
  BY <1>1, WithoutNone DEF Left
<1>3. IsTable(Compile(PoolTable[p])) /\ SameEntries(Compile(PoolTable[p]), PoolTable[p])
  BY <1>1, CompiledTable DEF IsTable
<1> QED
  BY <1>1, <1>2, <1>3, CompileSame

-----------------------------------------------------------------------------
(* Plans.                                                                  *)

\* Positions filled from a pool.
Taken(history, p) == {i \in DOMAIN history : history[i].pool = p}

\* What holds of a plan between two positions.
PlanOK(plan) ==
    /\ plan = [layout |-> plan.layout, pools |-> plan.pools, next |-> plan.next, history |-> plan.history]
    /\ plan.layout \in DOMAIN Layouts /\ CanRegister(plan.layout)
    /\ plan.next \in 0 .. PositionCount
    /\ Listed(plan.history) /\ Len(plan.history) = plan.next
    /\ \A i \in 1 .. plan.next :
        plan.history[i] = [pool |-> Slots(plan.layout)[i], identity |-> plan.history[i].identity]
    /\ \A i, j \in 1 .. plan.next : plan.history[i] = plan.history[j] => i = j
    /\ plan.pools = [p \in Pools |-> Left(p, SelectedFrom(plan.history, p))]
    /\ \A p \in Pools : Len(plan.pools[p]) = Len(PoolTable[p]) - Cardinality(Taken(plan.history, p))

LEMMA HistoryFacts ==
    ASSUME NEW plan, PlanOK(plan)
    PROVE  /\ plan.next \in Nat /\ PositionCount \in Nat /\ plan.next <= PositionCount
           /\ Listed(plan.history) /\ Len(plan.history) = plan.next /\ DOMAIN plan.history = 1 .. plan.next
           /\ \A i \in 1 .. plan.next : /\ plan.history[i].pool = Slots(plan.layout)[i]
                                       /\ i \in 1 .. PositionCount /\ Slots(plan.layout)[i] \in Pools
<1>1. /\ plan.next \in Nat /\ PositionCount \in Nat /\ plan.next <= PositionCount
  BY LayoutFacts DEF PlanOK
<1>2. Listed(plan.history) /\ Len(plan.history) = plan.next
  BY DEF PlanOK
<1>3. DOMAIN plan.history = 1 .. plan.next
  BY <1>2, ListFacts
<1>4. ASSUME NEW i \in 1 .. plan.next PROVE plan.history[i].pool = Slots(plan.layout)[i]
  <2>1. plan.history[i] = [pool |-> Slots(plan.layout)[i], identity |-> plan.history[i].identity]
    BY DEF PlanOK
  <2> QED
    BY <2>1
<1>5. \A i \in 1 .. plan.next : i \in 1 .. PositionCount /\ Slots(plan.layout)[i] \in Pools
  BY <1>1, LayoutFacts DEF PlanOK
<1> QED
  BY <1>1, <1>2, <1>3, <1>4, <1>5

LEMMA TakenFinite ==
    ASSUME NEW history, Listed(history), NEW p
    PROVE  IsFiniteSet(Taken(history, p)) /\ Cardinality(Taken(history, p)) \in Nat
<1>1. Len(history) \in Nat /\ DOMAIN history = 1 .. Len(history)
  BY ListFacts
<1>2. IsFiniteSet(1 .. Len(history))
  BY <1>1, FS_Interval
<1>3. Taken(history, p) \in SUBSET (1 .. Len(history))
  BY <1>1 DEF Taken
<1> QED
  BY <1>2, <1>3, FS_Subset, FS_CardinalityType

LEMMA HistoryGrows ==
    ASSUME NEW h, Listed(h), NEW x, NEW p
    PROVE  /\ SelectedFrom(Append(h, x), p) = SelectedFrom(h, p) \cup IF x.pool = p THEN {x.identity} ELSE {}
           /\ Cardinality(Taken(Append(h, x), p)) = Cardinality(Taken(h, p)) + IF x.pool = p THEN 1 ELSE 0
<1> DEFINE a == Append(h, x)
           n == Len(h)
<1>1. n \in Nat /\ DOMAIN h = 1 .. n
  BY ListFacts
<1>2. /\ Listed(a) /\ Len(a) = n + 1 /\ a[n + 1] = x
      /\ \A i \in 1 .. n : a[i] = h[i]
  BY AppendListed
<1>3. DOMAIN a = 1 .. n + 1
  BY <1>2, ListFacts
<1> HIDE DEF a, n
<1>4. ToSet(a) = ToSet(h) \cup {x}
  BY <1>1, <1>2, <1>3 DEF ToSet
<1>5. SelectedFrom(a, p) = SelectedFrom(h, p) \cup IF x.pool = p THEN {x.identity} ELSE {}
  BY <1>4 DEF SelectedFrom
<1>6. Taken(a, p) = Taken(h, p) \cup IF x.pool = p THEN {n + 1} ELSE {}
  BY <1>1, <1>2, <1>3 DEF Taken
<1>7. n + 1 \notin Taken(h, p)
  BY <1>1 DEF Taken
<1>8. IsFiniteSet(Taken(h, p)) /\ Cardinality(Taken(h, p)) \in Nat
  BY TakenFinite
<1>9. Cardinality(Taken(a, p)) = Cardinality(Taken(h, p)) + IF x.pool = p THEN 1 ELSE 0
  <2>1. CASE x.pool = p
    BY <1>6, <1>7, <1>8, <2>1, FS_AddElement
  <2>2. CASE x.pool # p
    BY <1>6, <1>8, <2>2
  <2> QED
    BY <2>1, <2>2
<1> QED
  BY <1>5, <1>9 DEF a

LEMMA FreshPlanOK ==
    ASSUME NEW layout \in DOMAIN Layouts, CanRegister(layout)
    PROVE  PlanOK(FreshPlan(layout))
<1> DEFINE plan == FreshPlan(layout)
<1>1. /\ plan = [layout |-> layout, pools |-> PoolTable, next |-> 0, history |-> <<>>]
      /\ plan.layout = layout /\ plan.pools = PoolTable /\ plan.next = 0 /\ plan.history = <<>>
  BY DEF FreshPlan, FreshDrawState
<1> HIDE DEF plan
<1>2. Listed(<<>>) /\ Len(<<>>) = 0
  BY EmptySeq DEF Listed
<1>3. \A p : SelectedFrom(<<>>, p) = {} /\ Taken(<<>>, p) = {}
  <2>1. DOMAIN <<>> = {}
    BY <1>2, ListFacts
  <2>2. ToSet(<<>>) = {}
    BY <2>1 DEF ToSet
  <2> QED
    BY <2>1, <2>2 DEF SelectedFrom, Taken
<1>4. PoolTable = [p \in Pools |-> Left(p, SelectedFrom(<<>>, p))]
  <2>1. PoolTable = [p \in Pools |-> PoolTable[p]]
    BY DEF PoolTable
  <2>2. \A p \in Pools : PoolTable[p] = Left(p, SelectedFrom(<<>>, p))
    BY <1>3, LeftAll
  <2> QED
    BY <2>1, <2>2
<1>5. \A p \in Pools : Len(PoolTable[p]) = Len(PoolTable[p]) - Cardinality(Taken(<<>>, p))
  <2> SUFFICES ASSUME NEW p \in Pools PROVE Len(PoolTable[p]) = Len(PoolTable[p]) - Cardinality(Taken(<<>>, p))
    OBVIOUS
  <2>1. Len(PoolTable[p]) \in Nat
    BY PoolFacts, DrawableFacts
  <2>2. Cardinality(Taken(<<>>, p)) = 0
    BY <1>3, FS_EmptySet
  <2> QED
    BY <2>1, <2>2
<1>6. 0 \in 0 .. PositionCount
  BY LayoutFacts
<1> QED
  BY <1>1, <1>2, <1>4, <1>5, <1>6 DEF PlanOK, plan

\* A planned position has a pool with something left in it.
LEMMA PlanPool ==
    ASSUME NEW plan, PlanOK(plan), plan.next < PositionCount
    PROVE  LET p == CurrentPool(plan)
           IN  /\ p \in Pools /\ plan.pools[p] = Left(p, SelectedFrom(plan.history, p))
               /\ Drawable(plan.pools[p])
<1> DEFINE p == CurrentPool(plan)
           taken == Taken(plan.history, p)
           required == {k \in 1 .. PositionCount : Slots(plan.layout)[k] = p}
<1>1. /\ plan.next + 1 \in 1 .. PositionCount /\ plan.next \in Nat
      /\ PositionCount \in Nat
  BY LayoutFacts DEF PlanOK
<1>2. p \in Pools /\ plan.next + 1 \in required
  BY <1>1, LayoutFacts DEF PlanOK, CurrentPool
<1>3. plan.pools[p] = Left(p, SelectedFrom(plan.history, p))
  BY <1>2 DEF PlanOK
<1>4. IsFiniteSet(required) /\ Cardinality(required) \in Nat /\ Cardinality(required) = RequiredFrom(plan.layout, p)
  <2>1. IsFiniteSet(1 .. PositionCount)
    BY <1>1, FS_Interval
  <2>2. required \in SUBSET (1 .. PositionCount)
    OBVIOUS
  <2> QED
    BY <2>1, <2>2, FS_Subset, FS_CardinalityType DEF RequiredFrom
<1>5. taken \subseteq required /\ plan.next + 1 \notin taken
  BY <1>1, HistoryFacts DEF Taken
<1>6. Cardinality(taken) < Cardinality(required)
  <2>1. Cardinality(taken) <= Cardinality(required) /\ Cardinality(taken) # Cardinality(required)
    BY <1>2, <1>4, <1>5, FS_Subset
  <2>2. Cardinality(taken) \in Nat
    BY TakenFinite DEF PlanOK
  <2> QED
    BY <1>4, <2>1, <2>2
<1>7. RequiredFrom(plan.layout, p) > 0 /\ Cardinality(taken) \in Nat
  <2>1. Cardinality(taken) \in Nat
    BY TakenFinite DEF PlanOK
  <2> QED
    BY <1>4, <1>6, <2>1
<1>8. Len(PoolTable[p]) >= RequiredFrom(plan.layout, p)
  BY <1>2, <1>7 DEF PlanOK, CanRegister
<1>9. Len(plan.pools[p]) > 0
  <2>1. Len(plan.pools[p]) = Len(PoolTable[p]) - Cardinality(taken)
    BY <1>2 DEF PlanOK
  <2>2. Len(PoolTable[p]) \in Nat
    BY <1>2, PoolFacts, DrawableFacts
  <2> QED
    BY <1>4, <1>6, <1>7, <1>8, <2>1, <2>2
<1>10. plan.pools[p] # <<>>
  BY <1>9, EmptySeq
<1>11. Drawable(plan.pools[p])
  BY <1>2, <1>3, <1>10, LeftFacts
<1> QED
  BY <1>2, <1>3, <1>11

LEMMA AdvancedPlan ==
    ASSUME NEW plan, NEW id,
           plan = [layout |-> plan.layout, pools |-> plan.pools, next |-> plan.next, history |-> plan.history]
    PROVE  Advanced(plan, id) =
               [layout |-> plan.layout, pools |-> RemoveIdentity(plan.pools, CurrentPool(plan), id),
                next |-> plan.next + 1,
                history |-> Append(plan.history, [pool |-> CurrentPool(plan), identity |-> id])]
<1> DEFINE x == [pool |-> CurrentPool(plan), identity |-> id]
           s == RemoveIdentity(plan.pools, CurrentPool(plan), id)
           h == Append(plan.history, x)
           r == Advanced(plan, id)
<1>1. r = [plan EXCEPT !.pools = s, !.next = plan.next + 1, !.history = h]
  BY DEF Advanced
<1> HIDE DEF r, s, x, h
<1>2. r.layout = plan.layout /\ r.pools = s /\ r.next = plan.next + 1 /\ r.history = h
  BY <1>1
<1>3. r = [layout |-> r.layout, pools |-> r.pools, next |-> r.next, history |-> r.history]
  BY <1>1
<1> QED
  BY <1>2, <1>3 DEF r, s, x, h

\* Filling a position with an identity of its pool.
LEMMA PlanAdvances ==
    ASSUME NEW plan, PlanOK(plan), plan.next < PositionCount,
           NEW k \in 1 .. Len(plan.pools[CurrentPool(plan)])
    PROVE  LET p == CurrentPool(plan)
               id == plan.pools[p][k].key
               next == Advanced(plan, id)
           IN  /\ PlanOK(next) /\ next.layout = plan.layout /\ next.next = plan.next + 1
               /\ next.history = Append(plan.history, [pool |-> p, identity |-> id])
               /\ IndexesOf(plan.pools[p], id) = {k}
               /\ next.pools = RemoveIdentity(plan.pools, p, id)
               /\ next.pools[p] = Compile(RemoveAt(plan.pools[p], k))
               /\ \A q \in Pools \ {p} : next.pools[q] = plan.pools[q]
               /\ id \notin SelectedFrom(plan.history, p)
               /\ \E i \in DOMAIN PoolTable[p] : PoolTable[p][i].key = id
<1> DEFINE p == CurrentPool(plan)
           c == plan.pools[p]
           id == c[k].key
           gone(q) == SelectedFrom(plan.history, q)
           x == [pool |-> p, identity |-> id]
           h == Append(plan.history, x)
           next == Advanced(plan, id)
<1>1. p \in Pools /\ c = Left(p, gone(p)) /\ Drawable(c)
  BY PlanPool
<1>2. /\ IndexesOf(c, id) = {k} /\ Compile(RemoveAt(c, k)) = Left(p, gone(p) \cup {id})
      /\ Len(Left(p, gone(p) \cup {id})) = Len(c) - 1
      /\ id \notin gone(p) /\ \E i \in DOMAIN PoolTable[p] : PoolTable[p][i].key = id
  <2> DEFINE g == gone(p)
  <2>1. p \in Pools /\ c = Left(p, g) /\ k \in 1 .. Len(Left(p, g)) /\ id = Left(p, g)[k].key
    BY <1>1
  <2> HIDE DEF g, p, c, id
  <2>2. RemovedAt(p, g, k, id)
    BY <2>1, RemovalIsLeft
  <2> QED
    BY <2>1, <2>2 DEF RemovedAt, g
<1>3. /\ plan.pools = [q \in Pools |-> Left(q, gone(q))]
      /\ plan = [layout |-> plan.layout, pools |-> plan.pools, next |-> plan.next, history |-> plan.history]
      /\ plan.next \in Nat /\ PositionCount \in Nat
  BY LayoutFacts DEF PlanOK
<1>4. next = [layout |-> plan.layout, pools |-> RemoveIdentity(plan.pools, p, id),
              next |-> plan.next + 1, history |-> h]
  BY <1>3, AdvancedPlan
<1> HIDE DEF id, next, h, c, p
<1>5. (CHOOSE i \in IndexesOf(c, id) : TRUE) = k
  BY <1>2
<1>6. RemoveIdentity(plan.pools, p, id) = [plan.pools EXCEPT ![p] = Left(p, gone(p) \cup {id})]
  BY <1>1, <1>2, <1>3, <1>5 DEF RemoveIdentity, c
<1>7. \A q \in Pools : SelectedFrom(h, q) = gone(q) \cup IF q = p THEN {id} ELSE {}
  <2>1. Listed(plan.history) /\ x.pool = p /\ x.identity = id
    BY DEF PlanOK
  <2> QED
    BY <2>1, HistoryGrows DEF h
<1>8. RemoveIdentity(plan.pools, p, id) = [q \in Pools |-> Left(q, SelectedFrom(h, q))]
  <2>1. \A q \in Pools : Left(q, SelectedFrom(h, q)) = IF q = p THEN Left(p, gone(p) \cup {id}) ELSE Left(q, gone(q))
    BY <1>7
  <2> QED
    BY <1>3, <1>6, <2>1
<1>9. /\ Listed(h) /\ Len(h) = plan.next + 1 /\ h[plan.next + 1] = x
      /\ \A i \in 1 .. plan.next : h[i] = plan.history[i]
  BY AppendListed DEF PlanOK, h
<1>10. p = Slots(plan.layout)[plan.next + 1]
  BY DEF CurrentPool, p
<1>11. \A i \in 1 .. plan.next + 1 : h[i] = [pool |-> Slots(plan.layout)[i], identity |-> h[i].identity]
  <2> SUFFICES ASSUME NEW i \in 1 .. plan.next + 1
               PROVE  h[i] = [pool |-> Slots(plan.layout)[i], identity |-> h[i].identity]
    OBVIOUS
  <2>1. CASE i = plan.next + 1
    BY <1>9, <1>10, <2>1
  <2>2. CASE i # plan.next + 1
    <3>1. i \in 1 .. plan.next
      BY <1>3, <2>2
    <3>2. plan.history[i] = [pool |-> Slots(plan.layout)[i], identity |-> plan.history[i].identity]
      BY <3>1 DEF PlanOK
    <3> QED
      BY <1>9, <3>1, <3>2
  <2> QED
    BY <2>1, <2>2
<1>12. ASSUME NEW i \in 1 .. plan.next, plan.history[i] = x PROVE FALSE
  <2>1. i \in DOMAIN plan.history
    BY ListFacts DEF PlanOK
  <2>2. x \in ToSet(plan.history)
    BY <1>12, <2>1 DEF ToSet
  <2>3. id \in gone(p)
    BY <2>2 DEF SelectedFrom
  <2> QED
    BY <1>2, <2>3
<1>13. ASSUME NEW i \in 1 .. plan.next + 1, NEW j \in 1 .. plan.next + 1, h[i] = h[j] PROVE i = j
  <2>1. CASE i = plan.next + 1 /\ j # plan.next + 1
    BY <1>3, <1>9, <1>12, <1>13, <2>1
  <2>2. CASE j = plan.next + 1 /\ i # plan.next + 1
    BY <1>3, <1>9, <1>12, <1>13, <2>2
  <2>3. CASE i # plan.next + 1 /\ j # plan.next + 1
    BY <1>3, <1>9, <1>13, <2>3 DEF PlanOK
  <2> QED
    BY <2>1, <2>2, <2>3
<1>14. ASSUME NEW q \in Pools
       PROVE  Len(RemoveIdentity(plan.pools, p, id)[q]) = Len(PoolTable[q]) - Cardinality(Taken(h, q))
  <2>1. Cardinality(Taken(h, q)) = Cardinality(Taken(plan.history, q)) + IF q = p THEN 1 ELSE 0
    <3>1. Listed(plan.history) /\ x.pool = p
      BY DEF PlanOK
    <3> QED
      BY <3>1, HistoryGrows DEF h
  <2>2. Len(plan.pools[q]) = Len(PoolTable[q]) - Cardinality(Taken(plan.history, q))
    BY DEF PlanOK
  <2>3. Cardinality(Taken(plan.history, q)) \in Nat /\ Len(PoolTable[q]) \in Nat
    BY TakenFinite, PoolFacts, DrawableFacts DEF PlanOK
  <2>4. CASE q = p
    <3>1. RemoveIdentity(plan.pools, p, id)[q] = Left(p, gone(p) \cup {id})
      BY <1>1, <1>3, <1>6, <2>4
    <3> QED
      BY <1>2, <2>1, <2>2, <2>3, <2>4, <3>1, SMTT(30) DEF c
  <2>5. CASE q # p
    <3>1. RemoveIdentity(plan.pools, p, id)[q] = plan.pools[q]
      BY <1>3, <1>6, <2>5
    <3> QED
      BY <2>1, <2>2, <2>3, <2>5, <3>1
  <2> QED
    BY <2>4, <2>5
<1>15. /\ next.layout = plan.layout /\ next.next = plan.next + 1 /\ next.history = h
       /\ next.pools = RemoveIdentity(plan.pools, p, id)
  BY <1>4
<1>16. PlanOK(next)
  <2>1. next = [layout |-> next.layout, pools |-> next.pools, next |-> next.next, history |-> next.history]
    BY <1>4, <1>15
  <2>2. next.layout \in DOMAIN Layouts /\ CanRegister(next.layout)
    BY <1>15 DEF PlanOK
  <2>3. next.next \in 0 .. PositionCount
    BY <1>3, <1>15
  <2> QED
    BY <1>8, <1>9, <1>11, <1>13, <1>14, <1>15, <2>1, <2>2, <2>3, ZenonT(60) DEF PlanOK
<1>17. /\ next.pools[p] = Compile(RemoveAt(c, k))
       /\ \A q \in Pools \ {p} : next.pools[q] = plan.pools[q]
  BY <1>1, <1>2, <1>3, <1>6, <1>15
<1> QED
  BY <1>2, <1>15, <1>16, <1>17 DEF id, next, h, c, p

-----------------------------------------------------------------------------
(* Transitions: none of the checks the code makes of itself ever fails.    *)

LEMMA ValidTable ==
    ASSUME NEW t, IsTable(t)
    PROVE  ValidChoices(t)
<1>1. Len(t) \in Nat /\ DOMAIN t = 1 .. Len(t)
  BY ListFacts DEF IsTable, Entries
<1>2. \A i \in 1 .. Len(t) : t[i].weight \in Nat \ {0} /\ t[i].end = t[i].weight + Start(t, i)
  BY <1>1 DEF IsTable, Entries
<1>3. \A i \in DOMAIN t : t[i].weight > 0
  BY <1>1, <1>2
<1>4. \A i \in DOMAIN t : t[i].end = t[i].weight + IF i = 1 THEN 0 ELSE t[i-1].end
  BY <1>1, <1>2 DEF Start
<1>5. \A i, j \in DOMAIN t : t[i].key = t[j].key => i = j
  BY DEF IsTable, Entries
<1> QED
  BY <1>3, <1>4, <1>5 DEF ValidChoices

LEMMA PlanIsExact ==
    ASSUME NEW plan, PlanOK(plan)
    PROVE  ExactSelectionHistory(plan)
<1>1. /\ plan.next \in 0 .. PositionCount /\ Len(plan.history) = plan.next
      /\ \A i \in DOMAIN plan.history : plan.history[i].pool = Slots(plan.layout)[i]
  BY HistoryFacts DEF PlanOK
<1>2. ASSUME NEW p \in Pools
      PROVE  /\ Len(plan.pools[p]) = Len(PoolTable[p]) - Cardinality({i \in DOMAIN plan.history : plan.history[i].pool = p})
             /\ plan.pools[p] = Compile(Without(PoolTable[p], SelectedFrom(plan.history, p)))
  BY <1>2 DEF PlanOK, Taken, Left
<1> QED
  BY <1>1, <1>2 DEF ExactSelectionHistory

\* A choice is where a scan of the ends finds it, too.
LEMMA ScanFinds ==
    ASSUME NEW t, IsTable(t), NEW ticket \in Nat, NEW i \in 1 .. Len(t), Covers(t, i, ticket)
    PROVE  ScannedIdentity(t, ticket) = t[i].key
<1> DEFINE P(k) == ticket < t[k].end /\ ticket >= IF k = 1 THEN 0 ELSE t[k-1].end
<1>1. Len(t) \in Nat /\ DOMAIN t = 1 .. Len(t)
  BY ListFacts DEF IsTable, Entries
<1>2. ASSUME NEW k \in DOMAIN t PROVE P(k) <=> Covers(t, k, ticket)
  <2>1. Start(t, k) \in Nat
    BY <1>1, EndsRise
  <2> QED
    BY <2>1 DEF Covers, Start
<1> HIDE DEF P
<1>3. \A k \in DOMAIN t : P(k) => k = i
  BY <1>1, <1>2, Covered
<1>4. i \in DOMAIN t /\ P(i)
  BY <1>1, <1>2
<1>5. (CHOOSE k \in DOMAIN t : P(k)) = i
  BY <1>3, <1>4
<1> QED
  BY <1>5 DEF ScannedIdentity, P

LEMMA ChecksPass ==
    ASSUME NEW plan, PlanOK(plan), plan.next < PositionCount,
           NEW k \in 1 .. Len(plan.pools[CurrentPool(plan)])
    PROVE  LET id == plan.pools[CurrentPool(plan)][k].key
           IN  /\ CanRemove(plan.pools, CurrentPool(plan), id)
               /\ ExactPositionTransition(plan, Advanced(plan, id), id)
<1> DEFINE p == CurrentPool(plan)
           c == plan.pools[p]
           id == c[k].key
           next == Advanced(plan, id)
           x == [pool |-> p, identity |-> id]
<1>1. p \in Pools /\ IsTable(c) /\ Len(c) \in Nat /\ Listed(c)
  BY PlanPool, DrawableFacts DEF Drawable, IsTable, Entries
<1>2. /\ PlanOK(next) /\ next.layout = plan.layout /\ next.next = plan.next + 1
      /\ next.history = Append(plan.history, x)
      /\ IndexesOf(c, id) = {k} /\ next.pools[p] = Compile(RemoveAt(c, k))
      /\ \A q \in Pools \ {p} : next.pools[q] = plan.pools[q]
  BY PlanAdvances, ZenonT(40)
<1>3. k \in 1 .. Len(c)
  OBVIOUS
<1> HIDE DEF id, next, c, p, x
<1>4. CanRemove(plan.pools, p, id)
  BY <1>1, <1>2, ValidTable, FS_Singleton DEF CanRemove, c
<1>5. IsPrefix(plan.history, next.history) /\ Last(next.history) = x
  <2> DEFINE h == plan.history
             g == next.history
             n == plan.next
  <2>1. /\ Listed(h) /\ Len(h) = n /\ n \in Nat
        /\ Listed(g) /\ Len(g) = n + 1 /\ g[n + 1] = x
        /\ \A i \in 1 .. n : g[i] = h[i]
    BY <1>2, HistoryFacts, AppendListed
  <2> HIDE DEF h, g, n
  <2>2. Last(g) = x
    BY <2>1 DEF Last
  <2>3. SubSeq(h, 1, n) = SubSeq(g, 1, n)
    <3> DEFINE S == ToSet(h)
    <3>1. \A i \in 1 .. n : h[i] \in S /\ g[i] \in S
      BY <2>1, ListFacts
    <3> HIDE DEF S
    <3>2. /\ SubSeq(h, 1, n) \in Seq(S) /\ Len(SubSeq(h, 1, n)) = IF 1 <= n THEN n - 1 + 1 ELSE 0
          /\ \A i \in 1 .. n - 1 + 1 : SubSeq(h, 1, n)[i] = h[1 + i - 1]
      BY <2>1, <3>1, SubSeqProperties
    <3>3. /\ SubSeq(g, 1, n) \in Seq(S) /\ Len(SubSeq(g, 1, n)) = IF 1 <= n THEN n - 1 + 1 ELSE 0
          /\ \A i \in 1 .. n - 1 + 1 : SubSeq(g, 1, n)[i] = g[1 + i - 1]
      BY <2>1, <3>1, SubSeqProperties
    <3>4. Len(SubSeq(h, 1, n)) = n /\ Len(SubSeq(g, 1, n)) = n
      BY <2>1, <3>2, <3>3
    <3>5. \A i \in 1 .. n : SubSeq(h, 1, n)[i] = SubSeq(g, 1, n)[i]
      <4> SUFFICES ASSUME NEW i \in 1 .. n PROVE SubSeq(h, 1, n)[i] = SubSeq(g, 1, n)[i]
        OBVIOUS
      <4>1. i \in 1 .. n - 1 + 1 /\ 1 + i - 1 = i
        BY <2>1
      <4> QED
        BY <2>1, <3>2, <3>3, <4>1
    <3> QED
      BY <3>2, <3>3, <3>4, <3>5, SeqEqual
  <2>4. Len(h) <= Len(g)
    BY <2>1
  <2> QED
    BY <2>1, <2>2, <2>3, <2>4 DEF IsPrefix, h, g
<1>6. ExactRemoval(plan.pools, next.pools, p, id)
  <2> DEFINE r == RemoveAt(c, k)
             d == next.pools[p]
  <2>1. /\ Entries(r) /\ Len(r) = Len(c) - 1 /\ DOMAIN r = 1 .. Len(c) - 1
        /\ \A i \in 1 .. Len(c) - 1 : r[i] = c[IF i < k THEN i ELSE i + 1]
    BY <1>1, <1>3, RemoveAtEntries DEF IsTable
  <2>2. d = Compile(r)
    BY <1>2
  <2> HIDE DEF r, d
  <2>3. IsTable(d) /\ SameEntries(d, r) /\ Len(d) = Len(c) - 1 /\ DOMAIN d = 1 .. Len(c) - 1
    BY <2>1, <2>2, CompiledTable
  <2>4. ValidChoices(c) /\ ValidChoices(d)
    BY <1>1, <2>3, ValidTable
  <2>5. \A i \in DOMAIN d : LET old == c[IF i < k THEN i ELSE i + 1]
                            IN  d[i].key = old.key /\ d[i].weight = old.weight
    BY <2>1, <2>3 DEF SameEntries
  <2> QED
    BY <1>2, <2>3, <2>4, <2>5 DEF ExactRemoval, c, d
<1>7. ExactPositionTransition(plan, next, id)
  BY <1>2, <1>5, <1>6, PlanIsExact DEF ExactPositionTransition, x, p
<1> QED
  BY <1>4, <1>7 DEF next, id, c, p

LEMMA AcceptedSample ==
    ASSUME NEW batch \in Seq(Sample), NEW T \in Nat \ {0}, NEW i \in AcceptedAt(batch, T)
    PROVE  /\ i \in 1 .. Len(batch) /\ batch[i] \in Sample /\ batch[i] \in Nat
           /\ batch[i] < AcceptedEnd(T) /\ batch[i] % T \in 0 .. T - 1 /\ batch[i] % T \in Nat
<1>1. i \in 1 .. Len(batch) /\ batch[i] < AcceptedEnd(T)
  BY DEF AcceptedAt
<1>2. batch[i] \in Sample
  BY <1>1
<1>3. batch[i] \in Nat
  BY <1>2, SampleEndAssumption DEF Sample
<1> DEFINE n == batch[i]
<1> HIDE DEF n
<1>4. n % T \in 0 .. T - 1
  BY <1>3, Division DEF n
<1>5. n % T \in Nat
  BY <1>4
<1> QED
  BY <1>1, <1>2, <1>3, <1>4, <1>5 DEF n

\* What a batch does at the current position: it is used up without a ticket,
\* or its first accepted sample fills the position.
LEMMA PositionTransition ==
    ASSUME NEW plan, PlanOK(plan), plan.next < PositionCount, NEW batch \in Seq(Sample)
    PROVE  LET c == plan.pools[CurrentPool(plan)]
               T == TotalWeight(c)
           IN  \/ /\ AcceptedAt(batch, T) = {}
                  /\ TransitionCurrentPosition(plan, batch) =
                        [state |-> "needs-sample", consumed |-> Len(batch)]
               \/ \E i \in AcceptedAt(batch, T), k \in 1 .. Len(c) :
                    /\ FirstAccepted(batch, T, i) /\ Covers(c, k, batch[i] % T)
                    /\ LocalChoiceForTicket(c, batch[i] % T) = c[k].key
                    /\ TransitionCurrentPosition(plan, batch) =
                        [state |-> "selected", consumed |-> i, identity |-> c[k].key,
                         plan |-> Advanced(plan, c[k].key)]
<1> DEFINE p == CurrentPool(plan)
           c == plan.pools[p]
           T == TotalWeight(c)
           mapping == MapBatch(batch, T)
           id == LocalChoiceForTicket(c, mapping.ticket)
           next == Advanced(plan, id)
           result == TransitionCurrentPosition(plan, batch)
<1>1. p \in Pools /\ Drawable(c)
  BY PlanPool
<1>2. ExactSelectionHistory(plan) /\ plan.next # PositionCount /\ ValidChoices(c) /\ T \in TicketBound
  BY <1>1, PlanIsExact, ValidTable, HistoryFacts DEF Drawable
<1>3. result =
        IF mapping.state = "needs-sample"
        THEN [state |-> "needs-sample", consumed |-> mapping.consumed]
        ELSE IF \/ id # ScannedIdentity(c, mapping.ticket)
                \/ ~CanRemove(plan.pools, p, id)
                \/ ~ExactPositionTransition(plan, next, id)
        THEN Failed
        ELSE [state |-> "selected", consumed |-> mapping.consumed, identity |-> id, plan |-> next]
  BY <1>2 DEF TransitionCurrentPosition
<1>4. ASSUME NEW k \in 1 .. Len(c)
      PROVE  /\ CanRemove(plan.pools, p, c[k].key)
             /\ ExactPositionTransition(plan, Advanced(plan, c[k].key), c[k].key)
  BY ChecksPass
<1> HIDE DEF result, p, c, T
<1>5. CASE AcceptedAt(batch, T) = {}
  <2>1. mapping = [state |-> "needs-sample", consumed |-> Len(batch)]
    BY <1>5, MapBatchCases, SMTT(30)
  <2> QED
    BY <1>3, <1>5, <2>1 DEF result, p, c, T
<1>6. CASE AcceptedAt(batch, T) # {}
  <2>1. PICK i \in AcceptedAt(batch, T) :
            /\ FirstAccepted(batch, T, i)
            /\ mapping = [state |-> "accepted", ticket |-> batch[i] % T, consumed |-> i]
    BY <1>6, MapBatchCases
  <2>2. mapping.ticket = batch[i] % T /\ mapping.consumed = i /\ mapping.state # "needs-sample"
    BY <2>1
  <2>3. batch[i] % T \in 0 .. T - 1 /\ batch[i] % T \in Nat
    <3>1. T \in Nat \ {0}
      BY <1>1, DrawableFacts DEF T
    <3> QED
      BY <3>1, AcceptedSample
  <2>4. PICK k \in 1 .. Len(c) : Covers(c, k, batch[i] % T) /\ LocalChoiceForTicket(c, batch[i] % T) = c[k].key
    BY <1>1, <2>3, DrawableFacts DEF T
  <2>5. ScannedIdentity(c, batch[i] % T) = c[k].key
    BY <1>1, <2>3, <2>4, ScanFinds DEF Drawable
  <2>6. id = c[k].key /\ next = Advanced(plan, c[k].key)
    BY <2>2, <2>4
  <2>7. result = [state |-> "selected", consumed |-> i, identity |-> c[k].key,
                  plan |-> Advanced(plan, c[k].key)]
    BY <1>3, <1>4, <2>2, <2>5, <2>6
  <2> QED
    BY <2>1, <2>4, <2>7 DEF result, p, c, T
<1> QED
  BY <1>5, <1>6

\* The result of a ticket for a layout.
Registered(l, consumed) ==
    IF CanRegister(l) THEN [state |-> "selected", consumed |-> consumed, plan |-> FreshPlan(l)]
    ELSE [state |-> "failed", consumed |-> consumed, layout |-> l]

LEMMA LayoutTicket ==
    ASSUME NEW ticket \in 0 .. TotalWeight(LayoutTable) - 1, NEW consumed
    PROVE  \E l \in DOMAIN Layouts :
                /\ Covers(LayoutTable, l, ticket)
                /\ InitializeFromTicket(ticket, consumed) = Registered(l, consumed)
<1>1. PICK l \in 1 .. Len(LayoutTable) : /\ Covers(LayoutTable, l, ticket)
                                        /\ ChoiceForTicket(LayoutTable, ticket) = LayoutTable[l].key
  BY LayoutFacts, DrawableFacts
<1>2. l \in DOMAIN Layouts /\ LayoutTable[l].key = l
  BY LayoutFacts
<1> QED
  BY <1>1, <1>2 DEF InitializeFromTicket, Registered

\* What a batch does before there is a plan.
LEMMA LayoutTransition ==
    ASSUME NEW batch \in Seq(Sample)
    PROVE  LET T == TotalWeight(LayoutTable)
           IN  \/ /\ AcceptedAt(batch, T) = {}
                  /\ InitializeFromBatch(batch) = [state |-> "needs-sample", consumed |-> Len(batch)]
               \/ \E i \in AcceptedAt(batch, T), l \in DOMAIN Layouts :
                    /\ FirstAccepted(batch, T, i) /\ Covers(LayoutTable, l, batch[i] % T)
                    /\ InitializeFromBatch(batch) = Registered(l, i)
<1> DEFINE T == TotalWeight(LayoutTable)
           mapping == MapBatch(batch, T)
<1>1. T \in Nat \ {0}
  BY LayoutFacts, DrawableFacts
<1> HIDE DEF T
<1>2. CASE AcceptedAt(batch, T) = {}
  <2>1. mapping = [state |-> "needs-sample", consumed |-> Len(batch)]
    BY <1>2, MapBatchCases
  <2>2. InitializeFromBatch(batch) = [state |-> "needs-sample", consumed |-> Len(batch)]
    BY <2>1 DEF InitializeFromBatch, T
  <2> QED
    BY <1>2, <2>2 DEF T
<1>3. CASE AcceptedAt(batch, T) # {}
  <2>1. PICK i \in AcceptedAt(batch, T) :
            /\ FirstAccepted(batch, T, i)
            /\ mapping = [state |-> "accepted", ticket |-> batch[i] % T, consumed |-> i]
    BY <1>3, MapBatchCases
  <2>2. mapping.ticket = batch[i] % T /\ mapping.consumed = i /\ mapping.state # "needs-sample"
    BY <2>1
  <2>3. batch[i] % T \in 0 .. T - 1
    BY <1>1, AcceptedSample
  <2>4. InitializeFromBatch(batch) = InitializeFromTicket(batch[i] % T, i)
    BY <2>2 DEF InitializeFromBatch, T
  <2>5. PICK l \in DOMAIN Layouts : /\ Covers(LayoutTable, l, batch[i] % T)
                                    /\ InitializeFromTicket(batch[i] % T, i) = Registered(l, i)
    BY <2>3, LayoutTicket DEF T
  <2> QED
    BY <2>1, <2>4, <2>5 DEF T
<1> QED
  BY <1>2, <1>3

LEMMA LayoutSample ==
    ASSUME NEW s \in Sample
    PROVE  LET T == TotalWeight(LayoutTable)
           IN  \/ ~(s < AcceptedEnd(T)) /\ InitializeFromOneSample(s) = [state |-> "retry", consumed |-> 1]
               \/ /\ s < AcceptedEnd(T)
                  /\ \E l \in DOMAIN Layouts :
                        /\ Covers(LayoutTable, l, s % T)
                        /\ InitializeFromOneSample(s) = Registered(l, 1)
<1> DEFINE T == TotalWeight(LayoutTable)
<1>1. T \in Nat \ {0} /\ s \in Nat
  BY LayoutFacts, DrawableFacts DEF Sample
<1>2. s % T \in 0 .. T - 1
  BY <1>1, Division
<1>3. CASE s < AcceptedEnd(T)
  <2>1. InitializeFromOneSample(s) = InitializeFromTicket(s % T, 1)
    BY <1>3 DEF InitializeFromOneSample, MapSample
  <2> QED
    BY <1>2, <1>3, <2>1, LayoutTicket
<1>4. CASE ~(s < AcceptedEnd(T))
  BY <1>4 DEF InitializeFromOneSample, MapSample
<1> QED
  BY <1>3, <1>4

-----------------------------------------------------------------------------
(* The server's sums and scans.                                            *)

IsSum(f, w, n) == f = [i \in 0 .. n |-> IF i = 0 THEN 0 ELSE f[i-1] + w[i]]

\* Weights that are those of a table sum up to its ends.
LEMMA SumIsEnd ==
    ASSUME NEW t, IsTable(t), NEW w, Listed(w), Len(w) <= Len(t), \A i \in 1 .. Len(w) : w[i] = t[i].weight
    PROVE  SumOf(w) = IF Len(w) = 0 THEN 0 ELSE t[Len(w)].end
<1> DEFINE n == Len(w)
           e == [i \in 1 .. n |-> [weight |-> w[i]]]
           f == CHOOSE f : IsSum(f, w, n)
<1>1. n \in Nat /\ Len(t) \in Nat
  BY ListFacts DEF IsTable, Entries
<1>2. \E g : IsSum(g, w, n)
  <2>1. PICK g : AreEnds(g, e, n)
    BY <1>1, EndsExist
  <2>2. \A i \in 1 .. n : e[i].weight = w[i]
    OBVIOUS
  <2> HIDE DEF e
  <2>3. g = [i \in 0 .. n |-> IF i = 0 THEN 0 ELSE g[i-1] + e[i].weight]
    BY <2>1 DEF AreEnds
  <2>4. \A i \in 0 .. n : i # 0 => e[i].weight = w[i]
    BY <1>1, <2>2
  <2>5. g = [i \in 0 .. n |-> IF i = 0 THEN 0 ELSE g[i-1] + w[i]]
    BY <2>3, <2>4
  <2> QED
    BY <2>5 DEF IsSum
<1>3. IsSum(f, w, n)
  BY <1>2
<1>4. SumOf(w) = f[n]
  BY DEF SumOf, IsSum
<1> HIDE DEF f
<1>5. \A i \in 0 .. n : f[i] = IF i = 0 THEN 0 ELSE f[i-1] + w[i]
  BY <1>3 DEF IsSum
<1> DEFINE S == {i \in Nat : i <= n => f[i] = IF i = 0 THEN 0 ELSE t[i].end}
<1>6. 0 \in S
  BY <1>1, <1>5
<1>7. ASSUME NEW i \in Nat, i \in S PROVE i + 1 \in S
  <2> SUFFICES ASSUME i + 1 <= n PROVE f[i+1] = t[i+1].end
    OBVIOUS
  <2>1. f[i+1] = f[i] + t[i+1].weight
    BY <1>1, <1>5
  <2>2. i + 1 \in 1 .. Len(t)
    BY <1>1
  <2>3. t[i+1].end = Start(t, i+1) + t[i+1].weight /\ Start(t, i+1) \in Nat /\ t[i+1].weight \in Nat
    BY <2>2, EndsRise
  <2>4. Start(t, i+1) = f[i]
    BY <1>1, <1>7 DEF Start
  <2> QED
    BY <2>1, <2>3, <2>4
<1> HIDE DEF S
<1>8. \A i \in Nat : i \in S
  BY <1>6, <1>7, Ascent
<1> QED
  BY <1>1, <1>4, <1>8 DEF S

LEMMA ScanOfSums ==
    ASSUME NEW t, IsTable(t), NEW w, Listed(w), Len(w) = Len(t), \A i \in 1 .. Len(w) : w[i] = t[i].weight
    PROVE  /\ SumOf(w) = TotalWeight(t)
           /\ \A ticket \in Nat : \A i \in 1 .. Len(t) :
                Covers(t, i, ticket) => SelectWeightedIndex(w, ticket) = i
<1>1. Len(w) \in Nat /\ DOMAIN w = 1 .. Len(t) /\ (t = <<>> <=> Len(t) = 0)
  BY ListFacts DEF IsTable, Entries
<1>2. SumOf(w) = TotalWeight(t)
  <2>1. CASE t = <<>>
    BY <1>1, <2>1, SumIsEnd DEF TotalWeight
  <2>2. CASE t # <<>>
    BY <1>1, <2>2, SumIsEnd, EndsRise
  <2> QED
    BY <2>1, <2>2
<1>3. ASSUME NEW i \in 0 .. Len(t) PROVE SumOf(SubSeq(w, 1, i)) = IF i = 0 THEN 0 ELSE t[i].end
  <2> DEFINE u == SubSeq(w, 1, i)
  <2>1. Listed(u) /\ Len(u) = i /\ \A j \in 1 .. i : u[j] = w[j]
    BY SubSeqListed
  <2> HIDE DEF u
  <2>2. Len(u) <= Len(t) /\ \A j \in 1 .. Len(u) : u[j] = t[j].weight
    BY <1>1, <2>1
  <2> QED
    BY <2>1, <2>2, SumIsEnd, ZenonT(60) DEF u
<1>4. ASSUME NEW ticket \in Nat, NEW i \in 1 .. Len(t), Covers(t, i, ticket)
      PROVE  SelectWeightedIndex(w, ticket) = i
  <2> DEFINE P(j) == ticket < SumOf(SubSeq(w, 1, j)) /\ ticket >= SumOf(SubSeq(w, 1, j - 1))
  <2>1. ASSUME NEW j \in 1 .. Len(t) PROVE P(j) <=> Covers(t, j, ticket)
    <3>1. j \in 0 .. Len(t) /\ j - 1 \in 0 .. Len(t) /\ j # 0 /\ (j - 1 = 0 <=> j = 1)
      BY <1>1
    <3>2. SumOf(SubSeq(w, 1, j)) = t[j].end /\ SumOf(SubSeq(w, 1, j - 1)) = Start(t, j)
      BY <1>3, <3>1 DEF Start
    <3>3. Start(t, j) \in Nat
      BY EndsRise
    <3> QED
      BY <3>2, <3>3 DEF Covers
  <2> HIDE DEF P
  <2>2. P(i) /\ \A j \in DOMAIN w : P(j) => j = i
    BY <1>1, <1>4, <2>1, Covered
  <2>3. (CHOOSE j \in DOMAIN w : P(j)) = i
    BY <1>1, <2>2
  <2> QED
    BY <2>3 DEF SelectWeightedIndex, P
<1> QED
  BY <1>2, <1>4

\* The entries a builder has left of a pool are what is left of its table.
LEMMA AvailableIsLeft ==
    ASSUME NEW p \in Pools, NEW gone, NEW m, Remaining(m, PoolEntries[p], gone)
    PROVE  /\ Listed(m) /\ Len(m) = Len(Left(p, gone)) /\ DOMAIN m = 1 .. Len(m)
           /\ \A i \in 1 .. Len(m) :
                /\ m[i] \in DOMAIN PoolEntries[p]
                /\ Left(p, gone)[i].key = PoolEntries[p][m[i]].key
                /\ Left(p, gone)[i].weight = PoolEntries[p][m[i]].weight
<1> DEFINE e == PoolEntries[p]
           t == PoolTable[p]
           w == Without(t, gone)
           c == Left(p, gone)
<1>1. /\ SameEntries(t, e) /\ DOMAIN e = 1 .. Len(e) /\ DOMAIN t = 1 .. Len(t) /\ Len(t) = Len(e)
      /\ Listed(t) /\ Listed(e)
  BY PoolFacts, DrawableFacts, ListFacts DEF SameEntries, Drawable, IsTable, Entries
<1>2. PICK n : Remaining(n, t, gone) /\ Picked(w, t, n)
  BY <1>1, WithoutIsRemaining
<1>3. SameEntries(c, w) /\ Len(c) = Len(w) /\ DOMAIN c = 1 .. Len(c)
  BY LeftFacts
<1> HIDE DEF e, t, w, c
<1>4. Remaining(m, t, gone)
  <2>1. \A i \in 1 .. Len(t) : t[i].key = e[i].key
    BY <1>1 DEF SameEntries
  <2>2. Remaining(m, e, gone)
    BY DEF e
  <2>3. /\ Listed(m)
        /\ \A i \in 1 .. Len(m) : m[i] \in 1 .. Len(t) /\ e[m[i]].key \notin gone
        /\ \A i, j \in 1 .. Len(m) : i < j => m[i] < m[j]
        /\ \A k \in 1 .. Len(t) : e[k].key \notin gone => \E i \in 1 .. Len(m) : m[i] = k
    BY <1>1, <2>2 DEF Remaining, RemainingTo
  <2> QED
    BY <2>1, <2>3 DEF Remaining, RemainingTo
<1>5. m = n
  BY <1>1, <1>2, <1>4, RemainingOnce
<1>6. Listed(m) /\ DOMAIN m = 1 .. Len(m) /\ Len(m) = Len(c)
  BY <1>2, <1>3, <1>5, ListFacts DEF Remaining, RemainingTo, Picked
<1>7. ASSUME NEW i \in 1 .. Len(m)
      PROVE  m[i] \in DOMAIN e /\ c[i].key = e[m[i]].key /\ c[i].weight = e[m[i]].weight
  <2>1. m[i] \in 1 .. Len(t)
    BY <1>4 DEF Remaining, RemainingTo
  <2>2. w[i] = t[m[i]]
    BY <1>2, <1>5 DEF Picked
  <2>3. c[i].key = w[i].key /\ c[i].weight = w[i].weight
    BY <1>3, <1>6 DEF SameEntries
  <2> QED
    BY <1>1, <2>1, <2>2, <2>3 DEF SameEntries
<1> QED
  BY <1>6, <1>7 DEF e, c

-----------------------------------------------------------------------------
(* The builder next to the plan.                                           *)

BuilderShape(b) ==
    b = [layout |-> b.layout, available |-> b.available, cards |-> b.cards,
         attempts |-> b.attempts, drawn |-> b.drawn, thrown |-> b.thrown]

\* Cards dealt so far, or some of them, are those of the history.
Dealt(cards, history) ==
    /\ Listed(cards) /\ Len(cards) <= Len(history) /\ ToSet(cards) \subseteq Identities
    /\ \A i \in 1 .. Len(cards) : cards[i] = history[i].identity

\* The builder is as far as the plan.
InStep(b, layout, history, spent) ==
    /\ b.layout = layout /\ ~b.thrown /\ b.drawn = spent
    /\ b.attempts \in 0 .. MaximumTicketAttempts - 1
    /\ Dealt(b.cards, history) /\ Len(b.cards) = Len(history)
    /\ b.available = [p \in Pools |-> b.available[p]]
    /\ \A p \in Pools : Remaining(b.available[p], PoolEntries[p], SelectedFrom(history, p))

\* It gave up, now or before.
GaveUp(b, layout, history) ==
    /\ b.thrown /\ b.attempts = MaximumTicketAttempts
    /\ Dealt(b.cards, history)
    /\ b.layout = layout \/ (b.layout = NoLayout /\ Len(b.cards) = 0)

Follows(b, layout, history, spent) ==
    BuilderShape(b) /\ (InStep(b, layout, history, spent) \/ GaveUp(b, layout, history))

LEMMA NoLayoutFact == \A l \in DOMAIN Layouts : l # NoLayout
BY LayoutFacts DEF NoLayout

LEMMA NothingDealt == Dealt(<<>>, <<>>) /\ \A p : SelectedFrom(<<>>, p) = {}
<1>1. Listed(<<>>) /\ Len(<<>>) = 0
  BY EmptySeq DEF Listed
<1>2. DOMAIN <<>> = {}
  BY <1>1, ListFacts
<1>3. ToSet(<<>>) = {}
  BY <1>2 DEF ToSet
<1> QED
  BY <1>1, <1>3 DEF Dealt, SelectedFrom

LEMMA DealtMore ==
    ASSUME NEW cards, NEW h, Listed(h), Dealt(cards, h), NEW x
    PROVE  /\ Dealt(cards, Append(h, x))
           /\ Len(cards) = Len(h) /\ x.identity \in Identities => Dealt(Append(cards, x.identity), Append(h, x))
<1>1. /\ Listed(Append(h, x)) /\ Len(Append(h, x)) = Len(h) + 1 /\ Append(h, x)[Len(h) + 1] = x
      /\ \A i \in 1 .. Len(h) : Append(h, x)[i] = h[i]
      /\ Len(h) \in Nat
  BY AppendListed, ListFacts
<1>2. /\ Listed(cards) /\ Len(cards) \in Nat /\ Len(cards) <= Len(h) /\ ToSet(cards) \subseteq Identities
      /\ \A i \in 1 .. Len(cards) : cards[i] = h[i].identity
  BY ListFacts DEF Dealt
<1>3. Dealt(cards, Append(h, x))
  BY <1>1, <1>2 DEF Dealt
<1>4. ASSUME Len(cards) = Len(h), x.identity \in Identities PROVE Dealt(Append(cards, x.identity), Append(h, x))
  <2> DEFINE c == Append(cards, x.identity)
             g == Append(h, x)
  <2>1. /\ Listed(c) /\ Len(c) = Len(cards) + 1 /\ c[Len(cards) + 1] = x.identity
        /\ \A i \in 1 .. Len(cards) : c[i] = cards[i]
    BY <1>2, AppendListed
  <2>2. DOMAIN c = 1 .. Len(cards) + 1 /\ DOMAIN cards = 1 .. Len(cards)
    BY <1>2, <2>1, ListFacts
  <2> HIDE DEF c, g
  <2>3. ToSet(c) \subseteq Identities
    <3>1. \A i \in 1 .. Len(cards) + 1 : c[i] \in Identities
      BY <1>2, <1>4, <2>1, <2>2 DEF ToSet
    <3> QED
      BY <2>2, <3>1 DEF ToSet
  <2>4. \A i \in 1 .. Len(c) : c[i] = g[i].identity
    BY <1>1, <1>2, <1>4, <2>1 DEF g
  <2> QED
    BY <1>1, <1>2, <1>4, <2>1, <2>3, <2>4 DEF Dealt, c, g
<1> QED
  BY <1>3, <1>4

\* Who gave up stays so.
LEMMA GaveUpStays ==
    ASSUME NEW b, BuilderShape(b), NEW layout, NEW h, GaveUp(b, layout, h)
    PROVE  /\ \A s : Take(b, s) = b
           /\ Listed(h) => \A x : GaveUp(b, layout, Append(h, x))
           /\ layout = NoLayout /\ Len(h) = 0 => \A l : GaveUp(b, l, h)
<1>1. \A s : Take(b, s) = b
  BY DEF Take, GaveUp
<1>2. ASSUME Listed(h), NEW x PROVE GaveUp(b, layout, Append(h, x))
  BY <1>2, DealtMore DEF GaveUp
<1>3. ASSUME layout = NoLayout, Len(h) = 0, NEW l PROVE GaveUp(b, l, h)
  <2>1. Len(b.cards) = 0
    BY <1>3, ListFacts DEF GaveUp, Dealt
  <2> QED
    BY <1>3, <2>1 DEF GaveUp
<1> QED
  BY <1>1, <1>2, <1>3

LEMMA FreshBuilderFollows == Follows(FreshBuilder, NoLayout, <<>>, 0)
<1> DEFINE b == FreshBuilder
           a == [p \in Pools |-> [i \in DOMAIN PoolEntries[p] |-> i]]
<1>1. /\ b = [layout |-> NoLayout, available |-> a, cards |-> <<>>, attempts |-> 0, drawn |-> 0, thrown |-> FALSE]
  BY DEF FreshBuilder
<1>2. \A p \in Pools : Remaining(a[p], PoolEntries[p], {})
  <2> SUFFICES ASSUME NEW p \in Pools PROVE Remaining(a[p], PoolEntries[p], {})
    OBVIOUS
  <2>1. Listed(PoolEntries[p]) /\ DOMAIN PoolEntries[p] = 1 .. Len(PoolEntries[p])
    BY PoolFacts, ListFacts DEF Entries
  <2>2. a[p] = [i \in 1 .. Len(PoolEntries[p]) |-> i]
    BY <2>1
  <2> QED
    BY <2>1, <2>2, RemainingAll
<1>3. a = [p \in Pools |-> a[p]]
  OBVIOUS
<1> HIDE DEF b, a
<1>4. /\ b.layout = NoLayout /\ b.available = a /\ b.cards = <<>> /\ b.attempts = 0 /\ b.drawn = 0
      /\ b.thrown = FALSE
  BY <1>1
<1>5. BuilderShape(b)
  BY <1>1, <1>4 DEF BuilderShape
<1>6. 0 \in 0 .. MaximumTicketAttempts - 1
  BY CallersAssumption
<1>7. InStep(b, NoLayout, <<>>, 0)
  BY <1>2, <1>3, <1>4, <1>6, NothingDealt DEF InStep
<1> QED
  BY <1>5, <1>7 DEF Follows, b

\* The total that tickets are drawn below while a builder is in step.
Draws(layout, history, total) ==
    \A b, spent : BuilderShape(b) /\ InStep(b, layout, history, spent) =>
                    ~PackComplete(b) /\ SumOf(Weights(b)) = total

LEMMA RejectedFields ==
    ASSUME NEW b, BuilderShape(b)
    PROVE  /\ BuilderShape(Rejected(b))
           /\ Rejected(b).layout = b.layout /\ Rejected(b).available = b.available /\ Rejected(b).cards = b.cards
           /\ Rejected(b).attempts = b.attempts + 1 /\ Rejected(b).drawn = b.drawn + 1
           /\ Rejected(b).thrown = (b.attempts + 1 = MaximumTicketAttempts)
<1> DEFINE r == Rejected(b)
           u == (b.attempts + 1 = MaximumTicketAttempts)
           a == b.attempts + 1
           d == b.drawn + 1
<1>1. r = [b EXCEPT !.attempts = a, !.drawn = d, !.thrown = u]
  BY DEF Rejected
<1> HIDE DEF r, u, a, d
<1>2. /\ r.layout = b.layout /\ r.available = b.available /\ r.cards = b.cards
      /\ r.attempts = a /\ r.drawn = d /\ r.thrown = u
  BY <1>1 DEF BuilderShape
<1>3. r = [layout |-> r.layout, available |-> r.available, cards |-> r.cards,
           attempts |-> r.attempts, drawn |-> r.drawn, thrown |-> r.thrown]
  BY <1>1 DEF BuilderShape
<1> QED
  BY <1>2, <1>3 DEF r, u, a, d, BuilderShape

\* A rejected sample is counted, or the last straw.
LEMMA RejectionFollows ==
    ASSUME NEW b, NEW layout, NEW h, NEW spent \in Nat, Follows(b, layout, h, spent),
           NEW total, Draws(layout, h, total),
           NEW s \in Sample, ~(s < AcceptedEnd(total))
    PROVE  Follows(Take(b, s), layout, h, spent + 1)
<1>1. CASE GaveUp(b, layout, h)
  BY <1>1, GaveUpStays DEF Follows
<1>2. CASE InStep(b, layout, h, spent)
  <2>1. BuilderShape(b) /\ ~PackComplete(b) /\ SumOf(Weights(b)) = total /\ ~b.thrown
    BY <1>2 DEF Follows, Draws, InStep
  <2>2. Take(b, s) = Rejected(b)
    BY <2>1 DEF Take, MapSample
  <2> DEFINE r == Rejected(b)
  <2>3. /\ BuilderShape(r) /\ r.layout = b.layout /\ r.available = b.available /\ r.cards = b.cards
        /\ r.attempts = b.attempts + 1 /\ r.drawn = b.drawn + 1
        /\ r.thrown = (b.attempts + 1 = MaximumTicketAttempts)
    BY <2>1, RejectedFields
  <2> HIDE DEF r
  <2>4. MaximumTicketAttempts \in Nat \ {0} /\ b.attempts \in 0 .. MaximumTicketAttempts - 1 /\ b.drawn = spent
    BY <1>2, CallersAssumption DEF InStep
  <2>5. CASE b.attempts + 1 = MaximumTicketAttempts
    <3>1. r.thrown /\ r.attempts = MaximumTicketAttempts
      BY <2>3, <2>5
    <3>2. GaveUp(r, layout, h)
      BY <1>2, <2>3, <3>1 DEF GaveUp, InStep
    <3> QED
      BY <2>2, <2>3, <3>2 DEF Follows, r
  <2>6. CASE b.attempts + 1 # MaximumTicketAttempts
    <3>1. ~r.thrown
      BY <2>3, <2>6
    <3>2. r.attempts \in 0 .. MaximumTicketAttempts - 1 /\ r.drawn = spent + 1
      <4>1. b.attempts + 1 \in 0 .. MaximumTicketAttempts - 1
        BY <2>4, <2>6
      <4> QED
        BY <2>3, <2>4, <4>1
    <3>a. InStep(r, layout, h, spent + 1)
      BY <1>2, <2>3, <3>1, <3>2 DEF InStep
    <3> QED
      BY <2>2, <2>3, <3>a DEF Follows, r
  <2> QED
    BY <2>5, <2>6
<1> QED
  BY <1>1, <1>2 DEF Follows

LEMMA LayoutDraws == Draws(NoLayout, <<>>, TotalWeight(LayoutTable))
<1> SUFFICES ASSUME NEW b, NEW spent, BuilderShape(b), InStep(b, NoLayout, <<>>, spent)
             PROVE  ~PackComplete(b) /\ SumOf(Weights(b)) = TotalWeight(LayoutTable)
  BY DEF Draws
<1>1. b.layout = NoLayout
  BY DEF InStep
<1> DEFINE w == [l \in DOMAIN Layouts |-> Layouts[l].weight]
<1>2. Weights(b) = w
  BY <1>1 DEF Weights
<1>3. /\ DOMAIN Layouts = 1 .. Len(Layouts) /\ Len(Layouts) \in Nat /\ IsTable(LayoutTable)
      /\ Len(LayoutTable) = Len(Layouts)
      /\ \A l \in 1 .. Len(Layouts) : LayoutTable[l].weight = Layouts[l].weight
  BY LayoutFacts DEF Drawable
<1>4. Listed(w) /\ Len(w) = Len(Layouts) /\ \A l \in 1 .. Len(Layouts) : w[l] = LayoutTable[l].weight
  BY <1>3, IndexedListed
<1> HIDE DEF w
<1>5. SumOf(w) = TotalWeight(LayoutTable)
  BY <1>3, <1>4, ScanOfSums, SMTT(30)
<1> QED
  BY <1>1, <1>2, <1>5 DEF PackComplete

\* The weights of a planned position.
LEMMA CardWeights ==
    ASSUME NEW plan, PlanOK(plan), plan.next < PositionCount,
           NEW b, NEW spent, BuilderShape(b), InStep(b, plan.layout, plan.history, spent)
    PROVE  LET p == CurrentPool(plan)
               c == plan.pools[p]
           IN  /\ ~PackComplete(b) /\ b.layout # NoLayout /\ PoolAt(b) = p /\ p \in Pools
               /\ Remaining(b.available[p], PoolEntries[p], SelectedFrom(plan.history, p))
               /\ Len(b.available[p]) = Len(c)
               /\ \A i \in 1 .. Len(c) : /\ b.available[p][i] \in DOMAIN PoolEntries[p]
                                         /\ PoolEntries[p][b.available[p][i]].key = c[i].key
               /\ Listed(Weights(b)) /\ Len(Weights(b)) = Len(c)
               /\ \A i \in 1 .. Len(c) : Weights(b)[i] = c[i].weight
<1> DEFINE p == CurrentPool(plan)
           c == plan.pools[p]
           a == b.available[p]
           w == Weights(b)
<1>1. p \in Pools /\ c = Left(p, SelectedFrom(plan.history, p))
  BY PlanPool
<1>2. b.layout = plan.layout /\ Len(b.cards) = plan.next /\ plan.next \in Nat /\ plan.layout \in DOMAIN Layouts
  BY HistoryFacts DEF InStep, PlanOK
<1>3. ~PackComplete(b) /\ b.layout # NoLayout /\ PoolAt(b) = p
  BY <1>2, NoLayoutFact DEF PackComplete, PoolAt, CurrentPool
<1>4. Remaining(a, PoolEntries[p], SelectedFrom(plan.history, p))
  BY <1>1 DEF InStep
<1> HIDE DEF p, c, a, w
<1>5. /\ Listed(a) /\ Len(a) = Len(c) /\ DOMAIN a = 1 .. Len(c)
      /\ \A i \in 1 .. Len(c) : /\ a[i] \in DOMAIN PoolEntries[p]
                                /\ c[i].key = PoolEntries[p][a[i]].key
                                /\ c[i].weight = PoolEntries[p][a[i]].weight
  BY <1>1, <1>4, AvailableIsLeft
<1>6. w = [i \in 1 .. Len(c) |-> PoolEntries[p][a[i]].weight]
  BY <1>3, <1>5 DEF Weights, w, a
<1>7. Len(c) \in Nat
  BY <1>1, LeftFacts
<1>8. DOMAIN w = 1 .. Len(c) /\ w = [i \in 1 .. Len(c) |-> w[i]] /\ \A i \in 1 .. Len(c) : w[i] = c[i].weight
  BY <1>5, <1>6
<1>9. Listed(w) /\ Len(w) = Len(c)
  BY <1>7, <1>8, IndexedListed
<1> QED
  BY <1>1, <1>3, <1>4, <1>5, <1>8, <1>9 DEF p, c, a, w

LEMMA CardDraws ==
    ASSUME NEW plan, PlanOK(plan), plan.next < PositionCount
    PROVE  Draws(plan.layout, plan.history, TotalWeight(plan.pools[CurrentPool(plan)]))
<1> DEFINE c == plan.pools[CurrentPool(plan)]
<1> SUFFICES ASSUME NEW b, NEW spent, BuilderShape(b), InStep(b, plan.layout, plan.history, spent)
             PROVE  ~PackComplete(b) /\ SumOf(Weights(b)) = TotalWeight(c)
  BY DEF Draws
<1>1. /\ ~PackComplete(b) /\ Listed(Weights(b)) /\ Len(Weights(b)) = Len(c)
      /\ \A i \in 1 .. Len(c) : Weights(b)[i] = c[i].weight
  BY CardWeights
<1>2. IsTable(c)
  BY PlanPool DEF Drawable
<1> HIDE DEF c
<1> QED
  BY <1>1, <1>2, ScanOfSums

\* Nothing is thrown while something is left.
LEMMA ThrowFields ==
    ASSUME NEW b, BuilderShape(b), ~OutOfEntries(b)
    PROVE  LET r == ThrowIfEmpty(b)
           IN  /\ BuilderShape(r) /\ ~r.thrown
               /\ r.layout = b.layout /\ r.available = b.available /\ r.cards = b.cards
               /\ r.attempts = b.attempts /\ r.drawn = b.drawn
<1> DEFINE r == ThrowIfEmpty(b)
           u == OutOfEntries(b)
<1>1. r = [b EXCEPT !.thrown = u]
  BY DEF ThrowIfEmpty
<1>2. ~u
  OBVIOUS
<1> HIDE DEF r, u
<1>3. /\ r.layout = b.layout /\ r.available = b.available /\ r.cards = b.cards
      /\ r.attempts = b.attempts /\ r.drawn = b.drawn /\ r.thrown = u
  BY <1>1 DEF BuilderShape
<1>4. r = [layout |-> r.layout, available |-> r.available, cards |-> r.cards,
           attempts |-> r.attempts, drawn |-> r.drawn, thrown |-> r.thrown]
  BY <1>1 DEF BuilderShape
<1>5. ~r.thrown
  BY <1>2, <1>3
<1> QED
  BY <1>3, <1>4, <1>5 DEF r, BuilderShape

WithFields(b, l, c, a, d) ==
    [layout |-> l, available |-> a, cards |-> c, attempts |-> 0, drawn |-> d, thrown |-> b.thrown]

LEMMA LayoutFields ==
    ASSUME NEW b, BuilderShape(b), NEW l, NEW d
    PROVE  [b EXCEPT !.layout = l, !.attempts = 0, !.drawn = d] = WithFields(b, l, b.cards, b.available, d)
<1> DEFINE n == [b EXCEPT !.layout = l, !.attempts = 0, !.drawn = d]
<1>1. n = [b EXCEPT !.layout = l, !.attempts = 0, !.drawn = d]
  OBVIOUS
<1> HIDE DEF n
<1>2. /\ n.layout = l /\ n.available = b.available /\ n.cards = b.cards /\ n.attempts = 0
      /\ n.drawn = d /\ n.thrown = b.thrown
  BY <1>1 DEF BuilderShape
<1>3. n = [layout |-> n.layout, available |-> n.available, cards |-> n.cards,
           attempts |-> n.attempts, drawn |-> n.drawn, thrown |-> n.thrown]
  BY <1>1 DEF BuilderShape
<1>4. n = WithFields(b, l, b.cards, b.available, d)
  BY <1>2, <1>3 DEF WithFields
<1> QED
  BY <1>4 DEF n

\* The builder with a card more, before it is seen whether anything is left.
CardDealt(b, c, a, d) == [b EXCEPT !.cards = c, !.available = a, !.attempts = 0, !.drawn = d]

LEMMA CardFields ==
    ASSUME NEW b, BuilderShape(b), NEW c, NEW a, NEW d
    PROVE  CardDealt(b, c, a, d) = WithFields(b, b.layout, c, a, d)
<1> DEFINE n == CardDealt(b, c, a, d)
<1>1. n = [b EXCEPT !.cards = c, !.available = a, !.attempts = 0, !.drawn = d]
  BY DEF CardDealt
<1> HIDE DEF n
<1>2. /\ n.layout = b.layout /\ n.available = a /\ n.cards = c /\ n.attempts = 0
      /\ n.drawn = d /\ n.thrown = b.thrown
  BY <1>1 DEF BuilderShape
<1>3. n = [layout |-> n.layout, available |-> n.available, cards |-> n.cards,
           attempts |-> n.attempts, drawn |-> n.drawn, thrown |-> n.thrown]
  BY <1>1 DEF BuilderShape
<1>4. n = WithFields(b, b.layout, c, a, d)
  BY <1>2, <1>3 DEF WithFields
<1> QED
  BY <1>4 DEF n

LEMMA WithLayoutFields ==
    ASSUME NEW b, BuilderShape(b), NEW l
    PROVE  WithLayout(b, l) = ThrowIfEmpty(WithFields(b, l, b.cards, b.available, b.drawn + 1))
<1> DEFINE d == b.drawn + 1
<1>1. WithLayout(b, l) = ThrowIfEmpty([b EXCEPT !.layout = l, !.attempts = 0, !.drawn = d])
  BY DEF WithLayout
<1> HIDE DEF d
<1>2. [b EXCEPT !.layout = l, !.attempts = 0, !.drawn = d] = WithFields(b, l, b.cards, b.available, d)
  BY LayoutFields
<1>3. WithLayout(b, l) = ThrowIfEmpty(WithFields(b, l, b.cards, b.available, d))
  BY <1>1, <1>2
<1> QED
  BY <1>3 DEF d

LEMMA WithCardFields ==
    ASSUME NEW b, BuilderShape(b), NEW k, NEW p, p = PoolAt(b)
    PROVE  WithCard(b, k) =
             ThrowIfEmpty(WithFields(b, b.layout, Append(b.cards, PoolEntries[p][b.available[p][k]].key),
                                     [b.available EXCEPT ![p] = RemoveAt(b.available[p], k)], b.drawn + 1))
<1> DEFINE c == Append(b.cards, PoolEntries[p][b.available[p][k]].key)
           a == [b.available EXCEPT ![p] = RemoveAt(b.available[p], k)]
           d == b.drawn + 1
<1>1. WithCard(b, k) =
        ThrowIfEmpty([b EXCEPT !.cards = Append(@, PoolEntries[p][b.available[p][k]].key),
                               !.available[p] = RemoveAt(@, k), !.attempts = 0, !.drawn = @ + 1])
  BY DEF WithCard
<1>2. WithCard(b, k) = ThrowIfEmpty(CardDealt(b, c, a, d))
  BY <1>1 DEF CardDealt
<1> HIDE DEF c, a, d
<1>3. CardDealt(b, c, a, d) = WithFields(b, b.layout, c, a, d)
  BY CardFields
<1>4. WithCard(b, k) = ThrowIfEmpty(WithFields(b, b.layout, c, a, d))
  BY <1>2, <1>3
<1> QED
  BY <1>4 DEF c, a, d

LEMMA FieldsOf ==
    ASSUME NEW b, NEW l, NEW c, NEW a, NEW d
    PROVE  LET n == WithFields(b, l, c, a, d)
           IN  /\ BuilderShape(n) /\ n.layout = l /\ n.available = a /\ n.cards = c /\ n.attempts = 0 /\ n.drawn = d
BY DEF WithFields, BuilderShape

\* The accepted sample of the layout.
LEMMA LayoutFollows ==
    ASSUME NEW b, NEW spent \in Nat, Follows(b, NoLayout, <<>>, spent),
           NEW s \in Sample, s < AcceptedEnd(TotalWeight(LayoutTable)),
           NEW l \in DOMAIN Layouts, Covers(LayoutTable, l, s % TotalWeight(LayoutTable))
    PROVE  Follows(Take(b, s), l, <<>>, spent + 1)
<1> DEFINE T == TotalWeight(LayoutTable)
<1>a. Listed(<<>>) /\ Len(<<>>) = 0
  BY EmptySeq DEF Listed
<1>1. CASE GaveUp(b, NoLayout, <<>>)
  BY <1>1, <1>a, GaveUpStays DEF Follows
<1>2. CASE InStep(b, NoLayout, <<>>, spent)
  <2>1. BuilderShape(b) /\ ~PackComplete(b) /\ SumOf(Weights(b)) = T /\ ~b.thrown /\ b.layout = NoLayout
    BY <1>2, LayoutDraws DEF Follows, Draws, InStep
  <2>2. SelectWeightedIndex(Weights(b), s % T) = l
    <3> DEFINE w == [k \in DOMAIN Layouts |-> Layouts[k].weight]
    <3>1. Weights(b) = w
      BY <2>1 DEF Weights
    <3>2. /\ DOMAIN Layouts = 1 .. Len(Layouts) /\ Len(Layouts) \in Nat /\ IsTable(LayoutTable)
          /\ Len(LayoutTable) = Len(Layouts)
          /\ \A k \in 1 .. Len(Layouts) : LayoutTable[k].weight = Layouts[k].weight
      BY LayoutFacts DEF Drawable
    <3>3. Listed(w) /\ Len(w) = Len(Layouts) /\ \A k \in 1 .. Len(Layouts) : w[k] = LayoutTable[k].weight
      BY <3>2, IndexedListed
    <3> HIDE DEF w
    <3>4. s % T \in Nat
      <4>1. T \in Nat \ {0} /\ s \in Nat
        BY LayoutFacts, DrawableFacts DEF Sample
      <4> QED
        BY <4>1
    <3> QED
      BY <3>1, <3>2, <3>3, <3>4, ScanOfSums
  <2>3. Take(b, s) = WithLayout(b, l)
    BY <2>1, <2>2 DEF Take, MapSample
  <2> DEFINE n == WithFields(b, l, b.cards, b.available, b.drawn + 1)
             r == ThrowIfEmpty(n)
  <2>4. Take(b, s) = r
    BY <2>1, <2>3, WithLayoutFields
  <2>5. /\ n.layout = l /\ n.available = b.available /\ n.cards = b.cards /\ n.attempts = 0
        /\ n.drawn = b.drawn + 1 /\ BuilderShape(n)
    BY FieldsOf
  <2>6. BuilderShape(n)
    BY <2>5
  <2> HIDE DEF n
  <2>7. ~OutOfEntries(n)
    <3> DEFINE p == PoolAt(n)
    <3>1. Len(n.cards) = 0
      BY <1>2, <1>a, <2>5 DEF InStep
    <3>2. p \in Pools
      <4>1. p = Slots(l)[1]
        BY <2>5, <3>1 DEF PoolAt
      <4>2. 1 \in 1 .. PositionCount
        BY LayoutFacts
      <4> QED
        BY <4>1, <4>2, LayoutFacts
    <3>3. Remaining(n.available[p], PoolEntries[p], {})
      BY <1>2, <2>5, <3>2, NothingDealt DEF InStep
    <3> HIDE DEF p
    <3>a. Left(p, {}) = PoolTable[p]
      BY <3>2, LeftAll
    <3>4. Len(n.available[p]) = Len(PoolTable[p])
      <4>1. Len(n.available[p]) = Len(Left(p, {}))
        BY <3>2, <3>3, AvailableIsLeft, ZenonT(60)
      <4> QED
        BY <3>a, <4>1
    <3>5. Len(PoolTable[p]) # 0
      BY <3>2, PoolFacts, DrawableFacts
    <3>6. n.available[p] # <<>>
      BY <1>a, <3>4, <3>5
    <3> QED
      BY <3>6 DEF OutOfEntries, p
  <2>8. /\ BuilderShape(r) /\ ~r.thrown /\ r.layout = l /\ r.available = b.available /\ r.cards = b.cards
        /\ r.attempts = 0 /\ r.drawn = b.drawn + 1
    BY <2>5, <2>6, <2>7, ThrowFields
  <2> HIDE DEF r
  <2>9. 0 \in 0 .. MaximumTicketAttempts - 1
    BY CallersAssumption
  <2>10. InStep(r, l, <<>>, spent + 1)
    BY <1>2, <2>8, <2>9 DEF InStep
  <2> QED
    BY <2>4, <2>8, <2>10 DEF Follows
<1> QED
  BY <1>1, <1>2 DEF Follows

\* The accepted sample of a position.
LEMMA CardFollows ==
    ASSUME NEW plan, PlanOK(plan), plan.next < PositionCount,
           NEW b, NEW spent \in Nat, Follows(b, plan.layout, plan.history, spent),
           NEW s \in Sample, s < AcceptedEnd(TotalWeight(plan.pools[CurrentPool(plan)])),
           NEW k \in 1 .. Len(plan.pools[CurrentPool(plan)]),
           Covers(plan.pools[CurrentPool(plan)], k, s % TotalWeight(plan.pools[CurrentPool(plan)]))
    PROVE  LET next == Advanced(plan, plan.pools[CurrentPool(plan)][k].key)
           IN  Follows(Take(b, s), next.layout, next.history, spent + 1)
<1> DEFINE p == CurrentPool(plan)
           c == plan.pools[p]
           T == TotalWeight(c)
           id == c[k].key
           next == Advanced(plan, id)
           x == [pool |-> p, identity |-> id]
<1>1. /\ PlanOK(next) /\ next.layout = plan.layout /\ next.next = plan.next + 1
      /\ next.history = Append(plan.history, x)
      /\ \E i \in DOMAIN PoolTable[p] : PoolTable[p][i].key = id
  BY PlanAdvances
<1>2. p \in Pools /\ Drawable(c) /\ IsTable(c)
  BY PlanPool DEF Drawable
<1>3. Listed(plan.history) /\ x.pool = p /\ x.identity = id
  BY DEF PlanOK
<1>4. id \in Identities
  <2>1. PICK i \in DOMAIN PoolEntries[p] : PoolEntries[p][i].key = id
    BY <1>1, <1>2, PoolFacts DEF SameEntries
  <2> QED
    BY <1>2, <2>1, SMTT(30) DEF Identities, ToSet
<1>a. /\ s < AcceptedEnd(T) /\ k \in 1 .. Len(c) /\ Covers(c, k, s % T)
  OBVIOUS
<1> HIDE DEF next, c, p, T
<1>5. CASE GaveUp(b, plan.layout, plan.history)
  <2>1. Take(b, s) = b /\ GaveUp(b, plan.layout, next.history)
    BY <1>1, <1>3, <1>5, GaveUpStays, SMTT(30) DEF Follows
  <2> QED
    BY <1>1, <2>1, ZenonT(60) DEF Follows, next, p, c
<1>6. CASE InStep(b, plan.layout, plan.history, spent)
  <2> DEFINE a == b.available[p]
             w == Weights(b)
  <2>1. /\ BuilderShape(b) /\ ~PackComplete(b) /\ b.layout # NoLayout /\ PoolAt(b) = p
        /\ Remaining(a, PoolEntries[p], SelectedFrom(plan.history, p))
        /\ Len(a) = Len(c)
        /\ \A i \in 1 .. Len(c) : a[i] \in DOMAIN PoolEntries[p] /\ PoolEntries[p][a[i]].key = c[i].key
        /\ Listed(w) /\ Len(w) = Len(c) /\ \A i \in 1 .. Len(c) : w[i] = c[i].weight
    BY <1>6, CardWeights, ZenonT(60) DEF Follows, p, c
  <2> HIDE DEF a, w
  <2>2. SumOf(w) = T /\ SelectWeightedIndex(w, s % T) = k
    <3>1. s % T \in Nat
      <4>1. T \in Nat \ {0} /\ s \in Nat
        BY <1>2, DrawableFacts DEF Sample, T
      <4> QED
        BY <4>1
    <3> QED
      BY <1>2, <1>a, <2>1, <3>1, ScanOfSums DEF T
  <2>3. Take(b, s) = WithCard(b, k)
    BY <1>6, <1>a, <2>1, <2>2, SMTT(30) DEF Take, MapSample, InStep, w
  <2> DEFINE cards == Append(b.cards, id)
             available == [b.available EXCEPT ![p] = RemoveAt(a, k)]
             n == WithFields(b, b.layout, cards, available, b.drawn + 1)
             r == ThrowIfEmpty(n)
  <2>4. Take(b, s) = r
    <3>1. PoolEntries[p][a[k]].key = id
      BY <1>a, <2>1
    <3> QED
      BY <2>1, <2>3, <3>1, WithCardFields, SMTT(20) DEF a
  <2>5. /\ BuilderShape(n) /\ n.layout = plan.layout /\ n.available = available /\ n.cards = cards /\ n.attempts = 0
        /\ n.drawn = spent + 1
    <3>1. b.layout = plan.layout /\ b.drawn = spent
      BY <1>6 DEF InStep
    <3> HIDE DEF cards, available
    <3>2. /\ BuilderShape(n) /\ n.layout = b.layout /\ n.available = available /\ n.cards = cards /\ n.attempts = 0
          /\ n.drawn = b.drawn + 1
      BY FieldsOf
    <3> HIDE DEF n
    <3> QED
      BY <3>1, <3>2
  <2> HIDE DEF n
  <2>6. Dealt(cards, next.history) /\ Len(cards) = Len(next.history)
    <3>1. Dealt(b.cards, plan.history) /\ Len(b.cards) = Len(plan.history) /\ Listed(b.cards)
      BY <1>6 DEF InStep, Dealt
    <3>2. Dealt(cards, next.history)
      BY <1>1, <1>3, <1>4, <3>1, DealtMore
    <3>3. Len(cards) = Len(next.history)
      BY <1>1, <1>3, <3>1, AppendListed
    <3> QED
      BY <3>2, <3>3
  <2>7. /\ available = [q \in Pools |-> available[q]]
        /\ \A q \in Pools : Remaining(available[q], PoolEntries[q], SelectedFrom(next.history, q))
    <3>1. /\ b.available = [q \in Pools |-> b.available[q]]
          /\ \A q \in Pools : Remaining(b.available[q], PoolEntries[q], SelectedFrom(plan.history, q))
      BY <1>6 DEF InStep
    <3>2. available = [q \in Pools |-> available[q]]
      BY <3>1
    <3>3. \A q \in Pools : available[q] = IF q = p THEN RemoveAt(a, k) ELSE b.available[q]
      BY <3>1
    <3>4. \A q \in Pools : SelectedFrom(next.history, q) = SelectedFrom(plan.history, q) \cup IF q = p THEN {id} ELSE {}
      BY <1>1, <1>3, HistoryGrows
    <3>5. Remaining(RemoveAt(a, k), PoolEntries[p], SelectedFrom(plan.history, p) \cup {id})
      <4>1. Entries(PoolEntries[p]) /\ k \in 1 .. Len(a) /\ PoolEntries[p][a[k]].key = id
        BY <1>2, <1>a, <2>1, PoolFacts
      <4> QED
        BY <2>1, <4>1, RemainingFewer
    <3> HIDE DEF available
    <3>6. ASSUME NEW q \in Pools PROVE Remaining(available[q], PoolEntries[q], SelectedFrom(next.history, q))
      <4>1. CASE q = p
        BY <3>3, <3>4, <3>5, <4>1
      <4>2. CASE q # p
        <5>1. available[q] = b.available[q] /\ SelectedFrom(next.history, q) = SelectedFrom(plan.history, q)
          BY <3>3, <3>4, <4>2
        <5> QED
          BY <3>1, <5>1
      <4> QED
        BY <4>1, <4>2
    <3> QED
      BY <3>2, <3>6
  <2> HIDE DEF cards, available
  <2>8. ~OutOfEntries(n)
    <3> SUFFICES ASSUME n.layout # NoLayout, ~PackComplete(n) PROVE n.available[PoolAt(n)] # <<>>
      BY DEF OutOfEntries
    <3>1. Len(n.cards) = next.next
      BY <1>1, <2>5, <2>6, HistoryFacts
    <3>2. next.next < PositionCount
      BY <1>1, <2>5, <3>1, HistoryFacts DEF PackComplete
    <3> DEFINE q == CurrentPool(next)
    <3>3. q \in Pools /\ next.pools[q] = Left(q, SelectedFrom(next.history, q)) /\ Drawable(next.pools[q])
      BY <1>1, <3>2, PlanPool
    <3>4. PoolAt(n) = q
      BY <1>1, <2>5, <3>1 DEF PoolAt, CurrentPool
    <3> HIDE DEF q
    <3>5. Len(available[q]) = Len(next.pools[q])
      <4>1. Remaining(available[q], PoolEntries[q], SelectedFrom(next.history, q))
        BY <2>7, <3>3
      <4>2. Len(available[q]) = Len(Left(q, SelectedFrom(next.history, q)))
        BY <3>3, <4>1, AvailableIsLeft, ZenonT(60)
      <4> QED
        BY <3>3, <4>2
    <3>6. Len(next.pools[q]) # 0
      BY <3>3, DrawableFacts
    <3>7. available[q] # <<>>
      BY <3>5, <3>6
    <3> QED
      BY <2>5, <3>4, <3>7
  <2>9. /\ BuilderShape(r) /\ ~r.thrown /\ r.layout = plan.layout /\ r.available = available
        /\ r.cards = cards /\ r.attempts = 0 /\ r.drawn = spent + 1
    BY <2>5, <2>8, ThrowFields
  <2> HIDE DEF r
  <2>10. 0 \in 0 .. MaximumTicketAttempts - 1
    BY CallersAssumption
  <2>11. InStep(r, plan.layout, next.history, spent + 1)
    BY <2>6, <2>7, <2>9, <2>10 DEF InStep
  <2> QED
    BY <1>1, <2>4, <2>9, <2>11 DEF Follows, next, p, c
<1> QED
  BY <1>5, <1>6, SMTT(30) DEF Follows

-----------------------------------------------------------------------------
(* The builder after the samples of a call.                                *)

IsReplay(f, b, w) == f = [i \in 0 .. Len(w) |-> IF i = 0 THEN b ELSE Take(f[i-1], w[i])]

\* b becomes d with the samples w.
Reaches(b, w, d) == \E f : IsReplay(f, b, w) /\ f[Len(w)] = d

LEMMA ReplayReaches ==
    ASSUME NEW w, Listed(w), NEW d, Reaches(builder, w, d)
    PROVE  Replay(w) = d
<1> DEFINE f == CHOOSE f : IsReplay(f, builder, w)
<1>1. PICK g : IsReplay(g, builder, w) /\ g[Len(w)] = d
  BY DEF Reaches
<1>2. IsReplay(f, builder, w)
  BY <1>1
<1>3. Replay(w) = f[Len(w)]
  BY DEF Replay, IsReplay
<1> HIDE DEF f
<1> DEFINE S == {i \in Nat : i <= Len(w) => f[i] = g[i]}
<1>4. Len(w) \in Nat
  BY ListFacts
<1>5. 0 \in S
  BY <1>1, <1>2, <1>4 DEF IsReplay
<1>6. ASSUME NEW i \in Nat, i \in S PROVE i + 1 \in S
  <2> SUFFICES ASSUME i + 1 <= Len(w) PROVE f[i+1] = g[i+1]
    OBVIOUS
  <2>1. i + 1 \in 0 .. Len(w) /\ i + 1 # 0 /\ (i + 1) - 1 = i /\ i <= Len(w)
    BY <1>4
  <2>2. f[i+1] = Take(f[i], w[i+1])
    BY <1>2, <2>1 DEF IsReplay
  <2>3. g[i+1] = Take(g[i], w[i+1])
    BY <1>1, <2>1 DEF IsReplay
  <2> QED
    BY <1>6, <2>1, <2>2, <2>3
<1> HIDE DEF S
<1>7. \A i \in Nat : i \in S
  BY <1>5, <1>6, Ascent
<1>8. f[Len(w)] = g[Len(w)]
  BY <1>4, <1>7 DEF S
<1> QED
  BY <1>1, <1>3, <1>8

LEMMA ReachesWithout ==
    ASSUME NEW b, NEW w, Listed(w), Len(w) = 0
    PROVE  Reaches(b, w, b)
<1> DEFINE f == [i \in 0 .. 0 |-> b]
<1>1. f[0] = b /\ f = [i \in 0 .. 0 |-> IF i = 0 THEN b ELSE Take(f[i-1], w[i])]
  OBVIOUS
<1> HIDE DEF f
<1>2. IsReplay(f, b, w)
  BY <1>1 DEF IsReplay
<1> QED
  BY <1>1, <1>2 DEF Reaches

\* One sample more.
LEMMA ReachesOne ==
    ASSUME NEW b, NEW w, Listed(w), NEW c, Reaches(b, w, c),
           NEW v, Listed(v), Len(v) = Len(w) + 1, \A i \in 1 .. Len(w) : v[i] = w[i]
    PROVE  Reaches(b, v, Take(c, v[Len(v)]))
<1> DEFINE n == Len(w)
           last == Take(c, v[n + 1])
<1>1. PICK f : IsReplay(f, b, w) /\ f[Len(w)] = c
  BY DEF Reaches
<1> DEFINE g == [i \in 0 .. n + 1 |-> IF i = n + 1 THEN last ELSE f[i]]
<1>2. n \in Nat
  BY ListFacts
<1>3. \A i \in 0 .. n : f[i] = IF i = 0 THEN b ELSE Take(f[i-1], w[i])
  BY <1>1 DEF IsReplay
<1>4. f[n] = c /\ Len(v) = n + 1 /\ \A i \in 1 .. n : v[i] = w[i]
  BY <1>1
<1> HIDE DEF n
<1>5. g = [i \in 0 .. n + 1 |-> g[i]] /\ g[n + 1] = last /\ \A i \in 0 .. n : g[i] = f[i]
  BY <1>2
<1> HIDE DEF g
<1>6. ASSUME NEW i \in 0 .. n + 1 PROVE g[i] = IF i = 0 THEN b ELSE Take(g[i-1], v[i])
  <2>1. CASE i = n + 1
    <3>1. i # 0 /\ i - 1 = n /\ n \in 0 .. n
      BY <1>2, <2>1
    <3>2. g[i-1] = c
      BY <1>4, <1>5, <3>1
    <3> QED
      BY <1>5, <2>1, <3>1, <3>2
  <2>2. CASE i = 0
    <3>1. i \in 0 .. n
      BY <1>2, <2>2
    <3> QED
      BY <1>3, <1>5, <2>2, <3>1
  <2>3. CASE i # n + 1 /\ i # 0
    <3>1. i \in 0 .. n /\ i \in 1 .. n /\ i - 1 \in 0 .. n
      BY <1>2, <2>3
    <3>2. g[i] = f[i] /\ g[i-1] = f[i-1] /\ v[i] = w[i]
      BY <1>4, <1>5, <3>1
    <3> QED
      BY <1>3, <2>3, <3>1, <3>2
  <2> QED
    BY <2>1, <2>2, <2>3
<1>7. IsReplay(g, b, v)
  BY <1>4, <1>5, <1>6 DEF IsReplay
<1> QED
  BY <1>4, <1>5, <1>7 DEF Reaches

\* One call after another.
LEMMA ReachesOn ==
    ASSUME NEW b, NEW w, Listed(w), NEW c, Reaches(b, w, c), NEW u, Listed(u), NEW d, Reaches(c, u, d)
    PROVE  Reaches(b, w \o u, d)
<1> DEFINE n == Len(w)
           m == Len(u)
           v == w \o u
<1>1. PICK f : IsReplay(f, b, w) /\ f[Len(w)] = c
  BY DEF Reaches
<1>2. PICK g : IsReplay(g, c, u) /\ g[Len(u)] = d
  BY DEF Reaches
<1>3. n \in Nat /\ m \in Nat
  BY ListFacts
<1>4. Len(v) = n + m /\ \A i \in 1 .. n + m : v[i] = IF i <= n THEN w[i] ELSE u[i - n]
  <2> DEFINE S == ToSet(w) \cup ToSet(u)
  <2>1. w \in Seq(S) /\ u \in Seq(S)
    BY SeqMonotonic DEF Listed
  <2> HIDE DEF S
  <2> QED
    BY <2>1, ConcatProperties
<1>5. \A i \in 0 .. n : f[i] = IF i = 0 THEN b ELSE Take(f[i-1], w[i])
  BY <1>1 DEF IsReplay
<1>6. \A i \in 0 .. m : g[i] = IF i = 0 THEN c ELSE Take(g[i-1], u[i])
  BY <1>2 DEF IsReplay
<1>7. f[n] = c /\ g[m] = d
  BY <1>1, <1>2
<1> HIDE DEF n, m, v
<1> DEFINE h == [i \in 0 .. n + m |-> IF i <= n THEN f[i] ELSE g[i - n]]
<1>8. h = [i \in 0 .. n + m |-> h[i]] /\ \A i \in 0 .. n + m : h[i] = IF i <= n THEN f[i] ELSE g[i - n]
  OBVIOUS
<1> HIDE DEF h
<1>9. g[0] = c
  BY <1>3, <1>6
<1>10. ASSUME NEW i \in 0 .. n + m PROVE h[i] = IF i = 0 THEN b ELSE Take(h[i-1], v[i])
  <2>1. CASE i = 0
    <3>1. i <= n /\ i \in 0 .. n
      BY <1>3, <2>1
    <3> QED
      BY <1>5, <1>8, <2>1, <3>1
  <2>2. CASE i # 0 /\ i <= n
    <3>1. i \in 0 .. n /\ i - 1 \in 0 .. n + m /\ i - 1 <= n /\ i \in 1 .. n + m
      BY <1>3, <2>2
    <3>2. h[i] = f[i] /\ h[i-1] = f[i-1] /\ v[i] = w[i]
      BY <1>4, <1>8, <2>2, <3>1
    <3> QED
      BY <1>5, <2>2, <3>1, <3>2
  <2>3. CASE ~(i <= n)
    <3>1. i - n \in 0 .. m /\ i - n # 0 /\ i \in 1 .. n + m /\ i - 1 \in 0 .. n + m /\ (i - 1) - n = (i - n) - 1 /\ i # 0
      BY <1>3, <2>3
    <3>2. h[i] = g[i - n] /\ v[i] = u[i - n]
      BY <1>4, <1>8, <2>3, <3>1
    <3>3. h[i - 1] = g[(i - n) - 1]
      <4>1. CASE i - 1 <= n
        <5>1. i - 1 = n /\ (i - n) - 1 = 0
          BY <1>3, <2>3, <4>1
        <5> QED
          BY <1>7, <1>8, <1>9, <3>1, <4>1, <5>1
      <4>2. CASE ~(i - 1 <= n)
        BY <1>8, <3>1, <4>2
      <4> QED
        BY <4>1, <4>2
    <3> QED
      BY <1>6, <3>1, <3>2, <3>3
  <2> QED
    BY <2>1, <2>2, <2>3
<1>11. IsReplay(h, b, v)
  BY <1>4, <1>8, <1>10 DEF IsReplay
<1>12. h[n + m] = d
  <2>1. CASE m = 0
    <3>1. n + m = n /\ n + m \in 0 .. n + m /\ n + m <= n
      BY <1>3, <2>1
    <3> QED
      BY <1>7, <1>8, <1>9, <2>1, <3>1
  <2>2. CASE m # 0
    <3>1. ~(n + m <= n) /\ (n + m) - n = m /\ n + m \in 0 .. n + m
      BY <1>3, <2>2
    <3> QED
      BY <1>7, <1>8, <3>1
  <2> QED
    BY <2>1, <2>2
<1> QED
  BY <1>4, <1>11, <1>12 DEF Reaches, v

\* A run of rejected samples.
LEMMA RejectedRun ==
    ASSUME NEW b, NEW layout, NEW h, NEW spent \in Nat, Follows(b, layout, h, spent),
           NEW total, Draws(layout, h, total), NEW batch \in Seq(Sample), NEW n \in 0 .. Len(batch),
           \A i \in 1 .. n : ~(batch[i] < AcceptedEnd(total))
    PROVE  \E d : Reaches(b, SubSeq(batch, 1, n), d) /\ Follows(d, layout, h, spent + n)
<1> DEFINE v(m) == SubSeq(batch, 1, m)
           S == {m \in Nat : m <= n => \E d : Reaches(b, v(m), d) /\ Follows(d, layout, h, spent + m)}
<1>1. Listed(batch) /\ Len(batch) \in Nat /\ \A i \in 1 .. Len(batch) : batch[i] \in Sample
  BY SeqListed, ListFacts, ElementOfSeq
<1>2. ASSUME NEW m \in 0 .. n
      PROVE  Listed(v(m)) /\ Len(v(m)) = m /\ \A i \in 1 .. m : v(m)[i] = batch[i]
  <2>1. m \in 0 .. Len(batch)
    BY <1>1
  <2> QED
    BY <1>1, <2>1, SubSeqListed
<1> HIDE DEF v
<1>3. 0 \in S
  <2>1. Reaches(b, v(0), b)
    BY <1>1, <1>2, ReachesWithout
  <2>2. spent + 0 = spent
    OBVIOUS
  <2> QED
    BY <2>1, <2>2
<1>4. ASSUME NEW m \in Nat, m \in S PROVE m + 1 \in S
  <2> SUFFICES ASSUME m + 1 <= n PROVE \E d : Reaches(b, v(m + 1), d) /\ Follows(d, layout, h, spent + (m + 1))
    OBVIOUS
  <2>1. m <= n /\ m \in 0 .. n /\ m + 1 \in 0 .. n /\ m + 1 \in 1 .. Len(batch) /\ m + 1 \in 1 .. n
    BY <1>1
  <2>2. PICK c : Reaches(b, v(m), c) /\ Follows(c, layout, h, spent + m)
    BY <1>4, <2>1
  <2>3. /\ Listed(v(m)) /\ Len(v(m)) = m /\ Listed(v(m + 1)) /\ Len(v(m + 1)) = Len(v(m)) + 1
        /\ \A i \in 1 .. m : v(m)[i] = batch[i]
        /\ \A i \in 1 .. m + 1 : v(m + 1)[i] = batch[i]
    BY <1>2, <2>1
  <2>4. (\A i \in 1 .. Len(v(m)) : v(m + 1)[i] = v(m)[i]) /\ v(m + 1)[Len(v(m + 1))] = batch[m + 1]
    BY <2>3
  <2>5. Reaches(b, v(m + 1), Take(c, batch[m + 1]))
    <3> DEFINE u == v(m)
               w == v(m + 1)
    <3>1. Listed(u) /\ Listed(w) /\ Len(w) = Len(u) + 1 /\ \A i \in 1 .. Len(u) : w[i] = u[i]
      BY <2>3, <2>4
    <3>2. Reaches(b, u, c) /\ w[Len(w)] = batch[m + 1]
      BY <2>2, <2>4
    <3> HIDE DEF u, w
    <3>3. Reaches(b, w, Take(c, w[Len(w)]))
      BY <3>1, <3>2, ReachesOne
    <3> QED
      BY <3>2, <3>3 DEF w
  <2>6. Follows(Take(c, batch[m + 1]), layout, h, spent + (m + 1))
    <3>1. batch[m + 1] \in Sample /\ ~(batch[m + 1] < AcceptedEnd(total))
      BY <1>1, <2>1
    <3>2. spent + m \in Nat /\ (spent + m) + 1 = spent + (m + 1)
      OBVIOUS
    <3> DEFINE k == spent + m
               s == batch[m + 1]
    <3> HIDE DEF k, s
    <3>3. Follows(Take(c, s), layout, h, k + 1)
      <4>1. k \in Nat /\ s \in Sample /\ ~(s < AcceptedEnd(total)) /\ Follows(c, layout, h, k)
        BY <2>2, <3>1, <3>2 DEF k, s
      <4> QED
        BY <4>1, RejectionFollows
    <3> QED
      BY <3>2, <3>3 DEF k, s
  <2> QED
    BY <2>5, <2>6
<1> HIDE DEF S
<1>5. \A m \in Nat : m \in S
  BY <1>3, <1>4, Ascent
<1> QED
  BY <1>1, <1>5 DEF S, v

\* A run of rejected samples and an accepted one.
LEMMA AcceptedRun ==
    ASSUME NEW b, NEW layout, NEW h, NEW spent \in Nat, Follows(b, layout, h, spent),
           NEW total, Draws(layout, h, total), NEW batch \in Seq(Sample), NEW i, FirstAccepted(batch, total, i)
    PROVE  /\ i \in 1 .. Len(batch)
           /\ \E c : /\ Follows(c, layout, h, spent + (i - 1))
                     /\ Reaches(b, SubSeq(batch, 1, i), Take(c, batch[i]))
<1> DEFINE v == SubSeq(batch, 1, i - 1)
           w == SubSeq(batch, 1, i)
<1>1. Listed(batch) /\ Len(batch) \in Nat
  BY SeqListed, ListFacts
<1>2. i \in 1 .. Len(batch) /\ \A j \in AcceptedAt(batch, total) : i <= j
  BY DEF FirstAccepted, AcceptedAt
<1>3. i - 1 \in 0 .. Len(batch) /\ i \in 0 .. Len(batch)
  BY <1>1, <1>2
<1>4. \A j \in 1 .. i - 1 : ~(batch[j] < AcceptedEnd(total))
  <2> SUFFICES ASSUME NEW j \in 1 .. i - 1, batch[j] < AcceptedEnd(total) PROVE FALSE
    OBVIOUS
  <2>1. j \in 1 .. Len(batch)
    BY <1>1, <1>2
  <2>2. j \in AcceptedAt(batch, total)
    BY <2>1 DEF AcceptedAt
  <2> QED
    BY <1>2, <2>2
<1>5. PICK c : Reaches(b, v, c) /\ Follows(c, layout, h, spent + (i - 1))
  BY <1>3, <1>4, RejectedRun
<1>6. /\ Listed(v) /\ Len(v) = i - 1 /\ \A j \in 1 .. i - 1 : v[j] = batch[j]
      /\ Listed(w) /\ Len(w) = i /\ \A j \in 1 .. i : w[j] = batch[j]
  BY <1>1, <1>3, SubSeqListed
<1> HIDE DEF v, w
<1>7. Len(w) = Len(v) + 1 /\ (\A j \in 1 .. Len(v) : w[j] = v[j]) /\ w[Len(w)] = batch[i]
  BY <1>2, <1>6
<1>8. Reaches(b, w, Take(c, batch[i]))
  <2>1. Reaches(b, w, Take(c, w[Len(w)]))
    BY <1>5, <1>6, <1>7, ReachesOne
  <2> QED
    BY <1>7, <2>1
<1> QED
  BY <1>2, <1>5, <1>8 DEF w

\* What the result of a planning call means, the builder being d by then.
Planning(r, d, spent) ==
    \/ r.state \in {"needs-sample", "retry"} /\ Follows(d, NoLayout, <<>>, spent)
    \/ /\ r.state = "selected" /\ PlanOK(r.plan) /\ r.plan.next = 0
       /\ Follows(d, r.plan.layout, r.plan.history, spent)
    \/ r.state = "failed" /\ \E l \in DOMAIN Layouts : Follows(d, l, <<>>, spent)

LEMMA RegisteredPlanning ==
    ASSUME NEW l \in DOMAIN Layouts, NEW n, NEW d, NEW spent, Follows(d, l, <<>>, spent)
    PROVE  Registered(l, n).consumed = n /\ Planning(Registered(l, n), d, spent)
<1>1. CASE CanRegister(l)
  <2> DEFINE r == Registered(l, n)
             f == FreshPlan(l)
  <2>1. r = [state |-> "selected", consumed |-> n, plan |-> f]
    BY <1>1 DEF Registered
  <2>2. PlanOK(f) /\ f.layout = l /\ f.next = 0 /\ f.history = <<>>
    BY <1>1, FreshPlanOK DEF FreshPlan
  <2> HIDE DEF r, f
  <2>3. r.state = "selected" /\ r.consumed = n /\ r.plan = f
    BY <2>1
  <2> QED
    BY <2>2, <2>3 DEF Planning, r
<1>2. CASE ~CanRegister(l)
  <2> DEFINE r == Registered(l, n)
  <2>1. r.state = "failed" /\ r.consumed = n
    BY <1>2 DEF Registered
  <2> HIDE DEF r
  <2> QED
    BY <2>1 DEF Planning, r
<1> QED
  BY <1>1, <1>2

LEMMA BatchPlans ==
    ASSUME NEW b, NEW spent \in Nat, Follows(b, NoLayout, <<>>, spent), NEW batch \in Seq(Sample)
    PROVE  LET r == InitializeFromBatch(batch)
           IN  /\ r.consumed \in 0 .. Len(batch)
               /\ \E d : Reaches(b, SubSeq(batch, 1, r.consumed), d) /\ Planning(r, d, spent + r.consumed)
<1> DEFINE T == TotalWeight(LayoutTable)
           r == InitializeFromBatch(batch)
<1>1. Listed(batch) /\ Len(batch) \in Nat
  BY SeqListed, ListFacts
<1>2. T \in Nat \ {0}
  BY LayoutFacts, DrawableFacts
<1>3. Draws(NoLayout, <<>>, T)
  BY LayoutDraws
<1>4. \/ AcceptedAt(batch, T) = {} /\ r = [state |-> "needs-sample", consumed |-> Len(batch)]
      \/ \E i \in AcceptedAt(batch, T), l \in DOMAIN Layouts :
            /\ FirstAccepted(batch, T, i) /\ Covers(LayoutTable, l, batch[i] % T)
            /\ r = Registered(l, i)
  BY LayoutTransition
<1>5. CASE AcceptedAt(batch, T) = {} /\ r = [state |-> "needs-sample", consumed |-> Len(batch)]
  <2> HIDE DEF T, r
  <2>1. r.state = "needs-sample" /\ r.consumed = Len(batch)
    BY <1>5
  <2>2. \A i \in 1 .. Len(batch) : ~(batch[i] < AcceptedEnd(T))
    BY <1>5 DEF AcceptedAt
  <2>3. Len(batch) \in 0 .. Len(batch)
    BY <1>1
  <2>4. PICK d : Reaches(b, SubSeq(batch, 1, Len(batch)), d) /\ Follows(d, NoLayout, <<>>, spent + Len(batch))
    BY <1>3, <2>2, <2>3, RejectedRun
  <2>5. Planning(r, d, spent + r.consumed)
    BY <2>1, <2>4 DEF Planning
  <2> QED
    BY <2>1, <2>3, <2>4, <2>5 DEF r
<1>6. ASSUME NEW i \in AcceptedAt(batch, T), NEW l \in DOMAIN Layouts, FirstAccepted(batch, T, i),
             Covers(LayoutTable, l, batch[i] % T), r = Registered(l, i)
      PROVE  /\ r.consumed \in 0 .. Len(batch)
             /\ \E d : Reaches(b, SubSeq(batch, 1, r.consumed), d) /\ Planning(r, d, spent + r.consumed)
  <2> HIDE DEF T, r
  <2>1. i \in 1 .. Len(batch) /\ batch[i] \in Sample /\ batch[i] < AcceptedEnd(T)
    BY <1>2, AcceptedSample
  <2>2. PICK c : /\ Follows(c, NoLayout, <<>>, spent + (i - 1))
                 /\ Reaches(b, SubSeq(batch, 1, i), Take(c, batch[i]))
    BY <1>3, <1>6, AcceptedRun
  <2>3. Follows(Take(c, batch[i]), l, <<>>, spent + i)
    <3> DEFINE s == batch[i]
               k == spent + (i - 1)
    <3>1. k \in Nat /\ k + 1 = spent + i
      BY <1>1, <2>1
    <3>2. s \in Sample /\ s < AcceptedEnd(T) /\ Covers(LayoutTable, l, s % T) /\ Follows(c, NoLayout, <<>>, k)
      BY <1>6, <2>1, <2>2
    <3> HIDE DEF s, k
    <3>3. Follows(Take(c, s), l, <<>>, k + 1)
      BY <3>1, <3>2, LayoutFollows DEF T
    <3> QED
      BY <3>1, <3>3 DEF s
  <2>4. r.consumed = i /\ Planning(r, Take(c, batch[i]), spent + i)
    BY <1>6, <2>3, RegisteredPlanning
  <2>5. i \in 0 .. Len(batch)
    BY <1>1, <2>1
  <2> QED
    BY <2>2, <2>4, <2>5
<1> QED
  BY <1>4, <1>5, <1>6

LEMMA SamplePlans ==
    ASSUME NEW b, NEW spent \in Nat, Follows(b, NoLayout, <<>>, spent),
           NEW batch \in Seq(Sample), Len(batch) = 1
    PROVE  LET r == InitializeFromOneSample(batch[1])
           IN  /\ r.consumed = 1
               /\ \E d : Reaches(b, SubSeq(batch, 1, 1), d) /\ Planning(r, d, spent + 1)
<1> DEFINE T == TotalWeight(LayoutTable)
           s == batch[1]
           r == InitializeFromOneSample(s)
           d == Take(b, s)
<1>1. Listed(batch) /\ s \in Sample
  BY SeqListed, ElementOfSeq
<1>2. Reaches(b, SubSeq(batch, 1, 1), d)
  <2> DEFINE v == SubSeq(batch, 1, 0)
             w == SubSeq(batch, 1, 1)
  <2>1. Listed(v) /\ Len(v) = 0 /\ Listed(w) /\ Len(w) = 1 /\ w[1] = batch[1]
    <3>1. 0 \in 0 .. Len(batch) /\ 1 \in 0 .. Len(batch) /\ Listed(batch)
      BY <1>1
    <3>2. /\ Listed(v) /\ Len(v) = 0 /\ Listed(w) /\ Len(w) = 1
          /\ \A i \in 1 .. 1 : w[i] = batch[i]
      BY <3>1, SubSeqListed
    <3> QED
      BY <3>2
  <2> HIDE DEF v, w
  <2>2. Reaches(b, v, b)
    BY <2>1, ReachesWithout
  <2>3. Len(w) = Len(v) + 1 /\ \A i \in 1 .. Len(v) : w[i] = v[i]
    BY <2>1
  <2>4. Reaches(b, w, Take(b, w[Len(w)]))
    BY <2>1, <2>2, <2>3, ReachesOne
  <2> QED
    BY <2>1, <2>4 DEF w
<1>3. Draws(NoLayout, <<>>, T)
  BY LayoutDraws
<1>4. \/ ~(s < AcceptedEnd(T)) /\ r = [state |-> "retry", consumed |-> 1]
      \/ s < AcceptedEnd(T) /\ \E l \in DOMAIN Layouts : Covers(LayoutTable, l, s % T) /\ r = Registered(l, 1)
  BY <1>1, LayoutSample
<1> HIDE DEF s, r
<1>5. CASE ~(s < AcceptedEnd(T)) /\ r = [state |-> "retry", consumed |-> 1]
  <2>1. Follows(d, NoLayout, <<>>, spent + 1)
    BY <1>1, <1>3, <1>5, RejectionFollows
  <2> HIDE DEF d
  <2>2. r.state = "retry" /\ r.consumed = 1
    BY <1>5
  <2>3. Planning(r, d, spent + 1)
    BY <2>1, <2>2 DEF Planning
  <2> QED
    BY <1>2, <2>2, <2>3 DEF r, s
<1>6. ASSUME s < AcceptedEnd(T), NEW l \in DOMAIN Layouts, Covers(LayoutTable, l, s % T), r = Registered(l, 1)
      PROVE  r.consumed = 1 /\ Planning(r, d, spent + 1)
  <2>1. Follows(d, l, <<>>, spent + 1)
    BY <1>1, <1>6, LayoutFollows
  <2> HIDE DEF d
  <2> QED
    BY <1>6, <2>1, RegisteredPlanning
<1> QED
  <2>1. CASE ~(s < AcceptedEnd(T)) /\ r = [state |-> "retry", consumed |-> 1]
    BY <1>5, <2>1
  <2>2. CASE s < AcceptedEnd(T) /\ \E l \in DOMAIN Layouts : Covers(LayoutTable, l, s % T) /\ r = Registered(l, 1)
    <3>1. r.consumed = 1 /\ Planning(r, d, spent + 1)
      BY <1>6, <2>2
    <3> HIDE DEF d
    <3> QED
      BY <1>2, <3>1 DEF r, s
  <2> QED
    BY <1>4, <2>1, <2>2

-----------------------------------------------------------------------------
(* The loop of a construction call.                                        *)

LoopShape(c) ==
    /\ c = [state |-> c.state, parts |-> c.parts, consumed |-> c.consumed]
    /\ c.parts = [plan |-> c.parts.plan, samples |-> c.parts.samples]

\* What holds of the loop, which began with the builder b, whenever it turns.
LoopOK(c, b, before) ==
    /\ LoopShape(c)
    /\ c.state \in {"needs-samples", "complete"}
    /\ PlanOK(c.parts.plan) /\ c.parts.samples \in Nat
    /\ c.state = "complete" <=> c.parts.plan.next = PositionCount
    /\ Listed(c.consumed)
    /\ \E d : /\ Reaches(b, c.consumed, d)
              /\ Follows(d, c.parts.plan.layout, c.parts.plan.history, before + c.parts.samples)

\* A turn that consumes n samples, which are u.
Counted(c, n, u) == [c EXCEPT !.parts.samples = @ + n, !.consumed = @ \o u]

LEMMA CountedFields ==
    ASSUME NEW c, LoopShape(c), NEW n, NEW u
    PROVE  LET r == Counted(c, n, u)
           IN  /\ LoopShape(r) /\ r.state = c.state /\ r.consumed = c.consumed \o u
               /\ r.parts.plan = c.parts.plan /\ r.parts.samples = c.parts.samples + n
<1> DEFINE r == Counted(c, n, u)
           k == c.parts.samples + n
           v == c.consumed \o u
           q == [c.parts EXCEPT !.samples = k]
<1>1. r = [c EXCEPT !.parts = q, !.consumed = v]
  BY DEF Counted, LoopShape
<1>2. q = [plan |-> c.parts.plan, samples |-> k]
  BY DEF LoopShape
<1> HIDE DEF r, k, v, q
<1>3. r = [state |-> c.state, parts |-> q, consumed |-> v]
  BY <1>1 DEF LoopShape
<1>4. r.state = c.state /\ r.parts = q /\ r.consumed = v /\ q.plan = c.parts.plan /\ q.samples = k
  BY <1>2, <1>3
<1>5. LoopShape(r)
  BY <1>2, <1>3, <1>4 DEF LoopShape
<1> QED
  BY <1>4, <1>5 DEF r, k, v

\* A turn that fills a position, too.
Filled(c, plan) ==
    [c EXCEPT !.parts.plan = plan,
              !.state = IF plan.next = PositionCount THEN "complete" ELSE "needs-samples"]

LEMMA FilledFields ==
    ASSUME NEW c, LoopShape(c), NEW plan
    PROVE  LET r == Filled(c, plan)
           IN  /\ LoopShape(r) /\ r.consumed = c.consumed
               /\ r.parts.plan = plan /\ r.parts.samples = c.parts.samples
               /\ r.state = IF plan.next = PositionCount THEN "complete" ELSE "needs-samples"
<1> DEFINE r == Filled(c, plan)
           k == IF plan.next = PositionCount THEN "complete" ELSE "needs-samples"
           q == [c.parts EXCEPT !.plan = plan]
<1>1. r = [c EXCEPT !.parts = q, !.state = k]
  BY DEF Filled, LoopShape
<1>2. q = [plan |-> plan, samples |-> c.parts.samples]
  BY DEF LoopShape
<1> HIDE DEF r, k, q
<1>3. r = [state |-> k, parts |-> q, consumed |-> c.consumed]
  BY <1>1 DEF LoopShape
<1>4. r.state = k /\ r.parts = q /\ r.consumed = c.consumed /\ q.plan = plan /\ q.samples = c.parts.samples
  BY <1>2, <1>3
<1>5. LoopShape(r)
  BY <1>2, <1>3, <1>4 DEF LoopShape
<1> QED
  BY <1>4, <1>5 DEF r, k

LEMMA StepCases ==
    ASSUME NEW c, NEW batch, NEW t, t = TransitionCurrentPosition(c.parts.plan, batch)
    PROVE  /\ c.state # "needs-samples" => Step(c, batch) = c
           /\ c.state = "needs-samples" /\ t.state = "needs-sample" =>
                Step(c, batch) = Counted(c, t.consumed, SubSeq(batch, 1, t.consumed))
           /\ c.state = "needs-samples" /\ t.state = "selected" =>
                Step(c, batch) = Filled(Counted(c, t.consumed, SubSeq(batch, 1, t.consumed)), t.plan)
BY DEF Step, Counted, Filled

\* One turn of the loop never fails, and the builder keeps up.
LEMMA StepOK ==
    ASSUME NEW c, NEW b, NEW before \in Nat, LoopOK(c, b, before), NEW batch \in Seq(Sample)
    PROVE  LoopOK(Step(c, batch), b, before)
<1> DEFINE plan == c.parts.plan
           t == TransitionCurrentPosition(plan, batch)
           T == TotalWeight(plan.pools[CurrentPool(plan)])
           e == Step(c, batch)
<1>1. CASE c.state # "needs-samples"
  BY <1>1, StepCases
<1>2. CASE c.state = "needs-samples"
  <2>1. PlanOK(plan) /\ plan.next < PositionCount
    <3>1. PlanOK(plan) /\ plan.next # PositionCount
      BY <1>2 DEF LoopOK
    <3> HIDE DEF plan
    <3>2. plan.next \in 0 .. PositionCount /\ PositionCount \in Nat
      BY <3>1, HistoryFacts DEF PlanOK
    <3> QED
      BY <3>1, <3>2
  <2>2. PICK d : Reaches(b, c.consumed, d) /\ Follows(d, plan.layout, plan.history, before + c.parts.samples)
    BY DEF LoopOK
  <2>3. LoopShape(c) /\ c.parts.samples \in Nat /\ before + c.parts.samples \in Nat /\ Listed(c.consumed)
    BY DEF LoopOK
  <2>4. Draws(plan.layout, plan.history, T)
    BY <2>1, CardDraws
  <2>5. Listed(batch) /\ Len(batch) \in Nat
    BY SeqListed, ListFacts
  <2>6. T \in Nat \ {0}
    BY <2>1, PlanPool, DrawableFacts
  <2>7. \/ AcceptedAt(batch, T) = {} /\ t = [state |-> "needs-sample", consumed |-> Len(batch)]
        \/ \E i \in AcceptedAt(batch, T), k \in 1 .. Len(plan.pools[CurrentPool(plan)]) :
             /\ FirstAccepted(batch, T, i) /\ Covers(plan.pools[CurrentPool(plan)], k, batch[i] % T)
             /\ t = [state |-> "selected", consumed |-> i, identity |-> plan.pools[CurrentPool(plan)][k].key,
                     plan |-> Advanced(plan, plan.pools[CurrentPool(plan)][k].key)]
    BY <2>1, PositionTransition
  <2>8. CASE AcceptedAt(batch, T) = {} /\ t = [state |-> "needs-sample", consumed |-> Len(batch)]
    <3> DEFINE u == SubSeq(batch, 1, Len(batch))
    <3> HIDE DEF t, T, e
    <3>1. t.state = "needs-sample" /\ t.consumed = Len(batch)
      BY <2>8
    <3>2. e = Counted(c, Len(batch), u)
      BY <1>2, <3>1, StepCases DEF e, t
    <3>3. \A i \in 1 .. Len(batch) : ~(batch[i] < AcceptedEnd(T))
      BY <2>8 DEF AcceptedAt
    <3> DEFINE spent == before + c.parts.samples
               n == Len(batch)
    <3>4. n \in 0 .. n /\ spent \in Nat /\ spent + n = before + (c.parts.samples + n) /\ c.parts.samples + n \in Nat
      BY <2>3, <2>5
    <3> HIDE DEF spent
    <3>5. PICK f : Reaches(d, u, f) /\ Follows(f, plan.layout, plan.history, spent + n)
      BY <2>2, <2>4, <3>3, <3>4, RejectedRun DEF spent
    <3>6. Listed(u)
      BY <2>5, <3>4, SubSeqListed
    <3> HIDE DEF u, plan
    <3>7. Reaches(b, c.consumed \o u, f) /\ Listed(c.consumed \o u)
      BY <2>2, <2>3, <3>5, <3>6, ReachesOn, ConcatListed
    <3>8. /\ LoopShape(e) /\ e.state = c.state /\ e.consumed = c.consumed \o u
          /\ e.parts.plan = c.parts.plan /\ e.parts.samples = c.parts.samples + n
      BY <2>3, <3>2, CountedFields
    <3>9. Follows(f, e.parts.plan.layout, e.parts.plan.history, before + e.parts.samples)
      BY <3>4, <3>5, <3>8 DEF plan
    <3> QED
      BY <3>4, <3>7, <3>8, <3>9 DEF LoopOK, e
  <2>9. ASSUME NEW i \in AcceptedAt(batch, T), NEW k \in 1 .. Len(plan.pools[CurrentPool(plan)]),
               FirstAccepted(batch, T, i), Covers(plan.pools[CurrentPool(plan)], k, batch[i] % T),
               t = [state |-> "selected", consumed |-> i, identity |-> plan.pools[CurrentPool(plan)][k].key,
                    plan |-> Advanced(plan, plan.pools[CurrentPool(plan)][k].key)]
        PROVE  LoopOK(e, b, before)
    <3> DEFINE u == SubSeq(batch, 1, i)
               next == Advanced(plan, plan.pools[CurrentPool(plan)][k].key)
               spent == before + c.parts.samples
    <3>1. i \in 1 .. Len(batch) /\ batch[i] \in Sample /\ batch[i] < AcceptedEnd(T)
      BY <2>6, AcceptedSample
    <3>2. i \in 0 .. Len(batch) /\ spent \in Nat /\ spent + (i - 1) \in Nat /\ (spent + (i - 1)) + 1 = before + (c.parts.samples + i)
          /\ c.parts.samples + i \in Nat
      <4> DEFINE n == Len(batch)
                 q == c.parts.samples
      <4>1. n \in Nat /\ q \in Nat /\ i \in 1 .. n /\ spent = before + q
        BY <2>3, <2>5, <3>1
      <4> HIDE DEF n, q, spent
      <4>2. i \in Nat /\ i - 1 \in Nat /\ i \in 0 .. n /\ spent \in Nat
        BY <4>1
      <4>3. spent + (i - 1) \in Nat /\ (spent + (i - 1)) + 1 = before + (q + i) /\ q + i \in Nat
        BY <4>1, <4>2
      <4> QED
        BY <4>2, <4>3 DEF n, q
    <3>3. PICK f : Follows(f, plan.layout, plan.history, spent + (i - 1)) /\ Reaches(d, u, Take(f, batch[i]))
      <4> HIDE DEF plan, u, T
      <4> QED
        BY <2>2, <2>4, <2>9, <3>2, AcceptedRun DEF u
    <3>4. Follows(Take(f, batch[i]), next.layout, next.history, before + (c.parts.samples + i))
      <4> DEFINE s == batch[i]
                 m == spent + (i - 1)
      <4>1. m \in Nat /\ m + 1 = before + (c.parts.samples + i) /\ s \in Sample /\ s < AcceptedEnd(T)
            /\ Follows(f, plan.layout, plan.history, m) /\ Covers(plan.pools[CurrentPool(plan)], k, s % T)
        BY <2>9, <3>1, <3>2, <3>3
      <4> HIDE DEF s, m, plan
      <4>2. Follows(Take(f, s), next.layout, next.history, m + 1)
        BY <2>1, <4>1, CardFollows
      <4> QED
        BY <4>1, <4>2 DEF s
    <3>5. PlanOK(next)
      BY <2>1, PlanAdvances
    <3>6. Listed(u)
      BY <2>5, <3>2, SubSeqListed
    <3> HIDE DEF t, e, next
    <3>7. t.state = "selected" /\ t.consumed = i /\ t.plan = next
      BY <2>9 DEF next
    <3>8. e = Filled(Counted(c, i, u), next)
      BY <1>2, <3>7, StepCases DEF e, t
    <3> DEFINE a == Counted(c, i, u)
    <3> HIDE DEF u, plan, a
    <3>9. /\ LoopShape(a) /\ a.consumed = c.consumed \o u /\ a.parts.samples = c.parts.samples + i
      BY <2>3, CountedFields DEF a
    <3>10. /\ LoopShape(e) /\ e.consumed = c.consumed \o u
           /\ e.parts.plan = next /\ e.parts.samples = c.parts.samples + i
           /\ e.state = IF next.next = PositionCount THEN "complete" ELSE "needs-samples"
      <4>1. e = Filled(a, next)
        BY <3>8 DEF a
      <4>2. /\ LoopShape(e) /\ e.consumed = a.consumed
            /\ e.parts.plan = next /\ e.parts.samples = a.parts.samples
            /\ e.state = IF next.next = PositionCount THEN "complete" ELSE "needs-samples"
        BY <3>9, <4>1, FilledFields, ZenonT(40)
      <4> QED
        BY <3>9, <4>2
    <3>11. Reaches(b, c.consumed \o u, Take(f, batch[i])) /\ Listed(c.consumed \o u)
      BY <2>2, <2>3, <3>3, <3>6, ReachesOn, ConcatListed
    <3>12. e.state \in {"needs-samples", "complete"} /\ (e.state = "complete" <=> e.parts.plan.next = PositionCount)
      BY <3>10
    <3> QED
      BY <3>2, <3>4, <3>5, <3>10, <3>11, <3>12 DEF LoopOK, e
  <2> QED
    BY <2>7, <2>8, <2>9
<1> QED
  BY <1>1, <1>2

IsLoop(f, c, batches, n) == f = [i \in 0 .. n |-> IF i = 0 THEN c ELSE Step(f[i-1], batches[i])]

LEMMA LoopExists ==
    ASSUME NEW c, NEW batches
    PROVE  \A n \in Nat : \E f : IsLoop(f, c, batches, n)
<1> DEFINE S == {n \in Nat : \E f : IsLoop(f, c, batches, n)}
<1>1. 0 \in S
  <2>1. IsLoop([i \in 0 .. 0 |-> c], c, batches, 0)
    BY DEF IsLoop
  <2> QED
    BY <2>1
<1>2. ASSUME NEW n \in Nat, n \in S PROVE n + 1 \in S
  <2>1. PICK f : IsLoop(f, c, batches, n)
    BY <1>2
  <2> DEFINE last == Step(f[n], batches[n + 1])
             g == [i \in 0 .. n + 1 |-> IF i = n + 1 THEN last ELSE f[i]]
  <2>2. \A i \in 0 .. n : f[i] = IF i = 0 THEN c ELSE Step(f[i-1], batches[i])
    BY <2>1 DEF IsLoop
  <2> HIDE DEF last
  <2>3. ASSUME NEW i \in 0 .. n + 1
        PROVE  g[i] = IF i = 0 THEN c ELSE Step(g[i-1], batches[i])
    <3>1. CASE i = n + 1
      <4>1. g[i] = last /\ g[i-1] = f[n] /\ i # 0
        BY <3>1
      <4> QED
        BY <3>1, <4>1 DEF last
    <3>2. CASE i # n + 1
      <4>1. i \in 0 .. n /\ g[i] = f[i] /\ (i # 0 => g[i-1] = f[i-1])
        BY <3>2
      <4> QED
        BY <2>2, <4>1
    <3> QED
      BY <3>1, <3>2
  <2>4. g = [i \in 0 .. n + 1 |-> g[i]]
    OBVIOUS
  <2> HIDE DEF g
  <2>5. IsLoop(g, c, batches, n + 1)
    BY <2>3, <2>4 DEF IsLoop
  <2> QED
    BY <2>5
<1> HIDE DEF S
<1>3. \A n \in Nat : n \in S
  BY <1>1, <1>2, Ascent
<1> QED
  BY <1>3 DEF S

\* The loop that a call begins.
Begun == [state |-> "needs-samples", parts |-> parts, consumed |-> <<>>]

\* A call never fails, and the builder keeps up with it.
LEMMA ComposeOK ==
    ASSUME parts = [plan |-> parts.plan, samples |-> parts.samples],
           PlanOK(parts.plan), parts.plan.next # PositionCount, parts.samples \in Nat,
           NEW before \in Nat, Follows(builder, parts.plan.layout, parts.plan.history, before + parts.samples),
           NEW batches \in Seq(Seq(Sample))
    PROVE  LoopOK(Compose(batches), builder, before)
<1> DEFINE n == Len(batches)
           f == CHOOSE f : IsLoop(f, Begun, batches, n)
           S == {i \in Nat : i <= n => LoopOK(f[i], builder, before)}
<1>1. n \in Nat /\ \A i \in 1 .. n : batches[i] \in Seq(Sample)
  BY LenProperties, ElementOfSeq
<1>2. IsLoop(f, Begun, batches, n)
  BY <1>1, LoopExists
<1>3. Compose(batches) = f[n]
  BY DEF Compose, IsLoop, Begun
<1> HIDE DEF n, f
<1>4. \A i \in 0 .. n : f[i] = IF i = 0 THEN Begun ELSE Step(f[i-1], batches[i])
  BY <1>2 DEF IsLoop
<1>5. 0 \in S
  <2>1. f[0] = Begun
    BY <1>1, <1>4, SMTT(30)
  <2>2. /\ Begun.state = "needs-samples" /\ Begun.parts = parts /\ Begun.consumed = <<>>
        /\ Begun = [state |-> Begun.state, parts |-> Begun.parts, consumed |-> Begun.consumed]
    BY DEF Begun
  <2>3. Listed(<<>>) /\ Len(<<>>) = 0
    BY EmptySeq DEF Listed
  <2>4. Reaches(builder, <<>>, builder)
    BY <2>3, ReachesWithout
  <2>5. LoopOK(Begun, builder, before)
    BY <2>2, <2>3, <2>4 DEF LoopOK, LoopShape
  <2> QED
    BY <2>1, <2>5
<1>6. ASSUME NEW i \in Nat, i \in S PROVE i + 1 \in S
  <2> SUFFICES ASSUME i + 1 <= n PROVE LoopOK(f[i + 1], builder, before)
    OBVIOUS
  <2>1. i <= n /\ i + 1 \in 0 .. n /\ i + 1 \in 1 .. n /\ i + 1 # 0 /\ (i + 1) - 1 = i
    BY <1>1
  <2>2. f[i + 1] = Step(f[i], batches[i + 1])
    BY <1>4, <2>1
  <2>3. LoopOK(f[i], builder, before) /\ batches[i + 1] \in Seq(Sample)
    BY <1>1, <1>6, <2>1
  <2> QED
    BY <2>2, <2>3, StepOK
<1> HIDE DEF S
<1>7. \A i \in Nat : i \in S
  BY <1>5, <1>6, Ascent
<1>8. LoopOK(f[n], builder, before)
  BY <1>1, <1>7 DEF S
<1> QED
  BY <1>3, <1>8

-----------------------------------------------------------------------------
(* The inductive invariant.                                                *)

PartsOK(p, st, b, before) ==
    /\ p = [plan |-> p.plan, samples |-> p.samples] /\ p.samples \in Nat
    /\ PlanOK(p.plan) /\ (p.plan.next = PositionCount <=> st = "complete")
    /\ Follows(b, p.plan.layout, p.plan.history, before + p.samples)

PackInv ==
    /\ feed \in Sources \cup {AnySource} /\ unplanned \in Nat
    /\ \/ stage = "unplanned" /\ parts = NoParts /\ Follows(builder, NoLayout, <<>>, unplanned)
       \/ /\ stage = "refused" /\ parts = NoParts
          /\ \E l \in DOMAIN Layouts : Follows(builder, l, <<>>, unplanned)
       \/ stage \in {"planned", "building", "complete"} /\ PartsOK(parts, stage, builder, unplanned)

LEMMA PackInvInit == Init => PackInv
<1> SUFFICES ASSUME Init PROVE PackInv
  OBVIOUS
<1>1. Follows(builder, NoLayout, <<>>, unplanned)
  BY FreshBuilderFollows DEF Init
<1> QED
  BY <1>1, SourcesAssumption DEF Init, PackInv

\* What callers offer are samples, and a source stays one.
LEMMA CallersOffer ==
    ASSUME feed \in Sources \cup {AnySource}
    PROVE  /\ OfferedBatches \subseteq Seq(Sample) /\ OfferedCalls \subseteq Seq(Seq(Sample))
           /\ SpendSample => feed' \in Sources \cup {AnySource}
<1>1. CASE feed = AnySource
  <2>1. Batches \subseteq Seq(Sample) /\ Calls \subseteq Seq(Batches)
    BY CallersAssumption
  <2>2. Calls \subseteq Seq(Seq(Sample))
    BY <2>1, SeqMonotonic
  <2> QED
    BY <1>1, <2>1, <2>2 DEF OfferedBatches, OfferedCalls, SpendSample
<1>2. CASE feed # AnySource
  <2>1. SampleFrom(feed) \in Sample /\ After(feed) \in Sources
    BY <1>2, SourcesAssumption
  <2>2. Generated \in Seq(Sample)
    BY <2>1 DEF Generated
  <2>3. <<Generated>> \in Seq(Seq(Sample))
    BY <2>2
  <2>4. OfferedBatches = {Generated} /\ OfferedCalls = {<<Generated>>}
    BY <1>2 DEF OfferedBatches, OfferedCalls
  <2> QED
    BY <1>2, <2>1, <2>2, <2>3, <2>4 DEF SpendSample
<1> QED
  BY <1>1, <1>2

LEMMA PlannedPreserves ==
    ASSUME PackInv, NEW samples \in Seq(Sample), NEW r, Planned(r, samples), r.consumed \in 0 .. Len(samples),
           NEW d, Reaches(builder, SubSeq(samples, 1, r.consumed), d),
           Planning(r, d, unplanned + r.consumed)
    PROVE  PackInv'
<1>1. /\ stage = "unplanned" /\ unplanned' = unplanned + r.consumed
      /\ builder' = Replay(SubSeq(samples, 1, r.consumed)) /\ SpendSample
  BY DEF Planned
<1>2. Listed(samples) /\ Len(samples) \in Nat
  BY SeqListed, ListFacts
<1>3. Listed(SubSeq(samples, 1, r.consumed))
  BY <1>2, SubSeqListed
<1>4. builder' = d
  BY <1>1, <1>3, ReplayReaches
<1>5. parts = NoParts /\ unplanned \in Nat /\ unplanned' \in Nat /\ feed' \in Sources \cup {AnySource}
  BY <1>1, <1>2, CallersOffer DEF PackInv
<1>6. CASE r.state \in {"needs-sample", "retry"} /\ Follows(d, NoLayout, <<>>, unplanned + r.consumed)
  <2>1. stage' = "unplanned" /\ parts' = NoParts
    BY <1>1, <1>5, <1>6 DEF Planned
  <2> QED
    BY <1>1, <1>4, <1>5, <1>6, <2>1 DEF PackInv
<1>7. CASE /\ r.state = "selected" /\ PlanOK(r.plan) /\ r.plan.next = 0
           /\ Follows(d, r.plan.layout, r.plan.history, unplanned + r.consumed)
  <2>1. stage' = "planned" /\ parts' = [plan |-> r.plan, samples |-> 0]
    BY <1>7 DEF Planned
  <2>2. PositionCount # 0
    BY LayoutFacts
  <2>3. unplanned' + 0 = unplanned + r.consumed
    BY <1>1, <1>5
  <2>4. parts'.plan = r.plan /\ parts'.samples = 0
    BY <2>1
  <2>5. PartsOK(parts', stage', builder', unplanned')
    BY <1>4, <1>7, <2>1, <2>2, <2>3, <2>4 DEF PartsOK
  <2> QED
    BY <1>5, <2>1, <2>5 DEF PackInv
<1>8. CASE r.state = "failed" /\ \E l \in DOMAIN Layouts : Follows(d, l, <<>>, unplanned + r.consumed)
  <2>1. stage' = "refused" /\ parts' = NoParts
    BY <1>5, <1>8 DEF Planned
  <2> QED
    BY <1>1, <1>4, <1>5, <1>8, <2>1 DEF PackInv
<1> QED
  BY <1>6, <1>7, <1>8 DEF Planning

LEMMA ComposedPreserves ==
    ASSUME PackInv, stage \in {"planned", "building"}, NEW batches \in OfferedCalls, Composed(Compose(batches))
    PROVE  PackInv'
<1> DEFINE r == Compose(batches)
<1>1. feed \in Sources \cup {AnySource} /\ unplanned \in Nat /\ PartsOK(parts, stage, builder, unplanned)
  BY DEF PackInv
<1>2. batches \in Seq(Seq(Sample))
  BY <1>1, CallersOffer
<1>3. LoopOK(r, builder, unplanned)
  BY <1>1, <1>2, ComposeOK DEF PartsOK
<1> HIDE DEF r
<1>4. /\ r.state \in {"needs-samples", "complete"} /\ r.parts = [plan |-> r.parts.plan, samples |-> r.parts.samples]
      /\ PlanOK(r.parts.plan) /\ r.parts.samples \in Nat
      /\ r.state = "complete" <=> r.parts.plan.next = PositionCount
      /\ Listed(r.consumed)
  BY <1>3 DEF LoopOK, LoopShape
<1>5. PICK d : /\ Reaches(builder, r.consumed, d)
               /\ Follows(d, r.parts.plan.layout, r.parts.plan.history, unplanned + r.parts.samples)
  BY <1>3 DEF LoopOK
<1>6. /\ stage' = (CASE r.state = "needs-samples" -> "building" [] OTHER -> r.state)
      /\ parts' = (IF r.state = "failed" THEN parts ELSE r.parts)
      /\ builder' = (IF r.state = "failed" THEN builder ELSE Replay(r.consumed))
      /\ SpendSample /\ unplanned' = unplanned
  BY DEF Composed, r
<1>7. parts' = r.parts /\ builder' = d /\ stage' \in {"building", "complete"}
      /\ (stage' = "complete" <=> r.state = "complete")
  BY <1>4, <1>5, <1>6, ReplayReaches
<1>8. PartsOK(parts', stage', builder', unplanned')
  BY <1>4, <1>5, <1>6, <1>7 DEF PartsOK
<1>9. feed' \in Sources \cup {AnySource}
  BY <1>1, <1>6, CallersOffer
<1> QED
  BY <1>1, <1>6, <1>7, <1>8, <1>9 DEF PackInv

LEMMA PackInvStep == PackInv /\ [Next]_vars => PackInv'
<1> SUFFICES ASSUME PackInv, [Next]_vars PROVE PackInv'
  OBVIOUS
<1>1. feed \in Sources \cup {AnySource} /\ unplanned \in Nat
  BY DEF PackInv
<1>2. CASE InitializeWithBatch
  <2>1. PICK batch \in OfferedBatches : Planned(InitializeFromBatch(batch), batch)
    BY <1>2 DEF InitializeWithBatch
  <2>2. batch \in Seq(Sample)
    BY <1>1, CallersOffer
  <2>3. Follows(builder, NoLayout, <<>>, unplanned)
    BY <2>1 DEF Planned, PackInv
  <2> DEFINE r == InitializeFromBatch(batch)
  <2>4. /\ r.consumed \in 0 .. Len(batch)
        /\ \E d : Reaches(builder, SubSeq(batch, 1, r.consumed), d) /\ Planning(r, d, unplanned + r.consumed)
    BY <1>1, <2>2, <2>3, BatchPlans
  <2> HIDE DEF r
  <2>5. Planned(r, batch)
    BY <2>1 DEF r
  <2> QED
    BY <2>2, <2>4, <2>5, PlannedPreserves
<1>3. CASE InitializeWithOneSample
  <2>1. PICK batch \in OfferedBatches : Len(batch) = 1 /\ Planned(InitializeFromOneSample(batch[1]), batch)
    BY <1>3 DEF InitializeWithOneSample
  <2>2. batch \in Seq(Sample)
    BY <1>1, CallersOffer
  <2>3. Follows(builder, NoLayout, <<>>, unplanned)
    BY <2>1 DEF Planned, PackInv
  <2> DEFINE r == InitializeFromOneSample(batch[1])
  <2>4. /\ r.consumed = 1
        /\ \E d : Reaches(builder, SubSeq(batch, 1, 1), d) /\ Planning(r, d, unplanned + 1)
    BY <1>1, <2>1, <2>2, <2>3, SamplePlans
  <2> HIDE DEF r
  <2>5. Planned(r, batch) /\ r.consumed \in 0 .. Len(batch)
    BY <2>1, <2>4 DEF r
  <2> QED
    BY <2>2, <2>4, <2>5, PlannedPreserves
<1>4. CASE Construct
  BY <1>4, ComposedPreserves DEF Construct
<1>5. CASE Continue
  BY <1>5, ComposedPreserves DEF Continue
<1>6. CASE UNCHANGED vars
  BY <1>6 DEF PackInv, vars
<1> QED
  BY <1>2, <1>3, <1>4, <1>5, <1>6 DEF Next

LEMMA PackInvAlways == Spec => []PackInv
<1>1. Init => PackInv
  BY PackInvInit
<1>2. PackInv /\ [Next]_vars => PackInv'
  BY PackInvStep
<1> QED
  BY <1>1, <1>2, PTL DEF Spec

-----------------------------------------------------------------------------
(* What follows from it.                                                   *)

LEMMA PartsAreParts == ASSUME NEW p, NEW s PROVE [plan |-> p, samples |-> s] # NoParts
<1> DEFINE r == [plan |-> p, samples |-> s]
<1>1. "plan" \in DOMAIN r
  OBVIOUS
<1>2. DOMAIN NoParts = {}
  <2>1. Listed(<<>>) /\ Len(<<>>) = 0
    BY EmptySeq DEF Listed
  <2> QED
    BY <2>1, ListFacts DEF NoParts
<1> QED
  BY <1>1, <1>2

\* There are parts when there is a plan.
LEMMA PackStages ==
    ASSUME PackInv
    PROVE  /\ stage \in Stage \ {"failed"}
           /\ parts = NoParts <=> stage \in {"unplanned", "refused"}
           /\ parts # NoParts => PartsOK(parts, stage, builder, unplanned)
           /\ parts = NoParts => \E l \in DOMAIN Layouts \cup {NoLayout} : Follows(builder, l, <<>>, unplanned)
<1>1. CASE stage \in {"planned", "building", "complete"} /\ PartsOK(parts, stage, builder, unplanned)
  <2>1. parts # NoParts
    BY <1>1, PartsAreParts DEF PartsOK
  <2> QED
    BY <1>1, <2>1 DEF Stage
<1>2. CASE stage = "unplanned" /\ parts = NoParts /\ Follows(builder, NoLayout, <<>>, unplanned)
  BY <1>2 DEF Stage
<1>3. CASE /\ stage = "refused" /\ parts = NoParts
           /\ \E l \in DOMAIN Layouts : Follows(builder, l, <<>>, unplanned)
  BY <1>3 DEF Stage
<1> QED
  BY <1>1, <1>2, <1>3 DEF PackInv

\* What holds of the builder either way.
LEMMA BuilderFacts ==
    ASSUME NEW b, NEW layout, NEW h, NEW spent, Listed(h), Follows(b, layout, h, spent)
    PROVE  /\ b.layout \in {layout, NoLayout} /\ Dealt(b.cards, h)
           /\ b.layout = layout \/ Len(b.cards) = 0
           /\ b.thrown => b.attempts = MaximumTicketAttempts
           /\ b.attempts # MaximumTicketAttempts => InStep(b, layout, h, spent)
<1>1. MaximumTicketAttempts \in Nat
  BY CallersAssumption
<1>2. CASE InStep(b, layout, h, spent)
  <2>1. b.attempts # MaximumTicketAttempts
    BY <1>1, <1>2 DEF InStep
  <2> QED
    BY <1>2, <2>1 DEF InStep
<1>3. CASE GaveUp(b, layout, h)
  BY <1>3 DEF GaveUp
<1> QED
  BY <1>2, <1>3 DEF Follows

LEMMA NothingTaken == Listed(<<>>) /\ Len(<<>>) = 0
BY EmptySeq DEF Listed

\* TypeOK: the variables of a pack are what they should be.
THEOREM PackTyped == Spec => []TypeOK
<1>1. PackInv => TypeOK
  <2> SUFFICES ASSUME PackInv PROVE TypeOK
    OBVIOUS
  <2>1. /\ stage \in Stage /\ feed \in Sources \cup {AnySource} /\ unplanned \in Nat
        /\ parts = NoParts <=> stage \in {"unplanned", "refused"}
    BY PackStages DEF PackInv
  <2>2. CASE parts = NoParts
    <3>1. PICK l \in DOMAIN Layouts \cup {NoLayout} : Follows(builder, l, <<>>, unplanned)
      BY <2>2, PackStages
    <3>2. builder.layout \in {l, NoLayout} /\ Dealt(builder.cards, <<>>)
      BY <3>1, NothingTaken, BuilderFacts
    <3> QED
      BY <2>1, <2>2, <3>2 DEF TypeOK, Dealt
  <2>3. CASE parts # NoParts
    <3>1. PartsOK(parts, stage, builder, unplanned)
      BY <2>3, PackStages
    <3> DEFINE plan == parts.plan
    <3>2. /\ PlanOK(plan) /\ parts.samples \in Nat
          /\ Follows(builder, plan.layout, plan.history, unplanned + parts.samples)
      BY <3>1 DEF PartsOK
    <3> HIDE DEF plan
    <3>3. Listed(plan.history) /\ plan.layout \in DOMAIN Layouts /\ plan.next \in 0 .. PositionCount
      BY <3>2 DEF PlanOK
    <3>4. builder.layout \in {plan.layout, NoLayout} /\ Dealt(builder.cards, plan.history)
      BY <3>2, <3>3, BuilderFacts
    <3> QED
      BY <2>1, <2>3, <3>2, <3>3, <3>4 DEF TypeOK, Dealt, plan
  <2> QED
    BY <2>2, <2>3
<1> QED
  BY <1>1, PackInvAlways, PTL

(* UnbiasedDraws: from every pool of the pack, at every moment, each       *)
(* identity that is left is selected by its weight times one and the same  *)
(* number of samples (unbiased-uint32-ticket.ts, pack-local-pool-sample-   *)
(* selection.ts).                                                          *)
THEOREM DrawsUnbiased == Spec => []UnbiasedDraws
<1>1. PackInv => UnbiasedDraws
  <2> SUFFICES ASSUME PackInv, NEW p \in Pools, NEW c \in ToSet(DrawState[p])
               PROVE  Cardinality({s \in Sample : SelectFromPool(DrawState, p, s)
                                        = [state |-> "selected", identity |-> c.key]})
                        = c.weight * (SampleEnd \div TotalWeight(DrawState[p]))
    BY DEF UnbiasedDraws
  <2> DEFINE t == DrawState[p]
  <2>1. Drawable(t)
    <3>1. CASE parts = NoParts
      BY <3>1, PoolFacts DEF DrawState, FreshDrawState
    <3>2. CASE parts # NoParts
      <4> DEFINE gone == SelectedFrom(parts.plan.history, p)
      <4>1. PlanOK(parts.plan)
        BY <3>2, PackStages DEF PartsOK
      <4>2. t = Left(p, gone)
        BY <3>2, <4>1 DEF DrawState, PlanOK
      <4>3. t # <<>>
        BY NothingTaken, ListFacts DEF ToSet
      <4> HIDE DEF t, gone
      <4> QED
        BY <4>2, <4>3, LeftFacts
    <3> QED
      BY <3>1, <3>2
  <2>2. PICK i \in DOMAIN t : t[i] = c
    BY DEF ToSet
  <2>3. \A s : SelectFromPool(DrawState, p, s) = Selected(t, s)
    BY DEF SelectFromPool, Selected
  <2> HIDE DEF t
  <2>4. i \in 1 .. Len(t)
    BY <2>1, <2>2, DrawableFacts
  <2>5. Cardinality({s \in Sample : Selected(t, s) = [state |-> "selected", identity |-> t[i].key]})
          = t[i].weight * (SampleEnd \div TotalWeight(t))
    BY <2>1, <2>4, SharesAreWeights
  <2> QED
    BY <2>2, <2>3, <2>5 DEF t
<1> QED
  BY <1>1, PackInvAlways, PTL

(* PlannedPacksNeverFail: no check of a later position, and no empty pool, *)
(* stops a pack that has been planned, and the server's builder throws for *)
(* nothing but its cap on attempts (finite-batch-plan-position-            *)
(* transition.ts, apps/server/src/packs.ts).                               *)
THEOREM PlannedNeverFail == Spec => []PlannedPacksNeverFail
<1>1. PackInv => PlannedPacksNeverFail
  <2> SUFFICES ASSUME PackInv PROVE PlannedPacksNeverFail
    OBVIOUS
  <2>1. stage # "failed"
    BY PackStages
  <2>2. builder.thrown => builder.attempts = MaximumTicketAttempts
    <3>1. CASE parts = NoParts
      <4>1. PICK l \in DOMAIN Layouts \cup {NoLayout} : Follows(builder, l, <<>>, unplanned)
        BY <3>1, PackStages
      <4> QED
        BY <4>1, NothingTaken, BuilderFacts
    <3>2. CASE parts # NoParts
      <4>1. /\ Listed(parts.plan.history)
            /\ Follows(builder, parts.plan.layout, parts.plan.history, unplanned + parts.samples)
        BY <3>2, PackStages DEF PartsOK, PlanOK
      <4> QED
        BY <4>1, BuilderFacts
    <3> QED
      BY <3>1, <3>2
  <2> QED
    BY <2>1, <2>2 DEF PlannedPacksNeverFail
<1> QED
  BY <1>1, PackInvAlways, PTL

(* CopiesAgree: as long as the server's builder has not given up at its    *)
(* cap on attempts, it has dealt the same identities into the same         *)
(* positions of the same layout, from as many samples, and is complete     *)
(* when the construction is; what it dealt before it gave up is the        *)
(* beginning of the pack (pack-construction.ts, apps/server/src/packs.ts). *)
THEOREM CopiesAlwaysAgree == Spec => []CopiesAgree
<1>1. PackInv => CopiesAgree
  <2> SUFFICES ASSUME PackInv, parts # NoParts
               PROVE  LET gaveUp == builder.attempts = MaximumTicketAttempts
                      IN  /\ builder.layout \in {parts.plan.layout} \cup IF gaveUp THEN {NoLayout} ELSE {}
                          /\ IsPrefix(builder.cards, [i \in DOMAIN parts.plan.history |-> parts.plan.history[i].identity])
                          /\ ~gaveUp => /\ Len(builder.cards) = parts.plan.next
                                        /\ builder.drawn = Spent
                                        /\ PackComplete(builder) <=> stage = "complete"
    BY DEF CopiesAgree
  <2> DEFINE plan == parts.plan
             h == plan.history
             spent == unplanned + parts.samples
             cards == builder.cards
             names == [i \in DOMAIN h |-> h[i].identity]
  <2>1. PlanOK(plan) /\ Follows(builder, plan.layout, h, spent) /\ (plan.next = PositionCount <=> stage = "complete")
    BY PackStages DEF PartsOK
  <2>2. Spent = spent
    BY DEF Spent
  <2> HIDE DEF plan, spent
  <2>3. /\ Listed(h) /\ Len(h) = plan.next /\ plan.next \in Nat /\ DOMAIN h = 1 .. plan.next
        /\ plan.layout \in DOMAIN Layouts
    BY <2>1, HistoryFacts DEF PlanOK
  <2>4. /\ builder.layout \in {plan.layout, NoLayout} /\ Dealt(cards, h)
        /\ builder.attempts # MaximumTicketAttempts => InStep(builder, plan.layout, h, spent)
    BY <2>1, <2>3, BuilderFacts
  <2>5. IsPrefix(cards, names)
    <3> HIDE DEF h, cards
    <3>1. names = [i \in 1 .. plan.next |-> names[i]] /\ DOMAIN names = 1 .. plan.next
          /\ \A i \in 1 .. plan.next : names[i] = h[i].identity
      BY <2>3
    <3> HIDE DEF names
    <3>2. Listed(names) /\ Len(names) = plan.next
      BY <2>3, <3>1, IndexedListed
    <3>3. Listed(cards) /\ Len(cards) \in Nat /\ Len(cards) <= plan.next
          /\ \A i \in 1 .. Len(cards) : cards[i] = h[i].identity
      BY <2>3, <2>4, ListFacts DEF Dealt
    <3> DEFINE n == Len(cards)
               u == SubSeq(cards, 1, n)
               v == SubSeq(names, 1, n)
    <3>4. n \in 0 .. Len(cards) /\ n \in 0 .. Len(names)
      BY <2>3, <3>2, <3>3
    <3>5. /\ Listed(u) /\ Len(u) = n /\ \A i \in 1 .. n : u[i] = cards[i]
          /\ Listed(v) /\ Len(v) = n /\ \A i \in 1 .. n : v[i] = names[i]
      BY <3>2, <3>3, <3>4, SubSeqListed
    <3>6. \A i \in 1 .. n : u[i] = v[i]
      <4>1. /\ n \in Nat /\ plan.next \in Nat /\ n <= plan.next
            /\ \A i \in 1 .. n : u[i] = cards[i] /\ v[i] = names[i] /\ cards[i] = h[i].identity
        BY <2>3, <3>3, <3>5
      <4> HIDE DEF n, u, v
      <4>2. \A i \in 1 .. n : i \in 1 .. plan.next
        BY <4>1
      <4> QED
        BY <3>1, <4>1, <4>2
    <3>7. u = v
      <4> HIDE DEF u, v, n
      <4> QED
        BY <3>5, <3>6, SameLists
    <3> QED
      BY <3>2, <3>3, <3>7 DEF IsPrefix
  <2>6. ASSUME builder.attempts # MaximumTicketAttempts
        PROVE  /\ builder.layout = plan.layout /\ Len(builder.cards) = plan.next
               /\ builder.drawn = spent
               /\ PackComplete(builder) <=> stage = "complete"
    <3>1. builder.layout = plan.layout /\ Len(builder.cards) = plan.next /\ builder.drawn = spent
      BY <2>3, <2>4, <2>6 DEF InStep
    <3>2. builder.layout # NoLayout
      BY <2>3, <3>1, NoLayoutFact
    <3> QED
      BY <2>1, <3>1, <3>2 DEF PackComplete
  <2> QED
    BY <2>2, <2>4, <2>5, <2>6 DEF plan
<1> QED
  BY <1>1, PackInvAlways, PTL

(* WithoutReplacement: within a pack no pool gives the same identity       *)
(* twice, in the construction's history or in the server's cards           *)
(* (pack-local-pool-draw-state.ts, apps/server/src/packs.ts).              *)
THEOREM NothingIsReplaced == Spec => []WithoutReplacement
<1>1. PackInv => WithoutReplacement
  <2> SUFFICES ASSUME PackInv PROVE WithoutReplacement
    OBVIOUS
  <2>1. CASE parts = NoParts
    <3>1. PICK l \in DOMAIN Layouts \cup {NoLayout} : Follows(builder, l, <<>>, unplanned)
      BY <2>1, PackStages
    <3>2. Dealt(builder.cards, <<>>)
      BY <3>1, NothingTaken, BuilderFacts
    <3>3. DOMAIN builder.cards = {}
      BY <3>2, NothingTaken, ListFacts DEF Dealt
    <3> QED
      BY <2>1, <3>3 DEF WithoutReplacement
  <2>2. CASE parts # NoParts
    <3> DEFINE plan == parts.plan
               h == plan.history
               cards == builder.cards
    <3>1. PlanOK(plan) /\ Follows(builder, plan.layout, h, unplanned + parts.samples)
      BY <2>2, PackStages DEF PartsOK
    <3> HIDE DEF plan
    <3>2. /\ Listed(h) /\ Len(h) = plan.next /\ plan.next \in Nat /\ DOMAIN h = 1 .. plan.next
          /\ \A i \in 1 .. plan.next : h[i] = [pool |-> Slots(plan.layout)[i], identity |-> h[i].identity]
          /\ \A i, j \in 1 .. plan.next : h[i] = h[j] => i = j
      BY <3>1, HistoryFacts DEF PlanOK
    <3>3. Dealt(cards, h) /\ (builder.layout = plan.layout \/ Len(cards) = 0)
      BY <3>1, <3>2, BuilderFacts
    <3>4. /\ DOMAIN cards = 1 .. Len(cards) /\ Len(cards) \in Nat /\ Len(cards) <= plan.next
          /\ \A i \in 1 .. Len(cards) : cards[i] = h[i].identity
      BY <3>2, <3>3, ListFacts DEF Dealt
    <3>5. ASSUME NEW i \in DOMAIN cards, NEW j \in DOMAIN cards, cards[i] = cards[j],
                 Slots(builder.layout)[i] = Slots(builder.layout)[j]
          PROVE  i = j
      <4>1. i \in 1 .. plan.next /\ j \in 1 .. plan.next /\ i \in 1 .. Len(cards) /\ j \in 1 .. Len(cards)
        BY <3>2, <3>4, <3>5
      <4>2. builder.layout = plan.layout
        BY <3>3, <4>1
      <4>3. h[i].identity = h[j].identity /\ Slots(plan.layout)[i] = Slots(plan.layout)[j]
        BY <3>4, <3>5, <4>1, <4>2
      <4>4. h[i] = h[j]
        BY <3>2, <4>1, <4>3
      <4> QED
        BY <3>2, <4>1, <4>4
    <3> QED
      BY <3>2, <3>5 DEF WithoutReplacement, plan
  <2> QED
    BY <2>1, <2>2
<1> QED
  BY <1>1, PackInvAlways, PTL

(* SingleSamplesAgree: for the current position of every plan and every    *)
(* sample, the transitions for one sample retry, select and remove as the  *)
(* batch transition does (collation-sample-selection.ts, pack-local-pool-  *)
(* sample-draw-transition.ts).                                             *)
THEOREM SinglesAgree == Spec => []SingleSamplesAgree
<1>1. PackInv => SingleSamplesAgree
  <2> SUFFICES ASSUME PackInv, stage \in {"planned", "building"}, NEW s \in Sample
               PROVE  LET pool == CurrentPool(parts.plan)
                          single == DrawFromPool(parts.plan.pools, pool, s)
                          batched == TransitionCurrentPosition(parts.plan, <<s>>)
                      IN  /\ single.state = "retry" <=> batched.state = "needs-sample"
                          /\ single.state = "selected" =>
                              /\ batched.identity = single.identity
                              /\ batched.plan.pools = single.pools
                              /\ SelectedFrom(parts.plan.history, pool) = {} =>
                                  SelectFromTable(pool, s).identity = single.identity
    BY DEF SingleSamplesAgree
  <2> DEFINE plan == parts.plan
             p == CurrentPool(plan)
             c == plan.pools[p]
             T == TotalWeight(c)
             batch == <<s>>
             single == DrawFromPool(plan.pools, p, s)
             batched == TransitionCurrentPosition(plan, batch)
             id == LocalChoiceForTicket(c, s % T)
  <2>1. PlanOK(plan) /\ plan.next # PositionCount
    <3>1. parts # NoParts /\ stage # "complete"
      BY PackStages
    <3> QED
      BY <3>1, PackStages DEF PartsOK
  <2> HIDE DEF plan
  <2>2. plan.next < PositionCount
    <3>1. plan.next \in Nat /\ PositionCount \in Nat /\ plan.next <= PositionCount
      BY <2>1, HistoryFacts
    <3> QED
      BY <2>1, <3>1
  <2>3. p \in Pools /\ c = Left(p, SelectedFrom(plan.history, p))
    BY <2>1, <2>2, PlanPool
  <2>4. batch \in Seq(Sample) /\ Len(batch) = 1 /\ batch[1] = s
    OBVIOUS
  <2>5. \/ AcceptedAt(batch, T) = {} /\ batched = [state |-> "needs-sample", consumed |-> Len(batch)]
        \/ \E i \in AcceptedAt(batch, T), k \in 1 .. Len(c) :
             /\ LocalChoiceForTicket(c, batch[i] % T) = c[k].key
             /\ batched = [state |-> "selected", consumed |-> i, identity |-> c[k].key,
                           plan |-> Advanced(plan, c[k].key)]
             /\ Advanced(plan, c[k].key).pools = RemoveIdentity(plan.pools, p, c[k].key)
    <3>1. \A k \in 1 .. Len(c) : Advanced(plan, c[k].key).pools = RemoveIdentity(plan.pools, p, c[k].key)
      BY <2>1, <2>2, PlanAdvances
    <3> HIDE DEF batch
    <3>2. \/ AcceptedAt(batch, T) = {} /\ batched = [state |-> "needs-sample", consumed |-> Len(batch)]
          \/ \E i \in AcceptedAt(batch, T), k \in 1 .. Len(c) :
               /\ LocalChoiceForTicket(c, batch[i] % T) = c[k].key
               /\ batched = [state |-> "selected", consumed |-> i, identity |-> c[k].key,
                             plan |-> Advanced(plan, c[k].key)]
      BY <2>1, <2>2, <2>4, PositionTransition
    <3> HIDE DEF batched, T, c, p
    <3> QED
      BY <3>1, <3>2
  <2>6. /\ ~(s < AcceptedEnd(T)) => single = [state |-> "retry"]
        /\ s < AcceptedEnd(T) => single = [state |-> "selected", identity |-> id,
                                           pools |-> RemoveIdentity(plan.pools, p, id)]
    BY DEF DrawFromPool, SelectFromPool, MapSample
  <2>7. SelectedFrom(plan.history, p) = {} /\ s < AcceptedEnd(T) => SelectFromTable(p, s).identity = id
    <3> SUFFICES ASSUME SelectedFrom(plan.history, p) = {}, s < AcceptedEnd(T)
                 PROVE  SelectFromTable(p, s).identity = id
      OBVIOUS
    <3>1. c = PoolTable[p]
      BY <2>3, LeftAll
    <3> HIDE DEF c, p
    <3>2. SelectFromTable(p, s).identity = ChoiceForTicket(c, s % T)
      BY <3>1 DEF SelectFromTable, MapSample
    <3> QED
      BY <3>2, BisectionsAgree
  <2>8. AcceptedAt(batch, T) = {} <=> ~(s < AcceptedEnd(T))
    BY <2>4 DEF AcceptedAt
  <2> HIDE DEF batch, batched, single, T, c, id, p
  <2>9. CASE AcceptedAt(batch, T) = {} /\ batched = [state |-> "needs-sample", consumed |-> Len(batch)]
    <3>1. single.state = "retry" /\ batched.state = "needs-sample" /\ single.state # "selected"
      BY <2>6, <2>8, <2>9
    <3> QED
      BY <3>1 DEF single, batched, batch, p, plan
  <2>10. ASSUME NEW i \in AcceptedAt(batch, T), NEW k \in 1 .. Len(c),
                LocalChoiceForTicket(c, batch[i] % T) = c[k].key,
                batched = [state |-> "selected", consumed |-> i, identity |-> c[k].key,
                           plan |-> Advanced(plan, c[k].key)],
                Advanced(plan, c[k].key).pools = RemoveIdentity(plan.pools, p, c[k].key)
         PROVE  /\ single.state = "selected" /\ batched.state = "selected"
                /\ batched.identity = single.identity /\ batched.plan.pools = single.pools
                /\ single.identity = id /\ s < AcceptedEnd(T)
    <3>1. i = 1 /\ batch[i] = s
      <4>1. i \in 1 .. 1
        BY <2>4 DEF AcceptedAt
      <4> QED
        BY <2>4, <4>1
    <3>2. c[k].key = id
      BY <2>10, <3>1 DEF id
    <3>3. s < AcceptedEnd(T)
      BY <2>8
    <3> QED
      BY <2>6, <2>10, <3>2, <3>3
  <2>11. CASE \E i \in AcceptedAt(batch, T), k \in 1 .. Len(c) :
             /\ LocalChoiceForTicket(c, batch[i] % T) = c[k].key
             /\ batched = [state |-> "selected", consumed |-> i, identity |-> c[k].key,
                           plan |-> Advanced(plan, c[k].key)]
             /\ Advanced(plan, c[k].key).pools = RemoveIdentity(plan.pools, p, c[k].key)
    <3>1. /\ single.state = "selected" /\ batched.state = "selected"
          /\ batched.identity = single.identity /\ batched.plan.pools = single.pools
          /\ single.identity = id /\ s < AcceptedEnd(T)
      BY <2>10, <2>11
    <3> QED
      BY <2>7, <3>1 DEF single, batched, batch, p, plan
  <2> QED
    BY <2>5, <2>9, <2>11
<1> QED
  BY <1>1, PackInvAlways, PTL

=============================================================================
