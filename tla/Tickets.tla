------------------------------ MODULE Tickets ------------------------------
(***************************************************************************)
(* Unbiased bounded tickets from uniform samples, packages/engine/src:     *)
(* unbiased-uint32-ticket.ts maps one sample, uint32-sample-batch.ts a     *)
(* finite batch of them.  The code's sample domain is [0, 2^32); here its  *)
(* exclusive end is the constant SampleEnd, as in the code's own generic   *)
(* seam mapExactIntegerSampleToBoundedTicketForTest.                       *)
(***************************************************************************)
EXTENDS Integers, Sequences

CONSTANT SampleEnd      \* UINT32_SAMPLE_DOMAIN_EXCLUSIVE_END

ASSUME SampleEndAssumption == SampleEnd \in Nat \ {0}

Sample == 0 .. SampleEnd-1
TicketBound == 1 .. SampleEnd

\* Mutant: no rejection tail.
AcceptedEnd_wholeDomain(bound) == SampleEnd

\* The largest multiple of the bound that the domain holds; samples from it
\* on are the rejection tail.
AcceptedEnd(bound) == SampleEnd - (SampleEnd % bound)

\* The refusal of a bound that is not in TicketBound is the guard of callers.
MapSample(sample, bound) ==
    IF sample < AcceptedEnd(bound)
    THEN [state |-> "accepted", ticket |-> sample % bound]
    ELSE [state |-> "retry"]

\* Positions of a batch whose sample is accepted.
AcceptedAt(samples, bound) == {i \in 1..Len(samples) : samples[i] < AcceptedEnd(bound)}

\* Mutant: an accepted batch is reported as read to its end.
MapBatch_wholeBatch(samples, bound) ==
    IF AcceptedAt(samples, bound) = {}
    THEN [state |-> "needs-sample", consumed |-> Len(samples)]
    ELSE LET first == CHOOSE i \in AcceptedAt(samples, bound) :
                          \A j \in AcceptedAt(samples, bound) : i <= j
         IN  [state |-> "accepted",
              ticket |-> MapSample(samples[first], bound).ticket,
              consumed |-> Len(samples)]

\* A batch is read up to its first accepted sample, or to its end.
MapBatch(samples, bound) ==
    IF AcceptedAt(samples, bound) = {}
    THEN [state |-> "needs-sample", consumed |-> Len(samples)]
    ELSE LET first == CHOOSE i \in AcceptedAt(samples, bound) :
                          \A j \in AcceptedAt(samples, bound) : i <= j
         IN  [state |-> "accepted",
              ticket |-> MapSample(samples[first], bound).ticket,
              consumed |-> first]

=============================================================================
