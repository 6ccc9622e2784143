--------------------------- MODULE PagedListingProofs ---------------------------
(***************************************************************************)
(* Proofs about the calls of a provider, for every bound on retries and      *)
(* delays and every header, and about its listings, for every size of page,  *)
(* every limit and every number of items.                                   *)
(***************************************************************************)
EXTENDS PagedListing, SequenceTheorems, TLAPS

-----------------------------------------------------------------------------
(* One call: ProviderCall. *)

\* A call has a first request; only a writing call, which is one request, has
\* an effect.
LEMMA CallShape ==
  ASSUME call \in Calls
  PROVE  /\ Len(call) \in Nat /\ Len(call) >= 1
         /\ call = Write => Len(call) = 1 /\ call[1] = "write"
         /\ call # Write => \A i \in 1 .. Len(call) : call[i] = "read"
<1>1. CASE call = Write
  BY <1>1 DEF Write
<1>2. CASE call = Read
  BY <1>2 DEF Write, Read
<1>3. CASE call = <<"read", "read">>
  BY <1>3 DEF Write
<1>4. CASE call \in SearchIssues
  <2>1. PICK n \in 0 .. MaxFound : call = [i \in 1 .. n + 1 |-> "read"]
    BY <1>4 DEF SearchIssues
  <2>2. n \in Nat
    BY ProviderCallAssumption
  <2>3. call \in Seq({"read"}) /\ Len(call) = n + 1 /\ \A i \in 1 .. n + 1 : call[i] = "read"
    BY <2>1, <2>2
  <2>4. Write[1] = "write" /\ call[1] = "read"
    BY <2>2, <2>3 DEF Write
  <2> QED BY <2>2, <2>3, <2>4
<1> QED
  BY <1>1, <1>2, <1>3, <1>4
  DEF Calls, GetRepository, GetFile, ListCommits, GetIssue, AddIssueComment, CreateDraftPr, AddPrComment

LEMMA EffectShape ==
  ASSUME TypeOK
  PROVE  /\ Effect = IF call = Write THEN 1 ELSE 0
         /\ call = Write => at = Len(call)
BY CallShape DEF TypeOK, Effect

\* The delay before an attempt, whatever the header says.
LEMMA DelayBounded ==
  ASSUME TypeOK, NEW header \in Hints \cup {Missing, Unparsable}
  PROVE  RetryAfterSeconds(header) \in 0 .. MaxRetryAfter
<1>1. Backoff[attempt] \in Nat
  BY BackoffAssumption DEF TypeOK
<1>2. Asked(header) \in Int
  BY <1>1, ProviderCallAssumption DEF Asked
<1> QED BY <1>2, ProviderCallAssumption DEF RetryAfterSeconds, Capped, Floored

\* One more attempt adds at most one longest delay.
LEMMA OneMoreDelay ==
  ASSUME NEW a \in Nat, NEW m \in Nat, NEW w \in Nat, w =< a * m, NEW d \in 0 .. m
  PROVE  w + d =< (a + 1) * m
<1>1. (a + 1) * m = a * m + m /\ a * m \in Nat
  OBVIOUS
<1> QED BY <1>1

CallInvariant == TypeOK /\ MutatesAtMostOnce /\ WaitsAreBounded

LEMMA FailsPreserves ==
  ASSUME CallInvariant, NEW kind \in Outcome \ {"pending", "returned", "invalid_json"},
         NEW delay \in 0 .. MaxRetryAfter, Fails(kind, delay)
  PROVE  /\ WaitsAreBounded'
         /\ call' = call /\ at' = at /\ attempt' \in 0 .. MaxRetries /\ waited' \in Nat
         /\ outcome' \in {"pending", kind} /\ (outcome' = "pending" => kind = "rate_limited")
<1>1. TypeOK /\ WaitsAreBounded /\ MaxRetries \in Nat /\ MaxRetryAfter \in Nat
  BY ProviderCallAssumption DEF CallInvariant
<1>2. attempt \in Nat /\ waited \in Nat /\ waited =< attempt * MaxRetryAfter
  BY <1>1 DEF TypeOK, WaitsAreBounded
<1>3. CASE kind = "rate_limited" /\ attempt < MaxRetries
  <2>1. attempt' = attempt + 1 /\ waited' = waited + delay /\ outcome' = "pending"
    BY <1>3 DEF Fails, Retried
  <2>2. waited + delay =< (attempt + 1) * MaxRetryAfter
    BY <1>1, <1>2, OneMoreDelay
  <2> QED BY <1>1, <1>2, <1>3, <2>1, <2>2 DEF WaitsAreBounded, TypeOK, Fails
<1>4. CASE ~ (kind = "rate_limited" /\ attempt < MaxRetries)
  BY <1>1, <1>4 DEF WaitsAreBounded, TypeOK, Fails, Retried
<1> QED BY <1>3, <1>4

\* A request that fails, with its effect or without: the rate limit only without.
LEMMA FailureInvariant ==
  ASSUME CallInvariant, NEW kind \in Outcome \ {"pending", "returned", "invalid_json"},
         NEW delay \in 0 .. MaxRetryAfter, Fails(kind, delay),
         applied' \in {applied, applied + Effect},
         kind = "rate_limited" => applied' = applied
  PROVE  CallInvariant'
<1>1. /\ WaitsAreBounded'
      /\ call' = call /\ at' = at /\ attempt' \in 0 .. MaxRetries /\ waited' \in Nat
      /\ outcome' \in {"pending", kind} /\ (outcome' = "pending" => kind = "rate_limited")
  BY FailsPreserves
<1>2. applied = 0
  BY DEF Fails, CallInvariant, MutatesAtMostOnce
<1>3. applied' \in {0, Effect} /\ Effect \in {0, 1} /\ (Effect = 1 => call = Write)
  BY <1>2, EffectShape, CallShape DEF CallInvariant, TypeOK
<1>4. TypeOK'
  BY <1>1, <1>3 DEF CallInvariant, TypeOK, Outcome
<1>5. MutatesAtMostOnce'
  BY <1>1, <1>2, <1>3 DEF MutatesAtMostOnce
<1> QED BY <1>1, <1>4, <1>5 DEF CallInvariant

LEMMA NextPreserves ==
  ASSUME CallInvariant, [Next]_vars PROVE CallInvariant'
<1> USE DEF CallInvariant
<1>1. MaxRetries \in Nat /\ MaxRetryAfter \in Nat /\ 0 \in 0 .. MaxRetryAfter
  BY ProviderCallAssumption
<1>2. /\ Effect = IF call = Write THEN 1 ELSE 0
      /\ call = Write => at = Len(call)
      /\ Len(call) \in Nat
  BY EffectShape, CallShape DEF TypeOK
<1>3. CASE UNCHANGED vars
  BY <1>3 DEF vars, TypeOK, MutatesAtMostOnce, WaitsAreBounded
<1>4. CASE Answered
  <2>1. 0 * MaxRetryAfter = 0
    BY <1>1
  <2> QED BY <1>1, <1>2, <1>4, <2>1
    DEF Answered, TypeOK, MutatesAtMostOnce, WaitsAreBounded, Outcome
<1>5. CASE InvalidJson
  BY <1>2, <1>5 DEF InvalidJson, TypeOK, MutatesAtMostOnce, WaitsAreBounded, Outcome
<1>6. ASSUME NEW header \in Hints \cup {Missing, Unparsable}, RateLimited(header)
      PROVE  CallInvariant'
  <2>1. RetryAfterSeconds(header) \in 0 .. MaxRetryAfter
    BY DelayBounded
  <2>2. Fails("rate_limited", RetryAfterSeconds(header)) /\ applied' = applied
    BY <1>6 DEF RateLimited
  <2> QED BY <2>1, <2>2, FailureInvariant DEF Outcome
<1>7. CASE HttpError
  <2>1. Fails("http_error", 0) /\ applied' \in {applied, applied + Effect}
    BY <1>7 DEF HttpError, PerhapsApplied, TypeOK
  <2> QED BY <1>1, <2>1, FailureInvariant DEF Outcome
<1>8. CASE TransportError
  <2>1. Fails("transport_error", 0) /\ applied' \in {applied, applied + Effect}
    BY <1>8 DEF TransportError, PerhapsApplied, TypeOK
  <2> QED BY <1>1, <2>1, FailureInvariant DEF Outcome
<1> QED BY <1>3, <1>4, <1>5, <1>6, <1>7, <1>8 DEF Next

LEMMA InitialCall == Init => CallInvariant
<1> SUFFICES ASSUME Init PROVE CallInvariant
  OBVIOUS
<1>1. Len(call) \in Nat /\ Len(call) >= 1
  BY CallShape DEF Init
<1>2. 0 * MaxRetryAfter = 0 /\ MaxRetries \in Nat
  BY ProviderCallAssumption
<1> QED BY <1>1, <1>2
  DEF Init, CallInvariant, TypeOK, MutatesAtMostOnce, WaitsAreBounded, Outcome

THEOREM CallInvariance == Spec => []CallInvariant
<1> QED BY InitialCall, NextPreserves, PTL DEF Spec

\* Every variable keeps its type (tools/source_providers/base.py:141-161).
THEOREM TypeCorrect == Spec => []TypeOK
<1>1. CallInvariant => TypeOK
  BY DEF CallInvariant
<1> QED BY <1>1, CallInvariance, PTL

\* No call mutates its provider twice, and the rate limit means not at all
\* (tools/source_providers/base.py:141-161).
THEOREM AtMostOneMutation == Spec => []MutatesAtMostOnce
<1>1. CallInvariant => MutatesAtMostOnce
  BY DEF CallInvariant
<1> QED BY <1>1, CallInvariance, PTL

\* The waits are bounded, whatever the headers say
\* (tools/source_providers/base.py:89-99).
THEOREM BoundedWaits == Spec => []WaitsAreBounded
<1>1. CallInvariant => WaitsAreBounded
  BY DEF CallInvariant
<1> QED BY <1>1, CallInvariance, PTL

-----------------------------------------------------------------------------
(* A listing: Listing. *)

LEMMA Parts ==
  ASSUME ListingTypeOK
  PROVE  /\ size \in Nat /\ limit \in Nat /\ Len(items) \in Nat
         /\ PageSize \in Nat \ {0} /\ page - 1 \in Nat /\ page \in Nat /\ continuation \in Nat
         /\ provider \in {"github", "azure"}
BY ListingAssumption DEF ListingTypeOK

LEMMA FirstShape ==
  ASSUME NEW n \in Nat
  PROVE  /\ First(n) \in Seq(Nat) /\ Len(First(n)) = n
         /\ \A i \in 1 .. n : First(n)[i] = i
         /\ \A m \in Nat : n =< m => First(n) \in Seq(1 .. m)
BY DEF First

\* An answer holds the items from first on, as far as there are any.
LEMMA AnswerShape ==
  ASSUME size \in Nat, NEW first \in Nat \ {0}, NEW last \in Nat
  PROVE  LET a == Answer(first, last) IN
         /\ a \in Seq(1 .. size)
         /\ Len(a) = IF Least(last, size) < first THEN 0 ELSE Least(last, size) - first + 1
         /\ \A i \in 1 .. Len(a) : a[i] = first + i - 1
<1> DEFINE m == Least(last, size)
           n == IF m < first THEN 0 ELSE m - first + 1
<1>1. n \in Nat /\ 1 .. m - first + 1 = 1 .. n /\ (\A i \in 1 .. n : first + i - 1 \in 1 .. size)
  BY DEF Least
<1>2. Answer(first, last) = [i \in 1 .. n |-> first + i - 1]
  BY <1>1 DEF Answer
<1> HIDE DEF n
<1>3. /\ [i \in 1 .. n |-> first + i - 1] \in Seq(1 .. size)
      /\ Len([i \in 1 .. n |-> first + i - 1]) = n
  BY <1>1
<1> QED BY <1>1, <1>2, <1>3 DEF n

\* Whatever a page holds, what is collected are items, and not too many.
LEMMA CollectedShape ==
  ASSUME ListingTypeOK, NEW results \in Seq(1 .. size)
  PROVE  /\ Collected(results) \in Seq(1 .. size)
         /\ Len(Collected(results)) = Least(limit, Len(items) + Len(results))
         /\ \A i \in 1 .. Least(limit, Len(items) + Len(results)) :
              Collected(results)[i] = IF i =< Len(items) THEN items[i] ELSE results[i - Len(items)]
<1> DEFINE n == Least(limit, Len(items) + Len(results))
           all == items \o results
<1>1. /\ items \in Seq(1 .. size) /\ Len(items) \in Nat /\ Len(results) \in Nat /\ limit \in Nat
      /\ n \in Nat /\ n =< Len(items) + Len(results) /\ n =< limit
  BY Parts, LenProperties DEF ListingTypeOK, Least
<1>2. /\ all \in Seq(1 .. size) /\ Len(all) = Len(items) + Len(results)
      /\ \A i \in 1 .. Len(items) + Len(results) :
           all[i] = IF i =< Len(items) THEN items[i] ELSE results[i - Len(items)]
  BY <1>1, ConcatProperties
<1> HIDE DEF all, n
<1>3. \A i \in 1 .. n : all[i] \in 1 .. size
  <2>1. \A i \in 1 .. n : i \in 1 .. Len(all)
    BY <1>1, <1>2
  <2> QED BY <1>2, <2>1, ElementOfSeq
<1>4. /\ SubSeq(all, 1, n) \in Seq(1 .. size)
      /\ Len(SubSeq(all, 1, n)) = (IF 1 =< n THEN n - 1 + 1 ELSE 0)
      /\ \A i \in 1 .. n - 1 + 1 : SubSeq(all, 1, n)[i] = all[1 + i - 1]
  BY <1>1, <1>3, SubSeqProperties
<1>5. Collected(results) = SubSeq(all, 1, n)
  BY DEF Collected, all, n
<1> QED BY <1>1, <1>2, <1>4, <1>5 DEF n

\* An answer that continues the beginning collected so far gives a longer one.
LEMMA BeginningGrows ==
  ASSUME ListingTypeOK, items = First(Len(items)), Len(items) =< size,
         NEW last \in Nat, Len(items) =< last
  PROVE  LET a == Answer(Len(items) + 1, last) IN
         /\ a \in Seq(1 .. size) /\ Len(a) = Least(last, size) - Len(items)
         /\ Collected(a) = First(Len(Collected(a)))
         /\ Len(Collected(a)) = Least(limit, Least(last, size))
<1> DEFINE k == Len(items)
           a == Answer(k + 1, last)
           n == Least(limit, Least(last, size))
<1>1. size \in Nat /\ limit \in Nat /\ k \in Nat
  BY Parts
<1>2. /\ a \in Seq(1 .. size) /\ Len(a) = Least(last, size) - k
      /\ \A i \in 1 .. Len(a) : a[i] = k + i
  <2>1. PICK first \in Nat \ {0} : first = k + 1
    BY <1>1
  <2>2. LET b == Answer(first, last) IN
        /\ b \in Seq(1 .. size)
        /\ Len(b) = IF Least(last, size) < first THEN 0 ELSE Least(last, size) - first + 1
        /\ \A i \in 1 .. Len(b) : b[i] = first + i - 1
    BY <1>1, AnswerShape
  <2>3. a = Answer(first, last)
    BY <2>1
  <2> HIDE DEF a
  <2>4. Len(a) = Least(last, size) - k
    BY <1>1, <2>1, <2>2, <2>3 DEF Least
  <2>5. Len(a) \in Nat
    BY <1>1, <2>4 DEF Least
  <2> QED BY <1>1, <2>1, <2>2, <2>3, <2>4, <2>5
<1>3. k + Len(a) = Least(last, size) /\ n \in Nat
  BY <1>1, <1>2 DEF Least
<1> HIDE DEF a
<1>4. /\ Collected(a) \in Seq(1 .. size) /\ Len(Collected(a)) = n
      /\ \A i \in 1 .. n : Collected(a)[i] = IF i =< k THEN items[i] ELSE a[i - k]
  BY <1>2, <1>3, CollectedShape
<1>5. \A i \in 1 .. n : Collected(a)[i] = i
  <2> SUFFICES ASSUME NEW i \in 1 .. n PROVE Collected(a)[i] = i
    OBVIOUS
  <2>1. CASE i =< k
    <3>1. \A m \in Nat : \A j \in 1 .. m : First(m)[j] = j
      BY FirstShape
    <3>2. i \in 1 .. k
      BY <1>1, <1>3, <2>1
    <3>3. First(k)[i] = i
      BY <1>1, <3>1, <3>2
    <3> QED BY <1>4, <2>1, <3>3
  <2>2. CASE ~ (i =< k)
    <3>1. i - k \in 1 .. Len(a)
      BY <1>1, <1>2, <1>3, <2>2 DEF Least
    <3> QED BY <1>1, <1>2, <1>3, <1>4, <2>2, <3>1
  <2> QED BY <2>1, <2>2
<1>6. Collected(a) = First(n)
  BY <1>3, <1>4, <1>5, FirstShape, SeqEqual, SeqMonotonic
<1> QED BY <1>2, <1>4, <1>6 DEF a

-----------------------------------------------------------------------------
(* The two kinds of pages. *)

LEMMA Rows ==
  ASSUME NEW a \in Nat, NEW b \in Nat, NEW m \in Nat, a < b
  PROVE  a * m + m =< b * m /\ a * m \in Nat /\ (a + 1) * m = a * m + m
<1>1. PICK c \in Nat : b = a + 1 + c
  OBVIOUS
<1>2. b * m = a * m + m + c * m /\ c * m \in Nat /\ a * m \in Nat
  BY <1>1
<1> QED BY <1>2

\* The page GitHub is asked for begins where the items end, and is the last one
\* if it is not of the full size.
LEMMA GitHubAligned ==
  ASSUME ListingTypeOK, WholePages, Len(items) < limit, Len(items) = (page - 1) * PageSize
  PROVE  /\ (page - 1) * PerPage = Len(items)
         /\ page * PerPage = Len(items) + PerPage
         /\ Len(items) + PerPage =< limit
         /\ PerPage = PageSize \/ Len(items) + PerPage = limit
<1> DEFINE k == Len(items)
           p == page - 1
<1>1. /\ k \in Nat /\ limit \in Nat /\ PageSize \in Nat \ {0} /\ p \in Nat /\ page = p + 1
      /\ k = p * PageSize
  BY Parts
<1>2. CASE PageSize < limit - k \/ PageSize = limit - k
  <2>1. PerPage = PageSize
    BY <1>1, <1>2 DEF PerPage, Least
  <2>2. page * PageSize = p * PageSize + PageSize
    BY <1>1
  <2> QED BY <1>1, <1>2, <2>1, <2>2
<1>3. CASE limit - k < PageSize
  <2>1. PerPage = limit - k
    BY <1>1, <1>3 DEF PerPage, Least
  <2>2. ~ \E q \in 0 .. limit : limit = q * PageSize
    <3> SUFFICES ASSUME NEW q \in 0 .. limit, limit = q * PageSize PROVE FALSE
      OBVIOUS
    <3>1. CASE p < q
      BY <1>1, <1>3, <3>1, Rows
    <3>2. CASE q < p
      BY <1>1, <3>2, Rows
    <3>3. CASE p = q
      BY <1>1, <3>3
    <3> QED BY <1>1, <3>1, <3>2, <3>3
  <2>3. limit =< PageSize
    BY <2>2 DEF WholePages
  <2>4. p = 0
    <3> SUFFICES ASSUME 0 < p PROVE FALSE
      BY <1>1
    <3>1. 0 * PageSize + PageSize =< p * PageSize
      BY <1>1, Rows
    <3> QED BY <1>1, <2>3, <3>1
  <2>5. page = 1 /\ k = 0 /\ PerPage = limit
    BY <1>1, <2>1, <2>4
  <2>6. (page - 1) * PerPage = 0 /\ page * PerPage = limit
    BY <1>1, <2>5
  <2> QED BY <1>1, <2>5, <2>6
<1> QED BY <1>1, <1>2, <1>3

ListingInvariant == ListingTypeOK /\ Progress

LEMMA PagePreserves ==
  ASSUME ListingInvariant, [ListingNext]_listingVars PROVE ListingInvariant'
<1> USE DEF ListingInvariant
<1> DEFINE k == Len(items)
<1>1. /\ size \in Nat /\ limit \in Nat /\ k \in Nat /\ k =< limit
      /\ PageSize \in Nat \ {0} /\ page - 1 \in Nat /\ page \in Nat /\ continuation \in Nat
      /\ provider \in {"github", "azure"}
  BY Parts DEF ListingTypeOK
<1>2. CASE UNCHANGED listingVars
  BY <1>2 DEF listingVars, ListingTypeOK, Progress, WholePages
<1>3. CASE EnoughItems
  <2>1. ListingTypeOK'
    BY <1>3 DEF EnoughItems, Finish, ListingTypeOK
  <2>2. k = limit
    BY <1>1, <1>3 DEF EnoughItems
  <2> QED BY <1>1, <1>3, <2>1, <2>2 DEF EnoughItems, Finish, Progress, WholePages, Least
<1>4. CASE RequestFails
  BY <1>4 DEF RequestFails, Finish, ListingTypeOK, Progress, WholePages
<1>5. CASE GitHubPage
  <2> DEFINE first == (page - 1) * PerPage + 1
             last == page * PerPage
             a == Answer(first, last)
  <2>1. PerPage \in Nat
    BY <1>1, <1>5 DEF GitHubPage, Received, PerPage, Least
  <2>2. first \in Nat \ {0} /\ last \in Nat
    BY <1>1, <2>1
  <2> HIDE DEF first, last
  <2>3. a \in Seq(1 .. size)
    BY <1>1, <2>2, AnswerShape
  <2>4. /\ items' = Collected(a) /\ page' = page + 1 /\ continuation' = continuation
        /\ listed = "pending" /\ k < limit /\ provider = "github"
        /\ listed' = IF a = <<>> \/ ~ (last < size) THEN "returned" ELSE "pending"
        /\ UNCHANGED <<provider, size, limit>>
    BY <1>5 DEF GitHubPage, Received, first, last
  <2>5. /\ Collected(a) \in Seq(1 .. size)
        /\ Len(Collected(a)) = Least(limit, k + Len(a)) /\ Len(a) \in Nat
    BY <2>3, CollectedShape, LenProperties
  <2>6. ListingTypeOK'
    BY <1>1, <2>4, <2>5 DEF ListingTypeOK, Least
  <2>7. ASSUME WholePages PROVE Progress'
    <3>1. items = First(k) /\ k =< size /\ k = (page - 1) * PageSize
      BY <2>4, <2>7 DEF Progress
    <3>2. first = k + 1 /\ last = k + PerPage /\ last =< limit /\ (PerPage = PageSize \/ last = limit)
      BY <1>1, <2>1, <2>4, <2>7, <3>1, GitHubAligned DEF first, last
    <3>3. /\ Len(a) = Least(last, size) - k
          /\ Collected(a) = First(Len(Collected(a)))
          /\ Len(Collected(a)) = Least(limit, Least(last, size))
      BY <1>1, <2>1, <2>2, <3>1, <3>2, BeginningGrows
    <3>4. Len(items') = Least(last, size)
      BY <1>1, <2>2, <2>4, <3>2, <3>3 DEF Least
    <3>5. CASE last < size
      <4>1. Len(items') = last
        BY <1>1, <2>2, <3>4, <3>5 DEF Least
      <4>2. Len(a) > 0
        BY <1>1, <2>1, <2>2, <2>4, <3>2, <3>3, <3>5 DEF Least, PerPage
      <4>3. listed' = "pending"
        BY <2>3, <2>4, <3>5, <4>2
      <4>4. last < limit => last = (page' - 1) * PageSize
        <5>1. page * PageSize = (page - 1) * PageSize + PageSize
          BY <1>1
        <5>2. page' - 1 = page
          BY <1>1, <2>4
        <5> QED BY <3>1, <3>2, <5>1, <5>2
      <4>5. items' = First(Len(items')) /\ Len(items') =< size'
        BY <1>1, <2>2, <2>4, <3>3, <3>5, <4>1
      <4>6. Len(items') < limit' => Len(items') = (page' - 1) * PageSize
        BY <2>4, <4>1, <4>4
      <4>7. provider' = "github" /\ listed' = "pending"
        BY <2>4, <4>3
      <4> QED BY <4>5, <4>6, <4>7 DEF Progress
    <3>6. CASE ~ (last < size)
      <4>1. listed' = "returned" /\ Len(items') = size /\ size =< limit
        BY <1>1, <2>2, <2>4, <3>2, <3>4, <3>6 DEF Least
      <4>2. items' = First(Len(items'))
        BY <2>4, <3>3
      <4>3. Len(items') =< size' /\ Len(items') = Least(limit', size')
        BY <1>1, <2>4, <4>1 DEF Least
      <4> QED BY <4>1, <4>2, <4>3 DEF Progress, Least
    <3> QED BY <3>5, <3>6
  <2>8. WholePages' = WholePages
    BY <2>4 DEF WholePages
  <2> QED BY <2>4, <2>6, <2>7, <2>8 DEF Progress
<1>6. ASSUME NEW n \in 1 .. PageSize, AzurePage(n) PROVE ListingInvariant'
  <2> DEFINE last == k + n
             a == Answer(k + 1, last)
  <2>1. provider = "azure" /\ listed = "pending" /\ k < limit
    BY <1>6 DEF AzurePage, Received
  <2>2. items = First(k) /\ k =< size /\ continuation = k
    BY <2>1 DEF Progress
  <2>3. last \in Nat /\ k =< last
    BY <1>1
  <2>4. /\ items' = Collected(a) /\ page' = page /\ continuation' = k + Len(a)
        /\ listed' = IF a = <<>> \/ ~ (k + Len(a) < size) THEN "returned" ELSE "pending"
        /\ UNCHANGED <<provider, size, limit>>
    BY <1>6, <2>2 DEF AzurePage, Received, NextToken
  <2> HIDE DEF last
  <2>5. /\ a \in Seq(1 .. size) /\ Len(a) = Least(last, size) - k
        /\ Collected(a) = First(Len(Collected(a)))
        /\ Len(Collected(a)) = Least(limit, Least(last, size))
    BY <1>1, <2>2, <2>3, BeginningGrows
  <2>6. Collected(a) \in Seq(1 .. size)
    BY <2>5, CollectedShape
  <2>7. k + Len(a) = Least(last, size)
    BY <1>1, <2>3, <2>5 DEF Least
  <2>8. ListingTypeOK'
    BY <1>1, <2>1, <2>3, <2>4, <2>5, <2>6, <2>7 DEF ListingTypeOK, Least
  <2>9. CASE listed' = "pending"
    BY <1>1, <2>1, <2>3, <2>4, <2>5, <2>7, <2>8, <2>9 DEF Progress, Least
  <2>10. CASE listed' = "returned"
    <3>1. a = <<>> => Len(a) = 0
      OBVIOUS
    <3>2. Least(last, size) = size
      BY <1>1, <2>2, <2>3, <2>4, <2>5, <2>7, <2>10, <3>1 DEF Least, last
    <3> QED BY <1>1, <2>1, <2>4, <2>5, <2>8, <2>10, <3>2 DEF Progress, Least
  <2> QED BY <2>4, <2>9, <2>10
<1> QED BY <1>2, <1>3, <1>4, <1>5, <1>6 DEF ListingNext

LEMMA InitialListing == ListingInit => ListingInvariant
<1> SUFFICES ASSUME ListingInit PROVE ListingInvariant
  OBVIOUS
<1>1. size \in Nat /\ limit \in Nat /\ PageSize \in Nat /\ Len(<<>>) = 0
  BY ListingAssumption DEF ListingInit
<1>2. First(0) = <<>> /\ (1 - 1) * PageSize = 0
  BY <1>1 DEF First
<1> QED BY <1>1, <1>2 DEF ListingInit, ListingInvariant, ListingTypeOK, Progress

\* The collected items are the beginning of the list on every page.
THEOREM ListingInvariance == ListingSpec => []ListingInvariant
<1> QED BY InitialListing, PagePreserves, PTL DEF ListingSpec

\* Only items of the provider are listed, and no more than asked for
\* (tools/source_providers/github.py:102).
THEOREM ListingTypeCorrect == ListingSpec => []ListingTypeOK
<1>1. ListingInvariant => ListingTypeOK
  BY DEF ListingInvariant
<1> QED BY <1>1, ListingInvariance, PTL

\* A listing whose pages have one size, or that continues after a token, is
\* complete (tools/source_providers/azure_devops.py:119-151, github.py:80-150).
THEOREM ListingComplete == ListingSpec => []ListsFirstItems
<1>1. ListingInvariant => ListsFirstItems
  BY DEF ListingInvariant, Progress, ListsFirstItems, FirstItems
<1> QED BY <1>1, ListingInvariance, PTL

-----------------------------------------------------------------------------
(* Both together: PagedListing. *)

\* Between two pages the last request has left nothing behind; a listing changes
\* nothing at the provider.
PagedInvariant ==
  /\ IF outcome = "idle"
     THEN /\ call = Read /\ at = 1 /\ applied = 0
          /\ attempt \in 0 .. MaxRetries /\ waited \in Nat /\ waited =< attempt * MaxRetryAfter
     ELSE CallInvariant
  /\ listed # "elsewhere" => ListingInvariant /\ call = Read

LEMMA ReadIsNoWrite == Read \in Calls /\ Len(Read) = 1 /\ Read # Write
<1>1. Read[1] = "read" /\ Write[1] = "write"
  BY DEF Read, Write
<1> QED BY <1>1 DEF Calls, GetRepository, Read

LEMMA PagedInitial == PagedInit => PagedInvariant
<1> SUFFICES ASSUME PagedInit PROVE PagedInvariant
  OBVIOUS
<1>1. 0 * MaxRetryAfter = 0 /\ MaxRetries \in Nat /\ MaxRetryAfter \in Nat
  BY ProviderCallAssumption
<1>2. CASE Called
  BY <1>2, InitialCall DEF Called, Init, PagedInvariant
<1>3. CASE Listed
  <2>1. ListingInvariant
    BY <1>3, InitialListing DEF Listed
  <2> QED BY <1>1, <1>3, <2>1 DEF Listed, PagedInvariant
<1> QED BY <1>2, <1>3 DEF PagedInit

LEMMA PagedStep ==
  ASSUME PagedInvariant, [PagedNext]_pagedVars PROVE PagedInvariant'
<1>1. 0 * MaxRetryAfter = 0 /\ MaxRetries \in Nat /\ MaxRetryAfter \in Nat
  BY ProviderCallAssumption
<1>2. UNCHANGED vars => (CallInvariant => CallInvariant')
  BY NextPreserves
<1>3. UNCHANGED listingVars => (ListingInvariant => ListingInvariant')
  BY PagePreserves
<1>4. CASE UNCHANGED pagedVars
  BY <1>2, <1>3, <1>4 DEF pagedVars, vars, listingVars, PagedInvariant
<1>5. CASE AskPage
  <2>1. CallInvariant'
    BY <1>1, <1>5, ReadIsNoWrite
    DEF AskPage, PagedInvariant, CallInvariant, TypeOK, MutatesAtMostOnce, WaitsAreBounded, Outcome
  <2> QED BY <1>3, <1>5, <2>1 DEF AskPage, listingVars, PagedInvariant
<1>6. CASE Request
  <2>1. CallInvariant /\ CallInvariant' /\ call' = call /\ outcome # "idle" /\ outcome' # "idle"
    <3>1. outcome = "pending" /\ call' = call
      BY <1>6
      DEF Request, Next, Answered, InvalidJson, RateLimited, HttpError, TransportError, Fails
    <3>2. CallInvariant
      BY <3>1 DEF PagedInvariant
    <3>3. CallInvariant'
      BY <1>6, <3>2, NextPreserves DEF Request
    <3> QED BY <3>1, <3>2, <3>3 DEF CallInvariant, TypeOK, Outcome
  <2> QED BY <1>3, <1>6, <2>1 DEF Request, listingVars, PagedInvariant
<1>7. CASE TakePage
  <2>1. listed = "pending" /\ listed' # "elsewhere"
    BY <1>7 DEF TakePage, GitHubPage, AzurePage, Received
  <2>2. ListingInvariant'
    BY <1>7, <2>1, PagePreserves DEF TakePage, ListingNext, PagedInvariant
  <2>3. CallInvariant /\ call = Read
    BY <1>7, <2>1 DEF TakePage, PagedInvariant
  <2>4. /\ at = 1 /\ applied = 0 /\ attempt \in 0 .. MaxRetries /\ waited \in Nat
        /\ waited =< attempt * MaxRetryAfter
    BY <1>7, <2>3, ReadIsNoWrite
    DEF TakePage, CallInvariant, TypeOK, MutatesAtMostOnce, WaitsAreBounded
  <2> QED BY <1>7, <2>2, <2>3, <2>4 DEF TakePage, PagedInvariant
<1>8. CASE GiveUp \/ Return
  <2>1. listed = "pending" /\ UNCHANGED vars /\ (RequestFails \/ EnoughItems)
    BY <1>8 DEF GiveUp, Return, RequestFails, EnoughItems
  <2>2. ListingInvariant'
    BY <2>1, PagePreserves DEF ListingNext, PagedInvariant
  <2> QED BY <1>2, <2>1, <2>2 DEF vars, PagedInvariant
<1> QED BY <1>4, <1>5, <1>6, <1>7, <1>8 DEF PagedNext

THEOREM PagedInvariance == PagedSpec => []PagedInvariant
<1> QED BY PagedInitial, PagedStep, PTL DEF PagedSpec

\* No method mutates its provider twice, and one that reports the rate limit has
\* not at all (tools/source_providers/base.py:141-161).
THEOREM MethodsMutateAtMostOnce == PagedSpec => []MutatesAtMostOnce
<1>1. PagedInvariant => MutatesAtMostOnce
  BY ReadIsNoWrite DEF PagedInvariant, CallInvariant, MutatesAtMostOnce
<1> QED BY <1>1, PagedInvariance, PTL

\* Every request of a method, also one of many pages, waits a bounded time
\* (tools/source_providers/base.py:101-111).
THEOREM MethodsWaitBounded == PagedSpec => []WaitsAreBounded
<1>1. PagedInvariant => WaitsAreBounded
  BY DEF PagedInvariant, CallInvariant, WaitsAreBounded
<1> QED BY <1>1, PagedInvariance, PTL

\* Retries leave a listing complete, if its pages have one size or it continues
\* after a token (tools/source_providers/azure_devops.py:119-151, github.py:80-150).
THEOREM RetriedListingsComplete == PagedSpec => []ListsFirstItems
<1>1. PagedInvariant => ListsFirstItems
  BY DEF PagedInvariant, ListingInvariant, Progress, ListsFirstItems, FirstItems
<1> QED BY <1>1, PagedInvariance, PTL
=============================================================================
