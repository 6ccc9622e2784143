--------------------------------- MODULE Listing ---------------------------------
(***************************************************************************)
(* The paginated listings of the source providers: list_branches and         *)
(* search_issues of GitHub, which ask for a page by its number and size, and *)
(* list_branches of Azure DevOps, which continues after a token.  The items  *)
(* are 1 .. size, in the order of the provider.  A request is answered, or   *)
(* the whole listing fails.                                                 *)
(*                                                                         *)
(* As in Supervisor, an unused definition directly before another with the  *)
(* same parameters is a mutation of it.                                     *)
(***************************************************************************)
EXTENDS Integers, Sequences

CONSTANTS
  Providers,  \* the providers to consider
  PageSize,   \* _page_size
  Sizes,      \* how many items the provider may have
  Limits      \* how many items the caller may ask for

ASSUME ListingAssumption ==
  /\ Providers \subseteq {"github", "azure"}
  /\ PageSize \in Nat \ {0} /\ Sizes \subseteq Nat /\ Limits \subseteq Nat

VARIABLES
  provider, size, limit,
  page,          \* GitHub: number of the next page
  continuation,  \* Azure: the item that the token stands for
  items,         \* what was collected
  listed

listingVars == <<provider, size, limit, page, continuation, items, listed>>

ListingInit ==
  /\ provider \in Providers /\ size \in Sizes /\ limit \in Limits
  /\ page = 1 /\ continuation = 0
  /\ items = <<>>
  /\ listed = "pending"

Least(a, b) == IF a < b THEN a ELSE b

\* The items first .. last of the provider, as far as it has them.
Answer(first, last) == [i \in 1 .. Least(last, size) - first + 1 |-> first + i - 1]

\* Results beyond the limit are dropped.
Collected(results) == SubSeq(items \o results, 1, Least(limit, Len(items) + Len(results)))

\* The size of the page asked for.
PerPage == Least(PageSize, limit - Len(items))

Finish(kind) ==
  /\ listed' = kind
  /\ UNCHANGED <<provider, size, limit, page, continuation, items>>

EnoughItems == listed = "pending" /\ Len(items) >= limit /\ Finish("returned")

RequestFails == listed = "pending" /\ Len(items) < limit /\ Finish("failed")

\* A page has come; the listing goes on while there are results and more to come.
Received(results, more) ==
  /\ listed = "pending" /\ Len(items) < limit
  /\ items' = Collected(results)
  /\ listed' = IF results = <<>> \/ ~more THEN "returned" ELSE "pending"
  /\ UNCHANGED <<provider, size, limit>>

\* GitHub answers with the page of that number among pages of that size.
GitHubPage ==
  /\ provider = "github"
  /\ Received(Answer((page - 1) * PerPage + 1, page * PerPage), page * PerPage < size)
  /\ page' = page + 1
  /\ UNCHANGED continuation

\* Azure answers with some of the items that follow the token, up to a page of
\* its own, and with a token while there are more.
AfterAsked(results) == continuation + PerPage
NextToken(results) == continuation + Len(results)

AzurePage(n) ==
  /\ provider = "azure"
  /\ LET results == Answer(continuation + 1, continuation + n) IN
     /\ Received(results, continuation + Len(results) < size)
     /\ continuation' = NextToken(results)
  /\ UNCHANGED page

ListingNext == EnoughItems \/ RequestFails \/ GitHubPage \/ \E n \in 1 .. PageSize : AzurePage(n)

ListingSpec == ListingInit /\ [][ListingNext]_listingVars

-----------------------------------------------------------------------------
\* Every variable keeps its type; no more is listed than was asked for.
ListingTypeOK ==
  /\ provider \in Providers /\ size \in Sizes /\ limit \in Limits
  /\ page \in Nat \ {0} /\ continuation \in Nat
  /\ items \in Seq(1 .. size) /\ Len(items) =< limit
  /\ listed \in {"pending", "returned", "failed"}

\* The first items of the provider, in order, each once.
First(n) == [i \in 1 .. n |-> i]
FirstItems == First(Least(limit, size))

\* Pages have one size: there is but one page, or each is of the full size.
WholePages == limit =< PageSize \/ \E q \in 0 .. limit : limit = q * PageSize

\* What is returned is complete: nothing is skipped or listed twice over any
\* number of pages of any sizes.  For GitHub this needs pages of one size,
\* because the size of a page decides where it begins
\* (tools/source_providers/azure_devops.py:119-151 and github.py:80-102 and 123-150).
ListsFirstItems ==
  listed = "returned" /\ (provider = "azure" \/ WholePages) => items = FirstItems

\* Why it holds: what was collected is the beginning of the list, and the next
\* request continues it, unless the limit is reached.
Progress ==
  provider = "azure" \/ WholePages =>
    /\ items = First(Len(items)) /\ Len(items) =< size
    /\ listed = "pending" /\ Len(items) < limit =>
         IF provider = "azure" THEN continuation = Len(items)
         ELSE Len(items) = (page - 1) * PageSize
    /\ listed = "returned" => Len(items) = Least(limit, size)
=============================================================================
