------------------------------ MODULE PagedListing ------------------------------
(***************************************************************************)
(* The methods of the source providers: a call of ProviderCall, or a listing *)
(* (Listing) each page of which is a request of ProviderCall, with its own   *)
(* retries.  A page that fails in the end fails the whole listing.           *)
(***************************************************************************)
EXTENDS ProviderCall, Listing

pagedVars == <<vars, listingVars>>

\* One method is called; if it is a listing, nothing has been asked yet.
Called ==
  /\ Init
  /\ provider = CHOOSE p \in Providers : TRUE
  /\ size = 0 /\ limit = 0 /\ page = 1 /\ continuation = 0
  /\ items = <<>> /\ listed = "elsewhere"
Listed ==
  /\ ListingInit
  /\ call = Read /\ at = 1 /\ attempt = 0 /\ waited = 0 /\ applied = 0
  /\ outcome = "idle"

PagedInit == Called \/ Listed

\* The loop asks for another page.
AskPage ==
  /\ listed = "pending" /\ Len(items) < limit /\ outcome = "idle"
  /\ outcome' = "pending" /\ attempt' = 0 /\ waited' = 0
  /\ UNCHANGED <<call, at, applied, listingVars>>

Request == Next /\ UNCHANGED listingVars

\* The page has come, also after retries, or has not.
TakePage ==
  /\ outcome = "returned"
  /\ GitHubPage \/ \E n \in 1 .. PageSize : AzurePage(n)
  /\ outcome' = "idle"
  /\ UNCHANGED <<call, at, attempt, waited, applied>>

GiveUp ==
  /\ outcome \notin {"idle", "pending", "returned"}
  /\ RequestFails
  /\ UNCHANGED vars

Return == outcome = "idle" /\ EnoughItems /\ UNCHANGED vars

PagedNext == AskPage \/ Request \/ TakePage \/ GiveUp \/ Return

PagedSpec == PagedInit /\ [][PagedNext]_pagedVars
=============================================================================
