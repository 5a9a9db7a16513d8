-------------------------- MODULE ProviderServices --------------------------
(***************************************************************************)
(* The provider control plane                                              *)
(* (python/synapse_client/_auth_provider_control.py, provider.py and       *)
(* examples/provider_staging_onboarding.py): programs of one owner publish *)
(* services under a service id that is made from the name unless they      *)
(* choose one, patch and delete them by record id, and read back their     *)
(* status by service id from the whole list.  A registration carries no    *)
(* idempotency key.  The SDK keeps nothing; records is the gateway's       *)
(* (external), which refuses a service id in use.                          *)
(***************************************************************************)
EXTENDS ServiceTerms, FiniteSets

CONSTANTS
    Programs,       \* programs of one owner
    Names,          \* service names
    Ids, Blank,     \* service ids; the id that nothing is left of
    Slug,           \* Slug[n]: what _default_service_id keeps of the name n
    Offers,         \* the options that programs register with
    Patches,        \* price models that they patch services to
    Faults,         \* what can go wrong with a request: "lost", "late", "unreadable"
    MaxRecords,     \* bound: registrations that the gateway takes
    MaxDraws,       \* bound: ids that uuid4 makes
    MaxLate         \* bound: requests on their way without a caller

ASSUME ProviderServicesAssumption ==
    /\ Slug \in [Names -> Ids \cup {Blank}]
    /\ Blank \notin Ids /\ Ids \cap Nat = {} /\ Blank \notin Nat /\ None \notin Names \cup Ids
    /\ Offers \subseteq Options /\ Patches \subseteq Models
    /\ Faults \subseteq {"lost", "late", "unreadable"}
    /\ MaxRecords \in Nat /\ MaxDraws \in Nat /\ MaxLate \in Nat

Records == 1..MaxRecords
Draws == 1..MaxDraws

VARIABLES
    stage,      \* "idle", "waiting", or how far an onboarding run has come; it
                \* ends "done" (exit 0), "unseen" (no such service) or "idle"
    request,    \* the request that each program waits for
    mine,       \* the record that the run of each program registered, 0 before
    shown,      \* the record whose status the run of each program saw, 0 before
    drawn,      \* ids made so far
    gone,       \* ids whose service was deleted for all that the owner can know
    records,    \* external: the gateway's records
    late        \* external: requests given up on that may yet be handled

programVars == <<stage, request, mine, shown>>
vars == <<programVars, drawn, gone, records, late>>

NoRequest == [op |-> "none"]
Unused == [state |-> "unused"]

Live(r) == records[r].state = "live"
LiveUnder(id) == {r \in Records : Live(r) /\ records[r].id = id}

-----------------------------------------------------------------------------
\* Mutant: every id is made unique.
ServiceIdUnique(chosen, name) == drawn + 1

\* Mutant: a name of which nothing is left gives the empty id.
ServiceIdSlug(chosen, name) == IF chosen # Blank THEN chosen ELSE Slug[name]

\* _provider_service_values: a drawn id is a number.
ServiceId(chosen, name) ==
    CASE chosen # Blank -> chosen
      [] chosen = Blank /\ Slug[name] # Blank -> Slug[name]
      [] OTHER -> drawn + 1

\* The gateway (external).
Patched(record, model) == [record EXCEPT !.terms = [@ EXCEPT !.model = model], !.patched = TRUE]

Handle(q, r) ==
    CASE q.op = "register" ->
            /\ records[r] = Unused /\ \A s \in 1..(r - 1) : records[s] # Unused
            /\ LiveUnder(q.id) = {}
            /\ records' = [records EXCEPT ![r] =
                 [state |-> "live", id |-> q.id, name |-> q.name, chosen |-> q.chosen,
                  offer |-> q.offer, terms |-> TermsOf(q.offer), patched |-> FALSE]]
      [] q.op = "update" ->
            /\ r = q.rid /\ Live(r)
            /\ records' = [records EXCEPT ![r] = Patched(@, q.model)]
      [] q.op = "delete" ->
            /\ r = q.rid /\ Live(r)
            /\ records' = [records EXCEPT ![r].state = "deleted"]
      [] OTHER -> q.op \in {"secret", "list"} /\ r = 1 /\ UNCHANGED records

LateArrival(q) ==
    /\ late' = late \ {q}
    /\ (\E r \in Records : Handle(q, r)) \/ UNCHANGED records
    /\ UNCHANGED <<programVars, drawn, gone>>

-----------------------------------------------------------------------------
Send(p, q) == request' = [request EXCEPT ![p] = q]
Go(p, s) == stage' = [stage EXCEPT ![p] = s]

\* A program that is between two things to do takes up the next.
Begin(p) ==
    /\ stage[p] \in {"idle", "done", "unseen"}
    /\ mine' = [mine EXCEPT ![p] = 0]
    /\ shown' = [shown EXCEPT ![p] = 0]

\* A blank name, endpoint or description and a missing price raise ValueError
\* before anything is sent.
Registration(p, chosen, name, offer) ==
    /\ Priced(offer)
    /\ LET id == ServiceId(chosen, name)
       IN /\ id = drawn + 1 => drawn < MaxDraws
          /\ drawn' = IF id = drawn + 1 THEN id ELSE drawn
          /\ gone' = gone \ {id}
          /\ Send(p, [op |-> "register", id |-> id, name |-> name,
                      chosen |-> chosen # Blank, offer |-> offer])

Register(p) ==
    /\ Begin(p)
    /\ \E chosen \in Ids \cup {Blank}, name \in Names, offer \in Offers :
         Registration(p, chosen, name, offer)
    /\ Go(p, "waiting")
    /\ UNCHANGED <<records, late>>

\* delete_provider_service and update_provider_service, which sends any patch
\* as it is: here one of the price model alone, that leaves the pricing.
Manage(p) ==
    /\ Begin(p)
    /\ \E rid \in Records :
         /\ records[rid] # Unused
         /\ \/ Send(p, [op |-> "delete", rid |-> rid])
            \/ \E model \in Patches : Send(p, [op |-> "update", rid |-> rid, model |-> model])
    /\ Go(p, "waiting")
    /\ UNCHANGED <<drawn, gone, records, late>>

\* main() of the onboarding script: a secret, the registration, the status.
Onboard(p) ==
    /\ Begin(p)
    /\ Send(p, [op |-> "secret"])
    /\ Go(p, "secret")
    /\ UNCHANGED <<drawn, gone, records, late>>

\* The secret is there; the script names no service id.
Publish(p) ==
    /\ stage[p] = "secret" /\ request[p] = NoRequest
    /\ \E name \in Names, offer \in Offers : Registration(p, Blank, name, offer)
    /\ Go(p, "register")
    /\ UNCHANGED <<mine, shown, records, late>>

CheckPublished(p) ==
    /\ stage[p] = "register" /\ request[p] = NoRequest
    /\ Send(p, [op |-> "list", id |-> records[mine[p]].id])
    /\ Go(p, "status")
    /\ UNCHANGED <<mine, shown, drawn, gone, records, late>>

\* Mutant: the first service of the list.
FoundFirst(id) == {r \in Records : Live(r) /\ \A s \in 1..(r - 1) : ~Live(s)}

\* get_provider_service, on the list as it is when the gateway answers.
Found(id) == LiveUnder(id)

\* A run goes on after the secret and the registration, and ends with the status.
After(p, rids) ==
    CASE stage[p] \in {"secret", "register"} -> stage[p]
      [] stage[p] = "status" -> IF rids = {} THEN "unseen" ELSE "done"
      [] OTHER -> "idle"

RegistrationUnderWay(p, id) ==
    \/ \E d \in Programs \ {p} : request[d].op = "register" /\ request[d].id = id
    \/ \E q \in late : q.op = "register" /\ q.id = id

Deleted(p) ==
    gone' = IF request[p].op # "delete" \/ RegistrationUnderWay(p, records[request[p].rid].id) THEN gone
            ELSE gone \cup {records[request[p].rid].id}

Answered(p) ==
    /\ request[p] # NoRequest
    /\ Send(p, NoRequest)
    /\ \E r \in Records :
         /\ Handle(request[p], r)
         /\ mine' = IF stage[p] = "register" THEN [mine EXCEPT ![p] = r] ELSE mine
    /\ LET rids == IF request[p].op = "list" THEN Found(request[p].id) ELSE {}
       IN /\ Go(p, After(p, rids))
          /\ IF rids = {} THEN UNCHANGED shown
             ELSE \E r \in rids : shown' = [shown EXCEPT ![p] = r]
    /\ Deleted(p)
    /\ UNCHANGED <<drawn, late>>

\* A 2xx body that is not an object: an issue raises, a registration has the
\* service id "" (and its status lookup raises ValueError), a list is empty.
Unreadable(p) ==
    /\ request[p] # NoRequest /\ "unreadable" \in Faults
    /\ Send(p, NoRequest) /\ Go(p, "idle")
    /\ \E r \in Records : Handle(request[p], r)
    /\ Deleted(p)
    /\ UNCHANGED <<mine, shown, drawn, late>>

\* Mutant: an HTTP error is taken for an empty answer.
FailsSilently(p) ==
    /\ request[p] # NoRequest
    /\ Send(p, NoRequest) /\ Go(p, "idle")
    /\ Deleted(p)
    /\ UNCHANGED <<mine, shown, drawn, records, late>>

\* An HTTP error, a timeout or a broken connection: not handled, handled with
\* the answer lost, or on its way.
Fails(p) ==
    /\ request[p] # NoRequest
    /\ Send(p, NoRequest) /\ Go(p, "idle")
    /\ \/ UNCHANGED <<records, late>>
       \/ "lost" \in Faults /\ UNCHANGED late /\ \E r \in Records : Handle(request[p], r)
       \/ /\ "late" \in Faults /\ Cardinality(late) < MaxLate
          /\ request[p].op \notin {"secret", "list"}
          /\ late' = late \cup {request[p]} /\ UNCHANGED records
    /\ UNCHANGED <<mine, shown, drawn, gone>>

Init ==
    /\ stage = [p \in Programs |-> "idle"]
    /\ request = [p \in Programs |-> NoRequest]
    /\ mine = [p \in Programs |-> 0]
    /\ shown = [p \in Programs |-> 0]
    /\ drawn = 0
    /\ gone = {}
    /\ records = [r \in Records |-> Unused]
    /\ late = {}

Next ==
    \/ \E p \in Programs :
         \/ Register(p) \/ Manage(p)
         \/ Onboard(p) \/ Publish(p) \/ CheckPublished(p)
         \/ Answered(p) \/ Unreadable(p) \/ Fails(p)
    \/ \E q \in late : LateArrival(q)

Spec == Init /\ [][Next]_vars
-----------------------------------------------------------------------------
ServiceIds == Ids \cup Draws

Request ==
    {NoRequest} \cup [op : {"secret"}] \cup [op : {"list"}, id : ServiceIds]
    \cup [op : {"register"}, id : ServiceIds, name : Names, chosen : BOOLEAN, offer : Options]
    \cup [op : {"delete"}, rid : Records] \cup [op : {"update"}, rid : Records, model : Models]

Record == [state : {"live", "deleted"}, id : ServiceIds, name : Names, chosen : BOOLEAN,
           offer : Options, terms : Terms, patched : BOOLEAN]

\* Shape of the state.
TypeOK ==
    /\ stage \in [Programs -> {"idle", "waiting", "secret", "register", "status", "done", "unseen"}]
    /\ request \in [Programs -> Request]
    /\ mine \in [Programs -> Records \cup {0}]
    /\ shown \in [Programs -> Records \cup {0}]
    /\ drawn \in 0..MaxDraws
    /\ gone \subseteq ServiceIds
    /\ records \in [Records -> Record \cup {Unused}]
    /\ late \subseteq Request

\* A service registered again and again by its name, because answers were lost
\* or programs raced, is published once: the id is made from the name.  (A name
\* without a letter or digit gets another id with every try.)
NamesPublishedOnce ==
    \A r, s \in Records :
        /\ Live(r) /\ Live(s)
        /\ records[r].name = records[s].name
        /\ ~records[r].chosen /\ ~records[s].chosen
        /\ Slug[records[r].name] # Blank
        => r = s

\* Consumers who look for a free fixed-price service find only those whose
\* provider asked for zero, whichever of kind and price model it left out;
\* a patch of the price model alone can make any service look free.
FreeMeansAskedFree ==
    \A r \in Records :
        /\ Live(r) /\ ~records[r].patched
        /\ records[r].terms.model = "fixed" /\ PriceUsdc(records[r].terms) = 0
        => records[r].offer.base = 0

\* An onboarding run that completes has seen the status of the service that it
\* registered, and one that ends with "Provider service not found" on a readable
\* list has lost it: unless somebody deleted that service since.
OnboardingSeesItsService ==
    \A p \in Programs :
        stage[p] \in {"done", "unseen"} =>
            \/ records[mine[p]].state = "deleted"
            \/ stage[p] = "done" /\ shown[p] = mine[p]

\* A service whose deletion returned is not found again by anyone until it is
\* registered anew; no registration of it may be under way at that moment.
DeletedStaysGone == \A id \in gone : LiveUnder(id) = {}
=============================================================================
