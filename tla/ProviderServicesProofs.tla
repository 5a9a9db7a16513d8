----------------------- MODULE ProviderServicesProofs -----------------------
(***************************************************************************)
(* Proofs about ProviderServices, for any number of programs, names,       *)
(* records and requests.  The invariant says what a registration under way *)
(* carries (RequestsOK), that live services have ids and terms of their    *)
(* own (RecordsOK), what a deletion has excluded (GoneOK), and what a run  *)
(* knows of its service (PlaceOK).                                         *)
(***************************************************************************)
EXTENDS ProviderServices, TLAPS

Stages == {"idle", "waiting", "secret", "register", "status", "done", "unseen"}

\* The id is made from the name, if it can be and none was chosen.
NamedAfter(c) == ~c.chosen /\ Slug[c.name] # Blank => c.id = Slug[c.name]

RequestOK(q) == q.op = "register" => Priced(q.offer) /\ NamedAfter(q)

RequestsOK ==
    /\ \A p \in Programs : RequestOK(request[p])
    /\ \A q \in late : RequestOK(q)

RecordOK(r) ==
    Live(r) =>
        /\ NamedAfter(records[r]) /\ Priced(records[r].offer)
        /\ records[r].patched \/ records[r].terms = TermsOf(records[r].offer)

UniqueIds == \A r, s \in Records : Live(r) /\ Live(s) /\ records[r].id = records[s].id => r = s

RecordsOK == UniqueIds /\ \A r \in Records : RecordOK(r)

Registers(q, id) == q.op = "register" /\ q.id = id

GoneOK ==
    \A id \in gone :
        /\ \A r \in Records : ~(Live(r) /\ records[r].id = id)
        /\ \A p \in Programs : ~Registers(request[p], id)
        /\ \A q \in late : ~Registers(q, id)

Made(r) == r \in Records /\ records[r] # Unused

PlaceOK(p) ==
    /\ stage[p] = "register" =>
         IF request[p] = NoRequest THEN Made(mine[p]) ELSE request[p].op = "register"
    /\ stage[p] = "status" =>
         Made(mine[p]) /\ request[p].op = "list" /\ request[p].id = records[mine[p]].id
    /\ stage[p] \in {"done", "unseen"} =>
         /\ Made(mine[p])
         /\ \/ records[mine[p]].state = "deleted"
            \/ stage[p] = "done" /\ shown[p] = mine[p]

ProviderInv == TypeOK /\ RequestsOK /\ RecordsOK /\ GoneOK /\ \A p \in Programs : PlaceOK(p)

-----------------------------------------------------------------------------
\* What a handled request does to a record.
Registered(q, r) ==
    /\ q.op = "register" /\ records[r] = Unused
    /\ \A s \in Records : ~(Live(s) /\ records[s].id = q.id)
    /\ records'[r].state = "live" /\ records'[r].id = q.id /\ records'[r].name = q.name
    /\ records'[r].chosen = q.chosen /\ records'[r].offer = q.offer /\ records'[r].terms = TermsOf(q.offer)
    /\ ~records'[r].patched

Updated(q, r) ==
    /\ q.op = "update" /\ Live(r)
    /\ records'[r].state = "live" /\ records'[r].id = records[r].id /\ records'[r].name = records[r].name
    /\ records'[r].chosen = records[r].chosen /\ records'[r].offer = records[r].offer
    /\ records'[r].patched

Removed(q, r) ==
    /\ q.op = "delete" /\ r = q.rid /\ Live(r)
    /\ records'[r].state = "deleted" /\ records'[r].id = records[r].id

Effect(q, r) ==
    /\ records' \in [Records -> Record \cup {Unused}]
    /\ records'[r] \in Record
    /\ \A s \in Records \ {r} : records'[s] = records[s]
    /\ Registered(q, r) \/ Updated(q, r) \/ Removed(q, r)

\* The parts of a request, by its operation.
LEMMA RequestParts ==
    ASSUME NEW q \in Request
    PROVE  /\ q.op = "register" => /\ q.id \in ServiceIds /\ q.name \in Names
                                   /\ q.chosen \in BOOLEAN /\ q.offer \in Options
           /\ q.op = "update" => q.rid \in Records /\ q.model \in Models
           /\ q.op = "delete" => q.rid \in Records
           /\ q.op = "list" => q.id \in ServiceIds
           /\ q = NoRequest <=> q.op = "none"
BY DEF Request, NoRequest

LEMMA TermsType ==
    ASSUME NEW o \in Options
    PROVE  TermsOf(o) \in Terms
<1>1. /\ o.kind \in Kinds /\ o.model \in Models \cup {None}
      /\ o.base \in Asked \cup {None} /\ o.input \in Asked \cup {None}
  BY DEF Options
<1>2. PriceModel(o) \in Models
  BY <1>1 DEF PriceModel, Models
<1> QED
  BY <1>1, <1>2 DEF TermsOf, Terms

\* The summary of Handle.
LEMMA HandleEffect ==
    ASSUME records \in [Records -> Record \cup {Unused}], NEW q \in Request, NEW r \in Records, Handle(q, r)
    PROVE  \/ Effect(q, r)
           \/ records' = records /\ q.op \notin {"register", "update", "delete"}
<1>1. CASE q.op = "register"
  <2> DEFINE c == [state |-> "live", id |-> q.id, name |-> q.name, chosen |-> q.chosen,
                   offer |-> q.offer, terms |-> TermsOf(q.offer), patched |-> FALSE]
  <2>1. records[r] = Unused /\ LiveUnder(q.id) = {} /\ records' = [records EXCEPT ![r] = c]
    BY <1>1 DEF Handle
  <2>2. PICK t \in Terms : t = TermsOf(q.offer)
    BY <1>1, RequestParts, TermsType
  <2>3. c \in Record
    BY <1>1, <2>2, RequestParts DEF Record
  <2>4. records'[r] = c /\ \A s \in Records \ {r} : records'[s] = records[s]
    BY <2>1
  <2>5. records' \in [Records -> Record \cup {Unused}]
    BY <2>1, <2>3
  <2>6. \A s \in Records : ~(Live(s) /\ records[s].id = q.id)
    BY <2>1 DEF LiveUnder
  <2>7. /\ c.state = "live" /\ c.id = q.id /\ c.name = q.name /\ c.chosen = q.chosen
        /\ c.offer = q.offer /\ c.terms = TermsOf(q.offer) /\ ~c.patched
    OBVIOUS
  <2> HIDE DEF c
  <2>8. Registered(q, r)
    BY ONLY <1>1, <2>1, <2>4, <2>6, <2>7 DEF Registered
  <2> QED
    BY ONLY <2>3, <2>4, <2>5, <2>8 DEF Effect
<1>2. CASE q.op = "update"
  <2>1. Live(r) /\ records' = [records EXCEPT ![r] = Patched(@, q.model)]
    BY <1>2 DEF Handle
  <2>2. records[r] \in Record
    BY <2>1 DEF Live, Unused
  <2>3. records[r].terms \in Terms /\ q.model \in Models
    BY <1>2, <2>2, RequestParts DEF Record
  <2>4. PICK t \in Terms : t = [records[r].terms EXCEPT !.model = q.model]
    BY <2>3 DEF Terms
  <2> DEFINE c == Patched(records[r], q.model)
  <2>5. c = [records[r] EXCEPT !.terms = t, !.patched = TRUE]
    BY <2>4 DEF Patched
  <2>6. records' = [records EXCEPT ![r] = c]
    BY <2>1
  <2> HIDE DEF c
  <2>7. /\ c \in Record /\ c.state = records[r].state /\ c.id = records[r].id /\ c.name = records[r].name
        /\ c.chosen = records[r].chosen /\ c.offer = records[r].offer /\ c.patched
    BY <2>2, <2>5 DEF Record
  <2>8. records'[r] = c /\ \A s \in Records \ {r} : records'[s] = records[s]
    BY <2>6
  <2>9. records' \in [Records -> Record \cup {Unused}]
    BY <2>6, <2>7
  <2>10. Updated(q, r)
    BY ONLY <1>2, <2>1, <2>7, <2>8 DEF Updated, Live
  <2> QED
    BY ONLY <2>7, <2>8, <2>9, <2>10 DEF Effect
<1>3. CASE q.op = "delete"
  <2>1. r = q.rid /\ Live(r) /\ records' = [records EXCEPT ![r].state = "deleted"]
    BY <1>3 DEF Handle
  <2>2. records[r] \in Record
    BY <2>1 DEF Live, Unused
  <2> DEFINE c == [records[r] EXCEPT !.state = "deleted"]
  <2>3. c \in Record /\ c.state = "deleted" /\ c.id = records[r].id
    BY <2>2 DEF Record
  <2>4. records' = [records EXCEPT ![r] = c]
    BY <2>1
  <2> HIDE DEF c
  <2>5. records'[r] = c /\ \A s \in Records \ {r} : records'[s] = records[s]
    BY <2>4
  <2>6. records' \in [Records -> Record \cup {Unused}]
    BY <2>3, <2>4
  <2>7. Removed(q, r)
    BY ONLY <1>3, <2>1, <2>3, <2>5 DEF Removed
  <2> QED
    BY ONLY <2>3, <2>5, <2>6, <2>7 DEF Effect
<1>4. CASE q.op \notin {"register", "update", "delete"}
  BY <1>4 DEF Handle
<1> QED
  BY <1>1, <1>2, <1>3, <1>4

-----------------------------------------------------------------------------
\* The id of a registration is a service id, fits the name, and is drawn only
\* while there are ids to draw.
LEMMA RegistrationSends ==
    ASSUME ProviderServicesAssumption, drawn \in 0..MaxDraws, gone \subseteq ServiceIds,
           NEW p \in Programs, NEW chosen \in Ids \cup {Blank}, NEW name \in Names, NEW offer \in Offers,
           Registration(p, chosen, name, offer)
    PROVE  \E q \in Request :
             /\ q.op = "register" /\ RequestOK(q) /\ Send(p, q)
             /\ drawn' \in 0..MaxDraws /\ gone' \subseteq gone /\ q.id \notin gone'
<1>1. PICK id : id = ServiceId(chosen, name)
  OBVIOUS
<1>2. /\ Priced(offer)
      /\ id = drawn + 1 => drawn < MaxDraws
      /\ drawn' = IF id = drawn + 1 THEN id ELSE drawn
      /\ gone' = gone \ {id}
      /\ Send(p, [op |-> "register", id |-> id, name |-> name, chosen |-> chosen # Blank, offer |-> offer])
  BY <1>1 DEF Registration
<1>3. MaxDraws \in Nat /\ Slug[name] \in Ids \cup {Blank}
  BY DEF ProviderServicesAssumption
<1>4. /\ id \in Ids \/ id = drawn + 1
      /\ chosen = Blank /\ Slug[name] # Blank => id = Slug[name]
  BY <1>1, <1>3 DEF ServiceId
<1>5. id \in ServiceIds /\ drawn' \in 0..MaxDraws
  BY <1>2, <1>3, <1>4 DEF ServiceIds, Draws
<1>6. PICK b \in BOOLEAN : b = (chosen # Blank)
  OBVIOUS
<1> DEFINE q == [op |-> "register", id |-> id, name |-> name, chosen |-> b, offer |-> offer]
<1>7. offer \in Options
  BY DEF ProviderServicesAssumption
<1>8. q \in [op : {"register"}, id : ServiceIds, name : Names, chosen : BOOLEAN, offer : Options]
  BY <1>5, <1>7
<1>9. Send(p, q)
  BY <1>2, <1>6
<1>10. /\ q.op = "register" /\ q.offer = offer /\ q.id = id /\ q.name = name
       /\ q.chosen <=> chosen # Blank
  BY <1>6
<1> HIDE DEF q
<1>11. q \in Request
  BY <1>8 DEF Request
<1>12. RequestOK(q)
  BY <1>2, <1>4, <1>10 DEF RequestOK, NamedAfter
<1> QED
  BY <1>2, <1>5, <1>9, <1>10, <1>11, <1>12

\* A program that begins or goes on sends one request, and leaves the records
\* alone.
Sends(p, q, s) ==
    /\ q \in Request \ {NoRequest} /\ RequestOK(q)
    /\ request' = [request EXCEPT ![p] = q] /\ stage' = [stage EXCEPT ![p] = s]
    /\ UNCHANGED <<records, late>>
    /\ drawn' \in 0..MaxDraws /\ gone' \subseteq gone
    /\ q.op = "register" => q.id \notin gone'
    /\ mine' = mine \/ mine' = [mine EXCEPT ![p] = 0]
    /\ shown' = shown \/ shown' = [shown EXCEPT ![p] = 0]
    /\ \/ s \in {"waiting", "secret"}
       \/ s = "register" /\ q.op = "register"
       \/ /\ s = "status" /\ mine' = mine /\ Made(mine[p])
          /\ q.op = "list" /\ q.id = records[mine[p]].id

LEMMA ProgramSends ==
    ASSUME ProviderServicesAssumption, ProviderInv, NEW p \in Programs,
           Register(p) \/ Manage(p) \/ Onboard(p) \/ Publish(p) \/ CheckPublished(p)
    PROVE  \E q, s : Sends(p, q, s)
<1>0. /\ drawn \in 0..MaxDraws /\ gone \subseteq ServiceIds /\ PlaceOK(p)
      /\ records \in [Records -> Record \cup {Unused}] /\ mine \in [Programs -> Records \cup {0}]
  BY DEF ProviderInv, TypeOK
<1>1. CASE Register(p)
  <2>1. PICK chosen \in Ids \cup {Blank}, name \in Names, offer \in Offers : Registration(p, chosen, name, offer)
    BY <1>1 DEF Register
  <2>2. PICK q \in Request :
             /\ q.op = "register" /\ RequestOK(q) /\ Send(p, q)
             /\ drawn' \in 0..MaxDraws /\ gone' \subseteq gone /\ q.id \notin gone'
    BY <1>0, <2>1, RegistrationSends
  <2>3. q # NoRequest
    BY <2>2 DEF NoRequest
  <2>4. Sends(p, q, "waiting")
    BY <1>1, <2>2, <2>3 DEF Sends, Register, Begin, Go, Send
  <2> QED
    BY <2>4
<1>2. CASE Manage(p)
  <2>1. PICK rid \in Records : \/ Send(p, [op |-> "delete", rid |-> rid])
                               \/ \E model \in Patches : Send(p, [op |-> "update", rid |-> rid, model |-> model])
    BY <1>2 DEF Manage
  <2>2. CASE Send(p, [op |-> "delete", rid |-> rid])
    <3> DEFINE q == [op |-> "delete", rid |-> rid]
    <3>1. q \in Request \ {NoRequest} /\ q.op = "delete"
      BY DEF Request, NoRequest
    <3>2. request' = [request EXCEPT ![p] = q]
      BY <2>2 DEF Send
    <3> HIDE DEF q
    <3>3. Sends(p, q, "waiting")
      BY <1>0, <1>2, <3>1, <3>2 DEF Sends, Manage, Begin, Go, RequestOK
    <3> QED
      BY <3>3
  <2>3. ASSUME NEW model \in Patches, Send(p, [op |-> "update", rid |-> rid, model |-> model])
        PROVE  \E q, s : Sends(p, q, s)
    <3> DEFINE q == [op |-> "update", rid |-> rid, model |-> model]
    <3>0. model \in Models
      BY DEF ProviderServicesAssumption
    <3>1. q \in Request \ {NoRequest} /\ q.op = "update"
      BY <3>0 DEF Request, NoRequest
    <3>2. request' = [request EXCEPT ![p] = q]
      BY <2>3 DEF Send
    <3> HIDE DEF q
    <3>3. Sends(p, q, "waiting")
      BY <1>0, <1>2, <3>1, <3>2 DEF Sends, Manage, Begin, Go, RequestOK
    <3> QED
      BY <3>3
  <2> QED
    BY <2>1, <2>2, <2>3
<1>3. CASE Onboard(p)
  <2> DEFINE q == [op |-> "secret"]
  <2>1. q \in Request \ {NoRequest} /\ q.op = "secret"
    BY DEF Request, NoRequest
  <2>2. request' = [request EXCEPT ![p] = q]
    BY <1>3 DEF Onboard, Send
  <2> HIDE DEF q
  <2>3. Sends(p, q, "secret")
    BY <1>0, <1>3, <2>1, <2>2 DEF Sends, Onboard, Begin, Go, RequestOK
  <2> QED
    BY <2>3
<1>4. CASE Publish(p)
  <2>1. PICK name \in Names, offer \in Offers : Registration(p, Blank, name, offer)
    BY <1>4 DEF Publish
  <2>2. PICK q \in Request :
             /\ q.op = "register" /\ RequestOK(q) /\ Send(p, q)
             /\ drawn' \in 0..MaxDraws /\ gone' \subseteq gone /\ q.id \notin gone'
    BY <1>0, <2>1, RegistrationSends
  <2>3. q # NoRequest
    BY <2>2 DEF NoRequest
  <2>4. Sends(p, q, "register")
    BY <1>4, <2>2, <2>3 DEF Sends, Publish, Go, Send
  <2> QED
    BY <2>4
<1>5. CASE CheckPublished(p)
  <2>1. Made(mine[p])
    BY <1>0, <1>5 DEF PlaceOK, CheckPublished
  <2>2. PICK id \in ServiceIds : id = records[mine[p]].id
    BY <1>0, <2>1 DEF Made, Record
  <2> DEFINE q == [op |-> "list", id |-> id]
  <2>3. q \in Request \ {NoRequest} /\ q.op = "list" /\ q.id = id
    BY DEF Request, NoRequest
  <2>4. request' = [request EXCEPT ![p] = q]
    BY <1>5, <2>2 DEF CheckPublished, Send
  <2> HIDE DEF q
  <2>5. Sends(p, q, "status")
    BY <1>0, <1>5, <2>1, <2>2, <2>3, <2>4 DEF Sends, CheckPublished, Go, RequestOK
  <2> QED
    BY <2>5
<1> QED
  BY <1>1, <1>2, <1>3, <1>4, <1>5

LEMMA SendsKeeps ==
    ASSUME ProviderInv, NEW p \in Programs, NEW q, NEW s, Sends(p, q, s)
    PROVE  ProviderInv'
<1>0. /\ stage \in [Programs -> Stages] /\ request \in [Programs -> Request]
      /\ mine \in [Programs -> Records \cup {0}] /\ shown \in [Programs -> Records \cup {0}]
      /\ gone \subseteq ServiceIds /\ records \in [Records -> Record \cup {Unused}] /\ late \subseteq Request
  BY DEF ProviderInv, TypeOK, Stages
<1>1. TypeOK'
  <2>1. s \in Stages
    BY DEF Sends, Stages
  <2>2. stage' \in [Programs -> Stages] /\ request' \in [Programs -> Request]
    BY <1>0, <2>1 DEF Sends
  <2>3. mine' \in [Programs -> Records \cup {0}] /\ shown' \in [Programs -> Records \cup {0}]
    BY <1>0 DEF Sends
  <2> QED
    BY <1>0, <2>2, <2>3 DEF TypeOK, Sends, Stages
<1>2. /\ request'[p] = q /\ stage'[p] = s
      /\ \A o \in Programs \ {p} : /\ request'[o] = request[o] /\ stage'[o] = stage[o]
                                   /\ mine'[o] = mine[o] /\ shown'[o] = shown[o]
  BY <1>0 DEF Sends
<1>3. RequestsOK'
  <2>1. \A o \in Programs : RequestOK(request'[o])
    BY <1>2 DEF ProviderInv, RequestsOK, Sends
  <2> QED
    BY <2>1 DEF ProviderInv, RequestsOK, RequestOK, NamedAfter, Sends
<1>4. RecordsOK'
  BY DEF ProviderInv, RecordsOK, UniqueIds, RecordOK, Live, NamedAfter, Sends
<1>5. GoneOK'
  <2>1. \A id \in gone' : \A o \in Programs : ~Registers(request'[o], id)
    BY <1>2 DEF ProviderInv, GoneOK, Registers, Sends
  <2> QED
    BY <2>1 DEF ProviderInv, GoneOK, Live, Sends, Registers
<1>6. ASSUME NEW o \in Programs
      PROVE  PlaceOK(o)'
  <2>1. \A r : Made(r)' = Made(r)
    BY DEF Made, Sends
  <2>2. CASE o # p
    BY <1>2, <2>1, <2>2 DEF ProviderInv, PlaceOK, Sends
  <2>3. CASE o = p
    BY <1>2, <2>1, <2>3 DEF PlaceOK, Sends
  <2> QED
    BY <2>2, <2>3
<1> QED
  BY <1>1, <1>3, <1>4, <1>5, <1>6 DEF ProviderInv

-----------------------------------------------------------------------------
\* A handled request keeps the ids unique and the terms as asked.
LEMMA EffectKeepsRecords ==
    ASSUME RecordsOK, NEW q \in Request, RequestOK(q), NEW r \in Records, Effect(q, r)
    PROVE  RecordsOK'
<1>0. \A s \in Records \ {r} : records'[s] = records[s]
  BY DEF Effect
<1>1. CASE Registered(q, r)
  <2>1. \A s \in Records \ {r} : Live(s)' => records'[s].id # records'[r].id
    BY <1>0, <1>1 DEF Registered, Live
  <2>2. UniqueIds'
    BY <1>0, <2>1 DEF RecordsOK, UniqueIds, Live
  <2>3. RecordOK(r)'
    BY <1>1 DEF Registered, RequestOK, RecordOK, NamedAfter
  <2>4. \A s \in Records \ {r} : RecordOK(s)'
    BY <1>0 DEF RecordsOK, RecordOK, Live, NamedAfter
  <2> QED
    BY <2>2, <2>3, <2>4 DEF RecordsOK
<1>2. CASE Updated(q, r)
  <2>1. Live(r) /\ records'[r].id = records[r].id
    BY <1>2 DEF Updated
  <2>2. UniqueIds'
    BY <1>0, <2>1 DEF RecordsOK, UniqueIds, Live
  <2>3. RecordOK(r)'
    BY <1>2 DEF RecordsOK, Updated, RecordOK, NamedAfter
  <2>4. \A s \in Records \ {r} : RecordOK(s)'
    BY <1>0 DEF RecordsOK, RecordOK, Live, NamedAfter
  <2> QED
    BY <2>2, <2>3, <2>4 DEF RecordsOK
<1>3. CASE Removed(q, r)
  <2>1. ~Live(r)'
    BY <1>3 DEF Removed, Live
  <2>2. UniqueIds'
    BY <1>0, <2>1 DEF RecordsOK, UniqueIds, Live
  <2>3. RecordOK(r)'
    BY <2>1 DEF RecordOK
  <2>4. \A s \in Records \ {r} : RecordOK(s)'
    BY <1>0 DEF RecordsOK, RecordOK, Live, NamedAfter
  <2> QED
    BY <2>2, <2>3, <2>4 DEF RecordsOK
<1> QED
  BY <1>1, <1>2, <1>3 DEF Effect

\* A record keeps its id, and a deleted one stays deleted.
LEMMA EffectKeepsMade ==
    ASSUME NEW q, NEW r \in Records, Effect(q, r), NEW s, Made(s)
    PROVE  /\ Made(s)' /\ records'[s].id = records[s].id
           /\ records[s].state = "deleted" => records'[s].state = "deleted"
<1>1. CASE s # r
  BY <1>1 DEF Effect, Made
<1>2. CASE s = r
  <2>1. ~Registered(q, r)
    BY <1>2 DEF Registered, Made
  <2>2. records'[r] # Unused
    BY DEF Effect, Record, Unused
  <2> QED
    BY <1>2, <2>1, <2>2 DEF Effect, Updated, Removed, Made, Live
<1> QED
  BY <1>1, <1>2

\* Only a registration brings a service under an id that had none.
LEMMA EffectKeepsGone ==
    ASSUME NEW q, NEW r \in Records, Effect(q, r), NEW id, ~Registers(q, id),
           \A s \in Records : ~(Live(s) /\ records[s].id = id)
    PROVE  \A s \in Records : ~(Live(s) /\ records[s].id = id)'
<1>1. \A s \in Records \ {r} : records'[s] = records[s]
  BY DEF Effect
<1>2. ~(Live(r) /\ records[r].id = id)'
  BY DEF Effect, Registered, Updated, Removed, Registers, Live
<1> QED
  BY <1>1, <1>2 DEF Live

\* What the answer to a request means for the deleted ids.
LEMMA DeletedKeepsGone ==
    ASSUME ProviderInv, NEW p \in Programs, Send(p, NoRequest), late' = late,
           NEW r \in Records, Handle(request[p], r), Deleted(p)
    PROVE  GoneOK' /\ gone' \subseteq ServiceIds
<1> DEFINE q == request[p]
<1>0. /\ request \in [Programs -> Request] /\ gone \subseteq ServiceIds
      /\ records \in [Records -> Record \cup {Unused}]
  BY DEF ProviderInv, TypeOK
<1>1. q \in Request
  BY <1>0
<1>2. \/ Effect(q, r)
      \/ records' = records /\ q.op \notin {"register", "update", "delete"}
  BY <1>0, HandleEffect
<1>3. request'[p] = NoRequest /\ \A o \in Programs \ {p} : request'[o] = request[o]
  BY <1>0 DEF Send
<1>4. \A id : ~Registers(NoRequest, id)
  BY DEF Registers, NoRequest
<1>5. ASSUME NEW id \in gone
      PROVE  /\ \A s \in Records : ~(Live(s) /\ records[s].id = id)'
             /\ \A o \in Programs : ~Registers(request'[o], id)
             /\ \A l \in late' : ~Registers(l, id)
  <2>1. /\ \A s \in Records : ~(Live(s) /\ records[s].id = id)
        /\ \A o \in Programs : ~Registers(request[o], id)
        /\ \A l \in late : ~Registers(l, id)
    BY DEF ProviderInv, GoneOK
  <2>2. \A s \in Records : ~(Live(s) /\ records[s].id = id)'
    <3>1. CASE Effect(q, r)
      BY <2>1, <3>1, EffectKeepsGone
    <3>2. CASE records' = records
      BY <2>1, <3>2 DEF Live
    <3> QED
      BY <1>2, <3>1, <3>2
  <2>3. \A o \in Programs : ~Registers(request'[o], id)
    BY <1>3, <1>4, <2>1
  <2> QED
    BY <2>1, <2>2, <2>3
<1>6. CASE gone' = gone
  BY <1>0, <1>5, <1>6 DEF GoneOK, Registers
<1>7. CASE q.op = "delete" /\ ~RegistrationUnderWay(p, records[q.rid].id) /\ gone' = gone \cup {records[q.rid].id}
  <2>1. Removed(q, r) /\ \A s \in Records \ {r} : records'[s] = records[s]
    BY <1>2, <1>7 DEF Effect, Registered, Updated
  <2>2. PICK id : id = records[r].id
    OBVIOUS
  <2>3. records[q.rid].id = id
    BY <2>1, <2>2 DEF Removed
  <2>4. \A s \in Records : ~(Live(s) /\ records[s].id = id)'
    BY <2>1, <2>2 DEF Removed, ProviderInv, RecordsOK, UniqueIds, Live
  <2>5. /\ \A o \in Programs \ {p} : ~Registers(request[o], id)
        /\ \A l \in late : ~Registers(l, id)
    BY <1>7, <2>3 DEF RegistrationUnderWay, Registers
  <2>6. \A o \in Programs : ~Registers(request'[o], id)
    BY <1>3, <1>4, <2>5
  <2>7. gone' = gone \cup {id}
    BY <1>7, <2>3
  <2>8. id \in ServiceIds
    <3>1. records[r] \in Record
      BY <1>0, <2>1 DEF Removed, Live, Unused
    <3> QED
      BY <2>2, <3>1 DEF Record
  <2>9. GoneOK'
    BY <1>5, <2>4, <2>5, <2>6, <2>7 DEF GoneOK, Registers
  <2> QED
    BY <1>0, <2>7, <2>8, <2>9
<1> QED
  BY <1>6, <1>7 DEF Deleted

\* What any end of a request leaves of the others' places.
LEMMA OthersKeepPlaces ==
    ASSUME ProviderInv, NEW p \in Programs, NEW o \in Programs \ {p},
           stage'[o] = stage[o], request'[o] = request[o], mine'[o] = mine[o], shown'[o] = shown[o],
           records' = records \/ \E q : \E r \in Records : Effect(q, r)
    PROVE  PlaceOK(o)'
<1>0. PlaceOK(o)
  BY DEF ProviderInv
<1>1. \A s : Made(s) => /\ Made(s)' /\ records'[s].id = records[s].id
                        /\ records[s].state = "deleted" => records'[s].state = "deleted"
  <2>1. CASE records' = records
    BY <2>1 DEF Made
  <2>2. CASE \E q : \E r \in Records : Effect(q, r)
    BY <2>2, EffectKeepsMade
  <2> QED
    BY <2>1, <2>2
<1> QED
  BY <1>0, <1>1 DEF PlaceOK

\* The records after an action that handles a request or none.
LEMMA HandleKeepsRecords ==
    ASSUME ProviderInv, NEW q \in Request, RequestOK(q), NEW r \in Records, Handle(q, r)
    PROVE  /\ RecordsOK' /\ records' \in [Records -> Record \cup {Unused}]
           /\ records' = records \/ Effect(q, r)
<1>1. records \in [Records -> Record \cup {Unused}] /\ RecordsOK
  BY DEF ProviderInv, TypeOK
<1>2. CASE Effect(q, r)
  BY <1>1, <1>2, EffectKeepsRecords DEF Effect
<1>3. CASE records' = records
  BY <1>1, <1>3 DEF RecordsOK, UniqueIds, RecordOK, Live, NamedAfter
<1> QED
  BY <1>1, <1>2, <1>3, HandleEffect

LEMMA AnsweredKeeps ==
    ASSUME ProviderServicesAssumption, ProviderInv, NEW p \in Programs, Answered(p)
    PROVE  ProviderInv'
<1> DEFINE q == request[p]
<1> DEFINE rids == IF q.op = "list" THEN Found(q.id) ELSE {}
<1>0. /\ stage \in [Programs -> Stages] /\ request \in [Programs -> Request]
      /\ mine \in [Programs -> Records \cup {0}] /\ shown \in [Programs -> Records \cup {0}]
      /\ drawn \in 0..MaxDraws /\ records \in [Records -> Record \cup {Unused}] /\ late \subseteq Request
  BY DEF ProviderInv, TypeOK, Stages
<1>1. q \in Request /\ q # NoRequest /\ RequestOK(q)
  BY <1>0 DEF Answered, ProviderInv, RequestsOK
<1>2. PICK r \in Records :
         /\ Handle(q, r)
         /\ mine' = IF stage[p] = "register" THEN [mine EXCEPT ![p] = r] ELSE mine
  BY DEF Answered
<1>3. /\ Send(p, NoRequest) /\ Go(p, After(p, rids)) /\ Deleted(p)
      /\ IF rids = {} THEN UNCHANGED shown ELSE \E t \in rids : shown' = [shown EXCEPT ![p] = t]
      /\ UNCHANGED <<drawn, late>>
  BY DEF Answered
<1>4. GoneOK' /\ gone' \subseteq ServiceIds
  BY <1>2, <1>3, DeletedKeepsGone
<1>5. /\ RecordsOK' /\ records' \in [Records -> Record \cup {Unused}]
      /\ records' = records \/ Effect(q, r)
  BY <1>1, <1>2, HandleKeepsRecords
<1>6. rids \subseteq Records
  BY DEF Found, LiveUnder
<1>7. PICK where \in Stages : where = After(p, rids)
  <2>1. After(p, rids) \in Stages
    BY DEF After, Stages
  <2> QED
    BY <2>1
<1>8. /\ stage' = [stage EXCEPT ![p] = where] /\ request' = [request EXCEPT ![p] = NoRequest]
  BY <1>3, <1>7 DEF Go, Send
<1>9. NoRequest \in Request
  BY DEF Request
<1>10. /\ stage' \in [Programs -> Stages] /\ request' \in [Programs -> Request]
       /\ mine' \in [Programs -> Records \cup {0}] /\ shown' \in [Programs -> Records \cup {0}]
  BY <1>0, <1>2, <1>3, <1>6, <1>8, <1>9
<1>11. TypeOK'
  BY <1>0, <1>3, <1>4, <1>5, <1>10 DEF TypeOK, Stages
<1>12. /\ stage'[p] = where /\ request'[p] = NoRequest
       /\ \A o \in Programs \ {p} : /\ request'[o] = request[o] /\ stage'[o] = stage[o]
                                    /\ mine'[o] = mine[o] /\ shown'[o] = shown[o]
  BY <1>0, <1>2, <1>3, <1>8
<1>13. RequestOK(NoRequest)
  BY DEF RequestOK, NoRequest
<1>14. RequestsOK'
  <2>1. \A o \in Programs : RequestOK(request'[o])
    BY <1>12, <1>13 DEF ProviderInv, RequestsOK
  <2> QED
    BY <1>3, <2>1 DEF ProviderInv, RequestsOK, RequestOK, NamedAfter
<1>15. \A o \in Programs \ {p} : PlaceOK(o)'
  BY <1>5, <1>12, OthersKeepPlaces
<1>16. PlaceOK(p)'
  <2>0. PlaceOK(p)
    BY DEF ProviderInv
  <2>1. CASE stage[p] = "register"
    <3>1. q.op = "register" /\ where = "register"
      BY <1>1, <1>7, <2>0, <2>1 DEF PlaceOK, After
    <3>2. records'[r] \in Record
      BY <1>0, <1>1, <1>2, <3>1, HandleEffect DEF Effect
    <3>3. mine'[p] = r
      BY <1>0, <1>2, <2>1
    <3>4. Made(mine[p])'
      BY <3>2, <3>3 DEF Made, Record, Unused
    <3> QED
      BY <1>12, <3>1, <3>4 DEF PlaceOK
  <2>2. CASE stage[p] = "status"
    <3>1. /\ q.op = "list" /\ q.id = records[mine[p]].id /\ Made(mine[p])
      BY <2>0, <2>2 DEF PlaceOK
    <3>2. records' = records /\ mine' = mine
      BY <1>0, <1>1, <1>2, <2>2, <3>1, HandleEffect DEF Effect, Registered, Updated, Removed
    <3>3. rids = {t \in Records : Live(t) /\ records[t].id = q.id}
      BY <3>1 DEF Found, LiveUnder
    <3>4. Live(mine[p]) \/ records[mine[p]].state = "deleted"
      BY <1>0, <3>1 DEF Made, Record, Live
    <3>5. where = IF rids = {} THEN "unseen" ELSE "done"
      BY <1>7, <2>2 DEF After
    <3>6. CASE rids = {}
      <4>1. records[mine[p]].state = "deleted"
        BY <3>1, <3>3, <3>4, <3>6 DEF Made
      <4> QED
        BY <1>12, <3>1, <3>2, <3>5, <3>6, <4>1 DEF PlaceOK, Made
    <3>7. CASE rids # {}
      <4>1. PICK t \in rids : shown' = [shown EXCEPT ![p] = t]
        BY <1>3, <3>7
      <4>2. t \in Records /\ Live(t) /\ records[t].id = records[mine[p]].id /\ shown'[p] = t
        BY <1>0, <3>1, <3>3, <4>1
      <4>3. Live(mine[p]) => t = mine[p]
        BY <3>1, <4>2 DEF ProviderInv, RecordsOK, UniqueIds, Made
      <4> QED
        BY <1>12, <3>1, <3>2, <3>4, <3>5, <3>7, <4>2, <4>3 DEF PlaceOK, Made
    <3> QED
      BY <3>6, <3>7
  <2>3. CASE stage[p] \notin {"register", "status"}
    <3>1. where \in {"idle", "secret"}
      BY <1>7, <2>3 DEF After
    <3> QED
      BY <1>12, <3>1 DEF PlaceOK
  <2> QED
    BY <2>1, <2>2, <2>3
<1> QED
  BY <1>4, <1>5, <1>11, <1>14, <1>15, <1>16 DEF ProviderInv

\* A program that is told nothing goes back to idle.
LEMMA GivesUpKeeps ==
    ASSUME ProviderServicesAssumption, ProviderInv, NEW p \in Programs, Send(p, NoRequest), Go(p, "idle"),
           UNCHANGED <<mine, shown, drawn>>, late' \subseteq late \cup {request[p]},
           RecordsOK', records' \in [Records -> Record \cup {Unused}],
           records' = records \/ \E q : \E r \in Records : Effect(q, r),
           GoneOK', gone' \subseteq ServiceIds
    PROVE  ProviderInv'
<1>0. /\ stage \in [Programs -> Stages] /\ request \in [Programs -> Request] /\ late \subseteq Request
      /\ mine \in [Programs -> Records \cup {0}] /\ shown \in [Programs -> Records \cup {0}]
      /\ drawn \in 0..MaxDraws
  BY DEF ProviderInv, TypeOK, Stages
<1>1. NoRequest \in Request /\ RequestOK(NoRequest) /\ "idle" \in Stages
  BY DEF Request, RequestOK, NoRequest, Stages
<1>2. /\ stage'[p] = "idle" /\ request'[p] = NoRequest
      /\ \A o \in Programs \ {p} : request'[o] = request[o] /\ stage'[o] = stage[o]
  BY <1>0 DEF Send, Go
<1>3. stage' \in [Programs -> Stages] /\ request' \in [Programs -> Request] /\ late' \subseteq Request
  BY <1>0, <1>1 DEF Send, Go
<1>4. TypeOK'
  BY <1>0, <1>3 DEF TypeOK, Stages
<1>5. RequestsOK'
  <2>1. \A o \in Programs : RequestOK(request'[o])
    BY <1>1, <1>2 DEF ProviderInv, RequestsOK
  <2>2. \A l \in late' : RequestOK(l)
    BY DEF ProviderInv, RequestsOK
  <2> QED
    BY <2>1, <2>2 DEF RequestsOK, RequestOK, NamedAfter
<1>6. \A o \in Programs \ {p} : PlaceOK(o)'
  BY <1>2, OthersKeepPlaces
<1>7. PlaceOK(p)'
  BY <1>2 DEF PlaceOK
<1> QED
  BY <1>4, <1>5, <1>6, <1>7 DEF ProviderInv

LEMMA UnreadableKeeps ==
    ASSUME ProviderServicesAssumption, ProviderInv, NEW p \in Programs, Unreadable(p)
    PROVE  ProviderInv'
<1>1. request[p] \in Request /\ RequestOK(request[p])
  BY DEF ProviderInv, TypeOK, RequestsOK
<1>2. PICK r \in Records : Handle(request[p], r)
  BY DEF Unreadable
<1>3. GoneOK' /\ gone' \subseteq ServiceIds
  BY <1>2, DeletedKeepsGone DEF Unreadable
<1>4. /\ RecordsOK' /\ records' \in [Records -> Record \cup {Unused}]
      /\ records' = records \/ Effect(request[p], r)
  BY <1>1, <1>2, HandleKeepsRecords
<1> QED
  BY <1>3, <1>4, GivesUpKeeps DEF Unreadable

\* A request that is not told of leaves the deleted ids alone.
LEMMA UntoldKeepsGone ==
    ASSUME GoneOK, NEW q, \A id \in gone : ~Registers(q, id), gone' = gone,
           records' = records \/ \E r \in Records : Effect(q, r)
    PROVE  \A id \in gone' : \A s \in Records : ~(Live(s) /\ records[s].id = id)'
<1>1. CASE records' = records
  BY <1>1 DEF GoneOK, Live
<1>2. CASE \E r \in Records : Effect(q, r)
  <2>1. PICK r \in Records : Effect(q, r)
    BY <1>2
  <2> QED
    BY <2>1, EffectKeepsGone DEF GoneOK
<1> QED
  BY <1>1, <1>2

LEMMA FailsKeeps ==
    ASSUME ProviderServicesAssumption, ProviderInv, NEW p \in Programs, Fails(p)
    PROVE  ProviderInv'
<1>0. /\ request \in [Programs -> Request] /\ gone \subseteq ServiceIds
      /\ records \in [Records -> Record \cup {Unused}] /\ RecordsOK /\ GoneOK
  BY DEF ProviderInv, TypeOK
<1>1. request[p] \in Request /\ RequestOK(request[p]) /\ \A id \in gone : ~Registers(request[p], id)
  BY <1>0 DEF ProviderInv, RequestsOK, GoneOK
<1>2. /\ RecordsOK' /\ records' \in [Records -> Record \cup {Unused}]
      /\ records' = records \/ \E r \in Records : Effect(request[p], r)
  <2>1. CASE records' = records
    BY <1>0, <2>1 DEF RecordsOK, UniqueIds, RecordOK, Live, NamedAfter
  <2>2. CASE \E r \in Records : Handle(request[p], r)
    BY <1>1, <2>2, HandleKeepsRecords
  <2> QED
    BY <2>1, <2>2 DEF Fails
<1>3. gone' = gone /\ late' \subseteq late \cup {request[p]}
  BY DEF Fails
<1>4. GoneOK'
  <2>1. \A id \in gone' : \A s \in Records : ~(Live(s) /\ records[s].id = id)'
    BY <1>0, <1>1, <1>2, <1>3, UntoldKeepsGone
  <2>2. \A o \in Programs : request'[o] = request[o] \/ request'[o] = NoRequest
    BY <1>0 DEF Fails, Send
  <2>3. \A id \in gone' : \A o \in Programs : ~Registers(request'[o], id)
    BY <1>0, <1>3, <2>2 DEF GoneOK, Registers, NoRequest
  <2>4. \A id \in gone' : \A l \in late' : ~Registers(l, id)
    BY <1>0, <1>1, <1>3 DEF GoneOK
  <2> QED
    BY <2>1, <2>3, <2>4 DEF GoneOK, Registers
<1> QED
  BY <1>0, <1>2, <1>3, <1>4, GivesUpKeeps DEF Fails

LEMMA LateArrivalKeeps ==
    ASSUME ProviderInv, NEW q \in late, LateArrival(q)
    PROVE  ProviderInv'
<1>0. /\ records \in [Records -> Record \cup {Unused}] /\ RecordsOK /\ GoneOK /\ RequestsOK /\ late \subseteq Request
  BY DEF ProviderInv, TypeOK
<1>1. q \in Request /\ RequestOK(q) /\ \A id \in gone : ~Registers(q, id)
  BY <1>0 DEF RequestsOK, GoneOK
<1>2. /\ UNCHANGED <<stage, request, mine, shown, drawn, gone>> /\ late' \subseteq late
  BY DEF LateArrival, programVars
<1>3. /\ RecordsOK' /\ records' \in [Records -> Record \cup {Unused}]
      /\ records' = records \/ \E r \in Records : Effect(q, r)
  <2>1. CASE records' = records
    BY <1>0, <2>1 DEF RecordsOK, UniqueIds, RecordOK, Live, NamedAfter
  <2>2. CASE \E r \in Records : Handle(q, r)
    BY <1>1, <2>2, HandleKeepsRecords
  <2> QED
    BY <2>1, <2>2 DEF LateArrival
<1>4. GoneOK'
  <2>1. \A id \in gone' : \A s \in Records : ~(Live(s) /\ records[s].id = id)'
    BY <1>0, <1>1, <1>2, <1>3, UntoldKeepsGone
  <2> QED
    BY <1>0, <1>2, <2>1 DEF GoneOK, Registers
<1>5. TypeOK'
  BY <1>0, <1>2, <1>3 DEF ProviderInv, TypeOK
<1>6. RequestsOK'
  BY <1>0, <1>2 DEF RequestsOK, RequestOK, NamedAfter
<1>7. ASSUME NEW o \in Programs
      PROVE  PlaceOK(o)'
  <2>1. PlaceOK(o)
    BY DEF ProviderInv
  <2>2. \A s : Made(s) => /\ Made(s)' /\ records'[s].id = records[s].id
                          /\ records[s].state = "deleted" => records'[s].state = "deleted"
    <3>1. CASE records' = records
      BY <3>1 DEF Made
    <3>2. CASE \E r \in Records : Effect(q, r)
      BY <3>2, EffectKeepsMade
    <3> QED
      BY <1>3, <3>1, <3>2
  <2> QED
    BY <1>2, <2>1, <2>2 DEF PlaceOK
<1> QED
  BY <1>3, <1>4, <1>5, <1>6, <1>7 DEF ProviderInv

-----------------------------------------------------------------------------
LEMMA InitProvider == ASSUME ProviderServicesAssumption, Init PROVE ProviderInv
<1>1. MaxDraws \in Nat
  BY DEF ProviderServicesAssumption
<1> QED
  BY <1>1 DEF Init, ProviderInv, TypeOK, RequestsOK, RequestOK, RecordsOK, UniqueIds, RecordOK, GoneOK, PlaceOK,
              Live, Unused, NoRequest, Request, Registers

LEMMA ProviderStep ==
    ASSUME ProviderServicesAssumption, ProviderInv, [Next]_vars
    PROVE  ProviderInv'
<1>1. CASE UNCHANGED vars
  <2>1. UNCHANGED <<stage, request, mine, shown, drawn, gone, records, late>>
    BY <1>1 DEF vars, programVars
  <2> QED
    BY <2>1 DEF ProviderInv, TypeOK, RequestsOK, RequestOK, NamedAfter, RecordsOK, UniqueIds, RecordOK, Live,
                GoneOK, Registers, PlaceOK, Made
<1>2. ASSUME NEW p \in Programs, Register(p) \/ Manage(p) \/ Onboard(p) \/ Publish(p) \/ CheckPublished(p)
      PROVE  ProviderInv'
  BY <1>2, ProgramSends, SendsKeeps
<1> QED
  BY <1>1, <1>2, AnsweredKeeps, UnreadableKeeps, FailsKeeps, LateArrivalKeeps DEF Next

LEMMA ProviderInvariant == Spec => []ProviderInv
<1>1. Init => ProviderInv
  BY ProviderServicesAssumption, InitProvider
<1>2. ProviderInv /\ [Next]_vars => ProviderInv'
  BY ProviderServicesAssumption, ProviderStep
<1> QED
  BY <1>1, <1>2, PTL DEF Spec

\* Programs, requests and records keep to their types, whatever is asked and
\* whatever fails.
THEOREM ProviderTypeCorrect == Spec => []TypeOK
<1>1. ProviderInv => TypeOK
  BY DEF ProviderInv
<1> QED
  BY <1>1, ProviderInvariant, PTL

\* However often and by however many programs a service is registered by its
\* name, it is published once, as its id is made from the name.
THEOREM NamesArePublishedOnce == Spec => []NamesPublishedOnce
<1>1. ProviderInv => NamesPublishedOnce
  BY DEF ProviderInv, RecordsOK, UniqueIds, RecordOK, NamedAfter, NamesPublishedOnce
<1> QED
  BY <1>1, ProviderInvariant, PTL

\* A fixed-price service that a consumer sees as free, and whose price model was
\* not patched since, was registered with the price zero.
THEOREM FreeServicesAskedFree == Spec => []FreeMeansAskedFree
<1>1. ProviderInv => FreeMeansAskedFree
  <2> SUFFICES ASSUME ProviderInv, NEW r \in Records, Live(r), ~records[r].patched,
                      records[r].terms.model = "fixed", PriceUsdc(records[r].terms) = 0
               PROVE  records[r].offer.base = 0
    BY DEF FreeMeansAskedFree
  <2> DEFINE o == records[r].offer
  <2>1. records[r].terms = TermsOf(o) /\ Priced(o)
    BY DEF ProviderInv, RecordsOK, RecordOK
  <2>2. PriceModel(o) = "fixed"
    BY <2>1 DEF TermsOf
  <2>3. o.base # None /\ records[r].terms.amount = o.base
    BY <2>1, <2>2 DEF Priced, TermsOf
  <2>4. None # 0
    BY ServiceTermsAssumption
  <2> QED
    BY <2>3, <2>4 DEF PriceUsdc, Amount
<1> QED
  BY <1>1, ProviderInvariant, PTL

\* An onboarding run that ends with a status or without the service has seen
\* its own service, or somebody has deleted it.
THEOREM OnboardingSeesItsOwn == Spec => []OnboardingSeesItsService
<1>1. ProviderInv => OnboardingSeesItsService
  BY DEF ProviderInv, PlaceOK, OnboardingSeesItsService
<1> QED
  BY <1>1, ProviderInvariant, PTL

\* What was deleted is found by nobody until it is registered anew.
THEOREM DeletionsHold == Spec => []DeletedStaysGone
<1>1. ProviderInv => DeletedStaysGone
  BY DEF ProviderInv, GoneOK, DeletedStaysGone, LiveUnder
<1> QED
  BY <1>1, ProviderInvariant, PTL
=============================================================================
