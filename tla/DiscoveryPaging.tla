-------------------------- MODULE DiscoveryPaging --------------------------
(***************************************************************************)
(* discover() and search() of python/synapse_client/client.py take a limit *)
(* and an offset, but the gateway only knows pages: the offset is rounded  *)
(* down to the start of a page.  A caller reads the whole list by asking   *)
(* for what comes after the rows it has, with any limit each time, while   *)
(* providers append services.                                              *)
(***************************************************************************)
EXTENDS Integers, FiniteSets

CONSTANTS
    Limits,     \* limits that the caller uses, also zero and below
    MaxRows     \* bound: services in the list

ASSUME PagingAssumption == Limits \subseteq Int /\ MaxRows \in Nat

VARIABLES
    rows,       \* external: the length of the list
    known,      \* how many rows the caller knows from the first on without a gap
    others,     \* rows beyond that it knows
    page        \* the rows of the last answer

vars == <<rows, known, others, page>>

\* Mutant: the limit is sent as it is.
PageSizeRaw(limit) == IF limit = 0 THEN 1 ELSE limit

PageSize(limit) == IF limit < 1 THEN 1 ELSE limit

\* Mutant: rounded up.
PageUp(limit, offset) == ((offset + PageSize(limit) - 1) \div PageSize(limit)) + 1

\* Never below one: the offset is no less than zero here.
Page(limit, offset) == (offset \div PageSize(limit)) + 1

\* The rows of a page, numbered from zero.
RowsOf(number, size, length) ==
    {i \in 0..(length - 1) : (number - 1) * size <= i /\ i < number * size}

Received(limit, offset) == RowsOf(Page(limit, offset), PageSize(limit), rows)

\* The number of rows from the first on without a gap.
Prefix(got) == CHOOSE n \in 0..rows : (\A i \in 0..(n - 1) : i \in got) /\ n \notin got

\* A call with the rows known so far as the offset; an exception leaves
\* everything as it was.
Search(limit) ==
    LET got == 0..(known - 1) \cup others \cup Received(limit, known)
    IN /\ page' = Received(limit, known)
       /\ known' = Prefix(got)
       /\ others' = {i \in got : i > known'}
       /\ UNCHANGED rows

\* A provider publishes a service, which comes last.
Append ==
    /\ rows < MaxRows
    /\ rows' = rows + 1
    /\ UNCHANGED <<known, others, page>>

Init == rows \in 0..MaxRows /\ known = 0 /\ others = {} /\ page = {}

Next == Append \/ \E limit \in Limits : Search(limit)

Spec == Init /\ [][Next]_vars

\* The caller goes on until a page brings nothing new.
FairSpec == Spec /\ WF_vars(\E limit \in Limits : Search(limit))
-----------------------------------------------------------------------------
\* Shape of the state.
TypeOK ==
    /\ rows \in 0..MaxRows
    /\ known \in 0..rows
    /\ others \subseteq 0..(rows - 1)
    /\ page \subseteq 0..(rows - 1)

\* Rounding an offset down never skips a row, whatever mixture of limits: what
\* the caller knows has no gap.  (Rows before the offset may come again.)
NothingIsSkipped == others = {}

\* Each call brings the caller on, as long as there are rows it does not know.
CallsBringNewRows ==
    [][\A limit \in Limits : Search(limit) /\ known < rows => known' > known]_vars

\* A list is read to the end, however it was cut into pages.
AllIsRead == <>[](known = rows)
=============================================================================
