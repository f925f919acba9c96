--------------------------------- MODULE Lookup ---------------------------------
(***************************************************************************)
(* A client (src/client) of the PIR thread: it copies the keyword directory *)
(* from the endpoint, keeps it current, and looks addresses up through it.  *)
(* Reading the status, fetching what is missing and posting a query are     *)
(* requests of their own, so the server may publish, compact, fail or       *)
(* restart between any two of them; and a lookup may overlap a sync.        *)
(***************************************************************************)
EXTENDS Publisher

CONSTANT Nobody      \* the owner of an empty row

ASSUME LookupAssumption == Nobody \notin Addr

VARIABLES copy,      \* the client's keyword directory; EmptyIndex before the first sync
          plan,      \* what PirSession.sync is about to fetch
          pending,   \* the query that awaits its response
          answer     \* the report of the last lookup

clientVars == <<copy, plan, pending, answer>>
lookupVars == <<vars, clientVars>>

NoQuery == [addr |-> Nobody, through |-> EmptyIndex]

(* client/src/report.rs: what a lookup says of an address. *)
Report == [addr : Addr \cup {Nobody}, held : BOOLEAN, record : Record]
Found(a, r) == [addr |-> a, held |-> TRUE, record |-> r]
NotHeld(a) == [addr |-> a, held |-> FALSE, record |-> 0]
NoAnswer == NotHeld(Nobody)

(* Mutant of SyncNeed: a generation is not told from the next one.          *)
SyncNeedByTail == IF Len(directory.tail) > Len(copy.tail) THEN "tail" ELSE "current"

(* Client::sync_need, against the directory the endpoint reports.           *)
SyncNeed ==
    IF directory.version # copy.version THEN "full"
    ELSE IF Len(directory.tail) > Len(copy.tail) THEN "tail"
    ELSE "current"

LookupTypeOK ==
    /\ TypeOK
    /\ copy \in Index
    /\ plan \in {"idle", "full", "tail"}
    /\ pending \in [addr : Addr \cup {Nobody}, through : Index]
    /\ answer \in Report

-------------------------------------------------------------------------------
ClientInit == copy = EmptyIndex /\ plan = "idle" /\ pending = NoQuery /\ answer = NoAnswer

(* Mutant: a fetch is planned even when nothing is missing. *)
PlanSyncAlways ==
    /\ serving /\ plan = "idle"
    /\ plan' = IF copy.id = Missing THEN "full" ELSE SyncNeed
    /\ UNCHANGED <<copy, pending, answer>>

(* PirSession.sync: the status and what it calls for ...                    *)
PlanSync ==
    /\ serving /\ plan = "idle"
    /\ plan' = IF copy.id = Missing THEN "full" ELSE SyncNeed
    /\ plan' # "current"
    /\ UNCHANGED <<copy, pending, answer>>

(* Mutant: a resync leaves the queries under way alone. *)
FetchDirectoryOnly ==
    /\ serving /\ plan = "full"
    /\ copy' = IF directory.id = Missing THEN copy ELSE directory
    /\ plan' = "idle"
    /\ UNCHANGED <<pending, answer>>

(* ... the full directory; the queries under way are dropped with the old   *)
(* one.  The directory from before the first one exposed has no capacity    *)
(* and is taken to be refused by eth_pir ...                                *)
FetchDirectory ==
    /\ serving /\ plan = "full"
    /\ IF directory.id = Missing
         THEN UNCHANGED <<copy, pending>>
         ELSE copy' = directory /\ pending' = NoQuery
    /\ plan' = "idle"
    /\ UNCHANGED answer

(* ... or the tail from where the copy ends, refused by the server if it is *)
(* past its own tail and by the client if it is of another version.         *)
TailFits == directory.version = copy.version /\ Len(copy.tail) <= Len(directory.tail)

(* Mutant: the whole tail comes back, whatever offset was asked for. *)
FetchTailWhole ==
    /\ serving /\ plan = "tail"
    /\ copy' = IF TailFits THEN [copy EXCEPT !.tail = @ \o directory.tail] ELSE copy
    /\ plan' = "idle"
    /\ UNCHANGED <<pending, answer>>

FetchTail ==
    /\ serving /\ plan = "tail"
    /\ copy' = IF TailFits
                 THEN [copy EXCEPT !.tail = @ \o SubSeq(directory.tail, Len(@) + 1,
                                                        Len(directory.tail))]
                 ELSE copy
    /\ plan' = "idle"
    /\ UNCHANGED <<pending, answer>>

RequestFails ==
    \/ plan # "idle" /\ plan' = "idle" /\ UNCHANGED <<copy, pending, answer>>
    \/ pending # NoQuery /\ pending' = NoQuery /\ UNCHANGED <<copy, plan, answer>>

(* A lookup: PirSession.ensureCurrent finds nothing missing, and then       *)
(* Client::query takes the slot from the copy as it is now.                 *)
Ask ==
    /\ serving /\ copy.id # Missing /\ SyncNeed = "current"
    /\ pending = NoQuery
    /\ \E a \in Addr : pending' = [addr |-> a, through |-> copy]
    /\ answer' = NoAnswer
    /\ UNCHANGED <<copy, plan>>

-------------------------------------------------------------------------------
(* The rows a slot may lead to.  Without a record an address may have a row *)
(* of zeros, as after its balance has drained, or none, as after a restart. *)
(* A slot taken from another hash than the served database's may be any     *)
(* row; so may the slot of an address that is not in the directory, among   *)
(* those of the hash.                                                       *)
Vacant == [addr |-> Nobody, record |-> 0]
RowOf(a) == [addr |-> a, record |-> served.rows[a]]
RowsOf(a) == {RowOf(a)} \cup (IF served.rows[a] = 0 THEN {Vacant} ELSE {})
RowAt(p) == IF p <= Len(served.tail) THEN RowsOf(served.tail[p]) ELSE {Vacant}

RowsAt(a, x) ==
    IF x.id # served.id THEN {RowOf(b) : b \in Indexed(served)} \cup {Vacant}
    ELSE IF a \in x.base THEN RowsOf(a)
    ELSE IF a \in InTail(x) THEN UNION {RowAt(p) : p \in {i \in 1..Len(x.tail) : x.tail[i] = a}}
    ELSE {RowOf(b) : b \in served.base} \cup {Vacant}

(* eth_pir decrypts the row and compares the address in it: NotInSet if it  *)
(* is not the one asked for, which Client::decode reports as not held.      *)
InSet(row, a) == row.addr = a
Decode(row, a) == IF InSet(row, a) THEN Found(a, row.record) ELSE NotHeld(a)

Respond ==
    /\ serving /\ pending # NoQuery
    /\ \E row \in RowsAt(pending.addr, pending.through) :
          answer' = Decode(row, pending.addr)
    /\ pending' = NoQuery
    /\ UNCHANGED <<copy, plan>>

-------------------------------------------------------------------------------
Client ==
    \/ PlanSync \/ FetchDirectory \/ FetchTail \/ RequestFails
    \/ Ask \/ Respond

LookupInit == Init /\ ClientInit
LookupNext ==
    \/ Next /\ UNCHANGED clientVars
    \/ Client /\ UNCHANGED vars

LookupSpec == LookupInit /\ [][LookupNext]_lookupVars

-------------------------------------------------------------------------------
(* Properties.                                                              *)

Answered == answer' # answer /\ answer' # NoAnswer

(* An address that the client's directory lists has a row, and is answered  *)
(* with the record it had at the last publish: it is not reported as not    *)
(* held because its slot leads nowhere, or to somebody else.  There are     *)
(* three exceptions: the last rebuild failed, so that the server exposed    *)
(* slots it has no rows for (see ExposedIsBuilt); the hash was replaced     *)
(* between the query and the response; and a second fresh start, after      *)
(* which the two files may pair an old hash with a new tail.                *)
ListedIsFound ==
    [][Answered /\ rebuilt /\ pending.through.id = served.id /\ inits <= 1
         /\ pending.addr \in Indexed(pending.through)
         => /\ pending.addr \in Indexed(served)
            /\ answer'.record = served.rows[pending.addr]]_lookupVars

(* The slot a query under way was sent with is still the slot its address   *)
(* has in the client's directory: a sync that overlaps the lookup drops the *)
(* query if it replaces the hash, and moves nothing if it adds a tail.      *)
QuerySlotStands ==
    pending # NoQuery =>
        copy.id = pending.through.id /\ Continues(copy, pending.through)

(* A client that is told it is current has the directory the server         *)
(* exposes, slot for slot.  Of the empty directory, version 0, that a       *)
(* server serves whose first write has failed (the endpoint opens all the   *)
(* same) this says nothing: a client of version 0 is told it is current.    *)
ToldCurrent ==
    /\ serving /\ SyncNeed = "current"
    /\ copy.id # Missing /\ directory.id # Missing
CurrentMeansCurrent == inits <= 1 /\ ToldCurrent => copy = directory

(* ... and whenever the server has built a new hash, it is not told so.     *)
NewHashIsNoticed == ToldCurrent => copy.id = directory.id
===============================================================================
