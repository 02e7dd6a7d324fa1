--------------------------- MODULE CommandResponses ---------------------------
(***************************************************************************)
(* The editable response texts: CommandResponseService's in-memory cache   *)
(* over the text transactions of CommandResponseRepository.                *)
(*                                                                         *)
(* A call of the service is a synchronous check of the cache, an awaited   *)
(* database transaction and a synchronous change of the cache; the calls   *)
(* in flight interleave at the awaits.  The transactions run at the        *)
(* database's default isolation (read committed), so one that reads a row  *)
(* and then writes it is two steps as well: other transactions commit      *)
(* between them, unless a row lock keeps them out.                         *)
(*                                                                         *)
(* A key is a command name with its variant.  A text's weight is left out. *)
(***************************************************************************)
EXTENDS Naturals, FiniteSets, SequencesExt

CONSTANTS
    Calls,          \* the service calls that can be in flight
    Ops,            \* the operations callers use, a subset of AllOps
    Keys,           \* command name and variant, as cacheKey joins them
    FamilyKeys,     \* the keys whose name isValidCommandName accepts
    Texts,
    Fold,           \* a text trimmed and in lower case, as the unique index has it
    InitialRows,    \* the contents the text table may have at start-up
    MaxRows,        \* bound on the rows ever inserted
    NoEntry,        \* the cache has no entry for the key
    Hole,           \* an array element nothing was ever stored in
    Idle            \* the locals of a call not in flight

AllOps == {"add", "update", "remove", "restore"}

Row == [key : Keys, text : Texts, removed : BOOLEAN]    \* command_response_text

ASSUME ConstantsAssumption ==
    /\ Ops \subseteq AllOps
    /\ FamilyKeys \subseteq Keys
    /\ DOMAIN Fold = Texts
    /\ MaxRows \in Nat
    /\ \A r \in InitialRows : r \in Seq(Row) /\ Len(r) <= MaxRows

VARIABLES
    rows,       \* command_response_text; a row's id is its index
    parents,    \* command_response: which keys have a row, and is it soft-deleted
    cache,      \* responseCache
    pc,         \* where each call stands
    local,      \* the locals of each call in flight
    answer      \* history: what each call last returned, about which text

vars == <<rows, parents, cache, pc, local, answer>>

Ids == 1..MaxRows

\* CommandResponseText, as the cache holds it.
Response == [id : Ids, text : Texts]

Local == [op : AllOps, key : Keys, id : Ids \cup {0}, text : Texts,
          index : Nat, entry : BOOLEAN, locks : BOOLEAN]

Results == {"none", "inserted", "alreadyExists", "insertFailed", "updated", "notEditable",
            "updateFailed", "removed", "removeFailed", "notFound", "restored",
            "alreadyActive", "invalidCommandName"}

Silent == [result |-> "none"]
Answered == [result : Results, key : Keys, text : Texts]

ASSUME SlotsAssumption ==
    /\ NoEntry \notin Seq(Response \cup {Hole}) /\ Hole \notin Response
    /\ Idle \notin Local

TypeOK ==
    /\ rows \in Seq(Row) /\ Len(rows) <= MaxRows
    /\ parents \in [Keys -> {"absent", "active", "removed"}]
    /\ cache \in [Keys -> Seq(Response \cup {Hole}) \cup {NoEntry}]
    /\ pc \in [Calls -> {"idle", "lookup", "write", "apply"}]
    /\ local \in [Calls -> Local \cup {Idle}]
    /\ \A c \in Calls : pc[c] = "idle" <=> local[c] = Idle
    /\ answer \in [Calls -> Answered \cup {Silent}]

-----------------------------------------------------------------------------
(* Reading the two tables.                                                 *)

ActiveIds(k) == {i \in DOMAIN rows : rows[i].key = k /\ ~rows[i].removed}

RowsLike(k, t) == {i \in DOMAIN rows : rows[i].key = k /\ Fold[rows[i].text] = Fold[t]}

ResponseOf(i) == [id |-> i, text |-> rows[i].text]

\* findAll: an active parent's active texts, in some order.
ActiveTexts(k) ==
    LET ids == SetToSeq(ActiveIds(k))
    IN  [n \in DOMAIN ids |-> ResponseOf(ids[n])]

\* initialize: the cache is built from the active rows.
Loaded == [k \in Keys |-> IF parents[k] = "active" THEN ActiveTexts(k) ELSE NoEntry]

\* Where the cache has id i under key k.
Places(k, i) ==
    IF cache[k] = NoEntry
    THEN {}
    ELSE {n \in DOMAIN cache[k] : cache[k][n] # Hole /\ cache[k][n].id = i}

\* findIndex in the key's entry; 0 stands for the code's -1.
IndexOf(k, i) ==
    IF Places(k, i) = {} THEN 0 ELSE Min(Places(k, i))

\* array[n] = x: an index past the end leaves holes.
Assign(s, n, x) ==
    [j \in 1..(IF n > Len(s) THEN n ELSE Len(s)) |->
        IF j = n THEN x ELSE IF j <= Len(s) THEN s[j] ELSE Hole]

\* array.splice(n, 1): nothing beyond the end.
Splice(s, n) == IF n \in DOMAIN s THEN RemoveAt(s, n) ELSE s

Init ==
    /\ rows \in InitialRows
    /\ parents \in [Keys -> {"absent", "active", "removed"}]
    /\ \A i \in DOMAIN rows :
           IF rows[i].removed THEN parents[rows[i].key] # "absent"
                              ELSE parents[rows[i].key] = "active"
    /\ cache = Loaded
    /\ pc = [c \in Calls |-> "idle"]
    /\ local = [c \in Calls |-> Idle]
    /\ answer = [c \in Calls |-> Silent]

-----------------------------------------------------------------------------
(* The parts of a call.                                                    *)

Begin(c, place, locals) ==
    /\ pc' = [pc EXCEPT ![c] = place]
    /\ local' = [local EXCEPT ![c] = locals]
    /\ UNCHANGED answer

Continue(c, place) ==
    /\ pc' = [pc EXCEPT ![c] = place]
    /\ UNCHANGED answer

Answer(c, result, k, t) ==
    answer' = [answer EXCEPT ![c] = [result |-> result, key |-> k, text |-> t]]

\* A call in flight returns.
Return(c, result) ==
    /\ pc' = [pc EXCEPT ![c] = "idle"]
    /\ local' = [local EXCEPT ![c] = Idle]
    /\ Answer(c, result, local[c].key, local[c].text)

\* A call returns before it has awaited anything.
Refuse(c, result, k, t) ==
    /\ Answer(c, result, k, t)
    /\ UNCHANGED <<pc, local>>

Locals(op, k, i, t) ==
    [op |-> op, key |-> k, id |-> i, text |-> t, index |-> IndexOf(k, i),
     entry |-> cache[k] # NoEntry, locks |-> FALSE]

-----------------------------------------------------------------------------
(* addCommandText                                                          *)

AddCall(c, k, t) ==
    /\ pc[c] = "idle" /\ "add" \in Ops
    /\ IF k \in FamilyKeys
       THEN Begin(c, "lookup", Locals("add", k, 0, t))
       ELSE Refuse(c, "invalidCommandName", k, t)
    /\ UNCHANGED <<rows, parents, cache>>

\* Creating or un-deleting the parent locks its row until the transaction ends: a
\* second transaction that would do the same waits, and looks afterwards.
LockParent(c) ==
    LET k == local[c].key
    IN  \/ parents[k] = "active"
        \/ \A d \in Calls \ {c} : ~(pc[d] = "write" /\ local[d].key = k /\ local[d].locks)

\* Mutant: the removed rows are not searched.
AddLookupNever(c) ==
    /\ pc[c] = "lookup" /\ local[c].op = "add" /\ LockParent(c)
    /\ local' = [local EXCEPT ![c].locks = parents[local[c].key] # "active"]
    /\ Continue(c, "write")
    /\ UNCHANGED <<rows, parents, cache>>

\* Mutant: the caller's text is taken for the restored one.
AddLookupKeepsText(c) ==
    /\ pc[c] = "lookup" /\ local[c].op = "add" /\ LockParent(c)
    /\ LET removed == {i \in RowsLike(local[c].key, local[c].text) : rows[i].removed}
           locks == parents[local[c].key] # "active"
       IN  IF removed = {}
           THEN local' = [local EXCEPT ![c].locks = locks]
           ELSE \E i \in removed : local' = [local EXCEPT ![c].id = i, ![c].locks = locks]
    /\ Continue(c, "write")
    /\ UNCHANGED <<rows, parents, cache>>

\* Inside the transaction: is the text among the removed ones?
AddLookup(c) ==
    /\ pc[c] = "lookup" /\ local[c].op = "add" /\ LockParent(c)
    /\ LET removed == {i \in RowsLike(local[c].key, local[c].text) : rows[i].removed}
           locks == parents[local[c].key] # "active"
       IN  IF removed = {}
           THEN local' = [local EXCEPT ![c].locks = locks]
           ELSE \E i \in removed :
                    local' = [local EXCEPT ![c].id = i, ![c].text = rows[i].text,
                                           ![c].locks = locks]
    /\ Continue(c, "write")
    /\ UNCHANGED <<rows, parents, cache>>

\* The rest of the transaction.  A removed text is restored as it was stored; a
\* new one is inserted unless the unique index, which also holds the removed
\* rows, already has it.  The parent is created or un-deleted with it.
AddCommit(c) ==
    LET k == local[c].key
        t == local[c].text
        new == Len(rows) + 1
    IN  /\ pc[c] = "write" /\ local[c].op = "add"
        /\ \/ /\ local[c].id # 0
              /\ rows' = [rows EXCEPT ![local[c].id].removed = FALSE]
              /\ parents' = [parents EXCEPT ![k] = "active"]
              /\ Continue(c, "apply")
              /\ UNCHANGED local
           \/ /\ local[c].id = 0 /\ RowsLike(k, t) = {} /\ new <= MaxRows
              /\ rows' = Append(rows, [key |-> k, text |-> t, removed |-> FALSE])
              /\ parents' = [parents EXCEPT ![k] = "active"]
              /\ local' = [local EXCEPT ![c].id = new]
              /\ Continue(c, "apply")
           \/ /\ local[c].id = 0 /\ RowsLike(k, t) # {}
              /\ Return(c, "alreadyExists")
              /\ UNCHANGED <<rows, parents>>
        /\ UNCHANGED cache

\* Mutant: whether the key had an entry was read before the transaction.
AddApplyStale(c) ==
    LET k == local[c].key
        response == [id |-> local[c].id, text |-> local[c].text]
    IN  /\ pc[c] = "apply" /\ local[c].op = "add"
        /\ cache' = [cache EXCEPT ![k] = IF local[c].entry THEN Append(@, response)
                                         ELSE <<response>>]
        /\ Return(c, "inserted")
        /\ UNCHANGED <<rows, parents>>

\* The cache is read again after the transaction.
AddApply(c) ==
    LET k == local[c].key
        response == [id |-> local[c].id, text |-> local[c].text]
    IN  /\ pc[c] = "apply" /\ local[c].op = "add"
        /\ cache' = [cache EXCEPT ![k] = IF @ = NoEntry THEN <<response>>
                                         ELSE Append(@, response)]
        /\ Return(c, "inserted")
        /\ UNCHANGED <<rows, parents>>

-----------------------------------------------------------------------------
(* updateCommandText                                                       *)

UpdateCall(c, k, i, t) ==
    /\ pc[c] = "idle" /\ "update" \in Ops
    /\ IF IndexOf(k, i) # 0
       THEN Begin(c, "write", Locals("update", k, i, t))
       ELSE Refuse(c, "notEditable", k, t)
    /\ UNCHANGED <<rows, parents, cache>>

UpdateCommit(c) ==
    LET k == local[c].key
        i == local[c].id
        t == local[c].text
    IN  /\ pc[c] = "write" /\ local[c].op = "update"
        /\ \/ /\ i \in ActiveIds(k) /\ RowsLike(k, t) \subseteq {i}
              /\ rows' = [rows EXCEPT ![i].text = t]
              /\ Continue(c, "apply")
              /\ UNCHANGED local
           \/ /\ i \in ActiveIds(k) /\ ~(RowsLike(k, t) \subseteq {i})
              /\ Return(c, "alreadyExists")
              /\ UNCHANGED rows
           \/ /\ i \notin ActiveIds(k)
              /\ Return(c, "updateFailed")
              /\ UNCHANGED rows
        /\ UNCHANGED <<parents, cache>>

\* Mutant: the bare text is stored in place of the response.
UpdateApplyText(c) ==
    LET l == local[c]
    IN  /\ pc[c] = "apply" /\ l.op = "update"
        /\ cache' = [cache EXCEPT ![l.key] = Assign(@, l.index, l.text)]
        /\ Return(c, "updated")
        /\ UNCHANGED <<rows, parents>>

\* The response goes where the text was before the transaction.
UpdateApply(c) ==
    LET l == local[c]
    IN  /\ pc[c] = "apply" /\ l.op = "update"
        /\ cache' = [cache EXCEPT ![l.key] = Assign(@, l.index, [id |-> l.id, text |-> l.text])]
        /\ Return(c, "updated")
        /\ UNCHANGED <<rows, parents>>

-----------------------------------------------------------------------------
(* removeCommandText                                                       *)

\* Mutant: the cache is changed before the transaction.
RemoveCallEager(c, k, i) ==
    /\ pc[c] = "idle" /\ "remove" \in Ops
    /\ IF IndexOf(k, i) # 0
       THEN /\ Begin(c, "write", Locals("remove", k, i, rows[i].text))
            /\ cache' = [cache EXCEPT ![k] = Splice(@, IndexOf(k, i))]
       ELSE /\ Refuse(c, "notFound", k, rows[i].text)
            /\ UNCHANGED cache
    /\ UNCHANGED <<rows, parents>>

RemoveCall(c, k, i) ==
    /\ pc[c] = "idle" /\ "remove" \in Ops
    /\ IF IndexOf(k, i) # 0
       THEN Begin(c, "write", Locals("remove", k, i, rows[i].text))
       ELSE Refuse(c, "notFound", k, rows[i].text)
    /\ UNCHANGED <<rows, parents, cache>>

RemoveCommit(c) ==
    /\ pc[c] = "write" /\ local[c].op = "remove"
    /\ IF local[c].id \in ActiveIds(local[c].key)
       THEN /\ rows' = [rows EXCEPT ![local[c].id].removed = TRUE]
            /\ Continue(c, "apply")
            /\ UNCHANGED local
       ELSE /\ Return(c, "removeFailed")
            /\ UNCHANGED rows
    /\ UNCHANGED <<parents, cache>>

\* Mutant: off by one.
RemoveApplyNext(c) ==
    /\ pc[c] = "apply" /\ local[c].op = "remove"
    /\ cache' = [cache EXCEPT ![local[c].key] = Splice(@, local[c].index + 1)]
    /\ Return(c, "removed")
    /\ UNCHANGED <<rows, parents>>

\* What is spliced out is whatever stands where the text was before.
RemoveApply(c) ==
    /\ pc[c] = "apply" /\ local[c].op = "remove"
    /\ cache' = [cache EXCEPT ![local[c].key] = Splice(@, local[c].index)]
    /\ Return(c, "removed")
    /\ UNCHANGED <<rows, parents>>

-----------------------------------------------------------------------------
(* restoreCommandText                                                      *)

RestoreCall(c, k, i) ==
    /\ pc[c] = "idle" /\ "restore" \in Ops
    /\ IF IndexOf(k, i) = 0
       THEN Begin(c, "lookup", Locals("restore", k, i, rows[i].text))
       ELSE Refuse(c, "alreadyActive", k, rows[i].text)
    /\ UNCHANGED <<rows, parents, cache>>

RestoreLookup(c) ==
    LET k == local[c].key
        i == local[c].id
    IN  /\ pc[c] = "lookup" /\ local[c].op = "restore"
        /\ IF parents[k] = "active" /\ rows[i].key = k /\ rows[i].removed
           THEN /\ local' = [local EXCEPT ![c].text = rows[i].text]
                /\ Continue(c, "write")
           ELSE Return(c, "notFound")
        /\ UNCHANGED <<rows, parents, cache>>

RestoreCommit(c) ==
    /\ pc[c] = "write" /\ local[c].op = "restore"
    /\ rows' = [rows EXCEPT ![local[c].id].removed = FALSE]
    /\ Continue(c, "apply")
    /\ UNCHANGED <<parents, cache, local>>

\* Whether the key had an entry was read before the transaction.
RestoreApply(c) ==
    LET k == local[c].key
        response == [id |-> local[c].id, text |-> local[c].text]
    IN  /\ pc[c] = "apply" /\ local[c].op = "restore"
        /\ cache' = [cache EXCEPT ![k] = IF local[c].entry THEN Append(@, response)
                                         ELSE <<response>>]
        /\ Return(c, "restored")
        /\ UNCHANGED <<rows, parents>>

-----------------------------------------------------------------------------
\* The transaction fails (no connection, an invalid text): it is rolled back, and
\* the call reports it or throws.
TransactionFails(c) ==
    /\ pc[c] \in {"lookup", "write"}
    /\ Return(c, CASE local[c].op = "add"     -> "insertFailed"
                   [] local[c].op = "update"  -> "updateFailed"
                   [] local[c].op = "remove"  -> "removeFailed"
                   [] local[c].op = "restore" -> "notFound")
    /\ UNCHANGED <<rows, parents, cache>>

\* The process dies and comes back: the calls in flight are gone, a transaction
\* that had not committed with them, and initialize loads the cache.
Restart ==
    /\ cache' = Loaded
    /\ pc' = [c \in Calls |-> "idle"]
    /\ local' = [c \in Calls |-> Idle]
    /\ answer' = [c \in Calls |-> Silent]
    /\ UNCHANGED <<rows, parents>>

CallStep(c) ==
    \/ AddLookup(c) \/ AddCommit(c) \/ AddApply(c)
    \/ UpdateCommit(c) \/ UpdateApply(c)
    \/ RemoveCommit(c) \/ RemoveApply(c)
    \/ RestoreLookup(c) \/ RestoreCommit(c) \/ RestoreApply(c)
    \/ TransactionFails(c)

Next ==
    \/ \E c \in Calls, k \in Keys, t \in Texts : AddCall(c, k, t)
    \/ \E c \in Calls, k \in Keys, i \in DOMAIN rows :
           \/ \E t \in Texts : UpdateCall(c, k, i, t)
           \/ RemoveCall(c, k, i)
           \/ RestoreCall(c, k, i)
    \/ \E c \in Calls : CallStep(c)
    \/ Restart

Spec == Init /\ [][Next]_vars

-----------------------------------------------------------------------------
(* Properties.                                                             *)

Quiet == \A c \in Calls : pc[c] = "idle"

Served(k) == IF cache[k] = NoEntry THEN {} ELSE {cache[k][n] : n \in DOMAIN cache[k]}

Stored(k) == {ResponseOf(i) : i \in ActiveIds(k)}

\* With no call in flight, the texts the bot picks from are those the database
\* holds active: none is missing, none is stale.
ServedIsStored == Quiet => \A k \in Keys : Served(k) = Stored(k)

\* "Writes through the service keep the cache in sync" (docs/command-system.md,
\* Database-Backed Responses): moreover each text is there once, so that none is
\* picked more often than its share.
CacheInSync ==
    Quiet => \A k \in Keys :
        /\ Served(k) = Stored(k)
        /\ \A i \in ActiveIds(k) : Cardinality(Places(k, i)) = 1

\* While calls are in flight too, the bot never says a text that the database
\* does not hold active.  (Only where texts are not edited or removed.)
NothingUnstoredServed == \A k \in Keys : Served(k) \subseteq Stored(k)

\* A caller told that a text already exists can rely on it: the database has it,
\* active, under that key.  (Only where texts are not edited or removed.)
AlreadyExistsIsTrue ==
    \A c \in Calls :
        answer[c].result = "alreadyExists" =>
            RowsLike(answer[c].key, answer[c].text) \cap ActiveIds(answer[c].key) # {}

\* A write changes the database or nothing: no call alters the cache unless its
\* transaction has committed, and a refused or failed call leaves the cache as
\* it found it.
CacheFollowsCommit ==
    [][\A k \in Keys : cache'[k] # cache[k] =>
          \/ \E c \in Calls : pc[c] = "apply" /\ local[c].key = k
          \/ cache' = Loaded]_vars
=============================================================================
