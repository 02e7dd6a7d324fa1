------------------------ MODULE CommandResponsesProofs ------------------------
(***************************************************************************)
(* The invariants of CommandResponses, for all values of the constants:    *)
(* the types and CacheFollowsCommit for any calls in flight, the service   *)
(* with texts only added from any number of callers, and with all its      *)
(* operations one call at a time.                                          *)
(***************************************************************************)
EXTENDS CommandResponses, Integers, SequenceTheorems, FiniteSetTheorems, WellFoundedInduction, TLAPS

-----------------------------------------------------------------------------
(* Sets and sequences.                                                     *)

LEMMA MinExists ==
    ASSUME NEW S \in SUBSET Nat, S # {}
    PROVE  Min(S) \in S /\ \A x \in S : Min(S) <= x
<1>1. PICK m \in S : \A x \in S : ~(<<x, m>> \in OpToRel(<, Nat))
  BY NatLessThanWellFounded, WFMin
<1>2. \A x \in S : m <= x
  <2> SUFFICES ASSUME NEW x \in S, x < m PROVE FALSE
    OBVIOUS
  <2>1. <<x, m>> \in OpToRel(<, Nat)
    BY DEF OpToRel
  <2> QED
    BY <1>1, <2>1
<1> QED
  BY <1>2 DEF Min

\* A sequence without repetition whose elements are those of R; no entry stands for
\* the empty one.
Lists(s, R) ==
    /\ DOMAIN s = 1..Len(s) /\ Len(s) \in Nat
    /\ \A n \in DOMAIN s : s[n] \in R
    /\ \A r \in R : \E n \in DOMAIN s : s[n] = r
    /\ \A m, n \in DOMAIN s : s[m] = s[n] => m = n

LEMMA SetToSeqLists ==
    ASSUME NEW S, IsFiniteSet(S)
    PROVE  SetToSeq(S) \in Seq(S) /\ Lists(SetToSeq(S), S)
<1> DEFINE N == Cardinality(S)
           f == SetToSeq(S)
<1>1. N \in Nat /\ ExistsBijection(1..N, S)
  BY FS_CardinalityType
<1>2. \E g \in [1..N -> S] : IsInjective(g)
  BY <1>1 DEF ExistsBijection, Bijection, Injection, IsInjective
<1>3. f \in [1..N -> S] /\ IsInjective(f)
  BY <1>2 DEF SetToSeq
<1>4. f \in Injection(1..N, S)
  BY <1>3 DEF Injection, IsInjective
<1>5. IsFiniteSet(1..N) /\ Cardinality(1..N) = N
  BY <1>1, FS_Interval
<1>6. f \in Surjection(1..N, S)
  BY <1>4, <1>5, FS_Injection
<1> HIDE DEF f
<1>7. f \in Seq(S) /\ Len(f) = N
  BY <1>1, <1>3
<1>8. Lists(f, S)
  BY <1>1, <1>3, <1>6, <1>7 DEF Lists, IsInjective, Surjection
<1> QED
  BY <1>7, <1>8 DEF f


-----------------------------------------------------------------------------
(* The types.                                                              *)

Entry == Seq(Response \cup {Hole})

\* A call in flight knows a row once it needs one, and its key has an entry if it had
\* one when the call began.
Sound(p, l, rs, ps, ca) ==
    /\ l \in Local
    /\ l.op # "add" \/ p = "apply" => l.id # 0
    /\ l.op = "add" /\ p = "lookup" => l.id = 0
    /\ l.id # 0 => l.id \in DOMAIN rs
    /\ l.op \in {"update", "remove"} => l.entry
    /\ l.entry => ca[l.key] # NoEntry
    /\ p \in {"write", "apply"} /\ l.op \in {"add", "restore"} /\ l.id # 0 =>
           /\ rs[l.id].key = l.key
           /\ l.op = "restore" => ps[l.key] = "active"

CallsSound == \A c \in Calls : pc[c] # "idle" => Sound(pc[c], local[c], rows, parents, cache)

\* A parent is never removed while it has an active text.
Parented == \A i \in DOMAIN rows : ~rows[i].removed => parents[rows[i].key] = "active"

BaseInv == TypeOK /\ CallsSound /\ Parented

LEMMA RowTypes ==
    ASSUME rows \in Seq(Row), Len(rows) <= MaxRows
    PROVE  /\ Len(rows) \in Nat /\ DOMAIN rows = 1..Len(rows) /\ MaxRows \in Nat
           /\ \A i \in DOMAIN rows : /\ i \in Ids /\ i \in Nat
                                     /\ rows[i] \in Row /\ rows[i].key \in Keys
                                     /\ rows[i].text \in Texts /\ rows[i].removed \in BOOLEAN
                                     /\ ResponseOf(i) \in Response
<1>1. rows \in Seq(Row) /\ Len(rows) <= MaxRows /\ MaxRows \in Nat
  BY ConstantsAssumption
<1>2. Len(rows) \in Nat /\ DOMAIN rows = 1..Len(rows) /\ \A i \in DOMAIN rows : rows[i] \in Row
  BY <1>1
<1>3. \A i \in DOMAIN rows : i \in Ids /\ i \in Nat
  BY <1>1, <1>2 DEF Ids
<1>4. \A i \in DOMAIN rows : /\ rows[i].key \in Keys /\ rows[i].text \in Texts
                             /\ rows[i].removed \in BOOLEAN
  BY <1>2 DEF Row
<1>5. \A i \in DOMAIN rows : ResponseOf(i) \in Response
  BY <1>3, <1>4 DEF ResponseOf, Response
<1> QED
  BY <1>1, <1>2, <1>3, <1>4, <1>5

LEMMA BaseTypes ==
    ASSUME TypeOK
    PROVE  /\ rows \in Seq(Row) /\ Len(rows) \in Nat /\ DOMAIN rows = 1..Len(rows) /\ MaxRows \in Nat
           /\ \A i \in DOMAIN rows : /\ i \in Ids /\ i \in Nat
                                     /\ rows[i] \in Row /\ rows[i].key \in Keys
                                     /\ rows[i].text \in Texts /\ rows[i].removed \in BOOLEAN
                                     /\ ResponseOf(i) \in Response
           /\ \A k \in Keys : cache[k] # NoEntry => cache[k] \in Entry
<1>1. rows \in Seq(Row) /\ Len(rows) <= MaxRows
  BY DEF TypeOK
<1>2. \A k \in Keys : cache[k] # NoEntry => cache[k] \in Entry
  BY DEF TypeOK, Entry
<1> QED
  BY <1>1, <1>2, RowTypes

\* initialize lists the active texts of every key, once each.
LEMMA LoadedLists ==
    ASSUME rows \in Seq(Row), Len(rows) <= MaxRows, Parented, NEW k \in Keys
    PROVE  /\ Loaded[k] \in Entry \cup {NoEntry}
           /\ Loaded[k] = NoEntry => Stored(k) = {}
           /\ Loaded[k] # NoEntry => Lists(Loaded[k], Stored(k))
<1> DEFINE ids == SetToSeq(ActiveIds(k))
<1>1. ActiveIds(k) \subseteq DOMAIN rows /\ IsFiniteSet(ActiveIds(k))
  <2>1. IsFiniteSet(DOMAIN rows)
    BY RowTypes, FS_Interval
  <2> QED
    BY <2>1, FS_Subset DEF ActiveIds
<1>2. ids \in Seq(ActiveIds(k)) /\ Lists(ids, ActiveIds(k))
  BY <1>1, SetToSeqLists
<1> HIDE DEF ids
<1> DEFINE said == [n \in DOMAIN ids |-> ResponseOf(ids[n])]
<1>3. DOMAIN ids = 1..Len(ids) /\ Len(ids) \in Nat /\ \A n \in DOMAIN ids : ids[n] \in ActiveIds(k)
  BY <1>2 DEF Lists
<1>4. \A i \in ActiveIds(k) : ResponseOf(i) \in Response /\ ResponseOf(i).id = i
  BY <1>1, RowTypes DEF ResponseOf
<1>5. said \in Seq(Response) /\ Len(said) = Len(ids) /\ DOMAIN said = DOMAIN ids
  BY <1>3, <1>4
<1>6. Lists(said, Stored(k))
  <2>1. \A n \in DOMAIN said : said[n] = ResponseOf(ids[n])
    OBVIOUS
  <2> HIDE DEF said
  <2>2. \A n \in DOMAIN said : said[n] \in Stored(k)
    BY <1>3, <1>5, <2>1 DEF Stored
  <2>3. \A r \in Stored(k) : \E n \in DOMAIN said : said[n] = r
    BY <1>2, <1>5, <2>1 DEF Stored, Lists
  <2>4. \A m, n \in DOMAIN said : said[m] = said[n] => m = n
    BY <1>2, <1>3, <1>4, <1>5, <2>1 DEF Lists
  <2> QED
    BY <1>3, <1>5, <2>2, <2>3, <2>4 DEF Lists
<1>7. said = ActiveTexts(k)
  BY DEF ActiveTexts, ids
<1>8. said \in Entry
  BY <1>5, <1>3, <1>4 DEF Entry
<1> HIDE DEF said
<1>9. Loaded[k] = IF parents[k] = "active" THEN said ELSE NoEntry
  BY <1>7 DEF Loaded
<1>10. parents[k] # "active" => Stored(k) = {}
  BY DEF Parented, Stored, ActiveIds
<1>11. said # NoEntry
  BY <1>8, SlotsAssumption DEF Entry
<1> QED
  BY <1>6, <1>8, <1>9, <1>10, <1>11


LEMMA InitBaseInv == Init => BaseInv
<1> SUFFICES ASSUME Init PROVE BaseInv
  OBVIOUS
<1> USE DEF Init
<1>1. rows \in Seq(Row) /\ Len(rows) <= MaxRows
  BY ConstantsAssumption
<1>2. TypeOK /\ Parented
  <2> DEFINE NoCache == [k \in Keys |-> NoEntry]
  <2>1. DOMAIN rows = 1..Len(rows) /\ \A i \in DOMAIN rows : rows[i] \in Row
    BY <1>1
  <2>2. Parented
    BY <2>1 DEF Parented, Row
  <2>3. /\ pc \in [Calls -> {"idle", "lookup", "write", "apply"}]
        /\ local \in [Calls -> Local \cup {Idle}]
        /\ \A c \in Calls : pc[c] = "idle" <=> local[c] = Idle
    OBVIOUS
  <2>4. answer \in [Calls -> Answered \cup {Silent}]
    OBVIOUS
  <2>5. \A k \in Keys : Loaded[k] \in Entry \cup {NoEntry}
    BY <1>1, <2>2, LoadedLists
  <2>6. cache \in [Keys -> Entry \cup {NoEntry}]
    BY <2>5 DEF Loaded
  <2> QED
    BY <1>1, <2>2, <2>3, <2>4, <2>6 DEF TypeOK, Entry
<1>3. CallsSound
  BY DEF CallsSound
<1> QED
  BY <1>2, <1>3 DEF BaseInv

\* No row goes and none changes its key, no active parent is removed and no entry is
\* dropped.
TablesGrow ==
    /\ rows' \in Seq(Row) /\ Len(rows') <= MaxRows /\ DOMAIN rows \subseteq DOMAIN rows'
    /\ \A i \in DOMAIN rows : rows'[i].key = rows[i].key
    /\ parents' \in [Keys -> {"absent", "active", "removed"}]
    /\ \A k \in Keys : parents[k] = "active" => parents'[k] = "active"
    /\ cache' \in [Keys -> Entry \cup {NoEntry}]
    /\ \A k \in Keys : cache[k] # NoEntry => cache'[k] # NoEntry

\* What a call relies on outlives the steps of the others.
LEMMA SoundStays ==
    ASSUME TablesGrow, NEW p, NEW l, Sound(p, l, rows, parents, cache)
    PROVE  Sound(p, l, rows', parents', cache')
<1>1. l \in Local /\ l.key \in Keys
  BY DEF Sound, Local
<1> QED
  BY <1>1 DEF Sound, TablesGrow

LEMMA CallMoves ==
    ASSUME BaseInv, TablesGrow, Parented', NEW c \in Calls,
           NEW p \in {"idle", "lookup", "write", "apply"}, NEW l,
           pc' = [pc EXCEPT ![c] = p], local' = [local EXCEPT ![c] = l],
           p = "idle" => l = Idle,
           p # "idle" => Sound(p, l, rows', parents', cache'),
           answer' \in [Calls -> Answered \cup {Silent}]
    PROVE  BaseInv'
<1>1. /\ pc \in [Calls -> {"idle", "lookup", "write", "apply"}]
      /\ local \in [Calls -> Local \cup {Idle}]
      /\ \A d \in Calls : pc[d] = "idle" <=> local[d] = Idle
  BY DEF BaseInv, TypeOK
<1>2. \A d \in Calls : /\ pc'[d] = IF d = c THEN p ELSE pc[d]
                       /\ local'[d] = IF d = c THEN l ELSE local[d]
  BY <1>1
<1>3. p # "idle" => l \in Local /\ l # Idle
  BY SlotsAssumption DEF Sound
<1>4. /\ pc' \in [Calls -> {"idle", "lookup", "write", "apply"}]
      /\ local' \in [Calls -> Local \cup {Idle}]
      /\ \A d \in Calls : pc'[d] = "idle" <=> local'[d] = Idle
  BY <1>1, <1>2, <1>3
<1>5. TypeOK'
  BY <1>4 DEF TablesGrow, TypeOK, Entry
<1>6. CallsSound'
  <2> SUFFICES ASSUME NEW d \in Calls, pc'[d] # "idle"
               PROVE  Sound(pc'[d], local'[d], rows', parents', cache')
    BY DEF CallsSound
  <2>1. CASE d = c
    BY <1>2, <2>1
  <2>2. CASE d # c
    <3>1. pc'[d] = pc[d] /\ local'[d] = local[d]
      BY <1>2, <2>2
    <3>2. Sound(pc[d], local[d], rows, parents, cache)
      BY <3>1 DEF BaseInv, CallsSound
    <3>3. Sound(pc[d], local[d], rows', parents', cache')
      BY <3>2, SoundStays
    <3> QED
      BY <3>1, <3>3
  <2> QED
    BY <2>1, <2>2
<1> QED
  BY <1>5, <1>6 DEF BaseInv

LEMMA IndexIs ==
    ASSUME TypeOK, NEW k \in Keys, NEW i
    PROVE  /\ IndexOf(k, i) \in Nat
           /\ IndexOf(k, i) # 0 =>
                  /\ cache[k] # NoEntry /\ IndexOf(k, i) \in DOMAIN cache[k]
                  /\ cache[k][IndexOf(k, i)] # Hole /\ cache[k][IndexOf(k, i)].id = i
           /\ IndexOf(k, i) = 0 => Places(k, i) = {}
<1>1. CASE Places(k, i) = {}
  BY <1>1 DEF IndexOf
<1>2. CASE Places(k, i) # {}
  <2>1. cache[k] \in Entry /\ cache[k] # NoEntry
    BY <1>2, BaseTypes DEF Places
  <2>2. DOMAIN cache[k] \subseteq Nat \ {0}
    BY <2>1 DEF Entry
  <2>3. Places(k, i) \in SUBSET (Nat \ {0})
    BY <2>1, <2>2 DEF Places
  <2>4. Min(Places(k, i)) \in Places(k, i)
    BY <1>2, <2>3, MinExists
  <2>5. IndexOf(k, i) = Min(Places(k, i))
    BY <1>2 DEF IndexOf
  <2> QED
    BY <2>1, <2>3, <2>4, <2>5 DEF Places
<1> QED
  BY <1>1, <1>2


-----------------------------------------------------------------------------
(* The parts of a call.                                                    *)

LEMMA TablesStay ==
    ASSUME BaseInv, UNCHANGED <<rows, parents, cache>>
    PROVE  TablesGrow /\ Parented'
<1>1. TablesGrow
  BY DEF BaseInv, TypeOK, TablesGrow, Entry
<1> QED
  BY <1>1 DEF BaseInv, Parented

LEMMA EntryChanges ==
    ASSUME BaseInv, UNCHANGED <<rows, parents>>, NEW k \in Keys, NEW s \in Entry,
           cache' = [cache EXCEPT ![k] = s]
    PROVE  TablesGrow /\ Parented'
<1>1. s # NoEntry
  BY SlotsAssumption DEF Entry
<1>2. cache \in [Keys -> Entry \cup {NoEntry}]
  BY DEF BaseInv, TypeOK, Entry
<1>3. /\ cache' \in [Keys -> Entry \cup {NoEntry}]
      /\ \A j \in Keys : cache[j] # NoEntry => cache'[j] # NoEntry
  BY <1>1, <1>2
<1>4. TablesGrow
  BY <1>3 DEF BaseInv, TypeOK, TablesGrow
<1> QED
  BY <1>4 DEF BaseInv, Parented

\* The rows change at one place, and there neither the key nor, if the text becomes
\* active, its parent is missing.
LEMMA RowChanges ==
    ASSUME BaseInv, UNCHANGED cache, NEW i \in DOMAIN rows, NEW row \in Row,
           rows' = [rows EXCEPT ![i] = row], row.key = rows[i].key,
           parents' \in [Keys -> {"absent", "active", "removed"}],
           \A k \in Keys : parents[k] = "active" => parents'[k] = "active",
           ~row.removed => parents'[row.key] = "active"
    PROVE  TablesGrow /\ Parented'
<1>1. rows \in Seq(Row) /\ Len(rows) <= MaxRows /\ \A j \in DOMAIN rows : rows[j].key \in Keys
  BY BaseTypes DEF BaseInv, TypeOK
<1>2. rows' \in Seq(Row) /\ Len(rows') = Len(rows) /\ DOMAIN rows' = DOMAIN rows
  BY <1>1
<1>3. \A j \in DOMAIN rows : rows'[j] = IF j = i THEN row ELSE rows[j]
  BY <1>1
<1>4. TablesGrow
  BY <1>1, <1>2, <1>3 DEF BaseInv, TypeOK, TablesGrow, Entry
<1> QED
  BY <1>1, <1>2, <1>3, <1>4 DEF BaseInv, Parented

LEMMA LocalTypes ==
    ASSUME NEW l \in Local
    PROVE  /\ l.op \in AllOps /\ l.key \in Keys /\ l.text \in Texts /\ l.id \in Ids \cup {0}
           /\ l.index \in Nat /\ l.entry \in BOOLEAN /\ l.locks \in BOOLEAN
BY DEF Local

LEMMA CallTypes ==
    ASSUME BaseInv, NEW c \in Calls, pc[c] # "idle"
    PROVE  /\ local[c] \in Local /\ local[c].op \in AllOps /\ local[c].key \in Keys
           /\ local[c].text \in Texts /\ local[c].id \in Ids \cup {0} /\ local[c].index \in Nat
           /\ Sound(pc[c], local[c], rows, parents, cache)
           /\ (local[c].op # "add" \/ pc[c] = "apply") => local[c].id # 0
           /\ local[c].id # 0 => local[c].id \in DOMAIN rows
           /\ (local[c].op \in {"update", "remove"} \/ local[c].entry) =>
                  cache[local[c].key] # NoEntry /\ cache[local[c].key] \in Entry
<1>1. Sound(pc[c], local[c], rows, parents, cache)
  BY DEF BaseInv, CallsSound
<1>2. local[c] \in Local
  BY <1>1 DEF Sound
<1>3. /\ local[c].op \in AllOps /\ local[c].key \in Keys /\ local[c].text \in Texts
      /\ local[c].id \in Ids \cup {0} /\ local[c].index \in Nat
  BY <1>2, LocalTypes
<1>4. /\ (local[c].op # "add" \/ pc[c] = "apply") => local[c].id # 0
      /\ local[c].id # 0 => local[c].id \in DOMAIN rows
      /\ (local[c].op \in {"update", "remove"} \/ local[c].entry) => cache[local[c].key] # NoEntry
  BY <1>1 DEF Sound
<1>5. cache[local[c].key] # NoEntry => cache[local[c].key] \in Entry
  BY <1>3, BaseTypes DEF BaseInv
<1> QED
  BY <1>1, <1>2, <1>3, <1>4, <1>5

LEMMA Answering ==
    ASSUME BaseInv, NEW c \in Calls, NEW result \in Results, NEW k \in Keys, NEW t \in Texts,
           Answer(c, result, k, t)
    PROVE  answer' \in [Calls -> Answered \cup {Silent}]
<1> DEFINE said == [result |-> result, key |-> k, text |-> t]
<1>1. said \in Answered
  BY DEF Answered
<1>2. answer' = [answer EXCEPT ![c] = said]
  BY DEF Answer
<1> HIDE DEF said
<1> QED
  BY <1>1, <1>2 DEF BaseInv, TypeOK

LEMMA Refusing ==
    ASSUME BaseInv, NEW c \in Calls, NEW result \in Results, NEW k \in Keys, NEW t \in Texts,
           Refuse(c, result, k, t), UNCHANGED <<rows, parents, cache>>
    PROVE  BaseInv'
<1>1. answer' \in [Calls -> Answered \cup {Silent}] /\ UNCHANGED <<pc, local>>
  BY Answering DEF Refuse
<1>2. TypeOK' /\ Parented'
  BY <1>1 DEF BaseInv, TypeOK, Parented
<1>3. CallsSound'
  BY <1>1 DEF BaseInv, CallsSound
<1> QED
  BY <1>2, <1>3 DEF BaseInv

LEMMA Beginning ==
    ASSUME BaseInv, NEW c \in Calls, NEW p \in {"lookup", "write"}, NEW op \in AllOps, NEW k \in Keys,
           NEW i \in Ids \cup {0}, NEW t \in Texts,
           Begin(c, p, Locals(op, k, i, t)), UNCHANGED <<rows, parents, cache>>,
           op # "add" => i \in DOMAIN rows, op = "add" => i = 0 /\ p = "lookup",
           op = "restore" => p = "lookup", op \in {"update", "remove"} => IndexOf(k, i) # 0
    PROVE  BaseInv'
<1> DEFINE l == Locals(op, k, i, t)
<1>1. /\ pc' = [pc EXCEPT ![c] = p] /\ local' = [local EXCEPT ![c] = l] /\ UNCHANGED answer
  BY DEF Begin
<1>2. IndexOf(k, i) \in Nat /\ (IndexOf(k, i) # 0 => cache[k] # NoEntry)
  BY IndexIs DEF BaseInv
<1>3. l \in Local
  BY <1>2 DEF Locals, Local
<1>4. /\ l.op = op /\ l.key = k /\ l.id = i
      /\ l.entry <=> cache[k] # NoEntry
  BY DEF Locals
<1> HIDE DEF l
<1>5. 0 \notin DOMAIN rows
  BY BaseTypes DEF BaseInv
<1>6. Sound(p, l, rows', parents', cache')
  BY <1>2, <1>3, <1>4, <1>5 DEF Sound, AllOps
<1>7. answer' \in [Calls -> Answered \cup {Silent}]
  BY <1>1 DEF BaseInv, TypeOK
<1>8. TablesGrow /\ Parented'
  BY TablesStay
<1> QED
  BY <1>1, <1>6, <1>7, <1>8, CallMoves

LEMMA Continuing ==
    ASSUME BaseInv, NEW c \in Calls, NEW p \in {"write", "apply"}, Continue(c, p), NEW l,
           local' = [local EXCEPT ![c] = l], Sound(p, l, rows', parents', cache'),
           TablesGrow, Parented'
    PROVE  BaseInv'
<1>1. pc' = [pc EXCEPT ![c] = p] /\ answer' \in [Calls -> Answered \cup {Silent}]
  BY DEF Continue, BaseInv, TypeOK
<1> QED
  BY <1>1, CallMoves

LEMMA Returning ==
    ASSUME BaseInv, NEW c \in Calls, pc[c] # "idle", NEW result \in Results, Return(c, result),
           TablesGrow, Parented'
    PROVE  BaseInv'
<1>1. /\ pc' = [pc EXCEPT ![c] = "idle"] /\ local' = [local EXCEPT ![c] = Idle]
      /\ answer' \in [Calls -> Answered \cup {Silent}]
  BY CallTypes, Answering DEF Return
<1> QED
  BY <1>1, CallMoves


-----------------------------------------------------------------------------
(* addCommandText keeps the types.                                         *)

LEMMA AddCallBase ==
    ASSUME BaseInv, NEW c \in Calls, NEW k \in Keys, NEW t \in Texts, AddCall(c, k, t)
    PROVE  BaseInv'
<1>1. UNCHANGED <<rows, parents, cache>>
  BY DEF AddCall
<1>2. CASE k \in FamilyKeys
  BY <1>1, <1>2, Beginning DEF AddCall, AllOps
<1>3. CASE k \notin FamilyKeys
  BY <1>1, <1>3, Refusing DEF AddCall, Results
<1> QED
  BY <1>2, <1>3

\* What addCommandText has found when its look-up ends.
LEMMA AddLookupFinds ==
    ASSUME BaseInv, NEW c \in Calls, AddLookup(c)
    PROVE  /\ pc[c] = "lookup" /\ local[c].op = "add" /\ UNCHANGED <<rows, parents, cache>>
           /\ Continue(c, "write")
           /\ \E l \in Local :
                  /\ local' = [local EXCEPT ![c] = l]
                  /\ l.op = "add" /\ l.key = local[c].key /\ l.entry = local[c].entry
                  /\ \/ /\ {i \in RowsLike(l.key, l.text) : rows[i].removed} = {}
                        /\ l.id = local[c].id /\ l.text = local[c].text
                     \/ /\ l.id \in DOMAIN rows /\ rows[l.id].removed
                        /\ l.text = rows[l.id].text /\ rows[l.id].key = l.key
<1> DEFINE locks == parents[local[c].key] # "active"
           removed == {i \in RowsLike(local[c].key, local[c].text) : rows[i].removed}
<1>1. /\ pc[c] = "lookup" /\ local[c].op = "add" /\ UNCHANGED <<rows, parents, cache>>
      /\ Continue(c, "write")
  BY DEF AddLookup
<1>2. local[c] \in Local /\ local \in [Calls -> Local \cup {Idle}]
  BY <1>1, CallTypes DEF BaseInv, TypeOK
<1>3. ASSUME NEW l0 \in Local, NEW b \in BOOLEAN
      PROVE  [l0 EXCEPT !.locks = b] \in Local
  BY <1>3 DEF Local
<1>4. ASSUME NEW l0 \in Local, NEW b \in BOOLEAN, NEW i \in Ids, NEW t \in Texts
      PROVE  [l0 EXCEPT !.id = i, !.text = t, !.locks = b] \in Local
  BY <1>4 DEF Local
<1>5. locks \in BOOLEAN
  OBVIOUS
<1>6. CASE removed = {}
  <2> DEFINE l == [local[c] EXCEPT !.locks = locks]
  <2>1. local' = [local EXCEPT ![c] = l]
    BY <1>6 DEF AddLookup
  <2>2. l \in Local
    BY <1>2, <1>3, <1>5
  <2>3. /\ l.op = local[c].op /\ l.key = local[c].key /\ l.entry = local[c].entry
        /\ l.id = local[c].id /\ l.text = local[c].text
    BY <1>2 DEF Local
  <2> HIDE DEF l
  <2> QED
    BY <1>1, <1>6, <2>1, <2>2, <2>3
<1>7. CASE removed # {}
  <2>1. PICK i \in removed : local' = [local EXCEPT ![c].id = i, ![c].text = rows[i].text,
                                                    ![c].locks = locks]
    BY <1>7 DEF AddLookup
  <2>2. /\ i \in DOMAIN rows /\ rows[i].key = local[c].key /\ rows[i].removed
        /\ i \in Ids /\ rows[i].text \in Texts
    BY BaseTypes DEF RowsLike, BaseInv
  <2> DEFINE l == [local[c] EXCEPT !.id = i, !.text = rows[i].text, !.locks = locks]
  <2>3. local' = [local EXCEPT ![c] = l]
    BY <1>2, <2>1
  <2>4. l \in Local
    BY <1>2, <1>4, <1>5, <2>2
  <2>5. /\ l.op = local[c].op /\ l.key = local[c].key /\ l.entry = local[c].entry
        /\ l.id = i /\ l.text = rows[i].text
    BY <1>2 DEF Local
  <2> HIDE DEF l
  <2> QED
    BY <1>1, <2>2, <2>3, <2>4, <2>5
<1> QED
  BY <1>6, <1>7

LEMMA AddLookupBase == ASSUME BaseInv, NEW c \in Calls, AddLookup(c) PROVE BaseInv'
<1>1. /\ pc[c] = "lookup" /\ local[c].op = "add" /\ UNCHANGED <<rows, parents, cache>>
      /\ Continue(c, "write")
  BY AddLookupFinds
<1>2. PICK l \in Local :
          /\ local' = [local EXCEPT ![c] = l]
          /\ l.op = "add" /\ l.key = local[c].key /\ l.entry = local[c].entry
          /\ \/ l.id = local[c].id
             \/ l.id \in DOMAIN rows /\ rows[l.id].key = l.key
  BY AddLookupFinds
<1>3. Sound("write", l, rows', parents', cache')
  BY <1>1, <1>2, CallTypes DEF Sound
<1> QED
  BY <1>1, <1>2, <1>3, TablesStay, Continuing


\* addCommandText's transaction restores a row, ...
Restores(c, l) ==
    /\ l.id \in DOMAIN rows /\ rows[l.id].key = l.key
    /\ \E row \in Row : /\ row.key = l.key /\ row.text = rows[l.id].text /\ ~row.removed
                        /\ rows' = [rows EXCEPT ![l.id] = row]
    /\ parents' = [parents EXCEPT ![l.key] = "active"]
    /\ Continue(c, "apply") /\ local' = [local EXCEPT ![c] = l]

\* ... inserts one, ...
Inserts(c, l) ==
    /\ l.id = 0 /\ RowsLike(l.key, l.text) = {}
    /\ \E row \in Row, m \in Local :
           /\ row.key = l.key /\ row.text = l.text /\ ~row.removed
           /\ rows' = Append(rows, row) /\ Len(rows) + 1 <= MaxRows
           /\ m.op = "add" /\ m.key = l.key /\ m.text = l.text /\ m.entry = l.entry
           /\ m.id = Len(rows) + 1 /\ local' = [local EXCEPT ![c] = m]
    /\ parents' = [parents EXCEPT ![l.key] = "active"]
    /\ Continue(c, "apply")

\* ... or finds the text taken.
Taken(c, l) ==
    /\ l.id = 0 /\ RowsLike(l.key, l.text) # {}
    /\ Return(c, "alreadyExists") /\ UNCHANGED <<rows, parents>>

LEMMA AddCommitDoes ==
    ASSUME BaseInv, NEW c \in Calls, AddCommit(c), NEW l, l = local[c]
    PROVE  /\ pc[c] = "write" /\ l.op = "add" /\ l \in Local /\ UNCHANGED cache
           /\ Restores(c, l) \/ Inserts(c, l) \/ Taken(c, l)
<1>1. pc[c] = "write" /\ l.op = "add" /\ UNCHANGED cache
  BY DEF AddCommit
<1>2. /\ l \in Local /\ l.key \in Keys /\ l.text \in Texts /\ Sound("write", l, rows, parents, cache)
      /\ local \in [Calls -> Local \cup {Idle}]
  BY <1>1, CallTypes DEF BaseInv, TypeOK
<1>3. CASE l.id # 0
  <2> DEFINE row == [rows[l.id] EXCEPT !.removed = FALSE]
  <2>1. l.id \in DOMAIN rows /\ rows[l.id].key = l.key /\ rows[l.id] \in Row
    BY <1>1, <1>2, <1>3, BaseTypes DEF Sound, BaseInv
  <2>2. ASSUME NEW r \in Row
        PROVE  /\ [r EXCEPT !.removed = FALSE] \in Row
               /\ [r EXCEPT !.removed = FALSE].key = r.key
               /\ [r EXCEPT !.removed = FALSE].text = r.text
               /\ ~[r EXCEPT !.removed = FALSE].removed
    BY <2>2 DEF Row
  <2>3. row \in Row /\ row.key = l.key /\ row.text = rows[l.id].text /\ ~row.removed
    BY <2>1, <2>2
  <2>4. /\ rows' = [rows EXCEPT ![l.id].removed = FALSE]
        /\ parents' = [parents EXCEPT ![l.key] = "active"]
        /\ Continue(c, "apply") /\ UNCHANGED local
    BY <1>3 DEF AddCommit
  <2>5. rows' = [rows EXCEPT ![l.id] = row]
    BY <2>1, <2>4
  <2>6. local' = [local EXCEPT ![c] = l]
    BY <1>2, <2>4
  <2> HIDE DEF row
  <2>7. \E r \in Row : /\ r.key = l.key /\ r.text = rows[l.id].text /\ ~r.removed
                       /\ rows' = [rows EXCEPT ![l.id] = r]
    BY <2>3, <2>5
  <2> QED
    BY <1>1, <1>2, <2>1, <2>4, <2>6, <2>7 DEF Restores
<1>4. CASE l.id = 0 /\ RowsLike(l.key, l.text) = {}
  <2> DEFINE row == [key |-> l.key, text |-> l.text, removed |-> FALSE]
             m == [l EXCEPT !.id = Len(rows) + 1]
  <2>1. /\ rows' = Append(rows, row) /\ Len(rows) + 1 <= MaxRows
        /\ parents' = [parents EXCEPT ![l.key] = "active"] /\ Continue(c, "apply")
        /\ local' = [local EXCEPT ![c].id = Len(rows) + 1]
    BY <1>4 DEF AddCommit
  <2>2. Len(rows) + 1 \in Ids
    BY <2>1, BaseTypes DEF BaseInv, Ids
  <2>3. m \in Local /\ m.op = l.op /\ m.key = l.key /\ m.text = l.text /\ m.entry = l.entry
        /\ m.id = Len(rows) + 1
    BY <1>2, <2>2 DEF Local
  <2>4. local' = [local EXCEPT ![c] = m]
    BY <1>2, <2>1
  <2>5. row \in Row /\ row.key = l.key /\ row.text = l.text /\ ~row.removed
    BY <1>2 DEF Row
  <2> HIDE DEF row, m
  <2>6. \E r \in Row, n \in Local :
            /\ r.key = l.key /\ r.text = l.text /\ ~r.removed
            /\ rows' = Append(rows, r) /\ Len(rows) + 1 <= MaxRows
            /\ n.op = "add" /\ n.key = l.key /\ n.text = l.text /\ n.entry = l.entry
            /\ n.id = Len(rows) + 1 /\ local' = [local EXCEPT ![c] = n]
    <3>1. /\ m \in Local /\ m.op = "add" /\ m.key = l.key /\ m.text = l.text /\ m.entry = l.entry
          /\ m.id = Len(rows) + 1 /\ local' = [local EXCEPT ![c] = m]
      BY <1>1, <2>3, <2>4
    <3>2. /\ row \in Row /\ row.key = l.key /\ row.text = l.text /\ ~row.removed
          /\ rows' = Append(rows, row) /\ Len(rows) + 1 <= MaxRows
      BY <2>1, <2>5
    <3> QED
      BY <3>1, <3>2
  <2> QED
    BY <1>1, <1>2, <1>4, <2>1, <2>6 DEF Inserts
<1>5. CASE l.id = 0 /\ RowsLike(l.key, l.text) # {}
  BY <1>1, <1>2, <1>5 DEF AddCommit, Taken
<1> QED
  BY <1>3, <1>4, <1>5

LEMMA AddCommitBase == ASSUME BaseInv, NEW c \in Calls, AddCommit(c) PROVE BaseInv'
<1> PICK l : l = local[c]
  OBVIOUS
<1>1. pc[c] = "write" /\ l.op = "add" /\ l \in Local /\ UNCHANGED cache
  BY AddCommitDoes
<1>2. l.key \in Keys /\ Sound("write", l, rows, parents, cache)
  BY <1>1, CallTypes
<1>3. /\ parents \in [Keys -> {"absent", "active", "removed"}]
      /\ parents[l.key] \in {"absent", "active", "removed"}
  BY <1>2 DEF BaseInv, TypeOK
<1>4. CASE Restores(c, l)
  <2>1. PICK row \in Row : /\ row.key = l.key /\ ~row.removed
                           /\ rows' = [rows EXCEPT ![l.id] = row]
    BY <1>4 DEF Restores
  <2>2. /\ parents' \in [Keys -> {"absent", "active", "removed"}]
        /\ \A k \in Keys : parents[k] = "active" => parents'[k] = "active"
        /\ parents'[l.key] = "active"
    BY <1>2, <1>3, <1>4 DEF Restores
  <2>3. TablesGrow /\ Parented'
    <3>1. l.id \in DOMAIN rows /\ row.key = rows[l.id].key /\ parents'[row.key] = "active"
      BY <1>4, <2>1, <2>2 DEF Restores
    <3> QED
      BY <1>1, <2>1, <2>2, <3>1, RowChanges
  <2>4. Sound("write", l, rows', parents', cache')
    BY <1>2, <2>3, SoundStays
  <2>5. 0 \notin DOMAIN rows
    BY BaseTypes DEF BaseInv
  <2>6. Sound("apply", l, rows', parents', cache')
    BY <1>4, <2>4, <2>5 DEF Sound, Restores
  <2> QED
    BY <1>4, <2>3, <2>6, Continuing DEF Restores
<1>5. CASE Inserts(c, l)
  <2>1. PICK row \in Row, m \in Local :
            /\ row.key = l.key /\ row.text = l.text /\ ~row.removed
            /\ rows' = Append(rows, row) /\ Len(rows) + 1 <= MaxRows
            /\ m.op = "add" /\ m.key = l.key /\ m.text = l.text /\ m.entry = l.entry
            /\ m.id = Len(rows) + 1 /\ local' = [local EXCEPT ![c] = m]
    BY <1>5 DEF Inserts
  <2>2. /\ parents' \in [Keys -> {"absent", "active", "removed"}]
        /\ \A k \in Keys : parents[k] = "active" => parents'[k] = "active"
        /\ parents'[l.key] = "active"
    BY <1>2, <1>3, <1>5 DEF Inserts
  <2>3. rows \in Seq(Row) /\ Len(rows) \in Nat /\ DOMAIN rows = 1..Len(rows)
        /\ \A i \in DOMAIN rows : rows[i].key \in Keys
    BY BaseTypes DEF BaseInv
  <2>4. /\ rows' \in Seq(Row) /\ Len(rows') = Len(rows) + 1 /\ DOMAIN rows' = 1..(Len(rows) + 1)
        /\ \A i \in DOMAIN rows : rows'[i] = rows[i]
        /\ rows'[Len(rows) + 1] = row
    BY <2>1, <2>3
  <2>5. TablesGrow
    BY <1>1, <2>1, <2>2, <2>3, <2>4 DEF BaseInv, TypeOK, TablesGrow, Entry
  <2>6. Parented'
    <3>1. \A i \in DOMAIN rows' : i \in DOMAIN rows \/ i = Len(rows) + 1
      BY <2>3, <2>4
    <3> QED
      BY <2>1, <2>2, <2>3, <2>4, <3>1 DEF BaseInv, Parented
  <2>7. Sound("write", l, rows', parents', cache')
    BY <1>2, <2>5, SoundStays
  <2>8. m.id \in DOMAIN rows' /\ m.id # 0 /\ rows'[m.id].key = m.key
    BY <2>1, <2>3, <2>4
  <2>9. Sound("apply", m, rows', parents', cache')
    BY <1>1, <2>1, <2>7, <2>8 DEF Sound
  <2> QED
    BY <1>5, <2>1, <2>5, <2>6, <2>9, Continuing DEF Inserts
<1>6. CASE Taken(c, l)
  BY <1>1, <1>6, TablesStay, Returning DEF Results, Taken
<1> QED
  BY <1>4, <1>5, <1>6, AddCommitDoes

\* What addCommandText and restoreCommandText put in the cache.
LEMMA Appended ==
    ASSUME BaseInv, NEW k \in Keys, NEW response \in Response
    PROVE  /\ <<response>> \in Entry
           /\ cache[k] # NoEntry => Append(cache[k], response) \in Entry
<1>1. \A s \in Entry : Append(s, response) \in Entry
  BY DEF Entry
<1>2. <<response>> \in Entry
  BY DEF Entry
<1> QED
  BY <1>1, <1>2, BaseTypes DEF BaseInv

LEMMA ResponseTyped ==
    ASSUME BaseInv, NEW c \in Calls, pc[c] = "apply"
    PROVE  /\ [id |-> local[c].id, text |-> local[c].text] \in Response
           /\ local[c].key \in Keys
<1>1. local[c].id \in Ids /\ local[c].text \in Texts /\ local[c].key \in Keys
  BY CallTypes
<1> QED
  BY <1>1 DEF Response

LEMMA AddApplyBase == ASSUME BaseInv, NEW c \in Calls, AddApply(c) PROVE BaseInv'
<1> DEFINE k == local[c].key
           response == [id |-> local[c].id, text |-> local[c].text]
           s == IF cache[k] = NoEntry THEN <<response>> ELSE Append(cache[k], response)
<1>1. /\ pc[c] = "apply" /\ Return(c, "inserted") /\ UNCHANGED <<rows, parents>>
      /\ cache' = [cache EXCEPT ![k] = s]
  BY DEF AddApply
<1>2. s \in Entry /\ k \in Keys
  BY <1>1, ResponseTyped, Appended
<1> HIDE DEF s
<1>3. TablesGrow /\ Parented'
  BY <1>1, <1>2, EntryChanges
<1> QED
  BY <1>1, <1>3, Returning DEF Results


-----------------------------------------------------------------------------
(* The other operations keep the types.                                    *)

LEMMA AssignIs ==
    ASSUME NEW S, NEW s \in Seq(S), NEW n \in Nat, NEW x \in S, Hole \in S
    PROVE  /\ Assign(s, n, x) \in Seq(S)
           /\ n \in DOMAIN s => /\ Len(Assign(s, n, x)) = Len(s)
                                /\ \A j \in DOMAIN s : Assign(s, n, x)[j] = IF j = n THEN x ELSE s[j]
<1> DEFINE size == IF n > Len(s) THEN n ELSE Len(s)
           Put(j) == IF j = n THEN x ELSE IF j <= Len(s) THEN s[j] ELSE Hole
           a == [j \in 1..size |-> Put(j)]
<1>1. Len(s) \in Nat /\ DOMAIN s = 1..Len(s)
  OBVIOUS
<1>2. \A j \in 1..Len(s) : s[j] \in S
  OBVIOUS
<1>3. size \in Nat
  BY <1>1
<1>4. ASSUME n \in DOMAIN s PROVE size = Len(s)
  <2>1. ~(n > Len(s))
    BY <1>1, <1>4
  <2> QED
    BY <2>1
<1>5. a = Assign(s, n, x)
  BY DEF Assign
<1> HIDE DEF size
<1>6. ASSUME NEW j \in 1..size PROVE Put(j) \in S
  <2>1. CASE j = n
    BY <2>1
  <2>2. CASE j # n /\ j <= Len(s)
    BY <1>1, <1>2, <1>3, <2>2
  <2>3. CASE j # n /\ ~(j <= Len(s))
    BY <2>3
  <2> QED
    BY <2>1, <2>2, <2>3
<1>7. \A j \in 1..Len(s) : Put(j) = IF j = n THEN x ELSE s[j]
  BY <1>1
<1> HIDE DEF Put
<1>8. DOMAIN a = 1..size /\ \A j \in 1..size : a[j] = Put(j)
  OBVIOUS
<1>9. a \in [1..size -> S]
  BY <1>6
<1> HIDE DEF a
<1>10. a \in Seq(S) /\ Len(a) = size
  BY <1>3, <1>9
<1>11. ASSUME n \in DOMAIN s
       PROVE  Len(a) = Len(s) /\ \A j \in DOMAIN s : a[j] = IF j = n THEN x ELSE s[j]
  BY <1>1, <1>4, <1>7, <1>8, <1>10, <1>11
<1> QED
  BY <1>5, <1>10, <1>11

LEMMA SpliceIs ==
    ASSUME NEW S, NEW s \in Seq(S), NEW n \in Nat
    PROVE  /\ Splice(s, n) \in Seq(S)
           /\ n \in DOMAIN s =>
                  /\ Len(Splice(s, n)) = Len(s) - 1
                  /\ \A j \in 1..Len(s) - 1 : Splice(s, n)[j] = IF j < n THEN s[j] ELSE s[j + 1]
<1>1. CASE n \notin DOMAIN s
  BY <1>1 DEF Splice
<1>2. CASE n \in DOMAIN s
  <2> DEFINE f == SubSeq(s, 1, n - 1)
             g == SubSeq(s, n + 1, Len(s))
  <2>1. Len(s) \in Nat /\ n \in 1..Len(s) /\ \A j \in 1..Len(s) : s[j] \in S
    BY <1>2
  <2>2. f \in Seq(S) /\ Len(f) = n - 1 /\ \A j \in 1..n - 1 : f[j] = s[j]
    BY <2>1, SubSeqProperties
  <2>3. g \in Seq(S) /\ Len(g) = Len(s) - n /\ \A j \in 1..Len(s) - n : g[j] = s[n + j]
    <3>1. n + 1 \in Int /\ Len(s) \in Int /\ \A j \in n + 1..Len(s) : s[j] \in S
      BY <2>1
    <3>2. /\ g \in Seq(S)
          /\ Len(g) = IF n + 1 <= Len(s) THEN Len(s) - (n + 1) + 1 ELSE 0
          /\ \A j \in 1..Len(s) - (n + 1) + 1 : g[j] = s[n + 1 + j - 1]
      BY <3>1, SubSeqProperties
    <3> HIDE DEF g
    <3> QED
      BY <2>1, <3>2
  <2> HIDE DEF f, g
  <2>4. /\ f \o g \in Seq(S) /\ Len(f \o g) = Len(f) + Len(g)
        /\ \A j \in 1..Len(f) + Len(g) : (f \o g)[j] = IF j <= Len(f) THEN f[j] ELSE g[j - Len(f)]
    BY <2>2, <2>3, ConcatProperties
  <2>5. Splice(s, n) = f \o g
    BY <1>2 DEF Splice, RemoveAt, f, g
  <2>6. Len(f) + Len(g) = Len(s) - 1
    BY <2>1, <2>2, <2>3
  <2>7. \A j \in 1..Len(s) - 1 : (f \o g)[j] = IF j < n THEN s[j] ELSE s[j + 1]
    <3> SUFFICES ASSUME NEW j \in 1..Len(s) - 1 PROVE (f \o g)[j] = IF j < n THEN s[j] ELSE s[j + 1]
      OBVIOUS
    <3>1. (f \o g)[j] = IF j <= n - 1 THEN f[j] ELSE g[j - (n - 1)]
      BY <2>2, <2>4, <2>6
    <3>2. CASE j < n
      BY <2>1, <2>2, <3>1, <3>2
    <3>3. CASE ~(j < n)
      <4>1. j - (n - 1) \in 1..Len(s) - n /\ n + (j - (n - 1)) = j + 1
        BY <2>1, <3>3
      <4>2. g[j - (n - 1)] = s[n + (j - (n - 1))]
        BY <2>3, <4>1
      <4> QED
        BY <2>1, <3>1, <3>3, <4>1, <4>2
    <3> QED
      BY <3>2, <3>3
  <2> QED
    BY <2>4, <2>5, <2>6, <2>7
<1> QED
  BY <1>1, <1>2


LEMMA UpdateCallBase ==
    ASSUME BaseInv, NEW c \in Calls, NEW k \in Keys, NEW i \in DOMAIN rows, NEW t \in Texts,
           UpdateCall(c, k, i, t)
    PROVE  BaseInv'
<1>1. UNCHANGED <<rows, parents, cache>> /\ i \in Ids
  BY BaseTypes DEF UpdateCall, BaseInv
<1>2. CASE IndexOf(k, i) # 0
  BY <1>1, <1>2, Beginning DEF UpdateCall, AllOps
<1>3. CASE IndexOf(k, i) = 0
  BY <1>1, <1>3, Refusing DEF UpdateCall, Results
<1> QED
  BY <1>2, <1>3

LEMMA RemoveCallBase ==
    ASSUME BaseInv, NEW c \in Calls, NEW k \in Keys, NEW i \in DOMAIN rows, RemoveCall(c, k, i)
    PROVE  BaseInv'
<1>1. UNCHANGED <<rows, parents, cache>> /\ i \in Ids /\ rows[i].text \in Texts
  BY BaseTypes DEF RemoveCall, BaseInv
<1>2. CASE IndexOf(k, i) # 0
  BY <1>1, <1>2, Beginning DEF RemoveCall, AllOps
<1>3. CASE IndexOf(k, i) = 0
  BY <1>1, <1>3, Refusing DEF RemoveCall, Results
<1> QED
  BY <1>2, <1>3

LEMMA RestoreCallBase ==
    ASSUME BaseInv, NEW c \in Calls, NEW k \in Keys, NEW i \in DOMAIN rows, RestoreCall(c, k, i)
    PROVE  BaseInv'
<1>1. UNCHANGED <<rows, parents, cache>> /\ i \in Ids /\ rows[i].text \in Texts
  BY BaseTypes DEF RestoreCall, BaseInv
<1>2. CASE IndexOf(k, i) = 0
  BY <1>1, <1>2, Beginning DEF RestoreCall, AllOps
<1>3. CASE IndexOf(k, i) # 0
  BY <1>1, <1>3, Refusing DEF RestoreCall, Results
<1> QED
  BY <1>2, <1>3

\* updateCommandText and removeCommandText write an active row of their key.
LEMMA ActiveRow ==
    ASSUME BaseInv, NEW k \in Keys, NEW i \in ActiveIds(k)
    PROVE  /\ i \in DOMAIN rows /\ rows[i] \in Row /\ rows[i].key = k /\ ~rows[i].removed
           /\ parents[k] = "active"
<1>1. i \in DOMAIN rows /\ rows[i] \in Row /\ rows[i].key = k /\ ~rows[i].removed
  BY BaseTypes DEF ActiveIds, BaseInv
<1> QED
  BY <1>1 DEF BaseInv, Parented

LEMMA UpdateCommitBase == ASSUME BaseInv, NEW c \in Calls, UpdateCommit(c) PROVE BaseInv'
<1> PICK l : l = local[c]
  OBVIOUS
<1>1. /\ pc[c] = "write" /\ l.op = "update" /\ UNCHANGED <<parents, cache>>
  BY DEF UpdateCommit
<1>2. /\ l.key \in Keys /\ l.text \in Texts /\ Sound("write", l, rows, parents, cache)
      /\ l.id \in DOMAIN rows /\ l.id # 0 /\ local \in [Calls -> Local \cup {Idle}]
  BY <1>1, CallTypes DEF BaseInv, TypeOK
<1>3. CASE l.id \in ActiveIds(l.key) /\ RowsLike(l.key, l.text) \subseteq {l.id}
  <2>1. /\ rows' = [rows EXCEPT ![l.id].text = l.text] /\ Continue(c, "apply")
        /\ local' = [local EXCEPT ![c] = l]
    BY <1>2, <1>3 DEF UpdateCommit
  <2>2. /\ rows[l.id] \in Row /\ rows[l.id].key = l.key /\ ~rows[l.id].removed
        /\ parents[l.key] = "active"
    BY <1>2, <1>3, ActiveRow
  <2> DEFINE row == [rows[l.id] EXCEPT !.text = l.text]
  <2>3. ASSUME NEW r \in Row, NEW t \in Texts
        PROVE  /\ [r EXCEPT !.text = t] \in Row /\ [r EXCEPT !.text = t].key = r.key
               /\ [r EXCEPT !.text = t].removed = r.removed
    BY <2>3 DEF Row
  <2>4. row \in Row /\ row.key = l.key /\ ~row.removed
    BY <1>2, <2>2, <2>3
  <2>5. rows' = [rows EXCEPT ![l.id] = row]
    BY <2>1
  <2> HIDE DEF row
  <2>6. TablesGrow /\ Parented'
    <3>1. /\ parents' \in [Keys -> {"absent", "active", "removed"}]
          /\ \A k \in Keys : parents[k] = "active" => parents'[k] = "active"
          /\ parents'[row.key] = "active"
      BY <1>1, <2>2, <2>4 DEF BaseInv, TypeOK
    <3> QED
      BY <1>1, <1>2, <2>2, <2>4, <2>5, <3>1, RowChanges
  <2>7. Sound("write", l, rows', parents', cache')
    BY <1>2, <2>6, SoundStays
  <2>8. Sound("apply", l, rows', parents', cache')
    BY <1>1, <1>2, <2>7 DEF Sound
  <2> QED
    BY <2>1, <2>6, <2>8, Continuing
<1>4. CASE ~(l.id \in ActiveIds(l.key) /\ RowsLike(l.key, l.text) \subseteq {l.id})
  <2>1. (Return(c, "alreadyExists") \/ Return(c, "updateFailed")) /\ UNCHANGED rows
    BY <1>4 DEF UpdateCommit
  <2> QED
    BY <1>1, <2>1, TablesStay, Returning DEF Results
<1> QED
  BY <1>3, <1>4

LEMMA RemoveCommitBase == ASSUME BaseInv, NEW c \in Calls, RemoveCommit(c) PROVE BaseInv'
<1> PICK l : l = local[c]
  OBVIOUS
<1>1. /\ pc[c] = "write" /\ l.op = "remove" /\ UNCHANGED <<parents, cache>>
  BY DEF RemoveCommit
<1>2. /\ l.key \in Keys /\ l.text \in Texts /\ Sound("write", l, rows, parents, cache)
      /\ l.id \in DOMAIN rows /\ l.id # 0 /\ local \in [Calls -> Local \cup {Idle}]
  BY <1>1, CallTypes DEF BaseInv, TypeOK
<1>3. CASE l.id \in ActiveIds(l.key)
  <2>1. /\ rows' = [rows EXCEPT ![l.id].removed = TRUE] /\ Continue(c, "apply")
        /\ local' = [local EXCEPT ![c] = l]
    BY <1>2, <1>3 DEF RemoveCommit
  <2>2. rows[l.id] \in Row /\ rows[l.id].key = l.key
    BY <1>2, <1>3, ActiveRow
  <2> DEFINE row == [rows[l.id] EXCEPT !.removed = TRUE]
  <2>3. ASSUME NEW r \in Row
        PROVE  /\ [r EXCEPT !.removed = TRUE] \in Row /\ [r EXCEPT !.removed = TRUE].key = r.key
               /\ [r EXCEPT !.removed = TRUE].removed
    BY <2>3 DEF Row
  <2>4. row \in Row /\ row.key = l.key /\ row.removed
    BY <1>2, <2>2, <2>3
  <2>5. rows' = [rows EXCEPT ![l.id] = row]
    BY <2>1
  <2> HIDE DEF row
  <2>6. TablesGrow /\ Parented'
    <3>1. /\ parents' \in [Keys -> {"absent", "active", "removed"}]
          /\ \A k \in Keys : parents[k] = "active" => parents'[k] = "active"
      BY <1>1 DEF BaseInv, TypeOK
    <3> QED
      BY <1>1, <1>2, <2>2, <2>4, <2>5, <3>1, RowChanges
  <2>7. Sound("write", l, rows', parents', cache')
    BY <1>2, <2>6, SoundStays
  <2>8. Sound("apply", l, rows', parents', cache')
    BY <1>1, <1>2, <2>7 DEF Sound
  <2> QED
    BY <2>1, <2>6, <2>8, Continuing
<1>4. CASE l.id \notin ActiveIds(l.key)
  BY <1>1, <1>4, TablesStay, Returning DEF Results, RemoveCommit
<1> QED
  BY <1>3, <1>4


LEMMA UpdateApplyBase == ASSUME BaseInv, NEW c \in Calls, UpdateApply(c) PROVE BaseInv'
<1> DEFINE k == local[c].key
           response == [id |-> local[c].id, text |-> local[c].text]
           s == Assign(cache[k], local[c].index, response)
<1>1. /\ pc[c] = "apply" /\ local[c].op = "update" /\ Return(c, "updated")
      /\ UNCHANGED <<rows, parents>> /\ cache' = [cache EXCEPT ![k] = s]
  BY DEF UpdateApply
<1>2. k \in Keys /\ cache[k] \in Entry /\ local[c].index \in Nat /\ response \in Response
  BY <1>1, CallTypes, ResponseTyped
<1> HIDE DEF k, response
<1>3. s \in Entry
  BY <1>2, AssignIs DEF Entry
<1> HIDE DEF s
<1>4. TablesGrow /\ Parented'
  BY <1>1, <1>2, <1>3, EntryChanges
<1> QED
  BY <1>1, <1>4, Returning DEF Results

LEMMA RemoveApplyBase == ASSUME BaseInv, NEW c \in Calls, RemoveApply(c) PROVE BaseInv'
<1> DEFINE k == local[c].key
           s == Splice(cache[k], local[c].index)
<1>1. /\ pc[c] = "apply" /\ local[c].op = "remove" /\ Return(c, "removed")
      /\ UNCHANGED <<rows, parents>> /\ cache' = [cache EXCEPT ![k] = s]
  BY DEF RemoveApply
<1>2. k \in Keys /\ cache[k] \in Entry /\ local[c].index \in Nat
  BY <1>1, CallTypes
<1> HIDE DEF k
<1>3. s \in Entry
  BY <1>2, SpliceIs DEF Entry
<1> HIDE DEF s
<1>4. TablesGrow /\ Parented'
  BY <1>1, <1>2, <1>3, EntryChanges
<1> QED
  BY <1>1, <1>4, Returning DEF Results

\* restoreCommandText has found the text removed, or returns.
LEMMA RestoreLookupFinds ==
    ASSUME BaseInv, NEW c \in Calls, RestoreLookup(c), NEW l, l = local[c]
    PROVE  /\ pc[c] = "lookup" /\ l.op = "restore" /\ UNCHANGED <<rows, parents, cache>>
           /\ \/ /\ Continue(c, "write") /\ parents[l.key] = "active"
                 /\ l.id \in DOMAIN rows /\ rows[l.id].key = l.key /\ rows[l.id].removed
                 /\ \E m \in Local :
                        /\ local' = [local EXCEPT ![c] = m]
                        /\ m.op = "restore" /\ m.key = l.key /\ m.id = l.id /\ m.entry = l.entry
                        /\ m.text = rows[l.id].text
              \/ Return(c, "notFound")
<1>1. pc[c] = "lookup" /\ l.op = "restore" /\ UNCHANGED <<rows, parents, cache>>
  BY DEF RestoreLookup
<1>2. l \in Local /\ l.id \in DOMAIN rows /\ local \in [Calls -> Local \cup {Idle}]
      /\ rows[l.id].text \in Texts
  BY <1>1, CallTypes, BaseTypes DEF BaseInv, TypeOK
<1>3. CASE parents[l.key] = "active" /\ rows[l.id].key = l.key /\ rows[l.id].removed
  <2> DEFINE m == [l EXCEPT !.text = rows[l.id].text]
  <2>1. ASSUME NEW l0 \in Local, NEW t \in Texts
        PROVE  /\ [l0 EXCEPT !.text = t] \in Local /\ [l0 EXCEPT !.text = t].op = l0.op
               /\ [l0 EXCEPT !.text = t].key = l0.key /\ [l0 EXCEPT !.text = t].id = l0.id
               /\ [l0 EXCEPT !.text = t].entry = l0.entry /\ [l0 EXCEPT !.text = t].text = t
    BY <2>1 DEF Local
  <2>2. m \in Local /\ m.op = "restore" /\ m.key = l.key /\ m.id = l.id /\ m.entry = l.entry
        /\ m.text = rows[l.id].text
    BY <1>1, <1>2, <2>1
  <2>3. local' = [local EXCEPT ![c].text = rows[l.id].text] /\ Continue(c, "write")
    BY <1>3 DEF RestoreLookup
  <2>4. local' = [local EXCEPT ![c] = m]
    BY <1>2, <2>3
  <2> HIDE DEF m
  <2> QED
    BY <1>1, <1>2, <1>3, <2>2, <2>3, <2>4
<1>4. CASE ~(parents[l.key] = "active" /\ rows[l.id].key = l.key /\ rows[l.id].removed)
  BY <1>1, <1>4 DEF RestoreLookup
<1> QED
  BY <1>3, <1>4

LEMMA RestoreLookupBase == ASSUME BaseInv, NEW c \in Calls, RestoreLookup(c) PROVE BaseInv'
<1> PICK l : l = local[c]
  OBVIOUS
<1>1. pc[c] = "lookup" /\ l.op = "restore" /\ UNCHANGED <<rows, parents, cache>>
  BY RestoreLookupFinds
<1>2. Sound("lookup", l, rows, parents, cache)
  BY <1>1, CallTypes
<1>3. CASE Return(c, "notFound")
  BY <1>1, <1>3, TablesStay, Returning DEF Results
<1>4. CASE ~Return(c, "notFound")
  <2>1. PICK m \in Local :
            /\ Continue(c, "write") /\ parents[l.key] = "active"
            /\ l.id \in DOMAIN rows /\ rows[l.id].key = l.key
            /\ local' = [local EXCEPT ![c] = m]
            /\ m.op = "restore" /\ m.key = l.key /\ m.id = l.id /\ m.entry = l.entry
    BY <1>4, RestoreLookupFinds
  <2>2. Sound("write", m, rows', parents', cache')
    BY <1>1, <1>2, <2>1 DEF Sound
  <2> QED
    BY <1>1, <2>1, <2>2, TablesStay, Continuing
<1> QED
  BY <1>3, <1>4

\* Un-removing a row of an active key.
LEMMA RestoreCommitDoes ==
    ASSUME BaseInv, NEW c \in Calls, RestoreCommit(c), NEW l, l = local[c]
    PROVE  /\ pc[c] = "write" /\ l.op = "restore" /\ UNCHANGED <<parents, cache>>
           /\ l \in Local /\ parents[l.key] = "active" /\ l.id \in DOMAIN rows /\ rows[l.id].key = l.key
           /\ \E row \in Row : /\ row.key = l.key /\ row.text = rows[l.id].text /\ ~row.removed
                               /\ rows' = [rows EXCEPT ![l.id] = row]
           /\ Continue(c, "apply") /\ local' = [local EXCEPT ![c] = l]
<1>1. /\ pc[c] = "write" /\ l.op = "restore" /\ UNCHANGED <<parents, cache>>
      /\ rows' = [rows EXCEPT ![l.id].removed = FALSE] /\ Continue(c, "apply") /\ UNCHANGED local
  BY DEF RestoreCommit
<1>2. /\ l \in Local /\ Sound("write", l, rows, parents, cache) /\ l.id \in DOMAIN rows /\ l.id # 0
      /\ rows[l.id] \in Row /\ local \in [Calls -> Local \cup {Idle}]
  BY <1>1, CallTypes, BaseTypes DEF BaseInv, TypeOK
<1>3. parents[l.key] = "active" /\ rows[l.id].key = l.key
  BY <1>1, <1>2 DEF Sound
<1> DEFINE row == [rows[l.id] EXCEPT !.removed = FALSE]
<1>4. ASSUME NEW r \in Row
      PROVE  /\ [r EXCEPT !.removed = FALSE] \in Row
             /\ [r EXCEPT !.removed = FALSE].key = r.key
             /\ [r EXCEPT !.removed = FALSE].text = r.text
             /\ ~[r EXCEPT !.removed = FALSE].removed
  BY <1>4 DEF Row
<1>5. row \in Row /\ row.key = l.key /\ row.text = rows[l.id].text /\ ~row.removed
  BY <1>2, <1>3, <1>4
<1>6. rows' = [rows EXCEPT ![l.id] = row] /\ local' = [local EXCEPT ![c] = l]
  BY <1>1, <1>2
<1> HIDE DEF row
<1> QED
  BY <1>1, <1>2, <1>3, <1>5, <1>6

LEMMA RestoreCommitBase == ASSUME BaseInv, NEW c \in Calls, RestoreCommit(c) PROVE BaseInv'
<1> PICK l : l = local[c]
  OBVIOUS
<1>1. /\ pc[c] = "write" /\ l.op = "restore" /\ UNCHANGED <<parents, cache>>
      /\ l \in Local /\ parents[l.key] = "active" /\ l.id \in DOMAIN rows /\ rows[l.id].key = l.key
      /\ Continue(c, "apply") /\ local' = [local EXCEPT ![c] = l]
  BY RestoreCommitDoes
<1>2. PICK row \in Row : /\ row.key = l.key /\ ~row.removed
                         /\ rows' = [rows EXCEPT ![l.id] = row]
  BY RestoreCommitDoes
<1>3. TablesGrow /\ Parented'
  <2>1. /\ parents' \in [Keys -> {"absent", "active", "removed"}]
        /\ \A k \in Keys : parents[k] = "active" => parents'[k] = "active"
        /\ parents'[row.key] = "active"
    BY <1>1, <1>2 DEF BaseInv, TypeOK
  <2> QED
    BY <1>1, <1>2, <2>1, RowChanges
<1>4. Sound("write", l, rows, parents, cache) /\ l.id # 0
  BY <1>1, CallTypes
<1>5. Sound("write", l, rows', parents', cache')
  BY <1>3, <1>4, SoundStays
<1>6. Sound("apply", l, rows', parents', cache')
  BY <1>1, <1>4, <1>5 DEF Sound
<1> QED
  BY <1>1, <1>3, <1>6, Continuing

LEMMA RestoreApplyBase == ASSUME BaseInv, NEW c \in Calls, RestoreApply(c) PROVE BaseInv'
<1> DEFINE k == local[c].key
           response == [id |-> local[c].id, text |-> local[c].text]
           s == IF local[c].entry THEN Append(cache[k], response) ELSE <<response>>
<1>1. /\ pc[c] = "apply" /\ Return(c, "restored") /\ UNCHANGED <<rows, parents>>
      /\ cache' = [cache EXCEPT ![k] = s]
  BY DEF RestoreApply
<1>2. k \in Keys /\ response \in Response /\ (local[c].entry => cache[k] # NoEntry)
  BY <1>1, ResponseTyped, CallTypes
<1> HIDE DEF k, response
<1>3. s \in Entry
  BY <1>2, Appended
<1> HIDE DEF s
<1>4. TablesGrow /\ Parented'
  BY <1>1, <1>2, <1>3, EntryChanges
<1> QED
  BY <1>1, <1>4, Returning DEF Results

LEMMA TransactionFailsBase == ASSUME BaseInv, NEW c \in Calls, TransactionFails(c) PROVE BaseInv'
<1>1. pc[c] \in {"lookup", "write"} /\ UNCHANGED <<rows, parents, cache>>
  BY DEF TransactionFails
<1>2. local[c].op \in {"add", "update", "remove", "restore"}
  BY <1>1, CallTypes DEF AllOps
<1>3. \E result \in Results : Return(c, result)
  BY <1>1, <1>2 DEF TransactionFails, Results
<1> QED
  BY <1>1, <1>3, TablesStay, Returning

LEMMA RestartBase == ASSUME BaseInv, Restart PROVE BaseInv'
<1>1. \A c \in Calls : pc'[c] = "idle" /\ local'[c] = Idle
  BY DEF Restart
<1>2. Parented'
  BY DEF Restart, BaseInv, Parented
<1>3. Loaded \in [Keys -> Entry \cup {NoEntry}]
  <2>1. \A k \in Keys : Loaded[k] \in Entry \cup {NoEntry}
    BY LoadedLists DEF BaseInv, TypeOK
  <2> QED
    BY <2>1 DEF Loaded
<1>4. /\ pc' \in [Calls -> {"idle", "lookup", "write", "apply"}]
      /\ local' \in [Calls -> Local \cup {Idle}] /\ answer' \in [Calls -> Answered \cup {Silent}]
  BY DEF Restart
<1>5. TypeOK'
  BY <1>1, <1>3, <1>4 DEF Restart, BaseInv, TypeOK, Entry
<1>6. CallsSound'
  BY <1>1 DEF CallsSound
<1> QED
  BY <1>2, <1>5, <1>6 DEF BaseInv

LEMMA BaseStep == BaseInv /\ [Next]_vars => BaseInv'
<1> SUFFICES ASSUME BaseInv, [Next]_vars PROVE BaseInv'
  OBVIOUS
<1>1. CASE \E c \in Calls, k \in Keys, t \in Texts : AddCall(c, k, t)
  BY <1>1, AddCallBase
<1>2. CASE \E c \in Calls, k \in Keys, i \in DOMAIN rows :
               \/ \E t \in Texts : UpdateCall(c, k, i, t)
               \/ RemoveCall(c, k, i)
               \/ RestoreCall(c, k, i)
  BY <1>2, UpdateCallBase, RemoveCallBase, RestoreCallBase
<1>3. CASE \E c \in Calls : CallStep(c)
  <2>1. PICK c \in Calls : CallStep(c)
    BY <1>3
  <2>2. CASE AddLookup(c) \/ AddCommit(c) \/ AddApply(c)
    BY <2>2, AddLookupBase, AddCommitBase, AddApplyBase
  <2>3. CASE UpdateCommit(c) \/ UpdateApply(c) \/ RemoveCommit(c) \/ RemoveApply(c)
    BY <2>3, UpdateCommitBase, UpdateApplyBase, RemoveCommitBase, RemoveApplyBase
  <2>4. CASE RestoreLookup(c) \/ RestoreCommit(c) \/ RestoreApply(c) \/ TransactionFails(c)
    BY <2>4, RestoreLookupBase, RestoreCommitBase, RestoreApplyBase, TransactionFailsBase
  <2> QED
    BY <2>1, <2>2, <2>3, <2>4 DEF CallStep
<1>4. CASE Restart
  BY <1>4, RestartBase
<1>5. CASE UNCHANGED vars
  <2>1. UNCHANGED <<rows, parents, cache, pc, local, answer>>
    BY <1>5 DEF vars
  <2>2. TypeOK' /\ Parented'
    BY <2>1 DEF BaseInv, TypeOK, Parented
  <2>3. CallsSound'
    BY <2>1 DEF BaseInv, CallsSound
  <2> QED
    BY <2>2, <2>3 DEF BaseInv
<1> QED
  BY <1>1, <1>2, <1>3, <1>4, <1>5 DEF Next

LEMMA BaseAlways == Spec => []BaseInv
<1>1. BaseInv /\ [Next]_vars => BaseInv'
  BY BaseStep
<1> QED
  BY InitBaseInv, <1>1, PTL DEF Spec

\* Whatever calls interleave, the cache holds lists of responses (with holes where an
\* update came after a removal), and no call touches an entry that is not there.
THEOREM ResponsesTyped == Spec => []TypeOK
<1>1. BaseInv => TypeOK
  BY DEF BaseInv
<1> QED
  BY <1>1, BaseAlways, PTL

\* The cache changes only once a transaction has committed, and only under the key of
\* its call, whatever other calls are in flight.
THEOREM CommitFirst == Spec => CacheFollowsCommit
<1>1. BaseInv /\ [Next]_vars =>
          [\A k \in Keys : cache'[k] # cache[k] =>
              \/ \E c \in Calls : pc[c] = "apply" /\ local[c].key = k
              \/ cache' = Loaded]_vars
  <2> SUFFICES ASSUME BaseInv, Next, NEW k \in Keys, cache'[k] # cache[k], cache' # Loaded
               PROVE  \E c \in Calls : pc[c] = "apply" /\ local[c].key = k
    BY DEF vars
  <2>1. PICK c \in Calls : AddApply(c) \/ UpdateApply(c) \/ RemoveApply(c) \/ RestoreApply(c)
    BY DEF Next, CallStep, Restart, AddCall, UpdateCall, RemoveCall, RestoreCall, AddLookup,
           AddCommit, UpdateCommit, RemoveCommit, RestoreLookup, RestoreCommit, TransactionFails
  <2>2. pc[c] = "apply" /\ \E s : cache' = [cache EXCEPT ![local[c].key] = s]
    BY <2>1 DEF AddApply, UpdateApply, RemoveApply, RestoreApply
  <2>3. local[c].key = k
    BY <2>2 DEF BaseInv, TypeOK
  <2> QED
    BY <2>2, <2>3
<1> QED
  BY <1>1, BaseAlways, PTL DEF Spec, CacheFollowsCommit


-----------------------------------------------------------------------------
(* Texts only added, by any number of callers at once.                     *)

\* What a call that adds has found still holds: no row is removed meanwhile.
Adding(p, l, rs) ==
    /\ l.op = "add"
    /\ p = "write" /\ l.id # 0 => rs[l.id].text = l.text
    /\ p = "write" /\ l.id = 0 =>
           \A i \in DOMAIN rs : rs[i].key = l.key /\ Fold[rs[i].text] = Fold[l.text] => ~rs[i].removed
    /\ p = "apply" => rs[l.id].text = l.text /\ ~rs[l.id].removed /\ rs[l.id].key = l.key

AllAdd == \A c \in Calls : pc[c] # "idle" => Adding(pc[c], local[c], rows)

Owed(c, k, i) == pc[c] = "apply" /\ local[c].id = i /\ local[c].key = k

\* A stored text that is not served is that of a call about to put it in the cache.
Covered ==
    \A k \in Keys : \A i \in ActiveIds(k) :
        ResponseOf(i) \in Served(k) \/ \E c \in Calls : Owed(c, k, i)

AddInv == BaseInv /\ AllAdd /\ NothingUnstoredServed /\ Covered /\ AlreadyExistsIsTrue

\* No text goes or changes.
TextsStay ==
    /\ DOMAIN rows \subseteq DOMAIN rows'
    /\ \A i \in DOMAIN rows : /\ rows'[i].key = rows[i].key /\ rows'[i].text = rows[i].text
                              /\ ~rows[i].removed => ~rows'[i].removed
    /\ \A i \in DOMAIN rows' \ DOMAIN rows : ~rows'[i].removed

LEMMA AddingStays ==
    ASSUME BaseInv, TextsStay, NEW c \in Calls, pc[c] # "idle", Adding(pc[c], local[c], rows)
    PROVE  Adding(pc[c], local[c], rows')
<1>1. local[c].id # 0 => local[c].id \in DOMAIN rows
  BY CallTypes
<1>2. pc[c] = "apply" => local[c].id # 0
  BY CallTypes
<1> QED
  BY <1>1, <1>2 DEF Adding, TextsStay

LEMMA StoredStays ==
    ASSUME TextsStay, NEW k \in Keys
    PROVE  /\ ActiveIds(k) \subseteq ActiveIds(k)'
           /\ \A i \in ActiveIds(k) : ResponseOf(i)' = ResponseOf(i)
           /\ Stored(k) \subseteq Stored(k)'
<1>1. \A i \in ActiveIds(k) : i \in ActiveIds(k)' /\ ResponseOf(i)' = ResponseOf(i)
  BY DEF TextsStay, ActiveIds, ResponseOf
<1> QED
  BY <1>1 DEF Stored

Told(d) ==
    answer[d].result = "alreadyExists" =>
        RowsLike(answer[d].key, answer[d].text) \cap ActiveIds(answer[d].key) # {}

LEMMA LikeStays ==
    ASSUME TextsStay, NEW k, NEW t, RowsLike(k, t) \cap ActiveIds(k) # {}
    PROVE  RowsLike(k, t)' \cap ActiveIds(k)' # {}
<1>1. PICK i : i \in RowsLike(k, t) \cap ActiveIds(k)
  OBVIOUS
<1>2. i \in RowsLike(k, t)' \cap ActiveIds(k)'
  BY <1>1 DEF RowsLike, ActiveIds, TextsStay
<1> QED
  BY <1>2

LEMMA ToldStays ==
    ASSUME AddInv, TextsStay, NEW d \in Calls, answer'[d] = answer[d]
    PROVE  Told(d)'
<1> PICK k, t : k = answer[d].key /\ t = answer[d].text
  OBVIOUS
<1>1. answer[d].result = "alreadyExists" => RowsLike(k, t) \cap ActiveIds(k) # {}
  BY DEF AddInv, AlreadyExistsIsTrue
<1>2. answer[d].result = "alreadyExists" => RowsLike(k, t)' \cap ActiveIds(k)' # {}
  BY <1>1, LikeStays
<1> QED
  BY <1>2 DEF Told, RowsLike, ActiveIds

\* One call moves and the others keep what they have found.
LEMMA OneAdds ==
    ASSUME AddInv, BaseInv', TextsStay, NEW c \in Calls, NEW p, NEW l,
           pc' = [pc EXCEPT ![c] = p], local' = [local EXCEPT ![c] = l],
           p # "idle" => Adding(p, l, rows')
    PROVE  /\ AllAdd'
           /\ \A d \in Calls : d # c => \A k, i : Owed(d, k, i)' <=> Owed(d, k, i)
           /\ \A k, i : Owed(c, k, i)' <=> p = "apply" /\ l.id = i /\ l.key = k
<1>1. \A d \in Calls : /\ pc'[d] = IF d = c THEN p ELSE pc[d]
                       /\ local'[d] = IF d = c THEN l ELSE local[d]
  BY DEF AddInv, BaseInv, TypeOK
<1>2. ASSUME NEW d \in Calls, pc'[d] # "idle" PROVE Adding(pc'[d], local'[d], rows')
  <2>1. CASE d = c
    BY <1>1, <1>2, <2>1
  <2>2. CASE d # c
    <3>1. pc'[d] = pc[d] /\ local'[d] = local[d]
      BY <1>1, <2>2
    <3>2. Adding(pc[d], local[d], rows')
      BY <1>2, <3>1, AddingStays DEF AddInv, AllAdd
    <3> QED
      BY <3>1, <3>2
  <2> QED
    BY <2>1, <2>2
<1>3. AllAdd'
  BY <1>2 DEF AllAdd
<1> QED
  BY <1>1, <1>3 DEF Owed


LEMMA AddInit == Init => AddInv
<1> SUFFICES ASSUME Init PROVE AddInv
  OBVIOUS
<1>1. BaseInv
  BY InitBaseInv
<1>2. AllAdd /\ AlreadyExistsIsTrue
  BY DEF Init, AllAdd, AlreadyExistsIsTrue, Silent
<1>3. ASSUME NEW k \in Keys PROVE Served(k) = Stored(k)
  <2>1. cache[k] = Loaded[k]
    BY DEF Init
  <2>2. /\ cache[k] = NoEntry => Stored(k) = {}
        /\ cache[k] # NoEntry => Lists(cache[k], Stored(k))
    BY <1>1, <2>1, LoadedLists DEF BaseInv, TypeOK
  <2> QED
    BY <2>2 DEF Served, Lists
<1>4. NothingUnstoredServed /\ Covered
  BY <1>3 DEF NothingUnstoredServed, Covered, Stored
<1> QED
  BY <1>1, <1>2, <1>4 DEF AddInv

\* With the tables as they were, only what the calls have found matters.
LEMMA AddKeepsTables ==
    ASSUME AddInv, BaseInv', UNCHANGED <<rows, cache>>, AllAdd',
           \A c \in Calls, k \in Keys : \A i : Owed(c, k, i) => Owed(c, k, i)',
           \A d \in Calls : Told(d)'
    PROVE  AddInv'
<1>1. \A k \in Keys : /\ Stored(k)' = Stored(k) /\ Served(k)' = Served(k)
                      /\ ActiveIds(k)' = ActiveIds(k)
                      /\ \A i \in ActiveIds(k) : ResponseOf(i)' = ResponseOf(i)
  BY DEF Stored, Served, ActiveIds, ResponseOf
<1>2. NothingUnstoredServed' /\ Covered'
  BY <1>1 DEF AddInv, NothingUnstoredServed, Covered
<1>3. AlreadyExistsIsTrue'
  BY DEF AlreadyExistsIsTrue, Told
<1> QED
  BY <1>2, <1>3 DEF AddInv

LEMMA TextsUnchanged == ASSUME UNCHANGED rows PROVE TextsStay
BY DEF TextsStay

\* A call is answered with something else than that the text exists.
LEMMA OtherTold ==
    ASSUME AddInv, TextsStay, NEW c \in Calls, NEW result, NEW k, NEW t, result # "alreadyExists",
           answer' = [answer EXCEPT ![c] = [result |-> result, key |-> k, text |-> t]],
           NEW d \in Calls
    PROVE  Told(d)'
<1>1. answer'[d] = IF d = c THEN [result |-> result, key |-> k, text |-> t] ELSE answer[d]
  BY DEF AddInv, BaseInv, TypeOK
<1>2. CASE d # c
  BY <1>1, <1>2, ToldStays
<1>3. CASE d = c
  <2>1. answer'[d].result # "alreadyExists"
    BY <1>1, <1>3
  <2> QED
    BY <2>1 DEF Told
<1> QED
  BY <1>2, <1>3

LEMMA AddCallAdds ==
    ASSUME AddInv, NEW c \in Calls, NEW k \in Keys, NEW t \in Texts, AddCall(c, k, t)
    PROVE  AddInv'
<1>1. BaseInv' /\ pc[c] = "idle" /\ UNCHANGED <<rows, parents, cache>> /\ TextsStay
  BY AddCallBase, TextsUnchanged DEF AddInv, AddCall
<1>2. CASE k \in FamilyKeys
  <2> DEFINE l == Locals("add", k, 0, t)
  <2>1. /\ pc' = [pc EXCEPT ![c] = "lookup"] /\ local' = [local EXCEPT ![c] = l] /\ UNCHANGED answer
    BY <1>2 DEF AddCall, Begin
  <2>2. l.op = "add"
    BY DEF Locals
  <2> HIDE DEF l
  <2>3. Adding("lookup", l, rows')
    BY <2>2 DEF Adding
  <2>4. AllAdd' /\ \A d \in Calls : d # c => \A j, i : Owed(d, j, i)' <=> Owed(d, j, i)
    BY <1>1, <2>1, <2>3, OneAdds
  <2>5. \A j, i : ~Owed(c, j, i)
    BY <1>1 DEF Owed
  <2>6. \A d \in Calls : Told(d)'
    BY <1>1, <2>1, ToldStays
  <2> QED
    BY <1>1, <2>4, <2>5, <2>6, AddKeepsTables
<1>3. CASE k \notin FamilyKeys
  <2>1. /\ answer' = [answer EXCEPT ![c] = [result |-> "invalidCommandName", key |-> k, text |-> t]]
        /\ UNCHANGED <<pc, local>>
    BY <1>3 DEF AddCall, Refuse, Answer
  <2>2. \A d \in Calls : Told(d)'
    BY <1>1, <2>1, OtherTold
  <2>3. AllAdd'
    BY <1>1, <2>1 DEF AddInv, AllAdd
  <2>4. \A d \in Calls, j \in Keys : \A i : Owed(d, j, i) => Owed(d, j, i)'
    BY <2>1 DEF Owed
  <2> QED
    BY <1>1, <2>2, <2>3, <2>4, AddKeepsTables
<1> QED
  BY <1>2, <1>3

LEMMA AddLookupAdds == ASSUME AddInv, NEW c \in Calls, AddLookup(c) PROVE AddInv'
<1>1. /\ BaseInv' /\ pc[c] = "lookup" /\ UNCHANGED <<rows, parents, cache>> /\ TextsStay
      /\ pc' = [pc EXCEPT ![c] = "write"] /\ UNCHANGED answer
  BY AddLookupBase, AddLookupFinds, TextsUnchanged DEF AddInv, Continue
<1>2. PICK l \in Local :
          /\ local' = [local EXCEPT ![c] = l] /\ l.op = "add"
          /\ \/ {i \in RowsLike(l.key, l.text) : rows[i].removed} = {} /\ l.id = local[c].id
             \/ l.id \in DOMAIN rows /\ l.text = rows[l.id].text
  BY AddLookupFinds DEF AddInv
<1>3. Adding("write", l, rows)
  <2>1. CASE {i \in RowsLike(l.key, l.text) : rows[i].removed} = {} /\ l.id = local[c].id
    <3>1. l.id = 0
      BY <1>1, <2>1, CallTypes DEF AddInv, Sound, AllAdd, Adding
    <3> QED
      BY <1>2, <2>1, <3>1 DEF Adding, RowsLike
  <2>2. CASE l.id \in DOMAIN rows /\ l.text = rows[l.id].text
    <3>1. l.id # 0
      BY <2>2, BaseTypes DEF AddInv, BaseInv
    <3> QED
      BY <1>2, <2>2, <3>1 DEF Adding
  <2> QED
    BY <1>2, <2>1, <2>2
<1>4. Adding("write", l, rows')
  BY <1>1, <1>3
<1>5. AllAdd' /\ \A d \in Calls : d # c => \A j, i : Owed(d, j, i)' <=> Owed(d, j, i)
  BY <1>1, <1>2, <1>4, OneAdds
<1>6. \A j, i : ~Owed(c, j, i)
  BY <1>1 DEF Owed
<1>7. \A d \in Calls : Told(d)'
  BY <1>1, ToldStays
<1> QED
  BY <1>1, <1>5, <1>6, <1>7, AddKeepsTables


\* With the cache as it was, the texts that became active are owed by a call.
LEMMA AddKeepsCache ==
    ASSUME AddInv, BaseInv', UNCHANGED cache, TextsStay, AllAdd',
           \A c \in Calls, k \in Keys : \A i : Owed(c, k, i) => Owed(c, k, i)',
           \A k \in Keys : \A i \in ActiveIds(k)' :
               i \in ActiveIds(k) \/ \E c \in Calls : Owed(c, k, i)',
           \A d \in Calls : Told(d)'
    PROVE  AddInv'
<1>1. \A k \in Keys : Served(k)' = Served(k)
  BY DEF Served
<1>2. NothingUnstoredServed'
  BY <1>1, StoredStays DEF AddInv, NothingUnstoredServed
<1>3. Covered'
  <2> SUFFICES ASSUME NEW k \in Keys, NEW i \in ActiveIds(k)', ~\E c \in Calls : Owed(c, k, i)'
               PROVE  ResponseOf(i)' \in Served(k)'
    BY DEF Covered
  <2>1. i \in ActiveIds(k) /\ ~\E c \in Calls : Owed(c, k, i)
    OBVIOUS
  <2>2. ResponseOf(i) \in Served(k) /\ ResponseOf(i)' = ResponseOf(i)
    BY <2>1, StoredStays DEF AddInv, Covered
  <2> QED
    BY <1>1, <2>2
<1>4. AlreadyExistsIsTrue'
  BY DEF AlreadyExistsIsTrue, Told
<1> QED
  BY <1>2, <1>3, <1>4 DEF AddInv

LEMMA RestoresAdds ==
    ASSUME AddInv, BaseInv', NEW c \in Calls, NEW l, l = local[c], Adding("write", l, rows),
           pc[c] = "write", UNCHANGED cache, Restores(c, l)
    PROVE  AddInv'
<1>1. PICK row \in Row : /\ row.key = l.key /\ row.text = rows[l.id].text /\ ~row.removed
                         /\ rows' = [rows EXCEPT ![l.id] = row]
  BY DEF Restores
<1>2. /\ l.id \in DOMAIN rows /\ rows[l.id].key = l.key
      /\ pc' = [pc EXCEPT ![c] = "apply"] /\ local' = [local EXCEPT ![c] = l] /\ UNCHANGED answer
  BY DEF Restores, Continue
<1>3. DOMAIN rows' = DOMAIN rows /\ \A i \in DOMAIN rows : rows'[i] = IF i = l.id THEN row ELSE rows[i]
  BY <1>1
<1>4. TextsStay
  BY <1>1, <1>2, <1>3 DEF TextsStay
<1>5. l.id # 0
  <2>1. BaseInv
    BY DEF AddInv
  <2>2. Len(rows) \in Nat /\ DOMAIN rows = 1..Len(rows)
    BY <2>1, BaseTypes DEF BaseInv
  <2> QED
    BY <1>2, <2>2
<1>6. Adding("apply", l, rows')
  <2>1. l.op = "add" /\ rows[l.id].text = l.text
    BY <1>5 DEF Adding
  <2>2. rows'[l.id] = row
    BY <1>2, <1>3
  <2> QED
    BY <1>1, <2>1, <2>2 DEF Adding
<1>7. /\ AllAdd' /\ \A d \in Calls : d # c => \A k, i : Owed(d, k, i)' <=> Owed(d, k, i)
      /\ \A k, i : Owed(c, k, i)' <=> l.id = i /\ l.key = k
  BY <1>2, <1>4, <1>6, OneAdds
<1>8. \A k, i : ~Owed(c, k, i)
  BY DEF Owed
<1>9. \A k \in Keys : \A i \in ActiveIds(k)' : i \in ActiveIds(k) \/ (i = l.id /\ k = l.key)
  BY <1>1, <1>3 DEF ActiveIds
<1>10. \A d \in Calls : Told(d)'
  BY <1>2, <1>4, ToldStays
<1> QED
  BY <1>4, <1>7, <1>8, <1>9, <1>10, AddKeepsCache

LEMMA InsertsAdds ==
    ASSUME AddInv, BaseInv', NEW c \in Calls, NEW l, l = local[c], Adding("write", l, rows),
           pc[c] = "write", UNCHANGED cache, Inserts(c, l)
    PROVE  AddInv'
<1>1. PICK row \in Row, m \in Local :
          /\ row.key = l.key /\ row.text = l.text /\ ~row.removed
          /\ rows' = Append(rows, row)
          /\ m.op = "add" /\ m.key = l.key /\ m.text = l.text
          /\ m.id = Len(rows) + 1 /\ local' = [local EXCEPT ![c] = m]
  BY DEF Inserts
<1>2. pc' = [pc EXCEPT ![c] = "apply"] /\ UNCHANGED answer
  BY DEF Inserts, Continue
<1>3. rows \in Seq(Row) /\ Len(rows) \in Nat /\ DOMAIN rows = 1..Len(rows)
  BY BaseTypes DEF AddInv, BaseInv
<1>4. /\ DOMAIN rows' = 1..(Len(rows) + 1)
      /\ \A i \in DOMAIN rows : rows'[i] = rows[i]
      /\ rows'[Len(rows) + 1] = row
  BY <1>1, <1>3
<1>5. \A i \in DOMAIN rows' : i \in DOMAIN rows \/ i = m.id
  BY <1>1, <1>3, <1>4
<1>6. TextsStay
  BY <1>1, <1>3, <1>4, <1>5 DEF TextsStay
<1>7. Adding("apply", m, rows')
  BY <1>1, <1>4 DEF Adding
<1>8. /\ AllAdd' /\ \A d \in Calls : d # c => \A k, i : Owed(d, k, i)' <=> Owed(d, k, i)
      /\ \A k, i : Owed(c, k, i)' <=> m.id = i /\ m.key = k
  <2>1. pc' = [pc EXCEPT ![c] = "apply"] /\ local' = [local EXCEPT ![c] = m]
    BY <1>1, <1>2
  <2> QED
    BY <2>1, <1>6, <1>7, OneAdds
<1>9. \A k, i : ~Owed(c, k, i)
  BY DEF Owed
<1>10. \A k \in Keys : \A i \in ActiveIds(k)' : i \in ActiveIds(k) \/ (i = m.id /\ k = m.key)
  BY <1>1, <1>4, <1>5 DEF ActiveIds
<1>11. \A d \in Calls : Told(d)'
  BY <1>2, <1>6, ToldStays
<1> QED
  BY <1>6, <1>8, <1>9, <1>10, <1>11, AddKeepsCache

\* The text that is in the way of an insert is not a removed one.
LEMMA TakenAdds ==
    ASSUME AddInv, BaseInv', NEW c \in Calls, NEW l, l = local[c], Adding("write", l, rows),
           pc[c] = "write", UNCHANGED cache, Taken(c, l)
    PROVE  AddInv'
<1>1. /\ UNCHANGED rows /\ TextsStay
      /\ pc' = [pc EXCEPT ![c] = "idle"] /\ local' = [local EXCEPT ![c] = Idle]
      /\ answer' = [answer EXCEPT ![c] = [result |-> "alreadyExists", key |-> l.key, text |-> l.text]]
  BY TextsUnchanged DEF Taken, Return, Answer
<1>2. RowsLike(l.key, l.text) \cap ActiveIds(l.key) # {}
  BY DEF Taken, RowsLike, ActiveIds, Adding
<1>3. ASSUME NEW d \in Calls PROVE Told(d)'
  <2>1. CASE d # c
    BY <1>1, <2>1, ToldStays DEF AddInv, BaseInv, TypeOK
  <2>2. CASE d = c
    <3>1. answer'[d].key = l.key /\ answer'[d].text = l.text
      BY <1>1, <2>2 DEF AddInv, BaseInv, TypeOK
    <3>2. RowsLike(l.key, l.text)' \cap ActiveIds(l.key)' # {}
      BY <1>1, <1>2, LikeStays
    <3> QED
      BY <3>1, <3>2 DEF Told, RowsLike, ActiveIds
  <2> QED
    BY <2>1, <2>2
<1>4. AllAdd' /\ \A d \in Calls : d # c => \A k, i : Owed(d, k, i)' <=> Owed(d, k, i)
  BY <1>1, OneAdds
<1>5. \A k, i : ~Owed(c, k, i)
  BY DEF Owed
<1> QED
  BY <1>1, <1>3, <1>4, <1>5, AddKeepsTables

LEMMA AddCommitAdds == ASSUME AddInv, NEW c \in Calls, AddCommit(c) PROVE AddInv'
<1> PICK l : l = local[c]
  OBVIOUS
<1>1. pc[c] = "write" /\ UNCHANGED cache /\ (Restores(c, l) \/ Inserts(c, l) \/ Taken(c, l))
  BY AddCommitDoes DEF AddInv
<1>2. BaseInv' /\ Adding("write", l, rows)
  BY <1>1, AddCommitBase DEF AddInv, AllAdd
<1> QED
  BY <1>1, <1>2, RestoresAdds, InsertsAdds, TakenAdds

\* The cache is read again after the transaction: what other calls have put there
\* meanwhile stays.
LEMMA AddApplyAdds == ASSUME AddInv, NEW c \in Calls, AddApply(c) PROVE AddInv'
<1> PICK l : l = local[c]
  OBVIOUS
<1> DEFINE response == [id |-> l.id, text |-> l.text]
<1>1. /\ pc[c] = "apply" /\ UNCHANGED rows
      /\ cache' = [cache EXCEPT ![l.key] = IF @ = NoEntry THEN <<response>> ELSE Append(@, response)]
      /\ pc' = [pc EXCEPT ![c] = "idle"] /\ local' = [local EXCEPT ![c] = Idle]
      /\ answer' = [answer EXCEPT ![c] = [result |-> "inserted", key |-> l.key, text |-> l.text]]
  BY DEF AddApply, Return, Answer
<1>2. BaseInv' /\ TextsStay
  BY <1>1, AddApplyBase, TextsUnchanged DEF AddInv
<1>3. /\ l.key \in Keys /\ l.id \in DOMAIN rows /\ response \in Response
      /\ rows[l.id].text = l.text /\ ~rows[l.id].removed /\ rows[l.id].key = l.key
  BY <1>1, CallTypes, ResponseTyped DEF AddInv, AllAdd, Adding
<1>4. response = ResponseOf(l.id) /\ l.id \in ActiveIds(l.key) /\ response \in Stored(l.key)
  BY <1>3 DEF ResponseOf, ActiveIds, Stored
<1> HIDE DEF response
<1>5. \A k \in Keys : k # l.key => cache'[k] = cache[k]
  BY <1>1 DEF AddInv, BaseInv, TypeOK
<1>6. Served(l.key)' = Served(l.key) \cup {response}
  <2>1. CASE cache[l.key] = NoEntry
    <3>1. cache'[l.key] = <<response>> /\ cache'[l.key] # NoEntry
      BY <1>1, <1>3, <2>1, Appended, SlotsAssumption DEF AddInv, BaseInv, TypeOK, Entry
    <3>2. {<<response>>[n] : n \in DOMAIN <<response>>} = {response}
      OBVIOUS
    <3> QED
      BY <2>1, <3>1, <3>2 DEF Served
  <2>2. CASE cache[l.key] # NoEntry
    <3> PICK s : s = cache[l.key]
      OBVIOUS
    <3>1. s \in Entry
      BY <1>3, <2>2, BaseTypes DEF AddInv, BaseInv
    <3>2. cache'[l.key] = Append(s, response)
      BY <1>1, <1>3, <2>2 DEF AddInv, BaseInv, TypeOK
    <3>4. Append(s, response) \in Entry
      BY <1>3, <2>2, Appended DEF AddInv
    <3>5. Append(s, response) # NoEntry
      BY <3>4, SlotsAssumption DEF Entry
    <3>3. {Append(s, response)[n] : n \in DOMAIN Append(s, response)} =
              {s[n] : n \in DOMAIN s} \cup {response}
      <4>1. Len(s) \in Nat /\ DOMAIN s = 1..Len(s) /\ DOMAIN Append(s, response) = 1..(Len(s) + 1)
        BY <3>1 DEF Entry
      <4>2. /\ \A n \in DOMAIN s : Append(s, response)[n] = s[n]
            /\ Append(s, response)[Len(s) + 1] = response
        BY <3>1 DEF Entry
      <4>3. \A n \in 1..(Len(s) + 1) : n \in DOMAIN s \/ n = Len(s) + 1
        BY <4>1
      <4>4. Len(s) + 1 \in 1..(Len(s) + 1) /\ \A n \in DOMAIN s : n \in 1..(Len(s) + 1)
        BY <4>1
      <4> QED
        BY <4>1, <4>2, <4>3, <4>4
    <3>6. Served(l.key) = {s[n] : n \in DOMAIN s}
      BY <2>2 DEF Served
    <3>7. PICK u : u = Append(s, response)
      OBVIOUS
    <3>8. cache'[l.key] = u /\ u # NoEntry
      BY <3>2, <3>5, <3>7
    <3>9. Served(l.key)' = {u[n] : n \in DOMAIN u}
      BY <3>8 DEF Served
    <3>10. {u[n] : n \in DOMAIN u} = {s[n] : n \in DOMAIN s} \cup {response}
      BY ONLY <3>3, <3>7
    <3> QED
      BY ONLY <3>6, <3>9, <3>10
  <2> QED
    BY <2>1, <2>2
<1>7. \A k \in Keys : /\ Stored(k)' = Stored(k) /\ ActiveIds(k)' = ActiveIds(k)
                      /\ \A i \in ActiveIds(k) : ResponseOf(i)' = ResponseOf(i)
  BY <1>1 DEF Stored, ActiveIds, ResponseOf
<1>8. \A k \in Keys : k # l.key => Served(k)' = Served(k)
  BY <1>5 DEF Served
<1>9. NothingUnstoredServed'
  BY <1>4, <1>6, <1>7, <1>8 DEF AddInv, NothingUnstoredServed
<1>10. AllAdd' /\ \A d \in Calls : d # c => \A k, i : Owed(d, k, i)' <=> Owed(d, k, i)
  BY <1>1, <1>2, OneAdds
<1>11. \A k, i : Owed(c, k, i) => k = l.key /\ i = l.id
  BY DEF Owed
<1>12. Covered'
  <2> SUFFICES ASSUME NEW k \in Keys, NEW i \in ActiveIds(k), ~\E d \in Calls : Owed(d, k, i)'
               PROVE  ResponseOf(i) \in Served(k)'
    BY <1>7 DEF Covered
  <2>1. CASE k = l.key /\ i = l.id
    BY <1>4, <1>6, <2>1
  <2>2. CASE ~(k = l.key /\ i = l.id)
    <3>1. ~\E d \in Calls : Owed(d, k, i)
      BY <1>10, <1>11, <2>2
    <3>2. ResponseOf(i) \in Served(k)
      BY <3>1 DEF AddInv, Covered
    <3> QED
      BY <1>6, <1>8, <3>2
  <2> QED
    BY <2>1, <2>2
<1>13. \A d \in Calls : Told(d)'
  BY <1>1, <1>2, OtherTold
<1>14. AlreadyExistsIsTrue'
  BY <1>13 DEF AlreadyExistsIsTrue, Told
<1> QED
  BY <1>2, <1>9, <1>10, <1>12, <1>14 DEF AddInv


LEMMA FailureAdds == ASSUME AddInv, NEW c \in Calls, TransactionFails(c) PROVE AddInv'
<1> PICK k, t : k = local[c].key /\ t = local[c].text
  OBVIOUS
<1>1. /\ BaseInv' /\ UNCHANGED <<rows, parents, cache>> /\ TextsStay
      /\ pc[c] \in {"lookup", "write"} /\ local[c].op = "add"
  BY TransactionFailsBase, TextsUnchanged DEF AddInv, AllAdd, Adding, TransactionFails
<1>2. /\ pc' = [pc EXCEPT ![c] = "idle"] /\ local' = [local EXCEPT ![c] = Idle]
      /\ answer' = [answer EXCEPT ![c] = [result |-> "insertFailed", key |-> k, text |-> t]]
  BY <1>1 DEF TransactionFails, Return, Answer
<1>3. AllAdd' /\ \A d \in Calls : d # c => \A j, i : Owed(d, j, i)' <=> Owed(d, j, i)
  BY <1>1, <1>2, OneAdds
<1>4. \A j, i : ~Owed(c, j, i)
  BY <1>1 DEF Owed
<1>5. \A d \in Calls : Told(d)'
  BY <1>1, <1>2, OtherTold
<1> QED
  BY <1>1, <1>3, <1>4, <1>5, AddKeepsTables

\* initialize leaves nothing owed: the cache is the active texts.
LEMMA RestartAdds == ASSUME AddInv, Restart PROVE AddInv'
<1>1. BaseInv' /\ UNCHANGED <<rows, parents>> /\ cache' = Loaded
  BY RestartBase DEF AddInv, Restart
<1>2. AllAdd' /\ AlreadyExistsIsTrue'
  BY DEF Restart, AllAdd, AlreadyExistsIsTrue, Silent
<1>3. ASSUME NEW k \in Keys PROVE Served(k)' = Stored(k)'
  <2> PICK s, R : s = Loaded[k] /\ R = Stored(k)
    OBVIOUS
  <2>1. (s = NoEntry => R = {}) /\ (s # NoEntry => Lists(s, R))
    BY LoadedLists DEF AddInv, BaseInv, TypeOK
  <2>2. cache'[k] = s /\ Stored(k)' = R
    BY <1>1 DEF Stored, ActiveIds, ResponseOf
  <2>3. Served(k)' = IF s = NoEntry THEN {} ELSE {s[n] : n \in DOMAIN s}
    BY <2>2 DEF Served
  <2> QED
    BY <2>1, <2>2, <2>3 DEF Lists
<1>4. NothingUnstoredServed' /\ Covered'
  BY <1>3 DEF NothingUnstoredServed, Covered, Stored
<1> QED
  BY <1>1, <1>2, <1>4 DEF AddInv

LEMMA AddStep == ASSUME Ops \subseteq {"add"} PROVE AddInv /\ [Next]_vars => AddInv'
<1> SUFFICES ASSUME AddInv, [Next]_vars PROVE AddInv'
  OBVIOUS
<1>1. CASE \E c \in Calls, k \in Keys, t \in Texts : AddCall(c, k, t)
  BY <1>1, AddCallAdds
<1>2. CASE \E c \in Calls, k \in Keys, i \in DOMAIN rows :
               \/ \E t \in Texts : UpdateCall(c, k, i, t)
               \/ RemoveCall(c, k, i)
               \/ RestoreCall(c, k, i)
  BY <1>2 DEF UpdateCall, RemoveCall, RestoreCall
<1>3. CASE \E c \in Calls : CallStep(c)
  <2>1. PICK c \in Calls : CallStep(c)
    BY <1>3
  <2>2. CASE AddLookup(c) \/ AddCommit(c) \/ AddApply(c)
    BY <2>2, AddLookupAdds, AddCommitAdds, AddApplyAdds
  <2>3. CASE UpdateCommit(c) \/ UpdateApply(c) \/ RemoveCommit(c) \/ RemoveApply(c)
    BY <2>3 DEF AddInv, AllAdd, Adding, UpdateCommit, UpdateApply, RemoveCommit, RemoveApply
  <2>4. CASE RestoreLookup(c) \/ RestoreCommit(c) \/ RestoreApply(c)
    BY <2>4 DEF AddInv, AllAdd, Adding, RestoreLookup, RestoreCommit, RestoreApply
  <2>5. CASE TransactionFails(c)
    BY <2>5, FailureAdds
  <2> QED
    BY <2>1, <2>2, <2>3, <2>4, <2>5 DEF CallStep
<1>4. CASE Restart
  BY <1>4, RestartAdds
<1>5. CASE UNCHANGED vars
  <2>1. UNCHANGED <<rows, parents, cache, pc, local, answer>>
    BY <1>5 DEF vars
  <2>2. BaseInv'
    BY <1>5, BaseStep DEF AddInv
  <2>3. AllAdd' /\ TextsStay
    BY <2>1, TextsUnchanged DEF AddInv, AllAdd
  <2>4. \A d \in Calls : Told(d)'
    BY <2>1, <2>3, ToldStays
  <2>5. \A c \in Calls, k \in Keys : \A i : Owed(c, k, i) => Owed(c, k, i)'
    BY <2>1 DEF Owed
  <2> QED
    BY <2>1, <2>2, <2>3, <2>4, <2>5, AddKeepsTables
<1> QED
  BY <1>1, <1>2, <1>3, <1>4, <1>5 DEF Next

LEMMA AddAlways == ASSUME Ops \subseteq {"add"} PROVE Spec => []AddInv
<1>1. AddInv /\ [Next]_vars => AddInv'
  BY AddStep
<1> QED
  BY AddInit, <1>1, PTL DEF Spec

\* Where texts are only added, the bot never says one that the database does not hold
\* active, whatever calls are in flight and wherever the process stops.
THEOREM AddedIsServed == ASSUME Ops \subseteq {"add"} PROVE Spec => []NothingUnstoredServed
<1>1. AddInv => NothingUnstoredServed
  BY DEF AddInv
<1> QED
  BY <1>1, AddAlways, PTL

\* Where texts are only added, whoever is told that a text already exists finds it
\* stored, not removed, under the key it asked for.
THEOREM ExistsIsTrue == ASSUME Ops \subseteq {"add"} PROVE Spec => []AlreadyExistsIsTrue
<1>1. AddInv => AlreadyExistsIsTrue
  BY DEF AddInv
<1> QED
  BY <1>1, AddAlways, PTL

\* Where texts are only added, and by any number of callers at once: once their calls
\* have returned, the texts the bot picks from are exactly those stored.
THEOREM AddsServeAll == ASSUME Ops \subseteq {"add"} PROVE Spec => []ServedIsStored
<1>1. AddInv => ServedIsStored
  <2> SUFFICES ASSUME AddInv, Quiet, NEW k \in Keys PROVE Served(k) = Stored(k)
    BY DEF ServedIsStored
  <2>1. \A c \in Calls : \A i : ~Owed(c, k, i)
    BY DEF Quiet, Owed
  <2>2. Stored(k) \subseteq Served(k)
    BY <2>1 DEF AddInv, Covered, Stored
  <2> QED
    BY <2>2 DEF AddInv, NothingUnstoredServed
<1> QED
  BY <1>1, AddAlways, PTL



-----------------------------------------------------------------------------
(* All operations, one call at a time.                                     *)

Elements(s) == {s[n] : n \in DOMAIN s}

\* No hole and no text twice.
Plain(s) == s \in Seq(Response) /\ \A m, n \in DOMAIN s : s[m] = s[n] => m = n

LEMMA PlainOne ==
    ASSUME NEW x \in Response
    PROVE  Plain(<<x>>) /\ Elements(<<x>>) = {x}
BY DEF Plain, Elements

LEMMA PlainAppend ==
    ASSUME NEW s, Plain(s), NEW x \in Response, x \notin Elements(s)
    PROVE  Plain(Append(s, x)) /\ Elements(Append(s, x)) = Elements(s) \cup {x}
<1> DEFINE u == Append(s, x)
<1>1. s \in Seq(Response) /\ Len(s) \in Nat /\ DOMAIN s = 1..Len(s)
  BY DEF Plain
<1>2. /\ u \in Seq(Response) /\ DOMAIN u = 1..(Len(s) + 1)
      /\ \A n \in DOMAIN s : u[n] = s[n]
      /\ u[Len(s) + 1] = x
  BY <1>1
<1>3. /\ \A n \in 1..(Len(s) + 1) : n \in DOMAIN s \/ n = Len(s) + 1
      /\ Len(s) + 1 \in 1..(Len(s) + 1) /\ \A n \in DOMAIN s : n \in 1..(Len(s) + 1)
  BY <1>1
<1> HIDE DEF u
<1>4. Elements(u) = Elements(s) \cup {x}
  BY <1>2, <1>3 DEF Elements
<1>5. \A n \in DOMAIN s : s[n] # x
  BY DEF Elements
<1>6. \A m, n \in DOMAIN u : u[m] = u[n] => m = n
  BY <1>2, <1>3, <1>5 DEF Plain
<1> QED
  BY <1>2, <1>4, <1>6 DEF Plain, u

LEMMA AssignPuts ==
    ASSUME NEW S, NEW s \in Seq(S), NEW n \in DOMAIN s, NEW x, NEW j \in DOMAIN s
    PROVE  Assign(s, n, x)[j] = IF j = n THEN x ELSE s[j]
<1>1. DOMAIN s = 1..Len(s) /\ Len(s) \in Nat /\ ~(n > Len(s)) /\ j <= Len(s)
  OBVIOUS
<1> QED
  BY <1>1 DEF Assign

LEMMA PlainAssign ==
    ASSUME NEW s, Plain(s), NEW n \in DOMAIN s, NEW x \in Response, x \notin Elements(s) \ {s[n]}
    PROVE  /\ Plain(Assign(s, n, x))
           /\ Elements(Assign(s, n, x)) = (Elements(s) \ {s[n]}) \cup {x}
<1> DEFINE u == Assign(s, n, x)
<1>1. s \in Seq(Response) /\ s \in Seq(Response \cup {Hole}) /\ n \in Nat /\ DOMAIN s = 1..Len(s)
      /\ Len(s) \in Nat
  BY DEF Plain
<1>2. /\ u \in Seq(Response \cup {Hole}) /\ Len(u) = Len(s)
      /\ \A j \in DOMAIN s : u[j] = IF j = n THEN x ELSE s[j]
  <2> DEFINE S == Response \cup {Hole}
  <2>1. s \in Seq(S) /\ n \in Nat /\ x \in S /\ Hole \in S
    BY <1>1
  <2> HIDE DEF S
  <2>2. PICK m : m = n
    OBVIOUS
  <2>3. m \in Nat /\ m \in DOMAIN s
    BY <2>1, <2>2
  <2>4. Assign(s, m, x) \in Seq(S)
    BY <2>1, <2>3, AssignIs
  <2>5. Len(Assign(s, m, x)) = Len(s)
    BY <2>1, <2>3, AssignIs
  <2>6. \A j \in DOMAIN s : Assign(s, m, x)[j] = IF j = m THEN x ELSE s[j]
    BY <2>1, <2>3, AssignPuts
  <2> QED
    BY <2>2, <2>4, <2>5, <2>6 DEF S
<1> HIDE DEF u
<1>3. DOMAIN u = DOMAIN s
  BY <1>1, <1>2
<1>4. u \in Seq(Response)
  <2>1. \A j \in DOMAIN s : s[j] \in Response
    BY <1>1
  <2>2. \A j \in 1..Len(u) : u[j] \in Response
    BY <1>1, <1>2, <1>3, <2>1
  <2> QED
    BY <1>2, <2>2
<1>5. \A j \in DOMAIN s : j # n => s[j] # s[n] /\ s[j] # x
  BY DEF Plain, Elements
<1>6. \A i, j \in DOMAIN u : u[i] = u[j] => i = j
  BY <1>2, <1>3, <1>5 DEF Plain
<1>7. Elements(u) = (Elements(s) \ {s[n]}) \cup {x}
  <2>1. \A r \in Elements(u) : r \in (Elements(s) \ {s[n]}) \cup {x}
    BY <1>2, <1>3, <1>5 DEF Elements
  <2>2. x \in Elements(u)
    BY <1>2, <1>3 DEF Elements
  <2>3. \A r \in Elements(s) \ {s[n]} : r \in Elements(u)
    BY <1>2, <1>3 DEF Elements
  <2> QED
    BY <2>1, <2>2, <2>3
<1> QED
  BY <1>4, <1>6, <1>7 DEF Plain, u

LEMMA PlainSplice ==
    ASSUME NEW s, Plain(s), NEW n \in DOMAIN s
    PROVE  Plain(Splice(s, n)) /\ Elements(Splice(s, n)) = Elements(s) \ {s[n]}
<1> DEFINE u == Splice(s, n)
<1>1. s \in Seq(Response) /\ n \in Nat /\ DOMAIN s = 1..Len(s) /\ Len(s) \in Nat
  BY DEF Plain
<1>2. /\ u \in Seq(Response) /\ Len(u) = Len(s) - 1
      /\ \A j \in 1..Len(s) - 1 : u[j] = IF j < n THEN s[j] ELSE s[j + 1]
  BY <1>1, SpliceIs
<1> HIDE DEF u
<1>3. DOMAIN u = 1..Len(s) - 1
  BY <1>1, <1>2
<1> DEFINE From(j) == IF j < n THEN j ELSE j + 1
<1>4. \A j \in DOMAIN u : From(j) \in DOMAIN s /\ From(j) # n /\ u[j] = s[From(j)]
  BY <1>1, <1>2, <1>3
<1>5. \A i, j \in DOMAIN u : From(i) = From(j) => i = j
  BY <1>1, <1>3
<1>6. \A m \in DOMAIN s : m # n => \E j \in DOMAIN u : From(j) = m
  <2> SUFFICES ASSUME NEW m \in DOMAIN s, m # n PROVE \E j \in DOMAIN u : From(j) = m
    OBVIOUS
  <2>1. CASE m < n
    BY <1>1, <1>3, <2>1
  <2>2. CASE m > n
    <3>1. m - 1 \in DOMAIN u /\ ~(m - 1 < n) /\ (m - 1) + 1 = m
      BY <1>1, <1>3, <2>2
    <3> QED
      BY <3>1
  <2> QED
    BY <1>1, <2>1, <2>2
<1> HIDE DEF From
<1>7. \A m \in DOMAIN s : m # n => s[m] # s[n]
  BY DEF Plain
<1>8. \A i, j \in DOMAIN u : u[i] = u[j] => i = j
  BY <1>4, <1>5 DEF Plain
<1>9. Elements(u) = Elements(s) \ {s[n]}
  <2>1. \A r \in Elements(u) : r \in Elements(s) \ {s[n]}
    BY <1>4, <1>7 DEF Elements
  <2>2. \A r \in Elements(s) \ {s[n]} : r \in Elements(u)
    <3> SUFFICES ASSUME NEW m \in DOMAIN s, m # n PROVE s[m] \in Elements(u)
      BY DEF Elements
    <3>1. PICK j \in DOMAIN u : From(j) = m
      BY <1>6
    <3> QED
      BY <1>4, <3>1 DEF Elements
  <2> QED
    BY <2>1, <2>2
<1> QED
  BY <1>2, <1>8, <1>9 DEF Plain, u

Calm == \A k \in Keys : Served(k) = Stored(k)

\* The text a call is about is still where the call found it in the cache.
Placed(l) ==
    /\ cache[l.key] # NoEntry /\ l.index \in DOMAIN cache[l.key]
    /\ cache[l.key][l.index].id = l.id

\* What a call has found that has not yet committed.
Ready(p, l) ==
    /\ l.op = "restore" => (l.entry <=> cache[l.key] # NoEntry)
    /\ p = "write" /\ l.op \in {"add", "restore"} /\ l.id # 0 =>
           rows[l.id].removed /\ rows[l.id].text = l.text
    /\ l.op \in {"update", "remove"} => Placed(l)

\* What a call that has committed still owes the cache.
Due(l) ==
    /\ l.op \in {"add", "restore"} =>
           /\ l.id \in ActiveIds(l.key) /\ ResponseOf(l.id).text = l.text
           /\ Served(l.key) = Stored(l.key) \ {ResponseOf(l.id)}
    /\ l.op = "restore" => (l.entry <=> cache[l.key] # NoEntry)
    /\ l.op = "update" =>
           /\ l.id \in ActiveIds(l.key) /\ ResponseOf(l.id).text = l.text /\ Placed(l)
           /\ Served(l.key) = (Stored(l.key) \ {ResponseOf(l.id)}) \cup {cache[l.key][l.index]}
    /\ l.op = "remove" =>
           /\ l.id \notin ActiveIds(l.key) /\ Placed(l)
           /\ Served(l.key) = Stored(l.key) \cup {cache[l.key][l.index]}
    /\ \A k \in Keys \ {l.key} : Served(k) = Stored(k)

CallSynced(p, l) ==
    /\ p \in {"lookup", "write"} => Ready(p, l)
    /\ p = "apply" => Due(l)

SyncInv ==
    /\ BaseInv
    /\ \A k \in Keys : cache[k] # NoEntry => Plain(cache[k])
    /\ (\A c \in Calls : pc[c] # "apply") => Calm
    /\ \A c \in Calls, p \in {"lookup", "write", "apply"}, l \in Local :
           pc[c] = p /\ local[c] = l => CallSynced(p, l)


\* initialize leaves the cache in step with the tables.
LEMMA LoadedPlain ==
    ASSUME BaseInv, NEW k \in Keys
    PROVE  /\ Loaded[k] = NoEntry => Stored(k) = {}
           /\ Loaded[k] # NoEntry => Plain(Loaded[k]) /\ Elements(Loaded[k]) = Stored(k)
<1> PICK s : s = Loaded[k]
  OBVIOUS
<1>1. /\ s \in Entry \cup {NoEntry}
      /\ s = NoEntry => Stored(k) = {}
      /\ s # NoEntry => Lists(s, Stored(k))
  BY LoadedLists DEF BaseInv, TypeOK
<1>2. Stored(k) \subseteq Response
  BY BaseTypes DEF BaseInv, Stored, ActiveIds
<1>3. ASSUME s # NoEntry PROVE Plain(s) /\ Elements(s) = Stored(k)
  <2>1. s \in Entry /\ Lists(s, Stored(k))
    BY <1>1, <1>3
  <2>2. \A n \in 1..Len(s) : s[n] \in Response
    BY <1>2, <2>1 DEF Lists
  <2>3. s \in Seq(Response)
    BY <2>1, <2>2 DEF Entry
  <2> QED
    BY <2>1, <2>3 DEF Plain, Lists, Elements
<1> QED
  BY <1>1, <1>3

LEMMA SyncInit == Init => SyncInv
<1> SUFFICES ASSUME Init PROVE SyncInv
  OBVIOUS
<1>1. BaseInv /\ \A c \in Calls : pc[c] = "idle"
  BY InitBaseInv DEF Init
<1>2. ASSUME NEW k \in Keys
      PROVE  (cache[k] # NoEntry => Plain(cache[k])) /\ Served(k) = Stored(k)
  <2>1. cache[k] = Loaded[k]
    BY DEF Init
  <2> QED
    BY <1>1, <2>1, LoadedPlain DEF Served, Elements
<1> QED
  BY <1>1, <1>2 DEF SyncInv, Calm, CallSynced

LEMMA SyncRestart == ASSUME SyncInv, Restart PROVE SyncInv'
<1>1. BaseInv' /\ UNCHANGED <<rows, parents>> /\ cache' = Loaded /\ \A c \in Calls : pc'[c] = "idle"
  BY RestartBase DEF SyncInv, Restart
<1>2. ASSUME NEW k \in Keys
      PROVE  (cache'[k] # NoEntry => Plain(cache'[k])) /\ Served(k)' = Stored(k)'
  <2> PICK s, R : s = Loaded[k] /\ R = Stored(k)
    OBVIOUS
  <2>1. (s = NoEntry => R = {}) /\ (s # NoEntry => Plain(s) /\ Elements(s) = R)
    BY LoadedPlain DEF SyncInv
  <2>2. cache'[k] = s /\ Stored(k)' = R
    BY <1>1 DEF Stored, ActiveIds, ResponseOf
  <2>3. Served(k)' = IF s = NoEntry THEN {} ELSE Elements(s)
    BY <2>2 DEF Served, Elements
  <2> QED
    BY <2>1, <2>2, <2>3
<1> QED
  BY <1>1, <1>2 DEF SyncInv, Calm, CallSynced

\* No call but that of c is in flight.
Alone(c) == c \in Calls /\ \A d \in Calls \ {c} : pc[d] = "idle"

LEMMA OneSyncs ==
    ASSUME SyncInv, BaseInv', NEW c, Alone(c), NEW q, NEW l,
           pc' = [pc EXCEPT ![c] = q], local' = [local EXCEPT ![c] = l],
           \A k \in Keys : cache'[k] # NoEntry => Plain(cache'[k]),
           q # "apply" => Calm',
           CallSynced(q, l)'
    PROVE  SyncInv'
<1>1. pc'[c] = q /\ local'[c] = l /\ \A d \in Calls \ {c} : pc'[d] = "idle"
  BY DEF SyncInv, BaseInv, TypeOK, Alone
<1>2. ASSUME NEW d \in Calls, NEW p, NEW m, pc'[d] = p, local'[d] = m PROVE CallSynced(p, m)'
  <2>1. CASE d = c
    BY <1>1, <1>2, <2>1
  <2>2. CASE d # c
    BY <1>1, <1>2, <2>2 DEF CallSynced
  <2> QED
    BY <2>1, <2>2
<1>3. (\A d \in Calls : pc'[d] # "apply") => Calm'
  BY <1>1 DEF Alone
<1> QED
  BY <1>2, <1>3 DEF SyncInv


LEMMA SameTexts ==
    ASSUME UNCHANGED <<rows, cache>>
    PROVE  /\ \A k : Served(k)' = Served(k) /\ Stored(k)' = Stored(k)
           /\ \A k : ActiveIds(k)' = ActiveIds(k)
           /\ \A i : ResponseOf(i)' = ResponseOf(i)
           /\ Calm => Calm'
           /\ \A p, l : Ready(p, l) => Ready(p, l)'
<1>1. /\ \A k : Served(k)' = Served(k) /\ Stored(k)' = Stored(k)
      /\ \A k : ActiveIds(k)' = ActiveIds(k)
      /\ \A i : ResponseOf(i)' = ResponseOf(i)
  BY DEF Served, Stored, ActiveIds, ResponseOf
<1>2. \A p, l : Ready(p, l) => Ready(p, l)'
  BY DEF Ready, Placed
<1> QED
  BY <1>1, <1>2 DEF Calm

LEMMA Found ==
    ASSUME SyncInv, NEW c, Alone(c)
    PROVE  /\ c \in Calls /\ BaseInv
           /\ pc[c] # "apply" => Calm
           /\ pc[c] \in {"lookup", "write"} => Ready(pc[c], local[c])
           /\ pc[c] = "apply" => Due(local[c])
<1>1. c \in Calls /\ BaseInv /\ (pc[c] # "apply" => Calm)
  BY DEF SyncInv, Alone
<1>2. ASSUME pc[c] \in {"lookup", "write", "apply"} PROVE CallSynced(pc[c], local[c])
  <2>1. local[c] \in Local
    BY <1>1, <1>2, CallTypes
  <2> QED
    BY <1>1, <1>2, <2>1 DEF SyncInv
<1> QED
  BY <1>1, <1>2 DEF CallSynced

LEMMA StillSynced ==
    ASSUME SyncInv, BaseInv', NEW c, Alone(c), pc[c] # "apply", UNCHANGED <<rows, cache>>,
           NEW q \in {"idle", "lookup", "write"}, NEW l,
           pc' = [pc EXCEPT ![c] = q], local' = [local EXCEPT ![c] = l],
           q # "idle" => Ready(q, l)
    PROVE  SyncInv'
<1>1. Calm'
  BY SameTexts, Found
<1>2. CallSynced(q, l)'
  BY SameTexts DEF CallSynced
<1>3. \A k \in Keys : cache'[k] # NoEntry => Plain(cache'[k])
  BY DEF SyncInv
<1> QED
  BY <1>1, <1>2, <1>3, OneSyncs

LEMMA RefusedSynced ==
    ASSUME SyncInv, BaseInv', NEW c, Alone(c), pc[c] = "idle", UNCHANGED <<rows, cache, pc, local>>
    PROVE  SyncInv'
<1>1. pc' = [pc EXCEPT ![c] = "idle"] /\ local' = [local EXCEPT ![c] = local[c]]
  BY Found DEF BaseInv, TypeOK
<1> QED
  BY <1>1, StillSynced

LEMMA ReturnSynced ==
    ASSUME SyncInv, BaseInv', NEW c, Alone(c), pc[c] # "apply", UNCHANGED <<rows, cache>>,
           NEW result, Return(c, result)
    PROVE  SyncInv'
<1>1. pc' = [pc EXCEPT ![c] = "idle"] /\ local' = [local EXCEPT ![c] = Idle]
  BY DEF Return
<1> QED
  BY <1>1, StillSynced

LEMMA BeginSynced ==
    ASSUME SyncInv, BaseInv', NEW c, Alone(c), pc[c] = "idle", UNCHANGED <<rows, cache>>,
           NEW p \in {"lookup", "write"}, NEW op \in AllOps, NEW k \in Keys,
           NEW i \in Ids \cup {0}, NEW t, Begin(c, p, Locals(op, k, i, t)),
           op \in {"add", "restore"} => p = "lookup",
           op \in {"update", "remove"} => IndexOf(k, i) # 0
    PROVE  SyncInv'
<1> DEFINE l == Locals(op, k, i, t)
<1>1. /\ pc' = [pc EXCEPT ![c] = p] /\ local' = [local EXCEPT ![c] = l]
  BY DEF Begin
<1>2. /\ l.op = op /\ l.key = k /\ l.id = i /\ l.index = IndexOf(k, i)
      /\ l.entry <=> cache[k] # NoEntry
  BY DEF Locals
<1> HIDE DEF l
<1>3. op \in {"update", "remove"} => Placed(l)
  BY <1>2, IndexIs, Found DEF BaseInv, Placed
<1>4. Ready(p, l)
  BY <1>2, <1>3 DEF Ready
<1> QED
  BY <1>1, <1>4, StillSynced


LEMMA CallsSync ==
    ASSUME SyncInv, NEW c, Alone(c), NEW k \in Keys,
           \/ \E t \in Texts : AddCall(c, k, t)
           \/ \E i \in DOMAIN rows :
                  (\E t \in Texts : UpdateCall(c, k, i, t)) \/ RemoveCall(c, k, i) \/ RestoreCall(c, k, i)
    PROVE  SyncInv'
<1>1. c \in Calls /\ BaseInv /\ \A i \in DOMAIN rows : i \in Ids \cup {0}
  BY Found, BaseTypes DEF BaseInv
<1>2. ASSUME NEW t \in Texts, AddCall(c, k, t) PROVE SyncInv'
  <2>1. BaseInv' /\ pc[c] = "idle" /\ UNCHANGED <<rows, cache>>
    BY <1>1, <1>2, AddCallBase DEF AddCall
  <2>2. \/ Begin(c, "lookup", Locals("add", k, 0, t))
        \/ UNCHANGED <<pc, local>>
    BY <1>2 DEF AddCall, Refuse
  <2> QED
    BY <2>1, <2>2, RefusedSynced, BeginSynced DEF AllOps
<1>3. ASSUME NEW i \in DOMAIN rows, NEW t \in Texts, UpdateCall(c, k, i, t) PROVE SyncInv'
  <2>1. BaseInv' /\ pc[c] = "idle" /\ UNCHANGED <<rows, cache>>
    BY <1>1, <1>3, UpdateCallBase DEF UpdateCall
  <2>2. \/ Begin(c, "write", Locals("update", k, i, t)) /\ IndexOf(k, i) # 0
        \/ UNCHANGED <<pc, local>>
    BY <1>3 DEF UpdateCall, Refuse
  <2> QED
    BY <1>1, <2>1, <2>2, RefusedSynced, BeginSynced DEF AllOps
<1>4. ASSUME NEW i \in DOMAIN rows, RemoveCall(c, k, i) PROVE SyncInv'
  <2>1. BaseInv' /\ pc[c] = "idle" /\ UNCHANGED <<rows, cache>>
    BY <1>1, <1>4, RemoveCallBase DEF RemoveCall
  <2>2. \/ Begin(c, "write", Locals("remove", k, i, rows[i].text)) /\ IndexOf(k, i) # 0
        \/ UNCHANGED <<pc, local>>
    BY <1>4 DEF RemoveCall, Refuse
  <2> QED
    BY <1>1, <2>1, <2>2, RefusedSynced, BeginSynced DEF AllOps
<1>5. ASSUME NEW i \in DOMAIN rows, RestoreCall(c, k, i) PROVE SyncInv'
  <2>1. BaseInv' /\ pc[c] = "idle" /\ UNCHANGED <<rows, cache>>
    BY <1>1, <1>5, RestoreCallBase DEF RestoreCall
  <2>2. \/ Begin(c, "lookup", Locals("restore", k, i, rows[i].text))
        \/ UNCHANGED <<pc, local>>
    BY <1>5 DEF RestoreCall, Refuse
  <2> QED
    BY <1>1, <2>1, <2>2, RefusedSynced, BeginSynced DEF AllOps
<1> QED
  BY <1>2, <1>3, <1>4, <1>5

LEMMA LookupsSync ==
    ASSUME SyncInv, NEW c, Alone(c), AddLookup(c) \/ RestoreLookup(c) \/ TransactionFails(c)
    PROVE  SyncInv'
<1> PICK l : l = local[c]
  OBVIOUS
<1>1. c \in Calls /\ BaseInv
  BY Found
<1>2. CASE AddLookup(c)
  <2>1. BaseInv' /\ pc[c] = "lookup" /\ UNCHANGED <<rows, cache>> /\ Continue(c, "write")
    BY <1>1, <1>2, AddLookupBase, AddLookupFinds
  <2>2. PICK m \in Local :
            /\ local' = [local EXCEPT ![c] = m] /\ m.op = "add"
            /\ \/ m.id = l.id
               \/ rows[m.id].removed /\ m.text = rows[m.id].text
    BY <1>1, <1>2, AddLookupFinds
  <2>3. l.id = 0
    BY <1>1, <1>2, <2>1, CallTypes, AddLookupFinds DEF Sound
  <2>4. Ready("write", m)
    BY <2>2, <2>3 DEF Ready
  <2> QED
    BY <2>1, <2>2, <2>4, StillSynced DEF Continue
<1>3. CASE RestoreLookup(c)
  <2>1. BaseInv' /\ pc[c] = "lookup" /\ l.op = "restore" /\ UNCHANGED <<rows, cache>>
    BY <1>1, <1>3, RestoreLookupBase, RestoreLookupFinds
  <2>2. CASE Return(c, "notFound")
    BY <2>1, <2>2, ReturnSynced
  <2>3. CASE ~Return(c, "notFound")
    <3>1. Continue(c, "write") /\ rows[l.id].removed
      BY <1>1, <1>3, <2>3, RestoreLookupFinds
    <3>2. PICK m \in Local :
              /\ local' = [local EXCEPT ![c] = m]
              /\ m.op = "restore" /\ m.key = l.key /\ m.id = l.id /\ m.entry = l.entry
              /\ m.text = rows[l.id].text
      BY <1>1, <1>3, <2>3, RestoreLookupFinds
    <3>3. Ready("lookup", l)
      BY <2>1, Found
    <3>4. Ready("write", m)
      BY <2>1, <3>1, <3>2, <3>3 DEF Ready
    <3> QED
      BY <2>1, <3>1, <3>2, <3>4, StillSynced DEF Continue
  <2> QED
    BY <2>2, <2>3
<1>4. CASE TransactionFails(c)
  <2>1. BaseInv' /\ pc[c] # "apply" /\ UNCHANGED <<rows, cache>> /\ \E result : Return(c, result)
    BY <1>1, <1>4, TransactionFailsBase DEF TransactionFails
  <2> QED
    BY <2>1, ReturnSynced
<1> QED
  BY <1>2, <1>3, <1>4

\* A row that was removed, or not there, is now active under key k.
Activated(i, k) ==
    /\ DOMAIN rows' = DOMAIN rows \cup {i} /\ (i \in DOMAIN rows => rows[i].removed)
    /\ \A j \in DOMAIN rows : j # i => rows'[j] = rows[j]
    /\ rows'[i].key = k /\ ~rows'[i].removed

LEMMA TextAdded ==
    ASSUME NEW i, NEW k \in Keys, Activated(i, k)
    PROVE  /\ i \in ActiveIds(k)' /\ Stored(k)' \ {ResponseOf(i)'} = Stored(k)
           /\ \A j \in Keys \ {k} : Stored(j)' = Stored(j)
<1>1. i \in ActiveIds(k)' /\ \A j \in Keys : i \notin ActiveIds(j)
  BY DEF Activated, ActiveIds
<1>2. \A j \in Keys : ActiveIds(j)' \ {i} = ActiveIds(j)
  BY <1>1 DEF Activated, ActiveIds
<1>3. \A j \in Keys \ {k} : i \notin ActiveIds(j)'
  BY DEF Activated, ActiveIds
<1>4. \A j \in Keys : \A n \in ActiveIds(j) : ResponseOf(n)' = ResponseOf(n)
  BY <1>1 DEF Activated, ActiveIds, ResponseOf
<1>5. ASSUME NEW n, ResponseOf(n)' = ResponseOf(i)' PROVE n = i
  BY <1>5 DEF ResponseOf
<1>6. Stored(k)' \ {ResponseOf(i)'} = Stored(k)
  <2>1. \A r \in Stored(k)' \ {ResponseOf(i)'} : r \in Stored(k)
    BY <1>2, <1>4 DEF Stored
  <2>2. \A r \in Stored(k) : r \in Stored(k)' \ {ResponseOf(i)'}
    BY <1>1, <1>2, <1>4, <1>5 DEF Stored
  <2> QED
    BY <2>1, <2>2
<1>7. \A j \in Keys \ {k} : Stored(j)' = Stored(j)
  BY <1>2, <1>3, <1>4 DEF Stored
<1> QED
  BY <1>1, <1>6, <1>7

\* addCommandText and restoreCommandText: the row is active before it is in the cache.
LEMMA AddedSynced ==
    ASSUME SyncInv, BaseInv', NEW c, Alone(c), pc[c] = "write", UNCHANGED cache, NEW l,
           pc' = [pc EXCEPT ![c] = "apply"], local' = [local EXCEPT ![c] = l],
           l.op \in {"add", "restore"}, l.key \in Keys, Activated(l.id, l.key),
           rows'[l.id].text = l.text, l.op = "restore" => (l.entry <=> cache[l.key] # NoEntry)
    PROVE  SyncInv'
<1>1. \A k \in Keys : Served(k)' = Served(k) /\ Served(k) = Stored(k)
  BY Found DEF Served, Calm
<1>2. ResponseOf(l.id)'.text = l.text
  BY DEF ResponseOf
<1>3. Due(l)'
  BY <1>1, <1>2, TextAdded DEF Due
<1>4. \A k \in Keys : cache'[k] # NoEntry => Plain(cache'[k])
  BY DEF SyncInv
<1> QED
  BY <1>3, <1>4, OneSyncs DEF CallSynced


LEMMA AddCommitSync == ASSUME SyncInv, NEW c, Alone(c), AddCommit(c) PROVE SyncInv'
<1> PICK l : l = local[c]
  OBVIOUS
<1>1. c \in Calls /\ BaseInv
  BY Found
<1>2. /\ pc[c] = "write" /\ l.op = "add" /\ l \in Local /\ UNCHANGED cache /\ BaseInv'
      /\ Restores(c, l) \/ Inserts(c, l) \/ Taken(c, l)
  BY <1>1, AddCommitDoes, AddCommitBase
<1>3. l.key \in Keys /\ Ready("write", l)
  BY <1>2, LocalTypes, Found
<1>4. CASE Restores(c, l)
  <2>1. PICK row \in Row : /\ row.key = l.key /\ row.text = rows[l.id].text /\ ~row.removed
                           /\ rows' = [rows EXCEPT ![l.id] = row]
    BY <1>4 DEF Restores
  <2>2. /\ l.id \in DOMAIN rows /\ l.id # 0
        /\ pc' = [pc EXCEPT ![c] = "apply"] /\ local' = [local EXCEPT ![c] = l]
    BY <1>1, <1>4, BaseTypes DEF Restores, Continue, BaseInv
  <2>3. rows[l.id].removed /\ rows[l.id].text = l.text
    BY <1>2, <1>3, <2>2 DEF Ready
  <2>4. Activated(l.id, l.key) /\ rows'[l.id].text = l.text
    BY <2>1, <2>2, <2>3 DEF Activated
  <2> QED
    BY <1>2, <1>3, <2>2, <2>4, AddedSynced
<1>5. CASE Inserts(c, l)
  <2>1. PICK row \in Row, m \in Local :
            /\ row.key = l.key /\ row.text = l.text /\ ~row.removed
            /\ rows' = Append(rows, row)
            /\ m.op = "add" /\ m.key = l.key /\ m.text = l.text
            /\ m.id = Len(rows) + 1 /\ local' = [local EXCEPT ![c] = m]
    BY <1>5 DEF Inserts
  <2>2. rows \in Seq(Row) /\ Len(rows) \in Nat /\ DOMAIN rows = 1..Len(rows)
    BY <1>1, BaseTypes DEF BaseInv
  <2>3. /\ DOMAIN rows' = 1..(Len(rows) + 1)
        /\ \A i \in DOMAIN rows : rows'[i] = rows[i]
        /\ rows'[Len(rows) + 1] = row
    BY <2>1, <2>2
  <2>4. DOMAIN rows' = DOMAIN rows \cup {m.id} /\ m.id \notin DOMAIN rows
    BY <2>1, <2>2, <2>3
  <2>5. Activated(m.id, m.key) /\ rows'[m.id].text = m.text
    BY <2>1, <2>3, <2>4 DEF Activated
  <2>6. pc' = [pc EXCEPT ![c] = "apply"]
    BY <1>5 DEF Inserts, Continue
  <2> QED
    BY <1>2, <1>3, <2>1, <2>5, <2>6, AddedSynced
<1>6. CASE Taken(c, l)
  BY <1>2, <1>6, ReturnSynced DEF Taken
<1> QED
  BY <1>2, <1>4, <1>5, <1>6

LEMMA RestoreCommitSync == ASSUME SyncInv, NEW c, Alone(c), RestoreCommit(c) PROVE SyncInv'
<1> PICK l : l = local[c]
  OBVIOUS
<1>1. c \in Calls /\ BaseInv
  BY Found
<1>2. /\ pc[c] = "write" /\ l.op = "restore" /\ UNCHANGED cache /\ BaseInv'
      /\ l \in Local /\ l.id \in DOMAIN rows
      /\ pc' = [pc EXCEPT ![c] = "apply"] /\ local' = [local EXCEPT ![c] = l]
  BY <1>1, RestoreCommitDoes, RestoreCommitBase DEF Continue
<1>3. PICK row \in Row : /\ row.key = l.key /\ row.text = rows[l.id].text /\ ~row.removed
                         /\ rows' = [rows EXCEPT ![l.id] = row]
  BY <1>1, RestoreCommitDoes
<1>4. l.key \in Keys /\ l.id # 0 /\ Ready("write", l)
  BY <1>1, <1>2, LocalTypes, BaseTypes, Found DEF BaseInv
<1>5. /\ rows[l.id].removed /\ rows[l.id].text = l.text
      /\ l.entry <=> cache[l.key] # NoEntry
  BY <1>2, <1>4 DEF Ready
<1>6. Activated(l.id, l.key) /\ rows'[l.id].text = l.text
  BY <1>2, <1>3, <1>5 DEF Activated
<1> QED
  BY <1>2, <1>4, <1>5, <1>6, AddedSynced

\* The cached text at the place a call has found is the row's.
LEMMA PlacedIs ==
    ASSUME SyncInv, Calm, NEW l, l.key \in Keys, Placed(l), l.id \in ActiveIds(l.key)
    PROVE  /\ cache[l.key][l.index] = ResponseOf(l.id)
           /\ Served(l.key) = Stored(l.key) /\ ResponseOf(l.id) \in Stored(l.key)
<1>1. cache[l.key][l.index] \in Served(l.key)
  BY DEF Placed, Served
<1>2. Served(l.key) = Stored(l.key)
  BY DEF Calm
<1>3. PICK i \in ActiveIds(l.key) : cache[l.key][l.index] = ResponseOf(i)
  BY <1>1, <1>2 DEF Stored
<1>4. i = l.id
  BY <1>3 DEF Placed, ResponseOf
<1> QED
  BY <1>2, <1>3, <1>4 DEF Stored

LEMMA UpdateCommitSync == ASSUME SyncInv, NEW c, Alone(c), UpdateCommit(c) PROVE SyncInv'
<1> PICK l : l = local[c]
  OBVIOUS
<1>1. c \in Calls /\ BaseInv
  BY Found
<1>2. pc[c] = "write" /\ l.op = "update" /\ UNCHANGED cache /\ BaseInv'
  BY <1>1, UpdateCommitBase DEF UpdateCommit
<1>3. l.key \in Keys /\ Placed(l) /\ Calm /\ local \in [Calls -> Local \cup {Idle}]
  BY <1>1, <1>2, CallTypes, Found DEF Ready, BaseInv, TypeOK
<1>4. CASE \E result : Return(c, result) /\ UNCHANGED rows
  BY <1>2, <1>4, ReturnSynced
<1>5. CASE ~\E result : Return(c, result) /\ UNCHANGED rows
  <2>1. /\ l.id \in ActiveIds(l.key) /\ rows' = [rows EXCEPT ![l.id].text = l.text]
        /\ pc' = [pc EXCEPT ![c] = "apply"] /\ local' = [local EXCEPT ![c] = l]
    BY <1>3, <1>5 DEF UpdateCommit, Continue
  <2>2. PICK i : i = l.id
    OBVIOUS
  <2>3. /\ i \in DOMAIN rows /\ DOMAIN rows' = DOMAIN rows
        /\ \A j \in DOMAIN rows : j # i => rows'[j] = rows[j]
        /\ rows[i] \in Row /\ rows'[i] = [rows[i] EXCEPT !.text = l.text]
    BY <1>1, <1>3, <2>1, <2>2, ActiveRow
  <2>4. rows'[i].key = rows[i].key /\ rows'[i].removed = rows[i].removed /\ rows'[i].text = l.text
    BY <2>3 DEF Row
  <2>5. \A k \in Keys : ActiveIds(k)' = ActiveIds(k)
    BY <2>3, <2>4 DEF ActiveIds
  <2>6. \A k \in Keys : \A j \in ActiveIds(k) : j # i => ResponseOf(j)' = ResponseOf(j)
    BY <2>3 DEF ActiveIds, ResponseOf
  <2>7. \A j : ResponseOf(j).id = j /\ ResponseOf(j)'.id = j
    BY DEF ResponseOf
  <2>8. \A k \in Keys \ {l.key} : Stored(k)' = Stored(k)
    <3>1. \A k \in Keys \ {l.key} : i \notin ActiveIds(k)
      BY <2>1, <2>2 DEF ActiveIds
    <3> QED
      BY <2>5, <2>6, <3>1 DEF Stored
  <2>9. Stored(l.key)' \ {ResponseOf(i)'} = Stored(l.key) \ {ResponseOf(i)}
    <3>1. \A r \in Stored(l.key)' \ {ResponseOf(i)'} : r \in Stored(l.key) \ {ResponseOf(i)}
      BY <1>3, <2>5, <2>6, <2>7 DEF Stored
    <3>2. \A r \in Stored(l.key) \ {ResponseOf(i)} : r \in Stored(l.key)' \ {ResponseOf(i)'}
      BY <1>3, <2>5, <2>6, <2>7 DEF Stored
    <3> QED
      BY <3>1, <3>2
  <2>10. /\ cache[l.key][l.index] = ResponseOf(i)
         /\ Served(l.key) = Stored(l.key) /\ ResponseOf(i) \in Stored(l.key)
    BY <1>3, <2>1, <2>2, PlacedIs
  <2>11. Served(l.key) = (Stored(l.key)' \ {ResponseOf(i)'}) \cup {cache[l.key][l.index]}
    BY <2>9, <2>10
  <2>12. \A k \in Keys : Served(k)' = Served(k) /\ Served(k) = Stored(k)
    BY <1>2, <1>3 DEF Served, Calm
  <2>13. Placed(l)' /\ ResponseOf(l.id)'.text = l.text /\ l.id \in ActiveIds(l.key)'
    BY <1>2, <1>3, <2>1, <2>2, <2>4, <2>5 DEF Placed, ResponseOf
  <2>14. Due(l)'
    BY <1>2, <1>3, <2>2, <2>8, <2>11, <2>12, <2>13 DEF Due
  <2>15. \A k \in Keys : cache'[k] # NoEntry => Plain(cache'[k])
    BY <1>2 DEF SyncInv
  <2> QED
    BY <1>2, <2>1, <2>14, <2>15, OneSyncs DEF CallSynced
<1> QED
  BY <1>4, <1>5

LEMMA RemoveCommitSync == ASSUME SyncInv, NEW c, Alone(c), RemoveCommit(c) PROVE SyncInv'
<1> PICK l : l = local[c]
  OBVIOUS
<1>1. c \in Calls /\ BaseInv
  BY Found
<1>2. pc[c] = "write" /\ l.op = "remove" /\ UNCHANGED cache /\ BaseInv'
  BY <1>1, RemoveCommitBase DEF RemoveCommit
<1>3. l.key \in Keys /\ Placed(l) /\ Calm /\ local \in [Calls -> Local \cup {Idle}]
  BY <1>1, <1>2, CallTypes, Found DEF Ready, BaseInv, TypeOK
<1>4. CASE l.id \notin ActiveIds(l.key)
  BY <1>2, <1>4, ReturnSynced DEF RemoveCommit
<1>5. CASE l.id \in ActiveIds(l.key)
  <2>1. /\ rows' = [rows EXCEPT ![l.id].removed = TRUE]
        /\ pc' = [pc EXCEPT ![c] = "apply"] /\ local' = [local EXCEPT ![c] = l]
    BY <1>3, <1>5 DEF RemoveCommit, Continue
  <2>2. PICK i : i = l.id
    OBVIOUS
  <2>3. /\ i \in DOMAIN rows /\ DOMAIN rows' = DOMAIN rows
        /\ \A j \in DOMAIN rows : j # i => rows'[j] = rows[j]
        /\ rows[i] \in Row /\ rows'[i] = [rows[i] EXCEPT !.removed = TRUE]
    BY <1>1, <1>3, <1>5, <2>1, <2>2, ActiveRow
  <2>4. rows'[i].removed
    BY <2>3 DEF Row
  <2>5. \A k \in Keys : ActiveIds(k)' = ActiveIds(k) \ {i}
    BY <2>3, <2>4 DEF ActiveIds
  <2>6. \A k \in Keys : \A j \in ActiveIds(k) : j # i => ResponseOf(j)' = ResponseOf(j)
    BY <2>3 DEF ActiveIds, ResponseOf
  <2>7. \A k \in Keys \ {l.key} : Stored(k)' = Stored(k)
    <3>1. \A k \in Keys \ {l.key} : i \notin ActiveIds(k)
      BY <1>5, <2>2 DEF ActiveIds
    <3> QED
      BY <2>5, <2>6, <3>1 DEF Stored
  <2>8. Stored(l.key) = Stored(l.key)' \cup {ResponseOf(i)}
    <3>1. \A r \in Stored(l.key)' : r \in Stored(l.key)
      BY <1>3, <2>5, <2>6 DEF Stored
    <3>2. \A r \in Stored(l.key) : r \in Stored(l.key)' \/ r = ResponseOf(i)
      BY <1>3, <2>5, <2>6 DEF Stored
    <3>3. ResponseOf(i) \in Stored(l.key)
      BY <1>5, <2>2 DEF Stored
    <3> QED
      BY <3>1, <3>2, <3>3
  <2>9. cache[l.key][l.index] = ResponseOf(i)
    BY <1>3, <1>5, <2>2, PlacedIs
  <2>10. \A k \in Keys : Served(k)' = Served(k) /\ Served(k) = Stored(k)
    BY <1>2, <1>3 DEF Served, Calm
  <2>11. Placed(l)' /\ l.id \notin ActiveIds(l.key)'
    BY <1>2, <1>3, <2>2, <2>5 DEF Placed
  <2>12. cache'[l.key][l.index] = ResponseOf(i)
    BY <1>2, <2>9
  <2>13. Due(l)'
    BY <1>2, <1>3, <2>7, <2>8, <2>10, <2>11, <2>12 DEF Due
  <2>14. \A k \in Keys : cache'[k] # NoEntry => Plain(cache'[k])
    BY <1>2 DEF SyncInv
  <2> QED
    BY <1>2, <2>1, <2>13, <2>14, OneSyncs DEF CallSynced
<1> QED
  BY <1>4, <1>5


\* The call puts in the cache what it owed.
LEMMA AppliedSynced ==
    ASSUME SyncInv, BaseInv', NEW c, Alone(c), UNCHANGED rows, NEW k \in Keys, NEW s,
           cache' = [cache EXCEPT ![k] = s], Plain(s), Elements(s) = Stored(k),
           \A j \in Keys \ {k} : Served(j) = Stored(j), NEW result, Return(c, result)
    PROVE  SyncInv'
<1>1. pc' = [pc EXCEPT ![c] = "idle"] /\ local' = [local EXCEPT ![c] = Idle]
  BY DEF Return
<1>2. \A j \in Keys : cache'[j] = IF j = k THEN s ELSE cache[j]
  BY Found DEF BaseInv, TypeOK
<1>3. s # NoEntry
  <2>1. s \in Seq(Response)
    BY DEF Plain
  <2>2. Len(s) \in Nat /\ DOMAIN s = 1..Len(s) /\ \A n \in 1..Len(s) : s[n] \in Response
    BY <2>1
  <2>3. s \in Seq(Response \cup {Hole})
    BY <2>1, <2>2
  <2> QED
    BY <2>3, SlotsAssumption
<1>4. cache'[k] = s
  BY <1>2
<1>5. Served(k)' = Elements(s)
  BY <1>3, <1>4 DEF Served, Elements
<1>6. \A j \in Keys \ {k} : Served(j)' = Served(j)
  BY <1>2 DEF Served
<1>7. \A j \in Keys : Stored(j)' = Stored(j)
  BY DEF Stored, ActiveIds, ResponseOf
<1>8. Calm'
  BY <1>5, <1>6, <1>7 DEF Calm
<1>9. \A j \in Keys : cache'[j] # NoEntry => Plain(cache'[j])
  BY <1>2 DEF SyncInv
<1> QED
  BY <1>1, <1>8, <1>9, OneSyncs DEF CallSynced

LEMMA AddApplySync ==
    ASSUME SyncInv, NEW c, Alone(c), AddApply(c) \/ RestoreApply(c)
    PROVE  SyncInv'
<1> PICK l : l = local[c]
  OBVIOUS
<1> DEFINE x == [id |-> l.id, text |-> l.text]
<1>1. c \in Calls /\ BaseInv
  BY Found
<1>2. /\ pc[c] = "apply" /\ l.op \in {"add", "restore"} /\ UNCHANGED rows
      /\ \E result : Return(c, result)
  BY DEF AddApply, RestoreApply
<1>3. BaseInv'
  BY <1>1, AddApplyBase, RestoreApplyBase
<1>4. l.key \in Keys /\ x \in Response /\ Due(l)
  BY <1>1, <1>2, CallTypes, ResponseTyped, Found
<1>5. /\ l.id \in ActiveIds(l.key) /\ ResponseOf(l.id).text = l.text
      /\ Served(l.key) = Stored(l.key) \ {ResponseOf(l.id)}
      /\ \A k \in Keys \ {l.key} : Served(k) = Stored(k)
  BY <1>2, <1>4 DEF Due
<1>6. x = ResponseOf(l.id) /\ x \in Stored(l.key)
  BY <1>5 DEF ResponseOf, Stored
<1>7. cache' = [cache EXCEPT ![l.key] = IF cache[l.key] = NoEntry THEN <<x>> ELSE Append(cache[l.key], x)]
  <2>1. CASE AddApply(c)
    BY <2>1 DEF AddApply
  <2>2. CASE RestoreApply(c)
    <3>1. l.entry <=> cache[l.key] # NoEntry
      BY <1>4, <2>2 DEF RestoreApply, Due
    <3> QED
      BY <2>2, <3>1 DEF RestoreApply
  <2> QED
    BY <2>1, <2>2
<1> HIDE DEF x
<1>8. CASE cache[l.key] = NoEntry
  <2>1. Served(l.key) = {}
    BY <1>8 DEF Served
  <2>2. Plain(<<x>>) /\ Elements(<<x>>) = Stored(l.key)
    BY <1>4, <1>5, <1>6, <2>1, PlainOne
  <2>3. cache' = [cache EXCEPT ![l.key] = <<x>>]
    BY <1>7, <1>8
  <2> QED
    BY <1>2, <1>3, <1>4, <1>5, <2>2, <2>3, AppliedSynced
<1>9. CASE cache[l.key] # NoEntry
  <2> PICK s : s = cache[l.key]
    OBVIOUS
  <2>1. Plain(s) /\ Elements(s) = Served(l.key)
    BY <1>4, <1>9 DEF SyncInv, Served, Elements
  <2>2. x \notin Elements(s)
    BY <1>5, <1>6, <2>1
  <2>3. Plain(Append(s, x)) /\ Elements(Append(s, x)) = Stored(l.key)
    BY <1>4, <1>5, <1>6, <2>1, <2>2, PlainAppend
  <2>4. cache' = [cache EXCEPT ![l.key] = Append(s, x)]
    BY <1>7, <1>9
  <2> QED
    BY <1>2, <1>3, <1>4, <1>5, <2>3, <2>4, AppliedSynced
<1> QED
  BY <1>8, <1>9

LEMMA UpdateApplySync == ASSUME SyncInv, NEW c, Alone(c), UpdateApply(c) PROVE SyncInv'
<1> PICK l : l = local[c]
  OBVIOUS
<1> DEFINE x == [id |-> l.id, text |-> l.text]
<1>1. c \in Calls /\ BaseInv
  BY Found
<1>2. /\ pc[c] = "apply" /\ l.op = "update" /\ UNCHANGED rows /\ Return(c, "updated")
      /\ cache' = [cache EXCEPT ![l.key] = Assign(cache[l.key], l.index, x)]
  BY DEF UpdateApply
<1>3. BaseInv'
  BY <1>1, UpdateApplyBase
<1>4. l.key \in Keys /\ x \in Response /\ Due(l)
  BY <1>1, <1>2, CallTypes, ResponseTyped, Found
<1> PICK s, n : s = cache[l.key] /\ n = l.index
  OBVIOUS
<1>5. /\ l.id \in ActiveIds(l.key) /\ ResponseOf(l.id).text = l.text /\ Placed(l)
      /\ Served(l.key) = (Stored(l.key) \ {ResponseOf(l.id)}) \cup {s[n]}
      /\ \A k \in Keys \ {l.key} : Served(k) = Stored(k)
  BY <1>2, <1>4 DEF Due
<1>6. x = ResponseOf(l.id) /\ x \in Stored(l.key)
  BY <1>5 DEF ResponseOf, Stored
<1> HIDE DEF x
<1>7. n \in DOMAIN s /\ s[n].id = l.id /\ cache[l.key] # NoEntry
  BY <1>5 DEF Placed
<1>8. Plain(s) /\ Elements(s) = Served(l.key)
  BY <1>4, <1>7 DEF SyncInv, Served, Elements
<1>9. s[n] \notin Stored(l.key) \ {x}
  <2> SUFFICES ASSUME NEW i \in ActiveIds(l.key), s[n] = ResponseOf(i) PROVE s[n] = x
    BY DEF Stored
  <2>1. i = l.id
    BY <1>7 DEF ResponseOf
  <2> QED
    BY <1>6, <2>1
<1>10. /\ x \notin Elements(s) \ {s[n]}
       /\ (Elements(s) \ {s[n]}) \cup {x} = Stored(l.key)
  BY <1>5, <1>6, <1>8, <1>9
<1>11. Plain(Assign(s, n, x)) /\ Elements(Assign(s, n, x)) = Stored(l.key)
  <2>1. x \in Response /\ n \in DOMAIN s /\ Plain(s) /\ x \notin Elements(s) \ {s[n]}
    BY <1>4, <1>7, <1>8, <1>10
  <2>2. Plain(Assign(s, n, x)) /\ Elements(Assign(s, n, x)) = (Elements(s) \ {s[n]}) \cup {x}
    BY <2>1, PlainAssign
  <2> QED
    BY <1>10, <2>2
<1>12. cache' = [cache EXCEPT ![l.key] = Assign(s, n, x)]
  BY <1>2
<1> QED
  BY <1>2, <1>3, <1>4, <1>5, <1>11, <1>12, AppliedSynced

LEMMA RemoveApplySync == ASSUME SyncInv, NEW c, Alone(c), RemoveApply(c) PROVE SyncInv'
<1> PICK l : l = local[c]
  OBVIOUS
<1>1. c \in Calls /\ BaseInv
  BY Found
<1>2. /\ pc[c] = "apply" /\ l.op = "remove" /\ UNCHANGED rows /\ Return(c, "removed")
      /\ cache' = [cache EXCEPT ![l.key] = Splice(cache[l.key], l.index)]
  BY DEF RemoveApply
<1>3. BaseInv'
  BY <1>1, RemoveApplyBase
<1>4. l.key \in Keys /\ Due(l)
  BY <1>1, <1>2, CallTypes, Found
<1> PICK s, n : s = cache[l.key] /\ n = l.index
  OBVIOUS
<1>5. /\ l.id \notin ActiveIds(l.key) /\ Placed(l)
      /\ Served(l.key) = Stored(l.key) \cup {s[n]}
      /\ \A k \in Keys \ {l.key} : Served(k) = Stored(k)
  BY <1>2, <1>4 DEF Due
<1>6. n \in DOMAIN s /\ s[n].id = l.id /\ cache[l.key] # NoEntry
  BY <1>5 DEF Placed
<1>7. Plain(s) /\ Elements(s) = Served(l.key)
  BY <1>4, <1>6 DEF SyncInv, Served, Elements
<1>8. s[n] \notin Stored(l.key)
  <2> SUFFICES ASSUME NEW i \in ActiveIds(l.key), s[n] = ResponseOf(i) PROVE FALSE
    BY DEF Stored
  <2>1. i = l.id
    BY <1>6 DEF ResponseOf
  <2> QED
    BY <1>5, <2>1
<1>9. Elements(s) \ {s[n]} = Stored(l.key)
  BY <1>5, <1>7, <1>8
<1>10. Plain(Splice(s, n)) /\ Elements(Splice(s, n)) = Stored(l.key)
  BY <1>6, <1>7, <1>9, PlainSplice
<1>11. cache' = [cache EXCEPT ![l.key] = Splice(s, n)]
  BY <1>2
<1> QED
  BY <1>2, <1>3, <1>4, <1>5, <1>10, <1>11, AppliedSynced

LEMMA StillsSync ==
    ASSUME SyncInv, [Next]_vars, UNCHANGED <<rows, cache, pc, local>>
    PROVE  SyncInv'
<1>1. BaseInv'
  BY BaseStep DEF SyncInv
<1>2. \A p, l : CallSynced(p, l) => CallSynced(p, l)'
  BY SameTexts DEF CallSynced, Due, Placed
<1>3. Calm => Calm'
  BY SameTexts
<1> QED
  BY <1>1, <1>2, <1>3 DEF SyncInv

\* At most one call is in flight.  Nothing in the code sees to that.
OneAtATime == \A c, d \in Calls : pc[c] # "idle" /\ pc[d] # "idle" => c = d

\* A call is refused before it awaits anything, or is in flight after the step.
LEMMA CallBegins ==
    ASSUME NEW c \in Calls, BaseInv, OneAtATime', NEW k \in Keys,
           \/ \E t \in Texts : AddCall(c, k, t)
           \/ \E i \in DOMAIN rows :
                  (\E t \in Texts : UpdateCall(c, k, i, t)) \/ RemoveCall(c, k, i) \/ RestoreCall(c, k, i)
    PROVE  Alone(c) \/ UNCHANGED <<rows, cache, pc, local>>
<1>1. /\ UNCHANGED <<rows, cache>>
      /\ \/ UNCHANGED <<pc, local>>
         \/ \E p \in {"lookup", "write"} : pc' = [pc EXCEPT ![c] = p]
  BY DEF AddCall, UpdateCall, RemoveCall, RestoreCall, Begin, Refuse
<1>2. ASSUME NEW p \in {"lookup", "write"}, pc' = [pc EXCEPT ![c] = p] PROVE Alone(c)
  <2>1. pc'[c] # "idle" /\ \A d \in Calls \ {c} : pc'[d] = pc[d]
    BY <1>2 DEF BaseInv, TypeOK
  <2> QED
    BY <2>1 DEF Alone, OneAtATime
<1> QED
  BY <1>1, <1>2

LEMMA SyncStep == SyncInv /\ OneAtATime /\ OneAtATime' /\ [Next]_vars => SyncInv'
<1> SUFFICES ASSUME SyncInv, OneAtATime, OneAtATime', [Next]_vars PROVE SyncInv'
  OBVIOUS
<1>1. CASE \E c \in Calls, k \in Keys, t \in Texts : AddCall(c, k, t)
  BY <1>1, CallsSync, CallBegins, StillsSync DEF SyncInv
<1>2. CASE \E c \in Calls, k \in Keys, i \in DOMAIN rows :
               \/ \E t \in Texts : UpdateCall(c, k, i, t)
               \/ RemoveCall(c, k, i)
               \/ RestoreCall(c, k, i)
  BY <1>2, CallsSync, CallBegins, StillsSync DEF SyncInv
<1>3. ASSUME NEW c \in Calls, CallStep(c) PROVE SyncInv'
  <2>1. pc[c] # "idle"
    BY <1>3
    DEF CallStep, AddLookup, RestoreLookup, TransactionFails, AddCommit, AddApply, UpdateCommit,
        UpdateApply, RemoveCommit, RemoveApply, RestoreCommit, RestoreApply
  <2>2. Alone(c)
    BY <2>1 DEF Alone, OneAtATime
  <2> QED
    BY <1>3, <2>2, LookupsSync, AddCommitSync, AddApplySync, UpdateCommitSync, UpdateApplySync,
       RemoveCommitSync, RemoveApplySync, RestoreCommitSync DEF CallStep
<1>4. CASE Restart
  BY <1>4, SyncRestart
<1>5. CASE UNCHANGED vars
  BY <1>5, StillsSync DEF vars
<1> QED
  BY <1>1, <1>2, <1>3, <1>4, <1>5 DEF Next

\* From any number of callers, in any order and wherever a call fails or the process
\* stops, as long as no two calls are in flight together: whenever none is, the texts
\* the bot picks from are those stored, each once.  (CacheInSync is violated by two
\* overlapping calls, which nothing in the code prevents.)
THEOREM SerialInSync == Spec /\ []OneAtATime => []CacheInSync
<1>1. SyncInv /\ OneAtATime /\ OneAtATime' /\ [Next]_vars => SyncInv'
  BY SyncStep
<1>2. SyncInv => CacheInSync
  <2> SUFFICES ASSUME SyncInv, Quiet, NEW k \in Keys
               PROVE  /\ Served(k) = Stored(k)
                      /\ \A i \in ActiveIds(k) : Cardinality(Places(k, i)) = 1
    BY DEF CacheInSync
  <2>1. Served(k) = Stored(k)
    BY DEF Quiet, SyncInv, Calm
  <2>2. ASSUME NEW i \in ActiveIds(k) PROVE Cardinality(Places(k, i)) = 1
    <3>1. ResponseOf(i) \in Served(k)
      BY <2>1 DEF Stored
    <3>2. PICK n \in DOMAIN cache[k] : cache[k][n] = ResponseOf(i) /\ cache[k] # NoEntry
      BY <3>1 DEF Served
    <3>3. ASSUME NEW m \in DOMAIN cache[k], cache[k][m].id = i PROVE m = n
      <4>1. PICK j \in ActiveIds(k) : cache[k][m] = ResponseOf(j)
        BY <2>1, <3>2 DEF Served, Stored
      <4>2. j = i
        BY <3>3, <4>1 DEF ResponseOf
      <4> QED
        BY <3>2, <4>1, <4>2 DEF SyncInv, Plain
    <3>4. cache[k][n] # Hole /\ cache[k][n].id = i
      <4>1. ResponseOf(i) \in Response
        BY BaseTypes DEF SyncInv, BaseInv, ActiveIds
      <4> QED
        BY <3>2, <4>1, SlotsAssumption DEF ResponseOf
    <3>5. Places(k, i) = {n}
      BY <3>2, <3>3, <3>4 DEF Places
    <3> QED
      BY <3>5, FS_Singleton
  <2> QED
    BY <2>1, <2>2
<1> QED
  BY SyncInit, <1>1, <1>2, PTL DEF Spec
=============================================================================
