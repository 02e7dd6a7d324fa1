---------------------- MODULE CommandRepositoryStoreProofs ----------------------
(***************************************************************************)
(* CommandRepository implements ResponseStore, for every set of names,     *)
(* variants and texts and any number of rows and removals.                 *)
(*                                                                         *)
(* Besides the invariant of CommandRepositoryProofs the steps rest on the  *)
(* two unique indexes: a name and variant is one row, and the texts of a   *)
(* row differ.                                                             *)
(***************************************************************************)
EXTENDS CommandRepositoryStore, CommandRepositoryProofs

KeysUnique == \A e, f \in DOMAIN entries : Key(e) = Key(f) => e = f

TextsUnique ==
    \A t, u \in DOMAIN texts :
        texts[t].entry = texts[u].entry /\ Fold[texts[t].text] = Fold[texts[u].text] => t = u

StoreInv == IInv /\ KeysUnique /\ TextsUnique

-----------------------------------------------------------------------------
(* The unique indexes.                                                     *)

\* Most operations leave names, variants and the wording of texts alone.
LEMMA SameNames ==
    ASSUME StoreInv, IInv', DOMAIN entries' = DOMAIN entries, DOMAIN texts' = DOMAIN texts,
           \A e \in DOMAIN entries : Key(e)' = Key(e),
           \A t \in DOMAIN texts : texts'[t].entry = texts[t].entry /\ texts'[t].text = texts[t].text
    PROVE  StoreInv'
<1>1. KeysUnique'
  BY DEF StoreInv, KeysUnique
<1>2. TextsUnique'
  BY DEF StoreInv, TextsUnique
<1> QED
  BY <1>1, <1>2 DEF StoreInv

-----------------------------------------------------------------------------
(* The shelf and the bin, row by row.                                      *)

LEMMA SameFunction ==
    ASSUME NEW f, NEW g, f = [x \in DOMAIN f |-> f[x]], g = [x \in DOMAIN g |-> g[x]],
           DOMAIN f = DOMAIN g, \A x \in DOMAIN f : f[x] = g[x]
    PROVE  f = g
OBVIOUS

LEMMA ShelfIs ==
    ASSUME KeysUnique
    PROVE  /\ DOMAIN Shelf = {Key(e) : e \in Shelved} /\ Shelf = [k \in DOMAIN Shelf |-> Shelf[k]]
           /\ \A e \in Shelved : Key(e) \in DOMAIN Shelf /\ Shelf[Key(e)] = Usable(e)
<1>1. \A e \in DOMAIN entries : RowOf(Key(e)) = e
  BY DEF RowOf, KeysUnique
<1>2. Shelved \subseteq DOMAIN entries
  BY DEF Shelved
<1> QED
  BY <1>1, <1>2 DEF Shelf

LEMMA ShelfBecomes ==
    ASSUME KeysUnique'
    PROVE  /\ DOMAIN Shelf' = {Key(e)' : e \in Shelved'} /\ Shelf' = [k \in DOMAIN Shelf' |-> Shelf'[k]]
           /\ \A e \in Shelved' : Key(e)' \in DOMAIN Shelf' /\ Shelf'[Key(e)'] = Usable(e)'
<1>1. ASSUME NEW e \in DOMAIN entries', NEW k, k = Key(e)' PROVE RowOf(k)' = e
  BY <1>1 DEF RowOf, KeysUnique
<1>2. Shelved' \subseteq DOMAIN entries'
  BY DEF Shelved
<1>3. Shelf' = [k \in {Key(e)' : e \in Shelved'} |-> Usable(RowOf(k))']
  BY DEF Shelf
<1>4. \A k, e : RowOf(k)' = e => Usable(RowOf(k))' = Usable(e)'
  BY DEF Usable, TextsOf
<1> QED
  BY <1>1, <1>2, <1>3, <1>4

LEMMA BinIs ==
    ASSUME KeysUnique
    PROVE  /\ DOMAIN Bin = {Key(e) : e \in Binned} /\ Bin = [k \in DOMAIN Bin |-> Bin[k]]
           /\ \A e \in Binned : Key(e) \in DOMAIN Bin
                                /\ Bin[Key(e)] = [by |-> entries[e].marker, texts |-> Kept(e)]
<1>1. \A e \in DOMAIN entries : RowOf(Key(e)) = e
  BY DEF RowOf, KeysUnique
<1>2. Binned \subseteq DOMAIN entries
  BY DEF Binned
<1> QED
  BY <1>1, <1>2 DEF Bin

LEMMA BinBecomes ==
    ASSUME KeysUnique'
    PROVE  /\ DOMAIN Bin' = {Key(e)' : e \in Binned'} /\ Bin' = [k \in DOMAIN Bin' |-> Bin'[k]]
           /\ \A e \in Binned' : Key(e)' \in DOMAIN Bin'
                                 /\ Bin'[Key(e)'] = [by |-> entries'[e].marker, texts |-> Kept(e)']
<1>1. ASSUME NEW e \in DOMAIN entries', NEW k, k = Key(e)' PROVE RowOf(k)' = e
  BY <1>1 DEF RowOf, KeysUnique
<1>2. Binned' \subseteq DOMAIN entries'
  BY DEF Binned
<1> DEFINE At(k) == [by |-> entries[RowOf(k)].marker, texts |-> Kept(RowOf(k))]
<1>3. Bin' = [k \in {Key(e)' : e \in Binned'} |-> At(k)']
  BY DEF Bin
<1>4. \A k, e : RowOf(k)' = e => At(k)' = [by |-> entries'[e].marker, texts |-> Kept(e)']
  BY DEF Kept, TextsOf
<1> HIDE DEF At
<1> QED
  BY <1>1, <1>2, <1>3, <1>4

\* Rows and texts that are given one by one.
LEMMA StoreTypes ==
    ASSUME StoreInv
    PROVE  /\ \A e \in DOMAIN entries :
                  /\ entries[e] \in Entry /\ e \in EntryIds
                  /\ entries[e].name \in Names /\ entries[e].variant \in Variants
                  /\ entries[e].removed \in BOOLEAN /\ entries[e].marker \in Nat
                  /\ entries[e].marker <= removals
                  /\ entries[e].removed => entries[e].marker # NoMarker
           /\ \A t \in DOMAIN texts :
                  /\ texts[t] \in Text /\ texts[t].entry \in DOMAIN entries
                  /\ texts[t].text \in Texts /\ texts[t].removed \in BOOLEAN
                  /\ texts[t].marker \in Nat /\ texts[t].marker <= removals
                  /\ ~texts[t].removed => ~entries[texts[t].entry].removed /\ texts[t].marker = NoMarker
           /\ removals \in Nat
<1>1. TypeOK /\ NoOrphans /\ MarkersIssued /\ RemovedWhole
  BY DEF StoreInv, IInv
<1>2. \A e \in DOMAIN entries :
          /\ entries[e] \in Entry /\ e \in EntryIds
          /\ entries[e].name \in Names /\ entries[e].variant \in Variants
          /\ entries[e].removed \in BOOLEAN /\ entries[e].marker \in Nat
  BY <1>1, RowTypes DEF Entry
<1>3. \A t \in DOMAIN texts :
          /\ texts[t] \in Text /\ texts[t].entry \in DOMAIN entries
          /\ texts[t].text \in Texts /\ texts[t].removed \in BOOLEAN /\ texts[t].marker \in Nat
  BY <1>1, RowTypes DEF Text
<1>4. removals \in Nat
  BY <1>1 DEF TypeOK
<1> QED
  BY <1>1, <1>2, <1>3, <1>4 DEF NoOrphans, MarkersIssued, RemovedWhole


-----------------------------------------------------------------------------
(* One row is added, given back, or has its texts changed.                 *)

\* Row e is, after the step, active under key k; no other row is touched.
Touched(e, k) ==
    /\ DOMAIN entries' = DOMAIN entries \cup {e}
    /\ \A f \in DOMAIN entries :
           f # e => /\ entries'[f] = entries[f] /\ Key(f) # k
                    /\ Usable(f)' = Usable(f) /\ Kept(f)' = Kept(f)
    /\ e \in DOMAIN entries => Key(e) = k
    /\ Key(e)' = k /\ ~entries'[e].removed

LEMMA TouchedKeys ==
    ASSUME StoreInv, NEW e, NEW k, Touched(e, k)
    PROVE  KeysUnique' /\ \A f \in DOMAIN entries : f # e => Key(f)' = Key(f)
<1>1. \A f \in DOMAIN entries : f # e => Key(f)' = Key(f)
  BY DEF Touched, Key
<1>2. KeysUnique'
  <2> SUFFICES ASSUME NEW f \in DOMAIN entries', NEW g \in DOMAIN entries', Key(f)' = Key(g)'
               PROVE  f = g
    BY DEF KeysUnique
  <2> QED
    BY <1>1 DEF Touched, StoreInv, KeysUnique
<1> QED
  BY <1>1, <1>2

LEMMA TouchedShelf ==
    ASSUME StoreInv, NEW e, NEW k, Touched(e, k)
    PROVE  Shelf' = Store!With(Shelf, [j \in {k} |-> Usable(e)'])
<1> DEFINE G == [j \in {k} |-> Usable(e)']
           S == Store!With(Shelf, G)
<1>1. KeysUnique /\ KeysUnique' /\ \A f \in DOMAIN entries : f # e => Key(f)' = Key(f)
  BY TouchedKeys DEF StoreInv
<1>2. e \in Shelved' /\ \A f : f # e => (f \in Shelved' <=> f \in Shelved)
  BY DEF Touched, Shelved
<1>3. \A f \in Shelved : f # e => Key(f)' = Key(f) /\ Key(f) # k /\ Usable(f)' = Usable(f)
  BY <1>1 DEF Touched, Shelved
<1>4. e \in Shelved => Key(e) = k
  BY DEF Touched, Shelved
<1>5. DOMAIN Shelf' = DOMAIN Shelf \cup {k}
  BY <1>1, <1>2, <1>3, <1>4, ShelfIs, ShelfBecomes DEF Touched
<1>6. /\ DOMAIN S = DOMAIN Shelf \cup {k} /\ S = [j \in DOMAIN S |-> S[j]]
      /\ \A j \in DOMAIN S : S[j] = IF j = k THEN Usable(e)' ELSE Shelf[j]
  BY DEF Store!With
<1> HIDE DEF S
<1>7. ASSUME NEW j \in DOMAIN Shelf' PROVE Shelf'[j] = S[j]
  <2>1. CASE j = k
    BY <1>1, <1>2, <1>5, <1>6, <2>1, ShelfBecomes DEF Touched
  <2>2. CASE j # k
    <3>1. PICK f \in Shelved : f # e /\ j = Key(f)
      BY <1>1, <1>4, <1>5, <2>2, ShelfIs
    <3>2. Shelf[j] = Usable(f) /\ j \in DOMAIN Shelf
      BY <1>1, <3>1, ShelfIs
    <3>3. Shelf'[j] = Usable(f)'
      BY <1>1, <1>2, <1>3, <3>1, ShelfBecomes
    <3> QED
      BY <1>3, <1>5, <1>6, <2>2, <3>1, <3>2, <3>3
  <2> QED
    BY <2>1, <2>2
<1>8. Shelf' = [j \in DOMAIN Shelf' |-> Shelf'[j]]
  BY <1>1, ShelfBecomes
<1> QED
  BY <1>5, <1>6, <1>7, <1>8, SameFunction DEF S

\* What the bin has elsewhere.
LEMMA TouchedBinElse ==
    ASSUME StoreInv, NEW e, NEW k, Touched(e, k)
    PROVE  /\ KeysUnique /\ KeysUnique'
           /\ \A f : f # e => (f \in Binned' <=> f \in Binned)
           /\ \A f \in Binned : f # e => Key(f)' = Key(f) /\ Key(f) # k
           /\ e \in Binned => Key(e) = k
           /\ \A j : j # k /\ j \in DOMAIN Bin => j \in DOMAIN Bin' /\ Bin'[j] = Bin[j]
           /\ \A j : j # k /\ j \in DOMAIN Bin' => j \in DOMAIN Bin
           /\ Bin' = [j \in DOMAIN Bin' |-> Bin'[j]]
<1>1. KeysUnique /\ KeysUnique' /\ \A f \in DOMAIN entries : f # e => Key(f)' = Key(f)
  BY TouchedKeys DEF StoreInv
<1>2. \A f : f # e => (f \in Binned' <=> f \in Binned)
  BY DEF Touched, Binned
<1>3. \A f \in Binned : f # e => /\ Key(f)' = Key(f) /\ Key(f) # k /\ Kept(f)' = Kept(f)
                                 /\ entries'[f] = entries[f]
  BY <1>1 DEF Touched, Binned
<1>4. e \in Binned => Key(e) = k
  BY DEF Touched, Binned
<1>5. ASSUME NEW j, j # k
      PROVE  /\ j \in DOMAIN Bin' <=> j \in DOMAIN Bin
             /\ j \in DOMAIN Bin => Bin'[j] = Bin[j]
  <2>1. ASSUME NEW f \in Binned, j = Key(f) PROVE j \in DOMAIN Bin' /\ Bin'[j] = Bin[j]
    <3>1. f # e
      BY <1>4, <1>5, <2>1
    <3>2. f \in Binned' /\ j = Key(f)'
      BY <1>2, <1>3, <2>1, <3>1
    <3>3. j \in DOMAIN Bin' /\ Bin'[j] = [by |-> entries'[f].marker, texts |-> Kept(f)']
      BY <1>1, <3>2, BinBecomes
    <3>4. Bin[j] = [by |-> entries[f].marker, texts |-> Kept(f)]
      BY <1>1, <2>1, BinIs
    <3> QED
      BY <1>3, <3>1, <3>3, <3>4
  <2>2. ASSUME NEW f \in Binned', j = Key(f)' PROVE j \in DOMAIN Bin
    <3>1. f # e
      BY <1>5, <2>2 DEF Touched
    <3> QED
      BY <1>1, <1>2, <1>3, <2>2, <3>1, BinIs
  <2> QED
    BY <1>1, <2>1, <2>2, BinIs, BinBecomes
<1>6. Bin' = [j \in DOMAIN Bin' |-> Bin'[j]]
  BY <1>1, BinBecomes
<1> QED
  BY <1>1, <1>2, <1>3, <1>4, <1>5, <1>6

LEMMA TouchedBinGone ==
    ASSUME StoreInv, NEW e, NEW k, Touched(e, k), entries'[e].marker = NoMarker
    PROVE  Bin' = Store!Without(Bin, {k})
<1> DEFINE B == Store!Without(Bin, {k})
<1>1. e \notin Binned'
  BY DEF Binned
<1>2. k \notin DOMAIN Bin'
  <2>1. \A f \in Binned' : Key(f)' # k
    BY <1>1, TouchedBinElse
  <2> QED
    BY <2>1, TouchedBinElse, BinBecomes
<1>3. /\ DOMAIN B = DOMAIN Bin \ {k} /\ B = [j \in DOMAIN B |-> B[j]]
      /\ \A j \in DOMAIN B : B[j] = Bin[j]
  BY DEF Store!Without
<1> HIDE DEF B
<1>4. DOMAIN Bin' = DOMAIN B
  <2>1. /\ \A j : j # k /\ j \in DOMAIN Bin => j \in DOMAIN Bin'
        /\ \A j : j # k /\ j \in DOMAIN Bin' => j \in DOMAIN Bin
    BY TouchedBinElse
  <2>2. \A j : j \in DOMAIN Bin' <=> j \in DOMAIN B
    BY <1>2, <1>3, <2>1
  <2> QED
    BY <2>2
<1>5. \A j \in DOMAIN Bin' : Bin'[j] = B[j]
  BY <1>2, <1>3, <1>4, TouchedBinElse
<1>6. Bin' = [j \in DOMAIN Bin' |-> Bin'[j]]
  BY TouchedBinElse
<1> QED
  BY <1>3, <1>4, <1>5, <1>6, SameFunction DEF B

LEMMA TouchedBinKept ==
    ASSUME StoreInv, NEW e, NEW k, Touched(e, k), e \in DOMAIN entries,
           entries[e].marker # NoMarker, entries'[e].marker = entries[e].marker
    PROVE  /\ k \in DOMAIN Bin /\ DOMAIN Bin' = DOMAIN Bin
           /\ Bin' = [j \in DOMAIN Bin' |-> Bin'[j]]
           /\ Bin'[k] = [by |-> entries[e].marker, texts |-> Kept(e)']
           /\ \A j \in DOMAIN Bin : j # k => Bin'[j] = Bin[j]
<1>1. e \in Binned /\ e \in Binned' /\ Key(e)' = k
  BY DEF Binned, Touched
<1>2. k \in DOMAIN Bin /\ k \in DOMAIN Bin' /\ Bin'[k] = [by |-> entries[e].marker, texts |-> Kept(e)']
  BY <1>1, TouchedBinElse, BinIs, BinBecomes
<1>3. /\ \A j : j # k /\ j \in DOMAIN Bin => j \in DOMAIN Bin' /\ Bin'[j] = Bin[j]
      /\ \A j : j # k /\ j \in DOMAIN Bin' => j \in DOMAIN Bin
  BY TouchedBinElse
<1>4. DOMAIN Bin' = DOMAIN Bin
  <2>1. \A j : j \in DOMAIN Bin' <=> j \in DOMAIN Bin
    BY <1>2, <1>3
  <2> QED
    BY <2>1
<1>5. Bin' = [j \in DOMAIN Bin' |-> Bin'[j]]
  BY TouchedBinElse
<1> QED
  BY <1>2, <1>3, <1>4, <1>5

\* What the bin has at the key of row e stays when the row keeps its marker, and what
\* the marker leads to.
LEMMA TouchedBinStays ==
    ASSUME StoreInv, NEW e, NEW k, Touched(e, k),
           e \in DOMAIN entries =>
               /\ entries'[e].marker = entries[e].marker
               /\ entries[e].marker # NoMarker => Kept(e)' = Kept(e),
           e \notin DOMAIN entries => entries'[e].marker = NoMarker
    PROVE  Bin' = Bin
<1>1. KeysUnique
  BY DEF StoreInv
<1>2. CASE entries'[e].marker = NoMarker
  <2>1. \A f \in Binned : Key(f) # k
    BY <1>2 DEF Binned, Touched
  <2>2. k \notin DOMAIN Bin
    BY <1>1, <2>1, BinIs
  <2>3. Bin' = Store!Without(Bin, {k})
    BY <1>2, TouchedBinGone
  <2>4. Bin = [j \in DOMAIN Bin |-> Bin[j]]
    BY <1>1, BinIs
  <2> QED
    BY <2>2, <2>3, <2>4 DEF Store!Without
<1>3. CASE entries'[e].marker # NoMarker
  <2>1. e \in Binned /\ Key(e) = k /\ Kept(e)' = Kept(e)
    BY <1>3 DEF Binned, Touched
  <2>2. Bin[k] = [by |-> entries[e].marker, texts |-> Kept(e)']
    BY <1>1, <2>1, BinIs
  <2>3. /\ DOMAIN Bin' = DOMAIN Bin /\ Bin' = [j \in DOMAIN Bin' |-> Bin'[j]]
        /\ \A j \in DOMAIN Bin : Bin'[j] = Bin[j]
    BY <1>3, <2>1, <2>2, TouchedBinKept DEF Binned
  <2>4. Bin = [j \in DOMAIN Bin |-> Bin[j]]
    BY <1>1, BinIs
  <2> QED
    BY <2>3, <2>4, SameFunction
<1> QED
  BY <1>2, <1>3

\* What the store has at the key of a row.
LEMMA StoreAt ==
    ASSUME StoreInv, NEW e, NEW k, Touched(e, k)
    PROVE  /\ k \in DOMAIN Shelf <=> e \in DOMAIN entries /\ ~entries[e].removed
           /\ k \in DOMAIN Bin <=> e \in DOMAIN entries /\ entries[e].marker # NoMarker
           /\ k \in DOMAIN Bin => Bin[k] = [by |-> entries[e].marker, texts |-> Kept(e)]
           /\ k \in Store!Gone <=> e \in DOMAIN entries /\ entries[e].removed
           /\ Store!TextsAt(k) = Usable(e)
<1>1. KeysUnique
  BY DEF StoreInv
<1>2. \A f \in DOMAIN entries : Key(f) = k <=> f = e
  BY DEF Touched
<1>3. k \in DOMAIN Shelf <=> e \in DOMAIN entries /\ ~entries[e].removed
  BY <1>1, <1>2, ShelfIs DEF Shelved
<1>4. k \in DOMAIN Bin <=> e \in DOMAIN entries /\ entries[e].marker # NoMarker
  BY <1>1, <1>2, BinIs DEF Binned
<1>5. k \in DOMAIN Bin => Bin[k] = [by |-> entries[e].marker, texts |-> Kept(e)]
  BY <1>1, <1>2, <1>4, BinIs DEF Binned
<1>6. k \in Store!Gone <=> e \in DOMAIN entries /\ entries[e].removed
  BY <1>3, <1>4, StoreTypes DEF Store!Gone
<1>7. k \in DOMAIN Shelf => Shelf[k] = Usable(e)
  BY <1>1, <1>2, <1>3, ShelfIs DEF Shelved
<1>8. k \notin DOMAIN Shelf => Usable(e) = {}
  BY <1>3, StoreTypes DEF Usable, TextsOf
<1> QED
  BY <1>3, <1>4, <1>5, <1>6, <1>7, <1>8 DEF Store!TextsAt

\* Row e is the one that InsertEntry appends.
Inserted(e, n, v) ==
    /\ DOMAIN entries' = DOMAIN entries \cup {e} /\ e \notin DOMAIN entries
    /\ \A f \in DOMAIN entries : entries'[f] = entries[f]
    /\ entries'[e].name = n /\ entries'[e].variant = v
    /\ ~entries'[e].removed /\ entries'[e].marker = NoMarker

LEMMA EntryInserted ==
    ASSUME StoreInv, NEW n \in Names, NEW v \in Variants, InsertEntry(n, v),
           NEW e, e = Len(entries) + 1
    PROVE  Inserted(e, n, v)
<1> DEFINE x == [name |-> n, variant |-> v, removed |-> FALSE, marker |-> NoMarker]
<1>1. entries \in Seq(Entry) /\ x \in Entry /\ entries' = Append(entries, x)
  BY RowTypes DEF StoreInv, IInv, TypeOK, InsertEntry, Entry
<1>2. Len(entries) \in Nat /\ DOMAIN entries = 1..Len(entries)
  BY <1>1
<1>3. x.name = n /\ x.variant = v /\ ~x.removed /\ x.marker = NoMarker
  OBVIOUS
<1> HIDE DEF x
<1>4. /\ DOMAIN entries' = DOMAIN entries \cup {e} /\ e \notin DOMAIN entries
      /\ entries'[e] = x /\ \A f \in DOMAIN entries : entries'[f] = entries[f]
  BY <1>1, <1>2
<1> QED
  BY <1>3, <1>4 DEF Inserted

\* addCommand and addCommandVariant put an empty place on the shelf.
LEMMA AddEntryStores ==
    ASSUME StoreInv, NEW n \in Names, NEW v \in Variants, AddEntry(n, v)
    PROVE  StoreInv' /\ Store!Add(<<n, v>>)
<1> PICK k : k = <<n, v>>
  OBVIOUS
<1>1. IInv' /\ UNCHANGED <<texts, removals>>
  BY AddEntryIInv DEF StoreInv, AddEntry
<1>2. TextsUnique'
  BY <1>1 DEF StoreInv, TextsUnique
<1>3. \A f : TextsOf(f)' = TextsOf(f) /\ Usable(f)' = Usable(f)
  BY <1>1 DEF TextsOf, Usable
<1>4. \A f : entries'[f].marker = entries[f].marker => Kept(f)' = Kept(f)
  BY <1>1, <1>3 DEF Kept
<1>5. ASSUME NEW e, Touched(e, k), k \notin DOMAIN Shelf, Usable(e) = {},
             e \in DOMAIN entries => entries'[e].marker = entries[e].marker,
             e \notin DOMAIN entries => entries'[e].marker = NoMarker
      PROVE  StoreInv' /\ Store!Add(k)
  <2>1. KeysUnique'
    BY <1>5, TouchedKeys
  <2>2. Bin' = Bin
    BY <1>4, <1>5, TouchedBinStays
  <2>3. Usable(e)' = {}
    BY <1>3, <1>5
  <2>4. Shelf' = Store!With(Shelf, [j \in {k} |-> {}])
    BY <1>5, <2>3, TouchedShelf
  <2> QED
    BY <1>1, <1>2, <1>5, <2>1, <2>2, <2>4 DEF StoreInv, Store!Add
<1>6. CASE Found(n, v) = {} /\ InsertEntry(n, v)
  <2> PICK e : e = Len(entries) + 1
    OBVIOUS
  <2>1. Inserted(e, n, v)
    BY <1>6, EntryInserted
  <2>2. /\ DOMAIN entries' = DOMAIN entries \cup {e} /\ e \notin DOMAIN entries
        /\ \A f \in DOMAIN entries : entries'[f] = entries[f]
        /\ entries'[e].name = n /\ entries'[e].variant = v
        /\ ~entries'[e].removed /\ entries'[e].marker = NoMarker
    BY <2>1 DEF Inserted
  <2>3. \A f \in DOMAIN entries : Key(f) # k
    BY <1>6 DEF Found, Key
  <2>4. Touched(e, k)
    <3>1. Key(e)' = k /\ ~entries'[e].removed
      BY <2>2 DEF Key
    <3>2. \A f \in DOMAIN entries : Kept(f)' = Kept(f) /\ Usable(f)' = Usable(f)
      BY <1>3, <1>4, <2>2
    <3> QED
      BY <2>2, <2>3, <3>1, <3>2 DEF Touched
  <2>5. k \notin DOMAIN Shelf /\ Usable(e) = {}
    <3>1. k \notin DOMAIN Shelf /\ Store!TextsAt(k) = Usable(e)
      BY <2>2, <2>4, StoreAt
    <3> QED
      BY <3>1 DEF Store!TextsAt
  <2> QED
    BY <1>5, <2>2, <2>4, <2>5
<1>7. CASE \E e \in Found(n, v) :
               entries[e].removed /\ entries' = [entries EXCEPT ![e].removed = FALSE]
  <2>1. PICK e \in Found(n, v) :
            entries[e].removed /\ entries' = [entries EXCEPT ![e].removed = FALSE]
    BY <1>7
  <2>2. e \in DOMAIN entries /\ Key(e) = k /\ entries[e] \in Entry
    BY <2>1, StoreTypes DEF Found, Key
  <2>3. /\ DOMAIN entries' = DOMAIN entries /\ entries'[e] = [entries[e] EXCEPT !.removed = FALSE]
        /\ \A f \in DOMAIN entries : f # e => entries'[f] = entries[f]
    BY <2>1, <2>2
  <2>4. /\ entries'[e].name = entries[e].name /\ entries'[e].variant = entries[e].variant
        /\ ~entries'[e].removed /\ entries'[e].marker = entries[e].marker
    BY <2>2, <2>3 DEF Entry
  <2>5. \A f \in DOMAIN entries : f # e => Key(f) # k
    BY <2>2 DEF StoreInv, KeysUnique
  <2>6. Touched(e, k)
    <3>1. Key(e)' = k /\ ~entries'[e].removed
      BY <2>2, <2>4 DEF Key
    <3>2. \A f \in DOMAIN entries : Kept(f)' = Kept(f) /\ Usable(f)' = Usable(f)
      BY <1>3, <1>4, <2>3, <2>4
    <3> QED
      BY <2>2, <2>3, <2>5, <3>1, <3>2 DEF Touched
  <2>7. k \notin DOMAIN Shelf /\ Usable(e) = {}
    <3>1. k \notin DOMAIN Shelf /\ Store!TextsAt(k) = Usable(e)
      BY <2>1, <2>2, <2>6, StoreAt
    <3> QED
      BY <3>1 DEF Store!TextsAt
  <2> QED
    BY <1>5, <2>2, <2>4, <2>6, <2>7
<1> QED
  BY <1>6, <1>7 DEF AddEntry


\* Besides, text t of row e is added, changed or put under its row, as another text
\* than the row has.
OneText(e, k, t) ==
    /\ DOMAIN entries' = DOMAIN entries \cup {e}
    /\ \A f \in DOMAIN entries : f # e => entries'[f] = entries[f] /\ Key(f) # k
    /\ e \in DOMAIN entries => Key(e) = k
    /\ Key(e)' = k /\ ~entries'[e].removed
    /\ DOMAIN texts' = DOMAIN texts \cup {t}
    /\ \A u \in DOMAIN texts : u # t => texts'[u] = texts[u]
    /\ t \in DOMAIN texts => texts[t].entry = e
    /\ texts'[t].entry = e
    /\ \A u \in TextsOf(e) : u # t => Fold[texts[u].text] # Fold[texts'[t].text]

LEMMA OneTextTouches ==
    ASSUME StoreInv, NEW e, NEW k, NEW t, OneText(e, k, t)
    PROVE  Touched(e, k) /\ KeysUnique' /\ TextsUnique' /\ TextsOf(e)' = TextsOf(e) \cup {t}
<1>1. TextsOf(e)' = TextsOf(e) \cup {t}
  BY DEF TextsOf, OneText
<1>2. ASSUME NEW f \in DOMAIN entries, f # e
      PROVE  Usable(f)' = Usable(f) /\ Kept(f)' = Kept(f)
  <2>1. TextsOf(f)' = TextsOf(f) /\ \A u \in TextsOf(f) : texts'[u] = texts[u]
    BY <1>2 DEF TextsOf, OneText
  <2>2. entries'[f] = entries[f]
    BY <1>2 DEF OneText
  <2> QED
    BY <2>1, <2>2 DEF Usable, Kept
<1>3. Touched(e, k)
  BY <1>2 DEF OneText, Touched
<1>4. TextsUnique'
  <2> SUFFICES ASSUME NEW u \in DOMAIN texts', NEW w \in DOMAIN texts',
                      texts'[u].entry = texts'[w].entry,
                      Fold[texts'[u].text] = Fold[texts'[w].text]
               PROVE  u = w
    BY DEF TextsUnique
  <2>1. CASE u = t
    BY <2>1 DEF OneText, TextsOf
  <2>2. CASE w = t
    BY <2>2 DEF OneText, TextsOf
  <2>3. CASE u # t /\ w # t
    BY <2>3 DEF OneText, StoreInv, TextsUnique
  <2> QED
    BY <2>1, <2>2, <2>3
<1> QED
  BY <1>1, <1>3, <1>4, TouchedKeys

\* A text that was not there, or was removed, is usable now.
LEMMA TextComes ==
    ASSUME StoreInv, NEW e, NEW k, NEW t, OneText(e, k, t), NEW r,
           texts'[t].text = r, ~texts'[t].removed,
           t \in DOMAIN texts => texts[t].removed /\ texts[t].text = r
    PROVE  /\ Usable(e)' = Usable(e) \cup {r}
           /\ \A q \in Usable(e) : Fold[q] # Fold[r]
           /\ entries'[e].marker = entries[e].marker =>
                  Kept(e)' = {q \in Kept(e) : Fold[q] # Fold[r]}
<1>1. TextsOf(e)' = TextsOf(e) \cup {t}
  BY OneTextTouches
<1>2. /\ \A u \in TextsOf(e) : u # t => texts'[u] = texts[u] /\ Fold[texts[u].text] # Fold[r]
      /\ t \in TextsOf(e) => texts[t].removed /\ texts[t].text = r
  BY DEF OneText, TextsOf
<1>3. Usable(e)' = Usable(e) \cup {r}
  BY <1>1, <1>2 DEF Usable
<1>4. \A q \in Usable(e) : Fold[q] # Fold[r]
  BY <1>2 DEF Usable
<1>5. ASSUME entries'[e].marker = entries[e].marker
      PROVE  Kept(e)' = {q \in Kept(e) : Fold[q] # Fold[r]}
  <2> DEFINE m == entries[e].marker
             P == {u \in TextsOf(e) : texts[u].removed /\ texts[u].marker = m}
             Q == {u \in TextsOf(e)' : texts'[u].removed /\ texts'[u].marker = m}
  <2>1. Kept(e) = {texts[u].text : u \in P}
    BY DEF Kept
  <2>2. Kept(e)' = {texts'[u].text : u \in Q}
    BY <1>5 DEF Kept
  <2>3. \A u : u \in Q <=> u \in P /\ u # t
    BY <1>1, <1>2
  <2>4. \A u \in P : /\ u # t => texts'[u].text = texts[u].text /\ Fold[texts[u].text] # Fold[r]
                     /\ u = t => Fold[texts[u].text] = Fold[r]
    BY <1>2
  <2> HIDE DEF P, Q
  <2> QED
    BY <2>1, <2>2, <2>3, <2>4
<1> QED
  BY <1>3, <1>4, <1>5

\* addCommandText and restoreCommandText: the store's AddText.
LEMMA TextStores ==
    ASSUME StoreInv, IInv', NEW e, NEW k, NEW t, OneText(e, k, t), NEW r \in Texts, NEW s,
           texts'[t].text = r, ~texts'[t].removed, Fold[s] = Fold[r],
           t \in DOMAIN texts => texts[t].removed /\ texts[t].text = r,
           e \notin DOMAIN entries => entries'[e].marker = NoMarker,
           e \in DOMAIN entries =>
               IF entries[e].removed THEN entries'[e].marker = NoMarker
               ELSE entries'[e].marker = entries[e].marker,
           UNCHANGED removals
    PROVE  StoreInv' /\ Store!AddText(k, s)
<1>1. Touched(e, k) /\ KeysUnique' /\ TextsUnique'
  BY OneTextTouches
<1>2. /\ Usable(e)' = Usable(e) \cup {r}
      /\ \A q \in Usable(e) : Fold[q] # Fold[r]
      /\ entries'[e].marker = entries[e].marker =>
             Kept(e)' = {q \in Kept(e) : Fold[q] # Fold[r]}
  BY TextComes
<1>3. /\ k \in DOMAIN Shelf <=> e \in DOMAIN entries /\ ~entries[e].removed
      /\ k \in DOMAIN Bin <=> e \in DOMAIN entries /\ entries[e].marker # NoMarker
      /\ k \in DOMAIN Bin => Bin[k] = [by |-> entries[e].marker, texts |-> Kept(e)]
      /\ k \in Store!Gone <=> e \in DOMAIN entries /\ entries[e].removed
      /\ Store!TextsAt(k) = Usable(e)
  BY <1>1, StoreAt
<1>4. \A q \in Store!TextsAt(k) : ~Store!Alike(s, q)
  BY <1>2, <1>3 DEF Store!Alike
<1>5. Shelf' = Store!With(Shelf, [j \in {k} |-> Store!TextsAt(k) \cup {r}])
  BY <1>1, <1>2, <1>3, TouchedShelf
<1> DEFINE B == [j \in DOMAIN Bin |->
                    IF j = k THEN [Bin[k] EXCEPT !.texts = {q \in @ : ~Store!Alike(s, q)}]
                    ELSE Bin[j]]
<1>6. ASSUME k \in Store!Gone PROVE Bin' = Store!Without(Bin, {k})
  <2>1. entries'[e].marker = NoMarker
    BY <1>3, <1>6
  <2> QED
    BY <1>1, <2>1, TouchedBinGone
<1>7. ASSUME k \notin Store!Gone PROVE Bin' = B
  <2>1. CASE k \notin DOMAIN Bin
    <3>1. e \in DOMAIN entries => entries'[e].marker = entries[e].marker /\ entries[e].marker = NoMarker
      BY <1>3, <1>7, <2>1
    <3>2. Bin' = Bin
      BY <1>1, <3>1, TouchedBinStays
    <3>3. Bin = [j \in DOMAIN Bin |-> Bin[j]]
      BY BinIs DEF StoreInv
    <3> QED
      BY <2>1, <3>2, <3>3
  <2>2. CASE k \in DOMAIN Bin
    <3>1. /\ e \in DOMAIN entries /\ entries[e].marker # NoMarker
          /\ entries'[e].marker = entries[e].marker
      BY <1>3, <1>7, <2>2
    <3>2. /\ DOMAIN Bin' = DOMAIN Bin /\ Bin' = [j \in DOMAIN Bin' |-> Bin'[j]]
          /\ Bin'[k] = [by |-> entries[e].marker, texts |-> Kept(e)']
          /\ \A j \in DOMAIN Bin : j # k => Bin'[j] = Bin[j]
      BY <1>1, <3>1, TouchedBinKept
    <3>3. Bin[k] = [by |-> entries[e].marker, texts |-> Kept(e)]
      BY <1>3, <2>2
    <3>4. Kept(e)' = {q \in Kept(e) : ~Store!Alike(s, q)}
      BY <1>2, <3>1 DEF Store!Alike
    <3>5. [Bin[k] EXCEPT !.texts = {q \in @ : ~Store!Alike(s, q)}]
              = [by |-> entries[e].marker, texts |-> Kept(e)']
      BY <3>3, <3>4
    <3>6. DOMAIN B = DOMAIN Bin /\ B = [j \in DOMAIN B |-> B[j]]
      OBVIOUS
    <3>7. \A j \in DOMAIN Bin : Bin'[j] = B[j]
      BY <3>2, <3>5
    <3> HIDE DEF B
    <3> QED
      BY <3>2, <3>6, <3>7, SameFunction
  <2> QED
    BY <2>1, <2>2
<1>8. Store!Alike(s, r)
  BY DEF Store!Alike
<1> QED
  BY <1>1, <1>4, <1>5, <1>6, <1>7, <1>8 DEF StoreInv, Store!AddText


-----------------------------------------------------------------------------
(* The operations on one text.                                             *)

\* The row t is new, with the text s of the row e.
Worded(t, e, s) ==
    /\ DOMAIN texts' = DOMAIN texts \cup {t} /\ t \notin DOMAIN texts
    /\ \A u \in DOMAIN texts : texts'[u] = texts[u]
    /\ texts'[t].entry = e /\ texts'[t].text = s /\ ~texts'[t].removed

LEMMA TextInserted ==
    ASSUME StoreInv, NEW e \in EntryIds, NEW s \in Texts, InsertText(e, s),
           NEW t, t = Len(texts) + 1
    PROVE  Worded(t, e, s)
<1> DEFINE x == [entry |-> e, text |-> s, removed |-> FALSE, marker |-> NoMarker]
<1>1. texts \in Seq(Text) /\ x \in Text /\ texts' = Append(texts, x)
  <2>1. texts \in Seq(Text)
    BY DEF StoreInv, IInv, TypeOK
  <2>2. x \in Text
    BY RowTypes DEF Text, StoreInv, IInv
  <2> QED
    BY <2>1, <2>2 DEF InsertText
<1>2. Len(texts) \in Nat /\ DOMAIN texts = 1..Len(texts)
  BY <1>1
<1>3. x.entry = e /\ x.text = s /\ ~x.removed
  OBVIOUS
<1> HIDE DEF x
<1> QED
  BY <1>1, <1>2, <1>3 DEF Worded

LEMMA TextRestored ==
    ASSUME StoreInv, NEW t \in DOMAIN texts, RestoreText(t)
    PROVE  /\ DOMAIN texts' = DOMAIN texts
           /\ \A u \in DOMAIN texts : u # t => texts'[u] = texts[u]
           /\ texts'[t].entry = texts[t].entry /\ texts'[t].text = texts[t].text
           /\ ~texts'[t].removed
<1>1. texts[t] \in Text
  BY StoreTypes
<1> DEFINE x == [texts[t] EXCEPT !.removed = FALSE, !.marker = NoMarker]
<1>2. x.entry = texts[t].entry /\ x.text = texts[t].text /\ ~x.removed
  BY <1>1 DEF Text
<1>3. texts' = [texts EXCEPT ![t] = x]
  BY DEF RestoreText, StoreInv, IInv, TypeOK
<1> HIDE DEF x
<1> QED
  BY <1>2, <1>3

\* addCommandText adds the text to the store's place.
LEMMA AddCommandTextStores ==
    ASSUME StoreInv, NEW n \in Names, NEW v \in Variants, NEW s \in Texts,
           AddCommandText(n, v, s)
    PROVE  StoreInv' /\ Store!AddText(<<n, v>>, s)
<1> PICK k : k = <<n, v>>
  OBVIOUS
<1>1. IInv' /\ UNCHANGED removals
  BY AddCommandTextIInv DEF StoreInv, AddCommandText
<1>2. CASE Found(n, v) = {} /\ InsertEntry(n, v) /\ InsertText(Len(entries) + 1, s)
  <2> PICK e : e = Len(entries) + 1
    OBVIOUS
  <2> PICK t : t = Len(texts) + 1
    OBVIOUS
  <2>1. /\ DOMAIN entries' = DOMAIN entries \cup {e} /\ e \notin DOMAIN entries
        /\ \A f \in DOMAIN entries : entries'[f] = entries[f]
        /\ entries'[e].name = n /\ entries'[e].variant = v
        /\ ~entries'[e].removed /\ entries'[e].marker = NoMarker
    <3>1. Inserted(e, n, v)
      BY <1>2, EntryInserted
    <3> QED
      BY <3>1 DEF Inserted
  <2>2. e \in EntryIds
    BY <1>2, ConstantsAssumption DEF InsertEntry, EntryIds, StoreInv, IInv, TypeOK
  <2>3. /\ DOMAIN texts' = DOMAIN texts \cup {t} /\ t \notin DOMAIN texts
        /\ \A u \in DOMAIN texts : texts'[u] = texts[u]
        /\ texts'[t].entry = e /\ texts'[t].text = s /\ ~texts'[t].removed
    <3>1. InsertText(e, s)
      BY <1>2
    <3>2. Worded(t, e, s)
      BY <2>2, <3>1, TextInserted
    <3> QED
      BY <3>2 DEF Worded
  <2>4. TextsOf(e) = {}
    BY <2>1, StoreTypes DEF TextsOf
  <2>5. \A f \in DOMAIN entries : Key(f) # k
    BY <1>2 DEF Found, Key
  <2>6. OneText(e, k, t)
    <3>1. Key(e)' = k
      BY <2>1 DEF Key
    <3> QED
      BY <2>1, <2>3, <2>4, <2>5, <3>1 DEF OneText
  <2> QED
    BY <1>1, <2>1, <2>3, <2>6, TextStores
<1>3. ASSUME NEW e \in Found(n, v),
             entries' = IF entries[e].removed
                        THEN [entries EXCEPT ![e].removed = FALSE, ![e].marker = NoMarker]
                        ELSE entries,
             \/ \E t \in Like(e, s) : texts[t].removed /\ RestoreText(t)
             \/ Like(e, s) = {} /\ InsertText(e, s)
      PROVE  StoreInv' /\ Store!AddText(k, s)
  <2>1. e \in DOMAIN entries /\ e \in EntryIds /\ Key(e) = k /\ entries[e] \in Entry
    BY StoreTypes DEF Found, Key
  <2>2. /\ DOMAIN entries' = DOMAIN entries
        /\ \A f \in DOMAIN entries : f # e => entries'[f] = entries[f]
        /\ entries'[e].name = n /\ entries'[e].variant = v /\ ~entries'[e].removed
        /\ IF entries[e].removed THEN entries'[e].marker = NoMarker
           ELSE entries'[e].marker = entries[e].marker
    <3>1. CASE entries[e].removed
      <4> DEFINE x == [entries[e] EXCEPT !.removed = FALSE, !.marker = NoMarker]
      <4>1. x.name = n /\ x.variant = v /\ ~x.removed /\ x.marker = NoMarker
        BY <2>1 DEF Entry, Found
      <4>2. entries' = [entries EXCEPT ![e] = x]
        BY <1>3, <2>1, <3>1 DEF StoreInv, IInv, TypeOK
      <4> HIDE DEF x
      <4> QED
        BY <2>1, <3>1, <4>1, <4>2
    <3>2. CASE ~entries[e].removed
      BY <1>3, <3>2 DEF Found
    <3> QED
      BY <3>1, <3>2
  <2>3. Key(e)' = k /\ \A f \in DOMAIN entries : f # e => Key(f) # k
    BY <2>1, <2>2 DEF Key, StoreInv, KeysUnique
  <2>4. ASSUME NEW t,
               DOMAIN texts' = DOMAIN texts \cup {t},
               \A u \in DOMAIN texts : u # t => texts'[u] = texts[u],
               t \in DOMAIN texts => texts[t].entry = e,
               texts'[t].entry = e,
               \A u \in TextsOf(e) : u # t => Fold[texts[u].text] # Fold[texts'[t].text]
        PROVE  OneText(e, k, t)
    BY <2>1, <2>2, <2>3, <2>4 DEF OneText
  <2>5. CASE Like(e, s) = {} /\ InsertText(e, s)
    <3> PICK t : t = Len(texts) + 1
      OBVIOUS
    <3>1. /\ DOMAIN texts' = DOMAIN texts \cup {t} /\ t \notin DOMAIN texts
          /\ \A u \in DOMAIN texts : texts'[u] = texts[u]
          /\ texts'[t].entry = e /\ texts'[t].text = s /\ ~texts'[t].removed
      <4>1. Worded(t, e, s)
        BY <2>1, <2>5, TextInserted
      <4> QED
        BY <4>1 DEF Worded
    <3>2. \A u \in TextsOf(e) : Fold[texts[u].text] # Fold[s]
      BY <2>5 DEF Like
    <3>3. OneText(e, k, t)
      BY <2>4, <3>1, <3>2
    <3> QED
      BY <1>1, <2>1, <2>2, <3>1, <3>3, TextStores
  <2>6. CASE \E t \in Like(e, s) : texts[t].removed /\ RestoreText(t)
    <3>1. PICK t \in Like(e, s) : texts[t].removed /\ RestoreText(t)
      BY <2>6
    <3>2. t \in DOMAIN texts /\ texts[t].entry = e /\ Fold[texts[t].text] = Fold[s]
      BY DEF Like, TextsOf
    <3>3. /\ DOMAIN texts' = DOMAIN texts
          /\ \A u \in DOMAIN texts : u # t => texts'[u] = texts[u]
          /\ texts'[t].entry = e /\ texts'[t].text = texts[t].text
          /\ ~texts'[t].removed
      BY <3>1, <3>2, TextRestored
    <3>4. \A u \in TextsOf(e) : u # t => Fold[texts[u].text] # Fold[texts[t].text]
      BY <3>2 DEF StoreInv, TextsUnique, TextsOf
    <3>5. OneText(e, k, t)
      BY <2>4, <3>2, <3>3, <3>4
    <3>6. texts[t].text \in Texts
      BY <3>2, StoreTypes
    <3> QED
      BY <1>1, <2>1, <2>2, <3>1, <3>2, <3>3, <3>5, <3>6, TextStores
  <2> QED
    BY <1>3, <2>5, <2>6
<1> QED
  BY <1>2, <1>3 DEF AddCommandText


\* updateCommandText, removeCommandText and restoreCommandText change one text of an
\* active row.
LEMMA ActiveText ==
    ASSUME StoreInv, NEW n, NEW v, NEW e \in ActiveVariant(n, v), NEW t \in TextsOf(e),
           UNCHANGED entries, DOMAIN texts' = DOMAIN texts,
           \A u \in DOMAIN texts : u # t => texts'[u] = texts[u],
           texts'[t].entry = e,
           \A u \in TextsOf(e) : u # t => Fold[texts[u].text] # Fold[texts'[t].text],
           NEW k, k = <<n, v>>
    PROVE  /\ e \in DOMAIN entries /\ ~entries[e].removed
           /\ t \in DOMAIN texts /\ texts[t].entry = e
           /\ OneText(e, k, t)
<1>1. e \in DOMAIN entries /\ ~entries[e].removed /\ Key(e) = k
  BY DEF ActiveVariant, Active, Found, Key
<1>2. t \in DOMAIN texts /\ texts[t].entry = e
  BY DEF TextsOf
<1>3. Key(e)' = k /\ \A f \in DOMAIN entries : f # e => Key(f) # k
  BY <1>1 DEF Key, StoreInv, KeysUnique
<1> QED
  BY <1>1, <1>2, <1>3 DEF OneText

LEMMA RestoreTextStores ==
    ASSUME StoreInv, IInv', NEW n, NEW v, NEW t, RestoreCommandText(n, v, t)
    PROVE  StoreInv' /\ \E s \in Texts : Store!AddText(<<n, v>>, s)
<1> PICK k : k = <<n, v>>
  OBVIOUS
<1>1. PICK e \in ActiveVariant(n, v) : t \in TextsOf(e)
  BY DEF RestoreCommandText
<1>2. t \in DOMAIN texts /\ texts[t].entry = e
  BY <1>1 DEF TextsOf
<1>3. RestoreText(t) /\ texts[t].removed /\ entries' = entries /\ removals' = removals
  BY DEF RestoreCommandText
<1>4. /\ DOMAIN texts' = DOMAIN texts
      /\ \A u \in DOMAIN texts : u # t => texts'[u] = texts[u]
      /\ texts'[t].entry = texts[t].entry /\ texts'[t].text = texts[t].text
      /\ ~texts'[t].removed
  BY <1>2, <1>3, TextRestored
<1>5. \A u \in TextsOf(e) : u # t => Fold[texts[u].text] # Fold[texts'[t].text]
  BY <1>2, <1>4 DEF StoreInv, TextsUnique, TextsOf
<1>6. OneText(e, k, t) /\ e \in DOMAIN entries /\ ~entries[e].removed
  BY <1>1, <1>2, <1>3, <1>4, <1>5, ActiveText
<1>7. texts[t].text \in Texts
  BY <1>2, StoreTypes
<1>8. StoreInv' /\ Store!AddText(k, texts[t].text)
  BY <1>3, <1>4, <1>6, <1>7, TextStores
<1> QED
  BY <1>7, <1>8

\* The marker of an active row leads to removed texts only.
LEMMA KeptStays ==
    ASSUME StoreInv, NEW e, NEW k, NEW t \in DOMAIN texts, OneText(e, k, t),
           ~texts[t].removed, texts'[t].marker = texts[t].marker,
           entries'[e].marker = entries[e].marker, entries[e].marker # NoMarker
    PROVE  Kept(e)' = Kept(e)
<1>1. TextsOf(e)' = TextsOf(e) \cup {t} /\ t \in TextsOf(e)
  BY OneTextTouches DEF OneText, TextsOf
<1>2. texts[t].marker = NoMarker
  BY StoreTypes
<1>3. \A u \in TextsOf(e) : u # t => texts'[u] = texts[u]
  BY DEF OneText, TextsOf
<1> DEFINE P == {u \in TextsOf(e) : texts[u].removed /\ texts[u].marker = entries[e].marker}
           Q == {u \in TextsOf(e)' : texts'[u].removed /\ texts'[u].marker = entries[e].marker}
<1>4. Kept(e) = {texts[u].text : u \in P} /\ Kept(e)' = {texts'[u].text : u \in Q}
  BY DEF Kept
<1>5. P = Q /\ t \notin P
  BY <1>1, <1>2, <1>3
<1>6. \A u \in P : texts'[u] = texts[u]
  BY <1>3, <1>5
<1> HIDE DEF P, Q
<1> QED
  BY <1>4, <1>5, <1>6


\* What an active row's step on active text t does to the store: the bin stays, and
\* only the texts at the row's place change.
LEMMA ActiveTextStores ==
    ASSUME StoreInv, IInv', NEW n, NEW v, NEW e \in ActiveVariant(n, v), NEW t \in TextsOf(e),
           UNCHANGED <<entries, removals>>, DOMAIN texts' = DOMAIN texts,
           \A u \in DOMAIN texts : u # t => texts'[u] = texts[u],
           texts'[t].entry = e, ~texts[t].removed, texts'[t].marker = texts[t].marker,
           \A u \in TextsOf(e) : u # t => Fold[texts[u].text] # Fold[texts'[t].text],
           NEW k, k = <<n, v>>
    PROVE  /\ StoreInv' /\ Bin' = Bin /\ removals' = removals
           /\ k \in DOMAIN Shelf /\ Shelf[k] = Usable(e) /\ Store!TextsAt(k) = Usable(e)
           /\ \A y : y = Usable(e)' => Shelf' = [Shelf EXCEPT ![k] = y]
           /\ texts[t].text \in Usable(e)
           /\ \A q \in Usable(e) \ {texts[t].text} :
                  \E u \in TextsOf(e) : u # t /\ ~texts[u].removed /\ texts[u].text = q
           /\ \A u \in TextsOf(e) : u # t => texts[u].text # texts[t].text
           /\ TextsOf(e)' = TextsOf(e)
<1>1. /\ e \in DOMAIN entries /\ ~entries[e].removed
      /\ t \in DOMAIN texts /\ texts[t].entry = e
      /\ OneText(e, k, t)
  BY ActiveText
<1>2. Touched(e, k) /\ KeysUnique' /\ TextsUnique' /\ TextsOf(e)' = TextsOf(e) \cup {t}
  BY <1>1, OneTextTouches
<1>3. Bin' = Bin
  <2>1. entries[e].marker # NoMarker => Kept(e)' = Kept(e)
    BY <1>1, KeptStays
  <2> QED
    BY <1>1, <1>2, <2>1, TouchedBinStays
<1>4. k \in DOMAIN Shelf /\ Store!TextsAt(k) = Usable(e) /\ Shelf[k] = Usable(e)
  BY <1>1, <1>2, StoreAt DEF Store!TextsAt
<1>5. \A y : y = Usable(e)' => Shelf' = [Shelf EXCEPT ![k] = y]
  <2> SUFFICES ASSUME NEW y, y = Usable(e)' PROVE Shelf' = [Shelf EXCEPT ![k] = y]
    OBVIOUS
  <2> DEFINE h == [Shelf EXCEPT ![k] = y]
  <2>1. Shelf' = Store!With(Shelf, [j \in {k} |-> y])
    BY <1>2, TouchedShelf
  <2>2. /\ DOMAIN Shelf' = DOMAIN Shelf /\ Shelf' = [j \in DOMAIN Shelf' |-> Shelf'[j]]
        /\ \A j \in DOMAIN Shelf : Shelf'[j] = IF j = k THEN y ELSE Shelf[j]
    BY <1>4, <2>1 DEF Store!With
  <2>3. /\ DOMAIN h = DOMAIN Shelf /\ h = [j \in DOMAIN h |-> h[j]]
        /\ \A j \in DOMAIN Shelf : h[j] = IF j = k THEN y ELSE Shelf[j]
    OBVIOUS
  <2> HIDE DEF h
  <2>4. Shelf' = h
    BY <2>2, <2>3, SameFunction
  <2> QED
    BY <2>4 DEF h
<1>6. texts[t].text \in Usable(e)
  BY DEF Usable
<1>7. \A u \in TextsOf(e) : u # t => texts[u].text # texts[t].text
  BY <1>1 DEF StoreInv, TextsUnique, TextsOf
<1>8. \A q \in Usable(e) \ {texts[t].text} :
          \E u \in TextsOf(e) : u # t /\ ~texts[u].removed /\ texts[u].text = q
  BY DEF Usable
<1>9. StoreInv' /\ removals' = removals /\ TextsOf(e)' = TextsOf(e)
  BY <1>2 DEF StoreInv
<1> QED
  BY <1>3, <1>4, <1>5, <1>6, <1>7, <1>8, <1>9

LEMMA RemoveTextStores ==
    ASSUME StoreInv, IInv', NEW n, NEW v, NEW t, RemoveCommandText(n, v, t)
    PROVE  StoreInv' /\ \E s \in Texts : Store!RemoveText(<<n, v>>, s)
<1> PICK k : k = <<n, v>>
  OBVIOUS
<1>1. PICK e \in ActiveVariant(n, v) : t \in TextsOf(e)
  BY DEF RemoveCommandText
<1>2. /\ ~texts[t].removed /\ texts' = [texts EXCEPT ![t].removed = TRUE]
      /\ UNCHANGED <<entries, removals>>
  BY DEF RemoveCommandText
<1>3. t \in DOMAIN texts /\ texts[t].entry = e /\ texts[t] \in Text /\ texts[t].text \in Texts
  BY <1>1, StoreTypes DEF TextsOf
<1> DEFINE x == [texts[t] EXCEPT !.removed = TRUE]
<1>4. x.entry = e /\ x.text = texts[t].text /\ x.removed /\ x.marker = texts[t].marker
  BY <1>3 DEF Text
<1>5. texts' = [texts EXCEPT ![t] = x]
  BY <1>2
<1> HIDE DEF x
<1>6. /\ DOMAIN texts' = DOMAIN texts
      /\ \A u \in DOMAIN texts : u # t => texts'[u] = texts[u]
      /\ texts'[t].entry = e /\ texts'[t].text = texts[t].text
      /\ texts'[t].removed /\ texts'[t].marker = texts[t].marker
  BY <1>3, <1>4, <1>5
<1>7. \A u \in TextsOf(e) : u # t => Fold[texts[u].text] # Fold[texts'[t].text]
  BY <1>3, <1>6 DEF StoreInv, TextsUnique, TextsOf
<1>8. /\ StoreInv' /\ Bin' = Bin /\ removals' = removals
      /\ k \in DOMAIN Shelf /\ Shelf[k] = Usable(e) /\ Store!TextsAt(k) = Usable(e)
      /\ \A y : y = Usable(e)' => Shelf' = [Shelf EXCEPT ![k] = y]
      /\ texts[t].text \in Usable(e)
      /\ \A q \in Usable(e) \ {texts[t].text} :
             \E u \in TextsOf(e) : u # t /\ ~texts[u].removed /\ texts[u].text = q
      /\ \A u \in TextsOf(e) : u # t => texts[u].text # texts[t].text
      /\ TextsOf(e)' = TextsOf(e)
  <2>1. StoreInv /\ IInv' /\ e \in ActiveVariant(n, v) /\ t \in TextsOf(e)
    BY <1>1
  <2>2. UNCHANGED <<entries, removals>> /\ texts'[t].entry = e
    BY <1>2, <1>6
  <2> QED
    BY <1>2, <1>6, <1>7, <2>1, <2>2, ActiveTextStores
<1>9. Usable(e)' = Usable(e) \ {texts[t].text}
  <2>1. ASSUME NEW q \in Usable(e)' PROVE q \in Usable(e) \ {texts[t].text}
    <3>1. PICK u \in TextsOf(e)' : ~texts'[u].removed /\ texts'[u].text = q
      BY DEF Usable
    <3>2. u \in TextsOf(e) /\ u # t /\ u \in DOMAIN texts
      BY <1>6, <1>8, <3>1 DEF TextsOf
    <3>3. texts'[u] = texts[u] /\ texts[u].text # texts[t].text
      BY <1>6, <1>8, <3>2
    <3> QED
      BY <3>1, <3>2, <3>3 DEF Usable
  <2>2. ASSUME NEW q \in Usable(e) \ {texts[t].text} PROVE q \in Usable(e)'
    <3>1. PICK u \in TextsOf(e) : u # t /\ ~texts[u].removed /\ texts[u].text = q
      BY <1>8
    <3>2. u \in TextsOf(e)' /\ texts'[u] = texts[u]
      BY <1>6, <1>8, <3>1 DEF TextsOf
    <3> QED
      BY <3>1, <3>2 DEF Usable
  <2> QED
    BY <2>1, <2>2
<1>10. Store!RemoveText(k, texts[t].text)
  BY <1>8, <1>9 DEF Store!RemoveText
<1> QED
  BY <1>3, <1>8, <1>10

LEMMA UpdateTextStores ==
    ASSUME StoreInv, IInv', NEW n, NEW v, NEW t, NEW s, UpdateCommandText(n, v, t, s)
    PROVE  StoreInv' /\ \E old \in Texts : Store!UpdateText(<<n, v>>, old, s)
<1> PICK k : k = <<n, v>>
  OBVIOUS
<1>1. PICK e \in ActiveVariant(n, v) : t \in TextsOf(e) /\ Like(e, s) \subseteq {t}
  BY DEF UpdateCommandText
<1>2. /\ ~texts[t].removed /\ texts' = [texts EXCEPT ![t].text = s]
      /\ UNCHANGED <<entries, removals>>
  BY DEF UpdateCommandText
<1>3. t \in DOMAIN texts /\ texts[t].entry = e /\ texts[t] \in Text /\ texts[t].text \in Texts
  BY <1>1, StoreTypes DEF TextsOf
<1> DEFINE x == [texts[t] EXCEPT !.text = s]
<1>4. x.entry = e /\ x.text = s /\ x.removed = texts[t].removed /\ x.marker = texts[t].marker
  BY <1>3 DEF Text
<1>5. texts' = [texts EXCEPT ![t] = x]
  BY <1>2
<1> HIDE DEF x
<1>6. /\ DOMAIN texts' = DOMAIN texts
      /\ \A u \in DOMAIN texts : u # t => texts'[u] = texts[u]
      /\ texts'[t].entry = e /\ texts'[t].text = s
      /\ texts'[t].removed = texts[t].removed /\ texts'[t].marker = texts[t].marker
  BY <1>3, <1>4, <1>5
<1>7. \A u \in TextsOf(e) : u # t => Fold[texts[u].text] # Fold[texts'[t].text]
  BY <1>1, <1>6 DEF Like
<1>8. /\ StoreInv' /\ Bin' = Bin /\ removals' = removals
      /\ k \in DOMAIN Shelf /\ Shelf[k] = Usable(e) /\ Store!TextsAt(k) = Usable(e)
      /\ \A y : y = Usable(e)' => Shelf' = [Shelf EXCEPT ![k] = y]
      /\ texts[t].text \in Usable(e)
      /\ \A q \in Usable(e) \ {texts[t].text} :
             \E u \in TextsOf(e) : u # t /\ ~texts[u].removed /\ texts[u].text = q
      /\ \A u \in TextsOf(e) : u # t => texts[u].text # texts[t].text
      /\ TextsOf(e)' = TextsOf(e)
  BY <1>1, <1>2, <1>3, <1>6, <1>7, ActiveTextStores
<1>9. Usable(e)' = (Usable(e) \ {texts[t].text}) \cup {s}
  <2>1. ASSUME NEW q \in Usable(e)', q # s PROVE q \in Usable(e) \ {texts[t].text}
    <3>1. PICK u \in TextsOf(e)' : ~texts'[u].removed /\ texts'[u].text = q
      BY DEF Usable
    <3>2. u \in TextsOf(e) /\ u # t /\ u \in DOMAIN texts
      BY <1>6, <1>8, <2>1, <3>1 DEF TextsOf
    <3>3. texts'[u] = texts[u] /\ texts[u].text # texts[t].text
      BY <1>6, <1>8, <3>2
    <3> QED
      BY <3>1, <3>2, <3>3 DEF Usable
  <2>2. ASSUME NEW q \in Usable(e) \ {texts[t].text} PROVE q \in Usable(e)'
    <3>1. PICK u \in TextsOf(e) : u # t /\ ~texts[u].removed /\ texts[u].text = q
      BY <1>8
    <3>2. u \in TextsOf(e)' /\ texts'[u] = texts[u]
      BY <1>6, <1>8, <3>1 DEF TextsOf
    <3> QED
      BY <3>1, <3>2 DEF Usable
  <2>3. s \in Usable(e)'
    <3>1. t \in TextsOf(e)' /\ ~texts'[t].removed /\ texts'[t].text = s
      BY <1>1, <1>2, <1>6, <1>8
    <3> QED
      BY <3>1 DEF Usable
  <2> QED
    BY <2>1, <2>2, <2>3
<1>10. \A q \in Store!TextsAt(k) \ {texts[t].text} : ~Store!Alike(s, q)
  BY <1>6, <1>7, <1>8 DEF Store!Alike
<1>11. Store!UpdateText(k, texts[t].text, s)
  BY <1>8, <1>9, <1>10 DEF Store!UpdateText
<1> QED
  BY <1>3, <1>8, <1>11


-----------------------------------------------------------------------------
(* The operations on many rows.                                            *)

\* The shelf and the bin at the key of a row, and nowhere else.
LEMMA AtRows ==
    ASSUME KeysUnique
    PROVE  /\ \A e \in DOMAIN entries :
                  /\ Key(e) \in DOMAIN Shelf <=> ~entries[e].removed
                  /\ Key(e) \in DOMAIN Bin <=> entries[e].marker # NoMarker
                  /\ ~entries[e].removed => Shelf[Key(e)] = Usable(e)
                  /\ entries[e].marker # NoMarker =>
                         Bin[Key(e)] = [by |-> entries[e].marker, texts |-> Kept(e)]
           /\ \A k \in DOMAIN Shelf : \E e \in DOMAIN entries : Key(e) = k
           /\ \A k \in DOMAIN Bin : \E e \in DOMAIN entries : Key(e) = k
<1>1. \A e, f \in DOMAIN entries : Key(e) = Key(f) => e = f
  BY DEF KeysUnique
<1>2. \A e : /\ e \in Shelved <=> e \in DOMAIN entries /\ ~entries[e].removed
             /\ e \in Binned <=> e \in DOMAIN entries /\ entries[e].marker # NoMarker
  BY DEF Shelved, Binned
<1> QED
  BY <1>1, <1>2, ShelfIs, BinIs

LEMMA AtRowsNext ==
    ASSUME KeysUnique'
    PROVE  /\ \A e \in DOMAIN entries' :
                  /\ Key(e)' \in DOMAIN Shelf' <=> ~entries'[e].removed
                  /\ Key(e)' \in DOMAIN Bin' <=> entries'[e].marker # NoMarker
                  /\ ~entries'[e].removed => Shelf'[Key(e)'] = Usable(e)'
                  /\ entries'[e].marker # NoMarker =>
                         Bin'[Key(e)'] = [by |-> entries'[e].marker, texts |-> Kept(e)']
           /\ \A k \in DOMAIN Shelf' : \E e \in DOMAIN entries' : Key(e)' = k
           /\ \A k \in DOMAIN Bin' : \E e \in DOMAIN entries' : Key(e)' = k
<1>1. \A e, f \in DOMAIN entries' : Key(e)' = Key(f)' => e = f
  BY DEF KeysUnique
<1>2. \A e : /\ e \in Shelved' <=> e \in DOMAIN entries' /\ ~entries'[e].removed
             /\ e \in Binned' <=> e \in DOMAIN entries' /\ entries'[e].marker # NoMarker
  BY DEF Shelved, Binned
<1> QED
  BY <1>1, <1>2, ShelfBecomes, BinBecomes

\* The two are compared row by row; most operations leave the rows their keys.
LEMMA ShelfByNewRows ==
    ASSUME KeysUnique', NEW f, f = [k \in DOMAIN f |-> f[k]],
           \A k \in DOMAIN f : \E e \in DOMAIN entries' : Key(e)' = k,
           \A e \in DOMAIN entries' :
               /\ Key(e)' \in DOMAIN f <=> ~entries'[e].removed
               /\ ~entries'[e].removed => f[Key(e)'] = Usable(e)'
    PROVE  Shelf' = f
<1>1. Shelf' = [k \in DOMAIN Shelf' |-> Shelf'[k]]
  BY ShelfBecomes
<1>2. \A k : k \in DOMAIN Shelf' <=> k \in DOMAIN f
  <2>1. ASSUME NEW k \in DOMAIN Shelf' PROVE k \in DOMAIN f
    <3>1. PICK e \in DOMAIN entries' : Key(e)' = k
      BY AtRowsNext
    <3> QED
      BY <3>1, AtRowsNext
  <2>2. ASSUME NEW k \in DOMAIN f PROVE k \in DOMAIN Shelf'
    <3>1. PICK e \in DOMAIN entries' : Key(e)' = k
      OBVIOUS
    <3> QED
      BY <3>1, AtRowsNext
  <2> QED
    BY <2>1, <2>2
<1>3. DOMAIN Shelf' = DOMAIN f
  BY <1>2
<1>4. ASSUME NEW k \in DOMAIN f PROVE Shelf'[k] = f[k]
  <2>1. PICK e \in DOMAIN entries' : Key(e)' = k
    OBVIOUS
  <2> QED
    BY <2>1, AtRowsNext
<1> QED
  BY <1>1, <1>3, <1>4, SameFunction

LEMMA ShelfByRows ==
    ASSUME KeysUnique, KeysUnique', DOMAIN entries' = DOMAIN entries,
           \A e \in DOMAIN entries : Key(e)' = Key(e),
           NEW f, f = [k \in DOMAIN f |-> f[k]],
           \A k \in DOMAIN f : \E e \in DOMAIN entries : Key(e) = k,
           \A e \in DOMAIN entries :
               /\ Key(e) \in DOMAIN f <=> ~entries'[e].removed
               /\ ~entries'[e].removed => f[Key(e)] = Usable(e)'
    PROVE  Shelf' = f
<1>1. /\ \A k \in DOMAIN f : \E e \in DOMAIN entries' : Key(e)' = k
      /\ \A e \in DOMAIN entries' :
             /\ Key(e)' \in DOMAIN f <=> ~entries'[e].removed
             /\ ~entries'[e].removed => f[Key(e)'] = Usable(e)'
  OBVIOUS
<1> QED
  BY <1>1, ShelfByNewRows

LEMMA BinByNewRows ==
    ASSUME KeysUnique', NEW f, f = [k \in DOMAIN f |-> f[k]],
           \A k \in DOMAIN f : \E e \in DOMAIN entries' : Key(e)' = k,
           \A e \in DOMAIN entries' :
               /\ Key(e)' \in DOMAIN f <=> entries'[e].marker # NoMarker
               /\ entries'[e].marker # NoMarker =>
                      f[Key(e)'] = [by |-> entries'[e].marker, texts |-> Kept(e)']
    PROVE  Bin' = f
<1>1. Bin' = [k \in DOMAIN Bin' |-> Bin'[k]]
  BY BinBecomes
<1>2. \A k : k \in DOMAIN Bin' <=> k \in DOMAIN f
  <2>1. ASSUME NEW k \in DOMAIN Bin' PROVE k \in DOMAIN f
    <3>1. PICK e \in DOMAIN entries' : Key(e)' = k
      BY AtRowsNext
    <3> QED
      BY <3>1, AtRowsNext
  <2>2. ASSUME NEW k \in DOMAIN f PROVE k \in DOMAIN Bin'
    <3>1. PICK e \in DOMAIN entries' : Key(e)' = k
      OBVIOUS
    <3> QED
      BY <3>1, AtRowsNext
  <2> QED
    BY <2>1, <2>2
<1>3. DOMAIN Bin' = DOMAIN f
  BY <1>2
<1>4. ASSUME NEW k \in DOMAIN f PROVE Bin'[k] = f[k]
  <2>1. PICK e \in DOMAIN entries' : Key(e)' = k
    OBVIOUS
  <2> QED
    BY <2>1, AtRowsNext
<1> QED
  BY <1>1, <1>3, <1>4, SameFunction

LEMMA BinByRows ==
    ASSUME KeysUnique, KeysUnique', DOMAIN entries' = DOMAIN entries,
           \A e \in DOMAIN entries : Key(e)' = Key(e),
           NEW f, f = [k \in DOMAIN f |-> f[k]],
           \A k \in DOMAIN f : \E e \in DOMAIN entries : Key(e) = k,
           \A e \in DOMAIN entries :
               /\ Key(e) \in DOMAIN f <=> entries'[e].marker # NoMarker
               /\ entries'[e].marker # NoMarker =>
                      f[Key(e)] = [by |-> entries'[e].marker, texts |-> Kept(e)']
    PROVE  Bin' = f
<1>1. /\ \A k \in DOMAIN f : \E e \in DOMAIN entries' : Key(e)' = k
      /\ \A e \in DOMAIN entries' :
             /\ Key(e)' \in DOMAIN f <=> entries'[e].marker # NoMarker
             /\ entries'[e].marker # NoMarker =>
                    f[Key(e)'] = [by |-> entries'[e].marker, texts |-> Kept(e)']
  OBVIOUS
<1> QED
  BY <1>1, BinByNewRows


\* What softDeleteWithTexts does to each row and text.
LEMMA SoftDeleteRows ==
    ASSUME StoreInv, NEW ids \in SUBSET (DOMAIN entries), SoftDelete(ids), NEW id, id = removals + 1
    PROVE  /\ removals' = id /\ id # NoMarker
           /\ DOMAIN entries' = DOMAIN entries /\ DOMAIN texts' = DOMAIN texts
           /\ \A e \in DOMAIN entries :
                  /\ entries'[e].name = entries[e].name /\ entries'[e].variant = entries[e].variant
                  /\ e \in ids => entries'[e].removed /\ entries'[e].marker = id
                  /\ e \notin ids => entries'[e] = entries[e]
           /\ \A t \in DOMAIN texts :
                  /\ texts'[t].entry = texts[t].entry /\ texts'[t].text = texts[t].text
                  /\ texts[t].entry \in ids /\ ~texts[t].removed =>
                         texts'[t].removed /\ texts'[t].marker = id
                  /\ ~(texts[t].entry \in ids /\ ~texts[t].removed) => texts'[t] = texts[t]
<1> DEFINE marked == {t \in UNION {TextsOf(e) : e \in ids} : ~texts[t].removed}
<1>1. removals' = id /\ id # NoMarker
  <2>1. removals \in Nat
    BY StoreTypes
  <2>2. removals' = id
    BY DEF SoftDelete
  <2> QED
    BY <2>1, <2>2 DEF NoMarker
<1>2. /\ texts' = [t \in DOMAIN texts |->
                      IF t \in marked THEN [texts[t] EXCEPT !.removed = TRUE, !.marker = id]
                                      ELSE texts[t]]
      /\ entries' = [e \in DOMAIN entries |->
                        IF e \in ids THEN [entries[e] EXCEPT !.removed = TRUE, !.marker = id]
                                     ELSE entries[e]]
  BY DEF SoftDelete
<1>3. \A t \in DOMAIN texts : t \in marked <=> texts[t].entry \in ids /\ ~texts[t].removed
  BY DEF TextsOf
<1> HIDE DEF marked
<1>4. \A e \in DOMAIN entries :
          /\ entries'[e].name = entries[e].name /\ entries'[e].variant = entries[e].variant
          /\ e \in ids => entries'[e].removed /\ entries'[e].marker = id
          /\ e \notin ids => entries'[e] = entries[e]
  BY <1>2, StoreTypes DEF Entry
<1>5. ASSUME NEW t \in DOMAIN texts
      PROVE  /\ texts'[t].entry = texts[t].entry /\ texts'[t].text = texts[t].text
             /\ t \in marked => texts'[t].removed /\ texts'[t].marker = id
             /\ t \notin marked => texts'[t] = texts[t]
  BY <1>2, StoreTypes DEF Text
<1>6. DOMAIN entries' = DOMAIN entries /\ DOMAIN texts' = DOMAIN texts
  BY <1>2
<1> QED
  BY <1>1, <1>3, <1>4, <1>5, <1>6

\* removeCommand and removeCommandVariant: the store's Remove.
LEMMA SoftDeleteStores ==
    ASSUME StoreInv, NEW ids \in SUBSET Shelved, ids # {}, SoftDelete(ids),
           NEW ks, ks = {Key(e) : e \in ids}
    PROVE  StoreInv' /\ Store!Remove(ks)
<1> PICK id : id = removals + 1
  OBVIOUS
<1>0. ids \in SUBSET (DOMAIN entries) /\ \A e \in ids : ~entries[e].removed
  BY DEF Shelved
<1>1. /\ removals' = id /\ id # NoMarker
      /\ DOMAIN entries' = DOMAIN entries /\ DOMAIN texts' = DOMAIN texts
      /\ \A e \in DOMAIN entries :
             /\ entries'[e].name = entries[e].name /\ entries'[e].variant = entries[e].variant
             /\ e \in ids => entries'[e].removed /\ entries'[e].marker = id
             /\ e \notin ids => entries'[e] = entries[e]
      /\ \A t \in DOMAIN texts :
             /\ texts'[t].entry = texts[t].entry /\ texts'[t].text = texts[t].text
             /\ texts[t].entry \in ids /\ ~texts[t].removed =>
                    texts'[t].removed /\ texts'[t].marker = id
             /\ ~(texts[t].entry \in ids /\ ~texts[t].removed) => texts'[t] = texts[t]
  BY <1>0, SoftDeleteRows
<1>2. \A e \in DOMAIN entries : Key(e)' = Key(e)
  BY <1>1 DEF Key
<1>3. IInv'
  BY <1>0, SoftDeleteIInv DEF StoreInv
<1>4. StoreInv'
  BY <1>1, <1>2, <1>3, SameNames
<1>5. \A e : TextsOf(e)' = TextsOf(e)
  BY <1>1 DEF TextsOf
<1>6. ASSUME NEW e \in DOMAIN entries, e \notin ids
      PROVE  Usable(e)' = Usable(e) /\ Kept(e)' = Kept(e)
  <2>1. \A t \in TextsOf(e) : texts'[t] = texts[t]
    BY <1>1, <1>6 DEF TextsOf
  <2>2. entries'[e] = entries[e]
    BY <1>1, <1>6
  <2> QED
    BY <1>5, <2>1, <2>2 DEF Usable, Kept
<1>7. ASSUME NEW e \in ids PROVE Kept(e)' = Usable(e)
  <2>1. \A t \in TextsOf(e) :
            /\ texts'[t].text = texts[t].text
            /\ texts'[t].removed /\ texts'[t].marker = id <=> ~texts[t].removed
    BY <1>1, StoreTypes DEF TextsOf
  <2>2. entries'[e].marker = id
    BY <1>0, <1>1
  <2>3. TextsOf(e)' = TextsOf(e)
    BY <1>5
  <2> QED
    BY <2>1, <2>2, <2>3 DEF Usable, Kept
<1>8. KeysUnique /\ KeysUnique' /\ \A e \in DOMAIN entries : Key(e) \in ks <=> e \in ids
  BY <1>0, <1>4 DEF StoreInv, KeysUnique
<1>9. Shelf' = Store!Without(Shelf, ks)
  <2> DEFINE S == Store!Without(Shelf, ks)
  <2>1. /\ S = [k \in DOMAIN S |-> S[k]] /\ DOMAIN S = DOMAIN Shelf \ ks
        /\ \A k \in DOMAIN S : S[k] = Shelf[k]
    BY DEF Store!Without
  <2> HIDE DEF S
  <2>2. \A k \in DOMAIN S : \E e \in DOMAIN entries : Key(e) = k
    BY <1>8, <2>1, AtRows
  <2>3. ASSUME NEW e \in DOMAIN entries
        PROVE  /\ Key(e) \in DOMAIN S <=> ~entries'[e].removed
               /\ ~entries'[e].removed => S[Key(e)] = Usable(e)'
    <3>1. /\ Key(e) \in DOMAIN Shelf <=> ~entries[e].removed
          /\ ~entries[e].removed => Shelf[Key(e)] = Usable(e)
      BY <1>8, AtRows
    <3>2. /\ entries'[e].removed <=> entries[e].removed \/ e \in ids
          /\ e \notin ids => Usable(e)' = Usable(e)
      BY <1>1, <1>6
    <3> QED
      BY <1>8, <2>1, <3>1, <3>2
  <2>4. Shelf' = S
    BY <1>1, <1>2, <1>8, <2>1, <2>2, <2>3, ShelfByRows
  <2> QED
    BY <2>4 DEF S
<1>10. Bin' = Store!With(Bin, [k \in ks |-> [by |-> removals + 1, texts |-> Shelf[k]]])
  <2> DEFINE G == [k \in ks |-> [by |-> removals + 1, texts |-> Shelf[k]]]
             B == Store!With(Bin, G)
  <2>1. /\ B = [k \in DOMAIN B |-> B[k]] /\ DOMAIN B = DOMAIN Bin \cup ks
        /\ \A k \in ks : B[k] = [by |-> id, texts |-> Shelf[k]]
        /\ \A k \in DOMAIN Bin \ ks : B[k] = Bin[k]
    BY DEF Store!With
  <2> HIDE DEF B
  <2>2. \A k \in DOMAIN B : \E e \in DOMAIN entries : Key(e) = k
    BY <1>0, <1>8, <2>1, AtRows
  <2>3. ASSUME NEW e \in DOMAIN entries
        PROVE  /\ Key(e) \in DOMAIN B <=> entries'[e].marker # NoMarker
               /\ entries'[e].marker # NoMarker =>
                      B[Key(e)] = [by |-> entries'[e].marker, texts |-> Kept(e)']
    <3>1. CASE e \in ids
      <4>1. Key(e) \in ks /\ entries'[e].marker = id /\ Kept(e)' = Usable(e)
        BY <1>1, <1>7, <1>8, <3>1
      <4>2. Shelf[Key(e)] = Usable(e)
        BY <1>0, <1>8, <3>1, AtRows
      <4> QED
        BY <1>1, <2>1, <4>1, <4>2
    <3>2. CASE e \notin ids
      <4>1. Key(e) \notin ks /\ entries'[e] = entries[e] /\ Kept(e)' = Kept(e)
        BY <1>1, <1>6, <1>8, <3>2
      <4>2. /\ Key(e) \in DOMAIN Bin <=> entries[e].marker # NoMarker
            /\ entries[e].marker # NoMarker =>
                   Bin[Key(e)] = [by |-> entries[e].marker, texts |-> Kept(e)]
        BY <1>8, AtRows
      <4> QED
        BY <2>1, <4>1, <4>2
    <3> QED
      BY <3>1, <3>2
  <2>4. Bin' = B
    BY <1>1, <1>2, <1>8, <2>1, <2>2, <2>3, BinByRows
  <2> QED
    BY <2>4 DEF B
<1>11. ks # {}
  OBVIOUS
<1> QED
  BY <1>1, <1>4, <1>9, <1>10, <1>11 DEF Store!Remove


\* restoreDeletion of rows that bear the id: the store's Restore.
LEMMA RestoreDeletionStores ==
    ASSUME StoreInv, NEW id \in Marker, id # NoMarker,
           NEW ids \in SUBSET {e \in DOMAIN entries : entries[e].marker = id}, ids # {},
           RestoreDeletion(id, ids), NEW ks, ks = {Key(e) : e \in ids}
    PROVE  StoreInv' /\ Store!Restore(ks)
<1>0. \A e \in ids : e \in DOMAIN entries /\ entries[e].marker = id
  OBVIOUS
<1>1. IInv' /\ removals' = removals
  BY RestoreDeletionIInv DEF StoreInv, RestoreDeletion
<1>2. /\ DOMAIN entries' = DOMAIN entries /\ DOMAIN texts' = DOMAIN texts
      /\ \A e \in DOMAIN entries :
             /\ entries'[e].name = entries[e].name /\ entries'[e].variant = entries[e].variant
             /\ e \in ids => ~entries'[e].removed /\ entries'[e].marker = NoMarker
             /\ e \notin ids => entries'[e] = entries[e]
  BY <1>0, StoreTypes DEF RestoreDeletion, Entry
<1>3. \A t \in DOMAIN texts :
          /\ texts'[t].entry = texts[t].entry /\ texts'[t].text = texts[t].text
          /\ texts[t].entry \in ids /\ texts[t].marker = id => ~texts'[t].removed
          /\ ~(texts[t].entry \in ids /\ texts[t].marker = id) => texts'[t] = texts[t]
  BY StoreTypes DEF RestoreDeletion, Text
<1>4. \A e \in DOMAIN entries : Key(e)' = Key(e)
  BY <1>2 DEF Key
<1>5. StoreInv'
  BY <1>1, <1>2, <1>3, <1>4, SameNames
<1>6. \A e : TextsOf(e)' = TextsOf(e)
  BY <1>2, <1>3 DEF TextsOf
<1>7. ASSUME NEW e \in DOMAIN entries, e \notin ids
      PROVE  Usable(e)' = Usable(e) /\ Kept(e)' = Kept(e)
  <2>1. \A t \in TextsOf(e) : texts'[t] = texts[t]
    BY <1>3, <1>7 DEF TextsOf
  <2>2. entries'[e] = entries[e]
    BY <1>2, <1>7
  <2> QED
    BY <1>6, <2>1, <2>2 DEF Usable, Kept
<1>8. ASSUME NEW e \in ids PROVE Usable(e)' = Usable(e) \cup Kept(e)
  <2>1. \A t \in TextsOf(e) :
            /\ texts'[t].text = texts[t].text
            /\ ~texts'[t].removed <=> ~texts[t].removed \/ texts[t].marker = id
            /\ texts[t].marker = id => texts[t].removed
    BY <1>3, StoreTypes DEF TextsOf
  <2>2. entries[e].marker = id
    BY <1>0
  <2> QED
    BY <1>6, <2>1, <2>2 DEF Usable, Kept
<1>9. KeysUnique /\ KeysUnique' /\ \A e \in DOMAIN entries : Key(e) \in ks <=> e \in ids
  BY <1>0, <1>5 DEF StoreInv, KeysUnique
<1>10. ASSUME NEW e \in ids
       PROVE  Store!TextsAt(Key(e)) = Usable(e) /\ Bin[Key(e)].texts = Kept(e)
  <2>1. Bin[Key(e)] = [by |-> entries[e].marker, texts |-> Kept(e)]
    BY <1>0, <1>9, AtRows
  <2>2. entries[e].removed => Usable(e) = {}
    BY <1>0, StoreTypes DEF Usable, TextsOf
  <2>3. Key(e) \in DOMAIN Shelf <=> ~entries[e].removed
    BY <1>0, <1>9, AtRows
  <2>4. ~entries[e].removed => Shelf[Key(e)] = Usable(e)
    BY <1>0, <1>9, AtRows
  <2> QED
    BY <2>1, <2>2, <2>3, <2>4 DEF Store!TextsAt
<1>11. Bin' = Store!Without(Bin, ks)
  <2> DEFINE B == Store!Without(Bin, ks)
  <2>1. /\ B = [k \in DOMAIN B |-> B[k]] /\ DOMAIN B = DOMAIN Bin \ ks
        /\ \A k \in DOMAIN B : B[k] = Bin[k]
    BY DEF Store!Without
  <2> HIDE DEF B
  <2>2. \A k \in DOMAIN B : \E e \in DOMAIN entries : Key(e) = k
    BY <1>9, <2>1, AtRows
  <2>3. ASSUME NEW e \in DOMAIN entries
        PROVE  /\ Key(e) \in DOMAIN B <=> entries'[e].marker # NoMarker
               /\ entries'[e].marker # NoMarker =>
                      B[Key(e)] = [by |-> entries'[e].marker, texts |-> Kept(e)']
    <3>1. CASE e \in ids
      BY <1>2, <1>9, <2>1, <3>1
    <3>2. CASE e \notin ids
      <4>1. Key(e) \notin ks /\ entries'[e] = entries[e] /\ Kept(e)' = Kept(e)
        BY <1>2, <1>7, <1>9, <3>2
      <4>2. /\ Key(e) \in DOMAIN Bin <=> entries[e].marker # NoMarker
            /\ entries[e].marker # NoMarker =>
                   Bin[Key(e)] = [by |-> entries[e].marker, texts |-> Kept(e)]
        BY <1>9, AtRows
      <4> QED
        BY <2>1, <4>1, <4>2
    <3> QED
      BY <3>1, <3>2
  <2>4. Bin' = B
    BY <1>2, <1>4, <1>9, <2>1, <2>2, <2>3, BinByRows
  <2> QED
    BY <2>4 DEF B
<1>12. Shelf' = Store!With(Shelf, [k \in ks |-> Store!TextsAt(k) \cup Bin[k].texts])
  <2> DEFINE G == [k \in ks |-> Store!TextsAt(k) \cup Bin[k].texts]
             S == Store!With(Shelf, G)
  <2>1. /\ S = [k \in DOMAIN S |-> S[k]] /\ DOMAIN S = DOMAIN Shelf \cup ks
        /\ \A k \in ks : S[k] = Store!TextsAt(k) \cup Bin[k].texts
        /\ \A k \in DOMAIN Shelf \ ks : S[k] = Shelf[k]
    BY DEF Store!With
  <2> HIDE DEF S
  <2>2. \A k \in DOMAIN S : \E e \in DOMAIN entries : Key(e) = k
    BY <1>0, <1>9, <2>1, AtRows
  <2>3. ASSUME NEW e \in DOMAIN entries
        PROVE  /\ Key(e) \in DOMAIN S <=> ~entries'[e].removed
               /\ ~entries'[e].removed => S[Key(e)] = Usable(e)'
    <3>1. CASE e \in ids
      <4>1. Key(e) \in ks /\ ~entries'[e].removed
        BY <1>2, <1>9, <3>1
      <4>2. S[Key(e)] = Store!TextsAt(Key(e)) \cup Bin[Key(e)].texts
        BY <2>1, <4>1
      <4>3. S[Key(e)] = Usable(e)'
        BY <1>8, <1>10, <3>1, <4>2
      <4> QED
        BY <2>1, <4>1, <4>3
    <3>2. CASE e \notin ids
      <4>1. Key(e) \notin ks /\ entries'[e] = entries[e] /\ Usable(e)' = Usable(e)
        BY <1>2, <1>7, <1>9, <3>2
      <4>2. /\ Key(e) \in DOMAIN Shelf <=> ~entries[e].removed
            /\ ~entries[e].removed => Shelf[Key(e)] = Usable(e)
        BY <1>9, AtRows
      <4> QED
        BY <2>1, <4>1, <4>2
    <3> QED
      BY <3>1, <3>2
  <2>4. Shelf' = S
    BY <1>2, <1>4, <1>9, <2>1, <2>2, <2>3, ShelfByRows
  <2> QED
    BY <2>4 DEF S
<1>13. ks # {}
  OBVIOUS
<1> QED
  BY <1>1, <1>5, <1>11, <1>12, <1>13 DEF Store!Restore


\* The places of a name.
LEMMA OfName ==
    ASSUME StoreInv, NEW n
    PROVE  /\ Store!Of(n, Shelf) = {Key(e) : e \in Active(n)}
           /\ \A e \in DOMAIN entries :
                  /\ Key(e) \in Store!Of(n, Bin) <=>
                         entries[e].name = n /\ entries[e].marker # NoMarker
                  /\ Key(e) \in Store!Gone <=> entries[e].removed
           /\ \A k \in Store!Of(n, Bin) : \E e \in DOMAIN entries : Key(e) = k
           /\ Active(n) \in SUBSET Shelved
<1>1. KeysUnique
  BY DEF StoreInv
<1>2. \A e : Key(e)[1] = entries[e].name
  BY DEF Key
<1>3. Active(n) \in SUBSET Shelved
  BY DEF Active, Shelved
<1>4. Store!Of(n, Shelf) = {Key(e) : e \in Active(n)}
  BY <1>1, <1>2, AtRows DEF Active, Store!Of
<1>5. ASSUME NEW e \in DOMAIN entries
      PROVE  /\ Key(e) \in Store!Of(n, Bin) <=>
                    entries[e].name = n /\ entries[e].marker # NoMarker
             /\ Key(e) \in Store!Gone <=> entries[e].removed
  <2>1. /\ Key(e) \in DOMAIN Bin <=> entries[e].marker # NoMarker
        /\ Key(e) \in DOMAIN Shelf <=> ~entries[e].removed
    BY <1>1, AtRows
  <2>2. entries[e].removed => entries[e].marker # NoMarker
    BY StoreTypes
  <2> QED
    BY <1>2, <2>1, <2>2 DEF Store!Of, Store!Gone
<1>6. \A k \in Store!Of(n, Bin) : \E e \in DOMAIN entries : Key(e) = k
  BY <1>1, AtRows DEF Store!Of
<1> QED
  BY <1>3, <1>4, <1>5, <1>6

LEMMA RestoreCommandStores ==
    ASSUME StoreInv, NEW n, RestoreCommand(n)
    PROVE  StoreInv' /\ Store!Restore(Store!LastRemoved(n))
<1> DEFINE removed == {e \in DOMAIN entries : entries[e].name = n /\ entries[e].removed}
<1>1. PICK r \in removed :
          /\ entries[r].marker # NoMarker
          /\ \A e \in removed : entries[e].marker <= entries[r].marker
          /\ RestoreDeletion(entries[r].marker,
                 {e \in DOMAIN entries : entries[e].name = n /\ entries[e].marker = entries[r].marker})
  BY DEF RestoreCommand
<1> PICK last, ids :
        /\ last = entries[r].marker
        /\ ids = {e \in DOMAIN entries : entries[e].name = n /\ entries[e].marker = last}
  OBVIOUS
<1> PICK ks : ks = {Key(e) : e \in ids}
  OBVIOUS
<1>2. /\ r \in DOMAIN entries /\ entries[r].name = n /\ entries[r].removed /\ r \in ids
      /\ last \in Marker /\ last # NoMarker /\ last \in Nat
  BY <1>1, StoreTypes DEF Entry
<1>3. RestoreDeletion(last, ids)
  BY <1>1
<1>4. \A e \in DOMAIN entries : entries[e].marker # NoMarker => Bin[Key(e)].by = entries[e].marker
  <2> SUFFICES ASSUME NEW e \in DOMAIN entries, entries[e].marker # NoMarker
               PROVE  Bin[Key(e)].by = entries[e].marker
    OBVIOUS
  <2>1. Bin[Key(e)] = [by |-> entries[e].marker, texts |-> Kept(e)]
    BY AtRows DEF StoreInv
  <2> QED
    BY <2>1
<1>5. ASSUME NEW k \in ks PROVE k \in Store!LastRemoved(n)
  <2>1. PICK e \in ids : k = Key(e)
    OBVIOUS
  <2> PICK g : g = Key(r)
    OBVIOUS
  <2>2. e \in DOMAIN entries /\ k \in Store!Of(n, Bin) /\ Bin[k].by = last
    BY <1>2, <1>4, <2>1, OfName
  <2>3. g \in Store!Of(n, Bin) \cap Store!Gone /\ Bin[g].by = last
    BY <1>2, <1>4, OfName
  <2>4. ASSUME NEW j \in Store!Of(n, Bin) \cap Store!Gone PROVE Bin[j].by <= Bin[g].by
    <3>1. PICK f \in DOMAIN entries : Key(f) = j
      BY OfName
    <3>2. entries[f].name = n /\ entries[f].removed /\ entries[f].marker # NoMarker
      BY <3>1, OfName
    <3>3. f \in removed /\ entries[f].marker <= last
      BY <1>1, <3>2
    <3> QED
      BY <1>4, <2>3, <3>1, <3>2, <3>3
  <2> QED
    BY <2>2, <2>3, <2>4 DEF Store!LastRemoved
<1>6. ASSUME NEW k \in Store!LastRemoved(n) PROVE k \in ks
  <2>1. k \in Store!Of(n, Bin)
    BY DEF Store!LastRemoved
  <2>2. PICK g \in Store!Of(n, Bin) \cap Store!Gone :
            /\ Bin[k].by = Bin[g].by
            /\ \A j \in Store!Of(n, Bin) \cap Store!Gone : Bin[j].by <= Bin[g].by
    BY DEF Store!LastRemoved
  <2>3. PICK e \in DOMAIN entries : Key(e) = k
    BY <2>1, OfName
  <2>4. PICK f \in DOMAIN entries : Key(f) = g
    BY <2>2, OfName
  <2>5. entries[e].name = n /\ entries[e].marker # NoMarker /\ Bin[k].by = entries[e].marker
    BY <1>4, <2>1, <2>3, OfName
  <2>6. /\ entries[f].name = n /\ entries[f].removed /\ entries[f].marker # NoMarker
        /\ Bin[g].by = entries[f].marker /\ entries[f].marker \in Nat
    BY <1>4, <2>2, <2>4, OfName, StoreTypes
  <2>7. entries[f].marker <= last
    BY <1>1, <2>6
  <2>8. last <= entries[f].marker
    <3>1. Key(r) \in Store!Of(n, Bin) \cap Store!Gone /\ Bin[Key(r)].by = last
      BY <1>2, <1>4, OfName
    <3> QED
      BY <2>2, <2>6, <3>1
  <2>9. entries[e].marker = last
    <3>1. entries[e].marker = entries[f].marker
      BY <2>2, <2>5, <2>6
    <3>2. entries[f].marker = last
      BY <1>2, <2>6, <2>7, <2>8
    <3> QED
      BY <3>1, <3>2
  <2> QED
    BY <2>3, <2>5, <2>9
<1>7. ks = Store!LastRemoved(n)
  BY <1>5, <1>6
<1>8. ids \in SUBSET {e \in DOMAIN entries : entries[e].marker = last} /\ ids # {}
  BY <1>2
<1>9. StoreInv' /\ Store!Restore(ks)
  BY <1>2, <1>3, <1>8, RestoreDeletionStores
<1> QED
  BY <1>7, <1>9

LEMMA RestoreVariantStores ==
    ASSUME StoreInv, NEW n, NEW v, RestoreCommandVariant(n, v), NEW k, k = <<n, v>>
    PROVE  StoreInv' /\ k \in Store!Gone /\ Store!Restore({k})
<1>1. PICK e \in Found(n, v) :
          /\ entries[e].removed /\ entries[e].marker # NoMarker
          /\ RestoreDeletion(entries[e].marker, {e})
  BY DEF RestoreCommandVariant
<1>2. e \in DOMAIN entries /\ Key(e) = k /\ entries[e].marker \in Marker
  BY StoreTypes DEF Found, Key, Entry
<1> PICK id, ids, ks : id = entries[e].marker /\ ids = {e} /\ ks = {k}
  OBVIOUS
<1>3. /\ id \in Marker /\ id # NoMarker /\ RestoreDeletion(id, ids)
      /\ ids \in SUBSET {f \in DOMAIN entries : entries[f].marker = id} /\ ids # {}
      /\ ks = {Key(f) : f \in ids}
  BY <1>1, <1>2
<1>4. StoreInv' /\ Store!Restore(ks)
  BY <1>3, RestoreDeletionStores
<1>5. k \in Store!Gone
  BY <1>1, <1>2, OfName
<1> QED
  BY <1>4, <1>5

LEMMA RemoveStores ==
    ASSUME StoreInv, NEW n, RemoveCommand(n)
    PROVE  StoreInv' /\ Store!Remove(Store!Of(n, Shelf))
<1> PICK ids, ks : ids = Active(n) /\ ks = {Key(e) : e \in ids}
  OBVIOUS
<1>1. ks = Store!Of(n, Shelf) /\ ids \in SUBSET Shelved
  BY OfName
<1>2. ids # {} /\ SoftDelete(ids)
  BY DEF RemoveCommand
<1>3. StoreInv' /\ Store!Remove(ks)
  BY <1>1, <1>2, SoftDeleteStores
<1> QED
  BY <1>1, <1>3

\* At most one row is the active one of a name and variant.
LEMMA OneActive ==
    ASSUME StoreInv, NEW n, NEW v, NEW e \in ActiveVariant(n, v), NEW k, k = <<n, v>>
    PROVE  /\ ActiveVariant(n, v) = {e} /\ e \in Shelved /\ e \in DOMAIN entries
           /\ Key(e) = k /\ k \in DOMAIN Shelf /\ entries[e].name = n /\ entries[e].variant = v
<1>1. /\ e \in Shelved /\ e \in DOMAIN entries /\ Key(e) = k
      /\ entries[e].name = n /\ entries[e].variant = v
  BY DEF ActiveVariant, Active, Found, Key, Shelved
<1>2. \A f \in ActiveVariant(n, v) : f \in DOMAIN entries /\ Key(f) = k
  BY DEF ActiveVariant, Active, Found, Key
<1>3. ActiveVariant(n, v) = {e}
  BY <1>1, <1>2 DEF StoreInv, KeysUnique
<1>4. k \in DOMAIN Shelf
  BY <1>1, ShelfIs DEF StoreInv
<1> QED
  BY <1>1, <1>3, <1>4

LEMMA RemoveVariantStores ==
    ASSUME StoreInv, NEW n, NEW v, RemoveCommandVariant(n, v), NEW k, k = <<n, v>>
    PROVE  StoreInv' /\ k \in DOMAIN Shelf /\ Store!Remove({k})
<1>1. PICK e : e \in ActiveVariant(n, v)
  BY DEF RemoveCommandVariant
<1> PICK ids, ks : ids = ActiveVariant(n, v) /\ ks = {k}
  OBVIOUS
<1>2. ids = {e} /\ e \in Shelved /\ Key(e) = k /\ k \in DOMAIN Shelf
  BY <1>1, OneActive
<1>3. ids \in SUBSET Shelved /\ ids # {} /\ SoftDelete(ids) /\ ks = {Key(f) : f \in ids}
  BY <1>2 DEF RemoveCommandVariant
<1>4. StoreInv' /\ Store!Remove(ks)
  BY <1>3, SoftDeleteStores
<1> QED
  BY <1>2, <1>4


\* A function whose places are moved.
IsMoved(M, f, to) ==
    /\ M = [p \in DOMAIN M |-> M[p]]
    /\ DOMAIN M = (DOMAIN f \ DOMAIN to) \cup {to[k] : k \in DOMAIN to \cap DOMAIN f}
    /\ \A k \in DOMAIN f \ DOMAIN to : M[k] = f[k]
    /\ \A k \in DOMAIN to \cap DOMAIN f : M[to[k]] = f[k]

LEMMA MovedIs ==
    ASSUME NEW f, NEW to, NEW M, M = Store!Moved(f, to),
           \A k, l \in DOMAIN to : to[k] = to[l] => k = l,
           \A k \in DOMAIN to : to[k] \notin DOMAIN f
    PROVE  IsMoved(M, f, to)
<1> DEFINE ks == DOMAIN to \cap DOMAIN f
           G == [p \in {to[k] : k \in ks} |-> f[CHOOSE k \in ks : to[k] = p]]
           W == Store!Without(f, ks)
<1>1. M = Store!With(W, G)
  BY DEF Store!Moved
<1>2. DOMAIN W = DOMAIN f \ DOMAIN to /\ \A k \in DOMAIN W : W[k] = f[k]
  BY DEF Store!Without
<1>3. DOMAIN G = {to[k] : k \in ks}
  OBVIOUS
<1>4. ASSUME NEW k \in ks PROVE G[to[k]] = f[k] /\ to[k] \in DOMAIN G
  <2>1. \A l \in ks : to[l] = to[k] => l = k
    OBVIOUS
  <2>2. (CHOOSE l \in ks : to[l] = to[k]) = k
    BY <2>1
  <2> QED
    BY <2>2
<1> HIDE DEF W, G
<1>5. /\ M = [p \in DOMAIN M |-> M[p]] /\ DOMAIN M = DOMAIN W \cup DOMAIN G
      /\ \A p \in DOMAIN M : M[p] = IF p \in DOMAIN G THEN G[p] ELSE W[p]
  BY <1>1 DEF Store!With
<1>6. \A k \in DOMAIN f : k \notin DOMAIN G
  BY <1>3
<1> QED
  BY <1>2, <1>3, <1>4, <1>5, <1>6 DEF IsMoved

\* Rows of the shelf are given keys that no row has.
LEMMA RenameStores ==
    ASSUME StoreInv, IInv', UNCHANGED <<texts, removals>>, DOMAIN entries' = DOMAIN entries,
           NEW ids \in SUBSET Shelved, ids # {},
           NEW to, DOMAIN to = {Key(e) : e \in ids},
           \A e \in ids : Key(e)' = to[Key(e)],
           \A e \in DOMAIN entries : e \notin ids => Key(e)' = Key(e),
           \A e \in DOMAIN entries : /\ entries'[e].removed = entries[e].removed
                                     /\ entries'[e].marker = entries[e].marker,
           \A e \in ids, f \in DOMAIN entries : to[Key(e)] # Key(f),
           \A e, f \in ids : to[Key(e)] = to[Key(f)] => e = f
    PROVE  StoreInv' /\ Store!Rename(to)
<1>1. \A e \in ids : e \in DOMAIN entries /\ ~entries[e].removed
  BY DEF Shelved
<1>2. KeysUnique /\ \A e \in DOMAIN entries : Key(e) \in DOMAIN to <=> e \in ids
  BY <1>1 DEF StoreInv, KeysUnique
<1>3. KeysUnique'
  <2> SUFFICES ASSUME NEW e \in DOMAIN entries, NEW f \in DOMAIN entries, Key(e)' = Key(f)'
               PROVE  e = f
    BY DEF KeysUnique
  <2>1. CASE e \in ids /\ f \in ids
    BY <2>1
  <2>2. CASE e \in ids /\ f \notin ids
    BY <2>2
  <2>3. CASE e \notin ids /\ f \in ids
    BY <2>3
  <2>4. CASE e \notin ids /\ f \notin ids
    BY <1>2, <2>4 DEF KeysUnique
  <2> QED
    BY <2>1, <2>2, <2>3, <2>4
<1>4. StoreInv'
  BY <1>3 DEF StoreInv, TextsUnique
<1>5. \A e \in DOMAIN entries : Usable(e)' = Usable(e) /\ Kept(e)' = Kept(e)
  <2>1. \A e : TextsOf(e)' = TextsOf(e)
    BY DEF TextsOf
  <2> QED
    BY <2>1 DEF Usable, Kept
<1>6. \A k, l \in DOMAIN to : to[k] = to[l] => k = l
  OBVIOUS
<1>7. \A k \in DOMAIN to : to[k] \notin DOMAIN Shelf /\ to[k] \notin DOMAIN Bin
  BY <1>2, AtRows
<1>8. Shelf' = Store!Moved(Shelf, to)
  <2> PICK M : M = Store!Moved(Shelf, to)
    OBVIOUS
  <2>1. /\ M = [p \in DOMAIN M |-> M[p]]
        /\ DOMAIN M = (DOMAIN Shelf \ DOMAIN to) \cup {to[k] : k \in DOMAIN to \cap DOMAIN Shelf}
        /\ \A k \in DOMAIN Shelf \ DOMAIN to : M[k] = Shelf[k]
        /\ \A k \in DOMAIN to \cap DOMAIN Shelf : M[to[k]] = Shelf[k]
    <3>1. IsMoved(M, Shelf, to)
      BY <1>6, <1>7, MovedIs
    <3> QED
      BY <3>1 DEF IsMoved
  <2>2. \A k \in DOMAIN M : \E e \in DOMAIN entries' : Key(e)' = k
    <3> SUFFICES ASSUME NEW k \in DOMAIN M PROVE \E e \in DOMAIN entries' : Key(e)' = k
      OBVIOUS
    <3>1. CASE k \in DOMAIN Shelf \ DOMAIN to
      BY <1>2, <3>1, AtRows
    <3>2. CASE k \in {to[l] : l \in DOMAIN to}
      BY <1>1, <3>2
    <3> QED
      BY <2>1, <3>1, <3>2
  <2>3. ASSUME NEW e \in DOMAIN entries
        PROVE  /\ Key(e)' \in DOMAIN M <=> ~entries'[e].removed
               /\ ~entries'[e].removed => M[Key(e)'] = Usable(e)'
    <3>1. /\ Key(e) \in DOMAIN Shelf <=> ~entries[e].removed
          /\ ~entries[e].removed => Shelf[Key(e)] = Usable(e)
      BY <1>2, AtRows
    <3>2. CASE e \in ids
      BY <1>1, <1>2, <1>5, <2>1, <3>1, <3>2
    <3>3. CASE e \notin ids
      <4>1. Key(e) \notin DOMAIN to /\ Key(e) \notin {to[k] : k \in DOMAIN to}
        BY <1>2, <3>3
      <4> QED
        BY <1>5, <2>1, <3>1, <3>3, <4>1
    <3> QED
      BY <3>2, <3>3
  <2> QED
    BY <1>3, <2>1, <2>2, <2>3, ShelfByNewRows
<1>9. Bin' = Store!Moved(Bin, to)
  <2> PICK M : M = Store!Moved(Bin, to)
    OBVIOUS
  <2>1. /\ M = [p \in DOMAIN M |-> M[p]]
        /\ DOMAIN M = (DOMAIN Bin \ DOMAIN to) \cup {to[k] : k \in DOMAIN to \cap DOMAIN Bin}
        /\ \A k \in DOMAIN Bin \ DOMAIN to : M[k] = Bin[k]
        /\ \A k \in DOMAIN to \cap DOMAIN Bin : M[to[k]] = Bin[k]
    <3>1. IsMoved(M, Bin, to)
      BY <1>6, <1>7, MovedIs
    <3> QED
      BY <3>1 DEF IsMoved
  <2>2. \A k \in DOMAIN M : \E e \in DOMAIN entries' : Key(e)' = k
    <3> SUFFICES ASSUME NEW k \in DOMAIN M PROVE \E e \in DOMAIN entries' : Key(e)' = k
      OBVIOUS
    <3>1. CASE k \in DOMAIN Bin \ DOMAIN to
      BY <1>2, <3>1, AtRows
    <3>2. CASE k \in {to[l] : l \in DOMAIN to}
      BY <1>1, <3>2
    <3> QED
      BY <2>1, <3>1, <3>2
  <2>3. ASSUME NEW e \in DOMAIN entries
        PROVE  /\ Key(e)' \in DOMAIN M <=> entries'[e].marker # NoMarker
               /\ entries'[e].marker # NoMarker =>
                      M[Key(e)'] = [by |-> entries'[e].marker, texts |-> Kept(e)']
    <3>1. /\ Key(e) \in DOMAIN Bin <=> entries[e].marker # NoMarker
          /\ entries[e].marker # NoMarker =>
                 Bin[Key(e)] = [by |-> entries[e].marker, texts |-> Kept(e)]
      BY <1>2, AtRows
    <3>2. CASE e \in ids
      <4>1. Key(e) \in DOMAIN to /\ Key(e)' = to[Key(e)]
        BY <1>2, <3>2
      <4>2. to[Key(e)] \in DOMAIN M <=> Key(e) \in DOMAIN Bin
        BY <1>6, <1>7, <2>1, <4>1
      <4>3. Key(e) \in DOMAIN Bin => M[to[Key(e)]] = Bin[Key(e)]
        BY <2>1, <4>1
      <4> QED
        BY <1>5, <3>1, <4>1, <4>2, <4>3
    <3>3. CASE e \notin ids
      <4>1. Key(e) \notin DOMAIN to /\ Key(e) \notin {to[k] : k \in DOMAIN to}
        BY <1>2, <3>3
      <4> QED
        BY <1>5, <2>1, <3>1, <3>3, <4>1
    <3> QED
      BY <3>2, <3>3
  <2> QED
    BY <1>3, <2>1, <2>2, <2>3, BinByNewRows
<1>10. DOMAIN to # {} /\ {to[k] : k \in DOMAIN to} \cap (DOMAIN Shelf \cup DOMAIN Bin) = {}
  BY <1>7
<1> QED
  BY <1>4, <1>8, <1>9, <1>10 DEF Store!Rename


LEMMA UpdateCommandStores ==
    ASSUME StoreInv, NEW n \in Names, NEW new \in Names, UpdateCommand(n, new)
    PROVE  StoreInv' /\ Store!Rename([k \in Store!Of(n, Shelf) |-> <<new, k[2]>>])
<1> PICK ids, to : ids = Active(n) /\ to = [k \in Store!Of(n, Shelf) |-> <<new, k[2]>>]
  OBVIOUS
<1>1. /\ n # new /\ ids # {}
      /\ \A e \in ids : Found(new, entries[e].variant) = {}
      /\ entries' = [e \in DOMAIN entries |->
                        IF e \in ids THEN [entries[e] EXCEPT !.name = new] ELSE entries[e]]
      /\ UNCHANGED <<texts, removals>>
  BY DEF UpdateCommand
<1>2. IInv'
  BY UpdateCommandIInv DEF StoreInv
<1>3. ids \in SUBSET Shelved /\ Store!Of(n, Shelf) = {Key(e) : e \in ids}
  BY OfName
<1>4. \A e \in ids : e \in DOMAIN entries /\ entries[e].name = n
  BY DEF Active
<1>5. /\ DOMAIN entries' = DOMAIN entries
      /\ \A e \in DOMAIN entries :
             /\ e \in ids => entries'[e].name = new /\ entries'[e].variant = entries[e].variant
             /\ e \notin ids => entries'[e] = entries[e]
             /\ entries'[e].removed = entries[e].removed /\ entries'[e].marker = entries[e].marker
  BY <1>1, StoreTypes DEF Entry
<1>6. DOMAIN to = {Key(e) : e \in ids} /\ \A e \in ids : to[Key(e)] = <<new, entries[e].variant>>
  BY <1>3 DEF Key
<1>7. /\ \A e \in ids : Key(e)' = to[Key(e)]
      /\ \A e \in DOMAIN entries : e \notin ids => Key(e)' = Key(e)
  BY <1>4, <1>5, <1>6 DEF Key
<1>8. \A e \in ids, f \in DOMAIN entries : to[Key(e)] # Key(f)
  BY <1>1, <1>6 DEF Key, Found
<1>9. \A e, f \in ids : to[Key(e)] = to[Key(f)] => e = f
  BY <1>4, <1>6 DEF Key, StoreInv, KeysUnique
<1>10. StoreInv' /\ Store!Rename(to)
  <2>1. /\ DOMAIN entries' = DOMAIN entries
        /\ \A e \in DOMAIN entries : /\ entries'[e].removed = entries[e].removed
                                     /\ entries'[e].marker = entries[e].marker
    BY <1>5
  <2>2. ids # {} /\ UNCHANGED <<texts, removals>> /\ ids \in SUBSET Shelved
        /\ DOMAIN to = {Key(e) : e \in ids}
    BY <1>1, <1>3, <1>6
  <2> QED
    BY ONLY StoreInv, <1>2, <1>7, <1>8, <1>9, <2>1, <2>2, RenameStores
<1> QED
  BY <1>10

LEMMA UpdateVariantStores ==
    ASSUME StoreInv, NEW n \in Names, NEW v \in Variants, NEW new \in Variants,
           UpdateCommandVariant(n, v, new), NEW k, k = <<n, v>>
    PROVE  StoreInv' /\ k \in DOMAIN Shelf /\ Store!Rename([j \in {k} |-> <<k[1], new>>])
<1>1. PICK e \in ActiveVariant(n, v) : entries' = [entries EXCEPT ![e].variant = new]
  BY DEF UpdateCommandVariant
<1> PICK ids, to : ids = {e} /\ to = [j \in {k} |-> <<k[1], new>>]
  OBVIOUS
<1>2. Found(n, new) = {} /\ UNCHANGED <<texts, removals>>
  BY DEF UpdateCommandVariant
<1>3. IInv'
  BY UpdateCommandVariantIInv DEF StoreInv
<1>4. e \in Shelved /\ e \in DOMAIN entries /\ Key(e) = k /\ k \in DOMAIN Shelf /\ entries[e].name = n
  BY OneActive
<1> DEFINE x == [entries[e] EXCEPT !.variant = new]
<1>5. x.name = n /\ x.variant = new /\ x.removed = entries[e].removed /\ x.marker = entries[e].marker
  BY <1>4, StoreTypes DEF Entry
<1>6. entries' = [entries EXCEPT ![e] = x]
  BY <1>1
<1> HIDE DEF x
<1>7. /\ DOMAIN entries' = DOMAIN entries
      /\ entries'[e] = x /\ \A f \in DOMAIN entries : f # e => entries'[f] = entries[f]
  BY <1>4, <1>6
<1>8. DOMAIN to = {Key(f) : f \in ids} /\ to[k] = <<n, new>>
  BY <1>4
<1>9. /\ \A f \in ids : Key(f)' = to[Key(f)]
      /\ \A f \in DOMAIN entries : f \notin ids => Key(f)' = Key(f)
  BY <1>4, <1>5, <1>7, <1>8 DEF Key
<1>10. \A f \in DOMAIN entries : /\ entries'[f].removed = entries[f].removed
                                 /\ entries'[f].marker = entries[f].marker
  BY <1>5, <1>7
<1>11. \A f \in ids, g \in DOMAIN entries : to[Key(f)] # Key(g)
  BY <1>2, <1>4, <1>8 DEF Key, Found
<1>12. \A f, g \in ids : to[Key(f)] = to[Key(g)] => f = g
  OBVIOUS
<1>13. ids \in SUBSET Shelved /\ ids # {}
  BY <1>4
<1>14. StoreInv' /\ Store!Rename(to)
  BY <1>2, <1>3, <1>7, <1>8, <1>9, <1>10, <1>11, <1>12, <1>13, RenameStores
<1> QED
  BY <1>4, <1>14

-----------------------------------------------------------------------------

LEMMA StoreInit == Init => StoreInv /\ Store!Init
<1> SUFFICES ASSUME Init PROVE StoreInv /\ Store!Init
  OBVIOUS
<1>1. DOMAIN entries = {} /\ DOMAIN texts = {} /\ removals = 0
  BY DEF Init
<1>2. StoreInv
  BY <1>1, InitIInv DEF StoreInv, KeysUnique, TextsUnique
<1>3. Shelf = Store!Nothing /\ Bin = Store!Nothing
  <2>1. Shelved = {} /\ Binned = {}
    BY <1>1 DEF Shelved, Binned
  <2> QED
    BY <2>1 DEF Shelf, Bin, Store!Nothing
<1> QED
  BY <1>1, <1>2, <1>3 DEF Store!Init

\* Every operation is one of the store's.
LEMMA StoreStep == StoreInv /\ [Next]_vars => StoreInv' /\ [Store!Next]_Store!vars
<1> SUFFICES ASSUME StoreInv, [Next]_vars
             PROVE  StoreInv' /\ [Store!Next]_Store!vars
  OBVIOUS
<1>1. ASSUME NEW n \in Names, AddCommand(n) PROVE StoreInv' /\ Store!Next
  <2>1. StoreInv' /\ Store!Add(<<n, Default>>)
    BY <1>1, AddEntryStores, ConstantsAssumption DEF AddCommand
  <2> QED
    BY <2>1, ConstantsAssumption DEF Store!Next, Store!Keys
<1>2. ASSUME NEW n \in Names, RemoveCommand(n) PROVE StoreInv' /\ Store!Next
  BY <1>2, RemoveStores DEF Store!Next
<1>3. ASSUME NEW n \in Names, RestoreCommand(n) PROVE StoreInv' /\ Store!Next
  BY <1>3, RestoreCommandStores DEF Store!Next
<1>4. ASSUME NEW n \in Names, NEW new \in Names, UpdateCommand(n, new) PROVE StoreInv' /\ Store!Next
  BY <1>4, UpdateCommandStores DEF Store!Next
<1>5. ASSUME NEW n \in Names, NEW v \in Variants,
             \/ AddCommandVariant(n, v)
             \/ RemoveCommandVariant(n, v)
             \/ RestoreCommandVariant(n, v)
             \/ \E new \in Variants : UpdateCommandVariant(n, v, new)
             \/ \E s \in Texts : AddCommandText(n, v, s)
             \/ \E t \in DOMAIN texts :
                    \/ RemoveCommandText(n, v, t)
                    \/ RestoreCommandText(n, v, t)
                    \/ \E s \in Texts : UpdateCommandText(n, v, t, s)
      PROVE  StoreInv' /\ Store!Next
  <2> PICK k : k = <<n, v>>
    OBVIOUS
  <2>0. k \in Store!Keys /\ k[1] = n
    BY DEF Store!Keys
  <2>1. CASE AddCommandVariant(n, v)
    <3>1. StoreInv' /\ Store!Add(k)
      BY <2>1, AddEntryStores DEF AddCommandVariant
    <3> QED
      BY <2>0, <3>1 DEF Store!Next
  <2>2. CASE RemoveCommandVariant(n, v)
    BY <2>0, <2>2, RemoveVariantStores DEF Store!Next
  <2>3. CASE RestoreCommandVariant(n, v)
    BY <2>0, <2>3, RestoreVariantStores DEF Store!Next
  <2>4. CASE \E new \in Variants : UpdateCommandVariant(n, v, new)
    <3>1. PICK new \in Variants : UpdateCommandVariant(n, v, new)
      BY <2>4
    <3>2. StoreInv' /\ k \in DOMAIN Shelf /\ Store!Rename([j \in {k} |-> <<k[1], new>>])
      BY <3>1, UpdateVariantStores
    <3> QED
      BY <2>0, <3>2 DEF Store!Next
  <2>5. CASE \E s \in Texts : AddCommandText(n, v, s)
    <3>1. PICK s \in Texts : AddCommandText(n, v, s)
      BY <2>5
    <3>2. StoreInv' /\ Store!AddText(k, s)
      BY <3>1, AddCommandTextStores
    <3> QED
      BY <2>0, <3>2 DEF Store!Next
  <2>6. ASSUME NEW t \in DOMAIN texts, RemoveCommandText(n, v, t) PROVE StoreInv' /\ Store!Next
    <3>1. IInv'
      BY <2>6, TextActionsIInv DEF StoreInv
    <3>2. StoreInv' /\ \E s \in Texts : Store!RemoveText(k, s)
      BY <2>6, <3>1, RemoveTextStores
    <3> QED
      BY <2>0, <3>2 DEF Store!Next
  <2>7. ASSUME NEW t \in DOMAIN texts, RestoreCommandText(n, v, t) PROVE StoreInv' /\ Store!Next
    <3>1. IInv'
      BY <2>7, TextActionsIInv DEF StoreInv
    <3>2. StoreInv' /\ \E s \in Texts : Store!AddText(k, s)
      BY <2>7, <3>1, RestoreTextStores
    <3> QED
      BY <2>0, <3>2 DEF Store!Next
  <2>8. ASSUME NEW t \in DOMAIN texts, NEW s \in Texts, UpdateCommandText(n, v, t, s)
        PROVE  StoreInv' /\ Store!Next
    <3>1. IInv'
      BY <2>8, TextActionsIInv DEF StoreInv
    <3>2. StoreInv' /\ \E old \in Texts : Store!UpdateText(k, old, s)
      BY <2>8, <3>1, UpdateTextStores
    <3> QED
      BY <2>0, <3>2 DEF Store!Next
  <2> QED
    BY <1>5, <2>1, <2>2, <2>3, <2>4, <2>5, <2>6, <2>7, <2>8
<1>6. CASE UNCHANGED vars
  <2>1. StoreInv'
    BY <1>6, NextIInv DEF StoreInv, KeysUnique, TextsUnique, Key, vars
  <2>2. Shelf' = Shelf /\ Bin' = Bin
    BY <1>6 DEF vars, Shelf, Bin, Shelved, Binned, Usable, Kept, RowOf, Key, TextsOf
  <2> QED
    BY <1>6, <2>1, <2>2 DEF Store!vars, vars
<1> QED
  BY <1>1, <1>2, <1>3, <1>4, <1>5, <1>6 DEF Next

\* Whatever rows, deletion ids and removed flags the operations leave behind, chat and
\* the restores see no more of them than a shelf and a bin.
THEOREM StoreImplemented == Spec => ImplementsStore
BY StoreInit, StoreStep, PTL DEF Spec, ImplementsStore, Store!Spec
=============================================================================
