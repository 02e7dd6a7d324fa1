------------------------ MODULE CommandRepositoryProofs ------------------------
(***************************************************************************)
(* The properties of CommandRepository, for every set of names, variants   *)
(* and texts, every comparison of texts, and any number of rows and of     *)
(* removals.                                                               *)
(*                                                                         *)
(* What makes them inductive: a deletion id is fresh when it is given out, *)
(* so that no row bears it yet; and as long as a row stays removed, the    *)
(* texts that bear its id are those its removal took.                      *)
(***************************************************************************)
EXTENDS CommandRepository, TLAPS

\* No row bears a deletion id that has not been given out.
MarkersIssued ==
    /\ \A e \in DOMAIN entries : entries[e].marker <= removals
    /\ \A t \in DOMAIN texts : texts[t].marker <= removals

\* The texts of e that its deletion id leads to, as Shown would have them.
Marked(e) ==
    {<<t, texts[t].text>> : t \in {u \in TextsOf(e) : texts[u].marker = entries[e].marker}}

\* A removed row bears the id of its removal, which leads to what the removal took.
RemovedWhole ==
    \A e \in DOMAIN entries :
        entries[e].removed =>
            /\ entries[e].marker = taken[e].by
            /\ entries[e].marker # NoMarker
            /\ Marked(e) = taken[e].texts

IInv == TypeOK /\ NoOrphans /\ MarkersIssued /\ RemovedWhole

-----------------------------------------------------------------------------
(* Sequences.                                                              *)

\* A function on the places of a sequence is a sequence of the same length.
LEMMA SameLength ==
    ASSUME NEW S, NEW s \in Seq(S), NEW f \in [DOMAIN s -> S]
    PROVE  f \in Seq(S) /\ Len(f) = Len(s) /\ DOMAIN f = DOMAIN s
<1>1. DOMAIN s = 1..Len(s) /\ Len(s) \in Nat
  OBVIOUS
<1> QED
  BY <1>1

\* A replaced element leaves a sequence a sequence.
LEMMA Replaced ==
    ASSUME NEW S, NEW s \in Seq(S), NEW i \in DOMAIN s, NEW x \in S
    PROVE  /\ [s EXCEPT ![i] = x] \in Seq(S)
           /\ Len([s EXCEPT ![i] = x]) = Len(s)
           /\ DOMAIN [s EXCEPT ![i] = x] = DOMAIN s
<1>1. [s EXCEPT ![i] = x] \in [DOMAIN s -> S]
  BY DOMAIN s = 1..Len(s)
<1> QED
  BY <1>1, SameLength

-----------------------------------------------------------------------------

LEMMA InitIInv == Init => IInv
BY ConstantsAssumption DEF Init, IInv, TypeOK, NoOrphans, MarkersIssued, RemovedWhole, Entry, Text,
   EntryIds, TextIds, Marker, NoMarker

\* The rows one at a time.
LEMMA RowTypes ==
    ASSUME TypeOK
    PROVE  /\ \A e \in DOMAIN entries : entries[e] \in Entry /\ e \in EntryIds
           /\ \A t \in DOMAIN texts :
                  /\ texts[t] \in Text /\ t \in TextIds
                  /\ texts[t].entry \in DOMAIN entries
           /\ Marker \subseteq Nat /\ NoMarker \in Marker
BY ConstantsAssumption DEF TypeOK, EntryIds, TextIds, Marker, NoMarker

LEMMA SoftDeleteIInv ==
    ASSUME IInv, NEW ids \in SUBSET (DOMAIN entries), SoftDelete(ids)
    PROVE  IInv'
<1> DEFINE id == removals + 1
           marked == {t \in UNION {TextsOf(e) : e \in ids} : ~texts[t].removed}
           T(t) == IF t \in marked THEN [texts[t] EXCEPT !.removed = TRUE, !.marker = id] ELSE texts[t]
           E(e) == IF e \in ids THEN [entries[e] EXCEPT !.removed = TRUE, !.marker = id] ELSE entries[e]
<1>1. /\ id \in Marker /\ removals' = id /\ id # NoMarker
      /\ texts' = [t \in DOMAIN texts |-> T(t)]
      /\ entries' = [e \in DOMAIN entries |-> E(e)]
      /\ taken' = [e \in EntryIds |->
                      IF e \in ids THEN [by |-> id, texts |-> Shown(e)] ELSE taken[e]]
  <2>1. id <= MaxRemovals /\ removals \in 0..MaxRemovals
    BY DEF SoftDelete, IInv, TypeOK
  <2>2. id \in Marker /\ id # NoMarker
    BY <2>1, ConstantsAssumption DEF Marker, NoMarker
  <2> HIDE DEF id
  <2> QED
    BY <2>2 DEF SoftDelete, id
<1>2. \A t \in DOMAIN texts : texts[t] \in Text
  BY DEF IInv, TypeOK
<1>3. \A e \in DOMAIN entries : entries[e] \in Entry
  BY DEF IInv, TypeOK
<1>4. texts' \in [DOMAIN texts -> Text]
  BY <1>1, <1>2 DEF Text
<1>5. entries' \in [DOMAIN entries -> Entry]
  BY <1>1, <1>3 DEF Entry
<1>6. /\ texts' \in Seq(Text) /\ Len(texts') = Len(texts) /\ DOMAIN texts' = DOMAIN texts
      /\ entries' \in Seq(Entry) /\ Len(entries') = Len(entries) /\ DOMAIN entries' = DOMAIN entries
  BY <1>4, <1>5, SameLength DEF IInv, TypeOK
<1>7. \A t \in DOMAIN texts :
          /\ texts'[t].entry = texts[t].entry
          /\ texts'[t].text = texts[t].text
          /\ texts[t].entry \in ids /\ ~texts[t].removed =>
                 texts'[t].removed /\ texts'[t].marker = id
          /\ ~(texts[t].entry \in ids /\ ~texts[t].removed) =>
                 texts'[t] = texts[t]
  <2> SUFFICES ASSUME NEW t \in DOMAIN texts
               PROVE  /\ texts'[t].entry = texts[t].entry
                      /\ texts'[t].text = texts[t].text
                      /\ texts[t].entry \in ids /\ ~texts[t].removed =>
                             texts'[t].removed /\ texts'[t].marker = id
                      /\ ~(texts[t].entry \in ids /\ ~texts[t].removed) =>
                             texts'[t] = texts[t]
    OBVIOUS
  <2>1. t \in marked <=> texts[t].entry \in ids /\ ~texts[t].removed
    BY DEF TextsOf
  <2>2. texts'[t] = T(t)
    BY <1>1
  <2> QED
    BY <1>2, <2>1, <2>2 DEF Text
<1>8. \A e \in DOMAIN entries :
          /\ e \in ids => entries'[e].removed /\ entries'[e].marker = id
          /\ e \notin ids => entries'[e] = entries[e]
  BY <1>1, <1>3 DEF Entry
<1>9. DOMAIN entries \subseteq EntryIds /\ DOMAIN texts \subseteq TextIds
  BY ConstantsAssumption DEF IInv, TypeOK, EntryIds, TextIds
<1>10. TypeOK'
  <2>1. \A e \in ids : Shown(e) \subseteq TextIds \X Texts
    BY <1>2, <1>9 DEF Shown, TextsOf, Text
  <2>2. taken' \in [EntryIds -> [by : Marker, texts : SUBSET (TextIds \X Texts)]]
    BY <1>1, <2>1 DEF IInv, TypeOK
  <2>3. \A t \in DOMAIN texts' : texts'[t].entry \in DOMAIN entries'
    BY <1>6, <1>7 DEF IInv, TypeOK
  <2> QED
    BY <1>1, <1>6, <2>2, <2>3 DEF IInv, TypeOK, Marker, NoMarker
<1>11. NoOrphans'
  BY <1>6, <1>7, <1>8 DEF IInv, TypeOK, NoOrphans
<1>12. MarkersIssued'
  <2>1. \A e \in DOMAIN entries : entries[e].marker \in Nat /\ entries[e].marker <= removals
    BY <1>3 DEF IInv, MarkersIssued, Entry, Marker, NoMarker
  <2>2. \A t \in DOMAIN texts : texts[t].marker \in Nat /\ texts[t].marker <= removals
    BY <1>2 DEF IInv, MarkersIssued, Text, Marker, NoMarker
  <2>3. removals \in Nat
    BY DEF IInv, TypeOK
  <2> QED
    <3>1. \A e \in DOMAIN entries : entries'[e].marker <= id
      BY <1>8, <2>1, <2>3
    <3>2. \A t \in DOMAIN texts : texts'[t].marker <= id
      BY <1>7, <2>2, <2>3
    <3> QED
      BY <1>1, <1>6, <3>1, <3>2 DEF MarkersIssued
<1>13. RemovedWhole'
  <2> SUFFICES ASSUME NEW e \in DOMAIN entries, entries'[e].removed
               PROVE  /\ entries'[e].marker = taken'[e].by
                      /\ entries'[e].marker # NoMarker
                      /\ Marked(e)' = taken'[e].texts
    BY <1>6 DEF RemovedWhole
  <2>1. CASE e \in ids
    <3>1. entries'[e].marker = id /\ taken'[e].by = id /\ taken'[e].texts = Shown(e)
      BY <1>1, <1>8, <1>9, <2>1
    <3>2. \A t \in TextsOf(e) : texts'[t].marker = id <=> ~texts[t].removed
      BY <1>2, <1>7, <2>1 DEF IInv, TypeOK, MarkersIssued, TextsOf, Text, Marker, NoMarker
    <3>3. TextsOf(e)' = TextsOf(e)
      BY <1>6, <1>7 DEF TextsOf
    <3>4. Marked(e)' = Shown(e)
      <4>1. {u \in TextsOf(e)' : texts'[u].marker = entries'[e].marker}
              = {u \in TextsOf(e) : ~texts[u].removed}
        BY <3>1, <3>2, <3>3
      <4>2. \A t \in TextsOf(e) : texts'[t].text = texts[t].text
        BY <1>7 DEF TextsOf
      <4> QED
        BY <4>1, <4>2 DEF Marked, Shown
    <3> QED
      BY <1>1, <3>1, <3>4
  <2>2. CASE e \notin ids
    <3>1. entries'[e] = entries[e] /\ taken'[e] = taken[e]
      BY <1>1, <1>8, <1>9, <2>2
    <3>2. TextsOf(e)' = TextsOf(e)
      BY <1>6, <1>7 DEF TextsOf
    <3>3. \A t \in TextsOf(e) : texts'[t] = texts[t]
      BY <1>7, <2>2 DEF TextsOf
    <3>4. Marked(e)' = Marked(e)
      BY <3>1, <3>2, <3>3 DEF Marked
    <3> QED
      BY <3>1, <3>4 DEF IInv, RemovedWhole
  <2> QED
    BY <2>1, <2>2
<1> QED
  BY <1>10, <1>11, <1>12, <1>13 DEF IInv

\* RestoreDeletion, as its callers use it: all the given rows bear the marker.
LEMMA RestoreDeletionIInv ==
    ASSUME IInv, NEW id \in Marker, id # NoMarker,
           NEW ids \in SUBSET {e \in DOMAIN entries : entries[e].marker = id},
           RestoreDeletion(id, ids)
    PROVE  /\ IInv'
           /\ \A e \in DOMAIN entries :
                  IF e \in ids THEN ~entries'[e].removed /\ entries'[e].marker = NoMarker
                              ELSE entries'[e] = entries[e]
           /\ \A e \in ids : entries[e].removed => Shown(e)' = taken[e].texts
<1> USE RowTypes
<1>0. TypeOK /\ NoOrphans /\ MarkersIssued /\ RemovedWhole
  BY DEF IInv
<1>1. /\ texts' \in [DOMAIN texts -> Text]
      /\ entries' \in [DOMAIN entries -> Entry]
  BY <1>0 DEF RestoreDeletion, Text, Entry
<1>2. /\ texts' \in Seq(Text) /\ Len(texts') = Len(texts) /\ DOMAIN texts' = DOMAIN texts
      /\ entries' \in Seq(Entry) /\ Len(entries') = Len(entries) /\ DOMAIN entries' = DOMAIN entries
  BY <1>0, <1>1, SameLength DEF TypeOK
<1>3. \A t \in DOMAIN texts :
          /\ texts'[t].entry = texts[t].entry
          /\ texts'[t].text = texts[t].text
          /\ texts[t].entry \in ids /\ texts[t].marker = id =>
                 ~texts'[t].removed /\ texts'[t].marker = NoMarker
          /\ ~(texts[t].entry \in ids /\ texts[t].marker = id) =>
                 texts'[t] = texts[t]
  BY <1>0 DEF RestoreDeletion, Text
<1>4. \A e \in DOMAIN entries :
          /\ e \in ids => ~entries'[e].removed /\ entries'[e].marker = NoMarker
          /\ e \notin ids => entries'[e] = entries[e]
  BY <1>0 DEF RestoreDeletion, Entry
<1>5. removals' = removals /\ taken' = taken
  BY DEF RestoreDeletion
<1>6. TypeOK'
  <2>1. \A t \in DOMAIN texts' : texts'[t].entry \in DOMAIN entries'
    BY <1>0, <1>2, <1>3
  <2> QED
    BY <1>0, <1>2, <1>5, <2>1 DEF TypeOK
<1>7. NoOrphans'
  BY <1>0, <1>2, <1>3, <1>4 DEF NoOrphans
<1>8. MarkersIssued'
  <2>1. removals \in Nat
    BY <1>0 DEF TypeOK
  <2> QED
    <3>1. \A e \in DOMAIN entries : entries'[e].marker <= removals
      BY <1>0, <1>4, <2>1 DEF MarkersIssued, NoMarker
    <3>2. \A t \in DOMAIN texts : texts'[t].marker <= removals
      BY <1>0, <1>3, <2>1 DEF MarkersIssued, NoMarker
    <3> QED
      BY <1>2, <1>5, <3>1, <3>2 DEF MarkersIssued
<1>9. \A e \in DOMAIN entries : TextsOf(e)' = TextsOf(e)
  BY <1>2, <1>3 DEF TextsOf
<1>10. RemovedWhole'
  <2> SUFFICES ASSUME NEW e \in DOMAIN entries, entries'[e].removed
               PROVE  /\ entries'[e].marker = taken'[e].by
                      /\ entries'[e].marker # NoMarker
                      /\ Marked(e)' = taken'[e].texts
    BY <1>2 DEF RemovedWhole
  <2>1. entries'[e] = entries[e] /\ e \notin ids
    BY <1>4
  <2>2. \A t \in TextsOf(e) : texts'[t] = texts[t]
    BY <1>3, <2>1 DEF TextsOf
  <2>3. Marked(e)' = Marked(e)
    BY <1>9, <2>1, <2>2 DEF Marked
  <2> QED
    BY <1>0, <1>5, <2>1, <2>3 DEF RemovedWhole
<1>11. ASSUME NEW e \in ids, entries[e].removed
       PROVE  Shown(e)' = taken[e].texts
  <2>1. \A t \in TextsOf(e) : texts[t].removed
    BY <1>0, <1>11 DEF NoOrphans, TextsOf
  <2>2. {u \in TextsOf(e)' : ~texts'[u].removed}
          = {u \in TextsOf(e) : texts[u].marker = entries[e].marker}
    BY <1>3, <1>9, <2>1 DEF TextsOf
  <2>3. \A t \in TextsOf(e) : texts'[t].text = texts[t].text
    BY <1>3 DEF TextsOf
  <2>4. Shown(e)' = Marked(e)
    BY <2>2, <2>3 DEF Shown, Marked
  <2> QED
    BY <1>0, <1>11, <2>4 DEF RemovedWhole
<1> QED
  BY <1>4, <1>6, <1>7, <1>8, <1>10, <1>11 DEF IInv

\* A step that removes no row and changes texts under active rows only, as adding,
\* changing, and removing or restoring one text do.
LEMMA ActiveRowsIInv ==
    ASSUME IInv, removals' = removals, taken' = taken,
           entries' \in Seq(Entry), Len(entries') <= MaxEntries,
           texts' \in Seq(Text), Len(texts') <= MaxTexts,
           DOMAIN entries \subseteq DOMAIN entries', DOMAIN texts \subseteq DOMAIN texts',
           \A e \in DOMAIN entries' :
               /\ entries'[e].marker <= removals
               /\ entries'[e].removed =>
                      /\ e \in DOMAIN entries /\ entries[e].removed
                      /\ entries'[e].marker = entries[e].marker,
           \A t \in DOMAIN texts' :
               \/ t \in DOMAIN texts /\ texts'[t] = texts[t]
               \/ /\ texts'[t].entry \in DOMAIN entries'
                  /\ ~entries'[texts'[t].entry].removed
                  /\ t \in DOMAIN texts => texts'[t].entry = texts[t].entry
                  /\ texts'[t].marker <= removals
                  /\ ~texts'[t].removed => texts'[t].marker = NoMarker
    PROVE  IInv'
<1>0. TypeOK /\ NoOrphans /\ MarkersIssued /\ RemovedWhole
  BY DEF IInv
<1>1. \A t \in DOMAIN texts : texts[t].entry \in DOMAIN entries
  BY <1>0 DEF TypeOK
<1>2. \A t \in DOMAIN texts' : texts'[t].entry \in DOMAIN entries'
  BY <1>1
<1>3. TypeOK'
  BY <1>0, <1>2 DEF TypeOK
<1>4. NoOrphans'
  BY <1>0, <1>1 DEF NoOrphans
<1>5. MarkersIssued'
  BY <1>0 DEF MarkersIssued
<1>6. RemovedWhole'
  <2> SUFFICES ASSUME NEW e \in DOMAIN entries', entries'[e].removed
               PROVE  /\ entries'[e].marker = taken'[e].by
                      /\ entries'[e].marker # NoMarker
                      /\ Marked(e)' = taken'[e].texts
    BY DEF RemovedWhole
  <2>1. e \in DOMAIN entries /\ entries[e].removed /\ entries'[e].marker = entries[e].marker
    OBVIOUS
  <2>2. TextsOf(e)' = TextsOf(e)
    BY DEF TextsOf
  <2>3. \A t \in TextsOf(e) : texts'[t] = texts[t]
    BY DEF TextsOf
  <2>4. Marked(e)' = Marked(e)
    BY <2>1, <2>2, <2>3 DEF Marked
  <2> QED
    BY <1>0, <2>1, <2>4 DEF RemovedWhole
<1> QED
  BY <1>3, <1>4, <1>5, <1>6 DEF IInv

\* An element more leaves a sequence a sequence, with the others where they were.
LEMMA Appended ==
    ASSUME NEW S, NEW s \in Seq(S), NEW x \in S
    PROVE  /\ Append(s, x) \in Seq(S) /\ Len(Append(s, x)) = Len(s) + 1
           /\ DOMAIN s \subseteq DOMAIN Append(s, x)
           /\ \A i \in DOMAIN Append(s, x) :
                  IF i \in DOMAIN s THEN Append(s, x)[i] = s[i]
                                   ELSE i = Len(s) + 1 /\ Append(s, x)[i] = x
OBVIOUS

\* One row of command_response given back, with its marker kept or cleared.
LEMMA GivenBack ==
    ASSUME IInv, NEW e \in DOMAIN entries, NEW x \in Entry,
           ~x.removed, x.marker \in {entries[e].marker, NoMarker},
           entries' = [entries EXCEPT ![e] = x]
    PROVE  /\ entries' \in Seq(Entry) /\ Len(entries') <= MaxEntries
           /\ DOMAIN entries' = DOMAIN entries /\ ~entries'[e].removed
           /\ \A f \in DOMAIN entries' :
                  /\ entries'[f].marker <= removals
                  /\ entries'[f].removed =>
                         entries[f].removed /\ entries'[f].marker = entries[f].marker
<1>0. TypeOK /\ MarkersIssued
  BY DEF IInv
<1>1. entries' \in Seq(Entry) /\ Len(entries') = Len(entries) /\ DOMAIN entries' = DOMAIN entries
  BY <1>0, Replaced DEF TypeOK
<1>2. \A f \in DOMAIN entries : entries'[f] = IF f = e THEN x ELSE entries[f]
  BY <1>0 DEF TypeOK
<1>3. 0 <= removals
  BY <1>0 DEF TypeOK
<1> QED
  BY <1>0, <1>1, <1>2, <1>3 DEF TypeOK, MarkersIssued, NoMarker

LEMMA AddEntryIInv ==
    ASSUME IInv, NEW n \in Names, NEW v \in Variants, AddEntry(n, v)
    PROVE  IInv'
<1>0. TypeOK /\ MarkersIssued
  BY DEF IInv
<1>1. texts' = texts /\ removals' = removals /\ taken' = taken
  BY DEF AddEntry
<1>2. CASE InsertEntry(n, v)
  <2> DEFINE x == [name |-> n, variant |-> v, removed |-> FALSE, marker |-> NoMarker]
  <2>1. x \in Entry
    BY <1>0, RowTypes DEF Entry
  <2>2. entries' = Append(entries, x) /\ entries \in Seq(Entry) /\ Len(entries) < MaxEntries
    BY <1>0, <1>2 DEF InsertEntry, TypeOK
  <2>3. 0 <= removals /\ MaxEntries \in Nat
    BY <1>0, ConstantsAssumption DEF TypeOK
  <2>4. \A e \in DOMAIN entries' :
            /\ entries'[e].marker <= removals
            /\ entries'[e].removed => e \in DOMAIN entries /\ entries'[e] = entries[e]
    BY <1>0, <2>1, <2>2, <2>3, Appended DEF MarkersIssued, NoMarker
  <2> QED
    BY <1>0, <1>1, <2>1, <2>2, <2>3, <2>4, Appended, ActiveRowsIInv DEF TypeOK
<1>3. CASE \E e \in Found(n, v) :
               entries[e].removed /\ entries' = [entries EXCEPT ![e].removed = FALSE]
  <2>1. PICK e \in Found(n, v) : entries' = [entries EXCEPT ![e].removed = FALSE]
    BY <1>3
  <2> DEFINE x == [entries[e] EXCEPT !.removed = FALSE]
  <2>2. e \in DOMAIN entries /\ entries' = [entries EXCEPT ![e] = x]
    BY <2>1 DEF Found
  <2>3. x \in Entry /\ ~x.removed /\ x.marker = entries[e].marker
    BY <1>0, <2>2, RowTypes DEF Entry
  <2> HIDE DEF x
  <2> QED
    BY <1>0, <1>1, <2>2, <2>3, GivenBack, ActiveRowsIInv DEF TypeOK
<1> QED
  BY <1>2, <1>3 DEF AddEntry

\* One text of an active row: changed, removed, or restored.
LEMMA OneTextIInv ==
    ASSUME IInv, NEW t \in DOMAIN texts, NEW x \in Text,
           ~entries[texts[t].entry].removed,
           x.entry = texts[t].entry,
           x.marker = NoMarker,
           texts' = [texts EXCEPT ![t] = x],
           entries' = entries, removals' = removals, taken' = taken
    PROVE  IInv'
<1>0. TypeOK /\ MarkersIssued
  BY DEF IInv
<1>1. texts' \in Seq(Text) /\ Len(texts') = Len(texts) /\ DOMAIN texts' = DOMAIN texts
  BY <1>0, Replaced DEF TypeOK
<1>2. \A u \in DOMAIN texts : texts'[u] = IF u = t THEN x ELSE texts[u]
  BY <1>0 DEF TypeOK
<1>3. x.marker <= removals /\ x.entry \in DOMAIN entries
  BY <1>0 DEF TypeOK, MarkersIssued, NoMarker
<1> QED
  BY <1>0, <1>1, <1>2, <1>3, ActiveRowsIInv DEF TypeOK, MarkersIssued

\* The row that addCommandText finds or makes, and the text it restores or inserts.
LEMMA AddCommandTextIInv ==
    ASSUME IInv, NEW n \in Names, NEW v \in Variants, NEW s \in Texts,
           AddCommandText(n, v, s)
    PROVE  IInv'
<1>0. TypeOK /\ MarkersIssued /\ NoMarker <= removals
  BY DEF IInv, TypeOK, NoMarker
<1>1. removals' = removals /\ taken' = taken
  BY DEF AddCommandText
<1> DEFINE y(e) == [entry |-> e, text |-> s, removed |-> FALSE, marker |-> NoMarker]
<1>2. ASSUME NEW e \in EntryIds, InsertText(e, s)
      PROVE  /\ texts' \in Seq(Text) /\ Len(texts') <= MaxTexts
             /\ DOMAIN texts \subseteq DOMAIN texts'
             /\ \A t \in DOMAIN texts' :
                    \/ t \in DOMAIN texts /\ texts'[t] = texts[t]
                    \/ t \notin DOMAIN texts /\ texts'[t] = y(e)
  <2>1. y(e) \in Text
    BY <1>0, RowTypes DEF Text
  <2>2. texts' = Append(texts, y(e)) /\ texts \in Seq(Text) /\ Len(texts) < MaxTexts
    BY <1>0, <1>2 DEF InsertText, TypeOK
  <2> QED
    BY <2>1, <2>2, Appended, ConstantsAssumption
<1>3. CASE Found(n, v) = {} /\ InsertEntry(n, v) /\ InsertText(Len(entries) + 1, s)
  <2> DEFINE x == [name |-> n, variant |-> v, removed |-> FALSE, marker |-> NoMarker]
             k == Len(entries) + 1
  <2>1. x \in Entry
    BY <1>0, RowTypes DEF Entry
  <2>2. entries' = Append(entries, x) /\ entries \in Seq(Entry) /\ Len(entries) < MaxEntries
    BY <1>0, <1>3 DEF InsertEntry, TypeOK
  <2>3. /\ entries' \in Seq(Entry) /\ Len(entries') <= MaxEntries
        /\ DOMAIN entries \subseteq DOMAIN entries'
        /\ k \in EntryIds /\ k \in DOMAIN entries' /\ ~entries'[k].removed
    BY <2>1, <2>2, Appended, ConstantsAssumption DEF EntryIds
  <2>4. \A e \in DOMAIN entries' :
            /\ entries'[e].marker <= removals
            /\ entries'[e].removed => e \in DOMAIN entries /\ entries'[e] = entries[e]
    BY <1>0, <2>1, <2>2, Appended DEF MarkersIssued
  <2>5. \A t \in DOMAIN texts' :
            \/ t \in DOMAIN texts /\ texts'[t] = texts[t]
            \/ t \notin DOMAIN texts /\ texts'[t] = y(k)
    BY <1>2, <1>3, <2>3
  <2> QED
    BY <1>0, <1>1, <1>2, <1>3, <2>3, <2>4, <2>5, ActiveRowsIInv
<1>4. ASSUME NEW e \in Found(n, v),
             entries' = IF entries[e].removed
                        THEN [entries EXCEPT ![e].removed = FALSE, ![e].marker = NoMarker]
                        ELSE entries,
             \/ \E t \in Like(e, s) : texts[t].removed /\ RestoreText(t)
             \/ Like(e, s) = {} /\ InsertText(e, s)
      PROVE  IInv'
  <2>1. e \in DOMAIN entries /\ e \in EntryIds
    BY <1>0, RowTypes DEF Found
  <2>2. /\ entries' \in Seq(Entry) /\ Len(entries') <= MaxEntries
        /\ DOMAIN entries' = DOMAIN entries /\ ~entries'[e].removed
        /\ \A f \in DOMAIN entries' :
               /\ entries'[f].marker <= removals
               /\ entries'[f].removed =>
                      entries[f].removed /\ entries'[f].marker = entries[f].marker
    <3>1. CASE entries[e].removed
      <4> DEFINE x == [entries[e] EXCEPT !.removed = FALSE, !.marker = NoMarker]
      <4>1. x \in Entry /\ ~x.removed /\ x.marker = NoMarker
        BY <1>0, <2>1, RowTypes DEF Entry
      <4>2. entries' = [entries EXCEPT ![e] = x]
        BY <1>0, <1>4, <2>1, <3>1 DEF TypeOK
      <4> HIDE DEF x
      <4> QED
        BY <2>1, <4>1, <4>2, GivenBack
    <3>2. CASE ~entries[e].removed
      BY <1>0, <1>4, <3>2 DEF TypeOK, MarkersIssued
    <3> QED
      BY <3>1, <3>2
  <2>3. CASE Like(e, s) = {} /\ InsertText(e, s)
    BY <1>0, <1>1, <1>2, <2>1, <2>2, <2>3, ActiveRowsIInv
  <2>4. CASE \E t \in Like(e, s) : texts[t].removed /\ RestoreText(t)
    <3>1. PICK t \in Like(e, s) : RestoreText(t)
      BY <2>4
    <3> DEFINE z == [texts[t] EXCEPT !.removed = FALSE, !.marker = NoMarker]
    <3>2. t \in DOMAIN texts /\ texts[t].entry = e
      BY DEF Like, TextsOf
    <3>3. z \in Text /\ z.entry = e /\ z.marker = NoMarker
      BY <1>0, <3>2, RowTypes DEF Text
    <3>4. texts' = [texts EXCEPT ![t] = z]
      BY <1>0, <3>1, <3>2 DEF RestoreText, TypeOK
    <3> HIDE DEF z
    <3>5. /\ texts' \in Seq(Text) /\ Len(texts') = Len(texts) /\ DOMAIN texts' = DOMAIN texts
          /\ \A u \in DOMAIN texts : texts'[u] = IF u = t THEN z ELSE texts[u]
      BY <1>0, <3>2, <3>3, <3>4, Replaced DEF TypeOK
    <3>6. \A u \in DOMAIN texts' :
              \/ u \in DOMAIN texts /\ texts'[u] = texts[u]
              \/ u = t /\ texts'[u] = z
      BY <3>5
    <3>7. /\ entries' \in Seq(Entry) /\ DOMAIN entries \subseteq DOMAIN entries'
          /\ texts' \in Seq(Text) /\ Len(texts') <= MaxTexts
          /\ DOMAIN texts \subseteq DOMAIN texts'
      BY <1>0, <2>2, <3>5 DEF TypeOK
    <3> QED
      BY <1>0, <1>1, <2>1, <2>2, <3>2, <3>3, <3>6, <3>7, ActiveRowsIInv
  <2> QED
    BY <1>4, <2>3, <2>4
<1> QED
  BY <1>3, <1>4 DEF AddCommandText

LEMMA UpdateCommandIInv ==
    ASSUME IInv, NEW n \in Names, NEW new \in Names, UpdateCommand(n, new)
    PROVE  IInv'
<1>0. TypeOK /\ MarkersIssued
  BY DEF IInv
<1>1. entries' \in [DOMAIN entries -> Entry]
  BY <1>0, RowTypes DEF UpdateCommand, Entry
<1>2. /\ entries' \in Seq(Entry) /\ Len(entries') = Len(entries)
      /\ DOMAIN entries' = DOMAIN entries
  BY <1>0, <1>1, SameLength DEF TypeOK
<1>3. \A e \in DOMAIN entries :
          entries'[e].removed = entries[e].removed /\ entries'[e].marker = entries[e].marker
  BY <1>0, RowTypes DEF UpdateCommand, Entry
<1>4. texts' = texts /\ removals' = removals /\ taken' = taken
  BY DEF UpdateCommand
<1> QED
  BY <1>0, <1>2, <1>3, <1>4, ActiveRowsIInv DEF TypeOK, MarkersIssued

LEMMA UpdateCommandVariantIInv ==
    ASSUME IInv, NEW n \in Names, NEW v \in Variants, NEW new \in Variants,
           UpdateCommandVariant(n, v, new)
    PROVE  IInv'
<1>0. TypeOK /\ MarkersIssued
  BY DEF IInv
<1>1. PICK e \in ActiveVariant(n, v) : entries' = [entries EXCEPT ![e].variant = new]
  BY DEF UpdateCommandVariant
<1> DEFINE x == [entries[e] EXCEPT !.variant = new]
<1>2. e \in DOMAIN entries /\ entries' = [entries EXCEPT ![e] = x]
  BY <1>1 DEF ActiveVariant, Active
<1>3. x \in Entry /\ ~x.removed /\ x.marker = entries[e].marker
  BY <1>0, <1>2, RowTypes DEF Entry, ActiveVariant, Active
<1>4. texts' = texts /\ removals' = removals /\ taken' = taken
  BY DEF UpdateCommandVariant
<1> HIDE DEF x
<1> QED
  BY <1>0, <1>2, <1>3, <1>4, GivenBack, ActiveRowsIInv DEF TypeOK

\* Changing, removing and restoring one text.
LEMMA TextActionsIInv ==
    ASSUME IInv, NEW n \in Names, NEW v \in Variants, NEW t \in DOMAIN texts,
           \/ \E s \in Texts : UpdateCommandText(n, v, t, s)
           \/ RemoveCommandText(n, v, t)
           \/ RestoreCommandText(n, v, t)
    PROVE  IInv'
<1>0. TypeOK /\ NoOrphans
  BY DEF IInv
<1>1. texts[t] \in Text /\ ~entries[texts[t].entry].removed
  BY <1>0, RowTypes DEF UpdateCommandText, RemoveCommandText, RestoreCommandText,
     ActiveVariant, Active, TextsOf
<1>2. entries' = entries /\ removals' = removals /\ taken' = taken
  BY DEF UpdateCommandText, RemoveCommandText, RestoreCommandText
<1>3. CASE \E s \in Texts : UpdateCommandText(n, v, t, s)
  <2>1. PICK s \in Texts : ~texts[t].removed /\ texts' = [texts EXCEPT ![t].text = s]
    BY <1>3 DEF UpdateCommandText
  <2> DEFINE x == [texts[t] EXCEPT !.text = s]
  <2>2. x \in Text /\ x.entry = texts[t].entry /\ x.marker = NoMarker
    BY <1>0, <1>1, <2>1 DEF Text, NoOrphans
  <2>3. texts' = [texts EXCEPT ![t] = x]
    BY <2>1
  <2> HIDE DEF x
  <2> QED
    BY <1>1, <1>2, <2>2, <2>3, OneTextIInv
<1>4. CASE RemoveCommandText(n, v, t)
  <2> DEFINE x == [texts[t] EXCEPT !.removed = TRUE]
  <2>1. x \in Text /\ x.entry = texts[t].entry /\ x.marker = NoMarker
    BY <1>0, <1>1, <1>4 DEF Text, NoOrphans, RemoveCommandText
  <2>2. texts' = [texts EXCEPT ![t] = x]
    BY <1>4 DEF RemoveCommandText
  <2> HIDE DEF x
  <2> QED
    BY <1>1, <1>2, <2>1, <2>2, OneTextIInv
<1>5. CASE RestoreCommandText(n, v, t)
  <2> DEFINE x == [texts[t] EXCEPT !.removed = FALSE, !.marker = NoMarker]
  <2>1. x \in Text /\ x.entry = texts[t].entry /\ x.marker = NoMarker
    BY <1>0, <1>1, RowTypes DEF Text
  <2>2. texts' = [texts EXCEPT ![t] = x]
    BY <1>0, <1>5 DEF RestoreCommandText, RestoreText, TypeOK
  <2> HIDE DEF x
  <2> QED
    BY <1>1, <1>2, <2>1, <2>2, OneTextIInv
<1> QED
  BY <1>3, <1>4, <1>5

\* restoreCommandVariant restores the deletion that the row bears.
LEMMA RestoreCommandVariantEffect ==
    ASSUME IInv, NEW n \in Names, NEW v \in Variants, RestoreCommandVariant(n, v)
    PROVE  /\ IInv'
           /\ \A e \in DOMAIN entries :
                  entries[e].removed /\ ~entries'[e].removed => Shown(e)' = taken[e].texts
<1>1. PICK e \in Found(n, v) :
          entries[e].marker # NoMarker /\ RestoreDeletion(entries[e].marker, {e})
  BY DEF RestoreCommandVariant
<1>2. e \in DOMAIN entries /\ entries[e].marker \in Marker
  BY RowTypes DEF Found, IInv, Entry
<1>3. {e} \in SUBSET {f \in DOMAIN entries : entries[f].marker = entries[e].marker}
  BY <1>2
<1> QED
  BY <1>1, <1>2, <1>3, RestoreDeletionIInv

\* restoreCommand restores the latest deletion of the name: the removed rows of that
\* name it gives back are those that were removed last.
LEMMA RestoreCommandEffect ==
    ASSUME IInv, NEW n \in Names, RestoreCommand(n)
    PROVE  /\ IInv'
           /\ \A e \in DOMAIN entries :
                  entries[e].removed /\ ~entries'[e].removed => Shown(e)' = taken[e].texts
           /\ \A e \in DOMAIN entries :
                  entries[e].removed =>
                      (~entries'[e].removed <=>
                          /\ entries[e].name = n
                          /\ \A f \in DOMAIN entries :
                                 entries[f].name = n /\ entries[f].removed =>
                                     taken[f].by <= taken[e].by)
<1> DEFINE removed == {e \in DOMAIN entries : entries[e].name = n /\ entries[e].removed}
           ids(last) == {e \in DOMAIN entries : entries[e].name = n /\ entries[e].marker = last}
<1>1. PICK last \in {entries[e].marker : e \in removed} :
          /\ last # NoMarker /\ \A e \in removed : entries[e].marker <= last
          /\ RestoreDeletion(last, ids(last))
  BY DEF RestoreCommand
<1>2. PICK r \in removed : entries[r].marker = last
  OBVIOUS
<1>3. last \in Marker /\ \A e \in DOMAIN entries : entries[e].marker \in Nat
  BY <1>2, RowTypes DEF IInv, Entry
<1>4. ids(last) \in SUBSET {e \in DOMAIN entries : entries[e].marker = last}
  OBVIOUS
<1>5. /\ IInv'
      /\ \A e \in DOMAIN entries :
             IF e \in ids(last) THEN ~entries'[e].removed ELSE entries'[e] = entries[e]
      /\ \A e \in ids(last) : entries[e].removed => Shown(e)' = taken[e].texts
  BY <1>1, <1>3, <1>4, RestoreDeletionIInv
<1>6. \A e \in DOMAIN entries : entries[e].removed => entries[e].marker = taken[e].by
  BY DEF IInv, RemovedWhole
<1>7. ASSUME NEW e \in DOMAIN entries, entries[e].removed
      PROVE  ~entries'[e].removed <=>
                 /\ entries[e].name = n
                 /\ \A f \in DOMAIN entries :
                        entries[f].name = n /\ entries[f].removed => taken[f].by <= taken[e].by
  <2>1. ~entries'[e].removed <=> entries[e].name = n /\ entries[e].marker = last
    BY <1>5, <1>7
  <2>2. ASSUME entries[e].name = n, entries[e].marker = last,
               NEW f \in DOMAIN entries, entries[f].name = n, entries[f].removed
        PROVE  taken[f].by <= taken[e].by
    BY <1>1, <1>6, <1>7, <2>2
  <2>3. ASSUME entries[e].name = n,
               \A f \in DOMAIN entries :
                   entries[f].name = n /\ entries[f].removed => taken[f].by <= taken[e].by
        PROVE  entries[e].marker = last
    <3>1. last <= entries[e].marker
      BY <1>2, <1>6, <1>7, <2>3
    <3>2. entries[e].marker <= last
      BY <1>1, <1>7, <2>3
    <3> QED
      BY <1>2, <1>3, <3>1, <3>2
  <2> QED
    BY <2>1, <2>2, <2>3
<1> QED
  BY <1>5, <1>7

-----------------------------------------------------------------------------

LEMMA NextIInv == IInv /\ [Next]_vars => IInv'
<1> SUFFICES ASSUME IInv, [Next]_vars
             PROVE  IInv'
  OBVIOUS
<1>1. CASE UNCHANGED vars
  BY <1>1 DEF vars, IInv, TypeOK, NoOrphans, MarkersIssued, RemovedWhole, Marked, TextsOf
<1>2. ASSUME NEW n \in Names, AddCommand(n) \/ RemoveCommand(n) \/ RestoreCommand(n)
      PROVE  IInv'
  <2>1. CASE AddCommand(n)
    BY <2>1, AddEntryIInv, ConstantsAssumption DEF AddCommand
  <2>2. CASE RemoveCommand(n)
    BY <2>2, SoftDeleteIInv DEF RemoveCommand, Active
  <2>3. CASE RestoreCommand(n)
    BY <2>3, RestoreCommandEffect
  <2> QED
    BY <1>2, <2>1, <2>2, <2>3
<1>3. ASSUME NEW n \in Names, NEW new \in Names, UpdateCommand(n, new)
      PROVE  IInv'
  BY <1>3, UpdateCommandIInv
<1>4. ASSUME NEW n \in Names, NEW v \in Variants,
             \/ AddCommandVariant(n, v)
             \/ RemoveCommandVariant(n, v)
             \/ RestoreCommandVariant(n, v)
             \/ \E new \in Variants : UpdateCommandVariant(n, v, new)
             \/ \E s \in Texts : AddCommandText(n, v, s)
      PROVE  IInv'
  <2>1. CASE AddCommandVariant(n, v)
    BY <2>1, AddEntryIInv DEF AddCommandVariant
  <2>2. CASE RemoveCommandVariant(n, v)
    BY <2>2, SoftDeleteIInv DEF RemoveCommandVariant, ActiveVariant, Active
  <2>3. CASE RestoreCommandVariant(n, v)
    BY <2>3, RestoreCommandVariantEffect
  <2> QED
    BY <1>4, <2>1, <2>2, <2>3, UpdateCommandVariantIInv, AddCommandTextIInv
<1>5. ASSUME NEW n \in Names, NEW v \in Variants, NEW t \in DOMAIN texts,
             \/ RemoveCommandText(n, v, t)
             \/ RestoreCommandText(n, v, t)
             \/ \E s \in Texts : UpdateCommandText(n, v, t, s)
      PROVE  IInv'
  BY <1>5, TextActionsIInv
<1> QED
  BY <1>1, <1>2, <1>3, <1>4, <1>5 DEF Next

LEMMA Invariance == Spec => []IInv
BY InitIInv, NextIInv, PTL DEF Spec

\* Every row keeps its type, and every text belongs to a row there is.
THEOREM TypeCorrect == Spec => []TypeOK
BY Invariance, PTL DEF IInv

\* No sequence of operations leaves a text active under a removed row, or with a
\* deletion id that would take it for a removed one later.
THEOREM OrphansNever == Spec => []NoOrphans
BY Invariance, PTL DEF IInv

\* Whatever happened to the other rows and texts since it was removed, a row comes
\* back with exactly the texts its removal took.
THEOREM RestoreIsInverse == Spec => RestoreUndoesRemove
<1>1. IInv /\ [Next]_vars =>
          [Restores =>
              \A e \in DOMAIN entries :
                  entries[e].removed /\ ~entries'[e].removed => Shown(e)' = taken[e].texts]_vars
  BY RestoreCommandEffect, RestoreCommandVariantEffect DEF Restores
<1> QED
  BY <1>1, Invariance, PTL DEF Spec, RestoreUndoesRemove

\* restoreCommand takes back the latest removal of a row of the name, and the whole
\* of it, and leaves the earlier ones as they are.
THEOREM RestoreTakesLast == Spec => RestoreIsOneRemoval
<1>1. IInv /\ [Next]_vars =>
          [\A n \in Names : RestoreCommand(n) =>
              \A e \in DOMAIN entries :
                  entries[e].removed =>
                      (~entries'[e].removed <=>
                          /\ entries[e].name = n
                          /\ \A f \in DOMAIN entries :
                                 entries[f].name = n /\ entries[f].removed =>
                                     taken[f].by <= taken[e].by)]_vars
  BY RestoreCommandEffect
<1> QED
  BY <1>1, Invariance, PTL DEF Spec, RestoreIsOneRemoval
=============================================================================
