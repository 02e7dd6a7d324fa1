--------------------------- MODULE CommandRepository ---------------------------
(***************************************************************************)
(* CommandResponseRepository: commands with their variants and texts, and  *)
(* the soft deletion that lets whole commands be removed and restored.     *)
(*                                                                         *)
(* Removing marks the rows it removes with a fresh deletion id, and        *)
(* restoring looks for rows by that id.  A row can meanwhile be given back *)
(* some other way (by adding it again), renamed, or removed once more.     *)
(*                                                                         *)
(* Every operation is one transaction, here one step; how the text         *)
(* transactions interleave is CommandResponses' matter.  An operation that *)
(* fails or finds nothing changes nothing, and is no step.                 *)
(***************************************************************************)
EXTENDS Naturals, Sequences

CONSTANTS
    Names,              \* command names
    Variants,           \* variant names, among them Default
    Default,            \* the variant ''
    Texts,
    Fold,               \* a text trimmed and in lower case, as the unique index has it
    MaxEntries, MaxTexts, MaxRemovals       \* bounds on the rows and the removals

ASSUME ConstantsAssumption ==
    /\ Default \in Variants
    /\ DOMAIN Fold = Texts
    /\ MaxEntries \in Nat /\ MaxTexts \in Nat /\ MaxRemovals \in Nat

VARIABLES
    entries,    \* command_response; a row's id is its index
    texts,      \* command_response_text, likewise
    removals,   \* how many removals there have been; the last one's deletion id
    taken       \* history: by which removal a row was last removed, and its texts then

vars == <<entries, texts, removals, taken>>

EntryIds == 1..MaxEntries
TextIds == 1..MaxTexts
NoMarker == 0

\* Deletion ids are numbered in the order of the removals, which is also the order
\* of the rows' deletedAt.
Marker == NoMarker..MaxRemovals

Entry == [name : Names, variant : Variants, removed : BOOLEAN, marker : Marker]
Text == [entry : EntryIds, text : Texts, removed : BOOLEAN, marker : Marker]

\* The types, and the foreign key: every text belongs to a row there is.
TypeOK ==
    /\ entries \in Seq(Entry) /\ Len(entries) <= MaxEntries
    /\ texts \in Seq(Text) /\ Len(texts) <= MaxTexts
    /\ \A t \in DOMAIN texts : texts[t].entry \in DOMAIN entries
    /\ removals \in 0..MaxRemovals
    /\ taken \in [EntryIds -> [by : Marker, texts : SUBSET (TextIds \X Texts)]]

Init ==
    /\ entries = <<>> /\ texts = <<>>
    /\ removals = 0
    /\ taken = [e \in EntryIds |-> [by |-> NoMarker, texts |-> {}]]

-----------------------------------------------------------------------------
(* Reading the tables.                                                     *)

\* Rows by name and variant, the removed ones too (paranoid: false).
Found(n, v) == {e \in DOMAIN entries : entries[e].name = n /\ entries[e].variant = v}

\* The active ones.
Active(n) == {e \in DOMAIN entries : entries[e].name = n /\ ~entries[e].removed}
ActiveVariant(n, v) == Active(n) \cap Found(n, v)

TextsOf(e) == {t \in DOMAIN texts : texts[t].entry = e}

\* What the unique index on the texts of e, removed or not, compares with s.
Like(e, s) == {t \in TextsOf(e) : Fold[texts[t].text] = Fold[s]}

\* What findAll serves of e.
Shown(e) == {<<t, texts[t].text>> : t \in {u \in TextsOf(e) : ~texts[u].removed}}

-----------------------------------------------------------------------------
(* Writing them.                                                           *)

InsertEntry(n, v) ==
    /\ Len(entries) < MaxEntries
    /\ entries' = Append(entries, [name |-> n, variant |-> v, removed |-> FALSE, marker |-> NoMarker])

\* Mutant: the text refers to the row after its own.
InsertTextNext(e, s) ==
    /\ Len(texts) < MaxTexts
    /\ texts' = Append(texts, [entry |-> e + 1, text |-> s, removed |-> FALSE, marker |-> NoMarker])

InsertText(e, s) ==
    /\ Len(texts) < MaxTexts
    /\ texts' = Append(texts, [entry |-> e, text |-> s, removed |-> FALSE, marker |-> NoMarker])

\* restoreText
RestoreText(t) ==
    texts' = [texts EXCEPT ![t].removed = FALSE, ![t].marker = NoMarker]

\* Mutant: texts that are removed already are marked again.
SoftDeleteMarksRemoved(ids) ==
    LET id == removals + 1
        marked == UNION {TextsOf(e) : e \in ids}
    IN  /\ id <= MaxRemovals /\ removals' = id
        /\ texts' = [t \in DOMAIN texts |->
                        IF t \in marked THEN [texts[t] EXCEPT !.removed = TRUE, !.marker = id]
                                        ELSE texts[t]]
        /\ entries' = [e \in DOMAIN entries |->
                          IF e \in ids THEN [entries[e] EXCEPT !.removed = TRUE, !.marker = id]
                                       ELSE entries[e]]
        /\ taken' = [e \in EntryIds |->
                        IF e \in ids THEN [by |-> id, texts |-> Shown(e)] ELSE taken[e]]

\* Mutant: the texts are left as they are.
SoftDeleteKeepsTexts(ids) ==
    LET id == removals + 1
    IN  /\ id <= MaxRemovals /\ removals' = id
        /\ entries' = [e \in DOMAIN entries |->
                          IF e \in ids THEN [entries[e] EXCEPT !.removed = TRUE, !.marker = id]
                                       ELSE entries[e]]
        /\ taken' = [e \in EntryIds |->
                        IF e \in ids THEN [by |-> id, texts |-> Shown(e)] ELSE taken[e]]
        /\ UNCHANGED texts

\* softDeleteWithTexts: the rows and their active texts under one fresh marker.
SoftDelete(ids) ==
    LET id == removals + 1
        marked == {t \in UNION {TextsOf(e) : e \in ids} : ~texts[t].removed}
    IN  /\ id <= MaxRemovals /\ removals' = id
        /\ texts' = [t \in DOMAIN texts |->
                        IF t \in marked THEN [texts[t] EXCEPT !.removed = TRUE, !.marker = id]
                                        ELSE texts[t]]
        /\ entries' = [e \in DOMAIN entries |->
                          IF e \in ids THEN [entries[e] EXCEPT !.removed = TRUE, !.marker = id]
                                       ELSE entries[e]]
        /\ taken' = [e \in EntryIds |->
                        IF e \in ids THEN [by |-> id, texts |-> Shown(e)] ELSE taken[e]]

\* restoreDeletion: of the given rows, and of their texts, those with the marker.
RestoreDeletion(id, ids) ==
    /\ entries' = [e \in DOMAIN entries |->
                      IF e \in ids /\ entries[e].marker = id
                      THEN [entries[e] EXCEPT !.removed = FALSE, !.marker = NoMarker]
                      ELSE entries[e]]
    /\ texts' = [t \in DOMAIN texts |->
                    IF texts[t].entry \in ids /\ texts[t].marker = id
                    THEN [texts[t] EXCEPT !.removed = FALSE, !.marker = NoMarker]
                    ELSE texts[t]]
    /\ UNCHANGED <<removals, taken>>

-----------------------------------------------------------------------------
(* Adding.                                                                 *)

\* addCommand (the default variant) and addCommandVariant.  A removed row is given
\* back with its marker still on, and with none of its texts.
AddEntry(n, v) ==
    /\ \/ Found(n, v) = {} /\ InsertEntry(n, v)
       \/ \E e \in Found(n, v) :
              entries[e].removed /\ entries' = [entries EXCEPT ![e].removed = FALSE]
    /\ UNCHANGED <<texts, removals, taken>>

AddCommand(n) == AddEntry(n, Default)
AddCommandVariant(n, v) == AddEntry(n, v)

\* addCommandText.  A removed row is given back without its marker, a removed text
\* is restored as it was stored; an active one fails the unique index.
AddCommandText(n, v, s) ==
    /\ \/ /\ Found(n, v) = {}
          /\ InsertEntry(n, v) /\ InsertText(Len(entries) + 1, s)
       \/ \E e \in Found(n, v) :
              /\ entries' = IF entries[e].removed
                            THEN [entries EXCEPT ![e].removed = FALSE, ![e].marker = NoMarker]
                            ELSE entries
              /\ \/ \E t \in Like(e, s) : texts[t].removed /\ RestoreText(t)
                 \/ Like(e, s) = {} /\ InsertText(e, s)
    /\ UNCHANGED <<removals, taken>>

-----------------------------------------------------------------------------
(* Changing.  Only active rows are renamed, but the unique index also      *)
(* counts the removed ones.                                                *)

\* Mutant: the removed rows are renamed too.
UpdateCommandRemovedToo(n, new) ==
    /\ n # new /\ Active(n) # {}
    /\ \A e \in Active(n) : Found(new, entries[e].variant) = {}
    /\ entries' = [e \in DOMAIN entries |->
                      IF entries[e].name = n THEN [entries[e] EXCEPT !.name = new] ELSE entries[e]]
    /\ UNCHANGED <<texts, removals, taken>>

UpdateCommand(n, new) ==
    /\ n # new /\ Active(n) # {}
    /\ \A e \in Active(n) : Found(new, entries[e].variant) = {}
    /\ entries' = [e \in DOMAIN entries |->
                      IF e \in Active(n) THEN [entries[e] EXCEPT !.name = new] ELSE entries[e]]
    /\ UNCHANGED <<texts, removals, taken>>

UpdateCommandVariant(n, v, new) ==
    /\ v # new /\ Found(n, new) = {}
    /\ \E e \in ActiveVariant(n, v) : entries' = [entries EXCEPT ![e].variant = new]
    /\ UNCHANGED <<texts, removals, taken>>

UpdateCommandText(n, v, t, s) ==
    /\ \E e \in ActiveVariant(n, v) : t \in TextsOf(e) /\ Like(e, s) \subseteq {t}
    /\ ~texts[t].removed
    /\ texts' = [texts EXCEPT ![t].text = s]
    /\ UNCHANGED <<entries, removals, taken>>

-----------------------------------------------------------------------------
(* Removing.                                                               *)

RemoveCommand(n) ==
    Active(n) # {} /\ SoftDelete(Active(n))

RemoveCommandVariant(n, v) ==
    ActiveVariant(n, v) # {} /\ SoftDelete(ActiveVariant(n, v))

RemoveCommandText(n, v, t) ==
    /\ \E e \in ActiveVariant(n, v) : t \in TextsOf(e)
    /\ ~texts[t].removed
    /\ texts' = [texts EXCEPT ![t].removed = TRUE]
    /\ UNCHANGED <<entries, removals, taken>>

-----------------------------------------------------------------------------
(* Restoring.                                                              *)

\* Mutant: every removed variant of the name, whenever it was removed.
RestoreCommandAll(n) ==
    LET removed == {e \in DOMAIN entries : entries[e].name = n /\ entries[e].removed}
    IN  /\ removed # {}
        /\ entries' = [e \in DOMAIN entries |->
                          IF e \in removed
                          THEN [entries[e] EXCEPT !.removed = FALSE, !.marker = NoMarker]
                          ELSE entries[e]]
        /\ texts' = [t \in DOMAIN texts |->
                        IF texts[t].entry \in removed
                           /\ texts[t].marker = entries[texts[t].entry].marker
                        THEN [texts[t] EXCEPT !.removed = FALSE, !.marker = NoMarker]
                        ELSE texts[t]]
        /\ UNCHANGED <<removals, taken>>

\* The latest removal of a row of this name, on every row of this name that bears
\* its marker.
RestoreCommand(n) ==
    LET removed == {e \in DOMAIN entries : entries[e].name = n /\ entries[e].removed}
    IN  \E last \in {entries[e].marker : e \in removed} :
            /\ last # NoMarker /\ \A e \in removed : entries[e].marker <= last
            /\ RestoreDeletion(last,
                   {e \in DOMAIN entries : entries[e].name = n /\ entries[e].marker = last})

RestoreCommandVariant(n, v) ==
    \E e \in Found(n, v) :
        /\ entries[e].removed /\ entries[e].marker # NoMarker
        /\ RestoreDeletion(entries[e].marker, {e})

RestoreCommandText(n, v, t) ==
    /\ \E e \in ActiveVariant(n, v) : t \in TextsOf(e)
    /\ texts[t].removed
    /\ RestoreText(t)
    /\ UNCHANGED <<entries, removals, taken>>

-----------------------------------------------------------------------------

Next ==
    \/ \E n \in Names : AddCommand(n) \/ RemoveCommand(n) \/ RestoreCommand(n)
    \/ \E n, new \in Names : UpdateCommand(n, new)
    \/ \E n \in Names, v \in Variants :
           \/ AddCommandVariant(n, v)
           \/ RemoveCommandVariant(n, v)
           \/ RestoreCommandVariant(n, v)
           \/ \E new \in Variants : UpdateCommandVariant(n, v, new)
           \/ \E s \in Texts : AddCommandText(n, v, s)
           \/ \E t \in DOMAIN texts :
                  \/ RemoveCommandText(n, v, t)
                  \/ RestoreCommandText(n, v, t)
                  \/ \E s \in Texts : UpdateCommandText(n, v, t, s)

Spec == Init /\ [][Next]_vars

-----------------------------------------------------------------------------
(* Properties.                                                             *)

\* A text is served only under a row that is: removing a command or a variant
\* leaves none of its texts active, whatever was added and restored before, and an
\* active text bears no marker that a later restore would find it by.
NoOrphans ==
    \A t \in DOMAIN texts :
        ~texts[t].removed =>
            ~entries[texts[t].entry].removed /\ texts[t].marker = NoMarker

Restores == \E n \in Names : RestoreCommand(n) \/ \E v \in Variants : RestoreCommandVariant(n, v)

\* Restoring undoes removing: a row that a restore gives back has exactly the texts
\* it had when it was removed, in their wording, and not those removed from it one
\* by one before.  Any number of other operations can lie between the two.
RestoreUndoesRemove ==
    [][Restores =>
           \A e \in DOMAIN entries :
               entries[e].removed /\ ~entries'[e].removed => Shown(e)' = taken[e].texts]_vars

\* restoreCommand takes back one removal: of the removed rows of the name it gives
\* back those that went with the one removed last, and no others.
RestoreIsOneRemoval ==
    [][\A n \in Names : RestoreCommand(n) =>
           \A e \in DOMAIN entries :
               entries[e].removed =>
                   (~entries'[e].removed <=>
                        /\ entries[e].name = n
                        /\ \A f \in DOMAIN entries :
                               entries[f].name = n /\ entries[f].removed =>
                                   taken[f].by <= taken[e].by)]_vars
=============================================================================
