------------------------ MODULE CommandRepositoryStore ------------------------
(***************************************************************************)
(* CommandRepository implements ResponseStore: rows, deletion ids and      *)
(* removed flags are a way to keep a shelf and a bin.                      *)
(***************************************************************************)
EXTENDS CommandRepository

Key(e) == <<entries[e].name, entries[e].variant>>
Shelved == {e \in DOMAIN entries : ~entries[e].removed}
Binned == {e \in DOMAIN entries : entries[e].marker # NoMarker}
RowOf(k) == CHOOSE e \in DOMAIN entries : Key(e) = k

\* What chat can use of row e, and what a restore would find.
Usable(e) == {texts[t].text : t \in {u \in TextsOf(e) : ~texts[u].removed}}
Kept(e) ==
    {texts[t].text : t \in {u \in TextsOf(e) :
                               texts[u].removed /\ texts[u].marker = entries[e].marker}}

Shelf == [k \in {Key(e) : e \in Shelved} |-> Usable(RowOf(k))]

Bin ==
    [k \in {Key(e) : e \in Binned} |->
        [by |-> entries[RowOf(k)].marker, texts |-> Kept(RowOf(k))]]

Store == INSTANCE ResponseStore WITH shelf <- Shelf, bin <- Bin

\* Every operation does to the texts of names and variants what the store says, and
\* nothing to any other: a rename carries all of them along, a removal is undone
\* whole and with no text of another removal, whatever was added, renamed, restored
\* or removed again in between and whatever markers that left on rows and texts.
ImplementsStore == Store!Spec
=============================================================================
