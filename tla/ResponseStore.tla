----------------------------- MODULE ResponseStore -----------------------------
(***************************************************************************)
(* What the commands of CommandResponseRepository promise: a shelf with    *)
(* the texts of every command and variant, and a bin that keeps what was   *)
(* removed, by the removal that took it, until it is restored.  There are  *)
(* no rows here, no deletion ids and no removed flags.                     *)
(***************************************************************************)
EXTENDS Naturals

CONSTANTS Names, Variants, Default, Texts, Fold

VARIABLES
    shelf,      \* the texts of each <<name, variant>> that chat can use
    bin,        \* for each one that was removed: by which removal, and its texts
    removals    \* how many removals there have been

vars == <<shelf, bin, removals>>

Nothing == [k \in {} |-> {}]

Init == shelf = Nothing /\ bin = Nothing /\ removals = 0

Keys == Names \X Variants
Of(n, f) == {k \in DOMAIN f : k[1] = n}
Without(f, ks) == [k \in DOMAIN f \ ks |-> f[k]]
With(f, g) == [k \in DOMAIN f \cup DOMAIN g |-> IF k \in DOMAIN g THEN g[k] ELSE f[k]]

Alike(s, t) == Fold[s] = Fold[t]
TextsAt(k) == IF k \in DOMAIN shelf THEN shelf[k] ELSE {}

Gone == DOMAIN bin \ DOMAIN shelf

\* What was removed from k stays in the bin: restoring it adds to what k has by then.
Add(k) ==
    /\ k \notin DOMAIN shelf /\ shelf' = With(shelf, [j \in {k} |-> {}])
    /\ UNCHANGED <<bin, removals>>

\* A text removed before comes back in the wording it had then.  A place that is
\* added with its first text starts anew.
AddText(k, s) ==
    /\ \A t \in TextsAt(k) : ~Alike(s, t)
    /\ \E t \in Texts :
           /\ Alike(s, t)
           /\ shelf' = With(shelf, [j \in {k} |-> TextsAt(k) \cup {t}])
    /\ bin' = IF k \in Gone THEN Without(bin, {k})
              ELSE [j \in DOMAIN bin |->
                       IF j = k THEN [bin[k] EXCEPT !.texts = {t \in @ : ~Alike(s, t)}]
                       ELSE bin[j]]
    /\ UNCHANGED removals

UpdateText(k, old, s) ==
    /\ old \in TextsAt(k) /\ \A t \in TextsAt(k) \ {old} : ~Alike(s, t)
    /\ shelf' = [shelf EXCEPT ![k] = (@ \ {old}) \cup {s}]
    /\ UNCHANGED <<bin, removals>>

RemoveText(k, s) ==
    /\ s \in TextsAt(k) /\ shelf' = [shelf EXCEPT ![k] = @ \ {s}]
    /\ UNCHANGED <<bin, removals>>

\* f with what it has at k moved to to[k].
Moved(f, to) ==
    LET ks == DOMAIN to \cap DOMAIN f
    IN  With(Without(f, ks),
             [p \in {to[k] : k \in ks} |-> f[CHOOSE k \in ks : to[k] = p]])

\* ... which are places that neither the shelf nor the bin has.
Rename(to) ==
    /\ DOMAIN to # {}
    /\ {to[k] : k \in DOMAIN to} \cap (DOMAIN shelf \cup DOMAIN bin) = {}
    /\ shelf' = Moved(shelf, to) /\ bin' = Moved(bin, to)
    /\ UNCHANGED removals

Remove(ks) ==
    /\ ks # {} /\ removals' = removals + 1
    /\ shelf' = Without(shelf, ks)
    /\ bin' = With(bin, [k \in ks |-> [by |-> removals + 1, texts |-> shelf[k]]])

Restore(ks) ==
    /\ ks # {} /\ bin' = Without(bin, ks)
    /\ shelf' = With(shelf, [k \in ks |-> TextsAt(k) \cup bin[k].texts])
    /\ UNCHANGED removals

\* What one removal took from name n: the last one that took what is still gone.
LastRemoved(n) ==
    {k \in Of(n, bin) : \E g \in Of(n, bin) \cap Gone :
                            /\ bin[k].by = bin[g].by
                            /\ \A j \in Of(n, bin) \cap Gone : bin[j].by <= bin[g].by}

Next ==
    \/ \E n \in Names : Remove(Of(n, shelf)) \/ Restore(LastRemoved(n))
    \/ \E n, new \in Names : Rename([k \in Of(n, shelf) |-> <<new, k[2]>>])
    \/ \E k \in Keys :
           \/ Add(k)
           \/ k \in DOMAIN shelf /\ Remove({k})
           \/ k \in Gone /\ Restore({k})
           \/ \E s \in Texts : AddText(k, s) \/ RemoveText(k, s)
           \/ \E s, old \in Texts : UpdateText(k, old, s)
           \/ k \in DOMAIN shelf /\ \E v \in Variants :
                  Rename([j \in {k} |-> <<k[1], v>>])

Spec == Init /\ [][Next]_vars
=============================================================================
