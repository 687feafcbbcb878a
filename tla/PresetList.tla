----------------------------- MODULE PresetList -----------------------------
(***************************************************************************)
(* What the store of user presets promises: a list of named blobs in which *)
(* a save and a deletion take effect at once or not at all, and the damage *)
(* that a deletion cut short by a power loss or a refused write may do.    *)
(***************************************************************************)
EXTENDS Integers, Sequences

CONSTANTS
    Names, Fold,    \* names, and the same in lower case
    Blobs, NoBlob,  \* what a preset holds; an entry whose blob is missing
    MaxEntries

VARIABLE entries    \* a sequence of records [name, blob]

Entry == [name : Names, blob : Blobs \cup {NoBlob}]

Same(e, name) == Fold[e.name] = Fold[name]

Init ==
    /\ entries \in Seq(Entry) /\ Len(entries) <= MaxEntries
    /\ \A i, j \in DOMAIN entries : Same(entries[i], entries[j].name) => i = j

(* A name that is known in some spelling keeps its place and its spelling. *)
Save(name, blob) ==
    \/ \E i \in DOMAIN entries :
         /\ Same(entries[i], name)
         /\ entries' = [entries EXCEPT ![i].blob = blob]
    \/ /\ \A i \in DOMAIN entries : ~Same(entries[i], name)
       /\ Len(entries) < MaxEntries
       /\ entries' = Append(entries, [name |-> name, blob |-> blob])

(* The entries that outlive the deletion of i: those without a blob go too.*)
Survivors(i) == {j \in DOMAIN entries \ {i} : entries[j].blob # NoBlob}

(* f lists the members of a set of places in their order.                  *)
Lists(f, places) ==
    /\ \A j, k \in DOMAIN f : j < k => f[j] < f[k]
    /\ \A p \in places : \E k \in DOMAIN f : f[k] = p

(* The survivors keep their order and what they hold.                      *)
Delete(i) ==
    /\ entries' \in Seq(Entry)
    /\ \E f \in [DOMAIN entries' -> Survivors(i)] :
         /\ Lists(f, Survivors(i))
         /\ \A k \in DOMAIN entries' : entries'[k] = entries[f[k]]

(* The entries before the deleted one, and before any that has no blob.    *)
Untouched(i) == {j \in 1 .. i - 1 : \A k \in 1 .. j : entries[k].blob # NoBlob}

(* The deletion of i is cut short: all names stay.  The entries that need  *)
(* not move are as before; another may hold the blob of a later one, or    *)
(* none.                                                                   *)
CutDelete(i) ==
    /\ Len(entries') = Len(entries)
    /\ \A j \in DOMAIN entries :
         /\ entries'[j].name = entries[j].name
         /\ \/ entries'[j].blob = entries[j].blob
            \/ /\ j \notin Untouched(i)
               /\ \/ entries'[j].blob = NoBlob
                  \/ \E k \in DOMAIN entries : k > j /\ entries'[j].blob = entries[k].blob

Next ==
    \/ \E name \in Names, blob \in Blobs : Save(name, blob)
    \/ \E i \in DOMAIN entries : Delete(i) \/ CutDelete(i)

Spec == Init /\ [][Next]_entries
=============================================================================
