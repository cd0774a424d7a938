----------------------------- MODULE OpenIndex ------------------------------
(***************************************************************************)
(* The open-addressing index that the interning tables, the source map and *)
(* the compiled image share.  An index is a sequence of entries, each a    *)
(* fingerprint and the slot it stands for.  HashOf is the hash of a key of *)
(* a space of keys (FNV or mix64), never zero; the fingerprint of an entry *)
(* is a function of its hash, so that equal hashes have equal fingerprints.*)
(***************************************************************************)
EXTENDS Integers, Sequences, FiniteSets, SequencesExt, FiniteSetsExt

CONSTANT HashOf(_, _)

\* The slot of a value in a table without duplicates, 0 when it is absent.
SlotOf(table, value) ==
    IF \E s \in DOMAIN table : table[s] = value
    THEN CHOOSE s \in DOMAIN table : table[s] = value
    ELSE 0

NoEntry == [fp |-> 0, raw |-> 0]

\* The least capacity, doubled until the entries fill at most half of it.
IndexCapacity(n) ==
    LET doubled[k \in 0 .. n] == IF k = 0 THEN 8 ELSE 2 * doubled[k - 1]
    IN doubled[Min({k \in 0 .. n : doubled[k] >= 2 * n})]

EmptyIndex(capacity) == [p \in 1 .. capacity |-> NoEntry]

ProbeAt(index, hash, k) == ((hash + k) % Len(index)) + 1

\* Linear probing stops at the first empty entry or at the first match, an entry
\* of one of the slots that hold the key.
LookupIndex(index, hash, holders) ==
    LET hit(k) == LET e == index[ProbeAt(index, hash, k)] IN
                  e.raw # 0 /\ e.fp = hash /\ e.raw \in holders
        stops == {k \in 0 .. Len(index) - 1 :
                    hit(k) \/ index[ProbeAt(index, hash, k)].raw = 0}
    IN IF stops # {} /\ hit(Min(stops)) THEN index[ProbeAt(index, hash, Min(stops))].raw
       ELSE 0

InsertIndex(index, hash, raw) ==
    LET free == {k \in 0 .. Len(index) - 1 : index[ProbeAt(index, hash, k)].raw = 0}
    IN [index EXCEPT ![ProbeAt(index, hash, Min(free))] = [fp |-> hash, raw |-> raw]]

\* An index of capacity for the keys, whose slots start behind base.
BuildIndex(space, keys, base, capacity) ==
    LET built[n \in 0 .. Len(keys)] ==
            IF n = 0 THEN EmptyIndex(capacity)
            ELSE InsertIndex(built[n - 1], HashOf(space, keys[n]), base + n)
    IN built[Len(keys)]

\* The index grows when it would be more than half full.
EnsureIndexCapacity(space, index, keys, base) ==
    IF index # <<>> /\ 2 * (Len(keys) + 1) <= Len(index) THEN index
    ELSE BuildIndex(space, keys, base, IndexCapacity(Len(keys) + 1))
=============================================================================
