----------------------------- MODULE Interning ------------------------------
(***************************************************************************)
(* The interning tables of a Project: string_table.cpp, identity.cpp and   *)
(* assign_table.cpp.                                                       *)
(*                                                                         *)
(* A table has the entries of its baseline (the compiled image of the last *)
(* construction), which only the image's own index finds, and local        *)
(* entries behind them.  An identity is its slot; slot 1 is the root.      *)
(***************************************************************************)
EXTENDS OpenIndex

CONSTANTS Texts,            \* the spellings that are interned
          IdentityKinds,    \* kinds of identities other than the root
          MaxStrings,       \* bounds on the entries of a table
          MaxIdentities

ASSUME InterningBounds == MaxStrings \in Nat /\ MaxIdentities \in Nat

\* A key names a parent, a name and a kind.
IdentityKeys == [parent : 1 .. MaxIdentities, name : 1 .. MaxStrings, kind : IdentityKinds]

ASSUME HashPositive ==
    /\ \A text \in Texts : HashOf("string", text) \in Nat \ {0}
    /\ \A key \in IdentityKeys : HashOf("identity", key) \in Nat \ {0}

VARIABLES strings, identities

internVars == <<strings, identities>>

-----------------------------------------------------------------------------
(***************************************************************************)
(* Strings.                                                                *)
(***************************************************************************)
EmptyStrings == [base |-> <<>>, local |-> <<>>, index |-> <<>>]

AllStrings(t) == t.base \o t.local

FindString_HashOnly(t, text) ==
    LET found == LookupIndex(t.index, HashOf("string", text), DOMAIN AllStrings(t))
    IN IF found # 0 THEN found ELSE SlotOf(t.base, text)

\* The local index first, then the baseline's.
FindString(t, text) ==
    LET holders == {raw \in DOMAIN AllStrings(t) : AllStrings(t)[raw] = text}
        found == LookupIndex(t.index, HashOf("string", text), holders)
    IN IF found # 0 THEN found ELSE SlotOf(t.base, text)

\* fails: memory runs out after the index was prepared, and the arena and the
\* records are rolled back.
InternString(t, text, fails) ==
    IF FindString(t, text) # 0 THEN t
    ELSE LET index == EnsureIndexCapacity("string", t.index, t.local, Len(t.base))
         IN IF fails THEN [t EXCEPT !.index = index]
            ELSE [t EXCEPT !.local = Append(@, text),
                           !.index = InsertIndex(index, HashOf("string", text),
                                                 Len(AllStrings(t)) + 1)]

-----------------------------------------------------------------------------
(***************************************************************************)
(* Identities: a parent, a name and a kind.                                *)
(***************************************************************************)
RootIdentity == [parent |-> 0, name |-> 0, kind |-> "root"]

EmptyIdentities == [base |-> <<RootIdentity>>, local |-> <<>>, index |-> <<>>]

AllIdentities(t) == t.base \o t.local

\* Only a local entry matches a local index entry.
FindIdentity(t, key) ==
    LET holders == {raw \in DOMAIN AllIdentities(t) :
                        raw > Len(t.base) /\ AllIdentities(t)[raw] = key}
        found == LookupIndex(t.index, HashOf("identity", key), holders)
    IN IF found # 0 THEN found ELSE SlotOf(t.base, key)

CanResolve(s, t, key) ==
    /\ key.parent \in DOMAIN AllIdentities(t)
    /\ key.name \in DOMAIN AllStrings(s)
    /\ key.kind # "root"

ResolveIdentity(s, t, key, fails) ==
    IF ~CanResolve(s, t, key) \/ FindIdentity(t, key) # 0 THEN t
    ELSE LET index == EnsureIndexCapacity("identity", t.index, t.local, Len(t.base))
         IN IF fails THEN [t EXCEPT !.index = index]
            ELSE [t EXCEPT !.local = Append(@, key),
                           !.index = InsertIndex(index, HashOf("identity", key),
                                                 Len(AllIdentities(t)) + 1)]

-----------------------------------------------------------------------------
(***************************************************************************)
(* Assigns: pairs of a source and a target text, stored behind each other  *)
(* in one byte arena.                                                      *)
(***************************************************************************)
AssignBytes(table) ==
    FoldLeft(LAMBDA sum, r : sum + r.sourceLength + r.targetLength, 0, table)

AddAssign(table, sourceLength, targetLength) ==
    IF sourceLength = 0 \/ targetLength = 0 THEN table
    ELSE Append(table, [source |-> AssignBytes(table), sourceLength |-> sourceLength,
                        target |-> AssignBytes(table) + sourceLength,
                        targetLength |-> targetLength])

-----------------------------------------------------------------------------
Keys(t) == [parent : DOMAIN AllIdentities(t), name : DOMAIN AllStrings(strings),
            kind : IdentityKinds]

InternText(text, fails) ==
    /\ Len(AllStrings(strings)) < MaxStrings
    /\ strings' = InternString(strings, text, fails)
    /\ UNCHANGED identities

ResolveKey(key, fails) ==
    /\ Len(AllIdentities(identities)) < MaxIdentities
    /\ identities' = ResolveIdentity(strings, identities, key, fails)
    /\ UNCHANGED strings

\* BUILD starts with empty local tables over the image of the last construction.
BindTables ==
    /\ strings.local # <<>> \/ identities.local # <<>>
    /\ strings' = [EmptyStrings EXCEPT !.base = AllStrings(strings)]
    /\ identities' = [EmptyIdentities EXCEPT !.base = AllIdentities(identities)]

InterningInit == strings = EmptyStrings /\ identities = EmptyIdentities

InterningNext ==
    \/ \E text \in Texts, fails \in BOOLEAN : InternText(text, fails)
    \/ \E key \in Keys(identities), fails \in BOOLEAN : ResolveKey(key, fails)
    \/ BindTables

InterningSpec == InterningInit /\ [][InterningNext]_internVars

\* However hashes collide and whichever side of the baseline an entry is on,
\* every spelling and every identity is found under its own slot and under no
\* other, a parent precedes its children, and an index always keeps an empty
\* entry that ends a probe (string_table::find_hashed, identity_space::find).
InterningExact ==
    /\ \A s \in DOMAIN AllStrings(strings) : FindString(strings, AllStrings(strings)[s]) = s
    /\ \A text \in Texts \ Range(AllStrings(strings)) : FindString(strings, text) = 0
    /\ \A i \in DOMAIN AllIdentities(identities) \ {1} :
          LET key == AllIdentities(identities)[i] IN
          /\ FindIdentity(identities, key) = i
          /\ key.parent < i
          /\ key.name \in DOMAIN AllStrings(strings)
    /\ \A index \in {strings.index, identities.index} \ {<<>>} : NoEntry \in Range(index)
=============================================================================
