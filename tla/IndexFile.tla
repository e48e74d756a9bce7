------------------------------- MODULE IndexFile -------------------------------
(***************************************************************************)
(* The on-disk index of api/index: how a payload is laid out in sections,  *)
(* string tables and dependency records, how the lookups read them, and    *)
(* what update.rs reports of two generations of it.                        *)
(*                                                                         *)
(* A name is the sequence of its bytes.  A section is a sequence of cells: *)
(* bytes, or the u32 offsets of a table.  The state is a payload and the   *)
(* one before it, which the server edits entry by entry.                   *)
(***************************************************************************)
EXTENDS Naturals, Sequences, SequencesExt, FiniteSets, FiniteSetsExt

CONSTANTS
    Names,      \* formula names, aliases and old names, as sequences of bytes
    Versions,   \* package versions
    Formulae,   \* what the server may say of a formula, of Formula
    MaxEntries, \* bound: formulae, aliases and renames of a payload
    MaxBefore   \* bound: those of a payload that is released

VARIABLES payload, before

vars == <<payload, before>>

-------------------------------------------------------------------------------
(* A payload: formulae with what the compact tables keep of them, aliases   *)
(* and renames.  BTreeMap sorts every map by the bytes of its keys.         *)

Dep == [name : Names, tags : SUBSET {"build", "test", "macos"}, since : 0..255]
Formula == [version : Versions, flags : SUBSET {"bottle", "keg_only"}, deps : Seq(Dep), oldnames : SUBSET Names]

NoEntries == [x \in {} |-> {}]

Less(a, b) ==
    \E i \in 1..Len(b) : /\ \A j \in 1..(i - 1) : j <= Len(a) /\ a[j] = b[j]
                         /\ i > Len(a) \/ a[i] < b[i]
SortedKeys(m) == SetToSortSeq(DOMAIN m, Less)

-------------------------------------------------------------------------------
(* Writing *)

\* fflag and depflag.
Bit(flag) == CASE flag \in {"bottle", "build"} -> 1 [] flag \in {"keg_only", "test"} -> 2 [] flag = "macos" -> 32
Byte(flags) == SumSet({Bit(flag) : flag \in flags})
HasBit(byte, flag) == (byte \div Bit(flag)) % 2 = 1

\* Writer::blobs: the items end to end, and where each begins and ends.
Blob(items) == FlattenSeq(items)
Offset(items, i) == FoldLeft(LAMBDA n, item : n + Len(item), 0, SubSeq(items, 1, i))
Offsets(items) == [i \in 1..(Len(items) + 1) |-> Offset(items, i - 1)]
Strings(items) == [blob |-> Blob(items), idx |-> Offsets(items)]

\* push_dep_record: flags, since, the length in two bytes, the name.
\* Mutant: the length is that of the whole record.
DepRecordLong(dep) == <<Byte(dep.tags), dep.since, (Len(dep.name) + 4) % 256, (Len(dep.name) + 4) \div 256>> \o dep.name
DepRecord(dep) == <<Byte(dep.tags), dep.since, Len(dep.name) % 256, Len(dep.name) \div 256>> \o dep.name

\* oldnames of every formula, mapped to it: the last formula that claims one.
OldNames(formulae) ==
    LET claimed == UNION {formulae[n].oldnames : n \in DOMAIN formulae}
    IN [old \in claimed |-> CHOOSE n \in DOMAIN formulae :
            /\ old \in formulae[n].oldnames
            /\ \A m \in DOMAIN formulae : old \in formulae[m].oldnames /\ m # n => Less(m, n)]

\* Writer::map: two tables in the order of the keys.
Table(m) == LET keys == SortedKeys(m) IN [keys |-> Strings(keys), vals |-> Strings([i \in 1..Len(keys) |-> m[keys[i]]])]

\* encode_payload with build_formula_row.
Encode(p) ==
    LET names == SortedKeys(p.formulae)
        row(i) == p.formulae[names[i]]
    IN [f_names  |-> Strings(names),
        f_pkgver |-> Strings([i \in 1..Len(names) |-> row(i).version]),
        f_flags  |-> [i \in 1..Len(names) |-> Byte(row(i).flags)],
        f_deps   |-> Strings([i \in 1..Len(names) |-> FlattenSeq([j \in 1..Len(row(i).deps) |-> DepRecord(row(i).deps[j])])]),
        fa       |-> Table(p.aliases),
        fr       |-> Table(p.renames),
        fo       |-> Table(OldNames(p.formulae))]

\* Writer::finish: every section begins at the next multiple of 8 after the
\* header and the directory; at(i) is where section i begins.
HeaderLen == 48
RecordLen == 32
\* Mutant: the padding is counted but the section begins before it.
LayoutUnpadded(lens) ==
    LET at[i \in 1..Len(lens)] == IF i = 1 THEN HeaderLen + RecordLen * Len(lens) ELSE at[i - 1] + lens[i - 1]
    IN [i \in 1..Len(lens) |-> at[i]]
Layout(lens) ==
    LET aligned(n) == n + ((8 - (n % 8)) % 8)
        at[i \in 1..Len(lens)] == aligned(IF i = 1 THEN HeaderLen + RecordLen * Len(lens) ELSE at[i - 1] + lens[i - 1])
    IN [i \in 1..Len(lens) |-> at[i]]
\* The lengths in bytes: an offset takes four.
Lens(index) == <<Len(index.f_names.blob), 4 * Len(index.f_names.idx), Len(index.f_flags),
                 Len(index.f_deps.blob), 4 * Len(index.f_deps.idx)>>

-------------------------------------------------------------------------------
(* Reading *)

\* blob_item and blob_len: rows count from 0.
Item(table, i) ==
    IF i + 2 > Len(table.idx) \/ table.idx[i + 2] > Len(table.blob) THEN <<>>
    ELSE SubSeq(table.blob, table.idx[i + 1] + 1, table.idx[i + 2])
Rows(table) == IF Len(table.idx) < 2 THEN 0 ELSE Len(table.idx) - 1

\* find_in_table: the row of a key by binary search, or Rows when there is none.
\* Mutant: the upper half is searched without its last row.
FindShort(table, key) ==
    LET search[lo \in 0..Rows(table), hi \in 0..Rows(table)] ==
          IF lo >= hi THEN Rows(table)
          ELSE LET mid == (lo + hi) \div 2
                   row == Item(table, mid)
               IN IF row = key THEN mid ELSE IF Less(row, key) THEN search[mid + 1, IF hi > 0 THEN hi - 1 ELSE 0] ELSE search[lo, mid]
    IN search[0, Rows(table)]
Find(table, key) ==
    LET search[lo \in 0..Rows(table), hi \in 0..Rows(table)] ==
          IF lo >= hi THEN Rows(table)
          ELSE LET mid == (lo + hi) \div 2
                   row == Item(table, mid)
               IN IF row = key THEN mid ELSE IF Less(row, key) THEN search[mid + 1, hi] ELSE search[lo, mid]
    IN search[0, Rows(table)]
Found(table, key) == Find(table, key) < Rows(table)

\* decode_dep_records: a record that is cut short ends the list.
Decode(bytes) ==
    LET from[i \in 1..(Len(bytes) + 1)] ==
          IF Len(bytes) < i + 3 THEN <<>>
          ELSE LET len == bytes[i + 2] + 256 * bytes[i + 3]
               IN IF Len(bytes) < i + 3 + len THEN <<>>
                  ELSE <<[name  |-> SubSeq(bytes, i + 4, i + 3 + len),
                          tags  |-> {tag \in {"build", "test", "macos"} : HasBit(bytes[i], tag)},
                          since |-> bytes[i + 1]]>> \o from[i + 4 + len]
    IN from[1]

\* What the scanning commands see of a formula, and map_lookup.
FormulaAt(index, name) ==
    LET i == Find(index.f_names, name)
    IN [version |-> Item(index.f_pkgver, i),
        flags   |-> {flag \in {"bottle", "keg_only"} : HasBit(index.f_flags[i + 1], flag)},
        deps    |-> Decode(Item(index.f_deps, i))]
Lookup(table, key) == IF Found(table.keys, key) THEN <<Item(table.vals, Find(table.keys, key))>> ELSE <<>>

\* simplify and search_formula_names: names and aliases that contain the query
\* when both are lower case letters, digits, @ and + only.
Simplify(s) ==
    LET kept == SelectSeq(s, LAMBDA c : c \in (48..57) \cup (64..90) \cup (97..122) \cup {43})
    IN [i \in 1..Len(kept) |-> IF kept[i] \in 65..90 THEN kept[i] + 32 ELSE kept[i]]
Search(index, query) ==
    LET all == {Item(index.f_names, i) : i \in 0..(Rows(index.f_names) - 1)}
               \cup {Item(index.fa.keys, i) : i \in 0..(Rows(index.fa.keys) - 1)}
        contains(s) == \E i \in 0..Len(s) : i + Len(Simplify(query)) <= Len(s) /\ SubSeq(s, i + 1, i + Len(Simplify(query))) = Simplify(query)
    IN {s \in all : contains(Simplify(s))}

-------------------------------------------------------------------------------
(* diff of two generations *)

\* Mutant: a name that is a rename in the old generation too is renamed again.
RenamedAlways(old, new) ==
    {<<n, new.renames[n]>> : n \in (DOMAIN old.formulae \cap DOMAIN new.renames) \ DOMAIN new.formulae}
\* Names that are gone and that only the new generation renames.
Renamed(old, new) ==
    {<<n, new.renames[n]>> : n \in (DOMAIN old.formulae \cap DOMAIN new.renames) \ (DOMAIN new.formulae \cup DOMAIN old.renames)}
Report(old, new) ==
    [new     |-> DOMAIN new.formulae \ DOMAIN old.formulae,
     updated |-> {n \in DOMAIN new.formulae \cap DOMAIN old.formulae : new.formulae[n].version # old.formulae[n].version},
     renamed |-> Renamed(old, new),
     deleted |-> {n \in DOMAIN old.formulae \ DOMAIN new.formulae : \A pair \in Renamed(old, new) : pair[1] # n}]

-------------------------------------------------------------------------------
(* The server's edits (outside of this repository) *)

Entries(p) == Cardinality(DOMAIN p.formulae) + Cardinality(DOMAIN p.renames) + Cardinality(DOMAIN p.aliases)
With(m, key, value) == [k \in DOMAIN m \cup {key} |-> IF k = key THEN value ELSE m[k]]
Without(m, key) == [k \in DOMAIN m \ {key} |-> m[k]]

\* A formula that is new or has changed.
Put ==
    /\ \E name \in Names, f \in Formulae : payload' = [payload EXCEPT !.formulae = With(@, name, f)]
    /\ Entries(payload') <= MaxEntries
    /\ UNCHANGED before
Alias ==
    /\ \E alias \in Names : \E name \in DOMAIN payload.formulae :
         payload' = [payload EXCEPT !.aliases = With(@, alias, name)]
    /\ Entries(payload') <= MaxEntries
    /\ UNCHANGED before
\* A formula moves to another name, and the rename stays in the list.
Move ==
    /\ \E old \in DOMAIN payload.formulae, name \in Names :
         payload' = [payload EXCEPT !.formulae = With(Without(@, old), name, payload.formulae[old]),
                                    !.renames = With(@, old, name)]
    /\ Entries(payload') <= MaxEntries
    /\ UNCHANGED before
Drop ==
    /\ \E name \in DOMAIN payload.formulae : payload' = [payload EXCEPT !.formulae = Without(@, name)]
    /\ UNCHANGED before
Release == before # payload /\ Entries(payload) <= MaxBefore /\ before' = payload /\ UNCHANGED payload

Init == payload = [formulae |-> NoEntries, aliases |-> NoEntries, renames |-> NoEntries] /\ before = payload
Next == Put \/ Alias \/ Move \/ Drop \/ Release
Spec == Init /\ [][Next]_vars

-------------------------------------------------------------------------------
(* Properties *)

\* Every lookup through the index file gives what the payload says, and finds
\* nothing else: rows of all tables line up, offsets cut the blobs between the
\* names, the binary search reaches every row and the records keep their dependencies.
LookupsAgree ==
    LET index == Encode(payload)
    IN \A name \in Names :
         /\ Found(index.f_names, name) <=> name \in DOMAIN payload.formulae
         /\ name \in DOMAIN payload.formulae =>
              LET f == payload.formulae[name]
              IN FormulaAt(index, name) = [version |-> f.version, flags |-> f.flags, deps |-> f.deps]
         /\ Lookup(index.fa, name) = IF name \in DOMAIN payload.aliases THEN <<payload.aliases[name]>> ELSE <<>>
         /\ \A target \in Range(Lookup(index.fo, name)) : name \in payload.formulae[target].oldnames

\* The sections of the file do not overlap and u32 reads stay aligned.
SectionsFit ==
    LET lens == Lens(Encode(payload))
        at == Layout(lens)
    IN /\ \A i \in DOMAIN lens : at[i] % 8 = 0 /\ at[i] >= HeaderLen + RecordLen * Len(lens)
       /\ \A i, j \in DOMAIN lens : i < j => at[i] + lens[i] <= at[j]

\* A formula or alias is found by a search for its own name, however its
\* punctuation and case are simplified.
OwnNameIsFound ==
    \A name \in DOMAIN payload.formulae \cup DOMAIN payload.aliases : name \in Search(Encode(payload), name)

\* The report of an update accounts for every change: the old names, less those
\* reported deleted and renamed, with the new ones, are the names there are now,
\* and no name is reported both deleted and renamed.
ReportIsTheChange ==
    LET r == Report(before, payload)
        left == r.deleted \cup {pair[1] : pair \in r.renamed}
    IN /\ (DOMAIN before.formulae \ left) \cup r.new = DOMAIN payload.formulae
       /\ \A pair \in r.renamed : pair[1] \notin r.deleted /\ pair[1] \notin DOMAIN before.renames

=================================================================================
