--------------------------------- MODULE MachO ---------------------------------
(***************************************************************************)
(* The load-command editor (bottle/macho.rs) and the patching of prefixes  *)
(* in the C strings of a binary (bottle/relocate.rs), as algorithms on one *)
(* file.  An image is a sequence of slices, a slice the sizes, kinds and   *)
(* names of its load commands and where the data of its first section      *)
(* starts; a string table is a sequence of bytes.  Both grow, an element   *)
(* at a time, to every input within the bounds.                            *)
(***************************************************************************)
EXTENDS Integers, Sequences, SequencesExt, FiniteSets

CONSTANTS
    Names,        \* of libraries and rpaths
    NameLength,   \* [Names -> Nat]
    NewName,      \* [Names -> Names \cup {None}]: the caller's `map`
    None,
    Pads,         \* bytes there may be between the commands and the first section
    MaxSlices, MaxCommands,
    Bytes, Nul,   \* of a string table; the NUL byte among them
    Control,      \* those that no C string holds
    OldPrefix, NewPrefix,
    MaxBytes,     \* longest string table
    MaxString     \* MAX_C_STRING_BYTESIZE

VARIABLES image, table

vars == <<image, table>>

-------------------------------------------------------------------------------
(* Load commands *)

HeaderSize(slice) == IF slice.is64 THEN 32 ELSE 28
Alignment == 8
RoundUp(n) == ((n + Alignment - 1) \div Alignment) * Alignment
\* Where the string of a name command is (str_off); what is not a name command has none.
StringOffset(kind) == IF kind = "rpath" THEN 12 ELSE 24
Command(kind, name) ==
    [kind |-> kind, name |-> name,
     size |-> IF kind = "segment" THEN 72 ELSE RoundUp(StringOffset(kind) + NameLength[name] + 1)]
IsNameCommand(c) == c.kind # "segment"

RECURSIVE SizeOf(_)
SizeOf(cs) == IF cs = <<>> THEN 0 ELSE cs[1].size + SizeOf(Tail(cs))
\* low_fileoff; a slice is written down with the pad its linker left.
LowFileoff(slice) == slice.low
\* The fixed fields stay, the string is packed anew.
Repacked(c, new) == [c EXCEPT !.name = new, !.size = RoundUp(StringOffset(c.kind) + NameLength[new] + 1)]
Replaceable(c) == IsNameCommand(c) /\ NewName[c.name] \notin {None, c.name}

\* plan_slice: the slice anew, [res |-> "unchanged"], or what is wrong with it.
Region(slice) == [i \in DOMAIN slice.cmds |->
    IF Replaceable(slice.cmds[i]) THEN Repacked(slice.cmds[i], NewName[slice.cmds[i].name]) ELSE slice.cmds[i]]
\* Mutant: the region is measured without the header.
FitsWithoutHeader(slice) == SizeOf(Region(slice)) <= LowFileoff(slice)
Fits(slice) == HeaderSize(slice) + SizeOf(Region(slice)) <= LowFileoff(slice)
PlanSlice(slice) ==
    CASE slice.truncated -> [res |-> "parse"]
      [] ~slice.truncated /\ ~\E i \in DOMAIN slice.cmds : Replaceable(slice.cmds[i]) -> [res |-> "unchanged"]
      [] OTHER -> IF Fits(slice) THEN [res |-> "edit", slice |-> [slice EXCEPT !.cmds = Region(slice)]]
                  ELSE [res |-> "nopad"]

\* rewrite_install_names: every slice is planned before the file is touched;
\* a 32-bit slice is left alone.
Plans(im) == [i \in DOMAIN im |-> IF im[i].is64 THEN PlanSlice(im[i]) ELSE [res |-> "unchanged"]]
FirstFailure(ps) == SelectInSeq(ps, LAMBDA p : p.res \in {"parse", "nopad"})
\* Mutant: slices are written as they are planned.
RewriteAsPlanned(im) ==
    LET ps == Plans(im)
        k == FirstFailure(ps) IN
    [res |-> IF k # 0 THEN ps[k].res ELSE "ok",
     image |-> [i \in DOMAIN im |-> IF (k = 0 \/ i < k) /\ ps[i].res = "edit" THEN ps[i].slice ELSE im[i]]]
Rewrite(im) ==
    LET ps == Plans(im)
        k == FirstFailure(ps) IN
    IF k # 0 THEN [res |-> ps[k].res, image |-> im]
    ELSE [res |-> "ok", image |-> [i \in DOMAIN im |-> IF ps[i].res = "edit" THEN ps[i].slice ELSE im[i]]]

\* read_info: the first id, the libraries and the rpaths of all slices, each once.
OfKind(slice, kind) == {slice.cmds[i].name : i \in {j \in DOMAIN slice.cmds : slice.cmds[j].kind = kind}}
ReadInfo(im) ==
    LET first(kind) == SelectInSeq(im, LAMBDA s : OfKind(s, kind) # {})
        idOf(s) == s.cmds[SelectInSeq(s.cmds, LAMBDA c : c.kind = "id")].name IN
    [id |-> IF first("id") = 0 THEN None ELSE idOf(im[first("id")]),
     libraries |-> UNION {OfKind(im[i], "dylib") : i \in DOMAIN im},
     rpaths |-> UNION {OfKind(im[i], "rpath") : i \in DOMAIN im}]

\* install_name_tool (external) is given one change for each name read_info
\* finds, and lays the file out anew.
Arguments(im) ==
    LET info == ReadInfo(im)
        changed(S) == {n \in S : NewName[n] \notin {None, n}} IN
    [id |-> IF info.id # None /\ NewName[info.id] \notin {None, info.id} THEN NewName[info.id] ELSE None,
     change |-> changed(info.libraries), rpath |-> changed(info.rpaths)]
InstallNameTool(im) ==
    LET a == Arguments(im)
        new(c) == CASE c.kind = "id" /\ a.id # None -> Repacked(c, a.id)
                    [] c.kind = "dylib" /\ c.name \in a.change -> Repacked(c, NewName[c.name])
                    [] c.kind = "rpath" /\ c.name \in a.rpath -> Repacked(c, NewName[c.name])
                    [] OTHER -> c IN
    [i \in DOMAIN im |->
        LET cs == [j \in DOMAIN im[i].cmds |-> new(im[i].cmds[j])] IN
        [im[i] EXCEPT !.cmds = cs, !.low = HeaderSize(im[i]) + SizeOf(cs)]]
\* relocate_dynamic_linkage of one file
Relocated(im) ==
    LET r == Rewrite(im) IN
    IF r.res = "nopad" THEN [res |-> "ok", image |-> InstallNameTool(im)] ELSE r

-------------------------------------------------------------------------------
(* Prefixes in C strings *)

StartsAt(s, i, p) == i + Len(p) - 1 <= Len(s) /\ SubSeq(s, i, i + Len(p) - 1) = p
ContainsPrefix(s, p) == \E i \in DOMAIN s : StartsAt(s, i, p)
\* is_c_string_candidate
IsCStringCandidate(chunk) ==
    /\ Len(chunk) <= MaxString
    /\ ContainsPrefix(chunk, OldPrefix)
    /\ \A i \in DOMAIN chunk : chunk[i] \notin Control
RECURSIVE Replaced(_, _)
Replaced(s, i) ==
    CASE i > Len(s) -> <<>>
      [] i <= Len(s) /\ StartsAt(s, i, OldPrefix) -> NewPrefix \o Replaced(s, i + Len(OldPrefix))
      [] OTHER -> <<s[i]>> \o Replaced(s, i + 1)
\* replace_prefix_preserving_length
\* Mutant: each occurrence is padded where it is.
ReplacePaddedInPlace(chunk) ==
    LET pad == [i \in 1..(Len(OldPrefix) - Len(NewPrefix)) |-> Nul]
        at(i) == IF StartsAt(chunk, i, OldPrefix) THEN NewPrefix \o pad ELSE <<>> IN
    FoldLeftDomain(LAMBDA acc, i : IF Len(acc) >= i THEN acc ELSE acc \o (IF at(i) # <<>> THEN at(i) ELSE <<chunk[i]>>), <<>>, chunk)
ReplacePreservingLength(chunk) ==
    LET out == Replaced(chunk, 1) IN out \o [i \in 1..(Len(chunk) - Len(out)) |-> Nul]
\* The first chunk of what is left, up to its NUL.
ChunkEnd(s, i) == IF \E j \in i..Len(s) : s[j] = Nul THEN (CHOOSE j \in i..Len(s) : s[j] = Nul /\ \A k \in i..(j - 1) : s[k] # Nul) - 1 ELSE Len(s)
RECURSIVE Patched(_, _)
Patched(s, i) ==
    IF i > Len(s) THEN <<>>
    ELSE LET e == ChunkEnd(s, i)
             chunk == SubSeq(s, i, e) IN
         (IF IsCStringCandidate(chunk) THEN ReplacePreservingLength(chunk) ELSE chunk)
         \o (IF e < Len(s) THEN <<Nul>> ELSE <<>>) \o Patched(s, e + 2)
\* patch_prefix_strings
PatchPrefixStrings(s) == Patched(s, 1)

-------------------------------------------------------------------------------
Init == image = <<>> /\ table = <<>>
\* A slice: its commands, then the pad its linker left.
AddSlice ==
    /\ table = <<>> /\ Len(image) < MaxSlices
    /\ \E is64 \in BOOLEAN, truncated \in BOOLEAN, pad \in Pads, n \in 1..MaxCommands :
         \E cs \in [1..n -> {Command("segment", None)} \cup {Command(k, m) : k \in {"id", "dylib", "rpath"}, m \in Names}] :
            image' = Append(image, [is64 |-> is64, truncated |-> truncated, cmds |-> cs,
                                    low |-> (IF is64 THEN 32 ELSE 28) + SizeOf(cs) + pad])
    /\ UNCHANGED table
AddByte ==
    /\ image = <<>> /\ Len(table) < MaxBytes
    /\ \E b \in Bytes : table' = Append(table, b)
    /\ UNCHANGED image
Next == AddSlice \/ AddByte
Spec == Init /\ [][Next]_vars

-------------------------------------------------------------------------------
(* Properties *)

MapOf(n) == IF NewName[n] = None THEN n ELSE NewName[n]
NameMapped(a, b) == b = [a EXCEPT !.name = b.name, !.size = b.size] /\ (IsNameCommand(a) => b.name = MapOf(a.name))
\* A file that cannot be edited is not touched, so that install_name_tool finds it whole.
RefusedIsUntouched == Rewrite(image).res # "ok" => Rewrite(image).image = image
\* What is written never reaches the data of the first section, and a name that
\* was packed has room for its NUL.
DataStays ==
    \A i \in DOMAIN image :
        LET new == Rewrite(image).image[i] IN
        /\ HeaderSize(new) + SizeOf(new.cmds) <= image[i].low
        /\ \A j \in DOMAIN new.cmds : IsNameCommand(new.cmds[j]) =>
             StringOffset(new.cmds[j].kind) + NameLength[new.cmds[j].name] < new.cmds[j].size
\* Every name of every 64-bit slice is relocated, with the pad or by install_name_tool.
LinkageIsRelocated ==
    Relocated(image).res = "ok" =>
        \A i \in DOMAIN image : image[i].is64 =>
            \A j \in DOMAIN image[i].cmds :
                \/ NameMapped(image[i].cmds[j], Relocated(image).image[i].cmds[j])
                \/ image[i].cmds[j].kind = "id" /\ Rewrite(image).res = "nopad"

\* The C string at i, as a program reads it.
CString(s, i) == SubSeq(s, i, ChunkEnd(s, i))
StringStarts(s) == {i \in DOMAIN s : i = 1 \/ s[i - 1] = Nul}
\* Patching moves nothing: every string starts where it did, and a program reads
\* there the string with our prefix, or the one that was there.
StringsStay ==
    LET new == PatchPrefixStrings(table) IN
    /\ Len(new) = Len(table)
    /\ \A i \in StringStarts(table) :
         CString(new, i) = IF IsCStringCandidate(CString(table, i)) THEN Replaced(CString(table, i), 1) ELSE CString(table, i)
MachOIsSound == RefusedIsUntouched /\ DataStays /\ LinkageIsRelocated /\ StringsStay
====
