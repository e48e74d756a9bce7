------------------------------ MODULE MCSources ------------------------------
(* Small instances of what fastbrew fetches, reads and decides from, for one   *)
(* run of TLC: a behaviour is one of a single part.  The parts that only       *)
(* compute have their state in s1 .. s5; what a part does not use stays None.  *)
EXTENDS Sources, Integers, Sequences, TLC

CONSTANTS
    p1, p2,      \* processes
    n1, n2, n3, n4,  \* formulae or casks
    former,      \* a former name
    t1, t2       \* taps

VARIABLES s1, s2, s3, s4, s5

TwoProcs == {p1, p2}
Symmetry == Permutations(TwoProcs)

-------------------------------------------------------------------------------
(* One file in two chunks. *)
AllKinds == {"blob", "manifest", "cask", "nocheck"}
TwoChunks == {1, 2}

-------------------------------------------------------------------------------
(* An index with the names "a", "A-a" and "ab", byte by byte. *)
IndexFormulae ==
  {[version |-> <<49>>, flags |-> {"bottle", "keg_only"}, deps |-> <<>>, oldnames |-> {<<97, 98>>}],
   [version |-> <<49, 95>>, flags |-> {"keg_only"}, oldnames |-> {<<97, 98>>},
    deps |-> <<[name |-> <<97>>, tags |-> {"build", "macos"}, since |-> 11],
               [name |-> <<97, 98>>, tags |-> {"test"}, since |-> 0]>>]}
In == INSTANCE IndexFile
    WITH Names <- {<<97>>, <<65, 45, 97>>, <<97, 98>>}, Versions <- {<<49>>, <<49, 95>>},
         Formulae <- IndexFormulae, MaxEntries <- 3, MaxBefore <- 2,
         payload <- s1, before <- s2

N(n) == [lex |-> "number", n |-> n]
W(w) == [lex |-> "word", word |-> w]
Dot == [lex |-> "dot"]
V == INSTANCE Versions
    WITH Numbers <- {0, 2}, Words <- {"p", "post", "rc", "HEAD"}, Signs <- {"dot", "underscore"}, MaxLexemes <- 5,
         Others <- {<<>>, <<N(1)>>, <<N(1), Dot, N(2)>>, <<N(1), W("alpha"), N(1)>>, <<N(1), W("rc")>>,
                    <<N(2), Dot, W("P"), N(1)>>, <<N(1), Dot, W("post"), N(2)>>, <<W("HEAD"), [lex |-> "dash"], W("a")>>,
                    <<N(1), Dot, W("p"), N(2)>>, <<N(1), Dot, N(0), Dot, N(0)>>, <<N(1), W("a")>>},
         version <- s1

-------------------------------------------------------------------------------
(* Two names and two taps: what each tap may hold. *)
TwoTaps == {t1, t2}
TwoNames == {n1, n2}
TapContents ==
    t1 :> {n1 :> "read" @@ n2 :> "none", n1 :> n2 @@ n2 :> "read"}
 @@ t2 :> {n1 :> "unread" @@ n2 :> "read"}
TapRank == Core :> 2 @@ t1 :> 1 @@ t2 :> 3

-------------------------------------------------------------------------------
(* Four formulae: a diamond, dependencies that only some options count, a loop, *)
(* and ones that depend on the release of macOS.                                *)
Of(ofA, ofB, ofC, ofD) == n1 :> ofA @@ n2 :> ofB @@ n3 :> ofC @@ n4 :> ofD
On(name, tags) == [name |-> name, tags |-> tags, since |-> 0]
Until(name, release) == [name |-> name, tags |-> {"uses_from_macos"}, since |-> release]
Graphs ==
  {Of(<<On(n2, {}), On(n3, {})>>, <<On(n4, {})>>, <<On(n4, {})>>, <<>>),
   Of(<<On(n3, {}), On(n2, {"build"}), On(n4, {"test"})>>, <<On(n3, {}), On(n4, {"recommended"})>>,
      <<On(n1, {"test"}), On(n2, {"test", "optional"})>>, <<>>),
   Of(<<On(n2, {})>>, <<On(n3, {})>>, <<On(n1, {})>>, <<Until(n1, 13), Until(n2, 11), On(n3, {"implicit"})>>),
   Of(<<On(n2, {})>>, <<On(n3, {"optional"}), On(n4, {"recommended", "optional"})>>, <<>>, <<Until(n3, 13)>>)}
KegOf(on_request, deps) == [on_request |-> on_request, recorded |-> deps]
De == INSTANCE Dependents
    WITH Names <- {n1, n2, n3, n4}, Graphs <- Graphs, Others <- Of({}, {}, {former}, {}),
         Before <- {Of(None, None, None, None),
                    Of(KegOf(TRUE, {}), KegOf(FALSE, {former}), KegOf(FALSE, {n4}), KegOf(FALSE, None)),
                    Of(KegOf(TRUE, {}), None, KegOf(FALSE, {n4}), KegOf(FALSE, {}))},
         Casks <- {{}, {[recorded |-> None, declared |-> {n4}], [recorded |-> {n2}, declared |-> {n1}]}},
         Options <- {{}, {"build"}, {"test", "skip_recommended"}, {"optional", "implicit"}},
         Host <- 12, MaxSteps <- 3,
         index <- s1, kegs <- s2, casks <- s3, steps <- s4, amiss <- s5

-------------------------------------------------------------------------------
(* Casks in a triangle and in loops, with conflicts, without a checksum. *)
Plain == [deps |-> <<>>, formulae |-> FALSE, conflicts |-> {}, sha |-> TRUE, disabled |-> FALSE, runs_here |-> TRUE]
Needing(deps) == [Plain EXCEPT !.deps = deps]
Three(ofA, ofB, ofC) == n1 :> ofA @@ n2 :> ofB @@ n3 :> ofC
ThreeTokens == {n1, n2, n3}
CaskTaps ==
  {Three(Needing(<<n2, n3>>), Needing(<<n3>>), [Plain EXCEPT !.formulae = TRUE]),
   Three(Needing(<<n2>>), Needing(<<n3>>), Needing(<<n1>>)),
   Three(Needing(<<n2>>), Needing(<<n1, n3>>), [Plain EXCEPT !.conflicts = {n1}]),
   Three(Needing(<<n1>>), [Needing(<<n3>>) EXCEPT !.sha = FALSE], [Plain EXCEPT !.disabled = TRUE])}
CaskRequests == {<<n1>>, <<n2, n1>>, <<n3>>}
CaskOptions == {{}, {"force", "require_sha"}, {"skip_cask_deps"}}
CasksBefore == {Three("no", "no", "no"), Three("no", "old", "new"), Three("no", "new", "no")}

-------------------------------------------------------------------------------
(* A container that is called "b" from its second publication on. *)
TwoFileNames == {"a", "b"}
NameOfContainer == 0 :> "a" @@ 1 :> "b"

-------------------------------------------------------------------------------
(* Formulae and casks of a tap as an author may write them, from six menus of   *)
(* lines: conditions, branches, on_ blocks, bottles, services and definitions.  *)
L(head, arg) == [head |-> head, arg |-> arg]
Flag(head) == L(head, <<>>)
At(name) == <<"atom", name>>
Ones(names) == {At(x) : x \in names} \cup {<<"not", At(x)>> : x \in names}
Twos(names) == {<<op, t, u>> : op \in {"and", "or"}, t \in Ones(names), u \in {At(x) : x \in names}}
Conditions ==
    Ones({"mac", "intel", "unknown", "since13"}) \cup Twos({"mac", "intel", "unknown"})
      \cup {<<"not", t>> : t \in Twos({"mac", "unknown"})}
      \cup {<<"and", <<"or", At("mac"), At("unknown")>>, At("arm")>>,
            <<"and", <<"or", At("linux"), At("intel")>>, At("arm")>>,
            <<"and", At("linux"), <<"or", At("mac"), At("mac")>>>>,
            <<"or", At("intel"), <<"and", At("mac"), At("arm")>>>>,
            <<"or", <<"and", At("linux"), At("mac")>>, At("mac")>>}
Menu(menu, most) == [lines |-> menu, most |-> most]
Menus ==
  {Menu({L("if", condition) : condition \in Conditions} \cup {L("depends_on", <<"x", "run">>)}, 5),
   Menu({L("depends_on", <<"x", "run">>), L("if", At("mac")), L("unless", At("mac")), L("elsif", At("mac")),
         L("elsif", At("unknown")), Flag("else")}, 8),
   Menu({L("on", arg) : arg \in {<<"mac">>, <<"linux">>, <<"intel">>, <<"release", 14, "">>,
                                 <<"release", 14, "or_newer">>, <<"release", 14, "or_older">>,
                                 <<"system", "", 13>>, <<"system", "linux", 13>>}}
          \cup {L("version", <<"1">>), L("url", <<"v9">>), L("url", <<"by_version">>),
                L("depends_on", <<"requirement">>)}, 6),
   Menu({Flag("bottle"), L("root_url", <<"r">>), L("cellar", <<"any">>), L("cellar", <<"none">>)}
          \cup {L("sha256", <<tag, sum, cellar>>) : tag \in {"all", "linux"},
                                                   <<sum, cellar>> \in {<<"s1", "">>, <<"s2", "own">>}}, 8),
   Menu({Flag("service"), L("run", <<"prog">>), L("run_type", <<"cron">>), L("working_dir", <<"w">>)}
          \cup {L(key, <<value>>) : key \in {"keep_alive", "launch_only_once"}, value \in {"true", "false"}}, 8),
   Menu({L("def", <<"install">>), Flag("resource"), L("hidden if", At("mac")), L("if", At("mac")),
         L("version", <<"1">>), L("version", <<"2">>), Flag("preflight"), L("app", <<"A">>),
         L("on", <<"linux">>), Flag("stable")}, 7)}
Ru == INSTANCE RubyReader
    WITH Hosts <- {[linux |-> FALSE, arm |-> TRUE, major |-> 26, tag |-> "tahoe", odd |-> TRUE],
                   [linux |-> TRUE, arm |-> FALSE, major |-> None, tag |-> "linux", odd |-> FALSE]},
         Menus <- Menus,
         host <- s1, menu <- s2, lines <- s3, frames <- s4, ruby <- s5

-------------------------------------------------------------------------------
(* What a part does not use. *)
Off2 == s2 = None /\ s3 = None /\ s4 = None /\ s5 = None
Off3 == s3 = None /\ s4 = None /\ s5 = None
Computing == <<s1, s2, s3, s4, s5>>

PartInit ==
    /\ Init
    /\ CASE active = {"index"} -> In!Init /\ Off3
         [] active = {"versions"} -> V!Init /\ Off2
         [] active = {"dependents"} -> De!Init
         [] active = {"ruby"} -> Ru!Init
         [] OTHER -> s1 = None /\ Off2

Index == "index" \in active /\ In!Next /\ UNCHANGED <<vars, s3, s4, s5>>
Versions == "versions" \in active /\ V!Next /\ UNCHANGED <<vars, s2, s3, s4, s5>>
Dependents == "dependents" \in active /\ De!Next /\ UNCHANGED vars
RubyReader == "ruby" \in active /\ Ru!Next /\ UNCHANGED vars

PartNext ==
    \/ Next /\ UNCHANGED Computing
    \/ Index \/ Versions \/ Dependents \/ RubyReader
PartSpec == PartInit /\ [][PartNext]_<<vars, Computing>>

EachAlone == {{part} : part \in
            {"downloads", "api", "taps", "index", "versions", "names", "dependents", "cask_deps",
             "latest", "ruby"}}
OnlyDependents == {{"dependents"}}

-------------------------------------------------------------------------------
(* The properties of the parts that compute; each is stated and explained in its
   module, those of the other parts in Sources. *)


\* deps.rs: leaves, removable, missing, uses and the walk agree with each other.
DependentsAreKnown == "dependents" \in active => De!DependentsAreKnown

\* deps.rs, ops/: what is installed has what it needs, unless a user forced it or
\* the index has changed.
InstalledMissesNothing == "dependents" \in active => De!InstalledMissesNothing

\* deps.rs:17-18, the set `autoremove` removes: "installed formulae with
\* `installed_on_request == false` that no installed formula or cask depends
\* on, computed to a fixed point".
AutoremoveBreaksNothing == []["dependents" \in active => De!AutoremoveBreaksNothingStep]_Computing
=============================================================================
