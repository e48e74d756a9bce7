------------------------------ MODULE RubyReader ------------------------------
(***************************************************************************)
(* How the formulae and casks of third-party taps are read without running *)
(* Ruby (rubylite): logical lines, of which some open blocks and some are  *)
(* `end`, are walked; blocks that are known and meant for this host are    *)
(* entered, all others skipped.                                            *)
(*                                                                         *)
(* An author writes a file line by line.  Beside it stands what Ruby makes *)
(* of it: of every block it is known whether Ruby is in it.  A line is its *)
(* first word and its argument, a tuple; how characters become lines and   *)
(* literals (scanner, value) is left out.                                  *)
(***************************************************************************)
EXTENDS Integers, Sequences, SequencesExt, FiniteSets

CONSTANTS
    None,
    Hosts,       \* [linux, arm, major, tag, odd]; odd: what the reader does not understand is true
    Menus        \* of one of which a file is written: [lines, most]; bound: at most `most` lines

VARIABLES
    host,
    menu,
    lines,       \* the file so far
    frames,      \* the open blocks as Ruby sees them: [place, live, done]
    ruby         \* what Ruby has made of it so far

vars == <<host, menu, lines, frames, ruby>>

Line(head, arg) == [head |-> head, arg |-> arg]
End == Line("end", <<>>)

-------------------------------------------------------------------------------
(* Lines and blocks (scanner) *)

Openers == {"class", "cask", "stable", "if", "unless", "bottle", "service", "def", "on", "resource", "preflight"}
\* block_delta: an `if` that does not begin the line ("hidden if") opens nothing.
Delta(line) == IF line.head \in Openers THEN 1 ELSE IF line.head = "end" THEN -1 ELSE 0
\* The depth gained over the lines from i to j.
Depth(i, j) == FoldLeft(LAMBDA depth, line : depth + Delta(line), 0, SubSeq(lines, i, j))
\* Mutant: the first `end` is taken.
FindFirstEnd(i) ==
    LET ends == {j \in i + 1..Len(lines) : lines[j].head = "end"}
    IN IF ends = {} THEN Len(lines) + 1 ELSE CHOOSE j \in ends : \A k \in ends : j <= k
FindBlockEnd(i) ==
    LET ends == {j \in i + 1..Len(lines) : Depth(i, j) <= 0}
    IN IF ends = {} THEN Len(lines) + 1 ELSE CHOOSE j \in ends : \A k \in ends : j <= k

-------------------------------------------------------------------------------
(* Conditions (host): three-valued, None for what is not understood *)

Atom(s) ==
    CASE s = "mac" -> ~host.linux [] s = "linux" -> host.linux
      [] s = "arm" -> host.arm [] s = "intel" -> ~host.arm
      [] s = "since13" -> IF host.major = None THEN None ELSE host.major >= 13
      [] OTHER -> None
Not(value) == IF value = None THEN None ELSE ~value
AnyOf(values) == IF TRUE \in values THEN TRUE ELSE IF None \in values THEN None ELSE FALSE
AllOf(values) == IF FALSE \in values THEN FALSE ELSE IF None \in values THEN None ELSE TRUE

Nesting(s, i) == FoldLeft(LAMBDA n, t : IF t = "(" THEN n + 1 ELSE IF t = ")" THEN n - 1 ELSE n, 0, SubSeq(s, 1, i))
Balanced(s) == Nesting(s, Len(s)) = 0 /\ \A i \in DOMAIN s : Nesting(s, i) >= 0
Splits(s, op) == {i \in DOMAIN s : s[i] = op /\ Nesting(s, i) = 0}
\* split_operator: the pieces between the operators outside of parentheses.
Pieces(s, op) ==
    LET at == {0, Len(s) + 1} \cup Splits(s, op)
        Next(i) == CHOOSE j \in at : j > i /\ \A k \in at : k > i => j <= k
    IN {SubSeq(s, i + 1, Next(i) - 1) : i \in at \ {Len(s) + 1}}

RECURSIVE OrExpr(_), AndExpr(_), Unary(_)
\* Mutant: `&&` is split first.
AndFirst(s) ==
    AllOf({AnyOf({Unary(term) : term \in Pieces(piece, "||")}) : piece \in Pieces(s, "&&")})
\* What is not split is its only piece.
OrExpr(s) == AnyOf({AndExpr(piece) : piece \in Pieces(s, "||")})
AndExpr(s) == AllOf({Unary(piece) : piece \in Pieces(s, "&&")})
Unary(s) ==
    CASE s[1] = "!" -> Not(Unary(Tail(s)))
      [] s[1] = "(" /\ Last(s) = ")" /\ Balanced(SubSeq(s, 2, Len(s) - 1)) -> OrExpr(SubSeq(s, 2, Len(s) - 1))
      [] OTHER -> Atom(s[1])
Eval(s) == OrExpr(s)

\* on_macos, on_linux, on_arm, on_intel, on_<release>, on_system; an unknown
\* block is not entered.
OnBlockActive(arg) ==
    CASE arg[1] \in {"mac", "linux", "arm", "intel"} -> Atom(arg[1])
      [] arg[1] = "release" -> host.major # None /\ (CASE arg[3] = "or_newer" -> host.major >= arg[2]
                                                       [] arg[3] = "or_older" -> host.major <= arg[2]
                                                       [] OTHER -> host.major = arg[2])
      \* `on_system :linux, macos: :ventura_or_newer`.
      [] arg[1] = "system" -> IF host.linux THEN arg[2] = "linux" ELSE host.major >= arg[3]
      [] OTHER -> FALSE

-------------------------------------------------------------------------------
(* The walk (formula, cask: alike, but that casks have neither bottles,        *)
(* services nor definitions).  No block stands in a bottle or service block.   *)

Nothing == [known |-> FALSE, version |-> None, url |-> None, deps |-> <<>>, install |-> FALSE, flight |-> FALSE,
            artifacts |-> <<>>, root |-> None, bottle |-> None, run |-> None, service |-> <<>>]

\* A dependency by its name and tags; what is a requirement (macos:, arch:) is none.
DependsOn(arg) == IF arg[1] = "requirement" THEN <<>> ELSE <<arg>>
\* #{version} is the version that the first pass found.
Interpolated(text, version) == IF text = "by_version" THEN <<"at", version>> ELSE <<text>>
Statement(entry, line, version) ==
    CASE line.head = "version" -> [entry EXCEPT !.version = line.arg[1]]
      [] line.head = "url" -> [entry EXCEPT !.url = Interpolated(line.arg[1], version)]
      [] line.head = "depends_on" -> [entry EXCEPT !.deps = @ \o DependsOn(line.arg)]
      [] line.head = "app" -> [entry EXCEPT !.artifacts = Append(@, line.arg)]
      [] OTHER -> entry

\* bottle_block: the line of the host's tag, or else the first of `all`; a
\* line's own cellar, or the block's so far.
\* Mutant: the last line that fits.
BottleLineLast(at, line) ==
    CASE line.head = "cellar" -> [at EXCEPT !.cellar = line.arg[1]]
      [] line.head = "sha256" /\ line.arg[1] \in {host.tag, "all"} ->
            [at EXCEPT !.found = <<line.arg[2], IF line.arg[3] = "" THEN at.cellar ELSE line.arg[3], line.arg[1]>>]
      [] OTHER -> at
BottleLine(at, line) ==
    CASE line.head = "cellar" -> [at EXCEPT !.cellar = line.arg[1]]
      [] line.head = "sha256" /\ (line.arg[1] = host.tag \/ (line.arg[1] = "all" /\ at.found = None)) ->
            [at EXCEPT !.found = <<line.arg[2], IF line.arg[3] = "" THEN at.cellar ELSE line.arg[3], line.arg[1]>>]
      [] OTHER -> at
Inside(i, j) == SelectSeq(SubSeq(lines, i, j), LAMBDA line : Delta(line) = 0)
BottleBlock(entry, i, j) ==
    LET found == FoldLeft(LAMBDA at, line : BottleLine(at, line), [cellar |-> "", found |-> None], Inside(i, j)).found
        roots == SelectSeq(Inside(i, j), LAMBDA line : line.head = "root_url")
    IN [entry EXCEPT !.bottle = IF found = None THEN @ ELSE found,
                     !.root = IF roots = <<>> THEN @ ELSE Last(roots).arg[1]]

\* service_block and finish_service: in the order of the API, what is blank and
\* what the API does not know left out, always with a run_type.
ServiceKeyOrder == <<"run_type", "keep_alive", "launch_only_once", "working_dir">>
\* Mutant: blank means off, also for keep_alive.
BlankAsFalse(pair) == pair[2] = "false"
Blank(pair) == pair[2] = "false" /\ pair[1] # "keep_alive"
ServiceBlock(entry, i, j) ==
    LET runs == SelectSeq(Inside(i, j), LAMBDA line : line.head = "run")
        pairs == SelectSeq(Inside(i, j), LAMBDA line : line.head # "run")
    IN [entry EXCEPT !.run = IF runs = <<>> THEN @ ELSE Last(runs).arg[1],
                     !.service = @ \o [k \in DOMAIN pairs |-> <<pairs[k].head, pairs[k].arg[1]>>]]
FinishService(entry) ==
    LET kept(key) == SelectSeq(entry.service, LAMBDA pair : pair[1] = key /\ ~Blank(pair))
        all == FlattenSeq([k \in DOMAIN ServiceKeyOrder |-> kept(ServiceKeyOrder[k])])
    IN [entry EXCEPT !.service =
          CASE entry.run = None \/ entry.service = <<>> -> <<>>
            [] kept("run_type") # <<>> -> all
            [] OTHER -> <<<<"run_type", "immediate">>>> \o all]

RECURSIVE Walk(_, _, _, _)
\* Mutant: an `else` of a block in the block is the block's own.
BranchesOfAnyDepth(open, close) ==
    {k \in open + 1..close - 1 : lines[k].head \in {"else", "elsif"}}
\* `else` and `elsif` between the lines of an `if` at the same level.
Branches(open, close) ==
    {k \in open + 1..close - 1 : lines[k].head \in {"else", "elsif"} /\ Depth(open + 1, k - 1) = 0}
Taken(k) == lines[k].head = "else" \/ Eval(lines[k].arg) = (lines[k].head # "unless")
\* if_chain: the first branch whose condition is known to hold.
IfChain(entry, open, close, version) ==
    LET at == {open} \cup Branches(open, close)
        taken == {k \in at : Taken(k)}
        first == CHOOSE k \in taken : \A l \in taken : k <= l
        until == CHOOSE e \in at \cup {close} : e > first /\ \A f \in at \cup {close} : f > first => e <= f
    IN IF taken = {} THEN entry ELSE Walk(entry, first + 1, until, version)
Block(entry, open, close, version) ==
    LET line == lines[open]
    IN CASE line.head \in {"class", "cask"} ->
              Walk([entry EXCEPT !.known = @ \/ line.arg[1] \in {"Formula", "token"}], open + 1, close, version)
         [] line.head = "stable" -> Walk(entry, open + 1, close, version)
         [] line.head \in {"if", "unless"} -> IfChain(entry, open, close, version)
         [] line.head = "bottle" -> BottleBlock(entry, open + 1, close - 1)
         [] line.head = "service" -> ServiceBlock(entry, open + 1, close - 1)
         [] line.head = "def" -> [entry EXCEPT !.install = @ \/ line.arg[1] = "install"]
         [] line.head = "preflight" -> [entry EXCEPT !.flight = TRUE]
         [] line.head = "on" /\ OnBlockActive(line.arg) -> Walk(entry, open + 1, close, version)
         [] OTHER -> entry
\* The lines from i on, e not included.
Walk(entry, i, e, version) ==
    IF i >= e THEN entry
    ELSE IF Delta(lines[i]) > 0
         THEN LET close == Min({FindBlockEnd(i), Max({e - 1, i})})
              IN Walk(Block(entry, i, close, version), close + 1, e, version)
         ELSE Walk(Statement(entry, lines[i], version), i + 1, e, version)
RunPass(version) == FinishService(Walk(Nothing, 1, Len(lines) + 1, version))

\* Of a url only some tell the version.
Detected(url) == IF url = <<"v9">> THEN "9" ELSE None
VersionOf(entry) ==
    IF entry.version # None \/ lines[1].head = "cask" THEN entry.version ELSE Detected(entry.url)
\* parse_formula, parse_cask: the second pass knows the version.
Parsed ==
    LET detected == CHOOSE version \in {VersionOf(first) : first \in {RunPass(None)}} : TRUE
    IN [RunPass(detected) EXCEPT !.version = IF @ = None THEN detected ELSE @]
\* parse_formula_source, parse_cask_source: otherwise brew has to read the file.
IsRead(entry) ==
    entry.known /\ (IF lines[1].head = "class" THEN entry.version # None ELSE ~entry.flight /\ entry.url # None)

-------------------------------------------------------------------------------
(* External: the author of a file, and Ruby *)

\* A condition is a tree; its text has the parentheses that Ruby needs.
RECURSIVE Text(_), Truth(_)
Wrapped(tree, ops) == IF tree[1] \in ops THEN <<"(">> \o Text(tree) \o <<")">> ELSE Text(tree)
Text(tree) ==
    CASE tree[1] = "atom" -> <<tree[2]>>
      [] tree[1] = "not" -> <<"!">> \o Wrapped(tree[2], {"and", "or"})
      [] tree[1] = "and" -> Wrapped(tree[2], {"or"}) \o <<"&&">> \o Wrapped(tree[3], {"or"})
      [] tree[1] = "or" -> Text(tree[2]) \o <<"||">> \o Text(tree[3])
Truth(tree) ==
    CASE tree[1] = "atom" -> IF Atom(tree[2]) = None THEN host.odd ELSE Atom(tree[2])
      [] tree[1] = "not" -> ~Truth(tree[2])
      [] tree[1] = "and" -> Truth(tree[2]) /\ Truth(tree[3])
      [] tree[1] = "or" -> Truth(tree[2]) \/ Truth(tree[3])
Conditional == {"if", "unless", "elsif", "hidden if"}
\* A line of the menu as it stands in the file.
Written(line) == IF line.head \in Conditional THEN Line(line.head, Text(line.arg)) ELSE line

Top == Last(frames)
Live == Top.live
Frame(place, live) == [place |-> place, live |-> live, done |-> live]
\* What a block is for, and whether Ruby enters it.
Place(line) ==
    CASE line.head \in {"bottle", "service"} -> line.head
      [] line.head \in {"def", "resource", "preflight"} \/ Top.place = "other" -> "other"
      [] OTHER -> "body"
Enters(line) ==
    CASE line.head \in {"if", "hidden if"} -> Truth(line.arg)
      [] line.head = "unless" -> ~Truth(line.arg)
      [] line.head = "on" -> OnBlockActive(line.arg)
      [] OTHER -> TRUE
OfFormulae == {"bottle", "service", "def", "resource", "stable"}
OfCasks == {"preflight", "app"}
Fits(line) ==
    CASE Top.place = "bottle" -> line.head \in {"sha256", "cellar", "root_url"}
      [] Top.place = "service" -> line.head \in {"run"} \cup ToSet(ServiceKeyOrder) \cup {"run_at_load"}
      [] Top.place = "other" -> line.head \in {"version", "depends_on", "if", "hidden if", "else"}
      [] OTHER -> line.head \notin {"hidden if", "sha256", "cellar", "root_url", "run", "run_at_load"} \cup ToSet(ServiceKeyOrder)
                                      \cup (IF lines[1].head = "cask" THEN OfFormulae ELSE OfCasks)
\* What may stand in a file more than once; of a service every key is said once.
Again(line) ==
    \/ line.head \in Conditional \cup {"else", "on"}
    \/ Top.place = "service" /\ \A i \in DOMAIN lines : lines[i].head # line.head
    \/ Top.place # "service" /\ \A i \in DOMAIN lines : lines[i] # line
Writes(line) ==
    /\ frames # <<>> /\ line \in menu.lines /\ Fits(line) /\ Again(line)
    /\ Len(lines) + Len(frames) + (IF line.head \in Openers \cup {"hidden if"} THEN 2 ELSE 1) <= menu.most
    /\ lines' = Append(lines, Written(line))

\* What Ruby makes of a statement where it stands.
Does(line) ==
    CASE Top.place = "body" -> Statement(ruby, line, VersionOf(ruby))
      [] Top.place = "bottle" /\ line.head = "root_url" -> [ruby EXCEPT !.root = line.arg[1]]
      [] Top.place = "bottle" /\ line.head # "root_url" -> [ruby EXCEPT !.bottle = Append(@, line)]
      [] Top.place = "service" /\ line.head = "run" -> [ruby EXCEPT !.run = line.arg[1]]
      [] Top.place = "service" /\ line.head # "run" -> [ruby EXCEPT !.service = Append(@, <<line.head, line.arg[1]>>)]
      [] OTHER -> ruby
Say(line) ==
    /\ line.head \notin Openers \cup {"else", "elsif", "hidden if"} /\ Writes(line)
    /\ ruby' = IF Live THEN Does(line) ELSE ruby
    /\ UNCHANGED <<host, menu, frames>>
Open(line) ==
    /\ line.head \in Openers \cup {"hidden if"} /\ Writes(line)
    /\ frames' = Append(frames, Frame(Place(line), Live /\ Enters(line)))
    /\ ruby' = IF ~Live THEN ruby
               ELSE [ruby EXCEPT !.install = @ \/ line = Line("def", <<"install">>),
                                 !.flight = @ \/ line.head = "preflight"]
    /\ UNCHANGED <<host, menu>>
\* The line that opened the block Ruby is in, by the depth Ruby sees.
Opener ==
    LET RubyDelta(line) == IF line.head \in Openers \cup {"hidden if"} THEN 1 ELSE IF line.head = "end" THEN -1 ELSE 0
        Open0(i) == FoldLeft(LAMBDA n, line : n + RubyDelta(line), 0, SubSeq(lines, i, Len(lines))) = 1
        at == {i \in DOMAIN lines : RubyDelta(lines[i]) = 1 /\ Open0(i)}
    IN CHOOSE i \in at : \A j \in at : j <= i
Otherwise(line) ==
    /\ line.head \in {"else", "elsif"} /\ Writes(line)
    /\ lines[Opener].head \in {"if", "unless", "hidden if"}
    \* An `else` is the last branch.
    /\ \A k \in Opener + 1..Len(lines) : lines[k].head # "else"
    /\ LET outer == frames[Len(frames) - 1].live
           live == outer /\ ~Top.done /\ (line.head = "else" \/ Truth(line.arg))
       IN frames' = [frames EXCEPT ![Len(frames)] = [@ EXCEPT !.live = live, !.done = @ \/ live]]
    /\ UNCHANGED <<host, menu, ruby>>
Close ==
    /\ frames # <<>> /\ lines' = Append(lines, End) /\ frames' = Front(frames)
    /\ UNCHANGED <<host, menu, ruby>>

Init ==
    /\ host \in Hosts /\ menu \in Menus
    /\ lines \in {<<Line("class", <<"Formula">>)>>, <<Line("cask", <<"token">>)>>}
    /\ frames = <<Frame("body", TRUE)>>
    /\ ruby = [Nothing EXCEPT !.bottle = <<>>]
Next == (\E line \in menu.lines : Say(line) \/ Open(line) \/ Otherwise(line)) \/ Close
Spec == Init /\ [][Next]_vars

-------------------------------------------------------------------------------
\* Homebrew's choice among a bottle block's lines: the host's tag, or `all`.
RubyBottle ==
    LET shas(tag) == {i \in DOMAIN ruby.bottle : ruby.bottle[i].head = "sha256" /\ ruby.bottle[i].arg[1] = tag}
        Chosen(tag, i) ==
            LET cellars == {j \in 1..i : ruby.bottle[j].head = "cellar"}
                line == ruby.bottle[i]
            IN <<line.arg[2],
                 IF line.arg[3] # "" THEN line.arg[3]
                 ELSE IF cellars = {} THEN "" ELSE ruby.bottle[CHOOSE j \in cellars : \A k \in cellars : k <= j].arg[1],
                 tag>>
        MaxOf(S) == CHOOSE i \in S : \A j \in S : j <= i
        MinOf(S) == CHOOSE i \in S : \A j \in S : i <= j
    IN CASE shas(host.tag) # {} -> Chosen(host.tag, MaxOf(shas(host.tag)))
         [] shas(host.tag) = {} /\ shas("all") # {} -> Chosen("all", MinOf(shas("all")))
         [] OTHER -> None
\* What a service is set to: what is not said, or is off, is its default.
Setting(pairs, key) ==
    LET said == {pairs[i][2] : i \in {i \in DOMAIN pairs : pairs[i][1] = key}}
    IN IF said = {} \/ (said = {"false"} /\ key # "keep_alive")
       THEN (IF key = "run_type" THEN {"immediate"} ELSE {}) ELSE said

Complete == frames = <<>>
Heads == {lines[i].head : i \in DOMAIN lines}
\* Every condition is known on this host, every `if` begins its line, and there
\* is at most one bottle block.
Understood ==
    /\ \A i \in DOMAIN lines : lines[i].head \in Conditional => Eval(lines[i].arg) # None
    /\ "hidden if" \notin Heads
    /\ \A i, j \in DOMAIN lines : lines[i].head = "bottle" /\ lines[j].head = "bottle" => i = j
\* The version is said, and before the url that contains it.
VersionFirst ==
    ruby.version # None /\ \A i, j \in DOMAIN lines : lines[i].head = "version" /\ lines[j].head = "url" => i < j

\* rubylite/mod: "only the matching branch is kept".  Of a file that is
\* understood the reader keeps what Ruby would have evaluated: no more and no
\* less, however blocks, branches and definitions are nested.
ReadsAsRuby ==
    Complete /\ Understood =>
        \E entry \in {Parsed} :
           /\ entry.version = VersionOf(ruby) /\ entry.deps = ruby.deps /\ entry.artifacts = ruby.artifacts
           /\ entry.install = ruby.install /\ entry.root = ruby.root /\ entry.bottle = RubyBottle
           /\ entry.run = ruby.run
           /\ ruby.run # None => \A key \in ToSet(ServiceKeyOrder) : Setting(entry.service, key) = Setting(ruby.service, key)
           /\ VersionFirst => entry.url = ruby.url
\* A cask with Ruby that would run is left to brew.
FlightsAreRefused == Complete /\ Understood /\ ruby.flight => \A entry \in {Parsed} : ~IsRead(entry)

RubyIsRead == ReadsAsRuby /\ FlightsAreRefused

\* rubylite/scanner: block openers and `end`s are counted "so the parsers can
\* skip blocks they do not understand".  With an `x = if` in it a definition is
\* left too early, and its own lines are read.
DefinitionsAreSkipped ==
    Complete /\ (\A i \in DOMAIN lines : lines[i].head \in Conditional => Eval(lines[i].arg) # None)
      => \E entry \in {Parsed} : entry.version = VersionOf(ruby) /\ entry.deps = ruby.deps
\* The branch that is kept is one that Ruby may take, also when a condition is
\* not understood: refuted by its `else`, which is kept whenever it is unknown.
UnknownIsNotGuessed ==
    Complete /\ "hidden if" \notin Heads /\ "else" \in Heads => \A i \in DOMAIN Parsed.deps : \E j \in DOMAIN ruby.deps : ruby.deps[j] = Parsed.deps[i]
===============================================================================
