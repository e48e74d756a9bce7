-------------------------------- MODULE Versions --------------------------------
(***************************************************************************)
(* The comparison of versions (version.rs): scanning a version into        *)
(* tokens, Token::cmp, Version::cmp, and PkgVersion.                       *)
(*                                                                         *)
(* A version is a sequence of lexemes: runs of digits, runs of letters out *)
(* of the words that mean something and some that do not, separators.      *)
(* The state is a version that is written lexeme by lexeme.                *)
(***************************************************************************)
EXTENDS Naturals, Sequences, SequencesExt, FiniteSets

CONSTANTS
    Numbers,    \* runs of digits, as numbers
    Words,      \* runs of letters, of AllWords
    Signs,      \* separators, of {"dot", "underscore", "dash"}
    MaxLexemes, \* bound: the length of a version
    Others      \* versions that it is compared with

AllWords == {"a", "alpha", "b", "beta", "p", "P", "post", "xpost", "pre", "rc", "x", "HEAD"}

VARIABLE version

vars == <<version>>

-------------------------------------------------------------------------------
(* Tokens: their class, the number in them, and the rank of their text among *)
(* the texts that are compared.                                             *)

Number(n) == [lex |-> "number", n |-> n]
Word(w) == [lex |-> "word", word |-> w]
Dot == [lex |-> "dot"]
Underscore == [lex |-> "underscore"]
Dash == [lex |-> "dash"]
Separators == {Dot, Underscore, Dash}
Lexemes == {Number(n) : n \in Numbers} \cup {Word(w) : w \in Words} \cup {[lex |-> sign] : sign \in Signs}

Null == [class |-> "null", n |-> 0, text |-> 0]
Num(n) == [class |-> "num", n |-> n, text |-> 0]
\* Digits after a word make its text greater, and less than the next word.
Text(word, digits) ==
    LET order == <<"-post", ".post", "1post", "HEAD", "P", "_post", "a", "alpha", "b", "beta", "ost", "p", "pre", "rc", "x", "xpost">>
    IN 2 * (CHOOSE i \in DOMAIN order : order[i] = word) + (IF digits THEN 1 ELSE 0)
ClassOf(word) ==
    CASE word \in {"a", "alpha"} -> "alpha" [] word \in {"b", "beta"} -> "beta" [] word \in {"p", "P"} -> "patch" [] OTHER -> word
Str(word) == [class |-> "str", n |-> 0, text |-> Text(word, FALSE)]
Post(word, n) == [class |-> "post", n |-> n, text |-> Text(word, TRUE)]
\* /.post[0-9]+/: the character before it may be a separator, or a single digit,
\* which is then the number Token::rev finds first.
PostAfter(lexeme, n) ==
    CASE lexeme.lex = "number" -> Post("1post", lexeme.n) [] lexeme = Underscore -> Post("_post", n)
      [] lexeme = Dash -> Post("-post", n) [] OTHER -> Post(".post", n)

\* token_at, of what begins at i: the words that may have digits and those that
\* need them, post with any character before it, a number, any other letters.  A
\* pair: the tokens and how many lexemes they take; what begins no token is
\* skipped.  A post that begins where a token may is a patch and two letters.
TokenAt(s, i) ==
    LET digits(k) == k <= Len(s) /\ s[k].lex = "number"
        word(k) == IF k <= Len(s) /\ s[k].lex = "word" THEN s[k].word ELSE "none"
        post == word(i + 1) = "post" /\ digits(i + 2) /\ (s[i] \in Separators \/ (digits(i) /\ s[i].n < 10))
        composite == [class |-> ClassOf(word(i)), n |-> IF digits(i + 1) THEN s[i + 1].n ELSE 0, text |-> Text(word(i), digits(i + 1))]
    IN CASE word(i) \in {"alpha", "beta", "pre", "rc", "p", "P"} \/ (word(i) \in {"a", "b"} /\ digits(i + 1)) ->
              <<<<composite>>, IF digits(i + 1) THEN 2 ELSE 1>>
         [] word(i) = "post" -> <<<<[class |-> "patch", n |-> 0, text |-> Text("p", FALSE)], Str("ost")>>, 1>>
         [] post -> <<<<PostAfter(s[i], s[i + 2].n)>>, 3>>
         [] word(i) = "xpost" /\ digits(i + 1) -> <<<<Post("xpost", s[i + 1].n)>>, 2>>
         [] digits(i) /\ ~post -> <<<<Num(s[i].n)>>, 1>>
         [] word(i) \in {"x", "HEAD"} \/ (word(i) \in {"a", "b", "xpost"} /\ ~digits(i + 1)) -> <<<<Str(word(i))>>, 1>>
         [] OTHER -> <<<<>>, 1>>

\* scan_tokens.
Tokens(s) ==
    LET from[i \in 1..(Len(s) + 3)] ==
          IF i > Len(s) THEN <<>>
          ELSE LET at == TokenAt(s, i) IN at[1] \o from[i + at[2]]
    IN from[1]

-------------------------------------------------------------------------------
(* Comparing: -1, 0 or 1, as "less", "equal" and "greater" *)

Rank(t) ==
    CASE t.class = "alpha" -> 0 [] t.class = "beta" -> 1 [] t.class = "pre" -> 2
      [] t.class = "rc" -> 3 [] t.class \in {"patch", "post"} -> 4
IsComposite(t) == t.class \in {"alpha", "beta", "pre", "rc", "patch", "post"}
Order(m, n) == IF m < n THEN "less" ELSE IF m > n THEN "greater" ELSE "equal"

\* NullToken#<=>.
NullCmp(t) ==
    CASE t.class = "null" \/ (t.class = "num" /\ t.n = 0) -> "equal"
      [] t.class \in {"alpha", "beta", "pre", "rc"} -> "greater"
      [] OTHER -> "less"
Reversed(order) == CASE order = "less" -> "greater" [] order = "greater" -> "less" [] OTHER -> order

\* StringToken#<=>.
StringCmp(a, b) ==
    CASE b.class = "num" -> "less" [] b.class = "null" -> Reversed(NullCmp(a)) [] OTHER -> Order(a.text, b.text)

\* Token::cmp; patches and posts have the same rank and compare by their text.
TokenCmp(a, b) ==
    CASE a.class = "null" -> NullCmp(b)
      [] a.class = "num" -> CASE b.class = "num" -> Order(a.n, b.n) [] b.class = "null" -> Order(a.n, 0) [] OTHER -> "greater"
      [] IsComposite(a) /\ a.class = b.class -> Order(a.n, b.n)
      [] IsComposite(a) /\ IsComposite(b) /\ Rank(a) # Rank(b) -> Order(Rank(a), Rank(b))
      [] OTHER -> StringCmp(a, b)

\* Mutant: any number decides.
OutweighsAlways(number) == TRUE
Outweighs(number) == number.n > 0

\* The loop of Version::cmp: missing tokens are null; a number against something
\* else decides unless it is 0, which is skipped.  Only the left index ends it.
CmpTokens(s, t) ==
    LET longest == IF Len(s) > Len(t) THEN Len(s) ELSE Len(t)
        token(u, i) == IF i <= Len(u) THEN u[i] ELSE Null
        numeric(x) == x.class = "num"
        from[l \in 1..(longest + 1), r \in 1..(2 * longest + 2)] ==
          IF l > longest THEN "equal"
          ELSE LET a == token(s, l)
                   b == token(t, r)
               IN CASE TokenCmp(a, b) = "equal" -> from[l + 1, r + 1]
                    [] TokenCmp(a, b) # "equal" /\ numeric(a) /\ ~numeric(b) -> IF Outweighs(a) THEN "greater" ELSE from[l + 1, r]
                    [] TokenCmp(a, b) # "equal" /\ ~numeric(a) /\ numeric(b) -> IF Outweighs(b) THEN "less" ELSE from[l, r + 1]
                    [] OTHER -> TokenCmp(a, b)
    IN from[1, 1]

\* Version::is_head.
IsHead(v) == v = <<Word("HEAD")>> \/ IsPrefix(<<Word("HEAD"), Dash>>, v)

\* Version::cmp: an absent version is below all others, a HEAD above them.
Cmp(v, w) ==
    CASE v = w \/ (IsHead(v) /\ IsHead(w)) -> "equal"
      [] v # w /\ (v = <<>> \/ (IsHead(w) /\ ~IsHead(v))) -> "less"
      [] v # w /\ (w = <<>> \/ (IsHead(v) /\ ~IsHead(w))) -> "greater"
      [] OTHER -> CmpTokens(Tokens(v), Tokens(w))

\* PkgVersion: the last _<digits> is a revision, unless nothing comes before it;
\* revision 0 is not written.  A pair of a version and a revision.
\* Mutant: the first underscore is looked for.
ParseFirst(s) ==
    LET cuts == {i \in 2..(Len(s) - 1) : s[i] = Underscore /\ s[i + 1].lex = "number" /\ i + 1 = Len(s) /\ Underscore \notin {s[j] : j \in 1..(i - 1)}}
    IN IF cuts = {} THEN [version |-> s, revision |-> 0]
       ELSE LET i == CHOOSE c \in cuts : TRUE IN [version |-> SubSeq(s, 1, i - 1), revision |-> s[i + 1].n]
Parse(s) ==
    LET n == Len(s)
    IN IF n > 2 /\ s[n - 1] = Underscore /\ s[n].lex = "number"
       THEN [version |-> SubSeq(s, 1, n - 2), revision |-> s[n].n]
       ELSE [version |-> s, revision |-> 0]
Display(pkg) == IF pkg.revision > 0 THEN pkg.version \o <<Underscore, Number(pkg.revision)>> ELSE pkg.version
PkgCmp(p, q) ==
    LET order == Cmp(p.version, q.version) IN IF order # "equal" THEN order ELSE Order(p.revision, q.revision)

-------------------------------------------------------------------------------
(* A version is written *)

Add ==
    /\ Len(version) < MaxLexemes
    /\ \E lexeme \in Lexemes :
         /\ version # <<>> => lexeme.lex \notin {"number", "word"} \/ lexeme.lex # Last(version).lex
         /\ version' = Append(version, lexeme)

Init == version = <<>>
Next == Add
Spec == Init /\ [][Next]_vars

-------------------------------------------------------------------------------
(* Properties *)

NotGreater == {"less", "equal"}
AtMost(v, w) == Cmp(v, w) \in NotGreater
\* Versions of numbers other than 0 and of prereleases, patches and posts; those
\* whose posts begin with a dot; and HEAD.
Meant(v) == \A t \in Range(Tokens(v)) : IsComposite(t) \/ (t.class = "num" /\ t.n > 0)
Ordered(v) == IsHead(v) \/ (Meant(v) /\ \A t \in Range(Tokens(v)) : t.class = "post" => t.text = Text(".post", TRUE))

\* Sorting and the choice of the latest keg need a total order: on versions
\* without a 0, without letters that mean nothing and with a dot before each post,
\* comparing either way round agrees, and what is at most a version is at most
\* what that is at most.  Without the dot it is none: 1_post2 is less than 1.post3,
\* that is less than 1P1, and that is less than 1_post2.
OrderedOthers == {v \in Others : Ordered(v)}
OrderOfOthers == {pair \in OrderedOthers \X OrderedOthers : AtMost(pair[1], pair[2])}
OrderedVersionsAreOrdered ==
    Ordered(version) =>
        \E to \in {[v \in OrderedOthers |-> Cmp(version, v)]}, from \in {[v \in OrderedOthers |-> Cmp(v, version)]} :
            /\ \A v \in OrderedOthers : to[v] = Reversed(from[v])
            /\ \A pair \in OrderOfOthers : to[pair[1]] \in NotGreater => to[pair[2]] \in NotGreater
            /\ \A v, w \in OrderedOthers : from[v] \in NotGreater /\ to[w] \in NotGreater => <<v, w>> \in OrderOfOthers

\* "We report Equal so that `Ord` stays total" (Version::cmp), which sort and
\* max_by rely on: any two versions compare the same either way round.
CompareIsTotal == \A v \in Others : Cmp(version, v) = Reversed(Cmp(v, version))

\* Versions that differ in a 0 before a last patch, post or prerelease are equal,
\* as the uneven padding of 2.1-p195 and 2.1.0-p195 is.
PaddingIsEqual ==
    LET tokens == Tokens(version)
        padded == SubSeq(tokens, 1, Len(tokens) - 1) \o <<Num(0), Last(tokens)>>
    IN Meant(version) /\ Len(tokens) > 1 /\ IsComposite(Last(tokens)) => CmpTokens(tokens, padded) = "equal" /\ CmpTokens(padded, tokens) = "equal"

\* The name of a keg's directory and its version name the same thing: a name that
\* is what a version is displayed as parses into that version, and comparing
\* whole versions looks at the revision last.
KegNamesAreVersions ==
    LET pkg == Parse(version)
    IN /\ pkg.revision > 0 => Display(pkg) = version
       /\ \A n \in Numbers : LET next == [pkg EXCEPT !.revision = n]
                             IN PkgCmp(pkg, next) = Order(pkg.revision, n) /\ (n > 0 /\ version # <<>> => Parse(Display(next)) = next)

=================================================================================
