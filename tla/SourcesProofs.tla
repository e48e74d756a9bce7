----------------------------- MODULE SourcesProofs -----------------------------
(***************************************************************************)
(* What holds of the parts of Sources that decide (casks that need casks,  *)
(* a :latest cask, the names), for any number of processes, taps and       *)
(* casks; at the end all the parts are put together.                       *)
(***************************************************************************)
EXTENDS FetchedProofs, WellFoundedInduction

(* The instances' finite sets and cardinalities are those of the library. *)
LEMMA CardinalitiesAreThose ==
  /\ \A S : Latest!Cardinality(S) = Cardinality(S)
  /\ \A S : Ref!IsFiniteSet(S) <=> IsFiniteSet(S)
BY DEF Latest!Cardinality, Cardinality, Ref!IsFiniteSet, IsFiniteSet

-------------------------------------------------------------------------------
(* Casks that need casks *)
PCs == {"prelude", "look", "fetch", "dependencies", "dependency", "install"}
Frames == [token : CaskTokens, pc : PCs, todo : SUBSET Nat]
Works == [todo : Seq(CaskTokens), stack : Seq(Frames), opts : Options \cup {{}}, failed : BOOLEAN, started : BOOLEAN]

NeedsTyped ==
  /\ casks \in Casks
  /\ installed \in [CaskTokens -> {"no", "old", "new"}]
  /\ lock \in [CaskTokens -> Procs \cup {None}]
  /\ caskRun \in [Procs -> Works]

(* Each install waits for the one that it has started. *)
Nested(s) ==
  \A i \in 1..(Len(s) - 1) : s[i].pc = "dependency" /\ s[i].todo # {} /\ Needs!NextOf(s[i]) = s[i + 1].token
(* What is left to install is neither under way here nor below. *)
Forward(s) ==
  \A i \in 1..Len(s) : s[i].pc = "dependency" =>
    /\ s[i].todo \subseteq 1..Len(Needs!Deps(s[i].token))
    /\ \A k \in s[i].todo : \A j \in 1..i : Needs!Deps(s[i].token)[k] # s[j].token
(* What is not left is there, or was taken away. *)
Met(t, todo) == \A k \in 1..Len(Needs!Deps(t)) : k \notin todo => Needs!There(Needs!Deps(t)[k]) \/ Needs!Deps(t)[k] \in removed
Supplied(s) ==
  \A i \in 1..Len(s) : /\ s[i].pc = "dependency" => Met(s[i].token, s[i].todo)
                       /\ s[i].pc = "install" => Met(s[i].token, {})
Distinct(s) == \A i, j \in 1..Len(s) : s[i].token = s[j].token => i = j
Locks(r, s) == \A t \in CaskTokens : lock[t] = r <=> \E i \in 1..Len(s) : s[i].token = t

StackInv(r) ==
  LET s == caskRun[r].stack IN
  /\ s # <<>> \/ caskRun[r].todo # <<>> => caskRun[r].started
  /\ Nested(s) /\ Forward(s) /\ Distinct(s) /\ Locks(r, s)
  /\ "skip_cask_deps" \notin caskRun[r].opts => Supplied(s)

NeedsInv == NeedsTyped /\ \A r \in Procs : StackInv(r)

-------------------------------------------------------------------------------
(* A finite set of numbers has a least one. *)
LEMMA NeedsLeastExists ==
  ASSUME NEW S \in SUBSET Nat, IsFiniteSet(S), S # {}
  PROVE  \E i \in S : \A k \in S : i <= k
<1> DEFINE Below(i) == {k \in S : k < i}
           T == {Below(i) : i \in S}
<1>2. IsWellFoundedOn(StrictSubsetOrdering(S), SUBSET S)
  BY FS_StrictSubsetOrderingWellFounded, FS_FiniteSubsetsOfFinite
<1>3. \E x \in T : \A y \in T : <<y, x>> \notin StrictSubsetOrdering(S)
  <2>1. T \subseteq SUBSET S /\ T # {}
    OBVIOUS
  <2> HIDE DEF T
  <2> QED BY <1>2, <2>1, WFMin
<1>4. PICK i \in S : \A k \in S : <<Below(k), Below(i)>> \notin StrictSubsetOrdering(S)
  BY <1>3
<1>5. ASSUME NEW k \in S, k < i PROVE FALSE
  <2>0. k \in Nat /\ i \in Nat /\ \A j \in S : j \in Nat
    OBVIOUS
  <2>1. Below(k) \subseteq Below(i) /\ k \in Below(i) /\ k \notin Below(k)
    <3>1. \A j \in S : j < k => j < i
      BY <2>0, <1>5
    <3>2. ~(k < k)
      BY <2>0
    <3> QED BY <3>1, <3>2, <1>5
  <2>2. Below(k) # Below(i) /\ Below(k) \in SUBSET S /\ Below(i) \in SUBSET S
    BY <2>1
  <2>3. <<Below(k), Below(i)>> \in StrictSubsetOrdering(S)
    <3> HIDE DEF Below
    <3> QED BY <2>1, <2>2 DEF StrictSubsetOrdering
  <2> QED BY <1>4, <2>3
<1>6. \A k \in S : i <= k
  BY <1>5
<1> QED BY <1>6

(* The next dependency is one of those that are left. *)
LEMMA FirstIsLeft ==
  ASSUME NEW n \in Nat, NEW f, f.todo \subseteq 1..n, f.todo # {}
  PROVE  Needs!First(f) \in f.todo
<1>1. IsFiniteSet(f.todo)
  BY FS_Interval, FS_Subset
<1>2. f.todo \in SUBSET Nat
  OBVIOUS
<1>3. \E i \in f.todo : \A k \in f.todo : i <= k
  BY <1>1, <1>2, NeedsLeastExists
<1> QED BY <1>3 DEF Needs!First

(* What a stack is after its top frame was replaced, and after a push and a return. *)
LEMMA FrontIs ==
  ASSUME NEW s \in Seq(Frames), s # <<>>
  PROVE  /\ Needs!Front(s) \in Seq(Frames) /\ Len(Needs!Front(s)) = Len(s) - 1
         /\ \A i \in 1..(Len(s) - 1) : Needs!Front(s)[i] = s[i]
BY DEF Needs!Front
LEMMA FrontLeft ==
  ASSUME NEW s \in Seq(Frames), s # <<>>, Len(s) # 1
  PROVE  Needs!Front(s) # <<>>
<1>1. Len(Needs!Front(s)) = Len(s) - 1 /\ Len(s) \in Nat /\ Len(s) > 0
  BY FrontIs
<1>2. Len(Needs!Front(s)) # 0
  BY <1>1
<1> QED BY <1>2
LEMMA PushedIs ==
  ASSUME NEW s \in Seq(Frames), NEW f \in Frames
  PROVE  /\ Append(s, f) \in Seq(Frames) /\ Len(Append(s, f)) = Len(s) + 1
         /\ Append(s, f)[Len(s) + 1] = f
         /\ \A i \in 1..Len(s) : Append(s, f)[i] = s[i]
OBVIOUS
LEMMA ReplacedIs ==
  ASSUME NEW s \in Seq(Frames), s # <<>>, NEW f \in Frames
  PROVE  /\ Append(Needs!Front(s), f) \in Seq(Frames) /\ Len(Append(Needs!Front(s), f)) = Len(s)
         /\ Append(Needs!Front(s), f)[Len(s)] = f
         /\ \A i \in 1..(Len(s) - 1) : Append(Needs!Front(s), f)[i] = s[i]
BY FrontIs, PushedIs
LEMMA LastIs ==
  ASSUME NEW s \in Seq(Frames), s # <<>>
  PROVE  Needs!Last(s) = s[Len(s)] /\ Needs!Last(s) \in Frames /\ Len(s) \in Nat /\ Len(s) > 0
BY DEF Needs!Last

LEMMA DepsAre ==
  ASSUME Needs!Parameters, casks \in Casks, NEW t \in CaskTokens
  PROVE  Needs!Deps(t) \in Seq(CaskTokens) /\ Len(Needs!Deps(t)) \in Nat
BY DEF Needs!Parameters, Needs!Deps

-------------------------------------------------------------------------------
(* What stays so, however the other runs go on. *)
Keeps ==
  /\ casks' = casks
  /\ \A t \in CaskTokens : Needs!There(t) \/ t \in removed => Needs!There(t)' \/ t \in removed'
LocksOf(r) == \A t \in CaskTokens, q \in Procs \ {r} : lock'[t] = q <=> lock[t] = q
Stays(r) == caskRun'[r].todo = caskRun[r].todo /\ caskRun'[r].stack = caskRun[r].stack /\ caskRun'[r].opts = caskRun[r].opts /\ (caskRun[r].started => caskRun'[r].started)

LEMMA MetStays ==
  ASSUME Needs!Parameters, casks \in Casks, Keeps, NEW t \in CaskTokens, NEW todo, Met(t, todo)
  PROVE  Met(t, todo)'
BY DepsAre DEF Met, Keeps, Needs!Deps

LEMMA SupplyStays ==
  ASSUME Needs!Parameters, casks \in Casks, Keeps, NEW s \in Seq(Frames), Supplied(s)
  PROVE  Supplied(s)'
<1> SUFFICES ASSUME NEW i \in 1..Len(s)
             PROVE  (/\ s[i].pc = "dependency" => Met(s[i].token, s[i].todo)
                     /\ s[i].pc = "install" => Met(s[i].token, {}))'
  BY DEF Supplied
<1>1. s[i] \in Frames
  OBVIOUS
<1>2. s[i].token \in CaskTokens
  BY <1>1 DEF Frames
<1> QED BY <1>2, MetStays DEF Supplied

(* The shape of a stack is about the definitions of the casks only. *)
LEMMA ShapeStays ==
  ASSUME casks' = casks, NEW s
  PROVE  /\ Nested(s)' <=> Nested(s)
         /\ Forward(s)' <=> Forward(s)
         /\ Distinct(s)' <=> Distinct(s)
BY DEF Nested, Forward, Distinct, Needs!NextOf, Needs!First, Needs!Deps

LEMMA StackStays ==
  ASSUME Needs!Parameters, NeedsTyped, Keeps, NEW r \in Procs, StackInv(r), Stays(r),
         \A t \in CaskTokens : lock'[t] = r <=> lock[t] = r
  PROVE  StackInv(r)'
<1> PICK s : s = caskRun[r].stack
  OBVIOUS
<1>1. s \in Seq(Frames) /\ casks' = casks /\ casks \in Casks /\ caskRun'[r].stack = s
  BY DEF NeedsTyped, Works, Keeps, Stays
<1>2. Nested(s)' /\ Forward(s)' /\ Distinct(s)'
  BY <1>1, ShapeStays DEF StackInv
<1>3. Locks(r, s)'
  BY DEF StackInv, Locks
<1>4. "skip_cask_deps" \notin caskRun[r].opts => Supplied(s)'
  BY <1>1, SupplyStays DEF StackInv
<1> QED BY <1>1, <1>2, <1>3, <1>4 DEF StackInv, Stays

LEMMA ClearKeeps ==
  ASSUME NEW r \in Procs, caskRun'[r].stack = <<>>, caskRun'[r].todo # <<>> => caskRun'[r].started, \A t \in CaskTokens : lock'[t] # r
  PROVE  StackInv(r)'
BY DEF StackInv, Nested, Forward, Distinct, Locks, Supplied

LEMMA ReplaceKeeps ==
  ASSUME Needs!Parameters, NeedsTyped, Keeps, NEW r \in Procs, StackInv(r), caskRun[r].stack # <<>>, lock' = lock,
         NEW f \in Frames, f.token = Needs!Last(caskRun[r].stack).token,
         caskRun'[r].stack = Append(Needs!Front(caskRun[r].stack), f),
         caskRun'[r].opts = caskRun[r].opts, caskRun'[r].started = caskRun[r].started,
         f.pc = "dependency" =>
           /\ f.todo \subseteq 1..Len(Needs!Deps(f.token))
           /\ \A k \in f.todo : \A j \in 1..Len(caskRun[r].stack) : Needs!Deps(f.token)[k] # caskRun[r].stack[j].token
           /\ "skip_cask_deps" \notin caskRun[r].opts => Met(f.token, f.todo),
         f.pc = "install" /\ "skip_cask_deps" \notin caskRun[r].opts => Met(f.token, {})
  PROVE  StackInv(r)'
<1> PICK s : s = caskRun[r].stack
  OBVIOUS
<1> PICK n : n = Len(s)
  OBVIOUS
<1> PICK z : z = caskRun'[r].stack
  OBVIOUS
<1>1. s \in Seq(Frames) /\ casks' = casks /\ casks \in Casks /\ caskRun[r].started
  BY DEF NeedsTyped, Works, Keeps, StackInv
<1>2. n \in Nat /\ n > 0 /\ Needs!Last(s) = s[n]
  BY <1>1, LastIs
<1>3. z \in Seq(Frames) /\ Len(z) = n /\ z[n] = f /\ \A i \in 1..(n - 1) : z[i] = s[i]
  BY <1>1, ReplacedIs
<1>4. \A i \in 1..n : z[i].token = s[i].token
  BY SMTT(60), <1>2, <1>3
<1>5. Nested(s) /\ Forward(s) /\ Distinct(s) /\ Locks(r, s) /\ ("skip_cask_deps" \notin caskRun[r].opts => Supplied(s))
  BY DEF StackInv
<1>6. Nested(z)'
  <2>1. ASSUME NEW i \in 1..(n - 1)
        PROVE  z[i].pc = "dependency" /\ z[i].todo # {} /\ Needs!NextOf(z[i]) = z[i + 1].token
    <3>1. i + 1 \in 1..n
      BY <1>2
    <3> QED BY ZenonT(120), <3>1, <1>3, <1>4, <1>5 DEF Nested
  <2>2. Nested(z)
    BY <2>1, <1>3 DEF Nested
  <2> QED BY SMTT(60), <2>2, <1>1, ShapeStays
<1>7. Forward(z)'
  <2> SUFFICES ASSUME NEW i \in 1..n, z[i].pc = "dependency"
               PROVE  /\ z[i].todo \subseteq 1..Len(Needs!Deps(z[i].token))
                      /\ \A k \in z[i].todo : \A j \in 1..i : Needs!Deps(z[i].token)[k] # z[j].token
    <3>1. Forward(z)
      BY SMTT(60), <1>3 DEF Forward
    <3> QED BY SMTT(60), <3>1, <1>1, ShapeStays
  <2>1. CASE i = n
    BY SMTT(60), <2>1, <1>2, <1>3, <1>4
  <2>2. CASE i # n
    <3>1. i \in 1..(n - 1) /\ \A j \in 1..i : j \in 1..n
      BY <2>2, <1>2
    <3> QED BY SMTT(60), <3>1, <1>3, <1>4, <1>5 DEF Forward
  <2> QED BY <2>1, <2>2
<1>8. Distinct(z)'
  <2>1. Distinct(z)
    BY <1>3, <1>4, <1>5 DEF Distinct
  <2> QED BY <2>1, <1>1, ShapeStays
<1>9. Locks(r, z)'
  BY SMTT(60), <1>3, <1>4, <1>5 DEF Locks
<1>10. ASSUME "skip_cask_deps" \notin caskRun[r].opts PROVE Supplied(z)'
  <2>1. Supplied(z)
    <3> SUFFICES ASSUME NEW i \in 1..n
                 PROVE  /\ z[i].pc = "dependency" => Met(z[i].token, z[i].todo)
                        /\ z[i].pc = "install" => Met(z[i].token, {})
      BY <1>3 DEF Supplied
    <3>1. CASE i = n
      BY <3>1, <1>3, <1>10
    <3>2. CASE i # n
      <4>1. i \in 1..(n - 1)
        BY <3>2, <1>2
      <4> QED BY SMTT(60), <4>1, <1>3, <1>5, <1>10 DEF Supplied
    <3> QED BY <3>1, <3>2
  <2> QED BY <2>1, <1>1, <1>3, SupplyStays
<1> QED BY <1>1, <1>6, <1>7, <1>8, <1>9, <1>10 DEF StackInv

(* A stack is nested when each frame below the top is. *)
LEMMA NestedIs ==
  ASSUME NEW z, NEW n, 1..(Len(z) - 1) = 1..n,
         \A i \in 1..n : z[i].pc = "dependency" /\ z[i].todo # {} /\ Needs!NextOf(z[i]) = z[i + 1].token
  PROVE  Nested(z)
BY DEF Nested

(* The lock of the next dependency is taken and its install started. *)
LEMMA PushKeeps ==
  ASSUME Needs!Parameters, NeedsTyped, Keeps, NEW r \in Procs, StackInv(r), caskRun[r].stack # <<>>,
         NEW d \in CaskTokens, lock[d] = None, lock' = [lock EXCEPT ![d] = r],
         Needs!Last(caskRun[r].stack).pc = "dependency", Needs!Last(caskRun[r].stack).todo # {}, Needs!NextOf(Needs!Last(caskRun[r].stack)) = d,
         caskRun'[r].stack = Append(caskRun[r].stack, Needs!Frame(d)),
         caskRun'[r].opts = caskRun[r].opts, caskRun'[r].started = caskRun[r].started
  PROVE  StackInv(r)'
<1> PICK s : s = caskRun[r].stack
  OBVIOUS
<1> PICK n : n = Len(s)
  OBVIOUS
<1> PICK z : z = caskRun'[r].stack
  OBVIOUS
<1> PICK f : f = Needs!Frame(d)
  OBVIOUS
<1>1. s \in Seq(Frames) /\ casks' = casks /\ casks \in Casks /\ caskRun[r].started
  BY DEF NeedsTyped, Works, Keeps, StackInv
<1>2. n \in Nat /\ n > 0 /\ Needs!Last(s) = s[n]
  BY <1>1, LastIs
<1>3. f \in Frames /\ f.token = d /\ f.pc = "prelude"
  BY DEF Needs!Frame, Frames, PCs
<1>4. z \in Seq(Frames) /\ Len(z) = n + 1 /\ z[n + 1] = f /\ \A i \in 1..n : z[i] = s[i]
  BY <1>1, <1>3, PushedIs
<1>5. Nested(s) /\ Forward(s) /\ Distinct(s) /\ Locks(r, s) /\ ("skip_cask_deps" \notin caskRun[r].opts => Supplied(s))
  BY DEF StackInv
<1>6. Nested(z)'
  <2>1. ASSUME NEW i \in 1..n
        PROVE  z[i].pc = "dependency" /\ z[i].todo # {} /\ Needs!NextOf(z[i]) = z[i + 1].token
    <3>1. CASE i = n
      BY <3>1, <1>2, <1>3, <1>4
    <3>2. CASE i # n
      <4>1. i \in 1..(n - 1) /\ i + 1 \in 1..n
        BY <3>2, <1>2
      <4> QED BY ZenonT(120), <4>1, <1>4, <1>5 DEF Nested
    <3> QED BY SMTT(60), <3>1, <3>2
  <2>2. 1..(Len(z) - 1) = 1..n
    <3>1. Len(z) - 1 = n
      BY <1>2, <1>4
    <3> QED BY <3>1
  <2>3. Nested(z)
    BY ZenonT(60), <2>1, <2>2, NestedIs
  <2> QED BY <2>3, <1>1, ShapeStays
<1>7. Forward(z)'
  <2>1. ASSUME NEW i \in 1..(n + 1), z[i].pc = "dependency"
        PROVE  /\ z[i].todo \subseteq 1..Len(Needs!Deps(z[i].token))
               /\ \A k \in z[i].todo : \A j \in 1..i : Needs!Deps(z[i].token)[k] # z[j].token
    <3>1. i \in 1..n
      BY <2>1, <1>2, <1>3, <1>4
    <3>2. \A j \in 1..i : j \in 1..n
      BY <3>1, <1>2
    <3> QED BY <2>1, <3>1, <3>2, <1>4, <1>5 DEF Forward
  <2>2. Forward(z)
    BY SMTT(60), <2>1, <1>4 DEF Forward
  <2> QED BY <2>2, <1>1, ShapeStays
<1>8. Distinct(z)'
  <2>1. \A i \in 1..n : s[i].token # d
    <3> SUFFICES ASSUME NEW i \in 1..n, s[i].token = d PROVE FALSE
      OBVIOUS
    <3>1. lock[d] = r
      BY <1>5 DEF Locks
    <3> QED BY <3>1 DEF Needs!Parameters
  <2>2. Distinct(z)
    <3> SUFFICES ASSUME NEW i \in 1..(n + 1), NEW j \in 1..(n + 1), z[i].token = z[j].token PROVE i = j
      BY <1>4 DEF Distinct
    <3>1. i \in 1..n \/ i = n + 1
      BY <1>2
    <3>2. j \in 1..n \/ j = n + 1
      BY <1>2
    <3>3. CASE i \in 1..n /\ j \in 1..n
      BY <3>3, <1>4, <1>5 DEF Distinct
    <3> QED BY <3>1, <3>2, <3>3, <2>1, <1>3, <1>4
  <2> QED BY <2>2, <1>1, ShapeStays
<1>9. Locks(r, z)'
  <2> SUFFICES ASSUME NEW t \in CaskTokens PROVE lock'[t] = r <=> \E i \in 1..(n + 1) : z[i].token = t
    BY SMTT(60), <1>4 DEF Locks
  <2>1. CASE t = d
    <3>1. lock'[t] = r
      BY <2>1 DEF NeedsTyped
    <3>2. n + 1 \in 1..(n + 1)
      BY <1>2
    <3> QED BY <3>1, <3>2, <2>1, <1>3, <1>4
  <2>2. CASE t # d
    <3>1. lock'[t] = lock[t]
      BY <2>2 DEF NeedsTyped
    <3>2. (\E i \in 1..(n + 1) : z[i].token = t) <=> \E i \in 1..n : s[i].token = t
      <4>1. \A i \in 1..(n + 1) : i \in 1..n \/ i = n + 1
        BY <1>2
      <4>2. \A i \in 1..n : i \in 1..(n + 1)
        BY <1>2
      <4> QED BY <4>1, <4>2, <2>2, <1>3, <1>4
    <3> QED BY SMTT(60), <3>1, <3>2, <1>5 DEF Locks
  <2> QED BY <2>1, <2>2
<1>10. ASSUME "skip_cask_deps" \notin caskRun[r].opts PROVE Supplied(z)'
  <2>1. Supplied(z)
    <3> SUFFICES ASSUME NEW i \in 1..(n + 1)
                 PROVE  /\ z[i].pc = "dependency" => Met(z[i].token, z[i].todo)
                        /\ z[i].pc = "install" => Met(z[i].token, {})
      BY <1>4 DEF Supplied
    <3>1. CASE i = n + 1
      BY <3>1, <1>3, <1>4
    <3>2. CASE i # n + 1
      <4>1. i \in 1..n
        BY <3>2, <1>2
      <4> QED BY <4>1, <1>4, <1>5, <1>10 DEF Supplied
    <3> QED BY <3>1, <3>2
  <2> QED BY <2>1, <1>1, <1>4, SupplyStays
<1> QED BY <1>1, <1>6, <1>7, <1>8, <1>9, <1>10 DEF StackInv

LEMMA OneLess ==
  ASSUME NEW n \in Nat, n > 0, n # 1, NEW m, m = n - 1
  PROVE  m \in Nat /\ m > 0 /\ n = m + 1
OBVIOUS

(* An install that is done gives back its own lock, and the one above it goes on. *)
LEMMA PopKeeps ==
  ASSUME Needs!Parameters, NeedsTyped, Keeps, NEW r \in Procs, StackInv(r), caskRun[r].stack # <<>>,
         lock' = [lock EXCEPT ![Needs!Last(caskRun[r].stack).token] = None], installed'[Needs!Last(caskRun[r].stack).token] # "no",
         caskRun'[r].stack =
           IF Len(caskRun[r].stack) = 1 THEN <<>>
           ELSE Append(Needs!Front(Needs!Front(caskRun[r].stack)),
                       [Needs!Last(Needs!Front(caskRun[r].stack)) EXCEPT !.todo = @ \ {Needs!First(Needs!Last(Needs!Front(caskRun[r].stack)))}]),
         caskRun'[r].opts = caskRun[r].opts, caskRun'[r].started = caskRun[r].started
  PROVE  StackInv(r)'
<1> PICK s : s = caskRun[r].stack
  OBVIOUS
<1> PICK n : n = Len(s)
  OBVIOUS
<1> PICK z : z = caskRun'[r].stack
  OBVIOUS
<1> PICK t : t = Needs!Last(s).token
  OBVIOUS
<1>1. s \in Seq(Frames) /\ casks' = casks /\ casks \in Casks /\ caskRun[r].started
  BY DEF NeedsTyped, Works, Keeps, StackInv
<1>2. n \in Nat /\ n > 0 /\ Needs!Last(s) = s[n] /\ s[n].token = t /\ s[n] \in Frames /\ t \in CaskTokens
  BY <1>1, LastIs DEF Frames
<1>3. Nested(s) /\ Forward(s) /\ Distinct(s) /\ Locks(r, s) /\ ("skip_cask_deps" \notin caskRun[r].opts => Supplied(s))
  BY DEF StackInv
<1>4. \A u \in CaskTokens : lock'[u] = r <=> u # t /\ lock[u] = r
  <2> SUFFICES ASSUME NEW u \in CaskTokens PROVE lock'[u] = r <=> u # t /\ lock[u] = r
    OBVIOUS
  <2>1. lock'[u] = IF u = t THEN None ELSE lock[u]
    BY DEF NeedsTyped
  <2> QED BY <2>1 DEF Needs!Parameters
<1>5. CASE n = 1
  <2>1. z = <<>>
    BY <1>5
  <2>2. \A u \in CaskTokens : lock'[u] # r
    <3> SUFFICES ASSUME NEW u \in CaskTokens, u # t, lock[u] = r PROVE FALSE
      BY SMTT(60), <1>4
    <3>1. PICK i \in 1..n : s[i].token = u
      BY <1>3 DEF Locks
    <3> QED BY <3>1, <1>5, <1>2
  <2> QED BY <1>1, <2>1, <2>2, ClearKeeps
<1>6. CASE n # 1
  <2> PICK m : m = n - 1
    OBVIOUS
  <2>1. m \in Nat /\ m > 0 /\ n = m + 1
    BY <1>2, <1>6, OneLess
  <2> PICK y : y = Needs!Front(s)
    OBVIOUS
  <2>2. y \in Seq(Frames) /\ Len(y) = m /\ \A i \in 1..m : y[i] = s[i]
    BY <1>1, <2>1, FrontIs
  <2> PICK up : up = Needs!Last(y)
    OBVIOUS
  <2>3. y # <<>> /\ up = y[m] /\ up = s[m] /\ up \in Frames
    <3>1. y # <<>> /\ m \in 1..m
      BY <2>1, <2>2
    <3>2. up = y[m] /\ up \in Frames
      BY SMTT(60), <3>1, <2>2, LastIs
    <3> QED BY <3>1, <3>2, <2>2
  <2> PICK f : f = [up EXCEPT !.todo = @ \ {Needs!First(up)}]
    OBVIOUS
  <2>4. f \in Frames /\ f.token = up.token /\ f.pc = up.pc /\ f.todo = up.todo \ {Needs!First(up)}
    BY <2>3 DEF Frames
  <2>5. z = Append(Needs!Front(y), f)
    BY SMTT(60), <1>6
  <2>6. z \in Seq(Frames) /\ Len(z) = m /\ z[m] = f /\ \A i \in 1..(m - 1) : z[i] = s[i]
    <3>1. /\ z \in Seq(Frames) /\ Len(z) = Len(y) /\ z[Len(y)] = f
          /\ \A i \in 1..(Len(y) - 1) : z[i] = y[i]
      BY SMTT(60), <2>2, <2>3, <2>4, <2>5, ReplacedIs
    <3>2. \A i \in 1..(m - 1) : i \in 1..m
      BY SMTT(60), <2>1
    <3> QED BY ZenonT(120), <3>1, <3>2, <2>2
  <2>7. \A i \in 1..m : z[i].token = s[i].token /\ z[i].pc = s[i].pc
    BY SMTT(60), <2>1, <2>3, <2>4, <2>6
  <2>8. up.pc = "dependency" /\ up.todo # {} /\ Needs!NextOf(up) = t
    <3>1. m \in 1..(n - 1) /\ m + 1 = n
      BY <2>1
    <3>2. s[m].pc = "dependency" /\ s[m].todo # {} /\ Needs!NextOf(s[m]) = s[m + 1].token
      BY <3>1, <1>3 DEF Nested
    <3> QED BY <3>1, <3>2, <2>3, <1>2
  <2>9. m \in 1..n /\ m + 1 = n /\ m \in 1..m
    BY <2>1
  <2>10. up.token \in CaskTokens
    BY <2>3 DEF Frames
  <2>11. up.todo \subseteq 1..Len(Needs!Deps(up.token)) /\ Needs!First(up) \in up.todo /\ Needs!Deps(up.token)[Needs!First(up)] = t
    <3>1. up.todo \subseteq 1..Len(Needs!Deps(up.token))
      BY <2>3, <2>8, <2>9, <1>3 DEF Forward
    <3> QED BY <3>1, <2>8, <2>10, <1>1, DepsAre, FirstIsLeft DEF Needs!NextOf
  <2>12. Nested(z)'
    <3>1. ASSUME NEW i \in 1..(m - 1)
          PROVE  z[i].pc = "dependency" /\ z[i].todo # {} /\ Needs!NextOf(z[i]) = z[i + 1].token
      <4>1. i + 1 \in 1..m /\ i \in 1..(n - 1)
        BY SMTT(60), <2>1
      <4>2. z[i] = s[i] /\ z[i + 1].token = s[i + 1].token
        BY SMTT(60), <4>1, <2>6, <2>7
      <4>3. s[i].pc = "dependency" /\ s[i].todo # {} /\ Needs!NextOf(s[i]) = s[i + 1].token
        BY SMTT(60), <4>1, <1>3 DEF Nested
      <4> QED BY <4>2, <4>3
    <3>2. Nested(z)
      BY <3>1, <2>6 DEF Nested
    <3> QED BY SMTT(60), <3>2, <1>1, ShapeStays
  <2>13. Forward(z)'
    <3>1. ASSUME NEW i \in 1..m, z[i].pc = "dependency"
          PROVE  /\ z[i].todo \subseteq 1..Len(Needs!Deps(z[i].token))
                 /\ \A k \in z[i].todo : \A j \in 1..i : Needs!Deps(z[i].token)[k] # z[j].token
      <4>1. i \in 1..n /\ \A j \in 1..i : j \in 1..m
        BY SMTT(60), <2>1
      <4>2. z[i].todo \subseteq s[i].todo
        BY SMTT(60), <2>1, <2>3, <2>4, <2>6
      <4>3. /\ s[i].todo \subseteq 1..Len(Needs!Deps(s[i].token))
            /\ \A k \in s[i].todo : \A j \in 1..i : Needs!Deps(s[i].token)[k] # s[j].token
        BY ZenonT(120), <3>1, <4>1, <2>7, <1>3 DEF Forward
      <4>4. z[i].token = s[i].token
        BY <2>7
      <4>5. z[i].todo \subseteq 1..Len(Needs!Deps(z[i].token))
        BY <4>2, <4>3, <4>4
      <4>6. ASSUME NEW k \in z[i].todo, NEW j \in 1..i PROVE Needs!Deps(z[i].token)[k] # z[j].token
        <5>1. z[j].token = s[j].token /\ k \in s[i].todo
          BY ZenonT(120), <4>1, <4>2, <2>7
        <5> QED BY ZenonT(120), <5>1, <4>3, <4>4
      <4> QED BY ZenonT(120), <4>5, <4>6
    <3>2. Forward(z)
      BY SMTT(60), <3>1, <2>6 DEF Forward
    <3> QED BY SMTT(60), <3>2, <1>1, ShapeStays
  <2>14. \A i \in 1..m : i \in 1..n /\ i # n
    BY <2>1
  <2>15. Distinct(z)'
    <3>1. Distinct(z)
      <4> SUFFICES ASSUME NEW i \in 1..m, NEW j \in 1..m, z[i].token = z[j].token PROVE i = j
        BY SMTT(60), <2>6 DEF Distinct
      <4>1. s[i].token = s[j].token /\ i \in 1..n /\ j \in 1..n
        BY <2>7, <2>14
      <4> QED BY SMTT(60), <4>1, <1>3 DEF Distinct
    <3> QED BY <3>1, <1>1, ShapeStays
  <2>16. Locks(r, z)'
    <3> SUFFICES ASSUME NEW u \in CaskTokens PROVE lock'[u] = r <=> \E i \in 1..m : z[i].token = u
      BY <2>6 DEF Locks
    <3>1. (\E i \in 1..m : z[i].token = u) <=> \E i \in 1..m : s[i].token = u
      BY ZenonT(120), <2>7
    <3>2. \A i \in 1..n : i \in 1..m \/ i = n
      BY <2>1
    <3>3. n \in 1..n
      BY <1>2
    <3>4. (\E i \in 1..m : s[i].token = u) <=> u # t /\ \E i \in 1..n : s[i].token = u
      <4>1. ASSUME NEW i \in 1..m, s[i].token = u PROVE u # t /\ \E j \in 1..n : s[j].token = u
        <5>1. i \in 1..n /\ i # n
          BY <2>14
        <5>2. s[i].token # s[n].token
          BY <5>1, <3>3, <1>3 DEF Distinct
        <5> QED BY <5>1, <5>2, <4>1, <1>2
      <4>2. ASSUME u # t, NEW i \in 1..n, s[i].token = u PROVE \E j \in 1..m : s[j].token = u
        <5>1. i # n
          BY <4>2, <1>2
        <5> QED BY <5>1, <4>2, <3>2
      <4> QED BY <4>1, <4>2
    <3> QED BY <3>1, <3>4, <1>3, <1>4 DEF Locks
  <2>17. ASSUME "skip_cask_deps" \notin caskRun[r].opts PROVE Supplied(z)'
    <3>1. Supplied(s)'
      BY SMTT(60), <1>1, <1>3, <2>17, SupplyStays
    <3>3. Met(up.token, up.todo)'
      BY <3>1, <2>3, <2>8, <2>9 DEF Supplied
    <3>4. Needs!Deps(up.token)' = Needs!Deps(up.token) /\ Needs!There(Needs!Deps(up.token)[Needs!First(up)])'
      <4>1. Needs!Deps(up.token)' = Needs!Deps(up.token)
        BY SMTT(60), <1>1 DEF Needs!Deps
      <4>2. installed'[t] # "no"
        OBVIOUS
      <4> QED BY <4>1, <4>2, <2>11 DEF Needs!There
    <3>5. Met(f.token, f.todo)'
      BY SMTT(60), <3>3, <3>4, <2>4 DEF Met
    <3>6. \A i \in 1..m : i \in 1..(m - 1) \/ i = m
      BY SMTT(60), <2>1
    <3>7. /\ z[m].pc = "dependency" => Met(z[m].token, z[m].todo)'
          /\ z[m].pc = "install" => Met(z[m].token, {})'
      BY <3>5, <2>4, <2>6, <2>8
    <3>8. SUFFICES ASSUME NEW i \in 1..m
                   PROVE  /\ z[i].pc = "dependency" => Met(z[i].token, z[i].todo)'
                          /\ z[i].pc = "install" => Met(z[i].token, {})'
      BY <2>6 DEF Supplied
    <3>9. CASE i = m
      BY <3>7, <3>9
    <3>10. CASE i # m
      <4>1. i \in 1..(m - 1)
        BY <3>6, <3>10
      <4>2. i \in 1..n /\ z[i] = s[i]
        BY <4>1, <2>1, <2>6
      <4> QED BY <4>2, <3>1 DEF Supplied
    <3> QED BY <3>9, <3>10
  <2> QED BY <1>1, <2>12, <2>13, <2>15, <2>16, <2>17 DEF StackInv
<1> QED BY <1>5, <1>6

-------------------------------------------------------------------------------
(* The steps *)

LEMMA WorksAre ==
  ASSUME NeedsTyped, NEW r \in Procs
  PROVE  /\ caskRun[r] \in Works /\ caskRun[r].stack \in Seq(Frames)
         /\ Needs!Busy(r) => /\ Needs!Top(r) \in Frames /\ Needs!Top(r).token \in CaskTokens
                             /\ Needs!Top(r) = caskRun[r].stack[Len(caskRun[r].stack)] /\ Len(caskRun[r].stack) \in 1..Len(caskRun[r].stack)
<1>1. caskRun[r] \in Works
  BY DEF NeedsTyped
<1>2. caskRun[r].stack \in Seq(Frames)
  BY <1>1 DEF Works
<1>3. ASSUME Needs!Busy(r)
      PROVE  /\ Needs!Top(r) \in Frames /\ Needs!Top(r).token \in CaskTokens
             /\ Needs!Top(r) = caskRun[r].stack[Len(caskRun[r].stack)] /\ Len(caskRun[r].stack) \in 1..Len(caskRun[r].stack)
  <2>1. Needs!Top(r) \in Frames /\ Needs!Top(r) = caskRun[r].stack[Len(caskRun[r].stack)] /\ Len(caskRun[r].stack) \in Nat /\ Len(caskRun[r].stack) > 0
    BY <1>2, <1>3, LastIs DEF Needs!Busy, Needs!Top
  <2>2. Needs!Top(r).token \in CaskTokens
    BY <2>1 DEF Frames
  <2> QED BY <2>1, <2>2
<1> QED BY <1>1, <1>2, <1>3

(* The run of one process changes, the others stay. *)
LEMMA OneMoves ==
  ASSUME Needs!Parameters, NeedsInv, Keeps, NEW r \in Procs, NEW w \in Works,
         caskRun' = [caskRun EXCEPT ![r] = w],
         lock' \in [CaskTokens -> Procs \cup {None}], LocksOf(r),
         installed' \in [CaskTokens -> {"no", "old", "new"}],
         StackInv(r)'
  PROVE  NeedsInv'
<1>1. NeedsTyped'
  BY DEF NeedsInv, NeedsTyped, Keeps
<1>2. ASSUME NEW q \in Procs, q # r PROVE StackInv(q)'
  <2>1. caskRun'[q] = caskRun[q]
    BY <1>2 DEF NeedsInv, NeedsTyped
  <2>2. \A t \in CaskTokens : lock'[t] = q <=> lock[t] = q
    BY <1>2 DEF LocksOf
  <2> QED BY <2>1, <2>2, StackStays DEF NeedsInv, Stays
<1> QED BY <1>1, <1>2 DEF NeedsInv

(* Whoever leaves all its installs gives up all its locks. *)
LEMMA UnlockedIs ==
  ASSUME Needs!Parameters, NeedsTyped, NEW r \in Procs, lock' = Needs!Unlocked(r)
  PROVE  lock' \in [CaskTokens -> Procs \cup {None}] /\ LocksOf(r) /\ \A t \in CaskTokens : lock'[t] # r
BY DEF Needs!Parameters, NeedsTyped, Needs!Unlocked, LocksOf

LEMMA RaiseKeeps ==
  ASSUME Needs!Parameters, NeedsInv, Keeps, NEW r \in Procs, Needs!Raise(r), installed' = installed
  PROVE  NeedsInv'
<1> PICK w : w = [caskRun[r] EXCEPT !.stack = <<>>, !.failed = TRUE]
  OBVIOUS
<1>1. caskRun[r] \in Works
  BY WorksAre DEF NeedsInv
<1>0. <<>> \in Seq(Frames)
  OBVIOUS
<1>2. w \in Works /\ w.stack = <<>> /\ (w.todo # <<>> => w.started)
  <2>1. caskRun[r].todo # <<>> \/ caskRun[r].stack # <<>> => caskRun[r].started
    BY DEF NeedsInv, StackInv
  <2> QED BY <1>0, <1>1, <2>1 DEF Works
<1>3. caskRun' = [caskRun EXCEPT ![r] = w] /\ caskRun'[r] = w
  BY DEF Needs!Raise, NeedsInv, NeedsTyped
<1>4. lock' \in [CaskTokens -> Procs \cup {None}] /\ LocksOf(r) /\ \A t \in CaskTokens : lock'[t] # r
  BY UnlockedIs DEF Needs!Raise, NeedsInv
<1>5. StackInv(r)'
  BY <1>2, <1>3, <1>4, ClearKeeps
<1>6. installed' \in [CaskTokens -> {"no", "old", "new"}]
  BY DEF NeedsInv, NeedsTyped
<1> QED BY <1>2, <1>3, <1>4, <1>5, <1>6, OneMoves

LEMMA SetTopKeeps ==
  ASSUME Needs!Parameters, NeedsInv, Keeps, NEW r \in Procs, Needs!Busy(r), lock' = lock, installed' = installed,
         NEW f \in Frames, f.token = Needs!Top(r).token, Needs!SetTop(r, f),
         f.pc = "dependency" =>
           /\ f.todo \subseteq 1..Len(Needs!Deps(f.token))
           /\ \A k \in f.todo : \A j \in 1..Len(caskRun[r].stack) : Needs!Deps(f.token)[k] # caskRun[r].stack[j].token
           /\ "skip_cask_deps" \notin caskRun[r].opts => Met(f.token, f.todo),
         f.pc = "install" /\ "skip_cask_deps" \notin caskRun[r].opts => Met(f.token, {})
  PROVE  NeedsInv'
<1> PICK w : w = [caskRun[r] EXCEPT !.stack = Append(Needs!Front(caskRun[r].stack), f)]
  OBVIOUS
<1>1. caskRun[r] \in Works /\ caskRun[r].stack \in Seq(Frames) /\ caskRun[r].stack # <<>>
  BY WorksAre DEF NeedsInv, Needs!Busy
<1>2. Append(Needs!Front(caskRun[r].stack), f) \in Seq(Frames)
  BY <1>1, ReplacedIs
<1>3. w \in Works /\ w.stack = Append(Needs!Front(caskRun[r].stack), f) /\ w.opts = caskRun[r].opts /\ w.started = caskRun[r].started
  BY <1>1, <1>2 DEF Works
<1>4. caskRun' = [caskRun EXCEPT ![r] = w] /\ caskRun'[r] = w
  BY DEF Needs!SetTop, NeedsInv, NeedsTyped
<1>5. NeedsTyped /\ StackInv(r)
  BY DEF NeedsInv
<1>6. f.token = Needs!Last(caskRun[r].stack).token
  BY DEF Needs!Top
<1>7. StackInv(r)'
  BY <1>1, <1>3, <1>4, <1>5, <1>6, ReplaceKeeps
<1>8. lock' \in [CaskTokens -> Procs \cup {None}] /\ LocksOf(r) /\ installed' \in [CaskTokens -> {"no", "old", "new"}]
  BY <1>5 DEF NeedsTyped, LocksOf
<1> QED BY <1>3, <1>4, <1>7, <1>8, OneMoves

(* To another place in the same install. *)
LEMMA GotoKeeps ==
  ASSUME Needs!Parameters, NeedsInv, Keeps, NEW r \in Procs, Needs!Busy(r), lock' = lock, installed' = installed,
         NEW pc \in PCs \ {"dependency"}, Needs!Goto(r, pc),
         pc = "install" /\ "skip_cask_deps" \notin caskRun[r].opts => Met(Needs!Top(r).token, {})
  PROVE  NeedsInv'
<1> PICK f : f = [Needs!Top(r) EXCEPT !.pc = pc]
  OBVIOUS
<1>1. Needs!Top(r) \in Frames
  BY WorksAre DEF NeedsInv
<1>2. f \in Frames /\ f.token = Needs!Top(r).token /\ f.pc = pc
  BY <1>1 DEF Frames
<1>3. Needs!SetTop(r, f)
  BY DEF Needs!Goto
<1> QED BY <1>2, <1>3, SetTopKeeps

LEMMA ReturnKeeps ==
  ASSUME Needs!Parameters, NeedsInv, Keeps, NEW r \in Procs, Needs!Busy(r), Needs!Return(r),
         installed'[Needs!Top(r).token] # "no", installed' \in [CaskTokens -> {"no", "old", "new"}]
  PROVE  NeedsInv'
<1> PICK s : s = caskRun[r].stack
  OBVIOUS
<1> PICK up : up = Needs!Last(Needs!Front(s))
  OBVIOUS
<1> PICK f : f = [up EXCEPT !.todo = @ \ {Needs!First(up)}]
  OBVIOUS
<1> PICK z : z = IF Len(s) = 1 THEN <<>> ELSE Append(Needs!Front(Needs!Front(s)), f)
  OBVIOUS
<1> PICK w : w = [caskRun[r] EXCEPT !.stack = z]
  OBVIOUS
<1>1. caskRun[r] \in Works /\ s \in Seq(Frames) /\ s # <<>>
  BY WorksAre DEF NeedsInv, Needs!Busy
<1>2. z \in Seq(Frames)
  <2>1. CASE Len(s) = 1
    BY <2>1
  <2>2. CASE Len(s) # 1
    <3>1. Needs!Front(s) \in Seq(Frames)
      BY <1>1, FrontIs
    <3>2. Needs!Front(s) # <<>>
      BY <1>1, <2>2, FrontLeft
    <3>3. up \in Frames
      BY <3>1, <3>2, LastIs
    <3>4. f \in Frames
      BY <3>3 DEF Frames
    <3>5. Append(Needs!Front(Needs!Front(s)), f) \in Seq(Frames)
      BY <3>1, <3>2, <3>4, ReplacedIs
    <3> QED BY <3>5, <2>2
  <2> QED BY <2>1, <2>2
<1>3. w \in Works /\ w.stack = z /\ w.opts = caskRun[r].opts /\ w.started = caskRun[r].started
  BY <1>1, <1>2 DEF Works
<1>4. caskRun' = [caskRun EXCEPT ![r] = w] /\ caskRun'[r] = w
  BY DEF Needs!Return, NeedsInv, NeedsTyped
<1>5. NeedsTyped /\ StackInv(r)
  BY DEF NeedsInv
<1>6. lock' = [lock EXCEPT ![Needs!Last(caskRun[r].stack).token] = None] /\ installed'[Needs!Last(caskRun[r].stack).token] # "no"
  BY SMTT(60) DEF Needs!Return, Needs!Top
<1>7. StackInv(r)'
  BY <1>1, <1>3, <1>4, <1>5, <1>6, PopKeeps
<1>8. lock' \in [CaskTokens -> Procs \cup {None}] /\ LocksOf(r)
  <2>1. lock[Needs!Top(r).token] = r
    <3>1. Locks(r, s) /\ Needs!Top(r).token \in CaskTokens /\ Needs!Top(r) = s[Len(s)] /\ Len(s) \in 1..Len(s)
      BY <1>5, WorksAre DEF StackInv
    <3> QED BY <3>1 DEF Locks
  <2>2. lock' = [lock EXCEPT ![Needs!Top(r).token] = None]
    BY DEF Needs!Return
  <2> QED BY <1>5, <2>1, <2>2 DEF NeedsTyped, LocksOf, Needs!Parameters
<1> QED BY <1>3, <1>4, <1>7, <1>8, OneMoves

LEMMA NeedsStartKeeps ==
  ASSUME Needs!Parameters, NeedsInv, NEW r \in Procs, Needs!Start(r)
  PROVE  NeedsInv'
<1>1. PICK todo \in Requests, opts \in Options :
        caskRun' = [caskRun EXCEPT ![r] = [todo |-> todo, stack |-> <<>>, opts |-> opts, failed |-> FALSE, started |-> TRUE]]
  BY DEF Needs!Start
<1> PICK w : w = [todo |-> todo, stack |-> <<>>, opts |-> opts, failed |-> FALSE, started |-> TRUE]
  OBVIOUS
<1>2. w \in Works /\ w.stack = <<>> /\ w.started
  BY DEF Works, Needs!Parameters
<1>3. caskRun' = [caskRun EXCEPT ![r] = w] /\ caskRun'[r] = w
  BY <1>1 DEF NeedsInv, NeedsTyped
<1>4. caskRun[r].stack = <<>>
  BY DEF Needs!Start, NeedsInv, StackInv
<1>5. \A t \in CaskTokens : lock'[t] # r
  BY <1>4 DEF Needs!Start, NeedsInv, StackInv, Locks
<1>6. StackInv(r)'
  BY <1>2, <1>3, <1>5, ClearKeeps
<1>7. Keeps
  BY DEF Needs!Start, Keeps, Needs!There
<1>8. LocksOf(r) /\ lock' \in [CaskTokens -> Procs \cup {None}] /\ installed' \in [CaskTokens -> {"no", "old", "new"}]
  BY DEF Needs!Start, LocksOf, NeedsInv, NeedsTyped
<1> QED BY <1>2, <1>3, <1>6, <1>7, <1>8, OneMoves

LEMMA KillKeeps ==
  ASSUME Needs!Parameters, NeedsInv, NEW r \in Procs, Needs!Kill(r)
  PROVE  NeedsInv'
<1> PICK w : w = [caskRun[r] EXCEPT !.todo = <<>>, !.stack = <<>>]
  OBVIOUS
<1>1. caskRun[r] \in Works
  BY WorksAre DEF NeedsInv
<1>0. <<>> \in Seq(Frames) /\ <<>> \in Seq(CaskTokens)
  OBVIOUS
<1>2. w \in Works /\ w.stack = <<>> /\ w.todo = <<>>
  BY <1>0, <1>1 DEF Works
<1>3. caskRun' = [caskRun EXCEPT ![r] = w] /\ caskRun'[r] = w
  BY DEF Needs!Kill, NeedsInv, NeedsTyped
<1>4. lock' \in [CaskTokens -> Procs \cup {None}] /\ LocksOf(r) /\ \A t \in CaskTokens : lock'[t] # r
  BY UnlockedIs DEF Needs!Kill, NeedsInv
<1>5. StackInv(r)'
  BY <1>2, <1>3, <1>4, ClearKeeps
<1>6. Keeps /\ installed' \in [CaskTokens -> {"no", "old", "new"}]
  BY DEF Needs!Kill, Keeps, Needs!There, NeedsInv, NeedsTyped
<1> QED BY <1>2, <1>3, <1>4, <1>5, <1>6, OneMoves

LEMMA LockNextKeeps ==
  ASSUME Needs!Parameters, NeedsInv, NEW r \in Procs, Needs!LockNext(r)
  PROVE  NeedsInv'
<1> PICK t : t = Head(caskRun[r].todo)
  OBVIOUS
<1>1. caskRun[r] \in Works /\ caskRun[r].todo \in Seq(CaskTokens) /\ caskRun[r].todo # <<>> /\ caskRun[r].stack = <<>>
  BY WorksAre DEF NeedsInv, Works, Needs!LockNext, Needs!Busy
<1>2. t \in CaskTokens /\ Tail(caskRun[r].todo) \in Seq(CaskTokens)
  BY <1>1
<1>3. \A u \in CaskTokens : lock[u] # r
  BY <1>1 DEF NeedsInv, StackInv, Locks
<1>4. Keeps /\ installed' \in [CaskTokens -> {"no", "old", "new"}]
  BY DEF Needs!LockNext, Keeps, Needs!There, NeedsInv, NeedsTyped
<1>5. CASE lock[t] = None
  <2> PICK f : f = Needs!Frame(t)
    OBVIOUS
  <2> PICK w : w = [caskRun[r] EXCEPT !.stack = <<f>>, !.todo = Tail(@)]
    OBVIOUS
  <2>1. f \in Frames /\ f.token = t /\ f.pc = "prelude"
    BY <1>2 DEF Needs!Frame, Frames, PCs
  <2>2. <<f>> \in Seq(Frames)
    BY <2>1
  <2>3. w \in Works /\ w.stack = <<f>> /\ w.started = caskRun[r].started
    BY <1>1, <1>2, <2>2 DEF Works
  <2>4. caskRun' = [caskRun EXCEPT ![r] = w] /\ caskRun'[r] = w /\ lock' = [lock EXCEPT ![t] = r]
    BY <1>5 DEF Needs!LockNext, NeedsInv, NeedsTyped
  <2>5. lock' \in [CaskTokens -> Procs \cup {None}] /\ LocksOf(r) /\ \A u \in CaskTokens : lock'[u] = r <=> u = t
    BY <1>2, <1>3, <1>5, <2>4 DEF NeedsInv, NeedsTyped, LocksOf, Needs!Parameters
  <2>6. StackInv(r)'
    <3> PICK z : z = <<f>>
      OBVIOUS
    <3>1. Len(z) = 1 /\ z[1] = f
      OBVIOUS
    <3>2. caskRun'[r].stack = z
      BY <2>3, <2>4
    <3>3. caskRun'[r].started
      BY SMTT(60), <1>1, <2>3, <2>4 DEF NeedsInv, StackInv
    <3>4. Nested(z)' /\ Forward(z)' /\ Distinct(z)' /\ Supplied(z)'
      BY <3>1, <2>1 DEF Nested, Forward, Distinct, Supplied
    <3>5. Locks(r, z)'
      BY <3>1, <2>1, <2>5 DEF Locks
    <3> QED BY <3>2, <3>3, <3>4, <3>5 DEF StackInv
  <2> QED BY <1>4, <2>3, <2>4, <2>5, <2>6, OneMoves
<1>6. CASE lock[t] # None
  <2> PICK w : w = [caskRun[r] EXCEPT !.todo = <<>>, !.failed = TRUE]
    OBVIOUS
  <2>0. <<>> \in Seq(CaskTokens)
    OBVIOUS
  <2>1. w \in Works /\ w.stack = <<>> /\ w.todo = <<>>
    BY <2>0, <1>1 DEF Works
  <2>2. caskRun' = [caskRun EXCEPT ![r] = w] /\ caskRun'[r] = w /\ lock' = lock
    BY <1>6 DEF Needs!LockNext, NeedsInv, NeedsTyped
  <2>3. StackInv(r)'
    BY <1>3, <2>1, <2>2, ClearKeeps
  <2>4. LocksOf(r) /\ lock' \in [CaskTokens -> Procs \cup {None}]
    BY <2>2 DEF LocksOf, NeedsInv, NeedsTyped
  <2> QED BY <1>4, <2>1, <2>2, <2>3, <2>4, OneMoves
<1> QED BY <1>5, <1>6

(* What has not changed is kept. *)
LEMMA SameKeeps ==
  ASSUME casks' = casks, installed' = installed, removed' = removed
  PROVE  Keeps
BY DEF Keeps, Needs!There

LEMMA PreludeKeeps ==
  ASSUME Needs!Parameters, NeedsInv, NEW r \in Procs, Needs!Prelude(r)
  PROVE  NeedsInv'
<1>1. Needs!Busy(r) /\ Keeps /\ installed' = installed
  BY SameKeeps DEF Needs!Prelude, Needs!At
<1>2. CASE Needs!Raise(r)
  BY <1>1, <1>2, RaiseKeeps
<1>3. CASE Needs!Goto(r, "look") /\ lock' = lock
  <2>1. "look" \in PCs \ {"dependency"} /\ "look" # "install"
    BY DEF PCs
  <2> QED BY <1>1, <1>3, <2>1, GotoKeeps
<1> QED BY <1>2, <1>3 DEF Needs!Prelude

LEMMA NeedsLookKeeps ==
  ASSUME Needs!Parameters, NeedsInv, NEW r \in Procs, Needs!Look(r)
  PROVE  NeedsInv'
<1>1. Needs!Busy(r) /\ Keeps /\ installed' = installed /\ installed' \in [CaskTokens -> {"no", "old", "new"}]
  BY SameKeeps DEF Needs!Look, Needs!At, NeedsInv, NeedsTyped
<1>2. CASE installed[Needs!Top(r).token] = "new" /\ Needs!Return(r)
  BY <1>1, <1>2, ReturnKeeps
<1>3. CASE Needs!Goto(r, "fetch") /\ lock' = lock
  <2>1. "fetch" \in PCs \ {"dependency"} /\ "fetch" # "install"
    BY DEF PCs
  <2> QED BY <1>1, <1>3, <2>1, GotoKeeps
<1> QED BY <1>2, <1>3 DEF Needs!Look

LEMMA FetchKeeps ==
  ASSUME Needs!Parameters, NeedsInv, NEW r \in Procs, Needs!Fetch(r)
  PROVE  NeedsInv'
<1>1. Needs!Busy(r) /\ Keeps /\ installed' = installed
  BY SameKeeps DEF Needs!Fetch, Needs!At
<1>2. CASE Needs!Raise(r)
  BY <1>1, <1>2, RaiseKeeps
<1>3. CASE Needs!Goto(r, "dependencies") /\ lock' = lock
  <2>1. "dependencies" \in PCs \ {"dependency"} /\ "dependencies" # "install"
    BY DEF PCs
  <2> QED BY <1>1, <1>3, <2>1, GotoKeeps
<1> QED BY <1>2, <1>3 DEF Needs!Fetch

(* check_dependency_cycle looks at the whole chain, so that nothing that is under way
   is among the missing ones. *)
LEMMA DependenciesKeeps ==
  ASSUME Needs!Parameters, NeedsInv, NEW r \in Procs, Needs!Dependencies(r)
  PROVE  NeedsInv'
<1> PICK t : t = Needs!Top(r).token
  OBVIOUS
<1>1. Needs!Busy(r) /\ Keeps /\ installed' = installed
  BY SameKeeps DEF Needs!Dependencies, Needs!At
<1>2. CASE Needs!Raise(r)
  BY <1>1, <1>2, RaiseKeeps
<1>3. CASE /\ ~\E i \in DOMAIN Needs!Deps(t) : Needs!CheckDependencyCycle(r, Needs!Deps(t)[i])
           /\ Needs!SetTop(r, [Needs!Top(r) EXCEPT !.pc = "dependency",
                         !.todo = IF "skip_cask_deps" \in caskRun[r].opts THEN {} ELSE Needs!MissingCasks(t)])
           /\ lock' = lock
  <2> PICK missing : missing = IF "skip_cask_deps" \in caskRun[r].opts THEN {} ELSE Needs!MissingCasks(t)
    OBVIOUS
  <2> PICK f : f = [Needs!Top(r) EXCEPT !.pc = "dependency", !.todo = missing]
    OBVIOUS
  <2>1. Needs!Top(r) \in Frames /\ t \in CaskTokens
    BY <1>1, WorksAre DEF NeedsInv
  <2>2. Needs!Deps(t) \in Seq(CaskTokens) /\ Len(Needs!Deps(t)) \in Nat /\ DOMAIN Needs!Deps(t) = 1..Len(Needs!Deps(t))
    BY <2>1, DepsAre DEF NeedsInv, NeedsTyped
  <2>3. missing \subseteq 1..Len(Needs!Deps(t))
    BY <2>2 DEF Needs!MissingCasks
  <2>4. f \in Frames /\ f.token = t /\ f.pc = "dependency" /\ f.todo = missing
    <3>1. missing \in SUBSET Nat /\ "dependency" \in PCs
      BY <2>3 DEF PCs
    <3> QED BY <2>1, <3>1 DEF Frames
  <2>5. Needs!SetTop(r, f)
    BY <1>3
  <2>6. "skip_cask_deps" \notin caskRun[r].opts => Met(t, missing)
    BY <2>2 DEF Met, Needs!MissingCasks
  <2>7. ASSUME NEW k \in missing, NEW j \in 1..Len(caskRun[r].stack)
        PROVE  Needs!Deps(t)[k] # caskRun[r].stack[j].token
    <3>1. ~Needs!CheckDependencyCycle(r, Needs!Deps(t)[k])
      BY <1>3, <2>2, <2>3
    <3>2. Needs!Deps(t)[k] # t /\ Needs!Deps(t)[k] \notin Needs!Chain(r)
      BY <3>1 DEF Needs!CheckDependencyCycle
    <3>3. Needs!Top(r) = caskRun[r].stack[Len(caskRun[r].stack)] /\ caskRun[r].stack \in Seq(Frames)
      BY <1>1, WorksAre DEF NeedsInv
    <3>4. j = Len(caskRun[r].stack) \/ j \in 1..(Len(caskRun[r].stack) - 1)
      BY <3>3
    <3>5. CASE j = Len(caskRun[r].stack)
      BY <3>2, <3>3, <3>5
    <3>6. CASE j \in 1..(Len(caskRun[r].stack) - 1)
      <4>1. caskRun[r].stack[j].token \in Needs!Chain(r)
        BY <3>6 DEF Needs!Chain
      <4> QED BY <4>1, <3>2
    <3> QED BY <3>4, <3>5, <3>6
  <2>8. /\ f.todo \subseteq 1..Len(Needs!Deps(f.token))
        /\ \A k \in f.todo : \A j \in 1..Len(caskRun[r].stack) : Needs!Deps(f.token)[k] # caskRun[r].stack[j].token
    BY <2>3, <2>4, <2>7
  <2>9. "skip_cask_deps" \notin caskRun[r].opts => Met(f.token, f.todo)
    BY <2>4, <2>6
  <2>10. f.token = Needs!Top(r).token /\ f.pc # "install"
    BY <2>4
  <2>11. lock' = lock
    BY <1>3
  <2> QED BY <1>1, <2>4, <2>5, <2>8, <2>9, <2>10, <2>11, SetTopKeeps
<1> QED BY <1>2, <1>3 DEF Needs!Dependencies

(* What is next is not under way here. *)
LEMMA NextIs ==
  ASSUME Needs!Parameters, NeedsInv, NEW r \in Procs, Needs!Busy(r), Needs!Top(r).pc = "dependency", Needs!Top(r).todo # {}
  PROVE  Needs!NextOf(Needs!Top(r)) \in CaskTokens /\ lock[Needs!NextOf(Needs!Top(r))] # r
<1> PICK s : s = caskRun[r].stack
  OBVIOUS
<1> PICK n : n = Len(s)
  OBVIOUS
<1>1. s \in Seq(Frames) /\ n \in 1..n /\ Needs!Top(r) = s[n] /\ s[n].token \in CaskTokens /\ casks \in Casks
  BY WorksAre DEF NeedsInv, NeedsTyped
<1>2. Forward(s) /\ Locks(r, s)
  BY DEF NeedsInv, StackInv
<1>3. /\ s[n].todo \subseteq 1..Len(Needs!Deps(s[n].token))
      /\ \A k \in s[n].todo : \A j \in 1..n : Needs!Deps(s[n].token)[k] # s[j].token
  BY SMTT(60), <1>1, <1>2 DEF Forward
<1>4. Needs!Deps(s[n].token) \in Seq(CaskTokens) /\ Len(Needs!Deps(s[n].token)) \in Nat
  BY <1>1, DepsAre
<1>5. Needs!First(s[n]) \in s[n].todo
  BY <1>1, <1>3, <1>4, FirstIsLeft
<1>6. Needs!NextOf(s[n]) = Needs!Deps(s[n].token)[Needs!First(s[n])]
  BY DEF Needs!NextOf
<1>7. Needs!NextOf(s[n]) \in CaskTokens
  BY <1>3, <1>4, <1>5, <1>6
<1>8. \A j \in 1..n : s[j].token # Needs!NextOf(s[n])
  BY <1>3, <1>5, <1>6
<1> QED BY <1>1, <1>2, <1>7, <1>8 DEF Locks

LEMMA NextDependencyKeeps ==
  ASSUME Needs!Parameters, NeedsInv, NEW r \in Procs, Needs!NextDependency(r)
  PROVE  NeedsInv'
<1> PICK d : d = Needs!NextOf(Needs!Top(r))
  OBVIOUS
<1>1. Needs!Busy(r) /\ Keeps /\ installed' = installed /\ Needs!Top(r).pc = "dependency" /\ Needs!Top(r).todo # {}
  BY SameKeeps DEF Needs!NextDependency, Needs!At
<1>2. CASE Needs!Raise(r)
  BY <1>1, <1>2, RaiseKeeps
<1>3. CASE /\ lock[d] = None /\ lock' = [lock EXCEPT ![d] = r]
           /\ caskRun' = [caskRun EXCEPT ![r].stack = Append(@, Needs!Frame(d))]
  <2> PICK f : f = Needs!Frame(d)
    OBVIOUS
  <2> PICK w : w = [caskRun[r] EXCEPT !.stack = Append(@, f)]
    OBVIOUS
  <2>1. d \in CaskTokens
    BY <1>1, NextIs
  <2>2. caskRun[r] \in Works /\ caskRun[r].stack \in Seq(Frames) /\ caskRun[r].stack # <<>>
    BY <1>1, WorksAre DEF NeedsInv, Needs!Busy
  <2>3. f \in Frames
    BY <2>1 DEF Needs!Frame, Frames, PCs
  <2>4. Append(caskRun[r].stack, f) \in Seq(Frames)
    BY <2>2, <2>3
  <2>5. w \in Works /\ w.stack = Append(caskRun[r].stack, f) /\ w.opts = caskRun[r].opts /\ w.started = caskRun[r].started
    BY <2>2, <2>4 DEF Works
  <2>6. caskRun' = [caskRun EXCEPT ![r] = w] /\ caskRun'[r] = w
    BY <1>3 DEF NeedsInv, NeedsTyped
  <2>7. NeedsTyped /\ StackInv(r)
    BY DEF NeedsInv
  <2>8. /\ Needs!Last(caskRun[r].stack).pc = "dependency" /\ Needs!Last(caskRun[r].stack).todo # {}
        /\ Needs!NextOf(Needs!Last(caskRun[r].stack)) = d
    BY <1>1 DEF Needs!Top
  <2>9. StackInv(r)'
    BY <1>1, <1>3, <2>1, <2>2, <2>5, <2>6, <2>7, <2>8, PushKeeps
  <2>10. lock' \in [CaskTokens -> Procs \cup {None}] /\ LocksOf(r)
    BY <1>3, <2>1, <2>7 DEF NeedsTyped, LocksOf, Needs!Parameters
  <2>11. installed' \in [CaskTokens -> {"no", "old", "new"}]
    BY <1>1, <2>7 DEF NeedsTyped
  <2> QED BY <1>1, <2>5, <2>6, <2>9, <2>10, <2>11, OneMoves
<1> QED BY <1>2, <1>3 DEF Needs!NextDependency

(* What is said of an install that has reached its own place. *)
LEMMA TopIsMet ==
  ASSUME NeedsInv, NEW r \in Procs, Needs!Busy(r), "skip_cask_deps" \notin caskRun[r].opts
  PROVE  /\ Needs!Top(r).pc = "dependency" => Met(Needs!Top(r).token, Needs!Top(r).todo)
         /\ Needs!Top(r).pc = "install" => Met(Needs!Top(r).token, {})
<1>1. Supplied(caskRun[r].stack)
  BY DEF NeedsInv, StackInv
<1>2. Needs!Top(r) = caskRun[r].stack[Len(caskRun[r].stack)] /\ Len(caskRun[r].stack) \in 1..Len(caskRun[r].stack)
  BY WorksAre DEF NeedsInv
<1> QED BY <1>1, <1>2 DEF Supplied

LEMMA FormulaeKeeps ==
  ASSUME Needs!Parameters, NeedsInv, NEW r \in Procs, Needs!Formulae(r)
  PROVE  NeedsInv'
<1>1. Needs!Busy(r) /\ Keeps /\ installed' = installed /\ Needs!Top(r).pc = "dependency" /\ Needs!Top(r).todo = {}
  BY SameKeeps DEF Needs!Formulae, Needs!At
<1>2. CASE Needs!Raise(r)
  BY <1>1, <1>2, RaiseKeeps
<1>3. CASE Needs!Goto(r, "install") /\ lock' = lock
  <2>1. "install" \in PCs \ {"dependency"}
    BY DEF PCs
  <2>2. "skip_cask_deps" \notin caskRun[r].opts => Met(Needs!Top(r).token, {})
    BY <1>1, TopIsMet
  <2> QED BY <1>1, <1>3, <2>1, <2>2, GotoKeeps
<1> QED BY <1>2, <1>3 DEF Needs!Formulae

LEMMA InstallKeeps ==
  ASSUME Needs!Parameters, NeedsInv, NEW r \in Procs, Needs!Install(r)
  PROVE  NeedsInv'
<1>1. Needs!Busy(r) /\ casks' = casks /\ removed' = removed
  BY DEF Needs!Install, Needs!At
<1>2. CASE Needs!Raise(r) /\ installed' = installed
  BY <1>1, <1>2, SameKeeps, RaiseKeeps
<1>3. CASE Needs!Return(r) /\ installed' = [installed EXCEPT ![Needs!Top(r).token] = "new"]
  <2>1. installed \in [CaskTokens -> {"no", "old", "new"}] /\ Needs!Top(r).token \in CaskTokens
    BY <1>1, WorksAre DEF NeedsInv, NeedsTyped
  <2>2. installed'[Needs!Top(r).token] # "no" /\ installed' \in [CaskTokens -> {"no", "old", "new"}]
    BY <1>3, <2>1
  <2>3. Keeps
    BY <1>1, <1>3, <2>1 DEF Keeps, Needs!There
  <2> QED BY <1>1, <1>3, <2>2, <2>3, ReturnKeeps
<1> QED BY <1>2, <1>3 DEF Needs!Install

(* Steps that leave all the runs alone. *)
LEMMA RunsStay ==
  ASSUME Needs!Parameters, NeedsInv, Keeps, caskRun' = caskRun, lock' = lock,
         installed' \in [CaskTokens -> {"no", "old", "new"}]
  PROVE  NeedsInv'
<1>1. NeedsTyped'
  BY DEF NeedsInv, NeedsTyped, Keeps
<1>2. ASSUME NEW r \in Procs PROVE StackInv(r)'
  BY StackStays DEF NeedsInv, Stays
<1> QED BY <1>1, <1>2 DEF NeedsInv

LEMMA NeedsUninstallKeeps ==
  ASSUME Needs!Parameters, NeedsInv, Needs!Uninstall
  PROVE  NeedsInv'
<1>1. PICK t \in CaskTokens : installed' = [installed EXCEPT ![t] = "no"] /\ removed' = removed \cup {t}
  BY DEF Needs!Uninstall
<1>2. installed' \in [CaskTokens -> {"no", "old", "new"}]
  BY <1>1 DEF NeedsInv, NeedsTyped
<1>3. Keeps
  BY <1>1 DEF Needs!Uninstall, Keeps, Needs!There, NeedsInv, NeedsTyped
<1> QED BY <1>2, <1>3, RunsStay DEF Needs!Uninstall

(* Nothing is under way at first. *)
LEMMA NeedsInit == Needs!Parameters /\ Needs!Init => NeedsInv
<1> SUFFICES ASSUME Needs!Parameters, Needs!Init PROVE NeedsInv
  OBVIOUS
<1>0. <<>> \in Seq(CaskTokens) /\ <<>> \in Seq(Frames)
  OBVIOUS
<1>1. NeedsTyped
  BY <1>0 DEF Needs!Init, Needs!Parameters, NeedsTyped, Works
<1>2. ASSUME NEW r \in Procs PROVE StackInv(r)
  <2>1. caskRun[r].stack = <<>> /\ caskRun[r].todo = <<>> /\ \A t \in CaskTokens : lock[t] # r
    BY DEF Needs!Init, Needs!Parameters
  <2> QED BY <2>1 DEF StackInv, Nested, Forward, Distinct, Locks, Supplied
<1> QED BY <1>1, <1>2 DEF NeedsInv

(* install_casks and install_cask_entry, with whatever fails, keep the invariant. *)
LEMMA NeedsKeep == Needs!Parameters /\ NeedsInv /\ [Needs!Next]_NeedsVars => NeedsInv'
<1> SUFFICES ASSUME Needs!Parameters, NeedsInv, [Needs!Next]_NeedsVars PROVE NeedsInv'
  OBVIOUS
<1>1. CASE UNCHANGED NeedsVars
  <2>1. Keeps /\ caskRun' = caskRun /\ lock' = lock /\ installed' \in [CaskTokens -> {"no", "old", "new"}]
    BY <1>1, SameKeeps DEF NeedsVars, NeedsInv, NeedsTyped
  <2> QED BY <2>1, RunsStay
<1>2. CASE Needs!Uninstall
  BY <1>2, NeedsUninstallKeeps
<1>3. ASSUME NEW r \in Procs, Needs!Start(r) PROVE NeedsInv'
  BY <1>3, NeedsStartKeeps
<1>4. ASSUME NEW r \in Procs, Needs!Kill(r) PROVE NeedsInv'
  BY <1>4, KillKeeps
<1>5. ASSUME NEW r \in Procs, Needs!Step(r) PROVE NeedsInv'
  BY <1>5, LockNextKeeps, PreludeKeeps, NeedsLookKeeps, FetchKeeps, DependenciesKeeps, NextDependencyKeeps,
     FormulaeKeeps, InstallKeeps DEF Needs!Step
<1> QED BY <1>1, <1>2, <1>3, <1>4, <1>5 DEF Needs!Next

(* check_dependency_cycle: a run that is refused a lock is refused it by another. *)
LEMMA NotInItsOwnWay == Needs!Parameters /\ NeedsInv => Needs!NeverInItsOwnWay
BY NextIs DEF Needs!NeverInItsOwnWay

(* Each install under way holds its lock, once, and the run holds no other. *)
LEMMA LocksAreTheRecursion == NeedsInv => Needs!LocksFollowTheRecursion
<1> SUFFICES ASSUME NeedsInv, NEW r \in Procs
             PROVE  /\ {t \in CaskTokens : lock[t] = r} = {caskRun[r].stack[i].token : i \in DOMAIN caskRun[r].stack}
                    /\ \A i, j \in DOMAIN caskRun[r].stack : caskRun[r].stack[i].token = caskRun[r].stack[j].token => i = j
  BY DEF Needs!LocksFollowTheRecursion
<1> PICK s : s = caskRun[r].stack
  OBVIOUS
<1>1. s \in Seq(Frames) /\ DOMAIN s = 1..Len(s) /\ Distinct(s) /\ Locks(r, s)
  BY WorksAre DEF NeedsInv, StackInv
<1>2. \A i \in 1..Len(s) : s[i].token \in CaskTokens
  <2> SUFFICES ASSUME NEW i \in 1..Len(s) PROVE s[i].token \in CaskTokens
    OBVIOUS
  <2>1. s[i] \in Frames
    BY <1>1
  <2> QED BY <2>1 DEF Frames
<1>3. {t \in CaskTokens : lock[t] = r} = {s[i].token : i \in 1..Len(s)}
  BY <1>1, <1>2 DEF Locks
<1> QED BY <1>1, <1>3 DEF Distinct

(* What a cask needs is there before the cask is. *)
LEMMA DependenciesAreFirst == Needs!Parameters /\ NeedsInv => Needs!DependenciesComeFirstStep
<1> SUFFICES ASSUME Needs!Parameters, NeedsInv, NEW r \in Procs, Needs!Busy(r), Needs!Install(r), "skip_cask_deps" \notin caskRun[r].opts,
                    NEW i \in DOMAIN Needs!Deps(Needs!Top(r).token)
             PROVE  Needs!There(Needs!Deps(Needs!Top(r).token)[i]) \/ Needs!Deps(Needs!Top(r).token)[i] \in removed
  BY DEF Needs!DependenciesComeFirstStep
<1>1. Met(Needs!Top(r).token, {})
  BY TopIsMet DEF Needs!Install, Needs!At
<1>2. DOMAIN Needs!Deps(Needs!Top(r).token) = 1..Len(Needs!Deps(Needs!Top(r).token))
  BY WorksAre, DepsAre DEF NeedsInv, NeedsTyped
<1> QED BY <1>1, <1>2 DEF Met

-------------------------------------------------------------------------------
(* A :latest cask *)
Places == {"idle", "check", "lock", "drop", "look", "told", "outdated", "ask", "stream", "mark", "use",
           "propagate", "record"}
Commands == {"upgrade", "install", "reinstall", "fetch", None}
Runners == [at : Places, cmd : Commands, phase : {"get", "check"}, bare : BOOLEAN,
            was : (0..MaxContainers) \cup {None}, path : FileNames \cup {None}, since : (0..MaxNow) \cup {None},
            asked : Latest!Answers \cup {None}, from : 0..MaxNow, window : Latest!Windows \cup {None},
            new : (0..MaxContainers) \cup {None}, same : BOOLEAN, swapped : BOOLEAN]

LatestTyped ==
  /\ server \in Latest!Answers /\ now \in 0..MaxNow
  /\ containers \in [FileNames -> Latest!Files \cup {None}]
  /\ recorded \in (0..MaxContainers) \cup {None}
  /\ latestRun \in [Procs -> Runners]

(* A file holds what the server had when its answer began, and is as old as it says. *)
FileOk(n) ==
  containers[n] # None => /\ containers[n].time <= now /\ containers[n].begun <= now
                          /\ containers[n].c = server.c \/ server.date >= containers[n].begun

(* Of a run w: whoever has a path has one of the names; nothing was asked before the
   question; the time in the question is no later than that of the file. *)
PathOk(w) == w.at \in {"ask", "stream", "mark", "use", "propagate", "record"} => w.path \in FileNames
AskedOk(w) == w.at \in {"check", "lock", "drop", "look", "ask", "outdated"} => w.asked = None
SinceOk(w) ==
  w.at = "ask" /\ w.since # None =>
    w.since <= now /\ (containers[w.path] # None => containers[w.path].time >= w.since)
StreamOk(w) ==
  w.at = "stream" => /\ w.asked \in Latest!Answers /\ w.from <= now
                     /\ w.asked.c = server.c \/ server.date >= w.from
(* The file in use is there, and marked unless that was not wanted. *)
UsesOk(w) ==
  w.at \in {"use", "propagate", "record"} /\ ~w.swapped =>
    /\ containers[w.path] # None
    /\ w.phase = "get" /\ ~w.bare => containers[w.path].marked
MarkingOk(w) == w.at = "mark" => w.phase = "get"
Current(c, w) == c = w.asked.c \/ (w.window # None /\ w.asked.date \in w.window)
ChecksOk(w) ==
  w.at = "use" /\ w.phase = "check" /\ w.asked # None /\ ~w.swapped => Current(containers[w.path].c, w)
ToldOk(w) == w.at = "told" /\ w.asked # None /\ ~w.swapped => Current(w.was, w)
(* What was unpacked is what the file holds, and passed on is its mark. *)
UnpackedOk(w) ==
  w.at \in {"propagate", "record"} =>
    /\ w.phase = "get"
    /\ ~w.swapped => containers[w.path].c = w.new
    /\ w.at = "record" /\ ~w.swapped /\ ~w.bare => w.same

RunOk(w) ==
  /\ PathOk(w) /\ AskedOk(w) /\ SinceOk(w) /\ StreamOk(w)
  /\ MarkingOk(w) /\ UsesOk(w) /\ ChecksOk(w) /\ ToldOk(w) /\ UnpackedOk(w)

StagedOk ==
  staged # None /\ ~staged.swapped =>
    recorded = staged.c /\ (staged.wanted => staged.quarantined)

LatestInv ==
  /\ LatestTyped /\ StagedOk
  /\ \A n \in FileNames : FileOk(n)
  /\ \A r \in Procs : RunOk(latestRun[r])

-------------------------------------------------------------------------------
LEMMA IdleOk ==
  ASSUME NEW w \in Runners, w.at = "idle"
  PROVE  RunOk(w)
BY DEF RunOk, PathOk, AskedOk, SinceOk, StreamOk, UsesOk, ChecksOk, ToldOk, UnpackedOk, MarkingOk
(* So does everyone that has not asked yet. *)
LEMMA WaitingOk ==
  ASSUME NEW w \in Runners, w.at \in {"check", "lock", "drop", "look", "outdated"}, w.asked = None
  PROVE  RunOk(w)
BY DEF RunOk, PathOk, AskedOk, SinceOk, StreamOk, UsesOk, ChecksOk, ToldOk, UnpackedOk, MarkingOk

LEMMA LatestIdleIs ==
  /\ Latest!Parameters => Latest!Idle \in Runners
  /\ Latest!Idle.at = "idle" /\ Latest!Idle.asked = None
BY DEF Latest!Parameters, Latest!Idle, Runners, Places, Commands
LEMMA ChangedIs ==
  ASSUME Latest!Parameters, NEW v \in Runners, NEW w, w = [Latest!Idle EXCEPT !.at = "outdated", !.cmd = v.cmd, !.bare = v.bare]
  PROVE  w \in Runners /\ RunOk(w)
<1> PICK idle : idle = Latest!Idle
  OBVIOUS
<1> PICK place : place = "outdated"
  OBVIOUS
<1> PICK cmd : cmd = v.cmd
  OBVIOUS
<1> PICK bare : bare = v.bare
  OBVIOUS
<1>0. Latest!Idle \in Runners /\ Latest!Idle.asked = None
  BY LatestIdleIs
<1>1. w \in Runners
  <2>1. cmd \in Commands /\ bare \in BOOLEAN /\ place \in Places
    BY DEF Runners, Places
  <2>2. w = [idle EXCEPT !.at = place, !.cmd = cmd, !.bare = bare] /\ idle \in Runners
    BY <1>0
  <2> QED BY ZenonT(120), <2>1, <2>2 DEF Runners
<1>2. w.at = "outdated" /\ w.asked = None
  BY <1>0 DEF Runners
<1> QED BY <1>1, <1>2, WaitingOk

LEMMA MovedIs ==
  ASSUME NEW v \in Runners, NEW place \in Places, NEW w, w = [v EXCEPT !.at = place]
  PROVE  /\ w \in Runners /\ w.at = place
         /\ w.cmd = v.cmd /\ w.phase = v.phase /\ w.bare = v.bare /\ w.was = v.was /\ w.path = v.path
         /\ w.since = v.since /\ w.asked = v.asked /\ w.from = v.from /\ w.window = v.window
         /\ w.new = v.new /\ w.same = v.same /\ w.swapped = v.swapped
BY DEF Runners
LEMMA SwappedIs ==
  ASSUME NEW v \in Runners, NEW w, w = [v EXCEPT !.swapped = TRUE]
  PROVE  /\ w \in Runners /\ w.swapped
         /\ w.at = v.at /\ w.phase = v.phase /\ w.bare = v.bare /\ w.was = v.was /\ w.path = v.path
         /\ w.since = v.since /\ w.asked = v.asked /\ w.from = v.from /\ w.window = v.window
         /\ w.new = v.new /\ w.same = v.same
BY DEF Runners

(* One of the files, or the name that was asked for. *)
LEMMA LocationIs ==
  ASSUME NEW name \in FileNames
  PROVE  Latest!CachedLocation(name) \in FileNames
<1>1. CASE Latest!Existing = {}
  <2>1. Latest!Cardinality(Latest!Existing) # 1
    BY <1>1, FS_EmptySet, CardinalitiesAreThose
  <2> QED BY <2>1 DEF Latest!CachedLocation
<1>2. CASE Latest!Existing # {}
  BY <1>2 DEF Latest!CachedLocation, Latest!Existing
<1> QED BY <1>1, <1>2

(* A run goes on, and the cache and the server stay as they are. *)
LEMMA LatestAlone ==
  ASSUME Latest!Parameters, LatestInv, NEW r \in Procs, NEW w \in Runners, RunOk(w),
         Latest!Goes(r, w), UNCHANGED <<server, now, containers>>,
         recorded' \in (0..MaxContainers) \cup {None}, StagedOk'
  PROVE  LatestInv'
<1>1. latestRun' = [latestRun EXCEPT ![r] = w] /\ latestRun' \in [Procs -> Runners]
  BY DEF Latest!Goes, LatestInv, LatestTyped
<1>2. LatestTyped'
  BY <1>1 DEF LatestInv, LatestTyped
<1>3. \A n \in FileNames : FileOk(n)'
  BY DEF LatestInv, FileOk
<1>4. ASSUME NEW q \in Procs PROVE RunOk(latestRun[q])'
  <2> PICK v : v = latestRun'[q]
    OBVIOUS
  <2>1. RunOk(v)
    BY <1>1 DEF LatestInv, LatestTyped
  <2>2. RunOk(v)'
    BY <2>1 DEF RunOk, PathOk, AskedOk, SinceOk, StreamOk, UsesOk, ChecksOk, ToldOk, UnpackedOk, MarkingOk, Current
  <2> QED BY <2>2
<1> QED BY <1>2, <1>3, <1>4 DEF LatestInv

LEMMA AloneUnstaged ==
  ASSUME Latest!Parameters, LatestInv, NEW r \in Procs, NEW w \in Runners, RunOk(w),
         Latest!Goes(r, w), UNCHANGED <<server, now, containers, staged, recorded>>
  PROVE  LatestInv'
<1>1. recorded' \in (0..MaxContainers) \cup {None} /\ StagedOk'
  BY DEF LatestInv, LatestTyped, StagedOk
<1> QED BY <1>1, LatestAlone

LEMMA EndKeeps ==
  ASSUME Latest!Parameters, LatestInv, NEW r \in Procs, Latest!Goes(r, Latest!Idle), UNCHANGED <<server, now, containers, staged, recorded>>
  PROVE  LatestInv'
BY LatestIdleIs, IdleOk, AloneUnstaged

LEMMA ChangedKeeps ==
  ASSUME Latest!Parameters, LatestInv, NEW r \in Procs, Latest!Changed(r), UNCHANGED <<server, now, containers, staged, recorded>>
  PROVE  LatestInv'
<1> PICK w : w = [Latest!Idle EXCEPT !.at = "outdated", !.cmd = latestRun[r].cmd, !.bare = latestRun[r].bare]
  OBVIOUS
<1>1. latestRun[r] \in Runners
  BY DEF LatestInv, LatestTyped
<1>2. w \in Runners /\ RunOk(w)
  BY <1>1, ChangedIs
<1>3. Latest!Goes(r, w)
  BY DEF Latest!Changed
<1> QED BY <1>2, <1>3, AloneUnstaged

LEMMA FailKeeps ==
  ASSUME Latest!Parameters, LatestInv, NEW r \in Procs, Latest!Fail(r), UNCHANGED <<server, now, containers, staged, recorded>>
  PROVE  LatestInv'
BY ChangedKeeps, EndKeeps DEF Latest!Fail, Latest!End

(* A run that only goes to another place. *)
LEMMA ToKeeps ==
  ASSUME Latest!Parameters, LatestInv, NEW r \in Procs, NEW place \in Places, Latest!To(r, place),
         UNCHANGED <<server, now, containers, staged, recorded>>,
         ASSUME NEW w \in Runners, w = [latestRun[r] EXCEPT !.at = place] PROVE RunOk(w)
  PROVE  LatestInv'
<1> PICK w : w = [latestRun[r] EXCEPT !.at = place]
  OBVIOUS
<1>1. latestRun[r] \in Runners
  BY DEF LatestInv, LatestTyped
<1>2. w \in Runners
  BY <1>1, MovedIs
<1>3. Latest!Goes(r, w)
  BY DEF Latest!To
<1> QED BY <1>2, <1>3, AloneUnstaged

LEMMA LatestStartKeeps ==
  ASSUME Latest!Parameters, LatestInv, NEW r \in Procs, Latest!Start(r)
  PROVE  LatestInv'
<1>1. PICK cmd \in {"upgrade", "install", "reinstall", "fetch"}, bare \in BOOLEAN, force \in BOOLEAN :
        Latest!Goes(r, [Latest!Idle EXCEPT !.at = Latest!Started(cmd, force), !.cmd = cmd, !.bare = bare])
  BY DEF Latest!Start
<1> PICK place : place = Latest!Started(cmd, force)
  OBVIOUS
<1> PICK w : w = [Latest!Idle EXCEPT !.at = place, !.cmd = cmd, !.bare = bare]
  OBVIOUS
<1>2. place \in {"check", "lock", "drop", "look"}
  BY DEF Latest!Started
<1>0. Latest!Idle \in Runners /\ Latest!Idle.asked = None
  BY LatestIdleIs
<1>3. w \in Runners
  <2>1. cmd \in Commands /\ place \in Places
    BY <1>2 DEF Commands, Places
  <2> QED BY ZenonT(120), <1>0, <2>1 DEF Runners
<1>4. w.at = place /\ w.asked = None
  BY <1>0 DEF Runners
<1>5. RunOk(w)
  BY <1>2, <1>3, <1>4, WaitingOk
<1> QED BY <1>1, <1>3, <1>5, AloneUnstaged DEF Latest!Start

(* From one place where nothing was asked to another. *)
LEMMA WaitKeeps ==
  ASSUME Latest!Parameters, LatestInv, NEW r \in Procs, latestRun[r].at \in {"check", "lock", "drop", "look", "outdated"},
         NEW place \in {"check", "lock", "drop", "look", "outdated"}, Latest!To(r, place),
         UNCHANGED <<server, now, containers, staged, recorded>>
  PROVE  LatestInv'
<1> PICK w : w = [latestRun[r] EXCEPT !.at = place]
  OBVIOUS
<1>1. latestRun[r] \in Runners /\ RunOk(latestRun[r])
  BY DEF LatestInv, LatestTyped
<1>2. w \in Runners /\ w.at = place /\ w.asked = latestRun[r].asked
  BY <1>1, MovedIs DEF Places
<1>3. w.asked = None
  BY <1>1, <1>2 DEF RunOk, AskedOk
<1>4. Latest!Goes(r, w)
  BY DEF Latest!To
<1> QED BY <1>2, <1>3, <1>4, WaitingOk, AloneUnstaged

LEMMA LockOkKeeps ==
  ASSUME Latest!Parameters, LatestInv, NEW r \in Procs, Latest!LockOk(r)
  PROVE  LatestInv'
BY WaitKeeps DEF Latest!LockOk, Latest!At

LEMMA OutdatedKeeps ==
  ASSUME Latest!Parameters, LatestInv, NEW r \in Procs, Latest!Outdated(r)
  PROVE  LatestInv'
BY WaitKeeps DEF Latest!Outdated, Latest!At

LEMMA ReadRecordKeeps ==
  ASSUME Latest!Parameters, LatestInv, NEW r \in Procs, Latest!ReadRecord(r)
  PROVE  LatestInv'
<1>1. UNCHANGED <<server, now, containers, staged, recorded>>
  BY DEF Latest!ReadRecord
<1>2. CASE recorded = None
  BY <1>1, <1>2, ChangedKeeps DEF Latest!ReadRecord
<1>3. CASE recorded # None
  <2> PICK v : v = latestRun[r]
    OBVIOUS
  <2> PICK w : w = [v EXCEPT !.at = "look", !.phase = "check", !.was = recorded]
    OBVIOUS
  <2>1. v \in Runners /\ RunOk(v) /\ v.at = "check" /\ recorded \in 0..MaxContainers
    BY <1>3 DEF LatestInv, LatestTyped, Latest!ReadRecord, Latest!At
  <2>2. w \in Runners /\ w.at = "look" /\ w.asked = v.asked
    BY ZenonT(120), <2>1 DEF Runners, Places
  <2>3. w.asked = None
    BY <2>1, <2>2 DEF RunOk, AskedOk
  <2>4. Latest!Goes(r, w)
    BY <1>3 DEF Latest!ReadRecord
  <2> QED BY <1>1, <2>2, <2>3, <2>4, WaitingOk, AloneUnstaged
<1> QED BY <1>2, <1>3

LEMMA CompareKeeps ==
  ASSUME Latest!Parameters, LatestInv, NEW r \in Procs, Latest!Compare(r)
  PROVE  LatestInv'
<1> PICK v : v = latestRun[r]
  OBVIOUS
<1> PICK w : w = [v EXCEPT !.at = "told"]
  OBVIOUS
<1>1. UNCHANGED <<server, now, containers, staged, recorded>>
  BY DEF Latest!Compare
<1>2. CASE Latest!Changed(r)
  BY <1>1, <1>2, ChangedKeeps
<1>3. CASE containers[v.path].c = v.was /\ Latest!Goes(r, w)
  <2>1. v \in Runners /\ RunOk(v) /\ v.at = "use" /\ v.phase = "check"
    BY DEF LatestInv, LatestTyped, Latest!Compare, Latest!At
  <2>2. w \in Runners /\ w.at = "told" /\ w.asked = v.asked /\ w.was = v.was /\ w.window = v.window /\ w.swapped = v.swapped
    BY <2>1, MovedIs DEF Places
  <2>3. ToldOk(w)
    BY <1>3, <2>1, <2>2 DEF RunOk, ChecksOk, ToldOk, Current
  <2>4. RunOk(w)
    BY <2>2, <2>3 DEF RunOk, PathOk, AskedOk, SinceOk, StreamOk, UsesOk, ChecksOk, UnpackedOk, MarkingOk
  <2> QED BY <1>1, <1>3, <2>2, <2>4, AloneUnstaged
<1> QED BY <1>2, <1>3 DEF Latest!Compare, Latest!To, Latest!There

LEMMA UnpackKeeps ==
  ASSUME Latest!Parameters, LatestInv, NEW r \in Procs, Latest!Unpack(r)
  PROVE  LatestInv'
<1> PICK v : v = latestRun[r]
  OBVIOUS
<1>1. UNCHANGED <<server, now, containers, staged, recorded>>
  BY DEF Latest!Unpack
<1>2. CASE Latest!Fail(r)
  BY <1>1, <1>2, FailKeeps
<1>3. CASE containers[v.path] # None /\ Latest!Goes(r, [v EXCEPT !.at = "propagate", !.new = containers[v.path].c])
  <2> PICK c : c = containers[v.path].c
    OBVIOUS
  <2> PICK w : w = [v EXCEPT !.at = "propagate", !.new = c]
    OBVIOUS
  <2>1. v \in Runners /\ RunOk(v) /\ v.at = "use" /\ v.phase = "get"
    BY DEF LatestInv, LatestTyped, Latest!Unpack, Latest!Installs, Latest!At
  <2>2. v.path \in FileNames
    BY <2>1 DEF RunOk, PathOk
  <2>3. c \in 0..MaxContainers
    BY <1>3, <2>2 DEF LatestInv, LatestTyped, Latest!Files
  <2>4. /\ w \in Runners /\ w.at = "propagate" /\ w.new = c /\ w.phase = "get" /\ w.path = v.path
        /\ w.bare = v.bare /\ w.swapped = v.swapped
    BY ZenonT(120), <2>1, <2>3 DEF Runners, Places
  <2>5. UsesOk(w) /\ UnpackedOk(w) /\ PathOk(w)
    BY <2>1, <2>2, <2>4 DEF RunOk, UsesOk, UnpackedOk, PathOk
  <2>6. RunOk(w)
    BY <2>4, <2>5 DEF RunOk, AskedOk, SinceOk, StreamOk, ChecksOk, ToldOk, MarkingOk
  <2> QED BY <1>1, <1>3, <2>4, <2>6, AloneUnstaged
<1> QED BY <1>2, <1>3 DEF Latest!Unpack, Latest!There

LEMMA PropagateKeeps ==
  ASSUME Latest!Parameters, LatestInv, NEW r \in Procs, Latest!Propagate(r)
  PROVE  LatestInv'
<1> PICK v : v = latestRun[r]
  OBVIOUS
<1> PICK same : same = (containers[v.path] # None /\ containers[v.path].marked)
  OBVIOUS
<1> PICK w : w = [v EXCEPT !.at = "record", !.same = same]
  OBVIOUS
<1>1. v \in Runners /\ RunOk(v) /\ v.at = "propagate"
  BY DEF LatestInv, LatestTyped, Latest!Propagate, Latest!At
<1>2. v.path \in FileNames /\ same \in BOOLEAN
  <2>1. v.path \in FileNames
    BY <1>1 DEF RunOk, PathOk
  <2>2. containers[v.path] # None => containers[v.path].marked \in BOOLEAN
    BY <2>1 DEF LatestInv, LatestTyped, Latest!Files
  <2> QED BY <2>1, <2>2
<1>3. /\ w \in Runners /\ w.at = "record" /\ w.same = same /\ w.new = v.new /\ w.phase = v.phase /\ w.path = v.path
      /\ w.bare = v.bare /\ w.swapped = v.swapped
  BY ZenonT(120), <1>1, <1>2 DEF Runners, Places
<1>4. UsesOk(w) /\ PathOk(w)
  BY <1>1, <1>2, <1>3 DEF RunOk, UsesOk, PathOk
<1>5. UnpackedOk(w)
  <2>1. v.phase = "get" /\ (~v.swapped => containers[v.path].c = v.new)
    BY <1>1 DEF RunOk, UnpackedOk
  <2>2. ~v.swapped /\ ~v.bare => same
    BY <1>1, <2>1 DEF RunOk, UsesOk
  <2> QED BY <1>3, <2>1, <2>2 DEF UnpackedOk
<1>6. RunOk(w)
  BY <1>3, <1>4, <1>5 DEF RunOk, AskedOk, SinceOk, StreamOk, ChecksOk, ToldOk, MarkingOk
<1>7. Latest!Goes(r, w) /\ UNCHANGED <<server, now, containers, staged, recorded>>
  BY DEF Latest!Propagate, Latest!There
<1> QED BY <1>3, <1>6, <1>7, AloneUnstaged

LEMMA RecordKeeps ==
  ASSUME Latest!Parameters, LatestInv, NEW r \in Procs, Latest!Record(r)
  PROVE  LatestInv'
<1> PICK v : v = latestRun[r]
  OBVIOUS
<1>1. Latest!Goes(r, Latest!Idle) /\ UNCHANGED <<server, now, containers>>
  BY DEF Latest!Record, Latest!End
<1>2. CASE UNCHANGED <<staged, recorded>>
  BY <1>1, <1>2, EndKeeps
<1>3. CASE /\ containers[v.path] # None /\ recorded' = containers[v.path].c
           /\ staged' = [c |-> v.new, quarantined |-> v.same, wanted |-> ~v.bare, swapped |-> v.swapped]
  <2>1. v \in Runners /\ RunOk(v) /\ v.at = "record"
    BY DEF LatestInv, LatestTyped, Latest!Record, Latest!At
  <2>2. v.path \in FileNames
    BY <2>1 DEF RunOk, PathOk
  <2>3. recorded' \in 0..MaxContainers
    BY <1>3, <2>2 DEF LatestInv, LatestTyped, Latest!Files
  <2>4. /\ ~v.swapped => containers[v.path].c = v.new
        /\ ~v.swapped /\ ~v.bare => v.same
    BY <2>1 DEF RunOk, UnpackedOk
  <2>5. StagedOk'
    BY <1>3, <2>4 DEF StagedOk
  <2> QED BY <1>1, <2>3, <2>5, LatestIdleIs, IdleOk, LatestAlone
<1> QED BY <1>2, <1>3 DEF Latest!Record, Latest!There

LEMMA FileIs ==
  ASSUME LatestInv, NEW n \in FileNames, containers[n] # None
  PROVE  /\ containers[n] \in Latest!Files /\ containers[n].c \in 0..MaxContainers /\ containers[n].marked \in BOOLEAN
         /\ containers[n].time \in 0..MaxNow /\ containers[n].begun \in 0..MaxNow
         /\ containers[n].time <= now /\ containers[n].begun <= now
         /\ containers[n].c = server.c \/ server.date >= containers[n].begun
<1>1. containers[n] \in Latest!Files
  BY DEF LatestInv, LatestTyped
<1>2. FileOk(n)
  BY DEF LatestInv
<1> QED BY <1>1, <1>2 DEF Latest!Files, FileOk

LEMMA RunnerIs ==
  ASSUME LatestInv, NEW r \in Procs
  PROVE  latestRun[r] \in Runners /\ RunOk(latestRun[r])
BY DEF LatestInv, LatestTyped

(* There is a file at the path: a run that wants no mark uses it, another marks it first. *)
LEMMA HaveKeeps ==
  ASSUME Latest!Parameters, LatestInv, NEW r \in Procs, NEW v \in Runners, v.path \in FileNames, containers[v.path] # None,
         v.phase = latestRun[r].phase, v.bare = latestRun[r].bare,
         v.phase = "check" /\ v.asked # None => Current(containers[v.path].c, v),
         Latest!Have(r, v), UNCHANGED <<server, now, containers, staged, recorded>>
  PROVE  LatestInv'
<1> PICK place : place = IF Latest!Bare(r) THEN "use" ELSE "mark"
  OBVIOUS
<1> PICK w : w = [v EXCEPT !.at = place, !.since = None]
  OBVIOUS
<1>1. /\ w \in Runners /\ w.at = place /\ w.path = v.path /\ w.phase = v.phase /\ w.bare = v.bare
      /\ w.asked = v.asked /\ w.window = v.window
  BY ZenonT(120) DEF Runners, Places
<1>2. place = "use" <=> v.phase = "check" \/ v.bare
  BY DEF Latest!Bare
<1>3. w.at \in {"use", "mark"}
  BY <1>1
<1>4. PathOk(w)
  BY <1>1 DEF PathOk
<1>5. UsesOk(w)
  BY <1>1, <1>2 DEF UsesOk
<1>6. ChecksOk(w)
  BY <1>1 DEF ChecksOk, Current
<1>9. MarkingOk(w)
  <2>1. v.phase \in {"get", "check"}
    BY DEF Runners
  <2> QED BY <1>1, <1>2, <1>3, <2>1 DEF MarkingOk
<1>7. RunOk(w)
  BY <1>3, <1>4, <1>5, <1>6, <1>9 DEF RunOk, AskedOk, SinceOk, StreamOk, ToldOk, UnpackedOk
<1>8. Latest!Goes(r, w)
  BY DEF Latest!Have
<1> QED BY <1>1, <1>7, <1>8, AloneUnstaged

LEMMA LatestLookKeeps ==
  ASSUME Latest!Parameters, LatestInv, NEW r \in Procs, Latest!Look(r)
  PROVE  LatestInv'
<1> PICK v : v = latestRun[r]
  OBVIOUS
<1> PICK slot : slot = Latest!CachedLocation(Guess)
  OBVIOUS
<1>1. UNCHANGED <<server, now, containers, staged, recorded>> /\ v.at = "look"
  BY DEF Latest!Look, Latest!At
<1>2. slot \in FileNames
  BY LocationIs DEF Latest!Parameters
<1>3. v \in Runners /\ v.asked = None
  <2>1. v \in Runners /\ RunOk(v)
    BY RunnerIs
  <2> QED BY <2>1, <1>1 DEF RunOk, AskedOk
<1>4. CASE containers[slot] # None /\ Latest!Have(r, [v EXCEPT !.path = slot])
  <2> PICK u : u = [v EXCEPT !.path = slot]
    OBVIOUS
  <2>1. u \in Runners /\ u.path = slot /\ u.phase = v.phase /\ u.bare = v.bare /\ u.asked = v.asked
    BY <1>2, <1>3 DEF Runners
  <2> QED BY <1>1, <1>2, <1>3, <1>4, <2>1, HaveKeeps
<1>5. CASE Latest!Goes(r, [v EXCEPT !.at = "ask", !.path = slot, !.since = IF containers[slot] = None THEN None ELSE containers[slot].time])
  <2> PICK since : since = IF containers[slot] = None THEN None ELSE containers[slot].time
    OBVIOUS
  <2> PICK w : w = [v EXCEPT !.at = "ask", !.path = slot, !.since = since]
    OBVIOUS
  <2>1. since \in (0..MaxNow) \cup {None}
    BY <1>2, FileIs
  <2> PICK place : place = "ask"
    OBVIOUS
  <2>2. w \in Runners /\ w.at = "ask" /\ w.path = slot /\ w.asked = None /\ w.since = since
    <3>1. w = [v EXCEPT !.at = place, !.path = slot, !.since = since] /\ place \in Places
      BY DEF Places
    <3>2. w \in Runners
      BY ZenonT(120), <1>2, <1>3, <2>1, <3>1 DEF Runners
    <3>3. w.at = place /\ w.path = slot /\ w.since = since /\ w.asked = v.asked
      BY <1>3, <3>1 DEF Runners
    <3> QED BY <1>3, <3>2, <3>3
  <2>3. SinceOk(w)
    <3>1. CASE containers[slot] = None
      BY <2>2, <3>1 DEF SinceOk
    <3>2. CASE containers[slot] # None
      <4>1. since = containers[slot].time /\ containers[slot].time <= now /\ containers[slot].time \in 0..MaxNow
        BY <1>2, <3>2, FileIs
      <4> QED BY <2>2, <4>1 DEF SinceOk
    <3> QED BY <3>1, <3>2
  <2>4. RunOk(w)
    BY <1>2, <2>2, <2>3 DEF RunOk, PathOk, AskedOk, StreamOk, UsesOk, ChecksOk, ToldOk, UnpackedOk, MarkingOk
  <2> QED BY <1>1, <1>5, <2>2, <2>4, AloneUnstaged
<1> QED BY <1>4, <1>5 DEF Latest!Look

LEMMA RefusedKeeps ==
  ASSUME Latest!Parameters, LatestInv, NEW r \in Procs, NEW connected, Latest!Refused(r, connected)
  PROVE  LatestInv'
<1> PICK v : v = latestRun[r]
  OBVIOUS
<1>1. UNCHANGED <<server, now, containers, staged, recorded>> /\ v.at = "ask"
  BY DEF Latest!Refused, Latest!At
<1>2. CASE Latest!Fail(r)
  BY <1>1, <1>2, FailKeeps
<1>3. CASE containers[v.path] # None /\ Latest!Have(r, v)
  <2>1. v \in Runners /\ RunOk(v)
    BY RunnerIs
  <2>2. v.path \in FileNames /\ v.asked = None
    BY <1>1, <2>1 DEF RunOk, AskedOk, PathOk
  <2> QED BY <1>1, <1>3, <2>1, <2>2, HaveKeeps
<1> QED BY <1>2, <1>3 DEF Latest!Refused, Latest!There

(* "304 Not Modified": what is cached is what the server has, unless that came while
   the answer that brought the cached file was under way. *)
LEMMA NotModifiedKeeps ==
  ASSUME Latest!Parameters, LatestInv, NEW r \in Procs, Latest!NotModified(r)
  PROVE  LatestInv'
<1> PICK v : v = latestRun[r]
  OBVIOUS
<1>1. UNCHANGED <<server, now, containers, staged, recorded>> /\ v.at = "ask" /\ v.since # None /\ server.date <= v.since
  BY DEF Latest!NotModified, Latest!At
<1>2. CASE Latest!Fail(r)
  BY <1>1, <1>2, FailKeeps
<1>3. CASE /\ containers[v.path] # None
           /\ Latest!Have(r, [v EXCEPT !.asked = server, !.window = containers[v.path].begun .. containers[v.path].time])
  <2> PICK window : window = containers[v.path].begun .. containers[v.path].time
    OBVIOUS
  <2> PICK u : u = [v EXCEPT !.asked = server, !.window = window]
    OBVIOUS
  <2>1. v \in Runners /\ RunOk(v)
    BY RunnerIs
  <2>2. v.path \in FileNames /\ SinceOk(v)
    BY <1>1, <2>1 DEF RunOk, PathOk
  <2>3. /\ containers[v.path].time \in 0..MaxNow /\ containers[v.path].begun \in 0..MaxNow
        /\ containers[v.path].c = server.c \/ server.date >= containers[v.path].begun
    BY <1>3, <2>2, FileIs
  <2>4. server \in Latest!Answers /\ server.date \in 0..MaxNow
    BY DEF LatestInv, LatestTyped, Latest!Answers
  <2>5. v.since \in 0..MaxNow
    BY <1>1, <2>1 DEF Runners
  <2>6. containers[v.path].time >= v.since
    BY <1>1, <1>3, <2>2 DEF SinceOk
  <2>7. window \in Latest!Windows /\ window # None
    BY <2>3 DEF Latest!Windows, Latest!Parameters
  <2>8. /\ u \in Runners /\ u.path = v.path /\ u.phase = v.phase /\ u.bare = v.bare /\ u.asked = server
        /\ u.window = window
    BY ZenonT(120), <2>1, <2>4, <2>7 DEF Runners
  <2>9. server.date <= containers[v.path].time
    BY <1>1, <2>3, <2>4, <2>5, <2>6
  <2>10. containers[v.path].c = server.c \/ server.date \in window
    BY <2>3, <2>4, <2>9
  <2>11. Current(containers[v.path].c, u)
    BY <2>7, <2>8, <2>10 DEF Current
  <2> QED BY <1>1, <1>3, <2>2, <2>8, <2>11, HaveKeeps
<1> QED BY <1>2, <1>3 DEF Latest!NotModified, Latest!There

LEMMA AnsweredKeeps ==
  ASSUME Latest!Parameters, LatestInv, NEW r \in Procs, Latest!Answered(r)
  PROVE  LatestInv'
<1> PICK v : v = latestRun[r]
  OBVIOUS
<1> PICK slot : slot = Latest!CachedLocation(NameOf[server.c])
  OBVIOUS
<1> PICK w : w = [v EXCEPT !.at = "stream", !.since = None, !.asked = server, !.from = now, !.path = slot]
  OBVIOUS
<1>1. UNCHANGED <<server, now, containers, staged, recorded>> /\ Latest!Goes(r, w)
  BY DEF Latest!Answered
<1>2. v \in Runners
  BY RunnerIs
<1>3. server \in Latest!Answers /\ server.c \in 0..MaxContainers /\ server.date \in 0..MaxNow /\ now \in 0..MaxNow
  BY DEF LatestInv, LatestTyped, Latest!Answers
<1>4. slot \in FileNames
  BY <1>3, LocationIs DEF Latest!Parameters
<1>5. w \in Runners /\ w.at = "stream" /\ w.asked = server /\ w.from = now /\ w.path = slot
  BY ZenonT(120), <1>2, <1>3, <1>4 DEF Runners, Places
<1>6. StreamOk(w)
  BY <1>3, <1>5 DEF StreamOk
<1>7. RunOk(w)
  BY <1>4, <1>5, <1>6 DEF RunOk, PathOk, AskedOk, SinceOk, UsesOk, ChecksOk, ToldOk, UnpackedOk, MarkingOk
<1> QED BY <1>1, <1>5, <1>7, AloneUnstaged

-------------------------------------------------------------------------------
(* When the cache or the server changes *)

(* What becomes of a run w whose file may be replaced under it (v). *)
LatestUndisturbed(w, v) ==
  /\ v = w \/ v = [w EXCEPT !.swapped = TRUE]
  /\ \A n \in FileNames : containers'[n] # None => containers'[n].time >= now \/ (containers[n] # None /\ containers'[n].time = containers[n].time)
  /\ w.at \in {"use", "propagate", "record"} /\ ~v.swapped /\ containers[w.path] # None =>
       containers'[w.path] # None /\ containers'[w.path].c = containers[w.path].c /\ (containers[w.path].marked => containers'[w.path].marked)

LEMMA OthersKeep ==
  ASSUME Latest!Parameters, NEW w \in Runners, RunOk(w), NEW v, LatestUndisturbed(w, v),
         LatestTyped, LatestTyped', now <= now', server' = server \/ server'.date = now
  PROVE  RunOk(v)'
<1>1. /\ v \in Runners /\ (w.swapped => v.swapped)
      /\ v.at = w.at /\ v.phase = w.phase /\ v.bare = w.bare /\ v.was = w.was /\ v.path = w.path
      /\ v.since = w.since /\ v.asked = w.asked /\ v.from = w.from /\ v.window = w.window
      /\ v.new = w.new /\ v.same = w.same
  BY SwappedIs DEF LatestUndisturbed
<1>2. now \in 0..MaxNow /\ now' \in 0..MaxNow /\ server \in Latest!Answers /\ server' \in Latest!Answers
  BY DEF LatestTyped
<1>3. PathOk(v)' /\ AskedOk(v)' /\ ToldOk(v)' /\ MarkingOk(v)'
  BY <1>1 DEF RunOk, PathOk, AskedOk, ToldOk, Current, MarkingOk
<1>4. SinceOk(v)'
  <2> SUFFICES ASSUME w.at = "ask", w.since # None
               PROVE  w.since <= now' /\ (containers'[w.path] # None => containers'[w.path].time >= w.since)
    BY <1>1 DEF SinceOk
  <2>1. w.since \in 0..MaxNow /\ w.path \in FileNames
    BY DEF Runners, RunOk, PathOk
  <2>2. w.since <= now /\ (containers[w.path] # None => containers[w.path].time >= w.since)
    BY DEF RunOk, SinceOk
  <2>3. w.since <= now'
    BY <1>2, <2>1, <2>2
  <2>4. ASSUME containers'[w.path] # None PROVE containers'[w.path].time >= w.since
    <3>1. containers'[w.path].time \in 0..MaxNow
      BY <2>1, <2>4 DEF LatestTyped, Latest!Files
    <3>2. CASE containers'[w.path].time >= now
      BY <1>2, <2>1, <2>2, <3>1, <3>2
    <3>3. CASE containers[w.path] # None /\ containers'[w.path].time = containers[w.path].time
      BY <2>2, <3>3
    <3> QED BY <2>1, <2>4, <3>2, <3>3 DEF LatestUndisturbed
  <2> QED BY <2>3, <2>4
<1>5. StreamOk(v)'
  <2> SUFFICES ASSUME w.at = "stream"
               PROVE  /\ w.asked \in Latest!Answers /\ w.from <= now'
                      /\ w.asked.c = server'.c \/ server'.date >= w.from
    BY <1>1 DEF StreamOk
  <2>1. /\ w.asked \in Latest!Answers /\ w.from <= now
        /\ w.asked.c = server.c \/ server.date >= w.from
    BY DEF RunOk, StreamOk
  <2>2. w.from \in 0..MaxNow
    BY DEF Runners
  <2>3. w.from <= now'
    BY <1>2, <2>1, <2>2
  <2>4. CASE server' = server
    BY <2>1, <2>3, <2>4
  <2>5. CASE server'.date = now
    BY <1>2, <2>1, <2>2, <2>3, <2>5
  <2> QED BY <2>4, <2>5
<1>6. UsesOk(v)'
  BY <1>1 DEF RunOk, UsesOk, LatestUndisturbed
<1>7. ChecksOk(v)'
  BY <1>1 DEF RunOk, UsesOk, ChecksOk, LatestUndisturbed, Current
<1>8. UnpackedOk(v)'
  BY <1>1 DEF RunOk, UsesOk, UnpackedOk, LatestUndisturbed
<1> QED BY <1>3, <1>4, <1>5, <1>6, <1>7, <1>8 DEF RunOk

(* What holds of the files when the server has something new, or a second passes. *)
LEMMA OldFilesKeep ==
  ASSUME LatestTyped, LatestTyped', NEW n \in FileNames, FileOk(n), now <= now',
         server' = server \/ server'.date = now,
         containers'[n] # None => containers[n] # None /\ containers'[n].c = containers[n].c /\ containers'[n].time = containers[n].time /\ containers'[n].begun = containers[n].begun
  PROVE  FileOk(n)'
<1> SUFFICES ASSUME containers'[n] # None
             PROVE  /\ containers[n].time <= now' /\ containers[n].begun <= now'
                    /\ containers[n].c = server'.c \/ server'.date >= containers[n].begun
  BY DEF FileOk
<1>1. containers[n] \in Latest!Files
  BY DEF LatestTyped
<1>2. containers[n].time \in 0..MaxNow /\ containers[n].begun \in 0..MaxNow
  BY <1>1 DEF Latest!Files
<1>3. /\ containers[n].time <= now /\ containers[n].begun <= now
      /\ containers[n].c = server.c \/ server.date >= containers[n].begun
  BY DEF FileOk
<1>4. now \in 0..MaxNow /\ now' \in 0..MaxNow
  BY DEF LatestTyped
<1>5. CASE server' = server
  BY <1>2, <1>3, <1>4, <1>5
<1>6. CASE server'.date = now
  BY <1>2, <1>3, <1>4, <1>6
<1> QED BY <1>5, <1>6

(* No run moves and no file changes. *)
LEMMA WorldKeeps ==
  ASSUME Latest!Parameters, LatestInv, UNCHANGED <<containers, latestRun, staged, recorded>>,
         server' \in Latest!Answers, now' \in 0..MaxNow, now <= now', server' = server \/ server'.date = now
  PROVE  LatestInv'
<1>1. LatestTyped /\ LatestTyped'
  BY DEF LatestInv, LatestTyped
<1>2. StagedOk'
  BY DEF LatestInv, StagedOk
<1>3. \A n \in FileNames : FileOk(n)'
  BY <1>1, OldFilesKeep DEF LatestInv
<1>4. ASSUME NEW q \in Procs PROVE RunOk(latestRun[q])'
  <2> PICK w : w = latestRun[q]
    OBVIOUS
  <2>1. w \in Runners /\ RunOk(w)
    BY RunnerIs
  <2>2. LatestUndisturbed(w, w)
    BY DEF LatestUndisturbed
  <2>3. RunOk(w)'
    BY <1>1, <2>1, <2>2, OthersKeep
  <2> QED BY <2>3
<1> QED BY <1>1, <1>2, <1>3, <1>4 DEF LatestInv

LEMMA LatestPublishKeeps ==
  ASSUME Latest!Parameters, LatestInv, Latest!Publish
  PROVE  LatestInv'
<1>1. server \in Latest!Answers /\ now \in 0..MaxNow
  BY DEF LatestInv, LatestTyped
<1>2. server.c + 1 \in 0..MaxContainers
  BY <1>1 DEF Latest!Publish, Latest!Answers, Latest!Parameters
<1>3. server' \in Latest!Answers /\ server'.date = now
  BY <1>1, <1>2 DEF Latest!Publish, Latest!Answers
<1> QED BY <1>1, <1>3, WorldKeeps DEF Latest!Publish

LEMMA TickKeeps ==
  ASSUME Latest!Parameters, LatestInv, Latest!Tick
  PROVE  LatestInv'
<1>1. server \in Latest!Answers /\ now \in 0..MaxNow
  BY DEF LatestInv, LatestTyped
<1>2. now' \in 0..MaxNow /\ now <= now'
  BY <1>1 DEF Latest!Tick, Latest!Parameters
<1> QED BY <1>1, <1>2, WorldKeeps DEF Latest!Tick

(* The file at a path is replaced or removed, by a run r or by cleanup, which no run is. *)
LEMMA ReplacedKeeps ==
  ASSUME Latest!Parameters, LatestInv, NEW r, NEW slot \in FileNames, NEW f \in Latest!Files \cup {None},
         f # None => /\ f.time = now /\ f.begun <= now
                     /\ f.c = server.c \/ server.date >= f.begun,
         containers' = [containers EXCEPT ![slot] = f], UNCHANGED <<server, now, staged, recorded>>,
         latestRun' \in [Procs -> Runners],
         \A o \in Procs \ {r} : latestRun'[o] = Latest!Swapped(r, slot)[o],
         r \in Procs => RunOk(latestRun[r])'
  PROVE  LatestInv'
<1>1. LatestTyped /\ LatestTyped'
  BY DEF LatestInv, LatestTyped
<1>2. StagedOk'
  BY DEF LatestInv, StagedOk
<1>3. containers'[slot] = f /\ \A n \in FileNames \ {slot} : containers'[n] = containers[n]
  BY <1>1 DEF LatestTyped
<1>4. now \in 0..MaxNow /\ now <= now
  BY <1>1 DEF LatestTyped
<1>5. ASSUME NEW n \in FileNames PROVE FileOk(n)'
  <2>1. CASE n = slot
    BY <1>3, <1>4, <2>1 DEF FileOk
  <2>2. CASE n # slot
    BY <1>3, <2>2 DEF FileOk, LatestInv
  <2> QED BY <2>1, <2>2
<1>6. ASSUME NEW n \in FileNames, containers'[n] # None
      PROVE  containers'[n].time >= now \/ (containers[n] # None /\ containers'[n].time = containers[n].time)
  BY <1>3, <1>4, <1>6
<1>7. ASSUME NEW o \in Procs PROVE RunOk(latestRun[o])'
  <2> PICK w : w = latestRun[o]
    OBVIOUS
  <2> PICK v : v = latestRun'[o]
    OBVIOUS
  <2>1. CASE o = r
    BY <2>1
  <2>2. CASE o # r
    <3>1. w \in Runners /\ RunOk(w)
      BY RunnerIs
    <3>2. v = IF w.path = slot /\ w.at \in {"use", "propagate", "record"} THEN [w EXCEPT !.swapped = TRUE] ELSE w
      BY <2>2 DEF Latest!Swapped
    <3>3. w.at \in {"use", "propagate", "record"} /\ ~v.swapped => w.path # slot /\ w.path \in FileNames
      <4>1. w.at \in {"use", "propagate", "record"} => w.path \in FileNames
        BY <3>1 DEF RunOk, PathOk
      <4>2. w.path = slot /\ w.at \in {"use", "propagate", "record"} => v.swapped
        BY <3>1, <3>2, SwappedIs
      <4> QED BY <4>1, <4>2
    <3>4. LatestUndisturbed(w, v)
      BY <3>2, <3>3, <1>3, <1>6 DEF LatestUndisturbed
    <3>5. RunOk(v)'
      BY <1>1, <1>4, <3>1, <3>4, OthersKeep
    <3> QED BY <3>5
  <2> QED BY <2>1, <2>2
<1> QED BY <1>1, <1>2, <1>5, <1>7 DEF LatestInv

LEMMA SwappedAre ==
  ASSUME LatestInv, NEW r, NEW slot
  PROVE  /\ Latest!Swapped(r, slot) \in [Procs -> Runners]
         /\ r \in Procs => Latest!Swapped(r, slot)[r] = latestRun[r]
<1>1. ASSUME NEW o \in Procs PROVE [latestRun[o] EXCEPT !.swapped = TRUE] \in Runners /\ latestRun[o] \in Runners
  BY RunnerIs, SwappedIs
<1> QED BY <1>1 DEF Latest!Swapped

LEMMA SweepKeeps ==
  ASSUME Latest!Parameters, LatestInv, Latest!Sweep
  PROVE  LatestInv'
<1>1. PICK n \in Latest!Existing : containers' = [containers EXCEPT ![n] = None] /\ latestRun' = Latest!Swapped(None, n)
  BY DEF Latest!Sweep
<1>2. n \in FileNames
  BY DEF Latest!Existing
<1>3. latestRun' \in [Procs -> Runners] /\ None \notin Procs
  BY <1>1, SwappedAre DEF Latest!Parameters
<1> QED BY <1>1, <1>2, <1>3, ReplacedKeeps DEF Latest!Sweep

LEMMA DropKeeps ==
  ASSUME Latest!Parameters, LatestInv, NEW r \in Procs, Latest!Drop(r)
  PROVE  LatestInv'
<1> PICK slot : slot = Latest!CachedLocation(Guess)
  OBVIOUS
<1> PICK v : v = latestRun[r]
  OBVIOUS
<1> PICK w : w = [v EXCEPT !.at = "look"]
  OBVIOUS
<1> PICK s : s = Latest!Swapped(r, slot)
  OBVIOUS
<1>1. slot \in FileNames
  BY LocationIs DEF Latest!Parameters
<1>2. v \in Runners /\ RunOk(v) /\ v.at = "drop"
  BY RunnerIs DEF Latest!Drop, Latest!At
<1>3. v.asked = None
  BY <1>2 DEF RunOk, AskedOk
<1>4. w \in Runners /\ w.at = "look" /\ w.asked = None
  BY <1>2, <1>3, MovedIs DEF Places
<1>5. s \in [Procs -> Runners] /\ s[r] = v
  BY SwappedAre
<1>6. containers' = [containers EXCEPT ![slot] = None] /\ latestRun' = [s EXCEPT ![r].at = "look"]
  BY DEF Latest!Drop
<1>7. latestRun' = [s EXCEPT ![r] = w]
  BY <1>5, <1>6
<1>8. latestRun' \in [Procs -> Runners] /\ latestRun'[r] = w /\ \A o \in Procs \ {r} : latestRun'[o] = Latest!Swapped(r, slot)[o]
  BY <1>4, <1>5, <1>7
<1>9. RunOk(w)'
  BY <1>4 DEF RunOk, PathOk, AskedOk, SinceOk, StreamOk, UsesOk, ChecksOk, ToldOk, UnpackedOk, MarkingOk
<1>10. RunOk(latestRun[r])'
  BY <1>8, <1>9
<1> PICK f : f = None
  OBVIOUS
<1>11. f \in Latest!Files \cup {None} /\ containers' = [containers EXCEPT ![slot] = f] /\ UNCHANGED <<server, now, staged, recorded>>
  BY <1>6 DEF Latest!Drop
<1>12. f # None => f.time = now /\ f.begun <= now /\ (f.c = server.c \/ server.date >= f.begun)
  BY SMTT(60)
<1>13. latestRun' \in [Procs -> Runners] /\ \A o \in Procs \ {r} : latestRun'[o] = Latest!Swapped(r, slot)[o]
  BY SMTT(60), <1>8
<1> QED BY ZenonT(120), <1>1, <1>10, <1>11, <1>12, <1>13, ReplacedKeeps

(* The stream has come in: a check uses what it asked for. *)
LEMMA ArriveKeeps ==
  ASSUME Latest!Parameters, LatestInv, NEW r \in Procs, Latest!Arrive(r)
  PROVE  LatestInv'
<1> PICK v : v = latestRun[r]
  OBVIOUS
<1> PICK slot : slot = v.path
  OBVIOUS
<1> PICK f : f = [c |-> v.asked.c, time |-> now, begun |-> v.from, marked |-> FALSE]
  OBVIOUS
<1> PICK place : place = IF Latest!Bare(r) THEN "use" ELSE "mark"
  OBVIOUS
<1> PICK asked : asked = IF v.phase = "check" THEN v.asked ELSE None
  OBVIOUS
<1> PICK zero : zero = 0
  OBVIOUS
<1> PICK w : w = [v EXCEPT !.at = place, !.from = zero, !.asked = asked]
  OBVIOUS
<1> PICK s : s = Latest!Swapped(r, slot)
  OBVIOUS
<1>1. v \in Runners /\ RunOk(v) /\ v.at = "stream"
  BY RunnerIs DEF Latest!Arrive, Latest!At
<1>2. slot \in FileNames
  BY <1>1 DEF RunOk, PathOk
<1>3. /\ v.asked \in Latest!Answers /\ v.from <= now
      /\ v.asked.c = server.c \/ server.date >= v.from
  BY <1>1 DEF RunOk, StreamOk
<1>4. now \in 0..MaxNow /\ v.from \in 0..MaxNow /\ v.asked.c \in 0..MaxContainers
  BY <1>1, <1>3 DEF LatestInv, LatestTyped, Runners, Latest!Answers
<1>5. f \in Latest!Files /\ f.time = now /\ f.begun = v.from /\ f.c = v.asked.c
  BY <1>4 DEF Latest!Files
<1>6. f # None
  BY <1>5 DEF Latest!Parameters
<1>7. place \in {"use", "mark"} /\ (place = "use" <=> v.phase = "check" \/ v.bare)
  BY DEF Latest!Bare
<1>8. asked \in Latest!Answers \cup {None} /\ zero \in 0..MaxNow /\ place \in Places
  BY <1>3, <1>7 DEF Places, Latest!Parameters
<1>9. /\ w \in Runners /\ w.at = place /\ w.path = slot /\ w.phase = v.phase /\ w.bare = v.bare
      /\ w.asked = asked
  <2>1. w = [v EXCEPT !.at = place, !.from = zero, !.asked = asked]
    OBVIOUS
  <2>2. v \in Runners /\ place \in Places /\ zero \in 0..MaxNow /\ asked \in Latest!Answers \cup {None}
    BY <1>1, <1>8
  <2>3. /\ w \in Runners /\ w.at = place /\ w.path = v.path /\ w.phase = v.phase /\ w.bare = v.bare
        /\ w.asked = asked
    BY ONLY <2>1, <2>2 DEF Runners
  <2> QED BY <2>3
<1>10. s \in [Procs -> Runners] /\ s[r] = v
  BY SwappedAre
<1>11. containers' = [containers EXCEPT ![slot] = f]
  BY DEF Latest!Arrive
<1>12. latestRun' = [s EXCEPT ![r].at = place, ![r].from = 0, ![r].asked = IF v.phase = "check" THEN @ ELSE None]
  BY DEF Latest!Arrive
<1>13. latestRun' = [s EXCEPT ![r] = w]
  BY <1>10, <1>12
<1>14. latestRun' \in [Procs -> Runners] /\ latestRun'[r] = w /\ \A o \in Procs \ {r} : latestRun'[o] = Latest!Swapped(r, slot)[o]
  BY <1>9, <1>10, <1>13
<1>15. containers'[slot] = f
  BY <1>2, <1>11 DEF LatestInv, LatestTyped
<1>16. UsesOk(w)'
  BY <1>6, <1>7, <1>9, <1>15 DEF UsesOk
<1>17. ChecksOk(w)'
  <2>1. w.phase = "check" => f.c = w.asked.c
    BY <1>5, <1>9
  <2> QED BY <1>9, <1>15, <2>1 DEF ChecksOk, Current
<1>20. MarkingOk(w)'
  <2>1. v.phase \in {"get", "check"}
    BY <1>1 DEF Runners
  <2> QED BY <1>7, <1>9, <2>1 DEF MarkingOk
<1>18. RunOk(w)'
  BY <1>2, <1>7, <1>9, <1>16, <1>17, <1>20 DEF RunOk, PathOk, AskedOk, SinceOk, StreamOk, ToldOk, UnpackedOk
<1>19. RunOk(latestRun[r])'
  BY <1>14, <1>18
<1> QED BY <1>2, <1>3, <1>5, <1>11, <1>14, <1>19, ReplacedKeeps DEF Latest!Arrive

(* The mark changes nothing else of the file. *)
LEMMA MarkKeeps ==
  ASSUME Latest!Parameters, LatestInv, NEW r \in Procs, Latest!Mark(r)
  PROVE  LatestInv'
<1> PICK v : v = latestRun[r]
  OBVIOUS
<1> PICK slot : slot = v.path
  OBVIOUS
<1>0. v \in Runners /\ RunOk(v) /\ v.at = "mark"
  BY RunnerIs DEF Latest!Mark, Latest!At
<1>1. slot \in FileNames
  BY <1>0 DEF RunOk, PathOk
<1>2. CASE Latest!Fail(r) /\ containers' = containers
  BY <1>2, FailKeeps DEF Latest!Mark
<1>3. CASE containers[slot] # None /\ containers' = [containers EXCEPT ![slot].marked = TRUE] /\ Latest!To(r, "use")
  <2> PICK w : w = [v EXCEPT !.at = "use"]
    OBVIOUS
  <2>1. latestRun' = [latestRun EXCEPT ![r] = w]
    BY <1>3 DEF Latest!To, Latest!Goes
  <2>2. /\ w \in Runners /\ w.at = "use" /\ w.path = slot /\ w.asked = v.asked /\ w.window = v.window
        /\ w.phase = v.phase
    BY <1>0, MovedIs DEF Places
  <2>3. /\ containers'[slot] \in Latest!Files /\ containers'[slot] # None /\ containers'[slot].marked
        /\ containers'[slot].c = containers[slot].c /\ containers'[slot].time = containers[slot].time /\ containers'[slot].begun = containers[slot].begun
    <3> PICK f : f = [containers[slot] EXCEPT !.marked = TRUE]
      OBVIOUS
    <3>1. containers[slot] \in Latest!Files
      BY <1>1, <1>3, FileIs
    <3>2. /\ f \in Latest!Files /\ f.marked /\ f.c = containers[slot].c /\ f.time = containers[slot].time /\ f.begun = containers[slot].begun
      BY <3>1 DEF Latest!Files
    <3>3. containers'[slot] = f
      BY <1>1, <1>3 DEF LatestInv, LatestTyped
    <3> QED BY <3>2, <3>3 DEF Latest!Parameters
  <2>4. \A n \in FileNames \ {slot} : containers'[n] = containers[n]
    BY <1>3 DEF LatestInv, LatestTyped
  <2>5. containers' \in [FileNames -> Latest!Files \cup {None}]
    <3>1. containers' = [containers EXCEPT ![slot] = containers'[slot]]
      BY <1>1, <1>3 DEF LatestInv, LatestTyped
    <3> QED BY <2>3, <3>1 DEF LatestInv, LatestTyped
  <2>6. LatestTyped /\ LatestTyped'
    BY <2>1, <2>2, <2>5 DEF LatestInv, LatestTyped, Latest!Mark
  <2>7. StagedOk'
    BY DEF LatestInv, StagedOk, Latest!Mark
  <2>8. now \in 0..MaxNow /\ now <= now'
    BY <2>6 DEF LatestTyped, Latest!Mark
  <2>9. ASSUME NEW n \in FileNames PROVE FileOk(n)'
    <3>1. containers'[n] # None => /\ containers[n] # None /\ containers'[n].c = containers[n].c /\ containers'[n].time = containers[n].time
                                   /\ containers'[n].begun = containers[n].begun
      BY <1>3, <2>3, <2>4
    <3> QED BY <2>6, <2>8, <3>1, OldFilesKeep DEF LatestInv, Latest!Mark
  <2>10. ASSUME NEW o \in Procs PROVE RunOk(latestRun[o])'
    <3>1. CASE o = r
      <4>1. UsesOk(w)'
        BY <2>2, <2>3 DEF UsesOk
      <4>2. ChecksOk(w)'
        <5>1. v.phase = "get"
          BY <1>0 DEF RunOk, MarkingOk
        <5> QED BY <2>2, <5>1 DEF ChecksOk
      <4>3. RunOk(w)'
        BY <1>1, <2>2, <4>1, <4>2 DEF RunOk, PathOk, AskedOk, SinceOk, StreamOk, ToldOk, UnpackedOk, MarkingOk
      <4>4. latestRun'[r] = w
        BY <2>1 DEF LatestInv, LatestTyped
      <4> QED BY <3>1, <4>3, <4>4
    <3>2. CASE o # r
      <4> PICK u : u = latestRun[o]
        OBVIOUS
      <4>1. latestRun'[o] = u /\ u \in Runners /\ RunOk(u)
        BY <2>1, <3>2, RunnerIs DEF LatestInv, LatestTyped
      <4>2. \A n \in FileNames : containers'[n] # None => containers[n] # None /\ containers'[n].time = containers[n].time
        BY <1>3, <2>3, <2>4
      <4>3. u.at \in {"use", "propagate", "record"} => u.path \in FileNames
        BY <4>1 DEF RunOk, PathOk
      <4>4. ASSUME u.at \in {"use", "propagate", "record"}, containers[u.path] # None
            PROVE  containers'[u.path] # None /\ containers'[u.path].c = containers[u.path].c /\ (containers[u.path].marked => containers'[u.path].marked)
        BY <2>3, <2>4, <4>3, <4>4
      <4>5. LatestUndisturbed(u, u)
        BY <4>2, <4>4 DEF LatestUndisturbed
      <4>6. RunOk(u)'
        BY <2>6, <2>8, <4>1, <4>5, OthersKeep DEF Latest!Mark
      <4> QED BY <4>1, <4>6
    <3> QED BY <3>1, <3>2
  <2> QED BY <2>6, <2>7, <2>9, <2>10 DEF LatestInv
<1> QED BY <1>2, <1>3 DEF Latest!Mark, Latest!There

LEMMA LatestInit == Latest!Parameters /\ Latest!Init => LatestInv
<1> SUFFICES ASSUME Latest!Parameters, Latest!Init PROVE LatestInv
  OBVIOUS
<1>1. LatestTyped
  <2>1. server \in Latest!Answers /\ now \in 0..MaxNow
    BY DEF Latest!Init, Latest!Answers, Latest!Parameters
  <2> QED BY <2>1, LatestIdleIs DEF Latest!Init, LatestTyped
<1>2. StagedOk /\ \A n \in FileNames : FileOk(n)
  BY DEF Latest!Init, StagedOk, FileOk
<1>3. \A r \in Procs : RunOk(latestRun[r])
  BY LatestIdleIs, IdleOk DEF Latest!Init
<1> QED BY <1>1, <1>2, <1>3 DEF LatestInv

(* Whatever the runs, the server and cleanup do keeps the invariant. *)
LEMMA LatestKeeps == Latest!Parameters /\ LatestInv /\ [Latest!Next]_LatestVars => LatestInv'
<1> SUFFICES ASSUME Latest!Parameters, LatestInv, [Latest!Next]_LatestVars PROVE LatestInv'
  OBVIOUS
<1>1. CASE UNCHANGED LatestVars
  <2>1. server \in Latest!Answers /\ now \in 0..MaxNow
    BY DEF LatestInv, LatestTyped
  <2>2. now <= now
    BY <2>1
  <2> QED BY <1>1, <2>1, <2>2, WorldKeeps DEF LatestVars
<1>2. ASSUME NEW r \in Procs, Latest!Step(r) PROVE LatestInv'
  <2>1. CASE Latest!LockBusy(r)
    BY <2>1, EndKeeps DEF Latest!LockBusy
  <2>2. CASE Latest!Told(r)
    BY <2>2, EndKeeps DEF Latest!Told, Latest!End
  <2>3. CASE Latest!Fetched(r)
    BY <2>3, EndKeeps DEF Latest!Fetched, Latest!End
  <2>4. CASE Latest!BreakOff(r)
    BY <2>4, FailKeeps DEF Latest!BreakOff
  <2> QED BY <1>2, <2>1, <2>2, <2>3, <2>4, LatestStartKeeps, LockOkKeeps, ReadRecordKeeps, CompareKeeps, OutdatedKeeps,
             DropKeeps, LatestLookKeeps, RefusedKeeps, NotModifiedKeeps, AnsweredKeeps, ArriveKeeps, MarkKeeps,
             UnpackKeeps, PropagateKeeps, RecordKeeps DEF Latest!Step
<1> QED BY <1>1, <1>2, LatestPublishKeeps, TickKeeps, SweepKeeps DEF Latest!Next

(* outdated_download_sha, download_cask and refetch: what is on record is what is staged,
   what is staged was marked, and a change is noticed. *)
LEMMA LatestIsKnownAll == LatestInv => Latest!LatestIsKnown
<1> SUFFICES ASSUME LatestInv PROVE Latest!LatestIsKnown
  OBVIOUS
<1>1. Latest!RecordIsWhatIsStaged /\ Latest!StagedIsQuarantined
  BY DEF LatestInv, StagedOk, Latest!RecordIsWhatIsStaged, Latest!StagedIsQuarantined
<1>2. ASSUME NEW r \in Procs, Latest!At(r, "told"), latestRun[r].asked # None, ~latestRun[r].swapped
      PROVE  latestRun[r].asked.c = latestRun[r].was \/ (latestRun[r].window # None /\ latestRun[r].asked.date \in latestRun[r].window)
  <2>1. ToldOk(latestRun[r])
    BY RunnerIs DEF RunOk
  <2> QED BY <1>2, <2>1 DEF ToldOk, Latest!At, Current
<1> QED BY <1>1, <1>2 DEF Latest!LatestIsKnown, Latest!ChangeIsNoticed

-------------------------------------------------------------------------------
(* The names *)
NamesInv ==
  /\ core \in SUBSET Name
  /\ migration \in [Name -> {None} \cup (Taps \X Name)]
  /\ tap \in [Taps -> {None} \cup [Name -> Ref!File]]
  /\ rack \in [Name -> SUBSET Ref!Sources]
  /\ opt \in [Name -> Ref!Sources \cup {None}]

Entries == [source : Ref!Sources, name : Name]

-------------------------------------------------------------------------------
(* Of finitely many kegs one has the greatest version. *)
LEMMA GreatestIs ==
  ASSUME Ref!Parameters, NEW S \in SUBSET Ref!Sources, S # {}
  PROVE  Ref!Greatest(S) \in S
<1> DEFINE Above(i) == {k \in S : RankOf[k] > RankOf[i]}
           T == {Above(i) : i \in S}
<1>1. IsFiniteSet(S)
  <2>1. IsFiniteSet(Ref!Sources)
    BY FS_AddElement, FS_Union, FS_Singleton, CardinalitiesAreThose DEF Ref!Parameters, Ref!Sources
  <2> QED BY <2>1, FS_Subset
<1>2. IsWellFoundedOn(StrictSubsetOrdering(S), SUBSET S)
  BY <1>1, FS_StrictSubsetOrderingWellFounded, FS_FiniteSubsetsOfFinite
<1>3. \E x \in T : \A y \in T : <<y, x>> \notin StrictSubsetOrdering(S)
  <2>1. T \subseteq SUBSET S /\ T # {}
    OBVIOUS
  <2> HIDE DEF T
  <2> QED BY <1>2, <2>1, WFMin
<1>4. PICK i \in S : \A k \in S : <<Above(k), Above(i)>> \notin StrictSubsetOrdering(S)
  BY <1>3
<1>0. \A k \in S : RankOf[k] \in Nat
  BY DEF Ref!Parameters
<1>5. ASSUME NEW k \in S, RankOf[k] > RankOf[i] PROVE FALSE
  <2>1. Above(k) \subseteq Above(i) /\ k \in Above(i) /\ k \notin Above(k)
    <3>1. \A j \in S : RankOf[j] > RankOf[k] => RankOf[j] > RankOf[i]
      BY <1>0, <1>5
    <3>2. ~(RankOf[k] > RankOf[k])
      BY <1>0
    <3> QED BY <3>1, <3>2, <1>5
  <2>2. Above(k) # Above(i) /\ Above(k) \in SUBSET S /\ Above(i) \in SUBSET S
    BY <2>1
  <2>3. <<Above(k), Above(i)>> \in StrictSubsetOrdering(S)
    <3> HIDE DEF Above
    <3> QED BY <2>1, <2>2 DEF StrictSubsetOrdering
  <2> QED BY <1>4, <2>3
<1>6. \A o \in S : RankOf[o] <= RankOf[i]
  <2> SUFFICES ASSUME NEW o \in S PROVE RankOf[o] <= RankOf[i]
    OBVIOUS
  <2>1. ~(RankOf[o] > RankOf[i])
    BY <1>5
  <2>2. RankOf[o] \in Nat /\ RankOf[i] \in Nat
    BY SMTT(60), <1>0
  <2> QED BY <2>1, <2>2
<1> QED BY <1>6 DEF Ref!Greatest

(* A formula was found, or not. *)
LEMMA FoundIs ==
  /\ \A source, name : Ref!Found(Ref!Entry(source, name)) /\ Ref!Entry(source, name).source = source /\ Ref!Entry(source, name).name = name
  /\ \A why : ~Ref!Found(Ref!Fails(why))
  /\ \A source, name, why : Ref!Entry(source, name) # Ref!Fails(why)
  /\ \A a, b : Ref!Fails(a) = Ref!Fails(b) => a = b
BY SMTT(60) DEF Ref!Found, Ref!Entry, Ref!Fails

LEMMA FromCoreIs ==
  ASSUME NEW name
  PROVE  \/ Ref!FromCore(name) = Ref!Fails("unavailable") /\ name \notin core
         \/ \E m \in core : Ref!FromCore(name) = Ref!Entry(Core, m) /\ (name \in core => m = name)
<1> PICK leading : leading = {i \in DOMAIN Ref!Pointers : pointer[Ref!Pointers[i]][name] \in core}
  OBVIOUS
<1> PICK first : first = CHOOSE i \in leading : \A j \in leading : i <= j
  OBVIOUS
<1>1. Ref!FromCore(name) = IF name \in core THEN Ref!Entry(Core, name)
                       ELSE IF leading # {} THEN Ref!Entry(Core, pointer[Ref!Pointers[first]][name]) ELSE Ref!Fails("unavailable")
  BY DEF Ref!FromCore
<1>2. ASSUME leading # {} PROVE pointer[Ref!Pointers[first]][name] \in core
  <2>1. DOMAIN Ref!Pointers = 1..3
    BY DEF Ref!Pointers
  <2>2. leading \subseteq 1..3
    BY <2>1
  <2>3. \E i \in leading : \A j \in leading : i <= j
    BY <1>2, <2>2
  <2>4. first \in leading
    BY <2>3
  <2> QED BY <2>4
<1> QED BY <1>1, <1>2

(* What a tap's file leads to is read, and is of that tap. *)
LEMMA FromTapIs ==
  ASSUME Ref!Parameters, NamesInv, NEW t \in Taps, NEW name \in Name, Ref!Has(t, name)
  PROVE  \/ Ref!FromTap(t, name) = Ref!Fails("delegate")
         \/ \E m \in Name : Ref!FromTap(t, name) = Ref!Entry(t, m) /\ tap[t][m] = "read"
BY DEF Ref!FromTap

LEMMA ReadIs ==
  ASSUME Ref!Parameters, NEW t \in Taps, NEW name \in Name, tap[t] # None, tap[t][name] = "read"
  PROVE  Ref!Has(t, name) /\ Ref!FromTap(t, name) = Ref!Entry(t, name) /\ Ref!TapFormula(t, name) = Ref!Entry(t, name)
<1>1. Ref!Has(t, name)
  BY DEF Ref!Has
<1>2. Ref!FromTap(t, name) = Ref!Entry(t, name)
  BY DEF Ref!FromTap, Ref!Parameters
<1> QED BY <1>1, <1>2 DEF Ref!TapFormula

LEMMA TapFormulaIs ==
  ASSUME Ref!Parameters, NamesInv, NEW t \in Taps, NEW name \in Name
  PROVE  \/ ~Ref!Found(Ref!TapFormula(t, name))
         \/ \E m \in Name : Ref!TapFormula(t, name) = Ref!Entry(t, m) /\ tap[t] # None /\ tap[t][m] = "read"
<1>1. CASE Ref!Has(t, name)
  <2>1. Ref!TapFormula(t, name) = Ref!FromTap(t, name) /\ tap[t] # None
    BY <1>1 DEF Ref!TapFormula, Ref!Has
  <2>2. CASE Ref!FromTap(t, name) = Ref!Fails("delegate")
    BY <2>1, <2>2, FoundIs
  <2>3. CASE \E m \in Name : Ref!FromTap(t, name) = Ref!Entry(t, m) /\ tap[t][m] = "read"
    BY <2>1, <2>3
  <2> QED BY <1>1, <2>2, <2>3, FromTapIs
<1>2. CASE ~Ref!Has(t, name)
  BY <1>2, FoundIs DEF Ref!TapFormula
<1> QED BY <1>1, <1>2

LEMMA FromTapsIs ==
  ASSUME Ref!Parameters, NamesInv, NEW name \in Name
  PROVE  \/ Ref!FromTaps(name) = Ref!Fails("unavailable") /\ \A t \in Taps : ~Ref!Has(t, name)
         \/ Ref!FromTaps(name) \in {Ref!Fails("delegate"), Ref!Fails("ambiguous")}
         \/ \E t \in Taps, m \in Name : Ref!FromTaps(name) = Ref!Entry(t, m) /\ tap[t] # None /\ tap[t][m] = "read"
<1> PICK hits : hits = {t \in Taps : Ref!Has(t, name)}
  OBVIOUS
<1>1. CASE migration[name] # None /\ Ref!MigrationTap(name) \in Taps /\ Ref!Has(Ref!MigrationTap(name), migration[name][2])
  <2>1. migration[name][2] \in Name
    BY <1>1 DEF NamesInv
  <2>2. Ref!FromTaps(name) = Ref!FromTap(Ref!MigrationTap(name), migration[name][2])
    BY <1>1 DEF Ref!FromTaps
  <2> QED BY <1>1, <2>1, <2>2, FromTapIs DEF Ref!Has
<1>2. CASE ~(migration[name] # None /\ Ref!MigrationTap(name) \in Taps /\ Ref!Has(Ref!MigrationTap(name), migration[name][2]))
  <2>1. CASE hits = {}
    <3>1. Ref!FromTaps(name) = Ref!Fails("unavailable")
      BY <1>2, <2>1 DEF Ref!FromTaps
    <3> QED BY <2>1, <3>1
  <2>2. CASE hits # {} /\ Ref!Cardinality(hits) > 1
    <3>1. Ref!FromTaps(name) = Ref!Fails("ambiguous")
      BY <1>2, <2>2 DEF Ref!FromTaps
    <3> QED BY <3>1
  <2>3. CASE hits # {} /\ ~(Ref!Cardinality(hits) > 1)
    <3> PICK t : t = CHOOSE u \in hits : TRUE
      OBVIOUS
    <3>1. t \in hits
      BY <2>3
    <3>2. Ref!FromTaps(name) = Ref!FromTap(t, name)
      BY <1>2, <2>3 DEF Ref!FromTaps
    <3>3. t \in Taps /\ Ref!Has(t, name)
      BY <3>1
    <3>4. tap[t] # None
      BY <3>3 DEF Ref!Has
    <3>5. CASE Ref!FromTap(t, name) = Ref!Fails("delegate")
      BY <3>2, <3>5
    <3>6. CASE \E m \in Name : Ref!FromTap(t, name) = Ref!Entry(t, m) /\ tap[t][m] = "read"
      BY <3>2, <3>3, <3>4, <3>6
    <3> QED BY <3>3, <3>5, <3>6, FromTapIs
  <2> QED BY <2>1, <2>2, <2>3
<1> QED BY <1>1, <1>2

(* Where a bare name leads, and one of core's: to a formula of core's, to one that was
   read in a tap, or to a keg whose formula is nowhere. *)
LEMMA ResolveBareIs ==
  ASSUME Ref!Parameters, NamesInv, NEW ref, ref.name \in Name, ref.tap = None \/ ref.tap = Core
  PROVE  \/ ~Ref!Found(Ref!Resolve(ref))
         \/ \E m \in core : Ref!Resolve(ref) = Ref!Entry(Core, m) /\ (ref.name \in core => m = ref.name)
         \/ \E t \in Taps, m \in Name : /\ Ref!Resolve(ref) = Ref!Entry(t, m) /\ tap[t] # None /\ tap[t][m] = "read"
                                         /\ ref.name \notin core
         \/ \E s \in Ref!Sources : /\ Ref!Resolve(ref) = Ref!Entry(s, ref.name) /\ ref.name \notin core
                                    /\ \A t \in Taps : ~Ref!Has(t, ref.name)
<1> PICK name : name = ref.name
  OBVIOUS
<1> PICK answer : answer = Ref!Resolve(ref)
  OBVIOUS
<1>1. answer = IF Ref!Found(Ref!FromCore(name)) THEN Ref!FromCore(name)
               ELSE IF Ref!FromTaps(name) # Ref!Fails("unavailable") THEN Ref!FromTaps(name)
               ELSE IF migration[name] # None THEN Ref!Fails("migrated")
               ELSE IF rack[name] # {} THEN Ref!FromInstalledKeg(name)
               ELSE Ref!Fails("unavailable")
  BY DEF Ref!Resolve, Ref!IsCoreTap
<1>2. CASE Ref!Found(Ref!FromCore(name))
  BY <1>1, <1>2, FromCoreIs, FoundIs
<1>3. CASE ~Ref!Found(Ref!FromCore(name))
  <2>1. name \notin core
    BY <1>3, FromCoreIs, FoundIs
  <2>2. CASE Ref!FromTaps(name) # Ref!Fails("unavailable")
    <3>1. answer = Ref!FromTaps(name)
      BY <1>1, <1>3, <2>2
    <3> QED BY <2>1, <2>2, <3>1, FromTapsIs, FoundIs
  <2>3. CASE Ref!FromTaps(name) = Ref!Fails("unavailable")
    <3>1. \A t \in Taps : ~Ref!Has(t, name)
      BY <2>3, FromTapsIs, FoundIs
    <3>2. CASE Ref!Found(answer)
      <4>1. rack[name] # {} /\ answer = Ref!FromInstalledKeg(name)
        BY <1>1, <1>3, <2>3, <3>2, FoundIs
      <4>2. Ref!Greatest(rack[name]) \in Ref!Sources
        BY <4>1, GreatestIs DEF NamesInv
      <4> QED BY <2>1, <3>1, <4>1, <4>2 DEF Ref!FromInstalledKeg
    <3> QED BY <3>2
  <2> QED BY <2>2, <2>3
<1> QED BY <1>2, <1>3

(* Where a full name of a third-party tap leads. *)
LEMMA ResolveTapIs ==
  ASSUME Ref!Parameters, NamesInv, NEW ref, ref.name \in Name, ref.tap \in Taps
  PROVE  /\ Ref!Resolve(ref) = Ref!TapFormula(ref.tap, ref.name)
         /\ \/ ~Ref!Found(Ref!Resolve(ref))
            \/ \E m \in Name : Ref!Resolve(ref) = Ref!Entry(ref.tap, m) /\ tap[ref.tap] # None /\ tap[ref.tap][m] = "read"
<1>1. Ref!Resolve(ref) = Ref!TapFormula(ref.tap, ref.name)
  BY DEF Ref!Resolve, Ref!IsCoreTap, Ref!Parameters, Ref!Sources
<1> QED BY <1>1, TapFormulaIs

LEMMA ResolvedIsEntry ==
  ASSUME Ref!Parameters, NamesInv, NEW ref, ref.name \in Name, ref.tap \in Ref!Sources \cup {None}, Ref!Found(Ref!Resolve(ref))
  PROVE  Ref!Resolve(ref) \in Entries
<1>1. \A s \in Ref!Sources, m \in Name : Ref!Entry(s, m) \in Entries
  BY DEF Ref!Entry, Entries
<1>2. CASE ref.tap \in Taps
  BY <1>1, <1>2, ResolveTapIs DEF Ref!Sources
<1>3. CASE ref.tap = None \/ ref.tap = Core
  <2>1. core \subseteq Name /\ Core \in Ref!Sources /\ Taps \subseteq Ref!Sources
    BY DEF NamesInv, Ref!Sources
  <2> QED BY <1>1, <1>3, <2>1, ResolveBareIs
<1> QED BY <1>2, <1>3 DEF Ref!Sources

-------------------------------------------------------------------------------
(* A full name stands for the formula it was the name of. *)
LEMMA FullNamesStandAll == Ref!Parameters /\ NamesInv => Ref!FullNamesStand
<1> SUFFICES ASSUME Ref!Parameters, NamesInv, NEW n \in Name, NEW answer, answer = Ref!Resolve(Ref!Bare(n)), Ref!Found(answer),
                    IF Ref!IsCoreTap(answer.source) THEN answer.name \in core ELSE Ref!Has(answer.source, answer.name)
             PROVE  Ref!Resolve(Ref!Full(answer)) = answer
  BY SMTT(60) DEF Ref!FullNamesStand
<1>0. Ref!Bare(n).name = n /\ Ref!Bare(n).tap = None /\ Ref!Full(answer).name = answer.name /\ Ref!Full(answer).tap = answer.source
  BY DEF Ref!Bare, Ref!Full
<1>1. ASSUME NEW m \in core, answer = Ref!Entry(Core, m)
      PROVE  Ref!Resolve(Ref!Full(answer)) = answer
  <2>1. Ref!FromCore(m) = Ref!Entry(Core, m)
    BY FromCoreIs, FoundIs
  <2>2. answer.source = Core /\ answer.name = m
    BY <1>1, FoundIs
  <2> QED BY <1>0, <1>1, <2>1, <2>2, FoundIs DEF Ref!Resolve, Ref!IsCoreTap
<1>2. ASSUME NEW t \in Taps, NEW m \in Name, answer = Ref!Entry(t, m), tap[t] # None, tap[t][m] = "read"
      PROVE  Ref!Resolve(Ref!Full(answer)) = answer
  <2>1. answer.source = t /\ answer.name = m
    BY <1>2, FoundIs
  <2>2. Ref!Resolve(Ref!Full(answer)) = Ref!TapFormula(t, m)
    BY <1>0, <2>1, ResolveTapIs
  <2> QED BY <1>2, <2>2, ReadIs
<1>3. ASSUME NEW s \in Ref!Sources, answer = Ref!Entry(s, n), n \notin core, \A t \in Taps : ~Ref!Has(t, n)
      PROVE  FALSE
  <2>1. answer.source = s /\ answer.name = n
    BY <1>3, FoundIs
  <2> QED BY <1>3, <2>1 DEF Ref!IsCoreTap, Ref!Sources
<1> QED BY <1>0, <1>1, <1>2, <1>3, ResolveBareIs

LEMMA OutdatedIsUpgradedAll == Ref!Parameters /\ NamesInv => Ref!OutdatedIsUpgraded
<1> SUFFICES ASSUME Ref!Parameters, NamesInv, NEW n \in Name, Ref!Found(Ref!ComparedWith(n))
             PROVE  Ref!ResolveInstalled(n) = Ref!ComparedWith(n)
  BY DEF Ref!OutdatedIsUpgraded, Ref!ReportedOutdated
<1>1. CASE Ref!InstalledTap(n) # None
  BY <1>1 DEF Ref!ComparedWith, Ref!ResolveInstalled
<1>2. CASE Ref!InstalledTap(n) = None
  <2>1. n \in core /\ Ref!ComparedWith(n) = Ref!Entry(Core, n)
    BY <1>2, FoundIs DEF Ref!ComparedWith
  <2>2. Ref!ResolveInstalled(n) = Ref!Resolve(Ref!Bare(n))
    BY <1>2 DEF Ref!ResolveInstalled
  <2>3. Ref!Bare(n).name = n /\ Ref!Bare(n).tap = None
    BY DEF Ref!Bare
  <2>4. Ref!FromCore(n) = Ref!Entry(Core, n)
    BY <2>1, FromCoreIs, FoundIs
  <2> QED BY <2>1, <2>2, <2>3, <2>4, FoundIs DEF Ref!Resolve
<1> QED BY <1>1, <1>2

LEMMA DependencyStays == Ref!Parameters /\ NamesInv => Ref!DependencyStaysInItsTap
<1> SUFFICES ASSUME Ref!Parameters, NamesInv, NEW t \in Taps, NEW n \in Name, NEW d \in Name,
                    tap[t] # None, tap[t][d] = "read", d \notin core
             PROVE  Ref!ResolveDependency(Ref!Bare(d), Ref!Entry(t, n)) = Ref!Entry(t, d)
  BY DEF Ref!DependencyStaysInItsTap
<1>1. Ref!Bare(d).name = d /\ Ref!Bare(d).tap = None /\ Ref!Entry(t, n).source = t
  BY FoundIs DEF Ref!Bare
<1>2. Ref!Has(t, d) /\ Ref!FromTap(t, d) = Ref!Entry(t, d)
  BY ReadIs
<1>3. ~Ref!IsCoreTap(t)
  BY DEF Ref!IsCoreTap, Ref!Parameters
<1> QED BY <1>1, <1>2, <1>3 DEF Ref!ResolveDependency

-------------------------------------------------------------------------------
LEMMA NamesInit == Ref!Init => NamesInv
BY DEF Ref!Init, NamesInv

LEMMA PourKeeps ==
  ASSUME NamesInv, NEW entry \in Entries, Ref!Pour(entry), UNCHANGED Ref!world
  PROVE  NamesInv'
<1>1. entry.source \in Ref!Sources /\ entry.name \in Name
  BY DEF Entries
<1>2. rack' \in [Name -> SUBSET Ref!Sources] /\ opt' \in [Name -> Ref!Sources \cup {None}]
  BY <1>1 DEF Ref!Pour, NamesInv
<1> QED BY <1>2 DEF NamesInv, Ref!world

LEMMA RefUninstallKeeps ==
  ASSUME NamesInv, NEW ref, NEW entry, NEW force, Ref!Uninstall(ref, entry, force)
  PROVE  NamesInv'
<1> PICK name : name = Ref!RackOf(entry)
  OBVIOUS
<1> PICK gone : gone = Ref!Selected(name, force)
  OBVIOUS
<1>1. rack' = [rack EXCEPT ![name] = @ \ gone] /\ opt' = [opt EXCEPT ![name] = IF @ \in gone THEN None ELSE @]
  BY DEF Ref!Uninstall
<1>2. rack' \in [Name -> SUBSET Ref!Sources]
  BY <1>1 DEF NamesInv
<1>3. opt' \in [Name -> Ref!Sources \cup {None}]
  BY <1>1 DEF NamesInv
<1> QED BY <1>2, <1>3 DEF NamesInv, Ref!Uninstall

LEMMA ChangesKeep ==
  ASSUME Ref!Parameters, NamesInv,
         \/ Ref!Change(Ref!AddFormula) \/ Ref!Change(Ref!RemoveFormula) \/ Ref!Change(Ref!RenameFormula)
         \/ Ref!Change(Ref!AliasFormula) \/ Ref!Change(Ref!MigrateFormula) \/ Ref!Change(Ref!UpdateTap)
  PROVE  NamesInv'
<1>1. CASE Ref!Change(Ref!AddFormula)
  BY <1>1 DEF Ref!Change, Ref!AddFormula, NamesInv
<1>2. CASE Ref!Change(Ref!RemoveFormula)
  BY <1>2 DEF Ref!Change, Ref!RemoveFormula, NamesInv
<1>3. CASE Ref!Change(Ref!RenameFormula)
  BY <1>3 DEF Ref!Change, Ref!RenameFormula, NamesInv
<1>4. CASE Ref!Change(Ref!AliasFormula)
  BY <1>4 DEF Ref!Change, Ref!AliasFormula, NamesInv
<1>5. CASE Ref!Change(Ref!MigrateFormula)
  BY <1>5 DEF Ref!Change, Ref!MigrateFormula, NamesInv
<1>6. CASE Ref!Change(Ref!UpdateTap)
  BY <1>6 DEF Ref!Change, Ref!UpdateTap, NamesInv, Ref!Parameters
<1> QED BY <1>1, <1>2, <1>3, <1>4, <1>5, <1>6

LEMMA CompareIs ==
  ASSUME Ref!Parameters, NamesInv, NEW n \in Name, Ref!Found(Ref!ComparedWith(n))
  PROVE  /\ Ref!ComparedWith(n) \in Entries
         /\ Ref!InstalledTap(n) # None => Ref!ComparedWith(n).source = Ref!InstalledTap(n)
<1>1. CASE Ref!InstalledTap(n) # None
  <2> PICK ref : ref = [tap |-> Ref!InstalledTap(n), name |-> n]
    OBVIOUS
  <2>1. rack[n] # {} /\ Ref!InstalledTap(n) = Ref!Greatest(rack[n]) /\ Ref!Greatest(rack[n]) # Core
    BY <1>1 DEF Ref!InstalledTap
  <2>2. Ref!InstalledTap(n) \in Taps
    BY <2>1, GreatestIs DEF NamesInv, Ref!Sources
  <2>3. ref.tap = Ref!InstalledTap(n) /\ ref.name = n /\ Ref!ComparedWith(n) = Ref!Resolve(ref)
    BY <1>1 DEF Ref!ComparedWith
  <2> QED BY <2>2, <2>3, ResolveTapIs, ResolvedIsEntry, FoundIs DEF Ref!Sources
<1>2. CASE Ref!InstalledTap(n) = None
  <2>1. Ref!ComparedWith(n) = Ref!Entry(Core, n)
    BY <1>2, FoundIs DEF Ref!ComparedWith
  <2> QED BY <1>2, <2>1 DEF Ref!Entry, Entries, Ref!Sources
<1> QED BY <1>1, <1>2

LEMMA NamesKeep == Ref!Parameters /\ NamesInv /\ [Ref!Next]_RefVars => NamesInv'
<1> SUFFICES ASSUME Ref!Parameters, NamesInv, [Ref!Next]_RefVars PROVE NamesInv'
  OBVIOUS
<1>1. CASE UNCHANGED RefVars
  BY <1>1 DEF RefVars, NamesInv
<1>2. CASE Ref!Tap
  BY <1>2 DEF Ref!Tap, NamesInv, Ref!Parameters
<1>3. CASE Ref!Untap
  BY <1>3 DEF Ref!Untap, NamesInv
<1>4. CASE Ref!Upgrade
  <2>1. PICK n \in Ref!ReportedOutdated :
          LET entry == Ref!ResolveInstalled(n)
          IN Ref!Found(entry) /\ Ref!Pour(entry) /\ UNCHANGED <<core, pointer, migration, tap, changes>>
    BY <1>4 DEF Ref!Upgrade
  <2>2. n \in Name /\ Ref!Found(Ref!ComparedWith(n)) /\ Ref!ResolveInstalled(n) = Ref!ComparedWith(n)
    BY OutdatedIsUpgradedAll DEF Ref!OutdatedIsUpgraded, Ref!ReportedOutdated
  <2>3. Ref!ResolveInstalled(n) \in Entries
    BY <2>2, CompareIs
  <2> QED BY <2>1, <2>3, PourKeeps DEF Ref!world
<1>5. CASE Ref!Command
  <2>1. PICK ref \in Ref!Refs :
          /\ Ref!Partition(ref, Ref!Resolve(ref))
          /\ \/ Ref!Install(ref, Ref!Resolve(ref)) \/ Ref!UpgradeNamed(ref, Ref!Resolve(ref))
             \/ \E force \in BOOLEAN : Ref!Uninstall(ref, Ref!Resolve(ref), force)
    BY <1>5 DEF Ref!Command
  <2>2. Ref!Resolve(ref) \in Entries
    BY <2>1, ResolvedIsEntry DEF Ref!Partition, Ref!Refs
  <2>3. CASE Ref!Install(ref, Ref!Resolve(ref))
    BY <2>2, <2>3, PourKeeps DEF Ref!Install, Ref!world
  <2>4. CASE Ref!UpgradeNamed(ref, Ref!Resolve(ref))
    BY <2>2, <2>4, PourKeeps DEF Ref!UpgradeNamed, Ref!world
  <2> QED BY <2>1, <2>3, <2>4, RefUninstallKeeps
<1> QED BY <1>1, <1>2, <1>3, <1>4, <1>5, ChangesKeep DEF Ref!Next

(* After a pour the rack's default keg is the one that was poured. *)
LEMMA PouredIs ==
  ASSUME Ref!Parameters, NamesInv, NEW entry \in Entries, Ref!Pour(entry)
  PROVE  /\ entry.source \in Ref!Sources /\ entry.name \in Name
         /\ Ref!DefaultKeg(entry.name)' = entry.source
         /\ \A n \in Name : n # entry.name => rack'[n] = rack[n]
<1>1. entry.source \in Ref!Sources /\ entry.name \in Name
  BY DEF Entries
<1>2. opt'[entry.name] = entry.source /\ \A n \in Name : n # entry.name => rack'[n] = rack[n]
  BY <1>1 DEF Ref!Pour, NamesInv
<1>3. entry.source # None
  BY <1>1 DEF Ref!Parameters
<1> QED BY <1>1, <1>2, <1>3 DEF Ref!DefaultKeg

(* A command that names a tap leaves a rack of another tap's alone. *)
LEMMA QualifiedKeepsTheTap ==
  ASSUME Ref!Parameters, NamesInv, NEW ref \in Ref!Refs, Ref!Partition(ref, Ref!Resolve(ref)), Ref!Pour(Ref!Resolve(ref)), ref.tap \in Taps,
         NEW n \in Name, rack[n] # {}, rack'[n] \ rack[n] # {}, Ref!DefaultKeg(n)' # Ref!DefaultKeg(n)
  PROVE  FALSE
<1> PICK entry : entry = Ref!Resolve(ref)
  OBVIOUS
<1>1. ref.name \in Name /\ Ref!Found(entry) /\ Ref!CheckInstalledTap(ref, entry)
  BY DEF Ref!Refs, Ref!Partition
<1>2. entry \in Entries /\ entry.source = ref.tap
  BY <1>1, ResolvedIsEntry, ResolveTapIs, FoundIs DEF Ref!Sources
<1>3. entry.name = n /\ Ref!DefaultKeg(n)' = ref.tap
  <2>1. /\ Ref!DefaultKeg(entry.name)' = entry.source
        /\ \A m \in Name : m # entry.name => rack'[m] = rack[m]
    BY <1>2, PouredIs
  <2>2. entry.name = n
    BY <2>1
  <2> QED BY <2>1, <2>2, <1>2
<1>4. Ref!DefaultKeg(n) # None
  <2>1. Ref!Greatest(rack[n]) \in Ref!Sources
    BY GreatestIs DEF NamesInv
  <2> QED BY <2>1 DEF Ref!DefaultKeg, Ref!Parameters
<1>5. ref.tap # None
  BY DEF Ref!Parameters, Ref!Sources
<1> QED BY <1>1, <1>3, <1>4, <1>5 DEF Ref!CheckInstalledTap

LEMMA TapChangesByBareNameAll == Ref!Parameters /\ NamesInv /\ [Ref!Next]_RefVars => Ref!TapChangesByBareNameStep
<1> SUFFICES ASSUME Ref!Parameters, NamesInv, [Ref!Next]_RefVars, NEW n \in Name,
                    rack[n] # {}, rack'[n] \ rack[n] # {}, Ref!DefaultKeg(n)' # Ref!DefaultKeg(n)
             PROVE  /\ last'.tap \notin Taps
                    /\ last'.command = "upgrade" => Ref!InstalledTap(n) \in {None, Ref!DefaultKeg(n)'} \/ Ref!RenamedTo(n)
  BY DEF Ref!TapChangesByBareNameStep
<1>0. None \notin Taps
  BY DEF Ref!Parameters, Ref!Sources
<1>1. CASE rack' = rack
  BY <1>1
<1>2. CASE Ref!Upgrade
  <2>1. PICK m \in Ref!ReportedOutdated : Ref!Pour(Ref!ResolveInstalled(m)) /\ last' = Ref!By("upgrade", None)
    BY <1>2 DEF Ref!Upgrade
  <2> PICK entry : entry = Ref!ComparedWith(m)
    OBVIOUS
  <2>2. m \in Name /\ Ref!Found(Ref!ComparedWith(m)) /\ Ref!ResolveInstalled(m) = entry
    BY OutdatedIsUpgradedAll DEF Ref!OutdatedIsUpgraded, Ref!ReportedOutdated
  <2>3. entry \in Entries /\ (Ref!InstalledTap(m) # None => entry.source = Ref!InstalledTap(m))
    BY <2>2, CompareIs
  <2>4. /\ Ref!DefaultKeg(entry.name)' = entry.source
        /\ \A k \in Name : k # entry.name => rack'[k] = rack[k]
    BY <2>1, <2>2, <2>3, PouredIs
  <2>5. entry.name = n
    BY <2>4
  <2>6. last'.tap = None
    BY <2>1 DEF Ref!By
  <2>7. CASE m = n
    BY <1>0, <2>3, <2>4, <2>5, <2>6, <2>7
  <2>8. CASE m # n
    BY <1>0, <2>2, <2>5, <2>6, <2>8 DEF Ref!RenamedTo
  <2> QED BY <2>7, <2>8
<1>3. CASE Ref!Command
  <2>1. PICK ref \in Ref!Refs :
          /\ Ref!Partition(ref, Ref!Resolve(ref))
          /\ \/ Ref!Install(ref, Ref!Resolve(ref)) \/ Ref!UpgradeNamed(ref, Ref!Resolve(ref))
             \/ \E force \in BOOLEAN : Ref!Uninstall(ref, Ref!Resolve(ref), force)
    BY <1>3 DEF Ref!Command
  <2>2. CASE Ref!Install(ref, Ref!Resolve(ref)) \/ Ref!UpgradeNamed(ref, Ref!Resolve(ref))
    <3>1. Ref!Pour(Ref!Resolve(ref)) /\ last'.tap = ref.tap /\ last'.command # "upgrade"
      <4>1. CASE Ref!Install(ref, Ref!Resolve(ref))
        BY <4>1 DEF Ref!Install, Ref!By
      <4>2. CASE Ref!UpgradeNamed(ref, Ref!Resolve(ref))
        BY <4>2 DEF Ref!UpgradeNamed, Ref!By
      <4> QED BY <2>2, <4>1, <4>2
    <3>2. ref.tap \notin Taps
      BY <2>1, <3>1, QualifiedKeepsTheTap
    <3> QED BY <3>1, <3>2
  <2>3. CASE \E force \in BOOLEAN : Ref!Uninstall(ref, Ref!Resolve(ref), force)
    <3>1. \A k \in Name : rack'[k] \subseteq rack[k]
      BY <2>3 DEF Ref!Uninstall, NamesInv
    <3> QED BY <3>1
  <2> QED BY <2>1, <2>2, <2>3
<1> QED BY <1>1, <1>2, <1>3 DEF Ref!Next, RefVars, Ref!Change, Ref!Tap, Ref!Untap

-------------------------------------------------------------------------------
(* The parts together *)

(* What is known of the parts that are active. *)
PartsInv ==
  /\ "downloads" \in active => BlobInv
  /\ "api" \in active => ApiInv
  /\ "taps" \in active => TapInv
  /\ "cask_deps" \in active => NeedsInv
  /\ "latest" \in active => LatestInv
  /\ "names" \in active => NamesInv

(* A step of one part leaves the others as they are. *)
LEMMA StepOfAPart ==
  ASSUME [Next]_vars
  PROVE  /\ active' = active
         /\ "downloads" \in active => [Blob!Next]_BlobVars
         /\ "api" \in active => [Api!Next]_ApiVars
         /\ "taps" \in active => [Tap!Next]_TapVars
         /\ "cask_deps" \in active => [Needs!Next]_NeedsVars
         /\ "latest" \in active => [Latest!Next]_LatestVars
         /\ "names" \in active => [Ref!Next]_RefVars
BY DEF Next, vars, Download, UseApi, UseTap, InstallCasks, FollowLatest, ActOnNames

(* Each part starts and goes on by itself. *)
LEMMA PartsHold == Spec => []PartsInv
<1>1. Init => PartsInv
  BY BlobInit, ApiInit, TapInit, NeedsInit, LatestInit, NamesInit, SourcesParameters
  DEF Init, PartsInv
<1>2. PartsInv /\ [Next]_vars => PartsInv'
  BY BlobKeeps, ApiKeeps, TapKeeps, NeedsKeep, LatestKeeps, NamesKeep, StepOfAPart, SourcesParameters
  DEF PartsInv
<1> QED BY <1>1, <1>2, PTL DEF Spec

(* fetch_blob's promise, fetch_manifest's and download_cask's: under the lock what has
   the final name is the bottle, whatever is sent, killed or swept; runs without the
   lock do each other no harm; what a run returns passed its check, also when a run
   before it was killed, or failed between the rename and the check and left the file;
   and what was rejected does not stay. *)
THEOREM DownloadsStayWhole == Spec => []DownloadsAreWhole
<1>1. PartsInv => DownloadsAreWhole
  BY SharingIsHarmless, RejectedGoes DEF PartsInv, BlobInv, DownloadsAreWhole
<1> QED BY <1>1, PartsHold, PTL

(* Index::load may trust an index for its name, and fetch_packages a file for its time:
   the index named for the fingerprint of the file was made of what is in the file, and
   an older file that will be called current has missed only what was published between
   some run's answer and the touch after it, or in a second the file was dated with. *)
THEOREM ApiFilesStayTrue == Spec => []ApiFilesAreTrue
<1>1. PartsInv => ApiFilesAreTrue
  BY DEF PartsInv, ApiInv, ApiFilesAreTrue
<1> QED BY <1>1, PartsHold, PTL

(* load_tap: "an unchanged tap costs one stat per file" is sound, since the record that
   answers for a file holds what is in the file. *)
THEOREM RecordsAreOfTheirFiles == Spec => []CacheIsOfItsFile
<1>1. PartsInv => CacheIsOfItsFile
  BY DEF PartsInv, TapInv, OfTheFile, CacheIsOfItsFile, Tap!CacheIsOfItsFile
<1> QED BY <1>1, PartsHold, PTL

(* resolve.rs: the name a formula is shown by finds that formula again, what `outdated`
   lists `upgrade` finds too, and a bare name among a tap's dependencies stays in the tap,
   for any taps, pointers, renames and migrations. *)
THEOREM NamesStayOneFormula == Spec => []NamesMeanOneFormula
<1>1. PartsInv => NamesMeanOneFormula
  BY FullNamesStandAll, OutdatedIsUpgradedAll, DependencyStays, SourcesParameters
  DEF PartsInv, NamesMeanOneFormula
<1> QED BY <1>1, PartsHold, PTL

(* cask/install.rs: runs over any casks, loops among them too, have the locks of the
   installs under way and no other, and never come to one of their own; cask/download.rs:
   what is staged of a `:latest` cask is what was recorded, and marked as it should be. *)
THEOREM CasksStaySound == Spec => []CasksAreSound
<1>1. PartsInv => CasksAreSound
  BY NotInItsOwnWay, LocksAreTheRecursion, LatestIsKnownAll, SourcesParameters
  DEF PartsInv, CasksAreSound
<1> QED BY <1>1, PartsHold, PTL

(* refetch's promise: under the lock the file of a :latest cask is replaced by a
   complete one only; a bare name never takes a formula from one tap to another; `untap`
   saw no keg of the tap; a cask's dependencies are installed before it. *)
THEOREM CommandsKeepTheirWord == Spec => CommandsDoWhatIsMeant
<1>1. ASSUME PartsInv, [Next]_vars
      PROVE  /\ "downloads" \in active => Blob!KeptUntilReplacedStep
             /\ "names" \in active => Ref!TapChangesByBareNameStep
             /\ "taps" \in active => Tap!UntapSawNoKegStep
             /\ "cask_deps" \in active => Needs!DependenciesComeFirstStep
  <2>1. "downloads" \in active => Blob!KeptUntilReplacedStep
    BY <1>1, CompleteIsKept, StepOfAPart, SourcesParameters DEF PartsInv
  <2>2. "names" \in active => Ref!TapChangesByBareNameStep
    BY <1>1, TapChangesByBareNameAll, StepOfAPart, SourcesParameters DEF PartsInv
  <2>3. "taps" \in active => Tap!UntapSawNoKegStep
    BY <1>1, UntapsSawNone, StepOfAPart DEF PartsInv
  <2>4. "cask_deps" \in active => Needs!DependenciesComeFirstStep
    BY <1>1, DependenciesAreFirst, StepOfAPart, SourcesParameters DEF PartsInv
  <2> QED BY <2>1, <2>2, <2>3, <2>4
<1> QED BY <1>1, PartsHold, PTL DEF Spec, CommandsDoWhatIsMeant
===============================================================================
