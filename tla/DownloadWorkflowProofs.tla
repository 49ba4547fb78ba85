----------------------- MODULE DownloadWorkflowProofs -----------------------
(***************************************************************************)
(* Proofs about DownloadWorkflow and FormatSelection, for every request,   *)
(* catalog, selector syntax, policy and muxer: that what is selected is on *)
(* offer and ciphered only where it must be, that no complete intermediate *)
(* file is left behind, that what is reported as complete is, and that     *)
(* with part files an output appears whole.                                *)
(*                                                                         *)
(* The invariant says of a strategy under way which of its files are       *)
(* complete and have their cleanup deferred, and of one that is left with  *)
(* success that its target is whole; what the name of an intermediate file *)
(* says of its bytes makes a resumed one whole.                            *)
(***************************************************************************)
EXTENDS DownloadWorkflow, SequenceTheorems, FiniteSetTheorems, WellFoundedInduction,
        TLAPS

-----------------------------------------------------------------------------
(* Finite sets and lists *)

\* Among sets over a finite one some are minimal.
LEMMA MinimalSet ==
  ASSUME NEW S, IsFiniteSet(S), NEW T, T \subseteq SUBSET S, T # {}
  PROVE  \E x \in T : \A y \in T : y \subseteq x => y = x
<1> DEFINE R == StrictSubsetOrdering(S)
<1>1. IsWellFoundedOn(R, SUBSET S)
  BY FS_StrictSubsetOrderingWellFounded, FS_FiniteSubsetsOfFinite
<1> HIDE DEF R
<1>2. PICK x \in T : \A y \in T : ~ (<<y, x>> \in R)
  BY <1>1, WFMin
<1>3. ASSUME NEW y \in T, y \subseteq x
      PROVE  y = x
  <2>1. <<y, x>>[1] = y /\ <<y, x>>[2] = x
    OBVIOUS
  <2>2. <<y, x>> \in (SUBSET S) \X (SUBSET S)
    OBVIOUS
  <2> QED
    BY <1>2, <1>3, <2>1, <2>2 DEF R, StrictSubsetOrdering
<1> QED
  BY <1>3

\* Among subsets of a finite set, given by an index, some are minimal.
LEMMA MinimalIndex ==
  ASSUME NEW S, IsFiniteSet(S), NEW I, I # {}, NEW U \in [I -> SUBSET S]
  PROVE  \E i \in I : \A j \in I : U[j] \subseteq U[i] => U[j] = U[i]
<1> DEFINE All == {U[i] : i \in I}
<1>1. All \subseteq SUBSET S /\ All # {}
  OBVIOUS
<1>2. \E x \in All : \A y \in All : y \subseteq x => y = x
  <2> HIDE DEF All
  <2> QED
    BY <1>1, MinimalSet
<1> QED
  BY <1>2

\* Sets of places are finite.
LEMMA FinitePlaces ==
  ASSUME NEW n \in Nat, NEW I \in SUBSET (1..n)
  PROVE  IsFiniteSet(I) /\ Cardinality(I) \in Nat
<1>1. IsFiniteSet(1..n)
  BY FS_Interval
<1> QED
  BY <1>1, FS_Subset, FS_CardinalityType

\* A set of places has a first one.
LEMMA FirstPlace ==
  ASSUME NEW I \in SUBSET Nat, I # {}
  PROVE  \E i \in I : \A j \in I : i <= j
<1> DEFINE R == OpToRel(<, Nat)
<1>1. I \subseteq Nat
  OBVIOUS
<1>2. IsWellFoundedOn(R, Nat)
  BY NatLessThanWellFounded
<1> HIDE DEF R
<1>3. I # {}
  OBVIOUS
<1>4. \E i \in I : \A j \in I : ~ (<<j, i>> \in R)
  BY <1>1, <1>2, <1>3, WFMin, Zenon
<1>5. \A i, j \in I : j < i => <<j, i>> \in R
  BY <1>1 DEF R, OpToRel
<1>6. PICK i \in I : \A j \in I : ~ (<<j, i>> \in R)
  BY <1>4, Zenon
<1>7. \A j \in I : ~ (j < i)
  BY <1>5, <1>6, Zenon
<1>8. \A j \in I : i <= j
  BY <1>1, <1>7
<1> QED
  BY <1>8

\* The place of a place in a set of them: no two share it, and each from 1
\* to the size of the set is taken.
LEMMA Ranks ==
  ASSUME NEW n \in Nat, NEW I \in SUBSET (1..n)
  PROVE  LET Rank(i) == Cardinality({j \in I : j <= i})
         IN  /\ Cardinality(I) \in Nat
             /\ \A i \in I : Rank(i) \in 1..Cardinality(I)
             /\ \A i, j \in I : Rank(i) = Rank(j) => i = j
             /\ \A k \in 1..Cardinality(I) : \E i \in I : Rank(i) = k
<1> DEFINE Upto(i) == {j \in I : j <= i}
           Rank(i) == Cardinality(Upto(i))
           c == Cardinality(I)
<1>0. \A j \in I : j \in Int
  OBVIOUS
<1>1. IsFiniteSet(I) /\ c \in Nat
  BY FinitePlaces
<1>2. ASSUME NEW i \in I
      PROVE  Rank(i) \in 1..c /\ IsFiniteSet(Upto(i))
  <2>1. Upto(i) \in SUBSET I
    OBVIOUS
  <2>2. IsFiniteSet(Upto(i)) /\ Rank(i) \in Nat /\ Rank(i) <= c
    BY <1>1, <2>1, FS_Subset, FS_CardinalityType
  <2>3. i \in Upto(i)
    OBVIOUS
  <2>4. Rank(i) # 0
    BY <2>2, <2>3, FS_EmptySet
  <2> HIDE DEF Rank, Upto, c
  <2> QED
    BY <1>1, <2>2, <2>4
<1>3. ASSUME NEW i \in I, NEW j \in I, Rank(i) = Rank(j), i < j
      PROVE  FALSE
  <2>1. Upto(i) \in SUBSET Upto(j)
    <3>1. \A k \in I : k <= i => k <= j
      BY <1>0, <1>3
    <3> QED
      BY <3>1
  <2>2. Upto(i) = Upto(j)
    BY <1>2, <1>3, <2>1, FS_Subset
  <2> QED
    BY <1>0, <1>3, <2>2
<1>4. \A i, j \in I : Rank(i) = Rank(j) => i = j
  <2> HIDE DEF Rank
  <2> QED
    BY <1>0, <1>3
<1>5. ASSUME NEW k \in 1..c
      PROVE  \E i \in I : Rank(i) = k
  <2> DEFINE f == [i \in I |-> Rank(i)]
  <2> HIDE DEF Rank
  <2>1. f \in [I -> 1..c]
    BY <1>2
  <2> SUFFICES f \in Surjection(I, 1..c)
    BY DEF Surjection
  <2>2. f \in Injection(I, 1..c)
    BY <1>4, <2>1 DEF Injection, IsInjective
  <2>3. IsFiniteSet(1..c) /\ Cardinality(1..c) = c
    <3> HIDE DEF c
    <3> QED
      BY <1>1, FS_Interval
  <2> QED
    BY <2>2, <2>3, FS_Injection
<1> QED
  BY <1>1, <1>2, <1>4, <1>5

\* What a sublist is: a list of the elements at the places asked for.
LEMMA SublistElements ==
  ASSUME NEW T, NEW s \in Seq(T), NEW I \in SUBSET (DOMAIN s)
  PROVE  /\ Sublist(s, I) \in Seq(T)
         /\ ToSet(Sublist(s, I)) = {s[i] : i \in I}
         /\ Len(Sublist(s, I)) = Cardinality(I) /\ IsFiniteSet(I)
<1> DEFINE Rank(i) == Cardinality({j \in I : j <= i})
           At(k) == CHOOSE i \in I : Rank(i) = k
           c == Cardinality(I)
           sub == [k \in 1..c |-> s[At(k)]]
<1>1. Sublist(s, I) = sub
  BY DEF Sublist
<1>2. Len(s) \in Nat /\ DOMAIN s = 1..Len(s) /\ \A i \in DOMAIN s : s[i] \in T
  BY LenProperties, ElementOfSeq
<1>3. /\ c \in Nat
      /\ \A i \in I : Rank(i) \in 1..c
      /\ \A i, j \in I : Rank(i) = Rank(j) => i = j
      /\ \A k \in 1..c : \E i \in I : Rank(i) = k
  BY <1>2, Ranks
<1>4. IsFiniteSet(I)
  BY <1>2, FinitePlaces
<1> HIDE DEF Rank, c
<1>5. \A k \in 1..c : At(k) \in I /\ Rank(At(k)) = k
  BY <1>3
<1>6. \A i \in I : At(Rank(i)) = i
  BY <1>3, <1>5
<1> HIDE DEF At
<1>7. sub \in Seq(T) /\ Len(sub) = c /\ DOMAIN sub = 1..c
  <2>1. \A k \in 1..c : s[At(k)] \in T
    BY <1>2, <1>5
  <2>2. sub \in [1..c -> T]
    BY <2>1
  <2> QED
    BY <1>3, <2>2, LenProperties, IsASeq
<1>8. {sub[k] : k \in DOMAIN sub} = {s[i] : i \in I}
  BY <1>3, <1>5, <1>6, <1>7
<1> HIDE DEF sub
<1> QED
  BY <1>1, <1>4, <1>7, <1>8 DEF c, ToSet

\* What is in a list of a list's elements.
LEMMA PlainElements ==
  ASSUME NEW T, NEW s \in Seq(T)
  PROVE  /\ Plain(s) \in Seq(T)
         /\ ToSet(Plain(s)) = {f \in ToSet(s) : ~f.ciphered}
<1> DEFINE I == {i \in DOMAIN s : ~s[i].ciphered}
<1>1. I \in SUBSET (DOMAIN s) /\ Plain(s) = Sublist(s, I)
  BY DEF Plain
<1>2. {s[i] : i \in I} = {f \in ToSet(s) : ~f.ciphered}
  BY DEF ToSet
<1> HIDE DEF I
<1> QED
  BY <1>1, <1>2, SublistElements

LEMMA MuxedElements ==
  ASSUME NEW T, NEW s \in Seq(T)
  PROVE  /\ Muxed(s) \in Seq(T)
         /\ ToSet(Muxed(s)) = {f \in ToSet(s) : f.video /\ f.audio}
<1> DEFINE I == {i \in DOMAIN s : s[i].video /\ s[i].audio}
<1>1. I \in SUBSET (DOMAIN s) /\ Muxed(s) = Sublist(s, I)
  BY DEF Muxed
<1>2. {s[i] : i \in I} = {f \in ToSet(s) : f.video /\ f.audio}
  BY DEF ToSet
<1> HIDE DEF I
<1> QED
  BY <1>1, <1>2, SublistElements

LEMMA PlayableElements ==
  ASSUME NEW T, NEW s \in Seq(T)
  PROVE  Playable(s) \in Seq(T)
<1> DEFINE I == {i \in DOMAIN s : Allowed(s[i])}
<1>1. I \in SUBSET (DOMAIN s) /\ Playable(s) = Sublist(s, I)
  BY DEF Playable
<1> HIDE DEF I
<1> QED
  BY <1>1, SublistElements

\* A list has finitely many elements, all of them of its kind.
LEMMA ListElements ==
  ASSUME NEW T, NEW s \in Seq(T)
  PROVE  /\ ToSet(s) \subseteq T /\ IsFiniteSet(ToSet(s))
         /\ s \in Seq(ToSet(s)) /\ DOMAIN s = 1..Len(s) /\ Len(s) \in Nat
<1>1. Len(s) \in Nat /\ DOMAIN s = 1..Len(s) /\ s \in [1..Len(s) -> T]
  BY LenProperties
<1>2. s \in Surjection(1..Len(s), ToSet(s))
  BY <1>1 DEF Surjection, ToSet
<1>3. IsFiniteSet(1..Len(s))
  BY <1>1, FS_Interval
<1>4. s \in [1..Len(s) -> ToSet(s)]
  BY <1>1 DEF ToSet
<1>5. s \in Seq(ToSet(s))
  BY <1>1, <1>4, IsASeq
<1>6. ToSet(s) \subseteq T
  BY <1>1 DEF ToSet
<1> QED
  BY <1>1, <1>2, <1>3, <1>5, <1>6, FS_Surjection

-----------------------------------------------------------------------------
(* Picking the best format *)

\* sortFormats compares by a strict order.
LEMMA ExceedsOrders ==
  ASSUME NEW a \in [1..5 -> Int], NEW b \in [1..5 -> Int], NEW c \in [1..5 -> Int]
  PROVE  /\ ~Exceeds(a, a)
         /\ Exceeds(a, b) /\ Exceeds(b, c) => Exceeds(a, c)
<1>1. ~Exceeds(a, a)
  BY DEF Exceeds
<1>2. ASSUME Exceeds(a, b), Exceeds(b, c)
      PROVE  Exceeds(a, c)
  <2>1. PICK i \in 1..5 : a[i] > b[i] /\ \A j \in 1..(i - 1) : a[j] = b[j]
    BY <1>2 DEF Exceeds
  <2>2. PICK k \in 1..5 : b[k] > c[k] /\ \A j \in 1..(k - 1) : b[j] = c[j]
    BY <1>2 DEF Exceeds
  <2>3. CASE i <= k
    <3>1. a[i] > c[i]
      BY <2>1, <2>2, <2>3
    <3>2. \A j \in 1..(i - 1) : a[j] = c[j]
      BY <2>1, <2>2, <2>3
    <3> QED
      BY <3>1, <3>2 DEF Exceeds
  <2>4. CASE k < i
    <3>1. a[k] > c[k]
      BY <2>1, <2>2, <2>4
    <3>2. \A j \in 1..(k - 1) : a[j] = c[j]
      BY <2>1, <2>2, <2>4
    <3> QED
      BY <3>1, <3>2 DEF Exceeds
  <2> QED
    BY <2>3, <2>4
<1> QED
  BY <1>1, <1>2

LEMMA RankKeysType ==
  ASSUME NEW f \in Formats
  PROVE  RankKeys(f) \in [1..5 -> Int]
<1> DEFINE rank == TrackRank(f)
           area == f.height * f.width
           bitrate == f.bitrate
           fps == f.fps
           itag == f.itag
<1>1. /\ f.height \in Int /\ f.width \in Int
      /\ bitrate \in Int /\ fps \in Int /\ itag \in Int
  BY DEF Formats
<1>2. area \in Int
  <2>1. ASSUME NEW h \in Int, NEW w \in Int
        PROVE  h * w \in Int
    OBVIOUS
  <2> QED
    BY <1>1, <2>1
<1>3. rank \in Int
  BY DEF TrackRank
<1>4. RankKeys(f) = <<rank, area, bitrate, fps, itag>>
  BY DEF RankKeys
<1> HIDE DEF rank, area, bitrate, fps, itag
<1> QED
  BY <1>1, <1>2, <1>3, <1>4

\* What is picked is one of the formats, and where a pick among some formats
\* is possible, one among more of them is: some candidate no other exceeds.
LEMMA PickPossible ==
  ASSUME NEW few \in Seq(Formats), NEW many \in Seq(Formats),
         ToSet(few) \subseteq ToSet(many), NEW spec, PickBest(few, spec) # {}
  PROVE  PickBest(many, spec) # {}
<1> DEFINE C == {f \in ToSet(many) : \A i \in DOMAIN spec : Matches(f, spec[i])}
           Beats(g, f) == IF WantsWorst(spec)
                          THEN Exceeds(RankKeys(f), RankKeys(g))
                          ELSE Exceeds(RankKeys(g), RankKeys(f))
           U == [f \in C |-> {g \in C : Beats(g, f)}]
<1>1. C # {}
  BY DEF PickBest
<1>2. IsFiniteSet(C) /\ C \subseteq Formats
  <2>1. C \in SUBSET ToSet(many)
    OBVIOUS
  <2>2. IsFiniteSet(ToSet(many)) /\ ToSet(many) \subseteq Formats
    BY ListElements
  <2> HIDE DEF C
  <2> QED
    BY <2>1, <2>2, FS_Subset
<1>3. \A f, g, h \in C : ~Beats(f, f) /\ (Beats(h, g) /\ Beats(g, f) => Beats(h, f))
  <2>1. \A f \in C : RankKeys(f) \in [1..5 -> Int]
    BY <1>2, RankKeysType
  <2> HIDE DEF C
  <2> QED
    BY <2>1, ExceedsOrders
<1>4. PickBest(many, spec) = {f \in C : \A g \in C : ~Beats(g, f)}
  BY DEF PickBest
<1> HIDE DEF C, Beats
<1>5. U \in [C -> SUBSET C]
  OBVIOUS
<1>6. PICK f \in C : \A g \in C : U[g] \subseteq U[f] => U[g] = U[f]
  <2> HIDE DEF U
  <2> QED
    BY <1>1, <1>2, <1>5, MinimalIndex
<1>7. ASSUME NEW g \in C, Beats(g, f)
      PROVE  FALSE
  <2>1. U[g] \subseteq U[f] /\ g \in U[f] /\ g \notin U[g]
    BY <1>3, <1>7
  <2> QED
    BY <1>6, <2>1
<1> QED
  BY <1>4, <1>7

-----------------------------------------------------------------------------
(* Selecting formats *)

\* The groups of a text are lists of at least one stream.
LEMMA Groups ==
  ASSUME NEW text \in DOMAIN Syntax
  PROVE  /\ Len(Syntax[text]) \in Nat /\ DOMAIN Syntax[text] = 1..Len(Syntax[text])
         /\ \A i \in DOMAIN Syntax[text] : LET group == Syntax[text][i] IN
              Len(group) \in Nat \ {0} /\ DOMAIN group = 1..Len(group)
<1> DEFINE groups == Syntax[text]
<1>1. groups \in Seq(ToSet(groups))
  BY SelectionAssumption DEF SelectionAssumption
<1>2. \A group \in ToSet(groups) : group \in Seq(ToSet(group)) /\ group # <<>>
  BY SelectionAssumption DEF SelectionAssumption
<1>3. Len(groups) \in Nat /\ DOMAIN groups = 1..Len(groups)
  <2> HIDE DEF groups
  <2> QED
    BY <1>1, LenProperties
<1>4. ASSUME NEW i \in DOMAIN groups
      PROVE  Len(groups[i]) \in Nat \ {0} /\ DOMAIN groups[i] = 1..Len(groups[i])
  <2> DEFINE group == groups[i]
  <2>1. group \in Seq(ToSet(group)) /\ group # <<>>
    BY <1>2 DEF ToSet
  <2> HIDE DEF group
  <2>2. Len(group) \in Nat /\ DOMAIN group = 1..Len(group) /\ Len(group) # 0
    BY <2>1, LenProperties, EmptySeq
  <2> QED
    BY <2>2 DEF group
<1> QED
  BY <1>3, <1>4

\* The picks of a group are formats, as many as it has streams.
LEMMA PicksOfGroup ==
  ASSUME NEW T, NEW list \in Seq(T), NEW group, NEW s \in GroupPicks(list, group),
         Len(group) \in Nat \ {0}, DOMAIN group = 1..Len(group)
  PROVE  s \in Seq(ToSet(list)) /\ Len(s) = Len(group) /\ s # <<>>
<1> DEFINE picks(i) == PickBest(list, StreamSpec(group[i]))
           all == UNION {picks(i) : i \in DOMAIN group}
<1>1. s \in [DOMAIN group -> all]
  BY DEF GroupPicks
<1>2. all \subseteq ToSet(list)
  BY DEF PickBest
<1> HIDE DEF all
<1>3. s \in [1..Len(group) -> ToSet(list)]
  BY <1>1, <1>2
<1>4. s \in Seq(ToSet(list)) /\ Len(s) = Len(group)
  BY <1>3, IsASeq, LenProperties
<1> QED
  BY <1>4, EmptySeq

\* A group that has picks among some formats has picks among more of them.
LEMMA GroupPossible ==
  ASSUME NEW few \in Seq(Formats), NEW many \in Seq(Formats),
         ToSet(few) \subseteq ToSet(many), NEW group, GroupPicks(few, group) # {}
  PROVE  GroupPicks(many, group) # {}
<1> DEFINE picks(list, i) == PickBest(list, StreamSpec(group[i]))
           all == UNION {picks(many, i) : i \in DOMAIN group}
           choice == [i \in DOMAIN group |-> CHOOSE f \in picks(many, i) : TRUE]
<1>1. PICK s \in GroupPicks(few, group) : TRUE
  OBVIOUS
<1>2. \A i \in DOMAIN group : s[i] \in picks(few, i)
  BY DEF GroupPicks
<1>3. \A i \in DOMAIN group : picks(many, i) # {}
  BY <1>2, PickPossible
<1>4. GroupPicks(many, group) =
        {t \in [DOMAIN group -> all] : \A i \in DOMAIN group : t[i] \in picks(many, i)}
  BY DEF GroupPicks
<1> HIDE DEF picks
<1>5. \A i \in DOMAIN group : choice[i] \in picks(many, i)
  BY <1>3
<1>6. choice \in [DOMAIN group -> all]
  BY <1>3
<1> HIDE DEF choice, all
<1> QED
  BY <1>4, <1>5, <1>6

\* The selector takes the first group that can be satisfied.
LEMMA FirstSatisfiable ==
  ASSUME NEW text \in DOMAIN Syntax, NEW list, Select(list, text) # {}
  PROVE  \E i \in Satisfiable(list, text) :
           /\ \A j \in Satisfiable(list, text) : i <= j
           /\ Select(list, text) = GroupPicks(list, Syntax[text][i])
<1> DEFINE groups == Satisfiable(list, text)
           first == CHOOSE i \in groups : \A j \in groups : i <= j
<1>1. groups \in SUBSET Nat
  BY Groups DEF Satisfiable
<1>2. groups # {} /\ Select(list, text) = GroupPicks(list, Syntax[text][first])
  BY DEF Select
<1> HIDE DEF groups
<1>3. \E i \in groups : \A j \in groups : i <= j
  BY <1>1, <1>2, FirstPlace
<1>4. first \in groups /\ \A j \in groups : first <= j
  BY <1>3
<1> QED
  BY <1>2, <1>4 DEF groups

LEMMA NoneSatisfiable ==
  ASSUME NEW text \in DOMAIN Syntax, NEW list, Select(list, text) = {}
  PROVE  Satisfiable(list, text) = {}
<1> SUFFICES ASSUME Satisfiable(list, text) # {}
             PROVE  FALSE
  OBVIOUS
<1> DEFINE groups == Satisfiable(list, text)
           first == CHOOSE i \in groups : \A j \in groups : i <= j
<1>1. groups \in SUBSET Nat
  BY Groups DEF Satisfiable
<1>2. groups # {} /\ GroupPicks(list, Syntax[text][first]) = {}
  BY DEF Select
<1>3. \A i \in groups : GroupPicks(list, Syntax[text][i]) # {}
  BY DEF Satisfiable
<1> HIDE DEF groups
<1>4. \E i \in groups : \A j \in groups : i <= j
  BY <1>1, <1>2, FirstPlace
<1>5. first \in groups
  BY <1>4
<1> QED
  BY <1>2, <1>3, <1>5

\* What the selector yields: a pick of one of the text's groups.
LEMMA Selected ==
  ASSUME NEW T, NEW list \in Seq(T), NEW text \in DOMAIN Syntax,
         NEW s \in Select(list, text)
  PROVE  s \in Seq(ToSet(list)) /\ s # <<>>
<1>1. PICK i \in Satisfiable(list, text) : s \in GroupPicks(list, Syntax[text][i])
  BY FirstSatisfiable
<1>2. i \in DOMAIN Syntax[text]
  BY DEF Satisfiable
<1> QED
  BY <1>1, <1>2, Groups, PicksOfGroup

\* A ciphered format in the choice: the group it was picked for has no picks
\* among the plain formats, for if it had, it would be the first to have
\* any, and its plain picks as many.
LEMMA CipheredGroup ==
  ASSUME NEW list \in Seq(Formats), NEW text \in DOMAIN Syntax,
         NEW t \in Select(list, text), NEW s \in Alternatives(list, text, t),
         \E f \in ToSet(s) : f.ciphered
  PROVE  \E i \in DOMAIN Syntax[text] :
           /\ s \in GroupPicks(list, Syntax[text][i])
           /\ GroupPicks(Plain(list), Syntax[text][i]) = {}
<1> DEFINE plain == Plain(list)
           alt == Select(plain, text)
           group(i) == Syntax[text][i]
<1>1. plain \in Seq(Formats) /\ ToSet(plain) = {f \in ToSet(list) : ~f.ciphered}
  BY PlainElements
<1>2. PICK i \in Satisfiable(list, text) :
        /\ \A j \in Satisfiable(list, text) : i <= j
        /\ Select(list, text) = GroupPicks(list, group(i))
  BY FirstSatisfiable
<1>3. i \in DOMAIN Syntax[text] /\ Satisfiable(list, text) \subseteq Nat
  BY Groups DEF Satisfiable
<1>4. \/ s = t /\ \A a \in alt : Len(a) < Len(t)
      \/ s \in alt
  BY DEF Alternatives
<1> HIDE DEF alt, plain
<1>5. s \notin alt
  <2> SUFFICES ASSUME s \in alt
               PROVE  FALSE
    OBVIOUS
  <2>1. s \in Seq(ToSet(plain))
    BY <1>1, Selected DEF alt
  <2>2. ToSet(s) \subseteq ToSet(plain)
    BY <2>1, ListElements
  <2> QED
    BY <1>1, <2>2
<1>6. s = t /\ \A a \in alt : Len(a) < Len(t)
  BY <1>4, <1>5
<1>7. Len(group(i)) \in Nat \ {0} /\ DOMAIN group(i) = 1..Len(group(i))
  BY <1>3, Groups
<1>8. Len(t) = Len(group(i))
  BY <1>2, <1>7, PicksOfGroup
<1>9. ASSUME GroupPicks(plain, group(i)) # {}
      PROVE  FALSE
  <2>1. i \in Satisfiable(plain, text)
    BY <1>3, <1>9 DEF Satisfiable
  <2>2. alt # {}
    BY <2>1, NoneSatisfiable DEF alt
  <2>3. PICK j \in Satisfiable(plain, text) :
          /\ \A k \in Satisfiable(plain, text) : j <= k
          /\ alt = GroupPicks(plain, group(j))
    BY <2>2, FirstSatisfiable DEF alt
  <2>4. j \in DOMAIN Syntax[text] /\ GroupPicks(plain, group(j)) # {}
    BY DEF Satisfiable
  <2>5. j \in Satisfiable(list, text)
    BY <1>1, <2>4, GroupPossible DEF Satisfiable
  <2>6. j = i
    BY <1>2, <1>3, <2>1, <2>3, <2>5
  <2>7. PICK a \in alt : TRUE
    BY <2>2
  <2>8. Len(a) = Len(group(i))
    BY <1>1, <1>7, <2>3, <2>6, <2>7, PicksOfGroup
  <2> QED
    BY <1>6, <1>7, <1>8, <2>7, <2>8
<1> QED
  BY <1>2, <1>3, <1>6, <1>9 DEF plain

\* What Download chooses is a list of formats on offer; a forced itag is
\* chosen by itself.
LEMMA ChosenFormats ==
  ASSUME NEW list \in Seq(Formats), NEW o, o.itag \in Nat, NEW s \in SelectFormats(list, o)
  PROVE  /\ s \in Seq(ToSet(list)) /\ s # <<>>
         /\ o.itag # 0 => Len(s) = 1 /\ s[1].itag = o.itag
         /\ o.itag = 0 =>
              LET text == DefaultSelector(o)
              IN  /\ text \in DOMAIN Syntax
                  /\ \E t \in Select(list, text) : s \in Alternatives(list, text, t)
<1>1. CASE o.itag # 0
  <2>1. PICK f \in WithItag(list, o.itag) : s = <<f>>
    BY <1>1 DEF SelectFormats
  <2>2. f \in ToSet(list) /\ f.itag = o.itag
    BY DEF WithItag, ToSet
  <2>3. s \in Seq(ToSet(list)) /\ s # <<>> /\ Len(s) = 1 /\ s[1] = f
    BY <2>1, <2>2
  <2> QED
    BY <1>1, <2>2, <2>3
<1>2. CASE o.itag = 0
  <2> DEFINE text == DefaultSelector(o)
  <2>1. /\ Parses(text)
        /\ s \in UNION {Alternatives(list, text, t) : t \in Select(list, text)}
    BY <1>2 DEF SelectFormats
  <2>2. text \in DOMAIN Syntax
    BY <2>1 DEF Parses
  <2> HIDE DEF text
  <2>3. PICK t \in Select(list, text) : s \in Alternatives(list, text, t)
    BY <2>1
  <2>4. Plain(list) \in Seq(Formats) /\ ToSet(Plain(list)) \subseteq ToSet(list)
    BY PlainElements
  <2>5. s = t \/ s \in Select(Plain(list), text)
    BY <2>3 DEF Alternatives
  <2>6. s \in Seq(ToSet(list)) /\ s # <<>>
    <3>1. CASE s = t
      BY <2>2, <3>1, Selected
    <3>2. CASE s \in Select(Plain(list), text)
      <4>1. s \in Seq(ToSet(Plain(list))) /\ s # <<>>
        BY <2>2, <2>4, <3>2, Selected
      <4> QED
        BY <2>4, <4>1, SeqMonotonic
    <3> QED
      BY <2>5, <3>1, <3>2
  <2> QED
    BY <1>2, <2>2, <2>3, <2>6 DEF text
<1> QED
  BY <1>1, <1>2

\* The tracks of a merge, or the first format, are among the selected.
LEMMA TracksOf ==
  ASSUME NEW T, NEW s \in Seq(T), s # <<>>
  PROVE  /\ MergeTracks(s) \in Seq(ToSet(s)) /\ MergeTracks(s) # <<>>
         /\ Len(MergeTracks(s)) \in 1..2
<1> DEFINE vids == {i \in DOMAIN s : s[i].video}
           vid == CHOOSE i \in vids : \A j \in vids : i <= j
           auds == {i \in DOMAIN s : s[i].audio /\ (vids # {} => i # vid)}
           aud == CHOOSE i \in auds : \A j \in auds : i <= j
<1>1. Len(s) \in Nat \ {0} /\ DOMAIN s = 1..Len(s)
  BY LenProperties, EmptySeq
<1>2. vids \in SUBSET Nat /\ auds \in SUBSET Nat
      /\ vids \subseteq DOMAIN s /\ auds \subseteq DOMAIN s
  BY <1>1
<1>3. MergeTracks(s) = IF vids = {} \/ auds = {} THEN <<s[1]>> ELSE <<s[vid], s[aud]>>
  BY DEF MergeTracks
<1> HIDE DEF vids, auds
<1>4. vids # {} => vid \in vids
  BY <1>2, FirstPlace
<1>5. auds # {} => aud \in auds
  BY <1>2, FirstPlace
<1>6. 1 \in DOMAIN s /\ \A i \in DOMAIN s : s[i] \in ToSet(s)
  BY <1>1 DEF ToSet
<1> HIDE DEF vid, aud
<1>7. \/ MergeTracks(s) = <<s[1]>>
      \/ /\ MergeTracks(s) = <<s[vid], s[aud]>>
         /\ vid \in DOMAIN s /\ aud \in DOMAIN s
  BY <1>2, <1>3, <1>4, <1>5
<1> DEFINE tracks == MergeTracks(s)
           all == ToSet(s)
<1>8. \/ \E a \in all : tracks = <<a>>
      \/ \E a, b \in all : tracks = <<a, b>>
  BY <1>6, <1>7
<1> HIDE DEF tracks, all
<1>9. tracks \in Seq(all) /\ tracks # <<>> /\ Len(tracks) \in 1..2
  <2>1. ASSUME NEW a \in all, tracks = <<a>>
        PROVE  tracks \in Seq(all) /\ tracks # <<>> /\ Len(tracks) = 1
    BY <2>1
  <2>2. ASSUME NEW a \in all, NEW b \in all, tracks = <<a, b>>
        PROVE  tracks \in Seq(all) /\ tracks # <<>> /\ Len(tracks) = 2
    BY <2>2
  <2> QED
    BY <1>8, <2>1, <2>2
<1> QED
  BY <1>9 DEF tracks, all

\* The formats of a fallback are muxed, and plain if any muxed format is.
LEMMA FallbackFormats ==
  ASSUME NEW T, NEW list \in Seq(T)
  PROVE  /\ Fallbacks(list) \in Seq(ToSet(list))
         /\ \A f \in ToSet(Fallbacks(list)) : f.ciphered => Muxed(Plain(list)) = <<>>
<1> DEFINE muxed == Muxed(list)
<1>1. list \in Seq(ToSet(list))
  BY ListElements
<1>2. muxed \in Seq(ToSet(list)) /\ ToSet(muxed) = {f \in ToSet(list) : f.video /\ f.audio}
  BY <1>1, MuxedElements
<1>3. Plain(muxed) \in Seq(ToSet(list)) /\ ToSet(Plain(muxed)) = {f \in ToSet(muxed) : ~f.ciphered}
  BY <1>2, PlainElements
<1>4. Fallbacks(list) = IF Plain(muxed) = <<>> THEN muxed ELSE Plain(muxed)
  BY DEF Fallbacks
<1>5. Fallbacks(list) \in Seq(ToSet(list))
  BY <1>2, <1>3, <1>4
<1>6. ASSUME NEW f \in ToSet(Fallbacks(list)), f.ciphered
      PROVE  Muxed(Plain(list)) = <<>>
  <2>1. Plain(muxed) = <<>>
    BY <1>3, <1>4, <1>6
  <2>2. ToSet(Plain(muxed)) = {}
    BY <2>1 DEF ToSet
  <2>3. Plain(list) \in Seq(T) /\ ToSet(Plain(list)) = {g \in ToSet(list) : ~g.ciphered}
    BY PlainElements
  <2>4. /\ Muxed(Plain(list)) \in Seq(T)
        /\ ToSet(Muxed(Plain(list))) = {g \in ToSet(Plain(list)) : g.video /\ g.audio}
    BY <2>3, MuxedElements
  <2>5. ToSet(Muxed(Plain(list))) = {}
    BY <1>2, <1>3, <2>2, <2>3, <2>4
  <2> DEFINE m == Muxed(Plain(list))
  <2>6. m \in Seq(T) /\ ToSet(m) = {}
    BY <2>4, <2>5
  <2> HIDE DEF m
  <2>7. m = <<>>
    <3>1. DOMAIN m = 1..Len(m) /\ Len(m) \in Nat
      BY <2>6, LenProperties
    <3>2. DOMAIN m = {}
      BY <2>6 DEF ToSet
    <3>3. Len(m) = 0
      BY <3>1, <3>2
    <3> QED
      BY <2>6, <3>3, EmptySeq
  <2> QED
    BY <2>7 DEF m
<1> QED
  BY <1>5, <1>6

-----------------------------------------------------------------------------
(* The invariant *)

Paths == [name : Seq(Int), mp3 : BOOLEAN, stage : Seq(Int), part : BOOLEAN]

Selecting == pc \in {"resolve", "fetch"}
Active == Selecting \/ pc \in {"merge", "cleanup"}

\* Types; the name Download was given is an output's.
TypesInv ==
  /\ pc \in {"idle", "download"} \/ Active
  /\ req \in Requests
  /\ path \in Paths /\ IsOutput(path)
  /\ formats \in Seq(Formats)
  /\ sel \in Seq(ToSet(formats)) /\ Len(sel) <= 2
  /\ queue \in Seq(ToSet(formats))
  /\ track \in 1..3
  /\ fellBack \in BOOLEAN
  /\ err \in Errors /\ result.err \in Errors
  /\ calls \in 0..MaxCalls /\ foreign \in BOOLEAN

\* No file is of nothing, and an intermediate file, complete or not, is of the
\* format its name has and no other.
Fits(p, c) ==
  /\ c \in Contents /\ c.of # {}
  /\ p.stage # <<>> => c.of = {p.stage[2]}

FilesOK(fs) ==
  /\ DOMAIN fs \subseteq Paths
  /\ \A p \in DOMAIN fs : Fits(p, fs[p])

FilesInv ==
  /\ FilesOK(files)
  /\ spared \subseteq Paths
  /\ \A p \in spared : IsIntermediate(p)

\* What is fetched: nothing between calls, a forced itag by itself, and in the
\* fallback one of its formats.
SelectionInv ==
  /\ pc \in {"idle", "download"} =>
       sel = <<>> /\ queue = <<>> /\ done = <<>> /\ ~fellBack
  /\ Active => sel # <<>>
  /\ Active /\ opts.itag # 0 => Len(sel) = 1 /\ sel[1].itag = opts.itag
  /\ fellBack => /\ ToSet(queue) \subseteq ToSet(Fallbacks(formats))
                 /\ Len(sel) = 1 /\ sel[1] \in ToSet(Fallbacks(formats))

\* The cleanups deferred are those of the tracks fetched, in their order; the
\* files are complete until the merge, which may delete them.
TracksInv ==
  /\ Len(done) \in 0..2 /\ done = [i \in 1..Len(done) |-> Intermediate(i)]
  /\ Merging \/ done = <<>>
  /\ Selecting /\ Merging => track \in 1..2 /\ Len(done) = track - 1
  /\ pc = "merge" => Merging /\ Len(done) = 2
  /\ Selecting \/ pc = "merge" =>
       \A i \in 1..Len(done) : done[i] \in DOMAIN files /\ files[done[i]].whole
  /\ pc = "cleanup" =>
       ToSet(done) \subseteq DOMAIN files \/ (Muxer = "ffmpeg" /\ err = "none")

\* A complete intermediate file is spared or its cleanup is deferred.
StrayInv ==
  \A p \in DOMAIN files :
    IsIntermediate(p) /\ files[p].whole => p \in spared \cup ToSet(done)

\* The output of the strategy, and what is in it when the strategy succeeds.
Target == IF Merging THEN MergedPath ELSE OutputOf(sel[1])

\* Complete, unless it may hold another format's bytes.
Whole(c, of, mixed) == IF c.of = of THEN c.whole ELSE mixed

OutputInv ==
  /\ pc = "cleanup" /\ err = "none" =>
       Target \in DOMAIN files /\ Whole(files[Target], ToSet(Itags(sel)), foreign)
  /\ pc = "idle" /\ result.err = "none" /\ result.of # {} =>
       Complete /\ ForcedItagHonoured

WorkflowInv ==
  /\ TypesInv /\ FilesInv /\ SelectionInv /\ TracksInv /\ StrayInv /\ OutputInv
  /\ CipheredOnlyIfNeeded

-----------------------------------------------------------------------------
(* Names and files *)

USE SelectionAssumption, WorkflowAssumption DEF WorkflowAssumption

\* The options of a request force a positive itag or none.
LEMMA OptionsItag ==
  ASSUME NEW r \in Requests
  PROVE  BuildDownloadOptions(r).itag \in Nat
<1> DEFINE o == BuildDownloadOptions(r)
<1>1. \/ \E m, s : o = Options(0, m, s)
      \/ \E x \in DOMAIN Number : \E m, s : o = Options(Number[x], m, s)
  BY Zenon DEF BuildDownloadOptions
<1>2. \A x \in DOMAIN Number : Number[x] \in Nat
  BY DEF SelectionAssumption
<1>3. \A i, m, s : Options(i, m, s).itag = i
  BY DEF Options
<1> HIDE DEF o
<1>4. o.itag \in Nat
  BY <1>1, <1>2, <1>3
<1> QED
  BY <1>4 DEF o

\* The itags of formats.
LEMMA ItagsOf ==
  ASSUME NEW s \in Seq(Formats)
  PROVE  /\ Itags(s) \in Seq(Int) /\ Len(Itags(s)) = Len(s)
         /\ ToSet(Itags(s)) = {s[i].itag : i \in DOMAIN s}
<1>1. Len(s) \in Nat /\ DOMAIN s = 1..Len(s) /\ \A i \in DOMAIN s : s[i] \in Formats
  BY LenProperties, ElementOfSeq
<1>2. \A i \in DOMAIN s : s[i].itag \in Int
  BY <1>1 DEF Formats
<1>3. Itags(s) \in [1..Len(s) -> Int]
  BY <1>1, <1>2 DEF Itags
<1>4. Itags(s) \in Seq(Int) /\ Len(Itags(s)) = Len(s)
  BY <1>1, <1>3, IsASeq, LenProperties
<1>5. ToSet(Itags(s)) = {s[i].itag : i \in DOMAIN s}
  BY DEF ToSet, Itags
<1> QED
  BY <1>4, <1>5

\* What one complete or partial fetch of a format leaves.
LEMMA OneFormat ==
  ASSUME NEW f \in Formats, NEW whole \in BOOLEAN
  PROVE  /\ Holds(<<f>>, whole) = [of |-> {f.itag}, whole |-> whole]
         /\ Holds(<<f>>, whole) \in Contents /\ f.itag \in Int
<1>1. f.itag \in Int
  BY DEF Formats
<1>2. ToSet(Itags(<<f>>)) = {f.itag}
  BY DEF Itags, ToSet
<1> QED
  BY <1>1, <1>2 DEF Holds, Contents

\* Where a selection's bytes go: a name of an output, of an output that one
\* format gives, and of its tracks beside it.
LEMMA Names ==
  ASSUME TypesInv, sel # <<>>
  PROVE  /\ Len(sel) \in 1..2 /\ sel[1] \in Formats /\ (Merging => sel[2] \in Formats)
         /\ OutputOf(sel[1]) \in Paths /\ IsOutput(OutputOf(sel[1]))
         /\ MergedPath \in Paths /\ IsOutput(MergedPath)
         /\ Target \in Paths /\ IsOutput(Target)
         /\ \A i \in 1..2 : Merging =>
              /\ Intermediate(i) \in Paths /\ IsIntermediate(Intermediate(i))
              /\ Intermediate(i).stage = <<i, sel[i].itag>>
<1>1. /\ ToSet(formats) \subseteq Formats
      /\ sel \in Seq(ToSet(formats)) /\ Len(sel) <= 2
  BY ListElements DEF TypesInv
<1>2. sel \in Seq(Formats) /\ Len(sel) \in 1..2
  <2>1. sel \in Seq(Formats)
    BY <1>1, SeqMonotonic
  <2>2. Len(sel) \in Nat /\ Len(sel) # 0
    BY <2>1, LenProperties, EmptySeq
  <2> DEFINE n == Len(sel)
  <2>3. n \in Nat /\ n # 0 /\ n <= 2
    BY <1>1, <2>2
  <2> HIDE DEF n
  <2>4. n \in 1..2
    BY <2>3
  <2> QED
    BY <2>1, <2>4 DEF n
<1>3. sel[1] \in Formats /\ (Merging => sel[2] \in Formats)
  BY <1>2, ElementOfSeq DEF Merging
<1>4. sel[1].itag \in Int /\ (Merging => sel[2].itag \in Int)
  BY <1>3 DEF Formats
<1>5. ASSUME NEW n \in Seq(Int), NEW b \in BOOLEAN
      PROVE  Path(n, b) \in Paths /\ IsOutput(Path(n, b))
  <2>1. <<>> \in Seq(Int)
    OBVIOUS
  <2> QED
    BY <2>1 DEF Path, Paths, IsOutput
<1>6. OutputOf(sel[1]) \in Paths /\ IsOutput(OutputOf(sel[1]))
  <2>1. <<sel[1].itag>> \in Seq(Int)
    BY <1>4
  <2> QED
    BY <1>5, <2>1 DEF OutputOf, TypesInv
<1>7. MergedPath \in Paths /\ IsOutput(MergedPath)
  <2>1. Itags(sel) \in Seq(Int)
    BY <1>2, ItagsOf
  <2> QED
    BY <1>5, <2>1 DEF MergedPath, TypesInv
<1>8. ASSUME NEW i \in 1..2, Merging
      PROVE  /\ Intermediate(i) \in Paths /\ IsIntermediate(Intermediate(i))
             /\ Intermediate(i).stage = <<i, sel[i].itag>>
  <2> DEFINE m == MergedPath
             st == <<i, sel[i].itag>>
  <2>1. st \in Seq(Int) /\ st # <<>>
    BY <1>4, <1>8
  <2>2. m \in Paths /\ IsOutput(m)
    BY <1>7
  <2>3. Intermediate(i) = [m EXCEPT !.stage = st]
    BY DEF Intermediate
  <2> HIDE DEF m, st
  <2>4. [m EXCEPT !.stage = st] \in Paths /\ [m EXCEPT !.stage = st].stage = st
        /\ [m EXCEPT !.stage = st].part = m.part
    BY <2>1, <2>2 DEF Paths
  <2> QED
    BY <2>1, <2>2, <2>3, <2>4 DEF st, IsIntermediate, IsOutput
<1> QED
  BY <1>2, <1>3, <1>6, <1>7, <1>8 DEF Target

\* One file written, one removed: what it is then, and that the others stay.
LEMMA PutFile ==
  ASSUME NEW fs, NEW p, NEW c
  PROVE  /\ DOMAIN Put(fs, p, c) = DOMAIN fs \cup {p}
         /\ Put(fs, p, c)[p] = c
         /\ \A q \in DOMAIN fs : q # p => Put(fs, p, c)[q] = fs[q]
         /\ FilesOK(fs) /\ p \in Paths /\ Fits(p, c) => FilesOK(Put(fs, p, c))
<1>1. /\ DOMAIN Put(fs, p, c) = DOMAIN fs \cup {p}
      /\ Put(fs, p, c)[p] = c
      /\ \A q \in DOMAIN fs : q # p => Put(fs, p, c)[q] = fs[q]
  BY DEF Put
<1>2. FilesOK(fs) /\ p \in Paths /\ Fits(p, c) => FilesOK(Put(fs, p, c))
  BY <1>1 DEF FilesOK
<1> QED
  BY <1>1, <1>2

LEMMA WithoutFile ==
  ASSUME NEW fs, NEW p
  PROVE  /\ DOMAIN Without(fs, p) = DOMAIN fs \ {p}
         /\ \A q \in DOMAIN fs : q # p => Without(fs, p)[q] = fs[q]
         /\ FilesOK(fs) => FilesOK(Without(fs, p))
<1>1. /\ DOMAIN Without(fs, p) = DOMAIN fs \ {p}
      /\ \A q \in DOMAIN fs : q # p => Without(fs, p)[q] = fs[q]
  BY DEF Without
<1>2. FilesOK(fs) => FilesOK(Without(fs, p))
  BY <1>1 DEF FilesOK
<1> QED
  BY <1>1, <1>2

\* The part file of a name is another file, if one is used.
LEMMA PartFile ==
  ASSUME NEW p \in Paths, ~p.part, req \in Requests
  PROVE  /\ WritePath(p) \in Paths /\ WritePath(p).stage = p.stage
         /\ WritePath(p).part = req.part
         /\ req.part => WritePath(p) # p
         /\ ~req.part => WritePath(p) = p
<1>1. req.part \in BOOLEAN
  OBVIOUS
<1> DEFINE b == req.part
           w == [p EXCEPT !.part = b]
<1>2. WritePath(p) = w
  BY DEF WritePath
<1>3. b \in BOOLEAN
  BY <1>1
<1> HIDE DEF b
<1>4. /\ w \in Paths /\ w.stage = p.stage /\ w.part = b
      /\ b => w # p
      /\ ~b => w = p
  BY <1>3 DEF Paths
<1> QED
  BY <1>2, <1>4 DEF b

\* The outcomes of a transfer of f to p: it succeeds with a whole file, or
\* leaves p as it was or, without part files, as a prefix; no file but p and its
\* part file changes.
Kept(before, after, but) ==
  \A q \in Paths \ but :
    /\ q \in DOMAIN after <=> q \in DOMAIN before
    /\ q \in DOMAIN before => after[q] = before[q]

LEMMA Transferred ==
  ASSUME FilesOK(files), req \in Requests, NEW f \in Formats,
         NEW p \in Paths, ~p.part, p.stage # <<>> => p.stage[2] = f.itag,
         NEW t \in Transfers(f, p)
  PROVE  /\ t[1] \in BOOLEAN /\ FilesOK(t[2])
         /\ Kept(files, t[2], {p, WritePath(p)})
         /\ t[1] => /\ p \in DOMAIN t[2]
                    /\ Whole(t[2][p], {f.itag}, TakesForeign(f, p))
                    /\ p.stage # <<>> => t[2][p].whole
         /\ ~t[1] => \/ Kept(files, t[2], {WritePath(p)}) /\ req.part
                     \/ Kept(files, t[2], {})
                     \/ p \in DOMAIN t[2] /\ ~t[2][p].whole /\ ~req.part
<1> DEFINE w == WritePath(p)
           fresh == Holds(<<f>>, TRUE)
           resumes == Resumes(f, p)
           old == files[w]
           own == old.of = {f.itag}
           appended == [of |-> old.of \cup {f.itag}, whole |-> own]
           complete == IF ~resumes THEN {fresh}
                       ELSE {fresh} \cup (IF own /\ old.whole THEN {} ELSE {appended})
                              \cup (IF own /\ ~old.whole THEN {} ELSE {old})
           partial == {Holds(<<f>>, FALSE)} \cup
                      (IF resumes /\ ~(own /\ old.whole)
                       THEN {[appended EXCEPT !.whole = FALSE]} ELSE {})
           publish(c) == Put(Without(files, w), p, c)
<1>1. \/ \E c \in complete : t = <<TRUE, publish(c)>>
      \/ \E c \in partial : t = <<FALSE, Put(files, w, c)>>
      \/ t = <<FALSE, files>>
      \/ req.part /\ \E c \in complete : t = <<FALSE, Put(files, w, c)>>
  BY DEF Transfers
<1>2. /\ w \in Paths /\ w.stage = p.stage
      /\ req.part \in BOOLEAN /\ (req.part => w # p) /\ (~req.part => w = p)
  BY PartFile
<1> DEFINE itags == {f.itag}
           joined == old.of \cup itags
           mixed == TakesForeign(f, p)
<1>3. /\ itags \in SUBSET Int /\ itags # {}
      /\ p.stage # <<>> => itags = {p.stage[2]}
  BY OneFormat
<1>4. /\ fresh \in Contents /\ fresh.of = itags /\ fresh.whole
      /\ LET c == Holds(<<f>>, FALSE) IN c \in Contents /\ c.of = itags /\ ~c.whole
  <2>1. /\ fresh \in Contents /\ fresh = [of |-> itags, whole |-> TRUE]
        /\ LET c == Holds(<<f>>, FALSE)
           IN  c \in Contents /\ c = [of |-> itags, whole |-> FALSE]
    BY OneFormat, Zenon
  <2> DEFINE cut == Holds(<<f>>, FALSE)
  <2>2. cut \in Contents /\ cut = [of |-> itags, whole |-> FALSE]
    BY <2>1
  <2> HIDE DEF fresh, itags, cut
  <2>3. fresh.of = itags /\ fresh.whole
    BY <2>1
  <2>4. cut.of = itags /\ ~cut.whole
    BY <2>2
  <2> QED
    BY <2>1, <2>2, <2>3, <2>4 DEF cut
<1>5. resumes => /\ old \in Contents /\ old.of # {} /\ old.of \in SUBSET Int
                 /\ p.stage # <<>> => own
  BY <1>2 DEF Resumes, FilesOK, Fits, Contents
<1>6. resumes => joined \in SUBSET Int /\ joined # {} /\ (own => joined = itags)
  BY <1>3, <1>5
<1>7. ASSUME NEW c \in complete
      PROVE  Fits(p, c) /\ Whole(c, itags, mixed) /\ (p.stage # <<>> => c.whole)
  <2>1. CASE c = fresh
    <3> HIDE DEF fresh, itags
    <3> QED
      BY <1>3, <1>4, <2>1 DEF Fits, Whole
  <2>2. CASE resumes /\ ~(own /\ old.whole) /\ c = appended
    <3> DEFINE b == own
    <3>1. b \in BOOLEAN /\ (p.stage # <<>> => b) /\ (b => joined = itags)
          /\ (~b => joined # itags /\ mixed)
      BY <1>3, <1>5, <1>6, <2>2 DEF TakesForeign
    <3>2. joined \in SUBSET Int /\ joined # {} /\ c = [of |-> joined, whole |-> b]
      BY <1>6, <2>2
    <3> HIDE DEF itags, joined, mixed, b
    <3>3. c \in Contents /\ c.of = joined /\ c.whole = b
      BY <3>1, <3>2 DEF Contents
    <3> QED
      BY <1>3, <3>1, <3>2, <3>3 DEF Fits, Whole
  <2>3. CASE resumes /\ ~(own /\ ~old.whole) /\ c = old
    <3>1. /\ c \in Contents /\ c.of # {} /\ (c.of # itags => mixed)
          /\ p.stage # <<>> => c.of = itags
          /\ c.of = itags => c.whole
      BY <1>5, <2>3 DEF TakesForeign
    <3> HIDE DEF itags, mixed
    <3> QED
      BY <1>3, <3>1 DEF Fits, Whole
  <2> QED
    BY <2>1, <2>2, <2>3
<1>8. ASSUME NEW c \in partial
      PROVE  Fits(p, c) /\ ~c.whole
  <2>1. CASE c = Holds(<<f>>, FALSE)
    <3> HIDE DEF itags
    <3> QED
      BY <1>3, <1>4, <2>1 DEF Fits
  <2>2. CASE resumes /\ c = [appended EXCEPT !.whole = FALSE]
    <3>1. c = [of |-> joined, whole |-> FALSE]
      BY <2>2
    <3>2. joined \in SUBSET Int /\ joined # {} /\ (p.stage # <<>> => joined = itags)
      BY <1>5, <1>6, <2>2
    <3> HIDE DEF itags, joined
    <3> QED
      BY <1>3, <3>1, <3>2 DEF Fits, Contents
  <2> QED
    BY <2>1, <2>2
<1>9. \A c : Fits(p, c) => Fits(w, c)
  BY <1>2 DEF Fits
<1> HIDE DEF w, complete, partial
<1>10. CASE \E c \in complete : t = <<TRUE, publish(c)>>
  <2>1. PICK c \in complete : t = <<TRUE, publish(c)>>
    BY <1>10
  <2> DEFINE rest == Without(files, w)
             after == Put(rest, p, c)
  <2>2. t[1] = TRUE /\ t[2] = after
    BY <2>1
  <2>3. Fits(p, c) /\ Whole(c, itags, mixed) /\ (p.stage # <<>> => c.whole)
    BY <1>7
  <2>4. /\ DOMAIN rest = DOMAIN files \ {w} /\ FilesOK(rest)
        /\ \A q \in DOMAIN files : q # w => rest[q] = files[q]
    BY WithoutFile
  <2> HIDE DEF rest
  <2>5. /\ DOMAIN after = DOMAIN rest \cup {p} /\ FilesOK(after) /\ after[p] = c
        /\ \A q \in DOMAIN rest : q # p => after[q] = rest[q]
    <3>1. /\ DOMAIN after = DOMAIN rest \cup {p} /\ after[p] = c
          /\ \A q \in DOMAIN rest : q # p => after[q] = rest[q]
      BY DEF Put
    <3>2. FilesOK(after)
      BY <2>3, <2>4, PutFile
    <3> QED
      BY <3>1, <3>2
  <2> HIDE DEF after
  <2>6. Kept(files, after, {p, w})
    BY <2>4, <2>5 DEF Kept
  <2> QED
    BY <2>2, <2>3, <2>5, <2>6 DEF w
<1>11. CASE t = <<FALSE, files>>
  BY <1>11 DEF Kept
<1>12. ASSUME NEW c, Fits(p, c), t = <<FALSE, Put(files, w, c)>>, req.part \/ ~c.whole
       PROVE  /\ t[1] = FALSE /\ FilesOK(t[2])
              /\ Kept(files, t[2], {w})
              /\ req.part \/ (p \in DOMAIN t[2] /\ ~t[2][p].whole)
  <2> DEFINE after == Put(files, w, c)
  <2>1. t[1] = FALSE /\ t[2] = after
    BY <1>12
  <2>2. Fits(w, c)
    BY <1>9, <1>12
  <2>3. /\ DOMAIN after = DOMAIN files \cup {w} /\ FilesOK(after) /\ after[w] = c
        /\ \A q \in DOMAIN files : q # w => after[q] = files[q]
    <3>1. /\ DOMAIN after = DOMAIN files \cup {w} /\ after[w] = c
          /\ \A q \in DOMAIN files : q # w => after[q] = files[q]
      BY DEF Put
    <3>2. FilesOK(after)
      BY <1>2, <2>2, PutFile
    <3> QED
      BY <3>1, <3>2
  <2> HIDE DEF after
  <2>4. Kept(files, after, {w})
    BY <2>3 DEF Kept
  <2> QED
    BY <1>2, <1>12, <2>1, <2>3, <2>4
<1>13. CASE \/ \E c \in partial : t = <<FALSE, Put(files, w, c)>>
            \/ req.part /\ \E c \in complete : t = <<FALSE, Put(files, w, c)>>
  <2>1. PICK c : Fits(p, c) /\ t = <<FALSE, Put(files, w, c)>> /\ (req.part \/ ~c.whole)
    BY <1>7, <1>8, <1>13
  <2>2. /\ t[1] = FALSE /\ FilesOK(t[2])
        /\ Kept(files, t[2], {w})
        /\ req.part \/ (p \in DOMAIN t[2] /\ ~t[2][p].whole)
    BY <1>12, <2>1
  <2>3. Kept(files, t[2], {p, w})
    BY <2>2 DEF Kept
  <2> QED
    BY <1>2, <2>2, <2>3 DEF w
<1> QED
  BY <1>1, <1>10, <1>11, <1>13

-----------------------------------------------------------------------------
(* The steps *)

\* The files whose cleanup is deferred, by their tracks.
LEMMA Deferred ==
  ASSUME TracksInv
  PROVE  /\ Len(done) \in 0..2 /\ DOMAIN done = 1..Len(done)
         /\ \A i \in 1..Len(done) : done[i] = Intermediate(i)
         /\ ToSet(done) = {Intermediate(i) : i \in 1..Len(done)}
         /\ done = <<>> <=> Len(done) = 0
<1> DEFINE n == Len(done)
<1>1. n \in 0..2 /\ done = [i \in 1..n |-> Intermediate(i)]
  BY DEF TracksInv
<1> HIDE DEF n
<1>2. DOMAIN done = 1..n /\ \A i \in 1..n : done[i] = Intermediate(i)
  BY <1>1
<1>3. ToSet(done) = {Intermediate(i) : i \in 1..n}
  BY <1>2 DEF ToSet
<1>4. done = <<>> => n = 0
  BY DEF n
<1>5. n = 0 => done = <<>>
  BY <1>1
<1> QED
  BY <1>1, <1>2, <1>3, <1>4, <1>5 DEF n

\* While the selection, the name and the request stay, so does all that is said
\* in their terms.
LEMMA SameStrategy ==
  ASSUME UNCHANGED <<req, path, sel>>
  PROVE  /\ opts' = opts /\ Merging' = Merging /\ Transcoding' = Transcoding
         /\ MergedPath' = MergedPath /\ Target' = Target
         /\ \A i : Intermediate(i)' = Intermediate(i)
<1>1. opts' = opts /\ Merging' = Merging
  BY DEF opts, Merging
<1>2. MergedPath' = MergedPath
  BY DEF MergedPath
<1>3. Target' = Target
  BY <1>1, <1>2 DEF Target, OutputOf
<1>4. \A i : Intermediate(i)' = Intermediate(i)
  BY <1>2 DEF Intermediate
<1> QED
  BY <1>1, <1>2, <1>3, <1>4 DEF Transcoding

\* Between calls, and before Download has chosen, only the directory counts.
LEMMA NothingSelected ==
  ASSUME TypesInv', FilesInv, StrayInv, files' = files,
         ToSet(done) \cup spared \subseteq spared', spared' \subseteq Paths,
         \A p \in spared' : IsIntermediate(p),
         pc' \in {"idle", "download"}, sel' = <<>>, queue' = <<>>, done' = <<>>, ~fellBack',
         pc' = "idle" /\ result'.err = "none" /\ result'.of # {} =>
           (Complete /\ ForcedItagHonoured)'
  PROVE  WorkflowInv'
<1>1. FilesInv'
  BY DEF FilesInv
<1>2. SelectionInv'
  BY DEF SelectionInv, Active, Selecting
<1>3. TracksInv'
  <2>1. Len(done') = 0
    OBVIOUS
  <2>2. 1..0 = {} /\ done' = [i \in 1..0 |-> Intermediate(i)']
    OBVIOUS
  <2>3. ToSet(done') \subseteq DOMAIN files'
    BY DEF ToSet
  <2> QED
    BY <2>1, <2>2, <2>3 DEF TracksInv, Selecting
<1>4. StrayInv'
  BY DEF StrayInv
<1>5. OutputInv'
  BY DEF OutputInv
<1>6. CipheredOnlyIfNeeded'
  BY DEF CipheredOnlyIfNeeded
<1> QED
  BY <1>1, <1>2, <1>3, <1>4, <1>5, <1>6 DEF WorkflowInv

LEMMA InitInv ==
  ASSUME Init
  PROVE  WorkflowInv
<1>1. req \in Requests
  BY DEF Init
<1>2. NoPath \in Paths /\ IsOutput(NoPath)
  <2>1. <<>> \in Seq(Int)
    OBVIOUS
  <2> QED
    BY <2>1 DEF NoPath, Path, Paths, IsOutput
<1>3. TypesInv
  <2>1. calls \in 0..MaxCalls
    BY DEF Init
  <2>2. formats \in Seq(Formats) /\ sel \in Seq(ToSet(formats)) /\ queue \in Seq(ToSet(formats))
        /\ Len(sel) <= 2
    BY DEF Init
  <2>3. track \in 1..3
    BY DEF Init
  <2>4. fellBack \in BOOLEAN /\ err \in Errors
    BY Zenon DEF Init, Errors
  <2>5. result.err \in Errors
    BY DEF Init, Errors, NoResult
  <2> QED
    BY <1>1, <1>2, <2>1, <2>2, <2>3, <2>4, <2>5, Zenon DEF Init, TypesInv
<1>4. FilesInv
  BY DEF Init, FilesInv, FilesOK
<1>5. SelectionInv
  BY DEF Init, SelectionInv, Active, Selecting
<1>6. TracksInv
  <2>1. Len(done) = 0
    BY DEF Init
  <2>2. 1..0 = {} /\ done = [i \in 1..0 |-> Intermediate(i)]
    BY DEF Init
  <2> QED
    BY <2>1, <2>2 DEF Init, TracksInv, Selecting
<1>7. StrayInv
  BY DEF Init, StrayInv
<1>8. OutputInv
  BY DEF Init, OutputInv, NoResult
<1>9. CipheredOnlyIfNeeded
  BY DEF Init, CipheredOnlyIfNeeded
<1> QED
  BY <1>3, <1>4, <1>5, <1>6, <1>7, <1>8, <1>9 DEF WorkflowInv

\* A call's locals are forgotten at its end.
LEMMA Forgotten ==
  ASSUME TypesInv, Forget, pc' = "idle", UNCHANGED <<req, calls, foreign>>,
         result'.err \in Errors
  PROVE  TypesInv' /\ sel' = <<>> /\ queue' = <<>> /\ ~fellBack'
<1>1. path' \in Paths /\ IsOutput(path)'
  <2>1. <<>> \in Seq(Int)
    OBVIOUS
  <2> QED
    BY <2>1 DEF Forget, NoPath, Path, Paths, IsOutput
<1>2. formats' \in Seq(Formats) /\ sel' \in Seq(ToSet(formats')) /\ queue' \in Seq(ToSet(formats'))
      /\ Len(sel') <= 2
  BY DEF Forget
<1>3. pc' = "idle" /\ req' \in Requests /\ calls' \in 0..MaxCalls /\ foreign' \in BOOLEAN
  BY DEF TypesInv
<1>4. track' \in 1..3
  BY DEF Forget
<1>5. fellBack' \in BOOLEAN /\ err' \in Errors /\ ~fellBack'
  BY Zenon DEF Forget, Errors
<1> QED
  BY <1>1, <1>2, <1>3, <1>4, <1>5, Zenon DEF Forget, TypesInv

LEMMA CrashInv ==
  ASSUME WorkflowInv, Crash
  PROVE  WorkflowInv'
<1>1. TypesInv /\ FilesInv /\ StrayInv /\ TracksInv /\ SelectionInv
  BY DEF WorkflowInv
<1>2. TypesInv' /\ sel' = <<>> /\ queue' = <<>> /\ ~fellBack'
  BY <1>1, Forgotten DEF Crash, NoResult, Errors
<1>3. \A p \in ToSet(done) : p \in Paths /\ IsIntermediate(p)
  <2>1. CASE done = <<>>
    BY <2>1 DEF ToSet
  <2>2. CASE done # <<>>
    <3>1. Merging /\ sel # <<>> /\ Len(done) \in 1..2
      BY <1>1, <2>2, Deferred DEF TracksInv, Merging
    <3> QED
      BY <1>1, <3>1, Deferred, Names
  <2> QED
    BY <2>1, <2>2
<1>4. \A p \in spared' : p \in Paths /\ IsIntermediate(p)
  BY <1>1, <1>3 DEF Crash, FilesInv
<1> QED
  BY <1>1, <1>2, <1>4, NothingSelected DEF Crash, NoResult

\* A call that ends without an answer of the strategies.
LEMMA NoVideoInv ==
  ASSUME WorkflowInv, NoVideo
  PROVE  WorkflowInv'
<1>1. TypesInv /\ FilesInv /\ StrayInv /\ SelectionInv
  BY DEF WorkflowInv
<1>2. result'.err = "error" /\ pc = "download" /\ pc' = "idle" /\ Forget
  BY DEF NoVideo, Finish
<1>3. TypesInv' /\ sel' = <<>> /\ queue' = <<>> /\ ~fellBack'
  BY <1>1, <1>2, Forgotten DEF NoVideo, Errors
<1>4. done = <<>>
  BY <1>1, <1>2 DEF SelectionInv
<1>5. ToSet(done) = {}
  BY <1>4 DEF ToSet
<1> QED
  BY <1>1, <1>2, <1>3, <1>4, <1>5, NothingSelected DEF NoVideo, FilesInv

\* What is returned as complete is, and of the itag that was forced.
LEMMA ReturnInv ==
  ASSUME WorkflowInv, Return
  PROVE  WorkflowInv'
<1>1. TypesInv /\ FilesInv /\ StrayInv /\ SelectionInv /\ OutputInv
  BY DEF WorkflowInv
<1> DEFINE of == ToSet(Itags(sel))
<1>2. /\ pc = "cleanup" /\ pc' = "idle" /\ Forget /\ done = <<>>
      /\ UNCHANGED <<req, done, files, calls, spared, foreign>>
      /\ result' = [err |-> err, path |-> Target, of |-> of]
  BY DEF Return, Finish, Target
<1>3. err \in Errors
  BY <1>1 DEF TypesInv
<1>4. result'.err = err /\ result'.path = Target /\ result'.of = of
  BY <1>2
<1>5. TypesInv' /\ sel' = <<>> /\ queue' = <<>> /\ ~fellBack'
  BY <1>1, <1>2, <1>3, <1>4, Forgotten
<1>6. ToSet(done) = {}
  BY <1>2 DEF ToSet
<1>7. ASSUME err = "none"
      PROVE  (Complete /\ ForcedItagHonoured)'
  <2>1. Target \in DOMAIN files /\ Whole(files[Target], of, foreign)
    BY <1>1, <1>2, <1>7 DEF OutputInv
  <2>2. files[Target] \in Contents
    BY <1>1, <2>1 DEF FilesInv, FilesOK, Fits
  <2>3. Complete'
    <3> DEFINE c == files[Target]
    <3>1. c \in Contents /\ Whole(c, of, foreign)
      BY <2>1, <2>2
    <3>2. files'[result'.path] = c /\ result'.of = of /\ foreign' = foreign
      BY <1>2, <1>4
    <3> HIDE DEF c, of
    <3> QED
      BY <3>1, <3>2 DEF Complete, Whole
  <2>4. ForcedItagHonoured'
    <3>1. opts' = opts
      BY <1>2 DEF opts
    <3>2. ASSUME opts.itag # 0
          PROVE  of = {opts.itag}
      <4>1. Len(sel) = 1 /\ sel[1].itag = opts.itag
        BY <1>1, <1>2, <3>2 DEF SelectionInv, Active
      <4>2. sel \in Seq(ToSet(formats)) /\ formats \in Seq(Formats)
        BY <1>1 DEF TypesInv
      <4>3. DOMAIN sel = 1..1
        BY <4>1, <4>2, LenProperties
      <4> QED
        BY <4>1, <4>3 DEF ToSet, Itags
    <3> QED
      BY <1>4, <3>1, <3>2 DEF ForcedItagHonoured
  <2> QED
    BY <2>3, <2>4
<1> QED
  BY <1>1, <1>2, <1>4, <1>5, <1>6, <1>7, NothingSelected DEF FilesInv

\* Download is given the name the command line predicts, or the caller's.
LEMMA BeginInv ==
  ASSUME WorkflowInv, NEW r \in Requests, NEW catalog \in Catalogs, Begin(r, catalog)
  PROVE  WorkflowInv'
<1>1. TypesInv /\ FilesInv /\ StrayInv /\ SelectionInv
  BY DEF WorkflowInv
<1>2. /\ pc = "idle" /\ calls < MaxCalls /\ calls' = calls + 1 /\ req' = r
      /\ UNCHANGED <<formats, sel, track, queue, fellBack, err, done, files, spared>>
      /\ foreign' = FALSE
  BY DEF Begin
<1>3. sel = <<>> /\ queue = <<>> /\ done = <<>> /\ ~fellBack
  BY <1>1, <1>2 DEF SelectionInv
<1>4. calls' \in 0..MaxCalls
  <2>1. calls \in 0..MaxCalls /\ MaxCalls \in Nat
    BY <1>1 DEF TypesInv
  <2> QED
    BY <1>2, <2>1
<1>5. \A n \in Seq(Int), b \in BOOLEAN : Path(n, b) \in Paths /\ IsOutput(Path(n, b))
  <2>1. <<>> \in Seq(Int)
    OBVIOUS
  <2> QED
    BY <2>1 DEF Path, Paths, IsOutput
<1>6. /\ Literal \in Paths /\ IsOutput(Literal)
      /\ NoPath \in Paths /\ IsOutput(NoPath)
  <2>1. <<>> \in Seq(Int) /\ TRUE \in BOOLEAN /\ FALSE \in BOOLEAN
    OBVIOUS
  <2> QED
    BY <1>5, <2>1, Zenon DEF Literal, NoPath
<1>7. ASSUME NEW s \in SelectFormats(catalog, BuildDownloadOptions(r))
      PROVE  Predicted(r, s) \in Paths /\ IsOutput(Predicted(r, s))
  <2>1. catalog \in Seq(Formats)
    OBVIOUS
  <2>2. s \in Seq(ToSet(catalog)) /\ s # <<>>
    BY <2>1, OptionsItag, ChosenFormats
  <2>3. s \in Seq(Formats)
    BY <2>1, <2>2, ListElements, SeqMonotonic
  <2>4. Itags(s) \in Seq(Int)
    BY <2>3, ItagsOf
  <2>5. <<s[1].itag>> \in Seq(Int)
    <3>1. s[1] \in Formats
      BY <2>2, <2>3, EmptySeq, ElementOfSeq
    <3>2. s[1].itag \in Int
      BY <3>1 DEF Formats
    <3> QED
      BY <3>2
  <2> DEFINE mp3 == BuildDownloadOptions(r).mode = "mp3"
  <2>6. \/ Predicted(r, s) = Literal
        \/ Predicted(r, s) = Path(Itags(s), FALSE)
        \/ Predicted(r, s) = Path(<<s[1].itag>>, mp3)
    BY DEF Predicted
  <2>7. mp3 \in BOOLEAN /\ FALSE \in BOOLEAN
    OBVIOUS
  <2> HIDE DEF mp3
  <2> QED
    BY <1>5, <1>6, <2>4, <2>5, <2>6, <2>7
<1>8. /\ path' \in Paths /\ IsOutput(path')
      /\ \/ pc' = "download" /\ UNCHANGED result
         \/ pc' = "idle" /\ result'.err \in Errors /\ result'.of = {}
  <2>1. CASE CallDownload(r)
    BY <1>6, <2>1 DEF CallDownload
  <2>2. CASE ProcessVideo(r, catalog)
    <3>1. CASE pc' = "download"
      BY <1>1, <1>2, <1>7, <2>2, <3>1 DEF ProcessVideo, TypesInv
    <3>2. CASE pc' # "download"
      <4>1. UNCHANGED <<pc, path>> /\ result' \in {NoResult, [NoResult EXCEPT !.err = "error"]}
        BY <2>2, <3>2 DEF ProcessVideo
      <4>2. result'.err \in Errors /\ result'.of = {}
        BY <4>1 DEF NoResult, Errors
      <4> QED
        BY <1>1, <1>2, <4>1, <4>2 DEF TypesInv
    <3> QED
      BY <3>1, <3>2
  <2> QED
    BY <2>1, <2>2 DEF Begin
<1>9. TypesInv'
  <2>1. result'.err \in Errors
    BY <1>1, <1>8 DEF TypesInv
  <2>2. pc' \in {"idle", "download"} /\ IsOutput(path)'
    BY <1>8 DEF IsOutput
  <2> QED
    BY <1>1, <1>2, <1>4, <1>8, <2>1, <2>2 DEF TypesInv
<1>10. ToSet(done) = {}
  BY <1>3 DEF ToSet
<1> QED
  BY <1>1, <1>2, <1>3, <1>8, <1>9, <1>10, NothingSelected DEF FilesInv

\* The strategy goes on, or is left.
LEMMA StrategyKept ==
  ASSUME WorkflowInv, Active, Active', track' \in 1..3, err' \in Errors, foreign' \in BOOLEAN,
         UNCHANGED <<req, path, formats, sel, queue, fellBack, result, calls>>,
         Selecting \/ ~Selecting'
  PROVE  TypesInv' /\ SelectionInv' /\ CipheredOnlyIfNeeded'
<1>1. TypesInv /\ SelectionInv /\ CipheredOnlyIfNeeded
  BY DEF WorkflowInv
<1>2. opts' = opts
  BY SameStrategy
<1>3. TypesInv'
  <2>1. IsOutput(path)'
    BY <1>1 DEF TypesInv, IsOutput
  <2> QED
    BY <1>1, <2>1 DEF TypesInv
<1>4. pc' \notin {"idle", "download"}
  BY DEF Active, Selecting
<1>5. SelectionInv'
  BY <1>1, <1>2, <1>4 DEF SelectionInv
<1>6. CipheredOnlyIfNeeded'
  BY <1>1, <1>2, Zenon DEF CipheredOnlyIfNeeded, Selecting
<1> QED
  BY <1>3, <1>5, <1>6

LEMMA ResolveInv ==
  ASSUME WorkflowInv, Resolve
  PROVE  WorkflowInv'
<1>1. TypesInv /\ FilesInv /\ TracksInv /\ StrayInv
  BY DEF WorkflowInv
<1>2. /\ pc = "resolve"
      /\ UNCHANGED <<req, path, formats, sel, track, queue, fellBack>>
      /\ UNCHANGED <<done, files, result, calls, spared, foreign>>
      /\ \/ pc' = "fetch" /\ err' = err
         \/ pc' = "cleanup" /\ err' \in {"challenge", "error"}
  BY DEF Resolve, Leave, locals
<1>3. track' \in 1..3 /\ err' \in Errors /\ foreign' \in BOOLEAN
  BY <1>1, <1>2 DEF TypesInv, Errors
<1>4. TypesInv' /\ SelectionInv' /\ CipheredOnlyIfNeeded'
  BY <1>2, <1>3, StrategyKept DEF Active, Selecting
<1>5. FilesInv' /\ StrayInv'
  BY <1>1, <1>2 DEF FilesInv, StrayInv
<1>6. /\ opts' = opts /\ Merging' = Merging
      /\ \A i : Intermediate(i)' = Intermediate(i)
  BY <1>2, SameStrategy
<1>7. TracksInv'
  <2>1. /\ Len(done) \in 0..2 /\ DOMAIN done = 1..Len(done)
        /\ done = [i \in 1..Len(done) |-> Intermediate(i)]
        /\ Merging \/ done = <<>>
        /\ Merging => track \in 1..2 /\ Len(done) = track - 1
        /\ \A i \in 1..Len(done) : done[i] \in DOMAIN files /\ files[done[i]].whole
    BY <1>1, <1>2, Deferred DEF TracksInv, Selecting
  <2>2. ToSet(done) \subseteq DOMAIN files
    BY <2>1 DEF ToSet
  <2>3. done' = [i \in 1..Len(done') |-> Intermediate(i)']
    BY <1>2, <1>6, <2>1, Zenon
  <2> QED
    BY <1>2, <1>6, <2>1, <2>2, <2>3 DEF TracksInv, Selecting
<1>8. OutputInv'
  BY <1>2 DEF OutputInv
<1> QED
  BY <1>4, <1>5, <1>7, <1>8 DEF WorkflowInv

\* A fallback format is tried: there is nothing to clean up.
LEMMA FallbackInv ==
  ASSUME WorkflowInv, Fallback
  PROVE  WorkflowInv'
<1>1. TypesInv /\ FilesInv /\ StrayInv /\ SelectionInv
  BY DEF WorkflowInv
<1> DEFINE left == Remaining
           f == Head(left)
<1>2. /\ pc = "cleanup" /\ done = <<>> /\ opts.itag = 0 /\ left # <<>>
      /\ pc' = "resolve" /\ fellBack' /\ queue' = Tail(left) /\ sel' = <<f>> /\ track' = 1
      /\ UNCHANGED <<req, path, formats, err, done, files, result, calls, spared, foreign>>
  BY DEF Fallback, FallsBack, Attempt
<1>3. /\ left \in Seq(ToSet(formats)) /\ ToSet(left) \subseteq ToSet(Fallbacks(formats))
      /\ formats \in Seq(Formats)
  BY <1>1, FallbackFormats DEF Remaining, TypesInv, SelectionInv
<1> HIDE DEF left
<1>4. /\ Tail(left) \in Seq(ToSet(formats)) /\ ToSet(Tail(left)) \subseteq ToSet(left)
      /\ f \in ToSet(left) /\ f \in ToSet(formats)
  <2>1. /\ Len(left) \in Nat \ {0} /\ DOMAIN left = 1..Len(left)
        /\ \A i \in 1..Len(left) : left[i] \in ToSet(formats)
    BY <1>2, <1>3, LenProperties, EmptySeq, ElementOfSeq
  <2>2. f = left[1] /\ 1 \in DOMAIN left
    BY <2>1
  <2>3. Tail(left) \in Seq(ToSet(formats)) /\ Len(Tail(left)) = Len(left) - 1
        /\ \A i \in 1..(Len(left) - 1) : Tail(left)[i] = left[i + 1]
    BY <1>2, <1>3, HeadTailProperties
  <2>4. DOMAIN Tail(left) = 1..(Len(left) - 1)
    BY <2>3, LenProperties
  <2>5. ToSet(Tail(left)) \subseteq ToSet(left)
    BY <2>1, <2>3, <2>4 DEF ToSet
  <2> QED
    BY <2>1, <2>2, <2>3, <2>5 DEF ToSet
<1> HIDE DEF f
<1>5. /\ sel' \in Seq(ToSet(formats)) /\ sel' # <<>> /\ Len(sel') = 1 /\ sel'[1] = f
      /\ ToSet(sel') = {f}
  BY <1>2, <1>4 DEF ToSet
<1>6. TypesInv'
  <2>1. IsOutput(path)' /\ Active'
    BY <1>1, <1>2 DEF TypesInv, IsOutput, Active, Selecting
  <2>2. fellBack' \in BOOLEAN
    BY Zenon DEF Fallback
  <2> QED
    BY <1>1, <1>2, <1>4, <1>5, <2>1, <2>2 DEF TypesInv
<1>7. FilesInv' /\ StrayInv'
  BY <1>1, <1>2 DEF FilesInv, StrayInv
<1>8. opts' = opts
  BY <1>2 DEF opts
<1>9. SelectionInv'
  BY <1>2, <1>3, <1>4, <1>5, <1>8 DEF SelectionInv
<1>10. TracksInv'
  <2>1. ~Merging' /\ Len(done') = 0
    BY <1>2, <1>5 DEF Merging
  <2>2. 1..0 = {} /\ done' = [i \in 1..0 |-> Intermediate(i)']
    BY <1>2
  <2> QED
    BY <1>2, <2>1, <2>2 DEF TracksInv, Selecting
<1>11. OutputInv'
  BY <1>2 DEF OutputInv
<1>12. CipheredOnlyIfNeeded'
  <2>1. f.ciphered => Muxed(Plain(formats)) = <<>>
    BY <1>3, <1>4, FallbackFormats
  <2> QED
    BY <1>2, <1>5, <2>1 DEF CipheredOnlyIfNeeded
<1> QED
  BY <1>6, <1>7, <1>9, <1>10, <1>11, <1>12 DEF WorkflowInv

\* What is attempted is of the formats on offer, by itself if its itag is forced,
\* and ciphered only if it must be.
Proper(list, o, a) ==
  /\ list \in Seq(Formats)
  /\ a \in Seq(ToSet(list)) /\ a # <<>> /\ Len(a) <= 2
  /\ o.itag # 0 => Len(a) = 1 /\ a[1].itag = o.itag
  /\ o.itag = 0 /\ (\E f \in ToSet(a) : f.ciphered) =>
       \E text \in {DefaultSelector(o)} \cup (IF Muxer = "none" THEN {"best"} ELSE {}) :
         \E i \in DOMAIN Syntax[text] :
           /\ \E g \in GroupPicks(list, Syntax[text][i]) : a \in {g, MergeTracks(g)}
           /\ GroupPicks(Plain(list), Syntax[text][i]) = {}

LEMMA Attempted ==
  ASSUME NEW catalog \in Catalogs, NEW o, o.itag \in Nat,
         NEW list, list = Playable(catalog),
         NEW s \in UNION {Mergeable(list, t) : t \in SelectFormats(list, o)},
         NEW a, a = IF Len(s) = 1 THEN s ELSE MergeTracks(s)
  PROVE  Proper(list, o, a)
<1>1. list \in Seq(Formats)
  BY PlayableElements
<1> DEFINE best == Options(0, "best", "best")
<1>2. best.itag = 0 /\ 0 \in Nat /\ DefaultSelector(best) = "best"
  BY DEF Options, DefaultSelector
<1> HIDE DEF best
<1>3. PICK t \in SelectFormats(list, o) : s \in Mergeable(list, t)
  OBVIOUS
<1>4. /\ t \in Seq(ToSet(list)) /\ t # <<>>
      /\ o.itag # 0 => Len(t) = 1 /\ t[1].itag = o.itag
  BY <1>1, ChosenFormats
<1>5. \/ s = t
      \/ s \in SelectFormats(list, best) /\ Muxer = "none" /\ Len(t) > 1
  BY <1>3 DEF Mergeable, best
<1>6. \/ s = t
      \/ s \in SelectFormats(list, best) /\ Muxer = "none" /\ o.itag = 0
  <2> DEFINE n == Len(t)
  <2>1. o.itag # 0 => n = 1
    BY <1>4
  <2>2. s = t \/ (s \in SelectFormats(list, best) /\ Muxer = "none" /\ n > 1)
    BY <1>5
  <2> HIDE DEF n
  <2> QED
    BY <2>1, <2>2
<1>7. s \in Seq(ToSet(list)) /\ s # <<>>
  BY <1>1, <1>2, <1>4, <1>6, ChosenFormats
<1>8. /\ MergeTracks(s) \in Seq(ToSet(s)) /\ MergeTracks(s) # <<>>
      /\ Len(MergeTracks(s)) \in 1..2
  BY <1>7, TracksOf
<1>9. ToSet(s) \subseteq ToSet(list)
  BY <1>7, ListElements
<1>10. MergeTracks(s) \in Seq(ToSet(list)) /\ ToSet(MergeTracks(s)) \subseteq ToSet(s)
  BY <1>8, <1>9, ListElements, SeqMonotonic
<1>11. /\ a \in {s, MergeTracks(s)} /\ ToSet(a) \subseteq ToSet(s)
       /\ a \in Seq(ToSet(list)) /\ a # <<>> /\ Len(a) <= 2
  <2>1. CASE Len(s) = 1
    <3>1. a = s
      BY <2>1
    <3>2. s \in Seq(ToSet(list)) /\ s # <<>> /\ Len(s) <= 2
      BY <1>7, <2>1
    <3> QED
      BY <3>1, <3>2
  <2>2. CASE Len(s) # 1
    <3> DEFINE m == MergeTracks(s)
    <3>1. a = m
      BY <2>2
    <3>2. /\ m \in Seq(ToSet(list)) /\ ToSet(m) \subseteq ToSet(s) /\ m # <<>>
          /\ Len(m) \in 1..2
      BY <1>8, <1>10
    <3>3. Len(m) <= 2
      <4> DEFINE n == Len(m)
      <4>1. n \in 1..2
        BY <3>2
      <4> HIDE DEF n
      <4>2. n <= 2
        BY <4>1
      <4> QED
        BY <4>2 DEF n
    <3> HIDE DEF m
    <3> QED
      BY <3>1, <3>2, <3>3 DEF m
  <2> QED
    BY <2>1, <2>2
<1>12. o.itag # 0 => Len(a) = 1 /\ a[1].itag = o.itag
  BY <1>4, <1>6
<1>13. ASSUME o.itag = 0, \E f \in ToSet(a) : f.ciphered
       PROVE  \E text \in {DefaultSelector(o)} \cup (IF Muxer = "none" THEN {"best"} ELSE {}) :
                \E i \in DOMAIN Syntax[text] :
                  /\ \E g \in GroupPicks(list, Syntax[text][i]) : a \in {g, MergeTracks(g)}
                  /\ GroupPicks(Plain(list), Syntax[text][i]) = {}
  <2>1. \E f \in ToSet(s) : f.ciphered
    BY <1>11, <1>13
  <2>2. \E p : /\ p.itag = 0 /\ s \in SelectFormats(list, p)
               /\ DefaultSelector(p) \in
                    {DefaultSelector(o)} \cup (IF Muxer = "none" THEN {"best"} ELSE {})
    BY <1>2, <1>3, <1>6, <1>13
  <2>3. PICK p : /\ p.itag = 0 /\ s \in SelectFormats(list, p)
                 /\ DefaultSelector(p) \in
                      {DefaultSelector(o)} \cup (IF Muxer = "none" THEN {"best"} ELSE {})
    BY <2>2
  <2> DEFINE text == DefaultSelector(p)
  <2>. p.itag \in Nat
    BY <2>3
  <2>4. text \in DOMAIN Syntax /\ \E u \in Select(list, text) : s \in Alternatives(list, text, u)
    BY <1>1, <2>3, ChosenFormats
  <2> HIDE DEF text
  <2>5. PICK i \in DOMAIN Syntax[text] :
          s \in GroupPicks(list, Syntax[text][i]) /\ GroupPicks(Plain(list), Syntax[text][i]) = {}
    BY <1>1, <2>1, <2>4, CipheredGroup
  <2> QED
    BY <1>11, <2>3, <2>5 DEF text
<1> QED
  BY <1>1, <1>11, <1>12, <1>13 DEF Proper

LEMMA ChooseInv ==
  ASSUME WorkflowInv, NEW catalog \in Catalogs, Choose(catalog)
  PROVE  WorkflowInv'
<1>1. TypesInv /\ FilesInv /\ StrayInv /\ SelectionInv
  BY DEF WorkflowInv
<1>2. pc = "download" /\ UNCHANGED <<req, done, files, calls, spared, foreign>>
  BY DEF Choose
<1>3. sel = <<>> /\ queue = <<>> /\ done = <<>> /\ ~fellBack
  BY <1>1, <1>2 DEF SelectionInv
<1>4. ToSet(done) = {}
  BY <1>3 DEF ToSet
<1> DEFINE list == Playable(catalog)
           choices == UNION {Mergeable(list, t) : t \in SelectFormats(list, opts)}
<1>5. \/ Finish("error", path, {})
      \/ \E s \in choices :
           /\ formats' = list
           /\ Attempt(IF Len(s) = 1 THEN s ELSE MergeTracks(s))
           /\ UNCHANGED <<path, queue, fellBack, err, result, recorded>>
  BY DEF Choose
<1>6. CASE Finish("error", path, {})
  <2>1. result'.err = "error" /\ pc' = "idle" /\ Forget
    BY <1>6 DEF Finish
  <2>2. TypesInv' /\ sel' = <<>> /\ queue' = <<>> /\ ~fellBack'
    BY <1>1, <1>2, <2>1, Forgotten DEF Errors
  <2> QED
    BY <1>1, <1>2, <1>3, <1>4, <2>1, <2>2, NothingSelected DEF FilesInv
<1>7. ASSUME NEW s \in choices, formats' = list,
             Attempt(IF Len(s) = 1 THEN s ELSE MergeTracks(s)),
             UNCHANGED <<path, queue, fellBack, err, result, recorded>>
      PROVE  WorkflowInv'
  <2> DEFINE a == IF Len(s) = 1 THEN s ELSE MergeTracks(s)
  <2>1. sel' = a /\ track' = 1 /\ pc' = "resolve"
    BY <1>7 DEF Attempt
  <2>2. opts.itag \in Nat
    BY <1>1, OptionsItag DEF opts, TypesInv
  <2>3. Proper(list, opts, a)
    <3>1. /\ list = Playable(catalog)
          /\ s \in UNION {Mergeable(list, t) : t \in SelectFormats(list, opts)}
          /\ a = IF Len(s) = 1 THEN s ELSE MergeTracks(s)
      OBVIOUS
    <3> HIDE DEF list, a, choices
    <3> QED
      BY <2>2, <3>1, Attempted
  <2>4. opts' = opts
    BY <1>2 DEF opts
  <2> HIDE DEF a, list
  <2>5. TypesInv'
    <3>1. IsOutput(path)' /\ Active'
      BY <1>1, <1>7, <2>1 DEF TypesInv, IsOutput, Active, Selecting
    <3>2. queue' \in Seq(ToSet(formats'))
      BY <1>3, <1>7
    <3> QED
      BY <1>1, <1>2, <1>7, <2>1, <2>3, <3>1, <3>2 DEF TypesInv, Proper
  <2>6. FilesInv' /\ StrayInv'
    BY <1>1, <1>2 DEF FilesInv, StrayInv
  <2>7. SelectionInv'
    BY <1>3, <1>7, <2>1, <2>3, <2>4 DEF SelectionInv, Proper
  <2>8. TracksInv'
    <3>1. Len(done') = 0
      BY <1>2, <1>3
    <3>2. 1..0 = {} /\ done' = [i \in 1..0 |-> Intermediate(i)']
      BY <1>2, <1>3
    <3> QED
      BY <2>1, <3>1, <3>2 DEF TracksInv, Selecting
  <2>9. OutputInv'
    BY <2>1 DEF OutputInv
  <2>10. CipheredOnlyIfNeeded'
    <3>1. ~fellBack' /\ sel' = a /\ formats' = list
      BY <1>3, <1>7, <2>1
    <3> QED
      BY <2>3, <2>4, <3>1, Zenon DEF CipheredOnlyIfNeeded, Proper
  <2> QED
    BY <2>5, <2>6, <2>7, <2>8, <2>9, <2>10 DEF WorkflowInv
<1> QED
  BY <1>5, <1>6, <1>7

\* The itags of what is fetched.
LEMMA SelectedItags ==
  ASSUME TypesInv, sel # <<>>
  PROVE  /\ ~Merging => ToSet(Itags(sel)) = {sel[1].itag}
         /\ Merging => ToSet(Itags(sel)) = {sel[1].itag, sel[2].itag}
<1>1. sel \in Seq(ToSet(formats)) /\ Len(sel) \in 1..2
  BY Names DEF TypesInv
<1>2. DOMAIN sel = 1..Len(sel)
  BY <1>1, LenProperties
<1> DEFINE n == Len(sel)
<1>3. DOMAIN sel = 1..n /\ (n = 1 \/ n = 2) /\ (Merging <=> n = 2)
  BY <1>1, <1>2 DEF Merging
<1> HIDE DEF n
<1>4. DOMAIN Itags(sel) = 1..n /\ \A i \in 1..n : Itags(sel)[i] = sel[i].itag
  BY <1>3 DEF Itags
<1>5. ToSet(Itags(sel)) = {sel[i].itag : i \in 1..n}
  BY <1>4 DEF ToSet
<1>6. 1..1 = {1} /\ 1..2 = {1, 2}
  OBVIOUS
<1> QED
  BY <1>3, <1>5, <1>6

LEMMA Transcoded ==
  ASSUME FilesOK(files), NEW f \in Formats, NEW p \in Paths, p.stage = <<>>,
         NEW t \in Transcodes(f, p)
  PROVE  /\ t[1] \in BOOLEAN /\ FilesOK(t[2])
         /\ Kept(files, t[2], {p})
         /\ t[1] => p \in DOMAIN t[2] /\ Whole(t[2][p], {f.itag}, FALSE)
<1> DEFINE itags == {f.itag}
<1>1. itags # {}
  OBVIOUS
<1>2. ASSUME NEW whole \in BOOLEAN
      PROVE  LET c == Holds(<<f>>, whole) IN Fits(p, c) /\ (whole => Whole(c, itags, FALSE))
  <2> DEFINE c == Holds(<<f>>, whole)
  <2>1. c \in Contents /\ c = [of |-> itags, whole |-> whole]
    BY OneFormat, Zenon
  <2> HIDE DEF c, itags
  <2>2. c.of = itags /\ c.whole = whole
    BY <2>1
  <2>3. Fits(p, c) /\ (whole => Whole(c, itags, FALSE))
    BY <1>1, <2>1, <2>2 DEF Fits, Whole
  <2> QED
    BY <2>3 DEF c
<1>3. \/ \E whole \in BOOLEAN : t = <<whole, Put(files, p, Holds(<<f>>, whole))>>
      \/ t = <<FALSE, files>>
  BY Zenon DEF Transcodes
<1>4. CASE \E whole \in BOOLEAN : t = <<whole, Put(files, p, Holds(<<f>>, whole))>>
  <2>1. PICK whole \in BOOLEAN : t = <<whole, Put(files, p, Holds(<<f>>, whole))>>
    BY <1>4
  <2> DEFINE c == Holds(<<f>>, whole)
             after == Put(files, p, c)
  <2>2. t[1] = whole /\ t[2] = after
    BY <2>1
  <2>3. Fits(p, c) /\ (whole => Whole(c, itags, FALSE))
    BY <1>2
  <2> HIDE DEF c
  <2>4. /\ DOMAIN after = DOMAIN files \cup {p} /\ after[p] = c
        /\ \A q \in DOMAIN files : q # p => after[q] = files[q]
    BY DEF Put
  <2>5. FilesOK(after)
    BY <2>3, PutFile
  <2> HIDE DEF after
  <2>6. Kept(files, after, {p})
    BY <2>4 DEF Kept
  <2> QED
    BY <2>2, <2>3, <2>4, <2>5, <2>6
<1>5. CASE t = <<FALSE, files>>
  BY <1>5 DEF Kept
<1> QED
  BY <1>3, <1>4, <1>5

\* A single format is fetched to the output, or transcoded into it.
LEMMA FetchSingleInv ==
  ASSUME WorkflowInv, FetchSingle
  PROVE  WorkflowInv'
<1>1. TypesInv /\ FilesInv /\ TracksInv /\ StrayInv /\ SelectionInv
  BY DEF WorkflowInv
<1> DEFINE f == sel[1]
           p == OutputOf(f)
<1>2. /\ pc = "fetch" /\ ~Merging /\ pc' = "cleanup"
      /\ UNCHANGED <<req, path, formats, sel, track, queue, fellBack>>
      /\ UNCHANGED <<done, result, recorded, calls, spared>>
  BY DEF FetchSingle, Leave
<1>3. PICK t \in (IF Transcoding THEN Transcodes(f, p) ELSE Transfers(f, p)) :
        /\ files' = t[2] /\ err' = (IF t[1] THEN "none" ELSE "error")
        /\ foreign' = (~Transcoding /\ TakesForeign(f, p))
  BY DEF FetchSingle, Leave
<1>4. /\ f \in Formats /\ p \in Paths /\ IsOutput(p) /\ sel # <<>> /\ Target = p
      /\ ToSet(Itags(sel)) = {f.itag}
  BY <1>1, <1>2, Names, SelectedItags DEF SelectionInv, Active, Selecting, Target
<1>5. /\ t[1] \in BOOLEAN /\ FilesOK(t[2])
      /\ Kept(files, t[2], {p, WritePath(p)})
      /\ t[1] => p \in DOMAIN t[2] /\ Whole(t[2][p], {f.itag}, foreign')
  <2> HIDE DEF f, p
  <2>1. p.stage = <<>> /\ ~p.part /\ FilesOK(files) /\ req \in Requests
    BY <1>1, <1>4 DEF IsOutput, FilesInv, TypesInv
  <2>2. CASE Transcoding
    <3>1. /\ t[1] \in BOOLEAN /\ FilesOK(t[2])
          /\ Kept(files, t[2], {p})
          /\ t[1] => p \in DOMAIN t[2] /\ Whole(t[2][p], {f.itag}, foreign')
      BY <1>3, <1>4, <2>1, <2>2, Transcoded
    <3>2. Kept(files, t[2], {p, WritePath(p)})
      BY <3>1 DEF Kept
    <3> QED
      BY <3>1, <3>2
  <2>3. CASE ~Transcoding
    <3>1. /\ t[1] \in BOOLEAN /\ FilesOK(t[2])
          /\ Kept(files, t[2], {p, WritePath(p)})
          /\ t[1] => p \in DOMAIN t[2] /\ Whole(t[2][p], {f.itag}, TakesForeign(f, p))
      BY <1>3, <1>4, <2>1, <2>3, Transferred
    <3>2. foreign' <=> TakesForeign(f, p)
      BY <1>3, <2>3
    <3> QED
      BY <3>1, <3>2, Zenon DEF Whole
  <2> QED
    BY <2>2, <2>3
<1> HIDE DEF f, p
<1>6. /\ Active /\ Active' /\ Selecting /\ err' \in Errors /\ track' \in 1..3
      /\ foreign' \in BOOLEAN
  BY <1>1, <1>2, <1>3 DEF Active, Selecting, Errors, TypesInv
<1>7. TypesInv' /\ SelectionInv' /\ CipheredOnlyIfNeeded'
  BY <1>2, <1>6, StrategyKept
<1>8. /\ Merging' = Merging /\ Target' = Target
  BY <1>2, SameStrategy
<1>9. FilesInv'
  BY <1>1, <1>2, <1>3, <1>5 DEF FilesInv
<1>10. done = <<>>
  BY <1>1, <1>2 DEF TracksInv
<1>11. TracksInv'
  <2>1. Len(done') = 0
    BY <1>2, <1>10
  <2>2. 1..0 = {} /\ done' = [i \in 1..0 |-> Intermediate(i)']
    BY <1>2, <1>10
  <2>3. ToSet(done') \subseteq DOMAIN files'
    BY <1>2, <1>10 DEF ToSet
  <2> QED
    BY <1>2, <2>1, <2>2, <2>3 DEF TracksInv, Selecting
<1>12. StrayInv'
  <2> SUFFICES ASSUME NEW q \in DOMAIN files', IsIntermediate(q), files'[q].whole
               PROVE  q \in spared \cup ToSet(done)
    BY <1>2 DEF StrayInv, IsIntermediate
  <2>1. q \in Paths
    BY <1>9 DEF FilesInv, FilesOK
  <2>2. q \notin {p, WritePath(p)}
    <3>1. WritePath(p).stage = <<>>
      BY <1>1, <1>4, PartFile DEF IsOutput, TypesInv
    <3> QED
      BY <1>4, <3>1 DEF IsOutput, IsIntermediate
  <2>3. q \in DOMAIN files /\ files[q] = files'[q]
    BY <1>3, <1>5, <2>1, <2>2 DEF Kept
  <2> QED
    BY <1>1, <2>3 DEF StrayInv
<1>13. OutputInv'
  <2> SUFFICES ASSUME err' = "none"
               PROVE  (Target \in DOMAIN files /\ Whole(files[Target], ToSet(Itags(sel)), foreign))'
    BY <1>2 DEF OutputInv
  <2>1. t[1]
    BY <1>3
  <2>2. p \in DOMAIN files' /\ Whole(files'[p], {f.itag}, foreign')
    BY <1>3, <1>5, <2>1
  <2>3. Itags(sel)' = Itags(sel)
    BY <1>2
  <2> QED
    BY <1>4, <1>8, <2>2, <2>3
<1> QED
  BY <1>7, <1>9, <1>11, <1>12, <1>13 DEF WorkflowInv

\* The two tracks have files of their own, none of them the merged file.
LEMMA TrackFiles ==
  ASSUME TypesInv, sel # <<>>, Merging
  PROVE  /\ \A i \in 1..2 :
              /\ Intermediate(i) \in Paths /\ IsIntermediate(Intermediate(i))
              /\ Intermediate(i).stage # <<>> /\ Intermediate(i).stage[2] = sel[i].itag
              /\ sel[i] \in Formats
              /\ Intermediate(i) # MergedPath
         /\ \A i, j \in 1..2 : i # j =>
              /\ Intermediate(j) # Intermediate(i)
              /\ Intermediate(j) # WritePath(Intermediate(i))
         /\ MergedPath \in Paths /\ IsOutput(MergedPath)
<1>1. \A i \in 1..2 :
        /\ Intermediate(i) \in Paths /\ IsIntermediate(Intermediate(i))
        /\ Intermediate(i).stage = <<i, sel[i].itag>>
  BY Names
<1>2. MergedPath \in Paths /\ IsOutput(MergedPath) /\ sel[1] \in Formats /\ sel[2] \in Formats
  BY Names
<1>3. \A i \in 1..2 : WritePath(Intermediate(i)).stage = Intermediate(i).stage
  BY <1>1, PartFile DEF IsIntermediate, TypesInv
<1>4. ASSUME NEW i \in 1..2
      PROVE  /\ Intermediate(i).stage # <<>> /\ Intermediate(i).stage[1] = i
             /\ Intermediate(i).stage[2] = sel[i].itag
  BY <1>1
<1>5. \A i \in 1..2 : sel[i] \in Formats
  BY <1>2
<1>6. \A i \in 1..2 : Intermediate(i) # MergedPath
  BY <1>2, <1>4 DEF IsOutput
<1>7. ASSUME NEW i \in 1..2, NEW j \in 1..2, i # j
      PROVE  Intermediate(j).stage # Intermediate(i).stage
  BY <1>4, <1>7
<1>8. ASSUME NEW i \in 1..2, NEW j \in 1..2, i # j
      PROVE  /\ Intermediate(j) # Intermediate(i)
             /\ Intermediate(j) # WritePath(Intermediate(i))
  BY <1>3, <1>7, <1>8
<1> QED
  BY <1>1, <1>2, <1>4, <1>5, <1>6, <1>8

LEMMA FetchTrackInv ==
  ASSUME WorkflowInv, FetchTrack
  PROVE  WorkflowInv'
<1>1. TypesInv /\ FilesInv /\ TracksInv /\ StrayInv /\ SelectionInv
  BY DEF WorkflowInv
<1> DEFINE p == Intermediate(track)
<1>2. /\ pc = "fetch" /\ Merging
      /\ UNCHANGED <<req, path, formats, sel, queue, fellBack>>
      /\ UNCHANGED <<result, recorded, calls, spared, foreign>>
  BY DEF FetchTrack, Leave
<1>3. PICK t \in Transfers(sel[track], p) :
        /\ files' = t[2]
        /\ IF t[1]
           THEN /\ done' = Append(done, p)
                /\ track' = track + 1
                /\ pc' = IF track = 2 THEN "merge" ELSE "resolve"
                /\ err' = err
           ELSE Leave("error") /\ UNCHANGED done
  BY DEF FetchTrack
<1>4. /\ sel # <<>> /\ track \in 1..2 /\ Len(done) = track - 1
      /\ \A i \in 1..Len(done) : done[i] \in DOMAIN files /\ files[done[i]].whole
  BY <1>1, <1>2 DEF SelectionInv, TracksInv, Active, Selecting
<1>5. /\ p \in Paths /\ IsIntermediate(p) /\ p.stage # <<>> /\ p.stage[2] = sel[track].itag
      /\ sel[track] \in Formats
  BY <1>1, <1>2, <1>4, TrackFiles
<1>6. /\ t[1] \in BOOLEAN /\ FilesOK(t[2])
      /\ Kept(files, t[2], {p, WritePath(p)})
      /\ t[1] => p \in DOMAIN t[2] /\ t[2][p].whole
      /\ ~t[1] => \/ Kept(files, t[2], {WritePath(p)}) /\ req.part
                  \/ Kept(files, t[2], {})
                  \/ p \in DOMAIN t[2] /\ ~t[2][p].whole /\ ~req.part
  <2> HIDE DEF p
  <2>1. ~p.part /\ FilesOK(files) /\ req \in Requests
    BY <1>1, <1>5 DEF IsIntermediate, FilesInv, TypesInv
  <2> QED
    BY <1>5, <2>1, Transferred
<1>7. /\ opts' = opts /\ Merging' = Merging /\ \A i : Intermediate(i)' = Intermediate(i)
  BY <1>2, SameStrategy
<1>8. /\ DOMAIN done = 1..(track - 1)
      /\ \A i \in 1..(track - 1) : done[i] = Intermediate(i)
      /\ ToSet(done) = {Intermediate(i) : i \in 1..(track - 1)}
  BY <1>1, <1>4, Deferred
\* The files done before are not touched.
<1>9. \A i \in 1..(track - 1) :
        Intermediate(i) \in DOMAIN files' /\ files'[Intermediate(i)].whole
  <2> SUFFICES ASSUME NEW i \in 1..(track - 1)
               PROVE  Intermediate(i) \in DOMAIN files' /\ files'[Intermediate(i)].whole
    OBVIOUS
  <2>1. i \in 1..2 /\ i # track
    BY <1>4
  <2>2. Intermediate(i) \in Paths /\ Intermediate(i) # p /\ Intermediate(i) # WritePath(p)
    BY <1>1, <1>2, <1>4, <2>1, TrackFiles
  <2>3. Intermediate(i) \in DOMAIN files /\ files[Intermediate(i)].whole
    BY <1>4, <1>8
  <2> QED
    BY <1>3, <1>6, <2>2, <2>3 DEF Kept
<1> HIDE DEF p
<1>10. FilesInv'
  BY <1>1, <1>2, <1>3, <1>6 DEF FilesInv
\* A complete intermediate file that was there already, or is p.
<1>11. ASSUME NEW q \in DOMAIN files', IsIntermediate(q), files'[q].whole
       PROVE  q \in spared \cup ToSet(done) \/ (t[1] /\ q = p)
  <2>1. q \in Paths
    BY <1>10 DEF FilesInv, FilesOK
  <2>2. req.part => WritePath(p).part
    BY <1>1, <1>5, PartFile DEF IsIntermediate, TypesInv
  <2>3. ~req.part => WritePath(p) = p
    BY <1>1, <1>5, PartFile DEF IsIntermediate, TypesInv
  <2>4. req.part => q # WritePath(p)
    BY <1>11, <2>2 DEF IsIntermediate
  <2>5. \/ t[1] /\ q = p
        \/ q \in DOMAIN files /\ files[q] = files'[q]
    BY <1>3, <1>6, <1>11, <2>1, <2>3, <2>4 DEF Kept
  <2> QED
    BY <1>1, <1>11, <2>5 DEF StrayInv
<1>12. CASE t[1]
  <2>1. /\ done' = Append(done, p) /\ track' = track + 1 /\ err' = err
        /\ \/ track = 2 /\ pc' = "merge"
           \/ track = 1 /\ pc' = "resolve"
    BY <1>3, <1>4, <1>12
  <2>2. TypesInv' /\ SelectionInv' /\ CipheredOnlyIfNeeded'
    <3>1. track' \in 1..3 /\ err' \in Errors /\ foreign' \in BOOLEAN
      BY <1>1, <1>2, <1>4, <2>1 DEF TypesInv
    <3> QED
      BY <1>2, <2>1, <3>1, StrategyKept DEF Active, Selecting
  <2>3. done' = [i \in 1..track |-> Intermediate(i)] /\ Len(done') = track
    <3>1. done = [i \in 1..(track - 1) |-> Intermediate(i)]
      BY <1>1, <1>4 DEF TracksInv
    <3>2. CASE track = 1
      <4>1. done = <<>> /\ done' = <<p>>
        BY <2>1, <3>1, <3>2
      <4> QED
        BY <3>2, <4>1 DEF p
    <3>3. CASE track = 2
      <4> DEFINE one == Intermediate(1)
                 two == Intermediate(2)
      <4>1. done = <<one>>
        BY <3>1, <3>3
      <4>2. p = two
        BY <3>3 DEF p
      <4> HIDE DEF one, two
      <4> DEFINE S == {one, two}
                 both == Append(<<one>>, two)
      <4>3. <<one>> \in Seq(S) /\ two \in S /\ Len(<<one>>) = 1
        OBVIOUS
      <4> HIDE DEF S
      <4>4. /\ both \in Seq(S) /\ Len(both) = 2
            /\ both[1] = one /\ both[2] = two
        BY <4>3, AppendProperties
      <4>5. done' = both
        BY <2>1, <4>1, <4>2
      <4> HIDE DEF both
      <4>6. DOMAIN both = 1..2 /\ both = [i \in 1..2 |-> both[i]]
        BY <4>4, LenProperties
      <4>7. \A i \in 1..2 : both[i] = Intermediate(i)
        BY <4>4 DEF one, two
      <4> QED
        BY <3>3, <4>4, <4>5, <4>6, <4>7
    <3> QED
      BY <1>4, <3>2, <3>3
  <2>4. DOMAIN done' = 1..track /\ \A i \in 1..track : done'[i] = Intermediate(i)
    BY <2>3
  <2>5. \A i \in 1..track : done'[i] \in DOMAIN files' /\ files'[done'[i]].whole
    <3>1. Intermediate(track) \in DOMAIN files' /\ files'[Intermediate(track)].whole
      BY <1>3, <1>6, <1>12 DEF p
    <3>2. \A i \in 1..track : i = track \/ i \in 1..(track - 1)
      BY <1>4
    <3> QED
      BY <1>9, <2>4, <3>1, <3>2
  <2>6. TracksInv'
    <3>1. Len(done') \in 0..2 /\ Merging'
      BY <1>2, <1>4, <1>7, <2>3
    <3>2. done' = [i \in 1..Len(done') |-> Intermediate(i)']
      BY <1>7, <2>3, Zenon
    <3>3. pc' # "cleanup" /\ (pc' = "merge" => Len(done') = 2)
      BY <2>1, <2>3
    <3>4. Selecting' => track' \in 1..2 /\ Len(done') = track' - 1
      BY <2>1, <2>3 DEF Selecting
    <3> QED
      BY <2>3, <2>5, <3>1, <3>2, <3>3, <3>4 DEF TracksInv
  <2>7. StrayInv'
    <3>1. ToSet(done) \cup {p} \subseteq ToSet(done')
      <4>1. \A i \in 1..(track - 1) : i \in 1..track
        BY <1>4
      <4>2. track \in 1..track
        BY <1>4
      <4> QED
        BY <1>8, <2>4, <4>1, <4>2 DEF ToSet, p
    <3> QED
      BY <1>2, <1>11, <3>1 DEF StrayInv, IsIntermediate
  <2>8. OutputInv'
    BY <2>1 DEF OutputInv
  <2> QED
    BY <1>10, <2>2, <2>6, <2>7, <2>8 DEF WorkflowInv
<1>13. CASE ~t[1]
  <2>1. pc' = "cleanup" /\ err' = "error" /\ track' = track /\ done' = done
    BY <1>3, <1>13 DEF Leave
  <2>2. TypesInv' /\ SelectionInv' /\ CipheredOnlyIfNeeded'
    <3>1. track' \in 1..3 /\ err' \in Errors /\ foreign' \in BOOLEAN
      BY <1>1, <1>2, <1>4, <2>1 DEF TypesInv, Errors
    <3> QED
      BY <1>2, <2>1, <3>1, StrategyKept DEF Active, Selecting
  <2>3. TracksInv'
    <3>1. ToSet(done') \subseteq DOMAIN files'
      BY <1>8, <1>9, <2>1
    <3>2. Len(done') \in 0..2 /\ Merging'
      BY <1>1, <1>2, <1>7, <2>1 DEF TracksInv
    <3>3. done' = [i \in 1..Len(done') |-> Intermediate(i)']
      <4>1. done = [i \in 1..Len(done) |-> Intermediate(i)]
        BY <1>1 DEF TracksInv
      <4> QED
        BY <1>7, <2>1, <4>1, Zenon
    <3> QED
      BY <2>1, <3>1, <3>2, <3>3 DEF TracksInv, Selecting
  <2>4. StrayInv'
    BY <1>2, <1>11, <1>13, <2>1 DEF StrayInv, IsIntermediate
  <2>5. OutputInv'
    BY <2>1 DEF OutputInv
  <2> QED
    BY <1>10, <2>2, <2>3, <2>4, <2>5 DEF WorkflowInv
<1> QED
  BY <1>6, <1>12, <1>13

\* The muxer merges two complete files, of the itags of their formats.
LEMMA MergeInv ==
  ASSUME WorkflowInv, Merge
  PROVE  WorkflowInv'
<1>1. TypesInv /\ FilesInv /\ TracksInv /\ StrayInv /\ SelectionInv
  BY DEF WorkflowInv
<1> DEFINE one == Intermediate(1)
           two == Intermediate(2)
           inputs == {files[Intermediate(i)] : i \in 1..2}
           output == [of |-> UNION {c.of : c \in inputs},
                      whole |-> \A c \in inputs : c.whole]
           merged == Put(files, MergedPath, output)
           itags == ToSet(Itags(sel))
<1>2. /\ pc = "merge" /\ pc' = "cleanup"
      /\ UNCHANGED <<req, path, formats, sel, track, queue, fellBack>>
      /\ UNCHANGED <<done, result, recorded, calls, spared, foreign>>
      /\ \/ /\ files' = IF Muxer = "ffmpeg" THEN Without(Without(merged, one), two) ELSE merged
            /\ err' = "none"
         \/ /\ files' \in {files, Put(files, MergedPath, [output EXCEPT !.whole = FALSE])}
            /\ err' = "error"
  BY Zenon DEF Merge, Leave
<1>3. Merging /\ Len(done) = 2 /\ sel # <<>>
  BY <1>1, <1>2 DEF TracksInv, SelectionInv, Active
<1>4. /\ DOMAIN done = 1..2 /\ ToSet(done) = {one, two}
      /\ one \in DOMAIN files /\ files[one].whole
      /\ two \in DOMAIN files /\ files[two].whole
  <2>1. /\ \A i \in 1..2 : done[i] = Intermediate(i)
        /\ DOMAIN done = 1..2
        /\ \A i \in 1..2 : done[i] \in DOMAIN files /\ files[done[i]].whole
    BY <1>1, <1>2, <1>3, Deferred DEF TracksInv, Selecting
  <2>2. ToSet(done) = {done[1], done[2]}
    BY <2>1 DEF ToSet
  <2> QED
    BY <2>1, <2>2
<1>5. /\ one \in Paths /\ one.stage # <<>> /\ one.stage[2] = sel[1].itag /\ one # MergedPath
      /\ two \in Paths /\ two.stage # <<>> /\ two.stage[2] = sel[2].itag /\ two # MergedPath
      /\ MergedPath \in Paths /\ IsOutput(MergedPath)
  BY <1>1, <1>3, TrackFiles
<1>6. itags = {sel[1].itag, sel[2].itag}
  BY <1>1, <1>3, SelectedItags
<1>7. /\ files[one] \in Contents /\ files[one].of = {sel[1].itag}
      /\ files[two] \in Contents /\ files[two].of = {sel[2].itag}
  BY <1>1, <1>4, <1>5 DEF FilesInv, FilesOK, Fits
<1>8. output = [of |-> itags, whole |-> TRUE] /\ itags \in SUBSET Int /\ itags # {}
  <2> DEFINE a == files[one]
             b == files[two]
  <2>1. inputs = {a, b}
    OBVIOUS
  <2>2. /\ a.of = {sel[1].itag} /\ b.of = {sel[2].itag} /\ a.whole /\ b.whole
        /\ a.of \in SUBSET Int /\ b.of \in SUBSET Int
    BY <1>4, <1>7 DEF Contents
  <2> HIDE DEF inputs, a, b
  <2>3. UNION {c.of : c \in inputs} = itags
    BY <1>6, <2>1, <2>2
  <2>4. (\A c \in inputs : c.whole) = TRUE
    BY <2>1, <2>2
  <2> QED
    BY <1>6, <2>2, <2>3, <2>4
<1> HIDE DEF output, itags
<1>9. /\ Fits(MergedPath, output) /\ output.of = itags /\ output.whole
      /\ LET c == [output EXCEPT !.whole = FALSE] IN Fits(MergedPath, c)
  <2>1. MergedPath.stage = <<>>
    BY <1>5 DEF IsOutput
  <2> QED
    BY <1>8, <2>1 DEF Fits, Contents
<1>10. FilesOK(files)
  BY <1>1 DEF FilesInv
<1>11. /\ FilesOK(merged) /\ DOMAIN merged = DOMAIN files \cup {MergedPath}
       /\ merged[MergedPath] = output
       /\ \A q \in DOMAIN files : q # MergedPath => merged[q] = files[q]
  <2>1. FilesOK(merged)
    BY <1>5, <1>9, <1>10, PutFile
  <2> QED
    BY <2>1 DEF Put
<1>12. /\ FilesOK(files') /\ DOMAIN files' \subseteq DOMAIN files \cup {MergedPath}
       /\ \A q \in DOMAIN files' : q # MergedPath => files'[q] = files[q]
       /\ err' = "none" => MergedPath \in DOMAIN files' /\ files'[MergedPath] = output
       /\ DOMAIN files \subseteq DOMAIN files' \/ (Muxer = "ffmpeg" /\ err' = "none")
  <2>1. CASE files' = merged /\ err' = "none"
    BY <1>11, <2>1
  <2>2. CASE files' = Without(Without(merged, one), two) /\ Muxer = "ffmpeg" /\ err' = "none"
    <3> DEFINE rest == Without(merged, one)
    <3> HIDE DEF merged
    <3>1. /\ FilesOK(rest) /\ DOMAIN rest = DOMAIN merged \ {one}
          /\ \A q \in DOMAIN merged : q # one => rest[q] = merged[q]
      BY <1>11, WithoutFile
    <3>2. files' = Without(rest, two)
      BY <2>2
    <3> HIDE DEF rest
    <3>3. /\ FilesOK(files') /\ DOMAIN files' = DOMAIN rest \ {two}
          /\ \A q \in DOMAIN rest : q # two => files'[q] = rest[q]
      <4>1. FilesOK(files')
        BY <3>1, <3>2, WithoutFile
      <4> QED
        BY <3>2, <4>1 DEF Without
    <3> HIDE DEF one, two
    <3> QED
      BY <1>5, <1>11, <2>2, <3>1, <3>3
  <2>3. CASE files' = files /\ err' = "error"
    BY <1>10, <2>3
  <2>4. CASE files' = Put(files, MergedPath, [output EXCEPT !.whole = FALSE]) /\ err' = "error"
    <3> DEFINE c == [output EXCEPT !.whole = FALSE]
    <3>1. Fits(MergedPath, c)
      BY <1>9
    <3> HIDE DEF c
    <3>2. files' = Put(files, MergedPath, c)
      BY <2>4 DEF c
    <3>3. FilesOK(files')
      BY <1>5, <1>10, <3>1, <3>2, PutFile
    <3>4. /\ DOMAIN files' = DOMAIN files \cup {MergedPath}
          /\ \A q \in DOMAIN files : q # MergedPath => files'[q] = files[q]
      BY <3>2 DEF Put
    <3> QED
      BY <2>4, <3>3, <3>4
  <2> QED
    BY <1>2, <2>1, <2>2, <2>3, <2>4
<1> HIDE DEF merged, inputs, one, two
<1>13. /\ opts' = opts /\ Merging' = Merging /\ Target' = Target
       /\ \A i : Intermediate(i)' = Intermediate(i)
  BY <1>2, SameStrategy
<1>14. TypesInv' /\ SelectionInv' /\ CipheredOnlyIfNeeded'
  <2>1. track' \in 1..3 /\ err' \in Errors /\ foreign' \in BOOLEAN
    BY <1>1, <1>2 DEF TypesInv, Errors
  <2> QED
    BY <1>2, <2>1, StrategyKept DEF Active, Selecting
<1>15. FilesInv'
  BY <1>1, <1>2, <1>12 DEF FilesInv
<1>16. TracksInv'
  <2>1. done' = [i \in 1..Len(done') |-> Intermediate(i)']
    <3>1. done = [i \in 1..Len(done) |-> Intermediate(i)]
      BY <1>1 DEF TracksInv
    <3> QED
      BY <1>2, <1>13, <3>1, Zenon
  <2>2. ToSet(done) \subseteq DOMAIN files
    BY <1>4
  <2> QED
    BY <1>2, <1>3, <1>12, <1>13, <2>1, <2>2 DEF TracksInv, Selecting
<1>17. StrayInv'
  <2> SUFFICES ASSUME NEW q \in DOMAIN files', IsIntermediate(q), files'[q].whole
               PROVE  q \in spared \cup ToSet(done)
    BY <1>2 DEF StrayInv, IsIntermediate
  <2>1. q # MergedPath
    BY <1>5 DEF IsOutput, IsIntermediate
  <2>2. q \in DOMAIN files /\ files[q] = files'[q]
    BY <1>12, <2>1
  <2> QED
    BY <1>1, <2>2 DEF StrayInv
<1>18. OutputInv'
  <2> SUFFICES ASSUME err' = "none"
               PROVE  (Target \in DOMAIN files /\ Whole(files[Target], ToSet(Itags(sel)), foreign))'
    BY <1>2 DEF OutputInv
  <2>1. Target = MergedPath /\ Itags(sel)' = Itags(sel)
    BY <1>2, <1>3 DEF Target
  <2>2. Whole(output, itags, foreign)
    BY <1>9 DEF Whole
  <2> QED
    BY <1>2, <1>12, <1>13, <2>1, <2>2 DEF itags
<1> QED
  BY <1>14, <1>15, <1>16, <1>17, <1>18 DEF WorkflowInv

\* A deferred cleanup: the last file is removed, or spared.
LEMMA CleanupInv ==
  ASSUME WorkflowInv, Cleanup
  PROVE  WorkflowInv'
<1>1. TypesInv /\ FilesInv /\ TracksInv /\ StrayInv /\ SelectionInv /\ OutputInv
  BY DEF WorkflowInv
<1> DEFINE p == Last(done)
           n == Len(done)
<1>2. /\ pc = "cleanup" /\ pc' = "cleanup" /\ done # <<>> /\ done' = Front(done)
      /\ UNCHANGED <<req, path, formats, sel, track, queue, fellBack, err>>
      /\ UNCHANGED <<result, recorded, calls, foreign>>
      /\ \/ files' = Without(files, p) /\ spared' = spared \ {p}
         \/ files' = files /\ spared' = spared \cup {p}
  BY DEF Cleanup, locals
<1>3. /\ Merging /\ sel # <<>> /\ n \in 1..2
      /\ \A i \in 1..n : done[i] = Intermediate(i)
      /\ ToSet(done) = {Intermediate(i) : i \in 1..n}
      /\ DOMAIN done = 1..n /\ done = [i \in 1..n |-> Intermediate(i)]
  <2>1. n \in 0..2 /\ (done = <<>> <=> n = 0)
    BY <1>1, Deferred
  <2>2. Merging /\ sel # <<>> /\ done = [i \in 1..n |-> Intermediate(i)]
    BY <1>1, <1>2 DEF TracksInv, SelectionInv, Active
  <2> HIDE DEF n
  <2>3. n \in 1..2
    BY <1>2, <2>1
  <2> QED
    BY <1>1, <2>2, <2>3, Deferred DEF n
<1>4. p = Intermediate(n)
  BY <1>3 DEF Last
<1>5. done' = [i \in 1..(n - 1) |-> Intermediate(i)] /\ Len(done') = n - 1
  <2>1. done' = [i \in 1..(n - 1) |-> done[i]]
    BY <1>2 DEF Front
  <2> HIDE DEF n
  <2>2. n - 1 \in Nat /\ \A i \in 1..(n - 1) : i \in 1..n
    BY <1>3
  <2>3. done' = [i \in 1..(n - 1) |-> Intermediate(i)]
    BY <1>3, <2>1, <2>2
  <2>4. Len(done') = n - 1
    BY <2>2, <2>3
  <2> QED
    BY <2>3, <2>4
<1> HIDE DEF p, n
<1>6. n - 1 \in 0..2 /\ \A i \in 1..(n - 1) : i \in 1..n /\ i # n /\ i \in 1..2
  BY <1>3
<1>7. ToSet(done') = {Intermediate(i) : i \in 1..(n - 1)}
  BY <1>5, <1>6 DEF ToSet
<1>8. ToSet(done) \subseteq ToSet(done') \cup {p}
  <2>1. \A i \in 1..n : i = n \/ i \in 1..(n - 1)
    BY <1>3
  <2> QED
    BY <1>3, <1>4, <1>7, <2>1
<1>9. \A q \in ToSet(done') : q # p /\ q \in ToSet(done)
  <2>1. \A i \in 1..(n - 1) : Intermediate(i) # Intermediate(n)
    BY <1>1, <1>3, <1>6, TrackFiles
  <2> QED
    BY <1>3, <1>4, <1>6, <1>7, <2>1
<1>10. p \in Paths /\ IsIntermediate(p)
  BY <1>1, <1>3, <1>4, TrackFiles
<1>11. /\ FilesOK(files') /\ DOMAIN files' \subseteq DOMAIN files
       /\ \A q \in DOMAIN files : q # p => q \in DOMAIN files' /\ files'[q] = files[q]
       /\ p \in DOMAIN files' => p \in spared' /\ files'[p] = files[p]
       /\ \A q \in spared : q # p => q \in spared'
       /\ \A q \in spared' : q \in spared \/ q = p
  <2>1. FilesOK(files)
    BY <1>1 DEF FilesInv
  <2>2. CASE files' = Without(files, p) /\ spared' = spared \ {p}
    BY <2>1, <2>2, WithoutFile
  <2>3. CASE files' = files /\ spared' = spared \cup {p}
    BY <2>1, <2>3
  <2> QED
    BY <1>2, <2>2, <2>3
<1>12. /\ opts' = opts /\ Merging' = Merging /\ Target' = Target
       /\ \A i : Intermediate(i)' = Intermediate(i)
  BY <1>2, SameStrategy
<1>13. TypesInv' /\ SelectionInv' /\ CipheredOnlyIfNeeded'
  <2>1. track' \in 1..3 /\ err' \in Errors /\ foreign' \in BOOLEAN
    BY <1>1, <1>2 DEF TypesInv
  <2> QED
    BY <1>2, <2>1, StrategyKept DEF Active, Selecting
<1>14. FilesInv'
  BY <1>1, <1>10, <1>11 DEF FilesInv, IsIntermediate
<1>15. TracksInv'
  <2>1. done' = [i \in 1..Len(done') |-> Intermediate(i)'] /\ Len(done') \in 0..2
    BY <1>5, <1>6, <1>12, Zenon
  <2>2. ToSet(done) \subseteq DOMAIN files \/ (Muxer = "ffmpeg" /\ err = "none")
    BY <1>1, <1>2 DEF TracksInv
  <2>3. ToSet(done') \subseteq DOMAIN files' \/ (Muxer = "ffmpeg" /\ err' = "none")
    BY <1>2, <1>9, <1>11, <2>2
  <2> QED
    BY <1>2, <1>3, <1>12, <2>1, <2>3 DEF TracksInv, Selecting
<1>16. StrayInv'
  <2> SUFFICES ASSUME NEW q \in DOMAIN files', IsIntermediate(q), files'[q].whole
               PROVE  q \in spared' \cup ToSet(done')
    BY DEF StrayInv, IsIntermediate
  <2>1. CASE q = p
    BY <1>11, <2>1
  <2>2. CASE q # p
    <3>1. q \in DOMAIN files /\ files'[q] = files[q]
      BY <1>11, <2>2
    <3>2. q \in spared \cup ToSet(done)
      BY <1>1, <3>1 DEF StrayInv
    <3> QED
      BY <1>8, <1>11, <2>2, <3>2
  <2> QED
    BY <2>1, <2>2
<1>17. OutputInv'
  <2>1. p # Target
    BY <1>1, <1>3, <1>10, Names DEF IsOutput, IsIntermediate
  <2>2. Itags(sel)' = Itags(sel)
    BY <1>2
  <2>3. err = "none" => Target \in DOMAIN files /\ Whole(files[Target], ToSet(Itags(sel)), foreign)
    BY <1>1, <1>2 DEF OutputInv
  <2>4. err' = "none" => (Target \in DOMAIN files /\ Whole(files[Target], ToSet(Itags(sel)), foreign))'
    BY <1>2, <1>11, <1>12, <2>1, <2>2, <2>3
  <2> QED
    BY <1>2, <2>4 DEF OutputInv
<1> QED
  BY <1>13, <1>14, <1>15, <1>16, <1>17 DEF WorkflowInv

LEMMA StutterInv ==
  ASSUME WorkflowInv, UNCHANGED vars
  PROVE  WorkflowInv'
<1>1. /\ UNCHANGED <<pc, req, path, formats, sel, track, queue, fellBack, err>>
      /\ UNCHANGED <<done, files, result, recorded, calls, spared, foreign>>
  BY DEF vars, locals
<1>2. /\ opts' = opts /\ Merging' = Merging /\ Target' = Target
      /\ \A i : Intermediate(i)' = Intermediate(i)
  BY <1>1, SameStrategy
<1>3. Active' = Active /\ Selecting' = Selecting
  BY <1>1 DEF Active, Selecting
<1>4. TypesInv' /\ FilesInv' /\ StrayInv'
  BY <1>1, <1>3 DEF WorkflowInv, TypesInv, IsOutput, FilesInv, IsIntermediate, StrayInv
<1>5. SelectionInv' /\ CipheredOnlyIfNeeded'
  BY <1>1, <1>2, <1>3, Zenon DEF WorkflowInv, SelectionInv, CipheredOnlyIfNeeded
<1>6. TracksInv'
  <2>1. done' = [i \in 1..Len(done') |-> Intermediate(i)']
    <3>1. done = [i \in 1..Len(done) |-> Intermediate(i)]
      BY DEF WorkflowInv, TracksInv
    <3> QED
      BY <1>1, <1>2, <3>1, Zenon
  <2> QED
    BY <1>1, <1>2, <1>3, <2>1 DEF WorkflowInv, TracksInv
<1>7. OutputInv'
  <2>1. (Complete /\ ForcedItagHonoured)' <=> (Complete /\ ForcedItagHonoured)
    BY <1>1, <1>2 DEF Complete, ForcedItagHonoured
  <2>2. Itags(sel)' = Itags(sel)
    BY <1>1
  <2> QED
    BY <1>1, <1>2, <2>1, <2>2 DEF WorkflowInv, OutputInv
<1> QED
  BY <1>4, <1>5, <1>6, <1>7 DEF WorkflowInv

-----------------------------------------------------------------------------
(* The theorems *)

\* In every reachable state of the workflow its invariant holds: the cleanups
\* deferred are those of the tracks that are complete, and what a strategy has
\* written is whole (client/download.go, downloadAndMerge and downloadSingle).
THEOREM WorkflowInvariant == Spec => []WorkflowInv
<1>1. Init => WorkflowInv
  BY InitInv
<1>2. WorkflowInv /\ [Next]_vars => WorkflowInv'
  <2> SUFFICES ASSUME WorkflowInv, [Next]_vars
               PROVE  WorkflowInv'
    OBVIOUS
  <2>1. ASSUME NEW r \in Requests, NEW catalog \in Catalogs, Begin(r, catalog)
        PROVE  WorkflowInv'
    BY <2>1, BeginInv
  <2>2. ASSUME NEW catalog \in Catalogs, Choose(catalog)
        PROVE  WorkflowInv'
    BY <2>2, ChooseInv
  <2>3. CASE NoVideo
    BY <2>3, NoVideoInv
  <2>4. CASE Resolve
    BY <2>4, ResolveInv
  <2>5. CASE FetchSingle
    BY <2>5, FetchSingleInv
  <2>6. CASE FetchTrack
    BY <2>6, FetchTrackInv
  <2>7. CASE Merge
    BY <2>7, MergeInv
  <2>8. CASE Cleanup
    BY <2>8, CleanupInv
  <2>9. CASE Fallback
    BY <2>9, FallbackInv
  <2>10. CASE Return
    BY <2>10, ReturnInv
  <2>11. CASE Crash
    BY <2>11, CrashInv
  <2>12. CASE UNCHANGED vars
    BY <2>12, StutterInv
  <2> QED
    BY <2>1, <2>2, <2>3, <2>4, <2>5, <2>6, <2>7, <2>8, <2>9, <2>10, <2>11, <2>12 DEF Next
<1> QED
  BY <1>1, <1>2, PTL DEF Spec

\* No complete intermediate file outlives its call unless it was to be kept,
\* could not be removed or the process died, whichever step of downloadAndMerge
\* fails and whatever is tried afterwards.
THEOREM NoIntermediateLeft == Spec => []NoStrayIntermediate
<1>1. WorkflowInv => NoStrayIntermediate
  <2> SUFFICES ASSUME WorkflowInv, pc = "idle"
               PROVE  \A p \in DOMAIN files :
                        IsIntermediate(p) /\ files[p].whole => p \in spared
    BY DEF NoStrayIntermediate
  <2>1. done = <<>>
    BY DEF WorkflowInv, SelectionInv
  <2>2. ToSet(done) = {}
    BY <2>1 DEF ToSet
  <2> QED
    BY <2>2 DEF WorkflowInv, StrayInv
<1> QED
  BY <1>1, WorkflowInvariant, PTL

\* What Download reports as complete is the whole of the formats it names, of
\* the itag that was asked for, unless a resumed transfer took up another
\* format's bytes under the same name.
THEOREM SuccessesAreWhole == Spec => []SuccessIsWhole
<1>1. WorkflowInv => TypeOK
  <2> SUFFICES ASSUME WorkflowInv
               PROVE  TypeOK
    OBVIOUS
  <2>1. TypesInv /\ FilesInv /\ TracksInv /\ SelectionInv
    BY DEF WorkflowInv
  <2>2. pc \in {"idle", "download", "resolve", "fetch", "merge", "cleanup"}
    BY <2>1 DEF TypesInv, Active, Selecting
  <2>3. Len(sel) \in 0..2 /\ {sel, queue} \subseteq Seq(ToSet(formats))
    <3>1. sel \in Seq(ToSet(formats)) /\ queue \in Seq(ToSet(formats)) /\ Len(sel) <= 2
      BY <2>1 DEF TypesInv
    <3> DEFINE n == Len(sel)
    <3>2. n \in Nat /\ n <= 2
      BY <3>1, LenProperties
    <3> HIDE DEF n
    <3>3. n \in 0..2
      BY <3>2
    <3> QED
      BY <3>1, <3>3 DEF n
  <2>4. \A p \in DOMAIN files : files[p] \in Contents
    BY <2>1 DEF FilesInv, FilesOK, Fits
  <2>5. \A p \in ToSet(done) \cup spared : IsIntermediate(p)
    <3>1. ASSUME NEW p \in ToSet(done)
          PROVE  IsIntermediate(p)
      <4>1. done # <<>>
        BY DEF ToSet
      <4>2. Merging
        BY <2>1, <4>1 DEF TracksInv
      <4>3. sel # <<>>
        BY <4>2 DEF Merging
      <4>4. PICK i \in 1..Len(done) : p = Intermediate(i)
        BY <2>1, Deferred
      <4>5. i \in 1..2
        BY <2>1, Deferred
      <4> QED
        BY <2>1, <4>2, <4>3, <4>4, <4>5, TrackFiles
    <3> QED
      BY <2>1, <3>1 DEF FilesInv
  <2>6. \/ ToSet(done) \subseteq DOMAIN files
        \/ pc = "cleanup" /\ Muxer = "ffmpeg" /\ err = "none"
    <3>1. CASE pc \in {"idle", "download"}
      <4>1. done = <<>>
        BY <2>1, <3>1 DEF SelectionInv
      <4> QED
        BY <4>1 DEF ToSet
    <3>2. CASE Selecting \/ pc = "merge"
      <4>1. /\ DOMAIN done = 1..Len(done)
            /\ \A i \in 1..Len(done) : done[i] \in DOMAIN files
        BY <2>1, <3>2, Deferred DEF TracksInv
      <4> QED
        BY <4>1 DEF ToSet
    <3>3. CASE pc = "cleanup"
      BY <2>1, <3>3 DEF TracksInv
    <3> QED
      BY <2>2, <3>1, <3>2, <3>3 DEF Selecting
  <2> QED
    BY <2>1, <2>2, <2>3, <2>4, <2>5, <2>6 DEF TypeOK, TypesInv
<1>2. WorkflowInv => SuccessIsWhole
  BY <1>1 DEF SuccessIsWhole, WorkflowInv, OutputInv
<1> QED
  BY <1>2, WorkflowInvariant, PTL

\* A ciphered format is tried only where no plain one would do
\* (client/format_selection.go and downloadFallbackSingle).
THEOREM CipheredFormatsNeeded == Spec => []CipheredOnlyIfNeeded
<1>1. WorkflowInv => CipheredOnlyIfNeeded
  BY DEF WorkflowInv
<1> QED
  BY <1>1, WorkflowInvariant, PTL

\* With part files an output changes only into a complete file, but for a merge,
\* a transcoder and another format's bytes that are resumed.
THEOREM OutputsAppear == Spec => OutputsAppearWhole
<1> DEFINE Appears ==
      \A p \in DOMAIN files' :
        IsOutput(p) /\ (p \in DOMAIN files => files'[p] # files[p]) =>
          \/ files'[p].whole
          \/ ~req.part
          \/ pc = "merge"
          \/ Transcoding
          \/ TakesForeign(sel[1], p) /\ files'[p].of # {sel[1].itag}
<1>1. WorkflowInv /\ [Next]_vars => [Appears]_vars
  <2> SUFFICES ASSUME WorkflowInv, Next
               PROVE  Appears
    BY Zenon
  <2>1. TypesInv /\ FilesInv /\ TracksInv /\ SelectionInv
    BY DEF WorkflowInv
  <2>2. CASE files' = files
    BY <2>2
  <2>3. CASE Merge
    BY <2>3, Zenon DEF Merge
  <2>4. CASE Cleanup
    <3>1. files' = files \/ files' = Without(files, Last(done))
      BY <2>4 DEF Cleanup
    <3>2. \A p \in DOMAIN files' : p \in DOMAIN files /\ files'[p] = files[p]
      BY <3>1 DEF Without
    <3> QED
      BY <3>2
  <2>5. CASE FetchSingle
    <3> SUFFICES ASSUME NEW q \in DOMAIN files', IsOutput(q), req.part, ~Transcoding,
                        q \in DOMAIN files => files'[q] # files[q]
                 PROVE  \/ files'[q].whole
                        \/ TakesForeign(sel[1], q) /\ files'[q].of # {sel[1].itag}
      OBVIOUS
    <3> DEFINE f == sel[1]
               p == OutputOf(f)
    <3>1. PICK t \in Transfers(f, p) : files' = t[2]
      BY <2>5 DEF FetchSingle
    <3>2. sel # <<>>
      BY <2>1, <2>5 DEF FetchSingle, SelectionInv, Active, Selecting
    <3>3. f \in Formats /\ p \in Paths /\ IsOutput(p)
      BY <2>1, <3>2, Names
    <3>4. p.stage = <<>> /\ ~p.part /\ FilesOK(files) /\ req \in Requests
      BY <2>1, <3>3 DEF IsOutput, FilesInv, TypesInv
    <3> HIDE DEF p, f
    <3>5. /\ t[1] \in BOOLEAN /\ FilesOK(t[2])
          /\ Kept(files, t[2], {p, WritePath(p)})
          /\ t[1] => p \in DOMAIN t[2] /\ Whole(t[2][p], {f.itag}, TakesForeign(f, p))
          /\ ~t[1] => \/ Kept(files, t[2], {WritePath(p)}) /\ req.part
                      \/ Kept(files, t[2], {})
                      \/ p \in DOMAIN t[2] /\ ~t[2][p].whole /\ ~req.part
      BY <3>1, <3>3, <3>4, Transferred
    <3>6. q \in Paths /\ q # WritePath(p)
      <4>1. WritePath(p).part
        BY <3>3, <3>4, PartFile
      <4> QED
        BY <3>1, <3>5, <4>1 DEF FilesOK, IsOutput
    <3>7. q = p /\ t[1]
      BY <3>1, <3>5, <3>6 DEF Kept
    <3> QED
      BY <3>1, <3>5, <3>7 DEF Whole, f
  <2>6. CASE FetchTrack
    <3> SUFFICES ASSUME NEW q \in DOMAIN files', IsOutput(q)
                 PROVE  q \in DOMAIN files /\ files'[q] = files[q]
      OBVIOUS
    <3> DEFINE p == Intermediate(track)
    <3>1. PICK t \in Transfers(sel[track], p) : files' = t[2]
      BY <2>6 DEF FetchTrack
    <3>2. sel # <<>> /\ Merging /\ track \in 1..2
      BY <2>1, <2>6 DEF FetchTrack, SelectionInv, TracksInv, Active, Selecting
    <3>3. /\ p \in Paths /\ IsIntermediate(p) /\ p.stage # <<>>
          /\ p.stage[2] = sel[track].itag /\ sel[track] \in Formats
      BY <2>1, <3>2, TrackFiles
    <3> HIDE DEF p
    <3>4. ~p.part /\ FilesOK(files) /\ req \in Requests
      BY <2>1, <3>3 DEF IsIntermediate, FilesInv, TypesInv
    <3>5. FilesOK(t[2]) /\ Kept(files, t[2], {p, WritePath(p)})
      BY <3>1, <3>3, <3>4, Transferred
    <3>6. q \in Paths /\ q # p /\ q # WritePath(p)
      <4>1. WritePath(p).stage # <<>>
        BY <3>3, <3>4, PartFile
      <4> QED
        BY <3>1, <3>3, <3>5, <4>1 DEF FilesOK, IsOutput
    <3> QED
      BY <3>1, <3>5, <3>6 DEF Kept
  <2> QED
    BY <2>2, <2>3, <2>4, <2>5, <2>6
       DEF Next, Begin, Choose, NoVideo, Resolve, Fallback, Return, Crash
<1> QED
  BY <1>1, WorkflowInvariant, PTL DEF Spec, OutputsAppearWhole
=============================================================================
