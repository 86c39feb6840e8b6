------------------------- MODULE Resolution_proofs -------------------------
(***************************************************************************)
(* Proofs about Resolution, for any documents, configs, depth and edits:   *)
(* a resolve gives what the reference means, and the participants it       *)
(* records decide what resolving again would give.                         *)
(*                                                                         *)
(* The recursion of the code is a stack of frames, the meaning a recursion *)
(* over the number of references left to follow.  The invariant (ResInv)   *)
(* relates the two: what a frame holds of its sources is what they mean    *)
(* (StackMeans), not only now but in every later state of the configs in   *)
(* which all that was consulted still is so (MeansInv).  A cycle means     *)
(* nothing, because what means something does with a least number of       *)
(* references (NoCycle).                                                   *)
(***************************************************************************)
EXTENDS Resolution, Iteration_proofs

-----------------------------------------------------------------------------
(* What a reference means *)

Refs == ConfigPaths \X {"latest", "stable", "1"}

\* What a reference means in a state of the configs, given what references
\* mean with one reference less to follow
MissingIn(db, doc) ==
    {i \in DOMAIN doc.extend : VersionIn(db, doc.extend[i].path, doc.extend[i].ref) = 0}

DocIn(db, r) == db[r[1]].docs[VersionIn(db, r[1], r[2])]

SubIn(doc, sub, i) == sub[<<doc.extend[i].path, doc.extend[i].ref>>]

BasesIn(db, doc, sub) ==
    [i \in DOMAIN doc.extend |->
        IF i \in MissingIn(db, doc) THEN <<>>
        ELSE AsSource(VersionIn(db, doc.extend[i].path, doc.extend[i].ref), SubIn(doc, sub, i).outs)]

Refused(db, r, n, sub) ==
    LET doc == DocIn(db, r)
    IN  \/ n = 0 \/ VersionIn(db, r[1], r[2]) = 0 \/ ZipRefused(doc)
        \/ \E i \in MissingIn(db, doc) : ~doc.extend[i].skip
        \/ \E i \in DOMAIN doc.extend \ MissingIn(db, doc) : ~SubIn(doc, sub, i).ok

Means(db, r, n, sub) ==
    IF Refused(db, r, n, sub) THEN Failed
    ELSE IF DocIn(db, r).mode = "replicate" /\ Len(DocIn(db, r).extend) = 1 /\ MissingIn(db, DocIn(db, r)) # {}
    THEN Gave(<<>>)
    ELSE Extended(DocIn(db, r), r[1], VersionIn(db, r[1], r[2]),
                  BasesIn(db, DocIn(db, r), sub), MissingIn(db, DocIn(db, r)))

IsMeaning(db, M) == M = [n \in 0 .. MaxDepth |-> [r \in Refs |-> Means(db, r, n, M[n - 1])]]

MeaningIn(db) == CHOOSE M : IsMeaning(db, M)

\* The Meaning of the model is the one of the configs as they are.
LEMMA MeaningNow == Meaning = MeaningIn(configs)[MaxDepth]
BY DEF Meaning, MeaningIn, IsMeaning, Means, Refused, Refs, DocIn, SubIn, BasesIn, MissingIn, Version

\* It is well defined, whatever the documents are.
LEMMA MeaningStep ==
    ASSUME NEW db
    PROVE  \A n \in 0 .. MaxDepth : \A r \in Refs :
              MeaningIn(db)[n][r] = Means(db, r, n, MeaningIn(db)[n - 1])
<1> DEFINE Level(n, sub) == [r \in Refs |-> Means(db, r, n, sub)]
           Upto(n, f) == f = [k \in 0 .. n |-> Level(k, f[k - 1])]
           Done == {n \in Nat : \E f : Upto(n, f)}
<1> HIDE DEF Level
<1>0. \A x, y : Level(0, x) = Level(0, y)
  BY DEF Level, Means, Refused
<1>1. 0 \in Done
  <2>1. PICK f : f = [k \in 0 .. 0 |-> Level(0, 0)]
    OBVIOUS
  <2>2. Upto(0, f)
    BY <1>0, <2>1
  <2> QED BY <2>2
<1>2. ASSUME NEW n \in Nat, n \in Done PROVE n + 1 \in Done
  <2>1. PICK f : Upto(n, f)
    BY <1>2
  <2>2. PICK g : g = [k \in 0 .. n + 1 |-> IF k = n + 1 THEN Level(k, f[n]) ELSE f[k]]
    OBVIOUS
  <2>3. \A k \in 0 .. n : g[k] = f[k]
    BY <2>2
  <2>4. ASSUME NEW k \in 0 .. n + 1 PROVE g[k] = Level(k, g[k - 1])
    <3>1. CASE k = n + 1
      <4>1. k - 1 = n /\ n \in 0 .. n
        BY <3>1
      <4> QED BY <2>2, <2>3, <3>1, <4>1
    <3>2. CASE k = 0
      BY <1>0, <2>1, <2>3, <3>2
    <3>3. CASE k \in 1 .. n
      <4>1. k \in 0 .. n /\ k - 1 \in 0 .. n
        BY <3>3
      <4> QED BY <2>1, <2>3, <4>1
    <3> QED BY <3>1, <3>2, <3>3
  <2>5. Upto(n + 1, g)
    BY <2>2, <2>4
  <2> QED BY <2>5
<1> HIDE DEF Done
<1>3. Nat \subseteq Done
  BY <1>1, <1>2, Induction
<1>4. MaxDepth \in Nat
  BY ResolutionAssumption
<1>5. \E f : Upto(MaxDepth, f)
  BY <1>3, <1>4 DEF Done
<1>6. IsMeaning(db, MeaningIn(db))
  <2>1. \E f : IsMeaning(db, f)
    BY <1>5 DEF IsMeaning, Level
  <2> QED BY <2>1 DEF MeaningIn
<1>7. PICK M : M = MeaningIn(db)
  OBVIOUS
<1>8. M = [n \in 0 .. MaxDepth |-> [r \in Refs |-> Means(db, r, n, M[n - 1])]]
  BY <1>6, <1>7 DEF IsMeaning
<1>9. ASSUME NEW n \in 0 .. MaxDepth, NEW r \in Refs PROVE M[n][r] = Means(db, r, n, M[n - 1])
  <2>1. M[n] = [q \in Refs |-> Means(db, q, n, M[n - 1])]
    BY <1>8
  <2> QED BY <2>1
<1> QED BY <1>7, <1>9

-----------------------------------------------------------------------------
(* Types *)

Words == ConfigPaths \cup Nat
           \cup {doc.body[k][i] : doc \in Docs, k \in DataKeys, i \in Nat}
           \cup {doc.patch[j][k][i] : doc \in Docs, j \in Nat, k \in DataKeys, i \in Nat}
Data    == [DataKeys -> Seq(Words)]
Names   == DataKeys \cup {"none"}
Out     == [data : Data, name : Names, owner : ConfigPaths, version : Nat]
Results == [ok : BOOLEAN, outs : Seq(Out)]
SourceRefs == [path : ConfigPaths, ref : RefNames, skip : BOOLEAN]

\* A function that has 0 in a set, and with each number the next.
LEMMA Carried ==
    ASSUME NEW n \in Nat, NEW f, NEW S, f[0] \in S,
           \A k \in 1 .. n : f[k - 1] \in S => f[k] \in S
    PROVE  \A k \in 0 .. n : f[k] \in S
<1> DEFINE Done == {k \in Nat : k <= n => f[k] \in S}
<1>1. 0 \in Done
  OBVIOUS
<1>2. ASSUME NEW k \in Nat, k \in Done PROVE k + 1 \in Done
  <2>1. k + 1 <= n => k + 1 \in 1 .. n /\ k + 1 - 1 = k
    OBVIOUS
  <2> QED BY <1>2, <2>1
<1> HIDE DEF Done
<1>3. Nat \subseteq Done
  BY <1>1, <1>2, Induction
<1> QED BY <1>3 DEF Done

\* A recursive function exists.
Recurs(n, s, step, f) == f = [k \in 0 .. n |-> IF k = 0 THEN s ELSE step[<<k, f[k - 1]>>]]

\* It does when each step stays in a set.
LEMMA Recursion ==
    ASSUME NEW n \in Nat, NEW S, NEW s \in S, NEW step \in [Nat \X S -> S]
    PROVE  \E f \in [0 .. n -> S] : Recurs(n, s, step, f)
<1> DEFINE Good(m, f) == f = [k \in 0 .. m |-> IF k = 0 THEN s ELSE step[<<k, f[k - 1]>>]]
           Done == {m \in Nat : \E f \in [0 .. m -> S] : Good(m, f)}
<1>1. 0 \in Done
  <2>1. [k \in 0 .. 0 |-> s] \in [0 .. 0 -> S] /\ Good(0, [k \in 0 .. 0 |-> s])
    OBVIOUS
  <2> QED BY <2>1
<1>2. ASSUME NEW m \in Nat, m \in Done PROVE m + 1 \in Done
  <2>1. PICK f \in [0 .. m -> S] : Good(m, f)
    BY <1>2
  <2>2. PICK g : g = [k \in 0 .. m + 1 |-> IF k = m + 1 THEN step[<<k, f[m]>>] ELSE f[k]]
    OBVIOUS
  <2>3. g \in [0 .. m + 1 -> S]
    <3>1. m \in 0 .. m /\ m + 1 \in Nat
      OBVIOUS
    <3> QED BY <2>1, <2>2, <3>1
  <2>4. \A k \in 0 .. m : g[k] = f[k]
    BY <2>2
  <2>5. ASSUME NEW k \in 0 .. m + 1 PROVE g[k] = IF k = 0 THEN s ELSE step[<<k, g[k - 1]>>]
    <3>1. CASE k = m + 1
      <4>1. k - 1 = m /\ m \in 0 .. m
        BY <3>1
      <4> QED BY <2>2, <2>4, <3>1, <4>1
    <3>2. CASE k = 0
      <4>1. 0 \in 0 .. m
        OBVIOUS
      <4>2. f[0] = s
        BY <2>1, <4>1
      <4> QED BY <2>4, <3>2, <4>1, <4>2
    <3>3. CASE k \in 1 .. m
      <4>1. k \in 0 .. m /\ k - 1 \in 0 .. m
        BY <3>3
      <4> QED BY <2>1, <2>4, <3>3, <4>1
    <3> QED BY <3>1, <3>2, <3>3
  <2>6. Good(m + 1, g)
    BY <2>2, <2>5
  <2> HIDE DEF Good
  <2> QED BY <2>3, <2>6
<1> HIDE DEF Done
<1>3. Nat \subseteq Done
  BY <1>1, <1>2, Induction
<1> QED BY <1>3 DEF Done, Recurs

\* A tuple of members of a set is a sequence over it.
LEMMA TupleIn ==
    ASSUME NEW s, NEW S, IsTuple(s), \A i \in 1 .. Len(s) : s[i] \in S
    PROVE  s \in Seq(S)
<1>1. PICK n \in Nat : n = Len(s)
  BY DEF IsTuple
<1>2. s = [i \in 1 .. n |-> s[i]]
  BY <1>1 DEF IsTuple
<1>3. s \in [1 .. n -> S]
  BY <1>1, <1>2
<1> QED BY <1>3

\* The values in documents are sequences of words.
LEMMA DocFacts ==
    ASSUME NEW doc \in Docs
    PROVE  /\ doc.extend \in Seq(SourceRefs)
           /\ doc.mode \in {"stack", "broadcast", "zip", "replicate"}
           /\ doc.name \in Names
           /\ \A k \in DataKeys : doc.body[k] \in Seq(Words)
           /\ Len(doc.patch) \in Nat /\ DOMAIN doc.patch = 1 .. Len(doc.patch)
           /\ doc.mode = "broadcast" => 1 \in 1 .. Len(doc.patch)
           /\ \A i \in 1 .. Len(doc.patch) : \A k \in DataKeys : doc.patch[i][k] \in Seq(Words)
<1>1. /\ doc.extend \in Seq(SourceRefs)
      /\ doc.mode \in {"stack", "broadcast", "zip", "replicate"}
      /\ doc.name \in Names
      /\ IsTuple(doc.patch) /\ (doc.mode = "broadcast" => doc.patch # <<>>)
  BY DocumentsAssumption DEF SourceRefs, Names
<1>2. \A k \in DataKeys : IsTuple(doc.body[k])
  BY DocumentsAssumption
<1>3. \A i \in 1 .. Len(doc.patch) : \A k \in DataKeys : IsTuple(doc.patch[i][k])
  BY DocumentsAssumption
<1>4. Len(doc.patch) \in Nat /\ DOMAIN doc.patch = 1 .. Len(doc.patch)
  BY <1>1 DEF IsTuple
<1>5. ASSUME NEW k \in DataKeys PROVE doc.body[k] \in Seq(Words)
  <2>1. \A i \in 1 .. Len(doc.body[k]) : doc.body[k][i] \in Words
    BY <1>2 DEF Words, IsTuple
  <2> QED BY <1>2, <2>1, TupleIn
<1>6. ASSUME NEW i \in 1 .. Len(doc.patch), NEW k \in DataKeys PROVE doc.patch[i][k] \in Seq(Words)
  <2>1. \A j \in 1 .. Len(doc.patch[i][k]) : doc.patch[i][k][j] \in Words
    BY <1>3, <1>4 DEF Words, IsTuple
  <2> QED BY <1>3, <2>1, TupleIn
<1>7. doc.mode = "broadcast" => 1 \in 1 .. Len(doc.patch)
  <2>1. doc.patch = [i \in 1 .. Len(doc.patch) |-> doc.patch[i]]
    BY <1>1 DEF IsTuple
  <2>2. Len(doc.patch) = 0 => doc.patch = <<>>
    <3>1. doc.patch \in Seq({doc.patch[i] : i \in 1 .. Len(doc.patch)})
      BY <1>1, TupleIn
    <3> QED BY <3>1
  <2> QED BY <1>1, <1>4, <2>2
<1> QED BY <1>1, <1>4, <1>5, <1>6, <1>7

\* Merging values that are words gives such values.
LEMMA MergeType ==
    ASSUME NEW a, NEW b, \A k \in DataKeys : a[k] \in Seq(Words) /\ b[k] \in Seq(Words)
    PROVE  Merge(a, b) \in Data
  BY DEF Merge, Data

\* So does a stack of any number of sources,
LEMMA OverlaidType ==
    ASSUME NEW srcs \in Seq(Out)
    PROVE  Overlaid(srcs) \in Data
<1> DEFINE Bottom == [k \in DataKeys |-> Absent]
           Is(f) == f = [i \in 0 .. Len(srcs) |-> IF i = 0 THEN Bottom ELSE Merge(f[i - 1], srcs[i].data)]
<1>0. Bottom \in Data /\ Len(srcs) \in Nat /\ \A i \in 1 .. Len(srcs) : srcs[i].data \in Data
  <2>1. <<>> \in Seq(Words)
    OBVIOUS
  <2>2. Bottom \in Data
    BY <2>1 DEF Data, Absent
  <2>3. \A o \in Out : o.data \in Data
    BY DEF Out
  <2>4. \A i \in 1 .. Len(srcs) : srcs[i] \in Out
    OBVIOUS
  <2> QED BY <2>2, <2>3, <2>4
<1>1. \A d \in Data : \A i \in 1 .. Len(srcs) : Merge(d, srcs[i].data) \in Data
  BY <1>0, MergeType DEF Data
<1>2. \E f : Is(f)
  <2>1. PICK step : step = [x \in Nat \X Data |-> IF x[1] \in 1 .. Len(srcs) THEN Merge(x[2], srcs[x[1]].data) ELSE x[2]]
    OBVIOUS
  <2>2. step \in [Nat \X Data -> Data]
    BY <1>1, <2>1
  <2>3. PICK f \in [0 .. Len(srcs) -> Data] : Recurs(Len(srcs), Bottom, step, f)
    <3> HIDE DEF Bottom
    <3>1. Len(srcs) \in Nat /\ Bottom \in Data
      BY <1>0
    <3> QED BY <2>2, <3>1, Recursion
  <2>4. ASSUME NEW k \in 1 .. Len(srcs) PROVE step[<<k, f[k - 1]>>] = Merge(f[k - 1], srcs[k].data)
    <3>1. <<k, f[k - 1]>> \in Nat \X Data
      <4>1. k - 1 \in 0 .. Len(srcs) /\ k \in Nat
        BY <1>0
      <4> QED BY <2>3, <4>1
    <3> QED BY <2>1, <3>1
  <2>5. Is(f)
    <3>1. f = [k \in 0 .. Len(srcs) |-> IF k = 0 THEN Bottom ELSE step[<<k, f[k - 1]>>]]
      BY <2>3 DEF Recurs
    <3>2. \A k \in 0 .. Len(srcs) : k # 0 => k \in 1 .. Len(srcs)
      BY <1>0
    <3> HIDE DEF Bottom
    <3>3. \A k \in 0 .. Len(srcs) : f[k] = IF k = 0 THEN Bottom ELSE Merge(f[k - 1], srcs[k].data)
      BY <2>4, <3>1, <3>2
    <3> QED BY <3>1, <3>3
  <2> QED BY <2>5
<1>3. PICK f : Is(f) /\ Overlaid(srcs) = f[Len(srcs)]
  BY <1>2 DEF Overlaid
<1>4. f[0] \in Data /\ \A k \in 1 .. Len(srcs) : f[k - 1] \in Data => f[k] \in Data
  <2> HIDE DEF Bottom
  <2> QED BY <1>0, <1>1, <1>3
<1>5. \A k \in 0 .. Len(srcs) : f[k] \in Data
  BY <1>0, <1>4, Carried
<1> QED BY <1>0, <1>3, <1>5

\* and flattening sequences of outputs gives a sequence of outputs.
LEMMA FlattenType ==
    ASSUME NEW S, NEW ss \in Seq(Seq(S))
    PROVE  FlattenSeq(ss) \in Seq(S)
<1> DEFINE Is(f) == f = [i \in 1 .. Len(ss) |-> IF i = 1 THEN ss[i] ELSE f[i - 1] \o ss[i]]
<1>0. Len(ss) \in Nat /\ \A i \in 1 .. Len(ss) : ss[i] \in Seq(S)
  OBVIOUS
<1>1. CASE Len(ss) = 0
  BY <1>1 DEF FlattenSeq
<1>2. CASE Len(ss) # 0
  <2>1. \E f : Is(f)
    <3>1. PICK step : step = [x \in Nat \X Seq(S) |-> IF x[1] \notin 1 .. Len(ss) THEN x[2]
                                                   ELSE IF x[1] = 1 THEN ss[1] ELSE x[2] \o ss[x[1]]]
      OBVIOUS
    <3>2. step \in [Nat \X Seq(S) -> Seq(S)]
      <4>1. \A x \in Nat \X Seq(S) : x[2] \in Seq(S) /\ step[x] \in Seq(S)
        BY <1>0, <3>1
      <4> QED BY <3>1, <4>1
    <3>3. PICK f \in [0 .. Len(ss) -> Seq(S)] : Recurs(Len(ss), <<>>, step, f)
      <4>1. Len(ss) \in Nat /\ <<>> \in Seq(S)
        BY <1>0
      <4> QED BY <3>2, <4>1, Recursion
    <3>4. PICK g : g = [i \in 1 .. Len(ss) |-> f[i]]
      OBVIOUS
    <3>5. ASSUME NEW k \in 1 .. Len(ss) PROVE g[k] = IF k = 1 THEN ss[k] ELSE g[k - 1] \o ss[k]
      <4>1. <<k, f[k - 1]>> \in Nat \X Seq(S) /\ g[k] = step[<<k, f[k - 1]>>]
        <5>1. k - 1 \in 0 .. Len(ss) /\ k \in Nat /\ k # 0 /\ k \in 0 .. Len(ss)
          BY <1>0
        <5> QED BY <3>3, <3>4, <5>1 DEF Recurs
      <4>2. k # 1 => g[k - 1] = f[k - 1]
        BY <1>0, <3>4
      <4> QED BY <3>1, <4>1, <4>2
    <3>6. Is(g)
      BY <3>4, <3>5
    <3> QED BY <3>6
  <2>2. PICK f : Is(f) /\ FlattenSeq(ss) = f[Len(ss)]
    BY <1>2, <2>1 DEF FlattenSeq
  <2>3. PICK h : h = [i \in 0 .. Len(ss) |-> IF i = 0 THEN <<>> ELSE f[i]]
    OBVIOUS
  <2>4. ASSUME NEW k \in 1 .. Len(ss), h[k - 1] \in Seq(S) PROVE h[k] \in Seq(S)
    <3>1. h[k] = f[k] /\ (k # 1 => h[k - 1] = f[k - 1])
      BY <1>0, <2>3
    <3>2. f[k] = IF k = 1 THEN ss[k] ELSE f[k - 1] \o ss[k]
      BY <2>2
    <3> QED BY <1>0, <2>4, <3>1, <3>2
  <2>5. h[0] \in Seq(S)
    BY <1>0, <2>3
  <2>6. \A k \in 0 .. Len(ss) : h[k] \in Seq(S)
    BY <1>0, <2>4, <2>5, Carried
  <2>7. Len(ss) \in 0 .. Len(ss) /\ h[Len(ss)] = f[Len(ss)]
    BY <1>0, <1>2, <2>3
  <2> QED BY <2>2, <2>6, <2>7
<1> QED BY <1>1, <1>2

\* A source that was skipped gives no output.
LEMMA FlattenNothing == FlattenSeq(<<<<>>>>) = <<>>
<1>1. PICK ss : ss = <<<<>>>>
  OBVIOUS
<1>2. Len(ss) = 1 /\ ss[1] = <<>>
  BY <1>1
<1>3. PICK g : g = [i \in 1 .. Len(ss) |-> <<>>]
  OBVIOUS
<1>4. g = [i \in 1 .. Len(ss) |-> IF i = 1 THEN ss[i] ELSE g[i - 1] \o ss[i]]
  BY <1>2, <1>3
<1>5. PICK f : /\ f = [i \in 1 .. Len(ss) |-> IF i = 1 THEN ss[i] ELSE f[i - 1] \o ss[i]]
               /\ FlattenSeq(ss) = f[Len(ss)]
  BY <1>2, <1>4 DEF FlattenSeq
<1> QED BY <1>1, <1>2, <1>5

\* The outputs of a source, with its version, are outputs.
LEMMA AsSourceType ==
    ASSUME NEW outs \in Seq(Out), NEW v \in Nat
    PROVE  AsSource(v, outs) \in Seq(Out)
<1>1. PICK n \in Nat : n = Len(outs) /\ DOMAIN outs = 1 .. n /\ \A i \in 1 .. n : outs[i] \in Out
  OBVIOUS
<1>2. \A o \in Out : [o EXCEPT !.version = v] \in Out
  BY DEF Out
<1>3. AsSource(v, outs) \in [1 .. n -> Out]
  BY <1>1, <1>2 DEF AsSource
<1> QED BY <1>1, <1>3

\* An output over which a document's values are merged is one.
LEMMA PatchedType ==
    ASSUME NEW out \in Out, NEW d, \A k \in DataKeys : d[k] \in Seq(Words)
    PROVE  [out EXCEPT !.data = Merge(@, d)] \in Out
<1>1. out.data \in Data
  BY DEF Out
<1>2. \A k \in DataKeys : out.data[k] \in Seq(Words)
  BY <1>1 DEF Data
<1>3. Merge(out.data, d) \in Data
  BY <1>2, MergeType
<1> QED BY <1>3 DEF Out

\* What _apply_extend gives, in every mode, is a result: zip and replicate find
\* a patch for each output they give.
LEMMA ExtendedType ==
    ASSUME NEW doc \in Docs, NEW owner \in ConfigPaths, NEW v \in Nat,
           NEW bases \in Seq(Seq(Out)), NEW skips, ~ZipRefused(doc), Len(bases) = Len(doc.extend)
    PROVE  Extended(doc, owner, v, bases, skips) \in Results
<1> DEFINE srcs == Sources(bases)
           patched(o, i) == [o EXCEPT !.data = Merge(@, doc.patch[i])]
<1>1. srcs \in Seq(Out)
  BY FlattenType DEF Sources
<1> HIDE DEF srcs
<1>2. \A s \in Seq(Out) : Gave(s) \in Results
  BY DEF Gave, Results
<1>3. Failed \in Results
  BY DEF Failed, Results
<1>4. PICK n \in Nat : n = Len(srcs) /\ DOMAIN srcs = 1 .. n /\ \A i \in 1 .. n : srcs[i] \in Out
  BY <1>1
<1>5. \A o \in Out : \A i \in 1 .. Len(doc.patch) : patched(o, i) \in Out
  BY DocFacts, PatchedType
<1>6. CASE doc.mode = "stack"
  <2>1. Overlaid(srcs) \in Data
    BY <1>1, OverlaidType
  <2>2. \A k \in DataKeys : Overlaid(srcs)[k] \in Seq(Words) /\ doc.body[k] \in Seq(Words)
    BY <2>1, DocFacts DEF Data
  <2>3. Merge(Overlaid(srcs), doc.body) \in Data
    BY <2>2, MergeType
  <2>4. PICK o : o = [data |-> Merge(Overlaid(srcs), doc.body), name |-> doc.name, owner |-> owner, version |-> v]
    OBVIOUS
  <2>5. o \in Out
    BY <2>3, <2>4, DocFacts DEF Out
  <2>6. Extended(doc, owner, v, bases, skips) = Gave(<<o>>)
    BY <1>6, <2>4 DEF Extended, srcs
  <2>7. <<o>> \in Seq(Out)
    BY <2>5
  <2> QED BY <1>2, <2>6, <2>7
<1>7. CASE doc.mode = "broadcast"
  <2>1. Extended(doc, owner, v, bases, skips) = Gave([i \in DOMAIN srcs |-> patched(srcs[i], 1)])
    BY <1>7 DEF Extended, srcs
  <2>2. 1 \in 1 .. Len(doc.patch)
    BY <1>7, DocFacts
  <2> HIDE DEF patched
  <2>3. [i \in DOMAIN srcs |-> patched(srcs[i], 1)] \in [1 .. n -> Out]
    BY <1>4, <1>5, <2>2
  <2>4. [i \in DOMAIN srcs |-> patched(srcs[i], 1)] \in Seq(Out)
    BY <1>4, <2>3
  <2> QED BY <1>2, <2>1, <2>4
<1>8. CASE doc.mode = "zip"
  <2> DEFINE part(i) == IF i \in skips THEN <<>> ELSE <<patched(bases[i][1], i)>>
             parts == [i \in DOMAIN bases |-> part(i)]
  <2>1. \/ Extended(doc, owner, v, bases, skips) = Failed
        \/ /\ Extended(doc, owner, v, bases, skips) = Gave(FlattenSeq(parts))
           /\ \A i \in DOMAIN bases : i \in skips \/ Len(bases[i]) = 1
    BY <1>8 DEF Extended, srcs
  <2>2. PICK m \in Nat : /\ m = Len(bases) /\ DOMAIN bases = 1 .. m /\ m = Len(doc.patch)
                         /\ \A i \in 1 .. m : bases[i] \in Seq(Out)
    BY <1>8, DocFacts DEF ZipRefused
  <2>3. ASSUME NEW i \in 1 .. m, i \in skips \/ Len(bases[i]) = 1 PROVE part(i) \in Seq(Out)
    <3>1. CASE i \in skips
      BY <3>1
    <3>2. CASE i \notin skips
      <4>1. bases[i][1] \in Out
        BY <2>2, <2>3, <3>2
      <4>2. patched(bases[i][1], i) \in Out
        BY <1>5, <2>2, <4>1
      <4> HIDE DEF patched
      <4> QED BY <3>2, <4>2
    <3> QED BY <3>1, <3>2
  <2> HIDE DEF part
  <2>4. (\A i \in DOMAIN bases : i \in skips \/ Len(bases[i]) = 1) => parts \in Seq(Seq(Out))
    <3>1. (\A i \in DOMAIN bases : i \in skips \/ Len(bases[i]) = 1) => parts \in [1 .. m -> Seq(Out)]
      BY <2>2, <2>3
    <3> QED BY <2>2, <3>1
  <2> HIDE DEF parts
  <2> QED BY <1>2, <1>3, <2>1, <2>4, FlattenType
<1>9. CASE doc.mode = "replicate"
  <2>1. \/ Extended(doc, owner, v, bases, skips) = Failed
        \/ /\ Extended(doc, owner, v, bases, skips) = Gave([i \in DOMAIN doc.patch |-> patched(srcs[1], i)])
           /\ Len(srcs) = 1
    BY <1>9 DEF Extended, srcs
  <2>2. PICK m \in Nat : m = Len(doc.patch) /\ DOMAIN doc.patch = 1 .. m
    BY DocFacts
  <2> HIDE DEF patched
  <2>3. Len(srcs) = 1 => [i \in DOMAIN doc.patch |-> patched(srcs[1], i)] \in [1 .. m -> Out]
    BY <1>4, <1>5, <2>2
  <2>4. Len(srcs) = 1 => [i \in DOMAIN doc.patch |-> patched(srcs[1], i)] \in Seq(Out)
    BY <2>2, <2>3
  <2> QED BY <1>2, <1>3, <2>1, <2>4
<1> QED BY <1>6, <1>7, <1>8, <1>9, DocFacts

\* Two outputs get names that differ if their own are one word each.
NamedOut == [data : Data, plain : Seq(Words), as : Seq(Words), version : Nat]

\* A suffix is no word or a number, and differs from those of earlier outputs
\* of the same name.
LEMMA SuffixFacts ==
    ASSUME NEW names, NEW i \in Nat
    PROVE  /\ Suffix(names, i) \in Seq(Nat)
           /\ Suffix(names, i) = <<>> \/ \E n \in Nat : Suffix(names, i) = <<n>>
           /\ \A j \in Nat : 0 < j /\ j < i /\ names[j] = names[i] => Suffix(names, j) # Suffix(names, i)
<1> DEFINE Same(k) == {j \in 1 .. (k - 1) : names[j] = names[k]}
           N(k) == Cardinality(Same(k))
<1>1. \A k \in Nat : IsFiniteSet(Same(k)) /\ N(k) \in Nat
  <2> SUFFICES ASSUME NEW k \in Nat PROVE IsFiniteSet(Same(k)) /\ N(k) \in Nat
    OBVIOUS
  <2>1. IsFiniteSet(1 .. (k - 1))
    BY FS_Interval
  <2>2. IsFiniteSet(Same(k))
    BY <2>1, FS_Subset
  <2> QED BY <2>2, FS_CardinalityType
<1>2. \A k : Suffix(names, k) = IF N(k) = 0 THEN <<>> ELSE <<N(k)>>
  BY DEF Suffix
<1>3. ASSUME NEW j \in Nat, 0 < j, j < i, names[j] = names[i] PROVE N(j) < N(i)
  <2>1. Same(j) \subseteq Same(i) /\ j \in Same(i) /\ j \notin Same(j)
    BY <1>3
  <2>2. IsFiniteSet(Same(i))
    BY <1>1
  <2> HIDE DEF Same
  <2>3. Cardinality(Same(j)) < Cardinality(Same(i))
    <3>1. Same(j) \subseteq Same(i) \ {j} /\ IsFiniteSet(Same(i) \ {j})
      BY <2>1, <2>2, FS_Subset
    <3>2. Cardinality(Same(j)) <= Cardinality(Same(i) \ {j})
      BY <3>1, FS_Subset
    <3>3. Cardinality(Same(i) \ {j}) = Cardinality(Same(i)) - 1
      BY <2>1, <2>2, FS_RemoveElement
    <3>4. Cardinality(Same(i)) \in Nat /\ Cardinality(Same(j)) \in Nat
      BY <1>1, <1>3
    <3> QED BY <3>2, <3>3, <3>4
  <2> QED BY <2>3
<1> HIDE DEF N
<1>4. ASSUME NEW j \in Nat, 0 < j, j < i, names[j] = names[i] PROVE Suffix(names, j) # Suffix(names, i)
  <2>1. N(j) < N(i) /\ N(j) \in Nat /\ N(i) \in Nat
    BY <1>1, <1>3, <1>4
  <2> QED BY <1>2, <2>1
<1>5. N(i) \in Nat
  BY <1>1
<1>6. Suffix(names, i) = <<>> \/ \E n \in Nat : Suffix(names, i) = <<n>>
  BY <1>2, <1>5
<1>7. Suffix(names, i) \in Seq(Nat)
  <2>1. \A n \in Nat : <<n>> \in Seq(Nat)
    OBVIOUS
  <2>2. <<>> \in Seq(Nat)
    OBVIOUS
  <2> QED BY <1>6, <2>1, <2>2
<1> QED BY <1>4, <1>6, <1>7

\* Naming gives named outputs, or fails with none.
LEMMA NamesType ==
    ASSUME NEW res \in Results
    PROVE  /\ WithNames(res) \in [ok : BOOLEAN, outs : Seq(NamedOut)]
           /\ ~res.ok => WithNames(res) = Failed
           /\ ~WithNames(res).ok => WithNames(res) = Failed
<1> DEFINE outs == res.outs
           names == [i \in DOMAIN outs |-> PlainName(outs[i])]
           named(i) == [data |-> outs[i].data, plain |-> names[i],
                        as |-> names[i] \o Suffix(names, i), version |-> outs[i].version]
<1>1. PICK n \in Nat : n = Len(outs) /\ DOMAIN outs = 1 .. n /\ \A i \in 1 .. n : outs[i] \in Out
  BY DEF Results
<1>2. ASSUME NEW i \in 1 .. n PROVE names[i] \in Seq(Words) /\ outs[i].data \in Data /\ outs[i].version \in Nat
  <2>1. /\ outs[i].data \in Data /\ outs[i].name \in Names /\ outs[i].owner \in Words /\ outs[i].version \in Nat
    BY <1>1 DEF Out, Words
  <2>2. <<outs[i].owner>> \in Seq(Words)
    BY <2>1
  <2>3. outs[i].name # "none" => outs[i].data[outs[i].name] \in Seq(Words)
    BY <2>1 DEF Names, Data
  <2>4. names[i] = PlainName(outs[i])
    BY <1>1
  <2> QED BY <2>1, <2>2, <2>3, <2>4 DEF PlainName
<1> HIDE DEF names
<1>3. ASSUME NEW i \in 1 .. n PROVE named(i) \in NamedOut
  <2>1. Suffix(names, i) \in Seq(Nat)
    BY SuffixFacts
  <2>2. Suffix(names, i) \in Seq(Words)
    BY <2>1 DEF Words
  <2>3. names[i] \o Suffix(names, i) \in Seq(Words)
    BY <1>2, <2>2
  <2> QED BY <1>2, <2>3 DEF NamedOut
<1>4. \/ WithNames(res) = Failed
      \/ res.ok /\ WithNames(res) = Gave([i \in DOMAIN names |-> named(i)])
  BY DEF WithNames, names
<1> HIDE DEF named, outs
<1>5. [i \in DOMAIN names |-> named(i)] \in Seq(NamedOut)
  <2>1. DOMAIN names = 1 .. n
    BY <1>1 DEF names
  <2>2. [i \in DOMAIN names |-> named(i)] \in [1 .. n -> NamedOut]
    BY <1>3, <2>1
  <2> QED BY <2>2
<1>6. <<>> \in Seq(NamedOut)
  OBVIOUS
<1>7. Failed = [ok |-> FALSE, outs |-> <<>>] /\ Failed \in [ok : BOOLEAN, outs : Seq(NamedOut)]
  BY <1>6 DEF Failed
<1>8. CASE WithNames(res) = Failed
  BY <1>7, <1>8
<1>9. CASE res.ok /\ WithNames(res) = Gave([i \in DOMAIN names |-> named(i)])
  <2>1. PICK s \in Seq(NamedOut) : s = [i \in DOMAIN names |-> named(i)]
    BY <1>5
  <2>2. WithNames(res) = [ok |-> TRUE, outs |-> s]
    BY <1>9, <2>1 DEF Gave
  <2>3. WithNames(res) \in [ok : BOOLEAN, outs : Seq(NamedOut)]
    BY <2>2
  <2>4. WithNames(res).ok
    BY <2>2
  <2> QED BY <1>9, <2>3, <2>4
<1> QED BY <1>4, <1>8, <1>9

\* Two outputs of one result have different names: those with the same own name
\* by the suffix, those with different ones, of one word, by the first word.
LEMMA NamesDiffer ==
    ASSUME NEW res \in Results, WithNames(res).ok,
           \A i \in DOMAIN WithNames(res).outs : Len(WithNames(res).outs[i].plain) = 1,
           NEW i \in DOMAIN WithNames(res).outs, NEW j \in DOMAIN WithNames(res).outs,
           WithNames(res).outs[i].as = WithNames(res).outs[j].as
    PROVE  i = j
<1> DEFINE outs == res.outs
           names == [k \in DOMAIN outs |-> PlainName(outs[k])]
           named(k) == [data |-> outs[k].data, plain |-> names[k],
                        as |-> names[k] \o Suffix(names, k), version |-> outs[k].version]
<1>1. PICK n \in Nat : n = Len(outs) /\ DOMAIN outs = 1 .. n
  BY DEF Results
<1>2. WithNames(res).outs = [k \in DOMAIN names |-> named(k)] /\ DOMAIN names = 1 .. n
  BY <1>1 DEF WithNames, Failed, Gave
<1> HIDE DEF names
<1>3. i \in 1 .. n /\ j \in 1 .. n
  BY <1>2
<1>4. \A k \in 1 .. n : /\ WithNames(res).outs[k].plain = names[k]
                        /\ WithNames(res).outs[k].as = names[k] \o Suffix(names, k)
  BY <1>2
<1>5. /\ WithNames(res).outs \in Seq(NamedOut) /\ DOMAIN WithNames(res).outs = 1 .. n
  BY <1>2, NamesType
<1>6. \A k \in 1 .. n : names[k] \in Seq(Words) /\ Len(names[k]) = 1
  <2>1. \A k \in 1 .. n : WithNames(res).outs[k] \in NamedOut
    BY <1>5
  <2> QED BY <1>4, <1>5, <2>1 DEF NamedOut
<1>7. names[i] \o Suffix(names, i) = names[j] \o Suffix(names, j)
  BY <1>3, <1>4
<1>8. names[i] = names[j] /\ Suffix(names, i) = Suffix(names, j)
  <2>1. PICK x, y : names[i] = <<x>> /\ names[j] = <<y>>
    BY <1>3, <1>6
  <2>2. /\ Suffix(names, i) = <<>> \/ \E m \in Nat : Suffix(names, i) = <<m>>
        /\ Suffix(names, j) = <<>> \/ \E m \in Nat : Suffix(names, j) = <<m>>
    BY <1>3, SuffixFacts
  <2> QED BY <1>7, <2>1, <2>2
<1> QED BY <1>3, <1>8, SuffixFacts

-----------------------------------------------------------------------------
(* Frames and what their references mean in a state of the configs *)

ConfigRow == [there : BOOLEAN, docs : Seq(Docs), stable : Nat]
Dbs       == [ConfigPaths -> ConfigRow]
Frame     == [path : ConfigPaths, version : Nat, bases : Seq(Seq(Out)), skips : SUBSET Nat,
              pc : {"peek", "source", "enter"}]

\* Versions are never removed and never change
Later(a, b) ==
    \A p \in ConfigPaths :
        /\ Len(a[p].docs) <= Len(b[p].docs)
        /\ \A v \in 1 .. Len(a[p].docs) : b[p].docs[v] = a[p].docs[v]

DocAt(db, f)     == db[f.path].docs[f.version]
SourceAt(db, f)  == DocAt(db, f).extend[Len(f.bases) + 1]
SourceVersion(db, s) == VersionIn(db, s.path, s.ref)
Given(db, n, s)  == MeaningIn(db)[n][<<s.path, s.ref>>]

\* replicate with one source looks at it first
Peeks(doc) == doc.mode = "replicate" /\ Len(doc.extend) = 1

FrameOK(db, f) ==
    /\ f \in Frame /\ f.version \in 1 .. Len(db[f.path].docs)
    /\ ~ZipRefused(DocAt(db, f))
    /\ Len(f.bases) <= Len(DocAt(db, f).extend) /\ f.skips \subseteq 1 .. Len(f.bases)
    /\ f.pc # "source" => Len(f.bases) < Len(DocAt(db, f).extend)
    /\ f.pc = "peek" => Peeks(DocAt(db, f))

\* What a frame holds is what its sources mean, with n references left to follow
FrameMeans(db, f, n) ==
    \A j \in 1 .. Len(f.bases) :
        LET s == DocAt(db, f).extend[j]
        IN  IF j \in f.skips THEN f.bases[j] = <<>> /\ SourceVersion(db, s) = 0 /\ s.skip
            ELSE /\ SourceVersion(db, s) # 0 /\ Given(db, n - 1, s).ok
                 /\ f.bases[j] = AsSource(SourceVersion(db, s), Given(db, n - 1, s).outs)

\* A reference names a version that exists, or none.
LEMMA VersionFacts ==
    ASSUME NEW db \in Dbs, NEW p \in ConfigPaths, NEW ref
    PROVE  /\ VersionIn(db, p, ref) \in Nat
           /\ VersionIn(db, p, ref) # 0 =>
                 VersionIn(db, p, ref) \in 1 .. Len(db[p].docs) /\ db[p].docs[VersionIn(db, p, ref)] \in Docs
<1>1. db[p].docs \in Seq(Docs)
  BY DEF Dbs, ConfigRow
<1>2. VersionIn(db, p, ref) # 0 => VersionIn(db, p, ref) \in 1 .. Len(db[p].docs)
  BY DEF VersionIn
<1> QED BY <1>1, <1>2

\* What a document extends is a reference to a config.
LEMMA SourceFacts ==
    ASSUME NEW doc \in Docs, NEW i \in 1 .. Len(doc.extend)
    PROVE  /\ doc.extend[i] \in SourceRefs
           /\ doc.extend[i].path \in ConfigPaths /\ doc.extend[i].ref \in RefNames
           /\ doc.extend[i].skip \in BOOLEAN
           /\ <<doc.extend[i].path, doc.extend[i].ref>> \in Refs
           /\ Len(doc.extend) \in Nat /\ DOMAIN doc.extend = 1 .. Len(doc.extend)
<1>1. doc.extend \in Seq(SourceRefs)
  BY DocFacts
<1>2. doc.extend[i] \in SourceRefs /\ Len(doc.extend) \in Nat /\ DOMAIN doc.extend = 1 .. Len(doc.extend)
  BY <1>1
<1> QED BY <1>2 DEF SourceRefs, RefNames, Refs

\* A reference that means something leads to sources that do, with one less to
\* follow.
LEMMA Descends ==
    ASSUME NEW db \in Dbs, NEW r \in Refs, NEW n \in 0 .. MaxDepth, MeaningIn(db)[n][r].ok
    PROVE  /\ n # 0 /\ VersionIn(db, r[1], r[2]) # 0 /\ ~ZipRefused(DocIn(db, r))
           /\ \A i \in 1 .. Len(DocIn(db, r).extend) :
                 LET s == DocIn(db, r).extend[i]
                 IN  IF SourceVersion(db, s) = 0 THEN s.skip ELSE Given(db, n - 1, s).ok
<1>1. MeaningIn(db)[n][r] = Means(db, r, n, MeaningIn(db)[n - 1])
  BY MeaningStep
<1>2. ~Failed.ok
  BY DEF Failed
<1>3. ~Refused(db, r, n, MeaningIn(db)[n - 1])
  BY <1>1, <1>2 DEF Means
<1>4. /\ n # 0 /\ VersionIn(db, r[1], r[2]) # 0 /\ ~ZipRefused(DocIn(db, r))
      /\ \A i \in MissingIn(db, DocIn(db, r)) : DocIn(db, r).extend[i].skip
      /\ \A i \in DOMAIN DocIn(db, r).extend \ MissingIn(db, DocIn(db, r)) :
            SubIn(DocIn(db, r), MeaningIn(db)[n - 1], i).ok
  BY <1>3 DEF Refused
<1>5. DocIn(db, r) \in Docs
  BY <1>4, VersionFacts DEF DocIn, Refs
<1>6. DOMAIN DocIn(db, r).extend = 1 .. Len(DocIn(db, r).extend)
  BY <1>5, DocFacts
<1>7. ASSUME NEW i \in 1 .. Len(DocIn(db, r).extend)
      PROVE  LET s == DocIn(db, r).extend[i]
             IN  IF SourceVersion(db, s) = 0 THEN s.skip ELSE Given(db, n - 1, s).ok
  BY <1>4, <1>6 DEF MissingIn, SubIn, Given, SourceVersion
<1> QED BY <1>4, <1>7

\* Two references that name one version mean the same.
LEMMA SameMeaning ==
    ASSUME NEW db, NEW q \in Refs, NEW r \in Refs, q[1] = r[1],
           VersionIn(db, q[1], q[2]) = VersionIn(db, r[1], r[2]), NEW n \in 0 .. MaxDepth
    PROVE  MeaningIn(db)[n][q] = MeaningIn(db)[n][r]
<1>1. DocIn(db, q) = DocIn(db, r)
  BY DEF DocIn
<1>2. \A sub : Means(db, q, n, sub) = Means(db, r, n, sub)
  BY <1>1 DEF Means, Refused
<1> QED BY <1>2, MeaningStep

\* A missing source that replicate has found missing.
LEMMA PeekGives ==
    ASSUME NEW db \in Dbs, NEW f, FrameOK(db, f), NEW ref \in RefNames, NEW n \in 1 .. MaxDepth,
           VersionIn(db, f.path, ref) = f.version, Peeks(DocAt(db, f)),
           SourceVersion(db, DocAt(db, f).extend[1]) = 0, DocAt(db, f).extend[1].skip
    PROVE  MeaningIn(db)[n][<<f.path, ref>>] = Gave(<<>>)
<1>1. PICK r \in Refs : r = <<f.path, ref>>
  BY DEF Refs, RefNames, FrameOK, Frame
<1>2. f.version # 0 /\ DocIn(db, r) = DocAt(db, f) /\ VersionIn(db, r[1], r[2]) = f.version
  BY <1>1 DEF DocIn, DocAt, FrameOK, Frame
<1>3. DocAt(db, f) \in Docs
  BY <1>1, <1>2, VersionFacts DEF DocIn, Refs
<1>4. DOMAIN DocAt(db, f).extend = 1 .. 1
  BY <1>3, DocFacts DEF Peeks
<1>5. MissingIn(db, DocAt(db, f)) = {1}
  BY <1>4 DEF MissingIn, SourceVersion
<1>6. ~Refused(db, r, n, MeaningIn(db)[n - 1])
  BY <1>2, <1>4, <1>5 DEF Refused, FrameOK
<1>7. Means(db, r, n, MeaningIn(db)[n - 1]) = Gave(<<>>)
  BY <1>2, <1>5, <1>6 DEF Means, Peeks
<1> QED BY <1>1, <1>7, MeaningStep

\* What a frame gives when all its sources are in.
LEMMA FrameGives ==
    ASSUME NEW db \in Dbs, NEW f, FrameOK(db, f), NEW ref \in RefNames, NEW n \in 1 .. MaxDepth,
           VersionIn(db, f.path, ref) = f.version, FrameMeans(db, f, n),
           Len(f.bases) = Len(DocAt(db, f).extend),
           \/ Extended(DocAt(db, f), f.path, f.version, f.bases, f.skips).ok
           \/ ~(Peeks(DocAt(db, f)) /\ 1 \in f.skips)
    PROVE  MeaningIn(db)[n][<<f.path, ref>>] = Extended(DocAt(db, f), f.path, f.version, f.bases, f.skips)
<1> DEFINE sub == MeaningIn(db)[n - 1]
<1>1. PICK r \in Refs : r = <<f.path, ref>>
  BY DEF Refs, RefNames, FrameOK, Frame
<1>2. /\ f.version # 0 /\ DocIn(db, r) = DocAt(db, f) /\ VersionIn(db, r[1], r[2]) = f.version
      /\ r[1] = f.path /\ f.bases \in Seq(Seq(Out))
  BY <1>1 DEF DocIn, DocAt, FrameOK, Frame
<1>3. PICK doc \in Docs : doc = DocAt(db, f)
  BY <1>1, <1>2, VersionFacts DEF DocIn, Refs
<1>4. PICK m \in Nat : m = Len(f.bases) /\ m = Len(doc.extend) /\ DOMAIN doc.extend = 1 .. m /\ DOMAIN f.bases = 1 .. m
  BY <1>2, <1>3, DocFacts
<1>5. ASSUME NEW j \in 1 .. m
      PROVE  LET s == doc.extend[j]
             IN  IF j \in f.skips THEN f.bases[j] = <<>> /\ SourceVersion(db, s) = 0 /\ s.skip
                 ELSE /\ SourceVersion(db, s) # 0 /\ Given(db, n - 1, s).ok
                      /\ f.bases[j] = AsSource(SourceVersion(db, s), Given(db, n - 1, s).outs)
  BY <1>3, <1>4 DEF FrameMeans
<1>6. MissingIn(db, doc) = f.skips
  <2>1. f.skips \subseteq 1 .. m
    BY <1>4 DEF FrameOK
  <2> QED BY <1>4, <1>5, <2>1 DEF MissingIn, SourceVersion
<1>7. BasesIn(db, doc, sub) = f.bases
  <2>1. \A j \in 1 .. m : BasesIn(db, doc, sub)[j] = f.bases[j]
    BY <1>4, <1>5, <1>6 DEF BasesIn, SubIn, Given, SourceVersion
  <2>2. f.bases = [j \in 1 .. m |-> f.bases[j]]
    <3>1. \A b \in Seq(Seq(Out)) : b = [j \in 1 .. Len(b) |-> b[j]]
      OBVIOUS
    <3> QED BY <1>2, <1>4, <3>1
  <2>3. BasesIn(db, doc, sub) = [j \in 1 .. m |-> BasesIn(db, doc, sub)[j]]
    BY <1>4 DEF BasesIn
  <2> HIDE DEF sub
  <2>4. [j \in 1 .. m |-> f.bases[j]] = [j \in 1 .. m |-> BasesIn(db, doc, sub)[j]]
    BY <2>1
  <2> QED BY <2>2, <2>3, <2>4
<1>8. ~Refused(db, r, n, sub)
  <2>1. \A i \in MissingIn(db, doc) : doc.extend[i].skip
    BY <1>4, <1>5, <1>6 DEF FrameOK
  <2>2. \A i \in DOMAIN doc.extend \ MissingIn(db, doc) : SubIn(doc, sub, i).ok
    BY <1>4, <1>5, <1>6 DEF SubIn, Given
  <2>3. ~ZipRefused(doc) /\ n # 0
    BY <1>3 DEF FrameOK
  <2> HIDE DEF sub
  <2> QED BY <1>2, <1>3, <2>1, <2>2, <2>3 DEF Refused
<1>9. ~(Peeks(doc) /\ MissingIn(db, doc) # {})
  <2> SUFFICES ASSUME Peeks(doc), f.skips # {} PROVE FALSE
    BY <1>6
  <2>1. m = 1 /\ 1 \in f.skips
    <3>1. m = 1
      BY <1>4 DEF Peeks
    <3> QED BY <1>4, <3>1 DEF FrameOK
  <2>2. f.bases = <<<<>>>>
    BY <1>2, <1>4, <1>5, <2>1
  <2>3. Len(Sources(f.bases)) # 1
    <3>1. Sources(f.bases) = <<>>
      BY <2>2, FlattenNothing DEF Sources
    <3> QED BY <3>1
  <2>4. Extended(doc, f.path, f.version, f.bases, f.skips) = Failed
    BY <2>3 DEF Extended, Peeks
  <2> QED BY <1>3, <2>1, <2>4 DEF Failed
<1>10. Means(db, r, n, sub) = Extended(doc, f.path, f.version, f.bases, f.skips)
  <2> HIDE DEF sub
  <2> QED BY <1>2, <1>3, <1>6, <1>7, <1>8, <1>9 DEF Means, Peeks
<1>11. MeaningIn(db)[n][r] = Means(db, r, n, sub)
  BY MeaningStep
<1> QED BY <1>1, <1>3, <1>10, <1>11

-----------------------------------------------------------------------------
(* Stacks of frames *)

Root(rq) == <<Head(rq.todo).path, rq.ref>>

\* The reference that a frame resolves
RefIn(db, fs, root, i) ==
    IF i = 1 THEN root ELSE <<SourceAt(db, fs[i - 1]).path, SourceAt(db, fs[i - 1]).ref>>

Consulting(f, ref) == [path |-> f.path, ref |-> ref, version |-> f.version]

StackOK(db, fs, root, cons) ==
    /\ fs \in Seq(Frame) /\ Len(fs) <= MaxDepth
    /\ \A i \in 1 .. Len(fs) :
          /\ FrameOK(db, fs[i]) /\ (i < Len(fs) => fs[i].pc = "enter")
          /\ RefIn(db, fs, root, i) \in Refs /\ fs[i].path = RefIn(db, fs, root, i)[1]
          /\ Consulting(fs[i], RefIn(db, fs, root, i)[2]) \in cons

StackMeans(db, fs) == \A i \in 1 .. Len(fs) : FrameMeans(db, fs[i], MaxDepth - i + 1)

\* What was consulted still is so
Holds(db, cons, skp) ==
    /\ \A c \in cons : VersionIn(db, c.path, c.ref) = c.version
    /\ \A s \in skp : VersionIn(db, s.path, s.ref) = 0

Skips(db, s) == SourceVersion(db, s) = 0 /\ s.skip

\* So far nothing has changed since it was read
NowOK(db, fs, cons, skp) ==
    fs # <<>> =>
      /\ Holds(db, cons, skp)
      /\ \A i \in 1 .. Len(fs) :
            /\ fs[i].pc = "enter" => SourceVersion(db, SourceAt(db, fs[i])) # 0
            /\ Peeks(DocAt(db, fs[i])) /\ fs[i].pc # "peek" => ~Skips(db, DocAt(db, fs[i]).extend[1])

\* The source that a frame is at.
LEMMA AtSource ==
    ASSUME NEW db \in Dbs, NEW f, FrameOK(db, f)
    PROVE  /\ DocAt(db, f) \in Docs /\ f.path \in ConfigPaths /\ f.version \in Nat \ {0}
           /\ Len(f.bases) \in Nat /\ f.bases \in Seq(Seq(Out))
           /\ Len(DocAt(db, f).extend) \in Nat
           /\ Len(f.bases) < Len(DocAt(db, f).extend) =>
                 /\ SourceAt(db, f) \in SourceRefs /\ Len(f.bases) + 1 \in 1 .. Len(DocAt(db, f).extend)
                 /\ SourceAt(db, f).path \in ConfigPaths /\ SourceAt(db, f).ref \in RefNames
                 /\ <<SourceAt(db, f).path, SourceAt(db, f).ref>> \in Refs
<1>1. f.path \in ConfigPaths /\ f.bases \in Seq(Seq(Out)) /\ Len(f.bases) \in Nat
  BY DEF FrameOK, Frame
<1>2. db[f.path].docs \in Seq(Docs) /\ f.version \in 1 .. Len(db[f.path].docs)
  BY <1>1 DEF FrameOK, Dbs, ConfigRow
<1>3. DocAt(db, f) \in Docs /\ f.version \in Nat \ {0}
  BY <1>2 DEF DocAt
<1>4. Len(DocAt(db, f).extend) \in Nat
  BY <1>3, DocFacts
<1>5. Len(f.bases) < Len(DocAt(db, f).extend) => Len(f.bases) + 1 \in 1 .. Len(DocAt(db, f).extend)
  BY <1>1, <1>4
<1> QED BY <1>1, <1>3, <1>4, <1>5, SourceFacts DEF SourceAt

\* Later states of the configs have the same documents in the same places.
LEMMA LaterFrame ==
    ASSUME NEW a \in Dbs, NEW b \in Dbs, Later(a, b), NEW f, FrameOK(a, f)
    PROVE  DocAt(b, f) = DocAt(a, f) /\ SourceAt(b, f) = SourceAt(a, f) /\ FrameOK(b, f)
<1>1. f.path \in ConfigPaths /\ f.version \in 1 .. Len(a[f.path].docs)
  BY DEF FrameOK, Frame
<1>2. a[f.path].docs \in Seq(Docs) /\ b[f.path].docs \in Seq(Docs)
  BY <1>1 DEF Dbs, ConfigRow
<1>3. DocAt(b, f) = DocAt(a, f) /\ f.version \in 1 .. Len(b[f.path].docs)
  BY <1>1, <1>2 DEF Later, DocAt
<1> QED BY <1>3 DEF SourceAt, FrameOK

\* Stacks stay right as configs get more versions.
LEMMA LaterStack ==
    ASSUME NEW a \in Dbs, NEW b \in Dbs, Later(a, b), NEW fs, NEW root, NEW cons, StackOK(a, fs, root, cons)
    PROVE  /\ StackOK(b, fs, root, cons)
           /\ \A i \in 1 .. Len(fs) : RefIn(b, fs, root, i) = RefIn(a, fs, root, i)
<1>1. \A i \in 1 .. Len(fs) : FrameOK(a, fs[i])
  BY DEF StackOK
<1>2. \A i \in 1 .. Len(fs) : FrameOK(b, fs[i]) /\ SourceAt(b, fs[i]) = SourceAt(a, fs[i])
  BY <1>1, LaterFrame
<1>3. ASSUME NEW i \in 1 .. Len(fs) PROVE RefIn(b, fs, root, i) = RefIn(a, fs, root, i)
  <2>1. i # 1 => i - 1 \in 1 .. Len(fs)
    BY DEF StackOK
  <2> QED BY <1>2, <2>1 DEF RefIn
<1> QED BY <1>2, <1>3 DEF StackOK

\* Later is a preorder.
LEMMA LaterOrder ==
    ASSUME NEW a \in Dbs, NEW b \in Dbs
    PROVE  /\ Later(a, a)
           /\ \A c \in Dbs : Later(a, b) /\ Later(b, c) => Later(a, c)
<1>1. \A d \in Dbs : \A p \in ConfigPaths : Len(d[p].docs) \in Nat
  BY DEF Dbs, ConfigRow
<1>2. Later(a, a)
  BY <1>1 DEF Later
<1>3. ASSUME NEW c \in Dbs, Later(a, b), Later(b, c) PROVE Later(a, c)
  <2> SUFFICES ASSUME NEW p \in ConfigPaths
               PROVE  /\ Len(a[p].docs) <= Len(c[p].docs)
                      /\ \A v \in 1 .. Len(a[p].docs) : c[p].docs[v] = a[p].docs[v]
    BY DEF Later
  <2>1. /\ Len(a[p].docs) <= Len(b[p].docs) /\ Len(b[p].docs) <= Len(c[p].docs)
        /\ \A v \in 1 .. Len(a[p].docs) : b[p].docs[v] = a[p].docs[v]
        /\ \A v \in 1 .. Len(b[p].docs) : c[p].docs[v] = b[p].docs[v]
    BY <1>3 DEF Later
  <2>2. Len(a[p].docs) \in Nat /\ Len(b[p].docs) \in Nat /\ Len(c[p].docs) \in Nat
    BY <1>1
  <2> QED BY <2>1, <2>2
<1> QED BY <1>2, <1>3

\* A frame on top of the others,
LEMMA Pushed ==
    ASSUME NEW fs \in Seq(Frame), NEW g \in Frame
    PROVE  /\ Append(fs, g) \in Seq(Frame) /\ Len(Append(fs, g)) = Len(fs) + 1 /\ Len(fs) \in Nat
           /\ \A i \in 1 .. Len(fs) : Append(fs, g)[i] = fs[i]
           /\ Append(fs, g)[Len(fs) + 1] = g
           /\ Append(fs, g) # <<>>
  OBVIOUS

\* in place of the top one,
LEMMA Replaced ==
    ASSUME NEW fs \in Seq(Frame), fs # <<>>, NEW g \in Frame
    PROVE  /\ [fs EXCEPT ![Len(fs)] = g] \in Seq(Frame)
           /\ Len([fs EXCEPT ![Len(fs)] = g]) = Len(fs) /\ Len(fs) \in Nat \ {0}
           /\ \A i \in 1 .. Len(fs) : i # Len(fs) => [fs EXCEPT ![Len(fs)] = g][i] = fs[i]
           /\ [fs EXCEPT ![Len(fs)] = g][Len(fs)] = g
           /\ [fs EXCEPT ![Len(fs)] = g] # <<>>
<1>1. Len(fs) \in Nat \ {0} /\ Len(fs) \in 1 .. Len(fs) /\ DOMAIN fs = 1 .. Len(fs)
  OBVIOUS
<1>2. PICK gs : gs = [fs EXCEPT ![Len(fs)] = g]
  OBVIOUS
<1>3. gs \in [1 .. Len(fs) -> Frame]
  BY <1>1, <1>2
<1>4. gs \in Seq(Frame) /\ Len(gs) = Len(fs)
  BY <1>1, <1>3
<1>5. gs # <<>>
  BY <1>1, <1>4
<1> QED BY <1>1, <1>2, <1>4, <1>5

\* and the top one off.
LEMMA Popped ==
    ASSUME NEW fs \in Seq(Frame), Len(fs) # 0
    PROVE  /\ SubSeq(fs, 1, Len(fs) - 1) \in Seq(Frame)
           /\ Len(SubSeq(fs, 1, Len(fs) - 1)) = Len(fs) - 1 /\ Len(fs) \in Nat
           /\ \A i \in 1 .. Len(fs) - 1 : SubSeq(fs, 1, Len(fs) - 1)[i] = fs[i]
<1>1. Len(fs) - 1 \in 0 .. Len(fs)
  OBVIOUS
<1> QED BY <1>1

\* One more frame on a stack, for the source its top frame is at
LEMMA StackPushed ==
    ASSUME NEW db, NEW fs, NEW root, NEW cons, StackOK(db, fs, root, cons), Len(fs) < MaxDepth,
           NEW more, cons \subseteq more, NEW g, FrameOK(db, g), NEW r \in Refs, g.path = r[1],
           Consulting(g, r[2]) \in more,
           IF fs = <<>> THEN r = root
           ELSE /\ fs[Len(fs)].pc = "enter"
                /\ r = <<SourceAt(db, fs[Len(fs)]).path, SourceAt(db, fs[Len(fs)]).ref>>
    PROVE  StackOK(db, Append(fs, g), root, more)
<1>1. fs \in Seq(Frame) /\ g \in Frame
  BY DEF StackOK, FrameOK
<1>2. PICK gs : gs = Append(fs, g)
  OBVIOUS
<1>3. PICK n \in Nat : n = Len(fs)
  BY <1>1
<1>4. /\ gs \in Seq(Frame) /\ Len(gs) = n + 1 /\ \A i \in 1 .. n : gs[i] = fs[i]
      /\ gs[n + 1] = g
  BY <1>1, <1>2, <1>3, Pushed
<1>5. ASSUME NEW i \in 1 .. n
      PROVE  /\ FrameOK(db, gs[i]) /\ gs[i].pc = "enter"
             /\ RefIn(db, gs, root, i) \in Refs /\ gs[i].path = RefIn(db, gs, root, i)[1]
             /\ Consulting(gs[i], RefIn(db, gs, root, i)[2]) \in more
  <2>1. i # 1 => i - 1 \in 1 .. n
    BY <1>3
  <2>2. RefIn(db, gs, root, i) = RefIn(db, fs, root, i) /\ gs[i] = fs[i]
    BY <1>4, <2>1 DEF RefIn
  <2>3. fs # <<>>
    BY <1>3
  <2>4. fs[i].pc = "enter"
    BY <1>3, <2>3 DEF StackOK
  <2> QED BY <1>3, <2>2, <2>4 DEF StackOK
<1>6. RefIn(db, gs, root, n + 1) = r
  <2>1. CASE fs = <<>>
    BY <1>3, <2>1 DEF RefIn
  <2>2. CASE fs # <<>>
    <3>1. n \in 1 .. n /\ n + 1 # 1 /\ n + 1 - 1 = n
      BY <1>1, <1>3, <2>2
    <3> QED BY <1>3, <1>4, <2>2, <3>1 DEF RefIn
  <2> QED BY <2>1, <2>2
<1>7. Len(gs) <= MaxDepth
  BY <1>3, <1>4, ResolutionAssumption
<1>8. \A i \in 1 .. Len(gs) : i \in 1 .. n \/ (i = n + 1 /\ ~(i < Len(gs)))
  BY <1>3, <1>4
<1>9. \A i \in 1 .. Len(gs) :
          /\ FrameOK(db, gs[i]) /\ (i < Len(gs) => gs[i].pc = "enter")
          /\ RefIn(db, gs, root, i) \in Refs /\ gs[i].path = RefIn(db, gs, root, i)[1]
          /\ Consulting(gs[i], RefIn(db, gs, root, i)[2]) \in more
  BY <1>4, <1>5, <1>6, <1>8
<1>10. StackOK(db, gs, root, more)
  BY <1>4, <1>7, <1>9 DEF StackOK
<1> QED BY <1>2, <1>10

\* The top frame at another point of the same config.
LEMMA StackReplaced ==
    ASSUME NEW db, NEW fs, NEW root, NEW cons, StackOK(db, fs, root, cons), fs # <<>>,
           NEW g, FrameOK(db, g), g.path = fs[Len(fs)].path, g.version = fs[Len(fs)].version
    PROVE  StackOK(db, [fs EXCEPT ![Len(fs)] = g], root, cons)
<1>1. fs \in Seq(Frame) /\ g \in Frame
  BY DEF StackOK, FrameOK
<1>2. PICK gs : gs = [fs EXCEPT ![Len(fs)] = g]
  OBVIOUS
<1>3. PICK n \in Nat \ {0} : n = Len(fs)
  BY <1>1
<1>4. /\ gs \in Seq(Frame) /\ Len(gs) = n /\ \A i \in 1 .. n : i # n => gs[i] = fs[i]
      /\ gs[n] = g
  BY <1>1, <1>2, <1>3, Replaced
<1>5. ASSUME NEW i \in 1 .. n
      PROVE  /\ FrameOK(db, gs[i]) /\ (i < n => gs[i].pc = "enter")
             /\ RefIn(db, gs, root, i) \in Refs /\ gs[i].path = RefIn(db, gs, root, i)[1]
             /\ Consulting(gs[i], RefIn(db, gs, root, i)[2]) \in cons
  <2>1. i # 1 => i - 1 \in 1 .. n /\ i - 1 # n
    BY <1>3
  <2>2. RefIn(db, gs, root, i) = RefIn(db, fs, root, i)
    BY <1>4, <2>1 DEF RefIn
  <2>3. /\ FrameOK(db, fs[i]) /\ (i < n => fs[i].pc = "enter")
        /\ RefIn(db, fs, root, i) \in Refs /\ fs[i].path = RefIn(db, fs, root, i)[1]
        /\ Consulting(fs[i], RefIn(db, fs, root, i)[2]) \in cons
    BY <1>3 DEF StackOK
  <2>4. CASE i # n
    BY <1>4, <2>2, <2>3, <2>4
  <2>5. CASE i = n
    <3>1. gs[i] = g /\ g.path = fs[i].path /\ g.version = fs[i].version
      BY <1>3, <1>4, <2>5
    <3> QED BY <2>2, <2>3, <2>5, <3>1 DEF Consulting
  <2> QED BY <2>4, <2>5
<1>6. StackOK(db, gs, root, cons)
  BY <1>3, <1>4, <1>5 DEF StackOK
<1> QED BY <1>2, <1>6

\* The top frame off.
LEMMA StackPopped ==
    ASSUME NEW db, NEW fs, NEW root, NEW cons, StackOK(db, fs, root, cons), Len(fs) > 1
    PROVE  StackOK(db, SubSeq(fs, 1, Len(fs) - 1), root, cons)
<1>1. fs \in Seq(Frame)
  BY DEF StackOK
<1>2. PICK gs : gs = SubSeq(fs, 1, Len(fs) - 1)
  OBVIOUS
<1>3. PICK n \in Nat : n = Len(fs) - 1 /\ Len(fs) = n + 1
  BY <1>1
<1>4. gs \in Seq(Frame) /\ Len(gs) = n /\ \A i \in 1 .. n : gs[i] = fs[i]
  BY <1>1, <1>2, <1>3, Popped
<1>5. ASSUME NEW i \in 1 .. n
      PROVE  /\ FrameOK(db, gs[i]) /\ (i < n => gs[i].pc = "enter")
             /\ RefIn(db, gs, root, i) \in Refs /\ gs[i].path = RefIn(db, gs, root, i)[1]
             /\ Consulting(gs[i], RefIn(db, gs, root, i)[2]) \in cons
  <2>1. i # 1 => i - 1 \in 1 .. n
    BY <1>3
  <2>2. RefIn(db, gs, root, i) = RefIn(db, fs, root, i) /\ i \in 1 .. Len(fs) /\ i < Len(fs)
    BY <1>3, <1>4, <2>1 DEF RefIn
  <2> QED BY <1>4, <2>2 DEF StackOK
<1>6. n <= MaxDepth
  BY <1>3, ResolutionAssumption DEF StackOK
<1>7. StackOK(db, gs, root, cons)
  BY <1>4, <1>5, <1>6 DEF StackOK
<1> QED BY <1>2, <1>7

\* What the frames hold is right after each of these changes, if it is in the
\* new frame.
LEMMA MeansPushed ==
    ASSUME NEW db, NEW fs \in Seq(Frame), NEW g \in Frame, StackMeans(db, fs), g.bases = <<>>
    PROVE  StackMeans(db, Append(fs, g))
<1>1. PICK gs : gs = Append(fs, g)
  OBVIOUS
<1>2. PICK n \in Nat : n = Len(fs)
  OBVIOUS
<1>3. Len(gs) = n + 1 /\ gs[n + 1] = g /\ \A i \in 1 .. n : gs[i] = fs[i]
  BY <1>1, <1>2, Pushed
<1>4. \A i \in 1 .. n : FrameMeans(db, gs[i], MaxDepth - i + 1)
  BY <1>2, <1>3 DEF StackMeans
<1>5. \A m : FrameMeans(db, g, m)
  BY DEF FrameMeans
<1>6. \A i \in 1 .. n + 1 : i \in 1 .. n \/ i = n + 1
  OBVIOUS
<1> QED BY <1>1, <1>3, <1>4, <1>5, <1>6 DEF StackMeans

\* The top frame with another source in.
LEMMA MeansReplaced ==
    ASSUME NEW db, NEW fs \in Seq(Frame), fs # <<>>, NEW g \in Frame, StackMeans(db, fs),
           FrameMeans(db, g, MaxDepth - Len(fs) + 1)
    PROVE  StackMeans(db, [fs EXCEPT ![Len(fs)] = g])
<1>1. PICK gs : gs = [fs EXCEPT ![Len(fs)] = g]
  OBVIOUS
<1>2. PICK n \in Nat : n = Len(fs)
  OBVIOUS
<1>3. Len(gs) = n /\ gs[n] = g /\ \A i \in 1 .. n : i # n => gs[i] = fs[i]
  BY <1>1, <1>2, Replaced
<1>4. \A i \in 1 .. n : i # n => FrameMeans(db, gs[i], MaxDepth - i + 1)
  BY <1>2, <1>3 DEF StackMeans
<1>5. FrameMeans(db, gs[n], MaxDepth - n + 1)
  BY <1>2, <1>3
<1> QED BY <1>1, <1>3, <1>4, <1>5 DEF StackMeans

\* The top frame off.
LEMMA MeansPopped ==
    ASSUME NEW db, NEW fs \in Seq(Frame), Len(fs) > 1, StackMeans(db, fs)
    PROVE  StackMeans(db, SubSeq(fs, 1, Len(fs) - 1))
<1>1. PICK gs : gs = SubSeq(fs, 1, Len(fs) - 1)
  OBVIOUS
<1>2. PICK n \in Nat : n = Len(fs) - 1 /\ Len(fs) = n + 1
  OBVIOUS
<1>3. Len(gs) = n /\ \A i \in 1 .. n : gs[i] = fs[i] /\ i \in 1 .. Len(fs)
  BY <1>1, <1>2, Popped
<1> QED BY <1>1, <1>3 DEF StackMeans

\* What NowOK says of one frame
NowFrame(db, f) ==
    /\ f.pc = "enter" => SourceVersion(db, SourceAt(db, f)) # 0
    /\ Peeks(DocAt(db, f)) /\ f.pc # "peek" => ~Skips(db, DocAt(db, f).extend[1])

\* The last frame but those: the others are as they were.
LEMMA NowChanged ==
    ASSUME NEW db, NEW fs \in Seq(Frame), NEW gs \in Seq(Frame), NEW cons, NEW skp, NEW more, NEW others,
           NowOK(db, fs, cons, skp), Holds(db, more, others), gs # <<>>,
           \A i \in 1 .. Len(gs) - 1 : i \in 1 .. Len(fs) /\ gs[i] = fs[i],
           NowFrame(db, gs[Len(gs)])
    PROVE  NowOK(db, gs, more, others)
<1>1. PICK n \in Nat \ {0} : n = Len(gs)
  OBVIOUS
<1>2. ASSUME NEW i \in 1 .. n PROVE NowFrame(db, gs[i])
  <2>1. CASE i = n
    BY <1>1, <2>1
  <2>2. CASE i # n
    <3>1. i \in 1 .. Len(fs) /\ gs[i] = fs[i] /\ fs # <<>>
      BY <1>1, <2>2
    <3> QED BY <3>1 DEF NowOK, NowFrame
  <2> QED BY <2>1, <2>2
<1> QED BY <1>1, <1>2 DEF NowOK, NowFrame

\* From a frame to its source.
LEMMA Chain ==
    ASSUME NEW db \in Dbs, NEW f, FrameOK(db, f), NEW r \in Refs, f.path = r[1],
           VersionIn(db, r[1], r[2]) = f.version,
           f.pc = "enter", SourceVersion(db, SourceAt(db, f)) # 0,
           NEW n \in 0 .. MaxDepth, MeaningIn(db)[n][r].ok
    PROVE  n # 0 /\ Given(db, n - 1, SourceAt(db, f)).ok
<1>1. DocIn(db, r) = DocAt(db, f)
  BY DEF DocIn, DocAt
<1>2. Len(f.bases) + 1 \in 1 .. Len(DocAt(db, f).extend)
  BY AtSource DEF FrameOK
<1> QED BY <1>1, <1>2, Descends DEF SourceAt

\* From one frame to the next on the stack.
LEMMA ChainUp ==
    ASSUME NEW db \in Dbs, NEW fs, NEW root, NEW cons, NEW skp, StackOK(db, fs, root, cons), NowOK(db, fs, cons, skp),
           NEW i \in 1 .. Len(fs), NEW n \in 0 .. MaxDepth, MeaningIn(db)[n][RefIn(db, fs, root, i)].ok,
           fs[i].pc = "enter"
    PROVE  /\ n # 0 /\ Given(db, n - 1, SourceAt(db, fs[i])).ok
           /\ RefIn(db, fs, root, i + 1) = <<SourceAt(db, fs[i]).path, SourceAt(db, fs[i]).ref>>
<1>1. PICK r \in Refs : r = RefIn(db, fs, root, i)
  BY DEF StackOK
<1>2. FrameOK(db, fs[i]) /\ fs[i].path = r[1] /\ Consulting(fs[i], r[2]) \in cons /\ Len(fs) \in Nat
  BY <1>1 DEF StackOK
<1>3. fs # <<>>
  BY <1>2
<1>4. VersionIn(db, r[1], r[2]) = fs[i].version
  <2>1. VersionIn(db, Consulting(fs[i], r[2]).path, Consulting(fs[i], r[2]).ref) = Consulting(fs[i], r[2]).version
    BY <1>2, <1>3 DEF NowOK, Holds
  <2> QED BY <1>2, <2>1 DEF Consulting
<1>5. SourceVersion(db, SourceAt(db, fs[i])) # 0
  BY <1>3 DEF NowOK
<1>6. n # 0 /\ Given(db, n - 1, SourceAt(db, fs[i])).ok
  BY <1>1, <1>2, <1>4, <1>5, Chain
<1>7. i + 1 # 1 /\ i + 1 - 1 = i
  BY <1>2
<1> QED BY <1>6, <1>7 DEF RefIn

\* What means something at the bottom means something all the way up.
LEMMA ChainFrom ==
    ASSUME NEW db \in Dbs, NEW fs, NEW root, NEW cons, NEW skp, StackOK(db, fs, root, cons), NowOK(db, fs, cons, skp),
           NEW i \in 1 .. Len(fs), NEW n \in 0 .. MaxDepth, MeaningIn(db)[n][RefIn(db, fs, root, i)].ok
    PROVE  \A k \in i .. Len(fs) : /\ n - (k - i) \in 0 .. MaxDepth
                                  /\ MeaningIn(db)[n - (k - i)][RefIn(db, fs, root, k)].ok
<1> DEFINE OK(k) == n - (k - i) \in 0 .. MaxDepth /\ MeaningIn(db)[n - (k - i)][RefIn(db, fs, root, k)].ok
           Done == {j \in Nat : i + j \in i .. Len(fs) => OK(i + j)}
<1>0. Len(fs) \in Nat /\ i \in Nat /\ i # 0 /\ MaxDepth \in Nat
  BY ResolutionAssumption DEF StackOK
<1>1. 0 \in Done
  <2>1. i + 0 = i /\ n - (i - i) = n
    BY <1>0
  <2> QED BY <2>1
<1>2. ASSUME NEW j \in Nat, j \in Done PROVE j + 1 \in Done
  <2> SUFFICES ASSUME i + (j + 1) \in i .. Len(fs) PROVE OK(i + (j + 1))
    OBVIOUS
  <2>1. PICK k \in i .. Len(fs) : k = i + j /\ k + 1 = i + (j + 1) /\ k < Len(fs) /\ k \in 1 .. Len(fs)
    BY <1>0
  <2>2. PICK m \in 0 .. MaxDepth : m = n - (k - i) /\ MeaningIn(db)[m][RefIn(db, fs, root, k)].ok
    BY <1>2, <2>1
  <2>3. fs[k].pc = "enter"
    BY <2>1 DEF StackOK
  <2>4. m # 0 /\ MeaningIn(db)[m - 1][RefIn(db, fs, root, k + 1)].ok
    BY <2>1, <2>2, <2>3, ChainUp DEF Given
  <2>5. m - 1 = n - ((k + 1) - i) /\ m - 1 \in 0 .. MaxDepth
    BY <1>0, <2>1, <2>2, <2>4
  <2> QED BY <2>1, <2>4, <2>5
<1> HIDE DEF OK, Done
<1>3. Nat \subseteq Done
  BY <1>1, <1>2, Induction
<1>4. ASSUME NEW k \in i .. Len(fs) PROVE OK(k)
  <2>1. PICK j \in Nat : j = k - i /\ i + j = k
    BY <1>0
  <2> QED BY <1>3, <2>1 DEF Done
<1> QED BY <1>4 DEF OK

\* The top source means something if the config that was asked for does, and
\* there is a reference left to follow to it.
LEMMA TopMeans ==
    ASSUME NEW db \in Dbs, NEW fs, NEW root, NEW cons, NEW skp, StackOK(db, fs, root, cons), NowOK(db, fs, cons, skp),
           fs # <<>>, MeaningIn(db)[MaxDepth][root].ok
    PROVE  /\ MaxDepth - Len(fs) + 1 \in 1 .. MaxDepth
           /\ MeaningIn(db)[MaxDepth - Len(fs) + 1][RefIn(db, fs, root, Len(fs))].ok
           /\ fs[Len(fs)].pc = "enter" =>
                 /\ MaxDepth - Len(fs) \in 0 .. MaxDepth
                 /\ Given(db, MaxDepth - Len(fs), SourceAt(db, fs[Len(fs)])).ok
<1>1. PICK n \in Nat \ {0} : n = Len(fs) /\ n <= MaxDepth
  BY DEF StackOK
<1>2. MaxDepth \in Nat /\ MaxDepth \in 0 .. MaxDepth /\ 1 \in 1 .. n /\ n \in 1 .. n
  BY <1>1, ResolutionAssumption
<1>3. RefIn(db, fs, root, 1) = root
  BY DEF RefIn
<1>4. MeaningIn(db)[MaxDepth - (n - 1)][RefIn(db, fs, root, n)].ok
  BY <1>1, <1>2, <1>3, ChainFrom
<1>5. MaxDepth - (n - 1) = MaxDepth - n + 1 /\ MaxDepth - n + 1 \in 1 .. MaxDepth /\ MaxDepth - n + 1 \in 0 .. MaxDepth
      /\ MaxDepth - n + 1 - 1 = MaxDepth - n /\ MaxDepth - n \in 0 .. MaxDepth
  BY <1>1, <1>2
<1>6. fs[n].pc = "enter" => Given(db, MaxDepth - n, SourceAt(db, fs[n])).ok
  BY <1>1, <1>2, <1>4, <1>5, ChainUp
<1> QED BY <1>1, <1>4, <1>5, <1>6

\* A config whose chain leads back to the same version of it means nothing: the
\* least number of references with which it did would not be the least.
LEMMA NoCycle ==
    ASSUME NEW db \in Dbs, NEW fs, NEW root, NEW cons, NEW skp, StackOK(db, fs, root, cons), NowOK(db, fs, cons, skp),
           NEW i \in 1 .. Len(fs), fs[Len(fs)].pc = "enter",
           SourceAt(db, fs[Len(fs)]).path = fs[i].path,
           SourceVersion(db, SourceAt(db, fs[Len(fs)])) = fs[i].version
    PROVE  ~MeaningIn(db)[MaxDepth][root].ok
<1> SUFFICES ASSUME MeaningIn(db)[MaxDepth][root].ok PROVE FALSE
  OBVIOUS
<1>1. PICK k \in Nat \ {0} : k = Len(fs) /\ i \in 1 .. k /\ fs # <<>>
  BY DEF StackOK
<1>2. PICK s : s = SourceAt(db, fs[k])
  OBVIOUS
<1>3. PICK r \in Refs : r = RefIn(db, fs, root, i) /\ fs[i].path = r[1] /\ Consulting(fs[i], r[2]) \in cons
  BY DEF StackOK
<1>4. VersionIn(db, r[1], r[2]) = fs[i].version
  <2>1. VersionIn(db, Consulting(fs[i], r[2]).path, Consulting(fs[i], r[2]).ref) = Consulting(fs[i], r[2]).version
    BY <1>1, <1>3 DEF NowOK, Holds
  <2> QED BY <1>3, <2>1 DEF Consulting
<1>5. FrameOK(db, fs[k]) /\ fs[k].pc = "enter"
  BY <1>1 DEF StackOK
<1>6. PICK q \in Refs : q = <<s.path, s.ref>> /\ q[1] = r[1] /\ VersionIn(db, q[1], q[2]) = VersionIn(db, r[1], r[2])
  <2>1. <<s.path, s.ref>> \in Refs
    BY <1>2, <1>5, AtSource DEF FrameOK
  <2> QED BY <1>1, <1>2, <1>3, <1>4, <2>1 DEF SourceVersion
<1>7. \A m \in 0 .. MaxDepth : MeaningIn(db)[m][q] = MeaningIn(db)[m][r]
  BY <1>6, SameMeaning
<1> DEFINE Ms == {m \in 0 .. MaxDepth : MeaningIn(db)[m][r].ok}
<1>8. Ms # {}
  <2>1. MaxDepth - k \in 0 .. MaxDepth /\ Given(db, MaxDepth - k, s).ok
    BY <1>1, <1>2, <1>5, TopMeans
  <2> QED BY <1>6, <1>7, <2>1 DEF Given
<1>9. \A m \in Ms : \E l \in Ms : l < m
  <2> SUFFICES ASSUME NEW m \in Ms PROVE \E l \in Ms : l < m
    OBVIOUS
  <2>1. PICK l : l = m - (k - i)
    OBVIOUS
  <2>2. l \in 0 .. MaxDepth /\ MeaningIn(db)[l][RefIn(db, fs, root, k)].ok
    BY <1>1, <1>3, <2>1, ChainFrom
  <2>3. l # 0 /\ Given(db, l - 1, s).ok
    BY <1>1, <1>2, <1>5, <2>2, ChainUp
  <2>4. l - 1 \in 0 .. MaxDepth /\ l - 1 < m
    BY <1>1, <2>1, <2>2, <2>3, ResolutionAssumption
  <2>5. l - 1 \in Ms
    BY <1>6, <1>7, <2>3, <2>4 DEF Given
  <2> QED BY <2>4, <2>5
<1>10. PICK m \in Ms : \A l \in Ms : <<l, m>> \notin Less
  <2>1. Ms \subseteq Nat
    BY ResolutionAssumption
  <2> HIDE DEF Ms
  <2> QED BY <1>8, <2>1, LessWF, WFMin
<1>11. PICK l \in Ms : l < m
  BY <1>9
<1>12. <<l, m>> \in Less
  <2>1. Ms \subseteq Nat
    BY ResolutionAssumption
  <2> QED BY <1>11, <2>1 DEF Less
<1> QED BY <1>10, <1>12

-----------------------------------------------------------------------------
(* The invariant of a resolve *)

Listing   == [path : ConfigPaths, seen : Nat \cup {Fresh}]
Promotion == [path : ConfigPaths, version : Nat, resolved : Nat]
Asking    == [pc : {"waiting", "next", "resolved", "done", "failed"}, todo : Seq(Listing),
              ref : RefNames, mark : BOOLEAN, promotions : Seq(Promotion)]
Outcomes  == [path : ConfigPaths \cup {"none"}, ref : RefNames,
              res : [ok : BOOLEAN, outs : Seq(NamedOut)], version : Nat]

ResTypes ==
    /\ configs \in Dbs /\ request \in Asking /\ outcome \in Outcomes /\ disturbed \in BOOLEAN
    /\ frames # <<>> => request.pc = "next" /\ request.todo # <<>>
    /\ request.pc = "waiting" => outcome = NoOutcome /\ request.todo = <<>>
    /\ request.pc = "resolved" => outcome.path \in ConfigPaths /\ request.todo # <<>>

\* A folder's rows are all listed with versions that exist, or were missing, and
\* that their tags name as long as nothing changes.
AllFresh(rq) == \A i \in 1 .. Len(rq.todo) : rq.todo[i].seen = Fresh

SeenOK ==
    /\ \/ AllFresh(request)
       \/ \A i \in 1 .. Len(request.todo) :
             request.todo[i].seen \in 0 .. Len(configs[request.todo[i].path].docs)
    /\ ~disturbed => \A i \in 1 .. Len(request.todo) :
          request.todo[i].seen # Fresh => request.todo[i].seen = Version(request.todo[i].path, request.ref)

\* What the stack holds is right in every later state in which all that was
\* consulted still is so,
MeansInv ==
    \A db \in Dbs : Later(configs, db) /\ Holds(db, consulted, skipped) => StackMeans(db, frames)

\* and so is the outcome;
Outcome(db) == WithNames(MeaningIn(db)[MaxDepth][<<outcome.path, outcome.ref>>])

OutInv ==
    outcome # NoOutcome /\ frames = <<>> /\ outcome.res.ok =>
        \A db \in Dbs : Later(configs, db) /\ Holds(db, consulted, skipped) => outcome.res = Outcome(db)

\* as long as nothing changes, failures are right too.
DefInv == outcome # NoOutcome /\ frames = <<>> /\ ~disturbed => outcome.res = Outcome(configs)

ResInv ==
    /\ ResTypes /\ SeenOK /\ MeansInv /\ OutInv /\ DefInv /\ OutputNamesDiffer
    /\ StackOK(configs, frames, Root(request), consulted)
    /\ ~disturbed => NowOK(configs, frames, consulted, skipped)

\* The reference that is being resolved
LEMMA RootFacts ==
    ASSUME ResInv, request.todo # <<>>
    PROVE  /\ Head(request.todo) \in Listing /\ Head(request.todo) = request.todo[1]
           /\ 1 \in 1 .. Len(request.todo) /\ Len(request.todo) \in Nat
           /\ Root(request) \in Refs /\ request.ref \in RefNames /\ Head(request.todo).path \in ConfigPaths
           /\ Root(request)[1] = Head(request.todo).path /\ Root(request)[2] = request.ref
<1>1. request.todo \in Seq(Listing) /\ request.ref \in RefNames
  BY DEF ResInv, ResTypes, Asking
<1>2. /\ Head(request.todo) \in Listing /\ Head(request.todo) = request.todo[1]
      /\ 1 \in 1 .. Len(request.todo) /\ Len(request.todo) \in Nat
  BY <1>1
<1>3. Head(request.todo).path \in ConfigPaths
  BY <1>2 DEF Listing
<1> QED BY <1>1, <1>2, <1>3 DEF Root, Refs, RefNames

\* A listing stays right while configs and listing stay the same.
LEMMA SeenKept ==
    ASSUME ResInv, UNCHANGED configs,
           request'.todo = request.todo, request'.ref = request.ref,
           ~disturbed' => ~disturbed \/ AllFresh(request)
    PROVE  SeenOK'
  BY DEF ResInv, SeenOK, AllFresh, Version

\* A step after which the resolve goes on.
LEMMA GoesOn ==
    ASSUME ResInv, UNCHANGED <<configs, request, outcome>>, frames' # <<>>,
           request.pc = "next", request.todo # <<>>, disturbed' \in BOOLEAN,
           ~disturbed' => ~disturbed \/ AllFresh(request),
           StackOK(configs, frames', Root(request), consulted'),
           \A db \in Dbs : Later(configs, db) /\ Holds(db, consulted', skipped') => StackMeans(db, frames'),
           ~disturbed' => NowOK(configs, frames', consulted', skipped')
    PROVE  ResInv'
<1>1. SeenOK'
  BY SeenKept
<1>2. ResTypes'
  BY DEF ResInv, ResTypes
<1>3. MeansInv' /\ OutInv' /\ DefInv'
  BY DEF MeansInv, OutInv, DefInv
<1>4. OutputNamesDiffer'
  BY DEF ResInv, OutputNamesDiffer
<1>5. /\ StackOK(configs, frames, Root(request), consulted)'
      /\ (~disturbed => NowOK(configs, frames, consulted, skipped))'
  OBVIOUS
<1> QED BY <1>1, <1>2, <1>3, <1>4, <1>5 DEF ResInv

\* What fails has no names.
LEMMA NotOk == \A res : ~res.ok => WithNames(res) = Failed
  BY DEF WithNames

\* Nothing is wrong with no frames.
LEMMA EmptyStack ==
    ASSUME NEW db, NEW root, NEW cons, NEW skp
    PROVE  StackOK(db, <<>>, root, cons) /\ StackMeans(db, <<>>) /\ NowOK(db, <<>>, cons, skp)
  BY ResolutionAssumption DEF StackOK, StackMeans, NowOK

\* A step that ends the resolve of a config, with what it means.
LEMMA Concludes ==
    ASSUME ResInv, UNCHANGED configs, NEW res \in Results, Conclude(res),
           request.pc = "next", request.todo # <<>>, disturbed' \in BOOLEAN,
           ~disturbed' => ~disturbed \/ AllFresh(request),
           res.ok => \A db \in Dbs : Later(configs, db) /\ Holds(db, consulted', skipped') =>
                        MeaningIn(db)[MaxDepth][Root(request)] = res,
           ~disturbed' => \/ MeaningIn(configs)[MaxDepth][Root(request)] = res
                          \/ ~res.ok /\ ~MeaningIn(configs)[MaxDepth][Root(request)].ok
    PROVE  ResInv'
<1>0. /\ frames' = <<>>
      /\ outcome' = [path |-> Head(request.todo).path, ref |-> request.ref, res |-> WithNames(res),
                     version |-> IF frames = <<>> THEN 0 ELSE frames[1].version]
      /\ request' = IF WithNames(res).ok THEN [request EXCEPT !.pc = "resolved"]
                    ELSE [request EXCEPT !.pc = "failed"]
  BY DEF Conclude
<1>1. request \in Asking /\ configs \in Dbs
  BY DEF ResInv, ResTypes
<1>2. request'.todo = request.todo /\ request'.ref = request.ref /\ request'.pc \in {"resolved", "failed"}
      /\ request' \in Asking
  BY <1>0, <1>1 DEF Asking
<1>3. SeenOK'
  BY <1>2, SeenKept
<1>4. outcome'.path = Head(request.todo).path /\ outcome'.ref = request.ref /\ outcome'.res = WithNames(res)
  BY <1>0
<1>5. outcome' \in Outcomes
  <2>1. (IF frames = <<>> THEN 0 ELSE frames[1].version) \in Nat
    <3>1. frames \in Seq(Frame)
      BY DEF ResInv, StackOK
    <3>2. frames # <<>> => frames[1] \in Frame
      BY <3>1
    <3> QED BY <3>2 DEF Frame
  <2>2. WithNames(res) \in [ok : BOOLEAN, outs : Seq(NamedOut)]
    BY NamesType
  <2> QED BY <1>0, <2>1, <2>2, RootFacts DEF Outcomes
<1>6. ResTypes'
  BY <1>0, <1>1, <1>2, <1>4, <1>5, RootFacts DEF ResTypes
<1>7. <<outcome'.path, outcome'.ref>> = Root(request)
  BY <1>4 DEF Root
<1>8. OutInv'
  <2> SUFFICES ASSUME WithNames(res).ok, NEW db \in Dbs, Later(configs, db), Holds(db, consulted', skipped')
               PROVE  outcome'.res = Outcome(db)'
    BY <1>4 DEF OutInv
  <2>1. res.ok
    BY NotOk DEF Failed
  <2>2. MeaningIn(db)[MaxDepth][Root(request)] = res
    BY <2>1
  <2> QED BY <1>4, <1>7, <2>2 DEF Outcome
<1>9. DefInv'
  <2> SUFFICES ASSUME ~disturbed' PROVE outcome'.res = Outcome(configs)'
    BY DEF DefInv
  <2>1. WithNames(MeaningIn(configs)[MaxDepth][Root(request)]) = WithNames(res)
    BY NotOk
  <2> QED BY <1>4, <1>7, <2>1 DEF Outcome
<1>10. OutputNamesDiffer'
  BY <1>4, NamesDiffer DEF OutputNamesDiffer
<1>11. MeansInv'
  BY <1>0, EmptyStack DEF MeansInv
<1>12. /\ StackOK(configs, frames, Root(request), consulted)'
       /\ (~disturbed => NowOK(configs, frames, consulted, skipped))'
  BY <1>0, EmptyStack
<1> QED BY <1>3, <1>6, <1>8, <1>9, <1>10, <1>11, <1>12 DEF ResInv

\* What is so of the frames now is so in every later state in which what was
\* consulted still is so.
LEMMA LaterTop ==
    ASSUME ResInv, frames # <<>>, NEW db \in Dbs, Later(configs, db), Holds(db, consulted, skipped)
    PROVE  /\ StackOK(db, frames, Root(request), consulted) /\ StackMeans(db, frames)
           /\ DocAt(db, Top) = Doc(Top) /\ SourceAt(db, Top) = Source /\ FrameOK(db, Top)
           /\ RefIn(db, frames, Root(request), Len(frames)) = RefIn(configs, frames, Root(request), Len(frames))
           /\ RefIn(db, frames, Root(request), Len(frames)) \in Refs
           /\ VersionIn(db, RefIn(db, frames, Root(request), Len(frames))[1],
                            RefIn(db, frames, Root(request), Len(frames))[2]) = Top.version
           /\ RefIn(db, frames, Root(request), Len(frames))[1] = Top.path
<1>1. StackOK(configs, frames, Root(request), consulted) /\ configs \in Dbs
  BY DEF ResInv, ResTypes
<1>2. PICK k \in Nat \ {0} : k = Len(frames) /\ k \in 1 .. Len(frames)
  BY <1>1 DEF StackOK
<1>3. PICK r : r = RefIn(db, frames, Root(request), k)
  OBVIOUS
<1>4. StackOK(db, frames, Root(request), consulted) /\ r = RefIn(configs, frames, Root(request), k)
  BY <1>1, <1>2, <1>3, LaterStack
<1>5. r \in Refs /\ frames[k].path = r[1] /\ Consulting(frames[k], r[2]) \in consulted
  BY <1>2, <1>3, <1>4 DEF StackOK
<1>6. VersionIn(db, r[1], r[2]) = frames[k].version
  <2>1. VersionIn(db, Consulting(frames[k], r[2]).path, Consulting(frames[k], r[2]).ref)
          = Consulting(frames[k], r[2]).version
    BY <1>5 DEF Holds
  <2> QED BY <1>5, <2>1 DEF Consulting
<1>7. FrameOK(configs, frames[k])
  BY <1>1, <1>2 DEF StackOK
<1>8. DocAt(configs, frames[k]) = Doc(Top) /\ SourceAt(configs, frames[k]) = Source
  BY <1>2 DEF DocAt, SourceAt, Doc, Top, Source
<1>9. /\ DocAt(db, Top) = Doc(Top) /\ SourceAt(db, Top) = Source /\ FrameOK(db, Top)
  BY <1>1, <1>2, <1>7, <1>8, LaterFrame DEF Top
<1>10. StackMeans(db, frames)
  BY DEF ResInv, MeansInv
<1> QED BY <1>2, <1>3, <1>4, <1>5, <1>6, <1>9, <1>10 DEF Top

\* The frame on top, now.
LEMMA TopNow ==
    ASSUME ResInv, frames # <<>>
    PROVE  /\ request.pc = "next" /\ request.todo # <<>> /\ disturbed \in BOOLEAN /\ configs \in Dbs
           /\ frames \in Seq(Frame) /\ Len(frames) \in 1 .. MaxDepth /\ Len(frames) \in Nat \ {0}
           /\ Top \in Frame /\ FrameOK(configs, Top) /\ Later(configs, configs)
           /\ DocAt(configs, Top) = Doc(Top) /\ SourceAt(configs, Top) = Source
           /\ StackOK(configs, frames, Root(request), consulted)
           /\ Root(request) \in Refs
<1>1. frames \in Seq(Frame) /\ Len(frames) <= MaxDepth /\ \A i \in 1 .. Len(frames) : FrameOK(configs, frames[i])
  BY DEF ResInv, StackOK
<1>2. Len(frames) \in 1 .. MaxDepth /\ Len(frames) \in Nat \ {0} /\ Len(frames) \in 1 .. Len(frames)
  BY <1>1, ResolutionAssumption
<1>3. Top \in Frame /\ FrameOK(configs, Top)
  BY <1>1, <1>2 DEF Top
<1>4. DocAt(configs, Top) = Doc(Top) /\ SourceAt(configs, Top) = Source
  BY DEF DocAt, SourceAt, Doc, Source
<1>5. request.pc = "next" /\ request.todo # <<>> /\ disturbed \in BOOLEAN /\ configs \in Dbs
  BY DEF ResInv, ResTypes
<1>6. Root(request) \in Refs
  BY <1>5, RootFacts
<1> QED BY <1>1, <1>2, <1>3, <1>4, <1>5, <1>6, LaterOrder DEF ResInv

-----------------------------------------------------------------------------
(* Every step keeps it *)

\* Failing is right as long as nothing has changed, if what the top frame
\* resolves means nothing.
LEMMA TopFails ==
    ASSUME ResInv, frames # <<>>, ~disturbed,
           ~MeaningIn(configs)[MaxDepth - Len(frames) + 1][RefIn(configs, frames, Root(request), Len(frames))].ok
    PROVE  ~MeaningIn(configs)[MaxDepth][Root(request)].ok
<1>1. NowOK(configs, frames, consulted, skipped)
  BY DEF ResInv
<1> QED BY <1>1, TopNow, TopMeans

\* The same, for the source the top frame is at.
LEMMA SourceFails ==
    ASSUME ResInv, frames # <<>>, ~disturbed, Top.pc = "enter",
           MaxDepth - Len(frames) \in 0 .. MaxDepth => ~Given(configs, MaxDepth - Len(frames), Source).ok
    PROVE  ~MeaningIn(configs)[MaxDepth][Root(request)].ok
<1>1. NowOK(configs, frames, consulted, skipped)
  BY DEF ResInv
<1>2. frames[Len(frames)] = Top /\ SourceAt(configs, Top) = Source
  BY TopNow DEF Top
<1> QED BY <1>1, <1>2, TopNow, TopMeans

\* The outputs of the top frame go to the frame below, or to the caller.
LEMMA Returns ==
    ASSUME ResInv, frames # <<>>, UNCHANGED <<configs, disturbed, consulted>>, skipped \subseteq skipped',
           NEW res \in Results, Return(res),
           ~disturbed => Holds(configs, consulted, skipped'),
           res.ok => \A db \in Dbs : Later(configs, db) /\ Holds(db, consulted, skipped') =>
              MeaningIn(db)[MaxDepth - Len(frames) + 1][RefIn(db, frames, Root(request), Len(frames))] = res,
           ~disturbed /\ ~res.ok =>
              ~MeaningIn(configs)[MaxDepth - Len(frames) + 1][RefIn(configs, frames, Root(request), Len(frames))].ok
    PROVE  ResInv'
<1>1. PICK k \in Nat \ {0} : k = Len(frames) /\ k <= MaxDepth /\ MaxDepth \in Nat
  BY TopNow, ResolutionAssumption
<1>2. \A db : Holds(db, consulted, skipped') => Holds(db, consulted, skipped)
  BY DEF Holds
<1>3. CASE ~res.ok
  <2>1. Conclude(res)
    BY <1>3 DEF Return
  <2>2. ~disturbed => ~MeaningIn(configs)[MaxDepth][Root(request)].ok
    BY <1>3, TopFails
  <2>3. request.pc = "next" /\ request.todo # <<>> /\ disturbed' \in BOOLEAN
    BY TopNow
  <2> QED BY <1>3, <2>1, <2>2, <2>3, Concludes
<1>4. CASE res.ok /\ k = 1
  <2>1. Conclude(res)
    BY <1>1, <1>4 DEF Return
  <2>2. MaxDepth - k + 1 = MaxDepth /\ \A db : RefIn(db, frames, Root(request), k) = Root(request)
    BY <1>1, <1>4 DEF RefIn
  <2>3. ASSUME NEW db \in Dbs, Later(configs, db), Holds(db, consulted, skipped')
        PROVE  MeaningIn(db)[MaxDepth][Root(request)] = res
    BY <1>1, <1>4, <2>2, <2>3
  <2>4. request.pc = "next" /\ request.todo # <<>> /\ disturbed' \in BOOLEAN /\ configs \in Dbs /\ Later(configs, configs)
    BY TopNow
  <2>5. ~disturbed' => MeaningIn(configs)[MaxDepth][Root(request)] = res
    BY <2>3, <2>4
  <2>6. \A db \in Dbs : Later(configs, db) /\ Holds(db, consulted', skipped') =>
            MeaningIn(db)[MaxDepth][Root(request)] = res
    BY <2>3
  <2> QED BY <2>1, <2>4, <2>5, <2>6, Concludes
<1>5. CASE res.ok /\ k > 1
  <2>1. PICK below : below = SubSeq(frames, 1, k - 1)
    OBVIOUS
  <2>2. PICK b : b = AsSource(Top.version, res.outs)
    OBVIOUS
  <2>3. /\ below \in Seq(Frame) /\ Len(below) = k - 1 /\ k - 1 \in Nat \ {0} /\ below # <<>>
        /\ \A i \in 1 .. k - 1 : below[i] = frames[i]
        /\ k - 1 \in 1 .. k - 1 /\ k - 1 \in 1 .. k /\ k - 1 < k
    <3>1. frames \in Seq(Frame) /\ k # 0
      BY TopNow
    <3>2. /\ below \in Seq(Frame) /\ Len(below) = k - 1 /\ \A i \in 1 .. k - 1 : below[i] = frames[i]
      BY <1>1, <2>1, <3>1, Popped
    <3>3. k - 1 \in Nat \ {0}
      BY <1>5
    <3> QED BY <3>2, <3>3
  <2>4. PICK f : f = frames[k - 1]
    OBVIOUS
  <2>5. f \in Frame /\ FrameOK(configs, f) /\ f.pc = "enter" /\ configs \in Dbs /\ below[k - 1] = f
    <3>1. FrameOK(configs, f) /\ f.pc = "enter"
      BY <1>1, <2>3, <2>4, TopNow DEF StackOK
    <3> QED BY <2>3, <2>4, <3>1, TopNow DEF FrameOK
  <2>6. PICK g : g = [f EXCEPT !.bases = Append(@, b), !.pc = "source"]
    OBVIOUS
  <2>7. frames' = [below EXCEPT ![k - 1] = g] /\ UNCHANGED <<request, outcome>>
    <3>1. ~(~res.ok \/ Len(frames) = 1)
      BY <1>1, <1>5
    <3>2. /\ frames' = [below EXCEPT ![Len(below)].pc = "source", ![Len(below)].bases = Append(@, b)]
          /\ UNCHANGED <<request, outcome>>
      BY <1>1, <2>1, <2>2, <3>1 DEF Return
    <3>3. Len(below) = k - 1
      BY <2>3
    <3>4. [below[Len(below)] EXCEPT !.bases = Append(@, b), !.pc = "source"] = g
      BY <2>5, <2>6, <3>3
    <3>5. [below EXCEPT ![Len(below)].pc = "source", ![Len(below)].bases = Append(@, b)]
            = [below EXCEPT ![Len(below)] = g]
      BY <2>3, <3>3, <3>4
    <3>6. frames' = [below EXCEPT ![Len(below)] = g]
      BY <3>2, <3>4, <3>5
    <3> QED BY <3>2, <3>3, <3>6
  <2>8. b \in Seq(Out)
    <3>1. res.outs \in Seq(Out) /\ Top.version \in Nat
      BY TopNow DEF Results, Frame
    <3> QED BY <2>2, <3>1, AsSourceType
  <2>9. PICK m \in Nat : m = Len(f.bases) /\ f.bases \in Seq(Seq(Out)) /\ m + 1 <= Len(DocAt(configs, f).extend)
                         /\ Len(DocAt(configs, f).extend) \in Nat
    <3>1. Len(f.bases) \in Nat /\ f.bases \in Seq(Seq(Out)) /\ Len(DocAt(configs, f).extend) \in Nat
      BY <2>5, AtSource
    <3>2. Len(f.bases) < Len(DocAt(configs, f).extend)
      BY <2>5 DEF FrameOK
    <3> QED BY <3>1, <3>2
  <2>10. /\ g \in Frame /\ g.bases = Append(f.bases, b) /\ g.pc = "source" /\ g.path = f.path
         /\ g.version = f.version /\ g.skips = f.skips
         /\ Len(g.bases) = m + 1 /\ (\A j \in 1 .. m : g.bases[j] = f.bases[j]) /\ g.bases[m + 1] = b
    <3>1. PICK bs : bs = Append(f.bases, b)
      OBVIOUS
    <3>2. bs \in Seq(Seq(Out)) /\ Len(bs) = m + 1 /\ (\A j \in 1 .. m : bs[j] = f.bases[j]) /\ bs[m + 1] = b
      BY <2>8, <2>9, <3>1
    <3>3. g = [f EXCEPT !.bases = bs, !.pc = "source"]
      BY <2>6, <3>1
    <3> QED BY <2>5, <3>1, <3>2, <3>3 DEF Frame
  <2>11. FrameOK(configs, g)
    <3>1. DocAt(configs, g) = DocAt(configs, f)
      BY <2>10 DEF DocAt
    <3>2. g.skips \subseteq 1 .. Len(g.bases)
      <4>1. f.skips \subseteq 1 .. m
        BY <2>5, <2>9 DEF FrameOK
      <4> QED BY <2>10, <4>1
    <3> QED BY <2>5, <2>9, <2>10, <3>1, <3>2 DEF FrameOK
  <2>12. StackOK(configs, frames', Root(request), consulted)
    <3>1. StackOK(configs, below, Root(request), consulted)
      BY <1>1, <1>5, <2>1, TopNow, StackPopped
    <3>2. g.path = below[Len(below)].path /\ g.version = below[Len(below)].version
      BY <2>3, <2>5, <2>10
    <3>3. frames' = [below EXCEPT ![Len(below)] = g]
      BY <2>3, <2>7
    <3> QED BY <2>3, <2>11, <3>1, <3>2, <3>3, StackReplaced
  <2>13. ASSUME NEW db \in Dbs, Later(configs, db), Holds(db, consulted, skipped')
         PROVE  StackMeans(db, frames')
    <3>1. StackMeans(db, frames) /\ Holds(db, consulted, skipped)
      BY <1>2, <2>13, LaterTop
    <3>2. StackMeans(db, below)
      BY <1>1, <1>5, <2>1, <3>1, TopNow, MeansPopped
    <3>3. FrameMeans(db, f, MaxDepth - (k - 1) + 1)
      BY <1>1, <2>3, <2>4, <3>1 DEF StackMeans
    <3>4. PICK n \in Nat : n = MaxDepth - k + 1 /\ n = MaxDepth - (k - 1) + 1 - 1
      BY <1>1
    <3>5. DocAt(db, f) = DocAt(configs, f) /\ SourceAt(db, f) = SourceAt(configs, f)
      BY <2>5, <2>13, LaterFrame
    <3>6. DocAt(db, g) = DocAt(db, f)
      BY <2>10 DEF DocAt
    <3>7. PICK s : s = SourceAt(db, f) /\ s = DocAt(db, f).extend[m + 1]
      BY <2>9 DEF SourceAt
    <3>8. RefIn(db, frames, Root(request), k) = <<s.path, s.ref>>
      <4>1. k # 1 /\ frames[k - 1] = f
        BY <1>5, <2>4
      <4> QED BY <3>7, <4>1 DEF RefIn
    <3>9. Given(db, n, s) = res
      BY <1>1, <1>5, <2>13, <3>4, <3>8 DEF Given
    <3>10. SourceVersion(db, s) = Top.version /\ Top.version # 0
      <4>1. VersionIn(db, <<s.path, s.ref>>[1], <<s.path, s.ref>>[2]) = Top.version
        BY <1>1, <2>13, <3>1, <3>8, LaterTop
      <4>2. Top.version # 0
        BY TopNow, AtSource
      <4> QED BY <4>1, <4>2 DEF SourceVersion
    <3>11. m + 1 \notin f.skips
      BY <2>5, <2>9 DEF FrameOK
    <3>12. FrameMeans(db, g, MaxDepth - (k - 1) + 1)
      <4>a. PICK l : l = MaxDepth - (k - 1) + 1 /\ l - 1 = n
        BY <1>1, <3>4
      <4>b. FrameMeans(db, f, l)
        BY <3>3, <4>a
      <4> SUFFICES ASSUME NEW j \in 1 .. m + 1
                   PROVE  LET t == DocAt(db, f).extend[j]
                          IN  IF j \in f.skips THEN g.bases[j] = <<>> /\ SourceVersion(db, t) = 0 /\ t.skip
                              ELSE /\ SourceVersion(db, t) # 0 /\ Given(db, n, t).ok
                                   /\ g.bases[j] = AsSource(SourceVersion(db, t), Given(db, n, t).outs)
        <5>1. \A j \in 1 .. Len(g.bases) : j \in 1 .. m + 1
          BY <2>10
        <5> QED BY <2>10, <3>6, <4>a, <5>1 DEF FrameMeans
      <4>1. CASE j \in 1 .. m
        <5>1. j \in 1 .. Len(f.bases) /\ g.bases[j] = f.bases[j]
          BY <2>9, <2>10, <4>1
        <5> QED BY <4>a, <4>b, <5>1 DEF FrameMeans
      <4>2. CASE j = m + 1
        BY <1>5, <2>2, <2>10, <3>7, <3>9, <3>10, <3>11, <4>2
      <4> QED BY <4>1, <4>2
    <3>13. frames' = [below EXCEPT ![Len(below)] = g] /\ FrameMeans(db, g, MaxDepth - Len(below) + 1)
      BY <2>3, <2>7, <3>12
    <3> QED BY <2>3, <2>10, <3>2, <3>13, MeansReplaced
  <2>14. /\ frames' \in Seq(Frame) /\ Len(frames') = k - 1 /\ frames' # <<>>
         /\ \A i \in 1 .. k - 1 : i # k - 1 => frames'[i] = below[i]
         /\ frames'[k - 1] = g
    <3>1. frames' = [below EXCEPT ![Len(below)] = g]
      BY <2>3, <2>7
    <3>2. /\ frames' \in Seq(Frame) /\ Len(frames') = Len(below) /\ frames' # <<>>
          /\ \A i \in 1 .. Len(below) : i # Len(below) => frames'[i] = below[i]
          /\ frames'[Len(below)] = g
      BY <2>3, <2>10, <3>1, Replaced
    <3> QED BY <2>3, <3>2
  <2>15. ~disturbed => NowOK(configs, frames', consulted, skipped')
    <3> SUFFICES ASSUME ~disturbed PROVE NowOK(configs, frames', consulted, skipped')
      OBVIOUS
    <3>1. NowOK(configs, frames, consulted, skipped) /\ Holds(configs, consulted, skipped')
      BY DEF ResInv
    <3>2. NowFrame(configs, frames'[Len(frames')])
      <4>1. DocAt(configs, g) = DocAt(configs, f)
        BY <2>10 DEF DocAt
      <4>2. Peeks(DocAt(configs, f)) => ~Skips(configs, DocAt(configs, f).extend[1])
        <5>1. k - 1 \in 1 .. Len(frames)
          BY <1>1, <2>3
        <5> QED BY <2>4, <2>5, <3>1, <5>1 DEF NowOK
      <4>3. NowFrame(configs, g)
        BY <2>10, <4>1, <4>2 DEF NowFrame
      <4>4. frames'[Len(frames')] = g
        BY <2>14
      <4> QED BY <4>3, <4>4
    <3>3. \A i \in 1 .. Len(frames') - 1 : i \in 1 .. Len(frames) /\ frames'[i] = frames[i]
      <4>1. \A i \in 1 .. (k - 1) - 1 : i \in 1 .. k - 1 /\ i # k - 1 /\ i \in 1 .. k
        BY <1>1
      <4> QED BY <1>1, <2>3, <2>14, <4>1
    <3> QED BY <2>14, <3>1, <3>2, <3>3, TopNow, NowChanged
  <2>16. request.pc = "next" /\ request.todo # <<>> /\ disturbed' \in BOOLEAN
    BY TopNow
  <2> QED BY <2>7, <2>12, <2>13, <2>14, <2>15, <2>16, GoesOn
<1> QED BY <1>1, <1>3, <1>4, <1>5

\* A step of the top frame.
LEMMA TopGoesOn ==
    ASSUME ResInv, frames # <<>>, UNCHANGED <<configs, request, outcome, consulted, disturbed>>,
           skipped \subseteq skipped',
           NEW g, frames' = [frames EXCEPT ![Len(frames)] = g], FrameOK(configs, g),
           g.path = Top.path, g.version = Top.version,
           \A db \in Dbs : Later(configs, db) /\ Holds(db, consulted, skipped') =>
              FrameMeans(db, g, MaxDepth - Len(frames) + 1),
           ~disturbed => Holds(configs, consulted, skipped') /\ NowFrame(configs, g)
    PROVE  ResInv'
<1>1. /\ frames \in Seq(Frame) /\ g \in Frame /\ StackOK(configs, frames, Root(request), consulted)
      /\ request.pc = "next" /\ request.todo # <<>> /\ disturbed' \in BOOLEAN
  BY TopNow DEF FrameOK
<1>2. StackOK(configs, frames', Root(request), consulted)
  BY <1>1, StackReplaced DEF Top
<1>3. /\ frames' \in Seq(Frame) /\ Len(frames') = Len(frames) /\ frames'[Len(frames)] = g /\ frames' # <<>>
      /\ Len(frames) \in Nat
      /\ \A i \in 1 .. Len(frames) : i # Len(frames) => frames'[i] = frames[i]
  BY <1>1, Replaced
<1>4. ASSUME NEW db \in Dbs, Later(configs, db), Holds(db, consulted, skipped')
      PROVE  StackMeans(db, frames')
  <2>1. Holds(db, consulted, skipped)
    BY <1>4 DEF Holds
  <2>2. StackMeans(db, frames)
    BY <1>4, <2>1, LaterTop
  <2>3. FrameMeans(db, g, MaxDepth - Len(frames) + 1)
    BY <1>4
  <2> QED BY <1>1, <2>2, <2>3, MeansReplaced
<1>5. ~disturbed => NowOK(configs, frames', consulted, skipped')
  <2> SUFFICES ASSUME ~disturbed PROVE NowOK(configs, frames', consulted, skipped')
    OBVIOUS
  <2>1. NowOK(configs, frames, consulted, skipped)
    BY DEF ResInv
  <2>2. \A i \in 1 .. Len(frames') - 1 : i \in 1 .. Len(frames) /\ frames'[i] = frames[i]
    <3>1. PICK k \in Nat : k = Len(frames)
      BY <1>3
    <3>2. Len(frames') = k /\ \A i \in 1 .. k : i # k => frames'[i] = frames[i]
      BY <1>3, <3>1
    <3>3. \A i \in 1 .. k - 1 : i \in 1 .. k /\ i # k
      BY <3>1
    <3> QED BY <3>1, <3>2, <3>3
  <2>3. frames'[Len(frames')] = g
    <3>1. PICK k : k = Len(frames)
      OBVIOUS
    <3>2. Len(frames') = k /\ frames'[k] = g
      BY <1>3, <3>1
    <3> QED BY <3>2
  <2>4. NowFrame(configs, g) /\ Holds(configs, consulted, skipped')
    OBVIOUS
  <2>5. NowFrame(configs, frames'[Len(frames')])
    BY <2>3, <2>4
  <2> QED BY <1>1, <1>3, <2>1, <2>2, <2>4, <2>5, NowChanged
<1> QED BY <1>1, <1>2, <1>3, <1>4, <1>5, GoesOn

\* One more source in the record of those that were skipped.
LEMMA SkippedMore ==
    ASSUME NEW db, NEW s, skipped' = Skipped(s), Holds(db, consulted, skipped')
    PROVE  Holds(db, consulted, skipped) /\ SourceVersion(db, s) = 0
<1>1. [path |-> s.path, ref |-> s.ref] \in skipped' /\ skipped \subseteq skipped'
  BY DEF Skipped
<1>2. VersionIn(db, [path |-> s.path, ref |-> s.ref].path, [path |-> s.path, ref |-> s.ref].ref) = 0
  BY <1>1 DEF Holds
<1> QED BY <1>1, <1>2 DEF Holds, SourceVersion

\* It is right to record what is missing now.
LEMMA SkippedNow ==
    ASSUME ResInv, ~disturbed, frames # <<>>, NEW s, skipped' = Skipped(s), Skippable(s)
    PROVE  Holds(configs, consulted, skipped')
<1>1. Holds(configs, consulted, skipped)
  BY DEF ResInv, NowOK
<1>2. VersionIn(configs, s.path, s.ref) = 0
  BY DEF Skippable, Version
<1> QED BY <1>1, <1>2 DEF Holds, Skipped

\* replicate looks at its one source.
LEMMA PeekStep ==
    ASSUME ResInv, PeekReplicated
    PROVE  ResInv'
<1>1. frames # <<>> /\ Top.pc = "peek" /\ UNCHANGED <<configs, disturbed, consulted>>
  BY DEF PeekReplicated, Kept, Undisturbed
<1>2. /\ FrameOK(configs, Top) /\ Top \in Frame /\ configs \in Dbs /\ DocAt(configs, Top) = Doc(Top)
      /\ SourceAt(configs, Top) = Source /\ Later(configs, configs) /\ Len(frames) \in 1 .. MaxDepth
      /\ Len(frames) \in Nat
  BY <1>1, TopNow
<1>3. /\ Peeks(Doc(Top)) /\ Len(Top.bases) = 0 /\ Source = Doc(Top).extend[1]
  <2>1. Peeks(Doc(Top)) /\ Len(Top.bases) < Len(Doc(Top).extend)
    BY <1>1, <1>2 DEF FrameOK
  <2>2. Len(Top.bases) \in Nat
    BY <1>2, AtSource
  <2>3. Len(Top.bases) = 0
    BY <2>1, <2>2 DEF Peeks
  <2> QED BY <2>1, <2>3 DEF Source
<1>4. CASE Skippable(Source)
  <2>1. Return(Gave(<<>>)) /\ skipped' = Skipped(Source)
    BY <1>4 DEF PeekReplicated
  <2>2. skipped \subseteq skipped' /\ Gave(<<>>) \in Results /\ Gave(<<>>).ok
    BY <2>1 DEF Skipped, Gave, Results
  <2>3. ~disturbed => Holds(configs, consulted, skipped')
    BY <1>1, <1>4, <2>1, SkippedNow
  <2>4. ASSUME NEW db \in Dbs, Later(configs, db), Holds(db, consulted, skipped')
        PROVE  MeaningIn(db)[MaxDepth - Len(frames) + 1][RefIn(db, frames, Root(request), Len(frames))] = Gave(<<>>)
    <3>1. Holds(db, consulted, skipped) /\ SourceVersion(db, Source) = 0
      BY <2>1, <2>4, SkippedMore
    <3>2. PICK r : r = RefIn(db, frames, Root(request), Len(frames))
      OBVIOUS
    <3>3. /\ r \in Refs /\ r[1] = Top.path /\ VersionIn(db, r[1], r[2]) = Top.version
          /\ FrameOK(db, Top) /\ DocAt(db, Top) = Doc(Top)
      BY <1>1, <2>4, <3>1, <3>2, LaterTop
    <3>4. r = <<Top.path, r[2]>> /\ r[2] \in RefNames
      BY <3>3 DEF Refs, RefNames
    <3>5. MaxDepth - Len(frames) + 1 \in 1 .. MaxDepth
      BY <1>2, ResolutionAssumption
    <3>6. Source.skip
      BY <1>4 DEF Skippable
    <3>7. MeaningIn(db)[MaxDepth - Len(frames) + 1][<<Top.path, r[2]>>] = Gave(<<>>)
      BY <1>3, <3>1, <3>3, <3>4, <3>5, <3>6, PeekGives
    <3> QED BY <3>2, <3>4, <3>7
  <2> QED BY <1>1, <2>1, <2>2, <2>3, <2>4, Returns
<1>5. CASE ~Skippable(Source)
  <2>1. frames' = [frames EXCEPT ![Len(frames)].pc = "source"] /\ UNCHANGED <<request, outcome, skipped>>
    BY <1>5 DEF PeekReplicated
  <2>2. PICK g : g = [Top EXCEPT !.pc = "source"]
    OBVIOUS
  <2>3. frames' = [frames EXCEPT ![Len(frames)] = g]
    BY <2>1, <2>2 DEF Top
  <2>4. /\ g \in Frame /\ g.path = Top.path /\ g.version = Top.version /\ g.bases = Top.bases
        /\ g.skips = Top.skips /\ g.pc = "source"
    BY <1>2, <2>2 DEF Frame
  <2>5. DocAt(configs, g) = Doc(Top) /\ FrameOK(configs, g)
    BY <1>2, <2>4 DEF FrameOK, DocAt
  <2>6. \A db, n : FrameMeans(db, g, n)
    BY <1>3, <2>4 DEF FrameMeans
  <2>7. NowFrame(configs, g)
    BY <1>3, <1>5, <2>4, <2>5 DEF NowFrame, Skippable, Skips, SourceVersion, Version
  <2>8. ~disturbed => Holds(configs, consulted, skipped')
    BY <1>1, <2>1 DEF ResInv, NowOK
  <2>9. skipped \subseteq skipped'
    BY <2>1
  <2> QED BY <1>1, <2>1, <2>3, <2>4, <2>5, <2>6, <2>7, <2>8, <2>9, TopGoesOn
<1> QED BY <1>4, <1>5

\* A source is skipped, fails the resolve or is to be entered.
LEMMA ClassifyStep ==
    ASSUME ResInv, ClassifySource
    PROVE  ResInv'
<1>1. /\ frames # <<>> /\ Top.pc = "source" /\ UNCHANGED <<configs, disturbed, consulted>>
      /\ Len(Top.bases) < Len(Doc(Top).extend)
  BY DEF ClassifySource, Kept, Undisturbed
<1>2. /\ FrameOK(configs, Top) /\ Top \in Frame /\ configs \in Dbs /\ DocAt(configs, Top) = Doc(Top)
      /\ SourceAt(configs, Top) = Source /\ Later(configs, configs) /\ Len(frames) \in 1 .. MaxDepth
      /\ Len(frames) \in Nat /\ request.pc = "next" /\ request.todo # <<>> /\ disturbed \in BOOLEAN
  BY <1>1, TopNow
<1>3. PICK m \in Nat : /\ m = Len(Top.bases) /\ m + 1 \in 1 .. Len(Doc(Top).extend)
                       /\ Source = Doc(Top).extend[m + 1] /\ Top.bases \in Seq(Seq(Out))
  BY <1>1, <1>2, AtSource DEF Source
<1>4. CASE Skippable(Source)
  <2>1. /\ frames' = [frames EXCEPT ![Len(frames)].bases = Append(@, <<>>),
                                    ![Len(frames)].skips = @ \cup {Len(Top.bases) + 1}]
        /\ skipped' = Skipped(Source) /\ UNCHANGED <<request, outcome>>
    BY <1>4 DEF ClassifySource
  <2>2. PICK bs : bs = Append(Top.bases, <<>>)
    OBVIOUS
  <2>3. bs \in Seq(Seq(Out)) /\ Len(bs) = m + 1 /\ bs[m + 1] = <<>> /\ \A j \in 1 .. m : bs[j] = Top.bases[j]
    <3>1. <<>> \in Seq(Out)
      OBVIOUS
    <3> QED BY <1>3, <2>2, <3>1
  <2>4. PICK g : g = [Top EXCEPT !.bases = bs, !.skips = @ \cup {m + 1}]
    OBVIOUS
  <2>5. frames' = [frames EXCEPT ![Len(frames)] = g]
    BY <1>3, <2>1, <2>2, <2>4, TopNow DEF Top
  <2>6. /\ g \in Frame /\ g.path = Top.path /\ g.version = Top.version /\ g.bases = bs
        /\ g.skips = Top.skips \cup {m + 1} /\ g.pc = "source"
    <3>1. Top.skips \cup {m + 1} \in SUBSET Nat
      BY <1>2, <1>3 DEF Frame
    <3> QED BY <1>1, <1>2, <2>3, <2>4, <3>1 DEF Frame
  <2>7. Top.skips \subseteq 1 .. m
    BY <1>2, <1>3 DEF FrameOK
  <2>8. DocAt(configs, g) = Doc(Top) /\ \A db : DocAt(db, g) = DocAt(db, Top)
    BY <1>2, <2>6 DEF DocAt
  <2>9. FrameOK(configs, g)
    <3>1. g.skips \subseteq 1 .. Len(g.bases)
      BY <1>3, <2>3, <2>6, <2>7
    <3>2. Len(g.bases) <= Len(Doc(Top).extend)
      BY <1>3, <2>3, <2>6
    <3> QED BY <1>2, <2>6, <2>8, <3>1, <3>2 DEF FrameOK
  <2>10. ASSUME NEW db \in Dbs, Later(configs, db), Holds(db, consulted, skipped')
         PROVE  FrameMeans(db, g, MaxDepth - Len(frames) + 1)
    <3>1. Holds(db, consulted, skipped) /\ SourceVersion(db, Source) = 0
      BY <2>1, <2>10, SkippedMore
    <3>2. StackMeans(db, frames) /\ DocAt(db, Top) = Doc(Top)
      BY <1>1, <2>10, <3>1, LaterTop
    <3>3. PICK n : n = MaxDepth - Len(frames) + 1 /\ FrameMeans(db, Top, n)
      BY <1>2, <3>2 DEF StackMeans, Top
    <3>4. Source.skip
      BY <1>4 DEF Skippable
    <3> SUFFICES ASSUME NEW j \in 1 .. m + 1
                 PROVE  LET t == Doc(Top).extend[j]
                        IN  IF j \in g.skips THEN bs[j] = <<>> /\ SourceVersion(db, t) = 0 /\ t.skip
                            ELSE /\ SourceVersion(db, t) # 0 /\ Given(db, n - 1, t).ok
                                 /\ bs[j] = AsSource(SourceVersion(db, t), Given(db, n - 1, t).outs)
      <4>1. \A j \in 1 .. Len(g.bases) : j \in 1 .. m + 1
        BY <2>3, <2>6
      <4> QED BY <2>6, <2>8, <3>2, <3>3, <4>1 DEF FrameMeans
    <3>5. CASE j = m + 1
      BY <1>3, <2>3, <2>6, <3>1, <3>4, <3>5
    <3>6. CASE j # m + 1
      <4>1. j \in 1 .. Len(Top.bases) /\ bs[j] = Top.bases[j] /\ (j \in g.skips <=> j \in Top.skips)
        BY <1>3, <2>3, <2>6, <3>6
      <4> QED BY <3>2, <3>3, <4>1 DEF FrameMeans
    <3> QED BY <3>5, <3>6
  <2>11. ~disturbed => Holds(configs, consulted, skipped') /\ NowFrame(configs, g)
    <3> SUFFICES ASSUME ~disturbed PROVE Holds(configs, consulted, skipped') /\ NowFrame(configs, g)
      OBVIOUS
    <3>1. Holds(configs, consulted, skipped')
      BY <1>1, <1>4, <2>1, SkippedNow
    <3>2. Peeks(Doc(Top)) => ~Skips(configs, Doc(Top).extend[1])
      <4>1. NowOK(configs, frames, consulted, skipped)
        BY DEF ResInv
      <4>2. Len(frames) \in 1 .. Len(frames)
        BY <1>2
      <4> QED BY <1>1, <1>2, <4>1, <4>2 DEF NowOK, Top
    <3> QED BY <2>6, <2>8, <3>1, <3>2 DEF NowFrame
  <2>12. skipped \subseteq skipped'
    BY <2>1 DEF Skipped
  <2> QED BY <1>1, <2>1, <2>5, <2>6, <2>9, <2>10, <2>11, <2>12, TopGoesOn
<1>5. CASE ~Skippable(Source) /\ Version(Source.path, Source.ref) = 0
  <2>1. Conclude(Failed) /\ UNCHANGED skipped
    BY <1>5 DEF ClassifySource
  <2>2. ~disturbed => ~MeaningIn(configs)[MaxDepth][Root(request)].ok
    <3> SUFFICES ASSUME ~disturbed,
                        MeaningIn(configs)[MaxDepth - Len(frames) + 1][RefIn(configs, frames, Root(request), Len(frames))].ok
                 PROVE  FALSE
      BY <1>1, TopFails
    <3>1. Holds(configs, consulted, skipped)
      BY <1>1 DEF ResInv, NowOK
    <3>2. PICK r \in Refs : r = RefIn(configs, frames, Root(request), Len(frames)) /\ r[1] = Top.path
                            /\ VersionIn(configs, r[1], r[2]) = Top.version
      BY <1>1, <1>2, <3>1, LaterTop
    <3>3. DocIn(configs, r) = Doc(Top)
      BY <3>2 DEF DocIn, Doc
    <3>4. MaxDepth - Len(frames) + 1 \in 0 .. MaxDepth
      BY <1>2, ResolutionAssumption
    <3>5. \A i \in 1 .. Len(DocIn(configs, r).extend) :
             LET s == DocIn(configs, r).extend[i]
             IN  SourceVersion(configs, s) = 0 => s.skip
      <4>1. PICK n \in 0 .. MaxDepth : n = MaxDepth - Len(frames) + 1
        BY <3>4
      <4>2. MeaningIn(configs)[n][r].ok /\ configs \in Dbs
        BY <1>2, <3>2, <4>1
      <4> QED BY <4>2, Descends
    <3>6. SourceVersion(configs, Source) = 0
      BY <1>5 DEF SourceVersion, Version
    <3>7. Source.skip
      BY <1>3, <3>3, <3>5, <3>6
    <3> QED BY <1>5, <3>7 DEF Skippable
  <2>3. Failed \in Results /\ ~Failed.ok
    BY DEF Failed, Results
  <2> QED BY <1>1, <1>2, <2>1, <2>2, <2>3, Concludes
<1>6. CASE ~Skippable(Source) /\ Version(Source.path, Source.ref) # 0
  <2>1. frames' = [frames EXCEPT ![Len(frames)].pc = "enter"] /\ UNCHANGED <<request, outcome, skipped>>
    BY <1>6 DEF ClassifySource
  <2>2. PICK g : g = [Top EXCEPT !.pc = "enter"]
    OBVIOUS
  <2>3. frames' = [frames EXCEPT ![Len(frames)] = g]
    BY <2>1, <2>2 DEF Top
  <2>4. /\ g \in Frame /\ g.path = Top.path /\ g.version = Top.version /\ g.bases = Top.bases
        /\ g.skips = Top.skips /\ g.pc = "enter"
    BY <1>2, <2>2 DEF Frame
  <2>5. DocAt(configs, g) = Doc(Top) /\ SourceAt(configs, g) = Source /\ \A db : DocAt(db, g) = DocAt(db, Top)
    BY <1>2, <2>4 DEF DocAt, SourceAt
  <2>6. FrameOK(configs, g)
    BY <1>1, <1>2, <2>4, <2>5 DEF FrameOK
  <2>7. ASSUME NEW db \in Dbs, Later(configs, db), Holds(db, consulted, skipped')
        PROVE  FrameMeans(db, g, MaxDepth - Len(frames) + 1)
    <3>1. StackMeans(db, frames)
      BY <1>1, <2>1, <2>7, LaterTop
    <3>2. FrameMeans(db, Top, MaxDepth - Len(frames) + 1)
      BY <1>2, <3>1 DEF StackMeans, Top
    <3> QED BY <2>4, <2>5, <3>2 DEF FrameMeans
  <2>8. ~disturbed => Holds(configs, consulted, skipped') /\ NowFrame(configs, g)
    <3> SUFFICES ASSUME ~disturbed PROVE Holds(configs, consulted, skipped') /\ NowFrame(configs, g)
      OBVIOUS
    <3>1. NowOK(configs, frames, consulted, skipped)
      BY DEF ResInv
    <3>2. Len(frames) \in 1 .. Len(frames)
      BY <1>2
    <3>3. Peeks(Doc(Top)) => ~Skips(configs, Doc(Top).extend[1])
      BY <1>1, <1>2, <3>1, <3>2 DEF NowOK, Top
    <3>4. SourceVersion(configs, Source) # 0
      BY <1>6 DEF SourceVersion, Version
    <3>5. Holds(configs, consulted, skipped')
      BY <1>1, <2>1, <3>1 DEF NowOK
    <3> QED BY <2>4, <2>5, <3>3, <3>4, <3>5 DEF NowFrame
  <2>9. skipped \subseteq skipped'
    BY <2>1
  <2> QED BY <1>1, <2>1, <2>3, <2>4, <2>6, <2>7, <2>8, <2>9, TopGoesOn
<1> QED BY <1>4, <1>5, <1>6

\* All sources are in: merged they are what the reference means.
LEMMA MergeStep ==
    ASSUME ResInv, MergeSources
    PROVE  ResInv'
<1>1. /\ frames # <<>> /\ Top.pc = "source" /\ UNCHANGED <<configs, disturbed, consulted>> /\ skipped' = skipped
      /\ Len(Top.bases) = Len(Doc(Top).extend)
      /\ Return(Extended(Doc(Top), Top.path, Top.version, Top.bases, Top.skips))
  BY DEF MergeSources, Kept, Undisturbed
<1>2. /\ FrameOK(configs, Top) /\ Top \in Frame /\ configs \in Dbs /\ DocAt(configs, Top) = Doc(Top)
      /\ Later(configs, configs) /\ Len(frames) \in 1 .. MaxDepth /\ Len(frames) \in 1 .. Len(frames)
  BY <1>1, TopNow
<1>3. PICK res : res = Extended(Doc(Top), Top.path, Top.version, Top.bases, Top.skips)
  OBVIOUS
<1>4. res \in Results
  <2>1. Doc(Top) \in Docs /\ Top.path \in ConfigPaths /\ Top.version \in Nat /\ Top.bases \in Seq(Seq(Out))
    BY <1>2, AtSource
  <2>2. ~ZipRefused(Doc(Top))
    BY <1>2 DEF FrameOK
  <2> QED BY <1>1, <1>3, <2>1, <2>2, ExtendedType
<1>5. ASSUME NEW db \in Dbs, Later(configs, db), Holds(db, consulted, skipped),
             res.ok \/ ~(Peeks(Doc(Top)) /\ 1 \in Top.skips)
      PROVE  MeaningIn(db)[MaxDepth - Len(frames) + 1][RefIn(db, frames, Root(request), Len(frames))] = res
  <2>1. PICK r : r = RefIn(db, frames, Root(request), Len(frames))
    OBVIOUS
  <2>2. /\ r \in Refs /\ r[1] = Top.path /\ VersionIn(db, r[1], r[2]) = Top.version
        /\ FrameOK(db, Top) /\ DocAt(db, Top) = Doc(Top) /\ StackMeans(db, frames)
    BY <1>1, <1>5, <2>1, LaterTop
  <2>3. r = <<Top.path, r[2]>> /\ r[2] \in RefNames
    BY <2>2 DEF Refs, RefNames
  <2>4. PICK n \in 1 .. MaxDepth : n = MaxDepth - Len(frames) + 1 /\ FrameMeans(db, Top, n)
    <3>1. MaxDepth - Len(frames) + 1 \in 1 .. MaxDepth
      BY <1>2, ResolutionAssumption
    <3> QED BY <1>2, <2>2, <3>1 DEF StackMeans, Top
  <2>5. MeaningIn(db)[n][<<Top.path, r[2]>>] = res
    BY <1>1, <1>3, <1>5, <2>2, <2>3, <2>4, FrameGives
  <2> QED BY <2>1, <2>3, <2>4, <2>5
<1>6. ASSUME ~disturbed PROVE ~(Peeks(Doc(Top)) /\ 1 \in Top.skips) /\ Holds(configs, consulted, skipped)
  <2>1. NowOK(configs, frames, consulted, skipped)
    BY <1>6 DEF ResInv
  <2>2. Holds(configs, consulted, skipped)
    BY <1>1, <2>1 DEF NowOK
  <2>3. Peeks(Doc(Top)) => ~Skips(configs, Doc(Top).extend[1])
    BY <1>1, <1>2, <2>1 DEF NowOK, Top
  <2>4. FrameMeans(configs, Top, MaxDepth - Len(frames) + 1)
    BY <1>1, <1>2, <2>2, LaterTop DEF StackMeans, Top
  <2>5. Top.skips \subseteq 1 .. Len(Top.bases)
    BY <1>2 DEF FrameOK
  <2>6. 1 \in Top.skips => Skips(configs, Doc(Top).extend[1])
    BY <1>2, <2>4, <2>5 DEF FrameMeans, Skips
  <2> QED BY <2>2, <2>3, <2>6
<1>7. ~disturbed => Holds(configs, consulted, skipped')
  BY <1>1, <1>6
<1>8. res.ok => \A db \in Dbs : Later(configs, db) /\ Holds(db, consulted, skipped') =>
         MeaningIn(db)[MaxDepth - Len(frames) + 1][RefIn(db, frames, Root(request), Len(frames))] = res
  BY <1>1, <1>5
<1>9. ~disturbed /\ ~res.ok =>
         ~MeaningIn(configs)[MaxDepth - Len(frames) + 1][RefIn(configs, frames, Root(request), Len(frames))].ok
  BY <1>2, <1>5, <1>6
<1>10. Return(res) /\ skipped \subseteq skipped'
  BY <1>1, <1>3
<1> QED BY <1>1, <1>4, <1>7, <1>8, <1>9, <1>10, Returns

\* A config that a resolve enters.
LEMMA NewFrame ==
    ASSUME NEW db \in Dbs, NEW path \in ConfigPaths, NEW v \in 1 .. Len(db[path].docs), NEW doc, doc = db[path].docs[v],
           ~ZipRefused(doc),
           NEW g, g = [path |-> path, version |-> v, bases |-> <<>>, skips |-> {},
                       pc |-> IF doc.mode = "replicate" /\ Len(doc.extend) = 1 THEN "peek" ELSE "source"]
    PROVE  /\ FrameOK(db, g) /\ g \in Frame /\ NowFrame(db, g)
           /\ g.path = path /\ g.version = v /\ g.bases = <<>>
<1>1. /\ g.path = path /\ g.version = v /\ g.bases = <<>> /\ g.skips = {} /\ Len(g.bases) = 0
      /\ g.pc = IF Peeks(doc) THEN "peek" ELSE "source"
  BY DEF Peeks
<1>2. v \in Nat
  <2>1. db[path].docs \in Seq(Docs)
    BY DEF Dbs, ConfigRow
  <2> QED BY <2>1
<1>3. g \in Frame
  BY <1>2 DEF Frame
<1>4. DocAt(db, g) = doc
  BY <1>1 DEF DocAt
<1>5. doc \in Docs /\ Len(doc.extend) \in Nat
  <2>1. db[path].docs \in Seq(Docs)
    BY DEF Dbs, ConfigRow
  <2>2. doc \in Docs
    BY <2>1
  <2> QED BY <2>2, DocFacts
<1>6. FrameOK(db, g)
  <2>1. 0 <= Len(doc.extend) /\ g.skips \subseteq 1 .. Len(g.bases)
    BY <1>1, <1>5
  <2>2. g.version \in 1 .. Len(db[g.path].docs)
    BY <1>1
  <2>3. CASE Peeks(doc)
    <3>1. Len(doc.extend) = 1
      BY <2>3 DEF Peeks
    <3>2. g.pc = "peek" /\ Len(g.bases) < Len(doc.extend)
      BY <1>1, <2>3, <3>1
    <3> QED BY <1>1, <1>3, <1>4, <2>1, <2>2, <2>3, <3>2 DEF FrameOK
  <2>4. CASE ~Peeks(doc)
    <3>1. g.pc = "source"
      BY <1>1, <2>4
    <3> QED BY <1>1, <1>3, <1>4, <2>1, <2>2, <3>1 DEF FrameOK
  <2> QED BY <2>3, <2>4
<1>7. NowFrame(db, g)
  BY <1>1, <1>4 DEF NowFrame
<1> QED BY <1>1, <1>3, <1>6, <1>7

\* The chain, the depth and a missing version fail only what means nothing.
LEMMA EnterStep ==
    ASSUME ResInv, EnterSource
    PROVE  ResInv'
<1>1. frames # <<>> /\ Top.pc = "enter" /\ UNCHANGED <<configs, disturbed>> /\ skipped' = skipped
  BY DEF EnterSource, Kept, Undisturbed
<1>2. /\ FrameOK(configs, Top) /\ Top \in Frame /\ configs \in Dbs /\ DocAt(configs, Top) = Doc(Top)
      /\ SourceAt(configs, Top) = Source /\ Later(configs, configs) /\ Len(frames) \in 1 .. MaxDepth
      /\ Len(frames) \in 1 .. Len(frames) /\ frames \in Seq(Frame) /\ Len(frames) \in Nat
      /\ StackOK(configs, frames, Root(request), consulted)
      /\ request.pc = "next" /\ request.todo # <<>> /\ disturbed' \in BOOLEAN
  BY <1>1, TopNow
<1>3. PICK path \in ConfigPaths : path = Source.path
  BY <1>1, <1>2, AtSource DEF FrameOK
<1>4. PICK ref \in RefNames : ref = Source.ref
  BY <1>1, <1>2, AtSource DEF FrameOK
<1>5. PICK v \in Nat : v = Version(path, ref)
  BY <1>2, VersionFacts DEF Version
<1>6. PICK doc : doc = configs[path].docs[v]
  OBVIOUS
<1>7. Enter(path, ref, v)
  BY <1>3, <1>4, <1>5 DEF EnterSource
<1>8. PICK r \in Refs : r = <<path, ref>> /\ r[1] = path /\ r[2] = ref
  <2>1. <<path, ref>> \in Refs
    BY DEF Refs, RefNames
  <2> QED BY <2>1
<1>9. /\ VersionIn(configs, r[1], r[2]) = v /\ DocIn(configs, r) = doc /\ SourceVersion(configs, Source) = v
      /\ \A n : Given(configs, n, Source) = MeaningIn(configs)[n][r]
  BY <1>3, <1>4, <1>5, <1>6, <1>8 DEF Version, DocIn, SourceVersion, Given
<1>10. ASSUME ~disturbed
       PROVE  NowOK(configs, frames, consulted, skipped) /\ Holds(configs, consulted, skipped) /\ v # 0
  <2>1. NowOK(configs, frames, consulted, skipped)
    BY <1>10 DEF ResInv
  <2> QED BY <1>1, <1>2, <1>9, <2>1 DEF NowOK, Top
<1>11. CASE v = 0 \/ Len(frames) >= MaxDepth \/ InChain(path, v) \/ ZipRefused(doc)
  <2>1. Conclude(Failed) /\ UNCHANGED consulted
    BY <1>6, <1>7, <1>11 DEF Enter
  <2>2. ASSUME ~disturbed PROVE ~MeaningIn(configs)[MaxDepth][Root(request)].ok
    <3>1. CASE Len(frames) >= MaxDepth
      <4>1. MaxDepth - Len(frames) = 0 /\ 0 \in 0 .. MaxDepth
        BY <1>2, <3>1, ResolutionAssumption
      <4>2. ~MeaningIn(configs)[0][r].ok
        BY <1>2, <4>1, Descends
      <4> QED BY <1>1, <1>9, <2>2, <4>1, <4>2, SourceFails
    <3>2. CASE InChain(path, v)
      <4>1. PICK i \in 1 .. Len(frames) : frames[i].path = path /\ frames[i].version = v
        BY <1>2, <3>2 DEF InChain
      <4>2. frames[Len(frames)] = Top
        BY DEF Top
      <4>3. SourceAt(configs, frames[Len(frames)]).path = frames[i].path
        BY <1>2, <1>3, <4>1, <4>2
      <4>4. SourceVersion(configs, SourceAt(configs, frames[Len(frames)])) = frames[i].version
        BY <1>2, <1>9, <4>1, <4>2
      <4>5. frames[Len(frames)].pc = "enter"
        BY <1>1, <4>2
      <4>6. NowOK(configs, frames, consulted, skipped)
        BY <1>10, <2>2
      <4> QED BY <1>2, <4>3, <4>4, <4>5, <4>6, NoCycle
    <3>3. CASE ZipRefused(doc)
      <4>1. ASSUME NEW n \in 0 .. MaxDepth PROVE ~MeaningIn(configs)[n][r].ok
        BY <1>2, <1>9, <3>3, Descends
      <4>2. MaxDepth - Len(frames) \in 0 .. MaxDepth => ~Given(configs, MaxDepth - Len(frames), Source).ok
        BY <1>9, <4>1
      <4> QED BY <1>1, <2>2, <4>2, SourceFails
    <3> QED BY <1>10, <1>11, <2>2, <3>1, <3>2, <3>3
  <2>3. Failed \in Results /\ ~Failed.ok
    BY DEF Failed, Results
  <2> QED BY <1>1, <1>2, <2>1, <2>2, <2>3, Concludes
<1>12. CASE ~(v = 0 \/ Len(frames) >= MaxDepth \/ InChain(path, v) \/ ZipRefused(doc))
  <2>1. PICK g : g = [path |-> path, version |-> v, bases |-> <<>>, skips |-> {},
                      pc |-> IF doc.mode = "replicate" /\ Len(doc.extend) = 1 THEN "peek" ELSE "source"]
    OBVIOUS
  <2>2. /\ consulted' = Consulted(path, ref, v) /\ frames' = Append(frames, g)
        /\ UNCHANGED <<request, outcome>>
    BY <1>6, <1>7, <1>12, <2>1 DEF Enter
  <2>3. v \in 1 .. Len(configs[path].docs)
    BY <1>2, <1>5, <1>12, VersionFacts DEF Version
  <2>4. FrameOK(configs, g) /\ g \in Frame /\ NowFrame(configs, g) /\ g.path = path /\ g.version = v /\ g.bases = <<>>
    BY <1>2, <1>6, <1>12, <2>1, <2>3, NewFrame
  <2>5. consulted' = consulted \cup {[path |-> path, ref |-> ref, version |-> v]}
    BY <1>1, <2>2 DEF Consulted
  <2>6. Consulting(g, r[2]) \in consulted' /\ consulted \subseteq consulted'
    BY <1>8, <2>4, <2>5 DEF Consulting
  <2>7. StackOK(configs, frames', Root(request), consulted')
    <3>1. frames[Len(frames)].pc = "enter"
          /\ r = <<SourceAt(configs, frames[Len(frames)]).path, SourceAt(configs, frames[Len(frames)]).ref>>
      BY <1>1, <1>2, <1>3, <1>4, <1>8 DEF Top
    <3>2. Len(frames) < MaxDepth
      BY <1>2, <1>12, ResolutionAssumption
    <3>3. PICK more : more = consulted'
      OBVIOUS
    <3>4. StackOK(configs, Append(frames, g), Root(request), more)
      BY <1>1, <1>2, <1>8, <2>4, <2>6, <3>1, <3>2, <3>3, StackPushed
    <3> QED BY <2>2, <3>3, <3>4
  <2>8. ASSUME NEW db \in Dbs, Later(configs, db), Holds(db, consulted', skipped')
        PROVE  StackMeans(db, frames')
    <3>1. Holds(db, consulted, skipped)
      BY <1>1, <2>6, <2>8 DEF Holds
    <3>2. StackMeans(db, frames)
      BY <1>1, <2>8, <3>1, LaterTop
    <3> QED BY <1>2, <2>2, <2>4, <3>2, MeansPushed
  <2>9. /\ frames' \in Seq(Frame) /\ frames' # <<>> /\ Len(frames') = Len(frames) + 1
        /\ \A i \in 1 .. Len(frames) : frames'[i] = frames[i]
        /\ frames'[Len(frames) + 1] = g
    BY <1>2, <2>2, <2>4, Pushed
  <2>10. ASSUME ~disturbed PROVE NowOK(configs, frames', consulted', skipped')
    <3>1. NowOK(configs, frames, consulted, skipped) /\ Holds(configs, consulted, skipped)
      BY <1>10, <2>10
    <3>2. Holds(configs, consulted', skipped')
      <4>1. \A c \in consulted' : VersionIn(configs, c.path, c.ref) = c.version
        BY <1>8, <1>9, <2>5, <3>1 DEF Holds
      <4> QED BY <1>1, <3>1, <4>1 DEF Holds
    <3>3. PICK k \in Nat : k = Len(frames)
      BY <1>2
    <3>4. Len(frames') = k + 1 /\ frames'[k + 1] = g
      BY <2>9, <3>3
    <3>5. NowFrame(configs, frames'[Len(frames')])
      BY <2>4, <3>4
    <3>6. \A i \in 1 .. Len(frames') - 1 : i \in 1 .. Len(frames) /\ frames'[i] = frames[i]
      <4>1. \A i \in 1 .. k : frames'[i] = frames[i]
        BY <2>9, <3>3
      <4> QED BY <3>3, <3>4, <4>1
    <3> QED BY <1>2, <2>9, <3>1, <3>2, <3>5, <3>6, NowChanged
  <2> QED BY <1>1, <1>2, <2>2, <2>7, <2>8, <2>9, <2>10, GoesOn
<1> QED BY <1>11, <1>12

\* The config that was asked for: the reference its frame resolves is the root.
LEMMA BeginConfigStep ==
    ASSUME ResInv, BeginConfig
    PROVE  ResInv'
<1>1. /\ request.pc = "next" /\ request.todo # <<>> /\ frames = <<>> /\ UNCHANGED configs /\ skipped' = {}
      /\ configs \in Dbs
  BY DEF BeginConfig, Kept, ResInv, ResTypes
<1>2. PICK c \in Listing : c = Head(request.todo) /\ c = request.todo[1]
  BY <1>1, RootFacts
<1>3. PICK path \in ConfigPaths : path = c.path
  BY <1>2 DEF Listing
<1>4. PICK ref \in RefNames : ref = request.ref
  BY <1>1, RootFacts
<1>5. PICK v : v = IF c.seen = Fresh THEN Version(c.path, request.ref) ELSE IF configs[c.path].there THEN c.seen ELSE 0
  OBVIOUS
<1>6. disturbed' = (c.seen # Fresh /\ disturbed) /\ Enter(path, ref, v)
  BY <1>2, <1>3, <1>4, <1>5 DEF BeginConfig
<1>7. 1 \in 1 .. Len(request.todo)
  BY <1>1, RootFacts
<1>8. c.seen = Fresh => AllFresh(request)
  <2>1. \A n : c.seen \in 0 .. n => c.seen # Fresh
    BY DEF Fresh
  <2> QED BY <1>2, <1>7, <2>1 DEF ResInv, SeenOK
<1>9. ~disturbed' => ~disturbed \/ AllFresh(request)
  BY <1>6, <1>8
<1>10. disturbed' \in BOOLEAN
  BY <1>6
<1>11. v \in Nat /\ (v # 0 => v \in 1 .. Len(configs[path].docs))
  <2>1. CASE c.seen = Fresh
    BY <1>1, <1>3, <1>5, <2>1, VersionFacts DEF Version
  <2>2. CASE c.seen # Fresh
    <3>1. c.seen \in 0 .. Len(configs[path].docs)
      BY <1>2, <1>3, <1>7, <2>2 DEF ResInv, SeenOK, AllFresh
    <3>2. Len(configs[path].docs) \in Nat
      BY <1>1 DEF Dbs, ConfigRow
    <3> QED BY <1>5, <2>2, <3>1, <3>2
  <2> QED BY <2>1, <2>2
<1>12. PICK r \in Refs : r = Root(request) /\ r = <<path, ref>> /\ r[1] = path /\ r[2] = ref
  BY <1>1, <1>2, <1>3, <1>4, RootFacts DEF Root
<1>13. ASSUME ~disturbed' PROVE VersionIn(configs, r[1], r[2]) = v
  <2>1. CASE c.seen = Fresh
    BY <1>3, <1>4, <1>5, <1>12, <2>1 DEF Version
  <2>2. CASE c.seen # Fresh
    <3>1. c.seen = Version(path, ref)
      BY <1>2, <1>3, <1>4, <1>6, <1>7, <1>13, <2>2 DEF ResInv, SeenOK
    <3>2. ~configs[path].there => Version(path, ref) = 0
      BY DEF Version, VersionIn
    <3> QED BY <1>3, <1>5, <1>12, <2>2, <3>1, <3>2 DEF Version
  <2> QED BY <2>1, <2>2
<1>14. PICK doc : doc = configs[path].docs[v]
  OBVIOUS
<1>15. CASE v = 0 \/ Len(frames) >= MaxDepth \/ InChain(path, v) \/ ZipRefused(doc)
  <2>1. Conclude(Failed)
    BY <1>6, <1>14, <1>15 DEF Enter
  <2>2. ~(Len(frames) >= MaxDepth) /\ ~InChain(path, v)
    BY <1>1, ResolutionAssumption DEF InChain
  <2>3. ASSUME ~disturbed' PROVE ~MeaningIn(configs)[MaxDepth][Root(request)].ok
    <3>1. DocIn(configs, r) = doc /\ VersionIn(configs, r[1], r[2]) = v
      BY <1>12, <1>13, <1>14, <2>3 DEF DocIn
    <3>2. MaxDepth \in 0 .. MaxDepth
      BY ResolutionAssumption
    <3>3. ~MeaningIn(configs)[MaxDepth][r].ok
      BY <1>1, <1>15, <2>2, <3>1, <3>2, Descends
    <3> QED BY <1>12, <3>3
  <2>4. Failed \in Results /\ ~Failed.ok
    BY DEF Failed, Results
  <2> QED BY <1>1, <1>9, <1>10, <2>1, <2>3, <2>4, Concludes
<1>16. CASE ~(v = 0 \/ Len(frames) >= MaxDepth \/ InChain(path, v) \/ ZipRefused(doc))
  <2>1. PICK g : g = [path |-> path, version |-> v, bases |-> <<>>, skips |-> {},
                      pc |-> IF doc.mode = "replicate" /\ Len(doc.extend) = 1 THEN "peek" ELSE "source"]
    OBVIOUS
  <2>2. /\ consulted' = Consulted(path, ref, v) /\ frames' = Append(frames, g)
        /\ UNCHANGED <<request, outcome>>
    BY <1>6, <1>14, <1>16, <2>1 DEF Enter
  <2>3. FrameOK(configs, g) /\ g \in Frame /\ NowFrame(configs, g) /\ g.path = path /\ g.version = v /\ g.bases = <<>>
    BY <1>1, <1>11, <1>14, <1>16, <2>1, NewFrame
  <2>4. PICK more : more = {[path |-> path, ref |-> ref, version |-> v]}
    OBVIOUS
  <2>5. consulted' = more
    BY <1>1, <2>2, <2>4 DEF Consulted
  <2>6. PICK gs : gs = Append(<<>>, g)
    OBVIOUS
  <2>7. frames' = gs /\ gs \in Seq(Frame) /\ gs # <<>> /\ Len(gs) = 1 /\ gs[1] = g
    BY <1>1, <2>2, <2>3, <2>6
  <2>8. StackOK(configs, gs, Root(request), more)
    <3>1. PICK fs : fs = <<>>
      OBVIOUS
    <3>2. PICK none : none = {}
      OBVIOUS
    <3>3. StackOK(configs, fs, Root(request), none)
      BY <3>1, EmptyStack
    <3>4. Len(fs) < MaxDepth /\ none \subseteq more
      BY <3>1, <3>2, ResolutionAssumption
    <3>5. Consulting(g, r[2]) \in more
      BY <1>12, <2>3, <2>4 DEF Consulting
    <3>6. IF fs = <<>> THEN r = Root(request)
          ELSE /\ fs[Len(fs)].pc = "enter"
               /\ r = <<SourceAt(configs, fs[Len(fs)]).path, SourceAt(configs, fs[Len(fs)]).ref>>
      BY <1>12, <3>1
    <3>7. g.path = r[1]
      BY <1>12, <2>3
    <3>8. StackOK(configs, Append(fs, g), Root(request), more)
      BY <2>3, <3>3, <3>4, <3>5, <3>6, <3>7, StackPushed
    <3> QED BY <2>6, <3>1, <3>8
  <2>9. \A db : StackMeans(db, gs)
    <3>1. \A db : StackMeans(db, <<>>) /\ <<>> \in Seq(Frame)
      BY EmptyStack
    <3> QED BY <2>3, <2>6, <3>1, MeansPushed
  <2>10. ASSUME ~disturbed' PROVE NowOK(configs, gs, more, {})
    <3>1. Holds(configs, more, {})
      BY <1>12, <1>13, <2>4, <2>10 DEF Holds
    <3>2. \A i \in 1 .. Len(gs) : i = 1 /\ gs[i] = g
      BY <2>7
    <3> QED BY <2>3, <3>1, <3>2 DEF NowOK, NowFrame
  <2>11. /\ StackOK(configs, frames', Root(request), consulted')
         /\ \A db \in Dbs : Later(configs, db) /\ Holds(db, consulted', skipped') => StackMeans(db, frames')
         /\ ~disturbed' => NowOK(configs, frames', consulted', skipped')
    BY <1>1, <2>5, <2>7, <2>8, <2>9, <2>10
  <2> QED BY <1>1, <1>9, <1>10, <2>2, <2>7, <2>11, GoesOn
<1> QED BY <1>15, <1>16

-----------------------------------------------------------------------------
(* Requests *)

\* A row of a listing, of a path
RowOf(asked, ref, p) == [path |-> p, seen |-> IF asked.folder THEN Version(p, ref) ELSE Fresh]

\* A listing is of such rows.
LEMMA ListedType ==
    ASSUME NEW asked \in Requested, NEW ref, NEW ignore \in BOOLEAN
    PROVE  Listed(asked, ref, ignore) \in Seq({RowOf(asked, ref, p) : p \in ConfigPaths})
<1> DEFINE n == Len(asked.paths)
           S == Seq({RowOf(asked, ref, p) : p \in ConfigPaths})
           Gone(p) == asked.folder /\ (IF ignore THEN Version(p, ref) = 0 ELSE ~configs[p].there)
           More(rows, p) == IF Gone(p) THEN rows ELSE Append(rows, RowOf(asked, ref, p))
           Is(rows) == rows = [i \in 0 .. n |-> IF i = 0 THEN <<>> ELSE More(rows[i - 1], asked.paths[i])]
<1>1. n \in Nat /\ \A i \in 1 .. n : asked.paths[i] \in ConfigPaths
  BY RequestsAssumption
<1>2. \A rows \in S : \A p \in ConfigPaths : More(rows, p) \in S
  <2> SUFFICES ASSUME NEW rows \in S, NEW p \in ConfigPaths PROVE More(rows, p) \in S
    OBVIOUS
  <2>1. PICK row \in {RowOf(asked, ref, q) : q \in ConfigPaths} : row = RowOf(asked, ref, p)
    OBVIOUS
  <2>2. Append(rows, row) \in S
    OBVIOUS
  <2> QED BY <2>1, <2>2
<1>3. <<>> \in S
  OBVIOUS
<1>4. \E rows : Is(rows)
  <2> HIDE DEF S, n, More
  <2>1. PICK step : step = [x \in Nat \X S |-> IF x[1] \in 1 .. n THEN More(x[2], asked.paths[x[1]]) ELSE x[2]]
    OBVIOUS
  <2>2. step \in [Nat \X S -> S]
    BY <1>1, <1>2, <2>1
  <2>3. PICK f \in [0 .. n -> S] : Recurs(n, <<>>, step, f)
    BY <1>1, <1>3, <2>2, Recursion
  <2>4. ASSUME NEW k \in 1 .. n PROVE step[<<k, f[k - 1]>>] = More(f[k - 1], asked.paths[k])
    <3>1. <<k, f[k - 1]>> \in Nat \X S
      <4>1. k - 1 \in 0 .. n /\ k \in Nat
        BY <1>1
      <4> QED BY <2>3, <4>1
    <3> QED BY <2>1, <3>1
  <2>5. f = [k \in 0 .. n |-> IF k = 0 THEN <<>> ELSE step[<<k, f[k - 1]>>]]
    BY <2>3 DEF Recurs
  <2>6. \A k \in 0 .. n : k # 0 => k \in 1 .. n
    BY <1>1
  <2>7. \A k \in 0 .. n : f[k] = IF k = 0 THEN <<>> ELSE More(f[k - 1], asked.paths[k])
    BY <2>4, <2>5, <2>6
  <2>8. Is(f)
    BY <2>5, <2>7
  <2> QED BY <2>8
<1>5. PICK rows : Is(rows) /\ Listed(asked, ref, ignore) = rows[n]
  BY <1>4 DEF Listed, RowOf
<1>6. rows[0] \in S /\ \A k \in 1 .. n : rows[k - 1] \in S => rows[k] \in S
  <2> HIDE DEF S, n, More
  <2>1. \A k \in 1 .. n : k \in 0 .. n /\ k # 0
    BY <1>1
  <2> QED BY <1>1, <1>2, <1>3, <1>5, <2>1
<1> HIDE DEF S
<1>7. \A k \in 0 .. n : rows[k] \in S
  BY <1>1, <1>6, Carried
<1>8. n \in 0 .. n
  BY <1>1
<1>9. rows[n] \in S
  BY <1>7, <1>8
<1> QED BY <1>5, <1>9 DEF S

\* No config is being resolved.
LEMMA Idle ==
    ASSUME frames' = <<>>
    PROVE  /\ MeansInv' /\ StackOK(configs, frames, Root(request), consulted)'
           /\ NowOK(configs, frames, consulted, skipped)'
  BY EmptyStack DEF MeansInv

\* A listing has the versions that the references name.
LEMMA BeginRequestStep ==
    ASSUME ResInv, NEW asked \in Requested, NEW ref \in RequestRefs, NEW mark \in BOOLEAN, NEW ignore \in BOOLEAN,
           BeginRequest(asked, ref, mark, ignore)
    PROVE  ResInv'
<1>1. /\ request.pc = "waiting" /\ disturbed' = FALSE /\ UNCHANGED <<configs, frames, consulted, skipped, outcome>>
      /\ request' = [pc |-> "next", todo |-> Listed(asked, ref, ignore), ref |-> ref, mark |-> mark,
                     promotions |-> <<>>]
  BY DEF BeginRequest, Kept
<1>2. frames' = <<>> /\ outcome' = NoOutcome /\ configs \in Dbs /\ outcome \in Outcomes
  BY <1>1 DEF ResInv, ResTypes
<1>3. ref \in RefNames /\ asked.folder \in BOOLEAN
  BY RequestsAssumption
<1>4. PICK todo : todo = Listed(asked, ref, ignore)
  OBVIOUS
<1>5. todo \in Seq({RowOf(asked, ref, p) : p \in ConfigPaths})
  BY <1>4, ListedType
<1>6. \A i \in 1 .. Len(todo) : \E p \in ConfigPaths :
         todo[i].path = p /\ todo[i].seen = (IF asked.folder THEN Version(p, ref) ELSE Fresh)
  <2>1. \A i \in 1 .. Len(todo) : todo[i] \in {RowOf(asked, ref, p) : p \in ConfigPaths}
    BY <1>5
  <2> QED BY <2>1 DEF RowOf
<1>7. \A p \in ConfigPaths : Version(p, ref) \in 0 .. Len(configs[p].docs) /\ Version(p, ref) \in Nat
  <2>1. \A p \in ConfigPaths : Len(configs[p].docs) \in Nat
    BY <1>2 DEF Dbs, ConfigRow
  <2>2. \A p \in ConfigPaths : /\ VersionIn(configs, p, ref) \in Nat
                               /\ VersionIn(configs, p, ref) # 0 => VersionIn(configs, p, ref) \in 1 .. Len(configs[p].docs)
    BY <1>2, VersionFacts
  <2> QED BY <2>1, <2>2 DEF Version
<1>8. todo \in Seq(Listing)
  <2>1. \A p \in ConfigPaths : RowOf(asked, ref, p) \in Listing
    BY <1>7 DEF RowOf, Listing
  <2>2. {RowOf(asked, ref, p) : p \in ConfigPaths} \subseteq Listing
    BY <2>1
  <2> QED BY <1>5, <2>2
<1>9. request' \in Asking
  BY <1>1, <1>3, <1>4, <1>8 DEF Asking
<1>10. ResTypes'
  BY <1>1, <1>2, <1>9 DEF ResTypes
<1>11. request'.todo = todo /\ request'.ref = ref /\ \A p : Version(p, ref)' = Version(p, ref)
  BY <1>1, <1>4 DEF Version
<1>12. SeenOK'
  <2>1. CASE ~asked.folder
    <3>1. AllFresh(request')
      BY <1>6, <1>11, <2>1 DEF AllFresh
    <3>2. \A i \in 1 .. Len(request'.todo) : request'.todo[i].seen = Fresh
      BY <3>1 DEF AllFresh
    <3> QED BY <3>1, <3>2 DEF SeenOK
  <2>2. CASE asked.folder
    <3>1. \A i \in 1 .. Len(todo) : /\ todo[i].seen \in 0 .. Len(configs[todo[i].path].docs)
                                    /\ todo[i].seen = Version(todo[i].path, ref)
      BY <1>6, <1>7, <2>2
    <3> QED BY <1>1, <1>11, <3>1 DEF SeenOK
  <2> QED BY <2>1, <2>2
<1>13. OutInv' /\ DefInv'
  BY <1>2 DEF OutInv, DefInv
<1>14. OutputNamesDiffer'
  BY <1>1 DEF ResInv, OutputNamesDiffer
<1> QED BY <1>2, <1>10, <1>12, <1>13, <1>14, Idle DEF ResInv

\* All but the first of a sequence
LEMMA TailFacts ==
    ASSUME NEW S, NEW s \in Seq(S), s # <<>>
    PROVE  /\ Tail(s) \in Seq(S) /\ Len(Tail(s)) \in Nat /\ Len(s) = Len(Tail(s)) + 1
           /\ \A i \in 1 .. Len(Tail(s)) : Tail(s)[i] = s[i + 1]
  OBVIOUS

\* A request goes on to its next config.
LEMMA NextStep ==
    ASSUME ResInv, NextInRequest
    PROVE  ResInv'
<1>1. /\ request.pc = "resolved" /\ UNCHANGED <<configs, disturbed, frames, consulted, skipped, outcome>>
  BY DEF NextInRequest, Kept, Undisturbed
<1>2. PICK more : more = (IF request.mark /\ outcome.res.outs # <<>>
                          THEN Append(request.promotions,
                                      [path |-> outcome.path, version |-> outcome.res.outs[1].version,
                                       resolved |-> outcome.version])
                          ELSE request.promotions)
  OBVIOUS
<1>3. request' = [request EXCEPT !.pc = "next", !.todo = Tail(@), !.promotions = more]
  BY <1>2 DEF NextInRequest
<1>4. /\ request \in Asking /\ configs \in Dbs /\ outcome \in Outcomes /\ outcome.path \in ConfigPaths
      /\ request.todo # <<>> /\ disturbed \in BOOLEAN
  BY <1>1 DEF ResInv, ResTypes
<1>5. frames' = <<>>
  BY <1>1 DEF ResInv, ResTypes
<1>6. more \in Seq(Promotion)
  <2>1. request.promotions \in Seq(Promotion)
    BY <1>4 DEF Asking
  <2>2. outcome.version \in Nat /\ outcome.res.outs \in Seq(NamedOut)
    BY <1>4 DEF Outcomes
  <2>3. outcome.res.outs # <<>> => outcome.res.outs[1] \in NamedOut
    BY <2>2
  <2>4. outcome.res.outs # <<>> => outcome.res.outs[1].version \in Nat
    BY <2>3 DEF NamedOut
  <2>5. CASE request.mark /\ outcome.res.outs # <<>>
    <3>1. PICK new : new = [path |-> outcome.path, version |-> outcome.res.outs[1].version,
                            resolved |-> outcome.version]
      OBVIOUS
    <3>2. new \in Promotion
      BY <1>4, <2>2, <2>4, <2>5, <3>1 DEF Promotion
    <3>3. more = Append(request.promotions, new)
      BY <1>2, <2>5, <3>1
    <3> QED BY <2>1, <3>2, <3>3
  <2>6. CASE ~(request.mark /\ outcome.res.outs # <<>>)
    BY <1>2, <2>1, <2>6
  <2> QED BY <2>5, <2>6
<1>7. PICK rest : rest = Tail(request.todo)
  OBVIOUS
<1>8. PICK n \in Nat : /\ n = Len(rest) /\ Len(request.todo) = n + 1 /\ rest \in Seq(Listing)
                       /\ \A i \in 1 .. n : rest[i] = request.todo[i + 1] /\ i + 1 \in 1 .. n + 1
  <2>1. request.todo \in Seq(Listing) /\ request.todo # <<>>
    BY <1>4 DEF Asking
  <2>2. /\ rest \in Seq(Listing) /\ Len(rest) \in Nat /\ Len(request.todo) = Len(rest) + 1
        /\ \A i \in 1 .. Len(rest) : rest[i] = request.todo[i + 1]
    BY <1>7, <2>1, TailFacts
  <2> QED BY <2>2
<1>9. request' \in Asking /\ request'.todo = rest /\ request'.ref = request.ref /\ request'.pc = "next"
  BY <1>3, <1>4, <1>6, <1>7, <1>8 DEF Asking
<1>10. ResTypes'
  BY <1>1, <1>4, <1>5, <1>9 DEF ResTypes
<1>11. SeenOK'
  <2>1. AllFresh(request) => AllFresh(request')
    BY <1>8, <1>9 DEF AllFresh
  <2>2. (\A i \in 1 .. Len(request.todo) :
             request.todo[i].seen \in 0 .. Len(configs[request.todo[i].path].docs))
        => \A i \in 1 .. Len(rest) : rest[i].seen \in 0 .. Len(configs[rest[i].path].docs)
    BY <1>8
  <2>3. ~disturbed => \A i \in 1 .. Len(rest) :
          rest[i].seen # Fresh => rest[i].seen = Version(rest[i].path, request.ref)
    BY <1>8 DEF ResInv, SeenOK
  <2> QED BY <1>1, <1>9, <2>1, <2>2, <2>3 DEF ResInv, SeenOK, Version
<1>12. OutInv' /\ DefInv' /\ OutputNamesDiffer'
  BY <1>1 DEF ResInv, OutInv, DefInv, Outcome, OutputNamesDiffer
<1> QED BY <1>5, <1>10, <1>11, <1>12, Idle DEF ResInv

\* Promotions change nothing but stable tags.
LEMMA PromotedLater ==
    ASSUME configs \in Dbs, request \in Asking
    PROVE  /\ Promoted(configs, request.promotions) \in Dbs
           /\ Later(configs, Promoted(configs, request.promotions))
<1>1. PICK ps \in Seq(Promotion) : ps = request.promotions
  BY DEF Asking
<1>2. ASSUME NEW p \in ConfigPaths
      PROVE  /\ Promoted(configs, ps)[p] \in ConfigRow
             /\ Promoted(configs, ps)[p].docs = configs[p].docs
  <2>1. PICK mine : mine = {i \in DOMAIN ps : ps[i].path = p}
    OBVIOUS
  <2>2. configs[p] \in ConfigRow
    BY DEF Dbs
  <2>3. CASE mine = {}
    BY <2>1, <2>2, <2>3 DEF Promoted
  <2>4. CASE mine # {}
    <3>1. PICK i \in mine : i = CHOOSE j \in mine : TRUE
      BY <2>4
    <3>2. ps[i] \in Promotion
      BY <2>1
    <3>3. ps[i].version \in Nat
      BY <3>2 DEF Promotion
    <3>4. Promoted(configs, ps)[p] = [configs[p] EXCEPT !.stable = ps[i].version]
      BY <2>1, <2>4, <3>1 DEF Promoted
    <3> QED BY <2>2, <3>3, <3>4 DEF ConfigRow
  <2> QED BY <2>3, <2>4
<1>3. Promoted(configs, ps) \in Dbs
  BY <1>2 DEF Promoted, Dbs
<1>4. \A p \in ConfigPaths : Len(configs[p].docs) \in Nat
  BY DEF Dbs, ConfigRow
<1>5. Later(configs, Promoted(configs, ps))
  BY <1>2, <1>4 DEF Later
<1> QED BY <1>1, <1>3, <1>5

\* What is so in later states is so in states later than one that is later.
LEMMA StillLater ==
    ASSUME ResInv, configs' \in Dbs, Later(configs, configs'), UNCHANGED <<frames, consulted, skipped, outcome>>
    PROVE  MeansInv' /\ OutInv'
<1>1. ASSUME NEW db \in Dbs, Later(configs', db), Holds(db, consulted, skipped) PROVE Later(configs, db)
  <2>1. configs \in Dbs
    BY DEF ResInv, ResTypes
  <2>2. PICK c \in Dbs : c = configs'
    OBVIOUS
  <2> QED BY <1>1, <2>1, <2>2, LaterOrder
<1>2. MeansInv'
  BY <1>1 DEF ResInv, MeansInv
<1>3. OutInv'
  BY <1>1 DEF ResInv, OutInv, Outcome
<1> QED BY <1>2, <1>3

\* Promotions leave all documents as they are.
LEMMA EndStep ==
    ASSUME ResInv, EndRequest
    PROVE  ResInv'
<1>1. /\ request.pc = "next" /\ request.todo = <<>> /\ UNCHANGED <<frames, consulted, skipped, outcome>>
      /\ configs' \in {configs, Promoted(configs, request.promotions)}
      /\ disturbed' = (disturbed \/ configs' # configs)
      /\ \E pc \in {"done", "failed"} : request' = [request EXCEPT !.pc = pc]
  BY DEF EndRequest
<1>2. request \in Asking /\ configs \in Dbs /\ outcome \in Outcomes /\ frames = <<>>
  BY <1>1 DEF ResInv, ResTypes
<1>3. request' \in Asking /\ request'.todo = <<>> /\ request'.pc \in {"done", "failed"}
  BY <1>1, <1>2 DEF Asking
<1>4. configs' \in Dbs /\ Later(configs, configs')
  BY <1>1, <1>2, PromotedLater, LaterOrder
<1>5. ResTypes'
  BY <1>1, <1>2, <1>3, <1>4 DEF ResTypes
<1>6. SeenOK'
  BY <1>3 DEF SeenOK, AllFresh
<1>7. OutInv'
  BY <1>1, <1>4, StillLater
<1>8. DefInv'
  BY <1>1 DEF ResInv, DefInv, Outcome
<1>9. OutputNamesDiffer'
  BY <1>1 DEF ResInv, OutputNamesDiffer
<1>10. frames' = <<>>
  BY <1>1, <1>2
<1> QED BY <1>5, <1>6, <1>7, <1>8, <1>9, <1>10, Idle DEF ResInv

\* Others change a config.
LEMMA Changed ==
    ASSUME ResInv, configs' \in Dbs, Later(configs, configs'), Edit
    PROVE  ResInv'
<1>1. disturbed' = TRUE /\ UNCHANGED <<request, frames, consulted, skipped, outcome>>
  BY DEF Edit
<1>2. ResTypes'
  BY <1>1 DEF ResInv, ResTypes
<1>3. SeenOK'
  <2>1. \A p \in ConfigPaths : Len(configs[p].docs) \in Nat /\ Len(configs'[p].docs) \in Nat
                               /\ Len(configs[p].docs) <= Len(configs'[p].docs)
    BY DEF ResInv, ResTypes, Dbs, ConfigRow, Later
  <2>2. \A i \in 1 .. Len(request.todo) : request.todo[i].path \in ConfigPaths
    <3>1. request.todo \in Seq(Listing)
      BY DEF ResInv, ResTypes, Asking
    <3>2. \A i \in 1 .. Len(request.todo) : request.todo[i] \in Listing
      BY <3>1
    <3> QED BY <3>2 DEF Listing
  <2>3. \A i \in 1 .. Len(request.todo) :
           request.todo[i].seen \in 0 .. Len(configs[request.todo[i].path].docs) =>
           request.todo[i].seen \in 0 .. Len(configs'[request.todo[i].path].docs)
    BY <2>1, <2>2
  <2> QED BY <1>1, <2>3 DEF ResInv, SeenOK, AllFresh
<1>4. MeansInv' /\ OutInv'
  BY <1>1, StillLater
<1>5. DefInv' /\ OutputNamesDiffer'
  BY <1>1 DEF ResInv, DefInv, OutputNamesDiffer
<1>6. StackOK(configs, frames, Root(request), consulted)'
  <2>1. PICK db \in Dbs : db = configs'
    OBVIOUS
  <2>2. configs \in Dbs /\ StackOK(configs, frames, Root(request), consulted) /\ Later(configs, db)
    BY <2>1 DEF ResInv, ResTypes
  <2>3. StackOK(db, frames, Root(request), consulted)
    BY <2>2, LaterStack
  <2> QED BY <1>1, <2>1, <2>3
<1> QED BY <1>1, <1>2, <1>3, <1>4, <1>5, <1>6 DEF ResInv

\* So do deletions and promotions of others, and an update only adds a version.
LEMMA EditSteps ==
    ASSUME ResInv, NEW p \in ConfigPaths,
           \/ DeleteConfig(p)
           \/ \E doc \in ConfigDocs : UpdateConfig(p, doc)
           \/ \E v \in 1 .. MaxConfigEdits + 1 : SetStable(p, v)
    PROVE  ResInv'
<1>1. configs \in Dbs /\ configs[p] \in ConfigRow /\ configs[p].docs \in Seq(Docs) /\ Len(configs[p].docs) \in Nat
      /\ \A q \in ConfigPaths : Len(configs[q].docs) \in Nat
  BY DEF ResInv, ResTypes, Dbs, ConfigRow
<1>2. CASE DeleteConfig(p)
  <2>1. configs' = [configs EXCEPT ![p].there = FALSE] /\ Edit
    BY <1>2 DEF DeleteConfig
  <2>2. configs' \in Dbs
    BY <1>1, <2>1 DEF Dbs, ConfigRow
  <2>3. \A q \in ConfigPaths : configs'[q].docs = configs[q].docs
    BY <1>1, <2>1 DEF Dbs
  <2>4. Later(configs, configs')
    BY <1>1, <2>3 DEF Later
  <2> QED BY <2>1, <2>2, <2>4, Changed
<1>3. ASSUME NEW doc \in ConfigDocs, UpdateConfig(p, doc) PROVE ResInv'
  <2>1. configs' = [configs EXCEPT ![p].docs = Append(@, doc)] /\ Edit
    BY <1>3 DEF UpdateConfig
  <2>2. PICK ds : ds = Append(configs[p].docs, doc)
    OBVIOUS
  <2>3. ds \in Seq(Docs) /\ Len(ds) = Len(configs[p].docs) + 1 /\ \A v \in 1 .. Len(configs[p].docs) : ds[v] = configs[p].docs[v]
    <3>1. doc \in Docs
      BY DEF Docs
    <3> QED BY <1>1, <2>2, <3>1
  <2>4. configs' = [configs EXCEPT ![p] = [configs[p] EXCEPT !.docs = ds]]
    BY <2>1, <2>2
  <2>5. configs' \in Dbs
    BY <1>1, <2>3, <2>4 DEF Dbs, ConfigRow
  <2>6. \A q \in ConfigPaths : configs'[q].docs = IF q = p THEN ds ELSE configs[q].docs
    BY <1>1, <2>4 DEF Dbs, ConfigRow
  <2>7. ASSUME NEW q \in ConfigPaths
        PROVE  /\ Len(configs[q].docs) <= Len(configs'[q].docs)
               /\ \A v \in 1 .. Len(configs[q].docs) : configs'[q].docs[v] = configs[q].docs[v]
    <3>1. CASE q = p
      BY <1>1, <2>3, <2>6, <3>1
    <3>2. CASE q # p
      <4>1. configs'[q].docs = configs[q].docs /\ Len(configs[q].docs) \in Nat
        BY <1>1, <2>6, <3>2
      <4> QED BY <4>1
    <3> QED BY <3>1, <3>2
  <2>8. Later(configs, configs')
    BY <2>7 DEF Later
  <2> QED BY <2>1, <2>5, <2>8, Changed
<1>4. ASSUME NEW v \in 1 .. MaxConfigEdits + 1, SetStable(p, v) PROVE ResInv'
  <2>1. configs' = [configs EXCEPT ![p].stable = v] /\ Edit
    BY <1>4 DEF SetStable
  <2>2. v \in Nat
    BY ResolutionAssumption
  <2>3. configs' \in Dbs
    BY <1>1, <2>1, <2>2 DEF Dbs, ConfigRow
  <2>4. \A q \in ConfigPaths : configs'[q].docs = configs[q].docs
    BY <1>1, <2>1 DEF Dbs
  <2>5. Later(configs, configs')
    BY <1>1, <2>4 DEF Later
  <2> QED BY <2>1, <2>3, <2>5, Changed
<1> QED BY <1>2, <1>3, <1>4

\* At the start nothing has been asked for.
LEMMA ResStart ==
    ASSUME ResolutionInit
    PROVE  ResInv
<1>1. PICK first \in FirstDocs : configs = [p \in ConfigPaths |-> [there |-> TRUE, docs |-> <<first[p]>>, stable |-> 0]]
  BY DEF ResolutionInit
<1>2. configs \in Dbs
  <2>1. \A p \in ConfigPaths : first[p] \in Docs
    BY DEF Docs
  <2>2. \A p \in ConfigPaths : <<first[p]>> \in Seq(Docs)
    BY <2>1
  <2> QED BY <1>1, <2>2 DEF Dbs, ConfigRow
<1>3. /\ request = [pc |-> "waiting", todo |-> <<>>, ref |-> "latest", mark |-> FALSE, promotions |-> <<>>]
      /\ frames = <<>> /\ consulted = {} /\ skipped = {} /\ outcome = NoOutcome /\ disturbed = FALSE
  BY DEF ResolutionInit
<1>4. request \in Asking
  BY <1>3 DEF Asking, RefNames
<1>5. outcome \in Outcomes
  BY <1>3 DEF Outcomes, NoOutcome, Gave, RefNames
<1>6. ResTypes
  BY <1>2, <1>3, <1>4, <1>5 DEF ResTypes
<1>7. SeenOK
  BY <1>3 DEF SeenOK, AllFresh
<1>8. MeansInv /\ StackOK(configs, frames, Root(request), consulted) /\ NowOK(configs, frames, consulted, skipped)
  BY <1>3, EmptyStack DEF MeansInv
<1>9. OutInv /\ DefInv
  BY <1>3 DEF OutInv, DefInv
<1>10. OutputNamesDiffer
  BY <1>3 DEF OutputNamesDiffer, NoOutcome, Gave
<1> QED BY <1>6, <1>7, <1>8, <1>9, <1>10 DEF ResInv

\* Nothing happens.
LEMMA ResStutters ==
    ASSUME ResInv, UNCHANGED resolutionVars
    PROVE  ResInv'
<1>1. UNCHANGED <<configs, request, frames, consulted, skipped, outcome, disturbed>>
  BY DEF resolutionVars
<1>2. ResTypes' /\ OutputNamesDiffer'
  BY <1>1 DEF ResInv, ResTypes, OutputNamesDiffer
<1>3. SeenOK'
  BY <1>1 DEF ResInv, SeenOK, AllFresh, Version
<1>4. MeansInv' /\ OutInv' /\ DefInv'
  BY <1>1 DEF ResInv, MeansInv, OutInv, DefInv, Outcome
<1> QED BY <1>1, <1>2, <1>3, <1>4 DEF ResInv

\* Every step keeps the invariant.
LEMMA ResSteps ==
    ASSUME ResInv, [ResolutionNext]_resolutionVars
    PROVE  ResInv'
<1>1. CASE UNCHANGED resolutionVars
  BY <1>1, ResStutters
<1>2. ASSUME NEW asked \in Requested, NEW ref \in RequestRefs, NEW mark \in BOOLEAN, NEW ignore \in BOOLEAN,
             BeginRequest(asked, ref, mark, ignore)
      PROVE  ResInv'
  BY <1>2, BeginRequestStep
<1>3. CASE BeginConfig \/ PeekReplicated \/ ClassifySource
  BY <1>3, BeginConfigStep, PeekStep, ClassifyStep
<1>4. CASE EnterSource \/ MergeSources
  BY <1>4, EnterStep, MergeStep
<1>5. CASE NextInRequest \/ EndRequest
  BY <1>5, NextStep, EndStep
<1>6. CASE \E p \in ConfigPaths : \/ DeleteConfig(p)
                                  \/ \E doc \in ConfigDocs : UpdateConfig(p, doc)
                                  \/ \E v \in 1 .. MaxConfigEdits + 1 : SetStable(p, v)
  BY <1>6, EditSteps
<1> QED BY <1>1, <1>2, <1>3, <1>4, <1>5, <1>6 DEF ResolutionNext

-----------------------------------------------------------------------------
(* Theorems *)

\* In every state types are right, the stack holds what its references mean in
\* every later state that agrees with what was consulted, and so does the outcome,
\* whatever the documents, the depth and the edits of others.
THEOREM ResInvHolds == ResolutionSpec => []ResInv
<1>1. ResolutionInit => ResInv
  BY ResStart
<1>2. ResInv /\ [ResolutionNext]_resolutionVars => ResInv'
  BY ResSteps
<1> QED BY <1>1, <1>2, PTL DEF ResolutionSpec

\* While nobody edits a config, a resolve gives exactly what the reference means:
\* it refuses no config that can be resolved within the depth, whatever chains and
\* cycles the documents make (_resolve_recursive and its chain of path@version).
THEOREM ResolvesRight == ResolutionSpec => []ResolvesAsDefined
<1>1. ResInv => ResolvesAsDefined
  BY MeaningNow DEF ResInv, DefInv, Outcome, ResolvesAsDefined, Resolved, MeaningOfOutcome
<1> QED BY <1>1, ResInvHolds, PTL

\* Whatever was edited meanwhile, an outcome all of whose recorded participants and
\* skipped sources still are as recorded is what resolving again would give: the
\* record of the resolve is enough to validate a cached result.
THEOREM ParticipantsSuffice == ResolutionSpec => []ParticipantsDecide
<1>1. ASSUME ResInv, Resolved, outcome.res.ok,
             \A c \in consulted : Version(c.path, c.ref) = c.version,
             \A s \in skipped : Version(s.path, s.ref) = 0
      PROVE  outcome.res = MeaningOfOutcome
  <2>1. configs \in Dbs /\ Later(configs, configs)
    BY <1>1, LaterOrder DEF ResInv, ResTypes
  <2>2. Holds(configs, consulted, skipped)
    BY <1>1 DEF Holds, Version
  <2>3. outcome.res = Outcome(configs)
    BY <1>1, <2>1, <2>2 DEF ResInv, OutInv, Resolved
  <2> QED BY <2>3, MeaningNow DEF Outcome, MeaningOfOutcome
<1>2. ResInv => ParticipantsDecide
  BY <1>1 DEF ParticipantsDecide
<1> QED BY <1>2, ResInvHolds, PTL

\* deduplicate_output_names gives no two outputs one name, unless documents name
\* outputs by more than one word.
THEOREM NamesAreUnique == ResolutionSpec => []OutputNamesDiffer
<1>1. ResInv => OutputNamesDiffer
  BY DEF ResInv
<1> QED BY <1>1, ResInvHolds, PTL

=============================================================================
