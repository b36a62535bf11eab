-------------------------- MODULE ExternalURLsProofs --------------------------
(***************************************************************************)
(* Theorems about ExternalURLs: where the requests through mounts arrive,  *)
(* for any mounts, paths and kubeconfigs, and whom the URLs in answers     *)
(* name, for any hosts, ports and proxies.                                 *)
(***************************************************************************)
EXTENDS ExternalURLs, SequenceTheorems, FiniteSetTheorems, TLAPS

Text == Seq(Tokens)

-----------------------------------------------------------------------------
(* The functions of Go's strings package, on the paths of mounts.          *)

LEMMA Slice ==
    ASSUME NEW s \in Text, NEW m \in Nat \ {0}, NEW n \in Nat, n <= Len(s)
    PROVE  /\ SubSeq(s, m, n) \in Text
           /\ Len(SubSeq(s, m, n)) = IF m <= n THEN n - m + 1 ELSE 0
           /\ \A i \in 1..n - m + 1 : SubSeq(s, m, n)[i] = s[m + i - 1]
<1>1. Len(s) \in Nat /\ \A i \in 1..Len(s) : s[i] \in Tokens
  BY ElementOfSeq, LenProperties DEF Text
<1>2. \A i \in m..n : s[i] \in Tokens
  BY <1>1
<1> QED
  BY <1>2, SubSeqProperties DEF Text

LEMMA Beginning ==
    ASSUME NEW s \in Text, NEW n \in Nat, n <= Len(s)
    PROVE  /\ SubSeq(s, 1, n) \in Text /\ Len(SubSeq(s, 1, n)) = n
           /\ \A i \in 1..n : SubSeq(s, 1, n)[i] = s[i]
<1> DEFINE front == SubSeq(s, 1, n)
<1>1. /\ front \in Text /\ Len(front) = IF 1 <= n THEN n - 1 + 1 ELSE 0
      /\ \A i \in 1..n - 1 + 1 : front[i] = s[1 + i - 1]
  BY Slice
<1> HIDE DEF front
<1>2. \A i \in 1..n : i \in 1..n - 1 + 1 /\ 1 + i - 1 = i
  OBVIOUS
<1>3. front \in Text /\ Len(front) = n /\ \A i \in 1..n : front[i] = s[i]
  BY <1>1, <1>2
<1> QED
  BY <1>3 DEF front

LEMMA Joined ==
    ASSUME NEW s \in Text, NEW t \in Text
    PROVE  /\ s \o t \in Text /\ Len(s \o t) = Len(s) + Len(t)
           /\ \A i \in 1..Len(s) : (s \o t)[i] = s[i]
           /\ \A i \in 1..Len(t) : (s \o t)[Len(s) + i] = t[i]
<1> DEFINE all == s \o t
<1>1. /\ all \in Seq(Tokens) /\ Len(all) = Len(s) + Len(t)
      /\ \A i \in 1..Len(s) + Len(t) :
            all[i] = IF i <= Len(s) THEN s[i] ELSE t[i - Len(s)]
  BY ConcatProperties DEF Text
<1>2. Len(s) \in Nat /\ Len(t) \in Nat
  BY DEF Text
<1> HIDE DEF all
<1>3. \A i \in 1..Len(t) : /\ Len(s) + i \in 1..Len(s) + Len(t)
                           /\ ~(Len(s) + i <= Len(s)) /\ Len(s) + i - Len(s) = i
  BY <1>2
<1>4. \A i \in 1..Len(t) : all[Len(s) + i] = t[i]
  BY <1>1, <1>3
<1>5. \A i \in 1..Len(s) : all[i] = s[i]
  BY <1>1, <1>2
<1> QED
  BY <1>1, <1>4, <1>5 DEF all, Text

LEMMA FirstTokens ==
    ASSUME NEW s \in Text, NEW t \in Tokens, Len(s) >= 1
    PROVE  SubSeq(<<t>>, 1, 1) = SubSeq(s, 1, 1) <=> s[1] = t
<1> DEFINE a == SubSeq(<<t>>, 1, 1)
           b == SubSeq(s, 1, 1)
<1>1. <<t>> \in Text /\ Len(<<t>>) = 1 /\ <<t>>[1] = t /\ Len(s) \in Nat
  BY DEF Text
<1>2. a \in Text /\ Len(a) = 1 /\ a[1] = t
  <2> DEFINE one == <<t>>
  <2>1. one \in Text /\ Len(one) = 1 /\ one[1] = t
    BY <1>1
  <2> HIDE DEF one
  <2>2. SubSeq(one, 1, Len(one)) = one
    BY <2>1, SubSeqFull DEF Text
  <2> QED
    BY <2>1, <2>2 DEF one
<1>3. b \in Text /\ Len(b) = 1 /\ b[1] = s[1]
  BY <1>1, Beginning
<1> HIDE DEF a, b
<1>4. ASSUME s[1] = t
      PROVE  a = b
  <2>1. \A i \in 1..Len(a) : a[i] = b[i]
    BY <1>2, <1>3, <1>4
  <2> QED
    BY <1>2, <1>3, <2>1, SeqEqual DEF Text
<1> QED
  BY <1>2, <1>3, <1>4 DEF a, b

LEMMA PrefixIsFirst ==
    ASSUME NEW s \in Text, NEW t \in Tokens
    PROVE  IsPrefix(<<t>>, s) <=> s # <<>> /\ s[1] = t
<1>1. Len(s) \in Nat /\ Len(<<t>>) = 1
  BY LenProperties DEF Text
<1>2. s = <<>> <=> Len(s) = 0
  BY EmptySeq DEF Text
<1>3. IsPrefix(<<t>>, s) <=> Len(s) >= 1 /\ SubSeq(<<t>>, 1, 1) = SubSeq(s, 1, 1)
  BY <1>1 DEF IsPrefix
<1> QED
  BY <1>1, <1>2, <1>3, FirstTokens

LEMMA SuffixIsLast ==
    ASSUME NEW s \in Text, NEW t \in Tokens
    PROVE  IsSuffix(<<t>>, s) <=> s # <<>> /\ s[Len(s)] = t
<1> DEFINE back == Reverse(s)
<1>1. Reverse(<<t>>) = <<t>>
  BY DEF Reverse
<1>2. /\ Len(s) \in Nat /\ back \in Text /\ Len(back) = Len(s)
      /\ s # <<>> => back[1] = s[Len(s)]
  BY EmptySeq, LenProperties DEF Reverse, Text
<1>3. s = <<>> <=> back = <<>>
  BY <1>2, EmptySeq DEF Text
<1>4. IsSuffix(<<t>>, s) <=> IsPrefix(<<t>>, back)
  BY <1>1 DEF IsSuffix
<1> HIDE DEF back
<1> QED
  BY <1>2, <1>3, <1>4, PrefixIsFirst

\* joinURLPath(base, path) puts exactly one slash between base and path.
LEMMA JoinedOnce ==
    ASSUME NEW base \in Text, NEW path \in Text, path # <<>>, path[1] = "/"
    PROVE  joinURLPath(base, path) = TrimSuffix(base, <<"/">>) \o path
<1> "/" \in Tokens
  BY PathTypes
<1>1. IsPrefix(<<"/">>, path)
  BY PrefixIsFirst
<1>2. CASE ~IsSuffix(<<"/">>, base)
  BY <1>1, <1>2 DEF joinURLPath, TrimSuffix
<1>3. CASE IsSuffix(<<"/">>, base)
  <2>1. base # <<>> /\ base[Len(base)] = "/" /\ Len(base) \in Nat \ {0}
    BY <1>3, SuffixIsLast, EmptySeq DEF Text
  <2> DEFINE short == SubSeq(base, 1, Len(base) - 1)
  <2>2. joinURLPath(base, path) = base \o Tail(path)
    BY <1>1, <1>3 DEF joinURLPath
  <2>3. TrimSuffix(base, <<"/">>) = short
    BY <1>3 DEF TrimSuffix
  <2>4. /\ short \in Text /\ Len(short) = Len(base) - 1
        /\ \A i \in 1..Len(base) - 1 : short[i] = base[i]
    <3>1. Len(base) - 1 \in Nat /\ Len(base) - 1 <= Len(base)
      BY <2>1
    <3> QED
      BY <3>1, Beginning
  <2>5. /\ Tail(path) \in Text /\ Len(path) \in Nat \ {0}
        /\ Len(Tail(path)) = Len(path) - 1
        /\ \A i \in 1..Len(path) - 1 : Tail(path)[i] = path[i + 1]
    BY HeadTailProperties, EmptySeq DEF Text
  <2> HIDE DEF short
  <2> DEFINE left == base \o Tail(path)
             right == short \o path
  <2>6. /\ left \in Text /\ Len(left) = Len(base) + Len(path) - 1
        /\ \A i \in 1..Len(left) :
              left[i] = IF i <= Len(base) THEN base[i] ELSE Tail(path)[i - Len(base)]
    BY <2>1, <2>5, ConcatProperties DEF Text
  <2>7. /\ right \in Text /\ Len(right) = Len(base) + Len(path) - 1
        /\ \A i \in 1..Len(right) :
              right[i] = IF i <= Len(base) - 1 THEN short[i]
                         ELSE path[i - (Len(base) - 1)]
    <3>1. short \in Seq(Tokens) /\ path \in Seq(Tokens)
      BY <2>4 DEF Text
    <3>2. /\ right \in Seq(Tokens) /\ Len(right) = Len(short) + Len(path)
          /\ \A i \in 1..Len(short) + Len(path) :
                right[i] = IF i <= Len(short) THEN short[i] ELSE path[i - Len(short)]
      BY <3>1, ConcatProperties
    <3> HIDE DEF right
    <3> QED
      BY <2>1, <2>4, <2>5, <3>2 DEF Text
  <2> HIDE DEF left, right
  <2>8. \A i \in 1..Len(left) : left[i] = right[i]
    BY <2>1, <2>4, <2>5, <2>6, <2>7
  <2>9. left = right
    BY <2>6, <2>7, <2>8, SeqEqual DEF Text
  <2> QED
    BY <2>2, <2>3, <2>9 DEF left, right
<1> QED
  BY <1>2, <1>3
-----------------------------------------------------------------------------
(* From the URL of a mount to its cluster.                                 *)

\* A flag of the controller may end in a slash or not: the path is the same.
LEMMA PublishedForm ==
    ASSUME NEW basePath \in ProxyBasePaths, NEW m \in Mounts
    PROVE  PublishedPath(basePath, m) = <<"/", "mounts", "/", m[1], "/", m[2]>>
<1>1. "/" \in Tokens /\ <<>> \in Text /\ <<"/">> \in Text
  BY PathTypes DEF Text
<1>2. TrimSuffix(basePath, <<"/">>) = <<>>
  <2>1. CASE basePath = <<>>
    <3>1. ~IsSuffix(<<"/">>, basePath)
      BY <1>1, <2>1, SuffixIsLast
    <3> QED
      BY <2>1, <3>1 DEF TrimSuffix
  <2>2. CASE basePath = <<"/">>
    <3>1. Len(<<"/">>) = 1 /\ <<"/">>[1] = "/" /\ <<"/">> # <<>>
      OBVIOUS
    <3>2. IsSuffix(<<"/">>, basePath)
      BY <1>1, <2>2, <3>1, SuffixIsLast
    <3>3. TrimSuffix(basePath, <<"/">>) = SubSeq(basePath, 1, 0)
      BY <2>2, <3>1, <3>2 DEF TrimSuffix
    <3> QED
      BY <3>3, SubSeqEmpty
  <2> QED
    BY <2>1, <2>2, BasePathIsRoot
<1> DEFINE path == <<"/", "mounts", "/", m[1], "/", m[2]>>
<1>3. path \in Seq(Tokens)
  BY PathTypes
<1>4. <<>> \o path = path
  BY <1>3, ConcatEmptySeq
<1> HIDE DEF path
<1>5. PublishedPath(basePath, m) = <<>> \o path
  BY <1>2 DEF PublishedPath, path
<1> QED
  BY <1>4, <1>5 DEF path

\* The proxy cuts off what the controller has put in front of the mount.
LEMMA PrefixCut ==
    ASSUME NEW m \in Mounts, NEW rest \in RestPaths
    PROVE  TrimPrefix(<<"/", "mounts", "/", m[1], "/", m[2]>> \o rest,
                      <<"/", "mounts", "/">>)
             = <<m[1], "/", m[2]>> \o rest
<1> DEFINE head == <<"/", "mounts", "/">>
           mount == <<m[1], "/", m[2]>>
           path == <<"/", "mounts", "/", m[1], "/", m[2]>>
<1>1. /\ head \in Text /\ Len(head) = 3
      /\ mount \in Text /\ Len(mount) = 3
      /\ path \in Text /\ Len(path) = 6
      /\ rest \in Text /\ Len(rest) \in Nat
  BY PathTypes DEF Text
<1>2. /\ \A i \in 1..3 : path[i] = head[i]
      /\ \A i \in 1..3 : path[i + 3] = mount[i]
  <2>1. /\ path[1] = head[1] /\ path[2] = head[2] /\ path[3] = head[3]
        /\ path[4] = mount[1] /\ path[5] = mount[2] /\ path[6] = mount[3]
    OBVIOUS
  <2> HIDE DEF head, mount, path
  <2> QED
    BY <2>1
<1> HIDE DEF head, mount, path
<1> DEFINE all == path \o rest
           want == mount \o rest
<1>3. /\ all \in Text /\ Len(all) = 6 + Len(rest)
      /\ \A i \in 1..6 : all[i] = path[i]
      /\ \A i \in 1..Len(rest) : all[6 + i] = rest[i]
  <2>1. /\ all \in Text /\ Len(all) = Len(path) + Len(rest)
        /\ \A i \in 1..Len(path) : all[i] = path[i]
        /\ \A i \in 1..Len(rest) : all[Len(path) + i] = rest[i]
    BY <1>1, Joined
  <2> HIDE DEF all
  <2> QED
    BY <1>1, <2>1
<1>4. /\ want \in Text /\ Len(want) = 3 + Len(rest)
      /\ \A i \in 1..3 : want[i] = mount[i]
      /\ \A i \in 1..Len(rest) : want[3 + i] = rest[i]
  <2>1. /\ want \in Text /\ Len(want) = Len(mount) + Len(rest)
        /\ \A i \in 1..Len(mount) : want[i] = mount[i]
        /\ \A i \in 1..Len(rest) : want[Len(mount) + i] = rest[i]
    BY <1>1, Joined
  <2> HIDE DEF want
  <2> QED
    BY <1>1, <2>1
<1> HIDE DEF all, want
<1>5. IsPrefix(head, all)
  <2>1. SubSeq(head, 1, Len(head)) = head
    BY <1>1, SubSeqFull DEF Text
  <2>2. /\ SubSeq(all, 1, Len(head)) \in Text
        /\ Len(SubSeq(all, 1, Len(head))) = Len(head)
        /\ \A i \in 1..Len(head) : SubSeq(all, 1, Len(head))[i] = all[i]
    BY <1>1, <1>3, Beginning
  <2>3. \A i \in 1..3 : all[i] = head[i]
    BY <1>1, <1>2, <1>3
  <2>4. head = SubSeq(all, 1, Len(head))
    BY <1>1, <2>2, <2>3, SeqEqual DEF Text
  <2> QED
    BY <1>1, <1>3, <2>1, <2>4 DEF IsPrefix
<1>6. TrimPrefix(all, head) = SubSeq(all, 4, Len(all))
  BY <1>1, <1>5 DEF TrimPrefix
<1> DEFINE cut == SubSeq(all, 4, Len(all))
<1>7. /\ cut \in Text /\ Len(cut) = 3 + Len(rest)
      /\ \A i \in 1..3 + Len(rest) : cut[i] = all[3 + i]
  <2>1. /\ cut \in Text /\ Len(cut) = 6 + Len(rest) - 4 + 1
        /\ \A i \in 1..6 + Len(rest) - 4 + 1 : cut[i] = all[4 + i - 1]
    BY <1>1, <1>3, Slice
  <2> HIDE DEF cut
  <2>2. \A i \in 1..3 + Len(rest) :
           i \in 1..6 + Len(rest) - 4 + 1 /\ 4 + i - 1 = 3 + i
    BY <1>1
  <2> QED
    BY <1>1, <2>1, <2>2
<1> HIDE DEF cut
<1>8. ASSUME NEW i \in 1..3 + Len(rest)
      PROVE  cut[i] = want[i]
  <2>1. CASE i <= 3
    BY <1>2, <1>3, <1>4, <1>7, <2>1
  <2>2. CASE i > 3
    <3>1. i - 3 \in 1..Len(rest) /\ 3 + (i - 3) = i /\ 3 + i = 6 + (i - 3)
      BY <1>1, <2>2
    <3>2. cut[i] = all[6 + (i - 3)] /\ want[i] = rest[i - 3]
      BY <1>4, <1>7, <3>1
    <3> QED
      BY <1>3, <3>1, <3>2
  <2> QED
    BY <2>1, <2>2
<1>9. cut = want
  BY <1>4, <1>7, <1>8, SeqEqual DEF Text
<1> QED
  BY <1>6, <1>9 DEF all, want, head, mount, path, cut

LEMMA MinWithThree ==
    ASSUME NEW n \in Nat
    PROVE  Min({3, n}) = IF n <= 3 THEN n ELSE 3
<1>1. \E x \in {3, n} : \A y \in {3, n} : x <= y
  OBVIOUS
<1>2. Min({3, n}) \in {3, n} /\ \A y \in {3, n} : Min({3, n}) <= y
  BY <1>1 DEF Min
<1> QED
  BY <1>2

\* Where the k-th slash is, when it is the second or the fourth token.
LEMMA SlashesFound ==
    ASSUME NEW n \in Nat, NEW seps \in SUBSET (1..n),
           1 \notin seps, 2 \in seps, 3 \notin seps, 4 \in seps
    PROVE  /\ Cardinality(seps) \in Nat /\ Cardinality(seps) >= 2
           /\ (CHOOSE i \in seps : Cardinality({j \in seps : j <= i}) = 1) = 2
           /\ (CHOOSE i \in seps : Cardinality({j \in seps : j <= i}) = 2) = 4
<1> DEFINE upto(i) == {j \in seps : j <= i}
<1>1. IsFiniteSet(seps) /\ Cardinality(seps) \in Nat
  <2>1. IsFiniteSet(1..n)
    BY FS_Interval
  <2> QED
    BY <2>1, FS_Subset, FS_CardinalityType
<1>2. ASSUME NEW S \in SUBSET seps
      PROVE  IsFiniteSet(S) /\ Cardinality(S) \in Nat
  BY <1>1, FS_Subset, FS_CardinalityType
<1>3. upto(2) = {2} /\ upto(4) = {2, 4}
  <2>1. \A j \in seps : j \in Nat /\ j >= 1 /\ j # 1 /\ j # 3
    OBVIOUS
  <2>2. \A j \in seps : (j <= 2 <=> j = 2) /\ (j <= 4 <=> j = 2 \/ j = 4)
    BY <2>1
  <2> QED
    BY <2>2
<1>4. Cardinality(upto(2)) = 1 /\ Cardinality(upto(4)) = 2
  <2>1. Cardinality({2}) = 1
    BY FS_Singleton
  <2>2. {2, 4} = {2} \cup {4} /\ 4 \notin {2} /\ IsFiniteSet({2})
    <3>1. IsFiniteSet({2})
      BY FS_Singleton
    <3> QED
      BY <3>1
  <2>3. Cardinality({2, 4}) = 2
    <3>1. Cardinality({2} \cup {4}) = Cardinality({2}) + 1
      BY <2>2, FS_AddElement
    <3> QED
      BY <2>1, <2>2, <3>1
  <2> HIDE DEF upto
  <2> QED
    BY <1>3, <2>1, <2>3
<1>5. ASSUME NEW i \in seps, i # 2
      PROVE  Cardinality(upto(i)) >= 2
  <2>1. {2, 4} \in SUBSET upto(i) /\ upto(i) \in SUBSET seps
    BY <1>5
  <2>2. IsFiniteSet(upto(i)) /\ Cardinality(upto(i)) \in Nat
    BY <1>2, <2>1
  <2>3. Cardinality({2, 4}) <= Cardinality(upto(i))
    BY <2>1, <2>2, FS_Subset
  <2> QED
    BY <1>3, <1>4, <2>2, <2>3
<1>6. ASSUME NEW i \in seps, i # 2, i # 4
      PROVE  Cardinality(upto(i)) >= 3
  <2>1. {2, 4, i} \in SUBSET upto(i) /\ upto(i) \in SUBSET seps
    BY <1>6
  <2>2. IsFiniteSet(upto(i)) /\ Cardinality(upto(i)) \in Nat
    BY <1>2, <2>1
  <2>3. Cardinality({2, 4, i}) <= Cardinality(upto(i))
    BY <2>1, <2>2, FS_Subset
  <2>4. Cardinality({2, 4, i}) = 3
    <3>1. {2, 4, i} = {2, 4} \cup {i} /\ i \notin {2, 4}
      BY <1>6
    <3>2. IsFiniteSet({2, 4}) /\ Cardinality({2, 4}) = 2
      <4>1. {2, 4} \in SUBSET seps
        OBVIOUS
      <4> QED
        BY <1>2, <1>3, <1>4, <4>1
    <3>3. Cardinality({2, 4} \cup {i}) = 2 + 1
      BY <3>1, <3>2, FS_AddElement
    <3> QED
      BY <3>1, <3>3
  <2> QED
    BY <2>2, <2>3, <2>4
<1>7. Cardinality(seps) >= 2
  <2>1. {2, 4} \in SUBSET seps
    OBVIOUS
  <2>2. Cardinality({2, 4}) <= Cardinality(seps)
    BY <1>1, <2>1, FS_Subset
  <2> QED
    BY <1>1, <1>3, <1>4, <2>2
<1> HIDE DEF upto
<1>8. \A i \in seps : Cardinality(upto(i)) = 1 <=> i = 2
  BY <1>4, <1>5
<1>9. \A i \in seps : Cardinality(upto(i)) = 2 <=> i = 4
  BY <1>4, <1>6
<1>10. (CHOOSE i \in seps : Cardinality(upto(i)) = 1) = 2
  BY <1>8
<1>11. (CHOOSE i \in seps : Cardinality(upto(i)) = 2) = 4
  BY <1>9
<1> QED
  BY <1>1, <1>7, <1>10, <1>11 DEF upto

\* The proxy reads off the mount and what is left, unless nothing is.
LEMMA SplitMount ==
    ASSUME NEW m \in Mounts, NEW rest \in RestPaths
    PROVE  LET parts == SplitN(<<m[1], "/", m[2]>> \o rest, "/", 3)
           IN  /\ rest = <<>> => Len(parts) = 2
               /\ rest # <<>> => /\ Len(parts) = 3
                                 /\ parts[1][1] = m[1] /\ parts[2][1] = m[2]
                                 /\ parts[3] = Tail(rest)
<1> DEFINE mount == <<m[1], "/", m[2]>>
<1>1. /\ mount \in Text /\ Len(mount) = 3
      /\ mount[1] = m[1] /\ mount[2] = "/" /\ mount[3] = m[2]
      /\ m[1] # "/" /\ m[2] # "/" /\ rest \in Text /\ Len(rest) \in Nat
  BY PathTypes DEF Text
<1> HIDE DEF mount
<1> DEFINE s == mount \o rest
<1>2. /\ s \in Text /\ Len(s) = 3 + Len(rest) /\ DOMAIN s = 1..3 + Len(rest)
      /\ s[1] = m[1] /\ s[2] = "/" /\ s[3] = m[2]
      /\ \A i \in 1..Len(rest) : s[3 + i] = rest[i]
  <2>1. /\ s \in Text /\ Len(s) = Len(mount) + Len(rest)
        /\ \A i \in 1..Len(mount) : s[i] = mount[i]
        /\ \A i \in 1..Len(rest) : s[Len(mount) + i] = rest[i]
    BY <1>1, Joined
  <2> HIDE DEF s
  <2>2. DOMAIN s = 1..Len(s)
    BY <2>1, LenProperties DEF Text
  <2> QED
    BY <1>1, <2>1, <2>2
<1> HIDE DEF s
<1> DEFINE seps == {i \in DOMAIN s : s[i] = "/"}
           parts == Min({3, Cardinality(seps) + 1})
           Cut(k) == CHOOSE i \in seps : Cardinality({j \in seps : j <= i}) = k
           Piece(k) == SubSeq(s, IF k = 1 THEN 1 ELSE Cut(k - 1) + 1,
                                 IF k = parts THEN Len(s) ELSE Cut(k) - 1)
<1>3. SplitN(s, "/", 3) = [k \in 1..parts |-> Piece(k)]
  BY DEF SplitN
<1>4. /\ seps \in SUBSET (1..3 + Len(rest)) /\ 1 \notin seps /\ 2 \in seps
      /\ 3 \notin seps
  BY <1>1, <1>2
<1>5. CASE rest = <<>>
  <2>1. Len(rest) = 0
    BY <1>5
  <2>2. seps = {2}
    BY <1>4, <2>1
  <2>3. Cardinality(seps) = 1
    BY <2>2, FS_Singleton
  <2> HIDE DEF seps, Cut
  <2>4. parts = 2
    BY <2>3, MinWithThree
  <2> HIDE DEF parts, Piece
  <2> QED
    BY <1>3, <1>5, <2>4 DEF s, mount
<1>6. CASE rest # <<>>
  <2>1. rest[1] = "/" /\ Len(rest) \in Nat \ {0}
    BY <1>6, PathTypes, EmptySeq DEF Text
  <2>2. 4 \in seps
    <3>1. s[3 + 1] = rest[1] /\ 4 \in 1..3 + Len(rest)
      BY <1>2, <2>1
    <3> QED
      BY <1>2, <2>1, <3>1
  <2> HIDE DEF seps
  <2>3. /\ Cardinality(seps) \in Nat /\ Cardinality(seps) >= 2
        /\ Cut(1) = 2 /\ Cut(2) = 4
    <3>1. 3 + Len(rest) \in Nat
      BY <2>1
    <3> QED
      BY <1>4, <2>2, <3>1, SlashesFound
  <2>4. parts = 3
    <3>1. Cardinality(seps) + 1 \in Nat /\ Cardinality(seps) + 1 >= 3
      BY <2>3
    <3> QED
      BY <3>1, MinWithThree
  <2> HIDE DEF Cut, parts
  <2>5. /\ Piece(1) = SubSeq(s, 1, 1) /\ Piece(2) = SubSeq(s, 3, 3)
        /\ Piece(3) = SubSeq(s, 5, Len(s))
    BY <2>3, <2>4
  <2> HIDE DEF Piece
  <2>6. SubSeq(s, 1, 1)[1] = s[1] /\ SubSeq(s, 3, 3)[1] = s[3]
    BY <1>2, <2>1, Slice
  <2>7. SubSeq(s, 5, Len(s)) = Tail(rest)
    <3> DEFINE end == SubSeq(s, 5, Len(s))
    <3>1. /\ end \in Text /\ Len(end) = Len(rest) - 1
          /\ \A i \in 1..Len(rest) - 1 : end[i] = s[4 + i]
      <4>1. /\ end \in Text /\ Len(end) = IF 5 <= Len(s) THEN Len(s) - 5 + 1 ELSE 0
            /\ \A i \in 1..Len(s) - 5 + 1 : end[i] = s[5 + i - 1]
        BY <1>2, <2>1, Slice
      <4> HIDE DEF end
      <4>2. ASSUME NEW i \in 1..Len(rest) - 1
            PROVE  end[i] = s[4 + i]
        <5>1. i \in 1..Len(s) - 5 + 1 /\ 5 + i - 1 = 4 + i
          BY <1>2, <2>1
        <5> QED
          BY <4>1, <5>1
      <4>3. Len(end) = Len(rest) - 1
        <5>1. Len(s) \in Nat /\ Len(s) = 3 + Len(rest)
          BY <1>2, <2>1
        <5>2. CASE 5 <= Len(s)
          BY <2>1, <4>1, <5>1, <5>2
        <5>3. CASE ~(5 <= Len(s))
          <6>1. Len(end) = 0
            BY <4>1, <5>3
          <6>2. Len(rest) \in Nat /\ Len(rest) >= 1
            BY <2>1
          <6>3. \A all, k \in Nat : all = 3 + k /\ ~(5 <= all) /\ k >= 1 => k = 1
            OBVIOUS
          <6>4. Len(rest) = 1
            BY <5>1, <5>3, <6>2, <6>3
          <6> QED
            BY <6>1, <6>4
        <5> QED
          BY <5>1, <5>2, <5>3
      <4> QED
        BY <4>1, <4>2, <4>3
    <3> HIDE DEF end
    <3>2. /\ Tail(rest) \in Text /\ Len(Tail(rest)) = Len(rest) - 1
          /\ \A i \in 1..Len(rest) - 1 : Tail(rest)[i] = rest[i + 1]
      BY <1>1, <1>6, HeadTailProperties DEF Text
    <3>3. ASSUME NEW i \in 1..Len(rest) - 1
          PROVE  end[i] = Tail(rest)[i]
      <4>1. i + 1 \in 1..Len(rest) /\ 3 + (i + 1) = 4 + i
        BY <2>1
      <4> QED
        BY <1>2, <3>1, <3>2, <4>1
    <3>4. end = Tail(rest)
      BY <3>1, <3>2, <3>3, SeqEqual DEF Text
    <3> QED
      BY <3>4 DEF end
  <2> DEFINE pieces == SplitN(s, "/", 3)
  <2>8. /\ Len(pieces) = 3 /\ pieces[1] = Piece(1) /\ pieces[2] = Piece(2)
        /\ pieces[3] = Piece(3)
    BY <1>3, <2>4
  <2> HIDE DEF pieces
  <2>9. /\ rest # <<>> /\ Len(pieces) = 3
        /\ pieces[1][1] = m[1] /\ pieces[2][1] = m[2] /\ pieces[3] = Tail(rest)
    BY <1>2, <1>6, <2>5, <2>6, <2>7, <2>8
  <2> QED
    BY <2>9 DEF pieces, s, mount
<1> QED
  BY <1>5, <1>6

-----------------------------------------------------------------------------
(* The requests on their way.                                              *)

\* A request through a mount is one for the path that the controller has
\* published for it; the proxies that rewrite hosts are on the way of the others.
RequestInv ==
    /\ kubeconfigs \in [Mounts -> ClusterPaths \cup {NoSecret, Unusable}]
    /\ request # None =>
         \/ /\ request.route # "mount"
            /\ request = [route |-> request.route, host |-> request.host,
                          forwarded |-> request.forwarded,
                          xForwardedHost |-> request.xForwardedHost]
         \/ /\ client.mount \in Mounts /\ client.rest \in RestPaths
            /\ \E basePath \in ProxyBasePaths :
                  request = [route |-> "mount",
                             path |-> PublishedPath(basePath, client.mount) \o client.rest]

LEMMA RequestInit == Init => RequestInv
  BY DEF Init, RequestInv

LEMMA RequestStep == RequestInv /\ [Next]_vars => RequestInv'
<1> SUFFICES ASSUME RequestInv, [Next]_vars
             PROVE  RequestInv'
  OBVIOUS
<1> USE DEF RequestInv
<1>1. ASSUME NEW route \in {"page", "admin", "workspace"}, Send(route)
      PROVE  RequestInv'
  BY <1>1 DEF Send
<1>2. CASE ProxyForwarded
  <2>1. PICK entry \in ForwardedEntries(request.host) :
           request' = [request EXCEPT !.forwarded = AddEntry(@, entry), !.host = Inner]
    BY <1>2 DEF ProxyForwarded
  <2>2. request # None /\ request.route # "mount" /\ UNCHANGED <<client, kubeconfigs>>
    BY <1>2 DEF ProxyForwarded, Forward
  <2> QED
    BY <2>1, <2>2
<1>3. CASE ProxyForwardedFor
  BY <1>3 DEF ProxyForwardedFor, Forward
<1>4. CASE ProxyXForwarded
  <2>1. PICK value :
           request' = [request EXCEPT !.xForwardedHost = AddEntry(@, value),
                                      !.host = Inner]
    BY <1>4 DEF ProxyXForwarded
  <2>2. request # None /\ request.route # "mount" /\ UNCHANGED <<client, kubeconfigs>>
    BY <1>4 DEF ProxyXForwarded, Forward
  <2> QED
    BY <2>1, <2>2
<1>5. CASE Handle
  BY <1>5 DEF Handle
<1>6. CASE SendThroughMount
  <2>1. PICK m \in Mounts, rest \in RestPaths, basePath \in ProxyBasePaths :
           /\ client' = [mount |-> m, rest |-> rest]
           /\ request' = [route |-> "mount",
                          path |-> PublishedPath(basePath, m) \o rest]
    BY <1>6 DEF SendThroughMount
  <2>2. client'.mount = m /\ client'.rest = rest /\ UNCHANGED kubeconfigs
    BY <1>6, <2>1 DEF SendThroughMount
  <2> QED
    BY <2>1, <2>2
<1>7. CASE HandleMount
  BY <1>7 DEF HandleMount
<1>8. ASSUME NEW m \in Mounts, ChangeSecret(m)
      PROVE  RequestInv'
  <2>1. UNCHANGED <<request, client>>
    BY <1>8 DEF ChangeSecret
  <2>2. kubeconfigs' \in [Mounts -> ClusterPaths \cup {NoSecret, Unusable}]
    BY <1>8 DEF ChangeSecret
  <2> QED
    BY <2>1, <2>2
<1>9. CASE UNCHANGED vars
  BY <1>9 DEF vars
<1> QED
  BY <1>1, <1>2, <1>3, <1>4, <1>5, <1>6, <1>7, <1>8, <1>9 DEF Next

\* The slash that the split has cut off is put back.
LEMMA SlashedTail ==
    ASSUME NEW rest \in RestPaths, rest # <<>>
    PROVE  <<"/">> \o Tail(rest) = rest
<1> DEFINE slash == <<"/">>
<1>1. /\ slash \in Text /\ Len(slash) = 1 /\ slash[1] = "/"
      /\ rest \in Text /\ Len(rest) \in Nat /\ Len(rest) >= 1 /\ rest[1] = "/"
  BY PathTypes, EmptySeq DEF Text
<1>2. /\ Tail(rest) \in Text /\ Len(Tail(rest)) = Len(rest) - 1
      /\ \A i \in 1..Len(rest) - 1 : Tail(rest)[i] = rest[i + 1]
  BY <1>1, HeadTailProperties DEF Text
<1> HIDE DEF slash
<1> DEFINE all == slash \o Tail(rest)
<1>3. /\ all \in Text /\ Len(all) = Len(slash) + Len(Tail(rest))
      /\ \A i \in 1..Len(slash) : all[i] = slash[i]
      /\ \A i \in 1..Len(Tail(rest)) : all[Len(slash) + i] = Tail(rest)[i]
  BY <1>1, <1>2, Joined
<1> HIDE DEF all
<1>4. Len(all) = Len(rest)
  BY <1>1, <1>2, <1>3
<1>5. ASSUME NEW i \in 1..Len(rest)
      PROVE  all[i] = rest[i]
  <2>1. CASE i = 1
    BY <1>1, <1>3, <2>1
  <2>2. CASE i # 1
    <3>1. i - 1 \in 1..Len(rest) - 1 /\ 1 + (i - 1) = i /\ (i - 1) + 1 = i
      BY <1>1, <2>2
    <3> QED
      BY <1>1, <1>2, <1>3, <3>1
  <2> QED
    BY <2>1, <2>2
<1>6. all = rest
  BY <1>1, <1>3, <1>4, <1>5, SeqEqual DEF Text
<1> QED
  BY <1>6 DEF all, slash

\* What the proxy makes of a request that has come through a published mount.
LEMMA MountAnswer ==
    ASSUME RequestInv, HandleMount
    PROVE  answer'.url \in ExpectedAnswers
<1> DEFINE m == client.mount
           rest == client.rest
<1>1. /\ m \in Mounts /\ rest \in RestPaths
      /\ \E basePath \in ProxyBasePaths : request.path = PublishedPath(basePath, m) \o rest
  <2>1. request # None /\ request.route = "mount"
    BY DEF HandleMount
  <2>2. /\ m \in Mounts /\ rest \in RestPaths
        /\ \E basePath \in ProxyBasePaths :
              request = [route |-> "mount", path |-> PublishedPath(basePath, m) \o rest]
    BY <2>1 DEF RequestInv
  <2> HIDE DEF m, rest
  <2>3. PICK basePath \in ProxyBasePaths :
           request = [route |-> "mount", path |-> PublishedPath(basePath, m) \o rest]
    BY <2>2
  <2>4. request.path = PublishedPath(basePath, m) \o rest
    BY <2>3
  <2> QED
    BY <2>2, <2>4
<1> DEFINE parts == SplitN(TrimPrefix(request.path, <<"/", "mounts", "/">>), "/", 3)
<1>2. \/ Len(parts) < 3 /\ answer'.url = BadRequest
      \/ Len(parts) >= 3 /\ answer'.url = NotLoaded
      \/ /\ Len(parts) >= 3
         /\ kubeconfigs[<<parts[1][1], parts[2][1]>>] # NoSecret
         /\ answer'.url = SendOn(<<parts[1][1], parts[2][1]>>, <<"/">> \o parts[3])
  <2> HIDE DEF parts
  <2>1. \/ /\ Len(parts) < 3
           /\ answer' = [route |-> "mount", url |-> BadRequest]
        \/ /\ Len(parts) >= 3
           /\ answer' = [route |-> "mount", url |-> NotLoaded]
        \/ /\ Len(parts) >= 3
           /\ kubeconfigs[<<parts[1][1], parts[2][1]>>] # NoSecret
           /\ answer' = [route |-> "mount",
                         url |-> SendOn(<<parts[1][1], parts[2][1]>>, <<"/">> \o parts[3])]
    BY DEF HandleMount, parts
  <2> QED
    BY <2>1
<1>3. parts = SplitN(<<m[1], "/", m[2]>> \o rest, "/", 3)
  BY <1>1, PublishedForm, PrefixCut
<1>4. /\ rest = <<>> => Len(parts) = 2
      /\ rest # <<>> => /\ Len(parts) = 3
                        /\ parts[1][1] = m[1] /\ parts[2][1] = m[2]
                        /\ parts[3] = Tail(rest)
  <2> HIDE DEF m, rest, parts
  <2> QED
    BY <1>1, <1>3, SplitMount
<1> HIDE DEF m, rest, parts
<1>5. CASE rest = <<>>
  <2>1. Len(parts) = 2
    BY <1>4, <1>5
  <2>2. answer'.url = BadRequest
    BY <1>2, <2>1
  <2> QED
    BY <1>5, <2>2 DEF rest, ExpectedAnswers
<1>6. CASE rest # <<>>
  <2>1. /\ Len(parts) = 3
        /\ <<parts[1][1], parts[2][1]>> = m
        /\ <<"/">> \o parts[3] = rest
    <3>1. <<parts[1][1], parts[2][1]>> = m
      BY <1>1, <1>4, <1>6, PathTypes
    <3>2. <<"/">> \o parts[3] = rest
      BY <1>1, <1>4, <1>6, SlashedTail
    <3> QED
      BY <1>4, <1>6, <3>1, <3>2
  <2> DEFINE cluster == <<parts[1][1], parts[2][1]>>
             path == <<"/">> \o parts[3]
             length == Len(parts)
  <2>2. \/ answer'.url = NotLoaded
        \/ kubeconfigs[m] # NoSecret /\ answer'.url = SendOn(m, rest)
    <3>1. length = 3 /\ cluster = m /\ path = rest
      BY <2>1
    <3>2. \/ length < 3
          \/ answer'.url = NotLoaded
          \/ kubeconfigs[cluster] # NoSecret /\ answer'.url = SendOn(cluster, path)
      BY <1>2
    <3> HIDE DEF cluster, path, length
    <3> QED
      BY <3>1, <3>2
  <2>3. CASE answer'.url = NotLoaded
    BY <1>6, <2>3 DEF rest, ExpectedAnswers
  <2>4. CASE kubeconfigs[m] = Unusable /\ kubeconfigs[m] # NoSecret
             /\ answer'.url = SendOn(m, rest)
    <3>1. answer'.url = NotUsable
      BY <2>4 DEF SendOn
    <3> QED
      BY <1>6, <2>4, <3>1 DEF m, rest, ExpectedAnswers
  <2>5. CASE kubeconfigs[m] \notin {NoSecret, Unusable} /\ answer'.url = SendOn(m, rest)
    <3>1. kubeconfigs[m] \in Text /\ rest \in Text /\ rest[1] = "/"
      BY <1>1, <1>6, <2>5, PathTypes DEF RequestInv, Text
    <3>2. joinURLPath(kubeconfigs[m], rest) = TrimSuffix(kubeconfigs[m], <<"/">>) \o rest
      BY <1>6, <3>1, JoinedOnce
    <3>3. answer'.url = [cluster |-> m,
                         path |-> TrimSuffix(kubeconfigs[m], <<"/">>) \o rest]
      BY <2>5, <3>2 DEF SendOn
    <3> QED
      BY <1>6, <2>5, <3>3 DEF m, rest, ExpectedAnswers
  <2> QED
    BY <2>2, <2>3, <2>4, <2>5
<1> QED
  BY <1>5, <1>6

\* Every request that comes through the published URL of a mount goes to the
\* cluster of that mount, with the path asked for below the cluster's own, or is
\* refused for want of a path, of the secret or of a usable kubeconfig: for any
\* mounts, whatever their names, any paths asked for and any paths of clusters.
THEOREM MountsLeadToTheirClusters == Spec => MountRequestReachesItsCluster
<1>1. RequestInv /\ [Next]_vars =>
        [(request # None /\ answer' # answer) =>
            (request.route = "mount" => answer'.url \in ExpectedAnswers)]_vars
  <2> SUFFICES ASSUME RequestInv, [Next]_vars, request # None, answer' # answer,
                      request.route = "mount"
               PROVE  HandleMount
    BY MountAnswer
  <2> QED
    BY DEF Next, vars, Send, ProxyForwarded, ProxyForwardedFor, ProxyXForwarded,
           Forward, Handle, SendThroughMount, ChangeSecret
<1> QED
  BY <1>1, RequestInit, RequestStep, PTL DEF Spec, MountRequestReachesItsCluster

-----------------------------------------------------------------------------
(* The functions of Go's strings package, on hosts and headers.            *)

LEMMA NoTokens == \A s \in Text : s = <<>> <=> Len(s) = 0
  BY EmptySeq DEF Text

LEMMA Indices ==
    ASSUME NEW s \in Text
    PROVE  /\ Len(s) \in Nat /\ DOMAIN s = 1..Len(s)
           /\ \A i \in 1..Len(s) : s[i] \in Tokens
  BY ElementOfSeq, LenProperties DEF Text

LEMMA MinIs ==
    ASSUME NEW S, S \subseteq Int, NEW x \in S, \A y \in S : x <= y
    PROVE  Min(S) = x
<1>1. \E z \in S : \A y \in S : z <= y
  OBVIOUS
<1>2. Min(S) \in S /\ \A y \in S : Min(S) <= y
  BY <1>1 DEF Min
<1> DEFINE m == Min(S)
<1> HIDE DEF m
<1>3. m \in Int /\ x \in Int /\ m <= x /\ x <= m
  BY <1>2 DEF m
<1> QED
  BY <1>3 DEF m

LEMMA MaxIs ==
    ASSUME NEW S, S \subseteq Int, NEW x \in S, \A y \in S : y <= x
    PROVE  Max(S) = x
<1>1. \E z \in S : \A y \in S : y <= z
  OBVIOUS
<1>2. Max(S) \in S /\ \A y \in S : y <= Max(S)
  BY <1>1 DEF Max
<1> DEFINE m == Max(S)
<1> HIDE DEF m
<1>3. m \in Int /\ x \in Int /\ m <= x /\ x <= m
  BY <1>2 DEF m
<1> QED
  BY <1>3 DEF m

\* Trim takes what is outside of the outermost tokens that are kept.
LEMMA TrimTo ==
    ASSUME NEW s \in Text, NEW cut, NEW m \in 1..Len(s), NEW n \in m..Len(s),
           s[m] \notin cut, s[n] \notin cut,
           \A i \in 1..Len(s) : i < m \/ n < i => s[i] \in cut
    PROVE  Trim(s, cut) = SubSeq(s, m, n)
<1> DEFINE kept == {i \in DOMAIN s : s[i] \notin cut}
<1>1. Len(s) \in Nat /\ DOMAIN s = 1..Len(s)
  BY Indices
<1>2. /\ kept \subseteq Int /\ m \in kept /\ n \in kept
      /\ \A i \in kept : m <= i /\ i <= n
  BY <1>1
<1>3. Trim(s, cut) = IF kept = {} THEN <<>> ELSE SubSeq(s, Min(kept), Max(kept))
  BY DEF Trim
<1> HIDE DEF kept
<1>4. Min(kept) = m /\ Max(kept) = n
  BY <1>2, MinIs, MaxIs
<1> QED
  BY <1>2, <1>3, <1>4

\* Trim leaves alone what has none of the tokens it takes.
LEMMA TrimNothing ==
    ASSUME NEW s \in Text, NEW cut, \A i \in 1..Len(s) : s[i] \notin cut
    PROVE  Trim(s, cut) = s
<1>1. Len(s) \in Nat /\ DOMAIN s = 1..Len(s)
  BY Indices
<1>2. CASE s = <<>>
  <2>1. DOMAIN s = {}
    BY <1>1, <1>2, NoTokens
  <2> QED
    BY <1>2, <2>1 DEF Trim
<1>3. CASE s # <<>>
  <2>1. Len(s) >= 1
    BY <1>1, <1>3, NoTokens
  <2>2. Trim(s, cut) = SubSeq(s, 1, Len(s))
    BY <1>1, <2>1, TrimTo
  <2> QED
    BY <2>2, SubSeqFull DEF Text
<1> QED
  BY <1>2, <1>3

LEMMA Three ==
    ASSUME NEW s \in Text, NEW t \in Text, NEW u \in Text
    PROVE  /\ s \o t \o u \in Text /\ Len(s \o t \o u) = Len(s) + Len(t) + Len(u)
           /\ \A i \in 1..Len(s) : (s \o t \o u)[i] = s[i]
           /\ \A i \in 1..Len(t) : (s \o t \o u)[Len(s) + i] = t[i]
           /\ \A i \in 1..Len(u) : (s \o t \o u)[Len(s) + Len(t) + i] = u[i]
<1> DEFINE front == s \o t
<1>1. /\ front \in Text /\ Len(front) = Len(s) + Len(t)
      /\ \A i \in 1..Len(s) : front[i] = s[i]
      /\ \A i \in 1..Len(t) : front[Len(s) + i] = t[i]
  BY Joined
<1> HIDE DEF front
<1> DEFINE all == front \o u
<1>2. /\ all \in Text /\ Len(all) = Len(front) + Len(u)
      /\ \A i \in 1..Len(front) : all[i] = front[i]
      /\ \A i \in 1..Len(u) : all[Len(front) + i] = u[i]
  BY <1>1, Joined
<1> HIDE DEF all
<1>3. Len(s) \in Nat /\ Len(t) \in Nat /\ Len(u) \in Nat
  BY Indices
<1>4. \A i \in 1..Len(s) : all[i] = s[i]
  BY <1>1, <1>2, <1>3
<1>5. \A i \in 1..Len(t) : all[Len(s) + i] = t[i]
  <2>1. \A i \in 1..Len(t) : Len(s) + i \in 1..Len(front)
    BY <1>1, <1>3
  <2> QED
    BY <1>1, <1>2, <2>1
<1>6. /\ Len(all) = Len(s) + Len(t) + Len(u)
      /\ \A i \in 1..Len(u) : all[Len(s) + Len(t) + i] = u[i]
  BY <1>1, <1>2
<1> QED
  BY <1>2, <1>4, <1>5, <1>6 DEF all, front

\* A text between two tokens: quoted, or in brackets.
Wrapped(x, s, y) == <<x>> \o s \o <<y>>

LEMMA Between ==
    ASSUME NEW s \in Text, NEW x \in Tokens, NEW y \in Tokens
    PROVE  /\ Wrapped(x, s, y) \in Text
           /\ Len(Wrapped(x, s, y)) = Len(s) + 2
           /\ Wrapped(x, s, y)[1] = x
           /\ Wrapped(x, s, y)[Len(s) + 2] = y
           /\ \A i \in 1..Len(s) : Wrapped(x, s, y)[i + 1] = s[i]
<1> DEFINE first == <<x>>
           last == <<y>>
<1>1. /\ first \in Text /\ Len(first) = 1 /\ first[1] = x
      /\ last \in Text /\ Len(last) = 1 /\ last[1] = y
      /\ Len(s) \in Nat
  BY Indices DEF Text
<1> HIDE DEF first, last
<1> DEFINE all == first \o s \o last
<1>2. /\ all \in Text /\ Len(all) = Len(first) + Len(s) + Len(last)
      /\ \A i \in 1..Len(first) : all[i] = first[i]
      /\ \A i \in 1..Len(s) : all[Len(first) + i] = s[i]
      /\ \A i \in 1..Len(last) : all[Len(first) + Len(s) + i] = last[i]
  BY <1>1, Three
<1> HIDE DEF all
<1>3. all \in Text /\ Len(all) = Len(s) + 2 /\ all[1] = x
  BY <1>1, <1>2
<1>4. all[Len(s) + 2] = y
  <2>1. Len(first) + Len(s) + 1 = Len(s) + 2 /\ 1 \in 1..Len(last)
    BY <1>1
  <2> QED
    BY <1>1, <1>2, <2>1
<1>5. \A i \in 1..Len(s) : all[i + 1] = s[i]
  <2>1. \A i \in 1..Len(s) : Len(first) + i = i + 1
    BY <1>1
  <2> QED
    BY <1>2, <2>1
<1> QED
  BY <1>3, <1>4, <1>5 DEF all, first, last, Wrapped

LEMMA TrimBoth ==
    ASSUME NEW s \in Text, NEW x \in Tokens, NEW y \in Tokens, NEW cut,
           s # <<>>, x \in cut, y \in cut, \A i \in 1..Len(s) : s[i] \notin cut
    PROVE  Trim(Wrapped(x, s, y), cut) = s
<1> DEFINE all == Wrapped(x, s, y)
<1>1. /\ all \in Text /\ Len(all) = Len(s) + 2
      /\ all[1] = x /\ all[Len(s) + 2] = y
      /\ \A i \in 1..Len(s) : all[i + 1] = s[i]
  BY Between
<1>2. Len(s) \in Nat /\ Len(s) >= 1
  BY Indices, NoTokens
<1> HIDE DEF all
<1>3. /\ 2 \in 1..Len(all) /\ Len(s) + 1 \in 2..Len(all)
      /\ all[2] \notin cut /\ all[Len(s) + 1] \notin cut
  <2>1. 1 \in 1..Len(s) /\ Len(s) \in 1..Len(s) /\ 1 + 1 = 2
    BY <1>2
  <2> QED
    BY <1>1, <1>2, <2>1
<1>4. ASSUME NEW i \in 1..Len(all), i < 2 \/ Len(s) + 1 < i
      PROVE  all[i] \in cut
  <2>1. i = 1 \/ i = Len(s) + 2
    BY <1>1, <1>2, <1>4
  <2> QED
    BY <1>1, <2>1
<1>5. Trim(all, cut) = SubSeq(all, 2, Len(s) + 1)
  BY <1>1, <1>3, <1>4, TrimTo
<1> DEFINE inner == SubSeq(all, 2, Len(s) + 1)
<1>6. /\ inner \in Text /\ Len(inner) = Len(s)
      /\ \A i \in 1..Len(s) : inner[i] = s[i]
  <2>1. /\ Len(s) + 1 \in Nat /\ Len(s) + 1 <= Len(all) /\ 2 \in Nat \ {0}
        /\ 2 <= Len(s) + 1 /\ Len(s) + 1 - 2 + 1 = Len(s)
    BY <1>1, <1>2
  <2>2. /\ inner \in Text
        /\ Len(inner) = IF 2 <= Len(s) + 1 THEN Len(s) + 1 - 2 + 1 ELSE 0
        /\ \A i \in 1..Len(s) + 1 - 2 + 1 : inner[i] = all[2 + i - 1]
    BY <1>1, <2>1, Slice
  <2> HIDE DEF inner
  <2>3. \A i \in 1..Len(s) : 2 + i - 1 = i + 1
    BY <1>2
  <2> QED
    BY <1>1, <2>1, <2>2, <2>3
<1> HIDE DEF inner
<1>7. inner = s
  BY <1>6, SeqEqual DEF Text
<1> QED
  BY <1>5, <1>7 DEF all, inner

\* strings.Cut finds the text that a separator or the end follows.
LEMMA BeforeIs ==
    ASSUME NEW s \in Text, NEW b \in Text, NEW seps, Len(b) <= Len(s),
           \A i \in 1..Len(b) : s[i] = b[i] /\ b[i] \notin seps,
           Len(b) = Len(s) \/ s[Len(b) + 1] \in seps
    PROVE  Before(s, seps) = b
<1> DEFINE ends == {i \in DOMAIN s : s[i] \in seps} \cup {Len(s) + 1}
<1>1. Len(s) \in Nat /\ DOMAIN s = 1..Len(s) /\ Len(b) \in Nat
  BY Indices
<1>2. ends \subseteq Int /\ Len(b) + 1 \in ends
  BY <1>1
<1>3. \A i \in ends : Len(b) + 1 <= i
  BY <1>1
<1>4. Before(s, seps) = SubSeq(s, 1, Min(ends) - 1)
  BY DEF Before
<1> HIDE DEF ends
<1>5. Min(ends) = Len(b) + 1
  BY <1>2, <1>3, MinIs
<1>6. Min(ends) - 1 = Len(b)
  BY <1>1, <1>5
<1> DEFINE front == SubSeq(s, 1, Len(b))
<1>7. /\ front \in Text /\ Len(front) = Len(b)
      /\ \A i \in 1..Len(b) : front[i] = s[i]
  BY <1>1, Beginning
<1> HIDE DEF front
<1>8. front = b
  BY <1>7, SeqEqual DEF Text
<1> QED
  BY <1>4, <1>6, <1>8 DEF front

LEMMA AfterIs ==
    ASSUME NEW s \in Text, NEW p \in 1..Len(s)
    PROVE  /\ After(s, p) \in Text /\ Len(After(s, p)) = Len(s) - p
           /\ \A i \in 1..Len(s) - p : After(s, p)[i] = s[p + i]
<1> DEFINE back == SubSeq(s, p + 1, Len(s))
<1>1. Len(s) \in Nat /\ p + 1 \in Nat \ {0} /\ Len(s) <= Len(s)
  BY Indices
<1>2. /\ back \in Text /\ Len(back) = IF p + 1 <= Len(s) THEN Len(s) - (p + 1) + 1 ELSE 0
      /\ \A i \in 1..Len(s) - (p + 1) + 1 : back[i] = s[p + 1 + i - 1]
  BY <1>1, Slice
<1> HIDE DEF back
<1>3. \A i \in 1..Len(s) - p : i \in 1..Len(s) - (p + 1) + 1 /\ p + 1 + i - 1 = p + i
  BY <1>1
<1>4. (IF p + 1 <= Len(s) THEN Len(s) - (p + 1) + 1 ELSE 0) = Len(s) - p
  BY <1>1
<1> QED
  BY <1>2, <1>3, <1>4 DEF back, After

-----------------------------------------------------------------------------
(* The header in which proxies record the host.                            *)

\* No two of the tokens are the same.
LEMMA Distinct ==
    /\ Comma # Semicolon /\ Comma # Space /\ Comma # Quote
    /\ Semicolon # Space /\ Semicolon # Quote /\ Space # Quote
    /\ \A t \in {Comma, Semicolon, Space, Quote} :
          t \notin {"[", "]", "/", "://", "host=", "Host=", ":", "for=", "a",
                    "proto=", "http", "inner", "80"}
  BY Zenon DEF Comma, Semicolon, Space, Quote

Quoted(h) == Wrapped(Quote, h, Quote)

HostTags == {"host=", "Host="}

HostFree(value) == \A i \in 1..Len(value) : value[i] \notin HostTags

\* b is in s after position p.
HoldsAfter(s, p, b) ==
    /\ p + Len(b) <= Len(s)
    /\ \A i \in 1..Len(b) : s[p + i] = b[i]

\* The first part of the header that has a host begins at position p, with b.
NamesAt(value, p, b) ==
    /\ p \in 1..Len(value) /\ value[p] \in HostTags
    /\ \A i \in 1..p - 1 : value[i] \notin HostTags
    /\ \/ p = 1
       \/ p > 1 /\ value[p - 1] \in PartSeparators
       \/ p > 2 /\ value[p - 1] = Space /\ value[p - 2] \in PartSeparators
    /\ HoldsAfter(value, p, b)
    /\ p + Len(b) = Len(value) \/ value[p + Len(b) + 1] \in PartSeparators

NamesHost(value, h) ==
    \E p \in 1..Len(value), b \in {h, Quoted(h)} : NamesAt(value, p, b)

\* What the code looks for in headers is not in the text itself.
Plain(h) ==
    /\ h \in Text /\ h # <<>>
    /\ \A i \in 1..Len(h) : h[i] \notin {Comma, Semicolon, Space, Quote, "/", "://"}

LEMMA QuotedForm ==
    ASSUME NEW h \in Text
    PROVE  /\ Quoted(h) \in Text /\ Len(Quoted(h)) = Len(h) + 2
           /\ Quoted(h)[1] = Quote /\ Quoted(h)[Len(h) + 2] = Quote
           /\ \A i \in 1..Len(h) : Quoted(h)[i + 1] = h[i]
<1> Quote \in Tokens
  BY HostTypes DEF Marks
<1> QED
  BY Between DEF Quoted

\* forwardedHeaderHost finds the host that the header names, quoted or not.
LEMMA NamedHost ==
    ASSUME NEW value \in Text, NEW h, Plain(h), NamesHost(value, h)
    PROVE  forwardedHeaderHost(value) = h
<1>1. PICK p \in 1..Len(value), b \in {h, Quoted(h)} : NamesAt(value, p, b)
  BY DEF NamesHost
<1>2. /\ h \in Text /\ Len(h) \in Nat /\ Len(h) >= 1 /\ Len(value) \in Nat
      /\ p \in 1..Len(value) /\ p \in Nat
  BY <1>1, Indices, NoTokens DEF Plain
<1>3. /\ b \in Text /\ Len(b) \in Nat /\ Len(b) >= 1
      /\ \A i \in 1..Len(b) : b[i] \notin {Comma, Semicolon, Space}
  <2>1. CASE b = h
    BY <1>2, <2>1 DEF Plain
  <2>2. CASE b = Quoted(h)
    <3>1. ASSUME NEW i \in 1..Len(h) + 2
          PROVE  Quoted(h)[i] \notin {Comma, Semicolon, Space}
      <4>1. CASE i = 1 \/ i = Len(h) + 2
        BY <1>2, <4>1, QuotedForm, Distinct
      <4>2. CASE ~(i = 1 \/ i = Len(h) + 2)
        <5>1. i - 1 \in 1..Len(h) /\ (i - 1) + 1 = i
          BY <1>2, <4>2
        <5>2. Quoted(h)[(i - 1) + 1] = h[i - 1]
          BY <1>2, <5>1, QuotedForm
        <5>3. h[i - 1] \notin {Comma, Semicolon, Space}
          BY <5>1 DEF Plain
        <5> QED
          BY <5>1, <5>2, <5>3
      <4> QED
        BY <4>1, <4>2
    <3> QED
      BY <1>2, <2>2, <3>1, QuotedForm
  <2> QED
    BY <1>1, <2>1, <2>2
<1>4. Min(HostAt(value)) = p /\ p \in HostAt(value)
  <2>1. DOMAIN value = 1..Len(value)
    BY Indices
  <2>2. p \in HostAt(value)
    <3>1. \E start \in 1..p : /\ start = 1 \/ value[start - 1] \in PartSeparators
                             /\ \A j \in start..(p - 1) : value[j] = Space
      <4>1. CASE p = 1 \/ (p > 1 /\ value[p - 1] \in PartSeparators)
        <5>1. p \in 1..p /\ \A j \in p..(p - 1) : value[j] = Space
          BY <1>2
        <5> QED
          BY <4>1, <5>1
      <4>2. CASE p > 2 /\ value[p - 1] = Space /\ value[p - 2] \in PartSeparators
        <5>1. /\ p - 1 \in 1..p /\ (p - 1) - 1 = p - 2
              /\ \A j \in (p - 1)..(p - 1) : j = p - 1
          BY <1>2, <4>2
        <5> QED
          BY <4>2, <5>1
      <4> QED
        BY <1>1, <1>2, <4>1, <4>2 DEF NamesAt
    <3> QED
      BY <1>1, <2>1, <3>1 DEF HostAt, NamesAt, HostTags
  <2>3. HostAt(value) \subseteq Int /\ \A i \in HostAt(value) : p <= i
    <3>1. HostAt(value) \subseteq Int
      BY <1>2, <2>1 DEF HostAt
    <3>2. ASSUME NEW i \in HostAt(value)
          PROVE  p <= i
      <4>1. i \in 1..Len(value) /\ value[i] \in HostTags
        BY <2>1 DEF HostAt, HostTags
      <4>2. ~(i \in 1..p - 1)
        BY <1>1, <4>1 DEF NamesAt
      <4> QED
        BY <1>2, <4>1, <4>2
    <3> QED
      BY <3>1, <3>2
  <2> QED
    BY <2>2, <2>3, MinIs
<1>5. Before(After(value, p), PartSeparators) = b
  <2>1. /\ After(value, p) \in Text /\ Len(After(value, p)) = Len(value) - p
        /\ \A i \in 1..Len(value) - p : After(value, p)[i] = value[p + i]
    BY <1>2, AfterIs
  <2>2. /\ p + Len(b) <= Len(value)
        /\ \A i \in 1..Len(b) : value[p + i] = b[i]
        /\ p + Len(b) = Len(value) \/ value[p + Len(b) + 1] \in PartSeparators
    BY <1>1 DEF NamesAt, HoldsAfter
  <2>3. \A i \in 1..Len(b) : /\ i \in 1..Len(value) - p
                             /\ After(value, p)[i] = b[i] /\ b[i] \notin PartSeparators
    BY <1>2, <1>3, <2>1, <2>2 DEF PartSeparators
  <2>4. Len(b) # Len(value) - p =>
           /\ Len(b) + 1 \in 1..Len(value) - p /\ p + Len(b) + 1 = p + (Len(b) + 1)
    BY <1>2, <1>3, <2>2
  <2>5. Len(b) = Len(value) - p \/ After(value, p)[Len(b) + 1] \in PartSeparators
    BY <1>2, <1>3, <2>1, <2>2, <2>4
  <2>6. Len(b) <= Len(value) - p
    BY <1>2, <1>3, <2>2
  <2> QED
    BY <1>3, <2>1, <2>3, <2>5, <2>6, BeforeIs
<1>6. TrimSpace(b) = b
  BY <1>3, TrimNothing DEF TrimSpace
<1>7. Trim(b, {Quote}) = h
  <2>1. \A i \in 1..Len(h) : h[i] \notin {Quote}
    BY DEF Plain
  <2>2. CASE b = h
    BY <1>2, <2>1, <2>2, TrimNothing
  <2>3. CASE b = Quoted(h)
    <3>1. Quote \in Tokens /\ Quote \in {Quote} /\ h # <<>>
      BY HostTypes DEF Marks, Plain
    <3> QED
      BY <1>2, <2>1, <2>3, <3>1, TrimBoth DEF Quoted
  <2> QED
    BY <2>2, <2>3
<1> QED
  BY <1>4, <1>5, <1>6, <1>7 DEF forwardedHeaderHost, HostOfPart

LEMMA NoHost ==
    ASSUME NEW value \in Text, HostFree(value)
    PROVE  forwardedHeaderHost(value) = <<>>
<1>1. HostAt(value) = {}
  BY Indices DEF HostAt, HostFree, HostTags
<1> QED
  BY <1>1 DEF forwardedHeaderHost

\* Proxies put their entry after those of others.
LEMMA Added ==
    ASSUME NEW header \in Text, NEW entry \in Text
    PROVE  /\ AddEntry(header, entry) \in Text
           /\ header = <<>> => AddEntry(header, entry) = entry
           /\ header # <<>> =>
                /\ Len(AddEntry(header, entry)) = Len(header) + 2 + Len(entry)
                /\ \A i \in 1..Len(header) : AddEntry(header, entry)[i] = header[i]
                /\ AddEntry(header, entry)[Len(header) + 1] = Comma
                /\ AddEntry(header, entry)[Len(header) + 2] = Space
                /\ \A i \in 1..Len(entry) :
                      AddEntry(header, entry)[Len(header) + 2 + i] = entry[i]
<1>1. CASE header = <<>>
  BY <1>1 DEF AddEntry
<1>2. CASE header # <<>>
  <2> DEFINE comma == <<Comma, Space>>
  <2>1. /\ comma \in Text /\ Len(comma) = 2 /\ comma[1] = Comma /\ comma[2] = Space
        /\ Len(header) \in Nat /\ Len(entry) \in Nat
    <3>1. Comma \in Tokens /\ Space \in Tokens
      BY HostTypes DEF Marks
    <3>2. Len(header) \in Nat /\ Len(entry) \in Nat
      BY Indices
    <3> QED
      BY <3>1, <3>2 DEF Text
  <2> HIDE DEF comma
  <2> DEFINE front == header \o comma
  <2>2. /\ front \in Text /\ Len(front) = Len(header) + Len(comma)
        /\ \A i \in 1..Len(header) : front[i] = header[i]
        /\ \A i \in 1..Len(comma) : front[Len(header) + i] = comma[i]
    BY <2>1, Joined
  <2> HIDE DEF front
  <2> DEFINE text == front \o entry
  <2>3. /\ text \in Text /\ Len(text) = Len(front) + Len(entry)
        /\ \A i \in 1..Len(front) : text[i] = front[i]
        /\ \A i \in 1..Len(entry) : text[Len(front) + i] = entry[i]
    BY <2>2, Joined
  <2> HIDE DEF text
  <2>4. Len(front) = Len(header) + 2 /\ Len(text) = Len(header) + 2 + Len(entry)
    BY <2>1, <2>2, <2>3
  <2>5. /\ \A i \in 1..Len(header) : text[i] = header[i]
        /\ \A i \in 1..Len(entry) : text[Len(header) + 2 + i] = entry[i]
    BY <2>1, <2>2, <2>3, <2>4
  <2>6. text[Len(header) + 1] = Comma /\ text[Len(header) + 2] = Space
    <3>1. /\ 1 \in 1..Len(comma) /\ 2 \in 1..Len(comma)
          /\ Len(header) + 1 \in 1..Len(front) /\ Len(header) + 2 \in 1..Len(front)
      BY <2>1, <2>4
    <3> QED
      BY <2>1, <2>2, <2>3, <3>1
  <2>7. AddEntry(header, entry) = text
    BY <1>2 DEF AddEntry, text, front, comma
  <2> QED
    BY <1>2, <2>3, <2>4, <2>5, <2>6, <2>7
<1> QED
  BY <1>1, <1>2

LEMMA FreeAdded ==
    ASSUME NEW header \in Text, NEW entry \in Text, HostFree(header), HostFree(entry)
    PROVE  HostFree(AddEntry(header, entry))
<1> DEFINE text == AddEntry(header, entry)
<1>1. Len(header) \in Nat /\ Len(entry) \in Nat
  BY Indices
<1>2. /\ header = <<>> => text = entry
      /\ header # <<>> =>
           /\ Len(text) = Len(header) + 2 + Len(entry)
           /\ \A i \in 1..Len(header) : text[i] = header[i]
           /\ text[Len(header) + 1] = Comma /\ text[Len(header) + 2] = Space
           /\ \A i \in 1..Len(entry) : text[Len(header) + 2 + i] = entry[i]
  BY Added
<1> HIDE DEF text
<1>3. ASSUME header # <<>>, NEW i \in 1..Len(text)
      PROVE  text[i] \notin HostTags
  <2> /\ Len(header) \in Nat /\ Len(entry) \in Nat
      /\ Len(text) = Len(header) + 2 + Len(entry) /\ i \in Int /\ 1 <= i /\ i <= Len(text)
    BY <1>1, <1>2, <1>3
  <2>1. CASE i <= Len(header)
    BY <1>1, <1>2, <1>3, <2>1 DEF HostFree
  <2>2. CASE i = Len(header) + 1 \/ i = Len(header) + 2
    BY <1>2, <1>3, <2>2, Distinct DEF HostTags
  <2>3. CASE i > Len(header) + 2
    <3>1. /\ i - (Len(header) + 2) \in 1..Len(entry)
          /\ Len(header) + 2 + (i - (Len(header) + 2)) = i
      BY <1>1, <1>2, <1>3, <2>3
    <3> QED
      BY <1>2, <1>3, <3>1 DEF HostFree
  <2> QED
    BY <1>1, <1>2, <1>3, <2>1, <2>2, <2>3
<1>4. HostFree(text)
  BY <1>2, <1>3 DEF HostFree
<1> QED
  BY <1>4 DEF text

\* A later entry does not change the host that the header names.
LEMMA NameKept ==
    ASSUME NEW header \in Text, NEW entry \in Text, NEW h \in Text,
           NamesHost(header, h)
    PROVE  NamesHost(AddEntry(header, entry), h)
<1> DEFINE text == AddEntry(header, entry)
<1>1. PICK p \in 1..Len(header), b \in {h, Quoted(h)} : NamesAt(header, p, b)
  BY DEF NamesHost
<1>2. /\ Len(header) \in Nat /\ Len(entry) \in Nat /\ b \in Text /\ Len(b) \in Nat
      /\ p \in 1..Len(header) /\ p \in Nat
  <2>1. b \in Text
    BY <1>1, QuotedForm
  <2> QED
    BY <1>1, <2>1, Indices
<1>3. header # <<>>
  BY <1>2, NoTokens
<1>4. /\ Len(text) = Len(header) + 2 + Len(entry)
      /\ \A i \in 1..Len(header) : text[i] = header[i]
      /\ text[Len(header) + 1] = Comma
  BY <1>3, Added
<1> HIDE DEF text
<1>5. p \in 1..Len(text) /\ text[p] \in HostTags
  BY <1>1, <1>2, <1>4 DEF NamesAt
<1>6. \A i \in 1..p - 1 : text[i] \notin HostTags
  BY <1>1, <1>2, <1>4 DEF NamesAt
<1>7. \/ p = 1
      \/ p > 1 /\ text[p - 1] \in PartSeparators
      \/ p > 2 /\ text[p - 1] = Space /\ text[p - 2] \in PartSeparators
  <2>1. /\ p > 1 => p - 1 \in 1..Len(header)
        /\ p > 2 => p - 2 \in 1..Len(header)
    BY <1>2
  <2>2. /\ p > 1 => text[p - 1] = header[p - 1]
        /\ p > 2 => text[p - 2] = header[p - 2]
    BY <1>4, <2>1
  <2> QED
    BY <1>1, <1>2, <2>2 DEF NamesAt
<1>8. p + Len(b) <= Len(header) /\ HoldsAfter(text, p, b)
  <2>1. /\ p + Len(b) <= Len(header)
        /\ \A i \in 1..Len(b) : header[p + i] = b[i]
    BY <1>1 DEF NamesAt, HoldsAfter
  <2>2. \A i \in 1..Len(b) : p + i \in 1..Len(header)
    BY <1>2, <2>1
  <2>3. p + Len(b) <= Len(text)
    BY <1>2, <1>4, <2>1
  <2> QED
    BY <1>4, <2>1, <2>2, <2>3 DEF HoldsAfter
<1>9. text[p + Len(b) + 1] \in PartSeparators
  <2>1. CASE p + Len(b) = Len(header)
    BY <1>4, <2>1 DEF PartSeparators
  <2>2. CASE p + Len(b) # Len(header)
    <3>1. p + Len(b) + 1 \in 1..Len(header)
      BY <1>2, <1>8, <2>2
    <3> QED
      BY <1>1, <1>4, <2>2, <3>1 DEF NamesAt
  <2> QED
    BY <2>1, <2>2
<1>10. NamesAt(text, p, b)
  BY <1>5, <1>6, <1>7, <1>8, <1>9 DEF NamesAt
<1>11. NamesHost(text, h)
  BY <1>5, <1>10 DEF NamesHost
<1> QED
  BY <1>11 DEF text

\* The entries that name the host name it where it is looked for.
LEMMA EntriesName ==
    ASSUME NEW h \in Text, NEW entry \in ForwardedEntries(h)
    PROVE  entry \in Text /\ NamesHost(entry, h)
<1>1. Len(h) \in Nat
  BY Indices
<1>2. CASE entry = <<"for=", "a", Semicolon, "host=", Quote>> \o h \o <<Quote>>
  <2> DEFINE left == <<"for=", "a", Semicolon, "host=", Quote>>
             right == <<Quote>>
  <2>1. /\ left \in Text /\ Len(left) = 5
        /\ left[1] = "for=" /\ left[2] = "a" /\ left[3] = Semicolon
        /\ left[4] = "host=" /\ left[5] = Quote
        /\ right \in Text /\ Len(right) = 1 /\ right[1] = Quote
    BY HostTypes DEF Marks, Text
  <2> HIDE DEF left, right
  <2> DEFINE all == left \o h \o right
  <2>2. /\ all \in Text /\ Len(all) = Len(left) + Len(h) + Len(right)
        /\ \A i \in 1..Len(left) : all[i] = left[i]
        /\ \A i \in 1..Len(h) : all[Len(left) + i] = h[i]
        /\ \A i \in 1..Len(right) : all[Len(left) + Len(h) + i] = right[i]
    <3>1. left \in Text /\ right \in Text
      BY <2>1
    <3> QED
      BY <3>1, Three
  <2> HIDE DEF all
  <2>3. /\ Len(all) = Len(h) + 6
        /\ all[1] = "for=" /\ all[2] = "a" /\ all[3] = Semicolon
        /\ all[4] = "host=" /\ all[5] = Quote
    BY <1>1, <2>1, <2>2
  <2>4. all[Len(h) + 6] = Quote
    <3>1. Len(left) + Len(h) + 1 = Len(h) + 6 /\ 1 \in 1..Len(right)
      BY <1>1, <2>1
    <3> QED
      BY <2>1, <2>2, <3>1
  <2>5. ASSUME NEW i \in 1..Len(h) + 2
        PROVE  all[4 + i] = Quoted(h)[i]
    <3>1. CASE i = 1
      BY <2>3, <3>1, QuotedForm
    <3>2. CASE i = Len(h) + 2
      <4>1. 4 + i = Len(h) + 6
        BY <1>1, <3>2
      <4> QED
        BY <2>4, <3>2, <4>1, QuotedForm
    <3>3. CASE ~(i = 1 \/ i = Len(h) + 2)
      <4>1. i - 1 \in 1..Len(h) /\ (i - 1) + 1 = i /\ Len(left) + (i - 1) = 4 + i
        BY <1>1, <2>1, <3>3
      <4>2. Quoted(h)[(i - 1) + 1] = h[i - 1]
        BY <4>1, QuotedForm
      <4>3. all[Len(left) + (i - 1)] = h[i - 1]
        BY <2>2, <4>1
      <4> QED
        BY <4>1, <4>2, <4>3
    <3> QED
      BY <3>1, <3>2, <3>3
  <2>6. HoldsAfter(all, 4, Quoted(h))
    BY <1>1, <2>3, <2>5, QuotedForm DEF HoldsAfter
  <2>7. 4 + Len(Quoted(h)) = Len(all) /\ 4 \in 1..Len(all)
    BY <1>1, <2>3, QuotedForm
  <2>8. \A i \in 1..4 - 1 : all[i] \notin HostTags
    BY <2>3, Distinct DEF HostTags
  <2>9. all[4 - 1] \in PartSeparators /\ all[4] \in HostTags
    BY <2>3 DEF PartSeparators, HostTags
  <2>10. NamesAt(all, 4, Quoted(h))
    BY <2>6, <2>7, <2>8, <2>9 DEF NamesAt
  <2>11. NamesHost(all, h)
    BY <2>7, <2>10 DEF NamesHost
  <2> QED
    BY <1>2, <2>2, <2>11 DEF all, left, right
<1>3. CASE entry = <<"Host=">> \o h \o <<Semicolon, "proto=", "http">>
  <2> DEFINE left == <<"Host=">>
             right == <<Semicolon, "proto=", "http">>
  <2>1. /\ left \in Text /\ Len(left) = 1 /\ left[1] = "Host="
        /\ right \in Text /\ Len(right) = 3 /\ right[1] = Semicolon
    BY HostTypes DEF Marks, Text
  <2> HIDE DEF left, right
  <2> DEFINE all == left \o h \o right
  <2>2. /\ all \in Text /\ Len(all) = Len(left) + Len(h) + Len(right)
        /\ \A i \in 1..Len(left) : all[i] = left[i]
        /\ \A i \in 1..Len(h) : all[Len(left) + i] = h[i]
        /\ \A i \in 1..Len(right) : all[Len(left) + Len(h) + i] = right[i]
    <3>1. left \in Text /\ right \in Text
      BY <2>1
    <3> QED
      BY <3>1, Three
  <2> HIDE DEF all
  <2>3. Len(all) = Len(h) + 4 /\ all[1] = "Host="
    BY <1>1, <2>1, <2>2
  <2>4. all[1 + Len(h) + 1] = Semicolon
    BY <1>1, <2>1, <2>2
  <2>5. HoldsAfter(all, 1, h)
    BY <1>1, <2>1, <2>2, <2>3 DEF HoldsAfter
  <2>6. 1 \in 1..Len(all) /\ \A i \in 1..1 - 1 : all[i] \notin HostTags
    BY <1>1, <2>3
  <2>7. NamesAt(all, 1, h)
    BY <2>3, <2>4, <2>5, <2>6 DEF NamesAt, HostTags, PartSeparators
  <2>8. NamesHost(all, h)
    BY <2>6, <2>7 DEF NamesHost
  <2> QED
    BY <1>3, <2>2, <2>8 DEF all, left, right
<1> QED
  BY <1>2, <1>3 DEF ForwardedEntries

\* The first entry with a host names it for the whole header.
LEMMA NameAdded ==
    ASSUME NEW header \in Text, NEW entry \in Text, NEW h \in Text,
           HostFree(header), NamesHost(entry, h)
    PROVE  NamesHost(AddEntry(header, entry), h)
<1> DEFINE text == AddEntry(header, entry)
           k == Len(header) + 2
<1>1. CASE header = <<>>
  BY <1>1, Added
<1>2. CASE header # <<>>
  <2>1. PICK p \in 1..Len(entry), b \in {h, Quoted(h)} : NamesAt(entry, p, b)
    BY DEF NamesHost
  <2>2. b \in Text
    BY <2>1, QuotedForm
  <2>3. /\ Len(header) \in Nat /\ Len(entry) \in Nat /\ Len(b) \in Nat /\ Len(header) >= 1
        /\ p \in 1..Len(entry) /\ p \in Nat /\ p >= 1
    BY <1>2, <2>1, <2>2, Indices, NoTokens
  <2>4. /\ Len(text) = k + Len(entry)
        /\ \A i \in 1..Len(header) : text[i] = header[i]
        /\ text[k - 1] = Comma /\ text[k] = Space
        /\ \A i \in 1..Len(entry) : text[k + i] = entry[i]
    <3>1. /\ Len(text) = Len(header) + 2 + Len(entry)
          /\ \A i \in 1..Len(header) : text[i] = header[i]
          /\ text[Len(header) + 1] = Comma /\ text[Len(header) + 2] = Space
          /\ \A i \in 1..Len(entry) : text[Len(header) + 2 + i] = entry[i]
      BY <1>2, Added
    <3> HIDE DEF text
    <3>2. k - 1 = Len(header) + 1
      BY <2>3
    <3> QED
      BY <3>1, <3>2
  <2>5. k \in Nat /\ k >= 3 /\ k = Len(header) + 2
    BY <2>3
  <2> HIDE DEF text, k
  <2>6. k + p \in 1..Len(text) /\ text[k + p] \in HostTags
    BY <2>1, <2>3, <2>4, <2>5 DEF NamesAt
  <2>7. ASSUME NEW i \in 1..(k + p) - 1
        PROVE  text[i] \notin HostTags
    <3>1. CASE i <= Len(header)
      BY <2>3, <2>4, <3>1 DEF HostFree
    <3>2. CASE i = k - 1 \/ i = k
      BY <2>4, <3>2, Distinct DEF HostTags
    <3>3. CASE i > k
      <4>1. i - k \in 1..p - 1 /\ i - k \in 1..Len(entry) /\ k + (i - k) = i
        BY <2>3, <2>5, <3>3
      <4> QED
        BY <2>1, <2>4, <4>1 DEF NamesAt
    <3> QED
      BY <2>3, <2>5, <3>1, <3>2, <3>3
  <2>8. \/ (k + p) > 1 /\ text[(k + p) - 1] \in PartSeparators
        \/ (k + p) > 2 /\ text[(k + p) - 1] = Space
                       /\ text[(k + p) - 2] \in PartSeparators
    <3>1. CASE p = 1
      <4>1. (k + p) - 1 = k /\ (k + p) - 2 = k - 1 /\ (k + p) > 2
        BY <2>5, <3>1
      <4> QED
        BY <2>4, <4>1 DEF PartSeparators
    <3>2. CASE p > 1 /\ entry[p - 1] \in PartSeparators
      <4>1. p - 1 \in 1..Len(entry) /\ (k + p) - 1 = k + (p - 1) /\ (k + p) > 1
        BY <2>3, <2>5, <3>2
      <4> QED
        BY <2>4, <3>2, <4>1
    <3>3. CASE p > 2 /\ entry[p - 1] = Space /\ entry[p - 2] \in PartSeparators
      <4>1. /\ p - 1 \in 1..Len(entry) /\ (k + p) - 1 = k + (p - 1) /\ (k + p) > 2
            /\ p - 2 \in 1..Len(entry) /\ (k + p) - 2 = k + (p - 2)
        BY <2>3, <2>5, <3>3
      <4> QED
        BY <2>4, <3>3, <4>1
    <3> QED
      BY <2>1, <3>1, <3>2, <3>3 DEF NamesAt
  <2>9. HoldsAfter(text, k + p, b)
    <3>1. p + Len(b) <= Len(entry) /\ \A i \in 1..Len(b) : entry[p + i] = b[i]
      BY <2>1 DEF NamesAt, HoldsAfter
    <3>2. \A i \in 1..Len(b) : p + i \in 1..Len(entry) /\ (k + p) + i = k + (p + i)
      BY <2>3, <2>5, <3>1
    <3>3. (k + p) + Len(b) <= Len(text)
      BY <2>3, <2>4, <2>5, <3>1
    <3>4. \A i \in 1..Len(b) : text[(k + p) + i] = b[i]
      <4>1. \A i \in 1..Len(b) : text[k + (p + i)] = entry[p + i]
        BY <2>4, <3>2
      <4> QED
        BY <3>1, <3>2, <4>1
    <3> QED
      BY <3>3, <3>4 DEF HoldsAfter
  <2>10. \/ (k + p) + Len(b) = Len(text)
         \/ text[(k + p) + Len(b) + 1] \in PartSeparators
    <3>1. CASE p + Len(b) = Len(entry)
      <4>1. Len(text) = k + Len(entry)
        BY <2>4
      <4> QED
        BY <2>3, <2>5, <3>1, <4>1
    <3>2. CASE p + Len(b) # Len(entry)
      <4>1. p + Len(b) <= Len(entry) /\ entry[p + Len(b) + 1] \in PartSeparators
        BY <2>1, <3>2 DEF NamesAt, HoldsAfter
      <4>2. /\ p + Len(b) + 1 \in 1..Len(entry)
            /\ (k + p) + Len(b) + 1 = k + (p + Len(b) + 1)
        BY <2>3, <2>5, <3>2, <4>1
      <4> QED
        BY <2>4, <4>1, <4>2
    <3> QED
      BY <3>1, <3>2
  <2>11. NamesAt(text, k + p, b)
    BY <2>6, <2>7, <2>8, <2>9, <2>10 DEF NamesAt
  <2>12. NamesHost(text, h)
    BY <2>1, <2>6, <2>11 DEF NamesHost
  <2> QED
    BY <2>12 DEF text
<1> QED
  BY <1>1, <1>2

-----------------------------------------------------------------------------
(* The host in a header, or in a URL.                                      *)

LEMMA NameTokens ==
    ASSUME NEW name \in HostNames
    PROVE  /\ name \in Text /\ name # <<>> /\ Len(name) \in Nat /\ Len(name) >= 1
           /\ \A i \in 1..Len(name) : name[i] \notin Marks
<1>1. name \in Seq(Tokens \ Marks) /\ name # <<>>
  BY HostTypes
<1>2. name \in Text
  <2>1. Tokens \ Marks \subseteq Tokens
    OBVIOUS
  <2> QED
    BY <1>1, <2>1, SeqMonotonic DEF Text
<1>3. \A i \in 1..Len(name) : name[i] \in Tokens \ Marks
  BY <1>1, ElementOfSeq
<1> QED
  BY <1>1, <1>2, <1>3, Indices, NoTokens

LEMMA PortTokens ==
    ASSUME NEW port \in Ports
    PROVE  /\ port \in Text /\ Len(port) \in Nat
           /\ \A i \in 1..Len(port) : port[i] \notin Marks \cup {":"}
<1> DEFINE T == Tokens \ (Marks \cup {":"})
<1>1. port \in Seq(T) /\ T \subseteq Tokens
  BY HostTypes
<1>2. port \in Text
  BY <1>1, SeqMonotonic DEF Text
<1>3. \A i \in 1..Len(port) : port[i] \in T
  <2> HIDE DEF T
  <2> QED
    BY <1>1, ElementOfSeq
<1> QED
  BY <1>2, <1>3, Indices

\* Addresses are in brackets.
Bracketed(name) == IF Contains(name, ":") THEN Wrapped("[", name, "]") ELSE name

LEMMA BracketedForm ==
    ASSUME NEW name \in HostNames
    PROVE  LET host == Bracketed(name)
           IN  /\ host \in Text /\ Len(host) \in Nat /\ Len(host) >= 1
               /\ \A i \in 1..Len(host) : host[i] \notin Marks \ {"[", "]"}
               /\ Contains(name, ":") =>
                    /\ host[1] = "[" /\ host[Len(host)] = "]"
                    /\ Trim(host, {"[", "]"}) = name
               /\ ~Contains(name, ":") =>
                    /\ host = name /\ host[1] # "["
                    /\ \A i \in 1..Len(host) : host[i] # ":"
<1>1. /\ name \in Text /\ name # <<>> /\ Len(name) \in Nat /\ Len(name) >= 1
      /\ \A i \in 1..Len(name) : name[i] \notin Marks
  BY NameTokens
<1>2. CASE Contains(name, ":")
  <2> DEFINE host == Wrapped("[", name, "]")
  <2>1. /\ host \in Text /\ Len(host) = Len(name) + 2
        /\ host[1] = "[" /\ host[Len(name) + 2] = "]"
        /\ \A i \in 1..Len(name) : host[i + 1] = name[i]
    <3>1. "[" \in Tokens /\ "]" \in Tokens
      BY HostTypes DEF Marks
    <3> QED
      BY <1>1, <3>1, Between
  <2>2. Trim(host, {"[", "]"}) = name
    <3>1. /\ "[" \in Tokens /\ "]" \in Tokens
          /\ \A i \in 1..Len(name) : name[i] \notin {"[", "]"}
      BY <1>1, HostTypes DEF Marks
    <3>2. "[" \in {"[", "]"} /\ "]" \in {"[", "]"}
      OBVIOUS
    <3> DEFINE brackets == {"[", "]"}
    <3> HIDE DEF brackets
    <3> QED
      BY <1>1, <3>1, <3>2, TrimBoth DEF brackets
  <2> HIDE DEF host
  <2>3. ASSUME NEW i \in 1..Len(host)
        PROVE  host[i] \notin Marks \ {"[", "]"}
    <3>1. CASE i = 1 \/ i = Len(name) + 2
      BY <2>1, <3>1
    <3>2. CASE ~(i = 1 \/ i = Len(name) + 2)
      <4>1. i - 1 \in 1..Len(name) /\ (i - 1) + 1 = i
        BY <1>1, <2>1, <3>2
      <4> QED
        BY <1>1, <2>1, <4>1
    <3> QED
      BY <3>1, <3>2
  <2>4. Bracketed(name) = host
    BY <1>2 DEF Bracketed, host
  <2> QED
    BY <1>1, <1>2, <2>1, <2>2, <2>3, <2>4
<1>3. CASE ~Contains(name, ":")
  <2>1. Bracketed(name) = name
    BY <1>3 DEF Bracketed
  <2>2. \A i \in 1..Len(name) : name[i] # ":"
    BY <1>3 DEF Contains
  <2>3. name[1] # "["
    <3>1. 1 \in 1..Len(name)
      BY <1>1
    <3> QED
      BY <1>1, <3>1 DEF Marks
  <2> QED
    BY <1>1, <1>3, <2>1, <2>2, <2>3
<1> QED
  BY <1>2, <1>3

\* The Host header: the host, and the port unless it is the default.
LEMMA HeaderForm ==
    ASSUME NEW c, c.name \in HostNames, c.port \in Ports
    PROVE  LET host == Bracketed(c.name)
               port == c.port
               header == HostHeader(c)
           IN  /\ header \in Text
               /\ \A i \in 1..Len(host) : header[i] = host[i]
               /\ port = <<>> => header = host
               /\ port # <<>> =>
                    /\ Len(header) = Len(host) + 1 + Len(port)
                    /\ header[Len(host) + 1] = ":"
                    /\ \A i \in 1..Len(port) : header[Len(host) + 1 + i] = port[i]
<1> DEFINE host == Bracketed(c.name)
           port == c.port
<1>1. host \in Text /\ Len(host) \in Nat /\ port \in Text /\ Len(port) \in Nat
  BY BracketedForm, PortTokens
<1>2. HostHeader(c) = host \o (IF port = <<>> THEN <<>> ELSE <<":">> \o port)
  BY DEF HostHeader, Bracketed, Wrapped
<1> HIDE DEF host, port
<1>3. CASE port = <<>>
  <2>1. HostHeader(c) = host
    BY <1>1, <1>2, <1>3, ConcatEmptySeq DEF Text
  <2> QED
    BY <1>1, <1>3, <2>1 DEF host, port
<1>4. CASE port # <<>>
  <2> DEFINE colon == <<":">>
  <2>1. colon \in Text /\ Len(colon) = 1 /\ colon[1] = ":"
    BY HostTypes DEF Text
  <2> HIDE DEF colon
  <2> DEFINE all == host \o colon \o port
  <2>2. /\ all \in Text /\ Len(all) = Len(host) + Len(colon) + Len(port)
        /\ \A i \in 1..Len(host) : all[i] = host[i]
        /\ \A i \in 1..Len(colon) : all[Len(host) + i] = colon[i]
        /\ \A i \in 1..Len(port) : all[Len(host) + Len(colon) + i] = port[i]
    BY <1>1, <2>1, Three
  <2>3. all = host \o (colon \o port)
    BY <1>1, <2>1, ConcatAssociative DEF Text
  <2>4. HostHeader(c) = all
    <3> HIDE DEF all
    <3> QED
      BY <1>2, <1>4, <2>3 DEF colon
  <2> HIDE DEF all
  <2>5. all[Len(host) + 1] = ":"
    BY <1>1, <2>1, <2>2
  <2>6. Len(all) = Len(host) + 1 + Len(port)
    BY <2>1, <2>2
  <2>7. \A i \in 1..Len(port) : all[Len(host) + 1 + i] = port[i]
    BY <2>1, <2>2
  <2> QED
    BY <1>4, <2>2, <2>4, <2>5, <2>6, <2>7 DEF host, port
<1> QED
  BY <1>3, <1>4

LEMMA HeaderPlain ==
    ASSUME NEW c, c.name \in HostNames, c.port \in Ports
    PROVE  /\ Plain(HostHeader(c)) /\ Len(HostHeader(c)) >= 1
           /\ HostHeader(c)[1] = "[" <=> Contains(c.name, ":")
<1> DEFINE host == Bracketed(c.name)
           port == c.port
           header == HostHeader(c)
<1>1. /\ host \in Text /\ Len(host) \in Nat /\ Len(host) >= 1
      /\ \A i \in 1..Len(host) : host[i] \notin Marks \ {"[", "]"}
      /\ host[1] = "[" <=> Contains(c.name, ":")
  BY BracketedForm
<1>2. /\ port \in Text /\ Len(port) \in Nat
      /\ \A i \in 1..Len(port) : port[i] \notin Marks \cup {":"}
  BY PortTokens
<1>3. /\ header \in Text /\ Len(header) \in Nat
      /\ \A i \in 1..Len(host) : header[i] = host[i]
      /\ port = <<>> => header = host
      /\ port # <<>> =>
           /\ Len(header) = Len(host) + 1 + Len(port)
           /\ header[Len(host) + 1] = ":"
           /\ \A i \in 1..Len(port) : header[Len(host) + 1 + i] = port[i]
  BY HeaderForm, Indices
<1> HIDE DEF host, port, header
<1> DEFINE marks == Marks \ {"[", "]"}
<1>4. ":" \notin marks
  <2>1. ":" \notin {Comma, Semicolon, Space, Quote}
    BY Distinct
  <2> QED
    BY <2>1 DEF Marks
<1>5. {Comma, Semicolon, Space, Quote, "/", "://"} \subseteq marks
  BY Distinct DEF Marks
<1> HIDE DEF marks
<1>6. ASSUME NEW i \in 1..Len(header)
      PROVE  header[i] \notin marks
  <2>1. CASE i <= Len(host)
    BY <1>1, <1>3, <2>1 DEF marks
  <2>2. CASE port # <<>> /\ i = Len(host) + 1
    BY <1>3, <1>4, <2>2
  <2>3. CASE port # <<>> /\ i > Len(host) + 1
    <3>1. /\ i - (Len(host) + 1) \in 1..Len(port)
          /\ Len(host) + 1 + (i - (Len(host) + 1)) = i
      BY <1>1, <1>2, <1>3, <2>3
    <3> QED
      BY <1>2, <1>3, <2>3, <3>1 DEF marks
  <2> QED
    BY <1>1, <1>3, <2>1, <2>2, <2>3
<1>7. Len(header) >= 1 /\ header[1] = host[1]
  BY <1>1, <1>2, <1>3
<1>8. Plain(header)
  BY <1>3, <1>5, <1>6, <1>7, NoTokens DEF Plain
<1> QED
  BY <1>1, <1>7, <1>8 DEF header

\* The one way to read the header as a host and a port.
LEMMA PortSplit ==
    ASSUME NEW c, c.name \in HostNames, c.port \in Ports
    PROVE  /\ \A hp \in HostPorts(HostHeader(c)) :
                 hp.port # <<>> => hp.host = Bracketed(c.name)
           /\ c.port # <<>> =>
                 [host |-> Bracketed(c.name), port |-> c.port] \in HostPorts(HostHeader(c))
<1> DEFINE host == Bracketed(c.name)
           port == c.port
           header == HostHeader(c)
           address == Contains(c.name, ":")
<1>1. /\ host \in Text /\ Len(host) \in Nat /\ Len(host) >= 1
      /\ address => host[1] = "[" /\ host[Len(host)] = "]"
      /\ ~address => host[1] # "[" /\ \A i \in 1..Len(host) : host[i] # ":"
  BY BracketedForm
<1>2. host \in Text /\ Len(host) \in Nat /\ Len(host) >= 1
  BY BracketedForm
<1>3. /\ port \in Text /\ Len(port) \in Nat
      /\ \A i \in 1..Len(port) : port[i] \notin {":", "]"}
  BY PortTokens DEF Marks
<1>4. /\ header \in Text /\ Len(header) \in Nat /\ DOMAIN header = 1..Len(header)
      /\ \A i \in 1..Len(host) : header[i] = host[i]
      /\ port = <<>> => header = host
      /\ port # <<>> =>
           /\ Len(header) = Len(host) + 1 + Len(port)
           /\ header[Len(host) + 1] = ":"
           /\ \A i \in 1..Len(port) : header[Len(host) + 1 + i] = port[i]
  BY HeaderForm, Indices
<1>5. HostPorts(header) =
        {hp \in {[host |-> SubSeq(header, 1, i - 1),
                  port |-> SubSeq(header, i + 1, Len(header))] :
                 i \in {j \in DOMAIN header : header[j] = ":"}} :
            /\ ~Contains(hp.port, ":") /\ ~Contains(hp.port, "]")
            /\ IF IsPrefix(<<"[">>, hp.host) THEN IsSuffix(<<"]">>, hp.host)
               ELSE ~Contains(hp.host, ":")}
  BY DEF HostPorts
<1> HIDE DEF host, port, header, address
<1>6. Len(header) \in Nat /\ DOMAIN header = 1..Len(header)
  BY <1>4
<1>7. Len(host) <= Len(header)
  <2>1. CASE port = <<>>
    BY <1>2, <1>4, <2>1
  <2>2. CASE port # <<>>
    BY <1>2, <1>3, <1>4, <2>2
  <2> QED
    BY <2>1, <2>2
<1>8. SubSeq(header, 1, Len(host)) = host
  <2> DEFINE front == SubSeq(header, 1, Len(host))
  <2>2. /\ front \in Text /\ Len(front) = Len(host)
        /\ \A i \in 1..Len(host) : front[i] = header[i]
    BY <1>2, <1>4, <1>7, Beginning
  <2> HIDE DEF front
  <2>3. \A i \in 1..Len(host) : front[i] = host[i]
    BY <1>4, <2>2
  <2>4. front = host
    BY <1>2, <2>2, <2>3, SeqEqual DEF Text
  <2> QED
    BY <2>4 DEF front
<1>9. ASSUME NEW hp \in HostPorts(header), hp.port # <<>>
      PROVE  hp.host = host
  <2>1. PICK i \in {j \in DOMAIN header : header[j] = ":"} :
           hp = [host |-> SubSeq(header, 1, i - 1),
                 port |-> SubSeq(header, i + 1, Len(header))]
    BY <1>5
  <2>2. /\ i \in 1..Len(header) /\ i \in Nat /\ header[i] = ":"
        /\ hp.host = SubSeq(header, 1, i - 1)
        /\ hp.port = SubSeq(header, i + 1, Len(header))
    <3>1. i \in {j \in DOMAIN header : header[j] = ":"}
      BY <2>1
    <3>2. i \in 1..Len(header) /\ header[i] = ":"
      BY <1>6, <3>1
    <3>3. i \in Nat
      BY <1>6, <3>2
    <3>4. /\ hp.host = SubSeq(header, 1, i - 1)
          /\ hp.port = SubSeq(header, i + 1, Len(header))
      BY <2>1
    <3> QED
      BY <3>2, <3>3, <3>4
  <2>3. ~Contains(hp.port, "]")
    BY <1>5
  <2>4. CASE i <= Len(host)
    <3>1. host[i] = ":"
      <4>1. i \in 1..Len(host)
        BY <1>2, <1>6, <2>2, <2>4
      <4> QED
        BY <1>4, <2>2, <4>1
    <3>2. address /\ host[Len(host)] = "]"
      BY <1>1, <2>2, <2>4, <3>1
    <3>3. i < Len(host)
      BY <1>1, <2>2, <2>4, <3>1, <3>2
    <3>4. /\ Len(header) - i \in Nat /\ Len(host) - i \in 1..Len(header) - i
          /\ i + (Len(host) - i) = Len(host) /\ Len(host) \in 1..Len(host)
      BY <1>2, <1>6, <1>7, <2>2, <3>3
    <3>5. /\ Len(hp.port) = Len(header) - i
          /\ \A j \in 1..Len(header) - i : hp.port[j] = header[i + j]
      BY <1>4, <2>2, AfterIs DEF After
    <3>6. hp.port[Len(host) - i] = "]"
      BY <1>4, <3>2, <3>4, <3>5
    <3>7. Contains(hp.port, "]")
      BY <3>4, <3>5, <3>6 DEF Contains
    <3> QED
      BY <2>3, <3>7
  <2>5. CASE i = Len(host) + 1
    <3>1. i - 1 = Len(host)
      BY <1>1, <2>5
    <3> QED
      BY <1>8, <2>2, <3>1
  <2>6. CASE i > Len(host) + 1
    <3>1. port # <<>>
      <4>1. port = <<>> => Len(header) = Len(host)
        BY <1>4
      <4> QED
        BY <1>2, <1>6, <2>2, <2>6, <4>1
    <3>2. /\ i - (Len(host) + 1) \in 1..Len(port)
          /\ Len(host) + 1 + (i - (Len(host) + 1)) = i
      BY <1>1, <1>3, <1>4, <2>2, <2>6, <3>1
    <3>3. header[i] = port[i - (Len(host) + 1)]
      BY <1>4, <3>1, <3>2
    <3> QED
      BY <1>3, <2>2, <3>2, <3>3
  <2> QED
    BY <1>1, <2>2, <2>4, <2>5, <2>6
<1>10. ASSUME port # <<>>
      PROVE  [host |-> host, port |-> port] \in HostPorts(header)
  <2> DEFINE i == Len(host) + 1
             hp == [host |-> host, port |-> port]
  <2>1. i \in 1..Len(header) /\ header[i] = ":" /\ i - 1 = Len(host)
    BY <1>1, <1>3, <1>4, <1>10
  <2>2. SubSeq(header, i + 1, Len(header)) = port
    <3> DEFINE back == After(header, i)
    <3>1. /\ back \in Text /\ Len(back) = Len(header) - i
          /\ \A j \in 1..Len(header) - i : back[j] = header[i + j]
      <4> HIDE DEF i
      <4> QED
        BY <1>4, <2>1, AfterIs
    <3> HIDE DEF back
    <3>2. Len(header) - i = Len(port)
      BY <1>1, <1>3, <1>4, <1>10
    <3>3. \A j \in 1..Len(port) : back[j] = port[j]
      <4>1. \A j \in 1..Len(port) : header[Len(host) + 1 + j] = port[j]
        BY <1>4, <1>10
      <4>2. \A j \in 1..Len(port) : j \in 1..Len(header) - i
        BY <3>2
      <4> QED
        BY <3>1, <4>1, <4>2
    <3>4. back = port
      BY <1>3, <3>1, <3>2, <3>3, SeqEqual DEF Text
    <3> QED
      BY <3>4 DEF back, After
  <2>3. hp \in {[host |-> SubSeq(header, 1, k - 1),
                 port |-> SubSeq(header, k + 1, Len(header))] :
                k \in {j \in DOMAIN header : header[j] = ":"}}
    <3>1. i \in {j \in DOMAIN header : header[j] = ":"}
      BY <1>4, <2>1
    <3>2. SubSeq(header, 1, i - 1) = host
      BY <1>8, <2>1
    <3> HIDE DEF i
    <3> QED
      BY <2>2, <3>1, <3>2
  <2>4. ~Contains(port, ":") /\ ~Contains(port, "]")
    BY <1>3 DEF Contains
  <2>5. IF IsPrefix(<<"[">>, host) THEN IsSuffix(<<"]">>, host) ELSE ~Contains(host, ":")
    <3>1. host # <<>> /\ "[" \in Tokens /\ "]" \in Tokens
      BY <1>1, NoTokens, HostTypes DEF Marks
    <3>2. /\ IsPrefix(<<"[">>, host) <=> host[1] = "["
          /\ IsSuffix(<<"]">>, host) <=> host[Len(host)] = "]"
      BY <1>1, <3>1, PrefixIsFirst, SuffixIsLast
    <3>3. ~address => ~Contains(host, ":")
      BY <1>1 DEF Contains
    <3> QED
      BY <1>1, <3>2, <3>3
  <2> HIDE DEF i
  <2>6. hp.host = host /\ hp.port = port
    OBVIOUS
  <2> HIDE DEF hp
  <2>7. hp \in HostPorts(header)
    BY <1>5, <2>3, <2>4, <2>5, <2>6
  <2> QED
    BY <2>7 DEF hp
<1> QED
  BY <1>9, <1>10 DEF host, port, header

\* A proxy may record the host as a URL.
URLOf(h) == <<"http", "://">> \o h \o <<"/">>

LEMMA URLForm ==
    ASSUME NEW h \in Text
    PROVE  /\ URLOf(h) \in Text /\ Len(URLOf(h)) = Len(h) + 3
           /\ URLOf(h)[1] = "http" /\ URLOf(h)[2] = "://"
           /\ URLOf(h)[Len(h) + 3] = "/"
           /\ \A i \in 1..Len(h) : URLOf(h)[2 + i] = h[i]
<1> DEFINE left == <<"http", "://">>
           right == <<"/">>
<1>1. /\ left \in Text /\ Len(left) = 2 /\ left[1] = "http" /\ left[2] = "://"
      /\ right \in Text /\ Len(right) = 1 /\ right[1] = "/"
      /\ Len(h) \in Nat
  BY HostTypes, Indices DEF Marks, Text
<1> HIDE DEF left, right
<1> DEFINE all == left \o h \o right
<1>2. /\ all \in Text /\ Len(all) = Len(left) + Len(h) + Len(right)
      /\ \A i \in 1..Len(left) : all[i] = left[i]
      /\ \A i \in 1..Len(h) : all[Len(left) + i] = h[i]
      /\ \A i \in 1..Len(right) : all[Len(left) + Len(h) + i] = right[i]
  BY <1>1, Three
<1> HIDE DEF all
<1>3. Len(all) = Len(h) + 3 /\ all[1] = "http" /\ all[2] = "://"
  BY <1>1, <1>2
<1>4. all[Len(h) + 3] = "/"
  <2>1. Len(left) + Len(h) + 1 = Len(h) + 3 /\ 1 \in 1..Len(right)
    BY <1>1
  <2> QED
    BY <1>1, <1>2, <2>1
<1>5. \A i \in 1..Len(h) : all[2 + i] = h[i]
  BY <1>1, <1>2
<1> QED
  BY <1>2, <1>3, <1>4, <1>5 DEF URLOf, all, left, right

\* Neither form has spaces or quotes around it, or a comma in it.
LEMMA URLTokens ==
    ASSUME NEW h, Plain(h), NEW v \in {h, URLOf(h)}
    PROVE  /\ v \in Text /\ v # <<>> /\ Len(v) \in Nat
           /\ \A i \in 1..Len(v) : v[i] \notin {Comma, Space, Quote}
           /\ Unquoted(v) = v /\ TrimSpace(v) = v
<1>1. /\ h \in Text /\ Len(h) \in Nat /\ h # <<>>
      /\ \A i \in 1..Len(h) : h[i] \notin {Comma, Space, Quote}
  BY Indices DEF Plain
<1>2. /\ v \in Text /\ v # <<>> /\ Len(v) \in Nat
      /\ \A i \in 1..Len(v) : v[i] \notin {Comma, Space, Quote}
  <2>1. CASE v = h
    BY <1>1, <2>1
  <2>2. CASE v = URLOf(h)
    <3> DEFINE url == URLOf(h)
    <3>1. /\ url \in Text /\ Len(url) = Len(h) + 3
          /\ url[1] = "http" /\ url[2] = "://" /\ url[Len(h) + 3] = "/"
          /\ \A i \in 1..Len(h) : url[2 + i] = h[i]
      BY <1>1, URLForm
    <3> HIDE DEF url
    <3>2. ASSUME NEW i \in 1..Len(url)
          PROVE  url[i] \notin {Comma, Space, Quote}
      <4>1. CASE i = 1 \/ i = 2 \/ i = Len(h) + 3
        BY <3>1, <4>1, Distinct
      <4>2. CASE ~(i = 1 \/ i = 2 \/ i = Len(h) + 3)
        <5>1. i - 2 \in 1..Len(h) /\ 2 + (i - 2) = i
          BY <1>1, <3>1, <4>2
        <5> QED
          BY <1>1, <3>1, <5>1
      <4> QED
        BY <4>1, <4>2
    <3>3. url # <<>>
      BY <1>1, <3>1, NoTokens
    <3> QED
      BY <1>1, <2>2, <3>1, <3>2, <3>3 DEF url
  <2> QED
    BY <2>1, <2>2
<1>3. Trim(v, {Quote}) = v /\ Trim(v, {Space}) = v
  BY <1>2, TrimNothing
<1> QED
  BY <1>2, <1>3 DEF Unquoted, TrimSpace

\* The scheme and the path of a URL are cut off.
LEMMA URLHost ==
    ASSUME NEW h, Plain(h), NEW v \in {h, URLOf(h)}
    PROVE  HostOfURL(v) = h
<1>1. /\ h \in Text /\ Len(h) \in Nat
      /\ \A i \in 1..Len(h) : h[i] \notin {"/", "://"}
  BY Indices DEF Plain
<1>2. CASE v = h
  <2>1. {i \in DOMAIN h : h[i] = "://"} = {}
    BY <1>1, Indices
  <2> QED
    BY <1>2, <2>1 DEF HostOfURL
<1>3. CASE v = URLOf(h)
  <2> DEFINE schemes == {i \in DOMAIN v : v[i] = "://"}
             rest == After(v, 2)
  <2>1. /\ v \in Text /\ Len(v) = Len(h) + 3 /\ DOMAIN v = 1..Len(v)
        /\ v[1] = "http" /\ v[2] = "://" /\ v[Len(h) + 3] = "/"
        /\ \A i \in 1..Len(h) : v[2 + i] = h[i]
    <3>1. /\ v \in Text /\ Len(v) = Len(h) + 3
          /\ v[1] = "http" /\ v[2] = "://" /\ v[Len(h) + 3] = "/"
          /\ \A i \in 1..Len(h) : v[2 + i] = h[i]
      BY <1>1, <1>3, URLForm
    <3> QED
      BY <3>1, Indices
  <2>2. 2 \in schemes /\ schemes \subseteq Int
    BY <1>1, <2>1
  <2>3. \A i \in schemes : 2 <= i
    BY <1>1, <2>1
  <2>4. HostOfURL(v) = IF schemes = {} THEN v ELSE Before(After(v, Min(schemes)), {"/"})
    BY DEF HostOfURL
  <2> HIDE DEF schemes
  <2>5. Min(schemes) = 2
    BY <2>2, <2>3, MinIs
  <2>6. /\ rest \in Text /\ Len(rest) = Len(v) - 2
        /\ \A i \in 1..Len(v) - 2 : rest[i] = v[2 + i]
    <3>1. 2 \in 1..Len(v)
      BY <1>1, <2>1
    <3> QED
      BY <2>1, <3>1, AfterIs
  <2> HIDE DEF rest
  <2>7. Len(rest) = Len(h) + 1 /\ rest[Len(h) + 1] = "/"
    <3>1. Len(v) - 2 = Len(h) + 1 /\ Len(h) + 1 \in 1..Len(v) - 2
      BY <1>1, <2>1
    <3>2. 2 + (Len(h) + 1) = Len(h) + 3
      BY <1>1
    <3> QED
      BY <2>1, <2>6, <3>1, <3>2
  <2>8. \A i \in 1..Len(h) : rest[i] = h[i] /\ h[i] \notin {"/"}
    <3>1. \A i \in 1..Len(h) : i \in 1..Len(v) - 2
      BY <1>1, <2>1
    <3> QED
      BY <1>1, <2>1, <2>6, <3>1
  <2>9. Before(rest, {"/"}) = h
    <3>1. Len(h) <= Len(rest) /\ rest[Len(h) + 1] \in {"/"}
      BY <1>1, <2>7
    <3> QED
      BY <1>1, <2>6, <2>8, <3>1, BeforeIs
  <2> QED
    BY <2>2, <2>4, <2>5, <2>9 DEF rest
<1> QED
  BY <1>2, <1>3

\* Whichever way the host has come, its name is read off.
LEMMA NameRead ==
    ASSUME NEW c, c.name \in HostNames, c.port \in Ports,
           NEW v \in {HostHeader(c), URLOf(HostHeader(c))}
    PROVE  hostWithoutPort(v) = c.name
<1> DEFINE header == HostHeader(c)
           host == Bracketed(c.name)
           split == {hp \in HostPorts(header) : hp.port # <<>>}
           read == IF split = {} THEN header ELSE (CHOOSE hp \in split : TRUE).host
<1>1. Plain(header) /\ header \in Text /\ (header[1] = "[" <=> Contains(c.name, ":"))
  BY HeaderPlain DEF Plain
<1>2. HostOfURL(Unquoted(v)) = header
  <2> HIDE DEF header
  <2>1. v \in {header, URLOf(header)}
    BY DEF header
  <2> QED
    BY <1>1, <2>1, URLTokens, URLHost
<1>3. read = host
  <2>1. \A hp \in split : hp.host = host
    BY PortSplit
  <2>2. split = {} => header = host
    <3>1. c.port # <<>> => [host |-> host, port |-> c.port] \in split
      <4>1. c.port # <<>> => [host |-> host, port |-> c.port] \in HostPorts(header)
        BY PortSplit
      <4>2. [host |-> host, port |-> c.port].port = c.port
        OBVIOUS
      <4> HIDE DEF header, host
      <4> QED
        BY <4>1, <4>2
    <3>2. c.port = <<>> => header = host
      BY HeaderForm
    <3> QED
      BY <3>1, <3>2
  <2> HIDE DEF split, header, host
  <2> QED
    BY <2>1, <2>2
<1>4. hostWithoutPort(v) =
        IF IsPrefix(<<"[">>, header) THEN Trim(read, {"[", "]"}) ELSE read
  BY <1>2 DEF hostWithoutPort
<1>5. IsPrefix(<<"[">>, header) <=> Contains(c.name, ":")
  <2>1. "[" \in Tokens /\ header # <<>>
    BY <1>1, HostTypes DEF Marks, Plain
  <2> HIDE DEF header
  <2> QED
    BY <1>1, <2>1, PrefixIsFirst
<1>6. /\ Contains(c.name, ":") => Trim(host, {"[", "]"}) = c.name
      /\ ~Contains(c.name, ":") => host = c.name
  BY BracketedForm
<1> HIDE DEF header, host, read
<1> QED
  BY <1>3, <1>4, <1>5, <1>6

\* The first entry of the header is h, or the URL of it.
BeginsWithHost(value, h) ==
    \E b \in {h, URLOf(h)} :
        /\ HoldsAfter(value, 0, b)
        /\ Len(b) = Len(value) \/ value[Len(b) + 1] = Comma

\* firstForwardedHost finds it.
LEMMA FirstHost ==
    ASSUME NEW value \in Text, NEW h, Plain(h), BeginsWithHost(value, h)
    PROVE  firstForwardedHost(value) \in {h, URLOf(h)}
<1>1. PICK b \in {h, URLOf(h)} : /\ HoldsAfter(value, 0, b)
                                 /\ Len(b) = Len(value) \/ value[Len(b) + 1] = Comma
  BY DEF BeginsWithHost
<1>2. /\ b \in Text /\ Len(b) \in Nat /\ TrimSpace(b) = b
      /\ \A i \in 1..Len(b) : b[i] \notin {Comma}
  BY <1>1, URLTokens
<1>3. Len(b) <= Len(value) /\ \A i \in 1..Len(b) : value[i] = b[i]
  <2>1. /\ 0 + Len(b) <= Len(value)
        /\ \A i \in 1..Len(b) : value[0 + i] = b[i]
    BY <1>1 DEF HoldsAfter
  <2>2. \A i \in 1..Len(b) : 0 + i = i
    BY <1>2
  <2> QED
    BY <1>2, <2>1, <2>2
<1>4. Before(value, {Comma}) = b
  BY <1>1, <1>2, <1>3, BeforeIs
<1> QED
  BY <1>1, <1>2, <1>4 DEF firstForwardedHost

LEMMA FirstKept ==
    ASSUME NEW header \in Text, NEW entry \in Text, NEW h, Plain(h),
           BeginsWithHost(header, h)
    PROVE  BeginsWithHost(AddEntry(header, entry), h)
<1> DEFINE text == AddEntry(header, entry)
<1>1. PICK b \in {h, URLOf(h)} : /\ HoldsAfter(header, 0, b)
                                 /\ Len(b) = Len(header) \/ header[Len(b) + 1] = Comma
  BY DEF BeginsWithHost
<1>2. b \in Text /\ b # <<>> /\ Len(b) \in Nat /\ Len(b) >= 1
  BY <1>1, URLTokens, NoTokens
<1>3. Len(header) \in Nat /\ Len(entry) \in Nat
  BY Indices
<1>4. 0 + Len(b) <= Len(header) /\ \A i \in 1..Len(b) : header[0 + i] = b[i]
  BY <1>1 DEF HoldsAfter
<1>5. header # <<>>
  BY <1>2, <1>3, <1>4, NoTokens
<1>6. /\ Len(text) = Len(header) + 2 + Len(entry)
      /\ \A i \in 1..Len(header) : text[i] = header[i]
      /\ text[Len(header) + 1] = Comma
  BY <1>5, Added
<1> HIDE DEF text
<1>7. HoldsAfter(text, 0, b)
  <2>1. \A i \in 1..Len(b) : 0 + i \in 1..Len(header)
    BY <1>2, <1>3, <1>4
  <2>2. 0 + Len(b) <= Len(text)
    BY <1>2, <1>3, <1>4, <1>6
  <2> QED
    BY <1>4, <1>6, <2>1, <2>2 DEF HoldsAfter
<1>8. text[Len(b) + 1] = Comma
  <2>1. CASE Len(b) = Len(header)
    BY <1>6, <2>1
  <2>2. CASE Len(b) # Len(header)
    <3>1. Len(b) + 1 \in 1..Len(header)
      BY <1>2, <1>3, <1>4, <2>2
    <3> QED
      BY <1>1, <1>6, <2>2, <3>1
  <2> QED
    BY <2>1, <2>2
<1>9. BeginsWithHost(text, h)
  BY <1>1, <1>7, <1>8 DEF BeginsWithHost
<1> QED
  BY <1>9 DEF text

\* A first entry is where the header begins.
LEMMA FirstAdded ==
    ASSUME NEW h, Plain(h), NEW v \in {h, URLOf(h)}
    PROVE  BeginsWithHost(AddEntry(<<>>, v), h)
<1>1. v \in Text /\ Len(v) \in Nat
  BY URLTokens
<1>2. AddEntry(<<>>, v) = v
  BY DEF AddEntry
<1>3. HoldsAfter(v, 0, v)
  <2>1. 0 + Len(v) <= Len(v) /\ \A i \in 1..Len(v) : 0 + i = i
    BY <1>1
  <2> QED
    BY <2>1 DEF HoldsAfter
<1> QED
  BY <1>2, <1>3 DEF BeginsWithHost

-----------------------------------------------------------------------------
(* What the proxies have recorded when the request arrives.                *)

Hops == {"host", "for", "x-host"}

RequestTypes ==
    /\ request.route \in {"page", "admin", "workspace"}
    /\ hops \in Seq(Hops)
    /\ client.name \in HostNames /\ client.port \in Ports
    /\ request.host \in Text /\ request.forwarded \in Text
    /\ request.xForwardedHost \in Text

\* The client's host is where the handler looks first: in Forwarded, when a
\* proxy has written a host there; else in X-Forwarded-Host, when a proxy has
\* written that; else it is still the host of the request.
HostKept ==
    IF Contains(hops, "host") THEN NamesHost(request.forwarded, HostHeader(client))
    ELSE /\ HostFree(request.forwarded)
         /\ IF Contains(hops, "x-host")
            THEN BeginsWithHost(request.xForwardedHost, HostHeader(client))
            ELSE request.host = HostHeader(client) /\ request.xForwardedHost = <<>>

HostInv ==
    request # None =>
        /\ answer = None
        /\ request.route # "mount" => RequestTypes /\ (HostRecorded => HostKept)

\* The handler finds the host wherever it has been kept.
LEMMA HostFound ==
    ASSUME RequestTypes, HostKept
    PROVE  forwardedOrRequestHost(request) \in {HostHeader(client), URLOf(HostHeader(client))}
<1> DEFINE h == HostHeader(client)
           forwarded == forwardedHeaderHost(request.forwarded)
           xForwarded == firstForwardedHost(request.xForwardedHost)
<1>1. Plain(h) /\ h # <<>>
  BY HeaderPlain DEF RequestTypes, Plain
<1>2. forwardedOrRequestHost(request) =
        CASE forwarded # <<>> -> forwarded
          [] forwarded = <<>> /\ xForwarded # <<>> -> xForwarded
          [] OTHER -> request.host
  BY DEF forwardedOrRequestHost
<1>3. CASE Contains(hops, "host")
  <2>1. NamesHost(request.forwarded, h) /\ request.forwarded \in Text
    BY <1>3 DEF HostKept, RequestTypes
  <2> HIDE DEF h
  <2>2. forwarded = h
    BY <1>1, <2>1, NamedHost
  <2> HIDE DEF forwarded, xForwarded
  <2>3. forwardedOrRequestHost(request) = h
    BY <1>1, <1>2, <2>2
  <2> QED
    BY <2>3 DEF h
<1>4. CASE ~Contains(hops, "host") /\ Contains(hops, "x-host")
  <2>1. /\ HostFree(request.forwarded) /\ request.forwarded \in Text
        /\ BeginsWithHost(request.xForwardedHost, h) /\ request.xForwardedHost \in Text
    BY <1>4 DEF HostKept, RequestTypes
  <2> HIDE DEF h
  <2>2. forwarded = <<>>
    BY <2>1, NoHost
  <2>3. xForwarded \in {h, URLOf(h)} /\ xForwarded # <<>>
    BY <1>1, <2>1, FirstHost, URLTokens
  <2> HIDE DEF forwarded, xForwarded
  <2>4. forwardedOrRequestHost(request) = xForwarded
    BY <1>2, <2>2, <2>3
  <2> QED
    BY <2>3, <2>4 DEF h
<1>5. CASE ~Contains(hops, "host") /\ ~Contains(hops, "x-host")
  <2>1. /\ HostFree(request.forwarded) /\ request.forwarded \in Text
        /\ request.host = h /\ request.xForwardedHost = <<>>
    BY <1>5 DEF HostKept, RequestTypes
  <2> HIDE DEF h
  <2>2. forwarded = <<>>
    BY <2>1, NoHost
  <2>3. xForwarded = <<>>
    <3> DEFINE nothing == <<>>
    <3>1. nothing \in Text /\ Len(nothing) = 0
      BY DEF Text
    <3> HIDE DEF nothing
    <3>2. Before(nothing, {Comma}) = nothing
      BY <3>1, BeforeIs
    <3>3. TrimSpace(nothing) = nothing
      BY <3>1, TrimNothing DEF TrimSpace
    <3> QED
      BY <2>1, <3>2, <3>3 DEF nothing, firstForwardedHost
  <2> HIDE DEF forwarded, xForwarded
  <2>4. forwardedOrRequestHost(request) = request.host
    BY <1>2, <2>2, <2>3
  <2> QED
    BY <2>1, <2>4 DEF h
<1> QED
  BY <1>3, <1>4, <1>5

\* What the handler answers then.
LEMMA HandlerAnswer ==
    ASSUME RequestTypes, HostKept
    PROVE  AnswerWith(request) = ExpectedURL(request.route)
<1> DEFINE host == forwardedOrRequestHost(request)
<1>1. host \in {HostHeader(client), URLOf(HostHeader(client))}
  BY HostFound
<1> HIDE DEF host
<1>2. client.name \in HostNames /\ client.port \in Ports /\ Plain(HostHeader(client))
  BY HeaderPlain DEF RequestTypes
<1>3. hostWithoutPort(host) = client.name
  BY <1>1, <1>2, NameRead
<1>4. Unquoted(host) # <<>>
  BY <1>1, <1>2, URLTokens
<1>5. \A scheme, port :
        ExternalBaseURLForHost(host, scheme, port) =
          [scheme |-> scheme, host |-> JoinHostPort(client.name, port), path |-> <<>>]
  BY <1>3 DEF ExternalBaseURLForHost
<1> DEFINE kcp == ExternalBaseURLForHost(host, "https", <<"6443">>)
<1>6. AnswerWith(request) =
        CASE request.route = "page" -> ExternalBaseURLForHost(host, "http", <<"4466">>)
          [] request.route = "admin" -> [kcp EXCEPT !.path = <<"/", "clusters", "/", "root">>]
          [] request.route = "workspace" -> externalURLForServer(WorkspaceURL, kcp)
  BY <1>4 DEF AnswerWith, host
<1>7. CASE request.route = "page"
  <2>1. AnswerWith(request) =
          [scheme |-> "http", host |-> JoinHostPort(client.name, <<"4466">>), path |-> <<>>]
    BY <1>5, <1>6, <1>7
  <2> QED
    BY <1>7, <2>1 DEF ExpectedURL
<1>8. CASE request.route = "admin"
  <2>1. AnswerWith(request) =
          [scheme |-> "https", host |-> JoinHostPort(client.name, <<"6443">>),
           path |-> <<"/", "clusters", "/", "root">>]
    BY <1>5, <1>6, <1>8
  <2> QED
    BY <1>8, <2>1 DEF ExpectedURL
<1>9. CASE request.route = "workspace"
  <2>1. AnswerWith(request) =
          [scheme |-> "https", host |-> JoinHostPort(client.name, <<"6443">>),
           path |-> WorkspacePath]
    <3>1. /\ kcp.scheme = "https"
          /\ kcp.host = JoinHostPort(client.name, <<"6443">>)
      BY <1>5
    <3>2. AnswerWith(request) = externalURLForServer(WorkspaceURL, kcp)
      BY <1>6, <1>9
    <3> HIDE DEF kcp
    <3>3. PICK server : server = [scheme |-> server.scheme, host |-> server.host,
                                  path |-> WorkspacePath]
                        /\ server = WorkspaceURL
      BY DEF WorkspaceURL
    <3>4. PICK url : url = [server EXCEPT !.scheme = kcp.scheme, !.host = kcp.host]
      OBVIOUS
    <3>5. AnswerWith(request) = url
      BY <3>2, <3>3, <3>4 DEF externalURLForServer
    <3>6. url = [scheme |-> url.scheme, host |-> url.host, path |-> url.path]
      BY <3>3, <3>4
    <3>7. url.scheme = kcp.scheme /\ url.host = kcp.host /\ url.path = WorkspacePath
      BY <3>3, <3>4
    <3> QED
      BY <3>1, <3>5, <3>6, <3>7
  <2> QED
    BY <1>9, <2>1 DEF ExpectedURL
<1> QED
  BY <1>7, <1>8, <1>9 DEF RequestTypes

\* A proxy more: what it does, and what was recorded before it came.
LEMMA OneMoreHop ==
    ASSUME NEW hop \in Hops, hops \in Seq(Hops), hops' = Append(hops, hop)
    PROVE  /\ hops' \in Seq(Hops)
           /\ \A h : Contains(hops', h) <=> Contains(hops, h) \/ h = hop
           /\ HostRecorded' => HostRecorded
           /\ hop = "host" /\ HostRecorded' /\ ~Contains(hops, "host") =>
                ~Contains(hops, "x-host")
<1>1. /\ hops' \in Seq(Hops) /\ Len(hops') = Len(hops) + 1 /\ Len(hops) \in Nat
      /\ \A i \in 1..Len(hops) : hops'[i] = hops[i]
      /\ hops'[Len(hops) + 1] = hop
  BY AppendProperties, LenProperties
<1>2. DOMAIN hops = 1..Len(hops) /\ DOMAIN hops' = 1..Len(hops')
  BY <1>1, LenProperties
<1>3. ASSUME NEW h
      PROVE  Contains(hops', h) <=> Contains(hops, h) \/ h = hop
  <2>1. ASSUME Contains(hops', h) PROVE Contains(hops, h) \/ h = hop
    <3>1. PICK i \in 1..Len(hops') : hops'[i] = h
      BY <2>1 DEF Contains
    <3>2. i \in 1..Len(hops) \/ i = Len(hops) + 1
      BY <1>1, <3>1
    <3> QED
      BY <1>1, <3>1, <3>2 DEF Contains
  <2>2. ASSUME Contains(hops, h) PROVE Contains(hops', h)
    <3>1. PICK i \in 1..Len(hops) : hops[i] = h
      BY <2>2 DEF Contains
    <3>2. i \in 1..Len(hops') /\ hops'[i] = h
      BY <1>1, <3>1
    <3> QED
      BY <3>2 DEF Contains
  <2>3. ASSUME h = hop PROVE Contains(hops', h)
    <3>1. Len(hops) + 1 \in 1..Len(hops')
      BY <1>1
    <3> QED
      BY <1>1, <2>3, <3>1 DEF Contains
  <2> QED
    BY <2>1, <2>2, <2>3
<1>4. HostRecorded' =>
        (Contains(hops', "host") =>
            \A i \in 1..Len(hops') : hops'[i] = "x-host" => \E j \in 1..i : hops'[j] = "host")
  BY <1>2 DEF HostRecorded
<1>5. ASSUME HostRecorded', Contains(hops', "host"),
             NEW i \in 1..Len(hops), hops[i] = "x-host"
      PROVE  \E j \in 1..i : hops[j] = "host"
  <2>1. i \in 1..Len(hops') /\ hops'[i] = "x-host"
    BY <1>1, <1>5
  <2>2. PICK j \in 1..i : hops'[j] = "host"
    BY <1>4, <1>5, <2>1
  <2>3. j \in 1..i /\ j \in 1..Len(hops)
    BY <1>1, <1>5, <2>2
  <2> QED
    BY <1>1, <2>2, <2>3
<1>6. HostRecorded' => HostRecorded
  BY <1>2, <1>3, <1>5 DEF HostRecorded
<1>7. ASSUME hop = "host", HostRecorded', Contains(hops, "x-host")
      PROVE  Contains(hops, "host")
  <2>1. PICK i \in 1..Len(hops) : hops[i] = "x-host"
    BY <1>7 DEF Contains
  <2>2. Contains(hops', "host")
    BY <1>3, <1>7
  <2>3. PICK j \in 1..i : hops[j] = "host"
    BY <1>5, <1>7, <2>1, <2>2
  <2>4. j \in 1..Len(hops)
    BY <1>1, <2>1, <2>3
  <2> QED
    BY <2>3, <2>4 DEF Contains
<1> QED
  BY <1>1, <1>3, <1>6, <1>7

LEMMA HostInit == Init => HostInv /\ URLsNameTheClientsHost
  BY DEF Init, HostInv, URLsNameTheClientsHost

\* A request that comes straight from its client is for the host it names.
LEMMA SentWithHost ==
    ASSUME NEW route \in {"page", "admin", "workspace"}, Send(route)
    PROVE  HostInv'
<1>1. PICK name \in HostNames, port \in Ports :
        /\ client' = [name |-> name, port |-> port]
        /\ request' = [route |-> route, host |-> HostHeader(client'),
                       forwarded |-> <<>>, xForwardedHost |-> <<>>]
  BY DEF Send
<1>2. hops' = <<>> /\ answer' = None
  BY DEF Send
<1>3. client'.name \in HostNames /\ client'.port \in Ports
  BY <1>1
<1>4. Plain(HostHeader(client'))
  BY <1>3, HeaderPlain
<1>5. /\ request'.route = route /\ request'.host = HostHeader(client')
      /\ request'.forwarded = <<>> /\ request'.xForwardedHost = <<>>
  BY <1>1
<1>6. <<>> \in Text /\ <<>> \in Seq(Hops) /\ HostFree(<<>>)
  BY DEF Text, HostFree
<1>7. RequestTypes'
  BY <1>2, <1>3, <1>4, <1>5, <1>6 DEF RequestTypes, Plain
<1>8. \A h : ~Contains(hops', h)
  BY <1>2 DEF Contains
<1>9. HostKept'
  BY <1>5, <1>6, <1>8 DEF HostKept
<1> QED
  BY <1>2, <1>7, <1>9 DEF HostInv

LEMMA InnerIsText == Inner \in Text
  BY HostTypes DEF Inner, Text

\* A proxy records the host where it is looked for, or has it as it was.
LEMMA ForwardedWithHost ==
    ASSUME HostInv, RequestInv, ProxyForwarded
    PROVE  HostInv'
<1>1. /\ request # None /\ request.route # "mount"
      /\ UNCHANGED <<client, answer>> /\ hops' = Append(hops, "host")
  BY DEF ProxyForwarded, Forward
<1>2. PICK entry \in ForwardedEntries(request.host) :
        request' = [request EXCEPT !.forwarded = AddEntry(@, entry), !.host = Inner]
  BY DEF ProxyForwarded
<1>3. RequestTypes /\ (HostRecorded => HostKept) /\ answer = None
  BY <1>1 DEF HostInv
<1>4. /\ request'.route = request.route /\ request'.host = Inner
      /\ request'.forwarded = AddEntry(request.forwarded, entry)
      /\ request'.xForwardedHost = request.xForwardedHost
  BY <1>1, <1>2 DEF RequestInv
<1>5. /\ request.host \in Text /\ request.forwarded \in Text
      /\ entry \in Text /\ NamesHost(entry, request.host)
  BY <1>2, <1>3, EntriesName DEF RequestTypes
<1>6. "host" \in Hops /\ hops \in Seq(Hops)
  BY <1>3 DEF Hops, RequestTypes
<1>7. /\ hops' \in Seq(Hops) /\ Contains(hops', "host")
      /\ HostRecorded' => HostRecorded
      /\ HostRecorded' /\ ~Contains(hops, "host") => ~Contains(hops, "x-host")
  BY <1>1, <1>6, OneMoreHop
<1>8. RequestTypes'
  BY <1>1, <1>3, <1>4, <1>5, <1>7, InnerIsText, Added DEF RequestTypes
<1>9. ASSUME HostRecorded'
      PROVE  NamesHost(request'.forwarded, HostHeader(client))
  <2>1. HostKept
    BY <1>3, <1>7, <1>9
  <2>2. CASE Contains(hops, "host")
    <3>1. NamesHost(request.forwarded, HostHeader(client))
      BY <2>1, <2>2 DEF HostKept
    <3>2. HostHeader(client) \in Text
      BY <1>3, HeaderPlain DEF RequestTypes, Plain
    <3> QED
      BY <1>4, <1>5, <3>1, <3>2, NameKept
  <2>3. CASE ~Contains(hops, "host")
    <3>1. HostFree(request.forwarded) /\ request.host = HostHeader(client)
      BY <1>7, <1>9, <2>1, <2>3 DEF HostKept
    <3>2. NamesHost(AddEntry(request.forwarded, entry), request.host)
      BY <1>5, <3>1, NameAdded
    <3> QED
      BY <1>4, <3>1, <3>2
  <2> QED
    BY <2>2, <2>3
<1>10. HostRecorded' => HostKept'
  <2>1. HostHeader(client)' = HostHeader(client)
    BY <1>1 DEF HostHeader
  <2> QED
    BY <1>7, <1>9, <2>1 DEF HostKept
<1> QED
  BY <1>1, <1>3, <1>8, <1>10 DEF HostInv

LEMMA ForwardedFor ==
    ASSUME HostInv, RequestInv, ProxyForwardedFor
    PROVE  HostInv'
<1> DEFINE entry == <<"for=", "a">>
<1>1. /\ request # None /\ request.route # "mount"
      /\ UNCHANGED <<client, answer>> /\ hops' = Append(hops, "for")
      /\ request' = [request EXCEPT !.forwarded = AddEntry(@, entry)]
  BY DEF ProxyForwardedFor, Forward
<1>2. entry \in Text /\ HostFree(entry)
  <2>1. Len(entry) = 2 /\ entry[1] = "for=" /\ entry[2] = "a"
    OBVIOUS
  <2>2. entry \in Text
    BY HostTypes DEF Text
  <2> HIDE DEF entry
  <2> QED
    BY <2>1, <2>2 DEF HostFree, HostTags
<1> HIDE DEF entry
<1>3. RequestTypes /\ (HostRecorded => HostKept) /\ answer = None
  BY <1>1 DEF HostInv
<1>4. /\ request'.route = request.route /\ request'.host = request.host
      /\ request'.forwarded = AddEntry(request.forwarded, entry)
      /\ request'.xForwardedHost = request.xForwardedHost
  BY <1>1 DEF RequestInv
<1>5. "for" \in Hops /\ hops \in Seq(Hops) /\ request.forwarded \in Text
  BY <1>3 DEF Hops, RequestTypes
<1>6. /\ hops' \in Seq(Hops)
      /\ HostRecorded' => HostRecorded
      /\ Contains(hops', "host") <=> Contains(hops, "host")
      /\ Contains(hops', "x-host") <=> Contains(hops, "x-host")
  BY <1>1, <1>5, OneMoreHop
<1>7. RequestTypes'
  BY <1>1, <1>2, <1>3, <1>4, <1>5, <1>6, Added DEF RequestTypes
<1>8. HostHeader(client)' = HostHeader(client) /\ HostHeader(client) \in Text
  <2>1. HostHeader(client) \in Text
    BY <1>3, HeaderPlain DEF RequestTypes, Plain
  <2> QED
    BY <1>1, <2>1 DEF HostHeader
<1>9. /\ NamesHost(request.forwarded, HostHeader(client)) =>
            NamesHost(request'.forwarded, HostHeader(client))
      /\ HostFree(request.forwarded) => HostFree(request'.forwarded)
  BY <1>2, <1>4, <1>5, <1>8, NameKept, FreeAdded
<1>10. HostKept => HostKept'
  BY <1>4, <1>6, <1>8, <1>9 DEF HostKept
<1> QED
  BY <1>1, <1>3, <1>6, <1>7, <1>10 DEF HostInv

LEMMA XForwarded ==
    ASSUME HostInv, RequestInv, ProxyXForwarded
    PROVE  HostInv'
<1>1. /\ request # None /\ request.route # "mount"
      /\ UNCHANGED <<client, answer>> /\ hops' = Append(hops, "x-host")
  BY DEF ProxyXForwarded, Forward
<1>2. PICK value \in {request.host, URLOf(request.host)} :
        request' = [request EXCEPT !.xForwardedHost = AddEntry(@, value), !.host = Inner]
  BY DEF ProxyXForwarded, URLOf
<1>3. RequestTypes /\ (HostRecorded => HostKept) /\ answer = None
  BY <1>1 DEF HostInv
<1>4. /\ request'.route = request.route /\ request'.host = Inner
      /\ request'.forwarded = request.forwarded
      /\ request'.xForwardedHost = AddEntry(request.xForwardedHost, value)
  BY <1>1, <1>2 DEF RequestInv
<1>5. /\ request.host \in Text /\ request.xForwardedHost \in Text /\ value \in Text
      /\ "x-host" \in Hops /\ hops \in Seq(Hops)
  BY <1>2, <1>3, URLForm DEF RequestTypes, Hops
<1>6. /\ hops' \in Seq(Hops)
      /\ HostRecorded' => HostRecorded
      /\ Contains(hops', "host") <=> Contains(hops, "host")
      /\ Contains(hops', "x-host")
  BY <1>1, <1>5, OneMoreHop
<1>7. RequestTypes'
  BY <1>1, <1>3, <1>4, <1>5, <1>6, InnerIsText, Added DEF RequestTypes
<1>8. HostHeader(client)' = HostHeader(client) /\ Plain(HostHeader(client))
  <2>1. Plain(HostHeader(client))
    BY <1>3, HeaderPlain DEF RequestTypes
  <2> QED
    BY <1>1, <2>1 DEF HostHeader
<1>9. ASSUME HostKept, ~Contains(hops, "host")
      PROVE  BeginsWithHost(request'.xForwardedHost, HostHeader(client))
  <2>1. CASE Contains(hops, "x-host")
    <3>1. BeginsWithHost(request.xForwardedHost, HostHeader(client))
      BY <1>9, <2>1 DEF HostKept
    <3> QED
      BY <1>4, <1>5, <1>8, <3>1, FirstKept
  <2>2. CASE ~Contains(hops, "x-host")
    <3>1. request.host = HostHeader(client) /\ request.xForwardedHost = <<>>
      BY <1>9, <2>2 DEF HostKept
    <3>2. value \in {HostHeader(client), URLOf(HostHeader(client))}
      BY <1>2, <3>1
    <3>3. BeginsWithHost(AddEntry(<<>>, value), HostHeader(client))
      BY <1>8, <3>2, FirstAdded
    <3> QED
      BY <1>4, <3>1, <3>3
  <2> QED
    BY <2>1, <2>2
<1>10. HostKept => HostKept'
  BY <1>4, <1>6, <1>8, <1>9 DEF HostKept
<1> QED
  BY <1>1, <1>3, <1>6, <1>7, <1>10 DEF HostInv

LEMMA HostStep ==
    HostInv /\ RequestInv /\ URLsNameTheClientsHost /\ [Next]_vars =>
        HostInv' /\ URLsNameTheClientsHost'
<1> SUFFICES ASSUME HostInv, RequestInv, URLsNameTheClientsHost, [Next]_vars
             PROVE  HostInv' /\ URLsNameTheClientsHost'
  OBVIOUS
<1>1. ASSUME answer' = None, HostInv'
      PROVE  HostInv' /\ URLsNameTheClientsHost'
  BY <1>1 DEF URLsNameTheClientsHost
<1>2. ASSUME NEW route \in {"page", "admin", "workspace"}, Send(route)
      PROVE  HostInv' /\ URLsNameTheClientsHost'
  BY <1>1, <1>2, SentWithHost DEF Send
<1>3. ASSUME request # None, UNCHANGED answer
      PROVE  answer' = None
  BY <1>3 DEF HostInv
<1>4. CASE ProxyForwarded
  BY <1>1, <1>3, <1>4, ForwardedWithHost DEF ProxyForwarded, Forward
<1>5. CASE ProxyForwardedFor
  BY <1>1, <1>3, <1>5, ForwardedFor DEF ProxyForwardedFor, Forward
<1>6. CASE ProxyXForwarded
  BY <1>1, <1>3, <1>6, XForwarded DEF ProxyXForwarded, Forward
<1>7. CASE Handle
  <2>1. /\ request # None /\ request.route # "mount" /\ request' = None
        /\ answer' = [route |-> request.route, url |-> AnswerWith(request)]
        /\ UNCHANGED <<client, hops>>
    BY <1>7 DEF Handle
  <2>2. answer'.route = request.route /\ answer'.url = AnswerWith(request)
    BY <2>1
  <2>3. RequestTypes /\ (HostRecorded => HostKept)
    BY <2>1 DEF HostInv
  <2>4. HostRecorded' <=> HostRecorded
    BY <2>1 DEF HostRecorded
  <2>5. ASSUME HostRecorded'
        PROVE  answer'.url = ExpectedURL(answer.route)'
    <3>1. answer'.url = ExpectedURL(request.route)
      BY <2>2, <2>3, <2>4, <2>5, HandlerAnswer
    <3> QED
      BY <2>1, <2>2, <3>1 DEF ExpectedURL
  <2>6. URLsNameTheClientsHost'
    BY <2>5 DEF URLsNameTheClientsHost
  <2> QED
    BY <2>1, <2>6 DEF HostInv
<1>8. CASE SendThroughMount
  <2>1. answer' = None /\ (request' # None => request'.route = "mount")
    BY <1>8 DEF SendThroughMount
  <2> QED
    BY <1>1, <2>1 DEF HostInv
<1>9. CASE HandleMount
  <2>1. request' = None /\ answer'.route = "mount"
    BY <1>9 DEF HandleMount
  <2> QED
    BY <2>1 DEF HostInv, URLsNameTheClientsHost
<1>10. ASSUME NEW m \in Mounts, ChangeSecret(m)
       PROVE  HostInv' /\ URLsNameTheClientsHost'
  BY <1>10 DEF ChangeSecret, HostInv, RequestTypes, HostKept, HostRecorded,
               URLsNameTheClientsHost, ExpectedURL
<1>11. CASE UNCHANGED vars
  BY <1>11 DEF vars, HostInv, RequestTypes, HostKept, HostRecorded,
               URLsNameTheClientsHost, ExpectedURL
<1> QED
  BY <1>2, <1>4, <1>5, <1>6, <1>7, <1>8, <1>9, <1>10, <1>11 DEF Next

\* Every URL that a handler answers with names the host under which the client
\* has reached the provisioner, through any number of proxies of any of the
\* three kinds, for any names, addresses and ports, as long as the first proxy
\* that changed the host recorded it where the handler looks first.
THEOREM URLsAreTheClients == Spec => []URLsNameTheClientsHost
  BY HostInit, HostStep, RequestInit, RequestStep, PTL DEF Spec
=============================================================================
