------------------------ MODULE ResponseChainsProofs ------------------------
(***************************************************************************)
(* For bodies of every size, headers of every length and a size_t of every *)
(* width: what a worker sends is taken from inside the handler's body, in  *)
(* the order of the body, it is what a list of ranges asks for, and the    *)
(* headers tell what is sent.                                              *)
(***************************************************************************)
EXTENDS ResponseChains, SequenceTheorems, FiniteSetTheorems, TLAPS

Fields == {"code", "body", "compress", "contentLength", "contentRange", "gzipHeader"}

\* The pairs of ps lie in 0 .. last.
Within(ps, last) ==
    \A i \in DOMAIN ps :
        /\ ps[i][1] \in Nat /\ ps[i][2] \in Nat
        /\ ps[i][1] <= ps[i][2] /\ ps[i][2] <= last

\* The pairs of ps are sorted by their beginnings.
SortedByFirst(ps) == \A i, j \in DOMAIN ps : i < j => ps[i][1] <= ps[j][1]

\* No pair begins before an earlier one ends.
Ascending(ps) == \A i, j \in DOMAIN ps : i < j => ps[i][2] <= ps[j][1]

Token == [kind : {"from", "last", "closed", "bad"}, left : Nat, right : Nat]

\* The inductive invariant: until a link takes the response its body is the
\* handler's; the pairs collected lie in it; once sorted they are sorted.
CInv ==
    /\ DOMAIN response = Fields
    /\ returned \in 0 .. SizeMod - 1
    /\ ranges \in Seq(Int \X Int)
    /\ next \in Nat
    /\ task.range.tokens \in Seq(Token)
    /\ stage \in {"idle", "head", "range"} => ranges = <<>>
    /\ stage \notin {"idle", "done"} => response.body = Whole(returned)
    /\ stage \in {"tokens", "border"} => Within(ranges, LastByte)
    /\ stage = "border" => SortedByFirst(ranges)
    /\ stage = "done" /\ returned > 0 =>
         Within(response.body.parts, returned - 1) /\ Ascending(response.body.parts)

\* The bodies.
LEMMA WholeParts ==
  ASSUME NEW n \in Nat, n > 0
  PROVE  Within(Whole(n).parts, n - 1) /\ Ascending(Whole(n).parts)
  BY DEF Whole, Within, Ascending

LEMMA EmptyParts ==
  ASSUME NEW n
  PROVE  Within(Empty.parts, n) /\ Ascending(Empty.parts)
  BY DEF Empty, Within, Ascending

\* The length parseRangesRequest is given.
LEMMA LastByteRange ==
  ASSUME NEW n \in 0 .. SizeMod - 1, response.body = Whole(n)
  PROVE  /\ LastByte \in 0 .. SizeMod - 1
         /\ n > 0 => LastByte = n - 1
<1>1. response.body.size = n
  BY DEF Whole, Empty
<1>2. SizeMod \in Nat \ {0}
  BY ChainsAssumption
<1>3. (n - 1) % SizeMod \in 0 .. SizeMod - 1 /\ (n > 0 => (n - 1) % SizeMod = n - 1)
  BY <1>2
<1> QED
  BY <1>1, <1>3 DEF LastByte

LEMMA PairTypes ==
  ASSUME NEW p \in Int \X Int
  PROVE  p[1] \in Int /\ p[2] \in Int
  OBVIOUS

LEMMA Neighbour ==
  ASSUME NEW n \in Nat, NEW i \in 1 .. n, NEW j \in 1 .. n, i < j
  PROVE  /\ i + 1 \in 1 .. n /\ i + 1 \in 2 .. n /\ (i + 1) - 1 = i
         /\ i + 1 = j \/ i + 1 < j
  OBVIOUS

LEMMA NoOverlap ==
  ASSUME ~Overlap, NEW m \in 2 .. Len(ranges), NEW i, m - 1 = i
  PROVE  ~(ranges[m][1] < ranges[i][2])
  BY Zenon DEF Overlap

\* Pairs that are sorted and do not overlap ascend.
LEMMA SortedAscend ==
  ASSUME ranges \in Seq(Int \X Int), SortedByFirst(ranges), ~Overlap
  PROVE  Ascending(ranges)
<1> SUFFICES ASSUME NEW i \in DOMAIN ranges, NEW j \in DOMAIN ranges, i < j
             PROVE  ranges[i][2] <= ranges[j][1]
  BY DEF Ascending
<1>1. DOMAIN ranges = 1 .. Len(ranges) /\ Len(ranges) \in Nat
  OBVIOUS
<1>2. i \in 1 .. Len(ranges) /\ j \in 1 .. Len(ranges)
  BY <1>1, Zenon
<1>3. /\ i + 1 \in 1 .. Len(ranges) /\ i + 1 \in 2 .. Len(ranges)
      /\ (i + 1) - 1 = i /\ (i + 1 = j \/ i + 1 < j)
  BY <1>1, <1>2, Neighbour, Zenon
<1>4. i + 1 \in DOMAIN ranges
  BY <1>1, <1>3, Zenon
<1> DEFINE u == ranges[i][2]
           v == ranges[i + 1][1]
           w == ranges[j][1]
<1>5. u \in Int /\ v \in Int /\ w \in Int
  <2>1. \A m \in DOMAIN ranges : ranges[m] \in Int \X Int
    OBVIOUS
  <2> QED
    BY <1>4, <2>1, PairTypes, Zenon
<1>6. ~(v < u)
  <2>1. ~(ranges[i + 1][1] < ranges[i][2])
    BY <1>3, NoOverlap, Zenon
  <2> QED
    BY <2>1, Zenon
<1>7. v = w \/ v <= w
  <2>1. CASE i + 1 = j
    BY <2>1, Zenon
  <2>2. CASE i + 1 < j
    BY <1>4, <2>2, Zenon DEF SortedByFirst
  <2> QED
    BY <1>3, <2>1, <2>2, Zenon
<1>8. u <= w
  <2> HIDE DEF u, v, w
  <2> QED
    BY <1>5, <1>6, <1>7
<1> QED
  BY <1>8

\* A token that is not refused stands for a pair inside the body.
LEMMA PairWithin ==
  ASSUME NEW t \in Token,
         LastByte \in 0 .. SizeMod - 1, ~Refused(t)
  PROVE  /\ PairOf(t) \in Nat \X Nat
         /\ PairOf(t)[1] <= PairOf(t)[2] /\ PairOf(t)[2] <= LastByte
<1>1. SizeMod \in Nat \ {0}
  BY ChainsAssumption
<1> DEFINE l == Value(t.left)
           r == Value(t.right)
<1>2. l \in Nat /\ r \in Nat
  BY <1>1 DEF Value, Token
<1> HIDE DEF l, r
<1>3. CASE t.kind = "from"
  <2>1. PairOf(t) = <<l, LastByte>> /\ ~(l > LastByte)
    BY <1>3 DEF PairOf, Refused, l
  <2> QED
    BY <1>2, <2>1
<1>4. CASE t.kind = "last"
  <2>1. PairOf(t) = <<LastByte - r, LastByte>> /\ ~(r > LastByte)
    BY <1>4 DEF PairOf, Refused, r
  <2> QED
    BY <1>2, <2>1
<1>5. CASE t.kind = "closed"
  <2>1. PairOf(t) = <<l, r>> /\ ~(r < l) /\ ~(r > LastByte)
    BY <1>5 DEF PairOf, Refused, l, r
  <2> QED
    BY <1>2, <2>1
<1>6. t.kind # "bad"
  BY DEF Refused
<1> QED
  BY <1>3, <1>4, <1>5, <1>6 DEF Token

LEMMA InitOK == Init => CInv
<1> SUFFICES ASSUME Init PROVE CInv
  OBVIOUS
<1>1. SizeMod \in Nat \ {0}
  BY ChainsAssumption
<1>2. /\ stage = "idle" /\ returned = 0 /\ next = 0 /\ ranges = <<>>
      /\ task.range.tokens = <<>> /\ DOMAIN response = Fields
  BY DEF Init, Waiting, Fields
<1>3. ranges \in Seq(Int \X Int) /\ task.range.tokens \in Seq(Token)
  BY <1>2
<1> QED
  BY <1>1, <1>2, <1>3 DEF CInv

\* A link that does not take the response.
LEMMA GotoOK ==
  ASSUME CInv, NEW s, Goto(s), stage # "idle", stage # "done",
         s \in {"range", "compress", "default"} \/ (s = "tokens" /\ stage = "range"),
         s = "range" => stage = "head"
  PROVE  CInv'
<1>1. UNCHANGED <<task, returned, response, next, ranges>> /\ stage' = s
  BY DEF Goto
<1>2. s = "tokens" => Within(ranges, LastByte)
  BY DEF CInv, Within
<1>3. LastByte' = LastByte
  BY <1>1 DEF LastByte
<1> QED
  BY <1>1, <1>2, <1>3 DEF CInv, Within

\* A link that takes it.
LEMMA FinishOK ==
  ASSUME CInv, NEW r, Finish(r), DOMAIN r = Fields,
         returned > 0 => Within(r.body.parts, returned - 1) /\ Ascending(r.body.parts)
  PROVE  CInv'
  BY DEF Finish, CInv, Within, Ascending

LEMMA NotSatisfiableOK ==
  ASSUME CInv, NotSatisfiable
  PROVE  CInv'
<1> DEFINE r == PrepareRangeNotSatisfiable(response)
<1>1. DOMAIN r = Fields /\ r.body = Empty
  BY DEF PrepareRangeNotSatisfiable, CInv, Fields
<1> QED
  BY <1>1, EmptyParts, FinishOK, Zenon DEF NotSatisfiable

LEMMA TokensTyped == Tokens \subseteq Token
<1>1. Numbers \subseteq Nat /\ 0 \in Nat
  BY ChainsAssumption, Zenon
<1> QED
  BY <1>1, Zenon DEF Tokens, Token

LEMMA HeaderTyped ==
  ASSUME NEW h \in Headers
  PROVE  h.tokens \in Seq(Token)
<1>1. CASE h.tokens = <<>>
  BY <1>1
<1>2. CASE h.tokens # <<>>
  <2>1. PICK m \in 0 .. MaxRanges : h.tokens \in [1 .. m -> Tokens]
    BY <1>2 DEF Headers
  <2>2. h.tokens \in [1 .. m -> Token] /\ m \in Nat
    BY <2>1, TokensTyped, ChainsAssumption
  <2> QED
    BY <2>2
<1> QED
  BY <1>1, <1>2

LEMMA CallHandlerOK ==
  ASSUME CInv, CallHandler
  PROVE  CInv'
<1>1. PICK h \in Headers, n \in BodySizes :
        /\ task'.range = h /\ returned' = n /\ stage' = "head"
        /\ DOMAIN response' = Fields /\ response'.body = Whole(n)
  BY DEF CallHandler, Fields
<1>2. h.tokens \in Seq(Token)
  BY HeaderTyped, Zenon
<1>3. n \in 0 .. SizeMod - 1
  BY ChainsAssumption
<1>4. ranges' = <<>> /\ next' = next /\ stage = "idle"
  BY DEF CallHandler, CInv
<1>5. ranges' \in Seq(Int \X Int)
  BY <1>4
<1> QED
  BY <1>1, <1>2, <1>3, <1>4, <1>5 DEF CInv

LEMMA HeadChainOK ==
  ASSUME CInv, HeadChain
  PROVE  CInv'
<1> DEFINE r == [response EXCEPT !.contentLength = response.body.size, !.body = Empty]
<1>1. stage = "head" /\ (Finish(r) \/ Goto("range"))
  BY DEF HeadChain
<1>2. DOMAIN r = Fields /\ r.body = Empty
  BY DEF CInv, Fields
<1>3. CASE Finish(r)
  <2> HIDE DEF r
  <2> QED
    BY <1>2, <1>3, EmptyParts, FinishOK, Zenon
<1>4. CASE Goto("range")
  BY <1>1, <1>4, GotoOK
<1> QED
  BY <1>1, <1>3, <1>4

LEMMA RangeChainOK ==
  ASSUME CInv, RangeChain
  PROVE  CInv'
<1>1. stage = "range" /\ (Goto("compress") \/ NotSatisfiable \/ Goto("tokens"))
  BY Zenon DEF RangeChain
<1>2. CASE Goto("compress")
  BY <1>1, <1>2, GotoOK
<1>3. CASE Goto("tokens")
  BY <1>1, <1>3, GotoOK
<1> QED
  BY <1>1, <1>2, <1>3, NotSatisfiableOK

LEMMA ParseTokenOK ==
  ASSUME CInv, ParseToken
  PROVE  CInv'
<1> DEFINE t == task.range.tokens[next + 1]
<1>1. /\ stage = "tokens" /\ next < Len(task.range.tokens)
      /\ \/ NotSatisfiable
         \/ /\ ~Refused(t) /\ ranges' = Append(ranges, PairOf(t)) /\ next' = next + 1
            /\ UNCHANGED <<stage, task, returned, response>>
  BY DEF ParseToken
<1>2. CASE /\ ~Refused(t) /\ ranges' = Append(ranges, PairOf(t)) /\ next' = next + 1
           /\ UNCHANGED <<stage, task, returned, response>>
  <2>1. t \in Token
    BY <1>1 DEF CInv
  <2>2. LastByte \in 0 .. SizeMod - 1 /\ LastByte' = LastByte
    BY <1>1, <1>2, LastByteRange DEF CInv, LastByte
  <2> DEFINE p == PairOf(t)
  <2>3. p \in Nat \X Nat /\ p[1] <= p[2] /\ p[2] <= LastByte
    BY <1>2, <2>1, <2>2, PairWithin, Zenon
  <2>9. p \in Int \X Int /\ p[1] \in Nat /\ p[2] \in Nat
    <3> HIDE DEF p
    <3> QED
      BY <2>3
  <2> HIDE DEF p, t
  <2>4. ranges \in Seq(Int \X Int) /\ Within(ranges, LastByte) /\ next \in Nat
    BY <1>1, Zenon DEF CInv
  <2>5. ranges' = Append(ranges, p)
    BY <1>2 DEF p
  <2>6. ranges' \in Seq(Int \X Int)
    BY <2>9, <2>4, <2>5
  <2>7. Within(ranges', LastByte)
    <3>1. \A i \in DOMAIN ranges' : ranges'[i] = p \/ (i \in DOMAIN ranges /\ ranges'[i] = ranges[i])
      BY <2>9, <2>4, <2>5
    <3> QED
      BY <2>3, <2>9, <2>4, <3>1, Zenon DEF Within
  <2>8. next' \in Nat
    BY <1>2, <2>4
  <2> QED
    BY <1>1, <1>2, <2>2, <2>6, <2>7, <2>8 DEF CInv, Within
<1> QED
  BY <1>1, <1>2, NotSatisfiableOK

LEMMA SortRangesOK ==
  ASSUME CInv, SortRanges
  PROVE  CInv'
<1>1. /\ stage = "tokens"
      /\ \/ NotSatisfiable
         \/ /\ ranges' \in SortedRanges /\ stage' = "border"
            /\ UNCHANGED <<task, returned, response, next>>
  BY DEF SortRanges
<1>2. CASE /\ ranges' \in SortedRanges /\ stage' = "border"
           /\ UNCHANGED <<task, returned, response, next>>
  <2>1. /\ ranges \in Seq(Int \X Int) /\ Within(ranges, LastByte)
        /\ LastByte' = LastByte
    BY <1>1, <1>2, Zenon DEF CInv, LastByte
  <2> DEFINE D == DOMAIN ranges
  <2>2. PICK f \in [D -> D] :
          /\ \A i, j \in D : i < j => ranges[f[i]][1] <= ranges[f[j]][1]
          /\ ranges' = [i \in D |-> ranges[f[i]]]
    BY <1>2, Zenon DEF SortedRanges
  <2>3. /\ DOMAIN ranges' = D
        /\ \A i \in D : f[i] \in D /\ ranges'[i] = ranges[f[i]]
    BY <2>2, Zenon
  <2>4. ranges' \in Seq(Int \X Int)
    <3>1. Len(ranges) \in Nat /\ D = 1 .. Len(ranges) /\ \A i \in D : ranges[i] \in Int \X Int
      BY <2>1
    <3>2. ranges' \in [1 .. Len(ranges) -> Int \X Int]
      BY <2>2, <2>3, <3>1, Zenon
    <3> QED
      BY <3>1, <3>2
  <2>5. Within(ranges', LastByte)
    BY <2>1, <2>3, Zenon DEF Within
  <2>6. SortedByFirst(ranges')
    BY <2>2, <2>3, Zenon DEF SortedByFirst
  <2> HIDE DEF D
  <2> QED
    BY <1>1, <1>2, <2>1, <2>4, <2>5, <2>6 DEF CInv, Within, SortedByFirst
<1> QED
  BY <1>1, <1>2, NotSatisfiableOK

LEMMA CheckBordersOK ==
  ASSUME CInv, CheckBorders
  PROVE  CInv'
<1> DEFINE r == PrepareRange(response)
<1>1. stage = "border" /\ (NotSatisfiable \/ (~Overlap /\ Finish(r)))
  BY DEF CheckBorders
<1>2. CASE ~Overlap /\ Finish(r)
  <2>1. DOMAIN r = Fields /\ r.body = Cut(ranges)
    BY DEF PrepareRange, CInv, Fields
  <2>2. Cut(ranges).parts = ranges
    BY DEF Cut
  <2>3. Ascending(ranges)
    BY <1>1, <1>2, SortedAscend, Zenon DEF CInv
  <2>4. Within(ranges, LastByte) /\ (returned > 0 => LastByte = returned - 1)
    BY <1>1, LastByteRange, Zenon DEF CInv
  <2> HIDE DEF r
  <2> QED
    BY <1>2, <2>1, <2>2, <2>3, <2>4, FinishOK, Zenon
<1> QED
  BY <1>1, <1>2, NotSatisfiableOK

LEMMA CompressChainOK ==
  ASSUME CInv, CompressChain
  PROVE  CInv'
<1> DEFINE r == PrepareCompress(response)
<1>1. stage = "compress" /\ (Finish(r) \/ Goto("default"))
  BY Zenon DEF CompressChain
<1>2. CASE Finish(r)
  <2>1. DOMAIN r = Fields /\ r.body.parts = response.body.parts
    BY DEF PrepareCompress, CInv, Fields, Gzip
  <2>2. response.body = Whole(returned)
    BY <1>1 DEF CInv
  <2>3. returned \in Nat
    BY ChainsAssumption DEF CInv
  <2> HIDE DEF r
  <2> QED
    BY <1>2, <2>1, <2>2, <2>3, WholeParts, FinishOK, Zenon
<1>3. CASE Goto("default")
  BY <1>1, <1>3, GotoOK
<1> QED
  BY <1>1, <1>2, <1>3

LEMMA DefaultChainOK ==
  ASSUME CInv, DefaultChain
  PROVE  CInv'
<1> DEFINE r == [response EXCEPT !.contentLength = response.body.size]
<1>1. stage = "default" /\ Finish(r)
  BY DEF DefaultChain
<1>2. DOMAIN r = Fields /\ r.body = response.body
  BY DEF CInv, Fields
<1>3. response.body = Whole(returned)
  BY <1>1 DEF CInv
<1>4. returned \in Nat
  BY ChainsAssumption DEF CInv
<1> HIDE DEF r
<1> QED
  BY <1>1, <1>2, <1>3, <1>4, WholeParts, FinishOK, Zenon

LEMMA NextTaskOK ==
  ASSUME CInv, NextTask
  PROVE  CInv'
<1>1. SizeMod \in Nat \ {0}
  BY ChainsAssumption
<1>2. /\ stage' = "idle" /\ returned' = 0 /\ next' = 0 /\ ranges' = <<>>
      /\ task'.range.tokens = <<>> /\ DOMAIN response' = Fields
  BY DEF NextTask, Waiting, Fields
<1>3. ranges' \in Seq(Int \X Int) /\ task'.range.tokens \in Seq(Token)
  BY <1>2
<1> QED
  BY <1>1, <1>2, <1>3 DEF CInv

LEMMA StepOK == CInv /\ [Next]_vars => CInv'
<1> SUFFICES ASSUME CInv, [Next]_vars PROVE CInv'
  OBVIOUS
<1>1. CASE UNCHANGED vars
  BY <1>1 DEF vars, CInv, Within, SortedByFirst, Ascending, LastByte
<1> QED
  BY <1>1, CallHandlerOK, HeadChainOK, RangeChainOK, ParseTokenOK, SortRangesOK,
     CheckBordersOK, CompressChainOK, DefaultChainOK, NextTaskOK, Zenon DEF Next

\* CInv is inductive.
LEMMA Inductive == Spec => []CInv
  BY InitOK, StepOK, PTL DEF Spec

LEMMA Consequences == CInv => RangesWithinBody /\ PartsAscend
<1> SUFFICES ASSUME CInv, Done, returned > 0
             PROVE  RangesWithinBody /\ PartsAscend
  BY Zenon DEF RangesWithinBody, PartsAscend
<1> DEFINE ps == response.body.parts
<1>1. Within(ps, returned - 1) /\ Ascending(ps) /\ returned \in Int
  BY DEF CInv, Done
<1>2. PartsAscend
  BY <1>1, Zenon DEF PartsAscend, Ascending
<1> HIDE DEF ps
<1>3. \A i \in DOMAIN ps : 0 <= ps[i][1] /\ ps[i][1] <= ps[i][2] /\ ps[i][2] < returned
  BY <1>1 DEF Within
<1>4. RangesWithinBody
  BY <1>3, Zenon DEF RangesWithinBody, ps
<1> QED
  BY <1>2, <1>4

\* Every byte prepareRangeResponse copies is a byte of the handler's body,
\* when that has any: for every header, and whatever its numbers overflow to.
THEOREM CutsStayInside == Spec => []RangesWithinBody
  BY Inductive, Consequences, PTL

\* The parts of a multipart answer come in the order of the body: the sort and
\* the comparison of neighbours in parseRangesRequest order all pairs.
THEOREM PartsInOrder == Spec => []PartsAscend
  BY Inductive, Consequences, PTL

-----------------------------------------------------------------------------
(* The headers *)

\* No link has taken the response yet.
Untouched(r) ==
    /\ r.contentLength = NoLength /\ r.contentRange = <<>> /\ r.gzipHeader = FALSE
    /\ r.body = Whole(returned)

HeadersInv ==
    /\ stage # "done" => Untouched(response)
    /\ stage \notin {"idle", "head", "done"} => task.method # "HEAD"
    /\ LengthTells /\ CutOrCompressed /\ ContentRangeTellsSize

\* A response that may be put in the task.
Presentable(r) ==
    /\ \/ r.contentLength = IF task.method = "HEAD" THEN returned ELSE r.body.size
       \/ r.contentLength = NoLength /\ r.code = 416 /\ r.body = Empty
    /\ r.gzipHeader \in BOOLEAN
    /\ r.gzipHeader => r.body.form = "gzip"
    /\ r.body.form = "gzip" => r.gzipHeader
    /\ r.gzipHeader => r.contentRange = <<>> /\ (returned > 0 => r.body.parts = Whole(returned).parts)
    /\ r.contentRange # <<>> => r.contentRange[Len(r.contentRange)] = returned

LEMMA FinishHeaders ==
  ASSUME NEW r, Presentable(r), Finish(r)
  PROVE  HeadersInv'
<1>1. response' = r /\ stage' = "done" /\ task' = task /\ returned' = returned
  BY DEF Finish
<1>2. LengthTells' /\ ContentRangeTellsSize'
  BY <1>1 DEF Presentable, LengthTells, ContentRangeTellsSize, Done
<1>3. CutOrCompressed'
  BY <1>1, Zenon DEF Presentable, CutOrCompressed, Done
<1>4. QED
  BY <1>1, <1>2, <1>3 DEF HeadersInv

LEMMA GotoHeaders ==
  ASSUME HeadersInv, NEW s, Goto(s), stage # "done", s # "done", task.method # "HEAD"
  PROVE  HeadersInv'
  BY DEF HeadersInv, Goto, Untouched, LengthTells, CutOrCompressed, ContentRangeTellsSize, Done

LEMMA Sizes ==
  ASSUME NEW n \in Nat
  PROVE  Whole(n).size = n /\ Whole(n).form # "gzip" /\ Empty.size = 0 /\ Empty.form # "gzip"
  BY DEF Whole, Empty

LEMMA EmptyForm == Empty.form # "gzip"
  BY DEF Empty

LEMMA OnlyElement ==
  ASSUME NEW S, NEW s \in Seq(S), Len(s) = 1
  PROVE  s[1] \in S
  OBVIOUS

\* A pair with a number after it ends with that number.
LEMMA PairThenNumber ==
  ASSUME NEW p \in Int \X Int, NEW n \in Nat
  PROVE  (p \o <<n>>)[Len(p \o <<n>>)] = n
<1>1. PICK a \in Int, b \in Int : p = <<a, b>>
  OBVIOUS
<1>2. <<a, b>> \in Seq(Int) /\ Len(<<a, b>>) = 2
  OBVIOUS
<1>3. <<n>> \in Seq(Int) /\ Len(<<n>>) = 1 /\ <<n>>[1] = n
  OBVIOUS
<1>4. p \in Seq(Int) /\ Len(p) = 2
  BY <1>1, <1>2, Zenon
<1> DEFINE q == <<n>>
<1>5. q \in Seq(Int) /\ Len(q) = 1 /\ q[1] = n
  BY <1>3
<1> HIDE DEF q
<1>6. /\ Len(p \o q) = Len(p) + Len(q)
      /\ \A i \in 1 .. Len(p) + Len(q) : (p \o q)[i] = IF i <= Len(p) THEN p[i] ELSE q[i - Len(p)]
  BY <1>4, <1>5, ConcatProperties
<1>7. Len(p \o q) = 3 /\ (p \o q)[3] = q[1]
  BY <1>4, <1>5, <1>6
<1>8. (p \o q)[Len(p \o q)] = n
  BY <1>5, <1>7
<1> QED
  BY <1>8 DEF q

LEMMA NotSatisfiableHeaders ==
  ASSUME CInv, HeadersInv, stage # "done", NotSatisfiable
  PROVE  HeadersInv'
<1> DEFINE r == PrepareRangeNotSatisfiable(response)
<1>1. /\ r.contentLength = NoLength /\ r.code = 416 /\ r.body = Empty /\ r.gzipHeader = FALSE
      /\ r.contentRange = <<response.body.size>>
  BY DEF CInv, Fields, HeadersInv, Untouched, PrepareRangeNotSatisfiable
<1>2. response.body.size = returned
  BY Sizes DEF CInv, HeadersInv, Untouched
<1> HIDE DEF r
<1>3. r.contentRange[Len(r.contentRange)] = returned
  BY <1>1, <1>2
<1>4. Presentable(r)
  <2>1. r.body.form # "gzip"
    BY <1>1, EmptyForm, Zenon
  <2>2. QED
    BY <1>1, <1>3, <2>1, Zenon DEF Presentable
<1>5. Finish(r)
  BY DEF NotSatisfiable, r
<1>6. QED
  BY <1>4, <1>5, FinishHeaders

LEMMA HeadHeaders ==
  ASSUME CInv, HeadersInv, HeadChain
  PROVE  HeadersInv'
<1>1. stage = "head"
  BY DEF HeadChain
<1>2. CASE task.method = "HEAD"
  <2> DEFINE r == [response EXCEPT !.contentLength = response.body.size, !.body = Empty]
  <2>1. /\ r.contentLength = response.body.size /\ r.body = Empty /\ r.gzipHeader = FALSE /\ r.contentRange = <<>>
    BY <1>1 DEF CInv, Fields, HeadersInv, Untouched
  <2>2. response.body.size = returned
    BY <1>1, Sizes DEF CInv, HeadersInv, Untouched
  <2>3. Finish(r)
    BY <1>2 DEF HeadChain
  <2> HIDE DEF r
  <2>4. r.body.form # "gzip"
    BY <2>1, EmptyForm, Zenon
  <2>5. Presentable(r)
    BY <1>2, <2>1, <2>2, <2>4, Zenon DEF Presentable
  <2>6. QED
    BY <2>3, <2>5, FinishHeaders
<1>3. CASE task.method # "HEAD"
  BY <1>1, <1>3, GotoHeaders DEF HeadChain
<1>4. QED
  BY <1>2, <1>3

LEMMA CutFields ==
  ASSUME NEW ps
  PROVE  Cut(ps).form = "cut" /\ Cut(ps).parts = ps
  BY DEF Cut

LEMMA BordersHeaders ==
  ASSUME CInv, HeadersInv, CheckBorders
  PROVE  HeadersInv'
<1>1. stage = "border"
  BY DEF CheckBorders
<1>2. CASE Overlap
  BY <1>1, <1>2, NotSatisfiableHeaders DEF CheckBorders
<1>3. CASE ~Overlap
  <2> DEFINE r == PrepareRange(response)
             c == Cut(ranges)
  <2>1. Finish(r)
    BY <1>3 DEF CheckBorders
  <2>2. /\ Untouched(response) /\ task.method # "HEAD" /\ DOMAIN response = Fields /\ ranges \in Seq(Int \X Int)
        /\ returned \in Nat
    BY <1>1, ChainsAssumption DEF HeadersInv, CInv
  <2>3. response.body.size = returned
    BY <2>2, Sizes DEF Untouched
  <2>4. c.form = "cut"
    BY CutFields
  <2> HIDE DEF c
  <2>5. /\ r.contentLength = c.size /\ r.body = c /\ r.gzipHeader = FALSE
        /\ r.contentRange = IF Len(ranges) = 1 THEN ranges[1] \o <<returned>> ELSE <<>>
    BY <2>2, <2>3 DEF PrepareRange, Fields, Untouched, c
  <2> HIDE DEF r
  <2>6. r.contentRange # <<>> => r.contentRange[Len(r.contentRange)] = returned
    <3>1. ASSUME Len(ranges) = 1 PROVE (ranges[1] \o <<returned>>)[Len(ranges[1] \o <<returned>>)] = returned
      <4>1. ranges[1] \in Int \X Int
        BY <2>2, <3>1, OnlyElement
      <4>2. QED
        BY <2>2, <4>1, PairThenNumber
    <3>2. QED
      BY <2>5, <3>1
  <2>7. Presentable(r)
    BY <2>2, <2>4, <2>5, <2>6, Zenon DEF Presentable
  <2>8. QED
    BY <2>1, <2>7, FinishHeaders
<1>4. QED
  BY <1>2, <1>3

LEMMA CompressHeaders ==
  ASSUME CInv, HeadersInv, CompressChain
  PROVE  HeadersInv'
<1>1. /\ stage = "compress" /\ Untouched(response) /\ task.method # "HEAD" /\ DOMAIN response = Fields
  BY DEF CompressChain, HeadersInv, CInv
<1>2. CASE Finish(PrepareCompress(response))
  <2> DEFINE r == PrepareCompress(response)
             g == Gzip(response.body)
  <2>1. g.form = "gzip" /\ g.parts = Whole(returned).parts
    BY <1>1 DEF Gzip, Untouched
  <2> HIDE DEF g
  <2>2. r.contentLength = g.size /\ r.body = g /\ r.gzipHeader = TRUE /\ r.contentRange = <<>>
    BY <1>1 DEF PrepareCompress, Fields, Untouched, g
  <2> HIDE DEF r
  <2>3. Presentable(r)
    BY <1>1, <2>1, <2>2, Zenon DEF Presentable
  <2>4. QED
    BY <1>2, <2>3, FinishHeaders DEF r
<1>3. CASE Goto("default")
  BY <1>1, <1>3, GotoHeaders
<1>4. QED
  BY <1>2, <1>3 DEF CompressChain

LEMMA DefaultHeaders ==
  ASSUME CInv, HeadersInv, DefaultChain
  PROVE  HeadersInv'
<1> DEFINE r == [response EXCEPT !.contentLength = response.body.size]
<1>1. /\ stage = "default" /\ Untouched(response) /\ task.method # "HEAD" /\ DOMAIN response = Fields /\ Finish(r)
      /\ returned \in Nat
  BY ChainsAssumption DEF DefaultChain, HeadersInv, CInv
<1>2. /\ r.contentLength = r.body.size /\ r.body = Whole(returned) /\ r.gzipHeader = FALSE /\ r.contentRange = <<>>
  BY <1>1 DEF Fields, Untouched
<1> HIDE DEF r
<1>3. r.body.form # "gzip"
  BY <1>1, <1>2, Sizes
<1>4. Presentable(r)
  BY <1>1, <1>2, <1>3, Zenon DEF Presentable
<1>5. QED
  BY <1>1, <1>4, FinishHeaders

LEMMA StillHeaders ==
  ASSUME HeadersInv, stage # "done", stage' # "done",
         response' = response, task' = task, returned' = returned,
         stage' \in {"idle", "head"} \/ stage \notin {"idle", "head"}
  PROVE  HeadersInv'
  BY DEF HeadersInv, Untouched, LengthTells, CutOrCompressed, ContentRangeTellsSize, Done

LEMMA HeadersStep == CInv /\ HeadersInv /\ [Next]_vars => HeadersInv'
<1> SUFFICES ASSUME CInv, HeadersInv, [Next]_vars PROVE HeadersInv'
  OBVIOUS
<1>1. CASE UNCHANGED vars
  BY <1>1 DEF vars, HeadersInv, Untouched, LengthTells, CutOrCompressed, ContentRangeTellsSize, Done
<1>2. CASE CallHandler
  <2>1. PICK n \in BodySizes, code \in Codes, z \in BOOLEAN :
           /\ returned' = n
           /\ response' = [code |-> code, compress |-> z, body |-> Whole(n), contentLength |-> NoLength,
                           contentRange |-> <<>>, gzipHeader |-> FALSE]
    BY <1>2 DEF CallHandler
  <2>2. stage' = "head"
    BY <1>2 DEF CallHandler
  <2>3. Untouched(response)'
    BY <2>1 DEF Untouched, Whole, Empty, NoLength
  <2>4. QED
    BY <2>2, <2>3 DEF HeadersInv, LengthTells, CutOrCompressed, ContentRangeTellsSize, Done
<1>3. CASE NextTask
  <2>1. stage' = "idle" /\ returned' = 0 /\ response' = Waiting.response
    BY <1>3 DEF NextTask, Waiting
  <2>2. Untouched(response)'
    BY <2>1 DEF Untouched, Waiting, Whole, Empty, NoLength
  <2>3. QED
    BY <2>1, <2>2 DEF HeadersInv, LengthTells, CutOrCompressed, ContentRangeTellsSize, Done
<1>4. CASE RangeChain
  <2>1. stage = "range" /\ task.method # "HEAD"
    BY <1>4 DEF RangeChain, HeadersInv
  <2>2. NotSatisfiable \/ Goto("compress") \/ Goto("tokens")
    BY <1>4 DEF RangeChain
  <2>3. QED
    BY <2>1, <2>2, NotSatisfiableHeaders, GotoHeaders
<1>5. CASE ParseToken
  <2>1. stage = "tokens"
    BY <1>5 DEF ParseToken
  <2>2. NotSatisfiable \/ UNCHANGED <<stage, task, returned, response>>
    BY <1>5 DEF ParseToken
  <2>3. QED
    BY <2>1, <2>2, NotSatisfiableHeaders, StillHeaders
<1>6. CASE SortRanges
  <2>1. stage = "tokens"
    BY <1>6 DEF SortRanges
  <2>2. NotSatisfiable \/ (stage' = "border" /\ UNCHANGED <<task, returned, response>>)
    BY <1>6 DEF SortRanges
  <2>3. QED
    BY <2>1, <2>2, NotSatisfiableHeaders, StillHeaders
<1>7. QED
  BY <1>1, <1>2, <1>3, <1>4, <1>5, <1>6, HeadHeaders, BordersHeaders, CompressHeaders, DefaultHeaders, Zenon DEF Next

LEMMA HeadersInit == Init => HeadersInv
  BY DEF Init, Waiting, HeadersInv, Untouched, Whole, Empty, NoLength, LengthTells, CutOrCompressed,
     ContentRangeTellsSize, Done

\* HeadersInv is inductive together with CInv.
LEMMA HeadersInductive == Spec => []HeadersInv
  BY Inductive, HeadersInit, HeadersStep, PTL DEF Spec

\* Content-Length is the length of what is sent, whatever link took the response.
THEOREM LengthAlwaysTells == Spec => []LengthTells
<1>1. HeadersInv => LengthTells
  BY DEF HeadersInv
<1> QED
  BY <1>1, HeadersInductive, PTL

\* A body is never both cut and compressed, and says which it is.
THEOREM NeverCutAndCompressed == Spec => []CutOrCompressed
<1>1. HeadersInv => CutOrCompressed
  BY DEF HeadersInv
<1> QED
  BY <1>1, HeadersInductive, PTL

\* Content-Range names the size of the handler's body, not of what is left of it.
THEOREM ContentRangeIsTrue == Spec => []ContentRangeTellsSize
<1>1. HeadersInv => ContentRangeTellsSize
  BY DEF HeadersInv
<1> QED
  BY <1>1, HeadersInductive, PTL

\* The headers of every answer agree with its body, for bodies, range headers
\* and settings of any size and kind (prepareRangeResponse and its siblings).
THEOREM HeadersAlwaysTellBody == Spec => []HeadersTellBody
  BY LengthAlwaysTells, NeverCutAndCompressed, ContentRangeIsTrue, PTL DEF HeadersTellBody

-----------------------------------------------------------------------------
(* What is served against what is asked *)

\* A request ServedAsAsked speaks of.
AskedFor ==
    /\ task.method = "GET" /\ task.range.kind = "list"
    /\ returned > 1 /\ Representable(task.range.tokens)

\* The interval a pair stands for.
Interval(p) == p[1] .. p[2]

\* The ranges are the pairs of the tokens ts, in the order of f, a permutation.
Arranged(f, ts) ==
    /\ f \in [DOMAIN ts -> DOMAIN ts]
    /\ \A i, j \in DOMAIN ts : i # j => f[i] # f[j]
    /\ \A i \in DOMAIN ts : ranges[i] = PairOf(ts[f[i]])

\* The pairs collected are those of the tokens read, none of which is refused;
\* sorting only arranges them; and no list reaches the later links.
ServedInv ==
    LET ts == task.range.tokens
    IN  /\ task.method \in {"GET", "HEAD"}
        /\ stage \in {"idle", "head", "range", "tokens", "border", "compress", "default", "done"}
        /\ stage \notin {"idle", "head", "done"} => task.method = "GET"
        /\ stage \in {"compress", "default"} => task.range.kind # "list"
        /\ stage \in {"idle", "head", "range"} => next = 0
        /\ stage = "tokens" =>
             /\ next <= Len(ts) /\ Len(ranges) = next
             /\ \A i \in 1 .. next : ranges[i] = PairOf(ts[i]) /\ ~Refused(ts[i])
        /\ stage = "border" =>
             /\ DOMAIN ranges = DOMAIN ts /\ ts # <<>>
             /\ \A i \in DOMAIN ts : ~Refused(ts[i])
             /\ \E f : Arranged(f, ts)
        /\ ServedAsAsked

\* With numbers a size_t can hold, a token that is not refused asks for the
\* bytes of its pair.
LEMMA AskedIsPair ==
  ASSUME NEW t \in Token, t.left < SizeMod, t.right < SizeMod,
         returned \in Nat, LastByte = returned - 1, ~Refused(t)
  PROVE  Asked(t) = Interval(PairOf(t))
<1>1. SizeMod \in Nat \ {0} /\ t.left \in Nat /\ t.right \in Nat
  BY ChainsAssumption DEF Token
<1>2. Value(t.left) = t.left /\ Value(t.right) = t.right
  BY <1>1 DEF Value
<1>3. CASE t.kind = "from"
  <2>1. PairOf(t) = <<t.left, returned - 1>> /\ Asked(t) = t.left .. returned - 1
    BY <1>2, <1>3 DEF PairOf, Asked
  <2> QED
    BY <2>1 DEF Interval
<1>4. CASE t.kind = "last"
  <2>1. /\ PairOf(t) = <<returned - 1 - t.right, returned - 1>>
        /\ Asked(t) = returned - 1 - t.right .. returned - 1
    BY <1>2, <1>4 DEF PairOf, Asked
  <2> QED
    BY <2>1 DEF Interval
<1>5. CASE t.kind = "closed"
  <2>1. PairOf(t) = <<t.left, t.right>> /\ Asked(t) = t.left .. t.right
    BY <1>2, <1>5 DEF PairOf, Asked
  <2> QED
    BY <2>1 DEF Interval
<1>6. t.kind # "bad"
  BY DEF Refused
<1> QED
  BY <1>3, <1>4, <1>5, <1>6 DEF Token

\* A refused token asks for no byte, or for one the body does not have.
LEMMA RefusedUnsatisfiable ==
  ASSUME NEW t \in Token, t.left < SizeMod, t.right < SizeMod,
         returned \in Nat, LastByte = returned - 1, Refused(t)
  PROVE  Asked(t) = {} \/ ~(Asked(t) \subseteq 0 .. returned - 1)
<1>1. SizeMod \in Nat \ {0} /\ t.left \in Nat /\ t.right \in Nat
  BY ChainsAssumption DEF Token
<1>2. Value(t.left) = t.left /\ Value(t.right) = t.right
  BY <1>1 DEF Value
<1>3. CASE t.kind = "from"
  <2>1. t.left > returned - 1 /\ Asked(t) = t.left .. returned - 1
    BY <1>2, <1>3 DEF Refused, Asked
  <2> QED
    BY <1>1, <2>1
<1>4. CASE t.kind = "last"
  <2>1. t.right > returned - 1 /\ Asked(t) = returned - 1 - t.right .. returned - 1
    BY <1>2, <1>4 DEF Refused, Asked
  <2>2. returned - 1 - t.right \in Asked(t) /\ returned - 1 - t.right \notin 0 .. returned - 1
    BY <1>1, <2>1
  <2> QED
    BY <2>2, Zenon
<1>5. CASE t.kind = "closed"
  <2>1. (t.right < t.left \/ t.right > returned - 1) /\ Asked(t) = t.left .. t.right
    BY <1>2, <1>5 DEF Refused, Asked
  <2>2. Asked(t) = {} \/ (t.right \in Asked(t) /\ t.right \notin 0 .. returned - 1)
    BY <1>1, <2>1
  <2> QED
    BY <2>2, Zenon
<1>6. CASE t.kind = "bad"
  BY <1>6 DEF Asked
<1> QED
  BY <1>3, <1>4, <1>5, <1>6 DEF Token

\* A permutation of the positions reaches every one of them.
LEMMA ArrangedOnto ==
  ASSUME NEW ts \in Seq(Token), NEW f, Arranged(f, ts), NEW i \in DOMAIN ts
  PROVE  \E k \in DOMAIN ts : f[k] = i
<1> DEFINE D == DOMAIN ts
<1>1. IsFiniteSet(D)
  <2>1. D = 1 .. Len(ts) /\ Len(ts) \in Nat
    OBVIOUS
  <2> QED
    BY <2>1, FS_Interval
<1>2. f \in Injection(D, D)
  BY Zenon DEF Arranged, Injection, IsInjective
<1> HIDE DEF D
<1>3. f \in Surjection(D, D)
  BY <1>1, <1>2, FS_Injection, Zenon
<1>4. \A u \in D : \E v \in D : f[v] = u
  BY <1>3, Zenon DEF Surjection
<1> QED
  BY <1>4, Zenon DEF D

\* Two intervals of which one ends where the other begins, or before, share a
\* byte at most.
LEMMA ShareAtMostOne ==
  ASSUME NEW p \in Int \X Int, NEW q \in Int \X Int, p[2] <= q[1]
  PROVE  Cardinality(Interval(p) \cap Interval(q)) <= 1
<1> DEFINE e == p[2]
           X == Interval(p) \cap Interval(q)
<1>1. \A x \in X : x = e
  BY DEF Interval
<1>2. X \in SUBSET {e}
  BY <1>1, Zenon
<1>3. IsFiniteSet({e}) /\ Cardinality({e}) = 1
  BY FS_Singleton, Zenon
<1> HIDE DEF X, e
<1>4. Cardinality(X) <= Cardinality({e})
  BY <1>2, <1>3, FS_Subset, Zenon
<1>5. Cardinality(X) <= 1
  BY <1>3, <1>4
<1> QED
  BY <1>5 DEF X

\* The intervals asked for, and those of the pairs ps.
AskedIntervals == {Asked(task.range.tokens[i]) : i \in DOMAIN task.range.tokens}
Intervals(ps) == {ps[i][1] .. ps[i][2] : i \in DOMAIN ps}

\* What the range link may answer to a request ServedAsAsked speaks of.
Answers(r) ==
    LET ts == task.range.tokens
    IN  /\ r.code \in {206, 416}
        /\ ts # <<>> /\ AllSatisfiable(ts) /\ Disjoint(ts) => r.code = 206
        /\ r.code = 206 =>
             /\ AllSatisfiable(ts) /\ TouchOnly(ts)
             /\ Len(r.body.parts) = Len(ts)
             /\ AskedIntervals = Intervals(r.body.parts)

LEMMA FinishServed ==
  ASSUME ServedInv, NEW r, Finish(r), AskedFor => Answers(r)
  PROVE  ServedInv'
<1>1. response' = r /\ stage' = "done" /\ UNCHANGED <<task, returned, next, ranges>>
  BY DEF Finish
<1>2. AskedFor' => AskedFor
  BY <1>1 DEF AskedFor, Representable
<1>3. ASSUME NEW t PROVE Asked(t)' = Asked(t)
  BY <1>1, Zenon DEF Asked
<1>4. /\ AllSatisfiable(task.range.tokens)' <=> AllSatisfiable(task.range.tokens)
      /\ Disjoint(task.range.tokens)' <=> Disjoint(task.range.tokens)
      /\ TouchOnly(task.range.tokens)' <=> TouchOnly(task.range.tokens)
  <2>1. ASSUME NEW ts PROVE AllSatisfiable(ts)' <=> AllSatisfiable(ts)
    BY <1>1, <1>3, Zenon DEF AllSatisfiable
  <2>2. ASSUME NEW ts PROVE Disjoint(ts)' <=> Disjoint(ts)
    BY <1>1, <1>3, Zenon DEF Disjoint
  <2>3. ASSUME NEW ts PROVE TouchOnly(ts)' <=> TouchOnly(ts)
    BY <1>1, <1>3, Zenon DEF TouchOnly
  <2>4. task' = task
    BY <1>1
  <2> QED
    BY <2>1, <2>2, <2>3, <2>4, Zenon
<1>5. AskedIntervals' = AskedIntervals
  BY <1>1 DEF AskedIntervals, Asked
<1>6. Answers(r) => Answers(r)'
  BY <1>1, <1>4, <1>5 DEF Answers
<1>7. (AskedFor' => Answers(response)') => ServedAsAsked'
  BY Zenon DEF ServedAsAsked, Answers, AskedFor, AskedIntervals, Intervals
<1>8. Answers(r)' => Answers(response)'
  BY <1>1, Zenon DEF Answers
<1> QED
  BY <1>1, <1>2, <1>6, <1>7, <1>8 DEF ServedInv

LEMMA GotoServed ==
  ASSUME ServedInv, NEW s, Goto(s), stage # "done",
         \/ s = "range" /\ stage = "head" /\ task.method = "GET"
         \/ s = "compress" /\ stage = "range" /\ task.range.kind # "list"
         \/ s = "default" /\ stage = "compress"
         \/ s = "tokens" /\ stage = "range" /\ ranges = <<>> /\ task.range.tokens \in Seq(Token)
  PROVE  ServedInv'
<1>1. stage' = s /\ UNCHANGED <<task, returned, response, next, ranges>>
  BY DEF Goto
<1>2. ServedAsAsked'
  BY <1>1 DEF ServedAsAsked, Done
<1>3. s = "tokens" => next = 0 /\ next <= Len(task.range.tokens) /\ Len(ranges) = 0
  BY DEF ServedInv
<1> QED
  BY <1>1, <1>2, <1>3 DEF ServedInv

\* What is known of the pairs when a request ServedAsAsked speaks of is served.
LEMMA AskedPairs ==
  ASSUME CInv, ServedInv, AskedFor, stage = "border"
  PROVE  LET ts == task.range.tokens
         IN  /\ ts \in Seq(Token) /\ LastByte = returned - 1 /\ returned \in Nat
             /\ DOMAIN ranges = DOMAIN ts /\ ts # <<>>
             /\ Within(ranges, returned - 1) /\ SortedByFirst(ranges)
             /\ \A i \in DOMAIN ts : Asked(ts[i]) = Interval(PairOf(ts[i]))
             /\ \A i \in DOMAIN ranges : ranges[i] \in Int \X Int
<1> DEFINE ts == task.range.tokens
<1>1. /\ ts \in Seq(Token) /\ ranges \in Seq(Int \X Int)
      /\ Within(ranges, LastByte) /\ SortedByFirst(ranges)
      /\ returned \in 0 .. SizeMod - 1 /\ response.body = Whole(returned)
  BY Zenon DEF CInv
<1>2. LastByte = returned - 1 /\ returned \in Nat
  BY <1>1, LastByteRange, ChainsAssumption DEF AskedFor
<1>3. /\ DOMAIN ranges = DOMAIN ts /\ ts # <<>>
      /\ \A i \in DOMAIN ts : ~Refused(ts[i])
  BY Zenon DEF ServedInv
<1>4. \A i \in DOMAIN ts : ts[i].left < SizeMod /\ ts[i].right < SizeMod
  BY Zenon DEF AskedFor, Representable
<1> HIDE DEF ts
<1>5. \A i \in DOMAIN ts : ts[i] \in Token
  BY <1>1
<1>6. \A i \in DOMAIN ts : Asked(ts[i]) = Interval(PairOf(ts[i]))
  BY <1>2, <1>3, <1>4, <1>5, AskedIsPair, Zenon
<1>7. \A i \in DOMAIN ranges : ranges[i] \in Int \X Int
  BY <1>1
<1> QED
  BY <1>1, <1>2, <1>3, <1>6, <1>7, Zenon DEF ts

LEMMA SharedByte ==
  ASSUME NEW p, NEW q, p[1] \in Nat, p[2] \in Nat, q[1] \in Nat, q[2] \in Nat,
         p[1] <= q[1], q[1] <= q[2], q[1] < p[2]
  PROVE  q[1] \in Interval(p) /\ q[1] \in Interval(q)
  BY DEF Interval

\* Neighbours that overlap ask for the same byte.
LEMMA OverlapShares ==
  ASSUME CInv, ServedInv, AskedFor, stage = "border", Overlap
  PROVE  ~Disjoint(task.range.tokens)
<1> DEFINE ts == task.range.tokens
<1>1. /\ ts \in Seq(Token) /\ LastByte = returned - 1 /\ returned \in Nat
      /\ DOMAIN ranges = DOMAIN ts
      /\ Within(ranges, returned - 1) /\ SortedByFirst(ranges)
      /\ \A i \in DOMAIN ts : Asked(ts[i]) = Interval(PairOf(ts[i]))
  BY AskedPairs, Zenon
<1>2. PICK f : Arranged(f, ts)
  BY Zenon DEF ServedInv
<1>3. PICK m \in 2 .. Len(ranges) :
        ranges[m][1] < ranges[m - 1][2] \/ ranges[m][2] > LastByte
  BY Zenon DEF Overlap
<1>4. ranges \in Seq(Int \X Int)
  BY Zenon DEF CInv
<1>5. m \in DOMAIN ranges /\ m - 1 \in DOMAIN ranges /\ m - 1 < m /\ m - 1 # m
  BY <1>3, <1>4
<1> DEFINE p == ranges[m - 1]
           q == ranges[m]
<1> HIDE DEF ts
<1>6. /\ p[1] \in Nat /\ p[2] \in Nat /\ q[1] \in Nat /\ q[2] \in Nat
      /\ q[1] <= q[2] /\ q[2] <= returned - 1 /\ p[1] <= q[1]
  BY <1>1, <1>5, Zenon DEF Within, SortedByFirst
<1>7. q[1] < p[2]
  <2>1. q[1] < p[2] \/ q[2] > LastByte
    BY <1>3, Zenon
  <2> HIDE DEF p, q
  <2> QED
    BY <1>1, <1>6, <2>1
<1>8. q[1] \in Interval(p) /\ q[1] \in Interval(q)
  BY <1>6, <1>7, SharedByte, Zenon
<1>9. f[m] \in DOMAIN ts /\ f[m - 1] \in DOMAIN ts /\ f[m] # f[m - 1]
  BY <1>1, <1>2, <1>5, Zenon DEF Arranged
<1>10. p = PairOf(ts[f[m - 1]]) /\ q = PairOf(ts[f[m]])
  BY <1>1, <1>2, <1>5, Zenon DEF Arranged
<1>11. q[1] \in Asked(ts[f[m - 1]]) \cap Asked(ts[f[m]])
  <2> HIDE DEF p, q
  <2> QED
    BY <1>1, <1>8, <1>9, <1>10, Zenon
<1>12. ~Disjoint(ts)
  BY <1>9, <1>11, Zenon DEF Disjoint
<1> QED
  BY <1>12, Zenon DEF ts

\* An interval of the body.
LEMMA IntervalInside ==
  ASSUME NEW p, NEW n \in Nat, p[1] \in Nat, p[2] \in Nat, p[1] <= p[2], p[2] <= n - 1
  PROVE  Interval(p) # {} /\ Interval(p) \subseteq 0 .. n - 1
<1>1. p[1] \in Interval(p)
  BY DEF Interval
<1>2. Interval(p) \subseteq 0 .. n - 1
  BY DEF Interval
<1> QED
  BY <1>1, <1>2, Zenon

LEMMA Trichotomy ==
  ASSUME NEW n \in Nat, NEW a \in 1 .. n, NEW b \in 1 .. n, a # b
  PROVE  a < b \/ b < a
  OBVIOUS

\* Pairs without an overlap are what is asked for.
LEMMA ServedRight ==
  ASSUME CInv, ServedInv, AskedFor, stage = "border", ~Overlap
  PROVE  LET ts == task.range.tokens
         IN  /\ AllSatisfiable(ts) /\ TouchOnly(ts) /\ Len(ranges) = Len(ts)
             /\ AskedIntervals = Intervals(ranges)
<1> DEFINE ts == task.range.tokens
<1>1. /\ ts \in Seq(Token) /\ returned \in Nat
      /\ DOMAIN ranges = DOMAIN ts
      /\ Within(ranges, returned - 1)
      /\ \A i \in DOMAIN ts : Asked(ts[i]) = Interval(PairOf(ts[i]))
      /\ \A i \in DOMAIN ranges : ranges[i] \in Int \X Int
  BY AskedPairs, Zenon
<1>2. PICK f : Arranged(f, ts)
  BY Zenon DEF ServedInv
<1>3. ranges \in Seq(Int \X Int) /\ SortedByFirst(ranges)
  BY Zenon DEF CInv
<1>4. Ascending(ranges)
  BY <1>3, SortedAscend, Zenon
<1> HIDE DEF ts
<1>5. \A i \in DOMAIN ts : \E k \in DOMAIN ts : f[k] = i
  <2>1. ts \in Seq(Token) /\ Arranged(f, ts)
    BY <1>1, <1>2, Zenon
  <2> TAKE i \in DOMAIN ts
  <2> QED
    BY <2>1, ArrangedOnto
<1>6. \A k \in DOMAIN ts : f[k] \in DOMAIN ts /\ Asked(ts[f[k]]) = Interval(ranges[k])
  BY <1>1, <1>2, Zenon DEF Arranged
<1>7. \A k \in DOMAIN ts : Interval(ranges[k]) # {} /\ Interval(ranges[k]) \subseteq 0 .. returned - 1
  BY <1>1, IntervalInside, Zenon DEF Within
<1>8. AllSatisfiable(ts)
  <2> SUFFICES ASSUME NEW i \in DOMAIN ts
               PROVE  Asked(ts[i]) # {} /\ Asked(ts[i]) \subseteq 0 .. returned - 1
    BY Zenon DEF AllSatisfiable
  <2>1. PICK k \in DOMAIN ts : f[k] = i
    BY <1>5, Zenon
  <2>2. Asked(ts[i]) = Interval(ranges[k])
    BY <1>6, <2>1, Zenon
  <2> QED
    BY <1>7, <2>2, Zenon
<1>9. TouchOnly(ts)
  <2> SUFFICES ASSUME NEW i \in DOMAIN ts, NEW j \in DOMAIN ts, i # j
               PROVE  Cardinality(Asked(ts[i]) \cap Asked(ts[j])) <= 1
    BY Zenon DEF TouchOnly
  <2>1. PICK a \in DOMAIN ts, b \in DOMAIN ts : f[a] = i /\ f[b] = j
    BY <1>5, Zenon
  <2>2. a < b \/ b < a
    <3>1. DOMAIN ts = 1 .. Len(ts) /\ Len(ts) \in Nat
      BY <1>1
    <3> QED
      BY <2>1, <3>1, Trichotomy, Zenon
  <2> DEFINE p == ranges[a]
             q == ranges[b]
  <2>3. /\ p \in Int \X Int /\ q \in Int \X Int
        /\ Asked(ts[i]) = Interval(p) /\ Asked(ts[j]) = Interval(q)
    BY <1>1, <1>6, <2>1, Zenon
  <2>4. p[2] <= q[1] \/ q[2] <= p[1]
    BY <1>1, <1>4, <2>1, <2>2, Zenon DEF Ascending
  <2> HIDE DEF p, q
  <2>5. Interval(p) \cap Interval(q) = Interval(q) \cap Interval(p)
    BY Zenon
  <2>6. Cardinality(Interval(p) \cap Interval(q)) <= 1
    BY <2>3, <2>4, <2>5, ShareAtMostOne, Zenon
  <2> QED
    BY <2>3, <2>6, Zenon
<1>10. Len(ranges) = Len(ts)
  BY <1>1, <1>3
<1>11. {Asked(ts[i]) : i \in DOMAIN ts} = {Interval(ranges[k]) : k \in DOMAIN ranges}
  <2>1. ASSUME NEW i \in DOMAIN ts PROVE \E k \in DOMAIN ranges : Asked(ts[i]) = Interval(ranges[k])
    <3>1. PICK k \in DOMAIN ts : f[k] = i
      BY <1>5, Zenon
    <3>2. k \in DOMAIN ranges /\ Asked(ts[i]) = Interval(ranges[k])
      BY <1>1, <1>6, <3>1, Zenon
    <3> QED
      BY <3>2, Zenon
  <2>2. ASSUME NEW k \in DOMAIN ranges PROVE \E i \in DOMAIN ts : Interval(ranges[k]) = Asked(ts[i])
    BY <1>1, <1>6, Zenon
  <2> QED
    BY <2>1, <2>2, Zenon
<1>12. AskedIntervals = Intervals(ranges)
  BY <1>11, Zenon DEF AskedIntervals, Intervals, Interval, ts
<1> QED
  BY <1>8, <1>9, <1>10, <1>12, Zenon DEF ts

\* An exception answers a request ServedAsAsked speaks of only if something it
\* asks for cannot be served.
LEMMA NotSatisfiableServed ==
  ASSUME CInv, ServedInv, NotSatisfiable,
         AskedFor => \/ task.range.tokens = <<>>
                     \/ ~AllSatisfiable(task.range.tokens)
                     \/ ~Disjoint(task.range.tokens)
  PROVE  ServedInv'
<1> DEFINE r == PrepareRangeNotSatisfiable(response)
<1>1. r.code = 416
  BY DEF PrepareRangeNotSatisfiable, CInv, Fields
<1>2. Finish(r)
  BY DEF NotSatisfiable
<1> HIDE DEF r
<1>3. AskedFor => Answers(r)
  BY <1>1 DEF Answers
<1> QED
  BY <1>2, <1>3, FinishServed, Zenon

LEMMA RangeServed ==
  ASSUME CInv, ServedInv, RangeChain
  PROVE  ServedInv'
<1>1. stage = "range" /\ ranges = <<>> /\ task.range.tokens \in Seq(Token)
  BY DEF RangeChain, CInv
<1>2. \/ task.range.kind # "list" /\ Goto("compress")
      \/ (LastByte = 0 \/ task.range.kind # "list") /\ NotSatisfiable
      \/ Goto("tokens")
  BY DEF RangeChain, CheckRequestRange
<1>3. CASE task.range.kind # "list" /\ Goto("compress")
  BY <1>1, <1>3, GotoServed
<1>4. CASE (LastByte = 0 \/ task.range.kind # "list") /\ NotSatisfiable
  <2>1. returned \in 0 .. SizeMod - 1 /\ response.body = Whole(returned)
    BY <1>1 DEF CInv
  <2>2. ~AskedFor
    BY <1>4, <2>1, LastByteRange, ChainsAssumption DEF AskedFor
  <2> QED
    BY <1>4, <2>2, NotSatisfiableServed
<1>5. CASE Goto("tokens")
  BY <1>1, <1>5, GotoServed
<1> QED
  BY <1>2, <1>3, <1>4, <1>5

LEMMA TokenServed ==
  ASSUME CInv, ServedInv, ParseToken
  PROVE  ServedInv'
<1> DEFINE ts == task.range.tokens
           t == ts[next + 1]
<1>1. /\ stage = "tokens" /\ next < Len(ts)
      /\ \/ Refused(t) /\ NotSatisfiable
         \/ /\ ~Refused(t) /\ ranges' = Append(ranges, PairOf(t)) /\ next' = next + 1
            /\ UNCHANGED <<stage, task, returned, response>>
  BY DEF ParseToken
<1>2. /\ ts \in Seq(Token) /\ ranges \in Seq(Int \X Int) /\ next \in Nat
      /\ returned \in 0 .. SizeMod - 1 /\ response.body = Whole(returned)
  BY <1>1, Zenon DEF CInv
<1>3. next + 1 \in DOMAIN ts /\ t \in Token
  BY <1>1, <1>2
<1>4. CASE Refused(t) /\ NotSatisfiable
  <2>1. ASSUME AskedFor PROVE ~AllSatisfiable(ts)
    <3>1. LastByte = returned - 1 /\ returned \in Nat
      BY <1>2, <2>1, LastByteRange, ChainsAssumption DEF AskedFor
    <3>2. t.left < SizeMod /\ t.right < SizeMod
      BY <1>3, <2>1, Zenon DEF AskedFor, Representable
    <3> HIDE DEF t
    <3>3. Asked(t) = {} \/ ~(Asked(t) \subseteq 0 .. returned - 1)
      BY <1>3, <1>4, <3>1, <3>2, RefusedUnsatisfiable, Zenon
    <3> QED
      BY <1>3, <3>3, Zenon DEF AllSatisfiable, t
  <2> QED
    BY <1>4, <2>1, NotSatisfiableServed, Zenon
<1>5. CASE /\ ~Refused(t) /\ ranges' = Append(ranges, PairOf(t)) /\ next' = next + 1
           /\ UNCHANGED <<stage, task, returned, response>>
  <2>1. /\ Len(ranges) = next /\ \A i \in 1 .. next : ranges[i] = PairOf(ts[i]) /\ ~Refused(ts[i])
    BY <1>1, Zenon DEF ServedInv
  <2>2. LastByte' = LastByte
    BY <1>5 DEF LastByte
  <2>3. ASSUME NEW u PROVE PairOf(u)' = PairOf(u) /\ (Refused(u)' <=> Refused(u))
    BY <2>2, Zenon DEF PairOf, Refused
  <2> DEFINE x == PairOf(t)
  <2> HIDE DEF x
  <2>4. ranges' = Append(ranges, x)
    BY <1>5 DEF x
  <2>5. Len(ranges') = next + 1 /\ ranges'[next + 1] = x /\ \A i \in 1 .. next : ranges'[i] = ranges[i]
    BY <1>2, <2>1, <2>4
  <2>6. \A i \in 1 .. next + 1 : i \in 1 .. next \/ i = next + 1
    BY <1>2
  <2>7. \A i \in 1 .. next + 1 : ranges'[i] = PairOf(ts[i]) /\ ~Refused(ts[i])
    BY <1>5, <2>1, <2>5, <2>6, Zenon DEF x
  <2>8. ServedAsAsked'
    BY <1>1, <1>5 DEF ServedAsAsked, Done
  <2>9. next' <= Len(ts)
    BY <1>1, <1>2, <1>5
  <2>10. \A i \in 1 .. next' : (ranges[i] = PairOf(task.range.tokens[i]) /\ ~Refused(task.range.tokens[i]))'
    BY <1>5, <2>3, <2>7, Zenon
  <2> QED
    BY <1>1, <1>5, <2>5, <2>8, <2>9, <2>10, Zenon DEF ServedInv
<1> QED
  BY <1>1, <1>4, <1>5

LEMMA SortServed ==
  ASSUME CInv, ServedInv, SortRanges
  PROVE  ServedInv'
<1> DEFINE ts == task.range.tokens
<1>1. /\ stage = "tokens" /\ next = Len(ts)
      /\ \/ ranges = <<>> /\ NotSatisfiable
         \/ /\ ranges # <<>> /\ ranges' \in SortedRanges /\ stage' = "border"
            /\ UNCHANGED <<task, returned, response, next>>
  BY DEF SortRanges
<1>2. ts \in Seq(Token) /\ ranges \in Seq(Int \X Int) /\ next \in Nat
  BY <1>1, Zenon DEF CInv
<1>3. /\ Len(ranges) = next /\ \A i \in 1 .. next : ranges[i] = PairOf(ts[i]) /\ ~Refused(ts[i])
  BY <1>1, Zenon DEF ServedInv
<1>4. CASE ranges = <<>> /\ NotSatisfiable
  <2>1. ts = <<>>
    BY <1>1, <1>2, <1>3, <1>4
  <2> QED
    BY <1>4, <2>1, NotSatisfiableServed, Zenon
<1>5. CASE /\ ranges # <<>> /\ ranges' \in SortedRanges /\ stage' = "border"
           /\ UNCHANGED <<task, returned, response, next>>
  <2> DEFINE D == DOMAIN ranges
  <2>1. PICK f \in [D -> D] :
          /\ \A i, j \in D : i # j => f[i] # f[j]
          /\ ranges' = [i \in D |-> ranges[f[i]]]
    BY <1>5, Zenon DEF SortedRanges
  <2>2. /\ DOMAIN ranges' = D
        /\ \A i \in D : f[i] \in D /\ ranges'[i] = ranges[f[i]]
    BY <2>1, Zenon
  <2>3. DOMAIN ts = D /\ D = 1 .. next /\ ts # <<>>
    BY <1>1, <1>2, <1>3, <1>5
  <2>4. LastByte' = LastByte
    BY <1>5 DEF LastByte
  <2>5. ASSUME NEW u PROVE PairOf(u)' = PairOf(u) /\ (Refused(u)' <=> Refused(u))
    BY <2>4, Zenon DEF PairOf, Refused
  <2> HIDE DEF D
  <2>6. \A i \in D : ranges'[i] = PairOf(ts[f[i]]) /\ ~Refused(ts[i])
    BY <1>3, <2>2, <2>3, Zenon
  <2>7. task' = task
    BY <1>5
  <2>8. Arranged(f, task.range.tokens)'
    BY <2>1, <2>3, <2>5, <2>6, <2>7, Zenon DEF Arranged
  <2>9. \A i \in DOMAIN task'.range.tokens : ~Refused(task.range.tokens[i])'
    BY <2>3, <2>5, <2>6, <2>7, Zenon
  <2>10. ServedAsAsked'
    BY <1>5 DEF ServedAsAsked, Done
  <2>11. (\E g : Arranged(g, task.range.tokens))'
    BY <2>8, Zenon
  <2>12. DOMAIN ranges' = DOMAIN task'.range.tokens /\ task'.range.tokens # <<>>
    BY <2>2, <2>3, <2>7, Zenon
  <2>13. stage' = "border" /\ task.method = "GET"
    BY <1>1, <1>5 DEF ServedInv
  <2> QED
    BY <1>1, <1>5, <2>7, <2>9, <2>10, <2>11, <2>12, <2>13, Zenon DEF ServedInv
<1> QED
  BY <1>1, <1>4, <1>5

LEMMA BordersServed ==
  ASSUME CInv, ServedInv, CheckBorders
  PROVE  ServedInv'
<1>1. stage = "border"
  BY DEF CheckBorders
<1>2. CASE Overlap
  BY <1>1, <1>2, OverlapShares, NotSatisfiableServed, Zenon DEF CheckBorders
<1>3. CASE ~Overlap
  <2> DEFINE r == PrepareRange(response)
  <2>1. Finish(r)
    BY <1>3 DEF CheckBorders
  <2>2. r.code = 206 /\ r.body = Cut(ranges)
    BY DEF PrepareRange, CInv, Fields
  <2> HIDE DEF r
  <2>3. r.body.parts = ranges
    BY <2>2, CutFields
  <2>4. AskedFor => Answers(r)
    BY <1>1, <1>3, <2>2, <2>3, ServedRight, Zenon DEF Answers
  <2> QED
    BY <2>1, <2>4, FinishServed, Zenon
<1> QED
  BY <1>2, <1>3

LEMMA HeadServed ==
  ASSUME CInv, ServedInv, HeadChain
  PROVE  ServedInv'
<1>1. CASE task.method = "HEAD"
  BY <1>1, FinishServed DEF HeadChain, AskedFor
<1>2. CASE task.method # "HEAD"
  <2>1. stage = "head" /\ Goto("range")
    BY <1>2, Zenon DEF HeadChain
  <2>2. task.method = "GET"
    BY <1>2, Zenon DEF ServedInv
  <2>3. stage # "done"
    BY <2>1
  <2> QED
    BY <2>1, <2>2, <2>3, GotoServed, Zenon
<1> QED
  BY <1>1, <1>2

LEMMA CompressServed ==
  ASSUME CInv, ServedInv, CompressChain
  PROVE  ServedInv'
<1>1. stage = "compress" /\ task.range.kind # "list"
  BY DEF CompressChain, ServedInv
<1>2. CASE Finish(PrepareCompress(response))
  BY <1>1, <1>2, FinishServed DEF AskedFor
<1>3. CASE Goto("default")
  BY <1>1, <1>3, GotoServed
<1> QED
  BY <1>2, <1>3 DEF CompressChain

LEMMA DefaultServed ==
  ASSUME CInv, ServedInv, DefaultChain
  PROVE  ServedInv'
  BY FinishServed DEF DefaultChain, ServedInv, AskedFor

LEMMA CallServed ==
  ASSUME CInv, ServedInv, CallHandler
  PROVE  ServedInv'
<1>1. stage = "idle" /\ stage' = "head" /\ next' = next /\ task'.method \in {"GET", "HEAD"}
  BY DEF CallHandler
<1>2. ServedAsAsked'
  BY <1>1 DEF ServedAsAsked, Done
<1> QED
  BY <1>1, <1>2 DEF ServedInv

LEMMA NextTaskServed ==
  ASSUME NextTask
  PROVE  ServedInv'
<1>1. stage' = "idle" /\ next' = 0 /\ task'.method = "GET"
  BY DEF NextTask, Waiting
<1>2. ServedAsAsked'
  BY <1>1 DEF ServedAsAsked, Done
<1> QED
  BY <1>1, <1>2 DEF ServedInv

LEMMA InitServed == Init => ServedInv
<1> SUFFICES ASSUME Init PROVE ServedInv
  OBVIOUS
<1>1. stage = "idle" /\ next = 0 /\ task.method = "GET"
  BY DEF Init, Waiting
<1>2. ServedAsAsked
  BY <1>1 DEF ServedAsAsked, Done
<1> QED
  BY <1>1, <1>2 DEF ServedInv

LEMMA StillServed ==
  ASSUME ServedInv, UNCHANGED vars
  PROVE  ServedInv'
<1>1. UNCHANGED <<stage, task, returned, response, next, ranges>>
  BY DEF vars
<1>2. CASE stage = "done"
  <2>1. response' = response /\ Finish(response)
    BY <1>1, <1>2 DEF Finish
  <2>2. AskedFor => Answers(response)
    BY <1>2, Zenon DEF ServedInv, ServedAsAsked, Done, AskedFor, Answers, AskedIntervals, Intervals
  <2> QED
    BY <2>1, <2>2, FinishServed, Zenon
<1>3. CASE stage # "done"
  <2>1. ServedAsAsked'
    BY <1>1, <1>3 DEF ServedAsAsked, Done
  <2>2. LastByte' = LastByte
    BY <1>1 DEF LastByte
  <2>3. ASSUME NEW u PROVE PairOf(u)' = PairOf(u) /\ (Refused(u)' <=> Refused(u))
    BY <2>2, Zenon DEF PairOf, Refused
  <2>4. stage = "tokens" =>
          \A i \in 1 .. next' : (ranges[i] = PairOf(task.range.tokens[i]) /\ ~Refused(task.range.tokens[i]))'
    BY <1>1, <2>3, Zenon DEF ServedInv
  <2>5. stage = "border" => \A i \in DOMAIN task'.range.tokens : ~Refused(task.range.tokens[i])'
    BY <1>1, <2>3, Zenon DEF ServedInv
  <2>6. stage = "border" => (\E f : Arranged(f, task.range.tokens))'
    <3>1. ASSUME NEW f, Arranged(f, task.range.tokens) PROVE Arranged(f, task.range.tokens)'
      BY <1>1, <2>3, <3>1, Zenon DEF Arranged
    <3> QED
      BY <3>1, Zenon DEF ServedInv
  <2> QED
    BY <1>1, <2>1, <2>4, <2>5, <2>6, Zenon DEF ServedInv
<1> QED
  BY <1>2, <1>3

\* ServedInv is inductive together with CInv.
LEMMA ServedStep == CInv /\ ServedInv /\ [Next]_vars => ServedInv'
  BY StillServed, CallServed, HeadServed, RangeServed, TokenServed, SortServed,
     BordersServed, CompressServed, DefaultServed, NextTaskServed, Zenon DEF Next

\* parseRangesRequest and the link that calls it serve exactly what a list of
\* ranges asks for, in parts that share no more than a byte, and refuse no list
\* of disjoint ranges that lie in the body: for bodies of every size of at least
\* two bytes, lists of every length and every width of size_t.
THEOREM AlwaysServedAsAsked == Spec => []ServedAsAsked
<1>1. ServedInv => ServedAsAsked
  BY Zenon DEF ServedInv
<1> QED
  BY <1>1, Inductive, InitServed, ServedStep, PTL DEF Spec

=============================================================================
