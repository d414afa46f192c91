---------------------------- MODULE ContentProofs ----------------------------
(***************************************************************************)
(* Theorems about three components that pass content on and share no       *)
(* state.                                                                  *)
(*                                                                         *)
(* Static resources never go back in time, and stay as they are while the  *)
(* cache is used: for any paths, files, directories and number of writes.  *)
(*                                                                         *)
(* phr_decode_chunked stays inside the caller's buffer for streams of any  *)
(* length and content, cut into pieces in any way, and sizes of any width. *)
(*                                                                         *)
(* Gzip loses nothing for every limit, size and stream.  Its invariant     *)
(* relates the count of the code to what zlib has delivered, and the sizes *)
(* to the limits, so that no conversion to unsigned int changes a value.   *)
(***************************************************************************)
EXTENDS StaticResources, ChunkedDecoder, Gzip, TLAPS

-----------------------------------------------------------------------------
(* Static resources *)

\* Every type of the table is one of Types.
LEMMA TypeOfTable ==
    ASSUME NEW k \in DOMAIN MimeTypesMap
    PROVE  MimeTypesMap[k] \in Types
BY DEF Types

LEMMA InitType == StaticInit => StaticTypeOK
<1> SUFFICES ASSUME StaticInit PROVE StaticTypeOK
  OBVIOUS
<1>1. off \in BOOLEAN
  BY Zenon DEF StaticInit
<1>2. answer \in Responses
  BY ResourcesAssumption DEF StaticInit, Responses, NoAnswer, Contents
<1>3. /\ disk = [d \in Directories |-> [f \in Files |-> 0]]
      /\ writes = 0 /\ path \in Directories /\ worker = Waiting
      /\ latest = [u \in URI |-> 0] /\ cache = [u \in URI |-> NoAnswer]
      /\ cached \in BOOLEAN /\ moved \in BOOLEAN
  BY Zenon DEF StaticInit
<1> QED
  BY ResourcesAssumption, <1>1, <1>2, <1>3 DEF StaticTypeOK, Contents

LEMMA InitCache == StaticInit => CacheInv
<1> SUFFICES ASSUME StaticInit PROVE CacheInv
  OBVIOUS
<1>1. ~off => cached
  BY Zenon DEF StaticInit
<1> QED
  BY ResourcesAssumption, <1>1 DEF StaticInit, CacheInv, NoAnswer

\* What ReadFile returns.
LEMMA FoundType ==
    ASSUME StaticTypeOK, worker # Waiting
    PROVE  /\ worker.uri \in URI /\ worker.type \in Types
           /\ Found \in Contents
           /\ Found = disk[path][FileName[worker.uri]]
BY ResourcesAssumption DEF StaticTypeOK, Found, Opening

LEMMA NextType == StaticTypeOK /\ [StaticNext]_staticVars => StaticTypeOK'
<1> SUFFICES ASSUME StaticTypeOK, [StaticNext]_staticVars PROVE StaticTypeOK'
  OBVIOUS
<1> USE ResourcesAssumption
<1>1. ASSUME NEW r \in Request, Refuse(r) PROVE StaticTypeOK'
  <2>1. r.uri \in URI
    BY DEF Request
  <2>2. Answer404 \in Responses
    BY DEF Answer404, Responses, Contents, Types, MimeTypesMap
  <2> QED
    BY <1>1, <2>1, <2>2 DEF Refuse, Answer, StaticTypeOK, Answer404
<1>2. ASSUME NEW r \in Request, TakeFromCache(r) PROVE StaticTypeOK'
  <2>1. r.uri \in URI
    BY DEF Request
  <2>2. /\ cache[r.uri] \in [code : {200}, content : Contents \ {0}, type : Types]
    BY <1>2, <2>1 DEF TakeFromCache, StaticTypeOK, NoAnswer
  <2>3. cache[r.uri] \in Responses /\ cache[r.uri].content \in Contents
    BY <2>2 DEF Responses
  <2> QED
    BY <1>2, <2>1, <2>3 DEF TakeFromCache, Answer, StaticTypeOK
<1>3. ASSUME NEW r \in Request, GoToDisk(r) PROVE StaticTypeOK'
  <2>1. r.uri \in URI
    BY DEF Request
  <2>2. MimeTypesMap[ContentTypeKey(r)] \in Types
    BY <1>3, TypeOfTable DEF GoToDisk
  <2>3. worker' \in Opening
    BY <1>3, <2>1, <2>2 DEF GoToDisk, Opening
  <2> QED
    BY <1>3, <2>3 DEF GoToDisk, StaticTypeOK
<1>4. CASE ReadFile
  <2>1. /\ worker.uri \in URI /\ worker.type \in Types
        /\ Found \in Contents
    BY <1>4, FoundType DEF ReadFile
  <2> DEFINE response == IF Found = 0 THEN Answer404 ELSE Ok(Found, worker.type)
  <2>2. response \in Responses
    BY <2>1 DEF Answer404, Ok, Responses, Contents, Types, MimeTypesMap
  <2>3. response.code = 200 =>
          response \in [code : {200}, content : Contents \ {0}, type : Types]
    BY <2>1 DEF Answer404, Ok
  <2>4. response.content \in Contents
    BY <2>2 DEF Responses
  <2>5. /\ cache' = [cache EXCEPT ![worker.uri] =
                       IF response.code = 200 THEN response ELSE @]
        /\ answer' = response /\ worker' = Waiting
        /\ latest' = [latest EXCEPT ![worker.uri] =
                        IF response.code = 200 THEN response.content ELSE @]
        /\ UNCHANGED <<disk, writes, path, cached, moved, off>>
    BY <1>4 DEF ReadFile, Answer
  <2> HIDE DEF response
  <2> QED
    BY <2>1, <2>2, <2>3, <2>4, <2>5 DEF StaticTypeOK
<1>5. ASSUME NEW d \in Directories, NEW f \in Files, WriteFile(d, f) PROVE StaticTypeOK'
  <2>1. writes + 1 \in Contents
    BY <1>5 DEF WriteFile, StaticTypeOK, Contents
  <2> QED
    BY <1>5, <2>1 DEF WriteFile, StaticTypeOK
<1>6. ASSUME NEW d \in Directories, NEW f \in Files, RemoveFile(d, f) PROVE StaticTypeOK'
  BY <1>6 DEF RemoveFile, StaticTypeOK, Contents
<1>7. ASSUME NEW flag \in BOOLEAN, SetCachedStaticResources(flag) PROVE StaticTypeOK'
  BY <1>7 DEF SetCachedStaticResources, StaticTypeOK
<1>8. ASSUME NEW d \in Directories, SetPathToStaticResources(d) PROVE StaticTypeOK'
  BY <1>8 DEF SetPathToStaticResources, StaticTypeOK
<1>9. CASE UNCHANGED staticVars
  BY <1>9 DEF staticVars, StaticTypeOK
<1> QED
  BY <1>1, <1>2, <1>3, <1>4, <1>5, <1>6, <1>7, <1>8, <1>9
  DEF StaticNext, DefaultStaticResourcesCallback

LEMMA NextCache == StaticTypeOK /\ CacheInv /\ [StaticNext]_staticVars => CacheInv'
<1> SUFFICES ASSUME StaticTypeOK, CacheInv, [StaticNext]_staticVars PROVE CacheInv'
  OBVIOUS
<1> USE ResourcesAssumption
<1>1. ASSUME NEW r \in Request, Refuse(r) PROVE CacheInv'
  BY <1>1 DEF Refuse, Answer, StaticTypeOK, CacheInv, Answer404, Request
<1>2. ASSUME NEW r \in Request, TakeFromCache(r) PROVE CacheInv'
  BY <1>2 DEF TakeFromCache, Answer, StaticTypeOK, CacheInv, Request
<1>3. ASSUME NEW r \in Request, GoToDisk(r) PROVE CacheInv'
  BY <1>3 DEF GoToDisk, StaticTypeOK, CacheInv, Request
<1>4. CASE ReadFile
  <2>1. /\ worker.uri \in URI /\ worker.type \in Types
        /\ Found \in Contents
        /\ Found = disk[path][FileName[worker.uri]]
    BY <1>4, FoundType DEF ReadFile
  <2>2. Found <= writes
    BY <2>1 DEF StaticTypeOK, CacheInv
  <2>3. CASE Found = 0
    <3>1. /\ cache' = cache /\ latest' = latest /\ worker' = Waiting
          /\ UNCHANGED <<disk, writes, path, cached, moved, off>>
      BY <1>4, <2>1, <2>3 DEF ReadFile, Answer, Answer404, StaticTypeOK
    <3> QED
      BY <3>1 DEF CacheInv
  <2>4. CASE Found # 0
    <3>1. /\ cache' = [cache EXCEPT ![worker.uri] = Ok(Found, worker.type)]
          /\ latest' = [latest EXCEPT ![worker.uri] = Found] /\ worker' = Waiting
          /\ UNCHANGED <<disk, writes, path, cached, moved, off>>
      BY <1>4, <2>1, <2>4 DEF ReadFile, Answer, Ok, StaticTypeOK
    <3> QED
      BY <2>1, <2>2, <2>4, <3>1 DEF CacheInv, StaticTypeOK, Ok, Contents
  <2> QED
    BY <2>3, <2>4
<1>5. ASSUME NEW d \in Directories, NEW f \in Files, WriteFile(d, f) PROVE CacheInv'
  <2>1. writes \in Nat /\ \A u \in URI : cache[u].content \in Nat
    BY DEF StaticTypeOK, Contents, NoAnswer
  <2> QED
    BY <1>5, <2>1 DEF WriteFile, StaticTypeOK, CacheInv, Contents
<1>6. ASSUME NEW d \in Directories, NEW f \in Files, RemoveFile(d, f) PROVE CacheInv'
  BY <1>6 DEF RemoveFile, StaticTypeOK, CacheInv, Contents
<1>7. ASSUME NEW flag \in BOOLEAN, SetCachedStaticResources(flag) PROVE CacheInv'
  BY <1>7 DEF SetCachedStaticResources, StaticTypeOK, CacheInv
<1>8. ASSUME NEW d \in Directories, SetPathToStaticResources(d) PROVE CacheInv'
  BY <1>8 DEF SetPathToStaticResources, StaticTypeOK, CacheInv
<1>9. CASE UNCHANGED staticVars
  BY <1>9 DEF staticVars, CacheInv
<1> QED
  BY <1>1, <1>2, <1>3, <1>4, <1>5, <1>6, <1>7, <1>8, <1>9
  DEF StaticNext, DefaultStaticResourcesCallback

\* What a step does to the newest answers.
LEMMA StepBack ==
    ASSUME StaticTypeOK, CacheInv, [StaticNext]_staticVars, NEW u \in URI
    PROVE  /\ ~moved => latest[u] <= latest'[u]
           /\ ~off /\ latest[u] # 0 => latest'[u] = latest[u]
<1> USE ResourcesAssumption
<1>0. latest[u] \in Nat
  BY DEF StaticTypeOK, Contents
<1>1. ASSUME NEW r \in Request, Refuse(r) \/ GoToDisk(r) PROVE latest' = latest
  BY <1>1 DEF Refuse, GoToDisk, Answer, Answer404, StaticTypeOK, Request
<1>2. ASSUME NEW r \in Request, TakeFromCache(r)
      PROVE  latest[u] # 0 => latest'[u] = latest[u]
  BY <1>2 DEF TakeFromCache, Answer, StaticTypeOK, CacheInv, Request
<1>3. ASSUME NEW r \in Request, TakeFromCache(r) PROVE latest'[u] \in Nat
  BY <1>2, <1>3, NextType DEF StaticTypeOK, Contents, StaticNext, DefaultStaticResourcesCallback
<1>4. CASE ReadFile
  <2>1. /\ worker.uri \in URI
        /\ Found \in Contents
        /\ Found = disk[path][FileName[worker.uri]]
    BY <1>4, FoundType DEF ReadFile
  <2> DEFINE response == IF Found = 0 THEN Answer404 ELSE Ok(Found, worker.type)
  <2>a. latest' = [latest EXCEPT ![worker.uri] =
                     IF response.code = 200 THEN response.content ELSE @]
    BY <1>4 DEF ReadFile, Answer
  <2>b. IF Found = 0 THEN response.code = 404
        ELSE response.code = 200 /\ response.content = Found
    BY DEF Ok, Answer404
  <2> HIDE DEF response
  <2>2. /\ Found = 0 => latest'[u] = latest[u]
        /\ u # worker.uri => latest'[u] = latest[u]
        /\ Found # 0 /\ u = worker.uri => latest'[u] = Found
    BY <2>1, <2>a, <2>b DEF StaticTypeOK
  <2>3. worker # Waiting
    BY <1>4 DEF ReadFile
  <2> QED
    BY <1>0, <2>1, <2>2, <2>3 DEF StaticTypeOK, CacheInv, Contents
<1>5. ASSUME NEW d \in Directories, NEW f \in Files, WriteFile(d, f) \/ RemoveFile(d, f)
      PROVE  latest' = latest
  BY <1>5 DEF WriteFile, RemoveFile
<1>6. ASSUME NEW flag \in BOOLEAN, SetCachedStaticResources(flag) PROVE latest' = latest
  BY <1>6 DEF SetCachedStaticResources
<1>7. ASSUME NEW d \in Directories, SetPathToStaticResources(d) PROVE latest' = latest
  BY <1>7 DEF SetPathToStaticResources
<1>8. CASE UNCHANGED staticVars
  BY <1>0, <1>8 DEF staticVars
<1> QED
  BY <1>0, <1>1, <1>2, <1>3, <1>4, <1>5, <1>6, <1>7, <1>8
  DEF StaticNext, DefaultStaticResourcesCallback

\* The types of the model, for any constants.
THEOREM StaticTypeCorrect == StaticSpec => []StaticTypeOK
BY InitType, NextType, PTL DEF StaticSpec

\* A path in the cache is what it was last answered with and never ahead of
\* its file.
THEOREM CacheFollowsDisk == StaticSpec => []CacheInv
<1>1. StaticTypeOK /\ CacheInv /\ [StaticNext]_staticVars => (StaticTypeOK /\ CacheInv)'
  BY NextType, NextCache
<1> QED
  BY InitType, InitCache, <1>1, PTL DEF StaticSpec

\* However the cache is switched and files change, no path is answered with an
\* older content than before while the directory stays.
THEOREM ContentNeverGoesBack == StaticSpec => NeverBack
<1>1. StaticTypeOK /\ CacheInv /\ [StaticNext]_staticVars
        => [~moved => \A u \in URI : latest[u] <= latest'[u]]_staticVars
  BY StepBack
<1> QED
  BY <1>1, StaticTypeCorrect, CacheFollowsDisk, PTL DEF StaticSpec, NeverBack

\* While the cache is used, every path keeps its first answer.
THEOREM CacheKeepsFirstAnswer == StaticSpec => Frozen
<1>1. StaticTypeOK /\ CacheInv /\ [StaticNext]_staticVars
        => [\A u \in URI : ~off /\ latest[u] # 0 => latest'[u] = latest[u]]_staticVars
  BY StepBack
<1> QED
  BY <1>1, StaticTypeCorrect, CacheFollowsDisk, PTL DEF StaticSpec, Frozen

-----------------------------------------------------------------------------
(* The chunked decoder *)

DecoderInv ==
    /\ stream.text \in Seq(STRING) /\ given \in Nat
    /\ buf \in Seq(STRING) /\ src \in Nat /\ dst \in Nat /\ left \in Nat
    /\ dst <= src /\ src <= Len(buf)

\* memmove of bytes of the buffer to a place not behind them.
LEMMA MemMoveKeeps ==
    ASSUME NEW b \in Seq(STRING), NEW to \in Nat, NEW from \in Nat, NEW len \in Nat,
           to <= from, from + len <= Len(b)
    PROVE  MemMove(b, to, from, len) \in Seq(STRING) /\ Len(MemMove(b, to, from, len)) = Len(b)
<1> DEFINE n == Len(b)
           at(i) == IF i \in to + 1 .. to + len THEN b[i - to + from] ELSE b[i]
<1>1. n \in Nat
  OBVIOUS
<1>2. \A i \in 1 .. n : at(i) \in STRING
  <2>1. SUFFICES ASSUME NEW i \in 1 .. n PROVE at(i) \in STRING
    OBVIOUS
  <2>2. i \in to + 1 .. to + len => i - to + from \in 1 .. n
    BY <1>1
  <2>3. \A j \in 1 .. n : b[j] \in STRING
    OBVIOUS
  <2>4. QED
    BY <2>2, <2>3
<1>3. MemMove(b, to, from, len) = [i \in 1 .. n |-> at(i)]
  BY DEF MemMove
<1> HIDE DEF n, at
<1>4. [i \in 1 .. n |-> at(i)] \in Seq(STRING) /\ Len([i \in 1 .. n |-> at(i)]) = n
  BY <1>1, <1>2
<1>5. QED
  BY <1>3, <1>4 DEF n

LEMMA DecoderInit == ChunkedInit => DecoderInv
  BY ChunkedAssumption DEF ChunkedInit, DecoderInv

LEMMA CallKeeps == ASSUME DecoderInv, Call PROVE DecoderInv'
<1>1. PICK k \in 1 .. MaxPiece :
         given + k <= Len(stream.text) /\ buf' = SubSeq(stream.text, given + 1, given + k) /\ given' = given + k
  BY DEF Call
<1>2. k \in Nat
  BY ChunkedAssumption
<1>3. buf' \in Seq(STRING)
  BY <1>1, <1>2 DEF DecoderInv
<1>4. src' = 0 /\ dst' = 0 /\ left' = left /\ stream' = stream
  BY DEF Call
<1>5. QED
  BY <1>1, <1>2, <1>3, <1>4 DEF DecoderInv

LEMMA ExitKeeps ==
    ASSUME DecoderInv, NEW r, Exit(r), UNCHANGED decoder
    PROVE  DecoderInv'
<1>1. Len(buf) - src \in Nat /\ src + (Len(buf) - src) = Len(buf)
  BY DEF DecoderInv
<1>2. buf' \in Seq(STRING) /\ Len(buf') = Len(buf)
  BY <1>1, MemMoveKeeps DEF Exit, DecoderInv
<1>3. QED
  BY <1>2 DEF Exit, DecoderInv, decoder

LEMMA ReadOnKeeps ==
    ASSUME DecoderInv, src < Len(buf), ReadOn, left' \in Nat
    PROVE  DecoderInv'
  BY DEF DecoderInv, ReadOn, caller

LEMMA CompleteKeeps ==
    ASSUME DecoderInv, src < Len(buf), Complete, UNCHANGED decoder
    PROVE  DecoderInv'
<1>1. Len(buf) - (src + 1) \in Nat /\ (src + 1) + (Len(buf) - (src + 1)) = Len(buf) /\ src + 1 \in Nat /\ dst <= src + 1
  BY DEF DecoderInv
<1>2. buf' \in Seq(STRING) /\ Len(buf') = Len(buf)
  BY <1>1, MemMoveKeeps DEF Complete, DecoderInv
<1>3. QED
  BY <1>2 DEF Complete, DecoderInv, decoder

LEMMA TakeKeeps ==
    ASSUME DecoderInv, NEW len \in Nat, src + len <= Len(buf), Take(len),
           left' \in Nat, stream' = stream, given' = given
    PROVE  DecoderInv'
<1>1. buf' \in Seq(STRING) /\ Len(buf') = Len(buf)
  BY MemMoveKeeps DEF Take, DecoderInv
<1>2. QED
  BY <1>1 DEF Take, DecoderInv

LEMMA DecodeKeeps == ASSUME DecoderInv, Decode PROVE DecoderInv'
<1> USE DEF Read, At, Fail
<1>1. CASE Exhausted
  BY <1>1, ExitKeeps DEF Exhausted
<1>2. CASE SizeDigit
  <2>1. Hex[next] \in Nat
    BY <1>2 DEF SizeDigit, Hex
  <2>2. (left * 16 + Hex[next]) % SizeMod \in Nat
    BY <2>1, ChunkedAssumption DEF DecoderInv
  <2>3. QED
    BY <1>2, <2>2, ExitKeeps, ReadOnKeeps DEF SizeDigit
<1>3. CASE SizeEnd
  <2>1. CASE hexCount = 0
    BY <1>3, <2>1, ExitKeeps DEF SizeEnd
  <2>2. CASE hexCount # 0
    BY <1>3, <2>2 DEF SizeEnd, DecoderInv, caller
  <2>3. QED
    BY <2>1, <2>2
<1>4. CASE ChunkExtension
  <2>1. src < Len(buf) /\ left' = left
    BY <1>4 DEF ChunkExtension, decoder
  <2>2. ReadOn \/ (Complete /\ UNCHANGED decoder)
    BY <1>4 DEF ChunkExtension
  <2>3. left' \in Nat
    BY <2>1 DEF DecoderInv
  <2>4. QED
    BY <2>1, <2>2, <2>3, ReadOnKeeps, CompleteKeeps
<1>5. CASE PartOfData
  <2> DEFINE avail == Len(buf) - src
  <2>1. Take(avail) /\ left' = left - avail /\ avail < left /\ stream' = stream /\ given' = given
    BY <1>5 DEF PartOfData
  <2>2. avail \in Nat /\ src + avail <= Len(buf) /\ left - avail \in Nat
    BY <2>1 DEF DecoderInv
  <2> HIDE DEF avail
  <2>3. QED
    BY <2>1, <2>2, TakeKeeps
<1>6. CASE RestOfData
  <2>1. Take(left) /\ left' = 0 /\ Len(buf) - src >= left /\ stream' = stream /\ given' = given
    BY <1>6 DEF RestOfData, caller
  <2>2. left \in Nat /\ src + left <= Len(buf) /\ 0 \in Nat
    BY <2>1 DEF DecoderInv
  <2>3. QED
    BY <2>1, <2>2, TakeKeeps
<1>7. CASE DataEnd
  <2>1. src < Len(buf) /\ left \in Nat
    BY <1>7 DEF DataEnd, DecoderInv
  <2>2. (ReadOn /\ left' = left) \/ (Exit(-1) /\ UNCHANGED decoder)
    BY <1>7 DEF DataEnd, decoder
  <2>3. QED
    BY <2>1, <2>2, ReadOnKeeps, ExitKeeps
<1>8. CASE TrailerHead
  <2>1. src < Len(buf) /\ left \in Nat
    BY <1>8 DEF TrailerHead, DecoderInv
  <2>2. (ReadOn /\ left' = left) \/ (Complete /\ UNCHANGED decoder)
    BY <1>8 DEF TrailerHead, decoder
  <2>3. QED
    BY <2>1, <2>2, ReadOnKeeps, CompleteKeeps
<1>9. CASE TrailerMiddle
  <2>1. src < Len(buf) /\ left \in Nat /\ ReadOn /\ left' = left
    BY <1>9 DEF TrailerMiddle, DecoderInv
  <2>2. QED
    BY <2>1, ReadOnKeeps
<1>10. QED
  BY <1>1, <1>2, <1>3, <1>4, <1>5, <1>6, <1>7, <1>8, <1>9 DEF Decode

\* No byte outside the buffer is read, and none is written that has not been
\* read before (phr_decode_chunked).
THEOREM AlwaysInBounds == ChunkedSpec => []InBounds
<1>1. DecoderInv => InBounds
  BY DEF DecoderInv, InBounds
<1>2. DecoderInv /\ UNCHANGED chunkedVars => DecoderInv'
  BY DEF DecoderInv, chunkedVars
<1>3. DecoderInv /\ [ChunkedNext]_chunkedVars => DecoderInv'
  BY <1>2, CallKeeps, DecodeKeeps DEF ChunkedNext
<1>4. QED
  BY <1>1, <1>3, DecoderInit, PTL DEF ChunkedSpec

-----------------------------------------------------------------------------
(* Gzip *)

GzipTypeOK ==
    /\ stage \in {"start", "deflate", "compressed", "inflate",
                  "tooLarge", "refused", "failed", "done"}
    /\ body \in Nat /\ size \in Nat /\ output \in Nat /\ count \in Nat
    /\ call \in [to : Nat, size : Nat]
    /\ zstream \in Stream

GzipInv ==
    /\ GzipTypeOK
    /\ WritesInside
    /\ stage \in {"deflate", "compressed", "inflate", "done"} =>
         /\ body <= MaxBytes
         /\ count + zstream.left = zstream.total
    /\ stage = "deflate" => size = body
    /\ stage \in {"compressed", "done"} => output = count /\ zstream.left = 0
    /\ stage \in {"inflate", "done"} =>
         /\ 2 * size <= MaxDecompressed
         /\ call.size <= MaxDecompressed
         /\ zstream.ending = "whole" => zstream.total = body
         /\ zstream.ending = "cut" => zstream.total <= body
    /\ stage = "done" => zstream.ending # "bad"

\* zlib delivers what fits.
LEMMA DeliveredIs ==
  ASSUME GzipTypeOK, NEW avail \in Nat
  PROVE  /\ Delivered(avail) \in Nat
         /\ Delivered(avail) <= avail /\ Delivered(avail) <= zstream.left
         /\ Delivered(avail) \in {avail, zstream.left}
<1>1. zstream.left \in Nat
  BY DEF GzipTypeOK, Stream
<1> DEFINE S == {avail, zstream.left}
<1>2. \E x \in S : \A y \in S : x <= y
  BY <1>1
<1>3. Min(S) \in S /\ \A y \in S : Min(S) <= y
  BY <1>2 DEF Min
<1> QED
  BY <1>1, <1>3 DEF Delivered

\* The longer of two sizes.
LEMMA LongerIs ==
  ASSUME NEW a \in Nat, NEW b \in Nat
  PROVE  Max({a, b}) \in Nat /\ Max({a, b}) >= a /\ Max({a, b}) >= b
<1> DEFINE S == {a, b}
<1>1. \E x \in S : \A y \in S : x >= y
  OBVIOUS
<1>2. Max(S) \in S /\ \A y \in S : Max(S) >= y
  BY <1>1 DEF Max
<1> QED
  BY <1>2

\* Below the limits an unsigned int holds every size.
LEMMA RoomFits ==
  ASSUME NEW n \in Nat, n < UIntMod
  PROVE  n % UIntMod = n
BY GzipAssumption

\* What Begin sets up.
LEMMA BeginEffect ==
  ASSUME NEW n \in Nat, NEW h \in Nat, NEW k \in Nat,
         NEW ending \in {"whole", "cut", "bad"}, Begin(n, h, k, ending)
  PROVE  /\ size' = n /\ output' = h /\ count' = 0
         /\ call' \in [to : Nat, size : Nat] /\ call'.to = 0 /\ call'.size = 0
         /\ zstream' \in Stream /\ zstream'.left = k /\ zstream'.total = k
         /\ zstream'.ending = ending
BY DEF Begin, Stream

LEMMA CompressOK ==
  ASSUME GzipInv, Compress
  PROVE  GzipInv'
<1>1. PICK n \in Sizes, h \in Held, k \in Lengths :
        /\ body' = n
        /\ \/ n > MaxBytes /\ stage' = "tooLarge"
           \/ n <= MaxBytes /\ TRUE \in CallsFail /\ stage' = "failed"
           \/ n <= MaxBytes /\ stage' = "deflate"
        /\ Begin(n, h, k, "whole")
  BY DEF Compress
<1>2. n \in Nat /\ h \in Nat /\ k \in Nat
  BY GzipAssumption
<1>3. /\ size' = n /\ output' = h /\ count' = 0
      /\ call' \in [to : Nat, size : Nat] /\ call'.to = 0 /\ call'.size = 0
      /\ zstream' \in Stream /\ zstream'.left = k /\ zstream'.total = k
  BY <1>1, <1>2, BeginEffect
<1>4. stage' \in {"tooLarge", "failed", "deflate"} /\ (stage' = "deflate" => n <= MaxBytes)
  BY <1>1
<1>5. GzipTypeOK'
  BY <1>1, <1>2, <1>3, <1>4 DEF GzipTypeOK
<1> QED
  BY <1>1, <1>2, <1>3, <1>4, <1>5 DEF GzipInv, WritesInside

LEMMA DeflateTurnOK ==
  ASSUME GzipInv, DeflateTurn
  PROVE  GzipInv'
<1> DEFINE increase == Increase(size)
           avail    == increase % UIntMod
           got      == Delivered(avail)
           room     == Max({output, count + increase})
<1>1. /\ GzipTypeOK /\ size = body /\ body <= MaxBytes /\ stage = "deflate"
      /\ count + zstream.left = zstream.total
      /\ zstream.left \in Nat /\ zstream.total \in Nat /\ count \in Nat
      /\ size \in Nat /\ output \in Nat
  BY DEF GzipInv, DeflateTurn, GzipTypeOK, Stream
<1>2. increase \in Nat /\ increase < UIntMod
  BY <1>1, GzipAssumption DEF Increase
<1>3. avail = increase
  BY <1>2, RoomFits
<1>4. got \in Nat /\ got <= avail /\ got <= zstream.left /\ got \in {avail, zstream.left}
  BY <1>1, <1>2, <1>3, DeliveredIs
<1>5. room \in Nat /\ room >= count + increase
  BY <1>1, <1>2, LongerIs
<1>6. /\ call' = [to |-> count + avail, size |-> room]
      /\ zstream' = [zstream EXCEPT !.left = @ - got]
      /\ count' = count + (increase - (avail - got))
      /\ \/ avail - got = 0 /\ output' = room /\ UNCHANGED stage
         \/ avail - got # 0 /\ output' = count' /\ stage' = "compressed"
      /\ UNCHANGED <<body, size>>
  BY DEF DeflateTurn, Deliver
<1> HIDE DEF increase, avail, got, room
<1>7. count' = count + got /\ count' \in Nat /\ zstream.left - got \in Nat
  BY <1>1, <1>2, <1>3, <1>4, <1>6
<1>8. /\ zstream' \in Stream /\ zstream'.left = zstream.left - got
      /\ zstream'.total = zstream.total /\ zstream'.ending = zstream.ending
  BY <1>1, <1>6, <1>7 DEF GzipTypeOK, Stream
<1>9. call' \in [to : Nat, size : Nat] /\ call'.to <= call'.size
  BY <1>1, <1>2, <1>3, <1>5, <1>6
<1>10. GzipTypeOK'
  BY <1>1, <1>5, <1>6, <1>7, <1>8, <1>9 DEF GzipTypeOK
<1>11. stage' = "compressed" => zstream'.left = 0 /\ output' = count'
  BY <1>1, <1>3, <1>4, <1>6, <1>8
<1>12. stage' \in {"deflate", "compressed"}
  BY <1>1, <1>6
<1>13. body' <= MaxBytes /\ count' + zstream'.left = zstream'.total /\ size' = body'
  BY <1>1, <1>4, <1>6, <1>7, <1>8
<1> QED
  BY <1>9, <1>10, <1>11, <1>12, <1>13 DEF GzipInv, WritesInside

LEMMA DecompressOK ==
  ASSUME GzipInv, Decompress
  PROVE  GzipInv'
<1>1. PICK n \in 0 .. output, h \in Held, ending \in {"whole", "cut", "bad"},
           total \in Sizes \cup 0 .. body :
        /\ Arrives(n, total, ending)
        /\ \/ TRUE \in CallsFail /\ stage' = "failed"
           \/ (n > MaxDecompressed \/ n * 2 > MaxDecompressed) /\ stage' = "refused"
           \/ n * 2 <= MaxDecompressed /\ stage' = "inflate"
        /\ Begin(n, h, total, ending)
  BY DEF Decompress
<1>2. /\ body \in Nat /\ body <= MaxBytes /\ output \in Nat /\ body' = body
  BY DEF GzipInv, GzipTypeOK, Decompress
<1>3. n \in Nat /\ h \in Nat /\ total \in Nat
  BY <1>2, GzipAssumption
<1>4. body % UIntMod = body
  BY <1>2, RoomFits, GzipAssumption
<1>5. (ending = "whole" => total = body) /\ (ending = "cut" => total <= body)
  BY <1>1, <1>2, <1>3, <1>4 DEF Arrives
<1>6. /\ size' = n /\ output' = h /\ count' = 0
      /\ call' \in [to : Nat, size : Nat] /\ call'.to = 0 /\ call'.size = 0
      /\ zstream' \in Stream /\ zstream'.left = total /\ zstream'.total = total
      /\ zstream'.ending = ending
  BY <1>1, <1>3, BeginEffect
<1>7. /\ stage' \in {"failed", "refused", "inflate"}
      /\ stage' = "inflate" => 2 * n <= MaxDecompressed
  <2>1. n * 2 = 2 * n
    BY <1>3
  <2>2. stage' = "inflate" => n * 2 <= MaxDecompressed
    BY <1>1, Zenon
  <2> QED
    BY <1>1, <2>1, <2>2, Zenon
<1>8. GzipTypeOK'
  BY <1>2, <1>3, <1>6, <1>7 DEF GzipTypeOK
<1>9. /\ WritesInside' /\ call'.size <= MaxDecompressed
      /\ count' + zstream'.left = zstream'.total /\ body' <= MaxBytes
  BY <1>2, <1>3, <1>6, GzipAssumption DEF WritesInside
<1> QED
  BY <1>2, <1>5, <1>6, <1>7, <1>8, <1>9 DEF GzipInv

LEMMA InflateTurnOK ==
  ASSUME GzipInv, InflateTurn
  PROVE  GzipInv'
<1> DEFINE chunk == 2 * size
           avail == chunk % UIntMod
           got   == Delivered(avail)
           room  == count + chunk
<1>1. /\ GzipTypeOK /\ WritesInside /\ body <= MaxBytes /\ stage = "inflate"
      /\ count + zstream.left = zstream.total
      /\ zstream.left \in Nat /\ zstream.total \in Nat /\ count \in Nat
      /\ size \in Nat /\ output \in Nat /\ 2 * size <= MaxDecompressed
      /\ zstream.ending = "whole" => zstream.total = body
      /\ zstream.ending = "cut" => zstream.total <= body
  BY DEF GzipInv, InflateTurn, GzipTypeOK, Stream
<1>2. chunk \in Nat /\ chunk < UIntMod /\ room \in Nat
  BY <1>1, GzipAssumption
<1>3. avail = chunk
  BY <1>2, RoomFits
<1>4. got \in Nat /\ got <= avail /\ got <= zstream.left /\ got \in {avail, zstream.left}
  BY <1>1, <1>2, <1>3, DeliveredIs
<1>5. \/ /\ room > MaxDecompressed /\ stage' = "refused"
         /\ UNCHANGED <<output, count, call, zstream>>
      \/ /\ room <= MaxDecompressed
         /\ call' = [to |-> count + avail, size |-> room]
         /\ zstream' = [zstream EXCEPT !.left = @ - got]
         /\ \E bad \in Meets(avail, got) :
               \/ bad /\ stage' = "failed" /\ output' = room /\ UNCHANGED count
               \/ /\ ~bad /\ count' = count + (chunk - (avail - got))
                  /\ \/ avail - got = 0 /\ output' = room /\ UNCHANGED stage
                     \/ avail - got # 0 /\ output' = count' /\ stage' = "done"
  BY DEF InflateTurn, Deliver
<1>6. UNCHANGED <<body, size>>
  BY DEF InflateTurn
<1>7. CASE /\ stage' = "refused"
           /\ UNCHANGED <<output, count, call, zstream>>
  BY <1>1, <1>6, <1>7 DEF GzipInv, GzipTypeOK, WritesInside
<1>8. ASSUME room <= MaxDecompressed,
             call' = [to |-> count + avail, size |-> room],
             zstream' = [zstream EXCEPT !.left = @ - got],
             NEW bad \in Meets(avail, got),
             \/ bad /\ stage' = "failed" /\ output' = room /\ UNCHANGED count
             \/ /\ ~bad /\ count' = count + (chunk - (avail - got))
                /\ \/ avail - got = 0 /\ output' = room /\ UNCHANGED stage
                   \/ avail - got # 0 /\ output' = count' /\ stage' = "done"
      PROVE  GzipInv'
  <2>1. ~bad /\ zstream.ending = "bad" => got >= avail
    BY <1>2, <1>3, <1>4, <1>8 DEF Meets
  <2> HIDE DEF chunk, avail, got, room
  <2>2. zstream.left - got \in Nat /\ count + got \in Nat
    BY <1>1, <1>4
  <2>3. /\ zstream' \in Stream /\ zstream'.left = zstream.left - got
        /\ zstream'.total = zstream.total /\ zstream'.ending = zstream.ending
    BY <1>1, <1>8, <2>2 DEF GzipTypeOK, Stream
  <2>4. /\ call' \in [to : Nat, size : Nat] /\ call'.to <= call'.size
        /\ call'.size <= MaxDecompressed
    BY <1>1, <1>2, <1>3, <1>8 DEF room
  <2>5. CASE bad /\ stage' = "failed" /\ output' = room /\ UNCHANGED count
    BY <1>1, <1>2, <1>6, <2>3, <2>4, <2>5 DEF GzipInv, GzipTypeOK, WritesInside
  <2>6. CASE /\ ~bad /\ count' = count + (chunk - (avail - got))
             /\ \/ avail - got = 0 /\ output' = room /\ UNCHANGED stage
                \/ avail - got # 0 /\ output' = count' /\ stage' = "done"
    <3>1. count' = count + got
      BY <1>1, <1>2, <1>3, <1>4, <2>6
    <3>2. /\ stage' \in {"inflate", "done"} /\ output' \in Nat
          /\ stage' = "done" => /\ output' = count' /\ zstream'.left = 0
                                /\ zstream'.ending # "bad"
      BY <1>1, <1>2, <1>3, <1>4, <2>1, <2>2, <2>3, <2>6, <3>1
    <3>3. GzipTypeOK'
      BY <1>1, <1>6, <2>2, <2>3, <2>4, <3>1, <3>2 DEF GzipTypeOK
    <3> QED
      BY <1>1, <1>4, <1>6, <2>2, <2>3, <2>4, <3>1, <3>2, <3>3 DEF GzipInv, WritesInside
  <2> QED
    BY <1>8, <2>5, <2>6
<1> HIDE DEF chunk, avail, got, room
<1> QED
  BY <1>5, <1>7, <1>8, Zenon

LEMMA GzipInvariant == GzipSpec => []GzipInv
<1>1. GzipInit => GzipInv
  BY DEF GzipInit, GzipInv, GzipTypeOK, Stream, WritesInside
<1>2. ASSUME GzipInv, [GzipNext]_gzipVars PROVE GzipInv'
  <2>1. CASE Again
    BY <1>2, <2>1 DEF Again, Over, GzipInv, GzipTypeOK, WritesInside
  <2>2. CASE UNCHANGED gzipVars
    BY <1>2, <2>2 DEF gzipVars, GzipInv, GzipTypeOK, WritesInside
  <2> QED
    BY <1>2, <2>1, <2>2, CompressOK, DeflateTurnOK, DecompressOK, InflateTurnOK, Zenon DEF GzipNext
<1> QED
  BY <1>1, <1>2, PTL DEF GzipSpec

\* Neither loop lets zlib write outside the string, whatever the sizes, the
\* limits and the string passed for the output.
THEOREM AlwaysWritesInside == GzipSpec => []WritesInside
<1>1. GzipInv => WritesInside
  BY DEF GzipInv
<1> QED
  BY <1>1, GzipInvariant, PTL

\* compress returns the whole stream, however many turns it takes and wherever
\* it ends in the room of the last.
THEOREM NothingIsLost == GzipSpec => []NothingLost
<1>1. GzipInv => NothingLost
  BY DEF GzipInv, NothingLost, GzipTypeOK, Stream
<1> QED
  BY <1>1, GzipInvariant, PTL

\* For every body that compress takes, decompress returns the body, a beginning
\* of it from a stream that was cut short, or an error.
THEOREM RoundTripHolds == GzipSpec => []RoundTrip
<1>1. GzipInv => RoundTrip
  BY DEF GzipInv, RoundTrip, GzipTypeOK, Stream
<1> QED
  BY <1>1, GzipInvariant, PTL

\* decompress never makes the string longer than max_.
THEOREM MemoryAlwaysLimited == GzipSpec => []MemoryLimited
<1>1. GzipInv => MemoryLimited
  BY DEF GzipInv, MemoryLimited
<1> QED
  BY <1>1, GzipInvariant, PTL

\* Gzip writes inside its buffers, loses nothing, gives back what it was given
\* and keeps to its limit, for streams of any size (gzip::Compressor,
\* gzip::Decompressor).
THEOREM GzipAlwaysSound == GzipSpec => []GzipIsSound
  BY AlwaysWritesInside, NothingIsLost, RoundTripHolds, MemoryAlwaysLimited, PTL DEF GzipIsSound

==============================================================================
