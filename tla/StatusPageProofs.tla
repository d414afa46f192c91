-------------------------- MODULE StatusPageProofs --------------------------
(***************************************************************************)
(* What the status page shows is true, for any number of connections, of   *)
(* workers on the page and of steps of the loop: the walks of a page that  *)
(* nobody disturbed count exactly, and the totals never run ahead.         *)
(***************************************************************************)
EXTENDS StatusPage, FiniteSetTheorems, TLAPS

\* Steps go to the SMT solver unless they name another prover.
USE SMTT(30)

-----------------------------------------------------------------------------
(* The loop: what a slot holds at each stage, and what the totals count.   *)

\* A connection is there or is not.
Gone(s) == s.buffer = "null" /\ s.request = "null"
Settled(s) == Gone(s) \/ Exists(s)

\* What the slot the loop is at holds, by the stage of the handler.
Fits(at, s) ==
    /\ at = "ready" => Settled(s)
    /\ at \in {"allocate", "processed"} => Gone(s)
    /\ at = "request" => s.buffer = "live"
    /\ at \in {"request", "undo"} => s.request = "null"
    /\ at \in {"parse", "dispatch", "count", "sent", "cleared", "delete"} => Exists(s)
    /\ at = "deleteRequest" => s.request = "live"
    /\ at \in {"nullBuffer", "nullRequest"} => s.request = "freed"

\* Connections that are counted as accepted and have no request object yet, or
\* have none any more and are not counted as processed.
Unsettled(at) ==
    IF at \in {"allocate", "request", "nullBuffer", "nullRequest", "processed"} THEN 1 ELSE 0

StageOf(i) == IF i = loop.slot THEN loop.at ELSE "ready"

LoopInv ==
    /\ \A i \in Slots : Fits(StageOf(i), slots[i])
    /\ totals["accepted"] = totals["processed"] + totals["failed"]
                            + Cardinality(Open) + Unsettled(loop.at)

-----------------------------------------------------------------------------
(* The readers: what a walk nobody disturbed has counted so far.           *)

Upto(S, n) == {i \in S : i < n}

\* The walk is where it can be; a slot that was seen is in the tables.
PlaceInv(r) ==
    LET p == reader[r]
    IN  /\ p.at <= IF p.walk = 4 THEN Len(Shown) + 1 ELSE MaxConnection
        /\ p.seen => p.walk \in {1, 2} /\ p.at \in Slots
        /\ p.quiet => p.walk > 0

QuietInv(r) ==
    LET p == reader[r]
    IN  p.quiet =>
          /\ loop.at = "ready"
          /\ p.seen => Exists(slots[p.at])
          /\ p.walk = 1 => counts["read"] = Cardinality(Upto(Reading, p.at))
          /\ p.walk > 1 => counts["read"] = Cardinality(Reading)
          /\ p.walk = 2 => counts["write"] = Cardinality(Upto(Writing, p.at))
          /\ p.walk > 2 => counts["write"] = Cardinality(Writing)
          /\ p.walk = 3 => counts["wait"] = Cardinality(Upto(Open, p.at))
          /\ p.walk = 4 => /\ counts["wait"] = Cardinality(Open) - Cardinality(Reading) - Cardinality(Writing)
                           /\ \A k \in 1 .. Len(Shown) : k < p.at =>
                                 page[r][Shown[k]] = IF Shown[k] \in Totals THEN totals[Shown[k]]
                                                     ELSE counts[Shown[k]]

\* The totals only grow; those on the page lie between the begin and now.
FreshInv(r) ==
    LET p == reader[r]
    IN  /\ \A t \in Totals : p.begun[t] <= totals[t]
        /\ p.walk = 4 =>
              \A k \in 1 .. 3 : k < p.at => page[r][Shown[k]] \in p.begun[Shown[k]] .. totals[Shown[k]]

StatusInv ==
    /\ StatusTypeOK
    /\ LoopInv
    /\ \A r \in Readers : PlaceInv(r) /\ QuietInv(r) /\ FreshInv(r)

-----------------------------------------------------------------------------
(* Helpers *)

\* A number below the width of the word is its own remainder.
LEMMA SmallMod ==
    ASSUME NEW n \in Nat, n < Word
    PROVE  n % Word = n
BY StatusAssumption

LEMMA ModType ==
    ASSUME NEW n \in Int
    PROVE  n % Word \in 0 .. Word - 1
BY StatusAssumption

\* Sets of slots are finite and not larger than the table.
LEMMA SlotSets ==
    ASSUME NEW S \in SUBSET Slots
    PROVE  IsFiniteSet(S) /\ Cardinality(S) \in 0 .. MaxConnection
<1>1. IsFiniteSet(Slots) /\ Cardinality(Slots) = MaxConnection
  <2>1. /\ IsFiniteSet(0 .. MaxConnection - 1)
        /\ Cardinality(0 .. MaxConnection - 1) = IF 0 > MaxConnection - 1 THEN 0 ELSE MaxConnection - 1 - 0 + 1
    BY StatusAssumption, FS_Interval
  <2> QED
    BY StatusAssumption, <2>1 DEF Slots
<1>2. IsFiniteSet(S) /\ Cardinality(S) <= MaxConnection
  BY <1>1, FS_Subset, Zenon
<1>3. Cardinality(S) \in Nat
  BY <1>2, FS_CardinalityType, Zenon
<1> QED
  BY <1>2, <1>3, StatusAssumption

\* What a step of a walk adds to what was counted.
LEMMA UptoStep ==
    ASSUME NEW S \in SUBSET Slots, NEW n \in Slots
    PROVE  Cardinality(Upto(S, n + 1)) = IF n \in S THEN Cardinality(Upto(S, n)) + 1
                                         ELSE Cardinality(Upto(S, n))
<1>0. n \in Int /\ \A i \in S : i \in Int
  BY StatusAssumption DEF Slots
<1>1. Upto(S, n + 1) = IF n \in S THEN Upto(S, n) \cup {n} ELSE Upto(S, n)
  <2>1. \A i \in S : i < n + 1 <=> i < n \/ i = n
    BY <1>0
  <2> QED
    BY <2>1, Zenon DEF Upto
<1>2. n \notin Upto(S, n)
  BY <1>0 DEF Upto
<1>3. IsFiniteSet(Upto(S, n))
  BY SlotSets, Zenon DEF Upto
<1> QED
  BY <1>1, <1>2, <1>3, FS_AddElement, Zenon

\* The same as a sum.
LEMMA UptoAdds ==
    ASSUME NEW S \in SUBSET Slots, NEW n \in Slots
    PROVE  Cardinality(Upto(S, n + 1)) = Cardinality(Upto(S, n)) + IF n \in S THEN 1 ELSE 0
<1>1. Upto(S, n) \in SUBSET Slots
  BY Zenon DEF Upto
<1>2. Cardinality(Upto(S, n)) \in 0 .. MaxConnection
  BY <1>1, SlotSets, Zenon
<1> QED
  BY <1>2, UptoStep, StatusAssumption

LEMMA UptoEnds ==
    ASSUME NEW S \in SUBSET Slots
    PROVE  /\ Cardinality(Upto(S, 0)) = 0
           /\ Upto(S, MaxConnection) = S
<1>0. \A i \in S : 0 <= i /\ i < MaxConnection /\ ~(i < 0)
  BY StatusAssumption DEF Slots
<1>1. Upto(S, 0) = {}
  BY <1>0, Zenon DEF Upto
<1>2. Upto(S, MaxConnection) = S
  BY <1>0, Zenon DEF Upto
<1> QED
  BY <1>1, <1>2, FS_EmptySet, Zenon

-----------------------------------------------------------------------------
(* The assignments of the loop *)

\* A request object that is there.
Alive(s) == IF s.request = "live" THEN 1 ELSE 0
One(b) == IF b THEN 1 ELSE 0

\* What an assignment of a handler may do: it leads to a slot that fits the
\* next stage, and what it counts is what it changes.
Sound(s, a) ==
    /\ a.from \in Stages /\ a.to \in Stages /\ a.slot \in Slot
    /\ a.total \in Totals \cup {"none"}
    /\ Fits(a.to, a.slot)
    /\ Alive(a.slot) + Unsettled(a.to) + One(a.total = "processed") + One(a.total = "failed")
         = Alive(s) + Unsettled(a.from) + One(a.total = "accepted")

LEMMA AcceptSound ==
    ASSUME NEW s \in Slot, NEW a \in Accept(s), Fits(a.from, s)
    PROVE  Sound(s, a)
<1> USE DEF Fits, Settled, Gone, Exists, Unsettled, Alive, One, Sound, Assign, Slot, Pointers,
            NoConnection, Stages, Totals
<1>1. CASE a = Assign("ready", "allocate", s, "accepted") /\ s = NoConnection
  BY <1>1
<1>2. CASE a = Assign("allocate", "request", [s EXCEPT !.buffer = "live"], "none")
  BY <1>2
<1>3. CASE a = Assign("allocate", "ready", s, "failed")
  BY <1>3
<1>4. CASE a = Assign("request", "ready", [s EXCEPT !.request = "live"], "none")
  BY <1>4
<1>5. CASE a = Assign("request", "undo", [s EXCEPT !.buffer = "freed"], "failed")
  BY <1>5
<1>6. CASE a = Assign("undo", "ready", [s EXCEPT !.buffer = "null"], "none")
  BY <1>6
<1> QED
  BY <1>1, <1>2, <1>3, <1>4, <1>5, <1>6, Zenon DEF Accept

\* The flags do not touch the pointers.
LEMMA FlagsKeepPointers ==
    ASSUME NEW s \in Slot, NEW b \in BOOLEAN, NEW c \in BOOLEAN,
           NEW t \in {[s EXCEPT !.header = b], [s EXCEPT !.in = b], [s EXCEPT !.out = b],
                      [s EXCEPT !.in = b, !.out = c]}
    PROVE  t \in Slot /\ t.buffer = s.buffer /\ t.request = s.request
BY Zenon DEF Slot

\* An assignment of flags between stages that keep the connection.
LEMMA FlagsSound ==
    ASSUME NEW s \in Slot, NEW t \in Slot, t.buffer = s.buffer, t.request = s.request,
           Exists(s),
           NEW from \in {"ready", "parse", "sent", "cleared"},
           NEW to \in {"ready", "parse", "dispatch", "sent", "cleared", "delete"}
    PROVE  Sound(s, Assign(from, to, t, "none"))
BY DEF Fits, Settled, Exists, Unsettled, Alive, One, Sound, Assign, Stages, Totals

LEMMA ReadSound ==
    ASSUME NEW s \in Slot, NEW a \in Read(s), Fits(a.from, s),
           a.from = "ready" => Exists(s)
    PROVE  Sound(s, a)
<1>1. CASE a = Assign("ready", "ready", [s EXCEPT !.header = TRUE], "none")
  BY <1>1, FlagsKeepPointers, FlagsSound, Zenon DEF Assign
<1>2. CASE a = Assign("ready", "parse", [s EXCEPT !.in = TRUE], "none")
  BY <1>2, FlagsKeepPointers, FlagsSound, Zenon DEF Assign
<1>3. CASE a = Assign("parse", "ready", s, "none")
  BY <1>3, FlagsSound, Zenon DEF Assign, Fits
<1>4. CASE a = Assign("parse", "ready", [s EXCEPT !.header = TRUE], "none")
  BY <1>4, FlagsKeepPointers, FlagsSound, Zenon DEF Assign, Fits
<1>5. CASE a = Assign("parse", "dispatch", [s EXCEPT !.header = TRUE], "none")
  BY <1>5, FlagsKeepPointers, FlagsSound, Zenon DEF Assign, Fits
<1>6. CASE a = Assign("count", "ready", s, "requests")
  BY <1>6 DEF Fits, Settled, Exists, Unsettled, Alive, One, Sound, Assign, Stages, Totals
<1> QED
  BY <1>1, <1>2, <1>3, <1>4, <1>5, <1>6, Zenon DEF Read

LEMMA SendSound ==
    ASSUME NEW s \in Slot, NEW a \in Send(s), Fits(a.from, s),
           a.from = "ready" => Exists(s)
    PROVE  Sound(s, a)
<1>1. ASSUME NEW to \in {"ready", "sent", "delete"},
             a = Assign("ready", to, [s EXCEPT !.out = TRUE], "none")
      PROVE  Sound(s, a)
  BY <1>1, FlagsKeepPointers, FlagsSound, Zenon DEF Assign
<1>2. CASE a = Assign("sent", "cleared", [s EXCEPT !.in = FALSE, !.out = FALSE], "none")
  BY <1>2, FlagsKeepPointers, FlagsSound, Zenon DEF Assign, Fits
<1>3. CASE a = Assign("cleared", "ready", [s EXCEPT !.header = FALSE], "none")
  BY <1>3, FlagsKeepPointers, FlagsSound, Zenon DEF Assign, Fits
<1> QED
  BY <1>1, <1>2, <1>3, Zenon DEF Send

LEMMA CloseSound ==
    ASSUME NEW s \in Slot, NEW a \in CloseAllSocketsAndClearData(s), Fits(a.from, s),
           a.from = "ready" => Exists(s)
    PROVE  Sound(s, a)
<1> USE DEF Fits, Settled, Gone, Exists, Unsettled, Alive, One, Sound, Assign, Slot, Pointers,
            NoConnection, Stages, Totals
<1>1. CASE a = Assign("ready", "delete", s, "none")
  BY <1>1
<1>2. CASE a = Assign("delete", "deleteRequest", [s EXCEPT !.buffer = "freed"], "none")
  BY <1>2
<1>3. CASE a = Assign("deleteRequest", "nullBuffer", [s EXCEPT !.request = "freed"], "none")
  BY <1>3
<1>4. CASE a = Assign("nullBuffer", "nullRequest", [s EXCEPT !.buffer = "null"], "none")
  BY <1>4
<1>5. CASE a = Assign("nullRequest", "processed", NoConnection, "none")
  BY <1>5
<1>6. CASE a = Assign("processed", "ready", s, "processed")
  BY <1>6
<1> QED
  BY <1>1, <1>2, <1>3, <1>4, <1>5, <1>6, Zenon DEF CloseAllSocketsAndClearData

LEMMA DispatchSound ==
    ASSUME NEW s \in Slot, Fits("dispatch", s)
    PROVE  Sound(s, Assign("dispatch", "count", s, "none"))
BY DEF Fits, Exists, Unsettled, Alive, One, Sound, Assign, Stages, Totals

LEMMA HandlersSound ==
    ASSUME NEW s \in Slot, NEW a \in Accept(s) \cup LoopHandlers(s), Fits(a.from, s)
    PROVE  Sound(s, a)
BY AcceptSound, ReadSound, SendSound, CloseSound, Zenon DEF LoopHandlers, Exists

-----------------------------------------------------------------------------
(* A turn of the loop *)

\* The slot a handler goes on with fits the stage it is in.
LEMMA TurnFits ==
    ASSUME StatusInv, NEW i \in Slots, NEW a, LoopTurn(i, a)
    PROVE  /\ slots[i] \in Slot /\ Fits(a.from, slots[i])
           /\ \A j \in Slots \ {i} : Fits("ready", slots[j])
BY Zenon DEF StatusInv, StatusTypeOK, LoopInv, StageOf, LoopTurn

LEMMA SlotsAre == Open \in SUBSET Slots /\ Reading \in SUBSET Slots /\ Writing \in SUBSET Slots
BY Zenon DEF Open, Reading, Writing

\* The number of open connections changes as the slot does.
LEMMA OpenStep ==
    ASSUME StatusTypeOK, NEW i \in Slots, NEW a, LoopTurn(i, a)
    PROVE  Cardinality(Open') = Cardinality(Open) + Alive(a.slot) - Alive(slots[i])
<1>1. slots'[i] = a.slot /\ \A j \in Slots \ {i} : slots'[j] = slots[j]
  BY Zenon DEF StatusTypeOK, LoopTurn
<1>2. IsFiniteSet(Open) /\ Cardinality(Open) \in Int
  BY SlotsAre, SlotSets
<1>3. Open' = IF a.slot.request = "live" THEN Open \cup {i} ELSE Open \ {i}
  BY <1>1, Zenon DEF Open
<1>4. i \in Open <=> slots[i].request = "live"
  BY Zenon DEF Open
<1>5. CASE a.slot.request = "live"
  <2>1. Cardinality(Open') = IF i \in Open THEN Cardinality(Open) ELSE Cardinality(Open) + 1
    BY <1>2, <1>3, <1>5, FS_AddElement, Zenon
  <2> QED
    BY <1>2, <1>4, <1>5, <2>1 DEF Alive
<1>6. CASE a.slot.request # "live"
  <2>1. Cardinality(Open') = IF i \in Open THEN Cardinality(Open) - 1 ELSE Cardinality(Open)
    BY <1>2, <1>3, <1>6, FS_RemoveElement, Zenon
  <2> QED
    BY <1>2, <1>4, <1>6, <2>1 DEF Alive
<1> QED
  BY <1>5, <1>6, Zenon

\* No total wraps around.
LEMMA TotalsStep ==
    ASSUME StatusInv, NEW i \in Slots, NEW a, LoopTurn(i, a), Sound(slots[i], a)
    PROVE  \A t \in Totals : /\ totals'[t] = totals[t] + One(t = a.total)
                             /\ totals'[t] \in 0 .. Word - 1
<1> SUFFICES ASSUME NEW t \in Totals
             PROVE  /\ totals'[t] = totals[t] + One(t = a.total)
                    /\ totals'[t] \in 0 .. Word - 1
  BY Zenon
<1>1. /\ totals[t] \in 0 .. Word - 1 /\ totals["accepted"] \in 0 .. Word - 1
      /\ totals["processed"] \in 0 .. Word - 1 /\ totals["failed"] \in 0 .. Word - 1
  BY Zenon DEF StatusInv, StatusTypeOK, Totals
<1>2. totals'[t] = IF t = a.total THEN (totals[t] + 1) % Word ELSE totals[t]
  BY Zenon DEF LoopTurn
<1>3. CASE t # a.total
  BY <1>1, <1>2, <1>3 DEF One
<1>4. CASE t = a.total
  <2>1. totals[t] + 1 < Word
    <3>1. CASE t \in {"accepted", "requests"}
      BY <1>1, <1>4, <3>1, StatusAssumption DEF LoopTurn
    <3>2. CASE t \in {"processed", "failed"}
      <4>1. Alive(slots[i]) + Unsettled(a.from) >= 1
        BY <1>4, <3>2 DEF Sound, Alive, Unsettled, One
      <4>2. a.from = loop.at
        BY Zenon DEF LoopTurn
      <4>3. Cardinality(Open) >= Alive(slots[i])
        <5>1. CASE slots[i].request = "live"
          <6>1. i \in Open /\ IsFiniteSet(Open) /\ Cardinality(Open) \in 0 .. MaxConnection
            BY <5>1, SlotsAre, SlotSets, Zenon DEF Open
          <6>2. Cardinality(Open) # 0
            BY <6>1, FS_EmptySet, Zenon
          <6> QED
            BY <5>1, <6>1, <6>2, StatusAssumption DEF Alive
        <5>2. CASE slots[i].request # "live"
          BY <5>2, SlotsAre, SlotSets, StatusAssumption DEF Alive
        <5> QED
          BY <5>1, <5>2, Zenon
      <4>4. totals["accepted"] = totals["processed"] + totals["failed"]
                                 + Cardinality(Open) + Unsettled(loop.at)
        BY Zenon DEF StatusInv, LoopInv
      <4>5. Cardinality(Open) \in Nat
        BY SlotsAre, SlotSets, StatusAssumption
      <4> QED
        BY <1>1, <3>2, <4>1, <4>2, <4>3, <4>4, <4>5, StatusAssumption DEF Unsettled, Alive
    <3> QED
      BY <3>1, <3>2, Zenon DEF Totals
  <2>2. (totals[t] + 1) % Word = totals[t] + 1
    BY <1>1, <2>1, SmallMod
  <2> QED
    BY <1>1, <1>2, <1>4, <2>1, <2>2, StatusAssumption DEF One
<1> QED
  BY <1>3, <1>4, Zenon

LEMMA TurnKeepsLoop ==
    ASSUME StatusInv, NEW i \in Slots, NEW a, LoopTurn(i, a), Sound(slots[i], a)
    PROVE  LoopInv'
<1>1. \A j \in Slots : Fits(StageOf(j), slots[j])'
  <2> SUFFICES ASSUME NEW j \in Slots PROVE Fits(StageOf(j), slots[j])'
    BY Zenon
  <2>1. /\ loop'.at = a.to /\ loop'.slot = (IF a.to = "ready" THEN 0 ELSE i)
        /\ slots'[j] = IF j = i THEN a.slot ELSE slots[j]
    BY Zenon DEF LoopTurn, StatusInv, StatusTypeOK
  <2>2. Fits(a.to, a.slot)
    BY Zenon DEF Sound
  <2>3. j # i => Fits("ready", slots[j])
    BY TurnFits, Zenon
  <2>4. StageOf(j)' = IF a.to = "ready" THEN "ready" ELSE IF j = i THEN a.to ELSE "ready"
    BY <2>1, Zenon DEF StageOf
  <2>5. Fits(StageOf(j), slots[j])' <=> Fits(StageOf(j)', slots'[j])
    BY Zenon DEF Fits, Settled, Gone, Exists
  <2> QED
    BY <2>1, <2>2, <2>3, <2>4, <2>5, Zenon
<1>2. (totals["accepted"] = totals["processed"] + totals["failed"]
                            + Cardinality(Open) + Unsettled(loop.at))'
  <2>1. /\ totals'["accepted"] = totals["accepted"] + One("accepted" = a.total)
        /\ totals'["processed"] = totals["processed"] + One("processed" = a.total)
        /\ totals'["failed"] = totals["failed"] + One("failed" = a.total)
    BY TotalsStep DEF Totals
  <2>2. Cardinality(Open') = Cardinality(Open) + Alive(a.slot) - Alive(slots[i])
    BY OpenStep, Zenon DEF StatusInv
  <2>3. totals["accepted"] = totals["processed"] + totals["failed"]
                             + Cardinality(Open) + Unsettled(loop.at)
    BY Zenon DEF StatusInv, LoopInv
  <2>4. Alive(a.slot) + Unsettled(a.to) + One(a.total = "processed") + One(a.total = "failed")
         = Alive(slots[i]) + Unsettled(a.from) + One(a.total = "accepted")
    BY Zenon DEF Sound
  <2>5. loop.at = a.from /\ loop'.at = a.to
    BY Zenon DEF LoopTurn
  <2>6. /\ totals["accepted"] \in Int /\ totals["processed"] \in Int /\ totals["failed"] \in Int
        /\ Cardinality(Open) \in Int
    BY SlotsAre, SlotSets, StatusAssumption DEF StatusInv, StatusTypeOK, Totals
  <2>7. Unsettled(loop.at)' = Unsettled(a.to) /\ Cardinality(Open)' = Cardinality(Open')
    BY <2>5, Zenon DEF Unsettled
  <2> QED
    BY <2>1, <2>2, <2>3, <2>4, <2>5, <2>6, <2>7 DEF One, Alive, Unsettled
<1> QED
  BY <1>1, <1>2, Zenon DEF LoopInv

-----------------------------------------------------------------------------
(* Readers that are disturbed *)

LEMMA Disturb ==
    ASSUME NEW p \in Reader
    PROVE  LET q == [p EXCEPT !.quiet = FALSE]
           IN  /\ q \in Reader
               /\ q.walk = p.walk /\ q.at = p.at /\ q.seen = p.seen /\ q.begun = p.begun
               /\ ~q.quiet
BY Zenon DEF Reader

\* A reader that somebody else has disturbed is as it was, and so is its page.
LEMMA DisturbedKeeps ==
    ASSUME StatusInv, NEW r \in Readers,
           reader'[r] = [reader[r] EXCEPT !.quiet = FALSE], page'[r] = page[r],
           \A t \in Totals : totals'[t] \in Int /\ totals[t] <= totals'[t]
    PROVE  PlaceInv(r)' /\ QuietInv(r)' /\ FreshInv(r)'
<1>1. reader[r] \in Reader
  BY Zenon DEF StatusInv, StatusTypeOK
<1>2. /\ reader'[r].walk = reader[r].walk /\ reader'[r].at = reader[r].at
      /\ reader'[r].seen = reader[r].seen /\ reader'[r].begun = reader[r].begun
      /\ ~reader'[r].quiet
  BY <1>1, Disturb, Zenon
<1>3. PlaceInv(r)'
  BY <1>2, Zenon DEF StatusInv, PlaceInv
<1>4. QuietInv(r)'
  BY <1>2, Zenon DEF QuietInv
<1>5. FreshInv(r)'
  <2>1. \A t \in Totals : /\ reader[r].begun[t] \in Int /\ totals[t] \in Int
                          /\ reader[r].begun[t] <= totals[t]
    BY <1>1 DEF StatusInv, StatusTypeOK, FreshInv, Reader
  <2>2. \A t \in Totals : reader'[r].begun[t] <= totals'[t]
    BY <1>2, <2>1
  <2>3. ASSUME reader'[r].walk = 4, NEW k \in 1 .. 3, k < reader'[r].at
        PROVE  page'[r][Shown[k]] \in reader'[r].begun[Shown[k]] .. totals'[Shown[k]]
    <3>1. Shown[k] \in Totals
      BY DEF Shown, Totals
    <3>2. page[r][Shown[k]] \in reader[r].begun[Shown[k]] .. totals[Shown[k]]
      BY <1>2, <2>3, Zenon DEF StatusInv, FreshInv
    <3> QED
      BY <1>2, <2>1, <3>1, <3>2
  <2> QED
    BY <2>2, <2>3, Zenon DEF FreshInv
<1> QED
  BY <1>3, <1>4, <1>5, Zenon

\* A step of the loop disturbs everybody.
LEMMA LoopTurnKeeps ==
    ASSUME StatusInv, NEW i \in Slots, NEW a, LoopTurn(i, a), Sound(slots[i], a),
           queued' \in 0 .. MaxQueued
    PROVE  StatusInv'
<1>1. \A t \in Totals : /\ totals'[t] = totals[t] + One(t = a.total)
                        /\ totals'[t] \in 0 .. Word - 1
  BY TotalsStep, Zenon
<1>2. LoopInv'
  BY TurnKeepsLoop, Zenon
<1>3. /\ reader' = Disturbed(Readers) /\ UNCHANGED <<counts, page, running>>
      /\ DOMAIN totals' = Totals /\ totals' = [t \in Totals |-> totals'[t]]
  BY Zenon DEF LoopTurn
<1>4. StatusTypeOK'
  <2>1. slots' \in [Slots -> Slot]
    BY Zenon DEF StatusInv, StatusTypeOK, LoopTurn, Sound
  <2>2. loop' \in [at : Stages, slot : Slots]
    <3>1. 0 \in Slots
      BY StatusAssumption DEF Slots
    <3> QED
      BY <3>1, Zenon DEF LoopTurn, Sound
  <2>3. totals' \in [Totals -> 0 .. Word - 1]
    BY <1>1, <1>3, Zenon
  <2>4. reader' \in [Readers -> Reader]
    BY <1>3, Disturb, Zenon DEF StatusInv, StatusTypeOK, Disturbed
  <2> QED
    BY <1>3, <2>1, <2>2, <2>3, <2>4, Zenon DEF StatusInv, StatusTypeOK
<1>5. ASSUME NEW r \in Readers PROVE PlaceInv(r)' /\ QuietInv(r)' /\ FreshInv(r)'
  <2>1. reader'[r] = [reader[r] EXCEPT !.quiet = FALSE] /\ page'[r] = page[r]
    BY <1>3, Zenon DEF Disturbed
  <2>2. \A t \in Totals : totals'[t] \in Int /\ totals[t] <= totals'[t]
    BY <1>1 DEF One, StatusInv, StatusTypeOK
  <2> QED
    BY <2>1, <2>2, DisturbedKeeps, Zenon
<1> QED
  BY <1>2, <1>4, <1>5, Zenon DEF StatusInv

-----------------------------------------------------------------------------
(* Steps of a reader *)

\* What remains of a reader that goes on.
LEMMA MovesSeen ==
    ASSUME NEW p \in Reader, NEW b \in BOOLEAN
    PROVE  LET q == [p EXCEPT !.seen = b]
           IN  /\ q \in Reader /\ q.walk = p.walk /\ q.at = p.at /\ q.seen = b
               /\ q.quiet = p.quiet /\ q.begun = p.begun
BY Zenon DEF Reader

LEMMA MovesOn ==
    ASSUME NEW p \in Reader, NEW n \in Nat
    PROVE  LET q == [p EXCEPT !.at = n]
           IN  /\ q \in Reader /\ q.walk = p.walk /\ q.at = n /\ q.seen = p.seen
               /\ q.quiet = p.quiet /\ q.begun = p.begun
BY Zenon DEF Reader

\* What is said of the loop stays while it stands still.
LEMMA LoopStill ==
    ASSUME StatusInv, UNCHANGED loopVars
    PROVE  LoopInv'
<1>1. slots' = slots /\ loop' = loop /\ totals' = totals
  BY Zenon DEF loopVars
<1>2. LoopInv
  BY Zenon DEF StatusInv
<1>3. \A i \in Slots : Fits(StageOf(i), slots[i])'
  BY <1>1, <1>2 DEF LoopInv, StageOf, Fits, Settled, Gone, Exists
<1>4. Open' = Open
  BY <1>1, Zenon DEF Open
<1> QED
  BY <1>1, <1>2, <1>3, <1>4 DEF LoopInv, Unsettled

\* A step of reader r keeps the invariant if it keeps what is said of r: the
\* loop has not moved, and the other readers are disturbed.
LEMMA ReaderStep ==
    ASSUME StatusInv, NEW r \in Readers, NEW next \in Reader,
           reader' = [Disturbed(Readers) EXCEPT ![r] = next],
           UNCHANGED loopVars, running' \in BOOLEAN, queued' \in 0 .. MaxQueued,
           counts' \in [Counts -> 0 .. Word - 1],
           page' \in [Readers -> [Totals \cup Counts -> 0 .. Word - 1]],
           \A q \in Readers \ {r} : page'[q] = page[q],
           reader'[r] = next => PlaceInv(r)' /\ QuietInv(r)' /\ FreshInv(r)'
    PROVE  StatusInv'
<1>1. /\ reader'[r] = next
      /\ \A q \in Readers \ {r} : reader'[q] = [reader[q] EXCEPT !.quiet = FALSE]
  BY Zenon DEF Disturbed
<1>2. slots' = slots /\ loop' = loop /\ totals' = totals
  BY Zenon DEF loopVars
<1>3. StatusTypeOK'
  <2>1. reader' \in [Readers -> Reader]
    BY Disturb, Zenon DEF StatusInv, StatusTypeOK, Disturbed
  <2> QED
    BY <1>2, <2>1, Zenon DEF StatusInv, StatusTypeOK
<1>4. LoopInv'
  BY LoopStill, Zenon
<1>5. \A t \in Totals : totals'[t] \in Int /\ totals[t] <= totals'[t]
  BY <1>2 DEF StatusInv, StatusTypeOK
<1>6. \A q \in Readers \ {r} : PlaceInv(q)' /\ QuietInv(q)' /\ FreshInv(q)'
  BY <1>1, <1>5, DisturbedKeeps, Zenon
<1> QED
  BY <1>1, <1>3, <1>4, <1>6, Zenon DEF StatusInv

\* The sets of connections while the loop stands still.
LEMMA SetsKept ==
    ASSUME UNCHANGED loopVars, NEW r \in Readers, NEW n, reader'[r].at = n
    PROVE  /\ Open' = Open /\ Reading' = Reading /\ Writing' = Writing
           /\ slots' = slots /\ loop' = loop /\ totals' = totals
           /\ Upto(Open, reader[r].at)' = Upto(Open, n)
           /\ Upto(Reading, reader[r].at)' = Upto(Reading, n)
           /\ Upto(Writing, reader[r].at)' = Upto(Writing, n)
<1>1. slots' = slots /\ loop' = loop /\ totals' = totals
  BY Zenon DEF loopVars
<1>2. Open' = Open /\ Reading' = Reading /\ Writing' = Writing
  BY <1>1, Zenon DEF Open, Reading, Writing
<1> QED
  BY <1>1, <1>2, Zenon DEF Upto

\* A quiet reader has the loop between two handlers, so every slot is settled.
LEMMA QuietSlots ==
    ASSUME StatusInv, NEW r \in Readers, reader[r].quiet, NEW i \in Slots
    PROVE  Settled(slots[i])
BY Zenon DEF StatusInv, QuietInv, LoopInv, StageOf, Fits

\* A reader that has nothing on its page yet still began where it began.
LEMMA FreshKept ==
    ASSUME StatusInv, NEW r \in Readers, totals' = totals,
           reader'[r].begun = reader[r].begun,
           reader'[r].walk # 4 \/ reader'[r].at = 1
    PROVE  FreshInv(r)'
<1>1. FreshInv(r)
  BY Zenon DEF StatusInv
<1>2. \A k \in 1 .. 3 : ~(k < 1)
  OBVIOUS
<1> QED
  BY <1>1, <1>2, Zenon DEF FreshInv

LEMMA StartKeeps ==
    ASSUME StatusInv, NEW r \in Readers, Start(r)
    PROVE  StatusInv'
<1> DEFINE next == [walk |-> 1, at |-> 0, seen |-> FALSE, sound |-> TRUE,
                    quiet |-> loop.at = "ready", begun |-> totals]
<1>1. next \in Reader /\ next.walk = 1 /\ next.at = 0 /\ ~next.seen /\ next.begun = totals
      /\ (next.quiet => loop.at = "ready")
  <2>1. (loop.at = "ready") \in BOOLEAN
    BY Zenon
  <2>2. totals \in [Totals -> 0 .. Word - 1] /\ 1 \in 0 .. 4 /\ 0 \in Nat
    BY DEF StatusInv, StatusTypeOK
  <2> QED
    BY <2>1, <2>2, Zenon DEF Reader
<1>2. counts' \in [Counts -> 0 .. Word - 1] /\ counts'["read"] = 0
  BY StatusAssumption DEF Start, StatusInv, StatusTypeOK, Counts
<1>3. /\ UNCHANGED loopVars /\ UNCHANGED <<page, running>>
      /\ reader' = [Disturbed(Readers) EXCEPT ![r] = next]
      /\ queued > 0 /\ queued' = queued - 1
  BY Zenon DEF Start
<1>4. queued' \in 0 .. MaxQueued
  BY <1>3, StatusAssumption DEF StatusInv, StatusTypeOK
<1> HIDE DEF next
<1>5. ASSUME reader'[r] = next PROVE PlaceInv(r)' /\ QuietInv(r)' /\ FreshInv(r)'
  <2>0. totals \in [Totals -> 0 .. Word - 1]
    BY Zenon DEF StatusInv, StatusTypeOK
  <2>1. Cardinality(Upto(Reading, 0)) = 0
    BY SlotsAre, UptoEnds, Zenon
  <2>2. PlaceInv(r)'
    BY <1>1, <1>5, StatusAssumption DEF PlaceInv
  <2>3. QuietInv(r)'
    <3>1. Upto(Reading, reader[r].at)' = Upto(Reading, 0) /\ loop' = loop
      BY <1>1, <1>3, <1>5, SetsKept, Zenon
    <3> QED
      BY <1>1, <1>2, <1>5, <2>1, <3>1 DEF QuietInv
  <2>4. FreshInv(r)'
    <3>1. /\ 1 # 4 /\ totals' = totals
          /\ \A t \in Totals : totals[t] <= totals[t]
      BY <1>3, <2>0 DEF loopVars
    <3> QED
      BY <1>1, <1>5, <3>1, Zenon DEF FreshInv
  <2> QED
    BY <2>2, <2>3, <2>4, Zenon
<1> QED
  BY <1>1, <1>2, <1>3, <1>4, <1>5, ReaderStep, Zenon DEF StatusInv, StatusTypeOK

\* What a walk counts.
Counted(walk) == CASE walk = 1 -> Reading [] walk = 2 -> Writing [] walk = 3 -> Open

\* A walk goes on to the next slot, and counts this one if it belongs.
LEMMA WalkStep ==
    ASSUME StatusInv, NEW r \in Readers, NEW next \in Reader, reader'[r] = next,
           reader[r].walk \in 1 .. 3, reader[r].at \in Slots,
           next.walk = reader[r].walk, next.at = reader[r].at + 1, ~next.seen,
           next.quiet = reader[r].quiet, next.begun = reader[r].begun,
           UNCHANGED loopVars, page'[r] = page[r],
           \A c \in Counts : c # Walks[reader[r].walk] => counts'[c] = counts[c],
           reader[r].quiet =>
              counts'[Walks[reader[r].walk]] =
                 counts[Walks[reader[r].walk]]
                    + IF reader[r].at \in Counted(reader[r].walk) THEN 1 ELSE 0
    PROVE  PlaceInv(r)' /\ QuietInv(r)' /\ FreshInv(r)'
<1> DEFINE w == reader[r].walk
           n == reader[r].at
<1>1. w \in 1 .. 3 /\ n \in Slots /\ n \in Int /\ n + 1 <= MaxConnection
  BY StatusAssumption DEF Slots
<1>2. reader'[r].walk = w /\ reader'[r].at = n + 1 /\ ~reader'[r].seen
      /\ reader'[r].quiet = reader[r].quiet /\ reader'[r].begun = reader[r].begun
  BY Zenon
<1>3. PlaceInv(r)'
  BY <1>1, <1>2 DEF PlaceInv
<1>4. ASSUME reader[r].quiet
      PROVE  QuietInv(r)'
  <2>1. /\ loop' = loop /\ Reading' = Reading /\ Writing' = Writing
        /\ Upto(Reading, reader[r].at)' = Upto(Reading, n + 1)
        /\ Upto(Writing, reader[r].at)' = Upto(Writing, n + 1)
        /\ Upto(Open, reader[r].at)' = Upto(Open, n + 1)
    BY <1>2, SetsKept, Zenon
  <2>2. /\ loop.at = "ready"
        /\ w = 1 => counts["read"] = Cardinality(Upto(Reading, n))
        /\ w > 1 => counts["read"] = Cardinality(Reading)
        /\ w = 2 => counts["write"] = Cardinality(Upto(Writing, n))
        /\ w > 2 => counts["write"] = Cardinality(Writing)
        /\ w = 3 => counts["wait"] = Cardinality(Upto(Open, n))
    BY <1>4, Zenon DEF StatusInv, QuietInv
  <2>3. \A S \in {Reading, Writing, Open} :
           Cardinality(Upto(S, n + 1)) = Cardinality(Upto(S, n)) + IF n \in S THEN 1 ELSE 0
    <3>1. \A S \in {Reading, Writing, Open} : S \in SUBSET Slots
      BY SlotsAre, Zenon
    <3> QED
      BY <1>1, <3>1, UptoAdds
  <2>4. CASE w = 1
    <3>1. counts'["read"] = Cardinality(Upto(Reading, n + 1))
      BY <1>4, <2>2, <2>3, <2>4 DEF Walks, Counted
    <3>2. reader'[r].walk = 1 /\ ~(1 > 1) /\ ~(1 > 2) /\ 1 # 2 /\ 1 # 3 /\ 1 # 4
      BY <1>2, <2>4
    <3> QED
      BY <1>2, <2>1, <2>2, <3>1, <3>2, Zenon DEF QuietInv
  <2>5. CASE w = 2
    <3>1. counts'["write"] = Cardinality(Upto(Writing, n + 1)) /\ counts'["read"] = Cardinality(Reading)
      BY <1>4, <2>2, <2>3, <2>5 DEF Walks, Counted, Counts
    <3> QED
      BY <1>2, <2>1, <2>2, <2>5, <3>1 DEF QuietInv
  <2>6. CASE w = 3
    <3>1. /\ counts'["wait"] = Cardinality(Upto(Open, n + 1))
          /\ counts'["read"] = Cardinality(Reading) /\ counts'["write"] = Cardinality(Writing)
      BY <1>4, <2>2, <2>3, <2>6 DEF Walks, Counted, Counts
    <3> QED
      BY <1>2, <2>1, <2>2, <2>6, <3>1 DEF QuietInv
  <2> QED
    BY <1>1, <2>4, <2>5, <2>6
<1>5. ~reader[r].quiet => QuietInv(r)'
  BY <1>2, Zenon DEF QuietInv
<1>6. FreshInv(r)'
  <2>1. w # 4
    BY <1>1
  <2>2. totals' = totals
    BY <1>2, SetsKept, Zenon
  <2> QED
    BY <1>2, <2>1, <2>2, FreshKept, Zenon
<1> QED
  BY <1>3, <1>4, <1>5, <1>6, Zenon

\* A slot that belongs is counted without the counter going round.
LEMMA IncrementStep ==
    ASSUME StatusInv, NEW r \in Readers, reader[r].walk \in 1 .. 3, reader[r].at \in Slots,
           Increment(Walks[reader[r].walk])
    PROVE  /\ counts' \in [Counts -> 0 .. Word - 1]
           /\ \A c \in Counts : c # Walks[reader[r].walk] => counts'[c] = counts[c]
           /\ reader[r].quiet /\ reader[r].at \in Counted(reader[r].walk) =>
                 counts'[Walks[reader[r].walk]] = counts[Walks[reader[r].walk]] + 1
<1> DEFINE w == reader[r].walk
           n == reader[r].at
           c == Walks[w]
           S == Counted(w)
<1>1. w \in 1 .. 3 /\ n \in Slots /\ c \in Counts
  BY DEF Walks, Counts
<1>2. counts \in [Counts -> 0 .. Word - 1] /\ counts' = [counts EXCEPT ![c] = (@ + 1) % Word]
  BY Zenon DEF StatusInv, StatusTypeOK, Increment
<1>3. counts[c] \in Int /\ (counts[c] + 1) % Word \in 0 .. Word - 1
  BY <1>1, <1>2, ModType
<1>4. counts' \in [Counts -> 0 .. Word - 1] /\ counts'[c] = (counts[c] + 1) % Word
      /\ \A d \in Counts : d # c => counts'[d] = counts[d]
  BY <1>1, <1>2, <1>3, Zenon
<1>5. ASSUME reader[r].quiet, n \in S PROVE (counts[c] + 1) % Word = counts[c] + 1
  <2>1. counts[c] = Cardinality(Upto(S, n)) /\ S \in SUBSET Slots
    BY <1>1, <1>5, SlotsAre DEF StatusInv, QuietInv, Walks, Counted
  <2>2. Cardinality(Upto(S, n + 1)) = counts[c] + 1
    BY <1>1, <1>5, <2>1, UptoStep
  <2>3. Upto(S, n + 1) \in SUBSET Slots
    BY <2>1, Zenon DEF Upto
  <2>4. counts[c] + 1 \in 0 .. MaxConnection
    BY <2>2, <2>3, SlotSets, Zenon
  <2> QED
    BY <2>4, SmallMod, StatusAssumption
<1> QED
  BY <1>4, <1>5, Zenon

LEMMA TestSlotKeeps ==
    ASSUME StatusInv, NEW r \in Readers, TestSlot(r)
    PROVE  StatusInv'
<1> DEFINE p == reader[r]
<1>1. p \in Reader /\ p.walk \in {1, 2} /\ p.at \in Slots /\ ~p.seen /\ p.at + 1 \in Nat /\ p.at \in Nat
  BY StatusAssumption DEF TestSlot, Walking, StatusInv, StatusTypeOK, Slots
<1>2. UNCHANGED loopVars /\ UNCHANGED <<counts, page, running, queued>>
  BY Zenon DEF TestSlot, Continue
<1>3. CASE slots[p.at].request # "null" /\ slots[p.at].buffer # "null"
  <2> DEFINE next == [p EXCEPT !.seen = TRUE]
  <2>1. /\ next \in Reader /\ next.walk = p.walk /\ next.at = p.at /\ next.seen = TRUE
        /\ next.quiet = p.quiet /\ next.begun = p.begun
    BY <1>1, MovesSeen, Zenon
  <2>2. reader' = [Disturbed(Readers) EXCEPT ![r] = next]
    BY <1>3, Zenon DEF TestSlot, Continue
  <2> HIDE DEF next
  <2>3. ASSUME reader'[r] = next PROVE PlaceInv(r)' /\ QuietInv(r)' /\ FreshInv(r)'
    <3>0. reader'[r].at = p.at
      BY <2>1, <2>3, Zenon
    <3>1. /\ slots' = slots /\ loop' = loop /\ totals' = totals /\ Reading' = Reading
          /\ Upto(Reading, reader[r].at)' = Upto(Reading, p.at)
          /\ Upto(Writing, reader[r].at)' = Upto(Writing, p.at)
      BY <1>2, <3>0, SetsKept, Zenon
    <3>2. PlaceInv(r)'
      BY <1>1, <2>1, <2>3, Zenon DEF StatusInv, PlaceInv
    <3>3. p.quiet => Exists(slots[p.at])
      BY <1>1, <1>3, QuietSlots, Zenon DEF Settled, Gone
    <3>4. p.quiet => Exists(slots[reader[r].at])'
      BY <3>0, <3>1, <3>3, Zenon DEF Exists
    <3>5. QuietInv(r)'
      <4>1. CASE ~p.quiet
        BY <2>1, <2>3, <4>1, Zenon DEF QuietInv
      <4>2. CASE p.quiet
        <5>1. /\ loop.at = "ready"
              /\ p.walk = 1 => counts["read"] = Cardinality(Upto(Reading, p.at))
              /\ p.walk > 1 => counts["read"] = Cardinality(Reading)
              /\ p.walk = 2 => counts["write"] = Cardinality(Upto(Writing, p.at))
          BY <4>2, Zenon DEF StatusInv, QuietInv
        <5> QED
          BY <1>1, <1>2, <2>1, <2>3, <3>1, <3>4, <4>2, <5>1 DEF QuietInv
      <4> QED
        BY <4>1, <4>2, Zenon
    <3>6. FreshInv(r)'
      <4>1. p.walk # 4
        BY <1>1
      <4> QED
        BY <2>1, <2>3, <3>1, <4>1, FreshKept, Zenon
    <3> QED
      BY <3>2, <3>5, <3>6, Zenon
  <2> QED
    BY <1>2, <2>1, <2>2, <2>3, ReaderStep, Zenon DEF StatusInv, StatusTypeOK
<1>4. CASE ~(slots[p.at].request # "null" /\ slots[p.at].buffer # "null")
  <2> DEFINE next == [p EXCEPT !.at = p.at + 1]
  <2>1. /\ next \in Reader /\ next.walk = p.walk /\ next.at = p.at + 1 /\ next.seen = p.seen
        /\ next.quiet = p.quiet /\ next.begun = p.begun
    BY <1>1, MovesOn, Zenon
  <2>2. reader' = [Disturbed(Readers) EXCEPT ![r] = next]
    BY <1>4, Zenon DEF TestSlot, Continue
  <2> HIDE DEF next
  <2>3. p.quiet => p.at \notin Counted(p.walk)
    BY <1>1, <1>4, QuietSlots, Zenon DEF Settled, Gone, Exists, Counted, Reading, Writing, Open
  <2>4. p.quiet => counts'[Walks[p.walk]] = counts[Walks[p.walk]]
                                            + IF p.at \in Counted(p.walk) THEN 1 ELSE 0
    BY <1>1, <1>2, <2>3 DEF Walks, Counts, StatusInv, StatusTypeOK
  <2>5. ASSUME reader'[r] = next PROVE PlaceInv(r)' /\ QuietInv(r)' /\ FreshInv(r)'
    <3>1. p.walk \in 1 .. 3
      BY <1>1
    <3>2. page'[r] = page[r] /\ \A c \in Counts : counts'[c] = counts[c]
      BY <1>2, Zenon
    <3> QED
      BY <1>1, <1>2, <2>1, <2>4, <2>5, <3>1, <3>2, WalkStep, Zenon
  <2> QED
    BY <1>2, <2>1, <2>2, <2>5, ReaderStep, Zenon DEF StatusInv, StatusTypeOK
<1> QED
  BY <1>3, <1>4, Zenon

LEMMA CountSlotKeeps ==
    ASSUME StatusInv, NEW r \in Readers, CountSlot(r)
    PROVE  StatusInv'
<1> DEFINE p == reader[r]
<1>1. p \in Reader /\ p.walk \in {1, 2} /\ p.at \in Slots /\ p.seen /\ p.at + 1 \in Nat
  BY StatusAssumption DEF CountSlot, Walking, StatusInv, StatusTypeOK, Slots
<1>s. PICK ok \in BOOLEAN : ok = (p.sound /\ Exists(slots[p.at]))
  BY Zenon
<1> DEFINE next == [p EXCEPT !.seen = FALSE, !.at = p.at + 1, !.sound = ok]
<1>2. UNCHANGED loopVars /\ UNCHANGED <<page, running, queued>>
      /\ reader' = [Disturbed(Readers) EXCEPT ![r] = next]
  BY <1>s, Zenon DEF CountSlot, Continue
<1>3. /\ next \in Reader /\ next.walk = p.walk /\ next.at = p.at + 1 /\ ~next.seen
      /\ next.quiet = p.quiet /\ next.begun = p.begun
  <2>1. p.at + 1 \in Nat /\ FALSE \in BOOLEAN
    BY <1>1, Zenon
  <2> QED
    BY <1>1, <2>1, Zenon DEF Reader
<1> HIDE DEF next
<1>4. PICK yes \in Answers(slots[p.at], p.walk) :
         IF yes THEN Increment(Walks[p.walk]) ELSE UNCHANGED counts
  BY Zenon DEF CountSlot
<1>5. yes \in BOOLEAN /\ (p.quiet => (yes <=> p.at \in Counted(p.walk)))
  <2>1. p.quiet => Exists(slots[p.at])
    BY <1>1, Zenon DEF StatusInv, QuietInv
  <2>2. p.quiet => yes = IF p.walk = 1 THEN ~slots[p.at].header /\ slots[p.at].in
                         ELSE slots[p.at].header /\ slots[p.at].out
    BY <1>4, <2>1, Zenon DEF Answers
  <2>3. yes \in BOOLEAN
    BY <1>4, Zenon DEF Answers
  <2> QED
    BY <1>1, <2>1, <2>2, <2>3 DEF Exists, Counted, Reading, Writing, Open
<1>6. /\ counts' \in [Counts -> 0 .. Word - 1]
      /\ \A c \in Counts : c # Walks[p.walk] => counts'[c] = counts[c]
      /\ p.quiet => counts'[Walks[p.walk]] = counts[Walks[p.walk]]
                                             + IF p.at \in Counted(p.walk) THEN 1 ELSE 0
  <2>1. CASE yes
    <3>1. Increment(Walks[p.walk]) /\ p.walk \in 1 .. 3
      BY <1>1, <1>4, <2>1
    <3> QED
      BY <1>1, <1>5, <2>1, <3>1, IncrementStep, Zenon
  <2>2. CASE ~yes
    <3>1. counts' = counts /\ counts \in [Counts -> 0 .. Word - 1] /\ Walks[p.walk] \in Counts
      BY <1>1, <1>4, <2>2 DEF StatusInv, StatusTypeOK, Walks, Counts
    <3> QED
      BY <1>5, <2>2, <3>1
  <2> QED
    BY <2>1, <2>2, Zenon
<1>7. ASSUME reader'[r] = next PROVE PlaceInv(r)' /\ QuietInv(r)' /\ FreshInv(r)'
  <2>1. p.walk \in 1 .. 3
    BY <1>1
  <2>2. page'[r] = page[r]
    BY <1>2, Zenon
  <2> QED
    BY <1>1, <1>2, <1>3, <1>6, <1>7, <2>1, <2>2, WalkStep, Zenon
<1> QED
  BY <1>2, <1>3, <1>6, <1>7, ReaderStep, Zenon DEF StatusInv, StatusTypeOK

LEMMA CountAnyKeeps ==
    ASSUME StatusInv, NEW r \in Readers, CountAny(r)
    PROVE  StatusInv'
<1> DEFINE p == reader[r]
           next == [p EXCEPT !.at = p.at + 1]
<1>1. p \in Reader /\ p.walk = 3 /\ p.at \in Slots /\ p.at + 1 \in Nat
  BY StatusAssumption DEF CountAny, Walking, StatusInv, StatusTypeOK, Slots
<1>2. UNCHANGED loopVars /\ UNCHANGED <<page, running, queued>>
      /\ reader' = [Disturbed(Readers) EXCEPT ![r] = next]
      /\ IF slots[p.at].request # "null" THEN Increment("wait") ELSE UNCHANGED counts
  BY Zenon DEF CountAny, Continue
<1>3. /\ next \in Reader /\ next.walk = p.walk /\ next.at = p.at + 1 /\ next.seen = p.seen
      /\ next.quiet = p.quiet /\ next.begun = p.begun
  BY <1>1, MovesOn, Zenon
<1> HIDE DEF next
<1>4. ~p.seen
  BY <1>1 DEF StatusInv, PlaceInv
<1>5. p.quiet => (slots[p.at].request # "null" <=> p.at \in Counted(p.walk))
  BY <1>1, QuietSlots DEF Settled, Gone, Exists, Counted, Open
<1>6. /\ counts' \in [Counts -> 0 .. Word - 1]
      /\ \A c \in Counts : c # Walks[p.walk] => counts'[c] = counts[c]
      /\ p.quiet => counts'[Walks[p.walk]] = counts[Walks[p.walk]]
                                             + IF p.at \in Counted(p.walk) THEN 1 ELSE 0
  <2>0. Walks[p.walk] = "wait" /\ p.walk \in 1 .. 3
    BY <1>1 DEF Walks
  <2>1. CASE slots[p.at].request # "null"
    BY <1>1, <1>2, <1>5, <2>0, <2>1, IncrementStep, Zenon
  <2>2. CASE slots[p.at].request = "null"
    <3>1. counts' = counts /\ counts \in [Counts -> 0 .. Word - 1] /\ Walks[p.walk] \in Counts
      BY <1>2, <2>0, <2>2, Zenon DEF StatusInv, StatusTypeOK, Counts
    <3> QED
      BY <1>5, <2>2, <3>1
  <2> QED
    BY <2>1, <2>2, Zenon
<1>7. ASSUME reader'[r] = next PROVE PlaceInv(r)' /\ QuietInv(r)' /\ FreshInv(r)'
  <2>1. p.walk \in 1 .. 3
    BY <1>1
  <2>2. page'[r] = page[r]
    BY <1>2, Zenon
  <2> QED
    BY <1>1, <1>2, <1>3, <1>4, <1>6, <1>7, <2>1, <2>2, WalkStep, Zenon
<1> QED
  BY <1>2, <1>3, <1>6, <1>7, ReaderStep, Zenon DEF StatusInv, StatusTypeOK

LEMMA EndWalkKeeps ==
    ASSUME StatusInv, NEW r \in Readers, EndWalk(r)
    PROVE  StatusInv'
<1> DEFINE p == reader[r]
           next == [p EXCEPT !.walk = p.walk + 1, !.at = 0]
<1>1. p \in Reader /\ p.walk \in {1, 2} /\ p.at = MaxConnection /\ p.walk + 1 \in 0 .. 4 /\ 0 \in Nat
  BY DEF EndWalk, StatusInv, StatusTypeOK
<1>2. UNCHANGED loopVars /\ UNCHANGED <<page, running, queued>>
      /\ reader' = [Disturbed(Readers) EXCEPT ![r] = next]
      /\ counts' = [counts EXCEPT ![Walks[p.walk + 1]] = 0]
  BY Zenon DEF EndWalk, Continue
<1>3. /\ next \in Reader /\ next.walk = p.walk + 1 /\ next.at = 0 /\ next.seen = p.seen
      /\ next.quiet = p.quiet /\ next.begun = p.begun
  BY <1>1, Zenon DEF Reader
<1> HIDE DEF next
<1>4. ~p.seen
  BY <1>1, StatusAssumption DEF StatusInv, PlaceInv, Slots
<1>5. /\ counts' \in [Counts -> 0 .. Word - 1]
      /\ p.walk = 1 => counts'["write"] = 0 /\ counts'["read"] = counts["read"]
      /\ p.walk = 2 => /\ counts'["wait"] = 0 /\ counts'["read"] = counts["read"]
                       /\ counts'["write"] = counts["write"]
  BY <1>1, <1>2, StatusAssumption DEF StatusInv, StatusTypeOK, Walks, Counts
<1>6. ASSUME reader'[r] = next PROVE PlaceInv(r)' /\ QuietInv(r)' /\ FreshInv(r)'
  <2>1. /\ loop' = loop /\ totals' = totals /\ Reading' = Reading /\ Writing' = Writing
        /\ Upto(Writing, reader[r].at)' = Upto(Writing, 0)
        /\ Upto(Open, reader[r].at)' = Upto(Open, 0)
    BY <1>2, <1>3, <1>6, SetsKept, Zenon
  <2>2. PlaceInv(r)'
    BY <1>1, <1>3, <1>4, <1>6, StatusAssumption DEF PlaceInv
  <2>3. ASSUME ~p.quiet PROVE QuietInv(r)'
    BY <1>3, <1>6, <2>3, Zenon DEF QuietInv
  <2>4. ASSUME p.quiet PROVE QuietInv(r)'
    <3>1. /\ Upto(Reading, MaxConnection) = Reading /\ Upto(Writing, MaxConnection) = Writing
          /\ Cardinality(Upto(Writing, 0)) = 0 /\ Cardinality(Upto(Open, 0)) = 0
      BY SlotsAre, UptoEnds, Zenon
    <3>2. /\ loop.at = "ready"
          /\ counts["read"] = Cardinality(Reading)
          /\ p.walk = 2 => counts["write"] = Cardinality(Writing)
      <4>1. QuietInv(r)
        BY Zenon DEF StatusInv
      <4> QED
        BY <1>1, <2>4, <3>1, <4>1 DEF QuietInv
    <3> QED
      BY <1>1, <1>3, <1>4, <1>5, <1>6, <2>1, <3>1, <3>2 DEF QuietInv
  <2>5. QuietInv(r)'
    BY <2>3, <2>4, Zenon
  <2>6. FreshInv(r)'
    <3>1. p.walk + 1 # 4
      BY <1>1
    <3> QED
      BY <1>3, <1>6, <2>1, <3>1, FreshKept, Zenon
  <2> QED
    BY <2>2, <2>5, <2>6, Zenon
<1> QED
  BY <1>2, <1>3, <1>5, <1>6, ReaderStep, Zenon DEF StatusInv, StatusTypeOK

\* The connections that neither read nor write are what is left.
LEMMA Idle ==
    Cardinality(Open \ (Reading \cup Writing))
       = Cardinality(Open) - Cardinality(Reading) - Cardinality(Writing)
<1>1. IsFiniteSet(Open) /\ IsFiniteSet(Reading) /\ IsFiniteSet(Writing)
  BY SlotsAre, SlotSets, Zenon
<1>2. Reading \cap Writing = {} /\ Open \cap (Reading \cup Writing) = Reading \cup Writing
  BY Zenon DEF Reading, Writing
<1>3. Cardinality(Reading \cup Writing) = Cardinality(Reading) + Cardinality(Writing)
  <2>1. Cardinality(Reading \cup Writing)
           = Cardinality(Reading) + Cardinality(Writing) - Cardinality(Reading \cap Writing)
    BY <1>1, FS_Union, Zenon
  <2>2. Cardinality(Reading) \in Int /\ Cardinality(Writing) \in Int
    BY SlotsAre, SlotSets, StatusAssumption
  <2> QED
    BY <1>2, <2>1, <2>2, FS_EmptySet
<1>4. Cardinality(Open \ (Reading \cup Writing))
         = Cardinality(Open) - Cardinality(Open \cap (Reading \cup Writing))
  BY <1>1, FS_Difference, Zenon
<1>5. Cardinality(Open) \in Int /\ Cardinality(Reading) \in Int /\ Cardinality(Writing) \in Int
  BY SlotsAre, SlotSets, StatusAssumption
<1>6. Cardinality(Open \cap (Reading \cup Writing)) = Cardinality(Reading) + Cardinality(Writing)
  BY <1>2, <1>3, Zenon
<1> QED
  BY <1>4, <1>5, <1>6

LEMMA SubtractKeeps ==
    ASSUME StatusInv, NEW r \in Readers, Subtract(r)
    PROVE  StatusInv'
<1> DEFINE p == reader[r]
           next == [p EXCEPT !.walk = 4, !.at = 1]
           left == counts["wait"] - counts["read"] - counts["write"]
<1>1. p \in Reader /\ p.walk = 3 /\ p.at = MaxConnection /\ 4 \in 0 .. 4 /\ 1 \in Nat
  BY DEF Subtract, StatusInv, StatusTypeOK
<1>2. UNCHANGED loopVars /\ UNCHANGED <<page, running, queued>>
      /\ reader' = [Disturbed(Readers) EXCEPT ![r] = next]
      /\ counts' = [counts EXCEPT !["wait"] = left % Word]
  BY Zenon DEF Subtract, Continue
<1>3. /\ next \in Reader /\ next.walk = 4 /\ next.at = 1 /\ next.seen = p.seen
      /\ next.quiet = p.quiet /\ next.begun = p.begun
  BY <1>1, Zenon DEF Reader
<1> HIDE DEF next
<1>4. ~p.seen
  BY <1>1, StatusAssumption DEF StatusInv, PlaceInv
<1>5. /\ counts' \in [Counts -> 0 .. Word - 1] /\ counts'["wait"] = left % Word
      /\ counts'["read"] = counts["read"] /\ counts'["write"] = counts["write"]
  <2>1. left \in Int
    BY DEF StatusInv, StatusTypeOK, Counts
  <2>2. left % Word \in 0 .. Word - 1
    BY <2>1, ModType, Zenon
  <2> QED
    BY <1>2, <2>2, Zenon DEF StatusInv, StatusTypeOK, Counts
<1>6. ASSUME reader'[r] = next PROVE PlaceInv(r)' /\ QuietInv(r)' /\ FreshInv(r)'
  <2>1. /\ loop' = loop /\ totals' = totals /\ Open' = Open
        /\ Reading' = Reading /\ Writing' = Writing
    BY <1>2, <1>3, <1>6, SetsKept, Zenon
  <2>2. PlaceInv(r)'
    BY <1>1, <1>3, <1>4, <1>6 DEF PlaceInv, Shown
  <2>3. ASSUME ~p.quiet PROVE QuietInv(r)'
    BY <1>3, <1>6, <2>3, Zenon DEF QuietInv
  <2>4. ASSUME p.quiet PROVE QuietInv(r)'
    <3>1. /\ loop.at = "ready" /\ counts["read"] = Cardinality(Reading)
          /\ counts["write"] = Cardinality(Writing) /\ counts["wait"] = Cardinality(Open)
      <4>1. Upto(Open, MaxConnection) = Open
        BY SlotsAre, UptoEnds, Zenon
      <4> QED
        BY <1>1, <2>4, <4>1 DEF StatusInv, QuietInv
    <3>2. left % Word = left
      <4>1. left = Cardinality(Open \ (Reading \cup Writing))
        BY <3>1, Idle, Zenon
      <4>2. Open \ (Reading \cup Writing) \in SUBSET Slots
        BY SlotsAre, Zenon
      <4>3. left \in 0 .. MaxConnection
        BY <4>1, <4>2, SlotSets, Zenon
      <4> QED
        BY <4>3, SmallMod, StatusAssumption
    <3>3. counts'["wait"] = Cardinality(Open) - Cardinality(Reading) - Cardinality(Writing)
      BY <1>5, <3>1, <3>2, Zenon
    <3>4. 4 > 1 /\ 4 > 2 /\ 4 # 1 /\ 4 # 2 /\ 4 # 3 /\ \A k \in 1 .. Len(Shown) : ~(k < 1)
      BY DEF Shown
    <3> QED
      BY <1>3, <1>4, <1>5, <1>6, <2>1, <3>1, <3>3, <3>4, Zenon DEF QuietInv
  <2>5. FreshInv(r)'
    BY <1>3, <1>6, <2>1, FreshKept, Zenon
  <2> QED
    BY <2>2, <2>3, <2>4, <2>5, Zenon
<1> QED
  BY <1>2, <1>3, <1>5, <1>6, ReaderStep, Zenon DEF StatusInv, StatusTypeOK

\* What a reader nobody disturbed knows when it writes its page.
LEMMA QuietPage ==
    ASSUME StatusInv, NEW r \in Readers, reader[r].walk = 4, reader[r].quiet
    PROVE  /\ loop.at = "ready" /\ counts["read"] = Cardinality(Reading)
           /\ counts["write"] = Cardinality(Writing)
           /\ counts["wait"] = Cardinality(Open) - Cardinality(Reading) - Cardinality(Writing)
           /\ \A k \in 1 .. 7 : k < reader[r].at =>
                 page[r][Shown[k]] = IF Shown[k] \in Totals THEN totals[Shown[k]] ELSE counts[Shown[k]]
<1>1. QuietInv(r)
  BY Zenon DEF StatusInv
<1>2. Len(Shown) = 7
  BY Zenon DEF Shown
<1>3. 4 > 1 /\ 4 > 2
  OBVIOUS
<1> QED
  BY <1>1, <1>2, <1>3, Zenon DEF QuietInv

LEMMA ShowPageKeeps ==
    ASSUME StatusInv, NEW r \in Readers, ShowPage(r)
    PROVE  StatusInv'
<1> DEFINE p == reader[r]
           next == [p EXCEPT !.at = p.at + 1]
           name == Shown[p.at]
           number == IF name \in Totals THEN totals[name] ELSE counts[name]
<1>1. p \in Reader /\ p.walk = 4 /\ p.at \in 1 .. 7 /\ p.at + 1 \in Nat
  <2>1. Len(Shown) = 7
    BY Zenon DEF Shown
  <2> QED
    BY <2>1 DEF ShowPage, StatusInv, StatusTypeOK
<1>2. UNCHANGED loopVars /\ UNCHANGED <<counts, running, queued>>
      /\ reader' = [Disturbed(Readers) EXCEPT ![r] = next]
      /\ page' = [page EXCEPT ![r][name] = number]
  BY Zenon DEF ShowPage, Continue
<1>3. /\ next \in Reader /\ next.walk = p.walk /\ next.at = p.at + 1 /\ next.seen = p.seen
      /\ next.quiet = p.quiet /\ next.begun = p.begun
  BY <1>1, MovesOn, Zenon
<1> HIDE DEF next
<1>4. /\ name \in Totals \cup Counts
      /\ \A k \in 1 .. 7 : Shown[k] = name => k = p.at
  BY <1>1 DEF Shown, Totals, Counts
<1>5. number \in 0 .. Word - 1
  BY <1>4, Zenon DEF StatusInv, StatusTypeOK
<1>6. /\ page' \in [Readers -> [Totals \cup Counts -> 0 .. Word - 1]]
      /\ \A q \in Readers \ {r} : page'[q] = page[q]
      /\ page'[r][name] = number
      /\ \A n \in Totals \cup Counts : n # name => page'[r][n] = page[r][n]
  BY <1>2, <1>4, <1>5, Zenon DEF StatusInv, StatusTypeOK
<1>n. \A k \in 1 .. 7 : k = p.at =>
         number = IF Shown[k] \in Totals THEN totals[Shown[k]] ELSE counts[Shown[k]]
  BY Zenon
<1> HIDE DEF name, number
<1>7. ASSUME NEW k \in 1 .. 7, k < p.at + 1
      PROVE  /\ k = p.at => page'[r][Shown[k]] = number
             /\ k # p.at => k < p.at /\ page'[r][Shown[k]] = page[r][Shown[k]]
  <2>1. k # p.at => k < p.at
    BY <1>1, <1>7
  <2>2. Shown[k] \in Totals \cup Counts
    BY DEF Shown, Totals, Counts
  <2> QED
    <3>1. Shown[k] = name <=> k = p.at
      BY <1>1, <1>4, Zenon DEF name
    <3> QED
      BY <1>6, <2>1, <2>2, <3>1, Zenon
<1>8. ASSUME reader'[r] = next PROVE PlaceInv(r)' /\ QuietInv(r)' /\ FreshInv(r)'
  <2>1. /\ slots' = slots /\ loop' = loop /\ totals' = totals /\ Open' = Open
        /\ Reading' = Reading /\ Writing' = Writing
    BY <1>2, <1>3, <1>8, SetsKept, Zenon
  <2>2. PlaceInv(r)'
    BY <1>1, <1>3, <1>8 DEF StatusInv, PlaceInv, Shown
  <2>3. ASSUME ~p.quiet PROVE QuietInv(r)'
    BY <1>3, <1>8, <2>3, Zenon DEF QuietInv
  <2>4. ASSUME p.quiet PROVE QuietInv(r)'
    <3>1. /\ loop.at = "ready" /\ counts["read"] = Cardinality(Reading)
          /\ counts["write"] = Cardinality(Writing)
          /\ counts["wait"] = Cardinality(Open) - Cardinality(Reading) - Cardinality(Writing)
          /\ \A k \in 1 .. 7 : k < p.at =>
                page[r][Shown[k]] = IF Shown[k] \in Totals THEN totals[Shown[k]] ELSE counts[Shown[k]]
      BY <1>1, <2>4, QuietPage, Zenon
    <3>2. \A k \in 1 .. 7 : k < p.at + 1 =>
             page'[r][Shown[k]] = IF Shown[k] \in Totals THEN totals[Shown[k]] ELSE counts[Shown[k]]
      BY <1>7, <1>n, <3>1
    <3>3. Len(Shown) = 7 /\ counts' = counts /\ ~next.seen /\ Shown' = Shown
      BY <1>1, <1>2, <1>3 DEF Shown, StatusInv, PlaceInv
    <3>4. 4 > 1 /\ 4 > 2 /\ 4 # 1 /\ 4 # 2 /\ 4 # 3
      OBVIOUS
    <3> QED
      BY <1>1, <1>3, <1>8, <2>1, <3>1, <3>2, <3>3, <3>4, Zenon DEF QuietInv
  <2>5. FreshInv(r)'
    <3>1. /\ \A t \in Totals : p.begun[t] <= totals[t] /\ p.begun[t] \in Int /\ totals[t] \in Int
          /\ \A k \in 1 .. 3 : k < p.at => page[r][Shown[k]] \in p.begun[Shown[k]] .. totals[Shown[k]]
      <4>1. FreshInv(r) /\ p.begun \in [Totals -> 0 .. Word - 1] /\ totals \in [Totals -> 0 .. Word - 1]
        BY <1>1, Zenon DEF StatusInv, StatusTypeOK, Reader
      <4> QED
        BY <1>1, <4>1 DEF FreshInv
    <3>2. ASSUME NEW k \in 1 .. 3, k < p.at + 1
          PROVE  page'[r][Shown[k]] \in p.begun[Shown[k]] .. totals[Shown[k]]
      <4>1. Shown[k] \in Totals /\ k \in 1 .. 7
        BY DEF Shown, Totals
      <4>2. k = p.at => page'[r][Shown[k]] = totals[Shown[k]]
        BY <1>7, <1>n, <3>2, <4>1, Zenon
      <4>3. k # p.at => k < p.at /\ page'[r][Shown[k]] = page[r][Shown[k]]
        BY <1>7, <3>2, <4>1, Zenon
      <4>4. totals[Shown[k]] \in p.begun[Shown[k]] .. totals[Shown[k]]
        BY <3>1, <4>1
      <4> QED
        BY <3>1, <4>2, <4>3, <4>4, Zenon
    <3> QED
      BY <1>3, <1>8, <2>1, <3>1, <3>2, Zenon DEF FreshInv
  <2> QED
    BY <2>2, <2>3, <2>4, <2>5, Zenon
<1> QED
  BY <1>2, <1>3, <1>6, <1>8, ReaderStep, Zenon DEF StatusInv, StatusTypeOK

LEMMA ReturnPageKeeps ==
    ASSUME StatusInv, NEW r \in Readers, ReturnPage(r)
    PROVE  StatusInv'
<1>1. UNCHANGED loopVars /\ UNCHANGED <<counts, running, queued>>
      /\ reader' = [Disturbed(Readers) EXCEPT ![r] = Resting]
      /\ page' = [page EXCEPT ![r] = [n \in Totals \cup Counts |-> 0]]
  BY Zenon DEF ReturnPage, Continue
<1>2. Resting \in Reader
  <2>1. [t \in Totals |-> 0] \in [Totals -> 0 .. Word - 1] /\ 0 \in 0 .. 4 /\ 0 \in Nat
    BY StatusAssumption
  <2> QED
    BY <2>1, Zenon DEF Resting, Reader
<1>3. /\ page' \in [Readers -> [Totals \cup Counts -> 0 .. Word - 1]]
      /\ \A q \in Readers \ {r} : page'[q] = page[q]
  BY <1>1, StatusAssumption DEF StatusInv, StatusTypeOK
<1>4. ASSUME reader'[r] = Resting PROVE PlaceInv(r)' /\ QuietInv(r)' /\ FreshInv(r)'
  <2>1. /\ reader'[r].walk = 0 /\ reader'[r].at = 0 /\ ~reader'[r].seen /\ ~reader'[r].quiet
        /\ \A t \in Totals : reader'[r].begun[t] = 0
    BY <1>4 DEF Resting
  <2>2. \A t \in Totals : totals'[t] \in 0 .. Word - 1
    BY <1>1, Zenon DEF loopVars, StatusInv, StatusTypeOK
  <2> QED
    BY <2>1, <2>2, StatusAssumption DEF PlaceInv, QuietInv, FreshInv
<1> QED
  BY <1>1, <1>2, <1>3, <1>4, ReaderStep, Zenon DEF StatusInv, StatusTypeOK

-----------------------------------------------------------------------------
(* The other steps *)

\* Neither the loop nor a reader moves.
LEMMA NobodyMoves ==
    ASSUME StatusInv, UNCHANGED <<loopVars, counts, reader, page>>,
           running' \in BOOLEAN, queued' \in 0 .. MaxQueued
    PROVE  StatusInv'
<1>1. slots' = slots /\ loop' = loop /\ totals' = totals /\ counts' = counts
      /\ reader' = reader /\ page' = page
  BY Zenon DEF loopVars
<1>2. StatusTypeOK'
  BY <1>1, Zenon DEF StatusInv, StatusTypeOK
<1>3. Open' = Open /\ Reading' = Reading /\ Writing' = Writing
  BY <1>1, Zenon DEF Open, Reading, Writing
<1>4. LoopInv'
  BY LoopStill, Zenon
<1>5. ASSUME NEW r \in Readers PROVE PlaceInv(r)' /\ QuietInv(r)' /\ FreshInv(r)'
  <2>0. PlaceInv(r) /\ QuietInv(r) /\ FreshInv(r)
    BY Zenon DEF StatusInv
  <2>1. PlaceInv(r)' /\ FreshInv(r)'
    BY <1>1, <2>0, Zenon DEF PlaceInv, FreshInv
  <2>2. /\ Upto(Open, reader[r].at)' = Upto(Open, reader[r].at)
        /\ Upto(Reading, reader[r].at)' = Upto(Reading, reader[r].at)
        /\ Upto(Writing, reader[r].at)' = Upto(Writing, reader[r].at)
    BY <1>1, SetsKept, Zenon
  <2>3. QuietInv(r)'
    BY <1>1, <1>3, <2>0, <2>2, Zenon DEF QuietInv, Exists
  <2> QED
    BY <2>1, <2>3, Zenon
<1> QED
  BY <1>2, <1>4, <1>5, Zenon DEF StatusInv

LEMMA SetTasksKeeps ==
    ASSUME StatusInv, SetCurrentNumberTasks
    PROVE  StatusInv'
<1>1. /\ slots' = slots /\ loop' = loop /\ totals' = totals /\ queued' = queued
      /\ page' = page /\ running' = running /\ reader' = Disturbed(Readers)
      /\ counts' = [counts EXCEPT !["tasks"] = queued]
  BY Zenon DEF SetCurrentNumberTasks, loopVars
<1>2. StatusTypeOK'
  <2>1. reader' \in [Readers -> Reader]
    BY <1>1, Disturb, Zenon DEF StatusInv, StatusTypeOK, Disturbed
  <2>2. counts' \in [Counts -> 0 .. Word - 1]
    <3>1. queued \in 0 .. Word - 1
      BY StatusAssumption DEF StatusInv, StatusTypeOK
    <3> QED
      BY <1>1, <3>1, Zenon DEF StatusInv, StatusTypeOK
  <2> QED
    BY <1>1, <2>1, <2>2, Zenon DEF StatusInv, StatusTypeOK
<1>3. LoopInv'
  BY <1>1, LoopStill, Zenon DEF loopVars
<1>4. \A r \in Readers : PlaceInv(r)' /\ QuietInv(r)' /\ FreshInv(r)'
  <2>1. \A r \in Readers : reader'[r] = [reader[r] EXCEPT !.quiet = FALSE] /\ page'[r] = page[r]
    BY <1>1, Zenon DEF Disturbed
  <2>2. \A t \in Totals : totals'[t] \in Int /\ totals[t] <= totals'[t]
    BY <1>1 DEF StatusInv, StatusTypeOK
  <2> QED
    BY <2>1, <2>2, DisturbedKeeps, Zenon
<1> QED
  BY <1>2, <1>3, <1>4, Zenon DEF StatusInv

LEMMA StatusInvInit == StatusInit => StatusInv
<1> SUFFICES ASSUME StatusInit PROVE StatusInv
  BY Zenon
<1>1. \A i \in Slots : /\ slots[i] = NoConnection /\ slots[i].buffer = "null"
                       /\ slots[i].request = "null"
  BY Zenon DEF StatusInit, NoConnection
<1>2. loop.at = "ready" /\ loop.slot = 0 /\ \A t \in Totals : totals[t] = 0
  BY Zenon DEF StatusInit
<1>3. StatusTypeOK
  <2>1. NoConnection \in Slot
    BY Zenon DEF NoConnection, Slot, Pointers
  <2>2. Resting \in Reader
    <3>1. [t \in Totals |-> 0] \in [Totals -> 0 .. Word - 1] /\ 0 \in 0 .. 4 /\ 0 \in Nat
      BY StatusAssumption
    <3> QED
      BY <3>1, Zenon DEF Resting, Reader
  <2>3. 0 \in Slots /\ 0 \in 0 .. Word - 1 /\ 0 \in 0 .. MaxQueued
    BY StatusAssumption DEF Slots
  <2> QED
    BY <2>1, <2>2, <2>3, Zenon DEF StatusInit, StatusTypeOK, Stages
<1>4. LoopInv
  <2>1. Open = {}
    BY <1>1, Zenon DEF Open
  <2>2. Cardinality(Open) = 0
    BY <2>1, FS_EmptySet, Zenon
  <2>3. \A i \in Slots : Fits(StageOf(i), slots[i])
    BY <1>1, <1>2, Zenon DEF StageOf, Fits, Settled, Gone
  <2> QED
    BY <1>2, <2>2, <2>3 DEF LoopInv, Unsettled, Totals
<1>5. ASSUME NEW r \in Readers PROVE PlaceInv(r) /\ QuietInv(r) /\ FreshInv(r)
  <2>1. /\ reader[r].walk = 0 /\ reader[r].at = 0 /\ ~reader[r].seen /\ ~reader[r].quiet
        /\ \A t \in Totals : reader[r].begun[t] = 0
    BY Zenon DEF StatusInit, Resting
  <2> QED
    BY <1>2, <2>1, StatusAssumption DEF PlaceInv, QuietInv, FreshInv
<1> QED
  BY <1>3, <1>4, <1>5, Zenon DEF StatusInv

LEMMA StatusInvNext == StatusInv /\ [StatusNext]_statusVars => StatusInv'
<1> SUFFICES ASSUME StatusInv, [StatusNext]_statusVars PROVE StatusInv'
  BY Zenon
<1>0. queued \in 0 .. MaxQueued /\ running \in BOOLEAN /\ slots \in [Slots -> Slot]
  BY Zenon DEF StatusInv, StatusTypeOK
<1>1. ASSUME NEW i \in Slots, HandleSlot(i) PROVE StatusInv'
  <2>1. PICK a \in Accept(slots[i]) \cup LoopHandlers(slots[i]) : LoopTurn(i, a)
    BY <1>1, Zenon DEF HandleSlot
  <2>2. Fits(a.from, slots[i])
    BY <2>1, TurnFits, Zenon
  <2>3. Sound(slots[i], a)
    BY <1>0, <2>1, <2>2, HandlersSound, Zenon
  <2>4. queued' \in 0 .. MaxQueued
    BY <1>0, <1>1, Zenon DEF HandleSlot
  <2> QED
    BY <2>1, <2>3, <2>4, LoopTurnKeeps, Zenon
<1>2. ASSUME NEW i \in Slots, Dispatch(i) PROVE StatusInv'
  <2> DEFINE a == Assign("dispatch", "count", slots[i], "none")
  <2>1. LoopTurn(i, a) /\ queued' \in {n \in {queued, queued + 1} : n <= MaxQueued}
    BY <1>2, Zenon DEF Dispatch
  <2>2. Fits(a.from, slots[i])
    BY <2>1, TurnFits, Zenon
  <2>3. Sound(slots[i], a)
    <3>1. a.from = "dispatch" /\ slots[i] \in Slot
      BY <1>0, Zenon DEF Assign
    <3> QED
      BY <2>2, <3>1, DispatchSound, Zenon
  <2>4. queued' \in 0 .. MaxQueued
    BY <1>0, <2>1, StatusAssumption
  <2> QED
    BY <2>1, <2>3, <2>4, LoopTurnKeeps, Zenon
<1>3. CASE SetCurrentNumberTasks
  BY <1>3, SetTasksKeeps, Zenon
<1>4. CASE TakeOtherTask
  <2>1. queued' \in 0 .. MaxQueued
    BY <1>0, <1>4, StatusAssumption DEF TakeOtherTask
  <2> QED
    BY <1>0, <1>4, <2>1, NobodyMoves, Zenon DEF TakeOtherTask
<1>5. ASSUME NEW r \in Readers, Callback(r) PROVE StatusInv'
  <2>1. CASE FollowNull(r)
    BY <1>0, <2>1, NobodyMoves, Zenon DEF FollowNull
  <2> QED
    BY <1>5, <2>1, StartKeeps, TestSlotKeeps, CountSlotKeeps, CountAnyKeeps, EndWalkKeeps,
       SubtractKeeps, ShowPageKeeps, ReturnPageKeeps DEF Callback
<1>6. CASE UNCHANGED statusVars
  BY <1>0, <1>6, NobodyMoves, Zenon DEF statusVars
<1> QED
  BY <1>1, <1>2, <1>3, <1>4, <1>5, <1>6, Zenon DEF StatusNext

\* The invariant says what the page promises.
LEMMA InvMakesPageTrue == StatusInv => PageIsTrue
<1> SUFFICES ASSUME StatusInv PROVE PageIsTrue
  BY Zenon
<1>1. Len(Shown) = 7
  BY Zenon DEF Shown
<1>2. ASSUME NEW r \in Readers, Finished(r), reader[r].quiet
      PROVE  /\ loop.at = "ready" /\ page[r]["read"] = Cardinality(Reading)
             /\ page[r]["write"] = Cardinality(Writing)
             /\ page[r]["wait"] = Cardinality(Open \ (Reading \cup Writing))
             /\ page[r]["accepted"] = totals["accepted"] /\ page[r]["processed"] = totals["processed"]
  <2>1. reader[r].walk = 4 /\ reader[r].at = 8
    BY <1>1, <1>2 DEF Finished
  <2>2. /\ loop.at = "ready" /\ counts["read"] = Cardinality(Reading)
        /\ counts["write"] = Cardinality(Writing)
        /\ counts["wait"] = Cardinality(Open) - Cardinality(Reading) - Cardinality(Writing)
        /\ \A k \in 1 .. 7 : k < 8 =>
              page[r][Shown[k]] = IF Shown[k] \in Totals THEN totals[Shown[k]] ELSE counts[Shown[k]]
    BY <1>2, <2>1, QuietPage, Zenon
  <2>3. /\ page[r]["accepted"] = totals["accepted"] /\ page[r]["processed"] = totals["processed"]
        /\ page[r]["read"] = counts["read"] /\ page[r]["write"] = counts["write"]
        /\ page[r]["wait"] = counts["wait"]
    <3>1. /\ Shown[1] = "accepted" /\ Shown[2] = "processed" /\ Shown[4] = "read"
          /\ Shown[5] = "write" /\ Shown[6] = "wait"
      BY Zenon DEF Shown
    <3> QED
      BY <2>2, <3>1 DEF Totals
  <2> QED
    BY <2>2, <2>3, Idle, Zenon
<1>3. SnapshotExact
  BY <1>2, Zenon DEF SnapshotExact
<1>4. PageAddsUp
  <2> SUFFICES ASSUME NEW r \in Readers, Finished(r), reader[r].quiet
               PROVE  page[r]["accepted"] - page[r]["processed"] - totals["failed"]
                        = page[r]["read"] + page[r]["write"] + page[r]["wait"]
    BY Zenon DEF PageAddsUp
  <2>1. totals["accepted"] = totals["processed"] + totals["failed"] + Cardinality(Open)
    <3>1. Cardinality(Open) \in Int
      BY SlotsAre, SlotSets, StatusAssumption
    <3> QED
      BY <1>2, <3>1 DEF StatusInv, LoopInv, Unsettled, StatusTypeOK, Totals
  <2>2. /\ Cardinality(Open) \in Int /\ Cardinality(Reading) \in Int /\ Cardinality(Writing) \in Int
        /\ totals["accepted"] \in Int /\ totals["processed"] \in Int /\ totals["failed"] \in Int
    BY SlotsAre, SlotSets, StatusAssumption DEF StatusInv, StatusTypeOK, Totals
  <2>3. /\ page[r]["read"] = Cardinality(Reading) /\ page[r]["write"] = Cardinality(Writing)
        /\ page[r]["wait"] = Cardinality(Open) - Cardinality(Reading) - Cardinality(Writing)
        /\ page[r]["accepted"] = totals["accepted"] /\ page[r]["processed"] = totals["processed"]
    BY <1>2, Idle, Zenon
  <2> QED
    BY <2>1, <2>2, <2>3
<1>5. TotalsFresh
  <2> SUFFICES ASSUME NEW r \in Readers, NEW t \in {"accepted", "processed", "requests"}, Finished(r)
               PROVE  page[r][t] \in reader[r].begun[t] .. totals[t]
    BY Zenon DEF TotalsFresh
  <2>1. PICK k \in 1 .. 3 : Shown[k] = t
    <3>1. Shown[1] = "accepted" /\ Shown[2] = "processed" /\ Shown[3] = "requests"
      BY Zenon DEF Shown
    <3> QED
      BY <3>1
  <2>2. reader[r].walk = 4 /\ k < reader[r].at
    BY <1>1 DEF Finished
  <2> QED
    BY <2>1, <2>2, Zenon DEF StatusInv, FreshInv
<1> QED
  BY <1>3, <1>4, <1>5, Zenon DEF PageIsTrue

\* Types hold always, and with them that no count ever leaves the word.
THEOREM StatusTypeCorrect == StatusSpec => []StatusTypeOK
<1>1. StatusInv => StatusTypeOK
  BY Zenon DEF StatusInv
<1> QED
  BY <1>1, StatusInvInit, StatusInvNext, PTL DEF StatusSpec

\* What the status page shows is true, however many connections and workers
\* there are and whatever the loop does meanwhile.
THEOREM PageAlwaysTrue == StatusSpec => []PageIsTrue
<1> QED
  BY InvMakesPageTrue, StatusInvInit, StatusInvNext, PTL DEF StatusSpec

=============================================================================
