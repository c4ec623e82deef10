---------------------------- MODULE ActivityProofs ----------------------------
(***************************************************************************)
(* What the two lists of activity promise.                                  *)
(*                                                                          *)
(* DecisionFeed, for every ring buffer and page, any number of decisions    *)
(* and of interruptions: the page is caught up because it always begins     *)
(* with those records of the buffer that are not on their way any more. To  *)
(* keep that, the ids of the buffer must be consecutive, what is on its way *)
(* must end as the buffer ends, and the page must have room for the buffer. *)
(* ShownInTheEnd is liveness and stays with TLC.                            *)
(*                                                                          *)
(* WalletSnapshot, for every limit, any number of transactions,             *)
(* checkpoints, refreshes and attempts: the rows leave no gap in what was   *)
(* in a checkpoint because each query, whenever it is answered, covers what *)
(* was in one when its load began and dates it, and because a row that      *)
(* either cut cuts off has Limit others that are as new. For that the times *)
(* of the checkpoints must rise. RefreshEnds is liveness and stays with     *)
(* TLC.                                                                     *)
(***************************************************************************)
EXTENDS DecisionFeed, WalletSnapshot, InductionLemmas

\* SubSeq(decisions, 1, n) of the page: at most PageMax records, the first ones.
LEMMA NewestIs ==
    ASSUME NEW X, NEW s \in Seq(X)
    PROVE  /\ Newest(s) \in Seq(X) /\ Len(Newest(s)) \in Nat
           /\ Len(Newest(s)) <= PageMax /\ Len(Newest(s)) <= Len(s)
           /\ \A m \in Nat : m <= PageMax /\ m <= Len(s) => m <= Len(Newest(s))
           /\ \A k \in 1 .. Len(Newest(s)) : Newest(s)[k] = s[k]
<1> DEFINE n == Min({PageMax, Len(s)})
<1>1. Len(s) \in Nat /\ PageMax \in Nat
  BY FeedAssumption
<1>2. n \in {PageMax, Len(s)} /\ n <= PageMax /\ n <= Len(s)
  <2>1. \E x \in {PageMax, Len(s)} : \A y \in {PageMax, Len(s)} : x <= y
    BY <1>1
  <2> QED
    BY <2>1 DEF Min
<1> HIDE DEF n
<1>3. Newest(s) = SubSeq(s, 1, n)
  BY DEF Newest, n
<1> QED
  BY <1>1, <1>2, <1>3

\* A page r is the page prev after the record d came: nothing else is new, ids stay unique,
\* and as many as have other ids at the beginning of prev follow d, if the page is that long.
PutFirst(r, prev, d) ==
    /\ ToSet(r) \subseteq {d} \cup ToSet(prev)
    /\ (\A i, j \in DOMAIN prev : prev[i].id = prev[j].id => i = j)
          => \A i, j \in DOMAIN r : r[i].id = r[j].id => i = j
    /\ \A m \in 0 .. Len(prev) :
          (\A i \in 1 .. m : prev[i].id # d.id) /\ m + 1 <= PageMax
             => /\ m + 1 <= Len(r) /\ r[1] = d
                /\ \A i \in 1 .. m : r[i + 1] = prev[i]

\* What the page shows after a record: it comes first, and what came before it that is not of
\* the same id moves one place down.
LEMMA ShowIs ==
    ASSUME NEW prev \in Seq(DecisionRecord), NEW d \in DecisionRecord
    PROVE  /\ Show(prev, d) \in Seq(DecisionRecord) /\ Len(Show(prev, d)) <= PageMax
           /\ PutFirst(Show(prev, d), prev, d)
<1> DEFINE S == {x \in ToSet(prev) : x.id # d.id}
           rest == Kept(prev, S)
           all == <<d>> \o rest
           r == Show(prev, d)
<1>1. rest \in Seq(DecisionRecord) /\ ToSet(rest) = ToSet(prev) \cap S
  BY KeptAre
<1>2. PICK m : Places(m, rest, prev)
  BY KeptPlaces
<1>3. \A k \in 0 .. Len(prev) :
        (\A i \in 1 .. k : prev[i] \in S)
            => k <= Len(rest) /\ \A i \in 1 .. k : rest[i] = prev[i]
  BY KeptPrefix
<1>4. \A i \in 1 .. Len(prev) : prev[i] \in S <=> prev[i].id # d.id
  BY DEF ToSet
<1>5. /\ DOMAIN prev = 1 .. Len(prev) /\ Len(prev) \in Nat
      /\ \A i \in 1 .. Len(prev) : prev[i] \in DecisionRecord
  OBVIOUS
<1>6. r = Newest(all)
  BY DEF Show
<1> HIDE DEF rest
<1>7. /\ Len(rest) \in Nat /\ all \in Seq(DecisionRecord) /\ Len(all) = Len(rest) + 1
      /\ all[1] = d /\ \A i \in 1 .. Len(rest) : all[i + 1] = rest[i]
      /\ DOMAIN rest = 1 .. Len(rest)
  BY <1>1
<1> HIDE DEF S, all, r
<1>8. /\ r \in Seq(DecisionRecord) /\ Len(r) <= PageMax /\ Len(r) <= Len(rest) + 1
      /\ Len(r) \in Nat /\ DOMAIN r = 1 .. Len(r)
      /\ \A k \in Nat : k <= PageMax /\ k <= Len(rest) + 1 => k <= Len(r)
      /\ \A k \in 1 .. Len(r) : r[k] = all[k]
  BY <1>6, <1>7, NewestIs
<1>9. ASSUME NEW k \in 1 .. Len(r), k # 1
      PROVE  k - 1 \in 1 .. Len(rest) /\ r[k] = rest[k - 1]
  <2>1. k - 1 \in 1 .. Len(rest) /\ (k - 1) + 1 = k
    BY <1>7, <1>8, <1>9
  <2> QED
    BY <1>7, <1>8, <2>1
<1>10. \A k \in 1 .. Len(rest) : rest[k].id # d.id /\ rest[k] \in ToSet(prev)
  <2>1. \A k \in 1 .. Len(rest) : rest[k] \in ToSet(rest)
    BY <1>7 DEF ToSet
  <2>2. \A k \in 1 .. Len(rest) : rest[k] \in ToSet(prev) /\ rest[k] \in S
    BY <1>1, <2>1
  <2> QED
    BY <2>2 DEF S
<1>11. ToSet(r) \subseteq {d} \cup ToSet(prev)
  <2>1. \A k \in 1 .. Len(r) : r[k] \in {d} \cup ToSet(prev)
    <3> SUFFICES ASSUME NEW k \in 1 .. Len(r) PROVE r[k] \in {d} \cup ToSet(prev)
      OBVIOUS
    <3>1. CASE k = 1
      BY <1>7, <1>8, <3>1
    <3>2. CASE k # 1
      BY <1>9, <1>10, <3>2
    <3> QED
      BY <3>1, <3>2
  <2> QED
    BY <1>8, <2>1 DEF ToSet
<1>12. ASSUME \A i, j \in DOMAIN prev : prev[i].id = prev[j].id => i = j
       PROVE  \A i, j \in DOMAIN r : r[i].id = r[j].id => i = j
  <2>1. \A k, l \in 1 .. Len(rest) : rest[k].id = rest[l].id => k = l
    <3> SUFFICES ASSUME NEW k \in 1 .. Len(rest), NEW l \in 1 .. Len(rest),
                        rest[k].id = rest[l].id
                 PROVE  k = l
      OBVIOUS
    <3>1. m[k] = m[l]
      BY <1>2, <1>5, <1>12 DEF Places
    <3>2. m[k] \in Nat /\ (k < l => m[k] < m[l]) /\ (l < k => m[l] < m[k])
      BY <1>2 DEF Places
    <3> QED
      BY <3>1, <3>2
  <2> SUFFICES ASSUME NEW i \in 1 .. Len(r), NEW j \in 1 .. Len(r), r[i].id = r[j].id
               PROVE  i = j
    BY <1>8
  <2>2. CASE i = 1 /\ j # 1
    BY <1>7, <1>8, <1>9, <1>10, <2>2
  <2>3. CASE i # 1 /\ j = 1
    BY <1>7, <1>8, <1>9, <1>10, <2>3
  <2>4. CASE i # 1 /\ j # 1
    <3>1. /\ i - 1 \in 1 .. Len(rest) /\ r[i] = rest[i - 1]
          /\ j - 1 \in 1 .. Len(rest) /\ r[j] = rest[j - 1]
      BY <1>9, <2>4
    <3>2. rest[i - 1].id = rest[j - 1].id
      BY <3>1
    <3>3. i - 1 = j - 1
      BY <2>1, <3>1, <3>2
    <3> QED
      BY <3>3
  <2> QED
    BY <2>2, <2>3, <2>4
<1>13. ASSUME NEW k \in 0 .. Len(prev), \A i \in 1 .. k : prev[i].id # d.id,
              k + 1 <= PageMax
       PROVE  k + 1 <= Len(r) /\ r[1] = d /\ \A i \in 1 .. k : r[i + 1] = prev[i]
  <2>1. \A i \in 1 .. k : i \in 1 .. Len(prev) /\ prev[i] \in S
    BY <1>4, <1>5, <1>13
  <2>2. k <= Len(rest) /\ \A i \in 1 .. k : rest[i] = prev[i]
    BY <1>3, <2>1
  <2>3. k + 1 <= Len(r)
    BY <1>7, <1>8, <1>13, <2>2
  <2>4. r[1] = d
    BY <1>7, <1>8, <2>3
  <2>5. ASSUME NEW i \in 1 .. k
        PROVE  r[i + 1] = prev[i]
    <3>1. i \in 1 .. Len(rest) /\ i + 1 \in 1 .. Len(r)
      BY <1>7, <1>8, <2>2, <2>3
    <3> QED
      BY <1>7, <1>8, <2>2, <3>1
  <2> QED
    BY <2>3, <2>4, <2>5
<1> QED
  BY <1>8, <1>11, <1>12, <1>13 DEF r, PutFirst

\* A list r is a list s without the first k elements.
Dropped(r, s, k) ==
    /\ Len(r) = Len(s) - k
    /\ \A i \in 1 .. Len(r) : r[i] = s[i + k]

\* What the service keeps after a record: all of it, or all but the oldest.
LEMMA ShiftedIs ==
    ASSUME NEW X, NEW s \in Seq(X), Len(s) <= BufferMax, NEW e \in X
    PROVE  /\ Shifted(Append(s, e)) \in Seq(X) /\ Len(Shifted(Append(s, e))) <= BufferMax
           /\ \E k \in 0 .. 1 : Dropped(Shifted(Append(s, e)), Append(s, e), k)
<1>1. /\ Len(s) \in Nat /\ BufferMax \in Nat /\ BufferMax > 0
      /\ Append(s, e) \in Seq(X) /\ Len(Append(s, e)) = Len(s) + 1
  BY FeedAssumption
<1>2. CASE Len(s) + 1 > BufferMax
  <2>1. Shifted(Append(s, e)) = Tail(Append(s, e)) /\ Append(s, e) # <<>>
    BY <1>1, <1>2 DEF Shifted
  <2>2. /\ Shifted(Append(s, e)) \in Seq(X) /\ Len(Shifted(Append(s, e))) = (Len(s) + 1) - 1
        /\ \A i \in 1 .. Len(Shifted(Append(s, e))) :
              Shifted(Append(s, e))[i] = Append(s, e)[i + 1]
    BY <1>1, <2>1
  <2> QED
    BY <1>1, <1>2, <2>2 DEF Dropped
<1>3. CASE ~(Len(s) + 1 > BufferMax)
  <2>1. Shifted(Append(s, e)) = Append(s, e)
    BY <1>1, <1>3 DEF Shifted
  <2>2. /\ Len(Append(s, e)) = (Len(s) + 1) - 0
        /\ \A i \in 1 .. Len(Append(s, e)) : i + 0 = i
    BY <1>1
  <2> QED
    BY <1>1, <1>3, <2>1, <2>2 DEF Dropped
<1> QED
  BY <1>2, <1>3

--------------------------------------------------------------------------------
(* The inductive invariant.                                                 *)

\* The ids of the records the service holds are the last ones it gave, in their order.
IdInv == \A i \in 1 .. Len(buffer) : buffer[i].id = (counter - Len(buffer)) + i

\* What is on its way to the page ends as the buffer ends; without a stream nothing is.
StreamInv ==
    /\ ~subscribed => frames = <<>>
    /\ \A i \in 1 .. Len(buffer), j \in 1 .. Len(frames) :
          Len(buffer) - i = Len(frames) - j => buffer[i] = frames[j]

\* The records of the buffer that are not on their way any more: the page begins with them,
\* newest first. (When more is on its way than the buffer holds, the number is negative.)
Received == Len(buffer) - Len(frames)

SeenInv ==
    subscribed => /\ Received <= Len(page)
                  /\ \A i \in 1 .. Received : page[(Received + 1) - i] = buffer[i]

InPlay == ToSet(buffer) \cup ToSet(frames) \cup ToSet(page)

\* A decision has one record, of a report that is not on its way any more; the page has no id
\* twice.
OnceInv ==
    /\ \A r, s \in InPlay : r.decision = s.decision => r = s
    /\ \A r \in InPlay : r.decision \in reported \ posts
    /\ \A i, j \in DOMAIN page : page[i].id = page[j].id => i = j

FeedInv == TypeOK /\ IdInv /\ StreamInv /\ SeenInv /\ OnceInv

\* The invariant with nothing recorded.
LEMMA FeedInit == Init => FeedInv
<1> SUFFICES ASSUME Init PROVE FeedInv
  OBVIOUS
<1>1. /\ \A X : <<>> \in Seq(X)
      /\ Len(<<>>) = 0 /\ 1 .. 0 = {} /\ DOMAIN <<>> = {} /\ ToSet(<<>>) = {}
  BY DEF ToSet
<1>2. TypeOK
  <2>1. <<>> \in Seq(DecisionRecord)
    BY <1>1
  <2>2. 0 <= BufferMax /\ 0 <= PageMax /\ 0 \in Nat
    BY FeedAssumption
  <2>3. /\ buffer \in Seq(DecisionRecord) /\ Len(buffer) <= BufferMax
        /\ page \in Seq(DecisionRecord) /\ Len(page) <= PageMax
        /\ frames \in Seq(DecisionRecord)
    BY <1>1, <2>1, <2>2, Zenon DEF Init
  <2>4. /\ reported = {} /\ posts = {} /\ up = TRUE /\ subscribed = FALSE
        /\ counter = 0 /\ interrupted = 0
    BY DEF Init
  <2> QED
    BY <2>2, <2>3, <2>4 DEF TypeOK
<1>3. IdInv /\ StreamInv /\ SeenInv /\ OnceInv
  BY <1>1 DEF Init, IdInv, StreamInv, SeenInv, OnceInv, InPlay
<1> QED
  BY <1>2, <1>3 DEF FeedInv

\* What a sequence at hand says of itself, for the steps below.
LEMMA SequencesAre ==
    ASSUME TypeOK
    PROVE  /\ Len(buffer) \in Nat /\ Len(frames) \in Nat /\ Len(page) \in Nat
           /\ DOMAIN buffer = 1 .. Len(buffer) /\ DOMAIN frames = 1 .. Len(frames)
           /\ DOMAIN page = 1 .. Len(page) /\ Received \in Int
           /\ Received <= Len(buffer) /\ counter \in Nat
           /\ BufferMax \in Nat /\ PageMax \in Nat /\ BufferMax <= PageMax
           /\ Len(buffer) <= BufferMax /\ Len(page) <= PageMax
           /\ \A i \in 1 .. Len(buffer) : buffer[i] \in DecisionRecord /\ buffer[i] \in InPlay
           /\ \A i \in 1 .. Len(frames) : frames[i] \in DecisionRecord /\ frames[i] \in InPlay
           /\ \A i \in 1 .. Len(page) : page[i] \in DecisionRecord /\ page[i] \in InPlay
BY FeedAssumption DEF TypeOK, Received, InPlay, ToSet

\* A decision that is recorded was reported and on its way, so it is not in play: its record
\* is a new one. The page's part of the buffer gets shorter by what the service drops.
LEMMA RecordKeeps ==
    ASSUME NEW d \in Decisions, FeedInv, Record(d)
    PROVE  FeedInv'
<1> DEFINE new == [id |-> counter + 1, decision |-> d]
           grown == Append(buffer, new)
<1>1. TypeOK /\ IdInv /\ StreamInv /\ SeenInv /\ OnceInv
  BY DEF FeedInv
<1>2. /\ up /\ d \in posts /\ posts' = posts \ {d} /\ counter' = counter + 1
      /\ buffer' = Shifted(grown)
      /\ frames' = IF subscribed THEN Append(frames, new) ELSE frames
      /\ reported' = reported /\ up' = up /\ subscribed' = subscribed /\ page' = page
      /\ interrupted' = interrupted
  BY DEF Record
<1>3. /\ Len(buffer) \in Nat /\ Len(frames) \in Nat /\ Len(page) \in Nat /\ counter \in Nat
      /\ Len(buffer) <= BufferMax /\ BufferMax \in Nat
      /\ buffer \in Seq(DecisionRecord) /\ frames \in Seq(DecisionRecord)
  BY <1>1, SequencesAre DEF TypeOK
<1>4. new \in DecisionRecord /\ new.id = counter + 1 /\ new.decision = d
  BY <1>3 DEF DecisionRecord
<1> HIDE DEF new
<1>5. /\ buffer' \in Seq(DecisionRecord) /\ Len(buffer') <= BufferMax
      /\ \E k \in 0 .. 1 : Dropped(buffer', grown, k)
  <2>1. /\ Shifted(grown) \in Seq(DecisionRecord) /\ Len(Shifted(grown)) <= BufferMax
        /\ \E k \in 0 .. 1 : Dropped(Shifted(grown), grown, k)
    BY <1>3, <1>4, ShiftedIs
  <2> HIDE DEF grown
  <2> QED
    BY <1>2, <2>1, Zenon
<1>6. PICK k \in 0 .. 1 : /\ Len(buffer') = (Len(buffer) + 1) - k
                          /\ \A i \in 1 .. Len(buffer') : buffer'[i] = grown[i + k]
  <2>1. Len(grown) = Len(buffer) + 1
    BY <1>3, <1>4
  <2> HIDE DEF grown
  <2>2. PICK k \in 0 .. 1 : Dropped(buffer', grown, k)
    BY <1>5
  <2> QED
    BY <2>1, <2>2 DEF Dropped
<1>7. /\ grown[Len(buffer) + 1] = new /\ \A i \in 1 .. Len(buffer) : grown[i] = buffer[i]
  BY <1>3, <1>4
<1> HIDE DEF grown
<1>8. \A i \in 1 .. Len(buffer') :
        \/ i + k = Len(buffer) + 1 /\ buffer'[i] = new
        \/ i + k \in 1 .. Len(buffer) /\ buffer'[i] = buffer[i + k]
  <2> SUFFICES ASSUME NEW i \in 1 .. Len(buffer')
               PROVE  \/ i + k = Len(buffer) + 1 /\ buffer'[i] = new
                      \/ i + k \in 1 .. Len(buffer) /\ buffer'[i] = buffer[i + k]
    OBVIOUS
  <2>1. i + k = Len(buffer) + 1 \/ i + k \in 1 .. Len(buffer)
    BY <1>3, <1>6
  <2>2. buffer'[i] = grown[i + k]
    BY <1>6
  <2> QED
    BY <1>7, <2>1, <2>2
<1>9. /\ frames' \in Seq(DecisionRecord) /\ Len(frames') \in Nat
      /\ subscribed => /\ Len(frames') = Len(frames) + 1 /\ frames'[Len(frames) + 1] = new
                       /\ \A j \in 1 .. Len(frames) : frames'[j] = frames[j]
      /\ ~subscribed => frames' = frames
  BY <1>2, <1>3, <1>4
<1> DEFINE lenB == Len(buffer)
           lenBn == Len(buffer')
           lenF == Len(frames)
           lenFn == Len(frames')
<1>20. /\ lenB \in Nat /\ lenF \in Nat /\ lenFn \in Nat /\ lenBn \in Int
       /\ k \in 0 .. 1 /\ lenBn = (lenB + 1) - k /\ (subscribed => lenFn = lenF + 1)
  BY <1>3, <1>6, <1>9
<1>10. TypeOK'
  BY <1>1, <1>2, <1>3, <1>5, <1>9 DEF TypeOK
<1>11. IdInv'
  <2> SUFFICES ASSUME NEW i \in 1 .. Len(buffer')
               PROVE  buffer'[i].id = (counter' - Len(buffer')) + i
    BY DEF IdInv
  <2>1. CASE i + k = Len(buffer) + 1 /\ buffer'[i] = new
    BY <1>2, <1>3, <1>4, <1>6, <2>1
  <2>2. CASE i + k \in 1 .. Len(buffer) /\ buffer'[i] = buffer[i + k]
    <3>1. buffer[i + k].id = (counter - Len(buffer)) + (i + k)
      BY <1>1, <2>2 DEF IdInv
    <3> QED
      BY <1>2, <1>3, <1>6, <2>2, <3>1
  <2> QED
    BY <1>8, <2>1, <2>2
<1>12. StreamInv'
  <2>1. CASE ~subscribed
    <3>1. frames' = <<>> /\ Len(frames') = 0
      BY <1>1, <1>9, <2>1 DEF StreamInv
    <3> QED
      BY <1>2, <3>1 DEF StreamInv
  <2>2. CASE subscribed
    <3> SUFFICES ASSUME NEW i \in 1 .. Len(buffer'), NEW j \in 1 .. Len(frames'),
                        Len(buffer') - i = Len(frames') - j
                 PROVE  buffer'[i] = frames'[j]
      BY <1>2, <2>2 DEF StreamInv
    <3>1. /\ Len(buffer) - (i + k) = Len(frames) - j
          /\ Len(frames') = Len(frames) + 1
      <4>1. subscribed /\ i \in Int /\ j \in Int /\ lenBn - i = lenFn - j
        BY <1>20, <2>2
      <4> HIDE DEF lenB, lenBn, lenF, lenFn
      <4>2. lenB - (i + k) = lenF - j /\ lenFn = lenF + 1
        BY <1>20, <4>1
      <4> QED
        BY <4>2 DEF lenB, lenF, lenFn
    <3>2. CASE i + k = Len(buffer) + 1 /\ buffer'[i] = new
      <4>1. j = Len(frames) + 1
        <5>1. lenB - (i + k) = lenF - j /\ i + k = lenB + 1 /\ j \in Int
          BY <3>1, <3>2
        <5>2. j = lenF + 1
          <6> HIDE DEF lenB, lenF
          <6> QED
            BY <1>20, <5>1
        <5> QED
          BY <5>2
      <4> QED
        BY <1>9, <2>2, <3>2, <4>1
    <3>3. CASE i + k \in 1 .. Len(buffer) /\ buffer'[i] = buffer[i + k]
      <4>1. j \in 1 .. Len(frames)
        BY <1>3, <3>1, <3>3
      <4> QED
        BY <1>1, <1>9, <2>2, <3>1, <3>3, <4>1 DEF StreamInv
    <3> QED
      BY <1>8, <3>2, <3>3
  <2> QED
    BY <2>1, <2>2
<1>13. SeenInv'
  <2> SUFFICES ASSUME subscribed
               PROVE  /\ Received' <= Len(page)
                      /\ \A i \in 1 .. Received' : page[(Received' + 1) - i] = buffer'[i]
    BY <1>2 DEF SeenInv
  <2>1. /\ Received = Len(buffer) - Len(frames) /\ Received \in Int
        /\ Received' = Received - k /\ Len(buffer') \in Nat
    <3>1. Received = lenB - lenF /\ Received' = lenBn - lenFn
      BY DEF Received
    <3>2. lenBn >= 0
      BY <1>20
    <3> HIDE DEF lenB, lenBn, lenF, lenFn
    <3>3. /\ lenB - lenF \in Int /\ lenBn - lenFn = (lenB - lenF) - k /\ lenBn \in Nat
      BY <1>20, <3>2
    <3>4. Received \in Int /\ Received' = Received - k
      BY <3>1, <3>3
    <3> QED
      BY <3>1, <3>3, <3>4 DEF lenB, lenF, lenBn
  <2>2. /\ Received <= Len(page)
        /\ \A i \in 1 .. Received : page[(Received + 1) - i] = buffer[i]
    BY <1>1 DEF SeenInv
  <2>3. ASSUME NEW i \in 1 .. Received'
        PROVE  page[(Received' + 1) - i] = buffer'[i]
    <3>1. /\ i + k \in 1 .. Received /\ i \in 1 .. Len(buffer')
          /\ i + k \in 1 .. Len(buffer) /\ i + k # Len(buffer) + 1
          /\ (Received' + 1) - i = (Received + 1) - (i + k)
      <4>1. PICK r \in Int : r = Received
        BY <2>1
      <4>2. PICK n \in Nat, m \in Nat : n = Len(buffer) /\ m = Len(frames)
        BY <1>3
      <4>3. /\ k \in 0 .. 1 /\ Received' = r - k /\ r = n - m /\ Len(buffer') = (n + 1) - k
            /\ i \in 1 .. r - k
        BY <1>6, <2>1, <4>1, <4>2
      <4>4. /\ i + k \in 1 .. r /\ i \in 1 .. (n + 1) - k /\ i + k \in 1 .. n
            /\ i + k # n + 1 /\ ((r - k) + 1) - i = (r + 1) - (i + k)
        BY <4>1, <4>2, <4>3
      <4> QED
        BY <4>1, <4>2, <4>3, <4>4
    <3>2. page[(Received + 1) - (i + k)] = buffer[i + k]
      BY <2>2, <3>1
    <3> QED
      BY <1>8, <3>1, <3>2
  <2>4. Received' <= Len(page)
    BY <1>3, <2>1, <2>2
  <2> QED
    BY <2>3, <2>4
<1>14. OnceInv'
  <2>1. InPlay' \subseteq InPlay \cup {new}
    <3>1. /\ DOMAIN buffer' = 1 .. Len(buffer') /\ DOMAIN frames' = 1 .. Len(frames')
      BY <1>5, <1>9
    <3>2. ToSet(buffer') \subseteq InPlay \cup {new}
      <4>1. \A i \in 1 .. Len(buffer') : buffer'[i] \in InPlay \cup {new}
        BY <1>1, <1>8, SequencesAre
      <4> QED
        BY <3>1, <4>1 DEF ToSet
    <3>3. ToSet(frames') \subseteq InPlay \cup {new}
      <4>1. \A j \in 1 .. Len(frames') : frames'[j] \in InPlay \cup {new}
        <5>1. CASE ~subscribed
          BY <1>1, <1>9, <5>1, SequencesAre
        <5>2. CASE subscribed
          <6>1. \A j \in 1 .. Len(frames') : j = Len(frames) + 1 \/ j \in 1 .. Len(frames)
            BY <1>3, <1>9, <5>2
          <6> QED
            BY <1>1, <1>9, <5>2, <6>1, SequencesAre
        <5> QED
          BY <5>1, <5>2
      <4> QED
        BY <3>1, <4>1 DEF ToSet
    <3>4. ToSet(page') \subseteq InPlay
      BY <1>2 DEF InPlay
    <3>5. InPlay' = ToSet(buffer') \cup ToSet(frames') \cup ToSet(page')
      BY DEF InPlay
    <3> QED
      BY <3>2, <3>3, <3>4, <3>5
  <2>2. /\ \A r, s \in InPlay : r.decision = s.decision => r = s
        /\ \A r \in InPlay : r.decision \in reported \ posts
        /\ \A i, j \in DOMAIN page : page[i].id = page[j].id => i = j
    BY <1>1 DEF OnceInv
  <2>3. d \in reported
    BY <1>1, <1>2 DEF TypeOK
  <2>4. \A r \in InPlay : r.decision # d
    BY <1>2, <2>2
  <2>5. \A r, s \in InPlay' : r.decision = s.decision => r = s
    BY <1>4, <2>1, <2>2, <2>4
  <2>6. \A r \in InPlay' : r.decision \in reported' \ posts'
    BY <1>2, <1>4, <2>1, <2>2, <2>3
  <2> QED
    BY <1>2, <2>2, <2>5, <2>6 DEF OnceInv
<1> QED
  BY <1>10, <1>11, <1>12, <1>13, <1>14 DEF FeedInv

\* The page takes the next record: if the buffer still holds it, it is the one after those
\* the page begins with, and none of these has its id.
LEMMA OnMessageKeeps ==
    ASSUME FeedInv, OnMessage
    PROVE  FeedInv'
<1> DEFINE d == Head(frames)
           lenB == Len(buffer)
           lenF == Len(frames)
<1>1. TypeOK /\ IdInv /\ StreamInv /\ SeenInv /\ OnceInv
  BY DEF FeedInv
<1>2. /\ frames # <<>> /\ page' = Show(page, d) /\ frames' = Tail(frames)
      /\ reported' = reported /\ posts' = posts /\ up' = up /\ buffer' = buffer
      /\ counter' = counter /\ subscribed' = subscribed /\ interrupted' = interrupted
  BY DEF OnMessage
<1>3. /\ page \in Seq(DecisionRecord) /\ frames \in Seq(DecisionRecord)
      /\ buffer \in Seq(DecisionRecord) /\ subscribed
  BY <1>1, <1>2 DEF TypeOK, StreamInv
<1>4. /\ d = frames[1] /\ d \in DecisionRecord /\ lenF \in Nat /\ lenF >= 1
      /\ frames' \in Seq(DecisionRecord) /\ Len(frames') = lenF - 1
      /\ \A j \in 1 .. Len(frames') : frames'[j] = frames[j + 1]
      /\ DOMAIN frames' = 1 .. Len(frames')
  BY <1>2, <1>3
<1>5. /\ lenB \in Nat /\ Len(page) \in Nat /\ PageMax \in Nat /\ lenB <= PageMax
      /\ Received = lenB - lenF /\ counter \in Nat
  BY <1>1, SequencesAre DEF Received
<1> HIDE DEF d
<1>6. /\ page' \in Seq(DecisionRecord) /\ Len(page') <= PageMax
      /\ ToSet(page') \subseteq {d} \cup ToSet(page)
      /\ (\A i, j \in DOMAIN page : page[i].id = page[j].id => i = j)
             => \A i, j \in DOMAIN page' : page'[i].id = page'[j].id => i = j
      /\ \A m \in 0 .. Len(page) :
            (\A i \in 1 .. m : page[i].id # d.id) /\ m + 1 <= PageMax
               => /\ m + 1 <= Len(page') /\ page'[1] = d
                  /\ \A i \in 1 .. m : page'[i + 1] = page[i]
  <2>1. /\ page' \in Seq(DecisionRecord) /\ Len(page') <= PageMax
        /\ PutFirst(page', page, d)
    BY <1>2, <1>3, <1>4, ShowIs
  <2> QED
    BY <2>1, Zenon DEF PutFirst
<1>7. TypeOK'
  BY <1>1, <1>2, <1>4, <1>6 DEF TypeOK
<1>8. IdInv'
  BY <1>1, <1>2 DEF IdInv
<1>9. StreamInv'
  <2> SUFFICES ASSUME NEW i \in 1 .. lenB, NEW j \in 1 .. Len(frames'),
                      lenB - i = Len(frames') - j
               PROVE  buffer[i] = frames'[j]
    BY <1>2, <1>3 DEF StreamInv
  <2>1. j + 1 \in 1 .. lenF /\ lenB - i = lenF - (j + 1) /\ frames'[j] = frames[j + 1]
    BY <1>4, <1>5
  <2> QED
    BY <1>1, <2>1 DEF StreamInv
<1>10. SeenInv'
  <2> SUFFICES /\ Received' <= Len(page')
               /\ \A i \in 1 .. Received' : page'[(Received' + 1) - i] = buffer[i]
    BY <1>2 DEF SeenInv
  <2>1. Received' = lenB - Len(frames')
    BY <1>2 DEF Received
  <2>2. Received' = Received + 1 /\ Received \in Int /\ Len(page') \in Nat
    BY <1>4, <1>5, <1>6, <2>1
  <2>3. /\ Received <= Len(page)
        /\ \A i \in 1 .. Received : page[(Received + 1) - i] = buffer[i]
    BY <1>1, <1>3 DEF SeenInv
  <2>4. CASE Received < 0
    BY <2>2, <2>4
  <2>5. CASE Received >= 0
    <3>1. /\ Received \in 0 .. Len(page) /\ Received + 1 \in 1 .. lenB
          /\ lenB - (Received + 1) = lenF - 1 /\ 1 \in 1 .. lenF /\ Received + 1 <= PageMax
      BY <1>4, <1>5, <2>2, <2>3, <2>5
    <3>2. buffer[Received + 1] = d
      BY <1>1, <1>4, <3>1 DEF StreamInv
    <3>3. ASSUME NEW i \in 1 .. Received
          PROVE  page[i].id # d.id
      <4>1. /\ (Received + 1) - i \in 1 .. Received /\ (Received + 1) - i \in 1 .. lenB
            /\ (Received + 1) - ((Received + 1) - i) = i /\ (Received + 1) - i # Received + 1
        BY <2>2, <3>1
      <4>2. page[i] = buffer[(Received + 1) - i]
        BY <2>3, <4>1
      <4>3. /\ buffer[(Received + 1) - i].id = (counter - lenB) + ((Received + 1) - i)
            /\ buffer[Received + 1].id = (counter - lenB) + (Received + 1)
        BY <1>1, <3>1, <4>1 DEF IdInv
      <4>4. (counter - lenB) + ((Received + 1) - i) # (counter - lenB) + (Received + 1)
        BY <1>5, <2>2
      <4> QED
        BY <3>2, <4>2, <4>3, <4>4
    <3>4. /\ Received + 1 <= Len(page') /\ page'[1] = d
          /\ \A i \in 1 .. Received : page'[i + 1] = page[i]
      BY <1>6, <3>1, <3>3
    <3>5. ASSUME NEW i \in 1 .. Received'
          PROVE  page'[(Received' + 1) - i] = buffer[i]
      <4>1. CASE i = Received + 1
        <5>1. (Received' + 1) - i = 1
          BY <2>2, <4>1
        <5> QED
          BY <3>2, <3>4, <4>1, <5>1
      <4>2. CASE i # Received + 1
        <5>1. /\ i \in 1 .. Received /\ (Received + 1) - i \in 1 .. Received
              /\ (Received' + 1) - i = ((Received + 1) - i) + 1
          BY <2>2, <4>2
        <5> QED
          BY <2>3, <3>4, <5>1
      <4> QED
        BY <4>1, <4>2
    <3> QED
      BY <2>2, <3>4, <3>5
  <2> QED
    BY <2>2, <2>4, <2>5
<1>11. OnceInv'
  <2>1. d \in InPlay
    BY <1>1, <1>4, SequencesAre
  <2>2. ToSet(frames') \subseteq InPlay
    <3>1. \A j \in 1 .. Len(frames') : frames'[j] \in InPlay
      <4>1. \A j \in 1 .. Len(frames') : j + 1 \in 1 .. lenF
        BY <1>4
      <4> QED
        BY <1>1, <1>4, <4>1, SequencesAre
    <3> QED
      BY <1>4, <3>1 DEF ToSet
  <2>3. InPlay' \subseteq InPlay
    <3>1. InPlay' = ToSet(buffer) \cup ToSet(frames') \cup ToSet(page')
      BY <1>2 DEF InPlay
    <3>2. ToSet(buffer) \subseteq InPlay /\ ToSet(page) \subseteq InPlay
      BY DEF InPlay
    <3> QED
      BY <1>6, <2>1, <2>2, <3>1, <3>2
  <2> QED
    BY <1>1, <1>2, <1>6, <2>3 DEF OnceInv
<1> QED
  BY <1>7, <1>8, <1>9, <1>10, <1>11 DEF FeedInv

\* The steps that only open or end something: a stream that opens begins with the buffer.
LEMMA InterruptionsKeep ==
    ASSUME FeedInv, Stream \/ ConnectionLost \/ ServiceStops \/ ServiceStarts
    PROVE  FeedInv'
<1>1. TypeOK /\ IdInv /\ StreamInv /\ SeenInv /\ OnceInv
  BY DEF FeedInv
<1>2. /\ <<>> \in Seq(DecisionRecord) /\ Len(<<>>) = 0 /\ 1 .. 0 = {} /\ ToSet(<<>>) = {}
      /\ 0 <= BufferMax /\ 0 <= PageMax /\ 0 \in Nat
  BY FeedAssumption DEF ToSet
<1>3. CASE Stream
  <2>1. /\ up /\ subscribed' = TRUE /\ frames' = buffer /\ buffer' = buffer /\ page' = page
        /\ UNCHANGED <<reported, posts, up, counter, interrupted>>
    BY <1>3 DEF Stream
  <2>2. TypeOK'
    BY <1>1, <2>1 DEF TypeOK
  <2>3. IdInv'
    BY <1>1, <2>1 DEF IdInv
  <2>4. Len(buffer) \in Nat /\ Len(page) \in Nat
    BY <1>1, SequencesAre
  <2>5. StreamInv'
    BY <2>1, <2>4 DEF StreamInv
  <2>6. Received' = 0
    BY <2>1, <2>4 DEF Received
  <2>7. SeenInv'
    BY <2>1, <2>4, <2>6 DEF SeenInv
  <2>8. InPlay' \subseteq InPlay
    BY <2>1 DEF InPlay
  <2>9. OnceInv'
    BY <1>1, <2>1, <2>8 DEF OnceInv
  <2> QED
    BY <2>2, <2>3, <2>5, <2>7, <2>9 DEF FeedInv
<1>4. CASE ConnectionLost
  <2>1. /\ subscribed' = FALSE /\ frames' = <<>> /\ interrupted' = interrupted + 1
        /\ UNCHANGED <<reported, posts, up, buffer, counter, page>>
    BY <1>4 DEF ConnectionLost
  <2>2. TypeOK'
    <3>1. frames' \in Seq(DecisionRecord)
      BY <1>2, <2>1, Zenon
    <3>2. interrupted' \in Nat /\ subscribed' = FALSE
      BY <1>1, <2>1 DEF TypeOK
    <3>3. /\ reported \subseteq Decisions /\ posts \subseteq reported /\ up \in BOOLEAN
          /\ buffer \in Seq(DecisionRecord) /\ Len(buffer) <= BufferMax /\ counter \in Nat
          /\ page \in Seq(DecisionRecord) /\ Len(page) <= PageMax
      BY <1>1 DEF TypeOK
    <3> QED
      BY <2>1, <3>1, <3>2, <3>3, Zenon DEF TypeOK
  <2>3. IdInv'
    BY <1>1, <2>1 DEF IdInv
  <2>4. StreamInv' /\ SeenInv'
    BY <1>2, <2>1 DEF StreamInv, SeenInv
  <2>5. InPlay' \subseteq InPlay
    BY <1>2, <2>1 DEF InPlay
  <2>6. OnceInv'
    BY <1>1, <2>1, <2>5 DEF OnceInv
  <2> QED
    BY <2>2, <2>3, <2>4, <2>6 DEF FeedInv
<1>5. CASE ServiceStops
  <2>1. /\ up' = FALSE /\ buffer' = <<>> /\ counter' = 0 /\ subscribed' = FALSE
        /\ frames' = <<>> /\ interrupted' = interrupted + 1
        /\ UNCHANGED <<reported, posts, page>>
    BY <1>5 DEF ServiceStops
  <2>2. TypeOK'
    <3>1. frames' \in Seq(DecisionRecord) /\ buffer' \in Seq(DecisionRecord)
          /\ Len(buffer') <= BufferMax
      BY <1>2, <2>1, Zenon
    <3>2. interrupted' \in Nat /\ counter' \in Nat /\ subscribed' = FALSE /\ up' = FALSE
      BY <1>1, <2>1 DEF TypeOK
    <3>3. /\ reported \subseteq Decisions /\ posts \subseteq reported
          /\ page \in Seq(DecisionRecord) /\ Len(page) <= PageMax
      BY <1>1 DEF TypeOK
    <3> QED
      BY <2>1, <3>1, <3>2, <3>3, Zenon DEF TypeOK
  <2>3. IdInv' /\ StreamInv' /\ SeenInv'
    BY <1>2, <2>1 DEF IdInv, StreamInv, SeenInv
  <2>4. InPlay' \subseteq InPlay
    BY <1>2, <2>1 DEF InPlay
  <2>5. OnceInv'
    BY <1>1, <2>1, <2>4 DEF OnceInv
  <2> QED
    BY <2>2, <2>3, <2>5 DEF FeedInv
<1>6. CASE ServiceStarts
  <2>1. /\ up' = TRUE
        /\ UNCHANGED <<reported, posts, buffer, counter, subscribed, frames, page, interrupted>>
    BY <1>6 DEF ServiceStarts
  <2>2. TypeOK'
    BY <1>1, <2>1 DEF TypeOK
  <2>3. IdInv' /\ StreamInv'
    <3>1. buffer' = buffer /\ counter' = counter /\ frames' = frames /\ subscribed' = subscribed
      BY <2>1
    <3>2. IdInv'
      BY <1>1, <3>1, Zenon DEF IdInv
    <3>3. StreamInv'
      BY <1>1, <3>1 DEF StreamInv
    <3> QED
      BY <3>2, <3>3
  <2>4. Received' = Received /\ InPlay' = InPlay
    BY <2>1 DEF Received, InPlay
  <2>5. SeenInv' /\ OnceInv'
    BY <1>1, <2>1, <2>4 DEF SeenInv, OnceInv
  <2> QED
    BY <2>2, <2>3, <2>5 DEF FeedInv
<1> QED
  BY <1>3, <1>4, <1>5, <1>6

\* Every step keeps the invariant.
LEMMA FeedStep == FeedInv /\ [Next]_vars => FeedInv'
<1> SUFFICES ASSUME FeedInv, [Next]_vars PROVE FeedInv'
  OBVIOUS
<1>1. TypeOK /\ IdInv /\ StreamInv /\ SeenInv /\ OnceInv
  BY DEF FeedInv
<1>2. ASSUME NEW d \in Decisions, RecordDecision(d)
      PROVE  FeedInv'
  <2>1. /\ d \notin reported /\ reported' = reported \cup {d} /\ posts' = posts \cup {d}
        /\ UNCHANGED <<up, buffer, counter, subscribed, frames, page, interrupted>>
    BY <1>2 DEF RecordDecision
  <2>2. TypeOK'
    BY <1>1, <2>1 DEF TypeOK
  <2>3. IdInv' /\ StreamInv' /\ Received' = Received /\ InPlay' = InPlay
    BY <1>1, <2>1 DEF IdInv, StreamInv, Received, InPlay
  <2>4. SeenInv' /\ OnceInv'
    BY <1>1, <2>1, <2>3 DEF SeenInv, OnceInv
  <2> QED
    BY <2>2, <2>3, <2>4 DEF FeedInv
<1>3. ASSUME NEW d \in Decisions, ReportLost(d)
      PROVE  FeedInv'
  <2>1. /\ posts' = posts \ {d}
        /\ UNCHANGED <<reported, up, buffer, counter, subscribed, frames, page, interrupted>>
    BY <1>3 DEF ReportLost
  <2>2. TypeOK'
    BY <1>1, <2>1 DEF TypeOK
  <2>3. IdInv' /\ StreamInv' /\ Received' = Received /\ InPlay' = InPlay
    BY <1>1, <2>1 DEF IdInv, StreamInv, Received, InPlay
  <2>4. SeenInv' /\ OnceInv'
    BY <1>1, <2>1, <2>3 DEF SeenInv, OnceInv
  <2> QED
    BY <2>2, <2>3, <2>4 DEF FeedInv
<1>4. ASSUME UNCHANGED vars
      PROVE  FeedInv'
  <2>1. UNCHANGED <<reported, posts, up, buffer, counter, subscribed, frames, page, interrupted>>
    BY <1>4 DEF vars
  <2>2. TypeOK'
    BY <1>1, <2>1 DEF TypeOK
  <2>3. IdInv' /\ StreamInv' /\ Received' = Received /\ InPlay' = InPlay
    BY <1>1, <2>1 DEF IdInv, StreamInv, Received, InPlay
  <2>4. SeenInv' /\ OnceInv'
    BY <1>1, <2>1, <2>3 DEF SeenInv, OnceInv
  <2> QED
    BY <2>2, <2>3, <2>4 DEF FeedInv
<1>5. Next => \/ \E d \in Decisions : RecordDecision(d) \/ ReportLost(d) \/ Record(d)
              \/ Stream \/ ConnectionLost \/ ServiceStops \/ ServiceStarts \/ OnMessage
  BY DEF Next
<1> QED
  BY <1>2, <1>3, <1>4, <1>5, RecordKeeps, OnMessageKeeps, InterruptionsKeep

--------------------------------------------------------------------------------
(* What the page promises.                                                  *)

\* The invariant of the log and the page: the types of what the extension, the service and
\* the page hold, and where the page stands in what the service has sent.
THEOREM AlwaysFed == Spec => []FeedInv
<1> QED
  BY FeedInit, FeedStep, PTL DEF Spec

\* The ring buffer and the page never grow over their limits and hold records of decisions;
\* only a service that runs has a stream (decisions.ts 38-57, page.tsx 40-42).
THEOREM FeedTypeCorrect == Spec => []TypeOK
<1>1. FeedInv => TypeOK
  BY DEF FeedInv
<1> QED
  BY <1>1, AlwaysFed, PTL

\* A page that has received all it was sent begins with the records of the service, newest
\* first, after any number of breaks, replays and restarts (page.tsx 37-46).
THEOREM AlwaysCaughtUp == Spec => []CaughtUp
<1>1. FeedInv => CaughtUp
  <2> SUFFICES ASSUME FeedInv, Quiet PROVE IsPrefix(Reverse(buffer), page)
    BY DEF CaughtUp
  <2>1. TypeOK /\ SeenInv /\ subscribed /\ frames = <<>>
    BY DEF FeedInv, Quiet
  <2>2. /\ Len(buffer) \in Nat /\ Len(page) \in Nat /\ buffer \in Seq(DecisionRecord)
        /\ page \in Seq(DecisionRecord)
    BY <2>1, SequencesAre DEF TypeOK
  <2>3. Received = Len(buffer)
    BY <2>1, <2>2 DEF Received
  <2>4. /\ Len(buffer) <= Len(page)
        /\ \A i \in 1 .. Len(buffer) : page[(Len(buffer) + 1) - i] = buffer[i]
    BY <2>1, <2>3 DEF SeenInv
  <2>5. \A i \in 1 .. Len(buffer) : buffer[(Len(buffer) + 1) - i] = page[i]
    <3> SUFFICES ASSUME NEW i \in 1 .. Len(buffer)
                 PROVE  buffer[(Len(buffer) + 1) - i] = page[i]
      OBVIOUS
    <3>1. /\ (Len(buffer) + 1) - i \in 1 .. Len(buffer)
          /\ (Len(buffer) + 1) - ((Len(buffer) + 1) - i) = i
      BY <2>2
    <3> QED
      BY <2>4, <3>1
  <2>6. Reverse(buffer) = [i \in 1 .. Len(buffer) |-> page[i]]
    <3>1. Reverse(buffer) = [i \in 1 .. Len(buffer) |-> buffer[(Len(buffer) - i) + 1]]
      BY DEF Reverse
    <3>2. \A i \in 1 .. Len(buffer) : (Len(buffer) - i) + 1 = (Len(buffer) + 1) - i
      BY <2>2
    <3> QED
      BY <2>5, <3>1, <3>2
  <2>7. Len(Reverse(buffer)) = Len(buffer)
    BY <2>2, <2>6
  <2>8. SubSeq(page, 1, Len(buffer)) = [i \in 1 .. Len(buffer) |-> page[i]]
    BY <2>2, <2>4
  <2> QED
    BY <2>2, <2>4, <2>6, <2>7, <2>8 DEF IsPrefix
<1> QED
  BY <1>1, AlwaysFed, PTL

\* No decision is on the page twice, however often the service replays its records and gives
\* ids again (page.tsx 40-42).
THEOREM AlwaysShownOnce == Spec => []ShownOnce
<1>1. FeedInv => ShownOnce
  <2> SUFFICES ASSUME FeedInv, NEW i \in DOMAIN page, NEW j \in DOMAIN page,
                      page[i].decision = page[j].decision
               PROVE  i = j
    BY DEF ShownOnce
  <2>1. OnceInv /\ page[i] \in InPlay /\ page[j] \in InPlay
    BY SequencesAre DEF FeedInv
  <2> QED
    BY <2>1 DEF OnceInv
<1> QED
  BY <1>1, AlwaysFed, PTL

-----------------------------------------------------------------------------
\* At most Limit elements of a list, the first ones.
LEMMA UpToLimitIs ==
    ASSUME NEW X, NEW s \in Seq(X)
    PROVE  /\ UpToLimit(s) \in Seq(X)
           /\ Len(UpToLimit(s)) \in Nat /\ Len(UpToLimit(s)) <= Len(s)
           /\ Len(UpToLimit(s)) = Len(s) \/ Len(UpToLimit(s)) = Limit
           /\ Len(UpToLimit(s)) <= Limit
           /\ \A k \in 1 .. Len(UpToLimit(s)) : UpToLimit(s)[k] = s[k]
<1> DEFINE n == IF Len(s) < Limit THEN Len(s) ELSE Limit
<1>1. Len(s) \in Nat /\ Limit \in Nat /\ Limit > 0
  BY SnapshotAssumption
<1>2. n \in Nat /\ n <= Len(s) /\ n <= Limit /\ (n = Len(s) \/ n = Limit)
  BY <1>1
<1>3. UpToLimit(s) = SubSeq(s, 1, n)
  BY DEF UpToLimit
<1> HIDE DEF n
<1>4. /\ SubSeq(s, 1, n) \in Seq(X) /\ Len(SubSeq(s, 1, n)) = n
      /\ \A k \in 1 .. n : SubSeq(s, 1, n)[k] = s[k]
  BY <1>1, <1>2
<1> QED
  BY <1>2, <1>3, <1>4

\* The elements of a list are those at its places.
LEMMA Elements ==
    ASSUME NEW X, NEW s \in Seq(X)
    PROVE  /\ DOMAIN s = 1 .. Len(s) /\ Len(s) \in Nat
           /\ \A i \in 1 .. Len(s) : s[i] \in ToSet(s) /\ s[i] \in X
           /\ \A x \in ToSet(s) : x \in X /\ \E i \in 1 .. Len(s) : s[i] = x
  BY DEF ToSet

Descending(q) == \A i, j \in 1 .. Len(q) : i < j => q[i] > q[j]

\* A query gives the newest that match: one that is not among them is older than them all,
\* and they are Limit.
LEMMA QueryIs ==
    ASSUME NEW n \in Nat, n = Len(ledger), NEW M, M \subseteq 1 .. n
    PROVE  /\ Query(M) \in Seq(1 .. n) /\ Descending(Query(M))
           /\ \A d \in M : \/ d \in ToSet(Query(M))
                           \/ /\ Len(Query(M)) = Limit
                              /\ \A k \in 1 .. Len(Query(M)) : Query(M)[k] > d
<1> DEFINE upwards == [i \in 1 .. Len(ledger) |-> i]
           rev == Reverse(upwards)
           newest == Kept(rev, M)
           q == Query(M)
<1>1. upwards \in Seq(1 .. n) /\ Len(upwards) = n /\ \A i \in 1 .. n : upwards[i] = i
  OBVIOUS
<1>2. rev \in Seq(1 .. n) /\ Len(rev) = n /\ \A k \in 1 .. n : rev[k] = n - k + 1
  <2> HIDE DEF upwards
  <2>1. rev = [k \in 1 .. n |-> upwards[n - k + 1]]
    BY <1>1 DEF Reverse
  <2>2. \A k \in 1 .. n : n - k + 1 \in 1 .. n
    OBVIOUS
  <2>3. \A k \in 1 .. n : rev[k] = n - k + 1
    BY <1>1, <2>1, <2>2
  <2> QED
    BY <2>1, <2>2, <2>3
<1>3. q = UpToLimit(newest)
  BY DEF Query
<1> HIDE DEF rev
<1>4. /\ newest \in Seq(1 .. n) /\ ToSet(newest) = ToSet(rev) \cap M
  BY <1>2, KeptAre
<1>5. Descending(newest)
  <2>1. PICK m : Places(m, newest, rev)
    BY <1>2, KeptPlaces
  <2>2. Len(newest) \in Nat
    BY <1>4
  <2> HIDE DEF newest
  <2> SUFFICES ASSUME NEW i \in 1 .. Len(newest), NEW j \in 1 .. Len(newest), i < j
               PROVE  newest[i] > newest[j]
    BY DEF Descending
  <2>3. /\ m[i] \in 1 .. n /\ m[j] \in 1 .. n /\ m[i] < m[j]
        /\ newest[i] = rev[m[i]] /\ newest[j] = rev[m[j]]
    BY <1>2, <2>1, <2>2 DEF Places
  <2>4. newest[i] = n - m[i] + 1 /\ newest[j] = n - m[j] + 1
    BY <1>2, <2>3
  <2>5. PICK a \in 1 .. n, e \in 1 .. n : a = m[i] /\ e = m[j]
    BY <2>3
  <2>6. n - a + 1 > n - e + 1
    BY <2>3, <2>5
  <2> QED
    BY <2>4, <2>5, <2>6
<1> HIDE DEF newest, q
<1>6. /\ q \in Seq(1 .. n) /\ Len(q) \in Nat /\ Len(q) <= Len(newest)
      /\ Len(q) = Len(newest) \/ Len(q) = Limit
      /\ \A k \in 1 .. Len(q) : q[k] = newest[k]
  BY <1>3, <1>4, UpToLimitIs
<1>7. Len(newest) \in Nat /\ \A k \in 1 .. Len(newest) : newest[k] \in 1 .. n
  BY <1>4
<1>8. Descending(q)
  BY <1>5, <1>6, <1>7 DEF Descending
<1>9. ASSUME NEW d \in M
      PROVE  \/ d \in ToSet(q)
             \/ Len(q) = Limit /\ \A k \in 1 .. Len(q) : q[k] > d
  <2>1. d \in 1 .. n
    OBVIOUS
  <2>2. d \in ToSet(rev)
    <3>1. n - d + 1 \in 1 .. n /\ rev[n - d + 1] = d
      BY <1>2, <2>1
    <3> QED
      BY <1>2, <3>1, Elements
  <2>3. PICK p \in 1 .. Len(newest) : newest[p] = d
    BY <1>4, <2>2, Elements
  <2>4. CASE p <= Len(q)
    <3>1. p \in 1 .. Len(q) /\ q[p] = d
      BY <1>6, <1>7, <2>3, <2>4
    <3> QED
      BY <1>6, <3>1, Elements
  <2>5. CASE p > Len(q)
    <3>1. Len(q) = Limit
      BY <1>6, <1>7, <2>5
    <3>2. ASSUME NEW k \in 1 .. Len(q)
          PROVE  q[k] > d
      <4>1. k \in 1 .. Len(newest) /\ k < p
        BY <1>6, <1>7, <2>5
      <4> QED
        BY <1>5, <1>6, <2>3, <4>1 DEF Descending
    <3> QED
      BY <3>1, <3>2
  <2> QED
    BY <1>6, <1>7, <2>4, <2>5
<1> QED
  BY <1>6, <1>8, <1>9 DEF q

\* A list of blocks that has no digest twice.
Distinct(b) == \A i, j \in 1 .. Len(b) : b[i].digest = b[j].digest => i = j

\* The digests of a list of blocks are those at its places.
LEMMA DigestsAre ==
    ASSUME NEW X, NEW s \in Seq(X)
    PROVE  /\ \A i \in 1 .. Len(s) : s[i].digest \in Digests(s)
           /\ \A d \in Digests(s) : \E i \in 1 .. Len(s) : s[i].digest = d
<1>1. DOMAIN s = 1 .. Len(s)
  OBVIOUS
<1> QED
  BY <1>1 DEF Digests

\* Both queries' blocks, each digest once.
LEMMA BlocksAre ==
    ASSUME NEW D, NEW o \in Seq(D), NEW i \in Seq(D), Distinct(o), Distinct(i)
    PROVE  /\ BlocksByDigest(o, i) \in Seq(D) /\ Distinct(BlocksByDigest(o, i))
           /\ Digests(BlocksByDigest(o, i)) = Digests(o) \cup Digests(i)
           /\ ToSet(BlocksByDigest(o, i)) \subseteq ToSet(o) \cup ToSet(i)
<1> DEFINE S == {x \in ToSet(i) : x.digest \notin Digests(o)}
           k == Kept(i, S)
           b == o \o k
<1>1. b = BlocksByDigest(o, i)
  BY DEF BlocksByDigest
<1>2. /\ Len(o) \in Nat /\ DOMAIN o = 1 .. Len(o) /\ \A x \in 1 .. Len(o) : o[x] \in D
      /\ Len(i) \in Nat /\ DOMAIN i = 1 .. Len(i) /\ \A x \in 1 .. Len(i) : i[x] \in D
  OBVIOUS
<1>3. IsInjective(i)
  BY <1>2 DEF IsInjective, Distinct
<1>4. k \in Seq(D) /\ ToSet(k) = ToSet(i) \cap S /\ IsInjective(k)
  <2> HIDE DEF S
  <2> QED
    BY <1>3, KeptAre
<1> HIDE DEF k
<1>5. Len(k) \in Nat /\ DOMAIN k = 1 .. Len(k) /\ \A x \in 1 .. Len(k) : k[x] \in D
  BY <1>4
<1>6. \A x \in 1 .. Len(k) : k[x].digest \notin Digests(o)
                             /\ \E y \in 1 .. Len(i) : k[x] = i[y]
  <2> SUFFICES ASSUME NEW x \in 1 .. Len(k)
               PROVE  k[x].digest \notin Digests(o) /\ \E y \in 1 .. Len(i) : k[x] = i[y]
    OBVIOUS
  <2>1. k[x] \in ToSet(k)
    BY <1>5 DEF ToSet
  <2>2. k[x] \in S /\ k[x] \in ToSet(i)
    BY <1>4, <2>1
  <2> QED
    BY <1>2, <2>2 DEF ToSet
<1>7. Distinct(k)
  <2> SUFFICES ASSUME NEW x \in 1 .. Len(k), NEW y \in 1 .. Len(k), k[x].digest = k[y].digest
               PROVE  x = y
    BY DEF Distinct
  <2>1. PICK p \in 1 .. Len(i), q \in 1 .. Len(i) : k[x] = i[p] /\ k[y] = i[q]
    BY <1>6
  <2>2. k[x] = k[y]
    BY <2>1 DEF Distinct
  <2> QED
    BY <1>4, <1>5, <2>2 DEF IsInjective
<1>8. /\ b \in Seq(D) /\ Len(b) = Len(o) + Len(k) /\ DOMAIN b = 1 .. Len(o) + Len(k)
      /\ \A x \in 1 .. Len(o) : b[x] = o[x]
      /\ \A x \in 1 .. Len(k) : b[Len(o) + x] = k[x]
  BY <1>2, <1>4, <1>5
<1> HIDE DEF b
<1>9. \A x \in 1 .. Len(b) : \/ x \in 1 .. Len(o) /\ b[x] = o[x]
                             \/ x - Len(o) \in 1 .. Len(k) /\ b[x] = k[x - Len(o)]
  <2> SUFFICES ASSUME NEW x \in 1 .. Len(b)
               PROVE  \/ x \in 1 .. Len(o) /\ b[x] = o[x]
                      \/ x - Len(o) \in 1 .. Len(k) /\ b[x] = k[x - Len(o)]
    OBVIOUS
  <2>1. CASE x <= Len(o)
    BY <1>2, <1>8, <2>1
  <2>2. CASE x > Len(o)
    <3>1. x - Len(o) \in 1 .. Len(k) /\ Len(o) + (x - Len(o)) = x
      BY <1>2, <1>5, <1>8, <2>2
    <3> QED
      BY <1>8, <3>1
  <2> QED
    BY <1>2, <1>8, <2>1, <2>2
<1>10. /\ \A x \in 1 .. Len(o) : x \in 1 .. Len(b) /\ b[x] = o[x]
       /\ \A x \in 1 .. Len(k) : Len(o) + x \in 1 .. Len(b) /\ b[Len(o) + x] = k[x]
  BY <1>2, <1>5, <1>8
<1>11. Digests(b) = Digests(o) \cup Digests(k)
  <2>1. Digests(b) \subseteq Digests(o) \cup Digests(k)
    <3> SUFFICES ASSUME NEW d \in Digests(b)
                 PROVE  d \in Digests(o) \cup Digests(k)
      OBVIOUS
    <3>1. PICK x \in 1 .. Len(b) : b[x].digest = d
      BY <1>8, DigestsAre
    <3>2. CASE x \in 1 .. Len(o) /\ b[x] = o[x]
      BY <3>1, <3>2, DigestsAre
    <3>3. CASE x - Len(o) \in 1 .. Len(k) /\ b[x] = k[x - Len(o)]
      BY <1>4, <3>1, <3>3, DigestsAre
    <3> QED
      BY <1>9, <3>2, <3>3
  <2>2. Digests(o) \subseteq Digests(b)
    BY <1>2, <1>8, <1>10 DEF Digests
  <2>3. Digests(k) \subseteq Digests(b)
    <3> SUFFICES ASSUME NEW x \in 1 .. Len(k)
                 PROVE  k[x].digest \in Digests(b)
      BY <1>5 DEF Digests
    <3>1. b[Len(o) + x].digest \in Digests(b)
      BY <1>8, <1>10, DigestsAre
    <3> QED
      BY <1>10, <3>1
  <2> QED
    BY <2>1, <2>2, <2>3
<1>12. Digests(k) = Digests(i) \ Digests(o)
  <2>1. ASSUME NEW d \in Digests(i), d \notin Digests(o)
        PROVE  d \in Digests(k)
    <3>1. PICK y \in 1 .. Len(i) : i[y].digest = d
      BY <1>2 DEF Digests
    <3>2. i[y] \in ToSet(i)
      BY <1>2 DEF ToSet
    <3>3. i[y] \in ToSet(k)
      BY <1>4, <2>1, <3>1, <3>2
    <3>4. PICK x \in 1 .. Len(k) : k[x] = i[y]
      BY <1>5, <3>3 DEF ToSet
    <3> QED
      BY <1>5, <3>1, <3>4 DEF Digests
  <2>2. Digests(k) \subseteq Digests(i) \ Digests(o)
    <3> SUFFICES ASSUME NEW x \in 1 .. Len(k)
                 PROVE  k[x].digest \in Digests(i) \ Digests(o)
      BY <1>5 DEF Digests
    <3>1. PICK y \in 1 .. Len(i) : k[x] = i[y]
      BY <1>6
    <3> QED
      BY <1>2, <1>6, <3>1 DEF Digests
  <2> QED
    BY <2>1, <2>2
<1>13. ToSet(b) \subseteq ToSet(o) \cup ToSet(i)
  <2> SUFFICES ASSUME NEW x \in 1 .. Len(b)
               PROVE  b[x] \in ToSet(o) \cup ToSet(i)
    BY <1>8 DEF ToSet
  <2>1. CASE x \in 1 .. Len(o) /\ b[x] = o[x]
    BY <1>2, <2>1 DEF ToSet
  <2>2. CASE x - Len(o) \in 1 .. Len(k) /\ b[x] = k[x - Len(o)]
    BY <1>2, <1>6, <2>2 DEF ToSet
  <2> QED
    BY <1>9, <2>1, <2>2
<1>14. Distinct(b)
  <2> SUFFICES ASSUME NEW x \in 1 .. Len(b), NEW y \in 1 .. Len(b), b[x].digest = b[y].digest
               PROVE  x = y
    BY DEF Distinct
  <2>1. \A z \in 1 .. Len(o) : o[z].digest \in Digests(o)
    BY <1>2 DEF Digests
  <2>2. \A z, w \in 1 .. Len(o) : o[z].digest = o[w].digest => z = w
    BY DEF Distinct
  <2>3. \A z, w \in 1 .. Len(k) : k[z].digest = k[w].digest => z = w
    BY <1>7 DEF Distinct
  <2>4. CASE x \in 1 .. Len(o) /\ b[x] = o[x]
    <3>1. y \in 1 .. Len(o) /\ b[y] = o[y]
      BY <1>6, <1>9, <2>1, <2>4, SMTT(30)
    <3> QED
      BY <2>2, <2>4, <3>1
  <2>5. CASE x - Len(o) \in 1 .. Len(k) /\ b[x] = k[x - Len(o)]
    <3>1. y - Len(o) \in 1 .. Len(k) /\ b[y] = k[y - Len(o)]
      BY <1>6, <1>9, <2>1, <2>5, SMTT(30)
    <3>2. x - Len(o) = y - Len(o)
      BY <2>3, <2>5, <3>1
    <3> QED
      BY <1>2, <1>8, <3>2
  <2> QED
    BY <1>9, <2>4, <2>5
<1> QED
  BY <1>1, <1>8, <1>11, <1>12, <1>13, <1>14

\* The rows that are shown before row i.
RowsBefore(b, i) == {j \in 1 .. Len(b) : GoesBefore(b, j, i)}

\* The blocks stand in a line: of two, one goes before the other.
LEMMA LineUp ==
    ASSUME NEW b \in Seq(TransactionBlock)
    PROVE  /\ \A i \in 1 .. Len(b) : b[i].timestampMs \in Nat
           /\ \A i \in 1 .. Len(b) : ~GoesBefore(b, i, i)
           /\ \A i, j \in 1 .. Len(b) : i # j => GoesBefore(b, i, j) \/ GoesBefore(b, j, i)
           /\ \A i, j, k \in 1 .. Len(b) :
                 GoesBefore(b, i, j) /\ GoesBefore(b, j, k) => GoesBefore(b, i, k)
           /\ \A i, j \in 1 .. Len(b) :
                 GoesBefore(b, i, j) => b[i].timestampMs >= b[j].timestampMs
<1> DEFINE t(i) == b[i].timestampMs
<1>1. \A i \in 1 .. Len(b) : t(i) \in Nat
  <2> SUFFICES ASSUME NEW i \in 1 .. Len(b) PROVE t(i) \in Nat
    OBVIOUS
  <2>1. b[i] \in TransactionBlock
    OBVIOUS
  <2> QED
    BY <2>1 DEF TransactionBlock
<1>2. \A i, j : GoesBefore(b, i, j) <=> t(i) > t(j) \/ (t(i) = t(j) /\ i < j)
  BY DEF GoesBefore
<1> HIDE DEF t
<1>3. Len(b) \in Nat
  OBVIOUS
<1>4. /\ \A i \in 1 .. Len(b) : ~GoesBefore(b, i, i)
      /\ \A i, j \in 1 .. Len(b) : i # j => GoesBefore(b, i, j) \/ GoesBefore(b, j, i)
  <2>1. ASSUME NEW i \in 1 .. Len(b), NEW j \in 1 .. Len(b)
        PROVE  ~GoesBefore(b, i, i) /\ (i # j => GoesBefore(b, i, j) \/ GoesBefore(b, j, i))
    <3>1. t(i) \in Nat /\ t(j) \in Nat /\ i \in Int /\ j \in Int
      BY <1>1, <1>3
    <3>2. /\ GoesBefore(b, i, i) <=> t(i) > t(i) \/ (t(i) = t(i) /\ i < i)
          /\ GoesBefore(b, i, j) <=> t(i) > t(j) \/ (t(i) = t(j) /\ i < j)
          /\ GoesBefore(b, j, i) <=> t(j) > t(i) \/ (t(j) = t(i) /\ j < i)
      BY <1>2
    <3> QED
      BY <3>1, <3>2
  <2> QED
    BY <2>1
<1>5. \A i, j, k \in 1 .. Len(b) :
         GoesBefore(b, i, j) /\ GoesBefore(b, j, k) => GoesBefore(b, i, k)
  <2> SUFFICES ASSUME NEW i \in 1 .. Len(b), NEW j \in 1 .. Len(b), NEW k \in 1 .. Len(b),
                      GoesBefore(b, i, j), GoesBefore(b, j, k)
               PROVE  GoesBefore(b, i, k)
    OBVIOUS
  <2>1. PICK x \in Nat, y \in Nat, z \in Nat : x = t(i) /\ y = t(j) /\ z = t(k)
    BY <1>1
  <2>2. /\ x > y \/ (x = y /\ i < j)
        /\ y > z \/ (y = z /\ j < k)
    BY <1>2, <2>1
  <2>3. i \in Nat /\ j \in Nat /\ k \in Nat
    OBVIOUS
  <2>4. x > z \/ (x = z /\ i < k)
    BY <2>1, <2>2, <2>3
  <2> QED
    BY <1>2, <2>1, <2>4
<1>6. \A i, j \in 1 .. Len(b) : GoesBefore(b, i, j) => t(i) >= t(j)
  BY <1>1, <1>2
<1> QED
  BY <1>1, <1>4, <1>5, <1>6 DEF t

\* Each block has a place of its own, behind those of the blocks that go before it.
LEMMA PlacesAre ==
    ASSUME NEW b \in Seq(TransactionBlock)
    PROVE  /\ \A i \in 1 .. Len(b) : Place(b, i) \in 1 .. Len(b)
           /\ \A i \in 1 .. Len(b) : /\ IsFiniteSet(RowsBefore(b, i))
                                     /\ Place(b, i) = 1 + Cardinality(RowsBefore(b, i))
           /\ \A i, j \in 1 .. Len(b) : GoesBefore(b, i, j) <=> Place(b, i) < Place(b, j)
           /\ \A i, j \in 1 .. Len(b) : Place(b, i) = Place(b, j) => i = j
           /\ \A m \in 1 .. Len(b) : \E i \in 1 .. Len(b) : Place(b, i) = m
<1> DEFINE N == Len(b)
           R(i) == RowsBefore(b, i)
<1>1. N \in Nat /\ DOMAIN b = 1 .. N /\ IsFiniteSet(1 .. N) /\ Cardinality(1 .. N) = N
  <2>1. N \in Nat /\ DOMAIN b = 1 .. N
    OBVIOUS
  <2> HIDE DEF N
  <2>2. IsFiniteSet(1 .. N) /\ Cardinality(1 .. N) = IF 1 > N THEN 0 ELSE N - 1 + 1
    BY <2>1, FS_Interval
  <2> QED
    BY <2>1, <2>2
<1>2. \A i \in 1 .. N : Place(b, i) = 1 + Cardinality(R(i))
  BY <1>1 DEF Place, RowsBefore
<1>3. /\ \A i \in 1 .. N : ~GoesBefore(b, i, i)
      /\ \A i, j \in 1 .. N : i # j => GoesBefore(b, i, j) \/ GoesBefore(b, j, i)
      /\ \A i, j, k \in 1 .. N :
            GoesBefore(b, i, j) /\ GoesBefore(b, j, k) => GoesBefore(b, i, k)
  BY LineUp
<1>4. \A i, j : j \in R(i) <=> j \in 1 .. N /\ GoesBefore(b, j, i)
  BY DEF RowsBefore
<1> HIDE DEF N, R
<1>5. ASSUME NEW i \in 1 .. N
      PROVE  /\ IsFiniteSet(R(i)) /\ Cardinality(R(i)) \in Nat
             /\ Cardinality(R(i)) < N
  <2>1. R(i) \in SUBSET (1 .. N) /\ i \notin R(i)
    BY <1>3, <1>4
  <2>2. IsFiniteSet(R(i)) /\ Cardinality(R(i)) <= Cardinality(1 .. N) /\ R(i) # 1 .. N
    BY <1>1, <2>1, FS_Subset
  <2>3. Cardinality(1 .. N) = Cardinality(R(i)) => 1 .. N = R(i)
    BY <1>1, <2>1, FS_Subset
  <2>4. Cardinality(R(i)) \in Nat
    BY <2>2, FS_CardinalityType
  <2> QED
    BY <1>1, <2>2, <2>3, <2>4
<1>6. ASSUME NEW i \in 1 .. N, NEW j \in 1 .. N, GoesBefore(b, i, j)
      PROVE  Cardinality(R(i)) < Cardinality(R(j))
  <2>1. R(i) \in SUBSET R(j) /\ i \in R(j) /\ i \notin R(i)
    BY <1>3, <1>4, <1>6
  <2>2. IsFiniteSet(R(j)) /\ Cardinality(R(j)) \in Nat /\ Cardinality(R(i)) \in Nat
    BY <1>5
  <2>3. Cardinality(R(i)) <= Cardinality(R(j))
    BY <2>1, <2>2, FS_Subset
  <2>4. Cardinality(R(j)) = Cardinality(R(i)) => R(j) = R(i)
    BY <2>1, <2>2, FS_Subset
  <2> QED
    BY <2>1, <2>2, <2>3, <2>4
<1>7. \A i \in 1 .. N : Place(b, i) \in 1 .. N
  <2> SUFFICES ASSUME NEW i \in 1 .. N PROVE Place(b, i) \in 1 .. N
    OBVIOUS
  <2>1. Cardinality(R(i)) \in Nat /\ Cardinality(R(i)) < N
    BY <1>5
  <2>2. Place(b, i) = 1 + Cardinality(R(i))
    BY <1>2
  <2> QED
    BY <1>1, <2>1, <2>2
<1>8. \A i, j \in 1 .. N : GoesBefore(b, i, j) => Place(b, i) < Place(b, j)
  <2> SUFFICES ASSUME NEW i \in 1 .. N, NEW j \in 1 .. N, GoesBefore(b, i, j)
               PROVE  Place(b, i) < Place(b, j)
    OBVIOUS
  <2>1. Cardinality(R(i)) < Cardinality(R(j))
    BY <1>6
  <2>2. Cardinality(R(i)) \in Nat /\ Cardinality(R(j)) \in Nat
    BY <1>5
  <2>3. Place(b, i) = 1 + Cardinality(R(i)) /\ Place(b, j) = 1 + Cardinality(R(j))
    BY <1>2
  <2> QED
    BY <2>1, <2>2, <2>3
<1>9. \A i, j \in 1 .. N : Place(b, i) = Place(b, j) => i = j
  <2> SUFFICES ASSUME NEW i \in 1 .. N, NEW j \in 1 .. N, Place(b, i) = Place(b, j), i # j
               PROVE  FALSE
    OBVIOUS
  <2>1. GoesBefore(b, i, j) \/ GoesBefore(b, j, i)
    BY <1>3
  <2>2. Place(b, i) < Place(b, j) \/ Place(b, j) < Place(b, i)
    BY <1>8, <2>1
  <2>3. Place(b, i) \in 1 .. N /\ Place(b, j) \in 1 .. N
    BY <1>7
  <2> QED
    BY <1>1, <2>2, <2>3
<1>10. \A i, j \in 1 .. N : GoesBefore(b, i, j) <=> Place(b, i) < Place(b, j)
  <2> SUFFICES ASSUME NEW i \in 1 .. N, NEW j \in 1 .. N, Place(b, i) < Place(b, j)
               PROVE  GoesBefore(b, i, j)
    BY <1>8
  <2>1. Place(b, i) \in 1 .. N /\ Place(b, j) \in 1 .. N
    BY <1>7
  <2>2. i # j /\ ~(Place(b, j) < Place(b, i))
    BY <1>1, <2>1
  <2>3. ~GoesBefore(b, j, i)
    BY <1>8, <2>2
  <2> QED
    BY <1>3, <2>2, <2>3
<1>11. \A m \in 1 .. N : \E i \in 1 .. N : Place(b, i) = m
  <2> DEFINE f == [i \in 1 .. N |-> Place(b, i)]
  <2>1. f \in [1 .. N -> 1 .. N] /\ \A i \in 1 .. N : f[i] = Place(b, i)
    BY <1>7
  <2> HIDE DEF f
  <2>2. f \in Injection(1 .. N, 1 .. N)
    BY <1>9, <2>1 DEF Injection, IsInjective
  <2>3. f \in Surjection(1 .. N, 1 .. N)
    BY <1>1, <2>2, FS_Injection
  <2>4. \A m \in 1 .. N : \E i \in 1 .. N : f[i] = m
    BY <2>3 DEF Surjection
  <2> QED
    BY <2>1, <2>4
<1> QED
  BY <1>2, <1>5, <1>7, <1>9, <1>10, <1>11 DEF N, R

\* The list that is sorted has the same blocks, the newest first.
LEMMA SortedIs ==
    ASSUME NEW b \in Seq(TransactionBlock), Distinct(b)
    PROVE  /\ NewestFirst(b) \in Seq(TransactionBlock) /\ Len(NewestFirst(b)) = Len(b)
           /\ Distinct(NewestFirst(b))
           /\ \A i \in 1 .. Len(b) : NewestFirst(b)[i] \in ToSet(b)
           /\ \A i \in 1 .. Len(b) : NewestFirst(b)[Place(b, i)] = b[i]
           /\ \A i, j \in 1 .. Len(b) :
                 i < j => NewestFirst(b)[i].timestampMs >= NewestFirst(b)[j].timestampMs
<1> DEFINE N == Len(b)
           s == NewestFirst(b)
           p == [m \in 1 .. N |-> CHOOSE i \in 1 .. N : Place(b, i) = m]
<1>0. /\ \A i \in 1 .. Len(b) : Place(b, i) \in 1 .. Len(b)
      /\ \A i, j \in 1 .. Len(b) : GoesBefore(b, i, j) <=> Place(b, i) < Place(b, j)
      /\ \A i, j \in 1 .. Len(b) : Place(b, i) = Place(b, j) => i = j
      /\ \A m \in 1 .. Len(b) : \E i \in 1 .. Len(b) : Place(b, i) = m
  BY PlacesAre
<1>1. N \in Nat /\ DOMAIN b = 1 .. N /\ \A i \in 1 .. N : b[i] \in TransactionBlock
  OBVIOUS
<1>2. /\ \A i \in 1 .. N : Place(b, i) \in 1 .. N
      /\ \A i, j \in 1 .. N : GoesBefore(b, i, j) <=> Place(b, i) < Place(b, j)
      /\ \A i, j \in 1 .. N : Place(b, i) = Place(b, j) => i = j
      /\ \A m \in 1 .. N : \E i \in 1 .. N : Place(b, i) = m
  BY <1>0
<1>3. \A m \in 1 .. N : p[m] \in 1 .. N /\ Place(b, p[m]) = m
  <2> SUFFICES ASSUME NEW m \in 1 .. N
               PROVE  p[m] \in 1 .. N /\ Place(b, p[m]) = m
    OBVIOUS
  <2>1. \E i \in 1 .. N : Place(b, i) = m
    BY <1>2
  <2>2. p[m] = CHOOSE i \in 1 .. N : Place(b, i) = m
    OBVIOUS
  <2> HIDE DEF p, N
  <2> QED
    BY <2>1, <2>2
<1>4. s = [m \in 1 .. N |-> b[p[m]]]
  BY <1>1 DEF NewestFirst
<1> HIDE DEF N, s, p
<1>5. s \in Seq(TransactionBlock) /\ Len(s) = N /\ DOMAIN s = 1 .. N /\ \A m \in 1 .. N : s[m] = b[p[m]]
  <2>1. \A m \in 1 .. N : b[p[m]] \in TransactionBlock
    BY <1>1, <1>3
  <2>2. s \in [1 .. N -> TransactionBlock]
    BY <1>4, <2>1
  <2> QED
    BY <1>1, <1>4, <2>2
<1>6. Distinct(s) /\ \A m \in 1 .. N : s[m] \in ToSet(b)
  <2>1. ASSUME NEW i \in 1 .. N, NEW j \in 1 .. N, s[i].digest = s[j].digest
        PROVE  i = j
    <3>1. b[p[i]].digest = b[p[j]].digest /\ p[i] \in 1 .. N /\ p[j] \in 1 .. N
      BY <1>3, <1>5, <2>1
    <3>2. p[i] = p[j]
      BY <3>1 DEF Distinct, N
    <3> QED
      BY <1>3, <3>2
  <2>2. \A m \in 1 .. N : s[m] \in ToSet(b)
    BY <1>1, <1>3, <1>5 DEF ToSet
  <2> QED
    BY <1>5, <2>1, <2>2 DEF Distinct
<1>7. \A i \in 1 .. N : s[Place(b, i)] = b[i]
  <2> SUFFICES ASSUME NEW i \in 1 .. N
               PROVE  s[Place(b, i)] = b[i]
    OBVIOUS
  <2>1. Place(b, i) \in 1 .. N
    BY <1>2
  <2>2. p[Place(b, i)] = i
    BY <1>2, <1>3, <2>1
  <2> QED
    BY <1>5, <2>1, <2>2
<1>8. ASSUME NEW i \in 1 .. N, NEW j \in 1 .. N, i < j
      PROVE  s[i].timestampMs >= s[j].timestampMs
  <2>1. p[i] \in 1 .. N /\ p[j] \in 1 .. N /\ GoesBefore(b, p[i], p[j])
    BY <1>2, <1>3, <1>8
  <2>2. b[p[i]].timestampMs >= b[p[j]].timestampMs
    BY <2>1, LineUp DEF N
  <2> QED
    BY <1>5, <2>2
<1> QED
  BY <1>5, <1>6, <1>7, <1>8 DEF N, s

\* The clock of the checkpoints goes on.
Rising(cps) ==
    /\ cps \in Seq(Nat) /\ \A i \in 1 .. Len(cps) : cps[i] > 0
    /\ \A i, j \in 1 .. Len(cps) : i <= j => cps[i] <= cps[j]

Concerns(led, d, c) == IF c = "outgoing" THEN led[d].from ELSE led[d].to

TimeOf(cps, d) == IF d \in DOMAIN cps THEN cps[d] ELSE 0

AsNew(led, cps, d) ==
    {e \in DOMAIN led : e /= d /\ (e \in DOMAIN cps => cps[e] >= cps[d])}

\* A block as it was read: of a transaction there is, with the time there was then.
IsRead(led, cps, x) ==
    /\ x.digest \in 1 .. Len(led)
    /\ x.timestampMs > 0 => x.digest \in 1 .. Len(cps) /\ x.timestampMs = cps[x.digest]

\* A block that has the time it must have, if it was in a checkpoint when the load began.
IsDated(cps, since, x) == x.digest \in 1 .. since => x.timestampMs = cps[x.digest]

\* A query's answer holds what there was when its load began, or Limit others that are newer.
Covers(led, cps, q, c, since) ==
    /\ q \in Seq(TransactionBlock) /\ Distinct(q)
    /\ \A k \in 1 .. Len(q) : IsRead(led, cps, q[k]) /\ IsDated(cps, since, q[k])
    /\ \A d \in 1 .. since : Concerns(led, d, c) =>
          \/ d \in Digests(q)
          \/ Len(q) = Limit /\ \A k \in 1 .. Len(q) : q[k].digest > d

\* RecentComplete of a list of rows.
Recent(led, cps, rows, since) ==
    /\ rows \in Seq(TransactionBlock)
    /\ \A d \in 1 .. since : Cardinality(AsNew(led, cps, d)) < Limit => d \in Digests(rows)
    /\ Distinct(rows)
    /\ \A i, j \in 1 .. Len(rows) : i < j /\ rows[j].digest <= since =>
          TimeOf(cps, rows[i].digest) >= TimeOf(cps, rows[j].digest)

\* The transactions there are, and the times of the first of them.
Chain(led, cps) ==
    /\ led \in Seq(Transaction) /\ Len(led) <= MaxTransactions
    /\ Rising(cps) /\ Len(cps) <= Len(led)

\* Those that are not older than a transaction are some of the ledger.
LEMMA NotOlderAre ==
    ASSUME NEW led, NEW cps, Chain(led, cps), NEW d
    PROVE  IsFiniteSet(AsNew(led, cps, d)) /\ Cardinality(AsNew(led, cps, d)) \in Nat
<1>1. Len(led) \in Nat /\ DOMAIN led = 1 .. Len(led)
  BY DEF Chain
<1>2. AsNew(led, cps, d) \in SUBSET (1 .. Len(led))
  BY <1>1 DEF AsNew
<1>3. IsFiniteSet(1 .. Len(led))
  BY <1>1, FS_Interval
<1> QED
  BY <1>2, <1>3, FS_Subset, FS_CardinalityType

\* What is cut off a query's answer has Limit others that are as new.
LEMMA CutOff ==
    ASSUME NEW led, NEW cps, Chain(led, cps), NEW d \in 1 .. Len(cps),
           NEW q \in Seq(TransactionBlock), Distinct(q), Len(q) = Limit,
           \A k \in 1 .. Len(q) : q[k].digest \in 1 .. Len(led) /\ q[k].digest > d
    PROVE  Cardinality(AsNew(led, cps, d)) >= Limit
<1> DEFINE A == AsNew(led, cps, d)
           f == [k \in 1 .. Limit |-> q[k].digest]
<1>1. /\ Len(led) \in Nat /\ DOMAIN led = 1 .. Len(led) /\ Limit \in Nat
      /\ Len(cps) \in Nat /\ DOMAIN cps = 1 .. Len(cps) /\ \A i \in 1 .. Len(cps) : cps[i] \in Nat
  BY SnapshotAssumption DEF Chain, Rising
<1>2. \A k \in 1 .. Limit : q[k].digest \in A
  <2> SUFFICES ASSUME NEW k \in 1 .. Limit PROVE q[k].digest \in A
    OBVIOUS
  <2>1. q[k].digest \in 1 .. Len(led) /\ q[k].digest > d
    OBVIOUS
  <2>2. ASSUME q[k].digest \in DOMAIN cps
        PROVE  cps[q[k].digest] >= cps[d]
    <3>1. d <= q[k].digest /\ q[k].digest \in 1 .. Len(cps)
      BY <1>1, <2>1, <2>2
    <3>2. cps[d] <= cps[q[k].digest] /\ cps[d] \in Nat /\ cps[q[k].digest] \in Nat
      BY <1>1, <3>1 DEF Chain, Rising
    <3> QED
      BY <3>2
  <2> QED
    BY <1>1, <2>1, <2>2 DEF AsNew
<1> HIDE DEF A
<1>3. f \in Injection(1 .. Limit, A)
  <2>1. f \in [1 .. Limit -> A] /\ \A k \in 1 .. Limit : f[k] = q[k].digest
    BY <1>2
  <2> HIDE DEF f
  <2>2. \A j, k \in 1 .. Limit : f[j] = f[k] => j = k
    BY <2>1 DEF Distinct
  <2> QED
    BY <2>1, <2>2 DEF Injection, IsInjective
<1> HIDE DEF f
<1>4. IsFiniteSet(A) /\ Cardinality(A) \in Nat
  BY NotOlderAre DEF A
<1>5. Cardinality(1 .. Limit) <= Cardinality(A)
  BY <1>3, <1>4, FS_Injection
<1>6. Cardinality(1 .. Limit) = Limit
  <2>1. Cardinality(1 .. Limit) = IF 1 > Limit THEN 0 ELSE Limit - 1 + 1
    BY <1>1, FS_Interval
  <2> QED
    BY <1>1, <2>1
<1> QED
  BY <1>1, <1>4, <1>5, <1>6 DEF A

\* Before the place of a block that is dated there are only blocks as new.
LEMMA PlaceIsEarly ==
    ASSUME NEW led, NEW cps, Chain(led, cps), NEW b \in Seq(TransactionBlock), Distinct(b),
           \A k \in 1 .. Len(b) : IsRead(led, cps, b[k]),
           NEW i \in 1 .. Len(b), b[i].digest \in 1 .. Len(cps),
           b[i].timestampMs = cps[b[i].digest]
    PROVE  Place(b, i) <= 1 + Cardinality(AsNew(led, cps, b[i].digest))
<1> DEFINE A == AsNew(led, cps, b[i].digest)
           R == RowsBefore(b, i)
           f == [j \in R |-> b[j].digest]
<1>1. /\ IsFiniteSet(R) /\ Place(b, i) = 1 + Cardinality(R) /\ Cardinality(R) \in Nat
  BY PlacesAre, FS_CardinalityType
<1>2. /\ DOMAIN led = 1 .. Len(led) /\ DOMAIN cps = 1 .. Len(cps)
      /\ cps[b[i].digest] \in Nat /\ cps[b[i].digest] > 0
  BY DEF Chain, Rising
<1>3. ASSUME NEW j \in R
      PROVE  j \in 1 .. Len(b) /\ b[j].digest \in A
  <2>1. j \in 1 .. Len(b) /\ GoesBefore(b, j, i)
    BY DEF RowsBefore
  <2>2. /\ j # i /\ b[j].timestampMs >= b[i].timestampMs
        /\ b[j].timestampMs \in Nat /\ b[i].timestampMs \in Nat
    BY <2>1, LineUp
  <2>3. b[j].digest # b[i].digest
    BY <2>1, <2>2 DEF Distinct
  <2>4. b[j].timestampMs > 0
    BY <1>2, <2>2
  <2>5. b[j].digest \in 1 .. Len(led) /\ b[j].timestampMs = cps[b[j].digest]
    BY <2>1, <2>4 DEF IsRead
  <2> QED
    BY <1>2, <2>1, <2>2, <2>3, <2>5 DEF AsNew
<1> HIDE DEF A, R
<1>4. f \in Injection(R, A)
  <2>1. f \in [R -> A] /\ \A j \in R : f[j] = b[j].digest
    BY <1>3
  <2> HIDE DEF f
  <2>2. \A j, k \in R : f[j] = f[k] => j = k
    BY <1>3, <2>1 DEF Distinct
  <2> QED
    BY <2>1, <2>2 DEF Injection, IsInjective
<1> HIDE DEF f
<1>5. IsFiniteSet(A) /\ Cardinality(A) \in Nat
  BY NotOlderAre DEF A
<1>6. Cardinality(R) <= Cardinality(A)
  BY <1>4, <1>5, FS_Injection
<1> QED
  BY <1>1, <1>5, <1>6 DEF A

\* Two answers that cover what there was make a list that leaves no gap, has no double and
\* has nothing older above what is dated (activity.ts:37-69).
LEMMA ListIsRecent ==
    ASSUME NEW led, NEW cps, Chain(led, cps), NEW since \in 0 .. Len(cps),
           NEW o, NEW i, Covers(led, cps, o, "outgoing", since), Covers(led, cps, i, "incoming", since)
    PROVE  Recent(led, cps, ListRecentActivityRows(o, i), since)
<1> DEFINE b == BlocksByDigest(o, i)
           s == NewestFirst(b)
           rows == ListRecentActivityRows(o, i)
<1>1. /\ Len(led) \in Nat /\ DOMAIN led = 1 .. Len(led) /\ Limit \in Nat
      /\ Len(cps) \in Nat /\ DOMAIN cps = 1 .. Len(cps) /\ Len(cps) <= Len(led)
      /\ \A d \in 1 .. since : d \in 1 .. Len(cps) /\ d \in 1 .. Len(led)
  BY SnapshotAssumption DEF Chain, Rising
<1>2. /\ o \in Seq(TransactionBlock) /\ i \in Seq(TransactionBlock)
      /\ Distinct(o) /\ Distinct(i)
  BY DEF Covers
<1>3. /\ b \in Seq(TransactionBlock) /\ Distinct(b) /\ Digests(b) = Digests(o) \cup Digests(i)
      /\ ToSet(b) \subseteq ToSet(o) \cup ToSet(i)
  <2> HIDE DEF b
  <2> QED
    BY <1>2, BlocksAre DEF b
<1> HIDE DEF b
<1>4. \A x \in ToSet(b) : IsRead(led, cps, x) /\ IsDated(cps, since, x)
  <2> SUFFICES ASSUME NEW x \in ToSet(o) \cup ToSet(i)
               PROVE  IsRead(led, cps, x) /\ IsDated(cps, since, x)
    BY <1>3
  <2>1. (\E k \in 1 .. Len(o) : o[k] = x) \/ (\E k \in 1 .. Len(i) : i[k] = x)
    BY <1>2, Elements
  <2> QED
    BY <2>1 DEF Covers
<1>5. Len(b) \in Nat /\ \A k \in 1 .. Len(b) : b[k] \in ToSet(b)
  BY <1>3, Elements
<1>6. /\ s \in Seq(TransactionBlock) /\ Len(s) = Len(b) /\ Distinct(s)
      /\ \A k \in 1 .. Len(b) : s[Place(b, k)] = b[k]
      /\ \A k \in 1 .. Len(b) : s[k] \in ToSet(b)
      /\ \A k, l \in 1 .. Len(b) : k < l => s[k].timestampMs >= s[l].timestampMs
  BY <1>3, SortedIs
<1> HIDE DEF s
<1>7. /\ rows \in Seq(TransactionBlock) /\ Len(rows) \in Nat /\ Len(rows) <= Len(s)
      /\ Len(rows) = Len(s) \/ Len(rows) = Limit
      /\ \A k \in 1 .. Len(rows) : rows[k] = s[k]
  BY <1>6, UpToLimitIs DEF ListRecentActivityRows, s, b
<1> HIDE DEF rows
<1>8. \A k \in 1 .. Len(rows) : k \in 1 .. Len(b)
  BY <1>5, <1>6, <1>7
<1>9. Distinct(rows)
  <2> SUFFICES ASSUME NEW k \in 1 .. Len(rows), NEW l \in 1 .. Len(rows),
                      rows[k].digest = rows[l].digest
               PROVE  k = l
    BY DEF Distinct
  <2> QED
    BY <1>6, <1>7, <1>8 DEF Distinct
<1>10. ASSUME NEW k \in 1 .. Len(rows), NEW l \in 1 .. Len(rows), k < l,
              rows[l].digest <= since
       PROVE  TimeOf(cps, rows[k].digest) >= TimeOf(cps, rows[l].digest)
  <2>1. /\ rows[k] \in ToSet(b) /\ rows[l] \in ToSet(b)
        /\ rows[k].timestampMs >= rows[l].timestampMs
    BY <1>6, <1>7, <1>8, <1>10
  <2>2. /\ rows[k] \in TransactionBlock /\ rows[l] \in TransactionBlock
        /\ IsRead(led, cps, rows[k]) /\ IsRead(led, cps, rows[l]) /\ IsDated(cps, since, rows[l])
    BY <1>4, <1>7, <2>1
  <2>3. rows[l].digest \in 1 .. since /\ rows[l].digest \in 1 .. Len(cps)
    BY <1>1, <1>10, <2>2 DEF IsRead
  <2>4. rows[l].timestampMs = cps[rows[l].digest] /\ cps[rows[l].digest] > 0
    BY <2>2, <2>3 DEF IsDated, Chain, Rising
  <2>5. rows[k].timestampMs \in Nat /\ rows[l].timestampMs \in Nat
    BY <2>2 DEF TransactionBlock
  <2>6. rows[k].timestampMs > 0
    BY <2>1, <2>4, <2>5
  <2>7. rows[k].digest \in 1 .. Len(cps) /\ rows[k].timestampMs = cps[rows[k].digest]
    BY <2>2, <2>6 DEF IsRead
  <2>8. /\ TimeOf(cps, rows[k].digest) = rows[k].timestampMs
        /\ TimeOf(cps, rows[l].digest) = rows[l].timestampMs
    BY <1>1, <2>3, <2>4, <2>7 DEF TimeOf
  <2> QED
    BY <2>1, <2>8
<1>11. ASSUME NEW d \in 1 .. since, Cardinality(AsNew(led, cps, d)) < Limit
       PROVE  d \in Digests(rows)
  <2>1. /\ d \in 1 .. Len(cps) /\ d \in 1 .. Len(led)
        /\ Cardinality(AsNew(led, cps, d)) \in Nat
    BY <1>1, NotOlderAre
  <2>2. Concerns(led, d, "outgoing") \/ Concerns(led, d, "incoming")
    <3>1. led[d] \in Transaction
      BY <2>1 DEF Chain
    <3> QED
      BY <3>1 DEF Concerns, Transaction
  <2>3. ASSUME NEW q, NEW c, Covers(led, cps, q, c, since), Concerns(led, d, c)
        PROVE  d \in Digests(q)
    <3>1. /\ q \in Seq(TransactionBlock) /\ Distinct(q)
          /\ \A k \in 1 .. Len(q) : q[k].digest \in 1 .. Len(led)
      BY <2>3 DEF Covers, IsRead
    <3>2. d \in Digests(q) \/ (Len(q) = Limit /\ \A k \in 1 .. Len(q) : q[k].digest > d)
      BY <2>3 DEF Covers
    <3>3. ASSUME Len(q) = Limit, \A k \in 1 .. Len(q) : q[k].digest > d
          PROVE  FALSE
      <4>1. Cardinality(AsNew(led, cps, d)) >= Limit
        BY <2>1, <3>1, <3>3, CutOff
      <4> QED
        BY <1>1, <1>11, <2>1, <4>1
    <3> QED
      BY <3>2, <3>3
  <2>4. d \in Digests(b)
    BY <1>3, <2>2, <2>3
  <2>5. PICK k \in 1 .. Len(b) : b[k].digest = d
    BY <1>3, <2>4, DigestsAre
  <2>6. Place(b, k) \in 1 .. Len(b)
    BY <1>3, PlacesAre
  <2>7. Place(b, k) <= 1 + Cardinality(AsNew(led, cps, d))
    <3>1. /\ \A l \in 1 .. Len(b) : IsRead(led, cps, b[l])
          /\ b[k].timestampMs = cps[b[k].digest]
      BY <1>4, <1>5, <2>5 DEF IsDated
    <3> QED
      BY <1>3, <2>1, <2>5, <3>1, PlaceIsEarly
  <2>8. Place(b, k) \in 1 .. Len(rows)
    BY <1>1, <1>5, <1>6, <1>7, <1>11, <2>1, <2>6, <2>7
  <2>9. rows[Place(b, k)].digest = d
    BY <1>6, <1>7, <2>5, <2>8
  <2> QED
    BY <1>7, <2>8, <2>9, DigestsAre
<1> QED
  BY <1>7, <1>9, <1>10, <1>11 DEF Recent, rows

\* The two calls that the activity is put together from.
Queries == {"outgoing", "incoming"}

LoadInv(l) ==
    loads[l] /= None =>
        /\ loads[l].since \in 0 .. Len(checkpoints)
        /\ \A c \in Queries :
              /\ \/ loads[l].calls[c].result = None
                 \/ Covers(ledger, checkpoints, loads[l].calls[c].result, c, loads[l].since)
              /\ loads[l].phase = "metadata" => loads[l].calls[c].result /= None

ShownInv ==
    snapshot /= None => /\ snapshot.since \in 0 .. Len(checkpoints)
                        /\ Recent(ledger, checkpoints, snapshot.activityRows, snapshot.since)

SnapshotInv ==
    /\ SnapshotTypeOK /\ Chain(ledger, checkpoints)
    /\ \A l \in Loads : LoadInv(l)
    /\ ShownInv

WithCall(old, l, c, v) == [old EXCEPT ![l].calls[c] = v]

\* A call that is set leaves the other calls and the other loads alone.
LEMMA CallIsSet ==
    ASSUME NEW old \in [Loads -> Load \cup {None}], NEW l \in Loads, old[l] \in Load,
           NEW c \in Calls, NEW v \in Call, NEW new,
           new = WithCall(old, l, c, v)
    PROVE  /\ new \in [Loads -> Load \cup {None}]
           /\ new[l].since = old[l].since /\ new[l].phase = old[l].phase
           /\ new[l].calls[c] = v /\ \A e \in Calls : e # c => new[l].calls[e] = old[l].calls[e]
           /\ \A m \in Loads : m # l => new[m] = old[m]
<1> DEFINE load == [old[l] EXCEPT !.calls = [old[l].calls EXCEPT ![c] = v]]
<1>1. new = [old EXCEPT ![l] = load]
  BY DEF WithCall
<1>2. load \in Load /\ load.since = old[l].since /\ load.phase = old[l].phase
      /\ load.calls = [old[l].calls EXCEPT ![c] = v]
  BY DEF Load
<1>3. old[l].calls \in [Calls -> Call]
  BY DEF Load
<1>4. load.calls[c] = v /\ \A e \in Calls : e # c => load.calls[e] = old[l].calls[e]
  BY <1>2, <1>3
<1> HIDE DEF load
<1>5. new[l] = load /\ \A m \in Loads : m # l => new[m] = old[m]
  BY <1>1
<1>6. new \in [Loads -> Load \cup {None}]
  BY <1>1, <1>2
<1> QED
  BY <1>2, <1>4, <1>5, <1>6

\* What was covered and what is shown stays so when transactions and checkpoints are added.
LEMMA GrowingKeeps ==
    ASSUME NEW led, NEW cps, Chain(led, cps), NEW led2, NEW cps2, Chain(led2, cps2),
           Len(led) <= Len(led2), \A i \in 1 .. Len(led) : led2[i] = led[i],
           Len(cps) <= Len(cps2), \A i \in 1 .. Len(cps) : cps2[i] = cps[i],
           NEW since \in 0 .. Len(cps)
    PROVE  /\ since \in 0 .. Len(cps2)
           /\ \A q, c : Covers(led, cps, q, c, since) => Covers(led2, cps2, q, c, since)
           /\ \A rows : Recent(led, cps, rows, since) => Recent(led2, cps2, rows, since)
<1>1. /\ Len(led) \in Nat /\ DOMAIN led = 1 .. Len(led)
      /\ Len(led2) \in Nat /\ DOMAIN led2 = 1 .. Len(led2)
      /\ Len(cps) \in Nat /\ DOMAIN cps = 1 .. Len(cps) /\ Len(cps) <= Len(led)
      /\ Len(cps2) \in Nat /\ DOMAIN cps2 = 1 .. Len(cps2)
      /\ \A i \in 1 .. Len(cps) : cps[i] \in Nat /\ cps[i] > 0
      /\ \A i \in 1 .. Len(cps2) : cps2[i] \in Nat
      /\ \A i, j \in 1 .. Len(cps2) : i <= j => cps2[i] <= cps2[j]
  BY SMTT(30) DEF Chain, Rising
<1>2. /\ \A i \in 1 .. Len(led) : i \in 1 .. Len(led2)
      /\ \A i \in 1 .. Len(cps) : i \in 1 .. Len(cps2)
      /\ \A d \in 1 .. since : d \in 1 .. Len(cps) /\ d \in 1 .. Len(led)
      /\ since \in 0 .. Len(cps2)
  BY <1>1
<1>3. ASSUME NEW x, IsRead(led, cps, x)
      PROVE  IsRead(led2, cps2, x)
  BY <1>2, <1>3 DEF IsRead
<1>4. ASSUME NEW x, IsDated(cps, since, x)
      PROVE  IsDated(cps2, since, x)
  BY <1>2, <1>4 DEF IsDated
<1>5. ASSUME NEW q, NEW c, Covers(led, cps, q, c, since)
      PROVE  Covers(led2, cps2, q, c, since)
  <2>1. \A d \in 1 .. since : Concerns(led2, d, c) <=> Concerns(led, d, c)
    BY <1>2 DEF Concerns
  <2>2. \A k \in 1 .. Len(q) : IsRead(led2, cps2, q[k]) /\ IsDated(cps2, since, q[k])
    BY <1>3, <1>4, <1>5 DEF Covers
  <2> QED
    BY <1>5, <2>1, <2>2 DEF Covers
<1>6. ASSUME NEW d \in 1 .. since, Cardinality(AsNew(led2, cps2, d)) < Limit
      PROVE  Cardinality(AsNew(led, cps, d)) < Limit
  <2>1. ASSUME NEW e \in AsNew(led, cps, d)
        PROVE  e \in AsNew(led2, cps2, d)
    <3>1. e \in 1 .. Len(led) /\ e # d /\ (e \in 1 .. Len(cps) => cps[e] >= cps[d])
      BY <1>1 DEF AsNew
    <3>2. ASSUME e \in 1 .. Len(cps2)
          PROVE  cps2[e] >= cps2[d]
      <4>1. CASE e \in 1 .. Len(cps)
        BY <1>2, <3>1, <4>1
      <4>2. CASE e \notin 1 .. Len(cps)
        <5>1. d <= e /\ d \in 1 .. Len(cps2)
          BY <1>1, <1>2, <3>1, <4>2
        <5>2. cps2[d] <= cps2[e] /\ cps2[d] \in Nat /\ cps2[e] \in Nat
          BY <1>1, <3>2, <5>1
        <5> QED
          BY <5>2
      <4> QED
        BY <4>1, <4>2
    <3> QED
      BY <1>1, <1>2, <3>1, <3>2 DEF AsNew
  <2>2. /\ IsFiniteSet(AsNew(led2, cps2, d)) /\ Cardinality(AsNew(led2, cps2, d)) \in Nat
        /\ Cardinality(AsNew(led, cps, d)) \in Nat
    BY NotOlderAre
  <2>3. Cardinality(AsNew(led, cps, d)) <= Cardinality(AsNew(led2, cps2, d))
    BY <2>1, <2>2, FS_Subset
  <2> QED
    BY <1>6, <2>2, <2>3, SnapshotAssumption
<1>7. ASSUME NEW rows, Recent(led, cps, rows, since)
      PROVE  Recent(led2, cps2, rows, since)
  <2>1. /\ rows \in Seq(TransactionBlock)
        /\ \A k \in 1 .. Len(rows) : rows[k] \in TransactionBlock
    BY <1>7 DEF Recent
  <2>2. ASSUME NEW i \in 1 .. Len(rows), NEW j \in 1 .. Len(rows), i < j,
               rows[j].digest <= since
        PROVE  TimeOf(cps2, rows[i].digest) >= TimeOf(cps2, rows[j].digest)
    <3>1. rows[j].digest \in 1 .. since
      <4>1. rows[j].digest \in 1 .. MaxTransactions
        BY <2>1 DEF TransactionBlock
      <4> QED
        BY <1>2, <2>2, <4>1, SnapshotAssumption
    <3>2. /\ TimeOf(cps, rows[j].digest) = cps[rows[j].digest]
          /\ TimeOf(cps2, rows[j].digest) = cps[rows[j].digest]
          /\ cps[rows[j].digest] \in Nat /\ cps[rows[j].digest] > 0
      BY <1>1, <1>2, <3>1 DEF TimeOf
    <3>3. TimeOf(cps, rows[i].digest) >= TimeOf(cps, rows[j].digest)
      BY <1>7, <2>2 DEF Recent
    <3>4. rows[i].digest \in 1 .. Len(cps)
      BY <1>1, <3>2, <3>3 DEF TimeOf
    <3>5. TimeOf(cps2, rows[i].digest) = TimeOf(cps, rows[i].digest)
      BY <1>1, <1>2, <3>4 DEF TimeOf
    <3> QED
      BY <3>2, <3>3, <3>5
  <2> QED
    BY <1>6, <1>7, <2>2 DEF Recent
<1> QED
  BY <1>2, <1>5, <1>7

\* A query that is answered covers what there was when its load began.
LEMMA AnswerCovers ==
    ASSUME Chain(ledger, checkpoints), NEW c \in Queries, NEW since \in 0 .. Len(checkpoints)
    PROVE  Covers(ledger, checkpoints, ResultOf(c), c, since)
<1> DEFINE M == {i \in DOMAIN ledger : Concerns(ledger, i, c)}
           n == Len(ledger)
           q == Query(M)
           r == QueryTransactionBlocks(M)
<1>1. /\ n \in Nat /\ DOMAIN ledger = 1 .. n /\ M \subseteq 1 .. n /\ n <= MaxTransactions
      /\ Len(checkpoints) \in Nat /\ Len(checkpoints) <= n
      /\ DOMAIN checkpoints = 1 .. Len(checkpoints)
      /\ \A i \in 1 .. Len(checkpoints) : checkpoints[i] \in Nat
      /\ MaxTransactions \in Nat
  BY SnapshotAssumption DEF Chain, Rising
<1>2. ResultOf(c) = r
  <2>1. CASE c = "outgoing"
    BY <2>1 DEF ResultOf, Concerns
  <2>2. CASE c = "incoming"
    BY <2>2 DEF ResultOf, Concerns
  <2> QED
    BY <2>1, <2>2 DEF Queries
<1>3. \A d \in 1 .. since : d \in 1 .. n /\ d \in 1 .. Len(checkpoints)
                            /\ (Concerns(ledger, d, c) => d \in M)
  BY <1>1
<1> HIDE DEF M
<1>4. /\ q \in Seq(1 .. n) /\ Descending(q)
      /\ \A d \in M : \/ d \in ToSet(q)
                      \/ Len(q) = Limit /\ \A k \in 1 .. Len(q) : q[k] > d
  BY <1>1, QueryIs
<1>5. r = [k \in DOMAIN q |-> [digest |-> q[k], timestampMs |-> TimestampMs(q[k])]]
  BY DEF QueryTransactionBlocks
<1> HIDE DEF q, r, n
<1>6. /\ Len(q) \in Nat /\ DOMAIN q = 1 .. Len(q)
      /\ \A k \in 1 .. Len(q) : q[k] \in 1 .. n
  BY <1>4, Elements
<1>7. \A d \in 1 .. n : /\ TimestampMs(d) \in Nat
                        /\ TimestampMs(d) > 0 => d \in 1 .. Len(checkpoints)
                        /\ d \in 1 .. Len(checkpoints) => TimestampMs(d) = checkpoints[d]
  BY <1>1 DEF TimestampMs
<1>8. \A k \in 1 .. Len(q) : /\ r[k] \in TransactionBlock /\ r[k].digest = q[k]
                             /\ r[k].timestampMs = TimestampMs(q[k])
  <2> SUFFICES ASSUME NEW k \in 1 .. Len(q)
               PROVE  /\ r[k] \in TransactionBlock /\ r[k].digest = q[k]
                      /\ r[k].timestampMs = TimestampMs(q[k])
    OBVIOUS
  <2>1. r[k] = [digest |-> q[k], timestampMs |-> TimestampMs(q[k])]
    BY <1>5, <1>6
  <2>2. q[k] \in 1 .. MaxTransactions /\ TimestampMs(q[k]) \in Nat
    BY <1>1, <1>6, <1>7
  <2> QED
    BY <2>1, <2>2 DEF TransactionBlock
<1>9. r \in Seq(TransactionBlock) /\ Len(r) = Len(q)
  <2>1. r \in [1 .. Len(q) -> TransactionBlock]
    BY <1>5, <1>6, <1>8
  <2> QED
    BY <1>6, <2>1
<1>10. Distinct(r)
  <2> SUFFICES ASSUME NEW i \in 1 .. Len(q), NEW j \in 1 .. Len(q), q[i] = q[j], i # j
               PROVE  FALSE
    BY <1>8, <1>9 DEF Distinct
  <2>1. i < j \/ j < i
    BY <1>6
  <2>2. q[i] > q[j] \/ q[j] > q[i]
    BY <1>4, <2>1 DEF Descending
  <2>3. q[i] \in 1 .. n /\ q[j] \in 1 .. n
    BY <1>6
  <2> QED
    BY <1>1, <2>2, <2>3
<1>11. \A k \in 1 .. Len(r) : IsRead(ledger, checkpoints, r[k]) /\ IsDated(checkpoints, since, r[k])
  <2> SUFFICES ASSUME NEW k \in 1 .. Len(q)
               PROVE  IsRead(ledger, checkpoints, r[k]) /\ IsDated(checkpoints, since, r[k])
    BY <1>9
  <2>1. q[k] \in 1 .. n /\ r[k].digest = q[k] /\ r[k].timestampMs = TimestampMs(q[k])
    BY <1>6, <1>8
  <2>2. IsRead(ledger, checkpoints, r[k])
    BY <1>7, <2>1 DEF IsRead, n
  <2>3. IsDated(checkpoints, since, r[k])
    BY <1>3, <1>7, <2>1 DEF IsDated
  <2> QED
    BY <2>2, <2>3
<1>12. ASSUME NEW d \in 1 .. since, Concerns(ledger, d, c)
       PROVE  d \in Digests(r) \/ (Len(r) = Limit /\ \A k \in 1 .. Len(r) : r[k].digest > d)
  <2>1. d \in ToSet(q) \/ (Len(q) = Limit /\ \A k \in 1 .. Len(q) : q[k] > d)
    BY <1>3, <1>4, <1>12
  <2>2. CASE d \in ToSet(q)
    <3>1. PICK k \in 1 .. Len(q) : q[k] = d
      BY <1>4, <2>2, Elements
    <3>2. r[k].digest = d /\ k \in 1 .. Len(r)
      BY <1>8, <1>9, <3>1
    <3> QED
      BY <1>9, <3>2, DigestsAre
  <2>3. CASE Len(q) = Limit /\ \A k \in 1 .. Len(q) : q[k] > d
    BY <1>8, <1>9, <2>3
  <2> QED
    BY <2>1, <2>2, <2>3
<1> QED
  BY <1>2, <1>9, <1>10, <1>11, <1>12 DEF Covers

\* The chain grows by a transaction.
LEMMA ExecuteGrows ==
    ASSUME Chain(ledger, checkpoints), NEW from \in BOOLEAN, NEW to \in BOOLEAN,
           Execute(from, to)
    PROVE  /\ Chain(ledger', checkpoints') /\ checkpoints' = checkpoints
           /\ Len(ledger) <= Len(ledger') /\ \A i \in 1 .. Len(ledger) : ledger'[i] = ledger[i]
<1> DEFINE new == [from |-> from, to |-> to]
<1>1. new \in Transaction /\ ledger' = Append(ledger, new) /\ checkpoints' = checkpoints
      /\ Len(ledger) < MaxTransactions
  BY DEF Execute, Transaction
<1> HIDE DEF new
<1>2. /\ ledger \in Seq(Transaction) /\ Len(ledger) \in Nat /\ Len(checkpoints) \in Nat
      /\ Len(checkpoints) <= Len(ledger) /\ MaxTransactions \in Nat
  BY SnapshotAssumption DEF Chain, Rising
<1>3. /\ ledger' \in Seq(Transaction) /\ Len(ledger') = Len(ledger) + 1
      /\ \A i \in 1 .. Len(ledger) : ledger'[i] = ledger[i]
  BY <1>1, <1>2
<1>4. Chain(ledger', checkpoints')
  BY <1>1, <1>2, <1>3 DEF Chain
<1> QED
  BY <1>1, <1>2, <1>3, <1>4

\* The chain grows by a checkpoint, whose time is not before that of the last one.
LEMMA CheckpointGrows ==
    ASSUME Chain(ledger, checkpoints), NEW tick \in {0, 1}, Checkpoint(tick)
    PROVE  /\ Chain(ledger', checkpoints') /\ ledger' = ledger
           /\ Len(checkpoints) <= Len(checkpoints')
           /\ \A i \in 1 .. Len(checkpoints) : checkpoints'[i] = checkpoints[i]
<1> DEFINE n == Len(checkpoints)
           t == Now + tick
<1>1. /\ checkpoints \in Seq(Nat) /\ n \in Nat /\ Len(ledger) \in Nat
      /\ \A i \in 1 .. n : checkpoints[i] \in Nat /\ checkpoints[i] > 0
      /\ \A i, j \in 1 .. n : i <= j => checkpoints[i] <= checkpoints[j]
  BY DEF Chain, Rising
<1>2. n < Len(ledger) /\ checkpoints' = Append(checkpoints, t) /\ ledger' = ledger
  BY DEF Checkpoint
<1>3. Now \in Nat /\ Now > 0 /\ \A i \in 1 .. n : checkpoints[i] <= Now
  <2>1. CASE checkpoints = <<>>
    <3>1. Now = 1 /\ n = 0
      BY <2>1 DEF Now
    <3> QED
      BY <3>1
  <2>2. CASE checkpoints # <<>>
    <3>1. n \in 1 .. n /\ Now = checkpoints[n]
      BY <2>2 DEF Now, Last
    <3>2. \A i \in 1 .. n : i <= n
      BY <1>1
    <3> QED
      BY <1>1, <3>1, <3>2
  <2> QED
    BY <2>1, <2>2
<1>4. t \in Nat /\ t > 0 /\ \A i \in 1 .. n : checkpoints[i] <= t
  <2>1. t \in Nat /\ t > 0 /\ Now <= t
    BY <1>3
  <2> HIDE DEF t
  <2> QED
    BY <1>1, <1>3, <2>1
<1> HIDE DEF t
<1>5. /\ checkpoints' \in Seq(Nat) /\ Len(checkpoints') = n + 1 /\ checkpoints'[n + 1] = t
      /\ \A i \in 1 .. n : checkpoints'[i] = checkpoints[i]
  BY <1>1, <1>2, <1>4
<1> HIDE DEF n
<1>6. \A i \in 1 .. n + 1 : i \in 1 .. n \/ i = n + 1
  BY <1>1
<1>7. \A i \in 1 .. n + 1 : checkpoints'[i] > 0
  BY <1>1, <1>4, <1>5, <1>6
<1>8. ASSUME NEW i \in 1 .. n + 1, NEW j \in 1 .. n + 1, i <= j
      PROVE  checkpoints'[i] <= checkpoints'[j]
  <2>1. CASE j \in 1 .. n
    <3>1. i \in 1 .. n
      BY <1>1, <1>8, <2>1
    <3> QED
      BY <1>1, <1>5, <1>8, <2>1, <3>1
  <2>2. CASE j = n + 1 /\ i \in 1 .. n
    BY <1>4, <1>5, <2>2
  <2>3. CASE j = n + 1 /\ i = n + 1
    <3>1. checkpoints'[i] = t /\ checkpoints'[j] = t /\ t <= t
      BY <1>4, <1>5, <2>3
    <3> QED
      BY <3>1
  <2> QED
    BY <1>6, <2>1, <2>2, <2>3
<1>9. Rising(checkpoints')
  BY <1>5, <1>7, <1>8 DEF Rising
<1>10. Chain(ledger', checkpoints')
  <2>1. n + 1 <= Len(ledger)
    BY <1>1, <1>2
  <2> QED
    BY <1>2, <1>5, <1>9, <2>1 DEF Chain
<1>11. n <= n + 1
  BY <1>1
<1> QED
  BY <1>2, <1>5, <1>10, <1>11 DEF n

\* A transaction that is executed, or a checkpoint, keeps what the loads cover and what is
\* shown.
LEMMA ChainKeepsSnapshot ==
    ASSUME SnapshotInv,
           \/ \E from, to \in BOOLEAN : Execute(from, to)
           \/ \E tick \in {0, 1} : Checkpoint(tick)
    PROVE  SnapshotInv'
<1>1. /\ Chain(ledger, checkpoints)
      /\ loads \in [Loads -> Load \cup {None}] /\ {snapError, loading} \subseteq BOOLEAN
      /\ \A l \in Loads : LoadInv(l)
      /\ ShownInv
  BY DEF SnapshotInv, SnapshotTypeOK
<1>2. UNCHANGED <<loads, snapshot, snapError, loading>>
  BY DEF Execute, Checkpoint
<1>3. /\ Chain(ledger', checkpoints')
      /\ Len(ledger) <= Len(ledger') /\ \A i \in 1 .. Len(ledger) : ledger'[i] = ledger[i]
      /\ Len(checkpoints) <= Len(checkpoints')
      /\ \A i \in 1 .. Len(checkpoints) : checkpoints'[i] = checkpoints[i]
  <2>1. Len(ledger) \in Nat /\ Len(checkpoints) \in Nat
    BY <1>1 DEF Chain, Rising
  <2>2. ASSUME NEW from \in BOOLEAN, NEW to \in BOOLEAN, Execute(from, to)
        PROVE  /\ Chain(ledger', checkpoints')
               /\ Len(ledger) <= Len(ledger') /\ \A i \in 1 .. Len(ledger) : ledger'[i] = ledger[i]
               /\ Len(checkpoints) <= Len(checkpoints')
               /\ \A i \in 1 .. Len(checkpoints) : checkpoints'[i] = checkpoints[i]
    BY <1>1, <2>1, <2>2, ExecuteGrows
  <2>3. ASSUME NEW tick \in {0, 1}, Checkpoint(tick)
        PROVE  /\ Chain(ledger', checkpoints')
               /\ Len(ledger) <= Len(ledger') /\ \A i \in 1 .. Len(ledger) : ledger'[i] = ledger[i]
               /\ Len(checkpoints) <= Len(checkpoints')
               /\ \A i \in 1 .. Len(checkpoints) : checkpoints'[i] = checkpoints[i]
    BY <1>1, <2>1, <2>3, CheckpointGrows
  <2> QED
    BY <2>2, <2>3
<1>4. ASSUME NEW since \in 0 .. Len(checkpoints)
      PROVE  /\ since \in 0 .. Len(checkpoints')
             /\ \A q, c : Covers(ledger, checkpoints, q, c, since)
                              => Covers(ledger', checkpoints', q, c, since)
             /\ \A rows : Recent(ledger, checkpoints, rows, since)
                              => Recent(ledger', checkpoints', rows, since)
  BY <1>1, <1>3, GrowingKeeps
<1>5. ASSUME NEW l \in Loads
      PROVE  LoadInv(l)'
  BY <1>1, <1>2, <1>4 DEF LoadInv
<1>6. ShownInv'
  BY <1>1, <1>2, <1>4 DEF ShownInv
<1>7. SnapshotTypeOK'
  <2>1. snapshot' /= None => /\ snapshot'.since \in 0 .. Len(checkpoints')
                             /\ snapshot'.activityRows \in Seq(TransactionBlock)
    BY <1>6 DEF ShownInv, Recent
  <2>2. /\ ledger' \in Seq(Transaction) /\ Len(ledger') <= MaxTransactions
        /\ checkpoints' \in Seq(Nat) /\ Len(checkpoints') <= Len(ledger')
    BY <1>3 DEF Chain, Rising
  <2> QED
    BY <1>1, <1>2, <2>1, <2>2 DEF SnapshotTypeOK
<1> QED
  BY <1>3, <1>5, <1>6, <1>7 DEF SnapshotInv

\* A step of one load that sets a record with its invariant, and shows nothing new.
LEMMA LoadStepKeeps ==
    ASSUME SnapshotInv, NEW l \in Loads, UNCHANGED <<ledger, checkpoints, snapshot>>,
           {snapError', loading'} \subseteq BOOLEAN,
           loads' \in [Loads -> Load \cup {None}],
           \A m \in Loads : m # l => loads'[m] = loads[m], LoadInv(l)'
    PROVE  SnapshotInv'
<1>1. \A m \in Loads : LoadInv(m)'
  <2> SUFFICES ASSUME NEW m \in Loads, m # l
               PROVE  LoadInv(m)'
    OBVIOUS
  <2>1. LoadInv(m) /\ loads'[m] = loads[m] /\ ledger' = ledger
        /\ checkpoints' = checkpoints
    BY DEF SnapshotInv
  <2> QED
    BY <2>1 DEF LoadInv
<1>2. Chain(ledger', checkpoints') /\ ShownInv'
  BY DEF SnapshotInv, ShownInv
<1>3. SnapshotTypeOK'
  BY DEF SnapshotInv, SnapshotTypeOK
<1> QED
  BY <1>1, <1>2, <1>3 DEF SnapshotInv

\* A phase that is set leaves the calls alone.
LEMMA PhaseIsSet ==
    ASSUME SnapshotInv, NEW l \in Loads, loads[l] /= None,
           NEW p \in {"balance", "reads", "metadata"},
           p = "metadata" => \A c \in Queries : loads[l].calls[c].result /= None,
           loads' = [loads EXCEPT ![l].phase = p], UNCHANGED <<ledger, checkpoints>>
    PROVE  /\ loads' \in [Loads -> Load \cup {None}]
           /\ \A m \in Loads : m # l => loads'[m] = loads[m]
           /\ LoadInv(l)'
<1>1. loads \in [Loads -> Load \cup {None}] /\ loads[l] \in Load /\ LoadInv(l)
  BY DEF SnapshotInv, SnapshotTypeOK
<1> DEFINE load == [loads[l] EXCEPT !.phase = p]
<1>2. loads' = [loads EXCEPT ![l] = load]
  OBVIOUS
<1>3. load \in Load /\ load.since = loads[l].since /\ load.calls = loads[l].calls
      /\ load.phase = p
  BY <1>1 DEF Load
<1> HIDE DEF load
<1>4. loads'[l] = load /\ \A m \in Loads : m # l => loads'[m] = loads[m]
  BY <1>1, <1>2
<1>5. loads' \in [Loads -> Load \cup {None}]
  BY <1>1, <1>2, <1>3
<1>6. LoadInv(l)'
  <2>1. /\ loads[l].since \in 0 .. Len(checkpoints)
        /\ \A c \in Queries : \/ loads[l].calls[c].result = None
                              \/ Covers(ledger, checkpoints, loads[l].calls[c].result, c, loads[l].since)
    BY <1>1 DEF LoadInv
  <2> QED
    BY <1>3, <1>4, <2>1 DEF LoadInv
<1> QED
  BY <1>4, <1>5, <1>6

\* A load that ends.
LEMMA LoadEnds ==
    ASSUME SnapshotInv, NEW l \in Loads, loads' = [loads EXCEPT ![l] = None],
           UNCHANGED <<ledger, checkpoints>>
    PROVE  /\ loads' \in [Loads -> Load \cup {None}]
           /\ \A m \in Loads : m # l => loads'[m] = loads[m]
           /\ LoadInv(l)'
<1>1. loads \in [Loads -> Load \cup {None}]
  BY DEF SnapshotInv, SnapshotTypeOK
<1>2. loads'[l] = None
  BY <1>1
<1> QED
  BY <1>1, <1>2 DEF LoadInv

\* An answer, or another attempt, of a call that is waited for.
LEMMA CallKeepsSnapshot ==
    ASSUME SnapshotInv, NEW l \in Loads, NEW c \in Calls, Waiting(l, c), NEW v \in Call,
           loads' = WithCall(loads, l, c, v),
           \/ v.result = None
           \/ c \in Queries => Covers(ledger, checkpoints, v.result, c, loads[l].since),
           UNCHANGED <<ledger, checkpoints, snapshot, snapError, loading>>
    PROVE  SnapshotInv'
<1>1. /\ loads \in [Loads -> Load \cup {None}] /\ loads[l] \in Load /\ loads[l] /= None
      /\ LoadInv(l) /\ {snapError, loading} \subseteq BOOLEAN
      /\ c \in CallsOf(loads[l].phase)
  BY DEF SnapshotInv, SnapshotTypeOK, Waiting
<1>2. /\ loads' \in [Loads -> Load \cup {None}]
      /\ loads'[l].since = loads[l].since /\ loads'[l].phase = loads[l].phase
      /\ loads'[l].calls[c] = v
      /\ \A e \in Calls : e # c => loads'[l].calls[e] = loads[l].calls[e]
      /\ \A m \in Loads : m # l => loads'[m] = loads[m]
  BY <1>1, CallIsSet
<1>3. Queries \subseteq Calls
  BY SnapshotAssumption DEF Queries, Calls
<1>4. loads[l].phase = "metadata" => c \notin Queries
  BY <1>1 DEF CallsOf, Queries
<1>5. LoadInv(l)'
  <2>1. /\ loads[l].since \in 0 .. Len(checkpoints)
        /\ \A e \in Queries :
              /\ \/ loads[l].calls[e].result = None
                 \/ Covers(ledger, checkpoints, loads[l].calls[e].result, e, loads[l].since)
              /\ loads[l].phase = "metadata" => loads[l].calls[e].result /= None
    BY <1>1 DEF LoadInv
  <2>3. ASSUME NEW e \in Queries
        PROVE  /\ \/ loads'[l].calls[e].result = None
                  \/ Covers(ledger, checkpoints, loads'[l].calls[e].result, e, loads'[l].since)
               /\ loads'[l].phase = "metadata" => loads'[l].calls[e].result /= None
    <3>1. CASE e = c
      BY <1>2, <1>4, <3>1
    <3>2. CASE e # c
      <4>1. loads'[l].calls[e] = loads[l].calls[e]
        BY <1>2, <1>3, <3>2
      <4> QED
        BY <1>2, <2>1, <4>1
    <3> QED
      BY <3>1, <3>2
  <2> QED
    BY <1>2, <2>1, <2>3 DEF LoadInv
<1> QED
  BY <1>1, <1>2, <1>5, LoadStepKeeps

\* What the fullnode answers is of the type of a result.
LEMMA ResultIsSeq ==
    ASSUME SnapshotInv, NEW c \in Calls
    PROVE  ResultOf(c) \in Seq(TransactionBlock)
<1>1. Chain(ledger, checkpoints) /\ 0 \in 0 .. Len(checkpoints)
  BY DEF SnapshotInv, Chain, Rising
<1>2. CASE c \in Queries
  BY <1>1, <1>2, AnswerCovers DEF Covers
<1>3. CASE c \notin Queries
  <2>1. ResultOf(c) = <<>>
    BY <1>3 DEF ResultOf, Queries
  <2>2. <<>> \in Seq(TransactionBlock)
    OBVIOUS
  <2> QED
    BY <2>1, <2>2
<1> QED
  BY <1>2, <1>3

\* An answer covers what there was when the load began.
LEMMA AnsweredKeeps ==
    ASSUME SnapshotInv, NEW l \in Loads, NEW c \in Calls, Answered(l, c)
    PROVE  SnapshotInv'
<1> DEFINE v == [attempt |-> 0, result |-> ResultOf(c)]
<1>1. v \in Call /\ v.result = ResultOf(c)
  BY ResultIsSeq, SnapshotAssumption DEF Call
<1>2. /\ Waiting(l, c) /\ loads' = WithCall(loads, l, c, v)
      /\ UNCHANGED <<ledger, checkpoints, snapshot, snapError, loading>>
  BY DEF Answered, WithCall
<1> HIDE DEF v
<1>3. Chain(ledger, checkpoints) /\ loads[l].since \in 0 .. Len(checkpoints)
  BY <1>2 DEF SnapshotInv, SnapshotTypeOK, LoadInv, Waiting
<1>4. c \in Queries => Covers(ledger, checkpoints, v.result, c, loads[l].since)
  BY <1>1, <1>3, AnswerCovers
<1> QED
  BY <1>1, <1>2, <1>4, CallKeepsSnapshot

\* Another attempt leaves the call without a result.
LEMMA RetriedKeeps ==
    ASSUME SnapshotInv, NEW l \in Loads, NEW c \in Calls, Retried(l, c)
    PROVE  SnapshotInv'
<1> DEFINE call == loads[l].calls[c]
           v == [call EXCEPT !.attempt = call.attempt + 1]
<1>1. /\ Waiting(l, c) /\ ~LastAttempt(l, c)
      /\ UNCHANGED <<ledger, checkpoints, snapshot, snapError, loading>>
  BY DEF Retried
<1>2. loads' = WithCall(loads, l, c, v)
  BY DEF Retried, WithCall
<1>3. call \in Call /\ call.result = None /\ call.attempt /= MaxAttempts
  <2>1. loads[l] \in Load
    BY <1>1 DEF SnapshotInv, SnapshotTypeOK, Waiting
  <2>2. call \in Call
    BY <2>1 DEF Load
  <2> QED
    BY <1>1, <2>2 DEF Waiting, LastAttempt
<1> HIDE DEF call
<1>4. v \in Call /\ v.result = None
  <2>1. call.attempt \in 0 .. MaxAttempts
    BY <1>3 DEF Call
  <2>2. call.attempt + 1 \in 0 .. MaxAttempts
    BY <1>3, <2>1, SnapshotAssumption
  <2> QED
    BY <1>3, <2>2 DEF Call
<1> HIDE DEF v
<1> QED
  BY <1>1, <1>2, <1>4, CallKeepsSnapshot

\* A call that throws ends the load, or moves it past the balance.
LEMMA RefusedKeeps ==
    ASSUME SnapshotInv, NEW l \in Loads, NEW c \in Calls, Refused(l, c)
    PROVE  SnapshotInv'
<1>1. Waiting(l, c) /\ Throws(l, c) /\ loads[l] /= None
  BY DEF Refused, Waiting
<1>2. {snapError, loading} \subseteq BOOLEAN
  BY DEF SnapshotInv, SnapshotTypeOK
<1>3. CASE c = "balance"
  <2>1. /\ loads' = [loads EXCEPT ![l].phase = "reads"]
        /\ UNCHANGED <<ledger, checkpoints, snapshot>> /\ {snapError', loading'} \subseteq BOOLEAN
    BY <1>1, <1>2, <1>3 DEF Throws
  <2> QED
    BY <1>1, <2>1, PhaseIsSet, LoadStepKeeps
<1>4. CASE c # "balance"
  <2>1. /\ loads' = [loads EXCEPT ![l] = None]
        /\ UNCHANGED <<ledger, checkpoints, snapshot>> /\ {snapError', loading'} \subseteq BOOLEAN
    BY <1>1, <1>4 DEF Throws
  <2> QED
    BY <2>1, LoadEnds, LoadStepKeeps
<1> QED
  BY <1>3, <1>4

\* A refresh begins with nothing answered.
LEMMA RefreshKeeps ==
    ASSUME SnapshotInv, NEW l \in Loads, Refresh(l)
    PROVE  SnapshotInv'
<1> DEFINE load == [since |-> Len(checkpoints), phase |-> "balance",
                    calls |-> [c \in Calls |-> Asked]]
<1>1. /\ loads \in [Loads -> Load \cup {None}] /\ {snapError, loading} \subseteq BOOLEAN
      /\ Len(checkpoints) \in Nat /\ Len(checkpoints) <= MaxTransactions
  BY SnapshotAssumption DEF SnapshotInv, SnapshotTypeOK
<1>2. /\ loads' = [loads EXCEPT ![l] = load]
      /\ UNCHANGED <<ledger, checkpoints, snapshot>> /\ {snapError', loading'} \subseteq BOOLEAN
  BY <1>1 DEF Refresh
<1>3. Asked \in Call /\ Asked.result = None
  BY SnapshotAssumption DEF Asked, Call
<1>4. load \in Load /\ load.since = Len(checkpoints) /\ load.phase = "balance"
      /\ load.calls = [c \in Calls |-> Asked]
  BY <1>1, <1>3, SnapshotAssumption DEF Load
<1> HIDE DEF load
<1>5. /\ loads'[l] = load /\ \A m \in Loads : m # l => loads'[m] = loads[m]
      /\ loads' \in [Loads -> Load \cup {None}]
  BY <1>1, <1>2, <1>4
<1>6. \A c \in Queries : load.calls[c].result = None
  BY <1>3, <1>4, SnapshotAssumption DEF Queries, Calls
<1>7. LoadInv(l)'
  BY <1>1, <1>2, <1>4, <1>5, <1>6 DEF LoadInv
<1> QED
  BY <1>2, <1>5, <1>7, LoadStepKeeps

\* The reads begin when the balance is there, and the metadata when all the reads are.
LEMMA PhaseKeeps ==
    ASSUME SnapshotInv, NEW l \in Loads, BalanceRead(l) \/ LoadTokenMetadata(l)
    PROVE  SnapshotInv'
<1>1. {snapError, loading} \subseteq BOOLEAN
  BY DEF SnapshotInv, SnapshotTypeOK
<1>2. CASE BalanceRead(l)
  <2>1. /\ loads[l] /= None /\ loads' = [loads EXCEPT ![l].phase = "reads"]
        /\ UNCHANGED <<ledger, checkpoints, snapshot>> /\ {snapError', loading'} \subseteq BOOLEAN
    BY <1>1, <1>2 DEF BalanceRead, AllAnswered
  <2> QED
    BY <2>1, PhaseIsSet, LoadStepKeeps
<1>3. CASE LoadTokenMetadata(l)
  <2>1. /\ loads[l] /= None /\ loads' = [loads EXCEPT ![l].phase = "metadata"]
        /\ UNCHANGED <<ledger, checkpoints, snapshot>> /\ {snapError', loading'} \subseteq BOOLEAN
        /\ \A c \in Reads : loads[l].calls[c].result /= None
    BY <1>1, <1>3 DEF LoadTokenMetadata, AllAnswered, CallsOf
  <2>2. \A c \in Queries : loads[l].calls[c].result /= None
    BY <2>1, SnapshotAssumption DEF Queries
  <2> QED
    BY <2>1, <2>2, PhaseIsSet, LoadStepKeeps
<1> QED
  BY <1>2, <1>3

\* What is shown is made of two answers that cover what there was.
LEMMA SetSnapshotKeeps ==
    ASSUME SnapshotInv, NEW l \in Loads, SetSnapshot(l)
    PROVE  SnapshotInv'
<1> DEFINE o == loads[l].calls["outgoing"].result
           i == loads[l].calls["incoming"].result
           since == loads[l].since
           rows == ListRecentActivityRows(o, i)
<1>1. /\ Chain(ledger, checkpoints)
      /\ {snapError, loading} \subseteq BOOLEAN /\ LoadInv(l)
      /\ loads[l] /= None /\ loads[l].phase = "metadata"
  BY DEF SnapshotInv, SnapshotTypeOK, SetSnapshot, AllAnswered
<1>2. /\ snapshot' = [since |-> since, activityRows |-> rows]
      /\ loads' = [loads EXCEPT ![l] = None] /\ loading' = FALSE
      /\ ledger' = ledger /\ checkpoints' = checkpoints /\ snapError' = snapError
  BY DEF SetSnapshot
<1>3. /\ since \in 0 .. Len(checkpoints)
      /\ Covers(ledger, checkpoints, o, "outgoing", since) /\ Covers(ledger, checkpoints, i, "incoming", since)
  BY <1>1 DEF LoadInv, Queries
<1> HIDE DEF o, i, since
<1>4. Recent(ledger, checkpoints, rows, since)
  BY <1>1, <1>3, ListIsRecent
<1> HIDE DEF rows
<1>5. snapshot'.since = since /\ snapshot'.activityRows = rows
  BY <1>2
<1>6. ShownInv'
  BY <1>2, <1>3, <1>4, <1>5 DEF ShownInv
<1>7. /\ loads' \in [Loads -> Load \cup {None}]
      /\ \A m \in Loads : m # l => loads'[m] = loads[m]
      /\ LoadInv(l)'
  BY <1>2, LoadEnds
<1>8. \A m \in Loads : LoadInv(m)'
  <2> SUFFICES ASSUME NEW m \in Loads, m # l PROVE LoadInv(m)'
    BY <1>7
  <2>1. LoadInv(m) /\ loads'[m] = loads[m]
    BY <1>7 DEF SnapshotInv
  <2> QED
    BY <1>2, <2>1 DEF LoadInv
<1>9. rows \in Seq(TransactionBlock)
  BY <1>4 DEF Recent
<1>10. SnapshotTypeOK'
  <2>1. /\ ledger \in Seq(Transaction) /\ Len(ledger) <= MaxTransactions
        /\ checkpoints \in Seq(Nat) /\ Len(checkpoints) <= Len(ledger)
    BY <1>1 DEF Chain, Rising
  <2> QED
    BY <1>1, <1>2, <1>3, <1>5, <1>7, <1>9, <2>1 DEF SnapshotTypeOK
<1> QED
  BY <1>1, <1>2, <1>6, <1>8, <1>10 DEF SnapshotInv

\* Nothing is loaded and nothing shown at first.
LEMMA SnapshotInvAtFirst ==
    ASSUME SnapshotInit
    PROVE  SnapshotInv
<1>1. /\ ledger = <<>> /\ ledger \in Seq(Transaction) /\ Len(ledger) = 0
      /\ checkpoints = <<>> /\ checkpoints \in Seq(Nat) /\ Len(checkpoints) = 0
  <2>1. <<>> \in Seq(Transaction) /\ <<>> \in Seq(Nat)
    OBVIOUS
  <2> QED
    BY <2>1 DEF SnapshotInit
<1>2. Chain(ledger, checkpoints)
  BY <1>1, SnapshotAssumption DEF Chain, Rising
<1>3. \A l \in Loads : LoadInv(l)
  BY DEF SnapshotInit, LoadInv
<1>4. SnapshotTypeOK
  <2>1. loads \in [Loads -> Load \cup {None}] /\ snapshot = None
    BY DEF SnapshotInit
  <2>2. {snapError, loading} \subseteq BOOLEAN
    BY Zenon DEF SnapshotInit
  <2> QED
    BY <1>1, <2>1, <2>2, SnapshotAssumption DEF SnapshotTypeOK
<1> QED
  BY <1>2, <1>3, <1>4 DEF SnapshotInit, ShownInv, SnapshotInv

\* Every step keeps the invariant.
LEMMA SnapshotInvKept ==
    ASSUME SnapshotInv, [SnapshotNext]_snapshotVars
    PROVE  SnapshotInv'
<1>1. ASSUME \/ \E from, to \in BOOLEAN : Execute(from, to)
             \/ \E tick \in {0, 1} : Checkpoint(tick)
      PROVE  SnapshotInv'
  BY <1>1, ChainKeepsSnapshot
<1>2. ASSUME NEW l \in Loads, Refresh(l)
      PROVE  SnapshotInv'
  BY <1>2, RefreshKeeps
<1>3. ASSUME NEW l \in Loads, AnswerStep(l)
      PROVE  SnapshotInv'
  BY <1>3, AnsweredKeeps, RetriedKeeps, RefusedKeeps DEF AnswerStep
<1>4. ASSUME NEW l \in Loads, RefreshStep(l)
      PROVE  SnapshotInv'
  BY <1>4, PhaseKeeps, SetSnapshotKeeps DEF RefreshStep
<1>5. CASE UNCHANGED snapshotVars
  <2>1. /\ ledger' = ledger /\ checkpoints' = checkpoints /\ loads' = loads /\ snapshot' = snapshot
        /\ snapError' = snapError /\ loading' = loading
    BY <1>5 DEF snapshotVars
  <2>2. Chain(ledger', checkpoints') /\ ShownInv' /\ SnapshotTypeOK'
    BY <2>1 DEF SnapshotInv, ShownInv, SnapshotTypeOK
  <2>3. \A l \in Loads : LoadInv(l)'
    BY <2>1 DEF SnapshotInv, LoadInv
  <2> QED
    BY <2>2, <2>3 DEF SnapshotInv
<1> QED
  BY <1>1, <1>2, <1>3, <1>4, <1>5 DEF SnapshotNext

\* The dashboard's state is what the next theorem needs of it, always.
LEMMA SnapshotInvAlways == SnapshotSpec => []SnapshotInv
  BY SnapshotInvAtFirst, SnapshotInvKept, PTL DEF SnapshotSpec

\* The dashboard's state has its type.
THEOREM SnapshotTypeCorrect == SnapshotSpec => []SnapshotTypeOK
<1>1. SnapshotInv => SnapshotTypeOK
  BY DEF SnapshotInv
<1> QED
  BY <1>1, SnapshotInvAlways, PTL

\* The activity a snapshot shows leaves no gap in what was in a checkpoint when its load
\* began, shows nothing twice, and nothing older above what was in a checkpoint, however the
\* two queries, the transactions and the checkpoints come together (activity.ts:37-69).
THEOREM AlwaysComplete == SnapshotSpec => []RecentComplete
<1>1. ASSUME SnapshotInv
      PROVE  RecentComplete
  <2> SUFFICES ASSUME snapshot /= None
               PROVE  LET rows == snapshot.activityRows IN
                      /\ \A d \in 1..snapshot.since :
                            Cardinality(NotOlder(d)) < Limit => d \in Digests(rows)
                      /\ \A i, j \in DOMAIN rows : rows[i].digest = rows[j].digest => i = j
                      /\ \A i, j \in DOMAIN rows : i < j /\ rows[j].digest <= snapshot.since =>
                            TimestampMs(rows[i].digest) >= TimestampMs(rows[j].digest)
    BY DEF RecentComplete
  <2> DEFINE rows == snapshot.activityRows
  <2>1. Recent(ledger, checkpoints, rows, snapshot.since)
    BY <1>1 DEF SnapshotInv, ShownInv
  <2> HIDE DEF rows
  <2>2. DOMAIN rows = 1 .. Len(rows)
    BY <2>1 DEF Recent
  <2>3. \A d : NotOlder(d) = AsNew(ledger, checkpoints, d)
    BY DEF NotOlder, AsNew
  <2>4. \A d : TimestampMs(d) = TimeOf(checkpoints, d)
    BY DEF TimestampMs, TimeOf
  <2> QED
    BY <2>1, <2>2, <2>3, <2>4 DEF Recent, Distinct, rows
<1> QED
  BY <1>1, SnapshotInvAlways, PTL
=============================================================================
