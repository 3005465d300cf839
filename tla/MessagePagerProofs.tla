------------------------- MODULE MessagePagerProofs -------------------------
(***************************************************************************)
(* Proofs about MessagePager, for any sessions, page size and numbers of   *)
(* messages and failures: as long as no session was selected while a call  *)
(* was waiting, the screen holds the session's own messages from the       *)
(* newest down to where the offset says, but for those that came late, and *)
(* loading pages comes to rest.                                            *)
(***************************************************************************)
EXTENDS MessagePager, FiniteSetTheorems, TLAPS

-----------------------------------------------------------------------------
(* The places of messages.                                                 *)

\* There are as many times as the model bounds them to.
LEMMA TimesFinite == IsFiniteSet(Times) /\ Cardinality(Times) = MaxMessages
<1>1. MaxMessages \in Nat /\ 1 \in Int /\ MaxMessages \in Int
  BY PagerAssumption
<1>2. /\ IsFiniteSet(1..MaxMessages)
      /\ Cardinality(1..MaxMessages) = IF 1 > MaxMessages THEN 0 ELSE MaxMessages - 1 + 1
  BY <1>1, FS_Interval
<1>3. (IF 1 > MaxMessages THEN 0 ELSE MaxMessages - 1 + 1) = MaxMessages
  BY <1>1
<1>4. QED
  BY <1>2, <1>3 DEF Times

\* The place of a message is a number, and less than there are messages.
LEMMA NewerNat ==
  ASSUME NEW R \in SUBSET Times, NEW t \in Times
  PROVE  /\ IsFiniteSet(R) /\ Cardinality(R) \in Nat /\ Cardinality(R) <= MaxMessages
         /\ Newer(R, t) \in Nat
         /\ t \in R => Newer(R, t) < Cardinality(R)
<1>2. IsFiniteSet(R) /\ Cardinality(R) <= MaxMessages
  BY TimesFinite, FS_Subset
<1>3. Cardinality(R) \in Nat
  BY <1>2, FS_CardinalityType
<1> DEFINE N == {u \in R : u > t}
<1>4. /\ IsFiniteSet(N) /\ Cardinality(N) <= Cardinality(R)
      /\ Cardinality(R) = Cardinality(N) => R = N
  BY <1>2, FS_Subset
<1>5. Cardinality(N) \in Nat
  BY <1>4, FS_CardinalityType
<1>6. t \in R => R # N
  BY DEF Times
<1>7. Newer(R, t) = Cardinality(N)
  BY DEF Newer
<1> HIDE DEF N
<1>8. QED
  BY <1>2, <1>3, <1>4, <1>5, <1>6, <1>7

\* The older a message, the more are newer.
LEMMA OlderHasMore ==
  ASSUME NEW R \in SUBSET Times, NEW t \in Times, NEW u \in R, t < u
  PROVE  Newer(R, u) < Newer(R, t)
<1> DEFINE N == {v \in R : v > t}
           M == {v \in R : v > u}
<1>1. IsFiniteSet(N)
  BY NewerNat, FS_Subset
<1>2. M \subseteq N /\ u \in N /\ u \notin M
  <2>1. \A v \in R : v \in Int
    BY DEF Times
  <2>2. u \in Int /\ t \in Int
    BY DEF Times
  <2>3. \A v \in R : v > u => v > t
    BY <2>1, <2>2
  <2>4. ~(u > u) /\ u > t
    BY <2>2
  <2>5. QED
    BY <2>3, <2>4
<1>3. Cardinality(M) <= Cardinality(N) /\ (Cardinality(N) = Cardinality(M) => N = M)
  BY <1>1, <1>2, FS_Subset
<1>4. Newer(R, u) = Cardinality(M) /\ Newer(R, t) = Cardinality(N)
  BY DEF Newer
<1>5. Newer(R, u) \in Nat /\ Newer(R, t) \in Nat
  BY NewerNat
<1> HIDE DEF N, M
<1>6. QED
  BY <1>2, <1>3, <1>4, <1>5

\* So the place tells the order.
LEMMA PlaceTells ==
  ASSUME NEW R \in SUBSET Times, NEW t \in R, NEW u \in R
  PROVE  /\ Newer(R, t) = Newer(R, u) => t = u
         /\ Newer(R, u) < Newer(R, t) => t < u
<1>1. t \in Nat /\ u \in Nat /\ t \in Times /\ u \in Times
  BY DEF Times
<1>2. Newer(R, t) \in Nat /\ Newer(R, u) \in Nat
  BY <1>1, NewerNat
<1>3. t < u => Newer(R, u) < Newer(R, t)
  BY <1>1, OlderHasMore
<1>4. u < t => Newer(R, t) < Newer(R, u)
  BY <1>1, OlderHasMore
<1>5. QED
  BY <1>1, <1>2, <1>3, <1>4

\* There is a message at every place.
LEMMA EveryPlace ==
  ASSUME NEW R \in SUBSET Times, NEW k \in Nat, k < Cardinality(R)
  PROVE  \E t \in R : Newer(R, t) = k
<1> DEFINE c == Cardinality(R)
           f == [t \in R |-> Newer(R, t)]
<1>1. IsFiniteSet(R) /\ c \in Nat /\ c > 0
  <2>1. IsFiniteSet(R)
    BY TimesFinite, FS_Subset
  <2>2. c \in Nat
    BY <2>1, FS_CardinalityType
  <2>3. QED
    BY <2>1, <2>2
<1> HIDE DEF c
<1>2. \A t \in R : Newer(R, t) \in 0..(c - 1)
  <2>1. ASSUME NEW t \in R PROVE Newer(R, t) \in 0..(c - 1)
    <3>1. Newer(R, t) \in Nat /\ Newer(R, t) < c
      BY NewerNat DEF c
    <3>2. QED
      BY <1>1, <3>1
  <2>2. QED
    BY <2>1
<1>3. f \in [R -> 0..(c - 1)]
  BY <1>2
<1>4. \A t, u \in R : f[t] = f[u] => t = u
  BY PlaceTells
<1> HIDE DEF f
<1>5. f \in Injection(R, 0..(c - 1))
  BY <1>3, <1>4 DEF Injection, IsInjective
<1>6. IsFiniteSet(0..(c - 1)) /\ Cardinality(0..(c - 1)) = c
  <2>1. 0 \in Int /\ c - 1 \in Int /\ ~(0 > c - 1) /\ (c - 1) - 0 + 1 = c
    BY <1>1
  <2>2. QED
    BY <2>1, FS_Interval
<1>7. f \in Surjection(R, 0..(c - 1))
  BY <1>5, <1>6, FS_Injection DEF c
<1>8. k \in 0..(c - 1)
  BY <1>1 DEF c
<1>9. PICK t \in R : f[t] = k
  BY <1>7, <1>8 DEF Surjection
<1>10. QED
  BY <1>9 DEF f

\* A message that is stored pushes none to a newer place, and those after it nowhere.
LEMMA PlaceAfter ==
  ASSUME NEW R \in SUBSET Times, NEW u \in Times, NEW t \in Times
  PROVE  /\ Newer(R, t) <= Newer(R \cup {u}, t)
         /\ ~(t < u) => Newer(R \cup {u}, t) = Newer(R, t)
<1>1. {v \in R : v > t} \subseteq {v \in R \cup {u} : v > t}
  OBVIOUS
<1>2. IsFiniteSet({v \in R \cup {u} : v > t})
  <2>1. R \cup {u} \in SUBSET Times
    OBVIOUS
  <2>2. IsFiniteSet(R \cup {u})
    BY <2>1, NewerNat
  <2>3. QED
    BY <2>2, FS_Subset
<1>3. Newer(R, t) <= Newer(R \cup {u}, t)
  BY <1>1, <1>2, FS_Subset DEF Newer
<1>4. ASSUME ~(t < u) PROVE Newer(R \cup {u}, t) = Newer(R, t)
  <2>1. {v \in R \cup {u} : v > t} = {v \in R : v > t}
    BY <1>4 DEF Times
  <2>2. QED
    BY <2>1 DEF Newer
<1>5. QED
  BY <1>3, <1>4

-----------------------------------------------------------------------------
(* How far a client has read.                                              *)

\* A client that has read the messages S of R, down to the offset off: what it has not
\* read is older than all it has, but for the late messages L; and when it asks for no
\* more there is none.
Covered(R, L, S, off, done) ==
  /\ S \subseteq R
  /\ \A t \in R : (\E r \in S : r < t) => t \in S \cup L
  /\ off > 0 => \E r \in S : off <= Newer(R, r) + 1
  /\ done => R \subseteq S \cup L

\* Whatever is newer than the offset was read or came late.
LEMMA AboveOffset ==
  ASSUME NEW R \in SUBSET Times, NEW L, NEW S, NEW off \in Nat, NEW done,
         Covered(R, L, S, off, done), NEW t \in R, Newer(R, t) < off
  PROVE  t \in S \cup L
<1>1. t \in Times /\ Newer(R, t) \in Nat
  BY NewerNat
<1>2. PICK r \in S : off <= Newer(R, r) + 1
  BY <1>1 DEF Covered
<1>3. r \in R /\ r \in Times /\ Newer(R, r) \in Nat
  BY NewerNat DEF Covered
<1>4. Newer(R, t) <= Newer(R, r)
  BY <1>1, <1>2, <1>3
<1>5. r = t \/ r < t
  BY <1>1, <1>3, <1>4, PlaceTells
<1>6. QED
  BY <1>5 DEF Covered

\* The page at the offset carries the reading on.
LEMMA PageCovers ==
  ASSUME NEW R \in SUBSET Times, NEW L, NEW S, NEW off \in Nat, NEW done,
         Covered(R, L, S, off, done), NEW P, NEW n \in Nat,
         \A t \in P : t \in R /\ off <= Newer(R, t) /\ Newer(R, t) < off + n,
         \A t \in R : off <= Newer(R, t) /\ Newer(R, t) < off + n => t \in P,
         n > 0 => \E t \in P : off + n <= Newer(R, t) + 1,
         NEW last, last => Cardinality(R) <= off + n
  PROVE  Covered(R, L, S \cup P, off + n, last)
<1>1. ASSUME NEW t \in R PROVE t \in Times /\ Newer(R, t) \in Nat /\ Newer(R, t) < Cardinality(R)
  BY NewerNat
<1>2. ASSUME NEW t \in R, Newer(R, t) < off + n PROVE t \in S \cup P \cup L
  <2>1. CASE Newer(R, t) < off
    BY <2>1, AboveOffset
  <2>2. CASE off <= Newer(R, t)
    BY <1>2, <2>2
  <2>3. QED
    BY <1>1, <2>1, <2>2
<1>3. S \cup P \subseteq R
  BY DEF Covered
<1>4. ASSUME NEW t \in R, NEW r \in S \cup P, r < t PROVE t \in S \cup P \cup L
  <2>1. CASE r \in S
    BY <1>4, <2>1 DEF Covered
  <2>2. CASE r \in P
    <3>1. Newer(R, t) < Newer(R, r)
      BY <1>1, <1>3, <1>4, OlderHasMore
    <3>2. Newer(R, r) < off + n /\ Newer(R, r) \in Nat /\ Newer(R, t) \in Nat
      BY <1>1, <2>2
    <3>3. QED
      BY <1>2, <3>1, <3>2
  <2>3. QED
    BY <2>1, <2>2
<1>5. off + n > 0 => \E r \in S \cup P : off + n <= Newer(R, r) + 1
  <2>1. CASE n > 0
    BY <2>1
  <2>2. CASE n = 0
    BY <2>2 DEF Covered
  <2>3. QED
    BY <2>1, <2>2
<1>6. ASSUME last, NEW t \in R PROVE t \in S \cup P \cup L
  <2>1. Newer(R, t) < off + n
    <3>1. Cardinality(R) \in Nat
      BY <1>1, NewerNat
    <3>2. QED
      BY <1>1, <1>6, <3>1
  <2>2. QED
    BY <1>2, <2>1
<1>7. QED
  BY <1>3, <1>4, <1>5, <1>6 DEF Covered

\* A message that is stored is late, or older than all that was read.
LEMMA StoredCovers ==
  ASSUME NEW R \in SUBSET Times, NEW L, NEW S, NEW off \in Nat, NEW done,
         Covered(R, L, S, off, done), NEW u \in Times, NEW K, L \subseteq K,
         done \/ (\E r \in S : r < u) => u \in K
  PROVE  Covered(R \cup {u}, K, S, off, done)
<1>1. off > 0 => \E r \in S : off <= Newer(R \cup {u}, r) + 1
  <2>1. SUFFICES ASSUME off > 0 PROVE \E r \in S : off <= Newer(R \cup {u}, r) + 1
    OBVIOUS
  <2>2. PICK r \in S : off <= Newer(R, r) + 1
    BY <2>1 DEF Covered
  <2>3. r \in Times /\ R \cup {u} \in SUBSET Times
    BY DEF Covered
  <2>4. Newer(R, r) \in Nat /\ Newer(R \cup {u}, r) \in Nat
    BY <2>3, NewerNat
  <2>5. Newer(R, r) <= Newer(R \cup {u}, r)
    BY <2>3, PlaceAfter
  <2>6. QED
    BY <2>2, <2>4, <2>5
<1>2. QED
  BY <1>1 DEF Covered

-----------------------------------------------------------------------------
(* What is said of the screen.                                             *)

Stored == [session : Sessions, at : Times]

At(s) == {s[i].at : i \in 1..Len(s)}

Mine(s) == \A i \in 1..Len(s) : s[i].session = view

Ascending(s) == \A i, j \in 1..Len(s) : i < j => s[i].at < s[j].at

\* A call is a record, whatever it brings.
Shaped(f) ==
  f \in [session : {f.session}, offset : {f.offset}, reset : {f.reset},
         waitsFor : {f.waitsFor}, page : {f.page}]

Kept ==
  /\ rows \in [Sessions -> SUBSET Times] /\ view \in Sessions
  /\ shown \in Seq(Stored) /\ offset \in Nat
  /\ loading \in BOOLEAN

\* Room the effect has not filled yet.
Room == hasMore /\ shown # <<>> /\ fits

\* One call waits exactly while the loading flag is set, also after a session was
\* selected in a hurry; without one there is no room left to fill.
OneCall ==
  /\ fetches = <<>> \/ (fetches = <<fetches[1]>> /\ Shaped(fetches[1]))
  /\ loading <=> fetches # <<>>
  /\ ~loading => ~Room

Call == fetches[1]

\* What the server has answered for the session shown goes on where the screen ends.
Pending(f) ==
  /\ Mine(f.page)
  /\ Covered(rows[view], late, At(shown) \cup At(f.page), offset + Len(f.page),
             ~MoreAfter(f))
  /\ late = {} =>
       /\ Ascending(f.page)
       /\ \A t \in At(f.page) : /\ offset <= Newer(rows[view], t)
                               /\ Newer(rows[view], t) < offset + Len(f.page)

\* The screen: the session's own messages down to the offset; in order, unless some came
\* late and shifted the pages.
Lined ==
  /\ Mine(shown)
  /\ Covered(rows[view], late, At(shown), offset, ~hasMore)
  /\ late = {} =>
       /\ Ascending(shown)
       /\ \A t \in At(shown) : Newer(rows[view], t) < offset

\* The call that waits continues the screen.
Continues ==
  fetches # <<>> =>
    /\ Call.waitsFor # "tools" =>
         Call.session = view /\ Call.offset = offset /\ (Call.reset => shown = <<>>)
    /\ Call.waitsFor = "client" => Pending(Call)

Aligned == ~hasty => Lined /\ Continues

\* What a call asks for and brings is of this kind for any session.
Typed ==
  fetches # <<>> =>
    /\ Call.session \in Sessions /\ Call.offset \in Nat
    /\ Call.waitsFor = "client" => Call.page \in Seq(Stored)

ScreenInv == Kept /\ OneCall /\ Typed /\ Aligned

-----------------------------------------------------------------------------
(* Calls.                                                                  *)

\* The one call that waits is taken away.
LEMMA Removed == ASSUME NEW f PROVE RemoveAt(<<f>>, 1) = <<>>
<1>1. SubSeq(<<f>>, 1, 1 - 1) = <<>>
  OBVIOUS
<1>2. SubSeq(<<f>>, 1 + 1, Len(<<f>>)) = <<>>
  OBVIOUS
<1>3. QED
  BY <1>1, <1>2 DEF RemoveAt

\* When the call that waited is over, the effect starts another or there is no room.
LEMMA Over ==
  ASSUME OneCall, loading \in BOOLEAN, fetches # <<>>, AutoLoad(FALSE, <<>>), view' = view
  PROVE  /\ OneCall'
         /\ fetches' # <<>> =>
              /\ Call'.session = view' /\ Call'.offset = offset' /\ ~Call'.reset
              /\ Call'.waitsFor = "page"
<1>1. loading = TRUE
  BY DEF OneCall
<1> DEFINE changed == <<hasMore', FALSE, Len(shown')>> # <<hasMore, loading, Len(shown)>>
           again == changed /\ ~FALSE /\ hasMore' /\ shown' # <<>> /\ fits'
<1>a. changed
  BY <1>1
<1>b. /\ loading' = (FALSE \/ again)
      /\ fetches' = IF again THEN Append(<<>>, Fetch(view, offset', FALSE)) ELSE <<>>
  BY Zenon DEF AutoLoad
<1>c. again <=> Room'
  BY <1>a DEF Room
<1>d. Append(<<>>, Fetch(view, offset', FALSE)) = <<Fetch(view, offset', FALSE)>>
  OBVIOUS
<1> HIDE DEF again
<1>2. /\ loading' <=> Room'
      /\ fetches' = IF Room' THEN <<Fetch(view, offset', FALSE)>> ELSE <<>>
  BY <1>b, <1>c, <1>d
<1>3. CASE Room'
  <2> DEFINE f == Fetch(view, offset', FALSE)
  <2>1. /\ Shaped(f) /\ f.session = view /\ f.offset = offset' /\ ~f.reset
        /\ f.waitsFor = "page"
    BY DEF Fetch, Shaped
  <2>2. fetches' = <<f>>
    BY <1>2, <1>3
  <2> HIDE DEF f
  <2>3. fetches'[1] = f /\ fetches' # <<>>
    BY <2>2
  <2>4. Call' = f
    BY <2>3 DEF Call
  <2>5. Shaped(fetches[1])'
    BY <2>1, <2>3 DEF Shaped
  <2>6. QED
    BY <1>2, <1>3, <2>1, <2>2, <2>3, <2>4, <2>5 DEF OneCall
<1>4. CASE ~Room'
  BY <1>2, <1>4 DEF OneCall
<1>5. QED
  BY <1>3, <1>4

-----------------------------------------------------------------------------
(* The invariant is kept.                                                  *)

\* An empty screen is in line.
LEMMA NothingLined ==
  ASSUME shown = <<>>, offset = 0, hasMore = TRUE
  PROVE  Lined
<1>1. At(shown) = {} /\ Len(shown) = 0
  BY DEF At
<1>2. ~(0 > 0)
  OBVIOUS
<1>3. QED
  BY <1>1, <1>2 DEF Lined, Mine, Covered, Ascending

\* The first page is asked for on an empty screen.
LEMMA InitScreen == Init => ScreenInv
<1> SUFFICES ASSUME Init PROVE ScreenInv
  OBVIOUS
<1> DEFINE f == Fetch(view, 0, TRUE)
<1>1. view \in Sessions /\ shown = <<>> /\ offset = 0 /\ hasMore /\ loading
      /\ fetches = <<f>>
  BY DEF Init
<1>2. Shaped(f) /\ f.session = view /\ f.offset = 0 /\ f.waitsFor = "page"
  BY DEF Fetch, Shaped
<1> HIDE DEF f
<1>3. Call = f /\ fetches # <<>>
  BY <1>1 DEF Call
<1>4. Kept
  BY PagerAssumption DEF Init, Kept
<1>5. OneCall
  BY <1>1, <1>2, <1>3 DEF OneCall, Call
<1>6. Typed /\ Continues
  BY <1>1, <1>2, <1>3 DEF Typed, Continues
<1>7. Lined
  BY <1>1, NothingLined DEF Init
<1>8. QED
  BY <1>4, <1>5, <1>6, <1>7 DEF ScreenInv, Aligned

\* The call that takes a step is the only one.
LEMMA TheCall ==
  ASSUME ScreenInv, NEW i \in 1..Len(fetches)
  PROVE  /\ i = 1 /\ fetches # <<>> /\ fetches = <<Call>> /\ Shaped(Call) /\ loading = TRUE
         /\ fetches[i] = Call /\ RemoveAt(fetches, i) = <<>>
<1>1. fetches # <<>>
  OBVIOUS
<1>2. fetches = <<Call>> /\ Shaped(Call) /\ loading = TRUE
  BY <1>1 DEF ScreenInv, Kept, OneCall, Call
<1>3. i = 1
  <2>1. Len(<<Call>>) = 1
    OBVIOUS
  <2>2. QED
    BY <1>2, <2>1
<1>4. RemoveAt(<<Call>>, 1) = <<>>
  BY Removed
<1>5. QED
  BY <1>1, <1>2, <1>3, <1>4 DEF Call

\* A message that is older than the one stored has passed it, as has a client that asks
\* for no more.
LEMMA PassedBy ==
  ASSUME ScreenInv, NEW t
  PROVE  /\ ~hasMore \/ (\E r \in At(shown) : r < t) => Passed(t)
         /\ fetches # <<>> /\ Call.waitsFor = "client" =>
              (~MoreAfter(Call) \/ (\E r \in At(Call.page) : r < t) => Passed(t))
<1>1. ~hasMore => Passed(t)
  BY DEF Passed
<1>2. ASSUME NEW r \in At(shown), r < t PROVE Passed(t)
  <2>1. PICK i \in 1..Len(shown) : r = shown[i].at
    BY DEF At
  <2>2. shown[i] \in ToSet(shown)
    BY DEF ToSet, ScreenInv, Kept
  <2>3. QED
    BY <1>2, <2>1, <2>2 DEF Passed, Read
<1>3. ASSUME fetches # <<>>, Call.waitsFor = "client"
      PROVE  ~MoreAfter(Call) \/ (\E r \in At(Call.page) : r < t) => Passed(t)
  <2>1. Call \in ToSet(fetches) /\ Call.page \in Seq(Stored)
    <3>1. 1 \in 1..Len(fetches) /\ fetches = <<Call>>
      <4>1. fetches = <<Call>>
        BY <1>3 DEF ScreenInv, OneCall, Call
      <4>2. Len(<<Call>>) = 1
        OBVIOUS
      <4>3. QED
        BY <4>1, <4>2
    <3>2. 1 \in DOMAIN fetches
      <4>1. DOMAIN <<Call>> = 1..1
        OBVIOUS
      <4>2. QED
        BY <3>1, <4>1
    <3>3. QED
      BY <1>3, <3>2 DEF Call, ToSet, ScreenInv, Typed
  <2>2. Call \in Answered
    BY <1>3, <2>1 DEF Answered
  <2>3. ASSUME NEW r \in At(Call.page), r < t PROVE Passed(t)
    <3>1. PICK i \in 1..Len(Call.page) : r = Call.page[i].at
      BY DEF At
    <3>2. Call.page[i] \in ToSet(Call.page)
      BY <2>1 DEF ToSet
    <3>3. QED
      BY <2>2, <2>3, <3>1, <3>2 DEF Passed, Read
  <2>4. QED
    BY <2>2, <2>3 DEF Passed
<1>4. QED
  BY <1>1, <1>2, <1>3

\* A message that is stored is late, or comes behind all that was read and moves none.
LEMMA NewMessageScreen ==
  ASSUME ScreenInv, NEW s \in Sessions, NEW t \in Times, NewMessage(s, t)
  PROVE  ScreenInv'
<1>1. /\ UNCHANGED <<view, shown, offset, hasMore, loading, fits, fetches, hasty>>
      /\ rows' = [rows EXCEPT ![s] = @ \cup {t}]
      /\ late' = IF s = view /\ Passed(t) THEN late \cup {t} ELSE late
  BY DEF NewMessage, screen
<1>2. /\ rows \in [Sessions -> SUBSET Times] /\ view \in Sessions /\ offset \in Nat
      /\ shown \in Seq(Stored)
  BY DEF ScreenInv, Kept
<1>3. rows' \in [Sessions -> SUBSET Times]
  BY <1>1, <1>2
<1>4. Kept'
  BY <1>1, <1>3 DEF ScreenInv, Kept
<1>5. OneCall' /\ Typed'
  BY <1>1 DEF ScreenInv, OneCall, Typed, Room, Call, Shaped
<1>r. PICK R \in SUBSET Times : R = rows[view]
  BY <1>2
<1>q. PICK Q : Q = rows'[view]
  OBVIOUS
<1>6. CASE s # view
  <2>1. rows'[view] = rows[view] /\ late' = late
    BY <1>1, <1>2, <1>6
  <2>2. ~hasty => Lined'
    BY <1>1, <2>1 DEF ScreenInv, Aligned, Lined, Mine
  <2>3. ~hasty => Continues'
    BY <1>1, <2>1 DEF ScreenInv, Aligned, Continues, Call, Pending, Mine
  <2>4. QED
    BY <1>1, <1>4, <1>5, <2>2, <2>3 DEF ScreenInv, Aligned
<1>7. CASE s = view
  <2>1. Q = R \cup {t}
    BY <1>1, <1>2, <1>7, <1>r, <1>q
  <2>2. late \subseteq late' /\ (Passed(t) => t \in late') /\ (late' = {} => ~Passed(t) /\ late = {})
    BY <1>1, <1>7
  \* What was read, on the screen or on its way.
  <2>3. ASSUME NEW S, NEW off \in Nat, NEW done, Covered(R, late, S, off, done),
               done \/ (\E r \in S : r < t) => Passed(t)
        PROVE  /\ Covered(Q, late', S, off, done)
               /\ late' = {} => \A r \in S : Newer(Q, r) = Newer(R, r)
    <3>1. Covered(Q, late', S, off, done)
      BY <2>1, <2>2, <2>3, StoredCovers
    <3>2. ASSUME late' = {}, NEW r \in S PROVE Newer(Q, r) = Newer(R, r)
      <4>1. ~(r < t) /\ r \in Times
        BY <2>2, <2>3, <3>2 DEF Covered
      <4>2. QED
        BY <2>1, <4>1, PlaceAfter
    <3>3. QED
      BY <3>1, <3>2
  <2>4. ASSUME ~hasty PROVE Lined'
    <3>1. Lined
      BY <2>4 DEF ScreenInv, Aligned
    <3>2. Covered(R, late, At(shown), offset, ~hasMore)
      BY <3>1, <1>r DEF Lined
    <3>3. /\ Covered(Q, late', At(shown), offset, ~hasMore)
          /\ late' = {} => \A r \in At(shown) : Newer(Q, r) = Newer(R, r)
      BY <1>2, <2>3, <3>2, PassedBy
    <3>4. QED
      BY <1>1, <1>r, <1>q, <2>2, <3>1, <3>3 DEF Lined, Mine
  <2>5. ASSUME ~hasty PROVE Continues'
    <3>1. Continues /\ Call' = Call /\ fetches' = fetches
      BY <1>1, <2>5 DEF ScreenInv, Aligned, Call
    <3>2. ASSUME fetches # <<>>, Call.waitsFor = "client" PROVE Pending(Call)'
      <4>1. Pending(Call) /\ Call.page \in Seq(Stored)
        BY <3>1, <3>2 DEF ScreenInv, Typed, Continues
      <4>n. PICK n \in Nat : n = Len(Call.page)
        BY <4>1
      <4>2. Covered(R, late, At(shown) \cup At(Call.page), offset + n, ~MoreAfter(Call))
        BY <4>1, <1>r, <4>n DEF Pending
      <4>3. ~MoreAfter(Call) \/ (\E r \in At(shown) \cup At(Call.page) : r < t) => Passed(t)
        BY <3>2, PassedBy
      <4>4. offset + n \in Nat
        BY <1>2
      <4>5. /\ Covered(Q, late', At(shown) \cup At(Call.page), offset + n, ~MoreAfter(Call))
            /\ late' = {} => \A r \in At(shown) \cup At(Call.page) : Newer(Q, r) = Newer(R, r)
        BY <2>3, <4>2, <4>3, <4>4
      <4>6. QED
        BY <1>1, <1>r, <1>q, <2>2, <3>1, <4>1, <4>n, <4>5 DEF Pending, Mine, MoreAfter
    <3>3. QED
      BY <1>1, <3>1, <3>2 DEF Continues
  <2>6. QED
    BY <1>1, <1>4, <1>5, <2>4, <2>5 DEF ScreenInv, Aligned
<1>8. QED
  BY <1>6, <1>7

\* A session that is selected while nothing waits starts with nothing shown.
LEMMA SelectScreen ==
  ASSUME ScreenInv, NEW s \in Sessions, Select(s)
  PROVE  ScreenInv'
<1> DEFINE f == Fetch(s, 0, TRUE)
<1>1. /\ view' = s /\ shown' = <<>> /\ offset' = 0 /\ hasMore' = TRUE /\ fits' = TRUE
      /\ loading' = TRUE /\ late' = {} /\ rows' = rows
      /\ hasty' = (fetches # <<>>)
  BY DEF Select
<1>2. Shaped(f) /\ f.session = s /\ f.offset = 0 /\ f.waitsFor = "page"
  BY DEF Fetch, Shaped
<1>3. Kept'
  BY <1>1 DEF ScreenInv, Kept
<1>4. Lined'
  <2>1. (shown = <<>> /\ offset = 0 /\ hasMore = TRUE => Lined)'
    BY NothingLined, PTL
  <2>2. QED
    BY <1>1, <2>1
<1>5. CASE fetches = <<>>
  <2>1. ~loading /\ ~Room
    BY <1>5 DEF ScreenInv, OneCall
  <2>2. fetches' = <<f>>
    <3>1. /\ (IF loading THEN <<>> ELSE <<f>>) = <<f>>
          /\ (IF ~loading /\ hasMore /\ shown # <<>> /\ fits
              THEN <<Fetch(s, offset, FALSE)>> ELSE <<>>) = <<>>
      BY <2>1 DEF Room
    <3>2. fetches' = <<>> \o <<f>> \o <<>>
      BY <1>5, <3>1 DEF Select
    <3> HIDE DEF f
    <3>3. QED
      BY <3>2
  <2> HIDE DEF f
  <2>3. fetches'[1] = f /\ fetches' # <<>> /\ fetches' = <<fetches'[1]>>
    BY <2>2
  <2>4. Call' = f /\ Shaped(fetches[1])'
    BY <1>2, <2>3 DEF Call, Shaped
  <2>5. OneCall'
    BY <1>1, <2>3, <2>4 DEF OneCall
  <2>6. Typed' /\ Continues'
    BY <1>1, <1>2, <2>3, <2>4 DEF Typed, Continues
  <2>7. QED
    BY <1>3, <1>4, <2>5, <2>6 DEF ScreenInv, Aligned
<1>6. CASE fetches # <<>>
  <2>1. loading /\ fetches = <<fetches[1]>>
    BY <1>6 DEF ScreenInv, OneCall
  <2>2. fetches' = fetches
    <3>1. fetches' = fetches \o <<>> \o <<>>
      BY <2>1 DEF Select
    <3>2. QED
      BY <2>1, <3>1
  <2>3. OneCall'
    BY <1>1, <1>6, <2>2 DEF ScreenInv, OneCall, Shaped
  <2>4. Typed'
    BY <2>2 DEF ScreenInv, Typed, Call
  <2>5. hasty'
    BY <1>1, <1>6
  <2>6. QED
    BY <1>3, <2>3, <2>4, <2>5 DEF ScreenInv, Aligned
<1>7. QED
  BY <1>5, <1>6

\* A page asked for by hand is the one before those shown.
LEMMA ScrollScreen == ScreenInv /\ Scroll => ScreenInv'
<1> SUFFICES ASSUME ScreenInv, Scroll PROVE ScreenInv'
  OBVIOUS
<1> DEFINE f == Fetch(view, offset, FALSE)
<1>1. /\ UNCHANGED <<rows, view, shown, offset, hasMore, fits, hasty, late>>
      /\ loading' = TRUE /\ fetches' = Append(fetches, f) /\ ~loading
  BY DEF Scroll
<1>2. view \in Sessions /\ offset \in Nat
  BY DEF ScreenInv, Kept
<1>3. Shaped(f) /\ f.session = view /\ f.offset = offset /\ ~f.reset
      /\ f.waitsFor = "page"
  BY DEF Fetch, Shaped
<1> HIDE DEF f
<1>4. fetches' = <<f>>
  <2>1. fetches = <<>>
    BY <1>1 DEF ScreenInv, OneCall
  <2>2. QED
    BY <1>1, <2>1
<1>5. fetches'[1] = f /\ fetches' # <<>> /\ fetches' = <<fetches'[1]>>
  BY <1>4
<1>6. Call' = f /\ Shaped(fetches[1])'
  BY <1>3, <1>5 DEF Call, Shaped
<1>7. Kept' /\ OneCall'
  BY <1>1, <1>5, <1>6 DEF ScreenInv, Kept, OneCall
<1>8. Typed' /\ Continues'
  BY <1>1, <1>2, <1>3, <1>5, <1>6 DEF Typed, Continues
<1>9. ~hasty => Lined'
  BY <1>1 DEF ScreenInv, Aligned, Lined, Mine
<1>10. QED
  BY <1>1, <1>7, <1>8, <1>9 DEF ScreenInv, Aligned

\* A call that is over leaves the screen to the next one.
LEMMA OverScreen ==
  ASSUME ScreenInv, fetches # <<>>, AutoLoad(FALSE, <<>>), UNCHANGED <<rows, view, hasty>>,
         shown' \in Seq(Stored), offset' \in Nat, ~hasty => Lined'
  PROVE  ScreenInv'
<1>1. /\ OneCall'
      /\ fetches' # <<>> =>
           /\ Call'.session = view' /\ Call'.offset = offset' /\ ~Call'.reset
           /\ Call'.waitsFor = "page"
  BY Over DEF ScreenInv, Kept
<1>2. loading' \in BOOLEAN
  BY DEF AutoLoad
<1>3. Kept'
  BY <1>2 DEF ScreenInv, Kept
<1>4. Typed' /\ Continues'
  BY <1>1, <1>3 DEF Typed, Continues, Kept
<1>5. QED
  BY <1>1, <1>3, <1>4 DEF ScreenInv, Aligned

\* A page: the messages from the offset on, PageSize of them at the most.
LEMMA PageShape ==
  ASSUME Kept, NEW s \in Sessions, NEW off \in Nat
  PROVE  \E n \in Nat :
           /\ Page(s, off) \in Seq(Stored) /\ Len(Page(s, off)) = n
           /\ n # PageSize => Cardinality(rows[s]) <= off + n
           /\ n > 0 => off + n <= Cardinality(rows[s])
           /\ \A i \in 1..n :
                /\ Page(s, off)[i].session = s
                /\ Page(s, off)[i].at \in rows[s]
                /\ Newer(rows[s], Page(s, off)[i].at) = off + n - i
<1>r. PICK R \in SUBSET Times : R = rows[s]
  BY DEF Kept
<1>c. PICK c \in Nat : c = Cardinality(R)
  <2>1. IsFiniteSet(R)
    BY TimesFinite, FS_Subset
  <2>2. QED
    BY <2>1, FS_CardinalityType
<1> DEFINE left == IF c > off THEN c - off ELSE 0
           n == IF left < PageSize THEN left ELSE PageSize
           nth(i) == CHOOSE t \in R : Newer(R, t) = off + n - i
           page == [i \in 1..n |-> Message(s, nth(i))]
<1>1. left \in Nat /\ PageSize \in Nat \ {0}
  BY PagerAssumption
<1>2. n \in Nat /\ n <= left /\ (n # PageSize => n = left)
  BY <1>1
<1>3. (n # PageSize => c <= off + n) /\ (n > 0 => off + n <= c)
  BY <1>2
<1>4. Page(s, off) = page
  BY <1>r, <1>c DEF Page
<1> HIDE DEF left, n
<1>5. ASSUME NEW i \in 1..n PROVE nth(i) \in R /\ Newer(R, nth(i)) = off + n - i
  <2>1. off + n - i \in Nat /\ off + n - i < c
    BY <1>2, <1>3
  <2>2. \E t \in R : Newer(R, t) = off + n - i
    BY <1>c, <2>1, EveryPlace
  <2>3. QED
    BY <2>2
<1> HIDE DEF nth
<1>6. \A i \in 1..n : Message(s, nth(i)) \in Stored
  BY <1>5 DEF Stored, Message
<1>7. page \in Seq(Stored) /\ Len(page) = n
  BY <1>2, <1>6
<1>8. \A i \in 1..n : page[i].session = s /\ page[i].at = nth(i)
  BY DEF Message
<1> HIDE DEF page
<1>9. \A i \in 1..n : /\ page[i].session = s /\ page[i].at \in R
                       /\ Newer(R, page[i].at) = off + n - i
  BY <1>5, <1>8
<1>10. QED
  BY <1>r, <1>c, <1>2, <1>3, <1>4, <1>7, <1>9

\* A page of n messages that lies at the places from off on.
PageAt(R, off, p, n) ==
  /\ Len(p) = n
  /\ \A i \in 1..n : p[i].at \in R /\ Newer(R, p[i].at) = off + n - i

\* It holds what is at these places, in order.
Reads(R, off, p, n) ==
  /\ Ascending(p)
  /\ \A t \in At(p) : t \in R /\ off <= Newer(R, t) /\ Newer(R, t) < off + n
  /\ \A t \in R : off <= Newer(R, t) /\ Newer(R, t) < off + n => t \in At(p)
  /\ n > 0 => \E t \in At(p) : off + n <= Newer(R, t) + 1

\* A page brings the messages at its places.
LEMMA PageReads ==
  ASSUME NEW R \in SUBSET Times, NEW off \in Nat, NEW p \in Seq(Stored), NEW n \in Nat,
         PageAt(R, off, p, n)
  PROVE  Reads(R, off, p, n)
<1> USE DEF PageAt
<1>1. ASSUME NEW i \in 1..n, NEW j \in 1..n, i < j PROVE p[i].at < p[j].at
  <2>1. off + n - j < off + n - i
    BY <1>1
  <2>2. QED
    BY <2>1, PlaceTells
<1>2. ASSUME NEW t \in At(p) PROVE t \in R /\ off <= Newer(R, t) /\ Newer(R, t) < off + n
  <2>1. PICK i \in 1..n : t = p[i].at
    BY DEF At
  <2>2. off <= off + n - i /\ off + n - i < off + n
    OBVIOUS
  <2>3. QED
    BY <2>1, <2>2
<1>3. ASSUME NEW t \in R, off <= Newer(R, t), Newer(R, t) < off + n PROVE t \in At(p)
  <2>1. Newer(R, t) \in Nat
    BY NewerNat
  <2>2. PICK i \in 1..n : Newer(R, t) = off + n - i
    <3>1. PICK k \in Nat : k = Newer(R, t)
      BY <2>1
    <3>2. off + n - k \in 1..n /\ k = off + n - (off + n - k)
      BY <1>3, <3>1
    <3>3. QED
      BY <3>1, <3>2
  <2>3. t = p[i].at
    BY <2>2, PlaceTells
  <2>4. QED
    BY <2>3 DEF At
<1>4. ASSUME n > 0 PROVE \E t \in At(p) : off + n <= Newer(R, t) + 1
  <2>1. 1 \in 1..n
    BY <1>4
  <2>2. p[1].at \in At(p) /\ Newer(R, p[1].at) = off + n - 1
    BY <2>1 DEF At
  <2>3. off + n <= (off + n - 1) + 1
    OBVIOUS
  <2>4. QED
    BY <2>2, <2>3
<1>5. QED
  BY <1>1, <1>2, <1>3, <1>4 DEF Ascending, Reads

\* The page that is read is the one before those shown.
LEMMA AnswerScreen ==
  ASSUME ScreenInv, NEW i \in 1..Len(fetches), Answer(i)
  PROVE  ScreenInv'
<1> PICK p : p = Page(Call.session, Call.offset)
  OBVIOUS
<1>1. /\ UNCHANGED <<rows, view, shown, offset, hasMore, loading, fits, hasty, late>>
      /\ fetches' = [fetches EXCEPT ![i].page = Page(fetches[i].session, fetches[i].offset),
                                    ![i].waitsFor = "client"]
      /\ fetches[i].waitsFor = "page"
  BY DEF Answer, screen
<1>2. /\ i = 1 /\ fetches # <<>> /\ fetches = <<Call>> /\ Shaped(Call) /\ loading = TRUE
      /\ fetches[i] = Call
  BY TheCall
<1>3. Call.session \in Sessions /\ Call.offset \in Nat /\ Kept
  BY <1>2 DEF ScreenInv, Typed
<1>4. PICK n \in Nat :
           /\ p \in Seq(Stored) /\ Len(p) = n
           /\ n # PageSize => Cardinality(rows[Call.session]) <= Call.offset + n
           /\ \A j \in 1..n : /\ p[j].session = Call.session
                               /\ p[j].at \in rows[Call.session]
                               /\ Newer(rows[Call.session], p[j].at) = Call.offset + n - j
  BY <1>3, PageShape
<1> PICK f : f = [Call EXCEPT !.page = p, !.waitsFor = "client"]
  OBVIOUS
<1>5. fetches' = <<f>>
  <2>1. fetches' = [<<Call>> EXCEPT ![1].page = p, ![1].waitsFor = "client"]
    BY <1>1, <1>2
  <2>2. QED
    BY <2>1
<1>6. Shaped(f) /\ f.session = Call.session /\ f.offset = Call.offset
      /\ (f.reset <=> Call.reset) /\ f.waitsFor = "client" /\ f.page = p
  BY <1>2 DEF Shaped
<1>7. Call' = f /\ fetches' # <<>> /\ fetches' = <<fetches'[1]>> /\ Shaped(fetches[1])'
  BY <1>5, <1>6 DEF Call, Shaped
<1>8. Kept' /\ OneCall'
  BY <1>1, <1>2, <1>7 DEF ScreenInv, Kept, OneCall
<1>9. Typed'
  BY <1>1, <1>3, <1>4, <1>6, <1>7 DEF Typed
<1>10. ASSUME ~hasty PROVE Lined' /\ Continues'
  <2>1. Lined /\ Continues
    BY <1>10 DEF ScreenInv, Aligned
  <2>2. Lined'
    BY <1>1, <2>1 DEF Lined, Mine
  <2>3. Call.session = view /\ Call.offset = offset /\ (Call.reset => shown = <<>>)
    BY <1>1, <1>2, <2>1 DEF Continues
  <2>r. PICK R \in SUBSET Times : R = rows[view]
    BY <1>3 DEF Kept
  <2>4. offset \in Nat /\ Covered(R, late, At(shown), offset, ~hasMore)
    BY <1>3, <2>1, <2>r DEF Kept, Lined
  <2>5. /\ Ascending(p)
        /\ \A t \in At(p) : t \in R /\ offset <= Newer(R, t) /\ Newer(R, t) < offset + n
        /\ \A t \in R : offset <= Newer(R, t) /\ Newer(R, t) < offset + n => t \in At(p)
        /\ n > 0 => \E t \in At(p) : offset + n <= Newer(R, t) + 1
    <3>1. PageAt(R, offset, p, n)
      BY <1>4, <2>3, <2>r DEF PageAt
    <3>2. p \in Seq(Stored)
      BY <1>4
    <3>3. offset \in Nat
      BY <2>4
    <3>4. Reads(R, offset, p, n)
      BY <3>1, <3>2, <3>3, PageReads
    <3>5. QED
      BY <3>4 DEF Reads
  <2>6. Pending(f)'
    <3>1. n # PageSize => Cardinality(R) <= offset + n
      BY <1>4, <2>3, <2>r
    <3>2. Covered(R, late, At(shown) \cup At(p), offset + n, n # PageSize)
      BY <2>4, <2>5, <3>1, PageCovers
    <3>3. \A j \in 1..Len(p) : p[j].session = view
      BY <1>4, <2>3
    <3>4. QED
      BY <1>1, <1>4, <1>6, <2>r, <2>5, <3>2, <3>3 DEF Pending, Mine, MoreAfter
  <2>7. Continues'
    BY <1>1, <1>6, <1>7, <2>3, <2>6 DEF Continues
  <2>8. QED
    BY <2>2, <2>7
<1>11. QED
  BY <1>1, <1>8, <1>9, <1>10 DEF ScreenInv, Aligned

\* Tool calls change no message.
LEMMA ToolCallsScreen ==
  ASSUME ScreenInv, NEW i \in 1..Len(fetches), ToolCalls(i) \/ Fail(i)
  PROVE  ScreenInv'
<1>1. /\ UNCHANGED <<rows, view, shown, offset, hasMore, hasty, late>>
      /\ AutoLoad(FALSE, RemoveAt(fetches, i))
  BY DEF ToolCalls, Fail
<1>2. AutoLoad(FALSE, <<>>) /\ fetches # <<>>
  BY <1>1, TheCall
<1>3. ~hasty => Lined'
  BY <1>1 DEF ScreenInv, Aligned, Lined, Mine
<1>4. QED
  BY <1>1, <1>2, <1>3, OverScreen DEF ScreenInv, Kept

\* A page put before what is shown continues it.
LEMMA PageBefore ==
  ASSUME NEW p \in Seq(Stored), NEW s \in Seq(Stored)
  PROVE  /\ p \o s \in Seq(Stored) /\ Len(p \o s) = Len(p) + Len(s)
         /\ Len(p) \in Nat /\ Len(s) \in Nat
         /\ \A i \in 1..Len(p) : (p \o s)[i] = p[i]
         /\ \A i \in 1..Len(s) : (p \o s)[Len(p) + i] = s[i]
         /\ \A i \in 1..Len(p \o s) :
              i \in 1..Len(p) \/ \E j \in 1..Len(s) : i = Len(p) + j
<1>1. /\ p \o s \in Seq(Stored) /\ Len(p \o s) = Len(p) + Len(s)
      /\ Len(p) \in Nat /\ Len(s) \in Nat
      /\ \A i \in 1..Len(p) : (p \o s)[i] = p[i]
      /\ \A i \in 1..Len(s) : (p \o s)[Len(p) + i] = s[i]
  OBVIOUS
<1>2. ASSUME NEW i \in 1..(Len(p) + Len(s)), i \notin 1..Len(p)
      PROVE  \E j \in 1..Len(s) : i = Len(p) + j
  <2>1. i - Len(p) \in 1..Len(s) /\ i = Len(p) + (i - Len(p))
    BY <1>1, <1>2
  <2>2. QED
    BY <2>1
<1>3. QED
  BY <1>1, <1>2

\* A page put before those shown is in line with them.
LEMMA LinedAfter ==
  ASSUME Kept, Lined, NEW f, f.page \in Seq(Stored), Pending(f),
         shown' = f.page \o shown, offset' = offset + Len(f.page),
         hasMore' <=> MoreAfter(f), UNCHANGED <<rows, view, late>>
  PROVE  Lined'
<1>p. PICK p : p = f.page
  OBVIOUS
<1>t. PICK q : q = p \o shown
  OBVIOUS
<1>n. PICK n : n = Len(p)
  OBVIOUS
<1>r. PICK R \in SUBSET Times : R = rows[view]
  BY DEF Kept
<1>1. shown \in Seq(Stored) /\ offset \in Nat /\ p \in Seq(Stored)
  BY <1>p DEF Kept
<1>2. /\ Len(q) = n + Len(shown) /\ n \in Nat /\ Len(shown) \in Nat
      /\ \A i \in 1..n : q[i] = p[i]
      /\ \A i \in 1..Len(shown) : q[n + i] = shown[i]
      /\ \A i \in 1..Len(q) : i \in 1..n \/ \E j \in 1..Len(shown) : i = n + j
  <2>1. /\ Len(p \o shown) = Len(p) + Len(shown) /\ Len(p) \in Nat /\ Len(shown) \in Nat
        /\ \A i \in 1..Len(p) : (p \o shown)[i] = p[i]
        /\ \A i \in 1..Len(shown) : (p \o shown)[Len(p) + i] = shown[i]
        /\ \A i \in 1..Len(p \o shown) :
             i \in 1..Len(p) \/ \E j \in 1..Len(shown) : i = Len(p) + j
    BY <1>1, PageBefore
  <2>2. QED
    BY <1>t, <1>n, <2>1
<1>3. At(q) = At(p) \cup At(shown)
  <2>1. \A i \in 1..n : i \in 1..Len(q)
    BY <1>2
  <2>2. \A i \in 1..Len(shown) : n + i \in 1..Len(q)
    BY <1>2
  <2>3. ASSUME NEW t \in At(q) PROVE t \in At(p) \cup At(shown)
    <3>1. PICK i \in 1..Len(q) : t = q[i].at
      BY DEF At
    <3>2. CASE i \in 1..n
      <4>1. q[i].at = p[i].at
        BY <1>2, <3>2
      <4>2. QED
        BY <1>n, <3>1, <3>2, <4>1 DEF At
    <3>3. ASSUME NEW j \in 1..Len(shown), i = n + j PROVE t \in At(shown)
      <4>1. q[i].at = shown[j].at
        BY <1>2, <3>3
      <4>2. QED
        BY <3>1, <4>1 DEF At
    <3>4. QED
      BY <1>2, <3>2, <3>3
  <2>4. ASSUME NEW t \in At(p) PROVE t \in At(q)
    <3>1. PICK i \in 1..n : t = p[i].at
      BY <1>n DEF At
    <3>2. i \in 1..Len(q) /\ t = q[i].at
      BY <1>2, <2>1, <3>1
    <3>3. QED
      BY <3>2 DEF At
  <2>5. ASSUME NEW t \in At(shown) PROVE t \in At(q)
    <3>1. PICK i \in 1..Len(shown) : t = shown[i].at
      BY DEF At
    <3>2. n + i \in 1..Len(q) /\ t = q[n + i].at
      BY <1>2, <2>2, <3>1
    <3>3. PICK j \in 1..Len(q) : t = q[j].at
      BY <3>2
    <3>4. QED
      BY <3>3 DEF At
  <2>6. QED
    BY <2>3, <2>4, <2>5
<1>4. \A i \in 1..Len(q) : q[i].session = view
  <2>1. /\ \A i \in 1..n : p[i].session = view
        /\ \A i \in 1..Len(shown) : shown[i].session = view
    BY <1>p, <1>n DEF Lined, Pending, Mine
  <2>2. QED
    BY <1>2, <2>1
<1>5. Covered(R, late, At(q), offset + n, ~MoreAfter(f))
  <2>1. Covered(R, late, At(shown) \cup At(p), offset + n, ~MoreAfter(f))
    BY <1>p, <1>n, <1>r DEF Pending
  <2>2. At(shown) \cup At(p) = At(q)
    BY <1>3
  <2>3. QED
    BY <2>1, <2>2
<1>6. ASSUME late = {}
      PROVE  /\ \A i, j \in 1..Len(q) : i < j => q[i].at < q[j].at
             /\ \A t \in At(q) : Newer(R, t) < offset + n
  <2>1. /\ \A i, j \in 1..n : i < j => p[i].at < p[j].at
        /\ \A i, j \in 1..Len(shown) : i < j => shown[i].at < shown[j].at
        /\ \A t \in At(p) : offset <= Newer(R, t) /\ Newer(R, t) < offset + n
        /\ \A t \in At(shown) : Newer(R, t) < offset
    BY <1>6, <1>p, <1>n, <1>r DEF Lined, Pending, Ascending
  <2>2. At(p) \subseteq R /\ At(shown) \subseteq R
    BY <1>3, <1>5 DEF Covered
  <2>3. \A t \in R : Newer(R, t) \in Nat
    BY NewerNat
  <2>4. \A i \in 1..n, j \in 1..Len(shown) : p[i].at < shown[j].at
    <3>1. ASSUME NEW i \in 1..n, NEW j \in 1..Len(shown) PROVE p[i].at < shown[j].at
      <4>1. p[i].at \in At(p) /\ shown[j].at \in At(shown)
        BY <1>n DEF At
      <4>2. Newer(R, shown[j].at) < Newer(R, p[i].at)
        BY <1>1, <2>1, <2>2, <2>3, <4>1
      <4>3. QED
        BY <2>2, <4>1, <4>2, PlaceTells
    <3>2. QED
      BY <3>1
  <2>5. ASSUME NEW i \in 1..Len(q), NEW j \in 1..Len(q), i < j PROVE q[i].at < q[j].at
    <3>1. CASE i \in 1..n /\ j \in 1..n
      BY <1>2, <2>1, <2>5, <3>1
    <3>2. ASSUME i \in 1..n, NEW l \in 1..Len(shown), j = n + l PROVE q[i].at < q[j].at
      BY <1>2, <2>4, <3>2
    <3>3. ASSUME NEW k \in 1..Len(shown), i = n + k, NEW l \in 1..Len(shown), j = n + l
          PROVE  q[i].at < q[j].at
      <4>1. k < l
        BY <1>2, <2>5, <3>3
      <4>2. QED
        BY <1>2, <2>1, <3>3, <4>1
    <3>4. ASSUME j \in 1..n, NEW k \in 1..Len(shown), i = n + k PROVE FALSE
      BY <1>2, <2>5, <3>4
    <3>5. QED
      BY <1>2, <3>1, <3>2, <3>3, <3>4
  <2>6. ASSUME NEW t \in At(q) PROVE Newer(R, t) < offset + n
    <3>1. CASE t \in At(p)
      BY <2>1, <3>1
    <3>2. CASE t \in At(shown)
      <4>1. Newer(R, t) \in Nat /\ Newer(R, t) < offset
        BY <2>1, <2>2, <2>3, <3>2
      <4>2. QED
        BY <1>1, <1>2, <4>1
    <3>3. QED
      BY <1>3, <3>1, <3>2
  <2>7. QED
    BY <2>5, <2>6
<1>7. /\ shown' = q /\ offset' = offset + n /\ (~hasMore' <=> ~MoreAfter(f))
      /\ rows'[view'] = R /\ view' = view /\ late' = late
  BY <1>p, <1>t, <1>n, <1>r
<1>8. Covered(R, late, At(q), offset + n, ~hasMore')
  BY <1>5, <1>7 DEF Covered
<1>9. QED
  BY <1>4, <1>6, <1>7, <1>8 DEF Lined, Mine, Ascending

\* The screen with the page on it.
LEMMA ApplyScreen ==
  ASSUME ScreenInv, NEW i \in 1..Len(fetches), Apply(i)
  PROVE  ScreenInv'
<1> PICK f : f = Call
  OBVIOUS
<1> PICK toLoad : toLoad = SelectSeq(f.page, LAMBDA m : m \notin logs)
  OBVIOUS
<1>1. /\ i = 1 /\ fetches # <<>> /\ fetches = <<f>> /\ Shaped(f) /\ loading = TRUE
      /\ fetches[i] = f /\ RemoveAt(fetches, i) = <<>>
  BY TheCall
<1>2. /\ f.waitsFor = "client" /\ shown' = Extended(f) /\ offset' = NextOffset(f)
      /\ hasMore' = MoreAfter(f) /\ UNCHANGED <<rows, view, logs, hasty, late>>
      /\ IF toLoad = <<>>
         THEN AutoLoad(FALSE, <<>>)
         ELSE AutoLoad(loading, [fetches EXCEPT ![i].page = toLoad, ![i].waitsFor = "tools"])
  BY <1>1 DEF Apply
<1>3. Kept /\ f.page \in Seq(Stored) /\ f.offset \in Nat /\ f.session \in Sessions
      /\ shown \in Seq(Stored)
  BY <1>1, <1>2 DEF ScreenInv, Typed, Kept
<1>4. shown' \in Seq(Stored) /\ offset' \in Nat
  BY <1>2, <1>3 DEF Extended, NextOffset
<1>5. ASSUME ~hasty PROVE Lined'
  <2>1. /\ Lined /\ f.session = view /\ f.offset = offset /\ (f.reset => shown = <<>>)
        /\ Pending(f)
    BY <1>1, <1>2, <1>5 DEF ScreenInv, Aligned, Continues
  <2>2. shown' = f.page \o shown
    BY <1>2, <1>3, <2>1 DEF Extended
  <2>3. offset' = offset + Len(f.page) /\ (hasMore' <=> MoreAfter(f))
    BY <1>2, <2>1 DEF NextOffset
  <2>4. QED
    BY <1>2, <1>3, <2>1, <2>2, <2>3, LinedAfter
<1>6. CASE toLoad = <<>>
  BY <1>1, <1>2, <1>4, <1>5, <1>6, OverScreen
\* The call waits for the tool calls of its messages: the page is forgotten.
<1>7. CASE toLoad # <<>>
  <2>1. loading' = TRUE
    BY <1>1, <1>2, <1>7 DEF AutoLoad
  <2> PICK g : g = [f EXCEPT !.page = toLoad, !.waitsFor = "tools"]
    OBVIOUS
  <2>2. fetches' = <<g>>
    <3>1. fetches' = [<<f>> EXCEPT ![1].page = toLoad, ![1].waitsFor = "tools"]
      BY <1>1, <1>2, <1>7 DEF AutoLoad
    <3>2. QED
      BY <3>1
  <2>3. Shaped(g) /\ g.session = f.session /\ g.offset = f.offset /\ g.waitsFor = "tools"
    BY <1>1 DEF Shaped
  <2>4. Call' = g /\ fetches' # <<>> /\ fetches' = <<fetches'[1]>> /\ Shaped(fetches[1])'
    BY <2>2, <2>3 DEF Call, Shaped
  <2>5. Kept' /\ OneCall'
    BY <1>2, <1>3, <1>4, <2>1, <2>4 DEF Kept, OneCall
  <2>6. Typed' /\ Continues'
    BY <1>2, <1>3, <2>3, <2>4 DEF Typed, Continues
  <2>7. QED
    BY <1>2, <1>5, <2>5, <2>6 DEF ScreenInv, Aligned
<1>8. QED
  BY <1>6, <1>7

\* Every step keeps what is said of the screen.
LEMMA StepScreen == ScreenInv /\ [Next]_vars => ScreenInv'
<1> SUFFICES ASSUME ScreenInv, [Next]_vars PROVE ScreenInv'
  OBVIOUS
<1>1. CASE Scroll
  BY <1>1, ScrollScreen
<1>2. CASE \E s \in Sessions : Select(s) \/ \E t \in Times : NewMessage(s, t)
  BY <1>2, NewMessageScreen, SelectScreen
<1>3. CASE \E i \in 1..Len(fetches) : Step(i)
  BY <1>3, AnswerScreen, ApplyScreen, ToolCallsScreen DEF Step
<1>4. CASE UNCHANGED vars
  <2>1. UNCHANGED <<rows, view, shown, offset, hasMore, loading, fits, fetches, hasty,
                    late>>
    BY <1>4 DEF vars, screen
  <2>2. Kept' /\ OneCall' /\ Typed'
    BY <2>1 DEF ScreenInv, Kept, OneCall, Typed, Call, Room, Shaped
  <2>3. ~hasty => Lined'
    BY <2>1 DEF ScreenInv, Aligned, Lined, Mine
  <2>4. ~hasty => Continues'
    BY <2>1 DEF ScreenInv, Aligned, Continues, Call, Pending, Mine
  <2>5. QED
    BY <2>1, <2>2, <2>3, <2>4 DEF ScreenInv, Aligned
<1>5. QED
  BY <1>1, <1>2, <1>3, <1>4 DEF Next

\* ScreenInv is kept throughout.
LEMMA ScreenInvariant == Spec => []ScreenInv
  BY InitScreen, StepScreen, PTL DEF Spec

\* A screen that was not selected in a hurry shows messages of its session only.
THEOREM OwnScreen == Spec => []OwnMessages
<1>1. ScreenInv => OwnMessages
  BY DEF ScreenInv, Aligned, Lined, Mine, OwnMessages
<1>2. QED
  BY <1>1, ScreenInvariant, PTL

\* What is neither shown nor late was not read.
LEMMA MissingUnread ==
  ASSUME ScreenInv, ~hasty, NEW t \in Missing
  PROVE  t \in rows[view] /\ t \notin At(shown) \cup late
<1>1. t \in rows[view] /\ t \notin late /\ Message(view, t) \notin ToSet(shown)
  BY DEF Missing
<1>2. ASSUME NEW i \in 1..Len(shown), shown[i].at = t PROVE FALSE
  <2>1. shown \in Seq(Stored) /\ shown[i].session = view
    BY DEF ScreenInv, Kept, Aligned, Lined, Mine
  <2>2. shown[i] \in Stored /\ shown[i] \in ToSet(shown)
    BY <2>1 DEF ToSet
  <2>3. shown[i] = Message(view, t)
    BY <1>2, <2>1, <2>2 DEF Stored, Message
  <2>4. QED
    BY <1>1, <2>2, <2>3
<1>3. QED
  BY <1>1, <1>2 DEF At

\* Wherever messages are stored while pages are loaded, none is left out that is newer than
\* one that is shown, but those that came when the client had read an older one.
THEOREM NothingSkipped == Spec => []NoGap
<1>1. ASSUME ScreenInv PROVE NoGap
  <2>1. SUFFICES ASSUME ~hasty, NEW t \in Missing, NEW i \in 1..Len(shown)
                 PROVE  t < shown[i].at
    BY DEF NoGap
  <2>2. /\ t \in rows[view] /\ t \notin At(shown) \cup late
        /\ Covered(rows[view], late, At(shown), offset, ~hasMore)
    BY <1>1, <2>1, MissingUnread DEF ScreenInv, Aligned, Lined
  <2>3. shown[i].at \in At(shown)
    BY DEF At
  <2>4. ~(shown[i].at < t) /\ shown[i].at # t
    BY <2>2, <2>3 DEF Covered
  <2>5. t \in Times /\ shown[i].at \in Times
    BY <1>1, <2>2, <2>3 DEF ScreenInv, Kept, Covered
  <2>6. QED
    BY <2>4, <2>5 DEF Times
<1>2. QED
  BY <1>1, ScreenInvariant, PTL

\* If none comes late, those shown are in order and none is shown twice.
THEOREM NothingTwice == Spec => []NoRepeat
<1>1. ScreenInv => NoRepeat
  BY DEF ScreenInv, Aligned, Lined, Ascending, NoRepeat
<1>2. QED
  BY <1>1, ScreenInvariant, PTL

\* A client that asks for no more shows every message of the session, but those that came
\* late.
THEOREM AllAreShown == Spec => []AllShown
<1>1. ASSUME ScreenInv PROVE AllShown
  <2>1. SUFFICES ASSUME ~hasty, ~hasMore, NEW t \in Missing PROVE FALSE
    BY DEF AllShown
  <2>2. /\ t \in rows[view] /\ t \notin At(shown) \cup late
        /\ Covered(rows[view], late, At(shown), offset, ~hasMore)
    BY <1>1, <2>1, MissingUnread DEF ScreenInv, Aligned, Lined
  <2>3. QED
    BY <2>1, <2>2 DEF Covered
<1>2. QED
  BY <1>1, ScreenInvariant, PTL

-----------------------------------------------------------------------------
(* How long loading goes on.                                               *)

\* Failures stay within the bound of the model, and a call is at one of its three places.
Bounded ==
  /\ failures \in 0..MaxFailures
  /\ fetches # <<>> => Call.waitsFor \in {"page", "client", "tools"}

LoadingInv == ScreenInv /\ Bounded

\* The steps that messages from an offset on may still cost, if each comes in a page of its
\* own: the page is read, put on the screen, and its tool calls are loaded.
Rest(off) == IF off < MaxMessages THEN 4 * (MaxMessages - off) ELSE 0

\* The steps left for the call that waits and those the effect makes after it.
CallLeft ==
  CASE Call.waitsFor = "page" -> Rest(Call.offset) + 3
    [] Call.waitsFor = "client" ->
         IF MoreAfter(Call) THEN Rest(NextOffset(Call)) + 5 ELSE 2
    [] Call.waitsFor = "tools" -> IF hasMore THEN Rest(offset) + 4 ELSE 1

ScreenLeft == IF fetches = <<>> THEN 0 ELSE CallLeft

\* More than any screen has left: what a failure, after which all is tried again, costs.
FailureLength == 4 * MaxMessages + 6

LoadLeft == (MaxFailures - failures) * FailureLength + ScreenLeft

\* While the client loads, whatever happens but a message stored elsewhere brings it nearer
\* to rest, unless the user selects another session.
ComesToRest ==
  loading =>
    \/ LoadLeft' < LoadLeft
    \/ LoadLeft' = LoadLeft /\ \E s \in Sessions, t \in Times : NewMessage(s, t)
    \/ \E s \in Sessions : Select(s)

\* What the effect leaves behind is a call for a page, as there are more, or none.
LEMMA OverLeavesPage ==
  ASSUME ScreenInv, fetches # <<>>, AutoLoad(FALSE, <<>>), view' = view
  PROVE  fetches' # <<>> =>
           hasMore' /\ Call'.waitsFor = "page" /\ Call'.offset = offset'
<1>1. fetches' # <<>> => Call'.waitsFor = "page" /\ Call'.offset = offset'
  BY Over DEF ScreenInv, Kept
<1>2. fetches' # <<>> => hasMore'
  BY DEF AutoLoad
<1>3. QED
  BY <1>1, <1>2

\* The bounds hold at first.
LEMMA InitBounded == Init => Bounded
  BY PagerAssumption DEF Init, Bounded, Call, Fetch

\* Every step stays within the bounds.
LEMMA StepBounded == LoadingInv /\ [Next]_vars => Bounded'
<1> SUFFICES ASSUME LoadingInv, [Next]_vars PROVE Bounded'
  OBVIOUS
<1>b. ScreenInv /\ Bounded
  BY DEF LoadingInv
<1>p. MaxMessages \in Nat /\ MaxFailures \in Nat
  BY PagerAssumption
<1>1. CASE Scroll
  <2>1. fetches = <<>> /\ UNCHANGED <<rows, failures>>
    BY <1>b, <1>1 DEF Scroll, ScreenInv, OneCall
  <2>2. fetches' = Append(<<>>, Fetch(view, offset, FALSE))
    BY <1>1, <2>1 DEF Scroll
  <2>3. Call' = Fetch(view, offset, FALSE)
    BY <2>2 DEF Call
  <2>4. QED
    BY <1>b, <2>1, <2>3 DEF Bounded, Fetch
<1>2. ASSUME NEW s \in Sessions, NEW t \in Times, NewMessage(s, t) PROVE Bounded'
  BY <1>b, <1>2 DEF NewMessage, Bounded, Call
<1>3. ASSUME NEW s \in Sessions, Select(s) PROVE Bounded'
  <2>1. UNCHANGED <<rows, failures>>
    BY <1>3 DEF Select
  <2>2. CASE fetches = <<>>
    <3>1. ~loading /\ ~Room
      BY <1>b, <2>2 DEF ScreenInv, OneCall
    <3>2. fetches' = <<>> \o <<Fetch(s, 0, TRUE)>> \o <<>>
      BY <1>3, <2>2, <3>1 DEF Select, Room
    <3>3. Call' = Fetch(s, 0, TRUE)
      BY <3>2 DEF Call
    <3>4. QED
      BY <1>b, <2>1, <3>3 DEF Bounded, Fetch
  <2>3. CASE fetches # <<>>
    <3>1. loading /\ fetches = <<fetches[1]>>
      BY <1>b, <2>3 DEF ScreenInv, OneCall
    <3>2. fetches' = fetches \o <<>> \o <<>>
      BY <1>3, <3>1 DEF Select
    <3>3. fetches' = fetches
      BY <3>1, <3>2
    <3>4. QED
      BY <1>b, <2>1, <3>3 DEF Bounded, Call
  <2>4. QED
    BY <2>2, <2>3
<1>4. ASSUME NEW i \in 1..Len(fetches), Step(i) PROVE Bounded'
  <2>1. /\ i = 1 /\ fetches = <<Call>> /\ Shaped(Call) /\ fetches[i] = Call
        /\ RemoveAt(fetches, i) = <<>> /\ fetches # <<>>
    BY <1>b, TheCall
  <2>2. rows' = rows
    BY <1>4 DEF Step, Answer, Apply, ToolCalls, Fail
  <2>3. failures' \in 0..MaxFailures
    <3>1. failures' = failures \/ (failures < MaxFailures /\ failures' = failures + 1)
      BY <1>4 DEF Step, Answer, Apply, ToolCalls, Fail
    <3>2. QED
      BY <1>b, <1>p, <3>1 DEF Bounded
  <2>4. CASE Answer(i)
    <3>1. fetches' = [<<Call>> EXCEPT ![1].page = Page(Call.session, Call.offset),
                                      ![1].waitsFor = "client"]
      BY <2>1, <2>4 DEF Answer
    <3>2. Call' = [Call EXCEPT !.page = Page(Call.session, Call.offset),
                               !.waitsFor = "client"]
      BY <3>1 DEF Call
    <3>3. Call'.waitsFor = "client"
      BY <2>1, <3>2 DEF Shaped
    <3>4. QED
      BY <1>b, <2>2, <2>3, <3>3 DEF Bounded
  <2>5. ASSUME AutoLoad(FALSE, <<>>), view' = view PROVE Bounded'
    BY <1>b, <2>1, <2>2, <2>3, <2>5, OverLeavesPage DEF Bounded
  <2>6. CASE Apply(i)
    <3> PICK toLoad : toLoad = SelectSeq(Call.page, LAMBDA m : m \notin logs)
      OBVIOUS
    <3>1. /\ view' = view
          /\ IF toLoad = <<>>
             THEN AutoLoad(FALSE, <<>>)
             ELSE AutoLoad(loading, [fetches EXCEPT ![i].page = toLoad,
                                                    ![i].waitsFor = "tools"])
      BY <2>1, <2>6 DEF Apply
    <3>2. CASE toLoad = <<>>
      BY <2>5, <3>1, <3>2
    <3>3. CASE toLoad # <<>>
      <4>1. fetches' = [<<Call>> EXCEPT ![1].page = toLoad, ![1].waitsFor = "tools"]
        <5>1. loading = TRUE
          BY <1>b, TheCall
        <5>2. QED
          BY <2>1, <3>1, <3>3, <5>1 DEF AutoLoad
      <4>2. Call' = [Call EXCEPT !.page = toLoad, !.waitsFor = "tools"]
        BY <4>1 DEF Call
      <4>3. Call'.waitsFor = "tools"
        BY <2>1, <4>2 DEF Shaped
      <4>4. QED
        BY <1>b, <2>2, <2>3, <4>3 DEF Bounded
    <3>4. QED
      BY <3>2, <3>3
  <2>7. CASE ToolCalls(i) \/ Fail(i)
    BY <2>1, <2>5, <2>7 DEF ToolCalls, Fail
  <2>8. QED
    BY <1>4, <2>4, <2>6, <2>7 DEF Step
<1>5. CASE UNCHANGED vars
  BY <1>b, <1>5 DEF vars, Bounded, Call
<1>6. QED
  BY <1>1, <1>2, <1>3, <1>4, <1>5 DEF Next

\* LoadingInv is kept throughout.
LEMMA LoadingInvariant == Spec => []LoadingInv
<1>1. Init => LoadingInv
  BY InitScreen, InitBounded DEF LoadingInv
<1>2. LoadingInv /\ [Next]_vars => LoadingInv'
  BY StepScreen, StepBounded DEF LoadingInv
<1>3. QED
  BY <1>1, <1>2, PTL DEF Spec

\* Messages further on cost less: by four steps each.
LEMMA RestFalls ==
  ASSUME NEW off \in Nat
  PROVE  /\ Rest(off) \in Nat /\ Rest(off) <= 4 * MaxMessages
         /\ \A n \in Nat \ {0} : off + n <= MaxMessages => Rest(off + n) + 4 <= Rest(off)
  BY PagerAssumption DEF Rest

\* A screen never has more left than what a failure costs.
LEMMA LeftBounded ==
  ASSUME LoadingInv
  PROVE  /\ ScreenLeft \in Nat /\ ScreenLeft < FailureLength
         /\ FailureLength \in Nat
<1>1. MaxMessages \in Nat /\ FailureLength \in Nat /\ 4 * MaxMessages \in Nat
  BY PagerAssumption DEF FailureLength
<1>2. CASE fetches = <<>>
  BY <1>1, <1>2 DEF ScreenLeft, FailureLength
<1>3. CASE fetches # <<>>
  <2>1. ScreenLeft = CallLeft /\ Call.offset \in Nat /\ offset \in Nat
    BY <1>3 DEF ScreenLeft, LoadingInv, ScreenInv, Typed, Kept
  <2>2. CASE Call.waitsFor = "page"
    <3>1. CallLeft = Rest(Call.offset) + 3
      BY <2>2 DEF CallLeft
    <3>2. QED
      BY <1>1, <2>1, <3>1, RestFalls DEF FailureLength
  <2>3. CASE Call.waitsFor = "client"
    <3>1. CallLeft = IF MoreAfter(Call) THEN Rest(NextOffset(Call)) + 5 ELSE 2
      BY <2>3 DEF CallLeft
    <3>2. NextOffset(Call) \in Nat
      <4>1. Call.page \in Seq(Stored)
        BY <1>3, <2>3 DEF LoadingInv, ScreenInv, Typed
      <4>2. Len(Call.page) \in Nat
        BY <4>1
      <4>3. QED
        BY <2>1, <4>2 DEF NextOffset
    <3>3. QED
      BY <1>1, <2>1, <3>1, <3>2, RestFalls DEF FailureLength
  <2>4. CASE Call.waitsFor = "tools"
    <3>1. CallLeft = IF hasMore THEN Rest(offset) + 4 ELSE 1
      BY <2>4 DEF CallLeft
    <3>2. QED
      BY <1>1, <2>1, <3>1, RestFalls DEF FailureLength
  <2>5. QED
    BY <1>3, <2>2, <2>3, <2>4 DEF LoadingInv, Bounded
<1>4. QED
  BY <1>2, <1>3

\* What is left is a number.
LEMMA LeftIsNat == LoadingInv => LoadLeft \in Nat
<1> SUFFICES ASSUME LoadingInv PROVE LoadLeft \in Nat
  OBVIOUS
<1>1. MaxFailures - failures \in Nat
  BY PagerAssumption DEF LoadingInv, Bounded
<1>2. \A k, l \in Nat : k * l \in Nat
  OBVIOUS
<1>3. ScreenLeft \in Nat /\ FailureLength \in Nat
  BY LeftBounded
<1>4. (MaxFailures - failures) * FailureLength \in Nat
  BY <1>1, <1>2, <1>3
<1>5. QED
  BY <1>3, <1>4 DEF LoadLeft

\* When a call is over, what is left are the pages the effect will still ask for.
LEMMA OverLeft ==
  ASSUME LoadingInv, fetches # <<>>, AutoLoad(FALSE, <<>>), view' = view, offset' \in Nat
  PROVE  ScreenLeft' <= (IF hasMore' THEN Rest(offset') + 3 ELSE 0)
<1>1. fetches' # <<>> => hasMore' /\ Call'.waitsFor = "page" /\ Call'.offset = offset'
  BY OverLeavesPage DEF LoadingInv
<1>2. Rest(offset') \in Nat
  BY RestFalls
<1>3. CASE fetches' = <<>>
  BY <1>2, <1>3 DEF ScreenLeft
<1>4. CASE fetches' # <<>>
  <2>1. ScreenLeft' = Rest(offset') + 3
    BY <1>1, <1>4 DEF ScreenLeft, CallLeft, Rest
  <2>2. PICK r \in Nat : r = Rest(offset')
    BY <1>2
  <2>3. \A x : x = r + 3 => x <= r + 3
    OBVIOUS
  <2>4. QED
    BY <1>1, <1>4, <2>1, <2>2, <2>3
<1>5. QED
  BY <1>3, <1>4

\* The page that is read has one step less before it, and if it is full the next one
\* begins behind its messages.
LEMMA AnswerLeft ==
  ASSUME LoadingInv, NEW i \in 1..Len(fetches), Answer(i)
  PROVE  ScreenLeft' < ScreenLeft
<1> PICK p : p = Page(Call.session, Call.offset)
  OBVIOUS
<1> PICK f : f = [Call EXCEPT !.page = p, !.waitsFor = "client"]
  OBVIOUS
<1>1. /\ i = 1 /\ fetches # <<>> /\ fetches = <<Call>> /\ Shaped(Call) /\ fetches[i] = Call
      /\ Call.session \in Sessions /\ Call.offset \in Nat /\ Kept
  <2>1. i = 1 /\ fetches # <<>> /\ fetches = <<Call>> /\ Shaped(Call) /\ fetches[i] = Call
    BY TheCall DEF LoadingInv
  <2>2. QED
    BY <2>1 DEF LoadingInv, ScreenInv, Typed
<1>2. Call.waitsFor = "page" /\ fetches' = <<f>>
  <2>1. /\ Call.waitsFor = "page"
        /\ fetches' = [<<Call>> EXCEPT ![1].page = p, ![1].waitsFor = "client"]
    BY <1>1 DEF Answer
  <2>2. QED
    BY <2>1
<1>3. f.offset = Call.offset /\ f.page = p /\ f.waitsFor = "client"
  BY <1>1 DEF Shaped
<1>4. Call' = f /\ fetches' # <<>>
  BY <1>2 DEF Call
<1>5. /\ p \in Seq(Stored) /\ Len(p) \in Nat
      /\ Len(p) > 0 => Call.offset + Len(p) <= Cardinality(rows[Call.session])
  BY <1>1, PageShape
<1>6. ScreenLeft = Rest(Call.offset) + 3
  BY <1>1, <1>2 DEF ScreenLeft, CallLeft
<1>7. ScreenLeft' = IF Len(p) = PageSize THEN Rest(Call.offset + PageSize) + 5 ELSE 2
  BY <1>3, <1>4 DEF ScreenLeft, CallLeft, MoreAfter, NextOffset, Rest
<1>8. Len(p) = PageSize => Call.offset + PageSize <= MaxMessages
  <2>1. PICK c \in Nat : c = Cardinality(rows[Call.session]) /\ c <= MaxMessages
    <3>1. rows[Call.session] \in SUBSET Times
      BY <1>1 DEF Kept
    <3>2. IsFiniteSet(rows[Call.session]) /\ Cardinality(rows[Call.session]) <= MaxMessages
      BY <3>1, TimesFinite, FS_Subset
    <3>3. QED
      BY <3>2, FS_CardinalityType
  <2>2. QED
    BY <1>1, <1>5, <2>1, PagerAssumption
<1>9. /\ Rest(Call.offset) \in Nat
      /\ Len(p) = PageSize => Rest(Call.offset + PageSize) + 4 <= Rest(Call.offset)
  BY <1>1, <1>8, RestFalls, PagerAssumption
<1>10. Len(p) = PageSize => Rest(Call.offset + PageSize) \in Nat
  <2>1. Call.offset + PageSize \in Nat
    BY <1>1, PagerAssumption
  <2>2. QED
    BY <2>1, RestFalls
<1>11. QED
  BY <1>6, <1>7, <1>9, <1>10

\* The page on the screen leaves its tool calls, or the next page, or nothing.
LEMMA ApplyLeft ==
  ASSUME LoadingInv, NEW i \in 1..Len(fetches), Apply(i)
  PROVE  ScreenLeft' < ScreenLeft
<1> PICK toLoad : toLoad = SelectSeq(Call.page, LAMBDA m : m \notin logs)
  OBVIOUS
<1>1. /\ i = 1 /\ fetches # <<>> /\ fetches = <<Call>> /\ Shaped(Call) /\ loading = TRUE
      /\ fetches[i] = Call /\ RemoveAt(fetches, i) = <<>>
  BY TheCall DEF LoadingInv
<1>2. /\ Call.waitsFor = "client" /\ offset' = NextOffset(Call)
      /\ hasMore' = MoreAfter(Call) /\ view' = view
      /\ IF toLoad = <<>>
         THEN AutoLoad(FALSE, <<>>)
         ELSE AutoLoad(loading, [fetches EXCEPT ![i].page = toLoad, ![i].waitsFor = "tools"])
  BY <1>1 DEF Apply
<1>3. offset' \in Nat
  <2>1. Call.page \in Seq(Stored) /\ Call.offset \in Nat
    BY <1>1, <1>2 DEF LoadingInv, ScreenInv, Typed
  <2>2. Len(Call.page) \in Nat
    BY <2>1
  <2>3. QED
    BY <1>2, <2>1, <2>2 DEF NextOffset
<1>4. ScreenLeft = IF hasMore' THEN Rest(offset') + 5 ELSE 2
  BY <1>1, <1>2 DEF ScreenLeft, CallLeft
<1>5. Rest(offset') \in Nat
  BY <1>3, RestFalls
<1>6. CASE toLoad = <<>>
  <2>1. ScreenLeft' <= (IF hasMore' THEN Rest(offset') + 3 ELSE 0)
    BY <1>1, <1>2, <1>3, <1>6, OverLeft
  <2>2. ScreenLeft' \in Nat
    <3>1. fetches' # <<>> => Call'.waitsFor = "page" /\ Call'.offset = offset'
      BY <1>1, <1>2, <1>6, OverLeavesPage DEF LoadingInv
    <3>2. CASE fetches' = <<>>
      BY <3>2 DEF ScreenLeft
    <3>3. CASE fetches' # <<>>
      <4>1. ScreenLeft' = Rest(offset') + 3
        BY <3>1, <3>3 DEF ScreenLeft, CallLeft, Rest
      <4>2. QED
        BY <1>5, <4>1
    <3>4. QED
      BY <3>2, <3>3
  <2>3. QED
    BY <1>4, <1>5, <2>1, <2>2
<1>7. CASE toLoad # <<>>
  <2> PICK g : g = [Call EXCEPT !.page = toLoad, !.waitsFor = "tools"]
    OBVIOUS
  <2>1. fetches' = <<g>>
    <3>1. fetches' = [<<Call>> EXCEPT ![1].page = toLoad, ![1].waitsFor = "tools"]
      BY <1>1, <1>2, <1>7 DEF AutoLoad
    <3>2. QED
      BY <3>1
  <2>2. g.waitsFor = "tools"
    BY <1>1 DEF Shaped
  <2>3. Call' = g /\ fetches' # <<>>
    BY <2>1 DEF Call
  <2>4. ScreenLeft' = IF hasMore' THEN Rest(offset') + 4 ELSE 1
    BY <2>2, <2>3 DEF ScreenLeft, CallLeft, Rest
  <2>5. QED
    BY <1>4, <1>5, <2>4
<1>8. QED
  BY <1>6, <1>7

\* Tool calls that have come leave the next page, or nothing.
LEMMA ToolCallsLeft ==
  ASSUME LoadingInv, NEW i \in 1..Len(fetches), ToolCalls(i)
  PROVE  ScreenLeft' < ScreenLeft
<1>1. fetches # <<>> /\ fetches[i] = Call /\ RemoveAt(fetches, i) = <<>>
  BY TheCall DEF LoadingInv
<1>2. /\ Call.waitsFor = "tools" /\ UNCHANGED <<view, offset, hasMore>>
      /\ AutoLoad(FALSE, <<>>)
  BY <1>1 DEF ToolCalls
<1>3. offset \in Nat
  BY DEF LoadingInv, ScreenInv, Kept
<1>4. ScreenLeft = IF hasMore THEN Rest(offset) + 4 ELSE 1
  BY <1>1, <1>2 DEF ScreenLeft, CallLeft
<1>5. ScreenLeft' <= (IF hasMore THEN Rest(offset) + 3 ELSE 0)
  BY <1>1, <1>2, <1>3, OverLeft
<1>6. ScreenLeft' \in {0, Rest(offset) + 3}
  <2>1. fetches' # <<>> => Call'.waitsFor = "page" /\ Call'.offset = offset'
    BY <1>1, <1>2, OverLeavesPage DEF LoadingInv
  <2>2. QED
    BY <1>2, <2>1 DEF ScreenLeft, CallLeft, Rest
<1>7. PICK r \in Nat : r = Rest(offset)
  BY <1>3, RestFalls
<1>8. CASE hasMore
  <2>1. ScreenLeft = r + 4 /\ ScreenLeft' \in {0, r + 3}
    BY <1>4, <1>6, <1>7, <1>8
  <2>2. \A x, y : x = r + 4 /\ y \in {0, r + 3} => y < x
    OBVIOUS
  <2>3. QED
    BY <2>1, <2>2
<1>9. CASE ~hasMore
  <2>1. ScreenLeft = 1 /\ ScreenLeft' \in {0, r + 3} /\ ScreenLeft' <= 0
    BY <1>4, <1>5, <1>6, <1>7, <1>9
  <2>2. \A x, y : x = 1 /\ y \in {0, r + 3} /\ y <= 0 => y < x
    OBVIOUS
  <2>3. QED
    BY <2>1, <2>2
<1>10. QED
  BY <1>8, <1>9

\* With the failures that are left, what is left on the screen falls step by step.
LEMMA StepLeft ==
  ASSUME LoadingInv, LoadingInv', NEW i \in 1..Len(fetches), Step(i)
  PROVE  LoadLeft' < LoadLeft
<1>1. /\ ScreenLeft \in Nat /\ ScreenLeft' \in Nat /\ FailureLength \in Nat
      /\ ScreenLeft' < FailureLength
  <2>1. LoadingInv => ScreenLeft \in Nat /\ ScreenLeft < FailureLength
    BY LeftBounded
  <2>2. (LoadingInv => ScreenLeft \in Nat /\ ScreenLeft < FailureLength)'
    BY LeftBounded, PTL
  <2>3. FailureLength \in Nat /\ FailureLength' = FailureLength
    BY LeftBounded DEF FailureLength
  <2>4. QED
    BY <2>1, <2>2, <2>3
<1>2. MaxFailures - failures \in Nat /\ MaxFailures \in Nat /\ failures \in Nat
  BY PagerAssumption DEF LoadingInv, Bounded
<1>3. \A k, l \in Nat : k * l \in Nat
  OBVIOUS
<1>4. CASE Answer(i) \/ Apply(i) \/ ToolCalls(i)
  <2>1. failures' = failures
    BY <1>4 DEF Answer, Apply, ToolCalls
  <2>2. ScreenLeft' < ScreenLeft
    BY <1>4, AnswerLeft, ApplyLeft, ToolCallsLeft
  <2>3. PICK k \in Nat : k = (MaxFailures - failures) * FailureLength
    BY <1>1, <1>2, <1>3
  <2>4. LoadLeft = k + ScreenLeft
    BY <2>3 DEF LoadLeft
  <2>5. LoadLeft' = k + ScreenLeft'
    BY <2>1, <2>3 DEF LoadLeft, FailureLength
  <2>6. \A x, y \in Nat : x < y => k + x < k + y
    OBVIOUS
  <2>7. QED
    BY <1>1, <2>2, <2>4, <2>5, <2>6
<1>5. CASE Fail(i)
  <2>1. failures' = failures + 1 /\ failures < MaxFailures
    BY <1>5 DEF Fail
  <2>2. PICK n \in Nat : n = MaxFailures - failures'
    <3>1. MaxFailures - failures' \in Nat
      BY <1>2, <2>1
    <3>2. QED
      BY <3>1
  <2>3. MaxFailures - failures = n + 1
    BY <1>2, <2>1, <2>2
  <2>4. \A l \in Nat : (n + 1) * l = n * l + l /\ n * l \in Nat
    BY <2>2
  <2>5. LoadLeft = n * FailureLength + FailureLength + ScreenLeft
    BY <1>1, <2>3, <2>4 DEF LoadLeft
  <2>6. LoadLeft' = n * FailureLength + ScreenLeft'
    BY <2>2 DEF LoadLeft, FailureLength
  <2>7. PICK k \in Nat : k = n * FailureLength
    BY <1>1, <2>4
  <2>8. LoadLeft = k + FailureLength + ScreenLeft /\ LoadLeft' = k + ScreenLeft'
    BY <2>5, <2>6, <2>7
  <2>9. \A x, y, l \in Nat : x < l => k + x < k + l + y
    OBVIOUS
  <2>10. QED
    BY <1>1, <2>8, <2>9
<1>6. QED
  BY <1>4, <1>5 DEF Step

\* The safety half of LoadingEnds.  While the client loads, nothing it does and no request
\* that fails puts off its rest: a number that is never negative falls with every step of a
\* call, also when the effect asks for page after page.  Messages stored meanwhile leave it
\* as it is; only another session that is selected starts anew.
THEOREM LoadingRunsOut == Spec => [](LoadLeft \in Nat) /\ [][ComesToRest]_vars
<1>1. ASSUME LoadingInv, LoadingInv', [Next]_vars PROVE [ComesToRest]_vars
  <2>1. CASE Scroll
    BY <2>1 DEF Scroll, ComesToRest
  <2>2. ASSUME NEW s \in Sessions, NEW t \in Times, NewMessage(s, t) PROVE ComesToRest
    <3>1. UNCHANGED <<fetches, failures, offset, hasMore>>
      BY <2>2 DEF NewMessage, screen
    <3>2. LoadLeft' = LoadLeft
      BY <3>1 DEF LoadLeft, FailureLength, ScreenLeft, CallLeft, Call, Rest, MoreAfter,
                  NextOffset
    <3>3. QED
      BY <2>2, <3>2 DEF ComesToRest
  <2>3. ASSUME NEW s \in Sessions, Select(s) PROVE ComesToRest
    BY <2>3 DEF ComesToRest
  <2>4. ASSUME NEW i \in 1..Len(fetches), Step(i) PROVE ComesToRest
    BY <1>1, <2>4, StepLeft DEF ComesToRest
  <2>5. QED
    BY <1>1, <2>1, <2>2, <2>3, <2>4 DEF Next
<1>2. QED
  BY <1>1, LoadingInvariant, LeftIsNat, PTL DEF Spec

=============================================================================
