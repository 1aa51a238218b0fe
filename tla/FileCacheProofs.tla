---------------------------- MODULE FileCacheProofs ----------------------------
(***************************************************************************)
(* The safety properties of FileCache for any size of the cache and its    *)
(* back buffer, any length of the source and any pieces it is read in.     *)
(*                                                                         *)
(* The first part is about the circular buffer alone: byte p of the file   *)
(* is at buf[p % Size], and every method keeps that true of what the cache *)
(* holds.  The second part is the protocol of reader and filler.           *)
(***************************************************************************)
EXTENDS FileCache, TLAPS

\* Every cached byte is where ReadFromCache will look for it.
Content(c) == \A p \in c.beg..(c.end - 1) : c.buf[p % Size] = p

Sound(c) == c \in CacheType /\ Positions(c)

\* d holds what c holds; only the reader's position and the flag may differ.
SameData(c, d) == Sound(d) /\ d.beg = c.beg /\ d.end = c.end /\ d.buf = c.buf

-------------------------------------------------------------------------------
(* Division *)

\* What \div and % are.
LEMMA DivMod ==
  ASSUME NEW N \in Nat \ {0}, NEW a \in Int
  PROVE  /\ a % N \in 0..(N - 1)
         /\ a \div N \in Int
         /\ a = N * (a \div N) + (a % N)
BY SMT

\* The remainder is the only number below N that is left.
LEMMA ModIs ==
  ASSUME NEW N \in Nat \ {0}, NEW q \in Int, NEW r \in 0..(N - 1)
  PROVE  (N * q + r) % N = r
BY SMT

\* A piece that does not go over the wrap point lies in one piece in the buffer.
LEMMA ModStep ==
  ASSUME NEW N \in Nat \ {0}, NEW a \in Nat, NEW d \in Nat, (a % N) + d < N
  PROVE  (a + d) % N = (a % N) + d
<1> DEFINE q == a \div N
           r == a % N
<1>1. q \in Int /\ r \in 0..(N - 1) /\ a = N * q + r
  BY DivMod
<1> HIDE DEF q, r
<1>2. r + d \in 0..(N - 1)
  BY <1>1 DEF r
<1>3. (N * q + (r + d)) % N = r + d
  BY <1>1, <1>2, ModIs
<1>4. N * q \in Int
  BY <1>1
<1>5. a + d = N * q + (r + d)
  BY <1>1, <1>4
<1> QED
  BY <1>3, <1>5 DEF r

\* Multiples of N that differ, differ by N at least.
LEMMA MultiplesApart ==
  ASSUME NEW N \in Nat \ {0}, NEW m \in Int, NEW k \in Int, N * m < N * k
  PROVE  N * k - N * m >= N
<1>1. m < k
  BY SMT
<1>2. k - m >= 1
  BY <1>1
<1>3. N * (k - m - 1) >= 0
  BY <1>2, SMT
<1> QED
  BY <1>3, SMT

\* Two bytes that share a place of the buffer are at least its size apart.
LEMMA SamePlace ==
  ASSUME NEW N \in Nat \ {0}, NEW a \in Nat, NEW b \in Nat, a < b, a % N = b % N
  PROVE  b - a >= N
<1> DEFINE q == a \div N
           s == b \div N
           r == a % N
<1>1. q \in Int /\ s \in Int /\ r \in 0..(N - 1) /\ a = N * q + r /\ b = N * s + r
  BY DivMod
<1> HIDE DEF q, r, s
<1>2. N * q \in Int /\ N * s \in Int
  BY <1>1
<1>3. N * q < N * s
  BY <1>1, <1>2
<1>4. N * s - N * q >= N
  BY <1>1, <1>3, MultiplesApart
<1> QED
  BY <1>1, <1>2, <1>4

-------------------------------------------------------------------------------
(* The methods of the cache *)

\* A cache that holds the same data holds it where it belongs.
LEMMA SameContent ==
  ASSUME NEW c, NEW d, SameData(c, d), Content(c)
  PROVE  Content(d)
BY DEF SameData, Content

\* An empty cache is sound.
LEMMA NewIs == Sound(NewCache) /\ Content(NewCache)
<1>1. Size \in Nat
  BY CacheAssumption
<1>2. NewCache.beg..(NewCache.end - 1) = {}
  BY DEF NewCache
<1> QED
  BY <1>1, <1>2 DEF Sound, CacheType, Positions, NewCache, Content

\* Setting or clearing the end-of-input flag changes nothing else.
LEMMA FlagIs ==
  ASSUME NEW c, Sound(c)
  PROVE  /\ SameData(c, EndOfInput(c)) /\ EndOfInput(c).cur = c.cur
         /\ SameData(c, ClearEndOfInput(c)) /\ ClearEndOfInput(c).cur = c.cur
         /\ ~ClearEndOfInput(c).eoi
BY DEF Sound, SameData, CacheType, Positions, EndOfInput, ClearEndOfInput

\* A seek to what is cached moves the reader only.
LEMMA SeekToIs ==
  ASSUME NEW c, Sound(c), NEW p \in Nat, IsCachedPosition(c, p)
  PROVE  SameData(c, SeekTo(c, p)) /\ SeekTo(c, p).cur = p /\ SeekTo(c, p).eoi = c.eoi
BY CacheAssumption DEF Sound, SameData, CacheType, Positions, IsCachedPosition, SeekTo

\* So does the seek to the end of it.
LEMMA SeekToEndIs ==
  ASSUME NEW c, Sound(c)
  PROVE  SameData(c, SeekToEnd(c)) /\ SeekToEnd(c).cur = c.end /\ SeekToEnd(c).eoi = c.eoi
BY CacheAssumption DEF Sound, SameData, CacheType, Positions, SeekToEnd

\* A position of the file has a place in the buffer.
LEMMA PlaceIs ==
  ASSUME NEW p \in Nat
  PROVE  p % Size \in 0..(Size - 1) /\ Size \in Nat /\ Size # 0
<1>1. Size \in Nat \ {0} /\ p \in Int
  BY CacheAssumption
<1> QED
  BY <1>1, DivMod

\* Reading moves the reader by what it delivers, and not beyond the end.
LEMMA ReadIs ==
  ASSUME NEW c, Sound(c), NEW n \in Nat, NEW k, k = ReadLen(c, n)
  PROVE  /\ k \in Nat /\ k <= Front(c) /\ (c.cur % Size) + k <= Size
         /\ SameData(c, ReadFromCache(c, k))
         /\ ReadFromCache(c, k).cur = c.cur + k /\ ReadFromCache(c, k).eoi = c.eoi
<1> DEFINE pos == c.cur % Size
<1>1. c.cur \in Nat /\ Front(c) \in Nat /\ c.end = c.cur + Front(c)
  BY DEF Front, Sound, CacheType, Positions
<1>2. pos \in 0..(Size - 1) /\ Size \in Nat
  BY <1>1, PlaceIs
<1>3. k = AtMost(n, AtMost(Size - pos, Front(c)))
  BY DEF ReadLen
<1> HIDE DEF pos
<1>4. k \in Nat /\ k <= Front(c) /\ pos + k <= Size
  BY <1>1, <1>2, <1>3 DEF AtMost
<1>5. c.cur + k \in Nat /\ c.beg <= c.cur + k /\ c.cur + k <= c.end
  BY <1>1, <1>4 DEF Sound, CacheType, Positions
<1>6. SameData(c, ReadFromCache(c, k)) /\ ReadFromCache(c, k).cur = c.cur + k
        /\ ReadFromCache(c, k).eoi = c.eoi
  BY <1>5 DEF Sound, SameData, CacheType, Positions, ReadFromCache
<1> QED
  BY <1>4, <1>6 DEF pos

\* What is delivered are the bytes of the file from the reader's position on.
LEMMA ReadBytes ==
  ASSUME NEW c, Sound(c), Content(c), NEW n \in Nat, NEW k, k = ReadLen(c, n)
  PROVE  BytesRead(c, k) = [i \in 1..k |-> c.cur + i - 1]
<1> DEFINE pos == c.cur % Size
<1>1. c.beg \in Nat /\ c.cur \in Nat /\ c.end \in Nat /\ c.beg <= c.cur
  BY DEF Sound, CacheType, Positions
<1>2. pos \in 0..(Size - 1) /\ Size \in Nat /\ Size # 0
  BY <1>1, PlaceIs
<1>3. k \in Nat /\ c.cur + k <= c.end /\ pos + k <= Size
  BY <1>1, ReadIs DEF Front
<1> HIDE DEF pos
<1>4. ASSUME NEW i \in 1..k
      PROVE  pos + i <= Size /\ c.buf[pos + i - 1] = c.cur + i - 1
  <2>1. i - 1 \in Nat /\ pos + (i - 1) < Size /\ pos + i <= Size
    BY <1>2, <1>3
  <2>2. (c.cur + (i - 1)) % Size = pos + (i - 1)
    BY <1>1, <1>2, <2>1, ModStep DEF pos
  <2>3. c.cur + (i - 1) \in c.beg..(c.end - 1)
    BY <1>1, <1>3
  <2>4. c.buf[pos + (i - 1)] = c.cur + (i - 1)
    BY <2>2, <2>3 DEF Content
  <2>5. pos + (i - 1) = pos + i - 1 /\ c.cur + (i - 1) = c.cur + i - 1
    BY <1>1, <1>2
  <2> QED
    BY <2>1, <2>4, <2>5
<1>5. BytesRead(c, k) = [i \in 1..k |-> IF pos + i <= Size THEN c.buf[pos + i - 1] ELSE NoByte]
  BY DEF BytesRead, pos
<1> QED
  BY <1>4, <1>5

\* There is never less than no room: what is cached fits, and the back buffer is part of it.
LEMMA LimitIs ==
  ASSUME NEW c, Sound(c)
  PROVE  Limit(c) \in Nat /\ Front(c) \in Nat /\ Limit(c) + Front(c) <= Size
<1>1. c.beg \in Nat /\ c.cur \in Nat /\ c.end \in Nat /\ Size \in Nat /\ Back \in Nat
  BY CacheAssumption DEF Sound, CacheType
<1>2. c.beg <= c.cur /\ c.cur <= c.end /\ c.end - c.beg <= Size
  BY DEF Sound, Positions
<1> QED
  BY <1>1, <1>2 DEF Limit, AtMost, BackSize, Front

\* Writing takes a piece that fits in, and that does not go over the wrap point.
LEMMA WriteLenIs ==
  ASSUME NEW c, Sound(c), NEW n \in Nat
  PROVE  /\ WriteLen(c, n) \in 0..n
         /\ (c.end % Size) + WriteLen(c, n) <= Size
         /\ WriteLen(c, n) <= Size - Front(c)
<1> DEFINE pos == c.end % Size
<1>1. c.end \in Nat
  BY DEF Sound, CacheType
<1>2. pos \in 0..(Size - 1) /\ Size \in Nat
  BY <1>1, PlaceIs
<1>3. WriteLen(c, n) = AtMost(AtMost(n, Limit(c)), Size - pos)
  BY DEF WriteLen
<1> HIDE DEF pos
<1>4. WriteLen(c, n) \in 0..n /\ pos + WriteLen(c, n) <= Size /\ WriteLen(c, n) <= Size - Front(c)
  BY <1>2, <1>3, LimitIs DEF AtMost
<1> QED
  BY <1>4 DEF pos

\* It drops only what the reader has behind it.
LEMMA WriteIs ==
  ASSUME NEW c, Sound(c), NEW n \in Nat, NEW at \in Nat, NEW k \in Nat, k = WriteLen(c, n),
         NEW d, d = WriteToCache(c, at, k)
  PROVE  /\ Sound(d) /\ d.end = c.end + k /\ d.cur = c.cur /\ d.eoi = c.eoi
         /\ c.beg <= d.beg /\ c.end + k - Size <= d.beg
<1> DEFINE pos == c.end % Size
           buf == [x \in 0..Size-1 |->
                     IF pos <= x /\ x < pos + k THEN at + (x - pos) ELSE c.buf[x]]
<1>1. /\ c.beg \in Nat /\ c.cur \in Nat /\ c.end \in Nat /\ c.eoi \in BOOLEAN
      /\ c.beg <= c.cur /\ c.cur <= c.end /\ c.end - c.beg <= Size
      /\ c.buf \in [0..Size-1 -> Nat \cup {NoByte}]
  BY DEF Sound, CacheType, Positions
<1>2. pos \in 0..(Size - 1) /\ Size \in Nat
  BY <1>1, PlaceIs
<1>4. d = [c EXCEPT !.buf = buf, !.end = c.end + k, !.beg = AtLeast(c.beg, c.end + k - Size)]
  BY DEF WriteToCache
<1>5. k \in 0..n /\ k <= Size - Front(c)
  BY WriteLenIs
<1> HIDE DEF pos
<1>6. buf \in [0..Size-1 -> Nat \cup {NoByte}]
  BY <1>1, <1>2, <1>5
<1>7. AtLeast(c.beg, c.end + k - Size) \in Nat
  BY <1>1, <1>2, <1>5 DEF AtLeast
<1>8. /\ d \in CacheType
      /\ d.end = c.end + k /\ d.cur = c.cur /\ d.eoi = c.eoi
      /\ d.beg = AtLeast(c.beg, c.end + k - Size)
  <2> DEFINE e == c.end + k
             b == AtLeast(c.beg, c.end + k - Size)
  <2>1. e \in Nat /\ b \in Nat
    BY <1>1, <1>5, <1>7
  <2>2. d = [c EXCEPT !.buf = buf, !.end = e, !.beg = b]
    BY <1>4
  <2>3. c \in [beg : Nat, end : Nat, cur : Nat, eoi : BOOLEAN, buf : [0..Size-1 -> Nat \cup {NoByte}]]
    BY DEF Sound, CacheType
  <2> HIDE DEF buf, e, b
  <2>4. /\ d \in [beg : Nat, end : Nat, cur : Nat, eoi : BOOLEAN, buf : [0..Size-1 -> Nat \cup {NoByte}]]
        /\ d.end = e /\ d.cur = c.cur /\ d.eoi = c.eoi /\ d.beg = b
    BY <1>6, <2>1, <2>2, <2>3
  <2> QED
    BY <2>4 DEF CacheType, e, b
<1> HIDE DEF buf
<1>9. c.end + k - Size <= c.cur
  BY <1>1, <1>2, <1>5 DEF Front
<1>10. c.beg <= d.beg /\ c.end + k - Size <= d.beg /\ d.beg <= d.cur
  BY <1>1, <1>2, <1>5, <1>8, <1>9 DEF AtLeast
<1>11. d.cur <= d.end /\ d.end - d.beg <= Size
  <2>1. d.cur <= d.end
    BY <1>1, <1>2, <1>5, <1>8
  <2>2. d.end - d.beg <= Size
    BY <1>1, <1>2, <1>5, <1>7, <1>8, <1>10
  <2> QED
    BY <2>1, <2>2
<1> QED
  BY <1>8, <1>10, <1>11 DEF Sound, Positions

\* The bytes that follow the cached ones are written where they belong, and only
\* over bytes that the cache no longer has.
LEMMA WriteContent ==
  ASSUME NEW c, Sound(c), Content(c), NEW n \in Nat, NEW at \in Nat, at = c.end,
         NEW k \in Nat, k = WriteLen(c, n), NEW d, d = WriteToCache(c, at, k)
  PROVE  Content(d)
<1> DEFINE pos == c.end % Size
<1>1. c.beg \in Nat /\ c.end \in Nat /\ c.end - c.beg <= Size
  BY DEF Sound, CacheType, Positions
<1>2. pos \in 0..(Size - 1) /\ Size \in Nat /\ Size # 0
  BY <1>1, PlaceIs
<1>3. /\ k \in 0..n /\ pos + k <= Size
      /\ d.beg \in Nat /\ d.end = c.end + k /\ c.beg <= d.beg /\ c.end + k - Size <= d.beg
  <2>1. k \in 0..n /\ (c.end % Size) + k <= Size
    BY WriteLenIs
  <2>2. Sound(d) /\ d.end = c.end + k /\ c.beg <= d.beg /\ c.end + k - Size <= d.beg
    BY <1>1, WriteIs
  <2>3. d.beg \in Nat
    BY <2>2 DEF Sound, CacheType
  <2> QED
    BY <2>1, <2>2, <2>3
<1>4. d.buf = [x \in 0..Size-1 |->
                 IF pos <= x /\ x < pos + k THEN c.end + (x - pos) ELSE c.buf[x]]
  BY DEF WriteToCache, Sound, CacheType
<1> SUFFICES ASSUME NEW p \in d.beg..(d.end - 1)
             PROVE  d.buf[p % Size] = p
  BY DEF Content
<1>5. p \in Nat /\ d.beg <= p /\ p < c.end + k
  BY <1>1, <1>3
<1>6. p % Size \in 0..(Size - 1)
  BY <1>5, PlaceIs
<1> HIDE DEF pos
<1>7. CASE c.end <= p
  <2>1. p - c.end \in Nat /\ p = c.end + (p - c.end) /\ pos + (p - c.end) < Size
    BY <1>1, <1>2, <1>3, <1>5, <1>7
  <2>2. p % Size = pos + (p - c.end)
    BY <1>1, <1>2, <2>1, ModStep DEF pos
  <2>3. pos <= p % Size /\ p % Size < pos + k
    BY <1>1, <1>2, <1>3, <1>5, <2>1, <2>2
  <2>4. d.buf[p % Size] = c.end + ((p % Size) - pos)
    BY <1>4, <1>6, <2>3
  <2> QED
    BY <1>1, <1>2, <2>1, <2>2, <2>4
<1>8. CASE p < c.end
  <2>1. ~(pos <= p % Size /\ p % Size < pos + k)
    <3> SUFFICES ASSUME pos <= p % Size, p % Size < pos + k
                 PROVE  FALSE
      OBVIOUS
    <3> DEFINE i == (p % Size) - pos
               q == c.end + i
    <3>1. i \in Nat /\ i < k /\ pos + i < Size /\ pos + i = p % Size
      BY <1>2, <1>3, <1>6
    <3> HIDE DEF i
    <3>2. q % Size = p % Size
      BY <1>1, <1>2, <3>1, ModStep DEF pos
    <3>3. q \in Nat /\ p < q /\ Size \in Nat \ {0} /\ q < c.end + k
      BY <1>1, <1>2, <1>3, <1>5, <1>8, <3>1
    <3> HIDE DEF q
    <3>4. q - p >= Size
      BY <1>5, <3>2, <3>3, SamePlace
    <3>5. k \in Int /\ c.end + k - Size <= d.beg /\ d.beg \in Nat
      BY <1>3
    <3>6. c.end + k - Size <= p
      BY <1>1, <1>2, <1>5, <3>5
    <3> QED
      BY <1>1, <1>2, <1>5, <3>3, <3>4, <3>5, <3>6
  <2>2. d.buf[p % Size] = c.buf[p % Size]
    BY <1>4, <1>6, <2>1
  <2>3. p \in c.beg..(c.end - 1)
    BY <1>1, <1>3, <1>5, <1>8
  <2> QED
    BY <2>2, <2>3 DEF Content
<1> QED
  BY <1>1, <1>5, <1>7, <1>8

\* After Reset the cache is at p and ends where CachedDataEndPosIfSeekTo said.
LEMMA ResetIs ==
  ASSUME NEW c, Sound(c), NEW p \in Nat
  PROVE  /\ Sound(Reset(c, p))
         /\ Reset(c, p).cur = p /\ Reset(c, p).eoi = c.eoi
         /\ Reset(c, p).end = CachedDataEndPosIfSeekTo(c, p)
         /\ Content(c) => Content(Reset(c, p))
<1>1. CASE IsCachedPosition(c, p)
  BY <1>1, SeekToIs, SameContent DEF Reset, CachedDataEndPosIfSeekTo, SameData
<1>2. CASE ~IsCachedPosition(c, p)
  <2> DEFINE d == [NewCache EXCEPT !.beg = p, !.end = p, !.cur = p, !.eoi = c.eoi]
  <2>1. Reset(c, p) = d
    BY <1>2 DEF Reset
  <2>2. Sound(NewCache) /\ Size \in Nat /\ c.eoi \in BOOLEAN
    BY NewIs, CacheAssumption DEF Sound, CacheType
  <2>3. d \in CacheType /\ d.beg = p /\ d.end = p /\ d.cur = p /\ d.eoi = c.eoi
    BY <2>2 DEF Sound, CacheType
  <2> HIDE DEF d
  <2>4. Positions(d) /\ d.beg..(d.end - 1) = {}
    BY <2>2, <2>3 DEF Positions
  <2> QED
    BY <1>2, <2>1, <2>3, <2>4 DEF Sound, Content, CachedDataEndPosIfSeekTo
<1> QED
  BY <1>1, <1>2

-------------------------------------------------------------------------------
(* The invariant of reader and filler *)

USE DEF seekVars, fillerVars, readerVars

\* Who stops: Close, or the filler after the source has failed.
Stopping ==
  /\ m_bStop <=> cpc # "open" \/ "read" \in fault
  /\ m_StopEvent \/ group = "stop" \/ fpc \in {"exit", "ended"} => m_bStop
  /\ group # "none" => fpc = "waitSeek"

\* Nothing has failed and nobody has closed the file.
Calm == fault = {} /\ ~m_bStop

\* The reader has asked for a seek; the filler is at it.
Asking == rpc \in {"telling", "waitEnded"}
Serving == fpc \in {"seek", "sought"}

(***************************************************************************)
(* A request is in one place: asked for in m_seekEvent, under way in the   *)
(* filler or answered in m_seekEnded; and none is there unasked for.       *)
(***************************************************************************)
Handshake ==
  /\ m_seekEvent => Asking /\ ~Serving /\ ~m_seekEnded
  /\ Serving => Asking /\ ~m_seekEnded
  /\ m_seekEnded => Asking
  /\ Asking => m_seekEvent \/ Serving \/ m_seekEnded
  /\ group = "seek" => m_seekEvent

\* Where the reader is, on the way from one seek to the next.
Place ==
  /\ rpc \in {"idle", "readWait"} /\ m_seekPossible => cache.cur = m_readPos
  /\ Asking \/ rpc = "remain" => m_seekPos <= target
  /\ (Asking /\ (fpc = "sought" \/ m_seekEnded)) \/ rpc = "remain" =>
       cache.cur = m_seekPos /\ m_readPos = m_seekPos
  /\ rpc \in {"remainWait", "finish"} => cache.cur = target

(***************************************************************************)
(* The source goes on where the cache ends, but for a piece on its way     *)
(* from the one to the other, or dropped for a seek that will be served.   *)
(***************************************************************************)
Filled ==
  /\ fpc \in {"loop", "poll"} /\ ~m_seekEvent => ~eof /\ source = cache.end
  /\ fpc = "seek" =>
       CachedDataEndPosIfSeekTo(cache, m_seekPos) = IF eof THEN Length ELSE source
  /\ fpc \in {"sought", "fill"} => cache.end = IF eof THEN Length ELSE source
  /\ fpc \in {"write", "written"} => ~eof /\ chunk.at = cache.end /\ chunk.at + chunk.len = source
  /\ fpc \in {"atEof", "waitSeek"} => cache.end >= Length
  /\ cache.eoi => fpc \in {"atEof", "waitSeek"}

\* A late telling or a failed seek leaves the source somewhere else.
Straight == fault \cap {"seek", "late"} = {}

IInv ==
  /\ TypeOK
  /\ Stopping
  /\ Calm => Handshake /\ Place /\ Filled
  /\ Straight => Content(cache)

-------------------------------------------------------------------------------

LEMMA InitInv == Init => IInv
<1> SUFFICES ASSUME Init
             PROVE  IInv
  OBVIOUS
<1>1. Sound(NewCache) /\ Content(NewCache) /\ NewCache.cur = 0 /\ NewCache.end = 0
        /\ ~NewCache.eoi
  BY NewIs DEF NewCache
<1>2. TypeOK
  <2>1. cache \in CacheType /\ Positions(cache)
    BY <1>1 DEF Init, Sound
  <2>2. chunk \in [at : Nat, len : 0..ChunkSize]
    BY FileCacheAssumption DEF Init, NoChunk
  <2>3. {m_bStop, m_seekEvent, m_seekEnded, m_StopEvent, m_seekPossible, eof} \subseteq BOOLEAN
    BY DEF Init
  <2> QED
    BY <2>1, <2>2, <2>3, FileCacheAssumption DEF Init, TypeOK
<1> QED
  BY <1>1, <1>2 DEF Init, IInv, Stopping, Calm, Handshake, Asking, Serving, Place, Filled

\* Every variable keeps its type, and the positions of the cache their order.
LEMMA TypeStep ==
  ASSUME TypeOK, [Next]_vars
  PROVE  TypeOK'
<1> USE FileCacheAssumption
<1>1. Sound(cache)
  BY DEF TypeOK, Sound
<1>2. CASE UNCHANGED vars
  BY <1>2 DEF vars, TypeOK
<1>3. CASE LoopTop \/ NoSeek \/ SeekEnded \/ WaitForSpace \/ BeginAbortableWait \/ StopAtEof
  <2>1. CASE LoopTop
    BY <2>1 DEF TypeOK, LoopTop
  <2>2. CASE NoSeek
    BY <2>2 DEF TypeOK, NoSeek
  <2>3. CASE SeekEnded
    BY <2>3 DEF TypeOK, SeekEnded
  <2>4. CASE WaitForSpace
    BY <2>4 DEF TypeOK, WaitForSpace
  <2>5. CASE BeginAbortableWait
    BY <2>5 DEF TypeOK, BeginAbortableWait
  <2>6. CASE StopAtEof
    BY <2>6 DEF TypeOK, StopAtEof
  <2> QED
    BY <1>3, <2>1, <2>2, <2>3, <2>4, <2>5, <2>6
<1>4. CASE SeekSource
  <2>1. CachedDataEndPosIfSeekTo(cache, m_seekPos) \in Nat
    BY <1>1 DEF TypeOK, CachedDataEndPosIfSeekTo, CacheType
  <2>2. fault' \subseteq {"seek", "read", "late"}
    BY <1>4 DEF TypeOK, SeekSource, Fails
  <2>3. source' \in Nat /\ eof' \in BOOLEAN /\ fpc' \in {"seek", "sought"}
    BY <1>4, <2>1 DEF TypeOK, SeekSource
  <2>4. m_nSeekResult' \in {"sought", "failed"} /\ m_seekPossible' \in BOOLEAN
    BY <1>4 DEF TypeOK, SeekSource
  <2>5. /\ UNCHANGED <<cache, m_bStop, m_seekEnded, m_StopEvent, group, m_readPos, m_seekPos,
                     chunk, rpc, target, cpc>>
        /\ m_seekEvent' = FALSE
    BY <1>4 DEF SeekSource
  <2>6. {m_bStop, m_seekEvent, m_seekEnded, m_StopEvent, m_seekPossible, eof}' \subseteq BOOLEAN
    BY <2>3, <2>4, <2>5 DEF TypeOK
  <2> QED
    BY <2>2, <2>3, <2>4, <2>5, <2>6 DEF TypeOK
<1>5. CASE SeekCache
  <2>1. Sound(cache')
    BY <1>1, <1>5, ResetIs DEF TypeOK, SeekCache
  <2> QED
    BY <1>5, <2>1 DEF TypeOK, SeekCache, Sound
<1>6. CASE ReadSource
  <2>1. PICK n \in 1..GetMaxWriteSize(cache, ChunkSize) :
          chunk' = [at |-> source, len |-> n] /\ source' = source + n
    BY <1>6 DEF ReadSource
  <2>2. n \in 1..ChunkSize
    BY <1>1, <2>1, LimitIs DEF GetMaxWriteSize, AtMost
  <2> QED
    BY <1>6, <2>1, <2>2 DEF TypeOK, ReadSource
<1>7. CASE ReadFails
  BY <1>7 DEF TypeOK, ReadFails, Fails
<1>8. CASE HitEof \/ SeekAtEof \/ OnExit
  <2>1. Sound(cache')
    BY <1>1, <1>8, FlagIs DEF HitEof, SeekAtEof, OnExit, SameData
  <2>2. CASE HitEof
    BY <2>1, <2>2 DEF TypeOK, HitEof, Sound
  <2>3. CASE SeekAtEof
    BY <2>1, <2>3 DEF TypeOK, SeekAtEof, Sound
  <2>4. CASE OnExit
    BY <2>1, <2>4 DEF TypeOK, OnExit, Sound
  <2> QED
    BY <1>8, <2>2, <2>3, <2>4
<1>9. CASE WriteChunk
  <2>1. CASE m_bStop
    BY <1>9, <2>1 DEF TypeOK, WriteChunk, NoChunk
  <2>2. CASE ~m_bStop
    <3> DEFINE k == WriteLen(cache, chunk.len)
    <3>1. chunk.len \in 0..ChunkSize /\ chunk.at \in Nat
      BY DEF TypeOK
    <3>2. k \in 0..chunk.len
      BY <1>1, <3>1, WriteLenIs
    <3>3. cache' = WriteToCache(cache, chunk.at, k)
            /\ chunk' = [at |-> chunk.at + k, len |-> chunk.len - k]
      BY <1>9, <2>2 DEF WriteChunk
    <3>4. k \in Nat /\ k = WriteLen(cache, chunk.len)
      BY <3>1, <3>2
    <3> HIDE DEF k
    <3>5. Sound(cache')
      BY <1>1, <3>1, <3>3, <3>4, WriteIs
    <3>6. chunk' \in [at : Nat, len : 0..ChunkSize]
      BY <3>1, <3>2, <3>3
    <3> QED
      BY <1>9, <2>2, <3>5, <3>6 DEF TypeOK, WriteChunk, Sound
  <2> QED
    BY <2>1, <2>2
<1>10. CASE AfterWrite
  BY <1>10 DEF TypeOK, AfterWrite, NoChunk
<1>11. CASE ReadData
  <2>1. PICK n \in 1..MaxRead :
          LET k == ReadLen(cache, n)
          IN  cache' = ReadFromCache(cache, k) /\ m_readPos' = m_readPos + k
    BY <1>11 DEF ReadData
  <2>2. n \in Nat
    OBVIOUS
  <2>3. ReadLen(cache, n) \in Nat /\ Sound(cache')
    BY <1>1, <2>1, <2>2, ReadIs DEF SameData
  <2> QED
    BY <1>11, <2>1, <2>3 DEF TypeOK, ReadData, Sound
<1>12. CASE ReadEof \/ ReadWaits \/ ReadTimesOut
  <2>1. CASE ReadEof
    BY <2>1 DEF TypeOK, ReadEof
  <2>2. CASE ReadWaits
    BY <2>2 DEF TypeOK, ReadWaits
  <2>3. CASE ReadTimesOut
    BY <2>3 DEF TypeOK, ReadTimesOut
  <2> QED
    BY <1>12, <2>1, <2>2, <2>3
<1>13. CASE \E t \in 0..Length : Seek(t)
  <2>1. PICK t \in 0..Length : Seek(t)
    BY <1>13
  <2>2. t \in Nat
    BY <2>1
  <2>3. Sound(cache')
    BY <1>1, <2>1, <2>2, SeekToIs, SeekToEndIs DEF Seek, SameData
  <2> QED
    BY <2>1, <2>2, <2>3 DEF TypeOK, Seek, Sound
<1>14. CASE SeekWaitEnds
  <2>1. Sound(cache')
    BY <1>1, <1>14, SeekToIs DEF TypeOK, SeekWaitEnds, SameData
  <2> QED
    BY <1>14, <2>1 DEF TypeOK, SeekWaitEnds, Sound
<1>15. CASE RequestSeek
  BY <1>15 DEF TypeOK, RequestSeek, AtMost, AtLeast
<1>16. CASE TellFiller \/ SeekAnswered \/ FinishSeek
  <2>1. CASE TellFiller
    <3>1. group' \in {"none", "seek", "stop"} /\ fault' \subseteq {"seek", "read", "late"}
      BY <2>1 DEF TypeOK, TellFiller, TellGroup
    <3> QED
      BY <2>1, <3>1 DEF TypeOK, TellFiller
  <2>2. CASE SeekAnswered
    BY <2>2 DEF TypeOK, SeekAnswered
  <2>3. CASE FinishSeek
    <3>1. target \in Nat /\ 0 \in 0..Length
      BY DEF TypeOK
    <3> QED
      BY <2>3, <3>1 DEF TypeOK, FinishSeek
  <2> QED
    BY <1>16, <2>1, <2>2, <2>3
<1>17. CASE RemainingData
  <2>1. Sound(cache')
    BY <1>1, <1>17, SeekToIs, SeekToEndIs DEF TypeOK, RemainingData, SeekIfCached, SameData
  <2> QED
    BY <1>17, <2>1 DEF TypeOK, RemainingData, Sound
<1>18. CASE RemainingWaitEnds
  <2>1. Sound(cache')
    BY <1>1, <1>18, SeekToIs DEF TypeOK, RemainingWaitEnds, SeekIfCached, SameData
  <2> QED
    BY <1>18, <2>1 DEF TypeOK, RemainingWaitEnds, Sound
<1>19. CASE Closer
  <2>1. CASE Close
    BY <2>1 DEF TypeOK, Close
  <2>2. CASE StopThread
    BY <2>2 DEF TypeOK, StopThread
  <2>3. CASE Closed
    BY <2>3 DEF TypeOK, Closed
  <2>4. CASE CloseTellsSeek \/ CloseTellsStop
    <3>1. group' \in {"none", "seek", "stop"} /\ fault' \subseteq {"seek", "read", "late"}
      BY <2>4 DEF TypeOK, CloseTellsSeek, CloseTellsStop, TellGroup
    <3> QED
      BY <2>4, <3>1 DEF TypeOK, CloseTellsSeek, CloseTellsStop
  <2> QED
    BY <1>19, <2>1, <2>2, <2>3, <2>4 DEF Closer
<1> QED
  BY <1>2, <1>3, <1>4, <1>5, <1>6, <1>7, <1>8, <1>9, <1>10, <1>11, <1>12, <1>13, <1>14, <1>15,
     <1>16, <1>17, <1>18, <1>19 DEF Next, Filler, Reader

\* The thread stops for Close or for a failed read, and for nothing else.
LEMMA StoppingStep ==
  ASSUME TypeOK, Stopping, [Next]_vars
  PROVE  Stopping'
<1> USE DEF Stopping
<1>1. CASE UNCHANGED vars
  BY <1>1 DEF vars
<1>2. CASE LoopTop \/ NoSeek \/ SeekCache \/ SeekEnded \/ WaitForSpace \/ ReadSource \/ HitEof
  BY <1>2 DEF LoopTop, NoSeek, SeekCache, SeekEnded, WaitForSpace, ReadSource, HitEof
<1>3. CASE SeekSource \/ ReadFails
  BY <1>3 DEF SeekSource, ReadFails, Fails
<1>4. CASE BeginAbortableWait \/ SeekAtEof \/ StopAtEof
  BY <1>4 DEF BeginAbortableWait, SeekAtEof, StopAtEof
<1>5. CASE WriteChunk
  BY <1>5 DEF WriteChunk
<1>6. CASE AfterWrite \/ OnExit
  BY <1>6 DEF AfterWrite, OnExit
<1>7. CASE ReadData \/ ReadEof \/ ReadWaits \/ ReadTimesOut
  BY <1>7 DEF ReadData, ReadEof, ReadWaits, ReadTimesOut
<1>8. CASE (\E t \in 0..Length : Seek(t)) \/ SeekWaitEnds \/ RemainingData \/ RemainingWaitEnds
  BY <1>8 DEF Seek, SeekWaitEnds, RemainingData, RemainingWaitEnds
<1>9. CASE RequestSeek \/ SeekAnswered \/ FinishSeek
  BY <1>9 DEF RequestSeek, SeekAnswered, FinishSeek
<1>10. CASE TellFiller
  BY <1>10 DEF TellFiller, TellGroup
<1>11. CASE Close \/ StopThread \/ Closed
  BY <1>11 DEF Close, StopThread, Closed
<1>12. CASE CloseTellsSeek \/ CloseTellsStop
  BY <1>12 DEF CloseTellsSeek, CloseTellsStop, TellGroup
<1> QED
  BY <1>1, <1>2, <1>3, <1>4, <1>5, <1>6, <1>7, <1>8, <1>9, <1>10, <1>11, <1>12
     DEF Next, Filler, Reader, Closer

\* Faults stay and a stop stays.
LEMMA CalmStep ==
  ASSUME TypeOK, Stopping, [Next]_vars
  PROVE  fault \subseteq fault' /\ (m_bStop => m_bStop') /\ (Calm' => Calm)
<1>1. fault \subseteq fault'
  <2>1. CASE SeekSource \/ ReadFails \/ TellFiller \/ CloseTellsSeek \/ CloseTellsStop
    BY <2>1 DEF SeekSource, ReadFails, Fails, TellFiller, CloseTellsSeek, CloseTellsStop, TellGroup
  <2>2. CASE ~(SeekSource \/ ReadFails \/ TellFiller \/ CloseTellsSeek \/ CloseTellsStop)
    <3>1. fault' = fault
      BY <2>2 DEF Next, Filler, Reader, Closer, vars, LoopTop, NoSeek, SeekCache, SeekEnded,
                  WaitForSpace, ReadSource, HitEof, BeginAbortableWait, SeekAtEof, StopAtEof,
                  WriteChunk, AfterWrite, OnExit, ReadData, ReadEof, ReadWaits, ReadTimesOut,
                  Seek, SeekWaitEnds, RequestSeek, SeekAnswered, RemainingData, RemainingWaitEnds,
                  FinishSeek, Close, StopThread, Closed
    <3> QED
      BY <3>1
  <2> QED
    BY <2>1, <2>2
<1>2. cpc # "open" => cpc' # "open"
  BY DEF Next, Filler, Reader, Closer, vars, LoopTop, NoSeek, SeekSource, SeekCache, SeekEnded,
         WaitForSpace, ReadSource, ReadFails, HitEof, BeginAbortableWait, SeekAtEof, StopAtEof,
         WriteChunk, AfterWrite, OnExit, ReadData, ReadEof, ReadWaits, ReadTimesOut,
         Seek, SeekWaitEnds, RequestSeek, TellFiller, SeekAnswered, RemainingData, RemainingWaitEnds,
         FinishSeek, Close, CloseTellsSeek, StopThread, CloseTellsStop, Closed
<1> QED
  BY <1>1, <1>2, StoppingStep DEF Stopping, Calm

\* A step of the filler, while nothing has failed and nobody has closed the file.
LEMMA FillerStep ==
  ASSUME TypeOK, Stopping, Calm, Handshake, Place, Filled, Filler, Calm'
  PROVE  Handshake' /\ Place' /\ Filled'
<1> USE DEF Handshake, Place, Filled, Asking, Serving
<1>1. Sound(cache) /\ m_seekPos \in Nat /\ chunk \in [at : Nat, len : 0..ChunkSize]
        /\ source \in Nat /\ Length \in Nat /\ ~m_bStop /\ group # "stop" /\ fpc # "exit"
  BY FileCacheAssumption DEF TypeOK, Sound, Stopping, Calm
<1>2. CASE LoopTop
  BY <1>1, <1>2 DEF LoopTop
<1>3. CASE NoSeek
  BY <1>3 DEF NoSeek
<1>4. CASE SeekSource
  <2>1. ~("seek" \in fault')
    BY DEF Calm
  <2>2. /\ fpc' = "seek"
        /\ eof' = (CachedDataEndPosIfSeekTo(cache, m_seekPos) = Length)
        /\ source' = IF eof' THEN source ELSE CachedDataEndPosIfSeekTo(cache, m_seekPos)
    BY <1>4, <2>1 DEF SeekSource, Fails
  <2>3. CachedDataEndPosIfSeekTo(cache, m_seekPos)' = CachedDataEndPosIfSeekTo(cache, m_seekPos)
    BY <1>4 DEF SeekSource
  <2>4. (CachedDataEndPosIfSeekTo(cache, m_seekPos) = IF eof THEN Length ELSE source)'
    BY <2>2, <2>3
  <2>5. /\ m_seekEvent /\ ~m_seekEvent' /\ fpc = "poll" /\ fpc' = "seek"
        /\ UNCHANGED <<cache, m_seekEnded, group, m_readPos, m_seekPos, m_seekPossible, rpc, target>>
    BY <1>4, <2>2 DEF SeekSource, Fails, Calm
  <2>6. group' # "seek"
    BY <1>4, <2>5 DEF Stopping
  <2> QED
    BY <2>4, <2>5, <2>6
<1>5. CASE SeekCache
  <2>1. /\ cache' = Reset(cache, m_seekPos) /\ cache'.cur = m_seekPos
        /\ cache'.eoi = cache.eoi /\ cache'.end = CachedDataEndPosIfSeekTo(cache, m_seekPos)
    BY <1>1, <1>5, ResetIs DEF SeekCache
  <2> QED
    BY <1>5, <2>1 DEF SeekCache
<1>6. CASE SeekEnded
  BY <1>6 DEF SeekEnded
<1>7. CASE WaitForSpace
  BY <1>7 DEF WaitForSpace
<1>8. CASE ReadSource
  <2>1. PICK n \in 1..GetMaxWriteSize(cache, ChunkSize) :
          chunk' = [at |-> source, len |-> n] /\ source' = source + n
    BY <1>8 DEF ReadSource
  <2>2. chunk'.at = source /\ chunk'.len = n
    BY <2>1
  <2> QED
    BY <1>8, <2>1, <2>2 DEF ReadSource
<1>9. CASE HitEof
  <2>1. cache'.cur = cache.cur /\ cache'.end = cache.end
    BY <1>1, <1>9, FlagIs DEF HitEof, SameData
  <2> QED
    BY <1>1, <1>9, <2>1 DEF HitEof
<1>10. CASE BeginAbortableWait
  BY <1>10 DEF BeginAbortableWait
<1>11. CASE SeekAtEof
  <2>1. cache'.cur = cache.cur /\ cache'.end = cache.end /\ ~cache'.eoi
    BY <1>1, <1>11, FlagIs DEF SeekAtEof, SameData
  <2> QED
    BY <1>11, <2>1 DEF SeekAtEof
<1>12. CASE WriteChunk
  <2> DEFINE k == WriteLen(cache, chunk.len)
  <2>1. cache' = WriteToCache(cache, chunk.at, k)
          /\ chunk' = [at |-> chunk.at + k, len |-> chunk.len - k] /\ fpc' = "written"
    BY <1>1, <1>12 DEF WriteChunk
  <2>2. chunk.len \in Nat /\ chunk.at \in Nat
    BY <1>1
  <2>3. k \in Nat /\ k = WriteLen(cache, chunk.len)
    BY <1>1, <2>2, WriteLenIs
  <2> HIDE DEF k
  <2>4. cache'.end = cache.end + k /\ cache'.cur = cache.cur /\ cache'.eoi = cache.eoi
    BY <1>1, <2>1, <2>2, <2>3, WriteIs
  <2>5. chunk'.at = chunk.at + k /\ chunk'.len = chunk.len - k
    BY <2>1
  <2>6. chunk'.at = cache'.end /\ chunk'.at + chunk'.len = source
    BY <1>1, <1>12, <2>2, <2>3, <2>4, <2>5 DEF WriteChunk
  <2> QED
    BY <1>12, <2>1, <2>4, <2>6 DEF WriteChunk
<1>13. CASE AfterWrite
  BY <1>1, <1>13 DEF AfterWrite
<1>14. ~(ReadFails \/ StopAtEof \/ OnExit)
  BY <1>1 DEF Calm, ReadFails, StopAtEof, OnExit
<1> QED
  BY <1>2, <1>3, <1>4, <1>5, <1>6, <1>7, <1>8, <1>9, <1>10, <1>11, <1>12, <1>13, <1>14 DEF Filler

\* A step of the reader; it may ask for a seek at any of the filler's places.
LEMMA ReaderStep ==
  ASSUME TypeOK, Stopping, Calm, Handshake, Place, Filled, Reader, Calm'
  PROVE  Handshake' /\ Place' /\ Filled'
<1> USE DEF Handshake, Place, Filled, Asking, Serving
<1>1. Sound(cache) /\ m_seekPos \in Nat /\ target \in Nat /\ Length \in Nat /\ m_readPos \in Nat
  BY FileCacheAssumption DEF TypeOK, Sound
<1>2. /\ cache.beg \in Nat /\ cache.end \in Nat /\ cache.cur \in Nat
      /\ cache.beg <= cache.cur /\ cache.cur <= cache.end
  BY <1>1 DEF Sound, CacheType, Positions
<1>3. CASE ReadData
  <2>1. PICK n \in 1..MaxRead :
          LET k == ReadLen(cache, n)
          IN  cache' = ReadFromCache(cache, k) /\ m_readPos' = m_readPos + k
    BY <1>3 DEF ReadData
  <2>2. n \in Nat
    OBVIOUS
  <2>3. PICK k : k = ReadLen(cache, n)
    OBVIOUS
  <2>4. k \in Nat /\ SameData(cache, cache') /\ cache'.cur = cache.cur + k
          /\ cache'.eoi = cache.eoi /\ m_readPos' = m_readPos + k
    BY <1>1, <2>1, <2>2, <2>3, ReadIs
  <2> QED
    BY <1>3, <2>4 DEF ReadData, Reading, SameData
<1>4. CASE ReadEof \/ ReadWaits \/ ReadTimesOut
  BY <1>4 DEF ReadEof, SeesEof, Reading, ReadWaits, ReadTimesOut
<1>5. CASE \E t \in 0..Length : Seek(t)
  <2>1. PICK t \in 0..Length : Seek(t)
    BY <1>5
  <2>2. t \in Nat
    BY <2>1
  <2>3. SameData(cache, cache') /\ cache'.eoi = cache.eoi
    BY <1>1, <2>1, <2>2, SeekToIs, SeekToEndIs DEF Seek, SameData
  <2>4. \/ rpc' = "seekWait"
        \/ cache'.cur = t /\ m_readPos' = t /\ rpc' = "idle"
        \/ cache' = cache /\ m_readPos' = m_readPos /\ rpc' = IF m_seekPossible THEN "request" ELSE "idle"
    BY <1>1, <2>1, <2>2, SeekToIs DEF Seek
  <2> QED
    BY <2>1, <2>3, <2>4 DEF Seek, SameData
<1>6. CASE SeekWaitEnds
  <2>1. SameData(cache, cache') /\ cache'.eoi = cache.eoi
    BY <1>1, <1>6, SeekToIs DEF SeekWaitEnds, SameData
  <2>2. \/ cache'.cur = target /\ m_readPos' = target /\ rpc' = "idle"
        \/ cache' = cache /\ m_readPos' = m_readPos /\ rpc' = IF m_seekPossible THEN "request" ELSE "idle"
    BY <1>1, <1>6, SeekToIs DEF SeekWaitEnds
  <2> QED
    BY <1>6, <2>1, <2>2 DEF SeekWaitEnds, SameData
<1>7. CASE RequestSeek
  <2>1. m_seekPos' <= target
    BY <1>1, <1>7, FileCacheAssumption DEF RequestSeek, AtMost, AtLeast
  <2> QED
    BY <1>7, <2>1 DEF RequestSeek
<1>8. CASE TellFiller
  <2>1. m_seekEvent' = m_seekEvent /\ (group' = "seek" => m_seekEvent)
    BY <1>8 DEF TellFiller, TellGroup, Calm
  <2> QED
    BY <1>8, <2>1 DEF TellFiller
<1>9. CASE SeekAnswered
  BY <1>1, <1>9 DEF SeekAnswered
<1>10. CASE RemainingData
  <2>1. CASE Front(cache) >= target - m_seekPos
    <3>1. cache.beg <= target /\ target <= cache.end /\ IsCachedPosition(cache, target)
      BY <1>1, <1>2, <1>10, <2>1 DEF RemainingData, Front, IsCachedPosition
    <3>2. SameData(cache, cache') /\ cache'.eoi = cache.eoi /\ cache'.cur = target
            /\ rpc' \in {"remainWait", "finish"}
      <4>1. CASE SeekWaits(cache, target)
        <5>1. target = cache.end
          BY <1>1, <1>2, <3>1, <4>1 DEF SeekWaits
        <5>2. cache' = SeekToEnd(cache) /\ rpc' = "remainWait"
          BY <1>1, <1>2, <1>10, <2>1, <4>1 DEF RemainingData, Front
        <5> QED
          BY <1>1, <5>1, <5>2, SeekToEndIs
      <4>2. CASE ~SeekWaits(cache, target)
        <5>1. cache' = SeekTo(cache, target) /\ rpc' = "finish"
          BY <1>1, <1>2, <1>10, <2>1, <3>1, <4>2 DEF RemainingData, SeekIfCached, Front
        <5> QED
          BY <1>1, <3>1, <5>1, SeekToIs
      <4> QED
        BY <4>1, <4>2
    <3> QED
      BY <1>10, <3>2 DEF RemainingData, SameData
  <2>2. CASE ~(Front(cache) >= target - m_seekPos)
    <3>1. cache' = cache /\ rpc' = "idle"
      BY <1>10, <2>2 DEF RemainingData
    <3> QED
      BY <1>10, <3>1 DEF RemainingData
  <2> QED
    BY <2>1, <2>2
<1>11. CASE RemainingWaitEnds
  <2>1. IsCachedPosition(cache, target)
    BY <1>2, <1>11 DEF RemainingWaitEnds, IsCachedPosition
  <2>2. SameData(cache, cache') /\ cache'.eoi = cache.eoi /\ cache'.cur = target
    BY <1>1, <1>11, <2>1, SeekToIs DEF RemainingWaitEnds, SeekIfCached
  <2> QED
    BY <1>11, <2>2 DEF RemainingWaitEnds, SameData
<1>12. CASE FinishSeek
  BY <1>12 DEF FinishSeek
<1> QED
  BY <1>3, <1>4, <1>5, <1>6, <1>7, <1>8, <1>9, <1>10, <1>11, <1>12 DEF Reader

\* The cache holds the bytes of the source, whether or not somebody stops.
LEMMA ContentStep ==
  ASSUME IInv, [Next]_vars, Straight'
  PROVE  Content(cache')
<1>1. /\ TypeOK /\ Stopping /\ Sound(cache) /\ m_seekPos \in Nat /\ target \in Nat
      /\ chunk \in [at : Nat, len : 0..ChunkSize]
  BY FileCacheAssumption DEF IInv, TypeOK, Sound
<1>2. fault \subseteq fault' /\ Content(cache)
  BY <1>1, CalmStep DEF IInv, Straight
<1>3. CASE WriteChunk
  <2>1. CASE m_bStop
    BY <1>2, <1>3, <2>1 DEF WriteChunk
  <2>2. CASE ~m_bStop
    <3>1. fault = {}
      BY <1>1, <1>2, <2>2 DEF TypeOK, Stopping, Straight
    <3>2. chunk.at = cache.end
      BY <1>3, <2>2, <3>1 DEF IInv, Calm, Filled, WriteChunk
    <3>3. PICK k : k = WriteLen(cache, chunk.len)
      OBVIOUS
    <3>4. chunk.len \in Nat /\ chunk.at \in Nat
      BY <1>1
    <3>5. k \in Nat
      BY <1>1, <3>3, <3>4, WriteLenIs
    <3>6. cache' = WriteToCache(cache, chunk.at, k)
      BY <1>3, <2>2, <3>3 DEF WriteChunk
    <3> QED
      BY <1>1, <1>2, <3>2, <3>3, <3>4, <3>5, <3>6, WriteContent
  <2> QED
    BY <2>1, <2>2
<1>4. CASE SeekCache
  BY <1>1, <1>2, <1>4, ResetIs DEF SeekCache
<1>5. CASE HitEof \/ SeekAtEof \/ OnExit
  <2>1. SameData(cache, cache')
    BY <1>1, <1>5, FlagIs DEF HitEof, SeekAtEof, OnExit
  <2> QED
    BY <1>2, <2>1, SameContent
<1>6. CASE ReadData
  <2>1. PICK n \in 1..MaxRead : cache' = ReadFromCache(cache, ReadLen(cache, n))
    BY <1>6 DEF ReadData
  <2>2. n \in Nat
    OBVIOUS
  <2>3. SameData(cache, cache')
    BY <1>1, <2>1, <2>2, ReadIs
  <2> QED
    BY <1>2, <2>3, SameContent
<1>7. CASE (\E t \in 0..Length : Seek(t)) \/ SeekWaitEnds \/ RemainingData \/ RemainingWaitEnds
  <2>1. CASE cache' = cache
    BY <1>2, <2>1
  <2>2. CASE cache' # cache
    <3>1. \/ cache' = SeekToEnd(cache)
          \/ \E t \in Nat : IsCachedPosition(cache, t) /\ cache' = SeekTo(cache, t)
      BY <1>1, <1>7, <2>2 DEF Seek, SeekWaitEnds, RemainingData, RemainingWaitEnds, SeekIfCached
    <3>2. SameData(cache, cache')
      BY <1>1, <3>1, SeekToIs, SeekToEndIs
    <3> QED
      BY <1>2, <3>2, SameContent
  <2> QED
    BY <2>1, <2>2
<1>8. CASE ~(WriteChunk \/ SeekCache \/ HitEof \/ SeekAtEof \/ OnExit \/ ReadData
              \/ (\E t \in 0..Length : Seek(t)) \/ SeekWaitEnds \/ RemainingData
              \/ RemainingWaitEnds)
  <2>1. cache' = cache
    BY <1>8 DEF Next, Filler, Reader, Closer, vars, LoopTop, NoSeek, SeekSource, SeekEnded,
                WaitForSpace, ReadSource, ReadFails, BeginAbortableWait, StopAtEof, AfterWrite,
                ReadEof, ReadWaits, ReadTimesOut, RequestSeek, TellFiller, SeekAnswered,
                FinishSeek, Close, CloseTellsSeek, StopThread, CloseTellsStop, Closed
  <2> QED
    BY <1>2, <2>1
<1> QED
  BY <1>3, <1>4, <1>5, <1>6, <1>7, <1>8

LEMMA NextInv == IInv /\ [Next]_vars => IInv'
<1> SUFFICES ASSUME IInv, [Next]_vars
             PROVE  IInv'
  OBVIOUS
<1>1. TypeOK' /\ Stopping'
  BY TypeStep, StoppingStep DEF IInv
<1>2. (Straight => Content(cache))'
  BY ContentStep
<1>3. ASSUME Calm'
      PROVE  Handshake' /\ Place' /\ Filled'
  <2>1. Calm /\ TypeOK /\ Stopping /\ Handshake /\ Place /\ Filled
    BY <1>3, CalmStep DEF IInv
  <2>2. CASE UNCHANGED vars
    BY <2>1, <2>2 DEF vars, Handshake, Place, Filled, Asking, Serving
  <2>3. CASE Filler
    BY <1>3, <2>1, <2>3, FillerStep
  <2>4. CASE Reader
    BY <1>3, <2>1, <2>4, ReaderStep
  <2>5. ~Closer
    BY <1>3, <2>1 DEF Closer, Close, CloseTellsSeek, StopThread, CloseTellsStop, Closed,
                      Stopping, Calm
  <2> QED
    BY <2>2, <2>3, <2>4, <2>5 DEF Next
<1> QED
  BY <1>1, <1>2, <1>3 DEF IInv

\* The inductive invariant of FileCache.
LEMMA Invariant == Spec => []IInv
BY InitInv, NextInv, PTL DEF Spec

-------------------------------------------------------------------------------

(***************************************************************************)
(* The positions of the circular buffer keep their order and its unread    *)
(* bytes never exceed it, for any sizes of buffer, back buffer and pieces. *)
(***************************************************************************)
THEOREM PositionsInOrder == Spec => []TypeOK
BY Invariant, PTL DEF IInv

(***************************************************************************)
(* Without faults the reader is, between calls, where its last seek left   *)
(* it, whichever way that seek took (CFileCache::Seek).                    *)
(***************************************************************************)
THEOREM ReaderIsThere == Spec => []PositionAgrees
<1>1. IInv => PositionAgrees
  BY DEF IInv, Stopping, Calm, Place, PositionAgrees
<1> QED
  BY <1>1, Invariant, PTL

(***************************************************************************)
(* Read reports the end of the file at the end of the file only, although  *)
(* the flag that says so is shared with the filler.                        *)
(***************************************************************************)
THEOREM EndIsTheEnd == Spec => []EofIsTheEnd
<1>1. IInv => EofIsTheEnd
  <2> SUFFICES ASSUME IInv, SeesEof, m_seekPossible, fault = {}, ~m_bStop
               PROVE  m_readPos >= Length
    BY DEF EofIsTheEnd
  <2>1. Place /\ Filled /\ cache \in CacheType
    BY DEF IInv, Calm, TypeOK
  <2>2. cache.cur \in Nat /\ cache.end \in Nat /\ cache.end - cache.cur = 0 /\ cache.eoi
          /\ rpc \in {"idle", "readWait"}
    BY <2>1 DEF CacheType, SeesEof, Front, Reading
  <2> QED
    BY <2>1, <2>2, FileCacheAssumption DEF Place, Filled
<1> QED
  BY <1>1, Invariant, PTL

(***************************************************************************)
(* Read delivers the bytes of the source at the reader's position, in      *)
(* order and without a gap, also across the wrap point of the buffer and   *)
(* while the filler overwrites what is behind the reader.                  *)
(***************************************************************************)
THEOREM ReadDeliversTheSource == Spec => ReadDelivers
<1> DEFINE Delivers ==
      ReadData /\ fault \cap {"seek", "late"} = {} =>
        LET k == m_readPos' - m_readPos
        IN  BytesRead(cache, k) = [i \in 1..k |-> cache.cur + i - 1]
<1>1. IInv /\ [Next]_vars => [Delivers]_vars
  <2> SUFFICES ASSUME IInv, ReadData, fault \cap {"seek", "late"} = {}
               PROVE  BytesRead(cache, m_readPos' - m_readPos)
                        = [i \in 1..(m_readPos' - m_readPos) |-> cache.cur + i - 1]
    OBVIOUS
  <2>1. Sound(cache) /\ Content(cache) /\ m_readPos \in Nat
    BY DEF IInv, TypeOK, Sound, Straight
  <2>2. PICK n \in 1..MaxRead : m_readPos' = m_readPos + ReadLen(cache, n)
    BY DEF ReadData
  <2>3. PICK k : k = ReadLen(cache, n)
    OBVIOUS
  <2>4. n \in Nat
    OBVIOUS
  <2>5. k \in Nat
    BY <2>1, <2>3, <2>4, ReadIs
  <2>6. m_readPos' - m_readPos = k
    BY <2>1, <2>2, <2>3, <2>5
  <2> QED
    <3>1. BytesRead(cache, k) = [i \in 1..k |-> cache.cur + i - 1]
      BY <2>1, <2>3, <2>4, ReadBytes
    <3> QED
      BY <2>6, <3>1, Zenon
<1> QED
  BY <1>1, Invariant, PTL DEF Spec, ReadDelivers

===============================================================================
