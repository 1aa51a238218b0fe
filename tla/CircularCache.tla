----------------------------- MODULE CircularCache -----------------------------
(***************************************************************************)
(* CCircularCache (filesystem/CircularCache.cpp) with the end-of-input     *)
(* flag of its base CCacheStrategy: the value of one cache and its methods *)
(* as operators that take a value and return the next one.  The methods    *)
(* run under the cache's m_sync; CachedDataEndPosIfSeekTo, CachedDataEndPos*)
(* and the flag do without, and read what only their caller writes.        *)
(*                                                                         *)
(* beg, end and cur are positions in the file; byte p of the file is kept  *)
(* at buf[p % Size].  A byte of the file is represented by its position,   *)
(* so `n bytes from position `at'' stand for a piece of the source.        *)
(***************************************************************************)
EXTENDS Integers

CONSTANTS
  Size,      \* m_size: front + back
  Back,      \* m_size_back: how much of what was read is kept
  SeekAhead, \* the 100000 bytes a seek may lie ahead of what is cached
  NoByte     \* the contents of memory that was never written

ASSUME CacheAssumption ==
  /\ Size \in Nat \ {0}
  /\ Back \in Nat /\ Back < Size
  /\ SeekAhead \in Nat
  /\ NoByte \notin Int

AtMost(a, b) == IF a <= b THEN a ELSE b
AtLeast(a, b) == IF a >= b THEN a ELSE b

\* Open.
NewCache ==
  [beg |-> 0, end |-> 0, cur |-> 0, eoi |-> FALSE, buf |-> [x \in 0..Size-1 |-> NoByte]]

\* What "always applies" to the three positions (CircularCache.cpp).
Positions(c) == c.beg <= c.cur /\ c.cur <= c.end /\ c.end - c.beg <= Size

CacheType ==
  [beg : Nat, end : Nat, cur : Nat, eoi : BOOLEAN, buf : [0..Size-1 -> Nat \cup {NoByte}]]

\* What there is to read, and what there is behind the reader.
Front(c) == c.end - c.cur
BackSize(c) == c.cur - c.beg

\* How many bytes may be written without losing unread or protected ones.
Limit(c) == Size - AtMost(BackSize(c), Back) - Front(c)

GetMaxWriteSize(c, n) == AtMost(n, Limit(c))

\* The bytes WriteToCache takes of n: up to the limit, and not over the wrap.
WriteLen(c, n) == AtMost(AtMost(n, Limit(c)), Size - (c.end % Size))

\* Mutant: the history that was overwritten is not dropped.
WriteToCache_KeepHistory(c, at, k) ==
  LET pos == c.end % Size
  IN  [c EXCEPT !.buf = [x \in 0..Size-1 |->
                           IF pos <= x /\ x < pos + k THEN at + (x - pos) ELSE @[x]],
                !.end = c.end + k]

\* WriteToCache of k = WriteLen(c, n) bytes that begin with byte `at'.
WriteToCache(c, at, k) ==
  LET pos == c.end % Size
  IN  [c EXCEPT !.buf = [x \in 0..Size-1 |->
                           IF pos <= x /\ x < pos + k THEN at + (x - pos) ELSE @[x]],
                !.end = c.end + k,
                !.beg = AtLeast(c.beg, c.end + k - Size)]

\* Mutant: the read runs over the wrap point of the buffer.
ReadLen_OverWrap(c, n) == AtMost(n, Front(c))

\* The bytes ReadFromCache delivers of n: what is there, up to the wrap.
ReadLen(c, n) == AtMost(n, AtMost(Size - (c.cur % Size), Front(c)))

\* The bytes themselves: memory from `m_buf + pos' on, beyond m_buf if k is too large.
BytesRead(c, k) ==
  LET pos == c.cur % Size
  IN  [i \in 1..k |-> IF pos + i <= Size THEN c.buf[pos + i - 1] ELSE NoByte]

ReadFromCache(c, k) == [c EXCEPT !.cur = @ + k]

IsCachedPosition(c, p) == c.beg <= p /\ p <= c.end

CachedDataEndPosIfSeekTo(c, p) == IF IsCachedPosition(c, p) THEN c.end ELSE p

\* Seek: p is a little ahead, so everything becomes back buffer and it waits.
SeekWaits(c, p) == c.end <= p /\ p < c.end + SeekAhead
SeekToEnd(c) == [c EXCEPT !.cur = c.end]

SeekTo(c, p) == [c EXCEPT !.cur = p]

\* Reset(p, false).  Nothing that was cached can be read again: it is forgotten here.
Reset(c, p) ==
  IF IsCachedPosition(c, p) THEN SeekTo(c, p)
  ELSE [NewCache EXCEPT !.beg = p, !.end = p, !.cur = p, !.eoi = c.eoi]

EndOfInput(c) == [c EXCEPT !.eoi = TRUE]
ClearEndOfInput(c) == [c EXCEPT !.eoi = FALSE]

===============================================================================
