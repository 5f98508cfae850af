----------------------------- MODULE LogsProofs -----------------------------
(***************************************************************************)
(* A log session is shown what the buffer took for it, and the buffer      *)
(* keeps to its limits, for every limit, every amount of output and every  *)
(* order in which deliveries, sweeps, closes and deletions meet.           *)
(***************************************************************************)
EXTENDS Logs, WellFoundedInduction, FiniteSetTheorems, TLAPS

LogRow == [st : {"none", "pending", "done", "failed", "gone"}, follow : BOOLEAN,
           rev : Revision, since : Int, due : BOOLEAN, sent : Int]
LogChunk == [seq : Int, lo : Int, hi : Int]
LogBuffer == [held : BOOLEAN, chunks : Seq(LogChunk), next : Nat, dropped : BOOLEAN,
              stale : BOOLEAN]
LogSession == [pc : {"none", "row", "buffer", "close", "drop", "closed"}, cursor : Nat,
               saw : {"none", "pending", "done", "failed"}, ok : BOOLEAN,
               news : Seq(Int \X Int), idled : BOOLEAN]
LogTick == [pc : {"idle", "read", "post", "write", "complete"}, rev : Revision, since : Int,
            lo : Int, hi : Int, err : BOOLEAN]

(* The buffer numbers its chunks in a row, up to the next number; none is   *)
(* missing from the front unless it says so; and it is of bounded size.     *)
Numbered(b) ==
    /\ Len(b.chunks) <= b.next
    /\ \A k \in 1..Len(b.chunks) : b.chunks[k].seq = b.next - Len(b.chunks) + k - 1
    /\ ~b.dropped => Len(b.chunks) = b.next
    /\ ~b.held => b.next = 0 /\ ~b.stale
    /\ Size(b.chunks) <= MaxBytes \/ Len(b.chunks) = 1

(* A session has still to see what was written from its cursor on.          *)
Follows(b, cursor, news) ==
    /\ cursor <= b.next /\ Len(news) = b.next - cursor
    /\ \A k \in 1..Len(b.chunks) :
          b.chunks[k].seq >= cursor =>
             news[b.chunks[k].seq - cursor + 1] = <<b.chunks[k].lo, b.chunks[k].hi>>

(* Nothing more is delivered: no tick is under way and the request is done. *)
Quiet == ag.pc = "idle" /\ req.st \in {"done", "gone"}

LogsType ==
    /\ out \in [Revision -> Nat] /\ others \in Nat /\ swept \in BOOLEAN
    /\ req \in LogRow /\ buf \in LogBuffer /\ cli \in LogSession /\ ag \in LogTick

SessionInv ==
    /\ req.st = "none" => req = NoReq /\ cli = NoCli /\ ag.pc = "idle" /\ ~buf.held /\ ~swept
    /\ swept => req.st = "gone"
    /\ cli.pc \in {"row", "buffer"} /\ req.st # "gone" /\ ~cli.idled => Follows(buf, cli.cursor, cli.news)
    /\ cli.pc \in {"row", "buffer"} /\ req.st = "done" => Quiet
    /\ cli.pc = "buffer" /\ cli.saw = "done" => Quiet
    /\ cli.ok => Quiet /\ cli.news = << >>

LogsInv == LogsType /\ Numbered(buf) /\ Entries <= MaxBuffers /\ SessionInv

(* A set of numbers that is not empty has a least one.                      *)
LEMMA Least ==
    ASSUME NEW T \in SUBSET Nat, T # {}
    PROVE  \E x \in T : \A y \in T : x <= y
<1>1. PICK x \in T : \A y \in T : ~(<<y, x>> \in OpToRel(<, Nat))
  BY NatLessThanWellFounded, WFMin, Zenon
<1>2. ASSUME NEW y \in T PROVE x <= y
  <2>1. <<y, x>> \in Nat \X Nat /\ <<y, x>>[1] = y /\ <<y, x>>[2] = x
    OBVIOUS
  <2>2. y < x => <<y, x>> \in OpToRel(<, Nat)
    BY <2>1, Zenon DEF OpToRel
  <2>3. ~(y < x)
    BY <1>1, <2>2, Zenon
  <2>4. QED
    BY <2>3
<1>3. QED
  BY <1>2, Zenon

(* The chunks from a position on, as a sequence.                            *)
Upto(s, f, k) == [j \in 1..(IF k > f THEN k - f ELSE 0) |-> s[f + j]]

(* Extending it by the next chunk.                                          *)
LEMMA UptoNext ==
    ASSUME NEW s \in Seq(LogChunk), NEW f \in 0..Len(s), NEW k \in 1..Len(s)
    PROVE  /\ Upto(s, f, k) \in Seq(LogChunk)
           /\ Upto(s, f, 0) = << >>
           /\ k <= f => Upto(s, f, k) = Upto(s, f, k - 1)
           /\ k > f => Upto(s, f, k) = Append(Upto(s, f, k - 1), s[k])
<1>1. \A j \in 1..Len(s) : s[j] \in LogChunk
  OBVIOUS
<1>2. ASSUME NEW l \in 0..Len(s)
      PROVE  Upto(s, f, l) \in Seq(LogChunk) /\ Len(Upto(s, f, l)) = (IF l > f THEN l - f ELSE 0)
  <2> DEFINE n == IF l > f THEN l - f ELSE 0
  <2>1. n \in Nat /\ \A j \in 1..n : f + j \in 1..Len(s)
    OBVIOUS
  <2> HIDE DEF n
  <2> DEFINE g == [j \in 1..n |-> s[f + j]]
  <2>2. g \in [1..n -> LogChunk]
    BY <1>1, <2>1
  <2> HIDE DEF g
  <2>3. g \in Seq(LogChunk) /\ Len(g) = n
    BY <2>1, <2>2
  <2>4. QED
    BY <2>3 DEF Upto, n, g
<1>3. Upto(s, f, 0) = << >>
  BY DEF Upto
<1>4. k <= f => Upto(s, f, k) = Upto(s, f, k - 1)
  BY DEF Upto
<1>5. ASSUME k > f PROVE Upto(s, f, k) = Append(Upto(s, f, k - 1), s[k])
  <2> DEFINE u == Upto(s, f, k)
             w == Upto(s, f, k - 1)
  <2>1. u \in Seq(LogChunk) /\ Len(u) = k - f /\ w \in Seq(LogChunk) /\ Len(w) = k - 1 - f
    <3>1. k \in 0..Len(s) /\ k - 1 \in 0..Len(s)
      OBVIOUS
    <3>2. /\ u \in Seq(LogChunk) /\ Len(u) = IF k > f THEN k - f ELSE 0
          /\ w \in Seq(LogChunk) /\ Len(w) = IF k - 1 > f THEN k - 1 - f ELSE 0
      BY <1>2, <3>1, Zenon
    <3> HIDE DEF u, w
    <3>3. QED
      BY <1>5, <3>2
  <2>2. /\ \A j \in 1..(k - f) : u[j] = s[f + j]
        /\ \A j \in 1..(k - 1 - f) : w[j] = s[f + j]
    BY <1>5 DEF Upto
  <2> HIDE DEF u, w
  <2>3. s[k] \in LogChunk /\ f + (k - f) = k
    BY <1>1
  <2>4. Append(w, s[k]) \in Seq(LogChunk) /\ Len(Append(w, s[k])) = k - f
    BY <2>1, <2>3
  <2>5. ASSUME NEW j \in 1..(k - f) PROVE Append(w, s[k])[j] = u[j]
    <3>1. f \in Int /\ k \in Int /\ j \in Int /\ Len(w) + 1 = k - f
      BY <2>1
    <3>2. CASE j = k - f
      <4>1. Append(w, s[k])[Len(w) + 1] = s[k]
        BY <2>1, <2>3
      <4>2. u[k - f] = s[f + (k - f)]
        BY <2>2, <3>2
      <4>3. QED
        BY <2>3, <3>1, <3>2, <4>1, <4>2
    <3>3. CASE j # k - f
      <4>1. j \in 1..(k - 1 - f) /\ j \in 1..Len(w)
        BY <2>1, <3>1, <3>3
      <4>2. Append(w, s[k])[j] = w[j]
        BY <2>1, <2>3, <4>1
      <4>3. QED
        BY <2>2, <4>1, <4>2
    <3>4. QED
      BY <3>2, <3>3, Zenon
  <2>6. u = Append(w, s[k])
    BY <2>1, <2>4, <2>5
  <2>7. QED
    BY <2>6 DEF u, w
<1>6. QED
  BY <1>2, <1>3, <1>4, <1>5

(* How many chunks lie before a number, in a buffer that numbers them in a  *)
(* row.                                                                     *)
Before(b, from) ==
    LET first == b.next - Len(b.chunks) IN
    IF from <= first THEN 0 ELSE IF from >= b.next THEN Len(b.chunks) ELSE from - first

(* Read's loop returns the chunks from the cursor on, and no other.         *)
LEMMA ChunksFromIs ==
    ASSUME NEW b \in LogBuffer, Numbered(b), NEW from \in Nat
    PROVE  /\ Before(b, from) \in 0..Len(b.chunks)
           /\ ChunksFrom(b, from) = Upto(b.chunks, Before(b, from), Len(b.chunks))
<1> DEFINE s == b.chunks
           f == Before(b, from)
           Round(g, k) == IF k = 0 THEN << >>
                          ELSE IF s[k].seq >= from THEN Append(g[k - 1], s[k]) ELSE g[k - 1]
           Loop(g) == g = [k \in 0..Len(s) |-> Round(g, k)]
           w == [k \in 0..Len(s) |-> Upto(s, f, k)]
           t == CHOOSE g : Loop(g)
<1>1. s \in Seq(LogChunk) /\ Len(s) \in Nat /\ b.next \in Nat /\ Len(s) <= b.next
  BY DEF LogBuffer, Numbered
<1>2. \A k \in 1..Len(s) : s[k].seq = b.next - Len(s) + k - 1
  BY DEF Numbered
<1>3. f \in 0..Len(s)
  BY <1>1 DEF Before
<1>4. \A k \in 1..Len(s) : s[k].seq >= from <=> k > f
  <2>1. ASSUME NEW L \in Nat, NEW N \in Nat, L <= N, NEW k \in 1..L
        PROVE  N - L + k - 1 >= from <=>
               k > (IF from <= N - L THEN 0 ELSE IF from >= N THEN L ELSE from - (N - L))
    BY <2>1
  <2>2. f = IF from <= b.next - Len(s) THEN 0
            ELSE IF from >= b.next THEN Len(s) ELSE from - (b.next - Len(s))
    BY DEF Before
  <2> HIDE DEF s, f
  <2>3. QED
    BY <1>1, <1>2, <2>1, <2>2
<1>5. ChunksFrom(b, from) = t[Len(s)]
  BY DEF ChunksFrom
<1> HIDE DEF s, f
<1>6. Upto(s, f, 0) = << >>
  BY <1>3 DEF Upto
<1>7. ASSUME NEW k \in 0..Len(s) PROVE Upto(s, f, k) = Round(w, k)
  <2>1. CASE k = 0
    BY <1>6, <2>1
  <2>2. CASE k # 0
    <3>1. k \in 1..Len(s) /\ k - 1 \in 0..Len(s)
      BY <1>1, <2>2
    <3>2. w[k - 1] = Upto(s, f, k - 1)
      BY <3>1
    <3> HIDE DEF w
    <3>3. QED
      BY <1>1, <1>3, <1>4, <2>2, <3>1, <3>2, UptoNext
  <2>3. QED
    BY <2>1, <2>2, Zenon
<1>8. Loop(w)
  <2>1. \A k \in 0..Len(s) : Upto(s, f, k) = Round(w, k)
    BY <1>7, Zenon
  <2>2. [k \in 0..Len(s) |-> Upto(s, f, k)] = [k \in 0..Len(s) |-> Round(w, k)]
    <3> HIDE DEF w, Round
    <3>1. QED
      BY <2>1
  <2>3. QED
    BY <2>2
<1> HIDE DEF w
<1>9. Loop(t)
  <2> HIDE DEF Loop
  <2>1. QED
    BY <1>8, Zenon DEF t
<1> HIDE DEF t
<1>10. /\ \A k \in 0..Len(s) : t[k] = Round(t, k)
       /\ \A k \in 0..Len(s) : w[k] = Round(w, k)
  <2> HIDE DEF Round
  <2>1. QED
    BY <1>8, <1>9
<1>11. \A k \in 0..Len(s) : t[k] = w[k]
  <2> DEFINE T == {k \in 0..Len(s) : t[k] # w[k]}
  <2> SUFFICES ASSUME T # {} PROVE FALSE
    OBVIOUS
  <2>1. T \in SUBSET Nat
    BY <1>1
  <2>2. PICK x \in T : \A y \in T : x <= y
    <3> HIDE DEF T
    <3>1. QED
      BY <2>1, Least
  <2>3. x \in 0..Len(s) /\ t[x] # w[x]
    OBVIOUS
  <2>4. x # 0
    BY <1>10, <2>3
  <2>5. x - 1 \in 0..Len(s) /\ x - 1 \notin T
    BY <1>1, <2>2, <2>3, <2>4
  <2>6. t[x - 1] = w[x - 1]
    BY <2>5
  <2>7. QED
    BY <1>10, <2>3, <2>4, <2>6
<1>12. t[Len(s)] = Upto(s, f, Len(s))
  <2>1. Len(s) \in 0..Len(s)
    BY <1>1
  <2>2. w[Len(s)] = Upto(s, f, Len(s))
    BY <2>1 DEF w
  <2>3. QED
    BY <1>11, <2>1, <2>2
<1>13. QED
  BY <1>3, <1>5, <1>12 DEF s, f

(* A sequence that agrees with the end of another is a suffix of it.        *)
LEMMA SuffixIs ==
    ASSUME NEW V, NEW s \in Seq(V), NEW t \in Seq(V), Len(s) <= Len(t),
           \A j \in 1..Len(s) : s[j] = t[Len(t) - Len(s) + j]
    PROVE  IsSuffix(s, t)
<1> DEFINE S == Len(s)
           T == Len(t)
           p == Reverse(s)
           q == Reverse(t)
<1>1. S \in Nat /\ T \in Nat /\ S <= T
  OBVIOUS
<1>2. p = [j \in 1..S |-> s[(S - j) + 1]] /\ q = [j \in 1..T |-> t[(T - j) + 1]]
  BY DEF Reverse
<1>3. /\ \A j \in 1..S : s[j] \in V /\ s[j] = t[T - S + j]
      /\ \A j \in 1..T : t[j] \in V
  OBVIOUS
<1> HIDE DEF S, T, p, q
<1>4. \A j \in 1..S : p[j] = q[j]
  <2> SUFFICES ASSUME NEW j \in 1..S PROVE p[j] = q[j]
    OBVIOUS
  <2>1. p[j] = s[(S - j) + 1] /\ q[j] = t[(T - j) + 1]
    BY <1>1, <1>2
  <2>2. (S - j) + 1 \in 1..S /\ T - S + ((S - j) + 1) = (T - j) + 1
    BY <1>1
  <2>3. QED
    BY <1>3, <2>1, <2>2
<1>5. p \in Seq(V) /\ Len(p) = S
  <2>1. p \in [1..S -> V]
    BY <1>1, <1>2, <1>3
  <2>2. QED
    BY <1>1, <2>1
<1>6. q \in Seq(V) /\ Len(q) = T
  <2>1. q \in [1..T -> V]
    BY <1>1, <1>2, <1>3
  <2>2. QED
    BY <1>1, <2>1
<1>7. SubSeq(p, 1, S) = SubSeq(q, 1, S)
  <2> DEFINE u == SubSeq(p, 1, S)
             w == SubSeq(q, 1, S)
  <2>1. u \in Seq(V) /\ Len(u) = S /\ \A j \in 1..S : u[j] = p[j]
    BY <1>1, <1>5
  <2>2. w \in Seq(V) /\ Len(w) = S /\ \A j \in 1..S : w[j] = q[j]
    BY <1>1, <1>6
  <2> HIDE DEF u, w
  <2>3. u = w
    BY <1>1, <1>4, <2>1, <2>2
  <2>4. QED
    BY <2>3, Zenon DEF u, w
<1>8. QED
  BY <1>1, <1>5, <1>6, <1>7 DEF IsSuffix, IsPrefix, p, q

(* What the next page shows.                                                *)
Shown(b, cursor) ==
    [j \in 1..Len(Page(b, cursor)) |-> <<Page(b, cursor)[j].lo, Page(b, cursor)[j].hi>>]

(* A page from the cursor is the news of the session, or the end of them    *)
(* when the buffer has dropped the rest.                                    *)
LEMMA PageShowsNews ==
    ASSUME NEW b \in LogBuffer, NEW c \in LogSession, Numbered(b), Follows(b, c.cursor, c.news)
    PROVE  \/ Shown(b, c.cursor) = c.news
           \/ b.dropped /\ IsSuffix(Shown(b, c.cursor), c.news)
<1> DEFINE s == b.chunks
           L == Len(s)
           f == Before(b, c.cursor)
           N == Len(c.news)
           P == L - f
           page == Page(b, c.cursor)
           sh == Shown(b, c.cursor)
           V == Int \X Int
<1>1. s \in Seq(LogChunk) /\ L \in Nat /\ b.next \in Nat /\ L <= b.next
  BY DEF LogBuffer, Numbered
<1>2. c.cursor \in Nat /\ c.news \in Seq(V) /\ N \in Nat
  BY DEF LogSession
<1>3. c.cursor <= b.next /\ N = b.next - c.cursor
  BY DEF Follows
<1>4. f \in 0..L /\ page = Upto(s, f, L)
  BY <1>2, ChunksFromIs DEF Page
<1>5. /\ P \in Nat /\ P <= N
      /\ ~b.dropped => P = N
      /\ \A j \in 1..P : b.next - L + (f + j) - 1 = c.cursor + (N - P + j) - 1
  <2>1. f = IF c.cursor <= b.next - L THEN 0
            ELSE IF c.cursor >= b.next THEN L ELSE c.cursor - (b.next - L)
    BY DEF Before
  <2>2. ~b.dropped => L = b.next
    BY DEF Numbered
  <2> HIDE DEF s, L, f, N
  <2>3. P \in Nat
    BY <1>1, <1>4
  <2>4. P <= N
    BY <1>1, <1>2, <1>3, <2>1
  <2>5. ~b.dropped => P = N
    BY <1>1, <1>2, <1>3, <2>1, <2>2
  <2>6. ASSUME NEW j \in 1..P
        PROVE  b.next - L + (f + j) - 1 = c.cursor + (N - P + j) - 1
    <3>1. j \in Int /\ f \in Int /\ L \in Int /\ N \in Int
      BY <1>1, <1>2, <1>4
    <3>2. b.next = N + c.cursor
      BY <1>1, <1>2, <1>3
    <3>3. QED
      BY <1>2, <3>1, <3>2
  <2>7. QED
    BY <2>3, <2>4, <2>5, <2>6
<1>6. page = [j \in 1..P |-> s[f + j]] /\ page \in Seq(LogChunk) /\ Len(page) = P
  <2>1. page = [j \in 1..P |-> s[f + j]]
    <3>1. (IF L > f THEN L - f ELSE 0) = P
      BY <1>1, <1>4
    <3>2. QED
      BY <1>4, <3>1 DEF Upto
  <2> HIDE DEF page
  <2>2. page \in [1..P -> LogChunk]
    <3>1. \A j \in 1..P : f + j \in 1..L
      BY <1>1, <1>4
    <3>2. \A j \in 1..L : s[j] \in LogChunk
      BY <1>1
    <3> HIDE DEF s, L, f
    <3>3. QED
      BY <2>1, <3>1, <3>2
  <2> HIDE DEF P
  <2>3. page \in Seq(LogChunk) /\ Len(page) = P
    BY <1>5, <2>2
  <2>4. QED
    BY <2>1, <2>3, Zenon
<1>7. ASSUME NEW j \in 1..P
      PROVE  <<page[j].lo, page[j].hi>> = c.news[N - P + j] /\ N - P + j \in 1..N
  <2>1. page[j] = s[f + j] /\ f + j \in 1..L
    BY <1>1, <1>4, <1>6
  <2>2. s[f + j].seq = c.cursor + (N - P + j) - 1
    <3>1. s[f + j].seq = b.next - L + (f + j) - 1
      BY <2>1 DEF Numbered
    <3>2. QED
      BY <1>5, <3>1
  <2>3. N - P + j \in 1..N
    <3> HIDE DEF N, P
    <3>1. QED
      BY <1>2, <1>5
  <2>4. s[f + j].seq >= c.cursor /\ s[f + j].seq - c.cursor + 1 = N - P + j
    <3> HIDE DEF s, f, N, P
    <3>1. QED
      BY <1>2, <2>2, <2>3
  <2>5. c.news[s[f + j].seq - c.cursor + 1] = <<s[f + j].lo, s[f + j].hi>>
    BY <2>1, <2>4, Zenon DEF Follows
  <2>6. QED
    BY <2>1, <2>3, <2>4, <2>5, Zenon
<1>8. sh = [j \in 1..P |-> <<page[j].lo, page[j].hi>>]
  BY <1>6, Zenon DEF Shown
<1> HIDE DEF s, L, f, N, P, page, sh
<1>9. \A j \in 1..P : sh[j] = c.news[N - P + j] /\ sh[j] \in V
  <2>1. \A j \in 1..N : c.news[j] \in V
    BY <1>2 DEF N
  <2> HIDE DEF V
  <2>2. QED
    BY <1>7, <1>8, <2>1
<1>10. sh \in Seq(V) /\ Len(sh) = P
  <2> HIDE DEF V
  <2>1. sh \in [1..P -> V]
    BY <1>8, <1>9
  <2>2. QED
    BY <1>5, <2>1
<1>11. CASE ~b.dropped
  <2>1. P = N /\ \A j \in 1..N : N - P + j = j
    BY <1>2, <1>5, <1>11
  <2>2. sh = c.news
    <3> HIDE DEF V
    <3>1. QED
      BY <1>2, <1>9, <1>10, <2>1 DEF N
  <2>3. QED
    BY <2>2 DEF sh
<1>12. CASE b.dropped
  <2> HIDE DEF V
  <2>1. IsSuffix(sh, c.news)
    BY <1>2, <1>5, <1>9, <1>10, SuffixIs, Zenon DEF N
  <2>2. QED
    BY <1>12, <2>1 DEF sh
<1>13. QED
  BY <1>11, <1>12

(* Trim drops from the front, never the last chunk, and leaves no more than *)
(* the limit unless one chunk alone is over it.                             *)
LEMMA TrimIs ==
    ASSUME NEW s \in Seq(LogChunk), Len(s) > 0
    PROVE  \E d \in 0..(Len(s) - 1) :
              /\ Trim(s) = SubSeq(s, d + 1, Len(s))
              /\ Size(Trim(s)) <= MaxBytes \/ d = Len(s) - 1
<1> DEFINE L == Len(s)
           fits == {k \in 1..L : k = L \/ Size(SubSeq(s, k, L)) <= MaxBytes}
           first == CHOOSE k \in fits : \A j \in fits : k <= j
<1>1. L \in Nat /\ L > 0
  OBVIOUS
<1>2. Trim(s) = SubSeq(s, first, L)
  BY DEF Trim
<1> HIDE DEF L
<1>3. fits \in SUBSET Nat /\ L \in fits
  BY <1>1
<1>4. first \in fits
  <2> HIDE DEF fits
  <2>1. \E k \in fits : \A j \in fits : k <= j
    BY <1>3, Least
  <2>2. QED
    BY <2>1, Zenon
<1> HIDE DEF first
<1>5. first \in 1..L /\ (first = L \/ Size(SubSeq(s, first, L)) <= MaxBytes)
  BY <1>4
<1>6. first - 1 \in 0..(L - 1) /\ (first - 1) + 1 = first
  BY <1>1, <1>5
<1>7. /\ Trim(s) = SubSeq(s, (first - 1) + 1, L)
      /\ Size(Trim(s)) <= MaxBytes \/ first - 1 = L - 1
  BY <1>2, <1>5, <1>6
<1>8. QED
  BY <1>6, <1>7, Zenon DEF L

(* Write appends a chunk under the next number, and what it drops it drops  *)
(* from the front and says so.                                              *)
LEMMA WriteIs ==
    ASSUME NEW b \in LogBuffer, Numbered(b), NEW lo \in Int, NEW hi \in Int
    PROVE  LET w == Write(b, lo, hi)
               all == Append(b.chunks, [seq |-> b.next, lo |-> lo, hi |-> hi]) IN
           /\ w \in LogBuffer /\ w.held /\ w.next = b.next + 1 /\ ~w.stale
           /\ Numbered(w)
           /\ \A k \in 1..Len(w.chunks) :
                 /\ w.chunks[k] = all[w.chunks[k].seq - (b.next - Len(b.chunks)) + 1]
                 /\ w.chunks[k].seq - (b.next - Len(b.chunks)) + 1 \in 1..(Len(b.chunks) + 1)
<1> DEFINE L == Len(b.chunks)
           new == [seq |-> b.next, lo |-> lo, hi |-> hi]
           all == Append(b.chunks, new)
           kept == Trim(all)
           w == Write(b, lo, hi)
<1>1. b.chunks \in Seq(LogChunk) /\ L \in Nat /\ b.next \in Nat /\ L <= b.next /\ b.dropped \in BOOLEAN
  BY DEF LogBuffer, Numbered
<1>2. new \in LogChunk /\ new.seq = b.next
  BY <1>1 DEF LogChunk
<1>3. w = [held |-> TRUE, chunks |-> kept, next |-> b.next + 1, stale |-> FALSE,
           dropped |-> b.dropped \/ Len(kept) < Len(all)]
  BY DEF Write
<1> HIDE DEF new, kept, w
<1>4. all \in Seq(LogChunk) /\ Len(all) = L + 1
  BY <1>1, <1>2
<1>5. \A k \in 1..(L + 1) : all[k].seq = b.next - L + k - 1
  <2>1. \A k \in 1..L : all[k] = b.chunks[k] /\ b.chunks[k].seq = b.next - L + k - 1
    BY <1>1, <1>2 DEF Numbered
  <2>2. all[L + 1] = new /\ b.next - L + (L + 1) - 1 = b.next
    BY <1>1, <1>2
  <2>3. \A k \in 1..(L + 1) : k \in 1..L \/ k = L + 1
    BY <1>1
  <2> HIDE DEF L, all
  <2>4. QED
    BY <1>2, <2>1, <2>2, <2>3
<1> HIDE DEF all, L
<1>6. PICK d \in 0..L : /\ kept = SubSeq(all, d + 1, L + 1)
                        /\ Size(kept) <= MaxBytes \/ d = L
  <2>1. Len(all) > 0 /\ Len(all) - 1 = L
    BY <1>1, <1>4
  <2>2. \E d \in 0..(Len(all) - 1) :
              /\ Trim(all) = SubSeq(all, d + 1, Len(all))
              /\ Size(Trim(all)) <= MaxBytes \/ d = Len(all) - 1
    BY <1>4, <2>1, TrimIs, Zenon
  <2>3. QED
    BY <1>4, <2>1, <2>2 DEF kept
<1>7. /\ kept \in Seq(LogChunk) /\ Len(kept) = L + 1 - d
      /\ \A k \in 1..(L + 1 - d) : kept[k] = all[d + k] /\ d + k \in 1..(L + 1)
  <2>1. d + 1 \in 1..(L + 1)
    BY <1>1, <1>6
  <2>2. kept \in Seq(LogChunk) /\ Len(kept) = (L + 1) - (d + 1) + 1
    BY <1>1, <1>4, <1>6, <2>1
  <2>3. \A k \in 1..((L + 1) - (d + 1) + 1) : kept[k] = all[(d + 1) + k - 1]
    BY <1>1, <1>4, <1>6, <2>1
  <2>4. (L + 1) - (d + 1) + 1 = L + 1 - d
    BY <1>1, <1>6
  <2>5. \A k \in 1..(L + 1 - d) : (d + 1) + k - 1 = d + k /\ d + k \in 1..(L + 1)
    BY <1>1, <1>6
  <2>6. QED
    BY <2>2, <2>3, <2>4, <2>5
<1>8. /\ w.held = TRUE /\ w.chunks = kept /\ w.next = b.next + 1 /\ w.stale = FALSE
      /\ w.dropped = (b.dropped \/ Len(kept) < Len(all))
  BY <1>3
<1>9. w \in LogBuffer
  BY <1>1, <1>3, <1>7 DEF LogBuffer
<1>10. \A k \in 1..Len(kept) : kept[k].seq = b.next - L + (d + k) - 1
  BY <1>5, <1>7
<1>11. Numbered(w)
  <2>1. Len(kept) <= b.next + 1
    BY <1>1, <1>6, <1>7
  <2>2. ASSUME NEW k \in 1..Len(kept)
        PROVE  kept[k].seq = (b.next + 1) - Len(kept) + k - 1
    <3>1. ASSUME NEW x \in Int, NEW y \in Int, NEW z \in Int, NEW t \in Int
          PROVE  x - y + (z + t) - 1 = (x + 1) - (y + 1 - z) + t - 1
      OBVIOUS
    <3>2. b.next \in Int /\ L \in Int /\ d \in Int
      BY <1>1
    <3>3. k \in Int
      OBVIOUS
    <3>4. QED
      BY <1>7, <1>10, <3>1, <3>2, <3>3
  <2>3. ~w.dropped => Len(kept) = b.next + 1
    <3>1. ~b.dropped => L = b.next
      BY DEF Numbered, L
    <3>2. ~w.dropped => ~b.dropped /\ ~(Len(kept) < Len(all))
      BY <1>1, <1>8, Zenon
    <3>3. ~(L + 1 - d < L + 1) => d = 0
      BY <1>1, <1>6
    <3>4. QED
      BY <1>1, <1>4, <1>7, <3>1, <3>2, <3>3
  <2>4. Size(kept) <= MaxBytes \/ Len(kept) = 1
    BY <1>1, <1>6, <1>7
  <2>5. QED
    BY <1>8, <2>1, <2>2, <2>3, <2>4 DEF Numbered
<1>12. ASSUME NEW k \in 1..Len(kept)
       PROVE  /\ kept[k] = all[kept[k].seq - (b.next - L) + 1]
              /\ kept[k].seq - (b.next - L) + 1 \in 1..(L + 1)
  <2>1. kept[k].seq - (b.next - L) + 1 = d + k
    <3>1. ASSUME NEW x \in Int, NEW y \in Int, NEW z \in Int
          PROVE  x - y + z - 1 - (x - y) + 1 = z
      OBVIOUS
    <3>2. b.next \in Int /\ L \in Int /\ d + k \in Int
      BY <1>1, <1>6, <1>7
    <3>3. QED
      BY <1>10, <3>1, <3>2
  <2>2. QED
    BY <1>7, <2>1
<1>13. QED
  BY <1>8, <1>9, <1>11, <1>12 DEF w, all, L, new

(* A session that takes note of what is written goes on following.          *)
LEMMA WriteFollows ==
    ASSUME NEW b \in LogBuffer, Numbered(b), NEW lo \in Int, NEW hi \in Int,
           NEW cursor \in Nat, NEW news \in Seq(Int \X Int), Follows(b, cursor, news)
    PROVE  Follows(Write(b, lo, hi), cursor, Append(news, <<lo, hi>>))
<1> DEFINE w == Write(b, lo, hi)
           L == Len(b.chunks)
           new == [seq |-> b.next, lo |-> lo, hi |-> hi]
           all == Append(b.chunks, new)
           more == Append(news, <<lo, hi>>)
           N == Len(news)
<1>1. b.chunks \in Seq(LogChunk) /\ L \in Nat /\ b.next \in Nat /\ L <= b.next
  BY DEF LogBuffer, Numbered
<1>2. /\ w.next = b.next + 1
      /\ \A k \in 1..Len(w.chunks) :
            /\ w.chunks[k] = all[w.chunks[k].seq - (b.next - L) + 1]
            /\ w.chunks[k].seq - (b.next - L) + 1 \in 1..(L + 1)
  BY WriteIs
<1>3. N \in Nat /\ cursor <= b.next /\ N = b.next - cursor
  BY DEF Follows
<1>4. Len(more) = N + 1 /\ more[N + 1] = <<lo, hi>> /\ \A j \in 1..N : more[j] = news[j]
  OBVIOUS
<1>5. new \in LogChunk /\ new.seq = b.next /\ new.lo = lo /\ new.hi = hi
  BY <1>1 DEF LogChunk
<1>6. all[L + 1] = new /\ \A k \in 1..L : all[k] = b.chunks[k]
  BY <1>1, <1>5
<1>7. /\ \A k \in 1..L : b.chunks[k].seq = b.next - L + k - 1
      /\ \A k \in 1..L : b.chunks[k].seq >= cursor =>
             news[b.chunks[k].seq - cursor + 1] = <<b.chunks[k].lo, b.chunks[k].hi>>
  BY DEF Numbered, Follows
<1> HIDE DEF w, L, new, all, more, N
<1>8. ASSUME NEW k \in 1..Len(w.chunks), w.chunks[k].seq >= cursor
      PROVE  more[w.chunks[k].seq - cursor + 1] = <<w.chunks[k].lo, w.chunks[k].hi>>
  <2> DEFINE x == w.chunks[k].seq - (b.next - L) + 1
  <2>1. x \in 1..(L + 1) /\ w.chunks[k] = all[x]
    BY <1>2
  <2> HIDE DEF x
  <2>2. CASE x = L + 1
    <3>1. w.chunks[k] = new
      BY <1>6, <2>1, <2>2
    <3>2. b.next - cursor + 1 = N + 1
      BY <1>3
    <3>3. QED
      BY <1>4, <1>5, <3>1, <3>2
  <2>3. CASE x \in 1..L
    <3>1. w.chunks[k] = b.chunks[x]
      BY <1>6, <2>1, <2>3
    <3>2. b.chunks[x].seq = b.next - L + x - 1 /\ b.chunks[x].seq >= cursor
      BY <1>7, <1>8, <2>3, <3>1
    <3>3. b.chunks[x].seq - cursor + 1 \in 1..N
      BY <1>1, <1>3, <2>3, <3>2
    <3>4. QED
      BY <1>4, <1>7, <2>3, <3>1, <3>2, <3>3, Zenon
  <2>4. QED
    BY <1>1, <2>1, <2>2, <2>3
<1>9. cursor <= b.next + 1 /\ N + 1 = b.next + 1 - cursor
  BY <1>1, <1>3
<1>10. Follows(w, cursor, more)
  <2>1. Len(more) = w.next - cursor /\ cursor <= w.next
    <3>1. w.next = b.next + 1 /\ Len(more) = N + 1
      BY <1>2, <1>4
    <3>2. QED
      BY <1>1, <1>3, <1>9, <3>1
  <2>2. QED
    BY <1>8, <2>1, Zenon DEF Follows
<1>11. QED
  BY <1>10, Zenon DEF w, more

(* No chunks have no size.                                                  *)
LEMMA EmptySize == Size(<< >>) = 0
<1> DEFINE Round(g, s) ==
             IF s = {} THEN 0
             ELSE LET x == CHOOSE y \in s : TRUE IN
                  g[s \ {x}] + (<< >>[x].hi - << >>[x].lo)
           it == CHOOSE g : g = [s \in SUBSET DOMAIN << >> |-> Round(g, s)]
<1>1. Size(<< >>) = it[DOMAIN << >>]
  BY DEF Size, FoldSeq, FoldFunction, FoldFunctionOnSet, MapThenFoldSet
<1>2. DOMAIN << >> = {}
  OBVIOUS
<1> DEFINE z == [s \in SUBSET DOMAIN << >> |-> 0]
<1>3. \A g : \A s \in SUBSET DOMAIN << >> : Round(g, s) = 0
  BY <1>2
<1> HIDE DEF Round
<1>4. z = [s \in SUBSET DOMAIN << >> |-> Round(z, s)]
  BY <1>3
<1> HIDE DEF z
<1>5. it = [s \in SUBSET DOMAIN << >> |-> Round(it, s)]
  BY <1>4, Zenon
<1> HIDE DEF it
<1>6. it[{}] = 0
  BY <1>2, <1>3, <1>5
<1>7. QED
  BY <1>1, <1>2, <1>6

(* An entry that is not there is an empty one.                              *)
LEMMA NoBufFits ==
    /\ NoBuf \in LogBuffer /\ Numbered(NoBuf) /\ ~NoBuf.held /\ NoBuf.next = 0
    /\ Follows(NoBuf, 0, << >>)
<1>1. /\ NoBuf.held = FALSE /\ NoBuf.chunks = << >> /\ NoBuf.next = 0
      /\ NoBuf.dropped = FALSE /\ NoBuf.stale = FALSE
  BY DEF NoBuf
<1>2. NoBuf \in LogBuffer
  <2>1. << >> \in Seq(LogChunk)
    OBVIOUS
  <2>2. QED
    BY <2>1 DEF NoBuf, LogBuffer
<1>3. Len(<< >>) = 0 /\ 1..0 = {}
  OBVIOUS
<1>4. Numbered(NoBuf)
  BY <1>1, <1>3, EmptySize, LogsAssumption DEF Numbered
<1>5. QED
  BY <1>1, <1>2, <1>3, <1>4 DEF Follows

-----------------------------------------------------------------------------
(* The steps.                                                               *)

(* The first state.                                                         *)
LEMMA LogsInitInv == LogsInit => LogsInv
<1> SUFFICES ASSUME LogsInit PROVE LogsInv
  OBVIOUS
<1>1. /\ NoReq \in LogRow /\ NoReq.st = "none"
      /\ NoCli \in LogSession /\ NoCli.pc = "none" /\ NoCli.ok = FALSE
      /\ Idle \in LogTick /\ Idle.pc = "idle"
  <2>1. << >> \in Seq(Int \X Int)
    OBVIOUS
  <2>2. QED
    BY <2>1 DEF NoReq, NoCli, Idle, LogRow, LogSession, LogTick, Revision, NoSince
<1>2. LogsType
  BY <1>1, NoBufFits, Zenon DEF LogsInit, LogsType
<1>3. Entries <= MaxBuffers
  BY NoBufFits, LogsAssumption DEF LogsInit, Entries
<1>4. SessionInv
  BY <1>1, NoBufFits DEF LogsInit, SessionInv
<1>5. QED
  BY <1>2, <1>3, <1>4, NoBufFits DEF LogsInit, LogsInv

(* What changes neither a row nor the buffer nor a party: the rollouts.     *)
LEMMA WorldInv ==
    ASSUME LogsInv, out' \in [Revision -> Nat],
           UNCHANGED <<req, buf, others, cli, ag, swept>>
    PROVE  LogsInv'
BY DEF LogsInv, LogsType, Entries, SessionInv, Quiet

(* The rollouts keep the counts of lines.                                   *)
LEMMA RolloutsInv ==
    ASSUME LogsInv,
           Place \/ \E v \in Revision : Output(v) \/ Start(v) \/ Promote(v) \/ RemoveContainer(v)
    PROVE  LogsInv'
<1>1. out \in [Revision -> Nat]
  BY DEF LogsInv, LogsType
<1>2. CASE Place
  BY <1>1, <1>2, WorldInv DEF Place
<1>3. ASSUME NEW v \in Revision, Output(v) PROVE LogsInv'
  <2>1. out' \in [Revision -> Nat]
    BY <1>1, <1>3 DEF Output
  <2>2. QED
    BY <1>3, <2>1, WorldInv DEF Output
<1>4. ASSUME NEW v \in Revision, Start(v) PROVE LogsInv'
  BY <1>1, <1>4, WorldInv DEF Start
<1>5. ASSUME NEW v \in Revision, Promote(v) PROVE LogsInv'
  BY <1>1, <1>5, WorldInv DEF Promote
<1>6. ASSUME NEW v \in Revision, RemoveContainer(v) PROVE LogsInv'
  <2>1. out' \in [Revision -> Nat]
    BY <1>1, <1>6 DEF RemoveContainer
  <2>2. QED
    BY <1>6, <2>1, WorldInv DEF RemoveContainer
<1>7. QED
  BY <1>2, <1>3, <1>4, <1>5, <1>6

(* Steps that change the row alone: nobody's view of it gets worse as long  *)
(* as a request that is there stays, none is done that was not, and a       *)
(* delivery in progress keeps it from being done.                           *)
LEMMA RowInv ==
    ASSUME LogsInv, req' \in LogRow, req.st # "none", req'.st # "none",
           req.st = "gone" => req'.st = "gone",
           req.st = "done" => req'.st \in {"done", "gone"},
           req'.st = "done" => req.st = "done",
           swept' \in BOOLEAN, swept' => req'.st = "gone",
           UNCHANGED <<out, buf, others, cli, ag>>
    PROVE  LogsInv'
<1>1. LogsType' /\ Numbered(buf)' /\ (Entries <= MaxBuffers)'
  BY DEF LogsInv, LogsType, Entries
<1>2. Quiet => Quiet'
  BY DEF Quiet
<1>3. SessionInv
  BY DEF LogsInv
<1>4. cli.pc \in {"row", "buffer"} /\ req'.st # "gone" /\ ~cli.idled
        => Follows(buf, cli.cursor, cli.news)
  BY <1>3 DEF SessionInv
<1>5. cli.pc \in {"row", "buffer"} /\ req'.st = "done" => Quiet'
  BY <1>2, <1>3 DEF SessionInv
<1>6. SessionInv'
  <2>1. (cli.pc = "buffer" /\ cli.saw = "done" => Quiet) /\ (cli.ok => Quiet /\ cli.news = << >>)
    BY <1>3 DEF SessionInv
  <2>2. QED
    BY <1>2, <1>4, <1>5, <2>1 DEF SessionInv
<1>7. QED
  BY <1>1, <1>6 DEF LogsInv

(* A deletion of the instance, an expiry and a sweep change the row alone.  *)
LEMMA RowSteps ==
    ASSUME LogsInv,
           \/ \E v \in Revision : DeleteInstances(v)
           \/ Expire \/ SweepLogRequests
    PROVE  LogsInv'
<1>1. req \in LogRow /\ swept \in BOOLEAN /\ out \in [Revision -> Nat]
  BY DEF LogsInv, LogsType
<1>2. Gone \in LogRow /\ Gone.st = "gone"
  <2>1. NoSince \in Int /\ 1 \in Revision
    BY DEF NoSince, Revision
  <2>2. NoReq \in LogRow
    BY <2>1 DEF NoReq, LogRow
  <2>3. QED
    BY <2>2 DEF Gone, LogRow
<1>3. swept => req.st = "gone"
  BY DEF LogsInv, SessionInv
<1>4. ASSUME NEW v \in Revision, DeleteInstances(v) PROVE LogsInv'
  <2>1. CASE req.st # "none" /\ req.rev = v
    BY <1>1, <1>2, <1>4, <2>1, RowInv DEF DeleteInstances
  <2>2. CASE ~(req.st # "none" /\ req.rev = v)
    BY <1>1, <1>4, <2>2, WorldInv DEF DeleteInstances
  <2>3. QED
    BY <2>1, <2>2
<1>5. CASE Expire
  <2>1. req' \in LogRow /\ req'.st = req.st /\ req.st # "none"
    BY <1>1, <1>5, Zenon DEF Expire, LogRow
  <2>2. QED
    BY <1>1, <1>3, <1>5, <2>1, RowInv DEF Expire, world
<1>6. CASE SweepLogRequests
  <2>1. req' = Gone /\ swept' = TRUE /\ req.due
    BY <1>6 DEF SweepLogRequests
  <2>2. req.st # "none"
    BY <2>1 DEF LogsInv, SessionInv, NoReq
  <2>3. QED
    BY <1>1, <1>2, <1>6, <2>1, <2>2, RowInv DEF SweepLogRequests, world
<1>7. QED
  BY <1>4, <1>5, <1>6

(* A session that has ended its turns sees nothing any more, and the buffer *)
(* may go.                                                                  *)
LEMMA AwayInv ==
    ASSUME LogsInv, cli' \in LogSession, cli'.pc \notin {"row", "buffer"},
           cli'.ok => cli.ok /\ cli'.news = cli.news,
           req' \in LogRow, req.st # "none", req'.st # "none", Quiet => Quiet',
           req.st = "gone" => req'.st = "gone", buf' \in {buf, NoBuf},
           UNCHANGED <<out, others, ag, swept>>
    PROVE  LogsInv'
<1>1. LogsType'
  BY NoBufFits DEF LogsInv, LogsType
<1>2. Numbered(buf')
  BY NoBufFits DEF LogsInv
<1>3. Entries' <= MaxBuffers
  BY NoBufFits, LogsAssumption DEF LogsInv, LogsType, LogBuffer, Entries
<1>4. SessionInv'
  <2>1. (swept => req.st = "gone") /\ (cli.ok => Quiet /\ cli.news = << >>)
    BY DEF LogsInv, SessionInv
  <2>2. QED
    BY <2>1 DEF SessionInv
<1>5. QED
  BY <1>1, <1>2, <1>3, <1>4 DEF LogsInv

(* A session is there only after its request.                               *)
LEMMA SessionHasRow ==
    ASSUME LogsInv, cli.pc # "none" \/ ag.pc # "idle" \/ buf.held
    PROVE  req.st # "none"
BY DEF LogsInv, SessionInv, NoCli

(* A closed session.                                                        *)
LEMMA ClosedFits == Closed \in LogSession /\ Closed.pc = "closed" /\ Closed.ok = FALSE
<1>1. NoCli \in LogSession /\ NoCli.ok = FALSE
  BY DEF NoCli, LogSession
<1>2. QED
  BY <1>1 DEF Closed, LogSession

(* The session's end: it leaves, closes the request, drops the buffer.      *)
LEMMA EndInv == LogsInv /\ (Leave \/ CloseLogRequest \/ DropClosed) => LogsInv'
<1> SUFFICES ASSUME LogsInv, Leave \/ CloseLogRequest \/ DropClosed PROVE LogsInv'
  OBVIOUS
<1>1. cli \in LogSession /\ req \in LogRow
  BY DEF LogsInv, LogsType
<1>2. Closed \in LogSession /\ Closed.pc = "closed" /\ Closed.ok = FALSE
  BY ClosedFits
<1>3. CASE Leave
  <2>1. req.st # "none"
    BY <1>3, SessionHasRow DEF Leave
  <2>2. CASE cli' = Closed
    BY <1>1, <1>2, <1>3, <2>1, <2>2, AwayInv DEF Leave, world, Quiet
  <2>3. CASE cli' = [cli EXCEPT !.pc = "close"]
    <3>1. cli' \in LogSession /\ cli'.pc = "close" /\ cli'.ok = cli.ok /\ cli'.news = cli.news
      BY <1>1, <2>3, Zenon DEF LogSession
    <3>2. QED
      BY <1>1, <1>3, <2>1, <3>1, AwayInv DEF Leave, world, Quiet
  <2>4. QED
    BY <1>3, <2>2, <2>3 DEF Leave
<1>4. CASE CloseLogRequest
  <2>1. req.st # "none"
    BY <1>4, SessionHasRow DEF CloseLogRequest
  <2>2. CASE req.st = "gone"
    BY <1>1, <1>2, <1>4, <2>1, <2>2, AwayInv DEF CloseLogRequest, world, Quiet
  <2>3. CASE req.st # "gone"
    <3>1. /\ cli' = [cli EXCEPT !.pc = "drop"]
          /\ req' = [req EXCEPT !.st = IF @ = "pending" THEN "done" ELSE @]
          /\ UNCHANGED <<out, buf, others, ag, swept>>
      BY <1>4, <2>3 DEF CloseLogRequest, world
    <3>2. cli' \in LogSession /\ cli'.pc = "drop" /\ cli'.ok = cli.ok /\ cli'.news = cli.news
      BY <1>1, <3>1, Zenon DEF LogSession
    <3>3. req' \in LogRow /\ req'.st = (IF req.st = "pending" THEN "done" ELSE req.st)
      BY <1>1, <3>1 DEF LogRow
    <3>4. Quiet => Quiet'
      BY <3>1, <3>3 DEF Quiet
    <3>5. QED
      BY <2>1, <2>3, <3>1, <3>2, <3>3, <3>4, AwayInv
  <2>4. QED
    BY <2>2, <2>3
<1>5. CASE DropClosed
  <2>1. req.st # "none"
    BY <1>5, SessionHasRow DEF DropClosed
  <2>2. QED
    BY <1>1, <1>2, <1>5, <2>1, AwayInv DEF DropClosed, world, Quiet
<1>6. QED
  BY <1>3, <1>4, <1>5

(* handleGetLogs reads the row: what is done is quiet by then.              *)
LEMMA GetInv == LogsInv /\ GetLogRequest => LogsInv'
<1> SUFFICES ASSUME LogsInv, GetLogRequest PROVE LogsInv'
  OBVIOUS
<1>1. cli \in LogSession /\ req \in LogRow /\ cli.pc = "row"
  BY DEF LogsInv, LogsType, GetLogRequest
<1>2. req.st # "none"
  BY <1>1, SessionHasRow
<1>3. CASE req.st = "gone"
  BY <1>1, <1>2, <1>3, ClosedFits, AwayInv DEF GetLogRequest, world, Quiet
<1>4. CASE req.st # "gone"
  <2>1. cli' = [cli EXCEPT !.pc = "buffer", !.saw = req.st] /\ UNCHANGED <<out, req, buf, others, ag, swept>>
    BY <1>4 DEF GetLogRequest, world
  <2>2. /\ cli' \in LogSession /\ cli'.pc = "buffer" /\ cli'.saw = req.st /\ cli'.ok = cli.ok
        /\ cli'.news = cli.news /\ cli'.idled = cli.idled /\ cli'.cursor = cli.cursor
    BY <1>1, <1>2, <1>4, <2>1, Zenon DEF LogSession, LogRow
  <2>3. LogsType' /\ Numbered(buf)' /\ Entries' <= MaxBuffers
    BY <2>1, <2>2 DEF LogsInv, LogsType, Entries
  <2>4. SessionInv /\ (Quiet' <=> Quiet)
    BY <2>1 DEF LogsInv, Quiet
  <2>5. SessionInv'
    BY <1>1, <1>2, <2>1, <2>2, <2>4 DEF SessionInv
  <2>6. QED
    BY <2>3, <2>5 DEF LogsInv
<1>5. QED
  BY <1>3, <1>4

(* An entry that was touched or not is the same entry.                      *)
LEMMA TouchedFits ==
    ASSUME NEW b \in LogBuffer, NEW x \in BOOLEAN, x => b.held
    PROVE  LET t == [b EXCEPT !.stale = x] IN
           /\ t \in LogBuffer /\ t.held = b.held /\ t.next = b.next
           /\ Numbered(b) => Numbered(t)
           /\ \A cursor, news : Follows(b, cursor, news) => Follows(t, cursor, news)
<1> DEFINE t == [b EXCEPT !.stale = x]
<1>1. t \in LogBuffer /\ t.held = b.held /\ t.next = b.next /\ t.chunks = b.chunks
      /\ t.dropped = b.dropped /\ t.stale = x
  BY DEF LogBuffer
<1> HIDE DEF t
<1>2. Numbered(b) => Numbered(t)
  BY <1>1 DEF Numbered
<1>3. \A cursor, news : Follows(b, cursor, news) => Follows(t, cursor, news)
  BY <1>1 DEF Follows
<1>4. QED
  BY <1>1, <1>2, <1>3 DEF t

(* A page is printed: the session has seen all there is.                    *)
LEMMA ReadInv == LogsInv /\ ReadLogs => LogsInv'
<1> SUFFICES ASSUME LogsInv, ReadLogs PROVE LogsInv'
  OBVIOUS
<1>1. /\ cli \in LogSession /\ buf \in LogBuffer /\ cli.pc = "buffer" /\ Numbered(buf)
      /\ LogsType /\ SessionInv /\ Entries <= MaxBuffers
  BY DEF LogsInv, LogsType, ReadLogs
<1>2. req.st # "none"
  BY <1>1, SessionHasRow
<1>3. /\ buf' = [buf EXCEPT !.stale = FALSE]
      /\ UNCHANGED <<out, req, others, ag, swept>>
  BY DEF ReadLogs, world
<1>4. PICK pc \in {"row", "close"}, ok \in BOOLEAN :
         /\ ok => cli.saw = "done"
         /\ cli' = [cli EXCEPT !.pc = pc, !.saw = "pending", !.news = << >>,
                               !.cursor = IF buf.held THEN buf.next ELSE @,
                               !.ok = ok]
  <2> DEFINE over == cli.saw = "failed" \/ (~req.follow /\ cli.saw = "done")
  <2>1. PICK pc \in {"row", "close"} :
           cli' = [cli EXCEPT !.pc = pc, !.saw = "pending", !.news = << >>,
                              !.cursor = IF buf.held THEN buf.next ELSE @,
                              !.ok = over /\ cli.saw = "done"]
    BY Zenon DEF ReadLogs
  <2>2. (over /\ cli.saw = "done") \in BOOLEAN
    OBVIOUS
  <2>3. QED
    BY <2>1, <2>2, Zenon
<1>5. /\ cli' \in LogSession /\ cli'.pc = pc /\ cli'.saw = "pending" /\ cli'.news = << >>
      /\ cli'.cursor = (IF buf.held THEN buf.next ELSE cli.cursor) /\ cli'.ok = ok
      /\ cli'.idled = cli.idled
  <2>1. << >> \in Seq(Int \X Int) /\ (IF buf.held THEN buf.next ELSE cli.cursor) \in Nat
    BY <1>1 DEF LogBuffer, LogSession
  <2>2. QED
    BY <1>1, <1>4, <2>1, Zenon DEF LogSession
<1>6. /\ buf' \in LogBuffer /\ buf'.held = buf.held /\ buf'.next = buf.next /\ Numbered(buf')
  BY <1>1, <1>3, TouchedFits, Zenon
<1>7. LogsType' /\ Entries' <= MaxBuffers
  BY <1>1, <1>3, <1>5, <1>6 DEF LogsType, Entries
<1>8. ASSUME cli'.pc \in {"row", "buffer"}, req.st # "gone", ~cli.idled
      PROVE  Follows(buf', cli'.cursor, cli'.news)
  <2>1. Follows(buf, cli.cursor, cli.news)
    BY <1>1, <1>8 DEF SessionInv
  <2>2. cli.cursor <= buf.next /\ (~buf.held => buf.next = 0) /\ buf.next \in Nat /\ cli.cursor \in Nat
    BY <1>1, <2>1 DEF Follows, Numbered, LogBuffer, LogSession
  <2>3. cli'.cursor = buf'.next
    BY <1>5, <1>6, <2>2
  <2>4. \A k \in 1..Len(buf'.chunks) : ~(buf'.chunks[k].seq >= cli'.cursor)
    <3>1. Len(buf'.chunks) \in Nat /\ buf'.next \in Nat
      BY <1>6 DEF LogBuffer
    <3>2. \A k \in 1..Len(buf'.chunks) : buf'.chunks[k].seq = buf'.next - Len(buf'.chunks) + k - 1
      BY <1>6 DEF Numbered
    <3>3. ASSUME NEW n \in Nat, NEW l \in Nat, NEW k \in 1..l PROVE ~(n - l + k - 1 >= n)
      OBVIOUS
    <3>4. QED
      BY <2>3, <3>1, <3>2, <3>3
  <2>5. Len(cli'.news) = 0 /\ buf'.next - cli'.cursor = 0 /\ cli'.cursor <= buf'.next
    BY <1>5, <1>6, <2>2, <2>3
  <2>6. QED
    BY <2>4, <2>5 DEF Follows
<1>9. Quiet' <=> Quiet
  BY <1>3 DEF Quiet
<1>10. SessionInv'
  <2>1. cli'.ok => Quiet
    BY <1>1, <1>4, <1>5 DEF SessionInv
  <2>2. cli'.pc \in {"row", "buffer"} /\ req.st = "done" => Quiet
    BY <1>1 DEF SessionInv
  <2>3. swept => req.st = "gone"
    BY <1>1 DEF SessionInv
  <2>4. QED
    BY <1>2, <1>3, <1>5, <1>8, <1>9, <2>1, <2>2, <2>3 DEF SessionInv
<1>11. QED
  BY <1>6, <1>7, <1>10 DEF LogsInv

(* A request is made: the session starts with an empty page.                *)
LEMMA CreateInv ==
    ASSUME LogsInv, NEW follow \in BOOLEAN, CreateLogRequest(follow)
    PROVE  LogsInv'
<1>1. /\ LogsType /\ SessionInv /\ Numbered(buf) /\ Entries <= MaxBuffers /\ req.st = "none"
      /\ buf \in LogBuffer
  BY DEF LogsInv, LogsType, CreateLogRequest
<1>2. cli = NoCli /\ ag.pc = "idle" /\ ~buf.held /\ ~swept
  BY <1>1 DEF SessionInv
<1>3. Resolved \in Revision
  <2>1. Active # {} /\ Active \subseteq Revision
    BY DEF CreateLogRequest, Active
  <2>2. \E v \in Active : \A w \in Active : w <= v
    <3>1. \A w \in Active : w = 1 \/ w = 2
      BY <2>1 DEF Revision
    <3>2. CASE 2 \in Active
      BY <3>1, <3>2
    <3>3. CASE 2 \notin Active
      BY <2>1, <3>1, <3>3
    <3>4. QED
      BY <3>2, <3>3
  <2>3. QED
    BY <2>1, <2>2 DEF Resolved
<1>4. /\ req' = [NoReq EXCEPT !.st = "pending", !.follow = follow, !.rev = Resolved]
      /\ cli' = [cli EXCEPT !.pc = "row"]
      /\ UNCHANGED <<out, buf, others, ag, swept>>
  BY DEF CreateLogRequest, world
<1>5. req' \in LogRow /\ req'.st = "pending"
  <2>1. NoReq \in LogRow
    BY DEF NoReq, LogRow, Revision, NoSince
  <2>2. QED
    BY <1>3, <1>4, <2>1, Zenon DEF LogRow
<1>6. /\ cli' \in LogSession /\ cli'.pc = "row" /\ cli'.cursor = 0 /\ cli'.news = << >>
      /\ cli'.ok = FALSE
  <2>1. NoCli \in LogSession /\ NoCli.cursor = 0 /\ NoCli.news = << >> /\ NoCli.ok = FALSE
    BY DEF NoCli, LogSession
  <2>2. QED
    BY <1>2, <1>4, <2>1 DEF LogSession
<1>7. LogsType' /\ Entries' <= MaxBuffers
  BY <1>1, <1>4, <1>5, <1>6 DEF LogsType, Entries
<1>8. Follows(buf, 0, << >>)
  <2>1. buf.next = 0 /\ Len(buf.chunks) \in Nat /\ Len(buf.chunks) <= buf.next
    BY <1>1, <1>2 DEF Numbered, LogBuffer
  <2>2. Len(buf.chunks) = 0 /\ Len(<< >>) = 0
    BY <2>1
  <2>3. QED
    BY <2>1, <2>2 DEF Follows
<1>9. SessionInv'
  BY <1>2, <1>4, <1>5, <1>6, <1>8 DEF SessionInv
<1>10. QED
  BY <1>1, <1>4, <1>7, <1>9 DEF LogsInv

(* The agent's tick moves on its own: it starts only for a request that     *)
(* waits.                                                                   *)
LEMMA TickInv ==
    ASSUME LogsInv, ag' \in LogTick, ag.pc = "idle" => ag'.pc = "idle" \/ req.st = "pending",
           UNCHANGED <<out, req, buf, others, cli, swept>>
    PROVE  LogsInv'
<1>1. LogsType' /\ Numbered(buf)' /\ Entries' <= MaxBuffers
  BY DEF LogsInv, LogsType, Entries
<1>2. SessionInv /\ (Quiet => Quiet')
  BY DEF LogsInv, Quiet
<1>3. SessionInv'
  BY <1>2 DEF SessionInv
<1>4. QED
  BY <1>1, <1>3 DEF LogsInv

(* The tick up to its delivery.                                             *)
LEMMA CollectInv ==
    ASSUME LogsInv, LogRequestsForNode \/ CollectLogs \/ LoseDelivery \/ LogRequestOwnedByNode
    PROVE  LogsInv'
<1>1. req \in LogRow /\ ag \in LogTick /\ out \in [Revision -> Nat]
  BY DEF LogsInv, LogsType
<1>2. Idle \in LogTick
  BY DEF Idle, LogTick, Revision, NoSince
<1>3. CASE LogRequestsForNode
  <2>1. ag' = [Idle EXCEPT !.pc = "read", !.rev = req.rev, !.since = req.since]
        /\ req.st = "pending" /\ UNCHANGED <<out, req, buf, others, cli, swept>>
    BY <1>3 DEF LogRequestsForNode, world
  <2>2. ag' \in LogTick
    BY <1>1, <1>2, <2>1, Zenon DEF LogTick, LogRow
  <2>3. QED
    BY <2>1, <2>2, TickInv
<1>4. CASE CollectLogs
  <2> DEFINE d == ContainerLogs(ag.rev, ag.since)
             later == {k \in 1..out[ag.rev] : k > ag.since /\ k > out[ag.rev] - TailLines}
  <2>1. /\ ag' = [Idle EXCEPT !.pc = "post", !.lo = d.lo, !.hi = d.hi, !.err = d.err]
        /\ ag.pc = "read" /\ UNCHANGED <<out, req, buf, others, cli, swept>>
    BY <1>4 DEF CollectLogs, world
  <2>2. out[ag.rev] \in Nat
    BY <1>1 DEF LogTick
  <2>3. Cardinality(later) \in Nat
    <3>1. IsFiniteSet(1..out[ag.rev])
      BY <2>2, 1 \in Int, out[ag.rev] \in Int, FS_Interval, Zenon
    <3>2. IsFiniteSet(later)
      BY <3>1, FS_Subset, Zenon
    <3> HIDE DEF later
    <3>3. QED
      BY <3>2, FS_CardinalityType
  <2>4. d = IF ctr[ag.rev]
            THEN [lo |-> out[ag.rev] - Cardinality(later), hi |-> out[ag.rev], err |-> FALSE]
            ELSE [lo |-> 0, hi |-> 0, err |-> TRUE]
    BY DEF ContainerLogs
  <2> HIDE DEF d, later
  <2>5. d.lo \in Int /\ d.hi \in Int /\ d.err \in BOOLEAN
    BY <2>2, <2>3, <2>4
  <2>6. ag' \in LogTick
    BY <1>2, <2>1, <2>5, Zenon DEF LogTick
  <2>7. QED
    BY <2>1, <2>6, TickInv
<1>5. CASE LoseDelivery
  BY <1>2, <1>5, TickInv DEF LoseDelivery, world
<1>6. CASE LogRequestOwnedByNode
  <2>1. ag' \in LogTick
    BY <1>1, <1>2, <1>6 DEF LogRequestOwnedByNode, LogTick
  <2>2. QED
    BY <1>6, <2>1, TickInv DEF LogRequestOwnedByNode, world
<1>7. QED
  BY <1>3, <1>4, <1>5, <1>6

(* A delivery is written: the session has it among its news.                *)
LEMMA DeliverInv == LogsInv /\ WriteDelivery => LogsInv'
<1> SUFFICES ASSUME LogsInv, WriteDelivery PROVE LogsInv'
  OBVIOUS
<1>1. /\ LogsType /\ SessionInv /\ Numbered(buf) /\ Entries <= MaxBuffers
      /\ buf \in LogBuffer /\ cli \in LogSession /\ ag \in LogTick /\ others \in Nat
  BY DEF LogsInv, LogsType
<1>2. /\ ag.pc = "write" /\ ag' = [ag EXCEPT !.pc = "complete"]
      /\ UNCHANGED <<out, req, others, swept>>
  BY DEF WriteDelivery, world
<1>3. ag' \in LogTick /\ ag'.pc = "complete"
  BY <1>1, <1>2 DEF LogTick
<1>4. CASE ~(ag.hi > ag.lo /\ (buf.held \/ Entries < MaxBuffers))
  BY <1>2, <1>3, <1>4, TickInv DEF WriteDelivery
<1>5. CASE ag.hi > ag.lo /\ (buf.held \/ Entries < MaxBuffers)
  <2>1. /\ buf' = Write(buf, ag.lo, ag.hi)
        /\ cli' = IF cli.pc = "closed" THEN cli
                  ELSE [cli EXCEPT !.news = Append(@, <<ag.lo, ag.hi>>)]
    BY <1>5 DEF WriteDelivery
  <2>2. ag.lo \in Int /\ ag.hi \in Int
    BY <1>1 DEF LogTick
  <2>3. buf' \in LogBuffer /\ buf'.held = TRUE /\ Numbered(buf')
    BY <1>1, <2>1, <2>2, WriteIs, Zenon
  <2>4. /\ cli' \in LogSession /\ cli'.pc = cli.pc /\ cli'.cursor = cli.cursor
        /\ cli'.saw = cli.saw /\ cli'.ok = cli.ok /\ cli'.idled = cli.idled
        /\ cli.pc # "closed" => cli'.news = Append(cli.news, <<ag.lo, ag.hi>>)
    <3>1. <<ag.lo, ag.hi>> \in Int \X Int /\ cli.news \in Seq(Int \X Int)
      BY <1>1, <2>2 DEF LogSession
    <3>2. Append(cli.news, <<ag.lo, ag.hi>>) \in Seq(Int \X Int)
      BY <3>1
    <3>3. QED
      BY <1>1, <2>1, <3>2, Zenon DEF LogSession
  <2>5. LogsType'
    BY <1>1, <1>2, <1>3, <2>3, <2>4 DEF LogsType
  <2>6. Entries' <= MaxBuffers
    BY <1>1, <1>2, <1>5, <2>3, LogsAssumption DEF Entries, LogBuffer
  <2>7. req.st # "none" /\ ~Quiet
    BY <1>2, SessionHasRow DEF Quiet
  <2>8. ASSUME cli.pc \in {"row", "buffer"}, req.st # "gone", ~cli.idled
        PROVE  Follows(buf', cli'.cursor, cli'.news)
    <3>1. Follows(buf, cli.cursor, cli.news)
      BY <1>1, <2>8 DEF SessionInv
    <3>2. cli.cursor \in Nat /\ cli.news \in Seq(Int \X Int)
      BY <1>1 DEF LogSession
    <3>3. QED
      BY <1>1, <2>1, <2>2, <2>4, <2>8, <3>1, <3>2, WriteFollows
  <2>9. SessionInv'
    BY <1>1, <1>2, <2>4, <2>7, <2>8 DEF SessionInv
  <2>10. QED
    BY <2>3, <2>5, <2>6, <2>9 DEF LogsInv
<1>6. QED
  BY <1>4, <1>5

(* The row is moved on: once it is done, no delivery is left.               *)
LEMMA CompleteInv == LogsInv /\ CompleteLogRequest => LogsInv'
<1> SUFFICES ASSUME LogsInv, CompleteLogRequest PROVE LogsInv'
  OBVIOUS
<1>1. /\ LogsType /\ SessionInv /\ Numbered(buf) /\ Entries <= MaxBuffers
      /\ req \in LogRow /\ ag \in LogTick /\ out \in [Revision -> Nat]
  BY DEF LogsInv, LogsType
<1>2. ag.pc = "complete" /\ ag' = Idle /\ UNCHANGED <<out, buf, others, cli, swept>>
  BY DEF CompleteLogRequest, world
<1>3. req.st # "none" /\ ~Quiet
  BY <1>2, SessionHasRow DEF Quiet
<1>4. Idle \in LogTick /\ Idle.pc = "idle"
  BY DEF Idle, LogTick, Revision, NoSince
<1>5. CASE req' = req
  BY <1>2, <1>4, <1>5, TickInv
<1>6. CASE req.st # "gone" /\ req' # req
  <2>1. req' = IF ag.err THEN [req EXCEPT !.st = "failed"]
               ELSE IF ~req.follow THEN [req EXCEPT !.st = "done"]
               ELSE [req EXCEPT !.st = "pending", !.since = out[req.rev], !.sent = ag.hi]
    BY <1>6 DEF CompleteLogRequest
  <2>2. out[req.rev] \in Int /\ ag.hi \in Int
    BY <1>1 DEF LogRow, LogTick
  <2>3. req' \in LogRow /\ req'.st \in {"failed", "done", "pending"}
    BY <1>1, <2>1, <2>2, Zenon DEF LogRow
  <2>4. LogsType' /\ Entries' <= MaxBuffers
    BY <1>1, <1>2, <1>4, <2>3 DEF LogsType, Entries
  <2>5. req'.st = "done" => Quiet'
    BY <1>2, <1>4 DEF Quiet
  <2>6. SessionInv'
    <3>1. ~swept /\ ~cli.ok /\ ~(cli.pc = "buffer" /\ cli.saw = "done")
      BY <1>1, <1>3, <1>6 DEF SessionInv
    <3>2. cli.pc \in {"row", "buffer"} /\ ~cli.idled => Follows(buf, cli.cursor, cli.news)
      BY <1>1, <1>6 DEF SessionInv
    <3>3. QED
      BY <1>2, <2>3, <2>5, <3>1, <3>2 DEF SessionInv
  <2>7. QED
    BY <1>1, <1>2, <2>4, <2>6 DEF LogsInv
<1>7. QED
  BY <1>5, <1>6 DEF CompleteLogRequest

(* Time passes: entries age and go, other requests come and go.             *)
LEMMA TimeInv == LogsInv /\ (Age \/ FreeBuffer \/ OtherRequests) => LogsInv'
<1> SUFFICES ASSUME LogsInv, Age \/ FreeBuffer \/ OtherRequests PROVE LogsInv'
  OBVIOUS
<1>1. /\ LogsType /\ SessionInv /\ Numbered(buf) /\ Entries <= MaxBuffers
      /\ buf \in LogBuffer /\ cli \in LogSession /\ others \in Nat
  BY DEF LogsInv, LogsType
<1>2. CASE Age
  <2>1. /\ buf' = [buf EXCEPT !.stale = TRUE] /\ buf.held
        /\ UNCHANGED <<out, req, others, cli, ag, swept>>
    BY <1>2 DEF Age, world
  <2>2. /\ buf' \in LogBuffer /\ buf'.held = buf.held /\ Numbered(buf')
        /\ Follows(buf, cli.cursor, cli.news) => Follows(buf', cli.cursor, cli.news)
    BY <1>1, <2>1, TouchedFits, Zenon
  <2>3. LogsType' /\ Entries' <= MaxBuffers
    BY <1>1, <2>1, <2>2 DEF LogsType, Entries
  <2>4. Quiet' <=> Quiet
    BY <2>1 DEF Quiet
  <2>5. SessionInv'
    BY <1>1, <2>1, <2>2, <2>4 DEF SessionInv
  <2>6. QED
    BY <2>2, <2>3, <2>5 DEF LogsInv
<1>3. CASE FreeBuffer
  <2>1. /\ buf' = NoBuf /\ swept' = FALSE /\ UNCHANGED <<out, req, others, ag>>
        /\ cli' = IF cli.pc = "closed" THEN cli
                  ELSE [cli EXCEPT !.news = << >>, !.idled = @ \/ ~swept]
        /\ swept \/ buf.stale
    BY <1>3 DEF FreeBuffer, world
  <2>2. << >> \in Seq(Int \X Int) /\ (cli.idled \/ ~swept) \in BOOLEAN
    OBVIOUS
  <2>3. /\ cli' \in LogSession /\ cli'.pc = cli.pc /\ cli'.ok = cli.ok /\ cli'.saw = cli.saw
        /\ cli.pc # "closed" => cli'.news = << >> /\ cli'.idled = (cli.idled \/ ~swept)
        /\ cli.pc = "closed" => cli' = cli
    BY <1>1, <2>1, <2>2, Zenon DEF LogSession
  <2>4. LogsType' /\ Numbered(buf') /\ Entries' <= MaxBuffers
    <3>1. NoBuf \in LogBuffer /\ Numbered(NoBuf) /\ NoBuf.held = FALSE
      BY NoBufFits DEF NoBuf
    <3>2. LogsType'
      BY <1>1, <2>1, <2>3, <3>1, Zenon DEF LogsType
    <3>3. Entries = others + (IF buf.held THEN 1 ELSE 0)
          /\ Entries' = others' + (IF buf'.held THEN 1 ELSE 0)
      BY DEF Entries
    <3>4. Entries' <= MaxBuffers
      BY <1>1, <2>1, <3>1, <3>3, LogsAssumption
    <3>5. QED
      BY <2>1, <3>1, <3>2, <3>4
  <2>5. Quiet' <=> Quiet
    BY <2>1 DEF Quiet
  <2>6. req.st # "none"
    <3>1. CASE swept
      BY <1>1, <3>1 DEF SessionInv
    <3>2. CASE ~swept
      BY <1>1, <2>1, <3>2 DEF SessionInv, Numbered
    <3>3. QED
      BY <3>1, <3>2
  <2>7. cli.pc \in {"row", "buffer"} /\ req.st # "gone" => cli'.idled
    BY <1>1, <2>3, Zenon DEF SessionInv
  <2>8. SessionInv'
    BY <1>1, <2>1, <2>3, <2>5, <2>6, <2>7 DEF SessionInv
  <2>9. QED
    BY <2>4, <2>8 DEF LogsInv
<1>4. CASE OtherRequests
  <2>1. /\ others' \in {others - 1, others + 1} \cap Nat
        /\ others' > others => Entries < MaxBuffers
        /\ UNCHANGED <<out, req, buf, cli, ag, swept>>
    BY <1>4 DEF OtherRequests, world
  <2>2. LogsType'
    BY <1>1, <2>1 DEF LogsType
  <2>3. Entries' <= MaxBuffers
    <3>1. Entries = others + (IF buf.held THEN 1 ELSE 0) /\ Entries' = others' + (IF buf.held THEN 1 ELSE 0)
      BY <2>1 DEF Entries
    <3>2. CASE others' = others + 1
      BY <1>1, <2>1, <3>1, <3>2, LogsAssumption
    <3>3. CASE others' = others - 1
      BY <1>1, <2>1, <3>1, <3>3, LogsAssumption
    <3>4. QED
      BY <2>1, <3>2, <3>3
  <2>4. SessionInv'
    BY <1>1, <2>1 DEF SessionInv, Quiet
  <2>5. QED
    BY <1>1, <2>1, <2>2, <2>3, <2>4 DEF LogsInv
<1>5. QED
  BY <1>2, <1>3, <1>4

(* Every step keeps the invariant.                                          *)
LEMMA LogsNextInv == LogsInv /\ [LogsNext]_logVars => LogsInv'
<1> SUFFICES ASSUME LogsInv, [LogsNext]_logVars PROVE LogsInv'
  OBVIOUS
<1>1. CASE Place \/ \E v \in Revision : Output(v) \/ Start(v) \/ Promote(v) \/ RemoveContainer(v)
  BY <1>1, RolloutsInv
<1>2. CASE (\E v \in Revision : DeleteInstances(v)) \/ Expire \/ SweepLogRequests
  BY <1>2, RowSteps
<1>3. CASE \E follow \in BOOLEAN : CreateLogRequest(follow)
  BY <1>3, CreateInv
<1>4. CASE GetLogRequest \/ ReadLogs \/ Leave \/ CloseLogRequest \/ DropClosed
  BY <1>4, GetInv, ReadInv, EndInv
<1>5. CASE Tick
  BY <1>5, CollectInv, DeliverInv, CompleteInv DEF Tick
<1>6. CASE Age \/ FreeBuffer \/ OtherRequests
  BY <1>6, TimeInv
<1>7. CASE UNCHANGED logVars
  <2>1. UNCHANGED <<out, req, buf, others, cli, ag, swept>>
    BY <1>7 DEF logVars
  <2>2. QED
    BY <2>1, WorldInv DEF LogsInv, LogsType
<1>8. QED
  BY <1>1, <1>2, <1>3, <1>4, <1>5, <1>6, <1>7 DEF LogsNext

(* The invariant gives what a session is shown.                             *)
LEMMA LogsInvSeesAll == LogsInv => SessionSeesAll
<1> SUFFICES ASSUME LogsInv PROVE SessionSeesAll
  OBVIOUS
<1>1. buf \in LogBuffer /\ cli \in LogSession /\ Numbered(buf) /\ SessionInv
  BY DEF LogsInv, LogsType
<1>2. ASSUME cli.pc \in {"row", "buffer"}, req.st # "gone", ~cli.idled
      PROVE  \/ Shown(buf, cli.cursor) = cli.news
             \/ buf.dropped /\ IsSuffix(Shown(buf, cli.cursor), cli.news)
  <2>1. Follows(buf, cli.cursor, cli.news)
    BY <1>1, <1>2 DEF SessionInv
  <2>2. QED
    BY <1>1, <2>1, PageShowsNews
<1>3. PageIsNews
  BY <1>2 DEF PageIsNews, Shown
<1>4. OneShotComplete
  BY <1>1 DEF SessionInv, OneShotComplete
<1>5. QED
  BY <1>3, <1>4 DEF SessionSeesAll

(* However fast the containers write, whatever a delivery, a sweep or a     *)
(* close overtakes, and for every size of the buffer: a session is shown    *)
(* all that the buffer took for it, in order, or is told that the oldest    *)
(* was dropped; and one that ends because its request is done has seen all. *)
(* Write and Read in logbuf.go, handleLogDelivery and handleGetLogs.        *)
THEOREM LogsShown == LogsSpec => []SessionSeesAll
<1>1. LogsInv /\ [LogsNext]_logVars => LogsInv'
  BY LogsNextInv
<1>2. QED
  BY <1>1, LogsInitInv, LogsInvSeesAll, PTL DEF LogsSpec

(* For every limit, the buffer keeps to it: Write's count of entries and    *)
(* its trimming, with every party's steps in between.                       *)
THEOREM LogMemoryBounded == LogsSpec => []BufferBounded
<1>1. LogsInv => BufferBounded
  BY DEF LogsInv, Numbered, BufferBounded
<1>2. LogsInv /\ [LogsNext]_logVars => LogsInv'
  BY LogsNextInv
<1>3. QED
  BY <1>1, <1>2, LogsInitInv, PTL DEF LogsSpec

=============================================================================
